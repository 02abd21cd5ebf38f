---------------------------- MODULE VisionCache ----------------------------
(***************************************************************************)
(* What a vision model keeps of the images it has seen                     *)
(* (machboost/adapters/mlx_vlm.py, MLXVLMAccelerator; machboost/vision.py, *)
(* ContentAddressedVisionCache): the projected features of an image, and   *)
(* the key/value state of a prompt that begins with it.                    *)
(*                                                                         *)
(* Requests run one after the other on the accelerator's only worker.  An  *)
(* image is a file: another program may change it at any moment, and every *)
(* change gives it a new stamp (time and size).  What mlx_vlm does with a  *)
(* prompt state is external, taken from how the adapter uses it.           *)
(***************************************************************************)
EXTENDS Integers, Sequences

CONSTANTS Files, Contents,
          MaxSize,     \* max_size of both caches
          MaxEdits     \* bound: changes of files

VARIABLES
    family,    \* how the model encodes images: "encodes", "recurrent", "deepstack", "external"
    disk,      \* the files: content and stamp
    digests,   \* _file_digests: of each file the last digest, and the stamp it was read with
    features,  \* _cache: keys and features, the last used at the end
    prompts,   \* _prompt_caches: keys and what the key/value state was computed from
    pc,
    request,   \* the file, the resolution, and whether the caches may be used
    pixels,    \* of prepare_inputs
    readAt,    \* history: the stamp the file had then
    used,      \* the features of the request
    state,     \* the key of its prompt state
    seen,      \* history: what the answer was computed from
    during,    \* history: what the file has held since the request began
    keys,      \* history: the keys the request has used
    torn,      \* history: keys used after the file had changed under a request
    edits

caches == <<digests, features, prompts>>
run    == <<request, pixels, readAt, used, state, seen, keys>>
iVars  == <<family, disk, caches, pc, run, during, torn, edits>>

None == <<>>
Sizes == {"full", "small"}       \* resize_shape of choose_cold_vision
Families == {"encodes", "recurrent", "deepstack", "external"}
Requests == [file : Files, size : Sizes, cached : BOOLEAN]

Init ==
    /\ family \in Families
    /\ disk = [f \in Files |-> [content |-> CHOOSE c \in Contents : TRUE, stamp |-> 0]]
    /\ digests = <<>> /\ features = <<>> /\ prompts = <<>>
    /\ pc = "idle"
    /\ request = [file |-> CHOOSE f \in Files : TRUE, size |-> "full", cached |-> TRUE]
    /\ pixels = None /\ readAt = 0 /\ used = None /\ state = None /\ seen = None
    /\ during = {} /\ keys = {} /\ torn = {} /\ edits = 0

-----------------------------------------------------------------------------
(* The caches.                                                             *)

\* _file_key: the digest is the content's, read again only when the stamp has changed.
Digest(f) == IF f \in DOMAIN digests /\ digests[f].stamp = disk[f].stamp
             THEN digests[f].digest ELSE disk[f].content

\* key_for of _resolution_scoped_images.
KeyFor == <<Digest(request.file), request.size>>

Remember ==
    digests' = [f \in DOMAIN digests \cup {request.file} |->
                   IF f = request.file THEN [stamp |-> disk[f].stamp, digest |-> Digest(f)]
                                       ELSE digests[f]]

Has(entries, key)  == \E i \in DOMAIN entries : entries[i].key = key
At(entries, key)   == (CHOOSE i \in DOMAIN entries : entries[i].key = key)
Value(entries, key) == entries[At(entries, key)].value
Others(entries, key) ==
    IF Has(entries, key)
    THEN SubSeq(entries, 1, At(entries, key) - 1) \o
         SubSeq(entries, At(entries, key) + 1, Len(entries))
    ELSE entries

\* A new entry takes the place of the one that was not used for longest.
Stored(entries, key, value) ==
    LET kept == IF Has(entries, key) \/ Len(entries) < MaxSize THEN entries ELSE Tail(entries)
    IN  Append(Others(kept, key), [key |-> key, value |-> value])

Touched(entries, key) == Stored(entries, key, Value(entries, key))

\* _prompt_cache_for.  A recurrent model cannot go back to a token: its state is dropped.
PromptsFor(key) == IF Has(prompts, key) /\ family # "recurrent"
                   THEN Touched(prompts, key) ELSE Stored(prompts, key, None)

\* ContentAddressedVisionCache.clear.
Cleared == digests' = <<>> /\ features' = <<>>

\* The file has changed since its pixels were read: what is now found or stored under these
\* keys need not be of the same content.
Tear(keySet) == torn' = IF readAt = disk[request.file].stamp THEN torn ELSE torn \cup keySet

-----------------------------------------------------------------------------
(* _generate_on_worker, a step between two looks at the file.              *)

\* The caches are left aside when the request says so or its visual tokens are compressed.
Begin ==
    /\ pc = "idle"
    /\ request' \in Requests
    /\ pc' = IF request'.cached THEN "prepare" ELSE "stream"
    /\ during' = {disk[request'.file].content}
    /\ UNCHANGED <<family, disk, caches, pixels, readAt, used, state, seen, keys, torn, edits>>

\* prepare_inputs.
ReadPixels ==
    /\ pc = "prepare"
    /\ pixels' = disk[request.file].content
    /\ readAt' = disk[request.file].stamp
    /\ pc' = "prompt"
    /\ UNCHANGED <<family, disk, caches, request, used, state, seen, keys, during, torn, edits>>

PromptState ==
    /\ pc = "prompt"
    /\ Remember /\ keys' = keys \cup {KeyFor} /\ Tear({KeyFor})
    /\ state' = KeyFor
    /\ prompts' = PromptsFor(KeyFor)
    /\ pc' = IF family = "deepstack" THEN "stream" ELSE "lookup"
    /\ UNCHANGED <<family, disk, features, request, pixels, readAt, used, seen, during, edits>>

\* vision_cache.get; on a miss _encode_vision_features, which not every model has: the
\* request then streams without its prompt state.
Lookup ==
    /\ pc = "lookup"
    /\ Remember /\ keys' = keys \cup {KeyFor} /\ Tear({KeyFor, state})
    /\ IF Has(features, KeyFor)
       THEN /\ used' = Value(features, KeyFor)
            /\ features' = Touched(features, KeyFor)
            /\ pc' = "stream" /\ UNCHANGED state
       ELSE /\ UNCHANGED features
            /\ IF family = "external"
               THEN pc' = "stream" /\ state' = None /\ UNCHANGED used
               ELSE pc' = "store" /\ used' = <<pixels, request.size>> /\ UNCHANGED state
    /\ UNCHANGED <<family, disk, prompts, request, pixels, readAt, seen, during, edits>>

\* vision_cache.put, which looks at the file once more.
Store ==
    /\ pc = "store"
    /\ Remember /\ keys' = keys \cup {KeyFor} /\ Tear({KeyFor})
    /\ features' = Stored(features, KeyFor, used)
    /\ pc' = "stream"
    /\ UNCHANGED <<family, disk, prompts, request, pixels, readAt, used, state, seen, during,
                   edits>>

\* What the model is shown: its features, else the pixels, else what mlx_vlm reads itself.
Shown == IF used # None THEN used
         ELSE <<IF state # None THEN pixels ELSE disk[request.file].content, request.size>>

\* _stream_generate.  With a prompt state that holds the beginning of the prompt the model
\* sees the image through it; without one, or with another prompt, it sees it anew.
Stream ==
    /\ pc = "stream"
    /\ \/ /\ state # None /\ Value(prompts, state) # None
          /\ seen' = Value(prompts, state)
          /\ UNCHANGED prompts
       \/ /\ seen' = Shown
          /\ prompts' = IF state = None THEN prompts ELSE Stored(prompts, state, Shown)
    /\ pc' = "answered"
    /\ UNCHANGED <<family, disk, digests, features, request, pixels, readAt, used, state, keys,
                   during, torn, edits>>

Ended ==
    /\ pc' = "idle"
    /\ pixels' = None /\ readAt' = 0 /\ used' = None /\ state' = None /\ seen' = None
    /\ keys' = {} /\ during' = {}
    /\ UNCHANGED <<family, disk, caches, request, torn, edits>>

\* mlx_vlm or the decoding raises.
Raise  == pc \in {"prepare", "stream"} /\ Ended
Return == pc = "answered" /\ Ended

\* reset_cache, between two requests.
Reset ==
    /\ pc = "idle"
    /\ Cleared /\ prompts' = <<>>
    /\ UNCHANGED <<family, disk, pc, run, during, torn, edits>>

Edit ==
    /\ edits < MaxEdits
    /\ edits' = edits + 1
    /\ \E f \in Files, c \in Contents :
         /\ disk' = [disk EXCEPT ![f] = [content |-> c, stamp |-> @.stamp + 1]]
         /\ during' = IF f = request.file /\ pc # "idle" THEN during \cup {c} ELSE during
    /\ UNCHANGED <<family, caches, pc, run, torn>>

Next == Begin \/ ReadPixels \/ PromptState \/ Lookup \/ Store \/ Stream \/ Raise \/ Return
          \/ Reset \/ Edit

Spec == Init /\ [][Next]_iVars

-----------------------------------------------------------------------------
Keys == Contents \X Sizes

IsCache(entries) ==
    /\ Len(entries) <= MaxSize
    /\ \A i, j \in DOMAIN entries : entries[i].key = entries[j].key => i = j
    /\ \A i \in DOMAIN entries : entries[i].key \in Keys /\ entries[i].value \in Keys \cup {None}

TypeOK ==
    /\ family \in Families
    /\ pc \in {"idle", "prepare", "prompt", "lookup", "store", "stream", "answered"}
    /\ request \in Requests /\ keys \subseteq Keys /\ torn \subseteq Keys
    /\ IsCache(features) /\ IsCache(prompts)
    /\ pc = "stream" /\ state # None => Has(prompts, state)

\* The answer is about the image as it was at some moment of the request, in the
\* resolution the request was given, whatever was kept of other images, other resolutions
\* and earlier contents of the file.  Only where the file was changed between the
\* reading of its pixels and a look at its digest may a key stand for the wrong content.
AnswersSeeTheImage ==
    pc = "answered" /\ keys \cap torn = {} =>
        seen[1] \in during /\ seen[2] = request.size

=============================================================================
