----------------------------- MODULE MCAdapters -----------------------------
(***************************************************************************)
(* What lies between the gateway and a model, and between a user and the   *)
(* gateway, one component at a time: the components share no state, and    *)
(* each is checked in all its own behaviours.                              *)
(***************************************************************************)
EXTENDS Naturals, FiniteSets

CONSTANTS
    Tokens, MaxLength, MaxDraft, MaxEntries, MaxRuns, MaxText, MaxChunk,
    MaxBuffered, MaxAnswer, Files, Pictures, MaxSize, MaxImageEdits, Commands,
    Frames, MaxScore, MaxKept, MaxHeight, MaxWidth, Ratios, Buckets,
    MaxCorpus, PromptLength, NGram, MaxSuffix, Limit, MaxNew, DraftSweep,
    InitialDraft, MinDraft, DraftStep, Anchors, MaxSpeed, Tools, Core,
    ToolLimit, Few, Subjects, Recent, Budgets, MaxParallel, MaxItems,
    MaxCompactions, Clients, Names, Endpoints, Local, Nobody, MaxIds,
    MaxStarts, MaxKills, Images, Contents, MaxMessages, MaxCalls,
    MaxToolRounds, MaxChanges

\* A store of prompts has room for one.
ASSUME PromptAssumption ==
    /\ MaxLength \in Nat /\ MaxDraft \in Nat
    /\ MaxEntries \in Nat \ {0}

ASSUME BufferAssumption == MaxBuffered \in Nat /\ MaxAnswer \in Nat

\* A vision cache has room for one image (its constructor demands it).
ASSUME VisionAssumption ==
    /\ Files # {} /\ Pictures # {} /\ MaxSize \in Nat \ {0} /\ MaxImageEdits \in Nat

ASSUME FrameAssumption == Frames \in Nat

\* Draft lengths are positive, and one of them is the least.
ASSUME DraftAssumption ==
    /\ DraftSweep \subseteq Nat \ {0}
    /\ \E d \in DraftSweep : \A e \in DraftSweep : d <= e
    /\ PromptLength \in Nat /\ MaxNew \in Nat \ {0} /\ NGram \in Nat \ {0}
    /\ Limit \in Nat /\ MaxSuffix \in Nat /\ MaxSpeed \in Nat
    /\ MinDraft \in Nat /\ InitialDraft \in Nat /\ DraftStep \in Nat /\ Anchors \in Nat

\* "absent" and "unkept" are not contents of a file.
ASSUME ChatAssumption ==
    /\ Contents \cap {"absent", "unkept"} = {}
    /\ IsFiniteSet(Images)
    /\ MaxCalls \in Nat /\ MaxToolRounds \in Nat \ {0}

\* A file is none of the commands that change it, nor nobody; hosts are not local.
ASSUME ConnectionAssumption ==
    /\ IsFiniteSet(Commands)
    /\ Commands \cap {"first", "second", "third"} = {}
    /\ Nobody \notin Commands \cup {"first", "second", "third"} \cup Endpoints \cup Names
    /\ Local \notin Endpoints
    /\ MaxIds \in Nat \ {0} /\ MaxStarts \in Nat /\ MaxKills \in Nat

VARIABLES
    part,  \* the component that moves in this behaviour
    \* PromptCache
    cache, supported, text, pc, answer, tornCache, promptStore, native, runs,
    \* ThinkingStream
    fed, held, started, stopped, splitter, ended, thinkingFirst,
    \* BufferedStream
    given, producer, item, raised, events, consumer, chunk, passed, outcome,
    cancelled, stopSet, shut, late,
    \* VisionCache
    family, disk, digests, features, prompts, vision, request, pixels, readAt,
    used, promptState, seen, during, keys, tornKeys, imageEdits,
    \* VideoFrames
    dir, manifest, step, got, selection, overlapped,
    \* VisionTokens
    compression, ratio, bucket, tokens, kept,
    \* CorpusSpeculation
    corpus, written, options, stage, logitsCache, logits, allowed, sweep,
    forwards, drafted, results, report, astray,
    \* Transcripts
    api, chat, point, disabled, selections, lanes, strange, history,
    compactions,
    \* Connections
    hostsFile, tmp, content, keychain, job, client, ids, starts, kills,
    hostsOverlapped, cut,
    \* ChatLoop
    chatKind, turns, chatAt, turnStart, before, round, retries, todo, active,
    permission, file, original, atStart, others, failed, changes

PC == INSTANCE PromptCache WITH
          torn <- tornCache, store <- promptStore
TS == INSTANCE ThinkingStream
BS == INSTANCE BufferedStream WITH
          stopped <- stopSet
VC == INSTANCE VisionCache WITH
          pc <- vision, torn <- tornKeys, edits <- imageEdits,
          state <- promptState, Contents <- Pictures,
          MaxEdits <- MaxImageEdits
VF == INSTANCE VideoFrames
VT == INSTANCE VisionTokens WITH
          mode <- compression
CS == INSTANCE CorpusSpeculation WITH
          text <- written, pc <- stage, cache <- logitsCache, todo <- sweep
TA == INSTANCE Transcripts WITH
          at <- point, kept <- history
CN == INSTANCE Connections WITH
          file <- hostsFile, overlapped <- hostsOverlapped
CL == INSTANCE ChatLoop WITH
          kind <- chatKind, at <- chatAt

promptsVars ==
    <<cache, supported, text, pc, answer, tornCache, promptStore, native, runs>>
thinkingVars ==
    <<fed, held, started, stopped, splitter, ended, thinkingFirst>>
bufferVars ==
    <<given, producer, item, raised, events, consumer, chunk, passed, outcome,
      cancelled, stopSet, shut, late>>
imagesVars ==
    <<family, disk, digests, features, prompts, vision, request, pixels,
      readAt, used, promptState, seen, during, keys, tornKeys, imageEdits>>
framesVars ==
    <<dir, manifest, step, got, selection, overlapped>>
tokensVars ==
    <<compression, ratio, bucket, tokens, kept>>
draftsVars ==
    <<corpus, written, options, stage, logitsCache, logits, allowed, sweep,
      forwards, drafted, results, report, astray>>
transcriptsVars ==
    <<api, chat, point, disabled, selections, lanes, strange, history,
      compactions>>
connectionsVars ==
    <<hostsFile, tmp, content, keychain, job, client, ids, starts, kills,
      hostsOverlapped, cut>>
chatVars ==
    <<chatKind, turns, chatAt, turnStart, before, round, retries, todo,
      active, permission, file, original, atStart, others, failed, changes>>

Parts == {"prompts", "thinking", "buffer", "images", "frames", "tokens",
          "drafts", "transcripts", "connections", "chat"}

Init ==
    /\ part \in Parts
    /\ PC!Init
    /\ TS!Init
    /\ BS!Init
    /\ VC!Init
    /\ VF!Init
    /\ VT!Init
    /\ CS!Init
    /\ TA!Init
    /\ CN!Init
    /\ CL!Init
    /\ part # "prompts" => supported
    /\ part # "thinking" => ~thinkingFirst
    /\ part # "transcripts" => api = "chat"
    /\ part # "images" => family = "encodes"
    /\ part = "connections" <=> hostsFile # Nobody
    /\ part # "chat" => chatKind = "coding" /\ file = CL!Absent

\* Only the chosen component moves.
Only(p) == part = p /\ UNCHANGED part

Next ==
    \/ /\ Only("prompts") /\ PC!Next
       /\ UNCHANGED <<thinkingVars, bufferVars, imagesVars, framesVars,
                       tokensVars, draftsVars, transcriptsVars,
                       connectionsVars, chatVars>>
    \/ /\ Only("thinking") /\ TS!Next
       /\ UNCHANGED <<promptsVars, bufferVars, imagesVars, framesVars,
                       tokensVars, draftsVars, transcriptsVars,
                       connectionsVars, chatVars>>
    \/ /\ Only("buffer") /\ BS!Next
       /\ UNCHANGED <<promptsVars, thinkingVars, imagesVars, framesVars,
                       tokensVars, draftsVars, transcriptsVars,
                       connectionsVars, chatVars>>
    \/ /\ Only("images") /\ VC!Next
       /\ UNCHANGED <<promptsVars, thinkingVars, bufferVars, framesVars,
                       tokensVars, draftsVars, transcriptsVars,
                       connectionsVars, chatVars>>
    \/ /\ Only("frames") /\ VF!Next
       /\ UNCHANGED <<promptsVars, thinkingVars, bufferVars, imagesVars,
                       tokensVars, draftsVars, transcriptsVars,
                       connectionsVars, chatVars>>
    \/ /\ Only("tokens") /\ VT!Next
       /\ UNCHANGED <<promptsVars, thinkingVars, bufferVars, imagesVars,
                       framesVars, draftsVars, transcriptsVars,
                       connectionsVars, chatVars>>
    \/ /\ Only("drafts") /\ CS!Next
       /\ UNCHANGED <<promptsVars, thinkingVars, bufferVars, imagesVars,
                       framesVars, tokensVars, transcriptsVars,
                       connectionsVars, chatVars>>
    \/ /\ Only("transcripts") /\ TA!Next
       /\ UNCHANGED <<promptsVars, thinkingVars, bufferVars, imagesVars,
                       framesVars, tokensVars, draftsVars, connectionsVars,
                       chatVars>>
    \/ /\ Only("connections") /\ CN!Next
       /\ UNCHANGED <<promptsVars, thinkingVars, bufferVars, imagesVars,
                       framesVars, tokensVars, draftsVars, transcriptsVars,
                       chatVars>>
    \/ /\ Only("chat") /\ CL!Next
       /\ UNCHANGED <<promptsVars, thinkingVars, bufferVars, imagesVars,
                       framesVars, tokensVars, draftsVars, transcriptsVars,
                       connectionsVars>>

vars == <<part, promptsVars, thinkingVars, bufferVars, imagesVars, framesVars,
                tokensVars, draftsVars, transcriptsVars, connectionsVars,
                chatVars>>

Spec == Init /\ [][Next]_vars

-----------------------------------------------------------------------------
\* What a model tells is told of what it was asked, whatever was kept of other texts,
\* rejected drafts, images and failed calls, and a comparison of runs reports one whose
\* output was right (MLXCausalLMService, MLXVLMAccelerator, hf_corpus_speculate.py).
CachesAreFaithful ==
    /\ part = "prompts" => PC!TypeOK /\ PC!AnswersFollowText /\ PC!CachesHoldTheirKeys
    /\ part = "images" => VC!TypeOK /\ VC!AnswersSeeTheImage
    /\ part = "drafts" => CS!TypeOK /\ CS!OutputIsGreedy /\ CS!ReportIsHonest

\* What is stopped, killed or fails midway leaves nothing half done behind: a stream that
\* is taken for whole is whole (buffered_stream), a turn that failed leaves nothing in the
\* history and the changes of the session are told as they are (run_resident_chat,
\* CodingWorkspace), the saved hosts stay and each is asked with its own token
\* (ConnectionStore), and frames are selected from all frames (TemporalVideoSampler).
SessionsAreWhole ==
    /\ part = "buffer" => BS!TypeOK /\ BS!AnswerIsWhole /\ BS!ReaderStops
    /\ part = "chat" =>
         /\ CL!TypeOK /\ CL!HistoryIsWhole /\ CL!FailureLeavesNoTurn
         /\ CL!ChangesAreShown /\ CL!ImagesAreSent
    /\ part = "connections" =>
         /\ CN!TypeOK /\ CN!FileIsWhole
         /\ CN!TokensFollowProfiles /\ CN!TokensGoToTheirHosts
    /\ part = "frames" => VF!TypeOK /\ VF!FramesAreComplete

\* What is converted keeps its meaning: a client gets the same answer however its chunks
\* are cut (ThinkingStreamSplitter, ChatTextStreamer); a transcript is converted, compacted
\* and cut so that results follow their calls, with the same tools in each request of a
\* turn (protocols.py, compaction.py, ollama_compat.py); frames and visual tokens are
\* selected fairly (select_temporal_frames, PostFusionVisionModel).
ConversionsAreFaithful ==
    /\ part = "thinking" => TS!TypeOK /\ TS!ChunksDoNotMatter
    /\ part = "transcripts" =>
         /\ TA!TypeOK /\ TA!SelectionIsStable /\ TA!LoopsEnd
         /\ TA!ResultsFollowCalls /\ TA!TruncationKeepsTheEnd
    /\ part = "frames" => VF!SelectionIsFair
    /\ part = "tokens" => VT!TypeOK /\ VT!CompressionIsFaithful

\* Drafts from a corpus are the best there are, and no more is counted as covered by it
\* than there is (CorpusDrafter, hf_corpus_speculate.py, internal/overlap).
DraftsAreBest ==
    part = "drafts" => CS!CandidatesAreBest /\ CS!CoverageIsBounded

=============================================================================
