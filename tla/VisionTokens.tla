---------------------------- MODULE VisionTokens ----------------------------
(***************************************************************************)
(* Compression of visual tokens (machboost/vision_tokens.py,               *)
(* PostFusionVisionModel): after some layers the visual tokens of a prompt *)
(* are merged in squares of neighbours; of squares with much detail all    *)
(* tokens are kept, as far as the target allows.  Every layer after sees   *)
(* the shorter sequence with its positions, mask and caches.               *)
(*                                                                         *)
(* A token is text or has a place in the grid of its image.  The detail of *)
(* a square is known to the model only: any order of them may come out.    *)
(***************************************************************************)
EXTENDS Integers, FiniteSets, Sequences, SequencesExt, FiniteSetsExt

CONSTANTS MaxHeight, MaxWidth,   \* bound: grids of an image
          Ratios,                \* retain_ratio, in percent
          Buckets                \* token_bucket

VARIABLES
    mode,       \* of the wrapper, configured before each request
    ratio, bucket,
    tokens,     \* of the prompt
    kept        \* the places that are left after it; {} before

tVars == <<mode, ratio, bucket, tokens, kept>>

Modes == {"off", "merge", "adaptive", "random"}
Text == [image |-> 0, height |-> 0, width |-> 0]

Image(k, h, w) ==
    [i \in 1 .. h * w |-> [image |-> k, height |-> (i - 1) \div w, width |-> (i - 1) % w]]
Texts(n) == [i \in 1 .. n |-> Text]

Visual   == {i \in DOMAIN tokens : tokens[i] # Text}
TextOnly == DOMAIN tokens \ Visual

Init ==
    /\ mode = "off" /\ ratio = 100 /\ bucket = 0
    /\ tokens = <<>> /\ kept = {}

\* configure, and a prompt with one image or two.
Configure ==
    /\ tokens = <<>>
    /\ UNCHANGED kept
    /\ mode' \in Modes /\ ratio' \in Ratios /\ bucket' \in Buckets
    /\ \E h \in 1 .. MaxHeight, w \in 1 .. MaxWidth, second \in 0 .. 2, before, between \in 0 .. 1 :
         tokens' = Texts(before) \o Image(1, h, w) \o Texts(between) \o Image(2, 1, second)
                     \o Texts(1)

-----------------------------------------------------------------------------
UpTo(n, d) == (n + d - 1) \div d          \* the quotient, rounded up

\* bucket_token_target.
Target ==
    LET count == Cardinality(Visual)
        exact == UpTo(count * ratio, 100)
        least == IF exact < 1 THEN 1 ELSE exact
        wide  == IF bucket > 1 THEN UpTo(least, bucket) * bucket ELSE least
    IN  IF wide < count THEN wide ELSE count

\* spatial_group_factor: the side of a square.
Side == Min({s \in 1 .. 4 : s * s * ratio >= 100})

\* The run of visual tokens, and the time of the image.
ImageOf(i) == tokens[i].image

Square(i) == <<ImageOf(i), tokens[i].height \div Side, tokens[i].width \div Side>>
Groups == {{i \in Visual : Square(i) = q} : q \in {Square(i) : i \in Visual}}

\* _detail_groups: the squares kept whole, in their order of detail, until the target is
\* reached.
Whole(order) ==
    FoldLeft(LAMBDA acc, g :
               IF acc.left >= Target \/ Cardinality(g) = 1 THEN acc
               ELSE [left |-> acc.left + Cardinality(g) - 1, groups |-> acc.groups \cup {g}],
             [left |-> Cardinality(Groups), groups |-> {}], order).groups

Orders == IF mode \in {"adaptive", "random"} THEN SetToSeqs(Groups) ELSE {<<>>}

\* _compress: all text, all of the squares kept whole, the first token of the others.
Keep(whole) == TextOnly \cup UNION whole \cup {Min(g) : g \in Groups \ whole}

\* Fewer than four visual tokens stay as they are.
Compress ==
    /\ kept = {} /\ tokens # <<>>
    /\ kept' \in IF mode = "off" \/ Cardinality(Visual) < 4 THEN {DOMAIN tokens}
                 ELSE {Keep(Whole(order)) : order \in Orders}
    /\ UNCHANGED <<mode, ratio, bucket, tokens>>

\* The next request without images switches the wrapper off.
SwitchOff ==
    /\ kept # {}
    /\ mode' = "off" /\ ratio' = 100 /\ bucket' = 0
    /\ tokens' = <<>> /\ kept' = {}

Next == Configure \/ Compress \/ SwitchOff

Spec == Init /\ [][Next]_tVars

-----------------------------------------------------------------------------
TypeOK ==
    /\ mode \in Modes /\ ratio \in Ratios \cup {100} /\ bucket \in Buckets
    /\ kept \subseteq DOMAIN tokens

Left == kept \cap Visual

\* Compression takes no text away and leaves something of every image in every square of
\* its own, so that no image is merged into another; with a ratio that asks for more than
\* one token of each square the target is reached, and passed by less than a square.
CompressionIsFaithful ==
    kept # {} =>
        /\ TextOnly \subseteq kept
        /\ \A i \in Visual : \E j \in Left :
              /\ tokens[j].image = tokens[i].image
              /\ tokens[i].height - tokens[j].height \in 0 .. Side - 1
              /\ tokens[i].width - tokens[j].width \in 0 .. Side - 1
        /\ mode \in {"adaptive", "random"} => Cardinality(Left) >= Target
        /\ mode \in {"adaptive", "random"} /\ Cardinality(Visual) >= 4 =>
              \/ Cardinality(Left) = Cardinality(Groups)
              \/ Cardinality(Left) < Target + Side * Side - 1

=============================================================================
