------------------------------ MODULE Complexity ------------------------------
(***************************************************************************)
(* classify_complexity                                                     *)
(* (src/autonomous_software_factory/orchestrator/complexity.py).  A        *)
(* request is the number of keywords of each bucket that its description   *)
(* matches, whether it has more than five entities, and the three flags.   *)
(***************************************************************************)
EXTENDS Integers, SequencesExt

CONSTANT MatchCounts    \* keywords a description can match, per bucket

\* ComplexityBucket, from the lowest to the highest.
Buckets == <<"nano", "micro", "standard", "complex", "critical">>
BucketNames == ToSet(Buckets)
Rank(name) == CHOOSE i \in DOMAIN Buckets : Buckets[i] = name

ASSUME MatchCountsAssumption == MatchCounts \subseteq [BucketNames -> Nat]

Requests == [matches : MatchCounts, manyEntities : BOOLEAN,
             auth : BOOLEAN, realtime : BOOLEAN, financial : BOOLEAN]

VARIABLES request,   \* the arguments of the call, "none" before it
          bucket     \* of the result

classifyVars == <<request, bucket>>

ClassifyInit == request = "none" /\ bucket = "none"

-------------------------------------------------------------------------------
\* Mutant: a lower bucket with as many matches replaces a higher one.
ScoresBetterOrEqual(score, best) == score > 0 /\ score >= best

ScoresBetter(score, best) == score > best

\* The keyword loop, from the highest bucket to the lowest.
BestMatch(matches) ==
    FoldLeft(LAMBDA best, name :
                 IF ScoresBetter(matches[name], best.score)
                 THEN [bucket |-> name, score |-> matches[name]]
                 ELSE best,
             [bucket |-> "nano", score |-> 0], Reverse(Buckets)).bucket

\* The flags and the number of entities, one after the other.
AfterRealtime(args, name) ==
    IF args.realtime /\ name \notin {"complex", "critical"} THEN "complex" ELSE name
AfterAuth(args, name) ==
    IF args.auth /\ name \in {"nano", "micro"} THEN "standard" ELSE name
AfterEntities(args, name) ==
    IF args.manyEntities /\ name = "nano" THEN "micro" ELSE name

\* One call; calls share no state.
ClassifyComplexity ==
    /\ bucket = "none"
    /\ \E args \in Requests :
          /\ request' = args
          /\ bucket' = IF args.financial THEN "critical"
                       ELSE AfterEntities(args, AfterAuth(args,
                                AfterRealtime(args, BestMatch(args.matches))))

ClassifySpec == ClassifyInit /\ [][ClassifyComplexity]_classifyVars

-------------------------------------------------------------------------------
\* The buckets whose keywords match most often, if any matches.
Leading ==
    {b \in BucketNames :
        request.matches[b] > 0 /\ \A c \in BucketNames : request.matches[c] <= request.matches[b]}

\* What a request asks for at least, on each count by itself.
Floors ==
    {"nano"} \cup Leading
        \cup (IF request.financial THEN {"critical"} ELSE {})
        \cup (IF request.realtime THEN {"complex"} ELSE {})
        \cup (IF request.auth THEN {"standard"} ELSE {})
        \cup (IF request.manyEntities THEN {"micro"} ELSE {})

\* The early return, the loop with its order and its strict comparison and the
\* three adjustments after one another come to one thing: the bucket is the
\* highest floor, so that no flag lowers what another or the keywords ask for,
\* and of buckets that match equally often the higher wins.  One that matches
\* less often is no floor, however high (complexity.py:68-107).
HighestFloorWins ==
    bucket # "none" =>
        bucket \in Floors /\ \A floor \in Floors : Rank(floor) <= Rank(bucket)
===============================================================================
