------------------------------ MODULE PairedGate ------------------------------
(***************************************************************************)
(* A performance campaign: pairs of a baseline run and a candidate run are *)
(* made one after the other and after each the candidate gate of           *)
(* scripts/legofs_observe.py may be asked for its classification.  A run   *)
(* is reduced to the scores of the primary phase, to the ratio of the one  *)
(* protected phase, and to what the gate compares between runs.            *)
(***************************************************************************)
EXTENDS PairedStats, Integers, FiniteSets

CONSTANTS
    BaselineScores, CandidateScores,   \* primary-phase scores a run may reach
    ProtectedRatios,                   \* protected-phase ratios, in percent
    BaselineRuns, CandidateRuns,       \* what else the gate reads of a run: payload,
                                       \* layout, commands, the work done, the setting
                                       \* (platform, stage, other topology, units) and
                                       \* any defect (evidence that is missing or bad)
    Explained,                         \* whether a counter explains protected noise
    Allow,                             \* choices of --allow-topology-difference
    MinimumPairs, ConfirmationPairs,   \* 5 and 3 in the code
    MaxPairs                           \* bound on the campaign

VARIABLES
    pairs,         \* the pairs made so far
    verdict,       \* the last classification
    allow          \* whether the layout may differ between the sides

vars == <<pairs, verdict, allow>>

MinReduction == 0          \* --minimum-command-reduction
ImprovementFloor == 5      \* percent
RegressionLimit == 3       \* percent
RaceLimit == 10            \* percent

Init == pairs = <<>> /\ verdict = "none" /\ allow \in Allow

Saved(p) == p.left.commands - p.right.commands
Ratio(p) == (100 * p.candidate) \div p.baseline

RunPair(b, c, ratio, left, right) ==
    /\ Len(pairs) < MaxPairs
    /\ pairs' = Append(pairs, [baseline |-> b, candidate |-> c, protected |-> ratio,
                               left |-> left, right |-> right])
    /\ verdict' = "none"
    /\ UNCHANGED allow

Of(f) == {pairs[i][f] : i \in DOMAIN pairs}

\* _audit_candidate_result: a run with any defect is refused.
Audited == \A r \in Of("left") \cup Of("right") : r.defect = "none"

\* Both runs of a pair did the same work on every rank.
SameWork == \A i \in DOMAIN pairs : pairs[i].left.work = pairs[i].right.work

\* One platform, stage and unit of each phase over all runs.
OneSetting == Cardinality({r.setting : r \in Of("left") \cup Of("right")}) = 1

\* One payload on each side.
OnePayload == /\ Cardinality({r.payload : r \in Of("left")}) = 1
              /\ Cardinality({r.payload : r \in Of("right")}) = 1

\* One topology over both sides; an allowed field is left out of the comparison
\* and has to differ in some pair.
OneTopology ==
    IF allow
    THEN \E i \in DOMAIN pairs : pairs[i].left.layout # pairs[i].right.layout
    ELSE Cardinality({r.layout : r \in Of("left") \cup Of("right")}) = 1

Column(F(_)) == [i \in DOMAIN pairs |-> F(pairs[i])]
Primary == Column(Ratio)
Protected == Column(LAMBDA p : p.protected)
Arms == <<Column(LAMBDA p : p.baseline), Column(LAMBDA p : p.candidate)>>

\* The primary phase has no explaining counter; a change of sign is a race.
PrimaryRace == NoisierThan(Primary, RaceLimit) \/ SignFlip(Primary)

ProtectedRace(explained) == NoisierThan(Protected, RaceLimit) /\ ~explained

\* The classification of paired_candidate_gate.
Classification(explained) ==
    LET n        == Len(pairs)
        holds    == ~Regressed(Protected, RegressionLimit)
        positive == Cardinality({i \in DOMAIN pairs : Primary[i] > 100})
    IN  IF n >= ConfirmationPairs /\ (PrimaryRace \/ ProtectedRace(explained))
        THEN "INCONCLUSIVE_RACE"
        ELSE IF ~Improved(Primary, ImprovementFloor, Arms) THEN "REJECTED_NO_SIGNAL"
        ELSE IF \E i \in DOMAIN pairs : Saved(pairs[i]) < MinReduction
        THEN "REJECTED_MECHANISM_NOT_REACHED"
        ELSE IF n < ConfirmationPairs
        THEN IF holds THEN "PROMISING" ELSE "PROMISING_PROTECTED_RISK"
        ELSE IF ~holds THEN "REJECTED_PROTECTED_REGRESSION"
        ELSE IF n >= MinimumPairs /\ positive < 4 THEN "REJECTED_NO_SIGNAL"
        ELSE IF n >= MinimumPairs THEN "ACCEPTED"
        ELSE "READY_FOR_CONFIRMATION"

\* The gate is run on the pairs made so far; it raises on inputs that cannot be
\* compared and leaves no classification.
Judge(explained) ==
    /\ pairs # <<>>
    /\ verdict = "none"
    /\ verdict' = IF Audited /\ SameWork /\ OnePayload /\ OneSetting /\ OneTopology
                  THEN Classification(explained) ELSE "error"
    /\ UNCHANGED <<pairs, allow>>

Next ==
    \/ \E b \in BaselineScores, c \in CandidateScores, ratio \in ProtectedRatios,
          left \in BaselineRuns, right \in CandidateRuns :
            RunPair(b, c, ratio, left, right)
    \/ \E explained \in Explained : Judge(explained)

Spec == Init /\ [][Next]_vars

-----------------------------------------------------------------------------
Accepted == verdict = "ACCEPTED"

\* In at least half of the pairs of an accepted, promising or ready candidate the
\* gain is more than five percent; while fewer than three pairs have been made,
\* PROMISING may rest on a single one.  An accepted candidate was slower in no
\* pair and faster in at least four, and its campaign compares two builds and
\* nothing else: each side used one payload, no run had a defect, no candidate run
\* issued more commands, the runs of a pair did the same work, all in one setting,
\* and, unless the layout is the allowed difference, all used one layout.
GateIsSound ==
    /\ verdict \in {"ACCEPTED", "READY_FOR_CONFIRMATION", "PROMISING"} =>
        2 * Cardinality({i \in DOMAIN pairs :
                100 * pairs[i].candidate > 105 * pairs[i].baseline}) >= Len(pairs)
    /\ Accepted =>
        /\ Cardinality({i \in DOMAIN pairs : pairs[i].candidate > pairs[i].baseline}) >= 4
        /\ \A i, j \in DOMAIN pairs :
            /\ pairs[i].candidate >= pairs[i].baseline
            /\ pairs[i].right.commands <= pairs[i].left.commands
            /\ pairs[i].left.defect = "none" /\ pairs[i].right.defect = "none"
            /\ pairs[i].left.payload = pairs[j].left.payload
            /\ pairs[i].right.payload = pairs[j].right.payload
            /\ pairs[i].left.work = pairs[i].right.work
            /\ pairs[i].left.setting = pairs[j].right.setting
            /\ allow \/ pairs[i].left.layout = pairs[j].right.layout
=============================================================================
