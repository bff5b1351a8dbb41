----------------------------- MODULE OverheadGate -----------------------------
(***************************************************************************)
(* The gate on the cost of the observation itself (paired_io500_gate of    *)
(* scripts/legofs_observe.py).  Each triple runs the benchmark with the    *)
(* observation off, aggregating, and at its default, which is off again    *)
(* and serves as the control.  A run is reduced to its score in each phase,*)
(* as a percentage of the run with the observation off, and a triple to    *)
(* what the audit reads of its runs: how many arenas each exported, the    *)
(* payloads, and whether every other check of the audit (status, mode,     *)
(* arena headers, fallback traffic, phases and units) passed.              *)
(***************************************************************************)
EXTENDS PairedStats, FiniteSets

CONSTANTS
    Phases,        \* benchmark phases
    Ratios,        \* scores in percent of the off run of the same triple
    Reports,       \* what the audit may read of a triple
    MinimumPairs,  \* triples wanted (5 in the code)
    MaxTriples     \* bound on the campaign

VARIABLES triples, verdict

vars == <<triples, verdict>>

RegressionLimit == 3
NoiseLimit == 10
Modes == {"off", "aggregate", "default"}
ArenasExpected(mode) == IF mode = "aggregate" THEN 3 ELSE 0

Init == triples = <<>> /\ verdict = "none"

RunTriple(aggregate, default, report) ==
    /\ Len(triples) < MaxTriples
    /\ triples' = Append(triples, [aggregate |-> aggregate, default |-> default,
                                   report |-> report])
    /\ verdict' = "none"

RatiosOf(mode, phase) == [i \in DOMAIN triples |-> triples[i][mode][phase]]
ProtectedFailures(mode) ==
    {phase \in Phases : Regressed(RatiosOf(mode, phase), RegressionLimit)}
HighNoise(mode) ==
    {phase \in Phases : NoisierThan(RatiosOf(mode, phase), NoiseLimit)}

\* Mutant: a classification that does not look at the control.
ClassifyUncontrolled ==
    IF Len(triples) < MinimumPairs THEN "insufficient_pairs"
    ELSE IF HighNoise("aggregate") # {} THEN "inconclusive_high_noise"
    ELSE IF ProtectedFailures("aggregate") # {} THEN "failed_protected_regression"
    ELSE "passed"

Classify ==
    IF Len(triples) < MinimumPairs THEN "insufficient_pairs"
    ELSE IF ProtectedFailures("default") # {} \/ HighNoise("default") # {}
    THEN "inconclusive_control_or_noise"
    ELSE IF HighNoise("aggregate") # {} THEN "inconclusive_high_noise"
    ELSE IF ProtectedFailures("aggregate") # {} THEN "failed_protected_regression"
    ELSE "passed"

\* _audit_paired_result of the three runs of a triple.
Audited(report) ==
    /\ report.sound
    /\ \A mode \in Modes : report.files[mode] = ArenasExpected(mode)

OnePayload == Cardinality(UNION {triples[i].report.payloads : i \in DOMAIN triples}) = 1

Judge ==
    /\ triples # <<>>
    /\ verdict = "none"
    /\ verdict' = IF OnePayload /\ \A i \in DOMAIN triples : Audited(triples[i].report)
                  THEN Classify ELSE "error"
    /\ UNCHANGED triples

Next ==
    \/ \E aggregate, default \in [Phases -> Ratios], report \in Reports :
          RunTriple(aggregate, default, report)
    \/ Judge

Spec == Init /\ [][Next]_vars

-----------------------------------------------------------------------------
Share(mode, phase, low) ==
    Cardinality({i \in DOMAIN triples : triples[i][mode][phase] >= low})

\* The blame is put on the observation only when in every phase the control was
\* within the limit in at least half of the triples, and on the evidence of runs of
\* one payload of which those without observation exported no arena.
BlameNeedsCleanControl ==
    verdict = "failed_protected_regression" =>
        /\ \A phase \in Phases : 2 * Share("default", phase, 97) >= Len(triples)
        /\ \A i, j \in DOMAIN triples :
            /\ triples[i].report.payloads = triples[j].report.payloads
            /\ triples[i].report.files["default"] = 0
=============================================================================
