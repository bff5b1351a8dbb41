------------------------------ MODULE MetricFold ------------------------------
(***************************************************************************)
(* Several processes time calls of the same stage into their own arenas;   *)
(* when they are done the analysis merges the arenas one after the other   *)
(* (component_summary and _combined_stage of scripts/legofs_observe.py)    *)
(* and summarises the result.  The durations themselves are remembered     *)
(* beside the arenas, so that the summary can be compared with them.       *)
(***************************************************************************)
EXTENDS ObserveMetrics, Sequences

CONSTANTS
    Workload,      \* arenas that contribute a full metric
    Startup,       \* arenas that contribute a compact startup metric
    Earlier,       \* calls of duration 1 a workload arena holds to begin with
    MaxCalls       \* bound: calls recorded after that

VARIABLES
    slot,          \* slot[a]: the metric arena a holds
    taken,         \* taken[a][d]: timed calls of duration d, as they happened
    pending,       \* arenas still to be merged
    merging,       \* whether the analysis has begun
    total,         \* the merged metric
    room           \* calls that may still be recorded

vars == <<slot, taken, pending, merging, total, room>>

Arenas == Workload \cup Startup
Durations == 0..(Bins + 1)

\* What n timed calls of duration 1 leave in a slot.
Filled(n) ==
    IF n = 0 THEN BlankSlot
    ELSE [BlankSlot EXCEPT !.calls = n, !.samples = n, !.sum = n, !.min = 1, !.max = 1,
                           !.successes = n, !.bins[1] = n]

Init == /\ \E n \in Earlier :
             /\ slot = [a \in Arenas |-> IF a \in Workload THEN Filled(n) ELSE BlankSlot]
             /\ taken = [a \in Arenas |-> [d \in Durations |->
                            IF a \in Workload /\ d = 1 THEN n ELSE 0]]
        /\ pending = Arenas
        /\ merging = FALSE
        /\ total = EmptyMetric
        /\ room = MaxCalls

\* A process completes a call of the stage; startup calls are always timed.
Record(a, d, timed, failed) ==
    /\ ~merging
    /\ room > 0 /\ room' = room - 1
    /\ a \in Startup => timed
    /\ slot' = [slot EXCEPT ![a] = Observe(@, d, timed, failed)]
    /\ taken' = IF timed THEN [taken EXCEPT ![a][d] = @ + 1] ELSE taken
    /\ UNCHANGED <<pending, merging, total>>

\* The metric decode_arena reads from arena a.
Decoded(a) == IF a \in Startup THEN Compact(slot[a]) ELSE slot[a]

\* One arena is merged; a metric without a call is skipped.
Merge(a) ==
    /\ a \in pending
    /\ merging' = TRUE
    /\ pending' = pending \ {a}
    /\ total' = IF slot[a].calls = 0 THEN total ELSE AddMetric(total, Decoded(a))
    /\ UNCHANGED <<slot, taken, room>>

Done == pending = {} /\ UNCHANGED vars

Next ==
    \/ \E a \in Arenas, d \in Durations : Record(a, d, TRUE, FALSE)
    \/ \E a \in Arenas : Record(a, 1, TRUE, TRUE)
    \/ \E a \in Workload : Record(a, 0, FALSE, FALSE)
    \/ \E a \in Arenas : Merge(a)
    \/ Done

Spec == Init /\ [][Next]_vars

-----------------------------------------------------------------------------
Merged == Arenas \ pending
TakenOf(d) == MapThenSumSet(LAMBDA a : taken[a][d], Merged)
TakenUpTo(d) == MapThenSumSet(TakenOf, 0..d)
\* A published percentile is the bin of the smallest duration that at least
\* that share of all the durations does not exceed (metric_percentiles).
PercentileIsNearestRank ==
    (Merged # {} /\ PercentileStatus(total) = "ok") =>
        \A percent \in {50, 95, 99} :
            Percentile(total, percent) =
                Min({d \in Durations :
                        100 * TakenUpTo(d) >= percent * TakenUpTo(Bins + 1)})
=============================================================================
