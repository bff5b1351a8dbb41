---------------------------- MODULE ObserveParts ----------------------------
(***************************************************************************)
(* The arithmetic that turns measurements into verdicts, each in a module  *)
(* of its own: the merging of observation arenas, the ledger of requests,  *)
(* the two paired performance gates, and the memory benchmark's own        *)
(* timing.  A behaviour is one of one part; the bounds are chosen here.    *)
(***************************************************************************)
EXTENDS Naturals

VARIABLE part    \* the part of the system a behaviour is of

(* The variables of the parts; equal names are shared, since only one part  *)
(* is at work.                                                              *)
VARIABLES
    slot, taken, pending, merging, total, room, now, stage, at, arena, copy, repeats, timed,
    verdict, pairs, allow, triples, pc, arg, bytes, held, memory, writes, reads, took,
    status

vars ==
    << part,
       slot, taken, pending, merging, total, room, now, stage, at, arena, copy, repeats, timed,
       verdict, pairs, allow, triples, pc, arg, bytes, held, memory, writes, reads,
       took, status >>

(* Runs that differ from a good one in one respect at a time, and a hash of *)
(* 3 and one of 5 for the two requests: their sum wraps to 0 in three bits. *)
Good == [payload |-> "p", layout |-> "v6", commands |-> 9, work |-> "w",
         setting |-> "s", defect |-> "none"]
OddBaselines == {Good, [Good EXCEPT !.payload = "q"], [Good EXCEPT !.layout = "v7"]}
OddCandidates ==
    {Good, [Good EXCEPT !.payload = "q"], [Good EXCEPT !.defect = "fallback"],
     [Good EXCEPT !.commands = 10], [Good EXCEPT !.work = "v"],
     [Good EXCEPT !.setting = "t"]}

(* A triple whose runs pass the audit, and some that differ.                *)
Report == [files |-> [off |-> 0, aggregate |-> 3, default |-> 0], payloads |-> {"p"},
           sound |-> TRUE]

Fold == INSTANCE MetricFold WITH
    Bins <- 2,
    BinCap <- 50,
    MinSamples <- 2,
    Workload <- {"w1", "w2"},
    Startup <- {"s1"},
    Earlier <- {0, 30, 49},
    MaxCalls <- 4

Ledger == INSTANCE RequestLedger WITH
    Bins <- 2,
    BinCap <- 4,
    MinSamples <- 2,
    Clients <- {"c1", "c2"},
    Requests <- {"r1", "r2"},
    Owner <- [r1 |-> "c1", r2 |-> "c2"],
    HashBits <- [r1 |-> {0, 1}, r2 |-> {0, 2}],
    Width <- 3,
    MaxTime <- 1,
    MaxRepeats <- 1

Gate == INSTANCE PairedGate WITH
    BaselineScores <- {20},
    CandidateScores <- {19, 20, 22, 25},
    ProtectedRatios <- {95, 100},
    BaselineRuns <- {Good},
    CandidateRuns <- {Good},
    Explained <- BOOLEAN,
    Allow <- {FALSE},
    MinimumPairs <- 5,
    ConfirmationPairs <- 3,
    MaxPairs <- 5

OddRuns == INSTANCE PairedGate WITH
    BaselineScores <- {20},
    CandidateScores <- {25},
    ProtectedRatios <- {100},
    BaselineRuns <- OddBaselines,
    CandidateRuns <- OddCandidates,
    Explained <- {FALSE},
    Allow <- BOOLEAN,
    MinimumPairs <- 4,
    ConfirmationPairs <- 3,
    MaxPairs <- 4

Overhead == INSTANCE OverheadGate WITH
    Phases <- {"write", "read"},
    Ratios <- {90, 100},
    Reports <- {Report, [Report EXCEPT !.files.aggregate = 2],
                [Report EXCEPT !.files.default = 3], [Report EXCEPT !.payloads = {"q"}],
                [Report EXCEPT !.sound = FALSE]},
    MinimumPairs <- 2,
    MaxTriples <- 2

Mmap == INSTANCE MmapBench WITH
    Words <- {0, 1},
    MaxU <- 63,
    PageSize <- 8,
    Digits <- {0, 1, 2, 6, 15},
    MaxText <- 3,
    Now <- 5,
    Elapsed <- {0, 1, 2, 3}

(* What a behaviour of a part leaves alone.                                 *)
OutsideFold ==
    << part,
       now, stage, at, arena, copy, repeats, timed, verdict, pairs, allow, triples, pc, arg,
       bytes, held, memory, writes, reads, took, status >>
OutsideLedger ==
    << part,
       slot, taken, pending, merging, total, room, pairs, allow, triples, pc, arg, bytes,
       held, memory, writes, reads, took, status >>
OutsideGate ==
    << part,
       slot, taken, pending, merging, total, room, now, stage, at, arena, copy, repeats, timed,
       triples, pc, arg, bytes, held, memory, writes, reads, took, status >>
OutsideOverhead ==
    << part,
       slot, taken, pending, merging, total, room, now, stage, at, arena, copy, repeats, timed,
       pairs, allow, pc, arg, bytes, held, memory, writes, reads, took, status >>
OutsideMmap ==
    << part,
       slot, taken, pending, merging, total, room, now, stage, at, arena, copy, repeats, timed,
       verdict, pairs, allow, triples >>

-----------------------------------------------------------------------------
(* A variable no part at work uses.                                         *)
None == "none"

Init ==
    \/ /\ part = "fold" /\ Fold!Init
       /\ now = None /\ stage = None /\ at = None /\ arena = None /\ copy = None
       /\ repeats = None /\ timed = None /\ verdict = None /\ pairs = None /\ allow = None
       /\ triples = None /\ pc = None /\ arg = None /\ bytes = None /\ held = None
       /\ memory = None /\ writes = None /\ reads = None /\ took = None
       /\ status = None
    \/ /\ part = "ledger" /\ Ledger!Init
       /\ slot = None /\ taken = None /\ pending = None /\ merging = None
       /\ total = None /\ room = None /\ pairs = None /\ allow = None /\ triples = None /\ pc = None
       /\ arg = None /\ bytes = None /\ held = None /\ memory = None /\ writes = None
       /\ reads = None /\ took = None /\ status = None
    \/ /\ part = "gate" /\ Gate!Init
       /\ slot = None /\ taken = None /\ pending = None /\ merging = None
       /\ total = None /\ room = None /\ now = None /\ stage = None /\ at = None /\ arena = None
       /\ copy = None /\ repeats = None /\ timed = None /\ triples = None /\ pc = None /\ arg = None
       /\ bytes = None /\ held = None /\ memory = None /\ writes = None
       /\ reads = None /\ took = None /\ status = None
    \/ /\ part = "odd runs" /\ OddRuns!Init
       /\ slot = None /\ taken = None /\ pending = None /\ merging = None
       /\ total = None /\ room = None /\ now = None /\ stage = None /\ at = None /\ arena = None
       /\ copy = None /\ repeats = None /\ timed = None /\ triples = None /\ pc = None /\ arg = None
       /\ bytes = None /\ held = None /\ memory = None /\ writes = None
       /\ reads = None /\ took = None /\ status = None
    \/ /\ part = "overhead" /\ Overhead!Init
       /\ slot = None /\ taken = None /\ pending = None /\ merging = None
       /\ total = None /\ room = None /\ now = None /\ stage = None /\ at = None /\ arena = None
       /\ copy = None /\ repeats = None /\ timed = None /\ pairs = None /\ allow = None /\ pc = None
       /\ arg = None /\ bytes = None /\ held = None /\ memory = None /\ writes = None
       /\ reads = None /\ took = None /\ status = None
    \/ /\ part = "mmap" /\ Mmap!Init
       /\ slot = None /\ taken = None /\ pending = None /\ merging = None
       /\ total = None /\ room = None /\ now = None /\ stage = None /\ at = None /\ arena = None
       /\ copy = None /\ repeats = None /\ timed = None /\ verdict = None /\ pairs = None
       /\ allow = None /\ triples = None

Next ==
    \/ part = "fold" /\ Fold!Next /\ UNCHANGED OutsideFold
    \/ part = "ledger" /\ Ledger!Next /\ UNCHANGED OutsideLedger
    \/ part = "gate" /\ Gate!Next /\ UNCHANGED OutsideGate
    \/ part = "odd runs" /\ OddRuns!Next /\ UNCHANGED OutsideGate
    \/ part = "overhead" /\ Overhead!Next /\ UNCHANGED OutsideOverhead
    \/ part = "mmap" /\ Mmap!Next /\ UNCHANGED OutsideMmap

Spec == Init /\ [][Next]_vars

-----------------------------------------------------------------------------
(* What is computed from arenas that were copied at different moments and    *)
(* are merged in any order: a published percentile is the bin of the         *)
(* smallest duration that at least that share of all durations does not     *)
(* exceed (add_metric, metric_percentiles); the ledger accepts copies of     *)
(* which some client's holds a request only when they hold the same requests *)
(* at every edge, each once, and one of them sampled, and accepts all such   *)
(* copies in which no request is open (transport_ledger).                    *)
ArenasFoldExactly ==
    /\ part = "fold" => Fold!PercentileIsNearestRank
    /\ part = "ledger" => Ledger!LedgerIsExact

(* The candidate gate prefers a candidate only when at least half of the     *)
(* pairs gained, accepts none that was slower in some pair, and compares two *)
(* builds only (paired_candidate_gate); the observation is blamed only when  *)
(* in at least half of the triples the control was not slower                *)
(* (paired_io500_gate).                                                      *)
GatesAreSound ==
    /\ part = "gate" => Gate!GateIsSound
    /\ part = "odd runs" => OddRuns!GateIsSound
    /\ part = "overhead" => Overhead!BlameNeedsCleanControl

(* The times the memory benchmark prints are those its passes took, whether *)
(* or not the clock failed in between (cxl_mmap_bench.c).                   *)
PrintedTimesAreReal == part = "mmap" => Mmap!PrintedTimesAreReal
=============================================================================
