--------------------------- MODULE DirtyCorrelation ---------------------------
(***************************************************************************)
(* The evidence of scripts/legofs_type3_2node.py that a back-invalidation     *)
(* moved the bytes of a direct write: node1 writes a mapping and unmaps it,  *)
(* node0 takes the mapping over, which snoops its lines, and reports success. *)
(* Guests print their records; the console readers of the host stamp a line  *)
(* when they read it, at any time after it was printed, while CXLMemSim      *)
(* stamps its own records at once.  The position in history is the host's    *)
(* clock.  node0 is the program under test: nothing stops it from reporting  *)
(* success too early, and the evidence has to notice.                       *)
(***************************************************************************)
EXTENDS Naturals, Sequences, FiniteSets

CONSTANTS
    Mapping,         \* the lines of each operation's mapping
    Lines            \* lines of device memory

Ops == DOMAIN Mapping

VARIABLES history, odd
vars == <<history, odd>>
Init == history = <<>> /\ odd = FALSE

Happened(what, who) == \E i \in DOMAIN history : history[i].what = what /\ history[i].who = who
At(what, who) == CHOOSE i \in DOMAIN history : history[i].what = what /\ history[i].who = who
Event(what, who) == [what |-> what, who |-> who, dirty |-> FALSE, ok |-> TRUE]

(* An event happens at most once.                                           *)
Records(what, who) == ~Happened(what, who) /\ history' = Append(history, Event(what, who))
Happens(what, who) == Records(what, who) /\ UNCHANGED odd

(* odd bounds the departures from the expected course to one: a line of no   *)
(* mapping is snooped, an answer is clean or a failure, or node1 prints       *)
(* another record about the mapping.                                        *)
OneOdd(is) == odd' = (odd \/ is) /\ ~(odd /\ is)

(* node1 gives the mapping up.  Besides the unmap that succeeds it may print  *)
(* one other drop/unmap record of the operation, before or after, that fails  *)
(* or is of a read mapping (~ok).                                           *)
Attempts == {"drop", "unmap"}
Unmaps(o) == Happens("unmap", o)
Drops(o) ==
    /\ ~Happened("drop", o) /\ OneOdd(TRUE)
    /\ \E ok \in BOOLEAN :
        history' = Append(history, [what |-> "drop", who |-> o, dirty |-> FALSE, ok |-> ok])

(* node0 takes it over.                                                     *)
Begins(o) == (\E w \in Attempts : Happened(w, o)) /\ Happens("begin", o)
Succeeds(o) == Happened("begin", o) /\ Happens("success", o)

(* Console._read_output stamps a printed line.                              *)
Captures(o) ==
    \/ Happened("drop", o) /\ Happens("drop_captured", o)
    \/ Happened("unmap", o) /\ Happens("unmap_captured", o)
    \/ Happened("success", o) /\ Happens("success_captured", o)

(* CXLMemSim: a line of node1 is snooped, answers and its data is written    *)
(* back.  Nobody has to wait for node0: a line may be snooped on account of   *)
(* other traffic.                                                           *)
Snoops(l) == Records("snoop", l) /\ OneOdd(\A o \in Ops : l \notin Mapping[o])
Acks(l) ==
    /\ Happened("snoop", l) /\ ~Happened("ack", l)
    /\ \E dirty, ok \in BOOLEAN :
        /\ OneOdd(~(dirty /\ ok))
        /\ history' = Append(history, [what |-> "ack", who |-> l, dirty |-> dirty, ok |-> ok])
Completes(l) ==
    /\ Happened("ack", l) /\ history[At("ack", l)].dirty /\ history[At("ack", l)].ok
    /\ Happens("completion", l)

Next ==
    \/ \E o \in Ops : Unmaps(o) \/ Drops(o) \/ Begins(o) \/ Succeeds(o) \/ Captures(o)
    \/ \E l \in Lines : Snoops(l) \/ Acks(l) \/ Completes(l)

Spec == Init /\ [][Next]_vars

-----------------------------------------------------------------------------
(* correlate_dirty_backinvalidations: the snoops with a good dirty answer and *)
(* completion, with each finished operation whose mapping holds the line.   *)
GoodSnoop(l) ==
    /\ Happened("snoop", l) /\ Happened("ack", l) /\ Happened("completion", l)
    /\ history[At("ack", l)].dirty /\ history[At("ack", l)].ok
    /\ At("snoop", l) <= At("ack", l) /\ At("ack", l) <= At("completion", l)

(* The records it takes: the drop/unmap has to be of a writer and succeed.    *)
Finished(o) ==
    /\ \E w \in Attempts : Happened(w, o) /\ history[At(w, o)].ok
    /\ Happened("begin", o) /\ Happened("success", o)

correlate_dirty_backinvalidations ==
    { p \in Ops \X Lines : GoodSnoop(p[2]) /\ Finished(p[1]) /\ p[2] \in Mapping[p[1]] }

(* Mutant: the unmap is not compared with the snoop.                        *)
OrderedAfterUnmap(o, l) ==
    /\ Happened("unmap_captured", o) /\ Happened("success_captured", o)
    /\ At("completion", l) < At("success_captured", o)

(* validate_host_capture_order: captured unmap < snoop <= ACK <= completion <  *)
(* captured success.  Any drop or unmap record of the operation will do: the  *)
(* access and the result it reports are not looked at again.                *)
Ordered(o, l) ==
    /\ \/ Happened("drop_captured", o) /\ At("drop_captured", o) < At("snoop", l)
       \/ Happened("unmap_captured", o) /\ At("unmap_captured", o) < At("snoop", l)
    /\ At("snoop", l) <= At("ack", l) /\ At("ack", l) <= At("completion", l)
    /\ Happened("success_captured", o) /\ At("completion", l) < At("success_captured", o)

validate_host_capture_order == { p \in correlate_dirty_backinvalidations : Ordered(p[1], p[2]) }

-----------------------------------------------------------------------------
(* What accepted evidence shows: modified bytes of the operation's own       *)
(* mapping were taken back from node1, completely, after node1 had dropped or *)
(* unmapped it at least once.  With a single attempt that is the one that     *)
(* succeeded; with a failed attempt before it the snoop may be earlier than   *)
(* the real unmap.  Of node0's success the evidence only shows that the host  *)
(* read it after the data was back, not that node0 waited for the data.     *)
TakenBackAfterUnmap ==
    \A p \in validate_host_capture_order :
        /\ p[2] \in Mapping[p[1]] /\ history[At("ack", p[2])].dirty
        /\ \E w \in Attempts : Happened(w, p[1]) /\ At(w, p[1]) < At("snoop", p[2])
        /\ At("snoop", p[2]) < At("completion", p[2])
==============================================================================
