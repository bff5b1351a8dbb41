--------------------------- MODULE PersistencyProof ---------------------------
(***************************************************************************)
(* strict_persistency_proof of scripts/legofs_io500.py for one operation.    *)
(* The client and the authority server print their records on their own      *)
(* consoles; a console is read in order and a line is stamped when it is      *)
(* read, if it is not damaged by other output.  CXLMemSim stamps its records  *)
(* at once.  The file system is the program under test and may do things in  *)
(* any order across guests: history is what happened, the proof sees stamps. *)
(***************************************************************************)
EXTENDS Naturals, Sequences, Functions

CONSTANTS
    Kinds,           \* durability paths explored
    MaxLag,          \* bound: lines printed on a console and not yet read
    MaxMishaps       \* bound: damaged lines, and stages reported twice

VARIABLES kind, history, client, server, damaged, duplicates
vars == <<kind, history, client, server, damaged, duplicates>>

(* What each guest prints, in order, on each path.                          *)
ClientLines ==
    IF kind = "writer_persisted" THEN <<"persisted">>
    ELSE IF kind = "writer_host" THEN <<"coherent_sealed", "writer_host_persisted">>
    ELSE IF kind = "authority" THEN <<"coherent_sealed">> ELSE <<"unmap">>
ServerLines ==
    IF kind = "authority" THEN <<"begin", "success", "acquired", "dependency_persisted">>
    ELSE <<"begin", "success">>
Provider ==
    CASE kind = "authority" -> {"GETS", "FENCE", "FENCE_completion"}
      [] kind = "dirty_range_ownership" -> {"snoop", "ack", "completion"}
      [] OTHER -> {}

(* A console: lines printed so far and lines read so far.                   *)
Init ==
    /\ kind \in Kinds /\ history = <<>> /\ damaged = 0 /\ duplicates = 0
    /\ client = [lines |-> <<>>, read |-> 0] /\ server = [lines |-> <<>>, read |-> 0]

Event(what, stamp) == [what |-> what, stamp |-> stamp, line |-> "in", host |-> 0]
Times(what, stamps) == { i \in DOMAIN history : history[i].what = what /\ history[i].stamp \in stamps }
Happened(what) == Times(what, {"real"}) # {}
Records(e) == history' = Append(history, e)

PrintsNext(console, lines) ==
    /\ Len(console.lines) < console.read + MaxLag
    /\ \E k \in DOMAIN lines :
        /\ Range(console.lines) = { lines[j] : j \in 1 .. k - 1 }
        /\ Records(Event(lines[k], "real"))

ClientPrints ==
    /\ PrintsNext(client, ClientLines)
    /\ client' = [client EXCEPT !.lines = Append(@, history'[Len(history')].what)]
    /\ UNCHANGED <<kind, server, damaged, duplicates>>
(* On the longest path the server and the provider stop once begin, the       *)
(* server's first line, was read before the writer's seal: Stored fails from  *)
(* then on, and orders without a proof are left to the shorter paths.       *)
Provable == kind = "authority" /\ server.read > 0 => client.read > 0

ServerPrints ==
    /\ Provable
    /\ PrintsNext(server, ServerLines)
    /\ server' = [server EXCEPT !.lines = Append(@, history'[Len(history')].what)]
    /\ UNCHANGED <<kind, client, damaged, duplicates>>

LastOf(console) == console.lines[Len(console.lines)]
Repeatable == {"acquired", "dependency_persisted"}

(* A stage is reported a second time.                                       *)
ServerRepeats ==
    /\ damaged + duplicates < MaxMishaps /\ duplicates' = duplicates + 1
    /\ server.lines # <<>> /\ Len(server.lines) < server.read + MaxLag
    /\ LastOf(server) \in Repeatable
    /\ Records(Event(LastOf(server), "real"))
    /\ server' = [server EXCEPT !.lines = Append(@, LastOf(server))]
    /\ UNCHANGED <<kind, client, damaged>>

(* Console._read_output and decode_selected_trace_event: the next line gets   *)
(* its stamp, or is damaged and dropped.  Only lines that may come twice are *)
(* damaged here: without its only copy of a line the proof fails.           *)
Reads(console) ==
    /\ console.read < Len(console.lines)
    /\ \E stamp \in {"captured", "damaged"} :
        /\ stamp = "damaged" => console.lines[console.read + 1] \in Repeatable
        /\ Records(Event(console.lines[console.read + 1], stamp))
        /\ damaged' = damaged + (IF stamp = "damaged" THEN 1 ELSE 0)
    /\ damaged' + duplicates <= MaxMishaps
ReadsClient ==
    /\ Reads(client) /\ client' = [client EXCEPT !.read = @ + 1]
    /\ UNCHANGED <<kind, server, duplicates>>
ReadsServer ==
    /\ Reads(server) /\ server' = [server EXCEPT !.read = @ + 1]
    /\ UNCHANGED <<kind, client, duplicates>>

(* CXLMemSim: a read of some line by some host, a fence of some server, a     *)
(* snoop of the writer, each at any time.                                   *)
ProviderRecords(what) ==
    /\ Provable /\ what \in Provider /\ ~Happened(what)
    /\ what = "FENCE_completion" => Happened("FENCE")
    /\ what = "ack" => Happened("snoop")
    /\ what = "completion" => Happened("ack")
    /\ \E line \in {"in", "out"}, host \in {0, 1} :
        /\ what # "GETS" => line = "in" /\ host = 0
        /\ line = "in" \/ host = 0
        /\ Records([what |-> what, stamp |-> "real", line |-> line, host |-> host])
    /\ UNCHANGED <<kind, client, server, damaged, duplicates>>

Next ==
    \/ ClientPrints \/ ServerPrints \/ ServerRepeats \/ ReadsClient \/ ReadsServer
    \/ \E what \in {"GETS", "FENCE", "FENCE_completion", "snoop", "ack", "completion"} : ProviderRecords(what)

Spec == Init /\ [][Next]_vars

-----------------------------------------------------------------------------
(* The proof, from the stamps of the undamaged lines.  begin and success keep *)
(* the last record; a receipt or a stage recorded twice is ambiguous.       *)
Captured(what) == Times(what, {"captured"})
Latest(what) == CHOOSE i \in Captured(what) : \A j \in Captured(what) : j <= i
Present(what) == Captured(what) # {}
OneShot(what) == \E i \in DOMAIN history : Captured(what) = {i}
RealTime(what) == CHOOSE i \in Times(what, {"real"}) : \A j \in Times(what, {"real"}) : i <= j

(* The client's record precedes the begin of the store, which succeeds.     *)
Stored(first) ==
    /\ Present(first) /\ Present("begin") /\ Present("success")
    /\ Latest(first) < Latest("begin")
    /\ Latest("begin") <= Latest("success")

writer_proofs ==
    \/ kind = "writer_persisted" /\ Stored("persisted")
    \/ /\ kind = "writer_host" /\ Stored("coherent_sealed")
       /\ OneShot("writer_host_persisted")
       /\ Latest("success") < Latest("writer_host_persisted")

(* Mutant: any read before the acquisition will do.                         *)
AuthorityReadsAnywhen ==
    /\ Happened("GETS") /\ history[RealTime("GETS")].line = "in"
    /\ RealTime("GETS") < Latest("acquired")

(* The authority reads a line of the dependency between success and acquire. *)
AuthorityReads ==
    /\ Happened("GETS") /\ history[RealTime("GETS")].line = "in"
    /\ Latest("success") < RealTime("GETS") /\ RealTime("GETS") < Latest("acquired")

(* The same host fences between acquire and persist.                        *)
AuthorityFences ==
    /\ Happened("FENCE") /\ Happened("FENCE_completion")
    /\ history[RealTime("FENCE")].host = history[RealTime("GETS")].host
    /\ Latest("acquired") < RealTime("FENCE") /\ RealTime("FENCE") <= RealTime("FENCE_completion")
    /\ RealTime("FENCE_completion") < Latest("dependency_persisted")

authority_proofs ==
    /\ kind = "authority" /\ Stored("coherent_sealed")
    /\ OneShot("acquired") /\ OneShot("dependency_persisted")
    /\ Latest("success") < Latest("acquired")
    /\ Latest("acquired") < Latest("dependency_persisted")
    /\ AuthorityReads /\ AuthorityFences

bi_proofs ==
    /\ kind = "dirty_range_ownership"
    /\ Present("unmap") /\ Present("begin") /\ Present("success")
    /\ Happened("completion")
    /\ Latest("unmap") < RealTime("snoop") /\ RealTime("snoop") <= RealTime("ack")
    /\ RealTime("ack") <= RealTime("completion") /\ RealTime("completion") < Latest("success")

-----------------------------------------------------------------------------
(* What a proof shows, from stamps taken late and from lines of which some    *)
(* are damaged or doubled.  On the authority path an authority read a line    *)
(* of the dependency after the store had succeeded, and the same host fenced  *)
(* after its first report of the acquisition (a second report may be lost,    *)
(* and then goes unnoticed).  On the back-invalidation path the bytes left    *)
(* the writer after it had unmapped them.  The writer's paths compare two     *)
(* late stamps, which says little of the real order: the writer had reported  *)
(* when the host read the begin of the store, perhaps after it began.        *)
StrictProofIsReal ==
    /\ authority_proofs =>
        /\ RealTime("success") < RealTime("GETS") /\ history[RealTime("GETS")].line = "in"
        /\ RealTime("acquired") < RealTime("FENCE")
        /\ history[RealTime("FENCE")].host = history[RealTime("GETS")].host
    /\ \A first \in {"persisted", "coherent_sealed"} :
        writer_proofs /\ Happened(first) => RealTime(first) < Latest("begin")
    /\ bi_proofs => Happened("unmap") /\ RealTime("unmap") < RealTime("snoop")
==============================================================================
