---------------------------- MODULE GuestEvidence ----------------------------
(***************************************************************************)
(* What the back-invalidate application's runner concludes from two noisy  *)
(* serial consoles (scripts/cxl_bi_app.py).  Each guest prints one record  *)
(* per stage of run_reader or run_writer, with the errors it counted, and  *)
(* a kernel message may cut into a record: the record's prefix is lost, so *)
(* that the line is skipped, or its JSON is damaged, so that it is refused *)
(* when parsed.  The runner waits for both summaries, reads the final      *)
(* statistics of the coherence server and judges.                          *)
(***************************************************************************)
EXTENDS Naturals, Sequences, FiniteSets

CONSTANTS
    MaxNoise,    \* records a kernel message may cut into
    MaxErrors    \* verification errors the guests may meet

VARIABLES
    stage,     \* guest -> number of stages it has ended
    errors,    \* guest -> the errors it has counted so far
    geometry,  \* guest -> the DAX geometry it discovered
    checksum,  \* guest -> the payload checksum it computed, 0 before
    lines,     \* guest -> the records on its console: <<event, errors>>, or damaged
    gaveUp,    \* guest -> it ended with a fatal record and powered off
    counted,   \* failures the coherence server has counted
    noise,     \* records cut into so far
    verdict    \* "waiting", "passed" or "failed"

vars == <<stage, errors, geometry, checksum, lines, gaveUp, counted, noise, verdict>>

Roles == {"reader", "writer"}
Peer(r) == IF r = "reader" THEN "writer" ELSE "reader"

\* The records in the order each role prints them; a stream record is named by
\* its operation and its direction.
Stages(r) ==
    IF r = "reader"
    THEN << "mapped", "litmus", "pingpong", "read_verify_0", "write_1", "summary" >>
    ELSE << "mapped", "litmus", "pingpong", "write_0", "read_verify_1", "summary" >>
Writes == {"write_0", "write_1"}
Reads == {"read_verify_0", "read_verify_1"}
Last == 6

\* How far the peer must be before a guest's waits let it end stage s.
PeerNeeded(r, s) ==
    IF r = "reader" THEN << 0, 1, 2, 4, 4, 5 >>[s] ELSE << 0, 1, 2, 2, 5, 5 >>[s]

Damaged == <<"damaged", 0>>
FatalRecord == <<"fatal", 0>>

Init ==
    /\ stage = [r \in Roles |-> 0]
    /\ errors = [r \in Roles |-> 0]
    /\ geometry \in [Roles -> 1 .. 2]
    /\ checksum = [r \in Roles |-> 0]
    /\ lines = [r \in Roles |-> <<>>]
    /\ gaveUp = [r \in Roles |-> FALSE]
    /\ counted = 0
    /\ noise = 0
    /\ verdict = "waiting"

TotalErrors == errors["reader"] + errors["writer"]

-----------------------------------------------------------------------------
(* The guests.                                                             *)

\* The errors a record reports: a stream's own, everything so far otherwise.
Reported(r, event, found) ==
    IF event \in Writes \cup {"mapped"} THEN 0
    ELSE IF event \in Reads THEN found ELSE errors[r] + found

\* A guest ends its next stage, having met some verification errors in it.
EndStage(r, found) ==
    LET s == stage[r] + 1
        event == Stages(r)[s]
    IN  /\ verdict = "waiting"
        /\ ~gaveUp[r]
        /\ s <= Last
        /\ stage[Peer(r)] >= PeerNeeded(r, s)
        /\ s = 1 => found = 0
        /\ TotalErrors + found <= MaxErrors
        /\ stage' = [stage EXCEPT ![r] = s]
        /\ errors' = [errors EXCEPT ![r] = @ + found]
        /\ checksum' = IF event = "litmus"
                       THEN [checksum EXCEPT ![r] = IF r = "reader" /\ found > 0 THEN 2 ELSE 1]
                       ELSE checksum
        /\ lines' = [lines EXCEPT ![r] = Append(@, <<event, Reported(r, event, found)>>)]
        /\ UNCHANGED <<geometry, gaveUp, counted, noise, verdict>>

\* A wait expires, or a call fails: a fatal record, and the guest powers off.
Fatal(r) ==
    /\ verdict = "waiting"
    /\ ~gaveUp[r]
    /\ stage[r] < Last
    /\ gaveUp' = [gaveUp EXCEPT ![r] = TRUE]
    /\ lines' = [lines EXCEPT ![r] = Append(@, FatalRecord)]
    /\ UNCHANGED <<stage, errors, geometry, checksum, counted, noise, verdict>>

\* A kernel message cuts into the last record of a console.
CutInto(r) ==
    /\ verdict = "waiting"
    /\ noise < MaxNoise
    /\ lines[r] # <<>>
    /\ noise' = noise + 1
    /\ \E cut \in { <<>>, <<Damaged>> } :
          lines' = [lines EXCEPT ![r] = SubSeq(@, 1, Len(@) - 1) \o cut]
    /\ UNCHANGED <<stage, errors, geometry, checksum, gaveUp, counted, verdict>>

-----------------------------------------------------------------------------
(* The runner.                                                             *)

Records(r, events) == { i \in 1 .. Len(lines[r]) : lines[r][i][1] \in events }
Clean(r, events) == \A i \in Records(r, events) : lines[r][i][2] = 0

\* Mutant: the errors of the record are not looked at.
_one_event_printed(r, event) == Cardinality(Records(r, {event})) = 1

\* A record without errors, printed exactly once.
_one_event(r, event) == Cardinality(Records(r, {event})) = 1 /\ Clean(r, {event})

\* The stream records of a role: two, without errors, one per direction.
Streams(r) ==
    /\ Cardinality(Records(r, Writes \cup Reads)) = 2
    /\ Clean(r, Writes \cup Reads)
    /\ \A s \in 4 .. 5 : Records(r, {Stages(r)[s]}) # {}

validate_guest_evidence ==
    /\ \A r \in Roles :
          /\ Records(r, {"fatal", "damaged"}) = {}
          /\ \A event \in {"mapped", "litmus", "pingpong", "summary"} : _one_event(r, event)
          /\ Streams(r)
    /\ geometry["reader"] = geometry["writer"]
    /\ checksum["reader"] = checksum["writer"]

\* The final statistics: exactly one record, every failure counter zero.
parse_server_stats(printed) == Len(printed) = 1 /\ \A i \in 1 .. Len(printed) : printed[i] = 0

\* The coherence server counts a timeout or a failed delivery, copy or message.
ServerCounts ==
    /\ verdict = "waiting"
    /\ counted < 1
    /\ counted' = counted + 1
    /\ UNCHANGED <<stage, errors, geometry, checksum, lines, gaveUp, noise, verdict>>

SummarySeen(r) == Records(r, {"summary"}) # {}

\* Console.wait_guest_event meets a fatal or a damaged record, or its deadline.
WaitFails ==
    /\ verdict = "waiting"
    /\ \E r \in Roles : Records(r, {"fatal", "damaged"}) # {} \/ ~SummarySeen(r)
    /\ verdict' = "failed"
    /\ UNCHANGED <<stage, errors, geometry, checksum, lines, gaveUp, counted, noise>>

\* Both summaries are seen: the guests are stopped, the server prints its
\* statistics on its way out and the evidence is judged.
Judge ==
    /\ verdict = "waiting"
    /\ \A r \in Roles : SummarySeen(r)
    /\ \E printed \in { <<counted>> } \cup IF noise < MaxNoise THEN { <<>> } ELSE {} :
          /\ noise' = IF printed = <<>> THEN noise + 1 ELSE noise
          /\ verdict' = IF validate_guest_evidence /\ parse_server_stats(printed)
                        THEN "passed" ELSE "failed"
    /\ UNCHANGED <<stage, errors, geometry, checksum, lines, gaveUp, counted>>

Next ==
    \/ \E r \in Roles : Fatal(r) \/ CutInto(r) \/ \E found \in 0 .. 1 : EndStage(r, found)
    \/ ServerCounts
    \/ WaitFails
    \/ Judge

Spec == Init /\ [][Next]_vars

-----------------------------------------------------------------------------

\* validate_guest_evidence and parse_server_stats: whatever the kernel's messages
\* cut out of the consoles, a run passes only when both guests ended every stage
\* on the same geometry, the reader saw the writer's payload, and neither a guest
\* nor the server counted an error, in whichever stage it was met.
PassedIsClean ==
    verdict = "passed" =>
        /\ \A r \in Roles : stage[r] = Last /\ errors[r] = 0
        /\ geometry["reader"] = geometry["writer"]
        /\ checksum["reader"] = checksum["writer"]
        /\ counted = 0
=============================================================================
