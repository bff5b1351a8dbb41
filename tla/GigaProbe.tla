----------------------------- MODULE GigaProbe -----------------------------
(***************************************************************************)
(* The two-client, one-server coherence probe: the three roles of          *)
(* scripts/giga_2c1s_coherence.c on one shared arena, started, watched and *)
(* judged by scripts/run_giga_2c1s_coherence.sh.                           *)
(*                                                                         *)
(* A role is a straight line of stores, polls and checked loads, given as  *)
(* a sequence of instructions; the seqlock phase at its end is the module  *)
(* Seqlock.  The build runs on x86, where stores become visible in program *)
(* order, so a store is one step on memory; every poll has a deadline.     *)
(***************************************************************************)
EXTENDS Integers, Sequences

CONSTANTS
    Clients,        \* the clients (two in the code)
    Words,          \* the words of the snapshot (seven in the code)
    Updates,        \* seqlock_updates
    Iterations,     \* handshake rounds
    PayloadWords,   \* words of one client's payload
    Passes          \* MIXED_PASSES

ASSUME SeqlockAssumption == Updates \in Nat \ {0} /\ Words # {}

Server == "server"
Roles == {Server} \cup {"client0", "client1"}
Role(c) == IF c = 0 THEN "client0" ELSE "client1"

VARIABLES
    mem,      \* the arena's words, except the seqlock snapshot
    pc,       \* per role: the next instruction
    sum,      \* per role: the mixed-phase checksum so far, as the values summed
    errors,   \* per role: server_errors, or a client's errors
    status,   \* per role: "absent", "running", "exit0", "exit1", "killed"
    log,      \* the lines of the server's log the script looks for
    runner,   \* where the shell script is
    seq, word, version, unwritten, stop, rpc, first, value, unread, last,
    accepted, torn    \* the seqlock phase

seqlockVars == <<seq, word, version, unwritten, stop, rpc, first, value, unread,
                 last, accepted, torn>>
vars == <<mem, pc, sum, errors, status, log, runner, seqlockVars>>

Snapshot == INSTANCE Seqlock

-----------------------------------------------------------------------------
(* probe_control_t: flags shared by all and one lane per client, and the    *)
(* two payloads behind them.                                                *)

SharedFlags == {"initialized", "start", "bulk_start", "mixed_phase", "seqlock_start"}
LaneFlags == {"registered", "ready", "ack", "handshake_done", "bulk_done", "bulk_ack",
              "verify_done", "mixed_done", "seqlock_ready", "seqlock_done"}
LaneData == {"packet", "reply", "mixed_checksum"}

Flag(name) == <<name>>
Lane(c, name) == <<name, c>>
Payload(c, w) == <<"payload", c, w>>
FlagWords == { Flag(f) : f \in SharedFlags } \cup { Lane(c, f) : c \in Clients, f \in LaneFlags }
DataWords == { Lane(c, d) : c \in Clients, d \in LaneData }
             \cup { Payload(c, w) : c \in Clients, w \in 1 .. PayloadWords }

(* Contents, kept as the arguments of the hash that makes them.             *)
packet_value(c, round) == <<"packet", c, round>>
packet_reply(c, round) == <<"reply", c, round>>
payload_value(c, w) == <<"payload", c, w>>
Inverted(contents) == <<"not", contents>>
mixed_write_value(phase, c, pass, w) == <<"mixed", phase, c, pass, w>>
mixed_read_value(phase, c, w) ==
    IF phase = 1 THEN Inverted(payload_value(c, w)) ELSE mixed_write_value(1, c, Passes, w)

-----------------------------------------------------------------------------
(* Instructions.                                                            *)
Put(at, contents) == <<[op |-> "store", at |-> at, is |-> contents]>>
Check(at, contents) == <<[op |-> "load", at |-> at, is |-> contents]>>
wait_equal(at, expected) == <<[op |-> "poll", at |-> at, is |-> expected]>>
Sum(at) == <<[op |-> "sum", at |-> at]>>
PutSum(at) == <<[op |-> "putSum", at |-> at]>>
Say(line) == <<[op |-> "print", is |-> line]>>
SnapshotPhase == <<[op |-> "seqlock"]>>

Times(n, Body(_)) ==
    LET upto[i \in 0 .. n] == IF i = 0 THEN <<>> ELSE upto[i - 1] \o Body(i) IN upto[n]
Both(Body(_)) == Body(0) \o Body(1)
Over(c, Body(_, _)) == Times(PayloadWords, LAMBDA w : Body(c, w))

expected_mixed_checksum(phase, c) ==
    Times(Passes, LAMBDA pass : Over(c, LAMBDA d, w : <<mixed_read_value(phase, d, w)>>))

WriterOf(phase) == phase - 1
ReaderOf(phase) == 1 - WriterOf(phase)

(* One round of the handshake at the server: both lanes, in order.          *)
ServerRound(round) == Both(LAMBDA c :
    wait_equal(Lane(c, "ready"), round)
    \o Check(Lane(c, "packet"), packet_value(c, round))
    \o Put(Lane(c, "reply"), packet_reply(c, round))
    \o Put(Lane(c, "ack"), round))

(* Mutant: the clients are told to read back before the server has written. *)
ServerBulkEarly ==
    Put(Flag("bulk_start"), 1)
    \o Both(LAMBDA c : wait_equal(Lane(c, "bulk_done"), 1))
    \o Both(LAMBDA c : Over(c, LAMBDA d, w : Check(Payload(d, w), payload_value(d, w))))
    \o Both(LAMBDA c : Put(Lane(c, "bulk_ack"), 1))
    \o Both(LAMBDA c : Over(c, LAMBDA d, w : Put(Payload(d, w), Inverted(payload_value(d, w)))))
    \o Both(LAMBDA c : wait_equal(Lane(c, "verify_done"), 1))

ServerBulk ==
    Put(Flag("bulk_start"), 1)
    \o Both(LAMBDA c : wait_equal(Lane(c, "bulk_done"), 1))
    \o Both(LAMBDA c : Over(c, LAMBDA d, w : Check(Payload(d, w), payload_value(d, w))))
    \o Both(LAMBDA c : Over(c, LAMBDA d, w : Put(Payload(d, w), Inverted(payload_value(d, w)))))
    \o Both(LAMBDA c : Put(Lane(c, "bulk_ack"), 1))
    \o Both(LAMBDA c : wait_equal(Lane(c, "verify_done"), 1))

ServerMixed(phase) ==
    Put(Flag("mixed_phase"), phase)
    \o Both(LAMBDA c : wait_equal(Lane(c, "mixed_done"), phase))
    \o Over(WriterOf(phase), LAMBDA c, w :
           Check(Payload(c, w), mixed_write_value(phase, c, Passes, w)))
    \o Check(Lane(ReaderOf(phase), "mixed_checksum"),
             expected_mixed_checksum(phase, ReaderOf(phase)))

run_server ==
    Put(Flag("initialized"), 1)
    \o Say("SERVER_READY")
    \o Both(LAMBDA c : wait_equal(Lane(c, "registered"), 1))
    \o Say("INSPECT_READY")
    \o Put(Flag("start"), 1)
    \o Times(Iterations, ServerRound)
    \o Both(LAMBDA c : wait_equal(Lane(c, "handshake_done"), 1))
    \o ServerBulk
    \o ServerMixed(1) \o ServerMixed(2)
    \o Both(LAMBDA c : wait_equal(Lane(c, "seqlock_ready"), 1))
    \o Put(Flag("seqlock_start"), 1)
    \o SnapshotPhase
    \o Both(LAMBDA c : wait_equal(Lane(c, "seqlock_done"), 1))

(* Mutant: the client runs ahead of the acknowledgement.                    *)
ClientRoundUnacked(c, round) ==
    Put(Lane(c, "packet"), packet_value(c, round))
    \o Put(Lane(c, "ready"), round)

ClientRound(c, round) ==
    Put(Lane(c, "packet"), packet_value(c, round))
    \o Put(Lane(c, "ready"), round)
    \o wait_equal(Lane(c, "ack"), round)
    \o Check(Lane(c, "reply"), packet_reply(c, round))

(* The writer of a phase overwrites its payload, the reader sums its own.   *)
ClientMixed(c, phase) ==
    wait_equal(Flag("mixed_phase"), phase)
    \o Times(Passes, LAMBDA pass : Over(c, LAMBDA d, w :
           IF d = WriterOf(phase)
           THEN Put(Payload(d, w), mixed_write_value(phase, d, pass, w))
           ELSE Sum(Payload(d, w))))
    \o PutSum(Lane(c, "mixed_checksum"))
    \o Put(Lane(c, "mixed_done"), phase)

run_client(c) ==
    wait_equal(Flag("initialized"), 1)
    \o Put(Lane(c, "registered"), 1)
    \o wait_equal(Flag("start"), 1)
    \o Times(Iterations, LAMBDA round : ClientRound(c, round))
    \o Put(Lane(c, "handshake_done"), 1)
    \o wait_equal(Flag("bulk_start"), 1)
    \o Over(c, LAMBDA d, w : Put(Payload(d, w), payload_value(d, w)))
    \o Put(Lane(c, "bulk_done"), 1)
    \o wait_equal(Lane(c, "bulk_ack"), 1)
    \o Over(c, LAMBDA d, w : Check(Payload(d, w), Inverted(payload_value(d, w))))
    \o Put(Lane(c, "verify_done"), 1)
    \o ClientMixed(c, 1) \o ClientMixed(c, 2)
    \o Put(Lane(c, "seqlock_ready"), 1)
    \o wait_equal(Flag("seqlock_start"), 1)
    \o SnapshotPhase
    \o Put(Lane(c, "seqlock_done"), 1)

Programs == [ r \in Roles |->
    IF r = Server THEN run_server ELSE run_client(IF r = Role(0) THEN 0 ELSE 1) ]

-----------------------------------------------------------------------------
Init ==
    /\ mem = [ at \in FlagWords \cup DataWords |-> IF at \in FlagWords THEN 0 ELSE <<>> ]
    /\ pc = [ r \in Roles |-> 1 ]
    /\ sum = [ r \in Roles |-> <<>> ]
    /\ errors = [ r \in Roles |-> 0 ]
    /\ status = [ r \in Roles |-> "absent" ]
    /\ log = {}
    /\ runner = "start"
    /\ Snapshot!Init

Running(r) == status[r] = "running"
Instruction(r) == Programs[r][pc[r]]
At(r, op) == Running(r) /\ pc[r] <= Len(Programs[r]) /\ Instruction(r).op = op
Advance(r) == pc' = [pc EXCEPT ![r] = @ + 1]

Store(r) ==
    /\ At(r, "store")
    /\ mem' = [mem EXCEPT ![Instruction(r).at] = Instruction(r).is]
    /\ Advance(r)
    /\ UNCHANGED <<sum, errors, status, log, runner, seqlockVars>>

CheckedLoad(r) ==
    /\ At(r, "load")
    /\ errors' = [errors EXCEPT ![r] =
           IF mem[Instruction(r).at] = Instruction(r).is THEN @ ELSE @ + 1]
    /\ Advance(r)
    /\ UNCHANGED <<mem, sum, status, log, runner, seqlockVars>>

checksum_step(r) ==
    /\ At(r, "sum")
    /\ sum' = [sum EXCEPT ![r] = Append(@, mem[Instruction(r).at])]
    /\ Advance(r)
    /\ UNCHANGED <<mem, errors, status, log, runner, seqlockVars>>

StoreSum(r) ==
    /\ At(r, "putSum")
    /\ mem' = [mem EXCEPT ![Instruction(r).at] = sum[r]]
    /\ sum' = [sum EXCEPT ![r] = <<>>]
    /\ Advance(r)
    /\ UNCHANGED <<errors, status, log, runner, seqlockVars>>

PrintLine(r) ==
    /\ At(r, "print")
    /\ log' = log \cup {Instruction(r).is}
    /\ Advance(r)
    /\ UNCHANGED <<mem, sum, errors, status, runner, seqlockVars>>

WaitEnds(r) ==
    /\ At(r, "poll")
    /\ mem[Instruction(r).at] = Instruction(r).is
    /\ Advance(r)
    /\ UNCHANGED <<mem, sum, errors, status, log, runner, seqlockVars>>

(* goto out / goto fail: the deadline passes, the role exits with 1.  A      *)
(* client counts that in its lane, once it has one.                         *)
WaitTimesOut(r) ==
    /\ At(r, "poll")
    /\ mem[Instruction(r).at] # Instruction(r).is
    /\ errors' = [errors EXCEPT ![r] = IF r = Server \/ pc[r] = 1 THEN @ ELSE @ + 1]
    /\ status' = [status EXCEPT ![r] = "exit1"]
    /\ UNCHANGED <<mem, pc, sum, log, runner, seqlockVars>>

(* A client that cannot attach to the arena or finds no tensor in it, or     *)
(* metadata that are not the ones it was built for, exits with 1 before it   *)
(* has registered.                                                          *)
ClientCannotBegin(c) ==
    /\ Running(Role(c)) /\ pc[Role(c)] \in {1, 2}
    /\ status' = [status EXCEPT ![Role(c)] = "exit1"]
    /\ UNCHANGED <<mem, pc, sum, errors, log, runner, seqlockVars>>

(* The seqlock phase: the server's updates until it has set stop, a         *)
(* client's reads until the one after stop.                                 *)
SnapshotServer ==
    /\ At(Server, "seqlock")
    /\ Snapshot!Server
    /\ pc' = [pc EXCEPT ![Server] = IF stop' THEN @ + 1 ELSE @]
    /\ UNCHANGED <<mem, sum, errors, status, log, runner>>

SnapshotClient(c) ==
    /\ At(Role(c), "seqlock")
    /\ Snapshot!Client(c)
    /\ pc' = [pc EXCEPT ![Role(c)] = IF rpc'[c] = "done" THEN @ + 1 ELSE @]
    /\ errors' = [errors EXCEPT ![Role(c)] = IF torn'[c] /\ ~torn[c] THEN @ + 1 ELSE @]
    /\ UNCHANGED <<mem, sum, status, log, runner>>

(* What run_server still finds at the end: the snapshot is the last update, *)
(* and each client has accepted one.                                        *)
FinalErrors ==
    (IF seq = 2 * Updates THEN {} ELSE {"seq"})
    \cup { w \in Words : word[w] # Updates }
    \cup { c \in Clients : accepted[c] = -1 }

(* The end of run_server; the pages may or may not be on the right node.    *)
ServerReturns(numaOk) ==
    /\ Running(Server) /\ pc[Server] > Len(Programs[Server])
    /\ LET pass == numaOk /\ FinalErrors = {} /\ \A r \in Roles : errors[r] = 0
       IN /\ log' = log \cup (IF pass THEN {"RESULT PASS"} ELSE {"RESULT FAIL"})
          /\ status' = [status EXCEPT ![Server] = IF pass THEN "exit0" ELSE "exit1"]
    /\ UNCHANGED <<mem, pc, sum, errors, runner, seqlockVars>>

ClientReturns(c) ==
    /\ Running(Role(c)) /\ pc[Role(c)] > Len(Programs[Role(c)])
    /\ status' = [status EXCEPT ![Role(c)] = IF errors[Role(c)] = 0 THEN "exit0" ELSE "exit1"]
    /\ UNCHANGED <<mem, pc, sum, errors, log, runner, seqlockVars>>

RoleStep(r) ==
    \/ Store(r)
    \/ CheckedLoad(r)
    \/ checksum_step(r)
    \/ StoreSum(r)
    \/ PrintLine(r)
    \/ WaitEnds(r)

ServerStep ==
    \/ RoleStep(Server)
    \/ SnapshotServer
    \/ \E numaOk \in BOOLEAN : ServerReturns(numaOk)

ClientStep(c) == RoleStep(Role(c)) \/ SnapshotClient(c) \/ ClientReturns(c)

-----------------------------------------------------------------------------
(* run_giga_2c1s_coherence.sh --remote                                      *)

StartServer ==
    /\ runner = "start"
    /\ runner' = "awaitReady"
    /\ status' = [status EXCEPT ![Server] = "running"]
    /\ UNCHANGED <<mem, pc, sum, errors, log, seqlockVars>>

(* SERVER_READY is in the log: start both clients.                          *)
StartClients ==
    /\ runner = "awaitReady"
    /\ "SERVER_READY" \in log
    /\ runner' = "awaitInspect"
    /\ status' = [ r \in Roles |-> IF r = Server THEN status[r] ELSE "running" ]
    /\ UNCHANGED <<mem, pc, sum, errors, log, seqlockVars>>

Inspect ==
    /\ runner = "awaitInspect"
    /\ "INSPECT_READY" \in log
    /\ runner' = "wait"
    /\ UNCHANGED <<mem, pc, sum, errors, status, log, seqlockVars>>

(* exit 1 out of a log poll, on a dead server or after 300 tries, or (set    *)
(* -e) out of the inspection, when a role is no longer there to be looked    *)
(* at; the EXIT trap kills and reaps whatever runs.                         *)
RunnerGivesUp ==
    /\ \/ runner = "awaitReady" /\ "SERVER_READY" \notin log
       \/ runner = "awaitInspect" /\ ("INSPECT_READY" \notin log \/ \E r \in Roles : ~Running(r))
    /\ runner' = "FAILED"
    /\ status' = [ r \in Roles |-> IF Running(r) THEN "killed" ELSE status[r] ]
    /\ UNCHANGED <<mem, pc, sum, errors, log, seqlockVars>>

(* Mutant: the verdict only looks at the clients' statuses and at whether   *)
(* the server reported.                                                     *)
VerdictLenient ==
    /\ runner = "wait"
    /\ \A r \in Roles : ~Running(r)
    /\ runner' = IF \A c \in Clients : status[Role(c)] = "exit0" THEN "PASSED" ELSE "FAILED"
    /\ UNCHANGED <<mem, pc, sum, errors, status, log, seqlockVars>>

(* All three have been waited for: the verdict needs three zero statuses    *)
(* and the server's RESULT PASS.                                            *)
Verdict ==
    /\ runner = "wait"
    /\ \A r \in Roles : ~Running(r)
    /\ runner' = IF (\A r \in Roles : status[r] = "exit0") /\ "RESULT PASS" \in log
                 THEN "PASSED" ELSE "FAILED"
    /\ UNCHANGED <<mem, pc, sum, errors, status, log, seqlockVars>>

Runner == StartServer \/ StartClients \/ Inspect \/ Verdict

Next ==
    \/ Runner
    \/ RunnerGivesUp
    \/ ServerStep
    \/ \E c \in Clients : ClientStep(c)
    \/ \E r \in Roles : WaitTimesOut(r)
    \/ \E c \in Clients : ClientCannotBegin(c)

(* The script and the roles, each on a CPU of its own, keep running.        *)
Fairness ==
    /\ WF_vars(Runner)
    /\ WF_vars(ServerStep)
    /\ \A c \in Clients : WF_vars(ClientStep(c))

Spec == Init /\ [][Next]_vars /\ Fairness

-----------------------------------------------------------------------------
(* No client ever accepts a snapshot whose words do not all belong to the   *)
(* version its counter names (snapshot_try_read's *errors stays zero).      *)
NoTornSnapshot == Snapshot!NoTornSnapshot

(* A client that has left the seqlock phase has accepted the last version:  *)
(* the read after stop cannot return an older one.                          *)
LastReadIsFinal == Snapshot!LastReadIsFinal

(* Two roles are never about to access the same payload or packet word with *)
(* at least one of them writing it: also while both clients run a mixed     *)
(* phase, their payloads are disjoint and handed over by the flags.         *)
NoDataRace ==
    \A r, s \in Roles :
        LET Accesses(q, ops) == \E op \in ops : At(q, op)
            writes == {"store", "putSum"}
            reads == {"load", "sum"}
        IN r # s /\ Accesses(r, writes) /\ Accesses(s, writes \cup reads)
           => (Instruction(r).at = Instruction(s).at => Instruction(r).at \in FlagWords)

(* The script reports a pass only for a run in which every role executed    *)
(* its whole program, nobody was killed or gave up, and both clients' last  *)
(* snapshots are the last version.                                          *)
PassIsEarned ==
    runner = "PASSED" =>
        /\ \A r \in Roles : status[r] = "exit0" /\ pc[r] = Len(Programs[r]) + 1
        /\ \A c \in Clients : accepted[c] = Updates /\ ~torn[c]

(* Without timeouts or misplaced pages the probe passes.                    *)
PassUnlessTimeout ==
    [](runner # "FAILED" /\ \A r \in Roles : status[r] # "exit1") => <>(runner = "PASSED")
=============================================================================
