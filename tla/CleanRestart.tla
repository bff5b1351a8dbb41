---------------------------- MODULE CleanRestart ----------------------------
(***************************************************************************)
(* The restart profiles of the IO500 runner: run_clean_restart_fault,      *)
(* run_unauthorized_clean_restart_probe and                                *)
(* run_active_lane_retirement_probe of scripts/legofs_io500.py, against    *)
(* PID 1 of the server guest and of two client guests                      *)
(* (guest/legofs_io500_init.sh).                                           *)
(*                                                                         *)
(* The runner sends one command at a time and waits for the line of its    *)
(* success; an error line is not recognized and leaves it to its deadline. *)
(* The LegoFS server and its benchmark program are external: a server      *)
(* generation serves the clients of its generation, and a successor starts *)
(* only on an authorization its predecessor recorded.                      *)
(***************************************************************************)
EXTENDS Naturals, Sequences

CONSTANT MaxFaults   \* bound: server crashes in one run

ClientGuests == {"c0", "c1"}
Guests == {"s"} \cup ClientGuests
Generations == {1, 2}

VARIABLES
    profile,     \* the fault profile of the run
    host,        \* index of the runner's next step
    sent,        \* the command of that step has been sent
    verdict,     \* "running", "passed" or "failed"
    stdin,       \* stdin[g]: the command PID 1 of g has not read, or "none"
    reply,       \* reply[g]: the lines g printed since the last command to it
    pid1,        \* PID 1 of the server: "reading", "stopping", "polling" or "probing"
    generation,  \* generation[g]: BADFS_CLUSTER_GENERATION of guest g
    server,      \* server[n]: process of generation n
    probe,       \* the process of the unauthorized probe
    opened,      \* the probe's process has had its listener open
    granted,     \* a clean restart has been authorized
    file,        \* the cohorts' file
    hold,        \* "none", "held" or "done": the lane held by c0
    faults

hostVars == <<profile, host, sent, verdict>>
serverVars == <<pid1, server, probe, opened, granted>>
vars == <<hostVars, stdin, reply, generation, serverVars, file, hold, faults>>

-----------------------------------------------------------------------------
Step(g, command, line) == [to |-> g, command |-> command, line |-> line]

run_clean_restart_fault ==
    << Step("c0", "produce", "ok"), Step("c1", "observe", "ok"), Step("c0", "control", "ok"),
       Step("s", "restart", "restarted"),
       Step("c0", "generation", "ok"), Step("c1", "generation", "ok"),
       Step("c0", "recover", "ok"), Step("c1", "delete", "ok") >>

run_unauthorized_clean_restart_probe == << Step("s", "probe", "rejected") >>

(* The hold is awaited twice: when the lane is held and when it is left.    *)
run_active_lane_retirement_probe ==
    << Step("c0", "hold", "held"), Step("c1", "inspect", "one lane"), Step("c0", "none", "ok") >>

Script ==
    CASE profile = "restart" -> run_clean_restart_fault
      [] profile = "unauthorized" -> run_unauthorized_clean_restart_probe
      [] profile = "active" -> run_active_lane_retirement_probe

Init ==
    /\ profile \in {"restart", "unauthorized", "active"}
    /\ host = 1 /\ sent = FALSE /\ verdict = "running"
    /\ stdin = [g \in Guests |-> "none"] /\ reply = [g \in Guests |-> {}]
    /\ pid1 = "reading"
    /\ generation = [g \in Guests |-> 1]
    /\ server = [n \in Generations |-> IF n = 1 THEN "serving" ELSE "none"]
    /\ probe = "none" /\ opened = FALSE /\ granted = FALSE
    /\ file = "none" /\ hold = "none"
    /\ faults = 0

-----------------------------------------------------------------------------
(* The runner: _send_and_wait.                                             *)

Running == verdict = "running" /\ host <= Len(Script)

Send ==
    /\ Running /\ ~sent
    /\ sent' = TRUE
    /\ IF Script[host].command = "none" THEN UNCHANGED <<stdin, reply>>
       ELSE /\ stdin' = [stdin EXCEPT ![Script[host].to] = Script[host].command]
            /\ reply' = [reply EXCEPT ![Script[host].to] = {}]
    /\ UNCHANGED <<profile, host, verdict, generation, serverVars, file, hold, faults>>

Received ==
    /\ Running /\ sent
    /\ Script[host].line \in reply[Script[host].to]
    /\ host' = host + 1 /\ sent' = FALSE
    /\ UNCHANGED <<profile, verdict, stdin, reply, generation, serverVars, file, hold, faults>>

(* The exit line arrived, and the record printed before it is refused        *)
(* (ValueError): the counters of the control record may not be those of one  *)
(* clean restart, and the inspection must show the one active lane.         *)
RecordRejected ==
    /\ Running /\ sent
    /\ \/ Script[host].command = "control" /\ Script[host].line \in reply[Script[host].to]
       \/ Script[host].command = "inspect" /\ "no lane" \in reply["c1"]
    /\ verdict' = "failed"
    /\ UNCHANGED <<profile, host, sent, stdin, reply, generation, serverVars, file, hold, faults>>

Passes ==
    /\ verdict = "running" /\ host > Len(Script)
    /\ verdict' = "passed"
    /\ UNCHANGED <<profile, host, sent, stdin, reply, generation, serverVars, file, hold, faults>>

Expires ==
    /\ Running /\ sent
    /\ verdict' = "failed"
    /\ UNCHANGED <<profile, host, sent, stdin, reply, generation, serverVars, file, hold, faults>>

-----------------------------------------------------------------------------
(* PID 1 of a client guest runs the command to its end and prints its code. *)

Serves(c) == server[generation[c]] = "serving"
Succeeds(c, command) ==
    CASE command = "produce" -> Serves(c) /\ file = "none"
      [] command \in {"observe", "recover", "delete"} -> Serves(c) /\ file = "present"
      [] command \in {"control", "inspect"} -> Serves(c)
      [] command = "generation" -> TRUE

ClientRuns(c) ==
    /\ stdin[c] \notin {"none", "hold"}
    /\ stdin' = [stdin EXCEPT ![c] = "none"]
    /\ LET command == stdin[c]
           ok == Succeeds(c, command)
       IN /\ reply' = [reply EXCEPT ![c] = @ \cup
                          { IF ~ok THEN "error"
                            ELSE IF command # "inspect" THEN "ok"
                            ELSE IF hold = "held" THEN "one lane" ELSE "no lane" }]
          /\ file' = IF ok /\ command = "produce" THEN "present"
                     ELSE IF ok /\ command = "delete" THEN "deleted" ELSE file
          /\ granted' = (granted \/ (ok /\ command = "control"))
          /\ generation' = IF command = "generation" THEN [generation EXCEPT ![c] = 2]
                                                    ELSE generation
    /\ UNCHANGED <<hostVars, pid1, server, probe, opened, hold, faults>>

(* The hold prints that the lane is held, and ends by itself after 30 s.     *)
HoldBegins ==
    /\ stdin["c0"] = "hold"
    /\ stdin' = [stdin EXCEPT !["c0"] = "none"]
    /\ hold' = IF Serves("c0") THEN "held" ELSE "done"
    /\ reply' = [reply EXCEPT !["c0"] = {IF Serves("c0") THEN "held" ELSE "error"}]
    /\ UNCHANGED <<hostVars, generation, serverVars, file, faults>>

HoldEnds ==
    /\ hold = "held"
    /\ hold' = "done"
    /\ reply' = [reply EXCEPT !["c0"] = @ \cup {"ok"}]
    /\ UNCHANGED <<hostVars, stdin, generation, serverVars, file, faults>>

-----------------------------------------------------------------------------
(* PID 1 of the server guest.                                              *)

Take(next) == stdin' = [stdin EXCEPT !["s"] = "none"] /\ pid1' = next

(* Mutant: the successor is started without waiting for the old server.     *)
RestartBeginsAtOnce ==
    /\ pid1 = "reading" /\ stdin["s"] = "restart"
    /\ Take("polling")
    /\ generation' = [generation EXCEPT !["s"] = 2]
    /\ server' = [server EXCEPT ![2] = "starting"]
    /\ UNCHANGED <<hostVars, reply, probe, opened, granted, file, hold, faults>>

(* The command names its target generation; the runner sends it once, so the *)
(* comparison with the current generation always finds the target ahead.     *)
RestartBegins ==
    /\ pid1 = "reading" /\ stdin["s"] = "restart"
    /\ Take("stopping")
    /\ UNCHANGED <<hostVars, reply, generation, server, probe, opened, granted, file, hold, faults>>

(* The old server (external) ends on the signal.                            *)
OldServerExits ==
    /\ pid1 = "stopping" /\ server[1] = "serving"
    /\ server' = [server EXCEPT ![1] = "exited"]
    /\ UNCHANGED <<hostVars, stdin, reply, generation, pid1, probe, opened, granted, file, hold, faults>>

StartSuccessor ==
    /\ pid1 = "stopping" /\ server[1] = "exited"
    /\ pid1' = "polling"
    /\ generation' = [generation EXCEPT !["s"] = 2]
    /\ server' = [server EXCEPT ![2] = "starting"]
    /\ UNCHANGED <<hostVars, stdin, reply, probe, opened, granted, file, hold, faults>>

(* The successor (external) serves if it was authorized, and exits if not.   *)
SuccessorStarts ==
    /\ server[2] = "starting"
    /\ server' = [server EXCEPT ![2] = IF granted THEN "serving" ELSE "exited"]
    /\ UNCHANGED <<hostVars, stdin, reply, generation, pid1, probe, opened, granted, file, hold, faults>>

(* kill -0, then nc -z.                                                     *)
Polls ==
    /\ pid1 = "polling" /\ server[2] \in {"serving", "exited"}
    /\ pid1' = "reading"
    /\ reply' = [reply EXCEPT !["s"] = {IF server[2] = "serving" THEN "restarted" ELSE "error"}]
    /\ UNCHANGED <<hostVars, stdin, generation, server, probe, opened, granted, file, hold, faults>>

ProbeBegins ==
    /\ pid1 = "reading" /\ stdin["s"] = "probe"
    /\ Take("probing")
    /\ probe' = "starting"
    /\ UNCHANGED <<hostVars, reply, generation, server, opened, granted, file, hold, faults>>

(* The probe's process (external) is started without an authorization. What  *)
(* it does is what the probe is to find out.                                *)
ProbeListens ==
    /\ probe = "starting"
    /\ probe' = "serving" /\ opened' = TRUE
    /\ UNCHANGED <<hostVars, stdin, reply, generation, pid1, server, granted, file, hold, faults>>

ProbeDies ==
    /\ probe = "starting"
    /\ probe' = "exited"
    /\ UNCHANGED <<hostVars, stdin, reply, generation, pid1, server, opened, granted, file, hold, faults>>

ProbeStops ==
    /\ probe = "serving"
    /\ probe' = "exited"
    /\ UNCHANGED <<hostVars, stdin, reply, generation, pid1, server, opened, granted, file, hold, faults>>

(* The process ran in the foreground: it has exited when nc looks for its    *)
(* listener.                                                                *)
ProbeReports ==
    /\ pid1 = "probing" /\ probe = "exited"
    /\ pid1' = "reading"
    /\ reply' = [reply EXCEPT !["s"] = {"rejected"}]
    /\ UNCHANGED <<hostVars, stdin, generation, server, probe, opened, granted, file, hold, faults>>

(* A server process dies.                                                   *)
ServerCrashes(n) ==
    /\ server[n] \in {"starting", "serving"}
    /\ faults < MaxFaults /\ faults' = faults + 1
    /\ server' = [server EXCEPT ![n] = "exited"]
    /\ UNCHANGED <<hostVars, stdin, reply, generation, pid1, probe, opened, granted, file, hold>>

-----------------------------------------------------------------------------
RunnerStep == Send \/ Received \/ RecordRejected \/ Passes
ServerStep ==
    \/ RestartBegins \/ OldServerExits \/ StartSuccessor \/ SuccessorStarts \/ Polls
    \/ ProbeBegins \/ ProbeListens \/ ProbeDies \/ ProbeReports
ClientStep == (\E c \in ClientGuests : ClientRuns(c)) \/ HoldBegins \/ HoldEnds

Next ==
    \/ RunnerStep \/ ServerStep \/ ClientStep \/ Expires
    \/ ProbeStops \/ \E n \in Generations : ServerCrashes(n)
    \/ verdict # "running" /\ UNCHANGED vars

Spec == Init /\ [][Next]_vars /\ WF_vars(RunnerStep) /\ WF_vars(ServerStep) /\ WF_vars(ClientStep)

-----------------------------------------------------------------------------
(* Two generations of the server never run at the same time: the successor   *)
(* is started only when the old process has been waited for.  (The probe's   *)
(* process is started beside the serving one on purpose, without a grant.)  *)
OneAuthority ==
    server[1] \notin {"starting", "serving"} \/ server[2] \notin {"starting", "serving"}
=============================================================================
