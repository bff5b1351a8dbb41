---------------------------- MODULE RunnerScript ----------------------------
(***************************************************************************)
(* The instructions of which the runners' host threads and guests are made *)
(* (see Runner), one operator per call of the source.  A script is a       *)
(* sequence of instructions.                                               *)
(***************************************************************************)
EXTENDS Integers, Sequences

(* A line on a console, by its kind, and by the case it is about.           *)
Line(kind) == <<kind>>
CaseLine(kind, case) == <<kind, case>>

(* What a guest does.                                                      *)
Emit(marker) == <<[op |-> "print", marker |-> marker]>>
Say(kind) == Emit(Line(kind))
ReadLine(line) == <<[op |-> "gate", line |-> line]>>
(* Work with other guests makes them print too.                             *)
Bench(with, trace) == <<[op |-> "work", with |-> with, trace |-> trace]>>
Work == Bench({}, <<>>)
(* A protocol or a barrier between two guests.                              *)
Meet(with, id) == <<[op |-> "meet", with |-> with, id |-> id]>>
Serve == <<[op |-> "serve"]>>
PowerOff == <<[op |-> "off"]>>

(* What the host does.                                                      *)
StartProcess(p) == <<[op |-> "start", proc |-> p]>>
AwaitLog == <<[op |-> "log"]>>
AwaitLine(n, marker) == <<[op |-> "await", node |-> n, marker |-> marker, after |-> FALSE]>>
Await(n, kind) == AwaitLine(n, Line(kind))
SendLine(n, line) == <<[op |-> "send", node |-> n, line |-> line]>>
(* Mutant: the prompt may be an earlier one.                                *)
CommandAnyPrompt(n, line) == SendLine(n, line) \o Await(n, "prompt")

Command(n, line) ==
    << [op |-> "mark", node |-> n],
       [op |-> "send", node |-> n, line |-> line],
       [op |-> "await", node |-> n, marker |-> Line("prompt"), after |-> TRUE] >>
RequireLive(ns) == <<[op |-> "live", nodes |-> ns]>>
AwaitExit(n) == <<[op |-> "exit", proc |-> n]>>
Terminate(p) == <<[op |-> "stop", proc |-> p]>>
RequireEnded(ns) == <<[op |-> "ended", nodes |-> ns]>>
JoinReaders == <<[op |-> "join"]>>
Require(evidence) == <<[op |-> "require", evidence |-> evidence]>>

(* run_uboot and the firmware it talks to.                                  *)
BootCommands(n) ==
    Command(n, "list") \o Command(n, "info") \o Command(n, "init") \o Command(n, "setenv")
RunUboot(n) ==
    Await(n, "autoboot") \o SendLine(n, "key") \o
    Await(n, "prompt") \o BootCommands(n) \o SendLine(n, "bootefi")
Prompts ==
    Say("prompt") \o
    ReadLine("list") \o Say("prompt") \o ReadLine("info") \o Say("prompt") \o
    ReadLine("init") \o Say("prompt") \o ReadLine("setenv") \o Say("prompt") \o
    ReadLine("bootefi")
Uboot == Say("autoboot") \o ReadLine("key") \o Prompts

-----------------------------------------------------------------------------
(* PID 1 of the LegoFS guests (guest/legofs_node_init.c) up to the point    *)
(* where the roles part, and node0, which is the same in every runner.      *)
(* Each step is one after which the guest can fail().                       *)

(* Mounts, the command line, the payload disk.                              *)
mount_payload == Work
configure_network == Work
(* mem0, a region, a decoder and exactly one DAX device.                    *)
discover_dax == Work

Boot ==
    Uboot \o mount_payload \o configure_network \o discover_dax \o Say("CXL_READY")

(* run_node0: the server is spawned and probed, then served until it stops, *)
(* which is a failure.                                                      *)
run_node0 == Work \o Say("SERVER_READY") \o Serve

=============================================================================
