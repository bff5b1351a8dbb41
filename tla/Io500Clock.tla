----------------------------- MODULE Io500Clock -----------------------------
(***************************************************************************)
(* Guest clocks around an MPI launch of the IO500 runner                   *)
(* (synchronize_guest_clocks and launch_mpi of scripts/legofs_io500.py,    *)
(* set_guest_time of guest/legofs_io500_init.sh, the preflight of          *)
(* guest/legofs_io500_rank.sh).                                            *)
(*                                                                         *)
(* Every guest's PID 1 executes console commands one by one; a rank runs   *)
(* beside it, started by a proxy command, and is held by a marker file     *)
(* that only a clock command creates.                                      *)
(***************************************************************************)
EXTENDS Naturals, Sequences, Functions

CONSTANTS
    Servers, Clients,   \* guests; each client runs one rank
    Coordinator,        \* client 0, which runs mpiexec
    MaxFaults           \* bound: clock commands that fail in a guest

Guests == Servers \cup Clients

VARIABLES
    stage,      \* "tiny" (with the preflight) or "standard"
    host,       \* where the runner is
    stdin,      \* stdin[g]: console lines PID 1 of g has not read
    clock,      \* clock[g]: the last synchronization applied to g, 0 for none
    synced,     \* synced[g]: /run/io500-clock-synced exists
    receipts,   \* <<g, n>>: g has printed its receipt of synchronization n
    mpiexec,    \* the coordinator's mpiexec: "none" or "running"
    proxied,    \* clients that have printed a PROXY_STARTED line
    rank,       \* rank[c]: "none", "preflight", "ready" or "released"
    forwarded,  \* lines of the ranks, forwarded by Hydra to the coordinator
    faults

guestVars == <<stdin, clock, synced, receipts, mpiexec, proxied>>
rankVars == <<rank, forwarded>>
vars == <<stage, host, guestVars, rankVars, faults>>

SetTime(n) == <<"SET_TIME", n>>
Mpi == <<"MPI", 0>>
Proxy == <<"PROXY", 0>>

Init ==
    /\ stage \in {"tiny", "standard"}
    /\ host = "sync"
    /\ stdin = [g \in Guests |-> <<>>]
    /\ clock = [g \in Guests |-> 0]
    /\ synced = [g \in Guests |-> FALSE]
    /\ receipts = {}
    /\ mpiexec = "none"
    /\ proxied = {}
    /\ rank = [c \in Clients |-> "none"]
    /\ forwarded = {}
    /\ faults = 0

-----------------------------------------------------------------------------
(* PID 1 of a guest.                                                       *)

Command(g, kind) == stdin[g] # <<>> /\ Head(stdin[g])[1] = kind
Consume(g) == stdin' = [stdin EXCEPT ![g] = Tail(@)]

(* Mutant: the time is set and the receipt printed, without the marker.     *)
SetGuestTimeUnmarked(g) ==
    /\ Command(g, "SET_TIME")
    /\ Consume(g)
    /\ LET n == Head(stdin[g])[2] IN
       clock' = [clock EXCEPT ![g] = n] /\ receipts' = receipts \cup {<<g, n>>}
    /\ UNCHANGED <<stage, host, synced, mpiexec, proxied, rankVars, faults>>

set_guest_time(g) ==
    /\ Command(g, "SET_TIME")
    /\ Consume(g)
    /\ LET n == Head(stdin[g])[2] IN
       clock' = [clock EXCEPT ![g] = n] /\ receipts' = receipts \cup {<<g, n>>}
    /\ synced' = [synced EXCEPT ![g] = TRUE]
    /\ UNCHANGED <<stage, host, mpiexec, proxied, rankVars, faults>>

(* date -s fails: an error line, no marker, no receipt.                     *)
SetTimeFails(g) ==
    /\ Command(g, "SET_TIME")
    /\ faults < MaxFaults /\ faults' = faults + 1
    /\ Consume(g)
    /\ UNCHANGED <<stage, host, clock, synced, receipts, mpiexec, proxied, rankVars>>

StartMpi ==
    /\ Command(Coordinator, "MPI")
    /\ Consume(Coordinator)
    /\ mpiexec' = "running"
    /\ UNCHANGED <<stage, host, clock, synced, receipts, proxied, rankVars, faults>>

StartProxy(c) ==
    /\ Command(c, "PROXY")
    /\ Consume(c)
    /\ proxied' = proxied \cup {c}
    /\ rank' = [rank EXCEPT ![c] = IF stage = "tiny" THEN "preflight" ELSE "released"]
    /\ UNCHANGED <<stage, host, clock, synced, receipts, mpiexec, forwarded, faults>>

-----------------------------------------------------------------------------
(* A rank script.                                                          *)

RankReady(c) ==
    /\ rank[c] = "preflight"
    /\ synced' = [synced EXCEPT ![c] = FALSE]
    /\ rank' = [rank EXCEPT ![c] = "ready"]
    /\ forwarded' = forwarded \cup {<<"READY", c>>}
    /\ UNCHANGED <<stage, host, stdin, clock, receipts, mpiexec, proxied, faults>>

RankReleased(c) ==
    /\ rank[c] = "ready" /\ synced[c]
    /\ rank' = [rank EXCEPT ![c] = "released"]
    /\ forwarded' = forwarded \cup {<<"RELEASED", c>>}
    /\ UNCHANGED <<stage, host, guestVars, faults>>

(* IO500 is one MPI program: its measured phases begin when every rank runs. *)
Measuring == \A c \in Clients : rank[c] = "released"

-----------------------------------------------------------------------------
(* The runner.                                                             *)

Go(h) == host' = h
Send(to, line) == stdin' = [g \in Guests |-> IF g \in to THEN Append(stdin[g], line) ELSE stdin[g]]

SyncSends(n, at, next) ==
    /\ host = at
    /\ Send(Guests, SetTime(n))
    /\ Go(next)
    /\ UNCHANGED <<stage, clock, synced, receipts, mpiexec, proxied, rankVars, faults>>

(* Mutant: the receipts of the servers are not awaited.                     *)
SyncReceivedFromClients(n, at, next) ==
    /\ host = at
    /\ \A g \in Clients : <<g, n>> \in receipts
    /\ Go(next)
    /\ UNCHANGED <<stage, guestVars, rankVars, faults>>

SyncReceived(n, at, next) ==
    /\ host = at
    /\ \A g \in Guests : <<g, n>> \in receipts
    /\ Go(next)
    /\ UNCHANGED <<stage, guestVars, rankVars, faults>>

(* run_thread_exit_probe: two programs run, and awaited, by proxy commands   *)
(* of the coordinator's guest.                                              *)
ThreadExitProbe ==
    /\ host = "probe"
    /\ proxied' = proxied \cup {Coordinator}
    /\ Go("launch")
    /\ UNCHANGED <<stage, stdin, clock, synced, receipts, mpiexec, rankVars, faults>>

LaunchMpi ==
    /\ host = "launch"
    /\ Send({Coordinator}, Mpi)
    /\ Go("hydra")
    /\ UNCHANGED <<stage, clock, synced, receipts, mpiexec, proxied, rankVars, faults>>

SendProxies ==
    /\ host = "hydra" /\ mpiexec = "running"
    /\ Send(Clients, Proxy)
    /\ Go("proxies")
    /\ UNCHANGED <<stage, clock, synced, receipts, mpiexec, proxied, rankVars, faults>>

(* The whole console is searched: the coordinator's line may be the probe's. *)
ProxiesStarted ==
    /\ host = "proxies" /\ Clients \subseteq proxied
    /\ Go(IF stage = "tiny" THEN "ready" ELSE "measure")
    /\ UNCHANGED <<stage, guestVars, rankVars, faults>>

Forwarded(kind, at, next) ==
    /\ host = at
    /\ \A c \in Clients : <<kind, c>> \in forwarded
    /\ Go(next)
    /\ UNCHANGED <<stage, guestVars, rankVars, faults>>

wait_mpi_exit ==
    /\ host = "measure" /\ Measuring
    /\ Go("done")
    /\ UNCHANGED <<stage, guestVars, rankVars, faults>>

HostStep ==
    \/ SyncSends(1, "sync", "synced") \/ SyncReceived(1, "synced", "probe") \/ ThreadExitProbe
    \/ LaunchMpi \/ SendProxies \/ ProxiesStarted
    \/ Forwarded("READY", "ready", "resync")
    \/ SyncSends(2, "resync", "resynced") \/ SyncReceived(2, "resynced", "release")
    \/ Forwarded("RELEASED", "release", "measure")
    \/ wait_mpi_exit

(* One of the deadlines of these waits passes.                              *)
HostExpires ==
    /\ host \in {"synced", "probe", "hydra", "proxies", "ready", "resynced", "release", "measure"}
    /\ Go("failed")
    /\ UNCHANGED <<stage, guestVars, rankVars, faults>>

GuestStep(g) ==
    \/ set_guest_time(g)
    \/ g = Coordinator /\ StartMpi
    \/ g \in Clients /\ StartProxy(g)

RankStep(c) == RankReady(c) \/ RankReleased(c)

Next ==
    \/ HostStep \/ HostExpires
    \/ \E g \in Guests : GuestStep(g) \/ SetTimeFails(g)
    \/ \E c \in Clients : RankStep(c)
    \/ host \in {"done", "failed"} /\ UNCHANGED vars

Fairness ==
    /\ WF_vars(HostStep)
    /\ \A g \in Guests : WF_vars(GuestStep(g))
    /\ \A c \in Clients : WF_vars(RankStep(c))

Spec == Init /\ [][Next]_vars /\ Fairness

-----------------------------------------------------------------------------
(* When the runner begins to wait for the exit of the stage (host =          *)
(* "measure", the return of launch_mpi) every guest, the servers included,   *)
(* has applied the same last synchronization, and no clock command is on its *)
(* way to any of them.  The ranks may have begun before: see the next one.  *)
MeasuresOneClock ==
    host = "measure" =>
        \A g, h \in Guests :
            clock[g] = clock[h] /\ SetTime(2) \notin Range(stdin[g])

(* "Never step CLOCK_REALTIME after the measured workload is released."     *)
(* (scripts/legofs_io500.py, launch_mpi)                                    *)
NeverStepAfterRelease == [][(stage = "tiny" /\ Measuring) => clock' = clock]_vars
=============================================================================
