----------------------------- MODULE Io500Parts -----------------------------
(***************************************************************************)
(* The protocols of the IO500 runner (scripts/legofs_io500.py) and its     *)
(* guests, each in a module of its own: the clocks around an MPI launch,   *)
(* the restart profiles, the export of observations over a console, the    *)
(* phase watchdog, and the run around them.  A behaviour is one of one     *)
(* part.                                                                   *)
(***************************************************************************)
EXTENDS Naturals

CONSTANTS
    Servers, Clients,          \* guests of the launch; each client runs one rank
    Coordinator,               \* client 0, which runs mpiexec
    ClockFaults,               \* bound: clock commands that fail in a guest
    RestartFaults,             \* bound: server crashes in one restart profile
    Arenas, Chunks,            \* observation arenas, and the chunks of each
    MaxInterrupts,             \* bound: lines that break into an export
    Required, Auxiliary,       \* phases the stage must complete, and the others
    Limit,                     \* the watchdog's window
    Horizon, MaxLines,         \* bounds: time, and lines of a phase report
    ServerCount, ClientCount,  \* guests of the run
    RunFaults                  \* bound: things that go wrong outside the runner

ASSUME CountsAssumption == ServerCount \in Nat /\ ClientCount \in Nat \ {0}

VARIABLE part    \* the part of the system a behaviour is of

(* The variables of the parts; equal names are shared, since only one part  *)
(* is at work.                                                              *)
VARIABLES
    stage, host, stdin, clock, synced, receipts, mpiexec, proxied, rank, forwarded,
    faults, profile, sent, verdict, reply, pid1, generation, server, probe, opened,
    granted, file, hold, printed, current, frames, error, struck, broken, marker, files, now,
    output, begun, progress, polled, offset, partial, window, completed, raised, pc,
    role, at, first, result, status, failure, boot, start, proc, asked, stats, stuck,
    read

vars ==
    << part,
       stage, host, stdin, clock, synced, receipts, mpiexec, proxied, rank, forwarded,
       faults, profile, sent, verdict, reply, pid1, generation, server, probe, opened,
       granted, file, hold, printed, current, frames, error, struck, broken, marker, files,
       now, output, begun, progress, polled, offset, partial, window, completed,
       raised, pc, role, at, first, result, status, failure, boot, start, proc, asked,
       stats, stuck, read >>

Clock == INSTANCE Io500Clock WITH MaxFaults <- ClockFaults
Restart == INSTANCE CleanRestart WITH MaxFaults <- RestartFaults
Export == INSTANCE ObservationFrames
Watchdog == INSTANCE PhaseWatchdog
Run == INSTANCE Io500Run WITH MaxFaults <- RunFaults

(* What a behaviour of a part leaves alone.                                 *)
OutsideClock ==
    << part,
       profile, sent, verdict, reply, pid1, generation, server, probe, opened,
       granted, file, hold, printed, current, frames, error, struck, broken, marker, files,
       now, output, begun, progress, polled, offset, partial, window, completed,
       raised, pc, role, at, first, result, status, failure, boot, start, proc, asked,
       stats, stuck, read >>
OutsideRestart ==
    << part,
       stage, clock, synced, receipts, mpiexec, proxied, rank, forwarded, printed,
       current, frames, error, struck, broken, marker, files, now, output, begun, progress,
       polled, offset, partial, window, completed, raised, pc, role, at, first,
       result, status, failure, boot, start, proc, asked, stats, stuck, read >>
OutsideExport ==
    << part,
       stage, host, stdin, clock, synced, receipts, mpiexec, proxied, rank, forwarded,
       faults, profile, sent, verdict, reply, pid1, generation, server, probe, opened,
       granted, file, hold, now, output, begun, progress, polled, offset, partial,
       window, completed, raised, pc, role, at, first, result, status, failure, boot,
       start, proc, asked, stats, stuck, read >>
OutsideWatchdog ==
    << part,
       stage, host, stdin, clock, synced, receipts, mpiexec, proxied, rank, forwarded,
       faults, profile, sent, verdict, reply, pid1, generation, server, probe, opened,
       granted, file, hold, printed, current, frames, error, struck, broken, marker, files,
       pc, role, at, first, result, status, failure, boot, start, proc, asked, stats,
       stuck, read >>
OutsideRun ==
    << part,
       stage, host, stdin, clock, synced, receipts, mpiexec, proxied, rank, forwarded,
       profile, sent, verdict, reply, pid1, generation, server, probe, opened,
       granted, file, hold, current, frames, error, struck, broken, marker, files, now,
       output, begun, progress, polled, offset, partial, window, completed >>

-----------------------------------------------------------------------------
(* A variable no part at work uses.                                         *)
None == "none"

Init ==
    \/ /\ part = "clock" /\ Clock!Init
       /\ profile = None /\ sent = None /\ verdict = None /\ reply = None
       /\ pid1 = None /\ generation = None /\ server = None /\ probe = None
       /\ opened = None /\ granted = None /\ file = None /\ hold = None
       /\ printed = None /\ current = None /\ frames = None /\ error = None
       /\ struck = None /\ broken = None /\ marker = None /\ files = None /\ now = None
       /\ output = None /\ begun = None /\ progress = None /\ polled = None
       /\ offset = None /\ partial = None /\ window = None /\ completed = None
       /\ raised = None /\ pc = None /\ role = None /\ at = None /\ first = None
       /\ result = None /\ status = None /\ failure = None /\ boot = None
       /\ start = None /\ proc = None /\ asked = None /\ stats = None /\ stuck = None
       /\ read = None
    \/ /\ part = "restart" /\ Restart!Init
       /\ stage = None /\ clock = None /\ synced = None /\ receipts = None
       /\ mpiexec = None /\ proxied = None /\ rank = None /\ forwarded = None
       /\ printed = None /\ current = None /\ frames = None /\ error = None
       /\ struck = None /\ broken = None /\ marker = None /\ files = None /\ now = None
       /\ output = None /\ begun = None /\ progress = None /\ polled = None
       /\ offset = None /\ partial = None /\ window = None /\ completed = None
       /\ raised = None /\ pc = None /\ role = None /\ at = None /\ first = None
       /\ result = None /\ status = None /\ failure = None /\ boot = None
       /\ start = None /\ proc = None /\ asked = None /\ stats = None /\ stuck = None
       /\ read = None
    \/ /\ part = "export" /\ Export!Init
       /\ stage = None /\ host = None /\ stdin = None /\ clock = None /\ synced = None
       /\ receipts = None /\ mpiexec = None /\ proxied = None /\ rank = None
       /\ forwarded = None /\ faults = None /\ profile = None /\ sent = None
       /\ verdict = None /\ reply = None /\ pid1 = None /\ generation = None
       /\ server = None /\ probe = None /\ opened = None /\ granted = None
       /\ file = None /\ hold = None /\ now = None /\ output = None /\ begun = None
       /\ progress = None /\ polled = None /\ offset = None /\ partial = None
       /\ window = None /\ completed = None /\ raised = None /\ pc = None
       /\ role = None /\ at = None /\ first = None /\ result = None /\ status = None
       /\ failure = None /\ boot = None /\ start = None /\ proc = None /\ asked = None
       /\ stats = None /\ stuck = None /\ read = None
    \/ /\ part = "watchdog" /\ Watchdog!Init
       /\ stage = None /\ host = None /\ stdin = None /\ clock = None /\ synced = None
       /\ receipts = None /\ mpiexec = None /\ proxied = None /\ rank = None
       /\ forwarded = None /\ faults = None /\ profile = None /\ sent = None
       /\ verdict = None /\ reply = None /\ pid1 = None /\ generation = None
       /\ server = None /\ probe = None /\ opened = None /\ granted = None
       /\ file = None /\ hold = None /\ printed = None /\ current = None
       /\ frames = None /\ error = None /\ struck = None /\ broken = None
       /\ marker = None /\ files = None /\ pc = None /\ role = None /\ at = None /\ first = None
       /\ result = None /\ status = None /\ failure = None /\ boot = None
       /\ start = None /\ proc = None /\ asked = None /\ stats = None /\ stuck = None
       /\ read = None
    \/ /\ part = "run" /\ Run!Init
       /\ stage = None /\ host = None /\ stdin = None /\ clock = None /\ synced = None
       /\ receipts = None /\ mpiexec = None /\ proxied = None /\ rank = None
       /\ forwarded = None /\ profile = None /\ sent = None /\ verdict = None
       /\ reply = None /\ pid1 = None /\ generation = None /\ server = None
       /\ probe = None /\ opened = None /\ granted = None /\ file = None
       /\ hold = None /\ current = None /\ frames = None /\ error = None
       /\ struck = None /\ broken = None /\ marker = None /\ files = None /\ now = None
       /\ output = None /\ begun = None /\ progress = None /\ polled = None
       /\ offset = None /\ partial = None /\ window = None /\ completed = None

Next ==
    \/ part = "clock" /\ Clock!Next /\ UNCHANGED OutsideClock
    \/ part = "restart" /\ Restart!Next /\ UNCHANGED OutsideRestart
    \/ part = "export" /\ Export!Next /\ UNCHANGED OutsideExport
    \/ part = "watchdog" /\ Watchdog!Next /\ UNCHANGED OutsideWatchdog
    \/ part = "run" /\ Run!Next /\ UNCHANGED OutsideRun

(* The fairness of the clocks (see Io500Clock): the one liveness property   *)
(* here is about them.                                                      *)
Fairness ==
    /\ WF_vars(part = "clock" /\ Clock!HostStep /\ UNCHANGED OutsideClock)
    /\ \A g \in Clock!Guests :
        WF_vars(part = "clock" /\ Clock!GuestStep(g) /\ UNCHANGED OutsideClock)
    /\ \A c \in Clients :
        WF_vars(part = "clock" /\ Clock!RankStep(c) /\ UNCHANGED OutsideClock)

Spec == Init /\ [][Next]_vars /\ Fairness

-----------------------------------------------------------------------------
(* When the runner begins to wait for the exit of the stage, every guest,    *)
(* the servers included, has applied the same last synchronization, and no  *)
(* clock command is on its way to any of them (launch_mpi).  The ranks may   *)
(* have begun before that.                                                  *)
MeasuresOneClock == part = "clock" => Clock!MeasuresOneClock

(* The launch of the MPI ranks has no circular wait: unless a deadline      *)
(* passes or a clock command fails, the measured phases are reached and     *)
(* ended.                                                                   *)
LaunchCompletes ==
    [](part = "clock" /\ host # "failed" /\ faults = 0) => <>(host = "done")

(* Two generations of the LegoFS server never run at the same time: the     *)
(* clean restart starts the successor only when the old process has been    *)
(* waited for.  The process of the unauthorized probe is not one of them.   *)
OneAuthority == part = "restart" => Restart!OneAuthority

(* One spoiled copy of each chunk costs the export nothing: every arena is   *)
(* returned with exactly its bytes, and the observation is accepted if and  *)
(* only if the guest exported the one arena expected of it.                 *)
OneCopyIsEnough == part = "export" => Export!OneCopyIsEnough

(* However the console is cut into pieces, the watchdog raises no false     *)
(* alarm: the window is exceeded only when no new required phase has been   *)
(* printed for longer than the limit.                                       *)
AlarmIsJust == part = "watchdog" => Watchdog!AlarmIsJust

(* The result names the first failure of the run, whatever fails while it   *)
(* is diagnosed and cleaned up.  An interrupt in between takes its place.   *)
FirstFailureKept == part = "run" => Run!FirstFailureKept

(* Servers end before clients and clients before the memory provider, on    *)
(* the orderly and on the failing path (see Io500Run).                      *)
TeardownOrder == [][part = "run" => Run!EndsInOrder]_vars
=============================================================================
