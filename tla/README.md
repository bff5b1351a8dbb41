# A TLA+ verification project for CXLMemSim-riscv

The repository drives a simulated CXL memory expander: it starts a coherence
server (CXLMemSim), boots RISC-V guests in QEMU on top of it, runs small shared
memory programs, a distributed file system (LegoFS) and IO500 inside those
guests, and turns consoles and traces into a verdict.  Nearly everything that is
hard about it is concurrent: two guests that talk through memory only, host
threads that talk to guests over serial consoles, and validators that must not
be fooled by the order in which records arrive.

This directory models those parts in TLA+, checks them with TLC on small
instances, and proves with TLAPS, for every size and every number of faults, most of
the safety properties that the runs check: of the shared-memory protocols, the barrier
service, the runners, the IO500 and V2 protocols and five of the validators.

Contents: [inventory](#1-inventory) · [modules](#2-modules) ·
[runs](#3-what-the-runs-check) · [bounds](#4-bounds) · [fairness](#5-fairness) ·
[proofs](#6-what-is-proved) · [divergences](#7-where-the-code-and-its-documents-disagree) ·
[abstractions](#8-abstractions-a-reader-should-know) · [plan](#9-plan)

To repeat a check: `tlc -config MCBiApp.cfg BiApp` and likewise for the other
rows of section 3; `tlapm GigaProbeProofs.tla`, and likewise `BarrierServerProofs`,
`RunnerProofs`, `V2AdmissionProofs`, `Io500RunProofs`, `Io500Proofs`, `ValidatorProofs`
and `EvidenceProofs`.

## 1. Inventory

Paths are relative to `src/`.  `PROJECT.json` has the same list with its status,
and the list of hazards with the line each one bites at.

| part | code | state | operations | interacts with |
|---|---|---|---|---|
| back-invalidate application | `guest/cxl_bi_app_init.c` | one DAX mapping: signal lines, payload, stream; error counters | `publish_signal`, `wait_signal`, litmus, ping-pong, streams, summary | its peer, through memory only |
| its runner | `scripts/cxl_bi_app.py` | processes, consoles, result | `run_experiment`, `wait_guest_event`, `validate_guest_evidence`, `analyze_trace`, cleanup | QEMU, CXLMemSim, the trace |
| coherence probe | `scripts/giga_2c1s_coherence.c`, `scripts/run_giga_2c1s_coherence.sh` | flags, lanes, payloads, a seqlock snapshot; exit codes, log | three roles, the driver script | each other, through memory; the driver by signals and logs |
| barrier service | `scripts/legofs_type3_3node.py` (`BarrierServer`) | arrivals, completed, errors, sockets | accept, handle, release, wait, close | two benchmark clients |
| node init | `guest/legofs_node_init.c` | roles and cases of a LegoFS node | boot, gates, server, clients, inspection | the runner, by console lines |
| two- and three-node runners | `scripts/legofs_type3_2node.py`, `scripts/legofs_type3_3node.py` | owned processes, consoles with reader threads, event sidecars, result | `execute`, `Console`, `OwnedProcess`, correlation of a direct write | guests, CXLMemSim |
| SHM runner and guest | `scripts/run.py`, `guest/init.c` | SHM object, server, QEMU, console, result file | `execute_workflow` and its finally block | server, QEMU |
| memory benchmark | `guest/cxl_mmap_bench.c` | mapping, timings | parse, passes, verification, medians | the device, the clock |
| IO500 runner | `scripts/legofs_io500.py` | pools of guests, threads, first failure, result | start, `launch_mpi`, restart probes, `dump_observations`, watchdog, teardown, strict persistency proof | PID 1 of every guest |
| IO500 guests | `guest/legofs_io500_init.sh`, `guest/legofs_io500_rank.sh` | clock, marker files, server generations | console commands, rank preflight | the runner, Hydra |
| V2 runner and node | `scripts/legofs_v2_qemu_bi.py`, `guest/legofs_v2_qemu_node.sh` | layout, provider, gates, rc files, event records | start-up pipeline, admission, workload, evidence | guests, trace |
| evaluation manifest | `scripts/legofs_evaluation_manifest.py` | effective config and manifest on disk | `derive_profile`, `configured_phases`, `resolve_artifacts`, `write_atomic` | IO500, the build manifest |
| build manifest | `scripts/write_manifest.py`, `scripts/update_legofs_io500_artifact.py`, the two `rebuild_*.sh` | installed files, manifest, its temporary file | rebuild of the payload, rebuild of the server, verification | each other, through files without a lock |
| observation analysis | `scripts/legofs_observe.py` | metrics, digests, pairs | merge, percentiles, ledger, paired gates | result files |

Not modelled:

- the candidate evidence and the RDWO closure: field-by-field comparison of finished
  JSON documents, without state;
- compilation and packaging in the build scripts, and the native IO500 wrappers:
  sequences of external tools that stop at the first failure;
- the NUMA baseline and the result export: no protocol;
- in `legofs_io500.py`, the audit of packed small segments, the recovery checkpoints,
  timing breakdowns and score parsing: counters and text of finished runs whose
  meaning is fixed by programs outside this repository;
- in the two- and three-node runners, the counters of the final inspections, for the
  same reason, and the reservation of TCP ports before QEMU binds them.

**Behaviours that make it hard.**  Stores that drain out of order between two
harts; equality polls on flags that are overwritten; a seqlock under
two readers; waits of host, guests and reader threads on each other; consoles
whose lines arrive late, damaged, doubled or in pieces; processes that die, hang
or cannot be stopped at any step, with a cleanup that must neither hide the first
failure nor leave anything behind; a restart between two server generations; clock
steps racing the release of a benchmark; evidence judged from time stamps that lag
behind what they stand for; sums that wrap and bins that saturate.

## 2. Modules

A component's module holds its state, one action per operation or step, and its
properties.  Mutants (definitions commented "Mutant") are plausible bugs, kept to
show that each property would notice one; no specification uses them.

| module | models | state and actions |
|---|---|---|
| `Rounds` | the parameter that the application and its ping-pong share | `Iterations` and its assumption |
| `BiApp` | the whole program of both guests | `mem`, a store `buffer` per hart, `pc`; each helper of the C code is a sequence of instructions (store, fence, poll, checked load), each action executes one or drains one store; a poll may time out |
| `PingPong` | the ping-pong loop alone, as the abstract specification of that phase | one action per store, fence, poll and checksum load |
| `GigaProbe` | the three roles and the driver script | `mem`, `pc`, exit `status`, the server's `log`, the script's position |
| `Seqlock` | the same-cacheline phase, used by `GigaProbe` through INSTANCE | one action per atomic access of the server and of each client |
| `BarrierServer`, `MCBarrierServer` | the accept thread, handlers, the closing thread, peers | a step is what a thread does between two blocking calls or lock operations |
| `RunnerScript`, `Runner` | what the multi-guest runners share: host thread, guests, console reader threads, cleanup, result | host and guests execute scripts of instructions, one per call of the source |
| `TwoNode`, `BiRun`, `ThreeNode`, `Labs` | the scripts of the three runners and of their guests; `Labs` puts them side by side | a behaviour is a run of one of them (`lab`) |
| `ShmRun` | `execute_workflow` and `guest/init.c` | phases with their exceptions, SHM object, server, QEMU, pipe, result file |
| `Io500Clock` | clock commands, receipts, proxies, ranks | `HostStep`, `GuestStep(g)`, `RankStep(c)` |
| `CleanRestart` | clean restart, unauthorized probe, held lane | the runner's steps, PID 1 of the server and of the clients, server generations |
| `ObservationFrames` | two framed copies of each arena over a console, and their reassembly | printing, interruptions, decoding |
| `PhaseWatchdog` | the console in chunks, known phases, the window | `See`, alarms |
| `Io500Run` | `execute`: start, MPI stage, evidence, teardown, recheck, result | a runner with boot threads, an exception in flight, processes that stick |
| `Io500Parts` | the five modules above, one per behaviour (`part`) | bounds of the instances |
| `V2Admission`, `MCV2Admission` | start-up pipeline, admission, workload, evidence | host with a bounded pool of waits, server and client shells, readers that show and then record |
| `TraceEvidence` | the trace (external, from how the runners read it) and what is concluded from it | requests per line, snoops, answers, write-backs; validators as operators |
| `DirtyCorrelation` | the evidence of a direct write in the two-node runner | a history of events and late captures |
| `PersistencyProof` | `strict_persistency_proof` for one operation | two consoles read late, damaged or doubled lines, provider records |
| `GuestEvidence` | `validate_guest_evidence` and the server's statistics | stages of two guests, records cut into by the kernel |
| `PayloadPersistence` | `lifecycle_payload_persistence_evidence` and, external, the server whose counters it audits | direct writes that are persisted before they are visible, or later by a receipt or an authority job; receipts lost, repeated, refused; steps left out |
| `BuildManifest` | both rebuilds, the manifest they share, a reader | one action per install, hash, open, write, replace, unlink; a kill or a failed write at any step; one action per verified artifact |
| `EvaluationManifest` | the tool that derives a profile and writes config and manifest | one action per turn of the prerequisite loop and per file written; a kill between the files; repeated invocations |
| `EvidenceParts` | those seven modules, one per behaviour | bounds of the instances |
| `ObserveMetrics`, `MetricFold` | metrics, merging, percentiles | recording in arenas, merging them in any order |
| `RequestLedger` | requests counted at four edges, arenas copied at different moments, `transport_ledger` | one action per edge, copy, analysis |
| `PairedStats`, `PairedGate`, `OverheadGate` | medians, MAD, both paired gates | campaigns that grow pair by pair |
| `MmapBench` | the freestanding memory benchmark | parse, passes with a failing clock, verification, release |
| `ObserveParts` | those five, one per behaviour | bounds of the instances |
| `GigaProbeProofs`, `BarrierServerProofs`, `RunnerProofs`, `V2AdmissionProofs`, `Io500RunProofs`, `Io500Proofs`, `ValidatorProofs`, `EvidenceProofs` | nothing: theorems and their proofs (section 6) | |

**Compositions.**  `GigaProbe` contains `Seqlock`: the roles enter it from their
programs and leave it into them, and the script judges the whole.  `BiApp`
implements `PingPong` under a refinement mapping (`Ping`).  `Labs` composes one
`Runner` with three sets of host and guest scripts.  `Io500Parts`,
`EvidenceParts` and `ObserveParts` do not make their parts interact: the parts do
not in the code either (each protocol runs between other steps of the runner, and
`Io500Run` has them as steps that may raise).  They only let one run cover them.
The state space is the sum of the parts' state spaces.

## 3. What the runs check

| run | module, cfg | distinct states | shows |
|---|---|---|---|
| `biapp` | `BiApp`, `MCBiApp.cfg` | 3,911 | `NoErrors`: no checksum or payload mismatch for any drain order. `NoRacingLoad`: no data load while the peer still has a store to that word pending. `SummariesUnlessTimeout`: both guests end with a summary unless a deadline passes. `ImplementsPingPong`: refinement. |
| `gigaprobe` | `GigaProbe`, `MCGigaProbe.cfg` | 106,906 | `NoTornSnapshot`, `LastReadIsFinal`: the seqlock inside the whole probe. `NoDataRace` on payload and packet words. `PassIsEarned`: the script's pass means all roles ran to their end, also when a client cannot begin or a role is gone when it is inspected. `PassUnlessTimeout`. |
| `labs` | `Labs`, `MCLabs.cfg` | 161,505 | `LinesMeetTheirReader`: a console line is sent only when the guest is about to read exactly it. `PassedRunIsClean`: what survives a passed run is a process that `terminate_owned` did not take for its own, and no guest whose lifetime the runner compares. `CaseLockstep`: the two clients are in the same case. `EveryRunEnds`. `PassesUnlessDisturbed`: a run without faults and deadlines passes or loses one of the races of its runner that `Races` lists. |
| `barrier` | `MCBarrierServer`, `MCBarrierServer.cfg` | 389,477 | `OneReleasePerParty`, `VerdictIsTruthful`, `NoSocketForgotten` with duplicate, unknown, malformed and disappearing peers and a concurrent close, which leaves at most one waiting socket open: one that `_accept` registered while it was closing. |
| `shmrun` | `ShmRun`, `MCShmRun.cfg` | 27,598 | `ResultIsEarned`: what a published result implies. `NothingLeftRunning`, except where closing the console raises or the server survives SIGKILL. `PassesUnlessDisturbed`. |
| `io500` | `Io500Parts`, `MCIo500Parts.cfg` | 171,262 | `MeasuresOneClock`, `LaunchCompletes` (clocks); `OneAuthority` (restart); `OneCopyIsEnough` (export); `AlarmIsJust` (watchdog); `FirstFailureKept`, `TeardownOrder` (run). |
| `v2` | `MCV2Admission`, `MCV2Admission.cfg` | 583,785 | `CohortGetsThrough` (liveness): with any size of the wait pool, a run without faults, expired gates and host deadlines passes or loses one of three races of healthy runs (`RaceLost`). `EvidenceIsRecorded`: what the evidence needs is on disk when it is built. `SuccessIsReal`: a passed run has seen every workload end with status 0 and the provider report its stop. |
| `evidence` | `EvidenceParts`, `MCEvidenceParts.cfg` | 1,519,364 | `TraceVerdictIsExact`: hand-offs, interval evidence and interval timing are accepted exactly when the trace has them. `TakenBackAfterUnmap`, `StrictProofIsReal`: the order of events that stamps taken late do establish. `PassedIsClean`: two accepted summaries mean that no error was counted. `DurableWhenAudited`: an audit that passes means that every payload counted as persisted or left a dependency is durable, and a sound server fails it only while something is open or after a rejected receipt. `RecordedFilesCoexist`: what an accepted build manifest names by hash was on the disk together. `ManifestTellsTheRun`: a manifest that matches the config tells what IO500 then runs. |
| `observe` | `ObserveParts`, `MCObserveParts.cfg` | 1,673,186 | `ArenasFoldExactly`: percentiles are nearest ranks up to a hundred samples, and the ledger accepts exactly copies of the same requests, whatever the order of merging and copying. `GatesAreSound`: both paired gates. `PrintedTimesAreReal`. |
| `shmrun_close` | `ShmRun`, `ShmRunClose.cfg` | violation | see section 7 |
| `io500clock_release` | `Io500Clock`, `Io500ClockRelease.cfg` | violation | see section 7 |
| `v2_wait_event` | `MCV2Admission`, `V2WaitEvent.cfg` | violation | see section 7 |

Deadlock is checked in `labs`, `shmrun`, `io500` and `v2`, whose runs end in an
explicit final step.  In the other models a behaviour ends when its programs have
ended or its bound is reached.

## 4. Bounds

Each bound is a constant, or is chosen in a composing module.

- `biapp`: three rounds (first, middle and last round differ), the full eight-word
  payload, four stream words.
- `gigaprobe`: two rounds, payloads of one word written in two passes, two seqlock
  updates of a two-word snapshot: a reader can begin before an update, lose the race in
  the middle and succeed after the second.  Larger sizes of the seqlock are proved.
- `labs`: one fault in the two- and three-node runs, two in the back-invalidation
  run; the three-node runner starts at its fourth case (`FirstCase`), since all
  cases have the same shape and two of them show a hand-over.
- `barrier`: four connections on one expected barrier, so that a duplicate meets a
  complete pair.  `MaxLoad` bounds what the peers do: a connection counts once, one
  that is unusable or disappears twice; with four, both parties may try again, an
  unusable request may come between two good ones, or both parties disappear.
  Connections are symmetric (`Symmetry`), no property tells them apart.  Any number of
  connections, barriers and disturbances is proved (section 6).
- `shmrun`: two faults, so that one can hit the handling of the other.
- `io500`: two servers and three clients with one failing clock command; two server
  crashes; up to two arenas of three chunks, of which the runner expects one (none and two
  have to be refused), with three interruptions (two are needed to hit both copies of a
  chunk); four time units, three lines and a limit of one for
  the watchdog; two servers, a client and two faults for the run.
- `v2`: two clients with one wait at a time, two with two, one alone; one fault.
- `evidence`: two hosts, three requests on two lines (one line when an interval is
  marked), one odd answer or reconnection; one operation and two lines; one departure from
  the expected course of a direct write; two mishaps
  per persistency proof, so that one of two copies can be damaged; one cut record and one error.  Three
  direct writes with one refused and one repeated receipt and one step left out.  Two
  rebuilds, of either kind or one of each; three rebuilds (1,372,214 states) were
  checked separately and any number is proved.  Any single phase, or two of three
  chosen ones, in two invocations of the evaluation tool.
- `observe`: four calls in three arenas, after 0, 30 or 49 earlier ones in each of two
  of them with bins of 50, so that bins fill up and ranks 50, 95 and 99 of a hundred
  are told apart; two requests of two clients whose hashes wrap, either of them sampled
  or not; five pairs, the number the gate
  accepts from, and four where the runs of a pair may differ in kind; a word of six bits for the benchmark.

## 5. Fairness

Weak fairness only, of threads and guests that the operating system schedules.
`BiApp`: each hart executes and its store buffer drains.  `GigaProbe`: each role, all
pinned to CPUs of their own, and the script.  `Runner`: the host thread, the guests and
the console readers together, one of which goes on while any of them can (`Progress`);
none of them can be starved by the others for ever, since each script is finite.
`Io500Clock`: the host, PID 1 of each guest, each rank.  `ShmRun`: the host and the
machine.  `V2Admission`: host, guests and console
readers together, steps that a deadline takes excepted (`Works`).  Nothing is assumed
of faults.  A deadline that passes is an action without fairness; `EveryRunEnds`
adds, as its own hypothesis, that a wait which can time out eventually does, which
is what `time.monotonic() + timeout` in each wait loop gives.  Liveness properties
about runs that succeed (`SummariesUnlessTimeout`, `PassUnlessTimeout`,
`PassesUnlessDisturbed`, `CohortGetsThrough`, `LaunchCompletes`) have the absence of deadlines and
faults as their hypothesis, so that what they exclude is a deadlock of the protocol.

## 6. What is proved

Every theorem is for all values of the constants, under the named assumptions of the
module that declares them.  "Any number of faults" means that the bound `MaxFaults` of
the instances plays no part.  The table gives the theorems that state a property of a
run; the paragraphs give the argument.

| module | theorems, and the properties of the runs they state | assumes |
|---|---|---|
| `GigaProbeProofs` | `ProbeNeverTorn` (`NoTornSnapshot`), `ProbeFinalReadIsLast` (`LastReadIsFinal`) | `SeqlockAssumption`: some words, some updates |
| `BarrierServerProofs` | `OneReleaseAlways`, `VerdictAlways`, `SocketsAlways` (the three invariants of `barrier`) | `BarrierAssumption`: some barrier; names are distinct |
| `RunnerProofs` | `PassedIsCleanAlways` (`PassedRunIsClean`); of components: `PingInvariance`, `NeverAnError`, `NeverOvershoots`, `StaysInLockstep` about `PingPong`, `NothingLeftAlways`, `ResultIsEarnedAlways` about `ShmRun` | `LabAssumption`: a script ends what it starts; `IterationsAssumption`: `main()` rejects zero |
| `V2AdmissionProofs` | `EvidenceIsRecordedAlways`, `SuccessIsRealAlways` (the two invariants of `v2`); `CohortUnderWayAlways`, the safety half of `CohortGetsThrough` | `SetupsAssumption`: the modes of the command line, some client |
| `Io500Proofs` | `OneAuthorityAlways`, `MeasuresOneClockAlways`, `FirstFailureAlways`, `TeardownOrderAlways` | `CountsAssumption`: some client |
| `EvidenceProofs` | `PassedIsCleanAlways` (`PassedIsClean`), `StrictProofAlways` (`StrictProofIsReal`), `TakenBackAlways` (`TakenBackAfterUnmap`), `CoexistAlways` (`RecordedFilesCoexist`), `DurableAlways` (`DurableWhenAudited`) | `ItemsAssumption`: finitely many writes |

`Io500RunProofs` and `ValidatorProofs` hold the proofs about single parts.  A part is
proved where little else is in scope, and `Io500Proofs` and `EvidenceProofs` carry the
result over to the composition that a run checks: every step of the whole is a step of
the part or leaves its variables alone.  No theorem needs fairness; where a component is
named, the theorem is about its `Init /\ [][Next]_vars`.

**Shared memory.**  In the ping-pong none of the three properties is inductive.  `IInv`
adds `Line`, which says what the two words of a node's line hold at each step of its loop
and what is still in its buffer (the argument that the fences are enough), and
`Handover`, which says how the rounds of the two nodes can differ (the argument that no
line runs past its waiter).  `ImplementsPingPong`, model-checked, carries the result over
to the whole application.  In the seqlock, `WriterInv` says that the counter, the loop
variable and the words not yet stored determine every word, and `ReaderInv` that while
the counter is what a client loaded first, what it copied since is of that version;
`Parity` is the arithmetic behind it: an even counter names one version.  `MonotonicReads`
adds that the versions a client accepts never go backwards.  Each step of the probe is a
step of the phase or leaves it alone (`OutsideThePhase`), also when a role times out or
is killed, so the phase's invariant is one of the probe.

**Barrier server.**  `IInv` follows a connection through the server: it is retained at
most once per party (`RetainedOnce`), waits in the table while its barrier is open
(`TableIsRight`), and once the barrier is completed is in the hands of exactly the handler
that completed it (`PairIsRight`) until it has been told to go or an error is on record
(`AllTold`, `ErrorsKept`) and its socket is closed (`SocketKept`).  None of the three
properties survives a step alone, because the handler that completes a barrier is not the
one whose connection it releases.

**Runners.**  `PassedRunIsClean` needs that, while a script runs, every process that is
alive was overlooked or is ended by an instruction still to come (`EndsTheLiving`), and
that past the comparison of lifetimes no node it names is alive (`EndedBefore`).  For `ShmRun`, `StoppedInOrder`
and `Counted` say which processes each phase of `execute_workflow` has stopped and what
has been counted when the result is written; they give `NothingLeftRunning`.
`ResultIsEarned` is also about the console: what QEMU wrote is in the pipe or in the
output, nothing is lost between them (`ConsoleKept`), the instruction that validates is
one position of the script (`ValidateAt`, from the lemmas on how scripts are put
together), and past it the validated output is still there (`AcceptedInTime`).

**V2 admission.**  The invariant has to relate four things per client: what its shell has
printed, what the host has been shown, what is recorded, and where the host is.
`EveryLine` says of each line of a console what its guest must have done to print it; a
console is shown and recorded in the order in which it was printed.  `OnItsWay` says that from
the moment the host begins to wait for the cohort every client has been asked; it is what
keeps a bounded pool from deadlocking, and the liveness itself is model-checked.  The lemmas before the theorems say what each kind of step leaves alone, so that a
step of one client is checked against the lines of one console.

**IO500.**  A successor of a server exists only when the old one has ended
(`OneAuthority`).  For `MeasuresOneClock`, the receipts that the host has counted name
guests that have applied the synchronization that it is waiting for.  For
`FirstFailureKept`, until the except clause the exception in flight is the first one or an
interrupt, and from then on the recorded failure is; the cleanup only fills in an empty
place.  `TeardownOrder` is an action property: the invariant behind it says who has been
asked to stop and who is down at each step of both the orderly and the failing path.

**Validators.**

- Guests: a summary is the last record of its guest and carries all the errors it
  counted, so two clean summaries mean that there were none, whatever the kernel cut out.
- Strict proof: a line is captured after what it reports, so an order between the first
  event of a trace and the last capture of a line holds between the events, also with
  damaged or doubled lines.
- Direct write: a record that a mapping was dropped or unmapped is captured after it was
  printed, so a snoop after the capture is after an attempt to give the mapping up; the
  data of an accepted answer comes back after the snoop.
- Build manifest: installed versions only grow, and every document, in the manifest, in
  the temporary file, in a writer's draft or in a reader's hands, names versions that were
  installed before (`Monotone`).  A version that is verified later lies between the one at
  the reader's first look and itself (`ReaderInv`), and the server that a payload rebuild
  records between the one it began with and the one it finds at its last check
  (`RebuildInv`).  The argument does not depend on who renamed whose temporary file.
- Payload audit: an authority job that leaves the persisting out is missing among the
  persist jobs for good, and a dependency that is closed without a receipt among the
  receipts.  The counters are sizes of sets of writes; `DurableBySizes` turns the
  equations of the audit into equalities of sets, which is where finiteness is needed.

**Only model-checked.**

- Liveness, and all that rests on fairness or ENABLED: out of the prover's reach.
- What recursive definitions and folds compute: `ArenasFoldExactly`, `GatesAreSound`,
  `PrintedTimesAreReal`, `TraceVerdictIsExact`, `ManifestTellsTheRun`, `OneCopyIsEnough`,
  `AlarmIsJust`.  They compare a fold over a sequence with a declarative definition, which takes an
  induction over data.
- `LinesMeetTheirReader`, `CaseLockstep`, and `PassIsEarned` and `NoDataRace` of
  `GigaProbe`: they pair the positions of concrete scripts that are put together by
  concatenation, so that an invariant would have to list them position by position.
- `BiApp` as a whole (`NoErrors`, `NoRacingLoad`) and the refinement `BiApp => PingPong`,
  for the same reason; the loop in its middle is proved.

## 7. Where the code and its documents disagree

Shown by a run that TLC refutes:

- `shmrun_close` - `scripts/run.py:571`: an exception of `console.close()` leaves
  the finally block before the server is stopped, although the design document says
  the server is always stopped after QEMU exits.
- `io500clock_release` - `scripts/legofs_io500.py:2669`: a rank is released by its
  own guest's clock command, so a server guest may step its clock after the
  measured workload is released, which the comment at 2676 excludes.
- `v2_wait_event` - `scripts/legofs_v2_qemu_bi.py:681`: `wait_recorded_console` calls
  `Console.wait_event`, which `Console` does not have (a test supplies a fake).  The
  passing run takes the test's contract for granted (`HasWaitEvent`).

Met while modelling, and described here only:

- `scripts/run.py:388`: the console is validated as soon as the guest's pass line is
  seen, so a transport error QEMU prints afterwards is not found (README lines 256-269:
  a run passes only when no such error is present).
- `guest/legofs_io500_init.sh:511`: the unauthorized successor is looked at after its
  exit, so "never listened" (`legofs_io500.py:2563`) is not observed.
- `scripts/legofs_io500.py:1441`: an interruption that leaves a shortened chunk which is
  still a well-formed line makes the copies disagree and refuses the export, although
  one interrupted copy should not invalidate it (comment at 1432).
- `scripts/legofs_io500.py:5889`: the final recheck may read a log its reader thread
  has not finished (comment at 5886).
- `scripts/legofs_v2_qemu_bi.py:1646`: clients are dispatched on what the console
  shows, while the evidence compares recorded times, so a correct run can be rejected.
- `guest/legofs_v2_qemu_node.sh:678`: with several clients the phase forwarder is not
  awaited before the exit line, so a phase marker can be missing in
  `legofs_v2_qemu_bi.py:919`.
- `scripts/legofs_type3_2node.py:550`: capture times are compared, so a completion
  after the real success can pass as before it (README lines 163-166).
- `scripts/legofs_io500.py:4380`: a damaged line is dropped before duplicates are
  counted, so one of two records can make an ambiguous stage look unique
  (comment at 4376-4378).  The model has it; `StrictProofIsReal` holds all the same, since
  either copy was printed after the stage.

## 8. Abstractions a reader should know

- Payloads, names and console text are members of small sets; checksums are the
  value they were computed from; SHA-256 and base64 are equality of contents.
- The trace of `TraceEvidence` serves the requests of one line in the order recorded; the server
  is not part of this repository.
- The RISC-V guests get a store buffer that drains in any order and fences that wait
  for it; the x86 probe gets stores in program order.
- `ThreeNode` writes its sidecar together with the notification: that runner never
  reads its sidecars.
- `Runner` models the loss of a wait to the exit of QEMU before its last line is read
  as a cause of failure; `PassesUnlessDisturbed` admits it, and in the two-node runner
  the validation of sidecars that are still being written, as the only ways in which a
  healthy run fails.  A live process that `matches_live_pid` does not recognise is left
  alone without an error, and need not be counted as remaining.
- `OneAuthority` is about the generations of a clean restart.  The unauthorized
  successor of the probe is started beside the old server on purpose and is no
  generation.
- `AlarmIsJust` is one-sided: a window that is exceeded is noticed at the next look at
  the console, and how soon that comes is not part of the model.
- `TraceEvidence` has two hosts, as `cxl_bi_app.py` has.  With a third one the last
  request for a line before a snoop need not be the one that is being served.
- `TakenBackAfterUnmap`, `StrictProofIsReal` and `DurableWhenAudited` say what the
  validators establish, which is less than their names in the code promise: a failed
  attempt to unmap counts as one, the writer's paths of a strict proof compare two late
  stamps, and a write committed with no persist and no dependency is missing from the
  counters unless writes are persisted before they are visible and no provider barrier
  is counted.
- The LegoFS server behind `PayloadPersistence` is external.  It is modelled from the
  counters the audit relates; its bytes go with its ranges; a server at fault leaves a
  step of persisting out and does not count it.
- `BuildManifest` gives every install a new version.  A hash tells versions apart, a
  size may not.  A lost update or a torn manifest is no violation: the property is about
  what a reader accepts.  Both writers use `<manifest>.tmp`, so one may rename what the other
  is still writing; a mixture of two documents is torn.  A payload tree is one
  artifact.
- In `EvaluationManifest`, IO500 (external) runs a section without a `run` flag, and a
  manifest counts only while its digest is that of the config on disk: after a kill
  between the two files the old manifest is there and says nothing.
- Ports, the time between checking for and creating an SHM object, command lines,
  DAX discovery and JSON layouts are left out.
- `GuestEvidence` leaves out elapsed times of zero.  `PairedStats` keeps 1.4826 as
  37/25 and doubles medians to stay with whole numbers.
- The ledger accepts copies in which no client recorded anything without comparing
  digests; `ArenasFoldExactly` says so.  The analysis uses its verdict only when its coverage is
  `instrumented_at_o2` (`legofs_observe.py:731`); the ledger's half of `ArenasFoldExactly` is about those.  The gate asks
  for four positive pairs whatever the minimum (1876), and an allowed topology field
  may differ in either direction (1785-1793); both are modelled as they are.
- The benchmark's final pattern is that of its first pass and its read checksum is
  never compared; the hosted half of `cxl_mmap_bench.c` is not modelled.

## 9. Plan

1. Proofs: `BiApp => PingPong` as theorems about each step; `CaseLockstep` and
   `LinesMeetTheirReader` from an invariant that pairs the positions of two scripts.
2. The candidate evidence and RDWO closure as operators over small documents, checked
   against a declarative definition.
3. The counters of the final inspections, once the programs that count them are part
   of the repository.
4. Calibration probes of the V2 runner and the time closure of single results.
