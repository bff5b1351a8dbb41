--------------------------- MODULE EvidenceParts ----------------------------
(***************************************************************************)
(* The validators that turn traces, consoles, counters and files into      *)
(* evidence, each in a module of its own: dirty hand-offs and interval     *)
(* timing from a coherence trace, the correlation of a direct write, the   *)
(* strict persistency proof, the audit of a server's payload counters, the *)
(* records of the back-invalidate application's guests, the build manifest *)
(* and the evaluation manifest.  A behaviour is one of one part.           *)
(***************************************************************************)
EXTENDS Naturals, FiniteSets

CONSTANTS
    Hosts, TraceLines,        \* of a coherence trace
    MaxRequests, MaxOdd,      \* bounds: requests of a trace, and its oddities
    Mapping, DirectLines,     \* the mappings of direct writes, and device memory
    Kinds,                    \* durability paths of the strict proof
    MaxLag, MaxMishaps,       \* bounds: console lag, damaged and doubled lines
    Items, Owners,            \* direct writes of a run, persistence owners
    MaxReceipts, MaxFaults,   \* bounds: receipts refused or doubled, steps left out
    MaxNoise, MaxErrors,      \* bounds: damaged records, errors of the guests
    MaxBuilds,                \* bound: artifacts installed
    MaxInvocations, MaxRequested,
    Requestable, CustomGroups \* of the evaluation manifest (see there)

ASSUME ItemsAssumption == IsFiniteSet(Items)

VARIABLE part    \* the part of the system a behaviour is of

(* The variables of the parts; equal names are shared, since only one part  *)
(* is at work.                                                              *)
VARIABLES
    trace, owner, pending, serving, requests, snoops, odd, begin, end, history, kind,
    client, server, damaged, duplicates, item, durable, sent, counts, stage, errors,
    geometry, checksum, lines, gaveUp, counted, noise, verdict, files, builds,
    manifest, tmp, pc, fd, draft, before, reader, invocations, ask, closure, todo,
    profile, config

vars ==
    << part,
       trace, owner, pending, serving, requests, snoops, odd, begin, end, history,
       kind, client, server, damaged, duplicates, item, durable, sent, counts, stage,
       errors, geometry, checksum, lines, gaveUp, counted, noise, verdict, files,
       builds, manifest, tmp, pc, fd, draft, before, reader, invocations, ask,
       closure, todo, profile, config >>

Handoff == INSTANCE TraceEvidence WITH
    Lines <- TraceLines, Targets <- {1}, MarksInterval <- FALSE
Interval == INSTANCE TraceEvidence WITH
    Lines <- {1}, Targets <- {1}, MarksInterval <- TRUE
Direct == INSTANCE DirtyCorrelation WITH Lines <- DirectLines
Strict == INSTANCE PersistencyProof
Payload == INSTANCE PayloadPersistence
Guests == INSTANCE GuestEvidence
Build == INSTANCE BuildManifest
Profile == INSTANCE EvaluationManifest

(* What a behaviour of a part leaves alone.                                 *)
OutsideHandoff ==
    << part,
       history, kind, client, server, damaged, duplicates, item, durable, sent,
       counts, stage, errors, geometry, checksum, lines, gaveUp, counted, noise,
       verdict, files, builds, manifest, tmp, pc, fd, draft, before, reader,
       invocations, ask, closure, todo, profile, config >>
OutsideDirect ==
    << part,
       trace, owner, pending, serving, requests, snoops, begin, end, kind, client,
       server, damaged, duplicates, item, durable, sent, counts, stage, errors,
       geometry, checksum, lines, gaveUp, counted, noise, verdict, files, builds,
       manifest, tmp, pc, fd, draft, before, reader, invocations, ask, closure, todo,
       profile, config >>
OutsideStrict ==
    << part,
       trace, owner, pending, serving, requests, snoops, odd, begin, end, item,
       durable, sent, counts, stage, errors, geometry, checksum, lines, gaveUp,
       counted, noise, verdict, files, builds, manifest, tmp, pc, fd, draft, before,
       reader, invocations, ask, closure, todo, profile, config >>
OutsidePayload ==
    << part,
       trace, pending, serving, requests, snoops, odd, begin, end, history, kind,
       client, server, damaged, duplicates, stage, errors, geometry, checksum, lines,
       gaveUp, counted, noise, verdict, files, builds, manifest, tmp, pc, fd, draft,
       before, reader, invocations, ask, closure, todo, profile, config >>
OutsideGuests ==
    << part,
       trace, owner, pending, serving, requests, snoops, odd, begin, end, history,
       kind, client, server, damaged, duplicates, item, durable, sent, counts, files,
       builds, manifest, tmp, pc, fd, draft, before, reader, invocations, ask,
       closure, todo, profile, config >>
OutsideBuild ==
    << part,
       trace, owner, pending, serving, requests, snoops, odd, begin, end, history,
       kind, client, server, damaged, duplicates, item, durable, sent, counts, stage,
       errors, geometry, checksum, lines, gaveUp, counted, noise, verdict,
       invocations, ask, closure, todo, profile, config >>
OutsideProfile ==
    << part,
       trace, owner, pending, serving, requests, snoops, odd, begin, end, history,
       kind, client, server, damaged, duplicates, item, durable, sent, counts, stage,
       errors, geometry, checksum, lines, gaveUp, counted, noise, verdict, files,
       builds, tmp, fd, draft, before, reader >>

(* The mapping that is explored: one operation, one line of its own.        *)
OneMapping == <<{64}>>

-----------------------------------------------------------------------------
(* A variable no part at work uses.                                         *)
None == "none"

Init ==
    \/ /\ part = "handoff" /\ Handoff!Init
       /\ history = None /\ kind = None /\ client = None /\ server = None
       /\ damaged = None /\ duplicates = None /\ item = None /\ durable = None
       /\ sent = None /\ counts = None /\ stage = None /\ errors = None
       /\ geometry = None /\ checksum = None /\ lines = None /\ gaveUp = None
       /\ counted = None /\ noise = None /\ verdict = None /\ files = None
       /\ builds = None /\ manifest = None /\ tmp = None /\ pc = None /\ fd = None
       /\ draft = None /\ before = None /\ reader = None /\ invocations = None
       /\ ask = None /\ closure = None /\ todo = None /\ profile = None
       /\ config = None
    \/ /\ part = "interval" /\ Interval!Init
       /\ history = None /\ kind = None /\ client = None /\ server = None
       /\ damaged = None /\ duplicates = None /\ item = None /\ durable = None
       /\ sent = None /\ counts = None /\ stage = None /\ errors = None
       /\ geometry = None /\ checksum = None /\ lines = None /\ gaveUp = None
       /\ counted = None /\ noise = None /\ verdict = None /\ files = None
       /\ builds = None /\ manifest = None /\ tmp = None /\ pc = None /\ fd = None
       /\ draft = None /\ before = None /\ reader = None /\ invocations = None
       /\ ask = None /\ closure = None /\ todo = None /\ profile = None
       /\ config = None
    \/ /\ part = "direct" /\ Direct!Init
       /\ trace = None /\ owner = None /\ pending = None /\ serving = None
       /\ requests = None /\ snoops = None /\ begin = None /\ end = None
       /\ kind = None /\ client = None /\ server = None /\ damaged = None
       /\ duplicates = None /\ item = None /\ durable = None /\ sent = None
       /\ counts = None /\ stage = None /\ errors = None /\ geometry = None
       /\ checksum = None /\ lines = None /\ gaveUp = None /\ counted = None
       /\ noise = None /\ verdict = None /\ files = None /\ builds = None
       /\ manifest = None /\ tmp = None /\ pc = None /\ fd = None /\ draft = None
       /\ before = None /\ reader = None /\ invocations = None /\ ask = None
       /\ closure = None /\ todo = None /\ profile = None /\ config = None
    \/ /\ part = "strict" /\ Strict!Init
       /\ trace = None /\ owner = None /\ pending = None /\ serving = None
       /\ requests = None /\ snoops = None /\ odd = None /\ begin = None /\ end = None
       /\ item = None /\ durable = None /\ sent = None /\ counts = None
       /\ stage = None /\ errors = None /\ geometry = None /\ checksum = None
       /\ lines = None /\ gaveUp = None /\ counted = None /\ noise = None
       /\ verdict = None /\ files = None /\ builds = None /\ manifest = None
       /\ tmp = None /\ pc = None /\ fd = None /\ draft = None /\ before = None
       /\ reader = None /\ invocations = None /\ ask = None /\ closure = None
       /\ todo = None /\ profile = None /\ config = None
    \/ /\ part = "audit" /\ Payload!Init
       /\ trace = None /\ pending = None /\ serving = None /\ requests = None
       /\ snoops = None /\ odd = None /\ begin = None /\ end = None /\ history = None
       /\ kind = None /\ client = None /\ server = None /\ damaged = None
       /\ duplicates = None /\ stage = None /\ errors = None /\ geometry = None
       /\ checksum = None /\ lines = None /\ gaveUp = None /\ counted = None
       /\ noise = None /\ verdict = None /\ files = None /\ builds = None
       /\ manifest = None /\ tmp = None /\ pc = None /\ fd = None /\ draft = None
       /\ before = None /\ reader = None /\ invocations = None /\ ask = None
       /\ closure = None /\ todo = None /\ profile = None /\ config = None
    \/ /\ part = "guests" /\ Guests!Init
       /\ trace = None /\ owner = None /\ pending = None /\ serving = None
       /\ requests = None /\ snoops = None /\ odd = None /\ begin = None /\ end = None
       /\ history = None /\ kind = None /\ client = None /\ server = None
       /\ damaged = None /\ duplicates = None /\ item = None /\ durable = None
       /\ sent = None /\ counts = None /\ files = None /\ builds = None
       /\ manifest = None /\ tmp = None /\ pc = None /\ fd = None /\ draft = None
       /\ before = None /\ reader = None /\ invocations = None /\ ask = None
       /\ closure = None /\ todo = None /\ profile = None /\ config = None
    \/ /\ part = "build" /\ Build!Init
       /\ trace = None /\ owner = None /\ pending = None /\ serving = None
       /\ requests = None /\ snoops = None /\ odd = None /\ begin = None /\ end = None
       /\ history = None /\ kind = None /\ client = None /\ server = None
       /\ damaged = None /\ duplicates = None /\ item = None /\ durable = None
       /\ sent = None /\ counts = None /\ stage = None /\ errors = None
       /\ geometry = None /\ checksum = None /\ lines = None /\ gaveUp = None
       /\ counted = None /\ noise = None /\ verdict = None /\ invocations = None
       /\ ask = None /\ closure = None /\ todo = None /\ profile = None
       /\ config = None
    \/ /\ part = "profile" /\ Profile!Init
       /\ trace = None /\ owner = None /\ pending = None /\ serving = None
       /\ requests = None /\ snoops = None /\ odd = None /\ begin = None /\ end = None
       /\ history = None /\ kind = None /\ client = None /\ server = None
       /\ damaged = None /\ duplicates = None /\ item = None /\ durable = None
       /\ sent = None /\ counts = None /\ stage = None /\ errors = None
       /\ geometry = None /\ checksum = None /\ lines = None /\ gaveUp = None
       /\ counted = None /\ noise = None /\ verdict = None /\ files = None
       /\ builds = None /\ tmp = None /\ fd = None /\ draft = None /\ before = None
       /\ reader = None

Next ==
    \/ part = "handoff" /\ Handoff!Next /\ UNCHANGED OutsideHandoff
    \/ part = "interval" /\ Interval!Next /\ UNCHANGED OutsideHandoff
    \/ part = "direct" /\ Direct!Next /\ UNCHANGED OutsideDirect
    \/ part = "strict" /\ Strict!Next /\ UNCHANGED OutsideStrict
    \/ part = "audit" /\ Payload!Next /\ UNCHANGED OutsidePayload
    \/ part = "guests" /\ Guests!Next /\ UNCHANGED OutsideGuests
    \/ part = "build" /\ Build!Next /\ UNCHANGED OutsideBuild
    \/ part = "profile" /\ Profile!Next /\ UNCHANGED OutsideProfile

Spec == Init /\ [][Next]_vars

-----------------------------------------------------------------------------
(* Registrations are accepted exactly when every endpoint registered once;  *)
(* a dirty hand-off that analyze_trace reports took place, and none that    *)
(* took place on a target line is missed, however requests interleave.  The *)
(* evidence of an interval is accepted exactly when in it modified data of a *)
(* target line was asked for and written back, and its timing exactly when  *)
(* no request is under way at its begin or its end (coherence_evidence,     *)
(* coherence_request_completion_timing).                                    *)
TraceVerdictIsExact ==
    /\ part = "handoff" => Handoff!RegistrationsExact /\ Handoff!HandoffIsExact
    /\ part = "interval" => Interval!IntervalEvidenceIsReal /\ Interval!TimingIsExact

(* Accepted evidence of a direct write: modified bytes of the operation's   *)
(* own mapping were taken back from node1, completely, after it had dropped  *)
(* or unmapped it at least once, however late the consoles are read          *)
(* (validate_host_capture_order; see DirtyCorrelation for what it does not   *)
(* show).                                                                   *)
TakenBackAfterUnmap == part = "direct" => Direct!TakenBackAfterUnmap

(* What strict_persistency_proof shows from late, damaged or doubled         *)
(* console lines: on the authority path the acquisition came after the store *)
(* had succeeded and the fence after the first acquisition reported, on the  *)
(* back-invalidation path the bytes left the writer after it unmapped them, *)
(* and on the writer's paths the report is there (see PersistencyProof).    *)
StrictProofIsReal == part = "strict" => Strict!StrictProofIsReal

(* Whenever the servers are inspected, counters that pass the audit mean    *)
(* that every payload that was counted as persisted or left a dependency is *)
(* durable, and a server that left no step out fails it only while a        *)
(* dependency is open or after a rejected receipt                           *)
(* (lifecycle_payload_persistence_evidence).                                *)
DurableWhenAudited == part = "audit" => Payload!DurableWhenAudited

(* Whatever is cut out of the consoles, a run of the application passes     *)
(* only when both guests ended every stage and nobody counted an error.     *)
PassedIsClean == part = "guests" => Guests!PassedIsClean

(* However rebuilds race each other and wherever they are killed, the files *)
(* that a reader accepted by hash were on the disk together, and a payload  *)
(* rebuild succeeds only with the CXL server it began with                  *)
(* (verify_manifest, resolve_artifacts, platform_hashes).                   *)
RecordedFilesCoexist == part = "build" => Build!RecordedFilesCoexist

(* An evaluation manifest that fits the config on disk tells which phases a *)
(* run of it executes, in what order and to what end, wherever the tool was *)
(* killed (derive_profile, phase_evidence, write_atomic).                   *)
ManifestTellsTheRun == part = "profile" => Profile!ManifestTellsTheRun
=============================================================================
