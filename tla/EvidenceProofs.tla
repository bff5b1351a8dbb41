--------------------------- MODULE EvidenceProofs ---------------------------
(***************************************************************************)
(* What the validators conclude is what happened, for any bounds, carried  *)
(* over from ValidatorProofs and Io500RunProofs to the whole: a passed run  *)
(* of the back-invalidate application, a strict persistency proof, the     *)
(* evidence of a direct write, an accepted build manifest and an audit of  *)
(* the payload counters.                                                   *)
(***************************************************************************)
EXTENDS EvidenceParts, Sequences, TLAPS

(* A step of the whole is a step of the part it is of, or leaves it alone.  *)
LEMMA PartSteps ==
    ASSUME [Next]_vars
    PROVE  /\ part' = part
           /\ part = "guests" => [Guests!Next]_(Guests!vars)
           /\ part = "direct" => [Direct!Next]_(Direct!vars)
           /\ part = "strict" => [Strict!Next]_(Strict!vars)
           /\ part = "audit" => [Payload!Next]_(Payload!vars)
           /\ part = "build" => [Build!Next]_(Build!vars)
<1>1. CASE UNCHANGED vars
  BY <1>1, Zenon DEF vars, Guests!vars, Direct!vars, Strict!vars, Payload!vars, Build!vars
<1>2. CASE Next
  BY <1>2, Zenon DEF Next, OutsideHandoff, OutsideDirect, OutsideStrict, OutsidePayload, OutsideGuests,
              OutsideBuild, OutsideProfile
<1> QED BY <1>1, <1>2, Zenon

-----------------------------------------------------------------------------
(* The invariants of the parts are proved in ValidatorProofs, where nothing *)
(* else is in the way; here each part is shown to behave as the              *)
(* specification that is proved there.                                       *)
V == INSTANCE ValidatorProofs

(* The two instances of the guests' records say the same.                   *)
LEMMA SameGuests ==
    /\ Guests!Init = V!Guests!Init /\ Guests!Next = V!Guests!Next /\ Guests!vars = V!Guests!vars
    /\ Guests!PassedIsClean = V!Guests!PassedIsClean
<1>1. Guests!Init = V!Guests!Init
  BY Zenon DEF Guests!Init, V!Guests!Init, Guests!Roles, V!Guests!Roles
<1>2. Guests!Next = V!Guests!Next
  BY Zenon DEF Guests!Roles, V!Guests!Roles, Guests!Peer, V!Guests!Peer, Guests!Stages,
         V!Guests!Stages, Guests!Writes, V!Guests!Writes, Guests!Reads, V!Guests!Reads,
         Guests!Last, V!Guests!Last, Guests!PeerNeeded, V!Guests!PeerNeeded, Guests!Damaged,
         V!Guests!Damaged, Guests!FatalRecord, V!Guests!FatalRecord, Guests!TotalErrors,
         V!Guests!TotalErrors, Guests!Reported, V!Guests!Reported, Guests!EndStage,
         V!Guests!EndStage, Guests!Fatal, V!Guests!Fatal, Guests!CutInto, V!Guests!CutInto,
         Guests!Records, V!Guests!Records, Guests!Clean, V!Guests!Clean, Guests!_one_event,
         V!Guests!_one_event, Guests!Streams, V!Guests!Streams, Guests!validate_guest_evidence,
         V!Guests!validate_guest_evidence, Guests!parse_server_stats,
         V!Guests!parse_server_stats, Guests!ServerCounts, V!Guests!ServerCounts,
         Guests!SummarySeen, V!Guests!SummarySeen, Guests!WaitFails, V!Guests!WaitFails,
         Guests!Judge, V!Guests!Judge, Guests!Next, V!Guests!Next, Guests!Cardinality,
         V!Guests!Cardinality, Guests!IsFiniteSet, V!Guests!IsFiniteSet
<1>3. Guests!vars = V!Guests!vars
  BY Zenon DEF Guests!vars, V!Guests!vars
<1>4. Guests!PassedIsClean = V!Guests!PassedIsClean
  BY Zenon DEF Guests!PassedIsClean, V!Guests!PassedIsClean, Guests!Roles, V!Guests!Roles,
         Guests!Last, V!Guests!Last
<1> QED BY <1>1, <1>2, <1>3, <1>4, Zenon

(* cxl_bi_app.py, for any number of errors and of kernel                    *)
(* messages: a run passes only when both guests ended all their stages, and *)
(* nobody counted an error.                                                 *)
THEOREM PassedIsCleanAlways == Spec => []PassedIsClean
<1> DEFINE Here == part = "guests"
<1>1. Init /\ Here => V!Guests!Init
  BY SameGuests, Zenon DEF Init
<1>2. [Next]_vars => (Here' <=> Here) /\ (Here => [V!Guests!Next]_(V!Guests!vars))
  <2> SUFFICES ASSUME [Next]_vars
               PROVE  (Here' <=> Here) /\ (Here => [V!Guests!Next]_(V!Guests!vars))
    BY Zenon
  <2>1. part' = part /\ (part = "guests" => [Guests!Next]_(Guests!vars))
    BY PartSteps, Zenon
  <2>2. [Guests!Next]_(Guests!vars) = [V!Guests!Next]_(V!Guests!vars)
    BY SameGuests, Zenon DEF Guests!vars, V!Guests!vars
  <2> QED BY <2>1, <2>2, Zenon
<1>3. V!Guests!PassedIsClean => PassedIsClean
  BY SameGuests, Zenon DEF PassedIsClean
<1>4. ~Here => PassedIsClean
  BY Zenon DEF PassedIsClean
<1>5. V!Guests!Init /\ [][V!Guests!Next]_(V!Guests!vars) => []V!Guests!PassedIsClean
  BY V!PassedIsCleanAlways, Zenon
<1> HIDE DEF Here
<1> QED BY <1>1, <1>2, <1>3, <1>4, <1>5, PTL DEF Spec

(* The two instances of the strict proof say the same.                      *)
LEMMA SameStrict ==
    /\ Strict!Init = V!Strict!Init /\ Strict!Next = V!Strict!Next /\ Strict!vars = V!Strict!vars
    /\ Strict!StrictProofIsReal = V!Strict!StrictProofIsReal
<1>1. Strict!Init = V!Strict!Init
  BY Zenon DEF Strict!Init, V!Strict!Init
<1>2. Strict!Next = V!Strict!Next
  BY Zenon DEF Strict!ClientLines, V!Strict!ClientLines, Strict!ServerLines, V!Strict!ServerLines,
         Strict!Provider, V!Strict!Provider, Strict!Event, V!Strict!Event, Strict!Times,
         V!Strict!Times, Strict!Happened, V!Strict!Happened, Strict!Records, V!Strict!Records,
         Strict!PrintsNext, V!Strict!PrintsNext, Strict!ClientPrints, V!Strict!ClientPrints,
         Strict!Provable, V!Strict!Provable, Strict!ServerPrints, V!Strict!ServerPrints, Strict!LastOf, V!Strict!LastOf,
         Strict!Repeatable, V!Strict!Repeatable, Strict!ServerRepeats, V!Strict!ServerRepeats,
         Strict!Reads, V!Strict!Reads, Strict!ReadsClient, V!Strict!ReadsClient,
         Strict!ReadsServer, V!Strict!ReadsServer, Strict!ProviderRecords,
         V!Strict!ProviderRecords, Strict!Next, V!Strict!Next, Strict!Range, V!Strict!Range
<1>3. Strict!vars = V!Strict!vars
  BY Zenon DEF Strict!vars, V!Strict!vars
<1>4. Strict!StrictProofIsReal = V!Strict!StrictProofIsReal
  BY Zenon DEF Strict!Times, V!Strict!Times, Strict!Happened, V!Strict!Happened, Strict!Captured,
         V!Strict!Captured, Strict!Latest, V!Strict!Latest, Strict!Present, V!Strict!Present,
         Strict!OneShot, V!Strict!OneShot, Strict!RealTime, V!Strict!RealTime, Strict!Stored,
         V!Strict!Stored, Strict!writer_proofs, V!Strict!writer_proofs, Strict!AuthorityReads,
         V!Strict!AuthorityReads, Strict!AuthorityFences, V!Strict!AuthorityFences,
         Strict!authority_proofs, V!Strict!authority_proofs, Strict!bi_proofs,
         V!Strict!bi_proofs, Strict!StrictProofIsReal, V!Strict!StrictProofIsReal
<1> QED BY <1>1, <1>2, <1>3, <1>4, Zenon

(* What a strict persistency proof shows from the stamps of the console      *)
(* lines, for any lag and any number of mishaps: the authority read after the *)
(* store's success and its host fenced after the acquisition was first        *)
(* reported; the bytes left the writer after the unmap; on the writer's paths *)
(* only that the writer had reported when the begin of the store was read.   *)
THEOREM StrictProofAlways == Spec => []StrictProofIsReal
<1> DEFINE Here == part = "strict"
<1>1. Init /\ Here => V!Strict!Init
  BY SameStrict, Zenon DEF Init
<1>2. [Next]_vars => (Here' <=> Here) /\ (Here => [V!Strict!Next]_(V!Strict!vars))
  <2> SUFFICES ASSUME [Next]_vars
               PROVE  (Here' <=> Here) /\ (Here => [V!Strict!Next]_(V!Strict!vars))
    BY Zenon
  <2>1. part' = part /\ (part = "strict" => [Strict!Next]_(Strict!vars))
    BY PartSteps, Zenon
  <2>2. [Strict!Next]_(Strict!vars) = [V!Strict!Next]_(V!Strict!vars)
    BY SameStrict, Zenon DEF Strict!vars, V!Strict!vars
  <2> QED BY <2>1, <2>2, Zenon
<1>3. V!Strict!StrictProofIsReal => StrictProofIsReal
  BY SameStrict, Zenon DEF StrictProofIsReal
<1>4. ~Here => StrictProofIsReal
  BY Zenon DEF StrictProofIsReal
<1>5. V!Strict!Init /\ [][V!Strict!Next]_(V!Strict!vars) => []V!Strict!StrictProofIsReal
  BY V!StrictProofAlways, Zenon
<1> HIDE DEF Here
<1> QED BY <1>1, <1>2, <1>3, <1>4, <1>5, PTL DEF Spec

(* The two instances of the direct write say the same.                      *)
LEMMA SameDirect ==
    /\ Direct!Init = V!Direct!Init /\ Direct!Next = V!Direct!Next /\ Direct!vars = V!Direct!vars
    /\ Direct!TakenBackAfterUnmap = V!Direct!TakenBackAfterUnmap
<1>1. Direct!Init = V!Direct!Init
  BY Zenon DEF Direct!Init, V!Direct!Init
<1>2. Direct!Next = V!Direct!Next
  BY Zenon DEF Direct!Ops, V!Direct!Ops, Direct!Happened, V!Direct!Happened, Direct!At, V!Direct!At,
         Direct!Event, V!Direct!Event, Direct!Records, V!Direct!Records,
         Direct!Happens, V!Direct!Happens, Direct!OneOdd, V!Direct!OneOdd, Direct!Attempts,
         V!Direct!Attempts, Direct!Drops, V!Direct!Drops, Direct!Unmaps, V!Direct!Unmaps, Direct!Begins, V!Direct!Begins, Direct!Succeeds, V!Direct!Succeeds,
         Direct!Captures, V!Direct!Captures, Direct!Snoops, V!Direct!Snoops, Direct!Acks,
         V!Direct!Acks, Direct!Completes, V!Direct!Completes, Direct!Next, V!Direct!Next
<1>3. Direct!vars = V!Direct!vars
  BY Zenon DEF Direct!vars, V!Direct!vars
<1>4. Direct!TakenBackAfterUnmap = V!Direct!TakenBackAfterUnmap
  BY Zenon DEF Direct!Ops, V!Direct!Ops, Direct!Happened, V!Direct!Happened, Direct!At, V!Direct!At,
         Direct!Attempts, V!Direct!Attempts, Direct!GoodSnoop, V!Direct!GoodSnoop,
         Direct!Finished, V!Direct!Finished,
         Direct!correlate_dirty_backinvalidations, V!Direct!correlate_dirty_backinvalidations,
         Direct!Ordered, V!Direct!Ordered, Direct!validate_host_capture_order,
         V!Direct!validate_host_capture_order, Direct!TakenBackAfterUnmap,
         V!Direct!TakenBackAfterUnmap
<1> QED BY <1>1, <1>2, <1>3, <1>4, Zenon

(* validate_host_capture_order, for any mappings and lines:                 *)
(* evidence it accepts is of modified bytes of the operation's own mapping, *)
(* that were taken back from node1, completely, after a drop or an unmap of *)
(* it, which is the successful one when there is no other.                  *)
THEOREM TakenBackAlways == Spec => []TakenBackAfterUnmap
<1> DEFINE Here == part = "direct"
<1>1. Init /\ Here => V!Direct!Init
  BY SameDirect, Zenon DEF Init
<1>2. [Next]_vars => (Here' <=> Here) /\ (Here => [V!Direct!Next]_(V!Direct!vars))
  <2> SUFFICES ASSUME [Next]_vars
               PROVE  (Here' <=> Here) /\ (Here => [V!Direct!Next]_(V!Direct!vars))
    BY Zenon
  <2>1. part' = part /\ (part = "direct" => [Direct!Next]_(Direct!vars))
    BY PartSteps, Zenon
  <2>2. [Direct!Next]_(Direct!vars) = [V!Direct!Next]_(V!Direct!vars)
    BY SameDirect, Zenon DEF Direct!vars, V!Direct!vars
  <2> QED BY <2>1, <2>2, Zenon
<1>3. V!Direct!TakenBackAfterUnmap => TakenBackAfterUnmap
  BY SameDirect, Zenon DEF TakenBackAfterUnmap
<1>4. ~Here => TakenBackAfterUnmap
  BY Zenon DEF TakenBackAfterUnmap
<1>5. V!Direct!Init /\ [][V!Direct!Next]_(V!Direct!vars) => []V!Direct!TakenBackAfterUnmap
  BY V!TakenBackAlways, Zenon
<1> HIDE DEF Here
<1> QED BY <1>1, <1>2, <1>3, <1>4, <1>5, PTL DEF Spec

(* The build manifest and the one of the proofs say the same.               *)
LEMMA SameBuild ==
    /\ Build!Init = V!Init /\ Build!Next = V!Next /\ Build!vars = V!vars
    /\ Build!RecordedFilesCoexist = V!RecordedFilesCoexist
<1>1. Build!Init = V!Init
  BY Zenon DEF Build!Init, V!Init, Build!Writers, V!Writers, Build!Artifacts, V!Artifacts,
         Build!Entry, V!Entry, Build!Hashes, V!Hashes, Build!Sizes, V!Sizes, Build!Content,
         V!Content, Build!Whole, V!Whole, Build!NoFile, V!NoFile, Build!NotReading, V!NotReading
<1>2. Build!Next = V!Next
  BY Zenon DEF Build!Next, V!Next, Build!PayloadBegins, V!PayloadBegins, Build!PayloadChecks,
         V!PayloadChecks, Build!PayloadInstalls, V!PayloadInstalls, Build!PayloadRecords,
         V!PayloadRecords, Build!PayloadRechecks, V!PayloadRechecks, Build!ServerBegins,
         V!ServerBegins, Build!ServerInstalls, V!ServerInstalls, Build!ServerReads,
         V!ServerReads, Build!ServerRecords, V!ServerRecords, Build!Opens, V!Opens,
         Build!Writes, V!Writes, Build!Replaces, V!Replaces, Build!WriteFails, V!WriteFails,
         Build!Unlinks, V!Unlinks, Build!Exits, V!Exits, Build!Killed, V!Killed, Build!Load,
         V!Load, Build!Verify, V!Verify, Build!Reads, V!Reads, Build!Writers, V!Writers,
         Build!At, V!At, Build!Begins, V!Begins, Build!Ends, V!Ends, Build!Install, V!Install,
         Build!Record, V!Record, Build!Order, V!Order, Build!Entry, V!Entry, Build!Sizes,
         V!Sizes, Build!Content, V!Content, Build!NoFile, V!NoFile, Build!Torn, V!Torn,
         Build!Partial, V!Partial, Build!Whole, V!Whole, Build!NotReading, V!NotReading,
         Build!Artifacts, V!Artifacts, Build!PlatformUnchanged, V!PlatformUnchanged,
         Build!Behind, V!Behind, Build!PutBehind, V!PutBehind, Build!Verifies, V!Verifies,
         Build!Accepted, V!Accepted
<1>3. Build!vars = V!vars
  BY Zenon DEF Build!vars, V!vars
<1>4. Build!RecordedFilesCoexist = V!RecordedFilesCoexist
  BY Zenon DEF Build!RecordedFilesCoexist, V!RecordedFilesCoexist, Build!Accepted, V!Accepted,
         Build!Artifacts, V!Artifacts, Build!Entry, V!Entry
<1> QED BY <1>1, <1>2, <1>3, <1>4, Zenon

(* The files that an accepted manifest gives a hash were on the             *)
(* disk together, and a payload rebuild that succeeds has recorded the CXL   *)
(* server it began with, wherever the rebuilds are killed.                   *)
THEOREM CoexistAlways == Spec => []RecordedFilesCoexist
<1> DEFINE Here == part = "build"
<1>1. Init /\ Here => V!Init
  BY SameBuild, Zenon DEF Init
<1>2. [Next]_vars => (Here' <=> Here) /\ (Here => [V!Next]_(V!vars))
  <2> SUFFICES ASSUME [Next]_vars
               PROVE  (Here' <=> Here) /\ (Here => [V!Next]_(V!vars))
    BY Zenon
  <2>1. part' = part /\ (part = "build" => [Build!Next]_(Build!vars))
    BY PartSteps, Zenon
  <2>2. [Build!Next]_(Build!vars) = [V!Next]_(V!vars)
    BY SameBuild, Zenon DEF Build!vars, V!vars
  <2> QED BY <2>1, <2>2, Zenon
<1>3. V!RecordedFilesCoexist => RecordedFilesCoexist
  BY SameBuild, Zenon DEF RecordedFilesCoexist
<1>4. ~Here => RecordedFilesCoexist
  BY Zenon DEF RecordedFilesCoexist
<1>5. V!Init /\ [][V!Next]_(V!vars) => []V!RecordedFilesCoexist
  BY V!CoexistAlways, Zenon DEF V!Spec
<1> HIDE DEF Here
<1> QED BY <1>1, <1>2, <1>3, <1>4, <1>5, PTL DEF Spec

-----------------------------------------------------------------------------
(* The audit, of which Io500RunProofs proves the same for it on its own.    *)
(* Its other subject, the IO500 run, is of no concern here.                 *)
CONSTANTS ServerCount, ClientCount
VARIABLES role, at, raised, first, result, status, failure, boot, start, proc, asked, stats, stuck,
          printed, read, faults
A == INSTANCE Io500RunProofs

(* The two instances of the audit say the same.                             *)
LEMMA SamePayload ==
    /\ Payload!Init = A!Payload!Init /\ Payload!Next = A!Payload!Next /\ Payload!vars = A!Payload!vars
    /\ Payload!DurableWhenAudited = A!Payload!DurableWhenAudited
<1>1. Payload!Init = A!Payload!Init
  BY Zenon DEF Payload!Init, A!Payload!Init
<1>2. Payload!Next = A!Payload!Next
  BY Zenon DEF Payload!Deferring, A!Payload!Deferring, Payload!Init, A!Payload!Init,
         Payload!Are, A!Payload!Are, Payload!Count, A!Payload!Count, Payload!Moved,
         A!Payload!Moved, Payload!CommitPersisted, A!Payload!CommitPersisted,
         Payload!CommitDeferred, A!Payload!CommitDeferred, Payload!WriterPersists,
         A!Payload!WriterPersists, Payload!ReceiptArrives, A!Payload!ReceiptArrives,
         Payload!ReceiptLost, A!Payload!ReceiptLost, Payload!AuthorityAcquires,
         A!Payload!AuthorityAcquires, Payload!AuthorityPersists, A!Payload!AuthorityPersists,
         Payload!AuthorityCloses, A!Payload!AuthorityCloses, Payload!Faults, A!Payload!Faults,
         Payload!PersistLeftOut, A!Payload!PersistLeftOut, Payload!ClosedWithoutReceipt,
         A!Payload!ClosedWithoutReceipt, Payload!CommitUnpersisted, A!Payload!CommitUnpersisted, Payload!Next, A!Payload!Next, Payload!Cardinality,
         A!Payload!Cardinality, Payload!IsFiniteSet, A!Payload!IsFiniteSet
<1>3. Payload!vars = A!Payload!vars
  BY Zenon DEF Payload!vars, A!Payload!vars
<1>4. Payload!DurableWhenAudited = A!Payload!DurableWhenAudited
  BY Zenon DEF Payload!Are, A!Payload!Are, Payload!Count, A!Payload!Count, Payload!Audit,
         A!Payload!Audit, Payload!Provider, A!Payload!Provider, Payload!WriterComplete,
         A!Payload!WriterComplete, Payload!WriterHostReceiptComplete,
         A!Payload!WriterHostReceiptComplete, Payload!AuthorityComplete,
         A!Payload!AuthorityComplete, Payload!AuthorityOwned, A!Payload!AuthorityOwned,
         Payload!OwnerIgnoringPending, A!Payload!OwnerIgnoringPending,
         Payload!OwnerIsSatisfied, A!Payload!OwnerIsSatisfied, Payload!AuditPasses,
         A!Payload!AuditPasses, Payload!Deferring, A!Payload!Deferring,
         Payload!DurableWhenAudited, A!Payload!DurableWhenAudited, Payload!Cardinality,
         A!Payload!Cardinality, Payload!IsFiniteSet, A!Payload!IsFiniteSet
<1> QED BY <1>1, <1>2, <1>3, <1>4, Zenon

(* lifecycle_payload_persistence_evidence, for any finite set of writes: when *)
(* the counters pass the audit, every payload is durable that was counted as *)
(* persisted or left a dependency (a write committed with neither escapes it, *)
(* under WRITER_BEFORE_VISIBILITY only if a provider barrier was counted);   *)
(* and a server that left no step out fails it only while a dependency is    *)
(* open or after a rejected receipt.                                         *)
THEOREM DurableAlways == Spec => []DurableWhenAudited
<1> DEFINE Here == part = "audit"
<1>1. Init /\ Here => A!Payload!Init
  BY SamePayload, Zenon DEF Init
<1>2. [Next]_vars => (Here' <=> Here) /\ (Here => [A!Payload!Next]_(A!Payload!vars))
  <2> SUFFICES ASSUME [Next]_vars
               PROVE  (Here' <=> Here) /\ (Here => [A!Payload!Next]_(A!Payload!vars))
    BY Zenon
  <2>1. part' = part /\ (part = "audit" => [Payload!Next]_(Payload!vars))
    BY PartSteps, Zenon
  <2>2. [Payload!Next]_(Payload!vars) = [A!Payload!Next]_(A!Payload!vars)
    BY SamePayload, Zenon DEF Payload!vars, A!Payload!vars
  <2> QED BY <2>1, <2>2, Zenon
<1>3. A!Payload!DurableWhenAudited => DurableWhenAudited
  BY SamePayload, Zenon DEF DurableWhenAudited
<1>4. ~Here => DurableWhenAudited
  BY Zenon DEF DurableWhenAudited
<1>5. A!Payload!Init /\ [][A!Payload!Next]_(A!Payload!vars) => []A!Payload!DurableWhenAudited
  <2>1. A!IsFiniteSet(Items)
    BY ItemsAssumption, Zenon DEF A!IsFiniteSet, IsFiniteSet
  <2> QED BY <2>1, A!DurableAlways, Zenon
<1> HIDE DEF Here
<1> QED BY <1>1, <1>2, <1>3, <1>4, <1>5, PTL DEF Spec

=============================================================================
