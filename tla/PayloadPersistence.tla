------------------------- MODULE PayloadPersistence -------------------------
(***************************************************************************)
(* The audit of a LegoFS server's payload durability counters              *)
(* (lifecycle_payload_persistence_evidence in legofs_io500.py), taken at    *)
(* any time while the server works.  The server is external and modelled   *)
(* from the counters the audit relates: a direct write is persisted before *)
(* it becomes visible, or leaves a dependency that is closed later, by a   *)
(* receipt of the writing host or by a job of the authority, which first   *)
(* acquires the data and then persists it.  A job's bytes go with its      *)
(* ranges, and are not counted again.  A server at fault leaves a step of   *)
(* persisting out, and does not count it: the persist of a job, a receipt,  *)
(* or everything (a write is committed with no persist and no dependency).  *)
(***************************************************************************)
EXTENDS Naturals, FiniteSets

CONSTANTS
    Items,        \* the direct writes of a run
    Owners,       \* the payload persistence owners it may be configured with
    MaxReceipts,  \* bound: receipts rejected, and receipts counted as duplicates
    MaxFaults     \* bound: steps a faulty server leaves out

VARIABLES
    owner,
    item,       \* item -> where the server is with it
    durable,    \* the items whose payload is persistent
    sent,       \* items a receipt is under way for; delivery may repeat or lose it
    counts      \* the counters that item does not determine
vars == <<owner, item, durable, sent, counts>>

Deferring == {"AUTHORITY_BI_ACQUIRE", "WRITER_RECEIPT", "PLACEMENT_ROUTED"}

Init ==
    /\ owner \in Owners
    /\ item = [i \in Items |-> "none"]
    /\ durable = {} /\ sent = {}
    /\ counts = [acquireJobs |-> 0, acquireRanges |-> 0, persistJobs |-> 0,
                 persistRanges |-> 0, barriers |-> 0, duplicate |-> 0, rejected |-> 0,
                 faults |-> 0]   \* no counter of the server

Are(states) == { i \in Items : item[i] \in states }
Count(states) == Cardinality(Are(states))
Moved(S, to) == item' = [i \in Items |-> IF i \in S THEN to ELSE item[i]]

(* A write that is persistent before it is visible: by its writer, or by a   *)
(* barrier of the provider.                                                  *)
CommitPersisted(i) ==
    /\ owner = "WRITER_BEFORE_VISIBILITY" /\ item[i] = "none"
    /\ durable' = durable \cup {i}
    /\ \/ Moved({i}, "writer") /\ UNCHANGED counts
       \/ Moved({i}, "provider") /\ counts' = [counts EXCEPT !.barriers = @ + 1]
    /\ UNCHANGED <<owner, sent>>

(* One that is visible first, with the path that is to persist it.           *)
CommitDeferred(i) ==
    /\ item[i] = "none"
    /\ \/ owner \in {"WRITER_RECEIPT", "PLACEMENT_ROUTED"} /\ Moved({i}, "byWriter")
       \/ owner \in {"AUTHORITY_BI_ACQUIRE", "PLACEMENT_ROUTED"} /\ Moved({i}, "byAuthority")
    /\ UNCHANGED <<owner, durable, sent, counts>>

WriterPersists(i) ==
    /\ item[i] = "byWriter" /\ i \notin sent
    /\ durable' = durable \cup {i} /\ sent' = sent \cup {i}
    /\ UNCHANGED <<owner, item, counts>>
ReceiptArrives(i) ==
    /\ i \in sent
    /\ \/ item[i] = "byWriter" /\ Moved({i}, "closedWriter") /\ UNCHANGED counts
       \/ /\ item[i] = "byWriter" /\ counts.rejected < MaxReceipts
          /\ counts' = [counts EXCEPT !.rejected = @ + 1] /\ UNCHANGED item
       \/ /\ item[i] \in {"closedWriter", "closedUnreceipted"} /\ counts.duplicate < MaxReceipts
          /\ counts' = [counts EXCEPT !.duplicate = @ + 1] /\ UNCHANGED item
    /\ sent' \in {sent, sent \ {i}}
    /\ UNCHANGED <<owner, durable>>
ReceiptLost(i) == i \in sent /\ sent' = sent \ {i} /\ UNCHANGED <<owner, item, durable, counts>>

(* A job of the authority: acquire, persist, close one after the other.      *)
AuthorityAcquires ==
    /\ Are({"acquired", "persisted"}) = {}
    /\ \E S \in (SUBSET Are({"byAuthority"})) \ {{}} :
        /\ Moved(S, "acquired")
        /\ counts' = [counts EXCEPT !.acquireJobs = @ + 1,
                                    !.acquireRanges = @ + Cardinality(S)]
    /\ UNCHANGED <<owner, durable, sent>>
AuthorityPersists ==
    LET S == Are({"acquired"}) IN
    /\ S # {} /\ Moved(S, "persisted") /\ durable' = durable \cup S
    /\ counts' = [counts EXCEPT !.persistJobs = @ + 1, !.barriers = @ + 1,
                                !.persistRanges = @ + Cardinality(S)]
    /\ UNCHANGED <<owner, sent>>
AuthorityCloses(i) ==
    /\ item[i] = "persisted" /\ Moved({i}, "closedAuthority")
    /\ UNCHANGED <<owner, durable, sent, counts>>

Faults == counts.faults < MaxFaults /\ counts' = [counts EXCEPT !.faults = @ + 1]
PersistLeftOut ==
    /\ Faults /\ Are({"acquired"}) # {} /\ Moved(Are({"acquired"}), "persisted")
    /\ UNCHANGED <<owner, durable, sent>>
ClosedWithoutReceipt(i) ==
    /\ Faults /\ item[i] = "byWriter" /\ Moved({i}, "closedUnreceipted")
    /\ UNCHANGED <<owner, durable, sent>>

CommitUnpersisted(i) ==
    /\ Faults /\ item[i] = "none" /\ Moved({i}, "skipped")
    /\ UNCHANGED <<owner, durable, sent>>

Next ==
    \/ \E i \in Items :
        \/ CommitPersisted(i) \/ CommitDeferred(i) \/ WriterPersists(i)
        \/ ReceiptArrives(i) \/ ReceiptLost(i) \/ AuthorityCloses(i)
        \/ ClosedWithoutReceipt(i) \/ CommitUnpersisted(i)
    \/ AuthorityAcquires \/ AuthorityPersists \/ PersistLeftOut
Spec == Init /\ [][Next]_vars

-----------------------------------------------------------------------------
(* The counters an inspection reads.                                         *)
Audit ==
    [direct |-> Cardinality(Items) - Count({"none"}),
     writer |-> Count({"writer"}),
     receipts |-> Count({"closedWriter"}),
     pending |-> Count({"byWriter", "byAuthority", "acquired", "persisted"}),
     created |-> Cardinality(Items) - Count({"none", "writer", "provider", "skipped"}),
     completed |-> Count({"closedWriter", "closedUnreceipted", "closedAuthority"}),
     byAuthority |-> Count({"closedAuthority"}),
     byWriter |-> Count({"closedWriter", "closedUnreceipted"})]

Provider == counts.barriers > 0
WriterComplete(a) == a.direct > 0 /\ a.writer = a.direct
WriterHostReceiptComplete(a) ==
    a.byWriter > 0 /\ a.receipts = a.byWriter /\ counts.rejected = 0 /\ a.pending = 0
AuthorityComplete ==
    /\ counts.acquireJobs > 0 /\ counts.persistJobs = counts.acquireJobs
    /\ counts.acquireRanges = counts.persistRanges /\ counts.persistRanges > 0
AuthorityOwned(a) ==
    a.byAuthority > 0 => Provider /\ AuthorityComplete /\ counts.acquireRanges >= a.byAuthority

(* Mutant: whether anything is pending is not looked at.                     *)
OwnerIgnoringPending(a) ==
    /\ owner = "AUTHORITY_BI_ACQUIRE" => a.byWriter = 0 /\ a.receipts = 0 /\ AuthorityOwned(a)
    /\ owner = "WRITER_RECEIPT" => a.byAuthority = 0 /\ counts.rejected = 0
    /\ owner = "PLACEMENT_ROUTED" =>
            counts.rejected = 0 /\ a.receipts = a.byWriter /\ AuthorityOwned(a)
    /\ owner \notin Deferring => a.created = 0

(* What each owner adds to the balance of the counters.                      *)
OwnerIsSatisfied(a) ==
    /\ owner = "AUTHORITY_BI_ACQUIRE" =>
            /\ a.byWriter = 0 /\ a.receipts = 0 /\ counts.duplicate = 0 /\ counts.rejected = 0
            /\ a.pending = 0 /\ AuthorityOwned(a)
    /\ owner = "WRITER_RECEIPT" =>
            /\ counts.acquireJobs = 0 /\ counts.persistJobs = 0 /\ a.byAuthority = 0
            /\ a.created > 0 => WriterHostReceiptComplete(a)
    /\ owner = "PLACEMENT_ROUTED" =>
            /\ a.pending = 0 /\ counts.rejected = 0 /\ a.receipts = a.byWriter
            /\ AuthorityOwned(a)
            /\ a.created > 0 => a.byAuthority > 0 \/ a.byWriter > 0
    /\ owner \notin Deferring =>
            /\ counts.acquireJobs = 0 /\ counts.persistJobs = 0 /\ a.created = 0
            /\ a.direct > 0 => Provider \/ WriterComplete(a)

AuditPasses ==
    LET a == Audit IN
    /\ a.created = a.completed + a.pending
    /\ a.completed = a.byAuthority + a.byWriter
    /\ a.writer <= a.direct
    /\ counts.acquireJobs > 0 => AuthorityComplete
    /\ a.receipts <= a.direct - a.writer
    /\ OwnerIsSatisfied(a)

(* Whenever a server is inspected and the audit passes, every payload that   *)
(* was counted as persisted or left a dependency is durable, whichever step   *)
(* was left out; so all that can be missing is a write committed with no      *)
(* persist and no dependency.  Under WRITER_BEFORE_VISIBILITY even that is    *)
(* found as long as no provider barrier is counted: one barrier vouches for   *)
(* all direct items.  And the audit of a server that left nothing out fails   *)
(* only while a dependency is open or after a receipt was rejected.          *)
DurableWhenAudited ==
    /\ AuditPasses =>
        /\ Items \ durable \subseteq Are({"none", "skipped"})
        /\ owner \notin Deferring /\ ~Provider => Are({"skipped"}) = {}
    /\ ~AuditPasses /\ counts.faults = 0 =>
        counts.rejected > 0 \/ Are({"byWriter", "byAuthority", "acquired", "persisted"}) # {}
=============================================================================
