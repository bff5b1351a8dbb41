------------------------------- MODULE Seqlock -------------------------------
(***************************************************************************)
(* The same-cacheline phase of scripts/giga_2c1s_coherence.c: the server   *)
(* is the only writer of a snapshot guarded by a sequence counter, and the *)
(* clients read it without a lock until the server says stop, then once    *)
(* more.  Every atomic access is a step.  The relaxed accesses to the      *)
(* words of one snapshot may happen in any order; the accesses to the      *)
(* counter are ordered against them (the odd store is SEQ_CST, the even    *)
(* one a release, the reader's loads acquires with a fence between), which *)
(* is what the x86 build of run_giga_2c1s_coherence.sh gives.              *)
(***************************************************************************)
EXTENDS Integers

CONSTANTS
    Clients,    \* the reading clients (two in the code)
    Words,      \* the words of the snapshot (seven in the code)
    Updates     \* seqlock_updates

VARIABLES
    seq,        \* snapshot.seq
    word,       \* snapshot.word[w], as the version it belongs to
    version,    \* the server's loop variable
    unwritten,  \* words the update in progress has still to store
    stop,       \* seqlock_stop
    rpc,        \* per client: where it is in its read loop
    first,      \* per client: the counter snapshot_try_read loaded first
    value,      \* per client: the words it has copied, as versions
    unread,     \* per client: words it has still to copy
    last,       \* per client: whether it has seen stop
    accepted,   \* per client: the version of its last accepted snapshot, -1 if none
    torn        \* per client: whether an accepted snapshot mixed versions

serverVars == <<seq, word, version, unwritten, stop>>
clientVars == <<rpc, first, value, unread, last, accepted, torn>>
vars == <<serverVars, clientVars>>

Init ==
    /\ seq = 0
    /\ word = [w \in Words |-> 0]
    /\ version = 1
    /\ unwritten = {}
    /\ stop = FALSE
    /\ rpc = [c \in Clients |-> "loop"]
    /\ first = [c \in Clients |-> 0]
    /\ value = [c \in Clients |-> [w \in Words |-> 0]]
    /\ unread = [c \in Clients |-> {}]
    /\ last = [c \in Clients |-> FALSE]
    /\ accepted = [c \in Clients |-> -1]
    /\ torn = [c \in Clients |-> FALSE]

-----------------------------------------------------------------------------
(* The server's update loop.                                                *)

(* __atomic_store_n(&snapshot.seq, 2 * version - 1, SEQ_CST)                *)
OpenUpdate ==
    /\ version <= Updates
    /\ seq = 2 * version - 2
    /\ seq' = 2 * version - 1
    /\ unwritten' = Words
    /\ UNCHANGED <<word, version, stop>>
    /\ UNCHANGED clientVars

StoreWord(w) ==
    /\ w \in unwritten
    /\ word' = [word EXCEPT ![w] = version]
    /\ unwritten' = unwritten \ {w}
    /\ UNCHANGED <<seq, version, stop>>
    /\ UNCHANGED clientVars

(* store_release(&snapshot.seq, 2 * version)                                *)
CloseUpdate ==
    /\ seq = 2 * version - 1
    /\ unwritten = {}
    /\ seq' = 2 * version
    /\ version' = version + 1
    /\ UNCHANGED <<word, unwritten, stop>>
    /\ UNCHANGED clientVars

(* Mutant: the server says stop before its last update.                     *)
SetStopEarly ==
    /\ version >= Updates
    /\ stop = FALSE
    /\ stop' = TRUE
    /\ UNCHANGED <<seq, word, version, unwritten>>
    /\ UNCHANGED clientVars

(* store_release(&control->seqlock_stop.value, 1)                           *)
SetStop ==
    /\ version > Updates
    /\ stop = FALSE
    /\ stop' = TRUE
    /\ UNCHANGED <<seq, word, version, unwritten>>
    /\ UNCHANGED clientVars

-----------------------------------------------------------------------------
(* A client's read loop: while (!stop) try; then try until one succeeds.    *)

CheckStop(c) ==
    /\ rpc[c] = "loop"
    /\ last' = [last EXCEPT ![c] = stop]
    /\ rpc' = [rpc EXCEPT ![c] = "first"]
    /\ UNCHANGED serverVars
    /\ UNCHANGED <<first, value, unread, accepted, torn>>

(* snapshot_try_read returns: its locals are gone.                          *)
DropLocals(c) ==
    /\ first' = [first EXCEPT ![c] = 0]
    /\ value' = [value EXCEPT ![c] = [w \in Words |-> 0]]

(* A failed try: the next one, after stop only if it has been seen.         *)
Retry(c) ==
    /\ rpc' = [rpc EXCEPT ![c] = IF last[c] THEN "first" ELSE "loop"]
    /\ DropLocals(c)
    /\ UNCHANGED <<unread, last, accepted, torn>>

LoadFirst(c) ==
    /\ rpc[c] = "first"
    /\ \/ /\ seq % 2 = 1
          /\ Retry(c)
       \/ /\ seq % 2 = 0
          /\ first' = [first EXCEPT ![c] = seq]
          /\ unread' = [unread EXCEPT ![c] = Words]
          /\ rpc' = [rpc EXCEPT ![c] = "words"]
          /\ UNCHANGED <<value, last, accepted, torn>>
    /\ UNCHANGED serverVars

LoadWord(c, w) ==
    /\ rpc[c] = "words"
    /\ w \in unread[c]
    /\ value' = [value EXCEPT ![c] = [@ EXCEPT ![w] = word[w]]]
    /\ unread' = [unread EXCEPT ![c] = @ \ {w}]
    /\ UNCHANGED serverVars
    /\ UNCHANGED <<rpc, first, last, accepted, torn>>

(* Mutant: the second load only looks for an update in progress.            *)
LoadSecondParity(c) ==
    /\ rpc[c] = "words"
    /\ unread[c] = {}
    /\ \/ seq % 2 = 1 /\ Retry(c)
       \/ /\ seq % 2 = 0
          /\ accepted' = [accepted EXCEPT ![c] = seq \div 2]
          /\ torn' = [torn EXCEPT ![c] = @ \/ \E w \in Words : 2 * value[c][w] # seq]
          /\ rpc' = [rpc EXCEPT ![c] = IF last[c] THEN "done" ELSE "loop"]
          /\ DropLocals(c)
          /\ UNCHANGED <<unread, last>>
    /\ UNCHANGED serverVars

(* The second load of the counter: retry unless it is the first one; else   *)
(* the copy counts as the snapshot of version second / 2, and the words are *)
(* compared with that version's.                                            *)
LoadSecond(c) ==
    /\ rpc[c] = "words"
    /\ unread[c] = {}
    /\ \/ seq # first[c] /\ Retry(c)
       \/ /\ seq = first[c]
          /\ accepted' = [accepted EXCEPT ![c] = seq \div 2]
          /\ torn' = [torn EXCEPT ![c] = @ \/ \E w \in Words : 2 * value[c][w] # seq]
          /\ rpc' = [rpc EXCEPT ![c] = IF last[c] THEN "done" ELSE "loop"]
          /\ DropLocals(c)
          /\ UNCHANGED <<unread, last>>
    /\ UNCHANGED serverVars

Server == OpenUpdate \/ (\E w \in Words : StoreWord(w)) \/ CloseUpdate \/ SetStop
Client(c) ==
    CheckStop(c) \/ LoadFirst(c) \/ (\E w \in Words : LoadWord(c, w)) \/ LoadSecond(c)
Next == Server \/ \E c \in Clients : Client(c)

(* The three processes are pinned to CPUs of their own: each keeps running. *)
Spec == Init /\ [][Next]_vars /\ WF_vars(Server) /\ \A c \in Clients : WF_vars(Client(c))

-----------------------------------------------------------------------------
TypeOK ==
    /\ seq \in 0 .. 2 * Updates
    /\ word \in [Words -> 0 .. Updates]
    /\ version \in 1 .. Updates + 1
    /\ unwritten \in SUBSET Words
    /\ stop \in BOOLEAN
    /\ rpc \in [Clients -> {"loop", "first", "words", "done"}]
    /\ first \in [Clients -> 0 .. 2 * Updates]
    /\ value \in [Clients -> [Words -> 0 .. Updates]]
    /\ unread \in [Clients -> SUBSET Words]
    /\ last \in [Clients -> BOOLEAN]
    /\ accepted \in [Clients -> -1 .. Updates]
    /\ torn \in [Clients -> BOOLEAN]

(* No client ever accepts a snapshot whose words do not all belong to the   *)
(* version its counter names (snapshot_try_read's *errors stays zero).      *)
NoTornSnapshot == \A c \in Clients : ~torn[c]

(* A client that is done has accepted the last version: the read after stop *)
(* cannot return an older one.                                              *)
LastReadIsFinal == \A c \in Clients : rpc[c] = "done" => accepted[c] = Updates

(* The versions a client accepts never go backwards.                        *)
SnapshotsMonotonic ==
    [][\A c \in Clients : accepted'[c] >= accepted[c]]_vars

-----------------------------------------------------------------------------
(* The inductive invariant.                                                 *)

(* The counter and the words follow the server's loop.                      *)
WriterInv ==
    /\ seq \in {2 * version - 2, 2 * version - 1}
    /\ seq = 2 * version - 2 => unwritten = {}
    /\ version = Updates + 1 => seq = 2 * Updates
    /\ \A w \in Words :
          word[w] = IF seq = 2 * version - 1 /\ w \notin unwritten
                    THEN version ELSE version - 1
    /\ stop => version = Updates + 1

(* While the counter is what a client loaded first, the words it has copied *)
(* since are of that version; the counter never falls below what was loaded *)
(* or accepted.                                                             *)
ReaderInv(c) ==
    /\ first[c] <= seq
    /\ 2 * accepted[c] <= seq
    /\ rpc[c] = "words" =>
          /\ \E k \in 0 .. Updates : first[c] = 2 * k
          /\ seq = first[c] => \A w \in Words \ unread[c] : 2 * value[c][w] = first[c]
          /\ 2 * accepted[c] <= first[c]
    /\ last[c] => stop
    /\ last[c] /\ rpc[c] = "words" => first[c] = 2 * Updates
    /\ rpc[c] = "done" => accepted[c] = Updates

IInv ==
    /\ TypeOK
    /\ WriterInv
    /\ \A c \in Clients : ReaderInv(c)
    /\ NoTornSnapshot
=============================================================================
