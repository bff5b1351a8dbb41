-------------------------- MODULE ValidatorProofs ---------------------------
(***************************************************************************)
(* What four of the validators conclude is what happened, for any bounds.  *)
(* Each section declares the state of one validator and its evidence.      *)
(*                                                                         *)
(* The build manifest, for any number of rebuilds: the files that a reader *)
(* accepts by hash were on the disk together, and a payload rebuild        *)
(* succeeds only with the server it began with.  Installed versions only   *)
(* grow, and every document, wherever it is on its way, names versions     *)
(* that were installed before.  So a version that is still there when it   *)
(* is verified was there when the first artifact was, and one that lies    *)
(* between the version at the beginning and an equal one at the end is     *)
(* that version.                                                           *)
(*                                                                         *)
(* The strict persistency proof: a console line is captured after what it  *)
(* reports, so an order that holds between the first event of a trace and  *)
(* the last capture of a line holds between the events.                    *)
(*                                                                         *)
(* The evidence of a direct write: a guest prints that it unmapped after   *)
(* it has, once for each operation, so a snoop after the captured line is  *)
(* after the unmap.                                                        *)
(*                                                                         *)
(* The evidence of the guests: a summary is the last record of its guest   *)
(* and carries all the errors it counted, so a run that is passed on two   *)
(* clean summaries had none, whatever was cut out of the consoles.         *)
(***************************************************************************)
EXTENDS BuildManifest, Sequences, TLAPS

(* The indices of a sequence, and what an element appended to it changes.   *)
LEMMA Indices ==
    ASSUME NEW S, NEW s \in Seq(S)
    PROVE  DOMAIN s = 1 .. Len(s)
OBVIOUS

(* Every index of the longer sequence is an old one or the last.            *)
LEMMA Appended ==
    ASSUME NEW S, NEW s \in Seq(S), NEW x \in S, NEW t, t = Append(s, x), NEW i \in 1 .. Len(t)
    PROVE  \/ i \in 1 .. Len(s) /\ t[i] = s[i]
           \/ t[i] = x
OBVIOUS

(* One of several sequences grows.                                          *)
LEMMA OneGrows ==
    ASSUME NEW D, NEW S, NEW f \in [D -> Seq(S)], NEW d \in D, NEW x \in S
    PROVE  [f EXCEPT ![d] = Append(@, x)] \in [D -> Seq(S)]
OBVIOUS

(* Two different places in the order of a third.                            *)
LEMMA Between ==
    ASSUME NEW n \in Nat, NEW i \in 1 .. n, NEW j \in 1 .. n, NEW k \in 1 .. n,
           i <= j, j <= k, i # j
    PROVE  i < k
OBVIOUS

Docs == [Artifacts -> [version : Nat, hashed : BOOLEAN]]
Contents ==
    [state : {"none", "torn", "partial", "whole"}, by : Writers \cup {"nobody"}, doc : Docs]
Places ==
    {"idle", "built", "checked", "image", "read", "record", "record1", "record2", "record3",
     "open", "write", "flush", "replace", "unlink", "recheck", "done"}

TypeOK ==
    /\ files \in [Artifacts -> Nat] /\ builds \in Nat /\ before \in Nat
    /\ manifest \in Contents /\ tmp \in Contents
    /\ pc \in [Writers -> Places]
    /\ fd \in [Writers -> {"tmp", "manifest", "gone"}]
    /\ draft \in [Writers -> Docs]
    /\ reader \in [pc : 0 .. 4, doc : Docs, strict : BOOLEAN, seen : [Artifacts -> Nat]]

(* A document names only versions that have been installed.                  *)
Past(doc) == \A a \in Artifacts : doc[a].version <= files[a]

Monotone ==
    /\ \A a \in Artifacts : files[a] <= builds
    /\ before <= files["cxlmemsim_server"]
    /\ Past(manifest.doc) /\ Past(tmp.doc) /\ Past(reader.doc)
    /\ \A w \in Writers : Past(draft[w])

(* What the reader has verified was there at its first look.                 *)
ReaderInv ==
    /\ reader.pc >= 2 => \A a \in Artifacts :
            reader.doc[a].version <= reader.seen[a] /\ reader.seen[a] <= files[a]
    /\ \A j \in 1 .. 3 : reader.pc > j /\ reader.doc[Order[j]].hashed =>
            reader.doc[Order[j]].version = reader.seen[Order[j]]

(* The server a payload rebuild has recorded is no older than the one it     *)
(* began with.                                                               *)
Recorded == {"record2", "record3", "open", "write", "flush", "replace", "recheck"}
RebuildInv ==
    /\ pc["payload_rebuild"] \in Recorded =>
            draft["payload_rebuild"]["cxlmemsim_server"].hashed = TRUE
    /\ pc["payload_rebuild"] \in Recorded =>
            before <= draft["payload_rebuild"]["cxlmemsim_server"].version
    /\ pc["payload_rebuild"] = "done" =>
            draft["payload_rebuild"]["cxlmemsim_server"] = Entry(before, TRUE)

IInv == TypeOK /\ Monotone /\ ReaderInv /\ RebuildInv

-----------------------------------------------------------------------------
(* The empty document is a document, and names nothing newer than nothing.   *)
LEMMA EmptyDocument ==
    ASSUME TypeOK
    PROVE  Sizes \in Docs /\ Past(Sizes) /\ NoFile \in Contents /\ Torn \in Contents
<1>1. Sizes \in Docs /\ Past(Sizes)
    BY DEF TypeOK, Sizes, Entry, Docs, Past
<1> QED
    BY <1>1 DEF NoFile, Torn, Content, Contents

(* The invariant holds when nothing has been rebuilt.                        *)
LEMMA InitInv == Init => IInv
<1> SUFFICES ASSUME Init PROVE IInv
    OBVIOUS
<1> USE DEF Init, Sizes, Hashes, Entry, NoFile, Whole, Content, NotReading, Artifacts, Writers
<1>0. Sizes \in Docs /\ Hashes \in Docs
    BY DEF Docs
<1>1. TypeOK
  <2>1. manifest \in Contents /\ tmp \in Contents
    <3> HIDE DEF Sizes, Hashes
    <3> QED
        BY <1>0 DEF Contents
  <2>2. files \in [Artifacts -> Nat] /\ pc \in [Writers -> Places] /\ draft \in [Writers -> Docs]
    BY <1>0 DEF Places
  <2>3. reader \in [pc : 0 .. 4, doc : Docs, strict : BOOLEAN, seen : [Artifacts -> Nat]]
    BY <1>0
  <2> QED
    BY <2>1, <2>2, <2>3 DEF TypeOK
<1>2. Monotone
    BY DEF Monotone, Past
<1>3. ReaderInv
    BY DEF ReaderInv
<1>4. RebuildInv
    BY DEF RebuildInv, Recorded
<1> QED
    BY <1>1, <1>2, <1>3, <1>4 DEF IInv

-----------------------------------------------------------------------------
(* What the steps have in common.  Versions grow; the documents a step       *)
(* leaves behind were documents before, or record what is installed.         *)
FilesGrow ==
    /\ \A a \in Artifacts : files[a] <= files'[a] /\ files'[a] <= builds'
    /\ before' <= files'["cxlmemsim_server"]

(* The versions stay in order, when every document is one of the past.       *)
LEMMA MonotoneStep ==
    ASSUME TypeOK, TypeOK', FilesGrow,
           Past(manifest'.doc), Past(tmp'.doc), Past(reader'.doc),
           \A w \in Writers : Past(draft'[w])
    PROVE  Monotone'
<1>1. /\ manifest'.doc \in Docs /\ tmp'.doc \in Docs /\ reader'.doc \in Docs
      /\ \A w \in Writers : draft'[w] \in Docs
    BY Zenon DEF TypeOK, Contents
<1>2. Past(manifest.doc)' /\ Past(tmp.doc)' /\ Past(reader.doc)'
    BY <1>1 DEF TypeOK, FilesGrow, Past, Docs, Artifacts
<1>3. (\A w \in Writers : Past(draft[w]))'
    BY <1>1 DEF TypeOK, FilesGrow, Past, Docs, Artifacts
<1> QED
    BY <1>2, <1>3 DEF Monotone, FilesGrow

(* What a reader has verified does not depend on later installs.             *)
LEMMA ReaderFrame ==
    ASSUME TypeOK, TypeOK', FilesGrow, ReaderInv, UNCHANGED reader
    PROVE  ReaderInv'
BY DEF TypeOK, FilesGrow, ReaderInv, Artifacts

(* Nothing changes for a payload rebuild whose place and record stay.        *)
LEMMA RebuildFrame ==
    ASSUME RebuildInv, UNCHANGED before,
           pc'["payload_rebuild"] = pc["payload_rebuild"],
           draft'["payload_rebuild"] = draft["payload_rebuild"]
    PROVE  RebuildInv'
BY DEF RebuildInv, Entry

(* Nothing is asked of one that has recorded nothing.                        *)
LEMMA RebuildElsewhere ==
    ASSUME pc'["payload_rebuild"] \notin Recorded, pc'["payload_rebuild"] # "done"
    PROVE  RebuildInv'
BY Zenon DEF RebuildInv

(* One that moves on keeps its record.                                       *)
LEMMA RebuildMoves ==
    ASSUME RebuildInv, UNCHANGED before, pc["payload_rebuild"] \in Recorded,
           pc'["payload_rebuild"] # "done",
           draft'["payload_rebuild"] = draft["payload_rebuild"]
    PROVE  RebuildInv'
BY Zenon DEF RebuildInv, Entry, Recorded

(* Recording an artifact changes that entry of the writer's document only.   *)
LEMMA RecordOnce ==
    ASSUME TypeOK, NEW w \in Writers, NEW a \in Artifacts, Record(w, a)
    PROVE  /\ draft' \in [Writers -> Docs]
           /\ draft'[w][a] = Entry(files[a], TRUE)
           /\ \A b \in Artifacts \ {a} : draft'[w][b] = draft[w][b]
           /\ \A x \in Writers \ {w} : draft'[x] = draft[x]
<1> DEFINE E == [version : Nat, hashed : BOOLEAN]
           e == Entry(files[a], TRUE)
           now == [draft[w] EXCEPT ![a] = e]
<1>1. e \in E /\ draft \in [Writers -> [Artifacts -> E]]
    BY DEF TypeOK, Entry, Docs
<1>2. draft' = [draft EXCEPT ![w] = now]
    BY DEF TypeOK, Record
<1> HIDE DEF E, e
<1>3. /\ now \in [Artifacts -> E] /\ now[a] = e
      /\ \A b \in Artifacts \ {a} : now[b] = draft[w][b]
    BY <1>1
<1> HIDE DEF now
<1>4. /\ draft' \in [Writers -> [Artifacts -> E]] /\ draft'[w] = now
      /\ \A x \in Writers \ {w} : draft'[x] = draft[x]
    BY <1>1, <1>2, <1>3, Zenon
<1> QED
    BY <1>3, <1>4 DEF Docs, E, e

-----------------------------------------------------------------------------
(* Every step keeps the types.                                               *)
LEMMA TypeStep == TypeOK /\ Next => TypeOK'
<1> SUFFICES ASSUME TypeOK, Next PROVE TypeOK'
    OBVIOUS
<1>0. Sizes \in Docs /\ NoFile \in Contents /\ Torn \in Contents
    BY EmptyDocument
<1> USE DEF At, Begins, Ends, Install, TypeOK, Places, Writers, Artifacts
<1>1. CASE PayloadBegins
    BY <1>0, <1>1 DEF PayloadBegins
<1>2. CASE PayloadChecks
    BY <1>0, <1>2 DEF PayloadChecks
<1>3. CASE PayloadInstalls
    BY <1>0, <1>3 DEF PayloadInstalls
<1>4. CASE ServerBegins
    BY <1>0, <1>4 DEF ServerBegins
<1>5. CASE ServerInstalls
    BY <1>0, <1>5, Zenon DEF ServerInstalls
<1>6. CASE PayloadRecords
  <2>1. PICK a \in Artifacts : Record("payload_rebuild", a)
    BY <1>6 DEF PayloadRecords, Order
  <2>2. draft' \in [Writers -> Docs]
    BY <2>1, RecordOnce, Zenon
  <2> QED
    BY <1>6, <2>2 DEF PayloadRecords
<1>7. CASE ServerRecords
  <2>1. draft' \in [Writers -> Docs]
    BY <1>7, RecordOnce, Zenon DEF ServerRecords
  <2> QED
    BY <1>7, <2>1 DEF ServerRecords
<1>8. CASE PayloadRechecks
    BY <1>0, <1>8 DEF PayloadRechecks
<1>9. CASE ServerReads
    BY <1>0, <1>9 DEF ServerReads, Contents
<1>10. ASSUME NEW w \in Writers, Writes(w)
      PROVE  TypeOK'
  <2>1. Partial(w) \in Contents /\ Whole(draft[w]) \in Contents
    BY <1>0, Zenon DEF Partial, Whole, Content, Contents
  <2> QED
    BY <1>0, <1>10, <2>1 DEF Writes, PutBehind
<1>11. ASSUME NEW w \in Writers, Opens(w) \/ Replaces(w) \/ WriteFails(w) \/ Unlinks(w)
      PROVE  TypeOK'
    BY <1>0, <1>11 DEF Opens, Replaces, WriteFails, Unlinks
<1>12. ASSUME NEW w \in Writers, Exits(w) \/ Killed(w)
      PROVE  TypeOK'
    BY <1>0, <1>12 DEF Exits, Killed
<1>13. CASE Load \/ Verify \/ Reads
  <2>1. NotReading \in [pc : 0 .. 4, doc : Docs, strict : BOOLEAN, seen : [Artifacts -> Nat]]
    BY <1>0 DEF NotReading
  <2>2. UNCHANGED <<files, builds, manifest, tmp, pc, fd, draft, before>>
    BY <1>13, Zenon DEF Load, Verify, Reads
  <2> DEFINE Readers == [pc : 0 .. 4, doc : Docs, strict : BOOLEAN, seen : [Artifacts -> Nat]]
  <2>3. ASSUME Load PROVE reader' \in Readers
    <3>1. PICK strict \in BOOLEAN :
            reader' = IF manifest.state # "whole" THEN NotReading
                      ELSE [NotReading EXCEPT !.pc = 1, !.doc = manifest.doc, !.strict = strict]
        BY <2>3, Zenon DEF Load
    <3>2. manifest.doc \in Docs
        BY DEF Contents
    <3>3. [NotReading EXCEPT !.pc = 1, !.doc = manifest.doc, !.strict = strict] \in Readers
      <4>1. 1 \in 0 .. 4
        BY SMT
      <4> QED
        BY <2>1, <3>2, <4>1, Zenon
    <3> QED
        BY <2>1, <3>1, <3>3
  <2>4. ASSUME Verify PROVE reader' \in Readers
    <3>1. PICK same \in BOOLEAN :
            reader' = IF ~Verifies(Order[reader.pc], same) THEN NotReading
                      ELSE [reader EXCEPT !.pc = @ + 1,
                                          !.seen = IF reader.pc = 1 THEN files ELSE @]
        BY <2>4 DEF Verify
    <3>2. reader.pc \in 1 .. 3
        BY <2>4 DEF Verify
    <3>3. [reader EXCEPT !.pc = @ + 1, !.seen = IF reader.pc = 1 THEN files ELSE @] \in Readers
      <4>1. /\ reader.pc + 1 \in 0 .. 4 /\ reader \in Readers
            /\ (IF reader.pc = 1 THEN files ELSE reader.seen) \in [Artifacts -> Nat]
        BY <3>2
      <4> QED
        BY <4>1, Zenon
    <3> QED
        BY <2>1, <3>1, <3>3
  <2>5. ASSUME Reads PROVE reader' \in Readers
    BY <2>1, <2>5 DEF Reads
  <2> QED
    BY <1>13, <2>2, <2>3, <2>4, <2>5, Zenon
<1> QED
    BY <1>1, <1>2, <1>3, <1>4, <1>5, <1>6, <1>7, <1>8, <1>9, <1>10, <1>11, <1>12, <1>13, Zenon DEF Next

(* Installed versions only grow: an install is the newest build.             *)
LEMMA GrowStep == TypeOK /\ Monotone /\ Next => FilesGrow
<1> SUFFICES ASSUME TypeOK, Monotone, Next PROVE FilesGrow
    OBVIOUS
<1> USE DEF TypeOK, Monotone, FilesGrow, Artifacts
<1>1. CASE PayloadBegins \/ ServerBegins
    BY <1>1 DEF PayloadBegins, ServerBegins, Begins
<1>2. CASE PayloadInstalls \/ ServerInstalls
    BY <1>2 DEF PayloadInstalls, ServerInstalls, Install
<1>3. CASE UNCHANGED <<files, builds, before>>
    BY <1>3
<1>4. ~(PayloadBegins \/ ServerBegins \/ PayloadInstalls \/ ServerInstalls)
        => UNCHANGED <<files, builds, before>>
    BY Zenon DEF Next, PayloadChecks, PayloadRecords, PayloadRechecks, ServerReads, ServerRecords,
        Opens, Writes, Replaces, WriteFails, Unlinks, Exits, Killed, Load, Verify, Reads
<1> QED
    BY <1>1, <1>2, <1>3, <1>4

(* What a reader does: it gives up or is done, it loads, or it verifies the  *)
(* next artifact.                                                            *)
LEMMA ReaderMoves ==
    ASSUME TypeOK, Load \/ Verify \/ Reads
    PROVE  \/ reader' = NotReading
           \/ reader'.pc = 1 /\ reader'.doc = manifest.doc
           \/ /\ reader.pc \in 1 .. 3 /\ reader'.pc = reader.pc + 1 /\ reader'.doc = reader.doc
              /\ reader'.seen = IF reader.pc = 1 THEN files ELSE reader.seen
              /\ reader.doc[Order[reader.pc]].hashed =>
                    files[Order[reader.pc]] = reader.doc[Order[reader.pc]].version
<1>1. CASE Load /\ reader' # NotReading
  <2>1. PICK strict \in BOOLEAN :
            reader' = [NotReading EXCEPT !.pc = 1, !.doc = manifest.doc, !.strict = strict]
    BY <1>1, Zenon DEF Load
  <2> QED
    BY <2>1 DEF NotReading
<1>2. CASE Verify /\ reader' # NotReading
  <2>1. PICK same \in BOOLEAN :
            /\ Verifies(Order[reader.pc], same)
            /\ reader' = [reader EXCEPT !.pc = @ + 1,
                                        !.seen = IF reader.pc = 1 THEN files ELSE @]
    BY <1>2 DEF Verify
  <2>2. /\ reader'.pc = reader.pc + 1 /\ reader'.doc = reader.doc
        /\ reader'.seen = IF reader.pc = 1 THEN files ELSE reader.seen
    BY <2>1, Zenon DEF TypeOK
  <2>3. /\ reader.pc \in 1 .. 3
        /\ reader.doc[Order[reader.pc]].hashed =>
                files[Order[reader.pc]] = reader.doc[Order[reader.pc]].version
    BY <1>2, <2>1, Zenon DEF Verify, Verifies
  <2> QED
    BY <2>2, <2>3
<1> QED
    BY <1>1, <1>2 DEF Reads

(* Every document a step leaves behind names installed versions: it was      *)
(* there before, is empty, or has just been given the installed version.     *)
LEMMA DocsStep ==
    ASSUME TypeOK, Monotone, Next
    PROVE  /\ Past(manifest'.doc) /\ Past(tmp'.doc) /\ Past(reader'.doc)
           /\ \A w \in Writers : Past(draft'[w])
<1>0. /\ Past(Sizes) /\ NoFile.doc = Sizes /\ Torn.doc = Sizes /\ NotReading.doc = Sizes
      /\ draft \in [Writers -> Docs]
    BY EmptyDocument DEF NoFile, Torn, Content, NotReading, TypeOK
<1>1. /\ Past(manifest.doc) /\ Past(tmp.doc) /\ Past(reader.doc)
      /\ \A w \in Writers : Past(draft[w])
    BY Zenon DEF Monotone
<1>2. ASSUME NEW w \in Writers, NEW a \in Artifacts, Record(w, a)
      PROVE  \A x \in Writers : Past(draft'[x])
  <2>1. /\ draft'[w][a] = Entry(files[a], TRUE) /\ Entry(files[a], TRUE).version = files[a]
        /\ \A b \in Artifacts \ {a} : draft'[w][b] = draft[w][b]
        /\ \A x \in Writers \ {w} : draft'[x] = draft[x]
    BY <1>2, RecordOnce DEF Entry
  <2>2. Past(draft'[w])
    <3> SUFFICES ASSUME NEW b \in Artifacts PROVE draft'[w][b].version <= files[b]
        BY Zenon DEF Past
    <3>1. files[b] <= files[b] /\ draft[w][b].version <= files[b]
        BY <1>1 DEF Past, TypeOK
    <3> QED
        BY <2>1, <3>1, Zenon
  <2> QED
    BY <1>1, <2>1, <2>2, Zenon
<1>3. CASE PayloadRecords \/ ServerRecords
  <2>1. UNCHANGED <<manifest, tmp, reader>> /\ \E w \in Writers, a \in Artifacts : Record(w, a)
    BY <1>3 DEF PayloadRecords, ServerRecords, Order, Artifacts, Writers
  <2> QED
    BY <1>1, <1>2, <2>1
<1>4. CASE UNCHANGED <<manifest, tmp, reader>> /\ \E w \in Writers :
             draft' \in {draft, [draft EXCEPT ![w] = Sizes], [draft EXCEPT ![w] = manifest.doc]}
    BY <1>0, <1>1, <1>4, Zenon
<1>5. CASE PayloadChecks \/ PayloadRechecks \/ ServerReads
    BY <1>4, <1>5 DEF PayloadChecks, PayloadRechecks, ServerReads, Ends, Writers
<1>6. CASE PayloadBegins \/ PayloadInstalls \/ ServerBegins \/ ServerInstalls
    BY <1>1, <1>6, Zenon DEF PayloadBegins, PayloadInstalls, ServerBegins, ServerInstalls
<1>7. ASSUME NEW w \in Writers, Opens(w) \/ Replaces(w) \/ WriteFails(w) \/ Unlinks(w)
             \/ Exits(w) \/ Killed(w)
      PROVE  /\ Past(manifest'.doc) /\ Past(tmp'.doc) /\ Past(reader'.doc)
             /\ \A x \in Writers : Past(draft'[x])
  <2>1. /\ manifest' \in {manifest, tmp} /\ tmp' \in {tmp, Torn, NoFile} /\ UNCHANGED reader
        /\ draft' \in {draft, [draft EXCEPT ![w] = Sizes]}
    BY <1>7, Zenon DEF Opens, Replaces, WriteFails, Unlinks, Exits, Killed, Ends
  <2> QED
    BY <1>0, <1>1, <2>1, Zenon
<1>8. ASSUME NEW w \in Writers, Writes(w)
      PROVE  /\ Past(manifest'.doc) /\ Past(tmp'.doc) /\ Past(reader'.doc)
             /\ \A x \in Writers : Past(draft'[x])
  <2>1. /\ UNCHANGED <<draft, reader>>
        /\ \E c \in {Partial(w), Whole(draft[w]), Torn} : PutBehind(w, c)
    BY <1>8, Zenon DEF Writes
  <2>2. Partial(w).doc = Sizes /\ Whole(draft[w]).doc = draft[w]
    BY DEF Partial, Whole, Content
  <2>3. PICK c \in {Partial(w), Whole(draft[w]), Torn} : PutBehind(w, c)
    BY <2>1, Zenon
  <2>4. Past(c.doc) /\ manifest' \in {manifest, c} /\ tmp' \in {tmp, c}
    BY <1>0, <1>1, <2>2, <2>3, Zenon DEF PutBehind
  <2> QED
    BY <1>1, <2>1, <2>4
<1>9. CASE Load \/ Verify \/ Reads
  <2>1. UNCHANGED <<manifest, tmp, draft>>
    BY <1>9, Zenon DEF Load, Verify, Reads
  <2>2. reader'.doc \in {Sizes, manifest.doc, reader.doc}
    BY <1>0, <1>9, ReaderMoves
  <2> QED
    BY <1>0, <1>1, <2>1, <2>2
<1> QED
    BY <1>3, <1>5, <1>6, <1>7, <1>8, <1>9, Zenon DEF Next

(* A version that is verified is the one that was there at the first look:   *)
(* it is no newer than that, and what is there now is no older.              *)
LEMMA ReaderStep ==
    ASSUME TypeOK, TypeOK', Monotone, ReaderInv, FilesGrow, Next
    PROVE  ReaderInv'
<1>1. CASE UNCHANGED reader
    BY <1>1, ReaderFrame, Zenon
<1>2. CASE reader'.pc \in {0, 1}
    BY <1>2 DEF ReaderInv, TypeOK
<1>3. CASE reader'.pc \notin {0, 1} /\ ~UNCHANGED reader
  <2>1. (Load \/ Verify \/ Reads) /\ UNCHANGED files
    BY <1>3, Zenon DEF Next, PayloadBegins, PayloadChecks, PayloadInstalls, PayloadRecords,
        PayloadRechecks, ServerBegins, ServerInstalls, ServerReads, ServerRecords, Opens, Writes,
        Replaces, WriteFails, Unlinks, Exits, Killed, Load, Verify, Reads
  <2>2. NotReading.pc = 0
    BY Zenon DEF NotReading
  <2>3. /\ reader.pc \in 1 .. 3 /\ reader'.pc = reader.pc + 1 /\ reader'.doc = reader.doc
        /\ reader'.seen = IF reader.pc = 1 THEN files ELSE reader.seen
        /\ reader.doc[Order[reader.pc]].hashed =>
                files[Order[reader.pc]] = reader.doc[Order[reader.pc]].version
    BY <1>3, <2>1, <2>2, ReaderMoves, Zenon
  <2>4. CASE reader.pc = 1
    BY <2>1, <2>3, <2>4 DEF ReaderInv, TypeOK, Monotone, Past, Docs, Order, Artifacts
  <2>5. CASE reader.pc \in 2 .. 3
    <3>1. \A a \in Artifacts :
            reader'.doc[a].version <= reader'.seen[a] /\ reader'.seen[a] <= files'[a]
        BY <2>1, <2>3, <2>5 DEF ReaderInv
    <3>2. ASSUME NEW j \in 1 .. 3, reader'.pc > j, reader'.doc[Order[j]].hashed
          PROVE  reader'.doc[Order[j]].version = reader'.seen[Order[j]]
      <4>1. CASE reader.pc > j
        BY <2>3, <2>5, <3>2, <4>1 DEF ReaderInv
      <4>2. CASE reader.pc = j
        <5>1. Order[j] \in Artifacts
            BY DEF Order, Artifacts
        <5>2. /\ reader.doc[Order[j]].version \in Nat /\ reader.seen[Order[j]] \in Nat
              /\ files[Order[j]] \in Nat
            BY <5>1 DEF TypeOK, Docs
        <5> QED
            BY <2>1, <2>3, <2>5, <3>1, <3>2, <4>2, <5>1, <5>2
      <4> QED
        BY <2>3, <3>2, <4>1, <4>2
    <3> QED
        BY <3>1, <3>2, Zenon DEF ReaderInv
  <2> QED
    BY <2>3, <2>4, <2>5
<1> QED
    BY <1>1, <1>2, <1>3

(* What a payload rebuild has recorded lies between the server it began with *)
(* and the one that is there; when those are the same it succeeds.           *)
LEMMA RebuildStep ==
    ASSUME TypeOK, Monotone, RebuildInv, Next
    PROVE  RebuildInv'
<1> USE DEF At, Begins, Ends
<1>1. CASE PayloadBegins \/ PayloadChecks \/ PayloadInstalls
  <2>1. pc'["payload_rebuild"] \notin Recorded /\ pc'["payload_rebuild"] # "done"
    BY <1>1 DEF PayloadBegins, PayloadChecks, PayloadInstalls, TypeOK, Recorded, Writers
  <2> QED
    BY <2>1, RebuildElsewhere, Zenon
<1>2. CASE PayloadRecords
  <2>1. PICK a \in Artifacts : Record("payload_rebuild", a)
            /\ (pc["payload_rebuild"] \in Recorded <=> a # "cxlmemsim_server")
    BY <1>2 DEF PayloadRecords, Order, Artifacts, Recorded
  <2>2. /\ draft'["payload_rebuild"][a] = Entry(files[a], TRUE)
        /\ \A b \in Artifacts \ {a} : draft'["payload_rebuild"][b] = draft["payload_rebuild"][b]
    BY <2>1, RecordOnce, Zenon DEF Writers
  <2>3. pc'["payload_rebuild"] # "done" /\ UNCHANGED before
    BY <1>2, Zenon DEF PayloadRecords, TypeOK, Writers
  <2>4. CASE a = "cxlmemsim_server"
    BY <2>2, <2>3, <2>4 DEF RebuildInv, Entry, Monotone
  <2>5. CASE a # "cxlmemsim_server"
    <3>1. /\ pc["payload_rebuild"] \in Recorded
          /\ draft'["payload_rebuild"]["cxlmemsim_server"]
                = draft["payload_rebuild"]["cxlmemsim_server"]
        BY <2>1, <2>2, <2>5, Zenon DEF Artifacts
    <3> QED
        BY <2>3, <3>1 DEF RebuildInv, Recorded, Entry
  <2> QED
    BY <2>4, <2>5
<1>3. CASE PayloadRechecks /\ PlatformUnchanged
  <2>1. /\ pc["payload_rebuild"] \in Recorded /\ pc'["payload_rebuild"] = "done"
        /\ UNCHANGED <<before, draft>>
    BY <1>3, Zenon DEF PayloadRechecks, TypeOK, Recorded, Writers
  <2> DEFINE entry == draft["payload_rebuild"]["cxlmemsim_server"]
  <2>2. entry \in [version : Nat, hashed : BOOLEAN] /\ entry.version <= files["cxlmemsim_server"]
    BY Zenon DEF TypeOK, Monotone, Past, Docs, Writers, Artifacts
  <2>3. entry.hashed = TRUE /\ entry.version = before
    BY <1>3, <2>1, <2>2 DEF RebuildInv, PlatformUnchanged, TypeOK
  <2>4. entry = Entry(before, TRUE)
    BY <2>2, <2>3, Zenon DEF Entry
  <2> QED
    BY <2>1, <2>4 DEF RebuildInv, Recorded, Entry
<1>4. CASE PayloadRechecks /\ ~PlatformUnchanged
  <2>1. pc'["payload_rebuild"] \notin Recorded /\ pc'["payload_rebuild"] # "done"
    BY <1>4 DEF PayloadRechecks, TypeOK, Recorded, Writers
  <2> QED
    BY <2>1, RebuildElsewhere
<1>5. CASE ServerBegins \/ ServerInstalls \/ ServerReads \/ ServerRecords
  <2>1. UNCHANGED before /\ pc'["payload_rebuild"] = pc["payload_rebuild"]
    BY <1>5 DEF ServerBegins, ServerInstalls, ServerReads, ServerRecords, TypeOK, Writers
  <2>2. CASE ServerRecords
    <3>1. Record("server_rebuild", "cxlmemsim_server")
        BY <2>2, Zenon DEF ServerRecords
    <3>2. draft'["payload_rebuild"] = draft["payload_rebuild"]
        BY <3>1, RecordOnce, Zenon DEF Writers, Artifacts
    <3> QED
        BY <2>1, <3>2, RebuildFrame
  <2>3. CASE ~ServerRecords
    <3>1. draft'["payload_rebuild"] = draft["payload_rebuild"]
        BY <1>5, <2>3 DEF ServerBegins, ServerInstalls, ServerReads, TypeOK, Writers
    <3> QED
        BY <2>1, <3>1, RebuildFrame, Zenon
  <2> QED
    BY <2>2, <2>3, Zenon
<1>6. ASSUME NEW w \in Writers, Opens(w) \/ Writes(w) \/ Replaces(w)
      PROVE  RebuildInv'
  <2>1. UNCHANGED <<before, draft>>
    BY <1>6 DEF Opens, Writes, Replaces
  <2>2. CASE w = "payload_rebuild"
    <3>1. \/ pc["payload_rebuild"] \in Recorded /\ pc'["payload_rebuild"] # "done"
          \/ pc'["payload_rebuild"] = "unlink"
        BY <1>6, <2>2 DEF Opens, Writes, Replaces, TypeOK, Recorded, Writers
    <3> QED
        BY <2>1, <3>1, RebuildMoves, RebuildElsewhere, Zenon DEF Recorded
  <2>3. CASE w # "payload_rebuild"
    <3>1. pc'["payload_rebuild"] = pc["payload_rebuild"]
        BY <1>6, <2>3 DEF Opens, Writes, Replaces, TypeOK, Writers
    <3> QED
        BY <2>1, <3>1, RebuildFrame, Zenon
  <2> QED
    BY <2>2, <2>3, Zenon
<1>7. ASSUME NEW w \in Writers, WriteFails(w) \/ Unlinks(w) \/ Exits(w) \/ Killed(w)
      PROVE  RebuildInv'
  <2>1. CASE w = "payload_rebuild"
    <3>1. pc'["payload_rebuild"] \notin Recorded /\ pc'["payload_rebuild"] # "done"
        BY <1>7, <2>1 DEF WriteFails, Unlinks, Exits, Killed, TypeOK, Recorded, Writers
    <3> QED
        BY <3>1, RebuildElsewhere, Zenon
  <2>2. CASE w # "payload_rebuild"
    <3>1. /\ UNCHANGED before /\ pc'["payload_rebuild"] = pc["payload_rebuild"]
          /\ draft'["payload_rebuild"] = draft["payload_rebuild"]
        BY <1>7, <2>2 DEF WriteFails, Unlinks, Exits, Killed, TypeOK, Writers
    <3> QED
        BY <3>1, RebuildFrame, Zenon
  <2> QED
    BY <2>1, <2>2
<1>8. CASE Load \/ Verify \/ Reads
    BY <1>8, RebuildFrame, Zenon DEF Load, Verify, Reads
<1> QED
    BY <1>1, <1>2, <1>3, <1>4, <1>5, <1>6, <1>7, <1>8 DEF Next

-----------------------------------------------------------------------------
(* Installed versions grow, and every document is one of the past, however   *)
(* the rebuilds, the readers and the kills interleave.                       *)
THEOREM Invariant == Spec => []IInv
<1>1. IInv /\ [Next]_vars => IInv'
  <2> SUFFICES ASSUME IInv, [Next]_vars PROVE IInv'
    OBVIOUS
  <2> USE DEF IInv
  <2>1. CASE UNCHANGED vars
    BY <2>1, Zenon DEF vars, TypeOK, Monotone, ReaderInv, RebuildInv, Past
  <2>2. CASE Next
    <3>1. TypeOK' /\ FilesGrow
        BY <2>2, TypeStep, GrowStep
    <3>2. Monotone'
        BY <2>2, <3>1, DocsStep, MonotoneStep
    <3>3. ReaderInv' /\ RebuildInv'
        BY <2>2, <3>1, ReaderStep, RebuildStep
    <3> QED
        BY <3>1, <3>2, <3>3
  <2> QED
    BY <2>1, <2>2
<1> QED
    BY <1>1, InitInv, PTL DEF Spec

(* The files an accepted manifest gives a hash were on the disk together,    *)
(* and a payload rebuild that succeeds has recorded the server it began with *)
(* (verify_manifest, resolve_artifacts, platform_hashes), for any number of  *)
(* rebuilds.                                                                 *)
THEOREM CoexistAlways == Spec => []RecordedFilesCoexist
<1>1. IInv => RecordedFilesCoexist
    BY DEF IInv, TypeOK, ReaderInv, RebuildInv, RecordedFilesCoexist, Accepted, Order,
        Artifacts, Entry
<1> QED
    BY <1>1, Invariant, PTL

-----------------------------------------------------------------------------
(* The strict proof.  A line is printed when what it reports happens, and   *)
(* captured later; what each path can report; the first of the events and   *)
(* the last of the captured lines exist.                                    *)
CONSTANTS Kinds, MaxLag, MaxMishaps
VARIABLES kind, history, client, server, damaged, duplicates
Strict == INSTANCE PersistencyProof

StrictNames ==
    {"persisted", "coherent_sealed", "writer_host_persisted", "unmap", "begin", "success",
     "acquired", "dependency_persisted", "GETS", "FENCE", "FENCE_completion", "snoop", "ack",
     "completion"}
StrictEvents ==
    [what : StrictNames, stamp : {"real", "captured", "damaged"}, line : {"in", "out"}, host : {0, 1}]
Consoles == [lines : Seq(StrictNames), read : Nat]

CapturedAfter ==
    \A i \in 1 .. Len(history) : history[i].stamp = "captured" =>
        \E j \in 1 .. Len(history) :
            j < i /\ history[j].stamp = "real" /\ history[j].what = history[i].what
FirstAndLast ==
    /\ \A w \in StrictNames : Strict!Happened(w) =>
          \E i \in Strict!Times(w, {"real"}) : \A j \in Strict!Times(w, {"real"}) : i <= j
    /\ \A w \in StrictNames : Strict!Present(w) =>
          \E i \in Strict!Captured(w) : \A j \in Strict!Captured(w) : j <= i
Done == { w \in StrictNames : Strict!Happened(w) }
Reported(console) == \A i \in 1 .. Len(console.lines) : console.lines[i] \in Done
OnThisPath ==
    /\ Strict!Happened("persisted") => kind = "writer_persisted"
    /\ Strict!Happened("coherent_sealed") => kind # "writer_persisted"
    /\ Strict!Happened("completion") => Strict!Happened("ack")
    /\ Strict!Happened("ack") => Strict!Happened("snoop")

StrictInv ==
    /\ history \in Seq(StrictEvents) /\ client \in Consoles /\ server \in Consoles
    /\ CapturedAfter /\ FirstAndLast
    /\ Reported(client) /\ Reported(server) /\ OnThisPath

(* What may be recorded next.                                               *)
Recordable(e) ==
    /\ e.stamp = "captured" => Strict!Happened(e.what)
    /\ e.stamp = "real" =>
        /\ e.what = "persisted" => kind = "writer_persisted"
        /\ e.what = "coherent_sealed" => kind # "writer_persisted"
        /\ e.what = "completion" => Strict!Happened("ack")
        /\ e.what = "ack" => Strict!Happened("snoop")

(* A console stays, is read, or gets the line of the event.                 *)
Prints(old, new, e) ==
    \/ new = old
    \/ new = [old EXCEPT !.read = @ + 1]
    \/ e.stamp = "real" /\ new = [old EXCEPT !.lines = Append(@, e.what)]

(* An event of a console.                                                   *)
LEMMA ConsoleEvent ==
    ASSUME NEW w \in StrictNames, NEW stamp \in {"real", "captured", "damaged"}
    PROVE  /\ Strict!Event(w, stamp) \in StrictEvents
           /\ Strict!Event(w, stamp).what = w /\ Strict!Event(w, stamp).stamp = stamp
BY DEF Strict!Event, StrictEvents

(* What the consoles print, in the order of the paths.                      *)
LEMMA PathLines ==
    /\ \A k \in DOMAIN Strict!ClientLines :
          /\ Strict!ClientLines[k] \in
                {"persisted", "coherent_sealed", "writer_host_persisted", "unmap"}
          /\ Strict!ClientLines[k] = "persisted" => kind = "writer_persisted"
          /\ Strict!ClientLines[k] = "coherent_sealed" => kind # "writer_persisted"
    /\ \A k \in DOMAIN Strict!ServerLines :
          Strict!ServerLines[k] \in {"begin", "success", "acquired", "dependency_persisted"}
<1>1. \A k \in DOMAIN Strict!ClientLines :
          /\ Strict!ClientLines[k] \in
                {"persisted", "coherent_sealed", "writer_host_persisted", "unmap"}
          /\ Strict!ClientLines[k] = "persisted" => kind = "writer_persisted"
          /\ Strict!ClientLines[k] = "coherent_sealed" => kind # "writer_persisted"
  BY DEF Strict!ClientLines
<1>2. \A k \in DOMAIN Strict!ServerLines :
          Strict!ServerLines[k] \in {"begin", "success", "acquired", "dependency_persisted"}
  BY DEF Strict!ServerLines
<1> QED BY <1>1, <1>2

(* Every step records one event.                                            *)
LEMMA StrictMoves ==
    ASSUME StrictInv, Strict!Next
    PROVE  /\ kind' = kind
           /\ \E e \in StrictEvents :
                /\ history' = Append(history, e) /\ Recordable(e)
                /\ Prints(client, client', e) /\ Prints(server, server', e)
<1> DEFINE Goal == \E e \in StrictEvents :
                      /\ history' = Append(history, e) /\ Recordable(e)
                      /\ Prints(client, client', e) /\ Prints(server, server', e)
<1>0. kind' = kind
  BY DEF Strict!Next, Strict!ClientPrints, Strict!ServerPrints, Strict!ServerRepeats,
         Strict!ReadsClient, Strict!ReadsServer, Strict!ProviderRecords
<1>t. history \in Seq(StrictEvents) /\ client \in Consoles /\ server \in Consoles
  BY DEF StrictInv
<1>1. ASSUME NEW e \in StrictEvents, history' = Append(history, e), Recordable(e),
             Prints(client, client', e), Prints(server, server', e)
      PROVE  Goal
  BY <1>1
<1> HIDE DEF Goal
<1>2. ASSUME NEW w \in StrictNames, history' = Append(history, Strict!Event(w, "real"))
      PROVE  history'[Len(history')].what = w
  <2>1. Strict!Event(w, "real") \in StrictEvents /\ Strict!Event(w, "real").what = w
    BY ConsoleEvent
  <2>2. history'[Len(history')] = Strict!Event(w, "real")
    BY <1>2, <2>1, <1>t
  <2> QED BY <2>1, <2>2
<1>3. ASSUME Strict!ClientPrints PROVE Goal
  <2>1. PICK k \in DOMAIN Strict!ClientLines :
            history' = Append(history, Strict!Event(Strict!ClientLines[k], "real"))
    BY <1>3 DEF Strict!ClientPrints, Strict!PrintsNext, Strict!Records
  <2> DEFINE w == Strict!ClientLines[k]
  <2>2. /\ w \in StrictNames /\ w # "completion" /\ w # "ack"
        /\ w = "persisted" => kind = "writer_persisted"
        /\ w = "coherent_sealed" => kind # "writer_persisted"
    BY PathLines DEF StrictNames
  <2> HIDE DEF w
  <2>3. history' = Append(history, Strict!Event(w, "real"))
    BY <2>1 DEF w
  <2>4. client' = [client EXCEPT !.lines = Append(@, w)] /\ server' = server
    BY <1>3, <1>2, <2>2, <2>3, Zenon DEF Strict!ClientPrints
  <2>5. /\ Strict!Event(w, "real") \in StrictEvents
        /\ Strict!Event(w, "real").what = w /\ Strict!Event(w, "real").stamp = "real"
    BY <2>2, ConsoleEvent
  <2>6. Recordable(Strict!Event(w, "real"))
    BY <2>2, <2>5 DEF Recordable
  <2>7. /\ Prints(client, client', Strict!Event(w, "real"))
        /\ Prints(server, server', Strict!Event(w, "real"))
    BY <2>4, <2>5 DEF Prints
  <2> QED BY <1>1, <2>3, <2>5, <2>6, <2>7
<1>4. ASSUME Strict!ServerPrints PROVE Goal
  <2>1. PICK k \in DOMAIN Strict!ServerLines :
            history' = Append(history, Strict!Event(Strict!ServerLines[k], "real"))
    BY <1>4 DEF Strict!ServerPrints, Strict!PrintsNext, Strict!Records
  <2> DEFINE w == Strict!ServerLines[k]
  <2>2. /\ w \in StrictNames /\ w # "completion" /\ w # "ack"
        /\ w # "persisted" /\ w # "coherent_sealed"
    BY PathLines DEF StrictNames
  <2> HIDE DEF w
  <2>3. history' = Append(history, Strict!Event(w, "real"))
    BY <2>1 DEF w
  <2>4. server' = [server EXCEPT !.lines = Append(@, w)] /\ client' = client
    BY <1>4, <1>2, <2>2, <2>3 DEF Strict!ServerPrints
  <2>5. /\ Strict!Event(w, "real") \in StrictEvents
        /\ Strict!Event(w, "real").what = w /\ Strict!Event(w, "real").stamp = "real"
    BY <2>2, ConsoleEvent
  <2>6. Recordable(Strict!Event(w, "real"))
    BY <2>2, <2>5 DEF Recordable
  <2>7. /\ Prints(client, client', Strict!Event(w, "real"))
        /\ Prints(server, server', Strict!Event(w, "real"))
    BY <2>4, <2>5 DEF Prints
  <2> QED BY <1>1, <2>3, <2>5, <2>6, <2>7
<1>5. ASSUME Strict!ServerRepeats PROVE Goal
  <2> DEFINE w == Strict!LastOf(server)
  <2>1. /\ w \in StrictNames /\ w # "completion" /\ w # "ack"
        /\ w # "persisted" /\ w # "coherent_sealed"
    BY <1>5 DEF Strict!ServerRepeats, Strict!Repeatable, StrictNames
  <2>2. /\ history' = Append(history, Strict!Event(w, "real"))
        /\ server' = [server EXCEPT !.lines = Append(@, w)] /\ client' = client
    BY <1>5 DEF Strict!ServerRepeats, Strict!Records
  <2> HIDE DEF w
  <2>3. /\ Strict!Event(w, "real") \in StrictEvents
        /\ Strict!Event(w, "real").what = w /\ Strict!Event(w, "real").stamp = "real"
    BY <2>1, ConsoleEvent
  <2>4. Recordable(Strict!Event(w, "real"))
    BY <2>1, <2>3 DEF Recordable
  <2>5. /\ Prints(client, client', Strict!Event(w, "real"))
        /\ Prints(server, server', Strict!Event(w, "real"))
    BY <2>2, <2>3, Zenon DEF Prints
  <2> QED BY <1>1, <2>2, <2>3, <2>4, <2>5
<1>6. ASSUME NEW console \in Consoles, Reported(console), Strict!Reads(console)
      PROVE  \E w \in StrictNames, stamp \in {"captured", "damaged"} :
                history' = Append(history, Strict!Event(w, stamp)) /\ Strict!Happened(w)
  <2>1. PICK stamp \in {"captured", "damaged"} :
            history' = Append(history, Strict!Event(console.lines[console.read + 1], stamp))
    BY <1>6 DEF Strict!Reads, Strict!Records
  <2>2. console.read < Len(console.lines)
    BY <1>6 DEF Strict!Reads
  <2>3. console.lines \in Seq(StrictNames) /\ console.read \in Nat
    BY DEF Consoles
  <2>4. console.read + 1 \in 1 .. Len(console.lines)
    BY <2>2, <2>3
  <2>5. console.lines[console.read + 1] \in StrictNames
    BY <2>3, <2>4
  <2> QED BY <1>6, <2>1, <2>4, <2>5 DEF Reported, Done
<1>7. ASSUME Strict!ReadsClient \/ Strict!ReadsServer PROVE Goal
  <2>1. Strict!Reads(client) \/ Strict!Reads(server)
    BY <1>7 DEF Strict!ReadsClient, Strict!ReadsServer
  <2>2. PICK w \in StrictNames, stamp \in {"captured", "damaged"} :
            history' = Append(history, Strict!Event(w, stamp)) /\ Strict!Happened(w)
    BY <2>1, <1>6, <1>t DEF StrictInv
  <2>3. \/ client' = [client EXCEPT !.read = @ + 1] /\ server' = server
        \/ server' = [server EXCEPT !.read = @ + 1] /\ client' = client
    BY <1>7 DEF Strict!ReadsClient, Strict!ReadsServer
  <2>4. /\ Strict!Event(w, stamp) \in StrictEvents
        /\ Strict!Event(w, stamp).what = w /\ Strict!Event(w, stamp).stamp = stamp
    BY ConsoleEvent
  <2>5. Recordable(Strict!Event(w, stamp))
    BY <2>2, <2>4 DEF Recordable
  <2>6. /\ Prints(client, client', Strict!Event(w, stamp))
        /\ Prints(server, server', Strict!Event(w, stamp))
    BY <2>3 DEF Prints
  <2> QED BY <1>1, <2>2, <2>4, <2>5, <2>6
<1>8. ASSUME NEW w \in {"GETS", "FENCE", "FENCE_completion", "snoop", "ack", "completion"},
             Strict!ProviderRecords(w)
      PROVE  Goal
  <2>1. PICK line \in {"in", "out"}, host \in {0, 1} :
            history' = Append(history, [what |-> w, stamp |-> "real", line |-> line, host |-> host])
    BY <1>8 DEF Strict!ProviderRecords, Strict!Records
  <2>2. /\ w = "ack" => Strict!Happened("snoop")
        /\ w = "completion" => Strict!Happened("ack")
        /\ client' = client /\ server' = server
    BY <1>8 DEF Strict!ProviderRecords
  <2> DEFINE e == [what |-> w, stamp |-> "real", line |-> line, host |-> host]
  <2>3. e \in StrictEvents /\ e.what = w /\ e.stamp = "real"
    BY DEF StrictEvents, StrictNames
  <2> HIDE DEF e
  <2>4. history' = Append(history, e)
    BY <2>1 DEF e
  <2>5. w # "persisted" /\ w # "coherent_sealed"
    OBVIOUS
  <2> QED BY <2>2, <2>3, <2>4, <2>5 DEF Goal, Prints, Recordable
<1> QED BY <1>0, <1>3, <1>4, <1>5, <1>7, <1>8 DEF Strict!Next, Goal

(* What is recorded is the last event of the history.                       *)
LEMMA RecordedEvent ==
    ASSUME history \in Seq(StrictEvents), NEW e \in StrictEvents, history' = Append(history, e)
    PROVE  /\ Len(history) \in Nat /\ history' \in Seq(StrictEvents)
           /\ Len(history') = Len(history) + 1 /\ history'[Len(history) + 1] = e
           /\ \A i \in 1 .. Len(history) : history'[i] = history[i]
           /\ DOMAIN history = 1 .. Len(history) /\ DOMAIN history' = 1 .. Len(history')
OBVIOUS

(* The times of one kind of record gain the last one, or stay.              *)
LEMMA TimesGrow ==
    ASSUME history \in Seq(StrictEvents), NEW e \in StrictEvents, history' = Append(history, e),
           NEW w, NEW stamp
    PROVE  /\ e.what = w /\ e.stamp = stamp =>
                Strict!Times(w, {stamp})' = Strict!Times(w, {stamp}) \cup {Len(history) + 1}
           /\ ~(e.what = w /\ e.stamp = stamp) =>
                Strict!Times(w, {stamp})' = Strict!Times(w, {stamp})
           /\ \A i \in Strict!Times(w, {stamp}) : i \in Nat /\ i < Len(history) + 1
<1> DEFINE n == Len(history)
<1>1. /\ n \in Nat /\ Len(history') = n + 1 /\ history'[n + 1] = e
      /\ \A i \in 1 .. n : history'[i] = history[i]
      /\ DOMAIN history = 1 .. n /\ DOMAIN history' = 1 .. n + 1
  BY RecordedEvent
<1> HIDE DEF n
<1>2. /\ Strict!Times(w, {stamp}) = { i \in 1 .. n : history[i].what = w /\ history[i].stamp = stamp }
      /\ Strict!Times(w, {stamp})' =
            { i \in 1 .. n + 1 : history'[i].what = w /\ history'[i].stamp = stamp }
  BY <1>1 DEF Strict!Times
<1>3. \A i \in Strict!Times(w, {stamp}) : i \in Nat /\ i < n + 1
  BY <1>1, <1>2
<1>4. \A i : i \in 1 .. n + 1 <=> i \in 1 .. n \/ i = n + 1
  BY <1>1
<1>5. ~(n + 1 \in 1 .. n)
  BY <1>1
<1> DEFINE old == Strict!Times(w, {stamp})
           new == Strict!Times(w, {stamp})'
<1>6. \A i : i \in new <=> i \in old \/ (i = n + 1 /\ e.what = w /\ e.stamp = stamp)
  <2>1. \A i : i \in old <=> i \in 1 .. n /\ history[i].what = w /\ history[i].stamp = stamp
    BY <1>2, Zenon
  <2>2. \A i : i \in new <=> i \in 1 .. n + 1 /\ history'[i].what = w /\ history'[i].stamp = stamp
    BY <1>2, Zenon
  <2> HIDE DEF old, new
  <2> QED BY <1>1, <1>4, <1>5, <2>1, <2>2
<1> HIDE DEF old, new
<1>7. e.what = w /\ e.stamp = stamp => new = old \cup {n + 1}
  BY <1>6
<1>8. ~(e.what = w /\ e.stamp = stamp) => new = old
  BY <1>6, Zenon
<1> QED BY <1>3, <1>7, <1>8, Zenon DEF n, old, new

(* What has happened stays so; what a step makes happen is what it records. *)
LEMMA HappenedGrows ==
    ASSUME history \in Seq(StrictEvents), NEW e \in StrictEvents, history' = Append(history, e),
           NEW w
    PROVE  /\ Strict!Happened(w) => Strict!Happened(w)'
           /\ e.what = w /\ e.stamp = "real" => Strict!Happened(w)'
           /\ Strict!Happened(w)' => Strict!Happened(w) \/ (e.what = w /\ e.stamp = "real")
<1>1. /\ e.what = w /\ e.stamp = "real" =>
            Strict!Times(w, {"real"})' = Strict!Times(w, {"real"}) \cup {Len(history) + 1}
      /\ ~(e.what = w /\ e.stamp = "real") =>
            Strict!Times(w, {"real"})' = Strict!Times(w, {"real"})
  BY TimesGrow DEF Strict!Times
<1> QED BY <1>1, Zenon DEF Strict!Happened

(* A record is captured after the event it reports.                         *)
LEMMA CapturedAfterStep ==
    ASSUME history \in Seq(StrictEvents), CapturedAfter,
           NEW e \in StrictEvents, history' = Append(history, e), Recordable(e)
    PROVE  CapturedAfter'
<1> DEFINE n == Len(history)
<1>1. /\ n \in Nat /\ Len(history') = n + 1 /\ history'[n + 1] = e
      /\ \A i \in 1 .. n : history'[i] = history[i]
      /\ DOMAIN history = 1 .. n
  BY RecordedEvent
<1>2. e.stamp = "captured" => \E j \in 1 .. n : history[j].stamp = "real" /\ history[j].what = e.what
  BY <1>1 DEF Recordable, Strict!Happened, Strict!Times
<1>3. \A i \in 1 .. n : history[i].stamp = "captured" =>
          \E j \in 1 .. n : j < i /\ history[j].stamp = "real" /\ history[j].what = history[i].what
  BY DEF CapturedAfter
<1> HIDE DEF n
<1> SUFFICES ASSUME NEW i \in 1 .. n + 1, history'[i].stamp = "captured"
             PROVE  \E j \in 1 .. n + 1 :
                       j < i /\ history'[j].stamp = "real" /\ history'[j].what = history'[i].what
  BY <1>1 DEF CapturedAfter
<1>4. CASE i = n + 1
  BY <1>1, <1>2, <1>4
<1>5. CASE i \in 1 .. n
  <2>1. PICK j \in 1 .. n : j < i /\ history[j].stamp = "real" /\ history[j].what = history[i].what
    BY <1>1, <1>3, <1>5
  <2> QED BY <1>1, <1>5, <2>1
<1> QED BY <1>1, <1>4, <1>5

(* The new record is later than all others: it is the first of its kind, or  *)
(* the first stays; when it is captured it is the last.                     *)
LEMMA FirstAndLastStep ==
    ASSUME history \in Seq(StrictEvents), FirstAndLast,
           NEW e \in StrictEvents, history' = Append(history, e)
    PROVE  FirstAndLast'
<1>1. ASSUME NEW old, NEW new, NEW n \in Nat,
             \A i \in old : i \in Nat /\ i < n + 1, new = old \/ new = old \cup {n + 1}
      PROVE  /\ (old # {} => \E i \in old : \A j \in old : i <= j) =>
                    (new # {} => \E i \in new : \A j \in new : i <= j)
             /\ (old # {} => \E i \in old : \A j \in old : j <= i) =>
                    (new # {} => \E i \in new : \A j \in new : j <= i)
  <2>1. CASE new = old
    BY <2>1
  <2>2. CASE new = old \cup {n + 1}
    <3>1. ASSUME old # {}, NEW i \in old, \A j \in old : i <= j
          PROVE  \E k \in new : \A j \in new : k <= j
      BY <1>1, <2>2, <3>1
    <3>2. n + 1 \in new /\ \A j \in new : j <= n + 1
      BY <1>1, <2>2
    <3>3. old = {} => \A j \in new : n + 1 <= j
      BY <1>1, <2>2
    <3> QED BY <3>1, <3>2, <3>3
  <2> QED BY <1>1, <2>1, <2>2, Zenon
<1>2. Len(history) \in Nat
  BY RecordedEvent
<1>3. ASSUME NEW w \in StrictNames
      PROVE  /\ Strict!Happened(w)' =>
                  \E i \in Strict!Times(w, {"real"})' : \A j \in Strict!Times(w, {"real"})' : i <= j
             /\ Strict!Present(w)' =>
                  \E i \in Strict!Captured(w)' : \A j \in Strict!Captured(w)' : j <= i
  <2> DEFINE reals == Strict!Times(w, {"real"})
             captured == Strict!Times(w, {"captured"})
  <2>1. /\ reals' = reals \/ reals' = reals \cup {Len(history) + 1}
        /\ \A i \in reals : i \in Nat /\ i < Len(history) + 1
    BY TimesGrow DEF Strict!Times
  <2>2. /\ captured' = captured \/ captured' = captured \cup {Len(history) + 1}
        /\ \A i \in captured : i \in Nat /\ i < Len(history) + 1
    BY TimesGrow DEF Strict!Times
  <2>3. reals # {} => \E i \in reals : \A j \in reals : i <= j
    BY DEF FirstAndLast, Strict!Happened
  <2>4. captured # {} => \E i \in captured : \A j \in captured : j <= i
    BY DEF FirstAndLast, Strict!Present, Strict!Captured
  <2> HIDE DEF reals, captured
  <2>5. reals' # {} => \E i \in reals' : \A j \in reals' : i <= j
    BY <1>1, <1>2, <2>1, <2>3, Zenon
  <2>6. captured' # {} => \E i \in captured' : \A j \in captured' : j <= i
    BY <1>1, <1>2, <2>2, <2>4, Zenon
  <2>7. Strict!Happened(w)' =>
           \E i \in Strict!Times(w, {"real"})' : \A j \in Strict!Times(w, {"real"})' : i <= j
    BY <2>5 DEF reals, Strict!Happened
  <2>8. Strict!Present(w)' =>
           \E i \in Strict!Captured(w)' : \A j \in Strict!Captured(w)' : j <= i
    BY <2>6 DEF captured, Strict!Present, Strict!Captured
  <2> QED BY <2>7, <2>8
<1> QED BY <1>3 DEF FirstAndLast

(* A console that gets a line gets the line of an event that happened.      *)
LEMMA ReportedStep ==
    ASSUME NEW done, NEW more, done \subseteq more,
           NEW e \in StrictEvents, e.stamp = "real" => e.what \in more,
           NEW old \in Consoles, NEW new, Prints(old, new, e),
           \A i \in 1 .. Len(old.lines) : old.lines[i] \in done
    PROVE  /\ new \in Consoles
           /\ \A i \in 1 .. Len(new.lines) : new.lines[i] \in more
<1>1. old.lines \in Seq(StrictNames) /\ old.read \in Nat /\ e.what \in StrictNames
  BY DEF Consoles, StrictEvents
<1>2. old = [lines |-> old.lines, read |-> old.read]
  BY DEF Consoles
<1>3. CASE new = old
  BY <1>3
<1>4. CASE new = [old EXCEPT !.read = @ + 1]
  BY <1>1, <1>2, <1>4 DEF Consoles
<1>5. CASE e.stamp = "real" /\ new = [old EXCEPT !.lines = Append(@, e.what)]
  <2> DEFINE n == Len(old.lines)
  <2>1. new = [lines |-> Append(old.lines, e.what), read |-> old.read]
    BY <1>2, <1>5, Zenon
  <2>2. /\ n \in Nat /\ Append(old.lines, e.what) \in Seq(StrictNames)
        /\ Len(Append(old.lines, e.what)) = n + 1
        /\ Append(old.lines, e.what)[n + 1] = e.what
        /\ \A i \in 1 .. n : Append(old.lines, e.what)[i] = old.lines[i]
    BY <1>1
  <2>3. new \in Consoles
    BY <1>1, <2>1, <2>2 DEF Consoles
  <2> HIDE DEF n
  <2>4. \A i \in 1 .. n + 1 : i \in 1 .. n \/ i = n + 1
    BY <2>2
  <2>5. /\ Len(new.lines) = n + 1 /\ new.lines[n + 1] = e.what
        /\ \A i \in 1 .. n : new.lines[i] = old.lines[i]
    BY <2>1, <2>2
  <2> QED BY <1>5, <2>3, <2>4, <2>5 DEF n
<1> QED BY <1>3, <1>4, <1>5 DEF Prints

(* Every step of the strict proof's run keeps its invariant.                *)
LEMMA StrictStep ==
    ASSUME StrictInv, [Strict!Next]_(Strict!vars)
    PROVE  StrictInv'
<1>1. CASE UNCHANGED Strict!vars
  <2>1. history' = history /\ client' = client /\ server' = server /\ kind' = kind
    BY <1>1 DEF Strict!vars
  <2>2. CapturedAfter' /\ FirstAndLast'
    BY <2>1 DEF StrictInv, CapturedAfter, FirstAndLast, Strict!Happened, Strict!Present,
                Strict!Captured, Strict!Times
  <2>3. Reported(client)' /\ Reported(server)' /\ OnThisPath'
    BY <2>1 DEF StrictInv, Reported, Done, OnThisPath, Strict!Happened, Strict!Times
  <2> QED BY <2>1, <2>2, <2>3 DEF StrictInv
<1>2. CASE Strict!Next
  <2>1. kind' = kind
    BY <1>2, StrictMoves
  <2>2. PICK e \in StrictEvents :
            /\ history' = Append(history, e) /\ Recordable(e)
            /\ Prints(client, client', e) /\ Prints(server, server', e)
    BY <1>2, StrictMoves
  <2>3. history \in Seq(StrictEvents) /\ client \in Consoles /\ server \in Consoles
    BY DEF StrictInv
  <2>4. history' \in Seq(StrictEvents)
    BY <2>2, <2>3, RecordedEvent
  <2>5. CapturedAfter' /\ FirstAndLast'
    BY <2>2, <2>3, CapturedAfterStep, FirstAndLastStep DEF StrictInv
  <2>6. ASSUME NEW w PROVE /\ Strict!Happened(w) => Strict!Happened(w)'
                           /\ e.what = w /\ e.stamp = "real" => Strict!Happened(w)'
                           /\ Strict!Happened(w)' =>
                                 Strict!Happened(w) \/ (e.what = w /\ e.stamp = "real")
    <3>1. history' = Append(history, e)
      BY <2>2
    <3> QED BY <2>3, <3>1, HappenedGrows DEF Strict!Happened, Strict!Times
  <2>7. Done \subseteq Done' /\ (e.stamp = "real" => e.what \in Done')
    <3>1. e.what \in StrictNames
      BY DEF StrictEvents
    <3> QED BY <2>6, <3>1 DEF Done, Strict!Happened, Strict!Times
  <2>8. /\ client' \in Consoles /\ Reported(client)'
        /\ server' \in Consoles /\ Reported(server)'
    <3>1. /\ \A i \in 1 .. Len(client.lines) : client.lines[i] \in Done
          /\ \A i \in 1 .. Len(server.lines) : server.lines[i] \in Done
      BY DEF StrictInv, Reported
    <3>2. /\ client' \in Consoles
          /\ \A i \in 1 .. Len(client'.lines) : client'.lines[i] \in Done'
      BY <2>2, <2>3, <2>7, <3>1, ReportedStep, Zenon
    <3>3. /\ server' \in Consoles
          /\ \A i \in 1 .. Len(server'.lines) : server'.lines[i] \in Done'
      BY <2>2, <2>3, <2>7, <3>1, ReportedStep, Zenon
    <3> QED BY <3>2, <3>3 DEF Reported
  <2>9. OnThisPath'
    <3>1. ASSUME NEW w, NEW v, Strict!Happened(w) => Strict!Happened(v),
                 e.stamp = "real" /\ e.what = w => Strict!Happened(v)
          PROVE  Strict!Happened(w)' => Strict!Happened(v)'
      BY <2>6, <3>1, Zenon DEF Strict!Happened, Strict!Times
    <3>2. /\ Strict!Happened("completion")' => Strict!Happened("ack")'
          /\ Strict!Happened("ack")' => Strict!Happened("snoop")'
      <4>1. /\ Strict!Happened("completion") => Strict!Happened("ack")
            /\ e.stamp = "real" /\ e.what = "completion" => Strict!Happened("ack")
            /\ Strict!Happened("ack") => Strict!Happened("snoop")
            /\ e.stamp = "real" /\ e.what = "ack" => Strict!Happened("snoop")
        BY <2>2, Zenon DEF StrictInv, OnThisPath, Recordable
      <4>2. Strict!Happened("completion")' => Strict!Happened("ack")'
        BY <3>1, <4>1, Zenon
      <4>3. Strict!Happened("ack")' => Strict!Happened("snoop")'
        BY <3>1, <4>1, Zenon
      <4> QED BY <4>2, <4>3, Zenon
    <3>3. /\ Strict!Happened("persisted")' => kind = "writer_persisted"
          /\ Strict!Happened("coherent_sealed")' => kind # "writer_persisted"
      BY <2>2, <2>6 DEF StrictInv, OnThisPath, Recordable, Strict!Happened, Strict!Times
    <3> QED BY <2>1, <3>2, <3>3 DEF OnThisPath
  <2> QED BY <2>4, <2>5, <2>8, <2>9 DEF StrictInv
<1> QED BY <1>1, <1>2

(* Of the records of an event the first exists; of its captured lines the    *)
(* last exists, and it is later than the event.                             *)
LEMMA StampsAreLate ==
    ASSUME StrictInv, NEW w \in StrictNames
    PROVE  /\ Strict!Happened(w) => Strict!RealTime(w) \in Nat
           /\ Strict!Present(w) =>
                 /\ Strict!Happened(w) /\ Strict!Latest(w) \in Nat
                 /\ Strict!RealTime(w) < Strict!Latest(w)
<1> DEFINE reals == Strict!Times(w, {"real"})
           captured == Strict!Times(w, {"captured"})
<1>1. DOMAIN history = 1 .. Len(history) /\ Len(history) \in Nat
  BY DEF StrictInv
<1>2. /\ reals = { i \in 1 .. Len(history) : history[i].what = w /\ history[i].stamp = "real" }
      /\ captured = { i \in 1 .. Len(history) : history[i].what = w /\ history[i].stamp = "captured" }
  BY <1>1 DEF Strict!Times
<1>3. reals \subseteq Nat /\ captured \subseteq Nat
  BY <1>1, <1>2
<1>4. \A i \in captured : \E j \in reals : j < i
  BY <1>2 DEF StrictInv, CapturedAfter
<1>5. /\ reals # {} => \E i \in reals : \A j \in reals : i <= j
      /\ captured # {} => \E i \in captured : \A j \in captured : j <= i
  BY DEF StrictInv, FirstAndLast, Strict!Happened, Strict!Present, Strict!Captured
<1>6. /\ Strict!Happened(w) <=> reals # {}
      /\ Strict!Present(w) <=> captured # {}
      /\ Strict!RealTime(w) = CHOOSE i \in reals : \A j \in reals : i <= j
      /\ Strict!Latest(w) = CHOOSE i \in captured : \A j \in captured : j <= i
  BY DEF Strict!Happened, Strict!Present, Strict!Captured, Strict!RealTime, Strict!Latest
<1> HIDE DEF reals, captured
<1>7. reals # {} => Strict!RealTime(w) \in reals /\ \A j \in reals : Strict!RealTime(w) <= j
  BY <1>5, <1>6
<1>8. captured # {} => Strict!Latest(w) \in captured
  BY <1>5, <1>6
<1>9. captured # {} => reals # {} /\ Strict!RealTime(w) < Strict!Latest(w)
  <2> SUFFICES ASSUME captured # {}
               PROVE  reals # {} /\ Strict!RealTime(w) < Strict!Latest(w)
    OBVIOUS
  <2>1. PICK j \in reals : j < Strict!Latest(w)
    BY <1>4, <1>8
  <2>2. Strict!RealTime(w) \in reals /\ Strict!RealTime(w) <= j
    BY <1>7, <2>1
  <2>3. j \in Nat /\ Strict!RealTime(w) \in Nat /\ Strict!Latest(w) \in Nat
    BY <1>3, <1>8, <2>2, Zenon
  <2>4. Strict!RealTime(w) < Strict!Latest(w)
    BY <2>1, <2>2, <2>3
  <2> QED BY <2>1, <2>4
<1> QED BY <1>3, <1>6, <1>7, <1>8, <1>9, Zenon

(* What a strict persistency proof shows from the stamps of the console      *)
(* lines, for any lag and any number of mishaps: the authority read after the *)
(* store's success and its host fenced after the acquisition was first        *)
(* reported; the bytes left the writer after the unmap; on the writer's paths *)
(* only that the writer had reported when the begin of the store was read.   *)
THEOREM StrictProofAlways == Strict!Init /\ [][Strict!Next]_(Strict!vars) => []Strict!StrictProofIsReal
<1>1. Strict!Init => StrictInv
  <2> SUFFICES ASSUME Strict!Init PROVE StrictInv
    OBVIOUS
  <2>1. history = << >> /\ Len(<< >>) = 0 /\ << >> \in Seq(StrictEvents)
        /\ << >> \in Seq(StrictNames) /\ DOMAIN << >> = {}
    BY DEF Strict!Init
  <2>2. client = [lines |-> << >>, read |-> 0] /\ server = [lines |-> << >>, read |-> 0]
    BY DEF Strict!Init
  <2>3. \A w, stamps : Strict!Times(w, stamps) = {}
    BY <2>1 DEF Strict!Times
  <2>4. CapturedAfter /\ FirstAndLast /\ OnThisPath
    BY <2>1, <2>3 DEF CapturedAfter, FirstAndLast, OnThisPath, Strict!Happened, Strict!Present,
                      Strict!Captured
  <2>5. client \in Consoles /\ server \in Consoles /\ Reported(client) /\ Reported(server)
    BY <2>1, <2>2 DEF Consoles, Reported
  <2> QED BY <2>1, <2>4, <2>5 DEF StrictInv
<1>2. StrictInv /\ [Strict!Next]_(Strict!vars) => StrictInv'
  BY StrictStep
<1>3. StrictInv => Strict!StrictProofIsReal
  <2> SUFFICES ASSUME StrictInv
               PROVE  Strict!StrictProofIsReal
    OBVIOUS
  <2>1. {"success", "GETS", "acquired", "FENCE", "persisted", "coherent_sealed", "begin", "unmap",
         "snoop", "ack", "completion"} \subseteq StrictNames
    BY DEF StrictNames
  <2>2. ASSUME Strict!authority_proofs
        PROVE  /\ Strict!RealTime("success") < Strict!RealTime("GETS")
               /\ history[Strict!RealTime("GETS")].line = "in"
               /\ Strict!RealTime("acquired") < Strict!RealTime("FENCE")
               /\ history[Strict!RealTime("FENCE")].host = history[Strict!RealTime("GETS")].host
    <3>1. /\ Strict!Present("success") /\ Strict!AuthorityReads /\ Strict!AuthorityFences
          /\ Strict!OneShot("acquired")
      BY <2>2 DEF Strict!authority_proofs, Strict!Stored
    <3>2. /\ Strict!Happened("GETS") /\ history[Strict!RealTime("GETS")].line = "in"
          /\ Strict!Latest("success") < Strict!RealTime("GETS")
      BY <3>1 DEF Strict!AuthorityReads
    <3>3. /\ Strict!Happened("FENCE") /\ Strict!Latest("acquired") < Strict!RealTime("FENCE")
          /\ history[Strict!RealTime("FENCE")].host = history[Strict!RealTime("GETS")].host
      BY <3>1 DEF Strict!AuthorityFences
    <3>4. Strict!Present("acquired")
      BY <3>1 DEF Strict!OneShot, Strict!Present
    <3>5. /\ Strict!RealTime("success") \in Nat /\ Strict!Latest("success") \in Nat
          /\ Strict!RealTime("success") < Strict!Latest("success")
          /\ Strict!RealTime("GETS") \in Nat
      BY <2>1, <3>1, <3>2, StampsAreLate
    <3>6. /\ Strict!RealTime("acquired") \in Nat /\ Strict!Latest("acquired") \in Nat
          /\ Strict!RealTime("acquired") < Strict!Latest("acquired")
          /\ Strict!RealTime("FENCE") \in Nat
      BY <2>1, <3>3, <3>4, StampsAreLate
    <3> QED BY <3>2, <3>3, <3>5, <3>6
  <2>3. ASSUME NEW first \in {"persisted", "coherent_sealed"}, Strict!writer_proofs,
               Strict!Happened(first)
        PROVE  Strict!RealTime(first) < Strict!Latest("begin")
    <3>1. /\ first = "persisted" => kind = "writer_persisted"
          /\ first = "coherent_sealed" => kind # "writer_persisted"
      BY <2>3 DEF StrictInv, OnThisPath
    <3>2. Strict!Stored(first)
      BY <2>3, <3>1 DEF Strict!writer_proofs
    <3>3. /\ Strict!Present(first) /\ Strict!Present("begin")
          /\ Strict!Latest(first) < Strict!Latest("begin")
      BY <3>2 DEF Strict!Stored
    <3>4. /\ Strict!RealTime(first) \in Nat /\ Strict!Latest(first) \in Nat
          /\ Strict!RealTime(first) < Strict!Latest(first)
          /\ Strict!Latest("begin") \in Nat
      BY <2>1, <3>3, StampsAreLate
    <3> QED BY <3>3, <3>4
  <2>4. ASSUME Strict!bi_proofs
        PROVE  Strict!Happened("unmap") /\ Strict!RealTime("unmap") < Strict!RealTime("snoop")
    <3>1. /\ Strict!Present("unmap") /\ Strict!Happened("completion")
          /\ Strict!Latest("unmap") < Strict!RealTime("snoop")
      BY <2>4 DEF Strict!bi_proofs
    <3>2. Strict!Happened("snoop")
      BY <3>1 DEF StrictInv, OnThisPath
    <3>3. /\ Strict!Happened("unmap") /\ Strict!RealTime("unmap") \in Nat
          /\ Strict!Latest("unmap") \in Nat /\ Strict!RealTime("unmap") < Strict!Latest("unmap")
          /\ Strict!RealTime("snoop") \in Nat
      BY <2>1, <3>1, <3>2, StampsAreLate
    <3> QED BY <3>1, <3>3
  <2> QED BY <2>2, <2>3, <2>4 DEF Strict!StrictProofIsReal
<1> QED BY <1>1, <1>2, <1>3, PTL

-----------------------------------------------------------------------------
(* The direct write.  An event happens once; a line is captured after it    *)
(* was printed.                                                             *)
CONSTANTS Mapping, DirectLines
VARIABLE odd
Direct == INSTANCE DirtyCorrelation WITH Lines <- DirectLines

DirectNames ==
    {"drop", "drop_captured", "unmap", "unmap_captured", "begin", "success", "success_captured", "snoop", "ack", "completion"}
DirectEvents ==
    [what : DirectNames, who : DOMAIN Mapping \cup DirectLines, dirty : BOOLEAN, ok : BOOLEAN]
Once ==
    \A i, j \in 1 .. Len(history) :
        history[i].what = history[j].what /\ history[i].who = history[j].who => i = j
Captured == [drop |-> "drop_captured", unmap |-> "unmap_captured"]
PrintedBefore ==
    \A w \in Direct!Attempts : \A i \in 1 .. Len(history) : history[i].what = Captured[w] =>
        \E j \in 1 .. Len(history) :
            j < i /\ history[j].what = w /\ history[j].who = history[i].who
Printed(what, who) == \A w \in Direct!Attempts : what = Captured[w] => Direct!Happened(w, who)
DirectInv == history \in Seq(DirectEvents) /\ Once /\ PrintedBefore

(* Every step records an event that has not happened yet.                   *)
LEMMA DirectMoves ==
    ASSUME Direct!Next
    PROVE  \E e \in DirectEvents :
              /\ history' = Append(history, e) /\ ~Direct!Happened(e.what, e.who)
              /\ Printed(e.what, e.who)
<1> DEFINE Goal == \E e \in DirectEvents :
              /\ history' = Append(history, e) /\ ~Direct!Happened(e.what, e.who)
              /\ Printed(e.what, e.who)
<1>1. ASSUME NEW what \in DirectNames, NEW who \in DOMAIN Mapping \cup DirectLines,
             NEW dirty \in BOOLEAN, NEW ok \in BOOLEAN, ~Direct!Happened(what, who),
             history' = Append(history, [what |-> what, who |-> who, dirty |-> dirty, ok |-> ok]),
             Printed(what, who)
      PROVE  Goal
  <2> DEFINE e == [what |-> what, who |-> who, dirty |-> dirty, ok |-> ok]
  <2>1. e \in DirectEvents /\ e.what = what /\ e.who = who
    BY Zenon DEF DirectEvents
  <2> HIDE DEF e
  <2>2. history' = Append(history, e)
    BY <1>1 DEF e
  <2> QED BY <1>1, <2>1, <2>2, Zenon
<1> HIDE DEF Goal
<1>2. ASSUME NEW what \in DirectNames, NEW who \in DOMAIN Mapping \cup DirectLines,
             Direct!Records(what, who), Printed(what, who)
      PROVE  Goal
  <2>1. /\ ~Direct!Happened(what, who)
        /\ history' = Append(history, [what |-> what, who |-> who, dirty |-> FALSE, ok |-> TRUE])
    BY <1>2 DEF Direct!Records, Direct!Event
  <2> QED BY <1>1, <1>2, <2>1, Zenon
<1>3. /\ {"drop", "drop_captured", "unmap", "unmap_captured", "begin", "success", "success_captured",
          "snoop", "ack", "completion"} \subseteq DirectNames
      /\ \A who : /\ Printed("drop", who) /\ Printed("unmap", who) /\ Printed("begin", who)
                  /\ Printed("success", who) /\ Printed("success_captured", who)
                  /\ Printed("snoop", who) /\ Printed("ack", who) /\ Printed("completion", who)
                  /\ Direct!Happened("drop", who) => Printed("drop_captured", who)
                  /\ Direct!Happened("unmap", who) => Printed("unmap_captured", who)
  BY DEF DirectNames, Printed, Captured, Direct!Attempts
<1>4. ASSUME NEW o \in DOMAIN Mapping, Direct!Drops(o)
      PROVE  Goal
  <2>1. PICK ok \in BOOLEAN :
            history' = Append(history, [what |-> "drop", who |-> o, dirty |-> FALSE, ok |-> ok])
    BY <1>4, Zenon DEF Direct!Drops
  <2>3. ~Direct!Happened("drop", o)
    BY <1>4 DEF Direct!Drops
  <2>4. o \in DOMAIN Mapping \cup DirectLines
    OBVIOUS
  <2> QED BY <1>1, <1>3, <2>1, <2>3, <2>4, Zenon
<1>5. ASSUME NEW o \in DOMAIN Mapping,
             Direct!Unmaps(o) \/ Direct!Begins(o) \/ Direct!Succeeds(o) \/ Direct!Captures(o)
      PROVE  Goal
  <2>1. \/ Direct!Records("unmap", o) \/ Direct!Records("begin", o)
        \/ Direct!Records("success", o) \/ Direct!Records("success_captured", o)
        \/ Direct!Happened("unmap", o) /\ Direct!Records("unmap_captured", o)
        \/ Direct!Happened("drop", o) /\ Direct!Records("drop_captured", o)
    BY <1>5 DEF Direct!Unmaps, Direct!Begins, Direct!Succeeds, Direct!Captures, Direct!Happens
  <2>2. o \in DOMAIN Mapping \cup DirectLines
    OBVIOUS
  <2> QED BY <1>2, <1>3, <2>1, <2>2, Zenon
<1>6. ASSUME NEW l \in DirectLines, Direct!Snoops(l) \/ Direct!Completes(l)
      PROVE  Goal
  <2>1. Direct!Records("snoop", l) \/ Direct!Records("completion", l)
    BY <1>6, Zenon DEF Direct!Snoops, Direct!Completes, Direct!Happens
  <2>2. l \in DOMAIN Mapping \cup DirectLines
    OBVIOUS
  <2> QED BY <1>2, <1>3, <2>1, <2>2, Zenon
<1>7. ASSUME NEW l \in DirectLines, Direct!Acks(l)
      PROVE  Goal
  <2>1. PICK dirty \in BOOLEAN, ok \in BOOLEAN :
            /\ ~Direct!Happened("ack", l)
            /\ history' = Append(history, [what |-> "ack", who |-> l, dirty |-> dirty, ok |-> ok])
    BY <1>7 DEF Direct!Acks
  <2>2. l \in DOMAIN Mapping \cup DirectLines
    OBVIOUS
  <2> QED BY <1>1, <1>3, <2>1, <2>2, Zenon
<1> QED BY <1>4, <1>5, <1>6, <1>7 DEF Direct!Next, Direct!Ops, Goal

(* A step keeps DirectInv.                                                  *)
LEMMA DirectStep ==
    ASSUME DirectInv, [Direct!Next]_(Direct!vars)
    PROVE  DirectInv'
<1>1. CASE UNCHANGED Direct!vars
  BY <1>1 DEF Direct!vars, DirectInv, Once, PrintedBefore
<1>2. CASE Direct!Next
  <2>1. PICK e \in DirectEvents :
              /\ history' = Append(history, e) /\ ~Direct!Happened(e.what, e.who)
              /\ Printed(e.what, e.who)
    BY <1>2, DirectMoves
  <2> DEFINE n == Len(history)
  <2>t. history \in Seq(DirectEvents) /\ Once /\ PrintedBefore
    BY DEF DirectInv
  <2>a. history' = Append(history, e)
    BY <2>1
  <2>b. DOMAIN history = 1 .. n /\ n \in Nat
    BY <2>t
  <2>2. /\ n \in Nat /\ history' \in Seq(DirectEvents) /\ Len(history') = n + 1
        /\ history'[n + 1] = e /\ \A i \in 1 .. n : history'[i] = history[i]
        /\ DOMAIN history = 1 .. n
    BY <2>a, <2>b, <2>t
  <2> HIDE DEF n
  <2>3. \A i \in 1 .. n : ~(history[i].what = e.what /\ history[i].who = e.who)
    BY <2>1, <2>2 DEF Direct!Happened
  <2>4. ASSUME NEW i \in 1 .. n + 1, NEW j \in 1 .. n + 1,
               history'[i].what = history'[j].what, history'[i].who = history'[j].who
        PROVE  i = j
    <3>1. CASE i \in 1 .. n /\ j \in 1 .. n
      BY <3>1, <2>2, <2>4, <2>t DEF Once, n
    <3>2. CASE i = n + 1 \/ j = n + 1
      BY <3>2, <2>2, <2>3, <2>4
    <3> QED BY <3>1, <3>2, <2>2
  <2>5. ASSUME NEW w \in Direct!Attempts, NEW i \in 1 .. n + 1, history'[i].what = Captured[w]
        PROVE  \E j \in 1 .. n + 1 :
                  j < i /\ history'[j].what = w /\ history'[j].who = history'[i].who
    <3>1. CASE i \in 1 .. n
      <4>1. PICK j \in 1 .. n : j < i /\ history[j].what = w /\ history[j].who = history[i].who
        BY <3>1, <2>2, <2>5, <2>t DEF PrintedBefore, n
      <4> QED BY <4>1, <3>1, <2>2
    <3>2. CASE i = n + 1
      <4>1. Direct!Happened(w, e.who)
        BY <3>2, <2>1, <2>2, <2>5 DEF Printed
      <4>2. PICK j \in 1 .. n : history[j].what = w /\ history[j].who = e.who
        BY <4>1, <2>2 DEF Direct!Happened
      <4> QED BY <4>2, <3>2, <2>2
    <3> QED BY <3>1, <3>2, <2>2
  <2>6. Once'
    BY <2>2, <2>4 DEF Once
  <2>7. PrintedBefore'
    BY <2>2, <2>5 DEF PrintedBefore
  <2> QED BY <2>2, <2>6, <2>7 DEF DirectInv
<1> QED BY <1>1, <1>2

(* validate_host_capture_order, for any mappings and lines: evidence it     *)
(* accepts is of modified bytes of the operation's own mapping, that were   *)
(* taken back from node1, completely, after a drop or an unmap of it, which  *)
(* is the successful one when there is no other.                            *)
THEOREM TakenBackAlways == Direct!Init /\ [][Direct!Next]_(Direct!vars) => []Direct!TakenBackAfterUnmap
<1>1. Direct!Init => DirectInv
  <2> SUFFICES ASSUME Direct!Init PROVE DirectInv
    OBVIOUS
  <2>1. history = << >> /\ Len(<< >>) = 0 /\ << >> \in Seq(DirectEvents)
    BY DEF Direct!Init
  <2> QED BY <2>1 DEF DirectInv, Once, PrintedBefore
<1>2. DirectInv /\ [Direct!Next]_(Direct!vars) => DirectInv'
  BY DirectStep
<1>3. DirectInv => Direct!TakenBackAfterUnmap
  <2> SUFFICES ASSUME DirectInv
               PROVE  Direct!TakenBackAfterUnmap
    OBVIOUS
  <2>2. ASSUME NEW what, NEW who, Direct!Happened(what, who)
        PROVE  /\ Direct!At(what, who) \in 1 .. Len(history)
               /\ history[Direct!At(what, who)].what = what
               /\ history[Direct!At(what, who)].who = who
    <3>1. DOMAIN history = 1 .. Len(history)
      BY Indices, Zenon DEF DirectInv
    <3> QED BY <2>2, <3>1 DEF Direct!Happened, Direct!At
  <2>3. ASSUME NEW p \in Direct!validate_host_capture_order
        PROVE  /\ p[2] \in Mapping[p[1]] /\ history[Direct!At("ack", p[2])].dirty
               /\ \E w \in Direct!Attempts :
                    Direct!Happened(w, p[1]) /\ Direct!At(w, p[1]) < Direct!At("snoop", p[2])
               /\ Direct!At("snoop", p[2]) < Direct!At("completion", p[2])
    <3>1. /\ p[2] \in Mapping[p[1]] /\ Direct!GoodSnoop(p[2]) /\ Direct!Finished(p[1])
          /\ Direct!Ordered(p[1], p[2])
      BY <2>3, Zenon DEF Direct!validate_host_capture_order, Direct!correlate_dirty_backinvalidations
    <3> DEFINE o == p[1]
               l == p[2]
               s == Direct!At("snoop", l)
               a == Direct!At("ack", l)
               c == Direct!At("completion", l)
    <3>2. /\ s \in 1 .. Len(history) /\ a \in 1 .. Len(history) /\ c \in 1 .. Len(history)
          /\ history[s].what = "snoop" /\ history[a].what = "ack"
      BY <2>2, <3>1 DEF Direct!GoodSnoop
    <3>3. s < c
      <4>1. s <= a /\ a <= c
        BY <3>1, Zenon DEF Direct!GoodSnoop
      <4>2. s # a /\ Len(history) \in Nat
        BY <3>2 DEF DirectInv
      <4> QED BY <3>2, <4>1, <4>2, Between, Zenon
    <3>4. PICK w \in Direct!Attempts :
            Direct!Happened(Captured[w], o) /\ Direct!At(Captured[w], o) < s
      BY <3>1 DEF Direct!Ordered, Direct!Attempts, Captured
    <3> DEFINE u == Direct!At(Captured[w], o)
    <3>5. u \in 1 .. Len(history) /\ history[u].what = Captured[w] /\ history[u].who = o /\ u < s
      BY <2>2, <3>4
    <3> HIDE DEF s, a, c, u, o, l
    <3>6. PICK j \in 1 .. Len(history) : j < u /\ history[j].what = w /\ history[j].who = o
      BY <3>5 DEF DirectInv, PrintedBefore
    <3>7. Direct!Happened(w, o) /\ Direct!At(w, o) = j
      <4>1. Direct!Happened(w, o)
        BY <3>6, Indices DEF DirectInv, Direct!Happened
      <4>2. /\ Direct!At(w, o) \in 1 .. Len(history)
            /\ history[Direct!At(w, o)].what = w /\ history[Direct!At(w, o)].who = o
        BY <2>2, <4>1
      <4> QED BY <4>1, <4>2, <3>6 DEF DirectInv, Once
    <3>8. Direct!Happened(w, p[1]) /\ Direct!At(w, p[1]) < Direct!At("snoop", p[2])
      BY <3>2, <3>5, <3>6, <3>7 DEF s, o, l
    <3> QED BY <3>1, <3>3, <3>8 DEF Direct!GoodSnoop, s, c, l
  <2> QED BY <2>3 DEF Direct!TakenBackAfterUnmap
<1> QED BY <1>1, <1>2, <1>3, PTL

-----------------------------------------------------------------------------
(* The guests of the back-invalidate application.  A summary on a console   *)
(* is the last record of its guest, and carries all the errors it counted.  *)
CONSTANTS MaxNoise, MaxErrors
VARIABLES stage, errors, geometry, checksum, lines, gaveUp, counted, noise, verdict
Guests == INSTANCE GuestEvidence

GuestNames == {"mapped", "litmus", "pingpong", "read_verify_0", "read_verify_1", "write_0", "write_1"}
GuestRecord == (GuestNames \cup {"summary", "fatal", "damaged"}) \X Nat
SummaryTells(r) ==
    \A i \in 1 .. Len(lines[r]) :
        lines[r][i][1] = "summary" => stage[r] = 6 /\ lines[r][i][2] = errors[r]

GuestInv ==
    /\ stage \in [{"reader", "writer"} -> Nat]
    /\ errors \in [{"reader", "writer"} -> Nat]
    /\ lines \in [{"reader", "writer"} -> Seq(GuestRecord)]
    /\ \A r \in {"reader", "writer"} : SummaryTells(r)
    /\ Guests!PassedIsClean

(* The records in the order of the stages: the summary is the sixth.        *)
LEMMA StageRecords ==
    ASSUME NEW r \in {"reader", "writer"}, NEW s \in 1 .. 6
    PROVE  /\ Guests!Stages(r)[s] \in GuestNames \cup {"summary"}
           /\ Guests!Stages(r)[s] = "summary" <=> s = 6
<1> USE DEF GuestNames
<1>1. s \in {1, 2, 3, 4, 5, 6}
  OBVIOUS
<1>2. /\ Guests!Stages(r)[1] = "mapped" /\ Guests!Stages(r)[2] = "litmus"
      /\ Guests!Stages(r)[3] = "pingpong" /\ Guests!Stages(r)[6] = "summary"
  BY DEF Guests!Stages
<1>3. Guests!Stages(r)[4] \in GuestNames /\ Guests!Stages(r)[5] \in GuestNames
  BY DEF Guests!Stages
<1> QED BY <1>1, <1>2, <1>3, Zenon

(* A guest ends a stage.                                                    *)
LEMMA StageEnds ==
    ASSUME GuestInv, NEW r \in {"reader", "writer"}, NEW found \in 0 .. 1,
           Guests!EndStage(r, found)
    PROVE  GuestInv'
<1> DEFINE s == stage[r] + 1
           event == Guests!Stages(r)[s]
           record == <<event, Guests!Reported(r, event, found)>>
<1>1. /\ s \in 1 .. 6 /\ stage[r] # 6
      /\ stage' = [stage EXCEPT ![r] = s] /\ errors' = [errors EXCEPT ![r] = @ + found]
      /\ lines' = [lines EXCEPT ![r] = Append(@, record)]
      /\ verdict = "waiting" /\ verdict' = verdict
  <2>1. s <= 6 /\ stage[r] \in Nat
    BY DEF Guests!EndStage, GuestInv, Guests!Last
  <2>2. stage' = [stage EXCEPT ![r] = s] /\ errors' = [errors EXCEPT ![r] = @ + found]
    BY DEF Guests!EndStage
  <2>3. /\ lines' = [lines EXCEPT ![r] = Append(@, record)]
        /\ verdict = "waiting" /\ verdict' = verdict
    BY Zenon DEF Guests!EndStage
  <2> QED BY <2>1, <2>2, <2>3
<1>2. event \in GuestNames \cup {"summary"} /\ (event = "summary" <=> s = 6)
  BY <1>1, StageRecords, Zenon
<1> HIDE DEF event
<1>3. Guests!Reported(r, event, found) \in Nat
  BY DEF Guests!Reported, GuestInv
<1>4. event = "summary" => Guests!Reported(r, event, found) = errors[r] + found
  BY DEF Guests!Reported, Guests!Writes, Guests!Reads
<1> HIDE DEF s
<1>5. record \in GuestRecord
  BY <1>2, <1>3, Zenon DEF GuestRecord
<1>6. /\ stage' \in [{"reader", "writer"} -> Nat] /\ errors' \in [{"reader", "writer"} -> Nat]
      /\ lines' \in [{"reader", "writer"} -> Seq(GuestRecord)]
  <2>1. /\ stage' \in [{"reader", "writer"} -> Nat] /\ errors' \in [{"reader", "writer"} -> Nat]
    BY <1>1 DEF GuestInv
  <2> HIDE DEF record
  <2>2. lines' \in [{"reader", "writer"} -> Seq(GuestRecord)]
    BY <1>1, <1>5, OneGrows, Zenon DEF GuestInv
  <2> QED BY <2>1, <2>2, Zenon
<1>7. ASSUME NEW q \in {"reader", "writer"}, q # r
      PROVE  SummaryTells(q)'
  BY <1>1, <1>7, Zenon DEF GuestInv, SummaryTells
<1>8. SummaryTells(r)'
  <2>1. record[1] = event /\ record[2] = Guests!Reported(r, event, found)
    BY Zenon
  <2> HIDE DEF record
  <2>2. ASSUME NEW i \in 1 .. Len(lines'[r])
        PROVE  \/ i \in 1 .. Len(lines[r]) /\ lines'[r][i] = lines[r][i]
               \/ lines'[r][i] = record
    <3>1. lines'[r] = Append(lines[r], record) /\ lines[r] \in Seq(GuestRecord)
      BY <1>1, Zenon DEF GuestInv
    <3> QED BY <1>5, <2>2, <3>1, Appended
  <2>3. \A i \in 1 .. Len(lines[r]) : lines[r][i][1] # "summary"
    BY <1>1, Zenon DEF GuestInv, SummaryTells
  <2>4. stage'[r] = s /\ errors'[r] = errors[r] + found
    BY <1>1, Zenon DEF GuestInv
  <2>5. record[1] = "summary" => stage'[r] = 6 /\ record[2] = errors'[r]
    BY <1>2, <1>4, <2>1, <2>4, Zenon
  <2> QED BY <2>2, <2>3, <2>5, Zenon DEF SummaryTells
<1> QED BY <1>1, <1>6, <1>7, <1>8, Zenon DEF GuestInv, Guests!PassedIsClean

(* A guest gives up: its fatal record is no summary.                        *)
LEMMA GivesUp ==
    ASSUME GuestInv, NEW r \in {"reader", "writer"}, Guests!Fatal(r)
    PROVE  GuestInv'
<1>1. /\ stage' = stage /\ errors' = errors /\ verdict = "waiting" /\ verdict' = verdict
      /\ lines' = [lines EXCEPT ![r] = Append(@, <<"fatal", 0>>)]
  BY DEF Guests!Fatal, Guests!FatalRecord
<1>2. <<"fatal", 0>> \in GuestRecord
  BY DEF GuestRecord
<1>3. lines' \in [{"reader", "writer"} -> Seq(GuestRecord)]
  BY <1>1, <1>2, OneGrows, Zenon DEF GuestInv
<1>4. ASSUME NEW q \in {"reader", "writer"}, q # r
      PROVE  SummaryTells(q)'
  BY <1>1, <1>4, Zenon DEF GuestInv, SummaryTells
<1>5. SummaryTells(r)'
  <2>1. /\ Len(lines[r]) \in Nat /\ Len(lines'[r]) = Len(lines[r]) + 1
        /\ lines'[r][Len(lines[r]) + 1] = <<"fatal", 0>>
        /\ \A i \in 1 .. Len(lines[r]) : lines'[r][i] = lines[r][i]
    BY <1>1, <1>2 DEF GuestInv
  <2>2. <<"fatal", 0>>[1] # "summary"
    OBVIOUS
  <2> QED BY <1>1, <2>1, <2>2 DEF SummaryTells, GuestInv
<1> QED BY <1>1, <1>3, <1>4, <1>5, Zenon DEF GuestInv, Guests!PassedIsClean

(* A kernel message takes a record from a console, or damages it.           *)
LEMMA CutsInto ==
    ASSUME GuestInv, NEW r \in {"reader", "writer"}, Guests!CutInto(r)
    PROVE  GuestInv'
<1>1. /\ stage' = stage /\ errors' = errors /\ verdict = "waiting" /\ verdict' = verdict
      /\ lines[r] # << >>
  BY DEF Guests!CutInto
<1>2. PICK cut \in { << >>, <<Guests!Damaged>> } :
        lines' = [lines EXCEPT ![r] = SubSeq(@, 1, Len(@) - 1) \o cut]
  BY Zenon DEF Guests!CutInto
<1>3. Guests!Damaged \in GuestRecord /\ Guests!Damaged[1] # "summary"
  BY DEF GuestRecord, Guests!Damaged
<1> DEFINE kept == SubSeq(lines[r], 1, Len(lines[r]) - 1)
<1>4. /\ lines[r] \in Seq(GuestRecord) /\ Len(lines[r]) \in Nat /\ Len(lines[r]) > 0
  BY <1>1 DEF GuestInv
<1>5. /\ kept \in Seq(GuestRecord) /\ Len(kept) = Len(lines[r]) - 1
      /\ \A i \in 1 .. Len(kept) : kept[i] = lines[r][i] /\ i \in 1 .. Len(lines[r])
  BY <1>4
<1> HIDE DEF kept
<1>6. lines' = [lines EXCEPT ![r] = kept \o cut]
  BY <1>2, Zenon DEF kept
<1>7. /\ lines'[r] \in Seq(GuestRecord)
      /\ \A i \in 1 .. Len(lines'[r]) :
            \/ i \in 1 .. Len(lines[r]) /\ lines'[r][i] = lines[r][i]
            \/ lines'[r][i] = Guests!Damaged
  <2>0. lines'[r] = kept \o cut
    BY <1>6, Zenon DEF GuestInv
  <2>1. CASE cut = << >>
    <3>1. kept \o cut = kept
      BY <1>5, <2>1
    <3> QED BY <3>1, <2>0, <1>5, Zenon
  <2>2. CASE cut = <<Guests!Damaged>>
    <3>1. /\ kept \o <<Guests!Damaged>> \in Seq(GuestRecord)
          /\ Len(kept) \in Nat /\ Len(kept \o <<Guests!Damaged>>) = Len(kept) + 1
          /\ (kept \o <<Guests!Damaged>>)[Len(kept) + 1] = Guests!Damaged
          /\ \A i \in 1 .. Len(kept) : (kept \o <<Guests!Damaged>>)[i] = kept[i]
      BY <1>3, <1>5
    <3> QED BY <3>1, <2>0, <2>2, <1>5
  <2> QED BY <1>2, <2>1, <2>2, Zenon
<1>8. lines' \in [{"reader", "writer"} -> Seq(GuestRecord)]
  BY <1>6, <1>7, Zenon DEF GuestInv
<1>9. ASSUME NEW q \in {"reader", "writer"}, q # r
      PROVE  SummaryTells(q)'
  BY <1>1, <1>6, <1>9, Zenon DEF GuestInv, SummaryTells
<1>10. SummaryTells(r)'
  BY <1>1, <1>3, <1>7, Zenon DEF SummaryTells, GuestInv
<1> QED BY <1>1, <1>8, <1>9, <1>10, Zenon DEF GuestInv, Guests!PassedIsClean

(* The runner judges: it passes a run on two summaries without errors.      *)
LEMMA Judges ==
    ASSUME GuestInv, Guests!Judge
    PROVE  GuestInv'
<1>1. stage' = stage /\ errors' = errors /\ lines' = lines /\ geometry' = geometry
  BY Zenon DEF Guests!Judge
<1>2. checksum' = checksum /\ counted' = counted
  BY DEF Guests!Judge
<1>3. ASSUME verdict' = "passed"
      PROVE  /\ Guests!validate_guest_evidence
             /\ counted = 0
  <2>1. PICK printed \in { <<counted>> } \cup IF noise < MaxNoise THEN { << >> } ELSE {} :
            verdict' = IF Guests!validate_guest_evidence /\ Guests!parse_server_stats(printed)
                       THEN "passed" ELSE "failed"
    BY Zenon DEF Guests!Judge
  <2>2. Guests!validate_guest_evidence /\ Guests!parse_server_stats(printed)
    BY <2>1, <1>3, Zenon
  <2>3. printed = <<counted>> \/ printed = << >>
    BY <2>1, Zenon
  <2>4. Len(<< >>) = 0
    OBVIOUS
  <2>5. printed = <<counted>>
    BY <2>2, <2>3, <2>4 DEF Guests!parse_server_stats
  <2>6. 1 \in 1 .. Len(printed) /\ printed[1] = counted
    BY <2>5
  <2> QED BY <2>2, <2>6, Zenon DEF Guests!parse_server_stats
<1>4. ASSUME verdict' = "passed", NEW r \in {"reader", "writer"}
      PROVE  stage[r] = 6 /\ errors[r] = 0
  <2>1. Guests!Clean(r, {"summary"})
    BY <1>3, <1>4, Zenon DEF Guests!validate_guest_evidence, Guests!_one_event, Guests!Roles
  <2>2. Guests!Records(r, {"summary"}) # {}
    BY Zenon DEF Guests!Judge, Guests!SummarySeen, Guests!Roles
  <2>3. PICK i \in 1 .. Len(lines[r]) : lines[r][i][1] = "summary" /\ lines[r][i][2] = 0
    BY <2>1, <2>2, Zenon DEF Guests!Clean, Guests!Records
  <2> QED BY <2>3, Zenon DEF GuestInv, SummaryTells
<1>5. Guests!PassedIsClean'
  <2>1. ASSUME verdict' = "passed"
        PROVE  geometry["reader"] = geometry["writer"] /\ checksum["reader"] = checksum["writer"]
    BY <1>3, <2>1, Zenon DEF Guests!validate_guest_evidence
  <2> QED BY <1>1, <1>2, <1>3, <1>4, <2>1, Zenon DEF Guests!PassedIsClean, Guests!Roles, Guests!Last
<1> QED BY <1>1, <1>5 DEF GuestInv, SummaryTells

(* A step of the guests, of the server or of the runner keeps GuestInv.     *)
LEMMA GuestStep ==
    ASSUME GuestInv, [Guests!Next]_(Guests!vars)
    PROVE  GuestInv'
<1>1. CASE UNCHANGED Guests!vars
  BY <1>1, Zenon DEF Guests!vars, GuestInv, SummaryTells, Guests!PassedIsClean
<1>2. CASE Guests!ServerCounts
  BY <1>2, Zenon DEF Guests!ServerCounts, GuestInv, SummaryTells, Guests!PassedIsClean
<1>3. CASE Guests!WaitFails
  BY <1>3, Zenon DEF Guests!WaitFails, GuestInv, SummaryTells, Guests!PassedIsClean
<1> QED BY <1>1, <1>2, <1>3, StageEnds, GivesUp, CutsInto, Judges, Zenon DEF Guests!Next, Guests!Roles

(* cxl_bi_app.py, for any number of errors and of kernel messages: a run    *)
(* passes only when both guests ended all their stages, and nobody counted  *)
(* an error.                                                                *)
THEOREM PassedIsCleanAlways == Guests!Init /\ [][Guests!Next]_(Guests!vars) => []Guests!PassedIsClean
<1>1. Guests!Init => GuestInv
  <2> SUFFICES ASSUME Guests!Init PROVE GuestInv
    OBVIOUS
  <2>1. /\ stage = [r \in {"reader", "writer"} |-> 0] /\ errors = [r \in {"reader", "writer"} |-> 0]
        /\ lines = [r \in {"reader", "writer"} |-> << >>] /\ verdict = "waiting"
    BY Zenon DEF Guests!Init, Guests!Roles
  <2>2. << >> \in Seq(GuestRecord) /\ Len(<< >>) = 0
    OBVIOUS
  <2> QED BY <2>1, <2>2 DEF GuestInv, SummaryTells, Guests!PassedIsClean
<1>2. GuestInv /\ [Guests!Next]_(Guests!vars) => GuestInv'
  BY GuestStep, Zenon
<1>3. GuestInv => Guests!PassedIsClean
  BY Zenon DEF GuestInv
<1> QED BY <1>1, <1>2, <1>3, PTL

=============================================================================
