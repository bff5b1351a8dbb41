--------------------------- MODULE BuildManifest ----------------------------
(***************************************************************************)
(* The build manifest of an IO500 platform, and who shares it without a    *)
(* lock: a rebuild of the guest payload (rebuild_legofs_io500_payload.sh,   *)
(* write_manifest.py), a rebuild of the CXL server                          *)
(* (rebuild_legofs_io500_cxlmemsim.sh, update_legofs_io500_artifact.py), and *)
(* a reader that verifies artifacts against it (legofs_io500.py,            *)
(* legofs_evaluation_manifest.py).  Both writers use the same temporary     *)
(* name; any of them may be killed at any step.                             *)
(***************************************************************************)
EXTENDS Naturals

CONSTANT MaxBuilds   \* bound: rebuilds begun, of either kind

Artifacts == {"cxlmemsim_server", "payload", "isa_gate"}
Order == <<"cxlmemsim_server", "payload", "isa_gate">>   \* of recording and verifying
Writers == {"payload_rebuild", "server_rebuild"}

VARIABLES
    files,      \* artifact -> the version installed; each install is a new one
    builds,
    manifest,   \* what the manifest's name leads to
    tmp,        \* what its temporary name leads to
    pc,         \* of the writers
    fd,         \* the file a writer has open: "tmp", "manifest" or "gone"
    draft,      \* the document a writer has built so far
    before,     \* platform_hashes_before
    reader
vars == <<files, builds, manifest, tmp, pc, fd, draft, before, reader>>

Entry(v, h) == [version |-> v, hashed |-> h]
Sizes == [a \in Artifacts |-> Entry(0, FALSE)]
Hashes == [a \in Artifacts |-> Entry(0, TRUE)]

(* What a name leads to: nothing, bytes that are no JSON object (an empty    *)
(* file, a mixture), what a writer has begun to write, a whole document.     *)
Content(state, by, doc) == [state |-> state, by |-> by, doc |-> doc]
NoFile == Content("none", "nobody", Sizes)
Torn == Content("torn", "nobody", Sizes)
Partial(w) == Content("partial", w, Sizes)
Whole(doc) == Content("whole", "nobody", doc)

NotReading == [pc |-> 0, doc |-> Sizes, strict |-> FALSE, seen |-> [a \in Artifacts |-> 0]]

(* The full build records sizes only; an earlier payload rebuild, hashes.    *)
Init ==
    /\ files = [a \in Artifacts |-> 0] /\ builds = 0
    /\ manifest \in {Whole(Sizes), Whole(Hashes)}
    /\ tmp = NoFile
    /\ pc = [w \in Writers |-> "idle"] /\ fd = [w \in Writers |-> "gone"]
    /\ draft = [w \in Writers |-> Sizes] /\ before = 0
    /\ reader = NotReading

-----------------------------------------------------------------------------
At(w, here, there) == pc[w] = here /\ pc' = [pc EXCEPT ![w] = there]
Ends(w) == pc' = [pc EXCEPT ![w] = "idle"] /\ fd' = [fd EXCEPT ![w] = "gone"]
           /\ draft' = [draft EXCEPT ![w] = Sizes]
Install(a) == files' = [files EXCEPT ![a] = builds]
Record(w, a) == draft' = [draft EXCEPT ![w][a] = Entry(files[a], TRUE)]

Begins(w, to) ==
    /\ At(w, "idle", to) /\ builds < MaxBuilds /\ builds' = builds + 1

(* The payload rebuild: hash the platform, build, hash it again, install.    *)
PayloadBegins ==
    /\ Begins("payload_rebuild", "built") /\ before' = files["cxlmemsim_server"]
    /\ UNCHANGED <<files, manifest, tmp, fd, draft, reader>>

(* Mutant: the platform is not hashed again.                                 *)
PlatformNotChecked == TRUE
PlatformUnchanged == files["cxlmemsim_server"] = before

PayloadChecks ==
    /\ pc["payload_rebuild"] = "built"
    /\ IF PlatformUnchanged
       THEN pc' = [pc EXCEPT !["payload_rebuild"] = "checked"] /\ UNCHANGED <<fd, draft>>
       ELSE Ends("payload_rebuild")
    /\ UNCHANGED <<files, builds, manifest, tmp, before, reader>>
PayloadInstalls ==
    /\ \/ At("payload_rebuild", "checked", "image") /\ Install("payload")
       \/ At("payload_rebuild", "image", "record1") /\ Install("isa_gate")
    /\ UNCHANGED <<builds, manifest, tmp, fd, draft, before, reader>>

(* parse_artifacts: one artifact after the other.                            *)
PayloadRecords ==
    /\ \/ At("payload_rebuild", "record1", "record2") /\ Record("payload_rebuild", Order[1])
       \/ At("payload_rebuild", "record2", "record3") /\ Record("payload_rebuild", Order[2])
       \/ At("payload_rebuild", "record3", "open") /\ Record("payload_rebuild", Order[3])
    /\ UNCHANGED <<files, builds, manifest, tmp, fd, before, reader>>

(* The server rebuild: install, read the manifest, replace one entry.        *)
ServerBegins ==
    /\ Begins("server_rebuild", "built")
    /\ UNCHANGED <<files, manifest, tmp, fd, draft, before, reader>>
ServerInstalls ==
    /\ At("server_rebuild", "built", "read") /\ Install("cxlmemsim_server")
    /\ UNCHANGED <<builds, manifest, tmp, fd, draft, before, reader>>
ServerReads ==
    /\ pc["server_rebuild"] = "read"
    /\ IF manifest.state # "whole" THEN Ends("server_rebuild")
       ELSE /\ pc' = [pc EXCEPT !["server_rebuild"] = "record"]
            /\ draft' = [draft EXCEPT !["server_rebuild"] = manifest.doc] /\ UNCHANGED fd
    /\ UNCHANGED <<files, builds, manifest, tmp, before, reader>>
ServerRecords ==
    /\ At("server_rebuild", "record", "open") /\ Record("server_rebuild", "cxlmemsim_server")
    /\ UNCHANGED <<files, builds, manifest, tmp, fd, before, reader>>
(* Both write like this: open for writing, which empties a file that is      *)
(* there, write, flush, replace.  What another writer has open under the     *)
(* temporary name is the same file, before and after it is renamed.          *)
Opens(w) ==
    /\ At(w, "open", "write")
    /\ tmp' = Torn /\ fd' = [fd EXCEPT ![w] = "tmp"]
    /\ UNCHANGED <<files, builds, manifest, draft, before, reader>>

Behind(w) == IF fd[w] = "tmp" THEN tmp ELSE manifest
PutBehind(w, c) ==
    /\ tmp' = (IF fd[w] = "tmp" THEN c ELSE tmp)
    /\ manifest' = (IF fd[w] = "manifest" THEN c ELSE manifest)
Writes(w) ==
    /\ \/ At(w, "write", "flush") /\ PutBehind(w, Partial(w))
       \/ /\ At(w, "flush", "replace")
          /\ \E c \in {Whole(draft[w])} \cup (IF Behind(w) = Partial(w) THEN {} ELSE {Torn}) :
                PutBehind(w, c)
    /\ UNCHANGED <<files, builds, fd, draft, before, reader>>

(* os.replace; it fails when the other writer has renamed the file already.  *)
Replaces(w) ==
    /\ IF tmp.state = "none"
       THEN At(w, "replace", "unlink") /\ UNCHANGED <<manifest, tmp, fd>>
       ELSE /\ At(w, "replace", IF w = "payload_rebuild" THEN "recheck" ELSE "done")
            /\ manifest' = tmp /\ tmp' = NoFile
            /\ fd' = [x \in Writers |->
                        IF x # w /\ fd[x] = "tmp" THEN "manifest" ELSE "gone"]
    /\ UNCHANGED <<files, builds, draft, before, reader>>
Unlinks(w) ==
    /\ pc[w] = "unlink" /\ tmp' = NoFile
    /\ pc' = [pc EXCEPT ![w] = "idle"] /\ draft' = [draft EXCEPT ![w] = Sizes]
    /\ fd' = [x \in Writers |-> IF x = w \/ fd[x] = "tmp" THEN "gone" ELSE fd[x]]
    /\ UNCHANGED <<files, builds, manifest, before, reader>>

(* The payload rebuild hashes the platform a last time; then a rebuild has   *)
(* succeeded, and the script is over.                                        *)
PayloadRechecks ==
    /\ pc["payload_rebuild"] = "recheck"
    /\ IF PlatformUnchanged
       THEN pc' = [pc EXCEPT !["payload_rebuild"] = "done"] /\ UNCHANGED <<fd, draft>>
       ELSE Ends("payload_rebuild")
    /\ UNCHANGED <<files, builds, manifest, tmp, before, reader>>
Exits(w) ==
    /\ pc[w] = "done" /\ Ends(w)
    /\ UNCHANGED <<files, builds, manifest, tmp, before, reader>>
Killed(w) ==
    /\ pc[w] \notin {"idle", "done"} /\ Ends(w)
    /\ UNCHANGED <<files, builds, manifest, tmp, before, reader>>

(* An exception while writing (a full disk, an interrupt) also unlinks.      *)
WriteFails(w) ==
    /\ \E here \in {"write", "flush", "replace"} : At(w, here, "unlink")
    /\ UNCHANGED <<files, builds, manifest, tmp, fd, draft, before, reader>>

-----------------------------------------------------------------------------
(* A reader loads the manifest, then verifies one artifact after the other.  *)
(* verify_manifest compares sizes where no hash is recorded, and             *)
(* resolve_artifacts refuses such an entry; two versions may have one size.  *)
Load ==
    /\ reader.pc = 0
    /\ \E strict \in BOOLEAN :
        reader' = IF manifest.state # "whole" THEN NotReading
                  ELSE [NotReading EXCEPT !.pc = 1, !.doc = manifest.doc, !.strict = strict]
    /\ UNCHANGED <<files, builds, manifest, tmp, pc, fd, draft, before>>

Verifies(a, sameSize) ==
    \/ files[a] = reader.doc[a].version /\ (reader.strict => reader.doc[a].hashed)
    \/ ~reader.doc[a].hashed /\ ~reader.strict /\ sameSize

Verify ==
    /\ reader.pc \in 1 .. 3
    /\ \E sameSize \in BOOLEAN :
        reader' = IF ~Verifies(Order[reader.pc], sameSize) THEN NotReading
                  ELSE [reader EXCEPT !.pc = @ + 1,
                                      !.seen = IF reader.pc = 1 THEN files ELSE @]
    /\ UNCHANGED <<files, builds, manifest, tmp, pc, fd, draft, before>>
Accepted == reader.pc = 4
Reads ==
    /\ Accepted /\ reader' = NotReading
    /\ UNCHANGED <<files, builds, manifest, tmp, pc, fd, draft, before>>

Next ==
    \/ PayloadBegins \/ PayloadChecks \/ PayloadInstalls \/ PayloadRecords \/ PayloadRechecks
    \/ ServerBegins \/ ServerInstalls \/ ServerReads \/ ServerRecords
    \/ \E w \in Writers :
        Opens(w) \/ Writes(w) \/ Replaces(w) \/ WriteFails(w) \/ Unlinks(w)
        \/ Exits(w) \/ Killed(w)
    \/ Load \/ Verify \/ Reads
Spec == Init /\ [][Next]_vars

-----------------------------------------------------------------------------
(* Whatever the rebuilds race with and wherever they are killed: the files    *)
(* that an accepted manifest gives a hash were on the disk together when the  *)
(* first of them was verified (verify_manifest, resolve_artifacts), and a     *)
(* payload rebuild that succeeds has recorded its payload with the CXL server *)
(* that was there when it began (platform_hashes).                            *)
RecordedFilesCoexist ==
    /\ Accepted => \A a \in Artifacts :
            reader.doc[a].hashed => reader.doc[a].version = reader.seen[a]
    /\ pc["payload_rebuild"] = "done" =>
            draft["payload_rebuild"]["cxlmemsim_server"] = Entry(before, TRUE)
=============================================================================
