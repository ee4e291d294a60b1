------------------------------- MODULE CaseFiles -------------------------------
(***************************************************************************)
(* The files of one case: the directory that each instance has on its own  *)
(* disk, the copy in S3, and the rows of the table files.                  *)
(*                                                                         *)
(* An upload to the case (process_uploads) copies each file to raw/, writes*)
(* the JSON of its tags and inserts a row, all in one transaction that the *)
(* disk knows nothing of.  A validation reads every JSON in the directory  *)
(* as evidence.  At the end of an upload, a validation or a report the     *)
(* whole directory is copied to S3; an instance whose directory is empty   *)
(* downloads it from there.  Disks do not survive a restart.               *)
(*                                                                         *)
(* upload_case is a coroutine that never awaits while it works: no other   *)
(* request of its instance begins meanwhile, but those under way go on.    *)
(***************************************************************************)
EXTENDS Integers, Sequences, FiniteSets

CONSTANTS Workers,
          Hosts,        \* instances
          Docs,         \* file names
          Uploads,      \* what may be uploaded, each a sequence of entries
          S3Enabled,
          MaxRequests, MaxRestarts   \* bounds

ASSUME S3Assumption == S3Enabled \in BOOLEAN
ASSUME BoundsAssumption == MaxRequests \in Nat /\ MaxRestarts \in Nat

(***************************************************************************)
(* An entry of an upload.  doc: its name, as safe_filename leaves it.      *)
(* kind: a file, or a junk member of a ZIP that only gets a row (a ZIP that*)
(* cannot be read is a case of Fail).  zip: 0, or the ZIP of the upload it *)
(* is a member of; two members of one ZIP may have the same doc.  A nested *)
(* ZIP is a file, followed by its members, and a ZIP of its own; the ZIP   *)
(* uploaded is no entry.                                                   *)
(***************************************************************************)
Entry == [doc : Docs, kind : {"file", "junk"}, zip : Nat]

ASSUME UploadsAssumption == \A u \in Uploads : u \in Seq(Entry)

VARIABLES
  disk,      \* the directory of the case on each instance
  s3,        \* the objects under the prefix of the case
  rows,      \* committed rows of files: number -> row
  tx,        \* the request each worker is serving
  judge,     \* history: the validation that has set the status of the case
  requests, restarts   \* how many there have been

counters == <<requests, restarts>>
vars == <<disk, s3, rows, tx, judge, counters>>

(***************************************************************************)
(* A directory or prefix: raw files, JSONs <<number, doc, copy>> and the   *)
(* validation report, which names its run.  A raw file is <<"raw", doc,    *)
(* copy>>, or <<"work", doc, n>> in the directory a ZIP was extracted to;  *)
(* all ZIPs are taken to have the same stem, so n tells their directories  *)
(* apart.  made: there is an entry in the directory.  gap (history): it    *)
(* has missed files of other uploads, see Misses.                          *)
(***************************************************************************)
NoReport == 0
Torn     == -1

Empty == [raw |-> {}, json |-> {}, report |-> NoReport]

NoDir == [made |-> FALSE, gap |-> FALSE, raw |-> {}, json |-> {},
          report |-> NoReport]

Files(d) == [raw |-> d.raw, json |-> d.json, report |-> d.report]

(***************************************************************************)
(* A row: its raw file and its JSON ({} for a junk member) and whether     *)
(* stored_path is a URI of S3.  History: synced, whether the upload was    *)
(* copied to S3; gap, that of the disk it was copied to; of, the upload    *)
(* and the ZIP in it, if any.                                              *)
(***************************************************************************)
Idle == [at |-> "idle", op |-> "none", host |-> "none",
         upload |-> <<>>, rows |-> <<>>, snap |-> Empty, synced |-> FALSE,
         run |-> 0, overlap |-> FALSE]

\* an upload, a report: the status is of no validation, or its disk is lost
NoJudge == [run |-> 0, host |-> "none", overlap |-> FALSE]

-----------------------------------------------------------------------------

\* a draft, whose empty directories are on the instance that has created it
Init == /\ \E creator \in Hosts :
             disk = [h \in Hosts |-> [NoDir EXCEPT !.made = (h = creator)]]
        /\ s3 = Empty
        /\ rows = <<>>
        /\ tx = [w \in Workers |-> Idle]
        /\ judge = NoJudge
        /\ requests = 0 /\ restarts = 0

\* an upload or a validation has the number of its request as its run
Goto(w, at) == tx' = [tx EXCEPT ![w].at = at]

\* a coroutine that never awaits keeps its instance from other requests
Accepts(h) == \A v \in Workers : tx[v].op = "attach" => tx[v].host # h

Begins(w, h) ==
  /\ tx[w].at = "idle" /\ Accepts(h)
  /\ requests < MaxRequests /\ requests' = requests + 1
  /\ UNCHANGED <<disk, s3, rows, judge, restarts>>

BeginAttach(w, h, u) ==
  /\ Begins(w, h)
  /\ tx' = [tx EXCEPT ![w] = [Idle EXCEPT !.at = "mkdir", !.op = "attach",
                                          !.host = h, !.upload = u,
                                          !.run = requests + 1]]

BeginReport(w, h) ==
  /\ Begins(w, h)
  /\ tx' = [tx EXCEPT ![w] = [Idle EXCEPT !.at = "generate", !.op = "report",
                                          !.host = h]]

Validating(v, h) == tx[v].op = "validate" /\ tx[v].host = h

BeginValidate(w, h) ==
  /\ Begins(w, h)
  /\ tx' = [v \in Workers |->
       IF v = w
       THEN [Idle EXCEPT !.at = "ensure", !.op = "validate", !.host = h,
                         !.run = requests + 1,
                         !.overlap = \E x \in Workers : Validating(x, h)]
       ELSE IF Validating(v, h) THEN [tx[v] EXCEPT !.overlap = TRUE] ELSE tx[v]]

-----------------------------------------------------------------------------
\* An upload to the case.

\* mkdir(exist_ok=True): a directory made now misses the files of earlier rows
MakeDirs(w) ==
  LET h == tx[w].host
  IN  /\ tx[w].at = "mkdir"
      /\ disk' = [disk EXCEPT ![h] =
           [@ EXCEPT !.made = TRUE,
                     !.gap = disk[h].gap \/ (~disk[h].made /\ rows # <<>>)]]
      /\ Goto(w, "lock")
      /\ UNCHANGED <<s3, rows, judge, counters>>

Locked == {"files", "sync", "put", "commit"}

HoldsCase(v) == tx[v].op = "attach" /\ tx[v].at \in Locked

\* Fault: the row of the case is not updated first.
RowFreeAlways(w) == TRUE

RowFree(w) == \A v \in Workers \ {w} : ~HoldsCase(v)

\* UPDATE cases
LockCase(w) ==
  /\ tx[w].at = "lock" /\ RowFree(w)
  /\ Goto(w, "files")
  /\ UNCHANGED <<disk, s3, rows, judge, counters>>

\* next_file_id, which counts the rows the transaction sees
NextId(w) == Len(rows) + Len(tx[w].rows) + 1

\* Fault: what exists is not looked at.
FirstNumber(taken) == 1

\* the first number that is free
FreeNumber(taken) ==
  CHOOSE n \in 1..(Cardinality(taken) + 1) :
    n \notin taken /\ \A k \in 1..(n - 1) : k \in taken

\* unique_path, for a loose file
Copies(raw, d) == {p[3] : p \in {q \in raw : q[1] = "raw" /\ q[2] = d}}

\* unique_directory, for a ZIP (a directory without files is as good as none)
Dirs(raw) == {p[3] : p \in {q \in raw : q[1] = "work"}}

\* the directory of ZIP z, once upload t has extracted a member to it
DirsOf(t, z) ==
  UNION {Dirs(t.rows[k].raw) : k \in {k \in DOMAIN t.rows : t.rows[k].of[2] = z}}

ExtractRoot(t, z, raw) ==
  IF DirsOf(t, z) = {} THEN FreeNumber(Dirs(raw))
  ELSE CHOOSE n \in DirsOf(t, z) : TRUE

\* where entry e is stored; a member replaces the one that is there
RawPath(t, e, raw) ==
  IF e.zip = 0 THEN <<"raw", e.doc, FreeNumber(Copies(raw, e.doc))>>
  ELSE <<"work", e.doc, ExtractRoot(t, e.zip, raw)>>

\* the layout of the case and the second audit event are only rows
AfterFiles == IF S3Enabled THEN "sync" ELSE "commit"

(***************************************************************************)
(* register_file or register_ignored_file.  The name of a JSON is made of  *)
(* the number and the stem of the raw file: the members of a ZIP keep      *)
(* their stem, whichever directory they are extracted to, and their names: *)
(* only the directory is unique.                                           *)
(***************************************************************************)
RegisterFile(w) ==
  LET t == tx[w]
      e == Head(t.upload)
      d == disk[t.host]
      raw  == RawPath(t, e, d.raw)
      json == <<NextId(w), e.doc, IF e.zip = 0 THEN raw[3] ELSE 1>>
      Row(r, j) == [raw |-> r, json |-> j, uri |-> FALSE,
                    synced |-> FALSE, gap |-> d.gap, of |-> <<t.run, e.zip>>]
      Registered(row) ==
        tx' = [tx EXCEPT ![w] = [t EXCEPT
                 !.upload = Tail(t.upload), !.rows = Append(t.rows, row),
                 !.at = IF Len(t.upload) = 1 THEN AfterFiles ELSE "files"]]
  IN  /\ t.at = "files" /\ t.upload # <<>>
      /\ \/ /\ e.kind = "file"
            /\ disk' = [disk EXCEPT ![t.host] =
                 [d EXCEPT !.raw = d.raw \cup {raw}, !.json = d.json \cup {json}]]
            /\ Registered(Row({raw}, {json}))
         \/ /\ e.kind = "junk"
            /\ Registered(Row({}, {}))
            /\ UNCHANGED disk
      /\ UNCHANGED <<s3, rows, judge, counters>>

\* Fault: the URIs are written even if the copy to S3 has failed.
WithUriAlways(t, row) == [row EXCEPT !.uri = TRUE]

\* after a complete copy every stored_path in the directory becomes a URI
WithUri(t, row) == [row EXCEPT !.uri = row.uri \/ t.synced]

(***************************************************************************)
(* The commit.  Directories that other instances have made miss the files  *)
(* of this upload.                                                         *)
(***************************************************************************)
CommitAttach(w) ==
  LET t == tx[w]
      own == [i \in DOMAIN t.rows |-> [t.rows[i] EXCEPT !.synced = t.synced]]
      all == rows \o own
  IN  /\ t.op = "attach" /\ t.at = "commit"
      /\ rows' = [i \in DOMAIN all |-> WithUri(t, all[i])]
      /\ disk' = [h \in Hosts |-> IF h = t.host THEN disk[h]
                    ELSE [disk[h] EXCEPT !.gap = disk[h].gap \/ disk[h].made]]
      /\ judge' = NoJudge
      /\ tx' = [tx EXCEPT ![w] = Idle]
      /\ UNCHANGED <<s3, counters>>

-----------------------------------------------------------------------------
\* A copy to S3.

\* sync_case_to_s3 goes through the directory ...
Sync(w) ==
  /\ tx[w].at = "sync"
  /\ tx' = [tx EXCEPT ![w] = [@ EXCEPT !.at = "put",
                                       !.snap = Files(disk[tx[w].host])]]
  /\ UNCHANGED <<disk, s3, rows, judge, counters>>

Uploaded(old, raw, json, report) ==
  [raw |-> old.raw \cup raw, json |-> old.json \cup json,
   report |-> IF report = NoReport THEN old.report ELSE report]

AfterPut(w) == IF tx[w].op = "attach" THEN "commit" ELSE "status"

\* ... and puts each file; objects are replaced, never deleted
Put(w) ==
  LET t == tx[w]
  IN  /\ t.at = "put"
      /\ s3' = Uploaded(s3, t.snap.raw, t.snap.json, t.snap.report)
      /\ tx' = [tx EXCEPT ![w] = [t EXCEPT !.at = AfterPut(w), !.snap = Empty,
                                           !.synced = TRUE]]
      /\ UNCHANGED <<disk, rows, judge, counters>>

\* S3 fails in the middle: the callers go on as if nothing had happened
PutFails(w) ==
  LET t == tx[w]
  IN  /\ t.at = "put"
      /\ \E raw \in SUBSET t.snap.raw, json \in SUBSET t.snap.json,
            report \in {NoReport, t.snap.report} :
           s3' = Uploaded(s3, raw, json, report)
      /\ tx' = [tx EXCEPT ![w] = [t EXCEPT !.at = AfterPut(w), !.snap = Empty]]
      /\ UNCHANGED <<disk, rows, judge, counters>>

-----------------------------------------------------------------------------
\* A validation, a report, a look at the validation.

\* Fault: it is enough that the directory exists, entries or not.
HasEntriesExists(d) == TRUE

\* case_dir.exists() and any(case_dir.rglob("*"))
HasEntries(d) == d.made

(***************************************************************************)
(* ensure_case_local, for a directory without entries: everything, or what *)
(* came before the failure, in one step (a request that finds the download *)
(* half-way goes on as if it had failed).  entries: a validation makes the *)
(* directories of its run in it (_ensure_run_dirs).                        *)
(* A directory misses files if not all objects came, or if there is a row  *)
(* whose upload was not copied.                                            *)
(***************************************************************************)
Misses == \E i \in DOMAIN rows : ~rows[i].synced

Downloaded(got, entries) ==
  [made |-> entries \/ got # Empty,
   gap  |-> (entries \/ got # Empty) /\ (got # s3 \/ Misses),
   raw  |-> got.raw, json |-> got.json, report |-> got.report]

Portions ==
  IF ~S3Enabled THEN {Empty}
  ELSE {s3} \cup [raw : SUBSET s3.raw, json : SUBSET s3.json,
                  report : {NoReport, s3.report}]

EnsureLocal(w) ==
  LET h == tx[w].host
  IN  /\ tx[w].at = "ensure"
      /\ IF HasEntries(disk[h]) THEN disk' = [disk EXCEPT ![h].made = TRUE]
         ELSE \E got \in Portions :
                disk' = [disk EXCEPT ![h] = Downloaded(got, TRUE)]
      /\ Goto(w, "load")
      /\ UNCHANGED <<s3, rows, judge, counters>>

\* ValidationRunner.latest_report, for GET .../validation
View(h) ==
  /\ Accepts(h)
  /\ ~HasEntries(disk[h])
  /\ \E got \in Portions : disk' = [disk EXCEPT ![h] = Downloaded(got, FALSE)]
  /\ UNCHANGED <<s3, rows, tx, judge, counters>>

\* Fault: the status is set before the report is written.
AfterLoadStatus == "status"

AfterLoad == "write"

\* load_tagged_documents, and the validation of the elements
LoadEvidence(w) ==
  /\ tx[w].at = "load"
  /\ disk[tx[w].host].json # {}
  /\ Goto(w, AfterLoad)
  /\ UNCHANGED <<disk, s3, rows, judge, counters>>

\* _write_json: open() truncates the report, json.dump fills it
TruncateReport(w) ==
  /\ tx[w].at = "write"
  /\ disk' = [disk EXCEPT ![tx[w].host] = [@ EXCEPT !.report = Torn]]
  /\ Goto(w, "fill")
  /\ UNCHANGED <<s3, rows, judge, counters>>

FillReport(w) ==
  /\ tx[w].at = "fill"
  /\ disk' = [disk EXCEPT ![tx[w].host] = [@ EXCEPT !.report = tx[w].run]]
  /\ Goto(w, IF S3Enabled THEN "sync" ELSE "status")
  /\ UNCHANGED <<s3, rows, judge, counters>>

\* generate_from_latest_validation reads what is on the disk, as it is
Generate(w) ==
  /\ tx[w].at = "generate"
  /\ disk[tx[w].host].report \notin {NoReport, Torn}
  /\ Goto(w, IF S3Enabled THEN "sync" ELSE "status")
  /\ UNCHANGED <<disk, s3, rows, judge, counters>>

\* the UPDATE of the status waits for uploads that hold the row of the case
SetStatus(w) ==
  LET t == tx[w]
  IN  /\ t.at = "status" /\ RowFree(w)
      /\ judge' = IF t.op = "validate"
                  THEN [run |-> t.run, host |-> t.host, overlap |-> t.overlap]
                  ELSE NoJudge
      /\ tx' = [tx EXCEPT ![w] = Idle]
      /\ UNCHANGED <<disk, s3, rows, counters>>

-----------------------------------------------------------------------------

\* an error, a broken ZIP, a 404: the rows are rolled back, the files stay
Fail(w) ==
  /\ tx[w].at # "idle"
  /\ tx' = [tx EXCEPT ![w] = Idle]
  /\ UNCHANGED <<disk, s3, rows, judge, counters>>

\* a new revision, or an instance that is scaled down and up again
Restart(h) ==
  /\ restarts < MaxRestarts /\ restarts' = restarts + 1
  /\ disk' = [disk EXCEPT ![h] = NoDir]
  /\ tx' = [w \in Workers |-> IF tx[w].host = h THEN Idle ELSE tx[w]]
  /\ judge' = IF judge.host = h THEN NoJudge ELSE judge
  /\ UNCHANGED <<s3, rows, requests>>

Attach(w) == MakeDirs(w) \/ LockCase(w) \/ RegisterFile(w)
               \/ CommitAttach(w)

Copy(w) == Sync(w) \/ Put(w) \/ PutFails(w)

Validate(w) == EnsureLocal(w) \/ LoadEvidence(w) \/ TruncateReport(w)
                 \/ FillReport(w) \/ Generate(w) \/ SetStatus(w)

Next == \/ \E w \in Workers :
             \/ \E h \in Hosts :
                  \/ \E u \in Uploads : BeginAttach(w, h, u)
                  \/ BeginValidate(w, h) \/ BeginReport(w, h)
             \/ Attach(w) \/ Copy(w) \/ Validate(w) \/ Fail(w)
        \/ \E h \in Hosts : View(h) \/ Restart(h)

Spec == Init /\ [][Next]_vars

-----------------------------------------------------------------------------

(***************************************************************************)
(* next_file_id counts rows, and uploads of a case may run on several      *)
(* instances: the number in the name of a JSON is the number of its row,   *)
(* because process_uploads takes the row of the case before it counts.     *)
(***************************************************************************)
FileNumbersAgree ==
  \A i \in DOMAIN rows : \A j \in rows[i].json : j[1] = i

(***************************************************************************)
(* Two rows never share a raw file (one path on the disk and one object in *)
(* S3, whose content is the later one's), unless the later was uploaded to *)
(* a disk with a gap, or they are members of one ZIP with the same safe    *)
(* name: members are written to the directory of their ZIP without a look  *)
(* at what is there.                                                       *)
(***************************************************************************)
OneZip(i, j) == rows[i].of = rows[j].of /\ rows[j].of[2] # 0

RowsOwnTheirFiles ==
  \A i, j \in DOMAIN rows :
    i < j /\ rows[i].raw \cap rows[j].raw # {} => rows[j].gap \/ OneZip(i, j)

(***************************************************************************)
(* What an upload has copied to S3 stays there, raw files and JSONs.  A    *)
(* stored_path that is a URI without an object is the path of an upload    *)
(* that was not copied, rewritten by a later upload to a disk with a gap   *)
(* (process_uploads rewrites the paths of all rows).                       *)
(***************************************************************************)
InS3(row) == row.raw \subseteq s3.raw /\ row.json \subseteq s3.json

StoredPathsAreReal ==
  \A i \in DOMAIN rows :
    /\ rows[i].synced => InS3(rows[i])
    /\ rows[i].uri /\ ~InS3(rows[i]) =>
         \E j \in DOMAIN rows : j > i /\ rows[j].synced /\ rows[j].gap

(***************************************************************************)
(* A validation has the evidence of every committed upload, but for a disk *)
(* with a gap: another instance has received an upload, the directory was  *)
(* made by an upload after a restart, the download failed in the middle,   *)
(* or an upload was not copied.  Nothing else loses evidence, and          *)
(* ensure_case_local never fills a gap, as it looks at empty directories   *)
(* only.                                                                   *)
(***************************************************************************)
EvidenceIsComplete ==
  \A h \in Hosts, i \in DOMAIN rows :
    disk[h].made /\ ~disk[h].gap => rows[i].json \subseteq disk[h].json

(***************************************************************************)
(* The status that a validation has set is never older than the report     *)
(* beside it: the report is of that run or of a later one, unless two      *)
(* validations overlapped on the instance (nothing orders their writes).   *)
(***************************************************************************)
StatusHasReport ==
  judge.run > 0 /\ ~judge.overlap =>
    LET report == disk[judge.host].report
    IN  report >= judge.run \/ (report = Torn /\ requests > judge.run)
=============================================================================
