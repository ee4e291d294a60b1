----------------------------- MODULE IntakeProofs -----------------------------
(***************************************************************************)
(* What becomes of an uploaded file: proofs about CaseFiles, for any       *)
(* number of instances, workers and uploads, with and without S3, and      *)
(* about Tagging, for any documents, file names and outcomes of the        *)
(* heuristics.                                                             *)
(***************************************************************************)
EXTENDS CaseFiles, Tagging, FiniteSetTheorems, SequenceTheorems,
        WellFoundedInduction, TLAPS

(***************************************************************************)
(* The files.  The row of the case admits one upload at a time past the    *)
(* point where it counts (OneHolder), so what an upload has registered     *)
(* goes with the committed rows until its commit (UploadInv).  What a      *)
(* directory holds is judged by its gap: without one it has the files of   *)
(* all rows (DiskInv).  S3 keeps what it was given (CopyInv), and a        *)
(* validation that overlaps no other on its instance is alone with the     *)
(* report (RunInv).                                                        *)
(***************************************************************************)

Raws  == {"raw", "work"} \X Docs \X Nat
Jsons == Nat \X Docs \X Nat

RawSets == {R \in SUBSET Raws : IsFiniteSet(R)}
Reports == Nat \cup {Torn}

Objects == [raw : RawSets, json : SUBSET Jsons, report : Reports]

Dir == [made : BOOLEAN, gap : BOOLEAN, raw : RawSets, json : SUBSET Jsons,
        report : Reports]

Row == [raw : SUBSET Raws, json : SUBSET Jsons, uri : BOOLEAN,
        synced : BOOLEAN, gap : BOOLEAN, of : Nat \X Nat]

OfUpload     == {"mkdir", "lock"} \cup Locked
OfValidation == {"ensure", "load", "write", "fill", "sync", "put", "status"}
OfReport     == {"generate", "sync", "put", "status"}

Tx == [at : {"idle"} \cup OfUpload \cup OfValidation \cup OfReport,
       op : {"none", "attach", "validate", "report"},
       host : Hosts \cup {"none"}, upload : Seq(Entry), rows : Seq(Row),
       snap : Objects, synced : BOOLEAN, run : Nat, overlap : BOOLEAN]

Typed ==
  /\ disk \in [Hosts -> Dir]
  /\ s3 \in Objects
  /\ rows \in Seq(Row)
  /\ tx \in [Workers -> Tx]
  /\ judge \in [run : Nat, host : Hosts \cup {"none"}, overlap : BOOLEAN]
  /\ requests \in Nat /\ restarts \in Nat

\* where a request can be
AtInv(t) ==
  /\ t.op = "none" <=> t.at = "idle"
  /\ t.op # "none" => t.host \in Hosts
  /\ t.op = "attach" => t.at \in OfUpload
  /\ t.op = "validate" => t.at \in OfValidation
  /\ t.op = "report" => t.at \in OfReport
  /\ t.at \notin Locked \/ t.op # "attach" => t.rows = <<>>
  /\ t.at \in {"sync", "put", "commit"} /\ t.op = "attach" => t.rows # <<>>

OneHolder == \A v, w \in Workers : HoldsCase(v) /\ HoldsCase(w) => v = w

-----------------------------------------------------------------------------

\* directories and objects that have all files of row r
Has(d, r) == r.raw \subseteq d.raw /\ r.json \subseteq d.json

\* an upload is past the making of its directory
Working(t) == t.op = "attach" /\ t.at # "mkdir"

\* two rows, or a row and a directory, have no file and no ZIP in common
Apart(a, b) == a.raw \cap b.raw = {} /\ Dirs(a.raw) \cap Dirs(b.raw) = {}

\* the k-th row that upload t has registered, in directory d, after rows rs
Registered(t, k, d, rs) ==
  LET r == t.rows[k]
  IN  /\ \A j \in r.json : j[1] = Len(rs) + k
      /\ ~r.uri /\ r.gap = d.gap
      /\ Has(d, r)
      /\ r.of[1] = t.run
      /\ r.gap \/ \A i \in DOMAIN rs : Apart(rs[i], r)
      /\ \A m \in 1..(k - 1) :
           \/ t.rows[m].of[2] = r.of[2] /\ r.of[2] # 0
           \/ Apart(t.rows[m], r)

UploadInv(t, d, rs) ==
  Working(t) => d.made /\ \A k \in DOMAIN t.rows : Registered(t, k, d, rs)

\* without a gap a directory has everything
DiskInv ==
  \A h \in Hosts, i \in DOMAIN rows :
    disk[h].made /\ ~disk[h].gap => Has(disk[h], rows[i])

\* what upload t is about to copy, and has copied
Carries(t, d, rs, objects) ==
  /\ \A k \in DOMAIN t.rows : Has(objects, t.rows[k])
  /\ d.gap \/ \A i \in DOMAIN rs : Has(objects, rs[i])

CopyInv(t, d, rs, objects) ==
  t.op = "attach" =>
    /\ t.at = "put" => Carries(t, d, rs, t.snap)
    /\ t.synced => t.at = "commit" /\ Carries(t, d, rs, objects)

\* a request, on the disks ds
RequestInv(t, ds, rs, objects) ==
  /\ AtInv(t)
  /\ UploadInv(t, ds[t.host], rs)
  /\ CopyInv(t, ds[t.host], rs, objects)

RowsInv == FileNumbersAgree /\ RowsOwnTheirFiles /\ StoredPathsAreReal

FilesInv ==
  /\ Typed
  /\ \A w \in Workers : RequestInv(tx[w], disk, rows, s3)
  /\ OneHolder
  /\ DiskInv
  /\ RowsInv

-----------------------------------------------------------------------------

\* a validation that overlaps none, from its report on
RunInv(w) ==
  LET t == tx[w]
  IN  t.op = "validate" =>
        /\ t.run \in 1..requests
        /\ t.at # "ensure" => disk[t.host].made
        /\ ~t.overlap => /\ \A v \in Workers : Validating(v, t.host) => v = w
                         /\ t.at \in {"sync", "put", "status"} =>
                              disk[t.host].report = t.run

\* the status is of a run that later validations on its instance come after
JudgeInv ==
  judge.run > 0 =>
    /\ judge.host \in Hosts /\ judge.run <= requests
    /\ disk[judge.host].made
    /\ ~judge.overlap => \A v \in Workers :
                           Validating(v, judge.host) => tx[v].run > judge.run

ReportInv ==
  /\ \A w \in Workers : RunInv(w)
  /\ JudgeInv
  /\ StatusHasReport
-----------------------------------------------------------------------------
\* Facts about the data.

LEMMA Smallest ==
  ASSUME NEW S \in SUBSET Nat, S # {}
  PROVE  \E x \in S : \A y \in S : x <= y
<1> DEFINE Less == {ss \in Nat \X Nat : ss[1] < ss[2]}
<1>1. IsWellFoundedOn(Less, Nat)
  BY NatLessThanWellFounded DEF OpToRel
<1>2. PICK x \in S : \A y \in S : <<y, x>> \notin Less
  BY <1>1, WFMin
<1>3. \A y \in S : x \in Nat /\ y \in Nat /\ <<y, x>> \in Nat \X Nat
  OBVIOUS
<1>4. \A y \in S : ~(y < x)
  BY <1>2, <1>3
<1> QED
  BY <1>3, <1>4

\* A free number is found: there are fewer taken than numbers to try.
LEMMA SomeNumberIsFree ==
  ASSUME NEW S, IsFiniteSet(S)
  PROVE  \E n \in 1..(Cardinality(S) + 1) : n \notin S
<1> DEFINE n == Cardinality(S)
<1>1. n \in Nat
  BY FS_CardinalityType
<1>2. SUFFICES ASSUME \A c \in 1..(n + 1) : c \in S PROVE FALSE
  OBVIOUS
<1>3. 1..(n + 1) \subseteq S
  BY <1>2
<1>4. Cardinality(1..(n + 1)) <= n
  BY <1>3, FS_Subset
<1>5. Cardinality(1..(n + 1)) = n + 1
  BY <1>1, FS_Interval
<1> QED
  BY <1>1, <1>4, <1>5

LEMMA FreeNumberIsFree ==
  ASSUME NEW S, IsFiniteSet(S)
  PROVE  FreeNumber(S) \in Nat /\ FreeNumber(S) \notin S
<1> DEFINE n == Cardinality(S)
           T == {c \in 1..(n + 1) : c \notin S}
           Free(c) == c \notin S /\ \A k \in 1..(c - 1) : k \in S
<1>1. n \in Nat
  BY FS_CardinalityType
<1>2. T # {} /\ T \in SUBSET Nat
  BY <1>1, SomeNumberIsFree
<1>3. PICK x \in T : \A y \in T : x <= y
  BY <1>2, Smallest
<1>4. Free(x)
  <2> SUFFICES ASSUME NEW k \in 1..(x - 1), k \notin S PROVE FALSE
    OBVIOUS
  <2>1. k \in T
    BY <1>1
  <2> QED
    BY <1>1, <1>3, <2>1
<1>5. \E c \in 1..(n + 1) : Free(c)
  BY <1>4
<1>6. FreeNumber(S) = CHOOSE c \in 1..(n + 1) : Free(c)
  BY DEF FreeNumber
<1>7. FreeNumber(S) \in 1..(n + 1) /\ Free(FreeNumber(S))
  BY <1>5, <1>6
<1> QED
  BY <1>1, <1>7

LEMMA ThirdsAreFinite ==
  ASSUME NEW Q, IsFiniteSet(Q)
  PROVE  IsFiniteSet({p[3] : p \in Q})
<1> DEFINE T == {p[3] : p \in Q}
           f == [p \in Q |-> p[3]]
<1>1. f \in [Q -> T] /\ \A y \in T : \E p \in Q : f[p] = y
  OBVIOUS
<1>2. f \in Surjection(Q, T)
  BY <1>1 DEF Surjection
<1> HIDE DEF f, T
<1>3. IsFiniteSet(T)
  BY <1>2, FS_Surjection
<1> QED
  BY <1>3 DEF T

\* A loose file gets a path of its own, the first member of a ZIP a directory.
LEMMA NewPaths ==
  ASSUME NEW raw, IsFiniteSet(raw), NEW d
  PROVE  /\ FreeNumber(Copies(raw, d)) \in Nat
         /\ <<"raw", d, FreeNumber(Copies(raw, d))>> \notin raw
         /\ FreeNumber(Dirs(raw)) \in Nat
         /\ FreeNumber(Dirs(raw)) \notin Dirs(raw)
<1> DEFINE Q == {q \in raw : q[1] = "raw" /\ q[2] = d}
           W == {q \in raw : q[1] = "work"}
           x == FreeNumber(Copies(raw, d))
<1>1. IsFiniteSet(Q) /\ IsFiniteSet(W)
  BY FS_Subset
<1>2. IsFiniteSet(Copies(raw, d)) /\ IsFiniteSet(Dirs(raw))
  BY <1>1, ThirdsAreFinite DEF Copies, Dirs
<1>3. x \in Nat /\ x \notin Copies(raw, d)
  BY <1>2, FreeNumberIsFree
<1>4. FreeNumber(Dirs(raw)) \in Nat /\ FreeNumber(Dirs(raw)) \notin Dirs(raw)
  BY <1>2, FreeNumberIsFree
<1> HIDE DEF x
<1>5. <<"raw", d, x>> \in raw => x \in Copies(raw, d)
  BY DEF Copies
<1> QED
  BY <1>3, <1>4, <1>5 DEF x

LEMMA DirsFacts ==
  /\ \A R, S : R \subseteq S => Dirs(R) \subseteq Dirs(S)
  /\ \A R, p : p \in R /\ p[1] = "work" => p[3] \in Dirs(R)
  /\ Dirs({}) = {}
  /\ \A d, n : Dirs({<<"raw", d, n>>}) = {} /\ Dirs({<<"work", d, n>>}) = {n}
<1>1. \A R, S : R \subseteq S => Dirs(R) \subseteq Dirs(S)
  BY DEF Dirs
<1>2. \A R, p : p \in R /\ p[1] = "work" => p[3] \in Dirs(R)
  BY DEF Dirs
<1>3. Dirs({}) = {}
  BY DEF Dirs
<1>4. ASSUME NEW d, NEW n
      PROVE  Dirs({<<"raw", d, n>>}) = {} /\ Dirs({<<"work", d, n>>}) = {n}
  <2> DEFINE r == <<"raw", d, n>>
             w == <<"work", d, n>>
  <2>1. r[1] = "raw" /\ w[1] = "work" /\ w[3] = n /\ "raw" # "work"
    OBVIOUS
  <2> HIDE DEF r, w
  <2>2. {q \in {r} : q[1] = "work"} = {} /\ {q \in {w} : q[1] = "work"} = {w}
    BY <2>1
  <2>3. Dirs({r}) = {} /\ Dirs({w}) = {w[3]}
    BY <2>2 DEF Dirs
  <2> QED
    BY <2>1, <2>3 DEF r, w
<1> QED
  BY <1>1, <1>2, <1>3, <1>4

\* row is a member of a ZIP that upload t has extracted before
Joins(t, row) ==
  /\ row.of[2] # 0
  /\ \E k \in DOMAIN t.rows : \E n \in Dirs(t.rows[k].raw) :
       /\ t.rows[k].of[2] = row.of[2]
       /\ \A p \in row.raw : p[1] = "work" /\ p[3] = n

LEMMA ApartFacts ==
  /\ \A a, b, c : Apart(a, b) /\ c.raw \subseteq b.raw => Apart(a, c) /\ Apart(c, a)
  /\ \A a, b : Apart(a, b) <=> Apart(b, a)
<1>1. \A a, b : Apart(a, b) <=> Apart(b, a)
  BY DEF Apart
<1>2. ASSUME NEW a, NEW b, NEW c, Apart(a, b), c.raw \subseteq b.raw
      PROVE  Apart(a, c)
  <2>1. Dirs(c.raw) \subseteq Dirs(b.raw)
    BY <1>2, DirsFacts
  <2> QED
    BY <1>2, <2>1 DEF Apart
<1> QED
  BY <1>1, <1>2

\* What is apart from a member of the ZIP is apart from the new one.
LEMMA JoinsApart ==
  ASSUME NEW a, NEW b, NEW row, NEW n \in Dirs(b.raw), Apart(a, b),
         \A p \in row.raw : p[1] = "work" /\ p[3] = n
  PROVE  Apart(a, row)
<1>1. n \notin Dirs(a.raw)
  BY DEF Apart
<1>2. \A p \in a.raw : p[1] = "work" => p[3] \in Dirs(a.raw)
  BY DEF Dirs
<1>3. Dirs(row.raw) \subseteq {n}
  BY DEF Dirs
<1> QED
  BY <1>1, <1>2, <1>3 DEF Apart

LEMMA RawSetFacts ==
  ASSUME NEW R \in RawSets, NEW S \in RawSets, NEW x \in Raws
  PROVE  /\ R \cup S \in RawSets /\ R \cup {x} \in RawSets
         /\ SUBSET R \subseteq RawSets /\ {} \in RawSets /\ {x} \in RawSets
<1>1. IsFiniteSet(R) /\ IsFiniteSet(S) /\ IsFiniteSet({x}) /\ IsFiniteSet({})
  BY FS_EmptySet, FS_Singleton DEF RawSets
<1>2. IsFiniteSet(R \cup S) /\ IsFiniteSet(R \cup {x})
  BY <1>1, FS_Union
<1>3. \A T \in SUBSET R : IsFiniteSet(T)
  BY <1>1, FS_Subset
<1> QED
  BY <1>1, <1>2, <1>3 DEF RawSets

LEMMA Empties ==
  /\ {} \in RawSets
  /\ Empty \in Objects /\ NoDir \in Dir /\ Idle \in Tx
  /\ AtInv(Idle) /\ Idle.op = "none" /\ Idle.at = "idle"
<1>1. {} \in RawSets
  BY FS_EmptySet DEF RawSets
<1>2. Empty \in Objects /\ NoDir \in Dir
  BY <1>1 DEF Empty, NoDir, Objects, Dir, Reports, NoReport
<1>3. <<>> \in Seq(Entry) /\ <<>> \in Seq(Row)
  OBVIOUS
<1>4. Idle \in Tx
  BY <1>2, <1>3 DEF Idle, Tx
<1> QED
  BY <1>1, <1>2, <1>4 DEF Idle, AtInv, Locked

-----------------------------------------------------------------------------
\* What a step leaves alone.

\* directory d has become e, and an upload that works in it does not notice
Grows(d, e) ==
  d.made => /\ e.made /\ e.gap = d.gap
            /\ d.raw \subseteq e.raw /\ d.json \subseteq e.json

Alike(t, r) ==
  /\ r.op = t.op /\ r.at = t.at /\ r.host = t.host
  /\ r.rows = t.rows /\ r.snap = t.snap /\ r.synced = t.synced
  /\ r.run = t.run

\* the request of worker v goes on as before
Untouched(v) ==
  /\ Alike(tx[v], tx'[v])
  /\ Working(tx[v]) => Grows(disk[tx[v].host], disk'[tx[v].host])

\* the request of worker v has moved, or is over
Restated(v) == RequestInv(tx'[v], disk', rows', s3')

S3Grows == s3.raw \subseteq s3'.raw /\ s3.json \subseteq s3'.json

LEMMA UploadStays ==
  ASSUME NEW t, NEW r, NEW d, NEW e, NEW rs, Alike(t, r),
         Working(t) => Grows(d, e), UploadInv(t, d, rs)
  PROVE  UploadInv(r, e, rs)
<1> SUFFICES ASSUME Working(r)
             PROVE  e.made /\ \A k \in DOMAIN r.rows : Registered(r, k, e, rs)
  BY DEF UploadInv
<1>1. Working(t) /\ r.rows = t.rows /\ r.run = t.run
  BY DEF Alike, Working
<1>2. e.made /\ e.gap = d.gap /\ d.raw \subseteq e.raw /\ d.json \subseteq e.json
  BY <1>1 DEF Grows, UploadInv
<1>3. ASSUME NEW k \in DOMAIN r.rows PROVE Registered(r, k, e, rs)
  <2>1. Registered(t, k, d, rs)
    BY <1>1 DEF UploadInv
  <2> QED
    BY <1>1, <1>2, <2>1 DEF Registered, Has
<1> QED
  BY <1>2, <1>3

LEMMA CopyStays ==
  ASSUME NEW t, NEW r, NEW d, NEW e, NEW rs, NEW a, NEW b, Alike(t, r),
         Working(t) => Grows(d, e), UploadInv(t, d, rs), CopyInv(t, d, rs, a),
         a.raw \subseteq b.raw, a.json \subseteq b.json
  PROVE  CopyInv(r, e, rs, b)
<1> SUFFICES ASSUME r.op = "attach"
             PROVE  /\ r.at = "put" => Carries(r, e, rs, r.snap)
                    /\ r.synced => r.at = "commit" /\ Carries(r, e, rs, b)
  BY DEF CopyInv
<1>1. /\ t.op = "attach" /\ r.at = t.at /\ r.rows = t.rows
      /\ r.snap = t.snap /\ r.synced = t.synced
  BY DEF Alike
<1>2. r.at \in {"put", "commit"} => e.gap = d.gap
  BY <1>1 DEF Working, UploadInv, Grows
<1>3. r.at = "put" => Carries(r, e, rs, r.snap)
  BY <1>1, <1>2 DEF CopyInv, Carries
<1>4. r.synced => r.at = "commit" /\ Carries(r, e, rs, b)
  BY <1>1, <1>2 DEF CopyInv, Carries, Has
<1> QED
  BY <1>3, <1>4

LEMMA UntouchedStays ==
  ASSUME FilesInv, NEW v \in Workers, Untouched(v), rows' = rows, S3Grows
  PROVE  Restated(v)
<1>1. /\ AtInv(tx[v]) /\ Alike(tx[v], tx'[v]) /\ tx'[v].host = tx[v].host
      /\ Working(tx[v]) => Grows(disk[tx[v].host], disk'[tx'[v].host])
      /\ UploadInv(tx[v], disk[tx[v].host], rows)
      /\ CopyInv(tx[v], disk[tx[v].host], rows, s3)
  BY DEF FilesInv, RequestInv, Untouched, Alike
<1>2. AtInv(tx'[v])
  BY <1>1 DEF AtInv, Alike
<1>3. UploadInv(tx'[v], disk'[tx'[v].host], rows')
  BY <1>1, UploadStays
<1>4. CopyInv(tx'[v], disk'[tx'[v].host], rows', s3')
  BY <1>1, CopyStays DEF S3Grows
<1> QED
  BY <1>2, <1>3, <1>4 DEF Restated, RequestInv

\* What is said of the committed rows only depends on S3 beside them.
LEMMA RowsStay ==
  ASSUME RowsInv, rows' = rows, S3Grows
  PROVE  RowsInv'
<1>1. FileNumbersAgree' /\ RowsOwnTheirFiles'
  BY DEF RowsInv, FileNumbersAgree, RowsOwnTheirFiles, OneZip
<1>2. StoredPathsAreReal'
  BY DEF RowsInv, StoredPathsAreReal, InS3, S3Grows
<1> QED
  BY <1>1, <1>2 DEF RowsInv

LEMMA StepKeeps ==
  ASSUME FilesInv, Typed', OneHolder', DiskInv', rows' = rows, S3Grows,
         \A v \in Workers : Untouched(v) \/ Restated(v)
  PROVE  FilesInv'
<1>1. RowsInv'
  BY RowsStay DEF FilesInv
<1>2. ASSUME NEW v \in Workers PROVE Restated(v)
  BY UntouchedStays
<1> QED
  BY <1>1, <1>2 DEF FilesInv, Restated

\* Nobody begins to hold the row of the case, or one does while it is free.
LEMMA HolderStays ==
  ASSUME OneHolder, NEW w \in Workers,
         \A v \in Workers \ {w} : HoldsCase(v)' => HoldsCase(v),
         HoldsCase(w)' => HoldsCase(w) \/ RowFree(w)
  PROVE  OneHolder'
  BY DEF OneHolder, RowFree

LEMMA DisksStay ==
  ASSUME DiskInv, rows' = rows,
         \A h \in Hosts : disk'[h].made /\ ~disk'[h].gap =>
            \/ /\ disk[h].made /\ ~disk[h].gap
               /\ disk[h].raw \subseteq disk'[h].raw
               /\ disk[h].json \subseteq disk'[h].json
            \/ \A i \in DOMAIN rows : Has(disk'[h], rows[i])
  PROVE  DiskInv'
  BY DEF DiskInv, Has

-----------------------------------------------------------------------------
\* How a request moves.

Ats == {"idle"} \cup OfUpload \cup OfValidation \cup OfReport

LEMMA Going ==
  ASSUME Typed, NEW w \in Workers, NEW at \in Ats, Goto(w, at)
  PROVE  /\ tx' \in [Workers -> Tx]
         /\ \A v \in Workers \ {w} : tx'[v] = tx[v]
         /\ tx'[w].at = at /\ tx'[w].op = tx[w].op
         /\ tx'[w].host = tx[w].host /\ tx'[w].upload = tx[w].upload
         /\ tx'[w].rows = tx[w].rows /\ tx'[w].snap = tx[w].snap
         /\ tx'[w].synced = tx[w].synced /\ tx'[w].run = tx[w].run
         /\ tx'[w].overlap = tx[w].overlap
<1>1. tx \in [Workers -> Tx] /\ tx[w] \in Tx
  BY DEF Typed
<1>2. tx' = [tx EXCEPT ![w] = [tx[w] EXCEPT !.at = at]]
  BY DEF Goto
<1>3. [tx[w] EXCEPT !.at = at] \in Tx
  BY <1>1 DEF Tx, Ats
<1>4. tx'[w] = [tx[w] EXCEPT !.at = at]
  BY <1>1, <1>2
<1> QED
  BY <1>1, <1>2, <1>3, <1>4 DEF Tx

LEMMA Becoming ==
  ASSUME Typed, NEW w \in Workers, NEW r \in Tx, tx' = [tx EXCEPT ![w] = r]
  PROVE  /\ tx' \in [Workers -> Tx] /\ tx'[w] = r
         /\ \A v \in Workers \ {w} : tx'[v] = tx[v]
  BY DEF Typed

LEMMA NoUpload ==
  ASSUME NEW t, t.op # "attach", NEW d, NEW rs, NEW objects
  PROVE  UploadInv(t, d, rs) /\ CopyInv(t, d, rs, objects)
  BY DEF UploadInv, Working, CopyInv

\* A step of one request, and of nothing that FilesInv speaks of.
LEMMA LocalKeeps ==
  ASSUME FilesInv, Typed', NEW w \in Workers,
         \A v \in Workers \ {w} : Alike(tx[v], tx'[v]),
         Restated(w),
         HoldsCase(w)' => HoldsCase(w) \/ RowFree(w),
         UNCHANGED <<disk, s3, rows>>
  PROVE  FilesInv'
<1>1. \A v \in Workers : Untouched(v) \/ Restated(v)
  BY DEF Untouched, Grows
<1>2. OneHolder'
  <2>1. \A v \in Workers \ {w} : HoldsCase(v)' => HoldsCase(v)
    BY DEF Alike, HoldsCase
  <2> QED
    BY <2>1, HolderStays DEF FilesInv
<1>3. DiskInv'
  BY DisksStay DEF FilesInv
<1>4. S3Grows
  BY DEF S3Grows
<1> QED
  BY <1>1, <1>2, <1>3, <1>4, StepKeeps

\* The same, of a request that is no upload.
LEMMA OtherKeeps ==
  ASSUME FilesInv, Typed', NEW w \in Workers,
         \A v \in Workers \ {w} : Alike(tx[v], tx'[v]),
         AtInv(tx'[w]), tx'[w].op # "attach",
         UNCHANGED <<disk, s3, rows>>
  PROVE  FilesInv'
<1>1. Restated(w)
  BY NoUpload DEF Restated, RequestInv
<1>2. ~HoldsCase(w)'
  BY DEF HoldsCase
<1> QED
  BY <1>1, <1>2, LocalKeeps

-----------------------------------------------------------------------------
\* Requests begin, wait and end.

LEMMA BeginAttachKeeps ==
  ASSUME FilesInv, NEW w \in Workers, NEW h \in Hosts, NEW u \in Uploads,
         BeginAttach(w, h, u)
  PROVE  FilesInv'
<1> DEFINE r == [Idle EXCEPT !.at = "mkdir", !.op = "attach", !.host = h, !.upload = u,
                             !.run = requests + 1]
<1>1. /\ tx' = [tx EXCEPT ![w] = r]
      /\ UNCHANGED <<disk, s3, rows, judge, restarts>>
      /\ requests' = requests + 1
  BY DEF BeginAttach, Begins
<1>2. u \in Seq(Entry)
  BY UploadsAssumption
<1>4. Typed
  BY DEF FilesInv
<1>3. r \in Tx /\ r.op = "attach" /\ r.at = "mkdir" /\ r.host = h /\ r.rows = <<>> /\ ~r.synced
  <2> DEFINE n == requests + 1
  <2>1. n \in Nat
    BY <1>4 DEF Typed
  <2> HIDE DEF n
  <2>2. r = [Idle EXCEPT !.at = "mkdir", !.op = "attach", !.host = h, !.upload = u, !.run = n]
    BY DEF n
  <2> QED
    BY <1>2, <2>1, <2>2, Empties DEF Tx, OfUpload, Idle
<1>5. tx' \in [Workers -> Tx] /\ tx'[w] = r /\ \A v \in Workers \ {w} : tx'[v] = tx[v]
  BY <1>1, <1>3, <1>4, Becoming
<1>6. Typed'
  BY <1>1, <1>4, <1>5 DEF Typed
<1>7. Restated(w)
  BY <1>3, <1>5 DEF Restated, RequestInv, AtInv, OfUpload, Locked, UploadInv, CopyInv, Working
<1>8. ~HoldsCase(w)'
  BY <1>3, <1>5 DEF HoldsCase, Locked
<1> QED
  BY <1>1, <1>5, <1>6, <1>7, <1>8, LocalKeeps DEF Alike

LEMMA BeginReportKeeps ==
  ASSUME FilesInv, NEW w \in Workers, NEW h \in Hosts, BeginReport(w, h)
  PROVE  FilesInv'
<1> DEFINE r == [Idle EXCEPT !.at = "generate", !.op = "report", !.host = h]
<1>1. /\ tx' = [tx EXCEPT ![w] = r]
      /\ UNCHANGED <<disk, s3, rows, judge, restarts>>
      /\ requests' = requests + 1
  BY DEF BeginReport, Begins
<1>2. r \in Tx /\ r.op = "report" /\ r.at = "generate" /\ r.host = h /\ r.rows = <<>>
  BY Empties DEF Tx, OfReport, Idle
<1>3. Typed
  BY DEF FilesInv
<1>4. tx' \in [Workers -> Tx] /\ tx'[w] = r /\ \A v \in Workers \ {w} : tx'[v] = tx[v]
  BY <1>1, <1>2, <1>3, Becoming
<1>5. Typed'
  BY <1>1, <1>3, <1>4 DEF Typed
<1>6. AtInv(tx'[w])
  BY <1>2, <1>4 DEF AtInv, OfReport
<1> QED
  BY <1>1, <1>2, <1>4, <1>5, <1>6, OtherKeeps DEF Alike

LEMMA BeginValidateKeeps ==
  ASSUME FilesInv, NEW w \in Workers, NEW h \in Hosts, BeginValidate(w, h)
  PROVE  FilesInv'
<1> DEFINE o == \E x \in Workers : Validating(x, h)
           r == [Idle EXCEPT !.at = "ensure", !.op = "validate", !.host = h,
                             !.run = requests + 1, !.overlap = o]
<1>1. /\ tx' = [v \in Workers |-> IF v = w THEN r
                  ELSE IF Validating(v, h) THEN [tx[v] EXCEPT !.overlap = TRUE] ELSE tx[v]]
      /\ UNCHANGED <<disk, s3, rows, judge, restarts>>
      /\ requests' = requests + 1
  BY DEF BeginValidate, Begins
<1>2. Typed
  BY DEF FilesInv
<1>3. o \in BOOLEAN /\ requests + 1 \in Nat
  BY <1>2 DEF Typed
<1>4. r \in Tx /\ r.op = "validate" /\ r.at = "ensure" /\ r.host = h /\ r.rows = <<>>
  <2> HIDE DEF o
  <2> QED
    BY <1>3, Empties DEF Tx, OfValidation, Idle
<1>5. ASSUME NEW t \in Tx
      PROVE  [t EXCEPT !.overlap = TRUE] \in Tx /\ Alike(t, [t EXCEPT !.overlap = TRUE])
  BY DEF Tx, Alike
<1>6. \A v \in Workers \ {w} : tx'[v] \in Tx /\ Alike(tx[v], tx'[v])
  <2> SUFFICES ASSUME NEW v \in Workers \ {w}
               PROVE  tx'[v] \in Tx /\ Alike(tx[v], tx'[v])
    OBVIOUS
  <2>1. tx[v] \in Tx
    BY <1>2 DEF Typed
  <2>2. CASE Validating(v, h)
    <3>1. tx'[v] = [tx[v] EXCEPT !.overlap = TRUE]
      BY <1>1, <2>2
    <3> QED
      BY <1>5, <2>1, <3>1
  <2>3. CASE ~Validating(v, h)
    <3>1. tx'[v] = tx[v]
      BY <1>1, <2>3
    <3> QED
      BY <2>1, <3>1 DEF Alike
  <2> QED
    BY <2>2, <2>3
<1>7. tx'[w] = r
  BY <1>1
<1>8. tx' \in [Workers -> Tx]
  <2>1. \A v \in Workers : tx'[v] \in Tx
    BY <1>4, <1>6, <1>7
  <2> QED
    BY <1>1, <2>1
<1>9. Typed'
  <2>1. UNCHANGED <<disk, s3, rows, judge, restarts>> /\ requests' = requests + 1
    BY <1>1
  <2> QED
    BY <1>2, <1>8, <2>1 DEF Typed
<1>10. AtInv(tx'[w])
  BY <1>4, <1>7 DEF AtInv, OfValidation
<1> QED
  BY <1>1, <1>4, <1>6, <1>7, <1>9, <1>10, OtherKeeps

LEMMA LockCaseKeeps ==
  ASSUME FilesInv, NEW w \in Workers, LockCase(w)
  PROVE  FilesInv'
<1>1. /\ tx[w].at = "lock" /\ RowFree(w) /\ Goto(w, "files")
      /\ UNCHANGED <<disk, s3, rows, judge, counters>>
  BY DEF LockCase
<1>2. Typed /\ RequestInv(tx[w], disk, rows, s3) /\ tx[w] \in Tx
  BY DEF FilesInv, Typed
<1>3. /\ tx' \in [Workers -> Tx] /\ \A v \in Workers \ {w} : tx'[v] = tx[v]
      /\ tx'[w].at = "files" /\ tx'[w].op = tx[w].op /\ tx'[w].host = tx[w].host
      /\ tx'[w].run = tx[w].run
      /\ tx'[w].rows = tx[w].rows /\ tx'[w].synced = tx[w].synced
  BY <1>1, <1>2, Going DEF Ats, OfUpload, Locked
<1>4. tx[w].op = "attach" /\ tx[w].rows = <<>> /\ ~tx[w].synced /\ tx[w].host \in Hosts
  BY <1>1, <1>2 DEF RequestInv, AtInv, CopyInv, OfValidation, OfReport, Locked, Tx
<1>5. Typed'
  BY <1>1, <1>2, <1>3 DEF Typed, counters
<1>6. Restated(w)
  BY <1>1, <1>2, <1>3, <1>4
     DEF Restated, RequestInv, AtInv, OfUpload, Locked, UploadInv, CopyInv, Working
<1> QED
  BY <1>1, <1>3, <1>5, <1>6, LocalKeeps DEF Alike

LEMMA FailKeeps ==
  ASSUME FilesInv, NEW w \in Workers, Fail(w)
  PROVE  FilesInv'
<1>1. tx' = [tx EXCEPT ![w] = Idle] /\ UNCHANGED <<disk, s3, rows, judge, counters>>
  BY DEF Fail
<1>2. Typed
  BY DEF FilesInv
<1>3. /\ tx' \in [Workers -> Tx] /\ tx'[w] = Idle
      /\ \A v \in Workers \ {w} : tx'[v] = tx[v]
  BY <1>1, <1>2, Empties, Becoming
<1>4. Typed'
  BY <1>1, <1>2, <1>3 DEF Typed, counters
<1> QED
  BY <1>1, <1>3, <1>4, Empties, OtherKeeps DEF Alike

-----------------------------------------------------------------------------
\* Validations and reports, as far as the files go.

LEMMA MoveOnKeeps ==
  ASSUME FilesInv, NEW w \in Workers, NEW at \in Ats, Goto(w, at),
         tx[w].op # "attach", AtInv(tx'[w]), UNCHANGED <<disk, s3, rows, judge, counters>>
  PROVE  FilesInv'
<1>1. Typed
  BY DEF FilesInv
<1>2. /\ tx' \in [Workers -> Tx] /\ \A v \in Workers \ {w} : tx'[v] = tx[v]
      /\ tx'[w].op = tx[w].op
  BY <1>1, Going
<1>3. Typed'
  BY <1>1, <1>2 DEF Typed, counters
<1> QED
  BY <1>2, <1>3, OtherKeeps DEF Alike

LEMMA LoadEvidenceKeeps ==
  ASSUME FilesInv, NEW w \in Workers, LoadEvidence(w)
  PROVE  FilesInv'
<1>1. /\ tx[w].at = "load" /\ Goto(w, "write")
      /\ UNCHANGED <<disk, s3, rows, judge, counters>>
  BY DEF LoadEvidence, AfterLoad
<1>2. Typed /\ AtInv(tx[w]) /\ tx[w] \in Tx /\ "write" \in Ats
  BY DEF FilesInv, RequestInv, Typed, Ats, OfValidation
<1>3. tx[w].op = "validate"
  BY <1>1, <1>2 DEF AtInv, OfUpload, OfReport, Locked, Tx
<1>4. AtInv(tx'[w])
  BY <1>1, <1>2, <1>3, Going DEF AtInv, OfValidation
<1> QED
  BY <1>1, <1>2, <1>3, <1>4, MoveOnKeeps

LEMMA GenerateKeeps ==
  ASSUME FilesInv, NEW w \in Workers, Generate(w)
  PROVE  FilesInv'
<1> DEFINE at == IF S3Enabled THEN "sync" ELSE "status"
<1>1. /\ tx[w].at = "generate" /\ Goto(w, at)
      /\ UNCHANGED <<disk, s3, rows, judge, counters>>
  BY DEF Generate
<1>2. Typed /\ AtInv(tx[w]) /\ tx[w] \in Tx /\ at \in Ats /\ at \in {"sync", "status"}
  BY DEF FilesInv, RequestInv, Typed, Ats, OfValidation
<1>3. tx[w].op = "report"
  BY <1>1, <1>2 DEF AtInv, OfUpload, OfValidation, Locked, Tx
<1> HIDE DEF at
<1>4. AtInv(tx'[w])
  BY <1>1, <1>2, <1>3, Going DEF AtInv, OfReport
<1> QED
  BY <1>1, <1>2, <1>3, <1>4, MoveOnKeeps

LEMMA SetStatusKeeps ==
  ASSUME FilesInv, NEW w \in Workers, SetStatus(w)
  PROVE  FilesInv'
<1>1. /\ tx[w].at = "status"
      /\ judge' = IF tx[w].op = "validate"
                  THEN [run |-> tx[w].run, host |-> tx[w].host, overlap |-> tx[w].overlap]
                  ELSE NoJudge
      /\ tx' = [tx EXCEPT ![w] = Idle] /\ UNCHANGED <<disk, s3, rows, counters>>
  BY DEF SetStatus
<1>2. Typed /\ tx[w] \in Tx
  BY DEF FilesInv, Typed
<1>3. /\ tx' \in [Workers -> Tx] /\ tx'[w] = Idle
      /\ \A v \in Workers \ {w} : tx'[v] = tx[v]
  BY <1>1, <1>2, Empties, Becoming
<1>4. judge' \in [run : Nat, host : Hosts \cup {"none"}, overlap : BOOLEAN]
  BY <1>1, <1>2 DEF Tx, NoJudge
<1>5. Typed'
  BY <1>1, <1>2, <1>3, <1>4 DEF Typed, counters
<1> QED
  BY <1>1, <1>3, <1>5, Empties, OtherKeeps DEF Alike

-----------------------------------------------------------------------------
\* Steps in a directory.

LEMMA DirectoryKeeps ==
  ASSUME FilesInv, Typed', OneHolder', NEW h \in Hosts, NEW e,
         \A v \in Workers : tx'[v] = tx[v] \/ Restated(v),
         disk' = [disk EXCEPT ![h] = e], Grows(disk[h], e),
         e.made /\ ~e.gap => \/ disk[h].made /\ ~disk[h].gap
                             \/ \A i \in DOMAIN rows : Has(e, rows[i]),
         UNCHANGED <<s3, rows>>
  PROVE  FilesInv'
<1>1. disk'[h] = e /\ \A g \in Hosts \ {h} : disk'[g] = disk[g]
  BY DEF FilesInv, Typed
<1>2. \A g \in Hosts : Grows(disk[g], disk'[g])
  BY <1>1 DEF Grows
<1>3. ASSUME NEW v \in Workers, tx'[v] = tx[v] PROVE Untouched(v)
  <2>1. Working(tx[v]) => tx[v].host \in Hosts
    BY DEF FilesInv, RequestInv, AtInv, Working
  <2> QED
    BY <1>2, <1>3, <2>1 DEF Untouched, Alike
<1>4. DiskInv'
  <2> SUFFICES ASSUME NEW g \in Hosts, disk'[g].made, ~disk'[g].gap
               PROVE  \/ /\ disk[g].made /\ ~disk[g].gap
                         /\ disk[g].raw \subseteq disk'[g].raw
                         /\ disk[g].json \subseteq disk'[g].json
                      \/ \A i \in DOMAIN rows : Has(disk'[g], rows[i])
    BY DisksStay DEF FilesInv
  <2> QED
    BY <1>1, <1>2 DEF Grows
<1>5. S3Grows
  BY DEF S3Grows
<1> QED
  BY <1>3, <1>4, <1>5, StepKeeps

LEMMA MakeDirsKeeps ==
  ASSUME FilesInv, NEW w \in Workers, MakeDirs(w)
  PROVE  FilesInv'
<1> DEFINE h == tx[w].host
           d == disk[h]
           e == [d EXCEPT !.made = TRUE, !.gap = d.gap \/ (~d.made /\ rows # <<>>)]
<1>1. /\ tx[w].at = "mkdir" /\ Goto(w, "lock") /\ disk' = [disk EXCEPT ![h] = e]
      /\ UNCHANGED <<s3, rows, judge, counters>>
  BY DEF MakeDirs
<1>2. Typed /\ AtInv(tx[w]) /\ tx[w] \in Tx /\ CopyInv(tx[w], d, rows, s3)
  BY DEF FilesInv, RequestInv, Typed
<1>3. /\ tx' \in [Workers -> Tx] /\ \A v \in Workers \ {w} : tx'[v] = tx[v]
      /\ tx'[w].at = "lock" /\ tx'[w].op = tx[w].op /\ tx'[w].host = h
      /\ tx'[w].rows = tx[w].rows /\ tx'[w].synced = tx[w].synced
  BY <1>1, <1>2, Going DEF Ats, OfUpload
<1>4. tx[w].op = "attach" /\ h \in Hosts /\ tx[w].rows = <<>> /\ ~tx[w].synced
  BY <1>1, <1>2 DEF AtInv, OfValidation, OfReport, Locked, Tx, CopyInv
<1>5. d \in Dir /\ e \in Dir /\ e.made /\ (e.gap <=> d.gap \/ (~d.made /\ rows # <<>>))
      /\ e.raw = d.raw /\ e.json = d.json
  BY <1>2, <1>4 DEF Typed, Dir
<1> HIDE DEF e
<1>6. Typed'
  BY <1>1, <1>2, <1>3, <1>4, <1>5 DEF Typed, counters
<1>7. disk'[h] = e
  BY <1>1, <1>2, <1>4 DEF Typed
<1>8. Restated(w)
  BY <1>3, <1>4, <1>5, <1>7 DEF Restated, RequestInv, AtInv, OfUpload, Locked,
     UploadInv, CopyInv, Working
<1>9. OneHolder'
  BY <1>3, HolderStays DEF HoldsCase, FilesInv, Locked
<1>10. Grows(d, e)
  BY <1>5 DEF Grows, Dir
<1>11. e.made /\ ~e.gap => (d.made /\ ~d.gap) \/ \A i \in DOMAIN rows : Has(e, rows[i])
  BY <1>5
<1> QED
  BY <1>1, <1>3, <1>4, <1>6, <1>8, <1>9, <1>10, <1>11, DirectoryKeeps

\* A file that is registered on disk d is new there, or a member of a ZIP.
LEMMA NewRow ==
  ASSUME NEW t, t.rows \in Seq(Row), rows \in Seq(Row), NEW d \in Dir,
         NEW row \in Row, NEW e \in Dir,
         \A k \in DOMAIN t.rows : Registered(t, k, d, rows),
         d.made, d.gap \/ \A i \in DOMAIN rows : Has(d, rows[i]),
         e.gap = d.gap, d.raw \subseteq e.raw, d.json \subseteq e.json,
         Apart(row, d) \/ Joins(t, row),
         Has(e, row), ~row.uri, row.gap = d.gap, row.of[1] = t.run,
         \A j \in row.json : j[1] = Len(rows) + Len(t.rows) + 1,
         NEW r, r.rows = Append(t.rows, row), r.run = t.run
  PROVE  \A k \in DOMAIN r.rows : Registered(r, k, e, rows)
<1> DEFINE n == Len(t.rows)
           Kin(a) == a.of[2] = row.of[2] /\ row.of[2] # 0
<1>1. n \in Nat /\ DOMAIN t.rows = 1..n /\ DOMAIN r.rows = 1..(n + 1)
      /\ r.rows[n + 1] = row /\ \A k \in 1..n : r.rows[k] = t.rows[k]
  OBVIOUS
<1>2. ASSUME NEW k \in 1..n PROVE Registered(r, k, e, rows)
  <2>1. Registered(t, k, d, rows) /\ r.rows[k] = t.rows[k]
        /\ \A m \in 1..(k - 1) : r.rows[m] = t.rows[m]
    BY <1>1
  <2> QED
    BY <2>1 DEF Registered, Has
<1>3. \A k \in 1..n : Has(d, t.rows[k]) /\ t.rows[k].gap = d.gap
  BY <1>1 DEF Registered
<1>4. row.gap \/ \A i \in DOMAIN rows : Apart(rows[i], row)
  <2>1. CASE Apart(row, d)
    BY <2>1, ApartFacts DEF Has
  <2>2. CASE Joins(t, row)
    <3>1. PICK k \in 1..n : \E x \in Dirs(t.rows[k].raw) :
            \A p \in row.raw : p[1] = "work" /\ p[3] = x
      BY <1>1, <2>2 DEF Joins
    <3>2. t.rows[k].gap \/ \A i \in DOMAIN rows : Apart(rows[i], t.rows[k])
      BY <1>1 DEF Registered
    <3>3. row.gap = t.rows[k].gap
      BY <1>3
    <3>4. ASSUME NEW a, Apart(a, t.rows[k]) PROVE Apart(a, row)
      BY <3>1, <3>4, JoinsApart
    <3> QED
      BY <3>2, <3>3, <3>4
  <2> QED
    BY <2>1, <2>2
<1>5. ASSUME NEW m \in 1..n PROVE Kin(t.rows[m]) \/ Apart(t.rows[m], row)
  <2>1. CASE Apart(row, d)
    <3>1. t.rows[m].raw \subseteq d.raw
      BY <1>3 DEF Has
    <3> QED
      BY <2>1, <3>1, ApartFacts
  <2>2. CASE Joins(t, row)
    <3>1. PICK k \in 1..n : \E x \in Dirs(t.rows[k].raw) :
            /\ t.rows[k].of[2] = row.of[2] /\ row.of[2] # 0
            /\ \A p \in row.raw : p[1] = "work" /\ p[3] = x
      BY <1>1, <2>2 DEF Joins
    <3>2. Kin(t.rows[m]) \/ Apart(t.rows[m], t.rows[k])
      <4>1. CASE m = k
        BY <3>1, <4>1
      <4>2. CASE m < k
        <5>1. m \in 1..(k - 1) /\ Registered(t, k, d, rows)
          BY <1>1, <4>2
        <5> QED
          BY <3>1, <5>1 DEF Registered
      <4>3. CASE m > k
        <5>1. k \in 1..(m - 1) /\ Registered(t, m, d, rows)
          BY <1>1, <4>3
        <5>2. Kin(t.rows[m]) \/ Apart(t.rows[k], t.rows[m])
          BY <3>1, <5>1 DEF Registered
        <5> QED
          BY <5>2, ApartFacts
      <4> QED
        BY <4>1, <4>2, <4>3
    <3> QED
      BY <3>1, <3>2, JoinsApart
  <2> QED
    BY <2>1, <2>2
<1>6. Registered(r, n + 1, e, rows)
  <2>1. \A j \in row.json : j[1] = Len(rows) + (n + 1)
    BY <1>1
  <2>2. ASSUME NEW m \in 1..(n + 1 - 1) PROVE Kin(r.rows[m]) \/ Apart(r.rows[m], row)
    <3>1. m \in 1..n /\ r.rows[m] = t.rows[m]
      BY <1>1
    <3> QED
      BY <1>5, <3>1
  <2> QED
    BY <1>1, <1>4, <2>1, <2>2 DEF Registered
<1> QED
  BY <1>1, <1>2, <1>6

\* The path of an entry: new, or in the directory its ZIP has already.
LEMMA PathIsNew ==
  ASSUME NEW t, t.rows \in Seq(Row), NEW e, e.doc \in Docs, e.zip \in Nat, NEW d,
         d.raw \in RawSets
  PROVE  LET raw == RawPath(t, e, d.raw)
         IN  /\ raw \in Raws
             /\ \A row : row.raw = {raw} /\ row.of = <<t.run, e.zip>> =>
                  Apart(row, d) \/ Joins(t, row)
<1> DEFINE raw == RawPath(t, e, d.raw)
           c == FreeNumber(Copies(d.raw, e.doc))
           n == ExtractRoot(t, e.zip, d.raw)
<1>1. IsFiniteSet(d.raw)
  BY DEF RawSets
<1>2. CASE e.zip = 0
  <2>1. raw = <<"raw", e.doc, c>>
    BY <1>2 DEF RawPath
  <2>2. c \in Nat /\ <<"raw", e.doc, c>> \notin d.raw
    BY <1>1, NewPaths
  <2> HIDE DEF raw, c
  <2>3. raw \in Raws
    BY <2>1, <2>2 DEF Raws
  <2>4. ASSUME NEW row, row.raw = {raw} PROVE Apart(row, d)
    <3>1. Dirs(row.raw) = {}
      BY <2>1, <2>4, DirsFacts
    <3> QED
      BY <2>1, <2>2, <2>4, <3>1 DEF Apart
  <2> QED
    BY <2>3, <2>4 DEF raw
<1>3. CASE e.zip # 0
  <2>1. raw = <<"work", e.doc, n>>
    BY <1>3 DEF RawPath
  <2>2. CASE DirsOf(t, e.zip) = {}
    <3>1. n = FreeNumber(Dirs(d.raw))
      BY <2>2 DEF ExtractRoot
    <3>2. n \in Nat /\ n \notin Dirs(d.raw)
      BY <1>1, <3>1, NewPaths
    <3> HIDE DEF raw, n
    <3>3. raw \in Raws
      BY <2>1, <3>2 DEF Raws
    <3>4. ASSUME NEW row, row.raw = {raw} PROVE Apart(row, d)
      <4>1. Dirs(row.raw) = {n}
        BY <2>1, <3>4, DirsFacts
      <4>2. raw \notin d.raw
        BY <2>1, <3>2 DEF Dirs
      <4> QED
        BY <3>2, <3>4, <4>1, <4>2 DEF Apart
    <3> QED
      BY <3>3, <3>4 DEF raw
  <2>3. CASE DirsOf(t, e.zip) # {}
    <3>1. n \in DirsOf(t, e.zip)
      BY <2>3 DEF ExtractRoot
    <3>2. PICK k \in DOMAIN t.rows : t.rows[k].of[2] = e.zip /\ n \in Dirs(t.rows[k].raw)
      BY <3>1 DEF DirsOf
    <3>3. n \in Nat
      <4>1. PICK p \in t.rows[k].raw : n = p[3]
        BY <3>2 DEF Dirs
      <4>2. t.rows[k] \in Row
        OBVIOUS
      <4>3. p \in Raws
        BY <4>1, <4>2 DEF Row
      <4> QED
        BY <4>1, <4>3 DEF Raws
    <3> HIDE DEF raw, n
    <3>4. raw \in Raws
      BY <2>1, <3>3 DEF Raws
    <3>5. ASSUME NEW row, row.raw = {raw}, row.of = <<t.run, e.zip>> PROVE Joins(t, row)
      <4>1. row.of[2] = e.zip
        BY <3>5
      <4>2. \A p \in row.raw : p[1] = "work" /\ p[3] = n
        BY <2>1, <3>5
      <4> QED
        BY <1>3, <3>2, <4>1, <4>2 DEF Joins
    <3> QED
      BY <3>4, <3>5 DEF raw
  <2> QED
    BY <2>2, <2>3
<1> QED
  BY <1>2, <1>3

\* What RegisterFile does, junk or not: a row more, and its files.
LEMMA RegisterFileDoes ==
  ASSUME FilesInv, NEW w \in Workers, RegisterFile(w)
  PROVE  /\ tx[w].op = "attach" /\ tx[w].host \in Hosts
         /\ \E row \in Row, e \in Dir, at \in {AfterFiles, "files"} :
              LET t == tx[w]
                  d == disk[t.host]
              IN  /\ tx' = [tx EXCEPT ![w] = [t EXCEPT
                              !.upload = Tail(t.upload),
                              !.rows = Append(t.rows, row), !.at = at]]
                  /\ disk' = [disk EXCEPT ![t.host] = e]
                  /\ e.made = d.made /\ e.gap = d.gap /\ e.report = d.report
                  /\ d.raw \subseteq e.raw /\ d.json \subseteq e.json
                  /\ Apart(row, d) \/ Joins(t, row)
                  /\ Has(e, row) /\ ~row.uri /\ row.gap = d.gap /\ row.of[1] = t.run
                  /\ \A j \in row.json : j[1] = Len(rows) + Len(t.rows) + 1
         /\ UNCHANGED <<s3, rows, judge, counters>>
<1> DEFINE t == tx[w]
           en == Head(t.upload)
           d == disk[t.host]
           raw  == RawPath(t, en, d.raw)
           json == <<NextId(w), en.doc, IF en.zip = 0 THEN raw[3] ELSE 1>>
           R(r, j) == [raw |-> r, json |-> j, uri |-> FALSE, synced |-> FALSE,
                       gap |-> d.gap, of |-> <<t.run, en.zip>>]
           at == IF Len(t.upload) = 1 THEN AfterFiles ELSE "files"
           To(row) == tx' = [tx EXCEPT ![w] = [t EXCEPT !.upload = Tail(t.upload),
                                                        !.rows = Append(t.rows, row),
                                                        !.at = at]]
           e == [d EXCEPT !.raw = d.raw \cup {raw}, !.json = d.json \cup {json}]
<1>1. /\ t.at = "files" /\ t.upload # <<>>
      /\ \/ disk' = [disk EXCEPT ![t.host] = e] /\ To(R({raw}, {json}))
         \/ UNCHANGED disk /\ To(R({}, {}))
      /\ UNCHANGED <<s3, rows, judge, counters>>
  BY DEF RegisterFile
<1>2. Typed /\ AtInv(t) /\ t \in Tx
  BY DEF FilesInv, RequestInv, Typed
<1>3. t.op = "attach" /\ t.host \in Hosts
  BY <1>1, <1>2 DEF AtInv, OfValidation, OfReport, Tx
<1>4. d \in Dir /\ IsFiniteSet(d.raw) /\ d.raw \in RawSets
  BY <1>2, <1>3 DEF Typed, Dir, RawSets
<1>5. en \in Entry
  BY <1>1, <1>2 DEF Tx
<1>6. en.doc \in Docs /\ en.zip \in Nat
  BY <1>5 DEF Entry
<1>7. t.run \in Nat /\ t.rows \in Seq(Row)
  BY <1>2 DEF Tx
<1>8. /\ raw \in Raws
      /\ \A row : row.raw = {raw} /\ row.of = <<t.run, en.zip>> =>
           Apart(row, d) \/ Joins(t, row)
  BY <1>4, <1>6, <1>7, PathIsNew
<1>9. NextId(w) = Len(rows) + Len(t.rows) + 1 /\ NextId(w) \in Nat
  BY <1>2 DEF NextId, Typed, Tx
<1>10. json \in Jsons /\ json[1] = NextId(w)
  BY <1>6, <1>8, <1>9 DEF Jsons, Raws
<1>11. d.gap \in BOOLEAN
  BY <1>4 DEF Dir
<1>12. at \in {AfterFiles, "files"}
  OBVIOUS
<1> HIDE DEF raw, json, d, at, en
<1>13. CASE disk' = [disk EXCEPT ![t.host] = e] /\ To(R({raw}, {json}))
  <2>1. d.raw \cup {raw} \in RawSets
    BY <1>4, <1>8, RawSetFacts
  <2>2. e \in Dir /\ e.made = d.made /\ e.gap = d.gap /\ e.report = d.report
        /\ e.raw = d.raw \cup {raw} /\ e.json = d.json \cup {json}
    BY <1>4, <1>10, <2>1 DEF Dir
  <2>3. R({raw}, {json}) \in Row
    BY <1>6, <1>7, <1>8, <1>10, <1>11 DEF Row
  <2>4. \A j \in {json} : j[1] = Len(rows) + Len(t.rows) + 1
    BY <1>9, <1>10
  <2>5. Has(e, R({raw}, {json}))
    BY <2>2 DEF Has
  <2> DEFINE row == R({raw}, {json})
  <2>6. /\ row.raw = {raw} /\ row.json = {json} /\ ~row.uri /\ row.gap = d.gap
        /\ row.of = <<t.run, en.zip>> /\ row.of[1] = t.run
    OBVIOUS
  <2> HIDE DEF row, e
  <2>7. Apart(row, d) \/ Joins(t, row)
    BY <1>8, <2>6
  <2> QED
    BY <1>1, <1>3, <1>12, <1>13, <2>2, <2>3, <2>4, <2>5, <2>6, <2>7 DEF row, d
<1>14. CASE UNCHANGED disk /\ To(R({}, {}))
  <2> DEFINE row == R({}, {})
  <2>1. /\ row \in Row /\ row.raw = {} /\ row.json = {} /\ ~row.uri /\ row.gap = d.gap
        /\ row.of[1] = t.run
    BY <1>6, <1>7, <1>11 DEF Row
  <2>2. disk' = [disk EXCEPT ![t.host] = d]
    BY <1>2, <1>3, <1>14 DEF Typed, d
  <2> HIDE DEF row
  <2>3. Has(d, row) /\ Apart(row, d)
    BY <2>1, DirsFacts DEF Has, Apart
  <2> QED
    BY <1>1, <1>3, <1>4, <1>12, <1>14, <2>1, <2>2, <2>3 DEF row, d
<1> QED
  BY <1>1, <1>13, <1>14

LEMMA RegisterFileKeeps ==
  ASSUME FilesInv, NEW w \in Workers, RegisterFile(w)
  PROVE  FilesInv'
<1> DEFINE t == tx[w]
           d == disk[t.host]
<1>1. /\ t.op = "attach" /\ t.host \in Hosts /\ t.at = "files"
      /\ UNCHANGED <<s3, rows, judge, counters>>
  BY RegisterFileDoes DEF RegisterFile
<1>2. PICK row \in Row, e \in Dir, at \in {AfterFiles, "files"} :
        /\ tx' = [tx EXCEPT ![w] = [t EXCEPT !.upload = Tail(t.upload),
                                             !.rows = Append(t.rows, row), !.at = at]]
        /\ disk' = [disk EXCEPT ![t.host] = e]
        /\ e.made = d.made /\ e.gap = d.gap /\ e.report = d.report
        /\ d.raw \subseteq e.raw /\ d.json \subseteq e.json
        /\ Apart(row, d) \/ Joins(t, row)
        /\ Has(e, row) /\ ~row.uri /\ row.gap = d.gap /\ row.of[1] = t.run
        /\ \A j \in row.json : j[1] = Len(rows) + Len(t.rows) + 1
  BY RegisterFileDoes
<1> DEFINE r == [t EXCEPT !.upload = Tail(t.upload), !.rows = Append(t.rows, row), !.at = at]
<1>3. Typed /\ RequestInv(t, disk, rows, s3) /\ t \in Tx /\ DiskInv
  BY DEF FilesInv, Typed
<1>4. t.upload # <<>> /\ t.upload \in Seq(Entry) /\ t.rows \in Seq(Row)
  BY <1>3 DEF Tx, RegisterFile
<1>5. at \in {"files", "sync", "commit"}
  BY DEF AfterFiles
<1>6. Tail(t.upload) \in Seq(Entry) /\ Append(t.rows, row) \in Seq(Row)
      /\ Append(t.rows, row) # <<>>
  BY <1>4
<1>7. /\ r \in Tx /\ r.at = at /\ r.op = "attach" /\ r.host = t.host
      /\ r.rows = Append(t.rows, row) /\ r.synced = t.synced /\ r.run = t.run
  BY <1>1, <1>3, <1>5, <1>6 DEF Tx, OfUpload, Locked
<1> HIDE DEF r
<1>8. tx' \in [Workers -> Tx] /\ tx'[w] = r /\ \A v \in Workers \ {w} : tx'[v] = tx[v]
  BY <1>2, <1>3, <1>7, Becoming DEF r
<1>9. Typed'
  BY <1>1, <1>2, <1>3, <1>8 DEF Typed, counters
<1>10. d \in Dir /\ d.made /\ disk'[t.host] = e /\ ~t.synced
      /\ \A k \in DOMAIN t.rows : Registered(t, k, d, rows)
  BY <1>1, <1>2, <1>3 DEF Typed, RequestInv, UploadInv, CopyInv, Working, Tx
<1>11. d.gap \/ \A i \in DOMAIN rows : Has(d, rows[i])
  BY <1>1, <1>3, <1>10 DEF DiskInv
<1>12. \A k \in DOMAIN r.rows : Registered(r, k, e, rows)
  <2>1. rows \in Seq(Row)
    BY <1>3 DEF Typed
  <2> HIDE DEF t, d
  <2> QED
    BY <1>2, <1>4, <1>7, <1>10, <1>11, <2>1, NewRow
<1>13. Restated(w)
  <2>1. AtInv(r)
    BY <1>1, <1>5, <1>6, <1>7 DEF AtInv, OfUpload, Locked
  <2>2. UploadInv(r, e, rows)
    BY <1>2, <1>10, <1>12 DEF UploadInv
  <2>3. CopyInv(r, e, rows, s3)
    BY <1>5, <1>7, <1>10 DEF CopyInv
  <2> QED
    BY <1>1, <1>7, <1>8, <1>10, <2>1, <2>2, <2>3 DEF Restated, RequestInv
<1>14. OneHolder'
  BY <1>1, <1>8, HolderStays DEF HoldsCase, FilesInv, Locked
<1>15. Grows(d, e)
  BY <1>2 DEF Grows
<1> QED
  BY <1>1, <1>2, <1>8, <1>9, <1>10, <1>11, <1>13, <1>14, <1>15, DirectoryKeeps

\* A directory that was downloaded has every row, or a gap.
LEMMA DownloadFacts ==
  ASSUME FilesInv, NEW got \in Portions, NEW entries \in BOOLEAN
  PROVE  LET e == Downloaded(got, entries)
         IN  /\ e \in Dir /\ (entries => e.made)
             /\ e.made /\ ~e.gap => \A i \in DOMAIN rows : Has(e, rows[i])
<1> DEFINE e == Downloaded(got, entries)
<1>1. s3 \in Objects /\ Typed /\ StoredPathsAreReal
  BY DEF FilesInv, Typed, RowsInv
<1>2. got \in Objects
  <2>1. CASE got \in {Empty, s3}
    BY <1>1, <2>1, Empties
  <2>2. CASE got \in [raw : SUBSET s3.raw, json : SUBSET s3.json,
                      report : {NoReport, s3.report}]
    <3>1. /\ got = [raw |-> got.raw, json |-> got.json, report |-> got.report]
          /\ got.raw \in SUBSET s3.raw /\ got.json \in SUBSET s3.json
          /\ got.report \in {NoReport, s3.report}
      BY <2>2
    <3>2. s3.raw \in RawSets /\ s3.json \in SUBSET Jsons /\ s3.report \in Reports
      BY <1>1 DEF Objects
    <3>3. got.raw \in RawSets
      <4>1. IsFiniteSet(s3.raw) /\ s3.raw \in SUBSET Raws
        BY <3>2 DEF RawSets
      <4>2. IsFiniteSet(got.raw)
        BY <3>1, <4>1, FS_Subset
      <4> QED
        BY <3>1, <4>1, <4>2 DEF RawSets
    <3>4. got.report \in Reports
      BY <3>1, <3>2 DEF Reports, NoReport
    <3>5. got.json \in SUBSET Jsons
      BY <3>1, <3>2
    <3> QED
      BY <3>1, <3>3, <3>4, <3>5 DEF Objects
  <2> QED
    BY <2>1, <2>2 DEF Portions
<1>3. /\ e.made = (entries \/ got # Empty)
      /\ e.gap = ((entries \/ got # Empty) /\ (got # s3 \/ Misses))
      /\ e.raw = got.raw /\ e.json = got.json
  BY DEF Downloaded
<1>4. e \in Dir
  BY <1>2, <1>3 DEF Downloaded, Dir, Objects
<1>5. ASSUME e.made, ~e.gap, NEW i \in DOMAIN rows PROVE Has(e, rows[i])
  <2>1. got = s3 /\ rows[i].synced
    BY <1>3, <1>5 DEF Misses
  <2> QED
    BY <1>1, <1>3, <2>1 DEF StoredPathsAreReal, InS3, Has
<1> QED
  BY <1>3, <1>4, <1>5

LEMMA EnsureLocalKeeps ==
  ASSUME FilesInv, NEW w \in Workers, EnsureLocal(w)
  PROVE  FilesInv'
<1> DEFINE h == tx[w].host
           d == disk[h]
<1>1. /\ tx[w].at = "ensure" /\ Goto(w, "load")
      /\ IF d.made THEN disk' = [disk EXCEPT ![h].made = TRUE]
         ELSE \E got \in Portions : disk' = [disk EXCEPT ![h] = Downloaded(got, TRUE)]
      /\ UNCHANGED <<s3, rows, judge, counters>>
  BY DEF EnsureLocal, HasEntries
<1>2. Typed /\ AtInv(tx[w]) /\ tx[w] \in Tx
  BY DEF FilesInv, RequestInv, Typed
<1>3. tx[w].op = "validate" /\ h \in Hosts
  BY <1>1, <1>2 DEF AtInv, OfUpload, OfReport, Locked, Tx
<1>4. /\ tx' \in [Workers -> Tx] /\ \A v \in Workers \ {w} : tx'[v] = tx[v]
      /\ tx'[w].at = "load" /\ tx'[w].op = "validate" /\ tx'[w].host = h
      /\ tx'[w].rows = tx[w].rows
  BY <1>1, <1>2, <1>3, Going DEF Ats, OfValidation
<1>5. PICK e \in Dir :
        /\ disk' = [disk EXCEPT ![h] = e] /\ e.made /\ Grows(d, e)
        /\ ~e.gap => (d.made /\ ~d.gap) \/ \A i \in DOMAIN rows : Has(e, rows[i])
  <2>1. CASE d.made
    <3>1. d \in Dir /\ disk' = [disk EXCEPT ![h] = [d EXCEPT !.made = TRUE]]
      BY <1>1, <1>2, <1>3, <2>1 DEF Typed
    <3>2. [d EXCEPT !.made = TRUE] = d
      BY <2>1, <3>1 DEF Dir
    <3> QED
      BY <2>1, <3>1, <3>2 DEF Grows
  <2>2. CASE ~d.made
    <3>1. PICK got \in Portions : disk' = [disk EXCEPT ![h] = Downloaded(got, TRUE)]
      BY <1>1, <2>2
    <3>2. /\ Downloaded(got, TRUE) \in Dir /\ Downloaded(got, TRUE).made
          /\ ~Downloaded(got, TRUE).gap =>
               \A i \in DOMAIN rows : Has(Downloaded(got, TRUE), rows[i])
      BY DownloadFacts
    <3> QED
      BY <2>2, <3>1, <3>2 DEF Grows
  <2> QED
    BY <2>1, <2>2
<1>6. Typed'
  BY <1>1, <1>2, <1>4, <1>5 DEF Typed, counters
<1>7. Restated(w)
  <2>1. AtInv(tx'[w])
    BY <1>1, <1>2, <1>3, <1>4 DEF AtInv, OfValidation
  <2> QED
    BY <1>4, <2>1, NoUpload DEF Restated, RequestInv
<1>8. OneHolder'
  BY <1>4, HolderStays DEF HoldsCase, FilesInv
<1> QED
  BY <1>1, <1>3, <1>4, <1>5, <1>6, <1>7, <1>8, DirectoryKeeps

LEMMA ViewKeeps ==
  ASSUME FilesInv, NEW h \in Hosts, View(h)
  PROVE  FilesInv'
<1>1. PICK got \in Portions : disk' = [disk EXCEPT ![h] = Downloaded(got, FALSE)]
  BY DEF View
<1>2. ~disk[h].made /\ UNCHANGED <<s3, rows, tx, judge, counters>>
  BY DEF View, HasEntries
<1> DEFINE e == Downloaded(got, FALSE)
<1>3. e \in Dir /\ (e.made /\ ~e.gap => \A i \in DOMAIN rows : Has(e, rows[i]))
  BY DownloadFacts
<1> HIDE DEF e
<1>4. Typed'
  BY <1>1, <1>2, <1>3 DEF FilesInv, Typed, counters, e
<1>5. OneHolder'
  BY <1>2 DEF FilesInv, OneHolder, HoldsCase
<1>6. Grows(disk[h], e)
  BY <1>2 DEF Grows
<1> QED
  BY <1>1, <1>2, <1>3, <1>4, <1>5, <1>6, DirectoryKeeps DEF e

\* Writing the report leaves the files alone.
LEMMA ReportKeeps ==
  ASSUME FilesInv, NEW w \in Workers, NEW at \in Ats, NEW report \in Reports,
         tx[w].op = "validate", AtInv(tx'[w]), Goto(w, at),
         disk' = [disk EXCEPT ![tx[w].host] = [disk[tx[w].host] EXCEPT !.report = report]],
         UNCHANGED <<s3, rows, judge, counters>>
  PROVE  FilesInv'
<1> DEFINE h == tx[w].host
           e == [disk[h] EXCEPT !.report = report]
<1>1. Typed /\ h \in Hosts
  BY DEF FilesInv, RequestInv, AtInv
<1>2. disk[h] \in Dir
  BY <1>1 DEF Typed
<1>3. e \in Dir /\ e.made = disk[h].made /\ e.gap = disk[h].gap
      /\ e.raw = disk[h].raw /\ e.json = disk[h].json
  BY <1>2 DEF Dir
<1>4. /\ tx' \in [Workers -> Tx] /\ \A v \in Workers \ {w} : tx'[v] = tx[v]
      /\ tx'[w].op = "validate"
  BY <1>1, Going
<1> HIDE DEF e
<1>5. Typed'
  BY <1>1, <1>3, <1>4 DEF Typed, counters, e
<1>6. Restated(w)
  BY <1>4, NoUpload DEF Restated, RequestInv
<1>7. OneHolder'
  BY <1>4, HolderStays DEF HoldsCase, FilesInv
<1>8. Grows(disk[h], e)
  BY <1>3 DEF Grows
<1> QED
  BY <1>1, <1>3, <1>4, <1>5, <1>6, <1>7, <1>8, DirectoryKeeps DEF e

LEMMA TruncateReportKeeps ==
  ASSUME FilesInv, NEW w \in Workers, TruncateReport(w)
  PROVE  FilesInv'
<1>1. /\ tx[w].at = "write" /\ Goto(w, "fill")
      /\ disk' = [disk EXCEPT ![tx[w].host] = [disk[tx[w].host] EXCEPT !.report = Torn]]
      /\ UNCHANGED <<s3, rows, judge, counters>>
  BY DEF TruncateReport
<1>2. Typed /\ AtInv(tx[w]) /\ tx[w] \in Tx /\ "fill" \in Ats /\ Torn \in Reports
  BY DEF FilesInv, RequestInv, Typed, Ats, OfValidation, Reports
<1>3. tx[w].op = "validate"
  BY <1>1, <1>2 DEF AtInv, OfUpload, OfReport, Locked, Tx
<1>4. AtInv(tx'[w])
  BY <1>1, <1>2, <1>3, Going DEF AtInv, OfValidation
<1> QED
  BY <1>1, <1>2, <1>3, <1>4, ReportKeeps

LEMMA FillReportKeeps ==
  ASSUME FilesInv, NEW w \in Workers, FillReport(w)
  PROVE  FilesInv'
<1> DEFINE at == IF S3Enabled THEN "sync" ELSE "status"
<1>1. /\ tx[w].at = "fill" /\ Goto(w, at)
      /\ disk' = [disk EXCEPT ![tx[w].host] =
                    [disk[tx[w].host] EXCEPT !.report = tx[w].run]]
      /\ UNCHANGED <<s3, rows, judge, counters>>
  BY DEF FillReport
<1>2. /\ Typed /\ AtInv(tx[w]) /\ tx[w] \in Tx /\ at \in Ats
      /\ at \in {"sync", "status"} /\ tx[w].run \in Reports
  BY DEF FilesInv, RequestInv, Typed, Ats, OfValidation, Reports, Tx
<1>3. tx[w].op = "validate"
  BY <1>1, <1>2 DEF AtInv, OfUpload, OfReport, Locked, Tx
<1> HIDE DEF at
<1>4. AtInv(tx'[w])
  BY <1>1, <1>2, <1>3, Going DEF AtInv, OfValidation
<1> QED
  BY <1>1, <1>2, <1>3, <1>4, ReportKeeps

-----------------------------------------------------------------------------
\* Copies to S3.

\* A request that is copying is an upload with rows, a validation or a report.
LEMMA Copying ==
  ASSUME FilesInv, NEW w \in Workers, tx[w].at \in {"sync", "put"}
  PROVE  /\ tx[w].op \in {"attach", "validate", "report"} /\ tx[w].host \in Hosts
         /\ tx[w] \in Tx /\ disk[tx[w].host] \in Dir /\ AtInv(tx[w])
         /\ tx[w].op = "attach" =>
              /\ tx[w].rows # <<>> /\ ~tx[w].synced
              /\ UploadInv(tx[w], disk[tx[w].host], rows)
              /\ disk[tx[w].host].made
              /\ \A k \in DOMAIN tx[w].rows :
                   Registered(tx[w], k, disk[tx[w].host], rows)
              /\ tx[w].at = "put" => Carries(tx[w], disk[tx[w].host], rows, tx[w].snap)
<1>1. Typed /\ RequestInv(tx[w], disk, rows, s3) /\ tx[w] \in Tx
  BY DEF FilesInv, Typed
<1>2. tx[w].op \in {"attach", "validate", "report"} /\ tx[w].host \in Hosts
  BY <1>1 DEF RequestInv, AtInv, Tx
<1>3. disk[tx[w].host] \in Dir
  BY <1>1, <1>2 DEF Typed
<1> QED
  BY <1>1, <1>2, <1>3 DEF RequestInv, AtInv, UploadInv, CopyInv, Working, Tx

LEMMA SyncKeeps ==
  ASSUME FilesInv, NEW w \in Workers, Sync(w)
  PROVE  FilesInv'
<1> DEFINE t == tx[w]
           d == disk[t.host]
           r == [t EXCEPT !.at = "put", !.snap = Files(d)]
<1>1. /\ t.at = "sync" /\ tx' = [tx EXCEPT ![w] = r]
      /\ UNCHANGED <<disk, s3, rows, judge, counters>>
  BY DEF Sync
<1>2. Typed /\ DiskInv
  BY DEF FilesInv
<1>3. /\ t.op \in {"attach", "validate", "report"} /\ t.host \in Hosts
      /\ t \in Tx /\ d \in Dir /\ AtInv(t)
      /\ t.op = "attach" =>
           /\ t.rows # <<>> /\ ~t.synced /\ d.made /\ UploadInv(t, d, rows)
           /\ \A k \in DOMAIN t.rows : Registered(t, k, d, rows)
  BY <1>1, Copying
<1>4. Files(d) \in Objects /\ Files(d).raw = d.raw /\ Files(d).json = d.json
  BY <1>3 DEF Files, Dir, Objects
<1>5. /\ r \in Tx /\ r.at = "put" /\ r.op = t.op /\ r.host = t.host
      /\ r.rows = t.rows /\ r.synced = t.synced /\ r.snap = Files(d) /\ r.run = t.run
  BY <1>3, <1>4 DEF Tx, OfValidation
<1> HIDE DEF r
<1>6. /\ tx' \in [Workers -> Tx] /\ tx'[w] = r
      /\ \A v \in Workers \ {w} : tx'[v] = tx[v]
  BY <1>1, <1>2, <1>5, Becoming
<1>7. Typed'
  BY <1>1, <1>2, <1>6 DEF Typed, counters
<1>8. Restated(w)
  <2>1. AtInv(r)
    BY <1>1, <1>3, <1>5 DEF AtInv, OfUpload, OfValidation, OfReport, Locked
  <2>2. UploadInv(r, d, rows)
    <3>1. \A k \in DOMAIN r.rows : Registered(t, k, d, rows) => Registered(r, k, d, rows)
      BY <1>5 DEF Registered
    <3> QED
      BY <1>3, <1>5, <3>1 DEF UploadInv, Working
  <2>3. ASSUME t.op = "attach" PROVE Carries(r, d, rows, r.snap)
    <3>1. \A k \in DOMAIN r.rows : Has(r.snap, r.rows[k])
      BY <1>3, <1>4, <1>5, <2>3 DEF Registered, Has
    <3>2. d.gap \/ \A i \in DOMAIN rows : Has(r.snap, rows[i])
      BY <1>2, <1>3, <1>4, <1>5, <2>3 DEF DiskInv, Has
    <3> QED
      BY <3>1, <3>2 DEF Carries
  <2>4. CopyInv(r, d, rows, s3)
    BY <1>3, <1>5, <2>3 DEF CopyInv
  <2> QED
    BY <1>1, <1>5, <1>6, <2>1, <2>2, <2>4 DEF Restated, RequestInv
<1>9. HoldsCase(w)' => HoldsCase(w)
  BY <1>1, <1>5, <1>6 DEF HoldsCase, Locked
<1> QED
  BY <1>1, <1>6, <1>7, <1>8, <1>9, LocalKeeps DEF Alike

\* A copy that is over, complete or not.
LEMMA CopyKeeps ==
  ASSUME FilesInv, NEW w \in Workers, tx[w].at = "put",
         NEW raw \in SUBSET tx[w].snap.raw, NEW json \in SUBSET tx[w].snap.json,
         NEW report \in {NoReport, tx[w].snap.report}, NEW ok \in BOOLEAN,
         tx[w].op = "attach" /\ ok => raw = tx[w].snap.raw /\ json = tx[w].snap.json,
         s3' = Uploaded(s3, raw, json, report),
         tx' = [tx EXCEPT ![w] = [tx[w] EXCEPT !.at = AfterPut(w), !.snap = Empty,
                                               !.synced = ok]],
         UNCHANGED <<disk, rows, judge, counters>>
  PROVE  FilesInv'
<1> DEFINE t == tx[w]
           d == disk[t.host]
           r == [t EXCEPT !.at = AfterPut(w), !.snap = Empty, !.synced = ok]
<1>1. Typed /\ t.snap \in Objects /\ s3 \in Objects
  BY DEF FilesInv, Typed, Tx
<1>2. /\ t.op \in {"attach", "validate", "report"} /\ t.host \in Hosts
      /\ t \in Tx /\ AtInv(t)
      /\ t.op = "attach" => /\ t.rows # <<>> /\ UploadInv(t, d, rows)
                            /\ Carries(t, d, rows, t.snap)
  BY Copying
<1>3. /\ s3'.raw = s3.raw \cup raw /\ s3'.json = s3.json \cup json
      /\ s3' \in Objects
  <2>1. raw \in RawSets
    <3>1. IsFiniteSet(t.snap.raw) /\ t.snap.raw \in SUBSET Raws
      BY <1>1 DEF Objects, RawSets
    <3>2. IsFiniteSet(raw)
      BY <3>1, FS_Subset
    <3> QED
      BY <3>1, <3>2 DEF RawSets
  <2>2. s3.raw \cup raw \in RawSets
    <3>1. IsFiniteSet(s3.raw) /\ IsFiniteSet(raw)
      BY <1>1, <2>1 DEF Objects, RawSets
    <3>2. IsFiniteSet(s3.raw \cup raw)
      BY <3>1, FS_Union
    <3> QED
      BY <1>1, <2>1, <3>2 DEF Objects, RawSets
  <2>3. s3.json \cup json \in SUBSET Jsons
    BY <1>1 DEF Objects
  <2>4. report \in Reports /\ s3.report \in Reports
    BY <1>1 DEF Objects, Reports, NoReport
  <2> QED
    BY <2>2, <2>3, <2>4 DEF Uploaded, Objects
<1>4. S3Grows
  BY <1>3 DEF S3Grows
<1>5. AfterPut(w) = IF t.op = "attach" THEN "commit" ELSE "status"
  BY DEF AfterPut
<1>6. /\ r \in Tx /\ r.at = AfterPut(w) /\ r.op = t.op /\ r.host = t.host
      /\ r.rows = t.rows /\ r.synced = ok /\ r.run = t.run
  BY <1>2, <1>5, Empties DEF Tx, OfUpload, OfValidation, Locked
<1> HIDE DEF r
<1>7. /\ tx' \in [Workers -> Tx] /\ tx'[w] = r
      /\ \A v \in Workers \ {w} : tx'[v] = tx[v]
  BY <1>1, <1>6, Becoming DEF r
<1>8. Typed'
  BY <1>1, <1>3, <1>7 DEF Typed, counters
<1>9. Restated(w)
  <2>1. AtInv(r)
    BY <1>2, <1>5, <1>6 DEF AtInv, OfUpload, OfValidation, OfReport, Locked
  <2>2. UploadInv(r, d, rows)
    <3>1. \A k \in DOMAIN r.rows : Registered(t, k, d, rows) => Registered(r, k, d, rows)
      BY <1>6 DEF Registered
    <3> QED
      BY <1>2, <1>6, <3>1 DEF UploadInv, Working
  <2>3. ASSUME t.op = "attach", ok PROVE Carries(r, d, rows, s3')
    BY <1>2, <1>3, <1>6, <2>3 DEF Carries, Has
  <2>4. CopyInv(r, d, rows, s3')
    BY <1>5, <1>6, <2>3 DEF CopyInv
  <2> QED
    BY <1>6, <1>7, <2>1, <2>2, <2>4 DEF Restated, RequestInv
<1>10. OneHolder'
  BY <1>2, <1>6, <1>7, HolderStays DEF FilesInv, HoldsCase, Locked
<1>11. DiskInv'
  BY DisksStay DEF FilesInv
<1>12. \A v \in Workers : Untouched(v) \/ Restated(v)
  BY <1>7, <1>9 DEF Untouched, Alike, Grows
<1> QED
  BY <1>4, <1>8, <1>10, <1>11, <1>12, StepKeeps

LEMMA PutKeeps ==
  ASSUME FilesInv, NEW w \in Workers, Put(w) \/ PutFails(w)
  PROVE  FilesInv'
<1>1. CASE Put(w)
  <2>1. /\ tx[w].at = "put" /\ UNCHANGED <<disk, rows, judge, counters>>
        /\ s3' = Uploaded(s3, tx[w].snap.raw, tx[w].snap.json, tx[w].snap.report)
        /\ tx' = [tx EXCEPT ![w] = [tx[w] EXCEPT !.at = AfterPut(w), !.snap = Empty,
                                                 !.synced = TRUE]]
    BY <1>1 DEF Put
  <2> QED
    BY <2>1, CopyKeeps
<1>2. CASE PutFails(w)
  <2>1. PICK raw \in SUBSET tx[w].snap.raw, json \in SUBSET tx[w].snap.json,
             report \in {NoReport, tx[w].snap.report} :
          s3' = Uploaded(s3, raw, json, report)
    BY <1>2 DEF PutFails
  <2>2. /\ tx[w].at = "put" /\ UNCHANGED <<disk, rows, judge, counters>>
        /\ tx' = [tx EXCEPT ![w] = [tx[w] EXCEPT !.at = AfterPut(w), !.snap = Empty]]
    BY <1>2 DEF PutFails
  <2>3. tx[w] \in Tx /\ (tx[w].op = "attach" => ~tx[w].synced)
    BY <2>2, Copying
  <2>4. tx[w].synced \in BOOLEAN
        /\ [tx[w] EXCEPT !.at = AfterPut(w), !.snap = Empty]
             = [tx[w] EXCEPT !.at = AfterPut(w), !.snap = Empty, !.synced = tx[w].synced]
    BY <2>3 DEF Tx
  <2> QED
    BY <2>1, <2>2, <2>3, <2>4, CopyKeeps
<1> QED
  BY <1>1, <1>2

-----------------------------------------------------------------------------
\* The commit of an upload.

\* The rows after a commit: the old ones, then those of the upload.
LEMMA CommitDoes ==
  ASSUME FilesInv, NEW w \in Workers, CommitAttach(w)
  PROVE  LET t == tx[w]
             n == Len(rows)
             m == Len(t.rows)
         IN  /\ rows' \in Seq(Row) /\ Len(rows') = n + m /\ n \in Nat /\ m \in Nat
             /\ \A i \in 1..n :
                  /\ rows'[i].raw = rows[i].raw /\ rows'[i].json = rows[i].json
                  /\ rows'[i].synced = rows[i].synced /\ rows'[i].gap = rows[i].gap
                  /\ rows'[i].of = rows[i].of
                  /\ rows'[i].uri <=> rows[i].uri \/ t.synced
             /\ \A k \in 1..m :
                  /\ rows'[n + k].raw = t.rows[k].raw /\ rows'[n + k].json = t.rows[k].json
                  /\ rows'[n + k].synced = t.synced /\ rows'[n + k].gap = t.rows[k].gap
                  /\ rows'[n + k].of = t.rows[k].of
                  /\ rows'[n + k].uri <=> t.rows[k].uri \/ t.synced
<1> DEFINE t == tx[w]
           n == Len(rows)
           m == Len(t.rows)
           own == [i \in DOMAIN t.rows |-> [t.rows[i] EXCEPT !.synced = t.synced]]
           all == rows \o own
           new == [i \in DOMAIN all |-> WithUri(t, all[i])]
<1>1. rows' = new
  BY DEF CommitAttach
<1>2. Typed /\ t \in Tx
  BY DEF FilesInv, Typed
<1>3. /\ rows \in Seq(Row) /\ t.rows \in Seq(Row) /\ t.synced \in BOOLEAN
      /\ n \in Nat /\ m \in Nat
      /\ DOMAIN rows = 1..n /\ DOMAIN t.rows = 1..m
  BY <1>2 DEF Typed, Tx
<1>4. \A k \in 1..m : /\ own[k] = [t.rows[k] EXCEPT !.synced = t.synced]
                      /\ t.rows[k] \in Row
  BY <1>3
<1>5. \A k \in 1..m : /\ own[k] \in Row /\ own[k].raw = t.rows[k].raw
                      /\ own[k].json = t.rows[k].json /\ own[k].uri = t.rows[k].uri
                      /\ own[k].synced = t.synced /\ own[k].gap = t.rows[k].gap
                      /\ own[k].of = t.rows[k].of
  <2> HIDE DEF own
  <2> QED
    BY <1>3, <1>4 DEF Row
<1>6. own \in Seq(Row) /\ Len(own) = m
  <2>1. own \in [1..m -> Row]
    BY <1>3, <1>5
  <2> QED
    BY <1>3, <2>1
<1> HIDE DEF own
<1>7. /\ all \in Seq(Row) /\ Len(all) = n + m /\ DOMAIN all = 1..(n + m)
      /\ \A i \in 1..n : all[i] = rows[i]
      /\ \A k \in 1..m : all[n + k] = own[k]
  BY <1>3, <1>6
<1> HIDE DEF all
<1>8. ASSUME NEW i \in 1..(n + m)
      PROVE  /\ new[i] \in Row /\ new[i].raw = all[i].raw /\ new[i].json = all[i].json
             /\ new[i].synced = all[i].synced /\ new[i].gap = all[i].gap
             /\ new[i].of = all[i].of
             /\ new[i].uri <=> all[i].uri \/ t.synced
  <2>1. all[i] \in Row /\ new[i] = WithUri(t, all[i])
    BY <1>7
  <2>2. all[i].uri \in BOOLEAN
    BY <2>1 DEF Row
  <2>3. (all[i].uri \/ t.synced) \in BOOLEAN
    OBVIOUS
  <2>4. new[i] = [all[i] EXCEPT !.uri = (all[i].uri \/ t.synced)]
    BY <2>1 DEF WithUri
  <2> HIDE DEF new
  <2> QED
    BY <2>1, <2>2, <2>3, <2>4 DEF Row
<1>9. new \in Seq(Row) /\ Len(new) = n + m
  <2>1. new \in [1..(n + m) -> Row]
    BY <1>7, <1>8
  <2> QED
    BY <1>3, <2>1
<1> HIDE DEF new
<1>10. ASSUME NEW i \in 1..n
       PROVE  /\ rows'[i].raw = rows[i].raw /\ rows'[i].json = rows[i].json
              /\ rows'[i].synced = rows[i].synced /\ rows'[i].gap = rows[i].gap
              /\ rows'[i].of = rows[i].of
              /\ rows'[i].uri <=> rows[i].uri \/ t.synced
  <2>1. i \in 1..(n + m) /\ all[i] = rows[i]
    BY <1>3, <1>7
  <2>2. /\ new[i].raw = all[i].raw /\ new[i].json = all[i].json
        /\ new[i].synced = all[i].synced /\ new[i].gap = all[i].gap
        /\ new[i].of = all[i].of
        /\ new[i].uri <=> all[i].uri \/ t.synced
    BY <1>8, <2>1
  <2> QED
    BY <1>1, <2>1, <2>2
<1>11. ASSUME NEW k \in 1..m
       PROVE  /\ rows'[n + k].raw = t.rows[k].raw /\ rows'[n + k].json = t.rows[k].json
              /\ rows'[n + k].synced = t.synced /\ rows'[n + k].gap = t.rows[k].gap
              /\ rows'[n + k].of = t.rows[k].of
              /\ rows'[n + k].uri <=> t.rows[k].uri \/ t.synced
  <2>1. n + k \in 1..(n + m) /\ all[n + k] = own[k]
    BY <1>3, <1>7
  <2>2. /\ new[n + k].raw = all[n + k].raw /\ new[n + k].json = all[n + k].json
        /\ new[n + k].synced = all[n + k].synced /\ new[n + k].gap = all[n + k].gap
        /\ new[n + k].of = all[n + k].of
        /\ new[n + k].uri <=> all[n + k].uri \/ t.synced
    BY <1>8, <2>1
  <2>3. /\ own[k].raw = t.rows[k].raw /\ own[k].json = t.rows[k].json
        /\ own[k].uri = t.rows[k].uri /\ own[k].synced = t.synced
        /\ own[k].gap = t.rows[k].gap /\ own[k].of = t.rows[k].of
    BY <1>5
  <2> QED
    BY <1>1, <2>1, <2>2, <2>3
<1> QED
  BY <1>1, <1>3, <1>9, <1>10, <1>11

\* What the committed rows are when an upload has added its own.
LEMMA CommittedRows ==
  ASSUME FilesInv, NEW w \in Workers, CommitAttach(w)
  PROVE  RowsInv'
<1> DEFINE t == tx[w]
           n == Len(rows)
           m == Len(t.rows)
           d == disk[t.host]
<1>1. t.op = "attach" /\ t.at = "commit" /\ UNCHANGED s3
  BY DEF CommitAttach
<1>2. /\ FileNumbersAgree /\ RowsOwnTheirFiles /\ StoredPathsAreReal
      /\ RequestInv(t, disk, rows, s3) /\ Typed /\ t \in Tx
  BY DEF FilesInv, RowsInv, Typed
<1>3. /\ rows' \in Seq(Row) /\ Len(rows') = n + m /\ n \in Nat /\ m \in Nat
      /\ \A i \in 1..n :
           /\ rows'[i].raw = rows[i].raw /\ rows'[i].json = rows[i].json
           /\ rows'[i].synced = rows[i].synced /\ rows'[i].gap = rows[i].gap
           /\ rows'[i].of = rows[i].of
           /\ rows'[i].uri <=> rows[i].uri \/ t.synced
      /\ \A k \in 1..m :
           /\ rows'[n + k].raw = t.rows[k].raw /\ rows'[n + k].json = t.rows[k].json
           /\ rows'[n + k].synced = t.synced /\ rows'[n + k].gap = t.rows[k].gap
           /\ rows'[n + k].of = t.rows[k].of
           /\ rows'[n + k].uri <=> t.rows[k].uri \/ t.synced
  BY CommitDoes
<1>4. DOMAIN rows = 1..n /\ DOMAIN t.rows = 1..m /\ DOMAIN rows' = 1..(n + m) /\ m > 0
  BY <1>1, <1>2, <1>3 DEF Typed, Tx, RequestInv, AtInv
<1>5. \A k \in 1..m : Registered(t, k, d, rows)
  BY <1>1, <1>2, <1>4 DEF RequestInv, UploadInv, Working
<1>6. ASSUME NEW i \in 1..(n + m), i \notin 1..n
      PROVE  i - n \in 1..m /\ n + (i - n) = i
  <2>1. n \in Nat /\ m \in Nat
    BY <1>3
  <2> HIDE DEF n, m
  <2> QED
    BY <1>6, <2>1
<1>7. FileNumbersAgree'
  <2> SUFFICES ASSUME NEW i \in 1..(n + m), NEW j \in rows'[i].json PROVE j[1] = i
    BY <1>4 DEF FileNumbersAgree
  <2>1. CASE i \in 1..n
    BY <1>2, <1>3, <1>4, <2>1 DEF FileNumbersAgree
  <2>2. CASE i \notin 1..n
    <3>1. rows'[i].json = t.rows[i - n].json /\ Registered(t, i - n, d, rows)
      BY <1>3, <1>5, <1>6, <2>2
    <3> QED
      BY <1>6, <2>2, <3>1 DEF Registered
  <2> QED
    BY <2>1, <2>2
<1>8. RowsOwnTheirFiles'
  <2> SUFFICES ASSUME NEW i \in 1..(n + m), NEW j \in 1..(n + m), i < j,
                      rows'[i].raw \cap rows'[j].raw # {}
               PROVE  rows'[j].gap \/ (rows'[i].of = rows'[j].of /\ rows'[j].of[2] # 0)
    BY <1>4 DEF RowsOwnTheirFiles, OneZip
  <2>1. CASE j \in 1..n
    <3>1. i \in 1..n
      BY <1>3, <2>1
    <3> QED
      BY <1>2, <1>3, <1>4, <2>1, <3>1 DEF RowsOwnTheirFiles, OneZip
  <2>2. CASE j \notin 1..n
    <3>1. /\ rows'[j].raw = t.rows[j - n].raw /\ rows'[j].gap = t.rows[j - n].gap
          /\ rows'[j].of = t.rows[j - n].of /\ Registered(t, j - n, d, rows)
      BY <1>3, <1>5, <1>6, <2>2
    <3>2. CASE i \in 1..n
      BY <1>3, <1>4, <3>1, <3>2 DEF Registered, Apart
    <3>3. CASE i \notin 1..n
      <4>1. /\ rows'[i].raw = t.rows[i - n].raw /\ rows'[i].of = t.rows[i - n].of
            /\ Registered(t, i - n, d, rows) /\ i - n \in 1..(j - n - 1)
        BY <1>3, <1>5, <1>6, <2>2, <3>3
      <4>2. ~Apart(t.rows[i - n], t.rows[j - n])
        BY <3>1, <4>1 DEF Apart
      <4>3. /\ t.rows[i - n].of[2] = t.rows[j - n].of[2] /\ t.rows[j - n].of[2] # 0
            /\ t.rows[i - n].of[1] = t.run /\ t.rows[j - n].of[1] = t.run
        BY <3>1, <4>1, <4>2 DEF Registered
      <4>4. /\ t.rows[i - n].of \in Nat \X Nat /\ t.rows[j - n].of \in Nat \X Nat
        <5>1. i - n \in 1..m /\ j - n \in 1..m
          BY <1>6, <2>2, <3>3
        <5>2. t.rows[i - n] \in Row /\ t.rows[j - n] \in Row
          BY <1>2, <1>4, <5>1 DEF Tx
        <5> QED
          BY <5>2 DEF Row
      <4>5. t.rows[i - n].of = t.rows[j - n].of
        <5>1. \A a, b \in Nat \X Nat : a[1] = b[1] /\ a[2] = b[2] => a = b
          OBVIOUS
        <5> QED
          BY <4>3, <4>4, <5>1
      <4> QED
        BY <3>1, <4>1, <4>3, <4>5
    <3> QED
      BY <3>2, <3>3
  <2> QED
    BY <2>1, <2>2
<1>9. ASSUME t.synced
      PROVE  /\ \A k \in 1..m : Has(s3, t.rows[k])
             /\ d.gap \/ \A i \in 1..n : Has(s3, rows[i])
  BY <1>1, <1>2, <1>4, <1>9 DEF RequestInv, CopyInv, Carries
<1>10. StoredPathsAreReal'
  <2> SUFFICES ASSUME NEW i \in 1..(n + m)
               PROVE  /\ rows'[i].synced => Has(s3, rows'[i])
                      /\ rows'[i].uri /\ ~Has(s3, rows'[i]) =>
                           \E j \in 1..(n + m) : j > i /\ rows'[j].synced /\ rows'[j].gap
    BY <1>1, <1>4 DEF StoredPathsAreReal, InS3, Has
  <2>1. CASE i \in 1..n
    <3>1. /\ rows[i].synced => Has(s3, rows[i])
          /\ rows[i].uri /\ ~Has(s3, rows[i]) =>
               \E j \in 1..n : j > i /\ rows[j].synced /\ rows[j].gap
      BY <1>2, <1>4, <2>1 DEF StoredPathsAreReal, InS3, Has
    <3>2. Has(s3, rows'[i]) <=> Has(s3, rows[i])
      BY <1>3, <2>1 DEF Has
    <3>3. ASSUME rows[i].uri, ~Has(s3, rows[i])
          PROVE  \E j \in 1..(n + m) : j > i /\ rows'[j].synced /\ rows'[j].gap
      <4>1. PICK j \in 1..n : j > i /\ rows[j].synced /\ rows[j].gap
        BY <3>1, <3>3
      <4>2. j \in 1..(n + m) /\ rows'[j].synced /\ rows'[j].gap
        BY <1>3, <4>1
      <4> QED
        BY <4>1, <4>2
    <3>4. ASSUME t.synced, ~Has(s3, rows[i])
          PROVE  \E j \in 1..(n + m) : j > i /\ rows'[j].synced /\ rows'[j].gap
      <4>1. d.gap /\ Registered(t, 1, d, rows) /\ 1 \in 1..m
        BY <1>3, <1>4, <1>5, <1>9, <2>1, <3>4
      <4>2. rows'[n + 1].synced /\ rows'[n + 1].gap
        BY <1>3, <3>4, <4>1 DEF Registered
      <4>3. n + 1 \in 1..(n + m) /\ n + 1 > i
        BY <1>3, <1>4, <2>1
      <4> QED
        BY <4>2, <4>3
    <3> QED
      BY <1>3, <2>1, <3>1, <3>2, <3>3, <3>4
  <2>2. CASE i \notin 1..n
    <3>1. /\ rows'[i].raw = t.rows[i - n].raw /\ rows'[i].json = t.rows[i - n].json
          /\ rows'[i].synced = t.synced
          /\ rows'[i].uri <=> t.rows[i - n].uri \/ t.synced
          /\ i - n \in 1..m
      BY <1>3, <1>6, <2>2
    <3>2. ~t.rows[i - n].uri
      BY <1>5, <3>1 DEF Registered
    <3>3. t.synced => Has(s3, rows'[i])
      BY <1>9, <3>1 DEF Has
    <3> QED
      BY <3>1, <3>2, <3>3
  <2> QED
    BY <2>1, <2>2
<1> QED
  BY <1>7, <1>8, <1>10 DEF RowsInv

LEMMA CommitAttachKeeps ==
  ASSUME FilesInv, NEW w \in Workers, CommitAttach(w)
  PROVE  FilesInv'
<1> DEFINE t == tx[w]
           n == Len(rows)
           m == Len(t.rows)
           e(h) == [disk[h] EXCEPT !.gap = disk[h].gap \/ disk[h].made]
<1>1. /\ t.op = "attach" /\ t.at = "commit" /\ tx' = [tx EXCEPT ![w] = Idle]
      /\ disk' = [h \in Hosts |-> IF h = t.host THEN disk[h] ELSE e(h)]
      /\ judge' = NoJudge /\ UNCHANGED <<s3, counters>>
  BY DEF CommitAttach
<1>2. Typed /\ OneHolder /\ DiskInv /\ RequestInv(t, disk, rows, s3) /\ t \in Tx
  BY DEF FilesInv, Typed
<1>3. /\ tx' \in [Workers -> Tx] /\ tx'[w] = Idle
      /\ \A v \in Workers \ {w} : tx'[v] = tx[v]
  BY <1>1, <1>2, Empties, Becoming
<1>4. ASSUME NEW h \in Hosts
      PROVE  /\ disk'[h] \in Dir /\ disk'[h].made = disk[h].made
             /\ h = t.host => disk'[h] = disk[h]
             /\ h # t.host => (disk'[h].gap <=> disk[h].gap \/ disk[h].made)
  <2>1. disk[h] \in Dir /\ disk'[h] = IF h = t.host THEN disk[h] ELSE e(h)
    BY <1>1, <1>2 DEF Typed
  <2>2. /\ e(h) \in Dir /\ e(h).made = disk[h].made
        /\ e(h).gap <=> disk[h].gap \/ disk[h].made
    BY <2>1 DEF Dir
  <2> HIDE DEF e
  <2> QED
    BY <2>1, <2>2
<1>5. disk' \in [Hosts -> Dir]
  BY <1>1, <1>4
<1>6. judge' \in [run : Nat, host : Hosts \cup {"none"}, overlap : BOOLEAN]
  BY <1>1 DEF NoJudge
<1>7. rows' \in Seq(Row)
  BY CommitDoes
<1>8. Typed'
  BY <1>1, <1>2, <1>3, <1>5, <1>6, <1>7 DEF Typed, counters
<1>9. ASSUME NEW v \in Workers PROVE RequestInv(tx[v], disk, rows, s3)
  BY DEF FilesInv
<1>10. ASSUME NEW v \in Workers PROVE RequestInv(tx'[v], disk', rows', s3')
  <2>1. CASE v = w
    BY <1>3, <2>1, Empties, NoUpload DEF RequestInv
  <2>2. CASE v # w
    <3>1. tx'[v] = tx[v] /\ RequestInv(tx[v], disk, rows, s3) /\ tx[v] \in Tx
      BY <1>2, <1>3, <1>9, <2>2 DEF Typed
    <3>2. ~HoldsCase(v)
      BY <1>1, <1>2, <2>2 DEF OneHolder, HoldsCase, Locked
    <3>3. UploadInv(tx[v], disk'[tx[v].host], rows')
      <4> SUFFICES ASSUME Working(tx[v])
                   PROVE  disk'[tx[v].host].made /\ tx[v].rows = <<>>
        BY DEF UploadInv
      <4>1. tx[v].op = "attach" /\ tx[v].host \in Hosts /\ disk[tx[v].host].made
        BY <3>1 DEF Working, RequestInv, AtInv, UploadInv
      <4>2. tx[v].rows = <<>>
        BY <3>1, <3>2, <4>1 DEF HoldsCase, RequestInv, AtInv
      <4> QED
        BY <1>4, <4>1, <4>2
    <3>4. CopyInv(tx[v], disk'[tx[v].host], rows', s3')
      BY <3>1, <3>2 DEF RequestInv, CopyInv, HoldsCase, Locked
    <3> QED
      BY <3>1, <3>3, <3>4 DEF RequestInv
  <2> QED
    BY <2>1, <2>2
<1>11. OneHolder'
  BY <1>2, <1>3, Empties DEF OneHolder, HoldsCase
<1>12. DiskInv'
  <2> SUFFICES ASSUME NEW h \in Hosts, NEW i \in DOMAIN rows',
                      disk'[h].made, ~disk'[h].gap
               PROVE  Has(disk'[h], rows'[i])
    BY DEF DiskInv
  <2>1. h = t.host /\ disk'[h] = disk[h]
    BY <1>4
  <2>2. /\ Len(rows') = n + m /\ n \in Nat /\ m \in Nat
        /\ \A j \in 1..n : rows'[j].raw = rows[j].raw /\ rows'[j].json = rows[j].json
        /\ \A k \in 1..m : /\ rows'[n + k].raw = t.rows[k].raw
                           /\ rows'[n + k].json = t.rows[k].json
    BY CommitDoes
  <2>3. DOMAIN rows = 1..n /\ DOMAIN t.rows = 1..m /\ i \in 1..(n + m)
    BY <1>2, <1>7, <2>2 DEF Typed, Tx
  <2>4. CASE i \in 1..n
    BY <1>2, <2>1, <2>2, <2>3, <2>4 DEF DiskInv, Has
  <2>5. CASE i \notin 1..n
    <3>1. n \in Nat /\ m \in Nat
      BY <2>2
    <3>2. i - n \in 1..m /\ n + (i - n) = i
      <4> HIDE DEF n, m
      <4> QED
        BY <2>3, <2>5, <3>1
    <3>3. Registered(t, i - n, disk[h], rows)
      BY <1>1, <1>2, <2>1, <2>3, <3>2 DEF RequestInv, UploadInv, Working
    <3>4. rows'[i].raw = t.rows[i - n].raw /\ rows'[i].json = t.rows[i - n].json
      BY <2>2, <3>2
    <3> QED
      BY <2>1, <3>3, <3>4 DEF Registered, Has
  <2> QED
    BY <2>4, <2>5
<1>13. RowsInv'
  BY CommittedRows
<1> QED
  BY <1>8, <1>10, <1>11, <1>12, <1>13 DEF FilesInv

-----------------------------------------------------------------------------
\* A restart of an instance.

LEMMA RestartKeeps ==
  ASSUME FilesInv, NEW h \in Hosts, Restart(h)
  PROVE  FilesInv'
<1>1. /\ restarts' = restarts + 1 /\ disk' = [disk EXCEPT ![h] = NoDir]
      /\ tx' = [w \in Workers |-> IF tx[w].host = h THEN Idle ELSE tx[w]]
      /\ judge' = (IF judge.host = h THEN NoJudge ELSE judge)
      /\ UNCHANGED <<s3, rows, requests>>
  BY DEF Restart
<1>2. Typed /\ OneHolder /\ DiskInv
  BY DEF FilesInv
<1>3. disk' \in [Hosts -> Dir] /\ disk'[h] = NoDir
      /\ \A g \in Hosts \ {h} : disk'[g] = disk[g]
  BY <1>1, <1>2, Empties DEF Typed
<1>4. ASSUME NEW v \in Workers
      PROVE  /\ tx'[v] \in Tx
             /\ tx[v].host = h => tx'[v] = Idle
             /\ tx[v].host # h => tx'[v] = tx[v]
  BY <1>1, <1>2, Empties DEF Typed
<1>5. tx' \in [Workers -> Tx]
  BY <1>1, <1>4
<1>6. judge' \in [run : Nat, host : Hosts \cup {"none"}, overlap : BOOLEAN]
  BY <1>1, <1>2 DEF Typed, NoJudge
<1>7. Typed'
  <2>1. restarts' \in Nat
    BY <1>1, <1>2 DEF Typed
  <2> QED
    BY <1>1, <1>2, <1>3, <1>5, <1>6, <2>1 DEF Typed
<1>8. ASSUME NEW v \in Workers PROVE Untouched(v) \/ Restated(v)
  <2>1. CASE tx[v].host = h
    BY <1>4, <2>1, Empties, NoUpload DEF Restated, RequestInv
  <2>2. CASE tx[v].host # h
    <3>1. tx'[v] = tx[v]
      BY <1>4, <2>2
    <3>2. Working(tx[v]) => tx[v].host \in Hosts
      BY DEF FilesInv, RequestInv, AtInv, Working
    <3>3. Working(tx[v]) => disk'[tx[v].host] = disk[tx[v].host]
      BY <1>3, <2>2, <3>2
    <3> QED
      BY <3>1, <3>3 DEF Untouched, Alike, Grows
  <2> QED
    BY <2>1, <2>2
<1>9. OneHolder'
  <2>1. \A v \in Workers : HoldsCase(v)' => HoldsCase(v)
    <3> SUFFICES ASSUME NEW v \in Workers, HoldsCase(v)' PROVE HoldsCase(v)
      OBVIOUS
    <3>1. tx'[v] # Idle
      BY Empties DEF HoldsCase
    <3> QED
      BY <1>4, <3>1 DEF HoldsCase
  <2> QED
    BY <1>2, <2>1 DEF OneHolder
<1>10. DiskInv'
  BY <1>1, <1>2, <1>3, DisksStay DEF NoDir
<1>11. S3Grows
  BY <1>1 DEF S3Grows
<1> QED
  BY <1>1, <1>7, <1>8, <1>9, <1>10, <1>11, StepKeeps

-----------------------------------------------------------------------------
\* The files, whatever happens.

LEMMA InitFiles == Init => FilesInv
<1> SUFFICES ASSUME Init PROVE FilesInv
  OBVIOUS
<1>1. Typed
  <2>1. PICK creator \in Hosts :
          disk = [h \in Hosts |-> [NoDir EXCEPT !.made = (h = creator)]]
    BY DEF Init
  <2>2. ASSUME NEW made \in BOOLEAN PROVE [NoDir EXCEPT !.made = made] \in Dir
    BY Empties DEF Dir
  <2>3. \A h : (h = creator) \in BOOLEAN
    OBVIOUS
  <2>4. disk \in [Hosts -> Dir]
    BY <2>1, <2>2, <2>3
  <2> QED
    BY <2>4, Empties DEF Init, Typed, NoJudge
<1>2. \A w \in Workers : tx[w] = Idle
  BY DEF Init
<1>3. \A w \in Workers : RequestInv(tx[w], disk, rows, s3)
  BY <1>2, Empties, NoUpload DEF RequestInv
<1>4. OneHolder
  BY <1>2, Empties DEF OneHolder, HoldsCase
<1>5. DiskInv /\ RowsInv
  BY DEF Init, DiskInv, RowsInv, FileNumbersAgree, RowsOwnTheirFiles,
         StoredPathsAreReal, NoDir
<1> QED
  BY <1>1, <1>3, <1>4, <1>5 DEF FilesInv

LEMMA NextFiles ==
  ASSUME FilesInv, [Next]_vars
  PROVE  FilesInv'
<1>1. CASE UNCHANGED vars
  <2>1. Typed' /\ OneHolder' /\ DiskInv' /\ S3Grows
        /\ \A v \in Workers : Untouched(v)
    BY <1>1 DEF FilesInv, vars, counters, Typed, OneHolder, HoldsCase, DiskInv,
                S3Grows, Untouched, Alike, Grows
  <2> QED
    BY <1>1, <2>1, StepKeeps DEF vars
<1>2. ASSUME NEW w \in Workers, NEW h \in Hosts,
             \/ \E u \in Uploads : BeginAttach(w, h, u)
             \/ BeginValidate(w, h) \/ BeginReport(w, h)
      PROVE  FilesInv'
  BY <1>2, BeginAttachKeeps, BeginValidateKeeps, BeginReportKeeps
<1>3. ASSUME NEW w \in Workers, Attach(w) PROVE FilesInv'
  BY <1>3, MakeDirsKeeps, LockCaseKeeps, RegisterFileKeeps, CommitAttachKeeps DEF Attach
<1>4. ASSUME NEW w \in Workers, Copy(w) PROVE FilesInv'
  BY <1>4, SyncKeeps, PutKeeps DEF Copy
<1>5. ASSUME NEW w \in Workers, Validate(w) PROVE FilesInv'
  BY <1>5, EnsureLocalKeeps, LoadEvidenceKeeps, TruncateReportKeeps, FillReportKeeps,
     GenerateKeeps, SetStatusKeeps DEF Validate
<1>6. ASSUME NEW w \in Workers, Fail(w) PROVE FilesInv'
  BY <1>6, FailKeeps
<1>7. ASSUME NEW h \in Hosts, View(h) \/ Restart(h) PROVE FilesInv'
  BY <1>7, ViewKeeps, RestartKeeps
<1> QED
  BY <1>1, <1>2, <1>3, <1>4, <1>5, <1>6, <1>7 DEF Next

\* Disks, objects, rows and requests fit together at any time.
THEOREM FilesHold == Spec => []FilesInv
<1>1. Init => FilesInv
  BY InitFiles
<1>2. FilesInv /\ [Next]_vars => FilesInv'
  BY NextFiles
<1> QED
  BY <1>1, <1>2, PTL DEF Spec

(***************************************************************************)
(* The number in the name of a JSON is the number of its row, however many *)
(* instances upload to the case at once: process_uploads holds the row of  *)
(* the case from its count of the rows to its commit.                      *)
(***************************************************************************)
THEOREM NumbersAgree == Spec => []FileNumbersAgree
<1>1. FilesInv => FileNumbersAgree
  BY DEF FilesInv, RowsInv
<1> QED
  BY <1>1, FilesHold, PTL

(***************************************************************************)
(* No upload reuses the raw file of an earlier row, but on a disk with a   *)
(* gap or within one ZIP: unique_path and unique_directory look at the     *)
(* disk, a disk without a gap has the files of all rows, and what shares   *)
(* the directory of a ZIP is a member of that ZIP.                         *)
(***************************************************************************)
THEOREM RowsOwn == Spec => []RowsOwnTheirFiles
<1>1. FilesInv => RowsOwnTheirFiles
  BY DEF FilesInv, RowsInv
<1> QED
  BY <1>1, FilesHold, PTL

(***************************************************************************)
(* A stored_path in S3 has its object, but for rows that were not copied   *)
(* themselves and that a later upload to a disk with a gap has rewritten.  *)
(***************************************************************************)
THEOREM PathsAreReal == Spec => []StoredPathsAreReal
<1>1. FilesInv => StoredPathsAreReal
  BY DEF FilesInv, RowsInv
<1> QED
  BY <1>1, FilesHold, PTL

(***************************************************************************)
(* A validation has the evidence of every committed upload, unless its     *)
(* disk has a gap: nothing but the events that make a gap loses evidence.  *)
(***************************************************************************)
THEOREM EvidenceHolds == Spec => []EvidenceIsComplete
<1>1. FilesInv => EvidenceIsComplete
  BY DEF FilesInv, DiskInv, Has, EvidenceIsComplete
<1> QED
  BY <1>1, FilesHold, PTL

-----------------------------------------------------------------------------
\* The report of a validation.

\* directory h keeps its report
Kept(h) == disk[h].made => disk'[h].made /\ disk'[h].report = disk[h].report

\* worker v goes on with the validation it had, or has none
Quiet(v) ==
  tx'[v].op = "validate" =>
    /\ tx[v].op = "validate" /\ tx'[v].host = tx[v].host
    /\ tx'[v].run = tx[v].run /\ (tx'[v].overlap <=> tx[v].overlap)
    /\ tx'[v].at # "ensure" => tx[v].at # "ensure" \/ disk'[tx[v].host].made
    /\ tx'[v].at \in {"sync", "put", "status"} =>
         tx[v].at \in {"sync", "put", "status"}
    /\ Kept(tx[v].host)

LEMMA QuietRun ==
  ASSUME FilesInv, ReportInv, FilesInv', requests' >= requests,
         \A v \in Workers : Quiet(v), NEW w \in Workers
  PROVE  RunInv(w)'
<1> SUFFICES ASSUME tx'[w].op = "validate"
             PROVE  /\ tx'[w].run \in 1..requests'
                    /\ tx'[w].at # "ensure" => disk'[tx'[w].host].made
                    /\ ~tx'[w].overlap =>
                         /\ \A v \in Workers :
                              tx'[v].op = "validate" /\ tx'[v].host = tx'[w].host => v = w
                         /\ tx'[w].at \in {"sync", "put", "status"} =>
                              disk'[tx'[w].host].report = tx'[w].run
  BY DEF RunInv, Validating
<1>1. Quiet(w) /\ RunInv(w) /\ tx[w].op = "validate" /\ Kept(tx[w].host)
  BY DEF ReportInv, Quiet
<1>2. requests \in Nat /\ requests' \in Nat
  BY DEF FilesInv, Typed
<1>3. tx'[w].run \in 1..requests'
  <2>1. tx'[w].run = tx[w].run /\ tx[w].run \in 1..requests
    BY <1>1 DEF Quiet, RunInv
  <2> QED
    BY <1>2, <2>1
<1>4. tx'[w].at # "ensure" => disk'[tx'[w].host].made
  BY <1>1 DEF Quiet, RunInv, Kept
<1>5. ASSUME ~tx'[w].overlap, NEW v \in Workers,
             tx'[v].op = "validate", tx'[v].host = tx'[w].host
      PROVE  v = w
  <2>1. Validating(v, tx[w].host) /\ ~tx[w].overlap
    BY <1>1, <1>5 DEF Quiet, Validating
  <2> QED
    BY <1>1, <2>1 DEF RunInv
<1>6. tx[w].at \in {"sync", "put", "status"} => tx[w].at # "ensure"
  OBVIOUS
<1>7. ~tx'[w].overlap /\ tx'[w].at \in {"sync", "put", "status"} =>
        disk'[tx'[w].host].report = tx'[w].run
  BY <1>1, <1>6 DEF Quiet, RunInv, Kept
<1> QED
  BY <1>3, <1>4, <1>5, <1>7

\* A step that leaves the validations, and the report of the status, alone.
LEMMA QuietKeeps ==
  ASSUME FilesInv, ReportInv, FilesInv', requests' >= requests,
         \A v \in Workers : Quiet(v),
         judge' = NoJudge \/ (judge' = judge /\ (judge.run > 0 => Kept(judge.host)))
  PROVE  ReportInv'
<1>1. \A w \in Workers : RunInv(w)'
  BY QuietRun
<1>2. CASE judge' = NoJudge
  BY <1>1, <1>2 DEF ReportInv, JudgeInv, StatusHasReport, NoJudge
<1>3. CASE judge' = judge /\ (judge.run > 0 => Kept(judge.host))
  <2>1. JudgeInv /\ StatusHasReport
        /\ requests \in Nat /\ requests' \in Nat /\ judge.run \in Nat
    BY DEF ReportInv, FilesInv, Typed
  <2>2. \A v \in Workers : tx'[v].op = "validate" /\ tx'[v].host = judge.host =>
                             Validating(v, judge.host) /\ tx'[v].run = tx[v].run
    BY DEF Quiet, Validating
  <2>3. JudgeInv'
    BY <1>3, <2>1, <2>2 DEF JudgeInv, Kept, Validating
  <2>4. StatusHasReport'
    BY <1>3, <2>1 DEF StatusHasReport, JudgeInv, Kept
  <2> QED
    BY <1>1, <2>3, <2>4 DEF ReportInv
<1> QED
  BY <1>2, <1>3

\* The same, of a step of one worker that keeps all reports.
LEMMA OneQuiet ==
  ASSUME FilesInv, ReportInv, FilesInv', requests' >= requests, NEW w \in Workers,
         \A v \in Workers \ {w} : tx'[v] = tx[v],
         tx'[w].op # "validate" \/ Quiet(w),
         \A h \in Hosts : Kept(h), judge' \in {judge, NoJudge}
  PROVE  ReportInv'
<1>1. ASSUME NEW v \in Workers PROVE Quiet(v)
  <2>1. tx[v].op = "validate" => tx[v].host \in Hosts
    BY DEF FilesInv, RequestInv, AtInv
  <2>2. v # w => tx'[v] = tx[v]
    OBVIOUS
  <2> QED
    BY <2>1, <2>2 DEF Quiet
<1>2. judge.run > 0 => judge.host \in Hosts
  BY DEF ReportInv, JudgeInv
<1> QED
  BY <1>1, <1>2, QuietKeeps

LEMMA SameDisks ==
  ASSUME UNCHANGED disk
  PROVE  \A h : Kept(h)
  BY DEF Kept

LEMMA OneDisk ==
  ASSUME FilesInv, NEW h \in Hosts, NEW e, disk' = [disk EXCEPT ![h] = e],
         disk[h].made => e.made /\ e.report = disk[h].report
  PROVE  \A g \in Hosts : Kept(g)
<1>1. disk'[h] = e /\ \A g \in Hosts \ {h} : disk'[g] = disk[g]
  BY DEF FilesInv, Typed
<1> QED
  BY <1>1 DEF Kept

\* Requests that are no validations.
LEMMA BeginsQuietly ==
  ASSUME FilesInv, ReportInv, FilesInv', NEW w \in Workers, NEW h \in Hosts,
         (\E u \in Uploads : BeginAttach(w, h, u)) \/ BeginReport(w, h)
  PROVE  ReportInv'
<1>1. tx \in [Workers -> Tx] /\ requests \in Nat
  BY DEF FilesInv, Typed
<1>2. UNCHANGED <<disk, judge>> /\ requests' = requests + 1
  BY DEF BeginAttach, BeginReport, Begins
<1>3. tx'[w].op # "validate" /\ \A v \in Workers \ {w} : tx'[v] = tx[v]
  <2>1. CASE BeginReport(w, h)
    <3> DEFINE r == [Idle EXCEPT !.at = "generate", !.op = "report", !.host = h]
    <3>1. r.op = "report" /\ tx' = [tx EXCEPT ![w] = r]
      BY <2>1 DEF Idle, BeginReport
    <3> QED
      BY <1>1, <3>1
  <2>2. ASSUME NEW u \in Uploads, BeginAttach(w, h, u)
        PROVE  tx'[w].op # "validate" /\ \A v \in Workers \ {w} : tx'[v] = tx[v]
    <3> DEFINE r == [Idle EXCEPT !.at = "mkdir", !.op = "attach", !.host = h,
                                 !.upload = u, !.run = requests + 1]
    <3>1. r.op = "attach" /\ tx' = [tx EXCEPT ![w] = r]
      BY <2>2 DEF Idle, BeginAttach
    <3> QED
      BY <1>1, <3>1
  <2> QED
    BY <2>1, <2>2
<1> QED
  BY <1>1, <1>2, <1>3, OneQuiet, SameDisks

LEMMA AttachKeepsReports ==
  ASSUME FilesInv, ReportInv, FilesInv', NEW w \in Workers, Attach(w)
  PROVE  ReportInv'
<1>1. Typed /\ requests \in Nat
  BY DEF FilesInv, Typed
<1>2. AtInv(tx[w]) /\ tx[w] \in Tx
  BY DEF FilesInv, RequestInv, Typed
<1>3. CASE MakeDirs(w)
  <2> DEFINE h == tx[w].host
             d == disk[h]
             e == [d EXCEPT !.made = TRUE, !.gap = d.gap \/ (~d.made /\ rows # <<>>)]
  <2>1. /\ tx[w].at = "mkdir" /\ Goto(w, "lock") /\ disk' = [disk EXCEPT ![h] = e]
        /\ UNCHANGED <<judge, requests>>
    BY <1>3 DEF MakeDirs, counters
  <2>2. tx[w].op = "attach" /\ h \in Hosts
    BY <1>2, <2>1 DEF AtInv, OfValidation, OfReport, Tx
  <2>3. d \in Dir
    BY <1>1, <2>2 DEF Typed
  <2>4. e.made /\ e.report = d.report
    BY <2>3 DEF Dir
  <2> HIDE DEF e
  <2>5. tx'[w].op = "attach" /\ \A v \in Workers \ {w} : tx'[v] = tx[v]
    BY <1>1, <2>1, <2>2, Going DEF Ats, OfUpload
  <2>6. \A g \in Hosts : Kept(g)
    BY <2>1, <2>2, <2>4, OneDisk
  <2> QED
    BY <1>1, <2>1, <2>5, <2>6, OneQuiet
<1>4. CASE LockCase(w)
  <2>1. tx[w].at = "lock" /\ Goto(w, "files") /\ UNCHANGED <<disk, judge, requests>>
    BY <1>4 DEF LockCase, counters
  <2>2. tx[w].op = "attach"
    BY <1>2, <2>1 DEF AtInv, OfValidation, OfReport, Tx
  <2>3. tx'[w].op = "attach" /\ \A v \in Workers \ {w} : tx'[v] = tx[v]
    BY <1>1, <2>1, <2>2, Going DEF Ats, OfUpload, Locked
  <2> QED
    BY <1>1, <2>1, <2>3, OneQuiet, SameDisks
<1>5. CASE RegisterFile(w)
  <2> DEFINE t == tx[w]
             d == disk[t.host]
  <2>1. t.op = "attach" /\ t.host \in Hosts /\ UNCHANGED <<judge, requests>>
    BY <1>5, RegisterFileDoes DEF counters
  <2>2. PICK row \in Row, e \in Dir, at \in {AfterFiles, "files"} :
          /\ tx' = [tx EXCEPT ![w] = [t EXCEPT !.upload = Tail(t.upload),
                                               !.rows = Append(t.rows, row), !.at = at]]
          /\ disk' = [disk EXCEPT ![t.host] = e]
          /\ e.made = d.made /\ e.gap = d.gap /\ e.report = d.report
          /\ d.raw \subseteq e.raw /\ d.json \subseteq e.json
          /\ Apart(row, d) \/ Joins(t, row)
          /\ Has(e, row) /\ ~row.uri /\ row.gap = d.gap /\ row.of[1] = t.run
          /\ \A j \in row.json : j[1] = Len(rows) + Len(t.rows) + 1
    BY <1>5, RegisterFileDoes
  <2>3. tx'[w].op = "attach" /\ \A v \in Workers \ {w} : tx'[v] = tx[v]
    BY <1>1, <1>2, <2>1, <2>2 DEF Typed, Tx
  <2>4. \A g \in Hosts : Kept(g)
    BY <2>1, <2>2, OneDisk
  <2> QED
    BY <1>1, <2>1, <2>3, <2>4, OneQuiet
<1>6. CASE CommitAttach(w)
  <2>1. /\ tx' = [tx EXCEPT ![w] = Idle] /\ judge' = NoJudge /\ UNCHANGED requests
        /\ disk' = [h \in Hosts |-> IF h = tx[w].host THEN disk[h]
                      ELSE [disk[h] EXCEPT !.gap = disk[h].gap \/ disk[h].made]]
    BY <1>6 DEF CommitAttach, counters
  <2>2. tx'[w].op = "none" /\ \A v \in Workers \ {w} : tx'[v] = tx[v]
    BY <1>1, <2>1, Empties DEF Typed
  <2>3. ASSUME NEW g \in Hosts PROVE Kept(g)
    <3> DEFINE e == [disk[g] EXCEPT !.gap = disk[g].gap \/ disk[g].made]
    <3>1. disk[g] \in Dir /\ (disk'[g] = disk[g] \/ disk'[g] = e)
      BY <1>1, <2>1 DEF Typed
    <3>2. e.made = disk[g].made /\ e.report = disk[g].report
      BY <3>1 DEF Dir
    <3> HIDE DEF e
    <3> QED
      BY <3>1, <3>2 DEF Kept
  <2> QED
    BY <1>1, <2>1, <2>2, <2>3, OneQuiet
<1> QED
  BY <1>3, <1>4, <1>5, <1>6 DEF Attach

LEMMA CopyKeepsReports ==
  ASSUME FilesInv, ReportInv, FilesInv', NEW w \in Workers, Copy(w)
  PROVE  ReportInv'
<1> DEFINE t == tx[w]
<1>1. Typed /\ requests \in Nat /\ AtInv(t) /\ t \in Tx
  BY DEF FilesInv, RequestInv, Typed
<1>2. /\ t.at \in {"sync", "put"} /\ UNCHANGED <<disk, judge, requests>>
      /\ \/ tx' = [tx EXCEPT ![w] = [t EXCEPT !.at = "put", !.snap = Files(disk[t.host])]]
         \/ tx' = [tx EXCEPT ![w] = [t EXCEPT !.at = AfterPut(w), !.snap = Empty,
                                              !.synced = TRUE]]
         \/ tx' = [tx EXCEPT ![w] = [t EXCEPT !.at = AfterPut(w), !.snap = Empty]]
  BY DEF Copy, Sync, Put, PutFails, counters
<1>3. /\ \A v \in Workers \ {w} : tx'[v] = tx[v]
      /\ tx'[w].op = t.op /\ tx'[w].host = t.host /\ tx'[w].run = t.run
      /\ (tx'[w].overlap <=> t.overlap)
  <2> DEFINE Like(r) == /\ r.op = t.op /\ r.host = t.host /\ r.run = t.run
                        /\ (r.overlap <=> t.overlap)
  <2>1. ASSUME NEW at, NEW snap
        PROVE  /\ Like([t EXCEPT !.at = at, !.snap = snap])
               /\ Like([t EXCEPT !.at = at, !.snap = snap, !.synced = TRUE])
    BY <1>1 DEF Tx
  <2>2. ASSUME NEW r, tx' = [tx EXCEPT ![w] = r], Like(r)
        PROVE  Like(tx'[w]) /\ \A v \in Workers \ {w} : tx'[v] = tx[v]
    <3>1. tx'[w] = r /\ \A v \in Workers \ {w} : tx'[v] = tx[v]
      BY <1>1, <2>2 DEF Typed
    <3> QED
      BY <2>2, <3>1
  <2>3. Like(tx'[w]) /\ \A v \in Workers \ {w} : tx'[v] = tx[v]
    <3> HIDE DEF Like
    <3> QED
      BY <1>2, <2>1, <2>2
  <2> QED
    BY <2>3
<1>4. \A h : Kept(h)
  BY <1>2, SameDisks
<1>5. Quiet(w)
  BY <1>2, <1>3, <1>4 DEF Quiet
<1> QED
  BY <1>1, <1>2, <1>3, <1>4, <1>5, OneQuiet

\* A validation or a report that goes from one place to the next.
LEMMA MovesQuietly ==
  ASSUME FilesInv, ReportInv, FilesInv', NEW w \in Workers, NEW at \in Ats,
         Goto(w, at), UNCHANGED <<judge, requests>>, \A h \in Hosts : Kept(h),
         tx[w].op = "validate" =>
           /\ tx[w].at # "ensure" \/ disk'[tx[w].host].made
           /\ at \notin {"sync", "put", "status"}
  PROVE  ReportInv'
<1>1. Typed /\ requests \in Nat /\ AtInv(tx[w])
  BY DEF FilesInv, RequestInv, Typed
<1>2. /\ \A v \in Workers \ {w} : tx'[v] = tx[v]
      /\ tx'[w].at = at /\ tx'[w].op = tx[w].op /\ tx'[w].host = tx[w].host
      /\ tx'[w].run = tx[w].run /\ tx'[w].overlap = tx[w].overlap
  BY <1>1, Going
<1>3. ASSUME tx'[w].op = "validate" PROVE Quiet(w)
  <2>1. tx[w].op = "validate" /\ Kept(tx[w].host)
    BY <1>1, <1>2, <1>3 DEF AtInv
  <2>2. tx[w].at # "ensure" \/ disk'[tx[w].host].made
    BY <2>1
  <2>3. tx'[w].at \notin {"sync", "put", "status"}
    BY <1>2, <2>1
  <2> QED
    BY <1>2, <2>1, <2>2, <2>3 DEF Quiet
<1> QED
  BY <1>1, <1>2, <1>3, OneQuiet

LEMMA EnsureLocalKeepsReports ==
  ASSUME FilesInv, ReportInv, FilesInv', NEW w \in Workers, EnsureLocal(w)
  PROVE  ReportInv'
<1> DEFINE h == tx[w].host
           d == disk[h]
<1>1. /\ tx[w].at = "ensure" /\ Goto(w, "load")
      /\ IF d.made THEN disk' = [disk EXCEPT ![h].made = TRUE]
         ELSE \E got \in Portions : disk' = [disk EXCEPT ![h] = Downloaded(got, TRUE)]
      /\ UNCHANGED <<judge, requests>>
  BY DEF EnsureLocal, HasEntries, counters
<1>2. Typed /\ AtInv(tx[w]) /\ tx[w] \in Tx
  BY DEF FilesInv, RequestInv, Typed
<1>3. h \in Hosts /\ d \in Dir
  <2>1. h \in Hosts
    BY <1>1, <1>2 DEF AtInv, Tx
  <2> QED
    BY <1>2, <2>1 DEF Typed
<1>4. PICK e : /\ disk' = [disk EXCEPT ![h] = e]
               /\ e.made /\ (d.made => e.report = d.report)
  <2>1. CASE d.made
    <3> DEFINE e == [d EXCEPT !.made = TRUE]
    <3>1. disk' = [disk EXCEPT ![h] = e]
      BY <1>1, <2>1
    <3>2. e.made /\ e.report = d.report
      BY <1>3 DEF Dir
    <3> QED
      BY <3>1, <3>2
  <2>2. CASE ~d.made
    <3>1. PICK got \in Portions : disk' = [disk EXCEPT ![h] = Downloaded(got, TRUE)]
      BY <1>1, <2>2
    <3>2. Downloaded(got, TRUE).made
      BY DEF Downloaded
    <3> QED
      BY <2>2, <3>1, <3>2
  <2> QED
    BY <2>1, <2>2
<1>5. \A g \in Hosts : Kept(g)
  BY <1>3, <1>4, OneDisk
<1>6. disk'[h].made
  BY <1>2, <1>3, <1>4 DEF Typed
<1>7. "load" \in Ats
  BY DEF Ats, OfValidation
<1> QED
  BY <1>1, <1>5, <1>6, <1>7, MovesQuietly

LEMMA StepsKeepReports ==
  ASSUME FilesInv, ReportInv, FilesInv', NEW w \in Workers,
         LoadEvidence(w) \/ Generate(w)
  PROVE  ReportInv'
<1>1. AtInv(tx[w]) /\ tx[w] \in Tx
  BY DEF FilesInv, RequestInv, Typed
<1>2. UNCHANGED <<disk, judge, requests>> /\ \A h : Kept(h)
  BY SameDisks DEF LoadEvidence, Generate, counters
<1>3. CASE LoadEvidence(w)
  BY <1>2, <1>3, MovesQuietly DEF LoadEvidence, AfterLoad, Ats, OfValidation
<1>4. CASE Generate(w)
  <2>1. tx[w].op = "report"
    BY <1>1, <1>4 DEF Generate, AtInv, OfUpload, OfValidation, Locked, Tx
  <2> DEFINE at == IF S3Enabled THEN "sync" ELSE "status"
  <2>2. Goto(w, at) /\ at \in Ats
    BY <1>4 DEF Generate, Ats, OfReport
  <2> HIDE DEF at
  <2> QED
    BY <1>2, <2>1, <2>2, MovesQuietly
<1> QED
  BY <1>3, <1>4

LEMMA FailKeepsReports ==
  ASSUME FilesInv, ReportInv, FilesInv', NEW w \in Workers, Fail(w)
  PROVE  ReportInv'
<1>1. tx' = [tx EXCEPT ![w] = Idle] /\ UNCHANGED <<disk, judge, requests>>
  BY DEF Fail, counters
<1>2. tx \in [Workers -> Tx] /\ requests \in Nat
  BY DEF FilesInv, Typed
<1>3. tx'[w].op = "none" /\ \A v \in Workers \ {w} : tx'[v] = tx[v]
  BY <1>1, <1>2, Empties
<1> QED
  BY <1>1, <1>2, <1>3, OneQuiet, SameDisks

LEMMA ViewKeepsReports ==
  ASSUME FilesInv, ReportInv, FilesInv', NEW h \in Hosts, View(h)
  PROVE  ReportInv'
<1>1. PICK got \in Portions : disk' = [disk EXCEPT ![h] = Downloaded(got, FALSE)]
  BY DEF View
<1>2. ~disk[h].made /\ UNCHANGED <<tx, judge, requests>>
  BY DEF View, HasEntries, counters
<1>3. \A g \in Hosts : Kept(g)
  BY <1>1, <1>2, OneDisk
<1>4. requests \in Nat /\ \A v \in Workers : tx[v].op = "validate" => tx[v].host \in Hosts
  BY DEF FilesInv, Typed, RequestInv, AtInv
<1>5. \A v \in Workers : Quiet(v)
  BY <1>2, <1>3, <1>4 DEF Quiet
<1>6. judge.run > 0 => judge.host \in Hosts
  BY DEF ReportInv, JudgeInv
<1> QED
  BY <1>2, <1>3, <1>4, <1>5, <1>6, QuietKeeps

LEMMA RestartKeepsReports ==
  ASSUME FilesInv, ReportInv, FilesInv', NEW h \in Hosts, Restart(h)
  PROVE  ReportInv'
<1>1. /\ disk' = [disk EXCEPT ![h] = NoDir]
      /\ tx' = [w \in Workers |-> IF tx[w].host = h THEN Idle ELSE tx[w]]
      /\ judge' = (IF judge.host = h THEN NoJudge ELSE judge)
      /\ UNCHANGED requests
  BY DEF Restart
<1>2. Typed /\ requests \in Nat
  BY DEF FilesInv, Typed
<1>3. \A g \in Hosts \ {h} : Kept(g)
  BY <1>1, <1>2 DEF Kept, Typed
<1>4. ASSUME NEW v \in Workers PROVE Quiet(v)
  <2>1. tx[v].host = h => tx'[v].op = "none"
    BY <1>1, Empties
  <2>2. tx[v].host # h => tx'[v] = tx[v]
    BY <1>1
  <2>3. tx[v].op = "validate" => tx[v].host \in Hosts
    BY DEF FilesInv, RequestInv, AtInv
  <2> QED
    BY <1>3, <2>1, <2>2, <2>3 DEF Quiet
<1>5. judge.run > 0 => judge.host \in Hosts
  BY DEF ReportInv, JudgeInv
<1> QED
  BY <1>1, <1>2, <1>3, <1>4, <1>5, QuietKeeps

\* A validation that begins marks the others of its instance, and itself if
\* there are any.
LEMMA BeginValidateKeepsReports ==
  ASSUME FilesInv, ReportInv, FilesInv', NEW w \in Workers, NEW h \in Hosts,
         BeginValidate(w, h)
  PROVE  ReportInv'
<1> DEFINE o == \E x \in Workers : Validating(x, h)
           r == [Idle EXCEPT !.at = "ensure", !.op = "validate", !.host = h,
                             !.run = requests + 1, !.overlap = o]
<1>1. /\ tx' = [v \in Workers |-> IF v = w THEN r
                  ELSE IF Validating(v, h) THEN [tx[v] EXCEPT !.overlap = TRUE] ELSE tx[v]]
      /\ UNCHANGED <<disk, judge>> /\ requests' = requests + 1 /\ tx[w].at = "idle"
  BY DEF BeginValidate, Begins
<1>2. Typed /\ requests \in Nat /\ judge.run \in Nat /\ AtInv(tx[w])
  BY DEF FilesInv, RequestInv, Typed
<1>3. tx'[w] = r /\ tx[w].op = "none"
  BY <1>1, <1>2 DEF AtInv
<1>4. /\ r.op = "validate" /\ r.host = h /\ r.at = "ensure" /\ r.run = requests + 1
      /\ r.overlap <=> o
  BY DEF Idle
<1>5. ASSUME NEW v \in Workers \ {w}
      PROVE  /\ tx'[v].op = tx[v].op /\ tx'[v].host = tx[v].host
             /\ tx'[v].run = tx[v].run /\ tx'[v].at = tx[v].at
             /\ tx'[v].overlap <=> tx[v].overlap \/ Validating(v, h)
  <2>1. tx[v] \in Tx
    BY <1>2 DEF Typed
  <2>2. CASE Validating(v, h)
    <3> DEFINE e == [tx[v] EXCEPT !.overlap = TRUE]
    <3>1. tx'[v] = e
      BY <1>1, <2>2
    <3>2. /\ e.op = tx[v].op /\ e.host = tx[v].host /\ e.run = tx[v].run
          /\ e.at = tx[v].at /\ e.overlap
      BY <2>1 DEF Tx
    <3> HIDE DEF e
    <3> QED
      BY <2>2, <3>1, <3>2
  <2>3. CASE ~Validating(v, h)
    <3>1. tx'[v] = tx[v]
      BY <1>1, <2>3
    <3> QED
      BY <2>3, <3>1
  <2> QED
    BY <2>2, <2>3
<1> HIDE DEF r
<1>6. ASSUME NEW v \in Workers PROVE RunInv(v)'
  <2> SUFFICES ASSUME tx'[v].op = "validate"
               PROVE  /\ tx'[v].run \in 1..requests'
                      /\ tx'[v].at # "ensure" => disk'[tx'[v].host].made
                      /\ ~tx'[v].overlap =>
                           /\ \A x \in Workers :
                                tx'[x].op = "validate" /\ tx'[x].host = tx'[v].host => x = v
                           /\ tx'[v].at \in {"sync", "put", "status"} =>
                                disk'[tx'[v].host].report = tx'[v].run
    BY DEF RunInv, Validating
  <2>1. CASE v = w
    <3>1. tx'[v].run \in 1..requests' /\ tx'[v].at = "ensure"
      BY <1>1, <1>2, <1>3, <1>4, <2>1
    <3>2. ASSUME ~tx'[v].overlap, NEW x \in Workers, x # v,
                 tx'[x].op = "validate", tx'[x].host = tx'[v].host
          PROVE  FALSE
      BY <1>3, <1>4, <1>5, <2>1, <3>2 DEF Validating
    <3> QED
      BY <3>1, <3>2
  <2>2. CASE v # w
    <3>1. /\ tx[v].op = "validate" /\ RunInv(v) /\ v \in Workers \ {w}
          /\ tx'[v].host = tx[v].host /\ tx'[v].run = tx[v].run /\ tx'[v].at = tx[v].at
          /\ tx'[v].overlap <=> tx[v].overlap \/ Validating(v, h)
      BY <1>5, <2>2 DEF ReportInv
    <3>2. tx[v].run \in 1..requests
      BY <3>1 DEF RunInv
    <3>3. tx'[v].run \in 1..requests'
      BY <1>1, <1>2, <3>1, <3>2
    <3>4. tx'[v].at # "ensure" => disk'[tx'[v].host].made
      BY <1>1, <3>1 DEF RunInv
    <3>5. ASSUME ~tx'[v].overlap, NEW x \in Workers,
                 tx'[x].op = "validate", tx'[x].host = tx'[v].host
          PROVE  x = v
      <4>1. tx[v].host # h /\ ~tx[v].overlap
        BY <3>1, <3>5 DEF Validating
      <4>2. x # w
        BY <1>3, <1>4, <3>1, <3>5, <4>1
      <4>3. Validating(x, tx[v].host)
        BY <1>5, <3>1, <3>5, <4>2 DEF Validating
      <4> QED
        BY <3>1, <4>1, <4>3 DEF RunInv
    <3>6. ~tx'[v].overlap /\ tx'[v].at \in {"sync", "put", "status"} =>
            disk'[tx'[v].host].report = tx'[v].run
      BY <1>1, <3>1 DEF RunInv
    <3> QED
      BY <3>3, <3>4, <3>5, <3>6
  <2> QED
    BY <2>1, <2>2
<1>7. JudgeInv /\ StatusHasReport
  BY DEF ReportInv
<1>8. JudgeInv'
  <2> SUFFICES ASSUME judge.run > 0
               PROVE  /\ judge.host \in Hosts /\ judge.run <= requests + 1
                      /\ disk[judge.host].made
                      /\ ~judge.overlap => \A v \in Workers :
                           tx'[v].op = "validate" /\ tx'[v].host = judge.host =>
                             tx'[v].run > judge.run
    BY <1>1 DEF JudgeInv, Validating
  <2>1. judge.host \in Hosts /\ judge.run <= requests /\ disk[judge.host].made
    BY <1>7 DEF JudgeInv
  <2>2. ASSUME ~judge.overlap, NEW v \in Workers,
               tx'[v].op = "validate", tx'[v].host = judge.host
        PROVE  tx'[v].run > judge.run
    <3>1. CASE v = w
      BY <1>2, <1>3, <1>4, <2>1, <3>1
    <3>2. CASE v # w
      <4>1. Validating(v, judge.host) /\ tx'[v].run = tx[v].run
        BY <1>5, <2>2, <3>2 DEF Validating
      <4> QED
        BY <1>7, <2>2, <4>1 DEF JudgeInv
    <3> QED
      BY <3>1, <3>2
  <2> QED
    BY <1>2, <2>1, <2>2
<1>9. StatusHasReport'
  BY <1>1, <1>2, <1>7 DEF StatusHasReport
<1> QED
  BY <1>6, <1>8, <1>9 DEF ReportInv

\* A validation writes the report of its instance: the others there overlap
\* it, and the status is of an earlier run.
LEMMA WriteKeepsReports ==
  ASSUME FilesInv, ReportInv, FilesInv', NEW w \in Workers, NEW at \in Ats,
         NEW report \in Reports, tx[w].op = "validate", tx[w].at # "ensure", Goto(w, at),
         disk' = [disk EXCEPT ![tx[w].host] = [disk[tx[w].host] EXCEPT !.report = report]],
         UNCHANGED <<judge, requests>>,
         report \in {Torn, tx[w].run},
         at \in {"sync", "put", "status"} => report = tx[w].run
  PROVE  ReportInv'
<1> DEFINE h == tx[w].host
           e == [disk[h] EXCEPT !.report = report]
<1>1. Typed /\ requests \in Nat /\ judge.run \in Nat /\ h \in Hosts
  BY DEF FilesInv, RequestInv, AtInv, Typed
<1>2. RunInv(w) /\ JudgeInv /\ StatusHasReport
  BY DEF ReportInv
<1>3. tx[w].run \in 1..requests /\ disk[h].made
  BY <1>2 DEF RunInv
<1>4. e.report = report /\ e.made = disk[h].made
  BY <1>1 DEF Typed, Dir
<1> HIDE DEF e
<1>5. disk'[h] = e /\ \A g \in Hosts \ {h} : disk'[g] = disk[g]
  BY <1>1 DEF Typed, e
<1>6. /\ \A v \in Workers \ {w} : tx'[v] = tx[v]
      /\ tx'[w].at = at /\ tx'[w].op = "validate" /\ tx'[w].host = h
      /\ tx'[w].run = tx[w].run /\ tx'[w].overlap = tx[w].overlap
  BY <1>1, Going
<1>7. ASSUME NEW v \in Workers
      PROVE  tx'[v].op = tx[v].op /\ tx'[v].host = tx[v].host /\ tx'[v].run = tx[v].run
  BY <1>6
<1>8. ASSUME NEW v \in Workers PROVE RunInv(v)'
  <2> SUFFICES ASSUME tx'[v].op = "validate"
               PROVE  /\ tx'[v].run \in 1..requests'
                      /\ tx'[v].at # "ensure" => disk'[tx'[v].host].made
                      /\ ~tx'[v].overlap =>
                           /\ \A x \in Workers :
                                tx'[x].op = "validate" /\ tx'[x].host = tx'[v].host => x = v
                           /\ tx'[v].at \in {"sync", "put", "status"} =>
                                disk'[tx'[v].host].report = tx'[v].run
    BY DEF RunInv, Validating
  <2>1. /\ RunInv(v) /\ tx[v].op = "validate" /\ tx[v].host \in Hosts
        /\ tx'[v].host = tx[v].host /\ tx'[v].run = tx[v].run
    BY <1>7 DEF ReportInv, FilesInv, RequestInv, AtInv
  <2>2. tx'[v].run \in 1..requests'
    BY <2>1 DEF RunInv
  <2>3. tx'[v].at # "ensure" => disk'[tx'[v].host].made
    <3>1. CASE v = w
      BY <1>3, <1>4, <1>5, <1>6, <3>1
    <3>2. CASE v # w
      <4>1. tx[v].at # "ensure" => disk[tx[v].host].made
        BY <2>1 DEF RunInv
      <4> QED
        BY <1>3, <1>4, <1>5, <1>6, <2>1, <3>2, <4>1
    <3> QED
      BY <3>1, <3>2
  <2>4. ASSUME ~tx'[v].overlap
        PROVE  /\ \A x \in Workers :
                    tx'[x].op = "validate" /\ tx'[x].host = tx'[v].host => x = v
               /\ tx'[v].at \in {"sync", "put", "status"} =>
                    disk'[tx'[v].host].report = tx'[v].run
    <3>1. ~tx[v].overlap
      BY <1>6, <2>4
    <3>2. \A x \in Workers : Validating(x, tx[v].host) => x = v
      BY <2>1, <3>1 DEF RunInv
    <3>3. \A x \in Workers :
            tx'[x].op = "validate" /\ tx'[x].host = tx'[v].host => x = v
      BY <1>7, <2>1, <3>2 DEF Validating
    <3>4. ASSUME tx'[v].at \in {"sync", "put", "status"}
          PROVE  disk'[tx'[v].host].report = tx'[v].run
      <4>1. CASE v = w
        BY <1>4, <1>5, <1>6, <3>4, <4>1
      <4>2. CASE v # w
        <5>1. tx[v].host # h
          BY <3>2, <4>2 DEF Validating
        <5>2. disk[tx[v].host].report = tx[v].run
          BY <1>6, <2>1, <3>1, <3>4, <4>2 DEF RunInv
        <5> QED
          BY <1>5, <2>1, <5>1, <5>2
      <4> QED
        BY <4>1, <4>2
    <3> QED
      BY <3>3, <3>4
  <2> QED
    BY <2>2, <2>3, <2>4
<1>9. JudgeInv'
  <2> SUFFICES ASSUME judge.run > 0
               PROVE  /\ judge.host \in Hosts /\ judge.run <= requests
                      /\ disk'[judge.host].made
                      /\ ~judge.overlap => \A v \in Workers :
                           tx'[v].op = "validate" /\ tx'[v].host = judge.host =>
                             tx'[v].run > judge.run
    BY DEF JudgeInv, Validating
  <2>1. judge.host \in Hosts /\ judge.run <= requests /\ disk[judge.host].made
    BY <1>2 DEF JudgeInv
  <2>2. disk'[judge.host].made
    BY <1>3, <1>4, <1>5, <2>1
  <2>3. ~judge.overlap => \A v \in Workers :
          tx'[v].op = "validate" /\ tx'[v].host = judge.host => tx'[v].run > judge.run
    BY <1>2, <1>7 DEF JudgeInv, Validating
  <2> QED
    BY <2>1, <2>2, <2>3
<1>10. StatusHasReport'
  <2> SUFFICES ASSUME judge.run > 0, ~judge.overlap
               PROVE  \/ disk'[judge.host].report >= judge.run
                      \/ disk'[judge.host].report = Torn /\ requests > judge.run
    BY DEF StatusHasReport
  <2>1. judge.host \in Hosts
    BY <1>2 DEF JudgeInv
  <2>2. CASE judge.host = h
    <3>1. tx[w].run > judge.run
      BY <1>2, <2>2 DEF JudgeInv, Validating
    <3> QED
      BY <1>1, <1>3, <1>4, <1>5, <2>2, <3>1
  <2>3. CASE judge.host # h
    BY <1>2, <1>5, <2>1, <2>3 DEF StatusHasReport
  <2> QED
    BY <2>2, <2>3
<1> QED
  BY <1>8, <1>9, <1>10 DEF ReportInv

LEMMA WritesKeepReports ==
  ASSUME FilesInv, ReportInv, FilesInv', NEW w \in Workers,
         TruncateReport(w) \/ FillReport(w)
  PROVE  ReportInv'
<1>1. AtInv(tx[w]) /\ tx[w] \in Tx
  BY DEF FilesInv, RequestInv, Typed
<1>2. CASE TruncateReport(w)
  <2>1. /\ tx[w].at = "write" /\ Goto(w, "fill") /\ UNCHANGED <<judge, requests>>
        /\ disk' = [disk EXCEPT ![tx[w].host] = [disk[tx[w].host] EXCEPT !.report = Torn]]
    BY <1>2 DEF TruncateReport, counters
  <2>2. tx[w].op = "validate" /\ "fill" \in Ats /\ Torn \in Reports
    BY <1>1, <2>1 DEF AtInv, OfUpload, OfReport, Locked, Tx, Ats, OfValidation, Reports
  <2> QED
    BY <2>1, <2>2, WriteKeepsReports
<1>3. CASE FillReport(w)
  <2> DEFINE at == IF S3Enabled THEN "sync" ELSE "status"
             run == tx[w].run
  <2>1. /\ tx[w].at = "fill" /\ Goto(w, at) /\ judge' = judge /\ requests' = requests
        /\ disk' = [disk EXCEPT ![tx[w].host] =
                      [disk[tx[w].host] EXCEPT !.report = run]]
    BY <1>3 DEF FillReport, counters
  <2>2. /\ tx[w].op = "validate" /\ at \in Ats /\ tx[w].at # "ensure"
        /\ run \in Reports /\ run \in {Torn, tx[w].run}
        /\ (at \in {"sync", "put", "status"} => run = tx[w].run)
    BY <1>1, <2>1 DEF AtInv, OfUpload, OfReport, Locked, Tx, Ats, OfValidation, Reports
  <2> HIDE DEF at, run
  <2> QED
    BY <2>1, <2>2, WriteKeepsReports
<1> QED
  BY <1>2, <1>3

\* The status is set when the report is there, by a validation that no other
\* has overlapped, or by one that says so.
LEMMA SetStatusKeepsReports ==
  ASSUME FilesInv, ReportInv, FilesInv', NEW w \in Workers, SetStatus(w)
  PROVE  ReportInv'
<1> DEFINE t == tx[w]
           j == [run |-> t.run, host |-> t.host, overlap |-> t.overlap]
<1>1. /\ t.at = "status" /\ tx' = [tx EXCEPT ![w] = Idle]
      /\ judge' = (IF t.op = "validate" THEN j ELSE NoJudge)
      /\ UNCHANGED <<disk, requests>>
  BY DEF SetStatus, counters
<1>2. Typed /\ requests \in Nat /\ AtInv(t) /\ t \in Tx
  BY DEF FilesInv, RequestInv, Typed
<1>3. tx'[w].op = "none" /\ \A v \in Workers \ {w} : tx'[v] = tx[v]
  BY <1>1, <1>2, Empties DEF Typed
<1>4. \A h : Kept(h)
  BY <1>1, SameDisks
<1>5. CASE t.op # "validate"
  BY <1>1, <1>2, <1>3, <1>4, <1>5, OneQuiet
<1>6. CASE t.op = "validate"
  <2>1. RunInv(w) /\ t.host \in Hosts
    BY <1>2, <1>6 DEF ReportInv, AtInv
  <2>2. /\ judge'.run = t.run /\ judge'.host = t.host /\ (judge'.overlap <=> t.overlap)
    BY <1>1, <1>6
  <2>3. /\ t.run \in 1..requests /\ disk[t.host].made
        /\ ~t.overlap => /\ \A v \in Workers : Validating(v, t.host) => v = w
                         /\ disk[t.host].report = t.run
    BY <1>1, <1>6, <2>1 DEF RunInv
  <2>4. \A v \in Workers : Quiet(v)
    BY <1>3, <1>4 DEF Quiet
  <2>5. \A v \in Workers : RunInv(v)'
    BY <1>1, <1>2, <2>4, QuietRun
  <2>6. JudgeInv'
    <3>1. ASSUME ~t.overlap, NEW v \in Workers
          PROVE  ~(tx'[v].op = "validate" /\ tx'[v].host = t.host)
      BY <1>3, <2>3, <3>1 DEF Validating
    <3>2. t.run <= requests' /\ disk'[t.host].made
      BY <1>1, <1>2, <2>3
    <3> QED
      BY <2>1, <2>2, <3>1, <3>2 DEF JudgeInv, Validating
  <2>7. StatusHasReport'
    BY <1>1, <1>2, <2>2, <2>3 DEF StatusHasReport
  <2> QED
    BY <2>5, <2>6, <2>7 DEF ReportInv
<1> QED
  BY <1>5, <1>6

LEMMA InitReports == Init => ReportInv
<1> SUFFICES ASSUME Init PROVE ReportInv
  OBVIOUS
<1>1. \A w \in Workers : tx[w].op # "validate"
  BY Empties DEF Init
<1> QED
  BY <1>1 DEF Init, ReportInv, RunInv, JudgeInv, StatusHasReport, NoJudge

LEMMA NextReports ==
  ASSUME FilesInv, ReportInv, FilesInv', [Next]_vars
  PROVE  ReportInv'
<1>1. CASE UNCHANGED vars
  <2>1. requests \in Nat /\ UNCHANGED <<disk, tx, judge, requests>>
    BY <1>1 DEF FilesInv, Typed, vars, counters
  <2>2. \A h : Kept(h)
    BY <2>1, SameDisks
  <2>3. \A v \in Workers : Quiet(v)
    BY <2>1, <2>2 DEF Quiet
  <2> QED
    BY <2>1, <2>2, <2>3, QuietKeeps
<1>2. ASSUME NEW w \in Workers, NEW h \in Hosts,
             \/ \E u \in Uploads : BeginAttach(w, h, u)
             \/ BeginValidate(w, h) \/ BeginReport(w, h)
      PROVE  ReportInv'
  BY <1>2, BeginsQuietly, BeginValidateKeepsReports
<1>3. ASSUME NEW w \in Workers, Attach(w) PROVE ReportInv'
  BY <1>3, AttachKeepsReports
<1>4. ASSUME NEW w \in Workers, Copy(w) PROVE ReportInv'
  BY <1>4, CopyKeepsReports
<1>5. ASSUME NEW w \in Workers, Validate(w) PROVE ReportInv'
  BY <1>5, EnsureLocalKeepsReports, StepsKeepReports, WritesKeepReports,
     SetStatusKeepsReports DEF Validate
<1>6. ASSUME NEW w \in Workers, Fail(w) PROVE ReportInv'
  BY <1>6, FailKeepsReports
<1>7. ASSUME NEW h \in Hosts, View(h) \/ Restart(h) PROVE ReportInv'
  BY <1>7, ViewKeepsReports, RestartKeepsReports
<1> QED
  BY <1>1, <1>2, <1>3, <1>4, <1>5, <1>6, <1>7 DEF Next

(***************************************************************************)
(* A status set by a validation is backed by the report beside it, of that *)
(* run or of a later one, unless two validations overlapped on the         *)
(* instance: the report is written before the status, and nothing else     *)
(* replaces the report of a directory that is not empty.                   *)
(***************************************************************************)
THEOREM StatusIsBacked == Spec => []StatusHasReport
<1>1. Init => ReportInv
  BY InitReports
<1>2. FilesInv /\ FilesInv' /\ ReportInv /\ [Next]_vars => ReportInv'
  BY NextReports
<1>3. ReportInv => StatusHasReport
  BY DEF ReportInv
<1> QED
  BY <1>1, <1>2, <1>3, FilesHold, PTL DEF Spec

-----------------------------------------------------------------------------
(***************************************************************************)
(* The tagging.  Every pass goes once over the units; before a pass has    *)
(* come to a unit, the unit is as the pass before left it, and after it    *)
(* the unit has what this pass can give (UnitInv).                         *)
(***************************************************************************)

\* the element of p is the one of the unit nearest to k that is known
Filled(p, elements, k) ==
  \E j \in DOMAIN elements :
    /\ p.element = elements[j] /\ elements[j] # None
    /\ \A n \in Between(j, k) : elements[n] = None

NoneKnown(elements) == \A j \in DOMAIN elements : elements[j] = None

\* what the passes have made of a unit whose element was e, or None
Fresh(p, e) == p.element = e /\ ~p.asked

AfterContinue(p, elements, k) ==
  /\ ~p.asked
  /\ elements[k] = None /\ ~p.shared
       => Filled(p, elements, k) \/ (NoneKnown(elements) /\ p.element = None)

AfterBackup(p, elements, k, names) ==
  elements[k] = None /\ ~p.shared =>
    \/ Filled(p, elements, k)
    \/ /\ NoneKnown(elements)
       /\ names # <<>> => p.element \in Range(names)
       /\ p.asked => names = <<>>
       /\ p.element # None /\ names = <<>> => p.asked

\* the pass is at one of the units, or behind the last
CursorInv ==
  /\ cursor \in 1..(Len(tags) + 1)
  /\ 1..Len(tags) \subseteq DOMAIN units
  /\ pass = "classify" => cursor = Len(tags) + 1
  /\ pass # "classify" => Len(known) = Len(tags) /\ Len(tags) + 1 \notin DOMAIN units

\* context has no element, and an element that is known stays
UnitInv(k) ==
  LET p == tags[k]
  IN  /\ p.shared => p.element = None
      /\ pass = "classify" => ~p.asked
      /\ pass # "classify" /\ known[k] # None => p.element = known[k]
      /\ pass = "continue" => IF k < cursor THEN AfterContinue(p, known, k)
                                          ELSE Fresh(p, known[k])
      /\ pass = "backup" => IF k < cursor THEN AfterBackup(p, known, k, doc.names)
                                        ELSE AfterContinue(p, known, k)
      /\ pass \in {"collect", "done"} => AfterBackup(p, known, k, doc.names)

TagInv == TagTypeOK /\ CursorInv /\ \A k \in DOMAIN tags : UnitInv(k)

-----------------------------------------------------------------------------

LEMMA MinFacts ==
  ASSUME NEW S \in SUBSET Nat, S # {}
  PROVE  Min(S) \in S /\ \A y \in S : Min(S) <= y
<1>1. \E x \in S : \A y \in S : x <= y
  BY Smallest
<1> QED
  BY <1>1 DEF Min

LEMMA MaxFacts ==
  ASSUME NEW m \in Nat, NEW S \in SUBSET (0..m), S # {}
  PROVE  Max(S) \in S /\ \A y \in S : y <= Max(S)
<1> DEFINE T == {n \in Nat : n <= m /\ m - n \in S}
<1>1. PICK z \in S : TRUE
  OBVIOUS
<1>2. z \in Nat /\ z <= m /\ m - (m - z) = z /\ m - z \in Nat /\ m - z <= m
  OBVIOUS
<1>3. m - z \in T
  BY <1>2
<1>4. PICK x \in T : \A y \in T : x <= y
  BY <1>3, Smallest
<1>5. m - x \in S /\ x \in Nat
  OBVIOUS
<1>6. \A y \in S : y <= m - x
  <2> SUFFICES ASSUME NEW y \in S PROVE y <= m - x
    OBVIOUS
  <2>1. y \in Nat /\ y <= m /\ m - (m - y) = y /\ m - y \in Nat /\ m - y <= m
    OBVIOUS
  <2>2. m - y \in T
    BY <2>1
  <2>3. x <= m - y
    BY <1>4, <2>2
  <2> QED
    BY <1>5, <2>1, <2>3
<1>7. \A y \in S : m - x >= y
  BY <1>5, <1>6
<1>8. \E w \in S : \A y \in S : w >= y
  BY <1>5, <1>7
<1>9. Max(S) \in S /\ \A y \in S : Max(S) >= y
  BY <1>8 DEF Max
<1> QED
  BY <1>9

\* Facts about predictions.

LEMMA TaggedFacts ==
  ASSUME NEW p \in Prediction, NEW e \in Elements \cup {None}
  PROVE  LET q == Tagged(p, e)
         IN  /\ q \in Prediction /\ q.element = e
             /\ q.shared <=> p.shared
             /\ q.asked <=> p.asked
<1> DEFINE j == [p EXCEPT !.element = e]
           q == [j EXCEPT !.content = NoContent]
<1>1. NoContent \in Content
  BY DEF NoContent, Content
<1>2. /\ j \in Prediction /\ j.element = e
      /\ j.shared = p.shared /\ j.asked = p.asked
  BY DEF Prediction
<1>3. Tagged(p, e) = q
  BY DEF Tagged
<1> HIDE DEF j
<1>4. /\ q \in Prediction /\ q.element = e
      /\ q.shared = j.shared /\ q.asked = j.asked
  BY <1>1, <1>2 DEF Prediction
<1> HIDE DEF q
<1> QED
  BY <1>2, <1>3, <1>4

LEMMA SharedFacts ==
  ASSUME NEW p \in Prediction
  PROVE  LET q == Shared(p)
         IN  /\ q \in Prediction /\ q.element = p.element /\ q.shared
             /\ q.asked <=> p.asked
<1> DEFINE j == [p EXCEPT !.shared = TRUE]
           q == [j EXCEPT !.content = NoContent]
<1>1. NoContent \in Content
  BY DEF NoContent, Content
<1>2. /\ j \in Prediction /\ j.element = p.element
      /\ j.shared = TRUE /\ j.asked = p.asked
  BY DEF Prediction
<1>3. Shared(p) = q
  BY DEF Shared
<1> HIDE DEF j
<1>4. /\ q \in Prediction /\ q.element = j.element
      /\ q.shared = j.shared /\ q.asked = j.asked
  BY <1>1, <1>2 DEF Prediction
<1> HIDE DEF q
<1> QED
  BY <1>2, <1>3, <1>4

LEMMA AnsweredFacts ==
  ASSUME NEW p \in Prediction, NEW e \in Elements \cup {None}
  PROVE  LET q == Answered(p, e)
         IN  /\ q \in Prediction /\ q.element = e /\ q.asked
             /\ q.shared <=> p.shared
<1> DEFINE j == [p EXCEPT !.asked = TRUE]
<1>1. j \in Prediction /\ j.asked = TRUE /\ j.shared = p.shared
  BY DEF Prediction
<1>2. Answered(p, e) = Tagged(j, e)
  BY DEF Answered
<1> HIDE DEF j
<1> QED
  BY <1>1, <1>2, TaggedFacts

LEMMA ClassifiedFacts ==
  ASSUME doc \in Documents, NEW u, NEW metadata \in BOOLEAN, NEW c \in Contents(u),
         NEW signature \in Signatures(u)
  PROVE  LET p == Classified(u, metadata, signature, c)
         IN  p \in Prediction /\ ~p.asked /\ (p.shared => p.element = None)
<1>1. c \in Content
  <2>1. NoContent \in Content
    BY DEF NoContent, Content
  <2>2. ASSUME NEW e \in Elements, NEW s \in Scores
        PROVE  [element |-> e, score |-> s[1], margin |-> s[2]] \in Content
    <3>1. s[1] \in Nat /\ s[2] \in Nat
      BY ScoresAssumption
    <3> QED
      BY <3>1 DEF Content
  <2> QED
    BY <2>1, <2>2 DEF Contents
<1>2. c.element \in Elements \cup {None}
  BY <1>1 DEF Content
<1>3. signature \in Elements \cup {None}
  BY DEF Signatures
<1> DEFINE first == Evidently(u, metadata, signature, c)
           element == IF OverruledByName(first, u, c) THEN doc.names[1] ELSE first
           shared == metadata /\ element = None
           content == IF element # None \/ shared THEN NoContent ELSE c
<1>4. first \in Elements \cup {None}
  BY <1>2, <1>3 DEF Evidently, LabelResult
<1>5. OverruledByName(first, u, c) => doc.names[1] \in Elements
  <2> SUFFICES ASSUME Len(doc.names) = 1 PROVE doc.names[1] \in Elements
    BY DEF OverruledByName
  <2>1. doc.names \in Seq(Elements)
    BY NamesAssumption
  <2> QED
    BY <2>1
<1>6. element \in Elements \cup {None}
  BY <1>4, <1>5
<1> HIDE DEF first
<1>7. shared \in BOOLEAN /\ (shared => element = None)
  OBVIOUS
<1>8. content \in Content
  BY <1>1 DEF NoContent, Content
<1>9. Classified(u, metadata, signature, c)
        = [element |-> element, shared |-> shared, asked |-> FALSE,
           content |-> content]
  BY DEF Classified, first
<1> HIDE DEF element, shared, content
<1> QED
  BY <1>6, <1>7, <1>8, <1>9 DEF Prediction

\* One unit is given another prediction.
LEMMA ReplaceFacts ==
  ASSUME tags \in Seq(Prediction), NEW c \in 1..Len(tags), NEW q \in Prediction,
         tags' = [tags EXCEPT ![c] = q]
  PROVE  /\ tags' \in Seq(Prediction) /\ Len(tags') = Len(tags)
         /\ tags'[c] = q /\ \A k \in 1..Len(tags) : k # c => tags'[k] = tags[k]
  OBVIOUS

LEMMA TagInitHolds == TagInit => TagInv
  BY DEF TagInit, TagInv, TagTypeOK, CursorInv

LEMMA ClassifyKeeps == TagInv /\ Classify => TagInv'
<1> SUFFICES ASSUME TagInv, Classify PROVE TagInv'
  OBVIOUS
<1>1. PICK metadata \in BOOLEAN, c \in Contents(units[cursor]),
           signature \in Signatures(units[cursor]) :
        tags' = Append(tags, Classified(units[cursor], metadata, signature, c))
  BY DEF Classify
<1> DEFINE p == Classified(units[cursor], metadata, signature, c)
           n == Len(tags)
<1>2. /\ pass = "classify" /\ cursor \in DOMAIN units /\ cursor' = cursor + 1
      /\ UNCHANGED <<doc, units, known, pass>>
  BY DEF Classify
<1>3. p \in Prediction /\ ~p.asked /\ (p.shared => p.element = None)
  BY ClassifiedFacts DEF TagInv, TagTypeOK
<1> HIDE DEF p
<1>4. tags \in Seq(Prediction) /\ n \in Nat
  BY DEF TagInv, TagTypeOK
<1>5. /\ tags' \in Seq(Prediction) /\ Len(tags') = n + 1 /\ tags'[n + 1] = p
      /\ \A k \in 1..n : tags'[k] = tags[k]
      /\ DOMAIN tags' = 1..(n + 1) /\ DOMAIN tags = 1..n
  BY <1>1, <1>3, <1>4 DEF p
<1>6. cursor = n + 1
  BY <1>2 DEF TagInv, CursorInv
<1>7. TagTypeOK'
  BY <1>2, <1>5 DEF TagInv, TagTypeOK
<1>8. CursorInv'
  <2>1. 1..(n + 1) \subseteq DOMAIN units
    BY <1>2, <1>4, <1>6 DEF TagInv, CursorInv
  <2> HIDE DEF n
  <2>2. cursor' = (n + 1) + 1 /\ cursor' \in 1..((n + 1) + 1)
    BY <1>2, <1>4, <1>6
  <2> QED
    BY <1>2, <1>5, <2>1, <2>2 DEF CursorInv
<1>9. ASSUME NEW k \in DOMAIN tags' PROVE UnitInv(k)'
  <2>1. CASE k \in 1..n
    BY <1>2, <1>5, <2>1 DEF TagInv, UnitInv
  <2>2. CASE k = n + 1
    BY <1>2, <1>3, <1>5, <2>2 DEF UnitInv
  <2> QED
    BY <1>4, <1>5, <2>1, <2>2
<1> QED
  BY <1>7, <1>8, <1>9 DEF TagInv

LEMMA NextPassKeeps == TagInv /\ NextPass => TagInv'
<1> SUFFICES ASSUME TagInv, NextPass PROVE TagInv'
  OBVIOUS
<1> DEFINE n == Len(tags)
<1>1. /\ cursor \notin DOMAIN units /\ cursor' = 1 /\ UNCHANGED <<doc, units, tags>>
      /\ tags \in Seq(Prediction) /\ n \in Nat /\ DOMAIN tags = 1..n
      /\ known \in Seq(Elements \cup {None})
  BY DEF NextPass, TagInv, TagTypeOK
<1>2. cursor = n + 1 /\ 1..n \subseteq DOMAIN units
  BY <1>1 DEF TagInv, CursorInv
<1>3. n + 1 \notin DOMAIN units
  BY <1>1, <1>2
<1>4. cursor' \in 1..(n + 1)
  BY <1>1
<1> HIDE DEF n
<1>5. CASE pass = "classify"
  <2>1. pass' = "continue" /\ known' = [k \in DOMAIN tags |-> tags[k].element]
    BY <1>5 DEF NextPass
  <2>2. \A k \in 1..n : tags[k].element \in Elements \cup {None}
    <3>1. \A k \in 1..n : tags[k] \in Prediction
      BY <1>1 DEF n
    <3> QED
      BY <3>1 DEF Prediction
  <2>3. /\ known' \in Seq(Elements \cup {None}) /\ Len(known') = n
        /\ \A k \in 1..n : known'[k] = tags[k].element
    BY <1>1, <2>1, <2>2
  <2>4. TagTypeOK'
    BY <1>1, <2>1, <2>3 DEF TagInv, TagTypeOK
  <2>5. CursorInv'
    BY <1>1, <1>2, <1>3, <1>4, <2>1, <2>3 DEF CursorInv, n
  <2>6. \A k \in DOMAIN tags' : UnitInv(k)'
    BY <1>1, <1>5, <2>1, <2>3 DEF TagInv, UnitInv, Fresh
  <2> QED
    BY <2>4, <2>5, <2>6 DEF TagInv
<1>6. CASE pass = "continue"
  <2>1. pass' = "backup" /\ known' = known
    BY <1>6 DEF NextPass
  <2>2. TagTypeOK'
    BY <1>1, <2>1 DEF TagInv, TagTypeOK
  <2>3. CursorInv'
    BY <1>1, <1>2, <1>4, <1>6, <2>1 DEF TagInv, CursorInv, n
  <2>4. \A k \in DOMAIN tags' : UnitInv(k)'
    BY <1>1, <1>2, <1>6, <2>1 DEF TagInv, UnitInv
  <2> QED
    BY <2>2, <2>3, <2>4 DEF TagInv
<1>7. CASE pass = "backup"
  <2>1. pass' = "collect" /\ known' = known
    BY <1>7 DEF NextPass
  <2>2. TagTypeOK'
    BY <1>1, <2>1 DEF TagInv, TagTypeOK
  <2>3. CursorInv'
    BY <1>1, <1>2, <1>4, <1>7, <2>1 DEF TagInv, CursorInv, n
  <2>4. \A k \in DOMAIN tags' : UnitInv(k)'
    BY <1>1, <1>2, <1>7, <2>1 DEF TagInv, UnitInv
  <2> QED
    BY <2>2, <2>3, <2>4 DEF TagInv
<1>8. CASE pass = "collect"
  <2>1. pass' = "done" /\ known' = known
    BY <1>8 DEF NextPass
  <2>2. TagTypeOK'
    BY <1>1, <2>1 DEF TagInv, TagTypeOK
  <2>3. CursorInv'
    BY <1>1, <1>2, <1>4, <1>8, <2>1 DEF TagInv, CursorInv, n
  <2>4. \A k \in DOMAIN tags' : UnitInv(k)'
    BY <1>1, <1>2, <1>8, <2>1 DEF TagInv, UnitInv
  <2> QED
    BY <2>2, <2>3, <2>4 DEF TagInv
<1> QED
  BY <1>5, <1>6, <1>7, <1>8 DEF TagInv, TagTypeOK, NextPass

\* Where the elements before and after a unit come from.
LEMMA NeighbourFacts ==
  ASSUME known \in Seq(Elements \cup {None}), NEW k \in DOMAIN known
  PROVE  /\ Previous(k) # None =>
              \E j \in DOMAIN known :
                /\ Previous(k) = known[j] /\ known[j] # None
                /\ \A n \in Between(j, k) : known[n] = None
         /\ Following(k) # None =>
              \E j \in DOMAIN known :
                /\ Following(k) = known[j] /\ known[j] # None
                /\ \A n \in Between(j, k) : known[n] = None
         /\ Previous(k) = None /\ Following(k) = None /\ known[k] = None
              => NoneKnown(known)
         /\ Previous(k) \in Elements \cup {None}
         /\ Following(k) \in Elements \cup {None}
<1> DEFINE m == Len(known)
<1>1. m \in Nat /\ DOMAIN known = 1..m /\ k \in 1..m
  OBVIOUS
<1>2. \A j \in 1..m : known[j] \in Elements \cup {None}
  OBVIOUS
<1> HIDE DEF m
<1>3. KnownBefore(k) \subseteq 1..m /\ KnownAfter(k) \subseteq 1..m
  BY <1>1 DEF KnownBefore, KnownAfter
<1>4. ASSUME KnownBefore(k) # {}
      PROVE  /\ Max(KnownBefore(k)) \in KnownBefore(k)
             /\ \A y \in KnownBefore(k) : y <= Max(KnownBefore(k))
  <2>1. KnownBefore(k) \in SUBSET (0..m)
    BY <1>1, <1>3
  <2> QED
    BY <1>1, <1>4, <2>1, MaxFacts
<1>5. ASSUME KnownAfter(k) # {}
      PROVE  /\ Min(KnownAfter(k)) \in KnownAfter(k)
             /\ \A y \in KnownAfter(k) : Min(KnownAfter(k)) <= y
  <2>1. KnownAfter(k) \in SUBSET Nat
    BY <1>1, <1>3
  <2> QED
    BY <1>5, <2>1, MinFacts
<1>6. ASSUME KnownBefore(k) # {}
      PROVE  \E j \in DOMAIN known :
               /\ j < k /\ Previous(k) = known[j] /\ known[j] # None
               /\ \A n \in Between(j, k) : known[n] = None
  <2> DEFINE j == Max(KnownBefore(k))
  <2>1. j \in 1..m /\ j < k /\ known[j] # None /\ Previous(k) = known[j]
    BY <1>1, <1>4, <1>6 DEF KnownBefore, Previous
  <2>2. \A y \in KnownBefore(k) : y <= j
    BY <1>4, <1>6
  <2> HIDE DEF j
  <2>3. ASSUME NEW n \in Between(j, k) PROVE known[n] = None
    <3>1. n \in 1..m /\ n < k /\ j < n
      BY <1>1, <2>1 DEF Between
    <3>2. n \notin KnownBefore(k)
      BY <1>1, <2>1, <2>2, <3>1
    <3> QED
      BY <1>1, <3>1, <3>2 DEF KnownBefore
  <2> QED
    BY <1>1, <2>1, <2>3
<1>7. ASSUME KnownAfter(k) # {}
      PROVE  \E j \in DOMAIN known :
               /\ k < j /\ Following(k) = known[j] /\ known[j] # None
               /\ \A n \in Between(j, k) : known[n] = None
  <2> DEFINE j == Min(KnownAfter(k))
  <2>1. j \in 1..m /\ k < j /\ known[j] # None /\ Following(k) = known[j]
    BY <1>1, <1>5, <1>7 DEF KnownAfter, Following
  <2>2. \A y \in KnownAfter(k) : j <= y
    BY <1>5, <1>7
  <2> HIDE DEF j
  <2>3. ASSUME NEW n \in Between(j, k) PROVE known[n] = None
    <3>1. n \in 1..m /\ k < n /\ n < j
      BY <1>1, <2>1 DEF Between
    <3>2. n \notin KnownAfter(k)
      BY <1>1, <2>1, <2>2, <3>1
    <3> QED
      BY <1>1, <3>1, <3>2 DEF KnownAfter
  <2> QED
    BY <1>1, <2>1, <2>3
<1>8. Previous(k) \in Elements \cup {None} /\ Following(k) \in Elements \cup {None}
  <2>1. KnownBefore(k) = {} => Previous(k) = None
    BY DEF Previous
  <2>2. KnownAfter(k) = {} => Following(k) = None
    BY DEF Following
  <2> QED
    BY <1>1, <1>2, <1>6, <1>7, <2>1, <2>2
<1>9. ASSUME Previous(k) = None, Following(k) = None, known[k] = None
      PROVE  NoneKnown(known)
  <2>1. KnownBefore(k) = {} /\ KnownAfter(k) = {}
    BY <1>6, <1>7, <1>9
  <2>2. ASSUME NEW j \in 1..m PROVE known[j] = None
    BY <1>1, <1>9, <2>1, <2>2 DEF KnownBefore, KnownAfter
  <2> QED
    BY <1>1, <2>2 DEF NoneKnown
<1>10. Previous(k) # None => KnownBefore(k) # {}
  BY DEF Previous
<1>11. Following(k) # None => KnownAfter(k) # {}
  BY DEF Following
<1> QED
  BY <1>6, <1>7, <1>8, <1>9, <1>10, <1>11

LEMMA ContinuedFacts ==
  ASSUME known \in Seq(Elements \cup {None}), NEW k \in DOMAIN known,
         known[k] = None, NEW p \in Prediction, Open(p), ~p.asked
  PROVE  LET q == Continued(p, Previous(k), Following(k))
         IN  /\ q \in Prediction /\ AfterContinue(q, known, k)
             /\ q.shared => q.element = None
<1> DEFINE before == Previous(k)
           after  == Following(k)
           q == Continued(p, before, after)
<1>1. /\ before \in Elements \cup {None} /\ after \in Elements \cup {None}
      /\ before = None /\ after = None => NoneKnown(known)
  BY NeighbourFacts
<1>2. before # None =>
        \E j \in DOMAIN known : /\ before = known[j] /\ known[j] # None
                                /\ \A n \in Between(j, k) : known[n] = None
  BY NeighbourFacts
<1>3. after # None =>
        \E j \in DOMAIN known : /\ after = known[j] /\ known[j] # None
                                /\ \A n \in Between(j, k) : known[n] = None
  BY NeighbourFacts
<1> HIDE DEF before, after
<1>4. p.element = None /\ ~p.shared
  BY DEF Open
<1>5. ASSUME NEW e \in {before, after}, e # None
      PROVE  LET t == Tagged(p, e)
             IN  /\ t \in Prediction /\ AfterContinue(t, known, k) /\ ~t.shared
  <2> DEFINE t == Tagged(p, e)
  <2>1. t \in Prediction /\ t.element = e /\ ~t.shared /\ ~t.asked
    BY <1>1, <1>4, TaggedFacts
  <2> HIDE DEF t
  <2>2. Filled(t, known, k)
    BY <1>2, <1>3, <1>5, <2>1 DEF Filled
  <2> QED
    BY <2>1, <2>2 DEF AfterContinue, t
<1>6. CASE before # None /\ after # None /\ before # after
  <2>1. CASE Nearby(p.content, {before, after})
    <3>1. q = Tagged(p, p.content.element)
      BY <1>6, <2>1 DEF Continued
    <3>2. p.content.element \in {before, after} /\ p.content.element # None
      BY <1>6, <2>1 DEF Nearby
    <3> QED
      BY <1>5, <3>1, <3>2 DEF before, after
  <2>2. CASE ~Nearby(p.content, {before, after})
    <3>1. q = Shared(p)
      BY <1>6, <2>2 DEF Continued
    <3>2. q \in Prediction /\ q.element = None /\ q.shared /\ ~q.asked
      BY <1>4, <3>1, SharedFacts
    <3> QED
      BY <3>2 DEF AfterContinue, before, after
  <2> QED
    BY <2>1, <2>2
<1>7. CASE before # None /\ ~(after # None /\ before # after)
  <2>1. q = Tagged(p, before)
    BY <1>7 DEF Continued
  <2> QED
    BY <1>5, <1>7, <2>1 DEF before, after
<1>8. CASE before = None /\ after # None
  <2>1. q = Tagged(p, after)
    BY <1>8 DEF Continued
  <2> QED
    BY <1>5, <1>8, <2>1 DEF before, after
<1>9. CASE before = None /\ after = None
  <2>1. q = p
    BY <1>9 DEF Continued
  <2> QED
    BY <1>1, <1>4, <1>9, <2>1 DEF AfterContinue, before, after
<1> QED
  BY <1>6, <1>7, <1>8, <1>9

\* One unit of a pass that is not the first.
LEMMA PassFacts ==
  ASSUME TagInv, cursor \in DOMAIN units,
         pass \in {"continue", "backup", "collect"}
  PROVE  /\ tags \in Seq(Prediction) /\ known \in Seq(Elements \cup {None})
         /\ Len(tags) \in Nat /\ DOMAIN tags = 1..Len(tags)
         /\ DOMAIN known = 1..Len(tags)
         /\ cursor \in 1..Len(tags) /\ tags[cursor] \in Prediction
<1>1. /\ tags \in Seq(Prediction) /\ known \in Seq(Elements \cup {None})
      /\ Len(tags) \in Nat /\ DOMAIN tags = 1..Len(tags)
      /\ Len(known) = Len(tags) /\ DOMAIN known = 1..Len(known)
  BY DEF TagInv, TagTypeOK, CursorInv
<1>2. cursor \in 1..(Len(tags) + 1) /\ cursor # Len(tags) + 1
  BY DEF TagInv, CursorInv
<1>3. cursor \in 1..Len(tags)
  BY <1>1, <1>2
<1> QED
  BY <1>1, <1>3

LEMMA PassStep ==
  ASSUME TagInv, cursor \in DOMAIN units, pass \in {"continue", "backup"},
         NEW q \in Prediction, tags' = [tags EXCEPT ![cursor] = q],
         q.shared => q.element = None,
         known[cursor] # None => q.element = known[cursor],
         pass = "continue" => AfterContinue(q, known, cursor),
         pass = "backup" => AfterBackup(q, known, cursor, doc.names),
         cursor' = cursor + 1, UNCHANGED <<doc, units, known, pass>>
  PROVE  TagInv'
<1> DEFINE n == Len(tags)
<1>1. /\ tags \in Seq(Prediction) /\ n \in Nat /\ DOMAIN tags = 1..n
      /\ DOMAIN known = 1..n /\ cursor \in 1..n
  BY PassFacts
<1>2. /\ tags' \in Seq(Prediction) /\ Len(tags') = n
      /\ tags'[cursor] = q /\ \A k \in 1..n : k # cursor => tags'[k] = tags[k]
  BY <1>1, ReplaceFacts
<1>3. DOMAIN tags' = 1..n
  BY <1>2
<1>4. TagTypeOK'
  BY <1>2 DEF TagInv, TagTypeOK
<1>5. CursorInv'
  <2>1. cursor' \in 1..(n + 1)
    BY <1>1
  <2> QED
    BY <1>2, <2>1 DEF TagInv, CursorInv
<1> HIDE DEF n
<1>6. ASSUME NEW k \in DOMAIN tags' PROVE UnitInv(k)'
  <2>1. k \in 1..n /\ UnitInv(k)
    BY <1>1, <1>3, <1>6 DEF TagInv
  <2>2. CASE k = cursor
    <3>1. tags'[k] = q /\ k < cursor'
      BY <1>1, <1>2, <2>2
    <3> QED
      BY <2>2, <3>1 DEF UnitInv
  <2>3. CASE k # cursor
    <3>1. tags'[k] = tags[k] /\ (k < cursor' <=> k < cursor)
      BY <1>1, <1>2, <2>1, <2>3
    <3> QED
      BY <2>1, <2>3, <3>1 DEF UnitInv
  <2> QED
    BY <2>2, <2>3
<1> QED
  BY <1>4, <1>5, <1>6 DEF TagInv

LEMMA ContinueKeeps == TagInv /\ Continue => TagInv'
<1> SUFFICES ASSUME TagInv, Continue PROVE TagInv'
  OBVIOUS
<1> DEFINE p == tags[cursor]
<1>1. /\ pass = "continue" /\ cursor \in DOMAIN units /\ cursor' = cursor + 1
      /\ UNCHANGED <<doc, units, known, pass>>
  BY DEF Continue
<1>2. /\ tags \in Seq(Prediction) /\ known \in Seq(Elements \cup {None})
      /\ DOMAIN tags = 1..Len(tags) /\ Len(tags) \in Nat
      /\ cursor \in DOMAIN known /\ cursor \in 1..Len(tags) /\ p \in Prediction
  BY <1>1, PassFacts
<1>3. Fresh(p, known[cursor]) /\ (p.shared => p.element = None)
  <2>1. UnitInv(cursor) /\ ~(cursor < cursor)
    BY <1>2 DEF TagInv
  <2> QED
    BY <1>1, <2>1 DEF UnitInv
<1>4. CASE Open(p)
  <2> DEFINE q == Continued(p, Previous(cursor), Following(cursor))
  <2>1. tags' = [tags EXCEPT ![cursor] = q]
    BY <1>4 DEF Continue
  <2>2. known[cursor] = None /\ ~p.asked
    BY <1>3, <1>4 DEF Fresh, Open
  <2>3. /\ q \in Prediction /\ AfterContinue(q, known, cursor)
        /\ q.shared => q.element = None
    BY <1>2, <1>4, <2>2, ContinuedFacts
  <2> HIDE DEF q
  <2> QED
    BY <1>1, <2>1, <2>2, <2>3, PassStep
<1>5. CASE ~Open(p)
  <2>1. tags' = [tags EXCEPT ![cursor] = p]
    BY <1>2, <1>5 DEF Continue
  <2>2. AfterContinue(p, known, cursor) /\ p.element = known[cursor]
    BY <1>3, <1>5 DEF AfterContinue, Fresh, Open
  <2> HIDE DEF p
  <2> QED
    BY <1>1, <1>2, <1>3, <2>1, <2>2, PassStep
<1> QED
  BY <1>4, <1>5

LEMMA BackupKeeps == TagInv /\ Backup => TagInv'
<1> SUFFICES ASSUME TagInv, Backup PROVE TagInv'
  OBVIOUS
<1> DEFINE p == tags[cursor]
<1>1. /\ pass = "backup" /\ cursor \in DOMAIN units /\ cursor' = cursor + 1
      /\ UNCHANGED <<doc, units, known, pass>>
  BY DEF Backup
<1>2. /\ tags \in Seq(Prediction) /\ known \in Seq(Elements \cup {None})
      /\ DOMAIN tags = 1..Len(tags) /\ Len(tags) \in Nat
      /\ cursor \in 1..Len(tags) /\ p \in Prediction
  BY <1>1, PassFacts
<1>3. /\ AfterContinue(p, known, cursor) /\ (p.shared => p.element = None)
      /\ known[cursor] # None => p.element = known[cursor]
  <2>1. UnitInv(cursor) /\ ~(cursor < cursor)
    BY <1>2 DEF TagInv
  <2> QED
    BY <1>1, <2>1 DEF UnitInv
<1>4. ASSUME Open(p)
      PROVE  NoneKnown(known) /\ ~p.asked /\ ~p.shared /\ known[cursor] = None
  BY <1>3, <1>4 DEF AfterContinue, Open, Filled
<1> DEFINE names == doc.names
<1>5. names \in Seq(Elements)
  BY NamesAssumption DEF TagInv, TagTypeOK
<1>6. PICK q \in Prediction :
        /\ tags' = [tags EXCEPT ![cursor] = q]
        /\ q.shared => q.element = None
        /\ known[cursor] # None => q.element = known[cursor]
        /\ AfterBackup(q, known, cursor, names)
  <2>1. tags = [tags EXCEPT ![cursor] = p]
    BY <1>2
  <2>2. CASE ~Open(p) /\ UNCHANGED tags
    <3>1. AfterBackup(p, known, cursor, names)
      BY <1>3, <2>2 DEF AfterContinue, AfterBackup, Open
    <3> QED
      BY <1>2, <1>3, <2>1, <2>2, <3>1
  <2>3. CASE /\ Open(p) /\ names # <<>>
             /\ tags' = [tags EXCEPT ![cursor] = Tagged(p, NameBackup(p.content))]
    <3> DEFINE e == NameBackup(p.content)
               q == Tagged(p, e)
    <3>1. names[1] \in Range(names) /\ Range(names) \subseteq Elements
      BY <1>5, <2>3 DEF Range
    <3>2. e \in Range(names) /\ e \in Elements
      BY <3>1 DEF NameBackup
    <3> HIDE DEF e
    <3>3. q \in Prediction /\ q.element = e /\ ~q.shared /\ ~q.asked
      BY <1>2, <1>4, <2>3, <3>2, TaggedFacts
    <3>4. tags' = [tags EXCEPT ![cursor] = q]
      BY <2>3 DEF e
    <3> HIDE DEF q
    <3>5. AfterBackup(q, known, cursor, names)
      BY <1>4, <2>3, <3>2, <3>3 DEF AfterBackup
    <3> QED
      BY <1>4, <2>3, <3>3, <3>4, <3>5
  <2>4. CASE Open(p) /\ names = <<>> /\ UNCHANGED tags
    <3>1. AfterBackup(p, known, cursor, names)
      BY <1>4, <2>4 DEF AfterBackup, Open
    <3> QED
      BY <1>2, <1>3, <2>1, <2>4, <3>1
  <2>5. CASE /\ Open(p) /\ names = <<>>
             /\ \E element \in Elements \cup {None} :
                  tags' = [tags EXCEPT ![cursor] = Answered(p, element)]
    <3>1. PICK element \in Elements \cup {None} :
            tags' = [tags EXCEPT ![cursor] = Answered(p, element)]
      BY <2>5
    <3> DEFINE q == Answered(p, element)
    <3>2. q \in Prediction /\ ~q.shared /\ q.asked
      BY <1>2, <1>4, <2>5, AnsweredFacts
    <3>3. tags' = [tags EXCEPT ![cursor] = q]
      BY <3>1
    <3> HIDE DEF q
    <3>4. AfterBackup(q, known, cursor, names)
      BY <1>4, <2>5, <3>2 DEF AfterBackup
    <3> QED
      BY <1>4, <2>5, <3>2, <3>3, <3>4
  <2> QED
    BY <2>2, <2>3, <2>4, <2>5 DEF Backup
<1> QED
  BY <1>1, <1>6, PassStep

LEMMA CollectKeeps == TagInv /\ Collect => TagInv'
<1> SUFFICES ASSUME TagInv, Collect PROVE TagInv'
  OBVIOUS
<1>1. /\ pass = "collect" /\ cursor \in DOMAIN units /\ cursor' = cursor + 1
      /\ UNCHANGED <<doc, units, tags, known, pass>>
  BY DEF Collect
<1>2. Len(tags) \in Nat /\ cursor \in 1..Len(tags)
  BY <1>1, PassFacts
<1>3. TagTypeOK'
  BY <1>1 DEF TagInv, TagTypeOK
<1>4. CursorInv'
  <2>1. cursor' \in 1..(Len(tags) + 1)
    BY <1>1, <1>2
  <2> QED
    BY <1>1, <2>1 DEF TagInv, CursorInv
<1>5. \A k \in DOMAIN tags' : UnitInv(k)'
  BY <1>1 DEF TagInv, UnitInv
<1> QED
  BY <1>3, <1>4, <1>5 DEF TagInv

\* The inductive invariant.
THEOREM TaggingHolds == TagSpec => []TagInv
<1>1. TagInv /\ UNCHANGED tagVars => TagInv'
  BY DEF TagInv, TagTypeOK, CursorInv, UnitInv, tagVars
<1>2. TagInv /\ [TagNext]_tagVars => TagInv'
  BY <1>1, ClassifyKeeps, NextPassKeeps, ContinueKeeps, BackupKeeps,
     CollectKeeps DEF TagNext
<1> QED
  BY <1>2, TagInitHolds, PTL DEF TagSpec

(***************************************************************************)
(* An open unit takes an element of the nearest ones known or is shared;   *)
(* if none is known, the file name settles it, and the model is asked only *)
(* if the file name says nothing.                                          *)
(***************************************************************************)
THEOREM GapsFilledFromNearest == TagSpec => []GapsAreFilled
<1>1. TagInv => GapsAreFilled
  <2> SUFFICES ASSUME TagInv, pass = "done", NEW k \in DOMAIN tags,
                      known[k] = None, ~tags[k].shared
               PROVE  IF \E j \in DOMAIN known : known[j] # None
                      THEN \E j \in DOMAIN known :
                             /\ tags[k].element = known[j] /\ known[j] # None
                             /\ \A n \in Between(j, k) : known[n] = None
                      ELSE /\ doc.names # <<>> => tags[k].element \in Range(doc.names)
                           /\ tags[k].asked => doc.names = <<>>
    BY DEF GapsAreFilled
  <2>1. AfterBackup(tags[k], known, k, doc.names)
    BY DEF TagInv, UnitInv
  <2> QED
    BY <2>1 DEF AfterBackup, Filled, NoneKnown
<1> QED
  BY <1>1, TaggingHolds, PTL

(***************************************************************************)
(* A document that is called verified has no unit without an element, but  *)
(* for shared context; one that waits for the model has no unit that       *)
(* anything but the model has tagged.                                      *)
(***************************************************************************)
THEOREM StatusTellsTheGaps == TagSpec => []StatusTellsGaps
<1>1. TagInv => StatusTellsGaps
  <2> SUFFICES ASSUME TagInv, pass = "done"
               PROVE  /\ Status \in {"Verified", "Multi-element Verified"}
                           => \A k \in DOMAIN tags : Settled(tags[k])
                      /\ Status = "Pending Gamma Verification"
                           => /\ doc.names = <<>>
                              /\ \A k \in DOMAIN known : known[k] = None
                              /\ \A k \in DOMAIN tags :
                                   tags[k].element # None => tags[k].asked
    BY DEF StatusTellsGaps
  <2>1. /\ DOMAIN known = DOMAIN tags
        /\ \A k \in DOMAIN tags : /\ AfterBackup(tags[k], known, k, doc.names)
                                  /\ tags[k].shared => tags[k].element = None
                                  /\ known[k] # None => tags[k].element = known[k]
    BY DEF TagInv, TagTypeOK, CursorInv, UnitInv
  <2>2. ASSUME Status \in {"Verified", "Multi-element Verified"}, NEW k \in DOMAIN tags
        PROVE  Settled(tags[k])
    <3>1. ~Gap(tags[k])
      BY <2>2 DEF Status
    <3> QED
      BY <3>1 DEF Gap, Open, Settled
  <2>3. ASSUME Status = "Pending Gamma Verification"
        PROVE  /\ doc.names = <<>>
               /\ \A k \in DOMAIN known : known[k] = None
               /\ \A k \in DOMAIN tags : tags[k].element # None => tags[k].asked
    <3>1. PICK k \in DOMAIN tags : tags[k].element = None /\ ~tags[k].shared
      BY <2>3 DEF Status, Gap, Open
    <3>2. known[k] = None
      BY <2>1, <3>1
    <3>3. ~Filled(tags[k], known, k)
      BY <3>1 DEF Filled
    <3>4. NoneKnown(known)
      BY <2>1, <3>1, <3>2, <3>3 DEF AfterBackup
    <3>5. doc.names \in Seq(Elements) /\ Range(doc.names) \subseteq Elements
      BY NamesAssumption DEF TagInv, TagTypeOK, Range
    <3>6. doc.names = <<>>
      BY <2>1, <3>1, <3>2, <3>3, <3>5, NoneAssumption DEF AfterBackup
    <3>7. ASSUME NEW m \in DOMAIN tags, tags[m].element # None
          PROVE  tags[m].asked
      <4>1. known[m] = None /\ ~tags[m].shared
        BY <2>1, <3>4, <3>7 DEF NoneKnown
      <4>2. ~Filled(tags[m], known, m)
        BY <3>4 DEF Filled, NoneKnown
      <4> QED
        BY <2>1, <3>6, <3>7, <4>1, <4>2 DEF AfterBackup
    <3> QED
      BY <3>4, <3>6, <3>7 DEF NoneKnown
  <2> QED
    BY <2>2, <2>3
<1> QED
  BY <1>1, TaggingHolds, PTL

-----------------------------------------------------------------------------
(***************************************************************************)
(* The evidence.  The units are cut as the file reads (TextIsAtHome); the  *)
(* validation that goes over them adds, for each element, the text of the  *)
(* units tagged with it, and cuts nothing off as long as it all fits       *)
(* (EvidenceInv).                                                          *)
(***************************************************************************)

\* the members of S that b reaches: their number is the place of b in S
Upto(S, b) == {y \in S : y <= b}

\* The i-th of the sorted members is the one with i members up to it.
LEMMA SortedFacts ==
  ASSUME NEW S \in SUBSET Nat, IsFiniteSet(S)
  PROVE  LET s == Sorted(S)
             n == Cardinality(S)
         IN  /\ n \in Nat /\ s \in Seq(S) /\ Len(s) = n /\ DOMAIN s = 1..n
             /\ Range(s) = S
             /\ \A i \in 1..n : s[i] \in S /\ Cardinality(Upto(S, s[i])) = i
             /\ \A x \in S : /\ Cardinality(Upto(S, x)) \in 1..n
                             /\ s[Cardinality(Upto(S, x))] = x
<1> DEFINE s == Sorted(S)
           n == Cardinality(S)
           f == [x \in S |-> Cardinality(Upto(S, x))]
<1>1. n \in Nat
  BY FS_CardinalityType
<1>2. ASSUME NEW x \in S
      PROVE  /\ IsFiniteSet(Upto(S, x)) /\ x \in Upto(S, x)
             /\ Cardinality(Upto(S, x)) \in 1..n
  <2>1. x \in Upto(S, x) /\ Upto(S, x) \in SUBSET S
    BY DEF Upto
  <2>2. IsFiniteSet(Upto(S, x)) /\ Cardinality(Upto(S, x)) <= n
    BY <2>1, FS_Subset
  <2>3. Cardinality(Upto(S, x)) \in Nat /\ Cardinality(Upto(S, x)) # 0
    BY <2>1, <2>2, FS_CardinalityType, FS_EmptySet
  <2> QED
    BY <1>1, <2>1, <2>2, <2>3
<1>3. ASSUME NEW x \in S, NEW y \in S, x <= y,
             Cardinality(Upto(S, x)) = Cardinality(Upto(S, y))
      PROVE  x = y
  <2>1. Upto(S, x) \in SUBSET Upto(S, y)
    <3> SUFFICES ASSUME NEW z \in S, z <= x PROVE z <= y
      BY DEF Upto
    <3>1. x \in Nat /\ y \in Nat /\ z \in Nat
      OBVIOUS
    <3> QED
      BY <1>3, <3>1
  <2>2. Upto(S, x) = Upto(S, y)
    BY <1>2, <1>3, <2>1, FS_Subset
  <2>3. y \in Upto(S, y)
    BY <1>2
  <2>4. y \in Upto(S, x)
    BY <2>2, <2>3
  <2>5. y <= x
    BY <2>4 DEF Upto
  <2> QED
    BY <1>3, <2>5
<1>4. ASSUME NEW x \in S, NEW y \in S,
             Cardinality(Upto(S, x)) = Cardinality(Upto(S, y))
      PROVE  x = y
  <2>1. x <= y \/ y <= x
    OBVIOUS
  <2> QED
    BY <1>3, <1>4, <2>1
<1>5. f \in Injection(S, 1..n)
  <2>1. f \in [S -> 1..n]
    BY <1>2
  <2>2. \A x, y \in S : f[x] = f[y] => x = y
    BY <1>4
  <2> QED
    BY <2>1, <2>2 DEF Injection, IsInjective
<1>6. IsFiniteSet(1..n) /\ Cardinality(1..n) = n
  <2>1. 1 \in Int /\ n \in Int
    BY <1>1
  <2>2. IsFiniteSet(1..n) /\ Cardinality(1..n) = IF 1 > n THEN 0 ELSE n - 1 + 1
    BY <2>1, FS_Interval
  <2> HIDE DEF n
  <2> QED
    BY <1>1, <2>2
<1>7. f \in Surjection(S, 1..n)
  BY <1>5, <1>6, FS_Injection
<1>8. ASSUME NEW i \in 1..n
      PROVE  s[i] \in S /\ Cardinality(Upto(S, s[i])) = i
  <2>1. \E x \in S : Cardinality(Upto(S, x)) = i
    BY <1>7 DEF Surjection
  <2>2. s[i] = CHOOSE x \in S : Cardinality(Upto(S, x)) = i
    BY DEF Sorted, Upto
  <2> QED
    BY <2>1, <2>2
<1>9. ASSUME NEW x \in S PROVE s[Cardinality(Upto(S, x))] = x
  BY <1>2, <1>4, <1>8
<1>10. s \in [1..n -> S]
  BY <1>8 DEF Sorted
<1> HIDE DEF s, n
<1>11. s \in Seq(S) /\ Len(s) = n /\ DOMAIN s = 1..n
  BY <1>1, <1>10
<1>12. Range(s) = S
  BY <1>2, <1>8, <1>9, <1>11 DEF Range, n
<1> QED
  BY <1>1, <1>2, <1>8, <1>9, <1>11, <1>12 DEF s, n

\* b is behind as many of the sorted members as there are up to it.
LEMMA RankFacts ==
  ASSUME NEW S \in SUBSET Nat, IsFiniteSet(S), NEW b \in Nat
  PROVE  /\ Cardinality(Upto(S, b)) \in 0..Cardinality(S)
         /\ \A k \in 1..Cardinality(S) :
              Sorted(S)[k] <= b <=> k <= Cardinality(Upto(S, b))
<1> DEFINE n == Cardinality(S)
           r == Cardinality(Upto(S, b))
           s == Sorted(S)
<1>1. /\ n \in Nat
      /\ \A i \in 1..n : s[i] \in S /\ Cardinality(Upto(S, s[i])) = i
  BY SortedFacts
<1>2. Upto(S, b) \in SUBSET S
  BY DEF Upto
<1>3. IsFiniteSet(Upto(S, b)) /\ r <= n
  BY <1>2, FS_Subset
<1>4. r \in Nat
  BY <1>3, FS_CardinalityType
<1>5. ASSUME NEW k \in 1..n, s[k] <= b PROVE k <= r
  <2>1. Upto(S, s[k]) \in SUBSET Upto(S, b)
    <3> SUFFICES ASSUME NEW y \in S, y <= s[k] PROVE y <= b
      BY DEF Upto
    <3>1. s[k] \in Nat /\ y \in Nat
      BY <1>1
    <3> HIDE DEF s
    <3> QED
      BY <1>5, <3>1
  <2> QED
    BY <1>1, <1>3, <2>1, FS_Subset
<1>6. ASSUME NEW k \in 1..n, ~(s[k] <= b) PROVE ~(k <= r)
  <2> DEFINE T == Upto(S, s[k])
  <2>1. s[k] \in S /\ Cardinality(T) = k /\ T \in SUBSET S
    BY <1>1 DEF Upto
  <2>2. Upto(S, b) \in SUBSET T
    <3> SUFFICES ASSUME NEW y \in S, y <= b PROVE y <= s[k]
      BY DEF Upto
    <3>1. s[k] \in Nat /\ y \in Nat
      BY <2>1
    <3> HIDE DEF s
    <3> QED
      BY <1>6, <3>1
  <2>3. s[k] \in T /\ s[k] \notin Upto(S, b)
    <3>1. s[k] \in Nat
      BY <2>1
    <3>2. s[k] <= s[k]
      BY <3>1
    <3> QED
      BY <1>6, <2>1, <3>2 DEF Upto
  <2>4. IsFiniteSet(T)
    BY <2>1, FS_Subset
  <2> HIDE DEF T
  <2>5. r <= Cardinality(T) /\ r # Cardinality(T)
    BY <2>2, <2>3, <2>4, FS_Subset
  <2> QED
    BY <1>1, <1>4, <2>1, <2>5
<1> QED
  BY <1>1, <1>3, <1>4, <1>5, <1>6

\* A set of blocks is sorted into a sequence of them.
LEMMA BlockFacts ==
  ASSUME NEW blocks \in Seq(Block), NEW S \in SUBSET (DOMAIN blocks)
  PROVE  /\ S \in SUBSET Nat /\ IsFiniteSet(S)
         /\ Sorted(S) \in Seq(DOMAIN blocks) /\ Range(Sorted(S)) = S
         /\ Len(Sorted(S)) = Cardinality(S)
<1>1. S \in SUBSET Nat /\ Len(blocks) \in Nat /\ \A x \in S : x <= Len(blocks)
  OBVIOUS
<1>2. IsFiniteSet(S)
  BY <1>1, FS_BoundedSetOfNaturals
<1>3. /\ Sorted(S) \in Seq(S) /\ Range(Sorted(S)) = S
      /\ Len(Sorted(S)) = Cardinality(S)
  BY <1>1, <1>2, SortedFacts
<1> QED
  BY <1>1, <1>2, <1>3

\* The parts of a document, as sets of blocks.
Kinds(blocks, kinds) == {b \in DOMAIN blocks : blocks[b].kind \in kinds}

LEMMA PartFacts ==
  ASSUME NEW blocks \in Seq(Block), NEW kinds
  PROVE  /\ Of(blocks, kinds) = Sorted(Kinds(blocks, kinds))
         /\ Of(blocks, kinds) \in Seq(DOMAIN blocks)
         /\ Range(Of(blocks, kinds)) = Kinds(blocks, kinds)
         /\ Len(Of(blocks, kinds)) = Cardinality(Kinds(blocks, kinds))
<1>1. Kinds(blocks, kinds) \in SUBSET (DOMAIN blocks)
  BY DEF Kinds
<1>2. Of(blocks, kinds) = Sorted(Kinds(blocks, kinds))
  BY DEF Of, Kinds
<1> QED
  BY <1>1, <1>2, BlockFacts

\* The heading of section k, and where the section ends.
Covers(blocks, k, b) ==
  Headings(blocks)[k] <= b /\ (k < Len(Headings(blocks)) =>
                                 ~(Headings(blocks)[k + 1] <= b))

\* A block is at home in the section it is in.
LEMMA HomeInWord ==
  ASSUME NEW blocks \in Seq(Block), Headings(blocks) # <<>>,
         NEW b \in DOMAIN blocks
  PROVE  LET home == Home(blocks, "word", b)
             n == Len(Headings(blocks))
         IN  /\ n \in Nat /\ home \in 0..n
             /\ \A k \in 1..n : Covers(blocks, k, b) <=> home = k
             /\ \A k \in 1..n :
                  Headings(blocks)[k] <= b <=> k <= home
<1> DEFINE H == Kinds(blocks, {"heading"})
           n == Len(Headings(blocks))
           home == Home(blocks, "word", b)
<1>1. H \in SUBSET (DOMAIN blocks)
  BY DEF Kinds
<1>2. H \in SUBSET Nat /\ IsFiniteSet(H)
  BY <1>1, BlockFacts
<1>3. Headings(blocks) = Sorted(H) /\ n = Cardinality(H)
  BY PartFacts DEF Headings
<1>4. n \in Nat
  BY <1>2, <1>3, FS_CardinalityType
<1>5. home = Cardinality(Upto(H, b))
  <2>1. b \in Nat /\ 1..b \subseteq DOMAIN blocks
    OBVIOUS
  <2>2. {c \in 1..b : blocks[c].kind = "heading"} = Upto(H, b)
    BY <2>1 DEF Upto, Kinds
  <2>3. home = Cardinality({c \in 1..b : blocks[c].kind = "heading"})
    BY DEF Home
  <2> QED
    BY <2>2, <2>3
<1>6. b \in Nat
  OBVIOUS
<1> HIDE DEF H, home, n
<1>7. home \in 0..n /\ \A k \in 1..n : Headings(blocks)[k] <= b <=> k <= home
  BY <1>2, <1>3, <1>5, <1>6, RankFacts
<1>8. ASSUME NEW k \in 1..n PROVE Covers(blocks, k, b) <=> home = k
  <2>1. Covers(blocks, k, b) <=> k <= home /\ (k < n => ~(k + 1 <= home))
    <3>1. Headings(blocks)[k] <= b <=> k <= home
      BY <1>7
    <3>2. ASSUME k < n
          PROVE  Headings(blocks)[k + 1] <= b <=> k + 1 <= home
      <4>1. k + 1 \in 1..n
        BY <1>4, <3>2
      <4> QED
        BY <1>7, <4>1
    <3> QED
      BY <3>1, <3>2 DEF Covers, n
  <2> QED
    BY <1>4, <1>7, <2>1
<1> QED
  BY <1>4, <1>7, <1>8 DEF home, n

\* A section consists of paragraphs, and begins with a heading.
LEMMA SectionParts ==
  ASSUME NEW blocks \in Seq(Block), NEW k \in 1..Len(Headings(blocks))
  PROVE  /\ Section(blocks, k) \in Seq(DOMAIN blocks)
         /\ Headings(blocks)[k] \in DOMAIN blocks
<1>1. /\ Headings(blocks) \in Seq(DOMAIN blocks)
      /\ Range(Paragraphs(blocks)) \subseteq DOMAIN blocks
  BY PartFacts DEF Headings, Paragraphs, Kinds
<1>2. ASSUME NEW Q \in SUBSET Range(Paragraphs(blocks))
      PROVE  Sorted(Q) \in Seq(DOMAIN blocks)
  <2>1. Q \in SUBSET (DOMAIN blocks)
    BY <1>1
  <2> QED
    BY <2>1, BlockFacts
<1>3. Section(blocks, k) \in Seq(DOMAIN blocks)
  BY <1>2 DEF Section
<1> QED
  BY <1>1, <1>3

\* The headings stand in their order; each is at home in its own section and
\* reads as itself.
LEMMA HeadingFacts ==
  ASSUME NEW blocks \in Seq(Block), Headings(blocks) # <<>>,
         NEW k \in 1..Len(Headings(blocks))
  PROVE  LET hs == Headings(blocks)
             n == Len(hs)
             m == Len(blocks)
         IN  /\ n \in Nat /\ m \in Nat /\ DOMAIN blocks = 1..m /\ DOMAIN hs = 1..n
             /\ hs[k] \in 1..m /\ hs[k] \in Reads(blocks, k)
             /\ k < n => /\ hs[k + 1] \in 1..m /\ hs[k] < hs[k + 1]
                         /\ hs[k + 1] \in Reads(blocks, k + 1)
             /\ ~(k < n) => Reads(blocks, k + 1) = {}
             /\ \A j \in 1..n : Reads(blocks, j) \subseteq 1..m
             /\ Home(blocks, "word", hs[k]) = k
<1> DEFINE hs == Headings(blocks)
           n  == Len(hs)
           m  == Len(blocks)
           H  == Kinds(blocks, {"heading"})
<1>1. /\ hs \in Seq(DOMAIN blocks) /\ n \in Nat /\ DOMAIN hs = 1..n
      /\ Range(hs) = H /\ hs = Sorted(H) /\ n = Cardinality(H)
  BY PartFacts DEF Headings
<1>2. /\ m \in Nat /\ DOMAIN blocks = 1..m
      /\ Range(Paragraphs(blocks)) = Kinds(blocks, {"heading", "text"})
  BY PartFacts DEF Paragraphs
<1>3. \A j \in 1..n : /\ hs[j] \in 1..m /\ hs[j] \in Nat /\ hs[j] \in DOMAIN blocks
                      /\ hs[j] \in Range(Paragraphs(blocks))
  <2>1. \A j \in 1..n : hs[j] \in H
    BY <1>1 DEF Range
  <2> QED
    BY <1>2, <2>1 DEF Kinds
<1>4. \A j \in 1..n : hs[j] \in Reads(blocks, j) /\ Reads(blocks, j) \subseteq 1..m
  BY <1>1, <1>2, <1>3 DEF Reads, Kinds
<1>5. ~(k < n) => Reads(blocks, k + 1) = {}
  BY <1>1 DEF Reads
<1>6. H \in SUBSET Nat /\ IsFiniteSet(H)
  <2>1. H \in SUBSET (DOMAIN blocks)
    BY DEF Kinds
  <2> QED
    BY <2>1, BlockFacts
<1>7. ASSUME NEW j \in 1..n PROVE hs[j] <= hs[k] <=> j <= k
  <2>1. Cardinality(Upto(H, hs[k])) = k
    BY <1>1, <1>6, SortedFacts
  <2>2. hs[k] \in Nat
    BY <1>3
  <2> HIDE DEF H, hs, n
  <2> QED
    BY <1>1, <1>6, <1>7, <2>1, <2>2, RankFacts
<1>8. ASSUME k < n PROVE hs[k + 1] \in 1..m /\ hs[k] < hs[k + 1]
  <2>1. k + 1 \in 1..n /\ ~(k + 1 <= k)
    BY <1>1, <1>8
  <2>2. ~(hs[k + 1] <= hs[k])
    BY <1>7, <2>1
  <2>3. hs[k] \in Nat /\ hs[k + 1] \in Nat /\ hs[k + 1] \in 1..m
    BY <1>3, <2>1
  <2> HIDE DEF hs, n
  <2> QED
    BY <2>2, <2>3
<1>9. k < n => hs[k + 1] \in Reads(blocks, k + 1)
  <2>1. k < n => k + 1 \in 1..n
    BY <1>1
  <2> QED
    BY <1>4, <2>1
<1>10. Covers(blocks, k, hs[k])
  <2>1. hs[k] \in Nat /\ (k < n => hs[k + 1] \in Nat)
    BY <1>2, <1>3, <1>8
  <2> HIDE DEF hs, n
  <2> QED
    BY <1>8, <2>1 DEF Covers, hs, n
<1>11. Home(blocks, "word", hs[k]) = k
  BY <1>3, <1>10, HomeInWord
<1> QED
  BY <1>1, <1>2, <1>3, <1>4, <1>5, <1>8, <1>9, <1>11

\* A section has the paragraphs that are at home in it, unless its heading or
\* the next one is repeated by a paragraph.
LEMMA SectionFacts ==
  ASSUME NEW blocks \in Seq(Block), Headings(blocks) # <<>>,
         NEW k \in 1..Len(Headings(blocks)), NEW b \in DOMAIN blocks
  PROVE  /\ b \in Range(Section(blocks, k))
              => \/ Home(blocks, "word", b) = k
                 \/ OpenedAgain(blocks, "word", k, b)
         /\ Home(blocks, "word", b) = k /\ blocks[b].kind \in {"heading", "text"}
              => \/ b \in Range(Section(blocks, k))
                 \/ ClosedEarly(blocks, "word", k, b)
<1> DEFINE hs == Headings(blocks)
           n  == Len(hs)
           m  == Len(blocks)
           P  == Kinds(blocks, {"heading", "text"})
           same == Reads(blocks, k)
           next == Reads(blocks, k + 1)
           Before(x) == {c \in same \cup next : c <= x}
           LastOf(x) == IF Before(x) = {} THEN 0 ELSE Max(Before(x))
           Q == {x \in P : LastOf(x) \in same}
           S == Before(b)
           l == LastOf(b)
<1>1. Section(blocks, k) = Sorted(Q)
  <2>1. Range(Paragraphs(blocks)) = P
    BY PartFacts DEF Paragraphs
  <2> QED
    BY <2>1 DEF Section
<1>2. Q \in SUBSET (DOMAIN blocks)
  BY DEF Kinds
<1>3. b \in Range(Section(blocks, k)) <=> b \in P /\ l \in same
  <2>1. b \in Q <=> b \in P /\ l \in same
    OBVIOUS
  <2> HIDE DEF Q
  <2>2. Range(Sorted(Q)) = Q
    BY <1>2, BlockFacts
  <2> HIDE DEF P, l, same
  <2> QED
    BY <1>1, <2>1, <2>2
<1>4. /\ n \in Nat /\ m \in Nat /\ DOMAIN blocks = 1..m
      /\ hs[k] \in 1..m /\ hs[k] \in same
      /\ k < n => hs[k + 1] \in 1..m /\ hs[k] < hs[k + 1] /\ hs[k + 1] \in next
      /\ ~(k < n) => next = {}
      /\ same \subseteq 1..m
  BY HeadingFacts
<1>5. next \subseteq 1..m
  <2>1. k < n => k + 1 \in 1..n
    BY <1>4
  <2> QED
    BY <1>4, <2>1, HeadingFacts
<1>6. Covers(blocks, k, b) <=> hs[k] <= b /\ (k < n => ~(hs[k + 1] <= b))
  BY DEF Covers
<1>7. Covers(blocks, k, b) <=> Home(blocks, "word", b) = k
  BY HomeInWord
<1>8. b \in 1..m
  BY <1>4
<1>9. b \in P <=> blocks[b].kind \in {"heading", "text"}
  BY DEF Kinds
<1> HIDE DEF same, next, Q, n, m
<1>10. S \subseteq 1..m /\ \A c : c \in S <=> c \in same \cup next /\ c <= b
  BY <1>4, <1>5
<1>11. /\ S # {} => l \in S /\ \A y \in S : y <= l
       /\ S = {} => l = 0
  <2>1. S \in SUBSET (0..m)
    BY <1>4, <1>10
  <2> HIDE DEF S
  <2>2. S # {} => Max(S) \in S /\ \A y \in S : y <= Max(S)
    BY <1>4, <2>1, MaxFacts
  <2> QED
    BY <2>2 DEF S
<1> HIDE DEF S, l
<1>12. ASSUME l \in same
       PROVE  Home(blocks, "word", b) = k \/ OpenedAgain(blocks, "word", k, b)
  <2>1. l \in S /\ l \in 1..b
    <3>1. l \in 1..m
      BY <1>4, <1>12
    <3>2. l \in S
      BY <1>11, <3>1
    <3> QED
      BY <1>8, <1>10, <3>1, <3>2
  <2>2. CASE l # hs[k]
    <3>1. Repeats(blocks, k, l)
      BY <1>12, <2>2 DEF Repeats, same
    <3> QED
      BY <2>1, <3>1 DEF OpenedAgain
  <2>3. CASE l = hs[k]
    <3>1. hs[k] <= b
      BY <1>10, <2>1, <2>3
    <3>2. ASSUME k < n, hs[k + 1] <= b PROVE FALSE
      <4>1. hs[k + 1] \in S /\ hs[k] < hs[k + 1]
        BY <1>4, <1>10, <3>2
      <4>2. hs[k + 1] <= hs[k]
        BY <1>11, <2>3, <4>1
      <4>3. hs[k] \in Nat /\ hs[k + 1] \in Nat
        BY <1>4, <3>2
      <4> HIDE DEF hs
      <4> QED
        BY <4>1, <4>2, <4>3
    <3> QED
      BY <1>6, <1>7, <3>1, <3>2
  <2> QED
    BY <2>2, <2>3
<1>13. ASSUME Home(blocks, "word", b) = k, l \notin same
       PROVE  ClosedEarly(blocks, "word", k, b)
  <2>1. hs[k] <= b /\ (k < n => ~(hs[k + 1] <= b))
    BY <1>6, <1>7, <1>13
  <2>2. hs[k] \in S
    BY <1>4, <1>10, <2>1
  <2>3. l \in S /\ hs[k] <= l
    BY <1>11, <2>2
  <2>4. l \in next /\ l \in 1..m /\ l <= b
    BY <1>10, <1>13, <2>3
  <2>5. k < n /\ hs[k + 1] \in 1..m /\ ~(hs[k + 1] <= b)
    BY <1>4, <2>1, <2>4
  <2>6. l \in 1..b
    BY <1>8, <2>4
  <2>7. Repeats(blocks, k + 1, l)
    <3>1. l # hs[k + 1]
      BY <2>4, <2>5
    <3> QED
      BY <2>4, <3>1 DEF Repeats, next
  <2>8. Covers(blocks, k, l)
    <3>1. ~(hs[k + 1] <= l)
      <4>1. l \in Nat /\ b \in Nat /\ hs[k + 1] \in Nat
        BY <1>4, <1>8, <2>4, <2>5
      <4> HIDE DEF hs
      <4> QED
        BY <2>4, <2>5, <4>1
    <3> QED
      BY <2>3, <3>1 DEF Covers
  <2>9. Home(blocks, "word", l) = k
    <3>1. l \in DOMAIN blocks
      BY <1>4, <2>4
    <3> QED
      BY <2>8, <3>1, HomeInWord
  <2> QED
    BY <2>6, <2>7, <2>9 DEF ClosedEarly
<1> QED
  BY <1>3, <1>9, <1>12, <1>13

TableOf(blocks, format, b) == format = "word" /\ blocks[b].kind = "table"

\* Block b and the text of unit k: what gets in, and what must be in.
MayHave(blocks, format, k, b) ==
  \/ Home(blocks, format, b) = k
  \/ TableOf(blocks, format, b)
  \/ OpenedAgain(blocks, format, k, b)

MustHave(blocks, format, k, b) ==
  /\ Home(blocks, format, b) = k
  /\ blocks[b].kind \in UnitKinds(format)
  /\ ~ClosedEarly(blocks, format, k, b)

LEMMA WordTexts ==
  ASSUME NEW blocks \in Seq(Block), Headings(blocks) # <<>>
  PROVE  LET us == WordUnits(blocks)
         IN  /\ DOMAIN us = 1..Len(Headings(blocks))
             /\ \A k \in DOMAIN us :
                  /\ us[k].text \in Seq(DOMAIN blocks)
                  /\ \A b \in DOMAIN blocks :
                       /\ b \in Range(us[k].text) => MayHave(blocks, "word", k, b)
                       /\ MustHave(blocks, "word", k, b) => b \in Range(us[k].text)
<1> DEFINE us == WordUnits(blocks)
           hs == Headings(blocks)
           tables == Tables(blocks)
           Table(k) == IF k <= Len(tables) THEN <<tables[k]>> ELSE <<>>
<1>1. hs \in Seq(DOMAIN blocks) /\ DOMAIN hs = 1..Len(hs)
  BY PartFacts DEF Headings
<1>2. tables \in Seq(DOMAIN blocks) /\ Range(tables) = Kinds(blocks, {"table"})
  BY PartFacts DEF Tables
<1>3. DOMAIN us = 1..Len(hs)
  BY <1>1 DEF WordUnits
<1>4. ASSUME NEW k \in 1..Len(hs)
      PROVE  /\ us[k].text \in Seq(DOMAIN blocks)
             /\ Range(us[k].text)
                  = {hs[k]} \cup Range(Section(blocks, k)) \cup Range(Table(k))
  <2>1. us[k].text = <<hs[k]>> \o Section(blocks, k) \o Table(k)
    BY <1>1 DEF WordUnits, Unit
  <2>2. Section(blocks, k) \in Seq(DOMAIN blocks)
    BY SectionParts
  <2>3. hs[k] \in DOMAIN blocks
    BY SectionParts
  <2>5. Table(k) \in Seq(DOMAIN blocks)
    <3>1. k \in Nat /\ k >= 1
      BY <1>1
    <3> HIDE DEF tables
    <3>2. /\ \A i \in 1..Len(tables) : tables[i] \in DOMAIN blocks
          /\ Len(tables) \in Nat
      BY <1>2
    <3>3. k <= Len(tables) => k \in 1..Len(tables)
      BY <3>1, <3>2
    <3>4. k <= Len(tables) => tables[k] \in DOMAIN blocks
      BY <3>2, <3>3
    <3> DEFINE x == tables[k]
    <3>5. x \in DOMAIN blocks => <<x>> \in Seq(DOMAIN blocks)
      OBVIOUS
    <3>6. <<>> \in Seq(DOMAIN blocks)
      OBVIOUS
    <3> QED
      BY <3>4, <3>5, <3>6
  <2>6. <<hs[k]>> \in Seq(DOMAIN blocks) /\ Range(<<hs[k]>>) = {hs[k]}
    BY <2>3 DEF Range
  <2> DEFINE h == <<hs[k]>>
             sec == Section(blocks, k)
             tab == Table(k)
  <2> HIDE DEF h, sec, tab
  <2>7. /\ h \in Seq(DOMAIN blocks) /\ sec \in Seq(DOMAIN blocks)
        /\ tab \in Seq(DOMAIN blocks)
    BY <2>2, <2>5, <2>6 DEF h, sec, tab
  <2> DEFINE two == h \o sec
  <2>8. two \in Seq(DOMAIN blocks) /\ Range(two) = Range(h) \cup Range(sec)
    BY <2>7, ConcatProperties, RangeConcatenation
  <2>9. us[k].text = two \o tab
    BY <2>1 DEF h, sec, tab
  <2> HIDE DEF two
  <2>10. /\ two \o tab \in Seq(DOMAIN blocks)
         /\ Range(two \o tab) = Range(two) \cup Range(tab)
    BY <2>7, <2>8, ConcatProperties, RangeConcatenation
  <2>11. Range(h) = {hs[k]}
    BY <2>6 DEF h
  <2> QED
    BY <2>8, <2>9, <2>10, <2>11 DEF sec, tab
<1>5. ASSUME NEW k \in 1..Len(hs), NEW b \in Range(Table(k)), b \in DOMAIN blocks
      PROVE  TableOf(blocks, "word", b)
  <2>1. k <= Len(tables) /\ b = tables[k]
    BY <1>5 DEF Range
  <2>2. b \in Range(tables)
    <3>1. Len(hs) \in Nat /\ k \in Nat /\ k >= 1
      BY <1>1
    <3> QED
      BY <1>2, <2>1, <3>1 DEF Range
  <2> QED
    BY <1>2, <2>2 DEF Kinds, TableOf
<1>6. ASSUME NEW k \in 1..Len(hs), NEW b \in DOMAIN blocks
      PROVE  /\ b \in Range(us[k].text) => MayHave(blocks, "word", k, b)
             /\ MustHave(blocks, "word", k, b) => b \in Range(us[k].text)
  <2>1. /\ b \in Range(Section(blocks, k))
             => Home(blocks, "word", b) = k \/ OpenedAgain(blocks, "word", k, b)
        /\ Home(blocks, "word", b) = k /\ blocks[b].kind \in {"heading", "text"}
             => b \in Range(Section(blocks, k)) \/ ClosedEarly(blocks, "word", k, b)
    BY SectionFacts
  <2>2. Home(blocks, "word", hs[k]) = k
    BY HeadingFacts
  <2>3. b \in Range(Table(k)) => TableOf(blocks, "word", b)
    BY <1>5
  <2>4. UnitKinds("word") = {"heading", "text"}
    BY DEF UnitKinds
  <2> HIDE DEF us, hs, Table
  <2> QED
    BY <1>4, <2>1, <2>2, <2>3, <2>4 DEF MayHave, MustHave
<1> HIDE DEF us, hs
<1> QED
  BY <1>3, <1>4, <1>6 DEF us, hs

LEMMA WholeText ==
  ASSUME NEW blocks \in Seq(Block), Headings(blocks) = <<>>
  PROVE  LET us == WholeDocument(blocks)
         IN  /\ DOMAIN us = {1} /\ us[1].text \in Seq(DOMAIN blocks)
             /\ \A b \in DOMAIN blocks :
                  blocks[b].kind \in {"heading", "text"} => b \in Range(us[1].text)
<1> DEFINE A == Of(blocks, {"heading", "text"})
           B == Of(blocks, {"table", "rest"})
<1>1. /\ DOMAIN WholeDocument(blocks) = {1}
      /\ WholeDocument(blocks)[1].text = A \o B
  BY DEF WholeDocument, Unit
<1>2. /\ A \in Seq(DOMAIN blocks) /\ B \in Seq(DOMAIN blocks)
      /\ Range(A) = Kinds(blocks, {"heading", "text"})
  BY PartFacts
<1> HIDE DEF A, B
<1>3. A \o B \in Seq(DOMAIN blocks) /\ Range(A \o B) = Range(A) \cup Range(B)
  BY <1>2, ConcatProperties, RangeConcatenation
<1> QED
  BY <1>1, <1>2, <1>3 DEF Kinds

LEMMA PlacedTexts ==
  ASSUME NEW blocks \in Seq(Block), NEW source, NEW first, NEW second, NEW usable,
         NEW format, format # "word"
  PROVE  LET us == PlacedUnits(blocks, source, first, second, usable)
         IN  /\ \E n \in Nat : DOMAIN us = 1..n
             /\ \A k \in DOMAIN us : us[k].text \in Seq(DOMAIN blocks)
             /\ \A b \in DOMAIN blocks :
                  /\ Home(blocks, format, b) \in DOMAIN us
                  /\ \A k \in DOMAIN us :
                       b \in Range(us[k].text)
                         <=> /\ blocks[b].kind \in first \cup second
                             /\ Home(blocks, format, b) = k
<1> DEFINE us == PlacedUnits(blocks, source, first, second, usable)
           S == {blocks[b].place : b \in DOMAIN blocks}
           places == Sorted(S)
           n == Cardinality(S)
           On(p, kinds) == {b \in DOMAIN blocks : /\ blocks[b].place = p
                                                  /\ blocks[b].kind \in kinds}
<1>1. \A b \in DOMAIN blocks : blocks[b].place \in Nat
  <2>1. \A b \in DOMAIN blocks : blocks[b] \in Block
    OBVIOUS
  <2> QED
    BY <2>1 DEF Block
<1>2. S \in SUBSET Nat /\ IsFiniteSet(S)
  <2>1. IsFiniteSet(DOMAIN blocks)
    BY BlockFacts
  <2> DEFINE f == [b \in DOMAIN blocks |-> blocks[b].place]
  <2>2. f \in Surjection(DOMAIN blocks, S)
    BY DEF Surjection
  <2>3. IsFiniteSet(S)
    BY <2>1, <2>2, FS_Surjection
  <2> QED
    BY <1>1, <2>3
<1>3. /\ n \in Nat /\ DOMAIN places = 1..n
      /\ \A i \in 1..n : places[i] \in S /\ Cardinality(Upto(S, places[i])) = i
      /\ \A x \in S : /\ Cardinality(Upto(S, x)) \in 1..n
                      /\ places[Cardinality(Upto(S, x))] = x
  BY <1>2, SortedFacts
<1>4. DOMAIN us = 1..n
  BY <1>3 DEF PlacedUnits
<1>5. ASSUME NEW k \in 1..n
      PROVE  us[k].text = Sorted(On(places[k], first)) \o Sorted(On(places[k], second))
  BY <1>3, <1>5 DEF PlacedUnits, Unit
<1>6. ASSUME NEW k \in 1..n
      PROVE  /\ us[k].text \in Seq(DOMAIN blocks)
             /\ Range(us[k].text) = On(places[k], first \cup second)
  <2> DEFINE A == On(places[k], first)
             B == On(places[k], second)
  <2>1. A \in SUBSET (DOMAIN blocks) /\ B \in SUBSET (DOMAIN blocks)
    OBVIOUS
  <2>2. A \cup B = On(places[k], first \cup second)
    OBVIOUS
  <2>3. us[k].text = Sorted(A) \o Sorted(B)
    BY <1>5
  <2> HIDE DEF A, B
  <2>4. /\ Sorted(A) \in Seq(DOMAIN blocks) /\ Range(Sorted(A)) = A
        /\ Sorted(B) \in Seq(DOMAIN blocks) /\ Range(Sorted(B)) = B
    BY <2>1, BlockFacts
  <2>5. /\ Sorted(A) \o Sorted(B) \in Seq(DOMAIN blocks)
        /\ Range(Sorted(A) \o Sorted(B)) = Range(Sorted(A)) \cup Range(Sorted(B))
    BY <2>4, ConcatProperties, RangeConcatenation
  <2> QED
    BY <2>2, <2>3, <2>4, <2>5
<1>7. ASSUME NEW b \in DOMAIN blocks
      PROVE  Home(blocks, format, b) = Cardinality(Upto(S, blocks[b].place))
  <2>1. {blocks[c].place : c \in {d \in DOMAIN blocks :
                                    blocks[d].place <= blocks[b].place}}
          = Upto(S, blocks[b].place)
    BY DEF Upto
  <2>2. Home(blocks, format, b)
          = Cardinality({blocks[c].place : c \in {d \in DOMAIN blocks :
                                    blocks[d].place <= blocks[b].place}})
    BY DEF Home
  <2> QED
    BY <2>1, <2>2
<1>8. ASSUME NEW b \in DOMAIN blocks, NEW k \in 1..n
      PROVE  places[k] = blocks[b].place <=> Home(blocks, format, b) = k
  <2>1. blocks[b].place \in S
    OBVIOUS
  <2> QED
    BY <1>3, <1>7, <2>1
<1>9. ASSUME NEW b \in DOMAIN blocks PROVE Home(blocks, format, b) \in 1..n
  <2>1. blocks[b].place \in S
    OBVIOUS
  <2> QED
    BY <1>3, <1>7, <2>1
<1>10. ASSUME NEW b \in DOMAIN blocks, NEW k \in 1..n
       PROVE  b \in Range(us[k].text)
                <=> /\ blocks[b].kind \in first \cup second
                    /\ Home(blocks, format, b) = k
  BY <1>6, <1>8
<1> HIDE DEF us, n
<1> QED
  BY <1>3, <1>4, <1>6, <1>9, <1>10 DEF us

\* Nothing but a Word file without headings is a unit as a whole.
LEMMA UnitsFacts ==
  ASSUME NEW blocks \in Seq(Block), NEW format \in Formats
  PROVE  IF format = "word"
         THEN Units(blocks, format) = IF Headings(blocks) = <<>>
                                      THEN WholeDocument(blocks) ELSE WordUnits(blocks)
         ELSE \/ Units(blocks, format) = Cut(blocks, format)
              \/ Headings(blocks) = <<>> /\ Units(blocks, format) = WholeDocument(blocks)
<1>1. DOMAIN Headings(blocks) = 1..Len(Headings(blocks))
  BY PartFacts DEF Headings
<1>2. ASSUME format = "word", Headings(blocks) = <<>>
      PROVE  Cut(blocks, format) = <<>>
  <2>1. Cut(blocks, format) = WordUnits(blocks)
    BY <1>2 DEF Cut
  <2>2. DOMAIN Headings(blocks) = {}
    BY <1>2
  <2> QED
    BY <2>1, <2>2 DEF WordUnits
<1>3. ASSUME format = "word", Headings(blocks) # <<>>
      PROVE  Cut(blocks, format) = WordUnits(blocks) /\ WordUnits(blocks) # <<>>
  <2>1. DOMAIN WordUnits(blocks) = 1..Len(Headings(blocks))
    BY <1>3, WordTexts
  <2>2. Len(Headings(blocks)) \in Nat /\ Len(Headings(blocks)) # 0
    BY <1>3, PartFacts DEF Headings
  <2>3. 1 \in DOMAIN WordUnits(blocks)
    BY <2>1, <2>2
  <2>4. 1 \notin DOMAIN <<>>
    OBVIOUS
  <2> QED
    BY <1>3, <2>3, <2>4 DEF Cut
<1>4. ASSUME format # "word", Cut(blocks, format) = <<>>
      PROVE  Headings(blocks) = <<>>
  <2>1. PICK source, first, second, usable :
          Cut(blocks, format) = PlacedUnits(blocks, source, first, second, usable)
    BY <1>4 DEF Formats, Cut, SheetUnits, SlideUnits, PageUnits
  <2>2. \A b \in DOMAIN blocks : Home(blocks, format, b) \in DOMAIN Cut(blocks, format)
    BY <1>4, <2>1, PlacedTexts
  <2>3. DOMAIN blocks = {}
    BY <1>4, <2>2
  <2>4. Headings(blocks) \in Seq(DOMAIN blocks)
    BY PartFacts DEF Headings
  <2> QED
    BY <2>3, <2>4
<1> QED
  BY <1>2, <1>3, <1>4 DEF Units

(***************************************************************************)
(* What the units of a document say is what a reader of the file would say *)
(* they say.  A unit has nothing but blocks that are at home in it, tables *)
(* of a Word file by their number, and what follows a paragraph that reads *)
(* as its heading; it has every block at home in it of a kind that units   *)
(* of the format are made of, unless a paragraph before that block reads   *)
(* as the next heading.                                                    *)
(***************************************************************************)
THEOREM TextIsAtHome ==
  ASSUME NEW blocks \in Seq(Block), NEW format \in Formats
  PROVE  LET us == Units(blocks, format)
         IN  /\ \E n \in Nat : DOMAIN us = 1..n
             /\ \A k \in DOMAIN us : us[k].text \in Seq(DOMAIN blocks)
             /\ \A b \in DOMAIN blocks :
                  /\ Home(blocks, format, b) \in DOMAIN us \cup {0}
                  /\ \A k \in DOMAIN us :
                       /\ b \in Range(us[k].text) => MayHave(blocks, format, k, b)
                       /\ MustHave(blocks, format, k, b) => b \in Range(us[k].text)
<1> DEFINE us == Units(blocks, format)
<1>1. CASE format # "word" /\ us = Cut(blocks, format)
  <2>1. PICK source, first, second, usable :
          /\ Cut(blocks, format) = PlacedUnits(blocks, source, first, second, usable)
          /\ first \cup second = UnitKinds(format)
    <3>1. format \in {"pages", "sheets", "slides"}
      BY <1>1 DEF Formats
    <3>2. CASE format = "pages"
      <4>1. /\ Cut(blocks, format) = PlacedUnits(blocks, "page_title",
                                       {"heading", "text"}, {"table"}, Short)
            /\ {"heading", "text"} \cup {"table"} = UnitKinds(format)
        BY <3>2 DEF Cut, PageUnits, UnitKinds
      <4> QED
        BY <4>1
    <3>3. CASE format = "sheets"
      <4>1. /\ Cut(blocks, format) = PlacedUnits(blocks, "sheet_name",
                                       {"heading"}, {"table"}, Texts)
            /\ {"heading"} \cup {"table"} = UnitKinds(format)
        BY <3>3 DEF Cut, SheetUnits, UnitKinds
      <4> QED
        BY <4>1
    <3>4. CASE format = "slides"
      <4>1. /\ Cut(blocks, format) = PlacedUnits(blocks, "slide_title",
                                       {"heading", "text"}, {}, Texts)
            /\ {"heading", "text"} \cup {} = UnitKinds(format)
        BY <3>4 DEF Cut, SlideUnits, UnitKinds
      <4> QED
        BY <4>1
    <3> QED
      BY <3>1, <3>2, <3>3, <3>4
  <2>2. /\ \E n \in Nat : DOMAIN us = 1..n
        /\ \A k \in DOMAIN us : us[k].text \in Seq(DOMAIN blocks)
        /\ \A b \in DOMAIN blocks :
             /\ Home(blocks, format, b) \in DOMAIN us
             /\ \A k \in DOMAIN us :
                  b \in Range(us[k].text) <=> /\ blocks[b].kind \in UnitKinds(format)
                                              /\ Home(blocks, format, b) = k
    <3> DEFINE placed == PlacedUnits(blocks, source, first, second, usable)
    <3>1. /\ \E n \in Nat : DOMAIN placed = 1..n
          /\ \A k \in DOMAIN placed : placed[k].text \in Seq(DOMAIN blocks)
          /\ \A b \in DOMAIN blocks :
               /\ Home(blocks, format, b) \in DOMAIN placed
               /\ \A k \in DOMAIN placed :
                    b \in Range(placed[k].text)
                      <=> /\ blocks[b].kind \in first \cup second
                          /\ Home(blocks, format, b) = k
      BY <1>1, PlacedTexts
    <3>2. us = placed /\ first \cup second = UnitKinds(format)
      BY <1>1, <2>1
    <3> HIDE DEF us, placed
    <3> QED
      BY <3>1, <3>2
  <2> HIDE DEF us
  <2> QED
    BY <2>2 DEF MayHave, MustHave, us
<1>2. CASE format = "word" /\ Headings(blocks) # <<>>
  <2>1. us = WordUnits(blocks)
    BY <1>2, UnitsFacts
  <2>2. \A b \in DOMAIN blocks :
          Home(blocks, "word", b) \in 0..Len(Headings(blocks))
    BY <1>2, HomeInWord
  <2>3. Len(Headings(blocks)) \in Nat
    BY PartFacts DEF Headings
  <2>4. 0..Len(Headings(blocks)) \subseteq 1..Len(Headings(blocks)) \cup {0}
    BY <2>3
  <2> QED
    BY <1>2, <2>1, <2>2, <2>3, <2>4, WordTexts
<1>3. CASE /\ Headings(blocks) = <<>> /\ us = WholeDocument(blocks)
           /\ format = "word" \/ us # Cut(blocks, format)
  <2>1. /\ DOMAIN us = {1} /\ us[1].text \in Seq(DOMAIN blocks)
        /\ \A b \in DOMAIN blocks :
             blocks[b].kind \in {"heading", "text"} => b \in Range(us[1].text)
    BY <1>3, WholeText
  <2>2. \A b \in DOMAIN blocks : format = "word"
    <3> SUFFICES ASSUME format # "word", NEW b \in DOMAIN blocks PROVE FALSE
      OBVIOUS
    <3>1. Cut(blocks, format) = <<>>
      BY <1>3 DEF Units
    <3>2. PICK source, first, second, usable :
            Cut(blocks, format) = PlacedUnits(blocks, source, first, second, usable)
      BY DEF Formats, Cut, SheetUnits, SlideUnits, PageUnits
    <3>3. Home(blocks, format, b) \in DOMAIN Cut(blocks, format)
      BY <3>2, PlacedTexts
    <3> QED
      BY <3>1, <3>3
  <2>3. \A b \in DOMAIN blocks : Home(blocks, format, b) = 1
    BY <1>3, <2>2 DEF Home
  <2>4. 1 \in Nat /\ {1} = 1..1
    OBVIOUS
  <2>5. format = "word" => UnitKinds(format) = {"heading", "text"}
    BY DEF UnitKinds
  <2> HIDE DEF us
  <2> QED
    BY <2>1, <2>2, <2>3, <2>4, <2>5 DEF MayHave, MustHave, us
<1> QED
  BY <1>1, <1>2, <1>3, UnitsFacts

-----------------------------------------------------------------------------
\* What is cut off a text.
LEMMA PrefixFacts ==
  ASSUME NEW S, NEW text \in Seq(S), NEW n \in Nat
  PROVE  /\ Prefix(text, n) \in Seq(S) /\ Len(Prefix(text, n)) <= n
         /\ Range(Prefix(text, n)) \subseteq Range(text)
         /\ Len(text) <= n => Prefix(text, n) = text
<1>1. CASE n < Len(text)
  <2>1. Prefix(text, n) = SubSeq(text, 1, n)
    BY <1>1 DEF Prefix
  <2>2. \A i \in 1..n : i \in DOMAIN text /\ text[i] \in S
    BY <1>1
  <2> DEFINE p == SubSeq(text, 1, n)
  <2>3. /\ p \in Seq(S) /\ Len(p) = n
        /\ \A i \in 1..n : p[i] = text[i]
    BY <2>2, SubSeqProperties
  <2> HIDE DEF p
  <2>4. Range(p) \subseteq Range(text)
    BY <2>2, <2>3 DEF Range
  <2> QED
    BY <1>1, <2>1, <2>3, <2>4 DEF p
<1>2. CASE ~(n < Len(text))
  BY <1>2 DEF Prefix
<1> QED
  BY <1>1, <1>2

\* What a text makes of the evidence collected so far.
LEMMA CollectedFacts ==
  ASSUME NEW S, NEW got \in Seq(S), NEW text \in Seq(S), Len(got) <= MaxPrimary
  PROVE  LET now == got \o Prefix(Prefix(text, MaxUnit), MaxPrimary - Len(got))
         IN  /\ now \in Seq(S) /\ Len(now) <= MaxPrimary
             /\ Range(got) \subseteq Range(now)
             /\ Range(now) \subseteq Range(got) \cup Range(text)
             /\ Len(text) <= MaxUnit /\ Len(got) + Len(text) <= MaxPrimary
                  => /\ Len(now) = Len(got) + Len(text)
                     /\ Range(text) \subseteq Range(now)
<1> DEFINE room == MaxPrimary - Len(got)
           chunk == Prefix(text, MaxUnit)
           part == Prefix(chunk, room)
           now == got \o part
<1>1. room \in Nat /\ MaxUnit \in Nat /\ Len(got) \in Nat /\ Len(text) \in Nat
  BY LimitsAssumption
<1> HIDE DEF room
<1>2. /\ chunk \in Seq(S) /\ Range(chunk) \subseteq Range(text)
      /\ Len(text) <= MaxUnit => chunk = text
  BY <1>1, PrefixFacts
<1> HIDE DEF chunk
<1>3. /\ part \in Seq(S) /\ Len(part) <= room
      /\ Range(part) \subseteq Range(chunk)
      /\ Len(chunk) <= room => part = chunk
  BY <1>1, <1>2, PrefixFacts
<1> HIDE DEF part
<1>4. /\ now \in Seq(S) /\ Len(now) = Len(got) + Len(part)
      /\ Range(now) = Range(got) \cup Range(part)
  BY <1>3, ConcatProperties, RangeConcatenation
<1> HIDE DEF now
<1>5. Len(now) <= MaxPrimary
  BY <1>1, <1>3, <1>4, LimitsAssumption DEF room
<1>6. ASSUME Len(text) <= MaxUnit, Len(got) + Len(text) <= MaxPrimary
      PROVE  Len(now) = Len(got) + Len(text) /\ Range(text) \subseteq Range(now)
  <2>1. chunk = text /\ Len(text) <= room
    BY <1>1, <1>2, <1>6, LimitsAssumption DEF room
  <2>2. part = text
    BY <1>3, <2>1
  <2> QED
    BY <1>4, <2>2
<1> QED
  BY <1>2, <1>3, <1>4, <1>5, <1>6 DEF now, part, chunk, room

\* the validation has gone over unit k
Read(k) == pass = "done" \/ k < cursor

Collected(e) ==
  /\ Len(evidence[e]) <= MaxPrimary
  /\ \A b \in Range(evidence[e]) :
       \E k \in DOMAIN tags : tags[k].element = e /\ b \in Range(units[k].text)
  /\ Fits(e) =>
       /\ Len(evidence[e]) = size[e]
       /\ \A k \in DOMAIN tags :
            Read(k) /\ tags[k].element = e
              => Range(units[k].text) \subseteq Range(evidence[e])

NothingYet == \A e \in Elements : evidence[e] = <<>> /\ size[e] = 0

EvidenceInv ==
  /\ units = Units(doc.blocks, doc.format)
  /\ evidence \in [Elements -> Seq(DOMAIN doc.blocks)]
  /\ size \in [Elements -> Nat]
  /\ pass \notin {"collect", "done"} => NothingYet
  /\ pass \in {"collect", "done"} => \A e \in Elements : Collected(e)

\* The texts of the units are blocks of the document.
LEMMA TextFacts ==
  ASSUME TagInv, EvidenceInv
  PROVE  /\ doc.blocks \in Seq(Block) /\ doc.format \in Formats
         /\ \A k \in DOMAIN units : units[k].text \in Seq(DOMAIN doc.blocks)
<1>1. doc.blocks \in Seq(Block) /\ doc.format \in Formats
  BY DocumentsAssumption DEF TagInv, TagTypeOK
<1> QED
  BY <1>1, TextIsAtHome DEF EvidenceInv

LEMMA TagInitEvidence == TagInit => EvidenceInv
<1> SUFFICES ASSUME TagInit PROVE EvidenceInv
  OBVIOUS
<1>1. /\ units = Units(doc.blocks, doc.format) /\ pass = "classify"
      /\ evidence = [e \in Elements |-> <<>>] /\ size = [e \in Elements |-> 0]
  BY DEF TagInit
<1>2. <<>> \in Seq(DOMAIN doc.blocks)
  OBVIOUS
<1> QED
  BY <1>1, <1>2 DEF EvidenceInv, NothingYet

\* The passes before leave the evidence empty.
LEMMA EarlierKeepsEvidence ==
  ASSUME EvidenceInv, pass \notin {"collect", "done"},
         UNCHANGED <<doc, units, pass, evidence, size>>
  PROVE  EvidenceInv'
BY DEF EvidenceInv, NothingYet

LEMMA NextPassKeepsEvidence ==
  ASSUME TagInv, EvidenceInv, NextPass
  PROVE  EvidenceInv'
<1>1. /\ cursor \notin DOMAIN units /\ cursor' = 1
      /\ UNCHANGED <<doc, units, tags, evidence, size>>
  BY DEF NextPass
<1>2. CASE pass \in {"classify", "continue"}
  <2>1. pass' \notin {"collect", "done"}
    BY <1>2 DEF NextPass
  <2> QED
    BY <1>1, <1>2, <2>1 DEF EvidenceInv, NothingYet
<1>3. CASE pass = "backup"
  <2>1. pass' = "collect"
    BY <1>3 DEF NextPass
  <2>2. ASSUME NEW e \in Elements PROVE Collected(e)'
    <3>1. evidence[e] = <<>> /\ size[e] = 0
      BY <1>3 DEF EvidenceInv, NothingYet
    <3>2. Len(<<>>) = 0 /\ 0 <= MaxPrimary /\ Range(<<>>) = {}
      BY LimitsAssumption DEF Range
    <3>3. \A k \in DOMAIN tags : ~Read(k)'
      <4>1. \A k \in DOMAIN tags : k \in Nat /\ k >= 1
        BY DEF TagInv, TagTypeOK
      <4> QED
        BY <1>1, <2>1, <4>1 DEF Read
    <3> QED
      BY <1>1, <3>1, <3>2, <3>3 DEF Collected
  <2> QED
    BY <1>1, <2>1, <2>2 DEF EvidenceInv
<1>4. CASE pass = "collect"
  <2>1. pass' = "done"
    BY <1>4 DEF NextPass
  <2>2. \A k \in DOMAIN tags : k < cursor
    <3>1. cursor = Len(tags) + 1
      BY <1>1 DEF TagInv, CursorInv
    <3> QED
      BY <3>1 DEF TagInv, TagTypeOK
  <2>3. ASSUME NEW e \in Elements PROVE Collected(e)'
    <3>1. Collected(e) /\ (Fits(e)' <=> Fits(e))
      BY <1>1, <1>4 DEF EvidenceInv, Fits
    <3>2. \A k \in DOMAIN tags : Read(k)
      BY <2>2 DEF Read
    <3> QED
      BY <1>1, <3>1, <3>2 DEF Collected
  <2> QED
    BY <1>1, <2>1, <2>3 DEF EvidenceInv
<1> QED
  BY <1>2, <1>3, <1>4 DEF NextPass, TagInv, TagTypeOK

\* An element the unit is not tagged with.
LEMMA OthersKeepEvidence ==
  ASSUME TagInv, EvidenceInv, Collect, NEW e \in Elements,
         tags[cursor].element # e, evidence'[e] = evidence[e], size'[e] = size[e]
  PROVE  Collected(e)'
<1>1. /\ pass = "collect" /\ cursor \in DOMAIN units /\ cursor' = cursor + 1
      /\ UNCHANGED <<doc, units, tags, known, pass>>
  BY DEF Collect
<1>2. Collected(e) /\ (Fits(e)' <=> Fits(e))
  BY <1>1 DEF EvidenceInv, Fits
<1>3. \A k \in DOMAIN tags : Read(k)' /\ tags[k].element = e => Read(k)
  <2>1. /\ cursor \in 1..Len(tags) /\ DOMAIN tags = 1..Len(tags)
        /\ Len(tags) \in Nat
    BY <1>1, PassFacts
  <2>2. \A k \in DOMAIN tags : k < cursor + 1 /\ k # cursor => k < cursor
    BY <2>1
  <2> QED
    BY <1>1, <2>2 DEF Read
<1> QED
  BY <1>1, <1>2, <1>3 DEF Collected

\* The element the unit is tagged with.
LEMMA TaggedGrowsEvidence ==
  ASSUME TagInv, EvidenceInv, Collect, NEW e \in Elements,
         tags[cursor].element = e, ~tags[cursor].shared
  PROVE  /\ evidence' \in [Elements -> Seq(DOMAIN doc.blocks)]
         /\ size' \in [Elements -> Nat]
         /\ \A d \in Elements \ {e} : evidence'[d] = evidence[d] /\ size'[d] = size[d]
         /\ Collected(e)'
<1> DEFINE S == DOMAIN doc.blocks
           text == units[cursor].text
           got == evidence[e]
           now == got \o Prefix(Prefix(text, MaxUnit), MaxPrimary - Len(got))
<1>1. /\ pass = "collect" /\ cursor \in DOMAIN units /\ cursor' = cursor + 1
      /\ UNCHANGED <<doc, units, tags, known, pass>>
  BY DEF Collect
<1>2. /\ cursor \in 1..Len(tags) /\ DOMAIN tags = 1..Len(tags)
      /\ Len(tags) \in Nat
  BY <1>1, PassFacts
<1>3. text \in Seq(S) /\ got \in Seq(S) /\ size[e] \in Nat
  BY <1>1, TextFacts DEF EvidenceInv
<1>4. /\ evidence' = [evidence EXCEPT ![e] = now]
      /\ size' = [size EXCEPT ![e] = @ + Len(text)]
  BY NoneAssumption DEF Collect, Chunk
<1>5. Collected(e)
  BY <1>1 DEF EvidenceInv
<1>6. /\ now \in Seq(S) /\ Len(now) <= MaxPrimary
      /\ Range(got) \subseteq Range(now)
      /\ Range(now) \subseteq Range(got) \cup Range(text)
      /\ Len(text) <= MaxUnit /\ Len(got) + Len(text) <= MaxPrimary
           => /\ Len(now) = Len(got) + Len(text)
              /\ Range(text) \subseteq Range(now)
  <2>1. Len(got) <= MaxPrimary
    BY <1>5 DEF Collected
  <2> HIDE DEF got, text, S
  <2> QED
    BY <1>3, <2>1, CollectedFacts
<1>7. Len(text) \in Nat /\ Len(got) \in Nat
  BY <1>3
<1> HIDE DEF now, text
<1>8. /\ evidence' \in [Elements -> Seq(S)] /\ size' \in [Elements -> Nat]
      /\ evidence'[e] = now /\ size'[e] = size[e] + Len(text)
      /\ \A d \in Elements \ {e} : evidence'[d] = evidence[d] /\ size'[d] = size[d]
  BY <1>3, <1>4, <1>6, <1>7 DEF EvidenceInv
<1>9. ASSUME NEW b \in Range(now)
      PROVE  \E k \in DOMAIN tags :
               tags[k].element = e /\ b \in Range(units[k].text)
  <2>1. CASE b \in Range(got)
    BY <1>5, <2>1 DEF Collected
  <2>2. CASE b \in Range(text)
    BY <1>2, <2>2 DEF text
  <2> QED
    BY <1>6, <2>1, <2>2
<1>10. ASSUME Fits(e)'
       PROVE  /\ Len(now) = size'[e]
              /\ \A k \in DOMAIN tags :
                   Read(k)' /\ tags[k].element = e
                     => Range(units[k].text) \subseteq Range(now)
  <2>1. /\ \A k \in DOMAIN tags : tags[k].element = e => Len(units[k].text) <= MaxUnit
        /\ size[e] + Len(text) <= MaxPrimary
    BY <1>1, <1>8, <1>10 DEF Fits
  <2>2. size[e] <= MaxPrimary /\ Len(text) <= MaxUnit
    <3>1. Len(text) <= MaxUnit
      BY <1>2, <2>1 DEF text
    <3> QED
      BY <1>3, <1>7, <2>1, <3>1, LimitsAssumption
  <2>3. /\ Len(got) = size[e]
        /\ \A k \in DOMAIN tags : Read(k) /\ tags[k].element = e
             => Range(units[k].text) \subseteq Range(got)
    BY <1>5, <2>1, <2>2 DEF Collected, Fits
  <2>4. Len(now) = size[e] + Len(text) /\ Range(text) \subseteq Range(now)
    BY <1>6, <2>1, <2>2, <2>3
  <2>5. ASSUME NEW k \in DOMAIN tags, Read(k)', tags[k].element = e
        PROVE  Range(units[k].text) \subseteq Range(now)
    <3>1. CASE k = cursor
      BY <2>4, <3>1 DEF text
    <3>2. CASE k # cursor
      <4>1. k < cursor
        BY <1>1, <1>2, <2>5, <3>2 DEF Read
      <4> QED
        BY <1>6, <2>3, <2>5, <4>1 DEF Read
    <3> QED
      BY <3>1, <3>2
  <2> QED
    BY <1>8, <2>4, <2>5
<1>11. Collected(e)'
  BY <1>1, <1>6, <1>8, <1>9, <1>10 DEF Collected
<1> QED
  BY <1>8, <1>11

LEMMA CollectKeepsEvidence ==
  ASSUME TagInv, EvidenceInv, Collect
  PROVE  EvidenceInv'
<1> DEFINE p == tags[cursor]
<1>1. /\ pass = "collect" /\ cursor \in DOMAIN units
      /\ UNCHANGED <<doc, units, tags, known, pass>>
  BY DEF Collect
<1>2. /\ cursor \in DOMAIN tags /\ p \in Prediction
  BY <1>1, PassFacts
<1>3. p.element \in Elements \cup {None} /\ (p.shared => p.element = None)
  <2>1. UnitInv(cursor)
    BY <1>2 DEF TagInv
  <2> QED
    BY <1>2, <2>1 DEF Prediction, UnitInv
<1>4. CASE p.element # None
  <2>1. p.element \in Elements /\ ~p.shared
    BY <1>3, <1>4
  <2>2. PICK e \in Elements : e = p.element
    BY <2>1
  <2>3. /\ evidence' \in [Elements -> Seq(DOMAIN doc.blocks)]
        /\ size' \in [Elements -> Nat]
        /\ \A d \in Elements \ {e} : evidence'[d] = evidence[d] /\ size'[d] = size[d]
        /\ Collected(e)'
    BY <2>1, <2>2, TaggedGrowsEvidence
  <2>4. ASSUME NEW d \in Elements PROVE Collected(d)'
    <3>1. CASE d = e
      BY <2>3, <3>1
    <3>2. CASE d # e
      BY <2>2, <2>3, <3>2, OthersKeepEvidence
    <3> QED
      BY <3>1, <3>2
  <2> QED
    BY <1>1, <2>3, <2>4 DEF EvidenceInv
<1>5. CASE p.element = None
  <2>1. UNCHANGED <<evidence, size>>
    BY <1>5 DEF Collect
  <2>2. ASSUME NEW d \in Elements PROVE Collected(d)'
    <3>1. p.element # d
      BY <1>5, NoneAssumption
    <3> QED
      BY <2>1, <3>1, OthersKeepEvidence
  <2> QED
    BY <1>1, <2>1, <2>2 DEF EvidenceInv
<1> QED
  BY <1>4, <1>5

\* Until the validation begins nothing is collected; then, for each element,
\* what the units gone through have of it.
THEOREM EvidenceCollected == TagSpec => []EvidenceInv
<1>1. TagInv /\ EvidenceInv /\ [TagNext]_tagVars => EvidenceInv'
  <2> SUFFICES ASSUME TagInv, EvidenceInv, [TagNext]_tagVars PROVE EvidenceInv'
    OBVIOUS
  <2>1. CASE Classify
    BY <2>1, EarlierKeepsEvidence DEF Classify
  <2>2. CASE NextPass
    BY <2>2, NextPassKeepsEvidence
  <2>3. CASE Continue
    BY <2>3, EarlierKeepsEvidence DEF Continue
  <2>4. CASE Backup
    BY <2>4, EarlierKeepsEvidence DEF Backup
  <2>5. CASE Collect
    BY <2>5, CollectKeepsEvidence
  <2>6. CASE UNCHANGED tagVars
    BY <2>6 DEF EvidenceInv, NothingYet, Collected, Fits, Read, tagVars
  <2> QED
    BY <2>1, <2>2, <2>3, <2>4, <2>5, <2>6 DEF TagNext
<1> QED
  BY <1>1, TagInitEvidence, TaggingHolds, PTL DEF TagSpec

(***************************************************************************)
(* The text that a validation of element e reads is text of the sections   *)
(* tagged e, and all of it that fits in, but for what a paragraph that     *)
(* reads as a heading lets in or cuts off.                                 *)
(***************************************************************************)
THEOREM EvidenceFromItsSections == TagSpec => []EvidenceIsItsSections
<1>1. TagInv /\ EvidenceInv => EvidenceIsItsSections
  <2> SUFFICES ASSUME TagInv, EvidenceInv, pass = "done", NEW e \in Elements
               PROVE  /\ Len(evidence[e]) <= MaxPrimary
                      /\ \A b \in Range(evidence[e]) :
                           IsTable(b) \/ HomeTag(b) = e \/ Stray(e, b)
                      /\ Fits(e) =>
                           \A b \in DOMAIN doc.blocks :
                             /\ HomeTag(b) = e
                             /\ doc.blocks[b].kind \in UnitKinds(doc.format)
                             => b \in Range(evidence[e]) \/ CutOff(b)
    BY DEF EvidenceIsItsSections
  <2>1. /\ doc.blocks \in Seq(Block) /\ doc.format \in Formats
        /\ units = Units(doc.blocks, doc.format)
    BY TextFacts DEF EvidenceInv
  <2>3. PICK n \in Nat : DOMAIN units = 1..n
    BY <2>1, TextIsAtHome
  <2>4. DOMAIN tags = DOMAIN units
    <3>1. /\ Len(tags) \in Nat /\ DOMAIN tags = 1..Len(tags)
          /\ 1..Len(tags) \subseteq 1..n /\ Len(tags) + 1 \notin 1..n
      BY <2>3 DEF TagInv, TagTypeOK, CursorInv
    <3> DEFINE l == Len(tags)
    <3> HIDE DEF l
    <3>2. l \in Nat /\ 1..l \subseteq 1..n /\ l + 1 \notin 1..n
      BY <3>1 DEF l
    <3>3. l = 0 \/ l \in 1..n
      BY <3>2
    <3>4. l = n
      BY <3>2, <3>3
    <3> QED
      BY <2>3, <3>1, <3>4 DEF l
  <2>5. ASSUME NEW b \in DOMAIN doc.blocks
        PROVE  /\ HomeOf(b) \in DOMAIN units \cup {0}
               /\ \A k \in DOMAIN units :
                    /\ b \in Range(units[k].text)
                         => \/ HomeOf(b) = k \/ IsTable(b)
                            \/ OpenedAgain(doc.blocks, doc.format, k, b)
                    /\ /\ HomeOf(b) = k
                       /\ doc.blocks[b].kind \in UnitKinds(doc.format)
                       => b \in Range(units[k].text) \/ CutOff(b)
    <3>1. /\ HomeOf(b) \in DOMAIN units \cup {0}
          /\ \A k \in DOMAIN units :
               /\ b \in Range(units[k].text)
                    => MayHave(doc.blocks, doc.format, k, b)
               /\ MustHave(doc.blocks, doc.format, k, b)
                    => b \in Range(units[k].text)
      BY <2>1, TextIsAtHome DEF HomeOf
    <3> QED
      BY <3>1 DEF MayHave, MustHave, TableOf, IsTable, HomeOf, CutOff
  <2>6. \A k \in DOMAIN units : k # 0
    BY <2>3
  <2>7. Collected(e) /\ evidence[e] \in Seq(DOMAIN doc.blocks)
    BY DEF EvidenceInv
  <2>8. ASSUME NEW b \in Range(evidence[e])
        PROVE  IsTable(b) \/ HomeTag(b) = e \/ Stray(e, b)
    <3>1. b \in DOMAIN doc.blocks
      BY <2>7 DEF Range
    <3>2. PICK k \in DOMAIN tags : tags[k].element = e /\ b \in Range(units[k].text)
      BY <2>7 DEF Collected
    <3>3. \/ HomeOf(b) = k \/ IsTable(b)
          \/ OpenedAgain(doc.blocks, doc.format, k, b)
      BY <2>4, <2>5, <3>1, <3>2
    <3> QED
      BY <2>4, <2>6, <3>2, <3>3 DEF HomeTag, Stray
  <2>9. ASSUME Fits(e), NEW b \in DOMAIN doc.blocks, HomeTag(b) = e,
               doc.blocks[b].kind \in UnitKinds(doc.format)
        PROVE  b \in Range(evidence[e]) \/ CutOff(b)
    <3>1. HomeOf(b) # 0 /\ tags[HomeOf(b)].element = e
      BY <2>9, NoneAssumption DEF HomeTag
    <3>2. HomeOf(b) \in DOMAIN tags
      BY <2>4, <2>5, <2>9, <3>1
    <3>3. b \in Range(units[HomeOf(b)].text) \/ CutOff(b)
      BY <2>4, <2>5, <2>9, <3>2
    <3> QED
      BY <2>7, <2>9, <3>1, <3>2, <3>3 DEF Collected, Read
  <2> QED
    BY <2>7, <2>8, <2>9 DEF Collected
<1> QED
  BY <1>1, TaggingHolds, EvidenceCollected, PTL
=============================================================================
