------------------------------- MODULE Fsck -------------------------------
(***************************************************************************)
(* The offline checker (internal/fsck): a data directory that a server has *)
(* left behind, and that may since have lost records or files, is checked  *)
(* and repaired with nobody else at work.  Check reports problems; Repair  *)
(* takes them one by one and may be stopped between any two of its steps.  *)
(*                                                                         *)
(* Abstracted: a version's sequence is the identifier of its first file, a *)
(* version has one file, and an upload's parts are numbered by their file. *)
(* The wording of reports is left out, and so is a bucket record that does *)
(* not decode: the check ends with an error before it reports anything.    *)
(***************************************************************************)
EXTENDS Naturals, FiniteSets

CONSTANTS
  FBuckets,  \* bucket names
  FKeys,     \* object keys
  FUploads,  \* upload IDs
  Blobs,     \* file names; positive, 0 stands for no file
  MaxLosses, \* bound: records and files lost or damaged before the check
  MaxStops   \* bound: repairs that were interrupted

ASSUME FsckAssumption ==
  /\ Blobs \subseteq Nat \ {0}
  /\ MaxLosses \in Nat /\ MaxStops \in Nat

VARIABLES
  bstatus,   \* b/: "none", "live" or "deleting" for each bucket
  versions, \* o/: version records
  pointers, \* n/: null-version pointers
  upload,   \* u/: upload records
  index,    \* ui/: upload index
  part,     \* p/: part records
  broken,   \* o/, u/ and p/: records that do not decode, as they were before
  data,     \* data/: the state of each file
  stage,    \* "idle", "repair", or "done": the last repair ran to its end
  scope,    \* --bucket: the buckets the check covers
  report,   \* the problems Repair still has to look at
  doomed,   \* files removeParts still has to delete, after its transaction
  losses, stops

fvars == <<bstatus, versions, pointers, upload, index, part, broken, data,
           stage, scope, report, doomed, losses, stops>>

FVersion == [bucket: FBuckets, key: FKeys, seq: Blobs, null: BOOLEAN, marker: BOOLEAN]
Pointer == [bucket: FBuckets, key: FKeys, seq: Blobs]
FUpload == [bucket: FBuckets, id: FUploads, key: FKeys]
FPart == [bucket: FBuckets, upload: FUploads, blob: Blobs]
File == FBuckets \X Blobs

\* A problem names what it is about by the fields its kind uses.
Problem(kind, b, item) == [kind |-> kind, bucket |-> b, item |-> item]

-----------------------------------------------------------------------------
(* What a server leaves: every file is orphaned by a crash or has one role, *)
(* and the records agree with one another. A bucket that is marked and holds *)
(* objects is not the work of a server, but Repair allows for one.          *)

Roles == {"none", "orphan", "version", "null", "marker", "part"}

FInit ==
  \E role \in [File -> Roles], ups \in SUBSET FUpload, keyOf \in [Blobs -> FKeys] :
    /\ bstatus \in [FBuckets -> {"none", "live", "deleting"}]
    /\ \A b \in FBuckets, x \in Blobs : bstatus[b] = "none" => role[<<b, x>>] \in {"none", "orphan"}
    /\ \A u \in ups : bstatus[u.bucket] = "live"
    /\ \A u, v \in ups : u.bucket = v.bucket /\ u.id = v.id => u = v
    /\ \A b \in FBuckets, x, y \in Blobs :
         role[<<b, x>>] = "null" /\ role[<<b, y>>] = "null" /\ keyOf[x] = keyOf[y] => x = y
    /\ versions = {[bucket |-> f[1], key |-> keyOf[f[2]], seq |-> f[2],
                    null |-> role[f] = "null", marker |-> role[f] = "marker"] :
                     f \in {g \in File : role[g] \in {"version", "null", "marker"}}}
    /\ pointers = {[bucket |-> f[1], key |-> keyOf[f[2]], seq |-> f[2]] :
                     f \in {g \in File : role[g] = "null"}}
    /\ upload = ups
    /\ index = ups
    /\ broken = {}
    /\ \E owner \in [File -> FUploads] :
         /\ \A f \in File : role[f] = "part" =>
              \E u \in ups : u.bucket = f[1] /\ u.id = owner[f]
         /\ part = {[bucket |-> f[1], upload |-> owner[f], blob |-> f[2]] :
                      f \in {g \in File : role[g] = "part"}}
    /\ data = [f \in File |-> IF role[f] \in {"none", "marker"} THEN "none" ELSE "ok"]
    /\ stage = "idle"
    /\ scope = {}
    /\ report = {}
    /\ doomed = {}
    /\ losses = 0
    /\ stops = 0

\* A record is lost, or still there and no longer decodes.
Gone(x) == broken' \in {broken, broken \cup {x}}

\* Before anyone checks, a record or a file is lost or damaged.
Lose ==
  /\ stage = "idle" /\ stops = 0
  /\ losses < MaxLosses
  /\ losses' = losses + 1
  /\ \/ \E b \in FBuckets :
          /\ bstatus[b] # "none" /\ bstatus' = [bstatus EXCEPT ![b] = "none"]
          /\ UNCHANGED <<versions, pointers, upload, index, part, data, broken>>
     \/ \E o \in versions :
          /\ versions' = versions \ {o} /\ Gone(o)
          /\ UNCHANGED <<bstatus, pointers, upload, index, part, data>>
     \/ \E q \in pointers :
          /\ pointers' = pointers \ {q}
          /\ UNCHANGED <<bstatus, versions, upload, index, part, data, broken>>
     \/ \E u \in upload :
          /\ upload' = upload \ {u} /\ Gone(u)
          /\ UNCHANGED <<bstatus, versions, pointers, index, part, data>>
     \/ \E u \in index :
          /\ index' = index \ {u}
          /\ UNCHANGED <<bstatus, versions, pointers, upload, part, data, broken>>
     \/ \E x \in part :
          /\ part' = part \ {x} /\ Gone(x)
          /\ UNCHANGED <<bstatus, versions, pointers, upload, index, data>>
     \/ \E f \in File, damage \in {"none", "short", "rotten"} :
          /\ data[f] = "ok" /\ data' = [data EXCEPT ![f] = damage]
          /\ UNCHANGED <<bstatus, versions, pointers, upload, index, part, broken>>
  /\ UNCHANGED <<stage, scope, report, doomed, stops>>

-----------------------------------------------------------------------------
(* Check *)

\* Records that do not decode are reported and passed over: only their keys
\* count, where a scan looks at keys alone.
BrokenVersions == broken \cap FVersion
BrokenUploads == broken \cap FUpload
BrokenParts == broken \cap FPart

\* bucketsWithRecords: only version and upload records tell of a bucket.
BucketsWithRecords == {o.bucket : o \in versions \cup BrokenVersions}
                        \cup {u.bucket : u \in upload \cup BrokenUploads}

\* The buckets a check of the scope walks.
Checked(sc) == {b \in sc : bstatus[b] # "none" \/ b \in BucketsWithRecords}

RecordWithoutBkt(sc) ==
  {Problem("RecordWithoutBkt", b, b) : b \in {c \in sc \cap BucketsWithRecords : bstatus[c] = "none"}}

BucketDeleting(sc) == {Problem("BucketDeleting", b, b) : b \in {c \in sc : bstatus[c] = "deleting"}}

\* checkObjects: a null version whose pointer is absent or names another one.
MissingNullPtr(sc) ==
  {Problem("MissingNullPtr", o.bucket, o.key) : o \in {v \in versions :
     /\ v.bucket \in Checked(sc) /\ v.null
     /\ [bucket |-> v.bucket, key |-> v.key, seq |-> v.seq] \notin pointers}}

\* A pointer is struck off when a null version of its key is met.
DanglingNullPtr(sc) ==
  {Problem("DanglingNullPtr", q.bucket, q.key) : q \in {r \in pointers :
     /\ r.bucket \in Checked(sc)
     /\ \A o \in versions : ~(o.bucket = r.bucket /\ o.key = r.key /\ o.null)}}

\* The file of a version is missing or has the wrong size, or, with --verify,
\* does not hash to the recorded ETag.
DamagedFile(sc, verify) ==
  {Problem(CASE data[<<o.bucket, o.seq>>] = "none" -> "MissingFile"
             [] data[<<o.bucket, o.seq>>] = "short" -> "SizeMismatch"
             [] OTHER -> "ContentMismatch", o.bucket, o) :
     o \in {v \in versions :
       /\ v.bucket \in Checked(sc) /\ ~v.marker
       /\ data[<<v.bucket, v.seq>>] \in {"none", "short"} \cup (IF verify THEN {"rotten"} ELSE {})}}

\* checkUploads: the index against the upload records, both ways.
MissingUploadIdx(sc) ==
  {Problem("MissingUploadIdx", u.bucket, u.id) :
     u \in {v \in upload : v.bucket \in Checked(sc) /\ v \notin index}}

DanglingUploadIdx(sc) ==
  {Problem("DanglingUploadIdx", u.bucket, u.id) : u \in {v \in index :
     /\ v.bucket \in Checked(sc)
     /\ \A w \in upload : ~(w.bucket = v.bucket /\ w.id = v.id)}}

HasUpload(x) == \E u \in upload : u.bucket = x.bucket /\ u.id = x.upload

OrphanPartRecords(sc) ==
  {Problem("OrphanPartRecords", x.bucket, x.upload) :
     x \in {y \in part : y.bucket \in Checked(sc) /\ ~HasUpload(y)}}

PartMissingFile(sc) ==
  {Problem("PartMissingFile", x.bucket, x) :
     x \in {y \in part : /\ y.bucket \in Checked(sc) /\ HasUpload(y)
                         /\ data[<<y.bucket, y.blob>>] = "none"}}

\* Mutant: the parts of uploads are not counted.
ReferencedByVersions(sc) ==
  {<<o.bucket, o.seq>> : o \in {v \in versions : v.bucket \in Checked(sc) /\ ~v.marker}}

\* referenced: what the records of the buckets walked point at.
ReferencedBy(sc) ==
  {<<o.bucket, o.seq>> : o \in {v \in versions : v.bucket \in Checked(sc) /\ ~v.marker}}
    \cup {<<x.bucket, x.blob>> : x \in {y \in part : y.bucket \in Checked(sc)}}

\* checkFiles and, over all buckets, checkStrayDirs. (Opening the directory
\* clears tmp/, so that checkTemp finds nothing.)
OrphanFile(sc) ==
  {Problem("OrphanFile", f[1], f[2]) : f \in {g \in File :
     /\ data[g] # "none"
     /\ g \notin ReferencedBy(sc)
     /\ g[1] \in Checked(sc) \/ sc = FBuckets}}

Repairable(sc) ==
  RecordWithoutBkt(sc) \cup BucketDeleting(sc) \cup MissingNullPtr(sc)
    \cup DanglingNullPtr(sc) \cup MissingUploadIdx(sc) \cup DanglingUploadIdx(sc)
    \cup OrphanPartRecords(sc) \cup PartMissingFile(sc) \cup OrphanFile(sc)

\* The order in which a check meets problems; bucket follows bucket in the
\* middle, in an order left open here.
RepairOrder == [RecordWithoutBkt |-> 0, BucketDeleting |-> 1, MissingFile |-> 2,
         SizeMismatch |-> 2, MissingNullPtr |-> 2, DanglingNullPtr |-> 3,
         ContentMismatch |-> 4, MissingUploadIdx |-> 5, DanglingUploadIdx |-> 6,
         PartMissingFile |-> 7, OrphanPartRecords |-> 8, OrphanFile |-> 9]

\* runFsckIO: the directory is opened and checked; a repair follows.
Check(sc, verify) ==
  /\ stage = "idle"
  /\ stage' = "repair"
  /\ scope' = sc
  /\ report' = Repairable(sc) \cup DamagedFile(sc, verify)
  /\ UNCHANGED <<bstatus, versions, pointers, upload, index, part, broken, data, doomed, losses, stops>>

-----------------------------------------------------------------------------
(* Repair *)

\* The loop over the report has come to this problem.
Turn(p, kind) ==
  /\ stage = "repair" /\ doomed = {}
  /\ p \in report /\ p.kind = kind
  /\ \A q \in report : q.bucket = p.bucket => RepairOrder[kind] <= RepairOrder[q.kind]

\* The step deals with the problem and leaves the rest of the state alone.
Fixed(p) ==
  /\ report' = report \ {p}
  /\ UNCHANGED <<stage, scope, losses, stops>>

\* Damaged objects are left in place.
Leave(p) ==
  /\ \E kind \in {"MissingFile", "SizeMismatch", "ContentMismatch"} : Turn(p, kind)
  /\ Fixed(p)
  /\ UNCHANGED <<bstatus, versions, pointers, upload, index, part, broken, data, doomed>>

\* removeFile
RemoveOrphan(p) ==
  /\ Turn(p, "OrphanFile")
  /\ data' = [data EXCEPT ![<<p.bucket, p.item>>] = "none"]
  /\ Fixed(p)
  /\ UNCHANGED <<bstatus, versions, pointers, upload, index, part, broken, doomed>>

PointersOf(p) == {q \in pointers : q.bucket = p.bucket /\ q.key = p.item}

DeletePointer(p) ==
  /\ Turn(p, "DanglingNullPtr")
  /\ pointers' = pointers \ PointersOf(p)
  /\ Fixed(p)
  /\ UNCHANGED <<bstatus, versions, upload, index, part, broken, data, doomed>>

\* The first null version in key order is the newest.
RecreatePointer(p) ==
  LET nulls == {o \in versions : o.bucket = p.bucket /\ o.key = p.item /\ o.null} IN
  /\ Turn(p, "MissingNullPtr")
  /\ \E o \in nulls :
       /\ \A x \in nulls : x.seq <= o.seq
       /\ pointers' = (pointers \ PointersOf(p))
                        \cup {[bucket |-> o.bucket, key |-> o.key, seq |-> o.seq]}
  /\ Fixed(p)
  /\ UNCHANGED <<bstatus, versions, upload, index, part, broken, data, doomed>>

DeleteIndex(p) ==
  /\ Turn(p, "DanglingUploadIdx")
  /\ index' = {u \in index : ~(u.bucket = p.bucket /\ u.id = p.item)}
  /\ Fixed(p)
  /\ UNCHANGED <<bstatus, versions, pointers, upload, part, broken, data, doomed>>

\* The scan for the upload ends, and the repair with it, at a record that does
\* not decode and comes first; RepairStops stands for that.
RecreateIndex(p) ==
  /\ Turn(p, "MissingUploadIdx")
  /\ \E u \in upload :
       /\ u.bucket = p.bucket /\ u.id = p.item
       /\ index' = {v \in index : ~(v.bucket = p.bucket /\ v.id = p.item)} \cup {u}
  /\ Fixed(p)
  /\ UNCHANGED <<bstatus, versions, pointers, upload, part, broken, data, doomed>>

OrphanParts(p) == {x \in part \cup BrokenParts : x.bucket = p.bucket /\ x.upload = p.item}

\* Mutant: the records go, their files stay.
RemovePartRecords(p) ==
  /\ Turn(p, "OrphanPartRecords")
  /\ part' = part \ OrphanParts(p) /\ broken' = broken \ OrphanParts(p)
  /\ Fixed(p)
  /\ UNCHANGED <<bstatus, versions, pointers, upload, index, data, doomed>>

\* removeParts: the records in a transaction, their files one by one after it.
RemoveParts(p) ==
  /\ Turn(p, "OrphanPartRecords")
  /\ part' = part \ OrphanParts(p) /\ broken' = broken \ OrphanParts(p)
  /\ doomed' = {<<x.bucket, x.blob>> : x \in OrphanParts(p) \cap part}
  /\ Fixed(p)
  /\ UNCHANGED <<bstatus, versions, pointers, upload, index, data>>

RemovePartFile(f) ==
  /\ stage = "repair"
  /\ f \in doomed
  /\ doomed' = doomed \ {f}
  /\ data' = [data EXCEPT ![f] = "none"]
  /\ UNCHANGED <<bstatus, versions, pointers, upload, index, part, broken, stage, scope, report, losses, stops>>

DeletePart(p) ==
  /\ Turn(p, "PartMissingFile")
  /\ part' = part \ {p.item}
  /\ Fixed(p)
  /\ UNCHANGED <<bstatus, versions, pointers, upload, index, broken, data, doomed>>

HasObjects(b) == \E o \in versions \cup BrokenVersions : o.bucket = b

\* finishDelete: a bucket that holds objects is restored ...
RestoreBucket(p) ==
  /\ Turn(p, "BucketDeleting")
  /\ HasObjects(p.bucket)
  /\ bstatus' = [bstatus EXCEPT ![p.bucket] = "live"]
  /\ Fixed(p)
  /\ UNCHANGED <<versions, pointers, upload, index, part, broken, data, doomed>>

\* ... one that does not loses its directory, file by file ...
FinishDeleteFile(p, x) ==
  /\ Turn(p, "BucketDeleting")
  /\ ~HasObjects(p.bucket)
  /\ data[<<p.bucket, x>>] # "none"
  /\ data' = [data EXCEPT ![<<p.bucket, x>>] = "none"]
  /\ UNCHANGED <<bstatus, versions, pointers, upload, index, part, broken, doomed,
                 stage, scope, report, losses, stops>>

\* ... and then its record.
FinishDeleteRecord(p) ==
  /\ Turn(p, "BucketDeleting")
  /\ ~HasObjects(p.bucket)
  /\ \A x \in Blobs : data[<<p.bucket, x>>] = "none"
  /\ bstatus' = [bstatus EXCEPT ![p.bucket] = "none"]
  /\ Fixed(p)
  /\ UNCHANGED <<versions, pointers, upload, index, part, broken, data, doomed>>

RecreateBucket(p) ==
  /\ Turn(p, "RecordWithoutBkt")
  /\ bstatus' = IF bstatus[p.bucket] = "none" THEN [bstatus EXCEPT ![p.bucket] = "live"] ELSE bstatus
  /\ Fixed(p)
  /\ UNCHANGED <<versions, pointers, upload, index, part, broken, data, doomed>>

\* The report is worked off.
RepairEnds ==
  /\ stage = "repair" /\ report = {} /\ doomed = {}
  /\ stage' = "done"
  /\ UNCHANGED <<bstatus, versions, pointers, upload, index, part, broken, data,
                 scope, report, doomed, losses, stops>>

\* The operator stops the repair, it fails, or the machine goes down.
RepairStops ==
  /\ stage = "repair"
  /\ stops < MaxStops
  /\ stops' = stops + 1
  /\ stage' = "idle"
  /\ scope' = {} /\ report' = {} /\ doomed' = {}
  /\ UNCHANGED <<bstatus, versions, pointers, upload, index, part, broken, data, losses>>

Repair ==
  \/ \E p \in report :
       \/ Leave(p)
       \/ RemoveOrphan(p)
       \/ DeletePointer(p)
       \/ RecreatePointer(p)
       \/ DeleteIndex(p)
       \/ RecreateIndex(p)
       \/ RemoveParts(p)
       \/ DeletePart(p)
       \/ RestoreBucket(p)
       \/ \E x \in Blobs : FinishDeleteFile(p, x)
       \/ FinishDeleteRecord(p)
       \/ RecreateBucket(p)
  \/ \E f \in doomed : RemovePartFile(f)
  \/ RepairEnds
  \/ RepairStops

FNext ==
  \/ Lose
  \/ \E sc \in {FBuckets} \cup {{b} : b \in FBuckets}, verify \in BOOLEAN : Check(sc, verify)
  \/ Repair

FSpec == FInit /\ [][FNext]_fvars

-----------------------------------------------------------------------------
(* Properties *)

\* The file of a version, or of a part whose upload is there, as far as the
\* records decode.
Needed ==
  {<<o.bucket, o.seq>> : o \in {v \in versions : ~v.marker}}
    \cup {<<x.bucket, x.blob>> : x \in {y \in part : HasUpload(y)}}

\* A repair never loses data that a readable record tells of: whatever else is
\* lost or damaged, no step of it drops a version, a part whose upload and file
\* are there, a file that one of them needs, or the record of a bucket that holds
\* objects; nor does it drop a version or upload record that does not decode.
\* What such a record needs is another matter: its file counts as an orphan, its
\* parts as without an upload, and both are deleted.
RepairKeepsData ==
  [][stage = "repair" =>
       /\ versions \subseteq versions' /\ upload \subseteq upload'
       /\ BrokenVersions \cup BrokenUploads \subseteq broken'
       /\ \A x \in part : HasUpload(x) /\ data[<<x.bucket, x.blob>>] # "none" => x \in part'
       /\ \A f \in Needed : data'[f] = data[f]
       /\ \A b \in FBuckets : HasObjects(b) /\ bstatus[b] # "none" => bstatus'[b] # "none"]_fvars

\* A repair of the whole directory that ran to its end, even if earlier ones were
\* cut short, leaves no file that no version or upload needs, no removal half
\* done, no version or upload that can be read without its bucket, and in a
\* bucket that is there null pointers, an upload index and parts that agree with
\* the versions and uploads. Pointers, index entries and parts of a name that has
\* neither a bucket record nor a version or upload are not looked at and stay,
\* the parts without their files.
RepairRestores ==
  stage = "done" /\ scope = FBuckets =>
    /\ \A f \in File : data[f] # "none" => f \in Needed
    /\ \A b \in FBuckets : bstatus[b] # "deleting"
    /\ \A o \in versions \cup upload : bstatus[o.bucket] = "live"
    /\ \A b \in FBuckets : bstatus[b] = "live" =>
         /\ {q \in pointers : q.bucket = b} =
              {[bucket |-> o.bucket, key |-> o.key, seq |-> o.seq] :
                 o \in {v \in versions : v.bucket = b /\ v.null}}
         /\ {u \in index : u.bucket = b} = {u \in upload : u.bucket = b}
         /\ \A x \in part : x.bucket = b => HasUpload(x) /\ data[<<x.bucket, x.blob>>] # "none"
=============================================================================
