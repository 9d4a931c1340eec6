---------------------------- MODULE ObjectStore ----------------------------
(***************************************************************************)
(* The object service (internal/object) over its two stores: the metadata  *)
(* records, which change in serialised key/value transactions              *)
(* (internal/meta, internal/kv), and the data files, which change one at a *)
(* time outside them (internal/blob).  A request runs in a goroutine of    *)
(* its own and crosses both stores in several steps; the process may die   *)
(* between any two of them and is then restarted.                          *)
(*                                                                         *)
(* Abstracted: request attributes other than Object Lock, SSE, checksums   *)
(* and sizes (a request they reject is a request that returns early); the  *)
(* order of an object's parts (a version holds the set of its files); the  *)
(* random and time-based identifiers, all drawn from one increasing clock. *)
(***************************************************************************)
EXTENDS Naturals, FiniteSets

CONSTANTS
  Buckets,     \* bucket names
  Keys,        \* object keys
  Reqs,        \* the goroutines that serve requests
  PartNumbers, \* part numbers of a multipart upload
  Retentions,  \* retention modes requests ask for, "none" included
  Locking,     \* values requests give to Object Lock and legal hold switches
  Conditions,  \* whether writes carry If-None-Match: *
  Callers,     \* who sends requests: "api" binds a request to what it was
               \* authorised against, "internal" (console, worker) does not
  MaxClock,    \* bound: identifiers handed out in a behaviour
  MaxFaults    \* bound: crashes and failed file removals in a behaviour

ASSUME StoreAssumption ==
  /\ Buckets # {} /\ Keys # {} /\ PartNumbers # {}
  /\ Retentions \subseteq {"none", "governance", "compliance"}
  /\ "none" \in Retentions
  /\ Locking \subseteq BOOLEAN
  /\ Conditions \subseteq BOOLEAN
  /\ Callers \subseteq {"api", "internal"}
  /\ MaxClock \in Nat
  /\ MaxFaults \in Nat

VARIABLES
  bucket,   \* b/: the bucket record of each name; created = 0 is no record
  objects,  \* o/: the version records
  nullVer,  \* n/: sequence of each key's null version; 0 is no pointer
  uploads,  \* u/ and ui/: the multipart uploads in progress
  parts,    \* p/: the part records of the uploads
  files,    \* data/: the committed data files, by bucket directory
  clock,    \* last identifier handed out: Created, Seq, upload and file IDs
  req,      \* the request each goroutine is serving
  up,       \* whether the server is serving (FALSE: starting up)
  faults    \* crashes and failed file removals so far

vars == <<bucket, objects, nullVer, uploads, parts, files, clock, req, up, faults>>
records == <<bucket, objects, nullVer, uploads, parts>>

-----------------------------------------------------------------------------
(* Records *)

Bucket == [created: Nat, deleting: BOOLEAN, lock: BOOLEAN,
           versioning: {"Off", "Enabled", "Suspended"}]

NoBucket == [created |-> 0, deleting |-> FALSE, lock |-> FALSE, versioning |-> "Off"]

Version == [bucket: Buckets, key: Keys, seq: Nat, null: BOOLEAN, marker: BOOLEAN,
            blobs: SUBSET Nat, hold: BOOLEAN, ret: Retentions]

Upload == [bucket: Buckets, key: Keys, id: Nat, hold: BOOLEAN, ret: Retentions]

Part == [bucket: Buckets, upload: Nat, number: PartNumbers, blob: Nat]

Stages == {"idle", "auth", "put", "putTx", "mpu", "part", "partTx", "complete",
           "completeTx", "lock", "cleanup", "remove", "drop"}

Request == [stage: Stages, bucket: Buckets, key: Keys,
            expect: Nat,            \* Created of the authorised bucket, 0: none
            seen: Nat,              \* Created of the bucket read by the service
            hold: BOOLEAN, ret: Retentions,
            create: BOOLEAN,        \* If-None-Match: *
            present: BOOLEAN,       \* history: create, and the key was there at the start
            upload: Nat, number: PartNumbers, want: SUBSET PartNumbers,
            blob: Nat,              \* the file written; also the version's Seq
            del: SUBSET Nat]        \* files still to be removed

Idle == [stage |-> "idle", bucket |-> CHOOSE b \in Buckets : TRUE,
         key |-> CHOOSE k \in Keys : TRUE, expect |-> 0, seen |-> 0,
         hold |-> FALSE, ret |-> "none", create |-> FALSE, present |-> FALSE, upload |-> 0,
         number |-> CHOOSE n \in PartNumbers : TRUE, want |-> {}, blob |-> 0, del |-> {}]

\* The records and requests have the shapes the code declares for them.
TypeOK ==
  /\ bucket \in [Buckets -> Bucket]
  /\ objects \subseteq Version
  /\ nullVer \in [Buckets -> [Keys -> Nat]]
  /\ uploads \subseteq Upload
  /\ parts \subseteq Part
  /\ files \subseteq (Buckets \X Nat)
  /\ clock \in Nat
  /\ req \in [Reqs -> Request]
  /\ up \in BOOLEAN
  /\ faults \in Nat

Init ==
  /\ bucket = [b \in Buckets |-> NoBucket]
  /\ objects = {}
  /\ nullVer = [b \in Buckets |-> [k \in Keys |-> 0]]
  /\ uploads = {}
  /\ parts = {}
  /\ files = {}
  /\ clock = 0
  /\ req = [p \in Reqs |-> Idle]
  /\ up = TRUE
  /\ faults = 0

-----------------------------------------------------------------------------
(* The metadata layer *)

Exists(b) == bucket[b].created # 0

\* getLiveBucket: a bucket being deleted counts as absent.
Live(b) == Exists(b) /\ ~bucket[b].deleting

\* Mutant: the expectation of the API layer is not looked at.
BucketExpectedIgnored(r) == TRUE

\* bucketExpected: the record is the one the request was authorised against.
BucketExpected(r) == r.expect = 0 \/ bucket[r.bucket].created = r.expect

\* liveBucket
LiveBucket(r) == Live(r.bucket) /\ BucketExpected(r)

\* Mutant: a bucket recreated under the same name passes for the old one.
SameName(r) == ~bucket[r.bucket].deleting

\* sameBucket
SameBucket(r) == ~bucket[r.bucket].deleting /\ bucket[r.bucket].created = r.seen

Versions(b, k) == {o \in objects : o.bucket = b /\ o.key = k}

\* GetLatest returns the version of the highest sequence, if there is one.
IsLatest(o, b, k) == o \in Versions(b, k) /\ \A x \in Versions(b, k) : x.seq <= o.seq

\* GetVersion(null): the record the null pointer leads to, if there is one.
NullVersion(b, k) == {o \in Versions(b, k) : o.seq = nullVer[b][k]}

\* The version a PutObject of the metadata layer replaces.
Replaced(o) == IF o.null THEN NullVersion(o.bucket, o.key) ELSE {}

\* PutObject: the null version moves with its pointer.
PutVersion(o) ==
  /\ objects' = {x \in objects \ Replaced(o) :
                   ~(x.bucket = o.bucket /\ x.key = o.key /\ x.seq = o.seq)} \cup {o}
  /\ nullVer' = IF o.null THEN [nullVer EXCEPT ![o.bucket][o.key] = o.seq] ELSE nullVer

\* Mutant: the null pointer stays behind.
RemoveVersionOnly(o) ==
  /\ objects' = {x \in objects : ~(x.bucket = o.bucket /\ x.key = o.key /\ x.seq = o.seq)}
  /\ nullVer' = nullVer

\* DeleteVersion
RemoveVersion(o) ==
  /\ objects' = {x \in objects : ~(x.bucket = o.bucket /\ x.key = o.key /\ x.seq = o.seq)}
  /\ nullVer' = IF o.null THEN [nullVer EXCEPT ![o.bucket][o.key] = 0] ELSE nullVer

Blobs(os) == UNION {o.blobs : o \in os}

\* GetUpload
UploadOf(r) == {u \in uploads : u.bucket = r.bucket /\ u.key = r.key /\ u.id = r.upload}

PartsOf(b, id) == {x \in parts : x.bucket = b /\ x.upload = id}

\* DeleteUpload
RemoveUpload(b, id) ==
  /\ uploads' = {u \in uploads : ~(u.bucket = b /\ u.id = id)}
  /\ parts' = parts \ PartsOf(b, id)

PartBlobs(ps) == {x.blob : x \in ps}

\* checkLocked
Locked(o, bypass) == o.hold \/ o.ret = "compliance" \/ (o.ret = "governance" /\ ~bypass)

\* checkWriteConditions for If-None-Match: *.
Absent(b, k) == \A o \in objects : IsLatest(o, b, k) => o.marker

-----------------------------------------------------------------------------
(* Requests *)

Tick ==
  /\ clock < MaxClock
  /\ clock' = clock + 1

Become(p, r) == req' = [req EXCEPT ![p] = r]

\* The request returns to its client.
Finish(p) == Become(p, Idle)

\* deleteBlobs is what is left to do before the request returns.
Cleanup(p, blobs) ==
  IF blobs = {} THEN Finish(p)
  ELSE Become(p, [Idle EXCEPT !.stage = "cleanup", !.bucket = req[p].bucket, !.del = blobs])

\* CreateBucket: one transaction; a name still being deleted is refused.
CreateBucket(b, lock) ==
  /\ up
  /\ ~Exists(b)
  /\ Tick
  /\ bucket' = [bucket EXCEPT ![b] =
       [created |-> clock', deleting |-> FALSE, lock |-> lock,
        versioning |-> IF lock THEN "Enabled" ELSE "Off"]]
  /\ UNCHANGED <<objects, nullVer, uploads, parts, files, req, up, faults>>

\* The API layer reads the bucket to authorise the request and binds the
\* request to it; internal callers bind nothing.
Authorize(p, b, caller) ==
  /\ up
  /\ req[p].stage = "idle"
  /\ Live(b)
  /\ Become(p, [Idle EXCEPT !.stage = "auth", !.bucket = b,
                            !.expect = IF caller = "api" THEN bucket[b].created ELSE 0])
  /\ UNCHANGED <<records, files, clock, up, faults>>

\* Every check that fails before anything was written.
ReturnEarly(p) ==
  /\ req[p].stage \in {"auth", "put", "mpu", "part", "complete", "completeTx", "lock"}
  /\ Finish(p)
  /\ UNCHANGED <<records, files, clock, up, faults>>

\* Mutant: versioning may be suspended on a bucket with Object Lock.
PutBucketVersioningUnchecked(p, status) ==
  LET b == req[p].bucket IN
  /\ req[p].stage = "auth"
  /\ LiveBucket(req[p])
  /\ bucket' = [bucket EXCEPT ![b].versioning = status]
  /\ Finish(p)
  /\ UNCHANGED <<objects, nullVer, uploads, parts, files, clock, up, faults>>

\* UpdateBucket from PutBucketVersioning.
PutBucketVersioning(p, status) ==
  LET b == req[p].bucket IN
  /\ req[p].stage = "auth"
  /\ LiveBucket(req[p])
  /\ ~(bucket[b].lock /\ status = "Suspended")
  /\ bucket' = [bucket EXCEPT ![b].versioning = status]
  /\ Finish(p)
  /\ UNCHANGED <<objects, nullVer, uploads, parts, files, clock, up, faults>>

\* UpdateBucket from PutObjectLockConfiguration.
PutObjectLockConfig(p) ==
  LET b == req[p].bucket IN
  /\ req[p].stage = "auth"
  /\ LiveBucket(req[p])
  /\ bucket[b].lock \/ bucket[b].versioning = "Enabled"
  /\ bucket' = [bucket EXCEPT ![b].lock = TRUE]
  /\ Finish(p)
  /\ UNCHANGED <<objects, nullVer, uploads, parts, files, clock, up, faults>>

\* validateAttrs: Object Lock settings need a bucket with Object Lock.
ValidAttrs(b, hold, ret) == (hold \/ ret # "none") => bucket[b].lock

\* PutObject reads the bucket and validates the attributes against it.
PutStart(p, k, hold, ret, create) ==
  LET r == req[p] IN
  /\ r.stage = "auth"
  /\ Live(r.bucket)
  /\ ValidAttrs(r.bucket, hold, ret)
  /\ Become(p, [r EXCEPT !.stage = "put", !.key = k, !.hold = hold, !.ret = ret,
                         !.create = create, !.present = create /\ ~Absent(r.bucket, k),
                         !.seen = bucket[r.bucket].created])
  /\ UNCHANGED <<records, files, clock, up, faults>>

\* writeBlob commits a file of its own, whatever has become of the bucket;
\* then either the digests do not match, or the request goes on to its
\* transaction, for PutObject with a sequence taken now.
WriteBlob(p, ok) ==
  LET r == req[p] IN
  /\ r.stage \in {"put", "part"}
  /\ Tick
  /\ files' = files \cup {<<r.bucket, clock'>>}
  /\ IF ok THEN Become(p, [r EXCEPT !.stage = IF r.stage = "put" THEN "putTx" ELSE "partTx",
                                    !.blob = clock'])
           ELSE Cleanup(p, {clock'})
  /\ UNCHANGED <<records, up, faults>>

\* The version PutObject is about to write.
NewVersion(r) ==
  [bucket |-> r.bucket, key |-> r.key, seq |-> r.blob,
   null |-> bucket[r.bucket].versioning # "Enabled", marker |-> FALSE,
   blobs |-> {r.blob}, hold |-> r.hold, ret |-> r.ret]

\* The checks of PutObject's transaction.
PutAllowed(r) ==
  /\ Exists(r.bucket) /\ SameBucket(r) /\ BucketExpected(r)
  /\ r.create => Absent(r.bucket, r.key)
  /\ bucket[r.bucket].versioning # "Enabled" =>
       \A o \in NullVersion(r.bucket, r.key) : ~Locked(o, FALSE)

\* PutObject's transaction; the files of the version it replaced go next.
PutTx(p) ==
  LET r == req[p]
      o == NewVersion(r)
  IN
  /\ r.stage = "putTx"
  /\ PutAllowed(r)
  /\ PutVersion(o)
  /\ Cleanup(p, Blobs(Replaced(o)))
  /\ UNCHANGED <<bucket, uploads, parts, files, clock, up, faults>>

\* Mutant: the file of a failed write is left where it is.
TxFailsForgetsFile(p) ==
  /\ req[p].stage \in {"putTx", "partTx"}
  /\ Finish(p)
  /\ UNCHANGED <<records, files, clock, up, faults>>

\* A write whose transaction fails removes the file it wrote.
TxFails(p) ==
  /\ req[p].stage \in {"putTx", "partTx"}
  /\ Cleanup(p, {req[p].blob})
  /\ UNCHANGED <<records, files, clock, up, faults>>

\* deleteBlobs: one file after the other; a failure is only logged.
DeleteBlob(p, x, ok) ==
  LET r == req[p] IN
  /\ r.stage = "cleanup"
  /\ x \in r.del
  /\ IF ok THEN files' = files \ {<<r.bucket, x>>} /\ faults' = faults
           ELSE faults < MaxFaults /\ files' = files /\ faults' = faults + 1
  /\ Cleanup(p, r.del \ {x})
  /\ UNCHANGED <<records, clock, up>>

\* Mutant: permanent removal without checkLocked.
DeleteVersionUnlocked(p, o, bypass) ==
  LET r == req[p] IN
  /\ r.stage = "auth"
  /\ LiveBucket(r)
  /\ o \in objects /\ o.bucket = r.bucket
  /\ o.null => o \in NullVersion(o.bucket, o.key)
  /\ RemoveVersion(o)
  /\ Cleanup(p, o.blobs)
  /\ UNCHANGED <<bucket, uploads, parts, files, clock, up, faults>>

\* DeleteObject with a version ID: permanent removal of that version. The
\* preconditions (If-Match, IfSeq, the version authorised against), which
\* only refuse and which some callers do not send, are left out.
DeleteVersion(p, o, bypass) ==
  LET r == req[p] IN
  /\ r.stage = "auth"
  /\ LiveBucket(r)
  /\ o \in objects /\ o.bucket = r.bucket
  /\ o.null => o \in NullVersion(o.bucket, o.key)
  /\ ~Locked(o, bypass)
  /\ RemoveVersion(o)
  /\ Cleanup(p, o.blobs)
  /\ UNCHANGED <<bucket, uploads, parts, files, clock, up, faults>>

\* Mutant: the marker is written with the zero value of a retention mode.
MarkerUnset(b, k, null, seq) ==
  [bucket |-> b, key |-> k, seq |-> seq, null |-> null, marker |-> TRUE,
   blobs |-> {}, hold |-> FALSE, ret |-> ""]

Marker(b, k, null, seq) ==
  [bucket |-> b, key |-> k, seq |-> seq, null |-> null, marker |-> TRUE,
   blobs |-> {}, hold |-> FALSE, ret |-> "none"]

\* DeleteObject without one, versioning on: a delete marker on top.
DeleteEnabled(p, k) ==
  LET r == req[p] IN
  /\ r.stage = "auth"
  /\ LiveBucket(r)
  /\ bucket[r.bucket].versioning = "Enabled"
  /\ Tick
  /\ PutVersion(Marker(r.bucket, k, FALSE, clock'))
  /\ Finish(p)
  /\ UNCHANGED <<bucket, uploads, parts, files, up, faults>>

\* Versioning suspended: a null delete marker replaces the null version.
DeleteSuspended(p, k, bypass) ==
  LET r == req[p] IN
  /\ r.stage = "auth"
  /\ LiveBucket(r)
  /\ bucket[r.bucket].versioning = "Suspended"
  /\ \A o \in NullVersion(r.bucket, k) : ~Locked(o, bypass)
  /\ Tick
  /\ PutVersion(Marker(r.bucket, k, TRUE, clock'))
  /\ Cleanup(p, Blobs(NullVersion(r.bucket, k)))
  /\ UNCHANGED <<bucket, uploads, parts, files, up, faults>>

\* Versioning never on: the object is removed.
DeleteUnversioned(p, o, bypass) ==
  LET r == req[p] IN
  /\ r.stage = "auth"
  /\ LiveBucket(r)
  /\ bucket[r.bucket].versioning = "Off"
  /\ o \in objects /\ IsLatest(o, r.bucket, o.key)
  /\ ~Locked(o, bypass)
  /\ RemoveVersion(o)
  /\ Cleanup(p, o.blobs)
  /\ UNCHANGED <<bucket, uploads, parts, files, clock, up, faults>>

\* Operations that only the API layer calls carry its expectation.
FromApi(r) == r.expect # 0

\* PutObjectRetention and PutObjectLegalHold first read the bucket.
LockStart(p) ==
  LET r == req[p] IN
  /\ r.stage = "auth"
  /\ FromApi(r)
  /\ Live(r.bucket)
  /\ bucket[r.bucket].lock
  /\ Become(p, [r EXCEPT !.stage = "lock"])
  /\ UNCHANGED <<records, files, clock, up, faults>>

\* updateVersion: the record is read and rewritten in one transaction.
UpdateVersion(p, o, n) ==
  LET r == req[p] IN
  /\ r.stage = "lock"
  /\ LiveBucket(r)
  /\ o \in objects /\ o.bucket = r.bucket /\ ~o.marker
  /\ objects' = (objects \ {o}) \cup {n}
  /\ Finish(p)
  /\ UNCHANGED <<bucket, nullVer, uploads, parts, files, clock, up, faults>>

PutObjectLegalHold(p, o, on) == UpdateVersion(p, o, [o EXCEPT !.hold = on])

\* Retention in force is shortened or changed only where the mode lets it be.
PutObjectRetention(p, o, ret, bypass) ==
  /\ o.ret # "none" /\ ret # o.ret => o.ret = "governance" /\ bypass
  /\ UpdateVersion(p, o, [o EXCEPT !.ret = ret])

\* The retention date of a version passes.
RetentionExpires(o) ==
  /\ o \in objects /\ o.ret # "none"
  /\ objects' = (objects \ {o}) \cup {[o EXCEPT !.ret = "none"]}
  /\ UNCHANGED <<bucket, nullVer, uploads, parts, files, clock, req, up, faults>>

\* CreateUpload reads the bucket to validate the attributes ...
UploadStart(p, k, hold, ret) ==
  LET r == req[p] IN
  /\ r.stage = "auth"
  /\ FromApi(r)
  /\ Live(r.bucket)
  /\ ValidAttrs(r.bucket, hold, ret)
  /\ Become(p, [r EXCEPT !.stage = "mpu", !.key = k, !.hold = hold, !.ret = ret])
  /\ UNCHANGED <<records, files, clock, up, faults>>

\* ... and writes the upload record in a transaction.
CreateUpload(p) ==
  LET r == req[p] IN
  /\ r.stage = "mpu"
  /\ LiveBucket(r)
  /\ Tick
  /\ uploads' = uploads \cup
       {[bucket |-> r.bucket, key |-> r.key, id |-> clock', hold |-> r.hold, ret |-> r.ret]}
  /\ Finish(p)
  /\ UNCHANGED <<bucket, objects, nullVer, parts, files, up, faults>>

\* UploadPart reads the upload; WriteBlob follows.
PartStart(p, u, n) ==
  LET r == req[p] IN
  /\ r.stage = "auth"
  /\ FromApi(r)
  /\ LiveBucket(r)
  /\ u \in uploads /\ u.bucket = r.bucket
  /\ Become(p, [r EXCEPT !.stage = "part", !.key = u.key, !.upload = u.id, !.number = n])
  /\ UNCHANGED <<records, files, clock, up, faults>>

\* Mutant: the upload is not looked for again.
PartTxUnchecked(p) ==
  LET r == req[p]
      old == {x \in PartsOf(r.bucket, r.upload) : x.number = r.number}
  IN
  /\ r.stage = "partTx"
  /\ parts' = (parts \ old) \cup
       {[bucket |-> r.bucket, upload |-> r.upload, number |-> r.number, blob |-> r.blob]}
  /\ Cleanup(p, PartBlobs(old))
  /\ UNCHANGED <<bucket, objects, nullVer, uploads, files, clock, up, faults>>

\* UploadPart's transaction looks for the upload again, not for the bucket.
PartTx(p) ==
  LET r == req[p]
      old == {x \in PartsOf(r.bucket, r.upload) : x.number = r.number}
  IN
  /\ r.stage = "partTx"
  /\ UploadOf(r) # {}
  /\ parts' = (parts \ old) \cup
       {[bucket |-> r.bucket, upload |-> r.upload, number |-> r.number, blob |-> r.blob]}
  /\ Cleanup(p, PartBlobs(old))
  /\ UNCHANGED <<bucket, objects, nullVer, uploads, files, clock, up, faults>>

\* CompleteUpload reads the upload; the client lists part numbers ...
CompleteStart(p, u, want, create) ==
  LET r == req[p] IN
  /\ r.stage = "auth"
  /\ FromApi(r)
  /\ LiveBucket(r)
  /\ u \in uploads /\ u.bucket = r.bucket
  /\ want # {}
  /\ Become(p, [r EXCEPT !.stage = "complete", !.key = u.key, !.upload = u.id,
                         !.hold = u.hold, !.ret = u.ret, !.want = want, !.create = create,
                         !.present = create /\ ~Absent(u.bucket, u.key)])
  /\ UNCHANGED <<records, files, clock, up, faults>>

\* ... then the bucket.
CompleteBucket(p) ==
  LET r == req[p] IN
  /\ r.stage = "complete"
  /\ Live(r.bucket)
  /\ Become(p, [r EXCEPT !.stage = "completeTx", !.seen = bucket[r.bucket].created])
  /\ UNCHANGED <<records, files, clock, up, faults>>

\* assemble: the parts the client lists, as they are stored now. One that
\* was replaced is taken if its ETag is the listed one, and else refused,
\* which ReturnEarly covers.
Assembled(r) ==
  LET listed == {x \in PartsOf(r.bucket, r.upload) : x.number \in r.want} IN
  IF r.want \subseteq {x.number : x \in listed} THEN listed ELSE {}

\* CompleteUpload's transaction. The version takes its sequence here, and
\* a null version that is replaced is not checked for a lock.
CompleteTx(p) ==
  LET r == req[p]
      used == Assembled(r)
      o == [NewVersion([r EXCEPT !.blob = clock']) EXCEPT !.blobs = PartBlobs(used)]
      unused == PartBlobs(PartsOf(r.bucket, r.upload)) \ PartBlobs(used)
  IN
  /\ r.stage = "completeTx"
  /\ Exists(r.bucket) /\ SameBucket(r) /\ BucketExpected(r)
  /\ UploadOf(r) # {}
  /\ used # {}
  /\ r.create => Absent(r.bucket, r.key)
  /\ Tick
  /\ RemoveUpload(r.bucket, r.upload)
  /\ PutVersion(o)
  /\ Cleanup(p, unused \cup Blobs(Replaced(o)))
  /\ UNCHANGED <<bucket, files, up, faults>>

\* AbortUpload
AbortUpload(p, u) ==
  LET r == req[p] IN
  /\ r.stage = "auth"
  /\ LiveBucket(r)
  /\ u \in uploads /\ u.bucket = r.bucket
  /\ RemoveUpload(u.bucket, u.id)
  /\ Cleanup(p, PartBlobs(PartsOf(u.bucket, u.id)))
  /\ UNCHANGED <<bucket, objects, nullVer, files, clock, up, faults>>

-----------------------------------------------------------------------------
(* Bucket deletion, crashes and restarts *)

\* Mutant: the uploads in progress are left in the bucket.
MarkDeletingOnly(p, b) ==
  /\ bucket' = [bucket EXCEPT ![b].deleting = TRUE]
  /\ Become(p, [Idle EXCEPT !.stage = "remove", !.bucket = b])
  /\ UNCHANGED <<uploads, parts>>

\* The transaction that marks the record and drops the bucket's uploads.
MarkDeleting(p, b) ==
  /\ bucket' = [bucket EXCEPT ![b].deleting = TRUE]
  /\ uploads' = {u \in uploads : u.bucket # b}
  /\ parts' = {x \in parts : x.bucket # b}
  /\ Become(p, [Idle EXCEPT !.stage = "remove", !.bucket = b])

\* DeleteBucket of an empty bucket.
DeleteBucket(p) ==
  LET r == req[p] IN
  /\ r.stage = "auth"
  /\ LiveBucket(r)
  /\ \A o \in objects : o.bucket # r.bucket
  /\ MarkDeleting(p, r.bucket)
  /\ UNCHANGED <<objects, nullVer, files, clock, up, faults>>

\* DeleteBucketForce, called by the admin API: the objects go too.
DeleteBucketForce(p) ==
  LET b == req[p].bucket IN
  /\ req[p].stage = "auth"
  /\ ~FromApi(req[p])
  /\ Live(b)
  /\ objects' = {o \in objects : o.bucket # b}
  /\ nullVer' = [nullVer EXCEPT ![b] = [k \in Keys |-> 0]]
  /\ MarkDeleting(p, b)
  /\ UNCHANGED <<files, clock, up, faults>>

\* finishDelete: RemoveAll unlinks the files of the directory one by one.
RemoveFile(p, x) ==
  LET b == req[p].bucket IN
  /\ req[p].stage = "remove"
  /\ <<b, x>> \in files
  /\ files' = files \ {<<b, x>>}
  /\ UNCHANGED <<records, clock, req, up, faults>>

\* The directory is gone.
RemoveDone(p) ==
  LET b == req[p].bucket IN
  /\ req[p].stage = "remove"
  /\ \A x \in 1..clock : <<b, x>> \notin files
  /\ Become(p, [req[p] EXCEPT !.stage = "drop"])
  /\ UNCHANGED <<records, files, clock, up, faults>>

\* RemoveAll fails, for one because a file appeared behind it: the request
\* returns, or the start is given up, and the record stays marked.
RemoveFails(p) ==
  /\ req[p].stage = "remove"
  /\ faults < MaxFaults
  /\ faults' = faults + 1
  /\ Finish(p)
  /\ UNCHANGED <<records, files, clock, up>>

\* The record goes last.
DropRecord(p) ==
  LET b == req[p].bucket IN
  /\ req[p].stage = "drop"
  /\ bucket' = IF bucket[b].deleting THEN [bucket EXCEPT ![b] = NoBucket] ELSE bucket
  /\ Finish(p)
  /\ UNCHANGED <<objects, nullVer, uploads, parts, files, clock, up, faults>>

\* The process dies: requests are forgotten, both stores stay as they are.
Crash ==
  /\ faults < MaxFaults
  /\ faults' = faults + 1
  /\ req' = [p \in Reqs |-> Idle]
  /\ up' = FALSE
  /\ UNCHANGED <<records, files, clock>>

\* FinishDeletes takes the next bucket marked as deleting; p stands for the
\* start-up goroutine.
FinishDeletes(p, b) ==
  /\ ~up
  /\ \A q \in Reqs : req[q].stage = "idle"
  /\ Exists(b) /\ bucket[b].deleting
  /\ Become(p, [Idle EXCEPT !.stage = "remove", !.bucket = b])
  /\ UNCHANGED <<records, files, clock, up, faults>>

\* The server listens once none is left.
Serve ==
  /\ ~up
  /\ \A q \in Reqs : req[q].stage = "idle"
  /\ \A b \in Buckets : ~bucket[b].deleting
  /\ up' = TRUE
  /\ UNCHANGED <<records, files, clock, req, faults>>

-----------------------------------------------------------------------------

BucketStep(p) ==
  \/ \E b \in Buckets, c \in Callers : Authorize(p, b, c)
  \/ ReturnEarly(p)
  \/ \E v \in {"Enabled", "Suspended"} : PutBucketVersioning(p, v)
  \/ TRUE \in Locking /\ PutObjectLockConfig(p)
  \/ DeleteBucket(p)
  \/ DeleteBucketForce(p)
  \/ \E x \in 1..clock : RemoveFile(p, x)
  \/ RemoveDone(p)
  \/ RemoveFails(p)
  \/ DropRecord(p)

ObjectStep(p) ==
  \/ \E k \in Keys, h \in Locking, t \in Retentions, c \in Conditions : PutStart(p, k, h, t, c)
  \/ \E ok \in BOOLEAN : WriteBlob(p, ok)
  \/ PutTx(p)
  \/ TxFails(p)
  \/ \E x \in req[p].del, ok \in BOOLEAN : DeleteBlob(p, x, ok)
  \/ \E o \in objects, bypass \in BOOLEAN : DeleteVersion(p, o, bypass)
  \/ \E k \in Keys : DeleteEnabled(p, k)
  \/ \E k \in Keys, bypass \in BOOLEAN : DeleteSuspended(p, k, bypass)
  \/ \E o \in objects, bypass \in BOOLEAN : DeleteUnversioned(p, o, bypass)
  \/ LockStart(p)
  \/ \E o \in objects, on \in BOOLEAN : PutObjectLegalHold(p, o, on)
  \/ \E o \in objects, t \in Retentions, bypass \in BOOLEAN : PutObjectRetention(p, o, t, bypass)

UploadStep(p) ==
  \/ \E k \in Keys, h \in Locking, t \in Retentions : UploadStart(p, k, h, t)
  \/ CreateUpload(p)
  \/ \E u \in uploads, n \in PartNumbers : PartStart(p, u, n)
  \/ PartTx(p)
  \/ \E u \in uploads, want \in SUBSET PartNumbers, c \in Conditions :
       CompleteStart(p, u, want, c)
  \/ CompleteBucket(p)
  \/ CompleteTx(p)
  \/ \E u \in uploads : AbortUpload(p, u)

Next ==
  \/ \E b \in Buckets, lock \in Locking : CreateBucket(b, lock)
  \/ \E p \in Reqs : BucketStep(p) \/ ObjectStep(p) \/ UploadStep(p)
  \/ \E o \in objects : RetentionExpires(o)
  \/ Crash
  \/ \E p \in Reqs, b \in Buckets : FinishDeletes(p, b)
  \/ Serve

Spec == Init /\ [][Next]_vars

-----------------------------------------------------------------------------
(* Properties *)

\* A version or part record never names a file that is not there: no
\* interleaving of overwrites, part replacements, completions, bucket
\* removals and crashes leaves an object pointing at a deleted file.
NoDanglingBlob ==
  /\ \A o \in objects : \A x \in o.blobs : <<o.bucket, x>> \in files
  /\ \A x \in parts : <<x.bucket, x.blob>> \in files

Referenced(b, x) ==
  \/ \E o \in objects : o.bucket = b /\ x \in o.blobs
  \/ \E y \in parts : y.bucket = b /\ y.blob = x

\* While nothing has crashed and no removal has failed, every data file is
\* named by a record, in the hands of a request that will commit or remove
\* it, or in a bucket under removal: no path of the service forgets a file.
NoLeakedBlob ==
  faults = 0 =>
    \A f \in files :
      \/ Referenced(f[1], f[2])
      \/ \E p \in Reqs : req[p].bucket = f[1] /\ (req[p].blob = f[2] \/ f[2] \in req[p].del)
      \/ bucket[f[1]].deleting

\* Every record belongs to a bucket that exists and is not being deleted,
\* and every part to an upload in progress: a bucket that was deleted, even
\* by a process that died halfway, leaves nothing for its successor.
RecordsHaveBucket ==
  /\ \A o \in objects : Live(o.bucket)
  /\ \A u \in uploads : Live(u.bucket)
  /\ \A x \in parts : \E u \in uploads : u.bucket = x.bucket /\ u.id = x.upload

\* The null pointer of a key leads to its null version, and a key without a
\* pointer has none: writes, deletes and versioning changes never leave two
\* null versions or a pointer to nothing.
NullPointerExact ==
  \A b \in Buckets, k \in Keys :
    {o.seq : o \in {v \in Versions(b, k) : v.null}} =
      (IF nullVer[b][k] = 0 THEN {} ELSE {nullVer[b][k]})

\* A version or upload under a legal hold or retention is in a bucket with
\* Object Lock and versioning on. CompleteUpload relies on it: it replaces
\* a null version without looking at its lock.
LockNeedsVersioning ==
  \A o \in objects \cup uploads :
    (o.hold \/ o.ret # "none") =>
      bucket[o.bucket].lock /\ bucket[o.bucket].versioning = "Enabled"

\* No step removes or rewrites the data of a version under a legal hold or
\* compliance retention, except the forced removal of its bucket.
LockedVersionsSurvive ==
  [][\A o \in objects : Locked(o, TRUE) =>
       \/ \E n \in objects' : /\ n.bucket = o.bucket /\ n.key = o.key /\ n.seq = o.seq
                               /\ n.blobs = o.blobs /\ ~n.marker
       \/ bucket[o.bucket]'.deleting]_vars

\* A request bound to a bucket changes the records of that bucket only, and
\* never those of a bucket created later under the same name. UploadPart,
\* which does not look at the bucket again, is covered because its upload
\* went with the old bucket.
AuthorisedBucketOnly ==
  [][\A p \in Reqs :
       req'[p] # req[p] /\ req[p].expect # 0 /\ up'
         /\ <<objects, uploads, parts>>' # <<objects, uploads, parts>>
       => bucket[req[p].bucket].created = req[p].expect]_vars

\* A write under If-None-Match: * that found the key taken when it began can
\* only succeed after the object was deleted, so its version is then the
\* latest one: create-only writes take effect where they were decided.
ConditionalWriteIsLatest ==
  [][\A p \in Reqs : req[p].present /\ req'[p] # req[p] =>
       \A o \in objects' \ objects, x \in objects' :
         x.bucket = o.bucket /\ x.key = o.key => x.seq <= o.seq]_vars
=============================================================================
