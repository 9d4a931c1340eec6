------------------------- MODULE ObjectStoreProofs -------------------------
(***************************************************************************)
(* Proofs about ObjectStore for every value of its constants: the types,   *)
(* and that no metadata record ever names a data file that is not there.   *)
(***************************************************************************)
EXTENDS ObjectStore, TLAPS

-----------------------------------------------------------------------------
(* The inductive invariant *)

\* Every identifier in use was handed out.
Stamped ==
  /\ \A b \in Buckets : bucket[b].created <= clock
  /\ \A o \in objects : \A x \in o.blobs : x <= clock
  /\ \A u \in uploads : u.id <= clock
  /\ \A y \in parts : y.blob <= clock
  /\ \A p \in Reqs : /\ req[p].seen <= clock
                     /\ req[p].upload <= clock
                     /\ req[p].blob <= clock
                     /\ \A x \in req[p].del : x <= clock

\* The files a request has written or has to remove, no record naming them.
Holds(r) == r.del \cup (IF r.stage \in {"putTx", "partTx"} THEN {r.blob} ELSE {})

\* A file has one owner: a version, a part or a request.
OneOwner ==
  /\ \A o1, o2 \in objects : \A x \in o1.blobs : x \in o2.blobs => o1 = o2
  /\ \A y1, y2 \in parts : y1.blob = y2.blob => y1 = y2
  /\ \A o \in objects, y \in parts : y.blob \notin o.blobs
  /\ \A p \in Reqs : \A x \in Holds(req[p]) :
       /\ \A o \in objects : x \notin o.blobs
       /\ \A y \in parts : y.blob # x
       /\ \A q \in Reqs : q # p => x \notin Holds(req[q])

\* A request removes the directory of a bucket only while the record says
\* so, and no two requests remove the same one.
Removing(r) == r.stage \in {"remove", "drop"}

OneRemover ==
  \A p \in Reqs : Removing(req[p]) =>
    /\ Exists(req[p].bucket) /\ bucket[req[p].bucket].deleting
    /\ \A q \in Reqs : Removing(req[q]) /\ req[q].bucket = req[p].bucket => q = p

\* The file of a write whose transaction can still succeed is there.
Awaited(r) ==
  \/ r.stage = "putTx" /\ Exists(r.bucket) /\ SameBucket(r)
  \/ r.stage = "partTx" /\ UploadOf(r) # {}

WrittenFileKept ==
  \A p \in Reqs : Awaited(req[p]) => <<req[p].bucket, req[p].blob>> \in files

IInv ==
  /\ TypeOK
  /\ Stamped
  /\ OneOwner
  /\ OneRemover
  /\ RecordsHaveBucket
  /\ WrittenFileKept
  /\ NoDanglingBlob

-----------------------------------------------------------------------------
(* Types *)

\* A goroutine that serves no request holds a well-formed request.
LEMMA IdleType == Idle \in Request
  BY StoreAssumption DEF Idle, Request, Stages

\* What the requests turn into is a request again.
LEMMA RequestTypes ==
  ASSUME TypeOK, NEW p \in Reqs
  PROVE  /\ Finish(p) => req' \in [Reqs -> Request]
         /\ \A s \in SUBSET Nat : Cleanup(p, s) => req' \in [Reqs -> Request]
         /\ \A r \in Request : Become(p, r) => req' \in [Reqs -> Request]
  <1>1. \A r \in Request : Become(p, r) => req' \in [Reqs -> Request]
    BY DEF TypeOK, Become
  <1>2. \A s \in SUBSET Nat :
          [Idle EXCEPT !.stage = "cleanup", !.bucket = req[p].bucket, !.del = s] \in Request
    BY IdleType DEF TypeOK, Request, Stages
  <1> QED
    BY <1>1, <1>2, IdleType DEF Finish, Cleanup

\* The empty stores of a first start have their types.
LEMMA InitType == Init => TypeOK
  BY IdleType, StoreAssumption DEF Init, TypeOK, NoBucket, Bucket

\* What PutObject and DeleteVersion of the metadata layer write is of the records' types.
LEMMA VersionTypes ==
  ASSUME TypeOK
  PROVE  /\ \A o \in Version : PutVersion(o) =>
              objects' \subseteq Version /\ nullVer' \in [Buckets -> [Keys -> Nat]]
         /\ \A o \in Version : RemoveVersion(o) =>
              objects' \subseteq Version /\ nullVer' \in [Buckets -> [Keys -> Nat]]
         /\ \A o \in Version : Blobs(Replaced(o)) \subseteq Nat
         /\ \A b \in Buckets, k \in Keys : Blobs(NullVersion(b, k)) \subseteq Nat
         /\ \A r \in Request : NewVersion(r) \in Version
         /\ \A b \in Buckets, k \in Keys, n \in BOOLEAN, s \in Nat : Marker(b, k, n, s) \in Version
  <1>1. ASSUME NEW o \in Version, PutVersion(o)
        PROVE  objects' \subseteq Version /\ nullVer' \in [Buckets -> [Keys -> Nat]]
    BY <1>1 DEF TypeOK, PutVersion, Version
  <1>2. ASSUME NEW o \in Version, RemoveVersion(o)
        PROVE  objects' \subseteq Version /\ nullVer' \in [Buckets -> [Keys -> Nat]]
    BY <1>2 DEF TypeOK, RemoveVersion, Version
  <1>3. ASSUME NEW b \in Buckets, NEW k \in Keys PROVE Blobs(NullVersion(b, k)) \subseteq Nat
    BY DEF TypeOK, Blobs, NullVersion, Versions, Version
  <1>4. ASSUME NEW o \in Version PROVE Blobs(Replaced(o)) \subseteq Nat
    <2>1. CASE o.null
      BY <2>1, <1>3 DEF Replaced, Version
    <2>2. CASE ~o.null
      BY <2>2 DEF Replaced, Blobs
    <2> QED BY <2>1, <2>2
  <1>5. ASSUME NEW r \in Request PROVE NewVersion(r) \in Version
    BY DEF NewVersion, Version, Request
  <1>6. ASSUME NEW b \in Buckets, NEW k \in Keys, NEW n \in BOOLEAN, NEW s \in Nat
        PROVE  Marker(b, k, n, s) \in Version
    BY StoreAssumption DEF Marker, Version
  <1> QED
    BY <1>1, <1>2, <1>3, <1>4, <1>5, <1>6

\* What UploadPart and DeleteUpload write is of the records' types.
LEMMA UploadTypes ==
  ASSUME TypeOK
  PROVE  /\ \A b, id : RemoveUpload(b, id) => uploads' \subseteq Upload /\ parts' \subseteq Part
         /\ \A ps \in SUBSET Part : PartBlobs(ps) \subseteq Nat
         /\ \A b, id : PartsOf(b, id) \in SUBSET Part
         /\ \A r \in Request : Assembled(r) \in SUBSET Part
  <1>1. \A b, id : RemoveUpload(b, id) => uploads' \subseteq Upload /\ parts' \subseteq Part
    BY DEF RemoveUpload, TypeOK
  <1>2. \A ps \in SUBSET Part : PartBlobs(ps) \subseteq Nat
    BY DEF PartBlobs, Part
  <1>3. \A b, id : PartsOf(b, id) \in SUBSET Part
    BY DEF PartsOf, TypeOK
  <1>4. \A r \in Request : Assembled(r) \in SUBSET Part
    BY DEF Assembled, PartsOf, TypeOK
  <1> QED
    BY <1>1, <1>2, <1>3, <1>4

\* Sequencer.Next hands out the next number.
LEMMA TickType == TypeOK /\ Tick => clock' \in Nat /\ clock' = clock + 1
  BY DEF TypeOK, Tick

\* UpdateBucket sets fields to values of their types.
LEMMA BucketFieldTypes ==
  ASSUME NEW b \in Bucket, NEW v \in {"Off", "Enabled", "Suspended"}
  PROVE  [b EXCEPT !.versioning = v] \in Bucket /\ [b EXCEPT !.lock = TRUE] \in Bucket
  BY DEF Bucket

\* The bucket operations preserve the types.
LEMMA BucketStepType == ASSUME TypeOK, NEW p \in Reqs, BucketStep(p) PROVE TypeOK'
  <1> DEFINE r == req[p]
  <1>a. r \in Request /\ r.bucket \in Buckets
    BY DEF TypeOK, Request
  <1>1. ASSUME NEW b \in Buckets, NEW c \in Callers, Authorize(p, b, c) PROVE TypeOK'
    <2>1. [Idle EXCEPT !.stage = "auth", !.bucket = b,
             !.expect = IF c = "api" THEN bucket[b].created ELSE 0] \in Request
      BY IdleType DEF TypeOK, Request, Stages, Bucket
    <2> QED BY <1>1, <2>1, RequestTypes DEF Authorize, TypeOK, records
  <1>2. CASE ReturnEarly(p)
    BY <1>2, RequestTypes DEF ReturnEarly, TypeOK, records
  <1>3. ASSUME NEW v \in {"Enabled", "Suspended"}, PutBucketVersioning(p, v) PROVE TypeOK'
    <2>1. bucket' \in [Buckets -> Bucket]
      <3>1. [bucket[r.bucket] EXCEPT !.versioning = v] \in Bucket
        BY <1>a, BucketFieldTypes DEF TypeOK
      <3>2. bucket' = [bucket EXCEPT ![r.bucket] = [bucket[r.bucket] EXCEPT !.versioning = v]]
        BY <1>3 DEF PutBucketVersioning
      <3> QED BY <3>1, <3>2, <1>a DEF TypeOK
    <2> QED BY <1>3, <2>1, RequestTypes DEF PutBucketVersioning, TypeOK
  <1>4. CASE PutObjectLockConfig(p)
    <2>1. bucket' \in [Buckets -> Bucket]
      <3>1. [bucket[r.bucket] EXCEPT !.lock = TRUE] \in Bucket
        BY <1>a, BucketFieldTypes DEF TypeOK
      <3>2. bucket' = [bucket EXCEPT ![r.bucket] = [bucket[r.bucket] EXCEPT !.lock = TRUE]]
        BY <1>4 DEF PutObjectLockConfig
      <3> QED BY <3>1, <3>2, <1>a DEF TypeOK
    <2>2. req' \in [Reqs -> Request]
      BY <1>4, RequestTypes DEF PutObjectLockConfig, TypeOK
    <2> QED BY <1>4, <2>1, <2>2 DEF PutObjectLockConfig, TypeOK
  <1>5. ASSUME NEW b \in Buckets, MarkDeleting(p, b)
        PROVE  /\ bucket' \in [Buckets -> Bucket] /\ uploads' \subseteq Upload
               /\ parts' \subseteq Part /\ req' \in [Reqs -> Request]
    <2>1. [Idle EXCEPT !.stage = "remove", !.bucket = b] \in Request
      BY IdleType DEF Request, Stages
    <2>2. bucket' \in [Buckets -> Bucket]
      BY <1>5 DEF MarkDeleting, TypeOK, Bucket
    <2> QED BY <1>5, <2>1, <2>2, RequestTypes DEF MarkDeleting, TypeOK
  <1>6. CASE DeleteBucket(p)
    BY <1>6, <1>5, <1>a DEF DeleteBucket, TypeOK
  <1>7. CASE DeleteBucketForce(p)
    BY <1>7, <1>5, <1>a DEF DeleteBucketForce, TypeOK
  <1>8. ASSUME NEW x \in 1..clock, RemoveFile(p, x) PROVE TypeOK'
    BY <1>8 DEF RemoveFile, TypeOK, records
  <1>9. CASE RemoveDone(p)
    <2>1. [req[p] EXCEPT !.stage = "drop"] \in Request
      BY <1>a DEF Request, Stages
    <2> QED BY <1>9, <2>1, RequestTypes DEF RemoveDone, TypeOK, records
  <1>10. CASE RemoveFails(p)
    BY <1>10, RequestTypes DEF RemoveFails, TypeOK, records
  <1>11. CASE DropRecord(p)
    <2>1. bucket' \in [Buckets -> Bucket]
      BY <1>11, <1>a DEF DropRecord, TypeOK, Bucket, NoBucket
    <2> QED BY <1>11, <2>1, RequestTypes DEF DropRecord, TypeOK
  <1> QED
    BY <1>1, <1>2, <1>3, <1>4, <1>6, <1>7, <1>8, <1>9, <1>10, <1>11 DEF BucketStep

\* The object operations preserve the types.
LEMMA ObjectStepType == ASSUME TypeOK, NEW p \in Reqs, ObjectStep(p) PROVE TypeOK'
  <1> DEFINE r == req[p]
  <1>a. /\ r \in Request /\ r.bucket \in Buckets /\ r.blob \in Nat
        /\ r.del \in SUBSET Nat
    BY DEF TypeOK, Request
  <1>b. objects \subseteq Version /\ clock \in Nat /\ NewVersion(r) \in Version
    BY <1>a, VersionTypes DEF TypeOK
  <1>1. ASSUME NEW k \in Keys, NEW h \in Locking, NEW t \in Retentions, NEW c \in Conditions,
               PutStart(p, k, h, t, c)
        PROVE  TypeOK'
    <2>1. bucket[r.bucket].created \in Nat /\ h \in BOOLEAN /\ c \in BOOLEAN
      BY <1>a, StoreAssumption DEF TypeOK, Bucket
    <2> DEFINE a == c /\ ~Absent(r.bucket, k)
    <2>2. a \in BOOLEAN
      OBVIOUS
    <2> HIDE DEF a
    <2>3. [r EXCEPT !.stage = "put", !.key = k, !.hold = h, !.ret = t, !.create = c,
             !.present = a,
             !.seen = bucket[r.bucket].created] \in Request
      <3> HIDE DEF r
      <3> QED BY <2>1, <2>2, <1>a DEF Request, Stages
    <2>4. req' \in [Reqs -> Request]
      BY <1>1, <2>3, RequestTypes DEF PutStart, a
    <2> QED BY <1>1, <2>4 DEF PutStart, TypeOK, records
  <1>2. ASSUME NEW ok \in BOOLEAN, WriteBlob(p, ok) PROVE TypeOK'
    <2>1. clock' \in Nat
      BY <1>2, TickType DEF WriteBlob
    <2>2. [r EXCEPT !.stage = IF r.stage = "put" THEN "putTx" ELSE "partTx",
                    !.blob = clock'] \in Request
      BY <1>a, <2>1 DEF Request, Stages
    <2>3. req' \in [Reqs -> Request]
      BY <1>2, <2>1, <2>2, RequestTypes DEF WriteBlob
    <2> QED BY <1>2, <1>a, <2>1, <2>3 DEF WriteBlob, TypeOK, records
  <1>3. CASE PutTx(p)
    <2>1. Blobs(Replaced(NewVersion(r))) \in SUBSET Nat
      BY <1>b, VersionTypes
    <2>2. req' \in [Reqs -> Request]
      BY <1>3, <2>1, RequestTypes DEF PutTx
    <2>3. objects' \subseteq Version /\ nullVer' \in [Buckets -> [Keys -> Nat]]
      BY <1>3, <1>b, VersionTypes DEF PutTx
    <2> QED BY <1>3, <2>2, <2>3 DEF PutTx, TypeOK
  <1>4. CASE TxFails(p)
    <2>1. {r.blob} \in SUBSET Nat
      BY <1>a
    <2> QED BY <1>4, <2>1, RequestTypes DEF TxFails, TypeOK, records
  <1>5. ASSUME NEW x \in r.del, NEW ok \in BOOLEAN, DeleteBlob(p, x, ok) PROVE TypeOK'
    <2>1. r.del \ {x} \in SUBSET Nat
      BY <1>a
    <2> QED BY <1>5, <2>1, RequestTypes DEF DeleteBlob, TypeOK, records
  <1>7. ASSUME NEW o \in objects, RemoveVersion(o), Cleanup(p, o.blobs)
        PROVE  /\ objects' \subseteq Version /\ nullVer' \in [Buckets -> [Keys -> Nat]]
               /\ req' \in [Reqs -> Request]
    <2>1. o \in Version /\ o.blobs \in SUBSET Nat
      BY <1>b DEF Version
    <2> QED BY <1>7, <2>1, VersionTypes, RequestTypes
  <1>8. ASSUME NEW o \in objects, NEW bypass \in BOOLEAN, DeleteVersion(p, o, bypass)
        PROVE  TypeOK'
    BY <1>8, <1>7 DEF DeleteVersion, TypeOK
  <1>9. ASSUME NEW o \in objects, NEW bypass \in BOOLEAN, DeleteUnversioned(p, o, bypass)
        PROVE  TypeOK'
    BY <1>9, <1>7 DEF DeleteUnversioned, TypeOK
  <1>10. ASSUME NEW k \in Keys, DeleteEnabled(p, k) PROVE TypeOK'
    <2>1. clock' \in Nat
      BY <1>10, TickType DEF DeleteEnabled
    <2>2. Marker(r.bucket, k, FALSE, clock') \in Version
      BY <2>1, <1>a, VersionTypes
    <2>3. objects' \subseteq Version /\ nullVer' \in [Buckets -> [Keys -> Nat]]
      BY <1>10, <2>2, VersionTypes DEF DeleteEnabled
    <2>4. req' \in [Reqs -> Request]
      BY <1>10, RequestTypes DEF DeleteEnabled
    <2> QED BY <1>10, <2>1, <2>3, <2>4 DEF DeleteEnabled, TypeOK
  <1>11. ASSUME NEW k \in Keys, NEW bypass \in BOOLEAN, DeleteSuspended(p, k, bypass)
         PROVE  TypeOK'
    <2>1. clock' \in Nat
      BY <1>11, TickType DEF DeleteSuspended
    <2>2. Marker(r.bucket, k, TRUE, clock') \in Version
      BY <2>1, <1>a, VersionTypes
    <2>3. objects' \subseteq Version /\ nullVer' \in [Buckets -> [Keys -> Nat]]
      BY <1>11, <2>2, VersionTypes DEF DeleteSuspended
    <2>4. Blobs(NullVersion(r.bucket, k)) \in SUBSET Nat
      BY <1>a, VersionTypes
    <2>5. req' \in [Reqs -> Request]
      BY <1>11, <2>4, RequestTypes DEF DeleteSuspended
    <2> QED BY <1>11, <2>1, <2>3, <2>5 DEF DeleteSuspended, TypeOK
  <1>12. CASE LockStart(p)
    <2>1. [r EXCEPT !.stage = "lock"] \in Request
      BY <1>a DEF Request, Stages
    <2> QED BY <1>12, <2>1, RequestTypes DEF LockStart, TypeOK, records
  <1>13. ASSUME NEW o \in objects, NEW n \in Version, UpdateVersion(p, o, n) PROVE TypeOK'
    <2>1. objects' \subseteq Version
      BY <1>13, <1>b DEF UpdateVersion
    <2> QED BY <1>13, <2>1, RequestTypes DEF UpdateVersion, TypeOK
  <1>14. ASSUME NEW o \in objects, NEW on \in BOOLEAN, PutObjectLegalHold(p, o, on)
         PROVE  TypeOK'
    <2>1. [o EXCEPT !.hold = on] \in Version
      BY <1>b DEF Version
    <2> QED BY <1>14, <1>13, <2>1 DEF PutObjectLegalHold
  <1>15. ASSUME NEW o \in objects, NEW t \in Retentions, NEW bypass \in BOOLEAN,
                PutObjectRetention(p, o, t, bypass)
         PROVE  TypeOK'
    <2>1. [o EXCEPT !.ret = t] \in Version
      BY <1>b DEF Version
    <2> QED BY <1>15, <1>13, <2>1 DEF PutObjectRetention
  <1> QED
    BY <1>1, <1>2, <1>3, <1>4, <1>5, <1>8, <1>9, <1>10, <1>11, <1>12, <1>14, <1>15
    DEF ObjectStep

\* The multipart operations preserve the types.
LEMMA UploadStepType == ASSUME TypeOK, NEW p \in Reqs, UploadStep(p) PROVE TypeOK'
  <1> DEFINE r == req[p]
  <1>a. /\ r \in Request /\ r.bucket \in Buckets /\ r.key \in Keys /\ r.blob \in Nat
        /\ r.upload \in Nat /\ r.number \in PartNumbers
        /\ r.hold \in BOOLEAN /\ r.ret \in Retentions
    BY DEF TypeOK, Request
  <1>1. ASSUME NEW k \in Keys, NEW h \in Locking, NEW t \in Retentions, UploadStart(p, k, h, t)
        PROVE  TypeOK'
    <2>1. [r EXCEPT !.stage = "mpu", !.key = k, !.hold = h, !.ret = t] \in Request
      BY <1>a, StoreAssumption DEF Request, Stages
    <2> QED BY <1>1, <2>1, RequestTypes DEF UploadStart, TypeOK, records
  <1>2. CASE CreateUpload(p)
    <2>1. clock' \in Nat
      BY <1>2, TickType DEF CreateUpload
    <2>2. [bucket |-> r.bucket, key |-> r.key, id |-> clock', hold |-> r.hold, ret |-> r.ret]
            \in Upload
      BY <1>a, <2>1 DEF Upload
    <2>3. uploads' \subseteq Upload
      BY <1>2, <2>2 DEF CreateUpload, TypeOK
    <2> QED BY <1>2, <2>1, <2>3, RequestTypes DEF CreateUpload, TypeOK
  <1>3. ASSUME NEW u \in uploads, NEW n \in PartNumbers, PartStart(p, u, n) PROVE TypeOK'
    <2>1. u.key \in Keys /\ u.id \in Nat
      BY DEF TypeOK, Upload
    <2>2. [r EXCEPT !.stage = "part", !.key = u.key, !.upload = u.id, !.number = n] \in Request
      BY <1>a, <2>1 DEF Request, Stages
    <2> QED BY <1>3, <2>2, RequestTypes DEF PartStart, TypeOK, records
  <1>4. CASE PartTx(p)
    <2> DEFINE old == {x \in PartsOf(r.bucket, r.upload) : x.number = r.number}
    <2>1. old \in SUBSET Part
      BY UploadTypes
    <2>2. PartBlobs(old) \in SUBSET Nat
      BY <2>1, UploadTypes
    <2>3. [bucket |-> r.bucket, upload |-> r.upload, number |-> r.number, blob |-> r.blob]
            \in Part
      BY <1>a DEF Part
    <2>4. parts' \subseteq Part
      BY <1>4, <2>3 DEF PartTx, TypeOK
    <2>5. req' \in [Reqs -> Request]
      BY <1>4, <2>2, RequestTypes DEF PartTx
    <2> QED BY <1>4, <2>4, <2>5 DEF PartTx, TypeOK
  <1>5. ASSUME NEW u \in uploads, NEW want \in SUBSET PartNumbers, NEW c \in Conditions,
               CompleteStart(p, u, want, c)
        PROVE  TypeOK'
    <2>1. /\ u.key \in Keys /\ u.id \in Nat /\ u.hold \in BOOLEAN /\ u.ret \in Retentions
          /\ c \in BOOLEAN
      BY StoreAssumption DEF TypeOK, Upload
    <2> DEFINE a == c /\ ~Absent(u.bucket, u.key)
    <2>2. a \in BOOLEAN
      OBVIOUS
    <2> HIDE DEF a
    <2>3. [r EXCEPT !.stage = "complete", !.key = u.key, !.upload = u.id,
             !.hold = u.hold, !.ret = u.ret, !.want = want, !.create = c,
             !.present = a] \in Request
      <3> HIDE DEF r
      <3> QED BY <2>1, <2>2, <1>a DEF Request, Stages
    <2>4. req' \in [Reqs -> Request]
      BY <1>5, <2>3, RequestTypes DEF CompleteStart, a
    <2> QED BY <1>5, <2>4 DEF CompleteStart, TypeOK, records
  <1>6. CASE CompleteBucket(p)
    <2>1. bucket[r.bucket].created \in Nat
      BY <1>a DEF TypeOK, Bucket
    <2>2. [r EXCEPT !.stage = "completeTx", !.seen = bucket[r.bucket].created] \in Request
      BY <1>a, <2>1 DEF Request, Stages
    <2> QED BY <1>6, <2>2, RequestTypes DEF CompleteBucket, TypeOK, records
  <1>7. CASE CompleteTx(p)
    <2> DEFINE used == Assembled(r)
               o == [NewVersion([r EXCEPT !.blob = clock']) EXCEPT !.blobs = PartBlobs(used)]
               unused == PartBlobs(PartsOf(r.bucket, r.upload)) \ PartBlobs(used)
    <2>1. clock' \in Nat
      BY <1>7, TickType DEF CompleteTx
    <2>2. [r EXCEPT !.blob = clock'] \in Request
      BY <1>a, <2>1 DEF Request
    <2>3. PartBlobs(used) \in SUBSET Nat /\ PartBlobs(PartsOf(r.bucket, r.upload)) \in SUBSET Nat
      BY <1>a, UploadTypes
    <2>4. o \in Version
      <3>1. NewVersion([r EXCEPT !.blob = clock']) \in Version
        BY <2>2, VersionTypes
      <3> QED BY <3>1, <2>3 DEF Version
    <2>5. objects' \subseteq Version /\ nullVer' \in [Buckets -> [Keys -> Nat]]
      <3>1. PutVersion(o)
        BY <1>7 DEF CompleteTx
      <3> QED BY <3>1, <2>4, VersionTypes
    <2>6. unused \cup Blobs(Replaced(o)) \in SUBSET Nat
      BY <2>3, <2>4, VersionTypes
    <2>7. req' \in [Reqs -> Request]
      <3>1. Cleanup(p, unused \cup Blobs(Replaced(o)))
        BY <1>7 DEF CompleteTx
      <3> QED BY <3>1, <2>6, RequestTypes
    <2>8. uploads' \subseteq Upload /\ parts' \subseteq Part
      BY <1>7, UploadTypes DEF CompleteTx
    <2> QED BY <1>7, <2>1, <2>5, <2>7, <2>8 DEF CompleteTx, TypeOK
  <1>8. ASSUME NEW u \in uploads, AbortUpload(p, u) PROVE TypeOK'
    <2>1. PartBlobs(PartsOf(u.bucket, u.id)) \in SUBSET Nat
      BY UploadTypes
    <2>2. req' \in [Reqs -> Request]
      BY <1>8, <2>1, RequestTypes DEF AbortUpload
    <2>3. uploads' \subseteq Upload /\ parts' \subseteq Part
      BY <1>8, UploadTypes DEF AbortUpload
    <2> QED BY <1>8, <2>2, <2>3 DEF AbortUpload, TypeOK
  <1> QED
    BY <1>1, <1>2, <1>3, <1>4, <1>5, <1>6, <1>7, <1>8 DEF UploadStep

\* Every step of the service, crashes and restarts included, preserves the types.
LEMMA NextType == TypeOK /\ [Next]_vars => TypeOK'
  <1> SUFFICES ASSUME TypeOK, [Next]_vars PROVE TypeOK'
    OBVIOUS
  <1>1. ASSUME NEW b \in Buckets, NEW lock \in Locking, CreateBucket(b, lock) PROVE TypeOK'
    <2>1. clock' \in Nat /\ lock \in BOOLEAN
      BY <1>1, TickType, StoreAssumption DEF CreateBucket
    <2>2. bucket' \in [Buckets -> Bucket]
      BY <1>1, <2>1 DEF CreateBucket, TypeOK, Bucket
    <2> QED BY <1>1, <2>1, <2>2 DEF CreateBucket, TypeOK
  <1>2. ASSUME NEW p \in Reqs, BucketStep(p) \/ ObjectStep(p) \/ UploadStep(p) PROVE TypeOK'
    BY <1>2, BucketStepType, ObjectStepType, UploadStepType
  <1>3. ASSUME NEW o \in objects, RetentionExpires(o) PROVE TypeOK'
    <2>1. o \in Version /\ "none" \in Retentions
      BY StoreAssumption DEF TypeOK
    <2>2. [o EXCEPT !.ret = "none"] \in Version
      BY <2>1 DEF Version
    <2> QED BY <1>3, <2>2 DEF RetentionExpires, TypeOK
  <1>4. CASE Crash
    <2>1. req' \in [Reqs -> Request]
      BY <1>4, IdleType DEF Crash
    <2>2. faults' \in Nat
      BY <1>4 DEF Crash, TypeOK
    <2>3. up' \in BOOLEAN
      BY <1>4 DEF Crash
    <2> QED BY <1>4, <2>1, <2>2, <2>3 DEF Crash, TypeOK, records
  <1>5. ASSUME NEW p \in Reqs, NEW b \in Buckets, FinishDeletes(p, b) PROVE TypeOK'
    <2>1. [Idle EXCEPT !.stage = "remove", !.bucket = b] \in Request
      BY IdleType DEF Request, Stages
    <2> QED BY <1>5, <2>1, RequestTypes DEF FinishDeletes, TypeOK, records
  <1>6. CASE Serve
    BY <1>6 DEF Serve, TypeOK, records
  <1>7. CASE UNCHANGED vars
    BY <1>7 DEF vars, TypeOK
  <1> QED
    BY <1>1, <1>2, <1>3, <1>4, <1>5, <1>6, <1>7 DEF Next

\* Every record the object service writes and every request it serves has
\* the shape its code declares, whatever the sizes of the instance.
THEOREM TypeCorrect == Spec => []TypeOK
  BY InitType, NextType, PTL DEF Spec

-----------------------------------------------------------------------------
(* No record names a missing file *)

\* A step of one request leaves the others as they are.
LEMMA BecomeReq ==
  ASSUME TypeOK, NEW p \in Reqs, NEW n, Become(p, n)
  PROVE  req'[p] = n /\ \A q \in Reqs : q # p => req'[q] = req[q]
  BY DEF TypeOK, Become

\* A request that has returned owns no file.
LEMMA IdleFacts ==
  /\ Idle.stage = "idle" /\ Idle.del = {} /\ Idle.seen = 0 /\ Idle.upload = 0
  /\ Idle.blob = 0 /\ Holds(Idle) = {} /\ ~Removing(Idle) /\ ~Awaited(Idle)
  BY DEF Idle, Holds, Removing, Awaited

\* deleteBlobs: afterwards the request owns exactly the files it is to remove.
LEMMA CleanupReq ==
  ASSUME TypeOK, NEW p \in Reqs, NEW d \in SUBSET Nat, Cleanup(p, d)
  PROVE  /\ Holds(req'[p]) = d /\ req'[p].del = d
         /\ req'[p].stage \in {"idle", "cleanup"}
         /\ req'[p].seen = 0 /\ req'[p].upload = 0 /\ req'[p].blob = 0
         /\ \A q \in Reqs : q # p => req'[q] = req[q]
  <1>1. CASE d = {}
    BY <1>1, BecomeReq, IdleFacts DEF Cleanup, Finish
  <1>2. CASE d # {}
    <2> DEFINE n == [Idle EXCEPT !.stage = "cleanup", !.bucket = req[p].bucket, !.del = d]
    <2>1. Become(p, n)
      BY <1>2 DEF Cleanup
    <2>2. /\ n.stage = "cleanup" /\ n.del = d /\ n.seen = 0 /\ n.upload = 0 /\ n.blob = 0
          /\ Holds(n) = d
      BY DEF Idle, Holds
    <2> QED BY <2>1, <2>2, BecomeReq
  <1> QED BY <1>1, <1>2

\* A request that reads, is refused or returns, with no new file in its hands.
LEMMA QuietStep ==
  ASSUME IInv, TypeOK', NEW p \in Reqs, NEW n, Become(p, n),
         UNCHANGED <<objects, uploads, parts, files, clock>>,
         \A b \in Buckets : /\ bucket'[b].created = bucket[b].created
                            /\ bucket'[b].deleting = bucket[b].deleting,
         n.stage \notin {"putTx", "partTx", "remove", "drop"}, n.del \subseteq req[p].del,
         n.seen <= clock, n.upload <= clock, n.blob <= clock
  PROVE  IInv'
  <1>1. req'[p] = n /\ \A q \in Reqs : q # p => req'[q] = req[q]
    BY BecomeReq DEF IInv
  <1>2. Holds(n) \subseteq Holds(req[p]) /\ ~Removing(n) /\ ~Awaited(n)'
    BY DEF Holds, Removing, Awaited
  <1>3. \A q \in Reqs : Holds(req'[q]) \subseteq Holds(req[q])
    BY <1>1, <1>2
  <1>4. Stamped'
    BY <1>1 DEF IInv, Stamped
  <1>5. OneOwner'
    BY <1>3 DEF IInv, OneOwner
  <1>6. OneRemover'
    <2>1. ASSUME NEW q \in Reqs, Removing(req'[q])
          PROVE  /\ q # p /\ Removing(req[q]) /\ req'[q] = req[q]
                 /\ bucket'[req[q].bucket].created = bucket[req[q].bucket].created
                 /\ bucket'[req[q].bucket].deleting = bucket[req[q].bucket].deleting
      <3>1. q # p /\ req'[q] = req[q]
        BY <2>1, <1>1, <1>2
      <3>2. req[q].bucket \in Buckets
        BY DEF IInv, TypeOK, Request
      <3> QED BY <2>1, <3>1, <3>2
    <2> QED BY <2>1 DEF IInv, OneRemover, Exists
  <1>7. RecordsHaveBucket'
    BY DEF IInv, TypeOK, Version, Upload, RecordsHaveBucket, Live, Exists
  <1>8. \A q \in Reqs : Awaited(req[q])' => q # p /\ Awaited(req[q])
    BY <1>1, <1>2 DEF IInv, TypeOK, Request, Awaited, Exists, SameBucket, UploadOf
  <1>9. WrittenFileKept'
    BY <1>1, <1>8 DEF IInv, WrittenFileKept
  <1>10. NoDanglingBlob'
    BY DEF IInv, NoDanglingBlob
  <1> QED BY <1>4, <1>5, <1>6, <1>7, <1>9, <1>10 DEF IInv

\* A transaction that changes records and leaves files d to be removed: what
\* is left to show is about the records.
LEMMA RecordStep ==
  ASSUME IInv, TypeOK', NEW p \in Reqs, NEW d \in SUBSET Nat, Cleanup(p, d),
         UNCHANGED <<bucket, files>>, uploads' \subseteq uploads,
         clock' = clock \/ clock' = clock + 1,
         \A x \in d : x <= clock /\ \A q \in Reqs : q # p => x \notin Holds(req[q]),
         \A o \in objects' : Live(o.bucket),
         \A y \in parts' : \E u \in uploads' : u.bucket = y.bucket /\ u.id = y.upload,
         \A o \in objects' : \A x \in o.blobs :
            x <= clock /\ <<o.bucket, x>> \in files /\ x \notin d,
         \A y \in parts' : y.blob <= clock /\ <<y.bucket, y.blob>> \in files /\ y.blob \notin d,
         \A o1, o2 \in objects' : \A x \in o1.blobs : x \in o2.blobs => o1 = o2,
         \A y1, y2 \in parts' : y1.blob = y2.blob => y1 = y2,
         \A o \in objects', y \in parts' : y.blob \notin o.blobs,
         \A q \in Reqs : q # p => \A x \in Holds(req[q]) :
            (\A o \in objects' : x \notin o.blobs) /\ (\A y \in parts' : y.blob # x)
  PROVE  IInv'
  <1>1. /\ Holds(req'[p]) = d /\ req'[p].del = d
        /\ req'[p].stage \in {"idle", "cleanup"}
        /\ req'[p].seen = 0 /\ req'[p].upload = 0 /\ req'[p].blob = 0
        /\ \A q \in Reqs : q # p => req'[q] = req[q]
    BY CleanupReq DEF IInv
  <1>2. clock \in Nat /\ clock' \in Nat /\ clock <= clock'
    BY DEF IInv, TypeOK
  <1>3. Stamped'
    <2>1. \A b \in Buckets : bucket'[b].created <= clock'
      BY <1>2 DEF IInv, Stamped, TypeOK, Bucket
    <2>2. ASSUME NEW o \in objects', NEW x \in o.blobs PROVE x <= clock'
      <3>1. x \in Nat /\ x <= clock
        BY DEF TypeOK, Version
      <3> QED BY <3>1, <1>2
    <2>3. \A u \in uploads' : u.id <= clock'
      BY <1>2 DEF IInv, Stamped, TypeOK, Upload
    <2>4. ASSUME NEW y \in parts' PROVE y.blob <= clock'
      <3>1. y.blob \in Nat /\ y.blob <= clock
        BY DEF TypeOK, Part
      <3> QED BY <3>1, <1>2
    <2>5. ASSUME NEW q \in Reqs
          PROVE  /\ req'[q].seen <= clock' /\ req'[q].upload <= clock' /\ req'[q].blob <= clock'
                 /\ \A x \in req'[q].del : x <= clock'
      <3>1. CASE q = p
        <4>1. 0 <= clock'
          BY <1>2
        <4>2. ASSUME NEW x \in d PROVE x <= clock'
          <5>1. x \in Nat /\ x <= clock
            OBVIOUS
          <5> QED BY ONLY <5>1, <1>2
        <4> QED BY ONLY <3>1, <1>1, <4>1, <4>2
      <3>2. CASE q # p
        BY <3>2, <1>1, <1>2 DEF IInv, Stamped, TypeOK, Request
      <3> QED BY <3>1, <3>2
    <2> QED BY <2>1, <2>2, <2>3, <2>4, <2>5 DEF Stamped
  <1>4. OneOwner'
    <2>1. ASSUME NEW q \in Reqs, NEW x \in Holds(req'[q])
          PROVE  /\ \A o \in objects' : x \notin o.blobs
                 /\ \A y \in parts' : y.blob # x
                 /\ \A t \in Reqs : t # q => x \notin Holds(req'[t])
      <3>1. CASE q = p
        BY <3>1, <2>1, <1>1
      <3>2. CASE q # p
        BY <3>2, <2>1, <1>1 DEF IInv, OneOwner
      <3> QED BY <3>1, <3>2
    <2> QED BY <2>1 DEF OneOwner
  <1>5. OneRemover'
    BY <1>1 DEF IInv, OneRemover, Removing, Exists
  <1>6. RecordsHaveBucket'
    BY DEF IInv, RecordsHaveBucket, Live, Exists
  <1>7. \A q \in Reqs : Awaited(req[q])' => q # p /\ Awaited(req[q])
    BY <1>1 DEF Awaited, Exists, SameBucket, UploadOf
  <1>8. WrittenFileKept'
    BY <1>1, <1>7 DEF IInv, WrittenFileKept
  <1>9. NoDanglingBlob'
    BY DEF NoDanglingBlob
  <1> QED BY <1>3, <1>4, <1>5, <1>6, <1>8, <1>9 DEF IInv

\* The steps that only read records (the checks of each operation, and its early returns)
\* preserve the invariant.
LEMMA QuietActions ==
  ASSUME IInv, TypeOK', NEW p \in Reqs,
         \/ \E b \in Buckets, c \in Callers : Authorize(p, b, c)
         \/ ReturnEarly(p)
         \/ \E v \in {"Enabled", "Suspended"} : PutBucketVersioning(p, v)
         \/ PutObjectLockConfig(p)
         \/ RemoveFails(p)
         \/ \E k \in Keys, h \in Locking, t \in Retentions, c \in Conditions : PutStart(p, k, h, t, c)
         \/ LockStart(p)
         \/ \E k \in Keys, h \in Locking, t \in Retentions : UploadStart(p, k, h, t)
         \/ \E u \in uploads, n \in PartNumbers : PartStart(p, u, n)
         \/ \E u \in uploads, want \in SUBSET PartNumbers, c \in Conditions :
              CompleteStart(p, u, want, c)
         \/ CompleteBucket(p)
  PROVE  IInv'
  <1> DEFINE r == req[p]
  <1>a. /\ r \in Request /\ r.bucket \in Buckets /\ clock \in Nat
        /\ r.seen <= clock /\ r.upload <= clock /\ r.blob <= clock
    BY DEF IInv, TypeOK, Stamped, Request
  <1>b. /\ bucket \in [Buckets -> Bucket]
        /\ \A b \in Buckets : bucket[b].created <= clock
        /\ \A u \in uploads : u.id <= clock
    BY DEF IInv, TypeOK, Stamped
  <1>c. ASSUME Finish(p), UNCHANGED <<objects, uploads, parts, files, clock>>,
               \A b \in Buckets : /\ bucket'[b].created = bucket[b].created
                                  /\ bucket'[b].deleting = bucket[b].deleting
        PROVE  IInv'
    <2>1. /\ Idle.stage \notin {"putTx", "partTx", "remove", "drop"}
          /\ Idle.del \subseteq req[p].del
          /\ Idle.seen <= clock /\ Idle.upload <= clock /\ Idle.blob <= clock
      BY <1>a, IdleFacts
    <2> QED BY <1>c, <2>1, QuietStep DEF Finish
  <1>1. ASSUME NEW b \in Buckets, NEW c \in Callers, Authorize(p, b, c) PROVE IInv'
    <2> DEFINE n == [Idle EXCEPT !.stage = "auth", !.bucket = b,
                       !.expect = IF c = "api" THEN bucket[b].created ELSE 0]
    <2>1. n.stage = "auth" /\ n.del = {} /\ n.seen = 0 /\ n.upload = 0 /\ n.blob = 0
      BY DEF Idle
    <2>2. Become(p, n)
      BY <1>1 DEF Authorize
    <2>3. \A d \in Buckets : /\ bucket'[d].created = bucket[d].created
                              /\ bucket'[d].deleting = bucket[d].deleting
      BY <1>1 DEF Authorize, records
    <2>4. UNCHANGED <<objects, uploads, parts, files, clock>>
      BY <1>1 DEF Authorize, records
    <2> HIDE DEF n
    <2> QED BY <1>a, <2>1, <2>2, <2>3, <2>4, QuietStep
  <1>2. CASE ReturnEarly(p)
    BY <1>2, <1>c DEF ReturnEarly, records
  <1>3. ASSUME NEW v \in {"Enabled", "Suspended"}, PutBucketVersioning(p, v) PROVE IInv'
    BY <1>3, <1>a, <1>b, <1>c DEF PutBucketVersioning, Bucket
  <1>4. CASE PutObjectLockConfig(p)
    BY <1>4, <1>a, <1>b, <1>c DEF PutObjectLockConfig, Bucket
  <1>5. CASE RemoveFails(p)
    BY <1>5, <1>c DEF RemoveFails, records
  <1>6. ASSUME NEW k \in Keys, NEW h \in Locking, NEW t \in Retentions, NEW c \in Conditions,
               PutStart(p, k, h, t, c)
        PROVE  IInv'
    <2> DEFINE n == [r EXCEPT !.stage = "put", !.key = k, !.hold = h, !.ret = t, !.create = c,
                       !.present = c /\ ~Absent(r.bucket, k),
                       !.seen = bucket[r.bucket].created]
    <2>1. /\ n.stage = "put" /\ n.del = r.del /\ n.seen = bucket[r.bucket].created
          /\ n.upload = r.upload /\ n.blob = r.blob
      BY <1>a DEF Request
    <2>2. Become(p, n)
      BY <1>6 DEF PutStart
    <2> QED BY <1>6, <1>a, <1>b, <2>1, <2>2, QuietStep DEF PutStart, records
  <1>7. CASE LockStart(p)
    <2> DEFINE n == [r EXCEPT !.stage = "lock"]
    <2>1. /\ n.stage = "lock" /\ n.del = r.del /\ n.seen = r.seen
          /\ n.upload = r.upload /\ n.blob = r.blob
      BY <1>a DEF Request
    <2>2. Become(p, n)
      BY <1>7 DEF LockStart
    <2> QED BY <1>7, <1>a, <2>1, <2>2, QuietStep DEF LockStart, records
  <1>8. ASSUME NEW k \in Keys, NEW h \in Locking, NEW t \in Retentions, UploadStart(p, k, h, t)
        PROVE  IInv'
    <2> DEFINE n == [r EXCEPT !.stage = "mpu", !.key = k, !.hold = h, !.ret = t]
    <2>1. /\ n.stage = "mpu" /\ n.del = r.del /\ n.seen = r.seen
          /\ n.upload = r.upload /\ n.blob = r.blob
      BY <1>a DEF Request
    <2>2. Become(p, n)
      BY <1>8 DEF UploadStart
    <2> QED BY <1>8, <1>a, <2>1, <2>2, QuietStep DEF UploadStart, records
  <1>9. ASSUME NEW u \in uploads, NEW m \in PartNumbers, PartStart(p, u, m) PROVE IInv'
    <2> DEFINE n == [r EXCEPT !.stage = "part", !.key = u.key, !.upload = u.id, !.number = m]
    <2>1. /\ n.stage = "part" /\ n.del = r.del /\ n.seen = r.seen
          /\ n.upload = u.id /\ n.blob = r.blob
      BY <1>a DEF Request
    <2>2. Become(p, n)
      BY <1>9 DEF PartStart
    <2> QED BY <1>9, <1>a, <1>b, <2>1, <2>2, QuietStep DEF PartStart, records
  <1>10. ASSUME NEW u \in uploads, NEW want \in SUBSET PartNumbers, NEW c \in Conditions,
                CompleteStart(p, u, want, c)
         PROVE  IInv'
    <2> DEFINE n == [r EXCEPT !.stage = "complete", !.key = u.key, !.upload = u.id,
                       !.hold = u.hold, !.ret = u.ret, !.want = want, !.create = c,
                       !.present = c /\ ~Absent(u.bucket, u.key)]
    <2>1. /\ n.stage = "complete" /\ n.del = r.del /\ n.seen = r.seen
          /\ n.upload = u.id /\ n.blob = r.blob
      BY <1>a DEF Request
    <2>2. Become(p, n)
      BY <1>10 DEF CompleteStart
    <2> QED BY <1>10, <1>a, <1>b, <2>1, <2>2, QuietStep DEF CompleteStart, records
  <1>11. CASE CompleteBucket(p)
    <2> DEFINE n == [r EXCEPT !.stage = "completeTx", !.seen = bucket[r.bucket].created]
    <2>1. /\ n.stage = "completeTx" /\ n.del = r.del /\ n.seen = bucket[r.bucket].created
          /\ n.upload = r.upload /\ n.blob = r.blob
      BY <1>a DEF Request
    <2>2. Become(p, n)
      BY <1>11 DEF CompleteBucket
    <2> QED BY <1>11, <1>a, <1>b, <2>1, <2>2, QuietStep DEF CompleteBucket, records
  <1> QED
    BY <1>1, <1>2, <1>3, <1>4, <1>5, <1>6, <1>7, <1>8, <1>9, <1>10, <1>11

\* A version written over the null version it replaces: its files were the
\* request's, the files of the replaced version become the request's.
LEMMA PutVersionStep ==
  ASSUME IInv, TypeOK', NEW p \in Reqs, NEW o \in Version,
         PutVersion(o), Cleanup(p, Blobs(Replaced(o))),
         UNCHANGED <<bucket, uploads, parts, files>>,
         clock' = clock \/ clock' = clock + 1,
         Live(o.bucket), o.blobs \subseteq Holds(req[p]),
         \A x \in o.blobs : x <= clock /\ <<o.bucket, x>> \in files
  PROVE  IInv'
  <1> DEFINE d == Blobs(Replaced(o))
  <1>1. d \in SUBSET Nat
    BY VersionTypes DEF IInv
  <1>2. Replaced(o) \subseteq objects
    BY DEF Replaced, NullVersion, Versions
  <1>3. /\ objects' \subseteq objects \cup {o}
        /\ \A v \in objects' : v \notin Replaced(o) \/ v = o
    BY DEF PutVersion
  <1>4. \A x \in d : \E v \in Replaced(o) : x \in v.blobs
    BY DEF Blobs
  <1>5. OneOwner /\ Stamped /\ RecordsHaveBucket /\ NoDanglingBlob
    BY DEF IInv
  <1>6. \A x \in o.blobs : /\ \A v \in objects : x \notin v.blobs
                           /\ \A y \in parts : y.blob # x
                           /\ \A q \in Reqs : q # p => x \notin Holds(req[q])
    BY <1>5 DEF OneOwner
  <1>7. \A x \in d : x <= clock /\ \A q \in Reqs : q # p => x \notin Holds(req[q])
    BY <1>2, <1>4, <1>5 DEF Stamped, OneOwner
  <1>8. \A v \in objects' : Live(v.bucket)
    BY <1>3, <1>5 DEF RecordsHaveBucket
  <1>9. \A y \in parts' : \E u \in uploads' : u.bucket = y.bucket /\ u.id = y.upload
    BY <1>5 DEF RecordsHaveBucket
  <1>10. ASSUME NEW v \in objects', NEW x \in v.blobs
         PROVE  x <= clock /\ <<v.bucket, x>> \in files /\ x \notin d
    <2>1. CASE v = o
      BY <2>1, <1>2, <1>4, <1>6
    <2>2. CASE v # o
      <3>1. v \in objects /\ v \notin Replaced(o)
        BY <2>2, <1>3
      <3>2. x \notin d
        BY <3>1, <1>2, <1>4, <1>5 DEF OneOwner
      <3> QED BY <3>1, <3>2, <1>5 DEF Stamped, NoDanglingBlob
    <2> QED BY <2>1, <2>2
  <1>11. \A y \in parts' : y.blob <= clock /\ <<y.bucket, y.blob>> \in files /\ y.blob \notin d
    BY <1>2, <1>4, <1>5 DEF Stamped, NoDanglingBlob, OneOwner
  <1>12. \A v1, v2 \in objects' : \A x \in v1.blobs : x \in v2.blobs => v1 = v2
    BY <1>3, <1>5, <1>6 DEF OneOwner
  <1>13. /\ \A y1, y2 \in parts' : y1.blob = y2.blob => y1 = y2
         /\ \A v \in objects', y \in parts' : y.blob \notin v.blobs
    BY <1>3, <1>5, <1>6 DEF OneOwner
  <1>14. \A q \in Reqs : q # p => \A x \in Holds(req[q]) :
           (\A v \in objects' : x \notin v.blobs) /\ (\A y \in parts' : y.blob # x)
    BY <1>3, <1>5, <1>6 DEF OneOwner
  <1> HIDE DEF d
  <1>15. Cleanup(p, d)
    BY DEF d
  <1> QED
    BY <1>1, <1>7, <1>8, <1>9, <1>10, <1>11, <1>12, <1>13, <1>14, <1>15, RecordStep

\* PutObject's transaction preserves the invariant.
LEMMA PutTxStep == ASSUME IInv, TypeOK', NEW p \in Reqs, PutTx(p) PROVE IInv'
  <1> DEFINE r == req[p]
             o == NewVersion(r)
  <1>1. r \in Request /\ o \in Version
    BY VersionTypes DEF IInv, TypeOK
  <1>2. /\ o.bucket = r.bucket /\ o.blobs = {r.blob}
    BY DEF NewVersion
  <1>3. /\ r.stage = "putTx" /\ Exists(r.bucket) /\ SameBucket(r)
        /\ PutVersion(o) /\ Cleanup(p, Blobs(Replaced(o)))
        /\ UNCHANGED <<bucket, uploads, parts, files>> /\ clock' = clock
    BY DEF PutTx, PutAllowed
  <1>4. Live(o.bucket)
    BY <1>2, <1>3 DEF Live, SameBucket
  <1>5. o.blobs \subseteq Holds(r)
    BY <1>2, <1>3 DEF Holds
  <1>6. <<r.bucket, r.blob>> \in files /\ r.blob <= clock
    BY <1>3 DEF IInv, WrittenFileKept, Awaited, Stamped
  <1> HIDE DEF o
  <1> QED BY <1>1, <1>2, <1>3, <1>4, <1>5, <1>6, PutVersionStep

\* DeleteObject without a version ID, versioning enabled or suspended.
LEMMA MarkerSteps ==
  ASSUME IInv, TypeOK', NEW p \in Reqs, NEW k \in Keys,
         DeleteEnabled(p, k) \/ \E bypass \in BOOLEAN : DeleteSuspended(p, k, bypass)
  PROVE  IInv'
  <1> DEFINE r == req[p]
  <1>1. r.bucket \in Buckets /\ TypeOK
    BY DEF IInv, TypeOK, Request
  <1>2. CASE DeleteEnabled(p, k)
    <2> DEFINE o == Marker(r.bucket, k, FALSE, clock')
    <2>1. clock' \in Nat /\ clock' = clock + 1
      BY <1>1, <1>2, TickType DEF DeleteEnabled
    <2>2. o \in Version
      BY <1>1, <2>1, VersionTypes
    <2>3. o.bucket = r.bucket /\ o.blobs = {} /\ o.null = FALSE
      BY DEF Marker
    <2>4. Live(o.bucket) /\ PutVersion(o) /\ UNCHANGED <<bucket, uploads, parts, files>>
      BY <1>2, <2>3 DEF DeleteEnabled, LiveBucket
    <2>5. Cleanup(p, Blobs(Replaced(o)))
      <3>1. Blobs(Replaced(o)) = {}
        BY <2>3 DEF Replaced, Blobs
      <3> QED BY <3>1, <1>2 DEF DeleteEnabled, Cleanup
    <2> HIDE DEF o
    <2> QED BY <2>1, <2>2, <2>3, <2>4, <2>5, PutVersionStep
  <1>3. ASSUME NEW bypass \in BOOLEAN, DeleteSuspended(p, k, bypass) PROVE IInv'
    <2> DEFINE o == Marker(r.bucket, k, TRUE, clock')
    <2>1. clock' \in Nat /\ clock' = clock + 1
      BY <1>1, <1>3, TickType DEF DeleteSuspended
    <2>2. o \in Version
      BY <1>1, <2>1, VersionTypes
    <2>3. o.bucket = r.bucket /\ o.blobs = {} /\ o.null = TRUE /\ o.key = k
      BY DEF Marker
    <2>4. Live(o.bucket) /\ PutVersion(o) /\ UNCHANGED <<bucket, uploads, parts, files>>
      BY <1>3, <2>3 DEF DeleteSuspended, LiveBucket
    <2>5. Cleanup(p, Blobs(Replaced(o)))
      <3>1. Replaced(o) = NullVersion(r.bucket, k)
        BY <2>3 DEF Replaced
      <3> QED BY <3>1, <1>3 DEF DeleteSuspended
    <2> HIDE DEF o
    <2> QED BY <2>1, <2>2, <2>3, <2>4, <2>5, PutVersionStep
  <1> QED BY <1>2, <1>3

\* Records that only go: what they named is what is to be removed.
LEMMA ShrinkStep ==
  ASSUME IInv, TypeOK', NEW p \in Reqs, NEW d \in SUBSET Nat, Cleanup(p, d),
         UNCHANGED <<bucket, files, clock>>,
         objects' \subseteq objects, uploads' \subseteq uploads, parts' \subseteq parts,
         \A y \in parts' : \E u \in uploads' : u.bucket = y.bucket /\ u.id = y.upload,
         \A x \in d : \/ \E o \in objects \ objects' : x \in o.blobs
                      \/ \E y \in parts \ parts' : x = y.blob
                      \/ x \in Holds(req[p])
  PROVE  IInv'
  <1>1. OneOwner /\ Stamped /\ RecordsHaveBucket /\ NoDanglingBlob
    BY DEF IInv
  <1>2. \A x \in d : \A q \in Reqs : q # p => x \notin Holds(req[q])
    BY <1>1 DEF OneOwner
  <1>3. \A x \in d : x <= clock
    <2>1. \A x \in Holds(req[p]) : x <= clock
      BY <1>1 DEF Stamped, Holds
    <2> QED BY <2>1, <1>1 DEF Stamped
  <1>4. \A o \in objects' : Live(o.bucket)
    BY <1>1 DEF RecordsHaveBucket
  <1>5. ASSUME NEW o \in objects', NEW x \in o.blobs
        PROVE  x <= clock /\ <<o.bucket, x>> \in files /\ x \notin d
    <2>1. x <= clock /\ <<o.bucket, x>> \in files
      BY <1>1 DEF Stamped, NoDanglingBlob
    <2>2. ASSUME x \in d PROVE FALSE
      <3>1. ASSUME NEW v \in objects \ objects', x \in v.blobs PROVE FALSE
        BY <3>1, <1>1 DEF OneOwner
      <3>2. ASSUME NEW y \in parts \ parts', x = y.blob PROVE FALSE
        BY <3>2, <1>1 DEF OneOwner
      <3>3. ASSUME x \in Holds(req[p]) PROVE FALSE
        BY <3>3, <1>1 DEF OneOwner
      <3> QED BY <2>2, <3>1, <3>2, <3>3
    <2> QED BY <2>1, <2>2
  <1>6. ASSUME NEW y \in parts'
        PROVE  y.blob <= clock /\ <<y.bucket, y.blob>> \in files /\ y.blob \notin d
    <2>1. y.blob <= clock /\ <<y.bucket, y.blob>> \in files
      BY <1>1 DEF Stamped, NoDanglingBlob
    <2>2. ASSUME y.blob \in d PROVE FALSE
      <3>1. ASSUME NEW v \in objects \ objects', y.blob \in v.blobs PROVE FALSE
        BY <3>1, <1>1 DEF OneOwner
      <3>2. ASSUME NEW z \in parts \ parts', y.blob = z.blob PROVE FALSE
        BY <3>2, <1>1 DEF OneOwner
      <3>3. ASSUME y.blob \in Holds(req[p]) PROVE FALSE
        BY <3>3, <1>1 DEF OneOwner
      <3> QED BY <2>2, <3>1, <3>2, <3>3
    <2> QED BY <2>1, <2>2
  <1>7. /\ \A o1, o2 \in objects' : \A x \in o1.blobs : x \in o2.blobs => o1 = o2
        /\ \A y1, y2 \in parts' : y1.blob = y2.blob => y1 = y2
        /\ \A o \in objects', y \in parts' : y.blob \notin o.blobs
    BY <1>1 DEF OneOwner
  <1>8. \A q \in Reqs : q # p => \A x \in Holds(req[q]) :
           (\A o \in objects' : x \notin o.blobs) /\ (\A y \in parts' : y.blob # x)
    BY <1>1 DEF OneOwner
  <1> QED
    BY <1>2, <1>3, <1>4, <1>5, <1>6, <1>7, <1>8, RecordStep

\* DeleteObject of one version, and of the object of an unversioned bucket.
LEMMA RemoveVersionSteps ==
  ASSUME IInv, TypeOK', NEW p \in Reqs, NEW o \in objects, NEW bypass \in BOOLEAN,
         DeleteVersion(p, o, bypass) \/ DeleteUnversioned(p, o, bypass)
  PROVE  IInv'
  <1>1. /\ RemoveVersion(o) /\ Cleanup(p, o.blobs)
        /\ UNCHANGED <<bucket, uploads, parts, files, clock>>
    BY DEF DeleteVersion, DeleteUnversioned
  <1>2. o.blobs \in SUBSET Nat
    BY DEF IInv, TypeOK, Version
  <1>3. objects' \subseteq objects /\ o \notin objects'
    BY <1>1 DEF RemoveVersion
  <1>4. \A y \in parts' : \E u \in uploads' : u.bucket = y.bucket /\ u.id = y.upload
    BY <1>1 DEF IInv, RecordsHaveBucket
  <1> QED BY <1>1, <1>2, <1>3, <1>4, ShrinkStep

\* A failed transaction hands the written file over to deleteBlobs.
LEMMA TxFailsStep == ASSUME IInv, TypeOK', NEW p \in Reqs, TxFails(p) PROVE IInv'
  <1>1. {req[p].blob} \in SUBSET Nat
    BY DEF IInv, TypeOK, Request
  <1>2. req[p].blob \in Holds(req[p])
    BY DEF TxFails, Holds
  <1>3. \A y \in parts' : \E u \in uploads' : u.bucket = y.bucket /\ u.id = y.upload
    BY DEF TxFails, records, IInv, RecordsHaveBucket
  <1> QED BY <1>1, <1>2, <1>3, ShrinkStep DEF TxFails, records

\* AbortUpload: the files of the parts become the request's to remove.
LEMMA AbortUploadStep ==
  ASSUME IInv, TypeOK', NEW p \in Reqs, NEW u \in uploads, AbortUpload(p, u) PROVE IInv'
  <1> DEFINE gone == PartsOf(u.bucket, u.id)
  <1>1. PartBlobs(gone) \in SUBSET Nat
    BY UploadTypes DEF IInv
  <1>2. /\ Cleanup(p, PartBlobs(gone)) /\ UNCHANGED <<bucket, objects, files, clock>>
        /\ uploads' \subseteq uploads /\ parts' = parts \ gone
    BY DEF AbortUpload, RemoveUpload
  <1>3. gone \subseteq parts /\ \A x \in PartBlobs(gone) : \E y \in gone : x = y.blob
    BY DEF PartsOf, PartBlobs
  <1>4. \A y \in parts' : \E v \in uploads' : v.bucket = y.bucket /\ v.id = y.upload
    BY DEF AbortUpload, RemoveUpload, PartsOf, IInv, RecordsHaveBucket
  <1> HIDE DEF gone
  <1>5. \A x \in PartBlobs(gone) : \E y \in parts \ parts' : x = y.blob
    BY <1>2, <1>3
  <1> QED BY <1>1, <1>2, <1>4, <1>5, ShrinkStep

\* UploadPart's transaction: the new part takes the written file, the request the old part's.
LEMMA PartTxStep == ASSUME IInv, TypeOK', NEW p \in Reqs, PartTx(p) PROVE IInv'
  <1> DEFINE r == req[p]
             old == {x \in PartsOf(r.bucket, r.upload) : x.number = r.number}
             new == [bucket |-> r.bucket, upload |-> r.upload, number |-> r.number,
                     blob |-> r.blob]
             d == PartBlobs(old)
  <1>1. d \in SUBSET Nat /\ old \subseteq parts
    <2>1. old \in SUBSET Part /\ old \subseteq parts
      BY DEF IInv, TypeOK, PartsOf
    <2> QED BY <2>1, UploadTypes DEF IInv
  <1>2. /\ r.stage = "partTx" /\ UploadOf(r) # {} /\ parts' = (parts \ old) \cup {new}
        /\ Cleanup(p, d) /\ UNCHANGED <<bucket, objects, uploads, files, clock>>
    BY DEF PartTx
  <1>3. \A x \in d : \E y \in old : x = y.blob
    BY DEF PartBlobs
  <1>4. r.blob \in Holds(r) /\ <<r.bucket, r.blob>> \in files /\ r.blob <= clock
    BY <1>2 DEF Holds, IInv, WrittenFileKept, Awaited, Stamped
  <1>5. new.bucket = r.bucket /\ new.upload = r.upload /\ new.blob = r.blob
    OBVIOUS
  <1>6. OneOwner /\ Stamped /\ RecordsHaveBucket /\ NoDanglingBlob
    BY DEF IInv
  <1>7. \E u \in uploads : u.bucket = r.bucket /\ u.id = r.upload
    BY <1>2 DEF UploadOf
  <1>8. /\ \A o \in objects : r.blob \notin o.blobs
        /\ \A y \in parts : y.blob # r.blob
        /\ \A q \in Reqs : q # p => r.blob \notin Holds(req[q])
    BY <1>4, <1>6 DEF OneOwner
  <1> HIDE DEF old, new, d
  <1>9. ASSUME NEW x \in d
        PROVE  x <= clock /\ \A q \in Reqs : q # p => x \notin Holds(req[q])
    <2>1. PICK y \in parts : x = y.blob
      BY <1>1, <1>3
    <2>2. x <= clock
      BY <2>1, <1>6 DEF Stamped
    <2>3. \A q \in Reqs : x \notin Holds(req[q])
      BY <2>1, <1>6 DEF OneOwner
    <2> QED BY <2>2, <2>3
  <1>10. \A o \in objects' : Live(o.bucket)
    BY <1>2, <1>6 DEF RecordsHaveBucket
  <1>11. \A y \in parts' : \E u \in uploads' : u.bucket = y.bucket /\ u.id = y.upload
    BY <1>2, <1>5, <1>6, <1>7 DEF RecordsHaveBucket
  <1>12. ASSUME NEW o \in objects', NEW x \in o.blobs
         PROVE  x <= clock /\ <<o.bucket, x>> \in files /\ x \notin d
    <2>1. x <= clock /\ <<o.bucket, x>> \in files
      BY <1>2, <1>6 DEF Stamped, NoDanglingBlob
    <2>2. \A y \in parts : y.blob # x
      BY <1>2, <1>6 DEF OneOwner
    <2>3. x \notin d
      BY <2>2, <1>1, <1>3
    <2> QED BY <2>1, <2>3
  <1>13. ASSUME NEW y \in parts'
         PROVE  y.blob <= clock /\ <<y.bucket, y.blob>> \in files /\ y.blob \notin d
    <2>1. CASE y = new
      BY <2>1, <1>1, <1>3, <1>4, <1>5, <1>8
    <2>2. CASE y # new
      <3>1. y \in parts /\ y \notin old
        BY <2>2, <1>2
      <3>2. \A z \in old : y.blob # z.blob
        <4>1. \A z \in parts : y.blob = z.blob => y = z
          BY <3>1, <1>6 DEF OneOwner
        <4> QED BY ONLY <4>1, <3>1, <1>1
      <3>3. y.blob \notin d
        BY ONLY <3>2, <1>3
      <3> QED BY <3>1, <3>3, <1>6 DEF Stamped, NoDanglingBlob
    <2> QED BY <2>1, <2>2
  <1>14. /\ \A o1, o2 \in objects' : \A x \in o1.blobs : x \in o2.blobs => o1 = o2
         /\ \A y1, y2 \in parts' : y1.blob = y2.blob => y1 = y2
         /\ \A o \in objects', y \in parts' : y.blob \notin o.blobs
    BY <1>2, <1>5, <1>6, <1>8 DEF OneOwner
  <1>15. \A q \in Reqs : q # p => \A x \in Holds(req[q]) :
           (\A o \in objects' : x \notin o.blobs) /\ (\A y \in parts' : y.blob # x)
    BY <1>2, <1>5, <1>6, <1>8 DEF OneOwner
  <1> QED
    BY <1>1, <1>2, <1>9, <1>10, <1>11, <1>12, <1>13, <1>14, <1>15, RecordStep

\* CompleteUpload's transaction: the version takes the listed parts' files, the request the rest.
LEMMA CompleteTxStep == ASSUME IInv, TypeOK', NEW p \in Reqs, CompleteTx(p) PROVE IInv'
  <1> DEFINE r == req[p]
             all == PartsOf(r.bucket, r.upload)
             used == Assembled(r)
             o == [NewVersion([r EXCEPT !.blob = clock']) EXCEPT !.blobs = PartBlobs(used)]
             d == (PartBlobs(all) \ PartBlobs(used)) \cup Blobs(Replaced(o))
  <1>1. r \in Request /\ TypeOK
    BY DEF IInv, TypeOK
  <1>2. used \subseteq all /\ all \subseteq parts /\ \A y \in all : y.bucket = r.bucket
    BY DEF Assembled, PartsOf
  <1>3. o.bucket = r.bucket /\ o.blobs = PartBlobs(used)
    BY <1>1 DEF NewVersion, Request
  <1>4. /\ Exists(r.bucket) /\ SameBucket(r) /\ Tick /\ RemoveUpload(r.bucket, r.upload)
        /\ PutVersion(o) /\ Cleanup(p, d) /\ UNCHANGED <<bucket, files>>
    BY DEF CompleteTx
  <1>5. /\ \A x \in PartBlobs(used) : \E y \in used : x = y.blob
        /\ \A x \in PartBlobs(all) : \E y \in all : x = y.blob
        /\ \A y \in used : y.blob \in PartBlobs(used)
    BY DEF PartBlobs
  <1>6. clock' = clock + 1
    BY <1>1, <1>4, TickType
  <1>7. uploads' \subseteq uploads /\ parts' = parts \ all
    BY <1>4 DEF RemoveUpload
  <1>8. Replaced(o) \subseteq objects /\ \A x \in Blobs(Replaced(o)) : \E v \in Replaced(o) : x \in v.blobs
    BY DEF Replaced, NullVersion, Versions, Blobs
  <1>9. objects' \subseteq objects \cup {o} /\ \A v \in objects' : v \notin Replaced(o) \/ v = o
    BY <1>4 DEF PutVersion
  <1>10. OneOwner /\ Stamped /\ RecordsHaveBucket /\ NoDanglingBlob
    BY DEF IInv
  <1>11. \A y \in parts' : \E u \in uploads' : u.bucket = y.bucket /\ u.id = y.upload
    BY <1>4, <1>10 DEF RemoveUpload, PartsOf, RecordsHaveBucket
  <1>12. Live(o.bucket)
    BY <1>3, <1>4 DEF Live, SameBucket
  <1>13. d \in SUBSET Nat
    <2>1. ASSUME NEW x \in PartBlobs(all) PROVE x \in Nat
      BY <1>1, UploadTypes
    <2>2. ASSUME NEW x \in Blobs(Replaced(o)) PROVE x \in Nat
      BY <1>1, <1>8 DEF TypeOK, Version
    <2> QED BY <2>1, <2>2
  <1> HIDE DEF o, all, used
  <1>14. \A x \in d : \/ \E y \in all \ used : x = y.blob
                      \/ \E v \in Replaced(o) : x \in v.blobs
    BY <1>5, <1>8
  <1> HIDE DEF d
  <1>15. \A x \in d : x <= clock /\ \A q \in Reqs : q # p => x \notin Holds(req[q])
    BY <1>2, <1>8, <1>10, <1>14 DEF Stamped, OneOwner
  <1>16. \A v \in objects' : Live(v.bucket)
    BY <1>9, <1>10, <1>12 DEF RecordsHaveBucket
  <1>17. ASSUME NEW v \in objects', NEW x \in v.blobs
         PROVE  x <= clock /\ <<v.bucket, x>> \in files /\ x \notin d
    <2>1. CASE v = o
      <3>1. PICK y \in used : x = y.blob
        BY <2>1, <1>3, <1>5
      <3>2. y \in parts /\ y.bucket = v.bucket
        BY <2>1, <1>2, <1>3
      <3>3. x <= clock /\ <<v.bucket, x>> \in files
        BY <3>1, <3>2, <1>10 DEF Stamped, NoDanglingBlob
      <3>4. x \notin d
        BY <3>1, <3>2, <1>2, <1>8, <1>10, <1>14 DEF OneOwner
      <3> QED BY <3>3, <3>4
    <2>2. CASE v # o
      <3>1. v \in objects /\ v \notin Replaced(o)
        BY <2>2, <1>9
      <3>2. x \notin d
        BY <3>1, <1>2, <1>8, <1>10, <1>14 DEF OneOwner
      <3> QED BY <3>1, <3>2, <1>10 DEF Stamped, NoDanglingBlob
    <2> QED BY <2>1, <2>2
  <1>18. ASSUME NEW y \in parts'
         PROVE  y.blob <= clock /\ <<y.bucket, y.blob>> \in files /\ y.blob \notin d
    <2>1. y \in parts /\ y \notin all
      BY <1>7
    <2>2. y.blob \notin d
      BY <2>1, <1>2, <1>8, <1>10, <1>14 DEF OneOwner
    <2> QED BY <2>1, <2>2, <1>10 DEF Stamped, NoDanglingBlob
  <1>19. \A x \in o.blobs : /\ \A v \in objects : x \notin v.blobs
                            /\ \A y \in parts' : y.blob # x
                            /\ \A q \in Reqs : x \notin Holds(req[q])
    BY <1>2, <1>3, <1>5, <1>7, <1>10 DEF OneOwner
  <1>20. \A v1, v2 \in objects' : \A x \in v1.blobs : x \in v2.blobs => v1 = v2
    BY <1>9, <1>10, <1>19 DEF OneOwner
  <1>21. /\ \A y1, y2 \in parts' : y1.blob = y2.blob => y1 = y2
         /\ \A v \in objects', y \in parts' : y.blob \notin v.blobs
    BY <1>7, <1>9, <1>10, <1>19 DEF OneOwner
  <1>22. \A q \in Reqs : q # p => \A x \in Holds(req[q]) :
           (\A v \in objects' : x \notin v.blobs) /\ (\A y \in parts' : y.blob # x)
    BY <1>7, <1>9, <1>10, <1>19 DEF OneOwner
  <1> QED
    BY <1>4, <1>6, <1>7, <1>11, <1>13, <1>15, <1>16, <1>17, <1>18, <1>20, <1>21, <1>22, RecordStep

\* A version record rewritten with the same files.
LEMMA RelabelOwners ==
  ASSUME IInv, NEW o \in objects, NEW n, objects' = (objects \ {o}) \cup {n},
         n.bucket = o.bucket, n.blobs = o.blobs
  PROVE  /\ \A v \in objects' : Live(v.bucket)
         /\ \A v \in objects' : \A x \in v.blobs :
              x <= clock /\ <<v.bucket, x>> \in files /\ \A y \in parts : y.blob # x
         /\ \A v1, v2 \in objects' : \A x \in v1.blobs : x \in v2.blobs => v1 = v2
         /\ \A q \in Reqs : \A x \in Holds(req[q]) : \A v \in objects' : x \notin v.blobs
  <1>1. OneOwner /\ Stamped /\ RecordsHaveBucket /\ NoDanglingBlob
    BY DEF IInv
  <1>2. \A v \in objects' : \E w \in objects : w.bucket = v.bucket /\ w.blobs = v.blobs
    OBVIOUS
  <1>3. \A v \in objects' : Live(v.bucket)
    BY <1>1, <1>2 DEF RecordsHaveBucket
  <1>4. \A v \in objects' : \A x \in v.blobs : x <= clock /\ <<v.bucket, x>> \in files
    BY <1>1, <1>2 DEF Stamped, NoDanglingBlob
  <1>5. \A v \in objects' : \A x \in v.blobs : \A y \in parts : y.blob # x
    BY <1>1, <1>2 DEF OneOwner
  <1>6. \A v1, v2 \in objects' : \A x \in v1.blobs : x \in v2.blobs => v1 = v2
    BY <1>1 DEF OneOwner
  <1>7. \A q \in Reqs : \A x \in Holds(req[q]) : \A v \in objects' : x \notin v.blobs
    BY <1>1, <1>2 DEF OneOwner
  <1> QED BY <1>3, <1>4, <1>5, <1>6, <1>7

\* PutObjectRetention and PutObjectLegalHold rewrite a record with the same files.
LEMMA UpdateVersionStep ==
  ASSUME IInv, TypeOK', NEW p \in Reqs, NEW o \in objects, NEW n, UpdateVersion(p, o, n),
         n.bucket = o.bucket, n.blobs = o.blobs
  PROVE  IInv'
  <1>1. /\ objects' = (objects \ {o}) \cup {n} /\ Cleanup(p, {})
        /\ UNCHANGED <<bucket, uploads, parts, files, clock>>
    BY DEF UpdateVersion, Cleanup
  <1>2. OneOwner /\ Stamped /\ RecordsHaveBucket /\ NoDanglingBlob
    BY DEF IInv
  <1>3. /\ \A y \in parts' : \E u \in uploads' : u.bucket = y.bucket /\ u.id = y.upload
        /\ \A y \in parts' : y.blob <= clock /\ <<y.bucket, y.blob>> \in files
    BY <1>1, <1>2 DEF RecordsHaveBucket, Stamped, NoDanglingBlob
  <1>4. /\ \A y1, y2 \in parts' : y1.blob = y2.blob => y1 = y2
        /\ \A q \in Reqs : \A x \in Holds(req[q]) : \A y \in parts' : y.blob # x
    BY <1>1, <1>2 DEF OneOwner
  <1>5. /\ \A v \in objects' : Live(v.bucket)
        /\ \A v \in objects' : \A x \in v.blobs :
             x <= clock /\ <<v.bucket, x>> \in files /\ \A y \in parts : y.blob # x
        /\ \A v1, v2 \in objects' : \A x \in v1.blobs : x \in v2.blobs => v1 = v2
        /\ \A q \in Reqs : \A x \in Holds(req[q]) : \A v \in objects' : x \notin v.blobs
    BY <1>1, RelabelOwners
  <1> DEFINE d == {}
  <1>6. d \in SUBSET Nat /\ Cleanup(p, d) /\ \A x : x \notin d
    BY <1>1
  <1> HIDE DEF d
  <1>7. /\ \A v \in objects' : \A x \in v.blobs :
             x <= clock /\ <<v.bucket, x>> \in files /\ x \notin d
        /\ \A y \in parts' : y.blob <= clock /\ <<y.bucket, y.blob>> \in files /\ y.blob \notin d
        /\ \A x \in d : x <= clock /\ \A q \in Reqs : q # p => x \notin Holds(req[q])
    BY <1>3, <1>5, <1>6
  <1>8. ASSUME NEW v \in objects', NEW y \in parts', y.blob \in v.blobs PROVE FALSE
    <2>1. y \in parts
      BY <1>1
    <2>2. \A x \in v.blobs : \A z \in parts : z.blob # x
      BY <1>5
    <2> QED BY <2>1, <2>2, <1>8
  <1>9. \A q \in Reqs : q # p => \A x \in Holds(req[q]) :
          (\A v \in objects' : x \notin v.blobs) /\ (\A y \in parts' : y.blob # x)
    BY <1>4, <1>5
  <1> QED BY <1>1, <1>3, <1>4, <1>5, <1>6, <1>7, <1>8, <1>9, RecordStep

\* A retention date that passes changes no file.
LEMMA RetentionExpiresStep ==
  ASSUME IInv, TypeOK', NEW o \in objects, RetentionExpires(o) PROVE IInv'
  <1> DEFINE n == [o EXCEPT !.ret = "none"]
  <1>1. /\ objects' = (objects \ {o}) \cup {n} /\ UNCHANGED <<bucket, uploads, parts, files, clock, req>>
        /\ n.bucket = o.bucket /\ n.blobs = o.blobs
    BY DEF RetentionExpires, IInv, TypeOK, Version
  <1> HIDE DEF n
  <1>2. /\ \A v \in objects' : Live(v.bucket)
        /\ \A v \in objects' : \A x \in v.blobs :
             x <= clock /\ <<v.bucket, x>> \in files /\ \A y \in parts : y.blob # x
        /\ \A v1, v2 \in objects' : \A x \in v1.blobs : x \in v2.blobs => v1 = v2
        /\ \A q \in Reqs : \A x \in Holds(req[q]) : \A v \in objects' : x \notin v.blobs
    BY <1>1, RelabelOwners
  <1>3. Stamped'
    BY <1>1, <1>2 DEF IInv, Stamped
  <1>4. OneOwner'
    BY <1>1, <1>2 DEF IInv, OneOwner
  <1>5. OneRemover' /\ WrittenFileKept'
    BY <1>1 DEF IInv, OneRemover, Exists, WrittenFileKept, Awaited, SameBucket, UploadOf
  <1>6. RecordsHaveBucket'
    BY <1>1, <1>2 DEF IInv, RecordsHaveBucket, Live, Exists
  <1>7. NoDanglingBlob'
    BY <1>1, <1>2 DEF IInv, NoDanglingBlob
  <1> QED BY <1>3, <1>4, <1>5, <1>6, <1>7 DEF IInv

\* A file of a new identifier, which no one owns.
LEMMA WriteBlobStep ==
  ASSUME IInv, TypeOK', NEW p \in Reqs, NEW ok \in BOOLEAN, WriteBlob(p, ok) PROVE IInv'
  <1> DEFINE r == req[p]
  <1>1. /\ TypeOK /\ Stamped /\ OneOwner /\ OneRemover /\ RecordsHaveBucket
        /\ WrittenFileKept /\ NoDanglingBlob
    BY DEF IInv
  <1>2. /\ r.stage \in {"put", "part"} /\ files' = files \cup {<<r.bucket, clock'>>}
        /\ UNCHANGED <<bucket, objects, uploads, parts>>
    BY DEF WriteBlob, records
  <1>3. clock \in Nat /\ clock' \in Nat /\ clock' = clock + 1
    BY <1>1, TickType DEF WriteBlob, TypeOK
  <1>4. /\ \A q \in Reqs : q # p => req'[q] = req[q]
        /\ Holds(req'[p]) \subseteq Holds(r) \cup {clock'}
        /\ req'[p].del \subseteq r.del \cup {clock'}
        /\ req'[p].seen \in {0, r.seen} /\ req'[p].upload \in {0, r.upload}
        /\ req'[p].blob \in {0, clock'}
        /\ req'[p].stage \in {"putTx", "partTx", "cleanup"}
        /\ req'[p].stage \in {"putTx", "partTx"} => req'[p].bucket = r.bucket /\ req'[p].blob = clock'
    <2>1. CASE ok
      <3> DEFINE n == [r EXCEPT !.stage = IF r.stage = "put" THEN "putTx" ELSE "partTx",
                                !.blob = clock']
      <3>1. Become(p, n)
        BY <2>1 DEF WriteBlob
      <3>2. /\ n.stage \in {"putTx", "partTx"} /\ n.del = r.del /\ n.seen = r.seen
            /\ n.upload = r.upload /\ n.blob = clock' /\ n.bucket = r.bucket
        BY <1>1 DEF TypeOK, Request
      <3> HIDE DEF n
      <3>3. Holds(n) \subseteq Holds(r) \cup {clock'}
        BY <3>2 DEF Holds
      <3> QED BY <3>1, <3>2, <3>3, <1>1, BecomeReq
    <2>2. CASE ~ok
      <3>1. Cleanup(p, {clock'}) /\ {clock'} \in SUBSET Nat /\ {clock'} # {}
        BY <2>2, <1>3 DEF WriteBlob
      <3>2. req'[p].stage = "cleanup"
        <4> DEFINE n == [Idle EXCEPT !.stage = "cleanup", !.bucket = req[p].bucket, !.del = {clock'}]
        <4>1. Become(p, n)
          BY <3>1 DEF Cleanup
        <4>2. n.stage = "cleanup"
          BY DEF Idle
        <4> HIDE DEF n
        <4> QED BY <4>1, <4>2, <1>1, BecomeReq
      <3> QED BY <3>1, <3>2, <1>1, CleanupReq
    <2> QED BY <2>1, <2>2
  <1>5. Stamped'
    <2>1. \A b \in Buckets : bucket'[b].created <= clock'
      BY <1>1, <1>2, <1>3 DEF Stamped, TypeOK, Bucket
    <2>2. \A o \in objects' : \A x \in o.blobs : x <= clock'
      BY <1>1, <1>2, <1>3 DEF Stamped, TypeOK, Version
    <2>3. \A u \in uploads' : u.id <= clock'
      BY <1>1, <1>2, <1>3 DEF Stamped, TypeOK, Upload
    <2>4. \A y \in parts' : y.blob <= clock'
      BY <1>1, <1>2, <1>3 DEF Stamped, TypeOK, Part
    <2>5. ASSUME NEW q \in Reqs
          PROVE  /\ req'[q].seen <= clock' /\ req'[q].upload <= clock' /\ req'[q].blob <= clock'
                 /\ \A x \in req'[q].del : x <= clock'
      <3>1. /\ req[q].seen <= clock' /\ req[q].upload <= clock' /\ req[q].blob <= clock'
            /\ \A x \in req[q].del : x <= clock'
        BY <1>1, <1>3 DEF Stamped, TypeOK, Request
      <3>2. CASE q = p
        BY <3>1, <3>2, <1>3, <1>4
      <3>3. CASE q # p
        BY <3>1, <3>3, <1>4
      <3> QED BY <3>2, <3>3
    <2> QED BY <2>1, <2>2, <2>3, <2>4, <2>5 DEF Stamped
  <1>6. /\ \A o \in objects : clock' \notin o.blobs
        /\ \A y \in parts : y.blob # clock'
        /\ \A q \in Reqs : clock' \notin Holds(req[q])
    <2>1. \A x \in Nat : x <= clock => x # clock'
      BY <1>3
    <2>2. \A o \in objects : clock' \notin o.blobs
      BY <1>1, <1>3 DEF Stamped, TypeOK, Version
    <2>3. \A y \in parts : y.blob # clock'
      BY <1>1, <1>3 DEF Stamped, TypeOK, Part
    <2>4. \A q \in Reqs : clock' \notin Holds(req[q])
      BY <1>1, <1>3 DEF Stamped, TypeOK, Request, Holds
    <2> QED BY <2>2, <2>3, <2>4
  <1>7. OneOwner'
    <2>1. ASSUME NEW q \in Reqs, NEW x \in Holds(req'[q])
          PROVE  /\ \A o \in objects : x \notin o.blobs
                 /\ \A y \in parts : y.blob # x
                 /\ \A t \in Reqs : t # q => x \notin Holds(req'[t])
      <3>1. CASE q = p
        BY <3>1, <2>1, <1>1, <1>4, <1>6 DEF OneOwner
      <3>2. CASE q # p
        BY <3>2, <2>1, <1>1, <1>4, <1>6 DEF OneOwner
      <3> QED BY <3>1, <3>2
    <2> QED BY <2>1, <1>1, <1>2 DEF OneOwner
  <1>8. OneRemover'
    BY <1>1, <1>2, <1>4 DEF OneRemover, Removing, Exists
  <1>9. RecordsHaveBucket'
    BY <1>1, <1>2 DEF RecordsHaveBucket, Live, Exists
  <1>10. WrittenFileKept'
    <2>1. ASSUME NEW q \in Reqs, Awaited(req[q])' PROVE <<req'[q].bucket, req'[q].blob>> \in files'
      <3>1. CASE q = p
        BY <3>1, <2>1, <1>2, <1>4 DEF Awaited
      <3>2. CASE q # p
        BY <3>2, <2>1, <1>1, <1>2, <1>4 DEF Awaited, Exists, SameBucket, UploadOf, WrittenFileKept
      <3> QED BY <3>1, <3>2
    <2> QED BY <2>1 DEF WrittenFileKept
  <1>11. NoDanglingBlob'
    BY <1>1, <1>2 DEF NoDanglingBlob
  <1> QED BY <1>5, <1>7, <1>8, <1>9, <1>10, <1>11 DEF IInv

\* deleteBlobs removes a file that only its request owns.
LEMMA DeleteBlobStep ==
  ASSUME IInv, TypeOK', NEW p \in Reqs, NEW x \in req[p].del, NEW ok \in BOOLEAN,
         DeleteBlob(p, x, ok)
  PROVE  IInv'
  <1> DEFINE r == req[p]
  <1>1. /\ TypeOK /\ Stamped /\ OneOwner /\ OneRemover /\ RecordsHaveBucket
        /\ WrittenFileKept /\ NoDanglingBlob
    BY DEF IInv
  <1>2. r.del \ {x} \in SUBSET Nat /\ Cleanup(p, r.del \ {x})
    BY <1>1 DEF DeleteBlob, TypeOK, Request
  <1>3. UNCHANGED <<bucket, objects, uploads, parts, clock>>
    BY DEF DeleteBlob, records
  <1>4. \A f \in files : f # <<r.bucket, x>> => f \in files'
    BY DEF DeleteBlob
  <1>5. x \in Holds(r) /\ r.del \subseteq Holds(r)
    BY DEF Holds
  <1>6. /\ Holds(req'[p]) = r.del \ {x} /\ req'[p].del = r.del \ {x}
        /\ req'[p].stage \in {"idle", "cleanup"}
        /\ req'[p].seen = 0 /\ req'[p].upload = 0 /\ req'[p].blob = 0
        /\ \A q \in Reqs : q # p => req'[q] = req[q]
    BY <1>1, <1>2, CleanupReq
  <1>7. \A q \in Reqs : Holds(req'[q]) \subseteq Holds(req[q])
    BY <1>5, <1>6
  <1>8. Stamped'
    BY <1>1, <1>3, <1>6 DEF Stamped, TypeOK
  <1>9. OneOwner'
    BY <1>1, <1>3, <1>7 DEF OneOwner
  <1>10. OneRemover'
    BY <1>1, <1>3, <1>6 DEF OneRemover, Removing, Exists
  <1>11. RecordsHaveBucket'
    BY <1>1, <1>3 DEF RecordsHaveBucket, Live, Exists
  <1>12. WrittenFileKept'
    <2>1. ASSUME NEW q \in Reqs, Awaited(req[q])' PROVE <<req'[q].bucket, req'[q].blob>> \in files'
      <3>1. q # p
        BY <2>1, <1>6 DEF Awaited
      <3>2. Awaited(req[q]) /\ req'[q] = req[q]
        BY <2>1, <3>1, <1>3, <1>6 DEF Awaited, Exists, SameBucket, UploadOf
      <3>3. req[q].blob \in Holds(req[q])
        BY <3>2 DEF Awaited, Holds
      <3>4. req[q].blob # x
        BY <3>1, <3>3, <1>1, <1>5 DEF OneOwner
      <3> QED BY <3>2, <3>4, <1>1, <1>4 DEF WrittenFileKept
    <2> QED BY <2>1 DEF WrittenFileKept
  <1>13. NoDanglingBlob'
    <2>1. /\ \A o \in objects : x \notin o.blobs
          /\ \A y \in parts : y.blob # x
      BY <1>1, <1>5 DEF OneOwner
    <2> QED BY <2>1, <1>1, <1>3, <1>4 DEF NoDanglingBlob
  <1> QED BY <1>8, <1>9, <1>10, <1>11, <1>12, <1>13 DEF IInv

\* CreateUpload: the upload ID is new, so no part is its already.
LEMMA CreateUploadStep == ASSUME IInv, TypeOK', NEW p \in Reqs, CreateUpload(p) PROVE IInv'
  <1> DEFINE r == req[p]
             new == [bucket |-> r.bucket, key |-> r.key, id |-> clock', hold |-> r.hold,
                     ret |-> r.ret]
  <1>1. /\ TypeOK /\ Stamped /\ OneOwner /\ OneRemover /\ RecordsHaveBucket
        /\ WrittenFileKept /\ NoDanglingBlob
    BY DEF IInv
  <1>2. /\ uploads' = uploads \cup {new} /\ LiveBucket(r) /\ Become(p, Idle)
        /\ UNCHANGED <<bucket, objects, parts, files>>
    BY DEF CreateUpload, Finish
  <1>3. clock \in Nat /\ clock' \in Nat /\ clock' = clock + 1
    BY <1>1, TickType DEF CreateUpload, TypeOK
  <1>4. new.id = clock' /\ new.bucket = r.bucket
    OBVIOUS
  <1> HIDE DEF new
  <1>5. req'[p] = Idle /\ \A q \in Reqs : q # p => req'[q] = req[q]
    BY <1>1, <1>2, BecomeReq
  <1>6. \A q \in Reqs : Holds(req'[q]) \subseteq Holds(req[q])
    BY <1>5, IdleFacts
  <1>7. Stamped'
    <2>1. \A b \in Buckets : bucket'[b].created <= clock'
      BY <1>1, <1>2, <1>3 DEF Stamped, TypeOK, Bucket
    <2>2. \A o \in objects' : \A x \in o.blobs : x <= clock'
      BY <1>1, <1>2, <1>3 DEF Stamped, TypeOK, Version
    <2>3. \A u \in uploads' : u.id <= clock'
      BY <1>1, <1>2, <1>3, <1>4 DEF Stamped, TypeOK, Upload
    <2>4. \A y \in parts' : y.blob <= clock'
      BY <1>1, <1>2, <1>3 DEF Stamped, TypeOK, Part
    <2>5. ASSUME NEW q \in Reqs
          PROVE  /\ req'[q].seen <= clock' /\ req'[q].upload <= clock' /\ req'[q].blob <= clock'
                 /\ \A x \in req'[q].del : x <= clock'
      <3>1. CASE q = p
        BY <3>1, <1>3, <1>5, IdleFacts
      <3>2. CASE q # p
        BY <3>2, <1>1, <1>3, <1>5 DEF Stamped, TypeOK, Request
      <3> QED BY <3>1, <3>2
    <2> QED BY <2>1, <2>2, <2>3, <2>4, <2>5 DEF Stamped
  <1>8. OneOwner'
    BY <1>1, <1>2, <1>6 DEF OneOwner
  <1>9. OneRemover'
    BY <1>1, <1>2, <1>5, IdleFacts DEF OneRemover, Removing, Exists
  <1>10. RecordsHaveBucket'
    BY <1>1, <1>2, <1>4 DEF RecordsHaveBucket, LiveBucket, Live, Exists
  <1>11. WrittenFileKept'
    <2>1. ASSUME NEW q \in Reqs, Awaited(req[q])' PROVE Awaited(req[q]) /\ q # p
      <3>1. q # p /\ req'[q] = req[q]
        BY <2>1, <1>5, IdleFacts DEF Awaited
      <3>2. req[q].upload # clock'
        BY <1>1, <1>3 DEF Stamped, TypeOK, Request
      <3>3. UploadOf(req[q])' = UploadOf(req[q])
        BY <3>1, <3>2, <1>2, <1>4 DEF UploadOf
      <3> QED BY <2>1, <3>1, <3>3, <1>2 DEF Awaited, Exists, SameBucket
    <2> QED BY <2>1, <1>1, <1>2, <1>5 DEF WrittenFileKept
  <1>12. NoDanglingBlob'
    BY <1>1, <1>2 DEF NoDanglingBlob
  <1> QED BY <1>7, <1>8, <1>9, <1>10, <1>11, <1>12 DEF IInv

\* CreateBucket: the name has no record, so no object, upload or part is under it.
LEMMA CreateBucketStep ==
  ASSUME IInv, TypeOK', NEW b \in Buckets, NEW lock \in Locking, CreateBucket(b, lock)
  PROVE  IInv'
  <1>1. /\ TypeOK /\ Stamped /\ OneOwner /\ OneRemover /\ RecordsHaveBucket
        /\ WrittenFileKept /\ NoDanglingBlob
    BY DEF IInv
  <1>2. clock \in Nat /\ clock' \in Nat /\ clock' = clock + 1
    BY <1>1, TickType DEF CreateBucket, TypeOK
  <1>3. /\ bucket'[b].created = clock' /\ ~bucket'[b].deleting
        /\ \A c \in Buckets : c # b => bucket'[c] = bucket[c]
        /\ bucket[b].created = 0
        /\ UNCHANGED <<objects, uploads, parts, files, req>>
    BY <1>1 DEF CreateBucket, TypeOK, Exists
  <1>4. Stamped'
    <2>1. ASSUME NEW c \in Buckets PROVE bucket'[c].created <= clock'
      <3>1. bucket[c].created \in Nat /\ bucket[c].created <= clock
        BY <1>1 DEF Stamped, TypeOK, Bucket
      <3> QED BY <3>1, <1>2, <1>3
    <2>2. \A o \in objects' : \A x \in o.blobs : x <= clock'
      BY <1>1, <1>2, <1>3 DEF Stamped, TypeOK, Version
    <2>3. \A u \in uploads' : u.id <= clock'
      BY <1>1, <1>2, <1>3 DEF Stamped, TypeOK, Upload
    <2>4. \A y \in parts' : y.blob <= clock'
      BY <1>1, <1>2, <1>3 DEF Stamped, TypeOK, Part
    <2>5. ASSUME NEW q \in Reqs
          PROVE  /\ req'[q].seen <= clock' /\ req'[q].upload <= clock' /\ req'[q].blob <= clock'
                 /\ \A x \in req'[q].del : x <= clock'
      BY <1>1, <1>2, <1>3 DEF Stamped, TypeOK, Request
    <2> QED BY <2>1, <2>2, <2>3, <2>4, <2>5 DEF Stamped
  <1>5. OneOwner'
    BY <1>1, <1>3 DEF OneOwner
  <1>6. OneRemover'
    BY <1>1, <1>3 DEF OneRemover, Removing, Exists, TypeOK, Request
  <1>7. RecordsHaveBucket'
    BY <1>1, <1>2, <1>3 DEF RecordsHaveBucket, Live, Exists, TypeOK, Version, Upload
  <1>8. WrittenFileKept'
    <2>1. ASSUME NEW q \in Reqs, Awaited(req[q])' PROVE Awaited(req[q])
      <3>1. req[q].seen # clock' /\ req[q].bucket \in Buckets
        BY <1>1, <1>2 DEF Stamped, TypeOK, Request
      <3>2. CASE req[q].bucket = b
        BY <2>1, <3>1, <3>2, <1>3 DEF Awaited, Exists, SameBucket, UploadOf
      <3>3. CASE req[q].bucket # b
        BY <2>1, <3>1, <3>3, <1>3 DEF Awaited, Exists, SameBucket, UploadOf
      <3> QED BY <3>2, <3>3
    <2> QED BY <2>1, <1>1, <1>3 DEF WrittenFileKept
  <1>9. NoDanglingBlob'
    BY <1>1, <1>3 DEF NoDanglingBlob
  <1> QED BY <1>4, <1>5, <1>6, <1>7, <1>8, <1>9 DEF IInv

\* The record is marked, its uploads and parts go, and no version is left.
LEMMA MarkDeletingStep ==
  ASSUME IInv, TypeOK', NEW p \in Reqs, NEW b \in Buckets, Live(b), MarkDeleting(p, b),
         objects' = {o \in objects : o.bucket # b}, UNCHANGED <<files, clock>>
  PROVE  IInv'
  <1> DEFINE n == [Idle EXCEPT !.stage = "remove", !.bucket = b]
  <1>1. /\ TypeOK /\ Stamped /\ OneOwner /\ OneRemover /\ RecordsHaveBucket
        /\ WrittenFileKept /\ NoDanglingBlob
    BY DEF IInv
  <1>2. /\ n.stage = "remove" /\ n.bucket = b /\ n.del = {} /\ n.seen = 0 /\ n.upload = 0
        /\ n.blob = 0
    BY DEF Idle
  <1>3. Become(p, n) /\ uploads' = {u \in uploads : u.bucket # b} /\ parts' = {x \in parts : x.bucket # b}
    BY DEF MarkDeleting
  <1> HIDE DEF n
  <1>4. req'[p] = n /\ \A q \in Reqs : q # p => req'[q] = req[q]
    BY <1>1, <1>3, BecomeReq
  <1>5. /\ \A c \in Buckets : bucket'[c].created = bucket[c].created
        /\ \A c \in Buckets : c # b => bucket'[c] = bucket[c]
        /\ bucket'[b].deleting
    BY <1>1 DEF MarkDeleting, TypeOK, Bucket
  <1>6. Holds(n) = {} /\ Removing(n)
    BY <1>2 DEF Holds, Removing
  <1>7. \A q \in Reqs : Holds(req'[q]) \subseteq Holds(req[q])
    BY <1>4, <1>6
  <1>8. Stamped'
    BY <1>1, <1>2, <1>3, <1>4, <1>5 DEF Stamped, TypeOK
  <1>9. OneOwner'
    BY <1>1, <1>3, <1>7 DEF OneOwner
  <1>10. OneRemover'
    <2>1. \A q \in Reqs : Removing(req[q]) => req[q].bucket # b /\ req[q].bucket \in Buckets
      BY <1>1 DEF OneRemover, Live, TypeOK, Request
    <2>2. \A q \in Reqs : q # p /\ Removing(req'[q]) =>
             /\ Exists(req[q].bucket)' /\ bucket'[req[q].bucket].deleting
      BY <2>1, <1>1, <1>4, <1>5 DEF OneRemover, Exists
    <2>3. Exists(b)' /\ bucket'[b].deleting
      BY <1>5 DEF Live, Exists
    <2> QED BY <2>1, <2>2, <2>3, <1>1, <1>2, <1>4 DEF OneRemover
  <1>11. RecordsHaveBucket'
    <2>1. \A c \in Buckets : c # b /\ Live(c) => Live(c)'
      BY <1>5 DEF Live, Exists
    <2>2. \A o \in objects' : Live(o.bucket)'
      BY <2>1, <1>1 DEF RecordsHaveBucket, TypeOK, Version
    <2>3. \A u \in uploads' : Live(u.bucket)'
      BY <2>1, <1>1, <1>3 DEF RecordsHaveBucket, TypeOK, Upload
    <2>4. \A x \in parts' : \E u \in uploads' : u.bucket = x.bucket /\ u.id = x.upload
      BY <1>1, <1>3 DEF RecordsHaveBucket
    <2> QED BY <2>2, <2>3, <2>4 DEF RecordsHaveBucket
  <1>12. WrittenFileKept'
    <2>1. ASSUME NEW q \in Reqs, Awaited(req[q])' PROVE Awaited(req[q]) /\ req'[q] = req[q]
      <3>1. q # p /\ req'[q] = req[q] /\ req[q].bucket \in Buckets
        BY <2>1, <1>1, <1>2, <1>4 DEF Awaited, TypeOK, Request
      <3>2. CASE req[q].bucket = b
        BY <2>1, <3>1, <3>2, <1>3, <1>5 DEF Awaited, SameBucket, UploadOf
      <3>3. CASE req[q].bucket # b
        BY <2>1, <3>1, <3>3, <1>3, <1>5 DEF Awaited, Exists, SameBucket, UploadOf
      <3> QED BY <3>2, <3>3
    <2> QED BY <2>1, <1>1 DEF WrittenFileKept
  <1>13. NoDanglingBlob'
    BY <1>1, <1>3 DEF NoDanglingBlob
  <1> QED BY <1>8, <1>9, <1>10, <1>11, <1>12, <1>13 DEF IInv

\* RemoveAll unlinks a file of a bucket that has no records left.
LEMMA RemoveFileStep ==
  ASSUME IInv, TypeOK', NEW p \in Reqs, NEW x, RemoveFile(p, x) PROVE IInv'
  <1> DEFINE b == req[p].bucket
  <1>1. /\ TypeOK /\ Stamped /\ OneOwner /\ OneRemover /\ RecordsHaveBucket
        /\ WrittenFileKept /\ NoDanglingBlob
    BY DEF IInv
  <1>2. /\ req[p].stage = "remove" /\ files' = files \ {<<b, x>>}
        /\ UNCHANGED <<bucket, objects, uploads, parts, clock, req>>
    BY DEF RemoveFile, records
  <1>3. ~Live(b)
    BY <1>1, <1>2 DEF OneRemover, Removing, Live
  <1>4. /\ \A o \in objects : o.bucket # b
        /\ \A u \in uploads : u.bucket # b
        /\ \A y \in parts : y.bucket # b
    BY <1>1, <1>3 DEF RecordsHaveBucket
  <1>5. \A q \in Reqs : Awaited(req[q]) => req[q].bucket # b
    BY <1>3, <1>4 DEF Awaited, SameBucket, UploadOf, Live
  <1>6. WrittenFileKept'
    BY <1>1, <1>2, <1>5 DEF WrittenFileKept, Awaited, Exists, SameBucket, UploadOf
  <1>7. NoDanglingBlob'
    BY <1>1, <1>2, <1>4 DEF NoDanglingBlob
  <1>8. Stamped' /\ OneOwner' /\ OneRemover' /\ RecordsHaveBucket'
    BY <1>1, <1>2 DEF Stamped, OneOwner, OneRemover, Exists, RecordsHaveBucket, Live
  <1> QED BY <1>6, <1>7, <1>8 DEF IInv

\* RemoveAll has emptied the directory.
LEMMA RemoveDoneStep == ASSUME IInv, TypeOK', NEW p \in Reqs, RemoveDone(p) PROVE IInv'
  <1> DEFINE n == [req[p] EXCEPT !.stage = "drop"]
  <1>1. /\ TypeOK /\ Stamped /\ OneOwner /\ OneRemover /\ RecordsHaveBucket
        /\ WrittenFileKept /\ NoDanglingBlob
    BY DEF IInv
  <1>2. /\ n.stage = "drop" /\ n.bucket = req[p].bucket /\ n.del = req[p].del
        /\ n.seen = req[p].seen /\ n.upload = req[p].upload /\ n.blob = req[p].blob
    BY <1>1 DEF TypeOK, Request
  <1>3. /\ Become(p, n) /\ req[p].stage = "remove"
        /\ UNCHANGED <<bucket, objects, uploads, parts, files, clock>>
    BY DEF RemoveDone, records
  <1> HIDE DEF n
  <1>4. req'[p] = n /\ \A q \in Reqs : q # p => req'[q] = req[q]
    BY <1>1, <1>3, BecomeReq
  <1>5. \A q \in Reqs : Holds(req'[q]) = Holds(req[q])
    BY <1>2, <1>3, <1>4 DEF Holds
  <1>6. \A q \in Reqs : req'[q].bucket = req[q].bucket /\ (Removing(req'[q]) <=> Removing(req[q]))
    BY <1>2, <1>3, <1>4 DEF Removing
  <1>7. Stamped'
    BY <1>1, <1>2, <1>3, <1>4 DEF Stamped
  <1>8. OneOwner'
    BY <1>1, <1>3, <1>5 DEF OneOwner
  <1>9. OneRemover'
    BY <1>1, <1>3, <1>6 DEF OneRemover, Exists
  <1>10. RecordsHaveBucket' /\ NoDanglingBlob'
    BY <1>1, <1>3 DEF RecordsHaveBucket, Live, Exists, NoDanglingBlob
  <1>11. WrittenFileKept'
    <2>1. \A q \in Reqs : Awaited(req[q])' => Awaited(req[q]) /\ req'[q] = req[q]
      BY <1>2, <1>3, <1>4 DEF Awaited, Exists, SameBucket, UploadOf
    <2> QED BY <2>1, <1>1, <1>3 DEF WrittenFileKept
  <1> QED BY <1>7, <1>8, <1>9, <1>10, <1>11 DEF IInv

\* finishDelete drops the record of a bucket under which there is nothing.
LEMMA DropRecordStep == ASSUME IInv, TypeOK', NEW p \in Reqs, DropRecord(p) PROVE IInv'
  <1> DEFINE b == req[p].bucket
  <1>1. /\ TypeOK /\ Stamped /\ OneOwner /\ OneRemover /\ RecordsHaveBucket
        /\ WrittenFileKept /\ NoDanglingBlob
    BY DEF IInv
  <1>2. b \in Buckets /\ clock \in Nat
    BY <1>1 DEF TypeOK, Request
  <1>3. /\ Become(p, Idle) /\ req[p].stage = "drop"
        /\ UNCHANGED <<objects, uploads, parts, files, clock>>
    BY DEF DropRecord, Finish
  <1>4. Removing(req[p]) /\ bucket[b].deleting /\ ~Live(b)
    BY <1>1, <1>3 DEF Removing, OneRemover, Live
  <1>5. bucket'[b] = NoBucket /\ \A c \in Buckets : c # b => bucket'[c] = bucket[c]
    BY <1>1, <1>2, <1>4 DEF DropRecord, TypeOK
  <1>6. req'[p] = Idle /\ \A q \in Reqs : q # p => req'[q] = req[q]
    BY <1>1, <1>3, BecomeReq
  <1>7. \A q \in Reqs : Holds(req'[q]) \subseteq Holds(req[q])
    BY <1>6, IdleFacts
  <1>8. /\ \A o \in objects : o.bucket # b /\ o.bucket \in Buckets
        /\ \A u \in uploads : u.bucket # b /\ u.bucket \in Buckets
    BY <1>1, <1>4 DEF RecordsHaveBucket, TypeOK, Version, Upload
  <1>9. Stamped'
    <2>1. ASSUME NEW c \in Buckets PROVE bucket'[c].created <= clock'
      BY <1>1, <1>2, <1>3, <1>5 DEF Stamped, NoBucket
    <2>2. ASSUME NEW q \in Reqs
          PROVE  /\ req'[q].seen <= clock' /\ req'[q].upload <= clock' /\ req'[q].blob <= clock'
                 /\ \A x \in req'[q].del : x <= clock'
      BY <1>1, <1>2, <1>3, <1>6, IdleFacts DEF Stamped
    <2> QED BY <2>1, <2>2, <1>1, <1>3 DEF Stamped
  <1>10. OneOwner'
    BY <1>1, <1>3, <1>7 DEF OneOwner
  <1>11. OneRemover'
    <2>1. ASSUME NEW q \in Reqs, Removing(req'[q])
          PROVE  /\ q # p /\ req'[q] = req[q] /\ req[q].bucket # b /\ req[q].bucket \in Buckets
      <3>1. q # p /\ req'[q] = req[q]
        BY <2>1, <1>6, IdleFacts
      <3> QED BY <2>1, <3>1, <1>1, <1>4 DEF OneRemover, TypeOK, Request
    <2> QED BY <2>1, <1>1, <1>5 DEF OneRemover, Exists
  <1>12. RecordsHaveBucket'
    BY <1>1, <1>3, <1>5, <1>8 DEF RecordsHaveBucket, Live, Exists
  <1>13. WrittenFileKept'
    <2>1. ASSUME NEW q \in Reqs, Awaited(req[q])' PROVE Awaited(req[q]) /\ req'[q] = req[q]
      <3>1. req'[q] = req[q] /\ req[q].bucket \in Buckets
        BY <2>1, <1>1, <1>6, IdleFacts DEF Awaited, TypeOK, Request
      <3>2. CASE req[q].bucket = b
        BY <2>1, <3>1, <3>2, <1>3, <1>5, <1>8 DEF Awaited, Exists, NoBucket, UploadOf
      <3>3. CASE req[q].bucket # b
        BY <2>1, <3>1, <3>3, <1>3, <1>5 DEF Awaited, Exists, SameBucket, UploadOf
      <3> QED BY <3>1, <3>2, <3>3
    <2> QED BY <2>1, <1>1, <1>3 DEF WrittenFileKept
  <1>14. NoDanglingBlob'
    BY <1>1, <1>3 DEF NoDanglingBlob
  <1> QED BY <1>9, <1>10, <1>11, <1>12, <1>13, <1>14 DEF IInv

\* The process dies: no request owns a file any longer, the records keep theirs.
LEMMA CrashStep == ASSUME IInv, TypeOK', Crash PROVE IInv'
  <1>1. \A q \in Reqs : req'[q] = Idle
    BY DEF Crash
  <1>2. UNCHANGED <<bucket, objects, uploads, parts, files, clock>> /\ clock \in Nat
    BY DEF Crash, records, IInv, TypeOK
  <1>3. Stamped'
    BY <1>1, <1>2, IdleFacts DEF IInv, Stamped
  <1>4. OneOwner'
    BY <1>1, <1>2, IdleFacts DEF IInv, OneOwner
  <1>5. OneRemover'
    BY <1>1, IdleFacts DEF OneRemover
  <1>6. WrittenFileKept'
    BY <1>1, IdleFacts DEF WrittenFileKept, Awaited
  <1>7. RecordsHaveBucket' /\ NoDanglingBlob'
    BY <1>2 DEF IInv, RecordsHaveBucket, Live, Exists, NoDanglingBlob
  <1> QED BY <1>3, <1>4, <1>5, <1>6, <1>7 DEF IInv

\* FinishDeletes takes up the removal of a marked bucket.
LEMMA FinishDeletesStep ==
  ASSUME IInv, TypeOK', NEW p \in Reqs, NEW b \in Buckets, FinishDeletes(p, b) PROVE IInv'
  <1> DEFINE n == [Idle EXCEPT !.stage = "remove", !.bucket = b]
  <1>1. /\ TypeOK /\ Stamped /\ OneOwner /\ OneRemover /\ RecordsHaveBucket
        /\ WrittenFileKept /\ NoDanglingBlob
    BY DEF IInv
  <1>2. /\ n.stage = "remove" /\ n.bucket = b /\ n.del = {} /\ n.seen = 0 /\ n.upload = 0
        /\ n.blob = 0
    BY DEF Idle
  <1>3. /\ Become(p, n) /\ \A q \in Reqs : req[q].stage = "idle"
        /\ Exists(b) /\ bucket[b].deleting
        /\ UNCHANGED <<bucket, objects, uploads, parts, files, clock>>
    BY DEF FinishDeletes, records
  <1> HIDE DEF n
  <1>4. req'[p] = n /\ \A q \in Reqs : q # p => req'[q] = req[q]
    BY <1>1, <1>3, BecomeReq
  <1>5. \A q \in Reqs : Holds(req'[q]) \subseteq Holds(req[q])
    BY <1>2, <1>4 DEF Holds
  <1>6. Stamped'
    BY <1>1, <1>2, <1>3, <1>4 DEF Stamped, TypeOK
  <1>7. OneOwner'
    BY <1>1, <1>3, <1>5 DEF OneOwner
  <1>8. OneRemover'
    BY <1>2, <1>3, <1>4 DEF OneRemover, Removing, Exists
  <1>9. WrittenFileKept'
    BY <1>2, <1>3, <1>4 DEF WrittenFileKept, Awaited
  <1>10. RecordsHaveBucket' /\ NoDanglingBlob'
    BY <1>1, <1>3 DEF RecordsHaveBucket, Live, Exists, NoDanglingBlob
  <1> QED BY <1>6, <1>7, <1>8, <1>9, <1>10 DEF IInv

\* A step that changes nothing the invariant speaks of.
LEMMA SameStep ==
  ASSUME IInv, TypeOK', UNCHANGED <<bucket, objects, uploads, parts, files, clock, req>>
  PROVE  IInv'
  <1>1. Stamped' /\ OneOwner' /\ NoDanglingBlob'
    BY DEF IInv, Stamped, OneOwner, NoDanglingBlob
  <1>2. OneRemover' /\ RecordsHaveBucket'
    BY DEF IInv, OneRemover, RecordsHaveBucket, Live, Exists
  <1>3. WrittenFileKept'
    BY DEF IInv, WrittenFileKept, Awaited, Exists, SameBucket, UploadOf
  <1> QED BY <1>1, <1>2, <1>3 DEF IInv

\* The inductive invariant holds at a first start.
LEMMA InitIInv == Init => IInv
  <1> SUFFICES ASSUME Init PROVE IInv
    OBVIOUS
  <1>1. TypeOK
    BY InitType
  <1>2. /\ objects = {} /\ uploads = {} /\ parts = {} /\ files = {} /\ clock = 0
        /\ \A q \in Reqs : req[q] = Idle
        /\ \A b \in Buckets : bucket[b].created = 0
    BY DEF Init, NoBucket
  <1>3. Stamped
    BY <1>2, IdleFacts DEF Stamped
  <1>4. OneOwner
    BY <1>2, IdleFacts DEF OneOwner
  <1>5. OneRemover /\ WrittenFileKept
    BY <1>2, IdleFacts DEF OneRemover, WrittenFileKept
  <1>6. RecordsHaveBucket /\ NoDanglingBlob
    BY <1>2 DEF RecordsHaveBucket, NoDanglingBlob
  <1> QED BY <1>1, <1>3, <1>4, <1>5, <1>6 DEF IInv

\* The inductive invariant is preserved by every step of the service.
LEMMA NextIInv == IInv /\ [Next]_vars => IInv'
  <1> SUFFICES ASSUME IInv, [Next]_vars PROVE IInv'
    OBVIOUS
  <1>t. TypeOK'
    BY NextType DEF IInv
  <1>1. ASSUME NEW b \in Buckets, NEW lock \in Locking, CreateBucket(b, lock) PROVE IInv'
    BY <1>1, <1>t, CreateBucketStep
  <1>2. ASSUME NEW p \in Reqs, BucketStep(p) PROVE IInv'
    <2>a. req[p].bucket \in Buckets
      BY DEF IInv, TypeOK, Request
    <2>1. CASE DeleteBucket(p)
      <3>1. objects' = {o \in objects : o.bucket # req[p].bucket}
        BY <2>1 DEF DeleteBucket
      <3> QED BY <2>1, <2>a, <3>1, <1>t, MarkDeletingStep DEF DeleteBucket, LiveBucket
    <2>2. CASE DeleteBucketForce(p)
      BY <2>2, <2>a, <1>t, MarkDeletingStep DEF DeleteBucketForce
    <2>3. ASSUME NEW x \in 1..clock, RemoveFile(p, x) PROVE IInv'
      BY <2>3, <1>t, RemoveFileStep
    <2>4. CASE RemoveDone(p)
      BY <2>4, <1>t, RemoveDoneStep
    <2>5. CASE DropRecord(p)
      BY <2>5, <1>t, DropRecordStep
    <2>6. CASE \/ \E b \in Buckets, c \in Callers : Authorize(p, b, c)
               \/ ReturnEarly(p)
               \/ \E v \in {"Enabled", "Suspended"} : PutBucketVersioning(p, v)
               \/ PutObjectLockConfig(p)
               \/ RemoveFails(p)
      BY <2>6, <1>t, QuietActions
    <2> QED BY <1>2, <2>1, <2>2, <2>3, <2>4, <2>5, <2>6 DEF BucketStep
  <1>3. ASSUME NEW p \in Reqs, ObjectStep(p) PROVE IInv'
    <2>1. ASSUME NEW ok \in BOOLEAN, WriteBlob(p, ok) PROVE IInv'
      BY <2>1, <1>t, WriteBlobStep
    <2>2. CASE PutTx(p)
      BY <2>2, <1>t, PutTxStep
    <2>3. CASE TxFails(p)
      BY <2>3, <1>t, TxFailsStep
    <2>4. ASSUME NEW x \in req[p].del, NEW ok \in BOOLEAN, DeleteBlob(p, x, ok) PROVE IInv'
      BY <2>4, <1>t, DeleteBlobStep
    <2>5. ASSUME NEW o \in objects, NEW bypass \in BOOLEAN,
                 DeleteVersion(p, o, bypass) \/ DeleteUnversioned(p, o, bypass)
          PROVE  IInv'
      BY <2>5, <1>t, RemoveVersionSteps
    <2>6. ASSUME NEW k \in Keys,
                 DeleteEnabled(p, k) \/ \E bypass \in BOOLEAN : DeleteSuspended(p, k, bypass)
          PROVE  IInv'
      BY <2>6, <1>t, MarkerSteps
    <2>7. ASSUME NEW o \in objects, NEW on \in BOOLEAN, PutObjectLegalHold(p, o, on) PROVE IInv'
      <3>1. [o EXCEPT !.hold = on].bucket = o.bucket /\ [o EXCEPT !.hold = on].blobs = o.blobs
        BY DEF IInv, TypeOK, Version
      <3> QED BY <2>7, <3>1, <1>t, UpdateVersionStep DEF PutObjectLegalHold
    <2>8. ASSUME NEW o \in objects, NEW t \in Retentions, NEW bypass \in BOOLEAN,
                 PutObjectRetention(p, o, t, bypass)
          PROVE  IInv'
      <3>1. [o EXCEPT !.ret = t].bucket = o.bucket /\ [o EXCEPT !.ret = t].blobs = o.blobs
        BY DEF IInv, TypeOK, Version
      <3> QED BY <2>8, <3>1, <1>t, UpdateVersionStep DEF PutObjectRetention
    <2>9. CASE \/ \E k \in Keys, h \in Locking, t \in Retentions, c \in Conditions :
                    PutStart(p, k, h, t, c)
               \/ LockStart(p)
      BY <2>9, <1>t, QuietActions
    <2> QED BY <1>3, <2>1, <2>2, <2>3, <2>4, <2>5, <2>6, <2>7, <2>8, <2>9 DEF ObjectStep
  <1>4. ASSUME NEW p \in Reqs, UploadStep(p) PROVE IInv'
    <2>1. CASE CreateUpload(p)
      BY <2>1, <1>t, CreateUploadStep
    <2>2. CASE PartTx(p)
      BY <2>2, <1>t, PartTxStep
    <2>3. CASE CompleteTx(p)
      BY <2>3, <1>t, CompleteTxStep
    <2>4. ASSUME NEW u \in uploads, AbortUpload(p, u) PROVE IInv'
      BY <2>4, <1>t, AbortUploadStep
    <2>5. CASE \/ \E k \in Keys, h \in Locking, t \in Retentions : UploadStart(p, k, h, t)
               \/ \E u \in uploads, n \in PartNumbers : PartStart(p, u, n)
               \/ \E u \in uploads, want \in SUBSET PartNumbers, c \in Conditions :
                    CompleteStart(p, u, want, c)
               \/ CompleteBucket(p)
      BY <2>5, <1>t, QuietActions
    <2> QED BY <1>4, <2>1, <2>2, <2>3, <2>4, <2>5 DEF UploadStep
  <1>5. ASSUME NEW o \in objects, RetentionExpires(o) PROVE IInv'
    BY <1>5, <1>t, RetentionExpiresStep
  <1>6. CASE Crash
    BY <1>6, <1>t, CrashStep
  <1>7. ASSUME NEW p \in Reqs, NEW b \in Buckets, FinishDeletes(p, b) PROVE IInv'
    BY <1>7, <1>t, FinishDeletesStep
  <1>8. CASE Serve \/ UNCHANGED vars
    BY <1>8, <1>t, SameStep DEF Serve, vars, records
  <1> QED
    BY <1>1, <1>2, <1>3, <1>4, <1>5, <1>6, <1>7, <1>8 DEF Next

\* Whatever requests, bucket removals and crashes do, and however they
\* interleave, a version or part record names only files that are there.
THEOREM NoDangling == Spec => []NoDanglingBlob
  <1>1. IInv => NoDanglingBlob
    BY DEF IInv
  <1> QED BY InitIInv, NextIInv, <1>1, PTL DEF Spec

\* Every version and upload is in a bucket that exists and is not being
\* deleted, and every part belongs to an upload in progress.
THEOREM NoOrphanRecord == Spec => []RecordsHaveBucket
  <1>1. IInv => RecordsHaveBucket
    BY DEF IInv
  <1> QED BY InitIInv, NextIInv, <1>1, PTL DEF Spec
=============================================================================
