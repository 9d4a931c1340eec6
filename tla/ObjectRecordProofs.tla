------------------------- MODULE ObjectRecordProofs -------------------------
(***************************************************************************)
(* More proofs about ObjectStore, on top of the invariant of               *)
(* ObjectStoreProofs: the null pointers, Object Lock, the binding of a     *)
(* request to the bucket it was authorised against, and that no data file  *)
(* is forgotten.                                                           *)
(***************************************************************************)
EXTENDS ObjectStoreProofs

-----------------------------------------------------------------------------
(* The inductive invariant *)

\* A version, upload or request asks for a legal hold or retention.
Asks(x) == x.hold \/ x.ret # "none"

\* A bucket with Object Lock has versioning on.
LockEnabled == \A b \in Buckets : bucket[b].lock => bucket[b].versioning = "Enabled"

SameSlot(o, v) == o.bucket = v.bucket /\ o.key = v.key /\ o.seq = v.seq

\* Sequence numbers name one version, and that of a write on its way is new.
Sequenced ==
  /\ \A o \in objects : o.seq <= clock
  /\ \A o, v \in objects : SameSlot(o, v) => o = v
  /\ \A p \in Reqs : req[p].stage = "putTx" =>
       req[p].blob # 0 /\ \A o \in objects : o.seq # req[p].blob

\* A delete marker is never locked.
MarkersFree == \A o \in objects : o.marker => ~Asks(o)

\* What a request found out about its bucket holds as long as the bucket is
\* the one it asked: that it has Object Lock, or the upload.
DecidedIn(r, buckets, ups, now) ==
  LET b == buckets[r.bucket] IN
  /\ r.expect <= now
  /\ r.stage \in {"put", "putTx"} /\ Asks(r) /\ b.created # 0 /\ b.created = r.seen => b.lock
  /\ r.stage \in {"lock", "mpu", "part", "partTx", "complete", "completeTx"} => r.expect # 0
  /\ r.stage \in {"mpu", "complete", "completeTx"} /\ Asks(r) /\ b.created = r.expect => b.lock
  /\ r.stage = "lock" /\ b.created = r.expect => b.lock
  /\ /\ r.stage \in {"part", "partTx"}
     /\ \E u \in ups : u.bucket = r.bucket /\ u.key = r.key /\ u.id = r.upload
     => b.created = r.expect

Decided(r) == DecidedIn(r, bucket, uploads, clock)

AllDecided == \A p \in Reqs : Decided(req[p])

\* A request holds a file only between writing it and its transaction, and has
\* files to remove only when it cleans up.
Tidy(r) ==
  /\ r.stage \notin {"putTx", "partTx"} => r.blob = 0
  /\ r.stage # "cleanup" => r.del = {}

AllTidy == \A p \in Reqs : Tidy(req[p])

\* NullPointerExact, read from either side.
PointerExact ==
  \A b \in Buckets, k \in Keys :
    /\ \A v \in objects : v.bucket = b /\ v.key = k /\ v.null => nullVer[b][k] # 0 /\ v.seq = nullVer[b][k]
    /\ nullVer[b][k] # 0 =>
         \E v \in objects : v.bucket = b /\ v.key = k /\ v.null /\ v.seq = nullVer[b][k]

LInv ==
  /\ IInv
  /\ LockEnabled
  /\ Sequenced
  /\ MarkersFree
  /\ AllDecided
  /\ AllTidy
  /\ PointerExact
  /\ LockNeedsVersioning

-----------------------------------------------------------------------------
(* What a step does to the version records *)

\* A version with a new sequence, written by a request that may.
FreshPut(o) ==
  /\ PutVersion(o)
  /\ o \in Version /\ o.seq # 0 /\ o.seq <= clock'
  /\ \A v \in objects : v.seq # o.seq
  /\ \A q \in Reqs : req[q].stage = "putTx" /\ req'[q] = req[q] => req[q].blob # o.seq
  /\ bucket' = bucket
  /\ o.null => bucket[o.bucket].versioning # "Enabled"
  /\ Asks(o) => bucket[o.bucket].lock /\ ~o.marker

\* A version removed for good, not locked.
Removal(o) == o \in objects /\ RemoveVersion(o) /\ bucket' = bucket /\ ~Locked(o, TRUE)

\* A version rewritten with other Object Lock settings.
Relabel(o, n) ==
  /\ o \in objects /\ n \in Version
  /\ objects' = (objects \ {o}) \cup {n}
  /\ nullVer' = nullVer /\ bucket' = bucket
  /\ SameSlot(n, o) /\ n.null = o.null /\ n.marker = o.marker /\ n.blobs = o.blobs
  /\ Asks(n) => ~o.marker /\ (Asks(o) \/ bucket[o.bucket].lock)

\* The versions of a bucket that go with it.
Purge(b) ==
  /\ objects' = {o \in objects : o.bucket # b}
  /\ nullVer' = [nullVer EXCEPT ![b] = [k \in Keys |-> 0]]
  /\ bucket' = [bucket EXCEPT ![b].deleting = TRUE]

\* checkLocked refuses more without the bypass.
LEMMA LockedEither == ASSUME NEW o, NEW bypass \in BOOLEAN PROVE Locked(o, TRUE) => Locked(o, bypass)
  BY DEF Locked

\* PutObject writes a version with the sequence it took for its file.
LEMMA PutTxFresh ==
  ASSUME LInv, NEW p \in Reqs, PutTx(p) PROVE FreshPut(NewVersion(req[p]))
  <1> DEFINE r == req[p]
             o == NewVersion(r)
  <1>1. r \in Request /\ o \in Version
    BY VersionTypes DEF LInv, IInv, TypeOK
  <1>2. /\ o.bucket = r.bucket /\ o.seq = r.blob /\ o.hold = r.hold /\ o.ret = r.ret
        /\ o.marker = FALSE /\ o.null = (bucket[r.bucket].versioning # "Enabled")
    BY DEF NewVersion
  <1>3. r.stage = "putTx" /\ PutAllowed(r) /\ PutVersion(o) /\ bucket' = bucket /\ clock' = clock
    BY DEF PutTx
  <1>4. o.seq # 0 /\ \A v \in objects : v.seq # o.seq
    BY <1>2, <1>3 DEF LInv, Sequenced
  <1>5. o.seq <= clock'
    BY <1>2, <1>3 DEF LInv, IInv, Stamped
  <1>6. Asks(o) => bucket[o.bucket].lock
    BY <1>2, <1>3 DEF LInv, AllDecided, Decided, DecidedIn, PutAllowed, SameBucket, Exists, Asks
  <1>8. \A q \in Reqs : req[q].stage = "putTx" /\ req'[q] = req[q] => req[q].blob # o.seq
    <2>1. Blobs(Replaced(o)) \in SUBSET Nat /\ Cleanup(p, Blobs(Replaced(o)))
      BY <1>1, VersionTypes DEF PutTx, LInv, IInv
    <2>2. req'[p].stage # "putTx"
      BY <2>1, CleanupReq DEF LInv, IInv
    <2>3. \A q \in Reqs : req[q].stage = "putTx" => req[q].blob \in Holds(req[q])
      BY DEF Holds
    <2>4. \A q \in Reqs : q # p /\ req[q].stage = "putTx" => req[q].blob # r.blob
      BY <1>3, <2>3 DEF LInv, IInv, OneOwner
    <2> QED BY <1>2, <1>3, <2>2, <2>4
  <1> HIDE DEF o
  <1>7. FreshPut(o)
    BY <1>1, <1>2, <1>3, <1>4, <1>5, <1>6, <1>8 DEF FreshPut
  <1> QED BY <1>7 DEF o

\* Delete markers take a sequence of their own.
LEMMA MarkerFresh ==
  ASSUME LInv, NEW p \in Reqs, NEW k \in Keys, NEW null \in BOOLEAN, Tick,
         PutVersion(Marker(req[p].bucket, k, null, clock')), bucket' = bucket,
         null => bucket[req[p].bucket].versioning # "Enabled"
  PROVE  FreshPut(Marker(req[p].bucket, k, null, clock'))
  <1> DEFINE o == Marker(req[p].bucket, k, null, clock')
  <1>1. clock \in Nat /\ clock' = clock + 1 /\ req[p].bucket \in Buckets
    BY TickType DEF LInv, IInv, TypeOK, Request
  <1>2. o \in Version
    BY <1>1, VersionTypes DEF LInv, IInv
  <1>3. o.bucket = req[p].bucket /\ o.seq = clock + 1 /\ o.null = null /\ ~Asks(o)
    BY <1>1 DEF Marker, Asks
  <1>4. \A v \in objects : v.seq # clock + 1
    BY <1>1 DEF LInv, Sequenced, IInv, TypeOK, Version
  <1>7. \A q \in Reqs : req[q].blob # clock + 1
    BY <1>1 DEF LInv, IInv, Stamped, TypeOK, Request
  <1> HIDE DEF o
  <1>5. PutVersion(o)
    BY DEF o
  <1>6. FreshPut(o)
    BY <1>1, <1>2, <1>3, <1>4, <1>5, <1>7 DEF FreshPut
  <1> QED BY <1>6 DEF o

\* CompleteUpload takes its sequence in the transaction.
CompletedVersion(r) == [NewVersion([r EXCEPT !.blob = clock']) EXCEPT !.blobs = PartBlobs(Assembled(r))]

\* The version CompleteUpload writes is a new one.
LEMMA CompleteTxFresh ==
  ASSUME LInv, NEW p \in Reqs, CompleteTx(p) PROVE FreshPut(CompletedVersion(req[p]))
  <1> DEFINE r == req[p]
             o == CompletedVersion(r)
             z == bucket[r.bucket].versioning # "Enabled"
  <1>1. clock \in Nat /\ clock' = clock + 1 /\ r \in Request
    BY TickType DEF LInv, IInv, TypeOK, CompleteTx
  <1>2. PartBlobs(Assembled(r)) \in SUBSET Nat
    BY <1>1, UploadTypes DEF LInv, IInv
  <1>3. [r EXCEPT !.blob = clock'] \in Request
    BY <1>1 DEF Request
  <1>4. /\ o.bucket = r.bucket /\ o.seq = clock' /\ o.null = z /\ o.marker = FALSE
        /\ o.hold = r.hold /\ o.ret = r.ret /\ o \in Version
    <2> DEFINE w == [r EXCEPT !.blob = clock']
               v == NewVersion(w)
    <2>1. w.bucket = r.bucket /\ w.blob = clock' /\ w.hold = r.hold /\ w.ret = r.ret
      BY <1>1 DEF Request
    <2>2. v \in Version
      BY <1>3, VersionTypes DEF LInv, IInv
    <2>3. o = [v EXCEPT !.blobs = PartBlobs(Assembled(r))]
      BY DEF CompletedVersion
    <2> HIDE DEF w, r, o, z
    <2>4. /\ v.bucket = r.bucket /\ v.seq = clock' /\ v.null = z /\ v.marker = FALSE
          /\ v.hold = r.hold /\ v.ret = r.ret
      BY <2>1 DEF NewVersion, z
    <2> HIDE DEF v
    <2> QED BY <1>2, <2>2, <2>3, <2>4 DEF Version
  <1>5. \A v \in objects : v.seq # clock + 1
    BY <1>1 DEF LInv, Sequenced, IInv, TypeOK, Version
  <1>6. /\ r.stage = "completeTx" /\ BucketExpected(r) /\ PutVersion(o) /\ bucket' = bucket
    BY DEF CompleteTx, CompletedVersion
  <1>7. Asks(r) => bucket[r.bucket].lock
    BY <1>6 DEF LInv, AllDecided, Decided, DecidedIn, BucketExpected
  <1> HIDE DEF o
  <1>8. o.null => bucket[o.bucket].versioning # "Enabled"
    BY <1>4
  <1>9. Asks(o) => bucket[o.bucket].lock /\ ~o.marker
    BY <1>4, <1>7 DEF Asks
  <1>11. \A q \in Reqs : req[q].blob # clock + 1
    BY <1>1 DEF LInv, IInv, Stamped, TypeOK, Request
  <1>10. FreshPut(o)
    BY <1>1, <1>4, <1>5, <1>6, <1>8, <1>9, <1>11 DEF FreshPut
  <1> QED BY <1>10 DEF o

\* Every step leaves the version records alone or changes them in one of four
\* ways.
VersionsMove ==
  \/ UNCHANGED <<objects, nullVer>>
  \/ \E o \in Version : FreshPut(o)
  \/ \E o \in objects : Removal(o)
  \/ \E o \in objects, n \in Version : Relabel(o, n)
  \/ \E b \in Buckets : Purge(b)

\* The object operations.
LEMMA ObjectStepMoves ==
  ASSUME LInv, NEW p \in Reqs, ObjectStep(p) PROVE VersionsMove
  <1> USE DEF VersionsMove
  <1>a. req[p] \in Request /\ objects \subseteq Version
    BY DEF LInv, IInv, TypeOK
  <1>1. CASE PutTx(p)
    BY <1>1, PutTxFresh DEF FreshPut
  <1>2. ASSUME NEW k \in Keys, DeleteEnabled(p, k) PROVE VersionsMove
    <2>1. FreshPut(Marker(req[p].bucket, k, FALSE, clock'))
      BY <1>2, MarkerFresh DEF DeleteEnabled
    <2> QED BY <2>1 DEF FreshPut
  <1>3. ASSUME NEW k \in Keys, NEW bypass \in BOOLEAN, DeleteSuspended(p, k, bypass) PROVE VersionsMove
    <2>1. FreshPut(Marker(req[p].bucket, k, TRUE, clock'))
      BY <1>3, MarkerFresh DEF DeleteSuspended
    <2> QED BY <2>1 DEF FreshPut
  <1>4. ASSUME NEW o \in objects, NEW bypass \in BOOLEAN,
               DeleteVersion(p, o, bypass) \/ DeleteUnversioned(p, o, bypass)
        PROVE  VersionsMove
    <2>1. Removal(o)
      BY <1>4, LockedEither DEF DeleteVersion, DeleteUnversioned, Removal
    <2> QED BY <2>1
  <1>5. ASSUME NEW o \in objects, NEW n \in Version, UpdateVersion(p, o, n),
               SameSlot(n, o), n.null = o.null, n.marker = o.marker, n.blobs = o.blobs
        PROVE  VersionsMove
    <2>1. req[p].stage = "lock" /\ LiveBucket(req[p]) /\ o.bucket = req[p].bucket /\ ~o.marker
      BY <1>5 DEF UpdateVersion
    <2>2. bucket[o.bucket].lock
      BY <2>1 DEF LInv, AllDecided, Decided, DecidedIn, LiveBucket, BucketExpected
    <2>3. Relabel(o, n)
      BY <1>5, <2>1, <2>2 DEF UpdateVersion, Relabel
    <2> QED BY <2>3
  <1>6. ASSUME NEW o \in objects, NEW on \in BOOLEAN, PutObjectLegalHold(p, o, on) PROVE VersionsMove
    <2> DEFINE n == [o EXCEPT !.hold = on]
    <2>1. n \in Version /\ SameSlot(n, o) /\ n.null = o.null /\ n.marker = o.marker /\ n.blobs = o.blobs
      BY <1>a DEF Version, SameSlot
    <2> QED BY <1>5, <1>6, <2>1 DEF PutObjectLegalHold
  <1>7. ASSUME NEW o \in objects, NEW t \in Retentions, NEW bypass \in BOOLEAN,
               PutObjectRetention(p, o, t, bypass)
        PROVE  VersionsMove
    <2> DEFINE n == [o EXCEPT !.ret = t]
    <2>1. n \in Version /\ SameSlot(n, o) /\ n.null = o.null /\ n.marker = o.marker /\ n.blobs = o.blobs
      BY <1>a DEF Version, SameSlot
    <2> QED BY <1>5, <1>7, <2>1 DEF PutObjectRetention
  <1>8. CASE \/ \E k \in Keys, h \in Locking, t \in Retentions, c \in Conditions : PutStart(p, k, h, t, c)
             \/ \E ok \in BOOLEAN : WriteBlob(p, ok)
             \/ TxFails(p)
             \/ \E x \in req[p].del, ok \in BOOLEAN : DeleteBlob(p, x, ok)
             \/ LockStart(p)
    BY <1>8 DEF PutStart, WriteBlob, TxFails, DeleteBlob, LockStart, records
  <1> QED BY <1>1, <1>2, <1>3, <1>4, <1>6, <1>7, <1>8 DEF ObjectStep

\* A bucket without versions has no null pointers.
LEMMA EmptyBucketPointers ==
  ASSUME LInv, NEW b \in Buckets, \A o \in objects : o.bucket # b
  PROVE  nullVer = [nullVer EXCEPT ![b] = [k \in Keys |-> 0]]
  <1>1. \A k \in Keys : nullVer[b][k] = 0
    BY DEF LInv, PointerExact
  <1>2. nullVer \in [Buckets -> [Keys -> Nat]]
    BY DEF LInv, IInv, TypeOK
  <1>3. nullVer[b] = [k \in Keys |-> 0]
    BY <1>1, <1>2
  <1> QED BY <1>2, <1>3

\* Every step.
LEMMA NextMoves ==
  ASSUME LInv, [Next]_vars PROVE VersionsMove
  <1> USE DEF VersionsMove
  <1>1. ASSUME NEW b \in Buckets, NEW lock \in Locking, CreateBucket(b, lock) PROVE VersionsMove
    BY <1>1 DEF CreateBucket
  <1>2. ASSUME NEW p \in Reqs, BucketStep(p) PROVE VersionsMove
    <2>a. req[p].bucket \in Buckets
      BY DEF LInv, IInv, TypeOK, Request
    <2>1. CASE DeleteBucket(p)
      <3>1. objects' = {o \in objects : o.bucket # req[p].bucket}
        BY <2>1 DEF DeleteBucket
      <3>2. nullVer' = [nullVer EXCEPT ![req[p].bucket] = [k \in Keys |-> 0]]
        BY <2>1, <2>a, EmptyBucketPointers DEF DeleteBucket
      <3>3. Purge(req[p].bucket)
        BY <2>1, <3>1, <3>2 DEF DeleteBucket, MarkDeleting, Purge
      <3> QED BY <2>a, <3>3
    <2>2. CASE DeleteBucketForce(p)
      <3>1. Purge(req[p].bucket)
        BY <2>2 DEF DeleteBucketForce, MarkDeleting, Purge
      <3> QED BY <2>a, <3>1
    <2>3. CASE \/ \E b \in Buckets, c \in Callers : Authorize(p, b, c)
               \/ ReturnEarly(p)
               \/ \E v \in {"Enabled", "Suspended"} : PutBucketVersioning(p, v)
               \/ PutObjectLockConfig(p)
               \/ \E x \in 1..clock : RemoveFile(p, x)
               \/ RemoveDone(p)
               \/ RemoveFails(p)
               \/ DropRecord(p)
      BY <2>3 DEF Authorize, ReturnEarly, PutBucketVersioning, PutObjectLockConfig, RemoveFile, RemoveDone,
                  RemoveFails, DropRecord, records
    <2> QED BY <1>2, <2>1, <2>2, <2>3 DEF BucketStep
  <1>3. ASSUME NEW p \in Reqs, ObjectStep(p) PROVE VersionsMove
    BY <1>3, ObjectStepMoves
  <1>4. ASSUME NEW p \in Reqs, UploadStep(p) PROVE VersionsMove
    <2>1. CASE CompleteTx(p)
      BY <2>1, CompleteTxFresh DEF FreshPut
    <2>2. CASE \/ \E k \in Keys, h \in Locking, t \in Retentions : UploadStart(p, k, h, t)
               \/ CreateUpload(p)
               \/ \E u \in uploads, n \in PartNumbers : PartStart(p, u, n)
               \/ PartTx(p)
               \/ \E u \in uploads, want \in SUBSET PartNumbers, c \in Conditions : CompleteStart(p, u, want, c)
               \/ CompleteBucket(p)
               \/ \E u \in uploads : AbortUpload(p, u)
      BY <2>2 DEF UploadStart, CreateUpload, PartStart, PartTx, CompleteStart, CompleteBucket, AbortUpload, records
    <2> QED BY <1>4, <2>1, <2>2 DEF UploadStep
  <1>5. ASSUME NEW o \in objects, RetentionExpires(o) PROVE VersionsMove
    <2> DEFINE n == [o EXCEPT !.ret = "none"]
    <2>1. o \in Version
      BY DEF LInv, IInv, TypeOK
    <2>2. /\ n \in Version /\ SameSlot(n, o) /\ n.null = o.null /\ n.marker = o.marker /\ n.blobs = o.blobs
          /\ n.hold = o.hold /\ n.ret = "none"
      BY <2>1, StoreAssumption DEF Version, SameSlot
    <2>3. Asks(n) => Asks(o) /\ ~o.marker
      BY <2>2 DEF Asks, LInv, MarkersFree
    <2>4. Relabel(o, n)
      BY <1>5, <2>2, <2>3 DEF RetentionExpires, Relabel
    <2> QED BY <2>2, <2>4
  <1>6. CASE Crash \/ Serve \/ UNCHANGED vars
    BY <1>6 DEF Crash, Serve, vars, records
  <1>7. ASSUME NEW p \in Reqs, NEW b \in Buckets, FinishDeletes(p, b) PROVE VersionsMove
    BY <1>7 DEF FinishDeletes, records
  <1> QED BY <1>1, <1>2, <1>3, <1>4, <1>5, <1>6, <1>7 DEF Next

-----------------------------------------------------------------------------
(* The version records *)

\* What a fresh version leaves of the others.
LEMMA FreshPutObjects ==
  ASSUME LInv, NEW o, FreshPut(o)
  PROVE  /\ objects' = (objects \ Replaced(o)) \cup {o}
         /\ \A v \in Replaced(o) : /\ v \in objects /\ o.null /\ v.bucket = o.bucket /\ v.key = o.key
                                   /\ v.seq = nullVer[o.bucket][o.key]
         /\ \A v \in objects : /\ o.null /\ v.bucket = o.bucket /\ v.key = o.key
                               /\ v.seq = nullVer[o.bucket][o.key]
                               => v \in Replaced(o)
  <1>1. objects' = (objects \ Replaced(o)) \cup {o}
    BY DEF FreshPut, PutVersion
  <1> QED BY <1>1 DEF Replaced, NullVersion, Versions

\* Whatever a step does to the versions of a key, its null pointer follows.
LEMMA PointerStep ==
  ASSUME LInv, TypeOK', VersionsMove PROVE PointerExact'
  <1>a. PointerExact /\ TypeOK /\ Sequenced
    BY DEF LInv, IInv
  <1>b. nullVer \in [Buckets -> [Keys -> Nat]] /\ objects \subseteq Version
    BY <1>a DEF TypeOK
  <1>1. CASE UNCHANGED <<objects, nullVer>>
    BY <1>1, <1>a DEF PointerExact
  <1>2. ASSUME NEW o \in Version, FreshPut(o) PROVE PointerExact'
    <2>1. o.bucket \in Buckets /\ o.key \in Keys /\ o.seq # 0
      BY <1>2 DEF Version, FreshPut
    <2>2. CASE o.null
      <3>1. \A b \in Buckets, k \in Keys :
              nullVer'[b][k] = IF b = o.bucket /\ k = o.key THEN o.seq ELSE nullVer[b][k]
        BY <1>2, <1>b, <2>1, <2>2 DEF FreshPut, PutVersion
      <3>2. \A v \in objects' : v = o \/ (v \in objects /\ v \notin Replaced(o))
        BY <1>2, FreshPutObjects
      <3>3. ASSUME NEW b \in Buckets, NEW k \in Keys, NEW v \in objects', v.bucket = b, v.key = k, v.null
            PROVE  nullVer'[b][k] # 0 /\ v.seq = nullVer'[b][k]
        BY <1>2, <1>a, <2>1, <2>2, <3>1, <3>2, <3>3, FreshPutObjects DEF PointerExact
      <3>4. ASSUME NEW b \in Buckets, NEW k \in Keys, nullVer'[b][k] # 0
            PROVE  \E v \in objects' : v.bucket = b /\ v.key = k /\ v.null /\ v.seq = nullVer'[b][k]
        <4>1. CASE b = o.bucket /\ k = o.key
          BY <4>1, <1>2, <2>1, <2>2, <3>1, FreshPutObjects
        <4>2. CASE ~(b = o.bucket /\ k = o.key)
          BY <4>2, <1>2, <1>a, <3>1, <3>4, FreshPutObjects DEF PointerExact
        <4> QED BY <4>1, <4>2
      <3> QED BY <3>3, <3>4 DEF PointerExact
    <2>3. CASE ~o.null
      <3>1. nullVer' = nullVer /\ objects' = objects \cup {o}
        BY <1>2, <2>3, FreshPutObjects DEF FreshPut, PutVersion
      <3> QED BY <1>a, <2>3, <3>1 DEF PointerExact
    <2> QED BY <2>2, <2>3
  <1>3. ASSUME NEW o \in objects, Removal(o) PROVE PointerExact'
    <2>1. o.bucket \in Buckets /\ o.key \in Keys
      BY <1>b DEF Version
    <2>2. objects' = objects \ {o}
      BY <1>3, <1>a DEF Removal, RemoveVersion, Sequenced, SameSlot
    <2>3. CASE o.null
      <3>1. \A b \in Buckets, k \in Keys :
              nullVer'[b][k] = IF b = o.bucket /\ k = o.key THEN 0 ELSE nullVer[b][k]
        BY <1>3, <1>b, <2>1, <2>3 DEF Removal, RemoveVersion
      <3>2. \A v \in objects' : ~(v.bucket = o.bucket /\ v.key = o.key /\ v.null)
        BY <1>a, <2>1, <2>2, <2>3 DEF PointerExact, Sequenced, SameSlot
      <3>3. ASSUME NEW b \in Buckets, NEW k \in Keys, NEW v \in objects', v.bucket = b, v.key = k, v.null
            PROVE  nullVer'[b][k] # 0 /\ v.seq = nullVer'[b][k]
        BY <1>a, <2>2, <3>1, <3>2, <3>3 DEF PointerExact
      <3>4. ASSUME NEW b \in Buckets, NEW k \in Keys, nullVer'[b][k] # 0
            PROVE  \E v \in objects' : v.bucket = b /\ v.key = k /\ v.null /\ v.seq = nullVer'[b][k]
        BY <1>a, <2>2, <3>1, <3>4 DEF PointerExact
      <3> QED BY <3>3, <3>4 DEF PointerExact
    <2>4. CASE ~o.null
      <3>1. nullVer' = nullVer
        BY <1>3, <2>4 DEF Removal, RemoveVersion
      <3> QED BY <1>a, <2>2, <2>4, <3>1 DEF PointerExact
    <2> QED BY <2>3, <2>4
  <1>4. ASSUME NEW o \in objects, NEW n \in Version, Relabel(o, n) PROVE PointerExact'
    <2>1. /\ objects' = (objects \ {o}) \cup {n} /\ nullVer' = nullVer
          /\ n.bucket = o.bucket /\ n.key = o.key /\ n.seq = o.seq /\ n.null = o.null
      BY <1>4 DEF Relabel, SameSlot
    <2> QED BY <1>a, <2>1 DEF PointerExact
  <1>5. ASSUME NEW b \in Buckets, Purge(b) PROVE PointerExact'
    <2>1. \A d \in Buckets, k \in Keys : nullVer'[d][k] = IF d = b THEN 0 ELSE nullVer[d][k]
      BY <1>5, <1>b DEF Purge
    <2>2. objects' = {o \in objects : o.bucket # b}
      BY <1>5 DEF Purge
    <2> QED BY <1>a, <2>1, <2>2 DEF PointerExact
  <1> QED BY <1>1, <1>2, <1>3, <1>4, <1>5 DEF VersionsMove

\* Delete markers stay free of locks.
LEMMA MarkersStep ==
  ASSUME LInv, VersionsMove PROVE MarkersFree'
  <1>a. MarkersFree /\ objects \subseteq Version
    BY DEF LInv, IInv, TypeOK
  <1>1. CASE UNCHANGED <<objects, nullVer>>
    BY <1>1, <1>a DEF MarkersFree
  <1>2. ASSUME NEW o \in Version, FreshPut(o) PROVE MarkersFree'
    BY <1>2, <1>a, FreshPutObjects DEF MarkersFree, FreshPut
  <1>3. ASSUME NEW o \in objects, Removal(o) PROVE MarkersFree'
    BY <1>3, <1>a DEF MarkersFree, Removal, RemoveVersion
  <1>4. ASSUME NEW o \in objects, NEW n \in Version, Relabel(o, n) PROVE MarkersFree'
    BY <1>4, <1>a DEF MarkersFree, Relabel
  <1>5. ASSUME NEW b \in Buckets, Purge(b) PROVE MarkersFree'
    BY <1>5, <1>a DEF MarkersFree, Purge
  <1> QED BY <1>1, <1>2, <1>3, <1>4, <1>5 DEF VersionsMove

\* No step takes the data of a locked version, unless its bucket goes.
LEMMA LockedKept ==
  ASSUME LInv, VersionsMove, NEW o \in objects, Locked(o, TRUE)
  PROVE  \/ \E n \in objects' : SameSlot(n, o) /\ n.blobs = o.blobs /\ ~n.marker
         \/ bucket'[o.bucket].deleting
  <1>a. objects \subseteq Version /\ o.bucket \in Buckets /\ bucket \in [Buckets -> Bucket]
    BY DEF LInv, IInv, TypeOK, Version
  <1>b. ~o.marker /\ bucket[o.bucket].versioning = "Enabled"
    BY DEF LInv, MarkersFree, LockNeedsVersioning, Asks, Locked
  <1>1. CASE UNCHANGED <<objects, nullVer>>
    BY <1>1, <1>b DEF SameSlot
  <1>2. ASSUME NEW v \in Version, FreshPut(v) PROVE o \in objects'
    BY <1>2, <1>b, FreshPutObjects DEF FreshPut
  <1>3. ASSUME NEW v \in objects, Removal(v) PROVE o \in objects'
    BY <1>3 DEF Removal, RemoveVersion, LInv, Sequenced, SameSlot
  <1>4. ASSUME NEW v \in objects, NEW n \in Version, Relabel(v, n)
        PROVE  \E m \in objects' : SameSlot(m, o) /\ m.blobs = o.blobs /\ ~m.marker
    <2>1. CASE v = o
      BY <2>1, <1>4, <1>b DEF Relabel
    <2>2. CASE v # o
      BY <2>2, <1>4, <1>b DEF Relabel, SameSlot
    <2> QED BY <2>1, <2>2
  <1>5. ASSUME NEW b \in Buckets, Purge(b) PROVE o \in objects' \/ bucket'[o.bucket].deleting
    BY <1>5, <1>a DEF Purge, Bucket
  <1> QED BY <1>1, <1>2, <1>3, <1>4, <1>5, <1>b DEF VersionsMove, SameSlot

-----------------------------------------------------------------------------
(* Buckets and uploads *)

\* A bucket record stays and keeps Object Lock, goes, or is created anew.
BucketMoves(b) ==
  \/ bucket'[b].created = bucket[b].created /\ (bucket[b].lock => bucket'[b].lock)
  \/ bucket'[b].created = 0
  \/ ~Exists(b) /\ bucket'[b].created = clock + 1 /\ clock' = clock + 1

\* No step takes Object Lock from a bucket or versioning from Object Lock.
LEMMA BucketsStep ==
  ASSUME LInv, [Next]_vars
  PROVE  /\ \A b \in Buckets : BucketMoves(b)
         /\ LockEnabled'
  <1>a. LockEnabled /\ bucket \in [Buckets -> Bucket]
    BY DEF LInv, IInv, TypeOK
  <1>b. \A p \in Reqs : req[p].bucket \in Buckets
    BY DEF LInv, IInv, TypeOK, Request
  <1> DEFINE Goal == (\A b \in Buckets : BucketMoves(b)) /\ LockEnabled'
  <1>1. ASSUME bucket' = bucket PROVE Goal
    BY <1>1, <1>a DEF BucketMoves, LockEnabled
  <1>2. ASSUME NEW b \in Buckets, NEW lock \in Locking, CreateBucket(b, lock) PROVE Goal
    <2>1. /\ ~Exists(b) /\ clock' = clock + 1
          /\ \A d \in Buckets : bucket'[d] = IF d = b THEN [created |-> clock', deleting |-> FALSE, lock |-> lock,
                                               versioning |-> IF lock THEN "Enabled" ELSE "Off"]
                                             ELSE bucket[d]
      BY <1>2, <1>a DEF CreateBucket, Tick
    <2> QED BY <1>a, <2>1 DEF BucketMoves, LockEnabled
  <1>3. ASSUME NEW p \in Reqs, NEW v \in {"Enabled", "Suspended"}, PutBucketVersioning(p, v) PROVE Goal
    <2>1. /\ bucket[req[p].bucket].lock => v = "Enabled"
          /\ \A d \in Buckets : bucket'[d] = IF d = req[p].bucket THEN [bucket[d] EXCEPT !.versioning = v]
                                             ELSE bucket[d]
      BY <1>3, <1>a DEF PutBucketVersioning
    <2>2. \A d \in Buckets : /\ bucket'[d].created = bucket[d].created /\ bucket'[d].lock = bucket[d].lock
                             /\ bucket'[d].versioning = IF d = req[p].bucket THEN v ELSE bucket[d].versioning
      BY <1>a, <2>1 DEF Bucket
    <2> QED BY <1>a, <2>1, <2>2 DEF BucketMoves, LockEnabled
  <1>4. ASSUME NEW p \in Reqs, PutObjectLockConfig(p) PROVE Goal
    <2>1. /\ bucket[req[p].bucket].lock \/ bucket[req[p].bucket].versioning = "Enabled"
          /\ \A d \in Buckets : bucket'[d] = IF d = req[p].bucket THEN [bucket[d] EXCEPT !.lock = TRUE]
                                             ELSE bucket[d]
      BY <1>4, <1>a DEF PutObjectLockConfig
    <2>2. \A d \in Buckets : /\ bucket'[d].created = bucket[d].created /\ (bucket[d].lock => bucket'[d].lock)
                             /\ bucket'[d].versioning = bucket[d].versioning
                             /\ d # req[p].bucket => bucket'[d] = bucket[d]
      BY <1>a, <2>1 DEF Bucket
    <2>3. LockEnabled'
      <3> SUFFICES ASSUME NEW d \in Buckets, bucket'[d].lock PROVE bucket'[d].versioning = "Enabled"
        BY DEF LockEnabled
      <3>1. CASE d = req[p].bucket
        BY <1>a, <1>b, <2>1, <2>2, <3>1 DEF LockEnabled
      <3>2. CASE d # req[p].bucket
        BY <1>a, <2>2, <3>2 DEF LockEnabled
      <3> QED BY <3>1, <3>2
    <2> QED BY <2>2, <2>3 DEF BucketMoves
  <1>5. ASSUME NEW b \in Buckets, bucket' = [bucket EXCEPT ![b].deleting = TRUE] PROVE Goal
    <2>1. \A d \in Buckets : /\ bucket'[d].created = bucket[d].created /\ bucket'[d].lock = bucket[d].lock
                             /\ bucket'[d].versioning = bucket[d].versioning
      BY <1>5, <1>a DEF Bucket
    <2> QED BY <1>a, <2>1 DEF BucketMoves, LockEnabled
  <1>6. ASSUME NEW p \in Reqs, DropRecord(p) PROVE Goal
    <2>1. \A d \in Buckets : bucket'[d] = bucket[d] \/ bucket'[d] = NoBucket
      BY <1>6, <1>a DEF DropRecord
    <2> QED BY <1>a, <2>1 DEF BucketMoves, LockEnabled, NoBucket
  <1>7. ASSUME NEW p \in Reqs, BucketStep(p) PROVE Goal
    <2>1. CASE DeleteBucket(p) \/ DeleteBucketForce(p)
      BY <1>b, <1>5, <2>1 DEF DeleteBucket, DeleteBucketForce, MarkDeleting
    <2>2. CASE \/ \E b \in Buckets, c \in Callers : Authorize(p, b, c)
               \/ ReturnEarly(p)
               \/ \E x \in 1..clock : RemoveFile(p, x)
               \/ RemoveDone(p)
               \/ RemoveFails(p)
      BY <1>1, <2>2 DEF Authorize, ReturnEarly, RemoveFile, RemoveDone, RemoveFails, records
    <2> QED BY <1>3, <1>4, <1>6, <1>7, <2>1, <2>2 DEF BucketStep
  <1>8. ASSUME NEW p \in Reqs, ObjectStep(p) PROVE bucket' = bucket
    BY <1>8 DEF ObjectStep, PutStart, WriteBlob, PutTx, TxFails, DeleteBlob, DeleteVersion, DeleteEnabled,
                DeleteSuspended, DeleteUnversioned, LockStart, PutObjectLegalHold, PutObjectRetention,
                UpdateVersion, records
  <1>9. ASSUME NEW p \in Reqs, UploadStep(p) PROVE bucket' = bucket
    BY <1>9 DEF UploadStep, UploadStart, CreateUpload, PartStart, PartTx, CompleteStart, CompleteBucket,
                CompleteTx, AbortUpload, records
  <1>10. ASSUME \/ \E o \in objects : RetentionExpires(o)
                \/ Crash
                \/ \E p \in Reqs, b \in Buckets : FinishDeletes(p, b)
                \/ Serve
                \/ UNCHANGED vars
         PROVE  Goal
    BY <1>1, <1>10 DEF RetentionExpires, Crash, FinishDeletes, Serve, vars, records
  <1> HIDE DEF Goal
  <1>11. Goal
    BY <1>1, <1>2, <1>7, <1>8, <1>9, <1>10 DEF Next
  <1> QED BY <1>11 DEF Goal

\* A new upload has a new identifier, and Object Lock settings only where the
\* bucket has Object Lock.
LEMMA UploadsStep ==
  ASSUME LInv, [Next]_vars
  PROVE  \A u \in uploads' : \/ u \in uploads
                             \/ /\ u.id = clock + 1 /\ bucket' = bucket
                                /\ Asks(u) => bucket[u.bucket].lock
  <1> DEFINE Goal == \A u \in uploads' : \/ u \in uploads
                                         \/ /\ u.id = clock + 1 /\ bucket' = bucket
                                            /\ Asks(u) => bucket[u.bucket].lock
  <1>1. ASSUME uploads' \subseteq uploads PROVE Goal
    BY <1>1
  <1>2. ASSUME NEW p \in Reqs, CreateUpload(p) PROVE Goal
    <2> DEFINE r == req[p]
               n == [bucket |-> r.bucket, key |-> r.key, id |-> clock', hold |-> r.hold, ret |-> r.ret]
    <2>1. r.stage = "mpu" /\ LiveBucket(r) /\ clock' = clock + 1 /\ uploads' = uploads \cup {n} /\ bucket' = bucket
      BY <1>2 DEF CreateUpload, Tick
    <2>2. Asks(r) => bucket[r.bucket].lock
      BY <2>1 DEF LInv, AllDecided, Decided, DecidedIn, LiveBucket, BucketExpected
    <2>3. n.id = clock + 1 /\ n.bucket = r.bucket /\ (Asks(n) => Asks(r))
      BY <2>1, SMTT(20) DEF Asks
    <2> HIDE DEF n, r
    <2> QED BY <2>1, <2>2, <2>3
  <1>3. ASSUME NEW p \in Reqs, BucketStep(p) PROVE uploads' \subseteq uploads
    BY <1>3 DEF BucketStep, Authorize, ReturnEarly, PutBucketVersioning, PutObjectLockConfig, DeleteBucket,
                DeleteBucketForce, MarkDeleting, RemoveFile, RemoveDone, RemoveFails, DropRecord, records
  <1>4. ASSUME NEW p \in Reqs, ObjectStep(p) PROVE uploads' = uploads
    BY <1>4 DEF ObjectStep, PutStart, WriteBlob, PutTx, TxFails, DeleteBlob, DeleteVersion, DeleteEnabled,
                DeleteSuspended, DeleteUnversioned, LockStart, PutObjectLegalHold, PutObjectRetention,
                UpdateVersion, records
  <1>5. ASSUME NEW p \in Reqs, UploadStep(p) PROVE Goal
    <2>1. CASE \/ \E k \in Keys, h \in Locking, t \in Retentions : UploadStart(p, k, h, t)
               \/ \E u \in uploads, n \in PartNumbers : PartStart(p, u, n)
               \/ PartTx(p)
               \/ \E u \in uploads, want \in SUBSET PartNumbers, c \in Conditions : CompleteStart(p, u, want, c)
               \/ CompleteBucket(p)
               \/ CompleteTx(p)
               \/ \E u \in uploads : AbortUpload(p, u)
      <3>1. uploads' \subseteq uploads
        BY <2>1 DEF UploadStart, PartStart, PartTx, CompleteStart, CompleteBucket, CompleteTx, AbortUpload,
                    RemoveUpload, records
      <3> QED BY <1>1, <3>1
    <2> QED BY <1>2, <1>5, <2>1 DEF UploadStep
  <1>6. ASSUME \/ \E b \in Buckets, lock \in Locking : CreateBucket(b, lock)
               \/ \E o \in objects : RetentionExpires(o)
               \/ Crash
               \/ \E p \in Reqs, b \in Buckets : FinishDeletes(p, b)
               \/ Serve
               \/ UNCHANGED vars
        PROVE  Goal
    BY <1>1, <1>6 DEF CreateBucket, RetentionExpires, Crash, FinishDeletes, Serve, vars, records
  <1> HIDE DEF Goal
  <1>7. Goal
    BY <1>1, <1>3, <1>4, <1>5, <1>6 DEF Next
  <1> QED BY <1>7 DEF Goal

\* Object Lock settings stay within buckets with Object Lock and versioning on.
LEMMA LockNeedsVersioningStep ==
  ASSUME LInv, [Next]_vars, IInv' PROVE LockNeedsVersioning'
  <1>a. LockEnabled' /\ \A b \in Buckets : BucketMoves(b)
    BY BucketsStep
  <1>b. /\ objects \subseteq Version /\ uploads \subseteq Upload
        /\ objects' \subseteq Version /\ uploads' \subseteq Upload
    BY DEF LInv, IInv, TypeOK
  <1>c. /\ \A o \in objects \cup uploads : Live(o.bucket)
        /\ \A o \in objects' \cup uploads' : Live(o.bucket)'
    BY DEF LInv, IInv, RecordsHaveBucket
  <1>1. \A o \in objects \cup uploads : Asks(o) => bucket[o.bucket].lock
    BY DEF LInv, LockNeedsVersioning, Asks
  <1>2. \A b \in Buckets : Live(b) /\ Live(b)' /\ bucket[b].lock => bucket'[b].lock
    BY <1>a DEF BucketMoves, Live, Exists
  <1>3. ASSUME NEW o \in objects', Asks(o) PROVE bucket'[o.bucket].lock
    <2>1. o.bucket \in Buckets
      BY <1>b DEF Version
    <2>2. CASE o \in objects
      BY <1>3, <1>c, <1>1, <1>2, <2>1, <2>2
    <2>3. CASE o \notin objects
      <3>1. CASE UNCHANGED <<objects, nullVer>>
        BY <2>3, <3>1
      <3>2. ASSUME NEW n \in Version, FreshPut(n) PROVE bucket'[o.bucket].lock
        BY <1>3, <2>3, <3>2, FreshPutObjects DEF FreshPut
      <3>3. ASSUME NEW v \in objects, Removal(v) PROVE o \in objects
        BY <3>3 DEF Removal, RemoveVersion
      <3>4. ASSUME NEW v \in objects, NEW n \in Version, Relabel(v, n) PROVE bucket'[o.bucket].lock
        BY <1>3, <1>1, <2>3, <3>4 DEF Relabel, SameSlot
      <3>5. ASSUME NEW b \in Buckets, Purge(b) PROVE o \in objects
        BY <3>5 DEF Purge
      <3> QED BY <2>3, <3>1, <3>2, <3>3, <3>4, <3>5, NextMoves DEF VersionsMove
    <2> QED BY <2>2, <2>3
  <1>4. ASSUME NEW u \in uploads', Asks(u) PROVE bucket'[u.bucket].lock
    <2>1. u.bucket \in Buckets
      BY <1>b DEF Upload
    <2> QED BY <1>4, <1>c, <1>1, <1>2, <2>1, UploadsStep
  <1>5. \A o \in objects' \cup uploads' : o.bucket \in Buckets
    BY <1>b DEF Version, Upload
  <1> QED BY <1>a, <1>3, <1>4, <1>5 DEF LockNeedsVersioning, LockEnabled, Asks

-----------------------------------------------------------------------------
(* The requests *)

\* A request that has decided nothing: it returned, cleans up, removes a
\* bucket or has only been authorised.
Rest(r) ==
  /\ r.stage \in {"idle", "auth", "cleanup", "remove", "drop"}
  /\ r.expect <= clock
  /\ Tidy(r)

\* The steps by which a request goes on.
Onward(p) ==
  \/ \E k \in Keys, h \in Locking, t \in Retentions, c \in Conditions : PutStart(p, k, h, t, c)
  \/ WriteBlob(p, TRUE)
  \/ LockStart(p)
  \/ \E k \in Keys, h \in Locking, t \in Retentions : UploadStart(p, k, h, t)
  \/ \E u \in uploads, n \in PartNumbers : PartStart(p, u, n)
  \/ \E u \in uploads, want \in SUBSET PartNumbers, c \in Conditions : CompleteStart(p, u, want, c)
  \/ CompleteBucket(p)

\* A goroutine that serves no request is at rest.
LEMMA IdleRest == ASSUME TypeOK PROVE Rest(Idle)
  BY DEF TypeOK, Idle, Rest, Tidy

\* A request that returns or turns to its clean-up is at rest.
LEMMA ReturnRest ==
  ASSUME TypeOK, NEW p \in Reqs, NEW d, Finish(p) \/ Cleanup(p, d)
  PROVE  Rest(req'[p]) /\ \A q \in Reqs : q # p => req'[q] = req[q]
  <1> DEFINE n == [Idle EXCEPT !.stage = "cleanup", !.bucket = req[p].bucket, !.del = d]
  <1>1. CASE Finish(p) \/ d = {}
    BY <1>1, BecomeReq, IdleRest DEF Cleanup, Finish
  <1>2. CASE Become(p, n)
    <2>1. n.stage = "cleanup" /\ n.expect = 0 /\ n.blob = 0
      BY DEF Idle
    <2>2. Rest(n)
      BY <2>1 DEF Rest, Tidy, TypeOK
    <2> QED BY <1>2, <2>2, BecomeReq
  <1> QED BY <1>1, <1>2 DEF Cleanup

\* What a step makes of each request.
Moved(q) == req'[q] = req[q] \/ Rest(req'[q]) \/ Onward(q)

\* The bucket operations leave a request as it is, or at rest.
LEMMA BucketStepRequests ==
  ASSUME LInv, NEW p \in Reqs, BucketStep(p), NEW q \in Reqs PROVE Moved(q)
  <1> USE DEF Moved
  <1>a. TypeOK /\ req[p] \in Request /\ clock \in Nat
    BY DEF LInv, IInv, TypeOK
  <1>b. Decided(req[p]) /\ Tidy(req[p])
    BY DEF LInv, AllDecided, AllTidy
  <1>1. ASSUME NEW n, Become(p, n), Rest(n) PROVE Moved(q)
    BY <1>1, <1>a, BecomeReq
  <1>2. ASSUME NEW b \in Buckets, NEW c \in Callers, Authorize(p, b, c) PROVE Moved(q)
    <2> DEFINE n == [Idle EXCEPT !.stage = "auth", !.bucket = b,
                       !.expect = IF c = "api" THEN bucket[b].created ELSE 0]
    <2>1. /\ n.stage = "auth" /\ n.del = {} /\ n.blob = 0
          /\ n.expect = IF c = "api" THEN bucket[b].created ELSE 0
      BY DEF Idle
    <2>2. Become(p, n)
      BY <1>2 DEF Authorize
    <2> HIDE DEF n
    <2>3. Rest(n)
      BY <1>a, <2>1 DEF Rest, Tidy, LInv, IInv, Stamped
    <2> QED BY <1>1, <2>2, <2>3
  <1>3. ASSUME NEW b \in Buckets, MarkDeleting(p, b) PROVE Moved(q)
    <2> DEFINE n == [Idle EXCEPT !.stage = "remove", !.bucket = b]
    <2>1. n.stage = "remove" /\ n.del = {} /\ n.blob = 0 /\ n.expect = 0
      BY DEF Idle
    <2>2. Become(p, n)
      BY <1>3 DEF MarkDeleting
    <2> HIDE DEF n
    <2>3. Rest(n)
      BY <1>a, <2>1 DEF Rest, Tidy
    <2> QED BY <1>1, <2>2, <2>3
  <1>4. CASE DeleteBucket(p) \/ DeleteBucketForce(p)
    <2>1. req[p].bucket \in Buckets
      BY <1>a DEF Request
    <2> QED BY <1>3, <1>4, <2>1 DEF DeleteBucket, DeleteBucketForce
  <1>5. CASE RemoveDone(p)
    <2> DEFINE n == [req[p] EXCEPT !.stage = "drop"]
    <2>1. n.stage = "drop" /\ n.del = req[p].del /\ n.blob = req[p].blob /\ n.expect = req[p].expect
      BY <1>a DEF Request
    <2>2. Become(p, n) /\ req[p].stage = "remove"
      BY <1>5 DEF RemoveDone
    <2> HIDE DEF n
    <2>3. Rest(n)
      BY <1>b, <2>1, <2>2 DEF Rest, Tidy, Decided, DecidedIn
    <2> QED BY <1>1, <2>2, <2>3
  <1>6. ASSUME Finish(p) PROVE Moved(q)
    BY <1>6, <1>a, ReturnRest
  <1>7. CASE \/ ReturnEarly(p)
             \/ \E v \in {"Enabled", "Suspended"} : PutBucketVersioning(p, v)
             \/ PutObjectLockConfig(p)
             \/ RemoveFails(p)
             \/ DropRecord(p)
    BY <1>6, <1>7 DEF ReturnEarly, PutBucketVersioning, PutObjectLockConfig, RemoveFails, DropRecord
  <1>8. CASE \E x \in 1..clock : RemoveFile(p, x)
    BY <1>8 DEF RemoveFile
  <1> QED BY <1>2, <1>4, <1>5, <1>7, <1>8 DEF BucketStep

\* Every step leaves a request as it is, at rest, or takes it one stage on.
LEMMA NextRequests ==
  ASSUME LInv, [Next]_vars, NEW q \in Reqs PROVE Moved(q)
  <1> USE DEF Moved
  <1>a. TypeOK
    BY DEF LInv, IInv
  <1>1. ASSUME NEW p \in Reqs, NEW d, Finish(p) \/ Cleanup(p, d) PROVE Moved(q)
    BY <1>1, <1>a, ReturnRest
  <1>2. ASSUME NEW p \in Reqs, BucketStep(p) PROVE Moved(q)
    BY <1>2, BucketStepRequests
  <1>3. ASSUME NEW p \in Reqs, Onward(p) PROVE Moved(q)
    <2>1. CASE q = p
      BY <1>3, <2>1
    <2>2. CASE q # p
      <3>1. \E n : Become(p, n)
        BY <1>3 DEF Onward, PutStart, WriteBlob, LockStart, UploadStart, PartStart, CompleteStart, CompleteBucket
      <3> QED BY <1>a, <2>2, <3>1, BecomeReq, SMTT(20)
    <2> QED BY <2>1, <2>2
  <1>4. ASSUME NEW p \in Reqs, ObjectStep(p) PROVE Moved(q)
    <2>1. ASSUME NEW ok \in BOOLEAN, WriteBlob(p, ok) PROVE Moved(q)
      <3>1. CASE ok
        BY <1>3, <2>1, <3>1 DEF Onward
      <3>2. CASE ~ok
        BY <1>1, <2>1, <3>2 DEF WriteBlob
      <3> QED BY <3>1, <3>2
    <2>2. CASE \/ \E k \in Keys, h \in Locking, t \in Retentions, c \in Conditions : PutStart(p, k, h, t, c)
               \/ LockStart(p)
      BY <1>3, <2>2 DEF Onward
    <2>3. CASE PutTx(p) \/ TxFails(p)
      BY <1>1, <2>3 DEF PutTx, TxFails
    <2>4. CASE \E x \in req[p].del, ok \in BOOLEAN : DeleteBlob(p, x, ok)
      BY <1>1, <2>4 DEF DeleteBlob
    <2>5. CASE \/ \E o \in objects, bypass \in BOOLEAN : DeleteVersion(p, o, bypass)
               \/ \E k \in Keys : DeleteEnabled(p, k)
               \/ \E k \in Keys, bypass \in BOOLEAN : DeleteSuspended(p, k, bypass)
               \/ \E o \in objects, bypass \in BOOLEAN : DeleteUnversioned(p, o, bypass)
      BY <1>1, <2>5 DEF DeleteVersion, DeleteEnabled, DeleteSuspended, DeleteUnversioned
    <2>6. CASE \/ \E o \in objects, on \in BOOLEAN : PutObjectLegalHold(p, o, on)
               \/ \E o \in objects, t \in Retentions, bypass \in BOOLEAN : PutObjectRetention(p, o, t, bypass)
      BY <1>1, <2>6 DEF PutObjectLegalHold, PutObjectRetention, UpdateVersion
    <2> QED BY <1>4, <2>1, <2>2, <2>3, <2>4, <2>5, <2>6 DEF ObjectStep
  <1>5. ASSUME NEW p \in Reqs, UploadStep(p) PROVE Moved(q)
    <2>1. CASE \/ \E k \in Keys, h \in Locking, t \in Retentions : UploadStart(p, k, h, t)
               \/ \E u \in uploads, n \in PartNumbers : PartStart(p, u, n)
               \/ \E u \in uploads, want \in SUBSET PartNumbers, c \in Conditions : CompleteStart(p, u, want, c)
               \/ CompleteBucket(p)
      BY <1>3, <2>1 DEF Onward
    <2>2. CASE CreateUpload(p) \/ PartTx(p)
      BY <1>1, <2>2 DEF CreateUpload, PartTx
    <2>3. CASE CompleteTx(p) \/ \E u \in uploads : AbortUpload(p, u)
      BY <1>1, <2>3 DEF CompleteTx, AbortUpload
    <2> QED BY <1>5, <2>1, <2>2, <2>3 DEF UploadStep
  <1>6. CASE \/ \E b \in Buckets, lock \in Locking : CreateBucket(b, lock)
             \/ \E o \in objects : RetentionExpires(o)
             \/ Serve
             \/ UNCHANGED vars
    BY <1>6 DEF CreateBucket, RetentionExpires, Serve, vars
  <1>7. CASE Crash
    BY <1>7, <1>a, IdleRest DEF Crash
  <1>8. ASSUME NEW p \in Reqs, NEW b \in Buckets, FinishDeletes(p, b) PROVE Moved(q)
    <2> DEFINE n == [Idle EXCEPT !.stage = "remove", !.bucket = b]
    <2>1. n.stage = "remove" /\ n.del = {} /\ n.blob = 0 /\ n.expect = 0
      BY DEF Idle
    <2>2. Become(p, n)
      BY <1>8 DEF FinishDeletes
    <2> HIDE DEF n
    <2>3. Rest(n)
      BY <1>a, <2>1 DEF Rest, Tidy, TypeOK
    <2> QED BY <1>a, <2>2, <2>3, BecomeReq
  <1> QED BY <1>2, <1>4, <1>5, <1>6, <1>7, <1>8 DEF Next

\* A request that goes on has found out what its later steps rely on.
LEMMA OnwardFacts ==
  ASSUME LInv, NEW p \in Reqs, Onward(p)
  PROVE  /\ DecidedIn(req'[p], bucket', uploads', clock')
         /\ Tidy(req'[p])
         /\ req'[p].stage = "putTx" => req'[p].blob = clock + 1 /\ objects' = objects
  <1> DEFINE r == req[p]
             Goal == /\ DecidedIn(req'[p], bucket', uploads', clock')
                     /\ Tidy(req'[p])
                     /\ req'[p].stage = "putTx" => req'[p].blob = clock + 1 /\ objects' = objects
  <1>a. TypeOK /\ r \in Request /\ clock \in Nat
    BY DEF LInv, IInv, TypeOK
  <1>b. Decided(r) /\ Tidy(r)
    BY DEF LInv, AllDecided, AllTidy
  <1>c. r.expect <= clock
    BY <1>b DEF Decided, DecidedIn
  <1>1. ASSUME NEW k \in Keys, NEW h \in Locking, NEW t \in Retentions, NEW c \in Conditions,
               PutStart(p, k, h, t, c)
        PROVE  Goal
    <2> DEFINE n == [r EXCEPT !.stage = "put", !.key = k, !.hold = h, !.ret = t, !.create = c,
                       !.present = c /\ ~Absent(r.bucket, k),
                       !.seen = bucket[r.bucket].created]
    <2>1. /\ n.stage = "put" /\ n.del = r.del /\ n.expect = r.expect /\ n.blob = r.blob
          /\ n.bucket = r.bucket /\ n.hold = h /\ n.ret = t
      BY <1>a DEF Request
    <2>2. Become(p, n) /\ UNCHANGED <<bucket, uploads, clock>> /\ r.stage = "auth"
      BY <1>1 DEF PutStart, records
    <2>3. h \/ t # "none" => bucket[r.bucket].lock
      BY <1>1 DEF PutStart, ValidAttrs
    <2> HIDE DEF n, r
    <2>4. req'[p] = n
      BY <1>a, <2>2, BecomeReq
    <2> QED BY <1>b, <1>c, <2>1, <2>2, <2>3, <2>4 DEF DecidedIn, Tidy, Asks
  <1>2. CASE WriteBlob(p, TRUE)
    <2> DEFINE n == [r EXCEPT !.stage = IF r.stage = "put" THEN "putTx" ELSE "partTx", !.blob = clock']
    <2>1. /\ n.stage = IF r.stage = "put" THEN "putTx" ELSE "partTx"
          /\ n.del = r.del /\ n.expect = r.expect /\ n.blob = clock' /\ n.bucket = r.bucket
          /\ n.key = r.key /\ n.upload = r.upload /\ n.seen = r.seen /\ n.hold = r.hold /\ n.ret = r.ret
      BY <1>a DEF Request
    <2>2. /\ Become(p, n) /\ UNCHANGED <<bucket, uploads, objects>> /\ clock' = clock + 1
          /\ r.stage \in {"put", "part"}
      BY <1>2 DEF WriteBlob, records, Tick
    <2> HIDE DEF n
    <2>4. req'[p] = n
      BY <1>a, <2>2, BecomeReq
    <2>5. r.expect <= clock' /\ r.expect \in Nat
      BY <1>a, <1>c, <2>2 DEF Request
    <2> HIDE DEF r
    <2>6. DecidedIn(n, bucket', uploads', clock')
      BY <1>b, <2>1, <2>2, <2>5 DEF Decided, DecidedIn, Asks
    <2> QED BY <1>b, <2>1, <2>2, <2>4, <2>6 DEF Tidy
  <1>3. CASE LockStart(p)
    <2> DEFINE n == [r EXCEPT !.stage = "lock"]
    <2>1. /\ n.stage = "lock" /\ n.del = r.del /\ n.expect = r.expect /\ n.blob = r.blob
          /\ n.bucket = r.bucket
      BY <1>a DEF Request
    <2>2. /\ Become(p, n) /\ UNCHANGED <<bucket, uploads, clock>> /\ r.stage = "auth"
          /\ r.expect # 0 /\ bucket[r.bucket].lock
      BY <1>3 DEF LockStart, records, FromApi
    <2> HIDE DEF n, r
    <2>4. req'[p] = n
      BY <1>a, <2>2, BecomeReq
    <2> QED BY <1>b, <1>c, <2>1, <2>2, <2>4 DEF DecidedIn, Tidy
  <1>4. ASSUME NEW k \in Keys, NEW h \in Locking, NEW t \in Retentions, UploadStart(p, k, h, t)
        PROVE  Goal
    <2> DEFINE n == [r EXCEPT !.stage = "mpu", !.key = k, !.hold = h, !.ret = t]
    <2>1. /\ n.stage = "mpu" /\ n.del = r.del /\ n.expect = r.expect /\ n.blob = r.blob
          /\ n.bucket = r.bucket /\ n.hold = h /\ n.ret = t
      BY <1>a DEF Request
    <2>2. Become(p, n) /\ UNCHANGED <<bucket, uploads, clock>> /\ r.stage = "auth" /\ r.expect # 0
      BY <1>4 DEF UploadStart, records, FromApi
    <2>3. h \/ t # "none" => bucket[r.bucket].lock
      BY <1>4 DEF UploadStart, ValidAttrs
    <2> HIDE DEF n, r
    <2>4. req'[p] = n
      BY <1>a, <2>2, BecomeReq
    <2> QED BY <1>b, <1>c, <2>1, <2>2, <2>3, <2>4 DEF DecidedIn, Tidy, Asks
  <1>5. ASSUME NEW u \in uploads, NEW m \in PartNumbers, PartStart(p, u, m) PROVE Goal
    <2> DEFINE n == [r EXCEPT !.stage = "part", !.key = u.key, !.upload = u.id, !.number = m]
    <2>1. /\ n.stage = "part" /\ n.del = r.del /\ n.expect = r.expect /\ n.blob = r.blob
          /\ n.bucket = r.bucket
      BY <1>a DEF Request
    <2>2. /\ Become(p, n) /\ UNCHANGED <<bucket, uploads, clock>> /\ r.stage = "auth"
          /\ r.expect # 0 /\ bucket[r.bucket].created = r.expect
      BY <1>5 DEF PartStart, records, FromApi, LiveBucket, BucketExpected
    <2> HIDE DEF n, r
    <2>4. req'[p] = n
      BY <1>a, <2>2, BecomeReq
    <2> QED BY <1>b, <1>c, <2>1, <2>2, <2>4 DEF DecidedIn, Tidy
  <1>6. ASSUME NEW u \in uploads, NEW want \in SUBSET PartNumbers, NEW c \in Conditions,
               CompleteStart(p, u, want, c)
        PROVE  Goal
    <2> DEFINE n == [r EXCEPT !.stage = "complete", !.key = u.key, !.upload = u.id,
                       !.hold = u.hold, !.ret = u.ret, !.want = want, !.create = c,
                       !.present = c /\ ~Absent(u.bucket, u.key)]
    <2>1. /\ n.stage = "complete" /\ n.del = r.del /\ n.expect = r.expect /\ n.blob = r.blob
          /\ n.bucket = r.bucket /\ n.hold = u.hold /\ n.ret = u.ret
      BY <1>a DEF Request
    <2>2. /\ Become(p, n) /\ UNCHANGED <<bucket, uploads, clock>> /\ r.stage = "auth"
          /\ r.expect # 0 /\ u.bucket = r.bucket
      BY <1>6 DEF CompleteStart, records, FromApi
    <2>3. u.hold \/ u.ret # "none" => bucket[u.bucket].lock
      BY DEF LInv, LockNeedsVersioning
    <2> HIDE DEF n, r
    <2>4. req'[p] = n
      BY <1>a, <2>2, BecomeReq
    <2> QED BY <1>b, <1>c, <2>1, <2>2, <2>3, <2>4 DEF DecidedIn, Tidy, Asks
  <1>7. CASE CompleteBucket(p)
    <2> DEFINE n == [r EXCEPT !.stage = "completeTx", !.seen = bucket[r.bucket].created]
    <2>1. /\ n.stage = "completeTx" /\ n.del = r.del /\ n.expect = r.expect /\ n.blob = r.blob
          /\ n.bucket = r.bucket /\ n.hold = r.hold /\ n.ret = r.ret
      BY <1>a DEF Request
    <2>2. Become(p, n) /\ UNCHANGED <<bucket, uploads, clock>> /\ r.stage = "complete"
      BY <1>7 DEF CompleteBucket, records
    <2> HIDE DEF n, r
    <2>4. req'[p] = n
      BY <1>a, <2>2, BecomeReq
    <2>5. DecidedIn(n, bucket', uploads', clock')
      BY <1>b, <2>1, <2>2 DEF Decided, DecidedIn, Asks
    <2> QED BY <1>b, <2>1, <2>2, <2>4, <2>5 DEF Tidy
  <1> QED BY <1>1, <1>2, <1>3, <1>4, <1>5, <1>6, <1>7 DEF Onward

-----------------------------------------------------------------------------
(* The invariant is inductive *)

\* A step hands out one identifier or none.
LEMMA ClockStep ==
  ASSUME LInv, [Next]_vars PROVE clock' = clock \/ clock' = clock + 1
  <1>1. ASSUME NEW p \in Reqs, BucketStep(p) PROVE clock' = clock
    BY <1>1 DEF BucketStep, Authorize, ReturnEarly, PutBucketVersioning, PutObjectLockConfig, DeleteBucket,
                DeleteBucketForce, RemoveFile, RemoveDone, RemoveFails, DropRecord
  <1>2. ASSUME NEW p \in Reqs, ObjectStep(p) PROVE clock' = clock \/ clock' = clock + 1
    BY <1>2 DEF ObjectStep, PutStart, WriteBlob, PutTx, TxFails, DeleteBlob, DeleteVersion, DeleteEnabled,
                DeleteSuspended, DeleteUnversioned, LockStart, PutObjectLegalHold, PutObjectRetention,
                UpdateVersion, Tick
  <1>3. ASSUME NEW p \in Reqs, UploadStep(p) PROVE clock' = clock \/ clock' = clock + 1
    BY <1>3 DEF UploadStep, UploadStart, CreateUpload, PartStart, PartTx, CompleteStart, CompleteBucket,
                CompleteTx, AbortUpload, Tick
  <1>4. ASSUME \/ \E b \in Buckets, lock \in Locking : CreateBucket(b, lock)
               \/ \E o \in objects : RetentionExpires(o)
               \/ Crash
               \/ \E p \in Reqs, b \in Buckets : FinishDeletes(p, b)
               \/ Serve
               \/ UNCHANGED vars
        PROVE  clock' = clock \/ clock' = clock + 1
    BY <1>4 DEF CreateBucket, RetentionExpires, Crash, FinishDeletes, Serve, vars, Tick
  <1> QED BY <1>1, <1>2, <1>3, <1>4 DEF Next

\* What a request has decided stays true while others work.
LEMMA DecidedStep ==
  ASSUME LInv, [Next]_vars, IInv' PROVE AllDecided'
  <1>a. clock \in Nat /\ clock' \in Nat /\ clock <= clock'
    BY ClockStep DEF LInv, IInv, TypeOK
  <1>1. ASSUME NEW q \in Reqs, req'[q] = req[q] PROVE DecidedIn(req'[q], bucket', uploads', clock')
    <2> DEFINE r == req[q]
    <2>1. /\ r.bucket \in Buckets /\ r.expect \in Nat /\ r.seen \in Nat /\ r.upload \in Nat
          /\ r.seen <= clock /\ r.upload <= clock
      BY DEF LInv, IInv, TypeOK, Request, Stamped
    <2>2. DecidedIn(r, bucket, uploads, clock)
      BY DEF LInv, AllDecided, Decided
    <2>3. BucketMoves(r.bucket)
      BY <2>1, BucketsStep
    <2>4. r.expect <= clock /\ r.expect <= clock'
      BY <1>a, <2>1, <2>2 DEF DecidedIn
    <2>5. ASSUME NEW u \in uploads', u.bucket = r.bucket, u.key = r.key, u.id = r.upload,
                 r.stage \in {"part", "partTx"}
          PROVE  bucket'[r.bucket].created = r.expect
      <3>1. u \in uploads
        BY <1>a, <2>1, <2>5, UploadsStep
      <3>2. Exists(u.bucket) /\ bucket'[u.bucket].created # 0
        BY <3>1 DEF LInv, IInv, RecordsHaveBucket, Live, Exists
      <3>3. bucket[r.bucket].created = r.expect
        BY <2>2, <2>5, <3>1 DEF DecidedIn
      <3> QED BY <2>3, <2>5, <3>2, <3>3 DEF BucketMoves, Exists
    <2>6. ASSUME NEW s \in Nat, s <= clock, s # 0, bucket'[r.bucket].created = s
          PROVE  bucket[r.bucket].created = s /\ (bucket[r.bucket].lock => bucket'[r.bucket].lock)
      BY <1>a, <2>3, <2>6 DEF BucketMoves
    <2> HIDE DEF r
    <2>7. DecidedIn(r, bucket', uploads', clock')
      BY <2>1, <2>2, <2>4, <2>5, <2>6 DEF DecidedIn
    <2> QED BY <1>1, <2>7 DEF r
  <1>2. ASSUME NEW q \in Reqs, Rest(req'[q]) PROVE DecidedIn(req'[q], bucket', uploads', clock')
    <2>1. req'[q].expect \in Nat
      BY DEF IInv, TypeOK, Request
    <2> QED BY <1>a, <1>2, <2>1 DEF Rest, DecidedIn
  <1>3. \A q \in Reqs : DecidedIn(req'[q], bucket', uploads', clock')
    BY <1>1, <1>2, NextRequests, OnwardFacts DEF Moved
  <1> QED BY <1>3 DEF AllDecided, Decided, DecidedIn

\* Requests hold files only where they should.
LEMMA TidyStep ==
  ASSUME LInv, [Next]_vars PROVE AllTidy'
  <1>1. \A q \in Reqs : Tidy(req'[q])
    BY NextRequests, OnwardFacts DEF Moved, Rest, LInv, AllTidy
  <1> QED BY <1>1 DEF AllTidy, Tidy

\* Sequence numbers stay unique.
LEMMA SequencedStep ==
  ASSUME LInv, [Next]_vars, IInv' PROVE Sequenced'
  <1>a. /\ clock \in Nat /\ clock' \in Nat /\ clock <= clock'
        /\ objects \subseteq Version /\ objects' \subseteq Version
    BY ClockStep DEF LInv, IInv, TypeOK
  <1>b. VersionsMove
    BY NextMoves
  <1>c. \A o \in objects : o.seq \in Nat /\ o.seq <= clock /\ o.seq <= clock'
    BY <1>a DEF LInv, Sequenced, Version
  <1>d. \A o, v \in objects : SameSlot(o, v) => o = v
    BY DEF LInv, Sequenced
  <1>e. \A q \in Reqs : req'[q].stage = "putTx" /\ req'[q] = req[q] =>
           req[q].blob # 0 /\ \A o \in objects : o.seq # req[q].blob
    BY DEF LInv, Sequenced
  <1> DEFINE Bounded == \A o \in objects' : o.seq <= clock'
             Unique == \A o, v \in objects' : SameSlot(o, v) => o = v
             New == \A q \in Reqs : req'[q].stage = "putTx" /\ req'[q] = req[q] =>
                      req[q].blob # 0 /\ \A o \in objects' : o.seq # req[q].blob
  <1>1. ASSUME objects' \subseteq objects PROVE Bounded /\ Unique /\ New
    BY <1>1, <1>c, <1>d, <1>e
  <1>2. ASSUME NEW o \in Version, FreshPut(o) PROVE Bounded /\ Unique /\ New
    <2>1. objects' \subseteq objects \cup {o}
      BY <1>2, FreshPutObjects
    <2>2. o.seq <= clock' /\ \A v \in objects : v.seq # o.seq
      BY <1>2 DEF FreshPut
    <2>3. \A q \in Reqs : req[q].stage = "putTx" /\ req'[q] = req[q] => req[q].blob # o.seq
      BY <1>2 DEF FreshPut
    <2>4. Bounded
      BY <1>c, <2>1, <2>2
    <2>5. Unique
      BY <1>d, <2>1, <2>2 DEF SameSlot
    <2>6. New
      BY <1>e, <2>1, <2>3
    <2> QED BY <2>4, <2>5, <2>6
  <1>3. ASSUME NEW o \in objects, Removal(o) PROVE objects' \subseteq objects
    BY <1>3 DEF Removal, RemoveVersion
  <1>4. ASSUME NEW o \in objects, NEW n \in Version, Relabel(o, n) PROVE Bounded /\ Unique /\ New
    <2>1. objects' = (objects \ {o}) \cup {n} /\ SameSlot(n, o)
      BY <1>4 DEF Relabel
    <2>2. n.seq = o.seq
      BY <2>1 DEF SameSlot
    <2>3. Unique
      BY <1>d, <2>1 DEF SameSlot
    <2> QED BY <1>c, <1>e, <2>1, <2>2, <2>3
  <1>5. ASSUME NEW b \in Buckets, Purge(b) PROVE objects' \subseteq objects
    BY <1>5 DEF Purge
  <1>6. Bounded /\ Unique /\ New
    <2> HIDE DEF Bounded, Unique, New
    <2>1. CASE UNCHANGED <<objects, nullVer>>
      BY <1>1, <2>1
    <2> QED BY <1>1, <1>2, <1>3, <1>4, <1>5, <1>b, <2>1 DEF VersionsMove
  <1>7. ASSUME NEW q \in Reqs, req'[q].stage = "putTx"
        PROVE  req'[q].blob # 0 /\ \A o \in objects' : o.seq # req'[q].blob
    <2>1. CASE req'[q] = req[q]
      BY <1>6, <1>7, <2>1
    <2>2. CASE Rest(req'[q])
      BY <1>7, <2>2 DEF Rest
    <2>3. CASE Onward(q)
      <3>1. req'[q].blob = clock + 1 /\ objects' = objects
        BY <1>7, <2>3, OnwardFacts
      <3> QED BY <1>a, <1>c, <3>1
    <2> QED BY <2>1, <2>2, <2>3, NextRequests DEF Moved
  <1> QED BY <1>6, <1>7 DEF Sequenced, SameSlot

\* The empty stores of a first start satisfy the invariant.
LEMMA InitLInv == Init => LInv
  <1> SUFFICES ASSUME Init PROVE LInv
    OBVIOUS
  <1>1. IInv
    BY InitIInv
  <1>2. /\ objects = {} /\ uploads = {} /\ clock = 0
        /\ \A b \in Buckets, k \in Keys : nullVer[b][k] = 0
        /\ \A b \in Buckets : bucket[b] = NoBucket
        /\ \A p \in Reqs : req[p] = Idle
    BY DEF Init
  <1>3. LockEnabled /\ LockNeedsVersioning /\ MarkersFree
    BY <1>2 DEF LockEnabled, NoBucket, LockNeedsVersioning, MarkersFree
  <1>4. Sequenced
    BY <1>2, IdleFacts DEF Sequenced
  <1>5. Idle.expect = 0
    BY DEF Idle
  <1>6. AllDecided
    BY <1>2, <1>5, IdleFacts DEF AllDecided, Decided, DecidedIn
  <1>7. AllTidy
    BY <1>2, IdleFacts DEF AllTidy, Tidy
  <1>8. PointerExact
    BY <1>2 DEF PointerExact
  <1> QED BY <1>1, <1>3, <1>4, <1>6, <1>7, <1>8 DEF LInv

\* Every step preserves the invariant.
LEMMA NextLInv == LInv /\ [Next]_vars => LInv'
  <1> SUFFICES ASSUME LInv, [Next]_vars PROVE LInv'
    OBVIOUS
  <1>1. IInv'
    BY NextIInv DEF LInv
  <1>2. VersionsMove
    BY NextMoves
  <1>3. PointerExact' /\ MarkersFree'
    BY <1>1, <1>2, PointerStep, MarkersStep DEF IInv
  <1>4. LockEnabled' /\ LockNeedsVersioning'
    BY <1>1, BucketsStep, LockNeedsVersioningStep
  <1>5. Sequenced' /\ AllDecided' /\ AllTidy'
    BY <1>1, SequencedStep, DecidedStep, TidyStep
  <1> QED BY <1>1, <1>3, <1>4, <1>5 DEF LInv

\* The invariant holds throughout.
LEMMA LInvHolds == Spec => []LInv
  BY InitLInv, NextLInv, PTL DEF Spec

-----------------------------------------------------------------------------
(* Theorems *)

\* The null pointer of a key leads to its only null version, and a key without
\* a pointer has none: what PutObject and DeleteVersion of the metadata layer
\* maintain, whatever the versioning of the bucket has been.
THEOREM NullPointers == Spec => []NullPointerExact
  <1>1. LInv => NullPointerExact
    <2> SUFFICES ASSUME LInv, NEW b \in Buckets, NEW k \in Keys
                 PROVE  {o.seq : o \in {v \in Versions(b, k) : v.null}} =
                          (IF nullVer[b][k] = 0 THEN {} ELSE {nullVer[b][k]})
      BY DEF NullPointerExact
    <2>1. PointerExact
      BY DEF LInv
    <2>2. CASE nullVer[b][k] = 0
      BY <2>1, <2>2 DEF PointerExact, Versions
    <2>3. CASE nullVer[b][k] # 0
      BY <2>1, <2>3 DEF PointerExact, Versions
    <2> QED BY <2>2, <2>3
  <1> QED BY <1>1, LInvHolds, PTL

\* Only buckets with Object Lock and versioning on have versions and uploads
\* under a legal hold or retention, which CompleteUpload relies on.
THEOREM LocksNeedVersioning == Spec => []LockNeedsVersioning
  <1>1. LInv => LockNeedsVersioning
    BY DEF LInv
  <1> QED BY <1>1, LInvHolds, PTL

\* No step takes the data of a version under a legal hold or compliance
\* retention, unless its whole bucket is removed by force.
THEOREM LockedSurvive == Spec => LockedVersionsSurvive
  <1>1. ASSUME LInv, [Next]_vars
        PROVE  \A o \in objects : Locked(o, TRUE) =>
                 \/ \E n \in objects' : /\ n.bucket = o.bucket /\ n.key = o.key /\ n.seq = o.seq
                                         /\ n.blobs = o.blobs /\ ~n.marker
                 \/ bucket[o.bucket]'.deleting
    BY <1>1, NextMoves, LockedKept DEF SameSlot
  <1> QED BY <1>1, LInvHolds, PTL DEF LockedVersionsSurvive, Spec

\* A request that is bound to a bucket finds that very bucket.
Bound(p) == req[p].expect # 0 => bucket[req[p].bucket].created = req[p].expect

\* A step that changes records of objects and uploads is one of a request that
\* has checked its bucket, and the others stay as they are.
LEMMA BoundStep ==
  ASSUME LInv, NEW p \in Reqs, BucketStep(p) \/ ObjectStep(p) \/ UploadStep(p)
  PROVE  \/ UNCHANGED <<objects, uploads, parts>>
         \/ Bound(p) /\ \A q \in Reqs : q # p => req'[q] = req[q]
  <1> DEFINE Goal == \/ UNCHANGED <<objects, uploads, parts>>
                     \/ Bound(p) /\ \A q \in Reqs : q # p => req'[q] = req[q]
  <1>a. TypeOK
    BY DEF LInv, IInv
  <1>1. ASSUME NEW d, Finish(p) \/ Cleanup(p, d), BucketExpected(req[p]) PROVE Goal
    BY <1>1, <1>a, ReturnRest DEF BucketExpected, Bound
  <1>2. ASSUME MarkDeleting(p, req[p].bucket), BucketExpected(req[p]) PROVE Goal
    BY <1>2, <1>a, BecomeReq DEF MarkDeleting, BucketExpected, Bound
  <1>3. CASE DeleteBucket(p)
    BY <1>2, <1>3 DEF DeleteBucket, LiveBucket
  <1>4. CASE DeleteBucketForce(p)
    BY <1>2, <1>4 DEF DeleteBucketForce, FromApi, BucketExpected
  <1>5. ASSUME BucketStep(p) PROVE Goal
    <2>1. CASE \/ \E b \in Buckets, c \in Callers : Authorize(p, b, c)
               \/ ReturnEarly(p)
               \/ \E v \in {"Enabled", "Suspended"} : PutBucketVersioning(p, v)
               \/ PutObjectLockConfig(p)
               \/ \E x \in 1..clock : RemoveFile(p, x)
               \/ RemoveDone(p)
               \/ RemoveFails(p)
               \/ DropRecord(p)
      BY <2>1 DEF Authorize, ReturnEarly, PutBucketVersioning, PutObjectLockConfig, RemoveFile, RemoveDone,
                  RemoveFails, DropRecord, records
    <2> QED BY <1>3, <1>4, <1>5, <2>1 DEF BucketStep
  <1>6. ASSUME ObjectStep(p) PROVE Goal
    <2>1. CASE \/ \E k \in Keys, h \in Locking, t \in Retentions, c \in Conditions : PutStart(p, k, h, t, c)
               \/ \E ok \in BOOLEAN : WriteBlob(p, ok)
               \/ TxFails(p)
               \/ \E x \in req[p].del, ok \in BOOLEAN : DeleteBlob(p, x, ok)
               \/ LockStart(p)
      BY <2>1 DEF PutStart, WriteBlob, TxFails, DeleteBlob, LockStart, records
    <2>2. CASE PutTx(p)
      BY <1>1, <2>2 DEF PutTx, PutAllowed
    <2>3. CASE \/ \E o \in objects, bypass \in BOOLEAN : DeleteVersion(p, o, bypass)
               \/ \E k \in Keys : DeleteEnabled(p, k)
               \/ \E k \in Keys, bypass \in BOOLEAN : DeleteSuspended(p, k, bypass)
               \/ \E o \in objects, bypass \in BOOLEAN : DeleteUnversioned(p, o, bypass)
      BY <1>1, <2>3 DEF DeleteVersion, DeleteEnabled, DeleteSuspended, DeleteUnversioned, LiveBucket
    <2>4. CASE \/ \E o \in objects, on \in BOOLEAN : PutObjectLegalHold(p, o, on)
               \/ \E o \in objects, t \in Retentions, bypass \in BOOLEAN : PutObjectRetention(p, o, t, bypass)
      BY <1>1, <2>4 DEF PutObjectLegalHold, PutObjectRetention, UpdateVersion, LiveBucket
    <2> QED BY <1>6, <2>1, <2>2, <2>3, <2>4 DEF ObjectStep
  <1>7. ASSUME UploadStep(p) PROVE Goal
    <2>1. CASE \/ \E k \in Keys, h \in Locking, t \in Retentions : UploadStart(p, k, h, t)
               \/ \E u \in uploads, n \in PartNumbers : PartStart(p, u, n)
               \/ \E u \in uploads, want \in SUBSET PartNumbers, c \in Conditions : CompleteStart(p, u, want, c)
               \/ CompleteBucket(p)
      BY <2>1 DEF UploadStart, PartStart, CompleteStart, CompleteBucket, records
    <2>2. CASE CreateUpload(p)
      BY <1>1, <2>2 DEF CreateUpload, LiveBucket
    <2>3. CASE PartTx(p)
      <3>1. req[p].stage = "partTx" /\ UploadOf(req[p]) # {}
        BY <2>3 DEF PartTx
      <3>2. BucketExpected(req[p])
        BY <3>1 DEF LInv, AllDecided, Decided, DecidedIn, UploadOf, BucketExpected
      <3> QED BY <1>1, <2>3, <3>2 DEF PartTx
    <2>4. CASE CompleteTx(p)
      BY <1>1, <2>4 DEF CompleteTx
    <2>5. CASE \E u \in uploads : AbortUpload(p, u)
      BY <1>1, <2>5 DEF AbortUpload, LiveBucket
    <2> QED BY <1>7, <2>1, <2>2, <2>3, <2>4, <2>5 DEF UploadStep
  <1> HIDE DEF Goal
  <1>8. Goal
    BY <1>5, <1>6, <1>7
  <1> QED BY <1>8 DEF Goal

\* A request the API layer authorised against one bucket never changes the
\* records of another, not even of a later bucket of the same name: liveBucket
\* and sameBucket look, and UploadPart's upload went with the old bucket.
THEOREM BoundToBucket == Spec => AuthorisedBucketOnly
  <1>1. ASSUME LInv, [Next]_vars,
               NEW p \in Reqs, req'[p] # req[p], req[p].expect # 0, up',
               <<objects, uploads, parts>>' # <<objects, uploads, parts>>
        PROVE  bucket[req[p].bucket].created = req[p].expect
    <2>1. ASSUME NEW q \in Reqs, BucketStep(q) \/ ObjectStep(q) \/ UploadStep(q) PROVE Bound(p)
      BY <1>1, <2>1, BoundStep
    <2>2. ~UNCHANGED vars /\ ~Crash /\ ~Serve
      BY <1>1 DEF vars, Crash, Serve, records
    <2>3. /\ ~\E b \in Buckets, lock \in Locking : CreateBucket(b, lock)
          /\ ~\E o \in objects : RetentionExpires(o)
          /\ ~\E q \in Reqs, b \in Buckets : FinishDeletes(q, b)
      BY <1>1 DEF CreateBucket, RetentionExpires, FinishDeletes, records
    <2>4. Bound(p)
      BY <1>1, <2>1, <2>2, <2>3 DEF Next
    <2> QED BY <1>1, <2>4 DEF Bound
  <1>2. ASSUME LInv, [Next]_vars
        PROVE  \A p \in Reqs :
                 req'[p] # req[p] /\ req[p].expect # 0 /\ up'
                   /\ <<objects, uploads, parts>>' # <<objects, uploads, parts>>
                 => bucket[req[p].bucket].created = req[p].expect
    BY <1>1, <1>2
  <1> QED BY <1>2, LInvHolds, PTL DEF AuthorisedBucketOnly, Spec

-----------------------------------------------------------------------------
(* No file is forgotten *)

\* A version or part record names file x of bucket b.
NamedIn(os, ps, b, x) ==
  \/ \E o \in os : o.bucket = b /\ x \in o.blobs
  \/ \E y \in ps : y.bucket = b /\ y.blob = x

\* A request has written file x of bucket b or is to remove it.
HeldBy(r, b, x) == r.bucket = b /\ (r.blob = x \/ x \in r.del)

\* The directory of bucket b will still be removed.
DoomedIn(buckets, reqs, b) ==
  buckets[b].deleting /\ \A p \in Reqs : ~(reqs[p].stage = "drop" /\ reqs[p].bucket = b)

Accounted(b, x) ==
  \/ NamedIn(objects, parts, b, x)
  \/ \E p \in Reqs : HeldBy(req[p], b, x)
  \/ DoomedIn(bucket, req, b)

\* File names were handed out, a bucket under removal has a record, and
\* without faults every file is accounted for. NoLeakedBlob does not survive
\* the end of a bucket removal by itself: a file written once the directory was
\* gone must be in the hands of its request.
Filed ==
  /\ \A b \in Buckets : bucket[b].deleting => Exists(b)
  /\ \A b \in Buckets, x \in Nat : <<b, x>> \in files => x # 0 /\ x <= clock
  /\ faults = 0 => \A b \in Buckets, x \in Nat : <<b, x>> \in files => Accounted(b, x)

\* What the steps do to the data files.
LEMMA FilesStep ==
  ASSUME LInv, [Next]_vars
  PROVE  \A b \in Buckets, x \in Nat : <<b, x>> \in files' =>
           <<b, x>> \in files \/ (x = clock + 1 /\ clock' = clock + 1)
  <1> DEFINE Goal == \A b \in Buckets, x \in Nat : <<b, x>> \in files' =>
                       <<b, x>> \in files \/ (x = clock + 1 /\ clock' = clock + 1)
  <1>1. ASSUME files' \subseteq files PROVE Goal
    BY <1>1
  <1>2. ASSUME NEW p \in Reqs, NEW ok \in BOOLEAN, WriteBlob(p, ok) PROVE Goal
    BY <1>2 DEF WriteBlob, Tick
  <1>3. ASSUME NEW p \in Reqs, BucketStep(p) PROVE files' \subseteq files
    BY <1>3 DEF BucketStep, Authorize, ReturnEarly, PutBucketVersioning, PutObjectLockConfig, DeleteBucket,
                DeleteBucketForce, RemoveFile, RemoveDone, RemoveFails, DropRecord
  <1>4. ASSUME NEW p \in Reqs, ObjectStep(p) PROVE Goal
    <2>1. CASE \/ \E k \in Keys, h \in Locking, t \in Retentions, c \in Conditions : PutStart(p, k, h, t, c)
               \/ PutTx(p)
               \/ TxFails(p)
               \/ \E x \in req[p].del, ok \in BOOLEAN : DeleteBlob(p, x, ok)
               \/ \E o \in objects, bypass \in BOOLEAN : DeleteVersion(p, o, bypass)
               \/ \E k \in Keys : DeleteEnabled(p, k)
               \/ \E k \in Keys, bypass \in BOOLEAN : DeleteSuspended(p, k, bypass)
               \/ \E o \in objects, bypass \in BOOLEAN : DeleteUnversioned(p, o, bypass)
               \/ LockStart(p)
               \/ \E o \in objects, on \in BOOLEAN : PutObjectLegalHold(p, o, on)
               \/ \E o \in objects, t \in Retentions, bypass \in BOOLEAN : PutObjectRetention(p, o, t, bypass)
      <3>1. files' \subseteq files
        BY <2>1 DEF PutStart, PutTx, TxFails, DeleteBlob, DeleteVersion, DeleteEnabled, DeleteSuspended,
                    DeleteUnversioned, LockStart, PutObjectLegalHold, PutObjectRetention, UpdateVersion
      <3> QED BY <1>1, <3>1, SMTT(20)
    <2> QED BY <1>2, <1>4, <2>1 DEF ObjectStep
  <1>5. ASSUME NEW p \in Reqs, UploadStep(p) PROVE files' \subseteq files
    BY <1>5 DEF UploadStep, UploadStart, CreateUpload, PartStart, PartTx, CompleteStart, CompleteBucket,
                CompleteTx, AbortUpload
  <1>6. ASSUME \/ \E b \in Buckets, lock \in Locking : CreateBucket(b, lock)
               \/ \E o \in objects : RetentionExpires(o)
               \/ Crash
               \/ \E p \in Reqs, b \in Buckets : FinishDeletes(p, b)
               \/ Serve
               \/ UNCHANGED vars
        PROVE  files' \subseteq files
    BY <1>6 DEF CreateBucket, RetentionExpires, Crash, FinishDeletes, Serve, vars
  <1> HIDE DEF Goal
  <1>7. Goal
    BY <1>1, <1>3, <1>4, <1>5, <1>6 DEF Next
  <1> QED BY <1>7 DEF Goal

\* A bucket under removal keeps its record until the end.
LEMMA DeletingStep ==
  ASSUME LInv, Filed, [Next]_vars
  PROVE  \A b \in Buckets : bucket'[b].deleting => bucket'[b].created # 0
  <1> DEFINE Goal == \A b \in Buckets : bucket'[b].deleting => bucket'[b].created # 0
  <1>a. bucket \in [Buckets -> Bucket] /\ \A b \in Buckets : bucket[b].deleting => bucket[b].created # 0
    BY DEF LInv, IInv, TypeOK, Filed, Exists
  <1>b. \A p \in Reqs : req[p].bucket \in Buckets
    BY DEF LInv, IInv, TypeOK, Request
  <1>1. ASSUME bucket' = bucket PROVE Goal
    BY <1>1, <1>a
  <1>2. ASSUME NEW b \in Buckets, NEW lock \in Locking, CreateBucket(b, lock) PROVE Goal
    <2>1. /\ bucket' = [bucket EXCEPT ![b] = [created |-> clock', deleting |-> FALSE, lock |-> lock,
                                              versioning |-> IF lock THEN "Enabled" ELSE "Off"]]
      BY <1>2 DEF CreateBucket
    <2>2. ~bucket'[b].deleting /\ \A d \in Buckets : d # b => bucket'[d] = bucket[d]
      BY <1>a, <2>1
    <2> QED BY <1>a, <2>2
  <1>3. ASSUME NEW p \in Reqs, NEW v \in {"Enabled", "Suspended"}, PutBucketVersioning(p, v) PROVE Goal
    <2>1. \A d \in Buckets : bucket'[d].created = bucket[d].created /\ bucket'[d].deleting = bucket[d].deleting
      BY <1>3, <1>a DEF PutBucketVersioning, Bucket
    <2> QED BY <1>a, <2>1
  <1>4. ASSUME NEW p \in Reqs, PutObjectLockConfig(p) PROVE Goal
    <2>1. \A d \in Buckets : bucket'[d].created = bucket[d].created /\ bucket'[d].deleting = bucket[d].deleting
      BY <1>4, <1>a DEF PutObjectLockConfig, Bucket
    <2> QED BY <1>a, <2>1
  <1>5. ASSUME NEW b \in Buckets, Exists(b), bucket' = [bucket EXCEPT ![b].deleting = TRUE] PROVE Goal
    <2>1. \A d \in Buckets : /\ bucket'[d].created = bucket[d].created
                             /\ d # b => bucket'[d].deleting = bucket[d].deleting
      BY <1>5, <1>a DEF Bucket
    <2> QED BY <1>5, <1>a, <2>1 DEF Exists
  <1>6. ASSUME NEW p \in Reqs, DropRecord(p) PROVE Goal
    <2>1. \A d \in Buckets : bucket'[d] = bucket[d] \/ bucket'[d] = NoBucket
      BY <1>6, <1>a DEF DropRecord
    <2> QED BY <1>a, <2>1 DEF NoBucket
  <1>7. ASSUME NEW p \in Reqs, BucketStep(p) PROVE Goal
    <2>1. CASE DeleteBucket(p) \/ DeleteBucketForce(p)
      BY <1>b, <1>5, <2>1 DEF DeleteBucket, DeleteBucketForce, MarkDeleting, LiveBucket, Live
    <2>2. CASE \/ \E b \in Buckets, c \in Callers : Authorize(p, b, c)
               \/ ReturnEarly(p)
               \/ \E x \in 1..clock : RemoveFile(p, x)
               \/ RemoveDone(p)
               \/ RemoveFails(p)
      BY <1>1, <2>2 DEF Authorize, ReturnEarly, RemoveFile, RemoveDone, RemoveFails, records
    <2> QED BY <1>3, <1>4, <1>6, <1>7, <2>1, <2>2 DEF BucketStep
  <1>8. ASSUME NEW p \in Reqs, ObjectStep(p) PROVE bucket' = bucket
    BY <1>8 DEF ObjectStep, PutStart, WriteBlob, PutTx, TxFails, DeleteBlob, DeleteVersion, DeleteEnabled,
                DeleteSuspended, DeleteUnversioned, LockStart, PutObjectLegalHold, PutObjectRetention,
                UpdateVersion, records
  <1>9. ASSUME NEW p \in Reqs, UploadStep(p) PROVE bucket' = bucket
    BY <1>9 DEF UploadStep, UploadStart, CreateUpload, PartStart, PartTx, CompleteStart, CompleteBucket,
                CompleteTx, AbortUpload, records
  <1>10. ASSUME \/ \E o \in objects : RetentionExpires(o)
                \/ Crash
                \/ \E p \in Reqs, b \in Buckets : FinishDeletes(p, b)
                \/ Serve
                \/ UNCHANGED vars
         PROVE  bucket' = bucket
    BY <1>10 DEF RetentionExpires, Crash, FinishDeletes, Serve, vars, records
  <1> HIDE DEF Goal
  <1>11. Goal
    BY <1>1, <1>2, <1>7, <1>8, <1>9, <1>10 DEF Next
  <1> QED BY <1>11 DEF Goal

\* Accounted after a step.
AccountedNext(b, x) ==
  \/ NamedIn(objects', parts', b, x)
  \/ \E p \in Reqs : HeldBy(req'[p], b, x)
  \/ DoomedIn(bucket', req', b)

\* A file that another request holds, or whose bucket goes, stays accounted for.
LEMMA Carried ==
  ASSUME LInv, Filed, faults = 0, NEW p \in Reqs,
         \A q \in Reqs : q # p => req'[q] = req[q],
         NEW b \in Buckets, NEW x \in Nat, <<b, x>> \in files,
         bucket[b].deleting => bucket'[b].deleting,
         req'[p].stage # "drop" \/ req'[p].bucket # b,
         NamedIn(objects, parts, b, x) => AccountedNext(b, x),
         HeldBy(req[p], b, x) => AccountedNext(b, x)
  PROVE  AccountedNext(b, x)
  <1>1. Accounted(b, x)
    BY DEF Filed
  <1>2. ASSUME NEW q \in Reqs, HeldBy(req[q], b, x) PROVE AccountedNext(b, x)
    <2>1. CASE q = p
      BY <1>2, <2>1
    <2>2. CASE q # p
      BY <1>2, <2>2 DEF AccountedNext
    <2> QED BY <2>1, <2>2
  <1>3. CASE DoomedIn(bucket, req, b)
    BY <1>3 DEF DoomedIn, AccountedNext
  <1> QED BY <1>1, <1>2, <1>3 DEF Accounted

\* Most requests hold no file.
LEMMA HoldsNone ==
  ASSUME LInv, NEW p \in Reqs, req[p].stage \notin {"putTx", "partTx", "cleanup"},
         NEW b, NEW x \in Nat, x # 0
  PROVE  ~HeldBy(req[p], b, x)
  BY DEF LInv, AllTidy, Tidy, HeldBy

\* A request that reads on, or returns having written nothing.
LEMMA QuietFiles ==
  ASSUME LInv, Filed, faults = 0, NEW p \in Reqs, NEW n, Become(p, n), n.stage # "drop",
         req[p].stage \notin {"putTx", "partTx", "cleanup"},
         UNCHANGED <<objects, parts>>,
         \A b \in Buckets : bucket[b].deleting => bucket'[b].deleting,
         NEW b \in Buckets, NEW x \in Nat, <<b, x>> \in files
  PROVE  AccountedNext(b, x)
  <1>1. req'[p] = n /\ \A q \in Reqs : q # p => req'[q] = req[q]
    BY BecomeReq DEF LInv, IInv
  <1>2. ~HeldBy(req[p], b, x)
    BY HoldsNone DEF Filed
  <1>3. NamedIn(objects, parts, b, x) => AccountedNext(b, x)
    BY DEF AccountedNext
  <1> QED BY <1>1, <1>2, <1>3, Carried

\* deleteBlobs has the files in its hands.
LEMMA CleanupHolds ==
  ASSUME TypeOK, NEW p \in Reqs, NEW d \in SUBSET Nat, Cleanup(p, d), NEW x \in d
  PROVE  HeldBy(req'[p], req[p].bucket, x)
  <1> DEFINE n == [Idle EXCEPT !.stage = "cleanup", !.bucket = req[p].bucket, !.del = d]
  <1>1. Become(p, n)
    BY DEF Cleanup
  <1>2. n.bucket = req[p].bucket /\ n.del = d
    BY DEF Idle
  <1> QED BY <1>1, <1>2, BecomeReq DEF HeldBy

\* A request that leaves files to the records, or to its clean-up.
LEMMA HandedOver ==
  ASSUME LInv, Filed, faults = 0, NEW p \in Reqs, NEW d \in SUBSET Nat, Cleanup(p, d), bucket' = bucket,
         \A o \in objects : \A y \in o.blobs :
            NamedIn(objects', parts', o.bucket, y) \/ (o.bucket = req[p].bucket /\ y \in d),
         \A y \in parts :
            NamedIn(objects', parts', y.bucket, y.blob) \/ (y.bucket = req[p].bucket /\ y.blob \in d),
         NEW b \in Buckets, NEW x \in Nat, <<b, x>> \in files,
         HeldBy(req[p], b, x) => NamedIn(objects', parts', b, x) \/ x \in d
  PROVE  AccountedNext(b, x)
  <1>a. TypeOK
    BY DEF LInv, IInv
  <1>1. req'[p].stage \in {"idle", "cleanup"} /\ \A q \in Reqs : q # p => req'[q] = req[q]
    BY <1>a, CleanupReq
  <1>2. ASSUME b = req[p].bucket, x \in d PROVE AccountedNext(b, x)
    BY <1>2, <1>a, CleanupHolds DEF AccountedNext
  <1>3. NamedIn(objects', parts', b, x) => AccountedNext(b, x)
    BY DEF AccountedNext
  <1>4. NamedIn(objects, parts, b, x) => AccountedNext(b, x)
    BY <1>2, <1>3 DEF NamedIn
  <1>5. HeldBy(req[p], b, x) => AccountedNext(b, x)
    BY <1>2, <1>3 DEF HeldBy
  <1> QED BY <1>1, <1>4, <1>5, Carried

\* The same for a request that held none and wrote or removed versions.
LEMMA VersionsHandedOver ==
  ASSUME LInv, Filed, faults = 0, NEW p \in Reqs, NEW d \in SUBSET Nat, Cleanup(p, d), bucket' = bucket,
         parts' = parts, req[p].stage = "auth",
         \A o \in objects : o \in objects' \/ (o.bucket = req[p].bucket /\ o.blobs \subseteq d),
         NEW b \in Buckets, NEW x \in Nat, <<b, x>> \in files
  PROVE  AccountedNext(b, x)
  <1>1. ~HeldBy(req[p], b, x)
    BY HoldsNone DEF Filed
  <1>2. \A o \in objects : \A y \in o.blobs :
            NamedIn(objects', parts', o.bucket, y) \/ (o.bucket = req[p].bucket /\ y \in d)
    BY DEF NamedIn
  <1>3. \A y \in parts : NamedIn(objects', parts', y.bucket, y.blob)
    BY DEF NamedIn
  <1> QED BY <1>1, <1>2, <1>3, HandedOver

\* The steps of the bucket operations.
LEMMA BucketStepFiles ==
  ASSUME LInv, Filed, faults = 0, faults' = 0, NEW p \in Reqs, BucketStep(p),
         NEW b \in Buckets, NEW x \in Nat, <<b, x>> \in files'
  PROVE  AccountedNext(b, x)
  <1>a. /\ TypeOK /\ bucket \in [Buckets -> Bucket] /\ req[p] \in Request /\ req[p].bucket \in Buckets
        /\ clock \in Nat
    BY DEF LInv, IInv, TypeOK, Request
  <1>b. <<b, x>> \in files
    BY DEF BucketStep, Authorize, ReturnEarly, PutBucketVersioning, PutObjectLockConfig, DeleteBucket,
           DeleteBucketForce, RemoveFile, RemoveDone, RemoveFails, DropRecord
  <1>c. Idle.stage # "drop"
    BY DEF Idle
  <1>1. ASSUME NEW c \in Buckets, NEW k \in Callers, Authorize(p, c, k) PROVE AccountedNext(b, x)
    <2> DEFINE n == [Idle EXCEPT !.stage = "auth", !.bucket = c,
                       !.expect = IF k = "api" THEN bucket[c].created ELSE 0]
    <2>1. n.stage = "auth"
      BY DEF Idle
    <2>2. Become(p, n) /\ req[p].stage = "idle" /\ UNCHANGED <<objects, parts, bucket>>
      BY <1>1 DEF Authorize, records
    <2> HIDE DEF n
    <2> QED BY <1>b, <2>1, <2>2, QuietFiles
  <1>2. CASE ReturnEarly(p)
    <2>1. Become(p, Idle) /\ req[p].stage \notin {"putTx", "partTx", "cleanup"} /\ UNCHANGED <<objects, parts, bucket>>
      BY <1>2 DEF ReturnEarly, records, Finish
    <2> QED BY <1>b, <1>c, <2>1, QuietFiles
  <1>3. CASE \E v \in {"Enabled", "Suspended"} : PutBucketVersioning(p, v)
    <2>1. PICK v \in {"Enabled", "Suspended"} : PutBucketVersioning(p, v)
      BY <1>3
    <2>2. \A d \in Buckets : bucket'[d].deleting = bucket[d].deleting
      BY <1>a, <2>1 DEF PutBucketVersioning, Bucket
    <2>3. Become(p, Idle) /\ req[p].stage = "auth" /\ UNCHANGED <<objects, parts>>
      BY <2>1 DEF PutBucketVersioning, Finish
    <2> QED BY <1>b, <1>c, <2>2, <2>3, QuietFiles
  <1>4. CASE PutObjectLockConfig(p)
    <2>2. \A d \in Buckets : bucket'[d].deleting = bucket[d].deleting
      BY <1>a, <1>4 DEF PutObjectLockConfig, Bucket
    <2>3. Become(p, Idle) /\ req[p].stage = "auth" /\ UNCHANGED <<objects, parts>>
      BY <1>4 DEF PutObjectLockConfig, Finish
    <2> QED BY <1>b, <1>c, <2>2, <2>3, QuietFiles
  <1>5. ASSUME MarkDeleting(p, req[p].bucket), Live(req[p].bucket), req[p].stage = "auth",
               objects' = objects \/ objects' = {o \in objects : o.bucket # req[p].bucket}
        PROVE  AccountedNext(b, x)
    <2> DEFINE c == req[p].bucket
               n == [Idle EXCEPT !.stage = "remove", !.bucket = c]
    <2>1. n.stage = "remove"
      BY DEF Idle
    <2>2. Become(p, n)
      BY <1>5 DEF MarkDeleting
    <2> HIDE DEF n
    <2>3. req'[p].stage = "remove" /\ \A q \in Reqs : q # p => req'[q] = req[q]
      BY <1>a, <2>1, <2>2, BecomeReq
    <2>4. \A d \in Buckets : bucket'[d].deleting = (bucket[d].deleting \/ d = c)
      BY <1>5, <1>a DEF MarkDeleting, Bucket
    <2>5. \A q \in Reqs : ~(req[q].stage = "drop" /\ req[q].bucket = c)
      BY <1>5 DEF LInv, IInv, OneRemover, Removing, Live
    <2>6. CASE b = c
      BY <1>a, <2>3, <2>4, <2>5, <2>6 DEF AccountedNext, DoomedIn
    <2>7. CASE b # c
      <3>1. ~HeldBy(req[p], b, x)
        BY <1>5, <1>b, HoldsNone DEF Filed
      <3>2. parts' = {y \in parts : y.bucket # c}
        BY <1>5 DEF MarkDeleting
      <3>3. NamedIn(objects, parts, b, x) => AccountedNext(b, x)
        BY <1>5, <2>7, <3>2 DEF NamedIn, AccountedNext
      <3> QED BY <1>b, <2>3, <2>4, <3>1, <3>3, Carried
    <2> QED BY <2>6, <2>7
  <1>6. CASE DeleteBucket(p)
    BY <1>5, <1>6 DEF DeleteBucket, LiveBucket
  <1>7. CASE DeleteBucketForce(p)
    BY <1>5, <1>7 DEF DeleteBucketForce
  <1>8. CASE \E y \in 1..clock : RemoveFile(p, y)
    BY <1>8, <1>b DEF RemoveFile, records, Filed, Accounted, AccountedNext
  <1>9. CASE RemoveDone(p)
    <2> DEFINE n == [req[p] EXCEPT !.stage = "drop"]
    <2>1. n.stage = "drop" /\ n.bucket = req[p].bucket
      BY <1>a DEF Request
    <2>2. /\ Become(p, n) /\ req[p].stage = "remove" /\ UNCHANGED <<objects, parts, bucket>>
          /\ \A y \in 1..clock : <<req[p].bucket, y>> \notin files
      BY <1>9 DEF RemoveDone, records
    <2> HIDE DEF n
    <2>3. req'[p].bucket = req[p].bucket /\ \A q \in Reqs : q # p => req'[q] = req[q]
      BY <1>a, <2>1, <2>2, BecomeReq
    <2>4. x \in 1..clock
      BY <1>a, <1>b DEF Filed
    <2>5. b # req[p].bucket
      BY <1>b, <2>2, <2>4
    <2>6. ~HeldBy(req[p], b, x)
      BY <2>5 DEF HeldBy
    <2>7. NamedIn(objects, parts, b, x) => AccountedNext(b, x)
      BY <2>2 DEF AccountedNext
    <2> QED BY <1>b, <2>2, <2>3, <2>5, <2>6, <2>7, Carried
  <1>10. CASE RemoveFails(p)
    BY <1>10 DEF RemoveFails
  <1>11. CASE DropRecord(p)
    <2>1. Become(p, Idle) /\ req[p].stage = "drop" /\ UNCHANGED <<objects, parts>>
      BY <1>11 DEF DropRecord, Finish
    <2>2. \A d \in Buckets : d # req[p].bucket => bucket'[d] = bucket[d]
      BY <1>a, <1>11 DEF DropRecord
    <2>3. req'[p].stage # "drop" /\ \A q \in Reqs : q # p => req'[q] = req[q]
      BY <1>a, <1>c, <2>1, BecomeReq
    <2>4. ~HeldBy(req[p], b, x)
      BY <1>b, <2>1, HoldsNone DEF Filed
    <2>5. NamedIn(objects, parts, b, x) => AccountedNext(b, x)
      BY <2>1 DEF AccountedNext
    <2>6. CASE b = req[p].bucket
      <3>1. ~DoomedIn(bucket, req, b)
        BY <2>1, <2>6 DEF DoomedIn
      <3>2. Accounted(b, x)
        BY <1>b DEF Filed
      <3> QED BY <2>3, <2>4, <2>5, <3>1, <3>2 DEF Accounted, AccountedNext
    <2>7. CASE b # req[p].bucket
      BY <1>b, <2>2, <2>3, <2>4, <2>5, <2>7, Carried
    <2> QED BY <2>6, <2>7
  <1> QED BY <1>1, <1>2, <1>3, <1>4, <1>6, <1>7, <1>8, <1>9, <1>10, <1>11 DEF BucketStep

\* writeBlob leaves the file in the hands of its request.
LEMMA WriteBlobFiles ==
  ASSUME LInv, Filed, faults = 0, NEW p \in Reqs, NEW ok \in BOOLEAN, WriteBlob(p, ok),
         NEW b \in Buckets, NEW x \in Nat, <<b, x>> \in files'
  PROVE  AccountedNext(b, x)
  <1> DEFINE r == req[p]
             n == [r EXCEPT !.stage = IF r.stage = "put" THEN "putTx" ELSE "partTx", !.blob = clock']
  <1>a. TypeOK /\ r \in Request /\ clock' \in Nat
    BY TickType DEF LInv, IInv, TypeOK, WriteBlob
  <1>1. /\ r.stage \in {"put", "part"} /\ files' = files \cup {<<r.bucket, clock'>>}
        /\ UNCHANGED <<objects, parts, bucket>>
    BY DEF WriteBlob, records
  <1>2. ok => Become(p, n)
    BY DEF WriteBlob
  <1>3. ~ok => Cleanup(p, {clock'})
    BY DEF WriteBlob
  <1>4. n.stage # "drop" /\ n.bucket = r.bucket /\ n.blob = clock'
    BY <1>a DEF Request
  <1> HIDE DEF n, r
  <1>5. /\ HeldBy(req'[p], r.bucket, clock') /\ req'[p].stage # "drop"
        /\ \A q \in Reqs : q # p => req'[q] = req[q]
    <2>1. CASE ok
      BY <1>a, <1>2, <1>4, <2>1, BecomeReq DEF HeldBy
    <2>2. CASE ~ok
      BY <1>a, <1>3, <2>2, CleanupReq, CleanupHolds DEF r
    <2> QED BY <2>1, <2>2
  <1>6. CASE <<b, x>> \in files
    <2>1. ~HeldBy(req[p], b, x)
      BY <1>1, <1>6, HoldsNone DEF Filed, r
    <2>2. NamedIn(objects, parts, b, x) => AccountedNext(b, x)
      BY <1>1 DEF AccountedNext
    <2> QED BY <1>1, <1>5, <1>6, <2>1, <2>2, Carried
  <1>7. CASE b = r.bucket /\ x = clock'
    BY <1>5, <1>7 DEF AccountedNext
  <1> QED BY <1>1, <1>6, <1>7

\* PutObject's transaction hands its file to the version, and the files of the
\* version it replaced to the clean-up.
LEMMA PutTxFiles ==
  ASSUME LInv, Filed, faults = 0, NEW p \in Reqs, PutTx(p),
         NEW b \in Buckets, NEW x \in Nat, <<b, x>> \in files
  PROVE  AccountedNext(b, x)
  <1> DEFINE r == req[p]
             o == NewVersion(r)
             d == Blobs(Replaced(o))
  <1>1. r \in Request /\ o \in Version /\ d \in SUBSET Nat
    BY VersionTypes DEF LInv, IInv, TypeOK
  <1>2. FreshPut(o)
    BY PutTxFresh
  <1>3. o.bucket = r.bucket /\ o.blobs = {r.blob}
    BY DEF NewVersion
  <1>4. r.stage = "putTx" /\ Cleanup(p, d) /\ bucket' = bucket /\ parts' = parts
    BY DEF PutTx
  <1> HIDE DEF o
  <1>5. o \in objects' /\ \A v \in objects : v \in objects' \/ (v \in Replaced(o) /\ v.bucket = o.bucket)
    BY <1>2, FreshPutObjects
  <1>6. \A v \in Replaced(o) : v.blobs \subseteq d
    BY DEF Blobs
  <1>7. \A v \in objects : \A y \in v.blobs :
          NamedIn(objects', parts', v.bucket, y) \/ (v.bucket = req[p].bucket /\ y \in d)
    BY <1>3, <1>5, <1>6 DEF NamedIn
  <1>8. \A y \in parts : NamedIn(objects', parts', y.bucket, y.blob)
    BY <1>4 DEF NamedIn
  <1>9. HeldBy(req[p], b, x) => NamedIn(objects', parts', b, x)
    BY <1>3, <1>4, <1>5 DEF HeldBy, NamedIn, LInv, AllTidy, Tidy
  <1> HIDE DEF d
  <1> QED BY <1>1, <1>4, <1>7, <1>8, <1>9, HandedOver

\* The steps of the object operations.
LEMMA ObjectStepFiles ==
  ASSUME LInv, Filed, faults = 0, faults' = 0, NEW p \in Reqs, ObjectStep(p),
         NEW b \in Buckets, NEW x \in Nat, <<b, x>> \in files'
  PROVE  AccountedNext(b, x)
  <1> DEFINE r == req[p]
  <1>a. TypeOK /\ r \in Request /\ r.bucket \in Buckets /\ objects \subseteq Version /\ clock \in Nat
    BY DEF LInv, IInv, TypeOK, Request
  <1>b. \A o \in objects : o.blobs \in SUBSET Nat
    BY <1>a DEF Version
  <1>c. Idle.stage # "drop"
    BY DEF Idle
  <1>d. ASSUME Finish(p) PROVE Cleanup(p, {})
    BY <1>d DEF Cleanup
  <1>1. ASSUME NEW k \in Keys, NEW h \in Locking, NEW t \in Retentions, NEW c \in Conditions,
               PutStart(p, k, h, t, c)
        PROVE  AccountedNext(b, x)
    <2> DEFINE n == [r EXCEPT !.stage = "put", !.key = k, !.hold = h, !.ret = t, !.create = c,
                       !.present = c /\ ~Absent(r.bucket, k),
                       !.seen = bucket[r.bucket].created]
    <2>1. n.stage = "put"
      BY <1>a DEF Request
    <2>2. Become(p, n) /\ UNCHANGED <<objects, parts, bucket, files>> /\ req[p].stage = "auth"
      BY <1>1 DEF PutStart, records
    <2> HIDE DEF n
    <2> QED BY <2>1, <2>2, QuietFiles
  <1>2. CASE \E ok \in BOOLEAN : WriteBlob(p, ok)
    BY <1>2, WriteBlobFiles
  <1>3. CASE PutTx(p)
    <2>1. files' = files
      BY <1>3 DEF PutTx
    <2> QED BY <1>3, <2>1, PutTxFiles
  <1>4. CASE TxFails(p)
    <2>1. /\ r.stage \in {"putTx", "partTx"} /\ Cleanup(p, {r.blob})
          /\ UNCHANGED <<objects, parts, bucket, files>>
      BY <1>4 DEF TxFails, records
    <2>2. {r.blob} \in SUBSET Nat
      BY <1>a DEF Request
    <2>3. /\ \A o \in objects : \A y \in o.blobs : NamedIn(objects', parts', o.bucket, y)
          /\ \A y \in parts : NamedIn(objects', parts', y.bucket, y.blob)
      BY <2>1 DEF NamedIn
    <2>4. HeldBy(req[p], b, x) => x \in {r.blob}
      BY <2>1 DEF HeldBy, LInv, AllTidy, Tidy
    <2> QED BY <2>1, <2>2, <2>3, <2>4, HandedOver
  <1>5. ASSUME NEW y \in r.del, NEW ok \in BOOLEAN, DeleteBlob(p, y, ok) PROVE AccountedNext(b, x)
    <2>1. /\ r.stage = "cleanup" /\ Cleanup(p, r.del \ {y}) /\ UNCHANGED <<objects, parts, bucket>>
      BY <1>5 DEF DeleteBlob, records
    <2>2. files' = files \ {<<r.bucket, y>>}
      <3>1. ok
        BY <1>5, <1>a DEF DeleteBlob
      <3> QED BY <1>5, <3>1 DEF DeleteBlob
    <2>3. r.del \ {y} \in SUBSET Nat
      BY <1>a DEF Request
    <2>4. /\ \A o \in objects : \A z \in o.blobs : NamedIn(objects', parts', o.bucket, z)
          /\ \A z \in parts : NamedIn(objects', parts', z.bucket, z.blob)
      BY <2>1 DEF NamedIn
    <2>5. <<b, x>> \in files /\ x # 0
      BY <2>2 DEF Filed
    <2>6. HeldBy(req[p], b, x) => x \in r.del \ {y}
      BY <2>1, <2>2, <2>5 DEF HeldBy, LInv, AllTidy, Tidy
    <2> QED BY <2>1, <2>3, <2>4, <2>5, <2>6, HandedOver
  <1>6. ASSUME NEW o \in objects, RemoveVersion(o), Cleanup(p, o.blobs), o.bucket = r.bucket, r.stage = "auth",
               UNCHANGED <<bucket, parts, files>>
        PROVE  AccountedNext(b, x)
    <2>1. \A v \in objects : v \in objects' \/ (v.bucket = req[p].bucket /\ v.blobs \subseteq o.blobs)
      BY <1>6 DEF RemoveVersion, LInv, Sequenced, SameSlot
    <2> QED BY <1>6, <1>b, <2>1, VersionsHandedOver
  <1>7. CASE \E o \in objects, bypass \in BOOLEAN : DeleteVersion(p, o, bypass)
    BY <1>6, <1>7 DEF DeleteVersion
  <1>8. CASE \E o \in objects, bypass \in BOOLEAN : DeleteUnversioned(p, o, bypass)
    BY <1>6, <1>8 DEF DeleteUnversioned, IsLatest, Versions
  <1>9. ASSUME NEW k \in Keys, DeleteEnabled(p, k) PROVE AccountedNext(b, x)
    <2> DEFINE o == Marker(r.bucket, k, FALSE, clock')
    <2>1. r.stage = "auth" /\ Tick /\ PutVersion(o) /\ Finish(p) /\ UNCHANGED <<bucket, parts, files>>
      BY <1>9 DEF DeleteEnabled
    <2>2. FreshPut(o)
      BY <1>9, <2>1, MarkerFresh
    <2>3. ~o.null
      BY DEF Marker
    <2> HIDE DEF o
    <2>4. \A v \in objects : v \in objects'
      BY <2>2, <2>3, FreshPutObjects
    <2> QED BY <1>d, <2>1, <2>4, VersionsHandedOver
  <1>10. ASSUME NEW k \in Keys, NEW bypass \in BOOLEAN, DeleteSuspended(p, k, bypass) PROVE AccountedNext(b, x)
    <2> DEFINE o == Marker(r.bucket, k, TRUE, clock')
               d == Blobs(NullVersion(r.bucket, k))
    <2>1. /\ r.stage = "auth" /\ Tick /\ PutVersion(o) /\ Cleanup(p, d) /\ UNCHANGED <<bucket, parts, files>>
          /\ bucket[r.bucket].versioning = "Suspended"
      BY <1>10 DEF DeleteSuspended
    <2>2. FreshPut(o)
      BY <1>10, <2>1, MarkerFresh
    <2>3. Replaced(o) = NullVersion(r.bucket, k) /\ o.bucket = r.bucket
      BY DEF Marker, Replaced
    <2>4. d \in SUBSET Nat
      BY <1>a, VersionTypes
    <2> HIDE DEF o
    <2>5. \A v \in objects : v \in objects' \/ (v \in Replaced(o) /\ v.bucket = r.bucket)
      BY <2>2, <2>3, FreshPutObjects
    <2>6. \A v \in Replaced(o) : v.blobs \subseteq d
      BY <2>3 DEF Blobs
    <2> HIDE DEF d
    <2> QED BY <2>1, <2>4, <2>5, <2>6, VersionsHandedOver
  <1>11. CASE LockStart(p)
    <2> DEFINE n == [r EXCEPT !.stage = "lock"]
    <2>1. n.stage = "lock"
      BY <1>a DEF Request
    <2>2. Become(p, n) /\ UNCHANGED <<objects, parts, bucket, files>> /\ req[p].stage = "auth"
      BY <1>11 DEF LockStart, records
    <2> HIDE DEF n
    <2> QED BY <2>1, <2>2, QuietFiles
  <1>12. ASSUME NEW o \in objects, NEW n, UpdateVersion(p, o, n), n.bucket = o.bucket, n.blobs = o.blobs
         PROVE  AccountedNext(b, x)
    <2>1. /\ objects' = (objects \ {o}) \cup {n} /\ Finish(p) /\ r.stage = "lock"
          /\ UNCHANGED <<bucket, parts, files>>
      BY <1>12 DEF UpdateVersion
    <2>2. /\ \A v \in objects : \A y \in v.blobs : NamedIn(objects', parts', v.bucket, y)
          /\ \A y \in parts : NamedIn(objects', parts', y.bucket, y.blob)
      BY <1>12, <2>1 DEF NamedIn
    <2>3. ~HeldBy(req[p], b, x)
      BY <2>1, HoldsNone DEF Filed
    <2> QED BY <1>d, <2>1, <2>2, <2>3, HandedOver
  <1>13. ASSUME NEW o \in objects, NEW on \in BOOLEAN, PutObjectLegalHold(p, o, on) PROVE AccountedNext(b, x)
    <2> DEFINE n == [o EXCEPT !.hold = on]
    <2>1. n.bucket = o.bucket /\ n.blobs = o.blobs
      BY <1>a DEF Version
    <2>2. UpdateVersion(p, o, n)
      BY <1>13 DEF PutObjectLegalHold
    <2> HIDE DEF n
    <2> QED BY <1>12, <2>1, <2>2
  <1>14. ASSUME NEW o \in objects, NEW t \in Retentions, NEW bypass \in BOOLEAN, PutObjectRetention(p, o, t, bypass)
         PROVE  AccountedNext(b, x)
    <2> DEFINE n == [o EXCEPT !.ret = t]
    <2>1. n.bucket = o.bucket /\ n.blobs = o.blobs
      BY <1>a DEF Version
    <2>2. UpdateVersion(p, o, n)
      BY <1>14 DEF PutObjectRetention
    <2> HIDE DEF n
    <2> QED BY <1>12, <2>1, <2>2
  <1> QED BY <1>1, <1>2, <1>3, <1>4, <1>5, <1>7, <1>8, <1>9, <1>10, <1>11, <1>13, <1>14 DEF ObjectStep

\* CompleteUpload hands the parts it used to the version, and the others with
\* the files of the version it replaced to the clean-up.
LEMMA CompleteTxFiles ==
  ASSUME LInv, Filed, faults = 0, NEW p \in Reqs, CompleteTx(p),
         NEW b \in Buckets, NEW x \in Nat, <<b, x>> \in files
  PROVE  AccountedNext(b, x)
  <1> DEFINE r == req[p]
             o == CompletedVersion(r)
             own == PartsOf(r.bucket, r.upload)
             d == (PartBlobs(own) \ PartBlobs(Assembled(r))) \cup Blobs(Replaced(o))
  <1>1. r \in Request /\ o \in Version
    <2>1. FreshPut(o)
      BY CompleteTxFresh
    <2> QED BY <2>1 DEF FreshPut, LInv, IInv, TypeOK
  <1>2. d \in SUBSET Nat
    BY <1>1, VersionTypes, UploadTypes DEF LInv, IInv
  <1>3. FreshPut(o)
    BY CompleteTxFresh
  <1>4. o.bucket = r.bucket /\ o.blobs = PartBlobs(Assembled(r))
    <2> DEFINE w == [r EXCEPT !.blob = clock']
               v == NewVersion(w)
    <2>1. w.bucket = r.bucket
      BY <1>1 DEF Request
    <2> HIDE DEF w
    <2>2. o = [v EXCEPT !.blobs = PartBlobs(Assembled(r))]
      BY DEF CompletedVersion, w
    <2> HIDE DEF o
    <2> QED BY <2>1, <2>2 DEF NewVersion
  <1>5. /\ r.stage = "completeTx" /\ Cleanup(p, d) /\ bucket' = bucket
        /\ parts' = parts \ own
    BY DEF CompleteTx, CompletedVersion, RemoveUpload
  <1> HIDE DEF o
  <1>6. o \in objects' /\ \A v \in objects : v \in objects' \/ (v \in Replaced(o) /\ v.bucket = o.bucket)
    BY <1>3, FreshPutObjects
  <1>7. \A v \in Replaced(o) : v.blobs \subseteq d
    BY DEF Blobs
  <1>8. \A v \in objects : \A y \in v.blobs :
          NamedIn(objects', parts', v.bucket, y) \/ (v.bucket = req[p].bucket /\ y \in d)
    BY <1>4, <1>6, <1>7 DEF NamedIn
  <1>9. ASSUME NEW y \in parts
        PROVE  NamedIn(objects', parts', y.bucket, y.blob) \/ (y.bucket = req[p].bucket /\ y.blob \in d)
    <2>1. CASE y \in own
      <3>1. y.bucket = r.bucket /\ y.blob \in PartBlobs(own)
        BY <2>1 DEF PartsOf, PartBlobs
      <3> QED BY <1>4, <1>6, <3>1 DEF NamedIn
    <2>2. CASE y \notin own
      BY <1>5, <2>2 DEF NamedIn
    <2> QED BY <2>1, <2>2
  <1>10. ~HeldBy(req[p], b, x)
    BY <1>5, HoldsNone DEF Filed
  <1> HIDE DEF d
  <1> QED BY <1>2, <1>5, <1>8, <1>9, <1>10, HandedOver

\* The steps of the upload operations.
LEMMA UploadStepFiles ==
  ASSUME LInv, Filed, faults = 0, NEW p \in Reqs, UploadStep(p),
         NEW b \in Buckets, NEW x \in Nat, <<b, x>> \in files'
  PROVE  AccountedNext(b, x)
  <1> DEFINE r == req[p]
  <1>a. TypeOK /\ r \in Request /\ r.bucket \in Buckets
    BY SMTT(20) DEF LInv, IInv, TypeOK, Request
  <1>b. <<b, x>> \in files
    BY DEF UploadStep, UploadStart, CreateUpload, PartStart, PartTx, CompleteStart, CompleteBucket,
           CompleteTx, AbortUpload
  <1>c. Idle.stage # "drop"
    BY DEF Idle
  <1>1. ASSUME NEW k \in Keys, NEW h \in Locking, NEW t \in Retentions, UploadStart(p, k, h, t)
        PROVE  AccountedNext(b, x)
    <2> DEFINE n == [r EXCEPT !.stage = "mpu", !.key = k, !.hold = h, !.ret = t]
    <2>1. n.stage = "mpu"
      BY <1>a DEF Request
    <2>2. Become(p, n) /\ UNCHANGED <<objects, parts, bucket>> /\ req[p].stage = "auth"
      BY <1>1 DEF UploadStart, records
    <2> HIDE DEF n
    <2> QED BY <1>b, <2>1, <2>2, QuietFiles
  <1>2. CASE CreateUpload(p)
    <2>1. Become(p, Idle) /\ UNCHANGED <<objects, parts, bucket>> /\ req[p].stage = "mpu"
      BY <1>2 DEF CreateUpload, Finish
    <2> QED BY <1>b, <1>c, <2>1, QuietFiles
  <1>3. ASSUME NEW u \in uploads, NEW m \in PartNumbers, PartStart(p, u, m) PROVE AccountedNext(b, x)
    <2> DEFINE n == [r EXCEPT !.stage = "part", !.key = u.key, !.upload = u.id, !.number = m]
    <2>1. n.stage = "part"
      BY <1>a DEF Request
    <2>2. Become(p, n) /\ UNCHANGED <<objects, parts, bucket>> /\ req[p].stage = "auth"
      BY <1>3 DEF PartStart, records
    <2> HIDE DEF n
    <2> QED BY <1>b, <2>1, <2>2, QuietFiles
  <1>4. CASE PartTx(p)
    <2> DEFINE old == {y \in PartsOf(r.bucket, r.upload) : y.number = r.number}
               n == [bucket |-> r.bucket, upload |-> r.upload, number |-> r.number, blob |-> r.blob]
               d == PartBlobs(old)
    <2>1. /\ r.stage = "partTx" /\ parts' = (parts \ old) \cup {n} /\ Cleanup(p, d)
          /\ UNCHANGED <<bucket, objects>>
      BY <1>4 DEF PartTx
    <2>2. d \in SUBSET Nat
      BY <1>a, UploadTypes DEF PartBlobs
    <2>3. n.bucket = r.bucket /\ n.blob = r.blob
      OBVIOUS
    <2> HIDE DEF n
    <2>4. \A o \in objects : \A y \in o.blobs : NamedIn(objects', parts', o.bucket, y)
      BY <2>1 DEF NamedIn
    <2>5. ASSUME NEW y \in parts
          PROVE  NamedIn(objects', parts', y.bucket, y.blob) \/ (y.bucket = req[p].bucket /\ y.blob \in d)
      BY <2>1 DEF NamedIn, PartsOf, PartBlobs
    <2>6. HeldBy(req[p], b, x) => NamedIn(objects', parts', b, x)
      BY <2>1, <2>3 DEF HeldBy, NamedIn, LInv, AllTidy, Tidy
    <2> HIDE DEF d
    <2> QED BY <1>b, <2>1, <2>2, <2>4, <2>5, <2>6, HandedOver
  <1>5. ASSUME NEW u \in uploads, NEW want \in SUBSET PartNumbers, NEW c \in Conditions,
               CompleteStart(p, u, want, c)
        PROVE  AccountedNext(b, x)
    <2> DEFINE n == [r EXCEPT !.stage = "complete", !.key = u.key, !.upload = u.id,
                       !.hold = u.hold, !.ret = u.ret, !.want = want, !.create = c,
                       !.present = c /\ ~Absent(u.bucket, u.key)]
    <2>1. n.stage = "complete"
      BY <1>a DEF Request
    <2>2. Become(p, n) /\ UNCHANGED <<objects, parts, bucket>> /\ req[p].stage = "auth"
      BY <1>5 DEF CompleteStart, records
    <2> HIDE DEF n
    <2> QED BY <1>b, <2>1, <2>2, QuietFiles
  <1>6. CASE CompleteBucket(p)
    <2> DEFINE n == [r EXCEPT !.stage = "completeTx", !.seen = bucket[r.bucket].created]
    <2>1. n.stage = "completeTx"
      BY <1>a DEF Request
    <2>2. Become(p, n) /\ UNCHANGED <<objects, parts, bucket>> /\ req[p].stage = "complete"
      BY <1>6 DEF CompleteBucket, records
    <2> HIDE DEF n
    <2> QED BY <1>b, <2>1, <2>2, QuietFiles
  <1>7. CASE CompleteTx(p)
    BY <1>7, <1>b, CompleteTxFiles
  <1>8. ASSUME NEW u \in uploads, AbortUpload(p, u) PROVE AccountedNext(b, x)
    <2> DEFINE own == PartsOf(u.bucket, u.id)
               d == PartBlobs(own)
    <2>1. /\ r.stage = "auth" /\ parts' = parts \ own /\ Cleanup(p, d) /\ u.bucket = r.bucket
          /\ UNCHANGED <<bucket, objects>>
      BY <1>8 DEF AbortUpload, RemoveUpload
    <2>2. d \in SUBSET Nat
      BY <1>a, UploadTypes
    <2>4. \A o \in objects : \A y \in o.blobs : NamedIn(objects', parts', o.bucket, y)
      BY <2>1 DEF NamedIn
    <2>5. ASSUME NEW y \in parts
          PROVE  NamedIn(objects', parts', y.bucket, y.blob) \/ (y.bucket = req[p].bucket /\ y.blob \in d)
      BY <2>1 DEF NamedIn, PartsOf, PartBlobs
    <2>6. ~HeldBy(req[p], b, x)
      BY <1>b, <2>1, HoldsNone DEF Filed
    <2> HIDE DEF d
    <2> QED BY <1>b, <2>1, <2>2, <2>4, <2>5, <2>6, HandedOver
  <1> QED BY <1>1, <1>2, <1>3, <1>4, <1>5, <1>6, <1>7, <1>8 DEF UploadStep

\* Faults are counted and never taken back.
LEMMA FaultsStep ==
  ASSUME LInv, [Next]_vars, faults' = 0 PROVE faults = 0
  <1>a. faults \in Nat
    BY DEF LInv, IInv, TypeOK
  <1>1. ASSUME NEW p \in Reqs, BucketStep(p) PROVE faults' = faults \/ faults' = faults + 1
    BY <1>1 DEF BucketStep, Authorize, ReturnEarly, PutBucketVersioning, PutObjectLockConfig, DeleteBucket,
                DeleteBucketForce, RemoveFile, RemoveDone, RemoveFails, DropRecord
  <1>2. ASSUME NEW p \in Reqs, ObjectStep(p) PROVE faults' = faults \/ faults' = faults + 1
    BY <1>2 DEF ObjectStep, PutStart, WriteBlob, PutTx, TxFails, DeleteBlob, DeleteVersion, DeleteEnabled,
                DeleteSuspended, DeleteUnversioned, LockStart, PutObjectLegalHold, PutObjectRetention,
                UpdateVersion
  <1>3. ASSUME NEW p \in Reqs, UploadStep(p) PROVE faults' = faults
    BY <1>3 DEF UploadStep, UploadStart, CreateUpload, PartStart, PartTx, CompleteStart, CompleteBucket,
                CompleteTx, AbortUpload
  <1>4. ASSUME \/ \E b \in Buckets, lock \in Locking : CreateBucket(b, lock)
               \/ \E o \in objects : RetentionExpires(o)
               \/ Crash
               \/ \E p \in Reqs, b \in Buckets : FinishDeletes(p, b)
               \/ Serve
               \/ UNCHANGED vars
        PROVE  faults' = faults \/ faults' = faults + 1
    BY <1>4 DEF CreateBucket, RetentionExpires, Crash, FinishDeletes, Serve, vars
  <1> QED BY <1>a, <1>1, <1>2, <1>3, <1>4 DEF Next

\* Without faults every step keeps every file accounted for.
LEMMA FiledStep ==
  ASSUME LInv, Filed, [Next]_vars, IInv' PROVE Filed'
  <1>a. clock \in Nat /\ clock' \in Nat /\ clock <= clock' /\ bucket \in [Buckets -> Bucket] /\ TypeOK
    BY ClockStep DEF LInv, IInv, TypeOK
  <1>1. \A b \in Buckets, x \in Nat : <<b, x>> \in files' => x # 0 /\ x <= clock'
    BY <1>a, FilesStep DEF Filed
  <1>2. ASSUME NEW b \in Buckets, NEW x \in Nat, <<b, x>> \in files', faults' = 0 PROVE AccountedNext(b, x)
    <2>a. faults = 0
      BY <1>2, FaultsStep
    <2>1. CASE \E p \in Reqs : BucketStep(p) \/ ObjectStep(p) \/ UploadStep(p)
      BY <1>2, <2>a, <2>1, BucketStepFiles, ObjectStepFiles, UploadStepFiles
    <2>2. ASSUME NEW c \in Buckets, NEW lock \in Locking, CreateBucket(c, lock) PROVE AccountedNext(b, x)
      <3>1. UNCHANGED <<objects, parts, files, req>>
        BY <2>2 DEF CreateBucket
      <3>2. ~bucket[c].deleting /\ \A d \in Buckets : d # c => bucket'[d] = bucket[d]
        BY <1>a, <2>2 DEF CreateBucket, Filed
      <3>3. DoomedIn(bucket, req, b) => DoomedIn(bucket', req', b)
        BY <3>1, <3>2 DEF DoomedIn
      <3>4. Accounted(b, x)
        BY <1>2, <2>a, <3>1 DEF Filed
      <3> QED BY <3>1, <3>3, <3>4 DEF Accounted, AccountedNext
    <2>3. ASSUME NEW o \in objects, RetentionExpires(o) PROVE AccountedNext(b, x)
      <3> DEFINE n == [o EXCEPT !.ret = "none"]
      <3>1. n.bucket = o.bucket /\ n.blobs = o.blobs
        BY <1>a DEF TypeOK, Version
      <3>2. objects' = (objects \ {o}) \cup {n} /\ UNCHANGED <<bucket, parts, files, req>>
        BY <2>3 DEF RetentionExpires
      <3> HIDE DEF n
      <3>3. NamedIn(objects, parts, b, x) => NamedIn(objects', parts', b, x)
        BY <3>1, <3>2 DEF NamedIn
      <3>4. Accounted(b, x)
        BY <1>2, <2>a, <3>2 DEF Filed
      <3> QED BY <3>2, <3>3, <3>4 DEF Accounted, AccountedNext
    <2>4. CASE Crash
      BY <1>2, <2>4, <2>a DEF Crash
    <2>5. ASSUME NEW p \in Reqs, NEW c \in Buckets, FinishDeletes(p, c) PROVE AccountedNext(b, x)
      <3> DEFINE n == [Idle EXCEPT !.stage = "remove", !.bucket = c]
      <3>1. n.stage = "remove"
        BY DEF Idle
      <3>2. Become(p, n) /\ req[p].stage = "idle" /\ UNCHANGED <<objects, parts, files, bucket>>
        BY <2>5 DEF FinishDeletes, records
      <3> HIDE DEF n
      <3> QED BY <1>2, <2>a, <3>1, <3>2, QuietFiles
    <2>6. CASE Serve \/ UNCHANGED vars
      <3>1. UNCHANGED <<objects, parts, files, req, bucket>>
        BY <2>6 DEF Serve, vars, records
      <3>2. Accounted(b, x)
        BY <1>2, <2>a, <3>1 DEF Filed
      <3> QED BY <3>1, <3>2 DEF Accounted, AccountedNext
    <2> QED BY <2>1, <2>2, <2>3, <2>4, <2>5, <2>6 DEF Next
  <1>3. \A b \in Buckets : bucket'[b].deleting => bucket'[b].created # 0
    BY DeletingStep
  <1> QED BY <1>1, <1>2, <1>3 DEF Filed, Exists, Accounted, AccountedNext, NamedIn, HeldBy, DoomedIn

\* While nothing has crashed and no removal has failed, every data file is
\* named by a record, held by the request that wrote it or removes it, or in a
\* bucket whose directory is being removed: no path of the service forgets one.
THEOREM NoLeak == Spec => []NoLeakedBlob
  <1>1. Init => Filed
    BY DEF Init, Filed, NoBucket, Exists
  <1>2. LInv /\ Filed /\ [Next]_vars => Filed'
    BY NextIInv, FiledStep DEF LInv
  <1>3. LInv /\ Filed => NoLeakedBlob
    <2> SUFFICES ASSUME LInv, Filed, faults = 0, NEW f \in files
                 PROVE  \/ Referenced(f[1], f[2])
                        \/ \E p \in Reqs : req[p].bucket = f[1] /\ (req[p].blob = f[2] \/ f[2] \in req[p].del)
                        \/ bucket[f[1]].deleting
      BY DEF NoLeakedBlob
    <2>1. f[1] \in Buckets /\ f[2] \in Nat /\ f = <<f[1], f[2]>>
      BY DEF LInv, IInv, TypeOK
    <2>2. Accounted(f[1], f[2])
      BY <2>1 DEF Filed
    <2> QED BY <2>2 DEF Accounted, NamedIn, HeldBy, DoomedIn, Referenced
  <1> QED BY <1>1, <1>2, <1>3, LInvHolds, PTL DEF Spec
=============================================================================
