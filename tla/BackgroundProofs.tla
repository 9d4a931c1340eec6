-------------------------- MODULE BackgroundProofs --------------------------
(***************************************************************************)
(* Proofs about what goes on beside the requests.                           *)
(*                                                                         *)
(* What an operator does to a server's files: CertReload, for any number of *)
(* certificates, writes and restarts, and Fsck, for any buckets, keys,      *)
(* uploads and files.                                                       *)
(*                                                                         *)
(* Notify, for any handlers, workers, limits and bounds: the safety of      *)
(* Close, the limit of the queue directory, that no wake-up is lost, the    *)
(* order of deliveries, and that the persistent queue implements            *)
(* DurableQueue.                                                            *)
(***************************************************************************)
EXTENDS CertReload, Fsck, Notify, FiniteSetTheorems, TLAPS

-----------------------------------------------------------------------------
(* CertReload: the inductive invariant *)

Loads == {"idle", "cert", "key", "generate", "write", "stat", "failed", "down"}

Loader == [pc: Loads, cert: Nat, key: Nat, issue: Nat, torn: BOOLEAN, starting: BOOLEAN]

CertTypeOK ==
  /\ certFile \in [holds: Nat, at: Nat] /\ keyFile \in [holds: Nat, at: Nat]
  /\ writes \in Nat /\ issued \in Nat
  /\ cur \in [issue: Nat, stat: Nat \X Nat]
  /\ loader \in Loader
  /\ torn \in BOOLEAN

\* The identity of the certificate file is that of a write so far, so that the
\* next write gives it another one.
WritesOK == certFile.at <= writes /\ (certFile.holds # 0 => certFile.at # 0)

\* A load that nobody disturbed has in hand what the file holds.
LoadOK ==
  ~loader.torn =>
    /\ loader.pc = "key" => loader.cert = certFile.holds
    /\ loader.pc = "stat" => loader.issue = certFile.holds /\ certFile.at # 0

\* The certificate in service has the leaf of the file, while the file is the
\* one it was loaded from: a file written since has another identity.
ServedOK ==
  cur # NoCert /\ ~torn =>
    /\ cur.stat[1] # 0 /\ cur.stat[1] <= writes
    /\ cur.stat[1] = certFile.at => LeafOf(cur.issue) = LeafOf(certFile.holds)

CertInv == CertTypeOK /\ WritesOK /\ LoadOK /\ ServedOK

-----------------------------------------------------------------------------
(* CertReload: steps *)

\* Before anything is served.
LEMMA NothingServed == NoCert \in [issue: Nat, stat: Nat \X Nat]
  BY DEF NoCert

\* The loader between two loads, at the start of one, and of the server's.
LEMMA Loaders ==
  ASSUME NEW n, n \in {IdleLoader, [IdleLoader EXCEPT !.pc = "cert"],
                       [IdleLoader EXCEPT !.pc = "cert", !.starting = TRUE]}
  PROVE  n \in Loader /\ n.pc \in {"idle", "cert"}
  <1>1. CASE n = IdleLoader
    BY <1>1 DEF IdleLoader, Loader, Loads
  <1>2. CASE n = [IdleLoader EXCEPT !.pc = "cert"]
    BY <1>2 DEF IdleLoader, Loader, Loads
  <1>3. CASE n = [IdleLoader EXCEPT !.pc = "cert", !.starting = TRUE]
    <2> DEFINE m == [IdleLoader EXCEPT !.pc = "cert"]
    <2>1. m \in Loader /\ m.pc = "cert"
      BY DEF IdleLoader, Loader, Loads
    <2>2. n = [m EXCEPT !.starting = TRUE]
      BY <1>3
    <2> HIDE DEF m
    <2> QED BY <2>1, <2>2 DEF Loader
  <1> QED BY <1>1, <1>2, <1>3

\* It holds when the server is started for the first time.
LEMMA InitCertInv == TInit => CertInv
  <1> SUFFICES ASSUME TInit PROVE CertInv
    OBVIOUS
  <1>1. loader \in Loader /\ loader.pc \in {"idle", "cert"}
    BY Loaders DEF TInit
  <1>2. cur = NoCert /\ torn = FALSE /\ certFile = [holds |-> 1, at |-> 1] /\ keyFile = [holds |-> 1, at |-> 2]
        /\ writes = 2 /\ issued = 1
    BY DEF TInit
  <1>3. CertTypeOK
    BY <1>1, <1>2, NothingServed DEF CertTypeOK
  <1> QED BY <1>1, <1>2, <1>3 DEF CertInv, WritesOK, LoadOK, ServedOK

\* A step that leaves the files and the certificate in service alone keeps
\* what is known of them.
LEMMA OnlyLoads ==
  ASSUME CertInv, UNCHANGED <<source, certFile, cur, torn>>, writes' \in Nat, writes <= writes'
  PROVE  WritesOK' /\ ServedOK'
  BY DEF CertInv, CertTypeOK, WritesOK, ServedOK, LeafOf

\* tls.LoadX509KeyPair and what follows it.
LEMMA ReadStep == ASSUME CertInv, ReadCert \/ ReadKey PROVE CertInv'
  <1>1. UNCHANGED <<source, certFile, keyFile, writes, issued, cur, torn>>
    BY DEF ReadCert, ReadKey, FilesUnchanged
  <1>2. WritesOK' /\ ServedOK'
    BY <1>1, OnlyLoads DEF CertInv, CertTypeOK
  <1>3. CASE ReadCert
    <2>1. CertTypeOK' /\ LoadOK'
      BY <1>1, <1>3 DEF ReadCert, CertInv, CertTypeOK, LoadOK, Loader, Loads
    <2> QED BY <1>2, <2>1 DEF CertInv
  <1>4. CASE ReadKey
    <2>1. PICK fresh \in BOOLEAN, pc \in Loads :
            /\ loader.pc = "key"
            /\ loader' = [loader EXCEPT !.key = keyFile.holds, !.issue = IF fresh THEN loader.cert ELSE 0, !.pc = pc]
            /\ pc = "stat" => fresh /\ loader.cert # 0
            /\ pc # "key"
      BY <1>4 DEF ReadKey, Loads
    <2>2. CertTypeOK'
      BY <1>1, <2>1 DEF CertInv, CertTypeOK, Loader
    <2>3. LoadOK'
      BY <1>1, <2>1 DEF CertInv, CertTypeOK, LoadOK, WritesOK
    <2> QED BY <1>2, <2>2, <2>3 DEF CertInv
  <1> QED BY <1>3, <1>4

\* writeSelfSigned
LEMMA WriteStep == ASSUME CertInv, WriteKey \/ WriteCert PROVE CertInv'
  <1>1. CASE WriteKey
    <2> DEFINE n == [loader EXCEPT !.pc = "write", !.issue = issued + 1]
    <2>a. loader' = n /\ UNCHANGED <<certFile, cur, torn>> /\ writes' = writes + 1 /\ issued' = issued + 1
          /\ keyFile' = [holds |-> KeyOf(issued + 1), at |-> writes + 1]
      BY <1>1 DEF WriteKey
    <2>b. n \in Loader /\ n.pc = "write"
      <3> DEFINE m == [loader EXCEPT !.pc = "write"]
      <3>1. m \in Loader /\ m.pc = "write"
        BY DEF CertInv, CertTypeOK, Loader, Loads
      <3>2. n = [m EXCEPT !.issue = issued + 1]
        OBVIOUS
      <3> HIDE DEF m, n
      <3> QED BY <3>1, <3>2 DEF CertInv, CertTypeOK, Loader
    <2> HIDE DEF n
    <2>c. KeyOf(issued + 1) \in Nat
      BY DEF CertInv, CertTypeOK, KeyOf
    <2>d. keyFile' \in [holds: Nat, at: Nat]
      BY <2>a, <2>c DEF CertInv, CertTypeOK
    <2>1. CertTypeOK' /\ LoadOK'
      BY <2>a, <2>b, <2>d DEF CertInv, CertTypeOK, LoadOK
    <2>2. WritesOK' /\ ServedOK'
      BY <1>1, OnlyLoads DEF WriteKey, CertInv, CertTypeOK
    <2> QED BY <2>1, <2>2 DEF CertInv
  <1>2. CASE WriteCert
    <2> DEFINE n == [loader EXCEPT !.pc = "stat", !.torn = FALSE]
    <2>a. loader' = n /\ UNCHANGED <<keyFile, issued, cur, torn>> /\ writes' = writes + 1
          /\ certFile' = [holds |-> loader.issue, at |-> writes + 1]
      BY <1>2 DEF WriteCert
    <2>b. n \in Loader /\ n.pc = "stat" /\ n.issue = loader.issue
      <3> DEFINE m == [loader EXCEPT !.pc = "stat"]
      <3>1. m \in Loader /\ m.pc = "stat" /\ m.issue = loader.issue
        BY DEF CertInv, CertTypeOK, Loader, Loads
      <3>2. n = [m EXCEPT !.torn = FALSE]
        OBVIOUS
      <3> HIDE DEF m, n
      <3> QED BY <3>1, <3>2 DEF Loader
    <2> HIDE DEF n
    <2>1. CertTypeOK' /\ WritesOK' /\ LoadOK'
      BY <2>a, <2>b DEF CertInv, CertTypeOK, Loader, LoadOK, WritesOK
    <2>2. ServedOK'
      BY <1>2 DEF WriteCert, CertInv, CertTypeOK, ServedOK
    <2> QED BY <2>1, <2>2 DEF CertInv
  <1> QED BY <1>1, <1>2

\* reload swaps the certificate in, or finds its leaf in service.
LEMMA SwapStep == ASSUME CertInv, Swap PROVE CertInv'
  <1>1. /\ loader.pc = "stat" /\ torn' = loader.torn /\ loader' = IdleLoader
        /\ UNCHANGED <<source, certFile, keyFile, writes, issued>>
    BY DEF Swap, FilesUnchanged
  <1>2. PICK i \in Nat : /\ cur' = [issue |-> i, stat |-> <<certFile.at, keyFile.at>>]
                        /\ LeafOf(i) = LeafOf(loader.issue)
    <2>1. CASE LeafOf(cur.issue) = LeafOf(loader.issue)
      <3>1. cur' = [issue |-> cur.issue, stat |-> <<certFile.at, keyFile.at>>]
        BY <2>1 DEF Swap, CertInv, CertTypeOK, StatPair
      <3> QED BY <2>1, <3>1 DEF CertInv, CertTypeOK
    <2>2. CASE LeafOf(cur.issue) # LeafOf(loader.issue)
      <3>1. cur' = [issue |-> loader.issue, stat |-> <<certFile.at, keyFile.at>>]
        BY <2>2 DEF Swap, StatPair
      <3> QED BY <3>1 DEF CertInv, CertTypeOK, Loader
    <2> QED BY <2>1, <2>2
  <1>a. loader' \in Loader /\ loader'.pc \in {"idle", "cert"}
    BY <1>1, Loaders
  <1>b. cur' \in [issue: Nat, stat: Nat \X Nat] /\ torn' \in BOOLEAN
    BY <1>1, <1>2 DEF CertInv, CertTypeOK, Loader
  <1>3. CertTypeOK' /\ WritesOK' /\ LoadOK'
    BY <1>1, <1>a, <1>b DEF CertInv, CertTypeOK, LoadOK, WritesOK
  <1>4. LeafOf(i)' = LeafOf(i) /\ LeafOf(certFile.holds)' = LeafOf(certFile.holds)
    BY <1>1 DEF LeafOf
  <1>5. cur'.stat[1] = certFile.at /\ cur'.issue = i
    BY <1>2
  <1>6. ServedOK'
    BY <1>1, <1>2, <1>4, <1>5 DEF CertInv, CertTypeOK, LoadOK, WritesOK, ServedOK, LeafOf
  <1> QED BY <1>3, <1>6 DEF CertInv

\* A reload fails, is asked for, or the server starts again.
LEMMA CallStep ==
  ASSUME CertInv, ReloadFails \/ Poll \/ ReloadTLS \/ RestartTls PROVE CertInv'
  <1>1. UNCHANGED <<source, certFile, keyFile, writes, issued>>
    BY DEF ReloadFails, Poll, ReloadTLS, RestartTls, FilesUnchanged
  <1>2. \/ loader.pc = "failed" /\ loader' = [loader EXCEPT !.pc = "down"]
        \/ loader' = IdleLoader
        \/ loader' = [IdleLoader EXCEPT !.pc = "cert"]
        \/ loader' = [IdleLoader EXCEPT !.pc = "cert", !.starting = TRUE]
    BY DEF ReloadFails, Poll, ReloadTLS, RestartTls, Reload
  <1>3. UNCHANGED <<cur, torn>> \/ (cur' = NoCert /\ torn' = FALSE)
    BY DEF ReloadFails, Poll, ReloadTLS, RestartTls
  <1>a. loader' \in Loader /\ loader'.pc \in {"idle", "cert", "down"}
    <2>1. CASE loader.pc = "failed" /\ loader' = [loader EXCEPT !.pc = "down"]
      BY <2>1 DEF CertInv, CertTypeOK, Loader, Loads
    <2> QED BY <1>2, <2>1, Loaders
  <1>b. cur' \in [issue: Nat, stat: Nat \X Nat] /\ torn' \in BOOLEAN
    BY <1>3, NothingServed DEF CertInv, CertTypeOK
  <1>4. CertTypeOK' /\ LoadOK'
    BY <1>1, <1>a, <1>b DEF CertInv, CertTypeOK, LoadOK
  <1>5. WritesOK' /\ ServedOK'
    BY <1>1, <1>3 DEF CertInv, WritesOK, ServedOK, LeafOf
  <1> QED BY <1>4, <1>5 DEF CertInv

\* The operator replaces the key ...
LEMMA InstallKeyStep == ASSUME CertInv, NEW k \in Nat, InstallKey(k) PROVE CertInv'
  <1>1. UNCHANGED <<source, certFile, issued, cur, loader, torn>> /\ writes' = writes + 1
    BY DEF InstallKey
  <1>2. keyFile' \in [holds: Nat, at: Nat]
    BY DEF InstallKey, CertInv, CertTypeOK, NoFile
  <1>3. CertTypeOK' /\ LoadOK'
    BY <1>1, <1>2 DEF CertInv, CertTypeOK, LoadOK
  <1>4. WritesOK' /\ ServedOK'
    BY <1>1, OnlyLoads DEF CertInv, CertTypeOK
  <1> QED BY <1>3, <1>4 DEF CertInv

\* ... or the certificate.
LEMMA InstallCertStep == ASSUME CertInv, NEW c \in Nat, InstallCert(c) PROVE CertInv'
  <1> DEFINE t == loader.torn \/ loader.pc \in {"key", "stat"}
  <1>1. loader' = [loader EXCEPT !.torn = t] /\ UNCHANGED <<keyFile, issued, cur, torn>> /\ writes' = writes + 1
    BY DEF InstallCert, Tears
  <1>2. t \in BOOLEAN
    BY DEF CertInv, CertTypeOK
  <1>3. ~t => ~loader.torn /\ loader.pc \notin {"key", "stat"}
    OBVIOUS
  <1> HIDE DEF t
  <1>4. certFile' \in [holds: Nat, at: Nat]
    BY DEF InstallCert, CertInv, CertTypeOK, NoFile
  <1>5. CertTypeOK'
    BY <1>1, <1>2, <1>4 DEF CertInv, CertTypeOK, Loader
  <1>6. LoadOK'
    BY <1>1, <1>2, <1>3 DEF CertInv, CertTypeOK, LoadOK
  <1>7. certFile' = NoFile \/ (certFile'.holds = c /\ certFile'.at = writes + 1)
    BY DEF InstallCert
  <1>8. WritesOK' /\ ServedOK'
    BY <1>1, <1>7 DEF CertInv, CertTypeOK, WritesOK, ServedOK, NoFile
  <1> QED BY <1>5, <1>6, <1>8 DEF CertInv

\* Every step keeps the invariant.
LEMMA NextCertInv == ASSUME CertInv, [TNext]_tvars PROVE CertInv'
  <1>1. CASE UNCHANGED tvars
    BY <1>1 DEF tvars, CertInv, CertTypeOK, WritesOK, LoadOK, ServedOK, LeafOf
  <1>2. CASE Issue
    BY <1>2 DEF Issue, FilesUnchanged, CertInv, CertTypeOK, WritesOK, LoadOK, ServedOK, LeafOf
  <1>3. ASSUME NEW c, ExpireCert(c) PROVE CertInv'
    BY <1>3 DEF ExpireCert, FilesUnchanged, CertInv, CertTypeOK, WritesOK, LoadOK, ServedOK, LeafOf
  <1>4. ASSUME NEW c \in 0..issued, InstallCert(c) \/ InstallKey(c) PROVE CertInv'
    <2>1. c \in Nat
      BY DEF CertInv, CertTypeOK
    <2> QED BY <1>4, <2>1, InstallCertStep, InstallKeyStep
  <1> QED BY <1>1, <1>2, <1>3, <1>4, ReadStep, WriteStep, SwapStep, CallStep DEF TNext

\* The poll has the last word: whatever was written half, failed to load or
\* was asked for by a signal before, a certificate in service that check finds
\* nothing to do about has the leaf of the one in the file, unless that file
\* was replaced between its load and the look at its identity.
THEOREM PollHasLastWord == TSpec => []PollSeesChange
  <1>1. CertInv => PollSeesChange
    BY DEF CertInv, CertTypeOK, ServedOK, PollSeesChange, StatPair
  <1> QED BY <1>1, InitCertInv, NextCertInv, PTL DEF TSpec

-----------------------------------------------------------------------------
(* Fsck: the inductive invariant *)

FsckTypeOK ==
  /\ bstatus \in [FBuckets -> {"none", "live", "deleting"}]
  /\ versions \subseteq FVersion /\ pointers \subseteq Pointer /\ part \subseteq FPart
  /\ upload \subseteq FUpload /\ index \subseteq FUpload
  /\ data \in [File -> {"none", "ok", "short", "rotten"}]
  /\ stage \in {"idle", "repair", "done"}
  /\ scope \subseteq FBuckets

\* Losses and repairs only take from what the server left, or put back what
\* was there: a key has one null version and one pointer, an upload one index
\* entry, a file one owner, and a bucket being removed has no upload.
RecordsAgree ==
  /\ \A o, v \in versions : o.null /\ v.null /\ o.bucket = v.bucket /\ o.key = v.key => o = v
  /\ \A q, r \in pointers : q.bucket = r.bucket /\ q.key = r.key => q = r
  /\ \A u, w \in upload \cup index : u.bucket = w.bucket /\ u.id = w.id => u = w
  /\ \A x, y \in part : x.bucket = y.bucket /\ x.blob = y.blob => x = y
  /\ \A x \in part, o \in versions : x.bucket = o.bucket /\ x.blob = o.seq => o.marker
  /\ \A u \in upload : bstatus[u.bucket] # "deleting"

\* What is reported as superfluous is still superfluous when its turn comes,
\* although other problems have been dealt with in between.
Superfluous(p) ==
  /\ p.kind = "OrphanFile" => <<p.bucket, p.item>> \in File /\ <<p.bucket, p.item>> \notin Needed
  /\ p.kind = "DanglingNullPtr" =>
       \A o \in versions : ~(o.bucket = p.bucket /\ o.key = p.item /\ o.null)
  /\ p.kind \in {"DanglingUploadIdx", "OrphanPartRecords"} =>
       \A u \in upload : ~(u.bucket = p.bucket /\ u.id = p.item)
  /\ p.kind = "PartMissingFile" => p.item \in FPart /\ data[<<p.item.bucket, p.item.blob>>] = "none"
  /\ p.kind = "BucketDeleting" => \A u \in upload : u.bucket # p.bucket
  /\ p.kind \in {"BucketDeleting", "RecordWithoutBkt"} => p.bucket \in FBuckets

Justified == /\ \A p \in report : Superfluous(p)
             /\ \A f \in doomed : f \in File /\ f \notin Needed

\* Nothing is to do but while a repair is under way.
AtWork == stage # "repair" => report = {} /\ doomed = {}

\* The check has walked the bucket.
Walked(b) ==
  \/ bstatus[b] # "none"
  \/ \E p \in report : p.bucket = b /\ p.kind \in {"BucketDeleting", "RecordWithoutBkt"}

PtrTo(o) == [bucket |-> o.bucket, key |-> o.key, seq |-> o.seq]

\* Whatever is wrong is still on the list: superfluous files,
FilesListed ==
  \A f \in File : data[f] # "none" =>
    \/ f \in Needed \cup doomed
    \/ Problem("OrphanFile", f[1], f[2]) \in report
    \/ \E x \in part : /\ f = <<x.bucket, x.blob>>
                       /\ Problem("OrphanPartRecords", x.bucket, x.upload) \in report

\* buckets half removed, and records without a bucket,
BucketsListed ==
  /\ \A b \in FBuckets : bstatus[b] = "deleting" => Problem("BucketDeleting", b, b) \in report
  /\ \A o \in versions : Walked(o.bucket)
  /\ \A u \in upload : Walked(u.bucket)

\* pointers that are missing and that lead nowhere,
PointersListed ==
  /\ \A o \in versions : o.null =>
       PtrTo(o) \in pointers \/ Problem("MissingNullPtr", o.bucket, o.key) \in report
  /\ \A q \in pointers : Walked(q.bucket) =>
       \/ \E o \in versions : o.null /\ o.bucket = q.bucket /\ o.key = q.key
       \/ Problem("DanglingNullPtr", q.bucket, q.key) \in report

\* the same of the index,
IndexListed ==
  /\ \A u \in upload : u \in index \/ Problem("MissingUploadIdx", u.bucket, u.id) \in report
  /\ \A u \in index : Walked(u.bucket) =>
       \/ u \in upload
       \/ Problem("DanglingUploadIdx", u.bucket, u.id) \in report

\* and parts without an upload or a file.
PartsListed ==
  \A x \in part :
    /\ Walked(x.bucket) =>
         HasUpload(x) \/ Problem("OrphanPartRecords", x.bucket, x.upload) \in report
    /\ HasUpload(x) =>
         data[<<x.bucket, x.blob>>] # "none" \/ Problem("PartMissingFile", x.bucket, x) \in report

\* A repair of the whole directory has everything on its list.
Listed ==
  stage # "idle" /\ scope = FBuckets =>
    FilesListed /\ BucketsListed /\ PointersListed /\ IndexListed /\ PartsListed

FsckInv == FsckTypeOK /\ RecordsAgree /\ Justified /\ AtWork /\ Listed

-----------------------------------------------------------------------------
(* Fsck: problems, and what they are about *)

\* A problem is its kind, its bucket and its item.
LEMMA ProblemFields ==
  ASSUME NEW kind, NEW b, NEW item
  PROVE  /\ Problem(kind, b, item).kind = kind
         /\ Problem(kind, b, item).bucket = b
         /\ Problem(kind, b, item).item = item
  BY DEF Problem

\* Who deals with one problem leaves the others on the list.
LEMMA OthersStay ==
  ASSUME NEW p, report' = report \ {p}
  PROVE  \A kind, b, item : Problem(kind, b, item) \in report =>
           \/ Problem(kind, b, item) \in report'
           \/ p.kind = kind /\ p.bucket = b /\ p.item = item
  BY ProblemFields

\* What Needed is made of.
LEMMA NeededFiles ==
  ASSUME NEW b, NEW x
  PROVE  <<b, x>> \in Needed <=>
           \/ \E o \in versions : ~o.marker /\ o.bucket = b /\ o.seq = x
           \/ \E y \in part : HasUpload(y) /\ y.bucket = b /\ y.blob = x
  BY DEF Needed

\* Files and their names.
LEMMA Files == \A f \in File : f[1] \in FBuckets /\ f[2] \in Blobs /\ f = <<f[1], f[2]>>
  BY DEF File

\* While records go and none comes, no file becomes needed.
LEMMA NeededShrinks ==
  ASSUME versions' \subseteq versions, upload' \subseteq upload, part' \subseteq part
  PROVE  Needed' \subseteq Needed
  BY DEF Needed, HasUpload

\* The records agree, whatever goes.
LEMMA AgreeShrinks ==
  ASSUME RecordsAgree, versions' \subseteq versions, pointers' \subseteq pointers,
         upload' \subseteq upload, index' \subseteq index, part' \subseteq part,
         FsckTypeOK,
         \A b \in FBuckets : bstatus'[b] = "deleting" => bstatus[b] = "deleting"
  PROVE  RecordsAgree'
  <1>1. \A u \in upload : u.bucket \in FBuckets
    BY DEF FsckTypeOK, FUpload
  <1> QED BY <1>1 DEF RecordsAgree

-----------------------------------------------------------------------------
(* Fsck: a server's store, and what happens to it *)

\* What a server leaves agrees.
LEMMA InitFsckInv == FInit => FsckInv
  <1> SUFFICES ASSUME FInit PROVE FsckInv
    OBVIOUS
  <1>a. PICK role \in [File -> Roles], ups \in SUBSET FUpload, keyOf \in [Blobs -> FKeys] :
    /\ bstatus \in [FBuckets -> {"none", "live", "deleting"}]
    /\ \A b \in FBuckets, x \in Blobs : bstatus[b] = "none" => role[<<b, x>>] \in {"none", "orphan"}
    /\ \A u \in ups : bstatus[u.bucket] = "live"
    /\ \A u, v \in ups : u.bucket = v.bucket /\ u.id = v.id => u = v
    /\ \A b \in FBuckets, x, y \in Blobs :
         role[<<b, x>>] = "null" /\ role[<<b, y>>] = "null" /\ keyOf[x] = keyOf[y] => x = y
    /\ versions = {[bucket |-> f[1], key |-> keyOf[f[2]], seq |-> f[2],
                    null |-> role[f] = "null", marker |-> role[f] = "marker"] :
                     f \in {g \in File : role[g] \in {"version", "null", "marker"}}}
    /\ pointers = {[bucket |-> f[1], key |-> keyOf[f[2]], seq |-> f[2]] :
                     f \in {g \in File : role[g] = "null"}}
    /\ upload = ups
    /\ index = ups
    /\ broken = {}
    /\ \E owner \in [File -> FUploads] :
         /\ \A f \in File : role[f] = "part" =>
              \E u \in ups : u.bucket = f[1] /\ u.id = owner[f]
         /\ part = {[bucket |-> f[1], upload |-> owner[f], blob |-> f[2]] :
                      f \in {g \in File : role[g] = "part"}}
    /\ data = [f \in File |-> IF role[f] \in {"none", "marker"} THEN "none" ELSE "ok"]
    /\ stage = "idle"
    /\ scope = {}
    /\ report = {}
    /\ doomed = {}
    /\ losses = 0
    /\ stops = 0
    BY DEF FInit
  <1>1. PICK owner \in [File -> FUploads] :
          part = {[bucket |-> f[1], upload |-> owner[f], blob |-> f[2]] : f \in {g \in File : role[g] = "part"}}
    BY <1>a
  <1>2. stage = "idle" /\ scope = {} /\ report = {} /\ doomed = {}
    BY <1>a
  <1>3. \A o \in versions : \E f \in File :
          /\ role[f] \in {"version", "null", "marker"}
          /\ o = [bucket |-> f[1], key |-> keyOf[f[2]], seq |-> f[2],
                  null |-> role[f] = "null", marker |-> role[f] = "marker"]
    BY <1>a
  <1>4. \A q \in pointers : \E f \in File :
          role[f] = "null" /\ q = [bucket |-> f[1], key |-> keyOf[f[2]], seq |-> f[2]]
    BY <1>a
  <1>5. \A x \in part : \E f \in File :
          role[f] = "part" /\ x = [bucket |-> f[1], upload |-> owner[f], blob |-> f[2]]
    BY <1>1
  <1>6. FsckTypeOK
    <2>1. versions \subseteq FVersion
      <3> SUFFICES ASSUME NEW o \in versions PROVE o \in FVersion
        OBVIOUS
      <3>1. PICK f \in File : o = [bucket |-> f[1], key |-> keyOf[f[2]], seq |-> f[2],
                                  null |-> role[f] = "null", marker |-> role[f] = "marker"]
        BY <1>3
      <3> DEFINE n == role[f] = "null"
                 m == role[f] = "marker"
      <3>2. n \in BOOLEAN /\ m \in BOOLEAN
        OBVIOUS
      <3>3. o = [bucket |-> f[1], key |-> keyOf[f[2]], seq |-> f[2], null |-> n, marker |-> m]
        BY <3>1
      <3> HIDE DEF n, m
      <3> QED BY <3>2, <3>3, Files DEF FVersion
    <2>2. pointers \subseteq Pointer
      BY <1>4, Files DEF Pointer
    <2>3. part \subseteq FPart
      BY <1>5, Files DEF FPart
    <2>4. data \in [File -> {"none", "ok", "short", "rotten"}]
      BY <1>a
    <2> QED BY <1>a, <1>2, <2>1, <2>2, <2>3, <2>4 DEF FsckTypeOK
  <1>7. RecordsAgree
    <2>1. \A o, v \in versions : o.null /\ v.null /\ o.bucket = v.bucket /\ o.key = v.key => o = v
      <3> SUFFICES ASSUME NEW o \in versions, NEW v \in versions, o.null, v.null,
                          o.bucket = v.bucket, o.key = v.key
                   PROVE  o = v
        OBVIOUS
      <3>1. PICK f \in File :
              /\ role[f] \in {"version", "null", "marker"}
              /\ o = [bucket |-> f[1], key |-> keyOf[f[2]], seq |-> f[2],
                      null |-> role[f] = "null", marker |-> role[f] = "marker"]
        BY <1>3
      <3>2. PICK g \in File :
              /\ role[g] \in {"version", "null", "marker"}
              /\ v = [bucket |-> g[1], key |-> keyOf[g[2]], seq |-> g[2],
                      null |-> role[g] = "null", marker |-> role[g] = "marker"]
        BY <1>3
      <3>3. role[f] = "null" /\ role[g] = "null" /\ f[1] = g[1] /\ keyOf[f[2]] = keyOf[g[2]]
        BY <3>1, <3>2
      <3>4. f[2] = g[2]
        BY <1>a, <3>3, Files
      <3>5. f = g
        BY <3>3, <3>4, Files
      <3> QED BY <3>1, <3>2, <3>5
    <2>2. \A q, r \in pointers : q.bucket = r.bucket /\ q.key = r.key => q = r
      <3> SUFFICES ASSUME NEW q \in pointers, NEW r \in pointers, q.bucket = r.bucket, q.key = r.key
                   PROVE  q = r
        OBVIOUS
      <3>1. PICK f \in File : role[f] = "null" /\ q = [bucket |-> f[1], key |-> keyOf[f[2]], seq |-> f[2]]
        BY <1>4
      <3>2. PICK g \in File : role[g] = "null" /\ r = [bucket |-> g[1], key |-> keyOf[g[2]], seq |-> g[2]]
        BY <1>4
      <3>3. f[1] = g[1] /\ keyOf[f[2]] = keyOf[g[2]]
        BY <3>1, <3>2
      <3>4. f[2] = g[2]
        BY <1>a, <3>1, <3>2, <3>3, Files
      <3> QED BY <3>1, <3>2, <3>3, <3>4
    <2>3. \A x, y \in part : x.bucket = y.bucket /\ x.blob = y.blob => x = y
      <3> SUFFICES ASSUME NEW x \in part, NEW y \in part, x.bucket = y.bucket, x.blob = y.blob
                   PROVE  x = y
        OBVIOUS
      <3>1. PICK f \in File : x = [bucket |-> f[1], upload |-> owner[f], blob |-> f[2]]
        BY <1>5
      <3>2. PICK g \in File : y = [bucket |-> g[1], upload |-> owner[g], blob |-> g[2]]
        BY <1>5
      <3>3. f = g
        BY <3>1, <3>2, Files
      <3> QED BY <3>1, <3>2, <3>3
    <2>4. \A x \in part, o \in versions : ~(x.bucket = o.bucket /\ x.blob = o.seq)
      <3> SUFFICES ASSUME NEW x \in part, NEW o \in versions, x.bucket = o.bucket, x.blob = o.seq
                   PROVE  FALSE
        OBVIOUS
      <3>1. PICK f \in File : role[f] = "part" /\ f[1] = x.bucket /\ f[2] = x.blob
        BY <1>5
      <3>2. PICK g \in File : role[g] \in {"version", "null", "marker"} /\ g[1] = o.bucket /\ g[2] = o.seq
        BY <1>3
      <3>3. f = g
        BY <3>1, <3>2, Files
      <3> QED BY <3>1, <3>2, <3>3
    <2>5. \A u \in upload : bstatus[u.bucket] # "deleting"
      BY <1>a
    <2>6. \A u, w \in upload \cup index : u.bucket = w.bucket /\ u.id = w.id => u = w
      BY <1>a
    <2> QED BY <2>1, <2>2, <2>3, <2>4, <2>5, <2>6 DEF RecordsAgree
  <1> QED BY <1>2, <1>6, <1>7 DEF FsckInv, Justified, AtWork, Listed

\* Records and files that are lost before a check.
LEMMA LoseStep == ASSUME FsckInv, Lose PROVE FsckInv'
  <1>1. stage = "idle" /\ UNCHANGED <<stage, scope, report, doomed>>
    BY DEF Lose
  <1>2. /\ versions' \subseteq versions /\ pointers' \subseteq pointers /\ part' \subseteq part
        /\ upload' \subseteq upload /\ index' \subseteq index
    BY DEF Lose
  <1>3. /\ bstatus' \in [FBuckets -> {"none", "live", "deleting"}]
        /\ \A b \in FBuckets : bstatus'[b] = "deleting" => bstatus[b] = "deleting"
    BY DEF Lose, FsckInv, FsckTypeOK
  <1>4. data' \in [File -> {"none", "ok", "short", "rotten"}]
    BY DEF Lose, FsckInv, FsckTypeOK
  <1>5. FsckTypeOK'
    BY <1>1, <1>2, <1>3, <1>4 DEF FsckInv, FsckTypeOK
  <1>6. RecordsAgree'
    BY <1>2, <1>3, AgreeShrinks DEF FsckInv
  <1> QED BY <1>1, <1>5, <1>6 DEF FsckInv, Justified, AtWork, Listed

\* A check reports as superfluous what is, and works on the buckets it walked.
LEMMA Reported ==
  ASSUME FsckInv, NEW sc \in SUBSET FBuckets, NEW verify, NEW p \in Repairable(sc) \cup DamagedFile(sc, verify)
  PROVE  /\ Superfluous(p)
         /\ p.kind \in {"BucketDeleting", "RecordWithoutBkt"} => p.bucket \in Checked(sc)
  <1>1. CASE p \in RecordWithoutBkt(sc)
    BY <1>1, ProblemFields DEF RecordWithoutBkt, Superfluous, Checked
  <1>2. CASE p \in BucketDeleting(sc)
    <2>1. PICK b \in sc : bstatus[b] = "deleting" /\ p = Problem("BucketDeleting", b, b)
      BY <1>2 DEF BucketDeleting
    <2> QED BY <2>1, ProblemFields DEF Superfluous, FsckInv, RecordsAgree, Checked
  <1>3. CASE p \in MissingNullPtr(sc)
    <2>1. p.kind = "MissingNullPtr"
      <3>1. \E o \in versions : p = Problem("MissingNullPtr", o.bucket, o.key)
        BY <1>3, Zenon DEF MissingNullPtr
      <3> QED BY <3>1, ProblemFields
    <2> QED BY <2>1 DEF Superfluous
  <1>10. CASE p \in MissingUploadIdx(sc)
    <2>1. p.kind = "MissingUploadIdx"
      BY <1>10, ProblemFields DEF MissingUploadIdx
    <2> QED BY <2>1 DEF Superfluous
  <1>4. CASE p \in DanglingNullPtr(sc)
    BY <1>4, ProblemFields DEF DanglingNullPtr, Superfluous
  <1>5. CASE p \in DanglingUploadIdx(sc)
    BY <1>5, ProblemFields DEF DanglingUploadIdx, Superfluous
  <1>6. CASE p \in OrphanPartRecords(sc)
    BY <1>6, ProblemFields DEF OrphanPartRecords, HasUpload, Superfluous
  <1>7. CASE p \in PartMissingFile(sc)
    <2>1. PICK y \in part : data[<<y.bucket, y.blob>>] = "none" /\ p = Problem("PartMissingFile", y.bucket, y)
      BY <1>7 DEF PartMissingFile
    <2>2. y \in FPart
      BY DEF FsckInv, FsckTypeOK
    <2> QED BY <2>1, <2>2, ProblemFields DEF Superfluous
  <1>8. CASE p \in OrphanFile(sc)
    <2>1. PICK f \in File : /\ f \notin ReferencedBy(sc) /\ (f[1] \in Checked(sc) \/ sc = FBuckets)
                            /\ p = Problem("OrphanFile", f[1], f[2])
      BY <1>8 DEF OrphanFile
    <2>2. f[1] \in FBuckets /\ f = <<f[1], f[2]>>
      BY Files
    <2>3. \A o \in versions : o.bucket = f[1] => f[1] \in Checked(sc)
      BY <2>1, <2>2 DEF Checked, BucketsWithRecords
    <2>4. \A y \in part : HasUpload(y) /\ y.bucket = f[1] => f[1] \in Checked(sc)
      BY <2>1, <2>2 DEF Checked, BucketsWithRecords, HasUpload
    <2>5. \A o \in versions : ~o.marker /\ o.bucket = f[1] /\ o.seq = f[2] => FALSE
      BY <2>1, <2>2, <2>3 DEF ReferencedBy
    <2>6. \A y \in part : HasUpload(y) /\ y.bucket = f[1] /\ y.blob = f[2] => FALSE
      BY <2>1, <2>2, <2>4 DEF ReferencedBy
    <2>7. f \notin Needed
      BY <2>2, <2>5, <2>6, NeededFiles
    <2> QED BY <2>1, <2>2, <2>7, ProblemFields DEF Superfluous
  <1>9. CASE p \in DamagedFile(sc, verify)
    <2>1. p.kind \in {"MissingFile", "SizeMismatch", "ContentMismatch"}
      <3>1. PICK o \in versions :
              p = Problem(CASE data[<<o.bucket, o.seq>>] = "none" -> "MissingFile"
                            [] data[<<o.bucket, o.seq>>] = "short" -> "SizeMismatch"
                            [] OTHER -> "ContentMismatch", o.bucket, o)
        BY <1>9 DEF DamagedFile
      <3> DEFINE k == CASE data[<<o.bucket, o.seq>>] = "none" -> "MissingFile"
                        [] data[<<o.bucket, o.seq>>] = "short" -> "SizeMismatch"
                        [] OTHER -> "ContentMismatch"
      <3>2. k \in {"MissingFile", "SizeMismatch", "ContentMismatch"}
        OBVIOUS
      <3>3. p = Problem(k, o.bucket, o)
        BY <3>1
      <3> HIDE DEF k
      <3> QED BY <3>2, <3>3, ProblemFields
    <2> QED BY <2>1 DEF Superfluous
  <1> QED BY <1>1, <1>2, <1>3, <1>4, <1>5, <1>6, <1>7, <1>8, <1>9, <1>10 DEF Repairable

\* runFsckIO: a check of the whole directory lists everything.
LEMMA CheckStep ==
  ASSUME FsckInv, NEW sc \in SUBSET FBuckets, NEW verify, Check(sc, verify)
  PROVE  FsckInv'
  <1>1. /\ stage' = "repair" /\ scope' = sc /\ report' = Repairable(sc) \cup DamagedFile(sc, verify)
        /\ UNCHANGED <<bstatus, versions, pointers, upload, index, part, data, doomed>>
        /\ stage = "idle"
    BY DEF Check
  <1>2. FsckTypeOK' /\ RecordsAgree' /\ AtWork'
    BY <1>1 DEF FsckInv, FsckTypeOK, RecordsAgree, AtWork
  <1>3. Needed' = Needed /\ doomed' = {}
    BY <1>1 DEF Needed, HasUpload, FsckInv, AtWork
  <1>4. Justified'
    <2>1. \A p \in report' : Superfluous(p)
      BY <1>1, Reported
    <2> QED BY <1>1, <1>3, <2>1 DEF Justified, Superfluous
  <1>5. ASSUME sc = FBuckets
        PROVE  (FilesListed /\ BucketsListed /\ PointersListed /\ IndexListed /\ PartsListed)'
    <2>1. ASSUME NEW b \in FBuckets, Walked(b)' PROVE b \in Checked(sc)
      <3>1. ASSUME NEW p \in report', p.bucket = b, p.kind \in {"BucketDeleting", "RecordWithoutBkt"}
            PROVE  b \in Checked(sc)
        BY <1>1, <3>1, Reported
      <3> QED BY <1>1, <1>5, <2>1, <3>1 DEF Walked, Checked
    <2>2. \A o \in versions : o.bucket \in Checked(sc) /\ o.bucket \in FBuckets
      BY <1>5 DEF Checked, BucketsWithRecords, FsckInv, FsckTypeOK, FVersion
    <2>3. \A u \in upload : u.bucket \in Checked(sc) /\ u.bucket \in FBuckets
      BY <1>5 DEF Checked, BucketsWithRecords, FsckInv, FsckTypeOK, FUpload
    <2>4. FilesListed'
      <3> SUFFICES ASSUME NEW f \in File, data[f] # "none"
                   PROVE  \/ f \in Needed
                          \/ Problem("OrphanFile", f[1], f[2]) \in report'
                          \/ \E x \in part : /\ f = <<x.bucket, x.blob>>
                                             /\ Problem("OrphanPartRecords", x.bucket, x.upload) \in report'
        BY <1>1, <1>3 DEF FilesListed
      <3>1. CASE f \notin ReferencedBy(sc)
        BY <1>1, <1>5, <3>1 DEF OrphanFile, Repairable
      <3>2. CASE \E o \in versions : ~o.marker /\ f = <<o.bucket, o.seq>>
        BY <3>2 DEF Needed
      <3>3. CASE \E x \in part : x.bucket \in Checked(sc) /\ f = <<x.bucket, x.blob>>
        <4>1. PICK x \in part : x.bucket \in Checked(sc) /\ f = <<x.bucket, x.blob>>
          BY <3>3
        <4>2. CASE HasUpload(x)
          BY <4>1, <4>2 DEF Needed
        <4>3. CASE ~HasUpload(x)
          BY <1>1, <4>1, <4>3 DEF OrphanPartRecords, Repairable
        <4> QED BY <4>2, <4>3
      <3> QED BY <3>1, <3>2, <3>3 DEF ReferencedBy
    <2>5. BucketsListed'
      <3>1. \A b \in FBuckets : bstatus[b] = "deleting" => Problem("BucketDeleting", b, b) \in report'
        BY <1>1, <1>5 DEF BucketDeleting, Repairable
      <3>2. ASSUME NEW b \in FBuckets, b \in BucketsWithRecords PROVE Walked(b)'
        <4>1. bstatus[b] = "none" => Problem("RecordWithoutBkt", b, b) \in report'
          BY <1>1, <1>5, <3>2 DEF RecordWithoutBkt, Repairable
        <4> QED BY <1>1, <4>1, ProblemFields DEF Walked
      <3>3. \A o \in versions : Walked(o.bucket)'
        BY <2>2, <3>2 DEF BucketsWithRecords
      <3>4. \A u \in upload : Walked(u.bucket)'
        BY <2>3, <3>2 DEF BucketsWithRecords
      <3> QED BY <1>1, <3>1, <3>3, <3>4 DEF BucketsListed, Walked
    <2>6. PointersListed'
      <3>1. \A o \in versions : o.null =>
              PtrTo(o) \in pointers \/ Problem("MissingNullPtr", o.bucket, o.key) \in report'
        BY <1>1, <2>2 DEF MissingNullPtr, Repairable, PtrTo
      <3>2. ASSUME NEW q \in pointers, Walked(q.bucket)'
            PROVE  \/ \E o \in versions : o.null /\ o.bucket = q.bucket /\ o.key = q.key
                   \/ Problem("DanglingNullPtr", q.bucket, q.key) \in report'
        <4>1. q.bucket \in Checked(sc)
          BY <2>1, <3>2 DEF FsckInv, FsckTypeOK, Pointer
        <4> QED BY <1>1, <4>1 DEF DanglingNullPtr, Repairable
      <3> QED BY <1>1, <3>1, <3>2 DEF PointersListed, PtrTo, Walked
    <2>7. IndexListed'
      <3>1. \A u \in upload : u \in index \/ Problem("MissingUploadIdx", u.bucket, u.id) \in report'
        BY <1>1, <2>3 DEF MissingUploadIdx, Repairable
      <3>2. ASSUME NEW u \in index, Walked(u.bucket)'
            PROVE  u \in upload \/ Problem("DanglingUploadIdx", u.bucket, u.id) \in report'
        <4>1. u.bucket \in Checked(sc)
          BY <2>1, <3>2 DEF FsckInv, FsckTypeOK, FUpload
        <4>2. CASE \E w \in upload : w.bucket = u.bucket /\ w.id = u.id
          BY <4>2 DEF FsckInv, RecordsAgree
        <4>3. CASE \A w \in upload : ~(w.bucket = u.bucket /\ w.id = u.id)
          BY <1>1, <4>1, <4>3 DEF DanglingUploadIdx, Repairable
        <4> QED BY <4>2, <4>3
      <3> QED BY <1>1, <3>1, <3>2 DEF IndexListed, Walked
    <2>8. PartsListed'
      <3> SUFFICES ASSUME NEW x \in part
                   PROVE  /\ Walked(x.bucket)' =>
                               HasUpload(x) \/ Problem("OrphanPartRecords", x.bucket, x.upload) \in report'
                          /\ HasUpload(x) =>
                               \/ data[<<x.bucket, x.blob>>] # "none"
                               \/ Problem("PartMissingFile", x.bucket, x) \in report'
        BY <1>1 DEF PartsListed, HasUpload, Walked
      <3>1. x.bucket \in FBuckets
        BY DEF FsckInv, FsckTypeOK, FPart
      <3>2. Walked(x.bucket)' /\ ~HasUpload(x) => Problem("OrphanPartRecords", x.bucket, x.upload) \in report'
        BY <1>1, <2>1, <3>1 DEF OrphanPartRecords, Repairable
      <3>3. HasUpload(x) => x.bucket \in Checked(sc)
        BY <2>3 DEF HasUpload
      <3>4. HasUpload(x) /\ data[<<x.bucket, x.blob>>] = "none" => Problem("PartMissingFile", x.bucket, x) \in report'
        BY <1>1, <3>3 DEF PartMissingFile, Repairable
      <3> QED BY <3>2, <3>4
    <2> QED BY <2>4, <2>5, <2>6, <2>7, <2>8
  <1>6. Listed'
    BY <1>1, <1>5 DEF Listed
  <1> QED BY <1>2, <1>4, <1>6 DEF FsckInv

-----------------------------------------------------------------------------
(* Fsck: what the steps of a repair have in common *)

\* What was superfluous stays so, since a repair takes and never gives.
LEMMA JustifiedStays ==
  ASSUME FsckInv, UNCHANGED <<versions, upload>>, part' \subseteq part, report' \subseteq report,
         \A f \in File : data[f] = "none" => data'[f] = "none",
         \A f \in doomed' : f \in File /\ f \notin Needed'
  PROVE  Justified'
  <1>1. Needed' \subseteq Needed
    BY NeededShrinks
  <1>2. ASSUME NEW p \in report' PROVE Superfluous(p)'
    <2>1. Superfluous(p)
      BY DEF FsckInv, Justified
    <2>2. p.kind = "PartMissingFile" => <<p.item.bucket, p.item.blob>> \in File
      BY <2>1 DEF Superfluous, FPart, File
    <2> QED BY <1>1, <2>1, <2>2 DEF Superfluous
  <1> QED BY <1>2 DEF Justified

\* Files stay listed unless they go, and so do ...
LEMMA FilesStay ==
  ASSUME FilesListed, UNCHANGED <<versions, upload, part>>,
         \A f \in File : data'[f] # "none" => data[f] # "none",
         \A f \in doomed \cap File : f \in doomed' \/ data'[f] = "none",
         \A f \in File : Problem("OrphanFile", f[1], f[2]) \in report =>
           Problem("OrphanFile", f[1], f[2]) \in report' \/ data'[f] = "none",
         \A b, item : Problem("OrphanPartRecords", b, item) \in report =>
           Problem("OrphanPartRecords", b, item) \in report'
  PROVE  FilesListed'
  <1>1. Needed' = Needed
    BY DEF Needed, HasUpload
  <1> QED BY <1>1 DEF FilesListed

\* ... buckets,
LEMMA BucketsStay ==
  ASSUME BucketsListed, UNCHANGED <<bstatus, versions, upload>>,
         \A b, item : Problem("BucketDeleting", b, item) \in report =>
           Problem("BucketDeleting", b, item) \in report',
         \A p \in report : p.kind \in {"BucketDeleting", "RecordWithoutBkt"} => p \in report'
  PROVE  BucketsListed'
  BY DEF BucketsListed, Walked

\* pointers,
LEMMA PointersStay ==
  ASSUME FsckTypeOK, PointersListed, UNCHANGED <<versions, pointers>>,
         \A b \in FBuckets : Walked(b)' => Walked(b),
         \A b, item : Problem("MissingNullPtr", b, item) \in report =>
           Problem("MissingNullPtr", b, item) \in report',
         \A b, item : Problem("DanglingNullPtr", b, item) \in report =>
           Problem("DanglingNullPtr", b, item) \in report'
  PROVE  PointersListed'
  <1>1. \A q \in pointers : q.bucket \in FBuckets
    BY DEF FsckTypeOK, Pointer
  <1>2. \A q \in pointers : Walked(q.bucket)' => Walked(q.bucket)
    BY <1>1
  <1> QED BY <1>2 DEF PointersListed, PtrTo, Walked

\* the index
LEMMA IndexStays ==
  ASSUME FsckTypeOK, IndexListed, UNCHANGED <<upload, index>>,
         \A b \in FBuckets : Walked(b)' => Walked(b),
         \A b, item : Problem("MissingUploadIdx", b, item) \in report =>
           Problem("MissingUploadIdx", b, item) \in report',
         \A b, item : Problem("DanglingUploadIdx", b, item) \in report =>
           Problem("DanglingUploadIdx", b, item) \in report'
  PROVE  IndexListed'
  <1>1. \A q \in index : q.bucket \in FBuckets
    BY DEF FsckTypeOK, FUpload
  <1>2. \A q \in index : Walked(q.bucket)' => Walked(q.bucket)
    BY <1>1
  <1> QED BY <1>2 DEF IndexListed, Walked

\* and parts, whose files do not go.
LEMMA PartsStay ==
  ASSUME FsckTypeOK, PartsListed, UNCHANGED upload, part' \subseteq part,
         \A b \in FBuckets : Walked(b)' => Walked(b),
         \A x \in part' : HasUpload(x) => data'[<<x.bucket, x.blob>>] = data[<<x.bucket, x.blob>>],
         \A x \in part' : Problem("OrphanPartRecords", x.bucket, x.upload) \in report =>
           Problem("OrphanPartRecords", x.bucket, x.upload) \in report',
         \A x \in part' : Problem("PartMissingFile", x.bucket, x) \in report =>
           Problem("PartMissingFile", x.bucket, x) \in report'
  PROVE  PartsListed'
  <1>1. \A x \in part : x.bucket \in FBuckets
    BY DEF FsckTypeOK, FPart
  <1>2. \A x \in part' : Walked(x.bucket)' => Walked(x.bucket)
    BY <1>1
  <1>3. \A x \in part' : HasUpload(x)' <=> HasUpload(x)
    BY DEF HasUpload
  <1> QED BY <1>2, <1>3 DEF PartsListed, Walked, HasUpload

\* A bucket counts as walked as long as nobody works on its record.
LEMMA WalkedStays ==
  ASSUME UNCHANGED bstatus, report' \subseteq report
  PROVE  \A b \in FBuckets : Walked(b)' => Walked(b)
  BY DEF Walked

\* A file that nobody needs is not that of a part with an upload.
LEMMA PartsFilesStay ==
  ASSUME FsckTypeOK, NEW g \in File, g \notin Needed, data' = [data EXCEPT ![g] = "none"],
         part' \subseteq part
  PROVE  \A x \in part' : HasUpload(x) => data'[<<x.bucket, x.blob>>] = data[<<x.bucket, x.blob>>]
  <1> SUFFICES ASSUME NEW x \in part', HasUpload(x)
               PROVE  data'[<<x.bucket, x.blob>>] = data[<<x.bucket, x.blob>>]
    OBVIOUS
  <1>1. <<x.bucket, x.blob>> \in Needed
    BY NeededFiles
  <1>2. <<x.bucket, x.blob>> \in File
    BY DEF FsckTypeOK, FPart, File
  <1> DEFINE f == <<x.bucket, x.blob>>
  <1>3. f \in File /\ f # g
    BY <1>1, <1>2
  <1> HIDE DEF f
  <1>4. data'[f] = data[f]
    BY <1>3 DEF FsckTypeOK
  <1> QED BY <1>4 DEF f

-----------------------------------------------------------------------------
(* Fsck: the steps of a repair *)

\* What holds when a problem's turn has come.
LEMMA TurnFacts ==
  ASSUME FsckInv, NEW p, NEW kind, Turn(p, kind)
  PROVE  /\ stage = "repair" /\ doomed = {} /\ p \in report /\ p.kind = kind /\ Superfluous(p)
         /\ scope = FBuckets => FilesListed /\ BucketsListed /\ PointersListed /\ IndexListed /\ PartsListed
         /\ FsckTypeOK /\ RecordsAgree
  BY DEF Turn, FsckInv, Justified, Listed

\* The parts of the invariant, after a step that goes on with the repair.
LEMMA RepairGoesOn ==
  ASSUME stage = "repair", UNCHANGED <<stage, scope>>, FsckTypeOK', RecordsAgree', Justified',
         scope = FBuckets => (FilesListed /\ BucketsListed /\ PointersListed /\ IndexListed /\ PartsListed)'
  PROVE  FsckInv'
  BY DEF FsckInv, AtWork, Listed

\* Damaged objects are left in place.
LEMMA LeaveStep == ASSUME FsckInv, NEW p, Leave(p) PROVE FsckInv'
  <1>1. PICK k \in {"MissingFile", "SizeMismatch", "ContentMismatch"} : Turn(p, k)
    BY DEF Leave
  <1>2. /\ report' = report \ {p}
        /\ UNCHANGED <<bstatus, versions, pointers, upload, index, part, data, doomed, stage, scope>>
    BY DEF Leave, Fixed
  <1>3. p.kind \in {"MissingFile", "SizeMismatch", "ContentMismatch"} /\ doomed = {} /\ stage = "repair"
        /\ FsckTypeOK /\ RecordsAgree
    BY <1>1, TurnFacts
  <1>4. FsckTypeOK' /\ RecordsAgree'
    BY <1>2, <1>3 DEF FsckTypeOK, RecordsAgree
  <1>5. Justified'
    BY <1>2, <1>3, JustifiedStays
  <1>6. ASSUME scope = FBuckets
        PROVE  (FilesListed /\ BucketsListed /\ PointersListed /\ IndexListed /\ PartsListed)'
    <2>1. FilesListed /\ BucketsListed /\ PointersListed /\ IndexListed /\ PartsListed
      BY <1>1, <1>6, TurnFacts
    <2>2. \A kind, b, item : kind # p.kind /\ Problem(kind, b, item) \in report => Problem(kind, b, item) \in report'
      BY <1>2, OthersStay
    <2>3. \A b \in FBuckets : Walked(b)' => Walked(b)
      BY <1>2, WalkedStays
    <2>4. FilesListed'
      BY <1>2, <1>3, <2>1, <2>2, FilesStay
    <2>5. BucketsListed'
      BY <1>2, <1>3, <2>1, <2>2, BucketsStay
    <2>6. PointersListed' /\ IndexListed'
      BY <1>2, <1>3, <2>1, <2>2, <2>3, PointersStay, IndexStays
    <2>7. PartsListed'
      BY <1>2, <1>3, <2>1, <2>2, <2>3, PartsStay
    <2> QED BY <2>4, <2>5, <2>6, <2>7
  <1> QED BY <1>2, <1>3, <1>4, <1>5, <1>6, RepairGoesOn

\* A file that nobody needs goes, with its problem or from the files of parts
\* that are gone.
LEMMA FileGoes ==
  ASSUME FsckInv, stage = "repair", NEW g \in File, g \notin Needed, data' = [data EXCEPT ![g] = "none"],
         UNCHANGED <<bstatus, versions, pointers, upload, index, part, stage, scope>>,
         doomed' \subseteq doomed, doomed \subseteq doomed' \cup {g},
         report' \subseteq report,
         \A kind, b, item : Problem(kind, b, item) \in report =>
           Problem(kind, b, item) \in report' \/ (kind = "OrphanFile" /\ g = <<b, item>>),
         \A p \in report : p.kind # "OrphanFile" => p \in report'
  PROVE  FsckInv'
  <1>1. FsckTypeOK /\ RecordsAgree
    BY DEF FsckInv
  <1>2. FsckTypeOK' /\ RecordsAgree'
    BY <1>1 DEF FsckTypeOK, RecordsAgree
  <1>3. \A f \in File : data'[f] = IF f = g THEN "none" ELSE data[f]
    BY <1>1 DEF FsckTypeOK
  <1>4. Needed' \subseteq Needed
    BY NeededShrinks
  <1>5. \A f \in doomed' : f \in File /\ f \notin Needed'
    BY <1>4 DEF FsckInv, Justified
  <1>6. Justified'
    BY <1>3, <1>5, JustifiedStays
  <1>7. ASSUME scope = FBuckets
        PROVE  (FilesListed /\ BucketsListed /\ PointersListed /\ IndexListed /\ PartsListed)'
    <2>1. FilesListed /\ BucketsListed /\ PointersListed /\ IndexListed /\ PartsListed
      BY <1>7 DEF FsckInv, Listed
    <2>2. \A b \in FBuckets : Walked(b)' => Walked(b)
      BY WalkedStays
    <2>3. \A f \in File : Problem("OrphanFile", f[1], f[2]) \in report =>
            Problem("OrphanFile", f[1], f[2]) \in report' \/ data'[f] = "none"
      BY <1>3, Files
    <2>4. FilesListed'
      BY <1>3, <2>1, <2>3, FilesStay
    <2>5. BucketsListed'
      BY <2>1, BucketsStay
    <2>6. PointersListed' /\ IndexListed'
      BY <1>1, <2>1, <2>2, PointersStay, IndexStays
    <2>7. PartsListed'
      <3>1. \A x \in part' : HasUpload(x) => data'[<<x.bucket, x.blob>>] = data[<<x.bucket, x.blob>>]
        BY <1>1, PartsFilesStay
      <3> QED BY <1>1, <2>1, <2>2, <3>1, PartsStay
    <2> QED BY <2>4, <2>5, <2>6, <2>7
  <1> QED BY <1>2, <1>6, <1>7, RepairGoesOn

\* removeFile
LEMMA RemoveOrphanStep == ASSUME FsckInv, NEW p, RemoveOrphan(p) PROVE FsckInv'
  <1> DEFINE g == <<p.bucket, p.item>>
  <1>1. Turn(p, "OrphanFile") /\ report' = report \ {p} /\ data' = [data EXCEPT ![g] = "none"]
        /\ UNCHANGED <<bstatus, versions, pointers, upload, index, part, doomed, stage, scope>>
    BY DEF RemoveOrphan, Fixed
  <1>2. stage = "repair" /\ p.kind = "OrphanFile" /\ g \in File /\ g \notin Needed
    BY <1>1, TurnFacts DEF Superfluous
  <1>3. \A kind, b, item : Problem(kind, b, item) \in report =>
          Problem(kind, b, item) \in report' \/ (kind = "OrphanFile" /\ g = <<b, item>>)
    BY <1>1, <1>2, OthersStay
  <1> HIDE DEF g
  <1> QED BY <1>1, <1>2, <1>3, FileGoes

\* removeParts, after its transaction
LEMMA RemovePartFileStep == ASSUME FsckInv, NEW f, RemovePartFile(f) PROVE FsckInv'
  <1>1. stage = "repair" /\ f \in doomed /\ doomed' = doomed \ {f} /\ data' = [data EXCEPT ![f] = "none"]
        /\ UNCHANGED <<bstatus, versions, pointers, upload, index, part, stage, scope, report>>
    BY DEF RemovePartFile
  <1>2. f \in File /\ f \notin Needed
    BY <1>1 DEF FsckInv, Justified
  <1> QED BY <1>1, <1>2, FileGoes

\* finishDelete removes the directory of a bucket without objects. It has no
\* upload either, so nobody needs its files.
LEMMA FinishDeleteFileStep == ASSUME FsckInv, NEW p, NEW x \in Blobs, FinishDeleteFile(p, x) PROVE FsckInv'
  <1> DEFINE g == <<p.bucket, x>>
  <1>1. Turn(p, "BucketDeleting") /\ ~HasObjects(p.bucket) /\ data[g] # "none" /\ data' = [data EXCEPT ![g] = "none"]
        /\ UNCHANGED <<bstatus, versions, pointers, upload, index, part, doomed, stage, scope, report>>
    BY DEF FinishDeleteFile
  <1>2. stage = "repair" /\ p.kind = "BucketDeleting" /\ Superfluous(p) /\ FsckTypeOK
    BY <1>1, TurnFacts
  <1>3. g \notin Needed
    BY <1>1, <1>2, NeededFiles DEF Superfluous, HasObjects, HasUpload
  <1>4. g \in File
    BY <1>2 DEF Superfluous, File
  <1> HIDE DEF g
  <1> QED BY <1>1, <1>2, <1>3, <1>4, FileGoes

\* The pointer of a null version that is gone is deleted.
LEMMA DeletePointerStep == ASSUME FsckInv, NEW p, DeletePointer(p) PROVE FsckInv'
  <1>1. Turn(p, "DanglingNullPtr") /\ report' = report \ {p} /\ pointers' = pointers \ PointersOf(p)
        /\ UNCHANGED <<bstatus, versions, upload, index, part, data, doomed, stage, scope>>
    BY DEF DeletePointer, Fixed
  <1>2. p.kind = "DanglingNullPtr" /\ doomed = {} /\ stage = "repair" /\ Superfluous(p) /\ FsckTypeOK /\ RecordsAgree
    BY <1>1, TurnFacts
  <1>3. FsckTypeOK' /\ RecordsAgree'
    BY <1>1, <1>2, AgreeShrinks DEF FsckTypeOK
  <1>4. Justified'
    BY <1>1, <1>2, JustifiedStays
  <1>5. ASSUME scope = FBuckets
        PROVE  (FilesListed /\ BucketsListed /\ PointersListed /\ IndexListed /\ PartsListed)'
    <2>1. FilesListed /\ BucketsListed /\ PointersListed /\ IndexListed /\ PartsListed
      BY <1>1, <1>5, TurnFacts
    <2>2. \A kind, b, item : kind # p.kind /\ Problem(kind, b, item) \in report => Problem(kind, b, item) \in report'
      BY <1>1, OthersStay
    <2>3. \A b \in FBuckets : Walked(b)' => Walked(b)
      BY <1>1, WalkedStays
    <2>4. FilesListed' /\ BucketsListed'
      BY <1>1, <1>2, <2>1, <2>2, FilesStay, BucketsStay
    <2>5. IndexListed' /\ PartsListed'
      BY <1>1, <1>2, <2>1, <2>2, <2>3, IndexStays, PartsStay
    <2>6. ASSUME NEW o \in versions, o.null
          PROVE  PtrTo(o) \in pointers' \/ Problem("MissingNullPtr", o.bucket, o.key) \in report'
      <3>1. PtrTo(o).bucket = o.bucket /\ PtrTo(o).key = o.key
        BY DEF PtrTo
      <3>2. ~(o.bucket = p.bucket /\ o.key = p.item)
        BY <1>2, <2>6 DEF Superfluous
      <3>3. PtrTo(o) \notin PointersOf(p)
        BY <3>1, <3>2 DEF PointersOf
      <3>4. PtrTo(o) \in pointers \/ Problem("MissingNullPtr", o.bucket, o.key) \in report
        BY <2>1, <2>6 DEF PointersListed
      <3> QED BY <1>1, <1>2, <2>2, <3>3, <3>4
    <2>7. ASSUME NEW q \in pointers', Walked(q.bucket)'
          PROVE  \/ \E o \in versions : o.null /\ o.bucket = q.bucket /\ o.key = q.key
                 \/ Problem("DanglingNullPtr", q.bucket, q.key) \in report'
      <3>1. q \in pointers /\ ~(q.bucket = p.bucket /\ q.key = p.item)
        BY <1>1 DEF PointersOf
      <3>2. q.bucket \in FBuckets
        BY <1>2, <3>1 DEF FsckTypeOK, Pointer
      <3>3. \/ \E o \in versions : o.null /\ o.bucket = q.bucket /\ o.key = q.key
            \/ Problem("DanglingNullPtr", q.bucket, q.key) \in report
        BY <2>1, <2>3, <2>7, <3>1, <3>2 DEF PointersListed
      <3> QED BY <1>1, <3>1, <3>3, OthersStay
    <2>8. PointersListed'
      BY <1>1, <2>6, <2>7 DEF PointersListed, PtrTo
    <2> QED BY <2>4, <2>5, <2>8
  <1> QED BY <1>1, <1>2, <1>3, <1>4, <1>5, RepairGoesOn

\* The pointer of a null version is made again. There is one such version.
LEMMA RecreatePointerStep == ASSUME FsckInv, NEW p, RecreatePointer(p) PROVE FsckInv'
  <1>1. Turn(p, "MissingNullPtr") /\ report' = report \ {p}
        /\ UNCHANGED <<bstatus, versions, upload, index, part, data, doomed, stage, scope>>
    BY DEF RecreatePointer, Fixed
  <1>2. PICK v \in versions : /\ v.bucket = p.bucket /\ v.key = p.item /\ v.null
                              /\ pointers' = (pointers \ PointersOf(p)) \cup {PtrTo(v)}
    BY DEF RecreatePointer, PtrTo
  <1>3. p.kind = "MissingNullPtr" /\ doomed = {} /\ stage = "repair" /\ FsckTypeOK /\ RecordsAgree
    BY <1>1, TurnFacts
  <1>4. PtrTo(v) \in Pointer /\ PtrTo(v).bucket = p.bucket /\ PtrTo(v).key = p.item
    BY <1>2, <1>3 DEF FsckTypeOK, FVersion, Pointer, PtrTo
  <1>5. FsckTypeOK'
    BY <1>1, <1>2, <1>3, <1>4 DEF FsckTypeOK
  <1>6. \A q, r \in pointers' : q.bucket = r.bucket /\ q.key = r.key => q = r
    BY <1>2, <1>3, <1>4 DEF RecordsAgree, PointersOf
  <1>7. RecordsAgree'
    BY <1>1, <1>3, <1>6 DEF RecordsAgree
  <1>8. Justified'
    BY <1>1, <1>3, JustifiedStays
  <1>9. ASSUME scope = FBuckets
        PROVE  (FilesListed /\ BucketsListed /\ PointersListed /\ IndexListed /\ PartsListed)'
    <2>1. FilesListed /\ BucketsListed /\ PointersListed /\ IndexListed /\ PartsListed
      BY <1>1, <1>9, TurnFacts
    <2>2. \A kind, b, item : kind # p.kind /\ Problem(kind, b, item) \in report => Problem(kind, b, item) \in report'
      BY <1>1, OthersStay
    <2>3. \A b \in FBuckets : Walked(b)' => Walked(b)
      BY <1>1, WalkedStays
    <2>4. FilesListed' /\ BucketsListed'
      BY <1>1, <1>3, <2>1, <2>2, FilesStay, BucketsStay
    <2>5. IndexListed' /\ PartsListed'
      BY <1>1, <1>3, <2>1, <2>2, <2>3, IndexStays, PartsStay
    <2>6. ASSUME NEW o \in versions, o.null
          PROVE  PtrTo(o) \in pointers' \/ Problem("MissingNullPtr", o.bucket, o.key) \in report'
      <3>1. CASE o.bucket = p.bucket /\ o.key = p.item
        <4>1. o = v
          BY <1>2, <1>3, <2>6, <3>1 DEF RecordsAgree
        <4> QED BY <1>2, <4>1
      <3>2. CASE ~(o.bucket = p.bucket /\ o.key = p.item)
        <4>1. PtrTo(o).bucket = o.bucket /\ PtrTo(o).key = o.key
          BY DEF PtrTo
        <4>2. PtrTo(o) \notin PointersOf(p)
          BY <3>2, <4>1 DEF PointersOf
        <4>3. PtrTo(o) \in pointers \/ Problem("MissingNullPtr", o.bucket, o.key) \in report
          BY <2>1, <2>6 DEF PointersListed
        <4> QED BY <1>1, <1>2, <3>2, <4>2, <4>3, OthersStay
      <3> QED BY <3>1, <3>2
    <2>7. ASSUME NEW q \in pointers', Walked(q.bucket)'
          PROVE  \/ \E o \in versions : o.null /\ o.bucket = q.bucket /\ o.key = q.key
                 \/ Problem("DanglingNullPtr", q.bucket, q.key) \in report'
      <3>1. CASE q = PtrTo(v)
        BY <1>2, <1>4, <3>1
      <3>2. CASE q \in pointers
        <4>1. q.bucket \in FBuckets
          BY <1>3, <3>2 DEF FsckTypeOK, Pointer
        <4>2. \/ \E o \in versions : o.null /\ o.bucket = q.bucket /\ o.key = q.key
              \/ Problem("DanglingNullPtr", q.bucket, q.key) \in report
          BY <2>1, <2>3, <2>7, <3>2, <4>1 DEF PointersListed
        <4> QED BY <1>3, <2>2, <4>2
      <3> QED BY <1>2, <3>1, <3>2
    <2>8. PointersListed'
      BY <1>1, <2>6, <2>7 DEF PointersListed, PtrTo
    <2> QED BY <2>4, <2>5, <2>8
  <1> QED BY <1>1, <1>3, <1>5, <1>7, <1>8, <1>9, RepairGoesOn

\* The index entry of an upload that is gone is deleted, and that of one that
\* is there made again.
LEMMA IndexStep == ASSUME FsckInv, NEW p, DeleteIndex(p) \/ RecreateIndex(p) PROVE FsckInv'
  <1>1. /\ Turn(p, "DanglingUploadIdx") \/ Turn(p, "MissingUploadIdx")
        /\ report' = report \ {p}
        /\ UNCHANGED <<bstatus, versions, pointers, upload, part, data, doomed, stage, scope>>
    BY DEF DeleteIndex, RecreateIndex, Fixed
  <1> DEFINE rest == {u \in index : ~(u.bucket = p.bucket /\ u.id = p.item)}
  <1>2. PICK made \in SUBSET upload :
          /\ index' = rest \cup made
          /\ \A u \in made : u.bucket = p.bucket /\ u.id = p.item
          /\ p.kind = "MissingUploadIdx" => made # {}
    <2>1. CASE DeleteIndex(p)
      <3> DEFINE m == {}
      <3>1. p.kind = "DanglingUploadIdx" /\ index' = rest
        BY <2>1 DEF DeleteIndex, Turn
      <3>2. m \in SUBSET upload /\ index' = rest \cup m /\ \A u \in m : u.bucket = p.bucket /\ u.id = p.item
        BY <3>1
      <3> HIDE DEF m, rest
      <3> QED BY <3>1, <3>2
    <2>2. CASE RecreateIndex(p)
      <3>1. PICK u \in upload : u.bucket = p.bucket /\ u.id = p.item /\ index' = rest \cup {u}
        BY <2>2 DEF RecreateIndex
      <3> QED BY <3>1
    <2> QED BY <2>1, <2>2
  <1>3. /\ p.kind \in {"DanglingUploadIdx", "MissingUploadIdx"} /\ Superfluous(p)
        /\ doomed = {} /\ stage = "repair" /\ FsckTypeOK /\ RecordsAgree
    BY <1>1, TurnFacts
  <1>4. FsckTypeOK'
    BY <1>1, <1>2, <1>3 DEF FsckTypeOK
  <1>5. \A u, w \in upload \cup index' : u.bucket = w.bucket /\ u.id = w.id => u = w
    BY <1>2, <1>3 DEF RecordsAgree
  <1>6. RecordsAgree'
    BY <1>1, <1>3, <1>5 DEF RecordsAgree
  <1>7. Justified'
    BY <1>1, <1>3, JustifiedStays
  <1>8. ASSUME scope = FBuckets
        PROVE  (FilesListed /\ BucketsListed /\ PointersListed /\ IndexListed /\ PartsListed)'
    <2>1. FilesListed /\ BucketsListed /\ PointersListed /\ IndexListed /\ PartsListed
      BY <1>1, <1>8, TurnFacts
    <2>2. \A kind, b, item : kind # p.kind /\ Problem(kind, b, item) \in report => Problem(kind, b, item) \in report'
      BY <1>1, OthersStay
    <2>3. \A b \in FBuckets : Walked(b)' => Walked(b)
      BY <1>1, WalkedStays
    <2>4. FilesListed' /\ BucketsListed'
      BY <1>1, <1>3, <2>1, <2>2, FilesStay, BucketsStay
    <2>5. PointersListed' /\ PartsListed'
      BY <1>1, <1>3, <2>1, <2>2, <2>3, PointersStay, PartsStay
    <2>6. ASSUME NEW u \in upload
          PROVE  u \in index' \/ Problem("MissingUploadIdx", u.bucket, u.id) \in report'
      <3>1. u \in index \/ Problem("MissingUploadIdx", u.bucket, u.id) \in report
        BY <2>1 DEF IndexListed
      <3>2. CASE u.bucket = p.bucket /\ u.id = p.item
        <4>1. p.kind = "MissingUploadIdx"
          BY <1>3, <3>2 DEF Superfluous
        <4>2. PICK w \in made : w.bucket = p.bucket /\ w.id = p.item
          BY <1>2, <4>1
        <4>3. w = u
          BY <1>3, <3>2, <4>2 DEF RecordsAgree
        <4> QED BY <1>2, <4>3
      <3>3. CASE ~(u.bucket = p.bucket /\ u.id = p.item)
        BY <1>1, <1>2, <3>1, <3>3, OthersStay
      <3> QED BY <3>2, <3>3
    <2>7. ASSUME NEW u \in index', Walked(u.bucket)'
          PROVE  u \in upload \/ Problem("DanglingUploadIdx", u.bucket, u.id) \in report'
      <3>1. CASE u \in made
        BY <3>1
      <3>2. CASE u \in rest
        <4>1. u.bucket \in FBuckets
          BY <1>3, <3>2 DEF FsckTypeOK, FUpload
        <4>2. u \in upload \/ Problem("DanglingUploadIdx", u.bucket, u.id) \in report
          BY <2>1, <2>3, <2>7, <3>2, <4>1 DEF IndexListed
        <4> QED BY <1>1, <3>2, <4>2, OthersStay
      <3> QED BY <1>2, <3>1, <3>2
    <2>8. IndexListed'
      BY <1>1, <2>6, <2>7 DEF IndexListed
    <2> QED BY <2>4, <2>5, <2>8
  <1> QED BY <1>1, <1>3, <1>4, <1>6, <1>7, <1>8, RepairGoesOn

\* removeParts, its transaction: the records of parts without an upload go, and
\* their files are still to go.
LEMMA RemovePartsStep == ASSUME FsckInv, NEW p, RemoveParts(p) PROVE FsckInv'
  <1>1. /\ Turn(p, "OrphanPartRecords") /\ report' = report \ {p} /\ part' = part \ OrphanParts(p)
        /\ doomed' = {<<x.bucket, x.blob>> : x \in OrphanParts(p) \cap part}
        /\ UNCHANGED <<bstatus, versions, pointers, upload, index, data, stage, scope>>
    BY DEF RemoveParts, Fixed
  <1>2. p.kind = "OrphanPartRecords" /\ doomed = {} /\ stage = "repair" /\ Superfluous(p) /\ FsckTypeOK /\ RecordsAgree
    BY <1>1, TurnFacts
  <1>3. FsckTypeOK' /\ RecordsAgree'
    BY <1>1, <1>2, AgreeShrinks DEF FsckTypeOK
  <1>4. \A x \in OrphanParts(p) \cap part : x \in part /\ ~HasUpload(x) /\ x.bucket = p.bucket /\ x.upload = p.item
    BY <1>2 DEF OrphanParts, HasUpload, Superfluous
  <1>5. Needed' \subseteq Needed
    BY <1>1, NeededShrinks
  <1>6. ASSUME NEW x \in OrphanParts(p) \cap part PROVE <<x.bucket, x.blob>> \in File /\ <<x.bucket, x.blob>> \notin Needed
    <2>1. \A o \in versions : x.bucket = o.bucket /\ x.blob = o.seq => o.marker
      BY <1>2, <1>4 DEF RecordsAgree
    <2>2. \A y \in part : x.bucket = y.bucket /\ x.blob = y.blob => x = y
      BY <1>2, <1>4 DEF RecordsAgree
    <2>3. <<x.bucket, x.blob>> \notin Needed
      BY <1>4, <2>1, <2>2, NeededFiles
    <2> QED BY <1>2, <1>4, <2>3 DEF FsckTypeOK, FPart, File
  <1>7. Justified'
    BY <1>1, <1>2, <1>5, <1>6, JustifiedStays
  <1>8. ASSUME scope = FBuckets
        PROVE  (FilesListed /\ BucketsListed /\ PointersListed /\ IndexListed /\ PartsListed)'
    <2>1. FilesListed /\ BucketsListed /\ PointersListed /\ IndexListed /\ PartsListed
      BY <1>1, <1>8, TurnFacts
    <2>2. \A kind, b, item : kind # p.kind /\ Problem(kind, b, item) \in report => Problem(kind, b, item) \in report'
      BY <1>1, OthersStay
    <2>3. \A b \in FBuckets : Walked(b)' => Walked(b)
      BY <1>1, WalkedStays
    <2>4. BucketsListed' /\ PointersListed' /\ IndexListed'
      BY <1>1, <1>2, <2>1, <2>2, <2>3, BucketsStay, PointersStay, IndexStays
    <2>5. \A x \in part' : x \in part /\ ~(p.bucket = x.bucket /\ p.item = x.upload)
      BY <1>1 DEF OrphanParts
    <2>6. \A x \in part' : Problem("OrphanPartRecords", x.bucket, x.upload) \in report =>
            Problem("OrphanPartRecords", x.bucket, x.upload) \in report'
      BY <1>1, <2>5, OthersStay
    <2>7. PartsListed'
      BY <1>1, <1>2, <2>1, <2>2, <2>3, <2>6, PartsStay
    <2>8. ASSUME NEW f \in File, data'[f] # "none"
          PROVE  \/ f \in Needed' \cup doomed'
                 \/ Problem("OrphanFile", f[1], f[2]) \in report'
                 \/ \E x \in part' : /\ f = <<x.bucket, x.blob>>
                                     /\ Problem("OrphanPartRecords", x.bucket, x.upload) \in report'
      <3>1. \/ f \in Needed
            \/ Problem("OrphanFile", f[1], f[2]) \in report
            \/ \E x \in part : /\ f = <<x.bucket, x.blob>>
                               /\ Problem("OrphanPartRecords", x.bucket, x.upload) \in report
        BY <1>1, <1>2, <2>1, <2>8 DEF FilesListed
      <3>2. CASE f \in Needed
        <4>1. \/ \E o \in versions : ~o.marker /\ f = <<o.bucket, o.seq>>
              \/ \E y \in part : HasUpload(y) /\ f = <<y.bucket, y.blob>>
          BY <3>2 DEF Needed
        <4>2. \A y \in part : HasUpload(y) => y \in part' /\ HasUpload(y)'
          BY <1>1, <1>4 DEF HasUpload
        <4>3. f \in Needed'
          BY <1>1, <4>1, <4>2 DEF Needed
        <4> QED BY <4>3
      <3>3. CASE Problem("OrphanFile", f[1], f[2]) \in report
        BY <1>2, <2>2, <3>3
      <3>4. ASSUME NEW x \in part, f = <<x.bucket, x.blob>>, Problem("OrphanPartRecords", x.bucket, x.upload) \in report,
                   x \notin OrphanParts(p)
            PROVE  x \in part' /\ Problem("OrphanPartRecords", x.bucket, x.upload) \in report'
        BY <1>1, <2>6, <3>4
      <3>5. ASSUME NEW x \in OrphanParts(p) \cap part, f = <<x.bucket, x.blob>> PROVE f \in doomed'
        BY <1>1, <3>5
      <3> QED BY <3>1, <3>2, <3>3, <3>4, <3>5
    <2>9. FilesListed'
      BY <2>8 DEF FilesListed
    <2> QED BY <2>4, <2>7, <2>9
  <1> QED BY <1>1, <1>2, <1>3, <1>7, <1>8, RepairGoesOn

\* The record of a part whose file is missing is deleted.
LEMMA DeletePartStep == ASSUME FsckInv, NEW p, DeletePart(p) PROVE FsckInv'
  <1>1. /\ Turn(p, "PartMissingFile") /\ report' = report \ {p} /\ part' = part \ {p.item}
        /\ UNCHANGED <<bstatus, versions, pointers, upload, index, data, doomed, stage, scope>>
    BY DEF DeletePart, Fixed
  <1>2. p.kind = "PartMissingFile" /\ doomed = {} /\ stage = "repair" /\ Superfluous(p) /\ FsckTypeOK /\ RecordsAgree
    BY <1>1, TurnFacts
  <1>3. FsckTypeOK' /\ RecordsAgree'
    BY <1>1, <1>2, AgreeShrinks DEF FsckTypeOK
  <1>4. Justified'
    BY <1>1, <1>2, JustifiedStays
  <1>5. ASSUME scope = FBuckets
        PROVE  (FilesListed /\ BucketsListed /\ PointersListed /\ IndexListed /\ PartsListed)'
    <2>1. FilesListed /\ BucketsListed /\ PointersListed /\ IndexListed /\ PartsListed
      BY <1>1, <1>5, TurnFacts
    <2>2. \A kind, b, item : kind # p.kind /\ Problem(kind, b, item) \in report => Problem(kind, b, item) \in report'
      BY <1>1, OthersStay
    <2>3. \A b \in FBuckets : Walked(b)' => Walked(b)
      BY <1>1, WalkedStays
    <2>4. BucketsListed' /\ PointersListed' /\ IndexListed'
      BY <1>1, <1>2, <2>1, <2>2, <2>3, BucketsStay, PointersStay, IndexStays
    <2>5. \A x \in part' : Problem("PartMissingFile", x.bucket, x) \in report =>
            Problem("PartMissingFile", x.bucket, x) \in report'
      BY <1>1, OthersStay
    <2>6. PartsListed'
      BY <1>1, <1>2, <2>1, <2>2, <2>3, <2>5, PartsStay
    <2>7. ASSUME NEW f \in File, data'[f] # "none"
          PROVE  \/ f \in Needed'
                 \/ Problem("OrphanFile", f[1], f[2]) \in report'
                 \/ \E x \in part' : /\ f = <<x.bucket, x.blob>>
                                     /\ Problem("OrphanPartRecords", x.bucket, x.upload) \in report'
      <3>1. \/ f \in Needed
            \/ Problem("OrphanFile", f[1], f[2]) \in report
            \/ \E x \in part : /\ f = <<x.bucket, x.blob>>
                               /\ Problem("OrphanPartRecords", x.bucket, x.upload) \in report
        BY <1>1, <1>2, <2>1, <2>7 DEF FilesListed
      <3>2. ASSUME NEW x \in part, f = <<x.bucket, x.blob>> PROVE x \in part'
        BY <1>1, <1>2, <2>7, <3>2 DEF Superfluous
      <3>3. CASE f \in Needed
        <4>1. \/ \E o \in versions : ~o.marker /\ f = <<o.bucket, o.seq>>
              \/ \E y \in part : HasUpload(y) /\ f = <<y.bucket, y.blob>>
          BY <3>3 DEF Needed
        <4>2. \A y \in part : HasUpload(y) => HasUpload(y)'
          BY <1>1 DEF HasUpload
        <4>3. f \in Needed'
          BY <1>1, <3>2, <4>1, <4>2 DEF Needed
        <4> QED BY <4>3
      <3> QED BY <1>2, <2>2, <3>1, <3>2, <3>3
    <2>8. FilesListed'
      BY <2>7 DEF FilesListed
    <2> QED BY <2>4, <2>6, <2>8
  <1> QED BY <1>1, <1>2, <1>3, <1>4, <1>5, RepairGoesOn

\* Work on the record of a bucket: it comes back, or it goes and has neither
\* objects nor uploads.
LEMMA BucketStep ==
  ASSUME FsckInv, stage = "repair", doomed = {}, NEW p \in report,
         p.kind \in {"BucketDeleting", "RecordWithoutBkt"}, report' = report \ {p},
         NEW s \in {"none", "live"},
         bstatus' = [bstatus EXCEPT ![p.bucket] = s] \/ (UNCHANGED bstatus /\ bstatus[p.bucket] # "none"),
         bstatus'[p.bucket] = "deleting" => p.kind = "RecordWithoutBkt",
         bstatus'[p.bucket] = "none" =>
           /\ \A o \in versions : o.bucket # p.bucket
           /\ \A u \in upload : u.bucket # p.bucket,
         UNCHANGED <<versions, pointers, upload, index, part, data, doomed, stage, scope>>
  PROVE  FsckInv'
  <1>1. FsckTypeOK /\ RecordsAgree /\ p.bucket \in FBuckets
    BY DEF FsckInv, Justified, Superfluous
  <1>2. \A b \in FBuckets : b # p.bucket => bstatus'[b] = bstatus[b]
    BY <1>1 DEF FsckTypeOK
  <1>3. bstatus' \in [FBuckets -> {"none", "live", "deleting"}]
    BY <1>1 DEF FsckTypeOK
  <1>4. bstatus'[p.bucket] = "deleting" => bstatus[p.bucket] = "deleting"
    BY <1>1 DEF FsckTypeOK
  <1>5. FsckTypeOK'
    BY <1>1, <1>3 DEF FsckTypeOK
  <1>6. RecordsAgree'
    BY <1>1, <1>2, <1>4, AgreeShrinks
  <1>7. Justified'
    BY JustifiedStays
  <1>8. ASSUME scope = FBuckets
        PROVE  (FilesListed /\ BucketsListed /\ PointersListed /\ IndexListed /\ PartsListed)'
    <2>1. FilesListed /\ BucketsListed /\ PointersListed /\ IndexListed /\ PartsListed
      BY <1>8 DEF FsckInv, Listed
    <2>2. \A kind, b, item : kind # p.kind /\ Problem(kind, b, item) \in report => Problem(kind, b, item) \in report'
      BY OthersStay
    <2>3. \A b \in FBuckets : Walked(b)' => Walked(b)
      BY <1>2 DEF Walked
    <2>4. FilesListed'
      BY <2>1, <2>2, FilesStay
    <2>5. PointersListed' /\ IndexListed'
      BY <1>1, <2>1, <2>2, <2>3, PointersStay, IndexStays
    <2>6. PartsListed'
      BY <1>1, <2>1, <2>2, <2>3, PartsStay
    <2>7. ASSUME NEW b \in FBuckets, bstatus'[b] = "deleting" PROVE Problem("BucketDeleting", b, b) \in report'
      <3>1. Problem("BucketDeleting", b, b) \in report
        BY <1>2, <1>4, <2>1, <2>7 DEF BucketsListed
      <3> QED BY <2>7, <3>1, OthersStay
    <2>8. ASSUME NEW b \in FBuckets, Walked(b), b = p.bucket => bstatus'[b] # "none" PROVE Walked(b)'
      <3>1. CASE b = p.bucket
        BY <2>8, <3>1 DEF Walked
      <3>2. CASE b # p.bucket
        BY <1>2, <2>8, <3>2 DEF Walked
      <3> QED BY <3>1, <3>2
    <2>9. \A o \in versions : Walked(o.bucket)'
      <3>1. \A o \in versions : o.bucket \in FBuckets
        BY <1>1 DEF FsckTypeOK, FVersion
      <3> QED BY <2>1, <2>8, <3>1 DEF BucketsListed
    <2>10. \A u \in upload : Walked(u.bucket)'
      <3>1. \A u \in upload : u.bucket \in FBuckets
        BY <1>1 DEF FsckTypeOK, FUpload
      <3> QED BY <2>1, <2>8, <3>1 DEF BucketsListed
    <2>11. BucketsListed'
      BY <2>7, <2>9, <2>10 DEF BucketsListed, Walked
    <2> QED BY <2>4, <2>5, <2>6, <2>11
  <1> QED BY <1>5, <1>6, <1>7, <1>8, RepairGoesOn

\* finishDelete and the re-creation of a bucket record.
LEMMA BucketRecordStep ==
  ASSUME FsckInv, NEW p, RestoreBucket(p) \/ FinishDeleteRecord(p) \/ RecreateBucket(p)
  PROVE  FsckInv'
  <1>1. CASE RestoreBucket(p)
    <2>1. Turn(p, "BucketDeleting") /\ bstatus' = [bstatus EXCEPT ![p.bucket] = "live"] /\ report' = report \ {p}
          /\ UNCHANGED <<versions, pointers, upload, index, part, data, doomed, stage, scope>>
      BY <1>1 DEF RestoreBucket, Fixed
    <2>2. stage = "repair" /\ doomed = {} /\ p \in report /\ p.kind = "BucketDeleting" /\ Superfluous(p) /\ FsckTypeOK
      BY <2>1, TurnFacts
    <2>3. bstatus'[p.bucket] = "live"
      BY <2>1, <2>2 DEF Superfluous, FsckTypeOK
    <2> QED BY <2>1, <2>2, <2>3, BucketStep
  <1>2. CASE FinishDeleteRecord(p)
    <2>1. Turn(p, "BucketDeleting") /\ bstatus' = [bstatus EXCEPT ![p.bucket] = "none"] /\ report' = report \ {p}
          /\ UNCHANGED <<versions, pointers, upload, index, part, data, doomed, stage, scope>>
          /\ \A o \in versions : o.bucket # p.bucket
      BY <1>2 DEF FinishDeleteRecord, Fixed, HasObjects
    <2>2. stage = "repair" /\ doomed = {} /\ p \in report /\ p.kind = "BucketDeleting" /\ Superfluous(p) /\ FsckTypeOK
      BY <2>1, TurnFacts
    <2>3. bstatus'[p.bucket] = "none" /\ \A u \in upload : u.bucket # p.bucket
      BY <2>1, <2>2 DEF Superfluous, FsckTypeOK
    <2> QED BY <2>1, <2>2, <2>3, BucketStep
  <1>3. CASE RecreateBucket(p)
    <2>1. Turn(p, "RecordWithoutBkt") /\ report' = report \ {p}
          /\ UNCHANGED <<versions, pointers, upload, index, part, data, doomed, stage, scope>>
          /\ \/ bstatus' = [bstatus EXCEPT ![p.bucket] = "live"]
             \/ UNCHANGED bstatus /\ bstatus[p.bucket] # "none"
      BY <1>3 DEF RecreateBucket, Fixed
    <2>2. stage = "repair" /\ doomed = {} /\ p \in report /\ p.kind = "RecordWithoutBkt" /\ Superfluous(p) /\ FsckTypeOK
      BY <2>1, TurnFacts
    <2>3. bstatus'[p.bucket] # "none"
      BY <2>1, <2>2 DEF Superfluous, FsckTypeOK
    <2> QED BY <2>1, <2>2, <2>3, BucketStep
  <1> QED BY <1>1, <1>2, <1>3

\* A repair ends, or is stopped.
LEMMA RepairOverStep == ASSUME FsckInv, RepairEnds \/ RepairStops PROVE FsckInv'
  <1>1. UNCHANGED <<bstatus, versions, pointers, upload, index, part, data>>
    BY DEF RepairEnds, RepairStops
  <1>2. RecordsAgree'
    BY <1>1 DEF FsckInv, RecordsAgree
  <1>3. CASE RepairEnds
    <2>1. stage = "repair" /\ stage' = "done" /\ report = {} /\ doomed = {} /\ UNCHANGED <<scope, report, doomed>>
      BY <1>3 DEF RepairEnds
    <2>2. FsckTypeOK' /\ AtWork' /\ Justified'
      BY <1>1, <2>1 DEF FsckInv, FsckTypeOK, AtWork, Justified
    <2>3. Needed' = Needed
      BY <1>1 DEF Needed, HasUpload
    <2>4. ASSUME scope = FBuckets
          PROVE  (FilesListed /\ BucketsListed /\ PointersListed /\ IndexListed /\ PartsListed)'
      <3>1. FilesListed /\ BucketsListed /\ PointersListed /\ IndexListed /\ PartsListed
        BY <2>1, <2>4 DEF FsckInv, Listed
      <3>2. FilesListed'
        BY <1>1, <2>1, <2>3, <3>1 DEF FilesListed
      <3>3. BucketsListed'
        BY <1>1, <2>1, <3>1 DEF BucketsListed, Walked
      <3>4. PointersListed'
        BY <1>1, <2>1, <3>1 DEF PointersListed, Walked, PtrTo
      <3>5. IndexListed'
        BY <1>1, <2>1, <3>1 DEF IndexListed, Walked
      <3>6. PartsListed'
        BY <1>1, <2>1, <3>1 DEF PartsListed, Walked, HasUpload
      <3> QED BY <3>2, <3>3, <3>4, <3>5, <3>6
    <2> QED BY <1>2, <2>1, <2>2, <2>4 DEF FsckInv, Listed
  <1>4. CASE RepairStops
    <2>1. stage' = "idle" /\ scope' = {} /\ report' = {} /\ doomed' = {}
      BY <1>4 DEF RepairStops
    <2>2. FsckTypeOK' /\ AtWork' /\ Justified' /\ Listed'
      BY <1>1, <2>1 DEF FsckInv, FsckTypeOK, AtWork, Justified, Listed
    <2> QED BY <1>2, <2>2 DEF FsckInv
  <1> QED BY <1>3, <1>4

\* Every step keeps the invariant.
LEMMA NextFsckInv == ASSUME FsckInv, [FNext]_fvars PROVE FsckInv'
  <1>1. CASE UNCHANGED fvars
    <2>1. Needed' = Needed
      BY <1>1 DEF fvars, Needed, HasUpload
    <2>2. FsckTypeOK' /\ RecordsAgree' /\ AtWork'
      BY <1>1 DEF fvars, FsckInv, FsckTypeOK, RecordsAgree, AtWork
    <2>3. Justified'
      BY <1>1, <2>1 DEF fvars, FsckInv, Justified, Superfluous
    <2>4. ASSUME stage # "idle", scope = FBuckets
          PROVE  (FilesListed /\ BucketsListed /\ PointersListed /\ IndexListed /\ PartsListed)'
      <3>1. FilesListed /\ BucketsListed /\ PointersListed /\ IndexListed /\ PartsListed
        BY <2>4 DEF FsckInv, Listed
      <3>2. FilesListed'
        BY <1>1, <2>1, <3>1 DEF fvars, FilesListed
      <3>3. BucketsListed'
        BY <1>1, <3>1 DEF fvars, BucketsListed, Walked
      <3>4. PointersListed'
        BY <1>1, <3>1 DEF fvars, PointersListed, Walked, PtrTo
      <3>5. IndexListed'
        BY <1>1, <3>1 DEF fvars, IndexListed, Walked
      <3>6. PartsListed'
        BY <1>1, <3>1 DEF fvars, PartsListed, Walked, HasUpload
      <3> QED BY <3>2, <3>3, <3>4, <3>5, <3>6
    <2>5. Listed'
      BY <1>1, <2>4 DEF fvars, Listed
    <2> QED BY <2>2, <2>3, <2>5 DEF FsckInv
  <1>2. ASSUME NEW sc \in {FBuckets} \cup {{b} : b \in FBuckets}, NEW verify, Check(sc, verify) PROVE FsckInv'
    <2>1. sc \in SUBSET FBuckets
      BY <1>2
    <2> QED BY <1>2, <2>1, CheckStep
  <1>3. CASE Repair
    BY <1>3, LeaveStep, RemoveOrphanStep, DeletePointerStep, RecreatePointerStep, IndexStep, RemovePartsStep,
       DeletePartStep, BucketRecordStep, FinishDeleteFileStep, RemovePartFileStep, RepairOverStep DEF Repair
  <1> QED BY <1>1, <1>2, <1>3, LoseStep DEF FNext

\* The invariant holds at all times.
LEMMA FsckInvHolds == FSpec => []FsckInv
  BY InitFsckInv, NextFsckInv, PTL DEF FSpec

-----------------------------------------------------------------------------
(* The theorems about Fsck *)

\* A repair of the whole directory that has run to its end leaves no superfluous
\* file, no removal half done, no readable version or upload without its bucket,
\* and pointers, index and parts of the buckets that agree with those, whatever
\* was lost or damaged before and however many repairs were cut short.
THEOREM RepairsRestore == FSpec => []RepairRestores
  <1>1. FsckInv => RepairRestores
    <2> SUFFICES ASSUME FsckInv, stage = "done", scope = FBuckets PROVE RepairRestores
      BY DEF RepairRestores
    <2>1. FilesListed /\ BucketsListed /\ PointersListed /\ IndexListed /\ PartsListed
      BY DEF FsckInv, Listed
    <2>2. report = {} /\ doomed = {} /\ FsckTypeOK /\ RecordsAgree
      BY DEF FsckInv, AtWork
    <2>3. \A f \in File : data[f] # "none" => f \in Needed
      BY <2>1, <2>2 DEF FilesListed
    <2>4. \A b \in FBuckets : bstatus[b] # "deleting"
      BY <2>1, <2>2 DEF BucketsListed
    <2>5. \A o \in versions \cup upload : o.bucket \in FBuckets /\ bstatus[o.bucket] # "none"
      BY <2>1, <2>2 DEF BucketsListed, Walked, FsckTypeOK, FVersion, FUpload
    <2>6. \A o \in versions \cup upload : bstatus[o.bucket] = "live"
      BY <2>2, <2>4, <2>5 DEF FsckTypeOK
    <2>7. ASSUME NEW b \in FBuckets, bstatus[b] = "live"
          PROVE  /\ {q \in pointers : q.bucket = b} =
                      {[bucket |-> o.bucket, key |-> o.key, seq |-> o.seq] :
                         o \in {v \in versions : v.bucket = b /\ v.null}}
                 /\ {u \in index : u.bucket = b} = {u \in upload : u.bucket = b}
                 /\ \A x \in part : x.bucket = b => HasUpload(x) /\ data[<<x.bucket, x.blob>>] # "none"
      <3>1. Walked(b)
        BY <2>7 DEF Walked
      <3>2. \A o \in versions : o.null => PtrTo(o) \in pointers
        BY <2>1, <2>2 DEF PointersListed
      <3>3. \A o \in versions : PtrTo(o).bucket = o.bucket /\ PtrTo(o).key = o.key
        BY DEF PtrTo
      <3>4. ASSUME NEW q \in pointers, q.bucket = b
            PROVE  \E o \in versions : o.bucket = b /\ o.null /\ q = PtrTo(o)
        <4>1. PICK o \in versions : o.null /\ o.bucket = q.bucket /\ o.key = q.key
          BY <2>1, <2>2, <3>1, <3>4 DEF PointersListed
        <4>2. q = PtrTo(o)
          BY <2>2, <3>2, <3>3, <3>4, <4>1 DEF RecordsAgree
        <4> QED BY <3>4, <4>1, <4>2
      <3>5. {q \in pointers : q.bucket = b} = {PtrTo(o) : o \in {v \in versions : v.bucket = b /\ v.null}}
        BY <3>2, <3>3, <3>4
      <3>6. {u \in index : u.bucket = b} = {u \in upload : u.bucket = b}
        BY <2>1, <2>2, <3>1 DEF IndexListed
      <3>7. \A x \in part : x.bucket = b => HasUpload(x) /\ data[<<x.bucket, x.blob>>] # "none"
        BY <2>1, <2>2, <3>1 DEF PartsListed
      <3> QED BY <3>5, <3>6, <3>7 DEF PtrTo
    <2> QED BY <2>3, <2>4, <2>6, <2>7 DEF RepairRestores
  <1> QED BY <1>1, FsckInvHolds, PTL

\* Only files that nobody needs go.
LEMMA NeededKept ==
  ASSUME FsckInv, NEW g \in File, g \notin Needed, data' = [data EXCEPT ![g] = "none"], NEW f \in Needed
  PROVE  data'[f] = data[f]
  <1>1. Needed \subseteq File
    BY DEF Needed, FsckInv, FsckTypeOK, FVersion, FPart, File
  <1>2. f \in File /\ f # g
    BY <1>1
  <1> QED BY <1>2 DEF FsckInv, FsckTypeOK

\* Records of different namespaces differ.
LEMMA KindsApart == \A y : y \in FVersion \cup FUpload => y \notin FPart
  <1>1. \A y \in FPart : DOMAIN y = {"bucket", "upload", "blob"}
    BY DEF FPart
  <1>2. \A y \in FVersion : DOMAIN y = {"bucket", "key", "seq", "null", "marker"}
    BY DEF FVersion
  <1>3. \A y \in FUpload : DOMAIN y = {"bucket", "id", "key"}
    BY DEF FUpload
  <1> QED BY <1>1, <1>2, <1>3

\* No step of a repair loses data that a readable record tells of: it drops no
\* version, no part whose upload and file are there, no file that one of them
\* needs, no record of a bucket that holds objects, and no version or upload
\* record that does not decode.
THEOREM RepairsKeepData == FSpec => RepairKeepsData
  <1>1. ASSUME FsckInv, [FNext]_fvars, stage = "repair"
        PROVE  /\ versions \subseteq versions' /\ upload \subseteq upload'
               /\ BrokenVersions \cup BrokenUploads \subseteq broken'
               /\ \A x \in part : HasUpload(x) /\ data[<<x.bucket, x.blob>>] # "none" => x \in part'
               /\ \A f \in Needed : data'[f] = data[f]
               /\ \A b \in FBuckets : HasObjects(b) /\ bstatus[b] # "none" => bstatus'[b] # "none"
    <2> DEFINE Kept == /\ versions \subseteq versions' /\ upload \subseteq upload'
                       /\ BrokenVersions \cup BrokenUploads \subseteq broken'
                       /\ \A x \in part : HasUpload(x) /\ data[<<x.bucket, x.blob>>] # "none" => x \in part'
                       /\ \A f \in Needed : data'[f] = data[f]
                       /\ \A b \in FBuckets : HasObjects(b) /\ bstatus[b] # "none" => bstatus'[b] # "none"
    <2>1. CASE UNCHANGED <<versions, upload, broken, part, data, bstatus>>
      BY <2>1 DEF BrokenVersions, BrokenUploads
    <2>2. ASSUME NEW p, RemoveOrphan(p) PROVE Kept
      <3> DEFINE g == <<p.bucket, p.item>>
      <3>1. Turn(p, "OrphanFile") /\ data' = [data EXCEPT ![g] = "none"] /\ UNCHANGED <<versions, upload, broken, part, bstatus>>
        BY <2>2 DEF RemoveOrphan
      <3>2. g \in File /\ g \notin Needed
        BY <1>1, <3>1, TurnFacts DEF Superfluous
      <3> HIDE DEF g
      <3>3. \A f \in Needed : data'[f] = data[f]
        BY <1>1, <3>1, <3>2, NeededKept
      <3> QED BY <3>1, <3>3 DEF BrokenVersions, BrokenUploads
    <2>3. ASSUME NEW g, RemovePartFile(g) PROVE Kept
      <3>1. g \in doomed /\ data' = [data EXCEPT ![g] = "none"] /\ UNCHANGED <<versions, upload, broken, part, bstatus>>
        BY <2>3 DEF RemovePartFile
      <3>2. g \in File /\ g \notin Needed
        BY <1>1, <3>1 DEF FsckInv, Justified
      <3>3. \A f \in Needed : data'[f] = data[f]
        BY <1>1, <3>1, <3>2, NeededKept
      <3> QED BY <3>1, <3>3 DEF BrokenVersions, BrokenUploads
    <2>4. ASSUME NEW p, NEW x \in Blobs, FinishDeleteFile(p, x) PROVE Kept
      <3> DEFINE g == <<p.bucket, x>>
      <3>1. Turn(p, "BucketDeleting") /\ data' = [data EXCEPT ![g] = "none"] /\ ~HasObjects(p.bucket)
            /\ UNCHANGED <<versions, upload, broken, part, bstatus>>
        BY <2>4 DEF FinishDeleteFile
      <3>2. p.kind = "BucketDeleting" /\ Superfluous(p)
        BY <1>1, <3>1, TurnFacts
      <3>3. g \in File /\ g \notin Needed
        BY <3>1, <3>2, NeededFiles DEF Superfluous, HasObjects, HasUpload, File
      <3> HIDE DEF g
      <3>4. \A f \in Needed : data'[f] = data[f]
        BY <1>1, <3>1, <3>3, NeededKept
      <3> QED BY <3>1, <3>4 DEF BrokenVersions, BrokenUploads
    <2>5. ASSUME NEW p, RemoveParts(p) PROVE Kept
      <3>1. Turn(p, "OrphanPartRecords") /\ part' = part \ OrphanParts(p) /\ broken' = broken \ OrphanParts(p)
            /\ UNCHANGED <<versions, upload, data, bstatus>>
        BY <2>5 DEF RemoveParts
      <3>2. p.kind = "OrphanPartRecords" /\ Superfluous(p)
        BY <1>1, <3>1, TurnFacts
      <3>3. \A y \in part : HasUpload(y) => y \notin OrphanParts(p)
        BY <3>2 DEF OrphanParts, HasUpload, Superfluous
      <3>4. \A y \in BrokenVersions \cup BrokenUploads : y \notin FPart
        BY KindsApart DEF BrokenVersions, BrokenUploads
      <3>5. \A y \in OrphanParts(p) : y \in FPart
        BY <1>1 DEF OrphanParts, BrokenParts, FsckInv, FsckTypeOK
      <3> QED BY <3>1, <3>3, <3>4, <3>5 DEF BrokenVersions, BrokenUploads
    <2>6. ASSUME NEW p, DeletePart(p) PROVE Kept
      <3>1. Turn(p, "PartMissingFile") /\ part' = part \ {p.item} /\ UNCHANGED <<versions, upload, broken, data, bstatus>>
        BY <2>6 DEF DeletePart
      <3>2. data[<<p.item.bucket, p.item.blob>>] = "none"
        BY <1>1, <3>1, TurnFacts DEF Superfluous
      <3> QED BY <3>1, <3>2 DEF BrokenVersions, BrokenUploads
    <2>7. ASSUME NEW p, RestoreBucket(p) \/ FinishDeleteRecord(p) \/ RecreateBucket(p) PROVE Kept
      <3>1. UNCHANGED <<versions, upload, broken, part, data>>
        BY <2>7 DEF RestoreBucket, FinishDeleteRecord, RecreateBucket
      <3>2. bstatus \in [FBuckets -> {"none", "live", "deleting"}]
        BY <1>1 DEF FsckInv, FsckTypeOK
      <3>3. ASSUME NEW b \in FBuckets, HasObjects(b), bstatus[b] # "none" PROVE bstatus'[b] # "none"
        <4>1. CASE RestoreBucket(p)
          BY <3>2, <3>3, <4>1 DEF RestoreBucket
        <4>2. CASE FinishDeleteRecord(p)
          BY <3>2, <3>3, <4>2 DEF FinishDeleteRecord
        <4>3. CASE RecreateBucket(p)
          BY <3>2, <3>3, <4>3 DEF RecreateBucket
        <4> QED BY <2>7, <4>1, <4>2, <4>3
      <3> QED BY <3>1, <3>3 DEF BrokenVersions, BrokenUploads
    <2>8. ASSUME NEW p, Leave(p) \/ DeletePointer(p) \/ RecreatePointer(p) \/ DeleteIndex(p) \/ RecreateIndex(p)
          PROVE  UNCHANGED <<versions, upload, broken, part, data, bstatus>>
      BY <2>8 DEF Leave, DeletePointer, RecreatePointer, DeleteIndex, RecreateIndex
    <2>9. RepairEnds \/ RepairStops \/ UNCHANGED fvars => UNCHANGED <<versions, upload, broken, part, data, bstatus>>
      BY DEF RepairEnds, RepairStops, fvars
    <2>10. CASE Repair
      <3> HIDE DEF Kept
      <3> QED BY <2>1, <2>2, <2>3, <2>4, <2>5, <2>6, <2>7, <2>8, <2>9, <2>10 DEF Repair, Kept
    <2>11. ~Lose /\ \A sc, verify : ~Check(sc, verify)
      BY <1>1 DEF Lose, Check
    <2> QED BY <1>1, <2>1, <2>9, <2>10, <2>11 DEF FNext
  <1> QED BY <1>1, FsckInvHolds, PTL DEF FSpec, RepairKeepsData

-----------------------------------------------------------------------------
(* Notify: the inductive invariant *)

\* A worker leaves only after Close, an in-memory one only when there is
\* nothing left to take.
LeaveLast ==
  /\ worker.last => Closed
  /\ worker.stage = "gone" => worker.last
  /\ \A m \in MemWorkers : memw[m] = "gone" => Closed /\ ch = 0

\* The handlers that have a name and no file yet, and their names.
Pushing == {h \in Handlers : handler[h].stage = "push"}
Unborn == {handler[h].name : h \in Pushing}

\* Every name was given out once, and nothing is known of a message before
\* its push.
Named ==
  /\ names <= MaxNames
  /\ disk \subseteq pushed /\ pushed \subseteq 1..names
  /\ got \subseteq pushed /\ refused \subseteq pushed
  /\ \A h \in Pushing : handler[h].name \in 1..names /\ handler[h].name \notin pushed
  /\ \A h, g \in Pushing : handler[h].name = handler[g].name => h = g
  /\ \A x \in Names : before[x] \subseteq pushed /\ \A y \in before[x] : y < x

\* A message whose push succeeded stays until it was delivered or given up.
Kept == pushed \subseteq disk \cup got \cup refused

\* What the worker has in hand: only it removes files, and only those that
\* were delivered or given up.
InHand ==
  /\ worker.stage \in {"wait", "list", "gone"} => worker.todo = {}
  /\ worker.todo \subseteq disk
  /\ worker.stage \in {"send", "remove"} => worker.cur \in disk \ worker.todo
  /\ worker.stage \in {"remove", "dec"} => worker.cur \in got \cup refused
  /\ worker.stage = "dec" => worker.cur \notin disk

\* The entry being sent is ahead of all that is left of the pass.
Current == IF worker.stage = "send" THEN {worker.cur} ELSE {}

PassOrder ==
  /\ \A x \in worker.todo : before[x] \subseteq got \cup refused \cup worker.todo \cup Current
  /\ worker.stage = "send" => before[worker.cur] \subseteq got \cup refused

\* What count counts: files, and the names that became or were one.
Counted == disk \cup Unborn \cup (IF worker.stage = "dec" THEN {worker.cur} ELSE {})

CountType == count \in Int /\ (uncounted = {} => count >= 0) /\ uncounted \subseteq Nat

\* It is short of them by no more than what starts left out.
CountExact ==
  /\ uncounted \subseteq 1..names
  /\ count <= Cardinality(Counted)
  /\ Cardinality(Counted) <= count + Cardinality(uncounted)
  /\ setup.limit > 0 => Cardinality(Counted) <= setup.limit + Cardinality(uncounted)

\* The files that the pass under way will not meet.
Missed == disk \ (worker.todo \cup (IF worker.stage \in {"send", "remove"} THEN {worker.cur} ELSE {}))

Kicking == kick \/ \E h \in Handlers : handler[h].stage = "kick"

\* A pass that does not fail misses only files that a wake-up is on its way
\* for, and the last pass misses none.
Announced ==
  ~failed /\ worker.stage # "list" =>
    /\ Missed # {} => Kicking
    /\ worker.last => Missed = {}

\* Close ends with the workers.
StoppedAfterWorkers == closing = "stopped" => WorkersGone

NInv ==
  /\ TypeOK
  /\ NoSendOnClosed
  /\ LeaveLast
  /\ Named
  /\ Kept
  /\ InHand
  /\ PassOrder
  /\ EarlierFirst
  /\ CountExact
  /\ Announced
  /\ StoppedAfterWorkers

-----------------------------------------------------------------------------
(* Notify: types *)


\* A first start has its types.
LEMMA InitType == Init => TypeOK
  <1> SUFFICES ASSUME Init PROVE TypeOK
    OBVIOUS
  <1>1. kick \in BOOLEAN /\ failed \in BOOLEAN
    BY DEF Init
  <1> QED BY <1>1, NotifyAssumption DEF TypeOK, Init, IdleHandler, IdleWorker, Names

\* The handlers' steps keep the types; the counter's is CountExact's concern.
LEMMA HandlerType ==
  ASSUME TypeOK, CountType', NEW h \in Handlers,
         (\E ts \in SUBSET setup.targets : Handle(h, ts)) \/ HandlerStep(h)
  PROVE  TypeOK'
  <1> USE DEF TypeOK, CountType, history
  <1>1. ASSUME NEW ts \in SUBSET setup.targets, Handle(h, ts) PROVE TypeOK'
    BY <1>1 DEF Handle, IdleHandler
  <1>2. CASE EnqueueMemory(h)
    BY <1>2, NotifyAssumption DEF EnqueueMemory
  <1>3. CASE PushName(h)
    <2>1. before' \in [Names -> SUBSET Nat]
      BY <1>3 DEF PushName
    <2>2. handler' \in [Handlers -> [stage: {"idle", "route", "push", "kick"},
                                     todo: SUBSET setup.targets, name: Nat]]
      BY <1>3 DEF PushName
    <2> QED BY <1>3, <2>1, <2>2 DEF PushName
  <1>4. CASE PushFull(h)
    BY <1>4 DEF PushFull
  <1>5. CASE PushRename(h)
    BY <1>5 DEF PushRename
  <1>6. CASE PushFails(h)
    <2>1. handler' \in [Handlers -> [stage: {"idle", "route", "push", "kick"},
                                     todo: SUBSET setup.targets, name: Nat]]
      BY <1>6 DEF PushFails
    <2> QED BY <1>6, <2>1 DEF PushFails, Fault
  <1>7. CASE Kick(h)
    <2>1. handler' \in [Handlers -> [stage: {"idle", "route", "push", "kick"},
                                     todo: SUBSET setup.targets, name: Nat]]
      BY <1>7 DEF Kick
    <2>2. kick' \in BOOLEAN
      BY <1>7 DEF Kick
    <2> QED BY <1>7, <2>1, <2>2 DEF Kick
  <1>8. CASE HandleReturn(h)
    BY <1>8 DEF HandleReturn, IdleHandler
  <1> QED BY <1>1, <1>2, <1>3, <1>4, <1>5, <1>6, <1>7, <1>8 DEF HandlerStep

\* The persistent target's worker keeps the types.
LEMMA WorkerType == ASSUME TypeOK, CountType', WorkerStep PROVE TypeOK'
  <1> USE DEF TypeOK, CountType, WorkerFrame
  <1>1. ASSUME WakeKick \/ WakeTick \/ WakeDone PROVE TypeOK'
    <2>1. kick' \in BOOLEAN
      BY <1>1 DEF WakeKick, WakeTick, WakeDone
    <2> QED BY <1>1, <2>1 DEF WakeKick, WakeTick, WakeDone
  <1>2. CASE List
    <2>1. failed' \in BOOLEAN
      BY <1>2 DEF List
    <2> QED BY <1>2, <2>1 DEF List
  <1>3. CASE ListFails
    <2>1. failed' \in BOOLEAN
      BY <1>3 DEF ListFails
    <2> QED BY <1>3, <2>1 DEF ListFails, Fault
  <1>4. CASE PassDone
    BY <1>4 DEF PassDone, EndPass
  <1>5. CASE PassCancelled
    <2>1. failed' \in BOOLEAN
      BY <1>5 DEF PassCancelled
    <2> QED BY <1>5, <2>1 DEF PassCancelled, EndPass
  <1>6. ASSUME NEW x \in worker.todo, Load(x) PROVE TypeOK'
    BY <1>6 DEF Load
  <1>7. ASSUME NEW x \in worker.todo, LoadFails(x) PROVE TypeOK'
    <2>1. refused' \subseteq Nat /\ faults' \in Nat
      BY <1>7 DEF LoadFails, Fault
    <2> QED BY <1>7, <2>1 DEF LoadFails
  <1>8. CASE PostAccepted
    BY <1>8 DEF PostAccepted
  <1>9. CASE PostRefused
    BY <1>9 DEF PostRefused
  <1>10. ASSUME NEW received \in BOOLEAN, PostRetry(received) PROVE TypeOK'
    BY <1>10 DEF PostRetry
  <1>11. ASSUME NEW received \in BOOLEAN, SendFails(received) PROVE TypeOK'
    <2>1. failed' \in BOOLEAN
      BY <1>11 DEF SendFails
    <2>2. got' \subseteq Nat
      BY <1>11 DEF SendFails
    <2> QED BY <1>11, <2>1, <2>2 DEF SendFails, EndPass
  <1>12. CASE Remove
    BY <1>12 DEF Remove
  <1>13. CASE RemoveFails
    <2>1. failed' \in BOOLEAN
      BY <1>13 DEF RemoveFails
    <2>2. faults' \in Nat
      BY <1>13 DEF RemoveFails, Fault
    <2> QED BY <1>13, <2>1, <2>2 DEF RemoveFails
  <1>14. CASE Dec
    BY <1>14 DEF Dec
  <1> QED BY <1>1, <1>2, <1>3, <1>4, <1>5, <1>6, <1>7, <1>8, <1>9, <1>10, <1>11, <1>12, <1>13, <1>14
          DEF WorkerStep

\* So do the in-memory target's workers, Close and a start.
LEMMA OtherType ==
  ASSUME TypeOK, CountType',
         (\E m \in MemWorkers : MemStep(m)) \/ Close \/ CloseStep \/ Start
  PROVE  TypeOK'
  <1> USE DEF TypeOK, CountType, history
  <1>1. ASSUME NEW m \in MemWorkers, MemTake(m) PROVE TypeOK'
    BY <1>1, NotifyAssumption DEF MemTake
  <1>2. ASSUME NEW m \in MemWorkers, MemSend(m) \/ MemExit(m) PROVE TypeOK'
    BY <1>2 DEF MemSend, MemExit
  <1>3. CASE Close \/ CloseStep
    BY <1>3 DEF Close, CloseStep, CloseLocked, CloseFinished, CloseTimeout, CloseAborted, CloseFrame
  <1>4. CASE Start
    <2>1. kick' \in BOOLEAN /\ failed' \in BOOLEAN
      BY <1>4 DEF Start
    <2>2. worker' \in [stage: {"wait", "list", "pick", "send", "remove", "dec", "gone"},
                       todo: SUBSET Nat, cur: Nat, attempt: Nat, last: BOOLEAN]
      BY <1>4 DEF Start, IdleWorker
    <2>3. handler' \in [Handlers -> [stage: {"idle", "route", "push", "kick"},
                                     todo: SUBSET setup.targets, name: Nat]]
      BY <1>4 DEF Start, IdleHandler
    <2>4. faults' \in Nat
      BY <1>4 DEF Start, Recount, Fault
    <2>5. /\ UNCHANGED <<setup, disk, names, got, refused, pushed, before>>
          /\ closing' = "open" /\ ch' = 0 /\ memw' = [m \in MemWorkers |-> "wait"] /\ restarts' = restarts + 1
      BY <1>4, SMTT(20) DEF Start
    <2> QED BY <2>1, <2>2, <2>3, <2>4, <2>5, NotifyAssumption
  <1> QED BY <1>1, <1>2, <1>3, <1>4 DEF MemStep

-----------------------------------------------------------------------------
(* Notify: what the steps leave alone *)

\* What a step of the persistent target's worker leaves alone.
LEMMA WorkerLeaves ==
  ASSUME WorkerStep PROVE WorkerFrame
  BY DEF WorkerStep, WakeKick, WakeTick, WakeDone, List, ListFails, PassDone, PassCancelled, Load,
         LoadFails, PostAccepted, PostRefused, PostRetry, SendFails, Remove, RemoveFails, Dec

\* A handler's step leaves the workers, the stop and the consumers alone.
LEMMA HandlerLeaves ==
  ASSUME NEW h \in Handlers, (\E ts \in SUBSET setup.targets : Handle(h, ts)) \/ HandlerStep(h)
  PROVE  UNCHANGED <<setup, closing, memw, worker, restarts, got, refused, failed, uncounted>>
  BY DEF HandlerStep, Handle, EnqueueMemory, PushName, PushFull, PushRename, PushFails, Kick, HandleReturn, history

\* A worker's step leaves the handlers and the stop alone.
LEMMA MemLeaves ==
  ASSUME NEW m \in MemWorkers, MemStep(m)
  PROVE  UNCHANGED <<setup, closing, handler, disk, count, names, kick, worker, restarts, faults, history>>
  BY DEF MemStep, MemTake, MemSend, MemExit

\* A step of Close leaves the handlers alone.
LEMMA CloseLeaves ==
  ASSUME Close \/ CloseStep PROVE CloseFrame
  BY DEF Close, CloseStep, CloseLocked, CloseFinished, CloseTimeout, CloseAborted

\* The worker moves only the message it has in hand: what it sends is on disk,
\* what it removes was received or given up.
LEMMA WorkerMoves ==
  ASSUME TypeOK, InHand, WorkerStep
  PROVE  \/ UNCHANGED <<disk, got, refused>>
         \/ /\ worker.stage = "send" /\ worker.cur \in disk
            /\ got' = got \cup {worker.cur} /\ UNCHANGED <<disk, refused>>
         \/ \E x \in disk : refused' = refused \cup {x} /\ UNCHANGED <<disk, got>>
         \/ \E x \in disk \cap (got \cup refused) : disk' = disk \ {x} /\ UNCHANGED <<got, refused>>
  <1>1. CASE WakeKick \/ WakeTick \/ WakeDone \/ List \/ ListFails \/ PassDone \/ PassCancelled
    BY <1>1 DEF WakeKick, WakeTick, WakeDone, List, ListFails, PassDone, PassCancelled
  <1>2. CASE \E x \in worker.todo : Load(x) \/ LoadFails(x)
    BY <1>2 DEF Load, LoadFails, InHand
  <1>3. CASE PostAccepted \/ PostRefused
    BY <1>3 DEF PostAccepted, PostRefused, InHand
  <1>4. CASE \E received \in BOOLEAN : PostRetry(received) \/ SendFails(received)
    BY <1>4 DEF PostRetry, SendFails, InHand
  <1>5. CASE Remove \/ RemoveFails \/ Dec
    BY <1>5 DEF Remove, RemoveFails, Dec, InHand
  <1> QED BY <1>1, <1>2, <1>3, <1>4, <1>5 DEF WorkerStep

-----------------------------------------------------------------------------
(* Notify: close *)

\* Handlers only work while nothing is closed, and Close waits for them.
LEMMA NoSendOnClosedStep ==
  ASSUME NInv, Next PROVE NoSendOnClosed'
  <1> USE DEF NInv, NoSendOnClosed, Closed
  <1>1. ASSUME NEW h \in setup.handlers, NEW ts \in SUBSET setup.targets, Handle(h, ts)
        PROVE  NoSendOnClosed'
    BY <1>1 DEF Handle
  <1>2. ASSUME NEW h \in Handlers, HandlerStep(h) PROVE NoSendOnClosed'
    <2>1. handler[h].stage # "idle" /\ closing' = closing
      BY <1>2 DEF HandlerStep, EnqueueMemory, PushName, PushFull, PushRename, PushFails, Kick, HandleReturn
    <2> QED BY <2>1
  <1>3. CASE CloseLocked
    BY <1>3 DEF CloseLocked, CloseFrame
  <1>4. CASE CloseFinished \/ CloseTimeout \/ CloseAborted
    BY <1>4 DEF CloseFinished, CloseTimeout, CloseAborted, CloseFrame
  <1>5. CASE Close \/ Restart \/ Crash
    BY <1>5 DEF Close, Restart, Crash, Start
  <1>6. ASSUME NEW m \in MemWorkers, MemStep(m) PROVE NoSendOnClosed'
    BY <1>6 DEF MemStep, MemTake, MemSend, MemExit
  <1>7. CASE WorkerStep
    BY <1>7, WorkerLeaves DEF WorkerFrame
  <1> QED BY <1>1, <1>2, <1>3, <1>4, <1>5, <1>6, <1>7 DEF Next, CloseStep

\* How a step of it moves last and gone.
LEMMA WorkerLast ==
  ASSUME TypeOK, WorkerStep
  PROVE  /\ worker'.last => worker.last \/ Closed
         /\ worker.last => worker'.last
         /\ worker'.stage = "gone" => worker.last /\ worker'.last
  <1> USE DEF TypeOK
  <1>1. CASE WakeKick
    BY <1>1 DEF WakeKick
  <1>2. CASE WakeTick
    BY <1>2 DEF WakeTick
  <1>3. CASE WakeDone
    BY <1>3 DEF WakeDone
  <1>4. CASE List
    BY <1>4 DEF List
  <1>5. CASE ListFails
    BY <1>5 DEF ListFails
  <1>6. CASE PassDone \/ PassCancelled
    BY <1>6 DEF PassDone, PassCancelled, EndPass
  <1>7. ASSUME NEW x \in worker.todo, Load(x) \/ LoadFails(x)
        PROVE  worker'.last = worker.last /\ worker'.stage # "gone"
    BY <1>7 DEF Load, LoadFails
  <1>8. CASE PostAccepted \/ PostRefused
    BY <1>8 DEF PostAccepted, PostRefused
  <1>9. ASSUME NEW received \in BOOLEAN, PostRetry(received)
        PROVE  worker'.last = worker.last /\ worker'.stage # "gone"
    BY <1>9 DEF PostRetry
  <1>10. ASSUME NEW received \in BOOLEAN, SendFails(received)
         PROVE  worker'.last = worker.last /\ (worker'.stage = "gone" => worker.last)
    BY <1>10 DEF SendFails, EndPass
  <1>11. CASE Remove \/ RemoveFails \/ Dec
    BY <1>11 DEF Remove, RemoveFails, Dec
  <1> QED BY <1>1, <1>2, <1>3, <1>4, <1>5, <1>6, <1>7, <1>8, <1>9, <1>10, <1>11 DEF WorkerStep

\* Workers leave only once Close has closed the channels, and what was closed
\* stays empty.
LEMMA LeaveLastStep ==
  ASSUME NInv, Next PROVE LeaveLast'
  <1> USE DEF NInv, LeaveLast, Closed
  <1>1. ASSUME NEW h \in setup.handlers, NEW ts \in SUBSET setup.targets, Handle(h, ts)
        PROVE  LeaveLast'
    BY <1>1 DEF Handle
  <1>2. ASSUME NEW h \in Handlers, HandlerStep(h) PROVE LeaveLast'
    <2>1. UNCHANGED <<closing, memw, worker>>
      BY <1>2, HandlerLeaves
    <2>2. handler[h].stage # "idle"
      BY <1>2 DEF HandlerStep, EnqueueMemory, PushName, PushFull, PushRename, PushFails, Kick, HandleReturn
    <2>3. ~Closed
      BY <2>2 DEF NoSendOnClosed
    <2> QED BY <2>1, <2>3
  <1>3. ASSUME NEW m \in MemWorkers, MemStep(m) PROVE LeaveLast'
    <2> USE <1>3 DEF TypeOK
    <2>1. CASE MemTake(m)
      BY <2>1 DEF MemTake
    <2>2. CASE MemSend(m)
      BY <2>2 DEF MemSend
    <2>3. CASE MemExit(m)
      BY <2>3 DEF MemExit
    <2> QED BY <2>1, <2>2, <2>3 DEF MemStep
  <1>4. CASE WorkerStep
    BY <1>4, WorkerLeaves, WorkerLast DEF WorkerFrame
  <1>5. CASE Close \/ CloseStep
    <2>1. UNCHANGED <<ch, memw, worker>>
      BY <1>5, CloseLeaves DEF CloseFrame
    <2>2. Closed => Closed'
      BY <1>5 DEF Close, CloseStep, CloseLocked, CloseFinished, CloseTimeout, CloseAborted
    <2> QED BY <2>1, <2>2
  <1>6. CASE Restart \/ Crash
    BY <1>6 DEF Restart, Crash, Start, IdleWorker
  <1> QED BY <1>1, <1>2, <1>3, <1>4, <1>5, <1>6 DEF Next

\* Workers that have left take no more steps.
LEMMA StoppedAfterWorkersStep ==
  ASSUME NInv, Next PROVE StoppedAfterWorkers'
  <1> USE DEF NInv, StoppedAfterWorkers, WorkersGone
  <1>1. ASSUME NEW h \in setup.handlers, NEW ts \in SUBSET setup.targets, Handle(h, ts)
        PROVE  StoppedAfterWorkers'
    BY <1>1 DEF Handle
  <1>2. ASSUME NEW h \in Handlers, HandlerStep(h) PROVE StoppedAfterWorkers'
    BY <1>2, HandlerLeaves
  <1>3. ASSUME NEW m \in MemWorkers, MemStep(m) PROVE StoppedAfterWorkers'
    <2>1. memw[m] # "gone"
      BY <1>3 DEF MemStep, MemTake, MemSend, MemExit
    <2> QED BY <1>3, <2>1, MemLeaves
  <1>4. CASE WorkerStep
    <2>1. worker.stage # "gone"
      BY <1>4 DEF WorkerStep, WakeKick, WakeTick, WakeDone, List, ListFails, PassDone, PassCancelled,
                  Load, LoadFails, PostAccepted, PostRefused, PostRetry, SendFails, Remove, RemoveFails, Dec
    <2> QED BY <1>4, <2>1, WorkerLeaves, SMTT(20) DEF WorkerFrame
  <1>5. CASE Close \/ CloseStep
    BY <1>5 DEF Close, CloseStep, CloseLocked, CloseFinished, CloseTimeout, CloseAborted, CloseFrame
  <1>6. CASE Restart \/ Crash
    BY <1>6 DEF Restart, Crash, Start
  <1> QED BY <1>1, <1>2, <1>3, <1>4, <1>5, <1>6 DEF Next

-----------------------------------------------------------------------------
(* Notify: names *)

\* A name is given out once, and what happens to a message happens after its
\* push.
LEMMA NamedStep ==
  ASSUME NInv, Next, TypeOK' PROVE Named'
  <1> USE DEF Named, Pushing
  <1> TypeOK /\ Named /\ InHand
    BY DEF NInv
  <1>1. ASSUME NEW h \in setup.handlers, NEW ts \in SUBSET setup.targets, Handle(h, ts)
        PROVE  Named'
    BY <1>1 DEF Handle, IdleHandler, TypeOK, history
  <1>2. ASSUME NEW h \in Handlers, EnqueueMemory(h) \/ PushFull(h) PROVE Named'
    <2>1. CASE EnqueueMemory(h)
      BY <2>1 DEF EnqueueMemory, TypeOK, history
    <2>2. CASE PushFull(h)
      BY <2>2 DEF PushFull, TypeOK, history
    <2> QED BY <1>2, <2>1, <2>2
  <1>3. ASSUME NEW h \in Handlers, PushName(h) PROVE Named'
    <2>1. \A g \in Handlers \ {h} : handler'[g] = handler[g]
      BY <1>3 DEF PushName, TypeOK
    <2>2. handler'[h].stage = "push" /\ handler'[h].name = names + 1
      BY <1>3 DEF PushName, TypeOK
    <2>3. UNCHANGED <<disk, pushed, got, refused>> /\ names' = names + 1 /\ names < MaxNames
      BY <1>3 DEF PushName
    <2>4. \A x \in Names : before'[x] = IF x = names + 1 THEN pushed ELSE before[x]
      BY <1>3 DEF PushName, TypeOK
    <2>5. \A g \in Pushing' : handler'[g].name \in 1..names' /\ handler'[g].name \notin pushed'
      BY <2>1, <2>2, <2>3 DEF TypeOK
    <2>6. \A f, g \in Pushing' : handler'[f].name = handler'[g].name => f = g
      BY <2>1, <2>2, <2>3, SMTT(20) DEF TypeOK
    <2>7. \A x \in Names : before'[x] \subseteq pushed' /\ \A y \in before'[x] : y < x
      BY <2>3, <2>4, SMTT(20) DEF TypeOK, Names
    <2> QED BY <2>3, <2>5, <2>6, <2>7, NotifyAssumption DEF TypeOK
  <1>4. ASSUME NEW h \in Handlers, PushRename(h) PROVE Named'
    <2>1. \A g \in Handlers \ {h} : handler'[g] = handler[g]
      BY <1>4 DEF PushRename, TypeOK
    <2>2. handler[h].stage = "push" /\ handler'[h].stage = "kick"
      BY <1>4 DEF PushRename, TypeOK
    <2>3. /\ disk' = disk \cup {handler[h].name} /\ pushed' = pushed \cup {handler[h].name}
          /\ UNCHANGED <<names, got, refused, before>>
      BY <1>4 DEF PushRename
    <2>4. Pushing' = Pushing \ {h} /\ \A g \in Pushing' : handler'[g] = handler[g]
      BY <2>1, <2>2
    <2>5. \A g \in Pushing' : handler'[g].name \in 1..names' /\ handler'[g].name \notin pushed'
      BY <2>2, <2>3, <2>4
    <2>6. \A f, g \in Pushing' : handler'[f].name = handler'[g].name => f = g
      BY <2>4
    <2>7. \A x \in Names : before'[x] \subseteq pushed' /\ \A y \in before'[x] : y < x
      BY <2>3
    <2> QED BY <2>2, <2>3, <2>5, <2>6, <2>7
  <1>5. ASSUME NEW h \in Handlers, PushFails(h) PROVE Named'
    BY <1>5 DEF PushFails, TypeOK, history
  <1>6. ASSUME NEW h \in Handlers, Kick(h) PROVE Named'
    BY <1>6 DEF Kick, TypeOK, history
  <1>7. ASSUME NEW h \in Handlers, HandleReturn(h) PROVE Named'
    BY <1>7 DEF HandleReturn, IdleHandler, TypeOK, history
  <1>8. ASSUME NEW m \in MemWorkers, MemStep(m) PROVE Named'
    BY <1>8, MemLeaves DEF history
  <1>9. CASE WorkerStep
    <2>1. UNCHANGED <<handler, names, pushed, before>>
      BY <1>9, WorkerLeaves DEF WorkerFrame
    <2>2. disk' \subseteq disk /\ got' \subseteq got \cup disk /\ refused' \subseteq refused \cup disk
      BY <1>9, WorkerMoves
    <2> QED BY <2>1, <2>2
  <1>10. CASE Close \/ CloseStep
    BY <1>10, CloseLeaves DEF CloseFrame, history
  <1>11. CASE Restart \/ Crash
    <2>1. \A h \in Handlers : handler'[h].stage = "idle"
      BY <1>11 DEF Restart, Crash, Start, IdleHandler
    <2>2. UNCHANGED <<names, disk, pushed, got, refused, before>>
      BY <1>11 DEF Restart, Crash, Start
    <2> QED BY <2>1, <2>2
  <1> QED BY <1>1, <1>2, <1>3, <1>4, <1>5, <1>6, <1>7, <1>8, <1>9, <1>10, <1>11 DEF Next, HandlerStep

-----------------------------------------------------------------------------
(* Notify: the message in hand and the order of a pass *)

\* Nothing pushed is let go of before it was delivered or given up.
LEMMA KeptStep ==
  ASSUME NInv, Next PROVE Kept'
  <1> TypeOK /\ InHand /\ Kept
    BY DEF NInv
  <1> USE DEF Kept
  <1>1. ASSUME NEW h \in setup.handlers, NEW ts \in SUBSET setup.targets, Handle(h, ts) PROVE Kept'
    BY <1>1 DEF Handle, history
  <1>2. ASSUME NEW h \in Handlers, HandlerStep(h) PROVE Kept'
    BY <1>2 DEF HandlerStep, EnqueueMemory, PushName, PushFull, PushRename, PushFails, Kick, HandleReturn, history
  <1>3. ASSUME NEW m \in MemWorkers, MemStep(m) PROVE Kept'
    BY <1>3, MemLeaves DEF history
  <1>4. CASE WorkerStep
    BY <1>4, WorkerMoves, WorkerLeaves DEF WorkerFrame
  <1>5. CASE Close \/ CloseStep
    BY <1>5, CloseLeaves DEF CloseFrame, history
  <1>6. CASE Restart \/ Crash
    BY <1>6 DEF Restart, Crash, Start
  <1> QED BY <1>1, <1>2, <1>3, <1>4, <1>5, <1>6 DEF Next

\* The worker's pass keeps the message it works on and those to come apart.
LEMMA InHandWorker ==
  ASSUME NInv, WorkerStep PROVE InHand'
  <1> TypeOK /\ InHand
    BY DEF NInv
  <1> USE DEF InHand, TypeOK
  <1>1. CASE WakeKick
    BY <1>1 DEF WakeKick
  <1>2. CASE WakeTick
    BY <1>2 DEF WakeTick
  <1>3. CASE WakeDone
    BY <1>3 DEF WakeDone
  <1>4. CASE List
    BY <1>4 DEF List
  <1>5. CASE ListFails
    BY <1>5 DEF ListFails
  <1>6. CASE PassDone
    BY <1>6 DEF PassDone, EndPass
  <1>7. CASE PassCancelled
    BY <1>7 DEF PassCancelled, EndPass
  <1>8. ASSUME NEW x \in worker.todo, Load(x) PROVE InHand'
    BY <1>8 DEF Load
  <1>9. ASSUME NEW x \in worker.todo, LoadFails(x) PROVE InHand'
    BY <1>9 DEF LoadFails
  <1>10. CASE PostAccepted
    BY <1>10 DEF PostAccepted
  <1>11. CASE PostRefused
    BY <1>11 DEF PostRefused
  <1>12. ASSUME NEW received \in BOOLEAN, PostRetry(received) PROVE InHand'
    BY <1>12 DEF PostRetry
  <1>13. ASSUME NEW received \in BOOLEAN, SendFails(received) PROVE InHand'
    BY <1>13 DEF SendFails, EndPass
  <1>14. CASE Remove
    BY <1>14 DEF Remove
  <1>15. CASE RemoveFails
    BY <1>15 DEF RemoveFails
  <1>16. CASE Dec
    BY <1>16 DEF Dec
  <1> QED BY <1>1, <1>2, <1>3, <1>4, <1>5, <1>6, <1>7, <1>8, <1>9, <1>10, <1>11, <1>12, <1>13,
             <1>14, <1>15, <1>16 DEF WorkerStep

\* No other step takes a file from the worker, and a push adds only a new one.
LEMMA InHandStep ==
  ASSUME NInv, Next PROVE InHand'
  <1> USE DEF InHand
  <1>1. ASSUME NEW h \in setup.handlers, NEW ts \in SUBSET setup.targets, Handle(h, ts) PROVE InHand'
    BY <1>1 DEF Handle, history, NInv
  <1>2. ASSUME NEW h \in Handlers, HandlerStep(h) PROVE InHand'
    <2>1. UNCHANGED <<worker, got, refused>>
      BY <1>2, HandlerLeaves
    <2>2. \/ disk' = disk
          \/ handler[h].stage = "push" /\ disk' = disk \cup {handler[h].name}
      BY <1>2 DEF HandlerStep, EnqueueMemory, PushName, PushFull, PushRename, PushFails, Kick, HandleReturn
    <2>3. handler[h].stage = "push" => handler[h].name \notin got \cup refused
      BY DEF NInv, Named, Pushing
    <2> QED BY <2>1, <2>2, <2>3 DEF NInv
  <1>3. ASSUME NEW m \in MemWorkers, MemStep(m) PROVE InHand'
    BY <1>3, MemLeaves DEF history, NInv
  <1>4. CASE WorkerStep
    BY <1>4, InHandWorker
  <1>5. CASE Close \/ CloseStep
    BY <1>5, CloseLeaves DEF CloseFrame, history, NInv
  <1>6. CASE Restart \/ Crash
    BY <1>6 DEF Restart, Crash, Start, IdleWorker, NInv
  <1> QED BY <1>1, <1>2, <1>3, <1>4, <1>5, <1>6 DEF Next

\* What the worker has to send, now or later in the pass, was named.
LEMMA HandNamed ==
  ASSUME NInv
  PROVE  /\ worker.todo \subseteq Names
         /\ worker.stage = "send" => worker.cur \in Names
         /\ disk \subseteq Names /\ got \subseteq Names
         /\ names + 1 \notin worker.todo \cup disk \cup got
  BY NotifyAssumption DEF NInv, Named, InHand, Names, TypeOK

\* A listing holds every message pushed and not yet done with, and entries are
\* sent in the order of their names: what was pushed before an entry was named
\* is ahead of it.
LEMMA PassOrderWorker ==
  ASSUME NInv, WorkerStep PROVE PassOrder'
  <1> TypeOK /\ InHand /\ PassOrder
    BY DEF NInv
  <1>0. before' = before
    BY WorkerLeaves DEF WorkerFrame
  <1> USE <1>0 DEF PassOrder, Current, TypeOK
  <1>1. CASE WakeKick
    BY <1>1 DEF WakeKick, InHand
  <1>2. CASE WakeTick
    BY <1>2 DEF WakeTick, InHand
  <1>3. CASE WakeDone
    BY <1>3 DEF WakeDone, InHand
  <1>4. CASE List
    <2>1. worker'.todo = disk /\ worker'.stage = "pick" /\ UNCHANGED <<got, refused>>
      BY <1>4 DEF List
    <2>2. \A x \in disk : before[x] \subseteq disk \cup got \cup refused
      BY HandNamed DEF NInv, Named, Kept
    <2> QED BY <2>1, <2>2
  <1>5. CASE ListFails
    BY <1>5 DEF ListFails, InHand
  <1>6. CASE PassDone
    BY <1>6 DEF PassDone, EndPass
  <1>7. CASE PassCancelled
    BY <1>7 DEF PassCancelled, EndPass
  <1>8. ASSUME NEW x \in worker.todo, Load(x) \/ LoadFails(x) PROVE PassOrder'
    <2>1. before[x] \subseteq got \cup refused
      <3>1. before[x] \subseteq got \cup refused \cup worker.todo
        BY <1>8 DEF Load, LoadFails
      <3>2. \A y \in before[x] : y \notin worker.todo
        BY <1>8, HandNamed DEF Load, LoadFails, First, NInv, Named
      <3> QED BY <3>1, <3>2
    <2>2. worker.stage = "pick"
      BY <1>8 DEF Load, LoadFails
    <2>3. CASE Load(x)
      <3>1. /\ worker'.todo = worker.todo \ {x} /\ worker'.stage = "send" /\ worker'.cur = x
            /\ UNCHANGED <<got, refused>>
        BY <2>3 DEF Load
      <3> QED BY <2>1, <2>2, <3>1
    <2>4. CASE LoadFails(x)
      <3>1. /\ worker'.todo = worker.todo \ {x} /\ worker'.stage = "remove"
            /\ got' = got /\ refused' = refused \cup {x}
        BY <2>4 DEF LoadFails
      <3> QED BY <2>2, <3>1
    <2> QED BY <1>8, <2>3, <2>4
  <1>9. CASE PostAccepted
    BY <1>9 DEF PostAccepted
  <1>10. CASE PostRefused
    BY <1>10 DEF PostRefused
  <1>11. ASSUME NEW received \in BOOLEAN, PostRetry(received) PROVE PassOrder'
    BY <1>11 DEF PostRetry
  <1>12. ASSUME NEW received \in BOOLEAN, SendFails(received) PROVE PassOrder'
    BY <1>12 DEF SendFails, EndPass
  <1>13. CASE Remove
    BY <1>13 DEF Remove
  <1>14. CASE RemoveFails
    BY <1>14 DEF RemoveFails
  <1>15. CASE Dec
    BY <1>15 DEF Dec
  <1> QED BY <1>1, <1>2, <1>3, <1>4, <1>5, <1>6, <1>7, <1>8, <1>9, <1>10, <1>11, <1>12, <1>13,
             <1>14, <1>15 DEF WorkerStep

\* A new name is not in the pass under way.
LEMMA PassOrderStep ==
  ASSUME NInv, Next PROVE PassOrder'
  <1> TypeOK /\ PassOrder
    BY DEF NInv
  <1> USE DEF PassOrder, Current
  <1>1. ASSUME NEW h \in setup.handlers, NEW ts \in SUBSET setup.targets, Handle(h, ts) PROVE PassOrder'
    BY <1>1 DEF Handle, history
  <1>2. ASSUME NEW h \in Handlers, HandlerStep(h) PROVE PassOrder'
    <2>1. UNCHANGED <<worker, got, refused>>
      BY <1>2, HandlerLeaves
    <2>2. \A x \in Names \ {names + 1} : before'[x] = before[x]
      BY <1>2 DEF HandlerStep, EnqueueMemory, PushName, PushFull, PushRename, PushFails, Kick, HandleReturn,
                  history, TypeOK
    <2>3. worker.stage = "send" => worker.cur # names + 1
      BY HandNamed DEF NInv, InHand
    <2> QED BY <2>1, <2>2, <2>3, HandNamed
  <1>3. ASSUME NEW m \in MemWorkers, MemStep(m) PROVE PassOrder'
    BY <1>3, MemLeaves DEF history
  <1>4. CASE WorkerStep
    BY <1>4, PassOrderWorker
  <1>5. CASE Close \/ CloseStep
    BY <1>5, CloseLeaves DEF CloseFrame, history
  <1>6. CASE Restart \/ Crash
    BY <1>6 DEF Restart, Crash, Start, IdleWorker
  <1> QED BY <1>1, <1>2, <1>3, <1>4, <1>5, <1>6 DEF Next

\* A message reaches the receiver from the worker's hand, behind all that was
\* pushed before it was named.
LEMMA EarlierFirstStep ==
  ASSUME NInv, Next PROVE EarlierFirst'
  <1> TypeOK /\ InHand /\ EarlierFirst
    BY DEF NInv
  <1> USE DEF EarlierFirst
  <1>1. ASSUME NEW h \in setup.handlers, NEW ts \in SUBSET setup.targets, Handle(h, ts) PROVE EarlierFirst'
    BY <1>1 DEF Handle, history
  <1>2. ASSUME NEW h \in Handlers, HandlerStep(h) PROVE EarlierFirst'
    <2>1. UNCHANGED <<got, refused>>
      BY <1>2, HandlerLeaves
    <2>2. \A x \in Names \ {names + 1} : before'[x] = before[x]
      BY <1>2 DEF HandlerStep, EnqueueMemory, PushName, PushFull, PushRename, PushFails, Kick, HandleReturn,
                  history, TypeOK
    <2> QED BY <2>1, <2>2, HandNamed
  <1>3. ASSUME NEW m \in MemWorkers, MemStep(m) PROVE EarlierFirst'
    BY <1>3, MemLeaves DEF history
  <1>4. CASE WorkerStep
    <2>1. got \subseteq got' /\ refused \subseteq refused' /\ before' = before
      BY <1>4, WorkerMoves, WorkerLeaves DEF NInv, WorkerFrame
    <2>2. \/ got' = got
          \/ worker.stage = "send" /\ got' = got \cup {worker.cur}
      BY <1>4, WorkerMoves
    <2>3. worker.stage = "send" => before[worker.cur] \subseteq got \cup refused
      BY DEF NInv, PassOrder
    <2> QED BY <2>1, <2>2, <2>3
  <1>5. CASE Close \/ CloseStep
    BY <1>5, CloseLeaves DEF CloseFrame, history
  <1>6. CASE Restart \/ Crash
    BY <1>6 DEF Restart, Crash, Start
  <1> QED BY <1>1, <1>2, <1>3, <1>4, <1>5, <1>6 DEF Next

-----------------------------------------------------------------------------
(* Notify: wake-ups *)

\* The worker's pass misses no file that was there when it was listed.
LEMMA AnnouncedWorker ==
  ASSUME NInv, WorkerStep PROVE Announced'
  <1> TypeOK /\ InHand /\ Announced
    BY DEF NInv
  <1> handler' = handler
    BY WorkerLeaves DEF WorkerFrame
  <1> USE DEF Announced, Missed, Kicking, TypeOK
  <1>1. CASE WakeKick
    BY <1>1 DEF WakeKick
  <1>2. CASE WakeTick
    BY <1>2 DEF WakeTick
  <1>3. CASE WakeDone
    BY <1>3 DEF WakeDone
  <1>4. CASE List
    BY <1>4 DEF List
  <1>5. CASE ListFails
    BY <1>5 DEF ListFails
  <1>6. CASE PassDone
    BY <1>6 DEF PassDone, EndPass
  <1>7. CASE PassCancelled
    BY <1>7 DEF PassCancelled
  <1>8. ASSUME NEW x \in worker.todo, Load(x) PROVE Announced'
    BY <1>8 DEF Load
  <1>9. ASSUME NEW x \in worker.todo, LoadFails(x) PROVE Announced'
    BY <1>9 DEF LoadFails
  <1>10. CASE PostAccepted
    BY <1>10 DEF PostAccepted
  <1>11. CASE PostRefused
    BY <1>11 DEF PostRefused
  <1>12. ASSUME NEW received \in BOOLEAN, PostRetry(received) PROVE Announced'
    BY <1>12 DEF PostRetry
  <1>13. ASSUME NEW received \in BOOLEAN, SendFails(received) PROVE Announced'
    BY <1>13 DEF SendFails
  <1>14. CASE Remove
    BY <1>14 DEF Remove, InHand
  <1>15. CASE RemoveFails
    BY <1>15 DEF RemoveFails
  <1>16. CASE Dec
    BY <1>16 DEF Dec, InHand
  <1> QED BY <1>1, <1>2, <1>3, <1>4, <1>5, <1>6, <1>7, <1>8, <1>9, <1>10, <1>11, <1>12, <1>13,
             <1>14, <1>15, <1>16 DEF WorkerStep

\* A handler that adds a file is about to wake the worker, and none does once
\* the last pass may have begun.
LEMMA AnnouncedStep ==
  ASSUME NInv, Next PROVE Announced'
  <1> TypeOK /\ Announced
    BY DEF NInv
  <1> USE DEF Announced, Missed, Kicking
  <1>1. ASSUME NEW h \in setup.handlers, NEW ts \in SUBSET setup.targets, Handle(h, ts) PROVE Announced'
    BY <1>1, NotifyAssumption DEF Handle, history, TypeOK
  <1>2. ASSUME NEW h \in Handlers, HandlerStep(h) PROVE Announced'
    <2>1. UNCHANGED <<worker, failed>>
      BY <1>2, HandlerLeaves
    <2>2. \A g \in Handlers \ {h} : handler'[g] = handler[g]
      BY <1>2 DEF HandlerStep, EnqueueMemory, PushName, PushFull, PushRename, PushFails, Kick, HandleReturn, TypeOK
    <2>3. CASE PushRename(h)
      <3>1. handler'[h].stage = "kick"
        BY <2>3 DEF PushRename, TypeOK
      <3>2. ~worker.last
        BY <2>3 DEF PushRename, NInv, LeaveLast, NoSendOnClosed
      <3> QED BY <2>1, <3>1, <3>2
    <2>4. CASE Kick(h)
      BY <2>1, <2>4 DEF Kick, NInv
    <2>5. CASE EnqueueMemory(h) \/ PushName(h) \/ PushFull(h) \/ PushFails(h) \/ HandleReturn(h)
      <3>1. handler[h].stage # "kick" /\ UNCHANGED <<disk, kick>>
        BY <2>5 DEF EnqueueMemory, PushName, PushFull, PushFails, HandleReturn
      <3> QED BY <2>1, <2>2, <3>1
    <2> QED BY <1>2, <2>3, <2>4, <2>5 DEF HandlerStep
  <1>3. ASSUME NEW m \in MemWorkers, MemStep(m) PROVE Announced'
    BY <1>3, MemLeaves DEF history
  <1>4. CASE WorkerStep
    BY <1>4, AnnouncedWorker
  <1>5. CASE Close \/ CloseStep
    BY <1>5, CloseLeaves DEF CloseFrame, history
  <1>6. CASE Restart \/ Crash
    BY <1>6 DEF Restart, Crash, Start, IdleWorker
  <1> QED BY <1>1, <1>2, <1>3, <1>4, <1>5, <1>6 DEF Next

-----------------------------------------------------------------------------
(* Notify: the count *)

\* What is counted is a finite set of names.
LEMMA CountedFinite ==
  ASSUME NInv
  PROVE  /\ IsFiniteSet(Counted) /\ Counted \subseteq 1..names
         /\ Cardinality(Counted) \in Nat
  <1>1. Counted \subseteq 1..names
    <2>1. disk \subseteq 1..names
      BY DEF NInv, Named
    <2>2. Unborn \subseteq 1..names
      BY DEF NInv, Unborn, Named
    <2>3. worker.stage = "dec" => worker.cur \in 1..names
      BY DEF NInv, Named, InHand
    <2> QED BY <2>1, <2>2, <2>3 DEF Counted
  <1>2. names \in Nat
    BY DEF NInv, TypeOK
  <1>3. IsFiniteSet(1..names)
    BY <1>2, FS_Interval
  <1>4. IsFiniteSet(Counted)
    BY <1>1, <1>3, FS_Subset
  <1> QED BY <1>1, <1>4, FS_CardinalityType

\* So is what starts left out.
LEMMA UncountedFinite ==
  ASSUME NInv
  PROVE  /\ IsFiniteSet(uncounted) /\ Cardinality(uncounted) \in Nat
         /\ uncounted = {} => Cardinality(uncounted) = 0
  <1>1. names \in Nat /\ uncounted \subseteq 1..names
    BY DEF NInv, TypeOK, CountExact
  <1>2. IsFiniteSet(1..names)
    BY <1>1, FS_Interval
  <1>3. IsFiniteSet(uncounted)
    BY <1>1, <1>2, FS_Subset
  <1> QED BY <1>3, FS_CardinalityType, FS_EmptySet

\* A step that leaves the counted set, the count and the limit alone.
LEMMA CountedSame ==
  ASSUME NInv, Counted' = Counted, UNCHANGED <<setup, count, names, uncounted>>
  PROVE  CountExact' /\ CountType'
  BY DEF NInv, CountExact, CountType, TypeOK

\* Handlers: the count goes up with the name, under the lock that looked at
\* the limit, and down with a file that could not be written.
LEMMA CountHandler ==
  ASSUME NInv, NEW h \in Handlers,
         (\E ts \in SUBSET setup.targets : Handle(h, ts)) \/ HandlerStep(h)
  PROVE  CountExact' /\ CountType'
  <1> TypeOK /\ Named
    BY DEF NInv
  <1>a. UNCHANGED <<setup, worker, uncounted>>
    BY HandlerLeaves
  <1>b. setup.limit \in Nat
    BY NotifyAssumption DEF TypeOK
  <1>c. \A g \in Handlers \ {h} : handler'[g] = handler[g]
    BY DEF HandlerStep, Handle, EnqueueMemory, PushName, PushFull, PushRename, PushFails, Kick, HandleReturn, TypeOK
  <1>1. CASE \/ \E ts \in SUBSET setup.targets : Handle(h, ts)
             \/ EnqueueMemory(h) \/ PushFull(h) \/ Kick(h) \/ HandleReturn(h)
    <2>1. handler[h].stage # "push" /\ handler'[h].stage # "push" /\ UNCHANGED <<disk, count, names>>
      <3> USE DEF TypeOK, history
      <3>1. ASSUME NEW ts \in SUBSET setup.targets, Handle(h, ts)
            PROVE  handler[h].stage # "push" /\ handler'[h].stage # "push" /\ UNCHANGED <<disk, count, names>>
        BY <3>1 DEF Handle, IdleHandler
      <3>2. CASE EnqueueMemory(h) \/ PushFull(h)
        BY <3>2 DEF EnqueueMemory, PushFull
      <3>3. CASE Kick(h)
        BY <3>3 DEF Kick
      <3>4. CASE HandleReturn(h)
        BY <3>4 DEF HandleReturn, IdleHandler
      <3> QED BY <1>1, <3>1, <3>2, <3>3, <3>4
    <2>2. Unborn' = Unborn
      BY <1>c, <2>1 DEF Unborn, Pushing
    <2> QED BY <1>a, <2>1, <2>2, CountedSame DEF Counted
  <1>2. CASE PushName(h)
    <2>1. /\ handler[h].stage # "push" /\ handler'[h].stage = "push" /\ handler'[h].name = names + 1
          /\ disk' = disk /\ count' = count + 1 /\ names' = names + 1 /\ ~Full
      BY <1>2 DEF PushName, TypeOK
    <2>2. Unborn' = Unborn \cup {names + 1}
      BY <1>c, <2>1 DEF Unborn, Pushing
    <2>3. Counted' = Counted \cup {names + 1}
      BY <1>a, <2>1, <2>2 DEF Counted
    <2>4. names + 1 \notin Counted
      BY CountedFinite DEF TypeOK
    <2>5. Cardinality(Counted') = Cardinality(Counted) + 1
      BY <2>3, <2>4, CountedFinite, FS_AddElement
    <2>6. uncounted' \subseteq 1..names' /\ uncounted' \subseteq Nat
      BY <1>a, <2>1 DEF NInv, CountExact, TypeOK
    <2>7. Cardinality(uncounted') = Cardinality(uncounted) /\ (uncounted' = {} <=> uncounted = {})
      BY <1>a
    <2> QED BY <1>a, <1>b, <2>1, <2>5, <2>6, <2>7, CountedFinite, UncountedFinite
            DEF NInv, CountExact, CountType, Full, TypeOK
  <1>3. CASE PushRename(h)
    <2>1. /\ handler[h].stage = "push" /\ handler'[h].stage = "kick"
          /\ disk' = disk \cup {handler[h].name} /\ UNCHANGED <<count, names>>
      BY <1>3 DEF PushRename, TypeOK
    <2>2. Unborn = Unborn' \cup {handler[h].name}
      BY <1>c, <2>1 DEF Unborn, Pushing
    <2>3. Counted' = Counted
      BY <1>a, <2>1, <2>2 DEF Counted
    <2> QED BY <1>a, <2>1, <2>3, CountedSame
  <1>4. CASE PushFails(h)
    <2>1. /\ handler[h].stage = "push" /\ handler'[h].stage = "route"
          /\ disk' = disk /\ count' = count - 1 /\ names' = names
      BY <1>4 DEF PushFails, TypeOK, history
    <2>2. Unborn' = Unborn \ {handler[h].name}
      BY <1>c, <2>1 DEF Unborn, Pushing, Named
    <2>3. handler[h].name \in Unborn /\ handler[h].name \notin pushed
      BY <2>1 DEF Unborn, Pushing, Named
    <2>4. worker.stage = "dec" => worker.cur \in pushed
      BY DEF NInv, InHand, Named
    <2>5. Counted' = Counted \ {handler[h].name} /\ handler[h].name \in Counted
      BY <1>a, <2>1, <2>2, <2>3, <2>4 DEF Counted, Named
    <2>6. Cardinality(Counted') = Cardinality(Counted) - 1
      BY <2>5, CountedFinite, FS_RemoveElement
    <2>7. IsFiniteSet(Counted')
      BY <2>5, CountedFinite, FS_RemoveElement
    <2>8. Cardinality(Counted') \in Nat
      BY <2>7, FS_CardinalityType
    <2>9. uncounted' = uncounted /\ uncounted \subseteq Nat
      BY <1>a DEF TypeOK
    <2> QED BY <1>a, <1>b, <2>1, <2>6, <2>8, <2>9, CountedFinite, UncountedFinite
            DEF NInv, CountExact, CountType, TypeOK
  <1> QED BY <1>1, <1>2, <1>3, <1>4 DEF HandlerStep

\* The worker: the count goes down after the file is gone.
LEMMA CountWorker ==
  ASSUME NInv, WorkerStep PROVE CountExact' /\ CountType'
  <1> TypeOK /\ Named /\ InHand
    BY DEF NInv
  <1>a. UNCHANGED <<setup, handler, names, uncounted>>
    BY WorkerLeaves DEF WorkerFrame
  <1>b. Unborn' = Unborn
    BY <1>a DEF Unborn, Pushing
  <1>c. setup.limit \in Nat
    BY NotifyAssumption DEF TypeOK
  <1>1. CASE Remove
    <2>1. /\ disk' = disk \ {worker.cur} /\ worker.stage = "remove" /\ worker'.stage = "dec"
          /\ worker'.cur = worker.cur /\ worker.cur \in disk /\ count' = count
      BY <1>1 DEF Remove, TypeOK, InHand
    <2> QED BY <1>a, <1>b, <2>1, CountedSame DEF Counted
  <1>2. CASE Dec
    <2>1. /\ disk' = disk /\ worker.stage = "dec" /\ worker'.stage = "pick"
          /\ count' = count - 1 /\ worker.cur \notin disk /\ worker.cur \in pushed
      BY <1>2 DEF Dec, TypeOK, InHand, Named
    <2>2. worker.cur \notin Unborn
      BY <2>1 DEF Unborn, Named
    <2>3. Counted' = Counted \ {worker.cur} /\ worker.cur \in Counted
      BY <1>b, <2>1, <2>2 DEF Counted
    <2>4. Cardinality(Counted') = Cardinality(Counted) - 1 /\ IsFiniteSet(Counted')
      BY <2>3, CountedFinite, FS_RemoveElement
    <2>5. Cardinality(Counted') \in Nat
      BY <2>4, FS_CardinalityType
    <2>6. uncounted' = uncounted /\ uncounted \subseteq Nat
      BY <1>a DEF TypeOK
    <2> QED BY <1>a, <1>c, <2>1, <2>4, <2>5, <2>6, CountedFinite, UncountedFinite
            DEF NInv, CountExact, CountType, TypeOK
  <1>3. ASSUME UNCHANGED <<disk, count>>, worker.stage # "dec", worker'.stage # "dec"
        PROVE  CountExact' /\ CountType'
    BY <1>3, <1>a, <1>b, CountedSame DEF Counted
  <1> USE DEF TypeOK
  <1>4. CASE WakeKick \/ WakeTick \/ WakeDone \/ List \/ ListFails
    BY <1>3, <1>4 DEF WakeKick, WakeTick, WakeDone, List, ListFails
  <1>5. CASE PassDone \/ PassCancelled
    BY <1>3, <1>5 DEF PassDone, PassCancelled, EndPass
  <1>6. ASSUME NEW x \in worker.todo, Load(x) \/ LoadFails(x) PROVE CountExact' /\ CountType'
    BY <1>3, <1>6 DEF Load, LoadFails
  <1>7. CASE PostAccepted \/ PostRefused
    BY <1>3, <1>7 DEF PostAccepted, PostRefused
  <1>8. ASSUME NEW received \in BOOLEAN, PostRetry(received) PROVE CountExact' /\ CountType'
    BY <1>3, <1>8 DEF PostRetry
  <1>9. ASSUME NEW received \in BOOLEAN, SendFails(received) PROVE CountExact' /\ CountType'
    BY <1>3, <1>9 DEF SendFails, EndPass
  <1>10. CASE RemoveFails
    BY <1>3, <1>10 DEF RemoveFails
  <1> QED BY <1>1, <1>2, <1>4, <1>5, <1>6, <1>7, <1>8, <1>9, <1>10 DEF WorkerStep

\* The count is exact, and within the limit, after every step; a start counts
\* what the directory holds.
LEMMA CountStep ==
  ASSUME NInv, Next PROVE CountExact' /\ CountType'
  <1>1. ASSUME NEW h \in setup.handlers, NEW ts \in SUBSET setup.targets, Handle(h, ts)
        PROVE  CountExact' /\ CountType'
    <2>1. h \in Handlers
      BY <1>1, NotifyAssumption DEF NInv, TypeOK
    <2> QED BY <1>1, <2>1, CountHandler
  <1>2. ASSUME NEW h \in Handlers, HandlerStep(h) PROVE CountExact' /\ CountType'
    BY <1>2, CountHandler
  <1>3. ASSUME NEW m \in MemWorkers, MemStep(m) PROVE CountExact' /\ CountType'
    BY <1>3, MemLeaves, CountedSame DEF Counted, Unborn, Pushing, history
  <1>4. CASE WorkerStep
    BY <1>4, CountWorker
  <1>5. CASE Close \/ CloseStep
    BY <1>5, CloseLeaves, CountedSame DEF CloseFrame, Counted, Unborn, Pushing, history
  <1>6. CASE Restart \/ Crash
    <2>1. Start /\ UNCHANGED <<setup, disk, names>>
      BY <1>6 DEF Restart, Crash, Start
    <2>2. Counted' = disk
      BY <2>1 DEF Start, Counted, Unborn, Pushing, IdleHandler, IdleWorker
    <2>3. disk \subseteq Counted /\ disk \subseteq 1..names /\ uncounted \subseteq 1..names /\ names \in Nat
      BY CountedFinite DEF Counted, NInv, CountExact, TypeOK
    <2>4. IsFiniteSet(disk) /\ Cardinality(disk) <= Cardinality(Counted)
      BY <2>3, CountedFinite, FS_Subset
    <2>5. Cardinality(disk) \in Nat
      BY <2>4, FS_CardinalityType
    <2>6. setup.limit \in Nat
      BY NotifyAssumption DEF NInv, TypeOK
    <2>7. CASE count' = Cardinality(disk) /\ uncounted' = uncounted
      BY <2>1, <2>2, <2>3, <2>4, <2>5, <2>6, <2>7, CountedFinite, UncountedFinite
         DEF NInv, CountExact, CountType, TypeOK
    <2>8. CASE count' = 0 /\ uncounted' = uncounted \cup disk
      <3>1. uncounted' \subseteq 1..names /\ uncounted' \subseteq Nat
        BY <2>3, <2>8
      <3>2. IsFiniteSet(uncounted')
        <4>1. IsFiniteSet(1..names)
          BY <2>3, FS_Interval
        <4> QED BY <3>1, <4>1, FS_Subset
      <3>3. Cardinality(disk) <= Cardinality(uncounted') /\ Cardinality(uncounted') \in Nat
        BY <2>8, <3>2, FS_Subset, FS_CardinalityType
      <3>4. Counted' = disk /\ Cardinality(Counted') = Cardinality(disk)
        BY <2>2
      <3> QED BY <2>1, <2>5, <2>6, <2>8, <3>1, <3>3, <3>4 DEF CountExact, CountType
    <2> QED BY <2>1, <2>7, <2>8 DEF Start, Recount
  <1> QED BY <1>1, <1>2, <1>3, <1>4, <1>5, <1>6 DEF Next

-----------------------------------------------------------------------------
(* The theorems about Notify *)

\* The first start satisfies the inductive invariant.
LEMMA InitNInv == Init => NInv
  <1> SUFFICES ASSUME Init PROVE NInv
    OBVIOUS
  <1>1. TypeOK
    BY InitType
  <1>2. NoSendOnClosed /\ StoppedAfterWorkers
    BY DEF Init, NoSendOnClosed, StoppedAfterWorkers, Closed
  <1>3. LeaveLast /\ InHand /\ PassOrder
    BY DEF Init, LeaveLast, InHand, PassOrder, IdleWorker
  <1>4. Pushing = {}
    BY DEF Init, Pushing, IdleHandler
  <1>5. Named /\ Kept /\ EarlierFirst
    BY <1>4, NotifyAssumption DEF Init, Named, Kept, EarlierFirst
  <1>6. Counted = {} /\ uncounted = {}
    BY <1>4 DEF Init, Counted, Unborn, IdleWorker
  <1>7. CountExact
    <2>1. setup.limit \in Nat
      BY NotifyAssumption DEF Init
    <2> QED BY <1>6, <2>1, FS_EmptySet DEF Init, CountExact
  <1>8. Announced
    BY DEF Init, Announced, Missed
  <1> QED BY <1>1, <1>2, <1>3, <1>5, <1>7, <1>8 DEF NInv

\* A step that leaves everything alone keeps the invariant.
LEMMA StutterNInv == ASSUME NInv, UNCHANGED vars PROVE NInv'
  <1> USE DEF vars
  <1>1. TypeOK' /\ NoSendOnClosed' /\ LeaveLast' /\ Kept' /\ InHand' /\ EarlierFirst'
    BY DEF NInv, TypeOK, NoSendOnClosed, LeaveLast, Kept, InHand, EarlierFirst, Closed
  <1>2. Named' /\ PassOrder' /\ Announced' /\ StoppedAfterWorkers'
    BY DEF NInv, Named, Pushing, PassOrder, Current, Announced, Missed, Kicking, StoppedAfterWorkers, WorkersGone
  <1>3. CountExact'
    BY DEF NInv, CountExact, Counted, Unborn, Pushing
  <1> QED BY <1>1, <1>2, <1>3 DEF NInv

\* Every step keeps it.
LEMMA NextNInv == ASSUME NInv, [Next]_vars PROVE NInv'
  <1>1. CASE UNCHANGED vars
    BY <1>1, StutterNInv
  <1>2. CASE Next
    <2>1. CountExact' /\ CountType'
      BY <1>2, CountStep
    <2>2. TypeOK'
      <3> TypeOK /\ setup.handlers \subseteq Handlers
        BY NotifyAssumption DEF NInv, TypeOK
      <3> QED BY <1>2, <2>1, HandlerType, WorkerType, OtherType DEF Next, Restart, Crash
    <2> QED BY <1>2, <2>1, <2>2, NoSendOnClosedStep, LeaveLastStep, StoppedAfterWorkersStep, NamedStep,
               KeptStep, InHandStep, PassOrderStep, EarlierFirstStep, AnnouncedStep DEF NInv
  <1> QED BY <1>1, <1>2

\* The inductive invariant holds in every state.
LEMMA NotifyInvariant == Spec => []NInv
  BY InitNInv, NextNInv, PTL DEF Spec

\* Types: for any handlers, workers, limits and bounds, the dispatcher, its
\* queues and its workers are only ever where their code can be; in particular
\* diskQueue.count goes below zero only after a start that could not read the
\* queue directory.
THEOREM TypeCorrect == Spec => []TypeOK
  <1>1. NInv => TypeOK
    BY DEF NInv
  <1> QED BY <1>1, NotifyInvariant, PTL

\* Handle and Close: no handler is ever at work on a closed dispatcher, so
\* none sends on a closed channel.
THEOREM ClosedIsQuiet == Spec => []NoSendOnClosed
  <1>1. NInv => NoSendOnClosed
    BY DEF NInv
  <1> QED BY <1>1, NotifyInvariant, PTL

\* push, remove and openDiskQueue: the queue directory never holds more files
\* than its limit and those that starts which could not read it left uncounted,
\* whatever else races, fails or crashes.
THEOREM DirectoryBounded == Spec => []QueueBounded
  <1>1. ASSUME NInv PROVE QueueBounded
    <2>1. disk \in SUBSET Counted
      BY DEF Counted
    <2>2. IsFiniteSet(disk) /\ Cardinality(disk) <= Cardinality(Counted)
      BY <1>1, <2>1, CountedFinite, FS_Subset
    <2>3. Cardinality(disk) \in Nat /\ Cardinality(Counted) \in Nat /\ setup.limit \in Nat
      BY <1>1, <2>2, CountedFinite, FS_CardinalityType, NotifyAssumption DEF NInv, TypeOK
    <2> QED BY <1>1, <2>2, <2>3, UncountedFinite DEF NInv, CountExact, QueueBounded
  <1> QED BY <1>1, NotifyInvariant, PTL

\* runPersistent: no wake-up is lost, however pushes and passes interleave.
THEOREM WakeupsKept == Spec => []NoLostWakeup
  <1>1. ASSUME NInv PROVE NoLostWakeup
    BY <1>1 DEF NInv, NoLostWakeup, Announced, Missed, Kicking, InHand
  <1> QED BY <1>1, NotifyInvariant, PTL

\* drain and Close: a Close that was not cut short leaves nothing in memory, and
\* on disk only what a failed pass kept there.
THEOREM CloseDrains == Spec => []DrainedOnClose
  <1>1. ASSUME NInv PROVE DrainedOnClose
    <2> SUFFICES ASSUME closing = "stopped" PROVE ch = 0 /\ (disk = {} \/ failed)
      BY DEF DrainedOnClose
    <2>1. worker.stage = "gone" /\ worker.last /\ \A m \in MemWorkers : memw[m] = "gone" /\ ch = 0
      BY <1>1 DEF NInv, StoppedAfterWorkers, WorkersGone, LeaveLast
    <2>2. worker.todo = {}
      BY <1>1, <2>1 DEF NInv, InHand
    <2>3. disk = {} \/ failed
      BY <1>1, <2>1, <2>2 DEF NInv, Announced, Missed
    <2> QED BY <2>1, <2>3, NotifyAssumption
  <1> QED BY <1>1, NotifyInvariant, PTL

\* list and drain: a message whose push was over before another one was named
\* is received, or given up, before it.
THEOREM PushOrderKept == Spec => []EarlierFirst
  <1>1. NInv => EarlierFirst
    BY DEF NInv
  <1> QED BY <1>1, NotifyInvariant, PTL

\* The persistent target implements a durable queue that delivers at least
\* once: a rename accepts a message, an answer receives or refuses it, its
\* removal forgets it, and no other step shows.
THEOREM QueueRefinement == Spec => ImplementsDurableQueue
  <1>1. Init => Queue!QInit
    BY DEF Init, Queue!QInit
  <1>2. ASSUME NInv, [Next]_vars PROVE [Queue!QNext]_(Queue!qvars)
    <2> TypeOK /\ InHand /\ Named
      BY <1>2 DEF NInv
    <2> USE DEF Queue!qvars
    <2>1. ASSUME NEW h \in Handlers, PushRename(h) PROVE Queue!QNext
      <3> DEFINE x == handler[h].name
      <3>1. x \in Names /\ x \notin pushed
        BY <2>1, NotifyAssumption DEF PushRename, Named, Pushing, Names, TypeOK
      <3>2. Queue!Accept(x)
        BY <2>1, <3>1 DEF PushRename, Queue!Accept
      <3> QED BY <3>1, <3>2 DEF Queue!QNext
    <2>2. ASSUME NEW h \in Handlers,
                 \/ \E ts \in SUBSET setup.targets : Handle(h, ts)
                 \/ EnqueueMemory(h) \/ PushName(h) \/ PushFull(h) \/ PushFails(h) \/ Kick(h) \/ HandleReturn(h)
          PROVE  UNCHANGED Queue!qvars
      BY <2>2 DEF Handle, EnqueueMemory, PushName, PushFull, PushFails, Kick, HandleReturn, history
    <2>3. CASE WorkerStep
      <3>1. pushed' = pushed
        BY <2>3, WorkerLeaves DEF WorkerFrame
      <3>2. disk \subseteq Names
        BY <1>2, HandNamed
      <3>3. CASE UNCHANGED <<disk, got, refused>>
        BY <3>1, <3>3
      <3>4. ASSUME NEW x \in disk, got' = got \cup {x}, UNCHANGED <<disk, refused>> PROVE Queue!QNext
        BY <3>1, <3>2, <3>4 DEF Queue!QNext, Queue!Receive
      <3>5. ASSUME NEW x \in disk, refused' = refused \cup {x}, UNCHANGED <<disk, got>> PROVE Queue!QNext
        BY <3>1, <3>2, <3>5 DEF Queue!QNext, Queue!Refuse
      <3>6. ASSUME NEW x \in disk \cap (got \cup refused), disk' = disk \ {x}, UNCHANGED <<got, refused>>
            PROVE  Queue!QNext
        BY <3>1, <3>2, <3>6 DEF Queue!QNext, Queue!Forget
      <3> QED BY <2>3, <3>3, <3>4, <3>5, <3>6, WorkerMoves
    <2>4. ASSUME NEW m \in MemWorkers, MemStep(m) PROVE UNCHANGED Queue!qvars
      BY <2>4, MemLeaves DEF history
    <2>5. CASE Close \/ CloseStep
      BY <2>5, CloseLeaves DEF CloseFrame, history
    <2>6. CASE Restart \/ Crash
      BY <2>6 DEF Restart, Crash, Start
    <2>7. CASE UNCHANGED vars
      BY <2>7 DEF vars
    <2>8. setup.handlers \subseteq Handlers
      BY NotifyAssumption DEF TypeOK
    <2> QED BY <1>2, <2>1, <2>2, <2>3, <2>4, <2>5, <2>6, <2>7, <2>8 DEF Next, HandlerStep
  <1> QED BY <1>1, <1>2, NotifyInvariant, PTL DEF Spec, ImplementsDurableQueue, Queue!QSpec
=============================================================================
