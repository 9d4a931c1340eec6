---------------------------- MODULE RequestProofs ----------------------------
(***************************************************************************)
(* Proofs about Access, BucketConfig, Glob and ObjectRead.                  *)
(*                                                                         *)
(* For any buckets, keys, requests and policies, what a request hands out,  *)
(* changes or copies is what it was authorised for, although what it was    *)
(* authorised with may have been replaced since.                            *)
(*                                                                         *)
(* For any documents, callers and requests, no update of a configuration is *)
(* lost and none goes to another bucket; root cannot be locked out          *)
(* unconfirmed; a bucket that is not reported as public is closed.          *)
(*                                                                         *)
(* For any pattern and text, the policies' matcher says yes only if they    *)
(* fit, and no only if they do not, as long as the text holds no star.      *)
(*                                                                         *)
(* For any layout of parts, sizes of chunks and buffers, and any range, a   *)
(* reader returns the bytes asked for and no others.                        *)
(***************************************************************************)
EXTENDS Access, BucketConfig, Glob, ObjectRead, FiniteSetTheorems, WellFoundedInduction, TLAPS

-----------------------------------------------------------------------------
(* Access: the inductive invariant *)

Grant == [to: Callers \cup {AllUsers, AuthenticatedUsers}, may: {"FULL_CONTROL", "READ", "WRITE"}]

BucketRecord ==
  [id: Nat, owner: Callers, policy: Policies \cup {{}}, selfLock: {FALSE}, acl: SUBSET Grant,
   ownership: Ownership \cup {"", "ObjectWriter"}, block: Blocks \cup {NoBlock}]

ObjectRecord == [seq: Nat, home: Nat, owner: Callers, acl: SUBSET Grant, tag: Tags]

Stages == {"idle", "bucket", "object", "each", "delete", "go", "update", "source", "read", "check",
           "commit", "done"}

\* Answers that say that nothing was read or changed.
Refusals == {"", "NoSuchBucket", "NoSuchKey", "AccessDenied", "changed", "ok", "NotSupported"}

RequestRecord ==
  [op: Ops \cup {"none"}, who: Callers, at: Places \cup {<<>>}, from: Places \cup {<<>>},
   acl: Acls \cup {""}, tag: Tags, pc: Stages, b: BucketRecord, o: ObjectRecord,
   grant: {"NoGrant", "Refused", "ByPolicy", "ByACL"}, sb: BucketRecord, so: ObjectRecord,
   got: ObjectRecord, owner: Callers, answer: Refusals \cup {"served", "written", "deleted", "updated"}]

\* The decision, by the bucket record that the request was authorised with.
Permits(q, o) == Allowed(May(q.who, ActionOf[q.op], q.at, q.b, o))
PermitsSource(q) == Allowed(May(q.who, "GetObject", q.from, q.sb, q.so))

\* No bucket of this name that is created from now on has an ID up to id.
Passed(id, b, ck) == id < ck /\ (b # NoBucket => id <= b.id)

\* What the properties say of one request.
Acted(q) ==
  /\ q.answer = "served" => Admitted(q)
  /\ q.answer = "updated" \/ (q.op = "DeleteVersion" /\ q.answer = "deleted" /\ q.got # NoObject) =>
       /\ q.got.home = q.b.id
       /\ q.o = NoObject \/ Admitted(q)

Copied(q) ==
  q.op = "CopyObject" /\ (q.pc = "commit" \/ q.answer = "written") =>
    /\ q.got.home = q.sb.id
    /\ q.so # NoObject => q.got.seq = q.so.seq
    /\ Allowed(May(q.who, "GetObject", q.from, q.sb, q.so))

\* Which operation gets where.
Staged(q) ==
  /\ q.pc # "idle" => q.op \in Ops /\ q.at \in Places /\ q.from \in Places
  /\ q.pc # "done" => q.answer = ""
  /\ q.pc \in {"each", "delete"} => q.op = "DeleteObjects"
  /\ q.pc \in {"source", "read", "check"} => q.op = "CopyObject"
  /\ q.pc = "update" => q.op \in Looks

\* What was decided before the request came to where it is.
Decided(q) ==
  /\ q.pc = "go" => Permits(q, q.o)
  /\ q.pc = "update" => q.o = NoObject \/ Permits(q, q.o)
  /\ q.pc \in {"read", "check"} => PermitsSource(q)

\* A copy: the bucket of its source was there before what was read from it was,
\* and that before the bucket that is there now.
Traced(q, b, ck) ==
  /\ q.pc \in {"source", "read"} => Passed(q.sb.id, b, ck)
  /\ q.pc = "check" => q.sb.id <= q.got.home /\ Passed(q.got.home, b, ck)

RequestOK(q, bk, ck) ==
  /\ q \in RequestRecord
  /\ Staged(q)
  /\ Decided(q)
  /\ q.op = "CopyObject" /\ q.from \in Places => Traced(q, bk[q.from[1]], ck)
  /\ Acted(q)
  /\ Copied(q)

\* The buckets are of different ages, and a version is of the bucket it is in.
StoreOK ==
  /\ bucket \in [Buckets -> BucketRecord]
  /\ object \in [Places -> ObjectRecord]
  /\ clock \in Nat \ {0}
  /\ \A n \in Buckets : bucket[n].id < clock /\ (bucket[n] # NoBucket => bucket[n].id > 0)
  /\ \A p \in Places : object[p] # NoObject =>
       bucket[p[1]] # NoBucket /\ object[p].home = bucket[p[1]].id

AInv ==
  /\ StoreOK
  /\ req \in [Reqs -> RequestRecord]
  /\ \A r \in Reqs : RequestOK(req[r], bucket, clock)

-----------------------------------------------------------------------------
(* Records *)

\* The records that stand for none.
LEMMA Nothing ==
  /\ NoBucket \in BucketRecord /\ NoBucket.id = 0
  /\ NoObject \in ObjectRecord /\ NoObject.seq = 0 /\ NoObject.home = 0 /\ NoObject.tag = 0
  /\ Nobody \in Callers
  BY DEF NoBucket, BucketRecord, NoObject, ObjectRecord, Callers, Tags

\* cannedACL makes grants.
LEMMA CannedGrants ==
  ASSUME NEW name, NEW who \in Callers, NEW owner \in Callers
  PROVE  CannedACL(name, who, owner) \in SUBSET Grant
  <1>1. \A to \in Callers \cup {AllUsers, AuthenticatedUsers} :
          \A may \in {"FULL_CONTROL", "READ", "WRITE"} : [to |-> to, may |-> may] \in Grant
    BY DEF Grant
  <1> QED BY <1>1 DEF CannedACL

\* A new bucket has the ID and the owner it is given.
LEMMA NewBuckets ==
  ASSUME NEW id \in Nat, NEW owner \in Users
  PROVE  NewBucket(id, owner) \in BucketRecord /\ NewBucket(id, owner).id = id
  <1>1. owner \in Callers /\ [to |-> owner, may |-> "FULL_CONTROL"] \in Grant
    BY DEF Callers, Grant
  <1>2. {[to |-> owner, may |-> "FULL_CONTROL"]} \in SUBSET Grant
    BY <1>1
  <1> QED BY <1>1, <1>2, Nothing DEF NewBucket, BucketRecord

\* A version as it is put.
LEMMA NewVersions ==
  ASSUME NEW seq \in Nat, NEW b \in BucketRecord, NEW who \in Callers, NEW acl, NEW tag \in Tags
  PROVE  Version(seq, b, who, acl, tag) \in ObjectRecord /\ Version(seq, b, who, acl, tag).home = b.id
  <1>1. b.owner \in Callers /\ b.id \in Nat
    BY DEF BucketRecord
  <1>2. CannedACL(acl, who, b.owner) \in SUBSET Grant
    BY <1>1, CannedGrants
  <1> QED BY <1>1, <1>2 DEF Version, ObjectRecord

\* A request that has not begun.
LEMMA IdleRequest == \A bk, ck : RequestOK(Idle, bk, ck)
  <1>1. /\ Idle \in RequestRecord /\ Idle.pc = "idle" /\ Idle.op = "none" /\ Idle.answer = ""
    <2>1. <<>> \in Places \cup {<<>>} /\ 0 \in Tags
      BY DEF Tags
    <2> QED BY <2>1, Nothing DEF Idle, RequestRecord, Stages, Refusals
  <1> QED BY <1>1 DEF RequestOK, Staged, Decided, Acted, Copied

\* A decision is one of these.
LEMMA Decisions ==
  ASSUME NEW who, NEW action, NEW place, NEW b, NEW o
  PROVE  May(who, action, place, b, o) \in {"NoGrant", "Refused", "ByPolicy", "ByACL"}
  BY DEF May, Decide
-----------------------------------------------------------------------------
(* Steps of one request, and of the others *)

\* What a step may do to the buckets as far as copies under way are concerned.
Moves ==
  \A n \in Buckets : \A id \in Nat : Passed(id, bucket[n], clock) => Passed(id, bucket'[n], clock')

\* A request that does not move keeps what is known of it.
LEMMA RequestKept ==
  ASSUME NEW q, RequestOK(q, bucket, clock), Moves PROVE RequestOK(q, bucket', clock')
  <1>1. q \in RequestRecord /\ q.sb.id \in Nat /\ q.got.home \in Nat
    BY DEF RequestOK, RequestRecord, BucketRecord, ObjectRecord
  <1>2. ASSUME q.op = "CopyObject", q.from \in Places PROVE Traced(q, bucket'[q.from[1]], clock')
    <2>1. q.from[1] \in Buckets
      BY <1>2 DEF Places
    <2>2. Traced(q, bucket[q.from[1]], clock)
      BY <1>2 DEF RequestOK
    <2> QED BY <1>1, <2>1, <2>2 DEF Traced, Moves
  <1> QED BY <1>2 DEF RequestOK

\* Other requests change the store.
LEMMA OthersKeep ==
  ASSUME AInv, UNCHANGED req, StoreOK', Moves PROVE AInv'
  <1>1. \A r \in Reqs : RequestOK(req[r], bucket', clock')
    BY RequestKept DEF AInv
  <1>2. \A r \in Reqs : RequestOK(req'[r], bucket', clock')
    BY <1>1
  <1> QED BY <1>2 DEF AInv, RequestOK, Staged, Decided, Traced, Acted, Copied, Admitted, Permits, PermitsSource, Passed

\* One request takes a step.
LEMMA RequestStep ==
  ASSUME AInv, NEW r \in Reqs, NEW n, Step(r, n), RequestOK(n, bucket', clock'), StoreOK', Moves
  PROVE  AInv'
  <1>1. req \in [Reqs -> RequestRecord] /\ req' = [req EXCEPT ![r] = n] /\ n \in RequestRecord
    BY DEF AInv, Step, RequestOK
  <1>2. req' \in [Reqs -> RequestRecord]
    BY <1>1
  <1>3. \A x \in Reqs : RequestOK(req[x], bucket', clock')
    BY RequestKept DEF AInv
  <1>4. \A x \in Reqs : RequestOK(req'[x], bucket', clock')
    BY <1>1, <1>3
  <1> QED BY <1>2, <1>4 DEF AInv, RequestOK, Staged, Decided, Traced, Acted, Copied, Admitted, Permits, PermitsSource, Passed

\* A step that leaves the store alone.
LEMMA StoreKept ==
  ASSUME AInv, UnchangedStore PROVE StoreOK' /\ Moves
  BY DEF AInv, StoreOK, UnchangedStore, Moves

\* What is known of a request where it stands.
LEMMA RequestFacts ==
  ASSUME AInv, NEW r \in Reqs, req[r].pc # "idle"
  PROVE  /\ RequestOK(req[r], bucket, clock) /\ req[r] \in RequestRecord
         /\ req[r].op \in Ops /\ req[r].at \in Places /\ req[r].from \in Places
         /\ req[r].at[1] \in Buckets /\ req[r].from[1] \in Buckets
         /\ object[req[r].at] \in ObjectRecord /\ object[req[r].from] \in ObjectRecord
         /\ bucket[req[r].at[1]] \in BucketRecord /\ bucket[req[r].from[1]] \in BucketRecord
         /\ req[r].pc # "done" => req[r].answer = ""
  <1>1. RequestOK(req[r], bucket, clock) /\ req[r] \in RequestRecord
    BY DEF AInv
  <1>2. /\ req[r].op \in Ops /\ req[r].at \in Places /\ req[r].from \in Places
        /\ req[r].pc # "done" => req[r].answer = ""
    BY <1>1 DEF RequestOK, Staged
  <1>3. req[r].at[1] \in Buckets /\ req[r].from[1] \in Buckets
    BY <1>2 DEF Places
  <1> QED BY <1>1, <1>2, <1>3 DEF AInv, StoreOK

\* A request that is answered without having read or changed anything.
LEMMA AnswerStep ==
  ASSUME AInv, NEW r \in Reqs, req[r].pc \notin {"idle", "done"}, NEW a \in Refusals, Answer(r, a), UnchangedStore
  PROVE  AInv'
  <1> DEFINE q == req[r]
             n == [Goto(r, "done") EXCEPT !.answer = a]
  <1>1. q \in RequestRecord /\ q.op \in Ops /\ q.at \in Places /\ q.from \in Places
    BY RequestFacts
  <1>2. /\ n \in RequestRecord /\ n.pc = "done" /\ n.answer = a
        /\ n.op = q.op /\ n.at = q.at /\ n.from = q.from
    BY <1>1 DEF Goto, RequestRecord, Stages
  <1>3. Step(r, n)
    BY DEF Answer
  <1> HIDE DEF n
  <1>4. RequestOK(n, bucket', clock')
    BY <1>1, <1>2 DEF RequestOK, Staged, Decided, Traced, Acted, Copied, Refusals
  <1> QED BY <1>3, <1>4, StoreKept, RequestStep

\* A version is written, changed or removed in a live bucket.
LEMMA ObjectWrite ==
  ASSUME AInv, NEW p \in Places, NEW o \in ObjectRecord, object' = [object EXCEPT ![p] = o], UNCHANGED bucket,
         clock' \in {clock, clock + 1},
         o = NoObject \/ (bucket[p[1]] # NoBucket /\ o.home = bucket[p[1]].id)
  PROVE  StoreOK' /\ Moves
  <1>1. /\ bucket \in [Buckets -> BucketRecord] /\ object \in [Places -> ObjectRecord] /\ clock \in Nat \ {0}
        /\ \A n \in Buckets : bucket[n].id \in Nat /\ bucket[n].id < clock /\ (bucket[n] # NoBucket => bucket[n].id > 0)
        /\ \A x \in Places : object[x] # NoObject => bucket[x[1]] # NoBucket /\ object[x].home = bucket[x[1]].id
    BY DEF AInv, StoreOK, BucketRecord
  <1>2. object' \in [Places -> ObjectRecord] /\ clock' \in Nat \ {0} /\ clock <= clock'
    BY <1>1
  <1>3. \A x \in Places : object'[x] # NoObject => bucket[x[1]] # NoBucket /\ object'[x].home = bucket[x[1]].id
    BY <1>1
  <1>4. \A n \in Buckets : bucket[n].id < clock'
    BY <1>1, <1>2
  <1>5. Moves
    BY <1>1, <1>2 DEF Moves, Passed
  <1>6. NoObject' = NoObject /\ NoBucket' = NoBucket
    BY DEF NoObject, NoBucket, NoBlock
  <1> QED BY <1>1, <1>2, <1>3, <1>4, <1>5, <1>6 DEF StoreOK

\* A bucket is created, deleted or changed.
LEMMA BucketWrite ==
  ASSUME AInv, NEW n \in Buckets, NEW b \in BucketRecord, bucket' = [bucket EXCEPT ![n] = b], UNCHANGED object,
         \/ bucket[n] = NoBucket /\ b.id = clock /\ clock' = clock + 1
         \/ b = NoBucket /\ clock' = clock /\ \A p \in Places : p[1] = n => object[p] = NoObject
         \/ bucket[n] # NoBucket /\ b.id = bucket[n].id /\ clock' = clock
  PROVE  StoreOK' /\ Moves
  <1>1. /\ bucket \in [Buckets -> BucketRecord] /\ object \in [Places -> ObjectRecord] /\ clock \in Nat \ {0}
        /\ \A m \in Buckets : bucket[m].id \in Nat /\ bucket[m].id < clock /\ (bucket[m] # NoBucket => bucket[m].id > 0)
        /\ \A x \in Places : x[1] \in Buckets /\ (object[x] # NoObject => bucket[x[1]] # NoBucket /\ object[x].home = bucket[x[1]].id)
    BY DEF AInv, StoreOK, BucketRecord, Places
  <1>2. bucket' \in [Buckets -> BucketRecord] /\ clock' \in Nat \ {0} /\ clock <= clock'
    BY <1>1
  <1>3. /\ b.id \in Nat /\ b.id < clock' /\ (b # NoBucket => b.id > 0)
        /\ bucket[n] # NoBucket /\ b.id = bucket[n].id => b # NoBucket
    <2>1. b.id \in Nat
      BY DEF BucketRecord
    <2>2. bucket[n].id \in Nat /\ bucket[n].id < clock /\ (bucket[n] # NoBucket => bucket[n].id > 0)
      BY <1>1
    <2>3. b = NoBucket => b.id = 0
      BY Nothing
    <2>4. CASE bucket[n] = NoBucket /\ b.id = clock /\ clock' = clock + 1
      BY <1>1, <2>4
    <2>5. CASE b = NoBucket /\ clock' = clock
      BY <1>1, <2>2, <2>3, <2>5
    <2>6. CASE bucket[n] # NoBucket /\ b.id = bucket[n].id /\ clock' = clock
      BY <1>1, <2>2, <2>3, <2>6
    <2> QED BY <2>4, <2>5, <2>6
  <1>4. \A m \in Buckets : bucket'[m].id < clock' /\ (bucket'[m] # NoBucket => bucket'[m].id > 0)
    BY <1>1, <1>2, <1>3
  <1>5. \A x \in Places : object[x] # NoObject => bucket'[x[1]] # NoBucket /\ object[x].home = bucket'[x[1]].id
    BY <1>1, <1>3
  <1>6. ASSUME NEW m \in Buckets, NEW id \in Nat, Passed(id, bucket[m], clock) PROVE Passed(id, bucket'[m], clock')
    <2>1. CASE m = n
      BY <1>1, <1>3, <1>6, <2>1 DEF Passed
    <2>2. CASE m # n
      BY <1>1, <1>2, <1>6, <2>2 DEF Passed
    <2> QED BY <2>1, <2>2
  <1>7. NoObject' = NoObject /\ NoBucket' = NoBucket
    BY DEF NoObject, NoBucket, NoBlock
  <1>8. StoreOK'
    BY <1>1, <1>2, <1>4, <1>5, <1>7 DEF StoreOK
  <1> QED BY <1>6, <1>8 DEF Moves
-----------------------------------------------------------------------------
(* Authorisation *)

\* A request begins.
LEMMA BeginStep ==
  ASSUME AInv, NEW r \in Reqs, NEW op \in Ops, NEW who \in Callers, NEW at \in Places, NEW from \in Places,
         NEW acl \in Acls, NEW tag \in Tags, Begin(r, op, who, at, from, acl, tag)
  PROVE  AInv'
  <1> DEFINE n == [Idle EXCEPT !.op = op, !.who = who, !.at = at, !.from = from,
                               !.acl = acl, !.tag = tag, !.pc = "bucket"]
  <1>1. Step(r, n) /\ UnchangedStore
    BY DEF Begin
  <1>2. Idle \in RequestRecord /\ Idle.answer = ""
    BY IdleRequest DEF RequestOK, Idle
  <1>3. n \in RequestRecord /\ n.pc = "bucket" /\ n.op = op /\ n.at = at /\ n.from = from /\ n.answer = ""
    BY <1>2 DEF RequestRecord, Stages
  <1> HIDE DEF n
  <1>4. RequestOK(n, bucket', clock')
    BY <1>3 DEF RequestOK, Staged, Decided, Traced, Acted, Copied
  <1> QED BY <1>1, <1>4, StoreKept, RequestStep

\* A request moves on, to a stage before its decision.
LEMMA EarlyStep ==
  ASSUME AInv, NEW r \in Reqs, req[r].pc \notin {"idle", "done"}, UnchangedStore,
         NEW b \in BucketRecord, NEW pc \in {"object", "each"},
         pc = "each" => req[r].op = "DeleteObjects",
         Step(r, [Goto(r, pc) EXCEPT !.b = b])
  PROVE  AInv'
  <1> DEFINE q == req[r]
             n == [Goto(r, pc) EXCEPT !.b = b]
  <1>1. q \in RequestRecord /\ q.op \in Ops /\ q.at \in Places /\ q.from \in Places /\ q.answer = ""
    BY RequestFacts
  <1>2. n \in RequestRecord /\ n.pc = pc /\ n.op = q.op /\ n.at = q.at /\ n.from = q.from /\ n.answer = ""
    BY <1>1 DEF Goto, RequestRecord, Stages
  <1>4. Step(r, n)
    OBVIOUS
  <1> HIDE DEF n
  <1>3. RequestOK(n, bucket', clock')
    BY <1>1, <1>2 DEF RequestOK, Staged, Decided, Traced, Acted, Copied
  <1> QED BY <1>3, <1>4, StoreKept, RequestStep

\* authorize's decision is about the records that it keeps.
LEMMA ConcludeStep ==
  ASSUME AInv, NEW r \in Reqs, req[r].pc \notin {"idle", "done"}, UnchangedStore,
         NEW b \in BucketRecord, NEW o \in ObjectRecord, Conclude(r, b, o)
  PROVE  AInv'
  <1> DEFINE q == req[r]
             grant == May(q.who, ActionOf[q.op], q.at, b, o)
             lists == Allowed(May(q.who, "ListBucket", <<q.at[1]>>, b, NoObject))
             pc == IF Allowed(grant) THEN "go" ELSE "done"
             answer == IF Allowed(grant) THEN ""
                       ELSE IF q.op = "GetObject" /\ o = NoObject /\ lists THEN "NoSuchKey"
                       ELSE "AccessDenied"
             n == [q EXCEPT !.b = b, !.o = o, !.grant = grant, !.pc = pc, !.answer = answer]
  <1>1. q \in RequestRecord /\ q.op \in Ops /\ q.at \in Places /\ q.from \in Places /\ q.answer = ""
    BY RequestFacts
  <1>2. Step(r, n)
    BY DEF Conclude
  <1>3. /\ grant \in {"NoGrant", "Refused", "ByPolicy", "ByACL"} /\ answer \in Refusals /\ pc \in {"go", "done"}
        /\ pc = "go" => Allowed(grant) /\ answer = ""
    BY Decisions DEF Refusals
  <1>4. grant = May(q.who, ActionOf[q.op], q.at, b, o)
    OBVIOUS
  <1> HIDE DEF grant, lists, pc, answer
  <1>5. /\ n \in RequestRecord /\ n.pc = pc /\ n.op = q.op /\ n.at = q.at /\ n.from = q.from /\ n.answer = answer
        /\ n.who = q.who /\ n.b = b /\ n.o = o
    BY <1>1, <1>3 DEF RequestRecord, Stages
  <1> HIDE DEF n
  <1>6. pc = "go" => Permits(n, n.o)
    BY <1>3, <1>4, <1>5 DEF Permits
  <1>7. RequestOK(n, bucket', clock')
    BY <1>1, <1>3, <1>5, <1>6 DEF RequestOK, Staged, Decided, Traced, Acted, Copied, Refusals
  <1> QED BY <1>2, <1>7, StoreKept, RequestStep

\* The bucket record is read and, where the object has a say of its own, that is
\* looked at next; a decision made here is made by this record.
LEMMA AuthorizeBucketStep ==
  ASSUME AInv, NEW r \in Reqs, AuthorizeBucket(r) PROVE AInv'
  <1> DEFINE q == req[r]
             b == bucket[q.at[1]]
  <1>1. q.pc = "bucket" /\ UnchangedStore
    BY DEF AuthorizeBucket
  <1>2. b \in BucketRecord /\ NoObject \in ObjectRecord
    BY <1>1, RequestFacts, Nothing
  <1>3. CASE Answer(r, "NoSuchBucket")
    BY <1>1, <1>3, AnswerStep DEF Refusals
  <1>4. CASE Step(r, [Goto(r, "object") EXCEPT !.b = b])
    BY <1>1, <1>2, <1>4, EarlyStep
  <1>5. CASE q.op = "DeleteObjects" /\ Step(r, [Goto(r, "each") EXCEPT !.b = b])
    BY <1>1, <1>2, <1>5, EarlyStep
  <1>6. CASE Conclude(r, b, NoObject)
    BY <1>1, <1>2, <1>6, ConcludeStep
  <1> QED BY <1>3, <1>4, <1>5, <1>6 DEF AuthorizeBucket

\* The decision is made by the two records read.
LEMMA AuthorizeObjectStep ==
  ASSUME AInv, NEW r \in Reqs, AuthorizeObject(r) PROVE AInv'
  <1>1. req[r].pc = "object" /\ UnchangedStore /\ Conclude(r, req[r].b, object[req[r].at])
    BY DEF AuthorizeObject
  <1>2. req[r].b \in BucketRecord /\ object[req[r].at] \in ObjectRecord
    BY <1>1, RequestFacts DEF RequestRecord
  <1> QED BY <1>1, <1>2, ConcludeStep

-----------------------------------------------------------------------------
(* Reading and changing *)

\* What is served or changed after it was authorised again is admitted.
LEMMA ReauthorizedAdmits ==
  ASSUME NEW q, NEW o, q.pc = "go", Decided(q), Reauthorized(q, o)
  PROVE  \E x \in {q.o, o} : x.seq = o.seq /\ Permits(q, x)
  BY DEF Decided, Reauthorized, Permits

\* Where the version a request wants is there, so is its bucket.
LEMMA StatFacts ==
  ASSUME NEW place \in Places
  PROVE  /\ Stat(place) \in {"NoSuchBucket", "NoSuchKey", "found"}
         /\ Stat(place) = "found" => bucket[place[1]] # NoBucket /\ object[place] # NoObject
  BY DEF Stat

\* GetObject opens the object again: it is checked again, or nothing is served.
LEMMA ServeObjectStep ==
  ASSUME AInv, NEW r \in Reqs, ServeObject(r) PROVE AInv'
  <1> DEFINE q == req[r]
             o == object[q.at]
             n == [Goto(r, "done") EXCEPT !.got = o, !.answer = "served"]
  <1>1. q.pc = "go" /\ q.op \in Reads /\ UnchangedStore
    BY DEF ServeObject
  <1>2. /\ q \in RequestRecord /\ q.op \in Ops /\ q.at \in Places /\ q.from \in Places /\ o \in ObjectRecord
        /\ RequestOK(q, bucket, clock)
    BY <1>1, RequestFacts
  <1>3. CASE Stat(q.at) # "found" /\ Answer(r, Stat(q.at))
    <2>1. Stat(q.at) \in Refusals
      BY <1>2, <1>3, StatFacts DEF Refusals
    <2> QED BY <1>1, <1>3, <2>1, AnswerStep
  <1>4. CASE Answer(r, "AccessDenied")
    BY <1>1, <1>4, AnswerStep DEF Refusals
  <1>5. CASE Reauthorized(q, o) /\ Step(r, n)
    <2>1. PICK x \in {q.o, o} : x.seq = o.seq /\ Permits(q, x)
      BY <1>1, <1>2, <1>5, ReauthorizedAdmits DEF RequestOK
    <2> HIDE DEF o
    <2>2. /\ n \in RequestRecord /\ n.pc = "done" /\ n.op = q.op /\ n.at = q.at /\ n.from = q.from /\ n.answer = "served"
          /\ n.who = q.who /\ n.b = q.b /\ n.o = q.o /\ n.got = o
      BY <1>2 DEF Goto, RequestRecord, Stages
    <2> HIDE DEF n
    <2>3. Admitted(n)
      BY <2>1, <2>2 DEF Admitted, Permits
    <2>4. RequestOK(n, bucket', clock')
      BY <1>1, <1>2, <2>2, <2>3 DEF RequestOK, Staged, Decided, Traced, Acted, Copied, Reads
    <2> QED BY <1>1, <1>5, <2>4, StoreKept, RequestStep
  <1> QED BY <1>3, <1>4, <1>5 DEF ServeObject

-----------------------------------------------------------------------------
(* Writing *)

\* The version is put; the records of who owns it and how it is shared.
LEMMA AclGrants ==
  ASSUME NEW q \in RequestRecord PROVE AclOf(q) \in SUBSET Grant
  <1>1. q.who \in Callers /\ q.b.owner \in Callers
    BY DEF RequestRecord, BucketRecord
  <1>2. CannedACL(q.acl, q.who, q.b.owner) \in SUBSET Grant
    BY <1>1, CannedGrants
  <1> QED BY <1>2 DEF AclOf

\* A request that has all it needs waits for its transaction.
LEMMA ReadyStep ==
  ASSUME AInv, NEW r \in Reqs, req[r].pc \in {"go", "check"}, UnchangedStore,
         req[r].op = "CopyObject" =>
           /\ req[r].got.home = req[r].sb.id
           /\ req[r].so # NoObject => req[r].got.seq = req[r].so.seq
           /\ PermitsSource(req[r]),
         ReadyToCommit(r, req[r])
  PROVE  AInv'
  <1> DEFINE q == req[r]
             b == bucket[q.at[1]]
             transfers == \/ b.ownership = "BucketOwnerEnforced"
                          \/ /\ b.ownership = "BucketOwnerPreferred"
                             /\ [to |-> b.owner, may |-> "FULL_CONTROL"] \in AclOf(q)
             owner == IF transfers THEN b.owner ELSE q.who
             n == [q EXCEPT !.pc = "commit", !.owner = owner]
  <1>1. /\ q \in RequestRecord /\ q.op \in Ops /\ q.at \in Places /\ q.from \in Places /\ b \in BucketRecord
        /\ q.answer = ""
    BY RequestFacts
  <1>2. CASE Answer(r, "NoSuchBucket")
    BY <1>2, AnswerStep DEF Refusals
  <1>3. CASE Step(r, n)
    <2>1. owner \in Callers
      BY <1>1 DEF RequestRecord, BucketRecord
    <2> HIDE DEF owner
    <2>2. /\ n \in RequestRecord /\ n.pc = "commit" /\ n.op = q.op /\ n.at = q.at /\ n.from = q.from /\ n.answer = ""
          /\ n.who = q.who /\ n.sb = q.sb /\ n.so = q.so /\ n.got = q.got
      BY <1>1, <2>1 DEF RequestRecord, Stages
    <2> HIDE DEF n
    <2>3. Copied(n)
      BY <2>2 DEF Copied, PermitsSource
    <2>4. RequestOK(n, bucket', clock')
      BY <1>1, <2>2, <2>3 DEF RequestOK, Staged, Decided, Traced, Acted
    <2> QED BY <1>3, <2>4, StoreKept, RequestStep
  <1> QED BY <1>2, <1>3 DEF ReadyToCommit

\* PutObject checks what comes along with the object and goes to its transaction.
LEMMA PutObjectStep ==
  ASSUME AInv, NEW r \in Reqs, PutObject(r) PROVE AInv'
  <1>1. req[r].pc = "go" /\ req[r].op = "PutObject" /\ UnchangedStore
    BY DEF PutObject
  <1>2. CASE Answer(r, "AccessDenied")
    BY <1>1, <1>2, AnswerStep DEF Refusals
  <1>3. CASE ReadyToCommit(r, req[r])
    BY <1>1, <1>3, ReadyStep
  <1> QED BY <1>2, <1>3 DEF PutObject

\* The transaction of a put or a copy.
LEMMA PutCommitStep ==
  ASSUME AInv, NEW r \in Reqs, PutCommit(r) PROVE AInv'
  <1> DEFINE q == req[r]
             b == bucket[q.at[1]]
             acl == AclOf(q)
             tag == IF q.op = "CopyObject" THEN q.got.tag ELSE q.tag
             o == [seq |-> clock, home |-> b.id, owner |-> q.owner, acl |-> acl, tag |-> tag]
             n == [Goto(r, "done") EXCEPT !.answer = "written"]
  <1>1. q.pc = "commit"
    BY DEF PutCommit
  <1>2. /\ q \in RequestRecord /\ q.op \in Ops /\ q.at \in Places /\ q.from \in Places /\ b \in BucketRecord
        /\ RequestOK(q, bucket, clock) /\ q.answer = ""
    BY <1>1, RequestFacts
  <1>3. CASE Answer(r, "NoSuchBucket") /\ UnchangedStore
    BY <1>1, <1>3, AnswerStep DEF Refusals
  <1>4. CASE /\ BucketExpected(q, b) /\ object' = [object EXCEPT ![q.at] = o]
             /\ clock' = clock + 1 /\ Answer(r, "written") /\ UNCHANGED bucket
    <2>1. acl \in SUBSET Grant /\ tag \in Tags /\ clock \in Nat /\ b.id \in Nat /\ q.owner \in Callers
      BY <1>2, AclGrants DEF RequestRecord, ObjectRecord, BucketRecord, AInv, StoreOK
    <2>2. b # NoBucket
      BY <1>4 DEF BucketExpected
    <2> HIDE DEF acl, tag
    <2>3. o \in ObjectRecord /\ o.home = b.id
      BY <2>1 DEF ObjectRecord
    <2> HIDE DEF o
    <2>4. StoreOK' /\ Moves
      BY <1>2, <1>4, <2>2, <2>3, ObjectWrite
    <2>5. Step(r, n)
      BY <1>4 DEF Answer
    <2>6. /\ n \in RequestRecord /\ n.pc = "done" /\ n.op = q.op /\ n.at = q.at /\ n.from = q.from /\ n.answer = "written"
          /\ n.who = q.who /\ n.sb = q.sb /\ n.so = q.so /\ n.got = q.got
      BY <1>2 DEF Goto, RequestRecord, Stages
    <2> HIDE DEF n
    <2>7. Copied(n)
      BY <1>1, <1>2, <2>6 DEF Copied, RequestOK
    <2>8. RequestOK(n, bucket', clock')
      BY <1>2, <2>6, <2>7 DEF RequestOK, Staged, Decided, Traced, Acted
    <2> QED BY <2>4, <2>5, <2>8, RequestStep
  <1> QED BY <1>3, <1>4 DEF PutCommit

\* A version is deleted, in the bucket that was authorised.
LEMMA DeleteTxStep ==
  ASSUME AInv, NEW r \in Reqs, req[r].pc \in {"go", "delete"}, DeleteTx(r),
         req[r].op = "DeleteVersion" /\ BucketExpected(req[r], bucket[req[r].at[1]]) /\ object[req[r].at] # NoObject =>
           req[r].pc = "go" /\ ObjectExpected(req[r], object[req[r].at])
  PROVE  AInv'
  <1> DEFINE q == req[r]
             b == bucket[q.at[1]]
             o == object[q.at]
             n == [Goto(r, "done") EXCEPT !.got = o, !.answer = "deleted"]
  <1>1. /\ q \in RequestRecord /\ q.op \in Ops /\ q.at \in Places /\ q.from \in Places /\ o \in ObjectRecord
        /\ RequestOK(q, bucket, clock)
    BY RequestFacts
  <1>2. CASE Answer(r, "NoSuchBucket") /\ UnchangedStore
    BY <1>2, AnswerStep DEF Refusals
  <1>3. CASE /\ BucketExpected(q, b) /\ object' = [object EXCEPT ![q.at] = NoObject]
             /\ Step(r, n) /\ UNCHANGED <<bucket, clock>>
    <2>1. o # NoObject => o.home = q.b.id
      BY <1>1, <1>3 DEF AInv, StoreOK, BucketExpected
    <2>2. q.op = "DeleteVersion" /\ o # NoObject => q.o = NoObject \/ (q.o.seq = o.seq /\ Permits(q, q.o))
      BY <1>1, <1>3 DEF ObjectExpected, RequestOK, Decided
    <2> HIDE DEF o
    <2>3. StoreOK' /\ Moves
      BY <1>1, <1>3, ObjectWrite, Nothing
    <2>4. /\ n \in RequestRecord /\ n.pc = "done" /\ n.op = q.op /\ n.at = q.at /\ n.from = q.from /\ n.answer = "deleted"
          /\ n.who = q.who /\ n.b = q.b /\ n.o = q.o /\ n.got = o
      BY <1>1 DEF Goto, RequestRecord, Stages
    <2> HIDE DEF n
    <2>5. Acted(n)
      BY <2>1, <2>2, <2>4 DEF Acted, Admitted, Permits
    <2>6. RequestOK(n, bucket', clock')
      BY <1>1, <2>4, <2>5 DEF RequestOK, Staged, Decided, Traced, Copied
    <2> QED BY <1>3, <2>3, <2>6, RequestStep
  <1> QED BY <1>2, <1>3 DEF DeleteTx

\* DeleteObject with a version ID: a version that is not the one decided on stays.
LEMMA DeleteVersionStep ==
  ASSUME AInv, NEW r \in Reqs, DeleteVersion(r) PROVE AInv'
  <1>1. req[r].pc = "go"
    BY DEF DeleteVersion
  <1>2. CASE Answer(r, "changed") /\ UnchangedStore
    BY <1>1, <1>2, AnswerStep DEF Refusals
  <1>3. CASE /\ DeleteTx(r)
             /\ ~(/\ BucketExpected(req[r], bucket[req[r].at[1]])
                  /\ object[req[r].at] # NoObject /\ ~ObjectExpected(req[r], object[req[r].at]))
    BY <1>1, <1>3, DeleteTxStep
  <1> QED BY <1>2, <1>3 DEF DeleteVersion

\* deleteObjects decides on each of its keys.
LEMMA DeleteObjectsKeyStep ==
  ASSUME AInv, NEW r \in Reqs, DeleteObjectsKey(r) PROVE AInv'
  <1> DEFINE q == req[r]
             o == object[q.at]
             n == [Goto(r, "delete") EXCEPT !.o = o]
             m == Goto(r, "delete")
  <1>1. q.pc = "each" /\ UnchangedStore
    BY DEF DeleteObjectsKey
  <1>2. /\ q \in RequestRecord /\ q.op \in Ops /\ q.at \in Places /\ q.from \in Places /\ o \in ObjectRecord
        /\ q.op = "DeleteObjects" /\ q.answer = ""
    BY <1>1, RequestFacts DEF RequestOK, Staged
  <1>3. CASE Answer(r, "AccessDenied")
    BY <1>1, <1>3, AnswerStep DEF Refusals
  <1>4. CASE Step(r, n)
    <2> HIDE DEF o
    <2>1. n \in RequestRecord /\ n.pc = "delete" /\ n.op = q.op /\ n.at = q.at /\ n.from = q.from /\ n.answer = ""
      BY <1>2 DEF Goto, RequestRecord, Stages
    <2> HIDE DEF n
    <2>2. RequestOK(n, bucket', clock')
      BY <1>2, <2>1 DEF RequestOK, Staged, Decided, Traced, Acted, Copied
    <2> QED BY <1>1, <1>4, <2>2, StoreKept, RequestStep
  <1>5. CASE Step(r, m)
    <2>1. m \in RequestRecord /\ m.pc = "delete" /\ m.op = q.op /\ m.at = q.at /\ m.from = q.from /\ m.answer = ""
      BY <1>2 DEF Goto, RequestRecord, Stages
    <2> HIDE DEF m
    <2>2. RequestOK(m, bucket', clock')
      BY <1>2, <2>1 DEF RequestOK, Staged, Decided, Traced, Acted, Copied
    <2> QED BY <1>1, <1>5, <2>2, StoreKept, RequestStep
  <1> QED BY <1>3, <1>4, <1>5 DEF DeleteObjectsKey

\* updateVersion: the version is the one that was expected.
LEMMA UpdateVersionStep ==
  ASSUME AInv, NEW r \in Reqs, req[r].pc \in {"go", "update"}, NEW v, UpdateVersion(r, v),
         object[req[r].at] # NoObject => v \in ObjectRecord /\ v.home = object[req[r].at].home
  PROVE  AInv'
  <1> DEFINE q == req[r]
             b == bucket[q.at[1]]
             o == object[q.at]
             n == [Goto(r, "done") EXCEPT !.got = o, !.answer = "updated"]
  <1>1. /\ q \in RequestRecord /\ q.op \in Ops /\ q.at \in Places /\ q.from \in Places /\ o \in ObjectRecord
        /\ RequestOK(q, bucket, clock)
    BY RequestFacts
  <1>2. ASSUME NEW a \in {"NoSuchBucket", "NoSuchKey", "changed"}, Answer(r, a), UnchangedStore PROVE AInv'
    BY <1>2, AnswerStep DEF Refusals
  <1>3. CASE /\ BucketExpected(q, b) /\ o # NoObject /\ ObjectExpected(q, o)
             /\ object' = [object EXCEPT ![q.at] = v]
             /\ Step(r, n) /\ UNCHANGED <<bucket, clock>>
    <2>1. b # NoBucket /\ o.home = b.id /\ b.id = q.b.id
      BY <1>1, <1>3 DEF AInv, StoreOK, BucketExpected
    <2>2. q.o = NoObject \/ (q.o.seq = o.seq /\ Permits(q, q.o))
      BY <1>1, <1>3 DEF ObjectExpected, RequestOK, Decided
    <2>3. v \in ObjectRecord /\ v.home = b.id
      BY <1>3, <2>1
    <2> HIDE DEF o
    <2>4. StoreOK' /\ Moves
      BY <1>1, <1>3, <2>1, <2>3, ObjectWrite
    <2>5. /\ n \in RequestRecord /\ n.pc = "done" /\ n.op = q.op /\ n.at = q.at /\ n.from = q.from /\ n.answer = "updated"
          /\ n.who = q.who /\ n.b = q.b /\ n.o = q.o /\ n.got = o
      BY <1>1 DEF Goto, RequestRecord, Stages
    <2> HIDE DEF n
    <2>6. Acted(n)
      BY <2>1, <2>2, <2>5 DEF Acted, Admitted, Permits
    <2>7. RequestOK(n, bucket', clock')
      BY <1>1, <2>5, <2>6 DEF RequestOK, Staged, Decided, Traced, Copied
    <2> QED BY <1>3, <2>4, <2>7, RequestStep
  <1> QED BY <1>2, <1>3 DEF UpdateVersion

\* Tags are replaced in the transaction that finds the object.
LEMMA PutObjectTaggingStep ==
  ASSUME AInv, NEW r \in Reqs, PutObjectTagging(r) PROVE AInv'
  <1> DEFINE v == [object[req[r].at] EXCEPT !.tag = req[r].tag]
  <1>1. req[r].pc = "go" /\ UpdateVersion(r, v)
    BY DEF PutObjectTagging
  <1>2. req[r] \in RequestRecord /\ object[req[r].at] \in ObjectRecord /\ req[r].tag \in Tags
    BY <1>1, RequestFacts DEF RequestRecord
  <1>3. v \in ObjectRecord /\ v.home = object[req[r].at].home
    BY <1>2 DEF ObjectRecord
  <1> HIDE DEF v
  <1> QED BY <1>1, <1>3, UpdateVersionStep

\* The version that was looked up is the one expected from now on.
LEMMA LookUpStep ==
  ASSUME AInv, NEW r \in Reqs, LookUp(r) PROVE AInv'
  <1> DEFINE q == req[r]
             o == object[q.at]
             x == IF q.o.seq = o.seq THEN q.o ELSE o
             n == [Goto(r, "update") EXCEPT !.o = x]
  <1>1. q.pc = "go" /\ q.op \in Looks /\ UnchangedStore
    BY DEF LookUp
  <1>2. /\ q \in RequestRecord /\ q.op \in Ops /\ q.at \in Places /\ q.from \in Places /\ o \in ObjectRecord
        /\ RequestOK(q, bucket, clock) /\ q.answer = "" /\ q.o \in ObjectRecord
    BY <1>1, RequestFacts DEF RequestRecord
  <1>3. ASSUME NEW a \in {"ok", "NotSupported", "AccessDenied"}, Answer(r, a) PROVE AInv'
    BY <1>1, <1>3, AnswerStep DEF Refusals
  <1>4. CASE Stat(q.at) # "found" /\ Answer(r, Stat(q.at))
    <2>1. Stat(q.at) \in Refusals
      BY <1>2, <1>4, StatFacts DEF Refusals
    <2> QED BY <1>1, <1>4, <2>1, AnswerStep
  <1>5. CASE Reauthorized(q, o) /\ Step(r, n)
    <2>1. x = NoObject \/ Permits(q, x)
      BY <1>1, <1>2, <1>5 DEF Reauthorized, Permits, RequestOK, Decided
    <2>2. x \in ObjectRecord
      BY <1>2
    <2> HIDE DEF o, x
    <2>3. /\ n \in RequestRecord /\ n.pc = "update" /\ n.op = q.op /\ n.at = q.at /\ n.from = q.from /\ n.answer = ""
          /\ n.who = q.who /\ n.b = q.b /\ n.o = x
      BY <1>2, <2>2 DEF Goto, RequestRecord, Stages
    <2> HIDE DEF n
    <2>4. n.o = NoObject \/ Permits(n, n.o)
      BY <2>1, <2>3 DEF Permits
    <2>5. RequestOK(n, bucket', clock')
      BY <1>1, <1>2, <2>3, <2>4 DEF RequestOK, Staged, Decided, Traced, Acted, Copied, Looks
    <2> QED BY <1>1, <1>5, <2>5, StoreKept, RequestStep
  <1> QED BY <1>3, <1>4, <1>5 DEF LookUp

\* The transaction of an update changes the version that was looked up, or none.
LEMMA UpdateLookedStep ==
  ASSUME AInv, NEW r \in Reqs, UpdateLooked(r) PROVE AInv'
  <1> DEFINE q == req[r]
             o == object[q.at]
             acl == AclOf(q)
             v == IF q.op = "PutObjectAcl" THEN [o EXCEPT !.acl = acl] ELSE o
  <1>1. q.pc = "update" /\ UpdateVersion(r, v)
    BY DEF UpdateLooked
  <1>2. q \in RequestRecord /\ o \in ObjectRecord /\ acl \in SUBSET Grant
    BY <1>1, RequestFacts, AclGrants
  <1> HIDE DEF acl
  <1>3. v \in ObjectRecord /\ v.home = o.home
    BY <1>2 DEF ObjectRecord
  <1> HIDE DEF v
  <1> QED BY <1>1, <1>3, UpdateVersionStep

-----------------------------------------------------------------------------
(* Copying *)

\* The bucket of the source is looked at: later ones have later IDs.
LEMMA CopySourceBucketStep ==
  ASSUME AInv, NEW r \in Reqs, CopySourceBucket(r) PROVE AInv'
  <1> DEFINE q == req[r]
             b == bucket[q.from[1]]
             n == [Goto(r, "source") EXCEPT !.sb = b]
  <1>1. q.pc = "go" /\ q.op = "CopyObject" /\ UnchangedStore
    BY DEF CopySourceBucket
  <1>2. /\ q \in RequestRecord /\ q.op \in Ops /\ q.at \in Places /\ q.from \in Places /\ b \in BucketRecord
        /\ q.answer = "" /\ q.from[1] \in Buckets
    BY <1>1, RequestFacts
  <1>3. CASE Answer(r, "NoSuchBucket")
    BY <1>1, <1>3, AnswerStep DEF Refusals
  <1>4. CASE Step(r, n)
    <2>1. Passed(b.id, bucket'[q.from[1]], clock')
      <3>1. b.id \in Nat /\ b.id < clock
        BY <1>2 DEF AInv, StoreOK, BucketRecord
      <3>2. bucket'[q.from[1]] = b /\ clock' = clock
        BY <1>1 DEF UnchangedStore
      <3> HIDE DEF b
      <3> QED BY <3>1, <3>2 DEF Passed
    <2> HIDE DEF b
    <2>2. /\ n \in RequestRecord /\ n.pc = "source" /\ n.op = q.op /\ n.at = q.at /\ n.from = q.from /\ n.answer = ""
          /\ n.sb = b
      BY <1>2 DEF Goto, RequestRecord, Stages
    <2> HIDE DEF n
    <2>3. Traced(n, bucket'[n.from[1]], clock')
      BY <2>1, <2>2 DEF Traced
    <2>4. RequestOK(n, bucket', clock')
      BY <1>1, <1>2, <2>2, <2>3 DEF RequestOK, Staged, Decided, Acted, Copied
    <2> QED BY <1>1, <1>4, <2>4, StoreKept, RequestStep
  <1> QED BY <1>3, <1>4 DEF CopySourceBucket

\* The source of a copy is decided by its own bucket and its own object.
LEMMA CopySourceObjectStep ==
  ASSUME AInv, NEW r \in Reqs, CopySourceObject(r) PROVE AInv'
  <1> DEFINE q == req[r]
             so == object[q.from]
             n == [Goto(r, "read") EXCEPT !.so = so]
  <1>1. q.pc = "source" /\ UnchangedStore
    BY DEF CopySourceObject
  <1>2. /\ q \in RequestRecord /\ q.op \in Ops /\ q.at \in Places /\ q.from \in Places /\ so \in ObjectRecord
        /\ q.answer = "" /\ RequestOK(q, bucket, clock) /\ q.op = "CopyObject"
    BY <1>1, RequestFacts DEF RequestOK, Staged
  <1>3. CASE Answer(r, "AccessDenied")
    BY <1>1, <1>3, AnswerStep DEF Refusals
  <1>4. CASE Allowed(May(q.who, "GetObject", q.from, q.sb, so)) /\ Step(r, n)
    <2>1. Passed(q.sb.id, bucket'[q.from[1]], clock')
      BY <1>1, <1>2 DEF RequestOK, Traced, UnchangedStore
    <2> HIDE DEF so
    <2>2. /\ n \in RequestRecord /\ n.pc = "read" /\ n.op = q.op /\ n.at = q.at /\ n.from = q.from /\ n.answer = ""
          /\ n.who = q.who /\ n.sb = q.sb /\ n.so = so
      BY <1>2 DEF Goto, RequestRecord, Stages
    <2> HIDE DEF n
    <2>3. Traced(n, bucket'[n.from[1]], clock') /\ PermitsSource(n)
      BY <1>4, <2>1, <2>2 DEF Traced, PermitsSource
    <2>4. RequestOK(n, bucket', clock')
      BY <1>1, <1>2, <2>2, <2>3 DEF RequestOK, Staged, Decided, Acted, Copied
    <2> QED BY <1>1, <1>4, <2>4, StoreKept, RequestStep
  <1> QED BY <1>3, <1>4 DEF CopySourceObject

\* What is read is of a bucket not older than the one that was authorised.
LEMMA CopyReadStep ==
  ASSUME AInv, NEW r \in Reqs, CopyRead(r) PROVE AInv'
  <1> DEFINE q == req[r]
             o == object[q.from]
             b == bucket[q.from[1]]
             n == [Goto(r, "check") EXCEPT !.got = o]
  <1>1. q.pc = "read" /\ UnchangedStore
    BY DEF CopyRead
  <1>2. /\ q \in RequestRecord /\ q.op \in Ops /\ q.at \in Places /\ q.from \in Places /\ o \in ObjectRecord
        /\ b \in BucketRecord /\ q.from[1] \in Buckets
        /\ q.answer = "" /\ RequestOK(q, bucket, clock) /\ q.op = "CopyObject"
    BY <1>1, RequestFacts DEF RequestOK, Staged
  <1>3. CASE Stat(q.from) # "found" /\ Answer(r, Stat(q.from))
    <2>1. Stat(q.from) \in Refusals
      BY <1>2, <1>3, StatFacts DEF Refusals
    <2> QED BY <1>1, <1>3, <2>1, AnswerStep
  <1>4. CASE Stat(q.from) = "found" /\ Step(r, n)
    <2>1. b # NoBucket /\ o # NoObject
      BY <1>2, <1>4, StatFacts
    <2>2. o.home = b.id /\ b.id \in Nat /\ b.id < clock
      BY <1>2, <2>1 DEF AInv, StoreOK, BucketRecord
    <2>3. q.sb.id <= b.id /\ PermitsSource(q)
      BY <1>1, <1>2, <2>1 DEF RequestOK, Traced, Passed, Decided
    <2>4. Passed(o.home, bucket'[q.from[1]], clock')
      BY <1>1, <2>2 DEF Passed, UnchangedStore
    <2> HIDE DEF o
    <2>5. /\ n \in RequestRecord /\ n.pc = "check" /\ n.op = q.op /\ n.at = q.at /\ n.from = q.from /\ n.answer = ""
          /\ n.who = q.who /\ n.sb = q.sb /\ n.so = q.so /\ n.got = o
      BY <1>2 DEF Goto, RequestRecord, Stages
    <2> HIDE DEF n
    <2>6. Traced(n, bucket'[n.from[1]], clock') /\ PermitsSource(n)
      BY <2>2, <2>3, <2>4, <2>5 DEF Traced, PermitsSource
    <2>7. RequestOK(n, bucket', clock')
      BY <1>1, <1>2, <2>5, <2>6 DEF RequestOK, Staged, Decided, Acted, Copied
    <2> QED BY <1>1, <1>4, <2>7, StoreKept, RequestStep
  <1> QED BY <1>3, <1>4 DEF CopyRead

\* sourceExpected: if the bucket is still the one authorised, so was the one
\* that was read from in between.
LEMMA CopyCheckStep ==
  ASSUME AInv, NEW r \in Reqs, CopyCheck(r) PROVE AInv'
  <1> DEFINE q == req[r]
             b == bucket[q.from[1]]
  <1>1. q.pc = "check" /\ UnchangedStore
    BY DEF CopyCheck
  <1>2. /\ q \in RequestRecord /\ RequestOK(q, bucket, clock) /\ q.op = "CopyObject" /\ q.from \in Places
        /\ b \in BucketRecord
    BY <1>1, RequestFacts DEF RequestOK, Staged
  <1>3. CASE Answer(r, "changed")
    BY <1>1, <1>3, AnswerStep DEF Refusals
  <1>4. CASE SourceExpected(q, b) /\ ReadyToCommit(r, q)
    <2>1. q.sb.id <= q.got.home /\ Passed(q.got.home, b, clock)
      BY <1>1, <1>2 DEF RequestOK, Traced
    <2>2. b # NoBucket /\ b.id = q.sb.id /\ (q.so # NoObject => q.so.seq = q.got.seq)
      BY <1>4 DEF SourceExpected
    <2>3. q.got.home \in Nat /\ q.sb.id \in Nat
      BY <1>2 DEF RequestRecord, ObjectRecord, BucketRecord
    <2>4. q.got.home = q.sb.id
      BY <2>1, <2>2, <2>3 DEF Passed
    <2>5. PermitsSource(q)
      BY <1>1, <1>2 DEF RequestOK, Decided
    <2> QED BY <1>1, <1>4, <2>2, <2>4, <2>5, ReadyStep
  <1> QED BY <1>3, <1>4 DEF CopyCheck

-----------------------------------------------------------------------------
(* Other requests *)

\* Buckets and objects that other requests make, change and remove.
LEMMA OthersStep ==
  ASSUME AInv, Others PROVE AInv'
  <1>a. /\ bucket \in [Buckets -> BucketRecord] /\ object \in [Places -> ObjectRecord] /\ clock \in Nat \ {0}
    BY DEF AInv, StoreOK
  <1>1. ASSUME NEW n \in Buckets, NEW owner \in Users, CreateBucket(n, owner) PROVE AInv'
    <2>1. NewBucket(clock, owner) \in BucketRecord /\ NewBucket(clock, owner).id = clock
      BY <1>a, NewBuckets
    <2>2. /\ bucket[n] = NoBucket /\ bucket' = [bucket EXCEPT ![n] = NewBucket(clock, owner)]
          /\ clock' = clock + 1 /\ UNCHANGED <<object, req>>
      BY <1>1 DEF CreateBucket
    <2>3. StoreOK' /\ Moves
      BY <2>1, <2>2, BucketWrite
    <2> QED BY <2>2, <2>3, OthersKeep
  <1>2. ASSUME NEW n \in Buckets, DeleteBucket(n) PROVE AInv'
    <2>1. \A p \in Places : p[1] = n => object[p] = NoObject
      <3>1. \A k \in Keys : object[<<n, k>>] = NoObject
        BY <1>2 DEF DeleteBucket
      <3>2. \A p \in Places : p = <<p[1], p[2]>> /\ p[2] \in Keys
        BY DEF Places
      <3> QED BY <3>1, <3>2
    <2>2. bucket' = [bucket EXCEPT ![n] = NoBucket] /\ UNCHANGED <<object, req, clock>>
      BY <1>2 DEF DeleteBucket
    <2>3. StoreOK' /\ Moves
      BY <2>1, <2>2, BucketWrite, Nothing
    <2> QED BY <2>2, <2>3, OthersKeep
  <1>3. ASSUME NEW n \in Buckets, NEW b \in BucketRecord, b.id = bucket[n].id, UpdateBucket(n, b) PROVE AInv'
    <2>1. bucket[n] # NoBucket /\ bucket' = [bucket EXCEPT ![n] = b] /\ UNCHANGED <<object, req, clock>>
      BY <1>3 DEF UpdateBucket
    <2>2. StoreOK' /\ Moves
      BY <1>3, <2>1, BucketWrite
    <2> QED BY <2>1, <2>2, OthersKeep
  <1>4. ASSUME NEW n \in Buckets, NEW doc \in Policies, UpdateBucket(n, [bucket[n] EXCEPT !.policy = doc]) PROVE AInv'
    <2> DEFINE b == [bucket[n] EXCEPT !.policy = doc]
    <2>1. b \in BucketRecord /\ b.id = bucket[n].id
      BY <1>a DEF BucketRecord
    <2>2. UpdateBucket(n, b)
      BY <1>4
    <2> HIDE DEF b
    <2> QED BY <1>3, <2>1, <2>2
  <1>5. ASSUME NEW n \in Buckets, NEW bl \in Blocks, UpdateBucket(n, [bucket[n] EXCEPT !.block = bl]) PROVE AInv'
    <2> DEFINE b == [bucket[n] EXCEPT !.block = bl]
    <2>1. b \in BucketRecord /\ b.id = bucket[n].id
      BY <1>a DEF BucketRecord
    <2>2. UpdateBucket(n, b)
      BY <1>5
    <2> HIDE DEF b
    <2> QED BY <1>3, <2>1, <2>2
  <1>6. ASSUME NEW n \in Buckets, NEW own \in Ownership, UpdateBucket(n, [bucket[n] EXCEPT !.ownership = own]) PROVE AInv'
    <2> DEFINE b == [bucket[n] EXCEPT !.ownership = own]
    <2>1. b \in BucketRecord /\ b.id = bucket[n].id
      BY <1>a DEF BucketRecord
    <2>2. UpdateBucket(n, b)
      BY <1>6
    <2> HIDE DEF b
    <2> QED BY <1>3, <2>1, <2>2
  <1>7. ASSUME NEW p \in Places, NEW who \in Users, NEW acl \in Acls, NEW tag \in Tags, OtherPut(p, who, acl, tag)
        PROVE  AInv'
    <2> DEFINE v == Version(clock, bucket[p[1]], who, acl, tag)
    <2>1. p[1] \in Buckets /\ who \in Callers
      BY DEF Places, Callers
    <2>2. v \in ObjectRecord /\ v.home = bucket[p[1]].id
      BY <1>a, <2>1, NewVersions
    <2>3. /\ bucket[p[1]] # NoBucket /\ object' = [object EXCEPT ![p] = v]
          /\ clock' = clock + 1 /\ UNCHANGED <<bucket, req>>
      BY <1>7 DEF OtherPut
    <2> HIDE DEF v
    <2>4. StoreOK' /\ Moves
      BY <2>2, <2>3, ObjectWrite
    <2> QED BY <2>3, <2>4, OthersKeep
  <1>8. ASSUME NEW p \in Places, OtherDelete(p) PROVE AInv'
    <2>1. object' = [object EXCEPT ![p] = NoObject] /\ UNCHANGED <<bucket, req, clock>>
      BY <1>8 DEF OtherDelete
    <2>2. StoreOK' /\ Moves
      BY <2>1, ObjectWrite, Nothing
    <2> QED BY <2>1, <2>2, OthersKeep
  <1>9. ASSUME NEW p \in Places, NEW tag \in Tags, OtherRetag(p, tag) PROVE AInv'
    <2> DEFINE v == [object[p] EXCEPT !.tag = tag]
    <2>1. object[p] # NoObject /\ object' = [object EXCEPT ![p] = v] /\ UNCHANGED <<bucket, req, clock>>
      BY <1>9 DEF OtherRetag
    <2>2. bucket[p[1]] # NoBucket /\ object[p].home = bucket[p[1]].id
      BY <2>1 DEF AInv, StoreOK
    <2>3. v \in ObjectRecord /\ v.home = object[p].home
      BY <1>a DEF ObjectRecord
    <2> HIDE DEF v
    <2>4. StoreOK' /\ Moves
      BY <2>1, <2>2, <2>3, ObjectWrite
    <2> QED BY <2>1, <2>4, OthersKeep
  <1> QED BY <1>1, <1>2, <1>4, <1>5, <1>6, <1>7, <1>8, <1>9 DEF Others

-----------------------------------------------------------------------------
(* The theorems about Access *)

\* It holds when the server starts
LEMMA InitAInv == AInit => AInv
  <1> SUFFICES ASSUME AInit PROVE AInv
    OBVIOUS
  <1>1. ASSUME NEW n \in Buckets PROVE bucket[n] \in BucketRecord /\ bucket[n].id = 1
    <2>1. PICK x \in [owner: Users, policy: Policies, ownership: Ownership] :
            bucket[n] = [NewBucket(1, x.owner) EXCEPT !.policy = x.policy, !.ownership = x.ownership]
      BY DEF AInit
    <2>2. NewBucket(1, x.owner) \in BucketRecord /\ NewBucket(1, x.owner).id = 1
      BY NewBuckets
    <2> QED BY <2>1, <2>2 DEF BucketRecord
  <1>2. ASSUME NEW p \in Places PROVE object[p] \in ObjectRecord /\ (object[p] # NoObject => object[p].home = 1)
    <2>1. CASE object[p] = NoObject
      BY <2>1, Nothing
    <2>2. CASE object[p] # NoObject
      <3>1. PICK x \in [owner: Users, acl: Acls, tag: Tags] :
              object[p] = Version(1, NewBucket(1, x.owner), x.owner, x.acl, x.tag)
        BY <2>2 DEF AInit
      <3>2. NewBucket(1, x.owner) \in BucketRecord /\ NewBucket(1, x.owner).id = 1 /\ x.owner \in Callers
        BY NewBuckets DEF Callers
      <3> QED BY <3>1, <3>2, NewVersions
    <2> QED BY <2>1, <2>2
  <1>3. bucket \in [Buckets -> BucketRecord] /\ object \in [Places -> ObjectRecord]
    <2>1. /\ bucket = [n \in Buckets |-> bucket[n]]
          /\ object = [p \in Places |-> object[p]]
      BY DEF AInit
    <2> QED BY <1>1, <1>2, <2>1
  <1>4. StoreOK
    <2>1. \A p \in Places : p[1] \in Buckets
      BY DEF Places
    <2>2. \A n \in Buckets : bucket[n] # NoBucket
      BY <1>1, Nothing
    <2>3. clock = 2
      BY DEF AInit
    <2> QED BY <1>1, <1>2, <1>3, <2>1, <2>2, <2>3 DEF StoreOK
  <1>5. req = [r \in Reqs |-> Idle] /\ Idle \in RequestRecord
    BY IdleRequest DEF AInit, RequestOK
  <1> QED BY <1>4, <1>5, IdleRequest DEF AInv

\* and every step keeps it.
LEMMA NextAInv ==
  ASSUME AInv, [ANext]_avars PROVE AInv'
  <1>1. CASE UNCHANGED avars
    <2>1. UnchangedStore /\ UNCHANGED req
      BY <1>1 DEF avars, UnchangedStore
    <2> QED BY <2>1, StoreKept, OthersKeep
  <1>2. ASSUME NEW r \in Reqs, NEW op \in Ops, NEW who \in Callers, NEW at \in Places, NEW from \in Places,
               NEW acl \in Acls, NEW tag \in Tags, Begin(r, op, who, at, from, acl, tag)
        PROVE  AInv'
    BY <1>2, BeginStep
  <1>3. ASSUME NEW r \in Reqs, AuthorizeBucket(r) \/ AuthorizeObject(r) \/ ServeObject(r) PROVE AInv'
    BY <1>3, AuthorizeBucketStep, AuthorizeObjectStep, ServeObjectStep
  <1>4. ASSUME NEW r \in Reqs, PutObject(r) \/ PutCommit(r) \/ PutObjectTagging(r) PROVE AInv'
    BY <1>4, PutObjectStep, PutCommitStep, PutObjectTaggingStep
  <1>5. ASSUME NEW r \in Reqs, DeleteObject(r) PROVE AInv'
    BY <1>5, DeleteTxStep DEF DeleteObject
  <1>6. ASSUME NEW r \in Reqs, DeleteVersion(r) \/ DeleteObjectsKey(r) PROVE AInv'
    BY <1>6, DeleteVersionStep, DeleteObjectsKeyStep
  <1>7. ASSUME NEW r \in Reqs, DeleteObjectsDelete(r) PROVE AInv'
    <2>1. req[r].pc = "delete" /\ DeleteTx(r)
      BY <1>7 DEF DeleteObjectsDelete
    <2>2. req[r].op = "DeleteObjects"
      BY <2>1 DEF AInv, RequestOK, Staged
    <2> QED BY <2>1, <2>2, DeleteTxStep
  <1>8. ASSUME NEW r \in Reqs, LookUp(r) \/ UpdateLooked(r) PROVE AInv'
    BY <1>8, LookUpStep, UpdateLookedStep
  <1>9. ASSUME NEW r \in Reqs, CopySourceBucket(r) \/ CopySourceObject(r) \/ CopyRead(r) \/ CopyCheck(r) PROVE AInv'
    BY <1>9, CopySourceBucketStep, CopySourceObjectStep, CopyReadStep, CopyCheckStep
  <1>10. CASE Others
    BY <1>10, OthersStep
  <1> QED BY <1>1, <1>2, <1>3, <1>4, <1>5, <1>6, <1>7, <1>8, <1>9, <1>10 DEF ANext

\* The invariant holds at all times.
LEMMA AInvHolds == ASpec => []AInv
  BY InitAInv, NextAInv, PTL DEF ASpec

\* Nobody is handed a version, or changes one, that he may not: whatever is
\* replaced between authorize and the handler's own transaction, getObject and
\* its like serve, and updateVersion changes, what the decision was about or
\* would admit, in the bucket it was about.
THEOREM RequestsAsDecided == ASpec => []ActedAsDecided
  <1>1. AInv => ActedAsDecided
    BY DEF AInv, RequestOK, Acted, ActedAsDecided
  <1> QED BY <1>1, AInvHolds, PTL

\* A copy writes what its source authorisation was about, although the bucket
\* and the version are read again after it.
THEOREM CopiesAsDecided == ASpec => []CopiedAsDecided
  <1>1. AInv => CopiedAsDecided
    BY DEF AInv, RequestOK, Copied, CopiedAsDecided
  <1> QED BY <1>1, AInvHolds, PTL

\* A version is in the bucket that it was put into: no bucket is replaced
\* under its objects.
THEOREM ObjectsAtHome == ASpec => []StoreOK
  <1>1. AInv => StoreOK
    BY DEF AInv
  <1> QED BY <1>1, AInvHolds, PTL

-----------------------------------------------------------------------------
(* BucketConfig: the inductive invariant *)

\* Where ValidateBucketPolicy wants a policy to lie.
PolicyResources == {<<"b">>, <<"b", "k">>}

Storable(doc) == doc = {} \/ (doc \in ConfDocs /\ ValidBucketPolicy(doc, PolicyResources))

\* A record holds a policy that was checked, and refuses root only if that was
\* confirmed.
RecordOK ==
  /\ {"id", "policy", "selfLock"} \subseteq DOMAIN conf
  /\ Storable(conf.policy)
  /\ conf.selfLock \in BOOLEAN
  /\ conf.selfLock => confirmed

\* What a request carries was checked before.
Carried(q) ==
  q.pc \in {"target", "update"} =>
    /\ q.op \in ConfOps
    /\ q.op \in {"policy", "putPolicy"} => Storable(q.v.doc)
    /\ q.op = "policy" => q.v.confirm \in BOOLEAN

ConfInv ==
  /\ RecordOK
  /\ confirmed \in BOOLEAN
  /\ DOMAIN creq = ConfReqs
  /\ \A r \in ConfReqs : Carried(creq[r])

-----------------------------------------------------------------------------
(* What the handlers do to a record *)

\* The operations of routeBucket's table and of the console.
LEMMA Operations ==
  ConfOps = {"versioning", "tags", "policy", "putPolicy", "nopolicy", "acl", "cors", "lifecycle", "encryption", "lock",
             "notification", "logging", "website", "replication", "block", "ownership", "accelerate",
             "payment", "named", "unnamed", "delete"}
  BY DEF ConfOps, ActionFor

\* A handler that stores something changes the fields of its own operation.
LEMMA UpdatedFields ==
  ASSUME NEW op \in ConfOps, op # "delete", NEW b, NEW v, Updated(op, b, v) # Refusal
  PROVE  /\ DOMAIN Updated(op, b, v) = DOMAIN b
         /\ \A f \in DOMAIN b : f \notin Changes(op) => Updated(op, b, v)[f] = b[f]
  <1>1. CASE op = "versioning"
    BY <1>1 DEF Updated, Changes, PutBucketVersioning
  <1>2. CASE op = "tags"
    BY <1>2 DEF Updated, Changes, PutBucketTagging
  <1>3. CASE op = "policy"
    BY <1>3 DEF Updated, Changes, PutBucketPolicy
  <1>4. CASE op = "nopolicy"
    BY <1>4 DEF Updated, Changes, DeleteBucketPolicy
  <1>5. CASE op = "acl"
    BY <1>5 DEF Updated, Changes, PutBucketACL
  <1>6. CASE op = "cors"
    BY <1>6 DEF Updated, Changes, PutBucketCORS
  <1>7. CASE op = "lifecycle"
    BY <1>7 DEF Updated, Changes, PutBucketLifecycle
  <1>8. CASE op = "encryption"
    BY <1>8 DEF Updated, Changes, PutBucketEncryption
  <1>9. CASE op = "lock"
    BY <1>9 DEF Updated, Changes, PutObjectLockConfig
  <1>10. CASE op = "notification"
    BY <1>10 DEF Updated, Changes, PutBucketNotification
  <1>11. CASE op = "logging"
    BY <1>11 DEF Updated, Changes, PutBucketLogging
  <1>12. CASE op = "website"
    BY <1>12 DEF Updated, Changes, PutBucketWebsite
  <1>13. CASE op = "replication"
    BY <1>13 DEF Updated, Changes, PutBucketReplication
  <1>14. CASE op = "block"
    BY <1>14 DEF Updated, Changes, PutPublicAccessBlock
  <1>15. CASE op = "ownership"
    BY <1>15 DEF Updated, Changes, PutOwnershipControls
  <1>16. CASE op = "accelerate"
    BY <1>16 DEF Updated, Changes, PutBucketAccelerate
  <1>17. CASE op = "payment"
    BY <1>17 DEF Updated, Changes, PutBucketRequestPayment
  <1>18. CASE op = "named"
    BY <1>18 DEF Updated, Changes, PutNamedConfig
  <1>19. CASE op = "unnamed"
    BY <1>19 DEF Updated, Changes, DeleteNamedConfig
  <1>20. CASE op = "putPolicy"
    BY <1>20 DEF Updated, Changes, PutPolicy
  <1> QED BY <1>1, <1>2, <1>3, <1>4, <1>5, <1>6, <1>7, <1>8, <1>9, <1>10, <1>11, <1>12, <1>13, <1>14,
             <1>15, <1>16, <1>17, <1>18, <1>19, <1>20, Operations

\* The policy after a handler, and whether root obeys it.
LEMMA UpdatedPolicy ==
  ASSUME NEW op \in ConfOps, op # "delete", NEW b, {"id", "policy", "selfLock"} \subseteq DOMAIN b,
         NEW v, Updated(op, b, v) # Refusal
  PROVE  LET n == Updated(op, b, v) IN
         /\ {"id", "policy", "selfLock"} \subseteq DOMAIN n
         /\ op \in {"policy", "putPolicy"} => n.policy = v.doc
         /\ op \notin {"policy", "putPolicy"} => n.policy \in {b.policy, {}}
         /\ n.selfLock = IF op = "policy" THEN v.confirm ELSE b.selfLock
  <1> DEFINE n == Updated(op, b, v)
  <1>1. DOMAIN n = DOMAIN b /\ \A f \in DOMAIN b : f \notin Changes(op) => n[f] = b[f]
    BY UpdatedFields
  <1>2. CASE op = "policy"
    <2>1. n = PutBucketPolicy(b, v)
      BY <1>2 DEF Updated
    <2>2. PutBucketPolicy(b, v).policy = v.doc /\ PutBucketPolicy(b, v).selfLock = v.confirm
      BY DEF PutBucketPolicy
    <2> QED BY <1>1, <1>2, <2>1, <2>2
  <1>3. CASE op = "nopolicy"
    <2>1. n = DeleteBucketPolicy(b)
      BY <1>3 DEF Updated
    <2>2. DeleteBucketPolicy(b).policy = {} /\ DeleteBucketPolicy(b).selfLock = b.selfLock
      BY DEF DeleteBucketPolicy
    <2> QED BY <1>1, <1>3, <2>1, <2>2
  <1>5. CASE op = "putPolicy"
    <2>1. n = PutPolicy(b, v)
      BY <1>5 DEF Updated
    <2>2. PutPolicy(b, v).policy = v.doc /\ PutPolicy(b, v).selfLock = b.selfLock
      BY DEF PutPolicy
    <2> QED BY <1>1, <1>5, <2>1, <2>2
  <1>4. CASE op \notin {"policy", "putPolicy", "nopolicy"}
    <2>1. "policy" \notin Changes(op) /\ "selfLock" \notin Changes(op)
      BY <1>4, Operations DEF Changes
    <2>2. n["policy"] = b["policy"] /\ n["selfLock"] = b["selfLock"]
      BY <1>1, <2>1
    <2> HIDE DEF n
    <2> QED BY <1>1, <1>4, <2>2 DEF n
  <1> QED BY <1>2, <1>3, <1>4, <1>5

-----------------------------------------------------------------------------
(* Steps *)

\* The record that stands for none.
LEMMA NoRecord ==
  {"id", "policy", "selfLock"} \subseteq DOMAIN NoConf /\ NoConf.policy = {} /\ NoConf.selfLock = FALSE
  BY DEF NoConf, NewConf

\* At first there is one bucket and no request.
LEMMA InitConfInv == CInit => ConfInv
  <1> SUFFICES ASSUME CInit PROVE ConfInv
    OBVIOUS
  <1>1. RecordOK
    <2>1. conf = NewConf(1, CHOOSE u \in Users : TRUE, FALSE, "ObjectWriter", "")
      BY DEF CInit
    <2>2. {"id", "policy", "selfLock"} \subseteq DOMAIN conf /\ conf.policy = {} /\ conf.selfLock = FALSE
      BY <2>1 DEF NewConf
    <2> QED BY <2>2 DEF RecordOK, Storable
  <1>2. IdleConf.pc = "idle"
    BY DEF IdleConf
  <1>3. DOMAIN creq = ConfReqs /\ \A r \in ConfReqs : Carried(creq[r])
    BY <1>2 DEF CInit, Carried
  <1>4. confirmed \in BOOLEAN
    BY DEF CInit
  <1> QED BY <1>1, <1>3, <1>4 DEF ConfInv

\* A request takes a step that leaves the record alone.
LEMMA RequestMoves ==
  ASSUME ConfInv, NEW r \in ConfReqs, NEW q, creq' = [creq EXCEPT ![r] = q], Carried(q), RecordOK', confirmed' \in BOOLEAN
  PROVE  ConfInv'
  <1>1. DOMAIN creq' = ConfReqs /\ \A x \in ConfReqs : Carried(creq'[x])
    BY DEF ConfInv
  <1> QED BY <1>1 DEF ConfInv, Carried, Storable, ValidBucketPolicy, PolicyResources, NoPrincipal, ConfOps, ActionFor

\* A step that leaves the record alone leaves it as good as it was.
LEMMA SameRecord ==
  ASSUME ConfInv, UNCHANGED <<conf, confirmed>> PROVE RecordOK' /\ confirmed' \in BOOLEAN
  BY DEF ConfInv, RecordOK, Storable, ValidBucketPolicy, PolicyResources, NoPrincipal

\* putBucketPolicy and the console's putPolicy take valid documents.
LEMMA AcceptedPolicy ==
  ASSUME NEW q, q.op \in {"policy", "putPolicy"}, Accepted(q) PROVE ValidBucketPolicy(q.v.doc, PolicyResources)
  BY DEF Accepted, ValidBucketPolicy, IsPublic, IsPublicACL, CallersAcl, Documents, PolicyResources

\* authorize and the checks before the transaction.
LEMMA ConfigureStep ==
  ASSUME ConfInv, NEW r \in ConfReqs, NEW via, NEW op \in ConfOps, NEW who, NEW v \in Inputs(op),
         Configure(r, via, op, who, v)
  PROVE  ConfInv'
  <1> DEFINE pc == IF op = "logging" /\ v # None THEN "target" ELSE "update"
             q == [pc |-> pc, via |-> via, op |-> op, who |-> who, v |-> v, b |-> conf]
             acl == CallersAcl(q)
             n == IF op = "acl" THEN [q EXCEPT !.v = acl] ELSE q
  <1>1. creq' = [creq EXCEPT ![r] = n] /\ Accepted(q) /\ UNCHANGED <<conf, confirmed>>
    BY DEF Configure
  <1>2. /\ op = "policy" => v.doc \in ConfDocs /\ v.confirm \in BOOLEAN
        /\ op = "putPolicy" => v.doc \in ConfDocs
    BY DEF Inputs
  <1>3. op \in {"policy", "putPolicy"} => ValidBucketPolicy(v.doc, PolicyResources)
    <2>1. Accepted(q) /\ q.op = op /\ q.v = v
      BY <1>1
    <2> HIDE DEF q
    <2> QED BY <2>1, AcceptedPolicy
  <1> HIDE DEF acl, pc
  <1>4. n.op = op /\ (op # "acl" => n.v = v)
    OBVIOUS
  <1> HIDE DEF n
  <1>5. Carried(n)
    BY <1>2, <1>3, <1>4 DEF Carried, Storable
  <1> QED BY <1>1, <1>5, RequestMoves, SameRecord

\* putBucketLogging looks at the target bucket and goes on, or ends.
LEMMA LoggingTargetStep ==
  ASSUME ConfInv, NEW r \in ConfReqs, LoggingTarget(r) PROVE ConfInv'
  <1> DEFINE q == creq[r]
             m == [q EXCEPT !.pc = "update"]
             n == IF conf = NoConf THEN IdleConf ELSE m
  <1>1. q.pc = "target" /\ creq' = [creq EXCEPT ![r] = n] /\ UNCHANGED <<conf, confirmed>>
    BY DEF LoggingTarget, ConfInv
  <1>2. Carried(IdleConf)
    BY DEF IdleConf, Carried
  <1>3. Carried(m)
    <2>1. Carried(q) /\ q.pc = "target"
      BY <1>1 DEF ConfInv
    <2>2. m.op = q.op /\ m.v = q.v
      OBVIOUS
    <2> HIDE DEF m
    <2> QED BY <2>1, <2>2 DEF Carried
  <1>4. Carried(n)
    BY <1>2, <1>3
  <1> QED BY <1>1, <1>4, RequestMoves, SameRecord

\* UpdateBucket
LEMMA UpdateStep ==
  ASSUME ConfInv, NEW r \in ConfReqs, UpdateBucketConf(r) PROVE ConfInv'
  <1> DEFINE q == creq[r]
             b == Updated(q.op, conf, q.v)
  <1>1. q.pc = "update" /\ creq' = [creq EXCEPT ![r] = IdleConf]
    BY DEF UpdateBucketConf
  <1>2. Carried(IdleConf)
    BY DEF IdleConf, Carried
  <1>3. RecordOK /\ Carried(q) /\ confirmed \in BOOLEAN
    BY DEF ConfInv
  <1>4. CASE UNCHANGED <<conf, confirmed>>
    BY <1>1, <1>2, <1>4, RequestMoves, SameRecord
  <1>5. CASE /\ b # Refusal /\ conf' = b
             /\ confirmed' = IF q.op = "policy" THEN q.v.confirm ELSE confirmed
    <2>1. /\ q.op \in ConfOps
          /\ q.op \in {"policy", "putPolicy"} => Storable(q.v.doc)
          /\ q.op = "policy" => q.v.confirm \in BOOLEAN
      BY <1>1, <1>3 DEF Carried
    <2>2. confirmed' \in BOOLEAN
      BY <1>3, <1>5, <2>1
    <2>3. CASE q.op = "delete"
      <3>1. conf' = NoConf
        BY <1>5, <2>3 DEF Updated
      <3>2. RecordOK'
        BY <3>1, NoRecord DEF RecordOK, Storable
      <3> QED BY <1>1, <1>2, <2>2, <3>2, RequestMoves
    <2>4. CASE q.op # "delete"
      <3> HIDE DEF b
      <3>1. /\ {"id", "policy", "selfLock"} \subseteq DOMAIN b
            /\ q.op \in {"policy", "putPolicy"} => b.policy = q.v.doc
            /\ q.op \notin {"policy", "putPolicy"} => b.policy \in {conf.policy, {}}
            /\ b.selfLock = IF q.op = "policy" THEN q.v.confirm ELSE conf.selfLock
        BY <1>3, <1>5, <2>1, <2>4, UpdatedPolicy DEF RecordOK, b
      <3>2. Storable(b.policy) /\ b.selfLock \in BOOLEAN
        BY <1>3, <2>1, <3>1 DEF RecordOK, Storable
      <3>3. b.selfLock => confirmed'
        BY <1>3, <1>5, <3>1 DEF RecordOK
      <3>4. RecordOK'
        BY <1>5, <3>1, <3>2, <3>3 DEF RecordOK, Storable, ValidBucketPolicy, PolicyResources, NoPrincipal
      <3> QED BY <1>1, <1>2, <2>2, <3>4, RequestMoves
    <2> QED BY <2>3, <2>4
  <1> QED BY <1>4, <1>5 DEF UpdateBucketConf

\* A bucket that is created has no policy.
LEMMA CreateStep ==
  ASSUME ConfInv, NEW owner, NEW lock, NEW ownership, NEW acl, CreateBucketConf(owner, lock, ownership, acl)
  PROVE  ConfInv'
  <1>1. conf' = NewConf(created + 1, owner, lock, ownership, acl) /\ UNCHANGED <<creq, started>> /\ confirmed' = FALSE
    BY DEF CreateBucketConf
  <1>2. {"id", "policy", "selfLock"} \subseteq DOMAIN conf' /\ conf'.policy = {} /\ conf'.selfLock = FALSE
    BY <1>1 DEF NewConf
  <1>3. RecordOK'
    BY <1>2 DEF RecordOK, Storable
  <1> QED BY <1>1, <1>3 DEF ConfInv, Carried, Storable, ValidBucketPolicy, PolicyResources, NoPrincipal, ConfOps, ActionFor

\* Every step keeps the invariant.
LEMMA NextConfInv ==
  ASSUME ConfInv, [CNext]_cvars PROVE ConfInv'
  <1>1. CASE UNCHANGED cvars
    BY <1>1, SameRecord DEF cvars, ConfInv, Carried, Storable, ValidBucketPolicy, PolicyResources, NoPrincipal, ConfOps, ActionFor
  <1>2. CASE CNext
    BY <1>2, ConfigureStep, LoggingTargetStep, UpdateStep, CreateStep DEF CNext
  <1> QED BY <1>1, <1>2

\* The invariant holds.
LEMMA ConfInvHolds == CSpec => []ConfInv
  BY InitConfInv, NextConfInv, PTL DEF CSpec

-----------------------------------------------------------------------------
(* The theorems about BucketConfig *)

\* What is stored is stored by UpdateBucket, for a live bucket.
LEMMA StoredByUpdate ==
  ASSUME ConfInv, [CNext]_cvars, NEW r \in ConfReqs, Stored(r)
  PROVE  /\ creq[r].op \in ConfOps
         /\ LiveBucket(creq[r])
         /\ conf' = Updated(creq[r].op, conf, creq[r].v) /\ conf' # Refusal
  <1>1. creq[r].pc = "update" /\ creq'[r].pc = "idle" /\ conf' # conf
    BY DEF Stored
  <1>2. ASSUME NEW x \in ConfReqs, NEW via, NEW op, NEW who, NEW v, Configure(x, via, op, who, v) PROVE FALSE
    BY <1>1, <1>2 DEF Configure
  <1>3. ASSUME NEW x \in ConfReqs, LoggingTarget(x) PROVE FALSE
    BY <1>1, <1>3 DEF LoggingTarget
  <1>4. ASSUME NEW owner, NEW lock, NEW ownership, NEW acl, CreateBucketConf(owner, lock, ownership, acl) PROVE FALSE
    BY <1>1, <1>4 DEF CreateBucketConf
  <1>5. PICK x \in ConfReqs : UpdateBucketConf(x)
    BY <1>1, <1>2, <1>3, <1>4 DEF CNext, cvars
  <1>6. x = r
    BY <1>1, <1>5 DEF UpdateBucketConf, ConfInv
  <1>7. creq[r].op \in ConfOps
    BY <1>1 DEF ConfInv, Carried
  <1> QED BY <1>1, <1>5, <1>6, <1>7 DEF UpdateBucketConf

\* No lost update: what a handler of s3api/bucket.go or console/buckets.go
\* stores differs from the record before it in its own fields only.
THEOREM NoLostUpdate == CSpec => OwnFieldsOnly
  <1>1. ASSUME ConfInv, [CNext]_cvars
        PROVE  \A r \in ConfReqs : Stored(r) /\ conf' # NoConf =>
                 \A f \in DOMAIN conf : conf'[f] # conf[f] => f \in Changes(creq[r].op)
    <2> SUFFICES ASSUME NEW r \in ConfReqs, Stored(r), conf' # NoConf
                 PROVE  \A f \in DOMAIN conf : conf'[f] # conf[f] => f \in Changes(creq[r].op)
      OBVIOUS
    <2>1. /\ creq[r].op \in ConfOps
          /\ conf' = Updated(creq[r].op, conf, creq[r].v) /\ conf' # Refusal
      BY <1>1, StoredByUpdate
    <2>2. creq[r].op # "delete"
      BY <2>1 DEF Updated
    <2> QED BY <2>1, <2>2, UpdatedFields
  <1> QED BY <1>1, ConfInvHolds, PTL DEF CSpec, OwnFieldsOnly

\* What a handler of the S3 API stores or deletes is in the bucket whose record it was
\* authorised with (liveBucket), not in a later one of the same name.
THEOREM RightBucket == CSpec => ConfiguredAsDecided
  <1>1. ASSUME ConfInv, [CNext]_cvars
        PROVE  \A r \in ConfReqs : Stored(r) /\ creq[r].via = "s3" => conf.id = creq[r].b.id
    BY <1>1, StoredByUpdate DEF LiveBucket
  <1> QED BY <1>1, ConfInvHolds, PTL DEF CSpec, ConfiguredAsDecided

\* Root may read, replace and delete any policy, whatever it denies: in the
\* console always, and over the S3 API unless the last policy put there came
\* with the header that confirms root's exclusion.
THEOREM RootKeepsPolicy == CSpec => []RootNotLockedOut
  <1>1. ASSUME ConfInv, conf # NoConf, NEW via \in {"s3", "console"}, via = "console" \/ ~confirmed,
               NEW action \in PolicyActions
        PROVE  MayConfigure(conf, via, Root, action)
    <2> DEFINE a == [action |-> action, resource |-> <<"b">>, caller |-> Root, context |-> <<>>]
               seen == IF via = "console" THEN [conf EXCEPT !.selfLock = FALSE] ELSE conf
    <2>1. ~seen.selfLock
      BY <1>1 DEF ConfInv, RecordOK
    <2>2. a.caller = Root /\ a.action = action /\ Root # Nobody
      BY PolicyAssumption
    <2>3. MayConfigure(conf, via, Root, action) = Allowed(Decide(seen, NoObject, a, {}, {}))
      BY DEF MayConfigure
    <2> HIDE DEF a, seen
    <2>4. Decide(seen, NoObject, a, {}, {}) = "ByPolicy"
      BY <2>1, <2>2, <1>1 DEF Decide
    <2> QED BY <2>3, <2>4 DEF Allowed
  <1>2. ConfInv => RootNotLockedOut
    BY <1>1 DEF RootNotLockedOut
  <1> QED BY <1>2, ConfInvHolds, PTL

-----------------------------------------------------------------------------
(* Buckets that are not public *)

\* A list of one value.
LEMMA OneValue ==
  ASSUME NEW s PROVE <<s>> # <<>> /\ <<s>>[1] = s /\ DOMAIN <<s>> = {1}
  <1>1. <<s>> # <<>>
    OBVIOUS
  <1>2. <<s>>[1] = s
    OBVIOUS
  <1>3. DOMAIN <<s>> = 1..1
    OBVIOUS
  <1>4. 1..1 = {1}
    OBVIOUS
  <1> QED BY <1>1, <1>2, <1>3, <1>4

\* What a stranger's request tells Decide.
StrangerContext(ip) == WithVars([sourceip |-> <<ip>>], Nobody)

\* That is its address, and that it is anonymous.
LEMMA StrangerSays ==
  ASSUME NEW ip
  PROVE  /\ DOMAIN StrangerContext(ip) = {"sourceip", "principaltype"}
         /\ StrangerContext(ip)["sourceip"] = <<ip>>
         /\ StrangerContext(ip)["principaltype"] = <<Anonymous>>
  <1> DEFINE x == [sourceip |-> <<ip>>]
  <1>1. DOMAIN x = {"sourceip"} /\ x["sourceip"] = <<ip>>
    OBVIOUS
  <1>2. PrincipalType(Nobody) = Anonymous
    BY DEF PrincipalType
  <1>3. StrangerContext(ip) = WithVars(x, Nobody)
    BY DEF StrangerContext
  <1> HIDE DEF x
  <1> QED BY <1>1, <1>2, <1>3 DEF WithVars

\* A limit fails on a request that has its key with another value.
LEMMA OtherValue ==
  ASSUME NEW c, c.rel = "eq", c.family # "Null", c.set \in {"", "ForAnyValue"}, NEW v,
         \A w \in c.want : v \notin w, NEW x, c.key \in DOMAIN x, x[c.key] = <<v>>
  PROVE  ~EvalCondition(c, x)
  <1>1. ~Hits(c.family, c.rel, v, c.want)
    BY DEF Hits
  <1>2. ~MatchOne(c, v)
    BY <1>1 DEF MatchOne, Hits
  <1>3. <<v>> # <<>> /\ <<v>>[1] = v /\ DOMAIN <<v>> = {1}
    BY OneValue
  <1>4. ~\E i \in DOMAIN x[c.key] : MatchOne(c, x[c.key][i])
    BY <1>2, <1>3
  <1>5. ~MatchOne(c, x[c.key][1])
    BY <1>2, <1>3
  <1> QED BY <1>3, <1>4, <1>5 DEF EvalCondition, MatchOne, Hits

\* The conditions that IsPublic takes for a limit keep a stranger out.
LEMMA LimitHolds ==
  ASSUME NEW c, c.rel = "eq", c.family # "Null", c.key \in LimitingKeys,
         ~(c.ifExists \/ c.set = "ForAllValues"), c.set \in {"", "ForAnyValue", "ForAllValues"}, NEW ip,
         c.key = "sourceip" => \A w \in c.want : ip \notin w,
         c.key = "principaltype" => \A w \in c.want : Anonymous \notin w
  PROVE  ~EvalCondition(c, StrangerContext(ip))
  <1>1. /\ DOMAIN StrangerContext(ip) = {"sourceip", "principaltype"}
        /\ StrangerContext(ip)["sourceip"] = <<ip>>
        /\ StrangerContext(ip)["principaltype"] = <<Anonymous>>
    BY StrangerSays
  <1>2. CASE c.key = "sourceip"
    BY <1>1, <1>2, OtherValue
  <1>3. CASE c.key = "principaltype"
    BY <1>1, <1>3, OtherValue
  <1>4. CASE c.key = "userid"
    <2>1. c.key \notin DOMAIN StrangerContext(ip)
      BY <1>1, <1>4
    <2> QED BY <2>1 DEF EvalCondition
  <1> QED BY <1>2, <1>3, <1>4 DEF LimitingKeys

\* Nothing that a policy says admits a stranger to a bucket that is not public.
LEMMA PolicyClosed ==
  ASSUME NEW doc \in ConfDocs, ValidBucketPolicy(doc, PolicyResources), ~IsPublic(doc), ~Overlooked(doc),
         NEW ip, ip \notin NamedBy(doc), NEW a, a.caller = Nobody, a.context = StrangerContext(ip)
  PROVE  Evaluate(doc, a) # "Allowed"
  <1>1. ASSUME NEW st \in doc, st.effect # "Deny" PROVE ~MatchesStatement(st, a)
    <2>1. /\ st.effect = "Allow"
          /\ \A c \in st.conditions : c.set \in {"", "ForAnyValue", "ForAllValues"}
      BY <1>1, DocumentsAssumption
    <2>2. st.principal # NoPrincipal
      BY <2>1 DEF ValidBucketPolicy, Overlooked, AllowsAllBut
    <2>3. CASE ~st.principal.all
      <3>1. ~MatchesPrincipal(st.principal, a.caller)
        BY <2>3 DEF MatchesPrincipal
      <3> QED BY <2>2, <3>1 DEF MatchesStatement
    <2>4. CASE st.principal.all
      <3>1. PICK c \in st.conditions : c.rel = "eq" /\ c.family # "Null" /\ c.key \in LimitingKeys
        BY <2>1, <2>4 DEF IsPublic
      <3>2. /\ ~(c.ifExists \/ c.set = "ForAllValues")
            /\ c.key = "principaltype" => \A w \in c.want : Anonymous \notin w
        BY <2>1, <3>1 DEF Overlooked
      <3>3. c.key = "sourceip" => \A w \in c.want : ip \notin w
        BY <3>1 DEF NamedBy
      <3>4. ~EvalCondition(c, a.context)
        BY <2>1, <3>1, <3>2, <3>3, LimitHolds
      <3> QED BY <3>1, <3>4 DEF MatchesStatement
    <2> QED BY <2>3, <2>4
  <1> QED BY <1>1 DEF Evaluate

\* Nor does the ACL.
LEMMA AclClosed ==
  ASSUME NEW b, ~(b.ownership # "BucketOwnerEnforced" /\ IsPublicACL(b.acl) /\ ~b.block.ignoreAcls), NEW action
  PROVE  ~AclAllows(b, NoObject, Nobody, action)
  <1>1. NoObject.acl = {} /\ NoObject.owner = Nobody
    BY DEF NoObject
  <1>2. \A may : ~Granted(NoObject.acl, NoObject.owner, Nobody, may, b.block)
    BY <1>1 DEF Granted
  <1>3. b.ownership # "BucketOwnerEnforced" => \A may : ~Granted(b.acl, b.owner, Nobody, may, b.block)
    BY DEF Granted, IsPublicACL, AllUsers, AuthenticatedUsers
  <1> QED BY <1>2, <1>3 DEF AclAllows, Granted

\* A bucket that getBucketPolicyStatus does not report as public is closed to
\* strangers: neither its policy nor its ACL lets an anonymous request from an
\* address that the policy does not name do anything, unless the policy is one
\* whose opening to anonymous requests IsPublic overlooks.
THEOREM NotPublicIsClosed == CSpec => []ClosedUnlessPublic
  <1>1. ASSUME ConfInv, ~PolicyStatus(conf), ~Overlooked(conf.policy), NEW action, NEW resource,
               NEW ip, ip \notin NamedBy(conf.policy)
        PROVE  ~Allowed(Decide(conf, NoObject, [action |-> action, resource |-> resource,
                          caller |-> Nobody, context |-> [sourceip |-> <<ip>>]], {}, {}))
    <2> DEFINE a == [action |-> action, resource |-> resource, caller |-> Nobody,
                     context |-> [sourceip |-> <<ip>>]]
               args == [a EXCEPT !.context = WithVars(@, a.caller)]
               skip == conf.block.restrict /\ IsPublic(conf.policy)
               bp == IF conf.policy = {} \/ skip THEN "NoMatch" ELSE Evaluate(conf.policy, args)
    <2>1. a.caller = Nobody /\ a.context = [sourceip |-> <<ip>>] /\ Nobody # Root /\ a.action = action
      BY PolicyAssumption
    <2>a. args.caller = Nobody /\ args.context = StrangerContext(ip)
      BY DEF StrangerContext
    <2> HIDE DEF args
    <2>2. /\ ~(IsPublic(conf.policy) /\ ~conf.block.restrict)
          /\ ~(conf.ownership # "BucketOwnerEnforced" /\ IsPublicACL(conf.acl) /\ ~conf.block.ignoreAcls)
      BY <1>1 DEF PolicyStatus
    <2>3. bp # "Allowed"
      <3>1. CASE conf.policy = {} \/ skip
        BY <3>1
      <3>2. CASE conf.policy # {} /\ ~IsPublic(conf.policy)
        <4>1. conf.policy \in ConfDocs /\ ValidBucketPolicy(conf.policy, PolicyResources)
          BY <1>1, <3>2 DEF ConfInv, RecordOK, Storable
        <4>2. PICK doc : doc = conf.policy
          OBVIOUS
        <4>3. PICK y : y = args
          OBVIOUS
        <4>4. Evaluate(doc, y) # "Allowed"
          BY <1>1, <2>a, <3>2, <4>1, <4>2, <4>3, PolicyClosed
        <4> QED BY <4>2, <4>3, <4>4
      <3> QED BY <2>2, <3>1, <3>2
    <2> HIDE DEF a
    <2>4. ~AclAllows(conf, NoObject, a.caller, a.action)
      BY <2>1, <2>2, AclClosed
    <2>5. Decide(conf, NoObject, a, {}, {}) \in {"Refused", "NoGrant"}
      BY <2>1, <2>3, <2>4 DEF Decide, args
    <2> QED BY <2>5 DEF a, Allowed
  <1>2. ConfInv => ClosedUnlessPublic
    BY <1>1 DEF ClosedUnlessPublic
  <1> QED BY <1>2, ConfInvHolds, PTL

-----------------------------------------------------------------------------
(* Induction over natural numbers *)

\* Every set of naturals has a least element.
LEMMA LeastElement ==
  ASSUME NEW T \in SUBSET Nat, T # {}
  PROVE  \E m \in T : \A k \in T : m <= k
<1> DEFINE R == OpToRel(<, Nat)
<1>1. IsWellFoundedOn(R, Nat)
  BY NatLessThanWellFounded
<1>2. \A x, y \in Nat : x < y => <<x, y>> \in R
  BY DEF OpToRel
<1>. HIDE DEF R
<1>3. PICK m \in T : \A k \in T : ~(<<k, m>> \in R)
  BY <1>1, WFMin
<1>4. ASSUME NEW k \in T PROVE m <= k
  <2>1. m \in Nat /\ k \in Nat /\ ~(k < m)
    BY <1>2, <1>3
  <2>. QED  BY <2>1
<1>. QED  BY <1>4

-----------------------------------------------------------------------------
(* Glob: patterns and the texts they fit *)

\* The positions of a pattern are natural numbers.
LEMMA Lengths == ASSUME NEW S, NEW s \in Seq(S) PROVE Len(s) \in Nat /\ DOMAIN s = 1..Len(s)
  OBVIOUS

\* A fit begins within the text.
LEMMA FitsWithin ==
  ASSUME NEW S, NEW p \in Seq(S), NEW t \in Seq(S), NEW i \in 0..Len(p), NEW j, FitsFrom(p, t, i, j)
  PROVE  j \in 0..Len(t) /\ (i = Len(p) => j = Len(t))
<1>1. PICK cut \in [i..Len(p) -> 0..Len(t)] : cut[i] = j /\ cut[Len(p)] = Len(t)
  BY DEF FitsFrom
<1>2. i \in i..Len(p)
  BY Lengths
<1>. QED  BY <1>1, <1>2

\* The end of a pattern fits the end of a text.
LEMMA EndFits ==
  ASSUME NEW S, NEW p \in Seq(S), NEW t \in Seq(S)
  PROVE  FitsFrom(p, t, Len(p), Len(t))
<1> DEFINE cut == [k \in Len(p)..Len(p) |-> Len(t)]
<1>1. Len(p) \in Nat /\ Len(t) \in Nat
  BY Lengths
<1>2. cut \in [Len(p)..Len(p) -> 0..Len(t)] /\ cut[Len(p)] = Len(t)
  BY <1>1
<1>3. \A k \in Len(p)..Len(p) - 1 : FALSE
  BY <1>1
<1>. QED  BY <1>2, <1>3 DEF FitsFrom

\* One more character in front, and the stretch it takes.
LEMMA FitsMore ==
  ASSUME NEW S, NEW p \in Seq(S), NEW t \in Seq(S), NEW i \in 0..Len(p), i < Len(p), NEW j \in 0..Len(t),
         NEW e, Fits(p[i + 1], t, j, e), FitsFrom(p, t, i + 1, e)
  PROVE  FitsFrom(p, t, i, j)
<1>1. PICK cut \in [i + 1..Len(p) -> 0..Len(t)] :
        /\ cut[i + 1] = e /\ cut[Len(p)] = Len(t)
        /\ \A k \in i + 1..Len(p) - 1 : Fits(p[k + 1], t, cut[k], cut[k + 1])
  BY DEF FitsFrom
<1>2. Len(p) \in Nat /\ i \in Nat
  BY Lengths
<1> DEFINE new == [k \in i..Len(p) |-> IF k = i THEN j ELSE cut[k]]
<1>3. new \in [i..Len(p) -> 0..Len(t)]
  BY <1>1, <1>2
<1>4. new[i] = j /\ new[Len(p)] = Len(t) /\ new[i + 1] = e
  BY <1>1, <1>2
<1>5. \A k \in i + 1..Len(p) : k \in i..Len(p) /\ new[k] = cut[k]
  BY <1>2
<1>6. ASSUME NEW k \in i..Len(p) - 1 PROVE Fits(p[k + 1], t, new[k], new[k + 1])
  <2>1. CASE k = i
    BY <1>4, <2>1
  <2>2. CASE k # i
    <3>1. k \in i + 1..Len(p) - 1 /\ k \in i + 1..Len(p) /\ k + 1 \in i + 1..Len(p)
      BY <1>2, <2>2
    <3>2. new[k] = cut[k] /\ new[k + 1] = cut[k + 1]
      BY <1>5, <3>1
    <3>. QED  BY <1>1, <3>1, <3>2
  <2>. QED  BY <2>1, <2>2
<1>. HIDE DEF new
<1>. QED  BY <1>3, <1>4, <1>6 DEF FitsFrom

\* What the first character of a fit takes.
LEMMA FitsLess ==
  ASSUME NEW S, NEW p \in Seq(S), NEW t \in Seq(S), NEW i \in 0..Len(p), i < Len(p), NEW j,
         FitsFrom(p, t, i, j)
  PROVE  \E e \in 0..Len(t) : Fits(p[i + 1], t, j, e) /\ FitsFrom(p, t, i + 1, e)
<1>1. PICK cut \in [i..Len(p) -> 0..Len(t)] :
        /\ cut[i] = j /\ cut[Len(p)] = Len(t)
        /\ \A k \in i..Len(p) - 1 : Fits(p[k + 1], t, cut[k], cut[k + 1])
  BY DEF FitsFrom
<1>2. Len(p) \in Nat /\ i \in Nat
  BY Lengths
<1> DEFINE new == [k \in i + 1..Len(p) |-> cut[k]]
           e == cut[i + 1]
<1>3. i \in i..Len(p) - 1 /\ i + 1 \in i..Len(p) /\ i + 1 \in i + 1..Len(p)
  BY <1>2
<1>4. e \in 0..Len(t) /\ Fits(p[i + 1], t, j, e)
  BY <1>1, <1>3
<1>5. \A k \in i + 1..Len(p) : k \in i..Len(p) /\ new[k] = cut[k]
  BY <1>2
<1>6. new \in [i + 1..Len(p) -> 0..Len(t)]
  BY <1>1, <1>5
<1>7. Len(p) \in i + 1..Len(p)
  BY <1>2
<1>8. new[i + 1] = e /\ new[Len(p)] = Len(t)
  BY <1>1, <1>3, <1>5, <1>7
<1>9. ASSUME NEW k \in i + 1..Len(p) - 1 PROVE Fits(p[k + 1], t, new[k], new[k + 1])
  <2>1. k \in i..Len(p) - 1 /\ k \in i + 1..Len(p) /\ k + 1 \in i + 1..Len(p)
    BY <1>2
  <2>2. new[k] = cut[k] /\ new[k + 1] = cut[k + 1]
    BY <1>5, <2>1
  <2>. QED  BY <1>1, <2>1, <2>2
<1>. HIDE DEF new, e
<1>10. FitsFrom(p, t, i + 1, e)
  BY <1>6, <1>8, <1>9 DEF FitsFrom
<1>. QED  BY <1>4, <1>10

\* A star can always take what lies before.
LEMMA StarTakesMore ==
  ASSUME NEW S, NEW p \in Seq(S), NEW t \in Seq(S), NEW i \in 0..Len(p), i < Len(p), p[i + 1] = "*",
         NEW j \in 0..Len(t), NEW m, j <= m, FitsFrom(p, t, i, m)
  PROVE  FitsFrom(p, t, i, j)
<1>1. m \in 0..Len(t)
  BY FitsWithin
<1>2. PICK e \in 0..Len(t) : Fits(p[i + 1], t, m, e) /\ FitsFrom(p, t, i + 1, e)
  BY FitsLess
<1>3. j <= e
  BY <1>1, <1>2, Lengths DEF Fits
<1>4. Fits(p[i + 1], t, j, e)
  BY <1>3 DEF Fits
<1>. QED  BY <1>2, <1>4, FitsMore

\* A star takes nothing or one character more.
LEMMA StarTakes ==
  ASSUME NEW S, NEW p \in Seq(S), NEW t \in Seq(S), NEW i \in 0..Len(p), i < Len(p), p[i + 1] = "*",
         NEW j, FitsFrom(p, t, i, j)
  PROVE  FitsFrom(p, t, i + 1, j) \/ FitsFrom(p, t, i, j + 1)
<1>1. j \in 0..Len(t) /\ Len(t) \in Nat
  BY FitsWithin, Lengths
<1>2. PICK e \in 0..Len(t) : Fits(p[i + 1], t, j, e) /\ FitsFrom(p, t, i + 1, e)
  BY FitsLess
<1>3. e = j \/ (j + 1 <= e /\ j + 1 \in 0..Len(t))
  BY <1>1, <1>2 DEF Fits
<1>4. CASE j + 1 <= e /\ j + 1 \in 0..Len(t)
  <2>1. Fits(p[i + 1], t, j + 1, e)
    BY <1>4 DEF Fits
  <2>. QED  BY <1>2, <1>4, <2>1, FitsMore
<1>. QED  BY <1>2, <1>3, <1>4

\* A character other than a star takes one.
LEMMA CharTakes ==
  ASSUME NEW S, NEW p \in Seq(S), NEW t \in Seq(S), NEW i \in 0..Len(p), i < Len(p), p[i + 1] # "*",
         NEW j, FitsFrom(p, t, i, j)
  PROVE  j < Len(t) /\ p[i + 1] \in {"?", t[j + 1]} /\ FitsFrom(p, t, i + 1, j + 1)
<1>1. j \in 0..Len(t) /\ Len(t) \in Nat
  BY FitsWithin, Lengths
<1>2. PICK e \in 0..Len(t) : Fits(p[i + 1], t, j, e) /\ FitsFrom(p, t, i + 1, e)
  BY FitsLess
<1>3. e = j + 1 /\ p[i + 1] \in {"?", t[e]}
  BY <1>2 DEF Fits
<1>. QED  BY <1>1, <1>2, <1>3

\* A stretch of a pattern without a star moves on in step with the text.
LEMMA StretchTakes ==
  ASSUME NEW S, NEW p \in Seq(S), NEW t \in Seq(S), NEW i \in 0..Len(p), NEW n \in Nat, i + n <= Len(p),
         \A k \in i..i + n - 1 : p[k + 1] # "*", NEW j, FitsFrom(p, t, i, j)
  PROVE  FitsFrom(p, t, i + n, j + n)
<1> DEFINE Wrong == {m \in Nat : m <= n /\ ~FitsFrom(p, t, i + m, j + m)}
<1>1. SUFFICES ASSUME Wrong # {} PROVE FALSE
  OBVIOUS
<1>2. j \in Nat /\ Len(p) \in Nat /\ i \in Nat
  BY FitsWithin, Lengths
<1>3. PICK m \in Wrong : \A k \in Wrong : m <= k
  BY <1>1, LeastElement
<1>4. m # 0
  <2>1. i + 0 = i /\ j + 0 = j
    BY <1>2
  <2>2. FitsFrom(p, t, i + 0, j + 0)
    BY <2>1
  <2>. QED  BY <1>3, <2>2
<1>5. m \in Nat /\ m - 1 \in Nat /\ m - 1 <= n /\ m - 1 \notin Wrong
  BY <1>3, <1>4
<1>6. FitsFrom(p, t, i + (m - 1), j + (m - 1))
  BY <1>5
<1> DEFINE a == i + (m - 1)
           b == j + (m - 1)
<1>7. a \in 0..Len(p) /\ a < Len(p) /\ a \in i..i + n - 1 /\ a + 1 = i + m /\ b + 1 = j + m
  BY <1>2, <1>3, <1>5
<1>. HIDE DEF a, b
<1>8. p[a + 1] # "*"
  BY <1>7
<1>9. FitsFrom(p, t, a, b)
  BY <1>6 DEF a, b
<1>10. FitsFrom(p, t, a + 1, b + 1)
  BY <1>7, <1>8, <1>9, CharTakes
<1>. QED  BY <1>3, <1>7, <1>10

-----------------------------------------------------------------------------
(* Glob: the invariant of the loops *)

Symbols == Chars \cup {"*", "?"}

Fit(i, j) == FitsFrom(pattern, text, i, j)

\* The positions: while there is text, pattern and text have moved on in step
\* since the last star.
GTypeOK ==
  /\ pattern \in Seq(Symbols) /\ text \in Seq(Symbols)
  /\ px \in 0..Len(pattern) /\ sx \in 0..Len(text)
  /\ starP \in Int /\ starS \in Int
  /\ starP >= 0 => /\ starS \in 0..sx /\ starP < px /\ pattern[starP + 1] = "*"
                   /\ sx < Len(text) => px - (starP + 1) = sx - starS
  /\ verdict \in {"none", "yes", "no"}

\* A fit from here on, or from the last star on, is a fit.
Sound ==
  /\ Fit(px, sx) => Fit(0, 0)
  /\ starP >= 0 /\ Fit(starP, starS) => Fit(0, 0)
  /\ verdict = "yes" => Fit(0, 0)

NoStar == \A i \in DOMAIN text : text[i] # "*"

\* If there is a fit there is one from here on, or one in which the last star
\* takes more than it has so far; and since that star there was no other.
Complete ==
  /\ starP >= 0 /\ sx < Len(text) => \A k \in starP + 1..px - 1 : pattern[k + 1] # "*"
  /\ verdict = "none" /\ Fit(0, 0) =>
       Fit(px, sx) \/ (starP >= 0 /\ sx < Len(text) /\ Fit(starP, starS + 1))
  /\ verdict = "no" => ~Fit(0, 0)

GInv == GTypeOK /\ Sound /\ (NoStar => Complete)

-----------------------------------------------------------------------------
(* Glob: the steps *)

\* The loop begins at the beginning of both, and has met no star.
LEMMA InitGInv == ASSUME GInit PROVE GInv
<1>1. ASSUME NEW T, T \subseteq Symbols, NEW n \in Nat, NEW s \in Strings(T, n) PROVE s \in Seq(Symbols)
  <2>1. PICK k \in 0..n : s \in [1..k -> T]
    BY <1>1 DEF Strings
  <2>. QED  BY <1>1, <2>1
<1>2. pattern \in Seq(Symbols) /\ text \in Seq(Symbols)
  BY <1>1, GlobAssumption DEF GInit, Symbols
<1>3. GTypeOK
  BY <1>2, Lengths DEF GInit, GTypeOK
<1>4. Sound /\ Complete
  BY DEF GInit, Sound, Complete
<1>. QED  BY <1>3, <1>4 DEF GInv

\* GInv' in terms of the strings, which stay.
LEMMA GAssembled ==
  ASSUME GInv, UNCHANGED <<pattern, text>>, GTypeOK',
         FitsFrom(pattern, text, px', sx') => Fit(0, 0),
         starP' >= 0 /\ FitsFrom(pattern, text, starP', starS') => Fit(0, 0),
         verdict' = "yes" => Fit(0, 0),
         NoStar => /\ starP' >= 0 /\ sx' < Len(text) => \A k \in starP' + 1..px' - 1 : pattern[k + 1] # "*"
                   /\ verdict' = "none" /\ Fit(0, 0) =>
                        \/ FitsFrom(pattern, text, px', sx')
                        \/ starP' >= 0 /\ sx' < Len(text) /\ FitsFrom(pattern, text, starP', starS' + 1)
                   /\ verdict' = "no" => ~Fit(0, 0)
  PROVE  GInv'
<1>1. Fit(0, 0)' <=> Fit(0, 0)
  BY DEF Fit
<1>2. /\ Fit(px, sx)' <=> FitsFrom(pattern, text, px', sx')
      /\ Fit(starP, starS)' <=> FitsFrom(pattern, text, starP', starS')
      /\ Fit(starP, starS + 1)' <=> FitsFrom(pattern, text, starP', starS' + 1)
  BY DEF Fit
<1>3. NoStar' <=> NoStar
  BY DEF NoStar
<1>4. Sound'
  BY <1>1, <1>2 DEF Sound
<1>5. NoStar => Complete'
  BY <1>1, <1>2 DEF Complete
<1>. QED  BY <1>3, <1>4, <1>5 DEF GInv

\* What the invariant says of positions.
LEMMA GParts ==
  ASSUME GInv
  PROVE  /\ pattern \in Seq(Symbols) /\ text \in Seq(Symbols) /\ Len(pattern) \in Nat /\ Len(text) \in Nat
         /\ px \in 0..Len(pattern) /\ sx \in 0..Len(text) /\ starP \in Int /\ starS \in Int
         /\ starP >= 0 => /\ starS \in 0..sx /\ starP \in 0..Len(pattern) /\ starP < px /\ starP < Len(pattern)
                          /\ pattern[starP + 1] = "*" /\ (sx < Len(text) => px - (starP + 1) = sx - starS)
         /\ Fit(px, sx) => Fit(0, 0)
         /\ starP >= 0 /\ Fit(starP, starS) => Fit(0, 0)
         /\ NoStar => Complete
<1>1. Len(pattern) \in Nat /\ Len(text) \in Nat
  BY Lengths DEF GInv, GTypeOK
<1>. QED  BY <1>1 DEF GInv, GTypeOK, Sound

\* A fit in which the last star takes more puts the rest of the pattern further
\* on in the text.
LEMMA StarLater ==
  ASSUME GInv, NoStar, starP >= 0, sx < Len(text), Fit(starP, starS + 1)
  PROVE  \E b \in 0..Len(text) : b > sx /\ Fit(px, b)
<1>1. /\ pattern \in Seq(Symbols) /\ text \in Seq(Symbols) /\ Len(pattern) \in Nat /\ Len(text) \in Nat
      /\ px \in 0..Len(pattern) /\ sx \in 0..Len(text) /\ starP \in 0..Len(pattern) /\ starS \in 0..sx
      /\ starP < px /\ starP < Len(pattern) /\ pattern[starP + 1] = "*" /\ px - (starP + 1) = sx - starS
      /\ \A k \in starP + 1..px - 1 : pattern[k + 1] # "*"
  BY GParts DEF Complete
<1>2. PICK e \in 0..Len(text) : /\ Fits(pattern[starP + 1], text, starS + 1, e)
                                /\ FitsFrom(pattern, text, starP + 1, e)
  BY <1>1, FitsLess DEF Fit
<1> DEFINE n == px - (starP + 1)
<1>3. e >= starS + 1
  BY <1>1, <1>2 DEF Fits
<1>4. n \in Nat /\ (starP + 1) + n = px /\ (starP + 1) + n - 1 = px - 1 /\ starP + 1 \in 0..Len(pattern) /\ e + n > sx
  BY <1>1, <1>3
<1>. HIDE DEF n
<1>5. FitsFrom(pattern, text, (starP + 1) + n, e + n)
  <2> DEFINE i == starP + 1
  <2>1. i \in 0..Len(pattern) /\ i + n <= Len(pattern)
    BY <1>1, <1>4
  <2>2. \A k \in i..i + n - 1 : pattern[k + 1] # "*"
    BY <1>1, <1>4
  <2>. HIDE DEF i
  <2>3. FitsFrom(pattern, text, i, e)
    BY <1>2 DEF i
  <2>4. FitsFrom(pattern, text, i + n, e + n)
    BY <1>1, <1>4, <2>1, <2>2, <2>3, StretchTakes
  <2>. QED  BY <2>4 DEF i
<1>6. Fit(px, e + n)
  BY <1>4, <1>5 DEF Fit
<1>7. e + n \in 0..Len(text)
  BY <1>1, <1>6, FitsWithin DEF Fit
<1>. QED  BY <1>4, <1>6, <1>7

\* Pattern and text move on together.
LEMMA AdvanceStep == ASSUME GInv, Advance PROVE GInv'
<1>1. /\ verdict = "none" /\ sx < Len(text) /\ px < Len(pattern) /\ pattern[px + 1] \in {"?", text[sx + 1]}
      /\ px' = px + 1 /\ sx' = sx + 1 /\ UNCHANGED <<pattern, text, starP, starS, verdict>>
  BY DEF Advance, Scanning, Takes
<1>2. /\ pattern \in Seq(Symbols) /\ text \in Seq(Symbols) /\ Len(pattern) \in Nat /\ Len(text) \in Nat
      /\ px \in 0..Len(pattern) /\ sx \in 0..Len(text) /\ starP \in Int /\ starS \in Int
      /\ starP >= 0 => /\ starS \in 0..sx /\ starP < px /\ pattern[starP + 1] = "*"
                       /\ px - (starP + 1) = sx - starS
  BY <1>1, GParts
<1>3. GTypeOK'
  BY <1>1, <1>2 DEF GTypeOK
<1>4. FitsFrom(pattern, text, px', sx') => Fit(px, sx)
  <2>1. Fits(pattern[px + 1], text, sx, sx + 1)
    BY <1>1, <1>2 DEF Fits
  <2>. QED  BY <1>1, <1>2, <2>1, FitsMore DEF Fit
<1>5. ASSUME NoStar
      PROVE  /\ starP >= 0 => \A k \in starP + 1..px' - 1 : pattern[k + 1] # "*"
             /\ Fit(0, 0) => \/ FitsFrom(pattern, text, px', sx')
                             \/ starP >= 0 /\ sx' < Len(text) /\ FitsFrom(pattern, text, starP, starS + 1)
  <2>1. Complete
    BY <1>5, GParts
  <2>2. pattern[px + 1] # "*"
    <3>1. sx + 1 \in DOMAIN text
      BY <1>1, <1>2, Lengths
    <3>. QED  BY <1>1, <1>5, <3>1 DEF NoStar
  <2>3. starP >= 0 => \A k \in starP + 1..px' - 1 : pattern[k + 1] # "*"
    <3>1. starP >= 0 => \A k \in starP + 1..px' - 1 : k = px \/ k \in starP + 1..px - 1
      BY <1>1, <1>2
    <3>. QED  BY <1>1, <2>1, <2>2, <3>1 DEF Complete
  <2>4. Fit(px, sx) => FitsFrom(pattern, text, px', sx')
    BY <1>1, <1>2, <2>2, CharTakes DEF Fit
  <2>5. ASSUME starP >= 0, Fit(starP, starS + 1) PROVE sx' < Len(text)
    <3>1. PICK b \in 0..Len(text) : b > sx /\ Fit(px, b)
      BY <1>1, <1>5, <2>5, StarLater
    <3>2. b < Len(text)
      BY <1>1, <1>2, <2>2, <3>1, CharTakes DEF Fit
    <3>. QED  BY <1>1, <1>2, <3>1, <3>2
  <2>6. Fit(0, 0) => Fit(px, sx) \/ (starP >= 0 /\ Fit(starP, starS + 1))
    BY <1>1, <2>1 DEF Complete
  <2>7. Fit(starP, starS + 1) => FitsFrom(pattern, text, starP, starS + 1)
    BY DEF Fit
  <2>. QED  BY <2>3, <2>4, <2>5, <2>6, <2>7
<1>6. starP >= 0 /\ FitsFrom(pattern, text, starP, starS) => Fit(0, 0)
  BY GParts DEF Fit
<1>. QED  BY <1>1, <1>3, <1>4, <1>5, <1>6, GParts, GAssembled

\* A new star; what the one before could still take, this one can.
LEMMA MarkStarStep == ASSUME GInv, MarkStar PROVE GInv'
<1>1. /\ verdict = "none" /\ sx < Len(text) /\ px < Len(pattern) /\ pattern[px + 1] = "*"
      /\ starP' = px /\ starS' = sx /\ px' = px + 1 /\ sx' = sx /\ UNCHANGED <<pattern, text, verdict>>
  BY DEF MarkStar, Scanning, AtStar
<1>2. /\ pattern \in Seq(Symbols) /\ text \in Seq(Symbols) /\ Len(pattern) \in Nat /\ Len(text) \in Nat
      /\ px \in 0..Len(pattern) /\ sx \in 0..Len(text) /\ starP \in Int /\ starS \in Int
  BY GParts
<1>3. GTypeOK'
  BY <1>1, <1>2 DEF GTypeOK
<1>4. FitsFrom(pattern, text, px', sx') => Fit(px, sx)
  <2>1. Fits(pattern[px + 1], text, sx, sx)
    BY <1>1, <1>2 DEF Fits
  <2>. QED  BY <1>1, <1>2, <2>1, FitsMore DEF Fit
<1>5. ASSUME NoStar, Fit(0, 0)
      PROVE  FitsFrom(pattern, text, px', sx') \/ FitsFrom(pattern, text, starP', starS' + 1)
  <2>1. Fit(px, sx)
    <3>1. Fit(px, sx) \/ (starP >= 0 /\ Fit(starP, starS + 1))
      BY <1>1, <1>5, GParts DEF Complete
    <3>2. ASSUME starP >= 0, Fit(starP, starS + 1) PROVE Fit(px, sx)
      <4>1. PICK b \in 0..Len(text) : b > sx /\ Fit(px, b)
        BY <1>1, <1>5, <3>2, StarLater
      <4>2. sx <= b
        BY <1>2, <4>1
      <4>. QED  BY <1>1, <1>2, <4>1, <4>2, StarTakesMore DEF Fit
    <3>. QED  BY <3>1, <3>2
  <2>. QED  BY <1>1, <1>2, <2>1, StarTakes DEF Fit
<1>6. \A k \in starP' + 1..px' - 1 : FALSE
  BY <1>1, <1>2
<1>7. Fit(px, sx) => Fit(0, 0)
  BY GParts
<1>8. FitsFrom(pattern, text, starP', starS') => Fit(px, sx)
  BY <1>1 DEF Fit
<1>9. starP' >= 0
  BY <1>1, <1>2
<1>. QED  BY <1>1, <1>3, <1>4, <1>5, <1>6, <1>7, <1>8, <1>9, GAssembled

\* Where the loop is stuck there is no fit from here on.
LEMMA Stuck ==
  ASSUME GInv, Scanning, ~Takes, ~AtStar
  PROVE  ~Fit(px, sx)
<1> SUFFICES ASSUME Fit(px, sx) PROVE FALSE
  OBVIOUS
<1>1. /\ pattern \in Seq(Symbols) /\ text \in Seq(Symbols) /\ Len(pattern) \in Nat /\ Len(text) \in Nat
      /\ px \in 0..Len(pattern) /\ sx \in 0..Len(text)
  BY GParts
<1>2. sx < Len(text)
  BY DEF Scanning
<1>3. px # Len(pattern)
  BY <1>1, <1>2, FitsWithin DEF Fit
<1>4. px < Len(pattern) /\ pattern[px + 1] # "*"
  BY <1>1, <1>3 DEF AtStar
<1>5. pattern[px + 1] \in {"?", text[sx + 1]}
  BY <1>1, <1>4, CharTakes DEF Fit
<1>. QED  BY <1>4, <1>5 DEF Takes

\* The last star takes one character more.
LEMMA BacktrackStep == ASSUME GInv, Backtrack PROVE GInv'
<1>1. /\ verdict = "none" /\ sx < Len(text) /\ starP >= 0
      /\ px' = starP + 1 /\ starS' = starS + 1 /\ sx' = starS + 1 /\ UNCHANGED <<pattern, text, starP, verdict>>
  BY DEF Backtrack, Scanning
<1>2. /\ pattern \in Seq(Symbols) /\ text \in Seq(Symbols) /\ Len(pattern) \in Nat /\ Len(text) \in Nat
      /\ px \in 0..Len(pattern) /\ sx \in 0..Len(text) /\ starP \in 0..Len(pattern) /\ starS \in 0..sx
      /\ starP < px /\ starP < Len(pattern) /\ pattern[starP + 1] = "*"
  BY <1>1, GParts
<1>3. GTypeOK'
  BY <1>1, <1>2 DEF GTypeOK
<1>4. starS + 1 \in 0..Len(text) /\ starS \in 0..Len(text) /\ starS <= starS + 1
  BY <1>1, <1>2
<1>5. FitsFrom(pattern, text, starP, starS + 1) => Fit(starP, starS)
  BY <1>2, <1>4, StarTakesMore DEF Fit
<1>6. FitsFrom(pattern, text, px', sx') => FitsFrom(pattern, text, starP, starS + 1)
  <2>1. Fits(pattern[starP + 1], text, starS + 1, starS + 1)
    BY <1>2, <1>4 DEF Fits
  <2>. QED  BY <1>1, <1>2, <1>4, <2>1, FitsMore
<1>7. Fit(starP, starS) => Fit(0, 0)
  BY <1>1, GParts
<1>8. ASSUME NoStar, Fit(0, 0)
      PROVE  \/ FitsFrom(pattern, text, px', sx')
             \/ sx' < Len(text) /\ FitsFrom(pattern, text, starP', starS' + 1)
  <2>1. Fit(starP, starS + 1)
    BY <1>1, <1>8, Stuck, GParts DEF Complete, Backtrack
  <2>2. FitsFrom(pattern, text, starP + 1, starS + 1) \/ FitsFrom(pattern, text, starP, (starS + 1) + 1)
    BY <1>2, <2>1, StarTakes DEF Fit
  <2>3. FitsFrom(pattern, text, starP, (starS + 1) + 1) => (starS + 1) + 1 \in 0..Len(text)
    BY <1>2, FitsWithin
  <2>4. (starS + 1) + 1 \in 0..Len(text) => starS + 1 < Len(text)
    BY <1>2
  <2>. QED  BY <1>1, <2>2, <2>3, <2>4
<1>9. \A k \in starP' + 1..px' - 1 : FALSE
  BY <1>1, <1>2
<1>. QED  BY <1>1, <1>3, <1>5, <1>6, <1>7, <1>8, <1>9, GAssembled

\* No star is left to take more.
LEMMA FailStep == ASSUME GInv, Fail PROVE GInv'
<1>1. /\ verdict = "none" /\ starP < 0 /\ verdict' = "no" /\ UNCHANGED <<pattern, text, px, sx, starP, starS>>
  BY DEF Fail, Scanning
<1>2. starP \in Int /\ ~(starP >= 0)
  BY <1>1, GParts
<1>3. GTypeOK'
  BY <1>1 DEF GInv, GTypeOK
<1>4. NoStar => ~Fit(0, 0)
  BY <1>1, <1>2, Stuck, GParts DEF Fail, Complete
<1>5. FitsFrom(pattern, text, px', sx') => Fit(0, 0)
  BY <1>1, GParts DEF Fit
<1>. QED  BY <1>1, <1>2, <1>3, <1>4, <1>5, GAssembled

\* A star left over takes nothing.
LEMMA SkipStarStep == ASSUME GInv, SkipStar PROVE GInv'
<1>1. /\ verdict = "none" /\ sx = Len(text) /\ px < Len(pattern) /\ pattern[px + 1] = "*"
      /\ px' = px + 1 /\ UNCHANGED <<pattern, text, sx, starP, starS, verdict>>
  BY DEF SkipStar, AtStar
<1>2. /\ pattern \in Seq(Symbols) /\ text \in Seq(Symbols) /\ Len(pattern) \in Nat /\ Len(text) \in Nat
      /\ px \in 0..Len(pattern) /\ sx \in 0..Len(text) /\ ~(sx < Len(text))
  BY <1>1, GParts
<1>3. GTypeOK'
  <2>1. starP >= 0 => starS \in 0..sx /\ starP < px' /\ pattern[starP + 1] = "*"
    BY <1>1, <1>2, GParts
  <2>. QED  BY <1>1, <1>2, <2>1, GParts DEF GTypeOK
<1>4. FitsFrom(pattern, text, px', sx') => Fit(px, sx)
  <2>1. Fits(pattern[px + 1], text, sx, sx)
    BY <1>1, <1>2 DEF Fits
  <2>. QED  BY <1>1, <1>2, <2>1, FitsMore DEF Fit
<1>5. Fit(px, sx) => FitsFrom(pattern, text, px', sx')
  <2> SUFFICES ASSUME Fit(px, sx) PROVE FitsFrom(pattern, text, px + 1, sx)
    BY <1>1
  <2>1. FitsFrom(pattern, text, px + 1, sx) \/ FitsFrom(pattern, text, px, sx + 1)
    BY <1>1, <1>2, StarTakes DEF Fit
  <2>2. FitsFrom(pattern, text, px, sx + 1) => sx + 1 \in 0..Len(text)
    BY <1>2, FitsWithin
  <2>. QED  BY <1>1, <1>2, <2>1, <2>2
<1>6. NoStar /\ Fit(0, 0) => Fit(px, sx)
  BY <1>1, <1>2, GParts DEF Complete
<1>7. starP >= 0 /\ FitsFrom(pattern, text, starP, starS) => Fit(0, 0)
  BY GParts DEF Fit
<1>. QED  BY <1>1, <1>2, <1>3, <1>4, <1>5, <1>6, <1>7, GParts, GAssembled

\* The text is used up: the rest of the pattern fits nothing, unless it is
\* nothing.
LEMMA FinishStep == ASSUME GInv, Finish PROVE GInv'
<1>1. /\ verdict = "none" /\ sx = Len(text) /\ ~AtStar
      /\ verdict' = (IF px = Len(pattern) THEN "yes" ELSE "no") /\ UNCHANGED <<pattern, text, px, sx, starP, starS>>
  BY DEF Finish
<1>2. /\ pattern \in Seq(Symbols) /\ text \in Seq(Symbols) /\ Len(pattern) \in Nat /\ Len(text) \in Nat
      /\ px \in 0..Len(pattern) /\ sx \in 0..Len(text) /\ ~(sx < Len(text))
  BY <1>1, GParts
<1>3. GTypeOK'
  BY <1>1 DEF GInv, GTypeOK
<1>4. px = Len(pattern) => Fit(0, 0)
  BY <1>1, <1>2, EndFits, GParts DEF Fit
<1>5. ASSUME px # Len(pattern) PROVE ~Fit(px, sx)
  <2>1. px < Len(pattern) /\ pattern[px + 1] # "*"
    BY <1>1, <1>2, <1>5 DEF AtStar
  <2>. QED  BY <1>2, <2>1, CharTakes DEF Fit
<1>6. NoStar /\ Fit(0, 0) => Fit(px, sx)
  BY <1>1, <1>2, GParts DEF Complete
<1>7. starP >= 0 /\ FitsFrom(pattern, text, starP, starS) => Fit(0, 0)
  BY GParts DEF Fit
<1>8. FitsFrom(pattern, text, px, sx) => Fit(0, 0)
  BY GParts DEF Fit
<1>9. (verdict' = "yes" => px = Len(pattern)) /\ (verdict' = "no" => px # Len(pattern)) /\ verdict' # "none"
  BY <1>1
<1>. QED  BY <1>1, <1>2, <1>3, <1>4, <1>5, <1>6, <1>7, <1>8, <1>9, GAssembled

\* The invariant holds throughout.
LEMMA GInvHolds == GSpec => []GInv
<1>1. ASSUME GInv, [GNext]_gvars PROVE GInv'
  <2>1. CASE UNCHANGED gvars
    <3>1. UNCHANGED <<pattern, text, px, sx, starP, starS, verdict>>
      BY <2>1 DEF gvars
    <3>2. GTypeOK'
      BY <1>1, <3>1 DEF GInv, GTypeOK
    <3>. QED  BY <1>1, <3>1, <3>2, GAssembled DEF GInv, Sound, Complete, Fit
  <2>. QED  BY <1>1, <2>1, AdvanceStep, MarkStarStep, BacktrackStep, FailStep, SkipStarStep, FinishStep DEF GNext
<1>. QED  BY <1>1, InitGInv, PTL DEF GSpec

\* The loops of Match, which remember one star only, never say that a pattern
\* fits a text it does not fit, and say so of every text without a star that
\* it fits, for any pattern and text over any characters.
THEOREM MatchIsExact == GSpec => []MatchExact
<1>1. GInv => MatchExact
  BY DEF GInv, Sound, Complete, NoStar, Fit, MatchExact
<1>. QED  BY <1>1, GInvHolds, PTL

-----------------------------------------------------------------------------
(* ObjectRead: where the parts begin *)

\* Sums can be formed part by part.
LEMMA SumsExist ==
  ASSUME NEW s \in Seq(Nat)
  PROVE  \E g \in [1..Len(s) + 1 -> Nat] : g[1] = 0 /\ \A i \in 1..Len(s) : g[i + 1] = g[i] + s[i]
<1> DEFINE Has(n) == \E g \in [1..n + 1 -> Nat] : g[1] = 0 /\ \A i \in 1..n : g[i + 1] = g[i] + s[i]
           Wrong == {n \in Nat : n <= Len(s) /\ ~Has(n)}
<1>1. Len(s) \in Nat /\ \A i \in 1..Len(s) : s[i] \in Nat
  OBVIOUS
<1>2. SUFFICES ASSUME Wrong # {} PROVE FALSE
  <2>1. Has(Len(s)) => \E g \in [1..Len(s) + 1 -> Nat] : g[1] = 0 /\ \A i \in 1..Len(s) : g[i + 1] = g[i] + s[i]
    OBVIOUS
  <2>2. Wrong = {} => Has(Len(s))
    <3>. HIDE DEF Has
    <3>. QED  BY <1>1
  <2>. QED  BY <2>1, <2>2
<1>3. PICK m \in Wrong : \A k \in Wrong : m <= k
  BY <1>2, LeastElement
<1>4. Has(0)
  <2> DEFINE g == [i \in 1..0 + 1 |-> 0]
  <2>1. g \in [1..0 + 1 -> Nat] /\ g[1] = 0
    OBVIOUS
  <2>2. \A i \in 1..0 : FALSE
    OBVIOUS
  <2>. HIDE DEF g
  <2>. QED  BY <2>1, <2>2
<1>5. m # 0 /\ m \in Nat /\ m <= Len(s) /\ ~Has(m)
  BY <1>3, <1>4
<1>6. m - 1 \in Nat /\ m - 1 <= Len(s) /\ m - 1 \notin Wrong /\ (m - 1) + 1 = m
  <2>. HIDE DEF Has
  <2>. QED  BY <1>1, <1>3, <1>5
<1>7. Has(m - 1)
  BY <1>6
<1>8. PICK g \in [1..m -> Nat] : g[1] = 0 /\ \A i \in 1..m - 1 : g[i + 1] = g[i] + s[i]
  BY <1>6, <1>7
<1> DEFINE h == [i \in 1..m + 1 |-> IF i = m + 1 THEN g[m] + s[m] ELSE g[i]]
<1>9. m \in 1..m /\ m \in 1..Len(s)
  BY <1>1, <1>5
<1>10. g[m] + s[m] \in Nat
  BY <1>1, <1>8, <1>9
<1>11. \A i \in 1..m + 1 : i = m + 1 \/ i \in 1..m
  BY <1>5
<1>12. h \in [1..m + 1 -> Nat]
  BY <1>8, <1>10, <1>11
<1>13. h[m + 1] = g[m] + s[m] /\ \A i \in 1..m : h[i] = g[i]
  BY <1>5
<1>14. h[1] = 0
  BY <1>5, <1>8, <1>13
<1>15. ASSUME NEW i \in 1..m PROVE h[i + 1] = h[i] + s[i]
  <2>1. CASE i = m
    BY <1>9, <1>13, <2>1
  <2>2. CASE i # m
    <3>1. i \in 1..m - 1 /\ i + 1 \in 1..m
      BY <1>5, <2>2
    <3>. QED  BY <1>8, <1>13, <3>1
  <2>. QED  BY <2>1, <2>2
<1>. HIDE DEF h
<1>16. Has(m)
  BY <1>12, <1>14, <1>15
<1>. QED  BY <1>5, <1>16

\* Base adds up the parts.
LEMMA BaseIs ==
  ASSUME parts \in Seq(Nat)
  PROVE  /\ Base[1] = 0 /\ \A i \in 1..Len(parts) : Base[i + 1] = Base[i] + parts[i]
<1> DEFINE Def(g) == g = [i \in 1..Len(parts) + 1 |-> IF i = 1 THEN 0 ELSE g[i - 1] + parts[i - 1]]
<1>1. PICK g \in [1..Len(parts) + 1 -> Nat] : g[1] = 0 /\ \A i \in 1..Len(parts) : g[i + 1] = g[i] + parts[i]
  BY SumsExist
<1>2. Def(g)
  <2>1. ASSUME NEW i \in 1..Len(parts) + 1, i # 1 PROVE g[i] = g[i - 1] + parts[i - 1]
    <3>1. i - 1 \in 1..Len(parts) /\ (i - 1) + 1 = i
      BY <2>1
    <3>. QED  BY <1>1, <3>1
  <2>. QED  BY <1>1, <2>1
<1>3. Base = CHOOSE f : Def(f)
  BY DEF Base
<1>4. Def(Base)
  <2>. HIDE DEF Def
  <2>. QED  BY <1>2, <1>3
<1>5. Len(parts) \in Nat
  OBVIOUS
<1>6. ASSUME NEW i \in 1..Len(parts) PROVE Base[i + 1] = Base[i] + parts[i]
  <2>1. i + 1 \in 1..Len(parts) + 1 /\ i + 1 # 1 /\ (i + 1) - 1 = i
    BY <1>5
  <2>. QED  BY <1>4, <2>1
<1>7. Base[1] = 0
  BY <1>4, <1>5
<1>. QED  BY <1>6, <1>7

\* The parts begin one after the other, and end with the object.
LEMMA BaseGrows ==
  ASSUME parts \in Seq(Nat)
  PROVE  /\ Len(parts) \in Nat /\ Size \in Nat /\ Base[1] = 0
         /\ \A i \in 1..Len(parts) : /\ parts[i] \in Nat /\ Base[i] \in Nat
                                     /\ Base[i + 1] = Base[i] + parts[i] /\ Base[i + 1] <= Size
<1> DEFINE N == Len(parts)
<1>1. N \in Nat /\ \A i \in 1..N : parts[i] \in Nat
  OBVIOUS
<1>2. Base[1] = 0 /\ \A i \in 1..N : Base[i + 1] = Base[i] + parts[i]
  BY BaseIs
<1>. HIDE DEF N
<1>3. \A i \in 1..N + 1 : Base[i] \in Nat
  <2> DEFINE Wrong == {i \in Nat : i \in 1..N + 1 /\ Base[i] \notin Nat}
  <2> SUFFICES ASSUME Wrong # {} PROVE FALSE
    BY <1>1
  <2>1. PICK m \in Wrong : \A k \in Wrong : m <= k
    BY LeastElement
  <2>2. m \in 1..N + 1 /\ Base[m] \notin Nat /\ m # 1
    BY <1>2, <2>1
  <2>3. m - 1 \in 1..N /\ m - 1 \in Nat /\ m - 1 \notin Wrong /\ (m - 1) + 1 = m
    BY <1>1, <2>1, <2>2
  <2>4. Base[m - 1] \in Nat
    BY <1>1, <2>3
  <2>5. Base[m] = Base[m - 1] + parts[m - 1]
    BY <1>2, <2>3
  <2>. QED  BY <1>1, <2>2, <2>3, <2>4, <2>5
<1>4. Size = Base[N + 1] /\ Size \in Nat
  BY <1>1, <1>3 DEF Size, N
<1>5. \A i \in 1..N + 1 : Base[i] <= Size
  <2> DEFINE Wrong == {i \in Nat : i <= N /\ ~(Base[N + 1 - i] <= Size)}
  <2>1. Wrong = {}
    <3> SUFFICES ASSUME Wrong # {} PROVE FALSE
      OBVIOUS
    <3>1. PICK m \in Wrong : \A k \in Wrong : m <= k
      BY LeastElement
    <3>2. m \in Nat /\ m <= N /\ ~(Base[N + 1 - m] <= Size)
      BY <3>1
    <3>3. m # 0
      <4>1. N + 1 - 0 = N + 1
        BY <1>1
      <4>. QED  BY <1>4, <3>2, <4>1
    <3>4. m - 1 \in Nat /\ m - 1 <= N /\ m - 1 \notin Wrong
      <4>1. m - 1 \in Nat /\ m - 1 <= N /\ ~(m <= m - 1)
        BY <1>1, <3>2, <3>3
      <4>. HIDE DEF Wrong
      <4>. QED  BY <3>1, <4>1
    <3>5. Base[N + 1 - (m - 1)] <= Size
      BY <3>4
    <3> DEFINE i == N + 1 - m
    <3>6. i \in 1..N /\ N + 1 - (m - 1) = i + 1
      BY <1>1, <3>2, <3>3
    <3>7. Base[i + 1] <= Size /\ ~(Base[i] <= Size)
      BY <3>2, <3>5, <3>6
    <3>. HIDE DEF i
    <3>8. Base[i + 1] = Base[i] + parts[i] /\ parts[i] \in Nat /\ Base[i] \in Nat
      BY <1>1, <1>2, <1>3, <3>6
    <3>. QED  BY <1>4, <3>7, <3>8
  <2> SUFFICES ASSUME NEW i \in 1..N + 1 PROVE Base[i] <= Size
    OBVIOUS
  <2>2. N + 1 - i \in Nat /\ N + 1 - i <= N /\ N + 1 - (N + 1 - i) = i
    BY <1>1
  <2>3. Base[N + 1 - (N + 1 - i)] <= Size
    BY <2>1, <2>2
  <2>. QED  BY <2>2, <2>3
<1>6. \A i \in 1..N : i \in 1..N + 1 /\ i + 1 \in 1..N + 1
  BY <1>1
<1>. QED  BY <1>1, <1>2, <1>3, <1>4, <1>5, <1>6 DEF N

-----------------------------------------------------------------------------
(* ObjectRead: what is asked for *)

\* What a client can ask for.
Requested ==
  {q \in [part: Int, start: Int, end: Int] :
     \/ q = WholeObject
     \/ q.part = 0 /\ q.start < 0 /\ q.end = Absent
     \/ q.part = 0 /\ q.start >= 0 /\ q.end >= Absent
     \/ q.part > 0}

From == Resolve(asked)[1]
Total == Resolve(asked)[2]

\* The bytes of a request are those from the start it resolves to, as many as
\* that says.
Meant(q) ==
  LET r == Resolve(q) IN
  \/ r[1] = Absent /\ Named(q) = {}
  \/ /\ r[1] \in Nat /\ r[2] \in Nat /\ r[1] + r[2] <= Size
     /\ Named(q) = r[1]..r[1] + r[2] - 1

\* GetObject and parseRange agree with what a range, a suffix or a part means.
LEMMA ResolveIs ==
  ASSUME parts \in Seq(Nat), NEW q \in Requested
  PROVE  Meant(q)
<1> DEFINE end == IF q.end < 0 \/ q.end >= Size THEN Size - 1 ELSE q.end
           r == Resolve(q)
<1>1. q.part \in Int /\ q.start \in Int /\ q.end \in Int
  BY DEF Requested
<1>2. /\ Len(parts) \in Nat /\ Size \in Nat
      /\ \A i \in 1..Len(parts) : /\ parts[i] \in Nat /\ Base[i] \in Nat
                                  /\ Base[i + 1] = Base[i] + parts[i] /\ Base[i + 1] <= Size
  BY BaseGrows
<1>3. WholeObject.part = -1 /\ WholeObject.start = 0 /\ WholeObject.end = -1
  BY DEF WholeObject, Request, Absent
<1>4. CASE q.part > 0
  <2>1. CASE q.part > Len(parts)
    <3>1. r = <<Absent, 0>>
      BY <1>4, <2>1 DEF Resolve
    <3>2. \A i : i \notin Named(q)
      BY <1>1, <1>2, <1>4, <2>1 DEF Named
    <3>. QED  BY <3>1, <3>2 DEF Meant, Absent
  <2>2. CASE q.part <= Len(parts)
    <3>1. q.part \in 1..Len(parts)
      BY <1>1, <1>2, <1>4, <2>2
    <3>2. r = <<Base[q.part], parts[q.part]>>
      BY <1>1, <1>2, <1>4, <2>2, SMTT(20) DEF Resolve
    <3> DEFINE b == Base[q.part]
               n == parts[q.part]
    <3>3. b \in Nat /\ n \in Nat /\ Base[q.part + 1] = b + n /\ b + n <= Size
      BY <1>2, <3>1
    <3>4. \A i : i \in Named(q) <=> i \in 0..Size - 1 /\ b <= i /\ i < b + n
      BY <1>4, <2>2, <3>3 DEF Named
    <3>5. r[1] = b /\ r[2] = n
      BY <3>2
    <3>. HIDE DEF b, n
    <3>6. \A i : i \in Named(q) <=> i \in b..b + n - 1
      BY <1>2, <3>3, <3>4, SMTT(20)
    <3>7. Named(q) = b..b + n - 1
      BY <3>6
    <3>. QED  BY <3>3, <3>5, <3>7 DEF Meant
  <2>. QED  BY <1>1, <1>2, <2>1, <2>2
<1>5. CASE q = WholeObject
  <2>1. ~(q.part > 0)
    BY <1>3, <1>5
  <2>2. r = <<0, Size>>
    BY <1>5, <2>1 DEF Resolve
  <2>3. \A i : i \in Named(q) <=> i \in 0..Size - 1
    BY <1>2, <1>3, <1>5, <2>1 DEF Named
  <2>4. Named(q) = 0..0 + Size - 1
    <3>1. 0 + Size - 1 = Size - 1
      BY <1>2
    <3>2. Named(q) = 0..Size - 1
      BY <2>3
    <3>. QED  BY <3>1, <3>2
  <2>. QED  BY <1>2, <2>2, <2>4 DEF Meant
<1>6. CASE q.part = 0 /\ q.start < 0
  <2>1. q # WholeObject
    BY <1>3, <1>6
  <2> DEFINE n == Least(-q.start, Size)
  <2>2. r = <<Size - n, n>>
    BY <1>6, <2>1 DEF Resolve
  <2>3. n \in Nat /\ n <= Size /\ (n = -q.start \/ (n = Size /\ Size <= -q.start))
    BY <1>1, <1>2, <1>6 DEF Least
  <2>4. \A i : i \in Named(q) <=> i \in 0..Size - 1 /\ i >= Size + q.start
    BY <1>6 DEF Named
  <2>. HIDE DEF n
  <2>5. \A i : i \in Named(q) <=> i \in (Size - n)..(Size - n) + n - 1
    BY <1>1, <1>2, <2>3, <2>4, SMTT(20)
  <2>6. Named(q) = (Size - n)..(Size - n) + n - 1
    BY <2>5
  <2>7. Size - n \in Nat /\ (Size - n) + n <= Size
    BY <1>2, <2>3
  <2>. QED  BY <2>2, <2>3, <2>6, <2>7 DEF Meant
<1>7. CASE q.part = 0 /\ q.start >= 0 /\ q.end >= Absent
  <2>1. q # WholeObject /\ ~(q.part > 0) /\ ~(q.start < 0)
    BY <1>1, <1>3, <1>7
  <2>2. r = IF q.start >= Size \/ q.start > end THEN <<Absent, 0>> ELSE <<q.start, end - q.start + 1>>
    BY <2>1 DEF Resolve
  <2>3. \A i : i \in Named(q) <=> i \in 0..Size - 1 /\ i >= q.start /\ (q.end < 0 \/ i <= q.end)
    BY <2>1 DEF Named
  <2>4. end \in Int /\ end <= Size - 1 /\ \A i \in 0..Size - 1 : (q.end < 0 \/ i <= q.end) <=> i <= end
    BY <1>1, <1>2, <1>7
  <2>. HIDE DEF end
  <2>5. \A i : i \in Named(q) <=> i \in 0..Size - 1 /\ i >= q.start /\ i <= end
    BY <2>3, <2>4
  <2>6. CASE q.start >= Size \/ q.start > end
    <3>1. \A i : i \notin Named(q)
      BY <1>1, <1>2, <2>4, <2>5, <2>6
    <3>. QED  BY <2>2, <2>6, <3>1 DEF Meant, Absent
  <2>7. CASE ~(q.start >= Size \/ q.start > end)
    <3> DEFINE n == end - q.start + 1
    <3>1. r[1] = q.start /\ r[2] = n
      BY <2>2, <2>7
    <3>2. n \in Nat /\ q.start \in Nat /\ q.start + n <= Size
      BY <1>1, <1>2, <1>7, <2>4, <2>7
    <3>3. \A i : i \in Named(q) <=> i \in q.start..q.start + n - 1
      BY <1>1, <1>2, <1>7, <2>4, <2>5, <2>7
    <3>4. Named(q) = q.start..q.start + n - 1
      BY <3>3
    <3>. QED  BY <3>1, <3>2, <3>4 DEF Meant
  <2>. QED  BY <2>6, <2>7
<1>. QED  BY <1>4, <1>5, <1>6, <1>7 DEF Requested

-----------------------------------------------------------------------------
(* ObjectRead: chunks *)

\* Quotients.
LEMMA Quotient ==
  ASSUME NEW a \in Nat, NEW c \in Nat \ {0}
  PROVE  /\ a \div c \in Nat /\ (a \div c) * c \in Nat
         /\ (a \div c) * c <= a /\ a < (a \div c) * c + c
<1>1. a = c * (a \div c) + (a % c) /\ a % c \in 0..c - 1 /\ a \div c \in Int
  OBVIOUS
<1>2. a \div c \in Nat
  OBVIOUS
<1>3. (a \div c) * c = c * (a \div c)
  BY <1>2
<1>. QED  BY <1>1, <1>2, <1>3

\* Products.
LEMMA TimesNext ==
  ASSUME NEW a \in Nat, NEW c \in Nat
  PROVE  a * c \in Nat /\ (a + 1) * c = a * c + c
  OBVIOUS

\* A product grows with its factors,
LEMMA TimesGrows ==
  ASSUME NEW a \in Nat, NEW b \in Nat, NEW c \in Nat, a <= b
  PROVE  a * c <= b * c
<1>1. PICK d \in Nat : b = a + d
  <2>1. b - a \in Nat /\ b = a + (b - a)
    OBVIOUS
  <2>. QED  BY <2>1
<1>2. b * c = a * c + d * c /\ d * c \in Nat /\ a * c \in Nat
  BY <1>1
<1>. QED  BY <1>2

\* and so do the factors.
LEMMA TimesLess ==
  ASSUME NEW a \in Nat, NEW b \in Nat, NEW c \in Nat \ {0}, a * c < b * c + c
  PROVE  a <= b
<1> SUFFICES ASSUME b + 1 <= a PROVE FALSE
  OBVIOUS
<1>1. (b + 1) * c <= a * c
  BY TimesGrows
<1>2. (b + 1) * c = b * c + c
  BY TimesNext
<1>3. a * c \in Nat /\ b * c \in Nat
  BY TimesNext
<1>. QED  BY <1>1, <1>2, <1>3

\* The chunk at idx of a part of size s, from which position from + skip is
\* wanted and the stretch to be read ends at e: its file's chunk is read as a
\* whole, whatever the stretch.
LEMMA ChunkReadWhole ==
  ASSUME NEW s \in Nat, NEW idx \in Nat, NEW skip \in Nat, NEW e \in Nat,
         idx * ChunkSize + skip < e, e <= s, skip < ChunkSize
  PROVE  LET chunk == ChunkSize + ChunkOverhead
             from == idx * ChunkSize
             size == Least(ChunkSize, s - from)
             end == Least(((e - 1) \div ChunkSize + 1) * chunk, EncryptedSize(s))
         IN /\ size \in Nat /\ skip < size
            /\ end - idx * chunk \in Nat /\ end <= EncryptedSize(s) /\ EncryptedSize(s) \in Nat
            /\ Least(chunk, end - idx * chunk) = size + ChunkOverhead
<1> DEFINE c == ChunkSize
           v == ChunkOverhead
           chunk == c + v
           from == idx * c
           last == (e - 1) \div c
           k == (s + c - 1) \div c
           size == Least(c, s - from)
           end == Least((last + 1) * chunk, EncryptedSize(s))
<1>1. c \in Nat \ {0} /\ v \in Nat \ {0} /\ chunk \in Nat
  BY ReadAssumption
<1>. HIDE DEF c, v
<1>2. from \in Nat /\ from + skip < e
  BY <1>1, TimesNext DEF c
<1>3. e - 1 \in Nat /\ s + c - 1 \in Nat
  BY <1>1, <1>2
<1>4. last \in Nat /\ e - 1 < last * c + c /\ last * c \in Nat
  BY <1>1, <1>3, Quotient
<1>5. k \in Nat /\ k * c \in Nat /\ k * c <= s + c - 1 /\ s + c - 1 < k * c + c
  BY <1>1, <1>3, Quotient
<1>6. EncryptedSize(s) = s + k * v
  BY DEF EncryptedSize, c, v
<1>. HIDE DEF last, k
<1>7. idx <= last
  <2>1. idx * c < last * c + c
    BY <1>1, <1>2, <1>4
  <2>. QED  BY <1>1, <1>4, <2>1, TimesLess
<1>8. (last + 1) * chunk >= idx * chunk + chunk /\ (last + 1) * chunk \in Nat /\ idx * chunk \in Nat
  <2>. HIDE DEF chunk
  <2>1. (idx + 1) * chunk <= (last + 1) * chunk
    BY <1>1, <1>4, <1>7, TimesGrows
  <2>2. (idx + 1) * chunk = idx * chunk + chunk /\ idx * chunk \in Nat
    BY <1>1, TimesNext
  <2>3. (last + 1) * chunk \in Nat
    BY <1>1, <1>4, TimesNext
  <2>. QED  BY <2>1, <2>2, <2>3
<1>9. idx * chunk = from + idx * v /\ idx * v \in Nat /\ k * v \in Nat
  <2>1. idx * chunk = idx * c + idx * v
    BY <1>1
  <2>. QED  BY <1>1, <1>5, <2>1, TimesNext
<1>10. skip < c /\ from + skip < s
  BY <1>2 DEF c
<1>11. size \in Nat /\ skip < size
  BY <1>1, <1>2, <1>10 DEF Least
<1>12. CASE s - from >= c
  <2>1. idx + 1 <= k
    <3>1. (idx + 1) * c = from + c
      BY <1>1, TimesNext
    <3>2. (idx + 1) * c < k * c + c
      BY <1>1, <1>2, <1>5, <1>12, <3>1
    <3>. QED  BY <1>1, <1>5, <3>2, TimesLess
  <2>2. (idx + 1) * v <= k * v /\ (idx + 1) * v = idx * v + v
    BY <1>1, <1>5, <2>1, TimesGrows, TimesNext
  <2> DEFINE es == s + k * v
  <2>3. es >= idx * chunk + chunk /\ es \in Nat
    <3>. HIDE DEF from
    <3>. QED  BY <1>1, <1>2, <1>5, <1>9, <1>12, <2>2
  <2>4. size = c
    BY <1>1, <1>2, <1>12 DEF Least
  <2> DEFINE A == (last + 1) * chunk
             B == idx * chunk
  <2>5. A >= B + chunk /\ es >= B + chunk /\ A \in Nat /\ B \in Nat /\ es \in Nat /\ end = Least(A, es)
    BY <1>6, <1>8, <2>3
  <2>. HIDE DEF A, B, es, chunk, end
  <2>6. end - B \in Nat /\ end <= es /\ Least(chunk, end - B) = chunk
    BY <1>1, <2>5 DEF Least
  <2>. QED  BY <1>6, <1>11, <2>4, <2>5, <2>6 DEF c, v, A, B, es, chunk, end, last
<1>13. CASE ~(s - from >= c)
  <2>1. k = idx + 1
    <3>1. k <= idx + 1
      <4>1. k * c < (idx + 1) * c + c
        <5>1. (idx + 1) * c = from + c
          BY <1>1, TimesNext
        <5>. QED  BY <1>1, <1>2, <1>5, <1>13, <5>1
      <4>. QED  BY <1>1, <1>5, <4>1, TimesLess
    <3>2. idx + 1 <= k
      <4>1. (idx + 1) * c < k * c + c
        <5>1. (idx + 1) * c = from + c
          BY <1>1, TimesNext
        <5>. QED  BY <1>1, <1>2, <1>5, <1>10, <5>1
      <4>. QED  BY <1>1, <1>5, <4>1, TimesLess
    <3>. QED  BY <1>5, <3>1, <3>2
  <2>2. k * v = idx * v + v
    BY <1>1, <2>1, TimesNext
  <2> DEFINE es == s + k * v
             A == (last + 1) * chunk
             B == idx * chunk
  <2>3. es = B + (s - from) + v /\ es \in Nat
    <3>. HIDE DEF from
    <3>. QED  BY <1>1, <1>2, <1>9, <2>2
  <2>4. size = s - from /\ size < c
    BY <1>1, <1>2, <1>13 DEF Least
  <2>5. A >= B + chunk /\ A \in Nat /\ B \in Nat /\ es = B + size + v /\ size + v < chunk /\ end = Least(A, es)
    <3>1. A >= B + chunk /\ A \in Nat /\ B \in Nat /\ end = Least(A, es)
      BY <1>6, <1>8
    <3>2. es = B + size + v
      <4>. HIDE DEF es, A, B, from, size
      <4>. QED  BY <2>3, <2>4
    <3>3. size + v < chunk
      <4>. HIDE DEF size
      <4>. QED  BY <1>1, <1>11, <2>4
    <3>. QED  BY <3>1, <3>2, <3>3
  <2>. HIDE DEF A, B, es, chunk, end, size
  <2>6. end - B \in Nat /\ end <= es /\ Least(chunk, end - B) = size + v
    BY <1>1, <1>11, <2>3, <2>5 DEF Least
  <2>. QED  BY <1>6, <1>11, <2>3, <2>4, <2>5, <2>6 DEF c, v, A, B, es, chunk, end, size, last
<1>. QED  BY <1>12, <1>13

-----------------------------------------------------------------------------
(* ObjectRead: the invariant *)

PartReader == [part: Nat, at: Int, left: Int, idx: Nat, skip: Nat, remain: Nat, plain: Seq(Nat)]
Reader == [pc: {"idle", "refused", "reading", "eof", "failed"}, export: BOOLEAN,
           offset: Nat, remain: Nat, cur: PartReader]

\* Bytes in order, beginning at one.
Run(s, from) == \A i \in 1..Len(s) : s[i] = from + i - 1

\* Where the stretch to be read of an encrypted part ends in its file: with a
\* chunk.
FileEnd(p, e) ==
  Least(((e - 1) \div ChunkSize + 1) * (ChunkSize + ChunkOverhead), EncryptedSize(parts[p]))

\* A part that is open, at the object's byte off: what was decrypted begins
\* there, and the next chunk to decrypt follows it.
OnPart(c, off) ==
  /\ c.part \in 1..Len(parts)
  /\ ~encrypted => c.plain = <<>> /\ Base[c.part] + c.at = off
  /\ encrypted =>
       LET o == off - Base[c.part] IN
       /\ o >= 0 /\ o + c.remain <= parts[c.part]
       /\ Len(c.plain) <= c.remain /\ Run(c.plain, off)
       /\ Len(c.plain) < c.remain =>
            /\ c.skip < ChunkSize /\ c.idx * ChunkSize + c.skip = o + Len(c.plain)
            /\ c.at = c.idx * (ChunkSize + ChunkOverhead)
            /\ c.at + c.left = FileEnd(c.part, o + c.remain)

\* Some file is not as it was written.
Damaged == \E p \in 1..Len(parts) : p \notin named \/ length[p] # FileSize(p)

ReadTypeOK ==
  /\ parts \in Seq(Nat) /\ encrypted \in BOOLEAN
  /\ length \in [1..Len(parts) -> Nat]
  /\ asked \in Requested /\ rd \in Reader /\ given \in Seq(Nat)

\* What was returned, and where the reader stands.
GivenOK ==
  /\ Run(given, From)
  /\ given # <<>> => From # Absent /\ Len(given) <= Total
  /\ rd.pc \in {"reading", "eof", "failed"} =>
       From # Absent /\ rd.offset = From + Len(given) /\ rd.remain + Len(given) = Total

EndsOK ==
  /\ rd.pc = "eof" => rd.remain = 0
  /\ rd.pc = "failed" => Damaged
  /\ rd.pc = "refused" => From = Absent
  /\ rd.export => asked = WholeObject
  /\ dst # NoBytes => dst = Positions(0, Size)

RInv ==
  /\ ReadTypeOK /\ GivenOK /\ EndsOK
  /\ rd.pc = "reading" /\ rd.cur # NoPart => OnPart(rd.cur, rd.offset)

\* The object and the request stay, and all that is derived from them.
LEMMA SameObject ==
  ASSUME UNCHANGED parts
  PROVE  /\ Base' = Base /\ Size' = Size
         /\ \A s, f : Run(s, f)' <=> Run(s, f)
         /\ \A p, e : FileEnd(p, e)' = FileEnd(p, e)
         /\ UNCHANGED asked => From' = From /\ Total' = Total
         /\ UNCHANGED encrypted => \A p : FileSize(p)' = FileSize(p)
<1>1. Base' = Base
  BY DEF Base
<1>2. Size' = Size
  BY <1>1 DEF Size
<1>3. ASSUME UNCHANGED asked PROVE Resolve(asked)' = Resolve(asked)
  BY <1>1, <1>2, <1>3 DEF Resolve, WholeObject, Request, Absent, Least
<1>4. UNCHANGED asked => From' = From /\ Total' = Total
  BY <1>3 DEF From, Total
<1>5. \A p, e : FileEnd(p, e)' = FileEnd(p, e)
  BY DEF FileEnd, Least, EncryptedSize
<1>6. UNCHANGED encrypted => \A p : FileSize(p)' = FileSize(p)
  BY DEF FileSize, EncryptedSize
<1>7. \A s, f : Run(s, f)' <=> Run(s, f)
  BY DEF Run
<1>. QED  BY <1>1, <1>2, <1>4, <1>5, <1>6, <1>7

\* RInv', when a step leaves the object and the request alone.
LEMMA RAssembled ==
  ASSUME RInv, UNCHANGED <<parts, encrypted, length, asked>>, named' \subseteq named,
         rd' \in Reader, given' \in Seq(Nat),
         Run(given', From), given' # <<>> => From # Absent /\ Len(given') <= Total,
         rd'.pc \in {"reading", "eof", "failed"} =>
           From # Absent /\ rd'.offset = From + Len(given') /\ rd'.remain + Len(given') = Total,
         rd'.pc = "eof" => rd'.remain = 0,
         rd'.pc = "failed" => Damaged,
         rd'.pc = "refused" => From = Absent,
         rd'.export => asked = WholeObject,
         dst' # NoBytes => dst' = Positions(0, Size),
         rd'.pc = "reading" /\ rd'.cur # NoPart => OnPart(rd'.cur, rd'.offset)
  PROVE  RInv'
<1>1. Size' = Size /\ From' = From /\ Total' = Total
  BY SameObject
<1>2. Damaged => Damaged'
  BY SameObject DEF Damaged
<1>3. ReadTypeOK'
  BY DEF RInv, ReadTypeOK, Requested, Reader, PartReader, WholeObject, Request, Absent
<1>4. Run(given, From)' <=> Run(given', From)
  BY <1>1 DEF Run
<1>5. GivenOK'
  BY <1>1, <1>4 DEF GivenOK, Absent
<1>6. Positions(0, Size)' = Positions(0, Size) /\ NoBytes' = NoBytes
  BY <1>1 DEF Positions, NoBytes, Absent
<1>7. EndsOK'
  BY <1>1, <1>2, <1>6 DEF EndsOK, WholeObject, Request, Absent
<1>8. OnPart(rd.cur, rd.offset)' <=> OnPart(rd'.cur, rd'.offset)
  BY SameObject DEF OnPart, Run
<1>9. NoPart' = NoPart
  BY DEF NoPart, PartAt
<1>. QED  BY <1>3, <1>5, <1>7, <1>8, <1>9 DEF RInv

-----------------------------------------------------------------------------
(* ObjectRead: the steps *)

\* What the invariant says of a reader and the object.
LEMMA RParts ==
  ASSUME RInv
  PROVE  /\ parts \in Seq(Nat) /\ encrypted \in BOOLEAN /\ length \in [1..Len(parts) -> Nat]
         /\ asked \in Requested /\ rd \in Reader /\ given \in Seq(Nat) /\ Len(given) \in Nat
         /\ rd.offset \in Nat /\ rd.remain \in Nat /\ rd.cur \in PartReader
         /\ Len(parts) \in Nat /\ Size \in Nat
         /\ \A i \in 1..Len(parts) : /\ parts[i] \in Nat /\ Base[i] \in Nat
                                     /\ Base[i + 1] = Base[i] + parts[i] /\ Base[i + 1] <= Size
         /\ Meant(asked) /\ (From # Absent => From \in Nat /\ Total \in Nat)
<1>1. /\ parts \in Seq(Nat) /\ encrypted \in BOOLEAN /\ length \in [1..Len(parts) -> Nat]
      /\ asked \in Requested /\ rd \in Reader /\ given \in Seq(Nat)
  BY DEF RInv, ReadTypeOK
<1>2. Len(given) \in Nat
  BY <1>1
<1>3. rd.offset \in Nat /\ rd.remain \in Nat /\ rd.cur \in PartReader
  BY <1>1 DEF Reader
<1>4. Meant(asked)
  BY <1>1, ResolveIs
<1>5. From # Absent => From \in Nat /\ Total \in Nat
  BY <1>4 DEF Meant, From, Total
<1>. QED  BY <1>1, <1>2, <1>3, <1>4, <1>5, BaseGrows

\* A reader that is not there.
LEMMA NoReaderIs ==
  /\ NoReader \in Reader /\ NoReader.pc = "idle" /\ NoReader.export = FALSE /\ NoReader.cur = NoPart
  /\ NoPart \in PartReader /\ NoPart.part = 0 /\ NoPart.plain = <<>> /\ NoPart.remain = 0
  BY DEF NoReader, NoPart, PartAt, Reader, PartReader

\* Nothing was returned yet.
LEMMA NothingGiven == \A from : Run(<<>>, from) /\ <<>> \in Seq(Nat) /\ Len(<<>>) = 0
  BY DEF Run

\* Files are there in full, but for one perhaps.
LEMMA InitRInv == ASSUME OInit PROVE RInv
<1>1. parts \in Seq(Nat) /\ encrypted \in BOOLEAN
  BY ReadAssumption DEF OInit
<1>2. WholeObject \in Requested
  BY DEF Requested, WholeObject, Request, Absent
<1>3. asked \in Requested /\ rd = NoReader /\ given = <<>> /\ dst = NoBytes
  BY <1>2 DEF OInit
<1>4. length \in [1..Len(parts) -> Nat]
  <2>1. PICK p \in 0..Len(parts), n \in 0..MaxOffset :
          length = [i \in 1..Len(parts) |-> IF i = p THEN Least(n, FileSize(i)) ELSE FileSize(i)]
    BY DEF OInit
  <2>2. ASSUME NEW i \in 1..Len(parts) PROVE FileSize(i) \in Nat
    <3>1. parts[i] \in Nat
      BY <1>1
    <3> DEFINE s == parts[i]
               k == (s + ChunkSize - 1) \div ChunkSize
    <3>2. s + ChunkSize - 1 \in Nat /\ ChunkSize \in Nat \ {0} /\ ChunkOverhead \in Nat
      BY <3>1, ReadAssumption
    <3>3. k \in Nat
      BY <3>2, Quotient
    <3>. HIDE DEF k
    <3>4. s + k * ChunkOverhead \in Nat
      BY <3>1, <3>2, <3>3, TimesNext
    <3>. QED  BY <3>1, <3>4 DEF FileSize, EncryptedSize, k
  <2>3. n \in Nat
    BY <2>1
  <2>. QED  BY <2>1, <2>2, <2>3 DEF Least
<1>5. ReadTypeOK
  BY <1>1, <1>3, <1>4, NoReaderIs, NothingGiven DEF ReadTypeOK
<1>6. GivenOK /\ EndsOK
  BY <1>3, NoReaderIs, NothingGiven DEF GivenOK, EndsOK
<1>. QED  BY <1>3, <1>5, <1>6, NoReaderIs DEF RInv

\* GetObject begins with nothing given.
LEMMA OpenedStep ==
  ASSUME RInv, NEW q \in Requested, NEW export \in BOOLEAN, export => q = WholeObject,
         Opened(q, export), StoreUnchanged, UNCHANGED dst
  PROVE  RInv'
<1>1. UNCHANGED <<parts, encrypted, named, length, dst>> /\ asked' = q /\ given' = <<>>
  BY DEF Opened, StoreUnchanged
<1>2. parts \in Seq(Nat) /\ encrypted \in BOOLEAN /\ length \in [1..Len(parts) -> Nat]
  BY RParts
<1>3. Base' = Base /\ Size' = Size
  BY <1>1, SameObject
<1> DEFINE r == Resolve(q)
<1>4. From' = r[1] /\ Total' = r[2]
  BY <1>1, <1>3 DEF From, Total, Resolve, WholeObject, Request, Absent, Least
<1>5. asked' \in Requested'
  BY <1>1 DEF Requested, WholeObject, Request, Absent
<1>6. Meant(q)
  BY <1>2, ResolveIs
<1>7. r[1] # Absent => r[1] \in Nat /\ r[2] \in Nat
  BY <1>6 DEF Meant, Absent
<1>8. rd' = IF r[1] = Absent THEN [NoReader EXCEPT !.pc = "refused"]
            ELSE [NoReader EXCEPT !.pc = "reading", !.export = export, !.offset = r[1], !.remain = r[2]]
  BY DEF Opened
<1>. HIDE DEF r
<1>9. /\ rd' \in Reader /\ rd'.cur = NoPart
      /\ r[1] = Absent => rd'.pc = "refused" /\ rd'.export = FALSE
      /\ r[1] # Absent => rd'.pc = "reading" /\ rd'.export = export /\ rd'.offset = r[1] /\ rd'.remain = r[2]
  BY <1>7, <1>8, NoReaderIs DEF NoReader, Reader
<1>10. ReadTypeOK'
  BY <1>1, <1>2, <1>5, <1>9, NothingGiven DEF ReadTypeOK, Reader, PartReader
<1>11. GivenOK'
  <2>1. Run(given, From)'
    BY <1>1 DEF Run
  <2>2. r[1] # Absent => rd'.offset = r[1] + Len(given') /\ rd'.remain + Len(given') = r[2]
    BY <1>1, <1>7, <1>9, NothingGiven
  <2>. QED  BY <1>1, <1>4, <1>9, <2>1, <2>2 DEF GivenOK, Absent
<1>12. EndsOK'
  <2>1. dst' # NoBytes => dst' = Positions(0, Size')
    BY <1>1, <1>3 DEF RInv, EndsOK
  <2>. QED  BY <1>1, <1>4, <1>9, <2>1 DEF EndsOK, NoBytes, Absent, Positions, WholeObject, Request
<1>. QED  BY <1>9, <1>10, <1>11, <1>12 DEF RInv, NoPart, PartAt

\* What a range header can ask for.
LEMMA RangesRequested ==
  /\ \A a, b \in Absent..MaxOffset : ParseRange(a, b) \in Requested
  /\ \A p \in Nat \ {0} : Request(p, 0, Absent) \in Requested
  /\ WholeObject \in Requested
<1>1. MaxOffset \in Nat /\ Absent = -1
  BY ReadAssumption DEF Absent
<1>2. WholeObject \in Requested
  BY DEF Requested, WholeObject, Request, Absent
<1>3. \A p \in Nat \ {0} : Request(p, 0, Absent) \in Requested
  BY DEF Requested, Request, Absent
<1>4. ASSUME NEW a \in Absent..MaxOffset, NEW b \in Absent..MaxOffset PROVE ParseRange(a, b) \in Requested
  <2>1. a \in Int /\ b \in Int /\ a >= -1 /\ b >= -1
    BY <1>1
  <2>2. b > 0 => Request(0, -b, Absent) \in Requested
    BY <2>1 DEF Requested, Request, Absent
  <2>3. a # -1 => Request(0, a, b) \in Requested
    BY <2>1 DEF Requested, Request, Absent
  <2>. QED  BY <1>1, <1>2, <2>1, <2>2, <2>3 DEF ParseRange
<1>. QED  BY <1>2, <1>3, <1>4

\* A reader that only moves on within the object, or stops.
LEMMA QuietStep ==
  ASSUME RInv, StoreUnchanged, UNCHANGED <<asked, given, dst>>, rd.pc = "reading",
         rd' \in Reader, rd'.export = rd.export, rd'.offset = rd.offset, rd'.remain = rd.remain,
         rd'.pc \in {"reading", "eof", "failed"},
         rd'.pc = "eof" => rd.remain = 0, rd'.pc = "failed" => Damaged,
         rd'.pc = "reading" /\ rd'.cur # NoPart => OnPart(rd'.cur, rd'.offset)
  PROVE  RInv'
<1>1. UNCHANGED <<parts, encrypted, length, asked, named, given, dst>>
  BY DEF StoreUnchanged
<1>2. GivenOK /\ EndsOK /\ given \in Seq(Nat)
  BY DEF RInv, ReadTypeOK
<1>. QED  BY <1>1, <1>2, RAssembled DEF GivenOK, EndsOK

\* Bytes are returned.
LEMMA ReturnStep ==
  ASSUME RInv, rd.pc = "reading", NEW bytes \in Seq(Nat), Run(bytes, rd.offset), Len(bytes) <= rd.remain,
         NEW c \in PartReader, OnPart(c, rd.offset + Len(bytes)), Return(bytes, c)
  PROVE  RInv'
<1>1. /\ rd' = [rd EXCEPT !.offset = rd.offset + Len(bytes), !.remain = rd.remain - Len(bytes), !.cur = c]
      /\ given' = given \o bytes /\ UNCHANGED <<parts, encrypted, length, asked, named, dst>>
  BY DEF Return, StoreUnchanged
<1>2. rd \in Reader /\ rd.offset \in Nat /\ rd.remain \in Nat /\ Len(bytes) \in Nat /\ given \in Seq(Nat)
      /\ Len(given) \in Nat
  BY RParts
<1>3. /\ rd' \in Reader /\ rd'.pc = "reading" /\ rd'.export = rd.export /\ rd'.cur = c
      /\ rd'.offset = rd.offset + Len(bytes) /\ rd'.remain = rd.remain - Len(bytes)
  <2> DEFINE a == rd.offset + Len(bytes)
             m == rd.remain - Len(bytes)
  <2>1. a \in Nat /\ m \in Nat
    BY <1>2
  <2>2. rd' = [rd EXCEPT !.offset = a, !.remain = m, !.cur = c]
    BY <1>1
  <2>. HIDE DEF a, m
  <2>3. /\ rd' \in Reader /\ rd'.pc = rd.pc /\ rd'.export = rd.export /\ rd'.cur = c
        /\ rd'.offset = a /\ rd'.remain = m
    BY <1>2, <2>1, <2>2 DEF Reader
  <2>. QED  BY <2>3 DEF a, m
<1>4. /\ Run(given, From) /\ From # Absent /\ rd.offset = From + Len(given) /\ rd.remain + Len(given) = Total
      /\ (rd.export => asked = WholeObject) /\ (dst # NoBytes => dst = Positions(0, Size))
  BY DEF RInv, GivenOK, EndsOK
<1>5. From \in Nat /\ Total \in Nat
  BY <1>4, RParts
<1>6. given' \in Seq(Nat) /\ Len(given') = Len(given) + Len(bytes)
  BY <1>1, <1>2
<1>7. Run(given', From)
  <2> SUFFICES ASSUME NEW i \in 1..Len(given') PROVE given'[i] = From + i - 1
    BY DEF Run
  <2>1. CASE i <= Len(given)
    <3>1. given'[i] = given[i] /\ i \in 1..Len(given)
      BY <1>1, <1>2, <1>6, <2>1
    <3>. QED  BY <1>4, <3>1 DEF Run
  <2>2. CASE ~(i <= Len(given))
    <3> DEFINE j == i - Len(given)
    <3>1. given'[i] = bytes[j] /\ j \in 1..Len(bytes)
      BY <1>1, <1>2, <1>6, <2>2
    <3>2. bytes[j] = rd.offset + j - 1
      BY <3>1 DEF Run
    <3>. QED  BY <1>2, <1>4, <1>5, <3>1, <3>2
  <2>. QED  BY <2>1, <2>2
<1>8. Len(given') <= Total /\ rd'.offset = From + Len(given') /\ rd'.remain + Len(given') = Total
  BY <1>2, <1>3, <1>4, <1>5, <1>6
<1>. QED  BY <1>1, <1>3, <1>4, <1>6, <1>7, <1>8, RAssembled

\* Positions are a run.
LEMMA PositionsRun ==
  ASSUME NEW from \in Nat, NEW n \in Nat
  PROVE  Positions(from, n) \in Seq(Nat) /\ Len(Positions(from, n)) = n /\ Run(Positions(from, n), from)
<1>1. \A i \in 1..n : from + i - 1 \in Nat
  OBVIOUS
<1>2. Positions(from, n) \in [1..n -> Nat] /\ \A i \in 1..n : Positions(from, n)[i] = from + i - 1
  BY <1>1 DEF Positions
<1>. HIDE DEF Positions
<1>3. Positions(from, n) \in Seq(Nat) /\ Len(Positions(from, n)) = n
  BY <1>2
<1>. QED  BY <1>2, <1>3 DEF Run

\* Read, of a plain file.
LEMMA ReadPlainStep == ASSUME RInv, NEW n, ReadPlain(n) PROVE RInv'
<1> DEFINE x == rd.cur
           new == [x EXCEPT !.at = x.at + n, !.left = x.left - n]
           b == Positions(Base[x.part] + x.at, n)
<1>1. /\ rd.pc = "reading" /\ rd.cur # NoPart /\ ~encrypted
      /\ n \in 1..Least(Least(BufSize, rd.remain), Available)
      /\ Return(Positions(Base[x.part] + x.at, n), [x EXCEPT !.at = @ + n, !.left = @ - n])
  BY DEF ReadPlain, Stands
<1>2. x \in PartReader /\ rd.offset \in Nat /\ rd.remain \in Nat
  BY RParts
<1>3. x.part \in 1..Len(parts) /\ x.plain = <<>> /\ Base[x.part] + x.at = rd.offset
  BY <1>1 DEF RInv, OnPart
<1>4. Base[x.part] \in Nat
  BY <1>3, RParts
<1>5. n \in Nat /\ n <= rd.remain
  <2> DEFINE m == Least(Least(BufSize, rd.remain), Available)
  <2>1. Available \in Int
    <3>1. length[x.part] \in Int /\ x.at \in Int /\ x.left \in Int
      BY <1>2, <1>3, RParts DEF PartReader
    <3>. QED  BY <3>1 DEF Available, Least
  <2>2. BufSize \in Nat
    BY ReadAssumption
  <2>3. m \in Int /\ m <= rd.remain
    BY <1>2, <2>1, <2>2 DEF Least
  <2>. HIDE DEF m
  <2>. QED  BY <1>1, <1>2, <2>3 DEF m
<1>6. b \in Seq(Nat) /\ Len(b) = n /\ Run(b, rd.offset)
  <2>1. b = Positions(rd.offset, n)
    BY <1>3
  <2>. HIDE DEF b
  <2>. QED  BY <1>2, <1>5, <2>1, PositionsRun
<1>7. Return(b, new)
  BY <1>1
<1>8. new \in PartReader /\ new.part = x.part /\ new.plain = x.plain /\ new.at = x.at + n
  <2> DEFINE a == x.at + n
             l == x.left - n
  <2>1. a \in Int /\ l \in Int
    BY <1>2, <1>5 DEF PartReader
  <2>. HIDE DEF a, l
  <2>2. [x EXCEPT !.at = a, !.left = l] \in PartReader
    BY <1>2, <2>1 DEF PartReader
  <2>3. new = [x EXCEPT !.at = a, !.left = l]
    BY DEF a, l
  <2>. HIDE DEF new
  <2>4. new.part = x.part /\ new.plain = x.plain /\ new.at = a
    BY <1>2, <2>3 DEF PartReader
  <2>. QED  BY <2>2, <2>3, <2>4 DEF a
<1>. HIDE DEF b, new, x
<1>9. Base[x.part] + new.at = rd.offset + n
  <2>1. x.at \in Int
    BY <1>2 DEF PartReader
  <2>. QED  BY <1>2, <1>3, <1>4, <1>5, <1>8, <2>1
<1>10. OnPart(new, rd.offset + Len(b))
  BY <1>1, <1>3, <1>6, <1>8, <1>9 DEF OnPart
<1>11. PICK B, C : B = b /\ C = new
  OBVIOUS
<1>. QED  BY <1>1, <1>5, <1>6, <1>7, <1>8, <1>10, <1>11, ReturnStep

\* The rest of a sequence.
LEMMA RestIs ==
  ASSUME NEW p \in Seq(Nat), NEW n \in Nat, n <= Len(p)
  PROVE  LET rest == SubSeq(p, n + 1, Len(p))
         IN rest \in Seq(Nat) /\ Len(rest) = Len(p) - n /\ \A i \in 1..Len(p) - n : rest[i] = p[i + n]
<1> DEFINE rest == SubSeq(p, n + 1, Len(p))
<1>1. Len(p) \in Nat
  OBVIOUS
<1>2. CASE n = Len(p)
  <2>1. rest = <<>>
    BY <1>1, <1>2
  <2>2. Len(p) - n = 0
    BY <1>1, <1>2
  <2>. HIDE DEF rest
  <2>3. rest \in Seq(Nat) /\ Len(rest) = 0 /\ 1..Len(p) - n = {}
    BY <2>1, <2>2
  <2>. QED  BY <2>2, <2>3 DEF rest
<1>3. CASE n < Len(p)
  <2>1. \A i \in (n + 1)..Len(p) : p[i] \in Nat
    BY <1>1
  <2>2. rest = [i \in 1..Len(p) - n |-> p[i + n]]
    BY <1>1, <1>3
  <2>3. rest \in Seq(Nat) /\ Len(rest) = Len(p) - n
    BY <1>1, <1>3
  <2>. HIDE DEF rest
  <2>4. \A i \in 1..Len(p) - n : rest[i] = p[i + n]
    BY <2>2
  <2>. QED  BY <2>3, <2>4 DEF rest
<1>. QED  BY <1>1, <1>2, <1>3

\* Read, of what was decrypted.
LEMMA ReadDecryptedStep == ASSUME RInv, ReadDecrypted PROVE RInv'
<1> DEFINE x == rd.cur
           p == x.plain
           n == Least(Least(BufSize, rd.remain), Len(p))
           rest == SubSeq(p, n + 1, Len(p))
           new == [x EXCEPT !.plain = rest, !.remain = x.remain - n]
           b == SubSeq(p, 1, n)
<1>1. rd.pc = "reading" /\ rd.cur # NoPart /\ p # <<>> /\ Return(b, new)
  BY DEF ReadDecrypted, Stands
<1>2. x \in PartReader /\ rd.offset \in Nat /\ rd.remain \in Nat
  BY RParts
<1>3. OnPart(x, rd.offset)
  BY <1>1 DEF RInv
<1>4. encrypted
  BY <1>1, <1>3, RParts DEF OnPart
<1> DEFINE o == rd.offset - Base[x.part]
<1>5. /\ x.part \in 1..Len(parts) /\ o >= 0 /\ o + x.remain <= parts[x.part]
      /\ Len(p) <= x.remain /\ Run(p, rd.offset)
      /\ Len(p) < x.remain =>
            /\ x.skip < ChunkSize /\ x.idx * ChunkSize + x.skip = o + Len(p)
            /\ x.at = x.idx * (ChunkSize + ChunkOverhead)
            /\ x.at + x.left = FileEnd(x.part, o + x.remain)
  BY <1>3, <1>4 DEF OnPart
<1>6. p \in Seq(Nat) /\ Len(p) \in Nat /\ x.remain \in Nat /\ BufSize \in Nat
  BY <1>2, ReadAssumption DEF PartReader
<1>7. n \in Nat /\ n <= rd.remain /\ n <= Len(p)
  BY <1>2, <1>6 DEF Least
<1>. HIDE DEF n, p
<1>8. b \in Seq(Nat) /\ Len(b) = n /\ \A i \in 1..n : b[i] = p[i]
  BY <1>6, <1>7
<1>9. rest \in Seq(Nat) /\ Len(rest) = Len(p) - n /\ \A i \in 1..Len(p) - n : rest[i] = p[i + n]
  BY <1>6, <1>7, RestIs
<1>. HIDE DEF b, rest
<1>10. x.remain - n \in Nat
  BY <1>5, <1>6, <1>7
<1>11. /\ new \in PartReader /\ new.part = x.part /\ new.plain = rest /\ new.remain = x.remain - n
       /\ new.at = x.at /\ new.left = x.left /\ new.idx = x.idx /\ new.skip = x.skip
  BY <1>2, <1>9, <1>10 DEF PartReader
<1>12. Run(b, rd.offset)
  <2> SUFFICES ASSUME NEW i \in 1..n PROVE b[i] = rd.offset + i - 1
    BY <1>8 DEF Run
  <2>1. i \in 1..Len(p)
    BY <1>6, <1>7
  <2>. QED  BY <1>5, <1>8, <2>1 DEF Run
<1>13. Run(rest, rd.offset + n)
  <2> SUFFICES ASSUME NEW i \in 1..Len(p) - n PROVE rest[i] = (rd.offset + n) + i - 1
    BY <1>9 DEF Run
  <2>1. i + n \in 1..Len(p)
    BY <1>6, <1>7
  <2>2. p[i + n] = rd.offset + (i + n) - 1
    BY <1>5, <2>1 DEF Run
  <2>. QED  BY <1>2, <1>7, <1>9, <2>2
<1> DEFINE o2 == (rd.offset + n) - Base[x.part]
<1>14. Base[x.part] \in Nat /\ parts[x.part] \in Nat
  BY <1>5, RParts
<1>15. o2 >= 0 /\ o2 + new.remain = o + x.remain /\ o2 + Len(rest) = o + Len(p) /\ Len(rest) <= new.remain
       /\ (Len(rest) < new.remain <=> Len(p) < x.remain)
  <2> DEFINE B == Base[x.part]
             f == rd.offset
             y == x.remain
             z == new.remain
             r == Len(rest)
             l == Len(p)
  <2>1. B \in Nat /\ f \in Nat /\ y \in Nat /\ l \in Nat /\ n \in Nat /\ n <= l /\ l <= y
        /\ z = y - n /\ r = l - n /\ f - B >= 0
    BY <1>2, <1>5, <1>6, <1>7, <1>9, <1>11, <1>14
  <2>. HIDE DEF B, f, y, z, r, l
  <2>2. (f + n) - B >= 0 /\ ((f + n) - B) + z = (f - B) + y /\ ((f + n) - B) + r = (f - B) + l /\ r <= z
        /\ (r < z <=> l < y)
    BY <2>1
  <2>. QED  BY <2>2 DEF B, f, y, z, r, l
<1>16. OnPart(new, rd.offset + n)
  <2>. HIDE DEF new, o, o2, x
  <2>1. /\ new.part \in 1..Len(parts) /\ o2 >= 0 /\ o2 + new.remain <= parts[new.part]
        /\ Len(new.plain) <= new.remain /\ Run(new.plain, rd.offset + n)
    BY <1>5, <1>11, <1>13, <1>15
  <2>2. Len(new.plain) < new.remain =>
            /\ new.skip < ChunkSize /\ new.idx * ChunkSize + new.skip = o2 + Len(new.plain)
            /\ new.at = new.idx * (ChunkSize + ChunkOverhead)
            /\ new.at + new.left = FileEnd(new.part, o2 + new.remain)
    BY <1>5, <1>11, <1>15
  <2>3. o2 = (rd.offset + n) - Base[new.part]
    BY <1>11 DEF o2
  <2>. QED  BY <1>4, <2>1, <2>2, <2>3 DEF OnPart
<1>17. PICK B, C : B = b /\ C = new
  OBVIOUS
<1>. HIDE DEF new
<1>. QED  BY <1>1, <1>7, <1>8, <1>11, <1>12, <1>16, <1>17, ReturnStep

\* A part is opened at one of its bytes: the chunks of the wanted bytes are to
\* be read, from the first one's place in the file.
LEMMA OpenPartIs ==
  ASSUME RInv, NEW p \in 1..Len(parts), NEW in \in Nat, NEW ln \in Nat \ {0}, in + ln <= parts[p]
  PROVE  OpenPart(p, in, ln) \in PartReader /\ OnPart(OpenPart(p, in, ln), Base[p] + in)
<1>1. /\ encrypted \in BOOLEAN /\ parts[p] \in Nat /\ Base[p] \in Nat /\ p \in Nat
  BY RParts
<1> DEFINE new == OpenPart(p, in, ln)
<1>2. CASE ~encrypted
  <2>1. new = PartAt(p, in, ln, 0, 0, 0)
    BY <1>2 DEF OpenPart
  <2>. HIDE DEF new
  <2>2. new \in PartReader /\ new.part = p /\ new.at = in /\ new.plain = <<>>
    <3>1. p \in Nat /\ in \in Int /\ ln \in Int
      BY <1>1
    <3>. QED  BY <2>1, <3>1 DEF PartAt, PartReader
  <2>3. OnPart(new, Base[p] + in)
    BY <1>2, <2>2 DEF OnPart
  <2>. QED  BY <2>2, <2>3 DEF new
<1>3. CASE encrypted
  <2> DEFINE chunk == ChunkSize + ChunkOverhead
             first == in \div ChunkSize
             e == in + ln
             last == (e - 1) \div ChunkSize
             es == EncryptedSize(parts[p])
             left == Least((last - first + 1) * chunk, es - first * chunk)
             skip == ChunkSkip(in)
             at == first * chunk
  <2>1. new = PartAt(p, at, left, first, skip, ln)
    BY <1>3 DEF OpenPart
  <2>2. ChunkSize \in Nat \ {0} /\ ChunkOverhead \in Nat /\ chunk \in Nat /\ e \in Nat \ {0} /\ e - 1 \in Nat
    BY ReadAssumption
  <2>3. first \in Nat /\ first * ChunkSize \in Nat /\ first * ChunkSize <= in /\ in < first * ChunkSize + ChunkSize
    BY <2>2, Quotient
  <2>4. last \in Nat
    BY <2>2, Quotient
  <2>5. skip = in - first * ChunkSize
    BY DEF ChunkSkip
  <2>6. skip \in Nat /\ skip < ChunkSize /\ first * ChunkSize + skip = in
    <3> DEFINE f == first * ChunkSize
    <3>1. f \in Nat /\ f <= in /\ in < f + ChunkSize /\ skip = in - f
      BY <2>3, <2>5
    <3>. HIDE DEF f, skip
    <3>2. skip \in Nat /\ skip < ChunkSize /\ f + skip = in
      BY <2>2, <3>1
    <3>. QED  BY <3>2 DEF f, skip
  <2>7. es \in Nat
    <3> DEFINE s == parts[p]
               k == (s + ChunkSize - 1) \div ChunkSize
    <3>1. s + ChunkSize - 1 \in Nat
      BY <1>1, <2>2
    <3>2. k \in Nat
      BY <2>2, <3>1, Quotient
    <3>. HIDE DEF k
    <3>3. s + k * ChunkOverhead \in Nat
      BY <1>1, <2>2, <3>2, TimesNext
    <3>. QED  BY <3>3 DEF EncryptedSize, k
  <2>. HIDE DEF first, last, es, chunk, skip
  <2>8. at \in Nat /\ (last + 1) * chunk \in Int /\ (last - first + 1) * chunk \in Int
        /\ at + (last - first + 1) * chunk = (last + 1) * chunk
    BY <2>2, <2>3, <2>4
  <2>9. left \in Int /\ at + left = Least((last + 1) * chunk, es)
    <3> DEFINE A == (last - first + 1) * chunk
               B == (last + 1) * chunk
    <3>1. left = Least(A, es - at) /\ A \in Int /\ B \in Int /\ at + A = B /\ at \in Int
      BY <2>8
    <3>. HIDE DEF A, B, at, left
    <3>2. left \in Int /\ at + left = Least(B, es)
      BY <2>7, <3>1 DEF Least
    <3>. QED  BY <3>2 DEF B
  <2>. HIDE DEF at, left, new
  <2>10. /\ new.part = p /\ new.at = at /\ new.left = left /\ new.idx = first /\ new.skip = skip
         /\ new.remain = ln /\ new.plain = <<>> /\ new \in PartReader
    <3>1. p \in Nat /\ at \in Int /\ left \in Int
          /\ first \in Nat /\ skip \in Nat /\ ln \in Nat
      BY <1>1, <2>3, <2>6, <2>8, <2>9
    <3>. QED  BY <2>1, <3>1 DEF PartAt, PartReader
  <2>11. FileEnd(p, e) = Least((last + 1) * chunk, es)
    BY DEF FileEnd, last, chunk, es
  <2> DEFINE o == (Base[p] + in) - Base[p]
  <2>12. o = in
    BY <1>1
  <2>13. e = in + ln /\ 0 + in = in
    OBVIOUS
  <2>. HIDE DEF o, e
  <2>14. /\ o >= 0 /\ o + new.remain = e /\ e <= parts[new.part] /\ Len(new.plain) = 0 /\ 0 <= new.remain
         /\ Run(new.plain, Base[p] + in)
    BY <2>10, <2>12, <2>13, NothingGiven
  <2>15. /\ new.skip < ChunkSize /\ new.idx * ChunkSize + new.skip = o + Len(new.plain)
         /\ new.at = new.idx * (ChunkSize + ChunkOverhead)
         /\ new.at + new.left = FileEnd(new.part, o + new.remain)
    <3>1. o + Len(new.plain) = in
      BY <2>12, <2>14
    <3>2. at = first * (ChunkSize + ChunkOverhead)
      BY DEF at, chunk
    <3>. QED  BY <2>6, <2>9, <2>10, <2>11, <2>14, <3>1, <3>2
  <2>16. o = (Base[p] + in) - Base[new.part]
    BY <2>10 DEF o
  <2>17. OnPart(new, Base[p] + in)
    BY <1>3, <2>10, <2>14, <2>15, <2>16 DEF OnPart
  <2>. QED  BY <2>10, <2>17 DEF new
<1>. QED  BY <1>1, <1>2, <1>3

\* openNext.
LEMMA OpenNextStep == ASSUME RInv, OpenNext PROVE RInv'
<1>1. PICK p \in 1..Len(parts) :
       /\ Base[p] <= rd.offset /\ rd.offset < Base[p + 1]
       /\ rd' = IF p \notin named THEN [rd EXCEPT !.pc = "failed"]
                ELSE LET in == rd.offset - Base[p]
                     IN [rd EXCEPT !.cur = OpenPart(p, in, Least(parts[p] - in, rd.remain))]
  BY DEF OpenNext
<1>2. rd.pc = "reading" /\ rd.remain > 0 /\ StoreUnchanged /\ UNCHANGED <<asked, given, dst>>
  BY DEF OpenNext, Stands
<1>3. /\ rd \in Reader /\ rd.offset \in Nat /\ rd.remain \in Nat
      /\ parts[p] \in Nat /\ Base[p] \in Nat /\ Base[p + 1] = Base[p] + parts[p]
  BY RParts
<1>4. CASE p \notin named
  <2>1. rd' = [rd EXCEPT !.pc = "failed"]
    BY <1>1, <1>4
  <2>2. rd' \in Reader /\ rd'.pc = "failed" /\ rd'.export = rd.export /\ rd'.offset = rd.offset /\ rd'.remain = rd.remain
    BY <1>3, <2>1 DEF Reader
  <2>3. Damaged
    BY <1>4 DEF Damaged
  <2>. QED  BY <1>2, <2>2, <2>3, QuietStep
<1>5. CASE p \in named
  <2> DEFINE in == rd.offset - Base[p]
             ln == Least(parts[p] - in, rd.remain)
             new == OpenPart(p, in, ln)
  <2>1. in \in Nat /\ in < parts[p] /\ Base[p] + in = rd.offset
    BY <1>1, <1>3
  <2>2. rd' = [rd EXCEPT !.cur = new]
    BY <1>1, <1>5
  <2>. HIDE DEF in
  <2>3. ln \in Nat \ {0} /\ in + ln <= parts[p]
    BY <1>2, <1>3, <2>1 DEF Least
  <2>. HIDE DEF ln
  <2>4. PICK i \in Nat, l \in Nat \ {0} : i = in /\ l = ln
    BY <2>1, <2>3
  <2>5. new \in PartReader /\ OnPart(new, rd.offset)
    BY <2>1, <2>3, <2>4, OpenPartIs
  <2>. HIDE DEF new
  <2>6. /\ rd' \in Reader /\ rd'.pc = "reading" /\ rd'.export = rd.export /\ rd'.offset = rd.offset
        /\ rd'.remain = rd.remain /\ rd'.cur = new
    BY <1>2, <1>3, <2>2, <2>5 DEF Reader
  <2>. QED  BY <1>2, <2>5, <2>6, QuietStep
<1>. QED  BY <1>4, <1>5

\* Read closes a part.
LEMMA PartEndsStep == ASSUME RInv, PartEnds PROVE RInv'
<1>1. /\ rd.pc = "reading" /\ rd' = [rd EXCEPT !.cur = NoPart]
      /\ StoreUnchanged /\ UNCHANGED <<asked, given, dst>>
  BY DEF PartEnds, Stands
<1>2. rd \in Reader
  BY RParts
<1>3. /\ rd' \in Reader /\ rd'.pc = "reading" /\ rd'.export = rd.export /\ rd'.offset = rd.offset
      /\ rd'.remain = rd.remain /\ rd'.cur = NoPart
  BY <1>1, <1>2, NoReaderIs DEF Reader
<1>. QED  BY <1>1, <1>3, QuietStep

\* Read reports the end.
LEMMA ReadsEndStep == ASSUME RInv, ReadsEnd PROVE RInv'
<1>1. /\ rd.pc = "reading" /\ rd.remain = 0 /\ rd' = [rd EXCEPT !.pc = "eof"]
      /\ StoreUnchanged /\ UNCHANGED <<asked, given, dst>>
  BY DEF ReadsEnd
<1>2. rd \in Reader
  BY RParts
<1>3. rd' \in Reader /\ rd'.pc = "eof" /\ rd'.export = rd.export /\ rd'.offset = rd.offset /\ rd'.remain = rd.remain
  BY <1>1, <1>2 DEF Reader
<1>. QED  BY <1>1, <1>3, QuietStep

\* The chunk of the next wanted byte is read whole and opens, or its file was
\* cut short; what it holds begins with that byte.
LEMMA DecryptChunkStep == ASSUME RInv, DecryptChunk PROVE RInv'
<1> DEFINE x == rd.cur
           s == parts[x.part]
           chunk == ChunkSize + ChunkOverhead
           from == x.idx * ChunkSize
           size == Least(ChunkSize, s - from)
           n == Least(chunk, Available)
           opens == x.at = x.idx * chunk /\ n = size + ChunkOverhead
           m == Least(size - x.skip, x.remain)
           plain == Positions(Base[x.part] + from + x.skip, m)
           new == [x EXCEPT !.at = x.at + n, !.left = x.left - n, !.idx = x.idx + 1, !.skip = 0, !.plain = plain]
<1>1. /\ rd.pc = "reading" /\ rd.cur # NoPart /\ encrypted /\ x.plain = <<>> /\ x.remain > 0
      /\ StoreUnchanged /\ UNCHANGED <<asked, given, dst>>
  BY DEF DecryptChunk, Stands
<1>2. rd' = IF ~opens THEN [rd EXCEPT !.pc = "failed"] ELSE [rd EXCEPT !.cur = new]
  BY DEF DecryptChunk
<1>3. rd \in Reader /\ x \in PartReader /\ rd.offset \in Nat /\ OnPart(x, rd.offset)
  BY <1>1, RParts DEF RInv
<1>4. /\ x.at \in Int /\ x.left \in Int /\ x.idx \in Nat /\ x.skip \in Nat /\ x.remain \in Nat
  BY <1>3 DEF PartReader
<1> DEFINE o == rd.offset - Base[x.part]
           e == o + x.remain
<1>5. /\ x.part \in 1..Len(parts) /\ o >= 0 /\ e <= s
      /\ Len(x.plain) < x.remain =>
            /\ x.skip < ChunkSize /\ x.idx * ChunkSize + x.skip = o + Len(x.plain)
            /\ x.at = x.idx * (ChunkSize + ChunkOverhead)
            /\ x.at + x.left = FileEnd(x.part, e)
  BY <1>1, <1>3 DEF OnPart
<1>6. /\ s \in Nat /\ Base[x.part] \in Nat /\ length[x.part] \in Nat
  BY <1>5, RParts
<1>7. Len(x.plain) = 0 /\ o \in Nat /\ e \in Nat
  <2>1. Len(x.plain) = 0
    BY <1>1, NothingGiven
  <2>2. o \in Nat
    BY <1>3, <1>5, <1>6
  <2>3. e \in Nat
    BY <1>4, <2>2
  <2> QED BY <2>1, <2>2, <2>3
<1>8. /\ x.skip < ChunkSize /\ from + x.skip = o /\ x.at = x.idx * chunk
      /\ x.at + x.left = FileEnd(x.part, e)
  BY <1>1, <1>4, <1>5, <1>7
<1>9. o < e
  BY <1>1, <1>4, <1>7
<1>10. ChunkSize \in Nat \ {0} /\ ChunkOverhead \in Nat \ {0} /\ chunk \in Nat
  BY ReadAssumption
<1>11. from \in Nat /\ x.idx * chunk \in Nat
  BY <1>4, <1>10, TimesNext
<1> DEFINE end == FileEnd(x.part, e)
           es == EncryptedSize(s)
<1>12. /\ size \in Nat /\ x.skip < size
       /\ end - x.idx * chunk \in Nat /\ end <= es /\ es \in Nat
       /\ Least(chunk, end - x.idx * chunk) = size + ChunkOverhead
  <2>1. x.idx * ChunkSize + x.skip < e
    BY <1>8, <1>9
  <2>2. end = Least(((e - 1) \div ChunkSize + 1) * (ChunkSize + ChunkOverhead), EncryptedSize(s))
    BY DEF FileEnd
  <2>3. PICK S \in Nat, E \in Nat, I \in Nat, K \in Nat : S = s /\ E = e /\ I = x.idx /\ K = x.skip
    BY <1>4, <1>6, <1>7
  <2>4. I * ChunkSize + K < E /\ E <= S /\ K < ChunkSize
    BY <1>5, <1>8, <2>1, <2>3
  <2>. HIDE DEF x, s, e, end
  <2>. QED  BY <2>2, <2>3, <2>4, ChunkReadWhole
<1>13. x.left \in Nat /\ x.at + x.left <= es /\ Least(chunk, x.left) = size + ChunkOverhead /\ x.at \in Nat
  <2> DEFINE a == x.idx * chunk
  <2>1. a \in Nat /\ x.at = a /\ x.at + x.left = end /\ end - a \in Nat /\ end <= es /\ es \in Nat
    BY <1>8, <1>11, <1>12
  <2>. HIDE DEF a, end, es
  <2>2. x.left = end - a
    BY <1>4, <2>1
  <2>. QED  BY <1>12, <2>1, <2>2 DEF a
<1>. HIDE DEF end, es, e
<1>14. CASE ~opens
  <2>1. rd' = [rd EXCEPT !.pc = "failed"]
    BY <1>2, <1>14
  <2>2. rd' \in Reader /\ rd'.pc = "failed" /\ rd'.export = rd.export /\ rd'.offset = rd.offset /\ rd'.remain = rd.remain
    BY <1>3, <2>1 DEF Reader
  <2>3. n # size + ChunkOverhead
    BY <1>8, <1>14
  <2>4. length[x.part] # es
    <3> SUFFICES ASSUME length[x.part] = es PROVE FALSE
      OBVIOUS
    <3> DEFINE l == length[x.part]
    <3>1. Available = IF l - x.at < 0 THEN 0 ELSE Least(l - x.at, x.left)
      BY DEF Available
    <3>2. l = es /\ l \in Nat
      BY <1>6
    <3>. HIDE DEF l, x
    <3>3. Available = x.left
      BY <1>13, <3>1, <3>2 DEF Least
    <3>. QED  BY <1>13, <2>3, <3>3
  <2>5. es = FileSize(x.part)
    BY <1>1 DEF FileSize, es
  <2>6. Damaged
    BY <1>5, <2>4, <2>5 DEF Damaged
  <2>. QED  BY <1>1, <2>2, <2>6, QuietStep
<1>15. CASE opens
  <2>1. rd' = [rd EXCEPT !.cur = new]
    BY <1>2, <1>15
  <2>2. n = size + ChunkOverhead
    BY <1>15
  <2>. HIDE DEF opens, n, size, from
  <2>3. m \in Nat /\ m <= x.remain /\ m <= size - x.skip /\ (m < x.remain => m = size - x.skip)
    BY <1>4, <1>12 DEF Least
  <2>4. n \in Nat
    BY <1>10, <1>12, <2>2
  <2>. HIDE DEF m
  <2>5. plain = Positions(rd.offset, m)
    <3>1. Base[x.part] + from + x.skip = rd.offset
      <4> DEFINE B == Base[x.part]
                 f == rd.offset
                 k == x.skip
      <4>1. B \in Nat /\ f \in Nat /\ k \in Nat /\ from \in Nat /\ from + k = f - B
        BY <1>3, <1>4, <1>6, <1>8, <1>11
      <4>. HIDE DEF B, f, k
      <4>2. B + from + k = f
        BY <4>1
      <4>. QED  BY <4>2 DEF B, f, k
    <3>. QED  BY <3>1
  <2>. HIDE DEF plain
  <2>6. plain \in Seq(Nat) /\ Len(plain) = m /\ Run(plain, rd.offset)
    BY <1>3, <2>3, <2>5, PositionsRun
  <2>7. /\ new \in PartReader /\ new.part = x.part /\ new.at = x.at + n /\ new.left = x.left - n
        /\ new.idx = x.idx + 1 /\ new.skip = 0 /\ new.remain = x.remain /\ new.plain = plain
    <3> DEFINE a == x.at + n
               l == x.left - n
               i == x.idx + 1
    <3>1. a \in Int /\ l \in Int /\ i \in Nat
      BY <1>4, <2>4
    <3>2. new = [x EXCEPT !.at = a, !.left = l, !.idx = i, !.skip = 0, !.plain = plain]
      OBVIOUS
    <3>. HIDE DEF a, l, i, new
    <3>3. new \in PartReader
      BY <1>3, <2>6, <3>1, <3>2 DEF PartReader
    <3>4. /\ new.part = x.part /\ new.at = a /\ new.left = l
          /\ new.idx = i /\ new.skip = 0 /\ new.remain = x.remain /\ new.plain = plain
      BY <1>3, <2>6, <3>1, <3>2 DEF PartReader
    <3>. QED  BY <3>3, <3>4 DEF a, l, i
  <2>. HIDE DEF new
  <2>8. ASSUME m < x.remain
        PROVE  /\ 0 < ChunkSize /\ (x.idx + 1) * ChunkSize + 0 = o + m
               /\ x.at + n = (x.idx + 1) * chunk
               /\ (x.at + n) + (x.left - n) = FileEnd(x.part, e)
    <3>1. m = size - x.skip
      BY <2>3, <2>8
    <3>2. size = ChunkSize
      <4>1. size = ChunkSize \/ size = s - from
        BY DEF size, Least
      <4>2. size # s - from
        <5> DEFINE k == x.skip
                   r == x.remain
        <5>1. o \in Nat /\ from \in Nat /\ k \in Nat /\ r \in Nat /\ from + k = o /\ o + r <= s /\ m < r
              /\ m = size - k /\ size \in Nat /\ s \in Nat
          BY <1>4, <1>5, <1>6, <1>7, <1>8, <1>11, <1>12, <2>8, <3>1 DEF e
        <5>. HIDE DEF o, k, r, s
        <5>. QED  BY <5>1
      <4>. QED  BY <4>1, <4>2
    <3>3. (x.idx + 1) * ChunkSize = from + ChunkSize
      BY <1>4, <1>10, TimesNext DEF from
    <3>4. (x.idx + 1) * chunk = x.idx * chunk + chunk
      <4>. HIDE DEF chunk
      <4>. QED  BY <1>4, <1>10, TimesNext
    <3>5. (x.idx + 1) * ChunkSize + 0 = o + m
      <4> DEFINE k == x.skip
                 A == (x.idx + 1) * ChunkSize
      <4>1. A = from + ChunkSize /\ from \in Nat /\ k \in Nat /\ from + k = o /\ m = ChunkSize - k
            /\ ChunkSize \in Nat /\ o \in Nat
        BY <1>4, <1>7, <1>8, <1>10, <1>11, <3>1, <3>2, <3>3
      <4>. HIDE DEF k, A, o
      <4>2. A + 0 = o + m
        BY <4>1
      <4>. QED  BY <4>2 DEF A
    <3>6. x.at + n = (x.idx + 1) * chunk
      BY <1>8, <2>2, <3>2, <3>4
    <3>7. (x.at + n) + (x.left - n) = x.at + x.left
      BY <1>4, <2>4
    <3>. QED  BY <1>8, <1>10, <3>5, <3>6, <3>7
  <2>9. /\ new.part \in 1..Len(parts) /\ o >= 0 /\ o + new.remain <= parts[new.part]
        /\ Len(new.plain) <= new.remain /\ Run(new.plain, rd.offset)
    BY <1>5, <2>3, <2>6, <2>7 DEF e
  <2>10. Len(new.plain) < new.remain =>
            /\ new.skip < ChunkSize /\ new.idx * ChunkSize + new.skip = o + Len(new.plain)
            /\ new.at = new.idx * (ChunkSize + ChunkOverhead)
            /\ new.at + new.left = FileEnd(new.part, o + new.remain)
    BY <2>6, <2>7, <2>8 DEF e
  <2>11. o = rd.offset - Base[new.part]
    BY <2>7
  <2>. HIDE DEF o, x
  <2>12. OnPart(new, rd.offset)
    BY <1>1, <2>9, <2>10, <2>11 DEF OnPart
  <2>13. /\ rd' \in Reader /\ rd'.pc = "reading" /\ rd'.export = rd.export /\ rd'.offset = rd.offset
        /\ rd'.remain = rd.remain /\ rd'.cur = new
    BY <1>1, <1>3, <2>1, <2>7 DEF Reader
  <2>. QED  BY <1>1, <2>12, <2>13, QuietStep
<1>. QED  BY <1>14, <1>15

\* A file is removed with its version.
LEMMA DropFileStep == ASSUME RInv, NEW p, DropFile(p) PROVE RInv'
<1>1. named' \subseteq named /\ UNCHANGED <<parts, encrypted, length, asked, rd, given, dst>>
  BY DEF DropFile
<1>2. GivenOK /\ EndsOK /\ rd \in Reader /\ given \in Seq(Nat)
      /\ (rd.pc = "reading" /\ rd.cur # NoPart => OnPart(rd.cur, rd.offset))
  BY DEF RInv, ReadTypeOK
<1>. QED  BY <1>1, <1>2, RAssembled DEF GivenOK, EndsOK

\* The reader is done with, and what was exported is the whole object.
LEMMA ReaderGone ==
  ASSUME RInv, StoreUnchanged, UNCHANGED <<asked, given>>, rd' = NoReader,
         dst' # NoBytes => dst' = Positions(0, Size)
  PROVE  RInv'
<1>1. UNCHANGED <<parts, encrypted, length, asked, named, given>>
  BY DEF StoreUnchanged
<1>2. GivenOK /\ given \in Seq(Nat)
  BY DEF RInv, ReadTypeOK
<1>3. rd' \in Reader /\ rd'.pc = "idle" /\ rd'.export = FALSE
  BY NoReaderIs
<1>. QED  BY <1>1, <1>2, <1>3, RAssembled DEF GivenOK

\* exportOne renames the file only if all of the object is in it.
LEMMA ExportFinishStep == ASSUME RInv, ExportFinish PROVE RInv'
<1>1. /\ rd.export /\ dst' = IF rd.pc = "eof" /\ Len(given) = Size THEN given ELSE dst
      /\ rd' = NoReader /\ StoreUnchanged /\ UNCHANGED <<asked, given>>
  BY DEF ExportFinish
<1>2. /\ asked = WholeObject /\ (dst # NoBytes => dst = Positions(0, Size)) /\ Run(given, From)
  BY <1>1 DEF RInv, EndsOK, GivenOK
<1>3. given \in Seq(Nat) /\ Size \in Nat
  BY RParts
<1>4. From = 0
  <2>1. ~(WholeObject.part > 0)
    BY DEF WholeObject, Request, Absent
  <2>2. Resolve(WholeObject) = <<0, Size>>
    BY <2>1 DEF Resolve
  <2>. QED  BY <1>2, <2>2 DEF From
<1>5. ASSUME Len(given) = Size PROVE given = Positions(0, Size)
  <2>1. Positions(0, Size) \in Seq(Nat) /\ Len(Positions(0, Size)) = Size /\ Run(Positions(0, Size), 0)
    BY <1>3, PositionsRun
  <2>2. \A i \in 1..Len(given) : given[i] = Positions(0, Size)[i]
    BY <1>2, <1>4, <1>5, <2>1 DEF Run
  <2>. QED  BY <1>3, <1>5, <2>1, <2>2
<1>6. dst' # NoBytes => dst' = Positions(0, Size)
  BY <1>1, <1>2, <1>5
<1>. QED  BY <1>1, <1>6, ReaderGone

\* Every step keeps the invariant.
LEMMA RNextKeeps == ASSUME RInv, [ONext]_ovars PROVE RInv'
<1>1. ASSUME NEW a \in Absent..MaxOffset, NEW b \in Absent..MaxOffset, Get(ParseRange(a, b)) PROVE RInv'
  <2>1. PICK q \in Requested : q = ParseRange(a, b)
    BY RangesRequested
  <2>. QED  BY <1>1, <2>1, OpenedStep DEF Get
<1>2. ASSUME NEW p \in 1..Len(parts) + 1, Get(Request(p, 0, Absent)) PROVE RInv'
  <2>1. p \in Nat \ {0}
    BY RParts
  <2>2. PICK q \in Requested : q = Request(p, 0, Absent)
    BY <2>1, RangesRequested
  <2>. QED  BY <1>2, <2>2, OpenedStep DEF Get
<1>3. ASSUME NEW overwrite \in BOOLEAN, ExportOne(overwrite) PROVE RInv'
  <2>1. PICK q \in Requested : q = WholeObject
    BY RangesRequested
  <2>. QED  BY <1>3, <2>1, OpenedStep DEF ExportOne
<1>4. ASSUME ExportStopped PROVE RInv'
  <2>1. rd' = NoReader /\ StoreUnchanged /\ UNCHANGED <<asked, given, dst>>
    BY <1>4 DEF ExportStopped
  <2>2. dst' # NoBytes => dst' = Positions(0, Size)
    BY <2>1 DEF RInv, EndsOK
  <2>. QED  BY <2>1, <2>2, ReaderGone
<1>5. ASSUME ReaderStep PROVE RInv'
  BY <1>5, OpenNextStep, ReadPlainStep, DecryptChunkStep, ReadDecryptedStep, PartEndsStep, ReadsEndStep DEF ReaderStep
<1>6. ASSUME UNCHANGED ovars PROVE RInv'
  <2>1. UNCHANGED <<parts, encrypted, named, length, asked, rd, given, dst>>
    BY <1>6 DEF ovars
  <2>2. GivenOK /\ EndsOK /\ rd \in Reader /\ given \in Seq(Nat)
        /\ (rd.pc = "reading" /\ rd.cur # NoPart => OnPart(rd.cur, rd.offset))
    BY DEF RInv, ReadTypeOK
  <2>. QED  BY <2>1, <2>2, RAssembled DEF GivenOK, EndsOK
<1>. QED  BY <1>1, <1>2, <1>3, <1>4, <1>5, <1>6, DropFileStep, ExportFinishStep DEF ONext

\* The bytes of a request, counted.
LEMMA NamedCounted ==
  ASSUME RInv, From # Absent
  PROVE  /\ Named(asked) = From..From + Total - 1 /\ Cardinality(Named(asked)) = Total
         /\ Total > 0 => From = CHOOSE i \in Named(asked) : \A j \in Named(asked) : i <= j
<1>1. Meant(asked) /\ From \in Nat /\ Total \in Nat
  BY RParts
<1>2. Named(asked) = From..From + Total - 1
  BY <1>1 DEF Meant, From, Total
<1>3. Cardinality(Named(asked)) = Total
  <2> DEFINE a == From
             b == From + Total - 1
  <2>1. a \in Int /\ b \in Int
    BY <1>1
  <2>2. Cardinality(a..b) = IF a > b THEN 0 ELSE b - a + 1
    <3>. HIDE DEF a, b
    <3>. QED  BY <2>1, FS_Interval
  <2>. QED  BY <1>1, <1>2, <2>2
<1>4. ASSUME Total > 0 PROVE From = CHOOSE i \in Named(asked) : \A j \in Named(asked) : i <= j
  <2> DEFINE L(i) == i \in Named(asked) /\ \A j \in Named(asked) : i <= j
  <2>1. L(From)
    BY <1>1, <1>2, <1>4
  <2>2. \A i : L(i) => i = From
    BY <1>1, <1>2, <2>1
  <2>. QED  BY <2>1, <2>2
<1>. QED  BY <1>2, <1>3, <1>4

\* The invariant says what ReadExact does.
LEMMA RInvExact == ASSUME RInv PROVE ReadExact
<1> DEFINE least == CHOOSE i \in Named(asked) : \A j \in Named(asked) : i <= j
<1>1. GivenOK /\ EndsOK /\ given \in Seq(Nat)
  BY DEF RInv, ReadTypeOK
<1>2. ASSUME given # <<>>
      PROVE  Len(given) <= Cardinality(Named(asked)) /\ given = Positions(least, Len(given))
  <2>1. From # Absent /\ Len(given) <= Total /\ Run(given, From)
    BY <1>1, <1>2 DEF GivenOK
  <2>2. From \in Nat /\ Total \in Nat /\ Len(given) \in Nat /\ Len(given) > 0
    BY <1>1, <1>2, <2>1, RParts
  <2>3. Total > 0
    BY <2>1, <2>2
  <2>4. Cardinality(Named(asked)) = Total /\ From = least
    BY <2>1, <2>3, NamedCounted
  <2>. HIDE DEF least
  <2>5. /\ Positions(From, Len(given)) \in Seq(Nat) /\ Len(Positions(From, Len(given))) = Len(given)
        /\ Run(Positions(From, Len(given)), From)
    BY <2>2, PositionsRun
  <2>6. \A i \in 1..Len(given) : given[i] = Positions(From, Len(given))[i]
    BY <2>1, <2>5 DEF Run
  <2>7. given = Positions(From, Len(given))
    BY <1>1, <2>5, <2>6
  <2>. QED  BY <2>1, <2>4, <2>7
<1>3. ASSUME rd.pc = "eof" PROVE Len(given) = Cardinality(Named(asked))
  <2>1. From # Absent /\ rd.remain = 0 /\ rd.remain + Len(given) = Total
    BY <1>1, <1>3 DEF GivenOK, EndsOK
  <2>2. Cardinality(Named(asked)) = Total /\ Len(given) \in Nat
    BY <2>1, NamedCounted, RParts
  <2>. QED  BY <2>1, <2>2
<1>4. ASSUME rd.pc = "refused" PROVE Named(asked) = {}
  <2>1. From = Absent
    BY <1>1, <1>4 DEF EndsOK
  <2>2. Absent \notin Nat
    BY DEF Absent
  <2>. QED  BY <2>1, <2>2, RParts DEF Meant, From
<1>. QED  BY <1>1, <1>2, <1>3, <1>4 DEF ReadExact, EndsOK, Damaged

\* A reader returns the bytes asked for, in order and none besides, comes to
\* the end only when it has returned them all, fails only if a file was removed
\* or cut short, and an exported file is the whole object: for every layout of
\* parts, every size of the chunks and of the buffer, and every range.
THEOREM ReadIsExact == OSpec => []ReadExact
<1>1. OInit => RInv
  BY InitRInv
<1>2. RInv /\ [ONext]_ovars => RInv'
  BY RNextKeeps
<1>3. RInv => ReadExact
  BY RInvExact
<1>. QED  BY <1>1, <1>2, <1>3, PTL DEF OSpec
=============================================================================
