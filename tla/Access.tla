------------------------------- MODULE Access -------------------------------
(***************************************************************************)
(* Object requests of the S3 API, from authorisation to effect (s3api/      *)
(* auth.go, object.go; object/get.go, copy.go, expect.go).  A request reads *)
(* the bucket, then the object, decides, and only then runs: each of these  *)
(* is a transaction of its own, and between any two of them other requests  *)
(* may replace what was read.                                               *)
(*                                                                         *)
(* Abstracted: buckets are unversioned (ObjectStore models versions and     *)
(* their files), so a key has at most its null version, and a request names *)
(* either the latest version or that one; an object's tags are one value,   *)
(* 0 for none.  The identities' own policies do not change.                 *)
(***************************************************************************)
EXTENDS Policy, FiniteSets

CONSTANTS
  Buckets, Keys,
  Reqs,              \* requests being followed
  Policies,          \* bucket policies that are put
  Blocks,            \* public access block settings that are put
  Acls,              \* canned ACLs that are used
  Ownership,         \* object ownership settings that are put
  IdentityPolicies,  \* the documents attached to each caller
  SessionPolicies,   \* the documents that filter each caller
  MaxClock           \* bound: buckets created and versions written

ASSUME AccessAssumption ==
  /\ MaxClock \in Nat
  /\ DOMAIN IdentityPolicies = Callers /\ DOMAIN SessionPolicies = Callers
  /\ IdentityPolicies[Nobody] = {} /\ SessionPolicies[Nobody] = {}

VARIABLES
  bucket, \* the record of each name, or NoBucket
  object, \* the version each key has, or NoObject
  req,    \* what each request has read and where it stands
  clock   \* creation times and sequences come from here

avars == <<bucket, object, req, clock>>

NoBlock == [blockAcls |-> FALSE, blockPolicy |-> FALSE, ignoreAcls |-> FALSE, restrict |-> FALSE]

NoBucket == [id |-> 0, owner |-> Nobody, policy |-> {}, selfLock |-> FALSE, acl |-> {},
             ownership |-> "", block |-> NoBlock]

NewBucket(id, owner) ==
  [NoBucket EXCEPT !.id = id, !.owner = owner, !.ownership = "ObjectWriter",
                   !.acl = {[to |-> owner, may |-> "FULL_CONTROL"]}]

Places == Buckets \X Keys

\* The action each operation is authorised as.
ActionOf ==
  [GetObject |-> "GetObject", GetObjectTagging |-> "GetObjectTagging",
   GetObjectAcl |-> "GetObjectAcl", RestoreObject |-> "RestoreObject",
   PutObject |-> "PutObject", CopyObject |-> "PutObject", DeleteObject |-> "DeleteObject",
   DeleteVersion |-> "DeleteObjectVersion", DeleteObjects |-> "DeleteObject",
   PutObjectTagging |-> "PutObjectTagging", PutObjectAcl |-> "PutObjectAcl"]

Ops == DOMAIN ActionOf
Reads == {"GetObject", "GetObjectTagging", "GetObjectAcl"}
Looks == {"PutObjectAcl", "RestoreObject"} \* look the object up before they change it

\* Operations whose route says needsObject.
NeedsObject == Ops \ {"RestoreObject", "DeleteObjects"}

Idle == [op |-> "none", who |-> Nobody, at |-> <<>>, from |-> <<>>, acl |-> "", tag |-> 0,
         pc |-> "idle", b |-> NoBucket, o |-> NoObject, grant |-> "NoGrant",
         sb |-> NoBucket, so |-> NoObject, got |-> NoObject, owner |-> Nobody, answer |-> ""]

Tags == 0..1

\* A version as a put by this caller leaves it.
Version(seq, b, who, acl, tag) ==
  [seq |-> seq, home |-> b.id, owner |-> who, tag |-> tag,
   acl |-> IF acl = "" THEN {} ELSE CannedACL(acl, who, b.owner)]

AInit ==
  /\ bucket \in [Buckets -> {[NewBucket(1, x.owner) EXCEPT !.policy = x.policy, !.ownership = x.ownership] :
                               x \in [owner: Users, policy: Policies, ownership: Ownership]}]
  /\ object \in [Places -> {NoObject} \cup {Version(1, NewBucket(1, x.owner), x.owner, x.acl, x.tag) :
                               x \in [owner: Users, acl: Acls, tag: Tags]}]
  /\ req = [r \in Reqs |-> Idle]
  /\ clock = 2

-----------------------------------------------------------------------------
(* Deciding *)

\* conditionContextFor and applyObjectContext
Context(o) == IF o.tag = 0 THEN <<>> ELSE [existingtag |-> <<o.tag>>]

\* What the request's caller may do at a place, by the records given.
May(who, action, place, b, o) ==
  Decide(b, o, [action |-> action, resource |-> place, caller |-> who, context |-> Context(o)],
         IdentityPolicies[who], SessionPolicies[who])

Step(r, f) == req' = [req EXCEPT ![r] = f]

Goto(r, pc) == [req[r] EXCEPT !.pc = pc]

Answer(r, a) == Step(r, [Goto(r, "done") EXCEPT !.answer = a])

UnchangedStore == UNCHANGED <<bucket, object, clock>>

\* A request that was idle arrives.
Begin(r, op, who, at, from, acl, tag) ==
  /\ op # "CopyObject" => from = at
  /\ op = "CopyObject" => from # at
  /\ op \notin {"PutObject", "CopyObject", "PutObjectAcl"} => acl = ""
  /\ op = "PutObjectAcl" => acl # ""
  /\ op \notin {"PutObject", "PutObjectTagging"} => tag = 0
  /\ Step(r, [Idle EXCEPT !.op = op, !.who = who, !.at = at, !.from = from,
                          !.acl = acl, !.tag = tag, !.pc = "bucket"])
  /\ UnchangedStore

\* authorize, once it has what it decides on.
Conclude(r, b, o) ==
  LET q == req[r]
      grant == May(q.who, ActionOf[q.op], q.at, b, o)
      lists == Allowed(May(q.who, "ListBucket", <<q.at[1]>>, b, NoObject))
  IN Step(r, [q EXCEPT
       !.b = b, !.o = o, !.grant = grant,
       !.pc = IF Allowed(grant) THEN "go" ELSE "done",
       !.answer = IF Allowed(grant) THEN ""
                  ELSE IF q.op = "GetObject" /\ o = NoObject /\ lists THEN "NoSuchKey"
                  ELSE "AccessDenied"])

\* authorize: the bucket ...
AuthorizeBucket(r) ==
  LET q == req[r]
      b == bucket[q.at[1]]
  IN /\ q.pc = "bucket"
     /\ IF b = NoBucket THEN Answer(r, "NoSuchBucket")
        ELSE IF q.op \in NeedsObject THEN Step(r, [Goto(r, "object") EXCEPT !.b = b])
        ELSE IF q.op = "DeleteObjects" THEN Step(r, [Goto(r, "each") EXCEPT !.b = b])
        ELSE Conclude(r, b, NoObject)
     /\ UnchangedStore

\* ... and, in another transaction, the object if there is one.
AuthorizeObject(r) ==
  /\ req[r].pc = "object"
  /\ Conclude(r, req[r].b, object[req[r].at])
  /\ UnchangedStore

-----------------------------------------------------------------------------
(* Reading *)

\* Mutant: what was looked up is served whatever was authorised.
ReauthorizedAnyway(q, o) == TRUE

\* reauthorizeServed: the version authorised, or one that is allowed too.
Reauthorized(q, o) ==
  \/ q.o # NoObject /\ q.o.seq = o.seq
  \/ Allowed(May(q.who, ActionOf[q.op], q.at, q.b, o))

\* StatObject asks for a live bucket of the name, whichever that is now.
Stat(place) ==
  CASE bucket[place[1]] = NoBucket -> "NoSuchBucket"
    [] bucket[place[1]] # NoBucket /\ object[place] = NoObject -> "NoSuchKey"
    [] OTHER -> "found"

\* serveObject, getObjectTagging, getObjectACL
ServeObject(r) ==
  LET q == req[r]
      o == object[q.at]
  IN /\ q.pc = "go" /\ q.op \in Reads
     /\ IF Stat(q.at) # "found" THEN Answer(r, Stat(q.at))
        ELSE IF ~Reauthorized(q, o) THEN Answer(r, "AccessDenied")
        ELSE Step(r, [Goto(r, "done") EXCEPT !.got = o, !.answer = "served"])
     /\ UnchangedStore

-----------------------------------------------------------------------------
(* Writing *)

\* bucketExpected and objectExpected
BucketExpected(q, b) == b # NoBucket /\ b.id = q.b.id

\* Mutant: no version is expected.
AnyObjectExpected(q, o) == TRUE

ObjectExpected(q, o) == q.o = NoObject \/ q.o.seq = o.seq

\* authorizeAttributes: attributes set along with a write need actions of
\* their own, decided without the object's context.
AttributesAllowed(q, tagged) ==
  LET acl == May(q.who, "PutObjectAcl", q.at, q.b, NoObject)
      tags == May(q.who, "PutObjectTagging", q.at, q.b, NoObject)
  IN \/ q.who = Root
     \/ /\ q.acl # "" => Allowed(acl) \/ (acl = "NoGrant" /\ q.grant = "ByACL")
        /\ tagged => tags = "ByPolicy"

\* parseACLHeaders and BlockPublicAcls, by the bucket as authorised.
AclAccepted(q) ==
  /\ q.b.ownership = "BucketOwnerEnforced" => q.acl \in {"", "bucket-owner-full-control"}
  /\ ~(q.b.block.blockAcls /\ IsPublicACL(CannedACL(q.acl, q.who, q.b.owner)))

AclOf(q) ==
  IF q.acl = "" \/ q.b.ownership = "BucketOwnerEnforced" THEN {}
  ELSE CannedACL(q.acl, q.who, q.b.owner)

\* PutObject, up to its transaction: who will own the version is decided by
\* the bucket as it is now.
ReadyToCommit(r, q) ==
  LET b == bucket[q.at[1]]
      transfers == \/ b.ownership = "BucketOwnerEnforced"
                   \/ /\ b.ownership = "BucketOwnerPreferred"
                      /\ [to |-> b.owner, may |-> "FULL_CONTROL"] \in AclOf(q)
  IN IF b = NoBucket THEN Answer(r, "NoSuchBucket")
     ELSE Step(r, [q EXCEPT !.pc = "commit", !.owner = IF transfers THEN b.owner ELSE q.who])

\* putObject
PutObject(r) ==
  LET q == req[r] IN
  /\ q.pc = "go" /\ q.op = "PutObject"
  /\ IF ~AttributesAllowed(q, q.tag # 0) THEN Answer(r, "AccessDenied")
     ELSE IF ~AclAccepted(q) THEN Answer(r, "AccessDenied")
     ELSE ReadyToCommit(r, q)
  /\ UnchangedStore

\* The transaction of PutObject, which is also that of a copy. It looks at the
\* bucket, not at the version that it replaces.
PutCommit(r) ==
  LET q == req[r] IN
  /\ q.pc = "commit"
  /\ clock < MaxClock
  /\ IF ~BucketExpected(q, bucket[q.at[1]])
     THEN Answer(r, "NoSuchBucket") /\ UnchangedStore
     ELSE /\ object' = [object EXCEPT ![q.at] =
               [seq |-> clock, home |-> bucket[q.at[1]].id, owner |-> q.owner, acl |-> AclOf(q),
                tag |-> IF q.op = "CopyObject" THEN q.got.tag ELSE q.tag]]
          /\ clock' = clock + 1
          /\ Answer(r, "written")
          /\ UNCHANGED bucket

\* DeleteObject without a version ID, in an unversioned bucket: the latest
\* version goes, whichever that is.
DeleteTx(r) ==
  LET q == req[r] IN
  IF ~BucketExpected(q, bucket[q.at[1]])
  THEN Answer(r, "NoSuchBucket") /\ UnchangedStore
  ELSE /\ object' = [object EXCEPT ![q.at] = NoObject]
       /\ Step(r, [Goto(r, "done") EXCEPT !.got = object[q.at], !.answer = "deleted"])
       /\ UNCHANGED <<bucket, clock>>

DeleteObject(r) ==
  /\ req[r].pc = "go" /\ req[r].op = "DeleteObject"
  /\ DeleteTx(r)

\* DeleteObject with the null version's ID.
DeleteVersion(r) ==
  LET q == req[r]
      o == object[q.at]
  IN /\ q.pc = "go" /\ q.op = "DeleteVersion"
     /\ IF /\ BucketExpected(q, bucket[q.at[1]])
           /\ o # NoObject /\ ~ObjectExpected(q, o)
        THEN Answer(r, "changed") /\ UnchangedStore
        ELSE DeleteTx(r)

\* deleteObjects, one of its keys: root's are deleted as they come, others'
\* are looked up and decided one by one.
DeleteObjectsKey(r) ==
  LET q == req[r]
      o == object[q.at]
  IN /\ q.pc = "each"
     /\ IF q.who = Root THEN Step(r, Goto(r, "delete"))
        ELSE IF Allowed(May(q.who, "DeleteObject", q.at, q.b, o))
             THEN Step(r, [Goto(r, "delete") EXCEPT !.o = o])
        ELSE Answer(r, "AccessDenied")
     /\ UnchangedStore

DeleteObjectsDelete(r) == req[r].pc = "delete" /\ DeleteTx(r)

\* updateVersion
UpdateVersion(r, o) ==
  LET q == req[r] IN
  IF ~BucketExpected(q, bucket[q.at[1]]) THEN Answer(r, "NoSuchBucket") /\ UnchangedStore
  ELSE IF object[q.at] = NoObject THEN Answer(r, "NoSuchKey") /\ UnchangedStore
  ELSE IF ~ObjectExpected(q, object[q.at]) THEN Answer(r, "changed") /\ UnchangedStore
  ELSE /\ object' = [object EXCEPT ![q.at] = o]
       /\ Step(r, [Goto(r, "done") EXCEPT !.got = object[q.at], !.answer = "updated"])
       /\ UNCHANGED <<bucket, clock>>

PutObjectTagging(r) ==
  /\ req[r].pc = "go" /\ req[r].op = "PutObjectTagging"
  /\ UpdateVersion(r, [object[req[r].at] EXCEPT !.tag = req[r].tag])

\* putObjectACL and restoreObject look the version up, decide again if it is
\* another one, and from then on expect that one.
LookUp(r) ==
  LET q == req[r]
      o == object[q.at]
      refused == q.op = "PutObjectAcl" /\ q.b.ownership = "BucketOwnerEnforced"
  IN /\ q.pc = "go" /\ q.op \in Looks
     /\ IF refused THEN Answer(r, IF q.acl = "bucket-owner-full-control" THEN "ok" ELSE "NotSupported")
        ELSE IF Stat(q.at) # "found" THEN Answer(r, Stat(q.at))
        ELSE IF ~Reauthorized(q, o) THEN Answer(r, "AccessDenied")
        ELSE IF q.op = "PutObjectAcl" /\ ~AclAccepted(q) THEN Answer(r, "AccessDenied")
        ELSE Step(r, [Goto(r, "update") EXCEPT !.o = IF q.o.seq = o.seq THEN q.o ELSE o])
     /\ UnchangedStore

UpdateLooked(r) ==
  /\ req[r].pc = "update"
  /\ UpdateVersion(r, IF req[r].op = "PutObjectAcl"
                      THEN [object[req[r].at] EXCEPT !.acl = AclOf(req[r])]
                      ELSE object[req[r].at])

-----------------------------------------------------------------------------
(* Copying: the destination is authorised like a put; then the source. *)

CopySourceBucket(r) ==
  LET q == req[r] IN
  /\ q.pc = "go" /\ q.op = "CopyObject"
  /\ IF bucket[q.from[1]] = NoBucket THEN Answer(r, "NoSuchBucket")
     ELSE Step(r, [Goto(r, "source") EXCEPT !.sb = bucket[q.from[1]]])
  /\ UnchangedStore

\* Tags copied from the source need the permission to set them.
CopySourceObject(r) ==
  LET q == req[r]
      so == object[q.from]
  IN /\ q.pc = "source"
     /\ IF \/ ~Allowed(May(q.who, "GetObject", q.from, q.sb, so))
           \/ ~AttributesAllowed(q, so.tag # 0)
           \/ ~AclAccepted(q)
        THEN Answer(r, "AccessDenied")
        ELSE Step(r, [Goto(r, "read") EXCEPT !.so = so])
     /\ UnchangedStore

\* CopyObject: the source is read first ...
CopyRead(r) ==
  LET q == req[r] IN
  /\ q.pc = "read"
  /\ IF Stat(q.from) # "found" THEN Answer(r, Stat(q.from))
     ELSE Step(r, [Goto(r, "check") EXCEPT !.got = object[q.from]])
  /\ UnchangedStore

\* Mutant: the source's version is not compared.
SourceBucketExpected(q, b) == b # NoBucket /\ b.id = q.sb.id

\* sourceExpected
SourceExpected(q, b) ==
  /\ b # NoBucket /\ b.id = q.sb.id
  /\ q.so = NoObject \/ q.so.seq = q.got.seq

\* ... and its bucket compared afterwards, so that a version of another bucket
\* of the name cannot slip in between.
CopyCheck(r) ==
  LET q == req[r] IN
  /\ q.pc = "check"
  /\ IF ~SourceExpected(q, bucket[q.from[1]]) THEN Answer(r, "changed")
     ELSE ReadyToCommit(r, q)
  /\ UnchangedStore

-----------------------------------------------------------------------------
(* Other requests, of which only the transaction counts here. *)

CreateBucket(n, owner) ==
  /\ bucket[n] = NoBucket /\ clock < MaxClock
  /\ bucket' = [bucket EXCEPT ![n] = NewBucket(clock, owner)]
  /\ clock' = clock + 1
  /\ UNCHANGED <<object, req>>

DeleteBucket(n) ==
  /\ bucket[n] # NoBucket
  /\ \A k \in Keys : object[n, k] = NoObject
  /\ bucket' = [bucket EXCEPT ![n] = NoBucket]
  /\ UNCHANGED <<object, req, clock>>

\* UpdateBucket
UpdateBucket(n, b) ==
  /\ bucket[n] # NoBucket
  /\ bucket' = [bucket EXCEPT ![n] = b]
  /\ UNCHANGED <<object, req, clock>>

OtherPut(p, who, acl, tag) ==
  /\ bucket[p[1]] # NoBucket /\ clock < MaxClock
  /\ object' = [object EXCEPT ![p] = Version(clock, bucket[p[1]], who, acl, tag)]
  /\ clock' = clock + 1
  /\ UNCHANGED <<bucket, req>>

OtherDelete(p) ==
  /\ object[p] # NoObject
  /\ object' = [object EXCEPT ![p] = NoObject]
  /\ UNCHANGED <<bucket, req, clock>>

OtherRetag(p, tag) ==
  /\ object[p] # NoObject /\ object[p].tag # tag
  /\ object' = [object EXCEPT ![p].tag = tag]
  /\ UNCHANGED <<bucket, req, clock>>

Others ==
  \/ \E n \in Buckets :
       \/ \E owner \in Users : CreateBucket(n, owner)
       \/ DeleteBucket(n)
       \/ \E doc \in Policies : UpdateBucket(n, [bucket[n] EXCEPT !.policy = doc])
       \/ \E bl \in Blocks : UpdateBucket(n, [bucket[n] EXCEPT !.block = bl])
       \/ \E own \in Ownership : UpdateBucket(n, [bucket[n] EXCEPT !.ownership = own])
  \/ \E p \in Places :
       \/ \E who \in Users, acl \in Acls, tag \in Tags : OtherPut(p, who, acl, tag)
       \/ OtherDelete(p)
       \/ \E tag \in Tags : OtherRetag(p, tag)

ANext ==
  \/ \E r \in Reqs :
       \/ /\ req[r].pc = "idle"
          /\ \E op \in Ops, who \in Callers, at, from \in Places, acl \in Acls, tag \in Tags :
               Begin(r, op, who, at, from, acl, tag)
       \/ AuthorizeBucket(r)
       \/ AuthorizeObject(r)
       \/ ServeObject(r)
       \/ PutObject(r)
       \/ PutCommit(r)
       \/ DeleteObject(r)
       \/ DeleteVersion(r)
       \/ DeleteObjectsKey(r)
       \/ DeleteObjectsDelete(r)
       \/ PutObjectTagging(r)
       \/ LookUp(r)
       \/ UpdateLooked(r)
       \/ CopySourceBucket(r)
       \/ CopySourceObject(r)
       \/ CopyRead(r)
       \/ CopyCheck(r)
  \/ Others

ASpec == AInit /\ [][ANext]_avars

-----------------------------------------------------------------------------
(* Properties *)

\* The request's decision would admit the version, as it was when the request
\* was authorised or as it was when it was acted upon.
Admitted(q) ==
  \E o \in {q.o, q.got} :
    o.seq = q.got.seq /\ Allowed(May(q.who, ActionOf[q.op], q.at, q.b, o))

\* Nobody is handed a version, or changes one, that he may not: what getObject
\* and its like serve is a version that the bucket record they were authorised
\* with lets the caller read, by that version's own owner, ACL and tags and not
\* by those of one that was replaced in the meantime; and the tags, the ACL or
\* the restore date of a version change, and a version that was named is
\* deleted, in the bucket that was authorised only, and for a caller that may do
\* this to that very version, unless there was none when he was authorised.
ActedAsDecided ==
  \A r \in Reqs :
    LET q == req[r] IN
    /\ q.answer = "served" => Admitted(q)
    /\ q.answer = "updated" \/ (q.op = "DeleteVersion" /\ q.answer = "deleted" /\ q.got # NoObject) =>
         /\ q.got.home = q.b.id
         /\ q.o = NoObject \/ Admitted(q)

\* A copy that goes on to write takes its bytes from the bucket, and from the
\* version if there was one, that its source authorisation was about, although
\* copyObject lets go of both before CopyObject reads them.
CopiedAsDecided ==
  \A r \in Reqs :
    LET q == req[r] IN
    q.op = "CopyObject" /\ (q.pc = "commit" \/ q.answer = "written") =>
      /\ q.got.home = q.sb.id
      /\ q.so # NoObject => q.got.seq = q.so.seq
      /\ Allowed(May(q.who, "GetObject", q.from, q.sb, q.so))
=============================================================================
