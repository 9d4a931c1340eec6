---------------------------- MODULE BucketConfig ----------------------------
(***************************************************************************)
(* Configuring a bucket, over the S3 API (s3api/bucket.go) and in the       *)
(* console (console/buckets.go), both over object/service.go.  A request    *)
(* reads the bucket's record, is decided and checked by what it read, and   *)
(* later changes the record in a transaction of its own, while other        *)
(* requests configure, delete and recreate the bucket.                      *)
(*                                                                         *)
(* Abstracted: one bucket name, empty of objects; a configuration document  *)
(* is None, Malformed or one value; the bucket that logs go to is the bucket *)
(* itself.                                                                  *)
(***************************************************************************)
EXTENDS Policy, FiniteSets

CONSTANTS
  ConfReqs,   \* requests in flight
  ConfDocs,   \* bucket policies that are put
  ConfAcls,   \* canned ACLs that are put
  ConfBlocks, \* public access block settings that are put
  NamedIds,   \* IDs of metrics configurations and the like
  NamedLimit, \* how many of them a bucket may have: 1000 in the code
  MaxConf,    \* bound: requests in a behaviour
  MaxCreated, \* bound: buckets created in a behaviour
  Addresses   \* where anonymous requests come from

ASSUME ConfAssumption == NamedLimit \in Nat /\ MaxConf \in Nat /\ MaxCreated \in Nat

ASSUME DocumentsAssumption ==
  \A doc \in ConfDocs : \A st \in doc :
    /\ st.effect \in {"Allow", "Deny"}
    /\ \A c \in st.conditions : c.set \in {"", "ForAnyValue", "ForAllValues"}

VARIABLES
  conf,      \* the bucket's record, or NoConf
  creq,      \* what each request has read and where it stands
  created,   \* buckets created so far
  started,   \* requests started so far
  confirmed  \* history: the last policy put over S3 had the confirming header

cvars == <<conf, creq, created, started, confirmed>>

None == "none"
Malformed == "malformed"
Docs == {None, "document", Malformed}
Ownerships == {"", "BucketOwnerEnforced", "BucketOwnerPreferred", "ObjectWriter"}
Unblocked == [blockAcls |-> FALSE, blockPolicy |-> FALSE, ignoreAcls |-> FALSE, restrict |-> FALSE]

OwnerOnly(owner) == {[to |-> owner, may |-> "FULL_CONTROL"]}

\* createBucket and CreateBucket
NewConf(id, owner, lock, ownership, acl) ==
  [id |-> id, owner |-> owner, ownership |-> ownership,
   acl |-> IF acl = "" \/ ownership = "BucketOwnerEnforced" THEN OwnerOnly(owner)
           ELSE CannedACL(acl, owner, owner),
   lockEnabled |-> lock, versioning |-> IF lock THEN "Enabled" ELSE "",
   policy |-> {}, selfLock |-> FALSE, block |-> Unblocked, lock |-> None, tags |-> None,
   cors |-> None, lifecycle |-> None, encryption |-> None, notification |-> None,
   website |-> None, logging |-> None, replication |-> None, accelerate |-> None,
   payment |-> None, named |-> {}]

NoConf == [NewConf(0, Nobody, FALSE, "", "") EXCEPT !.acl = {}]

-----------------------------------------------------------------------------
(* What each handler does to the record, inside UpdateBucket; Refusal when  *)
(* it answers with an error there.  None deletes.                           *)

Refusal == [NoConf EXCEPT !.id = -1]

PutBucketVersioning(b, v) ==
  IF b.lockEnabled /\ v = "Suspended" THEN Refusal ELSE [b EXCEPT !.versioning = v]

PutBucketTagging(b, v) == [b EXCEPT !.tags = v]

\* Mutant: the confirmation of an earlier policy stays.
PutBucketPolicySticky(b, v) ==
  [b EXCEPT !.policy = v.doc, !.selfLock = @ \/ v.confirm]

PutBucketPolicy(b, v) == [b EXCEPT !.policy = v.doc, !.selfLock = v.confirm]

\* The console's putPolicy: an earlier confirmation stays.
PutPolicy(b, v) == [b EXCEPT !.policy = v.doc]

DeleteBucketPolicy(b) == [b EXCEPT !.policy = {}]

PutBucketACL(b, v) == [b EXCEPT !.acl = v]

PutBucketCORS(b, v) == [b EXCEPT !.cors = v]
PutBucketLifecycle(b, v) == [b EXCEPT !.lifecycle = v]
PutBucketEncryption(b, v) == [b EXCEPT !.encryption = v]

\* AWS lets object lock be turned on when versioning is.
PutObjectLockConfig(b, v) ==
  IF ~b.lockEnabled /\ b.versioning # "Enabled" THEN Refusal
  ELSE [b EXCEPT !.lockEnabled = TRUE, !.lock = v]

\* A document without targets is stored as none; so is a logging status
\* without a target.
PutBucketNotification(b, v) == [b EXCEPT !.notification = v]
PutBucketLogging(b, v) == [b EXCEPT !.logging = v]

PutBucketWebsite(b, v) == [b EXCEPT !.website = v]
PutBucketReplication(b, v) == [b EXCEPT !.replication = v]
PutPublicAccessBlock(b, v) == [b EXCEPT !.block = v]
PutOwnershipControls(b, v) == [b EXCEPT !.ownership = v]
PutBucketAccelerate(b, v) == [b EXCEPT !.accelerate = v]
PutBucketRequestPayment(b, v) == [b EXCEPT !.payment = v]

PutNamedConfig(b, v) ==
  IF Cardinality(b.named) >= NamedLimit THEN Refusal
  ELSE [b EXCEPT !.named = @ \cup {v}]

DeleteNamedConfig(b, v) ==
  IF v \notin b.named THEN Refusal ELSE [b EXCEPT !.named = @ \ {v}]

-----------------------------------------------------------------------------
(* The operations: routeBucket's table and the console's, and the fields    *)
(* they may change.                                                         *)

ActionFor ==
  [versioning |-> "PutBucketVersioning", tags |-> "PutBucketTagging",
   policy |-> "PutBucketPolicy", putPolicy |-> "PutBucketPolicy",
   nopolicy |-> "DeleteBucketPolicy", acl |-> "PutBucketAcl",
   cors |-> "PutBucketCORS", lifecycle |-> "PutLifecycleConfiguration",
   encryption |-> "PutEncryptionConfiguration", lock |-> "PutBucketObjectLockConfiguration",
   notification |-> "PutBucketNotification", logging |-> "PutBucketLogging",
   website |-> "PutBucketWebsite", replication |-> "PutReplicationConfiguration",
   block |-> "PutBucketPublicAccessBlock", ownership |-> "PutBucketOwnershipControls",
   accelerate |-> "PutAccelerateConfiguration", payment |-> "PutBucketRequestPayment",
   named |-> "PutMetricsConfiguration", unnamed |-> "PutMetricsConfiguration",
   delete |-> "DeleteBucket"]

ConfOps == DOMAIN ActionFor

ConsoleOps == {"versioning", "tags", "encryption", "putPolicy", "nopolicy", "delete"}

Serves(via, op) == IF via = "console" THEN op \in ConsoleOps ELSE op # "putPolicy"

Changes(op) ==
  CASE op = "policy" -> {"policy", "selfLock"}
    [] op \in {"putPolicy", "nopolicy"} -> {"policy"}
    [] op = "lock" -> {"lock", "lockEnabled"}
    [] op \in {"named", "unnamed"} -> {"named"}
    [] OTHER -> {op}

Documents ==
  {"tags", "cors", "lifecycle", "encryption", "lock", "notification", "logging", "website"}

\* What a request may carry.
Inputs(op) ==
  CASE op = "versioning" -> {"Enabled", "Suspended"}
    [] op = "policy" -> [doc : ConfDocs \ {{}}, confirm : BOOLEAN]
    [] op = "putPolicy" -> [doc : ConfDocs \ {{}}]
    [] op = "acl" -> ConfAcls \ {""}
    [] op = "block" -> ConfBlocks
    [] op = "ownership" -> Ownerships
    [] op \in {"named", "unnamed"} -> NamedIds
    [] op \in {"nopolicy", "delete"} -> {None}
    [] OTHER -> Docs

\* The new record, by the operation.
Updated(op, b, v) ==
  CASE op = "versioning" -> PutBucketVersioning(b, v)
    [] op = "tags" -> PutBucketTagging(b, v)
    [] op = "policy" -> PutBucketPolicy(b, v)
    [] op = "putPolicy" -> PutPolicy(b, v)
    [] op = "nopolicy" -> DeleteBucketPolicy(b)
    [] op = "acl" -> PutBucketACL(b, v)
    [] op = "cors" -> PutBucketCORS(b, v)
    [] op = "lifecycle" -> PutBucketLifecycle(b, v)
    [] op = "encryption" -> PutBucketEncryption(b, v)
    [] op = "lock" -> PutObjectLockConfig(b, v)
    [] op = "notification" -> PutBucketNotification(b, v)
    [] op = "logging" -> PutBucketLogging(b, v)
    [] op = "website" -> PutBucketWebsite(b, v)
    [] op = "replication" -> PutBucketReplication(b, v)
    [] op = "block" -> PutPublicAccessBlock(b, v)
    [] op = "ownership" -> PutOwnershipControls(b, v)
    [] op = "accelerate" -> PutBucketAccelerate(b, v)
    [] op = "payment" -> PutBucketRequestPayment(b, v)
    [] op = "named" -> PutNamedConfig(b, v)
    [] op = "unnamed" -> DeleteNamedConfig(b, v)
    [] op = "delete" -> NoConf

-----------------------------------------------------------------------------
(* What the handlers check before the transaction, by the record they were  *)
(* authorised with.                                                         *)

\* putBucketACL: the canned ACL is built for the caller; where ACLs are off,
\* one that changes nothing is answered without a change.
CallersAcl(q) == CannedACL(q.v, q.who, q.b.owner)

\* putBucketPolicy refuses what the console takes: all but some principals
\* being allowed something.
AllowsAllBut(doc) == \E st \in doc : st.effect = "Allow" /\ st.notPrincipal # NoPrincipal

Accepted(q) ==
  CASE q.op \in {"policy", "putPolicy"} ->
         /\ q.op = "policy" => ~AllowsAllBut(q.v.doc)
         /\ ValidBucketPolicy(q.v.doc, {<<"b">>, <<"b", "k">>})
         /\ ~(q.b.block.blockPolicy /\ IsPublic(q.v.doc))
    [] q.op = "acl" ->
         /\ q.b.ownership # "BucketOwnerEnforced"
         /\ ~(q.b.block.blockAcls /\ IsPublicACL(CallersAcl(q)))
    [] q.op = "replication" -> q.v = None \/ (q.v # Malformed /\ q.b.versioning = "Enabled")
    [] q.op = "ownership" -> q.v = "BucketOwnerEnforced" => \A g \in q.b.acl : g.to = q.b.owner
    [] q.op \in {"accelerate", "payment"} -> q.v \notin {None, Malformed}
    [] q.op \in Documents -> q.v # Malformed
    [] OTHER -> TRUE

-----------------------------------------------------------------------------

IdleConf == [pc |-> "idle", via |-> "s3", op |-> "delete", who |-> Nobody, v |-> None, b |-> NoConf]

CInit ==
  /\ conf = NewConf(1, CHOOSE u \in Users : TRUE, FALSE, "ObjectWriter", "")
  /\ creq = [r \in ConfReqs |-> IdleConf]
  /\ created = 1 /\ started = 0 /\ confirmed = FALSE

\* The console does not ask whether a policy that refuses root was confirmed.
MayConfigure(b, via, who, action) ==
  LET seen == IF via = "console" THEN [b EXCEPT !.selfLock = FALSE] ELSE b IN
  Allowed(Decide(seen, NoObject, [action |-> action, resource |-> <<"b">>, caller |-> who,
                                  context |-> <<>>], {}, {}))

\* authorize (in the console loadBucket, for users with a session). A request
\* that gets no further changes nothing.
LetIn(r, via, op, who) ==
  /\ creq[r].pc = "idle" /\ started < MaxConf
  /\ conf # NoConf
  /\ Serves(via, op) /\ (via = "console" => who # Nobody)
  /\ MayConfigure(conf, via, who, ActionFor[op])

\* The handler, up to its transaction.
Configure(r, via, op, who, v) ==
  LET q == [pc |-> IF op = "logging" /\ v # None THEN "target" ELSE "update",
            via |-> via, op |-> op, who |-> who, v |-> v, b |-> conf]
  IN /\ Accepted(q)
     /\ creq' = [creq EXCEPT ![r] = IF op = "acl" THEN [q EXCEPT !.v = CallersAcl(q)] ELSE q]
     /\ started' = started + 1
     /\ UNCHANGED <<conf, created, confirmed>>

\* putBucketLogging: the bucket that logs go to exists.
LoggingTarget(r) ==
  /\ creq[r].pc = "target"
  /\ creq' = [creq EXCEPT ![r] = IF conf = NoConf THEN IdleConf ELSE [@ EXCEPT !.pc = "update"]]
  /\ UNCHANGED <<conf, created, started, confirmed>>

\* Mutant: any live bucket of the name will do.
AnyBucket(q) == conf # NoConf

\* liveBucket: a request of the console expects no bucket in particular.
LiveBucket(q) == conf # NoConf /\ (q.via = "s3" => conf.id = q.b.id)

\* Mutant: the record that was read is changed and stored.
UpdateRead(r) ==
  LET q == creq[r]
      b == Updated(q.op, q.b, q.v)
  IN /\ q.pc = "update"
     /\ IF ~LiveBucket(q) \/ b = Refusal
        THEN UNCHANGED <<conf, confirmed>>
        ELSE /\ conf' = b
             /\ confirmed' = IF q.op = "policy" THEN q.v.confirm ELSE confirmed
     /\ creq' = [creq EXCEPT ![r] = IdleConf]
     /\ UNCHANGED <<created, started>>

\* UpdateBucket; DeleteBucket, of a bucket without objects
UpdateBucketConf(r) ==
  LET q == creq[r]
      b == Updated(q.op, conf, q.v)
  IN /\ q.pc = "update"
     /\ IF ~LiveBucket(q) \/ b = Refusal
        THEN UNCHANGED <<conf, confirmed>>
        ELSE /\ conf' = b
             /\ confirmed' = IF q.op = "policy" THEN q.v.confirm ELSE confirmed
     /\ creq' = [creq EXCEPT ![r] = IdleConf]
     /\ UNCHANGED <<created, started>>

\* createBucket: with ACLs off, only an ACL that changes nothing is accepted.
CreateBucketConf(owner, lock, ownership, acl) ==
  /\ conf = NoConf /\ created < MaxCreated
  /\ ownership # ""
  /\ ownership = "BucketOwnerEnforced" => acl \in {"", "bucket-owner-full-control"}
  /\ created' = created + 1
  /\ conf' = NewConf(created + 1, owner, lock, ownership, acl)
  /\ confirmed' = FALSE
  /\ UNCHANGED <<creq, started>>

CNext ==
  \/ \E r \in ConfReqs :
       \/ \E via \in {"s3", "console"}, op \in ConfOps, who \in Callers :
            /\ LetIn(r, via, op, who)
            /\ \E v \in Inputs(op) : Configure(r, via, op, who, v)
       \/ LoggingTarget(r)
       \/ UpdateBucketConf(r)
  \/ \E owner \in Users, lock \in BOOLEAN, ownership \in Ownerships, acl \in ConfAcls :
       CreateBucketConf(owner, lock, ownership, acl)

CSpec == CInit /\ [][CNext]_cvars

-----------------------------------------------------------------------------
(* Properties *)

Stored(r) == creq[r].pc = "update" /\ creq'[r].pc = "idle" /\ conf' # conf

\* No lost update: what a handler stores differs from the record before it in
\* the fields of its own operation only, however old the record that the
\* handler was authorised with.
OwnFieldsOnly ==
  [][\A r \in ConfReqs : Stored(r) /\ conf' # NoConf =>
       \A f \in DOMAIN conf : conf'[f] # conf[f] => f \in Changes(creq[r].op)]_cvars

\* Whatever is stored or deleted over the S3 API, it is in the very bucket
\* whose record allowed the caller to, not in a later one of the same name.
\* (The console does not bind its requests to the bucket they were decided by.)
ConfiguredAsDecided ==
  [][\A r \in ConfReqs : Stored(r) /\ creq[r].via = "s3" => conf.id = creq[r].b.id]_cvars

\* The root account never loses the policy of a live bucket: whatever the
\* policy denies, root may read, replace and delete it in the console, and over
\* the S3 API unless the last policy put there came with the confirmation that
\* this is wanted. (A policy put in the console later does not undo that
\* confirmation: it binds root over the S3 API without one of its own.)
RootNotLockedOut ==
  conf # NoConf =>
    \A via \in {"s3", "console"}, action \in PolicyActions :
      via = "console" \/ ~confirmed => MayConfigure(conf, via, Root, action)

\* getBucketPolicyStatus
PolicyStatus(b) ==
  \/ IsPublic(b.policy) /\ ~b.block.restrict
  \/ b.ownership # "BucketOwnerEnforced" /\ IsPublicACL(b.acl) /\ ~b.block.ignoreAcls

\* What IsPublic overlooks: a statement for all but some principals, and a
\* condition that it takes for a limit but that anonymous requests satisfy,
\* because it holds of requests without its key or asks for their type.
Overlooked(doc) ==
  \/ AllowsAllBut(doc)
  \/ \E st \in doc : \E c \in st.conditions :
       /\ st.effect = "Allow" /\ c.key \in LimitingKeys
       /\ \/ c.ifExists \/ c.set = "ForAllValues"
          \/ c.key = "principaltype" /\ \E w \in c.want : Anonymous \in w

\* The addresses that some condition of a policy names.
NamedBy(doc) ==
  UNION {UNION c.want : c \in UNION {{x \in st.conditions : x.key = "sourceip"} : st \in doc}}

\* A bucket that is not reported as public is closed to strangers: an
\* anonymous request from an address that its policy does not name is allowed
\* nothing, by policy or by the bucket's ACL. (Excepted are the policies whose
\* limits IsPublic takes at face value, see Overlooked; and a policy that names
\* a range of all addresses knows no strangers.)
ClosedUnlessPublic ==
  conf # NoConf /\ ~PolicyStatus(conf) /\ ~Overlooked(conf.policy) =>
    \A ip \in Addresses \ NamedBy(conf.policy),
       action \in {"ListBucket", "GetObject", "PutObject", "DeleteObject", "PutBucketPolicy"},
       resource \in {<<"b">>, <<"b", "k">>} :
      ~Allowed(Decide(conf, NoObject, [action |-> action, resource |-> resource,
                        caller |-> Nobody, context |-> [sourceip |-> <<ip>>]], {}, {}))
=============================================================================
