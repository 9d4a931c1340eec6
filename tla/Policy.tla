------------------------------- MODULE Policy -------------------------------
(***************************************************************************)
(* How a request is decided: policy documents (internal/policy), ACLs      *)
(* (s3api/acl.go) and the order in which they are asked (iam/authz.go).     *)
(*                                                                         *)
(* Abstracted: a list of patterns is the set of names it matches (Glob      *)
(* models the matcher itself), the empty set standing for an absent list;   *)
(* policy variables are replaced already.  A condition value is a number,   *)
(* Bad one that its operator cannot parse, and a wanted value is the set of *)
(* request values it covers. Of what a request says about its caller only   *)
(* the type of principal is told apart.                                     *)
(***************************************************************************)
EXTENDS Integers, Sequences

CONSTANTS
  Users,  \* callers with an access key, root apart
  Root,   \* the root account
  Nobody  \* an anonymous caller

ASSUME PolicyAssumption == Root # Nobody /\ {Root, Nobody} \cap Users = {}

Callers == Users \cup {Root, Nobody}

Bad == -1
True == 1

NoPrincipal == [all |-> FALSE, who |-> {}, absent |-> TRUE]
Everyone == [all |-> TRUE, who |-> {}, absent |-> FALSE]
These(S) == [all |-> FALSE, who |-> S, absent |-> FALSE]

-----------------------------------------------------------------------------
(* Conditions *)

\* anyOf over the wanted values, for one relation of an operator family.
Hits(family, rel, have, want) ==
  \E w \in want :
    CASE rel \in {"eq", "ne"} ->
           have \in w /\ (family \in {"Numeric", "Date", "Ip", "Arn"} => have # Bad)
      [] rel = "lt" -> \E x \in w \ {Bad} : have < x
      [] rel = "le" -> \E x \in w \ {Bad} : have <= x
      [] rel = "gt" -> \E x \in w \ {Bad} : have > x
      [] OTHER -> \E x \in w \ {Bad} : have >= x

\* matchOne: a number or a date that does not parse matches no operator, the
\* negated ones included.
MatchOne(c, have) ==
  /\ c.family \in {"Numeric", "Date"} => have # Bad
  /\ (c.rel # "ne") = Hits(c.family, c.rel, have, c.want)

\* evalCondition, for one operator and one key; context holds the values the
\* request has.
EvalCondition(c, context) ==
  LET present == c.key \in DOMAIN context /\ context[c.key] # <<>>
      have == context[c.key]
  IN IF c.family = "Null" THEN present # ({True} \in c.want)
     ELSE IF ~present THEN c.ifExists \/ c.set = "ForAllValues" \/ (c.set = "" /\ c.rel = "ne")
     ELSE CASE c.set = "ForAllValues" -> \A i \in DOMAIN have : MatchOne(c, have[i])
            [] c.set = "ForAnyValue" -> \E i \in DOMAIN have : MatchOne(c, have[i])
            [] c.set = "" -> MatchOne(c, have[1])

-----------------------------------------------------------------------------
(* Documents: a document is a set of statements. *)

MatchesPrincipal(p, caller) == p.all \/ (caller # Nobody /\ caller \in p.who)

\* Statement.matches; a = [action, resource, caller, context].
MatchesStatement(st, a) ==
  /\ st.principal # NoPrincipal => MatchesPrincipal(st.principal, a.caller)
  /\ st.notPrincipal # NoPrincipal => ~MatchesPrincipal(st.notPrincipal, a.caller)
  /\ st.actions # {} => a.action \in st.actions
  /\ st.notActions # {} => a.action \notin st.notActions
  /\ st.resources # {} => a.resource \in st.resources
  /\ st.notResources # {} => a.resource \notin st.notResources
  /\ \A c \in st.conditions : EvalCondition(c, a.context)

\* Evaluate
Evaluate(doc, a) ==
  LET hit == {st \in doc : MatchesStatement(st, a)} IN
  IF \E st \in hit : st.effect = "Deny" THEN "Denied"
  ELSE IF hit # {} THEN "Allowed" ELSE "NoMatch"

\* Condition keys that IsPublic takes to tie a statement to somebody:
\* aws:SourceIp, aws:PrincipalType, and those like aws:userid that an anonymous
\* request does not have.
LimitingKeys == {"sourceip", "principaltype", "userid"}

\* Mutant: any condition makes a statement one that is not public.
IsPublicUnconditional(doc) ==
  \E st \in doc : st.effect = "Allow" /\ st.principal.all /\ st.conditions = {}

\* IsPublic
IsPublic(doc) ==
  \E st \in doc :
    /\ st.effect = "Allow" /\ st.principal.all
    /\ \A c \in st.conditions :
         ~(c.rel = "eq" /\ c.family # "Null" /\ c.key \in LimitingKeys)

\* parseStatement and, for a bucket, ValidateBucketPolicy: what a document needs
\* before it is stored.
ValidBucketPolicy(doc, resources) ==
  \A st \in doc :
    /\ st.actions \cup st.notActions # {}
    /\ st.resources \cup st.notResources # {}
    /\ st.principal # NoPrincipal \/ st.notPrincipal # NoPrincipal
    /\ st.resources \cup st.notResources \subseteq resources

-----------------------------------------------------------------------------
(* ACLs: a set of grants [to, may]; to is a caller or one of the groups. *)

AllUsers == "AllUsers"
AuthenticatedUsers == "AuthenticatedUsers"

\* cannedACL
CannedACL(name, owner, bucketOwner) ==
  {[to |-> owner, may |-> "FULL_CONTROL"]} \cup
    CASE name = "public-read" -> {[to |-> AllUsers, may |-> "READ"]}
      [] name = "public-read-write" ->
           {[to |-> AllUsers, may |-> "READ"], [to |-> AllUsers, may |-> "WRITE"]}
      [] name = "authenticated-read" -> {[to |-> AuthenticatedUsers, may |-> "READ"]}
      [] name = "bucket-owner-read" -> {[to |-> bucketOwner, may |-> "READ"]}
      [] name = "bucket-owner-full-control" -> {[to |-> bucketOwner, may |-> "FULL_CONTROL"]}
      [] OTHER -> {}

\* isPublicACL
IsPublicACL(acl) == \E g \in acl : g.to \in {AllUsers, AuthenticatedUsers}

\* The permission an action needs, and whose ACL is asked for it.
BucketPermission ==
  [ListBucket |-> "READ", PutObject |-> "WRITE", DeleteObject |-> "WRITE",
   DeleteObjectVersion |-> "WRITE", GetBucketAcl |-> "READ_ACP", PutBucketAcl |-> "WRITE_ACP"]
ObjectPermission ==
  [GetObject |-> "READ", GetObjectTagging |-> "READ", GetObjectLegalHold |-> "READ",
   GetObjectAcl |-> "READ_ACP", PutObjectAcl |-> "WRITE_ACP"]

\* aclAllows: b is the bucket's record and o the object's, or NoObject.
NoObject == [seq |-> 0, home |-> 0, owner |-> Nobody, acl |-> {}, tag |-> 0]

Granted(acl, owner, caller, may, block) ==
  \/ caller # Nobody /\ owner = caller
  \/ \E g \in acl :
       /\ \/ g.to = AllUsers /\ ~block.ignoreAcls
          \/ g.to = AuthenticatedUsers /\ caller # Nobody /\ ~block.ignoreAcls
          \/ g.to = caller /\ caller # Nobody
       /\ g.may \in {"FULL_CONTROL", may}

AclAllows(b, o, caller, action) ==
  LET isOwner == caller # Nobody /\ caller = b.owner IN
  IF b.ownership = "BucketOwnerEnforced" THEN isOwner
  ELSE IF action \in DOMAIN BucketPermission
       THEN Granted(b.acl, b.owner, caller, BucketPermission[action], b.block)
  ELSE IF action \in DOMAIN ObjectPermission
       THEN Granted(o.acl, o.owner, caller, ObjectPermission[action], b.block)
  ELSE isOwner

-----------------------------------------------------------------------------
(* The decision *)

\* What the variables of a request say of its caller's type: Anonymous, Account
\* or User. They are condition keys, too.
Anonymous == 1
PrincipalType(caller) == IF caller = Nobody THEN Anonymous ELSE IF caller = Root THEN 2 ELSE 3

WithVars(context, caller) ==
  [key \in DOMAIN context \cup {"principaltype"} |->
     IF key \in DOMAIN context THEN context[key] ELSE <<PrincipalType(caller)>>]

PolicyActions == {"PutBucketPolicy", "DeleteBucketPolicy", "GetBucketPolicy"}

\* Decide: identity and session are the documents of the caller's identity.
\* S3 actions only; administrative ones are decided by the identity's alone.
Decide(b, o, a, identity, session) ==
  LET args == [a EXCEPT !.context = WithVars(@, a.caller)]
      skip == a.caller = Nobody /\ b.block.restrict /\ IsPublic(b.policy)
      bp == IF b.policy = {} \/ skip THEN "NoMatch" ELSE Evaluate(b.policy, args)
      verdicts == {Evaluate(doc, args) : doc \in identity}
      escapes == a.caller = Root /\ ~b.selfLock /\ a.action \in PolicyActions
      filtered == "Denied" \in verdicts \/ \E doc \in session : Evaluate(doc, args) # "Allowed"
  IN IF bp = "Denied" THEN (IF escapes THEN "ByPolicy" ELSE "Refused")
     ELSE IF a.caller = Root THEN "ByPolicy"
     ELSE IF filtered THEN "Refused"
     ELSE IF "Allowed" \in verdicts \cup {bp} THEN "ByPolicy"
     ELSE IF AclAllows(b, o, a.caller, a.action) THEN "ByACL" ELSE "NoGrant"

Allowed(grant) == grant \in {"ByPolicy", "ByACL"}
=============================================================================
