----------------------------- MODULE MCRequests -----------------------------
(* The S3 server, side by side: object requests from authorisation to       *)
(* effect, the configuration of a bucket, listings in pages, the policies'  *)
(* wildcard matcher, the TLS certificate, the reading of an object. They     *)
(* share no state here: each behaviour is one of them.                      *)
EXTENDS Access, BucketConfig, Listing, Glob, CertReload, MCObjectRead, TLC

VARIABLE side

sides == <<side, avars, cvars, lvars, gvars, tvars, ovars>>

-----------------------------------------------------------------------------
(* Policies, about everyone and everything in the bucket. *)

Statement(effect, actions, resources, conditions) ==
  [effect |-> effect, principal |-> Everyone, notPrincipal |-> NoPrincipal,
   actions |-> actions, notActions |-> {}, resources |-> resources, notResources |-> {},
   conditions |-> conditions]

If(rel, key, ifExists) ==
  [family |-> "String", rel |-> rel, set |-> "", ifExists |-> ifExists, key |-> key, want |-> {{1}}]

\* Objects are open to everyone, unless they are tagged.
MCPolicies ==
  {{}, {Statement("Allow", {ActionOf[op] : op \in Ops}, Places \cup {<<n>> : n \in Buckets},
                  {If("ne", "existingtag", FALSE)})}}

MCBlocks == {NoBlock}

MCNoPolicies == [c \in Callers |-> {}]

\* All that concerns a bucket that exists.
About(effect, conditions) ==
  {[Statement(effect, {}, {<<"b">>, <<"b", "k">>}, conditions) EXCEPT !.notActions = {"CreateBucket"}]}

DenyAll == About("Deny", {})

\* A policy that denies all; one open to everyone, but for tagged objects; one
\* for an address; one that names anonymous requests; one for all but a user.
MCDocs ==
  {DenyAll, About("Allow", {If("ne", "existingtag", FALSE)}),
   About("Allow", {If("eq", "sourceip", FALSE)}), About("Allow", {If("eq", "principaltype", FALSE)}),
   {[st EXCEPT !.principal = NoPrincipal, !.notPrincipal = These(Users)] : st \in About("Allow", {})}}

MCConfBlocks ==
  {Unblocked, [Unblocked EXCEPT !.ignoreAcls = TRUE, !.restrict = TRUE],
   [Unblocked EXCEPT !.blockAcls = TRUE, !.blockPolicy = TRUE]}

\* "a/", "a/a", "b"
MCListKeys == {<<2, Slash>>, <<2, Slash, 2>>, <<3>>}
MCPrefixes == {<<>>, <<2, Slash>>}

-----------------------------------------------------------------------------
(* One request, for an object of "b", perhaps copied from "c". Others work on *)
(* the bucket its object comes from, while it runs and as long as it can     *)
(* still write. The other bucket has neither a policy nor an object at first. *)

Plain(n) == bucket[n] = NewBucket(1, bucket[n].owner) /\ \A k \in Keys : object[n, k] = NoObject

Touched == {n \in Buckets : bucket'[n] # bucket[n] \/ \E k \in Keys : object'[n, k] # object[n, k]}

AccessNext ==
  /\ ANext
  /\ req' = req =>
       /\ clock' < MaxClock
       /\ \E r \in Reqs : req[r].pc \notin {"idle", "done"} /\ Touched \subseteq {req[r].from[1]}
  /\ \A r \in Reqs : req'[r].pc = "bucket" =>
       /\ req'[r].at[1] = "b"
       /\ \A n \in Buckets \ {req'[r].from[1]} : Plain(n)
       /\ req'[r].who = Root => req'[r].op = "DeleteObjects"

\* What authorisation depends on.
Deciding == {"policy", "putPolicy", "nopolicy", "acl", "block", "ownership", "delete"}

\* Documents like tags, that no other handler reads.
Unread == {"cors", "lifecycle", "encryption", "notification", "website", "accelerate", "payment"}

\* Root replaces policies; the bucket's owner and whoever its policy allows it
\* may do that and the rest; what denies is confirmed or not. Documents that
\* nobody reads are changed by the first request only, and the last one changes
\* what authorisation depends on. Of what the console does, only policies and
\* the bucket's removal come later.
ConfigNext ==
  /\ CNext
  /\ \A r \in ConfReqs :
       LET q == creq'[r] IN
       /\ q.who = Root => q.op \in {"policy", "putPolicy", "nopolicy"}
       /\ q.op = "policy" => (q.v.confirm => q.v.doc = DenyAll)
       /\ creq[r].pc = "idle" /\ q.pc # "idle" =>
            /\ started' > 1 => q.op \notin Unread /\ (q.via = "s3" \/ q.op \in Deciding)
            /\ started' = MaxConf => q.op \in Deciding

MCConfSymmetry == Permutations(ConfReqs)

-----------------------------------------------------------------------------

AccessOff ==
  /\ bucket = [n \in Buckets |-> NoBucket] /\ object = [p \in Places |-> NoObject]
  /\ req = [r \in Reqs |-> Idle] /\ clock = 2

ConfigOff ==
  /\ conf = NoConf /\ creq = [r \in ConfReqs |-> IdleConf]
  /\ created = MaxCreated /\ started = MaxConf /\ confirmed = FALSE

ListingOff ==
  /\ records = {} /\ uploads = {} /\ changes = 0
  /\ pager = NoListing
  /\ stayed = {} /\ moved = {}
GlobOff ==
  /\ pattern = <<>> /\ text = <<>> /\ px = 0 /\ sx = 0 /\ starP = -1 /\ starS = -1
  /\ verdict = "none"

CertOff ==
  /\ source = "files" /\ certFile = NoFile /\ keyFile = NoFile /\ writes = 0 /\ issued = 0
  /\ expired = {} /\ cur = NoCert /\ loader = IdleLoader /\ torn = FALSE /\ deaths = 0

ReadOff ==
  /\ parts = <<>> /\ encrypted = FALSE /\ named = {} /\ length = <<>> /\ asked = WholeObject
  /\ rd = NoReader /\ given = <<>> /\ dst = NoBytes /\ stopped = 0

RequestsInit ==
  \/ /\ side = "access" /\ AInit /\ (Plain("b") \/ Plain("c"))
     /\ ConfigOff /\ ListingOff /\ GlobOff /\ CertOff /\ ReadOff
  \/ side = "config" /\ AccessOff /\ CInit /\ ListingOff /\ GlobOff /\ CertOff /\ ReadOff
  \/ side = "listing" /\ AccessOff /\ ConfigOff /\ LInit /\ GlobOff /\ CertOff /\ ReadOff
  \/ side = "glob" /\ AccessOff /\ ConfigOff /\ ListingOff /\ GInit /\ CertOff /\ ReadOff
  \/ side = "cert" /\ AccessOff /\ ConfigOff /\ ListingOff /\ GlobOff /\ TInit /\ ReadOff
  \/ side = "read" /\ AccessOff /\ ConfigOff /\ ListingOff /\ GlobOff /\ CertOff /\ OInit

RequestsNext ==
  \/ side = "access" /\ AccessNext /\ UNCHANGED <<side, cvars, lvars, gvars, tvars, ovars>>
  \/ side = "config" /\ ConfigNext /\ UNCHANGED <<side, avars, lvars, gvars, tvars, ovars>>
  \/ side = "listing" /\ LNext /\ UNCHANGED <<side, avars, cvars, gvars, tvars, ovars>>
  \/ side = "glob" /\ GNext /\ UNCHANGED <<side, avars, cvars, lvars, tvars, ovars>>
  \/ side = "cert" /\ TNext /\ UNCHANGED <<side, avars, cvars, lvars, gvars, ovars>>
  \/ side = "read" /\ ONext /\ UNCHANGED <<side, avars, cvars, lvars, gvars, tvars>>

RequestsSpec == RequestsInit /\ [][RequestsNext]_sides

\* Listings alone.
ListingSpec ==
  /\ side = "listing" /\ AccessOff /\ ConfigOff /\ LInit /\ GlobOff /\ CertOff /\ ReadOff
  /\ [][RequestsNext]_sides
=============================================================================
