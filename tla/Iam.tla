-------------------------------- MODULE Iam --------------------------------
(***************************************************************************)
(* The identity store (internal/iam) and the handlers of the IAM, admin,   *)
(* STS and console APIs that change it. Every method of the store is one   *)
(* transaction; a request resolves its identity in an earlier one and goes *)
(* on with that copy, while other requests change or delete what it was    *)
(* made of.                                                                *)
(*                                                                         *)
(* Abstracted: secrets and passwords (a key or a password can be used by   *)
(* whoever was given it); a policy document, and a session policy, is what *)
(* it says about administrative actions; times of expiry, which are later, *)
(* past, or past by an hour. The checks the IAM API makes before it        *)
(* deletes are left out, because the admin API deletes without them.       *)
(***************************************************************************)
EXTENDS Naturals, FiniteSets, SequencesExt, TLC

CONSTANTS
  Names,       \* user names
  Groups,
  PolicyNames, \* names of policies clients store
  Sessions,    \* session policies
  Permitting,  \* the session policies that allow administrative actions
  None,        \* no session policy
  Reqs,        \* concurrent requests
  MaxKeys,     \* bound: access keys generated
  MaxOps       \* bound: operations

ASSUME IamAssumption ==
  /\ Permitting \subseteq Sessions /\ None \notin Sessions
  /\ MaxKeys \in Nat /\ MaxOps \in Nat
  /\ "root" \notin Names                \* CreateUser refuses the name
  /\ "consoleAdmin" \notin PolicyNames  \* PutPolicy and DeletePolicy refuse the built-in ones
  /\ Names \cap 1..MaxKeys = {}         \* no name is a generated access key

VARIABLES
  users, groups, policies, keys,  \* the namespaces i/u/, i/g/, i/p/ and i/k/
  req,    \* what each request is doing
  made,   \* access keys generated so far
  ops     \* operations so far

vars == <<users, groups, policies, keys, req, made, ops>>

Admin == "consoleAdmin"
Users == Names \cup {"root"}
Policies == PolicyNames \cup {Admin}
KeyIds == Names \cup 1..MaxKeys
Docs == {"Allow", "Deny"}

\* born, in a user, is history: which of the users of that name it is; in a
\* key, which of them had the name when the key was stored.
\* from, in a key, a password and an identity, is history too: the
\* restrictions of the credentials it was issued with.
User == [on: BOOLEAN, pols: SUBSET Policies, groups: SUBSET Groups,
         pw: BOOLEAN, from: SUBSET Sessions, born: 0..MaxOps]
Group == [on: BOOLEAN, members: SUBSET Users, pols: SUBSET Policies]
Key == [user: Users, kind: {"user", "service", "sts"}, on: BOOLEAN,
        policy: Sessions \cup {None}, parents: Seq(Sessions), console: BOOLEAN,
        exp: {"never", "later", "past", "old"}, from: SUBSET Sessions, born: 0..MaxOps]
Identity == [root: BOOLEAN, user: Users, docs: SUBSET Docs, policy: Sessions \cup {None},
             parents: Seq(Sessions), console: BOOLEAN, from: SUBSET Sessions, born: 0..MaxOps]

Root == [root |-> TRUE, user |-> "root", docs |-> {}, policy |-> None, parents |-> <<>>,
         console |-> FALSE, from |-> {}, born |-> 0]

Idle == [stage |-> "idle", id |-> Root, user |-> "root", todo |-> <<>>, undo |-> FALSE]

With(f, x, v) == [y \in DOMAIN f \cup {x} |-> IF y = x THEN v ELSE f[y]]
Without(f, x) == [y \in DOMAIN f \ {x} |-> f[y]]

\* A new store: Open has written the built-in policies.
Init ==
  /\ users = <<>> /\ groups = <<>> /\ keys = <<>>
  /\ policies = [p \in {Admin} |-> "Allow"]
  /\ req = [r \in Reqs |-> Idle]
  /\ made = 0 /\ ops = 0

-----------------------------------------------------------------------------
(* Identities *)

\* effectivePolicies: those of the user and of its groups that are enabled.
EffectivePolicies(u) ==
  LET names == u.pols \cup UNION {groups[g].pols : g \in {g \in u.groups \cap DOMAIN groups : groups[g].on}}
  IN {policies[p] : p \in names \cap DOMAIN policies}

\* The session policy of a key or an identity and all it inherited.
Restrictions(x) == ({x.policy} \ {None}) \cup ToSet(x.parents)

\* CheckCredentialIssuer
Unrestricted(id) == id.root \/ Restrictions(id) = {}

\* Decide, for an administrative action: a deny wins, then every session
\* policy has to allow, then an identity policy.
Allowed(id) ==
  \/ id.root
  \/ "Deny" \notin id.docs /\ Restrictions(id) \subseteq Permitting /\ "Allow" \in id.docs

\* No request comes that could not do anything within the bound.
Enter(r, id) ==
  /\ req[r].stage = "idle" /\ ops < MaxOps
  /\ req' = [req EXCEPT ![r] = [Idle EXCEPT !.stage = "in", !.id = id]]
  /\ UNCHANGED <<users, groups, policies, keys, made, ops>>

\* The root account authenticates with what the configuration says.
ResolveRoot(r) == Enter(r, Root)

\* Resolve; a console session of root acts as root (sessionIdentity).
Resolve(r, k) ==
  /\ k \in DOMAIN keys /\ keys[k].on /\ keys[k].exp \in {"never", "later"}
  /\ keys[k].user \in DOMAIN users /\ users[keys[k].user].on
  /\ LET q == keys[k]
         u == users[q.user]
     IN Enter(r, [root |-> q.console /\ q.user = "root" /\ q.policy = None,
                  user |-> q.user, docs |-> EffectivePolicies(u), policy |-> q.policy,
                  parents |-> q.parents, console |-> q.console, from |-> {}, born |-> u.born])

\* VerifyPassword: a console login, of the root account or of a user.
VerifyPassword(r, n) ==
  /\ req[r].stage = "idle" /\ ops < MaxOps
  /\ n # "root" => n \in DOMAIN users /\ users[n].pw /\ users[n].on
  /\ req' = [req EXCEPT ![r] = [Idle EXCEPT !.stage = "login", !.id =
       IF n = "root" THEN Root
       ELSE [Root EXCEPT !.root = FALSE, !.user = n, !.docs = EffectivePolicies(users[n]),
                         !.from = users[n].from, !.born = users[n].born]]]
  /\ UNCHANGED <<users, groups, policies, keys, made, ops>>

\* The request is refused, or asks for nothing that changes the store.
Refuse(r) ==
  /\ req[r].stage \in {"in", "login"}
  /\ req' = [req EXCEPT ![r] = Idle]
  /\ UNCHANGED <<users, groups, policies, keys, made, ops>>

Count == ops < MaxOps /\ ops' = ops + 1
End(r) == req' = [req EXCEPT ![r] = Idle]

\* An administrative request that its identity is allowed to make.
Administer(r) == req[r].stage = "in" /\ Allowed(req[r].id) /\ Count

-----------------------------------------------------------------------------
(* Users *)

\* Mutant: the name may be an access key.
FreeNameUser(n) == n \notin DOMAIN users

\* Neither a user nor an access key has the name.
FreeName(n) == n \notin DOMAIN users /\ n \notin DOMAIN keys

NewUser(pols) == [on |-> TRUE, pols |-> pols, groups |-> {}, pw |-> FALSE, from |-> {}, born |-> ops + 1]

\* The record names its user only: whoever has that name now gets the key.
NewKey(n, kind, policy, exp, id) ==
  [user |-> n, kind |-> kind, on |-> TRUE, policy |-> policy, parents |-> <<>>, console |-> FALSE,
   exp |-> exp, from |-> Restrictions(id), born |-> users'[n].born]

\* CreateUser, for the IAM API, which gives the user nothing,
CreateUser(r, n) ==
  /\ Administer(r) /\ FreeName(n)
  /\ users' = With(users, n, NewUser({}))
  /\ End(r)
  /\ UNCHANGED <<groups, policies, keys, made>>

\* and for the admin API and the console, which go on to create a key and to
\* set a password. The admin API can also give the user a key of its name;
\* the console sets the password first, and removes the user if a later step
\* fails.
CreateUserSteps(r, n, pols, named, todo) ==
  LET console == req[r].id.console IN
  /\ Administer(r) /\ Unrestricted(req[r].id) /\ FreeName(n) /\ pols \subseteq DOMAIN policies
  /\ console => ~named
  /\ todo # IF console THEN <<"key", "password">> ELSE <<"password", "key">>
  /\ users' = With(users, n, NewUser(pols))
  /\ keys' = IF named THEN With(keys, n, NewKey(n, "user", None, "never", req[r].id)) ELSE keys
  /\ IF todo = <<>> THEN End(r)
     ELSE req' = [req EXCEPT ![r].stage = "steps", ![r].user = n, ![r].todo = todo, ![r].undo = console]
  /\ UNCHANGED <<groups, policies, made>>

NextStep(r) ==
  IF Len(req[r].todo) > 1 THEN req' = [req EXCEPT ![r].todo = Tail(req[r].todo)] ELSE End(r)

SetPw(n, id) == users' = [users EXCEPT ![n].pw = TRUE, ![n].from = Restrictions(id)]

StepPassword(r) ==
  LET q == req[r] IN
  /\ q.stage = "steps" /\ Head(q.todo) = "password" /\ q.user \in DOMAIN users
  /\ SetPw(q.user, q.id)
  /\ NextStep(r)
  /\ UNCHANGED <<groups, policies, keys, made, ops>>

Generated(k) == k = made + 1 /\ made < MaxKeys /\ made' = made + 1

StepKey(r) ==
  LET q == req[r] IN
  /\ q.stage = "steps" /\ Head(q.todo) = "key" /\ q.user \in DOMAIN users
  /\ users' = users
  /\ \E k \in 1..MaxKeys :
       Generated(k) /\ keys' = With(keys, k, NewKey(q.user, "user", None, "never", q.id))
  /\ NextStep(r)
  /\ UNCHANGED <<groups, policies, ops>>

\* Mutant: only sessions go with their user.
RemoveUserSessions(n) ==
  /\ keys' = [k \in {k \in DOMAIN keys : keys[k].user # n \/ keys[k].kind # "sts"} |-> keys[k]]
  /\ groups' = [g \in DOMAIN groups |->
                  IF g \in users[n].groups THEN [groups[g] EXCEPT !.members = @ \ {n}] ELSE groups[g]]
  /\ users' = Without(users, n)

\* DeleteUser: the user, its keys and its memberships.
RemoveUser(n) ==
  /\ keys' = [k \in {k \in DOMAIN keys : keys[k].user # n} |-> keys[k]]
  /\ groups' = [g \in DOMAIN groups |->
                  IF g \in users[n].groups THEN [groups[g] EXCEPT !.members = @ \ {n}] ELSE groups[g]]
  /\ users' = Without(users, n)

\* A step fails: the password is too short, or the user is gone.
StepFails(r) ==
  LET q == req[r] IN
  /\ q.stage = "steps"
  /\ Head(q.todo) = "key" => q.user \notin DOMAIN users
  /\ IF q.undo THEN req' = [req EXCEPT ![r].stage = "undo"] ELSE End(r)
  /\ UNCHANGED <<users, groups, policies, keys, made, ops>>

Undo(r) ==
  LET n == req[r].user IN
  /\ req[r].stage = "undo"
  /\ IF n \in DOMAIN users THEN RemoveUser(n) ELSE UNCHANGED <<users, groups, keys>>
  /\ End(r)
  /\ UNCHANGED <<policies, made, ops>>

\* The record behind root's sessions goes only when nothing hangs on it.
DeleteUser(r, n) ==
  /\ Administer(r) /\ n \in DOMAIN users
  /\ n = "root" => users[n].groups = {} /\ users[n].pols = {}
  /\ RemoveUser(n)
  /\ End(r)
  /\ UNCHANGED <<policies, made>>

\* UpdateUser: policies are attached and detached,
SetUserPolicies(r, n, pols) ==
  /\ Administer(r) /\ n \in DOMAIN users
  /\ pols \subseteq DOMAIN policies /\ pols # users[n].pols
  /\ users' = [users EXCEPT ![n].pols = pols]
  /\ End(r)
  /\ UNCHANGED <<groups, policies, keys, made>>

\* users are disabled and enabled.
SetUserStatus(r, n) ==
  /\ Administer(r) /\ n \in DOMAIN users \ {"root"}
  /\ users' = [users EXCEPT ![n].on = ~users[n].on]
  /\ End(r)
  /\ UNCHANGED <<groups, policies, keys, made>>

\* SetPassword, by an administrator, or by the user who knows the old one.
SetPassword(r, n) ==
  LET id == req[r].id IN
  /\ req[r].stage = "in" /\ Count
  /\ n \in DOMAIN users \ {"root"}
  /\ Allowed(id) \/ (id.user = n /\ ~id.root /\ users[n].pw /\ users[n].on)
  /\ Unrestricted(id)
  /\ SetPw(n, id)
  /\ End(r)
  /\ UNCHANGED <<groups, policies, keys, made>>

ClearPassword(r, n) ==
  /\ Administer(r) /\ n \in DOMAIN users /\ users[n].pw
  /\ users' = [users EXCEPT ![n].pw = FALSE, ![n].from = {}]
  /\ End(r)
  /\ UNCHANGED <<groups, policies, keys, made>>

-----------------------------------------------------------------------------
(* Keys and sessions *)

\* In the console users manage their own keys.
MayManageKeys(id, n) ==
  Unrestricted(id) /\ (Allowed(id) \/ (id.console /\ id.user = n /\ ~id.root))

\* CreateKey, with a generated or, in the admin API, a chosen access key. A
\* user's name is refused, to that user as well.
CreateKey(r, n, k, kind, policy, exp) ==
  LET id == req[r].id IN
  /\ req[r].stage = "in" /\ Count
  /\ MayManageKeys(id, n) /\ n # "root" /\ n \in DOMAIN users
  /\ k \notin DOMAIN keys
  /\ \/ Generated(k)
     \/ k \in Names /\ k \notin DOMAIN users /\ ~id.console /\ made' = made
  /\ users' = users
  /\ keys' = With(keys, k, NewKey(n, kind, policy, exp, id))
  /\ End(r)
  /\ UNCHANGED <<groups, policies>>

\* UpdateKey, by whoever may manage the key: it is disabled or enabled,
SetKeyStatus(r, k) ==
  LET id == req[r].id IN
  /\ req[r].stage = "in" /\ Count
  /\ k \in DOMAIN keys
  /\ Allowed(id) \/ MayManageKeys(id, keys[k].user)
  /\ keys' = [keys EXCEPT ![k].on = ~keys[k].on]
  /\ End(r)
  /\ UNCHANGED <<users, groups, policies, made>>

\* or given another session policy, or none, in the console. What it
\* inherited stays.
SetKeyPolicy(r, k, policy) ==
  LET id == req[r].id IN
  /\ req[r].stage = "in" /\ Count
  /\ id.console /\ k \in DOMAIN keys /\ MayManageKeys(id, keys[k].user)
  /\ keys[k].policy # policy
  /\ keys' = [keys EXCEPT ![k].policy = policy, ![k].from = keys[k].from \cap ToSet(keys[k].parents)]
  /\ End(r)
  /\ UNCHANGED <<users, groups, policies, made>>

\* SetSecret: from here on the key is also the requester's.
SetSecret(r, k) ==
  LET id == req[r].id IN
  /\ req[r].stage = "in" /\ Count
  /\ k \in DOMAIN keys /\ MayManageKeys(id, keys[k].user)
  /\ keys' = [keys EXCEPT ![k].from = Restrictions(id)]
  /\ keys' # keys
  /\ End(r)
  /\ UNCHANGED <<users, groups, policies, made>>

DeleteKey(r, k) ==
  LET id == req[r].id IN
  /\ req[r].stage = "in" /\ Count
  /\ k \in DOMAIN keys
  /\ Allowed(id) \/ MayManageKeys(id, keys[k].user)
  /\ keys' = Without(keys, k)
  /\ End(r)
  /\ UNCHANGED <<users, groups, policies, made>>

\* Mutant: a policy of the session's own replaces what it inherits.
ChainReplaces(id, policy) ==
  LET all == id.parents \o (IF id.policy = None THEN <<>> ELSE <<id.policy>>) IN
  IF policy = None /\ all # <<>> THEN [policy |-> Last(all), parents |-> Front(all)]
  ELSE [policy |-> policy, parents |-> <<>>]

\* Mutant: no session policy is inherited as if it were one.
ChainEmpty(id, policy) ==
  LET all == id.parents \o <<id.policy>> IN
  IF policy = None /\ all # <<>> THEN [policy |-> Last(all), parents |-> Front(all)]
  ELSE [policy |-> policy, parents |-> all]

\* The restrictions of a session: those of the credentials it derives from,
\* and its own; without one of its own the last of them takes that place.
Chain(id, policy) ==
  LET all == id.parents \o (IF id.policy = None THEN <<>> ELSE <<id.policy>>) IN
  IF policy = None /\ all # <<>> THEN [policy |-> Last(all), parents |-> Front(all)]
  ELSE [policy |-> policy, parents |-> all]

\* assumeRole stores the session for the user its identity names; for root
\* it also stores the user.
Session(r, policy, console) ==
  LET id == req[r].id
      c == Chain(id, policy)
  IN
  /\ Count
  /\ users' = IF id.root /\ "root" \notin DOMAIN users
              THEN With(users, "root", NewUser({Admin})) ELSE users
  /\ \E k \in 1..MaxKeys :
       /\ Generated(k)
       /\ keys' = With(keys, k, [user |-> id.user, kind |-> "sts", on |-> TRUE, policy |-> c.policy,
                                 parents |-> c.parents, console |-> console, exp |-> "later",
                                 from |-> Restrictions(id) \cup id.from,
                                 born |-> IF id.root THEN users'["root"].born ELSE id.born])
  /\ End(r)
  /\ UNCHANGED <<groups, policies>>

\* AssumeRole needs no permission; a console session cannot sign for it.
AssumeRole(r, policy) ==
  /\ req[r].stage = "in" /\ ~req[r].id.console
  /\ Session(r, policy, FALSE)

ConsoleSession(r) == req[r].stage = "login" /\ Session(r, None, TRUE)

\* Time passes for a key, and the purger removes it.
Expire(k) ==
  /\ k \in DOMAIN keys /\ keys[k].exp \in {"later", "past"}
  /\ keys' = [keys EXCEPT ![k].exp = IF keys[k].exp = "later" THEN "past" ELSE "old"]
  /\ UNCHANGED <<users, groups, policies, req, made, ops>>

PurgeExpired ==
  /\ \E k \in DOMAIN keys : keys[k].exp = "old"
  /\ keys' = [k \in {k \in DOMAIN keys : keys[k].exp # "old"} |-> keys[k]]
  /\ UNCHANGED <<users, groups, policies, req, made, ops>>

-----------------------------------------------------------------------------
(* Groups and policies *)

\* CreateGroup: the members' records name the group.
CreateGroup(r, g, members, pols) ==
  /\ Administer(r) /\ g \notin DOMAIN groups
  /\ pols \subseteq DOMAIN policies /\ members \subseteq DOMAIN users
  /\ groups' = With(groups, g, [on |-> TRUE, members |-> members, pols |-> pols])
  /\ users' = [n \in DOMAIN users |-> IF n \in members THEN [users[n] EXCEPT !.groups = @ \cup {g}] ELSE users[n]]
  /\ End(r)
  /\ UNCHANGED <<policies, keys, made>>

\* Mutant: users that are no longer members keep the group.
BackReferencesAdd(g, members) ==
  users' = [n \in DOMAIN users |->
              IF n \in members THEN [users[n] EXCEPT !.groups = @ \cup {g}] ELSE users[n]]

\* The records of the users that join or leave are brought up to date.
BackReferences(g, members) ==
  users' = [n \in DOMAIN users |->
              IF n \in members THEN [users[n] EXCEPT !.groups = @ \cup {g}]
              ELSE IF n \in groups[g].members THEN [users[n] EXCEPT !.groups = @ \ {g}]
              ELSE users[n]]

\* UpdateGroup: members and policies are replaced, or the status.
UpdateGroup(r, g, on, members, pols) ==
  /\ Administer(r) /\ g \in DOMAIN groups
  /\ pols \subseteq DOMAIN policies /\ members \subseteq DOMAIN users
  /\ groups' = [groups EXCEPT ![g] = [on |-> on, members |-> members, pols |-> pols]]
  /\ groups' # groups
  /\ BackReferences(g, members)
  /\ End(r)
  /\ UNCHANGED <<policies, keys, made>>

DeleteGroup(r, g) ==
  /\ Administer(r) /\ g \in DOMAIN groups
  /\ users' = [n \in DOMAIN users |-> IF n \in groups[g].members
                                      THEN [users[n] EXCEPT !.groups = @ \ {g}] ELSE users[n]]
  /\ groups' = Without(groups, g)
  /\ End(r)
  /\ UNCHANGED <<policies, keys, made>>

\* PutPolicy creates or replaces a policy.
PutPolicy(r, p, doc) ==
  /\ Administer(r)
  /\ policies' = With(policies, p, doc)
  /\ policies' # policies
  /\ End(r)
  /\ UNCHANGED <<users, groups, keys, made>>

\* DeletePolicy detaches the policy everywhere.
DeletePolicy(r, p) ==
  /\ Administer(r) /\ p \in DOMAIN policies
  /\ users' = [n \in DOMAIN users |-> [users[n] EXCEPT !.pols = @ \ {p}]]
  /\ groups' = [g \in DOMAIN groups |-> [groups[g] EXCEPT !.pols = @ \ {p}]]
  /\ policies' = Without(policies, p)
  /\ End(r)
  /\ UNCHANGED <<keys, made>>

-----------------------------------------------------------------------------

\* What a request to create a user asks for.
Forms == [named: {FALSE}, todo: {<<>>, <<"key">>, <<"password">>, <<"key", "password">>, <<"password", "key">>}]
         \cup [named: {TRUE}, todo: {<<>>, <<"password">>}]

UserStep(r, n) ==
  \/ VerifyPassword(r, n)
  \/ \E pols \in SUBSET Policies : SetUserPolicies(r, n, pols)
  \/ n \in Names /\ CreateUser(r, n)
  \/ n \in Names /\ \E pols \in {{}, {Admin}}, form \in Forms : CreateUserSteps(r, n, pols, form.named, form.todo)
  \/ DeleteUser(r, n) \/ SetUserStatus(r, n) \/ SetPassword(r, n) \/ ClearPassword(r, n)
  \/ \E k \in KeyIds, policy \in Sessions \cup {None}, exp \in {"never", "later"} :
       CreateKey(r, n, k, IF policy = None /\ exp = "never" THEN "user" ELSE "service", policy, exp)

KeyStep(r, k) ==
  \/ Resolve(r, k) \/ SetKeyStatus(r, k) \/ SetSecret(r, k) \/ DeleteKey(r, k)
  \/ \E policy \in Sessions \cup {None} : SetKeyPolicy(r, k, policy)

GroupStep(r, g) ==
  \/ \E members \in SUBSET Users, pols \in SUBSET Policies :
       \/ CreateGroup(r, g, members, pols)
       \/ \E on \in BOOLEAN : UpdateGroup(r, g, on, members, pols)
  \/ DeleteGroup(r, g)

RequestStep(r) ==
  \/ ResolveRoot(r) \/ Refuse(r)
  \/ StepPassword(r) \/ StepKey(r) \/ StepFails(r) \/ Undo(r)
  \/ \E n \in Users : UserStep(r, n)
  \/ \E k \in KeyIds : KeyStep(r, k)
  \/ \E g \in Groups : GroupStep(r, g)
  \/ \E policy \in Sessions \cup {None} : AssumeRole(r, policy)
  \/ ConsoleSession(r)
  \/ \E p \in PolicyNames : DeletePolicy(r, p) \/ \E doc \in Docs : PutPolicy(r, p, doc)

Next ==
  \/ \E r \in Reqs : RequestStep(r)
  \/ \E k \in KeyIds : Expire(k)
  \/ PurgeExpired

Spec == Init /\ [][Next]_vars

-----------------------------------------------------------------------------
(* Properties *)

\* The records are those of iam/types.go; only sessions inherit session
\* policies.
TypeOK ==
  /\ DOMAIN users \subseteq Users /\ \A n \in DOMAIN users : users[n] \in User
  /\ DOMAIN groups \subseteq Groups /\ \A g \in DOMAIN groups : groups[g] \in Group
  /\ Admin \in DOMAIN policies /\ \A p \in DOMAIN policies : p \in Policies /\ policies[p] \in Docs
  /\ DOMAIN keys \subseteq KeyIds /\ \A k \in DOMAIN keys : keys[k] \in Key
  /\ \A k \in DOMAIN keys : keys[k].parents # <<>> \/ keys[k].console => keys[k].kind = "sts"
  /\ \A r \in Reqs : /\ req[r].stage \in {"idle", "in", "login", "steps", "undo"}
                     /\ req[r].id \in Identity
  /\ made \in 0..MaxKeys /\ ops \in 0..MaxOps

\* References are exact: a group has the members whose records name it, and
\* every policy attached to a user or a group is there.
ReferencesExact ==
  /\ \A n \in DOMAIN users : users[n].groups \subseteq DOMAIN groups /\ users[n].pols \subseteq DOMAIN policies
  /\ \A g \in DOMAIN groups :
       /\ groups[g].pols \subseteq DOMAIN policies
       /\ groups[g].members = {n \in DOMAIN users : g \in users[n].groups}

\* Restrictions are inherited, never shed: a session, a key or a password
\* carries every session policy of the credentials it was obtained with,
\* unless an unrestricted administrator or owner has changed it since.
RestrictionsInherited ==
  /\ \A k \in DOMAIN keys : keys[k].from \subseteq Restrictions(keys[k])
  /\ \A n \in DOMAIN users : users[n].from = {}

\* Keys go with their user: a permanent key acts for the user that had its
\* user's name when it was stored, never for a later one of the same name, and
\* an access key with the name of a user is that user's. (It does not say that
\* this is the user the request meant: CreateKey looks up the name only when it
\* stores the key, so that the key asked for by a user who is deleted and
\* created again in between goes to the later one.)
KeysOwned ==
  /\ \A k \in DOMAIN keys : keys[k].kind # "sts" =>
       keys[k].user \in DOMAIN users /\ users[keys[k].user].born = keys[k].born
  /\ \A k \in Names : k \in DOMAIN keys /\ k \in DOMAIN users => keys[k].user = k
=============================================================================
