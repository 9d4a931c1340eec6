----------------------------- MODULE IamProofs -----------------------------
(***************************************************************************)
(* The identity store keeps its references exact, its keys with their      *)
(* owners, and every restriction of a credential with what was obtained    *)
(* with it, for any number of users, groups, policies and requests.        *)
(*                                                                         *)
(* None of the four is inductive alone. That restrictions are inherited    *)
(* rests on what the requests carry: the identity of one that has created  *)
(* a user is unrestricted still when it sets the password, a login carries *)
(* no session policy, and a console session has inherited none, so that    *)
(* root's console session, which counts as unrestricted, is.               *)
(***************************************************************************)
EXTENDS Iam, TLAPS

Request == [stage: {"idle", "in", "login", "steps", "undo"}, id: Identity, user: Users,
            todo: Seq({"key", "password"}), undo: BOOLEAN]

UserOK(u) == u \in User /\ u.from = {}

KeyOK(q) ==
  /\ q \in Key
  /\ q.parents # <<>> \/ q.console => q.kind = "sts"
  /\ q.console => q.parents = <<>>
  /\ q.from \subseteq Restrictions(q)

\* The root account has no session policy, and no credential in use was
\* obtained with one.
IdOK(id) ==
  /\ id \in Identity
  /\ id.from = {}
  /\ id.root => id.policy = None /\ id.parents = <<>>

RequestOK(q) ==
  /\ q \in Request
  /\ IdOK(q.id)
  /\ q.stage \in {"login", "steps", "undo"} => Restrictions(q.id) = {}

UsersOK(us) == DOMAIN us \subseteq Users /\ \A n \in DOMAIN us : UserOK(us[n])
GroupsOK(gs) == DOMAIN gs \subseteq Groups /\ \A g \in DOMAIN gs : gs[g] \in Group
PoliciesOK(ps) == Admin \in DOMAIN ps /\ \A p \in DOMAIN ps : p \in Policies /\ ps[p] \in Docs
KeysOK(ks) == DOMAIN ks \subseteq KeyIds /\ \A k \in DOMAIN ks : KeyOK(ks[k])

RefsIn(us, gs, ps) ==
  /\ \A n \in DOMAIN us : us[n].groups \subseteq DOMAIN gs /\ us[n].pols \subseteq DOMAIN ps
  /\ \A g \in DOMAIN gs :
       /\ gs[g].pols \subseteq DOMAIN ps
       /\ gs[g].members = {n \in DOMAIN us : g \in us[n].groups}

OwnedIn(us, ks) ==
  /\ \A k \in DOMAIN ks : ks[k].kind # "sts" =>
       ks[k].user \in DOMAIN us /\ us[ks[k].user].born = ks[k].born
  /\ \A k \in Names : k \in DOMAIN ks /\ k \in DOMAIN us => ks[k].user = k

RequestsOK(rq) == rq \in [Reqs -> Request] /\ \A r \in Reqs : RequestOK(rq[r])

JInv ==
  /\ UsersOK(users) /\ GroupsOK(groups) /\ PoliciesOK(policies) /\ KeysOK(keys)
  /\ RefsIn(users, groups, policies) /\ OwnedIn(users, keys)
  /\ RequestsOK(req)
  /\ made \in 0..MaxKeys /\ ops \in 0..MaxOps

-----------------------------------------------------------------------------
(* The operators *)

\* The elements of a sequence, by their positions.
LEMMA ToSetIs ==
  ASSUME NEW s
  PROVE  \A x : x \in ToSet(s) <=> \E i \in DOMAIN s : s[i] = x
  BY DEF ToSet

\* The empty sequence has none.
LEMMA ToSetEmpty == ToSet(<<>>) = {}
  BY DEF ToSet

\* A sequence is its front and its last element.
LEMMA FrontAndLast ==
  ASSUME NEW S, NEW s \in Seq(S), s # <<>>
  PROVE  Front(s) \in Seq(S) /\ Last(s) \in S /\ ToSet(s) \subseteq ToSet(Front(s)) \cup {Last(s)}
<1>1. Len(s) \in Nat /\ Len(s) > 0 /\ DOMAIN s = 1..Len(s)
  OBVIOUS
<1>2. DOMAIN Front(s) = 1..(Len(s) - 1)
  BY <1>1 DEF Front
<1>3. \A i \in 1..(Len(s) - 1) : Front(s)[i] = s[i]
  BY <1>1 DEF Front
<1>4. Last(s) = s[Len(s)] /\ Last(s) \in S
  BY <1>1 DEF Last
<1>5. Front(s) \in Seq(S)
  BY DEF Front
<1>6. ASSUME NEW i \in DOMAIN s
      PROVE  s[i] \in ToSet(Front(s)) \cup {Last(s)}
  <2>1. CASE i = Len(s)
    BY <1>4, <2>1
  <2>2. CASE i # Len(s)
    <3>1. i \in DOMAIN Front(s) /\ Front(s)[i] = s[i]
      BY <1>1, <1>2, <1>3, <2>2
    <3>. QED  BY <3>1, ToSetIs
  <2>. QED  BY <2>1, <2>2
<1>. QED  BY <1>4, <1>5, <1>6, ToSetIs

\* Appending adds one element.
LEMMA Appended ==
  ASSUME NEW s \in Seq(Sessions), NEW x \in Sessions, NEW t, t = s \o <<x>>
  PROVE  t \in Seq(Sessions) /\ t # <<>> /\ ToSet(t) = ToSet(s) \cup {x}
<1> DEFINE e == <<x>>
<1>1. Len(s) \in Nat /\ DOMAIN s = 1..Len(s)
  OBVIOUS
<1>2. e \in Seq(Sessions) /\ Len(e) = 1 /\ e[1] = x
  OBVIOUS
<1>3. t \in Seq(Sessions) /\ Len(t) = Len(s) + 1
  BY <1>2
<1>4. \A i \in 1..Len(s) : t[i] = s[i]
  BY <1>1, <1>2
<1>5. t[Len(s) + 1] = x
  BY <1>1, <1>2
<1>6. DOMAIN t = 1..(Len(s) + 1)
  BY <1>3
<1>7. t # <<>>
  BY <1>1, <1>3
<1>8. ASSUME NEW i \in DOMAIN t
      PROVE  t[i] \in ToSet(s) \cup {x}
  <2>1. CASE i = Len(s) + 1
    BY <2>1, <1>5
  <2>2. CASE i # Len(s) + 1
    <3>1. i \in DOMAIN s /\ t[i] = s[i]
      BY <2>2, <1>1, <1>4, <1>6
    <3>. QED  BY <3>1, ToSetIs
  <2>. QED  BY <2>1, <2>2
<1>9. ASSUME NEW i \in DOMAIN s
      PROVE  s[i] \in ToSet(t)
  <2>1. i \in DOMAIN t /\ t[i] = s[i]
    BY <1>1, <1>4, <1>6
  <2>. QED  BY <2>1, ToSetIs
<1>10. x \in ToSet(t)
  <2>1. Len(s) + 1 \in DOMAIN t
    BY <1>1, <1>6
  <2>. QED  BY <2>1, <1>5, ToSetIs
<1>. QED  BY <1>3, <1>7, <1>8, <1>9, <1>10, ToSetIs

\* A session carries all the restrictions of the identity it derives from,
\* and a login, which has none, passes none on.
LEMMA ChainKeeps ==
  ASSUME NEW id, IdOK(id), NEW policy \in Sessions \cup {None}, NEW c, c = Chain(id, policy)
  PROVE  /\ c.policy \in Sessions \cup {None} /\ c.parents \in Seq(Sessions)
         /\ Restrictions(id) \subseteq Restrictions(c)
         /\ Restrictions(id) = {} => c.parents = <<>>
<1> DEFINE all == id.parents \o (IF id.policy = None THEN <<>> ELSE <<id.policy>>)
<1>1. id.parents \in Seq(Sessions) /\ id.policy \in Sessions \cup {None}
  BY DEF IdOK, Identity
<1>2. all \in Seq(Sessions) /\ ToSet(all) = Restrictions(id)
  <2>1. CASE id.policy = None
    <3>1. all = id.parents
      BY <1>1, <2>1
    <3>. QED  BY <1>1, <2>1, <3>1 DEF Restrictions
  <2>2. CASE id.policy # None
    <3>1. all = id.parents \o <<id.policy>> /\ id.policy \in Sessions
      BY <1>1, <2>2
    <3>. DEFINE s == id.parents
                x == id.policy
    <3>2. s \in Seq(Sessions) /\ x \in Sessions /\ all = s \o <<x>>
      BY <1>1, <3>1
    <3>. HIDE DEF all, s, x
    <3>3. all \in Seq(Sessions) /\ ToSet(all) = ToSet(s) \cup {x}
      BY <3>2, Appended
    <3>. QED  BY <2>2, <3>3 DEF Restrictions, s, x
  <2>. QED  BY <2>1, <2>2
<1>3. c = IF policy = None /\ all # <<>> THEN [policy |-> Last(all), parents |-> Front(all)]
          ELSE [policy |-> policy, parents |-> all]
  BY DEF Chain
<1>. HIDE DEF all
<1>4. Restrictions(id) = {} => all = <<>>
  <2>1. all # <<>> => Last(all) \in ToSet(all)
    <3>. SUFFICES ASSUME all # <<>> PROVE Last(all) \in ToSet(all)
      OBVIOUS
    <3>1. Len(all) \in DOMAIN all /\ all[Len(all)] = Last(all)
      BY <1>2 DEF Last
    <3>. QED  BY <3>1, ToSetIs
  <2>. QED  BY <1>2, <2>1
<1>5. CASE policy = None /\ all # <<>>
  <2>1. c.policy = Last(all) /\ c.parents = Front(all)
    BY <1>3, <1>5
  <2>2. Front(all) \in Seq(Sessions) /\ Last(all) \in Sessions /\ ToSet(all) \subseteq ToSet(Front(all)) \cup {Last(all)}
    BY <1>2, <1>5, FrontAndLast
  <2>3. Last(all) # None
    BY <2>2, IamAssumption
  <2>. QED  BY <1>2, <1>4, <1>5, <2>1, <2>2, <2>3 DEF Restrictions
<1>6. CASE ~(policy = None /\ all # <<>>)
  <2>1. c.policy = policy /\ c.parents = all
    BY <1>3, <1>6
  <2>. QED  BY <1>2, <1>4, <2>1 DEF Restrictions
<1>. QED  BY <1>5, <1>6

-----------------------------------------------------------------------------
(* What a change of one namespace keeps *)

\* The parts of the invariant after a step make it up again.
LEMMA Assembled ==
  ASSUME UsersOK(users'), GroupsOK(groups'), PoliciesOK(policies'), KeysOK(keys'),
         RefsIn(users', groups', policies'), OwnedIn(users', keys'), RequestsOK(req'),
         made' \in 0..MaxKeys, ops' \in 0..MaxOps
  PROVE  JInv'
  BY DEF JInv, UsersOK, UserOK, GroupsOK, PoliciesOK, KeysOK, KeyOK, RefsIn, OwnedIn, RequestsOK, RequestOK,
         IdOK, Restrictions

\* A new user starts outside all groups.
LEMMA UserAdded ==
  ASSUME NEW us, NEW gs, NEW ps, NEW ks, UsersOK(us), RefsIn(us, gs, ps), OwnedIn(us, ks),
         NEW n \in Users, n \notin DOMAIN us, n \in Names => n \notin DOMAIN ks,
         NEW u, UserOK(u), u.groups = {}, u.pols \subseteq DOMAIN ps,
         NEW us2, us2 = With(us, n, u)
  PROVE  UsersOK(us2) /\ RefsIn(us2, gs, ps) /\ OwnedIn(us2, ks)
<1>1. DOMAIN us2 = DOMAIN us \cup {n} /\ us2[n] = u /\ \A m \in DOMAIN us : us2[m] = us[m]
  BY DEF With
<1>2. UsersOK(us2)
  BY <1>1 DEF UsersOK
<1>3. RefsIn(us2, gs, ps)
  <2>1. \A m \in DOMAIN us2 : us2[m].groups \subseteq DOMAIN gs /\ us2[m].pols \subseteq DOMAIN ps
    BY <1>1 DEF RefsIn
  <2>2. ASSUME NEW g \in DOMAIN gs
        PROVE  {m \in DOMAIN us2 : g \in us2[m].groups} = {m \in DOMAIN us : g \in us[m].groups}
    BY <1>1
  <2>. QED  BY <2>1, <2>2 DEF RefsIn
<1>4. OwnedIn(us2, ks)
  BY <1>1 DEF OwnedIn
<1>. QED  BY <1>2, <1>3, <1>4

\* A change that leaves names, memberships and births alone.
LEMMA UsersChanged ==
  ASSUME NEW us, NEW gs, NEW ps, NEW ks, UsersOK(us), RefsIn(us, gs, ps), OwnedIn(us, ks),
         NEW us2, DOMAIN us2 = DOMAIN us,
         \A n \in DOMAIN us : /\ UserOK(us2[n]) /\ us2[n].groups = us[n].groups
                              /\ us2[n].born = us[n].born /\ us2[n].pols \subseteq DOMAIN ps
  PROVE  UsersOK(us2) /\ RefsIn(us2, gs, ps) /\ OwnedIn(us2, ks)
<1>1. UsersOK(us2)
  BY DEF UsersOK
<1>2. RefsIn(us2, gs, ps)
  <2>1. \A m \in DOMAIN us2 : us2[m].groups \subseteq DOMAIN gs /\ us2[m].pols \subseteq DOMAIN ps
    BY DEF RefsIn
  <2>2. ASSUME NEW g \in DOMAIN gs
        PROVE  {m \in DOMAIN us2 : g \in us2[m].groups} = {m \in DOMAIN us : g \in us[m].groups}
    OBVIOUS
  <2>. QED  BY <2>1, <2>2 DEF RefsIn
<1>3. OwnedIn(us2, ks)
  BY DEF OwnedIn
<1>. QED  BY <1>1, <1>2, <1>3

\* A new key is of a user there, and its name is not that of another.
LEMMA KeyAdded ==
  ASSUME NEW us, NEW ks, KeysOK(ks), OwnedIn(us, ks),
         NEW k \in KeyIds, NEW q, KeyOK(q),
         q.kind # "sts" => q.user \in DOMAIN us /\ us[q.user].born = q.born,
         k \in Names /\ k \in DOMAIN us => q.user = k,
         NEW ks2, ks2 = With(ks, k, q)
  PROVE  KeysOK(ks2) /\ OwnedIn(us, ks2)
<1>1. DOMAIN ks2 = DOMAIN ks \cup {k} /\ ks2[k] = q /\ \A j \in DOMAIN ks : j # k => ks2[j] = ks[j]
  BY DEF With
<1>2. KeysOK(ks2)
  BY <1>1 DEF KeysOK
<1>3. OwnedIn(us, ks2)
  BY <1>1 DEF OwnedIn
<1>. QED  BY <1>2, <1>3

\* A change that removes keys, and leaves owner, kind and birth alone.
LEMMA KeysChanged ==
  ASSUME NEW us, NEW ks, KeysOK(ks), OwnedIn(us, ks),
         NEW ks2, DOMAIN ks2 \subseteq DOMAIN ks,
         \A k \in DOMAIN ks2 : /\ KeyOK(ks2[k]) /\ ks2[k].user = ks[k].user
                               /\ ks2[k].kind = ks[k].kind /\ ks2[k].born = ks[k].born
  PROVE  KeysOK(ks2) /\ OwnedIn(us, ks2)
<1>1. KeysOK(ks2)
  BY DEF KeysOK
<1>2. OwnedIn(us, ks2)
  BY DEF OwnedIn
<1>. QED  BY <1>1, <1>2

\* A key created by an unrestricted identity, for a user there.
LEMMA NewKeyOK ==
  ASSUME NEW n \in Users, NEW kind \in {"user", "service"}, NEW policy \in Sessions \cup {None},
         NEW exp \in {"never", "later"}, NEW id, Restrictions(id) = {},
         n \in DOMAIN users', users'[n] \in User,
         NEW q, q = NewKey(n, kind, policy, exp, id)
  PROVE  KeyOK(q) /\ q.user = n /\ q.kind # "sts" /\ q.born = users'[n].born
<1>1. users'[n].born \in 0..MaxOps
  BY DEF User
<1>2. <<>> \in Seq(Sessions) /\ {} \in SUBSET Sessions
  OBVIOUS
<1> DEFINE b == users'[n].born
<1>3. q = [user |-> n, kind |-> kind, on |-> TRUE, policy |-> policy, parents |-> <<>>, console |-> FALSE,
           exp |-> exp, from |-> {}, born |-> b]
  BY DEF NewKey
<1>4. b \in 0..MaxOps
  BY <1>1
<1>. HIDE DEF b
<1>5. q \in Key
  BY <1>2, <1>3, <1>4 DEF Key
<1>6. q.from = {} /\ q.parents = <<>> /\ ~q.console /\ q.user = n /\ q.kind = kind /\ q.born = b
  BY <1>3
<1>. QED  BY <1>5, <1>6 DEF KeyOK, b

\* A request that ends is idle, and one that goes on is as it should be.
LEMMA IdleOK == RequestOK(Idle)
<1>1. <<>> \in Seq({"key", "password"}) /\ <<>> \in Seq(Sessions)
  OBVIOUS
<1>2. Root \in Identity
  BY <1>1, IamAssumption DEF Root, Identity, Users
<1>3. IdOK(Root)
  BY <1>2 DEF IdOK, Root
<1>4. Idle \in Request
  BY <1>1, <1>2 DEF Idle, Request, Users
<1>5. Idle.id = Root /\ Idle.stage = "idle"
  BY DEF Idle
<1>. QED  BY <1>3, <1>4, <1>5 DEF RequestOK

\* A request is replaced.
LEMMA RequestSet ==
  ASSUME RequestsOK(req), NEW r \in Reqs, NEW q, RequestOK(q), NEW rq, rq = [req EXCEPT ![r] = q]
  PROVE  RequestsOK(rq)
  BY DEF RequestsOK, RequestOK

\* A request ends.
LEMMA Ended ==
  ASSUME RequestsOK(req), NEW r \in Reqs, End(r)
  PROVE  RequestsOK(req')
  BY IdleOK, RequestSet DEF End

-----------------------------------------------------------------------------
(* Identities *)

\* The root account, and whoever counts as unrestricted, has no restriction.
LEMMA UnrestrictedIs ==
  ASSUME NEW id, IdOK(id), Unrestricted(id)
  PROVE  Restrictions(id) = {}
  BY ToSetEmpty DEF IdOK, Unrestricted, Restrictions

\* The invariant gives what each request carries.
LEMMA Carried ==
  ASSUME JInv, NEW r \in Reqs
  PROVE  RequestOK(req[r]) /\ IdOK(req[r].id) /\ RequestsOK(req)
  BY DEF JInv, RequestsOK, RequestOK

\* What is stored as a policy is a document.
LEMMA EffectiveDocs ==
  ASSUME JInv, NEW u
  PROVE  EffectivePolicies(u) \in SUBSET Docs
  BY DEF JInv, PoliciesOK, EffectivePolicies

\* A request starts with an identity.
LEMMA EnterStep ==
  ASSUME JInv, NEW r \in Reqs, NEW id, IdOK(id), Enter(r, id)
  PROVE  JInv'
<1> DEFINE q == [Idle EXCEPT !.stage = "in", !.id = id]
<1>1. q \in Request /\ q.stage = "in" /\ q.id = id
  BY IdleOK DEF RequestOK, Request, IdOK
<1>2. req' = [req EXCEPT ![r] = q]
  BY DEF Enter
<1>. HIDE DEF q
<1>3. RequestsOK(req')
  BY <1>1, <1>2, RequestSet, Carried DEF RequestOK
<1>. QED  BY <1>3, Assembled DEF Enter, JInv

\* With the credentials the configuration names,
LEMMA ResolveRootStep ==
  ASSUME JInv, NEW r \in Reqs, ResolveRoot(r)
  PROVE  JInv'
<1>1. IdOK(Root)
  BY IdleOK DEF RequestOK, Idle
<1>. QED  BY <1>1, EnterStep DEF ResolveRoot

\* or a key: a console session of root, which acts as root, inherited
\* nothing.
LEMMA ResolveStep ==
  ASSUME JInv, NEW r \in Reqs, NEW k, Resolve(r, k)
  PROVE  JInv'
<1> DEFINE q == keys[k]
           u == users[q.user]
           d == EffectivePolicies(u)
           c == q.console /\ q.user = "root" /\ q.policy = None
           id == [root |-> c, user |-> q.user, docs |-> d, policy |-> q.policy, parents |-> q.parents,
                  console |-> q.console, from |-> {}, born |-> u.born]
<1>1. KeyOK(q) /\ u \in User
  BY DEF Resolve, JInv, KeysOK, UsersOK, UserOK
<1>2. d \in SUBSET Docs
  BY EffectiveDocs
<1>3. Enter(r, id)
  BY DEF Resolve
<1>. HIDE DEF d, u, q
<1>4. c \in BOOLEAN
  OBVIOUS
<1>5. c => q.policy = None /\ q.parents = <<>>
  BY <1>1 DEF KeyOK
<1>. HIDE DEF c
<1>6. id \in Identity
  BY <1>1, <1>2, <1>4 DEF KeyOK, Key, User, Identity
<1>7. id.from = {} /\ id.root = c /\ id.policy = q.policy /\ id.parents = q.parents
  OBVIOUS
<1>. HIDE DEF id
<1>8. IdOK(id)
  BY <1>5, <1>6, <1>7 DEF IdOK
<1>. QED  BY <1>3, <1>8, EnterStep

\* A login carries no session policy, and passwords are of unrestricted
\* origin.
LEMMA VerifyPasswordStep ==
  ASSUME JInv, NEW r \in Reqs, NEW n \in Users, VerifyPassword(r, n)
  PROVE  JInv'
<1> DEFINE d == EffectivePolicies(users[n])
           one == [Root EXCEPT !.root = FALSE, !.user = n, !.docs = d,
                               !.from = users[n].from, !.born = users[n].born]
           id == IF n = "root" THEN Root ELSE one
           q == [Idle EXCEPT !.stage = "login", !.id = id]
<1>1. IdOK(Root) /\ Root.policy = None /\ Root.parents = <<>> /\ Root \in Identity
  BY IdleOK DEF RequestOK, Idle, Root, IdOK
<1>2. d \in SUBSET Docs
  BY EffectiveDocs
<1>3. req' = [req EXCEPT ![r] = q]
  BY DEF VerifyPassword
<1>4. IdOK(id) /\ id.policy = None /\ id.parents = <<>>
  <2>1. CASE n = "root"
    BY <1>1, <2>1
  <2>2. CASE n # "root"
    <3>1. users[n] \in User /\ users[n].from = {}
      BY <2>2 DEF VerifyPassword, JInv, UsersOK, UserOK
    <3>. HIDE DEF d
    <3>2. one \in Identity
      BY <1>1, <1>2, <3>1 DEF Identity, User
    <3>3. one.from = {} /\ one.root = FALSE /\ one.policy = None /\ one.parents = <<>>
      BY <3>1 DEF Root
    <3>4. id = one
      BY <2>2
    <3>. HIDE DEF id, one
    <3>. QED  BY <3>2, <3>3, <3>4 DEF IdOK
  <2>. QED  BY <2>1, <2>2
<1>. HIDE DEF id
<1>5. q \in Request /\ q.stage = "login" /\ q.id = id
  BY IdleOK, <1>4 DEF RequestOK, Request, IdOK
<1>6. Restrictions(id) = {}
  BY <1>4, ToSetEmpty DEF Restrictions
<1>. HIDE DEF q
<1>7. RequestsOK(req')
  BY <1>3, <1>4, <1>5, <1>6, RequestSet, Carried DEF RequestOK
<1>. QED  BY <1>7, Assembled DEF VerifyPassword, JInv

\* A refused request changes nothing.
LEMMA RefuseStep ==
  ASSUME JInv, NEW r \in Reqs, Refuse(r)
  PROVE  JInv'
<1>1. RequestsOK(req')
  BY Ended, Carried DEF Refuse, End
<1>. QED  BY <1>1, Assembled DEF Refuse, JInv

-----------------------------------------------------------------------------
(* Users *)

\* The parts of the invariant that most operations leave alone.
LEMMA Counted ==
  ASSUME JInv, Count
  PROVE  ops' \in 0..MaxOps /\ ops + 1 \in 0..MaxOps
  BY IamAssumption DEF JInv, Count

\* A new user is well formed.
LEMMA NewUserOK ==
  ASSUME NEW pols \in SUBSET Policies, ops + 1 \in 0..MaxOps, NEW u, u = NewUser(pols)
  PROVE  UserOK(u) /\ u.groups = {} /\ u.pols = pols
<1>1. u \in User
  BY DEF NewUser, User
<1>2. u.from = {} /\ u.groups = {} /\ u.pols = pols
  BY DEF NewUser
<1>. QED  BY <1>1, <1>2 DEF UserOK

\* The permanent key that is made for a user.
LEMMA UserKeyOK ==
  ASSUME NEW n \in Users, NEW id, Restrictions(id) = {}, n \in DOMAIN users', users'[n] \in User
  PROVE  LET q == NewKey(n, "user", None, "never", id)
         IN KeyOK(q) /\ q.user = n /\ q.kind # "sts" /\ q.born = users'[n].born
  BY NewKeyOK

\* CreateUser
LEMMA CreateUserStep ==
  ASSUME JInv, NEW r \in Reqs, NEW n \in Names, CreateUser(r, n)
  PROVE  JInv'
<1> DEFINE u == NewUser({})
<1>1. Count /\ FreeName(n) /\ users' = With(users, n, u) /\ End(r) /\ UNCHANGED <<groups, policies, keys, made>>
  BY DEF CreateUser, Administer
<1>2. ops' \in 0..MaxOps /\ ops + 1 \in 0..MaxOps
  BY <1>1, Counted
<1>3. UserOK(u) /\ u.groups = {} /\ u.pols = {}
  BY <1>2, NewUserOK
<1>. HIDE DEF u
<1>4. UsersOK(users') /\ RefsIn(users', groups, policies) /\ OwnedIn(users', keys)
  BY <1>1, <1>3, UserAdded DEF FreeName, JInv, Users
<1>5. RequestsOK(req')
  BY <1>1, Ended, Carried
<1>. QED  BY <1>1, <1>2, <1>4, <1>5, Assembled DEF JInv

\* CreateUser and the steps that follow it: whoever may ask for them is
\* unrestricted, and so is what they create.
LEMMA CreateUserStepsStep ==
  ASSUME JInv, NEW r \in Reqs, NEW n \in Names, NEW pols \in {{}, {Admin}}, NEW named \in BOOLEAN,
         NEW todo \in Seq({"key", "password"}), CreateUserSteps(r, n, pols, named, todo)
  PROVE  JInv'
<1> DEFINE u == NewUser(pols)
           id == req[r].id
           k == NewKey(n, "user", None, "never", id)
<1>1. /\ Count /\ FreeName(n) /\ pols \subseteq DOMAIN policies
      /\ users' = With(users, n, u) /\ UNCHANGED <<groups, policies, made>>
  BY DEF CreateUserSteps, Administer
<1>2. ops' \in 0..MaxOps /\ ops + 1 \in 0..MaxOps
  BY <1>1, Counted
<1>3. pols \in SUBSET Policies
  BY DEF Policies
<1>4. UserOK(u) /\ u.groups = {} /\ u.pols = pols
  BY <1>2, <1>3, NewUserOK
<1>5. RequestOK(req[r]) /\ IdOK(id) /\ RequestsOK(req) /\ Unrestricted(id)
  BY Carried DEF CreateUserSteps
<1>6. Restrictions(id) = {}
  BY <1>5, UnrestrictedIs
<1>7. keys' = IF named THEN With(keys, n, k) ELSE keys
  BY DEF CreateUserSteps
<1>8. IF todo = <<>> THEN End(r)
      ELSE \E b \in BOOLEAN : req' = [req EXCEPT ![r].stage = "steps", ![r].user = n, ![r].todo = todo, ![r].undo = b]
  <2>1. req[r].id.console \in BOOLEAN
    BY <1>5 DEF IdOK, Identity
  <2>. QED  BY <2>1 DEF CreateUserSteps
<1>. HIDE DEF u
<1>9. UsersOK(users') /\ RefsIn(users', groups, policies) /\ OwnedIn(users', keys)
  BY <1>1, <1>4, UserAdded DEF FreeName, JInv, Users
<1>10. n \in Users /\ n \in KeyIds
  BY DEF Users, KeyIds
<1>11. n \in DOMAIN users' /\ users'[n] \in User
  BY <1>1, <1>4 DEF With, UserOK
<1>. HIDE DEF id
<1>12. KeyOK(k) /\ k.user = n /\ k.kind # "sts" /\ k.born = users'[n].born
  BY <1>6, <1>10, <1>11, UserKeyOK
<1>. HIDE DEF k
<1>13. KeysOK(keys') /\ OwnedIn(users', keys')
  <2>1. CASE named
    <3>1. keys' = With(keys, n, k) /\ KeysOK(keys)
      BY <2>1, <1>7 DEF JInv
    <3>. QED  BY <3>1, <1>9, <1>10, <1>11, <1>12, KeyAdded
  <2>2. CASE ~named
    BY <2>2, <1>7, <1>9 DEF JInv
  <2>. QED  BY <2>1, <2>2
<1>14. RequestsOK(req')
  <2>1. CASE todo = <<>>
    BY <2>1, <1>5, <1>8, Ended
  <2>2. CASE todo # <<>>
    <3>1. PICK b \in BOOLEAN :
            req' = [req EXCEPT ![r].stage = "steps", ![r].user = n, ![r].todo = todo, ![r].undo = b]
      BY <2>2, <1>8
    <3> DEFINE q == [req[r] EXCEPT !.stage = "steps", !.user = n, !.todo = todo, !.undo = b]
    <3>2. req' = [req EXCEPT ![r] = q]
      BY <3>1, <1>5 DEF RequestsOK
    <3>3. q \in Request /\ q.id = id
      BY <1>5, <1>10 DEF RequestOK, Request, id
    <3>. HIDE DEF q
    <3>4. RequestOK(q)
      BY <3>3, <1>5, <1>6 DEF RequestOK
    <3>. QED  BY <3>2, <3>4, <1>5, RequestSet
  <2>. QED  BY <2>1, <2>2
<1>. QED  BY <1>1, <1>2, <1>9, <1>13, <1>14, Assembled DEF JInv

\* The next step of a request, if there is one.
LEMMA NextStepOK ==
  ASSUME RequestsOK(req), NEW r \in Reqs, req[r].stage = "steps", NextStep(r)
  PROVE  RequestsOK(req')
<1>1. CASE Len(req[r].todo) > 1
  <2> DEFINE q == [req[r] EXCEPT !.todo = Tail(req[r].todo)]
  <2>1. req' = [req EXCEPT ![r] = q]
    BY <1>1 DEF NextStep, RequestsOK
  <2>2. req[r] \in Request /\ RequestOK(req[r]) /\ req[r].todo \in Seq({"key", "password"})
    BY DEF RequestsOK, Request
  <2>3. Tail(req[r].todo) \in Seq({"key", "password"})
    <3>1. req[r].todo # <<>>
      BY <1>1, <2>2
    <3>. QED  BY <2>2, <3>1
  <2>4. q \in Request /\ q.id = req[r].id /\ q.stage = req[r].stage
    BY <2>2, <2>3 DEF Request
  <2>. HIDE DEF q
  <2>5. RequestOK(q)
    BY <2>2, <2>4 DEF RequestOK
  <2>. QED  BY <2>1, <2>5, RequestSet
<1>2. CASE ~(Len(req[r].todo) > 1)
  BY <1>2, Ended DEF NextStep
<1>. QED  BY <1>1, <1>2

\* A password is set by one who is unrestricted.
LEMMA PasswordSet ==
  ASSUME JInv, NEW n \in DOMAIN users, NEW id, Restrictions(id) = {}, SetPw(n, id)
  PROVE  UsersOK(users') /\ RefsIn(users', groups, policies) /\ OwnedIn(users', keys)
<1>1. UsersOK(users) /\ RefsIn(users, groups, policies) /\ OwnedIn(users, keys)
  BY DEF JInv
<1>2. DOMAIN users' = DOMAIN users
  BY DEF SetPw
<1>3. ASSUME NEW m \in DOMAIN users
      PROVE  /\ UserOK(users'[m]) /\ users'[m].groups = users[m].groups
             /\ users'[m].born = users[m].born /\ users'[m].pols \subseteq DOMAIN policies
  <2>1. users[m] \in User /\ users[m].from = {} /\ users[m].pols \subseteq DOMAIN policies
    BY <1>1 DEF UsersOK, UserOK, RefsIn
  <2>2. CASE m = n
    <3>1. users'[m] = [users[m] EXCEPT !.pw = TRUE, !.from = {}]
      BY <2>2 DEF SetPw
    <3>. QED  BY <2>1, <3>1 DEF User, UserOK
  <2>3. CASE m # n
    <3>1. users'[m] = users[m]
      BY <2>3 DEF SetPw
    <3>. QED  BY <2>1, <3>1 DEF UserOK
  <2>. QED  BY <2>2, <2>3
<1>. QED  BY <1>1, <1>2, <1>3, UsersChanged

\* The step that sets the password,
LEMMA StepPasswordStep ==
  ASSUME JInv, NEW r \in Reqs, StepPassword(r)
  PROVE  JInv'
<1>1. RequestOK(req[r]) /\ RequestsOK(req)
  BY Carried
<1>2. /\ req[r].stage = "steps" /\ req[r].user \in DOMAIN users /\ SetPw(req[r].user, req[r].id) /\ NextStep(r)
      /\ UNCHANGED <<groups, policies, keys, made, ops>>
  BY DEF StepPassword
<1>3. Restrictions(req[r].id) = {}
  BY <1>1, <1>2 DEF RequestOK
<1>4. UsersOK(users') /\ RefsIn(users', groups, policies) /\ OwnedIn(users', keys)
  BY <1>2, <1>3, PasswordSet
<1>5. RequestsOK(req')
  BY <1>1, <1>2, NextStepOK
<1>. QED  BY <1>2, <1>4, <1>5, Assembled DEF JInv

\* and the one that creates a key.
LEMMA StepKeyStep ==
  ASSUME JInv, NEW r \in Reqs, StepKey(r)
  PROVE  JInv'
<1> DEFINE n == req[r].user
           q == NewKey(n, "user", None, "never", req[r].id)
<1>1. RequestOK(req[r]) /\ RequestsOK(req)
  BY Carried
<1>2. /\ req[r].stage = "steps" /\ n \in DOMAIN users /\ users' = users /\ NextStep(r)
      /\ UNCHANGED <<groups, policies, ops>>
  BY DEF StepKey
<1>3. PICK k \in 1..MaxKeys : Generated(k) /\ keys' = With(keys, k, q)
  BY DEF StepKey
<1>4. Restrictions(req[r].id) = {}
  BY <1>1, <1>2 DEF RequestOK
<1>5. n \in Users /\ n \in DOMAIN users' /\ users'[n] \in User
  BY <1>2 DEF JInv, UsersOK, UserOK
<1>6. KeyOK(q) /\ q.user = n /\ q.kind # "sts" /\ q.born = users'[n].born
  BY <1>4, <1>5, NewKeyOK
<1>7. k \in KeyIds /\ k \notin Names
  BY IamAssumption DEF KeyIds
<1>. HIDE DEF n, q
<1>8. KeysOK(keys) /\ OwnedIn(users', keys)
  BY <1>2 DEF JInv
<1>9. KeysOK(keys') /\ OwnedIn(users', keys')
  BY <1>3, <1>5, <1>6, <1>7, <1>8, KeyAdded
<1>10. made' \in 0..MaxKeys
  BY <1>3, IamAssumption DEF Generated, JInv
<1>11. RequestsOK(req')
  BY <1>1, <1>2, NextStepOK
<1>. QED  BY <1>2, <1>9, <1>10, <1>11, Assembled DEF JInv

\* DeleteUser takes the keys and the memberships along.
LEMMA UserRemoved ==
  ASSUME JInv, NEW n \in DOMAIN users, RemoveUser(n)
  PROVE  /\ UsersOK(users') /\ GroupsOK(groups') /\ KeysOK(keys')
         /\ RefsIn(users', groups', policies) /\ OwnedIn(users', keys')
<1>1. UsersOK(users) /\ GroupsOK(groups) /\ KeysOK(keys) /\ RefsIn(users, groups, policies) /\ OwnedIn(users, keys)
  BY DEF JInv
<1>2. DOMAIN users' = DOMAIN users \ {n} /\ \A m \in DOMAIN users' : users'[m] = users[m]
  BY DEF RemoveUser, Without
<1>3. DOMAIN keys' = {k \in DOMAIN keys : keys[k].user # n} /\ \A k \in DOMAIN keys' : keys'[k] = keys[k]
  BY DEF RemoveUser
<1>4. DOMAIN groups' = DOMAIN groups
  BY DEF RemoveUser
<1>5. ASSUME NEW g \in DOMAIN groups
      PROVE  /\ groups'[g] \in Group /\ groups'[g].pols = groups[g].pols
             /\ groups'[g].members = groups[g].members \ {n}
  <2>1. groups[g] \in Group /\ groups[g].members = {m \in DOMAIN users : g \in users[m].groups}
    BY <1>1 DEF GroupsOK, RefsIn
  <2>2. CASE g \in users[n].groups
    <3>1. groups'[g] = [groups[g] EXCEPT !.members = groups[g].members \ {n}]
      BY <2>2 DEF RemoveUser
    <3>. QED  BY <2>1, <3>1 DEF Group
  <2>3. CASE g \notin users[n].groups
    <3>1. groups'[g] = groups[g]
      BY <2>3 DEF RemoveUser
    <3>2. n \notin groups[g].members
      BY <2>1, <2>3
    <3>. QED  BY <2>1, <3>1, <3>2
  <2>. QED  BY <2>2, <2>3
<1>6. UsersOK(users')
  BY <1>1, <1>2 DEF UsersOK
<1>7. GroupsOK(groups')
  BY <1>1, <1>4, <1>5 DEF GroupsOK
<1>8. KeysOK(keys')
  BY <1>1, <1>3 DEF KeysOK
<1>9. RefsIn(users', groups', policies)
  <2>1. \A m \in DOMAIN users' : users'[m].groups \subseteq DOMAIN groups' /\ users'[m].pols \subseteq DOMAIN policies
    BY <1>1, <1>2, <1>4 DEF RefsIn
  <2>2. ASSUME NEW g \in DOMAIN groups'
        PROVE  /\ groups'[g].pols \subseteq DOMAIN policies
               /\ groups'[g].members = {m \in DOMAIN users' : g \in users'[m].groups}
    <3>1. groups[g].pols \subseteq DOMAIN policies /\ groups[g].members = {m \in DOMAIN users : g \in users[m].groups}
      BY <1>1, <1>4 DEF RefsIn
    <3>. QED  BY <3>1, <1>2, <1>4, <1>5
  <2>. QED  BY <2>1, <2>2 DEF RefsIn
<1>10. OwnedIn(users', keys')
  BY <1>1, <1>2, <1>3 DEF OwnedIn
<1>. QED  BY <1>6, <1>7, <1>8, <1>9, <1>10

\* A step that fails leaves the request to be undone, or ends it.
LEMMA StepFailsStep ==
  ASSUME JInv, NEW r \in Reqs, StepFails(r)
  PROVE  JInv'
<1>1. RequestOK(req[r]) /\ RequestsOK(req) /\ req[r].stage = "steps"
  BY Carried DEF StepFails
<1>2. RequestsOK(req')
  <2>1. CASE req[r].undo
    <3> DEFINE q == [req[r] EXCEPT !.stage = "undo"]
    <3>1. req' = [req EXCEPT ![r] = q]
      BY <2>1, <1>1 DEF StepFails, RequestsOK
    <3>2. q \in Request /\ q.id = req[r].id
      BY <1>1 DEF RequestOK, Request
    <3>. HIDE DEF q
    <3>3. RequestOK(q)
      BY <3>2, <1>1 DEF RequestOK
    <3>. QED  BY <3>1, <3>3, <1>1, RequestSet
  <2>2. CASE ~req[r].undo
    <3>1. End(r)
      BY <2>2 DEF StepFails
    <3>. QED  BY <3>1, <1>1, Ended
  <2>. QED  BY <2>1, <2>2
<1>. QED  BY <1>2, Assembled DEF StepFails, JInv

\* The console removes the user whose later steps failed.
LEMMA UndoStep ==
  ASSUME JInv, NEW r \in Reqs, Undo(r)
  PROVE  JInv'
<1>1. RequestsOK(req')
  BY Ended, Carried DEF Undo
<1>2. UNCHANGED <<policies, made, ops>>
  BY DEF Undo
<1>3. CASE req[r].user \in DOMAIN users
  <2>1. RemoveUser(req[r].user)
    BY <1>3 DEF Undo
  <2>2. /\ UsersOK(users') /\ GroupsOK(groups') /\ KeysOK(keys')
        /\ RefsIn(users', groups', policies) /\ OwnedIn(users', keys')
    BY <1>3, <2>1, UserRemoved
  <2>. QED  BY <1>1, <1>2, <2>2, Assembled DEF JInv
<1>4. CASE req[r].user \notin DOMAIN users
  <2>1. UNCHANGED <<users, groups, keys>>
    BY <1>4 DEF Undo
  <2>. QED  BY <1>1, <1>2, <2>1, Assembled DEF JInv
<1>. QED  BY <1>3, <1>4

\* DeleteUser
LEMMA DeleteUserStep ==
  ASSUME JInv, NEW r \in Reqs, NEW n \in Users, DeleteUser(r, n)
  PROVE  JInv'
<1>1. Count /\ n \in DOMAIN users /\ RemoveUser(n) /\ End(r) /\ UNCHANGED <<policies, made>>
  BY DEF DeleteUser, Administer
<1>2. RequestsOK(req') /\ ops' \in 0..MaxOps
  BY <1>1, Ended, Carried, Counted
<1>3. /\ UsersOK(users') /\ GroupsOK(groups') /\ KeysOK(keys')
      /\ RefsIn(users', groups', policies) /\ OwnedIn(users', keys')
  BY <1>1, UserRemoved
<1>. QED  BY <1>1, <1>2, <1>3, Assembled DEF JInv

\* A change of one user's policies, status or password.
LEMMA UserUpdated ==
  ASSUME JInv, NEW r \in Reqs, NEW n \in DOMAIN users, NEW u,
         UserOK(u), u.groups = users[n].groups, u.born = users[n].born, u.pols \subseteq DOMAIN policies,
         users' = [users EXCEPT ![n] = u], Count, End(r), UNCHANGED <<groups, policies, keys, made>>
  PROVE  JInv'
<1>1. UsersOK(users) /\ RefsIn(users, groups, policies) /\ OwnedIn(users, keys)
  BY DEF JInv
<1>2. DOMAIN users' = DOMAIN users
  OBVIOUS
<1>3. ASSUME NEW m \in DOMAIN users
      PROVE  /\ UserOK(users'[m]) /\ users'[m].groups = users[m].groups
             /\ users'[m].born = users[m].born /\ users'[m].pols \subseteq DOMAIN policies
  BY <1>1 DEF UsersOK, RefsIn
<1>4. UsersOK(users') /\ RefsIn(users', groups, policies) /\ OwnedIn(users', keys)
  BY <1>1, <1>2, <1>3, UsersChanged
<1>5. RequestsOK(req') /\ ops' \in 0..MaxOps
  BY Ended, Carried, Counted
<1>. QED  BY <1>4, <1>5, Assembled DEF JInv

\* UpdateUser: the policies attached are there,
LEMMA SetUserPoliciesStep ==
  ASSUME JInv, NEW r \in Reqs, NEW n \in Users, NEW pols \in SUBSET Policies, SetUserPolicies(r, n, pols)
  PROVE  JInv'
<1> DEFINE u == [users[n] EXCEPT !.pols = pols]
<1>1. /\ Count /\ n \in DOMAIN users /\ pols \subseteq DOMAIN policies /\ End(r)
      /\ users' = [users EXCEPT ![n] = u] /\ UNCHANGED <<groups, policies, keys, made>>
  BY DEF SetUserPolicies, Administer
<1>2. users[n] \in User /\ users[n].from = {}
  BY <1>1 DEF JInv, UsersOK, UserOK
<1>3. UserOK(u) /\ u.groups = users[n].groups /\ u.born = users[n].born /\ u.pols = pols
  BY <1>2 DEF User, UserOK
<1>. HIDE DEF u
<1>. QED  BY <1>1, <1>3, UserUpdated

\* and the status changes nothing else.
LEMMA SetUserStatusStep ==
  ASSUME JInv, NEW r \in Reqs, NEW n \in Users, SetUserStatus(r, n)
  PROVE  JInv'
<1> DEFINE on == ~users[n].on
           u == [users[n] EXCEPT !.on = on]
<1>1. /\ Count /\ n \in DOMAIN users /\ End(r)
      /\ users' = [users EXCEPT ![n] = u] /\ UNCHANGED <<groups, policies, keys, made>>
  BY DEF SetUserStatus, Administer
<1>2. users[n] \in User /\ users[n].from = {} /\ users[n].pols \subseteq DOMAIN policies
  BY <1>1 DEF JInv, UsersOK, UserOK, RefsIn
<1>3. on \in BOOLEAN
  OBVIOUS
<1>. HIDE DEF on
<1>4. UserOK(u) /\ u.groups = users[n].groups /\ u.born = users[n].born /\ u.pols = users[n].pols
  BY <1>2, <1>3 DEF User, UserOK
<1>. HIDE DEF u
<1>. QED  BY <1>1, <1>2, <1>4, UserUpdated

\* SetPassword
LEMMA SetPasswordStep ==
  ASSUME JInv, NEW r \in Reqs, NEW n \in Users, SetPassword(r, n)
  PROVE  JInv'
<1>1. /\ Count /\ n \in DOMAIN users /\ Unrestricted(req[r].id) /\ SetPw(n, req[r].id) /\ End(r)
      /\ UNCHANGED <<groups, policies, keys, made>>
  BY DEF SetPassword
<1>2. Restrictions(req[r].id) = {}
  BY <1>1, Carried, UnrestrictedIs
<1>3. UsersOK(users') /\ RefsIn(users', groups, policies) /\ OwnedIn(users', keys)
  BY <1>1, <1>2, PasswordSet
<1>4. RequestsOK(req') /\ ops' \in 0..MaxOps
  BY <1>1, Ended, Carried, Counted
<1>. QED  BY <1>1, <1>3, <1>4, Assembled DEF JInv

\* ClearPassword
LEMMA ClearPasswordStep ==
  ASSUME JInv, NEW r \in Reqs, NEW n \in Users, ClearPassword(r, n)
  PROVE  JInv'
<1> DEFINE u == [users[n] EXCEPT !.pw = FALSE, !.from = {}]
<1>1. /\ Count /\ n \in DOMAIN users /\ End(r)
      /\ users' = [users EXCEPT ![n] = u] /\ UNCHANGED <<groups, policies, keys, made>>
  BY DEF ClearPassword, Administer
<1>2. users[n] \in User /\ users[n].from = {} /\ users[n].pols \subseteq DOMAIN policies
  BY <1>1 DEF JInv, UsersOK, UserOK, RefsIn
<1>3. UserOK(u) /\ u.groups = users[n].groups /\ u.born = users[n].born /\ u.pols = users[n].pols
  BY <1>2 DEF User, UserOK
<1>. HIDE DEF u
<1>. QED  BY <1>1, <1>2, <1>3, UserUpdated

-----------------------------------------------------------------------------
(* Keys and sessions *)

\* CreateKey: the key is of a user there, and its name is no other user's.
LEMMA CreateKeyStep ==
  ASSUME JInv, NEW r \in Reqs, NEW n \in Users, NEW k \in KeyIds, NEW kind \in {"user", "service"},
         NEW policy \in Sessions \cup {None}, NEW exp \in {"never", "later"},
         CreateKey(r, n, k, kind, policy, exp)
  PROVE  JInv'
<1> DEFINE id == req[r].id
           q == NewKey(n, kind, policy, exp, id)
<1>1. /\ Count /\ MayManageKeys(id, n) /\ n \in DOMAIN users
      /\ users' = users /\ keys' = With(keys, k, q) /\ End(r) /\ UNCHANGED <<groups, policies>>
  BY DEF CreateKey
<1>2. Generated(k) \/ (k \notin DOMAIN users /\ made' = made)
  BY DEF CreateKey
<1>3. made' \in 0..MaxKeys /\ (k \notin DOMAIN users \/ k \notin Names)
  <2>1. CASE Generated(k)
    BY <2>1, IamAssumption DEF Generated, JInv
  <2>2. CASE k \notin DOMAIN users /\ made' = made
    BY <2>2 DEF JInv
  <2>. QED  BY <1>2, <2>1, <2>2
<1>4. Restrictions(id) = {}
  BY <1>1, Carried, UnrestrictedIs DEF MayManageKeys
<1>5. n \in DOMAIN users' /\ users'[n] \in User
  BY <1>1 DEF JInv, UsersOK, UserOK
<1>6. KeyOK(q) /\ q.user = n /\ q.kind # "sts" /\ q.born = users'[n].born
  BY <1>4, <1>5, NewKeyOK
<1>. HIDE DEF q
<1>7. KeysOK(keys) /\ OwnedIn(users', keys)
  BY <1>1 DEF JInv
<1>8. KeysOK(keys') /\ OwnedIn(users', keys')
  BY <1>1, <1>3, <1>5, <1>6, <1>7, KeyAdded
<1>9. RequestsOK(req') /\ ops' \in 0..MaxOps
  BY <1>1, Ended, Carried, Counted
<1>. QED  BY <1>1, <1>3, <1>8, <1>9, Assembled DEF JInv

\* A change of one key that leaves its owner, kind and birth alone.
LEMMA KeyUpdated ==
  ASSUME JInv, NEW k \in DOMAIN keys, NEW q,
         KeyOK(q), q.user = keys[k].user, q.kind = keys[k].kind, q.born = keys[k].born,
         keys' = [keys EXCEPT ![k] = q], RequestsOK(req'), ops' \in 0..MaxOps,
         UNCHANGED <<users, groups, policies, made>>
  PROVE  JInv'
<1>1. KeysOK(keys) /\ OwnedIn(users, keys)
  BY DEF JInv
<1>2. DOMAIN keys' = DOMAIN keys
  OBVIOUS
<1>3. ASSUME NEW j \in DOMAIN keys'
      PROVE  /\ KeyOK(keys'[j]) /\ keys'[j].user = keys[j].user
             /\ keys'[j].kind = keys[j].kind /\ keys'[j].born = keys[j].born
  BY <1>1, <1>2 DEF KeysOK
<1>4. KeysOK(keys') /\ OwnedIn(users, keys')
  BY <1>1, <1>2, <1>3, KeysChanged
<1>. QED  BY <1>4, Assembled DEF JInv

\* UpdateKey: its status,
LEMMA SetKeyStatusStep ==
  ASSUME JInv, NEW r \in Reqs, NEW k, SetKeyStatus(r, k)
  PROVE  JInv'
<1> DEFINE on == ~keys[k].on
           q == [keys[k] EXCEPT !.on = on]
<1>1. /\ Count /\ k \in DOMAIN keys /\ keys' = [keys EXCEPT ![k] = q] /\ End(r)
      /\ UNCHANGED <<users, groups, policies, made>>
  BY DEF SetKeyStatus
<1>2. KeyOK(keys[k]) /\ on \in BOOLEAN
  BY <1>1 DEF JInv, KeysOK
<1>. HIDE DEF on
<1>3. /\ q \in Key /\ q.user = keys[k].user /\ q.kind = keys[k].kind /\ q.born = keys[k].born
      /\ q.policy = keys[k].policy /\ q.parents = keys[k].parents /\ q.from = keys[k].from
  BY <1>2 DEF KeyOK, Key
<1>4. q.console = keys[k].console
  BY <1>2 DEF KeyOK, Key
<1>. HIDE DEF q
<1>5. KeyOK(q)
  BY <1>2, <1>3, <1>4 DEF KeyOK, Restrictions
<1>6. RequestsOK(req') /\ ops' \in 0..MaxOps
  BY <1>1, Ended, Carried, Counted
<1>. QED  BY <1>1, <1>3, <1>5, <1>6, KeyUpdated

\* its session policy, which leaves it what it inherited,
LEMMA SetKeyPolicyStep ==
  ASSUME JInv, NEW r \in Reqs, NEW k, NEW policy \in Sessions \cup {None}, SetKeyPolicy(r, k, policy)
  PROVE  JInv'
<1> DEFINE fr == keys[k].from \cap ToSet(keys[k].parents)
           q == [keys[k] EXCEPT !.policy = policy, !.from = fr]
<1>1. /\ Count /\ k \in DOMAIN keys /\ keys' = [keys EXCEPT ![k] = q] /\ End(r)
      /\ UNCHANGED <<users, groups, policies, made>>
  BY DEF SetKeyPolicy
<1>2. KeyOK(keys[k])
  BY <1>1 DEF JInv, KeysOK
<1>3. fr \in SUBSET Sessions /\ fr \subseteq ToSet(keys[k].parents)
  BY <1>2 DEF KeyOK, Key
<1>. HIDE DEF fr
<1>4. /\ q \in Key /\ q.user = keys[k].user /\ q.kind = keys[k].kind /\ q.born = keys[k].born
      /\ q.parents = keys[k].parents /\ q.from = fr
  BY <1>2, <1>3 DEF KeyOK, Key
<1>5. q.console = keys[k].console
  BY <1>2 DEF KeyOK, Key
<1>. HIDE DEF q
<1>6. KeyOK(q)
  BY <1>2, <1>3, <1>4, <1>5 DEF KeyOK, Restrictions
<1>7. RequestsOK(req') /\ ops' \in 0..MaxOps
  BY <1>1, Ended, Carried, Counted
<1>. QED  BY <1>1, <1>4, <1>6, <1>7, KeyUpdated

\* its secret, which an unrestricted identity sets,
LEMMA SetSecretStep ==
  ASSUME JInv, NEW r \in Reqs, NEW k, SetSecret(r, k)
  PROVE  JInv'
<1> DEFINE q == [keys[k] EXCEPT !.from = {}]
<1>1. /\ Count /\ k \in DOMAIN keys /\ MayManageKeys(req[r].id, keys[k].user) /\ End(r)
      /\ keys' = [keys EXCEPT ![k].from = Restrictions(req[r].id)]
      /\ UNCHANGED <<users, groups, policies, made>>
  BY DEF SetSecret
<1>2. KeyOK(keys[k])
  BY <1>1 DEF JInv, KeysOK
<1>3. Restrictions(req[r].id) = {}
  BY <1>1, Carried, UnrestrictedIs DEF MayManageKeys
<1>4. keys' = [keys EXCEPT ![k] = q]
  BY <1>1, <1>3
<1>5. /\ q \in Key /\ q.user = keys[k].user /\ q.kind = keys[k].kind /\ q.born = keys[k].born
      /\ q.parents = keys[k].parents /\ q.from = {}
  BY <1>2 DEF KeyOK, Key
<1>6. q.console = keys[k].console
  BY <1>2 DEF KeyOK, Key
<1>. HIDE DEF q
<1>7. KeyOK(q)
  BY <1>2, <1>5, <1>6 DEF KeyOK
<1>8. RequestsOK(req') /\ ops' \in 0..MaxOps
  BY <1>1, Ended, Carried, Counted
<1>. QED  BY <1>1, <1>4, <1>5, <1>7, <1>8, KeyUpdated

\* and its expiry.
LEMMA ExpireStep ==
  ASSUME JInv, NEW k, Expire(k)
  PROVE  JInv'
<1> DEFINE e == IF keys[k].exp = "later" THEN "past" ELSE "old"
           q == [keys[k] EXCEPT !.exp = e]
<1>1. /\ k \in DOMAIN keys /\ keys' = [keys EXCEPT ![k] = q]
      /\ UNCHANGED <<users, groups, policies, req, made, ops>>
  BY DEF Expire
<1>2. KeyOK(keys[k]) /\ e \in {"past", "old"}
  BY <1>1 DEF JInv, KeysOK
<1>. HIDE DEF e
<1>3. /\ q \in Key /\ q.user = keys[k].user /\ q.kind = keys[k].kind /\ q.born = keys[k].born
      /\ q.policy = keys[k].policy /\ q.parents = keys[k].parents /\ q.from = keys[k].from
  BY <1>2 DEF KeyOK, Key
<1>4. q.console = keys[k].console
  BY <1>2 DEF KeyOK, Key
<1>. HIDE DEF q
<1>5. KeyOK(q)
  BY <1>2, <1>3, <1>4 DEF KeyOK, Restrictions
<1>6. RequestsOK(req') /\ ops' \in 0..MaxOps
  BY <1>1 DEF JInv, RequestsOK, RequestOK
<1>. QED  BY <1>1, <1>3, <1>5, <1>6, KeyUpdated

\* Keys go one by one,
LEMMA DeleteKeyStep ==
  ASSUME JInv, NEW r \in Reqs, NEW k, DeleteKey(r, k)
  PROVE  JInv'
<1>1. Count /\ keys' = Without(keys, k) /\ End(r) /\ UNCHANGED <<users, groups, policies, made>>
  BY DEF DeleteKey
<1>2. KeysOK(keys) /\ OwnedIn(users, keys)
  BY DEF JInv
<1>3. DOMAIN keys' \subseteq DOMAIN keys /\ \A j \in DOMAIN keys' : keys'[j] = keys[j]
  BY <1>1 DEF Without
<1>4. KeysOK(keys') /\ OwnedIn(users, keys')
  BY <1>2, <1>3, KeysChanged DEF KeysOK
<1>5. RequestsOK(req') /\ ops' \in 0..MaxOps
  BY <1>1, Ended, Carried, Counted
<1>. QED  BY <1>1, <1>4, <1>5, Assembled DEF JInv

\* and the expired ones together.
LEMMA PurgeExpiredStep ==
  ASSUME JInv, PurgeExpired
  PROVE  JInv'
<1>1. KeysOK(keys) /\ OwnedIn(users, keys)
  BY DEF JInv
<1>2. DOMAIN keys' \subseteq DOMAIN keys /\ \A j \in DOMAIN keys' : keys'[j] = keys[j]
  BY DEF PurgeExpired
<1>3. KeysOK(keys') /\ OwnedIn(users, keys')
  BY <1>1, <1>2, KeysChanged DEF KeysOK
<1>. QED  BY <1>3, Assembled DEF PurgeExpired, JInv

\* A session of a console or an API has the restrictions of its origin.
LEMMA SessionStep ==
  ASSUME JInv, NEW r \in Reqs, NEW policy \in Sessions \cup {None}, NEW console \in BOOLEAN,
         console => Restrictions(req[r].id) = {}, Session(r, policy, console)
  PROVE  JInv'
<1> DEFINE id == req[r].id
           c == Chain(id, policy)
           u == NewUser({Admin})
           b == IF id.root THEN users'["root"].born ELSE id.born
           q == [user |-> id.user, kind |-> "sts", on |-> TRUE, policy |-> c.policy,
                 parents |-> c.parents, console |-> console, exp |-> "later",
                 from |-> Restrictions(id) \cup id.from, born |-> b]
<1>1. Count /\ End(r) /\ UNCHANGED <<groups, policies>>
  BY DEF Session
<1>2. users' = IF id.root /\ "root" \notin DOMAIN users THEN With(users, "root", u) ELSE users
  BY DEF Session
<1>3. PICK k \in 1..MaxKeys : Generated(k) /\ keys' = With(keys, k, q)
  BY DEF Session
<1>4. IdOK(id) /\ id \in Identity /\ id.from = {}
  BY Carried DEF IdOK
<1>5. ops' \in 0..MaxOps /\ ops + 1 \in 0..MaxOps
  BY <1>1, Counted
<1>6. UserOK(u) /\ u.groups = {} /\ u.pols = {Admin}
  BY <1>5, NewUserOK DEF Policies
<1>7. /\ c.policy \in Sessions \cup {None} /\ c.parents \in Seq(Sessions)
      /\ Restrictions(id) \subseteq Restrictions(c) /\ (Restrictions(id) = {} => c.parents = <<>>)
  BY <1>4, ChainKeeps
<1>. HIDE DEF u, c, b
<1>8. UsersOK(users') /\ RefsIn(users', groups, policies) /\ OwnedIn(users', keys)
  <2>1. CASE id.root /\ "root" \notin DOMAIN users
    <3>1. users' = With(users, "root", u)
      BY <1>2, <2>1
    <3>2. {Admin} \subseteq DOMAIN policies /\ "root" \in Users /\ "root" \notin Names
      BY IamAssumption DEF JInv, PoliciesOK, Users
    <3>3. UsersOK(users) /\ RefsIn(users, groups, policies) /\ OwnedIn(users, keys)
      BY DEF JInv
    <3>. QED  BY <1>6, <2>1, <3>1, <3>2, <3>3, UserAdded
  <2>2. CASE ~(id.root /\ "root" \notin DOMAIN users)
    BY <1>2, <2>2 DEF JInv
  <2>. QED  BY <2>1, <2>2
<1>9. b \in 0..MaxOps
  <2>1. CASE id.root
    <3>1. "root" \in DOMAIN users'
      BY <1>2, <2>1 DEF With
    <3>2. users'["root"] \in User
      BY <3>1, <1>8 DEF UsersOK, UserOK
    <3>. QED  BY <2>1, <3>2 DEF b, User
  <2>2. CASE ~id.root
    BY <2>2, <1>4 DEF b, Identity
  <2>. QED  BY <2>1, <2>2
<1>10. Restrictions(id) \in SUBSET Sessions /\ id.user \in Users
  <2>1. ToSet(id.parents) \subseteq Sessions
    <3>1. id.parents \in Seq(Sessions)
      BY <1>4 DEF Identity
    <3>. QED  BY <3>1, ToSetIs
  <2>. QED  BY <2>1, <1>4 DEF Restrictions, Identity
<1>11. console => c.parents = <<>>
  BY <1>7
<1>12. Restrictions(id) \cup id.from = Restrictions(id)
  BY <1>4
<1>. HIDE DEF id
<1>13. q \in Key
  BY <1>7, <1>9, <1>10, <1>12 DEF Key
<1>14. /\ q.kind = "sts" /\ q.policy = c.policy /\ q.parents = c.parents
       /\ q.from = Restrictions(id)
  BY <1>12
<1>15. q.console = console
  OBVIOUS
<1>. HIDE DEF q
<1>16. KeyOK(q)
  BY <1>7, <1>11, <1>13, <1>14, <1>15 DEF KeyOK, Restrictions
<1>17. k \in KeyIds /\ k \notin Names /\ KeysOK(keys)
  BY IamAssumption DEF KeyIds, JInv
<1>18. KeysOK(keys') /\ OwnedIn(users', keys')
  BY <1>3, <1>8, <1>14, <1>16, <1>17, KeyAdded
<1>19. made' \in 0..MaxKeys
  BY <1>3, IamAssumption DEF Generated, JInv
<1>20. RequestsOK(req')
  BY <1>1, Ended, Carried
<1>. QED  BY <1>1, <1>5, <1>8, <1>18, <1>19, <1>20, Assembled DEF JInv

-----------------------------------------------------------------------------
(* Groups and policies *)

\* A change of one group g: the records of its members, and of them only,
\* name it.
LEMMA GroupUpdated ==
  ASSUME JInv, NEW r \in Reqs, NEW g, NEW members \in SUBSET DOMAIN users, GroupsOK(groups'),
         DOMAIN groups \ {g} = DOMAIN groups' \ {g}, \A h \in DOMAIN groups \ {g} : groups'[h] = groups[h],
         g \in DOMAIN groups' => groups'[g].members = members /\ groups'[g].pols \subseteq DOMAIN policies,
         g \notin DOMAIN groups' => members = {},
         DOMAIN users' = DOMAIN users,
         \A n \in DOMAIN users :
            /\ users'[n] \in User /\ users'[n].from = users[n].from
            /\ users'[n].born = users[n].born /\ users'[n].pols = users[n].pols
            /\ users'[n].groups = (users[n].groups \ {g}) \cup (IF n \in members THEN {g} ELSE {}),
         Count, End(r), UNCHANGED <<policies, keys, made>>
  PROVE  JInv'
<1>1. UsersOK(users) /\ RefsIn(users, groups, policies) /\ OwnedIn(users, keys)
  BY DEF JInv
<1>2. UsersOK(users')
  BY <1>1 DEF UsersOK, UserOK
<1>3. OwnedIn(users', keys)
  BY <1>1 DEF OwnedIn
<1>4. ASSUME NEW n \in DOMAIN users'
      PROVE  users'[n].groups \subseteq DOMAIN groups' /\ users'[n].pols \subseteq DOMAIN policies
  <2>1. users[n].groups \subseteq DOMAIN groups /\ users[n].pols \subseteq DOMAIN policies
    BY <1>1 DEF RefsIn
  <2>. QED  BY <2>1
<1>5. ASSUME NEW h \in DOMAIN groups'
      PROVE  /\ groups'[h].pols \subseteq DOMAIN policies
             /\ groups'[h].members = {n \in DOMAIN users' : h \in users'[n].groups}
  <2>1. CASE h = g
    BY <2>1
  <2>2. CASE h # g
    <3>1. /\ groups'[h] = groups[h] /\ groups[h].pols \subseteq DOMAIN policies
          /\ groups[h].members = {n \in DOMAIN users : h \in users[n].groups}
      BY <1>1, <2>2 DEF RefsIn
    <3>2. \A n \in DOMAIN users : h \in users'[n].groups <=> h \in users[n].groups
      BY <2>2
    <3>. QED  BY <3>1, <3>2
  <2>. QED  BY <2>1, <2>2
<1>6. RefsIn(users', groups', policies)
  BY <1>4, <1>5 DEF RefsIn
<1>7. RequestsOK(req') /\ ops' \in 0..MaxOps
  BY Ended, Carried, Counted
<1>. QED  BY <1>2, <1>3, <1>6, <1>7, Assembled DEF JInv

\* A user's record with one more or one fewer group.
LEMMA Regrouped ==
  ASSUME NEW u \in User, NEW gs \in SUBSET Groups, NEW v, v = [u EXCEPT !.groups = gs]
  PROVE  v \in User /\ v.from = u.from /\ v.born = u.born /\ v.pols = u.pols /\ v.groups = gs
  BY DEF User

\* CreateGroup: no record named the group before.
LEMMA CreateGroupStep ==
  ASSUME JInv, NEW r \in Reqs, NEW g \in Groups, NEW members \in SUBSET Users, NEW pols \in SUBSET Policies,
         CreateGroup(r, g, members, pols)
  PROVE  JInv'
<1> DEFINE x == [on |-> TRUE, members |-> members, pols |-> pols]
<1>1. /\ Count /\ g \notin DOMAIN groups /\ pols \subseteq DOMAIN policies /\ members \subseteq DOMAIN users
      /\ groups' = With(groups, g, x) /\ End(r) /\ UNCHANGED <<policies, keys, made>>
  BY DEF CreateGroup, Administer
<1>2. x \in Group /\ x.members = members /\ x.pols = pols
  BY DEF Group
<1>. HIDE DEF x
<1>3. /\ DOMAIN groups' = DOMAIN groups \cup {g} /\ groups'[g] = x
      /\ \A h \in DOMAIN groups : groups'[h] = groups[h]
  BY <1>1 DEF With
<1>4. GroupsOK(groups')
  BY <1>2, <1>3 DEF GroupsOK, JInv
<1>5. DOMAIN users' = DOMAIN users
  BY DEF CreateGroup
<1>6. ASSUME NEW n \in DOMAIN users
      PROVE  /\ users'[n] \in User /\ users'[n].from = users[n].from
             /\ users'[n].born = users[n].born /\ users'[n].pols = users[n].pols
             /\ users'[n].groups = (users[n].groups \ {g}) \cup (IF n \in members THEN {g} ELSE {})
  <2>1. users[n] \in User /\ users[n].groups \in SUBSET Groups
    BY DEF JInv, UsersOK, UserOK, User
  <2>2. g \notin users[n].groups
    BY <1>1 DEF JInv, RefsIn
  <2>3. CASE n \in members
    <3>1. users'[n] = [users[n] EXCEPT !.groups = users[n].groups \cup {g}]
      BY <2>3 DEF CreateGroup
    <3>. QED  BY <2>1, <2>2, <2>3, <3>1, Regrouped
  <2>4. CASE n \notin members
    <3>1. users'[n] = users[n]
      BY <2>4 DEF CreateGroup
    <3>. QED  BY <2>1, <2>2, <2>4, <3>1
  <2>. QED  BY <2>3, <2>4
<1>. QED  BY <1>1, <1>2, <1>3, <1>4, <1>5, <1>6, GroupUpdated

\* UpdateGroup: users that leave lose the group, users that join get it.
LEMMA UpdateGroupStep ==
  ASSUME JInv, NEW r \in Reqs, NEW g \in Groups, NEW on \in BOOLEAN, NEW members \in SUBSET Users,
         NEW pols \in SUBSET Policies, UpdateGroup(r, g, on, members, pols)
  PROVE  JInv'
<1> DEFINE x == [on |-> on, members |-> members, pols |-> pols]
<1>1. /\ Count /\ g \in DOMAIN groups /\ pols \subseteq DOMAIN policies /\ members \subseteq DOMAIN users
      /\ groups' = [groups EXCEPT ![g] = x] /\ BackReferences(g, members) /\ End(r)
      /\ UNCHANGED <<policies, keys, made>>
  BY DEF UpdateGroup, Administer
<1>2. x \in Group /\ x.members = members /\ x.pols = pols
  BY DEF Group
<1>. HIDE DEF x
<1>3. /\ DOMAIN groups' = DOMAIN groups /\ groups'[g] = x
      /\ \A h \in DOMAIN groups : h # g => groups'[h] = groups[h]
  BY <1>1
<1>4. GroupsOK(groups')
  BY <1>2, <1>3 DEF GroupsOK, JInv
<1>5. DOMAIN users' = DOMAIN users
  BY <1>1 DEF BackReferences
<1>6. ASSUME NEW n \in DOMAIN users
      PROVE  /\ users'[n] \in User /\ users'[n].from = users[n].from
             /\ users'[n].born = users[n].born /\ users'[n].pols = users[n].pols
             /\ users'[n].groups = (users[n].groups \ {g}) \cup (IF n \in members THEN {g} ELSE {})
  <2>1. users[n] \in User /\ users[n].groups \in SUBSET Groups
    BY DEF JInv, UsersOK, UserOK, User
  <2>2. n \in groups[g].members <=> g \in users[n].groups
    BY <1>1 DEF JInv, RefsIn
  <2>3. CASE n \in members
    <3>1. users'[n] = [users[n] EXCEPT !.groups = users[n].groups \cup {g}]
      BY <1>1, <2>3 DEF BackReferences
    <3>. QED  BY <2>1, <2>3, <3>1, Regrouped
  <2>4. CASE n \notin members /\ n \in groups[g].members
    <3>1. users'[n] = [users[n] EXCEPT !.groups = users[n].groups \ {g}]
      BY <1>1, <2>4 DEF BackReferences
    <3>. QED  BY <2>1, <2>4, <3>1, Regrouped
  <2>5. CASE n \notin members /\ n \notin groups[g].members
    <3>1. users'[n] = users[n]
      BY <1>1, <2>5 DEF BackReferences
    <3>. QED  BY <2>1, <2>2, <2>5, <3>1
  <2>. QED  BY <2>3, <2>4, <2>5
<1>7. /\ DOMAIN groups \ {g} = DOMAIN groups' \ {g} /\ \A h \in DOMAIN groups \ {g} : groups'[h] = groups[h]
      /\ groups'[g].members = members /\ groups'[g].pols \subseteq DOMAIN policies /\ g \in DOMAIN groups'
  BY <1>1, <1>2, <1>3
<1>8. members \in SUBSET DOMAIN users
  BY <1>1
<1>. QED  BY <1>1, <1>4, <1>5, <1>6, <1>7, <1>8, GroupUpdated, ZenonT(60)

\* DeleteGroup: its members lose it.
LEMMA DeleteGroupStep ==
  ASSUME JInv, NEW r \in Reqs, NEW g \in Groups, DeleteGroup(r, g)
  PROVE  JInv'
<1> DEFINE none == {}
<1>1. /\ Count /\ g \in DOMAIN groups /\ groups' = Without(groups, g) /\ End(r)
      /\ UNCHANGED <<policies, keys, made>>
  BY DEF DeleteGroup, Administer
<1>2. DOMAIN groups' = DOMAIN groups \ {g} /\ \A h \in DOMAIN groups' : groups'[h] = groups[h]
  BY <1>1 DEF Without
<1>3. GroupsOK(groups')
  BY <1>2 DEF GroupsOK, JInv
<1>4. DOMAIN users' = DOMAIN users
  BY DEF DeleteGroup
<1>5. ASSUME NEW n \in DOMAIN users
      PROVE  /\ users'[n] \in User /\ users'[n].from = users[n].from
             /\ users'[n].born = users[n].born /\ users'[n].pols = users[n].pols
             /\ users'[n].groups = (users[n].groups \ {g}) \cup (IF n \in none THEN {g} ELSE {})
  <2>1. users[n] \in User /\ users[n].groups \in SUBSET Groups
    BY DEF JInv, UsersOK, UserOK, User
  <2>2. n \in groups[g].members <=> g \in users[n].groups
    BY <1>1 DEF JInv, RefsIn
  <2>3. CASE n \in groups[g].members
    <3>1. users'[n] = [users[n] EXCEPT !.groups = users[n].groups \ {g}]
      BY <2>3 DEF DeleteGroup
    <3>2. /\ users'[n] \in User /\ users'[n].from = users[n].from /\ users'[n].groups = users[n].groups \ {g}
          /\ users'[n].born = users[n].born /\ users'[n].pols = users[n].pols
      BY <2>1, <3>1 DEF User
    <3>. QED  BY <3>2
  <2>4. CASE n \notin groups[g].members
    <3>1. users'[n] = users[n]
      BY <2>4 DEF DeleteGroup
    <3>. QED  BY <2>1, <2>2, <2>4, <3>1
  <2>. QED  BY <2>3, <2>4
<1>6. /\ DOMAIN groups \ {g} = DOMAIN groups' \ {g} /\ \A h \in DOMAIN groups \ {g} : groups'[h] = groups[h]
      /\ g \notin DOMAIN groups'
  BY <1>2
<1>7. none \in SUBSET DOMAIN users /\ none = {}
  BY DEF none
<1>. HIDE DEF none
<1>. QED  BY <1>1, <1>3, <1>4, <1>5, <1>6, <1>7, GroupUpdated

\* PutPolicy
LEMMA PutPolicyStep ==
  ASSUME JInv, NEW r \in Reqs, NEW p \in PolicyNames, NEW doc \in Docs, PutPolicy(r, p, doc)
  PROVE  JInv'
<1>1. Count /\ policies' = With(policies, p, doc) /\ End(r) /\ UNCHANGED <<users, groups, keys, made>>
  BY DEF PutPolicy, Administer
<1>2. /\ DOMAIN policies' = DOMAIN policies \cup {p} /\ policies'[p] = doc
      /\ \A x \in DOMAIN policies : x # p => policies'[x] = policies[x]
  BY <1>1 DEF With
<1>3. PoliciesOK(policies')
  BY <1>2 DEF JInv, PoliciesOK, Policies
<1>4. RefsIn(users', groups', policies')
  <2>1. RefsIn(users, groups, policies)
    BY DEF JInv
  <2>2. RefsIn(users, groups, policies')
    BY <2>1, <1>2 DEF RefsIn
  <2>. QED  BY <2>2, <1>1
<1>5. RequestsOK(req') /\ ops' \in 0..MaxOps
  BY <1>1, Ended, Carried, Counted
<1>. QED  BY <1>1, <1>3, <1>4, <1>5, Assembled DEF JInv

\* DeletePolicy: nobody refers to the policy any more; the built-in one,
\* which sessions of root attach, is not deleted.
LEMMA DeletePolicyStep ==
  ASSUME JInv, NEW r \in Reqs, NEW p \in PolicyNames, DeletePolicy(r, p)
  PROVE  JInv'
<1>1. Count /\ policies' = Without(policies, p) /\ End(r) /\ UNCHANGED <<keys, made>>
  BY DEF DeletePolicy, Administer
<1>2. UsersOK(users) /\ GroupsOK(groups) /\ RefsIn(users, groups, policies) /\ OwnedIn(users, keys)
  BY DEF JInv
<1>3. DOMAIN policies' = DOMAIN policies \ {p} /\ \A x \in DOMAIN policies' : policies'[x] = policies[x]
  BY <1>1 DEF Without
<1>4. PoliciesOK(policies')
  BY <1>3, IamAssumption DEF JInv, PoliciesOK, Admin
<1>5. DOMAIN users' = DOMAIN users /\ DOMAIN groups' = DOMAIN groups
  BY DEF DeletePolicy
<1>6. ASSUME NEW n \in DOMAIN users
      PROVE  /\ UserOK(users'[n]) /\ users'[n].groups = users[n].groups
             /\ users'[n].born = users[n].born /\ users'[n].pols = users[n].pols \ {p}
  <2>1. users[n] \in User /\ users[n].from = {}
    BY <1>2 DEF UsersOK, UserOK
  <2>2. users'[n] = [users[n] EXCEPT !.pols = users[n].pols \ {p}]
    BY DEF DeletePolicy
  <2>. QED  BY <2>1, <2>2 DEF User, UserOK
<1>7. ASSUME NEW g \in DOMAIN groups
      PROVE  groups'[g] \in Group /\ groups'[g].members = groups[g].members /\ groups'[g].pols = groups[g].pols \ {p}
  <2>1. groups[g] \in Group
    BY <1>2 DEF GroupsOK
  <2>2. groups'[g] = [groups[g] EXCEPT !.pols = groups[g].pols \ {p}]
    BY DEF DeletePolicy
  <2>. QED  BY <2>1, <2>2 DEF Group
<1>8. UsersOK(users') /\ GroupsOK(groups')
  BY <1>2, <1>5, <1>6, <1>7 DEF UsersOK, GroupsOK
<1>9. OwnedIn(users', keys')
  BY <1>1, <1>2, <1>5, <1>6 DEF OwnedIn
<1>10. RefsIn(users', groups', policies')
  <2>1. \A n \in DOMAIN users' : users'[n].groups \subseteq DOMAIN groups' /\ users'[n].pols \subseteq DOMAIN policies'
    BY <1>2, <1>3, <1>5, <1>6 DEF RefsIn
  <2>2. ASSUME NEW g \in DOMAIN groups'
        PROVE  /\ groups'[g].pols \subseteq DOMAIN policies'
               /\ groups'[g].members = {n \in DOMAIN users' : g \in users'[n].groups}
    <3>1. groups[g].pols \subseteq DOMAIN policies /\ groups[g].members = {n \in DOMAIN users : g \in users[n].groups}
      BY <1>2, <1>5 DEF RefsIn
    <3>2. {n \in DOMAIN users' : g \in users'[n].groups} = {n \in DOMAIN users : g \in users[n].groups}
      BY <1>5, <1>6
    <3>. QED  BY <3>1, <3>2, <1>3, <1>5, <1>7
  <2>. QED  BY <2>1, <2>2 DEF RefsIn
<1>11. RequestsOK(req') /\ ops' \in 0..MaxOps
  BY <1>1, Ended, Carried, Counted
<1>. QED  BY <1>1, <1>4, <1>8, <1>9, <1>10, <1>11, Assembled DEF JInv

-----------------------------------------------------------------------------
(* The invariant, and what follows from it *)

\* A new store has no users, and its requests are idle.
LEMMA InitJInv ==
  ASSUME Init
  PROVE  JInv
<1>1. DOMAIN users = {} /\ DOMAIN groups = {} /\ DOMAIN keys = {}
  BY DEF Init
<1>2. UsersOK(users) /\ GroupsOK(groups) /\ KeysOK(keys) /\ RefsIn(users, groups, policies) /\ OwnedIn(users, keys)
  BY <1>1 DEF UsersOK, GroupsOK, KeysOK, RefsIn, OwnedIn
<1>3. PoliciesOK(policies)
  BY DEF Init, PoliciesOK, Policies, Docs
<1>4. RequestsOK(req)
  BY IdleOK DEF Init, RequestsOK, RequestOK
<1>. QED  BY <1>2, <1>3, <1>4, IamAssumption DEF Init, JInv

\* What concerns one user.
LEMMA UserStepOK ==
  ASSUME JInv, NEW r \in Reqs, NEW n \in Users, UserStep(r, n)
  PROVE  JInv'
<1>1. CASE VerifyPassword(r, n)
  BY <1>1, VerifyPasswordStep
<1>2. CASE \E pols \in SUBSET Policies : SetUserPolicies(r, n, pols)
  BY <1>2, SetUserPoliciesStep
<1>3. CASE n \in Names /\ CreateUser(r, n)
  BY <1>3, CreateUserStep
<1>4. CASE n \in Names /\ \E pols \in {{}, {Admin}}, form \in Forms : CreateUserSteps(r, n, pols, form.named, form.todo)
  <2>1. PICK pols \in {{}, {Admin}}, form \in Forms : CreateUserSteps(r, n, pols, form.named, form.todo)
    BY <1>4
  <2>2. form.named \in BOOLEAN
    BY DEF Forms
  <2>3. form.todo \in {<<>>, <<"key">>, <<"password">>, <<"key", "password">>, <<"password", "key">>}
    BY DEF Forms
  <2>4. <<>> \in Seq({"key", "password"}) /\ <<"key">> \in Seq({"key", "password"})
    OBVIOUS
  <2>5. <<"password">> \in Seq({"key", "password"})
    OBVIOUS
  <2>6. <<"key", "password">> \in Seq({"key", "password"})
    OBVIOUS
  <2>7. <<"password", "key">> \in Seq({"key", "password"})
    OBVIOUS
  <2>8. form.todo \in Seq({"key", "password"})
    BY <2>3, <2>4, <2>5, <2>6, <2>7, Zenon
  <2>. QED  BY <1>4, <2>1, <2>2, <2>8, CreateUserStepsStep
<1>5. CASE DeleteUser(r, n)
  BY <1>5, DeleteUserStep
<1>6. CASE SetUserStatus(r, n)
  BY <1>6, SetUserStatusStep
<1>7. CASE SetPassword(r, n)
  BY <1>7, SetPasswordStep
<1>8. CASE ClearPassword(r, n)
  BY <1>8, ClearPasswordStep
<1>9. ASSUME NEW k \in KeyIds, NEW policy \in Sessions \cup {None}, NEW exp \in {"never", "later"},
             CreateKey(r, n, k, IF policy = None /\ exp = "never" THEN "user" ELSE "service", policy, exp)
      PROVE  JInv'
  <2> DEFINE kind == IF policy = None /\ exp = "never" THEN "user" ELSE "service"
  <2>1. kind \in {"user", "service"} /\ CreateKey(r, n, k, kind, policy, exp)
    BY <1>9
  <2>. HIDE DEF kind
  <2>. QED  BY <2>1, CreateKeyStep
<1>. QED  BY <1>1, <1>2, <1>3, <1>4, <1>5, <1>6, <1>7, <1>8, <1>9 DEF UserStep

\* What concerns one key, a group, a policy or the request alone.
LEMMA RequestStepOK ==
  ASSUME JInv, NEW r \in Reqs, RequestStep(r)
  PROVE  JInv'
<1>1. CASE ResolveRoot(r) \/ Refuse(r)
  BY <1>1, ResolveRootStep, RefuseStep
<1>2. CASE StepPassword(r) \/ StepKey(r) \/ StepFails(r) \/ Undo(r)
  BY <1>2, StepPasswordStep, StepKeyStep, StepFailsStep, UndoStep
<1>3. CASE \E n \in Users : UserStep(r, n)
  BY <1>3, UserStepOK
<1>4. ASSUME NEW k \in KeyIds, KeyStep(r, k)
      PROVE  JInv'
  BY <1>4, ResolveStep, SetKeyStatusStep, SetSecretStep, DeleteKeyStep, SetKeyPolicyStep DEF KeyStep
<1>5. ASSUME NEW g \in Groups, GroupStep(r, g)
      PROVE  JInv'
  BY <1>5, CreateGroupStep, UpdateGroupStep, DeleteGroupStep DEF GroupStep
<1>6. ASSUME NEW policy \in Sessions \cup {None}, AssumeRole(r, policy)
      PROVE  JInv'
  <2>1. Session(r, policy, FALSE)
    BY <1>6 DEF AssumeRole
  <2>. QED  BY <2>1, SessionStep
<1>7. CASE ConsoleSession(r)
  <2>1. Session(r, None, TRUE) /\ Restrictions(req[r].id) = {}
    BY <1>7, Carried DEF ConsoleSession, RequestOK
  <2>2. None \in Sessions \cup {None} /\ TRUE \in BOOLEAN
    OBVIOUS
  <2>. QED  BY <2>1, <2>2, SessionStep
<1>8. CASE \E p \in PolicyNames : DeletePolicy(r, p) \/ \E doc \in Docs : PutPolicy(r, p, doc)
  BY <1>8, DeletePolicyStep, PutPolicyStep
<1>. QED  BY <1>1, <1>2, <1>3, <1>4, <1>5, <1>6, <1>7, <1>8 DEF RequestStep

\* Every step keeps the invariant.
LEMMA NextJInv ==
  ASSUME JInv, [Next]_vars
  PROVE  JInv'
<1>1. CASE \E r \in Reqs : RequestStep(r)
  BY <1>1, RequestStepOK
<1>2. CASE \E k \in KeyIds : Expire(k)
  BY <1>2, ExpireStep
<1>3. CASE PurgeExpired
  BY <1>3, PurgeExpiredStep
<1>4. CASE UNCHANGED vars
  BY <1>4, Assembled DEF vars, JInv
<1>. QED  BY <1>1, <1>2, <1>3, <1>4 DEF Next

\* The invariant holds throughout.
LEMMA JInvHolds == Spec => []JInv
  BY InitJInv, NextJInv, PTL DEF Spec

\* The records keep their types; only sessions inherit session policies.
THEOREM StoreTypeCorrect == Spec => []TypeOK
<1>1. JInv => TypeOK
  BY DEF JInv, TypeOK, UsersOK, UserOK, GroupsOK, PoliciesOK, KeysOK, KeyOK, RequestsOK, Request
<1>. QED  BY <1>1, JInvHolds, PTL

\* The identity store's references are exact whatever requests interleave:
\* users and groups agree on memberships, and attached policies are there.
THEOREM ReferencesStayExact == Spec => []ReferencesExact
<1>1. JInv => ReferencesExact
  BY DEF JInv, ReferencesExact, RefsIn
<1>. QED  BY <1>1, JInvHolds, PTL

\* No credential sheds a restriction of the one it was obtained with
\* (CheckCredentialIssuer, AssumeRole, the console's logins).
THEOREM NoRestrictionShed == Spec => []RestrictionsInherited
<1>1. JInv => RestrictionsInherited
  BY DEF JInv, RestrictionsInherited, KeysOK, KeyOK, UsersOK, UserOK
<1>. QED  BY <1>1, JInvHolds, PTL

\* A permanent key goes with the user that had its user's name when it was
\* stored (CreateKey, RemoveUser), and an access key with a user's name is that
\* user's.
THEOREM KeysStayOwned == Spec => []KeysOwned
<1>1. JInv => KeysOwned
  BY DEF JInv, KeysOwned, OwnedIn
<1>. QED  BY <1>1, JInvHolds, PTL
=============================================================================
