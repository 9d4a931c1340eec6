-------------------------- MODULE LifecycleProofs --------------------------
(***************************************************************************)
(* What the lifecycle worker may never do to a bucket that clients change  *)
(* under its pass, for any number of keys, rules, operations and any batch *)
(* size.                                                                   *)
(*                                                                         *)
(* The properties are about single steps, but a step is right only because *)
(* of what the state before it is like: no two versions share a sequence,  *)
(* none is locked outside a bucket with Object Lock, a write on its way    *)
(* has a sequence nobody else has, and every decision still in the batch   *)
(* is one that the rules of the pass asked for at its time.                *)
(***************************************************************************)
EXTENDS Lifecycle, FiniteSetTheorems, WellFoundedInduction, TLAPS

KindSet == {"NoncurrentTransition", "Transition", "RemoveDeleteMarker",
            "ExpireNoncurrentVersion", "ExpireCurrent"}
Actions == [kind: KindSet, class: Classes]

\* The decisions that rules can ask for at a time.
Decided(rules, t) ==
  {c \in [obj: Version, act: Actions] :
     c.act.kind = "ExpireCurrent" => \E r \in rules : Matches(r, c.obj) /\ ExpDue(r, c.obj, t)}

VersionsOK(vs, s) ==
  /\ IsFiniteSet(vs) /\ vs \subseteq Version
  /\ \A v \in vs : v.seq <= s
  /\ \A v, x \in vs : v.seq = x.seq => v = x
  /\ \A v, x \in vs : v.key = x.key /\ v.null /\ x.null => v = x

\* The write on its way.
PutOK(ps, vs, s) ==
  /\ ps \subseteq Version
  /\ \A p \in ps : p.seq <= s /\ ~p.locked /\ \A v \in vs : p.seq # v.seq

HeldIn(vs, st) == \A v \in vs : v.locked => st = "Locked"

WorkerOK(w, t) ==
  /\ DOMAIN w = DOMAIN Idle
  /\ w.stage \in {"idle", "scan", "apply", "uploads", "abort"}
  /\ w.rules \subseteq Rule /\ w.now \in Nat /\ w.now <= t
  /\ w.stage = "apply" => w.batch \in Seq(Decided(w.rules, w.now))
  /\ w.batch # <<>> => w.stage \in {"apply", "abort"}

LcInv ==
  /\ status \in {"None", "Off", "Enabled", "Suspended", "Locked"} /\ cfg \in Configs \cup {{}}
  /\ seq \in Nat /\ now \in 0..MaxTime /\ ops \in 0..MaxOps
  /\ VersionsOK(vers, seq) /\ PutOK(put, vers, seq) /\ HeldIn(vers, status)
  /\ uploads \subseteq Upload
  /\ WorkerOK(worker, now)

-----------------------------------------------------------------------------
(* Choices *)

\* Every set of naturals has a least element.
LEMMA LeastOf ==
  ASSUME NEW T \in SUBSET Nat, T # {}
  PROVE  \E m \in T : \A k \in T : m <= k
<1> DEFINE R == OpToRel(<, Nat)
<1>1. IsWellFoundedOn(R, Nat)
  BY NatLessThanWellFounded
<1>2. \A x, y \in Nat : x < y => <<x, y>> \in R
  BY DEF OpToRel
<1>. HIDE DEF R
<1>3. PICK m \in T : \A k \in T : ~(<<k, m>> \in R)
  BY <1>1, WFMin
<1>4. ASSUME NEW k \in T PROVE m <= k
  <2>1. m \in Nat /\ k \in Nat /\ ~(k < m)
    BY <1>2, <1>3
  <2>. QED  BY <2>1
<1>. QED  BY <1>4

\* A bounded set of naturals has a greatest one.
LEMMA GreatestOf ==
  ASSUME NEW n \in Nat, NEW T \in SUBSET (0..n), T # {}
  PROVE  \E m \in T : \A k \in T : k <= m
<1> DEFINE U == {n - k : k \in T}
<1>1. \A k \in T : n - k \in Nat
  OBVIOUS
<1>2. U \in SUBSET Nat /\ U # {}
  BY <1>1
<1>3. PICK u \in U : \A x \in U : u <= x
  BY <1>2, LeastOf
<1>4. PICK m \in T : u = n - m
  OBVIOUS
<1>5. \A k \in T : n - m <= n - k
  BY <1>3, <1>4
<1>6. ASSUME NEW k \in T PROVE k <= m
  <2>1. k \in 0..n /\ m \in 0..n
    OBVIOUS
  <2>2. n - m <= n - k
    BY <1>5
  <2>. QED  BY <2>1, <2>2
<1>. QED  BY <1>6

\* The newest of some versions is one of them.
LEMMA NewestIs ==
  ASSUME NEW s \in Nat, NEW vs, vs # {}, \A v \in vs : v.seq \in Nat /\ v.seq <= s
  PROVE  Newest(vs) \in vs /\ \A x \in vs : x.seq <= Newest(vs).seq
<1> DEFINE T == {v.seq : v \in vs}
<1>1. T \in SUBSET (0..s) /\ T # {}
  OBVIOUS
<1>2. PICK m \in T : \A k \in T : k <= m
  BY <1>1, GreatestOf
<1>3. PICK v \in vs : v.seq = m
  OBVIOUS
<1>4. \A x \in vs : x.seq <= v.seq
  BY <1>2, <1>3
<1>. QED  BY <1>4 DEF Newest

\* The kinds of action in their order.
LEMMA RankIs ==
  /\ Rank("NoncurrentTransition") = 1 /\ Rank("Transition") = 2 /\ Rank("RemoveDeleteMarker") = 3
  /\ Rank("ExpireNoncurrentVersion") = 4 /\ Rank("ExpireCurrent") = 5
<1>1. DOMAIN Kinds = 1..5
  BY DEF Kinds
<1>2. Kinds[1] = "NoncurrentTransition"
  BY DEF Kinds
<1>3. Kinds[2] = "Transition"
  BY DEF Kinds
<1>4. Kinds[3] = "RemoveDeleteMarker"
  BY DEF Kinds
<1>5. Kinds[4] = "ExpireNoncurrentVersion"
  BY DEF Kinds
<1>6. Kinds[5] = "ExpireCurrent"
  BY DEF Kinds
<1>7. \A i \in 1..5 : i = 1 \/ i = 2 \/ i = 3 \/ i = 4 \/ i = 5
  OBVIOUS
<1>8. Rank("NoncurrentTransition") = 1
  BY <1>1, <1>2, <1>3, <1>4, <1>5, <1>6, <1>7 DEF Rank
<1>9. Rank("Transition") = 2
  BY <1>1, <1>2, <1>3, <1>4, <1>5, <1>6, <1>7 DEF Rank
<1>10. Rank("RemoveDeleteMarker") = 3
  BY <1>1, <1>2, <1>3, <1>4, <1>5, <1>6, <1>7 DEF Rank
<1>11. Rank("ExpireNoncurrentVersion") = 4
  BY <1>1, <1>2, <1>3, <1>4, <1>5, <1>6, <1>7 DEF Rank
<1>12. Rank("ExpireCurrent") = 5
  BY <1>1, <1>2, <1>3, <1>4, <1>5, <1>6, <1>7 DEF Rank
<1>. QED  BY <1>8, <1>9, <1>10, <1>11, <1>12

\* The best of some actions is one of them: kinds and classes are ordered,
\* and there are finitely many.
LEMMA BestIs ==
  ASSUME NEW P \in SUBSET Actions, P # {}
  PROVE  Best(P) \in P
<1> DEFINE T == {Rank(a.kind) : a \in P}
<1>1. \A a \in P : a.kind \in KindSet /\ a.class \in 0..6
  BY DEF Actions, Classes
<1>2. \A a \in P : Rank(a.kind) \in 0..5
  BY <1>1, RankIs DEF KindSet
<1>3. T \in SUBSET (0..5) /\ T # {}
  BY <1>2
<1>4. PICK m \in T : \A k \in T : k <= m
  BY <1>3, GreatestOf
<1> DEFINE Q == {a \in P : Rank(a.kind) = m}
           C == {a.class : a \in Q}
<1>5. C \in SUBSET (0..6) /\ C # {}
  BY <1>1, <1>4
<1>6. PICK c \in C : \A k \in C : k <= c
  BY <1>5, GreatestOf
<1>7. PICK a \in P : Rank(a.kind) = m /\ a.class = c
  OBVIOUS
<1>8. ASSUME NEW b \in P
      PROVE  Rank(b.kind) < Rank(a.kind) \/ (b.kind = a.kind /\ b.class <= a.class)
  <2>1. Rank(b.kind) <= m /\ Rank(b.kind) \in 0..5 /\ m \in 0..5
    BY <1>2, <1>4, <1>3
  <2>2. CASE Rank(b.kind) < m
    BY <2>2, <1>7
  <2>3. CASE Rank(b.kind) = m
    <3>1. b.class <= a.class
      BY <2>3, <1>6, <1>7
    <3>2. b.kind = a.kind
      BY <2>3, <1>1, <1>7, RankIs DEF KindSet
    <3>. QED  BY <3>1, <3>2
  <2>. QED  BY <2>1, <2>2, <2>3
<1>. QED  BY <1>8 DEF Best

\* expiresAt is never before the days are over, where they fit a duration.
LEMMA NotBefore ==
  ASSUME NEW t \in Nat, NEW n \in Nat, Fits(n)
  PROVE  ExpiresAt(t, n) \in Nat /\ ExpiresAt(t, n) >= t + n * Day
<1> DEFINE m == t + n * Day
<1>1. m \in Nat /\ Day \in Nat /\ Day > 0
  BY LifecycleAssumption
<1>2. ExpiresAt(t, n) = ((m + Day - 1) \div Day) * Day
  BY DEF ExpiresAt, Duration
<1>. HIDE DEF m
<1> DEFINE q == (m + Day - 1) \div Day
<1>3. q \in Nat /\ m + Day - 1 < (q + 1) * Day
  BY <1>1
<1>4. ExpiresAt(t, n) = q * Day
  BY <1>2
<1>. HIDE DEF q
<1>5. q * Day \in Nat /\ (q + 1) * Day = q * Day + Day
  BY <1>1, <1>3
<1>. QED  BY <1>1, <1>3, <1>4, <1>5 DEF m

-----------------------------------------------------------------------------
(* Decisions *)

\* What a rule proposes, and when it proposes to expire a current version.
LEMMA SaysIs ==
  ASSUME NEW r \in Rule, NEW vs, NEW v \in Version, NEW t, NEW a \in Says(r, vs, v, t)
  PROVE  a \in Actions /\ (a.kind = "ExpireCurrent" => ExpDue(r, v, t))
<1>1. 0 \in Classes
  BY DEF Classes
<1>2. CASE Above(vs, v) # {}
  <2> DEFINE since == Oldest(Above(vs, v)).mod
             newer == Cardinality(Above(vs, v)) - 1
  <2>1. a \in EvalNoncurrent(r, v, since, newer, t)
    BY <1>2 DEF Says
  <2>. HIDE DEF since, newer
  <2>2. a = Action("ExpireNoncurrentVersion", 0) \/ \E x \in r.ncTrans : a = Action("NoncurrentTransition", x.class)
    BY <2>1 DEF EvalNoncurrent
  <2>3. \A x \in r.ncTrans : x.class \in Classes
    BY DEF Rule
  <2>. QED  BY <1>1, <2>2, <2>3 DEF Action, Actions, KindSet
<1>3. CASE Above(vs, v) = {} /\ v.marker
  <2> DEFINE older == Cardinality(OfKey(vs, v.key)) > 1
  <2>1. a \in EvalDeleteMarker(r, v, older, t)
    BY <1>3 DEF Says
  <2>. HIDE DEF older
  <2>2. a = Action("RemoveDeleteMarker", 0)
    BY <2>1 DEF EvalDeleteMarker
  <2>. QED  BY <1>1, <2>2 DEF Action, Actions, KindSet
<1>4. CASE Above(vs, v) = {} /\ ~v.marker
  <2>1. a \in EvalCurrent(r, v, t)
    BY <1>4 DEF Says
  <2>2. \A x \in r.trans : x.class \in Classes
    BY DEF Rule
  <2>3. CASE ExpDue(r, v, t)
    <3>1. a = Action("ExpireCurrent", 0)
      BY <2>1, <2>3 DEF EvalCurrent
    <3>. QED  BY <1>1, <2>3, <3>1 DEF Action, Actions, KindSet
  <2>4. CASE ~ExpDue(r, v, t)
    <3>1. \E x \in r.trans : a = Action("Transition", x.class)
      BY <2>1, <2>4 DEF EvalCurrent
    <3>. QED  BY <2>2, <3>1 DEF Action, Actions, KindSet
  <2>. QED  BY <2>3, <2>4
<1>5. v.marker \in BOOLEAN
  BY DEF Version
<1>. QED  BY <1>2, <1>3, <1>4, <1>5

\* What is due is decided by the rules.
LEMMA DueDecided ==
  ASSUME NEW rules \in SUBSET Rule, NEW t, vers \subseteq Version, NEW c \in Due(rules, t)
  PROVE  c \in Decided(rules, t)
<1>1. PICK v \in vers : /\ Proposed(rules, vers, v, t) # {}
                        /\ c = [obj |-> v, act |-> Best(Proposed(rules, vers, v, t))]
  BY DEF Due
<1> DEFINE P == Proposed(rules, vers, v, t)
<1>2. ASSUME NEW a \in P
      PROVE  a \in Actions /\ (a.kind = "ExpireCurrent" => \E r \in rules : Matches(r, v) /\ ExpDue(r, v, t))
  <2>1. PICK r \in rules : Matches(r, v) /\ a \in Says(r, vers, v, t)
    BY <1>2 DEF Proposed
  <2>2. v \in Version /\ r \in Rule
    OBVIOUS
  <2>3. a \in Actions /\ (a.kind = "ExpireCurrent" => ExpDue(r, v, t))
    BY <2>1, <2>2, SaysIs
  <2>. QED  BY <2>1, <2>3
<1>3. P \in SUBSET Actions /\ P # {}
  BY <1>1, <1>2
<1>. HIDE DEF P
<1>4. Best(P) \in P
  BY <1>3, BestIs
<1>5. c = [obj |-> v, act |-> Best(P)] /\ v \in Version
  BY <1>1 DEF P
<1>6. c \in [obj: Version, act: Actions] /\ c.obj = v /\ c.act = Best(P)
  BY <1>3, <1>4, <1>5
<1>. QED  BY <1>2, <1>4, <1>6 DEF Decided

\* There are finitely many.
LEMMA DueFinite ==
  ASSUME NEW rules, NEW t, IsFiniteSet(vers), NEW C, C \subseteq Due(rules, t)
  PROVE  IsFiniteSet(C) /\ Cardinality(C) \in Nat
<1> DEFINE D == {v \in vers : Proposed(rules, vers, v, t) # {}}
           f == [v \in D |-> [obj |-> v, act |-> Best(Proposed(rules, vers, v, t))]]
<1>1. IsFiniteSet(D)
  BY FS_Subset
<1>2. f \in Surjection(D, Due(rules, t))
  <2>1. f \in [D -> Due(rules, t)]
    BY DEF Due
  <2>2. \A c \in Due(rules, t) : \E v \in D : f[v] = c
    BY DEF Due
  <2>. QED  BY <2>1, <2>2 DEF Surjection
<1>. HIDE DEF D, f
<1>3. IsFiniteSet(Due(rules, t))
  BY <1>1, <1>2, FS_Surjection
<1>4. IsFiniteSet(C)
  BY <1>3, FS_Subset
<1>. QED  BY <1>4, FS_CardinalityType

-----------------------------------------------------------------------------
(* What a change of the versions keeps *)

\* The parts of the invariant after a step make it up again.
LEMMA LcAssembled ==
  ASSUME status' \in {"None", "Off", "Enabled", "Suspended", "Locked"}, cfg' \in Configs \cup {{}},
         seq' \in Nat, now' \in 0..MaxTime, ops' \in 0..MaxOps,
         VersionsOK(vers', seq'), PutOK(put', vers', seq'), HeldIn(vers', status'),
         uploads' \subseteq Upload, WorkerOK(worker', now')
  PROVE  LcInv'
  BY DEF LcInv, VersionsOK, PutOK, HeldIn, WorkerOK, Decided, Matches, ExpDue, ExpiresAt, Duration, Fits, Actions, KindSet, Idle

\* Versions go.
LEMMA Fewer ==
  ASSUME NEW vs, NEW s, NEW ps, NEW st, VersionsOK(vs, s), PutOK(ps, vs, s), HeldIn(vs, st),
         NEW vs2, vs2 \subseteq vs
  PROVE  VersionsOK(vs2, s) /\ PutOK(ps, vs2, s) /\ HeldIn(vs2, st)
<1>1. IsFiniteSet(vs2)
  BY FS_Subset DEF VersionsOK
<1>2. VersionsOK(vs2, s)
  BY <1>1 DEF VersionsOK
<1>3. PutOK(ps, vs2, s) /\ HeldIn(vs2, st)
  BY DEF PutOK, HeldIn
<1>. QED  BY <1>2, <1>3

\* A new version takes a new sequence, and the place of the null version if
\* it is one itself.
LEMMA Another ==
  ASSUME NEW vs, NEW s \in Nat, NEW ps, NEW st, VersionsOK(vs, s), PutOK(ps, vs, s), HeldIn(vs, st),
         NEW s2 \in Nat, s <= s2, NEW v \in Version, v.seq <= s2, ~v.locked,
         \A x \in vs : x.seq # v.seq, \A p \in ps : p.seq # v.seq,
         NEW vs2, \A x \in vs2 : x \in vs \/ x = v, \A x \in vs2 : v.null /\ x.null /\ x.key = v.key => x = v
  PROVE  VersionsOK(vs2, s2) /\ PutOK(ps, vs2, s2) /\ HeldIn(vs2, st)
<1>1. IsFiniteSet(vs2)
  <2>1. IsFiniteSet(vs \cup {v})
    BY FS_AddElement DEF VersionsOK
  <2>2. vs2 \in SUBSET (vs \cup {v})
    OBVIOUS
  <2>. QED  BY <2>1, <2>2, FS_Subset
<1>2. vs2 \subseteq Version /\ vs \subseteq Version
  BY DEF VersionsOK
<1>3. \A x \in vs2 : x.seq <= s2
  <2>1. \A x \in vs : x.seq \in Nat /\ x.seq <= s
    BY <1>2 DEF VersionsOK, Version
  <2>. QED  BY <2>1
<1>4. \A x, y \in vs2 : x.seq = y.seq => x = y
  BY DEF VersionsOK
<1>5. \A x, y \in vs2 : x.key = y.key /\ x.null /\ y.null => x = y
  BY DEF VersionsOK
<1>6. VersionsOK(vs2, s2)
  BY <1>1, <1>2, <1>3, <1>4, <1>5 DEF VersionsOK
<1>7. \A p \in ps : p.seq <= s2
  <2>1. \A p \in ps : p.seq \in Nat /\ p.seq <= s
    BY DEF PutOK, Version
  <2>. QED  BY <2>1
<1>8. PutOK(ps, vs2, s2)
  BY <1>7 DEF PutOK
<1>9. HeldIn(vs2, st)
  BY DEF HeldIn
<1>. QED  BY <1>6, <1>8, <1>9

\* A version is rewritten in its place.
LEMMA Rewritten ==
  ASSUME NEW vs, NEW s, NEW ps, NEW st, VersionsOK(vs, s), PutOK(ps, vs, s), HeldIn(vs, st),
         NEW x \in vs, NEW y \in Version, y.key = x.key, y.seq = x.seq, y.null = x.null,
         y.locked => x.locked \/ st = "Locked", NEW vs2, vs2 = (vs \ {x}) \cup {y}
  PROVE  VersionsOK(vs2, s) /\ PutOK(ps, vs2, s) /\ HeldIn(vs2, st)
<1>1. IsFiniteSet(vs2)
  <2>1. IsFiniteSet(vs \ {x})
    BY FS_RemoveElement DEF VersionsOK
  <2>. QED  BY <2>1, FS_AddElement
<1>2. VersionsOK(vs2, s)
  BY <1>1 DEF VersionsOK
<1>3. PutOK(ps, vs2, s) /\ HeldIn(vs2, st)
  BY DEF PutOK, HeldIn
<1>. QED  BY <1>2, <1>3

\* The parts that a step leaves alone.
LEMMA LcParts ==
  ASSUME LcInv
  PROVE  /\ VersionsOK(vers, seq) /\ PutOK(put, vers, seq) /\ HeldIn(vers, status) /\ WorkerOK(worker, now)
         /\ seq \in Nat /\ now \in Nat /\ ops \in 0..MaxOps /\ vers \subseteq Version /\ put \subseteq Version
  BY LifecycleAssumption DEF LcInv, VersionsOK, PutOK

\* A step of the worker that changes nothing else.
LEMMA WorkerOnly ==
  ASSUME LcInv, UNCHANGED <<bucket, vers, uploads, put, seq, now, ops>>, WorkerOK(worker', now)
  PROVE  LcInv'
<1>1. UNCHANGED <<status, cfg>>
  BY DEF bucket
<1>. QED  BY <1>1, LcAssembled DEF LcInv

-----------------------------------------------------------------------------
(* The worker *)

\* PassStart
LEMMA PassStartStep ==
  ASSUME LcInv, PassStart
  PROVE  LcInv'
<1> DEFINE d == IF put = {} THEN Due(cfg, now) ELSE {}
           u == {x \in uploads : AbortAfter(cfg, x, now)}
<1>1. worker' = [Idle EXCEPT !.stage = "scan", !.now = now, !.rules = cfg, !.due = d, !.dueUploads = u]
  BY DEF PassStart
<1>. HIDE DEF d, u
<1>2. cfg \subseteq Rule /\ now \in Nat
  BY LifecycleAssumption, LcParts DEF LcInv
<1>3. DOMAIN worker' = DOMAIN Idle
  BY <1>1
<1>4. worker'.stage = "scan" /\ worker'.now = now /\ worker'.rules = cfg /\ worker'.batch = <<>>
  BY <1>1 DEF Idle
<1>5. WorkerOK(worker', now)
  BY <1>2, <1>3, <1>4 DEF WorkerOK
<1>. QED  BY <1>5, WorkerOnly DEF PassStart

\* Collect: what it collects was decided by the rules of the pass.
LEMMA CollectStep ==
  ASSUME LcInv, Collect
  PROVE  LcInv'
<1>1. PICK to, p, batch : /\ batch \in [1..Cardinality(Candidates(worker.pos, to)) -> Candidates(worker.pos, to)]
                          /\ worker' = [worker EXCEPT !.stage = "apply", !.batch = batch, !.pos = p]
  BY DEF Collect
<1> DEFINE C == Candidates(worker.pos, to)
           R == worker.rules
           T == worker.now
<1>2. WorkerOK(worker, now) /\ vers \subseteq Version /\ IsFiniteSet(vers)
  BY LcParts DEF VersionsOK
<1>3. C \subseteq Due(R, T)
  BY DEF Candidates
<1>4. Cardinality(C) \in Nat
  BY <1>2, <1>3, DueFinite
<1>5. R \in SUBSET Rule
  BY <1>2 DEF WorkerOK
<1>6. C \subseteq Decided(R, T)
  BY <1>2, <1>3, <1>5, DueDecided
<1>7. batch \in Seq(Decided(R, T))
  <2>1. batch \in [1..Cardinality(C) -> Decided(R, T)]
    BY <1>1, <1>6
  <2>. QED  BY <1>4, <2>1
<1>8. DOMAIN worker' = DOMAIN worker /\ "stage" \in DOMAIN worker /\ "batch" \in DOMAIN worker
  BY <1>1, <1>2 DEF WorkerOK, Idle
<1>9. worker'.stage = "apply" /\ worker'.batch = batch /\ worker'.rules = R /\ worker'.now = T
  BY <1>1, <1>8
<1>. HIDE DEF C, R, T
<1>10. WorkerOK(worker', now)
  BY <1>2, <1>7, <1>8, <1>9 DEF WorkerOK, R, T
<1>. QED  BY <1>10, WorkerOnly DEF Collect

\* A decision has been dealt with.
LEMMA AppliedOK ==
  ASSUME WorkerOK(worker, now), Applying, Applied
  PROVE  WorkerOK(worker', now) /\ Candidate \in Decided(worker.rules, worker.now)
<1>1. worker.stage = "apply" /\ worker.batch \in Seq(Decided(worker.rules, worker.now)) /\ worker.batch # <<>>
  BY DEF WorkerOK, Applying
<1>2. worker' = [worker EXCEPT !.batch = Tail(worker.batch)]
  BY DEF Applied
<1>3. DOMAIN worker' = DOMAIN worker /\ "batch" \in DOMAIN worker
  BY <1>2 DEF WorkerOK, Idle
<1>4. worker'.batch = Tail(worker.batch) /\ worker'.stage = worker.stage /\ worker'.rules = worker.rules /\ worker'.now = worker.now
  BY <1>2, <1>3
<1>5. Tail(worker.batch) \in Seq(Decided(worker.rules, worker.now)) /\ Head(worker.batch) \in Decided(worker.rules, worker.now)
  <2> DEFINE S == Decided(worker.rules, worker.now)
             b == worker.batch
  <2>1. b \in Seq(S) /\ b # <<>>
    BY <1>1
  <2>. HIDE DEF S, b
  <2>2. Tail(b) \in Seq(S) /\ Head(b) \in S
    BY <2>1
  <2>. QED  BY <2>2 DEF S, b
<1>6. WorkerOK(worker', now)
  BY <1>1, <1>3, <1>4, <1>5 DEF WorkerOK
<1>. QED  BY <1>5, <1>6 DEF Candidate

\* The version that a write or a delete marker of this moment adds.
LEMMA MarkerOK ==
  ASSUME LcInv, NEW k \in Keys, NEW null \in BOOLEAN, NEW m, m = MarkerOf(k, null)
  PROVE  m \in Version /\ m.seq = seq + 1 /\ m.key = k /\ m.null = null /\ ~m.locked
<1>1. seq + 1 \in Nat /\ now \in Nat /\ "any" \in Tags /\ 0 \in Classes
  BY LcParts, LifecycleAssumption DEF Classes
<1>. QED  BY <1>1 DEF MarkerOf, Version

\* DeleteObject without a version ID: a marker is added, or the one version
\* there goes.
LEMMA DeleteLatestOK ==
  ASSUME LcInv, NEW k \in Keys, DeleteLatest(k)
  PROVE  VersionsOK(vers', seq') /\ PutOK(put, vers', seq') /\ HeldIn(vers', status) /\ seq' \in Nat
<1>1. /\ VersionsOK(vers, seq) /\ PutOK(put, vers, seq) /\ HeldIn(vers, status)
      /\ seq \in Nat /\ vers \subseteq Version /\ put \subseteq Version
  BY LcParts
<1>2. seq + 1 \in Nat /\ seq <= seq + 1
  BY <1>1
<1>3. \A x \in vers \cup put : x.seq \in Nat /\ x.seq # seq + 1
  BY <1>1 DEF VersionsOK, PutOK, Version
<1>4. CASE vers' = vers \cup {MarkerOf(k, FALSE)} /\ seq' = seq + 1
  <2> DEFINE m == MarkerOf(k, FALSE)
  <2>1. m \in Version /\ m.seq = seq + 1 /\ m.key = k /\ ~m.null /\ ~m.locked
    BY MarkerOK
  <2>2. vers' = vers \cup {m}
    BY <1>4
  <2>. HIDE DEF m
  <2>3. /\ \A x \in vers' : x \in vers \/ x = m
        /\ \A x \in vers' : m.null /\ x.null /\ x.key = m.key => x = m
        /\ \A x \in vers : x.seq # m.seq
        /\ \A x \in put : x.seq # m.seq
        /\ m.seq <= seq + 1
    BY <1>2, <1>3, <2>1, <2>2
  <2>4. VersionsOK(vers', seq + 1) /\ PutOK(put, vers', seq + 1) /\ HeldIn(vers', status)
    BY <1>1, <1>2, <2>1, <2>3, Another
  <2>. QED  BY <1>2, <1>4, <2>4
<1>5. CASE vers' = (vers \ NullVersions(k)) \cup {MarkerOf(k, TRUE)} /\ seq' = seq + 1
  <2> DEFINE m == MarkerOf(k, TRUE)
  <2>1. m \in Version /\ m.seq = seq + 1 /\ m.key = k /\ m.null /\ ~m.locked
    BY MarkerOK
  <2>2. vers' = (vers \ NullVersions(k)) \cup {m}
    BY <1>5
  <2>. HIDE DEF m
  <2>3. /\ \A x \in vers' : x \in vers \/ x = m
        /\ \A x \in vers' : m.null /\ x.null /\ x.key = m.key => x = m
        /\ \A x \in vers : x.seq # m.seq
        /\ \A x \in put : x.seq # m.seq
        /\ m.seq <= seq + 1
    BY <1>2, <1>3, <2>1, <2>2 DEF NullVersions
  <2>4. VersionsOK(vers', seq + 1) /\ PutOK(put, vers', seq + 1) /\ HeldIn(vers', status)
    BY <1>1, <1>2, <2>1, <2>3, Another
  <2>. QED  BY <1>2, <1>5, <2>4
<1>6. CASE vers' = vers \ {Newest(OfKey(vers, k))} /\ seq' = seq
  <2>1. vers' \subseteq vers
    BY <1>6
  <2>. QED  BY <1>1, <1>6, <2>1, Fewer
<1>. QED  BY <1>4, <1>5, <1>6 DEF DeleteLatest

\* What a decision is about.
LEMMA CandidateIs ==
  ASSUME LcInv, Applying, Applied
  PROVE  /\ WorkerOK(worker', now) /\ Candidate \in Decided(worker.rules, worker.now)
         /\ Candidate.obj \in Version /\ Candidate.obj.key \in Keys /\ Candidate.obj.seq \in Nat
         /\ Candidate.act.class \in Classes
<1>1. WorkerOK(worker', now) /\ Candidate \in Decided(worker.rules, worker.now)
  BY AppliedOK, LcParts
<1>. HIDE DEF Candidate
<1>2. Candidate.obj \in Version /\ Candidate.act \in Actions
  BY <1>1 DEF Decided
<1>. QED  BY <1>1, <1>2 DEF Version, Actions

\* apply, KindExpireCurrent
LEMMA ExpireCurrentStep ==
  ASSUME LcInv, ExpireCurrent
  PROVE  LcInv'
<1>1. /\ Applying /\ Applied /\ DeleteLatest(Candidate.obj.key)
      /\ UNCHANGED <<status, cfg, uploads, put, now, ops>>
  BY DEF ExpireCurrent, bucket
<1>2. WorkerOK(worker', now) /\ Candidate.obj.key \in Keys
  BY <1>1, CandidateIs
<1>3. VersionsOK(vers', seq') /\ PutOK(put, vers', seq') /\ HeldIn(vers', status) /\ seq' \in Nat
  BY <1>1, <1>2, DeleteLatestOK
<1>. QED  BY <1>1, <1>2, <1>3, LcAssembled DEF LcInv

\* apply, KindExpireNoncurrentVersion and KindRemoveDeleteMarker
LEMMA DeleteVersionStep ==
  ASSUME LcInv, DeleteVersion
  PROVE  LcInv'
<1>1. Applying /\ Applied /\ vers' \subseteq vers /\ UNCHANGED <<status, cfg, uploads, put, seq, now, ops>>
  BY DEF DeleteVersion, bucket
<1>2. WorkerOK(worker', now)
  BY <1>1, CandidateIs
<1>3. VersionsOK(vers', seq) /\ PutOK(put, vers', seq) /\ HeldIn(vers', status)
  BY <1>1, LcParts, Fewer
<1>. QED  BY <1>1, <1>2, <1>3, LcAssembled DEF LcInv

\* apply, KindTransition and KindNoncurrentTransition
LEMMA TransitionStep ==
  ASSUME LcInv, Transition
  PROVE  LcInv'
<1>1. Applying /\ Applied /\ UNCHANGED <<status, cfg, uploads, put, seq, now, ops>>
  BY DEF Transition, bucket
<1>2. PICK x \in vers : vers' = (vers \ {x}) \cup {Transitioned(x)}
  BY DEF Transition, Current
<1>3. WorkerOK(worker', now) /\ Candidate.act.class \in Classes
  BY <1>1, CandidateIs
<1> DEFINE y == Transitioned(x)
<1>4. x \in Version
  BY LcParts
<1>5. y \in Version /\ y.key = x.key /\ y.seq = x.seq /\ y.null = x.null /\ y.locked = x.locked
  BY <1>3, <1>4 DEF Version, Transitioned
<1>6. vers' = (vers \ {x}) \cup {y}
  BY <1>2
<1>. HIDE DEF y
<1>7. y.locked => x.locked \/ status = "Locked"
  BY <1>5
<1>8. VersionsOK(vers', seq) /\ PutOK(put, vers', seq) /\ HeldIn(vers', status)
  BY <1>5, <1>6, <1>7, LcParts, Rewritten
<1>. QED  BY <1>1, <1>3, <1>8, LcAssembled DEF LcInv

\* An action that is refused.
LEMMA SkipStep ==
  ASSUME LcInv, Skip
  PROVE  LcInv'
<1>1. Applying /\ Applied /\ UNCHANGED <<bucket, vers, uploads, put, seq, now, ops>>
  BY DEF Skip
<1>2. WorkerOK(worker', now)
  BY <1>1, CandidateIs
<1>. QED  BY <1>1, <1>2, WorkerOnly

\* Between passes the worker has nothing in hand.
LEMMA IdleWorker ==
  ASSUME NEW t \in Nat
  PROVE  WorkerOK(Idle, t)
  BY DEF WorkerOK, Idle

\* The worker goes on to another stage with an empty batch.
LEMMA NextStage ==
  ASSUME WorkerOK(worker, now), worker.batch = <<>>, NEW st \in {"scan", "uploads"},
         worker' = [worker EXCEPT !.stage = st]
  PROVE  WorkerOK(worker', now)
<1>1. DOMAIN worker' = DOMAIN worker /\ "stage" \in DOMAIN worker
  BY DEF WorkerOK, Idle
<1>2. worker'.stage = st /\ worker'.batch = worker.batch /\ worker'.rules = worker.rules /\ worker'.now = worker.now
  BY <1>1
<1>. QED  BY <1>1, <1>2 DEF WorkerOK

\* The end of a page
LEMMA PageDoneStep ==
  ASSUME LcInv, PageDone
  PROVE  LcInv'
<1>1. worker.batch = <<>> /\ UNCHANGED <<bucket, vers, uploads, put, seq, now, ops>>
  BY DEF PageDone
<1>2. \/ worker' = Idle \/ worker' = [worker EXCEPT !.stage = "scan"] \/ worker' = [worker EXCEPT !.stage = "uploads"]
  BY DEF PageDone
<1>3. WorkerOK(worker', now)
  <2>1. CASE worker' = Idle
    BY <2>1, LcParts, IdleWorker
  <2>2. CASE worker' = [worker EXCEPT !.stage = "scan"]
    BY <2>2, <1>1, LcParts, NextStage
  <2>3. CASE worker' = [worker EXCEPT !.stage = "uploads"]
    BY <2>3, <1>1, LcParts, NextStage
  <2>. QED  BY <1>2, <2>1, <2>2, <2>3
<1>. QED  BY <1>1, <1>3, WorkerOnly

\* and of a batch of uploads.
LEMMA UploadsDoneStep ==
  ASSUME LcInv, UploadsDone
  PROVE  LcInv'
<1>1. worker.batch = <<>> /\ UNCHANGED <<bucket, vers, uploads, put, seq, now, ops>>
  BY DEF UploadsDone
<1>2. worker' = Idle \/ worker' = [worker EXCEPT !.stage = "uploads"]
  BY DEF UploadsDone
<1>3. WorkerOK(worker', now)
  <2>1. CASE worker' = Idle
    BY <2>1, LcParts, IdleWorker
  <2>2. CASE worker' = [worker EXCEPT !.stage = "uploads"]
    BY <2>2, <1>1, LcParts, NextStage
  <2>. QED  BY <1>2, <2>1, <2>2
<1>. QED  BY <1>1, <1>3, WorkerOnly

\* processUploads
LEMMA CollectUploadsStep ==
  ASSUME LcInv, CollectUploads
  PROVE  LcInv'
<1>1. PICK b, f : worker' = [worker EXCEPT !.stage = "abort", !.batch = b, !.full = f]
  BY DEF CollectUploads
<1>2. WorkerOK(worker, now)
  BY LcParts
<1>3. DOMAIN worker' = DOMAIN worker /\ "stage" \in DOMAIN worker
  BY <1>1, <1>2 DEF WorkerOK, Idle
<1>4. worker'.stage = "abort" /\ worker'.rules = worker.rules /\ worker'.now = worker.now
  BY <1>1, <1>3
<1>5. WorkerOK(worker', now)
  BY <1>2, <1>3, <1>4 DEF WorkerOK
<1>. QED  BY <1>5, WorkerOnly DEF CollectUploads

\* AbortUpload
LEMMA AbortUploadStep ==
  ASSUME LcInv, AbortUpload
  PROVE  LcInv'
<1>1. PICK b, f : worker' = [worker EXCEPT !.batch = b, !.full = f]
  BY DEF AbortUpload
<1>2. WorkerOK(worker, now) /\ worker.stage = "abort"
  BY LcParts DEF AbortUpload
<1>3. DOMAIN worker' = DOMAIN worker /\ "stage" \in DOMAIN worker
  BY <1>1, <1>2 DEF WorkerOK, Idle
<1>4. worker'.stage = "abort" /\ worker'.rules = worker.rules /\ worker'.now = worker.now
  BY <1>1, <1>2, <1>3
<1>5. WorkerOK(worker', now)
  BY <1>2, <1>3, <1>4 DEF WorkerOK
<1>6. uploads' \subseteq Upload /\ UNCHANGED <<status, cfg, vers, put, seq, now, ops>>
  BY DEF AbortUpload, bucket, LcInv
<1>. QED  BY <1>5, <1>6, LcAssembled DEF LcInv

-----------------------------------------------------------------------------
(* Clients *)

\* A client's operation leaves the worker's batch alone.
LEMMA Interfered ==
  ASSUME LcInv, Interfere
  PROVE  WorkerOK(worker', now) /\ worker'.batch = worker.batch
<1>1. worker' = [worker EXCEPT !.due = {}, !.dueUploads = {}]
  BY DEF Interfere
<1>2. WorkerOK(worker, now)
  BY LcParts
<1>3. DOMAIN worker' = DOMAIN worker
  BY <1>1
<1>4. /\ worker'.stage = worker.stage /\ worker'.rules = worker.rules /\ worker'.now = worker.now
      /\ worker'.batch = worker.batch
  BY <1>1
<1>. QED  BY <1>2, <1>3, <1>4 DEF WorkerOK

\* An operation is counted.
LEMMA Operated ==
  ASSUME LcInv, Op
  PROVE  WorkerOK(worker', now) /\ ops' \in 0..MaxOps /\ worker'.batch = worker.batch
<1>1. ops' \in 0..MaxOps
  BY LcParts, LifecycleAssumption DEF Op
<1>. QED  BY <1>1, Interfered DEF Op

\* The bucket is created, removed and configured. None of it leaves a locked
\* version in a bucket without Object Lock.
LEMMA BucketStep ==
  ASSUME LcInv, CreateBucket \/ PutBucketVersioning \/ PutObjectLockConfig
  PROVE  LcInv'
<1>1. Op /\ UNCHANGED <<cfg, vers, uploads, put, seq, now>> /\ status # "Locked"
  BY DEF CreateBucket, PutBucketVersioning, PutObjectLockConfig
<1>2. status' \in {"None", "Off", "Enabled", "Suspended", "Locked"}
  BY DEF CreateBucket, PutBucketVersioning, PutObjectLockConfig
<1>3. WorkerOK(worker', now) /\ ops' \in 0..MaxOps
  BY <1>1, Operated
<1>4. HeldIn(vers, status')
  BY <1>1, LcParts DEF HeldIn
<1>. QED  BY <1>1, <1>2, <1>3, <1>4, LcAssembled DEF LcInv

\* DeleteBucket takes everything along.
LEMMA DeleteBucketStep ==
  ASSUME LcInv, DeleteBucket
  PROVE  LcInv'
<1>1. /\ Op /\ UNCHANGED <<seq, now>> /\ status' = "None" /\ cfg' = {}
      /\ vers' = {} /\ uploads' = {} /\ put' = {}
  BY DEF DeleteBucket
<1>2. WorkerOK(worker', now) /\ ops' \in 0..MaxOps
  BY <1>1, Operated
<1>3. IsFiniteSet({})
  BY FS_EmptySet
<1>4. VersionsOK(vers', seq) /\ PutOK(put', vers', seq) /\ HeldIn(vers', status')
  BY <1>1, <1>3 DEF VersionsOK, PutOK, HeldIn
<1>. QED  BY <1>1, <1>2, <1>4, LcAssembled DEF LcInv

\* PutBucketLifecycleConfiguration, DeleteBucketLifecycle
LEMMA PutLifecycleStep ==
  ASSUME LcInv, NEW c \in Configs \cup {{}}, PutLifecycle(c)
  PROVE  LcInv'
<1>1. Op /\ cfg' = c /\ UNCHANGED <<status, vers, uploads, put, seq, now>>
  BY DEF PutLifecycle
<1>2. WorkerOK(worker', now) /\ ops' \in 0..MaxOps
  BY <1>1, Operated
<1>. QED  BY <1>1, <1>2, LcAssembled DEF LcInv

\* PutObject takes a sequence that no version has,
LEMMA PutObjectStep ==
  ASSUME LcInv, NEW k \in Keys, NEW t \in Tags, PutObject(k, t)
  PROVE  LcInv'
<1> DEFINE p == [key |-> k, seq |-> seq + 1, mod |-> now, null |-> FALSE, marker |-> FALSE,
                 tag |-> t, class |-> 0, locked |-> FALSE]
<1>1. Op /\ seq' = seq + 1 /\ put' = {p} /\ UNCHANGED <<status, cfg, vers, uploads, now>>
  BY DEF PutObject, bucket
<1>2. WorkerOK(worker', now) /\ ops' \in 0..MaxOps
  BY <1>1, Operated
<1>3. seq \in Nat /\ seq + 1 \in Nat /\ now \in Nat /\ 0 \in Classes
  BY LcParts DEF Classes
<1>4. p \in Version /\ p.seq = seq + 1 /\ ~p.locked
  BY <1>3 DEF Version
<1>. HIDE DEF p
<1>5. \A v \in vers : v.seq \in Nat /\ v.seq <= seq
  BY LcParts DEF VersionsOK, Version
<1>6. VersionsOK(vers, seq + 1)
  <2>1. \A v \in vers : v.seq <= seq + 1
    BY <1>3, <1>5
  <2>. QED  BY <2>1, LcParts DEF VersionsOK
<1>7. PutOK(put', vers, seq + 1)
  <2>1. \A v \in vers : p.seq # v.seq
    BY <1>3, <1>4, <1>5
  <2>2. p.seq <= seq + 1
    BY <1>3, <1>4
  <2>. QED  BY <1>1, <1>4, <2>1, <2>2 DEF PutOK
<1>. QED  BY <1>1, <1>2, <1>3, <1>6, <1>7, LcAssembled DEF LcInv

\* and stores the version under it, in place of the null version if it is
\* one.
LEMMA PutCommitStep ==
  ASSUME LcInv, PutCommit
  PROVE  LcInv'
<1>1. Interfere /\ put' = {} /\ UNCHANGED <<status, cfg, uploads, seq, now, ops>>
  BY DEF PutCommit, bucket
<1> DEFINE null == status \in {"Off", "Suspended"}
           old(p) == IF null THEN NullVersions(p.key) ELSE {}
<1>2. PICK p \in put : vers' = (vers \ old(p)) \cup {[p EXCEPT !.null = null]}
  BY DEF PutCommit
<1> DEFINE v == [p EXCEPT !.null = null]
<1>3. /\ VersionsOK(vers, seq) /\ PutOK(put, vers, seq) /\ HeldIn(vers, status)
      /\ seq \in Nat /\ put \subseteq Version
  BY LcParts
<1>4. p \in Version /\ p.seq <= seq /\ ~p.locked /\ \A x \in vers : p.seq # x.seq
  BY <1>3 DEF PutOK
<1>5. null \in BOOLEAN
  OBVIOUS
<1>6. null => \A x \in NullVersions(p.key) : x \notin vers \ old(p)
  OBVIOUS
<1>7. vers \ old(p) \subseteq vers /\ vers' = (vers \ old(p)) \cup {v}
  BY <1>2
<1>. HIDE DEF null
<1>8. v \in Version /\ v.seq = p.seq /\ v.key = p.key /\ v.null = null /\ v.locked = p.locked
  BY <1>4, <1>5 DEF Version
<1>. HIDE DEF v, old
<1>9. /\ \A x \in vers' : x \in vers \/ x = v
      /\ \A x \in vers : x.seq # v.seq
      /\ \A x \in {} : x.seq # v.seq
      /\ v.seq <= seq /\ ~v.locked
  BY <1>4, <1>7, <1>8
<1>10. \A x \in vers' : v.null /\ x.null /\ x.key = v.key => x = v
  BY <1>6, <1>7, <1>8 DEF NullVersions
<1>11. PutOK({}, vers, seq) /\ seq <= seq
  BY <1>3 DEF PutOK
<1>12. VersionsOK(vers', seq) /\ PutOK({}, vers', seq) /\ HeldIn(vers', status)
  BY <1>3, <1>8, <1>9, <1>10, <1>11, Another
<1>13. WorkerOK(worker', now)
  BY <1>1, Interfered
<1>. QED  BY <1>1, <1>12, <1>13, LcAssembled DEF LcInv

\* A client deletes a key,
LEMMA ClientDeleteStep ==
  ASSUME LcInv, NEW k \in Keys, ClientDelete(k)
  PROVE  LcInv'
<1>1. Op /\ DeleteLatest(k) /\ UNCHANGED <<status, cfg, uploads, put, now>>
  BY DEF ClientDelete, bucket
<1>2. WorkerOK(worker', now) /\ ops' \in 0..MaxOps
  BY <1>1, Operated
<1>3. VersionsOK(vers', seq') /\ PutOK(put, vers', seq') /\ HeldIn(vers', status) /\ seq' \in Nat
  BY <1>1, DeleteLatestOK
<1>. QED  BY <1>1, <1>2, <1>3, LcAssembled DEF LcInv

\* or one version of it,
LEMMA ClientDeleteVersionStep ==
  ASSUME LcInv, NEW v \in vers, ClientDeleteVersion(v)
  PROVE  LcInv'
<1>1. Op /\ vers' \subseteq vers /\ UNCHANGED <<status, cfg, uploads, put, seq, now>>
  BY DEF ClientDeleteVersion, bucket
<1>2. WorkerOK(worker', now) /\ ops' \in 0..MaxOps
  BY <1>1, Operated
<1>3. VersionsOK(vers', seq) /\ PutOK(put, vers', seq) /\ HeldIn(vers', status)
  BY <1>1, LcParts, Fewer
<1>. QED  BY <1>1, <1>2, <1>3, LcAssembled DEF LcInv

\* changes its tags, or its legal hold.
LEMMA PutTaggingStep ==
  ASSUME LcInv, NEW v \in vers, NEW t \in Tags, PutTagging(v, t)
  PROVE  LcInv'
<1> DEFINE y == [v EXCEPT !.tag = t]
<1>1. Op /\ vers' = (vers \ {v}) \cup {y} /\ UNCHANGED <<status, cfg, uploads, put, seq, now>>
  BY DEF PutTagging, bucket
<1>2. WorkerOK(worker', now) /\ ops' \in 0..MaxOps
  BY <1>1, Operated
<1>3. v \in Version
  BY LcParts
<1>4. y \in Version /\ y.key = v.key /\ y.seq = v.seq /\ y.null = v.null /\ y.locked = v.locked
  BY <1>3 DEF Version
<1>. HIDE DEF y
<1>5. y.locked => v.locked \/ status = "Locked"
  BY <1>4
<1>6. VersionsOK(vers', seq) /\ PutOK(put, vers', seq) /\ HeldIn(vers', status)
  BY <1>1, <1>4, <1>5, LcParts, Rewritten
<1>. QED  BY <1>1, <1>2, <1>6, LcAssembled DEF LcInv

\* A legal hold is set only where Object Lock is on.
LEMMA PutLegalHoldStep ==
  ASSUME LcInv, NEW v \in vers, PutLegalHold(v)
  PROVE  LcInv'
<1> DEFINE l == ~v.locked
           y == [v EXCEPT !.locked = l]
<1>1. /\ Op /\ vers' = (vers \ {v}) \cup {y} /\ status = "Locked"
      /\ UNCHANGED <<status, cfg, uploads, put, seq, now>>
  BY DEF PutLegalHold, bucket
<1>2. WorkerOK(worker', now) /\ ops' \in 0..MaxOps
  BY <1>1, Operated
<1>3. v \in Version /\ l \in BOOLEAN
  BY LcParts
<1>. HIDE DEF l
<1>4. y \in Version /\ y.key = v.key /\ y.seq = v.seq /\ y.null = v.null
  BY <1>3 DEF Version
<1>. HIDE DEF y
<1>5. VersionsOK(vers', seq) /\ PutOK(put, vers', seq) /\ HeldIn(vers', status)
  BY <1>1, <1>4, LcParts, Rewritten
<1>. QED  BY <1>1, <1>2, <1>5, LcAssembled DEF LcInv

\* Uploads come
LEMMA CreateUploadStep ==
  ASSUME LcInv, NEW k \in Keys, CreateUpload(k)
  PROVE  LcInv'
<1> DEFINE u == [key |-> k, id |-> seq + 1, init |-> now]
<1>1. Op /\ seq' = seq + 1 /\ uploads' = uploads \cup {u} /\ UNCHANGED <<status, cfg, vers, put, now>>
  BY DEF CreateUpload, bucket
<1>2. WorkerOK(worker', now) /\ ops' \in 0..MaxOps
  BY <1>1, Operated
<1>3. seq \in Nat /\ seq + 1 \in Nat /\ now \in Nat
  BY LcParts
<1>4. u \in Upload
  BY <1>3 DEF Upload
<1>5. uploads' \subseteq Upload
  BY <1>1, <1>4 DEF LcInv
<1>6. \A v \in vers \cup put : v.seq \in Nat /\ v.seq <= seq
  BY LcParts DEF VersionsOK, PutOK, Version
<1>7. \A v \in vers \cup put : v.seq <= seq + 1
  BY <1>3, <1>6
<1>8. VersionsOK(vers, seq + 1) /\ PutOK(put, vers, seq + 1)
  BY <1>7, LcParts DEF VersionsOK, PutOK
<1>. QED  BY <1>1, <1>2, <1>3, <1>5, <1>8, LcAssembled DEF LcInv

\* and go.
LEMMA EndUploadStep ==
  ASSUME LcInv, NEW u, EndUpload(u)
  PROVE  LcInv'
<1>1. Op /\ uploads' \subseteq uploads /\ UNCHANGED <<status, cfg, vers, put, seq, now>>
  BY DEF EndUpload, bucket
<1>2. WorkerOK(worker', now) /\ ops' \in 0..MaxOps
  BY <1>1, Operated
<1>. QED  BY <1>1, <1>2, LcAssembled DEF LcInv

\* Time passes.
LEMMA TickStep ==
  ASSUME LcInv, Tick
  PROVE  LcInv'
<1>1. UNCHANGED <<status, cfg, vers, uploads, put, seq, ops, worker>> /\ now' = now + 1 /\ now < MaxTime
  BY DEF Tick, bucket
<1>2. now' \in 0..MaxTime /\ now \in Nat
  BY <1>1, LifecycleAssumption DEF LcInv
<1>3. WorkerOK(worker', now')
  BY <1>1, <1>2, LcParts DEF WorkerOK
<1>. QED  BY <1>1, <1>2, <1>3, LcAssembled DEF LcInv

\* Every step of a client keeps the invariant.
LEMMA ClientStepOK ==
  ASSUME LcInv, ClientStep
  PROVE  LcInv'
<1>1. CASE CreateBucket \/ PutBucketVersioning \/ PutObjectLockConfig \/ DeleteBucket
  BY <1>1, BucketStep, DeleteBucketStep
<1>2. CASE \E c \in Configs \cup {{}} : PutLifecycle(c)
  BY <1>2, PutLifecycleStep
<1>3. ASSUME NEW k \in Keys, (\E t \in Tags : PutObject(k, t)) \/ ClientDelete(k) \/ CreateUpload(k)
      PROVE  LcInv'
  BY <1>3, PutObjectStep, ClientDeleteStep, CreateUploadStep
<1>4. CASE PutCommit
  BY <1>4, PutCommitStep
<1>5. ASSUME NEW v \in vers, ClientDeleteVersion(v) \/ (\E t \in Tags : PutTagging(v, t)) \/ PutLegalHold(v)
      PROVE  LcInv'
  BY <1>5, ClientDeleteVersionStep, PutTaggingStep, PutLegalHoldStep
<1>6. CASE \E u \in uploads : EndUpload(u)
  BY <1>6, EndUploadStep
<1>7. CASE Tick
  BY <1>7, TickStep
<1>. QED  BY <1>1, <1>2, <1>3, <1>4, <1>5, <1>6, <1>7 DEF ClientStep

\* and every step of the worker.
LEMMA WorkerStepOK ==
  ASSUME LcInv, WorkerStep
  PROVE  LcInv'
  BY PassStartStep, CollectStep, ExpireCurrentStep, DeleteVersionStep, TransitionStep, SkipStep,
     PageDoneStep, CollectUploadsStep, AbortUploadStep, UploadsDoneStep DEF WorkerStep

\* A new bucket
LEMMA InitLcInv ==
  ASSUME Init
  PROVE  LcInv
<1>1. IsFiniteSet({})
  BY FS_EmptySet
<1>2. VersionsOK(vers, seq) /\ PutOK(put, vers, seq) /\ HeldIn(vers, status)
  BY <1>1 DEF Init, VersionsOK, PutOK, HeldIn
<1>3. WorkerOK(worker, now)
  BY IdleWorker DEF Init
<1>. QED  BY <1>2, <1>3, LifecycleAssumption DEF Init, LcInv

\* The invariant is kept
LEMMA NextLcInv ==
  ASSUME LcInv, [Next]_vars
  PROVE  LcInv'
<1>1. CASE UNCHANGED vars
  BY <1>1, LcAssembled DEF vars, LcInv
<1>. QED  BY <1>1, WorkerStepOK, ClientStepOK DEF Next

\* and holds throughout.
LEMMA LcInvHolds == Spec => []LcInv
  BY InitLcInv, NextLcInv, PTL DEF Spec

-----------------------------------------------------------------------------
(* What the worker does to versions *)

\* Only the three kinds of apply change versions and take a decision off the
\* batch.
LEMMA ApplyIs ==
  ASSUME LcInv, [Next]_vars, ApplyStep
  PROVE  ExpireCurrent \/ DeleteVersion \/ Transition
<1>1. worker.stage = "apply" /\ worker.batch # <<>> /\ vers' # vers /\ worker'.batch = Tail(worker.batch)
  BY DEF ApplyStep, Applying
<1>2. Tail(worker.batch) # worker.batch
  <2> DEFINE S == Decided(worker.rules, worker.now)
             b == worker.batch
  <2>1. b \in Seq(S) /\ b # <<>>
    BY <1>1, LcParts DEF WorkerOK
  <2>. HIDE DEF S, b
  <2>2. Len(Tail(b)) = Len(b) - 1 /\ Len(b) \in Nat
    BY <2>1
  <2>3. Tail(b) # b
    BY <2>2
  <2>. QED  BY <2>3 DEF b
<1>3. ~UNCHANGED vars /\ ~Tick /\ ~Op /\ ~Interfere
  <2>1. ~UNCHANGED vars /\ ~Tick
    BY <1>1, <1>2 DEF vars, Tick
  <2>. QED  BY <1>1, <1>2, <2>1, Operated, Interfered
<1>4. ~ClientStep
  BY <1>3 DEF ClientStep, CreateBucket, DeleteBucket, PutBucketVersioning, PutObjectLockConfig, PutLifecycle,
              PutObject, ClientDelete, CreateUpload, PutCommit, ClientDeleteVersion, PutTagging, PutLegalHold, EndUpload
<1>5. WorkerStep
  BY <1>3, <1>4 DEF Next
<1>6. ~PassStart /\ ~Collect /\ ~Skip /\ ~PageDone /\ ~CollectUploads /\ ~AbortUpload /\ ~UploadsDone
  BY <1>1 DEF PassStart, Collect, Skip, PageDone, CollectUploads, AbortUpload, UploadsDone
<1>. QED  BY <1>5, <1>6 DEF WorkerStep

\* The latest version of its key has none above it.
LEMMA LatestOnTop ==
  ASSUME LcInv, NEW v, StillLatest(v)
  PROVE  Above(vers, v) = {}
<1> DEFINE vs == OfKey(vers, v.key)
<1>1. \A x \in vs : x.seq \in Nat /\ x.seq <= seq
  BY LcParts DEF OfKey, VersionsOK, Version
<1>2. vs # {} /\ Newest(vs).seq = v.seq
  BY DEF StillLatest
<1>3. seq \in Nat
  BY LcParts
<1>4. \A x \in vs : x \in vers /\ x.key = v.key
  BY DEF OfKey
<1>5. \A x \in vers : x.key = v.key => x \in vs
  BY DEF OfKey
<1>. HIDE DEF vs
<1>6. Newest(vs) \in vs /\ \A x \in vs : x.seq <= Newest(vs).seq
  BY <1>1, <1>2, <1>3, NewestIs
<1>7. \A x \in vs : x.seq <= v.seq /\ v.seq \in Nat
  BY <1>1, <1>2, <1>6
<1>8. \A x \in vers : ~(x.key = v.key /\ x.seq > v.seq)
  BY <1>1, <1>5, <1>7
<1>. QED  BY <1>8 DEF Above

\* A step of the worker spares what is newer than what it decided about.
LEMMA SparesNewerStep ==
  ASSUME LcInv, [Next]_vars, ApplyStep
  PROVE  LET above == Above(vers, Candidate.obj) IN
         /\ above \subseteq vers'
         /\ above # {} => vers' \subseteq vers \cup {x \in vers' : Same(x, Candidate.obj)}
<1>1. ExpireCurrent \/ DeleteVersion \/ Transition
  BY ApplyIs
<1>2. CASE ExpireCurrent
  <2>1. StillLatest(Candidate.obj)
    BY <1>2 DEF ExpireCurrent
  <2>2. Above(vers, Candidate.obj) = {}
    BY <2>1, LatestOnTop
  <2>. QED  BY <2>2
<1>3. CASE DeleteVersion
  <2>1. Applying /\ Applied
    BY <1>3 DEF DeleteVersion
  <2> DEFINE v == Candidate.obj
  <2>2. v.seq \in Nat
    BY <2>1, CandidateIs
  <2>3. PICK x \in vers : x.key = v.key /\ x.seq = v.seq /\ vers' = vers \ {x}
    BY <1>3 DEF DeleteVersion, Current
  <2>. HIDE DEF v
  <2>4. Above(vers, v) \subseteq vers' /\ vers' \subseteq vers
    BY <2>2, <2>3 DEF Above
  <2>. QED  BY <2>4 DEF v
<1>4. CASE Transition
  <2>1. Applying /\ Applied
    BY <1>4 DEF Transition
  <2> DEFINE v == Candidate.obj
  <2>2. v.seq \in Nat
    BY <2>1, CandidateIs
  <2>3. PICK x \in vers : x.key = v.key /\ x.seq = v.seq /\ vers' = (vers \ {x}) \cup {Transitioned(x)}
    BY <1>4 DEF Transition, Current
  <2>4. Transitioned(x).key = x.key /\ Transitioned(x).seq = x.seq
    <3>1. x \in Version
      BY LcParts
    <3>. QED  BY <3>1 DEF Transitioned, Version
  <2>. HIDE DEF v
  <2>5. Above(vers, v) \subseteq vers'
    BY <2>2, <2>3 DEF Above
  <2>6. vers' \subseteq vers \cup {y \in vers' : Same(y, v)}
    BY <2>3, <2>4 DEF Same
  <2>. QED  BY <2>5, <2>6 DEF v
<1>. QED  BY <1>1, <1>2, <1>3, <1>4

\* A step of the worker leaves held versions.
LEMMA HeldStep ==
  ASSUME LcInv, [Next]_vars, ApplyStep, NEW v \in vers, v.locked
  PROVE  \E x \in vers' : Same(v, x)
<1>1. ExpireCurrent \/ DeleteVersion \/ Transition
  BY ApplyIs
<1>2. Same(v, v) /\ status = "Locked"
  BY LcParts DEF Same, HeldIn
<1>3. CASE ExpireCurrent
  <2>1. vers \subseteq vers'
    BY <1>2, <1>3 DEF ExpireCurrent, DeleteLatest
  <2>. QED  BY <1>2, <2>1
<1>4. CASE DeleteVersion
  <2>1. PICK x \in vers : Deletable(x) /\ vers' = vers \ {x}
    BY <1>4 DEF DeleteVersion, Current
  <2>2. v # x
    BY <2>1 DEF Deletable
  <2>. QED  BY <1>2, <2>1, <2>2
<1>5. CASE Transition
  <2>1. PICK x \in vers : vers' = (vers \ {x}) \cup {Transitioned(x)}
    BY <1>5 DEF Transition, Current
  <2>2. x \in Version
    BY LcParts
  <2>3. Same(x, Transitioned(x))
    BY <2>2 DEF Transitioned, Version, Same
  <2>. QED  BY <1>2, <2>1, <2>3
<1>. QED  BY <1>1, <1>3, <1>4, <1>5

\* A step of the worker changes nothing of a version but its class, which
\* gets colder.
LEMMA KeepsStep ==
  ASSUME LcInv, [Next]_vars, ApplyStep, NEW v \in vers, NEW x \in vers', Same(v, x)
  PROVE  x = [v EXCEPT !.class = x.class] /\ x.class >= v.class
<1>1. ExpireCurrent \/ DeleteVersion \/ Transition
  BY ApplyIs
<1>2. v \in Version /\ v.class \in Nat /\ v.seq \in Nat /\ v.seq <= seq /\ seq \in Nat
  BY LcParts DEF Version, Classes, VersionsOK
<1>3. \A y \in vers : y.seq = v.seq => y = v
  BY LcParts DEF VersionsOK
<1>4. CASE x = v
  <2>1. v = [v EXCEPT !.class = v.class]
    BY <1>2 DEF Version
  <2>. QED  BY <1>2, <1>4, <2>1
<1>5. CASE ExpireCurrent
  <2>1. Applying /\ Applied /\ DeleteLatest(Candidate.obj.key)
    BY <1>5 DEF ExpireCurrent
  <2>2. Candidate.obj.key \in Keys
    BY <2>1, CandidateIs
  <2> DEFINE k == Candidate.obj.key
  <2>3. x \in vers \/ x = MarkerOf(k, TRUE) \/ x = MarkerOf(k, FALSE)
    BY <2>1 DEF DeleteLatest
  <2>. HIDE DEF k
  <2>4. MarkerOf(k, TRUE).seq = seq + 1 /\ MarkerOf(k, FALSE).seq = seq + 1
    BY DEF MarkerOf
  <2>5. x.seq = v.seq /\ v.seq # seq + 1
    BY <1>2 DEF Same
  <2>6. x = v
    BY <1>3, <2>3, <2>4, <2>5
  <2>. QED  BY <1>4, <2>6
<1>6. CASE DeleteVersion
  <2>1. x \in vers
    BY <1>6 DEF DeleteVersion
  <2>2. x = v
    BY <1>3, <2>1 DEF Same
  <2>. QED  BY <1>4, <2>2
<1>7. CASE Transition
  <2>1. Applying /\ Applied
    BY <1>7 DEF Transition
  <2> DEFINE n == Candidate.act.class
  <2>2. n \in Classes
    BY <2>1, CandidateIs
  <2>3. PICK y \in vers : n > y.class /\ vers' = (vers \ {y}) \cup {[y EXCEPT !.class = n]}
    BY <1>7 DEF Transition, Transitioned, Current
  <2>. HIDE DEF n
  <2>4. CASE x \in vers
    BY <1>3, <1>4, <2>4 DEF Same
  <2>5. CASE x = [y EXCEPT !.class = n]
    <3>1. y \in Version
      BY LcParts
    <3>2. x.seq = y.seq /\ x.class = n
      BY <2>5, <3>1 DEF Version
    <3>3. y = v
      BY <1>3, <3>2 DEF Same
    <3>4. n >= v.class
      BY <1>2, <2>2, <2>3, <3>3 DEF Classes
    <3>. QED  BY <2>5, <3>2, <3>3, <3>4
  <2>. QED  BY <2>3, <2>4, <2>5
<1>. QED  BY <1>1, <1>5, <1>6, <1>7

\* A current version expires only when a rule's days are over or its date
\* has come.
LEMMA NeverEarlyStep ==
  ASSUME LcInv, [Next]_vars, ApplyStep, Candidate.act.kind = "ExpireCurrent"
  PROVE  \E r \in worker.rules :
           /\ Matches(r, Candidate.obj)
           /\ \/ r.exp.kind = "days" /\ (Fits(r.exp.n) => now >= Candidate.obj.mod + r.exp.n * Day)
              \/ r.exp.kind = "date" /\ now >= r.exp.n
<1>1. ExpireCurrent \/ DeleteVersion \/ Transition
  BY ApplyIs
<1>2. Applying /\ Applied
  BY <1>1 DEF ExpireCurrent, DeleteVersion, Transition
<1>3. Candidate \in Decided(worker.rules, worker.now) /\ Candidate.obj \in Version
  BY <1>2, CandidateIs
<1> DEFINE v == Candidate.obj
<1>4. PICK r \in worker.rules : Matches(r, v) /\ ExpDue(r, v, worker.now)
  BY <1>3 DEF Decided
<1>5. v.mod \in Nat
  BY <1>3 DEF Version
<1>6. r \in Rule /\ r.exp.n \in Nat /\ worker.now \in Nat /\ worker.now <= now /\ now \in Nat
  <2>1. r \in Rule /\ worker.now \in Nat /\ worker.now <= now /\ now \in Nat
    BY LcParts DEF WorkerOK
  <2>. QED  BY <2>1 DEF Rule
<1>. HIDE DEF v
<1>7. Fits(r.exp.n) => ExpiresAt(v.mod, r.exp.n) \in Nat /\ ExpiresAt(v.mod, r.exp.n) >= v.mod + r.exp.n * Day
  BY <1>5, <1>6, NotBefore
<1>8. v.mod + r.exp.n * Day \in Nat
  BY <1>5, <1>6, LifecycleAssumption
<1>9. CASE r.exp.kind = "days" /\ worker.now >= ExpiresAt(v.mod, r.exp.n)
  <2>1. Fits(r.exp.n) => now >= v.mod + r.exp.n * Day
    BY <1>6, <1>7, <1>8, <1>9
  <2>. QED  BY <1>4, <1>9, <2>1 DEF v
<1>10. CASE r.exp.kind = "date" /\ worker.now >= r.exp.n
  <2>1. now >= r.exp.n
    BY <1>6, <1>10
  <2>. QED  BY <1>4, <1>10, <2>1 DEF v
<1>. QED  BY <1>4, <1>9, <1>10 DEF ExpDue

-----------------------------------------------------------------------------
(* A pass does all that was due *)

\* A decision was carried out, on the versions vs.
DoneIn(c, vs) == c.obj \notin vs \/ (c.act.kind = "ExpireCurrent" /\ Above(vs, c.obj) # {})

Colder == {"Transition", "NoncurrentTransition"}

\* A decision says something new.
Sensible(c) ==
  /\ c \in [obj: Version, act: Actions]
  /\ c.act.kind \in Colder => ~c.obj.marker /\ c.act.class > c.obj.class

InBatch(c) == \E i \in DOMAIN worker.batch : worker.batch[i] = c
Ahead(c) == worker.stage \in {"scan", "apply"} /\ c.obj.key >= worker.pos

\* What was due and is not done is in the batch or still ahead of the scan,
\* which will find it as it was: the pass leaves the keys ahead alone. What is
\* in the batch does not undo it.
Pending(c) ==
  /\ Sensible(c) /\ c.obj.seq <= seq
  /\ \A x \in vers : Same(x, c.obj) => x.class >= c.obj.class
  /\ c.obj.locked \/ DoneIn(c, vers) \/ (worker.stage = "apply" /\ InBatch(c)) \/ Ahead(c)
  /\ Ahead(c) => c \in Due(worker.rules, worker.now)
  /\ worker.stage = "apply" /\ c.act.kind = "ExpireCurrent" =>
       \A i \in DOMAIN worker.batch :
         worker.batch[i].obj.key = c.obj.key => worker.batch[i].obj.seq <= c.obj.seq

\* The same for uploads, whose batches are followed by another one if full.
PendingUpload(u) ==
  /\ AbortAfter(worker.rules, u, worker.now)
  /\ worker.stage = "abort" /\ u \in uploads => InBatch(u) \/ worker.full

PassInv ==
  /\ IsFiniteSet(uploads)
  /\ worker.pos \in Nat \ {0} /\ (worker.stage = "scan" => worker.pos \in Keys)
  /\ worker.stage = "apply" => \A i \in DOMAIN worker.batch : worker.batch[i].obj.key < worker.pos
  /\ worker.stage = "abort" => worker.batch \in Seq(Upload)
  /\ worker.stage # "idle" =>
       /\ worker.due \cup worker.dueUploads # {} => status # "None"
       /\ \A c \in worker.due : Pending(c)
       /\ \A u \in worker.dueUploads : PendingUpload(u)

\* A rule makes versions colder only, and expires only what is on top.
LEMMA SaysMore ==
  ASSUME NEW r \in Rule, NEW vs, NEW v \in Version, NEW t, NEW a \in Says(r, vs, v, t)
  PROVE  /\ a.kind \in Colder => ~v.marker /\ a.class > v.class
         /\ a.kind = "ExpireCurrent" => Above(vs, v) = {}
<1>2. CASE Above(vs, v) # {}
  <2> DEFINE since == Oldest(Above(vs, v)).mod
             newer == Cardinality(Above(vs, v)) - 1
  <2>1. a \in EvalNoncurrent(r, v, since, newer, t)
    BY <1>2 DEF Says
  <2>. HIDE DEF since, newer
  <2>2. \/ a = Action("ExpireNoncurrentVersion", 0)
        \/ \E x \in r.ncTrans : ~v.marker /\ x.class > v.class /\ a = Action("NoncurrentTransition", x.class)
    BY <2>1 DEF EvalNoncurrent
  <2>. QED  BY <2>2 DEF Action, Colder
<1>3. CASE Above(vs, v) = {} /\ v.marker
  <2> DEFINE older == Cardinality(OfKey(vs, v.key)) > 1
  <2>1. a \in EvalDeleteMarker(r, v, older, t)
    BY <1>3 DEF Says
  <2>. HIDE DEF older
  <2>2. a = Action("RemoveDeleteMarker", 0)
    BY <2>1 DEF EvalDeleteMarker
  <2>. QED  BY <2>2 DEF Action, Colder
<1>4. CASE Above(vs, v) = {} /\ ~v.marker
  <2>1. a \in EvalCurrent(r, v, t)
    BY <1>4 DEF Says
  <2>3. CASE ExpDue(r, v, t)
    <3>1. a = Action("ExpireCurrent", 0)
      BY <2>1, <2>3 DEF EvalCurrent
    <3>. QED  BY <1>4, <3>1 DEF Action, Colder
  <2>4. CASE ~ExpDue(r, v, t)
    <3>1. \E x \in r.trans : x.class > v.class /\ a = Action("Transition", x.class)
      BY <2>1, <2>4 DEF EvalCurrent
    <3>. QED  BY <1>4, <3>1 DEF Action, Colder
  <2>. QED  BY <2>3, <2>4
<1>5. v.marker \in BOOLEAN
  BY DEF Version
<1>. QED  BY <1>2, <1>3, <1>4, <1>5

\* What is due says something new, about a version there is.
LEMMA DueSensible ==
  ASSUME NEW rules \in SUBSET Rule, NEW t, vers \subseteq Version, NEW c \in Due(rules, t)
  PROVE  /\ Sensible(c) /\ c.obj \in vers
         /\ c.act.kind = "ExpireCurrent" => Above(vers, c.obj) = {}
<1>1. PICK v \in vers : /\ Proposed(rules, vers, v, t) # {}
                        /\ c = [obj |-> v, act |-> Best(Proposed(rules, vers, v, t))]
  BY DEF Due
<1> DEFINE P == Proposed(rules, vers, v, t)
<1>2. ASSUME NEW a \in P
      PROVE  /\ a \in Actions
             /\ a.kind \in Colder => ~v.marker /\ a.class > v.class
             /\ a.kind = "ExpireCurrent" => Above(vers, v) = {}
  <2>1. PICK r \in rules : a \in Says(r, vers, v, t)
    BY <1>2 DEF Proposed
  <2>2. v \in Version /\ r \in Rule
    OBVIOUS
  <2>. QED  BY <2>1, <2>2, SaysIs, SaysMore
<1>3. P \in SUBSET Actions /\ P # {}
  BY <1>1, <1>2
<1>. HIDE DEF P
<1>4. Best(P) \in P
  BY <1>3, BestIs
<1>5. c = [obj |-> v, act |-> Best(P)] /\ v \in Version
  BY <1>1 DEF P
<1>6. c \in [obj: Version, act: Actions] /\ c.obj = v /\ c.act = Best(P)
  BY <1>3, <1>4, <1>5
<1>. QED  BY <1>2, <1>4, <1>6 DEF Sensible

\* What is due of a key depends on the versions of that key alone.
LEMMA DueOfKey ==
  ASSUME NEW rules, NEW t, NEW c \in Due(rules, t),
         \A v : v.key = c.obj.key => (v \in vers' <=> v \in vers)
  PROVE  c \in Due(rules, t)'
<1>1. PICK v \in vers : /\ Proposed(rules, vers, v, t) # {}
                        /\ c = [obj |-> v, act |-> Best(Proposed(rules, vers, v, t))]
  BY DEF Due
<1>2. c.obj = v
  BY <1>1
<1>3. v \in vers'
  BY <1>2
<1>4. Above(vers', v) = Above(vers, v)
  BY <1>2 DEF Above
<1>5. OfKey(vers', v.key) = OfKey(vers, v.key)
  BY <1>2 DEF OfKey
<1>6. \A r : Says(r, vers', v, t) = Says(r, vers, v, t)
  BY <1>4, <1>5 DEF Says
<1>7. Proposed(rules, vers', v, t) = Proposed(rules, vers, v, t)
  BY <1>6 DEF Proposed
<1>8. c = [obj |-> v, act |-> Best(Proposed(rules, vers', v, t))] /\ Proposed(rules, vers', v, t) # {}
  BY <1>1, <1>7, SMTT(20)
<1>9. Due(rules, t)' = {[obj |-> x, act |-> Best(Proposed(rules, vers', x, t))] :
                          x \in {x \in vers' : Proposed(rules, vers', x, t) # {}}}
  BY DEF Due, Proposed, Says, Best, Above, OfKey, Oldest, Matches, Rank, Kinds, EvalCurrent, EvalDeleteMarker,
         EvalNoncurrent, ExpDue, ExpiresAt, Duration, Fits, Action
<1>. QED  BY <1>3, <1>8, <1>9

\* A one-to-one sequence over a finite set that is as long as the set is
\* large has all of its elements.
LEMMA AllMet ==
  ASSUME NEW S, IsFiniteSet(S), NEW f \in [1..Cardinality(S) -> S],
         \A i, j \in 1..Cardinality(S) : f[i] = f[j] => i = j
  PROVE  \A x \in S : \E i \in DOMAIN f : f[i] = x
<1> DEFINE n == Cardinality(S)
<1>1. n \in Nat
  BY FS_CardinalityType
<1>2. IsFiniteSet(1..n) /\ Cardinality(1..n) = n
  BY <1>1, FS_Interval
<1>3. f \in Injection(1..n, S)
  BY DEF Injection, IsInjective
<1>4. f \in Surjection(1..n, S)
  BY <1>2, <1>3, FS_Injection
<1>. QED  BY <1>4 DEF Surjection

\* The least of some natural numbers.
LEMMA MinIs ==
  ASSUME NEW T \in SUBSET Nat, T # {}
  PROVE  Min(T) \in T /\ \A k \in T : Min(T) <= k
  BY LeastOf DEF Min

-----------------------------------------------------------------------------
(* The pass, step by step *)

\* What PassInv says of a pass.
LEMMA PassParts ==
  ASSUME PassInv, worker.stage # "idle"
  PROVE  /\ worker.due # {} \/ worker.dueUploads # {} => status # "None"
         /\ \A c \in worker.due : Pending(c)
         /\ \A u \in worker.dueUploads : PendingUpload(u)
  BY DEF PassInv

\* No pass has begun.
LEMMA InitPassInv ==
  ASSUME Init
  PROVE  PassInv
<1>1. IsFiniteSet(uploads)
  BY FS_EmptySet DEF Init
<1>. QED  BY <1>1 DEF Init, Idle, PassInv

\* RunOnce: all that is due is ahead.
LEMMA PassStartPass ==
  ASSUME LcInv, PassInv, PassStart
  PROVE  PassInv'
<1>1. /\ status # "None" /\ UNCHANGED <<status, vers, uploads, seq>>
      /\ worker' = [Idle EXCEPT !.stage = "scan", !.now = now, !.rules = cfg,
                                !.due = IF put = {} THEN Due(cfg, now) ELSE {},
                                !.dueUploads = {u \in uploads : AbortAfter(cfg, u, now)}]
  BY DEF PassStart, bucket
<1> DEFINE D == IF put = {} THEN Due(cfg, now) ELSE {}
           U == {u \in uploads : AbortAfter(cfg, u, now)}
<1>2. D \subseteq Due(cfg, now) /\ \A u \in U : AbortAfter(cfg, u, now)
  OBVIOUS
<1>3. worker' = [Idle EXCEPT !.stage = "scan", !.now = now, !.rules = cfg, !.due = D, !.dueUploads = U]
  BY <1>1
<1>. HIDE DEF D, U
<1>4. /\ worker'.stage = "scan" /\ worker'.now = now /\ worker'.rules = cfg /\ worker'.due = D
      /\ worker'.dueUploads = U /\ worker'.pos = 1 /\ worker'.batch = <<>>
  BY <1>3 DEF Idle
<1>5. cfg \in SUBSET Rule /\ vers \subseteq Version
  BY LcParts, LifecycleAssumption DEF VersionsOK, LcInv
<1>6. ASSUME NEW c \in D PROVE Pending(c)'
  <2>1. c \in Due(cfg, now)
    BY <1>2, <1>6
  <2>2. Sensible(c) /\ c.obj \in vers
    BY <1>5, <2>1, DueSensible
  <2>3. c.obj.key \in Nat /\ c.obj.key >= 1 /\ c.obj.class \in Nat
    BY <1>5, <2>2 DEF Version, Keys, Classes
  <2>4. \A x \in vers : Same(x, c.obj) => x = c.obj
    BY <2>2, LcParts DEF VersionsOK, Same
  <2>5. c.obj.seq <= seq
    BY <2>2, LcParts DEF VersionsOK
  <2>6. Sensible(c)'
    BY <2>2 DEF Sensible, Version, Actions, KindSet, Colder, Keys, Classes
  <2>7. PICK R, T : R = cfg /\ T = now
    OBVIOUS
  <2>8. c \in Due(worker.rules, worker.now)'
    <3>1. c \in Due(R, T)
      BY <2>1, <2>7
    <3>2. c \in Due(R, T)'
      BY <1>1, <3>1, DueOfKey
    <3>3. worker'.rules = R /\ worker'.now = T
      BY <1>4, <2>7
    <3>. QED  BY <3>2, <3>3
  <2>9. Ahead(c)'
    BY <1>4, <2>3 DEF Ahead
  <2>10. (\A x \in vers : Same(x, c.obj) => x.class >= c.obj.class)'
    BY <1>1, <2>3, <2>4 DEF Same
  <2>. QED  BY <1>1, <1>4, <2>5, <2>6, <2>8, <2>9, <2>10 DEF Pending
<1>7. ASSUME NEW u \in U PROVE PendingUpload(u)'
  <2>1. AbortAfter(worker'.rules, u, worker'.now)
    BY <1>2, <1>4, <1>7
  <2>. QED  BY <1>4, <2>1 DEF PendingUpload
<1>8. 1 \in Keys
  BY LifecycleAssumption DEF Keys
<1>. QED  BY <1>1, <1>4, <1>6, <1>7, <1>8 DEF PassInv

\* Listing order names no version twice.
LEMMA OrderIsOneToOne ==
  ASSUME NEW D, \A c \in D : c.obj.key \in Nat /\ c.obj.seq \in Nat,
         NEW n, NEW s \in [1..n -> D], InOrder(s), n \in Nat
  PROVE  \A i, j \in 1..n : s[i] = s[j] => i = j
<1> SUFFICES ASSUME NEW i \in 1..n, NEW j \in 1..n, s[i] = s[j], i < j PROVE FALSE
  OBVIOUS
<1>1. s[i] \in D /\ DOMAIN s = 1..n
  OBVIOUS
<1>2. s[i].obj.key \in Nat /\ s[i].obj.seq \in Nat
  BY <1>1
<1>3. s[i].obj.key < s[j].obj.key \/ s[i].obj.seq > s[j].obj.seq
  BY <1>1, SMTT(20) DEF InOrder
<1>. QED  BY <1>2, <1>3

\* collect: a page holds all that is due of its keys, and the next one begins
\* behind them.
LEMMA CollectIs ==
  ASSUME LcInv, PassInv, Collect
  PROVE  \E to \in Nat : LET C == Candidates(worker.pos, to) IN
           /\ worker.pos <= to /\ to <= NumKeys
           /\ worker'.stage = "apply" /\ worker'.rules = worker.rules /\ worker'.now = worker.now
           /\ worker'.due = worker.due /\ worker'.dueUploads = worker.dueUploads
           /\ worker'.pos = to + 1
           /\ worker'.batch \in [1..Cardinality(C) -> C]
           /\ \A c \in C : \E i \in DOMAIN worker'.batch : worker'.batch[i] = c
<1> DEFINE last == {k \in worker.pos..NumKeys : OfKey(vers, k) # {} /\ PageFull(worker.pos, k)
                                                /\ \E v \in vers : v.key > k}
           to == IF last # {} THEN Min(last) ELSE NumKeys
           C == Candidates(worker.pos, to)
<1>1. PICK batch \in [1..Cardinality(C) -> C] :
        /\ InOrder(batch)
        /\ worker' = [worker EXCEPT !.stage = "apply", !.batch = batch,
                                    !.pos = IF last # {} THEN NextKey(to) ELSE NumKeys + 1]
  BY DEF Collect
<1>2. NumKeys \in Nat /\ worker.pos \in Nat /\ worker.pos <= NumKeys
  BY LifecycleAssumption DEF PassInv, Collect, Keys
<1>3. last \in SUBSET Nat /\ \A k \in last : worker.pos <= k /\ k <= NumKeys
  BY <1>2
<1>4. to \in Nat /\ worker.pos <= to /\ to <= NumKeys
  <2>. HIDE DEF last
  <2>1. CASE last # {}
    <3>1. Min(last) \in last
      BY <1>3, <2>1, MinIs
    <3>. QED  BY <1>3, <2>1, <3>1
  <2>2. CASE last = {}
    BY <1>2, <2>2
  <2>. QED  BY <2>1, <2>2
<1>5. worker' = [worker EXCEPT !.stage = "apply", !.batch = batch, !.pos = to + 1]
  BY <1>1 DEF NextKey
<1>. HIDE DEF last, to
<1>6. /\ WorkerOK(worker, now) /\ vers \subseteq Version /\ IsFiniteSet(vers)
  BY LcParts DEF VersionsOK
<1>7. DOMAIN worker = DOMAIN Idle
  BY <1>6 DEF WorkerOK
<1>8. /\ worker'.stage = "apply" /\ worker'.batch = batch /\ worker'.pos = to + 1
      /\ worker'.rules = worker.rules /\ worker'.now = worker.now
      /\ worker'.due = worker.due /\ worker'.dueUploads = worker.dueUploads
  BY <1>5, <1>7 DEF Idle
<1>9. C \subseteq Due(worker.rules, worker.now)
  BY DEF Candidates
<1>10. IsFiniteSet(C) /\ Cardinality(C) \in Nat
  BY <1>6, <1>9, DueFinite
<1>11. \A c \in C : c.obj.key \in Nat /\ c.obj.seq \in Nat
  <2>1. \A c \in C : c.obj \in vers
    BY <1>9 DEF Due
  <2>. QED  BY <1>6, <2>1 DEF Version, Keys
<1> DEFINE n == Cardinality(C)
<1>. HIDE DEF C
<1>12. \A i, j \in 1..n : batch[i] = batch[j] => i = j
  BY <1>1, <1>10, <1>11, OrderIsOneToOne
<1>13. \A c \in C : \E i \in DOMAIN batch : batch[i] = c
  BY <1>1, <1>10, <1>12, AllMet
<1>. QED  BY <1>1, <1>4, <1>8, <1>13 DEF C

\* Collect: what was ahead is in the batch or still ahead.
LEMMA CollectPass ==
  ASSUME LcInv, PassInv, Collect
  PROVE  PassInv'
<1>1. PICK to \in Nat : LET C == Candidates(worker.pos, to) IN
           /\ worker.pos <= to /\ to <= NumKeys
           /\ worker'.stage = "apply" /\ worker'.rules = worker.rules /\ worker'.now = worker.now
           /\ worker'.due = worker.due /\ worker'.dueUploads = worker.dueUploads
           /\ worker'.pos = to + 1
           /\ worker'.batch \in [1..Cardinality(C) -> C]
           /\ \A c \in C : \E i \in DOMAIN worker'.batch : worker'.batch[i] = c
  BY CollectIs
<1> DEFINE C == Candidates(worker.pos, to)
<1>2. /\ worker.stage = "scan" /\ UNCHANGED <<status, vers, uploads, seq>>
  BY DEF Collect, bucket
<1>3. worker'.batch \in [1..Cardinality(C) -> C] /\ \A c \in C : \E i \in DOMAIN worker'.batch : worker'.batch[i] = c
  BY <1>1
<1>4. \A c : c \in C <=> c \in Due(worker.rules, worker.now) /\ c.obj.key \in worker.pos..to
  BY DEF Candidates
<1>5. vers \subseteq Version /\ worker.rules \in SUBSET Rule /\ worker.pos \in Nat
  BY LcParts DEF PassInv, VersionsOK, WorkerOK
<1>6. \A c \in Due(worker.rules, worker.now) : c.obj \in vers
  BY DEF Due
<1>. HIDE DEF C
<1>7. \A i \in DOMAIN worker'.batch : worker'.batch[i] \in C
  BY <1>3
<1>8. \A i \in DOMAIN worker'.batch : worker'.batch[i].obj.key < worker'.pos
  <2>1. \A c \in C : c.obj.key < to + 1
    BY <1>4, <1>5
  <2>. QED  BY <1>1, <1>7, <2>1
<1>9. ASSUME NEW c \in worker.due PROVE Pending(c)'
  <2>1. Pending(c)
    BY <1>2, <1>9, PassParts
  <2>2. Sensible(c)' /\ (c.obj.seq <= seq)' /\ (\A x \in vers : Same(x, c.obj) => x.class >= c.obj.class)'
    BY <1>2, <2>1 DEF Pending, Sensible, Version, Actions, KindSet, Colder, Keys, Classes, Same
  <2>3. c.obj.key \in Nat /\ c.obj.key <= NumKeys /\ c.obj.seq \in Nat
    BY <2>1, LifecycleAssumption DEF Pending, Sensible, Version, Keys
  <2>4. Ahead(c)' => Ahead(c)
    BY <1>1, <1>2, <1>5, <2>3 DEF Ahead
  <2>5. Ahead(c) => c \in C \/ Ahead(c)'
    BY <1>1, <1>2, <1>4, <1>5, <2>1, <2>3 DEF Pending, Ahead
  <2>6. c \in C => (worker.stage = "apply" /\ InBatch(c))'
    BY <1>1, <1>3 DEF InBatch
  <2>7. (Ahead(c) => c \in Due(worker.rules, worker.now))'
    <3>1. PICK R, T : R = worker.rules /\ T = worker.now
      OBVIOUS
    <3>2. ASSUME Ahead(c)' PROVE c \in Due(worker.rules, worker.now)'
      <4>1. c \in Due(R, T)
        BY <2>1, <2>4, <3>1, <3>2 DEF Pending
      <4>2. c \in Due(R, T)'
        BY <1>2, <4>1, DueOfKey
      <4>3. worker'.rules = R /\ worker'.now = T
        BY <1>1, <3>1
      <4>. QED  BY <4>2, <4>3
    <3>. QED  BY <3>2
  <2>8. ASSUME c.act.kind = "ExpireCurrent", NEW i \in DOMAIN worker'.batch, worker'.batch[i].obj.key = c.obj.key
        PROVE  worker'.batch[i].obj.seq <= c.obj.seq
    <3> DEFINE d == worker'.batch[i]
    <3>1. d \in C
      BY <1>7
    <3>2. d.obj \in vers /\ d.obj.key \in worker.pos..to
      BY <1>4, <1>6, <3>1
    <3>3. Ahead(c)
      BY <1>2, <1>5, <2>3, <2>8, <3>2 DEF Ahead
    <3>4. Above(vers, c.obj) = {}
      BY <1>5, <2>1, <2>8, <3>3, DueSensible DEF Pending
    <3>. HIDE DEF d
    <3>5. d.obj.seq \in Nat
      BY <1>5, <3>2 DEF Version
    <3>6. d.obj.key = c.obj.key
      BY <2>8 DEF d
    <3>7. d.obj.seq <= c.obj.seq
      BY <2>3, <3>2, <3>4, <3>5, <3>6 DEF Above
    <3>. QED  BY <3>7 DEF d
  <2>9. (c.obj.locked \/ DoneIn(c, vers) \/ (worker.stage = "apply" /\ InBatch(c)) \/ Ahead(c))'
    BY <1>2, <2>1, <2>5, <2>6 DEF Pending, DoneIn, Above
  <2>. QED  BY <2>2, <2>7, <2>8, <2>9 DEF Pending
<1>10. ASSUME NEW u \in worker.dueUploads PROVE PendingUpload(u)'
  <2>1. AbortAfter(worker.rules, u, worker.now)
    BY <1>2, <1>10, PassParts DEF PendingUpload
  <2>2. AbortAfter(worker'.rules, u, worker'.now)
    BY <1>1, <2>1
  <2>. QED  BY <1>1, <2>2 DEF PendingUpload
<1>11. worker'.due # {} \/ worker'.dueUploads # {} => status' # "None"
  BY <1>1, <1>2, PassParts
<1>12. worker'.pos \in Nat \ {0} /\ IsFiniteSet(uploads')
  BY <1>1, <1>2 DEF PassInv
<1>. QED  BY <1>1, <1>2, <1>8, <1>9, <1>10, <1>11, <1>12 DEF PassInv

Handled == ExpireCurrent \/ DeleteVersion \/ Transition \/ Skip

\* A decision comes off the batch; the pass goes on.
LEMMA HandledIs ==
  ASSUME LcInv, Handled
  PROVE  /\ Applying /\ Applied /\ UNCHANGED <<status, uploads>>
         /\ worker'.stage = "apply" /\ worker'.rules = worker.rules /\ worker'.now = worker.now
         /\ worker'.due = worker.due /\ worker'.dueUploads = worker.dueUploads
         /\ worker'.pos = worker.pos /\ worker'.batch = Tail(worker.batch)
<1>1. Applying /\ Applied /\ UNCHANGED <<status, uploads>>
  BY DEF Handled, ExpireCurrent, DeleteVersion, Transition, Skip, bucket
<1>2. DOMAIN worker = DOMAIN Idle
  BY LcParts DEF WorkerOK
<1>3. worker' = [worker EXCEPT !.batch = Tail(worker.batch)] /\ worker.stage = "apply"
  BY <1>1 DEF Applied, Applying
<1>. QED  BY <1>1, <1>2, <1>3 DEF Idle

\* What is left of a batch.
LEMMA TailOf ==
  ASSUME NEW S, NEW s \in Seq(S), s # <<>>
  PROVE  /\ \A i \in DOMAIN Tail(s) : \E j \in DOMAIN s : Tail(s)[i] = s[j]
         /\ \A j \in DOMAIN s : s[j] = Head(s) \/ \E i \in DOMAIN Tail(s) : Tail(s)[i] = s[j]
         /\ \E j \in DOMAIN s : s[j] = Head(s)
<1>1. Len(s) \in Nat /\ Len(s) >= 1 /\ DOMAIN s = 1..Len(s) /\ DOMAIN Tail(s) = 1..Len(s) - 1
  OBVIOUS
<1>2. \A i \in 1..Len(s) - 1 : Tail(s)[i] = s[i + 1]
  OBVIOUS
<1>3. Head(s) = s[1]
  OBVIOUS
<1>4. \A j \in 1..Len(s) : j = 1 \/ (j - 1 \in 1..Len(s) - 1 /\ (j - 1) + 1 = j)
  BY <1>1
<1>5. \A i \in 1..Len(s) - 1 : i + 1 \in 1..Len(s)
  BY <1>1
<1>6. \A j \in DOMAIN s : s[j] = Head(s) \/ \E i \in DOMAIN Tail(s) : Tail(s)[i] = s[j]
  <2> SUFFICES ASSUME NEW j \in DOMAIN s, j # 1 PROVE \E i \in DOMAIN Tail(s) : Tail(s)[i] = s[j]
    BY <1>3
  <2>1. j - 1 \in DOMAIN Tail(s) /\ (j - 1) + 1 = j
    BY <1>1, <1>4
  <2>2. Tail(s)[j - 1] = s[(j - 1) + 1]
    BY <1>1, <1>2, <2>1
  <2>3. Tail(s)[j - 1] = s[j]
    BY <2>1, <2>2
  <2>. QED  BY <2>1, <2>3
<1>7. \A i \in DOMAIN Tail(s) : \E j \in DOMAIN s : Tail(s)[i] = s[j]
  BY <1>1, <1>2, <1>5
<1>8. 1 \in DOMAIN s
  BY <1>1
<1>. QED  BY <1>3, <1>6, <1>7, <1>8

\* A step of apply adds a marker or makes a version colder, of the key it is
\* about, and spares what is newer.
LEMMA HandledTouches ==
  ASSUME LcInv, Handled
  PROVE  LET d == Candidate.obj IN
         /\ \A x \in vers' : \/ x \in vers
                             \/ x.seq = seq + 1 /\ x.key = d.key
                             \/ \E y \in vers : Same(x, y) /\ x.class > y.class /\ y.key = d.key
         /\ \A x \in vers : x \in vers' \/ x.key = d.key
         /\ Above(vers, d) \subseteq vers'
         /\ seq' \in Nat /\ seq <= seq'
<1> DEFINE d == Candidate.obj
           A == \A x \in vers' : \/ x \in vers
                                 \/ x.seq = seq + 1 /\ x.key = d.key
                                 \/ \E y \in vers : Same(x, y) /\ x.class > y.class /\ y.key = d.key
           B == \A x \in vers : x \in vers' \/ x.key = d.key
           N == Above(vers, d) \subseteq vers'
           S == seq' \in Nat /\ seq <= seq'
<1>1. seq \in Nat /\ vers \subseteq Version /\ \A x \in vers : x.seq \in Nat /\ x.seq <= seq /\ x.class \in Nat
  BY LcParts DEF VersionsOK, Version, Classes
<1>2. Applying /\ Applied
  BY HandledIs
<1>3. d \in Version /\ d.key \in Keys /\ d.seq \in Nat /\ Candidate.act.class \in Classes
  BY <1>2, CandidateIs
<1>4. CASE Skip
  <2>1. UNCHANGED <<vers, seq>>
    BY <1>4 DEF Skip
  <2>. QED  BY <1>1, <2>1 DEF Above
<1>5. CASE ExpireCurrent
  <2>1. StillLatest(d) /\ DeleteLatest(d.key)
    BY <1>5 DEF ExpireCurrent
  <2>2. N
    BY <2>1, LatestOnTop
  <2>3. S
    <3>1. seq' = seq \/ seq' = seq + 1
      BY <2>1 DEF DeleteLatest
    <3>. QED  BY <1>1, <3>1
  <2>4. MarkerOf(d.key, TRUE).seq = seq + 1 /\ MarkerOf(d.key, TRUE).key = d.key
        /\ MarkerOf(d.key, FALSE).seq = seq + 1 /\ MarkerOf(d.key, FALSE).key = d.key
    BY DEF MarkerOf
  <2>5. \A x \in vers' : x \in vers \/ x = MarkerOf(d.key, TRUE) \/ x = MarkerOf(d.key, FALSE)
    BY <2>1 DEF DeleteLatest
  <2>6. A
    <3>. HIDE DEF d
    <3>. QED  BY <2>4, <2>5
  <2>7. \A x \in OfKey(vers, d.key) : x.seq \in Nat /\ x.seq <= seq
    BY <1>1 DEF OfKey
  <2>8. OfKey(vers, d.key) # {}
    BY <2>1 DEF StillLatest
  <2>9. Newest(OfKey(vers, d.key)) \in OfKey(vers, d.key)
    BY <1>1, <2>7, <2>8, NewestIs
  <2>10. B
    BY <2>1, <2>9 DEF DeleteLatest, NullVersions, OfKey
  <2>. QED  BY <2>2, <2>3, <2>6, <2>10
<1>6. CASE DeleteVersion
  <2>1. PICK x \in vers : x.key = d.key /\ x.seq = d.seq /\ vers' = vers \ {x} /\ seq' = seq
    BY <1>6 DEF DeleteVersion, Current
  <2>2. N
    BY <1>1, <2>1 DEF Above
  <2>. QED  BY <1>1, <2>1, <2>2
<1>7. CASE Transition
  <2> DEFINE n == Candidate.act.class
  <2>1. PICK x \in vers : /\ x.key = d.key /\ x.seq = d.seq /\ n > x.class
                          /\ vers' = (vers \ {x}) \cup {[x EXCEPT !.class = n]} /\ seq' = seq
    BY <1>7 DEF Transition, Transitioned, Current
  <2> DEFINE y == [x EXCEPT !.class = n]
  <2>2. x \in Version
    BY <1>1
  <2>3. y.key = x.key /\ y.seq = x.seq /\ y.class = n
    BY <2>2 DEF Version
  <2>4. vers' = (vers \ {x}) \cup {y}
    BY <2>1
  <2>. HIDE DEF y, n
  <2>5. N
    BY <1>1, <2>1, <2>4 DEF Above
  <2>6. A
    BY <2>1, <2>3, <2>4 DEF Same
  <2>7. B
    BY <2>1, <2>4
  <2>. QED  BY <1>1, <2>1, <2>5, <2>6, <2>7
<1>. QED  BY <1>4, <1>5, <1>6, <1>7 DEF Handled

\* A step of apply carries its decision out, unless a lock forbids it.
LEMMA HandledDone ==
  ASSUME LcInv, Handled, status # "None", NEW c, c = Candidate, Sensible(c), ~c.obj.locked, c.obj.seq <= seq,
         \A x \in vers : Same(x, c.obj) => x.class >= c.obj.class
  PROVE  DoneIn(c, vers')
<1> DEFINE v == c.obj
<1>1. seq \in Nat /\ vers \subseteq Version /\ \A x \in vers : x.seq \in Nat /\ x.seq <= seq /\ x.class \in Nat
  BY LcParts DEF VersionsOK, Version, Classes
<1>2. \A x, y \in vers : x.seq = y.seq => x = y
  BY LcParts DEF VersionsOK
<1>3. v \in Version /\ v.seq \in Nat /\ v.class \in Nat /\ c.act.class \in Nat
  BY DEF Sensible, Version, Actions, Classes
<1>4. CASE ExpireCurrent
  <2>1. StillLatest(v) /\ DeleteLatest(v.key) /\ c.act.kind = "ExpireCurrent"
    BY <1>4 DEF ExpireCurrent
  <2>2. CASE status \in {"Enabled", "Locked", "Suspended"}
    <3>1. PICK null \in BOOLEAN : MarkerOf(v.key, null) \in vers'
      BY <2>1, <2>2 DEF DeleteLatest
    <3>2. MarkerOf(v.key, null).key = v.key /\ MarkerOf(v.key, null).seq = seq + 1
      BY DEF MarkerOf
    <3>3. MarkerOf(v.key, null) \in Above(vers', v)
      BY <1>1, <1>3, <3>1, <3>2 DEF Above
    <3>. QED  BY <2>1, <3>3 DEF DoneIn
  <2>3. CASE status = "Off"
    <3> DEFINE n == Newest(OfKey(vers, v.key))
    <3>1. vers' = vers \ {n} /\ n.seq = v.seq
      BY <2>1, <2>3 DEF DeleteLatest, StillLatest
    <3>2. \A x \in OfKey(vers, v.key) : x.seq \in Nat /\ x.seq <= seq
      BY <1>1 DEF OfKey
    <3>3. OfKey(vers, v.key) # {}
      BY <2>1 DEF StillLatest
    <3>4. n \in vers
      BY <1>1, <3>2, <3>3, NewestIs DEF OfKey
    <3>. HIDE DEF n
    <3>5. v \notin vers'
      BY <1>2, <3>1, <3>4
    <3>. QED  BY <3>5 DEF DoneIn
  <2>4. status \in {"Off", "Enabled", "Suspended", "Locked"}
    BY DEF LcInv
  <2>. QED  BY <2>2, <2>3, <2>4
<1>5. CASE DeleteVersion
  <2>1. PICK x \in vers : x.seq = v.seq /\ vers' = vers \ {x}
    BY <1>5 DEF DeleteVersion, Current
  <2>. QED  BY <1>2, <2>1 DEF DoneIn
<1>6. CASE Transition
  <2> DEFINE n == c.act.class
  <2>1. PICK x \in vers : /\ x.key = v.key /\ x.seq = v.seq /\ n > x.class
                          /\ vers' = (vers \ {x}) \cup {[x EXCEPT !.class = n]}
    BY <1>6 DEF Transition, Transitioned, Current
  <2>2. [x EXCEPT !.class = n].class = n
    <3>1. x \in Version
      BY <1>1
    <3>. QED  BY <3>1 DEF Version
  <2>3. x.class >= v.class
    BY <2>1 DEF Same
  <2>4. v # [x EXCEPT !.class = n]
    <3>1. n \in Nat /\ x.class \in Nat /\ v.class \in Nat /\ n > x.class /\ x.class >= v.class
      BY <1>1, <1>3, <2>1, <2>3
    <3>2. \A y : y.class = n => v # y
      <4>. HIDE DEF n, v
      <4>. QED  BY <3>1
    <3>. QED  BY <2>2, <3>2
  <2>5. v \notin vers \ {x}
    BY <1>2, <2>1
  <2>. QED  BY <2>1, <2>4, <2>5 DEF DoneIn
<1>7. CASE Skip
  <2>1. vers' = vers
    BY <1>7 DEF Skip
  <2>2. ASSUME v \in vers PROVE c.act.kind = "ExpireCurrent" /\ Above(vers, v) # {}
    <3>1. v \in Current(v) /\ Deletable(v)
      BY <2>2 DEF Current, Deletable
    <3>2. c.act.kind \in Colder => ~v.marker /\ ~(c.act.class <= v.class)
      BY <1>3 DEF Sensible
    <3>3. c.act.kind = "ExpireCurrent" /\ ~StillLatest(v)
      BY <1>7, <3>1, <3>2 DEF Skip, Colder
    <3> DEFINE K == OfKey(vers, v.key)
    <3>4. v \in K /\ \A x \in K : x.seq \in Nat /\ x.seq <= seq
      BY <1>1, <2>2 DEF OfKey
    <3>5. Newest(K) \in K /\ \A x \in K : x.seq <= Newest(K).seq
      BY <1>1, <3>4, NewestIs
    <3>6. Newest(K).seq # v.seq
      BY <3>3, <3>4 DEF StillLatest
    <3>7. Newest(K).seq > v.seq /\ Newest(K) \in vers /\ Newest(K).key = v.key
      <4>1. Newest(K) \in vers /\ Newest(K).key = v.key
        BY <3>5 DEF OfKey
      <4>. HIDE DEF K
      <4>. QED  BY <3>4, <3>5, <3>6, <4>1
    <3>. QED  BY <3>3, <3>7 DEF Above
  <2>. QED  BY <2>1, <2>2 DEF DoneIn
<1>. QED  BY <1>4, <1>5, <1>6, <1>7 DEF Handled

\* A decision that was carried out stays so: what is left of the batch is not
\* about anything above it.
LEMMA StaysDone ==
  ASSUME LcInv, Handled, NEW c, Sensible(c), c.obj.seq <= seq, DoneIn(c, vers),
         \A x \in vers : Same(x, c.obj) => x.class >= c.obj.class,
         c.act.kind = "ExpireCurrent" /\ Candidate.obj.key = c.obj.key => Candidate.obj.seq <= c.obj.seq
  PROVE  DoneIn(c, vers')
<1> DEFINE v == c.obj
           d == Candidate.obj
<1>1. /\ \A x \in vers' : \/ x \in vers
                          \/ x.seq = seq + 1 /\ x.key = d.key
                          \/ \E y \in vers : Same(x, y) /\ x.class > y.class /\ y.key = d.key
      /\ \A x \in vers : x \in vers' \/ x.key = d.key
      /\ Above(vers, d) \subseteq vers'
  BY HandledTouches
<1>2. seq \in Nat /\ \A x \in vers : x.seq \in Nat /\ x.seq <= seq /\ x.class \in Nat
  BY LcParts DEF VersionsOK, Version, Classes
<1>3. v.seq \in Nat /\ v.class \in Nat
  BY DEF Sensible, Version, Classes
<1>4. d.seq \in Nat
  BY HandledIs, CandidateIs
<1>. HIDE DEF v, d
<1>5. CASE v \notin vers
  <2>1. \A x \in vers : Same(x, v) => x.class >= v.class
    BY DEF v
  <2>2. v \notin vers'
    <3> SUFFICES ASSUME v \in vers' PROVE FALSE
      OBVIOUS
    <3>1. v.seq # seq + 1
      BY <1>2, <1>3 DEF v
    <3>2. PICK y \in vers : Same(v, y) /\ v.class > y.class
      BY <1>1, <1>5, <3>1
    <3>3. y.class >= v.class
      BY <2>1, <3>2 DEF Same
    <3>. QED  BY <1>2, <1>3, <3>2, <3>3
  <2>. QED  BY <2>2 DEF DoneIn, v
<1>6. CASE c.act.kind = "ExpireCurrent" /\ Above(vers, v) # {}
  <2>1. PICK y \in vers : y.key = v.key /\ y.seq > v.seq
    BY <1>6 DEF Above
  <2>2. y \in vers'
    <3>1. CASE d.key = v.key
      <4>1. d.seq <= v.seq
        BY <1>6, <3>1 DEF d, v
      <4>2. y \in Above(vers, d)
        BY <1>2, <1>3, <1>4, <2>1, <3>1, <4>1 DEF Above
      <4>. QED  BY <1>1, <4>2
    <3>. QED  BY <1>1, <2>1, <3>1
  <2>3. y \in Above(vers', v)
    BY <2>1, <2>2 DEF Above
  <2>. QED  BY <1>6, <2>3 DEF DoneIn, v
<1>. QED  BY <1>5, <1>6 DEF DoneIn, v

\* apply: the decision at hand is done, what was done stays so, and the keys
\* ahead are left alone.
LEMMA HandledPass ==
  ASSUME LcInv, PassInv, Handled
  PROVE  PassInv'
<1> DEFINE d == Candidate.obj
<1>1. /\ worker.stage = "apply" /\ worker.batch # <<>> /\ UNCHANGED <<status, uploads>>
      /\ worker'.stage = "apply" /\ worker'.rules = worker.rules /\ worker'.now = worker.now
      /\ worker'.due = worker.due /\ worker'.dueUploads = worker.dueUploads
      /\ worker'.pos = worker.pos /\ worker'.batch = Tail(worker.batch)
  BY HandledIs DEF Applying
<1>2. worker.batch \in Seq(Decided(worker.rules, worker.now))
  BY <1>1, LcParts DEF WorkerOK
<1>3. /\ \A i \in DOMAIN worker'.batch : \E j \in DOMAIN worker.batch : worker'.batch[i] = worker.batch[j]
      /\ \A j \in DOMAIN worker.batch : worker.batch[j] = Candidate \/ \E i \in DOMAIN worker'.batch : worker'.batch[i] = worker.batch[j]
      /\ \E j \in DOMAIN worker.batch : worker.batch[j] = Candidate
  <2> DEFINE b == worker.batch
  <2>1. /\ \A i \in DOMAIN Tail(b) : \E j \in DOMAIN b : Tail(b)[i] = b[j]
        /\ \A j \in DOMAIN b : b[j] = Head(b) \/ \E i \in DOMAIN Tail(b) : Tail(b)[i] = b[j]
        /\ \E j \in DOMAIN b : b[j] = Head(b)
    BY <1>1, <1>2, TailOf
  <2>2. worker'.batch = Tail(b) /\ Candidate = Head(b)
    BY <1>1 DEF Candidate
  <2>. HIDE DEF b
  <2>3. /\ \A i \in DOMAIN worker'.batch : \E j \in DOMAIN b : worker'.batch[i] = b[j]
        /\ \A j \in DOMAIN b : b[j] = Candidate \/ \E i \in DOMAIN worker'.batch : worker'.batch[i] = b[j]
        /\ \E j \in DOMAIN b : b[j] = Candidate
    BY <2>1, <2>2
  <2>. QED  BY <2>3 DEF b
<1>4. /\ \A x \in vers' : \/ x \in vers
                          \/ x.seq = seq + 1 /\ x.key = d.key
                          \/ \E y \in vers : Same(x, y) /\ x.class > y.class /\ y.key = d.key
      /\ \A x \in vers : x \in vers' \/ x.key = d.key
      /\ seq' \in Nat /\ seq <= seq'
  BY HandledTouches
<1>5. seq \in Nat /\ \A x \in vers : x.seq \in Nat /\ x.seq <= seq /\ x.class \in Nat
  BY LcParts DEF VersionsOK, Version, Classes
<1>6. d.key \in Nat /\ d.key < worker.pos /\ worker.pos \in Nat
  <2>1. d.key \in Nat
    BY HandledIs, CandidateIs DEF Version, Keys
  <2>. QED  BY <1>1, <1>3, <2>1 DEF PassInv
<1>7. \A x : x.key # d.key => (x \in vers' <=> x \in vers)
  BY <1>4 DEF Same
<1>. HIDE DEF d
<1>8. ASSUME NEW c \in worker.due PROVE Pending(c)'
  <2>1. Pending(c) /\ status # "None"
    BY <1>1, <1>8, PassParts
  <2>2. Sensible(c) /\ c.obj.seq <= seq /\ \A x \in vers : Same(x, c.obj) => x.class >= c.obj.class
    BY <2>1 DEF Pending
  <2>3. c.obj.seq \in Nat /\ c.obj.class \in Nat /\ c.obj.key \in Nat
    BY <2>2 DEF Sensible, Version, Keys, Classes
  <2>4. Sensible(c)'
    BY <2>2 DEF Sensible, Version, Actions, KindSet, Colder, Keys, Classes
  <2>5. c.obj.seq <= seq'
    BY <1>4, <1>5, <2>2, <2>3
  <2>6. ASSUME NEW x \in vers', Same(x, c.obj) PROVE x.class >= c.obj.class
    <3>1. CASE x \in vers
      BY <2>2, <2>6, <3>1
    <3>2. CASE x.seq = seq + 1
      BY <1>5, <2>2, <2>3, <2>6, <3>2 DEF Same
    <3>3. CASE \E y \in vers : Same(x, y) /\ x.class > y.class
      <4>1. PICK y \in vers : Same(x, y) /\ x.class > y.class
        BY <3>3
      <4>2. Same(y, c.obj)
        BY <2>6, <4>1 DEF Same
      <4>3. y.class >= c.obj.class
        BY <2>2, <4>2
      <4>4. x.class \in Nat
        <5>1. vers' \subseteq Version
          BY NextLcInv, LcParts DEF Next, WorkerStep, Handled, LcInv, VersionsOK
        <5>. QED  BY <5>1 DEF Version, Classes
      <4>. QED  BY <1>5, <2>3, <4>1, <4>3, <4>4
    <3>. QED  BY <1>4, <3>1, <3>2, <3>3
  <2>7. Ahead(c)' <=> Ahead(c)
    BY <1>1 DEF Ahead
  <2>8. ASSUME Ahead(c)' PROVE c \in Due(worker.rules, worker.now)'
    <3>1. c \in Due(worker.rules, worker.now)
      BY <2>1, <2>7, <2>8 DEF Pending
    <3>2. c.obj.key # d.key
      BY <1>6, <2>3, <2>7, <2>8 DEF Ahead
    <3>3. PICK R, T : R = worker.rules /\ T = worker.now
      OBVIOUS
    <3>4. c \in Due(R, T)
      BY <3>1, <3>3
    <3>5. \A v : v.key = c.obj.key => (v \in vers' <=> v \in vers)
      BY <1>7, <3>2
    <3>6. c \in Due(R, T)'
      BY <3>4, <3>5, DueOfKey
    <3>7. worker'.rules = R /\ worker'.now = T
      BY <1>1, <3>3
    <3>. QED  BY <3>6, <3>7
  <2>9. ASSUME c.act.kind = "ExpireCurrent", NEW i \in DOMAIN worker'.batch, worker'.batch[i].obj.key = c.obj.key
        PROVE  worker'.batch[i].obj.seq <= c.obj.seq
    <3>1. PICK j \in DOMAIN worker.batch : worker'.batch[i] = worker.batch[j]
      BY <1>3
    <3>. QED  BY <1>1, <2>1, <2>9, <3>1 DEF Pending
  <2>10. c.act.kind = "ExpireCurrent" /\ Candidate.obj.key = c.obj.key => Candidate.obj.seq <= c.obj.seq
    BY <1>1, <1>3, <2>1 DEF Pending
  <2>11. c.obj.locked \/ DoneIn(c, vers') \/ (worker.stage = "apply" /\ InBatch(c))' \/ Ahead(c)'
    <3>1. CASE DoneIn(c, vers)
      BY <2>2, <2>10, <3>1, StaysDone
    <3>2. CASE InBatch(c)
      <4>1. c = Candidate \/ InBatch(c)'
        BY <1>3, <3>2 DEF InBatch
      <4>2. CASE c = Candidate /\ ~c.obj.locked
        BY <2>1, <2>2, <4>2, HandledDone
      <4>. QED  BY <1>1, <4>1, <4>2
    <3>. QED  BY <2>1, <2>7, <3>1, <3>2 DEF Pending
  <2>12. (\A x \in vers : Same(x, c.obj) => x.class >= c.obj.class)'
    BY <2>6 DEF Same
  <2>13. DoneIn(c, vers') => DoneIn(c, vers)'
    BY DEF DoneIn, Above
  <2>. QED  BY <2>4, <2>5, <2>8, <2>9, <2>11, <2>12, <2>13 DEF Pending
<1>9. ASSUME NEW u \in worker.dueUploads PROVE PendingUpload(u)'
  <2>1. AbortAfter(worker.rules, u, worker.now)
    BY <1>1, <1>9, PassParts DEF PendingUpload
  <2>2. AbortAfter(worker'.rules, u, worker'.now)
    BY <1>1, <2>1
  <2>. QED  BY <1>1, <2>2 DEF PendingUpload
<1>10. worker'.due # {} \/ worker'.dueUploads # {} => status' # "None"
  BY <1>1, PassParts
<1>11. \A i \in DOMAIN worker'.batch : worker'.batch[i].obj.key < worker'.pos
  BY <1>1, <1>3 DEF PassInv
<1>12. worker'.pos \in Nat \ {0} /\ IsFiniteSet(uploads')
  BY <1>1 DEF PassInv
<1>. QED  BY <1>1, <1>8, <1>9, <1>10, <1>11, <1>12 DEF PassInv

\* Nothing is left of the versions when the scan has passed the last key.
LEMMA PageDonePass ==
  ASSUME LcInv, PassInv, PageDone
  PROVE  /\ PassInv'
         /\ worker'.stage = "idle" => /\ \A c \in worker.due : c.obj.locked \/ DoneIn(c, vers')
                                      /\ worker.dueUploads = {}
<1>1. /\ worker.stage = "apply" /\ worker.batch = <<>> /\ UNCHANGED <<status, vers, uploads, seq>>
      /\ worker' = IF worker.pos <= NumKeys THEN [worker EXCEPT !.stage = "scan"]
                   ELSE IF \E r \in worker.rules : r.enabled /\ r.abort > 0
                   THEN [worker EXCEPT !.stage = "uploads"]
                   ELSE Idle
  BY DEF PageDone, bucket
<1>2. DOMAIN worker = DOMAIN Idle
  BY LcParts DEF WorkerOK
<1>3. worker.pos \in Nat /\ NumKeys \in Nat /\ IsFiniteSet(uploads')
  BY <1>1, LifecycleAssumption DEF PassInv
<1>4. ASSUME NEW c \in worker.due PROVE Pending(c) /\ c.obj.key \in Nat /\ c.obj.key <= NumKeys
  <2>1. Pending(c)
    BY <1>1, <1>4, PassParts
  <2>. QED  BY <1>3, <2>1 DEF Pending, Sensible, Version, Keys
<1>5. \A c : ~InBatch(c)
  BY <1>1 DEF InBatch
<1>6. CASE worker' = Idle
  <2>1. ~(worker.pos <= NumKeys) /\ ~\E r \in worker.rules : r.enabled /\ r.abort > 0
    <3>1. Idle.stage = "idle" /\ [worker EXCEPT !.stage = "scan"].stage = "scan" /\ [worker EXCEPT !.stage = "uploads"].stage = "uploads"
      BY <1>2 DEF Idle
    <3>. QED  BY <1>1, <1>6, <3>1
  <2>2. ASSUME NEW c \in worker.due PROVE c.obj.locked \/ DoneIn(c, vers')
    <3>1. ~Ahead(c)
      BY <1>3, <1>4, <2>1 DEF Ahead
    <3>. QED  BY <1>1, <1>4, <1>5, <3>1 DEF Pending, DoneIn, Above
  <2>3. worker.dueUploads = {}
    BY <1>1, <2>1, PassParts DEF PendingUpload, AbortAfter
  <2>4. PassInv'
    BY <1>3, <1>6 DEF PassInv, Idle
  <2>. QED  BY <2>2, <2>3, <2>4
<1>7. CASE \E st \in {"scan", "uploads"} : worker' = [worker EXCEPT !.stage = st] /\ (st = "scan" <=> worker.pos <= NumKeys)
  <2>1. PICK st \in {"scan", "uploads"} : worker' = [worker EXCEPT !.stage = st] /\ (st = "scan" <=> worker.pos <= NumKeys)
    BY <1>7
  <2>2. /\ worker'.stage = st /\ worker'.rules = worker.rules /\ worker'.now = worker.now
        /\ worker'.due = worker.due /\ worker'.dueUploads = worker.dueUploads
        /\ worker'.pos = worker.pos
    BY <1>2, <2>1 DEF Idle
  <2>3. ASSUME NEW c \in worker.due PROVE Pending(c)'
    <3>1. Pending(c)
      BY <1>4, <2>3
    <3>2. Sensible(c)' /\ (c.obj.seq <= seq)' /\ (\A x \in vers : Same(x, c.obj) => x.class >= c.obj.class)'
      BY <1>1, <3>1 DEF Pending, Sensible, Version, Actions, KindSet, Colder, Keys, Classes, Same
    <3>3. Ahead(c) <=> Ahead(c)'
      BY <1>1, <1>3, <1>4, <2>1, <2>2, <2>3 DEF Ahead
    <3>4. (c.obj.locked \/ DoneIn(c, vers) \/ Ahead(c))'
      BY <1>1, <1>5, <3>1, <3>3 DEF Pending, DoneIn, Above
    <3>5. (Ahead(c) => c \in Due(worker.rules, worker.now))'
      <4>1. PICK R, T : R = worker.rules /\ T = worker.now
        OBVIOUS
      <4>2. ASSUME Ahead(c)' PROVE c \in Due(worker.rules, worker.now)'
        <5>1. c \in Due(R, T)
          BY <3>1, <3>3, <4>1, <4>2 DEF Pending
        <5>2. c \in Due(R, T)'
          BY <1>1, <5>1, DueOfKey
        <5>3. worker'.rules = R /\ worker'.now = T
          BY <2>2, <4>1
        <5>. QED  BY <5>2, <5>3
      <4>. QED  BY <4>2
    <3>6. worker'.stage # "apply"
      BY <2>2
    <3>. QED  BY <3>2, <3>4, <3>5, <3>6 DEF Pending
  <2>4. ASSUME NEW u \in worker.dueUploads PROVE PendingUpload(u)'
    <3>1. AbortAfter(worker.rules, u, worker.now)
      BY <1>1, <2>4, PassParts DEF PendingUpload
    <3>2. AbortAfter(worker'.rules, u, worker'.now)
      BY <2>2, <3>1
    <3>. QED  BY <2>2, <3>2 DEF PendingUpload
  <2>5. worker'.due # {} \/ worker'.dueUploads # {} => status' # "None"
    BY <1>1, <2>2, PassParts
  <2>6. worker'.stage = "scan" => worker'.pos \in Keys
    <3>1. worker'.stage = "scan" => worker.pos <= NumKeys
      BY <2>1, <2>2
    <3>2. worker.pos >= 1
      BY DEF PassInv
    <3>. QED  BY <1>3, <2>2, <3>1, <3>2 DEF Keys
  <2>. QED  BY <1>3, <2>2, <2>3, <2>4, <2>5, <2>6 DEF PassInv
<1>. QED  BY <1>1, <1>6, <1>7

\* The elements of a finite set, as SetToSeq lists them.
LEMMA Listed ==
  ASSUME NEW S, IsFiniteSet(S)
  PROVE  SetToSeq(S) \in Seq(S) /\ \A x \in S : \E i \in DOMAIN SetToSeq(S) : SetToSeq(S)[i] = x
<1> DEFINE n == Cardinality(S)
           Is(f) == f \in [1..n -> S] /\ IsInjective(f)
<1>1. n \in Nat
  BY FS_CardinalityType
<1>2. \E f : f \in [1..n -> S] /\ IsInjective(f)
  <2>1. PICK f : f \in Bijection(1..n, S)
    BY FS_CardinalityType DEF ExistsBijection
  <2>. QED  BY <2>1 DEF Bijection, Injection
<1>3. SetToSeq(S) \in [1..n -> S] /\ IsInjective(SetToSeq(S))
  BY <1>2 DEF SetToSeq
<1>4. \A i, j \in 1..n : SetToSeq(S)[i] = SetToSeq(S)[j] => i = j
  BY <1>3 DEF IsInjective
<1>. HIDE DEF n
<1>5. SetToSeq(S) \in Seq(S)
  BY <1>1, <1>3
<1>6. \A x \in S : \E i \in DOMAIN SetToSeq(S) : SetToSeq(S)[i] = x
  BY <1>3, <1>4, AllMet DEF n
<1>. QED  BY <1>5, <1>6

\* A pass in the uploads' stages leaves the versions as they were.
LEMMA BeyondScan ==
  ASSUME LcInv, PassInv, worker.stage \in {"uploads", "abort"}, worker'.stage \in {"uploads", "abort"},
         UNCHANGED <<vers, seq>>, NEW c \in worker.due
  PROVE  Pending(c)'
<1>1. Pending(c)
  BY PassParts
<1>2. Sensible(c)' /\ (c.obj.seq <= seq)' /\ (\A x \in vers : Same(x, c.obj) => x.class >= c.obj.class)'
  BY <1>1 DEF Pending, Sensible, Version, Actions, KindSet, Colder, Keys, Classes, Same
<1>3. ~Ahead(c) /\ ~Ahead(c)'
  BY DEF Ahead
<1>4. (c.obj.locked \/ DoneIn(c, vers))'
  BY <1>1, <1>3 DEF Pending, DoneIn, Above
<1>. QED  BY <1>2, <1>3, <1>4 DEF Pending

\* processUploads: a batch that is not full has all uploads that are due.
LEMMA CollectUploadsPass ==
  ASSUME LcInv, PassInv, CollectUploads
  PROVE  PassInv'
<1> DEFINE due == {u \in uploads : AbortAfter(worker.rules, u, worker.now)}
           m == Min({Cardinality(due), BatchSize})
<1>1. PICK B \in kSubset(m, due) :
        worker' = [worker EXCEPT !.stage = "abort", !.batch = SetToSeq(B), !.full = Cardinality(B) = BatchSize]
  BY DEF CollectUploads
<1>2. worker.stage = "uploads" /\ UNCHANGED <<status, vers, uploads, seq>>
  BY DEF CollectUploads, bucket
<1>3. DOMAIN worker = DOMAIN Idle /\ uploads \subseteq Upload
  BY LcParts DEF WorkerOK, LcInv
<1> DEFINE fl == Cardinality(B) = BatchSize
           sq == SetToSeq(B)
<1>4. worker' = [worker EXCEPT !.stage = "abort", !.batch = sq, !.full = fl]
  BY <1>1
<1>. HIDE DEF fl, sq
<1>5. /\ worker'.stage = "abort" /\ worker'.rules = worker.rules /\ worker'.now = worker.now
      /\ worker'.due = worker.due /\ worker'.dueUploads = worker.dueUploads
      /\ worker'.pos = worker.pos /\ worker'.batch = sq /\ worker'.full = fl
  BY <1>3, <1>4 DEF Idle
<1>6. IsFiniteSet(uploads) /\ due \subseteq uploads
  BY DEF PassInv
<1>. HIDE DEF due
<1>7. IsFiniteSet(due) /\ Cardinality(due) \in Nat /\ BatchSize \in Nat
  BY <1>6, FS_Subset, FS_CardinalityType, LifecycleAssumption
<1>8. B \subseteq due /\ Cardinality(B) = m
  BY <1>1 DEF kSubset
<1>9. m \in {Cardinality(due), BatchSize}
  BY <1>7, MinIs
<1>. HIDE DEF m
<1>10. IsFiniteSet(B)
  BY <1>7, <1>8, FS_Subset
<1>11. B = due \/ fl
  BY <1>7, <1>8, <1>9, FS_Subset DEF fl
<1>12. sq \in Seq(B) /\ \A u \in B : \E i \in DOMAIN sq : sq[i] = u
  BY <1>10, Listed DEF sq
<1>13. sq \in Seq(Upload)
  BY <1>3, <1>6, <1>8, <1>12
<1>14. ASSUME NEW u \in worker.dueUploads PROVE PendingUpload(u)'
  <2>1. AbortAfter(worker.rules, u, worker.now)
    BY <1>2, <1>14, PassParts DEF PendingUpload
  <2>2. AbortAfter(worker'.rules, u, worker'.now)
    BY <1>5, <2>1
  <2>3. u \in uploads => u \in due
    BY <2>1 DEF due
  <2>4. u \in uploads => fl \/ \E i \in DOMAIN sq : sq[i] = u
    BY <1>11, <1>12, <2>3
  <2>. QED  BY <1>2, <1>5, <2>2, <2>4 DEF PendingUpload, InBatch
<1>15. \A c \in worker'.due : Pending(c)'
  BY <1>2, <1>5, BeyondScan
<1>16. worker'.due # {} \/ worker'.dueUploads # {} => status' # "None"
  BY <1>2, <1>5, PassParts
<1>17. worker'.pos \in Nat \ {0} /\ IsFiniteSet(uploads')
  BY <1>2, <1>5 DEF PassInv
<1>. QED  BY <1>5, <1>13, <1>14, <1>15, <1>16, <1>17 DEF PassInv

\* AbortUpload: the upload is gone, and nothing else.
LEMMA AbortUploadPass ==
  ASSUME LcInv, PassInv, AbortUpload
  PROVE  PassInv'
<1> DEFINE b == worker.batch
           fl == worker.full /\ status # "None"
<1>1. /\ worker.stage = "abort" /\ b # <<>> /\ UNCHANGED <<status, vers, seq>>
      /\ uploads' = uploads \ {Head(b)}
      /\ worker' = [worker EXCEPT !.batch = Tail(b), !.full = fl]
  BY DEF AbortUpload, bucket
<1>2. DOMAIN worker = DOMAIN Idle
  BY LcParts DEF WorkerOK
<1>3. b \in Seq(Upload)
  BY <1>1 DEF PassInv
<1>4. worker.full /\ status # "None" => fl
  OBVIOUS
<1>5. \A u : InBatch(u) <=> \E i \in DOMAIN b : b[i] = u
  BY DEF InBatch
<1>. HIDE DEF b, fl
<1>6. /\ worker'.stage = "abort" /\ worker'.rules = worker.rules /\ worker'.now = worker.now
      /\ worker'.due = worker.due /\ worker'.dueUploads = worker.dueUploads
      /\ worker'.pos = worker.pos /\ worker'.batch = Tail(b) /\ worker'.full = fl
  BY <1>1, <1>2 DEF Idle
<1>7. Tail(b) \in Seq(Upload)
  BY <1>1, <1>3
<1>8. \A j \in DOMAIN b : b[j] = Head(b) \/ \E i \in DOMAIN Tail(b) : Tail(b)[i] = b[j]
  BY <1>1, <1>3, TailOf
<1>9. ASSUME NEW u \in worker.dueUploads PROVE PendingUpload(u)'
  <2>1. PendingUpload(u) /\ status # "None"
    BY <1>1, <1>9, PassParts
  <2>2. AbortAfter(worker'.rules, u, worker'.now)
    BY <1>6, <2>1 DEF PendingUpload
  <2>3. ASSUME u \in uploads' PROVE fl \/ \E i \in DOMAIN Tail(b) : Tail(b)[i] = u
    <3>1. u \in uploads /\ u # Head(b)
      BY <1>1, <2>3
    <3>2. InBatch(u) \/ worker.full
      BY <1>1, <2>1, <3>1 DEF PendingUpload
    <3>. QED  BY <1>4, <1>5, <1>8, <2>1, <3>1, <3>2
  <2>. QED  BY <1>6, <2>2, <2>3 DEF PendingUpload, InBatch
<1>10. \A c \in worker'.due : Pending(c)'
  BY <1>1, <1>6, BeyondScan
<1>11. worker'.due # {} \/ worker'.dueUploads # {} => status' # "None"
  BY <1>1, <1>6, PassParts
<1>12. worker'.pos \in Nat \ {0}
  BY <1>6 DEF PassInv
<1>13. IsFiniteSet(uploads')
  BY <1>1, FS_Subset DEF PassInv
<1>. QED  BY <1>6, <1>7, <1>9, <1>10, <1>11, <1>12, <1>13 DEF PassInv

\* A batch that was not full was the last, and all of it is gone.
LEMMA UploadsDonePass ==
  ASSUME LcInv, PassInv, UploadsDone
  PROVE  /\ PassInv'
         /\ worker'.stage = "idle" => /\ \A c \in worker.due : c.obj.locked \/ DoneIn(c, vers')
                                      /\ worker.dueUploads \cap uploads' = {}
<1>1. /\ worker.stage = "abort" /\ worker.batch = <<>> /\ UNCHANGED <<status, vers, uploads, seq>>
      /\ worker' = IF worker.full THEN [worker EXCEPT !.stage = "uploads"] ELSE Idle
  BY DEF UploadsDone, bucket
<1>2. DOMAIN worker = DOMAIN Idle
  BY LcParts DEF WorkerOK
<1>3. IsFiniteSet(uploads')
  BY <1>1 DEF PassInv
<1>4. CASE worker.full
  <2>1. worker' = [worker EXCEPT !.stage = "uploads"]
    BY <1>1, <1>4
  <2>2. /\ worker'.stage = "uploads" /\ worker'.rules = worker.rules /\ worker'.now = worker.now
        /\ worker'.due = worker.due /\ worker'.dueUploads = worker.dueUploads /\ worker'.pos = worker.pos
    BY <1>2, <2>1 DEF Idle
  <2>3. \A c \in worker'.due : Pending(c)'
    BY <1>1, <2>2, BeyondScan
  <2>4. ASSUME NEW u \in worker.dueUploads PROVE PendingUpload(u)'
    <3>1. AbortAfter(worker.rules, u, worker.now)
      BY <1>1, <2>4, PassParts DEF PendingUpload
    <3>2. AbortAfter(worker'.rules, u, worker'.now)
      BY <2>2, <3>1
    <3>. QED  BY <2>2, <3>2 DEF PendingUpload
  <2>5. worker'.due # {} \/ worker'.dueUploads # {} => status' # "None"
    BY <1>1, <2>2, PassParts
  <2>6. worker'.pos \in Nat \ {0}
    BY <2>2 DEF PassInv
  <2>. QED  BY <1>3, <2>2, <2>3, <2>4, <2>5, <2>6 DEF PassInv
<1>5. CASE ~worker.full
  <2>1. worker' = Idle
    BY <1>1, <1>5
  <2>2. \A u \in worker.dueUploads : PendingUpload(u)
    BY <1>1, PassParts
  <2>3. worker.dueUploads \cap uploads' = {}
    BY <1>1, <1>5, <2>2 DEF PendingUpload, InBatch
  <2>4. ASSUME NEW c \in worker.due PROVE c.obj.locked \/ DoneIn(c, vers')
    <3>1. Pending(c)
      BY <1>1, <2>4, PassParts
    <3>. QED  BY <1>1, <3>1 DEF Pending, Ahead, DoneIn, Above
  <2>5. PassInv'
    BY <1>3, <2>1 DEF PassInv, Idle
  <2>. QED  BY <2>3, <2>4, <2>5
<1>. QED  BY <1>4, <1>5

\* What the pass is held to depends on the bucket and the pass alone.
LEMMA Unmoved ==
  ASSUME PassInv, UNCHANGED <<status, vers, uploads, seq, worker>>
  PROVE  PassInv'
<1>1. ASSUME NEW c, Pending(c) PROVE Pending(c)'
  <2>1. Sensible(c)' /\ (c.obj.seq <= seq)' /\ (\A x \in vers : Same(x, c.obj) => x.class >= c.obj.class)'
    BY <1>1 DEF Pending, Sensible, Version, Actions, KindSet, Colder, Keys, Classes, Same
  <2>2. (Ahead(c) <=> Ahead(c)') /\ (InBatch(c) <=> InBatch(c)')
    BY DEF Ahead, InBatch
  <2>3. PICK R, T : R = worker.rules /\ T = worker.now
    OBVIOUS
  <2>4. ASSUME Ahead(c)' PROVE c \in Due(worker.rules, worker.now)'
    <3>1. c \in Due(R, T)
      BY <1>1, <2>2, <2>3, <2>4 DEF Pending
    <3>2. c \in Due(R, T)'
      BY <3>1, DueOfKey
    <3>3. worker'.rules = R /\ worker'.now = T
      BY <2>3
    <3>. QED  BY <3>2, <3>3
  <2>5. DoneIn(c, vers) => DoneIn(c, vers)'
    BY DEF DoneIn, Above
  <2>. QED  BY <1>1, <2>1, <2>2, <2>4, <2>5 DEF Pending
<1>2. ASSUME NEW u, PendingUpload(u) PROVE PendingUpload(u)'
  <2>1. AbortAfter(worker'.rules, u, worker'.now)
    BY <1>2 DEF PendingUpload
  <2>. QED  BY <1>2, <2>1 DEF PendingUpload, InBatch
<1>. QED  BY <1>1, <1>2 DEF PassInv, Keys

\* A client that interferes ends what the pass is held to.
LEMMA ClientPass ==
  ASSUME LcInv, PassInv, ClientStep
  PROVE  PassInv' /\ worker'.stage = worker.stage
<1>1. DOMAIN worker = DOMAIN Idle
  BY LcParts DEF WorkerOK
<1>2. CASE Tick
  <2>1. UNCHANGED <<status, vers, uploads, seq, worker>>
    BY <1>2 DEF Tick, bucket
  <2>. QED  BY <2>1, Unmoved
<1>3. CASE Interfere /\ IsFiniteSet(uploads')
  <2>1. worker' = [worker EXCEPT !.due = {}, !.dueUploads = {}]
    BY <1>3 DEF Interfere
  <2>2. /\ worker'.stage = worker.stage /\ worker'.due = {} /\ worker'.dueUploads = {}
        /\ worker'.pos = worker.pos /\ worker'.batch = worker.batch
    BY <1>1, <2>1 DEF Idle
  <2>. QED  BY <1>3, <2>2 DEF PassInv
<1>4. \A u : IsFiniteSet(uploads \cup {u}) /\ IsFiniteSet(uploads \ {u}) /\ IsFiniteSet({})
  <2>1. IsFiniteSet(uploads)
    BY DEF PassInv
  <2>. QED  BY <2>1, FS_AddElement, FS_Subset, FS_EmptySet
<1>5. ASSUME CreateBucket \/ PutBucketVersioning \/ PutObjectLockConfig \/ PutCommit
      PROVE  Interfere /\ uploads' = uploads
  BY <1>5 DEF CreateBucket, PutBucketVersioning, PutObjectLockConfig, PutCommit, Op
<1>6. ASSUME DeleteBucket PROVE Interfere /\ uploads' = {}
  BY <1>6 DEF DeleteBucket, Op
<1>7. ASSUME NEW c, PutLifecycle(c) PROVE Interfere /\ uploads' = uploads
  BY <1>7 DEF PutLifecycle, Op
<1>8. ASSUME NEW k, NEW t, PutObject(k, t) PROVE Interfere /\ uploads' = uploads
  BY <1>8 DEF PutObject, Op
<1>9. ASSUME NEW k, ClientDelete(k) PROVE Interfere /\ uploads' = uploads
  BY <1>9 DEF ClientDelete, Op
<1>10. ASSUME NEW k, CreateUpload(k) PROVE Interfere /\ IsFiniteSet(uploads')
  <2>1. PICK u : Interfere /\ uploads' = uploads \cup {u}
    BY <1>10 DEF CreateUpload, Op
  <2>. QED  BY <1>4, <2>1
<1>11. ASSUME NEW v, ClientDeleteVersion(v) \/ PutLegalHold(v) PROVE Interfere /\ uploads' = uploads
  BY <1>11 DEF ClientDeleteVersion, PutLegalHold, Op
<1>12. ASSUME NEW v, NEW t, PutTagging(v, t) PROVE Interfere /\ uploads' = uploads
  BY <1>12 DEF PutTagging, Op
<1>13. ASSUME NEW u, EndUpload(u) PROVE Interfere /\ uploads' = uploads \ {u}
  BY <1>13 DEF EndUpload, Op
<1>14. IsFiniteSet(uploads)
  BY DEF PassInv
<1>15. Tick \/ (Interfere /\ IsFiniteSet(uploads'))
  BY <1>4, <1>5, <1>6, <1>7, <1>8, <1>9, <1>10, <1>11, <1>12, <1>13, <1>14 DEF ClientStep
<1>. QED  BY <1>2, <1>3, <1>15

\* The pass stays as it should, and ends when all is done.
LEMMA NextPassInv ==
  ASSUME LcInv, PassInv, Next
  PROVE  /\ PassInv'
         /\ worker.stage # "idle" /\ worker'.stage = "idle" =>
              /\ \A c \in worker.due : c.obj.locked \/ DoneIn(c, vers')
              /\ worker.dueUploads \cap uploads' = {}
<1>1. CASE PassStart
  <2>1. worker.stage = "idle"
    BY <1>1 DEF PassStart
  <2>. QED  BY <1>1, <2>1, PassStartPass
<1>2. CASE Collect
  BY <1>2, CollectIs, CollectPass
<1>3. CASE Handled
  BY <1>3, HandledIs, HandledPass
<1>4. CASE PageDone
  BY <1>4, PageDonePass
<1>5. CASE CollectUploads
  <2>1. worker'.stage = "abort"
    <3>1. PICK B : worker' = [worker EXCEPT !.stage = "abort", !.batch = SetToSeq(B), !.full = Cardinality(B) = BatchSize]
      BY <1>5 DEF CollectUploads
    <3> DEFINE fl == Cardinality(B) = BatchSize
    <3>2. worker' = [worker EXCEPT !.stage = "abort", !.batch = SetToSeq(B), !.full = fl]
      BY <3>1
    <3>3. DOMAIN worker = DOMAIN Idle
      BY LcParts DEF WorkerOK
    <3>. HIDE DEF fl
    <3>. QED  BY <3>2, <3>3 DEF Idle
  <2>. QED  BY <1>5, <2>1, CollectUploadsPass
<1>6. CASE AbortUpload
  <2>1. worker'.stage = worker.stage
    <3> DEFINE fl == worker.full /\ status # "None"
               b == Tail(worker.batch)
    <3>1. worker' = [worker EXCEPT !.batch = b, !.full = fl]
      BY <1>6 DEF AbortUpload
    <3>2. DOMAIN worker = DOMAIN Idle
      BY LcParts DEF WorkerOK
    <3>. HIDE DEF fl, b
    <3>. QED  BY <3>1, <3>2 DEF Idle
  <2>. QED  BY <1>6, <2>1, AbortUploadPass
<1>7. CASE UploadsDone
  BY <1>7, UploadsDonePass
<1>8. CASE ClientStep
  BY <1>8, ClientPass
<1>. QED  BY <1>1, <1>2, <1>3, <1>4, <1>5, <1>6, <1>7, <1>8 DEF Next, WorkerStep, Handled

\* A pass that no client interferes with does all that was due.
LEMMA PassInvHolds == Spec => [](LcInv /\ PassInv)
<1>1. ASSUME LcInv, PassInv, [Next]_vars PROVE LcInv' /\ PassInv'
  <2>1. UNCHANGED vars => UNCHANGED <<status, vers, uploads, seq, worker>>
    BY DEF vars
  <2>. QED  BY <1>1, <2>1, NextLcInv, NextPassInv, Unmoved
<1>. QED  BY <1>1, InitLcInv, InitPassInv, PTL DEF Spec

-----------------------------------------------------------------------------
(* Theorems *)

\* The bucket, its versions and the worker keep their types, and no key has
\* two null versions.
THEOREM LifecycleTypeCorrect == Spec => []TypeOK
<1>1. LcInv => TypeOK
  BY DEF LcInv, TypeOK, VersionsOK, PutOK, WorkerOK
<1>. QED  BY <1>1, LcInvHolds, PTL

\* What the scan has not seen is safe from the worker (IfSeq).
THEOREM NewerSpared == Spec => SparesNewer
<1>1. ASSUME LcInv, [Next]_vars
      PROVE  [ApplyStep =>
                LET above == Above(vers, Candidate.obj) IN
                /\ above \subseteq vers'
                /\ above # {} => vers' \subseteq vers \cup {x \in vers' : Same(x, Candidate.obj)}]_vars
  BY <1>1, SparesNewerStep
<1>. QED  BY <1>1, LcInvHolds, PTL DEF Spec, SparesNewer

\* A version with a legal hold survives every step of the worker.
THEOREM HeldStay == Spec => HeldVersionsStay
<1>1. ASSUME LcInv, [Next]_vars
      PROVE  [ApplyStep => \A v \in vers : v.locked => \E x \in vers' : Same(v, x)]_vars
  BY <1>1, HeldStep
<1>. QED  BY <1>1, LcInvHolds, PTL DEF Spec, HeldVersionsStay

\* The worker keeps what clients changed since the scan (UpdateObjectMeta).
THEOREM ChangesKept == Spec => KeepsClientChanges
<1>1. ASSUME LcInv, [Next]_vars
      PROVE  [ApplyStep => \A v \in vers, x \in vers' :
                Same(v, x) => /\ x = [v EXCEPT !.class = x.class]
                              /\ x.class >= v.class]_vars
  BY <1>1, KeepsStep
<1>. QED  BY <1>1, LcInvHolds, PTL DEF Spec, KeepsClientChanges

\* Nothing expires early, for any rules whose days fit a time.Duration, any
\* length of a day and any rounding.
THEOREM NothingEarly == Spec => NeverEarly
<1>1. ASSUME LcInv, [Next]_vars
      PROVE  [ApplyStep /\ Candidate.act.kind = "ExpireCurrent" =>
                \E r \in worker.rules :
                  /\ Matches(r, Candidate.obj)
                  /\ \/ r.exp.kind = "days" /\ (Fits(r.exp.n) => now >= Candidate.obj.mod + r.exp.n * Day)
                     \/ r.exp.kind = "date" /\ now >= r.exp.n]_vars
  BY <1>1, NeverEarlyStep
<1>. QED  BY <1>1, LcInvHolds, PTL DEF Spec, NeverEarly

\* A pass no client interferes with does all that was due when it began
\* (RunOnce, processObjects, processUploads), for any number of keys, any
\* rules and any batch and page size.
THEOREM PassesComplete == Spec => PassCompletes
<1>1. ASSUME LcInv, PassInv, [Next]_vars
      PROVE  [worker.stage # "idle" /\ worker'.stage = "idle" =>
                /\ \A c \in worker.due : c.obj.locked \/ Done(c)
                /\ worker.dueUploads \cap uploads' = {}]_vars
  <2>1. CASE UNCHANGED vars
    BY <2>1
  <2>2. CASE Next
    BY <1>1, <2>2, NextPassInv DEF Done, DoneIn
  <2>. QED  BY <1>1, <2>1, <2>2
<1>. QED  BY <1>1, PassInvHolds, PTL DEF Spec, PassCompletes
=============================================================================
