-------------------------- MODULE MaintenanceProofs --------------------------
(***************************************************************************)
(* Proofs about MasterKey for any number of processes, records and keys:   *)
(* no key that is still needed is lost while processes follow one another, *)
(* and a rotation that ends has re-wrapped every record. With the proofs   *)
(* about Lifecycle, the maintenance of a data directory side by side.      *)
(***************************************************************************)
EXTENDS MCMaintenance, LifecycleProofs, FiniteSetTheorems, WellFoundedInduction, TLAPS

-----------------------------------------------------------------------------
(* The inductive invariant *)

\* A process past opening holds the database.
Inside == {"newkey", "walk", "batch", "retire", "starting", "serve"}

LockHeld == \A p \in Procs : proc[p].stage \in Inside => lock = p

\* The current key of a ring is one of its keys.
RingOK(r) == r.cur # 0 => r.cur \in r.all

\* OPENS3_MASTER_KEY_OLD is a key of the environment; a new key is for rotations.
ProcOK(q) ==
  /\ RingOK(q.ring) /\ RingOK(q.file)
  /\ q.old.all \subseteq EnvKeys
  /\ q.stage = "newkey" => q.cmd = "rotate"

RingsOK == RingOK(file) /\ \A p \in Procs : ProcOK(proc[p])

IdleExact == \A p \in Procs : proc[p].stage = "idle" => proc[p] = IdleProc

\* What a walk has done so far, to the records w and the key-check value c: no
\* record behind it is stale, unless it is a dry run that has counted one.
WalkedIn(q, w, c) ==
  /\ q.stage = "batch" /\ (DryRun(q) => ~q.stale) =>
       \A r \in Records : r < q.pos => ~Stale(q.ring, w[r])
  /\ q.stage \in {"batch", "retire"} /\ DryRun(q) /\ ~q.stale => ~Stale(q.ring, c)
  /\ q.stage = "retire" /\ ~q.stale => \A r \in Records : ~Stale(q.ring, w[r])
  /\ q.stage = "retire" => DryRun(q)

Walked == \A p \in Procs : WalkedIn(proc[p], wrapped, check)

\* KeysKept, of given files.
KeptIn(f, w, c) ==
  /\ \A r \in Records : w[r] # 0 => w[r] \in EnvKeys \cup f.all
  /\ c # 0 => c \in EnvKeys \cup f.all

\* What a process knows of the key file f, if nobody else runs.
AloneIn(q, f) ==
  /\ q.ring.all \subseteq EnvKeys \cup f.all
  /\ q.stage \notin {"starting", "serve"} => q.file = f
  /\ q.cmd = "retire" => /\ f.all \subseteq q.ring.all
                         /\ q.env => q.ring.cur \in EnvKeys
                         /\ ~q.env => q.ring.cur = f.cur

Alone ==
  ~overlap =>
    /\ KeptIn(file, wrapped, check)
    /\ \A p, x \in Procs : p # x => proc[p] = IdleProc \/ proc[x] = IdleProc
    /\ \A p \in Procs : proc[p] # IdleProc => AloneIn(proc[p], file)

KInv ==
  /\ KeyTypeOK
  /\ LockHeld
  /\ RingsOK
  /\ IdleExact
  /\ Walked
  /\ Alone

-----------------------------------------------------------------------------
(* Numbers *)

\* Every set of naturals has a least element.
LEMMA LeastElement ==
  ASSUME NEW T \in SUBSET Nat, T # {} PROVE \E m \in T : \A k \in T : m <= k
  <1> DEFINE R == OpToRel(<, Nat)
  <1>1. IsWellFoundedOn(R, Nat)
    BY NatLessThanWellFounded
  <1>2. \A x, y \in Nat : x < y => <<x, y>> \in R
    BY DEF OpToRel
  <1> HIDE DEF R
  <1>3. PICK m \in T : \A k \in T : ~(<<k, m>> \in R)
    BY <1>1, WFMin
  <1>4. ASSUME NEW k \in T PROVE m <= k
    <2>1. m \in Nat /\ k \in Nat /\ ~(k < m)
      BY <1>2, <1>3
    <2> QED BY <2>1
  <1> QED BY <1>4

\* A set of record numbers has a greatest.
LEMMA GreatestElement ==
  ASSUME NEW n \in Nat, NEW T \in SUBSET (1..n), T # {} PROVE \E m \in T : \A k \in T : k <= m
  <1> DEFINE U == {n - k : k \in T}
  <1>a. \A k \in T : n - k \in Nat
    OBVIOUS
  <1>1. U \in SUBSET Nat /\ U # {}
    BY <1>a
  <1>2. PICK u \in U : \A v \in U : u <= v
    BY <1>1, LeastElement
  <1>3. PICK m \in T : u = n - m
    OBVIOUS
  <1>4. \A k \in T : n - m <= n - k
    BY <1>2, <1>3
  <1> QED BY <1>3, <1>4

-----------------------------------------------------------------------------
(* The batches of a walk *)

\* The records a batch has to pass before it comes to record r.
Before(pos, r) == {x \in Records : pos <= x /\ x < r /\ wrapped[x] # 0}

\* Sets of records are finite.
LEMMA RecordsFinite ==
  ASSUME NEW S \in SUBSET Records
  PROVE  IsFiniteSet(S) /\ Cardinality(S) \in Nat /\ \A T \in SUBSET S : Cardinality(T) <= Cardinality(S)
  <1>1. IsFiniteSet(Records)
    BY FS_Interval, MasterAssumption DEF Records
  <1>2. IsFiniteSet(S)
    BY <1>1, FS_Subset
  <1> QED BY <1>2, FS_Subset, FS_CardinalityType

\* A batch takes the records in their order, leaving none out.
LEMMA WindowPrefix ==
  ASSUME NEW pos \in Nat, NEW r \in Window(pos), NEW x \in Records, pos <= x, x <= r, wrapped[x] # 0
  PROVE  x \in Window(pos)
  <1>1. r \in Records /\ Cardinality(Before(pos, r)) < Batch
    BY DEF Window, Before
  <1>2. Before(pos, x) \subseteq Before(pos, r) /\ Before(pos, r) \subseteq Records
    BY <1>1, MasterAssumption DEF Before, Records
  <1>3. Cardinality(Before(pos, x)) <= Cardinality(Before(pos, r))
    BY <1>2, RecordsFinite
  <1>4. Cardinality(Before(pos, x)) \in Nat /\ Cardinality(Before(pos, r)) \in Nat
    BY <1>2, RecordsFinite
  <1>5. Cardinality(Before(pos, x)) < Batch
    BY <1>1, <1>3, <1>4, MasterAssumption
  <1> QED BY <1>5 DEF Window, Before

\* A batch that is not full takes all that is left.
LEMMA WindowLast ==
  ASSUME NEW pos \in Nat, Cardinality(Window(pos)) # Batch, NEW r \in Records, pos <= r, wrapped[r] # 0
  PROVE  r \in Window(pos)
  <1> DEFINE w == Window(pos)
             left == {x \in Records : pos <= x /\ wrapped[x] # 0 /\ x \notin w}
  <1>a. w \subseteq Records /\ Records \subseteq Nat /\ Batch \in Nat
    BY MasterAssumption DEF Window, Records
  <1>b. Cardinality(w) \in Nat
    BY <1>a, RecordsFinite
  <1>1. Cardinality(w) <= Batch
    <2>1. CASE w = {}
      BY <1>a, <2>1, FS_EmptySet
    <2>2. CASE w # {}
      <3>1. PICK m \in w : \A k \in w : k <= m
        BY <1>a, <2>2, GreatestElement, MasterAssumption DEF Records
      <3>2. Cardinality(Before(pos, m)) < Batch
        BY <3>1 DEF Window, Before
      <3>0. m \in Records /\ m \in Nat
        BY <1>a, <3>1
      <3>3. ASSUME NEW x \in w PROVE x \in Before(pos, m) \cup {m}
        <4>1. x \in Records /\ x \in Nat /\ x <= m /\ pos <= x /\ wrapped[x] # 0
          BY <1>a, <3>1, <3>3 DEF Window
        <4> QED BY <3>0, <4>1 DEF Before
      <3>4. Before(pos, m) \subseteq Records /\ m \notin Before(pos, m) /\ m \in Records
        BY <3>0 DEF Before
      <3>5. IsFiniteSet(Before(pos, m)) /\ Cardinality(Before(pos, m)) \in Nat
        BY <3>4, RecordsFinite
      <3>6. Cardinality(Before(pos, m) \cup {m}) = Cardinality(Before(pos, m)) + 1
        BY <3>4, <3>5, FS_AddElement
      <3>7. Before(pos, m) \cup {m} \in SUBSET Records
        BY <3>4
      <3>8. Cardinality(w) <= Cardinality(Before(pos, m) \cup {m})
        BY <3>3, <3>7, RecordsFinite
      <3> QED BY <1>a, <1>b, <3>2, <3>5, <3>6, <3>8
    <2> QED BY <2>1, <2>2
  <1>2. ASSUME left # {} PROVE FALSE
    <2>1. left \in SUBSET Nat
      BY <1>a
    <2>2. PICK m \in left : \A k \in left : m <= k
      BY <1>2, <2>1, LeastElement
    <2>3. ASSUME NEW x \in Before(pos, m) PROVE x \in w
      <3>1. x \in Records /\ x \in Nat /\ m \in Nat /\ pos <= x /\ x < m /\ wrapped[x] # 0
        BY <1>a, <2>1, <2>2 DEF Before
      <3>2. x \notin left
        BY <2>2, <3>1
      <3> QED BY <3>1, <3>2
    <2>4. ~(Cardinality(Before(pos, m)) < Batch)
      BY <2>2 DEF Window, Before
    <2>5. Cardinality(Before(pos, m)) \in Nat /\ Cardinality(Before(pos, m)) <= Cardinality(w)
      BY <1>a, <2>3, RecordsFinite
    <2> QED BY <1>a, <1>b, <1>1, <2>4, <2>5
  <1> QED BY <1>2

\* The next batch begins after the last record of this one.
LEMMA WindowNext ==
  ASSUME NEW pos \in Nat, Window(pos) # {}
  PROVE  /\ NextStart(Window(pos)) \in Nat
         /\ NextStart(Window(pos)) - 1 \in Window(pos)
         /\ \A x \in Window(pos) : x < NextStart(Window(pos))
  <1> DEFINE w == Window(pos)
             m == CHOOSE r \in w : \A x \in w : x <= r
  <1>1. w \subseteq Records /\ w \subseteq 1..NumRecords
    BY DEF Window, Records
  <1>2. \E r \in w : \A x \in w : x <= r
    BY <1>1, GreatestElement, MasterAssumption
  <1>3. m \in w /\ \A x \in w : x <= m
    BY <1>2
  <1>4. NextStart(w) = 1 + m
    BY DEF NextStart
  <1> HIDE DEF m
  <1>5. m \in Nat /\ \A x \in w : x \in Nat
    BY <1>1, <1>3, MasterAssumption
  <1> HIDE DEF w
  <1>6. NextStart(w) \in Nat /\ NextStart(w) - 1 \in w /\ \A x \in w : x < NextStart(w)
    BY <1>3, <1>4, <1>5
  <1> QED BY <1>6 DEF w

-----------------------------------------------------------------------------
(* Rings and processes *)

\* No key has the number that stands for none.
LEMMA ZeroIsNoKey == 0 \notin AllKeys /\ EnvKeys \subseteq AllKeys
  BY MasterAssumption DEF AllKeys

\* The rings of one key and of none.
LEMMA RingFacts ==
  /\ NoRing \in Ring /\ RingOK(NoRing) /\ NoRing.all = {} /\ NoRing.cur = 0
  /\ \A k \in AllKeys \cup {0} :
       /\ Single(k) \in Ring /\ RingOK(Single(k)) /\ Single(k).cur = k
       /\ Single(k).all = IF k = 0 THEN {} ELSE {k}
  BY ZeroIsNoKey DEF NoRing, Ring, RingOK, Single

\* WithFallback adds keys and keeps the current one.
LEMMA FallbackFacts ==
  ASSUME NEW m \in Ring, NEW rs \in SUBSET Ring
  PROVE  /\ WithFallback(m, rs) \in Ring
         /\ WithFallback(m, rs).cur = m.cur
         /\ WithFallback(m, rs).all = m.all \cup UNION {r.all : r \in rs}
         /\ RingOK(m) => RingOK(WithFallback(m, rs))
  <1>1. /\ WithFallback(m, rs).cur = m.cur
        /\ WithFallback(m, rs).all = m.all \cup UNION {r.all : r \in rs}
    BY DEF WithFallback, Ring
  <1>2. UNION {r.all : r \in rs} \subseteq AllKeys
    BY DEF Ring
  <1>3. WithFallback(m, rs) \in Ring
    BY <1>2 DEF WithFallback, Ring
  <1> QED BY <1>1, <1>3 DEF RingOK

\* A process that does not run.
LEMMA IdleProcFacts ==
  /\ IdleProc \in Process /\ IdleProc.stage = "idle"
  /\ ProcOK(IdleProc)
  BY RingFacts DEF IdleProc, Process, Stages, ProcOK

\* A process changes; the others do not, and overlap tells whether they run.
LEMMA BecomeFacts ==
  ASSUME KeyTypeOK, NEW p \in Procs, NEW q, Become(p, q)
  PROVE  /\ proc'[p] = q /\ \A x \in Procs : x # p => proc'[x] = proc[x]
         /\ proc' = [proc EXCEPT ![p] = q]
         /\ overlap' \in BOOLEAN
         /\ ~overlap' => ~overlap /\ (q = IdleProc \/ \A x \in Procs : x # p => proc[x] = IdleProc)
  <1>1. proc' = [proc EXCEPT ![p] = q] /\ proc \in [Procs -> Process]
    BY DEF Become, KeyTypeOK
  <1>2. overlap' = (overlap \/ (q # IdleProc /\ \E x \in Procs \ {p} : proc[x] # IdleProc))
    BY DEF Become
  <1>3. overlap' \in BOOLEAN
    BY <1>2
  <1>4. ~overlap' => ~overlap /\ (q = IdleProc \/ \A x \in Procs : x # p => proc[x] = IdleProc)
    BY <1>2
  <1> QED BY <1>1, <1>3, <1>4

\* What a step of one process has to establish.
LEMMA ProcStep ==
  ASSUME KInv, NEW p \in Procs, NEW q \in Process, Become(p, q),
         proc[p] # IdleProc \/ q # IdleProc,
         q.stage = "idle" => q = IdleProc,
         ProcOK(q),
         file' \in Ring, RingOK(file'), check' \in AllKeys \cup {0},
         wrapped' \in [Records -> AllKeys \cup {0}], made' \in 0..MaxKeys, crashes' \in Nat,
         lock' \in Procs \cup {"free"},
         q.stage \in Inside => lock' = p,
         lock' = lock \/ lock \in {p, "free"},
         UNCHANGED <<check, wrapped>> \/ lock = p,
         WalkedIn(q, wrapped', check'),
         ~overlap /\ KeptIn(file, wrapped, check) /\ (proc[p] # IdleProc => AloneIn(proc[p], file))
           => KeptIn(file', wrapped', check') /\ (q # IdleProc => AloneIn(q, file'))
  PROVE  KInv'
  <1>a. KeyTypeOK /\ LockHeld /\ RingsOK /\ IdleExact /\ Walked /\ Alone
    BY DEF KInv
  <1>b. /\ proc'[p] = q /\ \A x \in Procs : x # p => proc'[x] = proc[x]
        /\ proc' = [proc EXCEPT ![p] = q]
        /\ overlap' \in BOOLEAN
        /\ ~overlap' => ~overlap /\ (q = IdleProc \/ \A x \in Procs : x # p => proc[x] = IdleProc)
    BY <1>a, BecomeFacts
  <1>c. \A x \in Procs : x # "free"
    BY MasterAssumption
  <1>1. KeyTypeOK'
    <2>1. proc' \in [Procs -> Process]
      BY <1>a, <1>b DEF KeyTypeOK
    <2> QED BY <1>b, <2>1 DEF KeyTypeOK
  <1>2. LockHeld'
    <2>1. ASSUME NEW x \in Procs, proc'[x].stage \in Inside PROVE lock' = x
      <3>1. CASE x = p
        BY <1>b, <2>1, <3>1
      <3>2. CASE x # p
        BY <1>a, <1>b, <1>c, <2>1, <3>2 DEF LockHeld
      <3> QED BY <3>1, <3>2
    <2> QED BY <2>1 DEF LockHeld
  <1>3. RingsOK'
    BY <1>a, <1>b DEF RingsOK, RingOK, ProcOK
  <1>4. IdleExact'
    BY <1>a, <1>b DEF IdleExact, IdleProc, NoRing
  <1>5. Walked'
    <2>1. ASSUME NEW x \in Procs PROVE WalkedIn(proc'[x], wrapped', check')
      <3>1. CASE x = p
        BY <1>b, <3>1
      <3>2. CASE x # p /\ UNCHANGED <<check, wrapped>>
        BY <1>a, <1>b, <3>2 DEF Walked
      <3>3. CASE x # p /\ lock = p
        <4>1. proc[x].stage \notin {"batch", "retire"}
          BY <1>a, <3>3 DEF LockHeld, Inside
        <4> QED BY <1>b, <3>3, <4>1 DEF WalkedIn
      <3> QED BY <3>1, <3>2, <3>3
    <2> QED BY <2>1 DEF Walked, WalkedIn, DryRun, Stale
  <1>6. Alone'
    <2> SUFFICES ASSUME ~overlap'
                 PROVE  /\ KeptIn(file', wrapped', check')
                        /\ \A x, y \in Procs : x # y => proc'[x] = IdleProc \/ proc'[y] = IdleProc
                        /\ \A x \in Procs : proc'[x] # IdleProc => AloneIn(proc'[x], file')
      BY DEF Alone, KeptIn, AloneIn, IdleProc, NoRing
    <2>1. ~overlap /\ \A x \in Procs : x # p => proc[x] = IdleProc
      BY <1>a, <1>b DEF Alone
    <2>2. KeptIn(file', wrapped', check') /\ (q # IdleProc => AloneIn(q, file'))
      BY <1>a, <2>1 DEF Alone
    <2> QED BY <1>b, <2>1, <2>2
  <1> QED BY <1>1, <1>2, <1>3, <1>4, <1>5, <1>6 DEF KInv

\* A process that ends frees the database.
LEMMA ExitStep ==
  ASSUME KInv, NEW p \in Procs, Exit(p), proc[p].stage # "idle",
         file' \in Ring, RingOK(file'), check' \in AllKeys \cup {0},
         wrapped' \in [Records -> AllKeys \cup {0}], made' \in 0..MaxKeys, crashes' \in Nat,
         UNCHANGED <<check, wrapped>> \/ lock = p,
         ~overlap /\ KeptIn(file, wrapped, check) /\ AloneIn(proc[p], file) => KeptIn(file', wrapped', check')
  PROVE  KInv'
  <1>1. Become(p, IdleProc) /\ lock' = IF lock = p THEN "free" ELSE lock
    BY DEF Exit
  <1>2. proc[p] # IdleProc /\ lock \in Procs \cup {"free"}
    BY IdleProcFacts DEF KInv, KeyTypeOK
  <1>3. WalkedIn(IdleProc, wrapped', check')
    BY IdleProcFacts DEF WalkedIn
  <1>4. IdleProc.stage \notin Inside
    BY IdleProcFacts DEF Inside
  <1>5. ProcOK(IdleProc) /\ IdleProc \in Process
    BY IdleProcFacts
  <1> QED BY <1>1, <1>2, <1>3, <1>4, <1>5, ProcStep

\* A process that ends having changed nothing.
LEMMA QuietExit ==
  ASSUME KInv, NEW p \in Procs, Exit(p), proc[p].stage # "idle",
         UNCHANGED <<file, database, made>>, crashes' \in Nat
  PROVE  KInv'
  <1>1. KeyTypeOK /\ RingOK(file)
    BY DEF KInv, RingsOK
  <1>2. UNCHANGED <<file, check, wrapped, made>>
    BY DEF database
  <1>3. /\ file' \in Ring /\ RingOK(file') /\ check' \in AllKeys \cup {0}
        /\ wrapped' \in [Records -> AllKeys \cup {0}] /\ made' \in 0..MaxKeys
    BY <1>1, <1>2 DEF KeyTypeOK, RingOK
  <1> QED BY <1>2, <1>3, ExitStep

-----------------------------------------------------------------------------
(* The steps *)

\* The rings of keys the operators keep.
LEMMA EnvRing ==
  ASSUME NEW k \in Env
  PROVE  /\ Single(k) \in Ring /\ RingOK(Single(k)) /\ Single(k).cur = k
         /\ Single(k).all \subseteq EnvKeys
  <1>1. k \in AllKeys \cup {0} /\ (k # 0 => k \in EnvKeys)
    BY ZeroIsNoKey DEF Env
  <1>2. Single(k).all = IF k = 0 THEN {} ELSE {k}
    BY <1>1, RingFacts
  <1>3. Single(k).all \subseteq EnvKeys
    BY <1>1, <1>2
  <1> QED BY <1>1, <1>3, RingFacts

\* openRing: the ring is made of keys of the environment and of the file.
LEMMA OpenRingStep ==
  ASSUME KInv, NEW p \in Procs, NEW cmd \in {"rotate", "rewrap", "retire"},
         NEW cur \in Env, NEW old \in Env, NEW next \in Env, OpenRing(p, cmd, cur, old, next)
  PROVE  KInv'
  <1> DEFINE env == cur # 0
             fresh == ~env /\ file = NoRing
             fallback == {Single(old), file}
             ring == IF next # 0 THEN WithFallback(Single(next), fallback \cup {Single(cur)})
                     ELSE IF env THEN WithFallback(Single(cur), fallback)
                     ELSE IF fresh THEN Single(old)
                     ELSE WithFallback(file, {Single(old)})
             q == [IdleProc EXCEPT !.stage = "open", !.cmd = cmd, !.env = env, !.fresh = fresh,
                     !.file = file, !.old = Single(old), !.ring = ring]
  <1>a. /\ KeyTypeOK /\ RingOK(file) /\ file \in Ring
    BY DEF KInv, KeyTypeOK, RingsOK
  <1>b. /\ Single(cur) \in Ring /\ Single(old) \in Ring /\ Single(next) \in Ring
        /\ RingOK(Single(cur)) /\ RingOK(Single(old)) /\ RingOK(Single(next))
        /\ Single(cur).cur = cur /\ Single(next).cur = next
        /\ Single(cur).all \subseteq EnvKeys /\ Single(old).all \subseteq EnvKeys /\ Single(next).all \subseteq EnvKeys
    BY EnvRing
  <1>1. /\ proc[p].stage = "idle"
        /\ next # 0 <=> (env /\ cmd = "rotate")
        /\ fresh => cmd = "rotate"
        /\ Become(p, q)
        /\ UNCHANGED <<file, check, wrapped, made, lock, crashes>>
    BY DEF OpenRing, database
  <1>2. \A f \in Ring : RingOK(f) /\ f.all \subseteq EnvKeys \cup file.all =>
          LET w == WithFallback(f, fallback) IN
          /\ w \in Ring /\ RingOK(w) /\ w.cur = f.cur /\ w.all \subseteq EnvKeys \cup file.all
          /\ file.all \subseteq w.all
    <2> SUFFICES ASSUME NEW f \in Ring, RingOK(f), f.all \subseteq EnvKeys \cup file.all
                 PROVE  LET w == WithFallback(f, fallback) IN
                        /\ w \in Ring /\ RingOK(w) /\ w.cur = f.cur /\ w.all \subseteq EnvKeys \cup file.all
                        /\ file.all \subseteq w.all
      OBVIOUS
    <2>1. UNION {r.all : r \in fallback} = Single(old).all \cup file.all
      OBVIOUS
    <2>2. fallback \in SUBSET Ring
      BY <1>a, <1>b
    <2> HIDE DEF fallback
    <2> QED BY <1>b, <2>1, <2>2, FallbackFacts
  <1>3. next # 0 => /\ ring \in Ring /\ RingOK(ring) /\ ring.all \subseteq EnvKeys \cup file.all
    <2> DEFINE fb == fallback \cup {Single(cur)}
    <2>1. UNION {r.all : r \in fb} = Single(old).all \cup file.all \cup Single(cur).all
      OBVIOUS
    <2>2. fb \in SUBSET Ring
      BY <1>a, <1>b
    <2>3. next # 0 => ring = WithFallback(Single(next), fb)
      OBVIOUS
    <2> HIDE DEF fb, ring
    <2> QED BY <1>b, <2>1, <2>2, <2>3, FallbackFacts
  <1>4. next = 0 /\ env => /\ ring \in Ring /\ RingOK(ring) /\ ring.all \subseteq EnvKeys \cup file.all
                           /\ file.all \subseteq ring.all /\ ring.cur = cur
    BY <1>2, <1>b
  <1>5. next = 0 /\ ~env /\ fresh => ring \in Ring /\ RingOK(ring) /\ ring.all \subseteq EnvKeys \cup file.all
    BY <1>b
  <1>6. next = 0 /\ ~env /\ ~fresh =>
          /\ ring \in Ring /\ RingOK(ring) /\ ring.all \subseteq EnvKeys \cup file.all
          /\ file.all \subseteq ring.all /\ ring.cur = file.cur
    <2> DEFINE fb == {Single(old)}
    <2>1. UNION {r.all : r \in fb} = Single(old).all
      OBVIOUS
    <2>2. fb \in SUBSET Ring
      BY <1>b
    <2>3. next = 0 /\ ~env /\ ~fresh => ring = WithFallback(file, fb)
      OBVIOUS
    <2> HIDE DEF fb, ring
    <2> QED BY <1>a, <1>b, <2>1, <2>2, <2>3, FallbackFacts
  <1>7. env \in BOOLEAN /\ fresh \in BOOLEAN
    OBVIOUS
  <1> HIDE DEF ring, fallback, fresh
  <1>8. /\ q.stage = "open" /\ q.cmd = cmd /\ q.env = env /\ q.file = file /\ q.ring = ring
         /\ q.old = Single(old)
    BY DEF IdleProc
  <1>9. ring \in Ring /\ RingOK(ring) /\ ring.all \subseteq EnvKeys \cup file.all
    BY <1>3, <1>4, <1>5, <1>6
  <1>10. q \in Process
    <2> HIDE DEF env
    <2> QED BY <1>a, <1>b, <1>7, <1>9, IdleProcFacts DEF Process, Stages
  <1> HIDE DEF q
  <1>11. q # IdleProc /\ WalkedIn(q, wrapped', check') /\ q.stage \notin Inside
    BY <1>8, IdleProcFacts DEF WalkedIn, Inside
  <1>15. ProcOK(q)
    BY <1>a, <1>b, <1>8, <1>9 DEF ProcOK
  <1>12. AloneIn(q, file')
    <2>1. cmd = "retire" => next = 0 /\ ~fresh
      BY <1>1
    <2>2. cmd = "retire" => file.all \subseteq ring.all /\ (env => ring.cur \in EnvKeys) /\ (~env => ring.cur = file.cur)
      BY <1>4, <1>6, <2>1 DEF Env
    <2> QED BY <1>1, <1>8, <1>9, <2>2 DEF AloneIn
  <1>13. /\ file' \in Ring /\ RingOK(file') /\ check' \in AllKeys \cup {0}
         /\ wrapped' \in [Records -> AllKeys \cup {0}] /\ made' \in 0..MaxKeys /\ crashes' \in Nat
         /\ lock' \in Procs \cup {"free"}
    BY <1>a, <1>1 DEF KeyTypeOK, RingOK
  <1>14. KeptIn(file, wrapped, check) => KeptIn(file', wrapped', check')
    BY <1>1
  <1> QED BY <1>a, <1>1, <1>8, <1>9, <1>10, <1>11, <1>12, <1>13, <1>14, <1>15, ProcStep

\* openDB: the process waits, holds the database, or gives up.
LEMMA OpenDBStep ==
  ASSUME KInv, NEW p \in Procs, OpenDB(p) PROVE KInv'
  <1> DEFINE q == proc[p]
             n == [q EXCEPT !.stage = IF q.cmd = "rotate" THEN "newkey" ELSE "walk"]
  <1>a. KeyTypeOK /\ RingOK(file) /\ q \in Process /\ ProcOK(q)
    BY DEF KInv, KeyTypeOK, RingsOK
  <1>1. q.stage = "open" /\ lock = "free" /\ UNCHANGED <<file, check, wrapped, made, crashes>>
    BY DEF OpenDB, database
  <1>2. CASE Exit(p)
    BY <1>a, <1>1, <1>2, QuietExit DEF database, KeyTypeOK
  <1>3. CASE lock' = p /\ Become(p, n)
    <2>1. /\ n \in Process /\ n.stage = (IF q.cmd = "rotate" THEN "newkey" ELSE "walk")
          /\ n.old = q.old /\ n.cmd = q.cmd /\ n.env = q.env /\ n.file = q.file /\ n.ring = q.ring
      BY <1>a DEF Process, Stages
    <2> HIDE DEF n
    <2>2. n # IdleProc /\ WalkedIn(n, wrapped', check')
      BY <2>1, IdleProcFacts DEF WalkedIn
    <2>7. ProcOK(n) /\ n.stage \in Inside
      BY <1>a, <2>1 DEF ProcOK, Inside
    <2>3. q # IdleProc /\ AloneIn(q, file) => AloneIn(n, file')
      BY <1>1, <2>1 DEF AloneIn
    <2>4. q # IdleProc
      BY <1>1, IdleProcFacts
    <2>5. /\ file' \in Ring /\ RingOK(file') /\ check' \in AllKeys \cup {0}
          /\ wrapped' \in [Records -> AllKeys \cup {0}] /\ made' \in 0..MaxKeys /\ crashes' \in Nat
      BY <1>a, <1>1 DEF KeyTypeOK, RingOK
    <2>6. KeptIn(file, wrapped, check) => KeptIn(file', wrapped', check')
      BY <1>1
    <2> QED BY <1>a, <1>1, <1>3, <2>1, <2>2, <2>3, <2>4, <2>5, <2>6, <2>7, ProcStep
  <1> QED BY <1>2, <1>3 DEF OpenDB

\* A new key, and the file with it.
LEMMA RotateFileStep ==
  ASSUME KInv, NEW p \in Procs, RotateFile(p) PROVE KInv'
  <1> DEFINE q == proc[p]
             ring == [cur |-> made', all |-> q.file.all \cup {made'}]
             full == WithFallback(ring, {q.old})
             n == [q EXCEPT !.stage = "walk", !.file = ring, !.ring = full]
  <1>a. KeyTypeOK /\ q \in Process /\ q.file \in Ring /\ q.old \in Ring /\ ProcOK(q)
    BY DEF KInv, KeyTypeOK, Process, RingsOK
  <1>1. /\ q.stage = "newkey" /\ ~q.env /\ made < MaxKeys /\ made' = made + 1 /\ file' = ring
        /\ Become(p, n) /\ UNCHANGED <<check, wrapped, lock, crashes>>
    BY DEF RotateFile, Generate, database
  <1>2. made' \in 0..MaxKeys /\ made' \in AllKeys /\ made' # 0
    BY <1>a, <1>1, MasterAssumption DEF KeyTypeOK, AllKeys
  <1>3. ring \in Ring /\ ring.cur = made' /\ ring.all = q.file.all \cup {made'}
    BY <1>a, <1>2 DEF Ring
  <1> HIDE DEF ring
  <1>4. RingOK(ring)
    BY <1>3 DEF RingOK
  <1>5. full \in Ring /\ RingOK(full) /\ full.all = ring.all \cup q.old.all
    <2>1. UNION {r.all : r \in {q.old}} = q.old.all
      OBVIOUS
    <2> QED BY <1>a, <1>3, <1>4, <2>1, FallbackFacts
  <1> HIDE DEF full
  <1>6. n \in Process /\ n.stage = "walk" /\ n.file = ring /\ n.ring = full /\ n.cmd = q.cmd /\ n.old = q.old
    BY <1>a, <1>3, <1>5 DEF Process, Stages
  <1> HIDE DEF n
  <1>7. n # IdleProc /\ q # IdleProc /\ WalkedIn(n, wrapped', check')
    BY <1>1, <1>6, IdleProcFacts DEF WalkedIn
  <1>8. lock = p
    BY <1>1 DEF KInv, LockHeld, Inside
  <1>9. /\ RingOK(file') /\ check' \in AllKeys \cup {0}
        /\ wrapped' \in [Records -> AllKeys \cup {0}] /\ crashes' \in Nat /\ lock' \in Procs \cup {"free"}
    BY <1>a, <1>1, <1>4 DEF KeyTypeOK, RingOK
  <1>10. q.file.all \subseteq ring.all /\ AloneIn(q, file) => q.file = file
    BY <1>1, <1>3 DEF AloneIn
  <1>11. AloneIn(q, file) /\ KeptIn(file, wrapped, check) => KeptIn(file', wrapped', check')
    BY <1>1, <1>3, <1>10 DEF KeptIn
  <1>12. q.cmd = "rotate" /\ q.old.all \subseteq EnvKeys
    BY <1>a, <1>1 DEF ProcOK
  <1>14. ProcOK(n)
    BY <1>4, <1>5, <1>6, <1>12 DEF ProcOK
  <1>13. AloneIn(n, file')
    BY <1>1, <1>3, <1>5, <1>6, <1>12 DEF AloneIn
  <1> QED BY <1>1, <1>2, <1>3, <1>4, <1>5, <1>6, <1>7, <1>8, <1>9, <1>11, <1>13, <1>14, ProcStep

\* A file that appeared since openRing is loaded.
LEMMA RotateLoadsStep ==
  ASSUME KInv, NEW p \in Procs, RotateLoads(p) PROVE KInv'
  <1> DEFINE q == proc[p]
             ring == WithFallback(file, {q.old})
             n == [q EXCEPT !.stage = "walk", !.file = file, !.ring = ring]
  <1>a. KeyTypeOK /\ RingOK(file) /\ file \in Ring /\ q \in Process /\ q.old \in Ring /\ ProcOK(q)
    BY DEF KInv, KeyTypeOK, Process, RingsOK
  <1>1. q.stage = "newkey" /\ UNCHANGED <<file, check, wrapped, made, crashes>>
    BY DEF RotateLoads, database
  <1>2. CASE Exit(p)
    BY <1>a, <1>1, <1>2, QuietExit DEF database, KeyTypeOK
  <1>3. CASE lock' = lock /\ Become(p, n)
    <2>1. ring \in Ring /\ RingOK(ring) /\ ring.all = file.all \cup q.old.all
      <3>1. UNION {r.all : r \in {q.old}} = q.old.all
        OBVIOUS
      <3> QED BY <1>a, <3>1, FallbackFacts
    <2> HIDE DEF ring
    <2>2. /\ n \in Process /\ n.stage = "walk" /\ n.old = q.old /\ n.cmd = q.cmd
          /\ n.file = file /\ n.ring = ring
      BY <1>a, <2>1 DEF Process, Stages
    <2> HIDE DEF n
    <2>3. n # IdleProc /\ q # IdleProc /\ WalkedIn(n, wrapped', check') /\ ProcOK(n)
      BY <1>a, <1>1, <2>1, <2>2, IdleProcFacts DEF WalkedIn, ProcOK
    <2>4. AloneIn(n, file')
      BY <1>a, <1>1, <2>1, <2>2 DEF AloneIn, ProcOK
    <2>5. lock = p
      BY <1>1 DEF KInv, LockHeld, Inside
    <2>6. /\ file' \in Ring /\ RingOK(file') /\ check' \in AllKeys \cup {0}
          /\ wrapped' \in [Records -> AllKeys \cup {0}] /\ made' \in 0..MaxKeys /\ crashes' \in Nat
      BY <1>a, <1>1 DEF KeyTypeOK, RingOK
    <2>7. KeptIn(file, wrapped, check) => KeptIn(file', wrapped', check')
      BY <1>1
    <2> QED BY <1>3, <2>2, <2>3, <2>4, <2>5, <2>6, <2>7, ProcStep
  <1> QED BY <1>2, <1>3 DEF RotateLoads

\* The new key of the environment needs no file.
LEMMA RotateEnvStep ==
  ASSUME KInv, NEW p \in Procs, RotateEnv(p) PROVE KInv'
  <1> DEFINE q == proc[p]
             n == [q EXCEPT !.stage = "walk"]
  <1>a. KeyTypeOK /\ RingOK(file) /\ q \in Process /\ ProcOK(q)
    BY DEF KInv, KeyTypeOK, RingsOK
  <1>1. q.stage = "newkey" /\ Become(p, n) /\ UNCHANGED <<file, check, wrapped, made, lock, crashes>>
    BY DEF RotateEnv, database
  <1>2. /\ n \in Process /\ n.stage = "walk" /\ n.old = q.old /\ n.cmd = q.cmd /\ n.env = q.env
        /\ n.file = q.file /\ n.ring = q.ring
    BY <1>a DEF Process, Stages
  <1> HIDE DEF n
  <1>3. n # IdleProc /\ q # IdleProc /\ WalkedIn(n, wrapped', check') /\ ProcOK(n)
    BY <1>a, <1>1, <1>2, IdleProcFacts DEF WalkedIn, ProcOK
  <1>4. AloneIn(q, file) => AloneIn(n, file')
    BY <1>1, <1>2 DEF AloneIn
  <1>5. lock = p
    BY <1>1 DEF KInv, LockHeld, Inside
  <1>6. /\ file' \in Ring /\ RingOK(file') /\ check' \in AllKeys \cup {0}
        /\ wrapped' \in [Records -> AllKeys \cup {0}] /\ made' \in 0..MaxKeys /\ crashes' \in Nat
    BY <1>a, <1>1 DEF KeyTypeOK, RingOK
  <1>7. KeptIn(file, wrapped, check) => KeptIn(file', wrapped', check')
    BY <1>1
  <1> QED BY <1>1, <1>2, <1>3, <1>4, <1>5, <1>6, <1>7, ProcStep

\* Re-wrapping puts a key of the ring where one was.
LEMMA RewrapFacts ==
  ASSUME NEW ring \in Ring, RingOK(ring), NEW k \in AllKeys \cup {0}
  PROVE  /\ Rewrap(ring, k) \in AllKeys \cup {0}
         /\ ~Stale(ring, Rewrap(ring, k))
         /\ \A S : ring.all \subseteq S /\ (k # 0 => k \in S) =>
              (Rewrap(ring, k) # 0 => Rewrap(ring, k) \in S)
  BY ZeroIsNoKey DEF Rewrap, Stale, Ring, RingOK

\* The key-check value goes first.
LEMMA WalkCheckStep ==
  ASSUME KInv, NEW p \in Procs, WalkCheck(p) PROVE KInv'
  <1> DEFINE q == proc[p]
             z == Stale(q.ring, check)
             n == [q EXCEPT !.stage = "batch", !.pos = 1, !.stale = z]
  <1>a. /\ KeyTypeOK /\ RingOK(file) /\ q \in Process /\ ProcOK(q)
        /\ q.ring \in Ring /\ RingOK(q.ring) /\ check \in AllKeys \cup {0}
    BY DEF KInv, KeyTypeOK, RingsOK, Process, ProcOK
  <1>1. /\ q.stage = "walk" /\ Become(p, n) /\ UNCHANGED <<file, wrapped, made, lock, crashes>>
        /\ check' = IF DryRun(q) THEN check ELSE Rewrap(q.ring, check)
    BY DEF WalkCheck
  <1>2. z \in BOOLEAN /\ (~z => ~Stale(q.ring, check))
    BY DEF Stale
  <1> HIDE DEF z
  <1>3. /\ n \in Process /\ n.stage = "batch" /\ n.old = q.old /\ n.cmd = q.cmd /\ n.env = q.env
        /\ n.file = q.file /\ n.ring = q.ring /\ n.pos = 1 /\ n.stale = z
    BY <1>a, <1>2 DEF Process, Stages
  <1> HIDE DEF n
  <1>4. n # IdleProc /\ q # IdleProc /\ ProcOK(n)
    BY <1>a, <1>1, <1>3, IdleProcFacts DEF ProcOK
  <1>5. WalkedIn(n, wrapped', check')
    BY <1>1, <1>2, <1>3, MasterAssumption DEF WalkedIn, DryRun, Records
  <1>6. lock = p
    BY <1>1 DEF KInv, LockHeld, Inside
  <1>7. AloneIn(q, file) => AloneIn(n, file')
    BY <1>1, <1>3 DEF AloneIn
  <1>8. /\ file' \in Ring /\ RingOK(file') /\ check' \in AllKeys \cup {0}
        /\ wrapped' \in [Records -> AllKeys \cup {0}] /\ made' \in 0..MaxKeys /\ crashes' \in Nat
    BY <1>a, <1>1, RewrapFacts DEF KeyTypeOK, RingOK
  <1>9. AloneIn(q, file) /\ KeptIn(file, wrapped, check) => KeptIn(file', wrapped', check')
    BY <1>a, <1>1, RewrapFacts DEF KeptIn, AloneIn
  <1> QED BY <1>1, <1>3, <1>4, <1>5, <1>6, <1>7, <1>8, <1>9, ProcStep

\* What a batch does to the records.
Batched(q) ==
  wrapped' = IF DryRun(q) THEN wrapped
             ELSE [r \in Records |-> IF r \in Window(q.pos) THEN Rewrap(q.ring, wrapped[r]) ELSE wrapped[r]]

Counted(q) == q.stale \/ \E r \in Window(q.pos) : Stale(q.ring, wrapped[r])

\* After a batch that took every record up to e, none of these is stale.
LEMMA BatchDone ==
  ASSUME KInv, NEW p \in Procs, proc[p].stage = "batch", Batched(proc[p]), NEW e \in Nat,
         \A r \in Records : proc[p].pos <= r /\ r < e /\ wrapped[r] # 0 => r \in Window(proc[p].pos),
         DryRun(proc[p]) => ~Counted(proc[p])
  PROVE  \A r \in Records : r < e => ~Stale(proc[p].ring, wrapped'[r])
  <1> DEFINE q == proc[p]
             w == Window(q.pos)
  <1>a. /\ q \in Process /\ q.ring \in Ring /\ q.pos \in Nat /\ RingOK(q.ring)
        /\ wrapped \in [Records -> AllKeys \cup {0}]
    BY DEF KInv, KeyTypeOK, RingsOK, Process, ProcOK
  <1>b. \A r \in Records : r < q.pos => ~Stale(q.ring, wrapped[r])
    BY DEF KInv, Walked, WalkedIn, Counted
  <1>c. ~Stale(q.ring, 0)
    BY <1>a, ZeroIsNoKey DEF Stale, Ring
  <1> SUFFICES ASSUME NEW r \in Records, r < e PROVE ~Stale(q.ring, wrapped'[r])
    OBVIOUS
  <1>d. r \in Nat
    BY MasterAssumption DEF Records
  <1>1. CASE wrapped[r] = 0 \/ r < q.pos
    <2>1. r \notin w
      BY <1>a, <1>d, <1>1 DEF Window
    <2>2. wrapped'[r] = wrapped[r]
      BY <2>1 DEF Batched
    <2> QED BY <1>1, <1>b, <1>c, <2>2
  <1>2. CASE wrapped[r] # 0 /\ q.pos <= r
    <2>1. r \in w
      BY <1>2
    <2>2. CASE DryRun(q)
      BY <2>1, <2>2 DEF Batched, Counted
    <2>3. CASE ~DryRun(q)
      <3>1. wrapped'[r] = Rewrap(q.ring, wrapped[r])
        BY <2>1, <2>3 DEF Batched
      <3> QED BY <1>a, <3>1, RewrapFacts
    <2> QED BY <2>2, <2>3
  <1> QED BY <1>a, <1>d, <1>1, <1>2

\* The batches keep records under keys of the ring.
LEMMA BatchKeeps ==
  ASSUME KInv, NEW p \in Procs, Batched(proc[p])
  PROVE  /\ wrapped' \in [Records -> AllKeys \cup {0}]
         /\ AloneIn(proc[p], file) /\ KeptIn(file, wrapped, check) => KeptIn(file, wrapped', check)
  <1> DEFINE q == proc[p]
  <1>a. q.ring \in Ring /\ RingOK(q.ring) /\ wrapped \in [Records -> AllKeys \cup {0}]
    BY DEF KInv, KeyTypeOK, RingsOK, Process, ProcOK
  <1>1. CASE DryRun(q)
    BY <1>a, <1>1 DEF Batched
  <1>2. CASE ~DryRun(q)
    <2>1. wrapped' = [r \in Records |-> IF r \in Window(q.pos) THEN Rewrap(q.ring, wrapped[r]) ELSE wrapped[r]]
      BY <1>2 DEF Batched
    <2>2. wrapped' \in [Records -> AllKeys \cup {0}]
      BY <1>a, <2>1, RewrapFacts
    <2>3. ASSUME AloneIn(q, file), KeptIn(file, wrapped, check) PROVE KeptIn(file, wrapped', check)
      BY <1>a, <2>1, <2>3, RewrapFacts DEF KeptIn, AloneIn
    <2> QED BY <2>2, <2>3
  <1> QED BY <1>1, <1>2

\* One batch of the walk.
LEMMA WalkBatchStep ==
  ASSUME KInv, NEW p \in Procs, WalkBatch(p) PROVE KInv'
  <1> DEFINE q == proc[p]
             w == Window(q.pos)
             z == Counted(q)
             m == [q EXCEPT !.pos = NextStart(w), !.stale = z]
             n == [q EXCEPT !.stage = "retire", !.stale = z]
  <1>a. /\ KeyTypeOK /\ RingOK(file) /\ q \in Process /\ ProcOK(q) /\ q.pos \in Nat
    BY DEF KInv, KeyTypeOK, RingsOK, Process
  <1>b. z \in BOOLEAN
    BY <1>a DEF Process, Counted
  <1>1. /\ q.stage = "batch" /\ Batched(q) /\ UNCHANGED <<file, check, made, crashes>>
    BY DEF WalkBatch, Batched
  <1>2. lock = p /\ q # IdleProc
    BY <1>1, IdleProcFacts DEF KInv, LockHeld, Inside
  <1>3. \/ Cardinality(w) = Batch /\ Become(p, m) /\ lock' = lock
        \/ Cardinality(w) # Batch /\ DryRun(q) /\ Become(p, n) /\ lock' = lock
        \/ Exit(p)
    BY DEF WalkBatch, Counted
  <1>4. /\ file' \in Ring /\ RingOK(file') /\ check' \in AllKeys \cup {0}
        /\ wrapped' \in [Records -> AllKeys \cup {0}] /\ made' \in 0..MaxKeys /\ crashes' \in Nat
    BY <1>a, <1>1, BatchKeeps DEF KeyTypeOK, RingOK
  <1>5. AloneIn(q, file) /\ KeptIn(file, wrapped, check) => KeptIn(file', wrapped', check')
    BY <1>1, BatchKeeps
  <1>6. CASE Exit(p)
    BY <1>1, <1>2, <1>4, <1>5, <1>6, ExitStep
  <1>7. CASE Cardinality(w) = Batch /\ Become(p, m) /\ lock' = lock
    <2>1. w # {}
      BY <1>7, FS_EmptySet, MasterAssumption
    <2>2. /\ NextStart(w) \in Nat /\ NextStart(w) - 1 \in w /\ \A x \in w : x < NextStart(w)
      BY <1>a, <2>1, WindowNext
    <2>3. ASSUME NEW r \in Records, q.pos <= r, r < NextStart(w), wrapped[r] # 0 PROVE r \in w
      <3>1. r \in Nat /\ r <= NextStart(w) - 1
        BY <2>2, <2>3, MasterAssumption DEF Records
      <3> QED BY <1>a, <2>2, <2>3, <3>1, WindowPrefix
    <2>4. (DryRun(q) => ~z) => \A r \in Records : r < NextStart(w) => ~Stale(q.ring, wrapped'[r])
      BY <1>1, <2>2, <2>3, BatchDone
    <2> DEFINE t == NextStart(w)
    <2> HIDE DEF z, w, t
    <2>5. /\ m \in Process /\ m.stage = "batch" /\ m.old = q.old /\ m.cmd = q.cmd /\ m.env = q.env
          /\ m.file = q.file /\ m.ring = q.ring /\ m.pos = t /\ m.stale = z
      BY <1>a, <1>b, <1>1, <2>2 DEF Process, Stages, t
    <2> HIDE DEF m
    <2>6. ProcOK(m) /\ m # IdleProc
      BY <1>a, <2>5, IdleProcFacts DEF ProcOK
    <2>7. DryRun(q) /\ ~z => ~Stale(q.ring, check')
      BY <1>1 DEF KInv, Walked, WalkedIn, z, Counted
    <2>8. WalkedIn(m, wrapped', check')
      BY <2>4, <2>5, <2>7 DEF WalkedIn, DryRun, t
    <2>9. AloneIn(q, file) => AloneIn(m, file')
      BY <1>1, <2>5 DEF AloneIn
    <2> QED BY <1>2, <1>4, <1>5, <1>7, <2>5, <2>6, <2>8, <2>9, ProcStep
  <1>8. CASE Cardinality(w) # Batch /\ DryRun(q) /\ Become(p, n) /\ lock' = lock
    <2>1. \A r \in Records : r \in Nat /\ r < NumRecords + 1
      BY MasterAssumption DEF Records
    <2>2. ASSUME NEW r \in Records, q.pos <= r, wrapped[r] # 0 PROVE r \in w
      BY <1>a, <1>8, <2>2, WindowLast
    <2>3. NumRecords + 1 \in Nat
      BY MasterAssumption
    <2>4. ~z => \A r \in Records : ~Stale(q.ring, wrapped'[r])
      BY <1>1, <2>1, <2>2, <2>3, BatchDone
    <2> HIDE DEF z, w
    <2>5. /\ n \in Process /\ n.stage = "retire" /\ n.old = q.old /\ n.cmd = q.cmd /\ n.env = q.env
          /\ n.file = q.file /\ n.ring = q.ring /\ n.stale = z
      BY <1>a, <1>b DEF Process, Stages
    <2> HIDE DEF n
    <2>6. ProcOK(n) /\ n # IdleProc
      BY <1>a, <2>5, IdleProcFacts DEF ProcOK
    <2>7. ~z => ~Stale(q.ring, check')
      BY <1>1, <1>8 DEF KInv, Walked, WalkedIn, z, Counted
    <2>8. WalkedIn(n, wrapped', check')
      BY <1>8, <2>4, <2>5, <2>7 DEF WalkedIn, DryRun
    <2>9. AloneIn(q, file) => AloneIn(n, file')
      BY <1>1, <2>5 DEF AloneIn
    <2> QED BY <1>2, <1>4, <1>5, <1>8, <2>5, <2>6, <2>8, <2>9, ProcStep
  <1> QED BY <1>3, <1>6, <1>7, <1>8

\* retire prunes the file to the key that nothing needs another one than.
LEMMA RetireStep ==
  ASSUME KInv, NEW p \in Procs, Retire(p) PROVE KInv'
  <1> DEFINE q == proc[p]
  <1>a. /\ KeyTypeOK /\ RingOK(file) /\ q \in Process /\ q.file \in Ring /\ file \in Ring
    BY DEF KInv, KeyTypeOK, RingsOK, Process
  <1>1. /\ q.stage = "retire" /\ Exit(p) /\ UNCHANGED <<check, wrapped, made, crashes>>
        /\ \/ file' = file
           \/ ~q.stale /\ q.env /\ file' = NoRing
           \/ ~q.stale /\ ~q.env /\ file' = Single(q.file.cur)
    BY DEF Retire, database
  <1>2. file' \in Ring /\ RingOK(file')
    <2>1. q.file.cur \in AllKeys \cup {0}
      BY <1>a DEF Ring
    <2>2. Single(q.file.cur) \in Ring /\ RingOK(Single(q.file.cur))
      BY <2>1, RingFacts
    <2> QED BY <1>a, <1>1, <2>2, RingFacts DEF RingOK
  <1>3. /\ check' \in AllKeys \cup {0} /\ wrapped' \in [Records -> AllKeys \cup {0}]
        /\ made' \in 0..MaxKeys /\ crashes' \in Nat
    BY <1>a, <1>1 DEF KeyTypeOK
  <1>4. ASSUME AloneIn(q, file), KeptIn(file, wrapped, check) PROVE KeptIn(file', wrapped', check')
    <2>1. CASE file' = file
      BY <1>1, <1>4, <2>1
    <2>2. CASE ~q.stale /\ file' # file
      <3>1. /\ DryRun(q) /\ ~Stale(q.ring, check) /\ \A r \in Records : ~Stale(q.ring, wrapped[r])
        BY <1>1, <2>2 DEF KInv, Walked, WalkedIn
      <3>2. /\ file.all \subseteq q.ring.all /\ q.file = file
            /\ q.env => q.ring.cur \in EnvKeys
            /\ ~q.env => q.ring.cur = file.cur
        BY <1>1, <1>4, <3>1 DEF AloneIn, DryRun
      <3>3. \A k : k # 0 /\ k \in EnvKeys \cup file.all /\ ~Stale(q.ring, k) => k \in EnvKeys \/ k = q.ring.cur
        BY <3>2 DEF Stale
      <3>4. ~q.env => file' = Single(file.cur)
        BY <1>1, <2>2, <3>2
      <3>5. file.cur \in AllKeys \cup {0}
        BY <1>a DEF Ring
      <3>6. file.cur # 0 => file.cur \in Single(file.cur).all
        BY <3>5, RingFacts
      <3>7. \A k : k # 0 /\ k \in EnvKeys \cup file.all /\ ~Stale(q.ring, k) => k \in EnvKeys \cup file'.all
        BY <3>2, <3>3, <3>4, <3>6
      <3> QED BY <1>1, <1>4, <3>1, <3>7 DEF KeptIn
    <2> QED BY <1>1, <2>1, <2>2
  <1> QED BY <1>1, <1>2, <1>3, <1>4, ExitStep

\* The server takes the database and the environment's key, or the file's.
LEMMA ServerOpenStep ==
  ASSUME KInv, NEW p \in Procs, NEW cur \in Env, ServerOpen(p, cur) PROVE KInv'
  <1> DEFINE ring == IF cur # 0 THEN Single(cur) ELSE file'
             n == [IdleProc EXCEPT !.stage = "starting", !.ring = ring]
  <1>a. /\ KeyTypeOK /\ RingOK(file) /\ file \in Ring /\ made \in 0..MaxKeys
    BY DEF KInv, KeyTypeOK, RingsOK
  <1>1. /\ proc[p].stage = "idle" /\ lock = "free" /\ lock' = p /\ Become(p, n)
        /\ UNCHANGED <<check, wrapped, crashes>>
        /\ \/ UNCHANGED <<file, made>>
           \/ made < MaxKeys /\ made' = made + 1 /\ file' = Single(made') /\ file = NoRing
    BY DEF ServerOpen, database, Generate
  <1>2. file' \in Ring /\ RingOK(file') /\ made' \in 0..MaxKeys /\ file.all \subseteq file'.all
    <2>1. CASE UNCHANGED <<file, made>>
      BY <1>a, <2>1 DEF RingOK
    <2>2. CASE made < MaxKeys /\ made' = made + 1 /\ file' = Single(made') /\ file = NoRing
      <3>1. made' \in AllKeys \cup {0} /\ made' \in 0..MaxKeys
        BY <1>a, <2>2, MasterAssumption DEF AllKeys
      <3>2. Single(made') \in Ring /\ RingOK(Single(made')) /\ NoRing.all = {}
        BY <3>1, RingFacts
      <3> QED BY <2>2, <3>1, <3>2 DEF RingOK
    <2> QED BY <1>1, <2>1, <2>2
  <1>3. ring \in Ring /\ RingOK(ring) /\ ring.all \subseteq EnvKeys \cup file'.all
    BY <1>2, EnvRing DEF RingOK
  <1> HIDE DEF ring
  <1>4. /\ n \in Process /\ n.stage = "starting" /\ n.cmd = "server" /\ n.ring = ring
        /\ n.old = NoRing /\ n.file = NoRing
    BY <1>3, RingFacts DEF IdleProc, Process, Stages
  <1> HIDE DEF n
  <1>5. n # IdleProc /\ WalkedIn(n, wrapped', check')
    BY <1>4, IdleProcFacts DEF WalkedIn
  <1>6. ProcOK(n)
    BY <1>3, <1>4, RingFacts DEF ProcOK
  <1>7. AloneIn(n, file')
    BY <1>3, <1>4 DEF AloneIn
  <1>8. KeptIn(file, wrapped, check) => KeptIn(file', wrapped', check')
    BY <1>1, <1>2 DEF KeptIn
  <1>9. /\ check' \in AllKeys \cup {0} /\ wrapped' \in [Records -> AllKeys \cup {0}]
        /\ crashes' \in Nat /\ lock' \in Procs \cup {"free"}
    BY <1>a, <1>1 DEF KeyTypeOK
  <1>10. n.stage # "idle"
    BY <1>4
  <1> QED BY <1>1, <1>2, <1>4, <1>5, <1>6, <1>7, <1>8, <1>9, <1>10, ProcStep

\* NewLocal: a first start writes the key-check value under its own key.
LEMMA ServerCheckStep ==
  ASSUME KInv, NEW p \in Procs, ServerCheck(p) PROVE KInv'
  <1> DEFINE q == proc[p]
             n == [q EXCEPT !.stage = "serve"]
  <1>a. /\ KeyTypeOK /\ RingOK(file) /\ q \in Process /\ ProcOK(q) /\ q.ring \in Ring /\ RingOK(q.ring)
    BY DEF KInv, KeyTypeOK, RingsOK, Process, ProcOK
  <1>1. /\ q.stage = "starting" /\ UNCHANGED <<file, wrapped, made, crashes>>
    BY DEF ServerCheck
  <1>2. CASE Exit(p) /\ check' = check
    BY <1>a, <1>1, <1>2, QuietExit DEF database, KeyTypeOK
  <1>3. CASE /\ check' = IF check = 0 THEN q.ring.cur ELSE check
             /\ Become(p, n)
             /\ lock' = lock
    <2>1. /\ n \in Process /\ n.stage = "serve" /\ n.old = q.old /\ n.cmd = q.cmd /\ n.env = q.env
          /\ n.file = q.file /\ n.ring = q.ring
      BY <1>a DEF Process, Stages
    <2> HIDE DEF n
    <2>2. n # IdleProc /\ q # IdleProc /\ WalkedIn(n, wrapped', check')
      BY <1>1, <2>1, IdleProcFacts DEF WalkedIn
    <2>3. ProcOK(n)
      BY <1>a, <2>1 DEF ProcOK
    <2>4. lock = p
      BY <1>1 DEF KInv, LockHeld, Inside
    <2>5. AloneIn(q, file) => AloneIn(n, file')
      BY <1>1, <2>1 DEF AloneIn
    <2>6. AloneIn(q, file) /\ KeptIn(file, wrapped, check) => KeptIn(file', wrapped', check')
      BY <1>a, <1>1, <1>3 DEF KeptIn, AloneIn, RingOK
    <2>7. /\ file' \in Ring /\ RingOK(file') /\ check' \in AllKeys \cup {0}
          /\ wrapped' \in [Records -> AllKeys \cup {0}] /\ made' \in 0..MaxKeys /\ crashes' \in Nat
      BY <1>a, <1>1, <1>3 DEF KeyTypeOK, RingOK, Ring
    <2> QED BY <1>3, <2>1, <2>2, <2>3, <2>4, <2>5, <2>6, <2>7, ProcStep
  <1> QED BY <1>2, <1>3 DEF ServerCheck

\* The server is the only one with the database when it changes a record.
LEMMA RecordStep ==
  ASSUME KInv, NEW p \in Procs, proc[p].stage = "serve", NEW r \in Records,
         NEW k \in {0, proc[p].ring.cur}, wrapped' = [wrapped EXCEPT ![r] = k],
         UNCHANGED <<file, check, made, lock, proc, overlap, crashes>>
  PROVE  KInv'
  <1>a. KeyTypeOK /\ LockHeld /\ RingsOK /\ IdleExact /\ Walked /\ Alone
    BY DEF KInv
  <1>b. proc[p] \in Process /\ proc[p].ring \in Ring /\ RingOK(proc[p].ring)
    BY <1>a DEF KeyTypeOK, Process, RingsOK, ProcOK
  <1>c. k \in AllKeys \cup {0} /\ wrapped \in [Records -> AllKeys \cup {0}]
    BY <1>a, <1>b DEF KeyTypeOK, Ring
  <1>1. KeyTypeOK'
    BY <1>a, <1>c DEF KeyTypeOK
  <1>2. LockHeld' /\ RingsOK' /\ IdleExact'
    BY <1>a DEF LockHeld, RingsOK, RingOK, ProcOK, IdleExact, IdleProc, NoRing
  <1>3. Walked'
    <2>1. ASSUME NEW x \in Procs PROVE WalkedIn(proc'[x], wrapped', check')
      <3>1. proc[x].stage \notin {"batch", "retire"}
        BY <1>a DEF LockHeld, Inside
      <3> QED BY <3>1 DEF WalkedIn
    <2> QED BY <2>1 DEF Walked, WalkedIn, DryRun, Stale
  <1>4. Alone'
    <2> SUFFICES ASSUME ~overlap'
                 PROVE  /\ KeptIn(file', wrapped', check')
                        /\ \A x, y \in Procs : x # y => proc'[x] = IdleProc \/ proc'[y] = IdleProc
                        /\ \A x \in Procs : proc'[x] # IdleProc => AloneIn(proc'[x], file')
      BY DEF Alone, KeptIn, AloneIn, IdleProc, NoRing
    <2>1. /\ KeptIn(file, wrapped, check)
          /\ \A x, y \in Procs : x # y => proc[x] = IdleProc \/ proc[y] = IdleProc
          /\ \A x \in Procs : proc[x] # IdleProc => AloneIn(proc[x], file)
      BY <1>a DEF Alone
    <2>2. AloneIn(proc[p], file)
      BY <2>1, IdleProcFacts
    <2>3. k # 0 => k \in EnvKeys \cup file.all
      BY <1>b, <2>2 DEF AloneIn, RingOK
    <2>4. KeptIn(file', wrapped', check')
      BY <1>c, <2>1, <2>3 DEF KeptIn
    <2> QED BY <2>1, <2>4
  <1> QED BY <1>1, <1>2, <1>3, <1>4 DEF KInv

\* At first there is neither a record nor a process.
LEMMA InitKInv == MkInit => KInv
  <1> SUFFICES ASSUME MkInit PROVE KInv
    OBVIOUS
  <1>1. /\ file = NoRing /\ check = 0 /\ wrapped = [r \in Records |-> 0] /\ made = 0
        /\ lock = "free" /\ proc = [p \in Procs |-> IdleProc] /\ overlap = FALSE /\ crashes = 0
    BY DEF MkInit
  <1>2. KeyTypeOK
    <2>1. wrapped \in [Records -> AllKeys \cup {0}] /\ proc \in [Procs -> Process]
      BY <1>1, IdleProcFacts
    <2>2. file \in Ring /\ made \in 0..MaxKeys /\ lock \in Procs \cup {"free"} /\ crashes \in Nat
      BY <1>1, RingFacts, MasterAssumption
    <2> QED BY <1>1, <2>1, <2>2 DEF KeyTypeOK
  <1>3. \A p \in Procs : proc[p] = IdleProc
    BY <1>1
  <1>4. LockHeld /\ RingsOK /\ IdleExact
    BY <1>1, <1>3, IdleProcFacts, RingFacts DEF LockHeld, Inside, RingsOK, IdleExact
  <1>5. Walked
    BY <1>3, IdleProcFacts DEF Walked, WalkedIn
  <1>6. Alone
    BY <1>1, <1>3 DEF Alone, KeptIn
  <1> QED BY <1>2, <1>4, <1>5, <1>6 DEF KInv

\* Every step keeps the invariant.
LEMMA NextKInv ==
  ASSUME KInv, [MkNext]_mkvars PROVE KInv'
  <1>a. crashes \in Nat
    BY DEF KInv, KeyTypeOK
  <1>1. CASE UNCHANGED mkvars
    BY <1>1 DEF KInv, mkvars, KeyTypeOK, LockHeld, RingsOK, RingOK, ProcOK, IdleExact, IdleProc, NoRing,
                Walked, WalkedIn, DryRun, Stale, Alone, KeptIn, AloneIn
  <1>2. CASE MkNext
    <2>1. PICK p \in Procs :
            \/ \E cmd \in {"rotate", "rewrap", "retire"}, cur, old, next \in Env :
                 OpenRing(p, cmd, cur, old, next)
            \/ OpenDB(p) \/ OpenTimeout(p)
            \/ RotateFile(p) \/ RotateLoads(p) \/ RotateEnv(p) \/ RotateFails(p)
            \/ WalkCheck(p) \/ WalkBatch(p) \/ Retire(p)
            \/ \E cur \in Env : ServerOpen(p, cur)
            \/ ServerCheck(p)
            \/ \E r \in Records : ServerWrite(p, r) \/ ServerDelete(p, r)
            \/ ServerStop(p) \/ Crash(p)
      BY <1>2 DEF MkNext
    <2>2. CASE \E cmd \in {"rotate", "rewrap", "retire"}, cur, old, next \in Env :
                 OpenRing(p, cmd, cur, old, next)
      BY <2>2, OpenRingStep
    <2>3. CASE OpenDB(p)
      BY <2>3, OpenDBStep
    <2>4. CASE OpenTimeout(p)
      BY <1>a, <2>4, QuietExit DEF OpenTimeout
    <2>5. CASE RotateFile(p) \/ RotateLoads(p) \/ RotateEnv(p)
      BY <2>5, RotateFileStep, RotateLoadsStep, RotateEnvStep
    <2>6. CASE RotateFails(p)
      BY <1>a, <2>6, QuietExit DEF RotateFails
    <2>7. CASE WalkCheck(p) \/ WalkBatch(p) \/ Retire(p)
      BY <2>7, WalkCheckStep, WalkBatchStep, RetireStep
    <2>8. CASE \E cur \in Env : ServerOpen(p, cur)
      BY <2>8, ServerOpenStep
    <2>9. CASE ServerCheck(p)
      BY <2>9, ServerCheckStep
    <2>10. ASSUME NEW r \in Records, ServerWrite(p, r) PROVE KInv'
      BY <2>10, RecordStep DEF ServerWrite
    <2>11. ASSUME NEW r \in Records, ServerDelete(p, r) PROVE KInv'
      BY <2>11, RecordStep DEF ServerDelete
    <2>12. CASE ServerStop(p)
      BY <1>a, <2>12, QuietExit DEF ServerStop
    <2>13. CASE Crash(p)
      <3>1. crashes' \in Nat
        BY <1>a, <2>13 DEF Crash
      <3> QED BY <2>13, <3>1, QuietExit DEF Crash
    <2> QED BY <2>1, <2>2, <2>3, <2>4, <2>5, <2>6, <2>7, <2>8, <2>9, <2>10, <2>11, <2>12, <2>13
  <1> QED BY <1>1, <1>2

-----------------------------------------------------------------------------
(* The theorems *)

\* The invariant holds at all times.
LEMMA KInvHolds == MkSpec => []KInv
  BY InitKInv, NextKInv, PTL DEF MkSpec

\* The key file, the records and the processes of internal/masterkey have
\* their shapes in every state.
THEOREM KeyTypeCorrect == MkSpec => []KeyTypeOK
  <1>1. KInv => KeyTypeOK
    BY DEF KInv
  <1> QED BY <1>1, KInvHolds, PTL

\* While commands and server runs follow one another, wherever each is cut
\* off, every record and the key-check value is under a key of the key file or
\* one that the operators keep.
THEOREM NoKeyLost == MkSpec => []KeysKeptAlone
  <1>1. KInv => KeysKeptAlone
    BY DEF KInv, Alone, KeptIn, KeysKeptAlone, KeysKept, Available
  <1> QED BY <1>1, KInvHolds, PTL

\* Only its last batch ends a walk by itself.
LEMMA OnlyLastBatchEnds ==
  ASSUME KInv, MkNext, NEW p \in Procs,
         proc[p].stage = "batch", ~DryRun(proc[p]), proc'[p].stage = "idle", crashes' = crashes
  PROVE  WalkBatch(p) /\ Cardinality(Window(proc[p].pos)) # Batch
  <1> DEFINE q == proc[p]
  <1>a. KeyTypeOK /\ crashes \in Nat /\ q \in Process
    BY DEF KInv, KeyTypeOK
  <1>1. \A x \in Procs : \A n : Become(x, n) => x = p
    BY <1>a, BecomeFacts
  <1>2. \A x \in Procs : Exit(x) => x = p
    BY <1>1 DEF Exit
  <1>3. ~UNCHANGED proc
    OBVIOUS
  <1>4. PICK x \in Procs :
          \/ \E cmd \in {"rotate", "rewrap", "retire"}, cur, old, next \in Env :
               OpenRing(x, cmd, cur, old, next)
          \/ OpenDB(x) \/ OpenTimeout(x)
          \/ RotateFile(x) \/ RotateLoads(x) \/ RotateEnv(x) \/ RotateFails(x)
          \/ WalkCheck(x) \/ WalkBatch(x) \/ Retire(x)
          \/ \E cur \in Env : ServerOpen(x, cur)
          \/ ServerCheck(x)
          \/ \E r \in Records : ServerWrite(x, r) \/ ServerDelete(x, r)
          \/ ServerStop(x) \/ Crash(x)
    BY DEF MkNext
  <1>5. ASSUME NEW cmd, NEW cur, NEW old, NEW next, OpenRing(x, cmd, cur, old, next) PROVE FALSE
    BY <1>1, <1>5 DEF OpenRing
  <1>6. ~OpenDB(x) /\ ~OpenTimeout(x)
    BY <1>1, <1>2 DEF OpenDB, OpenTimeout
  <1>7. ~RotateFile(x) /\ ~RotateLoads(x) /\ ~RotateEnv(x) /\ ~RotateFails(x)
    BY <1>1, <1>2 DEF RotateFile, RotateLoads, RotateEnv, RotateFails
  <1>8. ~WalkCheck(x) /\ ~Retire(x) /\ ~ServerStop(x)
    BY <1>1, <1>2 DEF WalkCheck, Retire, ServerStop
  <1>9. ASSUME NEW cur, ServerOpen(x, cur) PROVE FALSE
    BY <1>1, <1>9 DEF ServerOpen
  <1>10. ~ServerCheck(x)
    BY <1>1, <1>2 DEF ServerCheck
  <1>11. ASSUME NEW r, ServerWrite(x, r) \/ ServerDelete(x, r) PROVE FALSE
    BY <1>3, <1>11 DEF ServerWrite, ServerDelete
  <1>12. ~Crash(x)
    BY <1>a DEF Crash
  <1>13. WalkBatch(x)
    BY <1>4, <1>5, <1>6, <1>7, <1>8, <1>9, <1>10, <1>11, <1>12
  <1>14. x = p
    <2>1. \E n : Become(x, n)
      BY <1>13 DEF WalkBatch, Exit
    <2> QED BY <1>1, <2>1
  <1>15. ASSUME Cardinality(Window(q.pos)) = Batch PROVE FALSE
    <2> DEFINE z == q.stale \/ \E r \in Window(q.pos) : Stale(q.ring, wrapped[r])
               m == [q EXCEPT !.pos = NextStart(Window(q.pos)), !.stale = z]
    <2>1. Become(p, m)
      BY <1>13, <1>14, <1>15 DEF WalkBatch
    <2> HIDE DEF z
    <2>2. m.stage = "batch"
      BY <1>a DEF Process
    <2> HIDE DEF m
    <2> QED BY <1>a, <2>1, <2>2, BecomeFacts
  <1> QED BY <1>13, <1>14, <1>15

\* A rotation or a re-wrap that ends by itself has left no record under an
\* older key of its ring, however many records there are and however its
\* batches fall.
THEOREM WalkReachesAll == MkSpec => RewrapComplete
  <1>1. ASSUME KInv, [MkNext]_mkvars
        PROVE  \A p \in Procs :
                 proc[p].stage = "batch" /\ ~DryRun(proc[p]) /\ proc'[p].stage = "idle" /\ crashes' = crashes
                 => \A r \in Records : ~Stale(proc[p].ring, wrapped'[r])
    <2> SUFFICES ASSUME NEW p \in Procs, proc[p].stage = "batch", ~DryRun(proc[p]),
                        proc'[p].stage = "idle", crashes' = crashes
                 PROVE  \A r \in Records : ~Stale(proc[p].ring, wrapped'[r])
      OBVIOUS
    <2> DEFINE q == proc[p]
               w == Window(q.pos)
    <2>1. MkNext
      BY <1>1 DEF mkvars
    <2>2. WalkBatch(p) /\ Cardinality(w) # Batch
      BY <1>1, <2>1, OnlyLastBatchEnds
    <2>3. Batched(q) /\ q.pos \in Nat
      BY <1>1, <2>2 DEF WalkBatch, Batched, KInv, KeyTypeOK, Process
    <2>4. \A r \in Records : r \in Nat /\ r < NumRecords + 1
      BY MasterAssumption DEF Records
    <2>5. ASSUME NEW r \in Records, q.pos <= r, wrapped[r] # 0 PROVE r \in w
      BY <2>2, <2>3, <2>5, WindowLast
    <2>6. NumRecords + 1 \in Nat
      BY MasterAssumption
    <2> QED BY <1>1, <2>3, <2>4, <2>5, <2>6, BatchDone
  <1> QED BY <1>1, KInvHolds, PTL DEF MkSpec, RewrapComplete

-----------------------------------------------------------------------------
(* Maintenance, side by side *)

\* The worker and the processes that use master keys stay where their code can
\* be when each takes its steps beside the other and beside the check of a data
\* directory: a step of one changes nothing that another one's invariant is
\* about.
THEOREM MaintenanceTypeCorrect == MaintenanceSpec => []MaintenanceTypeOK
  <1>1. MaintenanceInit => LcInv /\ KInv
    <2>1. MaintenanceInit => Init /\ MkInit
      BY DEF MaintenanceInit, LifecycleOff
    <2> QED BY <2>1, InitLcInv, InitKInv
  <1>2. LcInv /\ KInv /\ [MaintenanceNext]_sides => LcInv' /\ KInv'
    <2>1. [MaintenanceNext]_sides => [Next]_vars /\ [MkNext]_mkvars
      <3>1. ASSUME MaintenanceNext PROVE [Next]_vars /\ [MkNext]_mkvars
        BY <3>1 DEF MaintenanceNext, LifecycleNext, KeysNext, Stopped, sides
      <3>2. ASSUME UNCHANGED sides PROVE [Next]_vars /\ [MkNext]_mkvars
        BY <3>2 DEF sides
      <3> QED BY <3>1, <3>2
    <2> QED BY <2>1, NextLcInv, NextKInv
  <1>3. LcInv /\ KInv => MaintenanceTypeOK
    <2>1. LcInv => TypeOK
      BY DEF LcInv, TypeOK, VersionsOK, PutOK, WorkerOK
    <2>2. KInv => KeyTypeOK
      BY DEF KInv
    <2> QED BY <2>1, <2>2 DEF MaintenanceTypeOK
  <1> QED BY <1>1, <1>2, <1>3, PTL DEF MaintenanceSpec
=============================================================================
