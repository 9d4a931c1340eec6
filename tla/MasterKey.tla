----------------------------- MODULE MasterKey -----------------------------
(***************************************************************************)
(* The master key ring (internal/kms), its rotation (internal/masterkey)   *)
(* and the commands that drive it (cmd/opens3/master.go), together with    *)
(* the server, which wraps new records.  Processes exclude one another by  *)
(* the lock of the database file; the key file has none.  Any process may  *)
(* die at any step, which frees the lock and leaves both files behind.     *)
(*                                                                         *)
(* Abstracted: key material and associated data (a record is the key that  *)
(* wraps it); the kinds of records after the key-check value, which is     *)
(* walked first, are one sequence of numbered records; status and dry      *)
(* runs, which write nothing.                                              *)
(***************************************************************************)
EXTENDS Naturals, FiniteSets

CONSTANTS
  Procs,      \* processes: a server or one invocation of opens3 master each
  NumRecords, \* the protected records, in the order they are walked
  Batch,      \* records per transaction
  EnvKeys,    \* keys that operators keep in the environment
  MaxKeys,    \* bound: keys generated for the key file
  MaxCrashes  \* bound: processes that die

ASSUME MasterAssumption ==
  /\ NumRecords \in Nat /\ Batch \in Nat \ {0}
  /\ MaxKeys \in Nat /\ MaxCrashes \in Nat
  /\ EnvKeys \cap (0..MaxKeys) = {}
  /\ \A p \in Procs : p # "free"

Records == 1..NumRecords
AllKeys == EnvKeys \cup (1..MaxKeys)

VARIABLES
  file,     \* meta/master.keys: the ring it holds; no file is NoRing
  check,    \* the key that wraps the key-check value, 0: no value yet
  wrapped,  \* the key that wraps each record, 0: no record
  made,     \* keys generated so far
  lock,     \* the process that holds the database, or "free"
  proc,     \* what each process is doing
  overlap,  \* history: two processes have run at the same time
  crashes

mkvars == <<file, check, wrapped, made, lock, proc, overlap, crashes>>
database == <<check, wrapped>>

\* A ring: the key that wraps, and every key that unwraps.
Ring == [cur: AllKeys \cup {0}, all: SUBSET AllKeys]
NoRing == [cur |-> 0, all |-> {}]

\* Mutant: an environment variable that is not set is taken for a key.
SingleAlways(k) == [cur |-> k, all |-> {k}]

\* MasterFromEnv: one key, or none if the variable is not set.
Single(k) == IF k = 0 THEN NoRing ELSE [cur |-> k, all |-> {k}]

\* WithFallback
WithFallback(m, rs) == [m EXCEPT !.all = @ \cup UNION {r.all : r \in rs}]

Stages == {"idle", "open", "newkey", "walk", "batch", "retire", "starting", "serve"}

Process == [stage: Stages, cmd: {"rotate", "rewrap", "retire", "server"},
            ring: Ring, file: Ring, old: Ring, env: BOOLEAN, fresh: BOOLEAN,
            pos: Nat, stale: BOOLEAN]

IdleProc == [stage |-> "idle", cmd |-> "server", ring |-> NoRing, file |-> NoRing,
         old |-> NoRing, env |-> FALSE, fresh |-> FALSE, pos |-> 1, stale |-> FALSE]

\* The two files and the processes are of the shapes the code gives them.
KeyTypeOK ==
  /\ file \in Ring
  /\ check \in AllKeys \cup {0}
  /\ wrapped \in [Records -> AllKeys \cup {0}]
  /\ made \in 0..MaxKeys
  /\ lock \in Procs \cup {"free"}
  /\ proc \in [Procs -> Process]
  /\ overlap \in BOOLEAN
  /\ crashes \in Nat

MkInit ==
  /\ file = NoRing
  /\ check = 0
  /\ wrapped = [r \in Records |-> 0]
  /\ made = 0
  /\ lock = "free"
  /\ proc = [p \in Procs |-> IdleProc]
  /\ overlap = FALSE
  /\ crashes = 0

Become(p, q) ==
  /\ proc' = [proc EXCEPT ![p] = q]
  /\ overlap' = (overlap \/ (q # IdleProc /\ \E x \in Procs \ {p} : proc[x] # IdleProc))

\* The process ends and with it its hold on the database.
Exit(p) ==
  /\ Become(p, IdleProc)
  /\ lock' = IF lock = p THEN "free" ELSE lock

-----------------------------------------------------------------------------
(* opens3 master *)

\* openRing, before the database is opened: the environment's key comes
\* first, else the file's. OPENS3_MASTER_KEY_NEW goes with a rotation of an
\* environment key only, and a rotation may start without a key file.
OpenRing(p, cmd, cur, old, next) ==
  LET env == cur # 0
      fresh == ~env /\ file = NoRing
      fallback == {Single(old), file}
  IN
  /\ proc[p].stage = "idle"
  /\ next # 0 <=> (env /\ cmd = "rotate")
  /\ fresh => cmd = "rotate" /\ old # 0
  /\ Become(p, [IdleProc EXCEPT
       !.stage = "open", !.cmd = cmd, !.env = env, !.fresh = fresh,
       !.file = file, !.old = Single(old),
       !.ring = IF next # 0 THEN WithFallback(Single(next), fallback \cup {Single(cur)})
                ELSE IF env THEN WithFallback(Single(cur), fallback)
                ELSE IF fresh THEN Single(old)
                ELSE WithFallback(file, {Single(old)})])
  /\ UNCHANGED <<file, database, made, lock, crashes>>

\* Check: some key of the ring unwraps the key-check value.
RingMatches(ring) == check # 0 /\ check \in ring.all

\* openDB, then Check.
OpenDB(p) ==
  LET q == proc[p] IN
  /\ q.stage = "open"
  /\ lock = "free"
  /\ IF RingMatches(q.ring)
     THEN /\ lock' = p
          /\ Become(p, [q EXCEPT !.stage = IF q.cmd = "rotate" THEN "newkey" ELSE "walk"])
     ELSE Exit(p)
  /\ UNCHANGED <<file, database, made, crashes>>

\* The database is locked for longer than the timeout.
OpenTimeout(p) ==
  /\ proc[p].stage = "open" /\ lock # "free"
  /\ Exit(p)
  /\ UNCHANGED <<file, database, made, crashes>>

\* A key nobody has had before.
Generate == made < MaxKeys /\ made' = made + 1

\* AddKey, or LoadOrCreateMasterFile if there was no file: the ring this
\* process loaded, with a new current key, replaces the key file.
RotateFile(p) ==
  LET q == proc[p]
      ring == [cur |-> made', all |-> q.file.all \cup {made'}]
  IN
  /\ q.stage = "newkey" /\ ~q.env
  /\ q.fresh => file = NoRing
  /\ Generate
  /\ file' = ring
  /\ Become(p, [q EXCEPT !.stage = "walk", !.file = ring, !.ring = WithFallback(ring, {q.old})])
  /\ UNCHANGED <<database, lock, crashes>>

\* LoadOrCreateMasterFile finds a file that appeared since openRing.
RotateLoads(p) ==
  LET q == proc[p] IN
  /\ q.stage = "newkey" /\ q.fresh /\ file # NoRing
  /\ LET ring == WithFallback(file, {q.old}) IN
     IF RingMatches(ring)
     THEN Become(p, [q EXCEPT !.stage = "walk", !.file = file, !.ring = ring]) /\ lock' = lock
     ELSE Exit(p)
  /\ UNCHANGED <<file, database, made, crashes>>

\* In environment mode the new key is OPENS3_MASTER_KEY_NEW.
RotateEnv(p) ==
  /\ proc[p].stage = "newkey" /\ proc[p].env
  /\ Become(p, [proc[p] EXCEPT !.stage = "walk"])
  /\ UNCHANGED <<file, database, made, lock, crashes>>

\* The key file cannot be written: the rotation is given up.
RotateFails(p) ==
  /\ proc[p].stage = "newkey"
  /\ Exit(p)
  /\ UNCHANGED <<file, database, made, crashes>>

\* A record under a key of the ring that is not the current one.
Stale(ring, k) == k \in ring.all /\ k # ring.cur

Rewrap(ring, k) == IF Stale(ring, k) THEN ring.cur ELSE k

DryRun(q) == q.cmd = "retire"

\* The first kind walked is the key-check value: from here on a process that
\* loaded its ring before this rotation is refused.
WalkCheck(p) ==
  LET q == proc[p] IN
  /\ q.stage = "walk"
  /\ check' = IF DryRun(q) THEN check ELSE Rewrap(q.ring, check)
  /\ Become(p, [q EXCEPT !.stage = "batch", !.pos = 1, !.stale = Stale(q.ring, check)])
  /\ UNCHANGED <<file, wrapped, made, lock, crashes>>

\* The records of one batch: the next ones that exist.
Window(pos) ==
  {r \in Records : /\ r >= pos /\ wrapped[r] # 0
                   /\ Cardinality({x \in Records : pos <= x /\ x < r /\ wrapped[x] # 0}) < Batch}

\* Mutant: the scan goes on one record too far.
NextStartSkips(w) == 2 + (CHOOSE r \in w : \A x \in w : x <= r)

\* The key after the last one scanned.
NextStart(w) == 1 + (CHOOSE r \in w : \A x \in w : x <= r)

\* walk, one batch: classified in a read transaction, re-wrapped in a write
\* transaction; nobody else has the database. A batch that is not full is
\* the last one.
WalkBatch(p) ==
  LET q == proc[p]
      w == Window(q.pos)
      full == Cardinality(w) = Batch
  IN
  /\ q.stage = "batch"
  /\ wrapped' = IF DryRun(q) THEN wrapped
                ELSE [r \in Records |-> IF r \in w THEN Rewrap(q.ring, wrapped[r]) ELSE wrapped[r]]
  /\ IF full
     THEN /\ Become(p, [q EXCEPT !.pos = NextStart(w),
                                 !.stale = @ \/ \E r \in w : Stale(q.ring, wrapped[r])])
          /\ lock' = lock
     ELSE IF DryRun(q)
     THEN /\ Become(p, [q EXCEPT !.stage = "retire",
                                 !.stale = @ \/ \E r \in w : Stale(q.ring, wrapped[r])])
          /\ lock' = lock
     ELSE Exit(p)
  /\ UNCHANGED <<file, check, made, crashes>>

\* Mutant: the records still under older keys are not looked at.
RetireUnchecked(p) ==
  LET q == proc[p] IN
  /\ q.stage = "retire"
  /\ file' = IF q.env THEN (IF q.file # NoRing THEN NoRing ELSE file)
             ELSE (IF q.file.all # {q.file.cur} THEN Single(q.file.cur) ELSE file)
  /\ Exit(p)
  /\ UNCHANGED <<database, made, crashes>>

\* retire, after its dry run: a file the environment's key has made
\* superfluous is removed; else the ring this process loaded is pruned to
\* its current key, and written back if that is a change.
Retire(p) ==
  LET q == proc[p] IN
  /\ q.stage = "retire"
  /\ file' = IF q.stale THEN file
             ELSE IF q.env THEN (IF q.file # NoRing THEN NoRing ELSE file)
             ELSE (IF q.file.all # {q.file.cur} THEN Single(q.file.cur) ELSE file)
  /\ Exit(p)
  /\ UNCHANGED <<database, made, crashes>>

-----------------------------------------------------------------------------
(* The server *)

\* The server takes the database first, then its key: the environment's,
\* the file's, or a new one for which it writes the file.
ServerOpen(p, cur) ==
  /\ proc[p].stage = "idle"
  /\ lock = "free"
  /\ lock' = p
  /\ IF cur # 0 \/ file # NoRing THEN UNCHANGED <<file, made>>
     ELSE Generate /\ file' = Single(made')
  /\ Become(p, [IdleProc EXCEPT !.stage = "starting",
                            !.ring = IF cur # 0 THEN Single(cur) ELSE file'])
  /\ UNCHANGED <<database, crashes>>

\* NewLocal: the key-check value is compared, or written by a first start.
ServerCheck(p) ==
  LET q == proc[p] IN
  /\ q.stage = "starting"
  /\ IF check = 0 \/ RingMatches(q.ring)
     THEN /\ check' = IF check = 0 THEN q.ring.cur ELSE check
          /\ Become(p, [q EXCEPT !.stage = "serve"])
          /\ lock' = lock
     ELSE Exit(p) /\ check' = check
  /\ UNCHANGED <<file, wrapped, made, crashes>>

\* A record is written, wrapped under the server's current key, or goes.
ServerWrite(p, r) ==
  /\ proc[p].stage = "serve"
  /\ wrapped' = [wrapped EXCEPT ![r] = proc[p].ring.cur]
  /\ UNCHANGED <<file, check, made, lock, proc, overlap, crashes>>

ServerDelete(p, r) ==
  /\ proc[p].stage = "serve"
  /\ wrapped[r] # 0
  /\ wrapped' = [wrapped EXCEPT ![r] = 0]
  /\ UNCHANGED <<file, check, made, lock, proc, overlap, crashes>>

ServerStop(p) ==
  /\ proc[p].stage = "serve"
  /\ Exit(p)
  /\ UNCHANGED <<file, database, made, crashes>>

\* A process dies.
Crash(p) ==
  /\ proc[p].stage # "idle"
  /\ crashes < MaxCrashes
  /\ crashes' = crashes + 1
  /\ Exit(p)
  /\ UNCHANGED <<file, database, made>>

-----------------------------------------------------------------------------

Env == EnvKeys \cup {0}

MkNext == \E p \in Procs :
  \/ \E cmd \in {"rotate", "rewrap", "retire"}, cur, old, next \in Env :
       OpenRing(p, cmd, cur, old, next)
  \/ OpenDB(p)
  \/ OpenTimeout(p)
  \/ RotateFile(p)
  \/ RotateLoads(p)
  \/ RotateEnv(p)
  \/ RotateFails(p)
  \/ WalkCheck(p)
  \/ WalkBatch(p)
  \/ Retire(p)
  \/ \E cur \in Env : ServerOpen(p, cur)
  \/ ServerCheck(p)
  \/ \E r \in Records : ServerWrite(p, r) \/ ServerDelete(p, r)
  \/ ServerStop(p)
  \/ Crash(p)

MkSpec == MkInit /\ [][MkNext]_mkvars

-----------------------------------------------------------------------------
(* Properties *)

Available == EnvKeys \cup file.all

\* No key is lost that is still needed: every record, and the key-check value
\* without which no server starts, is wrapped under a key of the key file or
\* one the operators keep.
KeysKept ==
  /\ \A r \in Records : wrapped[r] # 0 => wrapped[r] \in Available
  /\ check # 0 => check \in Available

\* This is so wherever commands and server runs that follow one another are
\* interrupted; for processes that overlap it is not.
KeysKeptAlone == overlap \/ KeysKept

\* A rotation or re-wrap that ends by itself leaves no record under an older
\* key of its ring, however its batches fall.
RewrapComplete ==
  [][\A p \in Procs :
       proc[p].stage = "batch" /\ ~DryRun(proc[p]) /\ proc'[p].stage = "idle" /\ crashes' = crashes
       => \A r \in Records : ~Stale(proc[p].ring, wrapped'[r])]_mkvars
=============================================================================
