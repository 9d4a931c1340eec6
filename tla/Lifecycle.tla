----------------------------- MODULE Lifecycle -----------------------------
(***************************************************************************)
(* The lifecycle worker (internal/lifecycle) on one bucket: rules are read *)
(* once per pass, versions are read page by page in read transactions, and *)
(* every decision is applied later in a transaction of its own, while      *)
(* clients write, delete, tag and lock versions, change the rules and the  *)
(* versioning, and remove the bucket.                                      *)
(*                                                                         *)
(* Abstracted: prefix and size filters, which are the set of keys a rule   *)
(* selects; storage classes, which are their ranks; data files, events and *)
(* statistics. Time is counted in fractions of a day. A sequence and a     *)
(* modification time are taken before the transaction of a write.          *)
(***************************************************************************)
EXTENDS Integers, FiniteSets, SequencesExt

CONSTANTS
  NumKeys,    \* object keys, in listing order
  Tags,       \* tag sets of an object
  Configs,    \* lifecycle configurations clients store: sets of rules
  Day,        \* units of time in a day
  Span,       \* a time.Duration goes from -Span to Span - 1 units of time
  BatchSize,  \* actions, and uploads, collected per read transaction
  MaxScan,    \* version records read per read transaction
  MaxOps,     \* bound: operations of clients
  MaxTime     \* bound: time

Keys == 1..NumKeys

\* classRank: storage classes are as cold as their rank.
Classes == 0..6

\* What the elements of a lifecycle configuration can say.
Rule ==
  [enabled: BOOLEAN, keys: SUBSET Keys, tag: Tags \cup {"any"},
   exp: [kind: {"none", "days", "date", "marker"}, n: Nat], ncExp: [days: Nat, keep: Nat],
   trans: SUBSET [kind: {"days", "date"}, n: Nat, class: Classes],
   ncTrans: SUBSET [days: Nat, keep: Nat, class: Classes], abort: Nat]

ASSUME LifecycleAssumption ==
  /\ NumKeys \in Nat \ {0} /\ Day \in Nat \ {0} /\ Span \in Nat \ {0} /\ BatchSize \in Nat \ {0}
  /\ MaxScan \in Nat \ {0} /\ MaxOps \in Nat /\ MaxTime \in Nat
  /\ "any" \in Tags /\ \A c \in Configs : c \subseteq Rule

VARIABLES
  status,   \* "None": no bucket; else its versioning, "Locked" with Object Lock
  cfg,      \* the bucket's lifecycle configuration
  vers,     \* version records
  uploads,  \* multipart uploads
  put,      \* a write on its way to its transaction: at most one
  seq,      \* the last sequence handed out
  now,
  ops,      \* operations of clients so far
  worker

vars == <<status, cfg, vers, uploads, put, seq, now, ops, worker>>
bucket == <<status, cfg>>

Version == [key: Keys, seq: Nat, mod: Nat, null: BOOLEAN, marker: BOOLEAN,
            tag: Tags, class: Classes, locked: BOOLEAN]
Upload == [key: Keys, id: Nat, init: Nat]

\* KindNone is no action at all; the others in order of precedence.
Kinds == <<"NoncurrentTransition", "Transition", "RemoveDeleteMarker",
           "ExpireNoncurrentVersion", "ExpireCurrent">>
Rank(kind) == CHOOSE i \in DOMAIN Kinds : Kinds[i] = kind
Action(kind, class) == [kind |-> kind, class |-> class]

-----------------------------------------------------------------------------
(* Rules *)

\* Validate, as far as numbers go: expiry comes after every transition.
ValidRule(r) ==
  /\ r.exp.kind = "days" => r.exp.n > 0
  /\ \A t \in r.trans : /\ r.exp.kind = "days" => t.kind = "days" /\ r.exp.n > t.n
                        /\ r.exp.kind = "date" => t.kind = "date" /\ r.exp.n > t.n
  /\ \A t, x \in r.trans : t.kind = x.kind /\ (t # x => t.class # x.class)
  /\ \A t \in r.ncTrans : r.ncExp.days > 0 => r.ncExp.days > t.days
  /\ \A t, x \in r.ncTrans : t # x => t.class # x.class
  /\ r.abort > 0 => r.tag = "any"
  /\ (r.exp.kind = "marker" /\ r.exp.n = 1) => r.tag = "any"

\* time.Duration(days) * 24 * time.Hour, which wraps around; Validate sets the
\* days of a rule no upper limit.
Fits(days) == days * Day < Span
Duration(days) == IF Fits(days) THEN days * Day ELSE ((days * Day + Span) % (2 * Span)) - Span

\* Mutant: the moment is rounded down to midnight.
ExpiresAtEarly(t, days) == ((t + Duration(days)) \div Day) * Day

\* expiresAt: days after t, rounded up to the next midnight.
ExpiresAt(t, days) == ((t + Duration(days) + Day - 1) \div Day) * Day

\* matches, with a rule that is not enabled matching nothing
Matches(r, v) == r.enabled /\ v.key \in r.keys /\ r.tag \in {"any", v.tag}

\* Expiration by days since the modification or on a date.
ExpDue(r, v, t) ==
  \/ r.exp.kind = "days" /\ t >= ExpiresAt(v.mod, r.exp.n)
  \/ r.exp.kind = "date" /\ t >= r.exp.n

\* evalCurrent
EvalCurrent(r, v, t) ==
  IF ExpDue(r, v, t) THEN {Action("ExpireCurrent", 0)}
  ELSE {Action("Transition", x.class) :
          x \in {x \in r.trans : /\ x.class > v.class
                                 /\ IF x.kind = "date" THEN t >= x.n
                                    ELSE t >= ExpiresAt(v.mod, x.n)}}

\* evalDeleteMarker: only a marker with no other version below it goes.
EvalDeleteMarker(r, v, older, t) ==
  IF ~older /\ (ExpDue(r, v, t) \/ (r.exp.kind = "marker" /\ r.exp.n = 1))
  THEN {Action("RemoveDeleteMarker", 0)} ELSE {}

\* evalNoncurrent: since is when the version became noncurrent, newer the
\* number of noncurrent versions above it.
EvalNoncurrent(r, v, since, newer, t) ==
  IF r.ncExp.days > 0 /\ newer >= r.ncExp.keep /\ t >= ExpiresAt(since, r.ncExp.days)
  THEN {Action("ExpireNoncurrentVersion", 0)}
  ELSE {Action("NoncurrentTransition", x.class) :
          x \in {x \in r.ncTrans : /\ ~v.marker /\ x.class > v.class
                                   /\ newer >= x.keep /\ t >= ExpiresAt(since, x.days)}}

Newest(vs) == CHOOSE v \in vs : \A x \in vs : x.seq <= v.seq
Oldest(vs) == CHOOSE v \in vs : \A x \in vs : x.seq >= v.seq
Above(vs, v) == {x \in vs : x.key = v.key /\ x.seq > v.seq}
OfKey(vs, k) == {v \in vs : v.key = k}

\* What a rule has to say about one version among the others,
Says(r, vs, v, t) ==
  LET above == Above(vs, v) IN
  IF above # {} THEN EvalNoncurrent(r, v, Oldest(above).mod, Cardinality(above) - 1, t)
  ELSE IF v.marker THEN EvalDeleteMarker(r, v, Cardinality(OfKey(vs, v.key)) > 1, t)
  ELSE EvalCurrent(r, v, t)

\* and all rules together.
Proposed(rules, vs, v, t) == UNION {Says(r, vs, v, t) : r \in {x \in rules : Matches(x, v)}}

\* Eval: the kind of highest precedence, the coldest class among equals.
Best(actions) ==
  CHOOSE a \in actions : \A b \in actions :
    Rank(b.kind) < Rank(a.kind) \/ (b.kind = a.kind /\ b.class <= a.class)

\* AbortAfter
AbortAfter(rules, u, t) ==
  \E r \in rules : /\ r.enabled /\ r.abort > 0 /\ u.key \in r.keys
                   /\ t >= ExpiresAt(u.init, r.abort)

-----------------------------------------------------------------------------
(* The worker *)

Idle == [stage |-> "idle", now |-> 0, rules |-> {}, pos |-> 1, batch |-> <<>>, full |-> FALSE,
         due |-> {}, dueUploads |-> {}]

\* A new bucket for which rules were stored.
Init ==
  /\ status \in {"Off", "Locked"} /\ cfg \in Configs /\ \A r \in cfg : ValidRule(r)
  /\ vers = {} /\ uploads = {} /\ put = {}
  /\ seq = 0 /\ now = 0 /\ ops = 0
  /\ worker = Idle

\* What the rules ask for at a time.
Due(rules, t) ==
  {[obj |-> v, act |-> Best(Proposed(rules, vers, v, t))] :
     v \in {v \in vers : Proposed(rules, vers, v, t) # {}}}

\* RunOnce reads the buckets: from here on rules and time are those of now.
\* The due fields are history: what there is to do if no client interferes.
PassStart ==
  /\ worker.stage = "idle"
  /\ status # "None" /\ cfg # {} /\ \A r \in cfg : ValidRule(r)
  /\ worker' = [Idle EXCEPT !.stage = "scan", !.now = now, !.rules = cfg,
                           !.due = IF put = {} THEN Due(cfg, now) ELSE {},
                           !.dueUploads = {u \in uploads : AbortAfter(cfg, u, now)}]
  /\ UNCHANGED <<bucket, vers, uploads, put, seq, now, ops>>

\* Mutant: a full page resumes behind the next key.
NextKeySkips(k) == k + 2

\* PrefixSuccessor of the last complete key.
NextKey(k) == k + 1

\* evalGroup for the keys from..to: the versions with something to do,
Candidates(from, to) == {c \in Due(worker.rules, worker.now) : c.obj.key \in from..to}

\* in listing order, the newest of a key first.
InOrder(s) ==
  \A i, j \in DOMAIN s : i < j =>
    \/ s[i].obj.key < s[j].obj.key
    \/ s[i].obj.key = s[j].obj.key /\ s[i].obj.seq > s[j].obj.seq

\* The page that begins at a key is full after key k.
PageFull(from, k) ==
  \/ Cardinality(Candidates(from, k)) >= BatchSize
  \/ Cardinality({v \in vers : v.key \in from..k}) >= MaxScan

\* collect: whole keys until the page is full and another key follows.
Collect ==
  LET last == {k \in worker.pos..NumKeys : OfKey(vers, k) # {} /\ PageFull(worker.pos, k)
                                           /\ \E v \in vers : v.key > k}
      stop == last # {}
      to == IF stop THEN Min(last) ELSE NumKeys
      due == Candidates(worker.pos, to)
  IN
  /\ worker.stage = "scan"
  /\ \E batch \in [1..Cardinality(due) -> due] :
       /\ InOrder(batch)
       /\ worker' = [worker EXCEPT !.stage = "apply", !.batch = batch,
                                   !.pos = IF stop THEN NextKey(to) ELSE NumKeys + 1]
  /\ UNCHANGED <<bucket, vers, uploads, put, seq, now, ops>>

Candidate == Head(worker.batch)
Applying == worker.stage = "apply" /\ worker.batch # <<>>
Applied == worker' = [worker EXCEPT !.batch = Tail(@)]

\* A delete marker of this moment.
MarkerOf(k, null) ==
  [key |-> k, seq |-> seq + 1, mod |-> now, null |-> null, marker |-> TRUE,
   tag |-> "any", class |-> 0, locked |-> FALSE]

\* Mutant: the null version is not looked up.
NullVersionsNone(k) == {}

NullVersions(k) == {v \in vers : v.key = k /\ v.null}

\* DeleteObject without a version ID, on a bucket that has the key.
DeleteLatest(k) ==
  \/ /\ status \in {"Enabled", "Locked"}
     /\ vers' = vers \cup {MarkerOf(k, FALSE)} /\ seq' = seq + 1
  \/ /\ status = "Suspended"
     /\ vers' = (vers \ NullVersions(k)) \cup {MarkerOf(k, TRUE)} /\ seq' = seq + 1
  \/ /\ status = "Off"
     /\ vers' = vers \ {Newest(OfKey(vers, k))} /\ seq' = seq

\* Mutant: whatever is the latest version now is deleted.
StillLatestAny(v) == OfKey(vers, v.key) # {}

\* IfSeq without a version ID: the key's latest version is the one scanned.
StillLatest(v) == OfKey(vers, v.key) # {} /\ Newest(OfKey(vers, v.key)).seq = v.seq

\* apply, KindExpireCurrent
ExpireCurrent ==
  LET v == Candidate.obj IN
  /\ Applying /\ Candidate.act.kind = "ExpireCurrent"
  /\ status # "None" /\ StillLatest(v)
  /\ DeleteLatest(v.key)
  /\ Applied
  /\ UNCHANGED <<bucket, uploads, put, now, ops>>

\* The version scanned, as it is now: the null version is found by its
\* pointer and must still have the sequence.
Current(v) == {x \in vers : x.key = v.key /\ x.seq = v.seq}

\* Mutant: a lock is not looked at again.
DeletableAny(x) == TRUE

\* checkLocked without a bypass
Deletable(x) == ~x.locked

\* apply, KindExpireNoncurrentVersion and KindRemoveDeleteMarker
DeleteVersion ==
  /\ Applying /\ Candidate.act.kind \in {"ExpireNoncurrentVersion", "RemoveDeleteMarker"}
  /\ status # "None"
  /\ \E x \in Current(Candidate.obj) : Deletable(x) /\ vers' = vers \ {x}
  /\ Applied
  /\ UNCHANGED <<bucket, uploads, put, seq, now, ops>>

\* Mutant: the record scanned is written back with its new class.
TransitionedStale(x) == [Candidate.obj EXCEPT !.class = Candidate.act.class]

\* The function UpdateObjectMeta applies to the record it has read again.
Transitioned(x) == [x EXCEPT !.class = Candidate.act.class]

\* apply, KindTransition and KindNoncurrentTransition
Transition ==
  /\ Applying /\ Candidate.act.kind \in {"Transition", "NoncurrentTransition"}
  /\ status # "None"
  /\ \E x \in Current(Candidate.obj) :
       /\ ~x.marker /\ Candidate.act.class > x.class
       /\ vers' = (vers \ {x}) \cup {Transitioned(x)}
  /\ Applied
  /\ UNCHANGED <<bucket, uploads, put, seq, now, ops>>

\* failed: the action is refused, or finds nothing to do.
Skip ==
  LET v == Candidate.obj IN
  /\ Applying
  /\ \/ status = "None"
     \/ Candidate.act.kind = "ExpireCurrent" /\ ~StillLatest(v)
     \/ /\ Candidate.act.kind \in {"ExpireNoncurrentVersion", "RemoveDeleteMarker"}
        /\ \A x \in Current(v) : ~Deletable(x)
     \/ /\ Candidate.act.kind \in {"Transition", "NoncurrentTransition"}
        /\ \A x \in Current(v) : x.marker \/ Candidate.act.class <= x.class
  /\ Applied
  /\ UNCHANGED <<bucket, vers, uploads, put, seq, now, ops>>

\* The page is done: the next one, or the uploads if a rule aborts any.
PageDone ==
  /\ worker.stage = "apply" /\ worker.batch = <<>>
  /\ worker' = IF worker.pos <= NumKeys THEN [worker EXCEPT !.stage = "scan"]
               ELSE IF \E r \in worker.rules : r.enabled /\ r.abort > 0
               THEN [worker EXCEPT !.stage = "uploads"]
               ELSE Idle
  /\ UNCHANGED <<bucket, vers, uploads, put, seq, now, ops>>

\* processUploads, one read transaction: uploads that are due, in the order
\* of their random identifiers.
CollectUploads ==
  LET due == {u \in uploads : AbortAfter(worker.rules, u, worker.now)} IN
  /\ worker.stage = "uploads"
  /\ \E batch \in kSubset(Min({Cardinality(due), BatchSize}), due) :
       worker' = [worker EXCEPT !.stage = "abort", !.batch = SetToSeq(batch),
                                !.full = Cardinality(batch) = BatchSize]
  /\ UNCHANGED <<bucket, vers, uploads, put, seq, now, ops>>

\* AbortUpload; one that is gone is skipped, and without its bucket the
\* batch is the last.
AbortUpload ==
  /\ worker.stage = "abort" /\ worker.batch # <<>>
  /\ uploads' = uploads \ {Head(worker.batch)}
  /\ worker' = [worker EXCEPT !.batch = Tail(@), !.full = @ /\ status # "None"]
  /\ UNCHANGED <<bucket, vers, put, seq, now, ops>>

\* A full batch may not have been the last.
UploadsDone ==
  /\ worker.stage = "abort" /\ worker.batch = <<>>
  /\ worker' = IF worker.full THEN [worker EXCEPT !.stage = "uploads"] ELSE Idle
  /\ UNCHANGED <<bucket, vers, uploads, put, seq, now, ops>>

WorkerStep ==
  \/ PassStart \/ Collect \/ ExpireCurrent \/ DeleteVersion \/ Transition \/ Skip
  \/ PageDone \/ CollectUploads \/ AbortUpload \/ UploadsDone

-----------------------------------------------------------------------------
(* Clients *)

Interfere == worker' = [worker EXCEPT !.due = {}, !.dueUploads = {}]
Op == ops < MaxOps /\ ops' = ops + 1 /\ Interfere

CreateBucket ==
  /\ status = "None" /\ Op
  /\ status' \in {"Off", "Locked"}
  /\ UNCHANGED <<cfg, vers, uploads, put, seq, now>>

\* The bucket goes, by force, with all it has; writes on their way fail.
DeleteBucket ==
  /\ status # "None" /\ Op
  /\ status' = "None" /\ cfg' = {} /\ vers' = {} /\ uploads' = {} /\ put' = {}
  /\ UNCHANGED <<seq, now>>

\* Versioning is switched on or suspended; a bucket with Object Lock keeps it.
PutBucketVersioning ==
  /\ status \in {"Off", "Enabled", "Suspended"} /\ Op
  /\ status' \in {"Enabled", "Suspended"} \ {status}
  /\ UNCHANGED <<cfg, vers, uploads, put, seq, now>>

\* Object Lock can be configured later, where versioning is on.
PutObjectLockConfig ==
  /\ status = "Enabled" /\ Op
  /\ status' = "Locked"
  /\ UNCHANGED <<cfg, vers, uploads, put, seq, now>>

\* PutBucketLifecycleConfiguration validates; DeleteBucketLifecycle.
PutLifecycle(c) ==
  /\ status # "None" /\ Op
  /\ \A r \in c : ValidRule(r)
  /\ cfg' = c /\ cfg' # cfg
  /\ UNCHANGED <<status, vers, uploads, put, seq, now>>

\* PutObject takes its sequence and its modification time,
PutObject(k, t) ==
  /\ status # "None" /\ put = {} /\ Op
  /\ seq' = seq + 1
  /\ put' = {[key |-> k, seq |-> seq + 1, mod |-> now, null |-> FALSE, marker |-> FALSE,
              tag |-> t, class |-> 0, locked |-> FALSE]}
  /\ UNCHANGED <<bucket, vers, uploads, now>>

\* and later its transaction runs.
PutCommit ==
  /\ put # {}
  /\ \E p \in put :
       LET null == status \in {"Off", "Suspended"}
           old == IF null THEN NullVersions(p.key) ELSE {}
       IN vers' = (vers \ old) \cup {[p EXCEPT !.null = null]}
  /\ put' = {}
  /\ Interfere
  /\ UNCHANGED <<bucket, uploads, seq, now, ops>>

\* A client deletes a key, or one version of it,
ClientDelete(k) ==
  /\ status # "None" /\ OfKey(vers, k) # {} /\ Op
  /\ DeleteLatest(k)
  /\ UNCHANGED <<bucket, uploads, put, now>>

ClientDeleteVersion(v) ==
  /\ v \in vers /\ ~v.locked /\ Op
  /\ vers' = vers \ {v}
  /\ UNCHANGED <<bucket, uploads, put, seq, now>>

\* changes the tags, or the legal hold, of a version.
PutTagging(v, t) ==
  /\ v \in vers /\ ~v.marker /\ v.tag # t /\ Op
  /\ vers' = (vers \ {v}) \cup {[v EXCEPT !.tag = t]}
  /\ UNCHANGED <<bucket, uploads, put, seq, now>>

PutLegalHold(v) ==
  /\ v \in vers /\ ~v.marker /\ status = "Locked" /\ Op
  /\ vers' = (vers \ {v}) \cup {[v EXCEPT !.locked = ~@]}
  /\ UNCHANGED <<bucket, uploads, put, seq, now>>

CreateUpload(k) ==
  /\ status # "None" /\ Op
  /\ seq' = seq + 1
  /\ uploads' = uploads \cup {[key |-> k, id |-> seq + 1, init |-> now]}
  /\ UNCHANGED <<bucket, vers, put, now>>

\* The upload is completed or aborted by its client.
EndUpload(u) ==
  /\ u \in uploads /\ Op
  /\ uploads' = uploads \ {u}
  /\ UNCHANGED <<bucket, vers, put, seq, now>>

Tick ==
  /\ now < MaxTime
  /\ now' = now + 1
  /\ UNCHANGED <<bucket, vers, uploads, put, seq, ops, worker>>

ClientStep ==
  \/ CreateBucket \/ DeleteBucket \/ PutBucketVersioning \/ PutObjectLockConfig
  \/ \E c \in Configs \cup {{}} : PutLifecycle(c)
  \/ \E k \in Keys : (\E t \in Tags : PutObject(k, t)) \/ ClientDelete(k) \/ CreateUpload(k)
  \/ PutCommit
  \/ \E v \in vers : ClientDeleteVersion(v) \/ (\E t \in Tags : PutTagging(v, t)) \/ PutLegalHold(v)
  \/ \E u \in uploads : EndUpload(u)
  \/ Tick

Next == WorkerStep \/ ClientStep

Spec == Init /\ [][Next]_vars

-----------------------------------------------------------------------------
(* Properties *)

\* The worker holds a batch only where it applies one, of versions or of
\* uploads, and versions and uploads are the records of meta.
TypeOK ==
  /\ status \in {"None", "Off", "Enabled", "Suspended", "Locked"}
  /\ cfg \in Configs \cup {{}}
  /\ vers \subseteq Version /\ put \subseteq Version /\ uploads \subseteq Upload
  /\ seq \in Nat /\ now \in 0..MaxTime /\ ops \in 0..MaxOps
  /\ worker.stage \in {"idle", "scan", "apply", "uploads", "abort"}
  /\ worker.batch # <<>> => worker.stage \in {"apply", "abort"}
  /\ \A v, x \in vers : v.key = x.key /\ (v.seq = x.seq \/ (v.null /\ x.null)) => v = x

\* A step of apply, other than a refusal.
ApplyStep == Applying /\ worker'.batch = Tail(worker.batch) /\ vers' # vers

Same(v, x) == v.key = x.key /\ v.seq = x.seq

\* What the scan has not seen is safe: a step of the worker never removes a
\* version newer than the one it decided about, and never covers one by a
\* delete marker. IfSeq has to catch every overwrite since the scan.
SparesNewer ==
  [][ApplyStep =>
       LET above == Above(vers, Candidate.obj) IN
       /\ above \subseteq vers'
       /\ above # {} => vers' \subseteq vers \cup {x \in vers' : Same(x, Candidate.obj)}]_vars

\* A legal hold set at any time, after the scan too, keeps its version from
\* the worker.
HeldVersionsStay ==
  [][ApplyStep => \A v \in vers : v.locked => \E x \in vers' : Same(v, x)]_vars

\* What survives a step of the worker keeps what clients did to it since the
\* scan: a transition changes the storage class, and makes it colder.
KeepsClientChanges ==
  [][ApplyStep => \A v \in vers, x \in vers' :
       Same(v, x) => /\ x = [v EXCEPT !.class = x.class]
                     /\ x.class >= v.class]_vars

\* Nothing expires early: a current version expires for an enabled rule that
\* selects it, whose date has come, or whose days are over, rounding to midnight
\* included. The days of the rule must fit a time.Duration, which those of 292
\* years and more do not: Validate accepts them, and the version then expires at
\* whatever moment the product wraps around to.
NeverEarly ==
  [][ApplyStep /\ Candidate.act.kind = "ExpireCurrent" =>
       \E r \in worker.rules :
         /\ Matches(r, Candidate.obj)
         /\ \/ r.exp.kind = "days" /\ (Fits(r.exp.n) => now >= Candidate.obj.mod + r.exp.n * Day)
            \/ r.exp.kind = "date" /\ now >= r.exp.n]_vars

\* A decision was carried out.
Done(c) ==
  IF c.act.kind = "ExpireCurrent" THEN Above(vers', c.obj) # {} \/ c.obj \notin vers'
  ELSE c.obj \notin vers'

\* A pass no client interferes with does all that was due when it began,
\* where no lock forbids it: every page and every batch of uploads is
\* reached, and what the pass does to one version keeps it from no other.
PassCompletes ==
  [][worker.stage # "idle" /\ worker'.stage = "idle" =>
       /\ \A c \in worker.due : c.obj.locked \/ Done(c)
       /\ worker.dueUploads \cap uploads' = {}]_vars

\* "ExpireNoncurrentVersion permanently deletes a noncurrent version": the
\* version it deletes is not the key's current one.
NoncurrentOnly ==
  [][ApplyStep /\ Candidate.act.kind = "ExpireNoncurrentVersion"
     => Above(vers, Candidate.obj) # {}]_vars
=============================================================================
