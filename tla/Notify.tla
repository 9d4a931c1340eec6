------------------------------- MODULE Notify -------------------------------
(***************************************************************************)
(* Event delivery (internal/notify): the dispatcher, one target with a     *)
(* persistent queue and one with an in-memory queue.  Requests route their *)
(* event to the queues; workers deliver; Close drains; a process that died *)
(* or was stopped is started again on the queue directory it left.         *)
(*                                                                         *)
(* Abstracted: what an event says and which rules it matches (any set of   *)
(* targets); the webhook's backoff delays; a message is the name of its    *)
(* queue file, which grows with time as the file names do.                 *)
(***************************************************************************)
EXTENDS Integers, Sequences, FiniteSets

CONSTANTS
  Setups,      \* configurations: the targets events are routed to, the limit of
               \* the persistent queue, 0 for none, and the handlers at work
  Handlers,    \* the goroutines that call Handle
  MemWorkers,  \* the delivery goroutines of the in-memory target
  QueueSize,   \* capacity of the in-memory queue
  MaxRetries,  \* re-attempts of one webhook delivery
  MaxNames,    \* bound: messages named in a behaviour
  MaxRestarts, \* bound: crashes and stops in a behaviour
  MaxFaults    \* bound: failed file operations in a behaviour

ASSUME NotifyAssumption ==
  /\ Setups \subseteq [targets: SUBSET {"disk", "mem"}, limit: Nat, handlers: SUBSET Handlers]
  /\ MemWorkers # {}
  /\ QueueSize \in Nat \ {0} /\ MaxRetries \in Nat
  /\ MaxNames \in Nat /\ MaxRestarts \in Nat /\ MaxFaults \in Nat

VARIABLES
  setup,    \* the configuration, which does not change
  closing,  \* how far Close has got
  handler,  \* what each handler is doing
  ch,       \* the in-memory queue: its length is all that matters
  memw,     \* the in-memory target's workers
  disk,     \* the files of the queue directory, by name
  count,    \* diskQueue.count
  names,    \* last file name given out
  kick,     \* whether the wake-up channel holds a token
  worker,   \* the persistent target's worker
  restarts, faults,
  got,      \* history: messages the receiver got at least once
  refused,  \* history: messages given up: refused by the receiver or unreadable
  pushed,   \* history: messages whose push succeeded
  before,   \* history: messages pushed before a message was named
  failed,   \* history: the worker's last pass ended early
  uncounted \* history: files that a start left out of count

vars == <<setup, closing, handler, ch, memw, disk, count, names, kick, worker,
          restarts, faults, got, refused, pushed, before, failed, uncounted>>
history == <<got, refused, pushed, before, failed, uncounted>>

Names == 1..MaxNames

IdleHandler == [stage |-> "idle", todo |-> {}, name |-> 0]
IdleWorker == [stage |-> "wait", todo |-> {}, cur |-> 0, attempt |-> 0, last |-> FALSE]

\* The queues, the workers and Close are where their code can be; the count is
\* negative only after a start that could not read the directory.
TypeOK ==
  /\ setup \in Setups
  /\ closing \in {"open", "locking", "draining", "aborting", "stopped", "abandoned"}
  /\ handler \in [Handlers -> [stage: {"idle", "route", "push", "kick"},
                               todo: SUBSET setup.targets, name: Nat]]
  /\ ch \in 0..QueueSize
  /\ memw \in [MemWorkers -> {"wait", "send", "gone"}]
  /\ disk \subseteq Nat
  /\ count \in Int /\ (uncounted = {} => count >= 0)
  /\ names \in Nat
  /\ kick \in BOOLEAN
  /\ worker \in [stage: {"wait", "list", "pick", "send", "remove", "dec", "gone"},
                 todo: SUBSET Nat, cur: Nat, attempt: Nat, last: BOOLEAN]
  /\ restarts \in Nat /\ faults \in Nat
  /\ got \subseteq Nat /\ refused \subseteq Nat /\ pushed \subseteq Nat
  /\ before \in [Names -> SUBSET Nat]
  /\ failed \in BOOLEAN /\ uncounted \subseteq Nat

Init ==
  /\ setup \in Setups
  /\ closing = "open"
  /\ handler = [h \in Handlers |-> IdleHandler]
  /\ ch = 0
  /\ memw = [m \in MemWorkers |-> "wait"]
  /\ disk = {}
  /\ count = 0
  /\ names = 0
  /\ kick = TRUE
  /\ worker = IdleWorker
  /\ restarts = 0 /\ faults = 0
  /\ got = {} /\ refused = {} /\ pushed = {}
  /\ before = [x \in Names |-> {}]
  /\ failed = FALSE /\ uncounted = {}

\* d.closed and the closed channels; d.ctx
Closed == closing \notin {"open", "locking"}
Cancelled == closing \in {"aborting", "stopped", "abandoned"}

-----------------------------------------------------------------------------
(* Handle *)

Fault == faults < MaxFaults /\ faults' = faults + 1

\* A read lock is held from here on; Close waiting for the lock keeps new
\* readers out, and a closed dispatcher drops the event.
Handle(h, ts) ==
  /\ closing = "open"
  /\ handler[h].stage = "idle"
  /\ handler' = [handler EXCEPT ![h] = [IdleHandler EXCEPT !.stage = "route", !.todo = ts]]
  /\ UNCHANGED <<setup, closing, ch, memw, disk, count, names, kick, worker, restarts, faults, history>>

\* enqueue, in memory: a full queue drops the event.
EnqueueMemory(h) ==
  /\ handler[h].stage = "route" /\ "mem" \in handler[h].todo
  /\ ch' = IF ch < QueueSize THEN ch + 1 ELSE ch
  /\ handler' = [handler EXCEPT ![h].todo = @ \ {"mem"}]
  /\ UNCHANGED <<setup, closing, memw, disk, count, names, kick, worker, restarts, faults, history>>

\* Mutant: the limit is off by one.
FullLate == setup.limit > 0 /\ count > setup.limit

Full == setup.limit > 0 /\ count >= setup.limit

\* push under the queue's lock: the limit, the count and the name ...
PushName(h) ==
  /\ handler[h].stage = "route" /\ "disk" \in handler[h].todo
  /\ ~Full
  /\ names < MaxNames
  /\ names' = names + 1
  /\ count' = count + 1
  /\ handler' = [handler EXCEPT ![h] = [stage |-> "push", todo |-> @.todo, name |-> names']]
  /\ before' = [before EXCEPT ![names'] = pushed]
  /\ UNCHANGED <<setup, closing, ch, memw, disk, kick, worker, restarts, faults, got, refused, pushed, failed, uncounted>>

PushFull(h) ==
  /\ handler[h].stage = "route" /\ "disk" \in handler[h].todo
  /\ Full
  /\ handler' = [handler EXCEPT ![h].todo = @ \ {"disk"}]
  /\ UNCHANGED <<setup, closing, ch, memw, disk, count, names, kick, worker, restarts, faults, history>>

\* ... and outside it the file, which appears by a rename ...
PushRename(h) ==
  /\ handler[h].stage = "push"
  /\ disk' = disk \cup {handler[h].name}
  /\ pushed' = pushed \cup {handler[h].name}
  /\ handler' = [handler EXCEPT ![h].stage = "kick"]
  /\ UNCHANGED <<setup, closing, ch, memw, count, names, kick, worker, restarts, faults, got, refused, before, failed, uncounted>>

\* ... or cannot be written, and the count is taken back.
PushFails(h) ==
  /\ handler[h].stage = "push"
  /\ Fault
  /\ count' = count - 1
  /\ handler' = [handler EXCEPT ![h] = [stage |-> "route", todo |-> @.todo \ {"disk"}, name |-> 0]]
  /\ UNCHANGED <<setup, closing, ch, memw, disk, names, kick, worker, restarts, history>>

\* Mutant: the worker is woken only if it is seen waiting.
KickIfWaiting(h) ==
  /\ handler[h].stage = "kick"
  /\ kick' = (kick \/ worker.stage = "wait")
  /\ handler' = [handler EXCEPT ![h] = [stage |-> "route", todo |-> @.todo \ {"disk"}, name |-> 0]]
  /\ UNCHANGED <<setup, closing, ch, memw, disk, count, names, worker, restarts, faults, history>>

\* The worker is woken; a token that is there already will do.
Kick(h) ==
  /\ handler[h].stage = "kick"
  /\ kick' = TRUE
  /\ handler' = [handler EXCEPT ![h] = [stage |-> "route", todo |-> @.todo \ {"disk"}, name |-> 0]]
  /\ UNCHANGED <<setup, closing, ch, memw, disk, count, names, worker, restarts, faults, history>>

HandleReturn(h) ==
  /\ handler[h].stage = "route" /\ handler[h].todo = {}
  /\ handler' = [handler EXCEPT ![h] = IdleHandler]
  /\ UNCHANGED <<setup, closing, ch, memw, disk, count, names, kick, worker, restarts, faults, history>>

-----------------------------------------------------------------------------
(* The in-memory target: a message taken is delivered or lost *)

MemTake(m) ==
  /\ memw[m] = "wait" /\ ch > 0
  /\ ch' = ch - 1
  /\ memw' = [memw EXCEPT ![m] = "send"]
  /\ UNCHANGED <<setup, closing, handler, disk, count, names, kick, worker, restarts, faults, history>>

MemSend(m) ==
  /\ memw[m] = "send"
  /\ memw' = [memw EXCEPT ![m] = "wait"]
  /\ UNCHANGED <<setup, closing, handler, ch, disk, count, names, kick, worker, restarts, faults, history>>

\* The channel is closed and empty.
MemExit(m) ==
  /\ memw[m] = "wait" /\ Closed /\ ch = 0
  /\ memw' = [memw EXCEPT ![m] = "gone"]
  /\ UNCHANGED <<setup, closing, handler, ch, disk, count, names, kick, worker, restarts, faults, history>>

-----------------------------------------------------------------------------
(* The persistent target: runPersistent and drain *)

\* Everything but the worker and what its step names stays as it is.
WorkerFrame == UNCHANGED <<setup, closing, handler, ch, memw, names, restarts, pushed, before, uncounted>>

\* The select of runPersistent: the wake-up token, ...
WakeKick ==
  /\ worker.stage = "wait" /\ kick
  /\ kick' = FALSE
  /\ worker' = [worker EXCEPT !.stage = "list"]
  /\ WorkerFrame /\ UNCHANGED <<disk, count, faults, got, refused, failed>>

\* ... the retry interval, ...
WakeTick ==
  /\ worker.stage = "wait"
  /\ worker' = [worker EXCEPT !.stage = "list"]
  /\ WorkerFrame /\ UNCHANGED <<disk, count, kick, faults, got, refused, failed>>

\* Mutant: the worker leaves without a last pass.
WakeDoneLeaves ==
  /\ worker.stage = "wait" /\ Closed
  /\ worker' = [worker EXCEPT !.stage = "gone", !.last = TRUE]
  /\ WorkerFrame /\ UNCHANGED <<disk, count, kick, faults, got, refused, failed>>

\* ... or the end, which makes this pass the last one.
WakeDone ==
  /\ worker.stage = "wait" /\ Closed
  /\ worker' = [worker EXCEPT !.stage = "list", !.last = TRUE]
  /\ WorkerFrame /\ UNCHANGED <<disk, count, kick, faults, got, refused, failed>>

\* list
List ==
  /\ worker.stage = "list"
  /\ worker' = [worker EXCEPT !.stage = "pick", !.todo = disk]
  /\ failed' = FALSE
  /\ WorkerFrame /\ UNCHANGED <<disk, count, kick, faults, got, refused>>

\* A directory that cannot be read looks empty.
ListFails ==
  /\ worker.stage = "list"
  /\ Fault
  /\ worker' = [worker EXCEPT !.stage = "pick"]
  /\ failed' = TRUE
  /\ WorkerFrame /\ UNCHANGED <<disk, count, kick, got, refused>>

\* Mutant: the worker ends with its pass.
EndPassLeaves == worker' = [worker EXCEPT !.stage = "gone", !.todo = {}, !.cur = 0, !.attempt = 0]

\* The pass is over.
EndPass == worker' = [worker EXCEPT !.stage = IF worker.last THEN "gone" ELSE "wait",
                                    !.todo = {}, !.cur = 0, !.attempt = 0]

PassDone ==
  /\ worker.stage = "pick" /\ worker.todo = {}
  /\ EndPass
  /\ WorkerFrame /\ UNCHANGED <<disk, count, kick, faults, got, refused, failed>>

PassCancelled ==
  /\ worker.stage = "pick" /\ worker.todo # {} /\ Cancelled
  /\ EndPass
  /\ failed' = TRUE
  /\ WorkerFrame /\ UNCHANGED <<disk, count, kick, faults, got, refused>>

\* Mutant: the directory in the order it is read.
AnyEntry(x) == x \in worker.todo

\* The next entry, in the order of the names.
First(x) == x \in worker.todo /\ \A y \in worker.todo : x <= y

Load(x) ==
  /\ worker.stage = "pick" /\ First(x) /\ ~Cancelled
  /\ worker' = [worker EXCEPT !.stage = "send", !.todo = @ \ {x}, !.cur = x, !.attempt = 0]
  /\ WorkerFrame /\ UNCHANGED <<disk, count, kick, faults, got, refused, failed>>

\* An entry that cannot be read is discarded.
LoadFails(x) ==
  /\ worker.stage = "pick" /\ First(x) /\ ~Cancelled
  /\ Fault
  /\ worker' = [worker EXCEPT !.stage = "remove", !.todo = @ \ {x}, !.cur = x]
  /\ refused' = refused \cup {x}
  /\ WorkerFrame /\ UNCHANGED <<disk, count, kick, got, failed>>

\* Webhook.post: accepted, ...
PostAccepted ==
  /\ worker.stage = "send"
  /\ got' = got \cup {worker.cur}
  /\ worker' = [worker EXCEPT !.stage = "remove", !.attempt = 0]
  /\ WorkerFrame /\ UNCHANGED <<disk, count, kick, faults, refused, failed>>

\* ... refused for good, ...
PostRefused ==
  /\ worker.stage = "send"
  /\ refused' = refused \cup {worker.cur}
  /\ worker' = [worker EXCEPT !.stage = "remove", !.attempt = 0]
  /\ WorkerFrame /\ UNCHANGED <<disk, count, kick, faults, got, failed>>

\* ... or without a usable answer, the message received or not: another
\* attempt while there are any, ...
PostRetry(received) ==
  /\ worker.stage = "send" /\ worker.attempt < MaxRetries
  /\ got' = IF received THEN got \cup {worker.cur} ELSE got
  /\ worker' = [worker EXCEPT !.attempt = @ + 1]
  /\ WorkerFrame /\ UNCHANGED <<disk, count, kick, faults, refused, failed>>

\* Mutant: an entry is removed after its last attempt.
SendFailsRemoves(received) ==
  /\ worker.stage = "send"
  /\ got' = IF received THEN got \cup {worker.cur} ELSE got
  /\ worker' = [worker EXCEPT !.stage = "remove", !.attempt = 0]
  /\ WorkerFrame /\ UNCHANGED <<disk, count, kick, faults, refused, failed>>

\* ... until they or SendTimeout are used up or the context is cancelled: the
\* entry waits for the next pass, with those behind it.
SendFails(received) ==
  /\ worker.stage = "send"
  /\ got' = IF received THEN got \cup {worker.cur} ELSE got
  /\ failed' = TRUE
  /\ EndPass
  /\ WorkerFrame /\ UNCHANGED <<disk, count, kick, faults, refused>>

\* remove: first the file, then the count.
Remove ==
  /\ worker.stage = "remove"
  /\ disk' = disk \ {worker.cur}
  /\ worker' = [worker EXCEPT !.stage = "dec"]
  /\ WorkerFrame /\ UNCHANGED <<count, kick, faults, got, refused, failed>>

\* Mutant: the count goes down although the file is still there.
RemoveFailsCounted ==
  /\ worker.stage = "remove"
  /\ Fault
  /\ worker' = [worker EXCEPT !.stage = "dec"]
  /\ failed' = TRUE
  /\ WorkerFrame /\ UNCHANGED <<disk, count, kick, got, refused>>

\* The file cannot be removed: it stays, counted, and is sent again later.
RemoveFails ==
  /\ worker.stage = "remove"
  /\ Fault
  /\ worker' = [worker EXCEPT !.stage = "pick", !.cur = 0]
  /\ failed' = TRUE
  /\ WorkerFrame /\ UNCHANGED <<disk, count, kick, got, refused>>

Dec ==
  /\ worker.stage = "dec"
  /\ count' = count - 1
  /\ worker' = [worker EXCEPT !.stage = "pick", !.cur = 0]
  /\ WorkerFrame /\ UNCHANGED <<disk, kick, faults, got, refused, failed>>

-----------------------------------------------------------------------------
(* Close, crash and start *)

CloseFrame == UNCHANGED <<setup, handler, ch, memw, disk, count, names, kick, worker, restarts, faults, history>>

\* Close asks for the write lock ...
Close ==
  /\ closing = "open" /\ restarts < MaxRestarts
  /\ closing' = "locking"
  /\ CloseFrame

\* Mutant: the channels are closed without the lock.
CloseUnlocked ==
  /\ closing = "locking"
  /\ closing' = "draining"
  /\ CloseFrame

\* ... gets it once no handler reads, and closes the channels.
CloseLocked ==
  /\ closing = "locking"
  /\ \A h \in Handlers : handler[h].stage = "idle"
  /\ closing' = "draining"
  /\ CloseFrame

WorkersGone == worker.stage = "gone" /\ \A m \in MemWorkers : memw[m] = "gone"

CloseFinished ==
  /\ closing = "draining" /\ WorkersGone
  /\ closing' = "stopped"
  /\ CloseFrame

\* DrainTimeout
CloseTimeout ==
  /\ closing = "draining"
  /\ closing' = "aborting"
  /\ CloseFrame

\* The workers stop on the cancelled context, or are left behind.
CloseAborted ==
  /\ closing = "aborting"
  /\ closing' = "abandoned"
  /\ CloseFrame

\* openDiskQueue: what is on disk is counted; a directory that cannot be read
\* counts as empty.
Recount ==
  \/ count' = Cardinality(disk) /\ UNCHANGED <<faults, uncounted>>
  \/ Fault /\ count' = 0 /\ uncounted' = uncounted \cup disk

\* New: the queue is opened, and the worker kicked to replay it.
Start ==
  /\ closing' = "open"
  /\ handler' = [h \in Handlers |-> IdleHandler]
  /\ ch' = 0
  /\ memw' = [m \in MemWorkers |-> "wait"]
  /\ Recount
  /\ kick' = TRUE
  /\ worker' = IdleWorker
  /\ restarts' = restarts + 1
  /\ failed' = FALSE
  /\ UNCHANGED <<setup, disk, names, got, refused, pushed, before>>

\* The process has exited after Close and is started again.
Restart == closing \in {"stopped", "abandoned"} /\ Start

\* The process dies wherever it is and is started again.
Crash == restarts < MaxRestarts /\ closing \notin {"stopped", "abandoned"} /\ Start

-----------------------------------------------------------------------------

HandlerStep(h) ==
  \/ EnqueueMemory(h)
  \/ PushName(h)
  \/ PushFull(h)
  \/ PushRename(h)
  \/ PushFails(h)
  \/ Kick(h)
  \/ HandleReturn(h)

MemStep(m) == MemTake(m) \/ MemSend(m) \/ MemExit(m)

WorkerStep ==
  \/ WakeKick
  \/ WakeTick
  \/ WakeDone
  \/ List
  \/ ListFails
  \/ PassDone
  \/ PassCancelled
  \/ \E x \in worker.todo : Load(x) \/ LoadFails(x)
  \/ PostAccepted
  \/ PostRefused
  \/ \E received \in BOOLEAN : PostRetry(received) \/ SendFails(received)
  \/ Remove
  \/ RemoveFails
  \/ Dec

CloseStep == CloseLocked \/ CloseFinished \/ CloseTimeout \/ CloseAborted

Next ==
  \/ \E h \in setup.handlers, ts \in SUBSET setup.targets : Handle(h, ts)
  \/ \E h \in Handlers : HandlerStep(h)
  \/ \E m \in MemWorkers : MemStep(m)
  \/ WorkerStep
  \/ Close
  \/ CloseStep
  \/ Restart
  \/ Crash

Spec == Init /\ [][Next]_vars

\* Goroutines that can run do; a stopped server is started again; and a
\* receiver that is asked again and again accepts the message some time.
Fairness ==
  /\ \A h \in Handlers : WF_vars(HandlerStep(h))
  /\ WF_vars(WorkerStep)
  /\ WF_vars(CloseStep)
  /\ WF_vars(Restart)
  /\ SF_vars(PostAccepted)

FairSpec == Spec /\ Fairness

-----------------------------------------------------------------------------
(* Properties *)

\* The persistent queue is a durable queue that delivers at least once: a
\* message whose push succeeded is on disk until the receiver got it or it was
\* given up, only a message on disk is ever sent, and none comes back. No
\* crash, stop, retry, failed pass or failed file operation shows.
Queue == INSTANCE DurableQueue
           WITH Messages <- Names, accepted <- pushed, held <- disk, received <- got

ImplementsDurableQueue == Queue!QSpec

\* push counts before the file is there and remove after it is gone, so that no
\* race, failed file operation or crash takes the directory over the limit; only
\* a start that could not read the directory does, by the files it left out of
\* the count, and by no more than those.
QueueBounded == setup.limit > 0 => Cardinality(disk) <= setup.limit + Cardinality(uncounted)

\* No wake-up is lost: while the worker waits and its last pass did not fail,
\* a file in the queue has a token in the channel or a handler about to put
\* one there; the retry interval is not what delivers it.
NoLostWakeup ==
  worker.stage = "wait" /\ ~failed /\ disk # {} =>
    kick \/ \E h \in Handlers : handler[h].stage = "kick"

\* No handler is past the closed check when Close closes the channels: a
\* handler would send on a closed channel, and a late push would miss the
\* last pass.
NoSendOnClosed == Closed => \A h \in Handlers : handler[h].stage = "idle"

\* A Close that was not cut short leaves nothing in memory undelivered, and on
\* disk only what a failed delivery kept there.
DrainedOnClose == closing = "stopped" => ch = 0 /\ (disk = {} \/ failed)

\* A message whose push was over before another one was named is received,
\* or given up, before it: retries, failed passes and restarts keep that order.
EarlierFirst == \A x \in got \cap Names : before[x] \subseteq got \cup refused

\* Messages are first received in the order in which the queue named them.
DeliveredInOrder == [][\A x \in got' \ got : \A y \in got : y < x]_vars

\* Every queued message leaves the queue, whatever stops, crashes and
\* failures come first.
QueueDrains == \A x \in Names : x \in disk ~> x \notin disk
=============================================================================
