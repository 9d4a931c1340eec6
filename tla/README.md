# opens3: models, checks and proofs

opens3 is an S3-compatible object server in one process: a metadata database
(an embedded key/value store), a tree of data files, the object service over
both, the S3 and console HTTP layers above it, and background subsystems for
lifecycle rules, event notification and key management. This directory holds
TLA+ models of its stateful core and of the decisions it makes for its
clients, the TLC runs that check them and TLAPS proofs about them.
`PROJECT.json` is the machine-readable index: components, runs, mutants, the map
from definitions to source lines, findings, hazards and theorems.

## Inventory

| Component | State | Operations | What is hard | What makes it correct |
|---|---|---|---|---|
| key/value store (`internal/kv`) | one ordered map | serialised, durable transactions | nothing left above its contract | atomicity, durability |
| metadata (`internal/meta`) | bucket, version, null-pointer, upload and part records; the sequencer | record reads and writes inside a transaction, listing | two records per null version; sequences taken outside the transaction | pointer and version agree; the newest version is the latest |
| blob store (`internal/blob`) | data files per bucket | commit by rename, delete, remove all | no transaction spans files and records | every file a record names exists |
| object service (`internal/object`) | none of its own | bucket, object, Object Lock and multipart operations | read, write a file, decide in a transaction, remove files: other requests and crashes in between | no dangling or forgotten file, no record without bucket, locked versions survive, conditions mean what they say |
| S3 API (`internal/s3api`), policies (`internal/policy`) | none of its own; what a request has read | authentication, authorisation, bucket configuration, object requests, listings in pages, ranges | each step of a request is a transaction of its own: the bucket, the object, the policy it was decided by may be replaced before it acts | a request acts on what it was authorised for; no configuration is lost; a listing misses nothing and ends; the bytes returned are those asked for |
| start-up (`internal/server`) | none | unfinished bucket removals, extensions, shutdown | crash in the middle of a removal | serve only after clean-up |
| event notification (`internal/notify`) | memory and disk queues, counters, workers | handle, deliver, retry, close, replay | wake-ups, limits, order, shutdown against handlers, crash between delivery and removal | nothing accepted is lost; order; bounded; drains |
| master key ring (`internal/kms`, `internal/masterkey`, `opens3 master`) | key file, key-check value, wrapped records | rotate, rewrap, retire, server start | processes killed half-way, a key file without a lock | no key a record needs is ever lost |
| lifecycle worker (`internal/lifecycle`) | rules, cursor of a pass | evaluate, expire, abort | decisions on one snapshot applied to another | deletes only what still qualifies |
| identity (`internal/iam`, `internal/iamapi`) | users, groups, policies, keys and their back references | administration, evaluation | multi-record updates, sessions of deleted users | references are symmetric, deny wins |
| fsck (`internal/fsck`) | none; the report of a check | scan, repair, export | repairs decided on an earlier scan, interrupted anywhere, after any loss | repairs never remove live data, a finished one leaves a store a server can have written |
| TLS reload (`internal/server`) | the certificate in service and its files' identity | load, poll, signal, reload, renewal of a self-signed pair | two files replaced one by one, expiry, death half-way | a good certificate stays in service, and a change is noticed |
| console, admin API, CLI | sessions | thin layers over the object service and the identity store; a folder is deleted page by page | | |

## Modules

| Module | Models | Extended or used by |
|---|---|---|
| `ObjectStore` | object service, metadata records, data files, bucket authorisation, crash and restart | `MCObjectStore`, `ObjectStoreProofs` |
| `ObjectStoreProofs` | proofs about `ObjectStore`: types, data files, records and their bucket | `ObjectRecordProofs` |
| `ObjectRecordProofs` | proofs about `ObjectStore`: null pointers, Object Lock, authorised buckets, forgotten files | |
| `Notify` | dispatcher, disk queue, in-memory queue, webhook attempts, Close, restart | `MCNotify`, `BackgroundProofs` |
| `DurableQueue` | the abstract specification of a queue: at-least-once delivery | instantiated by `Notify` |
| `MasterKey` | key file, ring, rotate/rewrap/retire, server | `MCMasterKey`, `MCMaintenance`, `MaintenanceProofs` |
| `MaintenanceProofs` | proofs about `MasterKey`, and about `MCMaintenance` as a whole | |
| `Lifecycle` | lifecycle rules and the worker's pass over a bucket, against its clients | `MCLifecycle`, `MCMaintenance`, `LifecycleProofs` |
| `LifecycleProofs` | proofs about `Lifecycle` | `MaintenanceProofs` |
| `Fsck` | the offline check and repair of a data directory | `MCMaintenance`, `BackgroundProofs` |
| `Iam` | the identity store and the handlers that change it: users, keys, sessions, groups, policies | `MCIam`, `IamProofs` |
| `IamProofs` | proofs about `Iam` | |
| `Policy` | policy documents, ACLs, and the order in which a request is decided by them (operators only) | `Access`, `BucketConfig` |
| `Glob` | the wildcard matcher | `MCRequests`, `RequestProofs` |
| `Access` | object requests of the S3 API from authorisation to effect | `MCRequests`, `RequestProofs` |
| `BucketConfig` | bucket configuration requests | `MCRequests`, `RequestProofs` |
| `RequestProofs` | proofs about `Access`, `BucketConfig`, `Glob` and `ObjectRead` | |
| `Listing` | listings of objects, versions and uploads in pages; deletion of a folder | `MCRequests`, `ListingProofs` |
| `ListingProofs` | proofs about `Listing` | |
| `CertReload` | the TLS certificate in service | `MCRequests`, `BackgroundProofs` |
| `BackgroundProofs` | proofs about `CertReload`, `Fsck` and `Notify`, the refinement of `DurableQueue` included | |
| `ObjectRead` | range headers, the reader over parts and encrypted chunks, export of an object | `MCObjectRead`, `MCRequests`, `RequestProofs` |
| `MC*` | symmetry sets, rules, policies and layouts for the small instances in the `.cfg` files; `MCMaintenance` and `MCRequests` put components side by side | |

Operators whose comment begins with "Mutant" are variants of the definition
that follows them, each a plausible bug. No specification uses them; replacing
the definition by its variant must make TLC report the property named in
`PROJECT.json`.

### ObjectStore

The record variables are the namespaces of the database: `bucket` (b/),
`objects` (o/), `nullVer` (n/), `uploads` (u/, ui/) and `parts` (p/). `files`
is the data directory. Each goroutine of `Reqs` serves one request; its record
in `req` holds what the Go function keeps in local variables between two steps:
the expectation of the API layer (`expect`), the bucket it read (`seen`), the
file it wrote (`blob`) and the files it has still to remove (`del`).

One action is one transaction or one file operation, because only these are
atomic in the code. PutObject, for instance, is `Authorize` (the API layer
reads the bucket), `PutStart` (the service reads it again and validates),
`WriteBlob`, then `PutTx` or `TxFails`, and `DeleteBlob` for every file of the
version it replaced. A check that fails before anything was written is
`ReturnEarly`. The removal of a bucket is `DeleteBucket` or
`DeleteBucketForce` (the record is marked, uploads go), `RemoveFile` for every
file, `RemoveDone`, `DropRecord`; a crash leaves it where it is and
`FinishDeletes` takes it up again before `Serve`.

Identifiers (creation times, sequences, upload and file IDs) are drawn from
one clock. In the code they are random or time-based; what matters is that no
two are equal and that sequences grow, which is what the process guarantees
while its wall clock is not set back.

Abstractions: content, ETags, checksums, SSE and sizes (a request they reject
returns early), the order of parts, preconditions of deletes, and dates of
retention (`RetentionExpires` ends one at any time, which is every case).

### Notify

`handler` is a call of Handle with the read lock held; `PushName` is the part
of `push` under the queue's lock, `PushRename` the rest, `Kick` the wake-up.
The worker's stages follow `runPersistent` and `drain` line by line: `WakeKick`,
`WakeTick`, `WakeDone`, `List`, `Load`, the outcomes of a webhook attempt,
`Remove`, `Dec`. `Close` asks for the write lock, `CloseLocked` has it;
`Closed` and `Cancelled` are the flags and channels derived from how far Close
is. A message is identified with its file name. `setup` is what the server was
configured with (kinds of target, limit, handlers in use) and never changes, so
that one run covers several configurations. `Recount` is the count a start makes
of the directory, which is 0 when the directory cannot be read. The variables
`got`, `refused`, `pushed`, `before`, `failed` and `uncounted` (the files such a
start left out) are history and guard nothing.

`DurableQueue` says what the queue directory promises: a message that was
accepted is held until the receiver had it or it was refused, it may be received
more than once, and once let go it never comes back. `ImplementsDurableQueue`
checks that every step of `Notify` is a step of it or a stutter, with `accepted`
the messages pushed, `held` the files in the directory, `received` what the
receiver got, and `refused` what was answered with an error that is not retried.
Crashes, stops, failed removals and restarts are all stutters there.

### MasterKey

A record is the key that wraps it. `OpenRing` loads the key file without a
lock, `OpenDB` takes the database and compares the key-check value, `RotateFile`
is AddKey, `WalkCheck` and `WalkBatch` are the kinds and batches of the walk,
`Retire` removes keys. The server takes the database first (`ServerOpen`) and
then its key. Keys in the environment are kept by the operators and cannot be
lost; a file key is lost when no file holds it. `overlap` is history: whether a
command or a server has begun while another one was running.

### Lifecycle

`worker` is a pass over one bucket: `PassStart` is RunOnce reading the bucket
and its rules, `Collect` one page in a read transaction, `ExpireCurrent`,
`DeleteVersion` and `Transition` the cases of `apply`, each a transaction of its
own, `Skip` the refusals `failed` classifies, `CollectUploads`, `AbortUpload`
and `UploadsDone` the loop of `processUploads`. `Proposed` and `Best` are Eval:
every rule says at most one kind of action (`Says`), the highest precedence wins
and then the coldest class. `Collect` takes what is due on a page in listing
order (`InOrder`). Clients of the bucket are `ClientStep`. PutObject is
two actions, because its sequence and modification time are taken before its
transaction. The start is a new bucket that was given rules. Versions are
records in one set; `locked` is a legal hold, a retention that has not ended
acts the same; `Locked` as a status is versioning with Object Lock. The fields
`due` and `dueUploads` are history: what the pass had to do when it began, as
long as no client interferes. A `Duration` wraps around at `Span`, as the code's
does at 2^63 nanoseconds.

Abstractions: a rule's prefix and size filter is the set of keys it selects, a
storage class its rank; data files are in `ObjectStore`; errors of the database
end a pass and are not modelled.

### Iam

`users`, `groups`, `policies` and `keys` are the store's namespaces. Every
method of the store is one transaction, hence one action; what is interleaved
are requests. A request resolves its identity first (`Resolve`, `ResolveRoot`,
or `VerifyPassword` for a console login) and keeps that copy in `req`, as the
handlers do, while other requests change or delete the user, the key or the
policies it was made of. Creating a user is the one handler whose later calls
depend on the first: `CreateUserSteps`, `StepPassword`, `StepKey`, and in the
console `StepFails` and `Undo`. Other handlers that make several calls are so
many requests. Users manage their own keys in the console only
(`MayManageKeys`); everything else is an administrative action (`Administer`).

The fields `born` and `from` are history: which of the users of a name a record
is about, and the session policies of the credentials a key or a password was
obtained with.

Abstractions: a policy document says Allow or Deny about administrative
actions, so that resources and conditions do not matter; secrets are known to
whoever was given them; the checks the IAM API makes before it deletes a user, a
group or a policy are left out, since the admin API deletes without them; paths
and descriptions are data.

`KeysOwned` is about permanent keys and keys of a user's name: they go with the
user that had the name when they were stored. It is not about whom the request
meant; a key asked for by a user who is deleted and created again before
`CreateKey` runs is stored for the later one. Two things more that the
model shows and no run states. A session can be stored after its user was
deleted (`assumeRole` does not look the user up), and works again for a later
user of that name. And `putUser` cannot give an existing user the key of its name,
because `CreateKey` refuses an access key that is a user's name, its own
included, although `internal/admin/types.go:74` says "rotates (or creates)".

### Fsck

A behaviour starts with what a server leaves (`FInit`), loses or damages up to
`MaxLosses` records and files (`Lose`; a version, upload or part record that no
longer decodes goes to `broken`), is checked (`Check`, with or without
--verify, of all buckets or one) and repaired. `report` is what the check found;
`Repair` takes its problems one by one, each transaction and each file removal a
step, and may be stopped between any two and be run again.

### Policy and Glob

`Policy` has no state: `EvalCondition`, the evaluation of documents, `IsPublic`,
the canned ACLs and `Decide`, the order in which identity policies, the bucket's
policy, ACLs and the public access block are asked. Patterns are the sets of
names they match there; that the matcher computes such a set is what `Glob`
shows, one action per turn of its loops, against a definition without a loop
(`FitsFrom`): the text can be cut into stretches, one for each character of the
pattern. It holds of texts without a star; of others the matcher may say no too
often, never yes.

### Access

A request of `Reqs` goes from `Begin` through `AuthorizeBucket` and
`AuthorizeObject` (two reads) to its handler, which reads again and acts:
`ServeObject`, `PutObject` and `PutCommit`, `DeleteObject`, the keys of
`DeleteObjects`, tags, ACLs, restores, and the four steps of a copy, whose
source is authorised and read on its own. `Others` is everybody else: they put,
delete, tag, change policies, ownership and ACLs, and delete and recreate
buckets between any two of these steps. The request keeps the records it read
(`b`, `o`, `sb`, `so`) and the expectations the code passes on.

### BucketConfig

`Configure` is authorisation and the handler's checks by the record that was
read; `UpdateBucketConf` is the transaction, in which each handler changes its
own fields of the record that is there then. A request comes over the S3 API or
from the console (`via`): the console changes
versioning, tags, encryption and the policy with its own checks (`ConsoleOps`), leaves
`selfLock` as it is when it puts a policy (`PutPolicy`), and does not bind its transaction to the bucket it read. `CreateBucketConf` recreates a
deleted bucket, with any ownership, ACL and lock setting.

### Listing

Keys of the store are sequences ordered like byte strings, so that markers,
prefixes, delimiters, NUL separators and successors of prefixes are the code's.
A client asks for `NextPage` after `NextPage` while versions and uploads come
and go; a folder purge (`LeaveOne`, `DeleteOne`) deletes what each page names.
`Turn` is one turn of the loop that `list` and `ListUploads` have in common, and
`Meet` what it does with the record that the iterator finds; `Page` takes turns
until the loop is over, which needs at most one more than there are records.
`Whole` says without any loop what there is to list. `stayed` is history: what
was there all the time and must have been listed. `moved` is history, too: the
keys whose null version went while it was the marker, which are those whose
versions may be missed or repeated; `CutShort` says that a page ended with the
folder's placeholder (see the observations).

### CertReload

`ReadCert`, `ReadKey`, `Swap` and `ReloadFails` are one load, which the start,
the poll (`Poll`) and the signal (`ReloadTLS`) begin; `WriteKey` and `WriteCert`
are the renewal of a self-signed pair. An operator installs certificates and
keys in either order; the server may die between any two steps. An issue is
what a certificate file holds, `LeafOf` its leaf (a chain may be replaced
without it), which is what `Swap` compares; installed files may share a key, a
self-signed renewal always makes a new one (`KeyOf`). `torn` is history: the
certificate file was replaced between its load and the look at its identity.

### ObjectRead

`Get` is a range header or a part number turned into a reader, `ReaderStep` one
turn of `partsReader.Read` over the decrypting reader and the file; a byte is
its position, so that the property says which bytes come out. `DropFile` removes
a file under the reader, `length` says how much of each a failing disk has kept.
`ExportOne`, `ExportFinish` and `ExportStopped` are the export.

## Runs

| Run | Instance | Shows |
|---|---|---|
| `store_files` | 2 requests, API and internal, 2 part numbers, 5 identifiers, 1 fault | types, `NoDanglingBlob`, `RecordsHaveBucket`, `NullPointerExact`, `NoLeakedBlob`, `AuthorisedBucketOnly` through overwrites, parts, versioning changes, bucket removal and recreation, crash and failed removal |
| `store_locks` | 2 API requests, all retention modes, 4 identifiers | `LockNeedsVersioning`, `LockedVersionsSurvive` |
| `store_cas` | expected violation | a create-only write lands below a delete marker |
| `iam_store` | 2 requests, 2 user names, a group, a policy besides consoleAdmin, 2 session policies of which one permits administration, 2 generated keys, 3 operations | types, `ReferencesExact`, `RestrictionsInherited`, `KeysOwned` |
| `notify_queue` | disk queue with limits 1 and 2 and memory queue, 2 handlers; both at once with 1 handler; 2 messages, 1 retry, 1 restart, 1 file fault; fair | types, `QueueBounded`, `NoLostWakeup`, `EarlierFirst`, `DrainedOnClose`, `NoSendOnClosed`, the refinement `ImplementsDurableQueue`, `QueueDrains` |
| `notify_order` | expected violation | overlapping pushes are delivered out of order |
| `maintenance` | Lifecycle: 2 keys, a page per key, at most 3 client operations, 1 day in halves, a Duration of at most 2 days and a rule of 3, 2 rule sets. MasterKey: 2 processes, 2 environment keys and 1 file key or the other way round, 2 records in batches of 1, 1 crash. Fsck: a bucket with 2 keys and 2 files, or two buckets with one file each, 1 upload ID, 2 losses, 1 interruption | types; `SparesNewer`, `HeldVersionsStay`, `KeepsClientChanges`, `NeverEarly`, `PassCompletes`; `KeysKeptAlone` (as long as no two commands overlap), `RewrapComplete`; `RepairKeepsData`, `RepairRestores` |
| `master_lost` | expected violation, 2 processes, 1 crash | an interrupted rotation and an overlapping one lose a key |
| `lifecycle_current` | expected violation | a version that became current again is expired as noncurrent |
| `requests` | Access: 1 request followed, 2 buckets, 1 key, a user, root and an anonymous caller, 3 changes by others. BucketConfig: 3 requests over the S3 API and in the console, 2 at a time, 2 buckets of the name, 5 policies, 2 addresses. Listing: 3 keys, pages of 1 and 2, 1 change. Glob: patterns and texts up to 4 characters, of 3 with the star. CertReload: 4 issues of 3 leaves, 5 writes, 1 death. ObjectRead: 4 layouts of up to 3 parts, plain and encrypted | `ActedAsDecided`, `CopiedAsDecided`; `RootNotLockedOut`, `ClosedUnlessPublic`, `OwnFieldsOnly`, `ConfiguredAsDecided`; `ListedOnce`; `MatchExact`; `PollSeesChange`; `ReadExact` |
| `listing_uploads` | expected violation | a listing of uploads with a delimiter never ends |
| `read_ends` | expected violation, fair | reading a file that was cut short never ends |

`maintenance` and `requests` put components side by side: a variable `side` says
which of them a behaviour is about, the others stand still, and they share no
state.

Bounds. One bucket name and one key suffice for the ObjectStore properties:
no action relates two names or two keys, and deletion and recreation of the
same name is what the hazards are about. Two requests are what every race in
the code needs, since transactions are serialised and each request owns its
file. Five identifiers allow a bucket, an upload or a first version, an
overwrite and a recreated bucket in one behaviour. In Notify two messages
against a limit of one exceed the queue, and fit a limit of two; in MasterKey
two records in batches of one make every batch full and the last one empty, and
two file keys allow rotations on both sides of a crash. In
Lifecycle a batch of one makes every page end after a key, half days make
rounding visible, and three client operations are a version, the one above it
and the interference. In Iam three operations make a restricted credential, a
session from it and another from that one, or a group, its member and a change
of either. In Fsck two losses are a record and the file or record that depends
on it, and a second bucket is what a repair of the first must not touch. In Access one request is enough, because `Others` may do in between
whatever another request could have done; three changes replace, remove and
recreate. In BucketConfig the third request is restricted to what authorisation
depends on, and documents nobody reads to the first one; one of the two
addresses is named by a policy and one is not. In Listing the keys are
a folder's placeholder, an object in the folder and one behind both, so that a
page can end at, before and inside a common prefix. In ObjectRead chunks of two bytes and parts of up to
three put a range's ends at, before and behind every boundary of a chunk and of
a part.
Identifier, fault, restart and crash bounds are guards named `Max...`; the
deadlock check is off in the runs of ObjectStore, Iam, Access and its
neighbours and ObjectRead, because a behaviour that has used up its bounds stops
there; `notify_queue` and `maintenance` check for deadlock, the latter for the
processes that use master keys.

Fairness. In `notify_queue`, goroutines that can run do (`HandlerStep`,
`WorkerStep`, `CloseStep`; the retry ticker makes the worker's wait end), a
server that was stopped is started again, and a receiver that is asked again and
again accepts some time (strong fairness of `PostAccepted`). Without the last
assumption a receiver that always answers 5xx keeps the first entry, and with it
the queue, for ever, which is what the code intends. In `read_ends`, whoever
reads calls Read until it returns an end or an error (`ReaderStep`), which
io.Copy does. `PassCompletes` and `RewrapComplete` are action properties and
need none.

## Findings

* `store_cas`: PutObject takes its sequence before the transaction that checks
  If-None-Match, so that a create-only write made possible by a concurrent
  delete is stored below the delete marker. The manual promises create-only
  semantics.
* `notify_order`: queue files are named under the lock and renamed after it;
  overlapping pushes may be delivered in the other order, although the
  documentation says events for one target are delivered in order.
  `EarlierFirst` is what does hold: pushes that do not overlap keep their order.
* `master_lost`: rotate and retire load the key file before they lock the
  database and write that copy back.
* `lifecycle_current`: the worker deletes a version it saw as noncurrent by its
  ID and sequence only. A client that restores an object by removing the delete
  marker above it, between the scan and the deletion, loses it.
* `listing_uploads`: a page of ListUploads that ends with a common prefix is
  resumed before the keys below that prefix, and lists it again.
* `read_ends`: a plain data file that is shorter than its record makes
  partsReader.Read open the same part at the same offset for ever; the export
  that means to report such a file hangs at it.

Observations that no run states, met while modelling:

* Fsck: opening the data directory clears tmp/, so that the check for leftover
  temporary files finds none; Repair does not read every record again before it
  acts; records of a bucket of which neither a bucket, a version nor an upload
  record is left are not scanned, so that its pointers, index entries and parts
  stay. A version, upload or part record that does not decode is reported and
  then passed over: the file it names counts as an orphan, and so do the parts of
  an upload whose record does not decode, and Repair deletes them
  (`internal/fsck/fsck.go:326`, `:458`, `:487`), although the package comment
  (`:13`) says "Repair fixes only what cannot lose data". `RepairKeepsData` is
  about what readable records tell of.
* Notify: a start that cannot read the queue directory counts no files
  (`internal/notify/queue.go:35`, `:84`); the limit is then exceeded by as many as
  were there, and the counter falls below 0 when they are removed.
* Lifecycle: `expiresAt` (`internal/lifecycle/eval.go:92`) multiplies days in a
  time.Duration, which wraps around from 106 752 days on, and Validate sets no
  upper limit: such a rule may expire objects at once. `NeverEarly` is about
  rules whose days fit.
* Policy and configuration: `putBucketACL` builds the canned ACL for the caller,
  not the bucket's owner; replacing a named configuration at the limit is
  refused; `IsPublic` takes conditions that hold of requests without their key
  (IfExists, ForAllValues), and a principal type of Anonymous, for limits, and
  knows neither NotPrincipal nor that a range may be all addresses, so that a
  bucket it does not report may be open (`Overlooked`, `NamedBy`); two handlers whose checks read each
  other's fields (a block and a public policy, ownership and an ACL) can both
  pass and leave a combination neither would have accepted alone.
* Console: `putPolicy` (`internal/console/buckets.go:295`) leaves the SelfLock of
  an earlier policy put over the S3 API, so that a policy that denies root binds
  root there without a confirmation of its own, although the manual
  (`docs/manual/src/04-buckets-and-objects.md:105-112`) asks for one; in the
  console root is never bound, where the manual knows only the bucket's deletion
  through the admin API as a way out; it accepts Allow with NotPrincipal, which
  the S3 handler refuses; it does not bind its transactions to the bucket they
  were decided by; and the policy text that getBucketPolicy returns stays the
  old one (not modelled).
* Access: not every operation compares every expectation it could; what remains
  is what `ActedAsDecided` and `CopiedAsDecided` say. Deletes without a version
  ID, alone or in a batch, are outside them: a comment
  (`internal/s3api/object.go:265`) says that a delete is bound to the version
  that was authorised, which `delete.go:87-143` checks only of a delete with a
  version ID.
* Listing: a version listing whose null marker's version is deleted skips the
  other versions of that key, and one whose null marker's version is replaced
  repeats some of them (`ListedOnce` says that no other key is affected), also when the console deletes a folder with its
  versions, where a comment (`internal/console/folders.go:34`) says it
  "permanently deletes every version and delete marker"; an upload marker before
  the prefix yields an empty page; a folder whose placeholder object (its key is
  the prefix, with the delimiter at the end) is the last entry of a page of
  objects loses the rest of its entries, because `afterKey`
  (`internal/meta/store.go:354`) takes a marker that ends with the delimiter for
  a common prefix and skips everything below it.
* Glob: Match compares characters before it looks for a star, so that a star in
  the text (an object key may have one) uses up the pattern's: "*" does not match
  "*a", although its comment (`internal/policy/policy.go:330`) says "'*' matches
  any sequence".
* ObjectRead: a suffix range of an empty object is answered with 206.
* CertReload: the files' identity is taken after they were loaded, so that a
  certificate file replaced in between goes unnoticed until the next change; a
  new chain for the same leaf is taken for no change and never served
  (`internal/server/tlsreload.go:147`); a renewal writes the
  key and then the certificate, and a death in between leaves a pair that does
  not fit, though a comment (`internal/server/selfsigned.go:178`) says "both
  written atomically".

## Proofs

Eight modules hold the theorems; each extends the specification it is about, so
that what is proved is what the runs check. Every theorem is for any values of
the constants that satisfy the module's assumptions. The pattern is always the
same: an inductive invariant, that the initial states satisfy it, a lemma per
action that the action keeps it, and the property as a consequence of it or, for
an action property, of it and one step. `JInv`, `FsckInv` and `RInv` were checked
by TLC on the instances of their runs before they were proved (547 652, 1 116 665
and 116 882 states).

Assumptions. Bounds are naturals (positive where a batch or page of none would
make no sense) and switches Boolean. Beyond that: `StoreAssumption` asks for
sets that are not empty where the code needs an element; `NotifyAssumption` for
at least one in-memory worker, as `New` starts; `MasterAssumption` that
environment and file keys differ; `AccessAssumption` that anonymous callers have
no policies of their own; `DocumentsAssumption` that statements are Allow or Deny
and their conditions quantified in one of the three ways; `IamAssumption` that "root" is no
user and "consoleAdmin" no custom policy (`iam/store.go:364`, `:917`, `:961`
refuse them) and no name a generated key; `LifecycleAssumption` that configurations
are sets of rules; `FsckAssumption` that file IDs are positive;
`ReadAssumption` that chunks, what encryption adds to them, and buffers are not
empty; `ListingAssumption` that there are finitely many object keys, that none is
empty, and that no key and no prefix contains a NUL (`meta/keys.go` separates by
it). `GlobAssumption` asks for nothing but bounds.

| Module | Theorems |
|---|---|
| `ObjectStoreProofs` | `TypeCorrect`, `NoDangling`, `NoOrphanRecord` |
| `ObjectRecordProofs` | `NullPointers`, `LocksNeedVersioning`, `LockedSurvive`, `BoundToBucket`, `NoLeak` |
| `MaintenanceProofs` | `KeyTypeCorrect`, `NoKeyLost`, `WalkReachesAll`, `MaintenanceTypeCorrect` |
| `RequestProofs` | `RequestsAsDecided`, `CopiesAsDecided`, `ObjectsAtHome`, `NoLostUpdate`, `RightBucket`, `RootKeepsPolicy`, `NotPublicIsClosed`, `MatchIsExact`, `ReadIsExact` |
| `IamProofs` | `StoreTypeCorrect`, `ReferencesStayExact`, `NoRestrictionShed`, `KeysStayOwned` |
| `LifecycleProofs` | `LifecycleTypeCorrect`, `NewerSpared`, `HeldStay`, `ChangesKept`, `NothingEarly`, `PassesComplete` |
| `BackgroundProofs` | `PollHasLastWord`, `RepairsRestore`, `RepairsKeepData`; of Notify `TypeCorrect`, `ClosedIsQuiet`, `DirectoryBounded`, `WakeupsKept`, `CloseDrains`, `PushOrderKept`, `QueueRefinement` |
| `ListingProofs` | `ListingComplete` |

### ObjectStore: files and records

`NoDanglingBlob` is not inductive: a step that removes a file is safe only
because nobody else owns the file. `IInv` adds

* `Stamped`: every identifier in use was handed out, so that a new one is new;
* `OneOwner`: a file belongs to one version, one part or one request;
* `OneRemover`: a bucket directory is removed only while its record is marked,
  by one request;
* `RecordsHaveBucket`: nothing is recorded under a bucket that is absent or
  marked, so that RemoveAll meets no file a record names;
* `WrittenFileKept`: the file of a write whose transaction can still succeed is
  there. This is where `SameBucket` is needed: a bucket that was removed and
  recreated while the writer was on its way has lost the file, and its creation
  time tells.

The proof has a lemma per action, three of them about what most actions have
in common: a request moves on and nothing else changes (`QuietStep`), a version
is put (`PutVersionStep`), records only go (`ShrinkStep`).

`ObjectRecordProofs` adds to `IInv` (together `LInv`)

* `PointerExact`: `NullPointerExact` in a form that a step can be checked
  against, from the version and from the pointer;
* `Sequenced`: a sequence names one version, and that of a write on its way is
  not taken. Without it a put could replace another version than the null one;
* `LockEnabled` and `AllDecided`: Object Lock, once on, stays on together with
  versioning, and what a request found out about its bucket (that it has Object
  Lock, or the upload) is true as long as it is the same bucket. Hence a lock
  that was validated before the file was written is still allowed in the
  transaction, which does not look again;
* `MarkersFree` (a delete marker is never locked) and `AllTidy` (a request
  holds files only in the stages where it has something to do with them).

`LockedSurvive` and `BoundToBucket` are about single steps and follow from `LInv`
by action. For `NoLeak` a second invariant, `Filed`, follows every file from
its writer to the record and to whoever removes it, as long as nothing crashed.

### Notify

`NInv` says what the files of the queue directory, the counter, the wake-up
channel and the worker have to do with each other:

* `CountExact`: `count` is the number of files, of names that have no file yet,
  and of a file that is removed but not yet subtracted, less at most the files
  that a start could not count; so a limit checked against the counter is a limit
  of the directory, up to those;
* `Announced`: a pass that does not fail misses only files for which a wake-up
  is on its way, and the last pass after Close misses none. `NoLostWakeup` and
  `DrainedOnClose` are what is left of it when the worker waits or is gone;
* `InHand` and `Kept`: only the worker removes files, and only those delivered
  or given up. This is the content of the refinement;
* `PassOrder`: what was pushed before an entry of the pass was received, given
  up, or is in the pass in front of it. `EarlierFirst` alone says nothing about
  entries that are still on their way;
* `Named`, `LeaveLast`, `StoppedAfterWorkers`: names are given out once, workers
  leave only after Close, and Close ends with them.

`QueueRefinement` takes `NInv` for granted in every step, and shows that pushing
is `Accept`, an accepted or refused delivery `Receive` or `Refuse`, the removal
of the file `Forget`, and everything else, crash and restart included, a
stutter.

### MasterKey

`KInv` follows a walk over the records: behind its position nothing is under an
old key (`Walked`), for any number of records and any batch size, provided the
database is locked by the process that walks (`LockHeld`). `RewrapComplete` is
what this says at the last batch. `Alone` is the invariant behind
`KeysKeptAlone`: while no two processes have overlapped, the only one that is
not idle has the key file in hand that is on disk, and a ring without keys that
are nowhere else. `RingsOK` and `IdleExact` support both.

`MaintenanceTypeCorrect` is about the three kinds of maintenance side by side:
every step of one is a stutter of the others, so that `LcInv` and `KInv` hold
together.

### Access and BucketConfig

`AInv` says of every request that it was decided by the records it carries
(`Decided`), that it is where its operation gets (`Staged`), and of the source
of a copy that a bucket of its name that is created from now on is younger than
what was read (`Traced`); and of the store that a version belongs to the bucket
it is in and that creation times are not used twice (`StoreOK`, a theorem of its
own). That the transaction finds the expected bucket or version then means that
the decision is about what it changes.

`ConfInv` says that a stored policy passed ValidateBucketPolicy (both writers
call it), that a request still on its way carries one that did, and that a
record has its self lock only if the last policy put over the S3 API was
confirmed; the console does not look at it.
`NotPublicIsClosed` goes through the evaluation: a policy that `IsPublic` does
not report, that is none of those it overlooks, and whose conditions name no
address of the caller's, allows an anonymous request nothing.

### Iam

`JInv` is the conjunction of types, exact references, owned keys and what the
requests carry. The last part is what inheritance needs: the identity of a
request that has created a user and goes on with its password or key is without
restrictions still, as is a login; a console session has no parents; and the
root account never has a session policy.

### Lifecycle

`LcInv` says that no two versions share a sequence and no key has two null
versions, that a write on its way has a sequence nobody else has, that only a
bucket with Object Lock has held versions, and that every decision in the batch
is one that the rules of the pass asked for at the time of its scan. The first
four action properties follow step by step.

`PassesComplete` says of the last step of a pass what became of everything that
was due at its first. `PassInv` follows each such decision through the pages: it
was carried out, or is in the batch, or concerns a key that the scan has still to
come to, and the scan will find it as it was, because the pass leaves the keys
ahead alone (`Pending`). No decision in the batch undoes another: those about a
key that is to expire are about older versions. Uploads that are due are in the
batch, or the batch was full and another one follows (`PendingUpload`). When the
pass ends, nothing is ahead and the batch is empty.

### Glob

`GInv` says what the two positions and the remembered star mean. `Sound`: if the
rest of the pattern fits the rest of the text from here, or from the last star
on, the whole fits; no assumption on the text is needed. `Complete`, of texts
without a star: if the whole fits, then it does from here on, or with the last
star taking more text than it has so far. Stars before the last one can be
forgotten, because whatever fits with an earlier one stretched further fits with
the last one stretched instead (`StretchTakes` and the lemmas before it).

### Listing

An entry stands for a block of the store's keys: the versions of an object, one
version or upload, or all that begins with a common prefix. Its block begins at
`Block(e)`, and the loop goes on at `Past(e)`. The proof goes up in four steps.

1. `Before` is a total order, and what lies between a prefix and its successor is
   what begins with it (`BetweenPrefix`). Because of the NUL no object's keys lie
   among another's (`ObjectPrefixes`, `StoreKeys`). Hence two blocks are the same
   or apart (`BlocksApart`), and a place at the prefix or behind an entry cuts
   none (`Boundary`).
2. `ScanOK` is the invariant of the loop: its entries are in the order of their
   blocks, between where the page started and where it seeks to, and what is to
   be listed in that stretch is among them; if the loop ended without having been
   cut, nothing is left behind it. Every turn ends the loop or leaves fewer
   records ahead, so the turns of `Page` suffice (`PageIs`).
3. `StartIs`: the marker of the last entry takes the next page to exactly where
   the last one ended; that of a placeholder, behind the prefix; that of a null
   version, to where the key's null version is now, or behind the key if there is
   none (`Place`). The last two are places that cut no block either, and
   `SameSide` shows that whatever place among a key's versions is taken instead
   of another, no entry of another key is passed.
4. `ListInv` says of the client that some place has been reached (`ReadTo`): all
   it was given lies before it, each entry once; what was there all the time and
   was not given lies behind it and is there still, but for the keys that moved;
   and what a purge is about to
   delete is none of that (`Spared`, `TodoOK`). `VersionsOK`, that sequences are
   not used twice, is what keeps two versions' blocks apart.

`Resumed` gives a change between two pages its new place. `ListedOnce` is what
this says when the last page was not cut.

### ObjectRead

`BaseIs` shows that the recursive `Base` adds up the parts; `ResolveIs`, that the
start and the count computed from a range header, a suffix or a part number are
the first byte and the number of bytes that the request names. `RInv` then says
where a reader is: what it has returned is a run of bytes from that start, and
its offset and its remainder are what is left of it (`GivenOK`); an open part is
at that offset, what was decrypted begins there, and the next chunk to be read
begins in the file where the next byte's chunk does (`OnPart`). `ChunkReadWhole`
is the arithmetic behind it: the stretch of a file that openPart asks for always
ends with a chunk, so that a chunk that does not open means a file that was cut
short. An error is therefore never the reader's own doing, and an exported file
is the whole object.

### CertReload and Fsck

`CertInv`: the certificate file has the identity of a write so far (`WritesOK`), a
load during which no file changed has in hand what the file holds (`LoadOK`), and
what is served has the leaf that the file holds while that has the identity it was
loaded under, unless history says that it changed under the load (`ServedOK`).

`FsckInv` holds from the store a server leaves through any losses and any
interrupted repairs. `RecordsAgree` is what losing records cannot break (one
null version and one pointer per key, one owner per file, no upload in a bucket
under removal). `Justified`: what the report calls superfluous still is when its
turn comes, whatever the repair has done in the meantime; `RepairKeepsData`
rests on it. `Listed`: a repair of the whole directory has every defect there
still is on its list, those that its own steps make included; at its end the
list is empty, and that is `RepairRestores`.

### Only model-checked

* `QueueDrains`: liveness under fairness, out of the prover's reach.
* The expected violations, of course, are counterexamples and not theorems.

## Plan

The modules above cover the parts that hold state, and every invariant that a run
checks is proved. What is left are the four hazards in `PROJECT.json` that no
property covers: a wall clock set back over a restart, shard directories removed
under a commit, sessions of deleted users, and the console's rollback of a user
created twice.

## Not modelled

Request signatures (digests over formatted text, without state of their own);
ciphers, key derivation and checksums; parsing of HTTP, XML and JSON, and
formatting; the wording of errors; the command line; the listener that tells TLS
from plain connections, and HSTS; shard directories and temporary files;
metrics and logs; the console's front end, forms and archives. These are
byte transformations or input and output: TLC would only compare a
transliteration with itself.
