------------------------------ MODULE Listing ------------------------------
(***************************************************************************)
(* Listings in pages (meta/store.go, s3api/bucket.go, s3api/multipart.go):  *)
(* a client asks for page after page, each in a transaction of its own and  *)
(* each resumed from the marker the last one returned, while versions and   *)
(* uploads come and go. The web console deletes a folder in the same way    *)
(* (console/folders.go): it deletes what a page lists before it asks for    *)
(* the next one.                                                            *)
(*                                                                         *)
(* Abstracted: a key is a sequence of characters, numbers from 1 on, of     *)
(* which Slash is the delimiter; what a record says besides its key, its    *)
(* sequence and whether it is a delete marker or the null version.  The     *)
(* bucket's versioning is enabled or suspended, as each request finds.  A key *)
(* of the store is the sequence that the code builds: the object's key, a   *)
(* NUL, and one symbol for the complemented sequence number (meta/keys.go). *)
(***************************************************************************)
EXTENDS Integers, Sequences, FiniteSets

CONSTANTS
  ListKeys,    \* object keys in use
  Prefixes,    \* prefixes asked for
  PageSizes,   \* max-keys asked for
  ListKinds,   \* what is listed: "objects", "versions" or "uploads"
  Collapsed,   \* those of them that are listed with a delimiter, too
  Purges,      \* those of them that a folder is deleted by
  MaxChanges,  \* bound: puts and deletes while a listing is read
  MaxPages     \* bound: pages of one listing

Slash == 1
Nul == 0

ASSUME ListingAssumption ==
  /\ ListKeys \cup Prefixes \subseteq Seq(Nat \ {Nul}) /\ <<>> \notin ListKeys /\ IsFiniteSet(ListKeys)
  /\ PageSizes \subseteq Nat \ {0}
  /\ Collapsed \subseteq ListKinds /\ ListKinds \subseteq {"objects", "versions", "uploads"}
  /\ Purges \subseteq {"objects", "versions"}
  /\ MaxChanges \in Nat /\ MaxPages \in Nat

VARIABLES
  records, \* the version records
  uploads, \* the upload records
  changes, \* puts and deletes so far
  pager,   \* the client: its options, the marker, and what it has been given
  stayed,  \* history: the entries of the listing there ever since it began
  moved    \* history: the keys whose null version was deleted or replaced when a page had
           \* ended with it

lvars == <<records, uploads, changes, pager, stayed, moved>>

-----------------------------------------------------------------------------
(* Keys of the store *)

HasPrefix(k, p) == Len(p) <= Len(k) /\ \A i \in 1..Len(p) : k[i] = p[i]

\* The order of byte strings: equal up to a place where a ends or is smaller.
Before(a, b) ==
  \E i \in 1..Len(b) :
    /\ i <= Len(a) + 1
    /\ \A j \in 1..(i - 1) : a[j] = b[j]
    /\ i <= Len(a) => a[i] < b[i]

\* kv.PrefixSuccessor, of a prefix that is not empty
PrefixSuccessor(p) == [p EXCEPT ![Len(p)] = @ + 1]

\* Sequences 1 and 2 are in use before the listing; every change and every
\* deletion of the console's takes another.
MaxSeq == 2 + 2 * MaxChanges + 2 * Cardinality(ListKeys)
NewSeq == 3 + changes + pager.deleted

\* ObjectPrefix and ObjectKey
ObjectPrefix(key) == key \o <<Nul>>
ObjectKey(key, seq) == ObjectPrefix(key) \o <<MaxSeq - seq>>
RecordKey(v) == ObjectKey(v.key, v.seq)

\* UploadKey: the upload's ID is in the place of the sequence.
UploadKey(key, id) == ObjectPrefix(key) \o <<id>>

-----------------------------------------------------------------------------
(* One page, of the records R or the uploads U *)

\* hasLiveKey; the latest version of a key has the greatest sequence.
HasLiveKey(R, prefix) ==
  \E v \in R : /\ HasPrefix(v.key, prefix) /\ ~v.marker
               /\ \A w \in R : w.key = v.key => w.seq <= v.seq

\* What delimiter collapsing makes of a key: its common prefix, or nothing.
CommonPrefix(key, opt) ==
  LET at == {i \in Len(opt.prefix) + 1 .. Len(key) : key[i] = Slash} IN
  IF ~opt.delimiter \/ at = {} THEN <<>>
  ELSE SubSeq(key, 1, CHOOSE i \in at : \A j \in at : i <= j)

\* Mutant: the keys below a common prefix are not skipped.
AfterKeyOnly(marker, delimiter) == PrefixSuccessor(ObjectPrefix(marker))

\* afterKey
AfterKey(marker, delimiter) ==
  IF delimiter /\ marker # <<>> /\ marker[Len(marker)] = Slash
  THEN PrefixSuccessor(marker)
  ELSE PrefixSuccessor(ObjectPrefix(marker))

NullOf(R, key) == {v \in R : v.key = key /\ v.null}

\* Where list starts. A version marker is 0 for none, or Null for the null
\* version, whose place is looked up again.
Null == -1

ListStart(R, opt, m) ==
  IF m.key = <<>> \/ Before(m.key, opt.prefix) THEN opt.prefix
  ELSE IF opt.kind = "objects" \/ m.version = 0 THEN AfterKey(m.key, opt.delimiter)
  ELSE IF m.version # Null THEN ObjectKey(m.key, m.version) \o <<Nul>>
  ELSE IF NullOf(R, m.key) # {}
       THEN (CHOOSE k \in {RecordKey(v) : v \in NullOf(R, m.key)} : TRUE) \o <<Nul>>
  ELSE PrefixSuccessor(ObjectPrefix(m.key))

\* An entry: a common prefix, an object (its key), a version, a null version
\* (which has that name for a version ID) or an upload.
Entry(what, key, id) == [what |-> what, key |-> key, id |-> id]
Marker(key, version) == [key |-> key, version |-> version]

\* The entry that a record or an upload x stands for.
EntryOf(opt, x) ==
  LET cp == CommonPrefix(x.key, opt) IN
  IF cp # <<>> THEN Entry("prefix", cp, 0)
  ELSE CASE opt.kind = "objects" -> Entry("object", x.key, 0)
         [] opt.kind = "versions" -> Entry(IF x.null THEN "null" ELSE "version", x.key, x.seq)
         [] opt.kind = "uploads" -> Entry("upload", x.key, x.id)

\* The marker for the page after an entry, and where the loop goes on after it.
MarkerOf(e) == Marker(e.key, IF e.what = "null" THEN Null ELSE e.id)

Past(e) ==
  CASE e.what = "prefix" -> PrefixSuccessor(e.key)
    [] e.what = "object" -> PrefixSuccessor(ObjectPrefix(e.key))
    [] e.what = "upload" -> UploadKey(e.key, e.id) \o <<Nul>>
    [] e.what \in {"version", "null"} -> ObjectKey(e.key, e.id) \o <<Nul>>

\* Delete markers, and what holds nothing but deleted keys, are no objects.
Hidden(R, opt, x) ==
  LET cp == CommonPrefix(x.key, opt)
  IN opt.kind = "objects" /\ IF cp # <<>> THEN ~HasLiveKey(R, cp) ELSE x.marker

\* list and ListUploads: what their loop does with the x that it meets.
Meet(R, opt, scan, x) ==
  LET e == EntryOf(opt, x) IN
  IF Hidden(R, opt, x) THEN [scan EXCEPT !.seek = Past(e)]
  ELSE IF Len(scan.entries) >= opt.max THEN [scan EXCEPT !.over = TRUE, !.truncated = TRUE]
  ELSE [scan EXCEPT !.seek = Past(e), !.entries = Append(@, e), !.next = MarkerOf(e)]

\* Where ListUploads starts.
UploadStart(opt, m) ==
  IF m.key = <<>> THEN opt.prefix
  ELSE IF m.version # 0 THEN UploadKey(m.key, m.version) \o <<Nul>>
  ELSE PrefixSuccessor(ObjectPrefix(m.key))

Start(R, opt, m) == IF opt.kind = "uploads" THEN UploadStart(opt, m) ELSE ListStart(R, opt, m)

Items(R, U, opt) == IF opt.kind = "uploads" THEN U ELSE R
KvKey(opt, x) == IF opt.kind = "uploads" THEN UploadKey(x.key, x.id) ELSE RecordKey(x)

\* One turn of the loop: Seek to the first key from there on, and stop unless
\* there is one and it has the prefix.
Turn(R, U, opt, scan) ==
  LET ahead == {x \in Items(R, U, opt) : ~Before(KvKey(opt, x), scan.seek)}
      first == CHOOSE x \in ahead : \A y \in ahead : ~Before(KvKey(opt, y), KvKey(opt, x))
  IN IF scan.over THEN scan
     ELSE IF ahead = {} \/ ~HasPrefix(KvKey(opt, first), opt.prefix) THEN [scan EXCEPT !.over = TRUE]
     ELSE Meet(R, opt, scan, first)

\* The page: where the iterator seeks to next, the entries so far, and the marker
\* for the next page. The handlers hand it on: listObjectsV1, listObjectsV2,
\* listObjectVersions, listMultipartUploads.
Page(R, U, opt, m) ==
  LET turns == Cardinality(Items(R, U, opt)) + 1
      scan[i \in 0..turns] ==
        IF i = 0
        THEN [seek |-> Start(R, opt, m), entries |-> <<>>, over |-> FALSE, truncated |-> FALSE, next |-> m]
        ELSE Turn(R, U, opt, scan[i - 1])
  IN scan[turns]

-----------------------------------------------------------------------------

NoMarker == Marker(<<>>, 0)

\* The listing that has not begun.
NoListing == [pc |-> "idle", opt |-> <<>>, at |-> NoMarker, pages |-> <<>>,
              purge |-> FALSE, todo |-> <<>>, deleted |-> 0]

\* A key has no version, one, a null version, a marker, or two versions.
InitialVersions(key) ==
  LET v(seq, marker, null) == [key |-> key, seq |-> seq, marker |-> marker, null |-> null]
  IN {{}, {v(1, FALSE, FALSE)}, {v(1, FALSE, FALSE), v(2, FALSE, TRUE)},
      {v(1, FALSE, TRUE), v(2, TRUE, FALSE)}}

LInit ==
  /\ \E f \in [ListKeys -> UNION {InitialVersions(key) : key \in ListKeys}] :
       /\ \A key \in ListKeys : f[key] \in InitialVersions(key)
       /\ records = UNION {f[key] : key \in ListKeys}
  /\ uploads \in SUBSET {[key |-> key, id |-> 1] : key \in ListKeys}
  /\ records = {} \/ uploads = {}
  /\ changes = 0
  /\ pager = NoListing
  /\ stayed = {} /\ moved = {}

\* What there is to list: an object that its latest version has not deleted, a
\* version, an upload, or the common prefix of such.
Latest(R, v) == \A w \in R : w.key = v.key => w.seq <= v.seq

Whole(R, U, opt) ==
  {EntryOf(opt, x) : x \in
     {y \in Items(R, U, opt) :
        HasPrefix(y.key, opt.prefix) /\ (opt.kind = "objects" => Latest(R, y) /\ ~y.marker)}}

\* Between pages, what is listed changes.
Changing(uploaded) ==
  /\ pager.pc = "paging" /\ uploaded = (pager.opt.kind = "uploads")
  /\ changes < MaxChanges

Store(R, U) ==
  /\ records' = R /\ uploads' = U /\ changes' = changes + 1
  /\ UNCHANGED pager
  /\ stayed' = stayed \cap Whole(R, U, pager.opt)

\* What a put or a delete without a version ID leaves; null in a suspended
\* bucket, where it replaces the null version there was.
WithRecord(key, marker, null) ==
  LET v == [key |-> key, seq |-> NewSeq, marker |-> marker, null |-> null]
  IN {w \in records : ~(null /\ w \in NullOf(records, key))} \cup {v}

PutRecord(key, marker, null) ==
  /\ Changing(FALSE)
  /\ Store(WithRecord(key, marker, null), uploads)
  /\ moved' = moved \cup {k \in {key} : null /\ NullOf(records, k) # {} /\ pager.at = Marker(k, Null)}

RemoveRecord(v) ==
  /\ Changing(FALSE)
  /\ Store(records \ {v}, uploads)
  /\ moved' = moved \cup {k \in {v.key} : v.null /\ pager.at = Marker(k, Null)}

PutUpload(key) ==
  /\ Changing(TRUE)
  /\ Store(records, uploads \cup {[key |-> key, id |-> NewSeq]})
  /\ UNCHANGED moved

RemoveUpload(u) ==
  /\ Changing(TRUE)
  /\ Store(records, uploads \ {u})
  /\ UNCHANGED moved

\* The client starts a listing ...
StartListing(kind, prefix, delimiter, max, purge) ==
  LET opt == [kind |-> kind, prefix |-> prefix, delimiter |-> delimiter, max |-> max] IN
  /\ pager.pc = "idle"
  /\ kind = "uploads" => records = {}
  /\ kind # "uploads" => uploads = {}
  /\ delimiter => kind \in Collapsed
  /\ purge => kind \in Purges /\ prefix # <<>> /\ ~delimiter
  /\ pager' = [pager EXCEPT !.pc = "paging", !.opt = opt, !.purge = purge]
  /\ stayed' = Whole(records, uploads, opt)
  /\ UNCHANGED <<records, uploads, changes, moved>>

\* ... and asks for pages until one is not truncated.
NextPage ==
  LET page == Page(records, uploads, pager.opt, pager.at) IN
  /\ pager.pc = "paging" /\ pager.todo = <<>> /\ Len(pager.pages) < MaxPages
  /\ pager' = [pager EXCEPT !.at = page.next, !.pages = Append(@, page.entries),
                            !.pc = IF page.truncated THEN "paging" ELSE "done",
                            !.todo = IF pager.purge THEN page.entries ELSE <<>>]
  /\ UNCHANGED <<records, uploads, changes, stayed, moved>>

\* deletePrefix, for the entries of a page one by one. deleteOne is refused (by
\* a policy or by the object's lock), or there is nothing to delete any more ...
LeaveOne ==
  /\ pager.todo # <<>>
  /\ pager' = [pager EXCEPT !.todo = Tail(@)]
  /\ UNCHANGED <<records, uploads, changes, stayed, moved>>

\* ... or deletes the listed version for good, or the object by a delete marker.
DeleteOne(null) ==
  LET e == Head(pager.todo) IN
  /\ pager.todo # <<>>
  /\ records' = CASE e.what = "object" -> WithRecord(e.key, TRUE, null)
                  [] e.what = "version" -> {v \in records : v.key # e.key \/ v.seq # e.id}
                  [] e.what = "null" -> records \ NullOf(records, e.key)
  /\ pager' = [pager EXCEPT !.todo = Tail(@), !.deleted = @ + 1]
  /\ moved' = moved \cup {k \in {e.key} : e.what = "null" /\ pager.at = Marker(k, Null)}
  /\ UNCHANGED <<uploads, changes, stayed>>

LNext ==
  \/ \E key \in ListKeys, marker, null \in BOOLEAN : PutRecord(key, marker, null)
  \/ \E v \in records : RemoveRecord(v)
  \/ \E key \in ListKeys : PutUpload(key)
  \/ \E u \in uploads : RemoveUpload(u)
  \/ \E kind \in ListKinds, prefix \in Prefixes, delimiter, purge \in BOOLEAN,
        max \in PageSizes : StartListing(kind, prefix, delimiter, max, purge)
  \/ NextPage
  \/ LeaveOne
  \/ \E null \in BOOLEAN : DeleteOne(null)

LSpec == LInit /\ [][LNext]_lvars

-----------------------------------------------------------------------------
(* Properties *)

\* The entries a client has been given, as <<page, index>> pairs.
Given == UNION {{<<p, i>> : i \in DOMAIN pager.pages[p]} : p \in DOMAIN pager.pages}

GivenAt(x) == pager.pages[x[1]][x[2]]

\* The object whose key is the prefix itself: a marker with the delimiter at its
\* end is taken for a common prefix.
Placeholder(opt) == Entry("object", opt.prefix, 0)

\* A page of objects with a delimiter ended with the placeholder of the folder
\* that is listed: the next one starts behind the folder.
CutShort ==
  LET opt == pager.opt IN
  /\ opt.delimiter /\ opt.kind = "objects"
  /\ opt.prefix # <<>> /\ opt.prefix[Len(opt.prefix)] = Slash
  /\ \E p \in DOMAIN pager.pages :
       LET page == pager.pages[p] IN page # <<>> /\ page[Len(page)] = Placeholder(opt)

\* A client that reads a listing to its end has been given everything that was
\* there all the time, and nothing twice, because the marker that list returns
\* lies behind every entry of its page, those under a common prefix included.
\* What is put and deleted between the pages, by others or by deletePrefix, can
\* spoil no more than this: if the null version that a page ended with is deleted
\* or replaced, versions of its key may be missed or repeated, and those of all
\* other keys are not. A page that ends with the folder's placeholder may leave
\* out what is behind it, but repeats nothing. Listings of uploads with a
\* delimiter are left to PagesAdvance.
ListedOnce ==
  pager.pc # "idle" /\ ~(pager.opt.delimiter /\ pager.opt.kind = "uploads") =>
    /\ pager.pc = "done" /\ ~CutShort =>
         \A e \in stayed : e.key \in moved \/ \E x \in Given : GivenAt(x) = e
    /\ \A x, y \in Given : GivenAt(x) = GivenAt(y) => x = y \/ GivenAt(x).key \in moved

\* A page that is cut short takes the client further: its listing comes to
\* an end even if the client asks for one entry at a time.
PagesAdvance ==
  [][pager'.pages # pager.pages /\ pager'.pc = "paging" => pager'.at # pager.at]_lvars
=============================================================================
