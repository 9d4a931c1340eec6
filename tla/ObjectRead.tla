----------------------------- MODULE ObjectRead -----------------------------
(***************************************************************************)
(* Reading an object (object/get.go, sse/sse.go, blob/fs.go, s3api's range  *)
(* header) and writing it out to a file (fsck/export.go): the bytes of its  *)
(* parts, one file each and perhaps encrypted in chunks, of which a range   *)
(* or a part may be asked for, while files may be removed with the version, *)
(* and were perhaps cut short by a failing disk.                            *)
(*                                                                         *)
(* Abstracted: a byte is its position in the object. An encrypted chunk     *)
(* opens if it is read as a whole, from its own place. The version has been *)
(* looked up, and the key it may be encrypted with is at hand.              *)
(***************************************************************************)
EXTENDS Integers, Sequences, FiniteSets

CONSTANTS
  Layouts,       \* the sizes of an object's parts
  ChunkSize,     \* plaintext bytes in a chunk
  ChunkOverhead, \* bytes that encryption adds to a chunk
  BufSize,       \* bytes asked for at once
  MaxOffset,     \* bound: numbers in a range header
  MaxStopped     \* bound: exports that are interrupted

ASSUME ReadAssumption ==
  /\ Layouts \subseteq Seq(Nat)
  /\ ChunkSize \in Nat \ {0} /\ ChunkOverhead \in Nat \ {0} /\ BufSize \in Nat \ {0}
  /\ MaxOffset \in Nat /\ MaxStopped \in Nat

VARIABLES
  parts,     \* the sizes of the object's parts
  encrypted, \* whether they are
  named,     \* the parts whose files can be opened
  length,    \* how many bytes each file holds
  asked,     \* what was asked for
  rd,        \* the partsReader
  given,     \* the bytes it has returned
  dst,       \* the exported file
  stopped    \* interrupted exports so far

ovars == <<parts, encrypted, named, length, asked, rd, given, dst, stopped>>

Absent == -1
NoBytes == <<Absent>>
Least(a, b) == IF a <= b THEN a ELSE b
Positions(from, count) == [i \in 1..count |-> from + i - 1]

Base ==
  LET base[i \in 1..Len(parts) + 1] == IF i = 1 THEN 0 ELSE base[i - 1] + parts[i - 1]
  IN base
Size == Base[Len(parts) + 1]

\* EncryptedSize
EncryptedSize(plain) ==
  plain + ((plain + ChunkSize - 1) \div ChunkSize) * ChunkOverhead

FileSize(p) == IF encrypted THEN EncryptedSize(parts[p]) ELSE parts[p]

-----------------------------------------------------------------------------
(* What is asked for *)

\* A part's number, or a range; the end may be left open.
Request(part, start, end) == [part |-> part, start |-> start, end |-> end]
WholeObject == Request(Absent, 0, Absent)

\* parseRange, of "bytes=a-b" with either number left out: a header that makes
\* no sense is ignored; a suffix of n bytes is the start -n.
ParseRange(a, b) ==
  IF a = Absent THEN IF b <= 0 THEN WholeObject ELSE Request(0, -b, Absent)
  ELSE IF b # Absent /\ b < a THEN WholeObject ELSE Request(0, a, b)

\* GetObject: where to start and how many bytes to read, or Absent to refuse.
Resolve(q) ==
  LET end == IF q.end < 0 \/ q.end >= Size THEN Size - 1 ELSE q.end IN
  IF q.part > 0
    THEN IF q.part > Len(parts) THEN <<Absent, 0>> ELSE <<Base[q.part], parts[q.part]>>
  ELSE IF q = WholeObject THEN <<0, Size>>
  ELSE IF q.start < 0 THEN <<Size - Least(-q.start, Size), Least(-q.start, Size)>>
  ELSE IF q.start >= Size \/ q.start > end THEN <<Absent, 0>>
  ELSE <<q.start, end - q.start + 1>>

-----------------------------------------------------------------------------
(* The reader *)

\* The reader of one part: its place in the file, how much of that is to be
\* read, and for a decryptReader the next chunk, the bytes of it to skip and
\* how many bytes remain; plain is what was decrypted and not returned yet.
PartAt(part, at, left, idx, skip, remain) ==
  [part |-> part, at |-> at, left |-> left, idx |-> idx, skip |-> skip, remain |-> remain, plain |-> <<>>]
NoPart == PartAt(0, 0, 0, 0, 0, 0)
NoReader == [pc |-> "idle", export |-> FALSE, offset |-> 0, remain |-> 0, cur |-> NoPart]

OInit ==
  /\ parts \in Layouts
  /\ encrypted \in BOOLEAN
  /\ named = 1..Len(parts)
  /\ \E p \in 0..Len(parts), n \in 0..MaxOffset :
       length = [i \in 1..Len(parts) |-> IF i = p THEN Least(n, FileSize(i)) ELSE FileSize(i)]
  /\ asked = WholeObject
  /\ rd = NoReader
  /\ given = <<>> /\ dst = NoBytes /\ stopped = 0

StoreUnchanged == UNCHANGED <<parts, encrypted, named, length>>

Opened(q, export) ==
  LET r == Resolve(q) IN
  /\ rd' = IF r[1] = Absent THEN [NoReader EXCEPT !.pc = "refused"]
           ELSE [NoReader EXCEPT !.pc = "reading", !.export = export,
                                 !.offset = r[1], !.remain = r[2]]
  /\ asked' = q
  /\ given' = <<>>

\* serveObject: a range or a part, not both
Get(q) ==
  /\ rd.pc = "idle"
  /\ Opened(q, FALSE)
  /\ StoreUnchanged /\ UNCHANGED <<dst, stopped>>

Stands == rd.pc = "reading" /\ rd.remain > 0

\* Mutant: the bytes of a chunk before the offset are not skipped.
NoSkip(off) == 0

\* NewDecryptReader: how much of the first chunk is not wanted.
ChunkSkip(off) == off - (off \div ChunkSize) * ChunkSize

\* openPart: bytes [off, off+ln) of a part, in a plain file or within chunks
OpenPart(p, off, ln) ==
  LET chunk == ChunkSize + ChunkOverhead
      first == off \div ChunkSize
      last == (off + ln - 1) \div ChunkSize
  IN IF ~encrypted THEN PartAt(p, off, ln, 0, 0, 0)
     ELSE PartAt(p, first * chunk,
                 Least((last - first + 1) * chunk, EncryptedSize(parts[p]) - first * chunk),
                 first, ChunkSkip(off), ln)

\* openNext: the part with the next byte. A part of no bytes has none.
OpenNext ==
  /\ Stands /\ rd.cur = NoPart
  /\ \E p \in 1..Len(parts) :
       /\ Base[p] <= rd.offset /\ rd.offset < Base[p + 1]
       /\ rd' = IF p \notin named THEN [rd EXCEPT !.pc = "failed"]
                ELSE LET in == rd.offset - Base[p]
                     IN [rd EXCEPT !.cur = OpenPart(p, in, Least(parts[p] - in, rd.remain))]
  /\ StoreUnchanged /\ UNCHANGED <<asked, given, dst, stopped>>

\* What is there to be read of the open file.
Available == LET n == length[rd.cur.part] - rd.cur.at
             IN IF n < 0 THEN 0 ELSE Least(n, rd.cur.left)

\* The bytes are returned, at most as many as were asked for.
Return(bytes, cur) ==
  /\ rd' = [rd EXCEPT !.offset = @ + Len(bytes), !.remain = @ - Len(bytes), !.cur = cur]
  /\ given' = given \o bytes
  /\ StoreUnchanged /\ UNCHANGED <<asked, dst, stopped>>

\* partsReader.Read, of a plain file
ReadPlain(n) ==
  /\ Stands /\ rd.cur # NoPart /\ ~encrypted
  /\ n \in 1..Least(Least(BufSize, rd.remain), Available)
  /\ Return(Positions(Base[rd.cur.part] + rd.cur.at, n),
            [rd.cur EXCEPT !.at = @ + n, !.left = @ - n])

\* decryptReader.Read: the next chunk is read and opened, ...
DecryptChunk ==
  LET c == rd.cur
      from == c.idx * ChunkSize
      size == Least(ChunkSize, parts[c.part] - from)
      n == Least(ChunkSize + ChunkOverhead, Available)
      opens == c.at = c.idx * (ChunkSize + ChunkOverhead) /\ n = size + ChunkOverhead
      plain == Positions(Base[c.part] + from + c.skip, Least(size - c.skip, c.remain))
  IN /\ Stands /\ c # NoPart /\ encrypted /\ c.plain = <<>> /\ c.remain > 0
     /\ rd' = IF ~opens THEN [rd EXCEPT !.pc = "failed"]
              ELSE [rd EXCEPT !.cur = [c EXCEPT !.at = @ + n, !.left = @ - n, !.idx = @ + 1,
                                                !.skip = 0, !.plain = plain]]
     /\ StoreUnchanged /\ UNCHANGED <<asked, given, dst, stopped>>

\* ... and what it held is returned.
ReadDecrypted ==
  LET c == rd.cur
      n == Least(Least(BufSize, rd.remain), Len(c.plain))
  IN /\ Stands /\ c # NoPart /\ c.plain # <<>>
     /\ Return(SubSeq(c.plain, 1, n),
               [c EXCEPT !.plain = SubSeq(@, n + 1, Len(@)), !.remain = @ - n])

\* The file ends, or as much of it as was wanted: Read closes it and looks for
\* the part with the next byte.
PartEnds ==
  /\ Stands /\ rd.cur # NoPart
  /\ IF encrypted THEN rd.cur.plain = <<>> /\ rd.cur.remain = 0 ELSE Available = 0
  /\ rd' = [rd EXCEPT !.cur = NoPart]
  /\ StoreUnchanged /\ UNCHANGED <<asked, given, dst, stopped>>

\* Nothing remains: the reader reports the end.
ReadsEnd ==
  /\ rd.pc = "reading" /\ rd.remain = 0
  /\ rd' = [rd EXCEPT !.pc = "eof"]
  /\ StoreUnchanged /\ UNCHANGED <<asked, given, dst, stopped>>

\* The version is deleted or replaced while it is served; an open file stays.
DropFile(p) ==
  /\ ~rd.export /\ p \in named
  /\ named' = named \ {p}
  /\ UNCHANGED <<parts, encrypted, length, asked, rd, given, dst, stopped>>

-----------------------------------------------------------------------------
(* export, on a store that no server uses *)

\* exportOne: a file that is there is kept, unless told otherwise.
ExportOne(overwrite) ==
  /\ rd.pc = "idle"
  /\ dst = NoBytes \/ overwrite
  /\ Opened(WholeObject, TRUE)
  /\ StoreUnchanged /\ UNCHANGED <<dst, stopped>>

\* The bytes go to a temporary file, which is renamed if all was read and is
\* as long as the record says; if not, it is removed and the manifest says why.
ExportFinish ==
  /\ rd.export /\ rd.pc \in {"eof", "failed"}
  /\ dst' = IF rd.pc = "eof" /\ Len(given) = Size THEN given ELSE dst
  /\ rd' = NoReader
  /\ StoreUnchanged /\ UNCHANGED <<asked, given, stopped>>

\* The command is interrupted; another one begins again.
ExportStopped ==
  /\ rd.export /\ rd.pc = "reading" /\ stopped < MaxStopped
  /\ stopped' = stopped + 1
  /\ rd' = NoReader
  /\ StoreUnchanged /\ UNCHANGED <<asked, given, dst>>

-----------------------------------------------------------------------------

ReaderStep ==
  \/ OpenNext
  \/ \E n \in 1..BufSize : ReadPlain(n)
  \/ DecryptChunk
  \/ ReadDecrypted
  \/ PartEnds
  \/ ReadsEnd

ONext ==
  \/ \E a, b \in Absent..MaxOffset : Get(ParseRange(a, b))
  \/ \E p \in 1..Len(parts) + 1 : Get(Request(p, 0, Absent))
  \/ ReaderStep
  \/ \E p \in named : DropFile(p)
  \/ \E overwrite \in BOOLEAN : ExportOne(overwrite)
  \/ ExportFinish
  \/ ExportStopped

OSpec == OInit /\ [][ONext]_ovars

\* Read is called as long as it returns neither an end nor an error.
OFairSpec == OSpec /\ WF_ovars(ReaderStep)

-----------------------------------------------------------------------------
(* Properties *)

\* The bytes that a request names, by the meaning of a range header and of a
\* part number.
Named(q) ==
  {i \in 0..Size - 1 :
     IF q.part > 0 THEN q.part <= Len(parts) /\ Base[q.part] <= i /\ i < Base[q.part + 1]
     ELSE IF q.start < 0 THEN i >= Size + q.start
     ELSE i >= q.start /\ (q.end < 0 \/ i <= q.end)}

\* A reader returns the bytes asked for, in order and none besides, across
\* parts and chunks and with files being removed; it comes to the end only
\* when it has returned them all, and fails only if a file was removed or cut
\* short; a request is refused only if it names no byte; and an exported file
\* is the whole object, however often the export was interrupted.
ReadExact ==
  LET least == CHOOSE i \in Named(asked) : \A j \in Named(asked) : i <= j IN
  /\ given # <<>> =>
       /\ Len(given) <= Cardinality(Named(asked))
       /\ given = Positions(least, Len(given))
  /\ rd.pc = "eof" => Len(given) = Cardinality(Named(asked))
  /\ rd.pc = "failed" => \E p \in 1..Len(parts) : p \notin named \/ length[p] # FileSize(p)
  /\ rd.pc = "refused" => Named(asked) = {}
  /\ dst # NoBytes => dst = Positions(0, Size)

\* "if n != v.Size" and "cannot read" (exportOne): whatever state its files
\* are in, an object is read to its end or to an error, so that an export can
\* go on to the next one.
ReadEnds == rd.pc = "reading" ~> rd.pc # "reading"
=============================================================================
