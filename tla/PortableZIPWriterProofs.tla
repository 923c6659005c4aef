----------------------- MODULE PortableZIPWriterProofs -----------------------
(***************************************************************************)
(* Proofs about PortableZIPWriter, for every number of entries, size of    *)
(* the output buffer and length of the data, and for any number of         *)
(* failures of the export stream and of zlib.                              *)
(***************************************************************************)
EXTENDS PortableZIPWriter, ListTheorems

Symbols == Bytes \cup {EndOfStream}

Entries ==
  [name : Names \cup {"none"}, key : Keys, m_nCRC32 : Seq(Bytes),
   m_nCompressedSize : Nat, m_nUncompressedSize : Nat, m_nFilePosition : Nat,
   m_nExtInfoPosition : Nat, m_nDataPosition : Nat]

Streams == [m_bIsInitialized : BOOLEAN, ended : BOOLEAN,
            pending : Seq(Symbols), out : Seq(Symbols)]

Calls ==
  [pc : {"idle", "deflate", "drain", "close", "finish", "spill", "flush",
         "descriptor", "extra", "end", "key", "header", "stream", "directory"},
   op : {"none", "write", "create", "destroy"}, name : Names \cup {"none"},
   key : 0..MaxKey, data : Seq(Bytes)]

TypeInv ==
  /\ m_Entries \in Seq(Entries)
  /\ m_pCurrentEntry \in BOOLEAN
  /\ m_pCurrentStream \in 0..MaxKey
  /\ m_nCurrentEntryKey \in 0..MaxKey
  /\ m_nNextEntryKey \in 1..(MaxKey + 1)
  /\ m_bIsFinished \in BOOLEAN
  /\ zip \in [Keys -> Streams]
  /\ IsList(file)
  /\ position \in Nat
  /\ lifetime \in {"open", "destroyed", "terminated"}
  /\ call \in Calls
  /\ failures \in Nat
  /\ given \in [Keys -> Seq(Bytes)]

(* What the step of a call says of the pointers to the current entry.      *)
Pointers ==
  /\ m_pCurrentStream # 0 => m_pCurrentEntry /\ m_pCurrentStream = m_nCurrentEntryKey
  /\ m_pCurrentEntry => m_Entries # <<>> /\ Current.key = m_nCurrentEntryKey
  /\ \A k \in Keys : zip[k].m_bIsInitialized => m_pCurrentStream = k
  /\ lifetime = "destroyed" => ~m_pCurrentEntry
  /\ m_bIsFinished <=> lifetime = "destroyed"
  /\ lifetime # "open" => call.pc = "idle"

(* What each step of a call may rely on.                                   *)
Steps ==
  /\ call.pc = "idle" <=> call.op = "none"
  /\ call.pc \in {"deflate", "drain"} <=> call.op = "write"
  /\ call.pc \in {"key", "header", "stream"} => call.op = "create"
  /\ call.pc = "directory" => call.op = "destroy"
  /\ call.op = "create" /\ call.pc \notin {"header", "stream"} => m_nNextEntryKey <= MaxKey
  /\ call.op # "write" => call.data = <<>>
  /\ call.op = "write" => /\ call.key # 0 /\ call.key = m_pCurrentStream
                          /\ zip[call.key].m_bIsInitialized
  /\ call.pc = "drain" => ~zip[call.key].ended
  /\ call.pc \in {"finish", "spill", "flush"} =>
       m_pCurrentStream # 0 /\ zip[m_pCurrentStream].m_bIsInitialized
  /\ call.pc \in {"descriptor", "extra", "end"} =>
       /\ m_pCurrentStream # 0 /\ ~zip[m_pCurrentStream].m_bIsInitialized
       /\ zip[m_pCurrentStream].out = <<>>
  /\ call.pc \in {"spill", "flush", "descriptor", "extra", "end"} =>
       zip[m_pCurrentStream].ended
  /\ call.pc \in {"flush", "descriptor", "extra", "end"} =>
       zip[m_pCurrentStream].pending = <<>>
  /\ call.pc \in {"key", "header", "directory"} => ~m_pCurrentEntry
  /\ call.pc = "stream" => m_pCurrentEntry /\ m_pCurrentStream = 0

(* Keys grow, and a key without a stream has no data.                      *)
KeysGrow ==
  /\ \A i \in DOMAIN m_Entries : m_Entries[i].key < m_nNextEntryKey
  /\ \A i, j \in DOMAIN m_Entries : i < j => m_Entries[i].key < m_Entries[j].key
  /\ call.pc = "header" =>
       /\ m_nCurrentEntryKey \in Keys /\ m_nCurrentEntryKey < m_nNextEntryKey
       /\ \A i \in DOMAIN m_Entries : m_Entries[i].key < m_nCurrentEntryKey
  /\ \A k \in Keys : (\A i \in DOMAIN m_Entries : m_Entries[i].key # k) =>
       zip[k] = NoStream /\ given[k] = <<>>
  /\ m_pCurrentEntry /\ m_pCurrentStream = 0 =>
       zip[m_nCurrentEntryKey] = NoStream /\ given[m_nCurrentEntryKey] = <<>>

DataEnd(e) == e.m_nDataPosition + e.m_nCompressedSize

(* Entries lie one behind the other in the file, the current one at its    *)
(* end; the write position is the end of the file but while, or after, the *)
(* local header is patched.                                                *)
Layout ==
  /\ \A i \in DOMAIN m_Entries :
       LET e == m_Entries[i]
       IN  /\ e.m_nExtInfoPosition = e.m_nFilePosition + 2
           /\ e.m_nDataPosition = e.m_nFilePosition + 3
           /\ DataEnd(e) <= Len(file)
           /\ file[e.m_nFilePosition + 2] = NameBlock(e.name)
  /\ \A i, j \in DOMAIN m_Entries :
       i < j => DataEnd(m_Entries[i]) <= m_Entries[j].m_nFilePosition
  /\ m_pCurrentEntry => DataEnd(Current) = Len(file)
  /\ position # Len(file) =>
       /\ m_pCurrentEntry /\ m_pCurrentStream # 0
       /\ ~zip[m_pCurrentStream].m_bIsInitialized
       /\ call.pc \in {"idle", "close", "extra", "end"}

Checksums ==
  \A i \in DOMAIN m_Entries :
    /\ m_Entries[i].m_nCRC32 = given[m_Entries[i].key]
    /\ m_Entries[i].m_nUncompressedSize = Len(given[m_Entries[i].key])

HeaderWritten(f, e) == f[e.m_nFilePosition + 1] = HeaderBlock(e.m_nCRC32)
ExtraWritten(f, e) ==
  f[e.m_nFilePosition + 3] = ExtraBlock(e.m_nCompressedSize, e.m_nUncompressedSize)

(* What zlib is to write for the data of a key, and what of it is not in   *)
(* the file yet.                                                           *)
Total(z, data) == IF z.ended THEN Append(data, EndOfStream) ELSE data
InFlight(z, rest) == z.out \o (z.pending \o rest)

(* The data of e in the file is the first part of total, ahead the rest.   *)
Flows(f, e, total, ahead) ==
  /\ Len(total) = e.m_nCompressedSize + Len(ahead)
  /\ \A j \in 1..e.m_nCompressedSize :
       f[e.m_nDataPosition + j] = [kind |-> "data", byte |-> total[j]]
  /\ \A j \in 1..Len(ahead) : ahead[j] = total[e.m_nCompressedSize + j]

(* An entry that was closed: the local header is patched, the data whole.  *)
Complete(f, e, data, lost) ==
  /\ HeaderWritten(f, e) /\ ExtraWritten(f, e)
  /\ e.key \notin lost => Flows(f, e, Append(data, EndOfStream), <<>>)

ClosedContents ==
  \A i \in DOMAIN m_Entries :
    i < Len(m_Entries) \/ ~m_pCurrentEntry =>
      Complete(file, m_Entries[i], given[m_Entries[i].key], spoiled)

(* The entry that is open, unless a write to it threw or is about to.      *)
OpenContents ==
  /\ call.pc \in {"extra", "end"} => HeaderWritten(file, Current)
  /\ call.pc = "end" => ExtraWritten(file, Current)
  /\ m_pCurrentEntry /\ m_nCurrentEntryKey \notin spoiled
       /\ ~(call.op = "write" /\ zip[m_nCurrentEntryKey].ended) =>
       Flows(file, Current, Total(zip[m_nCurrentEntryKey], given[m_nCurrentEntryKey]),
             InFlight(zip[m_nCurrentEntryKey], call.data))

(* A current entry cannot be closed only after a failure.                  *)
Failed ==
  /\ lifetime = "terminated" => failures > 0
  /\ (m_pCurrentEntry /\ m_pCurrentStream = 0 /\ call.pc # "stream") => failures > 0
  /\ m_pCurrentStream # 0 =>
       /\ (~zip[m_pCurrentStream].m_bIsInitialized /\ call.pc \in {"idle", "close"}) => failures > 0
       /\ Len(zip[m_pCurrentStream].out) <= BufferSize
       /\ (Len(zip[m_pCurrentStream].out) = BufferSize /\ call.pc \notin {"drain", "spill", "flush"})
            => failures > 0

(* The directory of a finished archive is what the reader looks for.       *)
Directory ==
  m_bIsFinished =>
    /\ Len(file) > Len(m_Entries)
    /\ EndRecord = [kind |-> "end", entries |-> Len(m_Entries),
                    offset |-> Len(file) - (Len(m_Entries) + 1)]
    /\ \A i \in DOMAIN m_Entries :
         file[Len(file) - (Len(m_Entries) + 1) + i] = DirectoryBlock(m_Entries[i])

ZIPInv == /\ TypeInv /\ Pointers /\ Steps /\ KeysGrow /\ Layout
          /\ Checksums /\ ClosedContents /\ OpenContents /\ Failed /\ Directory

-----------------------------------------------------------------------------
(* Lists and files.                                                        *)

(* The file g is f with the list b behind it.                              *)
Appended(f, g, b) ==
  /\ IsList(g)
  /\ Len(g) = Len(f) + Len(b)
  /\ \A j \in 1..Len(f) : g[j] = f[j]
  /\ \A j \in 1..Len(b) : g[Len(f) + j] = b[j]

(* The file g is f with x as the block behind position p.                  *)
Patched(f, g, p, x) ==
  /\ IsList(g)
  /\ Len(g) = Len(f)
  /\ g[p + 1] = x
  /\ \A j \in 1..Len(f) : j # p + 1 => g[j] = f[j]

(* WriteAppends: a write at the end of the file adds the blocks.           *)
LEMMA WriteAppends ==
  ASSUME IsList(file), position = Len(file), NEW b, IsList(b), Write(position, b)
  PROVE  Appended(file, file', b) /\ position' = Len(file')
<1> DEFINE n == Len(file)
           m == Len(b)
<1>1. n \in Nat /\ m \in Nat
  BY ListFacts
<1>2. Larger(n, n + m) = n + m
  BY <1>1 DEF Larger
<1>3. file' = [j \in 1..(n + m) |-> IF j > n /\ j <= n + m THEN b[j - n] ELSE file[j]]
  BY <1>2 DEF Write, WrittenAt
<1>4. position' = n + m
  BY DEF Write
<1> HIDE DEF n, m
<1>5. file' = [j \in 1..(n + m) |-> file'[j]]
  BY <1>3
<1>6. IsList(file') /\ Len(file') = n + m
  BY <1>1, <1>5, FunctionIsList
<1>7. \A j \in 1..n : file'[j] = file[j]
  BY <1>1, <1>3
<1>8. ASSUME NEW j \in 1..m PROVE file'[n + j] = b[j]
  <2>1. n + j \in 1..(n + m) /\ n + j > n /\ n + j <= n + m /\ (n + j) - n = j
    BY <1>1
  <2> QED BY <1>3, <2>1
<1> QED BY <1>4, <1>6, <1>7, <1>8 DEF Appended, n, m

(* WritePatches: a write of one block inside the file replaces a block.    *)
LEMMA WritePatches ==
  ASSUME IsList(file), NEW p \in Nat, p < Len(file), NEW x, Write(p, <<x>>)
  PROVE  Patched(file, file', p, x) /\ position' = p + 1
<1> DEFINE n == Len(file)
<1>1. n \in Nat /\ p < n
  BY ListFacts
<1>2. Larger(n, p + 1) = n
  BY <1>1 DEF Larger
<1>3. Len(<<x>>) = 1 /\ <<x>>[1] = x
  OBVIOUS
<1>4. /\ file' = [j \in 1..n |-> IF j > p /\ j <= p + 1 THEN <<x>>[j - p] ELSE file[j]]
      /\ position' = p + 1
  BY <1>2, <1>3 DEF Write, WrittenAt
<1> HIDE DEF n
<1>5. file' = [j \in 1..n |-> file'[j]]
  BY <1>4
<1>6. IsList(file') /\ Len(file') = n
  BY <1>1, <1>5, FunctionIsList
<1>7. file'[p + 1] = x
  <2>1. p + 1 \in 1..n /\ p + 1 > p /\ p + 1 <= p + 1 /\ (p + 1) - p = 1
    BY <1>1
  <2> QED BY <1>3, <1>4, <2>1
<1>8. ASSUME NEW j \in 1..n, j # p + 1 PROVE file'[j] = file[j]
  <2>1. ~(j > p /\ j <= p + 1)
    BY <1>1, <1>8
  <2> QED BY <1>4, <2>1
<1> QED BY <1>4, <1>6, <1>7, <1>8 DEF Patched, n

ReplaceLast(s, e) == [s EXCEPT ![Len(s)] = e]

LastIs(S, s, t, e) ==
  /\ t \in Seq(S) /\ Len(t) = Len(s) /\ DOMAIN t = 1..Len(s) /\ t # <<>>
  /\ t[Len(s)] = e /\ Len(s) \in 1..Len(s)
  /\ \A i \in 1..Len(s) : i # Len(s) => t[i] = s[i]

(* LastChanged: the last element of a list is replaced.                    *)
LEMMA LastChanged ==
  ASSUME NEW S, NEW s \in Seq(S), s # <<>>, NEW e \in S
  PROVE  LastIs(S, s, ReplaceLast(s, e), e)
<1>0. PICK t : t = ReplaceLast(s, e)
  OBVIOUS
<1>1. Len(s) \in Nat /\ Len(s) # 0 /\ DOMAIN s = 1..Len(s)
  OBVIOUS
<1>2. Len(s) \in 1..Len(s)
  BY <1>1
<1>3. t \in Seq(S) /\ Len(t) = Len(s)
  BY <1>0, <1>1, <1>2 DEF ReplaceLast
<1>4. t # <<>> /\ DOMAIN t = 1..Len(s)
  BY <1>1, <1>3
<1>5. t[Len(s)] = e /\ \A i \in 1..Len(s) : i # Len(s) => t[i] = s[i]
  BY <1>0, <1>1, <1>2 DEF ReplaceLast
<1>6. LastIs(S, s, t, e)
  BY <1>2, <1>3, <1>4, <1>5, Zenon DEF LastIs
<1> QED BY <1>0, <1>6, Zenon

-----------------------------------------------------------------------------
(* Entries, streams and calls.                                             *)

(* The fields of an entry that a write through its stream leaves alone.    *)
SamePlace(e, f) ==
  /\ f.name = e.name /\ f.key = e.key /\ f.m_nFilePosition = e.m_nFilePosition
  /\ f.m_nExtInfoPosition = e.m_nExtInfoPosition
  /\ f.m_nDataPosition = e.m_nDataPosition

(* What becomes of an entry e, of a set T, when a field is changed.        *)
Changes(e, f, x, y, T) ==
  /\ f = [e EXCEPT !.m_nCRC32 = x] =>
       /\ f \in T /\ SamePlace(e, f) /\ f.m_nCRC32 = x
       /\ f.m_nCompressedSize = e.m_nCompressedSize
       /\ f.m_nUncompressedSize = e.m_nUncompressedSize
  /\ f = [e EXCEPT !.m_nUncompressedSize = y] =>
       /\ f \in T /\ SamePlace(e, f) /\ f.m_nUncompressedSize = y
       /\ f.m_nCRC32 = e.m_nCRC32 /\ f.m_nCompressedSize = e.m_nCompressedSize
  /\ f = [e EXCEPT !.m_nCompressedSize = y] =>
       /\ f \in T /\ SamePlace(e, f) /\ f.m_nCompressedSize = y
       /\ f.m_nCRC32 = e.m_nCRC32 /\ f.m_nUncompressedSize = e.m_nUncompressedSize

(* RecordEight: a record with eight fields, and one of them changed.       *)
LEMMA RecordEight ==
  ASSUME NEW A, NEW B, NEW C, NEW D,
         NEW e \in [name : A, key : B, m_nCRC32 : C, m_nCompressedSize : D,
                    m_nUncompressedSize : D, m_nFilePosition : D,
                    m_nExtInfoPosition : D, m_nDataPosition : D],
         NEW f, NEW x \in C, NEW y \in D
  PROVE  Changes(e, f, x, y,
                 [name : A, key : B, m_nCRC32 : C, m_nCompressedSize : D,
                  m_nUncompressedSize : D, m_nFilePosition : D,
                  m_nExtInfoPosition : D, m_nDataPosition : D])
BY DEF SamePlace, Changes

(* EntryFields: the sets the fields of an entry are from.                  *)
LEMMA EntryFields ==
  ASSUME NEW e \in Entries
  PROVE  /\ e.key \in Keys /\ e.m_nCRC32 \in Seq(Bytes)
         /\ e.m_nCompressedSize \in Nat /\ e.m_nUncompressedSize \in Nat
         /\ e.m_nFilePosition \in Nat /\ e.m_nExtInfoPosition \in Nat
         /\ e.m_nDataPosition \in Nat
BY DEF Entries

(* EntryChanged: an entry with a field changed.                            *)
LEMMA EntryChanged ==
  ASSUME NEW e \in Entries, NEW f, NEW x \in Seq(Bytes), NEW y \in Nat
  PROVE  Changes(e, f, x, y, Entries)
BY RecordEight, Zenon DEF Entries

After(e, f, crc, uncompressed, compressed) ==
  /\ f \in Entries /\ SamePlace(e, f) /\ f.m_nCRC32 = crc
  /\ f.m_nUncompressedSize = uncompressed /\ f.m_nCompressedSize = compressed

(* EntryGrows: calculateChecksum, on the entry.                            *)
LEMMA EntryGrows ==
  ASSUME NEW e \in Entries, NEW d \in Seq(Bytes)
  PROVE  After(e, calculateChecksum(e, d), e.m_nCRC32 \o d, e.m_nUncompressedSize + Len(d),
               e.m_nCompressedSize)
<1>f. PICK f : f = calculateChecksum(e, d)
  OBVIOUS
<1> DEFINE x == e.m_nCRC32 \o d
           y == e.m_nUncompressedSize + Len(d)
<1>1. x \in Seq(Bytes) /\ y \in Nat
  BY EntryFields
<1>g. PICK g : g = [e EXCEPT !.m_nCRC32 = x]
  OBVIOUS
<1>2. f = [g EXCEPT !.m_nUncompressedSize = y]
  BY <1>f, <1>g DEF calculateChecksum
<1> HIDE DEF x, y
<1>c. Changes(e, g, x, y, Entries)
  BY <1>1, EntryChanged, Zenon
<1>3. /\ g \in Entries /\ SamePlace(e, g) /\ g.m_nCRC32 = x
      /\ g.m_nCompressedSize = e.m_nCompressedSize
      /\ g.m_nUncompressedSize = e.m_nUncompressedSize
  BY <1>c, <1>g DEF Changes
<1>d. Changes(g, f, x, y, Entries)
  BY <1>1, <1>3, EntryChanged, Zenon
<1>4. /\ f \in Entries /\ SamePlace(g, f) /\ f.m_nUncompressedSize = y
      /\ f.m_nCRC32 = g.m_nCRC32 /\ f.m_nCompressedSize = g.m_nCompressedSize
  BY <1>d, <1>2 DEF Changes
<1>5. SamePlace(e, f)
  BY <1>3, <1>4, Zenon DEF SamePlace
<1>6. After(e, f, x, y, e.m_nCompressedSize)
  BY <1>3, <1>4, <1>5, Zenon DEF After
<1> QED BY <1>f, <1>6, Zenon DEF x, y

(* EntryWritten: writeDeflatedBuffer, on the entry.                        *)
LEMMA EntryWritten ==
  ASSUME NEW e \in Entries, NEW n \in Nat
  PROVE  After(e, increaseCompressedSize(e, n), e.m_nCRC32, e.m_nUncompressedSize,
               e.m_nCompressedSize + n)
<1>f. PICK f : f = increaseCompressedSize(e, n)
  OBVIOUS
<1> DEFINE y == e.m_nCompressedSize + n
<1>1. y \in Nat /\ e.m_nCRC32 \in Seq(Bytes)
  BY EntryFields
<1>2. f = [e EXCEPT !.m_nCompressedSize = y]
  BY <1>f DEF increaseCompressedSize
<1> HIDE DEF y
<1>c. Changes(e, f, e.m_nCRC32, y, Entries)
  BY <1>1, EntryChanged, Zenon
<1>3. /\ f \in Entries /\ SamePlace(e, f) /\ f.m_nCompressedSize = y
      /\ f.m_nCRC32 = e.m_nCRC32 /\ f.m_nUncompressedSize = e.m_nUncompressedSize
  BY <1>2, <1>c DEF Changes
<1>4. After(e, f, e.m_nCRC32, e.m_nUncompressedSize, y)
  BY <1>3, Zenon DEF After
<1> QED BY <1>f, <1>4, Zenon DEF y

(* EntryMade: the entry that createEntry appends.                          *)
LEMMA EntryMade ==
  ASSUME call.name \in Names \cup {"none"}, m_nCurrentEntryKey \in Keys, position \in Nat
  PROVE  NewEntry \in Entries
<1>1. <<>> \in Seq(Bytes) /\ 0 \in Nat /\ position + 2 \in Nat /\ position + 3 \in Nat
  OBVIOUS
<1>2. \A A, B, C, D : \A a \in A, b \in B, c \in C, d \in D, e \in D, g \in D, h \in D :
        [name |-> a, key |-> b, m_nCRC32 |-> c, m_nCompressedSize |-> d,
         m_nUncompressedSize |-> d, m_nFilePosition |-> e, m_nExtInfoPosition |-> g,
         m_nDataPosition |-> h]
          \in [name : A, key : B, m_nCRC32 : C, m_nCompressedSize : D,
               m_nUncompressedSize : D, m_nFilePosition : D,
               m_nExtInfoPosition : D, m_nDataPosition : D]
  OBVIOUS
<1> QED BY <1>1, <1>2, Zenon DEF Entries, NewEntry

Stream(i, e, p, o) == [m_bIsInitialized |-> i, ended |-> e, pending |-> p, out |-> o]

StreamIs(z, i, e, p, o) ==
  /\ z \in Streams /\ z.m_bIsInitialized = i /\ z.ended = e /\ z.pending = p /\ z.out = o

(* StreamMade: a stream and its fields.                                    *)
LEMMA StreamMade ==
  ASSUME NEW i \in BOOLEAN, NEW e \in BOOLEAN, NEW p \in Seq(Symbols), NEW o \in Seq(Symbols)
  PROVE  StreamIs(Stream(i, e, p, o), i, e, p, o)
<1>1. \A A, C : \A a \in A, b \in A, c \in C, d \in C :
        Stream(a, b, c, d) \in [m_bIsInitialized : A, ended : A, pending : C, out : C]
  BY DEF Stream
<1>2. Stream(i, e, p, o) \in Streams
  BY <1>1, ZenonT(60) DEF Streams
<1> QED BY <1>2 DEF Stream, StreamIs

(* StreamFields: the sets the fields of a stream are from.                 *)
LEMMA StreamFields ==
  ASSUME NEW z \in Streams
  PROVE  /\ z.m_bIsInitialized \in BOOLEAN /\ z.ended \in BOOLEAN
         /\ z.pending \in Seq(Symbols) /\ z.out \in Seq(Symbols)
BY DEF Streams

(* StreamChanged: what the steps make of a stream.                         *)
LEMMA StreamChanged ==
  ASSUME NEW z \in Streams
  PROVE  /\ \A held, n : Deflated(z, held, n)
                           = Stream(z.m_bIsInitialized, z.ended,
                                    SubSeq(held, n + 1, Len(held)), z.out \o SubSeq(held, 1, n))
         /\ \A i : Written(z, i) = Stream(i, z.ended, z.pending, <<>>)
         /\ ~z.ended => Finished(z) = Stream(z.m_bIsInitialized, TRUE,
                                             Append(z.pending, EndOfStream), z.out)
<1> DEFINE a == z.m_bIsInitialized
           b == z.ended
           c == z.pending
           d == z.out
<1>1. z = Stream(a, b, c, d)
  <2>1. ASSUME NEW A, NEW C, z \in [m_bIsInitialized : A, ended : A, pending : C, out : C]
        PROVE  z = Stream(a, b, c, d)
    BY ONLY <2>1 DEF Stream
  <2> QED BY <2>1, Zenon DEF Streams
<1>2. \A i, e, p, o, x :
        /\ [Stream(i, e, p, o) EXCEPT !.m_bIsInitialized = x] = Stream(x, e, p, o)
        /\ [Stream(i, e, p, o) EXCEPT !.ended = x] = Stream(i, x, p, o)
        /\ [Stream(i, e, p, o) EXCEPT !.pending = x] = Stream(i, e, x, o)
        /\ [Stream(i, e, p, o) EXCEPT !.out = x] = Stream(i, e, p, x)
  BY DEF Stream
<1>3. ASSUME NEW held, NEW n
      PROVE  Deflated(z, held, n)
               = Stream(a, b, SubSeq(held, n + 1, Len(held)), d \o SubSeq(held, 1, n))
  <2> DEFINE o == d \o SubSeq(held, 1, n)
             p == SubSeq(held, n + 1, Len(held))
  <2>1. PICK g : g = [z EXCEPT !.out = o]
    OBVIOUS
  <2>2. Deflated(z, held, n) = [g EXCEPT !.pending = p]
    BY <2>1 DEF Deflated
  <2> HIDE DEF a, b, c, d, o, p
  <2>3. g = Stream(a, b, c, o)
    BY ONLY <1>1, <1>2, <2>1
  <2>4. [g EXCEPT !.pending = p] = Stream(a, b, p, o)
    BY ONLY <1>2, <2>3
  <2>5. Deflated(z, held, n) = Stream(a, b, p, o)
    BY ONLY <2>2, <2>4, Zenon
  <2> QED BY <2>5, Zenon DEF o, p
<1>4. ASSUME NEW i PROVE Written(z, i) = Stream(i, b, c, <<>>)
  <2>1. PICK g : g = [z EXCEPT !.out = <<>>]
    OBVIOUS
  <2>2. Written(z, i) = [g EXCEPT !.m_bIsInitialized = i]
    BY <2>1 DEF Written
  <2> HIDE DEF a, b, c, d
  <2>3. g = Stream(a, b, c, <<>>)
    BY ONLY <1>1, <1>2, <2>1
  <2>4. [g EXCEPT !.m_bIsInitialized = i] = Stream(i, b, c, <<>>)
    BY ONLY <1>2, <2>3
  <2> QED BY ONLY <2>2, <2>4, Zenon
<1>5. ASSUME ~z.ended PROVE Finished(z) = Stream(a, TRUE, Append(c, EndOfStream), d)
  <2> DEFINE p == Append(c, EndOfStream)
  <2>0. PICK t : t = TRUE
    OBVIOUS
  <2>1. PICK g : g = [z EXCEPT !.ended = t]
    OBVIOUS
  <2>2. Finished(z) = [g EXCEPT !.pending = p]
    BY <1>5, <2>0, <2>1 DEF Finished
  <2> HIDE DEF a, b, c, d, p
  <2>3. g = Stream(a, t, c, d)
    BY ONLY <1>1, <1>2, <2>1
  <2>4. [g EXCEPT !.pending = p] = Stream(a, t, p, d)
    BY ONLY <1>2, <2>3
  <2>5. Finished(z) = Stream(a, t, p, d)
    BY ONLY <2>2, <2>4, Zenon
  <2> QED BY <2>0, <2>5, Zenon DEF p
<1> HIDE DEF a, b, c, d
<1> QED BY <1>3, <1>4, <1>5, Zenon DEF a, b, c, d

(* CallFields: the sets the fields of a call are from.                     *)
LEMMA CallFields ==
  ASSUME NEW c \in Calls
  PROVE  /\ c.name \in Names \cup {"none"} /\ c.key \in 0..MaxKey /\ c.data \in Seq(Bytes)
         /\ c.op \in {"none", "write", "create", "destroy"}
BY DEF Calls

Pcs == {"idle", "deflate", "drain", "close", "finish", "spill", "flush",
        "descriptor", "extra", "end", "key", "header", "stream", "directory"}
Ops == {"none", "write", "create", "destroy"}

CallOf(pc, op, name, k, data) ==
  [pc |-> pc, op |-> op, name |-> name, key |-> k, data |-> data]

CallParts(p, o, n, k, d) ==
  /\ p \in Pcs /\ o \in Ops /\ n \in Names \cup {"none"} /\ k \in 0..MaxKey
  /\ d \in Seq(Bytes)

IsCall(c, p, o, n, k, d) ==
  c \in Calls /\ c.pc = p /\ c.op = o /\ c.name = n /\ c.key = k /\ c.data = d

(* CallMade: a call and its fields.                                        *)
LEMMA CallMade ==
  ASSUME NEW p, NEW o, NEW n, NEW k, NEW d, CallParts(p, o, n, k, d)
  PROVE  IsCall(CallOf(p, o, n, k, d), p, o, n, k, d)
<1>1. ASSUME NEW P, NEW O, NEW N, NEW K, NEW D,
             p \in P, o \in O, n \in N, k \in K, d \in D
      PROVE  CallOf(p, o, n, k, d) \in [pc : P, op : O, name : N, key : K, data : D]
  BY ONLY <1>1 DEF CallOf
<1>2. CallOf(p, o, n, k, d)
        \in [pc : Pcs, op : Ops, name : Names \cup {"none"}, key : 0..MaxKey, data : Seq(Bytes)]
  BY <1>1, Zenon DEF CallParts
<1>3. CallOf(p, o, n, k, d) \in Calls
  BY <1>2, Zenon DEF Calls, Pcs, Ops
<1>4. /\ CallOf(p, o, n, k, d).pc = p /\ CallOf(p, o, n, k, d).op = o
      /\ CallOf(p, o, n, k, d).name = n /\ CallOf(p, o, n, k, d).key = k
      /\ CallOf(p, o, n, k, d).data = d
  BY DEF CallOf
<1> QED BY <1>3, <1>4, Zenon DEF IsCall

(* CallExcept: a call with a field changed.                                *)
LEMMA CallExcept ==
  \A p, o, n, k, d, x :
    /\ [CallOf(p, o, n, k, d) EXCEPT !.pc = x] = CallOf(x, o, n, k, d)
    /\ [CallOf(p, o, n, k, d) EXCEPT !.op = x] = CallOf(p, x, n, k, d)
    /\ [CallOf(p, o, n, k, d) EXCEPT !.name = x] = CallOf(p, o, x, k, d)
    /\ [CallOf(p, o, n, k, d) EXCEPT !.key = x] = CallOf(p, o, n, x, d)
    /\ [CallOf(p, o, n, k, d) EXCEPT !.data = x] = CallOf(p, o, n, k, x)
BY DEF CallOf

CallOn(c, p, x) == [c EXCEPT !.pc = p, !.data = x]

(* CallChanged: what the steps make of a call.                             *)
LEMMA CallChanged ==
  ASSUME NEW c \in Calls
  PROVE  /\ \A p : [c EXCEPT !.pc = p] = CallOf(p, c.op, c.name, c.key, c.data)
         /\ \A p, x : CallOn(c, p, x) = CallOf(p, c.op, c.name, c.key, x)
<1>1. c = CallOf(c.pc, c.op, c.name, c.key, c.data)
  <2>1. ASSUME NEW P, NEW O, NEW N, NEW K, NEW D,
               c \in [pc : P, op : O, name : N, key : K, data : D]
        PROVE  c = CallOf(c.pc, c.op, c.name, c.key, c.data)
    BY ONLY <2>1 DEF CallOf
  <2> QED BY <2>1, ZenonT(60) DEF Calls
<1>2. ASSUME NEW p PROVE [c EXCEPT !.pc = p] = CallOf(p, c.op, c.name, c.key, c.data)
  BY ONLY <1>1, CallExcept
<1>3. ASSUME NEW p, NEW x
      PROVE  CallOn(c, p, x) = CallOf(p, c.op, c.name, c.key, x)
  <2>1. PICK g : g = [c EXCEPT !.pc = p]
    OBVIOUS
  <2>2. CallOn(c, p, x) = [g EXCEPT !.data = x]
    BY <2>1 DEF CallOn
  <2>3. g = CallOf(p, c.op, c.name, c.key, c.data)
    BY ONLY <1>1, <2>1, CallExcept
  <2>4. [g EXCEPT !.data = x] = CallOf(p, c.op, c.name, c.key, x)
    BY ONLY <2>3, CallExcept
  <2> QED BY ONLY <2>2, <2>4, Zenon
<1> QED BY <1>2, <1>3, Zenon

CallWrite(k, x) == [Idle EXCEPT !.pc = "deflate", !.op = "write", !.key = k, !.data = x]

(* CallStarts: the calls that begin, and the one that ended.               *)
LEMMA CallStarts ==
  /\ Idle = CallOf("idle", "none", "none", 0, <<>>)
  /\ \A n : [Idle EXCEPT !.pc = "close", !.op = "create", !.name = n]
              = CallOf("close", "create", n, 0, <<>>)
  /\ [Idle EXCEPT !.pc = "close", !.op = "destroy"]
       = CallOf("close", "destroy", "none", 0, <<>>)
  /\ \A k, x : CallWrite(k, x) = CallOf("deflate", "write", "none", k, x)
<1>1. Idle = CallOf("idle", "none", "none", 0, <<>>)
  BY DEF Idle, CallOf
<1>2. ASSUME NEW n PROVE [Idle EXCEPT !.pc = "close", !.op = "create", !.name = n]
                           = CallOf("close", "create", n, 0, <<>>)
  <2>1. PICK g : g = [Idle EXCEPT !.pc = "close"]
    OBVIOUS
  <2>2. g = CallOf("close", "none", "none", 0, <<>>)
    BY ONLY <1>1, <2>1, CallExcept
  <2>3. PICK h : h = [g EXCEPT !.op = "create"]
    OBVIOUS
  <2>4. h = CallOf("close", "create", "none", 0, <<>>)
    BY ONLY <2>2, <2>3, CallExcept
  <2>5. [Idle EXCEPT !.pc = "close", !.op = "create", !.name = n] = [h EXCEPT !.name = n]
    BY <2>1, <2>3
  <2>6. [h EXCEPT !.name = n] = CallOf("close", "create", n, 0, <<>>)
    BY ONLY <2>4, CallExcept
  <2> QED BY ONLY <2>5, <2>6, Zenon
<1>3. [Idle EXCEPT !.pc = "close", !.op = "destroy"]
        = CallOf("close", "destroy", "none", 0, <<>>)
  <2>1. PICK g : g = [Idle EXCEPT !.pc = "close"]
    OBVIOUS
  <2>2. g = CallOf("close", "none", "none", 0, <<>>)
    BY ONLY <1>1, <2>1, CallExcept
  <2>3. [Idle EXCEPT !.pc = "close", !.op = "destroy"] = [g EXCEPT !.op = "destroy"]
    BY <2>1
  <2>4. [g EXCEPT !.op = "destroy"] = CallOf("close", "destroy", "none", 0, <<>>)
    BY ONLY <2>2, CallExcept
  <2> QED BY ONLY <2>3, <2>4, Zenon
<1>4. ASSUME NEW k, NEW x PROVE CallWrite(k, x) = CallOf("deflate", "write", "none", k, x)
  <2>1. PICK g : g = [Idle EXCEPT !.pc = "deflate"]
    OBVIOUS
  <2>2. g = CallOf("deflate", "none", "none", 0, <<>>)
    BY ONLY <1>1, <2>1, CallExcept
  <2>3. PICK h : h = [g EXCEPT !.op = "write"]
    OBVIOUS
  <2>4. h = CallOf("deflate", "write", "none", 0, <<>>)
    BY ONLY <2>2, <2>3, CallExcept
  <2>5. PICK w : w = [h EXCEPT !.key = k]
    OBVIOUS
  <2>6. w = CallOf("deflate", "write", "none", k, <<>>)
    BY ONLY <2>4, <2>5, CallExcept
  <2>7. CallWrite(k, x) = [w EXCEPT !.data = x]
    BY <2>1, <2>3, <2>5 DEF CallWrite
  <2>8. [w EXCEPT !.data = x] = CallOf("deflate", "write", "none", k, x)
    BY ONLY <2>6, CallExcept
  <2> QED BY ONLY <2>7, <2>8, Zenon
<1> QED BY <1>1, <1>2, <1>3, <1>4, Zenon

-----------------------------------------------------------------------------
(* Calls that begin.                                                       *)

(* Begins: createEntry and the destructor start with closeEntry.           *)
LEMMA Begins ==
  ASSUME ZIPInv, Ready, call' \in Calls, call'.pc = "close",
         call'.op \in {"create", "destroy"}, call'.data = <<>>,
         call'.op = "create" => m_nNextEntryKey <= MaxKey,
         UNCHANGED <<writerState, zip, fileState, lifetime, history>>
  PROVE  ZIPInv'
<1>1. /\ UNCHANGED <<m_Entries, m_pCurrentEntry, m_pCurrentStream, m_nCurrentEntryKey,
                     m_nNextEntryKey, m_bIsFinished, zip, file, position, lifetime, failures,
                     given, spoiled>>
      /\ lifetime = "open" /\ call.pc = "idle"
  BY DEF writerState, fileState, history, Ready
<1>2. call.op = "none" /\ call.data = <<>>
  BY <1>1 DEF ZIPInv, Steps
<1>3. TypeInv'
  BY <1>1, Zenon DEF ZIPInv, TypeInv
<1>4. Pointers'
  BY <1>1 DEF ZIPInv, Pointers, Current
<1>5. Steps'
  BY <1>1 DEF ZIPInv, Steps
<1>6. KeysGrow'
  BY <1>1 DEF ZIPInv, KeysGrow
<1>7. Layout'
  BY <1>1 DEF ZIPInv, Layout, Current
<1>8. Checksums'
  BY <1>1, Zenon DEF ZIPInv, Checksums
<1>9. ClosedContents'
  BY <1>1, Zenon DEF ZIPInv, ClosedContents
<1>10. OpenContents'
  BY <1>1, <1>2 DEF ZIPInv, OpenContents, Current
<1>11. Failed'
  BY <1>1 DEF ZIPInv, Failed
<1>12. Directory'
  BY <1>1, Zenon DEF ZIPInv, Directory, EndRecord
<1> QED BY <1>3, <1>4, <1>5, <1>6, <1>7, <1>8, <1>9, <1>10, <1>11, <1>12 DEF ZIPInv

(* CreateEntryStep and DestroyStep: the calls that begin with closeEntry.  *)
LEMMA CreateEntryStep ==
  ASSUME ZIPInv, NEW name \in Names, createEntry(name)
  PROVE  ZIPInv'
<1>1. call' = CallOf("close", "create", name, 0, <<>>)
  BY CallStarts, Zenon DEF createEntry
<1>2. CallParts("close", "create", name, 0, <<>>)
  BY ZIPAssumption DEF CallParts, Pcs, Ops
<1>3. IsCall(call', "close", "create", name, 0, <<>>)
  BY <1>1, <1>2, CallMade, Zenon
<1>4. /\ Ready /\ m_nNextEntryKey <= MaxKey
      /\ UNCHANGED <<writerState, zip, fileState, lifetime, history>>
  BY Zenon DEF createEntry
<1> QED BY <1>3, <1>4, Begins, Zenon DEF IsCall

(* DestroyStep: see CreateEntryStep.                                       *)
LEMMA DestroyStep ==
  ASSUME ZIPInv, destroy
  PROVE  ZIPInv'
<1>1. call' = CallOf("close", "destroy", "none", 0, <<>>)
  BY CallStarts, Zenon DEF destroy
<1>2. CallParts("close", "destroy", "none", 0, <<>>)
  BY ZIPAssumption DEF CallParts, Pcs, Ops
<1>3. IsCall(call', "close", "destroy", "none", 0, <<>>)
  BY <1>1, <1>2, CallMade, Zenon
<1>4. Ready /\ UNCHANGED <<writerState, zip, fileState, lifetime, history>>
  BY Zenon DEF destroy
<1> QED BY <1>3, <1>4, Begins, Zenon DEF IsCall

-----------------------------------------------------------------------------
(* Calls that throw.                                                       *)

(* IdleFacts: no call is in progress.                                      *)
LEMMA IdleFacts ==
  Idle \in Calls /\ Idle.pc = "idle" /\ Idle.op = "none" /\ Idle.data = <<>>
<1>1. CallParts("idle", "none", "none", 0, <<>>)
  BY ZIPAssumption DEF CallParts, Pcs, Ops
<1>2. IsCall(Idle, "idle", "none", "none", 0, <<>>)
  BY <1>1, CallStarts, CallMade, Zenon
<1> QED BY <1>2, Zenon DEF IsCall

(* Busy: while a call is in progress the writer is alive and unfinished.   *)
LEMMA Busy ==
  ASSUME ZIPInv, call.pc # "idle"
  PROVE  lifetime = "open" /\ m_bIsFinished = FALSE
BY DEF ZIPInv, TypeInv, Pointers

(* Quits: a call that throws leaves everything but the write position and, *)
(* when it is a write, loses the data of its entry.                        *)
LEMMA Quits ==
  ASSUME ZIPInv, call.pc # "idle", Throw, UNCHANGED <<writerState, zip, file, given>>,
         spoiled \subseteq spoiled', call.op = "write" => call.key \in spoiled',
         failures' \in Nat, position' \in Nat,
         position' # Len(file) => /\ m_pCurrentEntry /\ m_pCurrentStream # 0
                                  /\ ~zip[m_pCurrentStream].m_bIsInitialized,
         Failed'
  PROVE  ZIPInv'
<1>1. /\ UNCHANGED <<m_Entries, m_pCurrentEntry, m_pCurrentStream, m_nCurrentEntryKey,
                     m_nNextEntryKey, m_bIsFinished, zip, file, given>>
      /\ lifetime = "open" /\ m_bIsFinished = FALSE
      /\ lifetime' \in {"open", "terminated"}
  BY Busy DEF writerState, Throw
<1>2. call' = Idle /\ call' \in Calls /\ call'.pc = "idle" /\ call'.op = "none" /\ call'.data = <<>>
  BY IdleFacts DEF Throw
<1>3. TypeInv'
  BY <1>1, <1>2 DEF ZIPInv, TypeInv
<1>4. Pointers'
  BY <1>1, <1>2 DEF ZIPInv, Pointers, Current
<1>5. Steps'
  BY <1>1, <1>2 DEF ZIPInv, Steps
<1>6. KeysGrow'
  BY <1>1, <1>2 DEF ZIPInv, KeysGrow
<1>7. Layout'
  BY <1>1, <1>2 DEF ZIPInv, Layout, Current
<1>8. Checksums'
  BY <1>1, Zenon DEF ZIPInv, Checksums
<1>9. ClosedContents'
  BY <1>1 DEF ZIPInv, ClosedContents, Complete
<1>10. OpenContents'
  <2>1. SUFFICES ASSUME m_pCurrentEntry, m_nCurrentEntryKey \notin spoiled'
                 PROVE  Flows(file, Current,
                              Total(zip[m_nCurrentEntryKey], given[m_nCurrentEntryKey]),
                              InFlight(zip[m_nCurrentEntryKey], <<>>))
    BY <1>1, <1>2 DEF OpenContents, Current
  <2>2. call.op # "write"
    BY <2>1 DEF ZIPInv, Steps, Pointers
  <2>3. call.data = <<>> /\ m_nCurrentEntryKey \notin spoiled
    BY <2>1, <2>2 DEF ZIPInv, Steps
  <2> QED BY <2>1, <2>2, <2>3 DEF ZIPInv, OpenContents
<1>12. Directory'
  BY <1>1 DEF Directory
<1> QED BY <1>3, <1>4, <1>5, <1>6, <1>7, <1>8, <1>9, <1>10, <1>12 DEF ZIPInv

-----------------------------------------------------------------------------
(* The data on its way to the file.                                        *)

(* Associative: three lists, one behind the other.                         *)
LEMMA Associative ==
  ASSUME NEW S, NEW a \in Seq(S), NEW b \in Seq(S), NEW c \in Seq(S)
  PROVE  /\ (a \o b) \o c = a \o (b \o c)
         /\ a \o <<>> = a /\ <<>> \o a = a
BY ConcatAssociative, ConcatEmptySeq

(* DataAssociative: the same, for what zlib holds.                         *)
LEMMA DataAssociative ==
  ASSUME NEW a \in Seq(Symbols), NEW b \in Seq(Symbols), NEW c \in Seq(Symbols)
  PROVE  (a \o b) \o c = a \o (b \o c)
BY Associative

(* FlowsMore: more data for zlib is behind what it has.                    *)
LEMMA FlowsMore ==
  ASSUME NEW f, NEW e \in Entries, NEW e2 \in Entries, SamePlace(e, e2),
         e2.m_nCompressedSize = e.m_nCompressedSize,
         NEW total \in Seq(Symbols), NEW ahead \in Seq(Symbols), NEW d \in Seq(Symbols),
         Flows(f, e, total, ahead)
  PROVE  Flows(f, e2, total \o d, ahead \o d)
<1> DEFINE w == e.m_nCompressedSize
<1>1. /\ w \in Nat /\ e2.m_nCompressedSize = w /\ e2.m_nDataPosition = e.m_nDataPosition
      /\ Len(total) = w + Len(ahead)
      /\ \A j \in 1..w : f[e.m_nDataPosition + j] = [kind |-> "data", byte |-> total[j]]
      /\ \A j \in 1..Len(ahead) : ahead[j] = total[w + j]
  BY EntryFields DEF Flows, SamePlace
<1> HIDE DEF w
<1>2. /\ Len(ahead) \in Nat /\ Len(d) \in Nat
      /\ Len(total \o d) = Len(total) + Len(d) /\ Len(ahead \o d) = Len(ahead) + Len(d)
      /\ \A j \in 1..Len(total) : (total \o d)[j] = total[j]
      /\ \A j \in 1..Len(d) : (total \o d)[Len(total) + j] = d[j]
      /\ \A j \in 1..Len(ahead) : (ahead \o d)[j] = ahead[j]
      /\ \A j \in 1..Len(d) : (ahead \o d)[Len(ahead) + j] = d[j]
  BY ONLY total \in Seq(Symbols), ahead \in Seq(Symbols), d \in Seq(Symbols)
<1>3. ASSUME NEW j \in 1..w PROVE (total \o d)[j] = total[j]
  <2>1. j \in 1..Len(total)
    BY <1>1, <1>2
  <2> QED BY <1>2, <2>1
<1>4. ASSUME NEW j \in 1..Len(ahead \o d) PROVE (ahead \o d)[j] = (total \o d)[w + j]
  <2>0. j \in 1..(Len(ahead) + Len(d))
    BY <1>2
  <2>1. j \in 1..Len(ahead) \/ \E l \in 1..Len(d) : j = Len(ahead) + l
    BY <1>2, <2>0, SplitPlace, Zenon
  <2>2. CASE j \in 1..Len(ahead)
    <3>1. w + j \in 1..Len(total)
      BY <1>1, <1>2, <2>2
    <3> QED BY <1>1, <1>2, <2>2, <3>1, Zenon
  <2>3. ASSUME NEW l \in 1..Len(d), j = Len(ahead) + l
        PROVE  (ahead \o d)[j] = (total \o d)[w + j]
    <3>1. w + j = Len(total) + l
      BY <1>1, <1>2, <2>3
    <3> QED BY <1>2, <2>3, <3>1, Zenon
  <2> QED BY <2>1, <2>2, <2>3, Zenon
<1>5. Len(total \o d) = w + Len(ahead \o d)
  BY <1>1, <1>2
<1>6. ASSUME NEW j \in 1..w
      PROVE  f[e.m_nDataPosition + j] = [kind |-> "data", byte |-> (total \o d)[j]]
  BY <1>1, <1>3, Zenon
<1> QED BY <1>1, <1>4, <1>5, <1>6, Zenon DEF Flows

(* FlowsWritten: what was ahead is in the file when it is written.         *)
LEMMA FlowsWritten ==
  ASSUME NEW f, IsList(f), NEW g, NEW e \in Entries, NEW e2 \in Entries, SamePlace(e, e2),
         NEW total \in Seq(Symbols), NEW o \in Seq(Symbols), NEW rest \in Seq(Symbols),
         e2.m_nCompressedSize = e.m_nCompressedSize + Len(o),
         DataEnd(e) = Len(f), Appended(f, g, DataBlocks(o)),
         Flows(f, e, total, o \o rest)
  PROVE  Flows(g, e2, total, rest)
<1> DEFINE w == e.m_nCompressedSize
           s == e.m_nDataPosition
<1>1. /\ w \in Nat /\ s \in Nat /\ e2.m_nCompressedSize = w + Len(o)
      /\ e2.m_nDataPosition = s /\ Len(f) = s + w
      /\ Len(total) = w + Len(o \o rest)
      /\ \A j \in 1..w : f[s + j] = [kind |-> "data", byte |-> total[j]]
      /\ \A j \in 1..Len(o \o rest) : (o \o rest)[j] = total[w + j]
  BY EntryFields DEF Flows, SamePlace, DataEnd
<1> HIDE DEF w, s
<1>2. /\ Len(o) \in Nat /\ Len(rest) \in Nat
      /\ Len(o \o rest) = Len(o) + Len(rest)
      /\ \A j \in 1..Len(o) : (o \o rest)[j] = o[j]
      /\ \A j \in 1..Len(rest) : (o \o rest)[Len(o) + j] = rest[j]
      /\ DOMAIN o = 1..Len(o)
  BY ONLY o \in Seq(Symbols), rest \in Seq(Symbols)
<1>3. /\ DataBlocks(o) = [j \in 1..Len(o) |-> [kind |-> "data", byte |-> o[j]]]
      /\ \A j \in 1..Len(o) : DataBlocks(o)[j] = [kind |-> "data", byte |-> o[j]]
  BY <1>2 DEF DataBlocks
<1>4. Len(DataBlocks(o)) = Len(o)
  <2>1. DataBlocks(o) = [j \in 1..Len(o) |-> DataBlocks(o)[j]]
    BY <1>2 DEF DataBlocks
  <2> QED BY <1>2, <2>1, FunctionIsList
<1>5. /\ \A j \in 1..(s + w) : g[j] = f[j]
      /\ \A j \in 1..Len(o) : g[s + w + j] = [kind |-> "data", byte |-> o[j]]
  BY <1>1, <1>3, <1>4, Zenon DEF Appended
<1>6. ASSUME NEW j \in 1..(w + Len(o)) PROVE g[s + j] = [kind |-> "data", byte |-> total[j]]
  <2>1. j \in 1..w \/ \E l \in 1..Len(o) : j = w + l
    BY <1>1, <1>2, SplitPlace
  <2>2. CASE j \in 1..w
    <3>1. s + j \in 1..(s + w)
      BY <1>1, <2>2
    <3> QED BY <1>1, <1>5, <2>2, <3>1, Zenon
  <2>3. ASSUME NEW l \in 1..Len(o), j = w + l PROVE g[s + j] = [kind |-> "data", byte |-> total[j]]
    <3>1. s + j = s + w + l /\ l \in 1..Len(o \o rest)
      BY <1>1, <1>2, <2>3
    <3>2. total[j] = o[l]
      BY <1>1, <1>2, <2>3, <3>1, Zenon
    <3> QED BY <1>5, <2>3, <3>1, <3>2, Zenon
  <2> QED BY <2>1, <2>2, <2>3, Zenon
<1>7. ASSUME NEW j \in 1..Len(rest) PROVE rest[j] = total[w + Len(o) + j]
  <2>1. Len(o) + j \in 1..Len(o \o rest) /\ w + (Len(o) + j) = w + Len(o) + j
    BY <1>1, <1>2
  <2> QED BY <1>1, <1>2, <2>1, Zenon
<1>8. Len(total) = w + Len(o) + Len(rest)
  BY <1>1, <1>2
<1> QED BY <1>1, <1>6, <1>7, <1>8, Zenon DEF Flows

(* The blocks of a file up to position n are those of another.             *)
SameBefore(f, g, n) == \A j \in 1..n : g[j] = f[j]

(* CompleteKept: a closed entry stays complete when nothing before the end *)
(* of its data changes.                                                    *)
LEMMA CompleteKept ==
  ASSUME NEW f, NEW g, NEW e \in Entries, e.m_nDataPosition = e.m_nFilePosition + 3,
         SameBefore(f, g, DataEnd(e)),
         NEW d, NEW lost, NEW lost2, lost \subseteq lost2, Complete(f, e, d, lost)
  PROVE  Complete(g, e, d, lost2)
<1> DEFINE w == e.m_nCompressedSize
           s == e.m_nFilePosition
<1>1. w \in Nat /\ s \in Nat /\ \A j \in 1..(s + 3 + w) : g[j] = f[j]
  BY EntryFields DEF SameBefore, DataEnd
<1>2. g[s + 1] = f[s + 1] /\ g[s + 3] = f[s + 3] /\ \A j \in 1..w : g[s + 3 + j] = f[s + 3 + j]
  BY <1>1
<1> HIDE DEF w, s
<1>3. HeaderWritten(g, e) /\ ExtraWritten(g, e)
  BY <1>2, Zenon DEF Complete, HeaderWritten, ExtraWritten, w, s
<1>4. ASSUME e.key \notin lost2 PROVE Flows(g, e, Append(d, EndOfStream), <<>>)
  <2>1. Flows(f, e, Append(d, EndOfStream), <<>>)
    BY <1>4, Zenon DEF Complete
  <2> QED BY <1>2, <2>1, ZenonT(60) DEF Flows, w, s
<1> QED BY <1>3, <1>4, Zenon DEF Complete

-----------------------------------------------------------------------------
(* The entries.                                                            *)

(* EntryFacts: what is known of every entry.                               *)
LEMMA EntryFacts ==
  ASSUME ZIPInv, NEW i \in DOMAIN m_Entries
  PROVE  /\ i \in 1..Len(m_Entries) /\ m_Entries[i] \in Entries
         /\ m_Entries[i].m_nExtInfoPosition = m_Entries[i].m_nFilePosition + 2
         /\ m_Entries[i].m_nDataPosition = m_Entries[i].m_nFilePosition + 3
         /\ DataEnd(m_Entries[i]) \in Nat /\ DataEnd(m_Entries[i]) <= Len(file)
<1>1. m_Entries \in Seq(Entries)
  BY DEF ZIPInv, TypeInv
<1>2. i \in 1..Len(m_Entries) /\ m_Entries[i] \in Entries
  BY <1>1
<1>3. DataEnd(m_Entries[i]) \in Nat
  BY <1>2, EntryFields DEF DataEnd
<1> QED BY <1>2, <1>3 DEF ZIPInv, Layout

(* CurrentFacts: what is known of the current entry.                       *)
LEMMA CurrentFacts ==
  ASSUME ZIPInv, m_pCurrentEntry
  PROVE  /\ m_Entries \in Seq(Entries) /\ m_Entries # <<>>
         /\ Len(m_Entries) \in DOMAIN m_Entries /\ Len(m_Entries) \in Nat
         /\ DOMAIN m_Entries = 1..Len(m_Entries)
         /\ Current \in Entries /\ Current = m_Entries[Len(m_Entries)]
         /\ Current.key = m_nCurrentEntryKey /\ m_nCurrentEntryKey \in Keys
         /\ Current.m_nExtInfoPosition = Current.m_nFilePosition + 2
         /\ Current.m_nDataPosition = Current.m_nFilePosition + 3
         /\ DataEnd(Current) = Len(file)
<1>1. m_Entries \in Seq(Entries) /\ m_Entries # <<>> /\ Current.key = m_nCurrentEntryKey
  BY DEF ZIPInv, TypeInv, Pointers
<1>2. /\ Len(m_Entries) \in DOMAIN m_Entries /\ Len(m_Entries) \in Nat
      /\ DOMAIN m_Entries = 1..Len(m_Entries)
  BY <1>1
<1>3. Current = m_Entries[Len(m_Entries)]
  BY DEF Current
<1>4. Current \in Entries
  BY <1>1, <1>2, <1>3
<1>5. m_nCurrentEntryKey \in Keys
  BY <1>1, <1>4, EntryFields
<1>6. DataEnd(Current) = Len(file)
  BY DEF ZIPInv, Layout
<1>7. /\ Current.m_nExtInfoPosition = Current.m_nFilePosition + 2
      /\ Current.m_nDataPosition = Current.m_nFilePosition + 3
  BY <1>2, <1>3, EntryFacts
<1> QED BY <1>1, <1>2, <1>3, <1>4, <1>5, <1>6, <1>7, Zenon

(* OtherFacts: the entries before the current one.                         *)
LEMMA OtherFacts ==
  ASSUME ZIPInv, m_pCurrentEntry, NEW i \in DOMAIN m_Entries, i # Len(m_Entries)
  PROVE  /\ i < Len(m_Entries)
         /\ DataEnd(m_Entries[i]) <= Current.m_nFilePosition
         /\ m_Entries[i].key # m_nCurrentEntryKey
         /\ Complete(file, m_Entries[i], given[m_Entries[i].key], spoiled)
<1>1. Len(m_Entries) \in DOMAIN m_Entries /\ i < Len(m_Entries)
  BY CurrentFacts
<1>2. DataEnd(m_Entries[i]) <= Current.m_nFilePosition
  BY <1>1 DEF ZIPInv, Layout, Current
<1>3. m_Entries[i].key < Current.key
  BY <1>1 DEF ZIPInv, KeysGrow, Current
<1>4. m_Entries[i].key \in Nat
  <2>1. m_Entries[i].key \in Keys
    BY EntryFacts, EntryFields, Zenon
  <2> QED BY <2>1 DEF Keys
<1>5. m_Entries[i].key # m_nCurrentEntryKey
  BY <1>3, <1>4, CurrentFacts
<1>6. Complete(file, m_Entries[i], given[m_Entries[i].key], spoiled)
  BY <1>1 DEF ZIPInv, ClosedContents
<1> QED BY <1>1, <1>2, <1>5, <1>6

(* The current entry may have changed, but not its place in the file, and  *)
(* none of the others.                                                     *)
CurrentChanges ==
  /\ m_Entries' \in Seq(Entries) /\ Len(m_Entries') = Len(m_Entries)
  /\ DOMAIN m_Entries' = DOMAIN m_Entries
  /\ \A i \in DOMAIN m_Entries : i # Len(m_Entries) => m_Entries'[i] = m_Entries[i]
  /\ SamePlace(Current, m_Entries'[Len(m_Entries)])

(* SamePlaces: then every entry has the place and the key it had.          *)
LEMMA SamePlaces ==
  ASSUME CurrentChanges, NEW i \in DOMAIN m_Entries
  PROVE  SamePlace(m_Entries[i], m_Entries'[i])
<1>1. CASE i = Len(m_Entries)
  BY <1>1, Zenon DEF CurrentChanges, Current
<1>2. CASE i # Len(m_Entries)
  <2>1. m_Entries'[i] = m_Entries[i]
    BY <1>2, Zenon DEF CurrentChanges
  <2> QED BY <2>1, Zenon DEF SamePlace
<1> QED BY <1>1, <1>2, Zenon

(* ClosedKept: what changes only the current entry, or the file behind the *)
(* start of it, leaves the others complete.                                *)
LEMMA ClosedKept ==
  ASSUME ZIPInv, m_pCurrentEntry, m_pCurrentEntry' = TRUE, CurrentChanges,
         SameBefore(file, file', Current.m_nFilePosition),
         \A k \in Keys : k # m_nCurrentEntryKey => given'[k] = given[k],
         spoiled \subseteq spoiled'
  PROVE  ClosedContents'
<1> SUFFICES ASSUME NEW i \in DOMAIN m_Entries, i # Len(m_Entries)
             PROVE  Complete(file', m_Entries[i], given'[m_Entries[i].key], spoiled')
  <2>1. SUFFICES ASSUME NEW i \in DOMAIN m_Entries', i < Len(m_Entries') \/ ~m_pCurrentEntry'
                 PROVE  Complete(file', m_Entries'[i], given'[m_Entries'[i].key], spoiled')
    BY DEF ClosedContents
  <2>2. i \in DOMAIN m_Entries /\ i # Len(m_Entries)
    <3>1. DOMAIN m_Entries' = DOMAIN m_Entries /\ Len(m_Entries') = Len(m_Entries)
      BY DEF CurrentChanges
    <3> QED BY <2>1, <3>1, CurrentFacts
  <2>3. m_Entries'[i] = m_Entries[i]
    BY <2>2, Zenon DEF CurrentChanges
  <2> QED BY <2>2, <2>3, Zenon
<1>1. /\ m_Entries[i] \in Entries /\ m_Entries[i].m_nDataPosition = m_Entries[i].m_nFilePosition + 3
      /\ DataEnd(m_Entries[i]) \in Nat /\ m_Entries[i].key \in Keys
  BY EntryFacts, EntryFields
<1>2. /\ DataEnd(m_Entries[i]) <= Current.m_nFilePosition
      /\ m_Entries[i].key # m_nCurrentEntryKey
      /\ Complete(file, m_Entries[i], given[m_Entries[i].key], spoiled)
  BY OtherFacts
<1>3. given'[m_Entries[i].key] = given[m_Entries[i].key]
  BY <1>1, <1>2, Zenon
<1>4. SameBefore(file, file', DataEnd(m_Entries[i]))
  <2>1. Current.m_nFilePosition \in Nat
    BY CurrentFacts, EntryFields
  <2> QED BY <1>1, <1>2, <2>1 DEF SameBefore
<1> QED BY <1>1, <1>2, <1>3, <1>4, CompleteKept, Zenon

(* Going: a call goes on.                                                  *)
LEMMA Going ==
  ASSUME ZIPInv, NEW p \in Pcs, Goto(p)
  PROVE  /\ IsCall(call', p, call.op, call.name, call.key, call.data)
         /\ lifetime' = lifetime /\ failures' = failures
<1>1. call \in Calls
  BY DEF ZIPInv, TypeInv
<1>2. call' = CallOf(p, call.op, call.name, call.key, call.data)
  BY <1>1, CallChanged, Zenon DEF Goto
<1>3. CallParts(p, call.op, call.name, call.key, call.data)
  BY <1>1, CallFields, Zenon DEF CallParts, Ops
<1>4. IsCall(call', p, call.op, call.name, call.key, call.data)
  BY <1>2, <1>3, CallMade, Zenon
<1> QED BY <1>4, Zenon DEF Goto

-----------------------------------------------------------------------------
(* The steps of writeChunk.                                                *)

(* WriteBufferStep: the data is counted in the current entry, whose stream *)
(* it is that the client writes to.                                        *)
LEMMA WriteBufferStep ==
  ASSUME ZIPInv, NEW k \in Keys, NEW data \in Chunks, writeBuffer(k, data)
  PROVE  ZIPInv'
<1> DEFINE e == Current
           f == calculateChecksum(e, data)
<1>e. m_Entries' = ReplaceLast(m_Entries, f)
  BY Zenon DEF writeBuffer, ReplaceLast, Current
<1>1. /\ UNCHANGED <<m_pCurrentEntry, m_pCurrentStream, m_nCurrentEntryKey, m_nNextEntryKey,
                     m_bIsFinished, zip, file, position, lifetime, failures, spoiled>>
      /\ lifetime = "open" /\ call.pc = "idle"
      /\ given' = [given EXCEPT ![k] = given[k] \o data]
      /\ zip[k].m_bIsInitialized
  BY DEF writeBuffer, Ready, fileState
<1>2. data \in Seq(Bytes)
  BY ZIPAssumption
<1>3. call.op = "none" /\ call.data = <<>>
  BY <1>1 DEF ZIPInv, Steps
<1>4. k \in Nat /\ k # 0 /\ m_pCurrentStream = k /\ m_pCurrentEntry /\ m_nCurrentEntryKey = k
  BY <1>1 DEF ZIPInv, Pointers, Keys
<1>5. IsCall(call', "deflate", "write", "none", k, data)
  <2>0. call' = CallWrite(k, data)
    BY Zenon DEF writeBuffer, CallWrite
  <2>1. call' = CallOf("deflate", "write", "none", k, data)
    BY <2>0, CallStarts, Zenon
  <2>2. CallParts("deflate", "write", "none", k, data)
    BY <1>2 DEF CallParts, Pcs, Ops, Keys
  <2> QED BY <2>1, <2>2, CallMade, Zenon
<1>6. /\ e \in Entries /\ e.key = k /\ e = m_Entries[Len(m_Entries)]
      /\ m_Entries \in Seq(Entries) /\ m_Entries # <<>> /\ DOMAIN m_Entries = 1..Len(m_Entries)
      /\ Len(m_Entries) \in DOMAIN m_Entries
  BY <1>4, CurrentFacts
<1>7. /\ f \in Entries /\ SamePlace(e, f)
      /\ f.m_nCRC32 = e.m_nCRC32 \o data
      /\ f.m_nUncompressedSize = e.m_nUncompressedSize + Len(data)
      /\ f.m_nCompressedSize = e.m_nCompressedSize
  BY <1>2, <1>6, EntryGrows, Zenon DEF After
<1> HIDE DEF e, f
<1>8. /\ m_Entries' \in Seq(Entries) /\ Len(m_Entries') = Len(m_Entries)
      /\ DOMAIN m_Entries' = 1..Len(m_Entries) /\ m_Entries' # <<>>
      /\ m_Entries'[Len(m_Entries)] = f
      /\ \A i \in 1..Len(m_Entries) : i # Len(m_Entries) => m_Entries'[i] = m_Entries[i]
  <2>1. LastIs(Entries, m_Entries, m_Entries', f)
    BY <1>e, <1>6, <1>7, LastChanged, Zenon
  <2> QED BY <2>1, Zenon DEF LastIs
<1>9. CurrentChanges
  BY <1>6, <1>7, <1>8, Zenon DEF CurrentChanges, e
<1>10. ASSUME NEW i \in DOMAIN m_Entries
       PROVE  /\ SamePlace(m_Entries[i], m_Entries'[i])
              /\ m_Entries'[i].m_nCompressedSize = m_Entries[i].m_nCompressedSize
  <2>1. m_Entries'[i].m_nCompressedSize = m_Entries[i].m_nCompressedSize
    BY <1>6, <1>7, <1>8, Zenon
  <2> QED BY <1>9, <2>1, SamePlaces, Zenon
<1>11. /\ given' \in [Keys -> Seq(Bytes)] /\ given'[k] = given[k] \o data
       /\ given[k] \in Seq(Bytes) /\ given[k] \o data \in Seq(Bytes)
       /\ \A l \in Keys : l # k => given'[l] = given[l]
  <2>1. given \in [Keys -> Seq(Bytes)] /\ given[k] \in Seq(Bytes)
    BY DEF ZIPInv, TypeInv
  <2>2. given[k] \o data \in Seq(Bytes)
    BY <1>2, <2>1
  <2> QED BY <1>1, <2>1, <2>2
<1>12. TypeInv'
  BY <1>1, <1>5, <1>8, <1>11 DEF ZIPInv, TypeInv, IsCall
<1>13. Pointers'
  <2>1. m_Entries' # <<>> /\ Current'.key = m_nCurrentEntryKey
    <3>1. Current' = f
      BY <1>8 DEF Current
    <3>2. f.key = k
      BY <1>6, <1>7 DEF SamePlace
    <3> QED BY <1>4, <1>8, <3>1, <3>2, Zenon
  <2> QED BY <1>1, <1>5, <2>1 DEF ZIPInv, Pointers, IsCall
<1>14. Steps'
  BY <1>1, <1>4, <1>5 DEF ZIPInv, Steps, IsCall
<1>15. KeysGrow'
  <2>1. \A i \in DOMAIN m_Entries : m_Entries'[i].key = m_Entries[i].key
    BY <1>10, Zenon DEF SamePlace
  <2>2. \A l \in Keys : (\A i \in DOMAIN m_Entries : m_Entries[i].key # l) => l # k
    BY <1>6
  <2>3. DOMAIN m_Entries' = DOMAIN m_Entries
    BY <1>6, <1>8
  <2>4. call'.pc # "header" /\ m_pCurrentStream # 0
    BY <1>4, <1>5 DEF IsCall
  <2>5. /\ \A i \in DOMAIN m_Entries : m_Entries'[i].key < m_nNextEntryKey
        /\ \A i, j \in DOMAIN m_Entries : i < j => m_Entries'[i].key < m_Entries'[j].key
    BY <2>1 DEF ZIPInv, KeysGrow
  <2>6. ASSUME NEW l \in Keys, \A i \in DOMAIN m_Entries : m_Entries'[i].key # l
        PROVE  zip[l] = NoStream /\ given'[l] = <<>>
    <3>1. \A i \in DOMAIN m_Entries : m_Entries[i].key # l
      BY <2>1, <2>6, Zenon
    <3> QED BY <1>11, <2>2, <3>1, Zenon DEF ZIPInv, KeysGrow
  <2> QED BY <1>1, <2>3, <2>4, <2>5, <2>6, Zenon DEF KeysGrow
<1>16. Layout'
  <2>1. \A i \in DOMAIN m_Entries :
          /\ m_Entries'[i].name = m_Entries[i].name
          /\ m_Entries'[i].m_nFilePosition = m_Entries[i].m_nFilePosition
          /\ m_Entries'[i].m_nExtInfoPosition = m_Entries[i].m_nExtInfoPosition
          /\ m_Entries'[i].m_nDataPosition = m_Entries[i].m_nDataPosition
          /\ DataEnd(m_Entries'[i]) = DataEnd(m_Entries[i])
    BY <1>10, Zenon DEF SamePlace, DataEnd
  <2>2. DataEnd(Current') = DataEnd(Current)
    BY <1>6, <1>8, <2>1, Zenon DEF Current
  <2>3. position = Len(file)
    BY <1>1, <1>4 DEF ZIPInv, Layout
  <2>4. DOMAIN m_Entries' = DOMAIN m_Entries
    BY <1>6, <1>8
  <2>5. DataEnd(Current') = Len(file)
    BY <1>4, <2>2, CurrentFacts
  <2>6. \A i \in DOMAIN m_Entries :
          /\ m_Entries'[i].m_nExtInfoPosition = m_Entries'[i].m_nFilePosition + 2
          /\ m_Entries'[i].m_nDataPosition = m_Entries'[i].m_nFilePosition + 3
          /\ DataEnd(m_Entries'[i]) <= Len(file)
          /\ file[m_Entries'[i].m_nFilePosition + 2] = NameBlock(m_Entries'[i].name)
    BY <2>1 DEF ZIPInv, Layout
  <2>7. \A i, j \in DOMAIN m_Entries :
          i < j => DataEnd(m_Entries'[i]) <= m_Entries'[j].m_nFilePosition
    BY <2>1 DEF ZIPInv, Layout
  <2> QED BY <1>1, <2>3, <2>4, <2>5, <2>6, <2>7 DEF Layout
<1>17. Checksums'
  <2> SUFFICES ASSUME NEW i \in DOMAIN m_Entries
               PROVE  /\ m_Entries'[i].m_nCRC32 = given'[m_Entries'[i].key]
                      /\ m_Entries'[i].m_nUncompressedSize = Len(given'[m_Entries'[i].key])
    BY <1>6, <1>8, Zenon DEF Checksums
  <2>1. /\ m_Entries[i].m_nCRC32 = given[m_Entries[i].key]
        /\ m_Entries[i].m_nUncompressedSize = Len(given[m_Entries[i].key])
        /\ m_Entries'[i].key = m_Entries[i].key
    BY <1>10 DEF ZIPInv, Checksums, SamePlace
  <2>2. CASE i = Len(m_Entries)
    <3>1. Len(given[k] \o data) = Len(given[k]) + Len(data)
      BY <1>2, <1>11
    <3> QED BY <1>6, <1>7, <1>8, <1>11, <2>1, <2>2, <3>1
  <2>3. CASE i # Len(m_Entries)
    <3>1. m_Entries[i].key # k /\ m_Entries[i].key \in Keys
      BY <1>4, <2>3, OtherFacts, EntryFacts, EntryFields
    <3> QED BY <1>6, <1>8, <1>11, <2>1, <2>3, <3>1, Zenon
  <2> QED BY <2>2, <2>3, Zenon
<1>18. ClosedContents'
  <2>1. SameBefore(file, file', Current.m_nFilePosition)
    BY <1>1, Zenon DEF SameBefore
  <2>2. \A l \in Keys : l # m_nCurrentEntryKey => given'[l] = given[l]
    BY <1>4, <1>11, Zenon
  <2>3. m_pCurrentEntry' = TRUE /\ spoiled \subseteq spoiled'
    BY <1>1, <1>4 DEF ZIPInv, TypeInv
  <2> QED BY <1>4, <1>9, <2>1, <2>2, <2>3, ClosedKept, Zenon
<1>19. OpenContents'
  <2> SUFFICES ASSUME k \notin spoiled, ~zip[k].ended
               PROVE  Flows(file, f, Total(zip[k], given'[k]), InFlight(zip[k], data))
    <3>1. Current' = f
      BY <1>8 DEF Current
    <3>2. call'.pc = "deflate" /\ call'.op = "write" /\ call'.data = data
      BY <1>5, Zenon DEF IsCall
    <3> QED BY <1>1, <1>4, <3>1, <3>2 DEF OpenContents
  <2>1. Flows(file, e, Total(zip[k], given[k]), InFlight(zip[k], <<>>))
    BY <1>3, <1>4 DEF ZIPInv, OpenContents, e
  <2>2. Total(zip[k], given[k]) = given[k] /\ Total(zip[k], given'[k]) = given[k] \o data
    BY <1>11 DEF Total
  <2>3. zip[k].out \in Seq(Symbols) /\ zip[k].pending \in Seq(Symbols)
    <3>1. zip[k] \in Streams
      BY DEF ZIPInv, TypeInv
    <3> QED BY <3>1, StreamFields
  <2>4. \A s : s \in Seq(Bytes) => s \in Seq(Symbols)
    BY DEF Symbols
  <2>5. InFlight(zip[k], data) = InFlight(zip[k], <<>>) \o data
    <3>1. <<>> \in Seq(Symbols) /\ data \in Seq(Symbols)
      BY <1>2, <2>4
    <3>2. zip[k].pending \o <<>> = zip[k].pending
      BY <2>3, Associative, Zenon
    <3>3. (zip[k].out \o zip[k].pending) \o data = zip[k].out \o (zip[k].pending \o data)
      BY <2>3, <3>1, DataAssociative, Zenon
    <3> QED BY <3>2, <3>3, Zenon DEF InFlight
  <2>6. InFlight(zip[k], <<>>) \in Seq(Symbols)
    BY <2>3 DEF InFlight
  <2>7. given[k] \in Seq(Symbols) /\ data \in Seq(Symbols)
    BY <1>2, <1>11, <2>4, Zenon
  <2>8. Flows(file, f, given[k] \o data, InFlight(zip[k], <<>>) \o data)
    BY <1>6, <1>7, <2>1, <2>2, <2>6, <2>7, FlowsMore, ZenonT(60)
  <2> QED BY <2>2, <2>5, <2>8, Zenon
<1>20. Failed'
  BY <1>1, <1>5 DEF ZIPInv, Failed, IsCall
<1>21. Directory'
  BY <1>1 DEF ZIPInv, Directory, Pointers
<1> QED BY <1>12, <1>13, <1>14, <1>15, <1>16, <1>17, <1>18, <1>19, <1>20, <1>21 DEF ZIPInv

(* StreamsMade: what the steps make of a stream.                           *)
LEMMA StreamsMade ==
  ASSUME NEW z \in Streams
  PROVE  /\ \A held \in Seq(Symbols) : \A n \in 0..Len(held) :
              /\ SubSeq(held, 1, n) \in Seq(Symbols)
              /\ SubSeq(held, n + 1, Len(held)) \in Seq(Symbols)
              /\ StreamIs(Deflated(z, held, n), z.m_bIsInitialized, z.ended,
                          SubSeq(held, n + 1, Len(held)), z.out \o SubSeq(held, 1, n))
         /\ \A i \in BOOLEAN : StreamIs(Written(z, i), i, z.ended, z.pending, <<>>)
         /\ z.ended => Finished(z) = z
         /\ ~z.ended => StreamIs(Finished(z), z.m_bIsInitialized, TRUE,
                                 Append(z.pending, EndOfStream), z.out)
<1>1. /\ z.m_bIsInitialized \in BOOLEAN /\ z.ended \in BOOLEAN
      /\ z.pending \in Seq(Symbols) /\ z.out \in Seq(Symbols) /\ <<>> \in Seq(Symbols)
  BY StreamFields
<1>3. ASSUME NEW held \in Seq(Symbols), NEW n \in 0..Len(held)
      PROVE  /\ SubSeq(held, 1, n) \in Seq(Symbols)
             /\ SubSeq(held, n + 1, Len(held)) \in Seq(Symbols)
             /\ StreamIs(Deflated(z, held, n), z.m_bIsInitialized, z.ended,
                         SubSeq(held, n + 1, Len(held)), z.out \o SubSeq(held, 1, n))
  <2>1. SubSeq(held, 1, n) \in Seq(Symbols) /\ SubSeq(held, n + 1, Len(held)) \in Seq(Symbols)
    BY SubSeqProperties
  <2>2. z.out \o SubSeq(held, 1, n) \in Seq(Symbols)
    BY ONLY <1>1, <2>1
  <2>3. Deflated(z, held, n)
          = Stream(z.m_bIsInitialized, z.ended, SubSeq(held, n + 1, Len(held)),
                   z.out \o SubSeq(held, 1, n))
    BY StreamChanged, Zenon
  <2> QED BY <1>1, <2>1, <2>2, <2>3, StreamMade, Zenon
<1>4. ASSUME NEW i \in BOOLEAN PROVE StreamIs(Written(z, i), i, z.ended, z.pending, <<>>)
  <2>1. Written(z, i) = Stream(i, z.ended, z.pending, <<>>)
    BY StreamChanged, Zenon
  <2> QED BY <1>1, <2>1, StreamMade, Zenon
<1>5. ASSUME ~z.ended
      PROVE  StreamIs(Finished(z), z.m_bIsInitialized, TRUE, Append(z.pending, EndOfStream), z.out)
  <2>1. Append(z.pending, EndOfStream) \in Seq(Symbols)
    BY ONLY <1>1 DEF Symbols
  <2>2. Finished(z) = Stream(z.m_bIsInitialized, TRUE, Append(z.pending, EndOfStream), z.out)
    BY <1>5, StreamChanged, Zenon
  <2>3. TRUE \in BOOLEAN
    OBVIOUS
  <2> QED BY <1>1, <2>1, <2>2, <2>3, StreamMade, Zenon
<1> QED BY <1>3, <1>4, <1>5, Zenon DEF Finished

(* ZipChanged: a step changes one stream.                                  *)
LEMMA ZipChanged ==
  ASSUME ZIPInv, NEW c \in Keys, NEW z \in Streams, zip' = [zip EXCEPT ![c] = z]
  PROVE  zip' \in [Keys -> Streams] /\ zip'[c] = z /\ \A l \in Keys : l # c => zip'[l] = zip[l]
BY DEF ZIPInv, TypeInv

(* Split: what deflate puts out comes before what it keeps.                *)
LEMMA Split ==
  ASSUME NEW held \in Seq(Symbols), NEW n \in 0..Len(held)
  PROVE  held = SubSeq(held, 1, n) \o SubSeq(held, n + 1, Len(held))
<1> DEFINE a == SubSeq(held, 1, n)
           b == SubSeq(held, n + 1, Len(held))
<1>1. /\ a \in Seq(Symbols) /\ Len(a) = n /\ \A j \in 1..n : a[j] = held[j]
      /\ b \in Seq(Symbols) /\ Len(b) = Len(held) - n
      /\ \A j \in 1..(Len(held) - n) : b[j] = held[n + j]
  BY SubSeqProperties
<1> HIDE DEF a, b
<1>2. Joins(held, a, b)
  <2>1. held = [j \in 1..(Len(a) + Len(b)) |-> held[j]]
    <3>1. Len(a) + Len(b) = Len(held) /\ held \in [1..Len(held) -> Symbols]
      BY <1>1
    <3> QED BY <3>1
  <2> QED BY <1>1, <2>1 DEF Joins
<1>3. held = a \o b
  BY <1>1, <1>2, IsConcat
<1> QED BY <1>3 DEF a, b

Regrouped(o, a, b, c) == (o \o a) \o (b \o c) = o \o ((a \o b) \o c)

(* Regroup: four lists, one behind the other.                              *)
LEMMA Regroup ==
  ASSUME NEW o \in Seq(Symbols), NEW a \in Seq(Symbols), NEW b \in Seq(Symbols),
         NEW c \in Seq(Symbols)
  PROVE  Regrouped(o, a, b, c)
<1>1. b \o c \in Seq(Symbols)
  OBVIOUS
<1>2. (o \o a) \o (b \o c) = o \o (a \o (b \o c))
  BY <1>1, DataAssociative, ZenonT(60)
<1>3. (a \o b) \o c = a \o (b \o c)
  BY DataAssociative, Zenon
<1> QED BY <1>2, <1>3, Zenon DEF Regrouped

(* The data d, with p before it, is cut anew: o2 was put out.              *)
Moves(o, p, d, k, held, n) ==
  /\ o \in Seq(Symbols) /\ p \in Seq(Symbols) /\ d \in Seq(Symbols)
  /\ k \in 0..Len(d) /\ held = p \o SubSeq(d, 1, k) /\ n \in 0..Len(held)

Moved(o, p, d, k, held, n) ==
  (o \o SubSeq(held, 1, n)) \o (SubSeq(held, n + 1, Len(held)) \o SubSeq(d, k + 1, Len(d)))
    = o \o (p \o d)

(* FlightKept: deflate moves data on and loses none.                       *)
LEMMA FlightKept ==
  ASSUME NEW o, NEW p, NEW d, NEW k, NEW held, NEW n, Moves(o, p, d, k, held, n)
  PROVE  Moved(o, p, d, k, held, n)
<1> DEFINE h1 == SubSeq(held, 1, n)
           h2 == SubSeq(held, n + 1, Len(held))
           d1 == SubSeq(d, 1, k)
           d2 == SubSeq(d, k + 1, Len(d))
<1>0. /\ o \in Seq(Symbols) /\ p \in Seq(Symbols) /\ d \in Seq(Symbols)
      /\ k \in 0..Len(d) /\ held = p \o d1 /\ n \in 0..Len(held)
  BY Zenon DEF Moves
<1>1. d1 \in Seq(Symbols) /\ d2 \in Seq(Symbols)
  BY <1>0, SubSeqProperties
<1>2. held \in Seq(Symbols)
  BY <1>0, <1>1
<1>3. h1 \in Seq(Symbols) /\ h2 \in Seq(Symbols)
  BY <1>0, <1>2, SubSeqProperties
<1>4. d = d1 \o d2 /\ held = h1 \o h2
  BY <1>0, <1>2, Split, Zenon
<1> HIDE DEF h1, h2, d1, d2
<1>5. (o \o h1) \o (h2 \o d2) = o \o ((h1 \o h2) \o d2)
  <2>1. o \in Seq(Symbols) /\ h1 \in Seq(Symbols) /\ h2 \in Seq(Symbols) /\ d2 \in Seq(Symbols)
    BY <1>0, <1>1, <1>3, Zenon
  <2>2. Regrouped(o, h1, h2, d2)
    BY ONLY <2>1, Regroup, SMT
  <2> QED BY ONLY <2>2, Zenon DEF Regrouped
<1>6. (p \o d1) \o d2 = p \o (d1 \o d2)
  BY <1>0, <1>1, DataAssociative, ZenonT(60)
<1>7. (h1 \o h2) \o d2 = p \o d
  BY <1>0, <1>4, <1>6, Zenon
<1>8. (o \o h1) \o (h2 \o d2) = o \o (p \o d)
  BY <1>5, <1>7, Zenon
<1> QED BY <1>8, Zenon DEF Moved, h1, h2, d2

(* StreamFacts: a call that uses the stream of the current entry.          *)
LEMMA StreamFacts ==
  ASSUME ZIPInv, m_pCurrentStream # 0
  PROVE  /\ m_pCurrentStream \in Keys /\ m_pCurrentEntry
         /\ m_pCurrentStream = m_nCurrentEntryKey
         /\ zip[m_pCurrentStream] \in Streams
         /\ zip[m_pCurrentStream].out \in Seq(Symbols)
         /\ zip[m_pCurrentStream].pending \in Seq(Symbols)
         /\ given[m_pCurrentStream] \in Seq(Bytes)
<1>1. m_pCurrentStream \in Keys
  BY DEF ZIPInv, TypeInv, Keys
<1>2. zip[m_pCurrentStream] \in Streams /\ given[m_pCurrentStream] \in Seq(Bytes)
  BY <1>1 DEF ZIPInv, TypeInv
<1> QED BY <1>1, <1>2, StreamFields DEF ZIPInv, Pointers

(* StreamStep: a step that changes only the stream of the current entry,   *)
(* and does not close it.                                                  *)
LEMMA StreamStep ==
  ASSUME ZIPInv, call.pc # "idle", m_pCurrentStream # 0,
         zip[m_pCurrentStream].m_bIsInitialized,
         UNCHANGED <<writerState, fileState, given, spoiled, lifetime, failures>>,
         NEW z \in Streams, z.m_bIsInitialized, zip' = [zip EXCEPT ![m_pCurrentStream] = z],
         call' \in Calls, call'.pc # "header", Steps', OpenContents', Failed'
  PROVE  ZIPInv'
<1> DEFINE c == m_pCurrentStream
<1>1. /\ UNCHANGED <<m_Entries, m_pCurrentEntry, m_pCurrentStream, m_nCurrentEntryKey,
                     m_nNextEntryKey, m_bIsFinished, file, position, given, spoiled, lifetime,
                     failures>>
      /\ lifetime = "open" /\ m_bIsFinished = FALSE
  BY Busy DEF writerState, fileState
<1>2. c \in Keys /\ m_pCurrentEntry /\ c = m_nCurrentEntryKey
  BY StreamFacts
<1>3. /\ zip' \in [Keys -> Streams] /\ zip'[c] = z
      /\ \A l \in Keys : l # c => zip'[l] = zip[l]
  BY <1>2, ZipChanged, Zenon
<1>4. position = Len(file)
  BY DEF ZIPInv, Layout
<1> HIDE DEF c
<1>5. TypeInv'
  BY <1>1, <1>3 DEF ZIPInv, TypeInv
<1>6. Pointers'
  <2>1. \A l \in Keys : zip'[l].m_bIsInitialized => m_pCurrentStream' = l
    BY <1>1, <1>3 DEF ZIPInv, Pointers, c
  <2> QED BY <1>1, <2>1 DEF ZIPInv, Pointers, Current
<1>7. KeysGrow'
  <2>1. ASSUME NEW l \in Keys, \A i \in DOMAIN m_Entries : m_Entries[i].key # l
        PROVE  zip'[l] = NoStream /\ given[l] = <<>>
    <3>1. l # c
      BY <1>2, <2>1, CurrentFacts
    <3> QED BY <1>3, <2>1, <3>1 DEF ZIPInv, KeysGrow
  <2>2. /\ \A i \in DOMAIN m_Entries : m_Entries[i].key < m_nNextEntryKey
        /\ \A i, j \in DOMAIN m_Entries : i < j => m_Entries[i].key < m_Entries[j].key
    BY DEF ZIPInv, KeysGrow
  <2> QED BY <1>1, <2>1, <2>2 DEF KeysGrow
<1>8. Layout'
  BY <1>1, <1>4 DEF ZIPInv, Layout, Current
<1>9. Checksums' /\ ClosedContents'
  BY <1>1, Zenon DEF ZIPInv, Checksums, ClosedContents
<1>10. Directory'
  BY <1>1 DEF Directory
<1> QED BY <1>5, <1>6, <1>7, <1>8, <1>9, <1>10 DEF ZIPInv

(* DeflateThrows: deflate has no room, or the stream is at its end.        *)
LEMMA DeflateThrows ==
  ASSUME ZIPInv, call.pc = "deflate", Throw, WriteThrows,
         UNCHANGED <<zip, failures, writerState, fileState>>
  PROVE  ZIPInv'
<1>1. call.op = "write"
  BY DEF ZIPInv, Steps
<1>2. spoiled' = spoiled \cup {call.key} /\ given' = given
  BY DEF WriteThrows
<1>3. /\ UNCHANGED <<m_Entries, m_pCurrentEntry, m_pCurrentStream, zip, failures, file, position>>
      /\ lifetime' = lifetime /\ call'.pc = "idle"
  BY <1>1, IdleFacts DEF Throw, writerState, fileState
<1>4. m_pCurrentStream # 0 /\ zip[m_pCurrentStream].m_bIsInitialized
  BY <1>1 DEF ZIPInv, Steps
<1>5. position = Len(file)
  BY <1>4 DEF ZIPInv, Layout
<1>6. Failed'
  BY <1>3, <1>4 DEF ZIPInv, Failed
<1>7. failures' \in Nat /\ position' \in Nat
  BY <1>3 DEF ZIPInv, TypeInv
<1>8. UNCHANGED <<writerState, zip, file, given>> /\ position' = Len(file)
  BY <1>2, <1>3, <1>5
<1>9. spoiled \subseteq spoiled' /\ call.key \in spoiled'
  BY <1>2
<1> QED BY <1>6, <1>7, <1>8, <1>9, Quits, Zenon

(* DeflateStep: deflate takes a part of the buffer and puts out a part of  *)
(* what it holds.                                                          *)
LEMMA DeflateStep ==
  ASSUME ZIPInv, deflate
  PROVE  ZIPInv'
<1> DEFINE c == call.key
           z == zip[c]
           room == BufferSize - Len(z.out)
<1>1. call.pc = "deflate" /\ UNCHANGED <<writerState, fileState>>
  BY Zenon DEF deflate
<1>2. /\ call.op = "write" /\ c = m_pCurrentStream /\ m_pCurrentStream # 0
      /\ z.m_bIsInitialized
  BY <1>1 DEF ZIPInv, Steps
<1>3. /\ c \in Keys /\ m_pCurrentEntry /\ c = m_nCurrentEntryKey /\ z \in Streams
      /\ z.out \in Seq(Symbols) /\ z.pending \in Seq(Symbols)
  BY <1>2, StreamFacts
<1>4. call \in Calls /\ call.data \in Seq(Bytes) /\ call.data \in Seq(Symbols)
  <2>1. call \in Calls
    BY DEF ZIPInv, TypeInv
  <2>2. call.data \in Seq(Bytes)
    BY <2>1, CallFields
  <2> QED BY <2>1, <2>2 DEF Symbols
<1>5. CASE /\ room = 0 \/ z.ended
           /\ Throw
           /\ WriteThrows
           /\ UNCHANGED <<zip, failures>>
  BY <1>1, <1>5, DeflateThrows
<1>6. ASSUME room > 0, ~z.ended, UNCHANGED <<lifetime, history>>,
             NEW k \in 0..Len(call.data), NEW held, held = z.pending \o SubSeq(call.data, 1, k),
             NEW n \in 0..Smaller(room, Len(held)), k < Len(call.data) => n = room,
             zip' = [zip EXCEPT ![c] = Deflated(z, held, n)],
             call' = IF n = room
                     THEN [call EXCEPT !.pc = "drain", !.data = SubSeq(@, k + 1, Len(@))]
                     ELSE Idle
      PROVE  ZIPInv'
  <2> DEFINE rest == SubSeq(call.data, k + 1, Len(call.data))
             p2 == SubSeq(held, n + 1, Len(held))
             o2 == z.out \o SubSeq(held, 1, n)
             z2 == Deflated(z, held, n)
  <2>0. UNCHANGED <<lifetime, failures, given, spoiled>>
    BY <1>6 DEF history
  <2>1. held \in Seq(Symbols)
    <3>1. SubSeq(call.data, 1, k) \in Seq(Symbols)
      BY <1>4, SubSeqProperties
    <3> QED BY <1>3, <1>6, <3>1
  <2>2. /\ BufferSize \in Nat /\ Len(z.out) \in Nat /\ Len(held) \in Nat
        /\ n \in 0..Len(held) /\ n <= room
    <3>1. BufferSize \in Nat /\ Len(z.out) \in Nat /\ Len(held) \in Nat
      BY <1>3, <2>1, ZIPAssumption
    <3>2. ASSUME NEW a \in Int, NEW b \in Int, NEW x \in 0..Smaller(a, b)
          PROVE  x \in 0..b /\ x <= a
      BY DEF Smaller
    <3>3. room \in Int /\ Len(held) \in Int
      BY <3>1
    <3> QED BY <3>1, <3>2, <3>3, Zenon
  <2>3. StreamIs(z2, z.m_bIsInitialized, z.ended, p2, o2)
    BY <1>3, <2>1, <2>2, StreamsMade, Zenon
  <2>4. /\ rest \in Seq(Bytes) /\ Len(rest) = Len(call.data) - k
        /\ SubSeq(held, 1, n) \in Seq(Symbols) /\ Len(SubSeq(held, 1, n)) = n
    BY <1>4, <2>1, <2>2, SubSeqProperties
  <2>5. Len(o2) = Len(z.out) + n
    <3>1. \A a, b \in Seq(Symbols) : Len(a \o b) = Len(a) + Len(b)
      OBVIOUS
    <3> QED BY <1>3, <2>4, <3>1, Zenon
  <2>6. o2 \o (p2 \o rest) = z.out \o (z.pending \o call.data)
    <3>1. Moves(z.out, z.pending, call.data, k, held, n)
      BY <1>3, <1>4, <1>6, <2>2, Zenon DEF Moves
    <3>2. Moved(z.out, z.pending, call.data, k, held, n)
      BY ONLY <3>1, FlightKept, SMT
    <3> QED BY ONLY <3>2, Zenon DEF Moved
  <2>7. n = room => IsCall(call', "drain", call.op, call.name, c, rest)
    <3> SUFFICES ASSUME n = room
                 PROVE  IsCall(call', "drain", call.op, call.name, c, rest)
      OBVIOUS
    <3>1. call' = CallOf("drain", call.op, call.name, c, rest)
      <4>1. call' = CallOn(call, "drain", rest)
        BY <1>6, Zenon DEF CallOn
      <4> QED BY ONLY <1>4, <4>1, CallChanged
    <3>2. CallParts("drain", call.op, call.name, c, rest)
      <4>1. "drain" \in Pcs
        BY DEF Pcs
      <4> QED BY <1>4, <2>4, <4>1, CallFields, Zenon DEF CallParts, Ops
    <3> QED BY <3>1, <3>2, CallMade, Zenon
  <2>8. n # room => /\ call' = Idle /\ call'.data = rest /\ call' \in Calls
                    /\ call'.pc = "idle" /\ call'.op = "none"
    <3> SUFFICES ASSUME n # room
                 PROVE  /\ call' = Idle /\ call'.data = rest /\ call' \in Calls
                        /\ call'.pc = "idle" /\ call'.op = "none"
      OBVIOUS
    <3>1. call' = Idle
      BY <1>6
    <3>2. Len(rest) = 0
      BY <1>4, <1>6, <2>4
    <3>3. rest = <<>>
      BY ONLY <2>4, <3>2
    <3> QED BY <3>1, <3>3, IdleFacts, Zenon
  <2> HIDE DEF rest, p2, o2, z2
  <2>9. call' \in Calls /\ call'.data = rest /\ call'.pc \in {"idle", "drain"}
    BY <2>7, <2>8 DEF IsCall
  <2>10. /\ zip' \in [Keys -> Streams] /\ zip'[c] = z2 /\ z2 \in Streams
    BY <1>3, <1>6, <2>3, ZipChanged, Zenon DEF z2, StreamIs
  <2>11. m_pCurrentStream' = c /\ m_pCurrentEntry' = m_pCurrentEntry
         /\ m_nCurrentEntryKey' = c /\ m_Entries' = m_Entries /\ file' = file
    BY <1>1, <1>2, <1>3 DEF writerState, fileState
  <2>12. Steps'
    <3>1. CASE n = room
      BY <1>2, <1>3, <1>6, <2>3, <2>7, <2>10, <2>11, <3>1 DEF Steps, IsCall, StreamIs, Keys
    <3>2. CASE n # room
      BY <2>8, <3>2, IdleFacts DEF Steps
    <3> QED BY <3>1, <3>2
  <2>13. OpenContents'
    <3>1. SUFFICES ASSUME c \notin spoiled
                   PROVE  Flows(file, Current, Total(z2, given[c]), InFlight(z2, rest))
      BY <2>0, <2>9, <2>10, <2>11 DEF OpenContents, Current
    <3>2. Flows(file, Current, Total(z, given[c]), InFlight(z, call.data))
      BY <1>3, <1>6, <3>1 DEF ZIPInv, OpenContents
    <3>3. Total(z2, given[c]) = Total(z, given[c])
      BY <2>3, Zenon DEF Total, StreamIs
    <3>4. InFlight(z2, rest) = InFlight(z, call.data)
      BY <2>3, <2>6, Zenon DEF InFlight, StreamIs
    <3> QED BY <3>2, <3>3, <3>4, Zenon
  <2>14. Failed'
    <3>1. lifetime' = "open"
      BY <1>1, <2>0, Busy
    <3>2. z2.m_bIsInitialized /\ z2.out = o2
      BY <1>2, <2>3, Zenon DEF StreamIs
    <3>3. Len(o2) <= BufferSize /\ (Len(o2) = BufferSize => call'.pc = "drain")
      BY <1>6, <2>2, <2>5, <2>7, SMTT(60) DEF IsCall
    <3> QED BY <1>2, <2>10, <2>11, <3>1, <3>2, <3>3 DEF Failed
  <2>15. z2.m_bIsInitialized /\ call'.pc # "header" /\ call.pc # "idle"
    BY <1>1, <1>2, <2>3, <2>9 DEF StreamIs
  <2>16. UNCHANGED <<writerState, fileState, given, spoiled, lifetime, failures>>
    BY <1>1, <2>0
  <2>17. zip' = [zip EXCEPT ![m_pCurrentStream] = z2]
    BY <1>2, <1>6, Zenon DEF z2
  <2> QED BY <1>2, <2>9, <2>10, <2>12, <2>13, <2>14, <2>15, <2>16, <2>17, StreamStep, Zenon
<1> QED BY <1>5, <1>6 DEF deflate

(* The file behind the start of the current entry may change, but not the  *)
(* name of that entry, and the entry reaches to the end of the file.       *)
FileChanges ==
  /\ IsList(file') /\ Len(file') >= Len(file)
  /\ SameBefore(file, file', Current.m_nFilePosition)
  /\ file'[Current.m_nFilePosition + 2] = file[Current.m_nFilePosition + 2]
  /\ DataEnd(m_Entries'[Len(m_Entries)]) = Len(file')

(* LayoutKept: then the entries lie one behind the other as they did.      *)
LEMMA LayoutKept ==
  ASSUME ZIPInv, m_pCurrentEntry, CurrentChanges, FileChanges,
         position' # Len(file') =>
           /\ m_pCurrentEntry' /\ m_pCurrentStream' # 0
           /\ ~zip'[m_pCurrentStream'].m_bIsInitialized
           /\ call'.pc \in {"idle", "close", "extra", "end"}
  PROVE  Layout'
<1>1. /\ DOMAIN m_Entries' = DOMAIN m_Entries /\ Len(m_Entries') = Len(m_Entries)
      /\ \A i \in DOMAIN m_Entries : i # Len(m_Entries) => m_Entries'[i] = m_Entries[i]
  BY Zenon DEF CurrentChanges
<1>2. ASSUME NEW i \in DOMAIN m_Entries
      PROVE  /\ m_Entries'[i].m_nExtInfoPosition = m_Entries'[i].m_nFilePosition + 2
             /\ m_Entries'[i].m_nDataPosition = m_Entries'[i].m_nFilePosition + 3
             /\ m_Entries'[i].m_nFilePosition = m_Entries[i].m_nFilePosition
             /\ m_Entries'[i].name = m_Entries[i].name
  BY EntryFacts, SamePlaces, Zenon DEF SamePlace
<1>3. ASSUME NEW i \in DOMAIN m_Entries, i # Len(m_Entries)
      PROVE  /\ DataEnd(m_Entries'[i]) \in Nat
             /\ DataEnd(m_Entries'[i]) <= Current.m_nFilePosition
             /\ m_Entries'[i] = m_Entries[i]
  <2>1. m_Entries'[i] = m_Entries[i]
    BY <1>1, <1>3, Zenon
  <2> QED BY <1>3, <2>1, EntryFacts, OtherFacts, Zenon
<1>4. /\ Current.m_nFilePosition \in Nat /\ Len(file') \in Nat /\ Len(file) \in Nat
      /\ Len(file) >= Current.m_nFilePosition + 3 /\ Len(file') >= Len(file)
  <2>1. Current \in Entries /\ DataEnd(Current) = Len(file)
        /\ Current.m_nDataPosition = Current.m_nFilePosition + 3
    BY CurrentFacts
  <2>2. Len(file') \in Nat /\ Len(file) \in Nat
    BY ListFacts DEF FileChanges, ZIPInv, TypeInv
  <2> QED BY <2>1, <2>2, EntryFields DEF FileChanges, DataEnd
<1>5. ASSUME NEW i \in DOMAIN m_Entries PROVE DataEnd(m_Entries'[i]) <= Len(file')
  <2>1. CASE i = Len(m_Entries)
    BY <1>4, <2>1 DEF FileChanges
  <2>2. CASE i # Len(m_Entries)
    BY <1>3, <1>4, <2>2
  <2> QED BY <2>1, <2>2
<1>6. ASSUME NEW i \in DOMAIN m_Entries
      PROVE  file'[m_Entries'[i].m_nFilePosition + 2] = NameBlock(m_Entries'[i].name)
  <2>1. file[m_Entries[i].m_nFilePosition + 2] = NameBlock(m_Entries[i].name)
    BY DEF ZIPInv, Layout
  <2>2. file'[m_Entries[i].m_nFilePosition + 2] = file[m_Entries[i].m_nFilePosition + 2]
    <3>1. CASE i = Len(m_Entries)
      BY <3>1 DEF FileChanges, Current
    <3>2. CASE i # Len(m_Entries)
      <4>1. /\ m_Entries[i] \in Entries
            /\ m_Entries[i].m_nDataPosition = m_Entries[i].m_nFilePosition + 3
        BY EntryFacts, Zenon
      <4>2. m_Entries[i].m_nFilePosition + 2 \in 1..Current.m_nFilePosition
        <5>1. m_Entries[i].m_nFilePosition \in Nat /\ m_Entries[i].m_nCompressedSize \in Nat
          BY <4>1, EntryFields
        <5>2. m_Entries[i].m_nFilePosition + 3 + m_Entries[i].m_nCompressedSize
                <= Current.m_nFilePosition
          BY <3>2, <4>1, OtherFacts DEF DataEnd
        <5> QED BY ONLY <1>4, <5>1, <5>2, SMTT(60)
      <4> QED BY <4>2, Zenon DEF FileChanges, SameBefore
    <3> QED BY <3>1, <3>2
  <2> QED BY <1>2, <2>1, <2>2, Zenon
<1>7. ASSUME NEW i \in DOMAIN m_Entries, NEW j \in DOMAIN m_Entries, i < j
      PROVE  DataEnd(m_Entries'[i]) <= m_Entries'[j].m_nFilePosition
  <2>1. i # Len(m_Entries)
    BY <1>7, CurrentFacts
  <2>2. DataEnd(m_Entries[i]) <= m_Entries[j].m_nFilePosition
    BY <1>7 DEF ZIPInv, Layout
  <2> QED BY <1>2, <1>3, <2>1, <2>2, Zenon
<1>8. DataEnd(Current') = Len(file')
  BY <1>1, Zenon DEF FileChanges, Current
<1> QED BY <1>1, <1>2, <1>5, <1>6, <1>7, <1>8 DEF Layout

(* CurrentStep: a step of a call that uses the stream of the current       *)
(* entry, and changes that entry, its stream and its part of the file.     *)
LEMMA CurrentStep ==
  ASSUME ZIPInv, call.pc # "idle", m_pCurrentStream # 0,
         CurrentChanges, FileChanges,
         m_Entries'[Len(m_Entries)].m_nCRC32 = Current.m_nCRC32,
         m_Entries'[Len(m_Entries)].m_nUncompressedSize = Current.m_nUncompressedSize,
         UNCHANGED <<m_pCurrentEntry, m_pCurrentStream, m_nCurrentEntryKey, m_nNextEntryKey,
                     m_bIsFinished, given, spoiled, lifetime, failures>>,
         NEW z \in Streams, zip' = [zip EXCEPT ![m_pCurrentStream] = z],
         position' \in Nat,
         position' # Len(file') => /\ ~z.m_bIsInitialized
                                   /\ call'.pc \in {"idle", "close", "extra", "end"},
         call' \in Calls, call'.pc # "header", Steps', OpenContents', Failed'
  PROVE  ZIPInv'
<1> DEFINE c == m_pCurrentStream
<1>1. /\ UNCHANGED <<m_pCurrentEntry, m_pCurrentStream, m_nCurrentEntryKey, m_nNextEntryKey,
                     m_bIsFinished, given, spoiled, lifetime, failures>>
      /\ lifetime = "open" /\ m_bIsFinished = FALSE
  BY Busy
<1>2. c \in Keys /\ m_pCurrentEntry /\ c = m_nCurrentEntryKey
  BY StreamFacts
<1>3. /\ zip' \in [Keys -> Streams] /\ zip'[c] = z
      /\ \A l \in Keys : l # c => zip'[l] = zip[l]
  BY <1>2, ZipChanged, Zenon
<1>4. ASSUME NEW i \in DOMAIN m_Entries
      PROVE  /\ m_Entries'[i].key = m_Entries[i].key
             /\ m_Entries'[i].m_nCRC32 = m_Entries[i].m_nCRC32
             /\ m_Entries'[i].m_nUncompressedSize = m_Entries[i].m_nUncompressedSize
  BY SamePlaces, Zenon DEF SamePlace, CurrentChanges, Current
<1>5. /\ m_Entries' \in Seq(Entries) /\ DOMAIN m_Entries' = DOMAIN m_Entries
      /\ Len(m_Entries') = Len(m_Entries) /\ IsList(file')
  BY Zenon DEF CurrentChanges, FileChanges
<1> HIDE DEF c
<1>6. TypeInv'
  BY <1>1, <1>3, <1>5 DEF ZIPInv, TypeInv
<1>7. Pointers'
  <2>1. \A l \in Keys : zip'[l].m_bIsInitialized => m_pCurrentStream' = l
    BY <1>1, <1>3 DEF ZIPInv, Pointers, c
  <2>2. m_Entries' # <<>> /\ Current'.key = m_nCurrentEntryKey
    <3>1. /\ Len(m_Entries) \in DOMAIN m_Entries /\ Current = m_Entries[Len(m_Entries)]
          /\ Current.key = m_nCurrentEntryKey
      BY <1>2, CurrentFacts, Zenon
    <3>2. Current'.key = m_nCurrentEntryKey
      BY <1>4, <1>5, <3>1, Zenon DEF Current
    <3> QED BY <1>5, <3>1, <3>2
  <2> QED BY <1>1, <2>1, <2>2 DEF ZIPInv, Pointers
<1>8. KeysGrow'
  <2>1. ASSUME NEW l \in Keys, \A i \in DOMAIN m_Entries : m_Entries'[i].key # l
        PROVE  zip'[l] = NoStream /\ given[l] = <<>>
    <3>0. \A i \in DOMAIN m_Entries : m_Entries[i].key # l
      BY <1>4, <2>1, Zenon
    <3>1. l # c
      BY <1>2, <3>0, CurrentFacts
    <3> QED BY <1>3, <3>0, <3>1 DEF ZIPInv, KeysGrow
  <2>2. /\ \A i \in DOMAIN m_Entries : m_Entries'[i].key < m_nNextEntryKey
        /\ \A i, j \in DOMAIN m_Entries : i < j => m_Entries'[i].key < m_Entries'[j].key
    BY <1>4 DEF ZIPInv, KeysGrow
  <2> QED BY <1>1, <1>5, <2>1, <2>2 DEF KeysGrow
<1>9. Layout'
  <2>1. position' # Len(file') =>
           /\ m_pCurrentEntry' /\ m_pCurrentStream' # 0
           /\ ~zip'[m_pCurrentStream'].m_bIsInitialized
           /\ call'.pc \in {"idle", "close", "extra", "end"}
    BY <1>1, <1>2, <1>3 DEF c
  <2> QED BY <1>2, <2>1, LayoutKept, Zenon
<1>10. Checksums'
  BY <1>1, <1>4, <1>5, Zenon DEF ZIPInv, Checksums
<1>11. ClosedContents'
  <2>1. m_pCurrentEntry' = TRUE /\ spoiled \subseteq spoiled'
    BY <1>1, <1>2 DEF ZIPInv, TypeInv
  <2>2. \A l \in Keys : l # m_nCurrentEntryKey => given'[l] = given[l]
    BY <1>1, Zenon
  <2>3. SameBefore(file, file', Current.m_nFilePosition)
    BY Zenon DEF FileChanges
  <2> QED BY <1>2, <2>1, <2>2, <2>3, ClosedKept, Zenon
<1>12. Directory'
  BY <1>1 DEF Directory
<1> QED BY <1>6, <1>7, <1>8, <1>9, <1>10, <1>11, <1>12 DEF ZIPInv

(* WriteOutChanges: writeDeflatedBuffer, on the entry and on the file.     *)
LEMMA WriteOutChanges ==
  ASSUME ZIPInv, m_pCurrentStream # 0, position = Len(file), WriteOut(m_pCurrentStream)
  PROVE  /\ CurrentChanges /\ FileChanges /\ position' = Len(file') /\ position' \in Nat
         /\ m_Entries'[Len(m_Entries)] \in Entries
         /\ m_Entries'[Len(m_Entries)].m_nCRC32 = Current.m_nCRC32
         /\ m_Entries'[Len(m_Entries)].m_nUncompressedSize = Current.m_nUncompressedSize
         /\ m_Entries'[Len(m_Entries)].m_nCompressedSize
              = Current.m_nCompressedSize + Len(zip[m_pCurrentStream].out)
         /\ Appended(file, file', DataBlocks(zip[m_pCurrentStream].out))
<1> DEFINE o == zip[m_pCurrentStream].out
           e == Current
           f == increaseCompressedSize(e, Len(o))
           b == DataBlocks(o)
<1>1. o \in Seq(Symbols) /\ m_pCurrentEntry
  BY StreamFacts
<1>2. /\ e \in Entries /\ e = m_Entries[Len(m_Entries)]
      /\ m_Entries \in Seq(Entries) /\ m_Entries # <<>> /\ DOMAIN m_Entries = 1..Len(m_Entries)
      /\ e.m_nDataPosition = e.m_nFilePosition + 3 /\ DataEnd(e) = Len(file)
  BY <1>1, CurrentFacts
<1>3. m_Entries' = ReplaceLast(m_Entries, f) /\ Write(position, b)
  BY Zenon DEF WriteOut, ReplaceLast, Current
<1>4. Len(o) \in Nat /\ DOMAIN o = 1..Len(o)
  BY <1>1
<1>5. /\ f \in Entries /\ SamePlace(e, f) /\ f.m_nCRC32 = e.m_nCRC32
      /\ f.m_nUncompressedSize = e.m_nUncompressedSize
      /\ f.m_nCompressedSize = e.m_nCompressedSize + Len(o)
  BY <1>2, <1>4, EntryWritten, Zenon DEF After
<1>6. IsList(b) /\ Len(b) = Len(o)
  <2>1. b = [j \in 1..Len(o) |-> b[j]]
    BY <1>4 DEF DataBlocks
  <2> QED BY <1>4, <2>1, FunctionIsList
<1>7. IsList(file) /\ Len(file) \in Nat
  BY ListFacts DEF ZIPInv, TypeInv
<1>8. Appended(file, file', b) /\ position' = Len(file')
  BY <1>3, <1>6, <1>7, WriteAppends
<1> HIDE DEF o, e, f, b
<1>9. /\ m_Entries' \in Seq(Entries) /\ Len(m_Entries') = Len(m_Entries)
      /\ DOMAIN m_Entries' = 1..Len(m_Entries)
      /\ m_Entries'[Len(m_Entries)] = f
      /\ \A i \in 1..Len(m_Entries) : i # Len(m_Entries) => m_Entries'[i] = m_Entries[i]
  <2>1. LastIs(Entries, m_Entries, m_Entries', f)
    BY <1>2, <1>3, <1>5, LastChanged, Zenon
  <2> QED BY <2>1, Zenon DEF LastIs
<1>10. CurrentChanges
  BY <1>2, <1>5, <1>9, Zenon DEF CurrentChanges, e
<1>11. /\ e.m_nFilePosition \in Nat /\ e.m_nCompressedSize \in Nat
       /\ Len(file) = e.m_nFilePosition + 3 + e.m_nCompressedSize
  BY <1>2, EntryFields DEF DataEnd
<1>12. /\ IsList(file') /\ Len(file') = Len(file) + Len(o)
       /\ \A j \in 1..Len(file) : file'[j] = file[j]
  BY <1>6, <1>8, Zenon DEF Appended
<1>13. Len(file') >= Len(file) /\ Len(file') \in Nat
  BY <1>4, <1>7, <1>12
<1>14. SameBefore(file, file', e.m_nFilePosition)
  BY <1>11, <1>12 DEF SameBefore
<1>15. file'[e.m_nFilePosition + 2] = file[e.m_nFilePosition + 2]
  BY <1>11, <1>12, SMTT(60)
<1>16. DataEnd(f) = Len(file')
  <2>1. f.m_nDataPosition = e.m_nFilePosition + 3
    BY <1>2, <1>5, Zenon DEF SamePlace
  <2> QED BY <1>4, <1>5, <1>11, <1>12, <2>1 DEF DataEnd
<1>17. FileChanges
  BY <1>9, <1>12, <1>13, <1>14, <1>15, <1>16, Zenon DEF FileChanges, e
<1> QED BY <1>5, <1>8, <1>9, <1>10, <1>13, <1>17, Zenon DEF o, e, b

(* WriteOutStep: a step that writes the output buffer of the stream of the *)
(* current entry to the file.                                              *)
LEMMA WriteOutStep ==
  ASSUME ZIPInv, call.pc # "idle", m_pCurrentStream # 0,
         zip[m_pCurrentStream].m_bIsInitialized,
         call.op = "write" => ~zip[m_pCurrentStream].ended,
         WriteOut(m_pCurrentStream), NEW i \in BOOLEAN,
         zip' = [zip EXCEPT ![m_pCurrentStream] = Written(zip[m_pCurrentStream], i)],
         UNCHANGED <<given, spoiled, lifetime, failures>>,
         call' \in Calls, call'.data = call.data, call'.pc \notin {"header", "extra", "end"},
         Steps', i \/ call'.pc \notin {"idle", "close"}
  PROVE  ZIPInv'
<1> DEFINE c == m_pCurrentStream
           z == zip[c]
           z2 == Written(z, i)
           e == Current
           f == m_Entries'[Len(m_Entries)]
<1>1. /\ UNCHANGED <<m_pCurrentEntry, m_pCurrentStream, m_nCurrentEntryKey, m_nNextEntryKey,
                     m_bIsFinished, given, spoiled, lifetime, failures>>
      /\ lifetime = "open"
  BY Busy DEF WriteOut
<1>2. /\ c \in Keys /\ m_pCurrentEntry /\ c = m_nCurrentEntryKey /\ z \in Streams
      /\ z.out \in Seq(Symbols) /\ z.pending \in Seq(Symbols) /\ given[c] \in Seq(Bytes)
      /\ z.ended \in BOOLEAN
  BY StreamFacts, StreamFields
<1>3. position = Len(file)
  BY DEF ZIPInv, Layout
<1>4. /\ CurrentChanges /\ FileChanges /\ position' = Len(file') /\ position' \in Nat
      /\ f \in Entries /\ f.m_nCRC32 = e.m_nCRC32
      /\ f.m_nUncompressedSize = e.m_nUncompressedSize
      /\ f.m_nCompressedSize = e.m_nCompressedSize + Len(z.out)
      /\ Appended(file, file', DataBlocks(z.out))
  BY <1>3, WriteOutChanges, Zenon
<1>5. StreamIs(z2, i, z.ended, z.pending, <<>>)
  BY <1>2, StreamsMade, Zenon
<1>6. zip'[c] = z2 /\ z2 \in Streams
  BY <1>2, <1>5, ZipChanged, Zenon DEF StreamIs
<1> HIDE DEF c, z2
<1>7. OpenContents'
  <2>1. SUFFICES ASSUME c \notin spoiled
                 PROVE  Flows(file', f, Total(z2, given[c]), InFlight(z2, call.data))
    <3>1. Current' = f
      BY <1>4, Zenon DEF CurrentChanges, Current
    <3> QED BY <1>1, <1>2, <1>6, <3>1 DEF OpenContents, c
  <2>2. Flows(file, e, Total(z, given[c]), InFlight(z, call.data))
    BY <1>2, <2>1 DEF ZIPInv, OpenContents, c
  <2>3. call.data \in Seq(Symbols)
    <3>1. call.data \in Seq(Bytes)
      BY CallFields DEF ZIPInv, TypeInv
    <3> QED BY <3>1 DEF Symbols
  <2>4. z.pending \o call.data \in Seq(Symbols) /\ Total(z, given[c]) \in Seq(Symbols)
    <3>1. \A s \in Seq(Bytes) : s \in Seq(Symbols) /\ Append(s, EndOfStream) \in Seq(Symbols)
      BY DEF Symbols
    <3>2. Total(z, given[c]) \in Seq(Symbols)
      BY <1>2, <3>1, Zenon DEF Total
    <3> QED BY ONLY <1>2, <2>3, <3>2
  <2>5. InFlight(z2, call.data) = z.pending \o call.data
    <3>1. <<>> \o (z.pending \o call.data) = z.pending \o call.data
      BY <2>4, Associative, Zenon
    <3> QED BY <1>5, <3>1, Zenon DEF InFlight, StreamIs
  <2>6. Total(z2, given[c]) = Total(z, given[c])
    BY <1>5, Zenon DEF Total, StreamIs
  <2>7. /\ e \in Entries /\ DataEnd(e) = Len(file) /\ IsList(file) /\ SamePlace(e, f)
    BY <1>2, <1>4, CurrentFacts DEF CurrentChanges, ZIPInv, TypeInv
  <2>8. Flows(file', f, Total(z, given[c]), z.pending \o call.data)
    <3> HIDE DEF e, f, z
    <3>1. PICK t : t = Total(z, given[c])
      OBVIOUS
    <3>2. PICK r : r = z.pending \o call.data
      OBVIOUS
    <3>3. PICK o : o = z.out
      OBVIOUS
    <3>4. Flows(file, e, t, o \o r)
      BY <2>2, <3>1, <3>2, <3>3, Zenon DEF InFlight
    <3>5. t \in Seq(Symbols) /\ r \in Seq(Symbols) /\ o \in Seq(Symbols)
      BY <1>2, <2>4, <3>1, <3>2, <3>3, Zenon
    <3>6. f \in Entries /\ f.m_nCompressedSize = e.m_nCompressedSize + Len(o)
          /\ Appended(file, file', DataBlocks(o))
      BY <1>4, <3>3, Zenon
    <3>7. Flows(file', f, t, r)
      BY ONLY <2>7, <3>4, <3>5, <3>6, FlowsWritten
    <3> QED BY <3>1, <3>2, <3>7, Zenon
  <2> QED BY <2>5, <2>6, <2>8, Zenon
<1>8. Failed'
  <2>1. z2.m_bIsInitialized = i /\ Len(z2.out) = 0
    BY <1>5 DEF StreamIs
  <2>2. BufferSize > 0 /\ BufferSize \in Nat
    BY ZIPAssumption
  <2> QED BY <1>1, <1>2, <1>6, <2>1, <2>2 DEF Failed, c
<1>9. call'.pc # "header" /\ zip' = [zip EXCEPT ![m_pCurrentStream] = z2]
  BY DEF z2, c
<1>10. /\ f.m_nCRC32 = e.m_nCRC32 /\ f.m_nUncompressedSize = e.m_nUncompressedSize
       /\ CurrentChanges /\ FileChanges /\ position' = Len(file') /\ position' \in Nat
  BY <1>4
<1> QED BY <1>1, <1>6, <1>7, <1>8, <1>9, <1>10, CurrentStep, Zenon

(* FailStep: the export stream or zlib fails in a call.                    *)
LEMMA FailStep ==
  ASSUME ZIPInv, call.pc # "idle", Fail, UNCHANGED <<writerState, zip, file, given>>,
         spoiled \subseteq spoiled', call.op = "write" => call.key \in spoiled',
         position' \in Nat,
         position' # Len(file) => /\ m_pCurrentEntry /\ m_pCurrentStream # 0
                                  /\ ~zip[m_pCurrentStream].m_bIsInitialized
  PROVE  ZIPInv'
<1>1. Throw /\ failures' \in Nat /\ failures' > 0
  BY DEF Fail, ZIPInv, TypeInv
<1>2. UNCHANGED <<m_pCurrentStream, zip>>
  BY DEF writerState
<1>3. Failed'
  BY <1>1, <1>2 DEF ZIPInv, Failed
<1> QED BY <1>1, <1>3, Quits, Zenon

(* AtEnd: a stream that is not closed writes to the end of the file.       *)
LEMMA AtEnd ==
  ASSUME ZIPInv, m_pCurrentStream = 0 \/ zip[m_pCurrentStream].m_bIsInitialized
  PROVE  position = Len(file) /\ position \in Nat
BY DEF ZIPInv, Layout, TypeInv

(* DrainStep: the full output buffer is written in a write call.           *)
LEMMA DrainStep ==
  ASSUME ZIPInv, drain
  PROVE  ZIPInv'
<1> DEFINE c == call.key
           z == zip[c]
<1>1. call.pc = "drain"
  BY Zenon DEF drain
<1>2. /\ call.op = "write" /\ c = m_pCurrentStream /\ m_pCurrentStream # 0
      /\ z.m_bIsInitialized /\ ~z.ended
  BY <1>1 DEF ZIPInv, Steps
<1>3. /\ c \in Keys /\ m_pCurrentEntry /\ z \in Streams /\ z.m_bIsInitialized \in BOOLEAN
  BY <1>2, StreamFacts, StreamFields
<1>4. call \in Calls
  BY DEF ZIPInv, TypeInv
<1>5. ASSUME WriteOut(c), zip' = [zip EXCEPT ![c] = Written(z, z.m_bIsInitialized)],
             call' = IF call.data = <<>> THEN Idle ELSE [call EXCEPT !.pc = "deflate"],
             UNCHANGED <<lifetime, history>>
      PROVE  ZIPInv'
  <2>1. PICK i : i = z.m_bIsInitialized
    OBVIOUS
  <2>2. zip' = [zip EXCEPT ![m_pCurrentStream] = Written(zip[m_pCurrentStream], i)]
    BY <1>2, <1>5, <2>1, Zenon
  <2>3. call.data = <<>> => /\ call' \in Calls /\ call'.data = call.data /\ call'.pc = "idle"
                            /\ call'.op = "none"
    BY <1>5, IdleFacts, Zenon
  <2>4. call.data # <<>> => IsCall(call', "deflate", call.op, call.name, call.key, call.data)
    <3> SUFFICES ASSUME call.data # <<>>
                 PROVE  IsCall(call', "deflate", call.op, call.name, call.key, call.data)
      OBVIOUS
    <3>1. call' = CallOf("deflate", call.op, call.name, call.key, call.data)
      BY <1>4, <1>5, CallChanged, Zenon
    <3>2. CallParts("deflate", call.op, call.name, call.key, call.data)
      <4>1. "deflate" \in Pcs
        BY DEF Pcs
      <4> QED BY <1>4, <4>1, CallFields, Zenon DEF CallParts, Ops
    <3> QED BY <3>1, <3>2, CallMade, Zenon
  <2>5. call' \in Calls /\ call'.data = call.data /\ call'.pc \notin {"header", "extra", "end"}
    BY <2>3, <2>4 DEF IsCall
  <2>6. StreamIs(Written(z, i), i, z.ended, z.pending, <<>>)
    BY <1>3, <2>1, StreamsMade, Zenon
  <2>7. zip'[c] = Written(z, i)
    BY <1>2, <1>3, <2>2, <2>6, ZipChanged, Zenon DEF StreamIs
  <2>8. m_pCurrentStream' = c
    BY <1>2, <1>5 DEF WriteOut
  <2>9. zip'[c].m_bIsInitialized
    BY <1>2, <2>1, <2>6, <2>7, Zenon DEF StreamIs
  <2>10. Steps'
    <3>1. CASE call.data = <<>>
      BY <2>3, <3>1 DEF Steps
    <3>2. CASE call.data # <<>>
      BY <1>2, <2>4, <2>8, <2>9, <3>2 DEF Steps, IsCall
    <3> QED BY <3>1, <3>2
  <2>11. UNCHANGED <<given, spoiled, lifetime, failures>> /\ call.pc # "idle"
    BY <1>1, <1>5 DEF history
  <2>12. i \in BOOLEAN /\ i
    BY <1>2, <1>3, <2>1
  <2>13. WriteOut(m_pCurrentStream) /\ zip[m_pCurrentStream].m_bIsInitialized
         /\ ~zip[m_pCurrentStream].ended
    BY <1>2, <1>5, Zenon
  <2> QED BY <1>2, <2>2, <2>5, <2>10, <2>11, <2>12, <2>13, WriteOutStep, Zenon
<1>6. ASSUME Fail, WriteThrows, UNCHANGED <<writerState, zip, fileState>> PROVE ZIPInv'
  <2>1. position = Len(file) /\ position \in Nat
    BY <1>2, AtEnd
  <2>2. UNCHANGED <<writerState, zip, file, given>> /\ position' = position
    BY <1>6 DEF fileState, WriteThrows
  <2>3. spoiled \subseteq spoiled' /\ call.key \in spoiled' /\ call.pc # "idle"
    BY <1>1, <1>6 DEF WriteThrows
  <2>4. position' \in Nat /\ position' = Len(file)
    BY <2>1, <2>2
  <2> QED BY <1>6, <2>2, <2>3, <2>4, FailStep, Zenon
<1> QED BY <1>5, <1>6, Zenon DEF drain

(* FinishWritesStep: the output buffer is written in finishDeflate.        *)
LEMMA FinishWritesStep ==
  ASSUME ZIPInv, NEW p, NEW i, NEW next, FinishWrites(p, i, next),
         \/ p = "spill" /\ i = TRUE /\ next = "finish"
         \/ p = "flush" /\ i = FALSE /\ next = "descriptor"
  PROVE  ZIPInv'
<1> DEFINE c == m_pCurrentStream
           z == zip[c]
<1>1. call.pc = p /\ call.pc # "idle" /\ p \in {"spill", "flush"} /\ i \in BOOLEAN
      /\ UNCHANGED <<given, spoiled>>
  BY DEF FinishWrites
<1>2. /\ m_pCurrentStream # 0 /\ z.m_bIsInitialized /\ z.ended
      /\ (p = "flush" => z.pending = <<>>)
      /\ call.op # "write" /\ call.op # "none" /\ call.data = <<>>
      /\ call.op = "create" => m_nNextEntryKey <= MaxKey
  BY <1>1 DEF ZIPInv, Steps
<1>3. c \in Keys /\ m_pCurrentEntry /\ z \in Streams
  BY <1>2, StreamFacts
<1>4. ASSUME WriteOut(c), zip' = [zip EXCEPT ![c] = Written(z, i)], Goto(next)
      PROVE  ZIPInv'
  <2>1. next \in Pcs
    BY DEF Pcs
  <2>2. /\ IsCall(call', next, call.op, call.name, call.key, call.data)
        /\ lifetime' = lifetime /\ failures' = failures
    BY <1>4, <2>1, Going, Zenon
  <2>3. call' \in Calls /\ call'.data = call.data /\ call'.pc = next /\ call'.op = call.op
    BY <2>2, Zenon DEF IsCall
  <2>4. call'.pc \notin {"header", "extra", "end", "idle", "close"}
    BY <2>3
  <2>6. StreamIs(Written(z, i), i, z.ended, z.pending, <<>>)
    BY <1>1, <1>3, StreamsMade, Zenon
  <2>7. zip'[c] = Written(z, i)
    BY <1>3, <1>4, <2>6, ZipChanged, Zenon DEF StreamIs
  <2>8. m_pCurrentStream' = c /\ m_nNextEntryKey' = m_nNextEntryKey
    BY <1>4 DEF WriteOut
  <2>9. /\ zip'[c].m_bIsInitialized = i /\ zip'[c].ended = z.ended
        /\ zip'[c].pending = z.pending /\ zip'[c].out = <<>>
    BY <2>6, <2>7, Zenon DEF StreamIs
  <2>10. Steps'
    <3>1. CASE p = "spill" /\ i = TRUE /\ next = "finish"
      BY <1>2, <2>3, <2>8, <2>9, <3>1 DEF Steps
    <3>2. CASE p = "flush" /\ i = FALSE /\ next = "descriptor"
      BY <1>2, <2>3, <2>8, <2>9, <3>2 DEF Steps
    <3> QED BY <3>1, <3>2
  <2>11. UNCHANGED <<given, spoiled, lifetime, failures>>
    BY <1>1, <2>2
  <2> QED BY <1>1, <1>2, <1>4, <2>3, <2>4, <2>10, <2>11, WriteOutStep, Zenon
<1>5. ASSUME Fail, UNCHANGED <<writerState, zip, fileState>> PROVE ZIPInv'
  <2>1. position = Len(file) /\ position \in Nat
    BY <1>2, AtEnd
  <2>2. UNCHANGED <<writerState, zip, file, given>> /\ position' = position
    BY <1>1, <1>5 DEF fileState
  <2>3. spoiled \subseteq spoiled'
    BY <1>1
  <2>4. position' \in Nat /\ position' = Len(file)
    BY <2>1, <2>2
  <2> QED BY <1>1, <1>2, <1>5, <2>2, <2>3, <2>4, FailStep, Zenon
<1> QED BY <1>4, <1>5, Zenon DEF FinishWrites

-----------------------------------------------------------------------------
(* The steps of closeEntry.                                                *)

(* PatchStep: a part of the local header of the current entry is           *)
(* overwritten.                                                            *)
LEMMA PatchStep ==
  ASSUME ZIPInv, NEW pc, NEW p, NEW block, NEW next, Patch(pc, p, block, next),
         \/ /\ pc = "descriptor" /\ next = "extra" /\ p = Current.m_nFilePosition
            /\ block = HeaderBlock(Current.m_nCRC32)
         \/ /\ pc = "extra" /\ next = "end" /\ p = Current.m_nExtInfoPosition
            /\ block = ExtraBlock(Current.m_nCompressedSize, Current.m_nUncompressedSize)
  PROVE  ZIPInv'
<1> DEFINE c == m_pCurrentStream
           z == zip[c]
           e == Current
<1>1. call.pc = pc /\ call.pc # "idle" /\ pc \in {"descriptor", "extra"}
      /\ UNCHANGED <<writerState, zip, given, spoiled>>
  BY Zenon DEF Patch
<1>2. /\ c # 0 /\ ~z.m_bIsInitialized /\ z.ended /\ z.pending = <<>> /\ z.out = <<>>
      /\ call.op # "write" /\ call.op # "none" /\ call.data = <<>>
      /\ call.op = "create" => m_nNextEntryKey <= MaxKey
  BY <1>1 DEF ZIPInv, Steps
<1>3. c \in Keys /\ m_pCurrentEntry /\ z \in Streams /\ c = m_nCurrentEntryKey
  BY <1>2, StreamFacts
<1>4. /\ e \in Entries /\ e = m_Entries[Len(m_Entries)] /\ DataEnd(e) = Len(file)
      /\ e.m_nExtInfoPosition = e.m_nFilePosition + 2
      /\ e.m_nDataPosition = e.m_nFilePosition + 3
      /\ m_Entries \in Seq(Entries) /\ Len(m_Entries) \in DOMAIN m_Entries
  BY <1>3, CurrentFacts
<1>5. /\ e.m_nFilePosition \in Nat /\ e.m_nCompressedSize \in Nat
      /\ Len(file) = e.m_nFilePosition + 3 + e.m_nCompressedSize
      /\ IsList(file) /\ Len(file) \in Nat
  BY <1>4, EntryFields, ListFacts DEF DataEnd, ZIPInv, TypeInv
<1>6. p \in Nat /\ p < Len(file) /\ (p = e.m_nFilePosition \/ p = e.m_nFilePosition + 2)
  BY <1>4, <1>5
<1>7. UNCHANGED <<m_Entries, m_pCurrentEntry, m_pCurrentStream, m_nCurrentEntryKey,
                  m_nNextEntryKey, m_bIsFinished, zip, given, spoiled>>
  BY <1>1 DEF writerState
<1>8. ASSUME Write(p, <<block>>), Goto(next) PROVE ZIPInv'
  <2>1. Patched(file, file', p, block) /\ position' = p + 1
    BY <1>5, <1>6, <1>8, WritePatches
  <2>2. /\ IsList(file') /\ Len(file') = Len(file) /\ file'[p + 1] = block
        /\ \A j \in 1..Len(file) : j # p + 1 => file'[j] = file[j]
    BY <2>1, Zenon DEF Patched
  <2>3. next \in Pcs
    BY DEF Pcs
  <2>4. /\ IsCall(call', next, call.op, call.name, call.key, call.data)
        /\ lifetime' = lifetime /\ failures' = failures
    BY <1>8, <2>3, Going, Zenon
  <2>5. call' \in Calls /\ call'.data = call.data /\ call'.pc = next /\ call'.op = call.op
    BY <2>4, Zenon DEF IsCall
  <2> HIDE DEF c, z, e
  <2>6. CurrentChanges
    BY <1>4, <1>7, Zenon DEF CurrentChanges, SamePlace, e
  <2>7. FileChanges
    <3>1. SameBefore(file, file', e.m_nFilePosition)
      BY <1>5, <1>6, <2>2 DEF SameBefore
    <3>2. file'[e.m_nFilePosition + 2] = file[e.m_nFilePosition + 2]
      BY <1>5, <1>6, <2>2
    <3>3. Len(file') >= Len(file)
      BY <1>5, <2>2
    <3>4. DataEnd(m_Entries'[Len(m_Entries)]) = Len(file')
      BY <1>4, <1>7, <2>2, Zenon
    <3> QED BY <2>2, <3>1, <3>2, <3>3, <3>4, Zenon DEF FileChanges, e
  <2>8. Steps'
    BY <1>1, <1>2, <1>7, <2>5 DEF Steps, c, z
  <2>9. OpenContents'
    <3>1. Current' = e
      BY <1>7, Zenon DEF Current, e
    <3>2. HeaderWritten(file', e)
      <4>1. CASE pc = "descriptor"
        BY <2>2, <4>1, Zenon DEF HeaderWritten, e
      <4>2. CASE pc = "extra"
        <5>1. HeaderWritten(file, e)
          BY <1>1, <4>2 DEF ZIPInv, OpenContents, e
        <5>2. file'[e.m_nFilePosition + 1] = file[e.m_nFilePosition + 1]
          <6>1. p = e.m_nFilePosition + 2
            BY <1>4, <4>2 DEF e
          <6> QED BY <1>5, <2>2, <6>1
        <5> QED BY <5>1, <5>2, Zenon DEF HeaderWritten
      <4> QED BY <1>1, <4>1, <4>2
    <3>3. next = "end" => ExtraWritten(file', e)
      <4> SUFFICES ASSUME next = "end" PROVE ExtraWritten(file', e)
        OBVIOUS
      <4>1. /\ p = e.m_nFilePosition + 2
            /\ block = ExtraBlock(e.m_nCompressedSize, e.m_nUncompressedSize)
        BY <1>4 DEF e
      <4>2. p + 1 = e.m_nFilePosition + 3
        BY <1>5, <4>1
      <4> QED BY <2>2, <4>1, <4>2, Zenon DEF ExtraWritten
    <3>4. ASSUME c \notin spoiled
          PROVE  Flows(file', e, Total(z, given[c]), InFlight(z, call.data))
      <4>1. Flows(file, e, Total(z, given[c]), InFlight(z, call.data))
        BY <1>2, <1>3, <3>4 DEF ZIPInv, OpenContents, c, z, e
      <4>2. \A j \in 1..e.m_nCompressedSize :
              file'[e.m_nDataPosition + j] = file[e.m_nDataPosition + j]
        BY <1>4, <1>5, <1>6, <2>2, SMTT(60)
      <4> QED BY <4>1, <4>2, Zenon DEF Flows
    <3> QED BY <1>3, <1>7, <2>5, <3>1, <3>2, <3>3, <3>4, Zenon DEF OpenContents, c, z
  <2>10. Failed'
    <3>1. lifetime' = "open"
      BY <1>1, <2>4, Busy
    <3>2. Len(z.out) = 0 /\ BufferSize \in Nat /\ BufferSize > 0
      BY <1>2, ZIPAssumption
    <3> QED BY <1>2, <1>7, <2>5, <3>1, <3>2 DEF Failed, c, z
  <2>11. zip' = [zip EXCEPT ![m_pCurrentStream] = z]
    <3>1. zip \in [Keys -> Streams]
      BY DEF ZIPInv, TypeInv
    <3> QED BY <1>3, <1>7, <3>1 DEF c, z
  <2>12. position' \in Nat
    BY <1>6, <2>1
  <2>13. /\ ~z.m_bIsInitialized /\ call'.pc \in {"idle", "close", "extra", "end"}
         /\ call'.pc # "header"
    BY <1>2, <2>5
  <2>14. /\ m_Entries'[Len(m_Entries)].m_nCRC32 = Current.m_nCRC32
         /\ m_Entries'[Len(m_Entries)].m_nUncompressedSize = Current.m_nUncompressedSize
    BY <1>4, <1>7, Zenon DEF e
  <2>15. UNCHANGED <<m_pCurrentEntry, m_pCurrentStream, m_nCurrentEntryKey, m_nNextEntryKey,
                     m_bIsFinished, given, spoiled, lifetime, failures>>
    BY <1>7, <2>4
  <2>16. z \in Streams /\ m_pCurrentStream # 0
    BY <1>2, <1>3 DEF c
  <2> QED BY <1>1, <2>5, <2>6, <2>7, <2>8, <2>9, <2>10, <2>11, <2>12, <2>13, <2>14,
             <2>15, <2>16, CurrentStep, Zenon
<1>9. ASSUME Fail, position' \in {position, p}, UNCHANGED file PROVE ZIPInv'
  <2>1. position' \in Nat
    BY <1>6, <1>9 DEF ZIPInv, TypeInv
  <2>2. UNCHANGED <<writerState, zip, file, given>> /\ spoiled \subseteq spoiled'
    BY <1>1, <1>9
  <2> QED BY <1>1, <1>2, <1>3, <1>9, <2>1, <2>2, FailStep, Zenon
<1> QED BY <1>8, <1>9, Zenon DEF Patch

(* EndStep: the entry is closed, and the write position is the end again.  *)
LEMMA EndStep ==
  ASSUME ZIPInv, end
  PROVE  ZIPInv'
<1> DEFINE c == m_pCurrentStream
           z == zip[c]
           e == Current
<1>1. call.pc = "end" /\ UNCHANGED <<file, zip, given, spoiled>>
  BY Zenon DEF end
<1>2. /\ c # 0 /\ ~z.m_bIsInitialized /\ z.ended /\ z.pending = <<>> /\ z.out = <<>>
      /\ call.op \in {"create", "destroy"} /\ call.data = <<>>
      /\ call.op = "create" => m_nNextEntryKey <= MaxKey
  <2>1. call \in Calls
    BY DEF ZIPInv, TypeInv
  <2> QED BY <1>1, <2>1, CallFields DEF ZIPInv, Steps
<1>3. c \in Keys /\ m_pCurrentEntry /\ z \in Streams /\ c = m_nCurrentEntryKey
      /\ given[c] \in Seq(Bytes)
  BY <1>2, StreamFacts
<1>4. lifetime = "open" /\ m_bIsFinished = FALSE
  BY <1>1, Busy
<1>5. ASSUME position' = Len(file), NoCurrentEntry, Goto(AfterClose) PROVE ZIPInv'
  <2>1. /\ m_pCurrentEntry' = FALSE /\ m_pCurrentStream' = 0 /\ m_nCurrentEntryKey' = 0
        /\ UNCHANGED <<m_Entries, m_nNextEntryKey, m_bIsFinished>>
    BY <1>5 DEF NoCurrentEntry
  <2>2. AfterClose \in Pcs
    BY DEF Pcs, AfterClose
  <2>3. /\ IsCall(call', AfterClose, call.op, call.name, call.key, call.data)
        /\ lifetime' = lifetime /\ failures' = failures
    BY <1>5, <2>2, Going, Zenon
  <2>4. /\ call' \in Calls /\ call'.data = <<>> /\ call'.op = call.op
        /\ call'.pc = IF call.op = "create" THEN "key" ELSE "directory"
    BY <1>2, <2>3, Zenon DEF IsCall, AfterClose
  <2>5. IsList(file) /\ Len(file) \in Nat
    BY ListFacts DEF ZIPInv, TypeInv
  <2>6. TypeInv'
    <3>1. 0 \in 0..MaxKey /\ FALSE \in BOOLEAN
      BY ZIPAssumption
    <3>2. position' \in Nat /\ failures' = failures /\ lifetime' = lifetime
      BY <1>5, <2>3, <2>5
    <3> QED BY <1>1, <2>1, <2>4, <3>1, <3>2, Zenon DEF ZIPInv, TypeInv
  <2>7. Pointers'
    <3>1. \A k \in Keys : ~zip[k].m_bIsInitialized
      BY <1>2 DEF ZIPInv, Pointers
    <3> QED BY <1>1, <1>4, <2>1, <2>3, <3>1 DEF Pointers
  <2>8. Steps'
    BY <1>2, <2>1, <2>4 DEF Steps
  <2>9. KeysGrow'
    BY <1>1, <2>1, <2>4 DEF ZIPInv, KeysGrow
  <2>10. Layout'
    BY <1>1, <1>5, <2>1 DEF ZIPInv, Layout
  <2>11. Checksums'
    BY <1>1, <2>1, Zenon DEF ZIPInv, Checksums
  <2>12. Complete(file, e, given[c], spoiled)
    <3>1. HeaderWritten(file, e) /\ ExtraWritten(file, e)
      BY <1>1 DEF ZIPInv, OpenContents
    <3>2. ASSUME c \notin spoiled PROVE Flows(file, e, Append(given[c], EndOfStream), <<>>)
      <4>1. Flows(file, e, Total(z, given[c]), InFlight(z, call.data))
        BY <1>2, <1>3, <3>2 DEF ZIPInv, OpenContents
      <4>2. Total(z, given[c]) = Append(given[c], EndOfStream)
        BY <1>2, Zenon DEF Total
      <4>3. InFlight(z, call.data) = <<>>
        <5>1. <<>> \in Seq(Symbols)
          OBVIOUS
        <5>2. <<>> \o <<>> = <<>>
          BY ONLY <5>1, Associative, Zenon
        <5> QED BY <1>2, <5>2, Zenon DEF InFlight
      <4> QED BY <4>1, <4>2, <4>3, Zenon
    <3>3. e.key = c
      BY <1>3, CurrentFacts
    <3> QED BY <3>1, <3>2, <3>3, Zenon DEF Complete
  <2>13. ClosedContents'
    <3>1. ASSUME NEW i \in DOMAIN m_Entries
          PROVE  Complete(file, m_Entries[i], given[m_Entries[i].key], spoiled)
      <4>1. CASE i = Len(m_Entries)
        <5>1. e.key = c /\ m_Entries[i] = e
          BY <1>3, <4>1, CurrentFacts
        <5> QED BY <2>12, <5>1, Zenon
      <4>2. CASE i # Len(m_Entries)
        BY <1>3, <4>2, OtherFacts, Zenon
      <4> QED BY <4>1, <4>2, Zenon
    <3> QED BY <1>1, <2>1, <3>1, Zenon DEF ClosedContents
  <2>14. OpenContents'
    BY <2>1, <2>4 DEF OpenContents
  <2>15. Failed'
    BY <1>4, <2>1, <2>3 DEF Failed
  <2>16. Directory'
    BY <1>4, <2>1 DEF Directory
  <2> QED BY <2>6, <2>7, <2>8, <2>9, <2>10, <2>11, <2>13, <2>14, <2>15, <2>16 DEF ZIPInv
<1>6. ASSUME Fail, UNCHANGED <<position, writerState>> PROVE ZIPInv'
  <2>1. position' \in Nat /\ spoiled \subseteq spoiled' /\ call.pc # "idle" /\ call.op # "write"
    BY <1>1, <1>2, <1>6 DEF ZIPInv, TypeInv
  <2>2. UNCHANGED <<writerState, zip, file, given>>
    BY <1>1, <1>6
  <2> QED BY <1>2, <1>3, <1>6, <2>1, <2>2, FailStep, Zenon
<1> QED BY <1>5, <1>6, Zenon DEF end

(* CloseStep: closeEntry starts, or has nothing to close, or throws.       *)
LEMMA CloseStep ==
  ASSUME ZIPInv, close
  PROVE  ZIPInv'
<1>1. call.pc = "close" /\ call.pc # "idle" /\ UNCHANGED <<zip, fileState, given, spoiled>>
  BY Zenon DEF close
<1>2. /\ call.op \in {"create", "destroy"} /\ call.data = <<>>
      /\ call.op = "create" => m_nNextEntryKey <= MaxKey
  <2>1. call \in Calls
    BY DEF ZIPInv, TypeInv
  <2> QED BY <1>1, <2>1, CallFields DEF ZIPInv, Steps
<1>3. lifetime = "open" /\ m_bIsFinished = FALSE
  BY <1>1, Busy
<1>4. UNCHANGED <<zip, file, position, given, spoiled>>
  BY <1>1 DEF fileState
<1>5. ASSUME ~m_pCurrentEntry, NoCurrentEntry, Goto(AfterClose) PROVE ZIPInv'
  <2>1. /\ m_pCurrentEntry' = FALSE /\ m_pCurrentStream' = 0 /\ m_nCurrentEntryKey' = 0
        /\ UNCHANGED <<m_Entries, m_nNextEntryKey, m_bIsFinished>>
    BY <1>5 DEF NoCurrentEntry
  <2>2. AfterClose \in Pcs
    BY DEF Pcs, AfterClose
  <2>3. /\ IsCall(call', AfterClose, call.op, call.name, call.key, call.data)
        /\ lifetime' = lifetime /\ failures' = failures
    BY <1>5, <2>2, Going, Zenon
  <2>4. /\ call' \in Calls /\ call'.data = <<>> /\ call'.op = call.op
        /\ call'.pc = IF call.op = "create" THEN "key" ELSE "directory"
    BY <1>2, <2>3, Zenon DEF IsCall, AfterClose
  <2>6. TypeInv'
    <3>1. 0 \in 0..MaxKey /\ FALSE \in BOOLEAN
      BY ZIPAssumption
    <3> QED BY <1>4, <2>1, <2>3, <2>4, <3>1, Zenon DEF ZIPInv, TypeInv
  <2>7. Pointers'
    <3>1. \A k \in Keys : ~zip[k].m_bIsInitialized
      BY <1>5 DEF ZIPInv, Pointers, Keys
    <3> QED BY <1>3, <1>4, <2>1, <2>3, <3>1 DEF Pointers
  <2>8. Steps'
    BY <1>2, <2>1, <2>4 DEF Steps
  <2>9. KeysGrow'
    BY <1>4, <2>1, <2>4 DEF ZIPInv, KeysGrow
  <2>10. Layout'
    BY <1>4, <1>5, <2>1 DEF ZIPInv, Layout
  <2>11. Checksums'
    BY <1>4, <2>1, Zenon DEF ZIPInv, Checksums
  <2>13. ClosedContents'
    BY <1>4, <1>5, <2>1, Zenon DEF ZIPInv, ClosedContents
  <2>14. OpenContents'
    BY <2>1, <2>4 DEF OpenContents
  <2>15. Failed'
    BY <1>3, <2>1, <2>3 DEF Failed
  <2>16. Directory'
    BY <1>3, <2>1 DEF Directory
  <2> QED BY <2>6, <2>7, <2>8, <2>9, <2>10, <2>11, <2>13, <2>14, <2>15, <2>16 DEF ZIPInv
<1>6. ASSUME m_pCurrentEntry, m_pCurrentStream # 0, zip[m_pCurrentStream].m_bIsInitialized,
             Goto("finish"), UNCHANGED writerState
      PROVE  ZIPInv'
  <2> DEFINE c == m_pCurrentStream
             z == zip[c]
  <2>1. /\ IsCall(call', "finish", call.op, call.name, call.key, call.data)
        /\ lifetime' = lifetime /\ failures' = failures
    <3>1. "finish" \in Pcs
      BY DEF Pcs
    <3> QED BY <1>6, <3>1, Going, Zenon
  <2>2. call' \in Calls /\ call'.data = <<>> /\ call'.op = call.op /\ call'.pc = "finish"
    BY <1>2, <2>1, Zenon DEF IsCall
  <2>3. UNCHANGED <<m_Entries, m_pCurrentEntry, m_pCurrentStream, m_nCurrentEntryKey,
                    m_nNextEntryKey, m_bIsFinished>>
    BY <1>6 DEF writerState
  <2>4. z \in Streams /\ c \in Keys
    BY <1>6, StreamFacts
  <2>5. zip' = [zip EXCEPT ![m_pCurrentStream] = z]
    <3>1. zip \in [Keys -> Streams]
      BY DEF ZIPInv, TypeInv
    <3> QED BY <1>4, <2>4, <3>1
  <2>6. Steps'
    BY <1>2, <1>4, <1>6, <2>2, <2>3 DEF Steps
  <2>7. OpenContents'
    BY <1>2, <1>4, <2>2, <2>3 DEF ZIPInv, OpenContents, Current
  <2>8. Failed'
    BY <1>1, <1>4, <1>6, <2>1, <2>2, <2>3 DEF ZIPInv, Failed
  <2>9. UNCHANGED <<writerState, fileState, given, spoiled, lifetime, failures>>
    BY <1>1, <1>6, <2>1
  <2>10. call'.pc # "header"
    BY <2>2
  <2> QED BY <1>1, <1>6, <2>2, <2>4, <2>5, <2>6, <2>7, <2>8, <2>9, <2>10, StreamStep, Zenon
<1>7. ASSUME m_pCurrentEntry, m_pCurrentStream # 0 => ~zip[m_pCurrentStream].m_bIsInitialized,
             Throw, UNCHANGED <<writerState, failures>>
      PROVE  ZIPInv'
  <2>1. UNCHANGED <<m_Entries, m_pCurrentEntry, m_pCurrentStream, m_nCurrentEntryKey,
                    m_nNextEntryKey, m_bIsFinished>>
    BY <1>7 DEF writerState
  <2>2. failures > 0
    BY <1>1, <1>7 DEF ZIPInv, Failed
  <2>3. Failed'
    BY <1>4, <1>7, <2>1, <2>2 DEF ZIPInv, Failed
  <2>4. failures' \in Nat /\ position' \in Nat /\ spoiled \subseteq spoiled' /\ call.op # "write"
    BY <1>2, <1>4, <1>7 DEF ZIPInv, TypeInv
  <2>5. position' # Len(file) => /\ m_pCurrentEntry /\ m_pCurrentStream # 0
                                 /\ ~zip[m_pCurrentStream].m_bIsInitialized
    BY <1>4 DEF ZIPInv, Layout
  <2>6. UNCHANGED <<writerState, zip, file, given>>
    BY <1>4, <1>7
  <2> QED BY <1>1, <1>7, <2>3, <2>4, <2>5, <2>6, Quits, Zenon
<1> QED BY <1>5, <1>6, <1>7, Zenon DEF close

(* FinishedFacts: Z_FINISH puts the end of the stream behind the data.     *)
LEMMA FinishedFacts ==
  ASSUME NEW z \in Streams, NEW data \in Seq(Bytes)
  PROVE  /\ Finished(z) \in Streams /\ Finished(z).ended
         /\ Finished(z).m_bIsInitialized = z.m_bIsInitialized /\ Finished(z).out = z.out
         /\ \A f : \A e \in Entries : Flows(f, e, Total(z, data), InFlight(z, <<>>)) =>
              Flows(f, e, Append(data, EndOfStream), InFlight(Finished(z), <<>>))
<1>1. /\ z.m_bIsInitialized \in BOOLEAN /\ z.ended \in BOOLEAN
      /\ z.pending \in Seq(Symbols) /\ z.out \in Seq(Symbols) /\ <<>> \in Seq(Symbols)
  BY StreamFields
<1>2. CASE z.ended
  <2>1. Finished(z) = z
    BY <1>2, StreamsMade, Zenon
  <2>2. Total(z, data) = Append(data, EndOfStream)
    BY <1>2, Zenon DEF Total
  <2> QED BY <1>2, <2>1, <2>2, Zenon
<1>3. CASE ~z.ended
  <2> DEFINE p2 == Append(z.pending, EndOfStream)
  <2>1. StreamIs(Finished(z), z.m_bIsInitialized, TRUE, p2, z.out)
    BY <1>3, StreamsMade, Zenon
  <2>2. /\ Finished(z) \in Streams /\ Finished(z).ended = TRUE /\ Finished(z).pending = p2
        /\ Finished(z).m_bIsInitialized = z.m_bIsInitialized /\ Finished(z).out = z.out
    BY <2>1, Zenon DEF StreamIs
  <2>3. data \in Seq(Symbols) /\ EndOfStream \in Symbols
    BY DEF Symbols
  <2>4. \A s \in Seq(Symbols) : Append(s, EndOfStream) = s \o <<EndOfStream>>
    BY <2>3
  <2>5. <<EndOfStream>> \in Seq(Symbols)
    BY <2>3
  <2>6. Total(z, data) = data
    BY <1>3, Zenon DEF Total
  <2>7. z.pending \o <<>> = z.pending
    BY <1>1, Associative, Zenon
  <2>8. InFlight(Finished(z), <<>>) = InFlight(z, <<>>) \o <<EndOfStream>>
    <3>1. p2 = z.pending \o <<EndOfStream>>
      BY <1>1, <2>4, Zenon
    <3>2. p2 \in Seq(Symbols)
      BY <1>1, <2>3
    <3>3. p2 \o <<>> = p2
      BY <3>2, Associative, Zenon
    <3>4. (z.out \o z.pending) \o <<EndOfStream>> = z.out \o (z.pending \o <<EndOfStream>>)
      BY <1>1, <2>5, DataAssociative, Zenon
    <3> QED BY <2>2, <2>7, <3>1, <3>3, <3>4, Zenon DEF InFlight
  <2>9. InFlight(z, <<>>) \in Seq(Symbols)
    BY <1>1 DEF InFlight
  <2>10. ASSUME NEW f, NEW e \in Entries, Flows(f, e, data, InFlight(z, <<>>))
         PROVE  Flows(f, e, data \o <<EndOfStream>>, InFlight(z, <<>>) \o <<EndOfStream>>)
    <3>1. SamePlace(e, e)
      BY DEF SamePlace
    <3> QED BY <2>3, <2>5, <2>9, <2>10, <3>1, FlowsMore, Zenon
  <2>11. Append(data, EndOfStream) = data \o <<EndOfStream>>
    BY <2>3, <2>4, Zenon
  <2> QED BY <2>2, <2>6, <2>8, <2>10, <2>11, Zenon
<1> QED BY <1>1, <1>2, <1>3

(* AllMoves: deflate moves what it holds on, when there is nothing behind. *)
LEMMA AllMoves ==
  ASSUME NEW o \in Seq(Symbols), NEW p \in Seq(Symbols), NEW n \in 0..Len(p)
  PROVE  (o \o SubSeq(p, 1, n)) \o (SubSeq(p, n + 1, Len(p)) \o <<>>) = o \o (p \o <<>>)
<1> DEFINE a == SubSeq(p, 1, n)
           b == SubSeq(p, n + 1, Len(p))
<1>1. a \in Seq(Symbols) /\ b \in Seq(Symbols)
  BY SubSeqProperties
<1>2. p = a \o b
  BY Split, Zenon
<1> HIDE DEF a, b
<1>3. b \o <<>> = b /\ p \o <<>> = p
  BY <1>1, Associative, Zenon
<1>4. (o \o a) \o b = o \o (a \o b)
  BY <1>1, DataAssociative, Zenon
<1> QED BY <1>2, <1>3, <1>4, Zenon DEF a, b

(* FinishStep: deflate with Z_FINISH.                                      *)
LEMMA FinishStep ==
  ASSUME ZIPInv, finish
  PROVE  ZIPInv'
<1> DEFINE c == m_pCurrentStream
           z0 == zip[c]
           z == Finished(z0)
           room == BufferSize - Len(z.out)
           n == Smaller(room, Len(z.pending))
           z2 == Deflated(z, z.pending, n)
<1>1. call.pc = "finish" /\ call.pc # "idle" /\ UNCHANGED <<writerState, fileState, given, spoiled>>
  BY Zenon DEF finish
<1>2. /\ c # 0 /\ z0.m_bIsInitialized /\ call.op # "write" /\ call.op # "none"
      /\ call.data = <<>> /\ (call.op = "create" => m_nNextEntryKey <= MaxKey)
  BY <1>1 DEF ZIPInv, Steps
<1>3. /\ c \in Keys /\ m_pCurrentEntry /\ c = m_nCurrentEntryKey /\ z0 \in Streams
      /\ given[c] \in Seq(Bytes)
  BY <1>2, StreamFacts
<1>4. /\ z \in Streams /\ z.ended /\ z.m_bIsInitialized = z0.m_bIsInitialized
      /\ z.out = z0.out
      /\ \A f : \A e \in Entries : Flows(f, e, Total(z0, given[c]), InFlight(z0, <<>>)) =>
           Flows(f, e, Append(given[c], EndOfStream), InFlight(z, <<>>))
  BY <1>3, FinishedFacts, Zenon
<1>5. UNCHANGED <<m_Entries, m_pCurrentEntry, m_pCurrentStream, m_nCurrentEntryKey,
                  m_nNextEntryKey, m_bIsFinished, file, position, given, spoiled>>
  BY <1>1 DEF writerState, fileState
<1>6. position = Len(file) /\ position \in Nat /\ lifetime = "open"
  BY <1>1, <1>2, AtEnd, Busy
<1>7. ASSUME room = 0, Throw, UNCHANGED <<zip, failures>> PROVE ZIPInv'
  <2>1. Len(z0.out) = BufferSize
    <3>1. Len(z.out) \in Nat /\ BufferSize \in Nat
      BY <1>4, StreamFields, ZIPAssumption
    <3> QED BY <1>4, <1>7, <3>1
  <2>2. failures > 0
    BY <1>1, <1>2, <2>1 DEF ZIPInv, Failed
  <2>3. Failed'
    BY <1>5, <1>7, <2>2 DEF ZIPInv, Failed
  <2>4. failures' \in Nat /\ position' \in Nat /\ position' = Len(file)
        /\ spoiled \subseteq spoiled'
    BY <1>5, <1>6, <1>7 DEF ZIPInv, TypeInv
  <2>5. UNCHANGED <<writerState, zip, file, given>>
    BY <1>1, <1>5, <1>7
  <2> QED BY <1>1, <1>2, <1>7, <2>3, <2>4, <2>5, Quits, Zenon
<1>8. ASSUME room > 0, zip' = [zip EXCEPT ![c] = z2], NEW next,
             \/ n = room /\ next = "spill"
             \/ n = Len(z.pending) /\ next = "flush",
             Goto(next)
      PROVE  ZIPInv'
  <2>1. /\ z.out \in Seq(Symbols) /\ z.pending \in Seq(Symbols) /\ Len(z.out) \in Nat
        /\ Len(z.pending) \in Nat /\ BufferSize \in Nat
    BY <1>4, StreamFields, ZIPAssumption
  <2>2. n \in 0..Len(z.pending) /\ n <= room
    <3>1. ASSUME NEW a \in Int, NEW b \in Nat, a > 0
          PROVE  Smaller(a, b) \in 0..b /\ Smaller(a, b) <= a
      BY <3>1 DEF Smaller
    <3>2. room \in Int
      BY <2>1
    <3> QED BY <1>8, <2>1, <3>1, <3>2, Zenon
  <2> HIDE DEF n
  <2>3. StreamIs(z2, z.m_bIsInitialized, z.ended, SubSeq(z.pending, n + 1, Len(z.pending)),
                 z.out \o SubSeq(z.pending, 1, n))
    BY <1>4, <2>1, <2>2, StreamsMade, Zenon
  <2>4. /\ z2 \in Streams /\ z2.m_bIsInitialized /\ z2.ended
        /\ z2.pending = SubSeq(z.pending, n + 1, Len(z.pending))
        /\ z2.out = z.out \o SubSeq(z.pending, 1, n)
    BY <1>2, <1>4, <2>3, Zenon DEF StreamIs
  <2>5. Len(z2.out) = Len(z.out) + n
    <3>1. SubSeq(z.pending, 1, n) \in Seq(Symbols) /\ Len(SubSeq(z.pending, 1, n)) = n
      BY <2>1, <2>2, SubSeqProperties
    <3>2. \A a, b \in Seq(Symbols) : Len(a \o b) = Len(a) + Len(b)
      OBVIOUS
    <3> QED BY <2>1, <2>4, <3>1, <3>2, Zenon
  <2>6. next = "flush" => z2.pending = <<>>
    <3>1. SUFFICES ASSUME n = Len(z.pending) PROVE z2.pending = <<>>
      BY <1>8
    <3>2. /\ SubSeq(z.pending, n + 1, Len(z.pending)) \in Seq(Symbols)
          /\ Len(SubSeq(z.pending, n + 1, Len(z.pending))) = 0
      BY <2>1, <2>2, <3>1, SubSeqProperties
    <3> QED BY ONLY <2>4, <3>2
  <2>7. InFlight(z2, <<>>) = InFlight(z, <<>>)
    <3>1. (z.out \o SubSeq(z.pending, 1, n))
             \o (SubSeq(z.pending, n + 1, Len(z.pending)) \o <<>>)
            = z.out \o (z.pending \o <<>>)
      BY <2>1, <2>2, AllMoves, Zenon
    <3>2. z2.out \o (z2.pending \o <<>>) = z.out \o (z.pending \o <<>>)
      BY <2>4, <3>1, Zenon
    <3> QED BY <3>2, Zenon DEF InFlight
  <2>8. /\ IsCall(call', next, call.op, call.name, call.key, call.data)
        /\ lifetime' = lifetime /\ failures' = failures
    <3>1. next \in Pcs
      BY <1>8 DEF Pcs
    <3> QED BY <1>8, <3>1, Going, Zenon
  <2>9. /\ call' \in Calls /\ call'.data = <<>> /\ call'.op = call.op /\ call'.pc = next
        /\ next \in {"spill", "flush"}
    BY <1>2, <1>8, <2>8, Zenon DEF IsCall
  <2>10. zip'[c] = z2
    BY <1>3, <1>8, <2>4, ZipChanged, Zenon
  <2> HIDE DEF z2, z, z0, c
  <2>11. Steps'
    BY <1>2, <1>5, <2>4, <2>6, <2>9, <2>10 DEF Steps, c
  <2>12. OpenContents'
    <3> SUFFICES ASSUME c \notin spoiled
                 PROVE  Flows(file, Current, Total(z2, given[c]), InFlight(z2, <<>>))
      BY <1>3, <1>5, <2>9, <2>10 DEF OpenContents, Current, c
    <3>1. Flows(file, Current, Total(z0, given[c]), InFlight(z0, <<>>))
      BY <1>2, <1>3 DEF ZIPInv, OpenContents, c, z0
    <3>2. Current \in Entries
      BY <1>3, CurrentFacts
    <3>3. Total(z2, given[c]) = Append(given[c], EndOfStream)
      BY <2>4, Zenon DEF Total
    <3> QED BY <1>4, <2>7, <3>1, <3>2, <3>3, Zenon
  <2>13. Failed'
    <3>1. Len(z2.out) <= BufferSize
      BY <2>1, <2>2, <2>5
    <3>2. lifetime' = "open"
      BY <1>6, <2>8
    <3> QED BY <1>2, <1>5, <2>9, <2>10, <3>1, <3>2 DEF Failed, c
  <2>14. UNCHANGED <<writerState, fileState, given, spoiled, lifetime, failures>>
    BY <1>1, <2>8
  <2>15. call'.pc # "header" /\ zip' = [zip EXCEPT ![m_pCurrentStream] = z2]
         /\ zip[m_pCurrentStream].m_bIsInitialized /\ m_pCurrentStream # 0
    BY <1>2, <1>8, <2>9, Zenon DEF c, z0
  <2> QED BY <1>1, <2>4, <2>9, <2>11, <2>12, <2>13, <2>14, <2>15, StreamStep, Zenon
<1>9. \/ room = 0 /\ Throw /\ UNCHANGED <<zip, failures>>
      \/ /\ room > 0 /\ zip' = [zip EXCEPT ![c] = z2]
         /\ \/ n = room /\ Goto("spill")
            \/ n = Len(z.pending) /\ Goto("flush")
  BY Zenon DEF finish
<1> HIDE DEF c, z0, z, room, n, z2
<1> QED BY <1>7, <1>8, <1>9, Zenon

-----------------------------------------------------------------------------
(* The steps of createEntry behind closeEntry, and writeDirectory.         *)

(* KeyStep: the new entry gets its key, or is refused.                     *)
LEMMA KeyStep ==
  ASSUME ZIPInv, key
  PROVE  ZIPInv'
<1>1. /\ call.pc = "key" /\ m_nCurrentEntryKey' = m_nNextEntryKey
      /\ m_nNextEntryKey' = m_nNextEntryKey + 1
      /\ UNCHANGED <<m_Entries, m_pCurrentEntry, m_pCurrentStream, m_bIsFinished, zip, file,
                     position, given, spoiled>>
  BY DEF key, fileState
<1>2. /\ call.op = "create" /\ call.data = <<>> /\ m_nNextEntryKey <= MaxKey
      /\ m_pCurrentEntry = FALSE
  BY <1>1 DEF ZIPInv, Steps, TypeInv
<1>3. m_pCurrentStream = 0
  BY <1>2 DEF ZIPInv, Pointers
<1>4. lifetime = "open" /\ m_bIsFinished = FALSE
  BY <1>1, Busy
<1>5. m_nNextEntryKey \in Nat /\ m_nNextEntryKey \in Keys /\ MaxKey \in Nat
  BY <1>2, ZIPAssumption DEF ZIPInv, TypeInv, Keys
<1>6. /\ call' \in Calls /\ call'.data = <<>> /\ lifetime' = lifetime /\ failures' = failures
      /\ \/ call'.pc = "idle" /\ call'.op = "none"
         \/ call'.pc = "header" /\ call'.op = "create"
  <2>1. CASE Throw /\ UNCHANGED failures
    BY <1>2, <2>1, IdleFacts DEF Throw
  <2>2. CASE Goto("header")
    <3>1. "header" \in Pcs
      BY DEF Pcs
    <3>2. /\ IsCall(call', "header", call.op, call.name, call.key, call.data)
          /\ lifetime' = lifetime /\ failures' = failures
      BY <2>2, <3>1, Going, Zenon
    <3> QED BY <1>2, <3>2, Zenon DEF IsCall
  <2> QED BY <2>1, <2>2, Zenon DEF key
<1>7. position = Len(file)
  BY <1>3, AtEnd
<1>8. TypeInv'
  <2>1. m_nCurrentEntryKey' \in 0..MaxKey /\ m_nNextEntryKey' \in 1..(MaxKey + 1)
    BY <1>1, <1>2, <1>5
  <2> QED BY <1>1, <1>6, <2>1, Zenon DEF ZIPInv, TypeInv
<1>9. Pointers'
  BY <1>1, <1>2, <1>3, <1>4, <1>6 DEF ZIPInv, Pointers
<1>10. Steps'
  BY <1>1, <1>2, <1>6 DEF Steps
<1>11. KeysGrow'
  <2>1. ASSUME NEW i \in DOMAIN m_Entries
        PROVE  m_Entries[i].key < m_nNextEntryKey /\ m_Entries[i].key < m_nNextEntryKey + 1
    <3>1. m_Entries[i].key \in Nat
      <4>1. m_Entries[i].key \in Keys
        BY EntryFacts, EntryFields, Zenon
      <4> QED BY <4>1 DEF Keys
    <3>2. m_Entries[i].key < m_nNextEntryKey
      BY DEF ZIPInv, KeysGrow
    <3> QED BY <1>5, <3>1, <3>2
  <2>2. /\ \A i, j \in DOMAIN m_Entries : i < j => m_Entries[i].key < m_Entries[j].key
        /\ \A k \in Keys : (\A i \in DOMAIN m_Entries : m_Entries[i].key # k) =>
             zip[k] = NoStream /\ given[k] = <<>>
    BY Zenon DEF ZIPInv, KeysGrow
  <2>3. m_nNextEntryKey < m_nNextEntryKey + 1
    BY <1>5
  <2> QED BY <1>1, <1>2, <1>5, <2>1, <2>2, <2>3 DEF KeysGrow
<1>12. Layout'
  BY <1>1, <1>2, <1>7 DEF ZIPInv, Layout
<1>13. Checksums' /\ ClosedContents'
  BY <1>1, Zenon DEF ZIPInv, Checksums, ClosedContents
<1>14. OpenContents'
  BY <1>1, <1>2, <1>6 DEF OpenContents
<1>15. Failed'
  BY <1>1, <1>2, <1>3, <1>4, <1>6 DEF Failed
<1>16. Directory'
  BY <1>1, <1>4 DEF Directory
<1> QED BY <1>8, <1>9, <1>10, <1>11, <1>12, <1>13, <1>14, <1>15, <1>16 DEF ZIPInv

(* An entry that is closed is where it was, and whole.                     *)
Stays(g, e, data, lost) ==
  /\ DataEnd(e) <= Len(g) /\ g[e.m_nFilePosition + 2] = NameBlock(e.name)
  /\ Complete(g, e, data, lost)

(* FileGrows: blocks written when no entry is open go to the end.          *)
LEMMA FileGrows ==
  ASSUME ZIPInv, m_pCurrentEntry = FALSE, NEW b, IsList(b), Write(position, b)
  PROVE  /\ Appended(file, file', b) /\ position' = Len(file') /\ position' \in Nat
         /\ IsList(file') /\ Len(file') \in Nat /\ Len(file) \in Nat
         /\ position = Len(file) /\ Len(file') >= Len(file)
         /\ \A i \in DOMAIN m_Entries :
              Stays(file', m_Entries[i], given[m_Entries[i].key], spoiled)
<1>1. position = Len(file) /\ IsList(file) /\ Len(file) \in Nat /\ Len(b) \in Nat
  BY ListFacts DEF ZIPInv, Layout, TypeInv
<1>2. Appended(file, file', b) /\ position' = Len(file')
  BY <1>1, WriteAppends
<1>3. IsList(file') /\ Len(file') \in Nat /\ Len(file') >= Len(file)
      /\ \A j \in 1..Len(file) : file'[j] = file[j]
  BY <1>1, <1>2, ListFacts DEF Appended
<1>4. ASSUME NEW i \in DOMAIN m_Entries
      PROVE  Stays(file', m_Entries[i], given[m_Entries[i].key], spoiled)
  <2> DEFINE e == m_Entries[i]
  <2>1. /\ e \in Entries /\ e.m_nDataPosition = e.m_nFilePosition + 3
        /\ DataEnd(e) \in Nat /\ DataEnd(e) <= Len(file)
    BY EntryFacts, Zenon
  <2>2. e.m_nFilePosition \in Nat /\ e.m_nCompressedSize \in Nat
    BY <2>1, EntryFields
  <2>3. e.m_nFilePosition + 2 \in 1..Len(file)
    BY <1>1, <2>1, <2>2 DEF DataEnd
  <2>4. file[e.m_nFilePosition + 2] = NameBlock(e.name)
    BY DEF ZIPInv, Layout
  <2>5. SameBefore(file, file', DataEnd(e))
    BY <1>1, <1>3, <2>1 DEF SameBefore
  <2>6. Complete(file, e, given[e.key], spoiled)
    BY DEF ZIPInv, ClosedContents
  <2>7. Complete(file', e, given[e.key], spoiled)
    <3>1. spoiled \subseteq spoiled
      OBVIOUS
    <3> QED BY <2>1, <2>5, <2>6, <3>1, CompleteKept, Zenon
  <2>8. DataEnd(e) <= Len(file')
    BY <1>1, <1>3, <2>1
  <2> QED BY <1>3, <2>3, <2>4, <2>7, <2>8, Zenon DEF Stays
<1> QED BY <1>1, <1>2, <1>3, <1>4

(* PartlyWritten: a write fails when no entry is open: what it wrote is    *)
(* behind every entry.                                                     *)
LEMMA PartlyWritten ==
  ASSUME ZIPInv, call.pc # "idle", call.op # "write", m_pCurrentEntry = FALSE,
         NEW b, IsList(b), Write(position, b), Fail,
         UNCHANGED <<writerState, zip, given, spoiled>>
  PROVE  ZIPInv'
<1>1. /\ UNCHANGED <<m_Entries, m_pCurrentEntry, m_pCurrentStream, m_nCurrentEntryKey,
                     m_nNextEntryKey, m_bIsFinished, zip, given, spoiled>>
      /\ lifetime = "open" /\ m_bIsFinished = FALSE
      /\ lifetime' \in {"open", "terminated"} /\ failures' \in Nat /\ failures' > 0
  <2>1. lifetime = "open" /\ m_bIsFinished = FALSE
    BY Busy
  <2>2. failures \in Nat /\ failures' = failures + 1
    BY DEF Fail, ZIPInv, TypeInv
  <2>3. lifetime' \in {"open", "terminated"}
    BY <2>1 DEF Fail, Throw
  <2>4. UNCHANGED <<m_Entries, m_pCurrentEntry, m_pCurrentStream, m_nCurrentEntryKey,
                    m_nNextEntryKey, m_bIsFinished, zip, given, spoiled>>
    BY DEF writerState
  <2>5. failures' \in Nat /\ failures' > 0
    BY ONLY <2>2
  <2> QED BY <2>1, <2>3, <2>4, <2>5
<1>2. call' \in Calls /\ call'.pc = "idle" /\ call'.op = "none" /\ call'.data = <<>>
  BY IdleFacts DEF Fail, Throw
<1>3. m_pCurrentStream = 0
  BY DEF ZIPInv, Pointers
<1>4. /\ position' = Len(file') /\ position' \in Nat /\ IsList(file')
      /\ \A i \in DOMAIN m_Entries :
           Stays(file', m_Entries[i], given[m_Entries[i].key], spoiled)
  BY FileGrows, Zenon
<1>5. TypeInv'
  BY <1>1, <1>2, <1>4 DEF ZIPInv, TypeInv
<1>6. Pointers'
  BY <1>1, <1>2, <1>3 DEF ZIPInv, Pointers
<1>7. Steps'
  BY <1>2 DEF Steps
<1>8. KeysGrow'
  BY <1>1, <1>2 DEF ZIPInv, KeysGrow
<1>9. Layout'
  <2>1. \A i \in DOMAIN m_Entries :
          /\ DataEnd(m_Entries[i]) <= Len(file')
          /\ file'[m_Entries[i].m_nFilePosition + 2] = NameBlock(m_Entries[i].name)
    BY <1>4, Zenon DEF Stays
  <2> QED BY <1>1, <1>4, <2>1 DEF ZIPInv, Layout
<1>10. Checksums'
  BY <1>1, Zenon DEF ZIPInv, Checksums
<1>11. ClosedContents'
  BY <1>1, <1>4, Zenon DEF ClosedContents, Stays
<1>12. OpenContents'
  BY <1>1, <1>2 DEF OpenContents
<1>13. Failed'
  BY <1>1, <1>3 DEF Failed
<1>14. Directory'
  BY <1>1 DEF Directory
<1> QED BY <1>5, <1>6, <1>7, <1>8, <1>9, <1>10, <1>11, <1>12, <1>13, <1>14 DEF ZIPInv

(* ListStart: the first elements of a list are a list.                     *)
LEMMA ListStart ==
  ASSUME NEW f, IsList(f), NEW n \in 0..Len(f)
  PROVE  IsList(SubSeq(f, 1, n))
<1>1. SubSeq(f, 1, n) \in Seq({f[i] : i \in DOMAIN f})
  <2> DEFINE S == {f[i] : i \in DOMAIN f}
  <2>1. f \in Seq(S)
    BY DEF IsList
  <2> HIDE DEF S
  <2>2. SubSeq(f, 1, n) \in Seq(S)
    BY <2>1, SubSeqProperties
  <2> QED BY <2>2 DEF S
<1> QED BY <1>1, SeqIsList, Zenon

IsRange(n, f) == n \in Nat /\ f = [i \in 1..n |-> f[i]]

Ended(n, f, x, g) ==
  /\ IsList(g) /\ Len(g) = n + 1
  /\ \A i \in 1..n : g[i] = f[i]
  /\ g[n + 1] = x

(* ListEnds: a list with an element behind it.                             *)
LEMMA ListEnds ==
  ASSUME NEW n, NEW f, IsRange(n, f), NEW x
  PROVE  Ended(n, f, x, f \o <<x>>)
<1> DEFINE T == {f[i] : i \in 1..n} \cup {x}
<1>0. n \in Nat /\ f = [i \in 1..n |-> f[i]]
  BY Zenon DEF IsRange
<1>1. f \in [1..n -> T] /\ x \in T
  BY <1>0
<1> HIDE DEF T
<1>2. f \in Seq(T) /\ Len(f) = n /\ <<x>> \in Seq(T)
  BY <1>0, <1>1
<1>3. f \o <<x>> \in Seq(T) /\ Len(f \o <<x>>) = n + 1
      /\ (\A i \in 1..n : (f \o <<x>>)[i] = f[i]) /\ (f \o <<x>>)[n + 1] = x
  BY ONLY <1>0, <1>2
<1>4. IsList(f \o <<x>>)
  BY <1>3, SeqIsList
<1> QED BY <1>3, <1>4, Zenon DEF Ended

(* The list t is s with e behind it.                                       *)
Grown(S, s, e, t) ==
  /\ t \in Seq(S) /\ t # <<>> /\ Len(t) = Len(s) + 1 /\ Len(s) \in Nat
  /\ DOMAIN s = 1..Len(s) /\ DOMAIN t = 1..(Len(s) + 1)
  /\ \A i \in DOMAIN s : i \in DOMAIN t /\ t[i] = s[i] /\ i < Len(t)
  /\ t[Len(t)] = e /\ Len(t) \in DOMAIN t
  /\ \A i \in DOMAIN t : i \in DOMAIN s \/ i = Len(t)

(* ListGrows: Append on a list.                                            *)
LEMMA ListGrows ==
  ASSUME NEW S, NEW s \in Seq(S), NEW e \in S
  PROVE  Grown(S, s, e, Append(s, e))
<1> DEFINE t == Append(s, e)
<1>1. /\ t \in Seq(S) /\ Len(t) = Len(s) + 1 /\ Len(s) \in Nat
      /\ DOMAIN s = 1..Len(s) /\ DOMAIN t = 1..(Len(s) + 1)
  OBVIOUS
<1>2. \A i \in 1..Len(s) : t[i] = s[i]
  OBVIOUS
<1>3. t[Len(s) + 1] = e
  OBVIOUS
<1>4. t # <<>>
  BY <1>1
<1> HIDE DEF t
<1>5. \A i \in 1..Len(s) : i \in 1..(Len(s) + 1) /\ i < Len(s) + 1
  BY <1>1
<1>6. Len(s) + 1 \in 1..(Len(s) + 1)
  BY <1>1
<1>7. \A i \in 1..(Len(s) + 1) : i \in 1..Len(s) \/ i = Len(s) + 1
  BY <1>1
<1>8. Grown(S, s, e, t)
  BY ONLY <1>1, <1>2, <1>3, <1>4, <1>5, <1>6, <1>7, Zenon DEF Grown
<1> QED BY <1>8, Zenon DEF t

(* HeaderStep: the entry is added behind the others, or a part of its      *)
(* header is written.                                                      *)
LEMMA HeaderStep ==
  ASSUME ZIPInv, header
  PROVE  ZIPInv'
<1> DEFINE b == <<HeaderBlock(<<>>), NameBlock(call.name), ExtraBlock(0, 0)>>
           e == NewEntry
           k == m_nCurrentEntryKey
           m == Len(m_Entries)
<1>1. /\ call.pc = "header" /\ call.pc # "idle"
      /\ UNCHANGED <<m_pCurrentStream, m_nCurrentEntryKey, m_nNextEntryKey, m_bIsFinished, zip,
                     given, spoiled>>
  BY Zenon DEF header
<1>2. call.op = "create" /\ call.data = <<>> /\ m_pCurrentEntry = FALSE
  BY <1>1 DEF ZIPInv, Steps, TypeInv
<1>3. m_pCurrentStream = 0 /\ lifetime = "open" /\ m_bIsFinished = FALSE
  <2>1. m_pCurrentStream = 0
    BY <1>2 DEF ZIPInv, Pointers
  <2> QED BY <1>1, <2>1, Busy
<1>4. IsList(b) /\ Len(b) = 3 /\ b[2] = NameBlock(call.name)
  <2>1. ASSUME NEW x, NEW y, NEW z
        PROVE  <<x, y, z>> \in Seq({x, y, z}) /\ Len(<<x, y, z>>) = 3 /\ <<x, y, z>>[2] = y
    OBVIOUS
  <2> QED BY <2>1, SeqIsList, Zenon
<1> HIDE DEF b
<1>5. ASSUME NEW n \in 0..2, Write(position, SubSeq(b, 1, n)), Fail,
             UNCHANGED <<m_Entries, m_pCurrentEntry>>
      PROVE  ZIPInv'
  <2>1. IsList(SubSeq(b, 1, n))
    <3>1. n \in 0..Len(b)
      BY <1>4
    <3> QED BY <1>4, <3>1, ListStart
  <2>2. UNCHANGED <<writerState, zip, given, spoiled>> /\ call.op # "write"
    BY <1>1, <1>2, <1>5 DEF writerState
  <2> QED BY <1>1, <1>2, <1>5, <2>1, <2>2, PartlyWritten, Zenon
<1>6. ASSUME Write(position, b), m_Entries' = Append(m_Entries, e), m_pCurrentEntry' = TRUE,
             Goto("stream")
      PROVE  ZIPInv'
  <2>1. /\ Appended(file, file', b) /\ position' = Len(file') /\ position' \in Nat
        /\ IsList(file') /\ Len(file') \in Nat /\ Len(file) \in Nat
        /\ position = Len(file)
        /\ \A i \in DOMAIN m_Entries :
             Stays(file', m_Entries[i], given[m_Entries[i].key], spoiled)
    BY <1>2, <1>4, <1>6, FileGrows, Zenon
  <2>2. k \in Keys /\ k < m_nNextEntryKey /\ \A i \in DOMAIN m_Entries : m_Entries[i].key < k
    BY <1>1 DEF ZIPInv, KeysGrow
  <2>3. e \in Entries
    <3>1. call.name \in Names \cup {"none"}
      BY CallFields DEF ZIPInv, TypeInv
    <3> QED BY <2>1, <2>2, <3>1, EntryMade DEF ZIPInv, TypeInv
  <2>4. /\ e.name = call.name /\ e.key = k /\ e.m_nCRC32 = <<>> /\ e.m_nCompressedSize = 0
        /\ e.m_nUncompressedSize = 0 /\ e.m_nFilePosition = position
        /\ e.m_nExtInfoPosition = position + 2 /\ e.m_nDataPosition = position + 3
    BY DEF NewEntry
  <2> HIDE DEF e, k
  <2>5. /\ m_Entries' \in Seq(Entries) /\ m_Entries' # <<>> /\ Len(m_Entries') = m + 1
        /\ \A i \in DOMAIN m_Entries :
             i \in DOMAIN m_Entries' /\ m_Entries'[i] = m_Entries[i] /\ i < Len(m_Entries')
        /\ m_Entries'[Len(m_Entries')] = e /\ Len(m_Entries') \in DOMAIN m_Entries'
        /\ \A i \in DOMAIN m_Entries' : i \in DOMAIN m_Entries \/ i = Len(m_Entries')
        /\ DOMAIN m_Entries' = 1..(m + 1) /\ m \in Nat
    <3>1. m_Entries \in Seq(Entries)
      BY DEF ZIPInv, TypeInv
    <3>2. Grown(Entries, m_Entries, e, m_Entries')
      BY <1>6, <2>3, <3>1, ListGrows, Zenon
    <3> QED BY <3>2, Zenon DEF Grown
  <2>6. /\ IsCall(call', "stream", call.op, call.name, call.key, call.data)
        /\ lifetime' = lifetime /\ failures' = failures
    <3>1. "stream" \in Pcs
      BY DEF Pcs
    <3> QED BY <1>6, <3>1, Going, Zenon
  <2>7. call' \in Calls /\ call'.data = <<>> /\ call'.op = "create" /\ call'.pc = "stream"
    BY <1>2, <2>6, Zenon DEF IsCall
  <2>8. Len(file') = Len(file) + 3 /\ file'[Len(file) + 2] = NameBlock(call.name)
    <3>1. Len(file') = Len(file) + Len(b) /\ \A j \in 1..Len(b) : file'[Len(file) + j] = b[j]
      BY <2>1, Zenon DEF Appended
    <3> QED BY <1>4, <3>1
  <2>9. zip[k] = NoStream /\ given[k] = <<>>
    <3>1. k \in Nat
      BY <2>2 DEF Keys
    <3>2. \A i \in DOMAIN m_Entries : m_Entries[i].key # k
      BY <2>2, <3>1
    <3> QED BY <2>2, <3>2 DEF ZIPInv, KeysGrow
  <2>10. TypeInv'
    BY <1>1, <1>6, <2>1, <2>5, <2>6, <2>7 DEF ZIPInv, TypeInv
  <2>11. Pointers'
    <3>1. Current' = e
      BY <2>5 DEF Current
    <3> QED BY <1>1, <1>3, <1>6, <2>4, <2>5, <2>6, <3>1 DEF ZIPInv, Pointers, k
  <2>12. Steps'
    BY <1>1, <1>3, <1>6, <2>7 DEF Steps
  <2>13. KeysGrow'
    <3>1. ASSUME NEW i \in DOMAIN m_Entries' PROVE m_Entries'[i].key < m_nNextEntryKey
      <4>1. CASE i \in DOMAIN m_Entries
        BY <2>5, <4>1 DEF ZIPInv, KeysGrow
      <4>2. CASE i = Len(m_Entries')
        BY <2>2, <2>4, <2>5, <4>2
      <4> QED BY <2>5, <4>1, <4>2, Zenon
    <3>2. ASSUME NEW i \in DOMAIN m_Entries', NEW j \in DOMAIN m_Entries', i < j
          PROVE  m_Entries'[i].key < m_Entries'[j].key
      <4>1. i \in DOMAIN m_Entries
        BY <2>5, <3>2
      <4>2. CASE j \in DOMAIN m_Entries
        BY <2>5, <3>2, <4>1, <4>2 DEF ZIPInv, KeysGrow
      <4>3. CASE j = Len(m_Entries')
        BY <2>2, <2>4, <2>5, <4>1, <4>3
      <4> QED BY <2>5, <4>2, <4>3, Zenon
    <3>3. ASSUME NEW l \in Keys, \A i \in DOMAIN m_Entries' : m_Entries'[i].key # l
          PROVE  zip[l] = NoStream /\ given[l] = <<>>
      <4>1. \A i \in DOMAIN m_Entries : m_Entries[i].key # l
        BY <2>5, <3>3, Zenon
      <4> QED BY <4>1 DEF ZIPInv, KeysGrow
    <3> QED BY <1>1, <2>7, <2>9, <3>1, <3>2, <3>3 DEF KeysGrow, k
  <2>14. DataEnd(e) = Len(file')
    BY <2>1, <2>4, <2>8 DEF DataEnd
  <2>15. Layout'
    <3>1. ASSUME NEW i \in DOMAIN m_Entries'
          PROVE  /\ m_Entries'[i].m_nExtInfoPosition = m_Entries'[i].m_nFilePosition + 2
                 /\ m_Entries'[i].m_nDataPosition = m_Entries'[i].m_nFilePosition + 3
                 /\ DataEnd(m_Entries'[i]) <= Len(file')
                 /\ file'[m_Entries'[i].m_nFilePosition + 2] = NameBlock(m_Entries'[i].name)
      <4>1. CASE i \in DOMAIN m_Entries
        BY <2>1, <2>5, <4>1, EntryFacts, Zenon DEF Stays
      <4>2. CASE i = Len(m_Entries')
        <5>1. DataEnd(e) <= Len(file')
          BY <2>1, <2>14
        <5> QED BY <2>1, <2>4, <2>5, <2>8, <4>2, <5>1, Zenon
      <4> QED BY <2>5, <4>1, <4>2, Zenon
    <3>2. ASSUME NEW i \in DOMAIN m_Entries', NEW j \in DOMAIN m_Entries', i < j
          PROVE  DataEnd(m_Entries'[i]) <= m_Entries'[j].m_nFilePosition
      <4>1. i \in DOMAIN m_Entries
        BY <2>5, <3>2
      <4>2. CASE j \in DOMAIN m_Entries
        BY <2>5, <3>2, <4>1, <4>2 DEF ZIPInv, Layout
      <4>3. CASE j = Len(m_Entries')
        <5>1. DataEnd(m_Entries[i]) <= Len(file)
          BY <4>1, EntryFacts
        <5> QED BY <2>1, <2>4, <2>5, <4>1, <4>3, <5>1, Zenon
      <4> QED BY <2>5, <4>2, <4>3, Zenon
    <3>3. DataEnd(Current') = Len(file')
      BY <2>5, <2>14, Zenon DEF Current
    <3> QED BY <2>1, <3>1, <3>2, <3>3 DEF Layout
  <2>16. Checksums'
    <3>1. ASSUME NEW i \in DOMAIN m_Entries'
          PROVE  /\ m_Entries'[i].m_nCRC32 = given[m_Entries'[i].key]
                 /\ m_Entries'[i].m_nUncompressedSize = Len(given[m_Entries'[i].key])
      <4>1. CASE i \in DOMAIN m_Entries
        BY <2>5, <4>1, Zenon DEF ZIPInv, Checksums
      <4>2. CASE i = Len(m_Entries')
        <5>1. Len(<<>>) = 0
          OBVIOUS
        <5> QED BY <2>4, <2>5, <2>9, <4>2, <5>1, Zenon
      <4> QED BY <2>5, <4>1, <4>2, Zenon
    <3> QED BY <1>1, <3>1, Zenon DEF Checksums
  <2>17. ClosedContents'
    <3>1. ASSUME NEW i \in DOMAIN m_Entries', i < Len(m_Entries')
          PROVE  Complete(file', m_Entries'[i], given[m_Entries'[i].key], spoiled)
      <4>1. i \in DOMAIN m_Entries
        BY <2>5, <3>1
      <4> QED BY <2>1, <2>5, <4>1, Zenon DEF Stays
    <3> QED BY <1>1, <1>6, <3>1 DEF ClosedContents
  <2>18. OpenContents'
    <3>1. Total(NoStream, <<>>) = <<>>
      BY DEF Total, NoStream
    <3>2. InFlight(NoStream, <<>>) = <<>>
      <4>1. <<>> \in Seq(Symbols) /\ NoStream.out = <<>> /\ NoStream.pending = <<>>
        BY DEF NoStream
      <4>2. <<>> \o <<>> = <<>>
        BY ONLY <4>1, Associative, Zenon
      <4> QED BY <4>1, <4>2, Zenon DEF InFlight
    <3>3. Flows(file', e, <<>>, <<>>)
      <4>1. Len(<<>>) = 0 + Len(<<>>) /\ Len(<<>>) = 0
        OBVIOUS
      <4>2. \A j \in 1..0 : FALSE
        OBVIOUS
      <4> QED BY <2>4, <4>1, <4>2, Zenon DEF Flows
    <3>4. Current' = e
      BY <2>5 DEF Current
    <3> QED BY <1>1, <2>7, <2>9, <3>1, <3>2, <3>3, <3>4 DEF OpenContents, k
  <2>19. Failed'
    BY <1>1, <1>3, <2>6, <2>7 DEF Failed
  <2>20. Directory'
    BY <1>1, <1>3 DEF Directory
  <2> QED BY <2>10, <2>11, <2>12, <2>13, <2>15, <2>16, <2>17, <2>18, <2>19, <2>20 DEF ZIPInv
<1> QED BY <1>5, <1>6, Zenon DEF header, b, e

(* StreamCreateStep: the stream of the new entry is made.                  *)
LEMMA StreamCreateStep ==
  ASSUME ZIPInv, stream
  PROVE  ZIPInv'
<1> DEFINE k == m_nCurrentEntryKey
<1>1. /\ call.pc = "stream" /\ call.pc # "idle"
      /\ UNCHANGED <<m_Entries, m_pCurrentEntry, m_nCurrentEntryKey, m_nNextEntryKey,
                     m_bIsFinished, file, position, given, spoiled>>
  BY DEF stream, fileState
<1>2. call.op = "create" /\ call.data = <<>> /\ m_pCurrentEntry /\ m_pCurrentStream = 0
  BY <1>1 DEF ZIPInv, Steps
<1>3. position = Len(file) /\ position \in Nat
  BY <1>2, AtEnd
<1>4. lifetime = "open" /\ m_bIsFinished = FALSE
  BY <1>1, Busy
<1>5. k \in Keys /\ k \in Nat /\ k # 0
  BY <1>2, CurrentFacts DEF Keys
<1> HIDE DEF k
<1>6. ASSUME m_pCurrentStream' = k, zip' = [zip EXCEPT ![k] = NewStream], call' = Idle,
             UNCHANGED <<lifetime, failures>>
      PROVE  ZIPInv'
  <2>1. /\ NewStream \in Streams /\ NewStream.m_bIsInitialized = TRUE
        /\ NewStream.ended = FALSE /\ NewStream.pending = <<>> /\ NewStream.out = <<>>
    <3>0. PICK t, u, q : t = TRUE /\ u = FALSE /\ q = <<>>
      OBVIOUS
    <3>1. NoStream = Stream(u, u, q, q)
      BY <3>0 DEF NoStream, Stream
    <3>2. \A i, e, p, o, x : [Stream(i, e, p, o) EXCEPT !.m_bIsInitialized = x] = Stream(x, e, p, o)
      BY DEF Stream
    <3>3. NewStream = Stream(t, u, q, q)
      <4>1. NewStream = [NoStream EXCEPT !.m_bIsInitialized = t]
        BY <3>0, Zenon DEF NewStream
      <4>2. PICK n : n = NoStream
        OBVIOUS
      <4>3. [n EXCEPT !.m_bIsInitialized = t] = Stream(t, u, q, q)
        BY ONLY <3>1, <3>2, <4>2
      <4> QED BY <4>1, <4>2, <4>3, Zenon
    <3>4. q \in Seq(Symbols) /\ t \in BOOLEAN /\ u \in BOOLEAN
      <4>1. <<>> \in Seq(Symbols) /\ TRUE \in BOOLEAN /\ FALSE \in BOOLEAN
        OBVIOUS
      <4> QED BY <3>0, <4>1, Zenon
    <3>5. StreamIs(NewStream, t, u, q, q)
      BY <3>3, <3>4, StreamMade, Zenon
    <3> QED BY <3>0, <3>5, Zenon DEF StreamIs
  <2>2. /\ zip' \in [Keys -> Streams] /\ zip'[k] = NewStream
        /\ \A l \in Keys : l # k => zip'[l] = zip[l]
    BY <1>5, <1>6, <2>1, ZipChanged, Zenon
  <2>3. call' \in Calls /\ call'.pc = "idle" /\ call'.op = "none" /\ call'.data = <<>>
    BY <1>6, IdleFacts, Zenon
  <2>4. TypeInv'
    <3>1. k \in 0..MaxKey
      BY <1>5 DEF Keys
    <3> QED BY <1>1, <1>6, <2>2, <2>3, <3>1, Zenon DEF ZIPInv, TypeInv
  <2>5. Pointers'
    <3>1. \A l \in Keys : l # k => ~zip'[l].m_bIsInitialized
      BY <1>2, <2>2 DEF ZIPInv, Pointers, Keys
    <3> QED BY <1>1, <1>2, <1>4, <1>6, <2>3, <3>1 DEF ZIPInv, Pointers, Current, k
  <2>6. Steps'
    BY <2>3 DEF Steps
  <2>7. KeysGrow'
    <3>1. ASSUME NEW l \in Keys, \A i \in DOMAIN m_Entries : m_Entries[i].key # l
          PROVE  zip'[l] = NoStream /\ given[l] = <<>>
      <4>1. l # k
        BY <1>2, <3>1, CurrentFacts DEF k
      <4> QED BY <2>2, <3>1, <4>1 DEF ZIPInv, KeysGrow
    <3>2. /\ \A i \in DOMAIN m_Entries : m_Entries[i].key < m_nNextEntryKey
          /\ \A i, j \in DOMAIN m_Entries : i < j => m_Entries[i].key < m_Entries[j].key
      BY DEF ZIPInv, KeysGrow
    <3> QED BY <1>1, <1>5, <1>6, <2>3, <3>1, <3>2 DEF KeysGrow
  <2>8. Layout'
    BY <1>1, <1>3 DEF ZIPInv, Layout, Current
  <2>9. Checksums' /\ ClosedContents'
    BY <1>1, Zenon DEF ZIPInv, Checksums, ClosedContents
  <2>10. OpenContents'
    <3> SUFFICES ASSUME k \notin spoiled
                 PROVE  Flows(file, Current, Total(NewStream, given[k]), InFlight(NewStream, <<>>))
      BY <1>1, <2>2, <2>3 DEF OpenContents, Current, k
    <3>1. zip[k] = NoStream
      BY <1>2 DEF ZIPInv, KeysGrow, k
    <3>2. Flows(file, Current, Total(NoStream, given[k]), InFlight(NoStream, <<>>))
      BY <1>2, <3>1 DEF ZIPInv, OpenContents, k
    <3>3. NoStream.ended = FALSE /\ NoStream.pending = <<>> /\ NoStream.out = <<>>
      BY DEF NoStream
    <3>4. Total(NoStream, given[k]) = Total(NewStream, given[k])
      BY <2>1, <3>3, Zenon DEF Total
    <3>5. InFlight(NoStream, <<>>) = InFlight(NewStream, <<>>)
      BY <2>1, <3>3, Zenon DEF InFlight
    <3> QED BY <3>2, <3>4, <3>5, Zenon
  <2>11. Failed'
    <3>1. Len(NewStream.out) = 0 /\ BufferSize \in Nat /\ BufferSize > 0
      BY <2>1, ZIPAssumption
    <3> QED BY <1>4, <1>5, <1>6, <2>1, <2>2, <3>1 DEF Failed
  <2>12. Directory'
    BY <1>1, <1>4 DEF Directory
  <2> QED BY <2>4, <2>5, <2>6, <2>7, <2>8, <2>9, <2>10, <2>11, <2>12 DEF ZIPInv
<1>7. ASSUME Fail, UNCHANGED <<m_pCurrentStream, zip>> PROVE ZIPInv'
  <2>1. UNCHANGED <<writerState, zip, file, given>>
    BY <1>1, <1>7 DEF writerState
  <2>2. /\ position' \in Nat /\ position' = Len(file) /\ spoiled \subseteq spoiled'
        /\ call.op # "write"
    BY <1>1, <1>2, <1>3
  <2> QED BY <1>1, <1>7, <2>1, <2>2, FailStep, Zenon
<1> QED BY <1>6, <1>7, Zenon DEF stream, k

(* DirectoryList: the central directory and the end record behind it.      *)
LEMMA DirectoryList ==
  ASSUME ZIPInv
  PROVE  /\ IsList(DirectoryBlocks) /\ Len(m_Entries) \in Nat
         /\ DOMAIN m_Entries = 1..Len(m_Entries)
         /\ Len(DirectoryBlocks) = Len(m_Entries) + 1
         /\ \A i \in 1..Len(m_Entries) : DirectoryBlocks[i] = DirectoryBlock(m_Entries[i])
         /\ DirectoryBlocks[Len(m_Entries) + 1]
              = [kind |-> "end", entries |-> Len(m_Entries), offset |-> position]
<1> DEFINE n == Len(m_Entries)
           f == [i \in DOMAIN m_Entries |-> DirectoryBlock(m_Entries[i])]
           x == [kind |-> "end", entries |-> n, offset |-> position]
<1>1. n \in Nat /\ DOMAIN m_Entries = 1..n
  BY DEF ZIPInv, TypeInv
<1>2. f = [i \in 1..n |-> f[i]] /\ \A i \in 1..n : f[i] = DirectoryBlock(m_Entries[i])
  BY <1>1
<1>3. DirectoryBlocks = f \o <<x>>
  BY Zenon DEF DirectoryBlocks
<1> HIDE DEF n, f, x
<1>4. Ended(n, f, x, f \o <<x>>)
  <2>1. IsRange(n, f)
    BY <1>1, <1>2, Zenon DEF IsRange
  <2> QED BY <2>1, ListEnds, Zenon
<1>5. /\ IsList(DirectoryBlocks) /\ Len(DirectoryBlocks) = n + 1
      /\ \A i \in 1..n : DirectoryBlocks[i] = f[i]
      /\ DirectoryBlocks[n + 1] = x
  BY <1>3, <1>4, Zenon DEF Ended
<1> QED BY <1>1, <1>2, <1>5, Zenon DEF n, x

(* DirectoryStep: the directory is written, or a part of it.               *)
LEMMA DirectoryStep ==
  ASSUME ZIPInv, directory
  PROVE  ZIPInv'
<1> DEFINE b == DirectoryBlocks
           m == Len(m_Entries)
<1>1. /\ call.pc = "directory" /\ call.pc # "idle"
      /\ UNCHANGED <<m_Entries, m_pCurrentEntry, m_pCurrentStream, m_nCurrentEntryKey,
                     m_nNextEntryKey, zip, given, spoiled>>
  BY Zenon DEF directory
<1>2. call.op = "destroy" /\ call.data = <<>> /\ m_pCurrentEntry = FALSE
  BY <1>1 DEF ZIPInv, Steps, TypeInv
<1>3. m_pCurrentStream = 0
  BY <1>2 DEF ZIPInv, Pointers
<1>4. /\ IsList(b) /\ m \in Nat /\ Len(b) = m + 1 /\ DOMAIN m_Entries = 1..m
      /\ \A i \in 1..m : b[i] = DirectoryBlock(m_Entries[i])
      /\ b[m + 1] = [kind |-> "end", entries |-> m, offset |-> position]
  BY DirectoryList, Zenon
<1> HIDE DEF b
<1>5. ASSUME NEW n \in 0..m, Write(position, SubSeq(b, 1, n)), Fail, UNCHANGED m_bIsFinished
      PROVE  ZIPInv'
  <2>1. IsList(SubSeq(b, 1, n))
    <3>1. n \in 0..Len(b)
      BY <1>4
    <3> QED BY <1>4, <3>1, ListStart
  <2>2. UNCHANGED <<writerState, zip, given, spoiled>> /\ call.op # "write"
    BY <1>1, <1>2, <1>5 DEF writerState
  <2> QED BY <1>1, <1>2, <1>5, <2>1, <2>2, PartlyWritten, Zenon
<1>6. ASSUME Write(position, b), m_bIsFinished' = TRUE, lifetime' = "destroyed",
             call' = Idle, UNCHANGED failures
      PROVE  ZIPInv'
  <2>1. /\ Appended(file, file', b) /\ position' = Len(file') /\ position' \in Nat
        /\ IsList(file') /\ Len(file') \in Nat /\ Len(file) \in Nat /\ position = Len(file)
        /\ \A i \in DOMAIN m_Entries :
             Stays(file', m_Entries[i], given[m_Entries[i].key], spoiled)
    BY <1>2, <1>4, <1>6, FileGrows, Zenon
  <2>2. call' \in Calls /\ call'.pc = "idle" /\ call'.op = "none" /\ call'.data = <<>>
    BY <1>6, IdleFacts, Zenon
  <2>3. /\ Len(file') = Len(file) + (m + 1)
        /\ \A j \in 1..(m + 1) : file'[Len(file) + j] = b[j]
    BY <1>4, <2>1, Zenon DEF Appended
  <2>4. TypeInv'
    <3>1. TRUE \in BOOLEAN /\ "destroyed" \in {"open", "destroyed", "terminated"}
      OBVIOUS
    <3> QED BY <1>1, <1>6, <2>1, <2>2, <3>1, Zenon DEF ZIPInv, TypeInv
  <2>5. Pointers'
    BY <1>1, <1>2, <1>3, <1>6, <2>2 DEF ZIPInv, Pointers
  <2>6. Steps'
    BY <2>2 DEF Steps
  <2>7. KeysGrow'
    BY <1>1, <2>2 DEF ZIPInv, KeysGrow
  <2>8. Layout'
    <3>1. \A i \in DOMAIN m_Entries :
            /\ DataEnd(m_Entries[i]) <= Len(file')
            /\ file'[m_Entries[i].m_nFilePosition + 2] = NameBlock(m_Entries[i].name)
      BY <2>1, Zenon DEF Stays
    <3> QED BY <1>1, <1>2, <2>1, <3>1 DEF ZIPInv, Layout
  <2>9. Checksums'
    BY <1>1, Zenon DEF ZIPInv, Checksums
  <2>10. ClosedContents'
    BY <1>1, <2>1, Zenon DEF ClosedContents, Stays
  <2>11. OpenContents'
    BY <1>1, <1>2, <2>2 DEF OpenContents
  <2>12. Failed'
    BY <1>1, <1>2, <1>3, <1>6 DEF Failed
  <2>13. Directory'
    <3>1. Len(file') > m /\ Len(file') - (m + 1) = Len(file)
          /\ Len(file) + (m + 1) = Len(file') /\ m + 1 \in 1..(m + 1)
      BY <1>4, <2>1, <2>3
    <3>2. file'[Len(file')] = [kind |-> "end", entries |-> m, offset |-> Len(file)]
      BY <1>4, <2>1, <2>3, <3>1, Zenon
    <3>3. ASSUME NEW i \in 1..m PROVE file'[Len(file) + i] = DirectoryBlock(m_Entries[i])
      <4>1. i \in 1..(m + 1)
        BY <1>4
      <4> QED BY <1>4, <2>3, <4>1, Zenon
    <3> QED BY <1>1, <1>4, <3>1, <3>2, <3>3, Zenon DEF Directory, EndRecord
  <2> QED BY <2>4, <2>5, <2>6, <2>7, <2>8, <2>9, <2>10, <2>11, <2>12, <2>13 DEF ZIPInv
<1> QED BY <1>5, <1>6, Zenon DEF directory, b

-----------------------------------------------------------------------------
(* The invariant.                                                          *)

(* StartsSound: a writer without entries satisfies the invariant.          *)
LEMMA StartsSound == Init => ZIPInv
<1> SUFFICES ASSUME Init PROVE ZIPInv
  OBVIOUS
<1>1. /\ m_Entries = <<>> /\ m_pCurrentEntry = FALSE /\ m_pCurrentStream = 0
      /\ m_nCurrentEntryKey = 0 /\ m_nNextEntryKey = 1 /\ m_bIsFinished = FALSE
      /\ zip = [k \in Keys |-> NoStream] /\ file = <<>> /\ position = 0
      /\ lifetime = "open" /\ call = Idle /\ failures = 0
      /\ given = [k \in Keys |-> <<>>]
  BY DEF Init
<1>2. /\ NoStream \in Streams /\ NoStream.m_bIsInitialized = FALSE
  <2>0. PICK u, q : u = FALSE /\ q = <<>>
    OBVIOUS
  <2>1. NoStream = Stream(u, u, q, q)
    BY <2>0 DEF NoStream, Stream
  <2>2. q \in Seq(Symbols) /\ u \in BOOLEAN
    <3>1. <<>> \in Seq(Symbols) /\ FALSE \in BOOLEAN
      OBVIOUS
    <3> QED BY <2>0, <3>1, Zenon
  <2>3. StreamIs(NoStream, u, u, q, q)
    BY <2>1, <2>2, StreamMade, Zenon
  <2> QED BY <2>0, <2>3, Zenon DEF StreamIs
<1>3. call \in Calls /\ call.pc = "idle" /\ call.op = "none" /\ call.data = <<>>
  BY <1>1, IdleFacts, Zenon
<1>4. IsList(file) /\ Len(file) = 0 /\ Len(m_Entries) = 0 /\ DOMAIN m_Entries = {}
  BY <1>1 DEF IsList
<1>5. \A k \in Keys : zip[k] = NoStream /\ given[k] = <<>>
  BY <1>1
<1>6. TypeInv
  <2>1. zip \in [Keys -> Streams]
    BY <1>1, <1>2
  <2>2. given \in [Keys -> Seq(Bytes)]
    BY <1>1
  <2>3. /\ m_Entries \in Seq(Entries) /\ m_pCurrentEntry \in BOOLEAN /\ m_bIsFinished \in BOOLEAN
        /\ m_pCurrentStream \in 0..MaxKey /\ m_nCurrentEntryKey \in 0..MaxKey
        /\ m_nNextEntryKey \in 1..(MaxKey + 1) /\ position \in Nat /\ failures \in Nat
        /\ lifetime \in {"open", "destroyed", "terminated"}
    <3>1. MaxKey \in Nat
      BY ZIPAssumption
    <3>2. 0 \in 0..MaxKey /\ 1 \in 1..(MaxKey + 1) /\ 0 \in Nat /\ FALSE \in BOOLEAN
      BY <3>1
    <3>3. <<>> \in Seq(Entries) /\ "open" \in {"open", "destroyed", "terminated"}
      OBVIOUS
    <3> QED BY <1>1, <3>2, <3>3, Zenon
  <2> QED BY <1>3, <1>4, <2>1, <2>2, <2>3, Zenon DEF TypeInv
<1>7. Pointers
  BY <1>1, <1>2, <1>3, <1>5 DEF Pointers
<1>8. Steps
  BY <1>3 DEF Steps
<1>9. KeysGrow
  BY <1>1, <1>3, <1>4, <1>5 DEF KeysGrow
<1>10. Layout
  BY <1>1, <1>4 DEF Layout
<1>11. Checksums /\ ClosedContents
  BY <1>4, Zenon DEF Checksums, ClosedContents
<1>12. OpenContents
  BY <1>1, <1>3 DEF OpenContents
<1>13. Failed
  BY <1>1 DEF Failed
<1>14. Directory
  BY <1>1 DEF Directory
<1> QED BY <1>6, <1>7, <1>8, <1>9, <1>10, <1>11, <1>12, <1>13, <1>14 DEF ZIPInv

(* StutterKeeps: nothing changes.                                          *)
LEMMA StutterKeeps ==
  ASSUME ZIPInv, UNCHANGED vars
  PROVE  ZIPInv'
<1>1. UNCHANGED <<m_Entries, m_pCurrentEntry, m_pCurrentStream, m_nCurrentEntryKey,
                  m_nNextEntryKey, m_bIsFinished, zip, file, position, lifetime, call, failures,
                  given, spoiled>>
  BY DEF vars, writerState, fileState, history
<1>2. TypeInv' /\ KeysGrow' /\ Checksums' /\ ClosedContents'
  BY <1>1, Zenon DEF ZIPInv, TypeInv, KeysGrow, Checksums, ClosedContents
<1>3. Pointers' /\ Steps'
  BY <1>1, Zenon DEF ZIPInv, Pointers, Steps, Current
<1>4. Layout'
  BY <1>1, Zenon DEF ZIPInv, Layout, Current
<1>5. OpenContents'
  BY <1>1, Zenon DEF ZIPInv, OpenContents, Current
<1>6. Failed' /\ Directory'
  BY <1>1, Zenon DEF ZIPInv, Failed, Directory, EndRecord
<1> QED BY <1>2, <1>3, <1>4, <1>5, <1>6 DEF ZIPInv

(* StepKeeps: every step keeps the invariant.                              *)
LEMMA StepKeeps ==
  ASSUME ZIPInv, [Next]_vars
  PROVE  ZIPInv'
<1>1. ASSUME NEW name \in Names, createEntry(name) PROVE ZIPInv'
  BY <1>1, CreateEntryStep
<1>2. ASSUME NEW k \in Keys, NEW data \in Chunks, writeBuffer(k, data) PROVE ZIPInv'
  BY <1>2, WriteBufferStep
<1>3. CASE destroy
  BY <1>3, DestroyStep
<1>4. CASE deflate
  BY <1>4, DeflateStep
<1>5. CASE drain
  BY <1>5, DrainStep
<1>6. CASE close
  BY <1>6, CloseStep
<1>7. CASE finish
  BY <1>7, FinishStep
<1>8. CASE spill
  <2>1. FinishWrites("spill", TRUE, "finish")
    BY <1>8, Zenon DEF spill
  <2> QED BY <2>1, FinishWritesStep, Zenon
<1>9. CASE flush
  <2>1. FinishWrites("flush", FALSE, "descriptor")
    BY <1>9, Zenon DEF flush
  <2> QED BY <2>1, FinishWritesStep, Zenon
<1>10. CASE descriptor
  <2>1. Patch("descriptor", Current.m_nFilePosition, HeaderBlock(Current.m_nCRC32), "extra")
    BY <1>10, Zenon DEF descriptor
  <2> QED BY <2>1, PatchStep, Zenon
<1>11. CASE extra
  <2>1. Patch("extra", Current.m_nExtInfoPosition,
              ExtraBlock(Current.m_nCompressedSize, Current.m_nUncompressedSize), "end")
    BY <1>11, Zenon DEF extra
  <2> QED BY <2>1, PatchStep, Zenon
<1>12. CASE end
  BY <1>12, EndStep
<1>13. CASE key
  BY <1>13, KeyStep
<1>14. CASE header
  BY <1>14, HeaderStep
<1>15. CASE stream
  BY <1>15, StreamCreateStep
<1>16. CASE directory
  BY <1>16, DirectoryStep
<1>17. CASE UNCHANGED vars
  BY <1>17, StutterKeeps
<1> QED BY <1>1, <1>2, <1>3, <1>4, <1>5, <1>6, <1>7, <1>8, <1>9, <1>10, <1>11, <1>12, <1>13,
           <1>14, <1>15, <1>16, <1>17, Zenon DEF Next

(* ZIPInvariant: the invariant holds in every state of the writer.         *)
THEOREM ZIPInvariant == Spec => []ZIPInv
<1>1. Init => ZIPInv
  BY StartsSound
<1>2. ZIPInv /\ [Next]_vars => ZIPInv'
  BY StepKeeps
<1> QED BY <1>1, <1>2, PTL DEF Spec

-----------------------------------------------------------------------------
(* The properties.                                                         *)

(* StreamsCorrect: an initialized stream is the one of the current entry   *)
(* of a writer that is alive, so neither CExportStream_ZIP::writeBuffer    *)
(* nor its destructor reaches another entry or a writer that is gone.      *)
THEOREM StreamsCorrect == Spec => []StaleStreamsAreClosed
<1>1. ASSUME ZIPInv PROVE StaleStreamsAreClosed
  <2> SUFFICES ASSUME NEW k \in Keys, zip[k].m_bIsInitialized
               PROVE  /\ m_pCurrentEntry /\ lifetime # "destroyed"
                      /\ m_nCurrentEntryKey = k
                      /\ m_Entries[Len(m_Entries)].key = k
    BY Zenon DEF StaleStreamsAreClosed
  <2>1. k # 0
    BY DEF Keys
  <2> QED BY <1>1, <2>1 DEF ZIPInv, Pointers, Current
<1> QED BY <1>1, ZIPInvariant, PTL

(* ReadsBack: what a reader finds for one entry of a finished archive.     *)
LEMMA ReadsBack ==
  ASSUME ZIPInv, m_bIsFinished, NEW i \in DOMAIN m_Entries
  PROVE  LET k == m_Entries[i].key
             record == Record(i)
             start == record.m_nRelativeOffsetOfLocalHeader
         IN  /\ record.kind = "directory"
             /\ file[start + 1] = HeaderBlock(record.m_nCRC32)
             /\ file[start + 2] = NameBlock(record.name)
             /\ file[start + 3] = ExtraBlock(record.m_nCompressedSize,
                                             record.m_nUncompressedSize)
             /\ k \notin spoiled =>
                  /\ record.m_nCRC32 = given[k]
                  /\ record.m_nUncompressedSize = Len(given[k])
                  /\ Holds(start + 3, record.m_nCompressedSize, given[k])
<1> DEFINE e == m_Entries[i]
           k == e.key
           s == e.m_nFilePosition
           w == e.m_nCompressedSize
<1>1. ~m_pCurrentEntry
  BY DEF ZIPInv, Pointers
<1>2. Record(i) = DirectoryBlock(e)
  <2>1. EndRecord.offset = Len(file) - (Len(m_Entries) + 1)
    BY DEF ZIPInv, Directory
  <2>2. file[Len(file) - (Len(m_Entries) + 1) + i] = DirectoryBlock(m_Entries[i])
    BY Zenon DEF ZIPInv, Directory
  <2> QED BY <2>1, <2>2, Zenon DEF Record
<1>3. /\ Record(i).kind = "directory" /\ Record(i).name = e.name
      /\ Record(i).m_nCRC32 = e.m_nCRC32 /\ Record(i).m_nCompressedSize = w
      /\ Record(i).m_nUncompressedSize = e.m_nUncompressedSize
      /\ Record(i).m_nRelativeOffsetOfLocalHeader = s
  BY <1>2 DEF DirectoryBlock
<1>4. /\ e \in Entries /\ e.m_nDataPosition = s + 3
  BY EntryFacts, Zenon
<1>5. s \in Nat /\ w \in Nat /\ k \in Keys
  BY <1>4, EntryFields
<1>6. Complete(file, e, given[k], spoiled)
  BY <1>1, Zenon DEF ZIPInv, ClosedContents
<1>7. /\ e.m_nCRC32 = given[k] /\ e.m_nUncompressedSize = Len(given[k])
      /\ file[s + 2] = NameBlock(e.name)
  BY Zenon DEF ZIPInv, Checksums, Layout
<1>8. /\ file[s + 1] = HeaderBlock(e.m_nCRC32)
      /\ file[s + 3] = ExtraBlock(w, e.m_nUncompressedSize)
  BY <1>6, Zenon DEF Complete, HeaderWritten, ExtraWritten
<1> HIDE DEF e, k, s, w
<1>9. ASSUME k \notin spoiled PROVE Holds(s + 3, w, given[k])
  <2> DEFINE d == given[k]
             t == Append(d, EndOfStream)
  <2>1. Flows(file, e, t, <<>>)
    BY <1>6, <1>9, Zenon DEF Complete, k
  <2>2. /\ Len(t) = w + Len(<<>>)
        /\ \A j \in 1..w : file[s + 3 + j] = [kind |-> "data", byte |-> t[j]]
    BY <1>4, <2>1, Zenon DEF Flows, w, s
  <2>3. d \in Seq(Bytes)
    BY <1>5 DEF ZIPInv, TypeInv
  <2> HIDE DEF d
  <2>4. /\ Len(d) \in Nat /\ Len(t) = Len(d) + 1 /\ t[Len(d) + 1] = EndOfStream
        /\ \A j \in 1..Len(d) : t[j] = d[j]
    <3>1. d \in Seq(Symbols) /\ EndOfStream \in Symbols
      BY <2>3 DEF Symbols
    <3>2. Grown(Symbols, d, EndOfStream, t)
      BY <3>1, ListGrows, Zenon
    <3>3. /\ Len(t) = Len(d) + 1 /\ Len(d) \in Nat /\ DOMAIN d = 1..Len(d)
          /\ t[Len(t)] = EndOfStream /\ \A j \in DOMAIN d : t[j] = d[j]
      BY <3>2, Zenon DEF Grown
    <3> QED BY <3>3, Zenon
  <2> HIDE DEF t
  <2>5. w = Len(d) + 1
    BY <1>5, <2>2, <2>4
  <2>6. ASSUME NEW j \in 1..w
        PROVE  file[s + 3 + j] = [kind |-> "data",
                                  byte |-> IF j <= Len(d) THEN d[j] ELSE EndOfStream]
    <3>1. CASE j <= Len(d)
      <4>1. t[j] = d[j]
        BY <2>4, <2>5, <3>1
      <4> QED BY <2>2, <3>1, <4>1, Zenon
    <3>2. CASE ~(j <= Len(d))
      <4>1. j = Len(d) + 1
        BY <2>4, <2>5, <3>2
      <4> QED BY <2>2, <2>4, <3>2, <4>1, Zenon
    <3> QED BY <3>1, <3>2, Zenon
  <2> QED BY <2>5, <2>6, Zenon DEF Holds, d
<1> QED BY <1>3, <1>7, <1>8, <1>9, Zenon DEF e, k

(* ArchiveCorrect: a finished archive reads back, and only a failure of    *)
(* the export stream or of zlib keeps ~CPortableZIPWriter from finishing.  *)
THEOREM ArchiveCorrect == Spec => []FinishedArchiveReadsBack
<1>1. ASSUME ZIPInv PROVE FinishedArchiveReadsBack
  <2>1. lifetime = "terminated" => failures > 0
    BY <1>1, Zenon DEF ZIPInv, Failed
  <2>2. ASSUME m_bIsFinished
        PROVE  EndRecord.kind = "end" /\ EndRecord.entries = Len(m_Entries)
    BY <1>1, <2>2 DEF ZIPInv, Directory
  <2>3. \A k \in Keys : given[k] # <<>> => \E i \in DOMAIN m_Entries : m_Entries[i].key = k
    BY <1>1, Zenon DEF ZIPInv, KeysGrow
  <2> QED BY <1>1, <2>1, <2>2, <2>3, ReadsBack, Zenon DEF FinishedArchiveReadsBack
<1> QED BY <1>1, ZIPInvariant, PTL

(* Entry i, with its header and its data, is not changed by a step.        *)
EntryIsFinal(i) ==
  /\ m_Entries'[i] = m_Entries[i]
  /\ \A j \in m_Entries[i].m_nFilePosition + 1 ..
              m_Entries[i].m_nDataPosition + m_Entries[i].m_nCompressedSize :
       file'[j] = file[j]

(* FinalBefore: an entry is final if the file does not change before the   *)
(* end of its data.                                                        *)
LEMMA FinalBefore ==
  ASSUME ZIPInv, NEW i \in DOMAIN m_Entries, m_Entries'[i] = m_Entries[i],
         NEW n \in Nat, DataEnd(m_Entries[i]) <= n, SameBefore(file, file', n)
  PROVE  EntryIsFinal(i)
<1> DEFINE e == m_Entries[i]
<1>1. e \in Entries /\ DataEnd(e) \in Nat
  BY EntryFacts, Zenon
<1>2. e.m_nFilePosition \in Nat
  BY <1>1, EntryFields
<1>3. \A j \in 1..n : file'[j] = file[j]
  BY Zenon DEF SameBefore
<1>4. \A j \in e.m_nFilePosition + 1 .. DataEnd(e) : j \in 1..n
  BY <1>1, <1>2
<1> QED BY <1>3, <1>4, Zenon DEF EntryIsFinal, DataEnd

(* FinalUnderWrite: no closed entry changes when a step changes only the   *)
(* current entry, and the file behind its start.                           *)
LEMMA FinalUnderWrite ==
  ASSUME ZIPInv, m_pCurrentEntry, SameBefore(file, file', Current.m_nFilePosition),
         \A l \in DOMAIN m_Entries : l # Len(m_Entries) => m_Entries'[l] = m_Entries[l],
         NEW i \in DOMAIN m_Entries, i < Len(m_Entries) \/ ~m_pCurrentEntry
  PROVE  EntryIsFinal(i)
<1>1. Len(m_Entries) \in Nat /\ i # Len(m_Entries)
  BY CurrentFacts
<1>2. Current.m_nFilePosition \in Nat
  BY CurrentFacts, EntryFields
<1>3. DataEnd(m_Entries[i]) <= Current.m_nFilePosition
  BY <1>1, OtherFacts
<1> QED BY <1>1, <1>2, <1>3, FinalBefore, Zenon

(* FinalUnderGrowth: no entry changes when the file only grows.            *)
LEMMA FinalUnderGrowth ==
  ASSUME ZIPInv, NEW i \in DOMAIN m_Entries, m_Entries'[i] = m_Entries[i],
         SameBefore(file, file', Len(file))
  PROVE  EntryIsFinal(i)
<1>1. Len(file) \in Nat
  BY ListFacts DEF ZIPInv, TypeInv
<1>2. DataEnd(m_Entries[i]) <= Len(file)
  BY EntryFacts, Zenon
<1> QED BY <1>1, <1>2, FinalBefore, Zenon

(* GrowthIsAfter: a write at the end of the file changes nothing before.   *)
LEMMA GrowthIsAfter ==
  ASSUME ZIPInv, m_pCurrentEntry = FALSE, NEW b, IsList(b), Write(position, b)
  PROVE  SameBefore(file, file', Len(file))
<1>1. Appended(file, file', b)
  BY FileGrows, Zenon
<1> QED BY <1>1, Zenon DEF Appended, SameBefore

(* NothingChanges: the entries and the file are left alone.                *)
LEMMA NothingChanges ==
  ASSUME ZIPInv, UNCHANGED <<m_Entries, file>>, NEW i \in DOMAIN m_Entries
  PROVE  EntryIsFinal(i)
BY Zenon DEF EntryIsFinal

(* OutputIsFinal: writeDeflatedBuffer, or a failure of it.                 *)
LEMMA OutputIsFinal ==
  ASSUME ZIPInv, m_pCurrentStream # 0, zip[m_pCurrentStream].m_bIsInitialized,
         WriteOut(m_pCurrentStream), NEW i \in DOMAIN m_Entries,
         i < Len(m_Entries) \/ ~m_pCurrentEntry
  PROVE  EntryIsFinal(i)
<1>1. position = Len(file)
  BY AtEnd
<1>2. CurrentChanges /\ FileChanges
  BY <1>1, WriteOutChanges, Zenon
<1>3. m_pCurrentEntry
  BY StreamFacts
<1> QED BY <1>2, <1>3, FinalUnderWrite, Zenon DEF CurrentChanges, FileChanges

(* PatchIsFinal: the local header of the current entry is overwritten.     *)
LEMMA PatchIsFinal ==
  ASSUME ZIPInv, NEW pc \in {"descriptor", "extra"}, NEW p, NEW block, NEW next,
         Patch(pc, p, block, next),
         p = Current.m_nFilePosition \/ p = Current.m_nExtInfoPosition,
         NEW i \in DOMAIN m_Entries, i < Len(m_Entries) \/ ~m_pCurrentEntry
  PROVE  EntryIsFinal(i)
<1>1. call.pc = pc /\ m_Entries' = m_Entries
  BY DEF Patch, writerState
<1>2. m_pCurrentEntry
  <2>1. m_pCurrentStream # 0
    BY <1>1 DEF ZIPInv, Steps
  <2> QED BY <2>1, StreamFacts
<1>3. /\ Current \in Entries /\ DataEnd(Current) = Len(file)
      /\ Current.m_nExtInfoPosition = Current.m_nFilePosition + 2
      /\ Current.m_nDataPosition = Current.m_nFilePosition + 3
  BY <1>2, CurrentFacts
<1>4. /\ Current.m_nFilePosition \in Nat /\ Current.m_nCompressedSize \in Nat
      /\ Len(file) = Current.m_nFilePosition + 3 + Current.m_nCompressedSize
  BY <1>3, EntryFields DEF DataEnd
<1>5. CASE Write(p, <<block>>)
  <2>1. p \in Nat /\ p < Len(file) /\ p >= Current.m_nFilePosition /\ IsList(file)
    BY <1>3, <1>4, SMTT(60) DEF ZIPInv, TypeInv
  <2>2. Patched(file, file', p, block)
    BY <1>5, <2>1, WritePatches
  <2>3. \A j \in 1..Len(file) : j # p + 1 => file'[j] = file[j]
    BY <2>2, Zenon DEF Patched
  <2>4. SameBefore(file, file', Current.m_nFilePosition)
    BY <1>4, <2>1, <2>3 DEF SameBefore
  <2> QED BY <1>1, <1>2, <2>4, FinalUnderWrite, Zenon
<1>6. CASE UNCHANGED file
  BY <1>1, <1>6, NothingChanges
<1> QED BY <1>5, <1>6, Zenon DEF Patch

(* StepIsFinal: no step changes an entry that was closed.                  *)
LEMMA StepIsFinal ==
  ASSUME ZIPInv, [Next]_vars, NEW i \in DOMAIN m_Entries,
         i < Len(m_Entries) \/ ~m_pCurrentEntry
  PROVE  EntryIsFinal(i)
<1>1. ASSUME NEW name \in Names, createEntry(name) PROVE EntryIsFinal(i)
  BY <1>1, NothingChanges DEF createEntry, writerState, fileState
<1>2. ASSUME NEW k \in Keys, NEW data \in Chunks, writeBuffer(k, data) PROVE EntryIsFinal(i)
  <2>1. /\ m_Entries' = [m_Entries EXCEPT ![Len(m_Entries)] = calculateChecksum(@, data)]
        /\ file' = file /\ zip[k].m_bIsInitialized
    BY <1>2 DEF writeBuffer, fileState
  <2>2. m_pCurrentEntry
    BY <2>1 DEF ZIPInv, Pointers, Keys
  <2>3. \A l \in DOMAIN m_Entries : l # Len(m_Entries) => m_Entries'[l] = m_Entries[l]
    <3>1. PICK f : f = calculateChecksum(m_Entries[Len(m_Entries)], data)
      OBVIOUS
    <3>2. m_Entries' = [m_Entries EXCEPT ![Len(m_Entries)] = f]
      BY <2>1, <3>1, Zenon
    <3>3. m_Entries \in Seq(Entries)
      BY DEF ZIPInv, TypeInv
    <3> QED BY ONLY <3>2, <3>3
  <2>4. SameBefore(file, file', Current.m_nFilePosition)
    BY <2>1, Zenon DEF SameBefore
  <2> QED BY <2>2, <2>3, <2>4, FinalUnderWrite, Zenon
<1>3. CASE destroy
  BY <1>3, NothingChanges DEF destroy, writerState, fileState
<1>4. CASE deflate
  <2>1. UNCHANGED <<writerState, fileState>>
    BY <1>4, Zenon DEF deflate
  <2> QED BY <2>1, NothingChanges DEF writerState, fileState
<1>5. CASE drain
  <2>1. call.pc = "drain"
    BY <1>5, Zenon DEF drain
  <2>2. /\ call.key = m_pCurrentStream /\ m_pCurrentStream # 0
        /\ zip[m_pCurrentStream].m_bIsInitialized
    BY <2>1 DEF ZIPInv, Steps
  <2>3. WriteOut(call.key) \/ UNCHANGED <<writerState, fileState>>
    BY <1>5, Zenon DEF drain
  <2>4. CASE WriteOut(call.key)
    BY <2>2, <2>4, OutputIsFinal, Zenon
  <2>5. CASE UNCHANGED <<writerState, fileState>>
    BY <2>5, NothingChanges DEF writerState, fileState
  <2> QED BY <2>3, <2>4, <2>5
<1>6. ASSUME NEW p \in {"spill", "flush"}, NEW ini, NEW next, FinishWrites(p, ini, next)
      PROVE  EntryIsFinal(i)
  <2>1. call.pc = p
    BY <1>6, Zenon DEF FinishWrites
  <2>2. m_pCurrentStream # 0 /\ zip[m_pCurrentStream].m_bIsInitialized
    BY <2>1 DEF ZIPInv, Steps
  <2>3. WriteOut(m_pCurrentStream) \/ UNCHANGED <<writerState, fileState>>
    BY <1>6, Zenon DEF FinishWrites
  <2>4. CASE WriteOut(m_pCurrentStream)
    BY <2>2, <2>4, OutputIsFinal, Zenon
  <2>5. CASE UNCHANGED <<writerState, fileState>>
    BY <2>5, NothingChanges DEF writerState, fileState
  <2> QED BY <2>3, <2>4, <2>5
<1>7. CASE close
  <2>1. UNCHANGED fileState
    BY <1>7, Zenon DEF close
  <2>2. NoCurrentEntry \/ UNCHANGED writerState
    BY <1>7, Zenon DEF close
  <2> QED BY <2>1, <2>2, NothingChanges DEF NoCurrentEntry, writerState, fileState
<1>8. CASE finish
  <2>1. UNCHANGED <<writerState, fileState>>
    BY <1>8, Zenon DEF finish
  <2> QED BY <2>1, NothingChanges DEF writerState, fileState
<1>9. CASE spill \/ flush
  BY <1>6, <1>9 DEF spill, flush
<1>10. CASE descriptor
  BY <1>10, PatchIsFinal DEF descriptor
<1>11. CASE extra
  BY <1>11, PatchIsFinal DEF extra
<1>12. CASE end
  <2>1. file' = file
    BY <1>12, Zenon DEF end
  <2>2. NoCurrentEntry \/ UNCHANGED writerState
    BY <1>12 DEF end
  <2> QED BY <2>1, <2>2, NothingChanges DEF NoCurrentEntry, writerState
<1>13. CASE key
  BY <1>13, NothingChanges DEF key, fileState
<1>14. CASE header
  <2> DEFINE b == <<HeaderBlock(<<>>), NameBlock(call.name), ExtraBlock(0, 0)>>
  <2>1. call.pc = "header"
    BY <1>14, Zenon DEF header
  <2>2. m_pCurrentEntry = FALSE
    BY <2>1 DEF ZIPInv, Steps, TypeInv
  <2>3. IsList(b) /\ Len(b) = 3
    <3>1. ASSUME NEW x, NEW y, NEW z
          PROVE  <<x, y, z>> \in Seq({x, y, z}) /\ Len(<<x, y, z>>) = 3
      OBVIOUS
    <3> QED BY <3>1, SeqIsList, Zenon
  <2> HIDE DEF b
  <2>4. CASE Write(position, b) /\ m_Entries' = Append(m_Entries, NewEntry)
    <3>1. SameBefore(file, file', Len(file))
      BY <2>2, <2>3, <2>4, GrowthIsAfter, Zenon
    <3>2. m_Entries'[i] = m_Entries[i]
      <4>1. m_Entries \in Seq(Entries)
        BY DEF ZIPInv, TypeInv
      <4>2. ASSUME NEW S, NEW a \in Seq(S), NEW x, NEW l \in DOMAIN a
            PROVE  Append(a, x)[l] = a[l]
        OBVIOUS
      <4> QED BY <2>4, <4>1, <4>2, Zenon
    <3> QED BY <3>1, <3>2, FinalUnderGrowth, Zenon
  <2>5. ASSUME NEW n \in 0..2, Write(position, SubSeq(b, 1, n)), m_Entries' = m_Entries
        PROVE  EntryIsFinal(i)
    <3>1. n \in 0..Len(b)
      BY <2>3
    <3>2. IsList(SubSeq(b, 1, n))
      BY <2>3, <3>1, ListStart
    <3>3. SameBefore(file, file', Len(file))
      BY <2>2, <2>5, <3>2, GrowthIsAfter, Zenon
    <3> QED BY <2>5, <3>3, FinalUnderGrowth, Zenon
  <2> QED BY <1>14, <2>4, <2>5, Zenon DEF header, b
<1>15. CASE stream
  BY <1>15, NothingChanges DEF stream, fileState
<1>16. CASE directory
  <2>1. call.pc = "directory" /\ m_Entries' = m_Entries
    BY <1>16, Zenon DEF directory
  <2>2. m_pCurrentEntry = FALSE
    BY <2>1 DEF ZIPInv, Steps, TypeInv
  <2>3. /\ IsList(DirectoryBlocks) /\ Len(m_Entries) \in Nat
        /\ Len(DirectoryBlocks) = Len(m_Entries) + 1
    BY DirectoryList, Zenon
  <2>4. CASE Write(position, DirectoryBlocks)
    <3>1. SameBefore(file, file', Len(file))
      BY <2>2, <2>3, <2>4, GrowthIsAfter, Zenon
    <3> QED BY <2>1, <3>1, FinalUnderGrowth, Zenon
  <2>5. ASSUME NEW n \in 0..Len(m_Entries), Write(position, SubSeq(DirectoryBlocks, 1, n))
        PROVE  EntryIsFinal(i)
    <3>1. n \in 0..Len(DirectoryBlocks)
      BY <2>3
    <3>2. IsList(SubSeq(DirectoryBlocks, 1, n))
      BY <2>3, <3>1, ListStart
    <3>3. SameBefore(file, file', Len(file))
      BY <2>2, <2>5, <3>2, GrowthIsAfter, Zenon
    <3> QED BY <2>1, <3>3, FinalUnderGrowth, Zenon
  <2> QED BY <1>16, <2>4, <2>5, Zenon DEF directory
<1>17. CASE UNCHANGED vars
  BY <1>17, NothingChanges DEF vars, writerState, fileState
<1> QED BY <1>1, <1>2, <1>3, <1>4, <1>5, <1>7, <1>8, <1>9, <1>10, <1>11, <1>12, <1>13,
           <1>14, <1>15, <1>16, <1>17, Zenon DEF Next

(* EntriesAreFinal: what closeEntry has finished is never written to       *)
(* again, by no call and after no failure.                                 *)
THEOREM EntriesAreFinal == Spec => ClosedEntriesAreFinal
<1>1. ZIPInv /\ [Next]_vars =>
        [\A i \in DOMAIN m_Entries :
           i < Len(m_Entries) \/ ~m_pCurrentEntry =>
             /\ m_Entries'[i] = m_Entries[i]
             /\ \A j \in m_Entries[i].m_nFilePosition + 1 ..
                         m_Entries[i].m_nDataPosition
                           + m_Entries[i].m_nCompressedSize :
                  file'[j] = file[j]]_vars
  BY StepIsFinal, Zenon DEF EntryIsFinal
<1> QED BY <1>1, ZIPInvariant, PTL DEF Spec, ClosedEntriesAreFinal

=============================================================================
