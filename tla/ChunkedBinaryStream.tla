------------------------ MODULE ChunkedBinaryStream ------------------------
(***************************************************************************)
(* The chunked binary stream from end to end: a client writes arrays with  *)
(* CChunkedBinaryStreamWriter, finishes the stream, and a reader opens the *)
(* result with CChunkedBinaryStreamReader and reads arrays back by their   *)
(* entry ID.  An array is read one value per step, so that what the reader *)
(* has delivered so far can be compared with what was written.             *)
(***************************************************************************)
EXTENDS ChunkedBinaryStreamWriter

VARIABLES
  reader,            \* "none", "open" or "rejected": its constructor threw
  m_ChunkEntries,    \* the entry table of every chunk of the reader
  m_ChunkMap,        \* the places of the entry IDs
  m_bHasCachedData,  \* the chunks whose data is in memory
  m_Data,            \* the uncompressed words of every chunk
  call               \* the read call in progress, or the last one

readerVars == <<reader, m_ChunkEntries, m_ChunkMap, m_bHasCachedData, m_Data,
                call>>
vars == <<writerVars, readerVars>>

NoCall == [phase |-> "idle", id |-> 0, kind |-> "int", chunk |-> 0, type |-> 0,
           pos |-> 0, end |-> 0, count |-> 0, unit |-> 0, last |-> 0,
           out |-> <<>>]

Kinds == {"int", "float"}

KindOf(type) == IF type \in IntTypes THEN "int" ELSE "float"

-----------------------------------------------------------------------------
(* Opening the stream: readHeader and the chunk constructors.              *)

BlockAt(position) == stream[position + 1]

\* The chunk table the header points to.
ReadChunkTable ==
  IF BlockAt(0).m_ChunkCount = 0 THEN <<>>
  ELSE BlockAt(BlockAt(0).m_ChunkTableStart).chunks

ReadEntryTable(chunk) ==
  IF chunk.m_EntryCount = 0 THEN <<>>
  ELSE SubSeq(BlockAt(chunk.m_EntryTableStart).entries, 1, chunk.m_EntryCount)

TooLarge(chunk) ==
  \/ chunk.m_UncompressedDataSize > MaxChunkDataSize
  \/ chunk.m_CompressedDataSize > MaxChunkDataSize
  \/ chunk.m_CompressedPropsSize > MaxChunkDataSize

\* <<entry ID, chunk, index>> for all the entries of the tables.
EntryPlaces(tables) ==
  UNION {{<<tables[c][k].m_EntryID, c, k>> : k \in DOMAIN tables[c]}
         : c \in DOMAIN tables}

DuplicateEntry(places) ==
  \E p, q \in places : p[1] = q[1] /\ p # q

Open ==
  /\ m_bIsFinished
  /\ reader = "none"
  /\ LET chunks == ReadChunkTable
         tables == [c \in DOMAIN chunks |-> ReadEntryTable(chunks[c])]
         throws == \/ \E c \in DOMAIN chunks : TooLarge(chunks[c])
                   \/ DuplicateEntry(EntryPlaces(tables))
     IN  /\ reader' = IF throws THEN "rejected" ELSE "open"
         /\ m_ChunkEntries' = IF throws THEN <<>> ELSE tables
         /\ m_ChunkMap' = IF throws THEN {} ELSE EntryPlaces(tables)
         /\ m_Data' = IF throws THEN <<>> ELSE [c \in DOMAIN chunks |-> <<>>]
  /\ UNCHANGED <<m_bHasCachedData, call, writerVars>>

-----------------------------------------------------------------------------
(* Reading an array.                                                       *)

\* The data loadData puts in memory: LzmaUncompress stops at the declared
\* size of the chunk.
LoadedData(c) ==
  LET chunk == ReadChunkTable[c]
  IN  IF c \in m_bHasCachedData THEN m_Data[c]
      ELSE IF chunk.m_UncompressedDataSize = 0 THEN <<>>
      ELSE SubSeq(BlockAt(chunk.m_CompressedDataStart).data, 1,
                  chunk.m_UncompressedDataSize \div 4)

\* loadData throws.
LoadThrows(c) ==
  LET chunk == ReadChunkTable[c]
  IN  /\ c \notin m_bHasCachedData
      /\ chunk.m_UncompressedDataSize > 0
      /\ \/ chunk.m_CompressedPropsSize = 0
         \/ chunk.m_CompressedDataSize = 0

\* The number of values getInformation reports for an entry.
ValueCount(entry) ==
  IF entry.m_EntryType \in IntTypes THEN entry.m_SizeInBytes \div 4
  ELSE (entry.m_SizeInBytes - 4) \div 4

\* Mutant of EndPosition: every entry reaches to the end of the chunk.
EndOfChunk(c, k, data) == 4 * Len(data)

\* The end of entry k of a chunk, as seekToEntry finds it.
EndPosition(c, k, data) ==
  IF k < Len(m_ChunkEntries[c]) THEN m_ChunkEntries[c][k + 1].m_PositionInChunk
  ELSE 4 * Len(data)

SeekThrows(c, k, data) ==
  LET start == m_ChunkEntries[c][k].m_PositionInChunk
      end == EndPosition(c, k, data)
  IN  \/ start > 4 * Len(data)
      \/ end < start
      \/ end - start # m_ChunkEntries[c][k].m_SizeInBytes

Failed(id, kind) == [NoCall EXCEPT !.phase = "error", !.id = id, !.kind = kind]

\* A client asks getTypedChunkEntryCount for the length of an array and calls
\* readIntArray or readFloatArray with a buffer of that length.
readArray(id, kind) ==
  /\ reader = "open"
  /\ call.phase # "reading"
  /\ UNCHANGED <<reader, m_ChunkEntries, m_ChunkMap, writerVars>>
  /\ \/ /\ \A p \in m_ChunkMap : p[1] = id =>
             \/ KindOf(m_ChunkEntries[p[2]][p[3]].m_EntryType) # kind
             \/ LoadThrows(p[2])
        /\ call' = Failed(id, kind)
        /\ UNCHANGED <<m_bHasCachedData, m_Data>>
     \/ \E p \in m_ChunkMap :
          LET c == p[2]
              k == p[3]
              entry == m_ChunkEntries[c][k]
              start == entry.m_PositionInChunk
              data == LoadedData(c)
          IN  /\ p[1] = id
              /\ KindOf(entry.m_EntryType) = kind
              /\ ~LoadThrows(c)
              /\ m_bHasCachedData' = m_bHasCachedData \cup {c}
              /\ m_Data' = [m_Data EXCEPT ![c] = data]
              /\ call' =
                   IF SeekThrows(c, k, data) THEN Failed(id, kind)
                   ELSE [NoCall EXCEPT
                           !.phase = "reading", !.id = id, !.kind = kind,
                           !.chunk = c, !.type = entry.m_EntryType,
                           !.count = ValueCount(entry),
                           !.end = EndPosition(c, k, data),
                           !.unit = IF kind = "int" THEN 0
                                    ELSE FloatOf(data[(start \div 4) + 1]),
                           !.pos = IF kind = "int" THEN start ELSE start + 4]

\* Mutant of DecodedWord: readIntArray ignores delta prediction.
DecodedFloatsOnly(word) ==
  IF call.type = FLOAT32_DELTA THEN Wrap(word + call.last) ELSE word

\* The value one iteration of the loops delivers, and what it keeps of it.
DecodedWord(word) ==
  IF call.type \in {INT32_DELTA, FLOAT32_DELTA} THEN Wrap(word + call.last)
  ELSE word

Delivered(value) ==
  IF call.kind = "int" THEN value ELSE Product(value, call.unit)

readValue ==
  /\ call.phase = "reading"
  /\ Len(call.out) < call.count
  /\ UNCHANGED <<reader, m_ChunkEntries, m_ChunkMap, m_bHasCachedData, m_Data,
                 writerVars>>
  /\ IF call.pos + 4 > call.end
       THEN call' = Failed(call.id, call.kind)
       ELSE LET value == DecodedWord(m_Data[call.chunk][(call.pos \div 4) + 1])
            IN  call' = [call EXCEPT !.pos = @ + 4, !.last = value,
                                     !.out = Append(@, Delivered(value))]

readReturns ==
  /\ call.phase = "reading"
  /\ Len(call.out) = call.count
  /\ call' = [call EXCEPT !.phase = "done"]
  /\ UNCHANGED <<reader, m_ChunkEntries, m_ChunkMap, m_bHasCachedData, m_Data,
                 writerVars>>

clearCache ==
  /\ reader = "open"
  /\ call.phase # "reading"
  /\ m_bHasCachedData # {}
  /\ m_Data' = [c \in DOMAIN m_Data |-> <<>>]
  /\ m_bHasCachedData' = {}
  /\ UNCHANGED <<reader, m_ChunkEntries, m_ChunkMap, call, writerVars>>

-----------------------------------------------------------------------------

Init ==
  /\ WriterInit
  /\ reader = "none"
  /\ m_ChunkEntries = <<>>
  /\ m_ChunkMap = {}
  /\ m_bHasCachedData = {}
  /\ m_Data = <<>>
  /\ call = NoCall

Next ==
  \/ WriterNext /\ UNCHANGED readerVars
  \/ Open
  \/ \E id \in 1 .. MaxElements, kind \in Kinds : readArray(id, kind)
  \/ readValue
  \/ readReturns
  \/ clearCache

Spec == Init /\ [][Next]_vars

-----------------------------------------------------------------------------
(* Properties.                                                             *)

CallType ==
  [phase : {"idle", "reading", "done", "error"}, id : Nat, kind : Kinds,
   chunk : Nat, type : {0} \cup IntTypes \cup FloatTypes, pos : Nat, end : Nat,
   count : Nat, unit : {FloatOf(w) : w \in Words}, last : Words, out : Seq(Int)]

\* Every variable of the writer and of the reader has its type: in particular
\* every word fits an nfInt32, and so does the running value of a delta array.
TypeOK ==
  /\ WriterTypeOK
  /\ reader \in {"none", "open", "rejected"}
  /\ m_ChunkEntries \in Seq(Seq(EntryType))
  /\ m_ChunkMap \subseteq Nat \X Nat \X Nat
  /\ m_bHasCachedData \subseteq Nat
  /\ m_Data \in Seq(Seq(Words))
  /\ call \in CallType

\* The record of what the read call in progress was asked for, if any.
Asked(r) == r.id = call.id /\ KindOf(r.type) = call.kind

\* readIntArray delivers, value by value, the array that addIntArray was given
\* under that ID, with or without delta prediction, whatever chunk it is in
\* and whatever was loaded, unloaded or read before; an addFloatArray that
\* throws later in the chunk does not change that.
IntArraysReadBack ==
  \A r \in written :
    /\ Asked(r) /\ r.intact /\ call.kind = "int"
    /\ call.phase \in {"reading", "done"}
    => /\ call.count = Len(r.values)
       /\ \A i \in DOMAIN call.out : call.out[i] = r.values[i]
       /\ call.phase = "done" => call.out = r.values

\* readFloatArray delivers every value of a delta array that starts at zero,
\* as the vertex arrays of the mesh writer do, to about one unit and the
\* rounding of one division and one product: to unit * (1 + e) + 3 * e * |value|
\* for e = 1 / FloatPrecision.  No error accumulates along the chain of
\* differences, also where a difference overflows.
FloatArraysReadBackWithinUnit ==
  \A r \in written :
    /\ Asked(r) /\ r.intact /\ call.phase \in {"reading", "done"}
    /\ r.type = FLOAT32_DELTA /\ r.values[1] = 0
    => /\ call.count = Len(r.values)
       /\ \A i \in DOMAIN call.out :
            FloatPrecision * AbsValue(call.out[i] - r.values[i])
              < (FloatPrecision + 1) * r.unit + 3 * AbsValue(r.values[i])

\* A read of an ID that an add call returned fails only when another call had
\* thrown in the same chunk before.
IntactArraysAreReadable ==
  \A r \in written : Asked(r) /\ r.intact => call.phase # "error"

\* The reader accepts what the writer finishes if no chunk was left empty and
\* none holds more than half of BINARYCHUNKFILEMAXCHUNKDATASIZE: entry IDs are
\* never given out twice, and compression at most doubles the data.
SmallChunksAreAccepted ==
  reader = "rejected" =>
    \E c \in DOMAIN m_Chunks :
      \/ m_Chunks[c].m_EntryCount = 0
      \/ 2 * m_Chunks[c].m_UncompressedDataSize > MaxChunkDataSize

\* After finishWriting no call changes the stream that copyToStream copies.
FinishedStreamIsFinal == [][m_bIsFinished => UNCHANGED stream]_vars
=============================================================================
