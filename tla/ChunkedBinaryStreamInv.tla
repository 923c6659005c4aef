----------------------- MODULE ChunkedBinaryStreamInv -----------------------
(***************************************************************************)
(* The inductive invariant of ChunkedBinaryStream.  The theorems that rest *)
(* on it are in ChunkedBinaryStreamProofs.                                 *)
(*                                                                         *)
(* The invariant looks at every chunk through Table and Data: the entries  *)
(* and words it holds, which are in the writer's vectors while the chunk   *)
(* is open and on the stream once it is closed.                            *)
(***************************************************************************)
EXTENDS ChunkedBinaryStream

Closed(c) == c < Len(m_Chunks) \/ ~m_CurrentChunk

\* The entry table and the data that a chunk descriptor points to in a stream.
TableIn(chunk, body) ==
  IF chunk.m_EntryCount = 0 THEN <<>>
  ELSE body[chunk.m_EntryTableStart + 1].entries

DataIn(chunk, body) ==
  IF chunk.m_UncompressedDataSize = 0 THEN <<>>
  ELSE body[chunk.m_CompressedDataStart + 1].data

Table(c) ==
  IF Closed(c) THEN TableIn(m_Chunks[c], stream) ELSE m_CurrentChunkEntries

Data(c) ==
  IF Closed(c) THEN DataIn(m_Chunks[c], stream) ELSE m_CurrentChunkData

\* The words that the add call pushed for a written array.
PushedWords(r) ==
  IF r.type \in IntTypes THEN IntWords(r.values, r.type)
  ELSE <<BitsOf(r.unit)>> \o FloatWords(r.values, r.unit, r.type)

-----------------------------------------------------------------------------

\* A chunk is open only if there is one and the stream is not finished.
OpenInv ==
  /\ m_CurrentChunk => m_Chunks # <<>> /\ ~m_bIsFinished
  /\ stream # <<>>

\* A chunk descriptor points to an entry table and to data in a stream.
PointsInto(chunk, body) ==
  /\ chunk.m_EntryCount > 0 =>
       /\ chunk.m_EntryTableStart \in 1 .. Len(body) - 1
       /\ body[chunk.m_EntryTableStart + 1].kind = "entries"
  /\ chunk.m_UncompressedDataSize > 0 =>
       /\ chunk.m_CompressedDataStart \in 1 .. Len(body) - 1
       /\ body[chunk.m_CompressedDataStart + 1].kind = "data"
       /\ chunk.m_CompressedDataSize \in 1 .. 2 * chunk.m_UncompressedDataSize
       /\ chunk.m_CompressedPropsSize = 1

\* The descriptor of a closed chunk does.
BlocksInv ==
  \A c \in DOMAIN m_Chunks : Closed(c) => PointsInto(m_Chunks[c], stream)

\* The entries of a chunk tile its declared size, which its data covers and,
\* if no add call threw, equals.
Tiles(entries, data, chunk, undamaged) ==
  /\ Len(entries) = chunk.m_EntryCount
  /\ chunk.m_UncompressedDataSize <= 4 * Len(data)
  /\ chunk.m_UncompressedDataSize % 4 = 0
  /\ undamaged => chunk.m_UncompressedDataSize = 4 * Len(data)
  /\ \A k \in DOMAIN entries :
       /\ entries[k].m_PositionInChunk % 4 = 0
       /\ entries[k].m_SizeInBytes % 4 = 0
       /\ entries[k].m_SizeInBytes >=
            IF entries[k].m_EntryType \in IntTypes THEN 4 ELSE 8
       /\ entries[k].m_PositionInChunk + entries[k].m_SizeInBytes =
            IF k < Len(entries) THEN entries[k + 1].m_PositionInChunk
            ELSE chunk.m_UncompressedDataSize
  /\ \A k \in DOMAIN entries :
       entries[k].m_PositionInChunk + entries[k].m_SizeInBytes
         <= chunk.m_UncompressedDataSize

TableInv ==
  \A c \in DOMAIN m_Chunks :
    Tiles(Table(c), Data(c), m_Chunks[c], c \notin damaged)

\* The ID of an entry was given out, and to no other entry.
IDsInv ==
  \A c, d \in DOMAIN m_Chunks : \A k \in DOMAIN Table(c), l \in DOMAIN Table(d) :
    /\ Table(c)[k].m_EntryID < m_elementIDCounter
    /\ Table(c)[k].m_EntryID = Table(d)[l].m_EntryID => c = d /\ k = l

\* A written array has its entry, and if it is intact its words are where the
\* entry says.
WrittenInv ==
  \A r \in written :
    /\ r.chunk \in DOMAIN m_Chunks
    /\ r.values # <<>>
    /\ r.type \in IntTypes => r.values \in IntArrays
    /\ r.type \in FloatTypes => /\ r.values \in FloatArrays
                                /\ r.unit \in Units
                                /\ OutOfRange(r.values, r.unit, r.type) = {}
    /\ r.offset + Len(PushedWords(r)) <= Len(Data(r.chunk))
    /\ \A i \in DOMAIN PushedWords(r) :
         Data(r.chunk)[r.offset + i] = PushedWords(r)[i]
    /\ \E k \in DOMAIN Table(r.chunk) :
         /\ Table(r.chunk)[k].m_EntryID = r.id
         /\ Table(r.chunk)[k].m_EntryType = r.type
         /\ Table(r.chunk)[k].m_SizeInBytes = 4 * Len(PushedWords(r))
         /\ r.intact => Table(r.chunk)[k].m_PositionInChunk = 4 * r.offset

\* A finished stream has the chunk table its header points to.
FinishedInv ==
  m_bIsFinished =>
    /\ stream[1] = HeaderBlock(Len(m_Chunks), m_ChunkTableStart)
    /\ m_Chunks # <<>> =>
         /\ m_ChunkTableStart \in 1 .. Len(stream) - 1
         /\ stream[m_ChunkTableStart + 1] =
              [kind |-> "chunks", chunks |-> m_Chunks]

\* The words of chunk c that loadData puts in memory.
Loaded(c) == SubSeq(Data(c), 1, m_Chunks[c].m_UncompressedDataSize \div 4)

ReaderInv ==
  /\ reader # "none" => m_bIsFinished
  /\ reader # "open" => call = NoCall /\ m_bHasCachedData = {}
  /\ reader = "open" =>
       /\ m_ChunkEntries = [c \in DOMAIN m_Chunks |-> Table(c)]
       /\ m_ChunkMap = EntryPlaces(m_ChunkEntries)
       /\ Len(m_Data) = Len(m_Chunks)
       /\ m_bHasCachedData \subseteq DOMAIN m_Chunks
       /\ \A c \in m_bHasCachedData : m_Data[c] = Loaded(c)
  /\ reader = "rejected" =>
       \E c \in DOMAIN m_Chunks : TooLarge(m_Chunks[c])

\* The read call in progress stays inside the data of its chunk.
CallInv ==
  call.phase = "reading" =>
    /\ call.chunk \in m_bHasCachedData
    /\ call.pos % 4 = 0
    /\ call.end <= 4 * Len(m_Data[call.chunk])
    /\ Len(call.out) <= call.count

\* The decoded word of a delta array that the reader holds after i iterations.
Held(r, i) ==
  IF i = 0 THEN 0
  ELSE IF r.type = INT32_DELTA THEN r.values[i]
  ELSE FloatUnits(r.values, r.unit, r.type, i)

\* The number of words in front of the values of an array.
Skipped(r) == IF r.type \in IntTypes THEN 0 ELSE 1

\* A call that reads an intact array has delivered the values up to the place
\* where it is.
ReadInv ==
  \A r \in written : Asked(r) /\ r.intact =>
    /\ call.phase # "error"
    /\ call.phase \in {"reading", "done"} =>
         /\ call.count = Len(r.values)
         /\ \A i \in DOMAIN call.out :
              /\ r.type \in IntTypes => call.out[i] = r.values[i]
              /\ r.type = FLOAT32_DELTA =>
                   call.out[i] = Product(Held(r, i), r.unit)
    /\ call.phase = "done" => Len(call.out) = call.count
    /\ call.phase = "reading" =>
         /\ call.chunk = r.chunk
         /\ call.type = r.type
         /\ r.type \in FloatTypes => call.unit = r.unit
         /\ call.pos = 4 * (r.offset + Skipped(r) + Len(call.out))
         /\ call.end = 4 * (r.offset + Len(PushedWords(r)))
         /\ r.type \in {INT32_DELTA, FLOAT32_DELTA} =>
              call.last = Held(r, Len(call.out))

\* The part of the invariant about the writer, and all of it.
WriterIInv ==
  /\ WriterTypeOK
  /\ OpenInv
  /\ BlocksInv
  /\ TableInv
  /\ IDsInv
  /\ WrittenInv
  /\ FinishedInv

IInv ==
  /\ TypeOK
  /\ WriterIInv
  /\ ReaderInv
  /\ CallInv
  /\ ReadInv
=============================================================================
