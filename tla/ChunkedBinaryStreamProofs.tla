---------------------- MODULE ChunkedBinaryStreamProofs ----------------------
(***************************************************************************)
(* The theorems about ChunkedBinaryStream, for all arrays, units and       *)
(* limits.                                                                 *)
(***************************************************************************)
EXTENDS ChunkedBinaryStreamInv, SequenceTheorems, TLAPS

-----------------------------------------------------------------------------
(* The writer keeps its part of the invariant. *)

(***************************************************************************)
(* Arithmetic.                                                             *)
(***************************************************************************)

\* Division of a non-negative number of grains.
LEMMA DivFacts ==
  ASSUME NEW x \in Nat, NEW d \in Nat \ {0}
  PROVE  /\ x \div d \in Nat
         /\ (x \div d) * d <= x
         /\ x - (x \div d) * d < d
  OBVIOUS

LEMMA TruncType ==
  ASSUME NEW x \in Int, NEW d \in Nat \ {0}
  PROVE  Trunc(x, d) \in Int
  BY DivFacts DEF Trunc

LEMMA TruncBound ==
  ASSUME NEW x \in Int, NEW d \in Nat \ {0}, NEW h \in Nat \ {0},
         x < d * h, -(d * h) < x
  PROVE  Trunc(x, d) < h /\ -h < Trunc(x, d)
  BY DivFacts DEF Trunc

\* A difference of two words fits a word, and adding it back gives the word.
LEMMA WrapFacts ==
  ASSUME NEW a \in Words, NEW b \in Words
  PROVE  /\ Wrap(a - b) \in Words
         /\ Wrap(a + b) \in Words
         /\ Wrap(Wrap(a - b) + b) = a
  BY SizesAssumption DEF Words, Wrap

(***************************************************************************)
(* The words of an array.                                                  *)
(***************************************************************************)

LEMMA SeqOfFunction ==
  ASSUME NEW S, NEW n \in Nat, NEW f \in [1 .. n -> S]
  PROVE  f \in Seq(S) /\ Len(f) = n
  OBVIOUS

LEMMA ConcatFacts ==
  ASSUME NEW S, NEW s \in Seq(S), NEW t \in Seq(S)
  PROVE  /\ s \o t \in Seq(S)
         /\ Len(s) \in Nat /\ Len(t) \in Nat
         /\ Len(s \o t) = Len(s) + Len(t)
         /\ \A i \in 1 .. Len(s) : (s \o t)[i] = s[i]
         /\ \A i \in 1 .. Len(t) : (s \o t)[Len(s) + i] = t[i]
         /\ Len(t) >= 1 => (s \o t)[Len(s) + 1] = t[1]
  OBVIOUS

LEMMA IntWordsFacts ==
  ASSUME NEW a \in IntArrays, NEW type \in IntTypes
  PROVE  IntWords(a, type) \in Seq(Words) /\ Len(IntWords(a, type)) = Len(a)
<1>1. a \in Seq(Words) /\ Len(a) \in Nat
  BY ClientsAssumption
<1>2. \A i \in 1 .. Len(a) :
        (IF type = INT32_DELTA /\ i > 1 THEN Wrap(a[i] - a[i - 1]) ELSE a[i])
          \in Words
  BY <1>1, WrapFacts
<1>3. IntWords(a, type) \in [1 .. Len(a) -> Words]
  BY <1>2 DEF IntWords
<1> QED
  BY <1>1, <1>3, SeqOfFunction

\* The conversion of a client's float to nfInt32 fits a word.
LEMMA FloatValueFacts ==
  ASSUME NEW f \in FloatArrays, NEW i \in DOMAIN f
  PROVE  f[i] \in Int /\ Trunc(f[i], One) \in Words
<1>1. /\ f[i] \in Int
      /\ f[i] < One * HalfRange
      /\ -(One * HalfRange) < f[i]
  BY ClientsAssumption
<1>2. One \in Nat \ {0} /\ HalfRange \in Nat \ {0}
  BY SizesAssumption
<1>3. Trunc(f[i], One) \in Int
  BY <1>1, <1>2, TruncType
<1>4. Trunc(f[i], One) < HalfRange /\ -HalfRange < Trunc(f[i], One)
  BY <1>1, <1>2, TruncBound
<1> QED
  BY <1>1, <1>2, <1>3, <1>4 DEF Words

LEMMA FloatUnitsFacts ==
  ASSUME NEW f \in FloatArrays, NEW unit \in Units, NEW type \in FloatTypes,
         NEW i \in DOMAIN f
  PROVE  FloatUnits(f, unit, type, i) \in Int
<1>1. f \in Seq(Int) /\ f[i] \in Int
  BY ClientsAssumption
<1>2. Trunc(f[i], One) \in Int
  BY <1>1, SizesAssumption, TruncType
<1>3. Quotient(f[i], unit) \in Int
  BY FloatAssumption
<1> QED
  BY <1>2, <1>3 DEF FloatUnits

\* Each word of a float array fits a word up to the first value out of range.
LEMMA FloatWordFacts ==
  ASSUME NEW f \in FloatArrays, NEW unit \in Units, NEW type \in FloatTypes,
         NEW i \in DOMAIN f,
         i \notin OutOfRange(f, unit, type),
         i > 1 => i - 1 \notin OutOfRange(f, unit, type)
  PROVE  FloatWords(f, unit, type)[i] \in Words
<1> DEFINE U(j) == FloatUnits(f, unit, type, j)
<1>1. f \in Seq(Int) /\ DOMAIN f = 1 .. Len(f) /\ Len(f) \in Nat
  BY ClientsAssumption
<1>2. FloatWords(f, unit, type)[i] =
        IF type = FLOAT32_NOPREDICTION THEN Trunc(f[i], One)
        ELSE IF i = 1 THEN U(1) ELSE Wrap(U(i) - U(i - 1))
  BY <1>1 DEF FloatWords
<1>3. CASE type = FLOAT32_NOPREDICTION
  BY <1>2, <1>3, FloatValueFacts
<1>4. ASSUME NEW j \in DOMAIN f, j \notin OutOfRange(f, unit, type)
      PROVE  U(j) \in Words
  <2>1. U(j) \in Int
    BY <1>4, FloatUnitsFacts
  <2>2. AbsValue(U(j)) <= MaxFloatUnits
    BY <1>1, <1>4, <2>1, SizesAssumption DEF OutOfRange, AbsValue
  <2> HIDE DEF U
  <2> QED
    BY <2>1, <2>2, SizesAssumption, ClientsAssumption DEF AbsValue, Words
<1>5. CASE type # FLOAT32_NOPREDICTION /\ i = 1
  <2>1. FloatWords(f, unit, type)[i] = U(i)
    BY <1>2, <1>5
  <2> HIDE DEF U
  <2> QED
    BY <1>4, <1>5, <2>1
<1>6. CASE type # FLOAT32_NOPREDICTION /\ i # 1
  <2>1. FloatWords(f, unit, type)[i] = Wrap(U(i) - U(i - 1))
    BY <1>2, <1>6
  <2>2. i - 1 \in DOMAIN f /\ i > 1
    BY <1>1, <1>6
  <2> HIDE DEF U
  <2>3. U(i) \in Words /\ U(i - 1) \in Words
    BY <1>4, <2>2
  <2> QED
    BY <2>1, <2>3, WrapFacts
<1> QED
  BY <1>3, <1>5, <1>6

LEMMA FloatWordsFacts ==
  ASSUME NEW f \in FloatArrays, NEW unit \in Units, NEW type \in FloatTypes,
         OutOfRange(f, unit, type) = {}
  PROVE  /\ FloatWords(f, unit, type) \in Seq(Words)
         /\ Len(FloatWords(f, unit, type)) = Len(f)
<1>1. f \in Seq(Int) /\ Len(f) \in Nat /\ DOMAIN f = 1 .. Len(f)
  BY ClientsAssumption
<1>2. \A i \in 1 .. Len(f) : FloatWords(f, unit, type)[i] \in Words
  BY <1>1, FloatWordFacts
<1>3. FloatWords(f, unit, type) \in [1 .. Len(f) -> Words]
  BY <1>2 DEF FloatWords
<1> QED
  BY <1>1, <1>3, SeqOfFunction

LEMMA PushedWordsType ==
  ASSUME NEW r, r.type \in IntTypes \cup FloatTypes,
         r.type \in IntTypes => r.values \in IntArrays,
         r.type \in FloatTypes => /\ r.values \in FloatArrays
                                  /\ r.unit \in Units
                                  /\ OutOfRange(r.values, r.unit, r.type) = {}
  PROVE  /\ PushedWords(r) \in Seq(Words)
         /\ Len(PushedWords(r)) =
              Len(r.values) + IF r.type \in IntTypes THEN 0 ELSE 1
<1>1. CASE r.type \in IntTypes
  BY <1>1, IntWordsFacts, ClientsAssumption DEF PushedWords
<1>2. CASE r.type \notin IntTypes
  <2>1. BitsOf(r.unit) \in Words /\ r.values \in Seq(Int)
    BY <1>2, ClientsAssumption, FloatAssumption
  <2>2. /\ FloatWords(r.values, r.unit, r.type) \in Seq(Words)
        /\ Len(FloatWords(r.values, r.unit, r.type)) = Len(r.values)
    BY <1>2, FloatWordsFacts
  <2>3. <<BitsOf(r.unit)>> \in Seq(Words) /\ Len(<<BitsOf(r.unit)>>) = 1
    BY <2>1
  <2> QED
    BY <1>2, <2>1, <2>2, <2>3, ConcatFacts DEF PushedWords
<1> QED
  BY <1>1, <1>2

(***************************************************************************)
(* Closing a chunk moves its entries and data to the stream.               *)
(***************************************************************************)

\* What a chunk descriptor points to stays where it is when the stream grows
\* and its first block, the header, is written again.
LEMMA StreamGrows ==
  ASSUME NEW s \in Seq(BlockType), NEW t \in Seq(BlockType),
         Len(s) <= Len(t), \A i \in 2 .. Len(s) : t[i] = s[i],
         NEW chunk \in ChunkType, PointsInto(chunk, s)
  PROVE  /\ PointsInto(chunk, t)
         /\ TableIn(chunk, t) = TableIn(chunk, s)
         /\ DataIn(chunk, t) = DataIn(chunk, s)
<1>1. /\ chunk.m_EntryCount \in Nat
      /\ chunk.m_EntryTableStart \in Nat
      /\ chunk.m_UncompressedDataSize \in Nat
      /\ chunk.m_CompressedDataStart \in Nat
  BY DEF ChunkType
<1>2. \A p \in Nat : p \in 1 .. Len(s) - 1 =>
        p \in 1 .. Len(t) - 1 /\ t[p + 1] = s[p + 1]
  OBVIOUS
<1>3. chunk.m_EntryCount > 0 =>
        /\ chunk.m_EntryTableStart \in 1 .. Len(t) - 1
        /\ t[chunk.m_EntryTableStart + 1] = s[chunk.m_EntryTableStart + 1]
  BY <1>1, <1>2 DEF PointsInto
<1>4. chunk.m_UncompressedDataSize > 0 =>
        /\ chunk.m_CompressedDataStart \in 1 .. Len(t) - 1
        /\ t[chunk.m_CompressedDataStart + 1] =
             s[chunk.m_CompressedDataStart + 1]
  BY <1>1, <1>2 DEF PointsInto
<1>5. PointsInto(chunk, t)
  BY <1>3, <1>4 DEF PointsInto
<1>6. TableIn(chunk, t) = TableIn(chunk, s)
  BY <1>1, <1>3 DEF TableIn
<1>7. DataIn(chunk, t) = DataIn(chunk, s)
  BY <1>1, <1>4 DEF DataIn
<1> QED
  BY <1>5, <1>6, <1>7

\* The blocks finishChunk writes.
LEMMA BlockFacts ==
  ASSUME WriterTypeOK
  PROVE  /\ EntryBlocks \in Seq(BlockType)
         /\ DataBlocks \in Seq(BlockType)
         /\ m_CurrentChunkEntries # <<>> =>
              /\ Len(EntryBlocks) = 1
              /\ EntryBlocks[1].kind = "entries"
              /\ EntryBlocks[1].entries = m_CurrentChunkEntries
         /\ m_CurrentChunkData # <<>> =>
              /\ Len(DataBlocks) = 2
              /\ DataBlocks[1].kind = "data"
              /\ DataBlocks[1].data = m_CurrentChunkData
<1>1. [kind |-> "entries", entries |-> m_CurrentChunkEntries] \in BlockType
  BY DEF BlockType, WriterTypeOK
<1>2. [kind |-> "data", data |-> m_CurrentChunkData] \in BlockType
  BY DEF BlockType, WriterTypeOK
<1>3. [kind |-> "props"] \in BlockType
  BY DEF BlockType
<1> QED
  BY <1>1, <1>2, <1>3 DEF EntryBlocks, DataBlocks

LEMMA BlockKinds ==
  ASSUME NEW b \in BlockType
  PROVE  /\ b.kind = "entries" => b.entries \in Seq(EntryType)
         /\ b.kind = "data" => b.data \in Seq(Words)
  BY DEF BlockType

\* The views of a chunk have their types.
LEMMA TableType ==
  ASSUME WriterIInv, NEW c \in DOMAIN m_Chunks
  PROVE  Table(c) \in Seq(EntryType) /\ Data(c) \in Seq(Words)
<1>1. CASE ~Closed(c)
  BY <1>1 DEF Table, Data, WriterIInv, WriterTypeOK
<1>2. CASE Closed(c)
  <2> DEFINE chunk == m_Chunks[c]
  <2>1. /\ PointsInto(chunk, stream) /\ chunk \in ChunkType
        /\ Table(c) = TableIn(chunk, stream) /\ Data(c) = DataIn(chunk, stream)
    BY <1>2 DEF WriterIInv, BlocksInv, WriterTypeOK, Table, Data
  <2>2. /\ chunk.m_EntryCount \in Nat
        /\ chunk.m_UncompressedDataSize \in Nat
    BY <2>1 DEF ChunkType
  <2>3. stream \in Seq(BlockType)
    BY DEF WriterIInv, WriterTypeOK
  <2> HIDE DEF chunk
  <2>4. TableIn(chunk, stream) \in Seq(EntryType)
    <3>1. CASE chunk.m_EntryCount = 0
      BY <3>1 DEF TableIn
    <3>2. CASE chunk.m_EntryCount > 0
      <4>1. /\ stream[chunk.m_EntryTableStart + 1] \in BlockType
            /\ stream[chunk.m_EntryTableStart + 1].kind = "entries"
        BY <2>1, <2>3, <3>2 DEF PointsInto
      <4> QED
        BY <3>2, <4>1, BlockKinds DEF TableIn
    <3> QED
      BY <2>2, <3>1, <3>2
  <2>5. DataIn(chunk, stream) \in Seq(Words)
    <3>1. CASE chunk.m_UncompressedDataSize = 0
      BY <3>1 DEF DataIn
    <3>2. CASE chunk.m_UncompressedDataSize > 0
      <4>1. /\ stream[chunk.m_CompressedDataStart + 1] \in BlockType
            /\ stream[chunk.m_CompressedDataStart + 1].kind = "data"
        BY <2>1, <2>3, <3>2 DEF PointsInto
      <4> QED
        BY <3>2, <4>1, BlockKinds DEF DataIn
    <3> QED
      BY <2>2, <3>1, <3>2
  <2> QED
    BY <2>1, <2>4, <2>5
<1> QED
  BY <1>1, <1>2

\* A closing keeps the view of every chunk.
ClosingKeepsViews(done) ==
  /\ done.chunks \in Seq(ChunkType)
  /\ Len(done.chunks) = Len(m_Chunks)
  /\ done.body \in Seq(BlockType)
  /\ Len(stream) <= Len(done.body)
  /\ \A i \in 1 .. Len(stream) : done.body[i] = stream[i]
  /\ \A c \in DOMAIN m_Chunks :
       /\ PointsInto(done.chunks[c], done.body)
       /\ TableIn(done.chunks[c], done.body) = Table(c)
       /\ DataIn(done.chunks[c], done.body) = Data(c)
       /\ done.chunks[c].m_EntryCount = m_Chunks[c].m_EntryCount
       /\ done.chunks[c].m_UncompressedDataSize =
            m_Chunks[c].m_UncompressedDataSize

LEMMA ClosingFacts ==
  ASSUME WriterIInv, NEW done \in Closings
  PROVE  ClosingKeepsViews(done)
<1> USE DEF WriterIInv
<1>1. CASE ~m_CurrentChunk
  <2>1. done = [chunks |-> m_Chunks, body |-> stream]
    BY <1>1 DEF Closings
  <2> QED
    BY <1>1, <2>1 DEF ClosingKeepsViews, BlocksInv, Closed, Table, Data,
                      WriterTypeOK
<1>2. CASE m_CurrentChunk
  <2> DEFINE n == Len(m_Chunks)
             body == stream \o EntryBlocks \o DataBlocks
  <2>1. PICK chunk \in ClosedChunks :
          done = [chunks |-> ReplaceLast(chunk), body |-> body]
    BY <1>2 DEF Closings
  <2>2. n \in DOMAIN m_Chunks /\ n \in Nat /\ m_Chunks[n] \in ChunkType
    BY <1>2 DEF OpenInv, WriterTypeOK
  <2>3. /\ body \in Seq(BlockType)
        /\ Len(body) = Len(stream) + Len(EntryBlocks) + Len(DataBlocks)
        /\ \A i \in 1 .. Len(stream) : body[i] = stream[i]
        /\ Len(EntryBlocks) >= 1 => body[Len(stream) + 1] = EntryBlocks[1]
        /\ Len(DataBlocks) >= 1 =>
             body[Len(stream) + Len(EntryBlocks) + 1] = DataBlocks[1]
        /\ Len(stream \o EntryBlocks) = Len(stream) + Len(EntryBlocks)
    BY BlockFacts DEF WriterTypeOK
  <2> HIDE DEF body
  <2>4. /\ Table(n) = m_CurrentChunkEntries
        /\ Data(n) = m_CurrentChunkData
        /\ m_Chunks[n].m_EntryCount = Len(m_CurrentChunkEntries)
        /\ m_Chunks[n].m_UncompressedDataSize <= 4 * Len(m_CurrentChunkData)
    BY <1>2, <2>2 DEF TableInv, Tiles, Table, Data, Closed
  <2>5. /\ TabledChunk \in ChunkType
        /\ TabledChunk.m_EntryCount = m_Chunks[n].m_EntryCount
        /\ TabledChunk.m_UncompressedDataSize =
             m_Chunks[n].m_UncompressedDataSize
        /\ m_CurrentChunkEntries # <<>> =>
             TabledChunk.m_EntryTableStart = Len(stream)
    <3>1. CASE m_CurrentChunkEntries = <<>>
      BY <2>2, <2>4, <3>1 DEF TabledChunk, LastChunk
    <3>2. CASE m_CurrentChunkEntries # <<>>
      <4>1. TabledChunk = [m_Chunks[n] EXCEPT
                             !.m_EntryCount = Len(m_CurrentChunkEntries),
                             !.m_EntryTableStart = Len(stream)]
        BY <3>2 DEF TabledChunk, LastChunk
      <4>2. Len(m_CurrentChunkEntries) \in Nat /\ Len(stream) \in Nat
        BY DEF WriterTypeOK
      <4> QED
        BY <2>2, <2>4, <4>1, <4>2 DEF ChunkType
    <3> QED
      BY <3>1, <3>2
  <2>6. /\ chunk \in ChunkType
        /\ chunk.m_EntryCount = m_Chunks[n].m_EntryCount
        /\ chunk.m_UncompressedDataSize = m_Chunks[n].m_UncompressedDataSize
        /\ m_CurrentChunkEntries # <<>> =>
             chunk.m_EntryTableStart = Len(stream)
        /\ m_CurrentChunkData # <<>> =>
             /\ chunk.m_UncompressedDataSize > 0
             /\ chunk.m_CompressedDataStart = Len(stream) + Len(EntryBlocks)
             /\ chunk.m_CompressedDataSize \in
                  1 .. 2 * chunk.m_UncompressedDataSize
             /\ chunk.m_CompressedPropsSize = 1
    <3>1. CASE m_CurrentChunkData = <<>>
      BY <2>5, <3>1 DEF ClosedChunks
    <3>2. CASE m_CurrentChunkData # <<>>
      <4>1. PICK size \in CompressedSizes(m_Chunks[n].m_UncompressedDataSize) :
              /\ m_Chunks[n].m_UncompressedDataSize # 0
              /\ chunk = [TabledChunk EXCEPT
                            !.m_CompressedDataSize = size,
                            !.m_CompressedPropsSize = 1,
                            !.m_CompressedDataStart = Len(stream \o EntryBlocks)]
        BY <3>2 DEF ClosedChunks, LastChunk
      <4>2. m_Chunks[n].m_UncompressedDataSize \in Nat \ {0}
        BY <2>2, <4>1 DEF ChunkType
      <4>3. /\ size \in 1 .. 2 * m_Chunks[n].m_UncompressedDataSize
            /\ size \in Nat
        BY <4>1, <4>2 DEF CompressedSizes
      <4>4. Len(stream) + Len(EntryBlocks) \in Nat
        BY BlockFacts DEF WriterTypeOK
      <4>5. /\ chunk \in ChunkType
            /\ chunk.m_EntryCount = TabledChunk.m_EntryCount
            /\ chunk.m_EntryTableStart = TabledChunk.m_EntryTableStart
            /\ chunk.m_UncompressedDataSize = TabledChunk.m_UncompressedDataSize
            /\ chunk.m_CompressedDataStart = Len(stream) + Len(EntryBlocks)
            /\ chunk.m_CompressedDataSize = size
            /\ chunk.m_CompressedPropsSize = 1
        BY <2>3, <2>5, <4>1, <4>3, <4>4 DEF ChunkType
      <4> QED
        BY <2>5, <4>2, <4>3, <4>5
    <3> QED
      BY <3>1, <3>2
  <2>7. /\ PointsInto(chunk, body)
        /\ TableIn(chunk, body) = m_CurrentChunkEntries
        /\ DataIn(chunk, body) = m_CurrentChunkData
    <3>1. Len(stream) \in Nat /\ Len(stream) >= 1
      BY DEF OpenInv, WriterTypeOK
    <3>2. /\ Len(m_CurrentChunkEntries) \in Nat
          /\ Len(m_CurrentChunkData) \in Nat
          /\ Len(m_CurrentChunkEntries) = 0 <=> m_CurrentChunkEntries = <<>>
          /\ Len(m_CurrentChunkData) = 0 <=> m_CurrentChunkData = <<>>
          /\ Len(EntryBlocks) \in Nat /\ Len(DataBlocks) \in Nat
      BY BlockFacts DEF WriterTypeOK
    <3>3. m_CurrentChunkEntries # <<>> =>
            /\ body[Len(stream) + 1].kind = "entries"
            /\ body[Len(stream) + 1].entries = m_CurrentChunkEntries
            /\ Len(stream) \in 1 .. Len(body) - 1
      <4> SUFFICES ASSUME m_CurrentChunkEntries # <<>>
                   PROVE  /\ body[Len(stream) + 1].kind = "entries"
                          /\ body[Len(stream) + 1].entries =
                               m_CurrentChunkEntries
                          /\ Len(stream) \in 1 .. Len(body) - 1
        OBVIOUS
      <4>1. /\ Len(EntryBlocks) = 1
            /\ EntryBlocks[1].kind = "entries"
            /\ EntryBlocks[1].entries = m_CurrentChunkEntries
        BY BlockFacts
      <4>2. body[Len(stream) + 1] = EntryBlocks[1]
        BY <2>3, <4>1
      <4>3. Len(stream) \in 1 .. Len(body) - 1
        BY <2>3, <3>1, <3>2, <4>1
      <4> QED
        BY <4>1, <4>2, <4>3
    <3>4. m_CurrentChunkData # <<>> =>
            /\ body[Len(stream) + Len(EntryBlocks) + 1].kind = "data"
            /\ body[Len(stream) + Len(EntryBlocks) + 1].data = m_CurrentChunkData
            /\ Len(stream) + Len(EntryBlocks) \in 1 .. Len(body) - 1
      <4> SUFFICES ASSUME m_CurrentChunkData # <<>>
                   PROVE  /\ body[Len(stream) + Len(EntryBlocks) + 1].kind = "data"
                          /\ body[Len(stream) + Len(EntryBlocks) + 1].data =
                               m_CurrentChunkData
                          /\ Len(stream) + Len(EntryBlocks) \in 1 .. Len(body) - 1
        OBVIOUS
      <4>1. /\ Len(DataBlocks) = 2
            /\ DataBlocks[1].kind = "data"
            /\ DataBlocks[1].data = m_CurrentChunkData
        BY BlockFacts
      <4>2. body[Len(stream) + Len(EntryBlocks) + 1] = DataBlocks[1]
        BY <2>3, <4>1
      <4>3. Len(stream) + Len(EntryBlocks) \in 1 .. Len(body) - 1
        BY <2>3, <3>1, <3>2, <4>1
      <4> QED
        BY <4>1, <4>2, <4>3
    <3>5. /\ chunk.m_EntryCount > 0 <=> m_CurrentChunkEntries # <<>>
          /\ chunk.m_EntryCount = 0 <=> m_CurrentChunkEntries = <<>>
      BY <2>4, <2>6, <3>2
    <3>6. /\ chunk.m_UncompressedDataSize > 0 <=> m_CurrentChunkData # <<>>
          /\ chunk.m_UncompressedDataSize = 0 <=> m_CurrentChunkData = <<>>
      BY <2>4, <2>6, <3>2 DEF ChunkType
    <3> QED
      BY <2>6, <3>3, <3>4, <3>5, <3>6 DEF PointsInto, TableIn, DataIn
  <2>8. /\ ReplaceLast(chunk) \in Seq(ChunkType)
        /\ Len(ReplaceLast(chunk)) = n
        /\ ReplaceLast(chunk)[n] = chunk
        /\ \A c \in DOMAIN m_Chunks :
             c # n => ReplaceLast(chunk)[c] = m_Chunks[c]
    BY <2>2, <2>6 DEF ReplaceLast, WriterTypeOK
  <2>9. ASSUME NEW c \in DOMAIN m_Chunks
        PROVE  /\ PointsInto(ReplaceLast(chunk)[c], body)
               /\ TableIn(ReplaceLast(chunk)[c], body) = Table(c)
               /\ DataIn(ReplaceLast(chunk)[c], body) = Data(c)
               /\ ReplaceLast(chunk)[c].m_EntryCount = m_Chunks[c].m_EntryCount
               /\ ReplaceLast(chunk)[c].m_UncompressedDataSize =
                    m_Chunks[c].m_UncompressedDataSize
    <3>1. CASE c = n
      BY <2>4, <2>6, <2>7, <2>8, <3>1
    <3>2. CASE c # n
      <4>1. c < n /\ m_Chunks[c] \in ChunkType
        BY <2>2, <3>2 DEF WriterTypeOK
      <4>2. /\ PointsInto(m_Chunks[c], stream)
            /\ Table(c) = TableIn(m_Chunks[c], stream)
            /\ Data(c) = DataIn(m_Chunks[c], stream)
        BY <4>1 DEF BlocksInv, Closed, Table, Data
      <4>3. stream \in Seq(BlockType) /\ Len(stream) <= Len(body)
        BY <2>3, BlockFacts DEF WriterTypeOK
      <4>4. /\ PointsInto(m_Chunks[c], body)
            /\ TableIn(m_Chunks[c], body) = TableIn(m_Chunks[c], stream)
            /\ DataIn(m_Chunks[c], body) = DataIn(m_Chunks[c], stream)
        BY <2>3, <4>1, <4>2, <4>3, StreamGrows
      <4> QED
        BY <2>8, <3>2, <4>2, <4>4
    <3> QED
      BY <3>1, <3>2
  <2>10. Len(stream) <= Len(body)
    BY <2>3, BlockFacts DEF WriterTypeOK
  <2> QED
    BY <2>1, <2>3, <2>8, <2>9, <2>10 DEF ClosingKeepsViews
<1> QED
  BY <1>1, <1>2

(***************************************************************************)
(* Steps that keep the views of the chunks and may open an empty one.      *)
(***************************************************************************)

SameView(c) ==
  /\ Table(c)' = Table(c)
  /\ Data(c)' = Data(c)
  /\ m_Chunks'[c].m_EntryCount = m_Chunks[c].m_EntryCount
  /\ m_Chunks'[c].m_UncompressedDataSize = m_Chunks[c].m_UncompressedDataSize

EmptyView(c) ==
  /\ Table(c)' = <<>>
  /\ Data(c)' = <<>>
  /\ m_Chunks'[c].m_EntryCount = 0
  /\ m_Chunks'[c].m_UncompressedDataSize = 0

ViewsKept ==
  /\ UNCHANGED <<m_elementIDCounter, written, damaged>>
  /\ DOMAIN m_Chunks \subseteq DOMAIN m_Chunks'
  /\ \A c \in DOMAIN m_Chunks : SameView(c)
  /\ \A c \in DOMAIN m_Chunks' \ DOMAIN m_Chunks : EmptyView(c)

LEMMA ViewsKeptFacts ==
  ASSUME WriterIInv, ViewsKept
  PROVE  TableInv' /\ IDsInv' /\ WrittenInv'
<1>1. TableInv'
  <2> SUFFICES ASSUME NEW c \in DOMAIN m_Chunks'
               PROVE  TableInv!(c)'
    BY DEF TableInv
  <2>1. CASE c \in DOMAIN m_Chunks
    <3>1. TableInv!(c)
      BY <2>1 DEF WriterIInv, TableInv
    <3>2. SameView(c) /\ damaged' = damaged
      BY <2>1 DEF ViewsKept
    <3> QED
      BY <3>1, <3>2 DEF SameView, Tiles
  <2>2. CASE c \notin DOMAIN m_Chunks
    <3>1. EmptyView(c)
      BY <2>2 DEF ViewsKept
    <3> QED
      BY <3>1 DEF EmptyView, Tiles
  <2> QED
    BY <2>1, <2>2
<1>2. IDsInv'
  <2> SUFFICES ASSUME NEW c \in DOMAIN m_Chunks', NEW d \in DOMAIN m_Chunks',
                      NEW k \in DOMAIN Table(c)', NEW l \in DOMAIN Table(d)'
               PROVE  IDsInv!(c, d)!(k, l)'
    BY DEF IDsInv
  <2>1. c \in DOMAIN m_Chunks /\ d \in DOMAIN m_Chunks
    BY DEF ViewsKept, EmptyView
  <2>2. SameView(c) /\ SameView(d) /\ m_elementIDCounter' = m_elementIDCounter
    BY <2>1 DEF ViewsKept
  <2>3. k \in DOMAIN Table(c) /\ l \in DOMAIN Table(d)
    BY <2>2 DEF SameView
  <2>4. IDsInv!(c, d)!(k, l)
    BY <2>1, <2>3 DEF WriterIInv, IDsInv
  <2> QED
    BY <2>2, <2>4 DEF SameView
<1>3. WrittenInv'
  <2> SUFFICES ASSUME NEW r \in written'
               PROVE  WrittenInv!(r)'
    BY DEF WrittenInv
  <2>1. r \in written
    BY DEF ViewsKept
  <2>2. WrittenInv!(r)
    BY <2>1 DEF WriterIInv, WrittenInv
  <2>3. SameView(r.chunk) /\ r.chunk \in DOMAIN m_Chunks'
    BY <2>2 DEF ViewsKept
  <2> QED
    BY <2>2, <2>3 DEF SameView
<1> QED
  BY <1>1, <1>2, <1>3

LEMMA NewChunksType == NewChunks \subseteq ChunkType
  BY SizesAssumption DEF NewChunks, ChunkType

LEMMA FinishChunkStep ==
  ASSUME WriterIInv, finishChunk
  PROVE  WriterIInv'
<1>1. PICK done \in Closings : m_Chunks' = done.chunks /\ stream' = done.body
  BY DEF finishChunk
<1>2. ClosingKeepsViews(done)
  BY ClosingFacts
<1>3. DOMAIN m_Chunks' = DOMAIN m_Chunks /\ Len(stream') \in Nat
  BY <1>1, <1>2 DEF ClosingKeepsViews, WriterIInv, WriterTypeOK
<1>4. \A c : Closed(c)'
  BY DEF Closed, finishChunk
<1>5. WriterTypeOK'
  BY <1>1, <1>2 DEF ClosingKeepsViews, WriterIInv, WriterTypeOK, finishChunk
<1>6. OpenInv'
  BY <1>1, <1>2 DEF ClosingKeepsViews, WriterIInv, WriterTypeOK, OpenInv,
                    finishChunk
<1>7. BlocksInv'
  BY <1>1, <1>2, <1>3 DEF ClosingKeepsViews, BlocksInv
<1>8. ViewsKept
  BY <1>1, <1>2, <1>3, <1>4
     DEF ClosingKeepsViews, ViewsKept, SameView, Table, Data, finishChunk
<1>9. FinishedInv'
  BY DEF WriterIInv, OpenInv, FinishedInv, finishChunk
<1> QED
  BY <1>5, <1>6, <1>7, <1>8, <1>9, ViewsKeptFacts DEF WriterIInv

LEMMA FinishChunkThrowsStep ==
  ASSUME WriterIInv, finishChunkThrows
  PROVE  WriterIInv'
<1> DEFINE n == Len(m_Chunks)
<1>1. /\ m_CurrentChunk /\ m_CurrentChunk' = m_CurrentChunk
      /\ m_Chunks' = ReplaceLast(TabledChunk)
      /\ stream' = stream \o EntryBlocks
  BY DEF finishChunkThrows
<1>2. n \in DOMAIN m_Chunks /\ n \in Nat /\ m_Chunks[n] \in ChunkType
  BY <1>1 DEF WriterIInv, OpenInv, WriterTypeOK
<1>3. /\ stream' \in Seq(BlockType)
      /\ Len(stream') >= Len(stream)
      /\ \A i \in 1 .. Len(stream) : stream'[i] = stream[i]
  BY <1>1, BlockFacts DEF WriterIInv, WriterTypeOK
<1>4. m_Chunks[n].m_EntryCount = Len(m_CurrentChunkEntries)
  BY <1>1, <1>2 DEF WriterIInv, TableInv, Tiles, Table, Closed
<1>5. /\ TabledChunk \in ChunkType
      /\ TabledChunk.m_EntryCount = m_Chunks[n].m_EntryCount
      /\ TabledChunk.m_UncompressedDataSize = m_Chunks[n].m_UncompressedDataSize
  <2>1. CASE m_CurrentChunkEntries = <<>>
    BY <1>2, <2>1 DEF TabledChunk, LastChunk
  <2>2. CASE m_CurrentChunkEntries # <<>>
    <3>1. TabledChunk = [m_Chunks[n] EXCEPT
                           !.m_EntryCount = Len(m_CurrentChunkEntries),
                           !.m_EntryTableStart = Len(stream)]
      BY <2>2 DEF TabledChunk, LastChunk
    <3>2. Len(m_CurrentChunkEntries) \in Nat /\ Len(stream) \in Nat
      BY DEF WriterIInv, WriterTypeOK
    <3> QED
      BY <1>2, <1>4, <3>1, <3>2 DEF ChunkType
  <2> QED
    BY <2>1, <2>2
<1>6. /\ m_Chunks' \in Seq(ChunkType)
      /\ Len(m_Chunks') = n
      /\ m_Chunks'[n] = TabledChunk
      /\ \A c \in DOMAIN m_Chunks : c # n => m_Chunks'[c] = m_Chunks[c]
  BY <1>1, <1>2, <1>5 DEF ReplaceLast, WriterIInv, WriterTypeOK
<1>7. \A c \in DOMAIN m_Chunks : Closed(c)' <=> Closed(c)
  BY <1>1, <1>6 DEF Closed
<1>8. ASSUME NEW c \in DOMAIN m_Chunks, Closed(c)
      PROVE  /\ m_Chunks'[c] = m_Chunks[c]
             /\ PointsInto(m_Chunks'[c], stream')
             /\ TableIn(m_Chunks'[c], stream') = TableIn(m_Chunks[c], stream)
             /\ DataIn(m_Chunks'[c], stream') = DataIn(m_Chunks[c], stream)
  <2>1. m_Chunks'[c] = m_Chunks[c] /\ m_Chunks[c] \in ChunkType
    BY <1>1, <1>2, <1>6, <1>8 DEF Closed, WriterIInv, WriterTypeOK
  <2>2. PointsInto(m_Chunks[c], stream) /\ stream \in Seq(BlockType)
    BY <1>8 DEF WriterIInv, BlocksInv, WriterTypeOK
  <2> QED
    BY <1>3, <2>1, <2>2, StreamGrows
<1>9. ViewsKept
  <2>1. DOMAIN m_Chunks' = DOMAIN m_Chunks
    BY <1>2, <1>6 DEF WriterIInv, WriterTypeOK
  <2>2. ASSUME NEW c \in DOMAIN m_Chunks
        PROVE  SameView(c)
    <3>1. CASE Closed(c)
      BY <1>7, <1>8, <3>1 DEF SameView, Table, Data
    <3>2. CASE ~Closed(c)
      <4>1. c = n
        BY <1>2, <3>2 DEF Closed, WriterIInv, WriterTypeOK
      <4>2. Table(c)' = Table(c) /\ Data(c)' = Data(c)
        BY <1>7, <3>2 DEF Table, Data, finishChunkThrows
      <4> QED
        BY <1>5, <1>6, <4>1, <4>2 DEF SameView
    <3> QED
      BY <3>1, <3>2
  <2> QED
    BY <2>1, <2>2 DEF ViewsKept, finishChunkThrows
<1>10. WriterTypeOK'
  BY <1>3, <1>6 DEF WriterIInv, WriterTypeOK, finishChunkThrows
<1>11. OpenInv' /\ FinishedInv'
  BY <1>1, <1>2, <1>3, <1>6
     DEF WriterIInv, OpenInv, FinishedInv, WriterTypeOK, finishChunkThrows
<1>12. BlocksInv'
  BY <1>6, <1>7, <1>8, <1>9 DEF BlocksInv, WriterIInv, WriterTypeOK, ViewsKept
<1> QED
  BY <1>9, <1>10, <1>11, <1>12, ViewsKeptFacts DEF WriterIInv

LEMMA BeginChunkStep ==
  ASSUME WriterIInv, beginChunk
  PROVE  WriterIInv'
<1> DEFINE n == Len(m_Chunks)
<1>1. PICK done \in Closings, new \in NewChunks :
        m_Chunks' = Append(done.chunks, new) /\ stream' = done.body
  BY DEF beginChunk
<1>2. ClosingKeepsViews(done) /\ n \in Nat /\ DOMAIN m_Chunks = 1 .. n
  BY ClosingFacts DEF WriterIInv, WriterTypeOK
<1>3. /\ m_Chunks' \in Seq(ChunkType)
      /\ Len(m_Chunks') = n + 1
      /\ m_Chunks'[n + 1] = new
      /\ \A c \in 1 .. n : m_Chunks'[c] = done.chunks[c]
  BY <1>1, <1>2, NewChunksType DEF ClosingKeepsViews
<1>4. /\ DOMAIN m_Chunks' = 1 .. n + 1
      /\ \A c \in 1 .. n : Closed(c)'
      /\ ~Closed(n + 1)'
  BY <1>2, <1>3 DEF Closed, beginChunk
<1>5. WriterTypeOK'
  BY <1>1, <1>2, <1>3 DEF ClosingKeepsViews, WriterIInv, WriterTypeOK, beginChunk
<1>6. OpenInv' /\ FinishedInv'
  <2>1. m_bIsFinished' = FALSE
    BY DEF beginChunk, WriterIInv, WriterTypeOK
  <2>2. m_Chunks' # <<>>
    BY <1>2, <1>3
  <2>3. stream' # <<>>
    BY <1>1, <1>2 DEF ClosingKeepsViews, WriterIInv, WriterTypeOK, OpenInv
  <2> QED
    BY <2>1, <2>2, <2>3 DEF OpenInv, FinishedInv
<1>7. BlocksInv'
  <2> SUFFICES ASSUME NEW c \in 1 .. n + 1, Closed(c)'
               PROVE  PointsInto(m_Chunks'[c], stream')
    BY <1>4 DEF BlocksInv
  <2>1. c \in 1 .. n
    BY <1>2, <1>3 DEF Closed, beginChunk
  <2> QED
    BY <1>1, <1>2, <1>3, <2>1 DEF ClosingKeepsViews
<1>8. ViewsKept
  <2>1. \A c \in 1 .. n : SameView(c)
    BY <1>1, <1>2, <1>3, <1>4 DEF ClosingKeepsViews, SameView, Table, Data
  <2>2. EmptyView(n + 1)
    BY <1>3, <1>4 DEF EmptyView, Table, Data, NewChunks, beginChunk
  <2>3. DOMAIN m_Chunks' \ DOMAIN m_Chunks = {n + 1}
    BY <1>2, <1>4
  <2> QED
    BY <1>2, <1>4, <2>1, <2>2, <2>3 DEF ViewsKept, beginChunk
<1> QED
  BY <1>5, <1>6, <1>7, <1>8, ViewsKeptFacts DEF WriterIInv

\* What finishWriting leaves on the stream.
LEMMA HeaderAndTable ==
  ASSUME NEW body \in Seq(BlockType), body # <<>>,
         NEW chunks \in Seq(ChunkType)
  PROVE  LET s == FinishedStream(body, chunks)
         IN  /\ s \in Seq(BlockType)
             /\ Len(body) <= Len(s)
             /\ s[1] = HeaderBlock(Len(chunks), Len(body))
             /\ \A i \in 2 .. Len(body) : s[i] = body[i]
             /\ chunks # <<>> => /\ Len(body) \in 1 .. Len(s) - 1
                                 /\ s[Len(body) + 1] = ChunkTable(chunks)[1]
<1> DEFINE s == FinishedStream(body, chunks)
<1> DEFINE header == HeaderBlock(Len(chunks), Len(body))
           start == [body EXCEPT ![1] = header]
           table == ChunkTable(chunks)
<1>1. header \in BlockType
  BY DEF HeaderBlock, BlockType
<1> HIDE DEF header
<1>2. /\ start \in Seq(BlockType)
      /\ Len(start) = Len(body)
      /\ start[1] = header
      /\ \A i \in 2 .. Len(body) : start[i] = body[i]
  BY <1>1
<1>3. /\ table \in Seq(BlockType)
      /\ chunks # <<>> => Len(table) = 1
  <2>1. [kind |-> "chunks", chunks |-> chunks] \in BlockType
    BY DEF BlockType
  <2> QED
    BY <2>1 DEF ChunkTable
<1>4. s = start \o table
  BY DEF header, FinishedStream
<1>5. Len(body) \in Nat /\ Len(body) >= 1
  OBVIOUS
<1> HIDE DEF start, table, s
<1>6. /\ s \in Seq(BlockType)
      /\ Len(table) \in Nat
      /\ Len(s) = Len(body) + Len(table)
      /\ \A i \in 1 .. Len(body) : s[i] = start[i]
      /\ Len(table) >= 1 => s[Len(body) + 1] = table[1]
  <2>1. start \in Seq(BlockType) /\ table \in Seq(BlockType)
    BY <1>2, <1>3
  <2>2. /\ start \o table \in Seq(BlockType)
        /\ Len(table) \in Nat
        /\ Len(start \o table) = Len(start) + Len(table)
        /\ \A i \in 1 .. Len(start) : (start \o table)[i] = start[i]
        /\ Len(table) >= 1 => (start \o table)[Len(start) + 1] = table[1]
    BY <2>1, ConcatFacts
  <2>3. Len(start) = Len(body)
    BY <1>2
  <2> QED
    BY <1>4, <2>2, <2>3
<1>7. /\ Len(body) <= Len(s)
      /\ s[1] = header
      /\ \A i \in 2 .. Len(body) : s[i] = body[i]
      /\ chunks # <<>> => /\ Len(body) \in 1 .. Len(s) - 1
                          /\ s[Len(body) + 1] = table[1]
  <2>1. Len(body) <= Len(s)
    BY <1>5, <1>6
  <2>2. s[1] = header
    BY <1>2, <1>5, <1>6
  <2>3. \A i \in 2 .. Len(body) : s[i] = body[i]
    BY <1>2, <1>5, <1>6
  <2>4. ASSUME chunks # <<>>
        PROVE  /\ Len(body) \in 1 .. Len(s) - 1
               /\ s[Len(body) + 1] = table[1]
    <3>1. Len(table) = 1
      BY <1>3, <2>4
    <3> QED
      BY <1>5, <1>6, <3>1
  <2> QED
    BY <2>1, <2>2, <2>3, <2>4
<1> QED
  BY <1>6, <1>7 DEF header, table, s

LEMMA FinishWritingStep ==
  ASSUME WriterIInv, finishWriting
  PROVE  WriterIInv'
<1> DEFINE n == Len(m_Chunks)
<1>1. PICK done \in Closings :
        /\ m_Chunks' = done.chunks
        /\ m_ChunkTableStart' = Len(done.body)
        /\ stream' = FinishedStream(done.body, done.chunks)
  BY DEF finishWriting
<1>2. ClosingKeepsViews(done) /\ n \in Nat /\ DOMAIN m_Chunks = 1 .. n
  BY ClosingFacts DEF WriterIInv, WriterTypeOK
<1>3. /\ done.body \in Seq(BlockType)
      /\ done.chunks \in Seq(ChunkType)
      /\ done.body # <<>>
  BY <1>2 DEF ClosingKeepsViews, WriterIInv, WriterTypeOK, OpenInv
<1>4. /\ stream' \in Seq(BlockType)
      /\ Len(done.body) <= Len(stream')
      /\ stream'[1] = HeaderBlock(Len(done.chunks), Len(done.body))
      /\ \A i \in 2 .. Len(done.body) : stream'[i] = done.body[i]
      /\ done.chunks # <<>> =>
           /\ Len(done.body) \in 1 .. Len(stream') - 1
           /\ stream'[Len(done.body) + 1] = ChunkTable(done.chunks)[1]
  BY <1>1, <1>3, HeaderAndTable
<1>5. ASSUME NEW c \in DOMAIN m_Chunks
      PROVE  /\ PointsInto(m_Chunks'[c], stream')
             /\ TableIn(m_Chunks'[c], stream') = Table(c)
             /\ DataIn(m_Chunks'[c], stream') = Data(c)
  <2>1. done.chunks[c] \in ChunkType /\ PointsInto(done.chunks[c], done.body)
    BY <1>2 DEF ClosingKeepsViews
  <2>2. /\ PointsInto(done.chunks[c], stream')
        /\ TableIn(done.chunks[c], stream') = TableIn(done.chunks[c], done.body)
        /\ DataIn(done.chunks[c], stream') = DataIn(done.chunks[c], done.body)
    BY <1>3, <1>4, <2>1, StreamGrows
  <2> QED
    BY <1>1, <1>2, <2>2 DEF ClosingKeepsViews
<1>6. DOMAIN m_Chunks' = DOMAIN m_Chunks /\ \A c : Closed(c)'
  BY <1>1, <1>2 DEF ClosingKeepsViews, Closed, finishWriting
<1>7. Len(done.body) \in Nat /\ Len(done.body) >= 1
  BY <1>3
<1>8. WriterTypeOK'
  BY <1>1, <1>3, <1>4, <1>7 DEF WriterIInv, WriterTypeOK, finishWriting
<1>9. OpenInv' /\ BlocksInv'
  BY <1>4, <1>5, <1>6, <1>7 DEF OpenInv, BlocksInv, finishWriting
<1>10. ViewsKept
  BY <1>1, <1>2, <1>5, <1>6
     DEF ClosingKeepsViews, ViewsKept, SameView, Table, Data, finishWriting
<1>11. FinishedInv'
  <2>1. stream'[1] = HeaderBlock(Len(m_Chunks'), m_ChunkTableStart')
    BY <1>1, <1>4
  <2>2. ASSUME m_Chunks' # <<>>
        PROVE  /\ m_ChunkTableStart' \in 1 .. Len(stream') - 1
               /\ stream'[m_ChunkTableStart' + 1] = ChunkTable(m_Chunks')[1]
    BY <1>1, <1>4, <2>2
  <2>3. m_Chunks' # <<>> => ChunkTable(m_Chunks')[1] =
                              [kind |-> "chunks", chunks |-> m_Chunks']
    BY DEF ChunkTable
  <2> QED
    BY <2>1, <2>2, <2>3 DEF FinishedInv
<1> QED
  BY <1>8, <1>9, <1>10, <1>11, ViewsKeptFacts DEF WriterIInv

(***************************************************************************)
(* Steps that add to a chunk.                                              *)
(***************************************************************************)

\* The chunk an add call works on, seen as in TableInv.
OpenView(open) ==
  LET n == Len(open.chunks)
  IN  /\ open.chunks \in Seq(ChunkType)
      /\ open.entries \in Seq(EntryType)
      /\ open.data \in Seq(Words)
      /\ n \in Nat /\ n >= 1
      /\ DOMAIN m_Chunks \subseteq 1 .. n
      /\ \A c \in 1 .. n - 1 : /\ c \in DOMAIN m_Chunks
                               /\ Closed(c)
                               /\ open.chunks[c] = m_Chunks[c]
      /\ n \in DOMAIN m_Chunks => Table(n) = open.entries /\ Data(n) = open.data
      /\ n \notin DOMAIN m_Chunks => open.entries = <<>> /\ open.data = <<>>
      /\ Tiles(open.entries, open.data, open.chunks[n], n \notin damaged)

LEMMA OpenChunkFacts ==
  ASSUME WriterIInv, NEW open \in OpenChunks
  PROVE  OpenView(open)
<1> USE DEF WriterIInv
<1>1. CASE m_CurrentChunk
  <2>1. /\ open.chunks = m_Chunks
        /\ open.entries = m_CurrentChunkEntries
        /\ open.data = m_CurrentChunkData
    BY <1>1 DEF OpenChunks
  <2>2. /\ Len(m_Chunks) \in Nat /\ Len(m_Chunks) >= 1
        /\ DOMAIN m_Chunks = 1 .. Len(m_Chunks)
    BY <1>1 DEF OpenInv, WriterTypeOK
  <2>3. ~Closed(Len(m_Chunks)) /\ \A c \in 1 .. Len(m_Chunks) - 1 : Closed(c)
    BY <1>1, <2>2 DEF Closed
  <2>4. /\ Table(Len(m_Chunks)) = m_CurrentChunkEntries
        /\ Data(Len(m_Chunks)) = m_CurrentChunkData
    BY <2>3 DEF Table, Data
  <2>5. Tiles(m_CurrentChunkEntries, m_CurrentChunkData,
              m_Chunks[Len(m_Chunks)], Len(m_Chunks) \notin damaged)
    BY <2>2, <2>4 DEF TableInv
  <2> QED
    BY <2>1, <2>2, <2>3, <2>4, <2>5 DEF OpenView, WriterTypeOK
<1>2. CASE ~m_CurrentChunk
  <2>1. PICK new \in NewChunks : /\ open.chunks = Append(m_Chunks, new)
                                 /\ open.entries = <<>>
                                 /\ open.data = <<>>
    BY <1>2 DEF OpenChunks
  <2>2. /\ Len(m_Chunks) \in Nat
        /\ DOMAIN m_Chunks = 1 .. Len(m_Chunks)
        /\ new \in ChunkType
    BY NewChunksType DEF WriterTypeOK
  <2>3. /\ open.chunks \in Seq(ChunkType)
        /\ Len(open.chunks) = Len(m_Chunks) + 1
        /\ open.chunks[Len(m_Chunks) + 1] = new
        /\ \A c \in 1 .. Len(m_Chunks) : open.chunks[c] = m_Chunks[c]
    BY <2>1, <2>2 DEF WriterTypeOK
  <2>4. \A c : Closed(c)
    BY <1>2 DEF Closed
  <2>5. Tiles(open.entries, open.data, new, Len(open.chunks) \notin damaged)
    BY <2>1 DEF Tiles, NewChunks
  <2>6. open.entries \in Seq(EntryType) /\ open.data \in Seq(Words)
    BY <2>1
  <2> QED
    BY <2>1, <2>2, <2>3, <2>4, <2>5, <2>6 DEF OpenView
<1> QED
  BY <1>1, <1>2

\* What any add call leaves alone.
LEMMA AddFrame ==
  ASSUME WriterIInv, NEW open \in OpenChunks, WriterTypeOK', ~m_bIsFinished,
         m_CurrentChunk' = TRUE, UNCHANGED <<m_bIsFinished, stream>>,
         Len(m_Chunks') = Len(open.chunks),
         \A c \in 1 .. Len(open.chunks) - 1 : m_Chunks'[c] = open.chunks[c]
  PROVE  /\ OpenInv' /\ BlocksInv' /\ FinishedInv'
         /\ DOMAIN m_Chunks' = 1 .. Len(open.chunks)
         /\ \A c \in 1 .. Len(open.chunks) - 1 : SameView(c)
         /\ Table(Len(open.chunks))' = m_CurrentChunkEntries'
         /\ Data(Len(open.chunks))' = m_CurrentChunkData'
<1> DEFINE n == Len(open.chunks)
<1>1. OpenView(open)
  BY OpenChunkFacts
<1>2. n \in Nat /\ n >= 1
  BY <1>1 DEF OpenView
<1>3. DOMAIN m_Chunks' = 1 .. n
  BY <1>2 DEF WriterTypeOK
<1>4. ~Closed(n)' /\ \A c \in 1 .. n - 1 : Closed(c)'
  BY <1>2 DEF Closed
<1>5. \A c \in 1 .. n - 1 : /\ m_Chunks'[c] = m_Chunks[c]
                            /\ c \in DOMAIN m_Chunks
                            /\ Closed(c)
  BY <1>1 DEF OpenView
<1>6. \A c \in 1 .. n - 1 : SameView(c)
  BY <1>4, <1>5 DEF SameView, Table, Data
<1>7. BlocksInv'
  <2> SUFFICES ASSUME NEW c \in 1 .. n, Closed(c)'
               PROVE  PointsInto(m_Chunks'[c], stream')
    BY <1>3 DEF BlocksInv
  <2>1. c \in 1 .. n - 1
    BY <1>2 DEF Closed
  <2> QED
    BY <1>5, <2>1 DEF WriterIInv, BlocksInv
<1>8. OpenInv' /\ FinishedInv'
  BY <1>2 DEF WriterIInv, OpenInv, FinishedInv, WriterTypeOK
<1>9. Table(n)' = m_CurrentChunkEntries' /\ Data(n)' = m_CurrentChunkData'
  BY <1>4 DEF Table, Data
<1> QED
  BY <1>3, <1>6, <1>7, <1>8, <1>9

\* The arguments of AddEntry in a call that returns.
GoodArray(type, words, array, unit) ==
  /\ type \in IntTypes \cup FloatTypes
  /\ array \in Seq(Int)
  /\ array # <<>>
  /\ unit \in Nat
  /\ words \in Seq(Words)
  /\ Len(words) >= IF type \in IntTypes THEN 1 ELSE 2
  /\ type \in IntTypes => /\ array \in IntArrays
                          /\ words = IntWords(array, type)
  /\ type \in FloatTypes => /\ array \in FloatArrays
                            /\ unit \in Units
                            /\ OutOfRange(array, unit, type) = {}
                            /\ words = <<BitsOf(unit)>> \o FloatWords(array, unit, type)

LEMMA GrownSize ==
  ASSUME NEW old \in Nat, NEW d \in Nat, NEW w \in Nat,
         old % 4 = 0, old <= 4 * d
  PROVE  /\ old + 4 * w <= 4 * (d + w)
         /\ (old + 4 * w) % 4 = 0
         /\ old = 4 * d => old + 4 * w = 4 * (d + w)
  OBVIOUS

LEMMA GrownChunkFacts ==
  ASSUME NEW chunk \in ChunkType, NEW size \in Nat
  PROVE  /\ GrownChunk(chunk, size) \in ChunkType
         /\ GrownChunk(chunk, size).m_EntryCount = chunk.m_EntryCount + 1
         /\ GrownChunk(chunk, size).m_UncompressedDataSize =
              chunk.m_UncompressedDataSize + size
<1> DEFINE x == chunk.m_EntryCount + 1
           y == chunk.m_UncompressedDataSize + size
<1>1. x \in Nat /\ y \in Nat
  BY DEF ChunkType
<1> HIDE DEF x, y
<1>2. GrownChunk(chunk, size) =
        [chunk EXCEPT !.m_EntryCount = x, !.m_UncompressedDataSize = y]
  BY DEF GrownChunk, x, y
<1>3. /\ GrownChunk(chunk, size) \in ChunkType
      /\ GrownChunk(chunk, size).m_EntryCount = x
      /\ GrownChunk(chunk, size).m_UncompressedDataSize = y
  BY <1>1, <1>2 DEF ChunkType
<1> QED
  BY <1>3 DEF x, y

LEMMA AddEntryStep ==
  ASSUME WriterIInv, NEW open \in OpenChunks,
         NEW type, NEW words, NEW array, NEW unit,
         GoodArray(type, words, array, unit),
         AddEntry(open, type, words, array, unit),
         ~m_bIsFinished,
         m_elementIDCounter' = m_elementIDCounter + 1,
         m_CurrentChunk' = TRUE, m_bIsEmpty' = FALSE,
         UNCHANGED <<m_ChunkTableStart, m_bIsFinished, stream>>
  PROVE  WriterIInv'
<1> DEFINE n == Len(open.chunks)
           size == 4 * Len(words)
           entry == [m_EntryID |-> m_elementIDCounter, m_EntryType |-> type,
                     m_PositionInChunk |-> open.chunks[n].m_UncompressedDataSize,
                     m_SizeInBytes |-> size]
           chunk == GrownChunk(open.chunks[n], size)
           rec == [id |-> m_elementIDCounter, type |-> type, values |-> array,
                   unit |-> unit, chunk |-> n, offset |-> Len(open.data),
                   intact |-> n \notin damaged]
<1>1. OpenView(open)
  BY OpenChunkFacts
<1>2. /\ n \in Nat /\ n >= 1
      /\ open.chunks \in Seq(ChunkType)
      /\ open.entries \in Seq(EntryType)
      /\ open.data \in Seq(Words)
      /\ open.chunks[n] \in ChunkType
      /\ Tiles(open.entries, open.data, open.chunks[n], n \notin damaged)
  BY <1>1 DEF OpenView
<1>3. /\ Len(words) \in Nat /\ size \in Nat /\ size % 4 = 0
      /\ size >= IF type \in IntTypes THEN 4 ELSE 8
      /\ words \in Seq(Words)
      /\ type \in IntTypes \cup FloatTypes
  BY DEF GoodArray
<1>4. /\ open.chunks[n].m_EntryCount \in Nat
      /\ open.chunks[n].m_UncompressedDataSize \in Nat
      /\ m_elementIDCounter \in Nat
  BY <1>2 DEF ChunkType, WriterIInv, WriterTypeOK
<1>5. /\ entry \in EntryType
      /\ entry.m_EntryID = m_elementIDCounter
      /\ entry.m_EntryType = type
      /\ entry.m_PositionInChunk = open.chunks[n].m_UncompressedDataSize
      /\ entry.m_SizeInBytes = size
  BY <1>3, <1>4 DEF EntryType
<1>6. /\ m_CurrentChunkEntries' = Append(open.entries, entry)
      /\ m_CurrentChunkData' = open.data \o words
      /\ m_Chunks' = [open.chunks EXCEPT ![n] = chunk]
      /\ written' = written \cup {rec}
      /\ damaged' = damaged
  BY DEF AddEntry
<1>7. /\ m_Chunks' \in Seq(ChunkType)
      /\ Len(m_Chunks') = n
      /\ m_Chunks'[n].m_EntryCount = open.chunks[n].m_EntryCount + 1
      /\ m_Chunks'[n].m_UncompressedDataSize =
           open.chunks[n].m_UncompressedDataSize + size
      /\ \A c \in 1 .. n - 1 : m_Chunks'[c] = open.chunks[c]
  <2>1. /\ chunk \in ChunkType
        /\ chunk.m_EntryCount = open.chunks[n].m_EntryCount + 1
        /\ chunk.m_UncompressedDataSize =
             open.chunks[n].m_UncompressedDataSize + size
    BY <1>2, <1>3, GrownChunkFacts
  <2>2. m_Chunks' = [open.chunks EXCEPT ![n] = chunk]
    BY <1>6
  <2> HIDE DEF chunk
  <2> QED
    BY <1>2, <2>1, <2>2
<1>8. /\ rec \in WrittenType
      /\ rec.id = m_elementIDCounter /\ rec.type = type
      /\ rec.values = array /\ rec.unit = unit
      /\ rec.chunk = n /\ rec.offset = Len(open.data)
      /\ rec.intact = (n \notin damaged)
  BY <1>2, <1>4 DEF WrittenType, GoodArray
<1> HIDE DEF entry, chunk, rec, size
<1>9. WriterTypeOK'
  <2>1. m_CurrentChunkEntries' \in Seq(EntryType)
    BY <1>2, <1>5, <1>6
  <2>2. m_CurrentChunkData' \in Seq(Words)
    BY <1>2, <1>3, <1>6
  <2>3. written' \subseteq WrittenType
    BY <1>6, <1>8 DEF WriterIInv, WriterTypeOK
  <2>4. damaged' \subseteq Nat /\ m_elementIDCounter' \in Nat \ {0}
    BY <1>4, <1>6 DEF WriterIInv, WriterTypeOK
  <2>5. /\ m_ChunkTableStart' \in Nat /\ m_bIsFinished' \in BOOLEAN
        /\ stream' \in Seq(BlockType)
    BY DEF WriterIInv, WriterTypeOK
  <2> QED
    BY <1>7, <2>1, <2>2, <2>3, <2>4, <2>5 DEF WriterTypeOK
<1>10. /\ OpenInv' /\ BlocksInv' /\ FinishedInv'
       /\ DOMAIN m_Chunks' = 1 .. n
       /\ \A c \in 1 .. n - 1 : SameView(c)
       /\ Table(n)' = m_CurrentChunkEntries'
       /\ Data(n)' = m_CurrentChunkData'
  BY <1>7, <1>9, AddFrame
<1>11. /\ Len(Table(n)') = Len(open.entries) + 1
       /\ \A k \in 1 .. Len(open.entries) : Table(n)'[k] = open.entries[k]
       /\ Table(n)'[Len(open.entries) + 1] = entry
       /\ Len(open.entries) \in Nat
       /\ DOMAIN Table(n)' = 1 .. Len(open.entries) + 1
       /\ DOMAIN open.entries = 1 .. Len(open.entries)
  BY <1>2, <1>5, <1>6, <1>10
<1>12. /\ Len(Data(n)') = Len(open.data) + Len(words)
       /\ \A i \in 1 .. Len(open.data) : Data(n)'[i] = open.data[i]
       /\ \A i \in 1 .. Len(words) : Data(n)'[Len(open.data) + i] = words[i]
       /\ Len(open.data) \in Nat
  BY <1>2, <1>3, <1>6, <1>10, ConcatFacts
<1>13. TableInv'
  <2> SUFFICES ASSUME NEW c \in 1 .. n
               PROVE  Tiles(Table(c)', Data(c)', m_Chunks'[c], c \notin damaged')
    BY <1>10 DEF TableInv
  <2>1. CASE c # n
    <3>1. c \in 1 .. n - 1 /\ c \in DOMAIN m_Chunks
      BY <1>1, <1>2, <2>1 DEF OpenView
    <3>2. Tiles(Table(c), Data(c), m_Chunks[c], c \notin damaged)
      BY <3>1 DEF WriterIInv, TableInv
    <3>3. SameView(c) /\ damaged' = damaged
      BY <1>6, <1>10, <3>1
    <3> QED
      BY <3>2, <3>3 DEF SameView, Tiles
  <2>2. CASE c = n
    <3> DEFINE es == Table(n)'
               m == Len(open.entries)
               old == open.chunks[n].m_UncompressedDataSize
    <3>1. Tiles(open.entries, open.data, open.chunks[n], n \notin damaged)
      BY <1>2
    <3>2. /\ m_Chunks'[n].m_EntryCount = Len(es)
          /\ m_Chunks'[n].m_UncompressedDataSize = old + size
          /\ old \in Nat /\ size \in Nat /\ old % 4 = 0 /\ size % 4 = 0
          /\ size = 4 * Len(words)
          /\ old <= 4 * Len(open.data)
          /\ n \notin damaged => old = 4 * Len(open.data)
          /\ m \in Nat
      BY <1>3, <1>4, <1>7, <1>11, <3>1 DEF Tiles, size
    <3>3. /\ old + size <= 4 * Len(Data(n)')
          /\ (old + size) % 4 = 0
          /\ n \notin damaged => old + size = 4 * Len(Data(n)')
      <4> DEFINE d == Len(open.data)
                 w == Len(words)
      <4>1. Len(Data(n)') = d + w /\ d \in Nat /\ w \in Nat
        BY <1>3, <1>12
      <4>2. /\ old \in Nat /\ old % 4 = 0 /\ old <= 4 * d /\ size = 4 * w
            /\ n \notin damaged => old = 4 * d
        BY <3>2
      <4> HIDE DEF old, d, w
      <4>3. /\ old + 4 * w <= 4 * (d + w)
            /\ (old + 4 * w) % 4 = 0
            /\ old = 4 * d => old + 4 * w = 4 * (d + w)
        BY <4>1, <4>2, GrownSize
      <4> QED
        BY <4>1, <4>2, <4>3
    <3>4. ASSUME NEW k \in 1 .. m
          PROVE  /\ es[k].m_PositionInChunk % 4 = 0
                 /\ es[k].m_SizeInBytes % 4 = 0
                 /\ es[k].m_SizeInBytes >=
                      IF es[k].m_EntryType \in IntTypes THEN 4 ELSE 8
                 /\ es[k].m_PositionInChunk + es[k].m_SizeInBytes =
                      es[k + 1].m_PositionInChunk
      <4>1. es[k] = open.entries[k]
        BY <1>11
      <4>2. /\ es[k].m_PositionInChunk % 4 = 0
            /\ es[k].m_SizeInBytes % 4 = 0
            /\ es[k].m_SizeInBytes >=
                 IF es[k].m_EntryType \in IntTypes THEN 4 ELSE 8
            /\ es[k].m_PositionInChunk + es[k].m_SizeInBytes =
                 IF k < m THEN open.entries[k + 1].m_PositionInChunk ELSE old
        BY <1>11, <3>1, <4>1 DEF Tiles
      <4>3. es[k + 1].m_PositionInChunk =
              IF k < m THEN open.entries[k + 1].m_PositionInChunk ELSE old
        <5>1. CASE k < m
          <6>1. k + 1 \in 1 .. m
            BY <1>11, <5>1
          <6>2. es[k + 1] = open.entries[k + 1]
            BY <1>11, <6>1
          <6> QED
            BY <5>1, <6>2
        <5>2. CASE k = m
          BY <1>5, <1>11, <5>2
        <5> QED
          BY <1>11, <5>1, <5>2
      <4> QED
        BY <4>2, <4>3
    <3>5. /\ es[m + 1].m_PositionInChunk % 4 = 0
          /\ es[m + 1].m_SizeInBytes % 4 = 0
          /\ es[m + 1].m_SizeInBytes >=
               IF es[m + 1].m_EntryType \in IntTypes THEN 4 ELSE 8
          /\ es[m + 1].m_PositionInChunk + es[m + 1].m_SizeInBytes = old + size
      BY <1>3, <1>5, <1>11, <3>2
    <3>6. Len(es) = m + 1 /\ DOMAIN es = 1 .. m + 1
      BY <1>11
    <3>7. ASSUME NEW k \in 1 .. m
          PROVE  /\ es[k].m_PositionInChunk \in Nat
                 /\ es[k].m_SizeInBytes \in Nat
                 /\ es[k].m_PositionInChunk + es[k].m_SizeInBytes <= old
      <4>1. es[k] = open.entries[k] /\ open.entries[k] \in EntryType
        BY <1>2, <1>11
      <4>2. es[k].m_PositionInChunk + es[k].m_SizeInBytes <= old
        BY <1>11, <3>1, <4>1 DEF Tiles
      <4>3. es[k].m_PositionInChunk \in Nat /\ es[k].m_SizeInBytes \in Nat
        BY <4>1 DEF EntryType
      <4> QED
        BY <4>2, <4>3
    <3> HIDE DEF es, m, old
    <3>8. \A k \in 1 .. m + 1 :
            es[k].m_PositionInChunk + es[k].m_SizeInBytes <= old + size
      <4> SUFFICES ASSUME NEW k \in 1 .. m + 1
                   PROVE  es[k].m_PositionInChunk + es[k].m_SizeInBytes
                            <= old + size
        OBVIOUS
      <4>1. CASE k \in 1 .. m
        <5>1. /\ es[k].m_PositionInChunk \in Nat
              /\ es[k].m_SizeInBytes \in Nat
              /\ es[k].m_PositionInChunk + es[k].m_SizeInBytes <= old
          BY <3>7, <4>1
        <5>2. old \in Nat /\ size \in Nat
          BY <3>2
        <5> HIDE DEF size
        <5>3. ASSUME NEW p \in Nat, NEW q \in Nat, p + q <= old
              PROVE  p + q <= old + size
          BY <5>2, <5>3
        <5> QED
          BY <5>1, <5>3
      <4>2. CASE k = m + 1
        <5>1. es[k].m_PositionInChunk + es[k].m_SizeInBytes = old + size
          BY <3>5, <4>2
        <5> HIDE DEF size
        <5> QED
          BY <3>2, <5>1
      <4> QED
        BY <3>2, <4>1, <4>2
    <3>9. \A k \in DOMAIN es :
            /\ es[k].m_PositionInChunk % 4 = 0
            /\ es[k].m_SizeInBytes % 4 = 0
            /\ es[k].m_SizeInBytes >=
                 IF es[k].m_EntryType \in IntTypes THEN 4 ELSE 8
            /\ es[k].m_PositionInChunk + es[k].m_SizeInBytes =
                 IF k < Len(es) THEN es[k + 1].m_PositionInChunk
                 ELSE old + size
      <4> SUFFICES ASSUME NEW k \in 1 .. m + 1
                   PROVE  /\ es[k].m_PositionInChunk % 4 = 0
                          /\ es[k].m_SizeInBytes % 4 = 0
                          /\ es[k].m_SizeInBytes >=
                               IF es[k].m_EntryType \in IntTypes THEN 4 ELSE 8
                          /\ es[k].m_PositionInChunk + es[k].m_SizeInBytes =
                               IF k < m + 1 THEN es[k + 1].m_PositionInChunk
                               ELSE old + size
        BY <3>6
      <4>1. CASE k \in 1 .. m
        <5>1. k < m + 1
          BY <3>2, <4>1
        <5> QED
          BY <3>4, <4>1, <5>1
      <4>2. CASE k = m + 1
        <5>1. ~(k < m + 1)
          BY <3>2, <4>2
        <5> QED
          BY <3>5, <4>2, <5>1
      <4> QED
        BY <3>2, <4>1, <4>2
    <3> QED
      BY <1>6, <2>2, <3>2, <3>3, <3>6, <3>8, <3>9 DEF Tiles, es
  <2> QED
    BY <2>1, <2>2
<1>14. ASSUME NEW c \in 1 .. n, NEW k \in DOMAIN Table(c)'
       PROVE  \/ /\ c \in DOMAIN m_Chunks
                 /\ k \in DOMAIN Table(c)
                 /\ Table(c)'[k] = Table(c)[k]
              \/ /\ c = n /\ k = Len(open.entries) + 1
                 /\ Table(c)'[k] = entry
  <2>1. CASE c # n
    <3>1. c \in 1 .. n - 1 /\ c \in DOMAIN m_Chunks
      BY <1>1, <1>2, <2>1 DEF OpenView
    <3> QED
      BY <1>10, <1>14, <3>1 DEF SameView
  <2>2. CASE c = n /\ k = Len(open.entries) + 1
    BY <1>11, <2>2
  <2>3. CASE c = n /\ k # Len(open.entries) + 1
    <3>1. k \in 1 .. Len(open.entries)
      <4>1. k \in DOMAIN Table(n)'
        BY <1>14, <2>3
      <4> QED
        BY <1>11, <2>3, <4>1
    <3>2. open.entries # <<>> /\ Table(n)'[k] = open.entries[k]
      BY <1>2, <1>11, <3>1
    <3>3. n \in DOMAIN m_Chunks /\ Table(n) = open.entries
      BY <1>1, <3>2 DEF OpenView
    <3> QED
      BY <1>11, <2>3, <3>1, <3>2, <3>3
  <2> QED
    BY <2>1, <2>2, <2>3
<1>15. IDsInv'
  <2> SUFFICES ASSUME NEW c \in 1 .. n, NEW d \in 1 .. n,
                      NEW k \in DOMAIN Table(c)', NEW l \in DOMAIN Table(d)'
               PROVE  /\ Table(c)'[k].m_EntryID < m_elementIDCounter + 1
                      /\ Table(c)'[k].m_EntryID = Table(d)'[l].m_EntryID =>
                           c = d /\ k = l
    BY <1>10 DEF IDsInv
  <2>1. \A b \in DOMAIN m_Chunks : \A j \in DOMAIN Table(b) :
          Table(b)[j].m_EntryID < m_elementIDCounter
    BY DEF WriterIInv, IDsInv
  <2>2. \A b \in DOMAIN m_Chunks : \A j \in DOMAIN Table(b) :
          Table(b)[j].m_EntryID \in Nat
    <3> SUFFICES ASSUME NEW b \in DOMAIN m_Chunks, NEW j \in DOMAIN Table(b)
                 PROVE  Table(b)[j].m_EntryID \in Nat
      OBVIOUS
    <3>1. Table(b) \in Seq(EntryType)
      BY TableType
    <3>2. Table(b)[j] \in EntryType
      BY <3>1
    <3> QED
      BY <3>2 DEF EntryType
  <2>3. CASE /\ c \in DOMAIN m_Chunks /\ k \in DOMAIN Table(c)
             /\ Table(c)'[k] = Table(c)[k]
             /\ d \in DOMAIN m_Chunks /\ l \in DOMAIN Table(d)
             /\ Table(d)'[l] = Table(d)[l]
    <3>1. /\ Table(c)[k].m_EntryID < m_elementIDCounter
          /\ Table(c)[k].m_EntryID = Table(d)[l].m_EntryID => c = d /\ k = l
      BY <2>3 DEF WriterIInv, IDsInv
    <3> QED
      BY <1>4, <2>2, <2>3, <3>1
  <2>4. CASE /\ c \in DOMAIN m_Chunks /\ k \in DOMAIN Table(c)
             /\ Table(c)'[k] = Table(c)[k]
             /\ d = n /\ l = Len(open.entries) + 1 /\ Table(d)'[l] = entry
    BY <1>4, <1>5, <2>1, <2>2, <2>4
  <2>5. CASE /\ d \in DOMAIN m_Chunks /\ l \in DOMAIN Table(d)
             /\ Table(d)'[l] = Table(d)[l]
             /\ c = n /\ k = Len(open.entries) + 1 /\ Table(c)'[k] = entry
    BY <1>4, <1>5, <2>1, <2>2, <2>5
  <2>6. CASE /\ c = n /\ k = Len(open.entries) + 1 /\ Table(c)'[k] = entry
             /\ d = n /\ l = Len(open.entries) + 1 /\ Table(d)'[l] = entry
    BY <1>4, <1>5, <2>6
  <2> QED
    BY <1>14, <2>3, <2>4, <2>5, <2>6
<1>16. WrittenInv'
  <2> SUFFICES ASSUME NEW r \in written'
               PROVE  WrittenInv!(r)'
    BY DEF WrittenInv
  <2>1. CASE r = rec
    <3>1. PushedWords(r) = words
      BY <1>8, <2>1 DEF PushedWords, GoodArray, IntTypes, FloatTypes,
         INT32_NOPREDICTION, INT32_DELTA, FLOAT32_NOPREDICTION, FLOAT32_DELTA
    <3>2. /\ r.chunk = n /\ r.type = type /\ r.id = m_elementIDCounter
          /\ r.values = array /\ r.unit = unit /\ r.offset = Len(open.data)
          /\ r.intact = (n \notin damaged)
      BY <1>8, <2>1
    <3>3. /\ r.chunk \in DOMAIN m_Chunks'
          /\ r.values # <<>>
          /\ r.type \in IntTypes => r.values \in IntArrays
          /\ r.type \in FloatTypes =>
               /\ r.values \in FloatArrays
               /\ r.unit \in Units
               /\ OutOfRange(r.values, r.unit, r.type) = {}
      BY <1>2, <1>10, <3>2 DEF GoodArray
    <3>4. /\ r.offset + Len(words) <= Len(Data(n)')
          /\ \A i \in DOMAIN words : Data(n)'[r.offset + i] = words[i]
      BY <1>3, <1>12, <3>2
    <3>5. r.intact => open.chunks[n].m_UncompressedDataSize = 4 * r.offset
      BY <1>2, <3>2 DEF Tiles
    <3>6. \E k \in DOMAIN Table(n)' :
            /\ Table(n)'[k].m_EntryID = r.id
            /\ Table(n)'[k].m_EntryType = r.type
            /\ Table(n)'[k].m_SizeInBytes = 4 * Len(words)
            /\ r.intact => Table(n)'[k].m_PositionInChunk = 4 * r.offset
      <4>1. Len(open.entries) + 1 \in DOMAIN Table(n)'
        BY <1>11
      <4>2. /\ entry.m_EntryID = r.id
            /\ entry.m_EntryType = r.type
            /\ entry.m_SizeInBytes = 4 * Len(words)
            /\ r.intact => entry.m_PositionInChunk = 4 * r.offset
        BY <1>5, <3>2, <3>5 DEF size
      <4>3. Table(n)'[Len(open.entries) + 1] = entry
        BY <1>11
      <4> QED
        BY <4>1, <4>2, <4>3
    <3> QED
      BY <3>1, <3>2, <3>3, <3>4, <3>6
  <2>2. CASE r \in written
    <3>1. WrittenInv!(r)
      BY <2>2 DEF WriterIInv, WrittenInv
    <3>2. r.chunk \in 1 .. n
      BY <1>1, <3>1 DEF OpenView
    <3>3. CASE r.chunk # n
      <4>1. SameView(r.chunk)
        BY <1>2, <1>10, <3>2, <3>3
      <4> QED
        BY <1>10, <3>1, <3>2, <4>1 DEF SameView
    <3>4. CASE r.chunk = n
      <4>1. n \in DOMAIN m_Chunks
        BY <3>1, <3>4
      <4>2. Table(n) = open.entries /\ Data(n) = open.data
        BY <1>1, <4>1 DEF OpenView
      <4>3. r.offset \in Nat /\ PushedWords(r) \in Seq(Words)
        BY <2>2, <3>1, PushedWordsType DEF WriterIInv, WriterTypeOK, WrittenType
      <4>4. /\ r.offset + Len(PushedWords(r)) <= Len(Data(n)')
            /\ \A i \in DOMAIN PushedWords(r) :
                 Data(n)'[r.offset + i] = PushedWords(r)[i]
        <5>1. /\ r.offset + Len(PushedWords(r)) <= Len(open.data)
              /\ \A i \in DOMAIN PushedWords(r) :
                   open.data[r.offset + i] = PushedWords(r)[i]
          BY <3>1, <3>4, <4>2
        <5>2. Len(PushedWords(r)) \in Nat
              /\ DOMAIN PushedWords(r) = 1 .. Len(PushedWords(r))
          BY <4>3
        <5>3. ASSUME NEW i \in DOMAIN PushedWords(r)
              PROVE  Data(n)'[r.offset + i] = open.data[r.offset + i]
          <6>1. r.offset + i \in 1 .. Len(open.data)
            BY <1>12, <4>3, <5>1, <5>2
          <6> QED
            BY <1>12, <6>1
        <5>4. r.offset + Len(PushedWords(r)) <= Len(Data(n)')
          BY <1>3, <1>12, <4>3, <5>1, <5>2
        <5> QED
          BY <5>1, <5>3, <5>4
      <4>5. \A k \in DOMAIN Table(n) :
              k \in DOMAIN Table(n)' /\ Table(n)'[k] = Table(n)[k]
        BY <1>11, <4>2
      <4>6. \E k \in DOMAIN Table(n)' :
              /\ Table(n)'[k].m_EntryID = r.id
              /\ Table(n)'[k].m_EntryType = r.type
              /\ Table(n)'[k].m_SizeInBytes = 4 * Len(PushedWords(r))
              /\ r.intact => Table(n)'[k].m_PositionInChunk = 4 * r.offset
        <5>1. PICK k \in DOMAIN Table(n) :
                /\ Table(n)[k].m_EntryID = r.id
                /\ Table(n)[k].m_EntryType = r.type
                /\ Table(n)[k].m_SizeInBytes = 4 * Len(PushedWords(r))
                /\ r.intact => Table(n)[k].m_PositionInChunk = 4 * r.offset
          BY <3>1, <3>4
        <5>2. k \in DOMAIN Table(n)' /\ Table(n)'[k] = Table(n)[k]
          BY <4>5
        <5> QED
          BY <5>1, <5>2
      <4> QED
        BY <1>10, <3>1, <3>2, <3>4, <4>4, <4>6
    <3> QED
      BY <3>3, <3>4
  <2> QED
    BY <1>6, <2>1, <2>2
<1> QED
  BY <1>9, <1>10, <1>13, <1>15, <1>16 DEF WriterIInv

LEMMA AddIntArrayStep ==
  ASSUME WriterIInv, NEW a \in IntArrays, NEW type \in IntTypes,
         addIntArray(a, type)
  PROVE  WriterIInv'
<1>1. GoodArray(type, IntWords(a, type), a, 0)
  <2>1. a \in Seq(Int) /\ a # <<>> /\ Len(a) \in Nat /\ Len(a) >= 1
    BY SizesAssumption, ClientsAssumption DEF Words, addIntArray
  <2>2. type \notin FloatTypes
    BY DEF IntTypes, FloatTypes, INT32_NOPREDICTION, INT32_DELTA,
           FLOAT32_NOPREDICTION, FLOAT32_DELTA
  <2> QED
    BY <2>1, <2>2, IntWordsFacts DEF GoodArray
<1>2. PICK open \in OpenChunks : AddEntry(open, type, IntWords(a, type), a, 0)
  BY DEF addIntArray
<1> QED
  BY <1>1, <1>2, AddEntryStep DEF addIntArray, AddCallAllowed

LEMMA AddFloatArrayStep ==
  ASSUME WriterIInv, NEW f \in FloatArrays, NEW type \in FloatTypes,
         NEW unit \in Units, addFloatArray(f, type, unit)
  PROVE  WriterIInv'
<1> DEFINE words == <<BitsOf(unit)>> \o FloatWords(f, unit, type)
<1>1. GoodArray(type, words, f, unit)
  <2>1. f \in Seq(Int) /\ f # <<>> /\ Len(f) \in Nat /\ Len(f) >= 1
    BY ClientsAssumption DEF addFloatArray
  <2>2. type \notin IntTypes
    BY DEF IntTypes, FloatTypes, INT32_NOPREDICTION, INT32_DELTA,
           FLOAT32_NOPREDICTION, FLOAT32_DELTA
  <2>3. /\ BitsOf(unit) \in Words /\ unit \in Nat
        /\ OutOfRange(f, unit, type) = {}
    BY ClientsAssumption, FloatAssumption DEF addFloatArray
  <2>4. /\ FloatWords(f, unit, type) \in Seq(Words)
        /\ Len(FloatWords(f, unit, type)) = Len(f)
    BY <2>3, FloatWordsFacts
  <2>5. <<BitsOf(unit)>> \in Seq(Words) /\ Len(<<BitsOf(unit)>>) = 1
    BY <2>3
  <2>6. words \in Seq(Words) /\ Len(words) = 1 + Len(f)
    BY <2>4, <2>5, ConcatFacts
  <2>7. Len(words) >= 2
    BY <2>1, <2>6
  <2> QED
    BY <2>1, <2>2, <2>3, <2>6, <2>7 DEF GoodArray
<1>2. PICK open \in OpenChunks : AddEntry(open, type, words, f, unit)
  BY DEF addFloatArray
<1> HIDE DEF words
<1> QED
  BY <1>1, <1>2, AddEntryStep DEF addFloatArray, AddCallAllowed

\* A call that throws leaves the entries alone and lengthens the data.
LEMMA AddFloatArrayThrowsStep ==
  ASSUME WriterIInv, NEW f \in FloatArrays, NEW type \in FloatTypes,
         NEW unit \in Units, addFloatArrayThrows(f, type, unit)
  PROVE  WriterIInv'
<1>1. PICK k \in OutOfRange(f, unit, type), open \in OpenChunks :
        /\ \A i \in OutOfRange(f, unit, type) : k <= i
        /\ m_Chunks' = open.chunks
        /\ m_CurrentChunkEntries' = open.entries
        /\ m_CurrentChunkData' =
             open.data \o <<BitsOf(unit)>>
               \o SubSeq(FloatWords(f, unit, type), 1, k - 1)
        /\ damaged' = damaged \cup {Len(open.chunks)}
  BY DEF addFloatArrayThrows
<1> DEFINE n == Len(open.chunks)
           pushed == SubSeq(FloatWords(f, unit, type), 1, k - 1)
<1>2. OpenView(open)
  BY OpenChunkFacts
<1>3. /\ n \in Nat /\ n >= 1
      /\ open.chunks \in Seq(ChunkType)
      /\ open.entries \in Seq(EntryType)
      /\ open.data \in Seq(Words)
      /\ Tiles(open.entries, open.data, open.chunks[n], n \notin damaged)
  BY <1>2 DEF OpenView
<1>4. pushed \in Seq(Words)
  <2>1. f \in Seq(Int) /\ DOMAIN f = 1 .. Len(f) /\ Len(f) \in Nat
    BY ClientsAssumption
  <2>2. k \in 1 .. Len(f) /\ k - 1 \in Nat
    BY <2>1 DEF OutOfRange
  <2>3. \A i \in 1 .. k - 1 : FloatWords(f, unit, type)[i] \in Words
    <3> SUFFICES ASSUME NEW i \in 1 .. k - 1
                 PROVE  FloatWords(f, unit, type)[i] \in Words
      OBVIOUS
    <3>1. i \in DOMAIN f /\ i \notin OutOfRange(f, unit, type)
      BY <1>1, <2>1, <2>2
    <3>2. i > 1 => i - 1 \notin OutOfRange(f, unit, type)
      BY <1>1, <2>1, <2>2
    <3> QED
      BY <3>1, <3>2, FloatWordFacts
  <2>4. pushed = [i \in 1 .. k - 1 |-> FloatWords(f, unit, type)[i]]
    BY <2>2
  <2>5. pushed \in [1 .. k - 1 -> Words]
    BY <2>3, <2>4
  <2> QED
    BY <2>2, <2>5, SeqOfFunction
<1> HIDE DEF pushed
<1>5. /\ m_CurrentChunkData' \in Seq(Words)
      /\ Len(open.data) \in Nat
      /\ Len(m_CurrentChunkData') \in Nat
      /\ Len(m_CurrentChunkData') >= Len(open.data)
      /\ \A i \in 1 .. Len(open.data) : m_CurrentChunkData'[i] = open.data[i]
  <2>1. BitsOf(unit) \in Words
    BY FloatAssumption
  <2>2. m_CurrentChunkData' = (open.data \o <<BitsOf(unit)>>) \o pushed
    BY <1>1 DEF pushed
  <2>3. /\ open.data \o <<BitsOf(unit)>> \in Seq(Words)
        /\ Len(open.data \o <<BitsOf(unit)>>) = Len(open.data) + 1
        /\ \A i \in 1 .. Len(open.data) :
             (open.data \o <<BitsOf(unit)>>)[i] = open.data[i]
        /\ Len(open.data) \in Nat
    BY <1>3, <2>1, ConcatFacts
  <2> DEFINE front == open.data \o <<BitsOf(unit)>>
  <2> HIDE DEF front
  <2>4. /\ front \o pushed \in Seq(Words)
        /\ Len(front \o pushed) = Len(front) + Len(pushed)
        /\ \A i \in 1 .. Len(front) : (front \o pushed)[i] = front[i]
        /\ Len(pushed) \in Nat
    BY <1>4, <2>3, ConcatFacts DEF front
  <2>5. Len(front) = Len(open.data) + 1 /\ m_CurrentChunkData' = front \o pushed
    BY <2>2, <2>3 DEF front
  <2>6. \A i \in 1 .. Len(open.data) : front[i] = open.data[i]
    BY <2>3 DEF front
  <2> QED
    BY <2>3, <2>4, <2>5, <2>6
<1>6. WriterTypeOK'
  <2>0. damaged' \subseteq Nat
    BY <1>1, <1>3 DEF WriterIInv, WriterTypeOK
  <2>1. m_elementIDCounter' \in Nat \ {0} /\ damaged' \subseteq Nat
    BY <2>0 DEF WriterIInv, WriterTypeOK, addFloatArrayThrows
  <2> QED
    BY <1>1, <1>3, <1>5, <2>1 DEF WriterIInv, WriterTypeOK, addFloatArrayThrows
<1>7. /\ OpenInv' /\ BlocksInv' /\ FinishedInv'
      /\ DOMAIN m_Chunks' = 1 .. n
      /\ \A c \in 1 .. n - 1 : SameView(c)
      /\ Table(n)' = open.entries
      /\ Data(n)' = m_CurrentChunkData'
  BY <1>1, <1>6, AddFrame DEF addFloatArrayThrows, AddCallAllowed
<1>8. \A c \in 1 .. n - 1 : c \in DOMAIN m_Chunks
  BY <1>2 DEF OpenView
<1>9. TableInv'
  <2> SUFFICES ASSUME NEW c \in 1 .. n
               PROVE  Tiles(Table(c)', Data(c)', m_Chunks'[c], c \notin damaged')
    BY <1>7 DEF TableInv
  <2>1. CASE c # n
    <3>1. c \in 1 .. n - 1 /\ c \in DOMAIN m_Chunks
      BY <1>3, <1>8, <2>1
    <3>2. Tiles(Table(c), Data(c), m_Chunks[c], c \notin damaged)
      BY <3>1 DEF WriterIInv, TableInv
    <3>3. SameView(c) /\ (c \notin damaged' => c \notin damaged)
      BY <1>1, <1>7, <3>1
    <3> QED
      BY <3>2, <3>3 DEF SameView, Tiles
  <2>2. CASE c = n
    <3>1. c \in damaged' /\ m_Chunks'[c] = open.chunks[n]
      BY <1>1, <2>2
    <3>2. open.chunks[n].m_UncompressedDataSize \in Nat
      <4>1. open.chunks[n] \in ChunkType
        BY <1>3
      <4> QED
        BY <4>1 DEF ChunkType
    <3>3. open.chunks[n].m_UncompressedDataSize <= 4 * Len(m_CurrentChunkData')
      BY <1>3, <1>5, <3>2 DEF Tiles
    <3> QED
      BY <1>3, <1>7, <2>2, <3>1, <3>3 DEF Tiles
  <2> QED
    BY <2>1, <2>2
<1>10. ASSUME NEW c \in 1 .. n, NEW j \in DOMAIN Table(c)'
       PROVE  c \in DOMAIN m_Chunks /\ Table(c)' = Table(c)
  <2>1. CASE c # n
    BY <1>3, <1>7, <1>8, <2>1 DEF SameView
  <2>2. CASE c = n
    <3>1. Table(n)' # <<>>
      BY <1>10, <2>2
    <3> QED
      BY <1>2, <1>7, <2>2, <3>1 DEF OpenView
  <2> QED
    BY <2>1, <2>2
<1>11. IDsInv'
  <2> SUFFICES ASSUME NEW c \in 1 .. n, NEW d \in 1 .. n,
                      NEW j \in DOMAIN Table(c)', NEW l \in DOMAIN Table(d)'
               PROVE  /\ Table(c)'[j].m_EntryID < m_elementIDCounter'
                      /\ Table(c)'[j].m_EntryID = Table(d)'[l].m_EntryID =>
                           c = d /\ j = l
    BY <1>7 DEF IDsInv
  <2>1. /\ c \in DOMAIN m_Chunks /\ Table(c)' = Table(c)
        /\ d \in DOMAIN m_Chunks /\ Table(d)' = Table(d)
    BY <1>10
  <2>2. /\ Table(c)[j].m_EntryID < m_elementIDCounter
        /\ Table(c)[j].m_EntryID = Table(d)[l].m_EntryID => c = d /\ j = l
    BY <2>1 DEF WriterIInv, IDsInv
  <2>3. Table(c)[j].m_EntryID \in Nat
    <3>1. Table(c) \in Seq(EntryType)
      BY <2>1, TableType
    <3>2. Table(c)[j] \in EntryType
      BY <2>1, <3>1
    <3> QED
      BY <3>2 DEF EntryType
  <2>4. m_elementIDCounter' = m_elementIDCounter + 1 /\ m_elementIDCounter \in Nat
    BY DEF addFloatArrayThrows, WriterIInv, WriterTypeOK
  <2> QED
    BY <2>1, <2>2, <2>3, <2>4
<1>12. WrittenInv'
  <2> SUFFICES ASSUME NEW r \in written
               PROVE  WrittenInv!(r)'
    BY DEF WrittenInv, addFloatArrayThrows
  <2>1. WrittenInv!(r)
    BY DEF WriterIInv, WrittenInv
  <2>2. r.chunk \in 1 .. n
    BY <1>2, <2>1 DEF OpenView
  <2>3. CASE r.chunk # n
    <3>1. SameView(r.chunk)
      BY <1>3, <1>7, <2>2, <2>3
    <3> QED
      BY <1>7, <2>1, <2>2, <3>1 DEF SameView
  <2>4. CASE r.chunk = n
    <3>1. Table(n) = open.entries /\ Data(n) = open.data
      BY <1>2, <2>1, <2>4 DEF OpenView
    <3>2. r.offset \in Nat /\ PushedWords(r) \in Seq(Words)
      BY <2>1, PushedWordsType DEF WriterIInv, WriterTypeOK, WrittenType
    <3>3. /\ r.offset + Len(PushedWords(r)) <= Len(open.data)
          /\ \A i \in DOMAIN PushedWords(r) :
               open.data[r.offset + i] = PushedWords(r)[i]
      BY <2>1, <2>4, <3>1
    <3>4. /\ Len(PushedWords(r)) \in Nat
          /\ DOMAIN PushedWords(r) = 1 .. Len(PushedWords(r))
      BY <3>2
    <3>5. ASSUME NEW i \in DOMAIN PushedWords(r)
          PROVE  Data(n)'[r.offset + i] = open.data[r.offset + i]
      <4>1. r.offset + i \in 1 .. Len(open.data)
        BY <1>5, <3>2, <3>3, <3>4
      <4> QED
        BY <1>5, <1>7, <4>1
    <3>6. r.offset + Len(PushedWords(r)) <= Len(Data(n)')
      BY <1>5, <1>7, <3>2, <3>3, <3>4
    <3>7. Table(n)' = Table(n)
      BY <1>7, <3>1
    <3> QED
      BY <1>7, <2>1, <2>2, <2>4, <3>3, <3>5, <3>6, <3>7
  <2> QED
    BY <2>3, <2>4
<1> QED
  BY <1>6, <1>7, <1>9, <1>11, <1>12 DEF WriterIInv

LEMMA WriterStep ==
  ASSUME WriterIInv, WriterNext
  PROVE  WriterIInv'
  BY FinishChunkStep, FinishChunkThrowsStep, BeginChunkStep, AddIntArrayStep,
     AddFloatArrayStep, AddFloatArrayThrowsStep, FinishWritingStep
     DEF WriterNext

-----------------------------------------------------------------------------
(* The reader, and the theorems. *)

(***************************************************************************)
(* What the reader finds in a finished stream.                             *)
(***************************************************************************)

LEMMA SubSeqFacts ==
  ASSUME NEW S, NEW s \in Seq(S), NEW n \in Nat, n <= Len(s)
  PROVE  /\ SubSeq(s, 1, n) \in Seq(S)
         /\ Len(SubSeq(s, 1, n)) = n
         /\ \A i \in 1 .. n : SubSeq(s, 1, n)[i] = s[i]
  OBVIOUS

\* A step of the reader leaves the views of the chunks alone.
LEMMA WriterUnchanged ==
  ASSUME WriterIInv, UNCHANGED writerVars
  PROVE  /\ WriterIInv'
         /\ \A c : /\ Table(c)' = Table(c)
                   /\ Data(c)' = Data(c)
                   /\ Loaded(c)' = Loaded(c)
<1>1. \A c : /\ Table(c)' = Table(c)
            /\ Data(c)' = Data(c)
            /\ Loaded(c)' = Loaded(c)
  BY DEF Table, Data, Loaded, Closed, writerVars, chunkVars, TableIn, DataIn
<1>2. WriterTypeOK' /\ OpenInv' /\ BlocksInv' /\ FinishedInv'
  BY DEF WriterIInv, writerVars, chunkVars, WriterTypeOK, OpenInv, BlocksInv,
         FinishedInv, Closed, PointsInto
<1>3. TableInv' /\ IDsInv'
  BY <1>1 DEF WriterIInv, writerVars, chunkVars, TableInv, IDsInv
<1>4. WrittenInv'
  BY <1>1 DEF WriterIInv, writerVars, chunkVars, WrittenInv
<1> QED
  BY <1>1, <1>2, <1>3, <1>4 DEF WriterIInv

LEMMA FinishedViews ==
  ASSUME WriterIInv, m_bIsFinished
  PROVE  /\ ReadChunkTable = m_Chunks
         /\ \A c \in DOMAIN m_Chunks :
              Closed(c) /\ ReadEntryTable(m_Chunks[c]) = Table(c)
<1>1. m_Chunks \in Seq(ChunkType) /\ ~m_CurrentChunk
  BY DEF WriterIInv, WriterTypeOK, OpenInv
<1>2. ReadChunkTable = m_Chunks
  <2>1. /\ BlockAt(0).m_ChunkCount = Len(m_Chunks)
        /\ BlockAt(0).m_ChunkTableStart = m_ChunkTableStart
    BY DEF WriterIInv, FinishedInv, BlockAt, HeaderBlock
  <2>2. CASE m_Chunks = <<>>
    BY <2>1, <2>2 DEF ReadChunkTable
  <2>3. CASE m_Chunks # <<>>
    <3>1. Len(m_Chunks) # 0
      BY <1>1, <2>3
    <3>2. BlockAt(m_ChunkTableStart).chunks = m_Chunks
      BY <2>3 DEF WriterIInv, FinishedInv, BlockAt
    <3> QED
      BY <2>1, <3>1, <3>2 DEF ReadChunkTable
  <2> QED
    BY <2>2, <2>3
<1>3. ASSUME NEW c \in DOMAIN m_Chunks
      PROVE  Closed(c) /\ ReadEntryTable(m_Chunks[c]) = Table(c)
  <2>1. Closed(c)
    BY <1>1 DEF Closed
  <2>2. /\ Table(c) = TableIn(m_Chunks[c], stream)
        /\ Table(c) \in Seq(EntryType)
        /\ Len(Table(c)) = m_Chunks[c].m_EntryCount
        /\ Len(Table(c)) \in Nat
    <3>1. Table(c) \in Seq(EntryType)
      BY TableType
    <3>2. Len(Table(c)) = m_Chunks[c].m_EntryCount
      BY DEF WriterIInv, TableInv, Tiles
    <3>3. Table(c) = TableIn(m_Chunks[c], stream)
      BY <2>1 DEF Table
    <3> QED
      BY <3>1, <3>2, <3>3
  <2>3. CASE m_Chunks[c].m_EntryCount = 0
    BY <2>1, <2>2, <2>3 DEF TableIn, ReadEntryTable
  <2>4. CASE m_Chunks[c].m_EntryCount # 0
    <3>1. BlockAt(m_Chunks[c].m_EntryTableStart).entries = Table(c)
      BY <2>2, <2>4 DEF TableIn, BlockAt
    <3>2. SubSeq(Table(c), 1, Len(Table(c))) = Table(c)
      BY <2>2, SubSeqFull
    <3> QED
      BY <2>1, <2>2, <2>4, <3>1, <3>2 DEF ReadEntryTable
  <2> QED
    BY <2>1, <2>3, <2>4
<1> QED
  BY <1>2, <1>3

\* What loadData puts in memory, from the stream or from the cache.
LEMMA LoadFacts ==
  ASSUME WriterIInv, ReaderInv, reader = "open", NEW c \in DOMAIN m_Chunks
  PROVE  /\ ~LoadThrows(c)
         /\ LoadedData(c) = Loaded(c)
         /\ Loaded(c) \in Seq(Words)
         /\ 4 * Len(Loaded(c)) = m_Chunks[c].m_UncompressedDataSize
         /\ \A i \in 1 .. Len(Loaded(c)) : Loaded(c)[i] = Data(c)[i]
<1> DEFINE size == m_Chunks[c].m_UncompressedDataSize
<1>1. m_bIsFinished
  BY DEF ReaderInv
<1>2. ReadChunkTable[c] = m_Chunks[c] /\ Closed(c)
  BY <1>1, FinishedViews
<1>3. /\ PointsInto(m_Chunks[c], stream)
      /\ Data(c) = DataIn(m_Chunks[c], stream)
      /\ Data(c) \in Seq(Words)
      /\ size <= 4 * Len(Data(c)) /\ size % 4 = 0
      /\ m_Chunks[c] \in ChunkType
  BY <1>2, TableType DEF WriterIInv, BlocksInv, Data, TableInv, Tiles,
                         WriterTypeOK
<1>4. size \in Nat
  BY <1>3 DEF ChunkType
<1>5. /\ size \div 4 \in Nat
      /\ size \div 4 <= Len(Data(c))
      /\ 4 * (size \div 4) = size
  <2>1. Len(Data(c)) \in Nat
    BY <1>3
  <2> HIDE DEF size
  <2> QED
    BY <1>3, <1>4, <2>1
<1>6. /\ Loaded(c) \in Seq(Words)
      /\ Len(Loaded(c)) = size \div 4
      /\ \A i \in 1 .. size \div 4 : Loaded(c)[i] = Data(c)[i]
  BY <1>3, <1>5, SubSeqFacts DEF Loaded
<1>7. ~LoadThrows(c)
  <2>1. size > 0 => /\ m_Chunks[c].m_CompressedPropsSize = 1
                    /\ m_Chunks[c].m_CompressedDataSize # 0
    BY <1>3 DEF PointsInto
  <2> QED
    BY <1>2, <2>1 DEF LoadThrows
<1>8. LoadedData(c) = Loaded(c)
  <2>1. CASE c \in m_bHasCachedData
    BY <2>1 DEF LoadedData, ReaderInv
  <2>2. CASE c \notin m_bHasCachedData /\ size = 0
    <3>1. Data(c) = <<>>
      BY <1>3, <2>2 DEF DataIn
    <3>2. Len(Loaded(c)) = 0
      BY <1>6, <2>2
    <3>3. Loaded(c) = <<>>
      BY <1>6, <3>2
    <3> QED
      BY <1>2, <2>2, <3>3 DEF LoadedData
  <2>3. CASE c \notin m_bHasCachedData /\ size # 0
    <3>1. BlockAt(m_Chunks[c].m_CompressedDataStart).data = Data(c)
      BY <1>3, <2>3 DEF DataIn, BlockAt
    <3> QED
      BY <1>2, <2>3, <3>1 DEF LoadedData, Loaded
  <2> QED
    BY <2>1, <2>2, <2>3
<1> QED
  BY <1>5, <1>6, <1>7, <1>8

\* Every entry lies in the data that loadData puts in memory, and seekToEntry
\* finds its end.
LEMMA EntryLayout ==
  ASSUME WriterIInv, ReaderInv, reader = "open", NEW c \in DOMAIN m_Chunks,
         NEW k \in DOMAIN Table(c)
  PROVE  LET entry == Table(c)[k]
             start == entry.m_PositionInChunk
             size == entry.m_SizeInBytes
         IN  /\ m_ChunkEntries[c] = Table(c)
             /\ entry \in EntryType
             /\ start \in Nat /\ size \in Nat
             /\ start % 4 = 0 /\ size % 4 = 0
             /\ size >= IF entry.m_EntryType \in IntTypes THEN 4 ELSE 8
             /\ start + size <= 4 * Len(Loaded(c))
             /\ EndPosition(c, k, Loaded(c)) = start + size
             /\ ~SeekThrows(c, k, Loaded(c))
<1> DEFINE entry == Table(c)[k]
           start == entry.m_PositionInChunk
           size == entry.m_SizeInBytes
           length == 4 * Len(Loaded(c))
<1>1. m_ChunkEntries[c] = Table(c)
  BY DEF ReaderInv
<1>2. Table(c) \in Seq(EntryType)
  BY TableType
<1>3. entry \in EntryType
  BY <1>2
<1>4. start \in Nat /\ size \in Nat
  BY <1>3 DEF EntryType
<1>5. length = m_Chunks[c].m_UncompressedDataSize
  BY LoadFacts
<1>6. Tiles(Table(c), Data(c), m_Chunks[c], c \notin damaged)
  BY DEF WriterIInv, TableInv
<1>7. /\ start % 4 = 0 /\ size % 4 = 0
      /\ size >= IF entry.m_EntryType \in IntTypes THEN 4 ELSE 8
      /\ start + size <= length
      /\ start + size = IF k < Len(Table(c))
                          THEN Table(c)[k + 1].m_PositionInChunk ELSE length
  BY <1>5, <1>6 DEF Tiles
<1>8. EndPosition(c, k, Loaded(c)) = start + size
  BY <1>1, <1>7 DEF EndPosition
<1>9. ~SeekThrows(c, k, Loaded(c))
  <2>1. /\ m_ChunkEntries[c][k].m_PositionInChunk = start
        /\ m_ChunkEntries[c][k].m_SizeInBytes = size
    BY <1>1
  <2>2. Len(Loaded(c)) \in Nat
    BY LoadFacts
  <2> DEFINE words == Len(Loaded(c))
  <2> HIDE DEF start, size, words
  <2>3. ~(start > 4 * words)
    BY <1>4, <1>7, <2>2 DEF words
  <2>4. ~(start + size < start)
    BY <1>4
  <2>5. start + size - start = size
    BY <1>4
  <2>6. ASSUME SeekThrows(c, k, Loaded(c))
        PROVE  FALSE
    <3> DEFINE end == EndPosition(c, k, Loaded(c))
    <3>1. \/ start > 4 * Len(Loaded(c))
          \/ end < start
          \/ end - start # size
      BY <2>1, <2>6, Zenon DEF SeekThrows
    <3>2. end = start + size
      BY <1>8
    <3>3. 4 * Len(Loaded(c)) = 4 * words
      BY DEF words
    <3> HIDE DEF end
    <3> QED
      BY <1>4, <2>3, <2>4, <2>5, <3>1, <3>2, <3>3
  <2> QED
    BY <2>6
<1> QED
  BY <1>1, <1>3, <1>4, <1>7, <1>8, <1>9

(***************************************************************************)
(* The steps.                                                              *)
(***************************************************************************)

LEMMA InitStep == Init => IInv
<1> SUFFICES ASSUME Init PROVE IInv
  OBVIOUS
<1> USE DEF Init, WriterInit
<1>1. NoCall \in CallType
  BY SizesAssumption, FloatAssumption DEF NoCall, CallType, Kinds, Words
<1>2. HeaderBlock(0, 0) \in BlockType
  BY DEF HeaderBlock, BlockType
<1>3. WriterTypeOK
  <2>1. stream \in Seq(BlockType)
    BY <1>2
  <2>2. m_CurrentChunk \in BOOLEAN /\ m_bIsFinished \in BOOLEAN
        /\ m_bIsEmpty \in BOOLEAN
    OBVIOUS
  <2> QED
    BY <2>1, <2>2 DEF WriterTypeOK
<1>4. TypeOK
  BY <1>1, <1>3 DEF TypeOK
<1>5. WriterIInv
  BY <1>3 DEF WriterIInv, OpenInv, BlocksInv, TableInv, IDsInv,
              WrittenInv, FinishedInv
<1>6. ReaderInv /\ CallInv /\ ReadInv
  BY DEF ReaderInv, CallInv, ReadInv, NoCall
<1> QED
  BY <1>4, <1>5, <1>6 DEF IInv

\* The writer steps only before a reader exists.
LEMMA WriterOnlyStep ==
  ASSUME IInv, WriterNext, UNCHANGED readerVars
  PROVE  IInv'
<1>1. ~m_bIsFinished
  BY DEF IInv, WriterIInv, OpenInv, WriterNext, finishChunk, finishChunkThrows,
         beginChunk, addIntArray, addFloatArray, addFloatArrayThrows,
         AddCallAllowed, finishWriting
<1>2. reader = "none" /\ call = NoCall /\ m_bHasCachedData = {}
  BY <1>1 DEF IInv, TypeOK, ReaderInv
<1>3. WriterIInv'
  BY WriterStep DEF IInv
<1>4. TypeOK'
  BY <1>3 DEF IInv, TypeOK, WriterIInv, readerVars
<1>5. ReaderInv' /\ CallInv' /\ ReadInv'
  BY <1>2 DEF ReaderInv, CallInv, ReadInv, NoCall, readerVars
<1> QED
  BY <1>3, <1>4, <1>5 DEF IInv

LEMMA OpenStep ==
  ASSUME IInv, Open
  PROVE  IInv'
<1> DEFINE tables == [c \in DOMAIN m_Chunks |-> Table(c)]
           throws == \E c \in DOMAIN m_Chunks : TooLarge(m_Chunks[c])
<1>1. /\ m_bIsFinished /\ reader = "none"
      /\ UNCHANGED <<m_bHasCachedData, call, writerVars>>
  BY DEF Open
<1>2. WriterIInv /\ call = NoCall /\ m_bHasCachedData = {}
  BY <1>1 DEF IInv, ReaderInv
<1>3. /\ WriterIInv'
      /\ \A c : Table(c)' = Table(c) /\ Loaded(c)' = Loaded(c)
      /\ m_Chunks' = m_Chunks
  BY <1>1, <1>2, WriterUnchanged DEF writerVars, chunkVars
<1>4. /\ ReadChunkTable = m_Chunks
      /\ [c \in DOMAIN m_Chunks |-> ReadEntryTable(m_Chunks[c])] = tables
  BY <1>1, <1>2, FinishedViews
<1>5. /\ m_Chunks \in Seq(ChunkType)
      /\ DOMAIN m_Chunks = 1 .. Len(m_Chunks) /\ Len(m_Chunks) \in Nat
  BY <1>2 DEF WriterIInv, WriterTypeOK
<1>6. /\ \A c \in DOMAIN m_Chunks : Table(c) \in Seq(EntryType)
      /\ \A c \in DOMAIN m_Chunks : \A k \in DOMAIN Table(c) :
           Table(c)[k].m_EntryID \in Nat /\ k \in Nat /\ c \in Nat
  <2>1. ASSUME NEW c \in DOMAIN m_Chunks
        PROVE  Table(c) \in Seq(EntryType)
    BY <1>2, TableType
  <2>2. ASSUME NEW c \in DOMAIN m_Chunks, NEW k \in DOMAIN Table(c)
        PROVE  Table(c)[k].m_EntryID \in Nat /\ k \in Nat /\ c \in Nat
    <3>1. Table(c)[k] \in EntryType /\ k \in Nat
      BY <2>1
    <3> QED
      BY <1>5, <3>1 DEF EntryType
  <2> QED
    BY <2>1, <2>2
<1>7. EntryPlaces(tables) \subseteq Nat \X Nat \X Nat
  BY <1>6 DEF EntryPlaces
<1>8. ~DuplicateEntry(EntryPlaces(tables))
  <2> SUFFICES ASSUME NEW p \in EntryPlaces(tables),
                      NEW q \in EntryPlaces(tables), p[1] = q[1]
               PROVE  p = q
    BY DEF DuplicateEntry
  <2>1. PICK c \in DOMAIN m_Chunks :
          \E k \in DOMAIN Table(c) : p = <<Table(c)[k].m_EntryID, c, k>>
    BY DEF EntryPlaces
  <2>2. PICK k \in DOMAIN Table(c) : p = <<Table(c)[k].m_EntryID, c, k>>
    BY <2>1
  <2>3. PICK d \in DOMAIN m_Chunks :
          \E l \in DOMAIN Table(d) : q = <<Table(d)[l].m_EntryID, d, l>>
    BY DEF EntryPlaces
  <2>4. PICK l \in DOMAIN Table(d) : q = <<Table(d)[l].m_EntryID, d, l>>
    BY <2>3
  <2>5. c = d /\ k = l
    BY <1>2, <2>2, <2>4 DEF WriterIInv, IDsInv
  <2> QED
    BY <2>2, <2>4, <2>5
<1>9. /\ reader' = IF throws THEN "rejected" ELSE "open"
      /\ m_ChunkEntries' = IF throws THEN <<>> ELSE tables
      /\ m_ChunkMap' = IF throws THEN {} ELSE EntryPlaces(tables)
      /\ m_Data' = IF throws THEN <<>> ELSE [c \in DOMAIN m_Chunks |-> <<>>]
  BY <1>4, <1>8 DEF Open
<1>10. TypeOK'
  <2>1. tables \in [1 .. Len(m_Chunks) -> Seq(EntryType)]
    BY <1>5, <1>6
  <2>2. tables \in Seq(Seq(EntryType))
    BY <1>5, <2>1, SeqOfFunction
  <2>3. [c \in DOMAIN m_Chunks |-> <<>>] \in [1 .. Len(m_Chunks) -> Seq(Words)]
    BY <1>5
  <2>4. [c \in DOMAIN m_Chunks |-> <<>>] \in Seq(Seq(Words))
    BY <1>5, <2>3, SeqOfFunction
  <2> HIDE DEF tables, throws
  <2> QED
    BY <1>1, <1>3, <1>7, <1>9, <2>2, <2>4 DEF TypeOK, IInv, WriterIInv
<1>11. ReaderInv'
  <2>1. CASE throws
    <3>1. reader' = "rejected"
      BY <1>9, <2>1
    <3> QED
      BY <1>1, <1>2, <1>3, <2>1, <3>1
         DEF ReaderInv, writerVars, TooLarge
  <2>2. CASE ~throws
    <3>1. /\ reader' = "open" /\ m_ChunkEntries' = tables
          /\ m_ChunkMap' = EntryPlaces(tables)
          /\ m_Data' = [c \in DOMAIN m_Chunks |-> <<>>]
      BY <1>9, <2>2
    <3>2. Len(m_Data') = Len(m_Chunks)
      BY <1>5, <3>1, SeqOfFunction
    <3>3. m_bIsFinished' /\ m_bHasCachedData' = {}
      BY <1>1, <1>2 DEF writerVars
    <3>4. EntryPlaces(tables) = EntryPlaces(m_ChunkEntries)'
      BY <3>1 DEF EntryPlaces
    <3>5. [c \in DOMAIN m_Chunks |-> Table(c)]' = tables
      BY <1>3
    <3> HIDE DEF tables
    <3> QED
      BY <1>3, <3>1, <3>2, <3>3, <3>4, <3>5 DEF ReaderInv
  <2> QED
    BY <2>1, <2>2
<1>12. CallInv' /\ ReadInv'
  BY <1>1, <1>2 DEF CallInv, ReadInv, NoCall
<1> QED
  BY <1>3, <1>10, <1>11, <1>12 DEF IInv

(***************************************************************************)
(* The words of a written array and how the reader decodes them.           *)
(***************************************************************************)

LEMMA WrittenFacts ==
  ASSUME WriterIInv, NEW r \in written
  PROVE  /\ r.values \in Seq(Int) /\ Len(r.values) \in Nat
         /\ r.offset \in Nat
         /\ r.type \in IntTypes \cup FloatTypes
         /\ PushedWords(r) \in Seq(Words)
         /\ Len(PushedWords(r)) = Len(r.values) + Skipped(r)
         /\ r.chunk \in DOMAIN m_Chunks
<1>1. r \in WrittenType
  BY DEF WriterIInv, WriterTypeOK
<1>2. r.type \in IntTypes \cup FloatTypes /\ r.values \in Seq(Int)
      /\ r.offset \in Nat
  BY <1>1 DEF WrittenType
<1>3. /\ r.type \in IntTypes => r.values \in IntArrays
      /\ r.type \in FloatTypes => /\ r.values \in FloatArrays
                                  /\ r.unit \in Units
                                  /\ OutOfRange(r.values, r.unit, r.type) = {}
      /\ r.chunk \in DOMAIN m_Chunks
  BY DEF WriterIInv, WrittenInv
<1>4. /\ PushedWords(r) \in Seq(Words)
      /\ Len(PushedWords(r)) =
           Len(r.values) + IF r.type \in IntTypes THEN 0 ELSE 1
  BY <1>2, <1>3, PushedWordsType
<1> QED
  BY <1>2, <1>3, <1>4 DEF Skipped

\* The entry with the ID of a written array describes it.
LEMMA WrittenEntry ==
  ASSUME WriterIInv, NEW r \in written, NEW c \in DOMAIN m_Chunks,
         NEW k \in DOMAIN Table(c), Table(c)[k].m_EntryID = r.id
  PROVE  /\ r.chunk = c
         /\ Table(c)[k].m_EntryType = r.type
         /\ Table(c)[k].m_SizeInBytes = 4 * Len(PushedWords(r))
         /\ r.intact => Table(c)[k].m_PositionInChunk = 4 * r.offset
<1>1. r.chunk \in DOMAIN m_Chunks
  BY WrittenFacts
<1>2. PICK l \in DOMAIN Table(r.chunk) :
        /\ Table(r.chunk)[l].m_EntryID = r.id
        /\ Table(r.chunk)[l].m_EntryType = r.type
        /\ Table(r.chunk)[l].m_SizeInBytes = 4 * Len(PushedWords(r))
        /\ r.intact => Table(r.chunk)[l].m_PositionInChunk = 4 * r.offset
  BY DEF WriterIInv, WrittenInv
<1>3. c = r.chunk /\ k = l
  BY <1>1, <1>2 DEF WriterIInv, IDsInv
<1> QED
  BY <1>2, <1>3

\* A number of units in range is a word, which Wrap leaves alone.
LEMMA UnitsInRange ==
  ASSUME NEW f \in FloatArrays, NEW unit \in Units, NEW type \in FloatTypes,
         NEW i \in DOMAIN f, OutOfRange(f, unit, type) = {}
  PROVE  /\ FloatUnits(f, unit, type, i) \in Words
         /\ Wrap(FloatUnits(f, unit, type, i)) = FloatUnits(f, unit, type, i)
<1> DEFINE u == FloatUnits(f, unit, type, i)
<1>1. u \in Int
  BY FloatUnitsFacts
<1>2. DOMAIN f = 1 .. Len(f)
  BY ClientsAssumption
<1>3. ~(AbsValue(u) > MaxFloatUnits)
  BY <1>2 DEF OutOfRange
<1> HIDE DEF u
<1>4. u <= MaxFloatUnits /\ -MaxFloatUnits <= u
  BY <1>1, <1>3, SizesAssumption DEF AbsValue
<1>5. u \in Words /\ Wrap(u) = u
  BY <1>1, <1>4, SizesAssumption, ClientsAssumption DEF Words, Wrap
<1> QED
  BY <1>5 DEF u

\* Iteration n + 1 of the reader's loop undoes what the add call did to the
\* value n + 1 of the array.
LEMMA DecodeFacts ==
  ASSUME WriterIInv, NEW r \in written, NEW n \in Nat, n < Len(r.values)
  PROVE  LET word == PushedWords(r)[Skipped(r) + n + 1]
         IN  /\ r.type = INT32_NOPREDICTION => word = r.values[n + 1]
             /\ r.type = INT32_DELTA =>
                  Wrap(word + Held(r, n)) = r.values[n + 1]
             /\ r.type = FLOAT32_DELTA =>
                  Wrap(word + Held(r, n)) = Held(r, n + 1)
<1> DEFINE word == PushedWords(r)[Skipped(r) + n + 1]
<1>1. /\ r.values \in Seq(Int) /\ Len(r.values) \in Nat
      /\ n + 1 \in 1 .. Len(r.values)
      /\ DOMAIN r.values = 1 .. Len(r.values)
  BY WrittenFacts
<1>2. CASE r.type \in IntTypes
  <2>1. r.values \in IntArrays
    BY <1>2 DEF WriterIInv, WrittenInv
  <2>2. r.values \in Seq(Words)
    BY <2>1, ClientsAssumption
  <2>3. /\ PushedWords(r) = IntWords(r.values, r.type)
        /\ Skipped(r) = 0
    BY <1>2 DEF PushedWords, Skipped
  <2>4. word = IF r.type = INT32_DELTA /\ n + 1 > 1
                 THEN Wrap(r.values[n + 1] - r.values[n]) ELSE r.values[n + 1]
    BY <1>1, <2>3 DEF IntWords
  <2>5. CASE r.type = INT32_NOPREDICTION
    BY <2>4, <2>5 DEF INT32_NOPREDICTION, INT32_DELTA, FLOAT32_DELTA
  <2>6. CASE r.type = INT32_DELTA
    <3>1. r.values[n + 1] \in Words
      BY <1>1, <2>2
    <3>2. CASE n = 0
      <4>1. Held(r, n) = 0 /\ word = r.values[n + 1]
        BY <2>4, <3>2 DEF Held
      <4>2. Wrap(r.values[n + 1] + 0) = r.values[n + 1]
        BY <3>1, SizesAssumption DEF Words, Wrap
      <4> QED
        BY <2>6, <4>1, <4>2 DEF INT32_NOPREDICTION, INT32_DELTA, FLOAT32_DELTA
    <3>3. CASE n > 0
      <4>1. n \in DOMAIN r.values /\ r.values[n] \in Words
        BY <1>1, <2>2, <3>3
      <4>2. Held(r, n) = r.values[n]
        BY <2>6, <3>3 DEF Held
      <4>3. word = Wrap(r.values[n + 1] - r.values[n])
        BY <2>4, <2>6, <3>3
      <4>4. Wrap(word + Held(r, n)) = r.values[n + 1]
        BY <3>1, <4>1, <4>2, <4>3, WrapFacts
      <4> QED
        BY <2>6, <4>4 DEF INT32_NOPREDICTION, INT32_DELTA, FLOAT32_DELTA
    <3> QED
      BY <3>2, <3>3
  <2> QED
    BY <1>2, <2>5, <2>6 DEF IntTypes
<1>3. CASE r.type = FLOAT32_DELTA
  <2> DEFINE U(i) == FloatUnits(r.values, r.unit, r.type, i)
  <2>1. /\ r.type \in FloatTypes /\ r.type \notin IntTypes
        /\ r.type # FLOAT32_NOPREDICTION /\ r.type # INT32_DELTA
        /\ r.type # INT32_NOPREDICTION
    BY <1>3 DEF FloatTypes, IntTypes, INT32_NOPREDICTION, INT32_DELTA,
                FLOAT32_NOPREDICTION, FLOAT32_DELTA
  <2>2. /\ r.values \in FloatArrays /\ r.unit \in Units
        /\ OutOfRange(r.values, r.unit, r.type) = {}
    BY <2>1 DEF WriterIInv, WrittenInv
  <2>3. word = FloatWords(r.values, r.unit, r.type)[n + 1]
    <3> DEFINE fw == FloatWords(r.values, r.unit, r.type)
    <3>1. fw \in Seq(Words) /\ Len(fw) = Len(r.values)
      BY <2>1, <2>2, FloatWordsFacts
    <3>2. <<BitsOf(r.unit)>> \in Seq(Words) /\ Len(<<BitsOf(r.unit)>>) = 1
      BY <2>2, FloatAssumption
    <3>3. PushedWords(r) = <<BitsOf(r.unit)>> \o fw /\ Skipped(r) = 1
      BY <2>1 DEF PushedWords, Skipped
    <3> HIDE DEF fw
    <3>4. (<<BitsOf(r.unit)>> \o fw)[1 + (n + 1)] = fw[n + 1]
      BY <1>1, <3>1, <3>2, ConcatFacts
    <3>5. Skipped(r) + n + 1 = 1 + (n + 1)
      BY <3>3
    <3>6. word = fw[n + 1]
      BY <3>3, <3>4, <3>5
    <3> QED
      BY <3>6 DEF fw
  <2>4. FloatWords(r.values, r.unit, r.type)[n + 1] =
          IF n + 1 = 1 THEN U(1) ELSE Wrap(U(n + 1) - U(n))
    BY <1>1, <2>1 DEF FloatWords
  <2>5. \A i \in DOMAIN r.values : U(i) \in Words /\ Wrap(U(i)) = U(i)
    BY <2>1, <2>2, UnitsInRange
  <2>6. Held(r, n + 1) = U(n + 1) /\ Held(r, n) = IF n = 0 THEN 0 ELSE U(n)
    BY <2>1 DEF Held
  <2>7. /\ U(n + 1) \in Words /\ Wrap(U(n + 1)) = U(n + 1)
        /\ n > 0 => U(n) \in Words
    BY <1>1, <2>5
  <2> HIDE DEF U
  <2>8. Wrap(word + Held(r, n)) = U(n + 1)
    <3>1. CASE n = 0
      <4>1. word + Held(r, n) = U(n + 1)
        BY <2>3, <2>4, <2>6, <2>7, <3>1 DEF Words
      <4> QED
        BY <2>7, <4>1
    <3>2. CASE n > 0
      <4>1. word = Wrap(U(n + 1) - U(n)) /\ Held(r, n) = U(n)
        BY <2>3, <2>4, <2>6, <3>2
      <4> QED
        BY <2>7, <3>2, <4>1, WrapFacts
    <3> QED
      BY <3>1, <3>2
  <2> QED
    BY <2>1, <2>6, <2>7, <2>8
<1>4. CASE r.type = FLOAT32_NOPREDICTION
  BY <1>4 DEF INT32_NOPREDICTION, INT32_DELTA, FLOAT32_NOPREDICTION,
              FLOAT32_DELTA
<1> QED
  BY <1>2, <1>3, <1>4, WrittenFacts DEF FloatTypes

(***************************************************************************)
(* The steps of the reader.                                                *)
(***************************************************************************)

\* A call that failed was not asked for an intact array.
LEMMA FailedStep ==
  ASSUME NEW id, NEW kind, call' = Failed(id, kind),
         UNCHANGED written,
         \A r \in written : ~(r.id = id /\ KindOf(r.type) = kind /\ r.intact)
  PROVE  CallInv' /\ ReadInv'
<1>1. call'.phase = "error" /\ call'.id = id /\ call'.kind = kind
  BY DEF Failed, NoCall
<1>2. CallInv'
  BY <1>1 DEF CallInv
<1>3. ReadInv'
  BY <1>1 DEF ReadInv, Asked
<1> QED
  BY <1>2, <1>3

LEMMA FailedType ==
  ASSUME NEW id \in Nat, NEW kind \in Kinds
  PROVE  Failed(id, kind) \in CallType
<1>1. NoCall \in CallType
  BY SizesAssumption, FloatAssumption DEF NoCall, CallType, Kinds, Words
<1> QED
  BY <1>1 DEF Failed, CallType

\* What a reader step that leaves the entry tables alone has to show.
LEMMA ReaderFrame ==
  ASSUME IInv, UNCHANGED <<reader, m_ChunkEntries, m_ChunkMap, writerVars>>,
         reader = "open",
         m_Data' \in Seq(Seq(Words)), Len(m_Data') = Len(m_Data),
         m_bHasCachedData' \subseteq DOMAIN m_Chunks,
         \A c \in m_bHasCachedData' : m_Data'[c] = Loaded(c),
         call' \in CallType
  PROVE  TypeOK' /\ WriterIInv' /\ ReaderInv'
<1>1. /\ WriterIInv' /\ m_Chunks' = m_Chunks /\ m_bIsFinished' = m_bIsFinished
      /\ \A c : Table(c)' = Table(c) /\ Loaded(c)' = Loaded(c)
  BY WriterUnchanged DEF IInv, writerVars, chunkVars
<1>2. DOMAIN m_Chunks \subseteq Nat
  BY DEF IInv, WriterIInv, WriterTypeOK
<1>3. TypeOK'
  BY <1>1, <1>2 DEF IInv, TypeOK, WriterIInv
<1>4. /\ m_ChunkEntries' = [c \in DOMAIN m_Chunks |-> Table(c)]'
      /\ m_ChunkMap' = EntryPlaces(m_ChunkEntries)'
  BY <1>1 DEF IInv, ReaderInv, EntryPlaces
<1>5. Len(m_Data') = Len(m_Chunks')
  BY <1>1 DEF IInv, ReaderInv
<1>6. reader' = "open" /\ m_bIsFinished'
  BY <1>1 DEF IInv, ReaderInv
<1>7. ReaderInv'
  BY <1>1, <1>4, <1>5, <1>6 DEF ReaderInv
<1> QED
  BY <1>1, <1>3, <1>7

LEMMA ClearCacheStep ==
  ASSUME IInv, clearCache
  PROVE  IInv'
<1>1. /\ reader = "open" /\ call.phase # "reading"
      /\ m_Data' = [c \in DOMAIN m_Data |-> <<>>] /\ m_bHasCachedData' = {}
      /\ UNCHANGED <<reader, m_ChunkEntries, m_ChunkMap, call, writerVars>>
  BY DEF clearCache
<1>2. m_Data \in Seq(Seq(Words)) /\ call \in CallType
  BY DEF IInv, TypeOK
<1>3. m_Data' \in [1 .. Len(m_Data) -> Seq(Words)] /\ Len(m_Data) \in Nat
  BY <1>1, <1>2
<1>4. m_Data' \in Seq(Seq(Words)) /\ Len(m_Data') = Len(m_Data)
  BY <1>3, SeqOfFunction
<1>5. TypeOK' /\ WriterIInv' /\ ReaderInv'
  BY <1>1, <1>2, <1>4, ReaderFrame
<1>6. CallInv'
  BY <1>1 DEF CallInv
<1>7. ReadInv'
  <2>1. call' = call /\ written' = written
    BY <1>1 DEF writerVars
  <2> QED
    BY <1>1, <2>1 DEF IInv, ReadInv, Asked
<1> QED
  BY <1>5, <1>6, <1>7 DEF IInv

LEMMA ReadReturnsStep ==
  ASSUME IInv, readReturns
  PROVE  IInv'
<1>1. /\ call.phase = "reading" /\ Len(call.out) = call.count
      /\ call' = [call EXCEPT !.phase = "done"]
      /\ UNCHANGED <<reader, m_ChunkEntries, m_ChunkMap, m_bHasCachedData,
                     m_Data, writerVars>>
  BY DEF readReturns
<1>2. reader = "open"
  BY <1>1 DEF IInv, ReaderInv, NoCall
<1>3. call' \in CallType
  BY <1>1 DEF IInv, TypeOK, CallType
<1>4. /\ call'.phase = "done" /\ call'.id = call.id /\ call'.kind = call.kind
      /\ call'.out = call.out /\ call'.count = call.count
  BY <1>1 DEF IInv, TypeOK, CallType
<1>5. TypeOK' /\ WriterIInv' /\ ReaderInv'
  BY <1>1, <1>2, <1>3, ReaderFrame DEF IInv, TypeOK, ReaderInv
<1>6. CallInv'
  BY <1>4 DEF CallInv
<1>7. ReadInv'
  <2>1. written' = written
    BY <1>1 DEF writerVars
  <2>2. ASSUME NEW r \in written, (Asked(r) /\ r.intact)'
        PROVE  /\ call'.count = Len(r.values)
               /\ \A i \in DOMAIN call'.out :
                    /\ r.type \in IntTypes => call'.out[i] = r.values[i]
                    /\ r.type = FLOAT32_DELTA =>
                         call'.out[i] = Product(Held(r, i), r.unit)
    <3>1. Asked(r) /\ r.intact
      BY <1>4, <2>2 DEF Asked
    <3> QED
      BY <1>1, <1>4, <3>1 DEF IInv, ReadInv
  <2> QED
    BY <1>1, <1>4, <2>1, <2>2 DEF ReadInv, Held
<1> QED
  BY <1>5, <1>6, <1>7 DEF IInv

\* The word the loop reads next, when the call was asked for an intact array.
LEMMA NextWord ==
  ASSUME IInv, call.phase = "reading", Len(call.out) < call.count,
         NEW r \in written, Asked(r), r.intact
  PROVE  /\ call.pos + 4 <= call.end
         /\ Len(call.out) \in Nat /\ Len(call.out) < Len(r.values)
         /\ m_Data[call.chunk][(call.pos \div 4) + 1] =
              PushedWords(r)[Skipped(r) + Len(call.out) + 1]
<1> DEFINE n == Len(call.out)
           o == r.offset
           s == Skipped(r)
           v == Len(r.values)
           c == r.chunk
<1>1. WriterIInv /\ call \in CallType
  BY DEF IInv, TypeOK
<1>2. n \in Nat /\ s \in 0 .. 1
  BY <1>1 DEF CallType, Skipped
<1>3. /\ o \in Nat /\ v \in Nat /\ c \in DOMAIN m_Chunks
      /\ PushedWords(r) \in Seq(Words)
      /\ Len(PushedWords(r)) = v + s
  BY <1>1, WrittenFacts
<1>4. /\ call.count = v /\ call.chunk = c
      /\ call.pos = 4 * (o + s + n)
      /\ call.end = 4 * (o + Len(PushedWords(r)))
  BY DEF IInv, ReadInv
<1>5. /\ \A i \in DOMAIN PushedWords(r) : Data(c)[o + i] = PushedWords(r)[i]
      /\ reader = "open" /\ c \in m_bHasCachedData
      /\ call.end <= 4 * Len(m_Data[c])
  BY <1>1, <1>4
     DEF WriterIInv, WrittenInv, IInv, CallInv, ReaderInv, NoCall
<1>6. /\ m_Data[c] = Loaded(c)
      /\ \A i \in 1 .. Len(Loaded(c)) : Loaded(c)[i] = Data(c)[i]
      /\ Len(Loaded(c)) \in Nat
  BY <1>1, <1>3, <1>5, LoadFacts DEF IInv, ReaderInv
<1>7. /\ s + n + 1 \in DOMAIN PushedWords(r)
      /\ call.pos \div 4 = o + s + n
      /\ call.pos + 4 <= call.end
      /\ o + s + n + 1 \in 1 .. Len(Loaded(c))
  <2>1. /\ n < v /\ call.end = 4 * (o + v + s)
        /\ 4 * (o + v + s) <= 4 * Len(Loaded(c))
        /\ DOMAIN PushedWords(r) = 1 .. v + s
    <3>1. /\ n < v /\ call.end = 4 * (o + (v + s))
          /\ 4 * (o + (v + s)) <= 4 * Len(Loaded(c))
          /\ DOMAIN PushedWords(r) = 1 .. v + s
      BY <1>3, <1>4, <1>5, <1>6
    <3> HIDE DEF n, o, s, v, c
    <3>2. o + (v + s) = o + v + s
      BY <1>2, <1>3
    <3> QED
      BY <3>1, <3>2
  <2> DEFINE m == Len(Loaded(c))
  <2> HIDE DEF n, o, s, v, c, m
  <2>2. m \in Nat /\ 4 * (o + v + s) <= 4 * m
    BY <1>6, <2>1 DEF m
  <2>3. s + n + 1 \in 1 .. v + s /\ o + s + n + 1 \in 1 .. m
    BY <1>2, <1>3, <2>1, <2>2
  <2>4. (4 * (o + s + n)) \div 4 = o + s + n
    BY <1>2, <1>3
  <2> QED
    BY <1>2, <1>3, <1>4, <2>1, <2>3, <2>4 DEF m
<1>8. m_Data[c][o + s + n + 1] = PushedWords(r)[s + n + 1]
  <2>1. m_Data[c][o + s + n + 1] = Data(c)[o + s + n + 1]
    BY <1>6, <1>7
  <2>2. o + s + n + 1 = o + (s + n + 1)
    <3> HIDE DEF n, o, s
    <3> QED
      BY <1>2, <1>3
  <2> QED
    BY <1>5, <1>7, <2>1, <2>2
<1> QED
  BY <1>2, <1>3, <1>4, <1>7, <1>8

LEMMA ReadValueStep ==
  ASSUME IInv, readValue
  PROVE  IInv'
<1>1. /\ call.phase = "reading" /\ Len(call.out) < call.count
      /\ UNCHANGED <<reader, m_ChunkEntries, m_ChunkMap, m_bHasCachedData,
                     m_Data, writerVars>>
      /\ written' = written
  BY DEF readValue, writerVars
<1>2. reader = "open" /\ call \in CallType
  BY <1>1 DEF IInv, ReaderInv, NoCall, TypeOK
<1>3. SUFFICES ASSUME call' \in CallType => TypeOK' /\ WriterIInv' /\ ReaderInv'
               PROVE  IInv'
  BY <1>1, <1>2, ReaderFrame DEF IInv, TypeOK, ReaderInv
<1>4. CASE call.pos + 4 > call.end
  <2>1. call' = Failed(call.id, call.kind)
    BY <1>4 DEF readValue
  <2>2. call' \in CallType
    BY <1>2, <2>1, FailedType DEF CallType
  <2>3. ASSUME NEW r \in written,
               r.id = call.id /\ KindOf(r.type) = call.kind /\ r.intact
        PROVE  FALSE
    <3>1. call.pos + 4 <= call.end
      BY <1>1, <2>3, NextWord DEF Asked
    <3>2. call.pos \in Nat /\ call.end \in Nat
      BY <1>2 DEF CallType
    <3> QED
      BY <1>4, <3>1, <3>2
  <2>4. CallInv' /\ ReadInv'
    BY <1>1, <2>1, <2>3, FailedStep
  <2> QED
    BY <1>3, <2>2, <2>4 DEF IInv
<1>5. CASE ~(call.pos + 4 > call.end)
  <2> DEFINE word == m_Data[call.chunk][(call.pos \div 4) + 1]
             value == DecodedWord(word)
             n == Len(call.out)
  <2>1. call' = [call EXCEPT !.pos = call.pos + 4, !.last = value,
                             !.out = Append(call.out, Delivered(value))]
    BY <1>5 DEF readValue
  <2>2. /\ call.pos \in Nat /\ call.end \in Nat /\ call.last \in Words
        /\ call.unit \in {FloatOf(w) : w \in Words}
        /\ call.out \in Seq(Int) /\ n \in Nat
        /\ call.count \in Nat
    BY <1>2 DEF CallType
  <2>3. /\ call.chunk \in m_bHasCachedData /\ call.pos % 4 = 0
        /\ call.end <= 4 * Len(m_Data[call.chunk])
        /\ call.chunk \in DOMAIN m_Data
        /\ m_Data[call.chunk] \in Seq(Words)
    <3>1. /\ call.chunk \in m_bHasCachedData /\ call.pos % 4 = 0
          /\ call.end <= 4 * Len(m_Data[call.chunk])
      BY <1>1 DEF IInv, CallInv
    <3>2. /\ m_bHasCachedData \subseteq DOMAIN m_Chunks
          /\ Len(m_Data) = Len(m_Chunks)
          /\ m_Data \in Seq(Seq(Words)) /\ m_Chunks \in Seq(ChunkType)
      BY <1>2 DEF IInv, ReaderInv, TypeOK, WriterTypeOK
    <3>3. call.chunk \in DOMAIN m_Data
      BY <3>1, <3>2
    <3> QED
      BY <3>1, <3>2, <3>3
  <2>4. word \in Words
    <3>1. (call.pos \div 4) + 1 \in 1 .. Len(m_Data[call.chunk])
      <4> DEFINE p == call.pos
                 l == Len(m_Data[call.chunk])
      <4>1. p \in Nat /\ l \in Nat /\ p % 4 = 0 /\ p + 4 <= 4 * l
        BY <1>5, <2>2, <2>3
      <4> HIDE DEF p, l
      <4>2. (p \div 4) + 1 \in 1 .. l
        BY <4>1
      <4> QED
        BY <4>2 DEF p, l
    <3> QED
      BY <2>3, <3>1
  <2> HIDE DEF word
  <2>5. value \in Words
    BY <2>2, <2>4, WrapFacts DEF DecodedWord
  <2>6. Delivered(value) \in Int
    <3>1. CASE call.kind = "int"
      BY <2>5, <3>1, SizesAssumption DEF Delivered, Words
    <3>2. CASE call.kind # "int"
      <4>1. PICK w \in Words : call.unit = FloatOf(w)
        BY <2>2
      <4> QED
        BY <2>5, <3>2, <4>1, FloatAssumption DEF Delivered
    <3> QED
      BY <3>1, <3>2
  <2> HIDE DEF value
  <2>7. call' \in CallType
    <3> DEFINE out == Append(call.out, Delivered(value))
    <3>1. out \in Seq(Int) /\ call.pos + 4 \in Nat
      BY <2>2, <2>6
    <3> HIDE DEF out
    <3>2. call' = [call EXCEPT !.pos = call.pos + 4, !.last = value,
                               !.out = out]
      BY <2>1 DEF out
    <3> QED
      BY <1>2, <2>5, <3>1, <3>2 DEF CallType
  <2>8. /\ call'.phase = "reading" /\ call'.id = call.id
        /\ call'.kind = call.kind /\ call'.chunk = call.chunk
        /\ call'.type = call.type /\ call'.pos = call.pos + 4
        /\ call'.end = call.end /\ call'.count = call.count
        /\ call'.unit = call.unit /\ call'.last = value
        /\ call'.out = Append(call.out, Delivered(value))
    BY <1>1, <1>2, <2>1 DEF CallType
  <2>9. /\ Len(call'.out) = n + 1 /\ DOMAIN call'.out = 1 .. n + 1
        /\ \A i \in 1 .. n : call'.out[i] = call.out[i]
        /\ call'.out[n + 1] = Delivered(value)
        /\ DOMAIN call.out = 1 .. n
    BY <2>2, <2>6, <2>8
  <2>10. CallInv'
    <3>1. (call.pos + 4) % 4 = 0
      BY <2>2, <2>3
    <3>2. n + 1 <= call.count
      BY <1>1, <2>2
    <3> QED
      BY <1>1, <2>3, <2>8, <2>9, <3>1, <3>2 DEF CallInv
  <2>11. ASSUME NEW r \in written, Asked(r)', r.intact
         PROVE  /\ call'.phase # "error"
                /\ call'.count = Len(r.values)
                /\ \A i \in DOMAIN call'.out :
                     /\ r.type \in IntTypes => call'.out[i] = r.values[i]
                     /\ r.type = FLOAT32_DELTA =>
                          call'.out[i] = Product(Held(r, i), r.unit)
                /\ call'.phase # "done"
                /\ call'.chunk = r.chunk
                /\ call'.type = r.type
                /\ r.type \in FloatTypes => call'.unit = r.unit
                /\ call'.pos = 4 * (r.offset + Skipped(r) + Len(call'.out))
                /\ call'.end = 4 * (r.offset + Len(PushedWords(r)))
                /\ r.type \in {INT32_DELTA, FLOAT32_DELTA} =>
                     call'.last = Held(r, Len(call'.out))
    <3>1. Asked(r)
      BY <2>8, <2>11 DEF Asked
    <3>2. /\ call.count = Len(r.values)
          /\ \A i \in DOMAIN call.out :
               /\ r.type \in IntTypes => call.out[i] = r.values[i]
               /\ r.type = FLOAT32_DELTA =>
                    call.out[i] = Product(Held(r, i), r.unit)
          /\ call.chunk = r.chunk
          /\ call.type = r.type
          /\ r.type \in FloatTypes => call.unit = r.unit
          /\ call.pos = 4 * (r.offset + Skipped(r) + n)
          /\ call.end = 4 * (r.offset + Len(PushedWords(r)))
          /\ r.type \in {INT32_DELTA, FLOAT32_DELTA} => call.last = Held(r, n)
      BY <1>1, <2>11, <3>1 DEF IInv, ReadInv
    <3>3. /\ n < Len(r.values)
          /\ word = PushedWords(r)[Skipped(r) + n + 1]
      BY <1>1, <2>11, <3>1, NextWord DEF word
    <3>4. /\ r.type = INT32_NOPREDICTION => word = r.values[n + 1]
          /\ r.type = INT32_DELTA => Wrap(word + Held(r, n)) = r.values[n + 1]
          /\ r.type = FLOAT32_DELTA =>
               Wrap(word + Held(r, n)) = Held(r, n + 1)
      BY <2>2, <3>3, DecodeFacts DEF IInv
    <3>5. /\ r.type \in IntTypes => value = r.values[n + 1]
          /\ r.type \in {INT32_DELTA, FLOAT32_DELTA} => value = Held(r, n + 1)
      BY <2>2, <3>2, <3>4
         DEF value, DecodedWord, IntTypes, Held, INT32_NOPREDICTION,
             INT32_DELTA, FLOAT32_DELTA
    <3>6. /\ r.type \in IntTypes => Delivered(value) = r.values[n + 1]
          /\ r.type = FLOAT32_DELTA =>
               Delivered(value) = Product(Held(r, n + 1), r.unit)
      BY <3>1, <3>2, <3>5 DEF Asked, KindOf, Delivered, IntTypes, FloatTypes,
         INT32_NOPREDICTION, INT32_DELTA, FLOAT32_DELTA
    <3>7. r.offset \in Nat /\ Skipped(r) \in Nat
      BY WrittenFacts DEF IInv, Skipped
    <3>8. call'.pos = 4 * (r.offset + Skipped(r) + Len(call'.out))
      <4> DEFINE b == r.offset + Skipped(r)
      <4>1. b \in Nat /\ call'.pos = 4 * (b + n) + 4 /\ Len(call'.out) = n + 1
        BY <2>8, <2>9, <3>2, <3>7, SMTT(60)
      <4> HIDE DEF b, n
      <4>2. 4 * (b + n) + 4 = 4 * (b + (n + 1))
        BY <2>2, <4>1
      <4> QED
        BY <4>1, <4>2 DEF b
    <3>9. ASSUME NEW i \in DOMAIN call'.out
          PROVE  /\ r.type \in IntTypes => call'.out[i] = r.values[i]
                 /\ r.type = FLOAT32_DELTA =>
                      call'.out[i] = Product(Held(r, i), r.unit)
      <4>1. CASE i \in 1 .. n
        BY <2>9, <3>2, <4>1
      <4>2. CASE i = n + 1
        BY <2>9, <3>6, <4>2
      <4> QED
        BY <2>2, <2>9, <4>1, <4>2
    <3> QED
      BY <2>8, <2>9, <3>2, <3>5, <3>8, <3>9
  <2>12. ReadInv'
    BY <1>1, <2>8, <2>11 DEF ReadInv, Held, Skipped, PushedWords
  <2> QED
    BY <1>3, <2>7, <2>10, <2>12 DEF IInv
<1> QED
  BY <1>4, <1>5

\* The call that readArray starts on entry k of chunk c.
StartedCall(id, kind, c, k) ==
  LET entry == Table(c)[k]
      start == entry.m_PositionInChunk
  IN  [NoCall EXCEPT
         !.phase = "reading", !.id = id, !.kind = kind,
         !.chunk = c, !.type = entry.m_EntryType,
         !.count = ValueCount(entry),
         !.end = start + entry.m_SizeInBytes,
         !.unit = IF kind = "int" THEN 0
                  ELSE FloatOf(Loaded(c)[(start \div 4) + 1]),
         !.pos = IF kind = "int" THEN start ELSE start + 4]

LEMMA StartedCallFacts ==
  ASSUME NEW id, NEW kind, NEW c, NEW k
  PROVE  LET new == StartedCall(id, kind, c, k)
             entry == Table(c)[k]
             start == entry.m_PositionInChunk
         IN  /\ new.phase = "reading" /\ new.id = id /\ new.kind = kind
             /\ new.chunk = c /\ new.type = entry.m_EntryType
             /\ new.count = ValueCount(entry)
             /\ new.end = start + entry.m_SizeInBytes
             /\ new.unit = IF kind = "int" THEN 0
                           ELSE FloatOf(Loaded(c)[(start \div 4) + 1])
             /\ new.pos = IF kind = "int" THEN start ELSE start + 4
             /\ new.last = 0 /\ new.out = <<>>
  BY DEF StartedCall, NoCall

LEMMA StartedCallType ==
  ASSUME WriterIInv, ReaderInv, reader = "open", NEW c \in DOMAIN m_Chunks,
         NEW k \in DOMAIN Table(c), NEW id \in Nat,
         NEW kind, kind = KindOf(Table(c)[k].m_EntryType)
  PROVE  /\ StartedCall(id, kind, c, k) \in CallType
         /\ StartedCall(id, kind, c, k).pos % 4 = 0
         /\ StartedCall(id, kind, c, k).end <= 4 * Len(Loaded(c))
<1> DEFINE entry == Table(c)[k]
           start == entry.m_PositionInChunk
           size == entry.m_SizeInBytes
           l == Len(Loaded(c))
           unit == IF kind = "int" THEN 0
                   ELSE FloatOf(Loaded(c)[(start \div 4) + 1])
           pos == IF kind = "int" THEN start ELSE start + 4
           count == ValueCount(entry)
           end == start + size
<1>1. /\ entry \in EntryType /\ start \in Nat /\ size \in Nat
      /\ start % 4 = 0 /\ size % 4 = 0
      /\ size >= IF entry.m_EntryType \in IntTypes THEN 4 ELSE 8
      /\ start + size <= 4 * l
  BY EntryLayout
<1>2. Loaded(c) \in Seq(Words) /\ l \in Nat
  BY LoadFacts
<1>3. c \in Nat
  BY DEF WriterIInv, WriterTypeOK
<1>4. /\ kind \in Kinds /\ entry.m_EntryType \in IntTypes \cup FloatTypes
      /\ kind # "int" => size >= 8
  BY <1>1 DEF KindOf, Kinds, EntryType
<1>5. count \in Nat
  BY <1>1 DEF ValueCount
<1>6. unit \in {FloatOf(w) : w \in Words}
  <2>1. CASE kind = "int"
    BY <2>1, SizesAssumption, FloatAssumption DEF Words
  <2>2. CASE kind # "int"
    <3>1. (start \div 4) + 1 \in 1 .. l
      <4> HIDE DEF start, size, l
      <4> QED
        BY <1>1, <1>2, <1>4, <2>2
    <3> QED
      BY <1>2, <2>2, <3>1
  <2> QED
    BY <2>1, <2>2
<1>7. pos \in Nat /\ pos % 4 = 0 /\ end \in Nat
  BY <1>1
<1>8. StartedCall(id, kind, c, k) =
        [NoCall EXCEPT
           !.phase = "reading", !.id = id, !.kind = kind, !.chunk = c,
           !.type = entry.m_EntryType, !.count = count, !.end = end,
           !.unit = unit, !.pos = pos]
  BY Zenon DEF StartedCall
<1>9. NoCall \in CallType
  BY SizesAssumption, FloatAssumption DEF NoCall, CallType, Kinds, Words
<1>10. StartedCall(id, kind, c, k) \in CallType
  <2> DEFINE type == entry.m_EntryType
  <2>1. type \in IntTypes \cup FloatTypes
    BY <1>4
  <2> HIDE DEF entry, count, end, unit, pos, type
  <2> QED
    BY <1>3, <1>4, <1>5, <1>6, <1>7, <1>8, <1>9, <2>1, ZenonT(60) DEF CallType, type
<1> QED
  BY <1>1, <1>7, <1>10, StartedCallFacts

\* The new call is at the first word of an intact array it was asked for.
LEMMA StartedCallReads ==
  ASSUME WriterIInv, ReaderInv, reader = "open", NEW c \in DOMAIN m_Chunks,
         NEW k \in DOMAIN Table(c),
         NEW kind, kind = KindOf(Table(c)[k].m_EntryType),
         NEW r \in written, r.id = Table(c)[k].m_EntryID, r.intact
  PROVE  LET new == StartedCall(r.id, kind, c, k)
         IN  /\ new.count = Len(r.values)
             /\ new.chunk = r.chunk
             /\ new.type = r.type
             /\ r.type \in FloatTypes => new.unit = r.unit
             /\ new.pos = 4 * (r.offset + Skipped(r))
             /\ new.end = 4 * (r.offset + Len(PushedWords(r)))
<1> DEFINE entry == Table(c)[k]
           o == r.offset
           v == Len(r.values)
           w == Len(PushedWords(r))
<1>1. /\ r.chunk = c /\ entry.m_EntryType = r.type
      /\ entry.m_SizeInBytes = 4 * w
      /\ entry.m_PositionInChunk = 4 * o
  BY WrittenEntry
<1>2. /\ o \in Nat /\ v \in Nat /\ w = v + Skipped(r)
      /\ r.type \in IntTypes \cup FloatTypes
      /\ PushedWords(r) \in Seq(Words) /\ w \in Nat
  BY WrittenFacts
<1>3. Skipped(r) = IF kind = "int" THEN 0 ELSE 1
  BY <1>1, <1>2 DEF KindOf, Skipped
<1>4. ValueCount(entry) = v
  <2>1. CASE r.type \in IntTypes
    <3>1. ValueCount(entry) = (4 * w) \div 4 /\ w = v
      BY <1>1, <1>2, <2>1 DEF ValueCount, Skipped
    <3> HIDE DEF w, v, entry
    <3> QED
      BY <1>2, <3>1
  <2>2. CASE r.type \notin IntTypes
    <3>1. ValueCount(entry) = (4 * w - 4) \div 4 /\ w = v + 1
      BY <1>1, <1>2, <2>2 DEF ValueCount, Skipped
    <3> HIDE DEF w, v, entry
    <3> QED
      BY <1>2, <3>1
  <2> QED
    BY <2>1, <2>2
<1>5. ASSUME r.type \in FloatTypes
      PROVE  FloatOf(Loaded(c)[((4 * o) \div 4) + 1]) = r.unit
  <2>1. r.type \notin IntTypes
    BY <1>5 DEF IntTypes, FloatTypes, INT32_NOPREDICTION, INT32_DELTA,
                FLOAT32_NOPREDICTION, FLOAT32_DELTA
  <2>2. PushedWords(r)[1] = BitsOf(r.unit) /\ 1 \in DOMAIN PushedWords(r)
    <3>1. PushedWords(r) = <<BitsOf(r.unit)>> \o FloatWords(r.values, r.unit, r.type)
      BY <2>1 DEF PushedWords
    <3>2. /\ BitsOf(r.unit) \in Words
          /\ FloatWords(r.values, r.unit, r.type) \in Seq(Words)
      <4>1. /\ r.values \in FloatArrays /\ r.unit \in Units
            /\ OutOfRange(r.values, r.unit, r.type) = {}
        BY <1>5 DEF WriterIInv, WrittenInv
      <4> QED
        BY <1>5, <4>1, FloatWordsFacts, FloatAssumption
    <3> HIDE DEF FloatWords
    <3> QED
      BY <3>1, <3>2
  <2>3. Data(c)[o + 1] = BitsOf(r.unit)
    BY <1>1, <2>2 DEF WriterIInv, WrittenInv
  <2>4. o + 1 \in 1 .. Len(Loaded(c))
    <3> DEFINE l == Len(Loaded(c))
    <3>1. 4 * o + 4 * w <= 4 * l /\ l \in Nat /\ w >= 1
      BY <1>1, <1>2, <2>2, EntryLayout, LoadFacts
    <3> HIDE DEF o, w, l
    <3>2. o + 1 \in 1 .. l
      BY <1>2, <3>1, SMTT(60)
    <3> QED
      BY <3>2 DEF l
  <2>5. (4 * o) \div 4 = o
    <3> HIDE DEF o
    <3> QED
      BY <1>2
  <2>6. Loaded(c)[o + 1] = BitsOf(r.unit)
    BY <2>3, <2>4, LoadFacts
  <2>7. FloatOf(BitsOf(r.unit)) = r.unit
    BY <1>5, FloatAssumption DEF WriterIInv, WrittenInv
  <2> QED
    BY <2>5, <2>6, <2>7
<1>6. /\ 4 * o + 4 * w = 4 * (o + w)
      /\ 4 * o = 4 * (o + 0)
      /\ 4 * o + 4 = 4 * (o + 1)
  <2> HIDE DEF o, w
  <2> QED
    BY <1>2
<1>7. r.type \in FloatTypes => kind # "int"
  BY <1>1 DEF KindOf, IntTypes, FloatTypes, INT32_NOPREDICTION, INT32_DELTA,
              FLOAT32_NOPREDICTION, FLOAT32_DELTA
<1> DEFINE new == StartedCall(r.id, kind, c, k)
<1>8. /\ new.count = ValueCount(entry) /\ new.chunk = c
      /\ new.type = entry.m_EntryType
      /\ new.end = entry.m_PositionInChunk + entry.m_SizeInBytes
      /\ new.unit = IF kind = "int" THEN 0
                    ELSE FloatOf(Loaded(c)[(entry.m_PositionInChunk \div 4) + 1])
      /\ new.pos = IF kind = "int" THEN entry.m_PositionInChunk
                   ELSE entry.m_PositionInChunk + 4
  BY StartedCallFacts
<1> HIDE DEF new, entry
<1> QED
  BY <1>1, <1>3, <1>4, <1>5, <1>6, <1>7, <1>8 DEF new

LEMMA ReadArrayStep ==
  ASSUME IInv, NEW id \in Nat, NEW kind \in Kinds, readArray(id, kind)
  PROVE  IInv'
<1>1. /\ reader = "open" /\ call.phase # "reading"
      /\ UNCHANGED <<reader, m_ChunkEntries, m_ChunkMap, writerVars>>
      /\ written' = written
  BY DEF readArray, writerVars
<1>2. /\ WriterIInv /\ ReaderInv
      /\ m_Data \in Seq(Seq(Words)) /\ Len(m_Data) = Len(m_Chunks)
      /\ m_Chunks \in Seq(ChunkType)
      /\ m_bHasCachedData \subseteq DOMAIN m_Chunks
      /\ \A c \in m_bHasCachedData : m_Data[c] = Loaded(c)
  BY <1>1 DEF IInv, TypeOK, ReaderInv, WriterTypeOK
<1>3. m_ChunkMap = EntryPlaces([c \in DOMAIN m_Chunks |-> Table(c)])
  BY <1>1, <1>2 DEF ReaderInv
<1>4. CASE /\ \A p \in m_ChunkMap : p[1] = id =>
                \/ KindOf(m_ChunkEntries[p[2]][p[3]].m_EntryType) # kind
                \/ LoadThrows(p[2])
           /\ call' = Failed(id, kind)
           /\ UNCHANGED <<m_bHasCachedData, m_Data>>
  <2>1. TypeOK' /\ WriterIInv' /\ ReaderInv'
    <3>1. call' \in CallType
      BY <1>4, FailedType
    <3> QED
      BY <1>1, <1>2, <1>4, <3>1, ReaderFrame
  <2>2. ASSUME NEW r \in written,
               r.id = id /\ KindOf(r.type) = kind /\ r.intact
        PROVE  FALSE
    <3>1. r.chunk \in DOMAIN m_Chunks
      BY <1>2, WrittenFacts
    <3>2. PICK k \in DOMAIN Table(r.chunk) :
            /\ Table(r.chunk)[k].m_EntryID = r.id
            /\ Table(r.chunk)[k].m_EntryType = r.type
      BY <1>2 DEF WriterIInv, WrittenInv
    <3>3. <<id, r.chunk, k>> \in m_ChunkMap
      BY <1>3, <2>2, <3>1, <3>2 DEF EntryPlaces
    <3>4. m_ChunkEntries[r.chunk] = Table(r.chunk)
      BY <1>1, <1>2, <3>1 DEF ReaderInv
    <3>5. ~LoadThrows(r.chunk)
      BY <1>1, <1>2, <3>1, LoadFacts
    <3>6. KindOf(m_ChunkEntries[r.chunk][k].m_EntryType) # kind
      BY <1>4, <3>3, <3>5
    <3> QED
      BY <2>2, <3>2, <3>4, <3>6
  <2>3. CallInv' /\ ReadInv'
    BY <1>1, <1>4, <2>2, FailedStep
  <2> QED
    BY <2>1, <2>3 DEF IInv
<1>5. ASSUME NEW p \in m_ChunkMap, p[1] = id,
             KindOf(m_ChunkEntries[p[2]][p[3]].m_EntryType) = kind,
             m_bHasCachedData' = m_bHasCachedData \cup {p[2]},
             m_Data' = [m_Data EXCEPT ![p[2]] = LoadedData(p[2])],
             call' =
               IF SeekThrows(p[2], p[3], LoadedData(p[2])) THEN Failed(id, kind)
               ELSE [NoCall EXCEPT
                       !.phase = "reading", !.id = id, !.kind = kind,
                       !.chunk = p[2],
                       !.type = m_ChunkEntries[p[2]][p[3]].m_EntryType,
                       !.count = ValueCount(m_ChunkEntries[p[2]][p[3]]),
                       !.end = EndPosition(p[2], p[3], LoadedData(p[2])),
                       !.unit =
                         IF kind = "int" THEN 0
                         ELSE FloatOf(LoadedData(p[2])[(m_ChunkEntries[p[2]][p[3]].m_PositionInChunk \div 4) + 1]),
                       !.pos =
                         IF kind = "int"
                           THEN m_ChunkEntries[p[2]][p[3]].m_PositionInChunk
                         ELSE m_ChunkEntries[p[2]][p[3]].m_PositionInChunk + 4]
      PROVE  IInv'
  <2>1. PICK c \in DOMAIN m_Chunks :
          \E k \in DOMAIN Table(c) : p = <<Table(c)[k].m_EntryID, c, k>>
    BY <1>3 DEF EntryPlaces
  <2>2. PICK k \in DOMAIN Table(c) : p = <<Table(c)[k].m_EntryID, c, k>>
    BY <2>1
  <2>3. p[2] = c /\ p[3] = k /\ Table(c)[k].m_EntryID = id
    BY <1>5, <2>2
  <2>4. /\ m_ChunkEntries[c] = Table(c)
        /\ LoadedData(c) = Loaded(c)
        /\ ~SeekThrows(c, k, Loaded(c))
        /\ EndPosition(c, k, Loaded(c)) =
             Table(c)[k].m_PositionInChunk + Table(c)[k].m_SizeInBytes
        /\ Loaded(c) \in Seq(Words)
    BY <1>1, <1>2, EntryLayout, LoadFacts
  <2>5. kind = KindOf(Table(c)[k].m_EntryType)
    BY <1>5, <2>3, <2>4
  <2>6. call' = StartedCall(id, kind, c, k)
    BY <1>5, <2>3, <2>4, Zenon DEF StartedCall
  <2>7. /\ m_bHasCachedData' = m_bHasCachedData \cup {c}
        /\ m_Data' = [m_Data EXCEPT ![c] = Loaded(c)]
    BY <1>5, <2>3, <2>4
  <2>8. c \in DOMAIN m_Data /\ DOMAIN m_Data = 1 .. Len(m_Data)
    BY <1>2
  <2>9. /\ m_Data' \in Seq(Seq(Words)) /\ Len(m_Data') = Len(m_Data)
        /\ m_bHasCachedData' \subseteq DOMAIN m_Chunks
        /\ \A d \in m_bHasCachedData' : m_Data'[d] = Loaded(d)
    <3>1. /\ m_Data' \in Seq(Seq(Words)) /\ Len(m_Data') = Len(m_Data)
      BY <1>2, <2>4, <2>7, <2>8
    <3>2. ASSUME NEW d \in m_bHasCachedData'
          PROVE  d \in DOMAIN m_Chunks /\ m_Data'[d] = Loaded(d)
      <4>1. d \in DOMAIN m_Chunks /\ d \in DOMAIN m_Data
        BY <1>2, <2>7, <2>8
      <4>2. CASE d = c
        BY <2>7, <2>8, <4>1, <4>2
      <4>3. CASE d # c
        BY <1>2, <2>7, <2>8, <4>1, <4>3
      <4> QED
        BY <4>2, <4>3
    <3> QED
      BY <3>1, <3>2
  <2>10. /\ call' \in CallType
         /\ call'.pos % 4 = 0
         /\ call'.end <= 4 * Len(Loaded(c))
    BY <1>1, <1>2, <2>5, <2>6, StartedCallType
  <2>11. /\ call'.phase = "reading" /\ call'.id = id /\ call'.kind = kind
         /\ call'.chunk = c /\ call'.last = 0 /\ call'.out = <<>>
    BY <2>6, StartedCallFacts
  <2>12. TypeOK' /\ WriterIInv' /\ ReaderInv'
    BY <1>1, <2>9, <2>10, ReaderFrame
  <2>13. CallInv'
    <3>1. m_Data'[c] = Loaded(c) /\ c \in m_bHasCachedData'
      BY <2>7, <2>8
    <3>2. 0 <= call'.count
      BY <2>10 DEF CallType
    <3> QED
      BY <2>10, <2>11, <3>1, <3>2 DEF CallInv
  <2>14. ASSUME NEW r \in written, Asked(r)', r.intact
         PROVE  /\ call'.count = Len(r.values)
                /\ call'.chunk = r.chunk
                /\ call'.type = r.type
                /\ r.type \in FloatTypes => call'.unit = r.unit
                /\ call'.pos = 4 * (r.offset + Skipped(r) + Len(call'.out))
                /\ call'.end = 4 * (r.offset + Len(PushedWords(r)))
                /\ call'.last = Held(r, Len(call'.out))
    <3>1. r.id = id
      BY <2>11, <2>14 DEF Asked
    <3>2. r.offset \in Nat /\ Skipped(r) \in Nat
      BY <1>2, WrittenFacts DEF Skipped
    <3>3. r.offset + Skipped(r) + 0 = r.offset + Skipped(r)
      BY <3>2
    <3>4. Len(call'.out) = 0 /\ Held(r, 0) = 0
      BY <2>11 DEF Held
    <3>5. /\ call'.count = Len(r.values)
          /\ call'.chunk = r.chunk
          /\ call'.type = r.type
          /\ r.type \in FloatTypes => call'.unit = r.unit
          /\ call'.pos = 4 * (r.offset + Skipped(r))
          /\ call'.end = 4 * (r.offset + Len(PushedWords(r)))
      BY <1>1, <1>2, <2>3, <2>5, <2>6, <2>14, <3>1, StartedCallReads
    <3> QED
      BY <2>11, <3>3, <3>4, <3>5
  <2>15. DOMAIN call'.out = {}
    BY <2>11
  <2>16. ReadInv'
    BY <1>1, <2>11, <2>14, <2>15 DEF ReadInv, Held, Skipped, PushedWords
  <2> QED
    BY <2>12, <2>13, <2>16 DEF IInv
<1> QED
  BY <1>4, <1>5 DEF readArray

(***************************************************************************)
(* The theorems.                                                           *)
(***************************************************************************)

LEMMA NextStep == IInv /\ [Next]_vars => IInv'
<1> SUFFICES ASSUME IInv, [Next]_vars PROVE IInv'
  OBVIOUS
<1>1. CASE UNCHANGED vars
  <2>1. UNCHANGED writerVars /\ UNCHANGED readerVars
    BY <1>1 DEF vars
  <2>2. /\ WriterIInv' /\ m_Chunks' = m_Chunks
        /\ \A c : Table(c)' = Table(c) /\ Loaded(c)' = Loaded(c)
    BY <2>1, WriterUnchanged DEF IInv, writerVars, chunkVars
  <2>3. TypeOK' /\ CallInv'
    BY <2>1, <2>2 DEF IInv, TypeOK, WriterIInv, CallInv, readerVars
  <2>4. ReaderInv'
    BY <2>1, <2>2 DEF IInv, ReaderInv, EntryPlaces, TooLarge, readerVars,
                      writerVars
  <2>5. ReadInv'
    BY <2>1 DEF IInv, ReadInv, Asked, Held, Skipped, PushedWords, readerVars,
                writerVars
  <2> QED
    BY <2>2, <2>3, <2>4, <2>5 DEF IInv
<1>2. CASE WriterNext /\ UNCHANGED readerVars
  BY <1>2, WriterOnlyStep
<1>3. CASE Open
  BY <1>3, OpenStep
<1>4. ASSUME NEW id \in 1 .. MaxElements, NEW kind \in Kinds,
             readArray(id, kind)
      PROVE  IInv'
  <2>1. id \in Nat
    OBVIOUS
  <2> QED
    BY <1>4, <2>1, ReadArrayStep
<1>5. CASE readValue
  BY <1>5, ReadValueStep
<1>6. CASE readReturns
  BY <1>6, ReadReturnsStep
<1>7. CASE clearCache
  BY <1>7, ClearCacheStep
<1> QED
  BY <1>1, <1>2, <1>3, <1>4, <1>5, <1>6, <1>7 DEF Next

LEMMA Invariance == Spec => []IInv
  BY InitStep, NextStep, PTL DEF Spec

\* Every word of the writer and of the reader, the running value of a delta
\* array included, fits an nfInt32, and every other variable has its type.
THEOREM TypeCorrect == Spec => []TypeOK
<1>1. IInv => TypeOK
  BY DEF IInv
<1> QED
  BY <1>1, Invariance, PTL

\* readIntArray delivers what addIntArray was given, wrapping differences
\* included.
THEOREM IntArraysCorrect == Spec => []IntArraysReadBack
<1>1. IInv => IntArraysReadBack
  <2> SUFFICES ASSUME IInv, NEW r \in written,
                      Asked(r), r.intact, call.kind = "int",
                      call.phase \in {"reading", "done"}
               PROVE  /\ call.count = Len(r.values)
                      /\ \A i \in DOMAIN call.out : call.out[i] = r.values[i]
                      /\ call.phase = "done" => call.out = r.values
    BY DEF IntArraysReadBack
  <2>1. r.type \in IntTypes
    BY DEF Asked, KindOf
  <2>2. /\ call.count = Len(r.values)
        /\ \A i \in DOMAIN call.out : call.out[i] = r.values[i]
        /\ call.phase = "done" => Len(call.out) = call.count
    BY <2>1 DEF IInv, ReadInv
  <2>3. call.out \in Seq(Int) /\ r.values \in Seq(Int)
    BY WrittenFacts DEF IInv, TypeOK, CallType
  <2>4. ASSUME call.phase = "done"
        PROVE  call.out = r.values
    BY <2>2, <2>3, <2>4, SeqEqual
  <2> QED
    BY <2>2, <2>4
<1> QED
  BY <1>1, Invariance, PTL

\* The two roundings and the cut of one value: of the quotient of x by u,
\* whose integer n is q = n * u from x, and of the product p back.
LEMMA RoundingFacts ==
  ASSUME NEW m \in Nat \ {0}, NEW u \in Nat \ {0}, NEW x \in Int, NEW q \in Int,
         NEW p \in Int,
         m * AbsValue(q - x) < m * u + AbsValue(x),
         m * AbsValue(p - q) <= AbsValue(q)
  PROVE  m * AbsValue(p - x) < (m + 1) * u + 3 * AbsValue(x)
<1> DEFINE a == AbsValue(q - x)
           b == AbsValue(p - q)
           c == AbsValue(p - x)
           y == AbsValue(x)
           z == AbsValue(q)
<1>1. a \in Nat /\ b \in Nat /\ c \in Nat /\ y \in Nat /\ z \in Nat
  BY DEF AbsValue
<1>2. c <= a + b /\ z <= a + y
  BY DEF AbsValue
<1> HIDE DEF a, b, c, y, z
<1>3. m * a < m * u + y /\ m * b <= z
  BY DEF a, b, y, z
<1>4. \A k, l \in Nat : k <= l => m * k <= m * l
  OBVIOUS
<1>5. m * (a + b) = m * a + m * b /\ m * (u + y) = m * u + m * y
  BY <1>1
<1>6. m * c <= m * a + m * b
  BY <1>1, <1>2, <1>4, <1>5
<1>7. a < u + y
  <2>1. y <= m * y
    BY <1>1
  <2>2. CASE u + y <= a
    <3>1. m * (u + y) <= m * a
      BY <1>1, <1>4, <2>2
    <3> QED
      BY <1>1, <1>3, <1>5, <2>1, <3>1
  <2> QED
    BY <1>1, <2>2
<1>8. (m + 1) * u = m * u + u
  OBVIOUS
<1>9. m * c < m * u + u + 3 * y
  <2> DEFINE ma == m * a
             mb == m * b
             mc == m * c
             mu == m * u
  <2>1. ma \in Nat /\ mb \in Nat /\ mc \in Nat /\ mu \in Nat
    BY <1>1
  <2>2. ma < mu + y /\ mb <= z /\ mc <= ma + mb
    BY <1>3, <1>6
  <2> HIDE DEF ma, mb, mc, mu
  <2>3. mc < mu + u + 3 * y
    BY <1>1, <1>2, <1>7, <2>1, <2>2
  <2> QED
    BY <2>3 DEF mc, mu
<1> QED
  BY <1>8, <1>9 DEF c, y

\* readFloatArray delivers a delta array that starts at zero to one unit and
\* two roundings, however long the chain of differences is and wherever one
\* of them overflows.
THEOREM FloatArraysCorrect == Spec => []FloatArraysReadBackWithinUnit
<1>1. IInv => FloatArraysReadBackWithinUnit
  <2> SUFFICES ASSUME IInv, NEW r \in written, Asked(r), r.intact,
                      call.phase \in {"reading", "done"},
                      r.type = FLOAT32_DELTA, r.values[1] = 0
               PROVE  /\ call.count = Len(r.values)
                      /\ \A i \in DOMAIN call.out :
                           FloatPrecision * AbsValue(call.out[i] - r.values[i])
                             < (FloatPrecision + 1) * r.unit
                                 + 3 * AbsValue(r.values[i])
    BY DEF FloatArraysReadBackWithinUnit
  <2>1. /\ call.count = Len(r.values)
        /\ \A i \in DOMAIN call.out :
             call.out[i] = Product(Held(r, i), r.unit)
        /\ call.phase = "done" => Len(call.out) = call.count
    BY DEF IInv, ReadInv
  <2>2. Len(call.out) <= Len(r.values)
    BY <2>1 DEF IInv, CallInv, TypeOK, CallType
  <2>3. /\ r.values \in FloatArrays /\ r.unit \in Units
        /\ OutOfRange(r.values, r.unit, r.type) = {}
    BY DEF IInv, WriterIInv, WrittenInv, FloatTypes
  <2>4. /\ call.out \in Seq(Int) /\ r.values \in Seq(Int)
        /\ r.unit \in Nat \ {0} /\ FloatPrecision \in Nat \ {0}
    BY <2>3, WrittenFacts, ClientsAssumption, FloatAssumption
       DEF IInv, TypeOK, CallType
  <2>5. ASSUME NEW i \in DOMAIN call.out
        PROVE  FloatPrecision * AbsValue(call.out[i] - r.values[i])
                 < (FloatPrecision + 1) * r.unit + 3 * AbsValue(r.values[i])
    <3> DEFINE m == FloatPrecision
               u == r.unit
               x == r.values[i]
               n == Held(r, i)
               p == call.out[i]
    <3>1. /\ i \in DOMAIN r.values /\ x \in Int /\ p \in Int
          /\ p = Product(n, u)
      <4>1. /\ i \in 1 .. Len(call.out) /\ Len(call.out) \in Nat
            /\ Len(r.values) \in Nat
        BY ONLY <2>4, <2>5
      <4>2. i \in 1 .. Len(r.values)
        BY ONLY <4>1, <2>2
      <4>3. i \in DOMAIN r.values /\ r.values[i] \in Int /\ call.out[i] \in Int
        BY ONLY <4>1, <4>2, <2>4
      <4>4. call.out[i] = Product(Held(r, i), r.unit)
        BY <2>1
      <4> QED
        BY <4>3, <4>4
    <3>2. n = FloatUnits(r.values, r.unit, r.type, i) /\ n \in Int
      <4>1. n = FloatUnits(r.values, r.unit, r.type, i)
        BY <3>1, <2>4 DEF Held, INT32_DELTA, FLOAT32_DELTA
      <4>2. r.type \in FloatTypes
        BY DEF FloatTypes
      <4> QED
        BY <2>3, <3>1, <4>1, <4>2, FloatUnitsFacts
    <3>3. CASE i = 1
      <4>1. n = Trunc(0, One)
        BY <3>2, <3>3 DEF FloatUnits, FLOAT32_DELTA
      <4>2. Trunc(0, One) = 0
        BY SizesAssumption DEF Trunc
      <4>3. Product(0, u) = 0
        BY <2>3, FloatAssumption
      <4>4. p = 0 /\ x = 0
        BY <3>1, <3>3, <4>1, <4>2, <4>3
      <4>5. m \in Nat \ {0} /\ u \in Nat \ {0}
        BY <2>4
      <4> HIDE DEF m, u, x, p, n
      <4>6. (m + 1) * u > 0 /\ m * 0 = 0
        BY <4>5
      <4>7. AbsValue(p - x) = 0 /\ AbsValue(x) = 0
        BY <4>4 DEF AbsValue
      <4>8. m * AbsValue(p - x) < (m + 1) * u + 3 * AbsValue(x)
        BY <4>5, <4>6, <4>7
      <4> QED
        BY <4>8 DEF m, u, x, p
    <3>4. CASE i # 1
      <4>1. n = Quotient(x, u)
        BY <3>2, <3>4 DEF FloatUnits
      <4>2. AbsValue(n) <= MaxFloatUnits
        <5>1. ~(AbsValue(FloatUnits(r.values, r.unit, r.type, i)) > MaxFloatUnits)
          <6>1. DOMAIN r.values = 1 .. Len(r.values)
            BY <2>4
          <6> QED
            BY <2>3, <3>1, <6>1, Zenon DEF OutOfRange
        <5>2. ~(AbsValue(n) > MaxFloatUnits)
          BY <3>2, <5>1
        <5> HIDE DEF n
        <5> QED
          BY <3>2, <5>2, SizesAssumption DEF AbsValue
      <4>3. /\ m * AbsValue(n * u - x) < m * u + AbsValue(x)
            /\ m * AbsValue(Product(n, u) - n * u) <= AbsValue(n * u)
        <5>1. LET k == Quotient(r.values[i], r.unit)
              IN  /\ k \in Int
                  /\ FloatPrecision * AbsValue(k * r.unit - r.values[i])
                       < FloatPrecision * r.unit + AbsValue(r.values[i])
                  /\ AbsValue(k) <= MaxFloatUnits =>
                       FloatPrecision * AbsValue(Product(k, r.unit) - k * r.unit)
                         <= AbsValue(k * r.unit)
          BY <2>3, <3>1, FloatAssumption
        <5> HIDE DEF n
        <5> QED
          BY <4>1, <4>2, <5>1
      <4>4. n * u \in Int
        BY <2>4, <3>2
      <4> HIDE DEF m, u, x, n, p
      <4>5. m * AbsValue(p - x) < (m + 1) * u + 3 * AbsValue(x)
        <5>1. m \in Nat \ {0} /\ u \in Nat \ {0}
          BY <2>4 DEF m, u
        <5> DEFINE q == n * u
        <5>2. /\ q \in Int
              /\ m * AbsValue(q - x) < m * u + AbsValue(x)
              /\ m * AbsValue(p - q) <= AbsValue(q)
          BY <3>1, <4>3, <4>4
        <5> HIDE DEF q
        <5> QED
          BY <3>1, <5>1, <5>2, RoundingFacts
      <4> QED
        BY <4>5 DEF m, u, x, p
    <3> QED
      BY <3>3, <3>4
  <2> QED
    BY <2>1, <2>5
<1> QED
  BY <1>1, Invariance, PTL

\* No read of an intact array fails.
THEOREM IntactArraysCorrect == Spec => []IntactArraysAreReadable
<1>1. IInv => IntactArraysAreReadable
  BY DEF IInv, ReadInv, IntactArraysAreReadable
<1> QED
  BY <1>1, Invariance, PTL

\* A stream the reader rejects has an empty chunk, whose props size was never
\* assigned, or one with more than half of the data the reader allows.
THEOREM SmallChunksCorrect == Spec => []SmallChunksAreAccepted
<1>1. IInv => SmallChunksAreAccepted
  <2> SUFFICES ASSUME IInv, reader = "rejected"
               PROVE  \E c \in DOMAIN m_Chunks :
                        \/ m_Chunks[c].m_EntryCount = 0
                        \/ 2 * m_Chunks[c].m_UncompressedDataSize
                             > MaxChunkDataSize
    BY DEF SmallChunksAreAccepted
  <2>1. PICK c \in DOMAIN m_Chunks : TooLarge(m_Chunks[c])
    BY DEF IInv, ReaderInv
  <2> DEFINE chunk == m_Chunks[c]
             size == chunk.m_UncompressedDataSize
  <2>2. WriterIInv /\ m_bIsFinished
    BY DEF IInv, ReaderInv
  <2>3. PointsInto(chunk, stream)
    BY <2>2, FinishedViews DEF WriterIInv, BlocksInv
  <2>4. chunk \in ChunkType
    BY <2>2 DEF WriterIInv, WriterTypeOK
  <2>5. ASSUME chunk.m_EntryCount # 0
        PROVE  size > 0
    <3>1. Tiles(Table(c), Data(c), chunk, c \notin damaged)
      BY <2>2 DEF WriterIInv, TableInv
    <3>2. Table(c) \in Seq(EntryType) /\ Len(Table(c)) # 0
      BY <2>2, <2>5, <3>1, TableType DEF Tiles
    <3>3. 1 \in DOMAIN Table(c) /\ Table(c)[1] \in EntryType
      BY <3>2
    <3>4. /\ Table(c)[1].m_PositionInChunk \in Nat
          /\ Table(c)[1].m_SizeInBytes \in Nat
          /\ size \in Nat
      BY <2>4, <3>3 DEF EntryType, ChunkType
    <3>5. /\ Table(c)[1].m_SizeInBytes >= 4
          /\ Table(c)[1].m_PositionInChunk + Table(c)[1].m_SizeInBytes <= size
      <4>1. /\ Table(c)[1].m_SizeInBytes >=
                 IF Table(c)[1].m_EntryType \in IntTypes THEN 4 ELSE 8
            /\ Table(c)[1].m_PositionInChunk + Table(c)[1].m_SizeInBytes <= size
        BY <3>1, <3>3 DEF Tiles
      <4> QED
        BY <3>4, <4>1
    <3> HIDE DEF size
    <3> QED
      BY <3>4, <3>5
  <2>6. size > 0 => 2 * size > MaxChunkDataSize
    <3>1. ASSUME size > 0
          PROVE  /\ chunk.m_CompressedDataSize \in 1 .. 2 * size
                 /\ chunk.m_CompressedPropsSize = 1
      BY <2>3, <3>1 DEF PointsInto
    <3>2. size \in Nat /\ MaxChunkDataSize \in Nat \ {0}
      BY <2>4, SizesAssumption DEF ChunkType
    <3>3. \/ size > MaxChunkDataSize
          \/ chunk.m_CompressedDataSize > MaxChunkDataSize
          \/ chunk.m_CompressedPropsSize > MaxChunkDataSize
      BY <2>1 DEF TooLarge
    <3> HIDE DEF size, chunk
    <3> QED
      BY <3>1, <3>2, <3>3
  <2> QED
    BY <2>5, <2>6
<1> QED
  BY <1>1, Invariance, PTL

\* A finished stream never changes: every operation that writes to it refuses
\* to run after finishWriting, or needs an open chunk.
THEOREM FinishedStreamCorrect == Spec => FinishedStreamIsFinal
<1>1. IInv /\ [Next]_vars => [m_bIsFinished => UNCHANGED stream]_vars
  <2> SUFFICES ASSUME IInv, [Next]_vars, m_bIsFinished
               PROVE  UNCHANGED stream
    OBVIOUS
  <2>1. ~m_CurrentChunk
    BY DEF IInv, WriterIInv, OpenInv
  <2>2. ~WriterNext
    BY <2>1 DEF WriterNext, finishChunk, finishChunkThrows, beginChunk,
                addIntArray, addFloatArray, addFloatArrayThrows,
                AddCallAllowed, finishWriting
  <2> QED
    BY <2>2 DEF Next, vars, Open, readArray, readValue, readReturns,
                clearCache, writerVars
<1> QED
  BY <1>1, Invariance, PTL DEF Spec, FinishedStreamIsFinal
=============================================================================
