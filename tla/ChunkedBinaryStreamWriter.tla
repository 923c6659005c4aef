--------------------- MODULE ChunkedBinaryStreamWriter ---------------------
(***************************************************************************)
(* CChunkedBinaryStreamWriter: the writer of the 3MF binary extension.     *)
(* Clients (mesh writer, toolpath layers) hand it arrays of words or       *)
(* floats; it gathers them in the current chunk, and finishWriting lays    *)
(* the chunks out on a memory stream behind a header.                      *)
(*                                                                         *)
(* The stream is a sequence of blocks, one per writeBuffer call, and a     *)
(* stream position is the number of blocks before it.  Sizes and positions *)
(* inside a chunk are bytes, four per word, as in the code.                *)
(*                                                                         *)
(* A float is an integer number of grains, One grains being 1.0f, and a    *)
(* discretization unit is a number of grains.  What nfFloat arithmetic     *)
(* makes of floats is left to the constants Quotient and Product, of which *)
(* FloatAssumption says what the rounding of IEEE 754 guarantees.          *)
(***************************************************************************)
EXTENDS Integers, Sequences

CONSTANTS
  HalfRange,         \* an nfInt32 word is in -HalfRange .. HalfRange-1
  MaxFloatUnits,     \* BINARYCHUNKFILE_MAXFLOATUNITS
  MaxChunkDataSize,  \* BINARYCHUNKFILEMAXCHUNKDATASIZE
  One,               \* grains in 1.0f
  IntArrays,         \* the arrays clients pass to addIntArray
  FloatArrays,       \* the arrays clients pass to addFloatArray
  Units,             \* the discretization units clients pass
  BitsOf(_),         \* the word that has the bits of a float
  FloatOf(_),        \* the float that has the bits of a word
  Quotient(_, _),    \* x / d in nfFloat, converted to an integer
  Product(_, _),     \* n converted to nfFloat, times d
  FloatPrecision,    \* a rounding changes a float by at most a fraction
                     \* 1/FloatPrecision: 2^24 for nfFloat
  MaxElements,       \* bound on m_elementIDCounter
  MaxChunks,         \* bound on the number of chunks
  MaxBlocks          \* bound on the number of blocks of the stream

Words == -HalfRange .. HalfRange - 1

ASSUME SizesAssumption ==
  /\ HalfRange \in Nat \ {0}
  /\ MaxFloatUnits \in Nat
  /\ MaxChunkDataSize \in Nat \ {0}
  /\ One \in Nat \ {0}

\* Clients pass floats whose conversion to nfInt32 is defined, and positive
\* units.  BINARYCHUNKFILE_MAXFLOATUNITS is 2^30: a number of units in range
\* fits a word, the difference of two of them need not.
ASSUME ClientsAssumption ==
  /\ IntArrays \subseteq Seq(Words)
  /\ FloatArrays \subseteq Seq(Int)
  /\ \A f \in FloatArrays : \A i \in DOMAIN f :
       /\ f[i] < One * HalfRange
       /\ -(One * HalfRange) < f[i]
  /\ Units \subseteq Nat \ {0}
  /\ MaxFloatUnits < HalfRange

AbsValue(x) == IF x >= 0 THEN x ELSE -x

\* The bits of a unit give the unit back, and the word 0 is 0.0f.  A quotient is rounded once and
\* then cut off; a quotient in the range of the units is a float, so that
\* its conversion back to nfFloat is exact and only the product is rounded.
ASSUME FloatAssumption ==
  /\ FloatPrecision \in Nat \ {0}
  /\ FloatOf(0) = 0
  /\ \A unit \in Units : BitsOf(unit) \in Words /\ FloatOf(BitsOf(unit)) = unit
  /\ \A n, w \in Words : FloatOf(w) \in Int /\ Product(n, FloatOf(w)) \in Int
  /\ \A unit \in Units : Product(0, unit) = 0
  /\ \A f \in FloatArrays, unit \in Units : \A i \in DOMAIN f :
       LET n == Quotient(f[i], unit)
       IN  /\ n \in Int
           /\ FloatPrecision * AbsValue(n * unit - f[i])
                < FloatPrecision * unit + AbsValue(f[i])
           /\ AbsValue(n) <= MaxFloatUnits =>
                FloatPrecision * AbsValue(Product(n, unit) - n * unit)
                  <= AbsValue(n * unit)

VARIABLES
  m_elementIDCounter,
  m_Chunks,               \* the chunk descriptors
  m_CurrentChunk,         \* the pointer to the last of them is not null
  m_CurrentChunkEntries,
  m_CurrentChunkData,
  m_ChunkTableStart,
  m_bIsFinished,
  m_bIsEmpty,
  stream,                 \* m_pExportStream
  written,                \* history: the arrays whose add call returned an ID;
                          \* intact: no call had thrown in the chunk before
  damaged                 \* history: the chunks in which an add call threw

chunkVars == <<m_Chunks, m_CurrentChunk, m_CurrentChunkEntries,
               m_CurrentChunkData>>
writerVars == <<m_elementIDCounter, chunkVars, m_ChunkTableStart,
                m_bIsFinished, m_bIsEmpty, stream, written, damaged>>

-----------------------------------------------------------------------------
(* Arithmetic of the words.                                                *)

\* The 32-bit result of a sum or a difference of two words.
Wrap(x) == IF x >= HalfRange THEN x - 2 * HalfRange
           ELSE IF x < -HalfRange THEN x + 2 * HalfRange ELSE x

\* The conversion of x/d to an integer, towards zero.
Trunc(x, d) == IF x >= 0 THEN x \div d ELSE -((-x) \div d)

INT32_NOPREDICTION == 1
INT32_DELTA == 2
FLOAT32_NOPREDICTION == 3
FLOAT32_DELTA == 4

IntTypes == {INT32_NOPREDICTION, INT32_DELTA}
FloatTypes == {FLOAT32_NOPREDICTION, FLOAT32_DELTA}

\* The words addIntArray pushes for the array a.
IntWords(a, type) ==
  [i \in 1 .. Len(a) |->
     IF type = INT32_DELTA /\ i > 1 THEN Wrap(a[i] - a[i - 1]) ELSE a[i]]

\* The number of units that addFloatArray checks against the limit for f[i]:
\* with delta prediction the first value is not divided by the units.
FloatUnits(f, unit, type, i) ==
  IF type = FLOAT32_DELTA /\ i = 1 THEN Trunc(f[1], One)
  ELSE Quotient(f[i], unit)

\* Mutant of FloatWords: differences to the first value, not to the previous.
FloatWordsFromFirst(f, unit, type) ==
  [i \in 1 .. Len(f) |->
     IF type = FLOAT32_NOPREDICTION THEN Trunc(f[i], One)
     ELSE IF i = 1 THEN FloatUnits(f, unit, type, 1)
     ELSE Wrap(FloatUnits(f, unit, type, i) - FloatUnits(f, unit, type, 1))]

\* The words it pushes: without prediction, the value and not the units; the
\* difference of two nfInt32 in range can leave the range by one, and wraps.
FloatWords(f, unit, type) ==
  [i \in 1 .. Len(f) |->
     IF type = FLOAT32_NOPREDICTION THEN Trunc(f[i], One)
     ELSE IF i = 1 THEN FloatUnits(f, unit, type, 1)
     ELSE Wrap(FloatUnits(f, unit, type, i) - FloatUnits(f, unit, type, i - 1))]

\* The indices at which addFloatArray throws DISCRETIZATIONVALUEOUTOFRANGE.
OutOfRange(f, unit, type) ==
  {i \in 1 .. Len(f) : AbsValue(FloatUnits(f, unit, type, i)) > MaxFloatUnits}

-----------------------------------------------------------------------------
(* Chunks and the blocks of the stream.                                    *)

\* beginChunk does not assign m_CompressedPropsSize: any value, of which a
\* reader tells apart those under and those over its limit.
NewChunks ==
  [m_EntryCount : {0}, m_EntryTableStart : {0}, m_CompressedDataStart : {0},
   m_CompressedDataSize : {0}, m_UncompressedDataSize : {0},
   m_CompressedPropsSize : {0, MaxChunkDataSize + 1}]

HeaderBlock(count, start) ==
  [kind |-> "header", m_ChunkCount |-> count, m_ChunkTableStart |-> start]

EntryBlocks == IF m_CurrentChunkEntries = <<>> THEN <<>>
               ELSE <<[kind |-> "entries", entries |-> m_CurrentChunkEntries]>>

DataBlocks == IF m_CurrentChunkData = <<>> THEN <<>>
              ELSE <<[kind |-> "data", data |-> m_CurrentChunkData],
                     [kind |-> "props"]>>

ChunkTable(chunks) ==
  IF chunks = <<>> THEN <<>> ELSE <<[kind |-> "chunks", chunks |-> chunks]>>

\* What writeChunkTable and writeHeader make of a stream.
FinishedStream(body, chunks) ==
  [body EXCEPT ![1] = HeaderBlock(Len(chunks), Len(body))] \o ChunkTable(chunks)

LastChunk == m_Chunks[Len(m_Chunks)]

\* The descriptor after finishChunk has written the entry table.
TabledChunk ==
  IF m_CurrentChunkEntries = <<>> THEN LastChunk
  ELSE [LastChunk EXCEPT !.m_EntryCount = Len(m_CurrentChunkEntries),
                         !.m_EntryTableStart = Len(stream)]

\* The sizes LzmaCompress may report: the out buffer holds twice the data.
CompressedSizes(size) == {1, 2 * size}

\* The descriptors finishChunk can leave when LzmaCompress succeeds.  Its
\* out buffers are empty, and it fails, when m_UncompressedDataSize is 0.
ClosedChunks ==
  IF m_CurrentChunkData = <<>> THEN {TabledChunk}
  ELSE {[TabledChunk EXCEPT !.m_CompressedDataSize = size,
                            !.m_CompressedPropsSize = 1,
                            !.m_CompressedDataStart = Len(stream \o EntryBlocks)]
        : size \in IF LastChunk.m_UncompressedDataSize = 0 THEN {}
                   ELSE CompressedSizes(LastChunk.m_UncompressedDataSize)}

ReplaceLast(chunk) == [m_Chunks EXCEPT ![Len(m_Chunks)] = chunk]

\* The chunk descriptors and the stream once an open chunk has been finished.
Closings ==
  IF m_CurrentChunk
    THEN {[chunks |-> ReplaceLast(chunk),
           body |-> stream \o EntryBlocks \o DataBlocks] : chunk \in ClosedChunks}
    ELSE {[chunks |-> m_Chunks, body |-> stream]}

-----------------------------------------------------------------------------
(* Types.                                                                  *)

ChunkType ==
  [m_EntryCount : Nat, m_EntryTableStart : Nat, m_CompressedDataStart : Nat,
   m_CompressedDataSize : Nat, m_UncompressedDataSize : Nat,
   m_CompressedPropsSize : Nat]

EntryType ==
  [m_EntryID : Nat, m_EntryType : IntTypes \cup FloatTypes,
   m_PositionInChunk : Nat, m_SizeInBytes : Nat]

BlockType ==
  [kind : {"header"}, m_ChunkCount : Nat, m_ChunkTableStart : Nat]
    \cup [kind : {"entries"}, entries : Seq(EntryType)]
    \cup [kind : {"data"}, data : Seq(Words)]
    \cup [kind : {"props"}]
    \cup [kind : {"chunks"}, chunks : Seq(ChunkType)]

WrittenType ==
  [id : Nat, type : IntTypes \cup FloatTypes, values : Seq(Int), unit : Nat,
   chunk : Nat, offset : Nat, intact : BOOLEAN]

WriterTypeOK ==
  /\ m_elementIDCounter \in Nat \ {0}
  /\ m_Chunks \in Seq(ChunkType)
  /\ m_CurrentChunk \in BOOLEAN
  /\ m_CurrentChunkEntries \in Seq(EntryType)
  /\ m_CurrentChunkData \in Seq(Words)
  /\ m_ChunkTableStart \in Nat
  /\ m_bIsFinished \in BOOLEAN
  /\ m_bIsEmpty \in BOOLEAN
  /\ stream \in Seq(BlockType)
  /\ written \subseteq WrittenType
  /\ damaged \subseteq Nat

-----------------------------------------------------------------------------

WriterInit ==
  /\ m_elementIDCounter = 1
  /\ m_Chunks = <<>>
  /\ m_CurrentChunk = FALSE
  /\ m_CurrentChunkEntries = <<>>
  /\ m_CurrentChunkData = <<>>
  /\ m_ChunkTableStart = 0
  /\ m_bIsFinished = FALSE
  /\ m_bIsEmpty = TRUE
  /\ stream = <<HeaderBlock(0, 0)>>
  /\ written = {}
  /\ damaged = {}

\* finishChunk, called by a client.
finishChunk ==
  /\ m_CurrentChunk
  /\ Len(stream) < MaxBlocks
  /\ \E done \in Closings : m_Chunks' = done.chunks /\ stream' = done.body
  /\ m_CurrentChunk' = FALSE
  /\ UNCHANGED <<m_elementIDCounter, m_CurrentChunkEntries, m_CurrentChunkData,
                 m_ChunkTableStart, m_bIsFinished, m_bIsEmpty, written, damaged>>

\* finishChunk, called by a client or from beginChunk or finishWriting, when
\* LzmaCompress reports an error: the exception leaves the entry table on the
\* stream and the chunk open, and the caller has changed nothing yet.
finishChunkThrows ==
  /\ m_CurrentChunk
  /\ m_CurrentChunkData # <<>>
  /\ Len(stream) < MaxBlocks
  /\ m_Chunks' = ReplaceLast(TabledChunk)
  /\ stream' = stream \o EntryBlocks
  /\ UNCHANGED <<m_elementIDCounter, m_CurrentChunk, m_CurrentChunkEntries,
                 m_CurrentChunkData, m_ChunkTableStart, m_bIsFinished,
                 m_bIsEmpty, written, damaged>>

\* beginChunk, called by a client: closes an open chunk first.
beginChunk ==
  /\ ~m_bIsFinished
  /\ Len(m_Chunks) < MaxChunks
  /\ Len(stream) < MaxBlocks
  /\ \E done \in Closings, new \in NewChunks :
       /\ m_Chunks' = Append(done.chunks, new)
       /\ stream' = done.body
  /\ m_CurrentChunk' = TRUE
  /\ m_CurrentChunkEntries' = <<>>
  /\ m_CurrentChunkData' = <<>>
  /\ UNCHANGED <<m_elementIDCounter, m_ChunkTableStart, m_bIsFinished,
                 m_bIsEmpty, written, damaged>>

\* The chunk descriptors, entries and data an add call works on: those of the
\* open chunk, or those of the one that its call of beginChunk opens.
OpenChunks ==
  IF m_CurrentChunk
    THEN {[chunks |-> m_Chunks, entries |-> m_CurrentChunkEntries,
           data |-> m_CurrentChunkData]}
    ELSE {[chunks |-> Append(m_Chunks, new), entries |-> <<>>, data |-> <<>>]
          : new \in NewChunks}

\* Mutant of AddCallAllowed: a finished writer accepts arrays.
AddCallAlwaysAllowed ==
  /\ m_elementIDCounter < MaxElements
  /\ m_CurrentChunk \/ Len(m_Chunks) < MaxChunks

AddCallAllowed ==
  /\ ~m_bIsFinished
  /\ m_elementIDCounter < MaxElements
  /\ m_CurrentChunk \/ Len(m_Chunks) < MaxChunks

\* The descriptor of a chunk with one more entry.
GrownChunk(chunk, size) ==
  [chunk EXCEPT
     !.m_EntryCount = chunk.m_EntryCount + 1,
     !.m_UncompressedDataSize = chunk.m_UncompressedDataSize + size]

\* What an add call that returns its ID does: words go to the data, an entry
\* at the declared end of the chunk to the entries.
AddEntry(open, type, words, array, unit) ==
  LET n == Len(open.chunks)
      size == 4 * Len(words)
      entry == [m_EntryID |-> m_elementIDCounter, m_EntryType |-> type,
                m_PositionInChunk |-> open.chunks[n].m_UncompressedDataSize,
                m_SizeInBytes |-> size]
  IN  /\ m_CurrentChunkEntries' = Append(open.entries, entry)
      /\ m_CurrentChunkData' = open.data \o words
      /\ m_Chunks' = [open.chunks EXCEPT ![n] = GrownChunk(open.chunks[n], size)]
      /\ written' = written \cup
           {[id |-> m_elementIDCounter, type |-> type, values |-> array,
             unit |-> unit, chunk |-> n, offset |-> Len(open.data),
             intact |-> n \notin damaged]}
      /\ UNCHANGED damaged

\* Mutant of addIntArray: the next array gets the same ID.
addIntArrayKeepsID(a, type) ==
  /\ AddCallAllowed
  /\ a # <<>>
  /\ \E open \in OpenChunks : AddEntry(open, type, IntWords(a, type), a, 0)
  /\ m_CurrentChunk' = TRUE
  /\ m_bIsEmpty' = FALSE
  /\ UNCHANGED <<m_elementIDCounter, m_ChunkTableStart, m_bIsFinished, stream>>

addIntArray(a, type) ==
  /\ AddCallAllowed
  /\ a # <<>>
  /\ \E open \in OpenChunks : AddEntry(open, type, IntWords(a, type), a, 0)
  /\ m_elementIDCounter' = m_elementIDCounter + 1
  /\ m_CurrentChunk' = TRUE
  /\ m_bIsEmpty' = FALSE
  /\ UNCHANGED <<m_ChunkTableStart, m_bIsFinished, stream>>

addFloatArray(f, type, unit) ==
  /\ AddCallAllowed
  /\ f # <<>>
  /\ OutOfRange(f, unit, type) = {}
  /\ \E open \in OpenChunks :
       AddEntry(open, type, <<BitsOf(unit)>> \o FloatWords(f, unit, type), f, unit)
  /\ m_elementIDCounter' = m_elementIDCounter + 1
  /\ m_CurrentChunk' = TRUE
  /\ m_bIsEmpty' = FALSE
  /\ UNCHANGED <<m_ChunkTableStart, m_bIsFinished, stream>>

\* addFloatArray when a value is out of range: the units and the words before
\* the value stay in the data, and no entry describes them.
addFloatArrayThrows(f, type, unit) ==
  /\ AddCallAllowed
  /\ f # <<>>
  /\ \E k \in OutOfRange(f, unit, type), open \in OpenChunks :
       /\ \A i \in OutOfRange(f, unit, type) : k <= i
       /\ m_Chunks' = open.chunks
       /\ m_CurrentChunkEntries' = open.entries
       /\ m_CurrentChunkData' =
            open.data \o <<BitsOf(unit)>> \o SubSeq(FloatWords(f, unit, type), 1, k - 1)
       /\ damaged' = damaged \cup {Len(open.chunks)}
  /\ m_elementIDCounter' = m_elementIDCounter + 1
  /\ m_CurrentChunk' = TRUE
  /\ m_bIsEmpty' = FALSE
  /\ UNCHANGED <<m_ChunkTableStart, m_bIsFinished, stream, written>>

\* finishWriting: closes an open chunk, writes the chunk table and, over the
\* first block, the header.
finishWriting ==
  /\ ~m_bIsFinished
  /\ \E done \in Closings :
       /\ m_Chunks' = done.chunks
       /\ m_ChunkTableStart' = Len(done.body)
       /\ stream' = FinishedStream(done.body, done.chunks)
  /\ m_CurrentChunk' = FALSE
  /\ m_bIsFinished' = TRUE
  /\ UNCHANGED <<m_elementIDCounter, m_CurrentChunkEntries, m_CurrentChunkData,
                 m_bIsEmpty, written, damaged>>

WriterNext ==
  \/ finishChunk
  \/ finishChunkThrows
  \/ beginChunk
  \/ \E a \in IntArrays, type \in IntTypes : addIntArray(a, type)
  \/ \E f \in FloatArrays, type \in FloatTypes, unit \in Units :
       addFloatArray(f, type, unit)
  \/ \E f \in FloatArrays, type \in FloatTypes, unit \in Units :
       addFloatArrayThrows(f, type, unit)
  \/ finishWriting

=============================================================================
