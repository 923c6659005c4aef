------------------------- MODULE PortableZIPWriter -------------------------
(***************************************************************************)
(* CPortableZIPWriter and its entry streams CExportStream_ZIP: the archive *)
(* that every 3MF file is.  The model is of a ZIP64 writer, the only kind  *)
(* COpcPackageWriter creates.                                              *)
(*                                                                         *)
(* A call is a sequence of steps, one per access to the export stream that *)
(* may throw; call.pc is the next of them.  A client may go on after an    *)
(* exception, and it may keep the stream of an entry it no longer writes.  *)
(*                                                                         *)
(* The export stream is a sequence of blocks: a local header, its name,    *)
(* its extra field, one byte of deflated data, a record of the central     *)
(* directory.  A position is the number of blocks before it.  A write that *)
(* throws has written nothing.                                             *)
(***************************************************************************)
EXTENDS Integers, Sequences

CONSTANTS
  Names,        \* the names clients give to entries
  LongNames,    \* those above ZIPFILEMAXFILENAMELENGTH
  Bytes,        \* the bytes clients write
  Chunks,       \* the buffers of one writeChunk call
  MaxKey,       \* ZIPFILEMAXENTRIES
  BufferSize,   \* ZIPEXPORTBUFFERSIZE
  EndOfStream,  \* what deflate puts behind the data of an entry
  MaxData,      \* bound on the bytes a client writes to an entry
  MaxFailures   \* bound on the failures of the export stream and of zlib

ASSUME ZIPAssumption ==
  /\ LongNames \subseteq Names
  /\ Chunks \subseteq Seq(Bytes) \ {<<>>}
  /\ EndOfStream \notin Bytes
  /\ MaxKey \in Nat \ {0}
  /\ BufferSize \in Nat \ {0}

VARIABLES
  m_Entries,
  m_pCurrentEntry,     \* the pointer to the last entry is not null
  m_pCurrentStream,    \* the key of the current entry stream, 0 for null
  m_nCurrentEntryKey,
  m_nNextEntryKey,
  m_bIsFinished,
  zip,                 \* the CExportStream_ZIP of every key
  file,                \* the blocks of m_pExportStream
  position,            \* its write position
  lifetime,            \* of the CPortableZIPWriter
  call,                \* the call in progress
  failures,            \* history: how often the export stream or zlib failed
  given,               \* history: the data passed to the write calls of a key
  spoiled              \* history: the keys for which a write call threw

writerState == <<m_Entries, m_pCurrentEntry, m_pCurrentStream,
                 m_nCurrentEntryKey, m_nNextEntryKey, m_bIsFinished>>
fileState == <<file, position>>
history == <<failures, given, spoiled>>
vars == <<writerState, zip, fileState, lifetime, call, history>>

Keys == 1 .. MaxKey

Idle == [pc |-> "idle", op |-> "none", name |-> "none", key |-> 0, data |-> <<>>]

NoStream == [m_bIsInitialized |-> FALSE, ended |-> FALSE,
             pending |-> <<>>, out |-> <<>>]

Larger(a, b) == IF a >= b THEN a ELSE b

Smaller(a, b) == IF a <= b THEN a ELSE b

\* What writeBuffer calls on the export stream make of it at a position: they
\* overwrite what is there and extend it.
WrittenAt(p, blocks) ==
  [j \in 1 .. Larger(Len(file), p + Len(blocks)) |->
     IF j > p /\ j <= p + Len(blocks) THEN blocks[j - p] ELSE file[j]]

Write(p, blocks) ==
  /\ file' = WrittenAt(p, blocks)
  /\ position' = p + Len(blocks)

DataBlocks(data) == [j \in DOMAIN data |-> [kind |-> "data", byte |-> data[j]]]

HeaderBlock(crc) == [kind |-> "header", m_nCRC32 |-> crc]

NameBlock(name) == [kind |-> "name", name |-> name]

ExtraBlock(compressed, uncompressed) ==
  [kind |-> "extra", m_nCompressedSize |-> compressed,
   m_nUncompressedSize |-> uncompressed]

Current == m_Entries[Len(m_Entries)]

-----------------------------------------------------------------------------
(* Calls.                                                                  *)

Ready == lifetime = "open" /\ call.pc = "idle"

Goto(pc) == call' = [call EXCEPT !.pc = pc] /\ UNCHANGED <<lifetime, failures>>

\* A call throws: the client gets the exception, unless the call is the
\* destructor, from which none may escape.
Throw ==
  /\ call' = Idle
  /\ lifetime' = IF call.op = "destroy" THEN "terminated" ELSE lifetime

\* It throws because the export stream or zlib failed.
Fail ==
  /\ failures < MaxFailures
  /\ failures' = failures + 1
  /\ Throw

createEntry(name) ==
  /\ Ready
  /\ ~m_bIsFinished
  /\ m_nNextEntryKey <= MaxKey
  /\ call' = [Idle EXCEPT !.pc = "close", !.op = "create", !.name = name]
  /\ UNCHANGED <<writerState, zip, fileState, lifetime, history>>

\* ~CPortableZIPWriter, which calls writeDirectory.
destroy ==
  /\ Ready
  /\ call' = [Idle EXCEPT !.pc = "close", !.op = "destroy"]
  /\ UNCHANGED <<writerState, zip, fileState, lifetime, history>>

-----------------------------------------------------------------------------
(* The steps of CExportStream_ZIP::writeChunk.                             *)

\* The checksum of an entry is the data it is taken of.
calculateChecksum(entry, data) ==
  [entry EXCEPT !.m_nCRC32 = @ \o data, !.m_nUncompressedSize = @ + Len(data)]

increaseCompressedSize(entry, n) == [entry EXCEPT !.m_nCompressedSize = @ + n]

\* writeBuffer on the stream of an entry, which the client may have left
\* behind: it throws at once unless the stream is initialized.  Then
\* calculateChecksum, whose own checks StaleStreamsAreClosed covers.
writeBuffer(k, data) ==
  /\ Ready
  /\ zip[k].m_bIsInitialized
  /\ Len(given[k]) + Len(data) <= MaxData
  /\ call' = [Idle EXCEPT !.pc = "deflate", !.op = "write", !.key = k,
                          !.data = data]
  /\ m_Entries' = [m_Entries EXCEPT ![Len(m_Entries)] = calculateChecksum(@, data)]
  /\ given' = [given EXCEPT ![k] = @ \o data]
  /\ UNCHANGED <<m_pCurrentEntry, m_pCurrentStream, m_nCurrentEntryKey,
                 m_nNextEntryKey, m_bIsFinished, zip, fileState, lifetime,
                 failures, spoiled>>

\* The client's buffer is not in the entry, or only a part of it.
WriteThrows == spoiled' = spoiled \cup {call.key} /\ UNCHANGED given

\* What deflate holds of an entry goes to m_nOutBuffer, or n bytes of it.
Deflated(z, held, n) ==
  [z EXCEPT !.out = @ \o SubSeq(held, 1, n),
            !.pending = SubSeq(held, n + 1, Len(held))]

\* m_nOutBuffer was written, and the stream may be closed.
Written(z, initialized) == [z EXCEPT !.out = <<>>, !.m_bIsInitialized = initialized]

\* deflate takes k bytes of the buffer and puts n bytes of what it holds into
\* m_nOutBuffer; it leaves bytes of the buffer only if m_nOutBuffer is full.
\* It reports an error if m_nOutBuffer is full from the start, as it is after
\* a write that threw, and after Z_FINISH.
deflate ==
  LET z == zip[call.key]
      room == BufferSize - Len(z.out)
  IN  /\ call.pc = "deflate"
      /\ \/ /\ room = 0 \/ z.ended
            /\ Throw
            /\ WriteThrows
            /\ UNCHANGED <<zip, failures>>
         \/ /\ room > 0 /\ ~z.ended
            /\ \E k \in 0 .. Len(call.data) :
                 LET held == z.pending \o SubSeq(call.data, 1, k)
                 IN  \E n \in 0 .. Smaller(room, Len(held)) :
                       /\ k < Len(call.data) => n = room
                       /\ zip' = [zip EXCEPT ![call.key] = Deflated(@, held, n)]
                       /\ call' =
                            IF n = room
                            THEN [call EXCEPT
                                    !.pc = "drain",
                                    !.data = SubSeq(@, k + 1, Len(@))]
                            ELSE Idle
            /\ UNCHANGED <<lifetime, history>>
      /\ UNCHANGED <<writerState, fileState>>

\* writeDeflatedBuffer, for the stream of the current entry.
WriteOut(key) ==
  /\ Write(position, DataBlocks(zip[key].out))
  /\ m_Entries' = [m_Entries EXCEPT ![Len(m_Entries)] =
                     increaseCompressedSize(@, Len(zip[key].out))]
  /\ UNCHANGED <<m_pCurrentEntry, m_pCurrentStream, m_nCurrentEntryKey,
                 m_nNextEntryKey, m_bIsFinished>>

drain ==
  /\ call.pc = "drain"
  /\ \/ /\ WriteOut(call.key)
        /\ zip' = [zip EXCEPT ![call.key] = Written(@, @.m_bIsInitialized)]
        /\ call' = IF call.data = <<>> THEN Idle
                   ELSE [call EXCEPT !.pc = "deflate"]
        /\ UNCHANGED <<lifetime, history>>
     \/ /\ Fail
        /\ WriteThrows
        /\ UNCHANGED <<writerState, zip, fileState>>

-----------------------------------------------------------------------------
(* The steps of closeEntry, which createEntry and writeDirectory call.     *)

AfterClose == IF call.op = "create" THEN "key" ELSE "directory"

NoCurrentEntry ==
  /\ m_pCurrentEntry' = FALSE
  /\ m_pCurrentStream' = 0
  /\ m_nCurrentEntryKey' = 0
  /\ UNCHANGED <<m_Entries, m_nNextEntryKey, m_bIsFinished>>

\* There is nothing to close, or the stream of the entry is missing or was
\* finished by a call that threw later.
close ==
  /\ call.pc = "close"
  /\ \/ /\ ~m_pCurrentEntry
        /\ NoCurrentEntry
        /\ Goto(AfterClose)
     \/ /\ m_pCurrentEntry
        /\ m_pCurrentStream # 0
        /\ zip[m_pCurrentStream].m_bIsInitialized
        /\ Goto("finish")
        /\ UNCHANGED writerState
     \/ /\ m_pCurrentEntry
        /\ m_pCurrentStream # 0 => ~zip[m_pCurrentStream].m_bIsInitialized
        /\ Throw
        /\ UNCHANGED <<writerState, failures>>
  /\ UNCHANGED <<zip, fileState, given, spoiled>>

\* Z_FINISH: behind what deflate holds goes the end of the stream, once.
Finished(z) ==
  IF z.ended THEN z
  ELSE [z EXCEPT !.ended = TRUE, !.pending = Append(@, EndOfStream)]

\* deflate with Z_FINISH puts what fits into m_nOutBuffer.  When it fits
\* exactly, zlib may or may not report the end of the stream.
finish ==
  LET z == Finished(zip[m_pCurrentStream])
      room == BufferSize - Len(z.out)
      n == Smaller(room, Len(z.pending))
  IN  /\ call.pc = "finish"
      /\ \/ /\ room = 0
            /\ Throw
            /\ UNCHANGED <<zip, failures>>
         \/ /\ room > 0
            /\ zip' = [zip EXCEPT ![m_pCurrentStream] = Deflated(z, z.pending, n)]
            /\ \/ n = room /\ Goto("spill")
               \/ n = Len(z.pending) /\ Goto("flush")
      /\ UNCHANGED <<writerState, fileState, given, spoiled>>

\* writeDeflatedBuffer of the full buffer in the loop of finishDeflate, and of
\* the rest behind the loop, followed by deflateEnd.
FinishWrites(pc, initialized, next) ==
  /\ call.pc = pc
  /\ \/ /\ WriteOut(m_pCurrentStream)
        /\ zip' = [zip EXCEPT ![m_pCurrentStream] = Written(@, initialized)]
        /\ Goto(next)
     \/ /\ Fail
        /\ UNCHANGED <<writerState, zip, fileState>>
  /\ UNCHANGED <<given, spoiled>>

spill == FinishWrites("spill", TRUE, "finish")

\* Mutant of flush: finishDeflate does not reset m_bIsInitialized.
flushKeepsStream == FinishWrites("flush", TRUE, "descriptor")

flush == FinishWrites("flush", FALSE, "descriptor")

\* A part of the local header is overwritten: the seek may fail, or the write.
Patch(pc, p, block, next) ==
  /\ call.pc = pc
  /\ \/ Write(p, <<block>>) /\ Goto(next)
     \/ Fail /\ position' \in {position, p} /\ UNCHANGED file
  /\ UNCHANGED <<writerState, zip, given, spoiled>>

\* Mutant of descriptor: the header of the first entry is patched.
descriptorOfFirst ==
  Patch("descriptor", m_Entries[1].m_nFilePosition,
        HeaderBlock(Current.m_nCRC32), "extra")

descriptor ==
  Patch("descriptor", Current.m_nFilePosition, HeaderBlock(Current.m_nCRC32),
        "extra")

extra ==
  Patch("extra", Current.m_nExtInfoPosition,
        ExtraBlock(Current.m_nCompressedSize, Current.m_nUncompressedSize),
        "end")

\* Mutant of end: the stream stays where the local header was patched.
endNoSeek ==
  /\ call.pc = "end"
  /\ NoCurrentEntry
  /\ Goto(AfterClose)
  /\ UNCHANGED <<fileState, zip, given, spoiled>>

\* seekFromEnd.
end ==
  /\ call.pc = "end"
  /\ \/ /\ position' = Len(file)
        /\ NoCurrentEntry
        /\ Goto(AfterClose)
     \/ /\ Fail
        /\ UNCHANGED <<position, writerState>>
  /\ UNCHANGED <<file, zip, given, spoiled>>

-----------------------------------------------------------------------------
(* The steps of createEntry behind closeEntry.                             *)

\* The key of the new entry, and the checks that refuse it.
key ==
  /\ call.pc = "key"
  /\ m_nCurrentEntryKey' = m_nNextEntryKey
  /\ m_nNextEntryKey' = m_nNextEntryKey + 1
  /\ \/ /\ m_nNextEntryKey + 1 >= MaxKey \/ call.name \in LongNames
        /\ Throw
        /\ UNCHANGED failures
     \/ /\ m_nNextEntryKey + 1 < MaxKey /\ call.name \notin LongNames
        /\ Goto("header")
  /\ UNCHANGED <<m_Entries, m_pCurrentEntry, m_pCurrentStream, m_bIsFinished,
                 zip, fileState, given, spoiled>>

NewEntry ==
  [name |-> call.name, key |-> m_nCurrentEntryKey, m_nCRC32 |-> <<>>,
   m_nCompressedSize |-> 0, m_nUncompressedSize |-> 0,
   m_nFilePosition |-> position, m_nExtInfoPosition |-> position + 2,
   m_nDataPosition |-> position + 3]

\* The local header, its name and its extra field are written, or some of them
\* and then a write throws.
header ==
  LET blocks == <<HeaderBlock(<<>>), NameBlock(call.name), ExtraBlock(0, 0)>>
  IN  /\ call.pc = "header"
      /\ \/ /\ Write(position, blocks)
            /\ m_Entries' = Append(m_Entries, NewEntry)
            /\ m_pCurrentEntry' = TRUE
            /\ Goto("stream")
         \/ /\ \E n \in 0 .. 2 : Write(position, SubSeq(blocks, 1, n))
            /\ Fail
            /\ UNCHANGED <<m_Entries, m_pCurrentEntry>>
      /\ UNCHANGED <<m_pCurrentStream, m_nCurrentEntryKey, m_nNextEntryKey,
                     m_bIsFinished, zip, given, spoiled>>

NewStream == [NoStream EXCEPT !.m_bIsInitialized = TRUE]

\* The constructor of CExportStream_ZIP: deflateInit2 may fail.
stream ==
  /\ call.pc = "stream"
  /\ \/ /\ m_pCurrentStream' = m_nCurrentEntryKey
        /\ zip' = [zip EXCEPT ![m_nCurrentEntryKey] = NewStream]
        /\ call' = Idle
        /\ UNCHANGED <<lifetime, failures>>
     \/ /\ Fail
        /\ UNCHANGED <<m_pCurrentStream, zip>>
  /\ UNCHANGED <<m_Entries, m_pCurrentEntry, m_nCurrentEntryKey,
                 m_nNextEntryKey, m_bIsFinished, fileState, given, spoiled>>

-----------------------------------------------------------------------------
(* writeDirectory.                                                         *)

DirectoryBlock(entry) ==
  [kind |-> "directory", name |-> entry.name, m_nCRC32 |-> entry.m_nCRC32,
   m_nCompressedSize |-> entry.m_nCompressedSize,
   m_nUncompressedSize |-> entry.m_nUncompressedSize,
   m_nRelativeOffsetOfLocalHeader |-> entry.m_nFilePosition]

\* The central directory and the ZIP64 end records.
DirectoryBlocks ==
  [i \in DOMAIN m_Entries |-> DirectoryBlock(m_Entries[i])]
  \o <<[kind |-> "end", entries |-> Len(m_Entries), offset |-> position]>>

directory ==
  /\ call.pc = "directory"
  /\ \/ /\ Write(position, DirectoryBlocks)
        /\ m_bIsFinished' = TRUE
        /\ lifetime' = "destroyed"
        /\ call' = Idle
        /\ UNCHANGED failures
     \/ /\ \E n \in 0 .. Len(m_Entries) :
             Write(position, SubSeq(DirectoryBlocks, 1, n))
        /\ Fail
        /\ UNCHANGED m_bIsFinished
  /\ UNCHANGED <<m_Entries, m_pCurrentEntry, m_pCurrentStream,
                 m_nCurrentEntryKey, m_nNextEntryKey, zip, given, spoiled>>

-----------------------------------------------------------------------------

Init ==
  /\ m_Entries = <<>>
  /\ m_pCurrentEntry = FALSE
  /\ m_pCurrentStream = 0
  /\ m_nCurrentEntryKey = 0
  /\ m_nNextEntryKey = 1
  /\ m_bIsFinished = FALSE
  /\ zip = [k \in Keys |-> NoStream]
  /\ file = <<>>
  /\ position = 0
  /\ lifetime = "open"
  /\ call = Idle
  /\ failures = 0
  /\ given = [k \in Keys |-> <<>>]
  /\ spoiled = {}

Next ==
  \/ \E name \in Names : createEntry(name)
  \/ \E k \in Keys, data \in Chunks : writeBuffer(k, data)
  \/ destroy
  \/ deflate \/ drain
  \/ close \/ finish \/ spill \/ flush \/ descriptor \/ extra \/ end
  \/ key \/ header \/ stream
  \/ directory

Spec == Init /\ [][Next]_vars

-----------------------------------------------------------------------------
(* Properties.                                                             *)

\* What a reader that starts at the end record finds for entry i.
EndRecord == file[Len(file)]

Record(i) == file[EndRecord.offset + i]

\* The data behind a local header is what the client wrote, compressed.
Holds(start, size, data) ==
  /\ size = Len(data) + 1
  /\ \A j \in 1 .. size :
       file[start + j] =
         [kind |-> "data",
          byte |-> IF j <= Len(data) THEN data[j] ELSE EndOfStream]

\* A reader of a finished archive finds every entry whose stream createEntry
\* had returned, in the order of their creation, and in it exactly the data
\* that the client wrote to that stream, with the right sizes and checksum in
\* the directory and in the local header, whatever calls threw in between; an
\* entry in which a write threw is excepted.  And the destructor, which writes
\* the directory, fails to finish the archive only if the export stream or zlib
\* has failed: an entry that createEntry refused does no harm.
FinishedArchiveReadsBack ==
  /\ lifetime = "terminated" => failures > 0
  /\ m_bIsFinished =>
       /\ EndRecord.kind = "end"
       /\ EndRecord.entries = Len(m_Entries)
       /\ \A k \in Keys : given[k] # <<>> => \E i \in DOMAIN m_Entries :
            m_Entries[i].key = k
       /\ \A i \in DOMAIN m_Entries :
            LET k == m_Entries[i].key
                record == Record(i)
                start == record.m_nRelativeOffsetOfLocalHeader
            IN  /\ record.kind = "directory"
                /\ file[start + 1] = HeaderBlock(record.m_nCRC32)
                /\ file[start + 2] = NameBlock(record.name)
                /\ file[start + 3] = ExtraBlock(record.m_nCompressedSize,
                                                record.m_nUncompressedSize)
                /\ k \notin spoiled =>
                     /\ record.m_nCRC32 = given[k]
                     /\ record.m_nUncompressedSize = Len(given[k])
                     /\ Holds(start + 3, record.m_nCompressedSize, given[k])

\* An initialized entry stream is the one of the current entry of a writer that
\* is alive: the data of a stream that a client kept can never end up in another
\* entry, and neither a write nor the stream's destructor uses the writer through
\* a dangling m_pZIPWriter.
StaleStreamsAreClosed ==
  \A k \in Keys :
    zip[k].m_bIsInitialized =>
      /\ m_pCurrentEntry /\ lifetime # "destroyed"
      /\ m_nCurrentEntryKey = k
      /\ m_Entries[Len(m_Entries)].key = k

\* No step changes the header or the data of an entry that was closed.
ClosedEntriesAreFinal ==
  [][\A i \in DOMAIN m_Entries :
       i < Len(m_Entries) \/ ~m_pCurrentEntry =>
         /\ m_Entries'[i] = m_Entries[i]
         /\ \A j \in m_Entries[i].m_nFilePosition + 1 ..
                     m_Entries[i].m_nDataPosition
                       + m_Entries[i].m_nCompressedSize :
              file'[j] = file[j]]_vars
=============================================================================
