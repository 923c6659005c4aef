# lib3mf in TLA+

lib3mf reads and writes 3MF files: ZIP archives (OPC packages) that hold XML
model parts, textures and, as an extension of this repository, binary streams
for large arrays. Clients use it through a C API whose objects wrap the classes
under `Source/Model` and `Source/Common`. The library is sequential: no thread
is started by it. What makes it hard is state that outlives the call that made
it (IDs, handles, raw pointers, lookup tables), references between objects that
are checked once and never again, streams that are buffered, patched and closed
in several steps each of which can throw, and a model that is cleared and used
again.

This directory holds TLA+ modules that model the parts of the library with such
state, TLC configurations for small instances, and TLAPS proofs for the binary
stream format, the ZIP writer, the packages an export leaves, the tables and IDs of
the package model, the parts of a model that share no state with each other, and the
model a reader builds from any document.

## Inventory

| Part | State | Operations | What is hard | Modelled in |
|---|---|---|---|---|
| Chunked binary streams (`Source/Common/ChunkedBinaryStream`) | open chunk, entries, compressed data, header fields, the reader's cached chunk | add array, begin and finish chunk, finish writing; read an entry | header patched after the data; entry IDs and offsets across chunks; caches on the reading side; the same file seen by both sides | `ChunkedBinaryStreamWriter`, `ChunkedBinaryStream` (proved) |
| ZIP writer (`NMR_PortableZIPWriter*`, `NMR_ExportStream_ZIP`) | current entry, list of entries, one deflate stream per entry, the file with its position | create and close an entry, write through its stream, write the directory in the destructor | any access may throw; local headers patched by seeking back; streams kept by clients after the entry or the writer is gone | `PortableZIPWriter` (proved) |
| Package model: resources (`NMR_Model`, `NMR_PackageResourceID`, readers) | resources with three kinds of ID, eight lookup tables, build items with handles, the current path | API `Add*`, reading of multi-part packages, STL import, `clearAll` | clearing keeps part of the state; construction and addition are two steps; IDs are generated from what is present | `ResourceModel` (proved) |
| Merging (`CModel::MergeToModel`) | the new model and the ID mapping | six `merge*` loops and `patchMeshInformationResources` | order of the loops, stale tables, IDs of the source inside the copy | `MergeToModel` (composes two instances of `ResourceModel`; proved) |
| Slice stacks (`NMR_ModelSliceStack`) | slices, references, bottom | `AddSlice`, `AddSliceRef`, `CollapseSliceReferences` | the checks of a reference hold when it is made; the stacks change later | `SliceStack` (proved) |
| UUIDs (`CModel::registerUUID` and the owners) | `usedUUIDs`, a UUID per owner | construction, `setUUID`, removal, `clearAll` | registering and unregistering in two steps by several classes | `UUIDRegistry` (proved) |
| Metadata (`NMR_ModelMetaDataGroup`, `NMR_ModelMetaData`) | a list and a map of the same entries | add, remove by index or object, rename, clear | the list and the map are kept by different operations | `MetaDataGroup` (proved) |
| Attachments (`CModel::addAttachment`, `lib3mf_attachment`, textures) | a list and a map by path, the textures' pointers | add, remove, `SetPath`, texture creation and reassignment, thumbnails | handles outlive their attachment; `SetPath` is a removal and an addition | `Attachments` (proved) |
| Objects (`NMR_ModelComponentsObject`, `getSortedObjectList`, beam lattices) | components, representation meshes, the lookup table | add objects and components, set representations, sort for writing | what is checked when a reference is made decides the order in a file written later | `ObjectOrder` (proved) |
| Property groups (`NMR_ModelBaseMaterials`, `...ColorGroup`, `...Texture2DGroup`, `...CompositeMaterials`, `...MultiPropertyGroup`) | properties by ID, the next ID, a cached index map, layers, the properties of faces | add, set, remove, layers; write, read, merge | IDs in the model and places in the file differ after a removal; the cached map can be stale | `PropertyGroups` (proved) |
| Meshes (`Common/Mesh`, `Common/MeshInformation`, `NMR_ModelMeshObject`, `lib3mf_meshobject`, `lib3mf_beamlattice`, `lib3mf_beamset`) | nodes, faces, beams, beam sets, one property record per face and a default record | the API of mesh objects, lattices and sets; `mergeMesh`, `isManifoldAndOriented`, STL export | calls that throw half-way; indices checked late; records and faces that must stay in step | `Meshes`, `MeshGeometry` (proved) |
| Toolpath layers (`NMR_ModelToolpathLayerWriteData`) | phase, registered IDs, segments, the stream, what was handed to the writer | add a layer, register, assign a stream, write segments, finish, export | a stream assigned after the header; layers finished in any order between exports | `ToolpathLayers` (proved) |
| Reader nodes (`Model/Reader`, all extensions and format 0.93) | the stack of running nodes, flags of the model node, the object being read, warnings | one row of attributes and children per node class; start tag, end tag, end of text | one pass: references resolve at once or never; unknown elements are passed over without a stack; lenient reading goes on after a mistake | `ReaderNodes`, `ModelReader` (proved) |
| Model part writer (`Model/Writer/v100`) | none | the order of resources, objects, build | the order must be one the reader can follow | `ModelWriter`, composed with the reader in `RoundTrip` |
| XML reader (`NMR_XmlReader_Native`) | two buffers, entity list, postponed zeros, overflow | fill a buffer, parse, hand out entities | an entity cut by the end of a buffer is parsed again; strings end where a delimiter is overwritten | `XmlReader` |
| Export and OPC packages (`NMR_ModelWriter_3MF*`, `Common/OPC`, `NMR_ModelReader_3MF_Native`) | the writer's streams and layers, the package under construction, attachments the export adds to the model | the steps of `writePackageToStream`, abort at every query, failing copies, reading the result | the package is finished by a destructor, whatever happened; exports change the model and are repeated | `PackageExport`, `Package` (proved in part) |

For each part, what makes it correct: an array is read as it was written; a
finished archive reads back; the model's tables list what it holds and IDs and
handles name one thing; a merged model is a copy; references between stacks and
objects are acyclic and in writing order; a registry knows exactly the UUIDs in
use; list and map agree; a package a reader accepts is whole; a face keeps the
property it shows; the reader ends, keeps its place in the document and leaves a
consistent model; what is written is read as it was; entities do not depend on
buffers.

Parts that are not modelled, or not yet, are listed in `PROJECT.json` with the
reason. The wrappers generated by the Automatic Component Toolkit, the vendored
zlib, libzip and lzma, and the arithmetic of vectors and matrices are outside:
they hold no protocol of this repository.

## Modules and how they correspond to the code

| Module | Models | Uses |
|---|---|---|
| `ChunkedBinaryStreamWriter` | `CChunkedBinaryStreamWriter` | |
| `ChunkedBinaryStream` | the writer and `CChunkedBinaryStreamReader` over the stream it left | `ChunkedBinaryStreamWriter` |
| `ChunkedBinaryStreamInv`, `ChunkedBinaryStreamProofs` | the inductive invariant and its proofs | the two above |
| `ListTheorems` | lemmas about lists that several proofs need | |
| `PortableZIPWriter` | `CPortableZIPWriter`, its entries and `CExportStream_ZIP` | |
| `PortableZIPWriterProofs` | its inductive invariant and the proofs of its properties | `PortableZIPWriter`, `ListTheorems` |
| `ResourceModel` | `CModel`, `CResourceHandler`, readers as far as they make resources | |
| `MergeToModel` | `CModel::MergeToModel` | `ResourceModel`, extended and instantiated as the new model |
| `ResourceModelProofs` | the inductive invariants of both and the proofs of their properties | `MergeToModel`, `ListTheorems` |
| `MetaDataGroup`, `UUIDRegistry`, `Attachments`, `ObjectOrder`, `SliceStack`, `Meshes`, `MeshGeometry`, `ToolpathLayers` | one part of a `CModel` each | |
| `ModelParts` | these parts in one model | the eight above |
| `ModelPartsProofs` | the proofs of each part, and of the parts together | `ModelParts`, `ListTheorems` |
| `PropertyGroups` | the five kinds of property groups, faces that name their properties, write, read and merge | |
| `PropertyGroupsProofs` | its invariant, what is read back and merged, and the proofs of both properties | `PropertyGroups`, `ListTheorems` |
| `ReaderNodes` | the grammar: one row per reader node class | |
| `ModelReader` | `CModelReader_3MF::readStream`, `CModelReaderNode::parseContent` and the effect of every node on the model | `ReaderNodes` |
| `ModelReaderProofs` | the inductive invariants of reading and what they prove | `ModelReader`, `ListTheorems` |
| `ModelWriter` | `CModelWriterNode100_Model` and `_Mesh`: a model to the tags of its parts | |
| `RoundTrip` | API, writer and reader together, with cancelled reads | `ModelReader`, extended; `ModelWriter`, instantiated |
| `XmlReader` | `CXmlReader_Native` | |
| `PackageExport` | `CModelWriter_3MF_Native`, `COpcPackageWriter` | |
| `Package` | `CModelReader_3MF_Native`, `COpcPackageReader` on what the export left | `PackageExport` |
| `PackageProofs` | the inductive invariant of exports and archives and what it proves | `Package`, `ListTheorems` |

`PROJECT.json` maps every definition to its lines. Three conventions hold in all
modules. A call that throws before it changes anything is a step that is not
taken; a call that throws half-way is an action of its own. Names of members and
methods are those of the source. A definition preceded by "Mutant of" is a
plausible bug that shows the property it is listed with can fail; no
specification uses it.

### Chunked binary streams

The writer gathers the arrays in the current chunk: words in
`m_CurrentChunkData`, entries with the position, size and type of each array.
`finishChunk` writes the entry table and the compressed data and fills the
descriptor; `finishWriting` writes the table of chunks and the header in front.
The stream is a sequence of blocks. `addFloatArray` can throw after it has
pushed words, and LZMA can fail in `finishChunk`: both leave a chunk that is not
what its descriptor says, and the history variable `damaged` remembers it.
Integers have the width `HalfRange` gives them (32 bits in the code), so that the
differences of delta arrays wrap, those of two numbers of units as well: the limit
`MaxFloatUnits` is 2^30 in the code and a difference of two may be 2^31. Floats are
multiples of a smallest grain; `One` is how many of them are 1.0. Single precision is
four operators, constants of the module: `Quotient` is the division of a value by the
unit and the truncation, `Product` the multiplication back, `BitsOf` and `FloatOf` the
word a unit is stored as. `FloatAssumption` says how far a rounded quotient and product
may be off, one part in `FloatPrecision` (2^23 or more in the code). So a value comes
back to about one unit as long as it is small, and to three roundings of itself when
it is large.

The reader opens only a finished stream, checks every chunk against
`MaxChunkDataSize`, and reads an array by the ID of its entry one value per step,
through the cache of decompressed chunks that `clearCache` may drop between
reads.

### ZIP writer

`PortableZIPWriter` keeps the file as a sequence of blocks at a position, so that
seeking back and overwriting are visible, and one stream record per entry. An
access of the export stream or zlib may fail at most `MaxFailures` times, at any
access. `closeEntry` and `createEntry` are split into the steps between which an
access can fail; the destructor writes the directory.

### Resources, merging

`ResourceModel` keeps one function from unique IDs to resources: its domain is
what `CResourceHandler` knows, `m_Resources` is what the model holds, and the
difference is what clearing and failed readings leave behind. Reading a package is
a sequence of steps (enter a part, read a resource, read a malformed resource,
end) so that an abort can happen between any two. `MergeToModel` extends it with
a second instance of itself, `New`, and copies one resource per step.

### Parts of a model that share no state

`MetaDataGroup`, `UUIDRegistry`, `Attachments`, `ObjectOrder`, `SliceStack`,
`Meshes`, `MeshGeometry` and `ToolpathLayers` each declare their own variables,
initial states and steps. No operation of the library reads one of them to change
another (`clearAll` clears each by itself), and every property is about one of
them, so a behaviour of the whole model violates it exactly if the steps of that
part alone do. `ModelParts` uses that: a behaviour moves one part and leaves the
others in their initial state. UUIDs are numbered: the next one `CUUID()` draws was
never seen, and a client may set any other. `getHighestZ`, the component depth and
the sort of the writer are functions on small graphs.

A mesh is seen twice. `Meshes` has the property records of its faces, and whether it has nodes at all, without
which `mergeMesh` copies no face: the table
that `createInformation` makes for the faces present, the record every later face
adds, and what `mergeMesh` copies; data nobody wrote is `Uninitialised`.
A merge that throws half-way, at a face with a node that is not there or a coordinate
too large, ends with its target thrown away by every caller of `mergeToMesh`
(`MergeThrows`). `MeshGeometry` has node indices, beams and beam sets, without positions. Calls that
throw half-way (`SetGeometry`, `SetBeams`, `SetReferences`) keep what they had done.
`isManifoldAndOriented` counts the orientations of every edge as the code does with
its matching tree; the STL export merges the mesh once per build item and lists the
facets.

`ToolpathLayers` is the layer writer: header, data, finished. A segment says
whether its points went to the text or to the stream; an export lists all layers of
the model, finishes the streams that were used and has the parts of those layers that
were handed over. A segment for a finished stream throws when its element has been
started (`WriteSegmentThrows`); `depth` counts the elements that are open, of which
the layer ends two. Streams are given to layers only; `PackageExport` has those of
meshes.

### Property groups

`PropertyGroups` has one group of each kind and a mesh of one face. A property is
known by an ID that counts up; the writer, the reader and the merge translate
between IDs and places with the index map, which is a variable because it is a
cache. A file is the sequence of properties in the order of their places;
`WriteAndRead` applies the writer's translation and then the reader's. The
properties compare what a face shows (`FaceMeaning`), not its numbers.

### Reading and writing model parts

`ReaderNodes` is a table. A row says, for every attribute of a node class, what it
costs to leave it out, to give it twice or to give it a value that does not
convert, and which children go to which class. `ModelReader` runs the table:
`frames` are the nodes whose `parseContent` is running, a start tag opens a child
node or is passed over, an end tag closes the node of that local name. What a node
does to the model is done when the code does it, some of it when the node opens
(an object takes its ID, a geometry is added), the rest when it closes. The
document is the environment: one of a catalogue that uses every node class, with at
most `MaxMistakes` mistakes at any place. `strict` decides which warnings throw.

`ModelWriter` maps a model to the start tags of its root and slice parts in the
order the code writes them, and says when the writer throws. The reader looks at three
values of what it has read, and not at the tag: the type of a built object, the polygons
of an object's slices, the type of an object with beams. Such a tag carries the outcome
`ReaderNodes` lists for it; `ModelWriter` gives it to the tags of the models concerned
(the third cannot be built: `SetType` and `AddBeam` both check it). `RoundTrip` lets a
client build a model through the API, writes it, reads it with `ModelReader`, and
may cancel the read wherever the progress callback is queried and read once more
into the same model.

`XmlReader` works on character classes. The parser is a fold of `parseChar` over
the buffer with one mode per parse function of the source; zeros are written at
the place and time the code writes them, and a string ends at the first zero.

### Packages

`PackageExport` has one action per step of `exportToStream` and
`writePackageToStream`: the root model, the thumbnail, one slice part, one
attachment, the content types, one binary stream, one layer. The package under
construction is a record (parts in order, whether content types were added, root
and part relationships), and every way out goes through `Leave`, the destructor
of `COpcPackageWriter`, which turns that record into the archive. Between exports
a client adds attachments, slice stacks with paths of their own, streams, arrays
and layers; paths have a name and a leading delimiter or none, because some
operations compare the spelling and others do not. What the API takes and a writer
node refuses later (a mesh without faces in a binary stream, properties without one of
the object, tilted slices, a missing thumbnail, a slice of one vertex) is `refused`: of
the root part or of the slices of a stack, which throw at different steps of an export
(`writeModelStreamThrows`, `writeSliceStackStreamThrows`). A part's content is a tuple
that says what it was written from. `Package` adds what the reader requires of an
archive and the model it makes of it. A client reads a package before it goes on
changing the model: reading makes a new model, so an order with the changes first
shows nothing else.

## Runs

| Run | Bounds | Shows |
|---|---|---|
| `chunked_stream` | words of 5 bits (`HalfRange` 16), `MaxFloatUnits` 8 (half of it, as in the code), floats with a significand of 3 bits, chunk limit 40 bytes, 4 arrays, 2 chunks, 5 blocks | what is written is what is read, for every order of additions, chunks, failures and reads, where differences wrap and floats are rounded; a finished stream does not change; small chunks are accepted |
| `zip_writer` | names `model` and `long`, 4 entry keys, output buffer of 2, 4 blocks of data, 2 failures | a finished archive reads back, whatever failed before; streams of closed entries stay closed |
| `resource_model` | five kinds of resources, three resources, IDs up to 2, one part besides the root, 4 handles, 2 layers | tables, references, layers, handles and IDs stay consistent over clearing and rereading |
| `merge` | mesh, texture, texture group, base and composite materials, three resources, 3 handles | a merge copies every table in order and fails only for what the source is |
| `model_parts` | 3 metadata, 4 owners and 6 UUIDs, 3 attachments with one texture, 4 objects with 2 components each, 3 stacks with Z up to 2; 2 meshes of up to 2 faces and 3 merges; 4 nodes and 4 elements of a geometry exported for 2 items; 2 layers, a stream and 2 exports | each of the eight parts keeps its invariants |
| `package` | two part names (one is that of the thumbnail), each in two spellings, 2 parts besides the thumbnail, 2 arrays per stream, one refused thing, three exports, one failing copy | accepted packages are whole, relationships resolve, a completed export reads back, a repeated one is the same |
| `model_reader` | nine packages (assembly of two parts, base materials with colours and multi properties, textures, composites, beam lattices, slices in two parts, compressed meshes, toolpaths, format 0.93), one mistake, strict and lenient | the reader keeps its place, ends, leaves a consistent model, and is strict about no more than the format |
| `round_trip` | eleven clients with up to 3 resources of a kind, meshes empty, with faces, with beams or in a binary stream, objects of three types, slices closed, open or of one point; one cancelled read | what is written is read exactly if it is `Readable`, and is then the same model |
| `property_groups` | 3 base materials; with a composite; colours, a coordinate and a multi property with 2 layers; 2 settings of the mesh; IDs up to 3 | faces keep what they show |
| `composites` | the same | a finding |
| `xml_reader` | texts of up to three of 14 pieces (tags, attributes, texts, comments, processing instructions, malformed ones), buffers of 4 to 20 characters | entities, strings and the end do not depend on the buffer |
| `text_ends` | the same, a buffer of 9 | a finding |

Why the bounds are enough to reach the interesting cases: four arrays and two
chunks put an array in front of, behind and beside a failed one; three resources
are a referenced resource, one that refers to it and one added after a clear; two
IDs and two parts let the same pair of path and ID appear twice; three stacks make
a chain and a fork of references; two failures make an access fail and the cleanup
after it fail as well; three exports and two names with two spellings make a part
meet a stream, a layer or the thumbnail of its name, and a repeated export meet
what the first left in the model. `MaxHandles` stands for `NMR_MAXHANDLE` so that
the limit is met. Four nodes are a tetrahedron, the smallest closed mesh; its four
faces use up the elements, and fewer faces leave room for beams and sets. One
mistake in a package is enough to reach every error path of every node class,
because each is about one attribute or element; two would only be seen by the
reader one after the other. Buffers of 4 characters and more cut every piece at
every place.

### Findings

Each run with a violation states what a comment or a test says; `PROJECT.json`
quotes the line.

* `composites`: a composite material that does not use the first base materials of
  its group is read back with other materials
  (`NMR_ModelReaderNode100_CompositeMaterials.cpp:86`).
* `text_ends`: the text in front of a tag that the end of the buffer cuts is handed
  out without its terminating zero (`NMR_XmlReader_Native.cpp:557`).

Noted while modelling, without a run of their own. The properties of the passing
runs state what holds in spite of them:

* Removing metadata keeps its key in the map (`NMR_ModelMetaDataGroup.cpp:95`), the
  API compares names only (`lib3mf_metadatagroup.cpp:87`), and renaming can give two
  entries one key (`NMR_ModelMetaData.cpp:89`).
* `SetPath` to a path that is taken loses the attachment
  (`lib3mf_attachment.cpp:68`), and textures keep the object that `SetPath`
  replaced (`lib3mf_attachment.cpp:69`).
* `clearAll` forgets the Texture2DGroup table (`NMR_Model.cpp:483`), so that a
  later merge throws; merged multi property groups keep the unique IDs of the
  source (`NMR_ModelMultiPropertyGroup.cpp:197`).
* Depth and order of slice references are checked once, when the reference is made
  (`NMR_ModelSliceStack.cpp:81` and `:84`).
* Components draw a UUID without registering it (`NMR_ModelComponent.cpp:46`).
* A stack whose path changes after an export is written under both paths; stacks
  with the paths `/a` and `a` overwrite each other's slices; streams, layers and
  attachments of one name give the archive two entries of that name; a writer whose
  mesh goes to a binary stream cannot export twice; and an abort at the last two
  queries is reported though the package is complete.
* The check of a layer index underflows for an empty group
  (`NMR_ModelMultiPropertyGroup.cpp:176`), `getBuildItem` accepts one index too many
  (`NMR_Model.cpp:302`), and `addResource` compares the number of metadata with the
  limit of resources (`NMR_Model.cpp:230`).
* Without prediction `addFloatArray` stores truncated values and not units
  (`NMR_ChunkedBinaryStreamWriter.cpp:247`), and a mesh in a binary stream is
  written without the properties of its triangles
  (`NMR_ModelWriterNode100_Mesh.cpp:222`).
* The destructors of the ZIP and the package writer let exceptions out: a failing
  export stream ends the program (`NMR_OpcPackageWriter.cpp:55`).
* A failed `addFloatArray` leaves words in the chunk that its declared size does not
  count (`NMR_ChunkedBinaryStreamWriter.cpp:236`, the assertion at `:86`).
* After a reader was queried on a filled model, `generateResourceID` returns an ID
  that is refused, because `clearAll` leaves the resource handler
  (`NMR_Model.cpp:478`); for the same reason a read that was cancelled and tried
  again on the same model mostly fails.
* `CollapseSliceReferences` keeps the references; the order of two meshes that
  `SetRepresentation` checks (`lib3mf_beamlattice.cpp:124`) is not always the order
  in which they are written; two components objects can be components of each other
  (`lib3mf_componentsobject.cpp:87`), and then the export does not end.
* A merge renumbers the properties of groups and leaves the IDs of faces: after a
  removal the faces of the merged model show other properties.
* Metadata with a name that is there already throw in lenient reading as well
  (`NMR_ModelMetaDataGroup.cpp:52`); a document that ends early is accepted; end tags
  are compared by local name only (`NMR_ModelReaderNode.cpp:202`).
* Slice stacks that refer to a later stack, and objects whose stack has a path of its
  own, are written and cannot be read; nor can build items of an object of type other
  (`lib3mf_object.cpp:90`, `NMR_ModelReaderNode100_BuildItem.cpp:89`) and objects whose
  slices have open polygons, of whatever type, since the test in
  `NMR_ModelReaderNode100_Object.cpp:300` is always true; an empty mesh in a binary stream makes the
  export throw.
* `SetBeams` and `SetGeometry` clear first and throw midway; `SetReferences`
  (`lib3mf_beamset.cpp:76`) leaves zeros and old references; a mesh with faces and no
  nodes exports an empty STL file; the default record of a merged mesh may be
  uninitialised (`NMR_MeshInformation_Properties.cpp:122`).
* `SetAllTriangleProperties` leaves an empty default record
  (`lib3mf_meshobject.cpp:276`).
* A stream assigned to a toolpath layer after its header is used and not named; two
  layers of one path give one part; a layer listed and not finished has none; a segment
  added after an export has finished the stream throws and leaves its element open, so
  that the text of the layer lacks end elements
  (`NMR_ModelToolpathLayerWriteData.cpp:128`).
* The build item of a merged model has a handle that the source model's counter gave
  (`lib3mf_model.cpp:436`), although a handle is to be unique
  (`NMR_ModelBuildItem.h:96`): an item the client adds to the merged model may get the
  same one, and `RemoveBuildItem` then takes the merged item for it.
* What the API lets a client do to a model makes merging it throw: two metadata renamed
  to one key, a composite of a removed material, a texture whose attachment changed its
  type (`lib3mf_model.cpp:419`).
* A triangle whose property index is out of range, or whose property ID is unknown, is a
  warning that strict reading throws; one whose ID is known and whose resource is not in
  the model is read without a word (`NMR_ModelReaderNode100_Triangles.cpp:120`).
* An XML entity longer than the buffer (64 KiB) ends the reading without an error,
  and a text in front of a comment is dropped.

### Deadlock and fairness

The library does what its client asks; a client may stop at any time, so that no
fairness is assumed of its calls. One call must end by itself: `ReadEnds` says that
reading a package ends, for every document and wherever it stops. It is checked
under weak fairness of the reader's steps (`WF_vars(Reads)`), which the code
justifies: the token loop runs in the calling thread, waits for nothing, and every
turn of it consumes a token or throws. `RoundTrip` assumes the same of its reads and
nothing of the client. Where a model reaches a state with nothing left to do (a
bound is met, a file is read, a merge has failed) the cfg says
`CHECK_DEADLOCK FALSE`; elsewhere TLC checks that some operation is always possible.

## Proofs

### Chunked binary streams

The chunked binary stream is proved, for every word width, chunk limit, unit,
array and bound. The assumptions are `SizesAssumption` (the widths and limits are
natural numbers), `ClientsAssumption` (arrays are sequences of words or of floats whose
conversion to an integer is defined, units are positive, and a number of units fits a
word: 2^30 < 2^31 in the code) and `FloatAssumption` (the bits of a unit give it back,
and a quotient and a product are rounded once). A difference of two numbers of units may
overflow; `TypeCorrect` says that the word stored for it fits, and `FloatArraysCorrect`
that the reader's sum overflows back to the number of units.

| Theorem of `ChunkedBinaryStreamProofs` | Property |
|---|---|
| `TypeCorrect` | `TypeOK`: every word, and the running value of a delta read, fits its type |
| `IntArraysCorrect` | `IntArraysReadBack` |
| `FloatArraysCorrect` | `FloatArraysReadBackWithinUnit` |
| `IntactArraysCorrect` | `IntactArraysAreReadable` |
| `SmallChunksCorrect` | `SmallChunksAreAccepted` |
| `FinishedStreamCorrect` | `FinishedStreamIsFinal` |

None of the properties is inductive: what a read delivers depends on where the
writer put the words, before or after the chunk was closed. `IInv` in
`ChunkedBinaryStreamInv` looks at a chunk through `Table(c)` and `Data(c)`, its
entries and words wherever they are at the moment, in the writer's vectors or on
the stream, so that closing a chunk leaves most of the invariant as it was. Its
parts are: a chunk is open only in an unfinished stream (`OpenInv`); descriptors of
closed chunks point to their blocks (`BlocksInv`); entries tile the declared size,
and the data cover it (`TableInv`); IDs are given out once (`IDsInv`); an array
written has its entry, and if no call threw in its chunk before, its words are
where the entry says (`WrittenInv`); a finished stream has the table its header
names (`FinishedInv`); an open reader has the tables of the stream and caches what
is there (`ReaderInv`); a call stays inside the cached chunk (`CallInv`); and what
it has delivered so far is the beginning of the array (`ReadInv`).
The first half of `ChunkedBinaryStreamProofs` shows that the steps of the writer keep
the first seven, the second adds the reader, and `Invariance` is `Spec => []IInv`. Each theorem follows from it.

### ZIP writer

`PortableZIPWriterProofs` proves every property of the run `zip_writer`, for any
number of entries, length of the data, size of zlib's output buffer and number of
failures. `ZIPAssumption` says that no byte is the end of a stream, that chunks of
data are not empty and that there is a key and room in the buffer.

| Theorem | Property |
|---|---|
| `ZIPInvariant` | `ZIPInv`, the inductive invariant |
| `StreamsCorrect` | `StaleStreamsAreClosed` |
| `ArchiveCorrect` | `FinishedArchiveReadsBack` |
| `EntriesAreFinal` | `ClosedEntriesAreFinal`, an action property |

That a finished archive reads back is decided long before it is finished, so the
invariant follows the bytes. `Layout` says that entries lie one behind the other,
the current one at the end of the file, and that the write position is the end
unless a local header is being patched or was when an access failed. `Flows` is the
data of one entry: what is in the file, followed by what is on its way (the output
buffer, what zlib holds, the rest of the call's data), is what the stream was given
and, once `deflate` was told to finish, the end of the stream. `OpenContents` says
it of the current entry unless a failed write spoiled it, `ClosedContents` of the
others with nothing on its way and the local header patched. `Checksums`,
`KeysGrow` and `Directory` tie the records, the keys and the directory to that;
`Pointers`, `Steps` and `Failed` say what each step of a call may rely on and that
a current entry which cannot be closed is the work of a failure. One lemma per
step shows that it keeps the invariant; `FileChanges` and `CurrentChanges` do what
all steps of a kind have in common.

### Resources and merging

`ResourceModelProofs` proves every property of the runs `resource_model` and
`merge` for any set of kinds and parts and any bounds
(`ResourceModelAssumption`: the root is not one of the other parts and the bounds are
positive).

| Theorem | Property |
|---|---|
| `TablesCorrect` | `LookupTablesListTheModel` |
| `ReferencesCorrect` | `ReferencesResolve` |
| `BuildItemsCorrect` | `BuildItemsAreKnownByTheirHandles` |
| `APIModelsCorrect` | `APIModelsNeverCollide` |
| `UniqueIDsCorrect` | `UniqueIDsAreNeverReused`, an action property |
| `MergedModelCorrect` | `MergedModelIsWellFormed` |
| `MergeCopiesCorrect` | `MergeCopiesEveryTable` |

`ModelInv` adds to them what they rest on: handles are below the counter; a parent
is listed in front of its resource (`ParentsComeFirst`), which is more than that it
is there; the layers of a group are some that `addLayer` accepts (`GroupsFit`); and
before a reader is queried every resource ever made is listed and its two IDs are
the same number (`APIModelsAreNumbered`), which is why `generateResourceID` cannot
meet one.

`MergeInv` is about two models at once. Of the source it needs `ModelInv` and a little
more (`SourceFacts`): an entry of a table has the kind of the table even when a
`clearAll` left it behind, and only multi property groups have layers. The new model is
*fresh* (`FreshModel`): it lists 1, 2, 3, ..., each resource has its number as its ID and
refers to a smaller one, its tables are exact. `FreshGrows` shows that one more resource
keeps a model fresh, and `FreshPromises` that a fresh model satisfies the properties of
`ResourceModel`, so that those are not proved a second time. Between the two,
`CopiesAre` says that the mapping takes the first entries of each source table, and
nothing else, to the entries of the new table, and parents to parents. What a property
resource is constructed from has a table that is copied before its own (`TablesOfStages`,
which the mutant that swaps two calls breaks); with `ParentsComeFirst` of the source, a
copy finds its parent unless the original is a leftover of a `clearAll` (`OldInModel`,
`CopiesAccepted`). That is where the list of reasons for a throw comes from
(`WhyMergesFail`): the proof that there is no other is the one of `FailsFor`. Two of them
are taken from the source as they are: a texture or composite group that refuses its own
data, and a mesh, attachments or metadata that do. `ItemsInv` is the inductive half about
the build items: the first has a handle of the source's counter, the others have handles
below the new model's own counter and no two of them the same.

### Parts of a model

| Theorem | Property |
|---|---|
| `ModelPartsProofs.MetaDataCorrect` | `DistinctUnlessRenamed` |
| `ModelPartsProofs.UUIDsCorrect` | `RegistryIsExact` |
| `ModelPartsProofs.AttachmentsCorrect` | `MapAndListAgree` |
| `ModelPartsProofs.AttachmentsStay` | `OthersStayAttached`, an action property |
| `ModelPartsProofs.ObjectOrderCorrect` | `ComponentsAreWrittenFirst` |
| `ModelPartsProofs.SlicesCorrect` | `ReferencesAreOrdered` |
| `ModelPartsProofs.MeshesCorrect` | `MergedMeshIsTheSources` |
| `ModelPartsProofs.ToolpathCorrect` | `ListedLayersHaveTheirParts` |
| `ModelPartsProofs.LatticeCorrect` | `LatticeIsSane` |
| `ModelPartsProofs.ManifoldCorrect` | `ManifoldIsClosed` |
| `ModelPartsProofs.FacetsCorrect` | `FacetsAreTheFaces` |

Each is proved of the part's own specification, for all values of its constants
under the assumption its module states. `PartsAreTheComponents` shows that a
behaviour of `ModelParts` is one of every part, so that `PartsCorrect` has all the
properties of the run `model_parts` for the whole model.

* Metadata, attachments: list and map are compared as a whole; the invariant of
  attachments says besides that no object is listed twice and that each is under its
  own path, which stale handles and `SetPath` would break first.
* UUIDs: `UUIDInv` adds that every UUID in use or registered was drawn before the
  next one, and that an owner's UUID is registered or was drawn for a component.
* Objects: `ObjectOrderInv` says that what objects refer to are objects, and that a
  mesh names itself or an earlier one. `getSortedObjectList` is a sort by the level of
  a recursion over the components, for any number of objects. `LevelsExist` shows that
  the recursion has a solution, `DepthLevels` that the depth of an object is the last
  level it is visited on if the recursion ends, so that the object of a component is
  deeper than the object that uses it (`ComponentsAreDeeper`). The place of an object
  in the list is its rank in `WrittenBefore`; `EveryPlaceIsTaken` (in `ListTheorems`)
  shows that in a finite order every rank is that of exactly one element, and with it
  `SortedObjects` that the list has every object once and follows the order.
* Slice stacks: `getHighestZ` follows the last references and is a recursive
  function, which has a value only where the recursion ends. `HighestExists` shows
  that it does as long as no stack reaches itself (a set of stacks without a way out
  would be a cycle), and `HighestZ` that the height is then no lower than the bottoms
  of the stack and of its last reference. With that, the check of `AddSliceRef` keeps
  stacks acyclic and references rising.
* Meshes: `MeshInv` adds that every mesh has a record per face, of a source without nodes
  none, and that a merged mesh
  has information exactly if one of its sources had, which decides what a face
  without a record gets.
* Toolpaths: `ToolpathInv` says of every export made so far that the layers it listed
  are still there, finished ones as they were, and that the parts handed over are
  those of finished layers (`PartsOf`), then and now; `SegmentsFit` that a layer
  with data has more than its two open elements exactly if a segment is half-written. `StreamsInv` adds that only a
  finished stream leaves one, and that before the first export no stream is finished.
* Geometry: `GeometryInv` adds `ReferencesNameBeams`, a reference is a zero or names
  a beam, which holds of the zeros a refused `SetReferences` leaves and becomes the
  property as soon as there is a beam. `ClosedManifold` counts half edges: an edge
  counted once upwards and once downwards is one with exactly one opposite. For the
  STL file, `MergesExist` and `MergeSolution` unfold the loop over the build items;
  `StlIsCurrent` says that an export is of the mesh as it is.

### Property groups

| Theorem | Property |
|---|---|
| `PropertyGroupsProofs.FacesReadBack` | `FacesKeepTheirProperty` |
| `PropertyGroupsProofs.FacesMerged` | `MergedFacesShowTheSame` |

Both hold for any number of properties, IDs, layers, settings and mixing ratios;
composites have one or two constituents, as in the model. The proof has two parts. What
a file says of a model is proved about any model that fits its declarations (`ModelFits`): an
index map lists the IDs of its group, the smaller ones first (`AscendingIDs`, by
`EveryPlaceIsTaken`), so that the place of an ID leads back to it (`PlacesOfIDs`); then
a property of a simple group (`SimpleReadBack`), a composite whose materials are the
first ones, where the list of the used materials is the start of the list of all
(`AscendingStart`, `CompositeReadBack`), a multi property, layer by layer
(`MeaningReadBack`), and a face, with or without the object's property
(`FaceReadBack`), mean what they meant. For the merge, without removals the index map is
the identity (`AscendingInterval`) and the copy has the groups as they were
(`MergeKeepsIDs`). The invariant is then `ModelFits` and the two properties: the steps
that change a group's IDs are those that clear its index map, and setting a multi
property, which does not clear it, keeps the IDs (`GroupChangeKeeps`).

### Packages that were written

`PackageProofs` proves that an archive is whole, that exporting again writes the
same package and that what a completed export wrote is read again, for any paths and
bounds. Of the constants only the last needs anything: the path of the root model is
no other part's (`PackageAssumption`).

| Theorem | Property |
|---|---|
| `PackagesCorrect` | `AcceptedPackagesAreWhole` |
| `RepeatedExportsCorrect` | `RepeatedExportIsTheSame` |
| `CompletedExportsCorrect` | `CompletedExportReadsBack` |

The first property is about the archive an export left, and most of what it says is
decided while the package is written. `ExportInv` follows the package under
construction: it is a list of parts and finite sets of relationships, each of which
leads to a part (`Linked`); the first part is the root model; the thumbnail is there
once the export has passed it; the attachments in front of the next one are there
(`Attached`); and content types are added after all of them, so that before
the binary streams no package has any. `ArchiveInv` says the
same of the archive and the model it was written from (`Represents`). A throw ends
an export anywhere, and the destructor writes the package as it is then: one lemma
per action shows that what is left is whole (`Leaves`, `PartialLeaves`) and that
what goes on is in its place (`Continues`, `LoopContinues`). The lemmas about
`addPart` and the relationships say that a package only grows (`Grows`), and that
what was there stays (`GrowsKeeps`).

The second compares two exports that share no state but the model, the writer and the
archive, so `RepeatInv` describes an export as a function of those. From the root
model on it is a list of `Steps`, one for each attachment, for the content types and
for each binary stream and layer; `StepIs` says which package a step makes of the last
one, `Built` that a package is what comes before the n-th step (`Progress`: the one
under construction is, at its `Place`), and `BuiltOnce` that there is only one such
package, by the least step at which two would differ. `Repeats` says that, as long as
nobody changes anything after a completed export, the archive is `Built` from the
present streams and layers and from a list of attachments that is the present one
(`Agree`). Two things make that inductive. An export rewrites the slices in the list
one stack at a time, and stacks that share a path name under different spellings
rewrite the same attachment: `Settled` says whose slices an attachment has once the
loop is past the n-th stack, and `Agree` allows other content where a stack is still
`Pending`; when the loop ends both lists are settled and so the same. And the
root model names an array of the mesh's stream: `StreamsClose` says that a stream with
arrays is finished when an export completes, so that one that repeats it throws in the
root model if the mesh has a stream, and the root model is the same if it has none.

The third is about a reader that finds parts by name in what a list of steps made.
`Holds` says that the package before the n-th step has the front (root model and
thumbnail) and the parts and relationships the steps before it wrote, and nothing
else; it follows from `Built` by the least step at which it would not (`BuiltHolds`).
It gives both halves of the property. A relationship that is there already was written
by an earlier step (`DuplicateOf`), and which steps can have the same type and name is
what the reasons for a throw list: two attachments cannot (`AttachmentBack`), two
streams or layers only with paths that differ in the delimiter (`StreamBack`,
`LayerBack`); what the writer nodes refuse is `refused`, and a step that throws for it
says so (the first of the four reasons). And when the export completes, a client with clean names has given every
part one of its own (`CleanDistinct`), so the reader finds under each name what
was written there (`EntryOf`, `PackageShows`), which makes the package readable
(`ShownIsReadable`). The slice stacks are counted through the settled list: an
attachment has as many slices as stacks have its path (`SettledAttached`), the paths
part the stacks into classes, and the flattened list is as long as the classes
together (`ShownStacks`, `FlattenCount`). What this adds to `PackageInv` and
`RepeatInv` is `NamesKnown` (names are those clients gave, also after a model was read
from a package, and no two streams have the same path) and `MeshInRoot` (the first part
names the stream and the array the mesh went to).
`Lists` types the lists; for a model that was read it needs that the reader takes no
path twice (`ReadList`).

### Reading

`ModelReaderProofs` proves what the reader leaves of any package, of well-formed and
malformed documents alike, for any IDs and number of mistakes. `DocumentsAssumption`
says only what a text can consist of: elements are pairs of names, IDs and references
are integers, indices natural numbers, and a package has a part.
`IDsAssumption` says that the other IDs a mistake may put in are natural numbers,
`PartsAssumption` that the two paths differ.

| Theorem | Property |
|---|---|
| `FramesCorrect` | `FramesFollowElements` |
| `ModelIsConsistent` | `ReadModelIsConsistent` |

The first is about the stack of running nodes and the stack of open elements, which
the reader does not have. It is not inductive, because a node returns on the first
end tag of its name: `FollowInv` adds `NotMistaken`, that an element nobody reads
never has the name of the innermost node around it (`shadowed` is when it has).
`PlacesNext` counts the elements that are read as the list of open ones grows, and
one lemma each (`FollowsRead`, `FollowsPassedOver`, `FollowsEnd`,
`FollowsPassedOverEnd`) covers the four things a tag can do to both stacks.

The second rests on the grammar. `NodeRows` to `NoChildren` read the table of
`ReaderNodes`; `ChildrenArePlaced` says where the classes that matter can be, and with
it `TextInv` (every node was made by the one around it) gives each class its depth
(`Depths`). So at most one node at a time has taken an ID for something that is not in
the model (`NothingUnfinished`). `ModelInv` says that the model is `Consistent` and
what the running nodes have to do with it (`AtWork`): the taken ID without a resource
is that of the object or slice stack being read exactly while a mesh, components or
slice stack node runs; the references gathered so far resolve and have one of three
roles; the group whose properties are read is in the model; a core build runs in the
root part only. `Consistent` adds to the property that only groups have properties and
texture references, which is why a property index that is accepted names a group.
That no object contains itself follows because an object joins the model after
everything it refers to, and no reference is changed later (`AddResource`,
`StillNotInItself`). `WorkKept`, `WorkMore`, `WorkBegun` and `WorkDone` say what opening
and closing a node does to `AtWork`; one lemma per handler applies them. A handler that
throws leaves the model as it was, so nothing is assumed about which documents are
accepted.

### Only model-checked

* Liveness: `ReadEnds` is out of the prover's reach.
* What a recursion computes is proved where a solution can be built from a minimal
  counterexample (`getHighestZ`, `mergeToMesh`, the levels of objects). Sorted lists are
  defined by ranks and not by the library's choice among permutations, which cannot be
  reasoned about here. The folds of `XmlReader` over a buffer are inductions over the data.
* Of `ModelReader`, `StrictAcceptsTheFormat`: that a document without mistakes is read
  depends on which documents the catalogue has. `RoundTrip` computes the written
  document with folds over the resources and reads it; what it compares is data built
  by induction.

## Not modelled

* The XML writer: it writes strings one after the other, and the nesting of elements
  is that of the writer nodes, which `ModelWriter` has.
* Reading of toolpath layers: `CToolpathReader` throws on every layer
  (`NMR_ToolpathReader.cpp:53`), so its nodes are never reached.
* The parsing of STL files: a loop over floating point data that gives a mesh; the
  resource it adds is in `ResourceModel`.
* The percentages of the progress monitor; its cancelling is in `RoundTrip` and
  `PackageExport`.
* String conversions, vectors and matrices: arithmetic and formatting without state.
  A value that does not convert is a mistake of a document.
* Byte orders, checksums, LZMA and the deflate algorithm: compressed data stand for
  the data they were made from. zlib, libzip and lzma are third-party code, about a
  third of the lines of the repository.
* Getters and iterators of the API, which copy data out and change nothing, and the
  class declarations and error codes of the headers, another fifth of the lines.
* The readers and writers over Windows services, which this build leaves out.

## Plan

1. Chunked binary streams and the ZIP writer: done, proved.
2. Package model: `ResourceModel`, `MergeToModel`, the modules of `ModelParts` and
   `PropertyGroups`: done, proved.
3. Export and packages: `PackageExport`, `Package`: done, proved.
4. Reading and writing of model parts, XML reader: done, checked; the reader's stack and
   the consistency of what it reads are proved.
5. Left to model: namespaces and escapes of the XML reader, the mesh of an STL file.
