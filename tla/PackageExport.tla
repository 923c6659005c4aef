---------------------------- MODULE PackageExport ----------------------------
(***************************************************************************)
(* Writing a model as an OPC package: CModelWriter_3MF_Native over         *)
(* COpcPackageWriter.  An export writes the root model, the thumbnail, the *)
(* attachments, the binary streams and the toolpath layers as parts, and   *)
(* the package writer's destructor adds content types and relationships,   *)
(* also when an exception unwinds the export.  A progress callback may     *)
(* abort the export at every query, and copying a part may fail.           *)
(*                                                                         *)
(* The ZIP archive below is a sequence of parts (PortableZIPWriter has its *)
(* details).  What a part holds is a tuple that names its kind.            *)
(***************************************************************************)
EXTENDS Integers, Sequences, FiniteSets, SequencesExt

CONSTANTS
  PartNames,      \* the paths clients use, without leading delimiters
  ThumbnailName,  \* the path of the package thumbnail
  RootName,       \* PACKAGE_3D_MODEL_URI
  MaxParts,       \* bound: what clients add to the model and the writer
  MaxArrays,      \* bound: arrays of a binary stream
  MaxExports,     \* bound: exports
  MaxFailures     \* bound: copies that fail

ASSUME PackageAssumption ==
  /\ RootName \notin PartNames \cup {ThumbnailName}
  /\ {MaxParts, MaxArrays, MaxExports} \subseteq Nat \ {0}
  /\ MaxFailures \in Nat

VARIABLES
  \* the model
  m_Attachments,   \* name, relationship type and content, in order
  thumbnail,       \* there is a package thumbnail
  m_sOwnPath,      \* the own path of every slice stack that has one
  refused,         \* what is in the model that its writer refuses: in the root part (0) or a stack
  \* the writer
  streams,         \* the binary streams: path, number of arrays, finished
  assigned,        \* the stream of the mesh of the model, 0 is none
  m_AdditionalAttachments,  \* the paths of the toolpath layers
  m_nRelationIDCounter,
  \* the export
  pc, next,        \* where writePackageToStream is, and the index of its loop
  package,         \* the COpcPackageWriter
  exports, failures,
  \* what the export stream holds after the last export
  archive,
  outcome,         \* how the last export ended
  stable,          \* history: the last export wrote everything, and no client changed anything since
  source           \* history: what the archive was written from

modelVars == <<m_Attachments, thumbnail, m_sOwnPath, refused>>
writerVars == <<streams, assigned, m_AdditionalAttachments, m_nRelationIDCounter>>
exportVars == <<pc, next, package, exports, failures, archive, outcome, stable, source>>
vars == <<modelVars, writerVars, exportVars>>

Paths == [leading : BOOLEAN, name : PartNames]
ClientTypes == {"texture", "custom"}

NoPackage == [parts |-> << >>, types |-> FALSE, root |-> {}, rels |-> {}]
NoSource == [attachments |-> {}, thumbnail |-> FALSE, stacks |-> << >>, refused |-> {},
             streams |-> {}, layers |-> {}]

Known(name) == \E i \in DOMAIN m_Attachments : m_Attachments[i].name = name

Size == Len(m_Attachments) + Len(m_sOwnPath) + Len(streams) + Cardinality(m_AdditionalAttachments)

-----------------------------------------------------------------------------
(* What clients add between exports.  A package is read before the client  *)
(* goes on: it is not seen again after that.                               *)

ClientStep == /\ pc = "idle"
              /\ archive' = NoPackage /\ source' = NoSource /\ outcome' = "none" /\ stable' = FALSE
              /\ UNCHANGED <<pc, next, package, exports, failures>>

AddAttachment(name, type) ==
  /\ ClientStep /\ Size < MaxParts
  /\ ~Known(name)
  /\ m_Attachments' = Append(m_Attachments,
                             [name |-> name, type |-> type, value |-> <<"data", name, type>>])
  /\ UNCHANGED <<thumbnail, m_sOwnPath, refused, writerVars>>

CreatePackageThumbnailAttachment ==
  /\ ClientStep
  /\ ~thumbnail /\ thumbnail' = TRUE
  /\ UNCHANGED <<m_Attachments, m_sOwnPath, refused, writerVars>>

(* AddSliceStack and SetOwnPath with a path that is not the root's.        *)
AddSliceStack(path) ==
  /\ ClientStep /\ Size < MaxParts
  /\ m_sOwnPath' = Append(m_sOwnPath, path)
  /\ UNCHANGED <<m_Attachments, thumbnail, refused, writerVars>>

(* SetOwnPath of a stack that has a path.                                  *)
SetOwnPath(stack, path) ==
  /\ ClientStep
  /\ stack \in DOMAIN m_sOwnPath /\ m_sOwnPath[stack] # path
  /\ m_sOwnPath' = [m_sOwnPath EXCEPT ![stack] = path]
  /\ UNCHANGED <<m_Attachments, thumbnail, refused, writerVars>>

(* Calls that nothing checks before an export, and those that undo them.   *)
(* The root model is refused for properties without one of the object, a   *)
(* mesh without faces in a binary stream, an item tilted against its       *)
(* slices, an object's thumbnail that left the model or a missing UUID;    *)
(* any part for a slice with one vertex.  One such thing at a time.        *)
SetContent(what) ==
  /\ ClientStep
  /\ what \subseteq {0} \cup DOMAIN m_sOwnPath /\ what # refused
  /\ refused' = what
  /\ UNCHANGED <<m_Attachments, thumbnail, m_sOwnPath, writerVars>>

(* CreateBinaryStream: registerBinaryStream refuses a path as it is        *)
(* spelled.  The streams are in the order of their UUIDs, so a new one may *)
(* come anywhere.                                                          *)
CreateBinaryStream(path) ==
  /\ ClientStep /\ Size < MaxParts
  /\ \A s \in DOMAIN streams : streams[s].path # path
  /\ \E i \in 1..Len(streams) + 1 :
        /\ streams' = InsertAt(streams, i, [path |-> path, arrays |-> 0, finished |-> FALSE])
        /\ assigned' = IF assigned >= i THEN assigned + 1 ELSE assigned
  /\ UNCHANGED <<modelVars, m_AdditionalAttachments, m_nRelationIDCounter>>

(* AssignBinaryStream for the mesh: the map keeps the first assignment.    *)
AssignBinaryStream(s) ==
  /\ ClientStep
  /\ s \in DOMAIN streams
  /\ assigned = 0 /\ assigned' = s
  /\ UNCHANGED <<modelVars, streams, m_AdditionalAttachments, m_nRelationIDCounter>>

(* addIntArray and addFloatArray, from the data of a toolpath layer.       *)
AddArray(s) ==
  /\ ClientStep
  /\ s \in DOMAIN streams /\ ~streams[s].finished /\ streams[s].arrays < MaxArrays
  /\ streams' = [streams EXCEPT ![s].arrays = @ + 1]
  /\ UNCHANGED <<modelVars, assigned, m_AdditionalAttachments, m_nRelationIDCounter>>

(* The finishWriting of a toolpath layer: addAdditionalAttachment keeps    *)
(* the first layer of a path.                                              *)
FinishLayer(path) ==
  /\ ClientStep /\ Size < MaxParts
  /\ path \notin m_AdditionalAttachments
  /\ m_AdditionalAttachments' = m_AdditionalAttachments \cup {path}
  /\ UNCHANGED <<modelVars, streams, assigned, m_nRelationIDCounter>>

-----------------------------------------------------------------------------
(* COpcPackageWriter and COpcPackagePart.                                  *)

(* addPart, with the part's content: createEntry takes any name.           *)
addPart(p, name, value, whole) ==
  [p EXCEPT !.parts = Append(@, [name |-> name, value |-> value, whole |-> whole])]

(* addRootRelationship and, without its check, addRelationship.            *)
addRootRelationship(p, id, type, name) ==
  [p EXCEPT !.root = @ \cup {[id |-> id, type |-> type, target |-> name]}]
addRelationship(p, id, type, name) ==
  [p EXCEPT !.rels = @ \cup {[id |-> id, type |-> type, target |-> name]}]

(* addRelationship throws.                                                 *)
DuplicateRelationship(p, type, name) == \E r \in p.rels : r.type = type /\ r.target = name

generateRelationShipID == <<"rel", m_nRelationIDCounter>>

(* writePackageToStream is left, by its end or by an exception: the        *)
(* destructor of the package writer, finishPackage, puts the content types *)
(* and relationships it has into the archive.                              *)
Leave(p, to, result) ==
  /\ archive' = p
  /\ source' = [attachments |-> ToSet(m_Attachments), thumbnail |-> thumbnail,
                stacks |-> m_sOwnPath, refused |-> refused,
                streams |-> ToSet(streams), layers |-> m_AdditionalAttachments]
  /\ package' = NoPackage
  /\ pc' = to /\ next' = 0
  /\ outcome' = result
  /\ stable' = (result = "complete")
  /\ UNCHANGED exports

Goto(to, index) == pc' = to /\ next' = index /\ UNCHANGED <<exports, failures, archive, outcome, stable, source>>

-----------------------------------------------------------------------------
(* The steps of exportToStream and writePackageToStream.                   *)

(* createPackage, and the part of the root model.                          *)
Start ==
  /\ pc = "idle" /\ exports < MaxExports
  /\ exports' = exports + 1
  /\ m_nRelationIDCounter' = 0
  /\ package' = NoPackage
  /\ pc' = "root" /\ next' = 0
  /\ UNCHANGED <<modelVars, streams, assigned, m_AdditionalAttachments, failures, archive,
                 outcome, stable, source>>

(* The callback aborts before there is a package: the stream stays empty.  *)
AbortBeforePackage ==
  /\ pc = "idle" /\ exports < MaxExports
  /\ exports' = exports + 1
  /\ archive' = NoPackage /\ outcome' = "aborted" /\ stable' = FALSE
  /\ UNCHANGED <<modelVars, writerVars, pc, next, package, failures, source>>

(* The mesh writer adds the mesh to its binary stream.                     *)
WriteMesh == streams' = IF assigned = 0 THEN streams
                        ELSE [streams EXCEPT ![assigned].arrays = @ + 1]
MeshThrows == assigned # 0 /\ streams[assigned].finished
RootThrows == MeshThrows \/ 0 \in refused

(* The root model names the stream and the array of the mesh.              *)
RootValue == IF assigned = 0 THEN <<"root", "", 0>>
             ELSE <<"root", streams[assigned].path.name, streams[assigned].arrays + 1>>

(* Mutant of writeModelStream: the content types come with the root model. *)
writeModelStreamWithTypes ==
  /\ pc = "root"
  /\ ~RootThrows /\ WriteMesh
  /\ package' = [addRootRelationship(addPart(package, RootName, RootValue, TRUE),
                                     generateRelationShipID, "model", RootName) EXCEPT !.types = TRUE]
  /\ m_nRelationIDCounter' = m_nRelationIDCounter + 1
  /\ Goto("thumbnail", 0)
  /\ UNCHANGED <<modelVars, assigned, m_AdditionalAttachments>>

writeModelStream ==
  /\ pc = "root"
  /\ ~RootThrows /\ WriteMesh
  /\ package' = addRootRelationship(addPart(package, RootName, RootValue, TRUE),
                                    generateRelationShipID, "model", RootName)
  /\ m_nRelationIDCounter' = m_nRelationIDCounter + 1
  /\ Goto("thumbnail", 0)
  /\ UNCHANGED <<modelVars, assigned, m_AdditionalAttachments>>

(* The mesh may be in its binary stream before the writer comes to what it *)
(* refuses.                                                                *)
writeModelStreamThrows ==
  /\ pc = "root" /\ RootThrows
  /\ streams' = streams \/ (~MeshThrows /\ WriteMesh)
  /\ Leave(addPart(package, RootName, <<"partial">>, FALSE), "idle", "failed")
  /\ UNCHANGED <<modelVars, assigned, m_AdditionalAttachments, m_nRelationIDCounter, failures>>

(* The package thumbnail, if there is one: its relationship follows the copy. *)
WriteThumbnail ==
  /\ pc = "thumbnail"
  /\ IF thumbnail
     THEN /\ package' = addRootRelationship(
                           addPart(package, ThumbnailName, <<"thumbnail">>, TRUE),
                           generateRelationShipID, "thumbnail", ThumbnailName)
          /\ m_nRelationIDCounter' = m_nRelationIDCounter + 1
     ELSE UNCHANGED <<package, m_nRelationIDCounter>>
  /\ Goto("slices", 1)
  /\ UNCHANGED <<modelVars, streams, assigned, m_AdditionalAttachments>>

(* Mutant of SlicesValue: every stack that has a path is written.          *)
AllSlicesValue(path) == <<"slices", Len(m_sOwnPath)>>

(* writeSliceStackStream: the stacks whose own path is spelled like this.  *)
SlicesValue(path) ==
  <<"slices", Cardinality({i \in DOMAIN m_sOwnPath : m_sOwnPath[i] = path})>>

(* It writes every one of them, and throws at what it refuses.             *)
SlicesThrow(path) == \E i \in DOMAIN m_sOwnPath : m_sOwnPath[i] = path /\ i \in refused

writeSliceStackStreamThrows ==
  /\ pc = "slices" /\ next \in DOMAIN m_sOwnPath
  /\ SlicesThrow(m_sOwnPath[next])
  /\ Leave(package, "idle", "failed")
  /\ UNCHANGED <<modelVars, writerVars, failures>>

(* addSlicerefAttachments, for the next stack: an attachment of the model  *)
(* gets the slices of the path, unless a client made it for something else. *)
AddSlicerefAttachment ==
  /\ pc = "slices" /\ next \in DOMAIN m_sOwnPath
  /\ ~SlicesThrow(m_sOwnPath[next])
  /\ LET path == m_sOwnPath[next]
         At == {i \in DOMAIN m_Attachments : m_Attachments[i].name = path.name}
     IN  IF At = {}
         THEN /\ m_Attachments' = Append(m_Attachments, [name |-> path.name, type |-> "model",
                                                         value |-> SlicesValue(path)])
              /\ Goto("slices", next + 1)
              /\ UNCHANGED package
         ELSE \E i \in At :
                IF m_Attachments[i].type = "model"
                THEN /\ m_Attachments' = [m_Attachments EXCEPT ![i].value = SlicesValue(path)]
                     /\ Goto("slices", next + 1)
                     /\ UNCHANGED package
                ELSE /\ UNCHANGED <<m_Attachments, failures>>
                     /\ Leave(package, "idle", "failed")
  /\ UNCHANGED <<thumbnail, m_sOwnPath, refused, writerVars>>

(* addAttachments, for the next one: its relationship follows the copy.    *)
AddAttachmentPart ==
  /\ pc = "attachments" /\ next \in DOMAIN m_Attachments
  /\ LET a == m_Attachments[next]
         p == addPart(package, a.name, a.value, TRUE)
     IN  IF DuplicateRelationship(p, a.type, a.name)
         THEN /\ Leave(p, "idle", "failed")
              /\ UNCHANGED <<m_nRelationIDCounter, failures>>
         ELSE /\ package' = addRelationship(p, generateRelationShipID, a.type, a.name)
              /\ m_nRelationIDCounter' = m_nRelationIDCounter + 1
              /\ Goto("attachments", next + 1)
  /\ UNCHANGED <<modelVars, streams, assigned, m_AdditionalAttachments>>

AddContentTypes ==
  /\ pc = "attachments" /\ next = Len(m_Attachments) + 1
  /\ package' = [package EXCEPT !.types = TRUE]
  /\ Goto("streams", 1)
  /\ UNCHANGED <<modelVars, writerVars>>

(* Mutant of WriteBinaryStream: a copy is finished, not the stream.        *)
WriteBinaryStreamUnfinished ==
  /\ pc = "streams" /\ next \in DOMAIN streams
  /\ LET s == streams[next]
         p == addPart(package, s.path.name, <<"binary", s.arrays>>, TRUE)
     IN  /\ ~DuplicateRelationship(package, "binary", s.path.name)
         /\ package' = IF s.arrays = 0 THEN package
                       ELSE addRelationship(p, <<"binary", next>>, "binary", s.path.name)
  /\ Goto("streams", next + 1)
  /\ UNCHANGED <<modelVars, writerVars>>

(* A binary stream that is not empty: finishWriting, the part, the         *)
(* relationship, and then the copy.                                        *)
WriteBinaryStream ==
  /\ pc = "streams" /\ next \in DOMAIN streams
  /\ LET s == streams[next]
         p == addPart(package, s.path.name, <<"binary", s.arrays>>, TRUE)
     IN  \/ /\ s.arrays = 0
            /\ Goto("streams", next + 1)
            /\ UNCHANGED <<streams, package>>
         \/ /\ s.arrays > 0
            /\ streams' = [streams EXCEPT ![next].finished = TRUE]
            /\ IF DuplicateRelationship(package, "binary", s.path.name)
               THEN Leave(addPart(package, s.path.name, <<"partial">>, FALSE), "idle", "failed") /\ UNCHANGED failures
               ELSE /\ package' = addRelationship(p, <<"binary", next>>, "binary", s.path.name)
                    /\ Goto("streams", next + 1)
  /\ UNCHANGED <<modelVars, assigned, m_AdditionalAttachments, m_nRelationIDCounter>>

(* A toolpath layer; the map of layers has some order.  The ID has a UUID  *)
(* drawn for each relationship: that they differ is what counts.           *)
Layers == SetToSeq(m_AdditionalAttachments)
LayerID(path) == <<"attachment", path.leading, path.name>>

WriteLayer ==
  /\ pc = "layers" /\ next \in DOMAIN Layers
  /\ LET path == Layers[next]
     IN  IF DuplicateRelationship(package, "toolpath", path.name)
         THEN Leave(addPart(package, path.name, <<"partial">>, FALSE), "idle", "failed") /\ UNCHANGED failures
         ELSE /\ package' = addRelationship(addPart(package, path.name, <<"layer", path>>, TRUE),
                                            LayerID(path), "toolpath", path.name)
              /\ Goto("layers", next + 1)
  /\ UNCHANGED <<modelVars, writerVars>>

(* A loop ends; writePackageToStream returns after the last.               *)
EndLoop ==
  \/ /\ pc = "slices" /\ next = Len(m_sOwnPath) + 1
     /\ Goto("attachments", 1) /\ UNCHANGED <<package, modelVars, writerVars>>
  \/ /\ pc = "streams" /\ next = Len(streams) + 1
     /\ Goto("layers", 1) /\ UNCHANGED <<package, modelVars, writerVars>>
  \/ /\ pc = "layers" /\ next = Len(Layers) + 1
     /\ Leave(package, "cleanup", "complete") /\ UNCHANGED <<failures, modelVars, writerVars>>

(* The last two queries of exportToStream: nothing is left to abort.       *)
Cleanup ==
  /\ pc = "cleanup" /\ pc' = "idle"
  /\ UNCHANGED <<modelVars, writerVars, next, package, exports, failures, archive, outcome,
                 stable, source>>

(* The progress callback aborts at a query.  The mesh may be in its binary *)
(* stream by then.                                                         *)
Abort ==
  /\ \/ /\ pc = "root"
        /\ streams' = streams \/ (~MeshThrows /\ WriteMesh)
        /\ Leave(addPart(package, RootName, <<"partial">>, FALSE), "idle", "aborted")
     \/ /\ pc \in {"slices", "attachments"}
        /\ Leave(package, "idle", "aborted")
        /\ UNCHANGED streams
  /\ UNCHANGED <<modelVars, assigned, m_AdditionalAttachments, m_nRelationIDCounter, failures>>

(* Writing a part fails half-way: what it is copied from does not read.    *)
(* (When the export stream fails, the destructor throws and the program    *)
(* ends.)                                                                  *)
CopyFails ==
  /\ failures < MaxFailures /\ failures' = failures + 1
  /\ \/ /\ pc = "root"
        /\ Leave(addPart(package, RootName, <<"partial">>, FALSE), "idle", "broken")
        /\ UNCHANGED streams
     \/ /\ pc = "thumbnail" /\ thumbnail
        /\ Leave(addPart(package, ThumbnailName, <<"partial">>, FALSE), "idle", "broken")
        /\ UNCHANGED streams
     \/ /\ pc = "attachments" /\ next \in DOMAIN m_Attachments
        /\ Leave(addPart(package, m_Attachments[next].name, <<"partial">>, FALSE), "idle", "broken")
        /\ UNCHANGED streams
     \/ /\ pc = "streams" /\ next \in DOMAIN streams /\ streams[next].arrays > 0
        /\ LET name == streams[next].path.name
               p == addPart(package, name, <<"partial">>, FALSE)
           IN  /\ ~DuplicateRelationship(package, "binary", name)
               /\ Leave(addRelationship(p, <<"binary", next>>, "binary", name), "idle", "broken")
        /\ streams' = [streams EXCEPT ![next].finished = TRUE]
     \/ /\ pc = "layers" /\ next \in DOMAIN Layers
        /\ LET path == Layers[next]
               p == addPart(package, path.name, <<"partial">>, FALSE)
           IN  /\ ~DuplicateRelationship(package, "toolpath", path.name)
               /\ Leave(addRelationship(p, LayerID(path), "toolpath", path.name), "idle", "broken")
        /\ UNCHANGED streams
  /\ UNCHANGED <<modelVars, assigned, m_AdditionalAttachments, m_nRelationIDCounter>>

-----------------------------------------------------------------------------

Init ==
  /\ m_Attachments = << >> /\ thumbnail = FALSE /\ m_sOwnPath = << >> /\ refused = {}
  /\ streams = << >> /\ assigned = 0 /\ m_AdditionalAttachments = {}
  /\ m_nRelationIDCounter = 0
  /\ pc = "idle" /\ next = 0 /\ package = NoPackage
  /\ exports = 0 /\ failures = 0
  /\ archive = NoPackage /\ outcome = "none" /\ stable = FALSE
  /\ source = NoSource

ClientNext ==
  \/ \E name \in PartNames, type \in ClientTypes : AddAttachment(name, type)
  \/ CreatePackageThumbnailAttachment
  \/ \E path \in Paths : AddSliceStack(path) \/ CreateBinaryStream(path) \/ FinishLayer(path)
  \/ \E stack \in 1..MaxParts, path \in Paths : SetOwnPath(stack, path)
  \/ \E what \in {{}} \cup {{k} : k \in 0..MaxParts} : SetContent(what)
  \/ \E s \in 1..MaxParts : AssignBinaryStream(s) \/ AddArray(s)

ExportNext ==
  \/ Start \/ AbortBeforePackage
  \/ writeModelStream \/ writeModelStreamThrows
  \/ WriteThumbnail \/ writeSliceStackStreamThrows \/ AddSlicerefAttachment \/ AddAttachmentPart
  \/ AddContentTypes \/ WriteBinaryStream \/ WriteLayer \/ EndLoop \/ Cleanup
  \/ Abort \/ CopyFails
=============================================================================
