--------------------------- MODULE ResourceModel ---------------------------
(***************************************************************************)
(* The resources of a CModel: how they get their IDs, how they are listed, *)
(* and how they refer to each other.                                       *)
(*                                                                         *)
(* Every resource has a model resource ID (`id', the number written in a   *)
(* 3MF part), the path of the part, and a unique ID.  CResourceHandler     *)
(* hands out the unique IDs 1, 2, 3, ... in the order of construction and  *)
(* refuses a (path, id) pair it has seen.  A resource is constructed by    *)
(* the API (with an ID from generateResourceID), by the reader (with the   *)
(* ID in the file) or by the STL importer, and then added to the model.    *)
(* QueryReader clears the model, and forgets neither the pairs nor the     *)
(* Texture2DGroup table.                                                   *)
(*                                                                         *)
(* m_Resources and m_ResourceMap are changed together (NMR_Model.cpp       *)
(* 239-240 and 487-488): m_Resources stands for both.  A call that throws  *)
(* before it changes anything is a step that is not taken.                 *)
(***************************************************************************)
EXTENDS Integers, Sequences, FiniteSets, SequencesExt

CONSTANTS
  UsedKinds,     \* the kinds of resource the client and the files use
  RootPath,      \* the path of the root model part, set by the reader
  OtherPaths,    \* the paths of the other model parts
  MaxID,         \* the largest ID a file gives to a resource
  MaxResources,  \* bound: resources constructed over the model's life
  MaxHandles,    \* bound: NMR_MAXHANDLE
  MaxLayers      \* bound: layers of one multi property group

VARIABLES
  resource,        \* unique ID -> the resource; its domain is m_resourceIDs
  m_Resources,     \* the unique IDs of the model's resources, in order
  lookup,          \* the lookup tables: table -> unique IDs, in order
  m_sCurPath,      \* the path given to newly constructed resources
  m_BuildItems,    \* the build items, in order
  m_nHandleCounter,
  reader,          \* "none", "idle", or what it reads: "package", "part", "root"
  unread           \* the non-root parts the reader still has to read

modelVars == <<resource, m_Resources, lookup, m_sCurPath, m_BuildItems, m_nHandleCounter>>
vars == <<resource, m_Resources, lookup, m_sCurPath, m_BuildItems, m_nHandleCounter,
          reader, unread>>

Kinds == {"mesh", "components", "basematerial", "color", "texture", "texturegroup",
          "composite", "multi", "slicestack", "toolpath"}

ASSUME ResourceModelAssumption ==
  /\ UsedKinds \subseteq Kinds
  /\ "" \notin OtherPaths \cup {RootPath} /\ RootPath \notin OtherPaths
  /\ {MaxID, MaxResources, MaxHandles, MaxLayers} \subseteq Nat \ {0}

Objects == {"mesh", "components"}
Materials == {"basematerial", "composite"}

(* A table lists the resources of its kind; CModelObject has two derived   *)
(* classes and one table, and toolpaths have none.                         *)
Tables == {"object"} \cup (Kinds \ (Objects \cup {"toolpath"}))
TableOf(kind) == IF kind \in Objects THEN {"object"} ELSE {kind} \ {"toolpath"}

(* What a resource is constructed from: a texture for a texture group, a   *)
(* base material group for a composite materials group.                    *)
ParentKind(kind) ==
  CASE kind = "texturegroup" -> {"texture"}
    [] kind = "composite"    -> {"basematerial"}
    [] OTHER                 -> {}

Paths == {"", RootPath} \cup OtherPaths
UIDs == DOMAIN resource
InModel(u) == u \in Range(m_Resources)

(* findPackageResourceID: the pair is known to the resource handler.       *)
KnownID(path, id) == \E u \in UIDs : resource[u].path = path /\ resource[u].id = id

\* Mutant of generateResourceID: the largest unique ID itself.
generateLastID == IF m_Resources = << >> THEN 1 ELSE Max(Range(m_Resources))

(* generateResourceID: one more than the largest unique ID in the model.   *)
generateResourceID ==
  IF m_Resources = << >> THEN 1 ELSE Max(Range(m_Resources)) + 1

(* ------------------------------------------------------------------------ *)
(* Construction and addition.                                               *)

(* The constructor of a resource: getNewResourceID refuses a known pair.   *)
Construct(kind, id, parent) ==
  /\ Len(resource) < MaxResources
  /\ ~KnownID(m_sCurPath, id)
  /\ resource' = Append(resource, [path |-> m_sCurPath, id |-> id, kind |-> kind,
                                   parent |-> parent, layers |-> << >>])

NewUID == Len(resource) + 1

(* addResource and addResourceToLookupTable, for the resource just constructed. *)
addResource(kind) ==
  /\ m_Resources' = Append(m_Resources, NewUID)
  /\ lookup' = [t \in Tables |-> IF t \in TableOf(kind)
                                   THEN Append(lookup[t], NewUID) ELSE lookup[t]]

\* Mutant of Parents: the resource handler's answer is enough.
ParentsOfHandler(kind) ==
  IF ParentKind(kind) = {} THEN {0}
  ELSE {u \in UIDs : resource[u].kind \in ParentKind(kind)}

(* find*: the parent is a resource of the model and of the right kind.     *)
Parents(kind) ==
  IF ParentKind(kind) = {} THEN {0}
  ELSE {u \in UIDs : InModel(u) /\ resource[u].kind \in ParentKind(kind)}

Idle == reader \in {"none", "idle"}
Reading == reader \in {"package", "part", "root"}
InPart == reader \in {"part", "root"}

(* AddMeshObject ... AddToolpath of the API.                               *)
Add(kind) ==
  /\ Idle
  /\ \E parent \in Parents(kind) : Construct(kind, generateResourceID, parent)
  /\ addResource(kind)
  /\ UNCHANGED <<m_sCurPath, m_BuildItems, m_nHandleCounter, reader, unread>>

\* Mutant of NewBuildItem: the handle is the number of items plus one.
NewBuildItemByCount(object) ==
  /\ m_nHandleCounter < MaxHandles
  /\ m_BuildItems' = Append(m_BuildItems, [handle |-> Len(m_BuildItems) + 1, object |-> object])
  /\ m_nHandleCounter' = m_nHandleCounter + 1

(* createHandle, the constructor of a build item, and addBuildItem.        *)
NewBuildItem(object) ==
  /\ m_nHandleCounter < MaxHandles
  /\ m_BuildItems' = Append(m_BuildItems, [handle |-> m_nHandleCounter, object |-> object])
  /\ m_nHandleCounter' = m_nHandleCounter + 1

(* AddBuildItem of the API, and a build item of the root part.             *)
AddBuildItem(object) ==
  /\ Idle \/ reader = "root"
  /\ InModel(object) /\ resource[object].kind \in Objects
  /\ NewBuildItem(object)
  /\ UNCHANGED <<resource, m_Resources, lookup, m_sCurPath, reader, unread>>

(* removeBuildItem: the first item with the handle goes.                   *)
RemoveBuildItem(handle) ==
  /\ Idle
  /\ \E i \in DOMAIN m_BuildItems :
       /\ m_BuildItems[i].handle = handle
       /\ \A j \in 1..(i - 1) : m_BuildItems[j].handle # handle
       /\ m_BuildItems' = RemoveAt(m_BuildItems, i)
  /\ UNCHANGED <<resource, m_Resources, lookup, m_sCurPath, m_nHandleCounter, reader, unread>>

(* ------------------------------------------------------------------------ *)
(* The layers of a multi property group.                                    *)

KindOf(u) == IF InModel(u) THEN resource[u].kind ELSE "none"
LayerKinds(layers) == {KindOf(layers[i]) : i \in DOMAIN layers}

(* addLayer accepts `layer' after `layers'.                                *)
LayerAllowed(layers, layer) ==
  /\ KindOf(layer) \in Materials \cup {"color", "texturegroup"}
  /\ KindOf(layer) \in Materials => LayerKinds(layers) \cap Materials = {}
  /\ KindOf(layer) = "color" => "color" \notin LayerKinds(layers)

(* A client adds a layer to any group it has a handle of, a group of a     *)
(* cleared model included; the reader to the group it has just added, from *)
(* IDs of the part it reads.                                               *)
addLayer(group, layer) ==
  /\ group \in UIDs /\ resource[group].kind = "multi"
  /\ Idle \/ /\ InPart /\ InModel(group) /\ group = Len(resource)
             /\ layer \in UIDs /\ resource[layer].path = m_sCurPath
  /\ LayerAllowed(resource[group].layers, layer)
  /\ Len(resource[group].layers) < MaxLayers
  /\ resource' = [resource EXCEPT ![group].layers = Append(@, layer)]
  /\ UNCHANGED <<m_Resources, lookup, m_sCurPath, m_BuildItems, m_nHandleCounter, reader, unread>>

(* removeLayer, for a layer there is.  The index check of a group without  *)
(* layers underflows and lets every index pass.                            *)
removeLayer(group, index) ==
  /\ Idle
  /\ group \in UIDs /\ resource[group].kind = "multi"
  /\ index \in DOMAIN resource[group].layers
  /\ resource' = [resource EXCEPT ![group].layers = RemoveAt(@, index)]
  /\ UNCHANGED <<m_Resources, lookup, m_sCurPath, m_BuildItems, m_nHandleCounter, reader, unread>>

(* ------------------------------------------------------------------------ *)
(* Reading.                                                                 *)

\* Mutant of clearAll: the slice stack table is left out as well.
clearAllButSliceStacks ==
  /\ m_Resources' = << >>
  /\ m_BuildItems' = << >>
  /\ lookup' = [t \in Tables |-> IF t \in {"texturegroup", "slicestack"} THEN lookup[t] ELSE << >>]

(* clearAll: every table but one, the resources and the build items.       *)
clearAll ==
  /\ m_Resources' = << >>
  /\ m_BuildItems' = << >>
  /\ lookup' = [t \in Tables |-> IF t = "texturegroup" THEN lookup[t] ELSE << >>]

\* Mutant of QueryReader: all tables and the resource handler are cleared.
QueryReaderForgetsIDs ==
  /\ Idle
  /\ reader' = "idle"
  /\ resource' = << >> /\ m_Resources' = << >> /\ m_BuildItems' = << >>
  /\ lookup' = [t \in Tables |-> << >>]
  /\ UNCHANGED <<m_sCurPath, m_nHandleCounter, unread>>

(* QueryReader: the constructor of CModelReader clears the model.          *)
QueryReader ==
  /\ Idle
  /\ reader' = "idle"
  /\ clearAll
  /\ UNCHANGED <<resource, m_sCurPath, m_nHandleCounter, unread>>

(* ReadFromFile with a 3MF reader: the package names its non-root parts.   *)
BeginRead ==
  /\ reader = "idle"
  /\ reader' = "package"
  /\ unread' \in SUBSET OtherPaths
  /\ UNCHANGED modelVars

(* readProductionAttachmentModels: the next part's model node is met.      *)
EnterPart(path) ==
  /\ reader \in {"package", "part"}
  /\ path \in unread
  /\ reader' = "part"
  /\ unread' = unread \ {path}
  /\ m_sCurPath' = path
  /\ UNCHANGED <<resource, m_Resources, lookup, m_BuildItems, m_nHandleCounter>>

(* readStream, when all parts are read: the root's model node is met.      *)
EnterRoot ==
  /\ reader \in {"package", "part"} /\ unread = {}
  /\ reader' = "root"
  /\ m_sCurPath' = RootPath
  /\ UNCHANGED <<resource, m_Resources, lookup, m_BuildItems, m_nHandleCounter, unread>>

(* A reader node refers to resources of the part it is in.                 *)
PartParents(kind) == {u \in Parents(kind) : u # 0 => resource[u].path = m_sCurPath}

(* A reader node constructs a resource and adds it.                        *)
ReadResource(kind, id) ==
  /\ InPart
  /\ \E parent \in PartParents(kind) : Construct(kind, id, parent)
  /\ addResource(kind)
  /\ UNCHANGED <<m_sCurPath, m_BuildItems, m_nHandleCounter, reader, unread>>

(* The content of a resource is malformed: the exception leaves the ID     *)
(* with the resource handler, the resource outside the model and ends the  *)
(* reading.  Only these nodes parse between construction and addition.     *)
ReadMalformedResource(kind, id) ==
  /\ InPart
  /\ kind \in {"mesh", "components", "slicestack", "composite"}
  /\ \E parent \in PartParents(kind) : Construct(kind, id, parent)
  /\ reader' = "idle" /\ unread' = {}
  /\ UNCHANGED <<m_Resources, lookup, m_sCurPath, m_BuildItems, m_nHandleCounter>>

(* The reading ends: at the end of the root part, or with an exception (a  *)
(* malformed part, a known ID, an abort by the progress callback).         *)
EndRead ==
  /\ Reading
  /\ reader' = "idle" /\ unread' = {}
  /\ UNCHANGED modelVars

(* readFromMeshImporter: an STL file becomes a mesh and a build item.      *)
ReadSTL ==
  /\ reader = "idle" /\ "mesh" \in UsedKinds
  /\ Construct("mesh", generateResourceID, 0)
  /\ addResource("mesh")
  /\ NewBuildItem(NewUID)
  /\ UNCHANGED <<m_sCurPath, reader, unread>>

(* addSlicerefAttachments, while a 3MF file is written: the path of a      *)
(* slice stack kept in a part of its own becomes the current path.         *)
WriteSliceStack(path) ==
  /\ Idle
  /\ lookup["slicestack"] # << >>
  /\ path \in OtherPaths
  /\ m_sCurPath' = path
  /\ UNCHANGED <<resource, m_Resources, lookup, m_BuildItems, m_nHandleCounter, reader, unread>>

(* ------------------------------------------------------------------------ *)

Init ==
  /\ resource = << >>
  /\ m_Resources = << >>
  /\ lookup = [t \in Tables |-> << >>]
  /\ m_sCurPath = ""
  /\ m_BuildItems = << >>
  /\ m_nHandleCounter = 1
  /\ reader = "none"
  /\ unread = {}

Next ==
  \/ \E kind \in UsedKinds : Add(kind)
  \/ \E object \in 1..MaxResources : AddBuildItem(object)
  \/ \E handle \in 1..MaxHandles : RemoveBuildItem(handle)
  \/ \E group, layer \in 1..MaxResources : addLayer(group, layer)
  \/ \E group \in 1..MaxResources, index \in 1..MaxLayers : removeLayer(group, index)
  \/ QueryReader
  \/ BeginRead
  \/ \E path \in OtherPaths : EnterPart(path)
  \/ EnterRoot
  \/ \E kind \in UsedKinds, id \in 1..MaxID : ReadResource(kind, id)
  \/ \E kind \in UsedKinds, id \in 1..MaxID : ReadMalformedResource(kind, id)
  \/ EndRead
  \/ ReadSTL
  \/ \E path \in OtherPaths : WriteSliceStack(path)

Spec == Init /\ [][Next]_vars

(* ------------------------------------------------------------------------ *)
(* Properties.                                                              *)

Increasing(s) == \A i, j \in DOMAIN s : i < j => s[i] < s[j]

(* The resources of the model that a table should list.                    *)
OfTable(t) == {u \in Range(m_Resources) : t \in TableOf(resource[u].kind)}

(* LookupTablesListTheModel: whatever was added, read and cleared before,
   every lookup table (addResourceToLookupTable, clearAll) lists exactly the
   model's resources of its kind, each once and in the model's order, which is
   the order of the unique IDs; the table clearAll leaves out lists them after
   the ones it kept.                                                       *)
LookupTablesListTheModel ==
  /\ Increasing(m_Resources)
  /\ \A t \in Tables : Increasing(lookup[t]) /\ OfTable(t) \subseteq Range(lookup[t])
  /\ \A t \in Tables \ {"texturegroup"} : Range(lookup[t]) \subseteq OfTable(t)
  /\ \A u \in OfTable("texturegroup"), stale \in Range(lookup["texturegroup"]) :
       stale \in OfTable("texturegroup") \/ stale < u

(* ReferencesResolve: a texture group's texture and a composite's base
   materials (the parents given to their constructors) are resources of the
   same model, of the right kind, and listed before what refers to them, so
   that a writer that follows the list meets no forward reference; and a multi
   property group never has two layers that are materials, two that are colour
   groups, or one that is no property resource of the model, in whatever order
   clients and readers add and remove layers and clear models.             *)
ReferencesResolve ==
  \A i \in DOMAIN m_Resources :
    LET r == resource[m_Resources[i]]
        Of(kinds) == {k \in DOMAIN r.layers : KindOf(r.layers[k]) \in kinds}
    IN  /\ ParentKind(r.kind) # {} =>
             \E j \in 1..(i - 1) : /\ m_Resources[j] = r.parent
                                   /\ resource[r.parent].kind \in ParentKind(r.kind)
        /\ DOMAIN r.layers = Of(Materials \cup {"color", "texturegroup"})
        /\ Cardinality(Of(Materials)) <= 1
        /\ Cardinality(Of({"color"})) <= 1

(* BuildItemsAreKnownByTheirHandles: no two build items share a handle, so
   RemoveBuildItem removes the one it was asked to, and the object of every
   build item (a raw pointer) is held by the model.                        *)
BuildItemsAreKnownByTheirHandles ==
  /\ \A i, j \in DOMAIN m_BuildItems : m_BuildItems[i].handle = m_BuildItems[j].handle => i = j
  /\ \A i \in DOMAIN m_BuildItems :
       InModel(m_BuildItems[i].object) /\ resource[m_BuildItems[i].object].kind \in Objects

(* GeneratedIDIsFresh: generateResourceID returns an ID that the next
   resource can be constructed with.                                       *)
GeneratedIDIsFresh == ~KnownID(m_sCurPath, generateResourceID)

(* APIModelsNeverCollide: as long as no reader was queried, the API's Add
   calls never fail with a duplicate resource ID, slice stack exports that
   move the current path included.                                         *)
APIModelsNeverCollide == reader = "none" => GeneratedIDIsFresh

(* UniqueIDsAreNeverReused: a unique ID a client holds never comes to mean a
   resource of another kind, part or ID, and a resource that clearAll removed
   never comes back.                                                       *)
UniqueIDsAreNeverReused ==
  [][\A u \in UIDs :
       /\ u \in DOMAIN resource'
       /\ [resource'[u] EXCEPT !.layers = << >>] = [resource[u] EXCEPT !.layers = << >>]
       /\ ~InModel(u) => ~InModel(u)']_vars
=============================================================================
