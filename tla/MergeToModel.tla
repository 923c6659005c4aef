---------------------------- MODULE MergeToModel ----------------------------
(***************************************************************************)
(* CModel::MergeToModel of the API: the build items of a model are merged  *)
(* into one mesh of a new model, and the property resources are copied.    *)
(*                                                                         *)
(* The source is the model of ResourceModel, in any state that the API and *)
(* the readers can bring it to.  The new model is a second instance of it, *)
(* New.  One step copies one resource, in the order of the merge* calls;   *)
(* oldToNew is the mapping of unique IDs they share.  A merge* call that   *)
(* throws discards the new model.  Meshes, attachments, metadata and what  *)
(* a texture or a composite group holds are facts of the source here: its  *)
(* copy is made, or is refused.                                            *)
(***************************************************************************)
EXTENDS ResourceModel

VARIABLES
  n_resource, n_Resources, n_lookup, n_sCurPath, n_BuildItems, n_nHandleCounter,
              \* the new model
  oldToNew,   \* oldToNewUniqueResourceIDs: source unique ID -> new, 0 is none
  merge,      \* "none", "copying", "done" or "failed"
  stage,      \* the table being copied; Len(Stages) + 1 when all are
  index,      \* nIndex of the copying loop
  faceID,     \* m_nResourceID of the merged mesh's faces, 0 is none
  oldFaceID,  \* what it was before patchMeshInformationResources
  refusedData,    \* the data outside the resources whose copy threw
  refusedResource \* the first texture or composite group whose copy throws, 0 is none

newVars == <<n_resource, n_Resources, n_lookup, n_sCurPath, n_BuildItems, n_nHandleCounter>>
mergeVars == <<oldToNew, merge, stage, index, faceID, oldFaceID, refusedData, refusedResource>>
allVars == <<vars, newVars, mergeVars>>

New == INSTANCE ResourceModel WITH
  resource <- n_resource, m_Resources <- n_Resources, lookup <- n_lookup,
  m_sCurPath <- n_sCurPath, m_BuildItems <- n_BuildItems,
  m_nHandleCounter <- n_nHandleCounter, reader <- "none", unread <- {},
  MaxResources <- MaxResources + 1

\* Mutant of Stages: the texture groups are copied before the textures.
StagesGroupsFirst == <<"texturegroup", "texture", "basematerial", "color", "composite", "multi">>

(* The tables in the order MergeToModel copies them.                       *)
Stages == <<"texture", "basematerial", "color", "texturegroup", "composite", "multi">>

Copying == merge = "copying" /\ stage <= Len(Stages)
Kind == Stages[stage]
Old == lookup[Kind][index]

(* The steps of the source before a merge.                                 *)
Source == merge = "none" /\ Next /\ UNCHANGED <<newVars, mergeVars>>

(* The resource ID the merged faces carry, if a build item can refer to a  *)
(* mesh at all: whatever number the client gave to SetTriangleProperties,  *)
(* or the default record the merge of meshes left uninitialised (Meshes).  *)
FaceIDs ==
  IF m_BuildItems # << >> /\ \E u \in UIDs : InModel(u) /\ resource[u].kind = "mesh"
    THEN 0..MaxResources ELSE {0}

(* A texture is refused when a client changed the relationship type of its *)
(* attachment; a composite group when a composite names a material that    *)
(* the copied base materials, numbered afresh, do not have, or has a ratio *)
(* outside of 0..1.                                                        *)
Refusable == Range(lookup["texture"]) \cup Range(lookup["composite"])

(* mergeToMesh, the construction of the new model and the copies of the    *)
(* attachments.                                                            *)
Begin ==
  /\ merge = "none" /\ Idle
  /\ merge' = "copying"
  /\ \E id \in FaceIDs : faceID' = id /\ oldFaceID' = id
  /\ refusedResource' \in {0} \cup Refusable
  /\ UNCHANGED <<vars, newVars, oldToNew, stage, index, refusedData>>

(* mergeToMesh throws for a face with a node the mesh does not have or a   *)
(* coordinate out of range, addAttachment when a client gave two           *)
(* attachments of the source one path.                                     *)
BeginThrows ==
  /\ merge = "none" /\ Idle
  /\ merge' = "failed"
  /\ \/ refusedData' = "mesh" /\ m_BuildItems # << >>
     \/ refusedData' = "attachments"
  /\ UNCHANGED <<vars, newVars, oldToNew, stage, index, faceID, oldFaceID, refusedResource>>

Discard ==
  /\ merge' = "failed"
  /\ UNCHANGED <<vars, newVars, oldToNew, stage, index, faceID, oldFaceID, refusedData,
                 refusedResource>>

(* The copy's parent: the mapped unique ID, found in the new model.        *)
NewParent ==
  IF ParentKind(Kind) = {} THEN 0 ELSE oldToNew[resource[Old].parent]
ParentFound ==
  ParentKind(Kind) # {} => New!KindOf(NewParent) \in ParentKind(Kind)

(* The copies of the resources of some layers.                             *)
LayersMapped(layers) == [i \in DOMAIN layers |-> oldToNew[layers[i]]]

(* mergeFrom of a multi property group hands the source's layers, unique   *)
(* IDs of the source, to addLayer of the copy.                             *)
LayersCopied(layers) == layers
LayersAccepted(layers) ==
  \A i \in DOMAIN layers : New!LayerAllowed(SubSeq(layers, 1, i - 1), layers[i])

NewLayers == LayersCopied(resource[Old].layers)

CopyAccepted ==
  /\ ParentFound
  /\ Old # refusedResource
  /\ LayersAccepted(NewLayers)
  /\ ~New!KnownID("", New!generateResourceID)

(* The body of the loop of mergeTextures2D ... mergeMultiPropertyGroups.   *)
Copy ==
  /\ Copying /\ index <= Len(lookup[Kind])
  /\ CopyAccepted
  /\ n_resource' = Append(n_resource, [path |-> "", id |-> New!generateResourceID,
                     kind |-> Kind, parent |-> NewParent, layers |-> NewLayers])
  /\ New!addResource(Kind)
  /\ oldToNew' = [oldToNew EXCEPT ![Old] = New!NewUID]
  /\ index' = index + 1
  /\ UNCHANGED <<vars, n_sCurPath, n_BuildItems, n_nHandleCounter, merge, stage, faceID, oldFaceID,
                 refusedData, refusedResource>>

(* The body throws: the parent's copy, the data, a layer or the ID is      *)
(* refused.                                                                *)
CopyThrows ==
  /\ Copying /\ index <= Len(lookup[Kind])
  /\ ~CopyAccepted
  /\ Discard

\* Mutant of NextTable: nIndex is not reset.
NextTableKeepsIndex ==
  /\ Copying /\ index > Len(lookup[Kind])
  /\ stage' = stage + 1
  /\ UNCHANGED <<vars, newVars, oldToNew, merge, index, faceID, oldFaceID, refusedData,
                 refusedResource>>

(* A loop ends, and the next merge* call starts.                           *)
NextTable ==
  /\ Copying /\ index > Len(lookup[Kind])
  /\ stage' = stage + 1
  /\ index' = 1
  /\ UNCHANGED <<vars, newVars, oldToNew, merge, faceID, oldFaceID, refusedData,
                 refusedResource>>

Copied == merge = "copying" /\ stage > Len(Stages)

(* mergeMetaData throws for two metadata that a client gave one name.      *)
MetaDataThrows ==
  /\ Copied
  /\ merge' = "failed" /\ refusedData' = "metadata"
  /\ UNCHANGED <<vars, newVars, oldToNew, stage, index, faceID, oldFaceID, refusedResource>>

(* patchMeshInformationResources: a resource without a copy throws.        *)
PatchThrows ==
  /\ Copied
  /\ faceID # 0 /\ oldToNew[faceID] = 0
  /\ Discard

PatchedID == IF faceID = 0 THEN 0 ELSE oldToNew[faceID]

(* The patched mesh becomes an object and a build item of the new model.   *)
(* The handle of the build item is created by the source model.            *)
Finish ==
  /\ Copied
  /\ faceID # 0 => oldToNew[faceID] # 0
  /\ faceID' = PatchedID
  /\ New!Construct("mesh", New!generateResourceID, 0)
  /\ New!addResource("mesh")
  /\ m_nHandleCounter < MaxHandles
  /\ n_BuildItems' = Append(n_BuildItems, [handle |-> m_nHandleCounter, object |-> New!NewUID])
  /\ m_nHandleCounter' = m_nHandleCounter + 1
  /\ merge' = "done"
  /\ UNCHANGED <<resource, m_Resources, lookup, m_sCurPath, m_BuildItems, reader, unread,
                 n_sCurPath, n_nHandleCounter, oldToNew, stage, index, oldFaceID, refusedData,
                 refusedResource>>

(* createHandle throws at its limit, after the mesh object was added.      *)
FinishThrows ==
  /\ Copied
  /\ faceID # 0 => oldToNew[faceID] # 0
  /\ m_nHandleCounter >= MaxHandles
  /\ Discard

(* The client goes on with the new model.                                  *)
Use ==
  /\ merge = "done"
  /\ \/ \E object \in DOMAIN n_resource : New!AddBuildItem(object)
     \/ \E handle \in 1..MaxHandles : New!RemoveBuildItem(handle)
  /\ UNCHANGED <<vars, mergeVars>>

MergeInit ==
  /\ Init
  /\ New!Init
  /\ oldToNew = [u \in 1..MaxResources |-> 0]
  /\ merge = "none" /\ stage = 1 /\ index = 1 /\ faceID = 0 /\ oldFaceID = 0
  /\ refusedData = "none" /\ refusedResource = 0

MergeNext ==
  \/ Source
  \/ Begin
  \/ BeginThrows
  \/ Copy
  \/ CopyThrows
  \/ NextTable
  \/ MetaDataThrows
  \/ PatchThrows
  \/ Finish
  \/ FinishThrows
  \/ Use

MergeSpec == MergeInit /\ [][MergeNext]_allVars

(* ------------------------------------------------------------------------ *)
(* Properties.                                                              *)

Merged == merge = "done"
StaleGroups == {u \in Range(lookup["texturegroup"]) : ~InModel(u)}
LayeredGroups == {u \in Range(lookup["multi"]) : resource[u].layers # << >>}

(* MergedModelIsWellFormed: at every step of a merge the new model satisfies
   what ResourceModel promises of the resources of a model, and its next
   generated ID is free: the merge* calls never run into a duplicate resource
   ID.  Its build items keep what they can of BuildItemsAreKnownByTheirHandles:
   every object is in the model, and the items the client adds are known by
   their handles, but the first item may have the handle of one of them, as the
   source model gave it (lib3mf_model.cpp:436) and RemoveBuildItem takes the
   first item with a handle for the one it was asked to remove.  A merge throws
   only for what the source is: a texture group left over from before a
   clearAll, a multi property group with layers, faces with the ID of no
   resource that merges copy, no handle left, a texture or composite group that
   refuses its own data, or meshes, attachments or metadata that do.  The order
   of the merge* calls and the IDs they give never stop it.                 *)
MergedModelIsWellFormed ==
  /\ New!LookupTablesListTheModel
  /\ New!ReferencesResolve
  /\ New!GeneratedIDIsFresh
  /\ \A i, j \in DOMAIN n_BuildItems \ {1} :
       n_BuildItems[i].handle = n_BuildItems[j].handle => i = j
  /\ \A i \in DOMAIN n_BuildItems :
       /\ New!InModel(n_BuildItems[i].object)
       /\ n_resource[n_BuildItems[i].object].kind \in Objects
  /\ merge = "failed" =>
       \/ StaleGroups # {} \/ LayeredGroups # {} \/ m_nHandleCounter = MaxHandles
       \/ oldFaceID # 0 /\ \A i \in DOMAIN Stages : oldFaceID \notin Range(lookup[Stages[i]])
       \/ refusedData # "none" \/ refusedResource # 0

(* MergeCopiesEveryTable: after a merge every property resource and texture of
   the source has exactly one copy, of its kind, in the order of its table, a
   copy's texture or base material group is the copy of the original's, and the
   faces refer to the copy of the resource they referred to: the mapping filled
   by one merge* call serves the next and patchMeshInformationResources.   *)
MergeCopiesEveryTable ==
  Merged =>
    /\ \A i \in DOMAIN Stages :
         LET t == Stages[i] IN
         /\ Len(n_lookup[t]) = Len(lookup[t])
         /\ \A k \in DOMAIN lookup[t] :
              LET old == lookup[t][k]  new == n_lookup[t][k] IN
              /\ oldToNew[old] = new
              /\ ParentKind(t) # {} => n_resource[new].parent = oldToNew[resource[old].parent]
    /\ oldFaceID # 0 =>
         /\ faceID \in Range(n_Resources)
         /\ n_resource[faceID].kind = resource[oldFaceID].kind
=============================================================================
