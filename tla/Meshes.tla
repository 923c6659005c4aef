------------------------------- MODULE Meshes -------------------------------
(***************************************************************************)
(* The faces of a CMesh and the CMeshInformation_Properties kept beside    *)
(* them: one record per face and the default data of the object.  A mesh   *)
(* has no information until something asks for it; from then on addFace    *)
(* adds a record with every face.  MergeToModel merges meshes one after    *)
(* another into a new one, and drops it when a mesh cannot be merged.  A   *)
(* property is a model value; of the nodes it matters whether there are    *)
(* any (MeshGeometry has them and the indices of the faces).               *)
(***************************************************************************)
EXTENDS Naturals, Sequences, SequencesExt

CONSTANTS MeshNames,   \* the meshes of the model
          Properties,  \* property values that faces and objects may have
          MaxFaces,    \* bound: faces of a mesh
          MaxMerges    \* bound: meshes merged

VARIABLES mesh,     \* the meshes of the model
          merged,   \* the mesh they are merged into
          sources   \* the meshes merged so far, as mergeMesh read them

meshVars == <<mesh, merged, sources>>

None == "none"            \* m_nResourceID = 0
Null == "null"            \* no default data
Uninitialised == "uninitialised"  \* default data nobody wrote to

NoInformation == [has |-> FALSE, data |-> <<>>, default |-> Null]
EmptyMesh == [nodes |-> FALSE, faces |-> 0, info |-> NoInformation]

Invalid(n) == [k \in 1..n |-> None]

(* CMeshInformation_Properties for the faces there are.                    *)
createInformation(m) ==
  IF m.info.has THEN m
  ELSE [m EXCEPT !.info = [has |-> TRUE, data |-> Invalid(m.faces), default |-> Null]]

addFace(m) ==
  [m EXCEPT !.faces = @ + 1, !.info.data = IF m.info.has THEN Append(@, None) ELSE @]

-----------------------------------------------------------------------------
(* The API of a mesh object. *)

Editing == sources = <<>>
Change(a, m) ==
  /\ Editing
  /\ mesh' = [mesh EXCEPT ![a] = m] /\ mesh' # mesh
  /\ UNCHANGED <<merged, sources>>

AddVertexTo == \E a \in MeshNames : Change(a, [mesh[a] EXCEPT !.nodes = TRUE])

(* AddTriangle does not ask for the nodes it names.                        *)
AddTriangle == \E a \in MeshNames : mesh[a].faces < MaxFaces /\ Change(a, addFace(mesh[a]))

SetTriangleProperties ==
  \E a \in MeshNames : \E k \in 1..mesh[a].faces, p \in Properties \cup {None} :
    Change(a, [createInformation(mesh[a]) EXCEPT !.info.data[k] = p])

(* The first face's property becomes the default if there is no default.   *)
SetAllTriangleProperties ==
  \E a \in MeshNames : \E ps \in [1..mesh[a].faces -> Properties \cup {None}] :
    LET m == [createInformation(mesh[a]) EXCEPT !.info.data = ps]
    IN  Change(a, IF m.faces > 0 /\ m.info.default = Null
                  THEN [m EXCEPT !.info.default = ps[1]] ELSE m)

SetObjectLevelProperty ==
  \E a \in MeshNames, p \in Properties :
    Change(a, [createInformation(mesh[a]) EXCEPT !.info.default = p])

(* GetObjectLevelProperty and GetTriangleProperties too make information.  *)
GetProperties == \E a \in MeshNames : Change(a, createInformation(mesh[a]))

ClearAllProperties ==
  \E a \in MeshNames : Change(a, [mesh[a] EXCEPT !.info = NoInformation])

(* SetGeometry clears the mesh and its information and adds the nodes and  *)
(* then faces between them, up to the first it refuses.                    *)
SetGeometry ==
  \E a \in MeshNames, n \in 0..MaxFaces, nodes \in BOOLEAN :
    /\ n > 0 => nodes
    /\ Change(a, [EmptyMesh EXCEPT !.nodes = nodes, !.faces = n])

-----------------------------------------------------------------------------
(* mergeMesh. *)

(* addInfoTableFrom: a handler without properties gets a clone, for the    *)
(* faces there are.                                                        *)
addInfoTableFrom(m, source) == IF source.info.has THEN createInformation(m) ELSE m

(* cloneDefaultInfosFrom: the source's default, if it has one; data that   *)
(* is made for it is not initialised otherwise.                            *)
cloneDefaultInfosFrom(m, source) ==
  IF source.info.default # Null THEN source.info.default
  ELSE IF m.info.default = Null THEN Uninitialised ELSE m.info.default

\* Mutant of cloneFaceInfosFrom: every face gets the record of the first.
cloneFaceInfosInPlace(data, source) ==
  data \o [k \in 1..source.faces |->
             IF source.info.has THEN source.info.data[1] ELSE None]

cloneFaceInfosFrom(data, source) ==
  data \o (IF source.info.has THEN source.info.data ELSE Invalid(source.faces))

(* What is read of a mesh: of one without nodes its table and no face.     *)
ReadFrom(source) ==
  IF source.nodes THEN source
  ELSE [source EXCEPT !.faces = 0, !.info.data = <<>>]

mergeMesh(m, source) ==
  LET t == addInfoTableFrom(m, source)
      both == t.info.has /\ source.info.has /\ source.faces > 0
  IN  [nodes |-> t.nodes \/ source.nodes,
       faces |-> t.faces + source.faces,
       info |-> [has |-> t.info.has,
                 data |-> IF t.info.has THEN cloneFaceInfosFrom(t.info.data, source) ELSE <<>>,
                 default |-> IF both THEN cloneDefaultInfosFrom(t, source) ELSE t.info.default]]

Merge ==
  /\ Len(sources) < MaxMerges
  /\ \E a \in MeshNames :
       /\ merged' = mergeMesh(merged, ReadFrom(mesh[a]))
       /\ sources' = Append(sources, ReadFrom(mesh[a]))
  /\ UNCHANGED mesh

(* addNode throws at a coordinate that is too large, and the loop over the *)
(* faces at one whose nodes do not exist or repeat; the exception leaves   *)
(* every caller of mergeToMesh, and the half-merged mesh goes with it.     *)
MergeThrows ==
  /\ \E a \in MeshNames : mesh[a].nodes
  /\ merged' = EmptyMesh /\ sources' = <<>>
  /\ UNCHANGED mesh

MeshesInit ==
  /\ mesh = [a \in MeshNames |-> EmptyMesh]
  /\ merged = EmptyMesh
  /\ sources = <<>>

MeshesNext ==
  \/ AddVertexTo \/ AddTriangle \/ SetTriangleProperties \/ SetAllTriangleProperties
  \/ SetObjectLevelProperty \/ GetProperties \/ ClearAllProperties \/ SetGeometry
  \/ Merge \/ MergeThrows

MeshesSpec == MeshesInit /\ [][MeshesNext]_meshVars

-----------------------------------------------------------------------------
(* Properties. *)

(* MergedMeshIsTheSources: a mesh with information has one record for      *)
(* every face, whichever came first, the faces or the information, so that *)
(* getFaceData and addFaceData never find another count.  The faces of a   *)
(* merged mesh are those of the meshes merged that have nodes, in their    *)
(* order, each with the property it had itself.  Its default data is that  *)
(* of the last of them that had faces and default data, whatever the faces *)
(* of the others showed; if none had, it is what the allocator left if one *)
(* of them had information, and there is none otherwise.                   *)
OwnData(m) == IF m.info.has THEN m.info.data ELSE Invalid(m.faces)
WithFaces == {k \in DOMAIN sources : sources[k].info.has /\ sources[k].faces > 0}
WithDefault == {k \in WithFaces : sources[k].info.default # Null}
MergedMeshIsTheSources ==
  /\ \A m \in {mesh[a] : a \in MeshNames} \cup {merged} :
       m.info.has => Len(m.info.data) = m.faces
  /\ OwnData(merged) = FlattenSeq([k \in DOMAIN sources |-> OwnData(sources[k])])
  /\ \A k \in WithDefault :
       (\A l \in WithDefault : l <= k) => merged.info.default = sources[k].info.default
  /\ WithDefault = {} => merged.info.default = IF WithFaces # {} THEN Uninitialised ELSE Null
=============================================================================
