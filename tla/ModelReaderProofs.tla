-------------------------- MODULE ModelReaderProofs --------------------------
(***************************************************************************)
(* The theorems about ModelReader, for all documents, IDs and numbers of   *)
(* mistakes.                                                               *)
(***************************************************************************)
EXTENDS ModelReader, ListTheorems

-----------------------------------------------------------------------------
(* The inductive invariant. *)

(***************************************************************************)
(* The nodes whose parseContent runs: each was made by the one around it.  *)
(***************************************************************************)
IsFrame(f) ==
  /\ f = [kind |-> f.kind, name |-> f.name, early |-> f.early, late |-> f.late,
          val |-> f.val, seen |-> f.seen]
  /\ f.kind \in Kinds /\ f.val \in Values
Frames(fs) == IsList(fs) /\ \A i \in DOMAIN fs : IsFrame(fs[i])

Named(node) == {c[3] : c \in node.child}
ChildKinds(kind) == Named(NodeOf[kind])
Nested(fs) ==
  /\ fs # <<>> => fs[1].kind = "Model"
  /\ \A i \in 1..(Len(fs) - 1) : fs[i + 1].kind \in ChildKinds(fs[i].kind)

(* The documents that are still to read.                                   *)
TextInv == /\ todo \in Seq(PartTexts)
           /\ status = "reading" => todo # <<>> /\ Frames(frames) /\ Nested(frames)

(***************************************************************************)
(* FramesFollowElements, and an element nobody reads has another name than *)
(* the innermost node around it.                                           *)
(***************************************************************************)
NotMistaken(j) ==
  ReadPlaces(j) # {} /\ ~open[j].read => frames[Cardinality(ReadPlaces(j))].name # open[j].el[2]
FollowInv ==
  /\ FramesFollowElements
  /\ IsList(open)
  /\ status = "reading" /\ ~eof /\ ~shadowed => \A j \in 1..Len(open) : NotMistaken(j)

(***************************************************************************)
(* The model m is consistent but for what is being read.                   *)
(***************************************************************************)
In(m, target, kinds) == target \in DOMAIN m.res /\ m.res[target].kind \in kinds
Resolves(m, r) == In(m, r[2], KindsOf(r[1]))
IsResource(r) == r = [kind |-> r.kind, n |-> r.n, refs |-> r.refs]
IsModel(m) ==
  /\ m = [res |-> m.res, known |-> m.known, items |-> m.items, meta |-> m.meta]
  /\ \A t \in DOMAIN m.res : IsResource(m.res[t])
PartsIn(m, S) == {r[2] : r \in {q \in UNION {m.res[t].refs : t \in S} : q[1] = "component"}}
NotInItself(m, t) ==
  LET one == PartsIn(m, {t})
      two == PartsIn(m, one)
      three == PartsIn(m, two)
  IN  t \notin one \cup two \cup three \cup PartsIn(m, three)
IsSound(m, t) ==
  /\ \A r \in m.res[t].refs : Resolves(m, r)
  /\ \A r \in m.res[t].refs : r[1] = "Tex2DGroup" => m.res[t].kind = "Tex2DGroup"
  /\ m.res[t].n # 0 => m.res[t].kind \in Groups
Consistent(m) ==
  /\ IsModel(m)
  /\ \A t \in DOMAIN m.res : IsSound(m, t) /\ NotInItself(m, t)
  /\ \A i \in m.items : In(m, i.object, Objects) /\ (i.part = Root \/ i.old)
  /\ DOMAIN m.res \subseteq m.known

(***************************************************************************)
(* What the part p, the nodes fs and the object or slice stack c that is   *)
(* being read have to do with the model.                                   *)
(***************************************************************************)
IsCur(c) ==
  /\ c = [id |-> c.id, kind |-> c.kind, refs |-> c.refs, nodes |-> c.nodes, slices |-> c.slices,
          pid |-> c.pid, meshpid |-> c.meshpid, index0 |-> c.index0, index |-> c.index,
          used |-> c.used, stack |-> c.stack, clip |-> c.clip, rep |-> c.rep]
  /\ c.index0 \in Nat /\ c.index \in Nat
CurRoles == {"component", "property", "sliceref"}
Unfinished(fs) == \E i \in DOMAIN fs : fs[i].kind \in Geometries \cup {"SliceStack"}
AtWork(p, fs, c, m) ==
  /\ IsCur(c)
  /\ \A r \in c.refs : r[1] \in CurRoles /\ Resolves(m, r)
  /\ m.known \ DOMAIN m.res = IF Unfinished(fs) THEN {<<p, c.id>>} ELSE {}
  /\ \A i \in DOMAIN fs :
       /\ fs[i].kind \in Geometries => c.kind \in Objects
       /\ fs[i].kind \in Groups => In(m, <<p, fs[i].val.id + Shift(fs[i].kind)>>, Groups)
       /\ fs[i].kind \in {"Build", "BuildItem"} => p = Root

ModelInv ==
  /\ Consistent(model)
  /\ status = "read" => model.known = DOMAIN model.res
  /\ status = "reading" => AtWork(Part, frames, cur, model)

-----------------------------------------------------------------------------
(* The grammar, as far as the model depends on it. *)

(* NodeRows: the row of every node class.                                  *)
LEMMA NodeRows ==
  /\ NodeOf["Model"] = NodeModel
  /\ NodeOf["Resources"] = NodeResources
  /\ NodeOf["Build"] = NodeBuild
  /\ NodeOf["BuildItem"] = NodeBuildItem
  /\ NodeOf["MetaData"] = NodeMetaData
  /\ NodeOf["MetaDataGroup"] = NodeMetaDataGroup
  /\ NodeOf["Object"] = NodeObject
  /\ NodeOf["Mesh"] = NodeMesh
  /\ NodeOf["Vertices"] = NodeVertices
  /\ NodeOf["Vertex"] = NodeVertex
  /\ NodeOf["Triangles"] = NodeTriangles
  /\ NodeOf["Triangle"] = NodeTriangle
  /\ NodeOf["ZVertex"] = NodeZVertex
  /\ NodeOf["ZTriangle"] = NodeZTriangle
  /\ NodeOf["Components"] = NodeComponents
  /\ NodeOf["Component"] = NodeComponent
  /\ NodeOf["BaseMaterials"] = NodeBaseMaterials
  /\ NodeOf["BaseMaterial"] = NodeBaseMaterial
  /\ NodeOf["Colors"] = NodeColors
  /\ NodeOf["Color"] = NodeColor
  /\ NodeOf["Texture2D"] = NodeTexture2D
  /\ NodeOf["Tex2DGroup"] = NodeTex2DGroup
  /\ NodeOf["Tex2Coord"] = NodeTex2Coord
  /\ NodeOf["CompositeMaterials"] = NodeCompositeMaterials
  /\ NodeOf["Composite"] = NodeComposite
  /\ NodeOf["MultiProperties"] = NodeMultiProperties
  /\ NodeOf["Multi"] = NodeMulti
  /\ NodeOf["BeamLattice"] = NodeBeamLattice
  /\ NodeOf["Beams"] = NodeBeams
  /\ NodeOf["Beam"] = NodeBeam
  /\ NodeOf["BeamSets"] = NodeBeamSets
  /\ NodeOf["BeamSet"] = NodeBeamSet
  /\ NodeOf["Ref"] = NodeRef
  /\ NodeOf["SliceStack"] = NodeSliceStack
  /\ NodeOf["Slice"] = NodeSlice
  /\ NodeOf["SliceRef"] = NodeSliceRef
  /\ NodeOf["SliceVertices"] = NodeSliceVertices
  /\ NodeOf["SliceVertex"] = NodeSliceVertex
  /\ NodeOf["Polygon"] = NodePolygon
  /\ NodeOf["Segment"] = NodeSegment
  /\ NodeOf["ToolpathResource"] = NodeToolpathResource
  /\ NodeOf["ToolpathProfiles"] = NodeToolpathProfiles
  /\ NodeOf["ToolpathProfile"] = NodeToolpathProfile
  /\ NodeOf["ToolpathLayers"] = NodeToolpathLayers
  /\ NodeOf["ToolpathLayer"] = NodeToolpathLayer
  /\ NodeOf["Resources093"] = NodeResources093
  /\ NodeOf["Build093"] = NodeBuild093
  /\ NodeOf["BuildItem093"] = NodeBuildItem093
  /\ NodeOf["Object093"] = NodeObject093
  /\ NodeOf["Mesh093"] = NodeMesh093
  /\ NodeOf["Vertices093"] = NodeVertices093
  /\ NodeOf["Vertex093"] = NodeVertex093
  /\ NodeOf["Triangles093"] = NodeTriangles093
  /\ NodeOf["Triangle093"] = NodeTriangle093
  /\ NodeOf["TextureVertices093"] = NodeTextureVertices093
  /\ NodeOf["TextureVertex093"] = NodeTextureVertex093
  /\ NodeOf["Components093"] = NodeComponents093
  /\ NodeOf["Component093"] = NodeComponent093
  /\ NodeOf["Color093"] = NodeColor093
  /\ NodeOf["Material093"] = NodeMaterial093
  /\ NodeOf["Texture093"] = NodeTexture093
<1>1. /\ NodeOf["Model"] = NodeModel
      /\ NodeOf["Resources"] = NodeResources
      /\ NodeOf["Build"] = NodeBuild
      /\ NodeOf["BuildItem"] = NodeBuildItem
      /\ NodeOf["MetaData"] = NodeMetaData
      /\ NodeOf["MetaDataGroup"] = NodeMetaDataGroup
      /\ NodeOf["Object"] = NodeObject
      /\ NodeOf["Mesh"] = NodeMesh
      /\ NodeOf["Vertices"] = NodeVertices
      /\ NodeOf["Vertex"] = NodeVertex
  BY DEF NodeOf
<1>2. /\ NodeOf["Triangles"] = NodeTriangles
      /\ NodeOf["Triangle"] = NodeTriangle
      /\ NodeOf["ZVertex"] = NodeZVertex
      /\ NodeOf["ZTriangle"] = NodeZTriangle
      /\ NodeOf["Components"] = NodeComponents
      /\ NodeOf["Component"] = NodeComponent
      /\ NodeOf["BaseMaterials"] = NodeBaseMaterials
      /\ NodeOf["BaseMaterial"] = NodeBaseMaterial
      /\ NodeOf["Colors"] = NodeColors
      /\ NodeOf["Color"] = NodeColor
  BY DEF NodeOf
<1>3. /\ NodeOf["Texture2D"] = NodeTexture2D
      /\ NodeOf["Tex2DGroup"] = NodeTex2DGroup
      /\ NodeOf["Tex2Coord"] = NodeTex2Coord
      /\ NodeOf["CompositeMaterials"] = NodeCompositeMaterials
      /\ NodeOf["Composite"] = NodeComposite
      /\ NodeOf["MultiProperties"] = NodeMultiProperties
      /\ NodeOf["Multi"] = NodeMulti
      /\ NodeOf["BeamLattice"] = NodeBeamLattice
      /\ NodeOf["Beams"] = NodeBeams
      /\ NodeOf["Beam"] = NodeBeam
  BY DEF NodeOf
<1>4. /\ NodeOf["BeamSets"] = NodeBeamSets
      /\ NodeOf["BeamSet"] = NodeBeamSet
      /\ NodeOf["Ref"] = NodeRef
      /\ NodeOf["SliceStack"] = NodeSliceStack
      /\ NodeOf["Slice"] = NodeSlice
      /\ NodeOf["SliceRef"] = NodeSliceRef
      /\ NodeOf["SliceVertices"] = NodeSliceVertices
      /\ NodeOf["SliceVertex"] = NodeSliceVertex
      /\ NodeOf["Polygon"] = NodePolygon
      /\ NodeOf["Segment"] = NodeSegment
  BY DEF NodeOf
<1>5. /\ NodeOf["ToolpathResource"] = NodeToolpathResource
      /\ NodeOf["ToolpathProfiles"] = NodeToolpathProfiles
      /\ NodeOf["ToolpathProfile"] = NodeToolpathProfile
      /\ NodeOf["ToolpathLayers"] = NodeToolpathLayers
      /\ NodeOf["ToolpathLayer"] = NodeToolpathLayer
      /\ NodeOf["Resources093"] = NodeResources093
      /\ NodeOf["Build093"] = NodeBuild093
      /\ NodeOf["BuildItem093"] = NodeBuildItem093
      /\ NodeOf["Object093"] = NodeObject093
      /\ NodeOf["Mesh093"] = NodeMesh093
  BY DEF NodeOf
<1>6. /\ NodeOf["Vertices093"] = NodeVertices093
      /\ NodeOf["Vertex093"] = NodeVertex093
      /\ NodeOf["Triangles093"] = NodeTriangles093
      /\ NodeOf["Triangle093"] = NodeTriangle093
      /\ NodeOf["TextureVertices093"] = NodeTextureVertices093
      /\ NodeOf["TextureVertex093"] = NodeTextureVertex093
      /\ NodeOf["Components093"] = NodeComponents093
      /\ NodeOf["Component093"] = NodeComponent093
      /\ NodeOf["Color093"] = NodeColor093
      /\ NodeOf["Material093"] = NodeMaterial093
  BY DEF NodeOf
<1>7. /\ NodeOf["Texture093"] = NodeTexture093
  BY DEF NodeOf
<1> QED BY ONLY <1>1, <1>2, <1>3, <1>4, <1>5, <1>6, <1>7

(* PartChildren: what a model part and its sections read.                  *)
LEMMA PartChildren ==
  /\ Named(NodeModel) =
       {"Resources", "Build", "MetaData", "Resources093", "Build093"}
  /\ Named(NodeResources) =
       {"Object", "BaseMaterials", "Colors", "Tex2DGroup", "Texture2D",
        "CompositeMaterials", "MultiProperties", "SliceStack",
        "ToolpathResource"}
  /\ Named(NodeBuild) = {"BuildItem"}
  /\ Named(NodeBuildItem) = {"MetaDataGroup"}
  /\ Named(NodeMetaDataGroup) = {"MetaData"}
<1>1. Named(NodeModel) =
        {"Resources", "Build", "MetaData", "Resources093", "Build093"}
  BY DEF Named, NodeModel, Node
<1>2. Named(NodeResources) =
        {"Object", "BaseMaterials", "Colors", "Tex2DGroup", "Texture2D",
         "CompositeMaterials", "MultiProperties", "SliceStack",
         "ToolpathResource"}
  BY DEF Named, NodeResources, Node
<1>3. Named(NodeBuild) = {"BuildItem"}
  BY DEF Named, NodeBuild, Node
<1>4. Named(NodeBuildItem) = {"MetaDataGroup"}
  BY DEF Named, NodeBuildItem, Node
<1>5. Named(NodeMetaDataGroup) = {"MetaData"}
  BY DEF Named, NodeMetaDataGroup, Node
<1> QED BY ONLY <1>1, <1>2, <1>3, <1>4, <1>5

(* ObjectChildren: what an object reads.                                   *)
LEMMA ObjectChildren ==
  /\ Named(NodeObject) = {"Mesh", "Components", "MetaDataGroup"}
  /\ Named(NodeMesh) = {"Vertices", "Triangles", "BeamLattice"}
  /\ Named(NodeVertices) = {"Vertex", "ZVertex"}
  /\ Named(NodeTriangles) = {"Triangle", "ZTriangle"}
  /\ Named(NodeComponents) = {"Component"}
<1>1. Named(NodeObject) = {"Mesh", "Components", "MetaDataGroup"}
  BY DEF Named, NodeObject, Node
<1>2. Named(NodeMesh) = {"Vertices", "Triangles", "BeamLattice"}
  BY DEF Named, NodeMesh, Node
<1>3. Named(NodeVertices) = {"Vertex", "ZVertex"}
  BY DEF Named, NodeVertices, Node
<1>4. Named(NodeTriangles) = {"Triangle", "ZTriangle"}
  BY DEF Named, NodeTriangles, Node
<1>5. Named(NodeComponents) = {"Component"}
  BY DEF Named, NodeComponents, Node
<1> QED BY ONLY <1>1, <1>2, <1>3, <1>4, <1>5

(* PropertyChildren: what a property resource reads.                       *)
LEMMA PropertyChildren ==
  /\ Named(NodeBaseMaterials) = {"BaseMaterial"}
  /\ Named(NodeColors) = {"Color"}
  /\ Named(NodeTex2DGroup) = {"Tex2Coord"}
  /\ Named(NodeCompositeMaterials) = {"Composite"}
  /\ Named(NodeMultiProperties) = {"Multi"}
<1>1. Named(NodeBaseMaterials) = {"BaseMaterial"}
  BY DEF Named, NodeBaseMaterials, Node
<1>2. Named(NodeColors) = {"Color"}
  BY DEF Named, NodeColors, Node
<1>3. Named(NodeTex2DGroup) = {"Tex2Coord"}
  BY DEF Named, NodeTex2DGroup, Node
<1>4. Named(NodeCompositeMaterials) = {"Composite"}
  BY DEF Named, NodeCompositeMaterials, Node
<1>5. Named(NodeMultiProperties) = {"Multi"}
  BY DEF Named, NodeMultiProperties, Node
<1> QED BY ONLY <1>1, <1>2, <1>3, <1>4, <1>5

(* LatticeChildren: what a beam lattice reads.                             *)
LEMMA LatticeChildren ==
  /\ Named(NodeBeamLattice) = {"Beams", "BeamSets"}
  /\ Named(NodeBeams) = {"Beam"}
  /\ Named(NodeBeamSets) = {"BeamSet"}
  /\ Named(NodeBeamSet) = {"Ref"}
<1>1. Named(NodeBeamLattice) = {"Beams", "BeamSets"}
  BY DEF Named, NodeBeamLattice, Node
<1>2. Named(NodeBeams) = {"Beam"}
  BY DEF Named, NodeBeams, Node
<1>3. Named(NodeBeamSets) = {"BeamSet"}
  BY DEF Named, NodeBeamSets, Node
<1>4. Named(NodeBeamSet) = {"Ref"}
  BY DEF Named, NodeBeamSet, Node
<1> QED BY ONLY <1>1, <1>2, <1>3, <1>4

(* SliceChildren: what a slice stack reads.                                *)
LEMMA SliceChildren ==
  /\ Named(NodeSliceStack) = {"Slice", "SliceRef"}
  /\ Named(NodeSlice) = {"SliceVertices", "Polygon"}
  /\ Named(NodeSliceVertices) = {"SliceVertex"}
  /\ Named(NodePolygon) = {"Segment"}
<1>1. Named(NodeSliceStack) = {"Slice", "SliceRef"}
  BY DEF Named, NodeSliceStack, Node
<1>2. Named(NodeSlice) = {"SliceVertices", "Polygon"}
  BY DEF Named, NodeSlice, Node
<1>3. Named(NodeSliceVertices) = {"SliceVertex"}
  BY DEF Named, NodeSliceVertices, Node
<1>4. Named(NodePolygon) = {"Segment"}
  BY DEF Named, NodePolygon, Node
<1> QED BY ONLY <1>1, <1>2, <1>3, <1>4

(* ToolpathChildren: what a toolpath resource reads.                       *)
LEMMA ToolpathChildren ==
  /\ Named(NodeToolpathResource) = {"ToolpathProfiles", "ToolpathLayers"}
  /\ Named(NodeToolpathProfiles) = {"ToolpathProfile"}
  /\ Named(NodeToolpathLayers) = {"ToolpathLayer"}
<1>1. Named(NodeToolpathResource) = {"ToolpathProfiles", "ToolpathLayers"}
  BY DEF Named, NodeToolpathResource, Node
<1>2. Named(NodeToolpathProfiles) = {"ToolpathProfile"}
  BY DEF Named, NodeToolpathProfiles, Node
<1>3. Named(NodeToolpathLayers) = {"ToolpathLayer"}
  BY DEF Named, NodeToolpathLayers, Node
<1> QED BY ONLY <1>1, <1>2, <1>3

(* OldChildren: what the nodes of the 0.93 format read.                    *)
LEMMA OldChildren ==
  /\ Named(NodeResources093) =
       {"Object093", "Color093", "Texture093", "Material093"}
  /\ Named(NodeBuild093) = {"BuildItem093"}
  /\ Named(NodeObject093) = {"Mesh093", "Components093"}
  /\ Named(NodeMesh093) = {"Vertices093", "Triangles093", "TextureVertices093"}
  /\ Named(NodeVertices093) = {"Vertex093"}
  /\ Named(NodeTriangles093) = {"Triangle093"}
  /\ Named(NodeTextureVertices093) = {"TextureVertex093"}
  /\ Named(NodeComponents093) = {"Component093"}
<1>1. Named(NodeResources093) =
        {"Object093", "Color093", "Texture093", "Material093"}
  BY DEF Named, NodeResources093, Node
<1>2. Named(NodeBuild093) = {"BuildItem093"}
  BY DEF Named, NodeBuild093, Node
<1>3. Named(NodeObject093) = {"Mesh093", "Components093"}
  BY DEF Named, NodeObject093, Node
<1>4. Named(NodeMesh093) = {"Vertices093", "Triangles093", "TextureVertices093"}
  BY DEF Named, NodeMesh093, Node
<1>5. Named(NodeVertices093) = {"Vertex093"}
  BY DEF Named, NodeVertices093, Node
<1>6. Named(NodeTriangles093) = {"Triangle093"}
  BY DEF Named, NodeTriangles093, Node
<1>7. Named(NodeTextureVertices093) = {"TextureVertex093"}
  BY DEF Named, NodeTextureVertices093, Node
<1>8. Named(NodeComponents093) = {"Component093"}
  BY DEF Named, NodeComponents093, Node
<1> QED BY ONLY <1>1, <1>2, <1>3, <1>4, <1>5, <1>6, <1>7, <1>8

(* NoChildren: nothing is read inside of these.                            *)
LEMMA NoChildren ==
  /\ Named(NodeMetaData) = {}
  /\ Named(NodeVertex) = {}
  /\ Named(NodeTriangle) = {}
  /\ Named(NodeZVertex) = {}
  /\ Named(NodeZTriangle) = {}
  /\ Named(NodeComponent) = {}
  /\ Named(NodeBaseMaterial) = {}
  /\ Named(NodeColor) = {}
  /\ Named(NodeTexture2D) = {}
  /\ Named(NodeTex2Coord) = {}
  /\ Named(NodeComposite) = {}
  /\ Named(NodeMulti) = {}
  /\ Named(NodeBeam) = {}
  /\ Named(NodeRef) = {}
  /\ Named(NodeSliceRef) = {}
  /\ Named(NodeSliceVertex) = {}
  /\ Named(NodeSegment) = {}
  /\ Named(NodeToolpathProfile) = {}
  /\ Named(NodeToolpathLayer) = {}
  /\ Named(NodeBuildItem093) = {}
  /\ Named(NodeVertex093) = {}
  /\ Named(NodeTriangle093) = {}
  /\ Named(NodeTextureVertex093) = {}
  /\ Named(NodeComponent093) = {}
  /\ Named(NodeColor093) = {}
  /\ Named(NodeMaterial093) = {}
  /\ Named(NodeTexture093) = {}
<1>1. Named(NodeMetaData) = {}
  BY DEF Named, NodeMetaData, Node
<1>2. Named(NodeVertex) = {}
  BY DEF Named, NodeVertex, Node
<1>3. Named(NodeTriangle) = {}
  BY DEF Named, NodeTriangle, Node
<1>4. Named(NodeZVertex) = {}
  BY DEF Named, NodeZVertex, Node
<1>5. Named(NodeZTriangle) = {}
  BY DEF Named, NodeZTriangle, Node
<1>6. Named(NodeComponent) = {}
  BY DEF Named, NodeComponent, Node
<1>7. Named(NodeBaseMaterial) = {}
  BY DEF Named, NodeBaseMaterial, Node
<1>8. Named(NodeColor) = {}
  BY DEF Named, NodeColor, Node
<1>9. Named(NodeTexture2D) = {}
  BY DEF Named, NodeTexture2D, Node
<1>10. Named(NodeTex2Coord) = {}
  BY DEF Named, NodeTex2Coord, Node
<1>11. Named(NodeComposite) = {}
  BY DEF Named, NodeComposite, Node
<1>12. Named(NodeMulti) = {}
  BY DEF Named, NodeMulti, Node
<1>13. Named(NodeBeam) = {}
  BY DEF Named, NodeBeam, Node
<1>14. Named(NodeRef) = {}
  BY DEF Named, NodeRef, Node
<1>15. Named(NodeSliceRef) = {}
  BY DEF Named, NodeSliceRef, Node
<1>16. Named(NodeSliceVertex) = {}
  BY DEF Named, NodeSliceVertex, Node
<1>17. Named(NodeSegment) = {}
  BY DEF Named, NodeSegment, Node
<1>18. Named(NodeToolpathProfile) = {}
  BY DEF Named, NodeToolpathProfile, Node
<1>19. Named(NodeToolpathLayer) = {}
  BY DEF Named, NodeToolpathLayer, Node
<1>20. Named(NodeBuildItem093) = {}
  BY DEF Named, NodeBuildItem093, Node
<1>21. Named(NodeVertex093) = {}
  BY DEF Named, NodeVertex093, Node
<1>22. Named(NodeTriangle093) = {}
  BY DEF Named, NodeTriangle093, Node
<1>23. Named(NodeTextureVertex093) = {}
  BY DEF Named, NodeTextureVertex093, Node
<1>24. Named(NodeComponent093) = {}
  BY DEF Named, NodeComponent093, Node
<1>25. Named(NodeColor093) = {}
  BY DEF Named, NodeColor093, Node
<1>26. Named(NodeMaterial093) = {}
  BY DEF Named, NodeMaterial093, Node
<1>27. Named(NodeTexture093) = {}
  BY DEF Named, NodeTexture093, Node
<1> QED BY ONLY <1>1, <1>2, <1>3, <1>4, <1>5, <1>6, <1>7, <1>8, <1>9, <1>10,
                <1>11, <1>12, <1>13, <1>14, <1>15, <1>16, <1>17, <1>18, <1>19,
                <1>20, <1>21, <1>22, <1>23, <1>24, <1>25, <1>26, <1>27

Resources2 == Resources1 \cup {"Object", "Object093", "SliceStack", "Material093"}

(***************************************************************************)
(* Where the nodes are that the model depends on.                          *)
(***************************************************************************)
Placed(kind, child) ==
  /\ child \in Kinds
  /\ child # "Model" /\ child # ""
  /\ child \in Sections => kind = "Model"
  /\ child \in Resources2 => kind \in {"Resources", "Resources093"}
  /\ child \in Geometries => kind \in {"Object", "Object093"}
  /\ child \in Properties => kind \in Groups
  /\ child = "BuildItem" => kind = "Build"

(* KindsAre: the node classes.                                             *)
LEMMA KindsAre ==
  Kinds =
    {"Model", "Resources", "Build", "BuildItem", "MetaData", "MetaDataGroup",
     "Object", "Mesh", "Vertices", "Vertex", "Triangles", "Triangle", "ZVertex",
     "ZTriangle", "Components", "Component", "BaseMaterials", "BaseMaterial",
     "Colors", "Color", "Texture2D", "Tex2DGroup", "Tex2Coord",
     "CompositeMaterials", "Composite", "MultiProperties", "Multi",
     "BeamLattice", "Beams", "Beam", "BeamSets", "BeamSet", "Ref", "SliceStack",
     "Slice", "SliceRef", "SliceVertices", "SliceVertex", "Polygon", "Segment",
     "ToolpathResource", "ToolpathProfiles", "ToolpathProfile",
     "ToolpathLayers", "ToolpathLayer", "Resources093", "Build093",
     "BuildItem093", "Object093", "Mesh093", "Vertices093", "Vertex093",
     "Triangles093", "Triangle093", "TextureVertices093", "TextureVertex093",
     "Components093", "Component093", "Color093", "Material093", "Texture093"}
BY DEF Kinds, NodeOf

(* ChildrenArePlaced: a node that is read is where it belongs.             *)
LEMMA ChildrenArePlaced ==
  \A kind \in Kinds : \A child \in ChildKinds(kind) : Placed(kind, child)
<1> DEFINE P(kind, node) == \A child \in Named(node) : Placed(kind, child)
<1>1. P("Model", NodeModel) /\ P("Resources", NodeResources) /\
      P("Build", NodeBuild) /\ P("BuildItem", NodeBuildItem) /\
      P("MetaDataGroup", NodeMetaDataGroup)
  BY ONLY PartChildren, KindsAre DEF Placed, Sections, Resources2, Resources1, Geometries, Properties,
     Groups
<1>2. P("Object", NodeObject) /\ P("Mesh", NodeMesh) /\
      P("Vertices", NodeVertices) /\ P("Triangles", NodeTriangles) /\
      P("Components", NodeComponents)
  BY ONLY ObjectChildren, KindsAre DEF Placed, Sections, Resources2, Resources1, Geometries, Properties,
     Groups
<1>3. P("BaseMaterials", NodeBaseMaterials) /\ P("Colors", NodeColors) /\
      P("Tex2DGroup", NodeTex2DGroup) /\
      P("CompositeMaterials", NodeCompositeMaterials) /\
      P("MultiProperties", NodeMultiProperties)
  BY ONLY PropertyChildren, KindsAre DEF Placed, Sections, Resources2, Resources1, Geometries, Properties,
     Groups
<1>4. P("BeamLattice", NodeBeamLattice) /\ P("Beams", NodeBeams) /\
      P("BeamSets", NodeBeamSets) /\ P("BeamSet", NodeBeamSet)
  BY ONLY LatticeChildren, KindsAre DEF Placed, Sections, Resources2, Resources1, Geometries, Properties,
     Groups
<1>5. P("SliceStack", NodeSliceStack) /\ P("Slice", NodeSlice) /\
      P("SliceVertices", NodeSliceVertices) /\ P("Polygon", NodePolygon)
  BY ONLY SliceChildren, KindsAre DEF Placed, Sections, Resources2, Resources1, Geometries, Properties,
     Groups
<1>6. P("ToolpathResource", NodeToolpathResource) /\
      P("ToolpathProfiles", NodeToolpathProfiles) /\
      P("ToolpathLayers", NodeToolpathLayers)
  BY ONLY ToolpathChildren, KindsAre DEF Placed, Sections, Resources2, Resources1, Geometries, Properties,
     Groups
<1>7. P("Resources093", NodeResources093) /\ P("Build093", NodeBuild093) /\
      P("Object093", NodeObject093) /\ P("Mesh093", NodeMesh093) /\
      P("Vertices093", NodeVertices093) /\ P("Triangles093", NodeTriangles093) /\
      P("TextureVertices093", NodeTextureVertices093) /\
      P("Components093", NodeComponents093)
  BY ONLY OldChildren, KindsAre DEF Placed, Sections, Resources2, Resources1, Geometries, Properties,
     Groups
<1>8. P("MetaData", NodeMetaData) /\ P("Vertex", NodeVertex) /\
      P("Triangle", NodeTriangle) /\ P("ZVertex", NodeZVertex) /\
      P("ZTriangle", NodeZTriangle) /\ P("Component", NodeComponent) /\
      P("BaseMaterial", NodeBaseMaterial) /\ P("Color", NodeColor) /\
      P("Texture2D", NodeTexture2D) /\ P("Tex2Coord", NodeTex2Coord) /\
      P("Composite", NodeComposite) /\ P("Multi", NodeMulti) /\
      P("Beam", NodeBeam) /\ P("Ref", NodeRef) /\ P("SliceRef", NodeSliceRef) /\
      P("SliceVertex", NodeSliceVertex) /\ P("Segment", NodeSegment) /\
      P("ToolpathProfile", NodeToolpathProfile) /\
      P("ToolpathLayer", NodeToolpathLayer) /\
      P("BuildItem093", NodeBuildItem093) /\ P("Vertex093", NodeVertex093) /\
      P("Triangle093", NodeTriangle093) /\
      P("TextureVertex093", NodeTextureVertex093) /\
      P("Component093", NodeComponent093) /\ P("Color093", NodeColor093) /\
      P("Material093", NodeMaterial093) /\ P("Texture093", NodeTexture093)
  BY ONLY NoChildren
<1>9. \A kind \in Kinds : P(kind, NodeOf[kind])
  <2> HIDE DEF P
  <2> QED BY ONLY <1>1, <1>2, <1>3, <1>4, <1>5, <1>6, <1>7, <1>8, KindsAre, NodeRows
<1> QED BY <1>9 DEF ChildKinds

(* ChildIs: the class of a child element is in the row of its parent.      *)
LEMMA ChildIs ==
  ASSUME NEW kind, NEW el, ChildNode(kind, el) # ""
  PROVE  \E c \in NodeOf[kind].child :
           c[1] \in {el[1], "any"} /\ c[2] = el[2] /\ c[3] = ChildNode(kind, el)
<1> DEFINE found == {c \in NodeOf[kind].child : c[1] \in {el[1], "any"} /\ c[2] = el[2]}
<1>1. found # {} /\ ChildNode(kind, el) = (CHOOSE c \in found : TRUE)[3]
  BY Zenon DEF ChildNode
<1>2. (CHOOSE c \in found : TRUE) \in found
  <2> HIDE DEF found
  <2> QED BY <1>1, Zenon
<1> QED BY <1>1, <1>2

(* ChildIsPlaced: a node that is read is where it belongs.                 *)
LEMMA ChildIsPlaced ==
  ASSUME NEW kind \in Kinds, NEW el, ChildNode(kind, el) # ""
  PROVE  ChildNode(kind, el) \in ChildKinds(kind) /\ Placed(kind, ChildNode(kind, el))
<1>1. ChildNode(kind, el) \in ChildKinds(kind)
  BY ChildIs DEF ChildKinds, Named
<1> QED BY <1>1, ChildrenArePlaced

(* BuildIsCore: the build a model node reads is that of the core           *)
(* namespace.                                                              *)
LEMMA BuildIsCore ==
  ASSUME NEW el, el = <<el[1], el[2]>>, ChildNode("Model", el) = "Build"
  PROVE  el = <<"core", "build">>
<1>1. \A c \in NodeModel.child : c[3] = "Build" => c[1] = "core" /\ c[2] = "build"
  BY DEF NodeModel, Node
<1>2. \A c \in NodeModel.child : c[1] # "any"
  BY DEF NodeModel, Node
<1>3. \E c \in NodeModel.child : c[1] \in {el[1], "any"} /\ c[2] = el[2] /\ c[3] = "Build"
  BY ChildIs, NodeRows
<1> QED BY <1>1, <1>2, <1>3

-----------------------------------------------------------------------------
(* The nodes whose parseContent runs. *)

(***************************************************************************)
(* The list gs is fs without its last node.                                *)
(***************************************************************************)
Shorter(gs, fs) ==
  /\ IsList(gs) /\ Len(fs) \in Nat \ {0} /\ Len(gs) = Len(fs) - 1
  /\ DOMAIN gs = 1..(Len(fs) - 1) /\ DOMAIN fs = 1..Len(fs)
  /\ \A i \in 1..(Len(fs) - 1) :
       IsFrame(gs[i]) /\ gs[i].kind = fs[i].kind /\ gs[i].name = fs[i].name /\ gs[i].val = fs[i].val

(***************************************************************************)
(* The list gs is fs and a node of the given class for a token.            *)
(***************************************************************************)
Longer(gs, fs, kind, tok) ==
  /\ IsList(gs) /\ Len(fs) \in Nat /\ Len(gs) = Len(fs) + 1
  /\ DOMAIN gs = 1..(Len(fs) + 1) /\ DOMAIN fs = 1..Len(fs)
  /\ \A i \in 1..Len(fs) : gs[i] = fs[i]
  /\ gs[Len(fs) + 1] = Frame(kind, tok)

(* FrameFields: what is known of a new node.                               *)
LEMMA FrameFields ==
  ASSUME NEW kind \in Kinds, NEW tok, tok.val \in Values
  PROVE  /\ IsFrame(Frame(kind, tok))
         /\ Frame(kind, tok).kind = kind
         /\ Frame(kind, tok).name = tok.el[2]
         /\ Frame(kind, tok).val = tok.val
BY DEF Frame, IsFrame

(* ShortList: a list without its last element.                             *)
LEMMA ShortList ==
  ASSUME NEW s, IsList(s), s # <<>>, NEW t, t = SubSeq(s, 1, Len(s) - 1)
  PROVE  /\ IsList(t) /\ Len(s) \in Nat \ {0} /\ Len(t) = Len(s) - 1
         /\ DOMAIN s = 1..Len(s) /\ DOMAIN t = 1..(Len(s) - 1)
         /\ \A i \in 1..(Len(s) - 1) : t[i] = s[i]
<1> DEFINE S == {s[i] : i \in DOMAIN s}
<1>1. s \in Seq(S)
  BY DEF IsList
<1> HIDE DEF S
<1>2. Len(s) \in 1..Len(s) /\ Len(s) \in Nat \ {0} /\ DOMAIN s = 1..Len(s)
  BY <1>1
<1>3. \A k \in 1..Len(s) :
        /\ SubSeq(s, 1, k - 1) \in Seq(S) /\ Len(SubSeq(s, 1, k - 1)) = k - 1
        /\ DOMAIN SubSeq(s, 1, k - 1) = 1..(k - 1)
        /\ \A i \in 1..(k - 1) : SubSeq(s, 1, k - 1)[i] = s[i]
  BY <1>1
<1>4. /\ t \in Seq(S) /\ Len(t) = Len(s) - 1 /\ DOMAIN t = 1..(Len(s) - 1)
      /\ \A i \in 1..(Len(s) - 1) : t[i] = s[i]
  BY <1>2, <1>3, Zenon
<1> QED BY <1>2, <1>4, SeqIsList

(* ShorterFrames: a node returns from parseContent.                        *)
LEMMA ShorterFrames ==
  ASSUME NEW fs, Frames(fs), fs # <<>>
  PROVE  Shorter(SubSeq(fs, 1, Len(fs) - 1), fs)
<1> DEFINE gs == SubSeq(fs, 1, Len(fs) - 1)
<1>1. /\ IsList(gs) /\ Len(fs) \in Nat \ {0} /\ Len(gs) = Len(fs) - 1
      /\ DOMAIN fs = 1..Len(fs) /\ DOMAIN gs = 1..(Len(fs) - 1)
      /\ \A i \in 1..(Len(fs) - 1) : gs[i] = fs[i]
  BY ShortList DEF Frames
<1> HIDE DEF gs
<1>2. \A i \in 1..Len(fs) : IsFrame(fs[i])
  BY <1>1 DEF Frames
<1>3. Shorter(gs, fs)
  BY <1>1, <1>2 DEF Shorter
<1> QED BY <1>3 DEF gs

(* SeeingFrame: a node that has seen one thing more.                       *)
LEMMA SeeingFrame ==
  ASSUME NEW f, IsFrame(f), NEW x, NEW g, g = [f EXCEPT !.seen = @ \cup {x}]
  PROVE  IsFrame(g) /\ g.kind = f.kind /\ g.name = f.name /\ g.val = f.val
BY DEF IsFrame

(* SeeingFrames: a node returns, and the one around it has seen one thing  *)
(* more.                                                                   *)
LEMMA SeeingFrames ==
  ASSUME NEW fs, Frames(fs), fs # <<>>, NEW x
  PROVE  Shorter([SubSeq(fs, 1, Len(fs) - 1) EXCEPT ![Len(fs) - 1].seen = @ \cup {x}], fs)
<1> DEFINE s == SubSeq(fs, 1, Len(fs) - 1)
           n == Len(fs) - 1
           e == [s[n] EXCEPT !.seen = @ \cup {x}]
           gs == [s EXCEPT ![n] = e]
<1>1. Shorter(s, fs)
  BY ShorterFrames
<1> HIDE DEF s
<1>2. /\ IsList(s) /\ Len(fs) \in Nat \ {0} /\ n \in Nat
      /\ DOMAIN s = 1..n /\ DOMAIN fs = 1..Len(fs)
      /\ \A i \in 1..n : IsFrame(s[i]) /\ s[i].kind = fs[i].kind /\ s[i].name = fs[i].name
                         /\ s[i].val = fs[i].val
  BY <1>1 DEF Shorter
<1> HIDE DEF n
<1>3. n \in 1..n => IsFrame(e) /\ e.kind = s[n].kind /\ e.name = s[n].name /\ e.val = s[n].val
  <2> SUFFICES ASSUME n \in 1..n
               PROVE  IsFrame(e) /\ e.kind = s[n].kind /\ e.name = s[n].name /\ e.val = s[n].val
    OBVIOUS
  <2>1. IsFrame(s[n])
    BY <1>2
  <2> QED BY <2>1, SeeingFrame, ZenonT(60)
<1> HIDE DEF e
<1>4. DOMAIN gs = 1..n /\ gs = [i \in 1..n |-> gs[i]]
      /\ \A i \in 1..n : gs[i] = IF i = n THEN e ELSE s[i]
  BY <1>2
<1> HIDE DEF gs
<1>5. IsList(gs) /\ Len(gs) = n
  BY <1>2, <1>4, FunctionIsList
<1>6. \A i \in 1..n : IsFrame(gs[i]) /\ gs[i].kind = fs[i].kind /\ gs[i].name = fs[i].name
                      /\ gs[i].val = fs[i].val
  BY <1>2, <1>3, <1>4
<1>7. Shorter(gs, fs)
  BY <1>2, <1>4, <1>5, <1>6 DEF Shorter, n
<1> QED BY <1>7, Zenon DEF gs, e, n, s

(* LongerFrames: a node calls parseContent.                                *)
LEMMA LongerFrames ==
  ASSUME NEW fs, Frames(fs), NEW kind, NEW tok
  PROVE  Longer(Append(fs, Frame(kind, tok)), fs, kind, tok)
<1> DEFINE e == Frame(kind, tok)
           gs == Append(fs, e)
<1>1. IsList(fs)
  BY DEF Frames
<1>2. /\ IsList(gs) /\ Len(fs) \in Nat /\ Len(gs) = Len(fs) + 1
      /\ DOMAIN fs = 1..Len(fs) /\ DOMAIN gs = 1..(Len(fs) + 1)
      /\ \A i \in 1..Len(fs) : gs[i] = fs[i]
      /\ gs[Len(fs) + 1] = e
  <2> HIDE DEF e
  <2> QED BY <1>1, ListAppend
<1> HIDE DEF gs
<1>3. Longer(gs, fs, kind, tok)
  BY <1>2 DEF Longer
<1> QED BY <1>3 DEF gs

(* FramesNest: both keep the nodes nested as the grammar says.             *)
LEMMA FramesNest ==
  ASSUME NEW fs, Frames(fs), Nested(fs)
  PROVE  /\ \A gs : Shorter(gs, fs) => Frames(gs) /\ Nested(gs)
         /\ \A gs, kind, tok :
              /\ Longer(gs, fs, kind, tok) /\ tok.val \in Values
              /\ IF fs = <<>> THEN kind = "Model"
                 ELSE kind \in ChildKinds(fs[Len(fs)].kind)
              => Frames(gs) /\ Nested(gs)
<1>1. ASSUME NEW gs, Shorter(gs, fs) PROVE Frames(gs) /\ Nested(gs)
  <2>1. Frames(gs)
    BY <1>1 DEF Shorter, Frames
  <2>2. ASSUME gs # <<>> PROVE gs[1].kind = "Model"
    <3>1. Len(gs) # 0
      BY <1>1, <2>2 DEF Shorter, IsList
    <3>2. 1 \in 1..(Len(fs) - 1) /\ fs # <<>>
      BY <1>1, <3>1 DEF Shorter
    <3> QED BY <1>1, <3>2 DEF Shorter, Nested
  <2>3. \A i \in 1..(Len(gs) - 1) : gs[i + 1].kind \in ChildKinds(gs[i].kind)
    <3> SUFFICES ASSUME NEW i \in 1..(Len(gs) - 1)
                 PROVE  gs[i + 1].kind \in ChildKinds(gs[i].kind)
      OBVIOUS
    <3>1. i \in 1..(Len(fs) - 1) /\ i + 1 \in 1..(Len(fs) - 1)
      BY <1>1 DEF Shorter
    <3>2. gs[i + 1].kind = fs[i + 1].kind /\ gs[i].kind = fs[i].kind
      BY <1>1, <3>1 DEF Shorter
    <3> QED BY <3>1, <3>2, Zenon DEF Nested
  <2> QED BY <2>1, <2>2, <2>3 DEF Nested
<1>2. ASSUME NEW gs, NEW kind, NEW tok, Longer(gs, fs, kind, tok), tok.val \in Values,
             IF fs = <<>> THEN kind = "Model" ELSE kind \in ChildKinds(fs[Len(fs)].kind)
      PROVE  Frames(gs) /\ Nested(gs)
  <2> DEFINE n == Len(fs)
  <2>1. /\ IsList(gs) /\ n \in Nat /\ Len(gs) = n + 1 /\ DOMAIN gs = 1..(n + 1)
        /\ DOMAIN fs = 1..n /\ \A i \in 1..n : gs[i] = fs[i]
        /\ gs[n + 1] = Frame(kind, tok)
    BY <1>2 DEF Longer
  <2>2. fs = <<>> <=> n = 0
    BY DEF Frames, IsList
  <2>3. \A i \in 1..n : IsFrame(fs[i])
    BY <2>1 DEF Frames
  <2>4. kind \in Kinds
    <3>1. CASE fs = <<>>
      BY <1>2, <3>1, KindsAre
    <3>2. CASE fs # <<>>
      <4>1. fs[n].kind \in Kinds
        BY <2>1, <2>2, <2>3, <3>2 DEF IsFrame
      <4> QED BY <1>2, <3>2, <4>1, ChildrenArePlaced DEF Placed
    <3> QED BY <3>1, <3>2
  <2>5. IsFrame(gs[n + 1]) /\ gs[n + 1].kind = kind
    BY <1>2, <2>1, <2>4, FrameFields
  <2> HIDE DEF n
  <2>6. Frames(gs)
    BY <2>1, <2>3, <2>5 DEF Frames
  <2>7. gs[1].kind = "Model"
    <3>1. CASE n = 0
      BY <1>2, <2>2, <2>5, <3>1
    <3>2. CASE n # 0
      BY <2>1, <2>2, <3>2 DEF Nested
    <3> QED BY <3>1, <3>2
  <2>8. ASSUME NEW i \in 1..(Len(gs) - 1) PROVE gs[i + 1].kind \in ChildKinds(gs[i].kind)
    <3>1. CASE i = n
      <4>1. gs[i].kind = fs[n].kind /\ gs[i + 1].kind = kind /\ fs # <<>>
        BY <2>1, <2>2, <2>5, <3>1
      <4> QED BY <1>2, <4>1 DEF n
    <3>2. CASE i # n
      <4>1. i \in 1..(Len(fs) - 1) /\ i + 1 \in 1..n /\ i \in 1..n
        <5>1. i \in 1..(n - 1) /\ i + 1 \in 1..n /\ i \in 1..n
          BY <2>1, <3>2
        <5> QED BY <5>1 DEF n
      <4>2. gs[i + 1] = fs[i + 1] /\ gs[i] = fs[i]
        BY <2>1, <4>1
      <4> QED BY <4>1, <4>2, Zenon DEF Nested
    <3> QED BY <3>1, <3>2
  <2> QED BY <2>6, <2>7, <2>8 DEF Nested
<1> QED BY <1>1, <1>2

-----------------------------------------------------------------------------
(* The nodes follow the elements. *)

(***************************************************************************)
(* FollowInv of nodes fs and open elements o.                              *)
(***************************************************************************)
Places(o, j) == {k \in 1..j : o[k].read}
Follow(fs, o) ==
  /\ Len(fs) = Cardinality(Places(o, Len(o)))
  /\ \A j \in Places(o, Len(o)) : fs[Cardinality(Places(o, j))].name = o[j].el[2]
  /\ \A j \in 1..Len(o) :
       Places(o, j) # {} /\ ~o[j].read => fs[Cardinality(Places(o, j))].name # o[j].el[2]

(* PlacesCount: how many of the first elements are read.                   *)
LEMMA PlacesCount ==
  ASSUME NEW o, NEW n \in Nat
  PROVE  /\ IsFiniteSet(Places(o, n)) /\ Cardinality(Places(o, n)) \in Nat
         /\ Places(o, n) = {} <=> Cardinality(Places(o, n)) = 0
         /\ \A j \in 0..n : /\ Places(o, j) \subseteq Places(o, n)
                            /\ Cardinality(Places(o, j)) \in 0..Cardinality(Places(o, n))
                            /\ Places(o, j) = {} <=> Cardinality(Places(o, j)) = 0
<1>1. \A m \in Nat : /\ IsFiniteSet(Places(o, m)) /\ Cardinality(Places(o, m)) \in Nat
                     /\ Places(o, m) = {} <=> Cardinality(Places(o, m)) = 0
  <2> SUFFICES ASSUME NEW m \in Nat
               PROVE  /\ IsFiniteSet(Places(o, m)) /\ Cardinality(Places(o, m)) \in Nat
                      /\ Places(o, m) = {} <=> Cardinality(Places(o, m)) = 0
    OBVIOUS
  <2>1. IsFiniteSet(1..m)
    BY FS_Interval
  <2>2. Places(o, m) \subseteq 1..m
    BY DEF Places
  <2>3. IsFiniteSet(Places(o, m))
    BY <2>1, <2>2, FS_Subset
  <2> QED BY <2>3, FS_CardinalityType, FS_EmptySet
<1>2. ASSUME NEW j \in 0..n
      PROVE  /\ Places(o, j) \subseteq Places(o, n)
             /\ Cardinality(Places(o, j)) \in 0..Cardinality(Places(o, n))
  <2>1. Places(o, j) \subseteq Places(o, n)
    BY DEF Places
  <2>2. Cardinality(Places(o, j)) <= Cardinality(Places(o, n))
    BY <1>1, <2>1, FS_Subset
  <2>3. j \in Nat
    OBVIOUS
  <2> QED BY <1>1, <2>1, <2>2, <2>3
<1>3. \A j \in 0..n : j \in Nat
  OBVIOUS
<1> QED BY <1>1, <1>2, <1>3

(* PlacesNext: one element more.                                           *)
LEMMA PlacesNext ==
  ASSUME NEW o, NEW n \in Nat
  PROVE  /\ o[n + 1].read =>
              /\ Places(o, n + 1) = Places(o, n) \cup {n + 1}
              /\ Cardinality(Places(o, n + 1)) = Cardinality(Places(o, n)) + 1
         /\ ~o[n + 1].read => Places(o, n + 1) = Places(o, n)
<1>1. o[n + 1].read => Places(o, n + 1) = Places(o, n) \cup {n + 1}
  BY DEF Places
<1>2. n + 1 \notin Places(o, n)
  BY DEF Places
<1>3. ~o[n + 1].read => Places(o, n + 1) = Places(o, n)
  BY DEF Places
<1>4. Cardinality(Places(o, n) \cup {n + 1}) = Cardinality(Places(o, n)) + 1
  BY <1>2, PlacesCount, FS_AddElement
<1> QED BY <1>1, <1>3, <1>4

(* PlacesSame: the first elements decide.                                  *)
LEMMA PlacesSame ==
  ASSUME NEW o, NEW o2, NEW n \in Nat, \A k \in 1..n : o2[k] = o[k], NEW j \in 0..n
  PROVE  Places(o2, j) = Places(o, j)
<1>1. \A k \in 1..j : o2[k] = o[k]
  OBVIOUS
<1> QED BY <1>1 DEF Places

(***************************************************************************)
(* The list o2 is o and one element e more.                                *)
(***************************************************************************)
OneMore(o2, o, e) ==
  /\ Len(o) \in Nat /\ Len(o2) = Len(o) + 1
  /\ \A k \in 1..Len(o) : o2[k] = o[k]
  /\ o2[Len(o) + 1] = e

(* FollowsRead: an element gets a node.                                    *)
LEMMA FollowsRead ==
  ASSUME NEW fs, NEW o, NEW gs, NEW o2, NEW e, NEW kind, NEW tok, Follow(fs, o), OneMore(o2, o, e),
         e.read, e.el = tok.el, Longer(gs, fs, kind, tok)
  PROVE  Follow(gs, o2)
<1> DEFINE n == Len(o)
           m == Len(fs)
<1>1. /\ n \in Nat /\ Len(o2) = n + 1 /\ (\A k \in 1..n : o2[k] = o[k]) /\ o2[n + 1] = e
      /\ m \in Nat /\ Len(gs) = m + 1 /\ (\A i \in 1..m : gs[i] = fs[i])
      /\ gs[m + 1].name = tok.el[2]
  BY DEF OneMore, Longer, Frame
<1>2. /\ m = Cardinality(Places(o, n))
      /\ \A j \in Places(o, n) : fs[Cardinality(Places(o, j))].name = o[j].el[2]
      /\ \A j \in 1..n :
           Places(o, j) # {} /\ ~o[j].read => fs[Cardinality(Places(o, j))].name # o[j].el[2]
  BY DEF Follow
<1> HIDE DEF n, m
<1>3. \A j \in 0..n : Places(o2, j) = Places(o, j)
  BY <1>1, PlacesSame, ZenonT(60)
<1>4. n \in 0..n /\ \A j \in 1..n : j \in 0..n
  BY <1>1
<1>5. /\ Places(o2, n + 1) = Places(o, n) \cup {n + 1}
      /\ Cardinality(Places(o2, n + 1)) = m + 1
  BY <1>1, <1>2, <1>3, <1>4, PlacesNext
<1>6. \A j \in 1..n : Places(o, j) # {} => Cardinality(Places(o, j)) \in 1..m
  BY <1>1, <1>2, <1>4, PlacesCount
<1>7. \A j \in Places(o, n) : j \in 1..n /\ j \in Places(o, j)
  BY <1>1 DEF Places
<1>8. ASSUME NEW j \in Places(o2, n + 1)
      PROVE  gs[Cardinality(Places(o2, j))].name = o2[j].el[2]
  <2>1. CASE j = n + 1
    BY <1>1, <1>5, <2>1
  <2>2. CASE j \in Places(o, n)
    <3>1. j \in 1..n /\ Places(o2, j) = Places(o, j) /\ o2[j] = o[j]
      BY <1>1, <1>3, <1>4, <1>7, <2>2
    <3>2. Cardinality(Places(o, j)) \in 1..m
      BY <1>6, <1>7, <2>2
    <3> QED BY <1>1, <1>2, <2>2, <3>1, <3>2
  <2> QED BY <1>5, <2>1, <2>2
<1>9. ASSUME NEW j \in 1..(n + 1), Places(o2, j) # {}, ~o2[j].read
      PROVE  gs[Cardinality(Places(o2, j))].name # o2[j].el[2]
  <2>1. j \in 1..n
    BY <1>1, <1>9
  <2>2. Places(o2, j) = Places(o, j) /\ o2[j] = o[j]
    BY <1>1, <1>3, <1>4, <2>1
  <2>3. Cardinality(Places(o, j)) \in 1..m
    BY <1>6, <1>9, <2>1, <2>2
  <2> QED BY <1>1, <1>2, <1>9, <2>1, <2>2, <2>3
<1> QED BY <1>1, <1>5, <1>8, <1>9 DEF Follow

(* FollowsPassedOver: an element does not get one, and has another name    *)
(* than the innermost node.                                                *)
LEMMA FollowsPassedOver ==
  ASSUME NEW fs, NEW o, NEW o2, NEW e, Follow(fs, o), OneMore(o2, o, e), ~e.read,
         Len(fs) # 0 => e.el[2] # fs[Len(fs)].name
  PROVE  Follow(fs, o2)
<1> DEFINE n == Len(o)
           m == Len(fs)
<1>1. n \in Nat /\ Len(o2) = n + 1 /\ (\A k \in 1..n : o2[k] = o[k]) /\ o2[n + 1] = e
  BY DEF OneMore
<1>2. /\ m = Cardinality(Places(o, n))
      /\ \A j \in Places(o, n) : fs[Cardinality(Places(o, j))].name = o[j].el[2]
      /\ \A j \in 1..n :
           Places(o, j) # {} /\ ~o[j].read => fs[Cardinality(Places(o, j))].name # o[j].el[2]
  BY DEF Follow
<1>3. m # 0 => e.el[2] # fs[m].name
  OBVIOUS
<1> HIDE DEF n, m
<1>4. \A j \in 0..n : Places(o2, j) = Places(o, j)
  BY <1>1, PlacesSame
<1>5. n \in 0..n /\ \A j \in 1..n : j \in 0..n
  BY <1>1
<1>6. Places(o2, n + 1) = Places(o, n)
  BY <1>1, <1>4, <1>5, PlacesNext
<1>7. \A j \in Places(o, n) : j \in 1..n
  BY <1>1 DEF Places
<1>8. ASSUME NEW j \in Places(o2, n + 1)
      PROVE  fs[Cardinality(Places(o2, j))].name = o2[j].el[2]
  BY <1>1, <1>2, <1>4, <1>5, <1>6, <1>7
<1>9. ASSUME NEW j \in 1..(n + 1), Places(o2, j) # {}, ~o2[j].read
      PROVE  fs[Cardinality(Places(o2, j))].name # o2[j].el[2]
  <2>1. CASE j = n + 1
    <3>1. Cardinality(Places(o2, j)) = m /\ Places(o, n) # {}
      BY <1>2, <1>6, <1>9, <2>1
    <3>2. m # 0
      BY <1>1, <1>2, <3>1, PlacesCount
    <3> QED BY <1>1, <1>3, <2>1, <3>1, <3>2
  <2>2. CASE j \in 1..n
    <3>1. Places(o2, j) = Places(o, j) /\ o2[j] = o[j]
      BY <1>1, <1>4, <1>5, <2>2
    <3> QED BY <1>2, <1>9, <2>2, <3>1
  <2> QED BY <1>1, <2>1, <2>2
<1> QED BY <1>1, <1>2, <1>6, <1>8, <1>9 DEF Follow, m, n

(* FollowsEnd: the innermost node takes the end tag of its name, and it is *)
(* that of its element.                                                    *)
LEMMA FollowsEnd ==
  ASSUME NEW fs, NEW o, NEW gs, NEW o2, NEW e, Follow(fs, o), OneMore(o, o2, e),
         Shorter(gs, fs), e.el[2] = fs[Len(fs)].name
  PROVE  Follow(gs, o2)
<1> DEFINE n == Len(o2)
           m == Len(gs)
<1>1. /\ n \in Nat /\ Len(o) = n + 1 /\ (\A k \in 1..n : o[k] = o2[k]) /\ o[n + 1] = e
      /\ m \in Nat /\ Len(fs) = m + 1 /\ (\A i \in 1..m : gs[i].name = fs[i].name)
      /\ e.el[2] = fs[m + 1].name
  BY DEF OneMore, Shorter
<1>2. /\ m + 1 = Cardinality(Places(o, n + 1))
      /\ \A j \in Places(o, n + 1) : fs[Cardinality(Places(o, j))].name = o[j].el[2]
      /\ \A j \in 1..(n + 1) :
           Places(o, j) # {} /\ ~o[j].read => fs[Cardinality(Places(o, j))].name # o[j].el[2]
  BY <1>1 DEF Follow
<1> HIDE DEF n, m
<1>3. o[n + 1].read
  <2>1. n + 1 \in Nat /\ n + 1 \in 1..(n + 1)
    BY <1>1
  <2>2. Places(o, n + 1) # {}
    <3>1. Cardinality(Places(o, n + 1)) # 0
      BY ONLY <1>1, <1>2
    <3>2. Places(o, n + 1) = {} <=> Cardinality(Places(o, n + 1)) = 0
      BY ONLY <2>1, PlacesCount
    <3> QED BY <3>1, <3>2
  <2> QED BY <1>1, <1>2, <2>1, <2>2
<1>4. \A j \in 0..n : Places(o2, j) = Places(o, j)
  BY <1>1, PlacesSame
<1>5. n \in 0..n /\ \A j \in 1..n : j \in 0..n
  BY <1>1
<1>6. /\ Places(o, n + 1) = Places(o2, n) \cup {n + 1}
      /\ Cardinality(Places(o2, n)) = m
  <2>1. /\ Places(o, n + 1) = Places(o, n) \cup {n + 1}
        /\ Cardinality(Places(o, n + 1)) = Cardinality(Places(o, n)) + 1
    BY <1>1, <1>3, PlacesNext
  <2>2. Cardinality(Places(o, n)) \in Nat
    BY <1>1, PlacesCount
  <2> QED BY <1>1, <1>2, <1>4, <1>5, <2>1, <2>2
<1>7. \A j \in 1..n : Places(o2, j) # {} => Cardinality(Places(o2, j)) \in 1..m
  BY <1>1, <1>5, <1>6, PlacesCount
<1>8. \A j \in Places(o2, n) : j \in 1..n /\ j \in Places(o2, j)
  BY <1>1 DEF Places
<1>9. ASSUME NEW j \in Places(o2, n)
      PROVE  gs[Cardinality(Places(o2, j))].name = o2[j].el[2]
  <2>1. j \in 1..n /\ Places(o2, j) = Places(o, j) /\ o2[j] = o[j] /\ j \in Places(o, n + 1)
    BY <1>1, <1>4, <1>5, <1>6, <1>8
  <2>2. Cardinality(Places(o2, j)) \in 1..m
    BY <1>7, <1>8
  <2> QED BY <1>1, <1>2, <2>1, <2>2
<1>10. ASSUME NEW j \in 1..n, Places(o2, j) # {}, ~o2[j].read
       PROVE  gs[Cardinality(Places(o2, j))].name # o2[j].el[2]
  <2>1. Places(o2, j) = Places(o, j) /\ o2[j] = o[j] /\ j \in 1..(n + 1)
    BY <1>1, <1>4, <1>5
  <2>2. Cardinality(Places(o2, j)) \in 1..m
    BY <1>7, <1>10
  <2> QED BY <1>1, <1>2, <1>10, <2>1, <2>2
<1> QED BY <1>1, <1>6, <1>9, <1>10 DEF Follow, m, n

(* FollowsPassedOverEnd: an end tag of another name is that of an element  *)
(* without a node.                                                         *)
LEMMA FollowsPassedOverEnd ==
  ASSUME NEW fs, NEW o, NEW o2, NEW e, Follow(fs, o), OneMore(o, o2, e),
         Len(fs) # 0 => e.el[2] # fs[Len(fs)].name
  PROVE  Follow(fs, o2)
<1> DEFINE n == Len(o2)
           m == Len(fs)
<1>1. n \in Nat /\ Len(o) = n + 1 /\ (\A k \in 1..n : o[k] = o2[k]) /\ o[n + 1] = e
  BY DEF OneMore
<1>2. /\ m = Cardinality(Places(o, n + 1))
      /\ \A j \in Places(o, n + 1) : fs[Cardinality(Places(o, j))].name = o[j].el[2]
      /\ \A j \in 1..(n + 1) :
           Places(o, j) # {} /\ ~o[j].read => fs[Cardinality(Places(o, j))].name # o[j].el[2]
  BY <1>1 DEF Follow
<1>3. m # 0 => e.el[2] # fs[m].name
  OBVIOUS
<1> HIDE DEF n, m
<1>4. ~o[n + 1].read
  <2> SUFFICES ASSUME o[n + 1].read PROVE FALSE
    OBVIOUS
  <2>1. n + 1 \in Places(o, n + 1) /\ n + 1 \in Nat
    BY <1>1 DEF Places
  <2>2. m # 0
    BY <1>2, <2>1, PlacesCount
  <2> QED BY <1>1, <1>2, <1>3, <2>1, <2>2
<1>5. \A j \in 0..n : Places(o2, j) = Places(o, j)
  BY <1>1, PlacesSame
<1>6. n \in 0..n /\ \A j \in 1..n : j \in 0..n /\ j \in 1..(n + 1)
  BY <1>1
<1>7. Places(o, n + 1) = Places(o2, n)
  BY <1>1, <1>4, <1>5, <1>6, PlacesNext
<1>8. \A j \in Places(o2, n) : j \in 1..n
  BY <1>1 DEF Places
<1>9. ASSUME NEW j \in Places(o2, n)
      PROVE  fs[Cardinality(Places(o2, j))].name = o2[j].el[2]
  BY <1>1, <1>2, <1>5, <1>6, <1>7, <1>8
<1>10. ASSUME NEW j \in 1..n, Places(o2, j) # {}, ~o2[j].read
       PROVE  fs[Cardinality(Places(o2, j))].name # o2[j].el[2]
  BY <1>1, <1>2, <1>5, <1>6, <1>10
<1> QED BY <1>2, <1>7, <1>9, <1>10 DEF Follow, m, n

-----------------------------------------------------------------------------
(* The handlers, as far as the nodes and open elements are concerned. *)

(***************************************************************************)
(* What Handle leaves: an exception, or the state the handler computes.    *)
(***************************************************************************)
Fails == status' = "failed" /\ frames' = frames /\ cur' = cur /\ model' = model
Does(costs, fs, c, m) ==
  "throw" \notin costs /\ status' = status /\ frames' = fs /\ cur' = c /\ model' = m

(* HandleFacts: a handler that does not throw has paid no "throw".         *)
LEMMA HandleFacts ==
  \A costs, fs, fl, c, m : Handle(costs, fs, fl, c, m) => Fails \/ Does(costs, fs, c, m)
BY DEF Handle, Throws, Fails, Does

(* PaidCosts: which conditions hold when no "throw" is paid.               *)
LEMMA PaidCosts ==
  ASSUME NEW A, NEW ok, "throw" \notin A \cup Cost(ok, "throw")
  PROVE  "throw" \notin A /\ ok
BY Zenon DEF Cost

(* NamedChild: where an element has a class, there is a node around it.    *)
LEMMA NamedChild ==
  ASSUME NEW tok, Child(tok) \in Kinds
  PROVE  frames # <<>> /\ Child(tok) = ChildNode(Top.kind, tok.el) /\ Child(tok) # ""
<1>1. "" \notin Kinds
  BY KindsAre, Zenon
<1>2. frames # <<>>
  BY <1>1, Zenon DEF Child
<1> QED BY <1>1, <1>2, Zenon DEF Child

(* OpenedKinds: the classes the handlers of start elements name.           *)
LEMMA OpenedKinds ==
  /\ Sections \subseteq Kinds /\ Resources1 \subseteq Kinds /\ Geometries \subseteq Kinds
  /\ Groups \subseteq Kinds /\ Objects \subseteq Kinds
  /\ {"Model", "Object", "Object093", "SliceStack", "Slice", "SliceRef", "Polygon", "Segment",
      "Texture2D"} \subseteq Kinds
BY KindsAre DEF Sections, Resources1, Geometries, Groups, Objects

(***************************************************************************)
(* A start element is passed over, or it gets a node.                      *)
(***************************************************************************)
PassesOver(tok) == status' = status /\ Starts(tok, FALSE) /\ frames' = frames
Opens(tok, kind) ==
  /\ status' = status /\ Starts(tok, TRUE) /\ frames' = Pushed(kind, tok)
  /\ IF frames = <<>> THEN kind = "Model"
     ELSE kind = ChildNode(Top.kind, tok.el) /\ kind # ""

(* OpensChild: a node of the class the grammar names.                      *)
LEMMA OpensChild ==
  ASSUME NEW tok, Child(tok) \in Kinds, status' = status, Starts(tok, TRUE),
         frames' = Pushed(Child(tok), tok)
  PROVE  Opens(tok, Child(tok))
BY NamedChild, Zenon DEF Opens

(* StartElementIs: what any start element does to the nodes.               *)
LEMMA StartElementIs ==
  ASSUME NEW tok, StartElement(tok)
  PROVE  \/ Fails /\ (Starts(tok, TRUE) \/ Starts(tok, FALSE))
         \/ PassesOver(tok)
         \/ \E kind : Opens(tok, kind)
<1>1. CASE OpenModel(tok)
  BY <1>1, Zenon DEF OpenModel, Handle, Opens, Fails
<1>2. CASE PassOver(tok)
  BY <1>2, Zenon DEF PassOver, Handle, PassesOver, Fails
<1> DEFINE Pushes == status' = status /\ frames' = Pushed(Child(tok), tok)
<1>3. ASSUME Starts(tok, TRUE), Child(tok) \in Kinds, Fails \/ Pushes
      PROVE  \/ Fails /\ (Starts(tok, TRUE) \/ Starts(tok, FALSE))
             \/ \E kind : Opens(tok, kind)
  BY <1>3, OpensChild, Zenon
<1>4. CASE OpenSection(tok)
  <2>1. Starts(tok, TRUE) /\ Child(tok) \in Kinds /\ (Fails \/ Pushes)
    <3>1. Starts(tok, TRUE) /\ Child(tok) \in Sections /\ (Fails \/ Pushes)
      BY <1>4, Zenon DEF OpenSection, Handle, Fails
    <3> QED BY <3>1, OpenedKinds
  <2> QED BY <1>3, <2>1, Zenon
<1>5. CASE OpenResource(tok)
  <2>1. Starts(tok, TRUE) /\ Child(tok) \in Kinds /\ (Fails \/ Pushes)
    BY <1>5, HandleFacts, OpenedKinds DEF OpenResource, Does
  <2> QED BY <1>3, <2>1, Zenon
<1>6. CASE OpenObject(tok)
  <2>1. Starts(tok, TRUE) /\ Child(tok) \in Kinds /\ (Fails \/ Pushes)
    BY <1>6, HandleFacts, OpenedKinds DEF OpenObject, Does
  <2> QED BY <1>3, <2>1, Zenon
<1>7. CASE OpenGeometry(tok)
  <2>1. Starts(tok, TRUE) /\ Child(tok) \in Kinds /\ (Fails \/ Pushes)
    BY <1>7, HandleFacts, OpenedKinds DEF OpenGeometry, Does
  <2> QED BY <1>3, <2>1, Zenon
<1>8. CASE OpenSliceStack(tok)
  <2>1. Starts(tok, TRUE) /\ Child(tok) \in Kinds /\ (Fails \/ Pushes)
    BY <1>8, HandleFacts, OpenedKinds DEF OpenSliceStack, Does
  <2> QED BY <1>3, <2>1, Zenon
<1>9. CASE OpenSlice(tok)
  <2>1. Starts(tok, TRUE) /\ Child(tok) \in Kinds /\ (Fails \/ Pushes)
    BY <1>9, HandleFacts, OpenedKinds DEF OpenSlice, Does
  <2> QED BY <1>3, <2>1, Zenon
<1>10. CASE OpenPolygon(tok)
  <2>1. Starts(tok, TRUE) /\ Child(tok) \in Kinds /\ (Fails \/ Pushes)
    BY <1>10, HandleFacts, OpenedKinds DEF OpenPolygon, Does
  <2> QED BY <1>3, <2>1, Zenon
<1>11. CASE OpenPlain(tok)
  <2>1. Starts(tok, TRUE) /\ (Fails \/ Pushes)
    BY <1>11, HandleFacts DEF OpenPlain, Does
  <2>2. Child(tok) # ""
    BY <1>11, Zenon DEF OpenPlain
  <2>3. frames # <<>> /\ Child(tok) = ChildNode(Top.kind, tok.el)
    BY <2>2, Zenon DEF Child
  <2> QED BY <2>1, <2>2, <2>3, Zenon DEF Opens
<1> QED
  BY <1>1, <1>2, <1>4, <1>5, <1>6, <1>7, <1>8, <1>9, <1>10, <1>11, Zenon DEF StartElement

(***************************************************************************)
(* An end tag or the end of the text closes a node, or an end tag is       *)
(* passed over.                                                            *)
(***************************************************************************)
Returns ==
  status' = status /\ Closes /\ (frames' = Popped \/ \E x : frames' = PoppedSeeing(x))
PassesOverEnd == status' = status /\ PassOverEnd /\ frames' = frames

(* EndElementIs: what any end element does to the nodes.                   *)
LEMMA EndElementIs ==
  ASSUME EndElement
  PROVE  \/ Fails /\ (Closes \/ PassOverEnd)
         \/ Returns
         \/ PassesOverEnd
<1>1. CASE CloseModel
  BY <1>1, HandleFacts DEF CloseModel, Does, Returns
<1>2. CASE CloseVertex
  BY <1>2, HandleFacts DEF CloseVertex, Does, Returns
<1>3. CASE CloseTriangle
  BY <1>3, HandleFacts DEF CloseTriangle, Does, Returns
<1>4. CASE CloseTriangle093
  BY <1>4, HandleFacts DEF CloseTriangle093, Does, Returns
<1>5. CASE CloseTriangles
  BY <1>5, HandleFacts DEF CloseTriangles, Does, Returns
<1>6. CASE CloseBeam
  BY <1>6, HandleFacts DEF CloseBeam, Does, Returns
<1>7. CASE CloseBeamLattice
  BY <1>7, HandleFacts DEF CloseBeamLattice, Does, Returns
<1>8. CASE CloseComponent
  BY <1>8, HandleFacts DEF CloseComponent, Does, Returns
<1>9. CASE CloseBuildItem
  BY <1>9, HandleFacts DEF CloseBuildItem, Does, Returns
<1>10. CASE CloseGeometry
  BY <1>10, HandleFacts DEF CloseGeometry, Does, Returns
<1>11. CASE CloseObject
  BY <1>11, HandleFacts DEF CloseObject, Does, Returns
<1>12. CASE CloseProperty
  BY <1>12, HandleFacts DEF CloseProperty, Does, Returns
<1>13. CASE CloseMaterial093
  BY <1>13, HandleFacts DEF CloseMaterial093, Does, Returns
<1>14. CASE CloseSliceRef
  BY <1>14, HandleFacts DEF CloseSliceRef, Does, Returns
<1>15. CASE CloseSliceStack
  BY <1>15, HandleFacts DEF CloseSliceStack, Does, Returns
<1>16. CASE CloseMetaData
  BY <1>16, HandleFacts DEF CloseMetaData, Does, Returns
<1>17. CASE CloseMetaDataGroup
  BY <1>17, HandleFacts DEF CloseMetaDataGroup, Does, Returns
<1>18. CASE ClosePlain
  BY <1>18, HandleFacts DEF ClosePlain, Does, Returns
<1>19. CASE PassOverEnd
  BY <1>19, HandleFacts DEF PassOverEnd, Does, PassesOverEnd
<1> QED
  BY <1>1, <1>2, <1>3, <1>4, <1>5, <1>6, <1>7, <1>8, <1>9, <1>10, <1>11, <1>12, <1>13, <1>14,
     <1>15, <1>16, <1>17, <1>18, <1>19, Zenon DEF EndElement

(* FollowIs, FollowNext: FollowInv of the state before and after a step.   *)
LEMMA FollowIs ==
  ASSUME FollowInv, status = "reading", ~eof, ~shadowed
  PROVE  Follow(frames, open)
BY DEF FollowInv, FramesFollowElements, NotMistaken, ReadPlaces, Follow, Places

LEMMA FollowNext ==
  ASSUME IsList(open'), status' = "reading" /\ ~eof' /\ ~shadowed' => Follow(frames', open')
  PROVE  FollowInv'
BY DEF FollowInv, FramesFollowElements, NotMistaken, ReadPlaces, Follow, Places

(* OpenedIs, ClosedIs: what Starts and the end of an element do to the     *)
(* open elements.                                                          *)
LEMMA OpenedIs ==
  ASSUME IsList(open), NEW tok, NEW read \in BOOLEAN, Starts(tok, read)
  PROVE  /\ IsList(open') /\ OneMore(open', open, [el |-> tok.el, read |-> read])
         /\ status = "reading" /\ ~eof /\ eof' = eof
         /\ shadowed' = (shadowed \/ (~read /\ frames # <<>> /\ tok.el[2] = Top.name))
<1> DEFINE e == [el |-> tok.el, read |-> read]
<1>1. open' = Append(open, e)
  BY DEF Starts
<1>2. /\ IsList(Append(open, e)) /\ Len(open) \in Nat /\ Len(Append(open, e)) = Len(open) + 1
      /\ DOMAIN open = 1..Len(open) /\ DOMAIN Append(open, e) = 1..(Len(open) + 1)
      /\ \A i \in 1..Len(open) : Append(open, e)[i] = open[i]
      /\ Append(open, e)[Len(open) + 1] = e
  <2> HIDE DEF e
  <2> QED BY ListAppend
<1>3. /\ status = "reading" /\ ~eof /\ eof' = eof
      /\ shadowed' = (shadowed \/ (~read /\ frames # <<>> /\ tok.el[2] = Top.name))
  BY Zenon DEF Starts
<1> HIDE DEF e
<1>4. IsList(open') /\ OneMore(open', open, e)
  BY <1>1, <1>2 DEF OneMore
<1> QED BY <1>3, <1>4, Zenon DEF e

LEMMA ClosedIs ==
  ASSUME IsList(open), open # <<>>, open' = SubSeq(open, 1, Len(open) - 1)
  PROVE  IsList(open') /\ OneMore(open, open', open[Len(open)])
<1>1. /\ IsList(open') /\ Len(open) \in Nat \ {0} /\ Len(open') = Len(open) - 1
      /\ \A i \in 1..(Len(open) - 1) : open'[i] = open[i]
  BY ShortList
<1> QED BY <1>1 DEF OneMore

(* StartKeeps: a start element keeps the nodes nested and, unless it is    *)
(* shadowed, after the elements.                                           *)
LEMMA StartKeeps ==
  ASSUME TextInv, FollowInv, NEW tok, tok.val \in Values, status = "reading", StartElement(tok)
  PROVE  /\ FollowInv' /\ eof' = eof /\ (status' = "failed" \/ status' = status)
         /\ status' = "reading" => Frames(frames') /\ Nested(frames')
<1>1. IsList(open) /\ Frames(frames) /\ Nested(frames)
  BY DEF TextInv, FollowInv
<1>2. CASE Fails /\ (Starts(tok, TRUE) \/ Starts(tok, FALSE))
  <2>1. IsList(open') /\ eof' = eof
    BY <1>1, <1>2, OpenedIs
  <2> QED BY <1>2, <2>1, FollowNext DEF Fails
<1>3. CASE PassesOver(tok)
  <2> DEFINE e == [el |-> tok.el, read |-> FALSE]
  <2>1. /\ IsList(open') /\ OneMore(open', open, e) /\ ~eof /\ eof' = eof
        /\ shadowed' = (shadowed \/ (frames # <<>> /\ tok.el[2] = Top.name))
    BY <1>1, <1>3, OpenedIs DEF PassesOver
  <2>2. frames' = frames /\ status' = status
    BY <1>3 DEF PassesOver
  <2>3. e.el = tok.el /\ ~e.read
    OBVIOUS
  <2> HIDE DEF e
  <2>4. ASSUME ~shadowed' PROVE Follow(frames', open')
    <3>1. Follow(frames, open)
      BY <2>1, <2>4, FollowIs
    <3>2. Len(frames) # 0 => e.el[2] # frames[Len(frames)].name
      <4>1. Len(frames) # 0 => frames # <<>>
        OBVIOUS
      <4> QED BY <2>1, <2>3, <2>4, <4>1, Zenon DEF Top
    <3> QED BY <2>1, <2>2, <2>3, <3>1, <3>2, FollowsPassedOver
  <2> QED BY <1>1, <2>1, <2>2, <2>4, FollowNext
<1>4. ASSUME NEW kind, Opens(tok, kind)
      PROVE  /\ FollowInv' /\ eof' = eof /\ status' = status
             /\ Frames(frames') /\ Nested(frames')
  <2> DEFINE e == [el |-> tok.el, read |-> TRUE]
  <2>1. /\ IsList(open') /\ OneMore(open', open, e) /\ ~eof /\ eof' = eof
        /\ ~shadowed' => ~shadowed
    <3>1. Starts(tok, TRUE)
      BY <1>4, Zenon DEF Opens
    <3>2. /\ IsList(open') /\ OneMore(open', open, e) /\ status = "reading" /\ ~eof /\ eof' = eof
          /\ shadowed' = (shadowed \/ (~TRUE /\ frames # <<>> /\ tok.el[2] = Top.name))
      BY <1>1, <3>1, OpenedIs
    <3> QED BY <3>2, Zenon
  <2>2. Longer(frames', frames, kind, tok) /\ status' = status
    BY <1>1, <1>4, LongerFrames DEF Opens, Pushed
  <2>3. e.el = tok.el /\ e.read
    OBVIOUS
  <2> HIDE DEF e
  <2>4. ASSUME ~shadowed' PROVE Follow(frames', open')
    <3>1. Follow(frames, open)
      BY <2>1, <2>4, FollowIs
    <3> QED BY <2>1, <2>2, <2>3, <3>1, FollowsRead
  <2>5. FollowInv'
    BY <2>1, <2>4, FollowNext
  <2>6. IF frames = <<>> THEN kind = "Model" ELSE kind \in ChildKinds(frames[Len(frames)].kind)
    <3>1. CASE frames = <<>>
      BY <1>4, <3>1 DEF Opens
    <3>2. CASE frames # <<>>
      <4>1. kind = ChildNode(Top.kind, tok.el) /\ kind # ""
        BY <1>4, <3>2, Zenon DEF Opens
      <4>2. Top.kind \in Kinds
        <5>1. Len(frames) \in DOMAIN frames
          BY <1>1, <3>2 DEF Frames, IsList
        <5> QED BY <1>1, <5>1 DEF Frames, IsFrame, Top
      <4>3. kind \in ChildKinds(Top.kind)
        BY <4>1, <4>2, ChildIsPlaced, Zenon
      <4> QED BY <3>2, <4>3 DEF Top
    <3> QED BY <3>1, <3>2
  <2>7. Frames(frames') /\ Nested(frames')
    BY <1>1, <2>2, <2>6, FramesNest, Zenon
  <2> QED BY <2>1, <2>2, <2>5, <2>7
<1>5. CASE \E kind : Opens(tok, kind)
  BY <1>4, <1>5
<1> QED BY <1>2, <1>3, <1>5, StartElementIs

(* EndKeeps: so does an end element.                                       *)
LEMMA EndKeeps ==
  ASSUME TextInv, FollowInv, status = "reading", EndElement
  PROVE  /\ FollowInv' /\ eof' = eof /\ (status' = "failed" \/ status' = status)
         /\ status' = "reading" => Frames(frames') /\ Nested(frames')
<1>1. IsList(open) /\ Frames(frames) /\ Nested(frames)
  BY DEF TextInv, FollowInv
<1>2. ASSUME Closes
      PROVE  /\ IsList(open') /\ eof' = eof /\ shadowed' = shadowed /\ frames # <<>>
             /\ ~eof => OneMore(open, open', open[Len(open)]) /\ open[Len(open)].el[2] = Top.name
  <2>1. /\ eof' = eof /\ shadowed' = shadowed /\ frames # <<>>
        /\ ~eof => open # <<>> /\ open[Len(open)].el[2] = Top.name
                   /\ open' = SubSeq(open, 1, Len(open) - 1)
        /\ eof => open' = open
    BY <1>2, Zenon DEF Closes
  <2> QED BY <1>1, <2>1, ClosedIs, Zenon
<1>3. ASSUME PassOverEnd
      PROVE  /\ IsList(open') /\ eof' = eof /\ shadowed' = shadowed
             /\ OneMore(open, open', open[Len(open)])
             /\ frames # <<>> => open[Len(open)].el[2] # Top.name
  <2>1. /\ eof' = eof /\ shadowed' = shadowed /\ open # <<>>
        /\ open' = SubSeq(open, 1, Len(open) - 1)
        /\ frames # <<>> => open[Len(open)].el[2] # Top.name
    BY <1>3, Zenon DEF PassOverEnd
  <2> QED BY <1>1, <2>1, ClosedIs, Zenon
<1>4. CASE Fails /\ (Closes \/ PassOverEnd)
  BY <1>2, <1>3, <1>4, FollowNext DEF Fails
<1>5. CASE Returns
  <2>1. /\ IsList(open') /\ eof' = eof /\ shadowed' = shadowed /\ frames # <<>> /\ status' = status
        /\ ~eof => OneMore(open, open', open[Len(open)]) /\ open[Len(open)].el[2] = Top.name
    BY <1>2, <1>5 DEF Returns
  <2>2. Shorter(frames', frames)
    BY <1>1, <1>5, <2>1, ShorterFrames, SeeingFrames, Zenon DEF Returns, Popped, PoppedSeeing
  <2>3. ASSUME ~eof', ~shadowed' PROVE Follow(frames', open')
    <3>1. Follow(frames, open)
      BY <2>1, <2>3, FollowIs
    <3> QED BY <2>1, <2>2, <2>3, <3>1, FollowsEnd DEF Top
  <2>4. FollowInv'
    BY <2>1, <2>3, FollowNext
  <2> QED BY <1>1, <2>1, <2>2, <2>4, FramesNest
<1>6. CASE PassesOverEnd
  <2>1. /\ IsList(open') /\ eof' = eof /\ shadowed' = shadowed
        /\ OneMore(open, open', open[Len(open)])
        /\ frames # <<>> => open[Len(open)].el[2] # Top.name
        /\ frames' = frames /\ status' = status
    BY <1>3, <1>6 DEF PassesOverEnd
  <2>2. ASSUME ~eof', ~shadowed' PROVE Follow(frames', open')
    <3>1. Follow(frames, open)
      BY <2>1, <2>2, FollowIs
    <3>2. Len(frames) # 0 => frames # <<>>
      OBVIOUS
    <3> QED BY <2>1, <3>1, <3>2, FollowsPassedOverEnd DEF Top
  <2> QED BY <1>1, <2>1, <2>2, FollowNext
<1> QED BY <1>4, <1>5, <1>6, EndElementIs

(* EndElementReads: nodes return only while the reader reads.              *)
LEMMA EndElementReads ==
  ASSUME EndElement
  PROVE  status = "reading"
<1>1. Closes => status = "reading"
  BY DEF Closes
<1>2. PassOverEnd => status = "reading"
  BY DEF PassOverEnd
<1> QED BY <1>1, <1>2, EndElementIs DEF Returns, PassesOverEnd

-----------------------------------------------------------------------------
(* The steps of the reader and its document. *)

Items == [depth : Nat, tok : Tokens]
IsToken(tok) == tok.val \in Values /\ tok.el = <<tok.el[1], tok.el[2]>>
SamePart == todo' \in Seq(PartTexts) /\ todo' # <<>> /\ Part' = Part

(* PartKept: the current part stays the same when an element is taken out  *)
(* of it.                                                                  *)
LEMMA PartKept ==
  ASSUME todo \in Seq(PartTexts), todo # <<>>
  PROVE  /\ Text \in Seq(Items)
         /\ \A text \in Seq(Items) : TextLeft(text) => SamePart
         /\ UNCHANGED todo => SamePart
<1>1. /\ Len(todo) \in Nat \ {0} /\ 1 \in DOMAIN todo /\ Head(todo) = todo[1]
      /\ todo[1] \in PartTexts
  OBVIOUS
<1>2. Text \in Seq(Items)
  BY <1>1 DEF Text, PartTexts, Items
<1>3. ASSUME NEW text \in Seq(Items), TextLeft(text) PROVE SamePart
  <2> DEFINE p == [todo[1] EXCEPT !.text = text]
  <2>1. p \in PartTexts /\ p.path = todo[1].path
    BY <1>1 DEF PartTexts, Items
  <2>2. todo' = [todo EXCEPT ![1] = p]
    BY <1>3 DEF TextLeft
  <2> HIDE DEF p
  <2>3. todo' \in Seq(PartTexts) /\ todo' # <<>> /\ todo'[1] = p
    BY <1>1, <2>1, <2>2
  <2>4. Head(todo') = todo'[1]
    BY <2>3
  <2> QED BY <1>1, <2>1, <2>3, <2>4 DEF SamePart, Part
<1>4. UNCHANGED todo => SamePart
  BY DEF SamePart, Part
<1> QED BY <1>2, <1>3, <1>4

(* DueToken: the next element of the text.                                 *)
LEMMA DueToken ==
  ASSUME todo \in Seq(PartTexts), todo # <<>>, Due
  PROVE  /\ Token1 \in Tokens /\ IsToken(Token1) /\ Tail(Text) \in Seq(Items)
         /\ Len(Text) \in Nat
<1>1. Text \in Seq(Items) /\ Text # <<>>
  BY PartKept DEF Due
<1>2. Head(Text) \in Items /\ Tail(Text) \in Seq(Items)
  BY <1>1
<1>3. Token1 \in Tokens
  BY <1>2 DEF Token1, Items
<1> QED BY <1>1, <1>2, <1>3 DEF Tokens, IsToken

(***************************************************************************)
(* What the reader may do while the document goes on.                      *)
(***************************************************************************)
ReaderStep ==
  \/ \E tok : IsToken(tok) /\ StartElement(tok)
  \/ EndElement
  \/ EndOfText
  \/ UNCHANGED <<readerVars, open>>

(* MistakenToken: an element with a mistake is an element still.           *)
LEMMA MistakenToken ==
  ASSUME Token1 \in Tokens
  PROVE  /\ \A x : /\ IsToken([Token1 EXCEPT !.early = x])
                   /\ IsToken([Token1 EXCEPT !.late = x])
         /\ \A val \in Values : IsToken([Token1 EXCEPT !.val = val])
         /\ \A i \in IDs \cup {0} : /\ [Token1.val EXCEPT !.id = i] \in Values
                                    /\ [Token1.val EXCEPT !.ref = i] \in Values
                                    /\ [Token1.val EXCEPT !.ref2 = i] \in Values
         /\ \A p \in {"", Other} : [Token1.val EXCEPT !.path = p] \in Values
         /\ \A i \in 0..2 : [Token1.val EXCEPT !.index = i] \in Values
         /\ \A ns, name : IsToken(Token(<<ns, name>>, "ok", "ok", NoVal))
<1>1. Token1.val \in Values /\ Token1.el = <<Token1.el[1], Token1.el[2]>>
  BY DEF Tokens
<1>2. \A x : /\ IsToken([Token1 EXCEPT !.early = x])
             /\ IsToken([Token1 EXCEPT !.late = x])
  BY <1>1 DEF IsToken, Tokens
<1>3. \A val \in Values : IsToken([Token1 EXCEPT !.val = val])
  BY <1>1 DEF IsToken, Tokens
<1>4. \A i \in IDs \cup {0} : i \in Int
  BY IDsAssumption
<1>5. \A i \in IDs \cup {0} : /\ [Token1.val EXCEPT !.id = i] \in Values
                              /\ [Token1.val EXCEPT !.ref = i] \in Values
                              /\ [Token1.val EXCEPT !.ref2 = i] \in Values
  BY <1>1, <1>4 DEF Values
<1>6. \A p \in {"", Other} : [Token1.val EXCEPT !.path = p] \in Values
  BY <1>1 DEF Values
<1>7. \A i \in 0..2 : [Token1.val EXCEPT !.index = i] \in Values
  <2>1. \A i \in 0..2 : i \in Nat
    OBVIOUS
  <2>2. \A i \in Nat : [Token1.val EXCEPT !.index = i] \in Values
    BY <1>1 DEF Values
  <2> QED BY <2>1, <2>2, Zenon
<1>8. \A ns, name : IsToken(Token(<<ns, name>>, "ok", "ok", NoVal))
  <2>1. NoVal \in Values
    <3> DEFINE e == ""
    <3>1. NoVal = [id |-> 0, ref |-> 0, ref2 |-> 0, path |-> e, index |-> 0]
      BY Zenon DEF NoVal
    <3>2. Values = [id : Int, ref : Int, ref2 : Int, path : {e, Root, Other}, index : Nat]
      BY Zenon DEF Values
    <3> HIDE DEF e
    <3> QED BY <3>1, <3>2
  <2> QED BY <2>1 DEF IsToken, Token
<1> QED BY <1>2, <1>3, <1>5, <1>6, <1>7, <1>8

(* ReadsIs: a step is one of the reader in the part, or goes on to the     *)
(* next part.                                                              *)
LEMMA ReadsIs ==
  ASSUME TextInv, Reads
  PROVE  status = "reading" /\ (NextPart \/ (SamePart /\ ReaderStep))
<1>1. todo \in Seq(PartTexts) /\ (status = "reading" => todo # <<>>)
  BY DEF TextInv
<1>2. CASE Element
  <2>1. status = "reading" /\ Due /\ StartElement(Token1) /\ TextLeft(Tail(Text))
    BY <1>2 DEF Element, UnlessEnd
  <2> QED BY <1>1, <2>1, PartKept, DueToken DEF ReaderStep
<1>3. CASE EndTag
  BY <1>1, <1>3, PartKept DEF EndTag, ReaderStep
<1>4. CASE EndOfPart
  <2>1. EndElement /\ UNCHANGED todo
    BY <1>4 DEF EndOfPart
  <2>2. status = "reading"
    BY <2>1, EndElementReads
  <2> QED BY <1>1, <2>1, <2>2, PartKept DEF ReaderStep
<1>5. CASE EndText
  BY <1>1, <1>5, PartKept DEF EndText, ReaderStep
<1>6. CASE BadAttribute
  <2>1. status = "reading" /\ Due /\ TextLeft(Tail(Text))
    BY <1>6 DEF BadAttribute, UnlessEnd
  <2>2. SamePart /\ Token1 \in Tokens
    BY <1>1, <2>1, PartKept, DueToken
  <2>3. \E x : StartElement([Token1 EXCEPT !.early = x]) \/ StartElement([Token1 EXCEPT !.late = x])
    BY <1>6, Zenon DEF BadAttribute
  <2> QED BY <2>1, <2>2, <2>3, MistakenToken, Zenon DEF ReaderStep
<1>7. CASE OtherValue
  <2>1. status = "reading" /\ Due /\ TextLeft(Tail(Text))
    BY <1>7 DEF OtherValue, UnlessEnd
  <2>2. SamePart /\ Token1 \in Tokens
    BY <1>1, <2>1, PartKept, DueToken
  <2>3. \E val \in Values : StartElement([Token1 EXCEPT !.val = val])
    <3> DEFINE V == {[Token1.val EXCEPT !.id = i] : i \in IDs} \cup
                    {[Token1.val EXCEPT !.ref = i] : i \in IDs \cup {0}} \cup
                    {[Token1.val EXCEPT !.ref2 = i] : i \in IDs \cup {0}} \cup
                    {[Token1.val EXCEPT !.path = p] : p \in {"", Other}} \cup
                    {[Token1.val EXCEPT !.index = i] : i \in 0..2}
    <3>1. \A val \in V : val \in Values
      BY ONLY <2>2, MistakenToken
    <3>2. \E val \in V : StartElement([Token1 EXCEPT !.val = val])
      BY <1>7, Zenon DEF OtherValue
    <3> QED BY <3>1, <3>2, Zenon
  <2> QED BY <2>1, <2>2, <2>3, MistakenToken, Zenon DEF ReaderStep
<1>8. CASE MissingElement
  <2>1. status = "reading" /\ Due /\ UNCHANGED <<readerVars, open>>
    BY <1>8 DEF MissingElement, UnlessEnd
  <2>2. \E text \in Seq(Items) : TextLeft(text)
    <3> DEFINE d == Head(Text).depth
               after == {i \in 2..Len(Text) : Text[i].depth <= d}
               first == CHOOSE i \in after : \A k \in after : i <= k
               text == IF after = {} THEN <<>> ELSE SubSeq(Text, first, Len(Text))
    <3>1. TextLeft(text)
      BY <1>8 DEF MissingElement
    <3>2. Text \in Seq(Items) /\ Len(Text) \in Nat
      BY <1>1, <2>1, PartKept, DueToken
    <3>3. after # {} => first \in after
      <4> HIDE DEF d
      <4>1. after \subseteq Nat
        BY <3>2
      <4>2. after # {} => \E i \in after : \A k \in after : i <= k
        BY <4>1, NatMin
      <4> HIDE DEF after
      <4> QED BY <4>2
    <3> HIDE DEF first
    <3>4. after # {} => first \in 2..Len(Text)
      BY <3>3
    <3> HIDE DEF after
    <3>5. text \in Seq(Items)
      BY <3>2, <3>4
    <3> QED BY <3>1, <3>5
  <2> QED BY <1>1, <2>1, <2>2, PartKept DEF ReaderStep
<1>9. CASE RepeatedElement
  <2>1. status = "reading" /\ Due /\ StartElement(Token1) /\ UNCHANGED todo
    BY <1>9 DEF RepeatedElement, UnlessEnd
  <2> QED BY <1>1, <2>1, PartKept, DueToken DEF ReaderStep
<1>10. CASE UnknownElement
  <2>1. status = "reading" /\ Due /\ (TextLeft(Tail(Text)) \/ UNCHANGED todo)
    BY <1>10 DEF UnknownElement, UnlessEnd
  <2>2. SamePart /\ Token1 \in Tokens
    BY <1>1, <2>1, PartKept, DueToken
  <2>3. \E ns, name : StartElement(Token(<<ns, name>>, "ok", "ok", NoVal))
    BY <1>10, Zenon DEF UnknownElement
  <2> QED BY <2>1, <2>2, <2>3, MistakenToken, Zenon DEF ReaderStep
<1>11. CASE Truncated
  BY <1>1, <1>11, PartKept DEF Truncated, ReaderStep
<1>12. CASE NextPart
  BY <1>12 DEF NextPart
<1> QED
  BY <1>2, <1>3, <1>4, <1>5, <1>6, <1>7, <1>8, <1>9, <1>10, <1>11, <1>12, Zenon DEF Reads

(* NextPartKeeps: the next part has its own nodes and elements.            *)
LEMMA NextPartKeeps ==
  ASSUME TextInv, NextPart
  PROVE  TextInv' /\ FollowInv'
<1>1. /\ status = "reading" /\ frames = <<>> /\ frames' = <<>> /\ open' = <<>>
      /\ todo' = Tail(todo)
      /\ status' = "reading" => Len(todo) > 1
  BY DEF NextPart
<1>2. todo \in Seq(PartTexts) /\ todo # <<>> /\ Frames(frames) /\ Nested(frames)
  BY <1>1 DEF TextInv
<1>3. todo' \in Seq(PartTexts) /\ (Len(todo) > 1 => todo' # <<>>)
  <2>1. /\ Tail(todo) \in Seq(PartTexts) /\ Len(Tail(todo)) = Len(todo) - 1
        /\ Len(todo) \in Nat
    BY <1>2
  <2>2. Len(todo) > 1 => Tail(todo) # <<>>
    <3>1. Len(todo) > 1 => Len(Tail(todo)) # 0
      <4> DEFINE n == Len(todo)
                 m == Len(Tail(todo))
      <4>1. n \in Nat /\ m = n - 1
        BY <2>1
      <4> HIDE DEF n, m
      <4>2. n > 1 => m # 0
        BY <4>1
      <4> QED BY <4>2 DEF n, m
    <3>2. Len(<<>>) = 0
      OBVIOUS
    <3> QED BY <3>1, <3>2, Zenon
  <2> QED BY <1>1, <2>1, <2>2
<1>4. TextInv'
  BY <1>1, <1>2, <1>3 DEF TextInv
<1>5. IsList(open') /\ Follow(frames', open')
  <2>1. IsList(<<>>) /\ Len(<<>>) = 0
    BY DEF IsList
  <2>2. Places(<<>>, 0) = {}
    BY DEF Places
  <2>3. Cardinality({}) = 0
    BY FS_EmptySet
  <2>4. Follow(<<>>, <<>>)
    <3>1. \A j : j \in 1..0 => FALSE
      OBVIOUS
    <3> QED BY <2>1, <2>2, <2>3, <3>1, Zenon DEF Follow
  <2> QED BY <1>1, <2>1, <2>4, Zenon
<1> QED BY <1>4, <1>5, FollowNext

(* NodesNext: every step keeps the nodes nested and after the elements.    *)
LEMMA NodesNext ==
  ASSUME TextInv, FollowInv, [Reads]_vars
  PROVE  TextInv' /\ FollowInv'
<1>1. CASE NextPart
  BY <1>1, NextPartKeeps DEF FollowInv
<1>2. ASSUME SamePart, status = "reading",
             FollowInv', status' = "reading" => Frames(frames') /\ Nested(frames')
      PROVE  TextInv' /\ FollowInv'
  BY <1>2 DEF SamePart, TextInv
<1>3. ASSUME NEW tok, IsToken(tok), StartElement(tok), SamePart, status = "reading"
      PROVE  TextInv' /\ FollowInv'
  <2>1. tok.val \in Values
    BY <1>3 DEF IsToken
  <2> QED BY <1>2, <1>3, <2>1, StartKeeps
<1>4. CASE EndElement /\ SamePart /\ status = "reading"
  BY <1>2, <1>4, EndKeeps
<1>5. CASE EndOfText /\ SamePart /\ status = "reading"
  <2>1. eof' = TRUE /\ UNCHANGED <<frames, status, open>>
    BY <1>5 DEF EndOfText
  <2>2. FollowInv'
    BY <2>1, FollowNext DEF FollowInv
  <2>3. Frames(frames') /\ Nested(frames')
    BY <1>5, <2>1 DEF TextInv
  <2> QED BY <1>2, <1>5, <2>2, <2>3
<1>6. CASE UNCHANGED <<readerVars, open>> /\ SamePart /\ status = "reading"
  <2>1. UNCHANGED <<frames, eof, status, shadowed, open>>
    BY <1>6 DEF readerVars
  <2>2. FollowInv'
    BY <2>1 DEF FollowInv, FramesFollowElements, NotMistaken, ReadPlaces
  <2>3. Frames(frames') /\ Nested(frames')
    BY <1>6, <2>1 DEF TextInv
  <2> QED BY <1>2, <1>6, <2>2, <2>3
<1>7. CASE Reads
  <2>1. status = "reading" /\ (NextPart \/ (SamePart /\ ReaderStep))
    BY <1>7, ReadsIs
  <2> QED BY <1>1, <1>3, <1>4, <1>5, <1>6, <2>1 DEF ReaderStep
<1>8. CASE UNCHANGED vars
  <2>1. UNCHANGED <<frames, eof, status, shadowed, open, todo>>
    BY <1>8 DEF vars, readerVars
  <2> QED
    BY <2>1 DEF TextInv, FollowInv, FramesFollowElements, NotMistaken, ReadPlaces
<1> QED BY <1>7, <1>8

(* NodesInit: a document has parts, and nothing is open before the first.  *)
LEMMA NodesInit ==
  ASSUME Init
  PROVE  TextInv /\ FollowInv
<1>1. frames = <<>> /\ open = <<>>
  BY DEF Init, ReaderInit
<1>2. todo \in Seq(PartTexts) \ {<<>>}
  BY DocumentsAssumption DEF Init
<1>3. IsList(<<>>) /\ Len(<<>>) = 0 /\ DOMAIN <<>> = {}
  BY DEF IsList
<1>4. Frames(<<>>) /\ Nested(<<>>)
  BY <1>3 DEF Frames, Nested
<1>5. Cardinality({}) = 0
  BY FS_EmptySet
<1>6. FollowInv
  BY <1>1, <1>3, <1>5 DEF FollowInv, FramesFollowElements, NotMistaken, ReadPlaces
<1> QED BY <1>1, <1>2, <1>4, <1>6 DEF TextInv

(* NodesInvariance: they hold at every step.                               *)
LEMMA NodesInvariance == Spec => [](TextInv /\ FollowInv)
<1>1. Init => TextInv /\ FollowInv
  BY NodesInit
<1>2. TextInv /\ FollowInv /\ [Reads]_vars => TextInv' /\ FollowInv'
  BY NodesNext
<1> QED BY <1>1, <1>2, PTL DEF Spec

(***************************************************************************)
(* Whatever the documents have, no node takes the end tag of an element    *)
(* that is not its own, unless an element nobody reads has the name of the *)
(* node around it.                                                         *)
(***************************************************************************)
THEOREM FramesCorrect == Spec => []FramesFollowElements
<1>1. FollowInv => FramesFollowElements
  BY DEF FollowInv
<1> QED BY <1>1, NodesInvariance, PTL

-----------------------------------------------------------------------------
(* The model. *)

(***************************************************************************)
(* The model m2 has the resources of m, perhaps with other properties.     *)
(***************************************************************************)
Keeps(m2, m) ==
  \A t \in DOMAIN m.res : t \in DOMAIN m2.res /\ m2.res[t].kind = m.res[t].kind

(***************************************************************************)
(* The model m2 has one resource more.                                     *)
(***************************************************************************)
Adds(m2, m, own, r) ==
  /\ IsModel(m2)
  /\ DOMAIN m2.res = DOMAIN m.res \cup {own}
  /\ m2.res[own] = r
  /\ \A t \in DOMAIN m.res : m2.res[t] = m.res[t]
  /\ m2.known = m.known \cup {own}
  /\ m2.items = m.items

(* RoleKinds: what the references of each role are to.                     *)
LEMMA RoleKinds ==
  /\ KindsOf("component") = Objects
  /\ KindsOf("lattice") = Objects
  /\ KindsOf("property") = Groups
  /\ KindsOf("layer") = Groups \ {"MultiProperties"}
  /\ KindsOf("Tex2DGroup") = {"Texture2D"}
  /\ KindsOf("CompositeMaterials") = {"BaseMaterials"}
  /\ KindsOf("sliceref") = {"SliceStack"}
  /\ KindsOf("slicestack") = {"SliceStack"}
BY DEF KindsOf

(* AddsResource: adding a resource to the table.                           *)
LEMMA AddsResource ==
  ASSUME NEW m, IsModel(m), NEW own, own \notin DOMAIN m.res, NEW r, IsResource(r), NEW known,
         known = m.known \cup {own}
  PROVE  Adds([m EXCEPT !.known = known, !.res = WithResource(@, own, r)], m, own, r)
<1> DEFINE res == WithResource(m.res, own, r)
           m2 == [m EXCEPT !.known = known, !.res = WithResource(@, own, r)]
<1>1. /\ DOMAIN res = DOMAIN m.res \cup {own} /\ res[own] = r
      /\ \A t \in DOMAIN m.res : res[t] = m.res[t]
  BY DEF WithResource
<1> HIDE DEF res
<1>2. m2 = [res |-> res, known |-> known, items |-> m.items, meta |-> m.meta]
  <2>1. m = [res |-> m.res, known |-> m.known, items |-> m.items, meta |-> m.meta]
    BY Zenon DEF IsModel
  <2> DEFINE m1 == [m EXCEPT !.known = known]
  <2>2. m1 = [res |-> m.res, known |-> known, items |-> m.items, meta |-> m.meta]
    BY ONLY <2>1
  <2>3. m2 = [m1 EXCEPT !.res = res]
    BY Zenon DEF res
  <2> HIDE DEF m1, m2
  <2> QED BY ONLY <2>2, <2>3
<1> HIDE DEF m2
<1>3. \A t \in DOMAIN m2.res : IsResource(m2.res[t])
  BY <1>1, <1>2 DEF IsModel
<1>4. Adds(m2, m, own, r)
  BY <1>1, <1>2, <1>3 DEF Adds, IsModel
<1> QED BY <1>4 DEF m2

(* PartsStay: the components of the resources in a model are resources in  *)
(* the model.                                                              *)
LEMMA PartsStay ==
  ASSUME NEW m, Consistent(m), NEW S, S \subseteq DOMAIN m.res
  PROVE  PartsIn(m, S) \subseteq DOMAIN m.res
<1> SUFFICES ASSUME NEW x \in PartsIn(m, S) PROVE x \in DOMAIN m.res
  OBVIOUS
<1>1. PICK t \in S : \E r \in m.res[t].refs : x = r[2]
  BY DEF PartsIn
<1>2. PICK r \in m.res[t].refs : x = r[2]
  BY <1>1
<1>3. Resolves(m, r)
  BY <1>1, <1>2 DEF Consistent, IsSound
<1> QED BY <1>2, <1>3 DEF Resolves, In

(* PartsSame: and only their references decide which.                      *)
LEMMA PartsSame ==
  ASSUME NEW m, NEW m2, NEW S, \A t \in S : m2.res[t].refs = m.res[t].refs
  PROVE  PartsIn(m2, S) = PartsIn(m, S)
<1>1. UNION {m2.res[t].refs : t \in S} = UNION {m.res[t].refs : t \in S}
  OBVIOUS
<1> QED BY <1>1, Zenon DEF PartsIn

(* StillNotInItself: while the references stay, no object comes to contain *)
(* itself.                                                                 *)
LEMMA StillNotInItself ==
  ASSUME NEW m, Consistent(m), NEW m2,
         \A t \in DOMAIN m.res : m2.res[t].refs = m.res[t].refs, NEW t \in DOMAIN m.res
  PROVE  NotInItself(m2, t)
<1> DEFINE one == PartsIn(m, {t})
           two == PartsIn(m, one)
           three == PartsIn(m, two)
<1>1. \A S : S \subseteq DOMAIN m.res =>
        PartsIn(m, S) \subseteq DOMAIN m.res /\ PartsIn(m2, S) = PartsIn(m, S)
  BY PartsStay, PartsSame, Zenon
<1>2. {t} \subseteq DOMAIN m.res
  OBVIOUS
<1>3. PartsIn(m2, {t}) = one /\ one \subseteq DOMAIN m.res
  BY <1>1, <1>2
<1>4. PartsIn(m2, one) = two /\ two \subseteq DOMAIN m.res
  BY <1>1, <1>3
<1>5. PartsIn(m2, two) = three /\ three \subseteq DOMAIN m.res
  BY <1>1, <1>4
<1>6. PartsIn(m2, three) = PartsIn(m, three)
  BY <1>1, <1>5
<1>7. t \notin one \cup two \cup three \cup PartsIn(m, three)
  BY Zenon DEF Consistent, NotInItself
<1> HIDE DEF one, two, three
<1> QED BY <1>3, <1>4, <1>5, <1>6, <1>7, Zenon DEF NotInItself

(* KeptReferences: what resolves in a model does in one that has as much.  *)
LEMMA KeptReferences ==
  ASSUME NEW m, NEW m2, Keeps(m2, m)
  PROVE  /\ \A t, kinds : In(m, t, kinds) => In(m2, t, kinds)
         /\ \A r : Resolves(m, r) => Resolves(m2, r)
BY DEF Keeps, In, Resolves

(* AddKeeps: a model with one resource more.                               *)
LEMMA AddKeeps ==
  ASSUME NEW m, NEW m2, NEW own, NEW r, Adds(m2, m, own, r)
  PROVE  Keeps(m2, m)
BY DEF Adds, Keeps

(* AddResource: a new resource whose references resolve, those to          *)
(* components before it is added.                                          *)
LEMMA AddResource ==
  ASSUME NEW m, Consistent(m), NEW own, own \notin DOMAIN m.res, NEW m2, NEW r,
         Adds(m2, m, own, r),
         \A x \in r.refs : /\ Resolves(m2, x)
                           /\ x[1] = "component" => Resolves(m, x)
                           /\ x[1] = "Tex2DGroup" => r.kind = "Tex2DGroup",
         r.n # 0 => r.kind \in Groups
  PROVE  Consistent(m2)
<1>1. Keeps(m2, m)
  BY AddKeeps
<1>2. ASSUME NEW t \in DOMAIN m.res PROVE IsSound(m2, t) /\ NotInItself(m2, t)
  <2>1. IsSound(m, t)
    BY DEF Consistent
  <2>2. m2.res[t] = m.res[t]
    BY DEF Adds
  <2>3. IsSound(m2, t)
    BY <1>1, <2>1, <2>2, KeptReferences, Zenon DEF IsSound
  <2>4. NotInItself(m2, t)
    BY StillNotInItself DEF Adds
  <2> QED BY <2>3, <2>4
<1>3. IsSound(m2, own)
  BY DEF IsSound, Adds
<1>4. NotInItself(m2, own)
  <2> DEFINE one == PartsIn(m2, {own})
             two == PartsIn(m2, one)
             three == PartsIn(m2, two)
  <2>1. one \subseteq DOMAIN m.res
    <3> SUFFICES ASSUME NEW x \in one PROVE x \in DOMAIN m.res
      OBVIOUS
    <3>1. PICK q \in r.refs : q[1] = "component" /\ x = q[2]
      BY DEF PartsIn, Adds
    <3> QED BY <3>1 DEF Resolves, In
  <2>2. \A S : S \subseteq DOMAIN m.res => PartsIn(m2, S) \subseteq DOMAIN m.res
    <3> SUFFICES ASSUME NEW S, S \subseteq DOMAIN m.res PROVE PartsIn(m2, S) \subseteq DOMAIN m.res
      OBVIOUS
    <3>1. \A t \in S : m2.res[t].refs = m.res[t].refs
      BY DEF Adds
    <3> QED BY <3>1, PartsStay, PartsSame
  <2> HIDE DEF one, two, three
  <2>3. two \subseteq DOMAIN m.res
    BY <2>1, <2>2 DEF two
  <2>4. three \subseteq DOMAIN m.res
    BY <2>2, <2>3 DEF three
  <2>5. PartsIn(m2, three) \subseteq DOMAIN m.res
    BY <2>2, <2>4
  <2>6. own \notin one \cup two \cup three \cup PartsIn(m2, three)
    BY <2>1, <2>3, <2>4, <2>5
  <2> QED BY <2>6, Zenon DEF NotInItself, one, two, three
<1>5. \A i \in m2.items : In(m2, i.object, Objects) /\ (i.part = Root \/ i.old)
  BY <1>1, KeptReferences, Zenon DEF Adds, Consistent
<1>6. DOMAIN m2.res \subseteq m2.known
  BY DEF Adds, Consistent
<1> QED BY <1>2, <1>3, <1>4, <1>5, <1>6 DEF Consistent, Adds

(* MoreProperties: an element more in a property group.                    *)
LEMMA MoreProperties ==
  ASSUME NEW m, Consistent(m), NEW group, In(m, group, Groups), NEW m2,
         m2 = [m EXCEPT !.res[group].n = @ + 1]
  PROVE  Consistent(m2) /\ Keeps(m2, m) /\ m2.known = m.known /\ DOMAIN m2.res = DOMAIN m.res
<1> DEFINE n == m.res[group].n + 1
           res == [m.res EXCEPT ![group] = [@ EXCEPT !.n = n]]
<1>1. IsModel(m) /\ group \in DOMAIN m.res /\ m.res[group].kind \in Groups
  BY DEF Consistent, In
<1>2. IsResource(m.res[group])
  BY <1>1 DEF IsModel
<1>3. m2 = [res |-> res, known |-> m.known, items |-> m.items, meta |-> m.meta]
  BY <1>1 DEF IsModel
<1> HIDE DEF n
<1>4. /\ DOMAIN res = DOMAIN m.res
      /\ \A t \in DOMAIN m.res : t # group => res[t] = m.res[t]
      /\ res[group] = [kind |-> m.res[group].kind, n |-> n, refs |-> m.res[group].refs]
  BY <1>1, <1>2 DEF IsResource
<1> HIDE DEF res
<1>5. \A t \in DOMAIN m.res : res[t].kind = m.res[t].kind /\ res[t].refs = m.res[t].refs
  BY <1>4
<1>6. Keeps(m2, m) /\ m2.known = m.known /\ DOMAIN m2.res = DOMAIN m.res
  BY <1>3, <1>4, <1>5 DEF Keeps
<1>7. IsModel(m2)
  BY <1>1, <1>3, <1>4 DEF IsModel, IsResource
<1>8. ASSUME NEW t \in DOMAIN m.res PROVE IsSound(m2, t) /\ NotInItself(m2, t)
  <2>1. IsSound(m, t)
    BY DEF Consistent
  <2>2. m2.res[t].kind = m.res[t].kind /\ m2.res[t].refs = m.res[t].refs
    BY <1>3, <1>5
  <2>3. m2.res[t].n # 0 => m2.res[t].kind \in Groups
    BY <1>1, <1>3, <1>4, <2>1 DEF IsSound
  <2>4. IsSound(m2, t)
    BY <1>6, <2>1, <2>2, <2>3, KeptReferences, Zenon DEF IsSound
  <2>5. NotInItself(m2, t)
    BY <1>3, <1>5, StillNotInItself
  <2> QED BY <2>4, <2>5
<1>9. \A i \in m2.items : In(m2, i.object, Objects) /\ (i.part = Root \/ i.old)
  BY <1>3, <1>6, KeptReferences DEF Consistent
<1> QED BY <1>3, <1>6, <1>7, <1>8, <1>9 DEF Consistent

(* SameResources: what changes besides the resources.                      *)
LEMMA SameResources ==
  ASSUME NEW m, Consistent(m), NEW m2, IsModel(m2), m2.res = m.res, m.known \subseteq m2.known,
         \A i \in m2.items : In(m2, i.object, Objects) /\ (i.part = Root \/ i.old)
  PROVE  Consistent(m2) /\ Keeps(m2, m)
<1>1. Keeps(m2, m)
  BY DEF Keeps
<1>2. ASSUME NEW t \in DOMAIN m.res PROVE IsSound(m2, t) /\ NotInItself(m2, t)
  <2>1. IsSound(m, t)
    BY DEF Consistent
  <2>2. IsSound(m2, t)
    BY <1>1, <2>1, KeptReferences, Zenon DEF IsSound
  <2> QED BY <2>2, StillNotInItself
<1> QED BY <1>1, <1>2 DEF Consistent

-----------------------------------------------------------------------------
(* Where a node can be, and what is being read. *)

(* FirstNode: only the first node is a model node.                         *)
LEMMA FirstNode ==
  ASSUME NEW fs, Frames(fs), Nested(fs), NEW i \in DOMAIN fs
  PROVE  /\ i \in Nat \ {0}
         /\ fs[i].kind = "Model" <=> i = 1
         /\ i # 1 => i - 1 \in DOMAIN fs /\ Placed(fs[i - 1].kind, fs[i].kind)
<1>1. Len(fs) \in Nat /\ DOMAIN fs = 1..Len(fs)
  BY ListFacts DEF Frames
<1> DEFINE n == Len(fs)
<1>2. \A k \in 1..(n - 1) : fs[k + 1].kind \in ChildKinds(fs[k].kind)
  BY DEF Nested
<1>3. \A k \in 1..n : fs[k].kind \in Kinds
  BY <1>1 DEF Frames, IsFrame
<1>4. fs # <<>>
  BY <1>1
<1>5. fs[1].kind = "Model"
  BY <1>4 DEF Nested
<1>6. ASSUME i # 1 PROVE i - 1 \in DOMAIN fs /\ Placed(fs[i - 1].kind, fs[i].kind)
  <2>1. n \in Nat /\ i \in 1..n
    BY <1>1
  <2> HIDE DEF n
  <2>2. i - 1 \in 1..(n - 1) /\ i - 1 \in 1..n /\ (i - 1) + 1 = i
    BY <1>6, <2>1
  <2>3. fs[i].kind \in ChildKinds(fs[i - 1].kind) /\ fs[i - 1].kind \in Kinds
    BY <1>2, <1>3, <2>2
  <2>4. Placed(fs[i - 1].kind, fs[i].kind)
    BY <2>3, ChildrenArePlaced
  <2> QED BY <1>1, <2>2, <2>4 DEF n
<1>7. i # 1 => fs[i].kind # "Model"
  BY <1>6 DEF Placed
<1>8. i \in Nat \ {0}
  BY <1>1
<1> QED BY <1>5, <1>6, <1>7, <1>8

(***************************************************************************)
(* How deep the node number i is in the part.                              *)
(***************************************************************************)
IsDeep(kind, i) ==
  /\ kind = "Model" <=> i = 1
  /\ kind \in Sections => i = 2
  /\ kind \in Resources2 => i = 3
  /\ kind \in Geometries => i = 4

(* Depths: a class of nodes is always equally deep.                        *)
LEMMA Depths ==
  ASSUME NEW fs, Frames(fs), Nested(fs), NEW i \in DOMAIN fs
  PROVE  IsDeep(fs[i].kind, i)
<1>1. ASSUME NEW k \in DOMAIN fs
      PROVE  /\ k \in Nat \ {0}
             /\ fs[k].kind = "Model" <=> k = 1
             /\ k # 1 => k - 1 \in DOMAIN fs /\ Placed(fs[k - 1].kind, fs[k].kind)
  BY FirstNode
<1>2. /\ "Model" \notin Sections /\ "Model" \notin Resources2 /\ "Model" \notin Geometries
      /\ {"Resources", "Resources093"} \subseteq Sections
      /\ {"Object", "Object093"} \subseteq Resources2
  BY DEF Sections, Resources2, Resources1, Groups, Geometries
<1>3. \A k \in DOMAIN fs : fs[k].kind \in Sections => k = 2
  <2> SUFFICES ASSUME NEW k \in DOMAIN fs, fs[k].kind \in Sections PROVE k = 2
    OBVIOUS
  <2>1. k # 1
    BY <1>1, <1>2
  <2>2. k - 1 \in DOMAIN fs /\ fs[k - 1].kind = "Model"
    BY <1>1, <2>1 DEF Placed
  <2>3. k - 1 = 1
    BY <1>1, <2>2
  <2> QED BY <1>1, <2>3
<1>4. \A k \in DOMAIN fs : fs[k].kind \in Resources2 => k = 3
  <2> SUFFICES ASSUME NEW k \in DOMAIN fs, fs[k].kind \in Resources2 PROVE k = 3
    OBVIOUS
  <2>1. k # 1
    BY <1>1, <1>2
  <2>2. k - 1 \in DOMAIN fs /\ fs[k - 1].kind \in Sections
    BY <1>1, <1>2, <2>1 DEF Placed
  <2>3. k - 1 = 2
    BY <1>3, <2>2
  <2> QED BY <1>1, <2>3
<1>5. \A k \in DOMAIN fs : fs[k].kind \in Geometries => k = 4
  <2> SUFFICES ASSUME NEW k \in DOMAIN fs, fs[k].kind \in Geometries PROVE k = 4
    OBVIOUS
  <2>1. k # 1
    BY <1>1, <1>2
  <2>2. k - 1 \in DOMAIN fs /\ fs[k - 1].kind \in Resources2
    BY <1>1, <1>2, <2>1 DEF Placed
  <2>3. k - 1 = 3
    BY <1>4, <2>2
  <2> QED BY <1>1, <2>3
<1> QED BY <1>1, <1>3, <1>4, <1>5 DEF IsDeep

Pending == Geometries \cup {"SliceStack"}

(* NothingUnfinished: above a resource, and inside of an object before its *)
(* mesh or components, nothing has taken an ID that is not in the model.   *)
LEMMA NothingUnfinished ==
  ASSUME NEW fs, Frames(fs), Nested(fs)
  PROVE  /\ fs = <<>> => ~Unfinished(fs)
         /\ fs # <<>> /\ fs[Len(fs)].kind \in {"Resources", "Resources093", "Object", "Object093"}
              => ~Unfinished(fs)
         /\ \A gs : Shorter(gs, fs) /\ fs[Len(fs)].kind \in Pending => ~Unfinished(gs)
<1>1. Len(fs) \in Nat /\ DOMAIN fs = 1..Len(fs)
  BY ListFacts DEF Frames
<1>2. \A i \in DOMAIN fs : IsDeep(fs[i].kind, i)
  BY Depths
<1>3. /\ "SliceStack" \in Resources2
      /\ {"Resources", "Resources093"} \subseteq Sections
      /\ {"Object", "Object093"} \subseteq Resources2
      /\ "SliceStack" \notin {"Object", "Object093"}
      /\ \A kind \in Geometries : kind \notin Resources2
      /\ {"Object", "Object093"} \cap Geometries = {}
  BY DEF Resources2, Resources1, Groups, Sections, Geometries
<1>4. fs = <<>> => ~Unfinished(fs)
  BY <1>1 DEF Unfinished
<1>5. ASSUME fs # <<>>, fs[Len(fs)].kind \in {"Resources", "Resources093", "Object", "Object093"},
             Unfinished(fs)
      PROVE  FALSE
  <2>1. PICK i \in DOMAIN fs : fs[i].kind \in Geometries \cup {"SliceStack"}
    BY <1>5 DEF Unfinished
  <2>2. i \in {3, 4}
    BY <1>2, <1>3, <2>1 DEF IsDeep
  <2>3. Len(fs) \in DOMAIN fs
    BY <1>1, <2>1
  <2>4. Len(fs) \in {2, 3} /\ (Len(fs) = 3 => fs[Len(fs)].kind \in {"Object", "Object093"})
    <3> DEFINE n == Len(fs)
               kind == fs[n].kind
    <3>1. kind \in {"Resources", "Resources093", "Object", "Object093"} /\ IsDeep(kind, n)
      BY <1>2, <1>5, <2>3
    <3> HIDE DEF kind, n
    <3>2. kind \in Sections => n = 2
      BY <3>1 DEF IsDeep
    <3>3. kind \in Resources2 => n = 3
      BY <3>1 DEF IsDeep
    <3>4. n \in {2, 3} /\ (n = 3 => kind \in {"Object", "Object093"})
      BY <1>3, <3>1, <3>2, <3>3
    <3> QED BY <3>4 DEF kind, n
  <2> DEFINE n == Len(fs)
  <2>5. n \in Nat /\ i \in 1..n /\ n \in {2, 3}
    BY <1>1, <2>1, <2>4
  <2> HIDE DEF n
  <2>6. i = 3 /\ n = 3
    BY <2>2, <2>5
  <2>7. fs[3].kind \in {"Object", "Object093"}
    BY <2>4, <2>6 DEF n
  <2> QED BY <1>3, <2>1, <2>6, <2>7
<1>6. ASSUME NEW gs, Shorter(gs, fs), fs[Len(fs)].kind \in Pending, Unfinished(gs)
      PROVE  FALSE
  <2> DEFINE n == Len(fs)
  <2>1. /\ n \in Nat \ {0} /\ DOMAIN gs = 1..(n - 1) /\ DOMAIN fs = 1..n
        /\ \A i \in 1..(n - 1) : gs[i].kind = fs[i].kind
    BY <1>6 DEF Shorter
  <2>2. PICK i \in DOMAIN gs : gs[i].kind \in Geometries \cup {"SliceStack"}
    BY <1>6 DEF Unfinished
  <2>3. fs[n].kind \in Geometries \cup {"SliceStack"}
    BY <1>6 DEF Pending
  <2> HIDE DEF n
  <2>4. i \in 1..(n - 1) /\ i \in DOMAIN fs /\ n \in DOMAIN fs
    BY <2>1, <2>2
  <2>5. i \in {3, 4} /\ n \in {3, 4}
    BY <1>2, <1>3, <2>1, <2>2, <2>3, <2>4 DEF IsDeep
  <2>6. i = 3 /\ n = 4
    BY <2>1, <2>4, <2>5
  <2>7. IsDeep(fs[3].kind, 3) /\ IsDeep(fs[4].kind, 4)
    BY <1>2, <2>4, <2>6
  <2>8. fs[4].kind \in Geometries /\ fs[3].kind = "SliceStack"
    BY <1>3, <2>1, <2>2, <2>3, <2>4, <2>6, <2>7 DEF IsDeep
  <2>9. Placed(fs[3].kind, fs[4].kind)
    BY FirstNode, <2>4, <2>6
  <2> QED BY <1>3, <2>8, <2>9 DEF Placed
<1> QED BY <1>4, <1>5, <1>6

(***************************************************************************)
(* The object or slice stack c2 in place of c: its references are good.    *)
(***************************************************************************)
GoodCur(c, m) == IsCur(c) /\ \A r \in c.refs : r[1] \in CurRoles /\ Resolves(m, r)

(***************************************************************************)
(* No ID has been taken by a resource that is not in the model besides     *)
(* those of m.                                                             *)
(***************************************************************************)
SameMissing(m2, m) == m2.known \ DOMAIN m2.res = m.known \ DOMAIN m.res

(* WorkKept: a step that opens and closes nothing the model depends on.    *)
LEMMA WorkKept ==
  ASSUME NEW p, NEW fs, NEW gs, NEW c, NEW c2, NEW m, NEW m2, AtWork(p, fs, c, m),
         gs = fs \/ (Shorter(gs, fs) /\ fs[Len(fs)].kind \notin Pending),
         GoodCur(c2, m2), Keeps(m2, m), SameMissing(m2, m),
         (c2.id = c.id /\ c2.kind = c.kind) \/ ~Unfinished(fs)
  PROVE  AtWork(p, gs, c2, m2)
<1>1. /\ \A i \in DOMAIN gs : i \in DOMAIN fs /\ gs[i].kind = fs[i].kind /\ gs[i].val = fs[i].val
      /\ Unfinished(fs) <=> Unfinished(gs)
  <2>1. CASE gs = fs
    BY <2>1
  <2>2. CASE Shorter(gs, fs) /\ fs[Len(fs)].kind \notin Pending
    <3> DEFINE n == Len(fs)
    <3>1. /\ n \in Nat \ {0} /\ DOMAIN gs = 1..(n - 1) /\ DOMAIN fs = 1..n
          /\ \A i \in 1..(n - 1) : gs[i].kind = fs[i].kind /\ gs[i].val = fs[i].val
      BY <2>2 DEF Shorter
    <3>2. fs[n].kind \notin Geometries \cup {"SliceStack"}
      BY <2>2 DEF Pending
    <3> HIDE DEF n
    <3>3. \A i \in 1..n : i \in 1..(n - 1) \/ i = n
      BY <3>1
    <3>4. \A i \in 1..(n - 1) : i \in 1..n
      BY <3>1
    <3> QED BY <3>1, <3>2, <3>3, <3>4, Zenon DEF Unfinished
  <2> QED BY <2>1, <2>2
<1>2. \A i \in DOMAIN gs : gs[i].kind \in Geometries => c2.kind \in Objects
  BY <1>1 DEF AtWork, Unfinished
<1>3. \A i \in DOMAIN gs :
        /\ gs[i].kind \in Groups => In(m2, <<p, gs[i].val.id + Shift(gs[i].kind)>>, Groups)
        /\ gs[i].kind \in {"Build", "BuildItem"} => p = Root
  BY <1>1, KeptReferences DEF AtWork
<1>4. m2.known \ DOMAIN m2.res = IF Unfinished(gs) THEN {<<p, c2.id>>} ELSE {}
  BY <1>1 DEF AtWork, SameMissing
<1> QED BY <1>2, <1>3, <1>4, Zenon DEF AtWork, GoodCur

(* WorkMore: a node is opened that takes no ID before its content.         *)
LEMMA WorkMore ==
  ASSUME NEW p, NEW fs, NEW gs, NEW kind, NEW tok, NEW c, NEW c2, NEW m, NEW m2,
         AtWork(p, fs, c, m), Longer(gs, fs, kind, tok), kind \notin Pending,
         kind \in Groups => In(m2, <<p, tok.val.id + Shift(kind)>>, Groups),
         kind \in {"Build", "BuildItem"} => p = Root,
         GoodCur(c2, m2), Keeps(m2, m), SameMissing(m2, m),
         (c2.id = c.id /\ c2.kind = c.kind) \/ ~Unfinished(fs)
  PROVE  AtWork(p, gs, c2, m2)
<1>1. AtWork(p, fs, c2, m2)
  BY WorkKept
<1> DEFINE n == Len(fs)
<1>2. /\ n \in Nat /\ DOMAIN gs = 1..(n + 1) /\ DOMAIN fs = 1..n
      /\ \A i \in 1..n : gs[i] = fs[i]
      /\ gs[n + 1].kind = kind /\ gs[n + 1].val = tok.val
  BY DEF Longer, Frame
<1>3. kind \notin Geometries \cup {"SliceStack"}
  BY DEF Pending
<1> HIDE DEF n
<1>4. (\A i \in 1..(n + 1) : i \in 1..n \/ i = n + 1) /\ (\A i \in 1..n : i \in 1..(n + 1))
  BY <1>2
<1>5. Unfinished(fs) <=> Unfinished(gs)
  BY <1>2, <1>3, <1>4, Zenon DEF Unfinished
<1>6. \A i \in DOMAIN gs :
       /\ gs[i].kind \in Geometries => c2.kind \in Objects
       /\ gs[i].kind \in Groups => In(m2, <<p, gs[i].val.id + Shift(gs[i].kind)>>, Groups)
       /\ gs[i].kind \in {"Build", "BuildItem"} => p = Root
  <2> SUFFICES ASSUME NEW i \in DOMAIN gs
               PROVE  /\ gs[i].kind \in Geometries => c2.kind \in Objects
                      /\ gs[i].kind \in Groups => In(m2, <<p, gs[i].val.id + Shift(gs[i].kind)>>, Groups)
                      /\ gs[i].kind \in {"Build", "BuildItem"} => p = Root
    BY Zenon
  <2>1. CASE i = n + 1
    BY <1>2, <1>3, <2>1
  <2>2. CASE i \in 1..n
    BY <1>1, <1>2, <2>2 DEF AtWork
  <2> QED BY <1>2, <1>4, <2>1, <2>2
<1> QED BY <1>1, <1>5, <1>6, Zenon DEF AtWork

(* WorkBegun: a node is opened that takes an ID for what is read in it.    *)
LEMMA WorkBegun ==
  ASSUME NEW p, NEW fs, NEW gs, NEW kind, NEW tok, NEW c, NEW c2, NEW m, NEW m2,
         AtWork(p, fs, c, m), Longer(gs, fs, kind, tok), kind \in Pending, ~Unfinished(fs),
         kind \in Geometries => c2.kind \in Objects,
         GoodCur(c2, m2), m2.res = m.res, <<p, c2.id>> \notin m.known,
         DOMAIN m.res \subseteq m.known, m2.known = m.known \cup {<<p, c2.id>>}
  PROVE  AtWork(p, gs, c2, m2)
<1> DEFINE n == Len(fs)
<1>1. /\ n \in Nat /\ DOMAIN gs = 1..(n + 1) /\ DOMAIN fs = 1..n
      /\ \A i \in 1..n : gs[i] = fs[i]
      /\ gs[n + 1].kind = kind
  BY DEF Longer, Frame
<1> HIDE DEF n
<1>2. (\A i \in 1..(n + 1) : i \in 1..n \/ i = n + 1) /\ n + 1 \in 1..(n + 1)
  BY <1>1
<1>3. kind \in Geometries \cup {"SliceStack"}
  BY DEF Pending
<1>4. Unfinished(gs)
  BY <1>1, <1>2, <1>3, Zenon DEF Unfinished
<1>5. m2.known \ DOMAIN m2.res = {<<p, c2.id>>}
  BY DEF AtWork
<1>6. Groups \cap Pending = {} /\ {"Build", "BuildItem"} \cap Pending = {}
  BY DEF Groups, Pending, Geometries
<1>7. \A i \in DOMAIN gs :
       /\ gs[i].kind \in Geometries => c2.kind \in Objects
       /\ gs[i].kind \in Groups => In(m2, <<p, gs[i].val.id + Shift(gs[i].kind)>>, Groups)
       /\ gs[i].kind \in {"Build", "BuildItem"} => p = Root
  <2> SUFFICES ASSUME NEW i \in DOMAIN gs
               PROVE  /\ gs[i].kind \in Geometries => c2.kind \in Objects
                      /\ gs[i].kind \in Groups => In(m2, <<p, gs[i].val.id + Shift(gs[i].kind)>>, Groups)
                      /\ gs[i].kind \in {"Build", "BuildItem"} => p = Root
    BY Zenon
  <2>1. CASE i = n + 1
    BY <1>1, <1>6, <2>1
  <2>2. CASE i \in 1..n
    <3>1. fs[i].kind \notin Geometries
      BY <1>1, <2>2 DEF Unfinished
    <3> QED BY <1>1, <2>2, <3>1 DEF AtWork, In
  <2> QED BY <1>1, <1>2, <2>1, <2>2
<1> QED BY <1>4, <1>5, <1>7, Zenon DEF AtWork, GoodCur

(* WorkDone: what has been read under its ID joins the model.              *)
LEMMA WorkDone ==
  ASSUME NEW p, NEW fs, NEW gs, NEW c, NEW c2, NEW m, NEW m2, NEW r, AtWork(p, fs, c, m),
         fs # <<>>, Frames(fs), Nested(fs), Shorter(gs, fs), fs[Len(fs)].kind \in Pending,
         Adds(m2, m, <<p, c.id>>, r), GoodCur(c2, m2)
  PROVE  AtWork(p, gs, c2, m2)
<1>1. ~Unfinished(gs)
  BY NothingUnfinished
<1> DEFINE n == Len(fs)
<1>2. /\ n \in Nat \ {0} /\ DOMAIN gs = 1..(n - 1) /\ DOMAIN fs = 1..n
      /\ \A i \in 1..(n - 1) : gs[i].kind = fs[i].kind /\ gs[i].val = fs[i].val
  BY DEF Shorter
<1>3. fs[n].kind \in Geometries \cup {"SliceStack"}
  BY DEF Pending
<1> HIDE DEF n
<1>4. \A i \in 1..(n - 1) : i \in DOMAIN fs
  BY <1>2
<1>5. Unfinished(fs)
  BY <1>2, <1>3 DEF Unfinished
<1>6. m.known \ DOMAIN m.res = {<<p, c.id>>}
  BY <1>5 DEF AtWork
<1>7. m2.known \ DOMAIN m2.res = {}
  BY <1>6 DEF Adds
<1>8. Keeps(m2, m)
  BY AddKeeps
<1>9. \A i \in DOMAIN gs :
       /\ gs[i].kind \notin Geometries
       /\ gs[i].kind \in Groups => In(m2, <<p, gs[i].val.id + Shift(gs[i].kind)>>, Groups)
       /\ gs[i].kind \in {"Build", "BuildItem"} => p = Root
  BY <1>1, <1>2, <1>4, <1>8, KeptReferences DEF AtWork, Unfinished
<1> QED BY <1>1, <1>7, <1>9, Zenon DEF AtWork, GoodCur

-----------------------------------------------------------------------------
(* What each handler does to the model. *)

Working ==
  /\ Frames(frames) /\ Nested(frames)
  /\ Consistent(model) /\ AtWork(Part, frames, cur, model)
Worked == Consistent(model') /\ AtWork(Part, frames', cur', model')

(***************************************************************************)
(* The object or slice stack that is read stays the same one and refers to *)
(* the same resources.                                                     *)
(***************************************************************************)
SameRefs(c2, c) == IsCur(c2) /\ c2.id = c.id /\ c2.kind = c.kind /\ c2.refs = c.refs

(***************************************************************************)
(* It refers to the given resources.                                       *)
(***************************************************************************)
RefsAre(c2, c, refs) == IsCur(c2) /\ c2.id = c.id /\ c2.kind = c.kind /\ c2.refs = refs

(* CurWith: changes of a single field.                                     *)
LEMMA CurWith ==
  ASSUME NEW c, IsCur(c), NEW v
  PROVE  /\ SameRefs([c EXCEPT !.nodes = v], c)
         /\ SameRefs([c EXCEPT !.slices = v], c)
         /\ SameRefs([c EXCEPT !.used = v], c)
         /\ SameRefs([c EXCEPT !.meshpid = v], c)
         /\ SameRefs([c EXCEPT !.clip = v], c)
         /\ SameRefs([c EXCEPT !.rep = v], c)
         /\ v \in Nat => SameRefs([c EXCEPT !.index = v], c)
         /\ RefsAre([c EXCEPT !.refs = v], c, v)
         /\ IsCur([c EXCEPT !.kind = v]) /\ [c EXCEPT !.kind = v].id = c.id
         /\ [c EXCEPT !.kind = v].kind = v /\ [c EXCEPT !.kind = v].refs = c.refs
<1>1. SameRefs([c EXCEPT !.nodes = v], c)
  BY DEF IsCur, SameRefs
<1>2. SameRefs([c EXCEPT !.slices = v], c)
  BY DEF IsCur, SameRefs
<1>3. SameRefs([c EXCEPT !.used = v], c)
  BY DEF IsCur, SameRefs
<1>4. SameRefs([c EXCEPT !.meshpid = v], c)
  BY DEF IsCur, SameRefs
<1>5. SameRefs([c EXCEPT !.clip = v], c)
  BY DEF IsCur, SameRefs
<1>6. SameRefs([c EXCEPT !.rep = v], c)
  BY DEF IsCur, SameRefs
<1>7. v \in Nat => SameRefs([c EXCEPT !.index = v], c)
  BY DEF IsCur, SameRefs
<1>8. RefsAre([c EXCEPT !.refs = v], c, v)
  BY DEF IsCur, RefsAre
<1>9. /\ IsCur([c EXCEPT !.kind = v]) /\ [c EXCEPT !.kind = v].id = c.id
      /\ [c EXCEPT !.kind = v].kind = v /\ [c EXCEPT !.kind = v].refs = c.refs
  BY DEF IsCur
<1> QED BY <1>1, <1>2, <1>3, <1>4, <1>5, <1>6, <1>7, <1>8, <1>9

(* SameRefsCur: what is read is an object or slice stack.                  *)
LEMMA SameRefsCur == \A c, c2 : SameRefs(c2, c) => IsCur(c2)
BY DEF SameRefs

(* SameRefsTwice: one change after the other.                              *)
LEMMA SameRefsTwice ==
  ASSUME NEW a, NEW b, NEW c, SameRefs(b, a), SameRefs(c, b)
  PROVE  SameRefs(c, a)
BY DEF SameRefs

(* SameRefsGood: good references stay good.                                *)
LEMMA SameRefsGood ==
  ASSUME NEW c, NEW c2, NEW m, NEW m2, GoodCur(c, m), Keeps(m2, m), SameRefs(c2, c)
  PROVE  GoodCur(c2, m2)
BY KeptReferences DEF GoodCur, SameRefs

(* WorkIsGood: the part of AtWork about what is being read.                *)
LEMMA WorkIsGood ==
  ASSUME Working
  PROVE  GoodCur(cur, model) /\ IsCur(cur) /\ IsModel(model)
BY DEF Working, AtWork, GoodCur, Consistent

(* SameModel: a step that leaves the model alone.                          *)
LEMMA SameModel ==
  ASSUME Working, model' = model
  PROVE  Consistent(model') /\ Keeps(model', model) /\ SameMissing(model', model)
BY DEF Working, Keeps, SameMissing

(***************************************************************************)
(* A node that has taken no ID for what is read in it returns.             *)
(***************************************************************************)
Leaves ==
  /\ frames # <<>> /\ (frames' = Popped \/ \E x : frames' = PoppedSeeing(x))
  /\ Top.kind \notin Pending

(* LeavesIs: it is the innermost node.                                     *)
LEMMA LeavesIs ==
  ASSUME Frames(frames), frames # <<>>, frames' = Popped \/ \E x : frames' = PoppedSeeing(x)
  PROVE  Shorter(frames', frames)
BY ShorterFrames, SeeingFrames, Zenon DEF Popped, PoppedSeeing

(* Leaving: a node returns, or an end tag is passed over.                  *)
LEMMA Leaving ==
  ASSUME Working, Leaves \/ frames' = frames, GoodCur(cur', model'),
         (cur'.id = cur.id /\ cur'.kind = cur.kind) \/ ~Unfinished(frames),
         Consistent(model'), Keeps(model', model), SameMissing(model', model)
  PROVE  Worked
<1>1. frames' = frames \/ (Shorter(frames', frames) /\ frames[Len(frames)].kind \notin Pending)
  BY LeavesIs DEF Leaves, Working, Top
<1>2. AtWork(Part, frames, cur, model)
  BY DEF Working
<1>3. AtWork(Part, frames', cur', model')
  BY <1>1, <1>2, WorkKept
<1> QED BY <1>3 DEF Worked

(* LeavingOnly: and nothing changes in the model.                          *)
LEMMA LeavingOnly ==
  ASSUME Working, Leaves \/ frames' = frames, SameRefs(cur', cur), model' = model
  PROVE  Worked
<1>1. Consistent(model') /\ Keeps(model', model) /\ SameMissing(model', model)
  BY SameModel
<1>2. GoodCur(cur', model')
  BY <1>1, WorkIsGood, SameRefsGood
<1> QED BY <1>1, <1>2, Leaving DEF SameRefs

(* CurSame: a cur that stays.                                              *)
LEMMA CurSame ==
  ASSUME Working, cur' = cur
  PROVE  SameRefs(cur', cur)
BY WorkIsGood DEF SameRefs

(* PlainClosers: nodes without a trace in the model.                       *)
LEMMA PlainClosers ==
  ASSUME Working, CloseModel \/ CloseBeam \/ CloseMetaDataGroup \/ ClosePlain \/ PassOverEnd
  PROVE  Fails \/ Worked
<1>1. Closes => frames # <<>>
  BY DEF Closes
<1>2. {"Model", "Beam", "MetaDataGroup"} \cap Pending = {} /\ Pending \subseteq Closers
  BY DEF Pending, Geometries, Closers
<1>3. Fails \/ (cur' = cur /\ model' = model /\ (Leaves \/ frames' = frames))
  <2>1. CASE CloseModel
    BY <1>1, <1>2, <2>1, HandleFacts DEF CloseModel, Does, Leaves
  <2>2. CASE CloseBeam
    BY <1>1, <1>2, <2>2, HandleFacts DEF CloseBeam, Does, Leaves
  <2>3. CASE CloseMetaDataGroup
    BY <1>1, <1>2, <2>3, HandleFacts DEF CloseMetaDataGroup, Does, Leaves
  <2>4. CASE ClosePlain
    BY <1>1, <1>2, <2>4, HandleFacts DEF ClosePlain, Does, Leaves
  <2>5. CASE PassOverEnd
    BY <2>5, HandleFacts DEF PassOverEnd, Does
  <2> QED BY <2>1, <2>2, <2>3, <2>4, <2>5
<1> QED BY <1>3, CurSame, LeavingOnly

(* VertexCloses: the mesh or slice has a vertex.                           *)
LEMMA VertexCloses ==
  ASSUME Working, CloseVertex
  PROVE  Fails \/ Worked
<1>1. {"Vertex", "ZVertex", "Vertex093", "SliceVertex"} \cap Pending = {}
  BY DEF Pending, Geometries
<1>2. SUFFICES ASSUME ~Fails PROVE Worked
  OBVIOUS
<1>3. /\ frames # <<>> /\ Top.kind \in {"Vertex", "ZVertex", "Vertex093", "SliceVertex"}
      /\ frames' = Popped /\ model' = model /\ cur' = [cur EXCEPT !.nodes = TRUE]
  BY <1>2, Zenon DEF CloseVertex, Closes, Handle, Fails
<1>4. SameRefs(cur', cur)
  BY <1>3, CurWith, WorkIsGood, Zenon
<1> QED BY <1>1, <1>3, <1>4, LeavingOnly DEF Leaves

(* TrianglesClose: the mesh may get the property of its triangles.         *)
LEMMA TrianglesClose ==
  ASSUME Working, CloseTriangles
  PROVE  Fails \/ Worked
<1>1. "Triangles" \notin Pending
  BY DEF Pending, Geometries
<1>2. SUFFICES ASSUME ~Fails PROVE Worked
  OBVIOUS
<1> DEFINE adopts == cur.meshpid = 0 /\ cur.used # 0
           c1 == [cur EXCEPT !.used = 0]
           c2 == [c1 EXCEPT !.meshpid = IF adopts THEN cur.used ELSE cur.meshpid]
           c3 == [c2 EXCEPT !.index = IF adopts THEN 0 ELSE cur.index]
<1>3. /\ frames # <<>> /\ Top.kind = "Triangles" /\ frames' = Popped /\ model' = model
      /\ cur' = [cur EXCEPT !.used = 0, !.meshpid = IF adopts THEN cur.used ELSE @,
                            !.index = IF adopts THEN 0 ELSE @]
  BY <1>2, Zenon DEF CloseTriangles, Closes, Handle, Fails
<1>4. cur' = c3
  BY <1>3, Zenon
<1>5. (IF adopts THEN 0 ELSE cur.index) \in Nat
  BY WorkIsGood DEF IsCur
<1> HIDE DEF adopts
<1>6. SameRefs(c1, cur)
  BY CurWith, WorkIsGood
<1> HIDE DEF c1
<1>7. SameRefs(c2, c1)
  BY <1>6, CurWith, SameRefsCur, Zenon
<1> HIDE DEF c2
<1>8. SameRefs(c3, c2)
  BY <1>5, <1>7, CurWith, SameRefsCur, Zenon
<1> HIDE DEF c3
<1>9. SameRefs(cur', cur)
  BY <1>4, <1>6, <1>7, <1>8, SameRefsTwice
<1> QED BY <1>1, <1>3, <1>9, LeavingOnly DEF Leaves

(* LatticeCloses: the object remembers the meshes its lattice names.       *)
LEMMA LatticeCloses ==
  ASSUME Working, CloseBeamLattice
  PROVE  Fails \/ Worked
<1>1. "BeamLattice" \notin Pending
  BY DEF Pending, Geometries
<1>2. SUFFICES ASSUME ~Fails PROVE Worked
  OBVIOUS
<1> DEFINE c1 == [cur EXCEPT !.clip = Top.val.ref]
           c2 == [c1 EXCEPT !.rep = Top.val.ref2]
<1>3. /\ frames # <<>> /\ Top.kind = "BeamLattice" /\ frames' = Popped /\ model' = model
      /\ cur' = [cur EXCEPT !.clip = Top.val.ref, !.rep = Top.val.ref2]
  BY <1>2, Zenon DEF CloseBeamLattice, Closes, Handle, Fails
<1>4. cur' = c2
  BY <1>3, Zenon
<1>5. SameRefs(c1, cur)
  BY CurWith, WorkIsGood
<1> HIDE DEF c1
<1>6. SameRefs(c2, c1)
  BY <1>5, CurWith, SameRefsCur, Zenon
<1> HIDE DEF c2
<1>7. SameRefs(cur', cur)
  BY <1>4, <1>5, <1>6, SameRefsTwice
<1> QED BY <1>1, <1>3, <1>7, LeavingOnly DEF Leaves

(* IsIn: what the handlers look up.                                        *)
LEMMA IsIn == \A t, kinds : Is(t, kinds) <=> In(model, t, kinds)
BY DEF Is, Has, In

(* TopFrame: the innermost node.                                           *)
LEMMA TopFrame ==
  ASSUME Frames(frames), frames # <<>>
  PROVE  /\ Len(frames) \in DOMAIN frames /\ IsFrame(Top) /\ Top.val \in Values
         /\ Len(frames) \in Nat \ {0}
<1>1. Len(frames) \in Nat \ {0} /\ Len(frames) \in DOMAIN frames
  BY ShorterFrames DEF Shorter
<1> QED BY <1>1 DEF Frames, IsFrame, Top

(* CountIsGroup: only property groups have properties.                     *)
LEMMA CountIsGroup ==
  ASSUME Working, NEW index \in Nat, NEW t, index < Count(t)
  PROVE  In(model, t, Groups)
<1>1. Has(t)
  BY DEF Count
<1>2. model.res[t].n # 0
  BY <1>1 DEF Count
<1> QED BY <1>1, <1>2 DEF Has, In, Working, Consistent, IsSound

(* MoreRefs: good references are added to what is read.                    *)
LEMMA MoreRefs ==
  ASSUME NEW c, NEW m, GoodCur(c, m), NEW c2, IsCur(c2), NEW X, c2.refs = c.refs \cup X,
         \A r \in X : r[1] \in CurRoles /\ Resolves(m, r)
  PROVE  GoodCur(c2, m)
BY DEF GoodCur

(* LeavingRefs: a node returns and has given what is read a reference.     *)
LEMMA LeavingRefs ==
  ASSUME Working, Leaves, NEW X, RefsAre(cur', cur, cur.refs \cup X), model' = model,
         \A r \in X : r[1] \in CurRoles /\ Resolves(model, r)
  PROVE  Worked
<1>1. Consistent(model') /\ Keeps(model', model) /\ SameMissing(model', model)
  BY SameModel
<1>2. GoodCur(cur', model)
  BY WorkIsGood, MoreRefs DEF RefsAre
<1> QED BY <1>1, <1>2, Leaving DEF RefsAre

(* TriangleCloses: a triangle may have a property of its own.              *)
LEMMA TriangleCloses ==
  ASSUME Working, CloseTriangle
  PROVE  Fails \/ Worked
<1>1. {"Triangle", "ZTriangle"} \cap Pending = {}
  BY DEF Pending, Geometries
<1>2. SUFFICES ASSUME ~Fails PROVE Worked
  OBVIOUS
<1> DEFINE own == Top.kind = "Triangle" /\ Top.val.ref # 0
           pid == IF own THEN Top.val.ref ELSE cur.meshpid
           index == IF own THEN Top.val.index ELSE cur.index
           target == <<Part, pid>>
           maps == pid # 0 /\ index < Count(target)
           X == IF maps THEN {<<"property", target>>} ELSE {}
           c1 == [cur EXCEPT !.used = IF pid # 0 THEN pid ELSE cur.used]
           c2 == [c1 EXCEPT !.refs = IF maps THEN cur.refs \cup {<<"property", target>>} ELSE cur.refs]
<1>3. /\ frames # <<>> /\ Top.kind \in {"Triangle", "ZTriangle"} /\ frames' = Popped
      /\ model' = model
      /\ cur' = [cur EXCEPT !.used = IF pid # 0 THEN pid ELSE @,
                            !.refs = IF maps THEN @ \cup {<<"property", target>>} ELSE @]
  BY <1>2, Zenon DEF CloseTriangle, Closes, Handle, Fails
<1>4. cur' = c2
  BY <1>3, Zenon
<1>5. index \in Nat
  <2>1. Top.val \in Values /\ IsCur(cur)
    BY <1>3, TopFrame, WorkIsGood DEF Working
  <2>2. Top.val.index \in Nat /\ cur.index \in Nat
    BY <2>1 DEF Values, IsCur
  <2> QED BY <2>2, Zenon
<1> HIDE DEF index, pid
<1>6. maps => In(model, target, Groups)
  BY <1>5, CountIsGroup
<1> HIDE DEF maps, target
<1>7. \A r \in X : r[1] \in CurRoles /\ Resolves(model, r)
  BY <1>6, RoleKinds DEF Resolves, CurRoles
<1>8. SameRefs(c1, cur)
  BY CurWith, WorkIsGood
<1> HIDE DEF c1
<1> DEFINE refs == IF maps THEN cur.refs \cup {<<"property", target>>} ELSE cur.refs
<1>9. refs = cur.refs \cup X
  OBVIOUS
<1> HIDE DEF X, refs
<1>10. RefsAre(c2, c1, refs)
  BY <1>8, CurWith, SameRefsCur, Zenon DEF refs
<1> HIDE DEF c2
<1>11. RefsAre(cur', cur, cur.refs \cup X)
  BY <1>4, <1>8, <1>9, <1>10 DEF RefsAre, SameRefs
<1> QED BY <1>1, <1>3, <1>7, <1>11, LeavingRefs DEF Leaves

(* ComponentCloses: a component is an object of the model.                 *)
LEMMA ComponentCloses ==
  ASSUME Working, CloseComponent
  PROVE  Fails \/ Worked
<1>1. {"Component", "Component093"} \cap Pending = {}
  BY DEF Pending, Geometries
<1>2. SUFFICES ASSUME ~Fails PROVE Worked
  OBVIOUS
<1> DEFINE target == RefID(Top.kind, Top.val)
           X == {<<"component", target>>}
<1>3. /\ frames # <<>> /\ Top.kind \in {"Component", "Component093"} /\ frames' = Popped
      /\ model' = model /\ cur' = [cur EXCEPT !.refs = @ \cup X]
      /\ "throw" \notin {Top.late} \cup Cost(Reaches(target), "throw")
  BY <1>2, HandleFacts DEF CloseComponent, Closes, Does
<1>4. In(model, target, Objects)
  BY <1>3, PaidCosts, IsIn DEF Reaches
<1> HIDE DEF target
<1>5. \A r \in X : r[1] \in CurRoles /\ Resolves(model, r)
  BY <1>4, RoleKinds DEF Resolves, CurRoles
<1> HIDE DEF X
<1>6. RefsAre(cur', cur, cur.refs \cup X)
  BY <1>3, CurWith, WorkIsGood, Zenon
<1> QED BY <1>1, <1>3, <1>5, <1>6, LeavingRefs DEF Leaves

(* SliceRefCloses: a slice reference is to a slice stack of the model.     *)
LEMMA SliceRefCloses ==
  ASSUME Working, CloseSliceRef
  PROVE  Fails \/ Worked
<1>1. "SliceRef" \notin Pending
  BY DEF Pending, Geometries
<1>2. SUFFICES ASSUME ~Fails PROVE Worked
  OBVIOUS
<1> DEFINE target == RefID(Top.kind, Top.val)
           X == {<<"sliceref", target>>}
<1>3. /\ frames # <<>> /\ Top.kind = "SliceRef" /\ frames' = Popped
      /\ model' = model /\ cur' = [cur EXCEPT !.refs = @ \cup X]
      /\ "throw" \notin {Top.late} \cup Cost(Is(target, {"SliceStack"}) /\ model.res[target].refs = {},
                                             "throw")
  BY <1>2, HandleFacts DEF CloseSliceRef, Closes, Does
<1>4. In(model, target, {"SliceStack"})
  BY <1>3, PaidCosts, IsIn
<1> HIDE DEF target
<1>5. \A r \in X : r[1] \in CurRoles /\ Resolves(model, r)
  BY <1>4, RoleKinds DEF Resolves, CurRoles
<1> HIDE DEF X
<1>6. RefsAre(cur', cur, cur.refs \cup X)
  BY <1>3, CurWith, WorkIsGood, Zenon
<1> QED BY <1>1, <1>3, <1>5, <1>6, LeavingRefs DEF Leaves

(***************************************************************************)
(* The model m2 has the resources of m.                                    *)
(***************************************************************************)
SameTable(m2, m, known, items) ==
  IsModel(m2) /\ m2.res = m.res /\ m2.known = known /\ m2.items = items

(* ModelWith: changes of a single field of the model.                      *)
LEMMA ModelWith ==
  ASSUME NEW m, IsModel(m), NEW v
  PROVE  /\ SameTable([m EXCEPT !.items = v], m, m.known, v)
         /\ SameTable([m EXCEPT !.meta = v], m, m.known, m.items)
         /\ SameTable([m EXCEPT !.known = v], m, v, m.items)
<1>1. m = [res |-> m.res, known |-> m.known, items |-> m.items, meta |-> m.meta]
  BY Zenon DEF IsModel
<1>2. /\ [m EXCEPT !.items = v]
           = [res |-> m.res, known |-> m.known, items |-> v, meta |-> m.meta]
      /\ [m EXCEPT !.meta = v]
           = [res |-> m.res, known |-> m.known, items |-> m.items, meta |-> v]
      /\ [m EXCEPT !.known = v]
           = [res |-> m.res, known |-> v, items |-> m.items, meta |-> m.meta]
  BY ONLY <1>1
<1>3. ASSUME NEW m2, NEW known, NEW items, NEW meta,
             m2 = [res |-> m.res, known |-> known, items |-> items, meta |-> meta]
      PROVE  SameTable(m2, m, known, items)
  <2>1. m2.res = m.res /\ m2.known = known /\ m2.items = items /\ m2.meta = meta
    BY <1>3
  <2>2. \A t \in DOMAIN m.res : IsResource(m.res[t])
    BY DEF IsModel
  <2> QED BY <1>3, <2>1, <2>2, Zenon DEF IsModel, SameTable
<1> QED BY <1>2, <1>3, Zenon

(* MetaDataCloses: metadata of the model are kept in it.                   *)
LEMMA MetaDataCloses ==
  ASSUME Working, CloseMetaData
  PROVE  Fails \/ Worked
<1>1. "MetaData" \notin Pending
  BY DEF Pending, Geometries
<1>2. SUFFICES ASSUME ~Fails PROVE Worked
  OBVIOUS
<1>3. /\ frames # <<>> /\ Top.kind = "MetaData" /\ cur' = cur
      /\ frames' = Popped \/ \E x : frames' = PoppedSeeing(x)
      /\ model' = model \/ \E x : model' = [model EXCEPT !.meta = x]
  BY <1>2, Zenon DEF CloseMetaData, Closes, Handle, Fails
<1>4. Leaves
  BY <1>1, <1>3 DEF Leaves
<1>5. CASE model' = model
  BY <1>3, <1>4, <1>5, CurSame, LeavingOnly
<1>6. ASSUME NEW x, model' = [model EXCEPT !.meta = x] PROVE Worked
  <2>1. IsModel(model') /\ model'.res = model.res /\ model'.known = model.known
        /\ model'.items = model.items
    <3>1. SameTable(model', model, model.known, model.items)
      BY <1>6, ModelWith, WorkIsGood, Zenon
    <3> QED BY <3>1 DEF SameTable
  <2>2. Consistent(model)
    BY DEF Working
  <2>3. \A i \in model'.items : In(model', i.object, Objects) /\ (i.part = Root \/ i.old)
    BY <2>1, <2>2 DEF Consistent, In
  <2>4. Consistent(model') /\ Keeps(model', model)
    BY <2>1, <2>2, <2>3, SameResources
  <2>5. SameMissing(model', model)
    BY <2>1 DEF SameMissing
  <2>6. GoodCur(cur', model')
    BY <1>3, <2>4, WorkIsGood, CurSame, SameRefsGood
  <2> QED BY <1>3, <1>4, <2>4, <2>5, <2>6, Leaving
<1> QED BY <1>3, <1>5, <1>6

(* BuildItemCloses: a build item is an object of the model, and a new one  *)
(* of a part besides the root part comes from a 0.93 build.                *)
LEMMA BuildItemCloses ==
  ASSUME Working, CloseBuildItem
  PROVE  Fails \/ Worked
<1>1. {"BuildItem", "BuildItem093"} \cap Pending = {}
  BY DEF Pending, Geometries
<1>2. SUFFICES ASSUME ~Fails PROVE Worked
  OBVIOUS
<1> DEFINE target == RefID(Top.kind, Top.val)
           old == Top.kind = "BuildItem093"
           item == [part |-> Part, object |-> target, old |-> old]
<1>3. /\ frames # <<>> /\ Top.kind \in {"BuildItem", "BuildItem093"} /\ frames' = Popped
      /\ cur' = cur /\ model' = [model EXCEPT !.items = @ \cup {item}]
      /\ "throw" \notin {Top.late} \cup Cost(Reaches(target), "throw")
  BY <1>2, HandleFacts DEF CloseBuildItem, Closes, Does
<1>4. In(model, target, Objects)
  BY <1>3, PaidCosts, IsIn DEF Reaches
<1>5. old \/ Part = Root
  <2>1. Len(frames) \in DOMAIN frames
    BY <1>3, TopFrame DEF Working
  <2> QED BY <1>3, <2>1 DEF Working, AtWork, Top
<1> HIDE DEF old
<1>6. item.object = target /\ item.part = Part /\ item.old = old
  BY Zenon
<1> HIDE DEF item
<1> DEFINE items == model.items \cup {item}
<1>7. IsModel(model') /\ model'.res = model.res /\ model'.known = model.known
      /\ model'.items = items
  <2> HIDE DEF items
  <2>1. model' = [model EXCEPT !.items = items]
    BY <1>3 DEF items
  <2>2. SameTable(model', model, model.known, items)
    BY <2>1, ModelWith, WorkIsGood, Zenon
  <2> QED BY <2>2 DEF SameTable
<1>8. Consistent(model)
  BY DEF Working
<1>9. \A i \in model'.items : In(model', i.object, Objects) /\ (i.part = Root \/ i.old)
  <2>1. \A i \in model.items : In(model', i.object, Objects) /\ (i.part = Root \/ i.old)
    BY <1>7, <1>8, Zenon DEF Consistent, In
  <2>2. In(model', item.object, Objects) /\ (item.part = Root \/ item.old)
    BY <1>4, <1>5, <1>6, <1>7, Zenon DEF In
  <2>3. \A i \in model'.items : i \in model.items \/ i = item
    BY <1>7
  <2> QED BY <2>1, <2>2, <2>3, Zenon
<1>10. Consistent(model') /\ Keeps(model', model)
  BY <1>7, <1>8, <1>9, SameResources
<1>11. SameMissing(model', model)
  BY <1>7 DEF SameMissing
<1>12. GoodCur(cur', model')
  BY <1>3, <1>10, WorkIsGood, CurSame, SameRefsGood
<1> QED BY <1>1, <1>3, <1>10, <1>11, <1>12, Leaving DEF Leaves

(* NoResourceIs: nothing is being read.                                    *)
LEMMA NoResourceIs == IsCur(NoResource) /\ \A m : GoodCur(NoResource, m)
<1> DEFINE e == ""
           f == FALSE
<1>1. NoResource = [id |-> 0, kind |-> e, refs |-> {}, nodes |-> f, slices |-> f,
                    pid |-> 0, meshpid |-> 0, index0 |-> 0, index |-> 0, used |-> 0, stack |-> 0,
                    clip |-> 0, rep |-> 0]
  BY Zenon DEF NoResource
<1> HIDE DEF e, f
<1>2. IsCur(NoResource) /\ NoResource.refs = {}
  BY <1>1 DEF IsCur
<1> QED BY <1>2 DEF GoodCur

(* ObjectCloses: nothing is being read between two objects.                *)
LEMMA ObjectCloses ==
  ASSUME Working, CloseObject
  PROVE  Fails \/ Worked
<1>1. {"Object", "Object093"} \cap Pending = {}
  BY DEF Pending, Geometries
<1>2. SUFFICES ASSUME ~Fails PROVE Worked
  OBVIOUS
<1>3. /\ frames # <<>> /\ Top.kind \in {"Object", "Object093"} /\ frames' = Popped
      /\ cur' = NoResource /\ model' = model
  BY <1>2, HandleFacts DEF CloseObject, Closes, Does
<1>4. ~Unfinished(frames)
  BY <1>3, NothingUnfinished DEF Working, Top
<1>5. GoodCur(cur', model')
  BY <1>3, NoResourceIs
<1> QED BY <1>1, <1>3, <1>4, <1>5, SameModel, Leaving DEF Leaves

(* ParentIsGroup: the group of a property is in the model.                 *)
LEMMA ParentIsGroup ==
  ASSUME Working, frames # <<>>, Top.kind \in Properties
  PROVE  In(model, OwnID(Parent.kind, Parent.val), Groups)
<1> DEFINE n == Len(frames)
<1>1. n \in DOMAIN frames /\ Frames(frames) /\ Nested(frames)
  BY TopFrame DEF Working
<1>2. n # 1
  <2>1. "Model" \notin Properties
    BY DEF Properties
  <2> QED BY <1>1, <2>1, FirstNode DEF Top
<1>3. n - 1 \in DOMAIN frames /\ Placed(Parent.kind, Top.kind)
  BY <1>1, <1>2, FirstNode DEF Top, Parent
<1>4. Parent.kind \in Groups
  BY <1>3 DEF Placed
<1> QED BY <1>3, <1>4 DEF Working, AtWork, OwnID, Parent

(* PropertyCloses: the property joins its group.                           *)
LEMMA PropertyCloses ==
  ASSUME Working, CloseProperty
  PROVE  Fails \/ Worked
<1>1. Properties \cap Pending = {}
  BY DEF Pending, Geometries, Properties
<1>2. SUFFICES ASSUME ~Fails PROVE Worked
  OBVIOUS
<1> DEFINE group == OwnID(Parent.kind, Parent.val)
<1>3. /\ frames # <<>> /\ Top.kind \in Properties /\ frames' = Popped
      /\ cur' = cur /\ model' = [model EXCEPT !.res[group].n = @ + 1]
  BY <1>2, HandleFacts DEF CloseProperty, Closes, Does
<1>4. In(model, group, Groups)
  BY <1>3, ParentIsGroup
<1> HIDE DEF group
<1>5. Consistent(model)
  BY DEF Working
<1>6. /\ Consistent(model') /\ Keeps(model', model) /\ model'.known = model.known
      /\ DOMAIN model'.res = DOMAIN model.res
  BY <1>3, <1>4, <1>5, MoreProperties
<1>7. SameMissing(model', model)
  BY <1>6 DEF SameMissing
<1>8. GoodCur(cur', model')
  BY <1>3, <1>6, WorkIsGood, CurSame, SameRefsGood
<1> QED BY <1>1, <1>3, <1>6, <1>7, <1>8, Leaving DEF Leaves

(* Adding: a resource with a new ID joins the model at once.               *)
LEMMA Adding ==
  ASSUME Working, NEW own, ~Known(own), NEW r, IsResource(r),
         model' = [model EXCEPT !.known = @ \cup {own}, !.res = WithResource(@, own, r)],
         \A x \in r.refs : /\ Resolves(model, x)
                           /\ x[1] = "Tex2DGroup" => r.kind = "Tex2DGroup",
         r.n # 0 => r.kind \in Groups
  PROVE  /\ Consistent(model') /\ Keeps(model', model) /\ SameMissing(model', model)
         /\ In(model', own, {r.kind})
<1>1. Consistent(model) /\ IsModel(model) /\ own \notin model.known /\ own \notin DOMAIN model.res
  BY DEF Working, Known, Consistent
<1>2. Adds(model', model, own, r)
  <2> DEFINE known == model.known \cup {own}
  <2>1. model' = [model EXCEPT !.known = known, !.res = WithResource(@, own, r)]
    BY Zenon
  <2>2. known = model.known \cup {own}
    BY Zenon
  <2> DEFINE m2 == [model EXCEPT !.known = known, !.res = WithResource(@, own, r)]
  <2> HIDE DEF known
  <2>3. IsModel(model) /\ own \notin DOMAIN model.res /\ IsResource(r)
    BY <1>1
  <2>4. Adds(m2, model, own, r)
    BY ONLY <2>2, <2>3, AddsResource
  <2> QED BY <2>1, <2>4, Zenon
<1>3. Keeps(model', model)
  BY <1>2, AddKeeps
<1>4. \A x \in r.refs : Resolves(model', x)
  BY <1>3, KeptReferences
<1>5. Consistent(model')
  BY <1>1, <1>2, <1>4, AddResource
<1>6. SameMissing(model', model)
  BY <1>1, <1>2 DEF Adds, SameMissing
<1>7. In(model', own, {r.kind})
  BY <1>2 DEF Adds, In
<1> QED BY <1>3, <1>5, <1>6, <1>7

(* Material093Closes: a 0.93 material is a group with one property.        *)
LEMMA Material093Closes ==
  ASSUME Working, CloseMaterial093
  PROVE  Fails \/ Worked
<1>1. "Material093" \notin Pending
  BY DEF Pending, Geometries
<1>2. SUFFICES ASSUME ~Fails PROVE Worked
  OBVIOUS
<1> DEFINE own == OwnID(Top.kind, Top.val)
           r == [kind |-> "BaseMaterials", n |-> 1, refs |-> {}]
<1>3. /\ frames # <<>> /\ Top.kind = "Material093" /\ frames' = Popped /\ cur' = cur
      /\ model' = [model EXCEPT !.known = @ \cup {own}, !.res = WithResource(@, own, r)]
      /\ "throw" \notin {Top.late} \cup Cost(~Known(own), "throw")
  BY <1>2, HandleFacts DEF CloseMaterial093, Closes, Does
<1>4. ~Known(own)
  BY <1>3, PaidCosts, Zenon
<1>5. IsResource(r) /\ r.refs = {} /\ r.kind \in Groups
  BY DEF IsResource, Groups
<1> HIDE DEF own, r
<1>6. Consistent(model') /\ Keeps(model', model) /\ SameMissing(model', model)
  BY <1>3, <1>4, <1>5, Adding
<1>7. GoodCur(cur', model')
  BY <1>3, <1>6, WorkIsGood, CurSame, SameRefsGood
<1> QED BY <1>1, <1>3, <1>6, <1>7, Leaving DEF Leaves

(* Triangle093Closes: a texture group is made up once for a texture.       *)
LEMMA Triangle093Closes ==
  ASSUME Working, CloseTriangle093
  PROVE  Fails \/ Worked
<1>1. "Triangle093" \notin Pending
  BY DEF Pending, Geometries
<1>2. SUFFICES ASSUME ~Fails PROVE Worked
  OBVIOUS
<1> DEFINE texture == <<Part, Top.val.ref2 + 1>>
           material == RefID("Triangle093", Top.val)
           textured == Top.val.ref2 >= 0
           users == {t \in DOMAIN model.res : <<"Tex2DGroup", texture>> \in model.res[t].refs}
           groups == {t \in DOMAIN model.res : model.res[t].kind = "Tex2DGroup"}
           group == IF users # {} THEN CHOOSE t \in users : TRUE
                    ELSE <<Part, MadeUpID - Cardinality(groups)>>
           r == [kind |-> "Tex2DGroup", n |-> 0, refs |-> {<<"Tex2DGroup", texture>>}]
           X == IF textured THEN {<<"property", group>>}
                ELSE IF Is(material, {"BaseMaterials"}) THEN {<<"property", material>>} ELSE {}
           looked == textured => Is(texture, {"Texture2D"}) /\ (users # {} \/ ~Known(group))
<1>3. /\ frames # <<>> /\ Top.kind = "Triangle093" /\ frames' = Popped
      /\ cur' = [cur EXCEPT !.refs = @ \cup X]
      /\ model' = IF textured /\ users = {}
                  THEN [model EXCEPT !.known = @ \cup {group}, !.res = WithResource(@, group, r)]
                  ELSE model
      /\ ~Throws({Top.late} \cup Cost(cur.nodes, "throw") \cup Cost(looked, "throw"))
  BY <1>2, Zenon DEF CloseTriangle093, Closes, Handle, Fails
<1>4. looked
  <2>1. "throw" \notin {Top.late} \cup Cost(cur.nodes, "throw") \cup Cost(looked, "throw")
    BY <1>3, Zenon DEF Throws
  <2> QED BY <2>1, PaidCosts, Zenon
<1>5. users # {} => In(model, group, {"Tex2DGroup"})
  <2>1. users # {} => group \in users
    <3> HIDE DEF users
    <3> QED BY Zenon
  <2> HIDE DEF group
  <2>2. \A t \in users : In(model, t, {"Tex2DGroup"})
    BY DEF Working, Consistent, IsSound, In
  <2> QED BY <2>1, <2>2
<1>6. /\ textured => In(model, texture, {"Texture2D"}) /\ (users # {} \/ ~Known(group))
      /\ Is(material, {"BaseMaterials"}) => In(model, material, {"BaseMaterials"})
  BY <1>4, IsIn, Zenon
<1>7. {"Tex2DGroup", "BaseMaterials"} \subseteq Groups
  BY DEF Groups
<1>8. IsResource(r) /\ r.kind = "Tex2DGroup" /\ r.n = 0 /\ r.refs = {<<"Tex2DGroup", texture>>}
  BY DEF IsResource
<1> HIDE DEF group, users, textured, texture, material, looked
<1>9. /\ Consistent(model') /\ Keeps(model', model) /\ SameMissing(model', model)
      /\ textured => In(model', group, {"Tex2DGroup"})
  <2> HIDE DEF r
  <2>1. CASE textured /\ users = {}
    <3>1. \A x \in r.refs : Resolves(model, x) /\ x[1] = "Tex2DGroup"
      BY <1>6, <1>8, <2>1, RoleKinds DEF Resolves
    <3>2. model' = [model EXCEPT !.known = @ \cup {group}, !.res = WithResource(@, group, r)]
      BY <1>3, <2>1, Zenon
    <3>3. ~Known(group)
      BY <1>6, <2>1
    <3> QED BY <1>8, <3>1, <3>2, <3>3, Adding
  <2>2. CASE ~(textured /\ users = {})
    <3>1. model' = model
      BY <1>3, <2>2, Zenon
    <3> QED BY <1>5, <2>2, <3>1, SameModel
  <2> QED BY <2>1, <2>2
<1>10. \A x \in X : x[1] \in CurRoles /\ Resolves(model', x)
  <2>1. \A t, kind : kind \in Groups /\ In(model', t, {kind}) =>
          Resolves(model', <<"property", t>>)
    BY RoleKinds DEF Resolves, In
  <2>2. Is(material, {"BaseMaterials"}) => In(model', material, {"BaseMaterials"})
    BY <1>6, <1>9, KeptReferences, Zenon
  <2>3. \A t : <<"property", t>>[1] \in CurRoles
    BY DEF CurRoles
  <2> QED BY <1>7, <1>9, <2>1, <2>2, <2>3
<1> HIDE DEF X
<1>11. RefsAre(cur', cur, cur.refs \cup X)
  BY <1>3, CurWith, WorkIsGood, Zenon
<1>12. GoodCur(cur', model')
  <2>1. GoodCur(cur, model')
    BY <1>9, WorkIsGood, SameRefsGood DEF SameRefs
  <2> QED BY <1>10, <1>11, <2>1, MoreRefs DEF RefsAre
<1> QED BY <1>1, <1>3, <1>9, <1>11, <1>12, Leaving DEF Leaves, RefsAre

(* PendingID: the ID of what is being read is taken and not in the model.  *)
LEMMA PendingID ==
  ASSUME Working, frames # <<>>, Top.kind \in Pending
  PROVE  <<Part, cur.id>> \in model.known /\ <<Part, cur.id>> \notin DOMAIN model.res
<1>1. Len(frames) \in DOMAIN frames
  BY TopFrame DEF Working
<1>2. Unfinished(frames)
  BY <1>1 DEF Unfinished, Pending, Top
<1>3. model.known \ DOMAIN model.res = {<<Part, cur.id>>}
  BY <1>2 DEF Working, AtWork
<1> QED BY <1>3

(* Completing: the resource joins the model.                               *)
LEMMA Completing ==
  ASSUME Working, frames # <<>>, Top.kind \in Pending, NEW r, IsResource(r),
         model' = [model EXCEPT !.res = WithResource(@, <<Part, cur.id>>, r)]
  PROVE  Adds(model', model, <<Part, cur.id>>, r)
<1> DEFINE own == <<Part, cur.id>>
           res == WithResource(model.res, own, r)
<1>1. own \in model.known /\ own \notin DOMAIN model.res
  BY PendingID
<1>2. model' = [model EXCEPT !.res = res]
  BY Zenon
<1> HIDE DEF own
<1>3. /\ DOMAIN res = DOMAIN model.res \cup {own} /\ res[own] = r
      /\ \A t \in DOMAIN model.res : res[t] = model.res[t]
  BY <1>1 DEF WithResource
<1> HIDE DEF res
<1>4. IsModel(model)
  BY WorkIsGood
<1>5. model' = [res |-> res, known |-> model.known, items |-> model.items, meta |-> model.meta]
  BY <1>2, <1>4 DEF IsModel
<1>6. \A t \in DOMAIN model'.res : IsResource(model'.res[t])
  BY <1>3, <1>4, <1>5 DEF IsModel
<1>7. /\ model'.res = res /\ model'.known = model.known /\ model'.items = model.items
      /\ model.known = model.known \cup {own}
  BY <1>1, <1>5
<1>8. IsModel(model')
  BY <1>5, <1>6, <1>7, Zenon DEF IsModel
<1>9. Adds(model', model, own, r)
  BY <1>3, <1>7, <1>8, Zenon DEF Adds
<1> QED BY <1>9 DEF own

(* Completed: and its references are good.                                 *)
LEMMA Completed ==
  ASSUME Working, frames # <<>>, Top.kind \in Pending, frames' = Popped, NEW r,
         Adds(model', model, <<Part, cur.id>>, r), r.n = 0,
         \A x \in r.refs : /\ Resolves(model', x) /\ x[1] # "Tex2DGroup"
                           /\ x[1] = "component" => Resolves(model, x),
         GoodCur(cur', model')
  PROVE  Worked
<1>1. Consistent(model')
  BY PendingID, AddResource DEF Working
<1>2. Shorter(frames', frames)
  BY LeavesIs DEF Working
<1>3. AtWork(Part, frames', cur', model')
  BY <1>2, WorkDone DEF Working, Top
<1> QED BY <1>1, <1>3 DEF Worked

(* SliceStackCloses: a slice stack joins the model with its references.    *)
LEMMA SliceStackCloses ==
  ASSUME Working, CloseSliceStack
  PROVE  Fails \/ Worked
<1>1. "SliceStack" \in Pending
  BY DEF Pending
<1>2. SUFFICES ASSUME ~Fails PROVE Worked
  OBVIOUS
<1> DEFINE r == [kind |-> "SliceStack", n |-> 0, refs |-> cur.refs]
<1>3. /\ frames # <<>> /\ Top.kind = "SliceStack" /\ frames' = Popped /\ cur' = NoResource
      /\ model' = [model EXCEPT !.res = WithResource(@, <<Part, cur.id>>, r)]
  BY <1>2, Zenon DEF CloseSliceStack, Closes, Handle, Fails
<1>4. IsResource(r) /\ r.n = 0 /\ r.refs = cur.refs
  BY DEF IsResource
<1> HIDE DEF r
<1>5. Adds(model', model, <<Part, cur.id>>, r)
  BY <1>1, <1>3, <1>4, Completing
<1>6. \A x \in r.refs : Resolves(model, x) /\ x[1] # "Tex2DGroup"
  BY <1>4, WorkIsGood DEF GoodCur, CurRoles
<1>7. \A x \in r.refs : Resolves(model', x)
  BY <1>5, <1>6, AddKeeps, KeptReferences
<1>8. GoodCur(cur', model')
  BY <1>3, NoResourceIs
<1> QED BY <1>1, <1>3, <1>4, <1>5, <1>6, <1>7, <1>8, Completed

(* GeometryCloses: an object joins the model once its mesh or components   *)
(* are read, and what it refers to is there.                               *)
LEMMA GeometryCloses ==
  ASSUME Working, CloseGeometry
  PROVE  Fails \/ Worked
<1>1. Geometries \subseteq Pending
  BY DEF Pending
<1>2. SUFFICES ASSUME ~Fails PROVE Worked
  OBVIOUS
<1> DEFINE own == <<Part, cur.id>>
           isMesh == Top.kind = "Mesh"
           At1(id) == <<Part, id>>
           IsObject(id) == At1(id) = own \/ Is(At1(id), Objects)
           meshes == {<<"lattice", At1(id)>> : id \in {i \in {cur.clip, cur.rep} \ {0} : IsObject(i)}}
           property == IF isMesh /\ cur.pid # 0 THEN {<<"property", At1(cur.pid)>>} ELSE {}
           stack == IF cur.stack # 0 THEN {<<"slicestack", At1(cur.stack)>>} ELSE {}
           res == [kind |-> cur.kind, n |-> 0, refs |-> cur.refs \cup meshes \cup property \cup stack]
           indexed == isMesh /\ cur.pid # 0 => cur.index0 < Count(At1(cur.pid))
           stacked == cur.stack # 0 => Is(At1(cur.stack), {"SliceStack"})
           before == {Top.late}
                     \cup Cost(isMesh => \A id \in {cur.clip, cur.rep} \ {0} : IsObject(id), "mand")
           between == Cost(Top.kind = "Components" => cur.pid = 0, "opt")
           costs == before \cup Cost(indexed, "throw") \cup between \cup Cost(stacked, "throw")
<1>3. /\ frames # <<>> /\ Top.kind \in Geometries /\ frames' = Popped /\ cur' = cur
      /\ model' = [model EXCEPT !.res = WithResource(@, own, res)]
      /\ ~Throws(costs)
  BY <1>2, Zenon DEF CloseGeometry, Closes, Handle, Fails
<1>4. indexed /\ stacked
  <2> HIDE DEF before, between
  <2>1. "throw" \notin costs
    BY <1>3, Zenon DEF Throws
  <2>2. stacked /\ "throw" \notin before \cup Cost(indexed, "throw") \cup between
    BY <2>1, PaidCosts, Zenon
  <2>3. "throw" \notin before \cup Cost(indexed, "throw")
    BY <2>2
  <2> QED BY <2>2, <2>3, PaidCosts, Zenon
<1>5. IsResource(res) /\ res.n = 0 /\ res.kind = cur.kind
      /\ res.refs = cur.refs \cup meshes \cup property \cup stack
  <2> HIDE DEF meshes, property, stack
  <2> QED BY DEF IsResource
<1>6. cur.kind \in Objects
  <2>1. Len(frames) \in DOMAIN frames
    BY <1>3, TopFrame DEF Working
  <2> QED BY <1>3, <2>1 DEF Working, AtWork, Top
<1> HIDE DEF res
<1>7. Adds(model', model, own, res)
  BY <1>1, <1>3, <1>5, Completing
<1>8. Keeps(model', model)
  BY <1>7, AddKeeps
<1>9. \A x \in cur.refs : Resolves(model, x) /\ Resolves(model', x) /\ x[1] \in CurRoles
  BY <1>8, WorkIsGood, KeptReferences DEF GoodCur
<1>10. \A x \in meshes : x[1] = "lattice" /\ Resolves(model', x)
  <2> SUFFICES ASSUME NEW x \in meshes PROVE x[1] = "lattice" /\ Resolves(model', x)
    OBVIOUS
  <2>1. PICK id \in {i \in {cur.clip, cur.rep} \ {0} : IsObject(i)} : x = <<"lattice", At1(id)>>
    BY Zenon
  <2>2. IsObject(id)
    BY <2>1, Zenon
  <2>3. x[1] = "lattice" /\ x[2] = At1(id)
    BY <2>1
  <2>4. In(model', own, Objects)
    BY <1>5, <1>6, <1>7 DEF Adds, In
  <2>5. In(model', At1(id), Objects)
    BY <1>8, <2>2, <2>4, IsIn, KeptReferences, Zenon
  <2> QED BY <2>3, <2>5, RoleKinds DEF Resolves
<1>11. \A x \in property : x[1] = "property" /\ Resolves(model', x)
  <2> SUFFICES ASSUME isMesh, cur.pid # 0
               PROVE  Resolves(model', <<"property", At1(cur.pid)>>)
    OBVIOUS
  <2>1. cur.index0 \in Nat
    BY WorkIsGood DEF IsCur
  <2>2. In(model, At1(cur.pid), Groups)
    BY <1>4, <2>1, CountIsGroup
  <2>3. In(model', At1(cur.pid), Groups)
    BY <1>8, <2>2, KeptReferences, Zenon
  <2> QED BY <2>3, RoleKinds DEF Resolves
<1>12. \A x \in stack : x[1] = "slicestack" /\ Resolves(model', x)
  <2> SUFFICES ASSUME cur.stack # 0
               PROVE  Resolves(model', <<"slicestack", At1(cur.stack)>>)
    OBVIOUS
  <2>1. In(model', At1(cur.stack), {"SliceStack"})
    BY <1>4, <1>8, IsIn, KeptReferences, Zenon
  <2> QED BY <2>1, RoleKinds DEF Resolves
<1> HIDE DEF meshes, property, stack
<1>13. \A x \in res.refs : /\ Resolves(model', x) /\ x[1] # "Tex2DGroup"
                           /\ x[1] = "component" => Resolves(model, x)
  BY <1>5, <1>9, <1>10, <1>11, <1>12 DEF CurRoles
<1>14. GoodCur(cur', model')
  BY <1>3, <1>8, WorkIsGood, CurSame, SameRefsGood
<1> QED BY <1>1, <1>3, <1>5, <1>7, <1>13, <1>14, Completed

(* EndElementWorks: whatever node returns.                                 *)
LEMMA EndElementWorks ==
  ASSUME Working, EndElement
  PROVE  Fails \/ Worked
BY PlainClosers, VertexCloses, TriangleCloses, Triangle093Closes, TrianglesClose, LatticeCloses,
   ComponentCloses, BuildItemCloses, GeometryCloses, ObjectCloses, PropertyCloses,
   Material093Closes, SliceRefCloses, SliceStackCloses, MetaDataCloses, Zenon DEF EndElement

(* Opening: a node is opened that takes no ID before its content.          *)
LEMMA Opening ==
  ASSUME Working, NEW tok, NEW kind, frames' = Pushed(kind, tok), kind \notin Pending,
         kind \in Groups => In(model', <<Part, tok.val.id + Shift(kind)>>, Groups),
         kind \in {"Build", "BuildItem"} => Part = Root,
         GoodCur(cur', model'),
         (cur'.id = cur.id /\ cur'.kind = cur.kind) \/ ~Unfinished(frames),
         Consistent(model'), Keeps(model', model), SameMissing(model', model)
  PROVE  Worked
<1>1. Longer(frames', frames, kind, tok)
  BY LongerFrames DEF Working, Pushed
<1>2. AtWork(Part, frames, cur, model)
  BY DEF Working
<1>3. AtWork(Part, frames', cur', model')
  BY <1>1, <1>2, WorkMore
<1> QED BY <1>3 DEF Worked

(* OpeningOnly: and nothing changes in the model.                          *)
LEMMA OpeningOnly ==
  ASSUME Working, NEW tok, NEW kind, frames' = Pushed(kind, tok), kind \notin Pending \cup Groups,
         kind \in {"Build", "BuildItem"} => Part = Root,
         SameRefs(cur', cur), model' = model
  PROVE  Worked
<1>1. Consistent(model') /\ Keeps(model', model) /\ SameMissing(model', model)
  BY SameModel
<1>2. GoodCur(cur', model')
  BY <1>1, WorkIsGood, SameRefsGood
<1> QED BY <1>1, <1>2, Opening DEF SameRefs

(* ChildPlaced: a node that is opened is where it belongs.                 *)
LEMMA ChildPlaced ==
  ASSUME Working, NEW tok, Child(tok) \in Kinds
  PROVE  frames # <<>> /\ Child(tok) = ChildNode(Top.kind, tok.el) /\ Placed(Top.kind, Child(tok))
<1>1. frames # <<>> /\ Child(tok) = ChildNode(Top.kind, tok.el) /\ Child(tok) # ""
  BY NamedChild
<1>2. Top.kind \in Kinds
  BY <1>1, TopFrame DEF Working, IsFrame
<1>3. ChildNode(Top.kind, tok.el) # ""
  BY <1>1, Zenon
<1>4. Placed(Top.kind, ChildNode(Top.kind, tok.el))
  BY <1>2, <1>3, ChildIsPlaced
<1> QED BY <1>1, <1>4, Zenon

(* ModelOpens, PassedOver: nothing changes in the model.                   *)
LEMMA ModelOpens ==
  ASSUME Working, NEW tok, OpenModel(tok)
  PROVE  Fails \/ Worked
<1>1. "Model" \notin Pending \cup Groups
  BY DEF Pending, Geometries, Groups
<1>2. SUFFICES ASSUME ~Fails PROVE Worked
  OBVIOUS
<1>3. frames' = Pushed("Model", tok) /\ cur' = cur /\ model' = model
  BY <1>2, Zenon DEF OpenModel, Handle, Fails
<1> QED BY <1>1, <1>3, CurSame, OpeningOnly

LEMMA PassedOver ==
  ASSUME Working, NEW tok, PassOver(tok)
  PROVE  Fails \/ Worked
<1>1. SUFFICES ASSUME ~Fails PROVE Worked
  OBVIOUS
<1>2. frames' = frames /\ cur' = cur /\ model' = model
  BY <1>1, Zenon DEF PassOver, Handle, Fails
<1> QED BY <1>2, CurSame, LeavingOnly

(* SectionOpens: a build of the core namespace is read in the root part    *)
(* only.                                                                   *)
LEMMA SectionOpens ==
  ASSUME Working, NEW tok, IsToken(tok), OpenSection(tok)
  PROVE  Fails \/ Worked
<1>1. Sections \cap (Pending \cup Groups) = {} /\ "BuildItem" \notin Sections
  BY DEF Sections, Pending, Geometries, Groups
<1>2. SUFFICES ASSUME ~Fails PROVE Worked
  OBVIOUS
<1>3. /\ Child(tok) \in Sections /\ ~Ignored(tok)
      /\ frames' = Pushed(Child(tok), tok) /\ cur' = cur /\ model' = model
  BY <1>2, Zenon DEF OpenSection, Handle, Fails
<1>4. frames # <<>> /\ Child(tok) = ChildNode(Top.kind, tok.el) /\ Top.kind = "Model"
  BY <1>3, OpenedKinds, ChildPlaced DEF Placed
<1>5. ASSUME Child(tok) = "Build" PROVE Part = Root
  <2>1. tok.el = <<tok.el[1], tok.el[2]>>
    BY DEF IsToken
  <2>2. ChildNode("Model", tok.el) = "Build"
    BY <1>4, <1>5, Zenon
  <2>3. tok.el = <<"core", "build">>
    BY <2>1, <2>2, BuildIsCore
  <2> QED BY <1>3, <1>4, <2>3 DEF Ignored
<1>6. Child(tok) \in {"Build", "BuildItem"} => Part = Root
  BY <1>1, <1>3, <1>5
<1> QED BY <1>1, <1>3, <1>6, CurSame, OpeningOnly

(* SliceOpens: a slice starts without vertices.                            *)
LEMMA SliceOpens ==
  ASSUME Working, NEW tok, OpenSlice(tok)
  PROVE  Fails \/ Worked
<1>1. {"Slice", "SliceRef"} \cap (Pending \cup Groups \cup {"Build", "BuildItem"}) = {}
  BY DEF Pending, Geometries, Groups
<1>2. SUFFICES ASSUME ~Fails PROVE Worked
  OBVIOUS
<1> DEFINE c1 == [cur EXCEPT !.slices = TRUE]
           c2 == [c1 EXCEPT !.nodes = FALSE]
<1>3. /\ frames' = Pushed("Slice", tok) \/ frames' = Pushed("SliceRef", tok)
      /\ cur' = cur \/ cur' = [cur EXCEPT !.slices = TRUE, !.nodes = FALSE]
      /\ model' = model
  BY <1>2, Zenon DEF OpenSlice, Handle, Fails
<1>4. cur' = cur \/ cur' = c2
  BY <1>3, Zenon
<1>5. SameRefs(c1, cur)
  BY CurWith, WorkIsGood, Zenon
<1> HIDE DEF c1
<1>6. SameRefs(c2, c1)
  BY <1>5, CurWith, SameRefsCur, Zenon
<1> HIDE DEF c2
<1>7. SameRefs(cur', cur)
  BY <1>4, <1>5, <1>6, CurSame, SameRefsTwice
<1> QED BY <1>1, <1>3, <1>7, OpeningOnly

(* PolygonOpens: a polygon or a segment of one.                            *)
LEMMA PolygonOpens ==
  ASSUME Working, NEW tok, OpenPolygon(tok)
  PROVE  Fails \/ Worked
<1>1. {"Polygon", "Segment"} \cap (Pending \cup Groups \cup {"Build", "BuildItem"}) = {}
  BY DEF Pending, Geometries, Groups
<1>2. SUFFICES ASSUME ~Fails PROVE Worked
  OBVIOUS
<1>3. /\ Child(tok) \in {"Polygon", "Segment"} /\ frames' = Pushed(Child(tok), tok)
      /\ cur' = cur /\ model' = model
  BY <1>2, Zenon DEF OpenPolygon, Handle, Fails
<1> QED BY <1>1, <1>3, CurSame, OpeningOnly

(* PlainOpens: elements without a trace in the model; build items are in a *)
(* build.                                                                  *)
LEMMA PlainOpens ==
  ASSUME Working, NEW tok, OpenPlain(tok)
  PROVE  Fails \/ Worked
<1>1. /\ Pending \cup Groups \subseteq {"SliceStack"} \cup Resources1 \cup Geometries
      /\ "Build" \in Sections /\ "BuildItem" \in Kinds
  BY KindsAre DEF Pending, Resources1, Sections
<1>2. SUFFICES ASSUME ~Fails PROVE Worked
  OBVIOUS
<1>3. /\ Child(tok) \notin {"", "Object", "Object093", "SliceStack", "Slice", "SliceRef",
                            "Polygon", "Segment"} \cup Sections \cup Resources1 \cup Geometries
      /\ frames' = Pushed(Child(tok), tok) /\ cur' = cur /\ model' = model
  BY <1>2, Zenon DEF OpenPlain, Handle, Fails
<1>4. Child(tok) \notin Pending \cup Groups /\ Child(tok) # "Build"
  BY <1>1, <1>3
<1>5. ASSUME Child(tok) = "BuildItem" PROVE Part = Root
  <2>1. frames # <<>> /\ Top.kind = "Build"
    BY <1>1, <1>5, ChildPlaced DEF Placed
  <2>2. Len(frames) \in DOMAIN frames
    BY <2>1, TopFrame DEF Working
  <2> QED BY <2>1, <2>2 DEF Working, AtWork, Top
<1> QED BY <1>3, <1>4, <1>5, CurSame, OpeningOnly

(***************************************************************************)
(* An object or slice stack that refers to nothing yet.                    *)
(***************************************************************************)
IsNew(c) == IsCur(c) /\ c.refs = {}

(* NewCur: and it does not when its attributes are set.                    *)
LEMMA NewCur ==
  ASSUME NEW c, IsNew(c), NEW v
  PROVE  /\ IsNew([c EXCEPT !.id = v]) /\ [c EXCEPT !.id = v].id = v
         /\ IsNew([c EXCEPT !.pid = v]) /\ IsNew([c EXCEPT !.meshpid = v])
         /\ IsNew([c EXCEPT !.stack = v])
         /\ IsNew([c EXCEPT !.kind = v]) /\ [c EXCEPT !.kind = v].id = c.id
         /\ v \in Nat => IsNew([c EXCEPT !.index0 = v]) /\ IsNew([c EXCEPT !.index = v])
<1>1. IsNew([c EXCEPT !.id = v]) /\ [c EXCEPT !.id = v].id = v
  BY DEF IsCur, IsNew
<1>2. IsNew([c EXCEPT !.pid = v])
  BY DEF IsCur, IsNew
<1>3. IsNew([c EXCEPT !.meshpid = v])
  BY DEF IsCur, IsNew
<1>4. IsNew([c EXCEPT !.stack = v])
  BY DEF IsCur, IsNew
<1>5. IsNew([c EXCEPT !.kind = v]) /\ [c EXCEPT !.kind = v].id = c.id
  BY DEF IsCur, IsNew
<1>6. v \in Nat => IsNew([c EXCEPT !.index0 = v])
  BY DEF IsCur, IsNew
<1>7. v \in Nat => IsNew([c EXCEPT !.index = v])
  BY DEF IsCur, IsNew
<1> QED BY <1>1, <1>2, <1>3, <1>4, <1>5, <1>6, <1>7

(* IsNewFacts: what is new has no bad references.                          *)
LEMMA IsNewFacts == IsNew(NoResource) /\ \A c : IsNew(c) => \A m : GoodCur(c, m)
BY NoResourceIs, Zenon DEF IsNew, GoodCur, NoResource

(* ObjectOpens: an object has its attributes and nothing else.             *)
LEMMA ObjectOpens ==
  ASSUME Working, NEW tok, IsToken(tok), OpenObject(tok)
  PROVE  Fails \/ Worked
<1>1. /\ {"Object", "Object093"} \cap (Pending \cup Groups \cup {"Build", "BuildItem"}) = {}
      /\ {"Object", "Object093"} \subseteq Resources2
  BY DEF Pending, Geometries, Groups, Resources2
<1>2. SUFFICES ASSUME ~Fails PROVE Worked
  OBVIOUS
<1> DEFINE kind == Child(tok)
           old == kind = "Object093"
           ref == IF old THEN 0 ELSE tok.val.ref
           c1 == [NoResource EXCEPT !.id = tok.val.id + Shift(kind)]
           c2 == [c1 EXCEPT !.pid = ref]
           c3 == [c2 EXCEPT !.meshpid = ref]
           c4 == [c3 EXCEPT !.index0 = tok.val.index]
           c5 == [c4 EXCEPT !.index = tok.val.index]
           c6 == [c5 EXCEPT !.stack = IF old THEN 0 ELSE tok.val.ref2]
<1>3. /\ kind \in {"Object", "Object093"} /\ frames' = Pushed(kind, tok) /\ model' = model
      /\ cur' = [NoResource EXCEPT !.id = tok.val.id + Shift(kind), !.pid = ref, !.meshpid = ref,
                                   !.index0 = tok.val.index, !.index = tok.val.index,
                                   !.stack = IF old THEN 0 ELSE tok.val.ref2]
  BY <1>2, Zenon DEF OpenObject, Handle, Fails
<1>4. cur' = c6
  BY <1>3, Zenon
<1>5. tok.val.index \in Nat
  BY DEF IsToken, Values
<1> HIDE DEF ref, old
<1>6. IsNew(c1)
  BY NewCur, IsNewFacts
<1> HIDE DEF c1
<1>7. IsNew(c2)
  BY <1>6, NewCur
<1> HIDE DEF c2
<1>8. IsNew(c3)
  BY <1>7, NewCur
<1> HIDE DEF c3
<1>9. IsNew(c4)
  BY <1>5, <1>8, NewCur
<1> HIDE DEF c4
<1>10. IsNew(c5)
  BY <1>5, <1>9, NewCur
<1> HIDE DEF c5
<1>11. IsNew(c6)
  BY <1>10, NewCur
<1> HIDE DEF c6
<1>12. GoodCur(cur', model')
  BY <1>4, <1>11, IsNewFacts
<1>13. frames # <<>> /\ Top.kind \in {"Resources", "Resources093"}
  BY <1>1, <1>3, OpenedKinds, ChildPlaced DEF Placed
<1>14. ~Unfinished(frames)
  BY <1>13, NothingUnfinished DEF Working, Top
<1> QED BY <1>1, <1>3, <1>12, <1>14, SameModel, Opening

(* Beginning: a node is opened that takes an ID for what is read in it.    *)
LEMMA Beginning ==
  ASSUME Working, NEW tok, NEW kind, frames' = Pushed(kind, tok), kind \in Pending,
         ~Unfinished(frames), kind \in Geometries => cur'.kind \in Objects,
         IsCur(cur'), cur'.refs = cur.refs \/ cur'.refs = {},
         NEW own, own = <<Part, cur'.id>>, ~Known(own),
         model' = [model EXCEPT !.known = @ \cup {own}]
  PROVE  Worked
<1> DEFINE known == model.known \cup {own}
<1>1. model'.res = model.res /\ model'.known = known /\ IsModel(model')
      /\ model'.items = model.items
  <2> HIDE DEF known
  <2>1. model' = [model EXCEPT !.known = known]
    BY DEF known
  <2>2. IsModel(model)
    BY WorkIsGood
  <2>3. SameTable([model EXCEPT !.known = known], model, known, model.items)
    BY ONLY <2>2, ModelWith
  <2>4. SameTable(model', model, known, model.items)
    BY <2>1, <2>3, Zenon
  <2> QED BY <2>4 DEF SameTable
<1>2. Consistent(model) /\ AtWork(Part, frames, cur, model) /\ own \notin model.known
  BY DEF Working, Known
<1>3. \A i \in model'.items : In(model', i.object, Objects) /\ (i.part = Root \/ i.old)
  BY <1>1, <1>2 DEF Consistent, In
<1>4. Consistent(model') /\ Keeps(model', model)
  BY <1>1, <1>2, <1>3, SameResources
<1>5. GoodCur(cur', model')
  BY <1>4, WorkIsGood, KeptReferences DEF GoodCur
<1>6. DOMAIN model.res \subseteq model.known
  BY <1>2 DEF Consistent
<1>7. Longer(frames', frames, kind, tok)
  BY LongerFrames DEF Working, Pushed
<1>8. AtWork(Part, frames', cur', model')
  BY <1>1, <1>2, <1>5, <1>6, <1>7, WorkBegun
<1> QED BY <1>4, <1>8 DEF Worked

(* GeometryOpens: an object takes its ID for its mesh or components.       *)
LEMMA GeometryOpens ==
  ASSUME Working, NEW tok, OpenGeometry(tok)
  PROVE  Fails \/ Worked
<1>1. SUFFICES ASSUME ~Fails PROVE Worked
  OBVIOUS
<1> DEFINE kind == Child(tok)
           own == <<Part, cur.id>>
           material == RefID("Object093", Top.val)
           what == IF kind \in {"Mesh", "Mesh093"} THEN "Mesh" ELSE "Components"
           free == cur.kind = "" /\ ~Known(own)
           warn == Cost(kind = "Mesh093" /\ Top.val.ref >= 0 => Is(material, {"BaseMaterials"}),
                        "opt")
<1>2. /\ kind \in Geometries /\ frames' = Pushed(kind, tok)
      /\ cur' = [cur EXCEPT !.kind = what] /\ model' = [model EXCEPT !.known = @ \cup {own}]
      /\ ~Throws({tok.early} \cup Cost(free, "throw") \cup warn)
  BY <1>1, Zenon DEF OpenGeometry, Handle, Fails
<1>3. free
  <2> HIDE DEF warn
  <2>1. "throw" \notin {tok.early} \cup Cost(free, "throw")
    <3> HIDE DEF free
    <3> QED BY <1>2 DEF Throws
  <2> QED BY <2>1, PaidCosts, Zenon
<1>4. what \in Objects
  BY DEF Objects
<1> HIDE DEF what
<1>5. IsCur(cur') /\ cur'.id = cur.id /\ cur'.kind = what /\ cur'.refs = cur.refs
  BY <1>2, CurWith, WorkIsGood, Zenon
<1>6. frames # <<>> /\ Top.kind \in {"Object", "Object093"}
  BY <1>2, OpenedKinds, ChildPlaced DEF Placed
<1>7. ~Unfinished(frames)
  BY <1>6, NothingUnfinished DEF Working, Top
<1>8. kind \in Pending /\ own = <<Part, cur'.id>> /\ ~Known(own)
  BY <1>2, <1>3, <1>5 DEF Pending
<1> HIDE DEF own, kind
<1> QED BY <1>2, <1>4, <1>5, <1>7, <1>8, Beginning

(* SliceStackOpens: a slice stack takes its ID.                            *)
LEMMA SliceStackOpens ==
  ASSUME Working, NEW tok, IsToken(tok), OpenSliceStack(tok)
  PROVE  Fails \/ Worked
<1>1. SUFFICES ASSUME ~Fails PROVE Worked
  OBVIOUS
<1> DEFINE own == OwnID("SliceStack", tok.val)
           c1 == [NoResource EXCEPT !.id = tok.val.id]
           c2 == [c1 EXCEPT !.kind = "SliceStack"]
<1>2. /\ Child(tok) = "SliceStack" /\ frames' = Pushed("SliceStack", tok)
      /\ cur' = [NoResource EXCEPT !.id = tok.val.id, !.kind = "SliceStack"]
      /\ model' = [model EXCEPT !.known = @ \cup {own}]
      /\ ~Throws({tok.early} \cup Cost(~Known(own), "throw"))
  BY <1>1, Zenon DEF OpenSliceStack, Handle, Fails
<1>3. ~Known(own)
  <2>1. "throw" \notin {tok.early} \cup Cost(~Known(own), "throw")
    BY <1>2, Zenon DEF Throws
  <2> QED BY <2>1, PaidCosts, Zenon
<1>4. cur' = c2
  BY <1>2, Zenon
<1>5. IsNew(c1) /\ c1.id = tok.val.id
  <2>1. IsNew(NoResource)
    BY IsNewFacts
  <2> DEFINE id == tok.val.id
  <2>2. IsNew([NoResource EXCEPT !.id = id]) /\ [NoResource EXCEPT !.id = id].id = id
    <3> HIDE DEF id
    <3> QED BY <2>1, NewCur, Zenon
  <2> QED BY <2>2, Zenon
<1> HIDE DEF c1
<1>6. IsNew(c2) /\ c2.id = tok.val.id
  BY <1>5, NewCur
<1> HIDE DEF c2
<1>7. IsCur(cur') /\ cur'.refs = {} /\ cur'.id = tok.val.id
  BY <1>4, <1>6 DEF IsNew
<1>8. own = <<Part, cur'.id>>
  <2>1. tok.val.id \in Int
    BY DEF IsToken, Values
  <2>2. Shift("SliceStack") = 0
    BY DEF Shift, Kinds093
  <2> QED BY <1>7, <2>1, <2>2 DEF OwnID
<1> HIDE DEF own
<1>9. frames # <<>> /\ Top.kind \in {"Resources", "Resources093"}
  <2>1. "SliceStack" \in Resources2
    BY DEF Resources2
  <2> QED BY <1>2, <2>1, OpenedKinds, ChildPlaced DEF Placed
<1>10. ~Unfinished(frames)
  BY <1>9, NothingUnfinished DEF Working, Top
<1>11. "SliceStack" \in Pending /\ "SliceStack" \notin Geometries
  BY DEF Pending, Geometries
<1> QED BY <1>2, <1>3, <1>7, <1>8, <1>10, <1>11, Beginning

(* ResourceOpens: a property group, texture or toolpath joins the model    *)
(* before its content is read; what it refers to is there.                 *)
LEMMA ResourceOpens ==
  ASSUME Working, NEW tok, OpenResource(tok)
  PROVE  Fails \/ Worked
<1>1. /\ Resources1 \cap (Pending \cup {"Build", "BuildItem"}) = {}
      /\ "Texture093" \notin Groups
  BY DEF Resources1, Pending, Geometries, Groups
<1>2. SUFFICES ASSUME ~Fails PROVE Worked
  OBVIOUS
<1> DEFINE kind == Child(tok)
           val == tok.val
           own == OwnID(kind, val)
           ref == RefID(kind, val)
           layers == {<<Part, i>> : i \in {val.ref, val.ref2} \ {0}}
           resolved == CASE kind = "Tex2DGroup" -> Is(ref, {"Texture2D"})
                         [] kind = "CompositeMaterials" ->
                              Is(ref, {"BaseMaterials"}) /\ val.index <= Count(ref)
                         [] kind = "MultiProperties" -> LegalLayers(layers)
                         [] OTHER -> TRUE
           refs == CASE kind = "MultiProperties" -> {<<"layer", t>> : t \in layers}
                     [] kind \in {"Tex2DGroup", "CompositeMaterials"} -> {<<kind, ref>>}
                     [] OTHER -> {}
           what == IF kind = "Texture093" THEN "Texture2D" ELSE kind
           res == [kind |-> what, n |-> 0, refs |-> refs]
           free == resolved /\ ~Known(own)
<1>3. /\ kind \in Resources1 /\ frames' = Pushed(kind, tok) /\ cur' = cur
      /\ model' = [model EXCEPT !.known = @ \cup {own}, !.res = WithResource(@, own, res)]
      /\ ~Throws({tok.early} \cup Cost(free, "throw"))
  BY <1>2, Zenon DEF OpenResource, Handle, Fails
<1>4. free
  <2>1. "throw" \notin {tok.early} \cup Cost(free, "throw")
    <3> HIDE DEF free
    <3> QED BY <1>3, Zenon DEF Throws
  <2> HIDE DEF resolved
  <2> QED BY <2>1, PaidCosts, Zenon
<1>5. ~Known(own)
  <2> HIDE DEF resolved
  <2> QED BY <1>4
<1>6. resolved
  <2> HIDE DEF resolved, own
  <2> QED BY <1>4
<1>7. IsResource(res) /\ res.kind = what /\ res.n = 0 /\ res.refs = refs
  <2> HIDE DEF refs, what
  <2> QED BY DEF IsResource
<1> HIDE DEF res, own
<1>8. \A x \in refs : Resolves(model, x) /\ (x[1] = "Tex2DGroup" => what = "Tex2DGroup")
  <2>1. CASE kind = "Tex2DGroup"
    <3>1. Is(ref, {"Texture2D"}) /\ refs = {<<kind, ref>>}
      BY <1>6, <2>1
    <3> HIDE DEF refs
    <3>2. In(model, ref, {"Texture2D"})
      BY <3>1, IsIn
    <3> HIDE DEF ref
    <3> QED BY <2>1, <3>1, <3>2, RoleKinds DEF Resolves
  <2>2. CASE kind = "CompositeMaterials"
    <3>1. Is(ref, {"BaseMaterials"}) /\ refs = {<<kind, ref>>}
      BY <1>6, <2>2
    <3> HIDE DEF refs
    <3>2. In(model, ref, {"BaseMaterials"})
      BY <3>1, IsIn
    <3> HIDE DEF ref
    <3> QED BY <2>2, <3>1, <3>2, RoleKinds DEF Resolves
  <2>3. CASE kind = "MultiProperties"
    <3>1. LegalLayers(layers) /\ refs = {<<"layer", t>> : t \in layers}
      BY <1>6, <2>3
    <3> HIDE DEF refs, layers
    <3>2. \A t \in layers : In(model, t, Groups \ {"MultiProperties"})
      BY <3>1, IsIn DEF LegalLayers
    <3> QED BY <3>1, <3>2, RoleKinds DEF Resolves
  <2>4. CASE kind \notin {"Tex2DGroup", "CompositeMaterials", "MultiProperties"}
    <3>1. refs = {}
      BY <2>4
    <3> QED BY <3>1
  <2> QED BY <2>1, <2>2, <2>3, <2>4
<1> HIDE DEF refs, resolved, ref, layers
<1>9. /\ Consistent(model') /\ Keeps(model', model) /\ SameMissing(model', model)
      /\ In(model', own, {what})
  BY <1>3, <1>5, <1>7, <1>8, Adding
<1>10. kind \in Groups => In(model', <<Part, tok.val.id + Shift(kind)>>, Groups)
  <2>1. own = <<Part, tok.val.id + Shift(kind)>>
    BY DEF own, OwnID
  <2>2. kind \in Groups => what = kind
    BY <1>1
  <2> HIDE DEF what
  <2> QED BY <1>9, <2>1, <2>2 DEF In
<1>11. GoodCur(cur', model')
  BY <1>3, <1>9, WorkIsGood, CurSame, SameRefsGood
<1>12. kind \notin Pending /\ kind \notin {"Build", "BuildItem"}
  BY <1>1, <1>3
<1> QED BY <1>3, <1>9, <1>10, <1>11, <1>12, Opening

(* StartElementWorks: whatever node is opened.                             *)
LEMMA StartElementWorks ==
  ASSUME Working, NEW tok, IsToken(tok), StartElement(tok)
  PROVE  Fails \/ Worked
BY ModelOpens, PassedOver, SectionOpens, ResourceOpens, ObjectOpens, GeometryOpens,
   SliceStackOpens, SliceOpens, PolygonOpens, PlainOpens, Zenon DEF StartElement

-----------------------------------------------------------------------------
(* The model is consistent at every step. *)

(* ModelStep: every step of the reader in a part.                          *)
LEMMA ModelStep ==
  ASSUME TextInv, ModelInv, SamePart, ReaderStep, status = "reading"
  PROVE  ModelInv'
<1>1. Working
  BY DEF TextInv, ModelInv, Working
<1>2. Part' = Part
  BY DEF SamePart
<1>3. ASSUME Fails PROVE ModelInv'
  <2>1. status' = "failed" /\ model' = model
    BY <1>3 DEF Fails
  <2>2. Consistent(model')
    BY <1>1, <2>1 DEF Working
  <2> QED BY <2>1, <2>2 DEF ModelInv
<1>4. ASSUME Worked, status' = "failed" \/ status' = status PROVE ModelInv'
  BY <1>2, <1>4 DEF ModelInv, Worked
<1>5. ASSUME NEW tok, IsToken(tok), StartElement(tok) PROVE ModelInv'
  <2>1. status' = "failed" \/ status' = status
    BY <1>5, StartElementIs DEF Fails, PassesOver, Opens
  <2> QED BY <1>1, <1>3, <1>4, <1>5, <2>1, StartElementWorks
<1>6. CASE EndElement
  <2>1. status' = "failed" \/ status' = status
    BY <1>6, EndElementIs DEF Fails, Returns, PassesOverEnd
  <2> QED BY <1>1, <1>3, <1>4, <1>6, <2>1, EndElementWorks
<1>7. ASSUME UNCHANGED <<frames, cur, model, status>> PROVE ModelInv'
  BY <1>1, <1>2, <1>7 DEF ModelInv, Working
<1>8. CASE EndOfText
  BY <1>7, <1>8 DEF EndOfText
<1>9. CASE UNCHANGED <<readerVars, open>>
  BY <1>7, <1>9 DEF readerVars
<1> QED BY <1>5, <1>6, <1>8, <1>9 DEF ReaderStep

(* ModelNextPart: between two parts every ID belongs to a resource.        *)
LEMMA ModelNextPart ==
  ASSUME TextInv, ModelInv, NextPart
  PROVE  ModelInv'
<1>1. /\ status = "reading" /\ frames = <<>> /\ frames' = <<>> /\ cur' = NoResource
      /\ model' = model
  BY DEF NextPart
<1>2. Consistent(model) /\ AtWork(Part, frames, cur, model) /\ Frames(frames) /\ Nested(frames)
  BY <1>1 DEF TextInv, ModelInv
<1>3. ~Unfinished(<<>>)
  BY <1>1, <1>2, NothingUnfinished
<1>4. model.known \ DOMAIN model.res = {}
  BY <1>1, <1>2, <1>3 DEF AtWork
<1>5. DOMAIN <<>> = {}
  OBVIOUS
<1>6. \A p : AtWork(p, <<>>, NoResource, model)
  BY <1>3, <1>4, <1>5, NoResourceIs, Zenon DEF AtWork, GoodCur
<1>7. model.known = DOMAIN model.res
  BY <1>2, <1>4 DEF Consistent
<1>8. AtWork(Part', frames', cur', model')
  BY <1>1, <1>6, Zenon
<1>9. Consistent(model') /\ model'.known = DOMAIN model'.res
  BY <1>1, <1>2, <1>7
<1> QED BY <1>8, <1>9 DEF ModelInv

(* ModelNext, ModelInit: the inductive invariant.                          *)
LEMMA ModelNext ==
  ASSUME TextInv, ModelInv, [Reads]_vars
  PROVE  ModelInv'
<1>1. CASE Reads
  BY <1>1, ReadsIs, ModelStep, ModelNextPart
<1>2. CASE UNCHANGED vars
  <2>1. UNCHANGED <<frames, cur, model, status, todo>>
    BY <1>2 DEF vars, readerVars
  <2>2. Part' = Part
    BY <2>1 DEF Part
  <2> QED BY <2>1, <2>2 DEF ModelInv
<1> QED BY <1>1, <1>2

LEMMA ModelInit ==
  ASSUME Init
  PROVE  ModelInv
<1>1. frames = <<>> /\ cur = NoResource /\ model = EmptyModel /\ status = "reading"
  BY DEF Init, ReaderInit
<1>2. /\ EmptyModel.res = <<>> /\ EmptyModel.known = {} /\ EmptyModel.items = {}
      /\ IsModel(EmptyModel)
  BY DEF EmptyModel, IsModel
<1>3. DOMAIN <<>> = {}
  OBVIOUS
<1>4. Consistent(EmptyModel)
  BY <1>2, <1>3 DEF Consistent
<1>5. ~Unfinished(<<>>)
  BY <1>3 DEF Unfinished
<1>6. EmptyModel.known \ DOMAIN EmptyModel.res = {}
  BY <1>2
<1>7. \A p : AtWork(p, <<>>, NoResource, EmptyModel)
  BY <1>3, <1>5, <1>6, NoResourceIs, Zenon DEF AtWork, GoodCur
<1>8. AtWork(Part, frames, cur, model)
  BY <1>1, <1>7, Zenon
<1> QED BY <1>1, <1>4, <1>8 DEF ModelInv

(* ModelInvariance: it holds at every step.                                *)
LEMMA ModelInvariance == Spec => []ModelInv
<1>1. Init => ModelInv
  BY ModelInit
<1>2. (TextInv /\ FollowInv) /\ ModelInv /\ [Reads]_vars => ModelInv'
  BY ModelNext
<1> QED BY <1>1, <1>2, NodesInvariance, PTL DEF Spec

(* InModelIs: the invariant is about the model's own operators.            *)
LEMMA InModelIs ==
  /\ \A S : ComponentsOf(S) = PartsIn(model, S)
  /\ \A t : NotInItself(model, t) <=>
       LET one == ComponentsOf({t})
           two == ComponentsOf(one)
           three == ComponentsOf(two)
       IN  t \notin one \cup two \cup three \cup ComponentsOf(three)
<1>1. \A S : ComponentsOf(S) = PartsIn(model, S)
  BY DEF ComponentsOf, PartsIn
<1> QED BY <1>1 DEF NotInItself

(***************************************************************************)
(* Whatever the documents have and in every mode, what is in the model     *)
(* refers to resources in it of the right kind, no object contains itself, *)
(* every resource ID that is taken belongs to a resource in the model or   *)
(* to the one being read, and build items are those of the root part.      *)
(***************************************************************************)
THEOREM ModelIsConsistent == Spec => []ReadModelIsConsistent
<1>1. ModelInv => ReadModelIsConsistent
  <2> SUFFICES ASSUME ModelInv PROVE ReadModelIsConsistent
    OBVIOUS
  <2>1. Consistent(model)
    BY DEF ModelInv
  <2>2. ASSUME NEW t \in DOMAIN model.res
        PROVE  /\ \A r \in model.res[t].refs : Is(r[2], KindsOf(r[1]))
               /\ NotInItself(model, t)
    BY <2>1, IsIn DEF Consistent, IsSound, Resolves
  <2>3. \A i \in model.items : Is(i.object, Objects) /\ (i.part = Root \/ i.old)
    BY <2>1, IsIn, Zenon DEF Consistent
  <2>4. DOMAIN model.res \subseteq model.known /\ (status = "read" => model.known = DOMAIN model.res)
    BY <2>1 DEF Consistent, ModelInv
  <2>5. status = "reading" => model.known \ DOMAIN model.res \subseteq {<<Part, cur.id>>}
    BY DEF ModelInv, AtWork
  <2> QED BY <2>2, <2>3, <2>4, <2>5, InModelIs, Zenon DEF ReadModelIsConsistent
<1> QED BY <1>1, ModelInvariance, PTL
=============================================================================
