---------------------------- MODULE ReaderNodes ----------------------------
(***************************************************************************)
(* The grammar the 3MF reader implements: one row per reader node class.   *)
(* A row says what the class does with its attributes and which child      *)
(* elements it hands to another class.  The engine that runs the rows over *)
(* the tokens of a document is module ModelReader.                         *)
(*                                                                         *)
(* What a mistake in the document costs is one of                          *)
(*   "ok"    nothing: the mistake is not noticed                           *)
(*   "opt"   a warning of level mrwInvalidOptionalValue                    *)
(*   "miss"  a warning of level mrwMissingMandatoryValue                   *)
(*   "mand"  a warning of level mrwInvalidMandatoryValue                   *)
(*   "throw" an exception, in strict and in lenient reading alike          *)
(***************************************************************************)
EXTENDS Naturals, TLC

Outcomes == {"ok", "opt", "miss", "mand", "throw"}

(***************************************************************************)
(* attr   the attributes the class knows: what it costs to leave one out,  *)
(*        to give it twice, to give it a value that does not convert       *)
(* early  the attributes whose absence is noticed before the content       *)
(* other  what an attribute the class does not know costs, by namespace    *)
(* child  the child elements it reads: namespace, local name, node class   *)
(* stray  the namespaces whose other elements are warned about; elements   *)
(*        of the remaining namespaces are passed over in silence           *)
(* A class that compares no namespaces has child namespace "any".          *)
(***************************************************************************)
Node(attr, early, other, child, stray) ==
  [attr |-> attr, early |-> early, other |-> other, child |-> child, stray |-> stray]

At(missing, twice, bad) == [missing |-> missing, twice |-> twice, bad |-> bad]
Free == At("ok", "ok", "ok")
Once == At("ok", "throw", "throw")
Need == At("throw", "throw", "throw")
Number == At("ok", "ok", "throw")
None == <<>>
UUID(twice) == "p:UUID" :> At("miss", twice, "throw")

-----------------------------------------------------------------------------
(* The model part and its sections. *)

NodeModel ==
  Node("unit" :> At("ok", "ok", "mand") @@ "requiredextensions" :> At("ok", "ok", "throw")
         @@ "extension" :> At("ok", "ok", "mand") @@ "xml:lang" :> Free
         @@ "xml:space" :> At("ok", "throw", "throw"),
       {}, None,
       {<<"core", "resources", "Resources">>, <<"core", "build", "Build">>,
        <<"core", "metadata", "MetaData">>,
        <<"v093", "resources", "Resources093">>, <<"v093", "build", "Build093">>,
        <<"v093", "metadata", "MetaData">>, <<"v093", "metadataentry", "MetaData">>},
       {"core", "v093"})

NodeResources ==
  Node(None, {}, None,
       {<<"core", "object", "Object">>, <<"core", "basematerials", "BaseMaterials">>,
        <<"material", "colorgroup", "Colors">>, <<"material", "texture2dgroup", "Tex2DGroup">>,
        <<"material", "texture2d", "Texture2D">>,
        <<"material", "compositematerials", "CompositeMaterials">>,
        <<"material", "multiproperties", "MultiProperties">>,
        <<"slice", "slicestack", "SliceStack">>,
        <<"toolpath", "toolpathresource", "ToolpathResource">>},
       {"core", "material", "slice", "toolpath"})

NodeBuild ==
  Node(UUID("throw"), {}, "p" :> "opt", {<<"core", "item", "BuildItem">>}, {"core"})

NodeBuildItem ==
  Node("objectid" :> Need @@ "transform" :> Number @@ "partnumber" :> Free
         @@ UUID("throw") @@ "p:path" :> At("ok", "throw", "ok")
         @@ "type of the object" :> At("ok", "ok", "mand"),
       {}, "" :> "opt", {<<"core", "metadatagroup", "MetaDataGroup">>}, {"core"})

NodeMetaData ==
  Node("name" :> At("opt", "ok", "opt") @@ "preserve" :> Free @@ "type" :> Free,
       {}, None, {}, {})

NodeMetaDataGroup == Node(None, {}, None, {<<"core", "metadata", "MetaData">>}, {})

-----------------------------------------------------------------------------
(* Objects. *)

NodeObject ==
  Node("id" :> Need @@ "type" :> At("ok", "throw", "opt")
         @@ "thumbnail" :> At("ok", "throw", "mand") @@ "name" :> Free @@ "partnumber" :> Free
         @@ "pid" :> Once @@ "pindex" :> Once
         @@ "s:slicestackid" :> At("ok", "opt", "throw")
         @@ "s:meshresolution" :> At("ok", "opt", "opt") @@ UUID("mand"),
       {"id"}, "s" :> "opt" @@ "p" :> "opt",
       {<<"core", "mesh", "Mesh">>, <<"core", "components", "Components">>,
        <<"core", "metadatagroup", "MetaDataGroup">>},
       {"core"})

NodeMesh ==
  Node("z:binary" :> Once @@ "type of the object" :> At("ok", "ok", "opt")
         @@ "polygons of the slice stack" :> At("ok", "ok", "mand"),
       {}, "z" :> "opt",
       {<<"core", "vertices", "Vertices">>, <<"core", "triangles", "Triangles">>,
        <<"beam", "beamlattice", "BeamLattice">>},
       {"core", "beam"})

NodeVertices ==
  Node(None, {}, None, {<<"core", "vertex", "Vertex">>, <<"zip", "vertex", "ZVertex">>},
       {"core", "zip"})

NodeVertex ==
  Node("x" :> Number @@ "y" :> Number @@ "z" :> Number @@ "xyz" :> At("throw", "ok", "ok"),
       {}, "" :> "opt", {}, {})

NodeTriangles ==
  Node(None, {}, None, {<<"core", "triangle", "Triangle">>, <<"zip", "triangle", "ZTriangle">>},
       {"core", "zip"})

NodeTriangle ==
  Node("v1" :> At("throw", "ok", "throw") @@ "v2" :> At("throw", "ok", "throw")
         @@ "v3" :> At("throw", "ok", "throw") @@ "pid" :> Number @@ "p1" :> Number
         @@ "p2" :> Number @@ "p3" :> Number,
       {}, "" :> "opt", {}, {})

(* The binary elements refer to arrays of the mesh's binary stream: see    *)
(* module ChunkedBinaryStream.  Only an element without any of the three   *)
(* array IDs is rejected; an unusable array fails in the stream.           *)
NodeZVertex ==
  Node("xyz" :> At("throw", "ok", "throw") @@ "origin" :> Number, {}, "" :> "opt", {}, {})

NodeZTriangle == Node("v123" :> At("throw", "ok", "throw"), {}, "" :> "opt", {}, {})

NodeComponents ==
  Node("polygons of the slice stack" :> At("ok", "ok", "mand"), {}, None,
       {<<"core", "component", "Component">>}, {"core"})

NodeComponent ==
  Node("objectid" :> Need @@ "transform" :> Number @@ UUID("throw")
         @@ "p:path" :> At("ok", "throw", "ok"),
       {}, "" :> "opt" @@ "p" :> "opt", {}, {})

-----------------------------------------------------------------------------
(* Property resources. *)

NodeBaseMaterials == Node("id" :> Need, {"id"}, None, {<<"core", "base", "BaseMaterial">>}, {})

NodeBaseMaterial == Node("name" :> Free @@ "displaycolor" :> Free, {}, None, {}, {})

NodeColors ==
  Node("id" :> Need, {"id"}, "" :> "opt", {<<"material", "color", "Color">>}, {"material"})

NodeColor == Node("color" :> Free, {}, None, {}, {})

NodeTexture2D ==
  Node("id" :> Need @@ "path" :> At("throw", "ok", "throw")
         @@ "contenttype" :> At("throw", "ok", "throw") @@ "tilestyleu" :> At("ok", "ok", "opt")
         @@ "tilestylev" :> At("ok", "ok", "opt") @@ "filter" :> At("ok", "ok", "opt")
         @@ "box" :> Once,
       {"id", "path", "contenttype"}, "" :> "opt", {}, {})

NodeTex2DGroup ==
  Node("id" :> Need @@ "texid" :> Need, {"id", "texid"}, "" :> "opt",
       {<<"material", "tex2coord", "Tex2Coord">>}, {"material"})

NodeTex2Coord == Node("u" :> Free @@ "v" :> Free, {}, None, {}, {})

NodeCompositeMaterials ==
  Node("id" :> Need @@ "matid" :> Need @@ "matindices" :> Once,
       {"id", "matid"}, "" :> "opt", {<<"material", "composite", "Composite">>}, {"material"})

(* Too few or too many ratios are completed; without any the composite     *)
(* stays null and the program does not survive adding it.                  *)
NodeComposite ==
  Node("values" :> At("throw", "ok", "throw") @@ "ratio" :> At("opt", "ok", "opt"),
       {}, "" :> "opt", {}, {})

NodeMultiProperties ==
  Node("id" :> Need @@ "pids" :> At("mand", "throw", "throw")
         @@ "blendmethods" :> At("ok", "throw", "mand"),
       {"id", "pids"}, "" :> "opt", {<<"material", "multi", "Multi">>}, {"material"})

NodeMulti == Node("pindices" :> At("mand", "ok", "throw"), {}, "" :> "opt", {}, {})

-----------------------------------------------------------------------------
(* Beam lattices. *)

NodeBeamLattice ==
  Node("radius" :> Number @@ "minlength" :> Number @@ "clippingmode" :> Free
         @@ "clippingmesh" :> Number @@ "representationmesh" :> Number
         @@ "accuracy" :> Free @@ "cap" :> Free,
       {}, "" :> "opt",
       {<<"beam", "beams", "Beams">>, <<"beam", "beamsets", "BeamSets">>}, {"beam"})

NodeBeams == Node(None, {}, None, {<<"beam", "beam", "Beam">>}, {"beam"})

NodeBeam ==
  Node("v1" :> At("throw", "ok", "throw") @@ "v2" :> At("throw", "ok", "throw")
         @@ "r1" :> Number @@ "r2" :> Number @@ "cap1" :> Free @@ "cap2" :> Free
         @@ "length" :> At("ok", "ok", "mand"),
       {}, "" :> "opt", {}, {})

NodeBeamSets == Node(None, {}, None, {<<"beam", "beamset", "BeamSet">>}, {"beam"})

NodeBeamSet ==
  Node("name" :> Free @@ "identifier" :> Free, {}, "" :> "opt", {<<"beam", "ref", "Ref">>}, {"beam"})

NodeRef == Node("index" :> Number, {}, "" :> "opt", {}, {})

-----------------------------------------------------------------------------
(* Slice stacks.  The elements of a stack and the vertices of a slice are  *)
(* recognised by their local names alone.                                  *)

NodeSliceStack ==
  Node("zbottom" :> Number @@ "id" :> Number, {}, "" :> "throw",
       {<<"any", "slice", "Slice">>, <<"any", "sliceref", "SliceRef">>}, {})

NodeSlice ==
  Node("ztop" :> Need, {}, None,
       {<<"slice", "vertices", "SliceVertices">>, <<"slice", "polygon", "Polygon">>}, {"slice"})

NodeSliceRef ==
  Node("slicestackid" :> At("throw", "ok", "throw") @@ "slicepath" :> Free
         @@ "ztop" :> At("ok", "mand", "mand"),
       {}, "" :> "throw", {}, {})

NodeSliceVertices == Node(None, {}, None, {<<"any", "vertex", "SliceVertex">>}, {"any"})

NodeSliceVertex == Node("x" :> Number @@ "y" :> Number, {}, "" :> "throw", {}, {})

NodePolygon ==
  Node("startv" :> Number @@ "line" :> At("ok", "ok", "throw"), {"startv"}, "" :> "throw",
       {<<"slice", "segment", "Segment">>}, {"slice"})

NodeSegment == Node("v2" :> Number, {}, None, {}, {})

-----------------------------------------------------------------------------
(* Toolpath resources. *)

NodeToolpathResource ==
  Node("id" :> Need @@ "unitfactor" :> Need, {"id", "unitfactor"}, None,
       {<<"toolpath", "toolpathprofiles", "ToolpathProfiles">>,
        <<"toolpath", "toolpathlayers", "ToolpathLayers">>}, {"toolpath"})

NodeToolpathProfiles ==
  Node(None, {}, None, {<<"toolpath", "toolpathprofile", "ToolpathProfile">>}, {"toolpath"})

NodeToolpathProfile ==
  Node("uuid" :> Need @@ "name" :> Need @@ "laserpower" :> Need @@ "laserspeed" :> Need
         @@ "laserfocus" :> Need @@ "laserindex" :> Once,
       {}, None, {}, {})

NodeToolpathLayers ==
  Node(None, {}, None, {<<"toolpath", "toolpathlayer", "ToolpathLayer">>}, {"toolpath"})

NodeToolpathLayer == Node("path" :> Need @@ "ztop" :> Need, {}, None, {}, {})

-----------------------------------------------------------------------------
(* The 0.93 format, recognised by its own namespace or by having none.     *)

NodeResources093 ==
  Node(None, {}, None,
       {<<"v093", "object", "Object093">>, <<"v093", "color", "Color093">>,
        <<"v093", "texture", "Texture093">>, <<"v093", "material", "Material093">>}, {"v093"})

NodeBuild093 == Node(None, {}, None, {<<"v093", "item", "BuildItem093">>}, {})

NodeBuildItem093 == Node("objectid" :> Need @@ "transform" :> Number, {}, None, {}, {})

NodeObject093 ==
  Node("id" :> Need @@ "type" :> At("ok", "throw", "opt") @@ "name" :> Free
         @@ "colorid" :> Number @@ "materialid" :> Number,
       {"id"}, None,
       {<<"v093", "mesh", "Mesh093">>, <<"v093", "components", "Components093">>}, {})

NodeMesh093 ==
  Node(None, {}, None,
       {<<"v093", "vertices", "Vertices093">>, <<"v093", "triangles", "Triangles093">>,
        <<"v093", "texturevertices", "TextureVertices093">>}, {})

NodeVertices093 == Node(None, {}, None, {<<"v093", "vertex", "Vertex093">>}, {})

NodeVertex093 ==
  Node("x" :> Number @@ "y" :> Number @@ "z" :> Number @@ "xyz" :> At("throw", "ok", "ok"),
       {}, None, {}, {})

NodeTriangles093 == Node(None, {}, None, {<<"v093", "triangle", "Triangle093">>}, {})

(* A triangle with a colour of its own that is no texture is rejected.     *)
NodeTriangle093 ==
  Node("v1" :> At("throw", "ok", "throw") @@ "v2" :> At("throw", "ok", "throw")
         @@ "v3" :> At("throw", "ok", "throw") @@ "cv" :> Number @@ "colorid" :> Number
         @@ "materialid" :> Number,
       {}, None, {}, {})

NodeTextureVertices093 ==
  Node(None, {}, None, {<<"v093", "texturevertex", "TextureVertex093">>}, {})

NodeTextureVertex093 ==
  Node("u" :> At("opt", "ok", "throw") @@ "v" :> At("opt", "ok", "throw"), {}, None, {}, {})

NodeComponents093 == Node(None, {}, None, {<<"v093", "component", "Component093">>}, {})

NodeComponent093 == Node("objectid" :> Need @@ "transform" :> Number, {}, None, {}, {})

NodeColor093 ==
  Node("id" :> Once @@ "value" :> At("miss", "ok", "miss"), {}, None, {}, {})

NodeMaterial093 ==
  Node("id" :> At("miss", "throw", "throw") @@ "colorid" :> Number @@ "name" :> Free,
       {}, None, {}, {})

NodeTexture093 ==
  Node("id" :> Need @@ "path" :> At("throw", "ok", "throw")
         @@ "contenttype" :> At("throw", "ok", "throw") @@ "tilestyleu" :> At("ok", "ok", "opt")
         @@ "tilestylev" :> At("ok", "ok", "opt"),
       {"id", "path", "contenttype"}, None, {}, {})

-----------------------------------------------------------------------------
NodeOf ==
  [Model |-> NodeModel, Resources |-> NodeResources, Build |-> NodeBuild,
   BuildItem |-> NodeBuildItem, MetaData |-> NodeMetaData, MetaDataGroup |-> NodeMetaDataGroup,
   Object |-> NodeObject, Mesh |-> NodeMesh, Vertices |-> NodeVertices, Vertex |-> NodeVertex,
   Triangles |-> NodeTriangles, Triangle |-> NodeTriangle, ZVertex |-> NodeZVertex,
   ZTriangle |-> NodeZTriangle, Components |-> NodeComponents, Component |-> NodeComponent,
   BaseMaterials |-> NodeBaseMaterials, BaseMaterial |-> NodeBaseMaterial,
   Colors |-> NodeColors, Color |-> NodeColor, Texture2D |-> NodeTexture2D,
   Tex2DGroup |-> NodeTex2DGroup, Tex2Coord |-> NodeTex2Coord,
   CompositeMaterials |-> NodeCompositeMaterials, Composite |-> NodeComposite,
   MultiProperties |-> NodeMultiProperties, Multi |-> NodeMulti,
   BeamLattice |-> NodeBeamLattice, Beams |-> NodeBeams, Beam |-> NodeBeam,
   BeamSets |-> NodeBeamSets, BeamSet |-> NodeBeamSet, Ref |-> NodeRef,
   SliceStack |-> NodeSliceStack, Slice |-> NodeSlice, SliceRef |-> NodeSliceRef,
   SliceVertices |-> NodeSliceVertices, SliceVertex |-> NodeSliceVertex,
   Polygon |-> NodePolygon, Segment |-> NodeSegment,
   ToolpathResource |-> NodeToolpathResource, ToolpathProfiles |-> NodeToolpathProfiles,
   ToolpathProfile |-> NodeToolpathProfile, ToolpathLayers |-> NodeToolpathLayers,
   ToolpathLayer |-> NodeToolpathLayer,
   Resources093 |-> NodeResources093, Build093 |-> NodeBuild093,
   BuildItem093 |-> NodeBuildItem093, Object093 |-> NodeObject093, Mesh093 |-> NodeMesh093,
   Vertices093 |-> NodeVertices093, Vertex093 |-> NodeVertex093,
   Triangles093 |-> NodeTriangles093, Triangle093 |-> NodeTriangle093,
   TextureVertices093 |-> NodeTextureVertices093, TextureVertex093 |-> NodeTextureVertex093,
   Components093 |-> NodeComponents093, Component093 |-> NodeComponent093,
   Color093 |-> NodeColor093, Material093 |-> NodeMaterial093, Texture093 |-> NodeTexture093]

Kinds == DOMAIN NodeOf

(***************************************************************************)
(* The child class an element of namespace ns and local name l has under   *)
(* a node of a kind, or "" if that node does not read it.                  *)
(***************************************************************************)
ChildNode(kind, el) ==
  LET found == {c \in NodeOf[kind].child : c[1] \in {el[1], "any"} /\ c[2] = el[2]}
  IN  IF found = {} THEN "" ELSE (CHOOSE c \in found : TRUE)[3]

StrayCost(kind, el) ==
  IF NodeOf[kind].stray \cap {el[1], "any"} # {} THEN "opt" ELSE "ok"

(***************************************************************************)
(* What an element of a kind can cost when it is not as it should be: the  *)
(* costs noticed while its attributes are read and after its content.  A   *)
(* missing p:UUID costs nothing in a document without that namespace.      *)
(***************************************************************************)
EarlyCosts(kind) ==
  LET n == NodeOf[kind]
  IN  {n.attr[a].twice : a \in DOMAIN n.attr} \cup {n.attr[a].bad : a \in DOMAIN n.attr}
      \cup {n.other[s] : s \in DOMAIN n.other} \cup {n.attr[a].missing : a \in n.early}

LateCosts(kind, production) ==
  LET n == NodeOf[kind]
  IN  {n.attr[a].missing : a \in {b \in DOMAIN n.attr \ n.early : b = "p:UUID" => production}}
=============================================================================
