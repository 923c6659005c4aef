---------------------------- MODULE ModelReader ----------------------------
(***************************************************************************)
(* Reading the model parts of a package: CModelReader_3MF::readStream, the *)
(* token loop of CModelReaderNode::parseContent and what the node classes  *)
(* of module ReaderNodes do to the model when they are opened and closed.  *)
(*                                                                         *)
(* The document is the environment: a package is a sequence of model       *)
(* parts, a part a sequence of start tags with their depth, and on the way *)
(* the document may make mistakes.  Elements are pairs of a namespace and  *)
(* a local name; of their attributes only IDs, references and indices keep *)
(* a value, every other mistake is the cost ReaderNodes gives it.  A       *)
(* `vertex' token stands for the vertices of one triangle.                 *)
(***************************************************************************)
EXTENDS ReaderNodes, Integers, FiniteSets, Sequences

CONSTANTS IDs,          \* resource IDs the documents use
          Root,         \* path of the root model part
          Other,        \* path of a non-root model part
          Documents,    \* packages: their model parts in the order they are read
          MaxMistakes   \* departures from the format in one package

ASSUME IDsAssumption == IDs \subseteq Nat \ {0}
MadeUpID == 99        \* above every ID of a document

ASSUME PartsAssumption == Root # Other

(* What a text can have: names are strings, and an index is a natural      *)
(* number once it is read, as IDs and references are integers.             *)
Values == [id : Int, ref : Int, ref2 : Int, path : {"", Root, Other}, index : Nat]
Tokens == [el : STRING \X STRING, early : Outcomes, late : Outcomes, val : Values]
PartTexts == [path : {Root, Other}, text : Seq([depth : Nat, tok : Tokens])]

ASSUME DocumentsAssumption == \A d \in Documents : d.parts \in Seq(PartTexts) \ {<<>>}

VARIABLES strict,       \* SetStrictModeActive
          production,   \* the document declares the production namespace
          todo,         \* the parts still to read, the current one first
          open,         \* the document's open elements and whether a node reads them
          frames,       \* the nodes whose parseContent is running
          eof,          \* CXmlReader::IsEOF
          flags,        \* CModelReaderNode_Model's members and bHasModel
          cur,          \* the object or slice stack being read
          model,        \* the model: resources, known IDs, build items, metadata
          warned,       \* levels of the recorded warnings
          status,       \* "reading", "read" or "failed"
          mistakes,     \* departures from the format the document may still make
          shadowed      \* an element nobody reads has the name of the node around it

readerVars == <<frames, eof, flags, cur, model, warned, status, shadowed>>
documentVars == <<strict, production>>
vars == <<readerVars, documentVars, todo, open, mistakes>>

-----------------------------------------------------------------------------
(* State. *)

Part == Head(todo).path
Top == frames[Len(frames)]
Parent == frames[Len(frames) - 1]
Objects == {"Mesh", "Components"}
Groups == {"BaseMaterials", "Colors", "Tex2DGroup", "CompositeMaterials", "MultiProperties"}
Materials == {"BaseMaterials", "CompositeMaterials"}
Known(target) == target \in model.known
Has(target) == target \in DOMAIN model.res
Is(target, kinds) == Has(target) /\ model.res[target].kind \in kinds
Count(target) == IF Has(target) THEN model.res[target].n ELSE 0

NoResource == [id |-> 0, kind |-> "", refs |-> {}, nodes |-> FALSE, slices |-> FALSE,
               pid |-> 0, meshpid |-> 0, index0 |-> 0, index |-> 0, used |-> 0, stack |-> 0,
               clip |-> 0, rep |-> 0]
NoFlags == [model |-> FALSE, resources |-> FALSE, build |-> FALSE, ignoring |-> FALSE]

(***************************************************************************)
(* A token: an element, the cost of what is wrong with its attributes      *)
(* (`early' while they are read, `late' after the content) and its values: *)
(* own ID, references, path, index and metadata key.                       *)
(***************************************************************************)
NoVal == [id |-> 0, ref |-> 0, ref2 |-> 0, path |-> "", index |-> 0]
Token(el, early, late, val) == [el |-> el, early |-> early, late |-> late, val |-> val]

(***************************************************************************)
(* addException, addWarning: the warning is recorded, and thrown if it is  *)
(* at least as severe as the critical level: all are in strict mode, none  *)
(* in lenient mode.                                                        *)
(***************************************************************************)
Levels == {"opt", "miss", "mand"}
\* Mutant of Throws: strict mode throws the most severe warnings only.
ThrowsMandatory(costs) == "throw" \in costs \/ (strict /\ "mand" \in costs)

Throws(costs) == "throw" \in costs \/ (strict /\ costs \cap Levels # {})

(***************************************************************************)
(* A handler that incurs `costs' and otherwise leaves the given state.     *)
(***************************************************************************)
Handle(costs, frames1, flags1, cur1, model1) ==
  /\ warned' = warned \cup (costs \cap Levels)
  /\ IF Throws(costs)
     THEN status' = "failed" /\ UNCHANGED <<frames, flags, cur, model>>
     ELSE status' = status /\ frames' = frames1 /\ flags' = flags1 /\ cur' = cur1
          /\ model' = model1

(* A resource is added to the table.                                       *)
WithResource(res, id, resource) ==
  [t \in DOMAIN res \cup {id} |-> IF t = id THEN resource ELSE res[t]]

Cost(ok, cost) == IF ok THEN {} ELSE {cost}

Kinds093 == {"Object093", "Texture093", "Material093", "BuildItem093", "Component093",
             "Triangle093"}

(***************************************************************************)
(* The 0.93 nodes add one to every ID, so that 0 can be one; an absent     *)
(* reference is -1 there and 0 elsewhere.                                  *)
(***************************************************************************)
Shift(kind) == IF kind \in Kinds093 THEN 1 ELSE 0
OwnID(kind, val) == <<Part, val.id + Shift(kind)>>
RefID(kind, val) == <<IF val.path = "" THEN Part ELSE val.path, val.ref + Shift(kind)>>

Frame(kind, tok) ==
  [kind |-> kind, name |-> tok.el[2], early |-> tok.early, late |-> tok.late, val |-> tok.val,
   seen |-> {}]
Pushed(kind, tok) == Append(frames, Frame(kind, tok))
Popped == SubSeq(frames, 1, Len(frames) - 1)
PoppedSeeing(x) == [Popped EXCEPT ![Len(frames) - 1].seen = @ \cup {x}]

-----------------------------------------------------------------------------
(* Start elements: OnNSChildElement of the node whose content is read.     *)

(* The document starts an element, which the reader reads or passes over.  *)
Starts(tok, read) ==
  /\ status = "reading" /\ ~eof
  /\ open' = Append(open, [el |-> tok.el, read |-> read])
  /\ shadowed' = (shadowed \/ (~read /\ frames # <<>> /\ tok.el[2] = Top.name))
  /\ UNCHANGED <<eof, documentVars>>

Child(tok) == IF frames = <<>> THEN "" ELSE ChildNode(Top.kind, tok.el)

(* The model node of a non-root part ignores the build and the metadata.   *)
Ignored(tok) ==
  /\ frames # <<>> /\ Top.kind = "Model" /\ Part # Root
  /\ tok.el \in {<<"core", "build">>, <<"core", "metadata">>}

(* readStream, readProductionAttachmentModels: a model element, whatever   *)
(* its namespace.                                                          *)
OpenModel(tok) ==
  /\ frames = <<>> /\ tok.el[2] = "model"
  /\ Starts(tok, TRUE)
  /\ Handle({tok.early} \cup Cost(~flags.model, "throw"),
            Pushed("Model", tok), [flags EXCEPT !.model = TRUE], cur, model)

(* An element no node reads.  It has no node of its own: what it contains  *)
(* is read as if it were not there.                                        *)
PassOver(tok) ==
  /\ \/ frames = <<>> /\ tok.el[2] # "model"
     \/ frames # <<>> /\ Child(tok) = ""
     \/ Ignored(tok)
  /\ Starts(tok, FALSE)
  /\ LET silent == frames = <<>> \/ Ignored(tok)
                   \/ (Top.kind = "Model" /\ flags.ignoring /\ tok.el[1] = "core")
         build == Ignored(tok) /\ tok.el[2] = "build"
     IN  Handle((IF silent THEN {} ELSE {StrayCost(Top.kind, tok.el)})
                  \cup Cost(~(build /\ flags.build), "throw"),
                frames,
                [flags EXCEPT !.ignoring = @ \/ Ignored(tok), !.build = @ \/ build],
                cur, model)

Sections == {"Resources", "Resources093", "Build", "Build093"}

(* The two sections of a model; one of each.  A 0.93 section is warned     *)
(* about, and a 0.93 build is not ignored in a non-root part.              *)
OpenSection(tok) ==
  LET kind == Child(tok)
      flag == IF kind \in {"Resources", "Resources093"} THEN "resources" ELSE "build"
  IN  /\ kind \in Sections /\ ~Ignored(tok)
      /\ Starts(tok, TRUE)
      /\ Handle({tok.early} \cup Cost(~flags[flag], "throw") \cup Cost(tok.el[1] = "core", "opt"),
                Pushed(kind, tok),
                [flags EXCEPT ![flag] = TRUE, !.ignoring = @ /\ tok.el[1] # "core"],
                cur, model)

LegalLayers(targets) ==
  /\ \A t \in targets : Is(t, Groups \ {"MultiProperties"})
  /\ Cardinality({t \in targets : Is(t, Materials)}) <= 1
  /\ Cardinality({t \in targets : Is(t, {"Colors"})}) <= 1

(* The resources that are added to the model before their content is read. *)
Resources1 == Groups \cup {"Texture2D", "Texture093", "ToolpathResource"}

OpenResource(tok) ==
  LET kind == Child(tok)
      val == tok.val
      own == OwnID(kind, val)
      ref == RefID(kind, val)
      layers == {<<Part, i>> : i \in {val.ref, val.ref2} \ {0}}
      resolved == CASE kind = "Tex2DGroup" -> Is(ref, {"Texture2D"})
                    [] kind = "CompositeMaterials" ->
                         Is(ref, {"BaseMaterials"}) /\ val.index <= Count(ref)
                    [] kind = "MultiProperties" -> LegalLayers(layers)
                    [] OTHER -> TRUE
      refs == CASE kind = "MultiProperties" -> {<<"layer", t>> : t \in layers}
                [] kind \in {"Tex2DGroup", "CompositeMaterials"} -> {<<kind, ref>>}
                [] OTHER -> {}
      res == [kind |-> IF kind = "Texture093" THEN "Texture2D" ELSE kind, n |-> 0, refs |-> refs]
  IN  /\ kind \in Resources1
      /\ Starts(tok, TRUE)
      /\ Handle({tok.early} \cup Cost(resolved /\ ~Known(own), "throw"),
                Pushed(kind, tok), flags, cur,
                [model EXCEPT !.known = @ \cup {own}, !.res = WithResource(@, own, res)])

OpenObject(tok) ==
  LET kind == Child(tok)
      old == kind = "Object093"
  IN  /\ kind \in {"Object", "Object093"}
      /\ Starts(tok, TRUE)
      /\ Handle({tok.early}, Pushed(kind, tok), flags,
                [NoResource EXCEPT !.id = tok.val.id + Shift(kind),
                                   !.pid = IF old THEN 0 ELSE tok.val.ref,
                                   !.meshpid = IF old THEN 0 ELSE tok.val.ref,
                                   !.index0 = tok.val.index, !.index = tok.val.index,
                                   !.stack = IF old THEN 0 ELSE tok.val.ref2],
                model)

Geometries == {"Mesh", "Mesh093", "Components", "Components093"}

(* An object's mesh or components: the ID is taken before they are read.   *)
OpenGeometry(tok) ==
  LET kind == Child(tok)
      own == <<Part, cur.id>>
      material == RefID("Object093", Top.val)
  IN  /\ kind \in Geometries
      /\ Starts(tok, TRUE)
      /\ Handle({tok.early} \cup Cost(cur.kind = "" /\ ~Known(own), "throw")
                  \cup Cost(kind = "Mesh093" /\ Top.val.ref >= 0 => Is(material, {"BaseMaterials"}),
                            "opt"),
                Pushed(kind, tok), flags,
                [cur EXCEPT !.kind = IF kind \in {"Mesh", "Mesh093"} THEN "Mesh" ELSE "Components"],
                [model EXCEPT !.known = @ \cup {own}])

(* A slice stack takes its ID, slices and references exclude one another.  *)
OpenSliceStack(tok) ==
  LET own == OwnID("SliceStack", tok.val)
  IN  /\ Child(tok) = "SliceStack"
      /\ Starts(tok, TRUE)
      /\ Handle({tok.early} \cup Cost(~Known(own), "throw"), Pushed("SliceStack", tok), flags,
                [NoResource EXCEPT !.id = tok.val.id, !.kind = "SliceStack"],
                [model EXCEPT !.known = @ \cup {own}])

OpenSlice(tok) ==
  /\ Child(tok) \in {"Slice", "SliceRef"}
  /\ Starts(tok, TRUE)
  /\ IF Child(tok) = "Slice"
     THEN Handle({tok.early} \cup Cost(cur.refs = {}, "throw"), Pushed("Slice", tok), flags,
                 [cur EXCEPT !.slices = TRUE, !.nodes = FALSE], model)
     ELSE Handle({tok.early} \cup Cost(~cur.slices, "throw"), Pushed("SliceRef", tok), flags,
                 cur, model)

(* A polygon and its segments name vertices read before them.              *)
OpenPolygon(tok) ==
  /\ Child(tok) \in {"Polygon", "Segment"}
  /\ Starts(tok, TRUE)
  /\ Handle({tok.early} \cup Cost(cur.nodes, "throw"), Pushed(Child(tok), tok), flags, cur, model)

(* All other elements only get a node.                                     *)
OpenPlain(tok) ==
  /\ Child(tok) \notin {"", "Object", "Object093", "SliceStack", "Slice", "SliceRef", "Polygon",
                        "Segment"} \cup Sections \cup Resources1 \cup Geometries
  /\ ~Ignored(tok)
  /\ Starts(tok, TRUE)
  /\ Handle({tok.early} \cup Cost(tok.el[1] = "v093" => Top.kind # "Model", "opt"),
            Pushed(Child(tok), tok),
            [flags EXCEPT !.ignoring = @ /\ ~(Top.kind = "Model" /\ tok.el[1] = "core")], cur, model)

StartElement(tok) ==
  \/ OpenModel(tok)
  \/ PassOver(tok)
  \/ OpenSection(tok)
  \/ OpenResource(tok)
  \/ OpenObject(tok)
  \/ OpenGeometry(tok)
  \/ OpenSliceStack(tok)
  \/ OpenSlice(tok)
  \/ OpenPolygon(tok)
  \/ OpenPlain(tok)

\* Mutant of Closes: an end tag closes the innermost node whatever its name.
ClosesAnyName ==
  /\ status = "reading" /\ frames # <<>>
  /\ \/ ~eof /\ open # <<>> /\ open' = SubSeq(open, 1, Len(open) - 1)
     \/ eof /\ open' = open
  /\ UNCHANGED <<eof, shadowed, documentVars>>

\* Mutant of Closes: parseContent does not stop at the end of the text.
ClosesAtEndTag ==
  /\ status = "reading" /\ frames # <<>> /\ ~eof /\ open # <<>>
  /\ open[Len(open)].el[2] = Top.name
  /\ open' = SubSeq(open, 1, Len(open) - 1)
  /\ UNCHANGED <<eof, shadowed, documentVars>>

-----------------------------------------------------------------------------
(* End elements: parseContent of the innermost node returns when the end   *)
(* tag has the local name of its start tag, or at the end of the text;     *)
(* then the rest of parseXML and of the parent's handler run.              *)
Closes ==
  /\ status = "reading" /\ frames # <<>>
  /\ \/ ~eof /\ open # <<>> /\ open[Len(open)].el[2] = Top.name
        /\ open' = SubSeq(open, 1, Len(open) - 1)
     \/ eof /\ open' = open
  /\ UNCHANGED <<eof, shadowed, documentVars>>

CloseModel ==
  /\ Closes /\ Top.kind = "Model"
  /\ Handle(Cost(flags.resources /\ flags.build, "throw"), Popped, flags, cur, model)

(* Vertices of a mesh or slice; binary ones need the root part's streams.  *)
CloseVertex ==
  /\ Closes /\ Top.kind \in {"Vertex", "ZVertex", "Vertex093", "SliceVertex"}
  /\ Handle({Top.late} \cup Cost(Top.kind = "ZVertex" => Part = Root, "throw"), Popped, flags,
            [cur EXCEPT !.nodes = TRUE], model)

(* addFace: a triangle has its own property or the object's.  A property   *)
(* ID nobody has heard of and an index the resource does not have are      *)
(* warnings; an ID whose resource is not in the model yet, as that of the  *)
(* object being read, is passed over in silence.                           *)
CloseTriangle ==
  LET own == Top.kind = "Triangle" /\ Top.val.ref # 0
      pid == IF own THEN Top.val.ref ELSE cur.meshpid
      index == IF own THEN Top.val.index ELSE cur.index
      target == <<Part, pid>>
      maps == pid # 0 /\ index < Count(target)
  IN  /\ Closes /\ Top.kind \in {"Triangle", "ZTriangle"}
      /\ Handle({Top.late} \cup Cost(cur.nodes, "throw")
                  \cup Cost(pid # 0 => Known(target) /\ (Has(target) => maps), "opt")
                  \cup Cost(Top.kind = "ZTriangle" => Part = Root, "throw"),
                Popped, flags,
                [cur EXCEPT !.used = IF pid # 0 THEN pid ELSE @,
                            !.refs = IF maps THEN @ \cup {<<"property", target>>} ELSE @],
                model)

(* A triangle of the 0.93 format may name a texture (ref2), for which a    *)
(* texture group is made up, or a material (ref).                          *)
CloseTriangle093 ==
  LET texture == <<Part, Top.val.ref2 + 1>>
      material == RefID("Triangle093", Top.val)
      textured == Top.val.ref2 >= 0
      users == {t \in DOMAIN model.res : <<"Tex2DGroup", texture>> \in model.res[t].refs}
      groups == {t \in DOMAIN model.res : model.res[t].kind = "Tex2DGroup"}
      group == IF users # {} THEN CHOOSE t \in users : TRUE
               ELSE <<Part, MadeUpID - Cardinality(groups)>>
      res == [kind |-> "Tex2DGroup", n |-> 0, refs |-> {<<"Tex2DGroup", texture>>}]
  IN  /\ Closes /\ Top.kind = "Triangle093"
      /\ Handle({Top.late} \cup Cost(cur.nodes, "throw")
                  \cup Cost(textured => Is(texture, {"Texture2D"}) /\ (users # {} \/ ~Known(group)),
                            "throw"),
                Popped, flags,
                [cur EXCEPT !.refs = @ \cup
                   IF textured THEN {<<"property", group>>}
                   ELSE IF Is(material, {"BaseMaterials"}) THEN {<<"property", material>>} ELSE {}],
                IF textured /\ users = {}
                THEN [model EXCEPT !.known = @ \cup {group}, !.res = WithResource(@, group, res)]
                ELSE model)

(* An object without a property whose triangles have one is warned about,  *)
(* and further triangles of the mesh get it.                               *)
CloseTriangles ==
  LET adopts == cur.meshpid = 0 /\ cur.used # 0
  IN  /\ Closes /\ Top.kind = "Triangles"
      /\ Handle(Cost(~adopts, "miss"), Popped, flags,
                [cur EXCEPT !.used = 0, !.meshpid = IF adopts THEN cur.used ELSE @,
                            !.index = IF adopts THEN 0 ELSE @],
                model)

CloseBeam ==
  /\ Closes /\ Top.kind = "Beam"
  /\ Handle({Top.late} \cup Cost(cur.nodes, "throw"), Popped, flags, cur, model)

CloseBeamLattice ==
  /\ Closes /\ Top.kind = "BeamLattice"
  /\ Handle({Top.late}, Popped, flags,
            [cur EXCEPT !.clip = Top.val.ref, !.rep = Top.val.ref2], model)

\* Mutant of Reaches: any resource may be a component or a build item.
ReachesAny(target) == (Top.val.path # "" => Part = Root) /\ Has(target)

(* A path is for the root part only.                                       *)
Reaches(target) == (Top.val.path # "" => Part = Root) /\ Is(target, Objects)

CloseComponent ==
  LET target == RefID(Top.kind, Top.val)
  IN  /\ Closes /\ Top.kind \in {"Component", "Component093"}
      /\ Handle({Top.late} \cup Cost(Reaches(target), "throw"), Popped, flags,
                [cur EXCEPT !.refs = @ \cup {<<"component", target>>}], model)

CloseBuildItem ==
  LET target == RefID(Top.kind, Top.val)
  IN  /\ Closes /\ Top.kind \in {"BuildItem", "BuildItem093"}
      /\ Handle({Top.late} \cup Cost(Reaches(target), "throw"), Popped, flags, cur,
                [model EXCEPT !.items = @ \cup {[part |-> Part, object |-> target,
                                                old |-> Top.kind = "BuildItem093"]}])

(* The object joins the model once its mesh or components are read; then   *)
(* its lattice (handleBeamLatticeExtension), its property                  *)
(* (createDefaultProperties) and its slice stack are looked up.            *)
CloseGeometry ==
  LET own == <<Part, cur.id>>
      isMesh == Top.kind = "Mesh"
      At1(id) == <<Part, id>>
      IsObject(id) == At1(id) = own \/ Is(At1(id), Objects)
      meshes == {<<"lattice", At1(id)>> : id \in {i \in {cur.clip, cur.rep} \ {0} : IsObject(i)}}
      property == IF isMesh /\ cur.pid # 0 THEN {<<"property", At1(cur.pid)>>} ELSE {}
      stack == IF cur.stack # 0 THEN {<<"slicestack", At1(cur.stack)>>} ELSE {}
      res == [kind |-> cur.kind, n |-> 0, refs |-> cur.refs \cup meshes \cup property \cup stack]
  IN  /\ Closes /\ Top.kind \in Geometries
      /\ Handle({Top.late}
                  \cup Cost(isMesh => \A id \in {cur.clip, cur.rep} \ {0} : IsObject(id), "mand")
                  \cup Cost(isMesh /\ cur.pid # 0 => cur.index0 < Count(At1(cur.pid)), "throw")
                  \cup Cost(Top.kind = "Components" => cur.pid = 0, "opt")
                  \cup Cost(cur.stack # 0 => Is(At1(cur.stack), {"SliceStack"}), "throw"),
                Popped, flags, cur, [model EXCEPT !.res = WithResource(@, own, res)])

CloseObject ==
  /\ Closes /\ Top.kind \in {"Object", "Object093"}
  /\ Handle({Top.late} \cup Cost(cur.kind # "", "throw"), Popped, flags, NoResource, model)

Properties == {"BaseMaterial", "Color", "Tex2Coord", "Composite", "Multi"}

(* An element of a property group.  A multi property names an element of   *)
(* every layer of its group.                                               *)
CloseProperty ==
  LET group == OwnID(Parent.kind, Parent.val)
      layers == {r[2] : r \in model.res[group].refs}
  IN  /\ Closes /\ Top.kind \in Properties
      /\ Handle({Top.late}
                  \cup Cost(Top.kind = "Multi" => \A t \in layers : Top.val.index < Count(t), "throw"),
                Popped, flags, cur, [model EXCEPT !.res[group].n = @ + 1])

CloseMaterial093 ==
  LET own == OwnID(Top.kind, Top.val)
  IN  /\ Closes /\ Top.kind = "Material093"
      /\ Handle({Top.late} \cup Cost(~Known(own), "throw"), Popped, flags, cur,
                [model EXCEPT !.known = @ \cup {own},
                              !.res = WithResource(@, own,
                                                    [kind |-> "BaseMaterials", n |-> 1, refs |-> {}])])

(* The referenced stack is in the model and has no references itself.      *)
CloseSliceRef ==
  LET target == RefID(Top.kind, Top.val)
  IN  /\ Closes /\ Top.kind = "SliceRef"
      /\ Handle({Top.late} \cup Cost(Is(target, {"SliceStack"}) /\ model.res[target].refs = {},
                                     "throw"),
                Popped, flags, [cur EXCEPT !.refs = @ \cup {<<"sliceref", target>>}], model)

CloseSliceStack ==
  /\ Closes /\ Top.kind = "SliceStack"
  /\ Handle({Top.late}, Popped, flags, NoResource,
            [model EXCEPT !.res = WithResource(@, <<Part, cur.id>>,
                                    [kind |-> "SliceStack", n |-> 0, refs |-> cur.refs])])

(* ReadMetaDataNode, MetaDataGroup: a key that is there already is warned  *)
(* about and then rejected by addMetaData; one without a valid name is     *)
(* left out.                                                               *)
CloseMetaData ==
  LET key == Top.val.id
      ofModel == Parent.kind = "Model"
      named == Top.late = "ok" /\ Top.early = "ok"
      fresh == key \notin (IF ofModel THEN model.meta ELSE Parent.seen)
  IN  /\ Closes /\ Top.kind = "MetaData"
      /\ Handle({Top.late} \cup Cost(named => fresh, "opt") \cup Cost(named => fresh, "throw"),
                IF named /\ ~ofModel THEN PoppedSeeing(key) ELSE Popped,
                flags, cur,
                IF named /\ ofModel THEN [model EXCEPT !.meta = @ \cup {key}] ELSE model)

CloseMetaDataGroup ==
  /\ Closes /\ Top.kind = "MetaDataGroup"
  /\ Handle(Cost("metadatagroup" \notin Parent.seen, "opt"), PoppedSeeing("metadatagroup"), flags,
            cur, model)

Closers == {"Model", "Vertex", "ZVertex", "Vertex093", "SliceVertex", "Triangle", "ZTriangle",
            "Triangle093", "Triangles", "Beam", "BeamLattice", "Component", "Component093",
            "BuildItem", "BuildItem093", "Object", "Object093", "Material093", "SliceRef",
            "SliceStack", "MetaData", "MetaDataGroup"} \cup Geometries \cup Properties

ClosePlain ==
  /\ Closes /\ Top.kind \notin Closers
  /\ Handle({Top.late}, Popped, flags, cur, model)

(* An end tag of another name: of an element nobody reads, or of one whose *)
(* node an inner end tag has closed already.  Outside of all nodes the     *)
(* name "model" starts a second model node.                                *)
PassOverEnd ==
  /\ status = "reading" /\ ~eof /\ open # <<>>
  /\ frames # <<>> => open[Len(open)].el[2] # Top.name
  /\ open' = SubSeq(open, 1, Len(open) - 1)
  /\ Handle(Cost(frames = <<>> => open[Len(open)].el[2] # "model", "throw"),
            frames, flags, cur, model)
  /\ UNCHANGED <<eof, shadowed, documentVars>>

EndElement ==
  \/ CloseModel \/ CloseVertex \/ CloseTriangle \/ CloseTriangle093 \/ CloseTriangles
  \/ CloseBeam \/ CloseBeamLattice \/ CloseComponent \/ CloseBuildItem \/ CloseGeometry
  \/ CloseObject \/ CloseProperty \/ CloseMaterial093 \/ CloseSliceRef \/ CloseSliceStack
  \/ CloseMetaData \/ CloseMetaDataGroup \/ ClosePlain \/ PassOverEnd

-----------------------------------------------------------------------------
(* The reader and what drives it. *)

(* The text of a part ends: after its root element, or too early, which    *)
(* costs a mistake.  Every open node then returns from parseContent.       *)
EndOfText ==
  /\ status = "reading" /\ ~eof
  /\ eof' = TRUE
  /\ UNCHANGED <<frames, flags, cur, model, warned, status, shadowed, documentVars, open>>

(* The next part, with nodes of its own.  After the root part readStream   *)
(* checks that it had a model element; the other parts need not have one.  *)
NextPart ==
  /\ status = "reading" /\ eof /\ frames = <<>>
  /\ todo' = Tail(todo)
  /\ status' = IF Len(todo) > 1 THEN "reading" ELSE IF flags.model THEN "read" ELSE "failed"
  /\ eof' = FALSE /\ open' = <<>> /\ flags' = NoFlags /\ cur' = NoResource /\ shadowed' = FALSE
  /\ UNCHANGED <<frames, model, warned, documentVars>>

EmptyModel == [res |-> <<>>, known |-> {}, items |-> {}, meta |-> {}]

ReaderInit ==
  /\ frames = <<>> /\ eof = FALSE /\ flags = NoFlags /\ cur = NoResource
  /\ model = EmptyModel /\ warned = {} /\ status = "reading" /\ shadowed = FALSE

-----------------------------------------------------------------------------
(* The documents.  The next start tag is that of the first remaining       *)
(* element, once the elements that do not contain it are closed.           *)

Text == Head(todo).text
Due == Text # <<>> /\ Len(open) <= Head(Text).depth
Token1 == Head(Text).tok
TextLeft(text) == todo' = [todo EXCEPT ![1].text = text]
UnlessEnd == status = "reading" /\ ~eof /\ Due
Intact == UNCHANGED mistakes
Mistake == mistakes > 0 /\ mistakes' = mistakes - 1

Element == UnlessEnd /\ StartElement(Token1) /\ TextLeft(Tail(Text)) /\ Intact

EndTag ==
  /\ status = "reading" /\ ~eof /\ open # <<>> /\ ~Due
  /\ EndElement /\ UNCHANGED todo /\ Intact

EndOfPart == eof /\ EndElement /\ UNCHANGED todo /\ Intact

EndText == status = "reading" /\ Text = <<>> /\ open = <<>> /\ EndOfText /\ UNCHANGED todo /\ Intact

(* Something about the attributes of an element is wrong.                  *)
BadAttribute ==
  /\ UnlessEnd /\ Mistake /\ Child(Token1) # "" /\ TextLeft(Tail(Text))
  /\ \/ \E early \in EarlyCosts(Child(Token1)) \ {"ok"} :
          StartElement([Token1 EXCEPT !.early = early])
     \/ \E late \in LateCosts(Child(Token1), production) \ {"ok"} :
          StartElement([Token1 EXCEPT !.late = late])

(* One of the values of an element is another one.                         *)
OtherValue ==
  /\ UnlessEnd /\ Mistake /\ TextLeft(Tail(Text))
  /\ \E val \in {[Token1.val EXCEPT !.id = i] : i \in IDs} \cup
                 {[Token1.val EXCEPT !.ref = i] : i \in IDs \cup {0}} \cup
                 {[Token1.val EXCEPT !.ref2 = i] : i \in IDs \cup {0}} \cup
                 {[Token1.val EXCEPT !.path = p] : p \in {"", Other}} \cup
                 {[Token1.val EXCEPT !.index = i] : i \in 0..2} :
       val # Token1.val /\ StartElement([Token1 EXCEPT !.val = val])

(* An element is missing, with what it contains.                           *)
MissingElement ==
  /\ UnlessEnd /\ Mistake
  /\ LET d == Head(Text).depth
         after == {i \in 2..Len(Text) : Text[i].depth <= d}
     IN  TextLeft(IF after = {} THEN <<>>
                  ELSE SubSeq(Text, CHOOSE i \in after : \A k \in after : i <= k, Len(Text)))
  /\ UNCHANGED <<readerVars, documentVars, open>>

(* An element is there twice, the first time without content.              *)
RepeatedElement == UnlessEnd /\ Mistake /\ StartElement(Token1) /\ UNCHANGED todo

(* An element has another name, perhaps that of the node around it, or a   *)
(* new one is there.                                                       *)
UnknownElement ==
  /\ UnlessEnd /\ Mistake
  /\ TextLeft(Tail(Text)) \/ UNCHANGED todo
  /\ \E ns \in {"other", Token1.el[1]},
        name \in {"unknown"} \cup (IF frames = <<>> THEN {} ELSE {Top.name}) :
       StartElement(Token(<<ns, name>>, "ok", "ok", NoVal))

(* The text ends too early.                                                *)
Truncated ==
  /\ status = "reading" /\ (Text # <<>> \/ open # <<>>)
  /\ Mistake /\ EndOfText /\ UNCHANGED todo

Reads ==
  \/ Element \/ EndTag \/ EndOfPart \/ EndText
  \/ BadAttribute \/ OtherValue \/ MissingElement \/ RepeatedElement \/ UnknownElement
  \/ Truncated
  \/ NextPart /\ Intact

Init ==
  /\ ReaderInit
  /\ strict \in BOOLEAN
  /\ \E d \in Documents : production = d.production /\ todo = d.parts
  /\ open = <<>>
  /\ mistakes = MaxMistakes

(***************************************************************************)
(* The text is finite and the reader's loop does not wait for anything.    *)
(***************************************************************************)
Spec == Init /\ [][Reads]_vars /\ WF_vars(Reads)

-----------------------------------------------------------------------------
(* Properties. *)

(* Unless an element nobody reads has the name of the node around it, the  *)
(* nodes whose parseContent runs are those of the open elements they were  *)
(* made for: no node takes another element's end tag.                      *)
ReadPlaces(j) == {k \in 1..j : open[k].read}
FramesFollowElements ==
  status = "reading" /\ ~eof /\ ~shadowed =>
    /\ Len(frames) = Cardinality(ReadPlaces(Len(open)))
    /\ \A j \in ReadPlaces(Len(open)) : frames[Cardinality(ReadPlaces(j))].name = open[j].el[2]

KindsOf(role) ==
  CASE role \in {"component", "lattice"} -> Objects
    [] role = "property" -> Groups
    [] role = "layer" -> Groups \ {"MultiProperties"}
    [] role = "Tex2DGroup" -> {"Texture2D"}
    [] role = "CompositeMaterials" -> {"BaseMaterials"}
    [] role \in {"sliceref", "slicestack"} -> {"SliceStack"}

ComponentsOf(S) == {r[2] : r \in {q \in UNION {model.res[t].refs : t \in S} : q[1] = "component"}}

(* ReadModelIsConsistent: at every step, in every mode and whatever the    *)
(* document has, what a resource or build item in the model refers to is   *)
(* in the model, and of the kind the reference is for; no object contains  *)
(* itself through a chain of components; a resource ID that is taken       *)
(* belongs to a resource in the model or being read, none is lost when     *)
(* reading ends well; and build items are those of the root part, except   *)
(* that a 0.93 build is read in every part.                                *)
ReadModelIsConsistent ==
  /\ \A t \in DOMAIN model.res :
       /\ \A r \in model.res[t].refs : Is(r[2], KindsOf(r[1]))
       /\ LET one == ComponentsOf({t})
              two == ComponentsOf(one)
              three == ComponentsOf(two)
          IN  t \notin one \cup two \cup three \cup ComponentsOf(three)
  /\ \A i \in model.items : Is(i.object, Objects) /\ (i.part = Root \/ i.old)
  /\ DOMAIN model.res \subseteq model.known
  /\ status = "read" => model.known = DOMAIN model.res
  /\ status = "reading" => model.known \ DOMAIN model.res \subseteq {<<Part, cur.id>>}

(* A package read in strict mode had nothing to warn about, and one        *)
(* without mistakes is read: only the 0.93 format is a warning in itself.  *)
StrictAcceptsTheFormat ==
  /\ strict /\ status = "read" => warned = {}
  /\ mistakes = MaxMistakes /\ status = "failed" => strict /\ open[Len(open)].el[1] = "v093"

(* Reading comes to an end: the token loops and the nodes they call always *)
(* reach the end of the text or an exception.                              *)
ReadEnds == <>(status # "reading")
=============================================================================
