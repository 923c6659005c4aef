----------------------------- MODULE RoundTrip -----------------------------
(***************************************************************************)
(* A model is built through the API, written (ModelWriter) and read back   *)
(* in strict mode into another model (ModelReader).  The progress callback *)
(* may cancel the reading; the client then reads the same file once more   *)
(* with a new reader of the same model.                                    *)
(***************************************************************************)
EXTENDS ModelReader

INSTANCE ModelWriter

CONSTANTS Scenarios,     \* bounds on the resources of each kind a client makes
          Contents,      \* what its meshes may contain
          Polygons,      \* how the polygons of its slices may be
          Types,         \* the types it gives its objects
          MaxRetries     \* bound: readings after a cancelled one

VARIABLES scenario,  \* the bounds of this client
          api,       \* the client's model
          retries    \* readings that were cancelled and begun again

apiVars == <<scenario, api, retries>>
allVars == <<vars, apiVars>>

-----------------------------------------------------------------------------
(* The client.  What the API checks are the guards; unique IDs count up.   *)

Editing == status = "editing"
Allowed(kind, count) == kind \in DOMAIN scenario /\ count < scenario[kind]
Add(resource) ==
  /\ Editing /\ Allowed(resource.kind, Cardinality(OfKind(api, resource.kind)))
  /\ api' = [api EXCEPT !.res = Append(@, resource)]
  /\ UNCHANGED <<vars, scenario, retries>>

Change(m) == Editing /\ api' = m /\ m # api /\ UNCHANGED <<vars, scenario, retries>>

AddGroup ==
  \E kind \in {"BaseMaterials", "Texture2D", "Colors", "ToolpathResource"} :
    Add([Blank EXCEPT !.kind = kind])

AddTexture2DGroup ==
  \E t \in OfKind(api, "Texture2D") :
    Add([Blank EXCEPT !.kind = "Tex2DGroup", !.refs = {<<"Tex2DGroup", t>>}])

AddCompositeMaterials ==
  \E b \in OfKind(api, "BaseMaterials") :
    Add([Blank EXCEPT !.kind = "CompositeMaterials", !.refs = {<<"CompositeMaterials", b>>}])

APIGroups == UNION {OfKind(api, kind) : kind \in Groups}

(* AddLayer: at most one group of materials and one of colours.            *)
AddMultiPropertyGroup ==
  \E layers \in SUBSET (APIGroups \ OfKind(api, "MultiProperties")) :
    /\ Cardinality(layers) \in 1..2
    /\ Cardinality({i \in layers : api.res[i].kind \in Materials}) <= 1
    /\ Cardinality({i \in layers : api.res[i].kind = "Colors"}) <= 1
    /\ Add([Blank EXCEPT !.kind = "MultiProperties", !.refs = {<<"layer", i>> : i \in layers}])

AddSliceStack ==
  \E part \in {Root, Other}, content \in Polygons :
    /\ content # "closed" => Allowed(content, 0)
    /\ Add([Blank EXCEPT !.kind = "SliceStack", !.part = part, !.content = content])

(* A stack without slices may refer to any other that has no references.   *)
AddSliceStackReference ==
  \E s, r \in OfKind(api, "SliceStack") :
    /\ s # r /\ api.res[r].refs = {}
    /\ Change([api EXCEPT !.res[s].refs = @ \cup {<<"sliceref", r>>}, !.res[s].content = "empty"])

AddMeshObject ==
  \E content \in Contents, binary \in BOOLEAN :
    /\ content # "faces" => Allowed(content, 0)
    /\ binary => Allowed("binary", 0)
    /\ Add([Blank EXCEPT !.kind = "Mesh", !.content = content, !.binary = binary])

SetObjectLevelProperty ==
  \E o \in OfKind(api, "Mesh"), g \in APIGroups : Change([api EXCEPT !.res[o].pid = g])

SetAllTriangleProperties ==
  \E o \in OfKind(api, "Mesh"), g \in APIGroups :
    api.res[o].content = "faces" /\ Change([api EXCEPT !.res[o].face = g])

(* SetClipping and SetRepresentation refuse objects made later; one of     *)
(* them is used.                                                           *)
SetLatticeMesh ==
  \E o, mesh \in OfKind(api, "Mesh") :
    /\ api.res[o].content = "beams" /\ mesh <= o
    /\ api.res[o].clip = 0 /\ api.res[o].rep = 0
    /\ Change([api EXCEPT !.res[o].clip = mesh]) \/ Change([api EXCEPT !.res[o].rep = mesh])

AssignSliceStack ==
  \E o \in ObjectsOf(api), s \in OfKind(api, "SliceStack") :
    Change([api EXCEPT !.res[o].stack = s])

(* SetType: a mesh with beams is of type model or solidsupport.  An object *)
(* of a build item may be of any type.                                     *)
SetType ==
  \E o \in ObjectsOf(api), type \in Types :
    /\ Allowed("type", 0)
    /\ api.res[o].content = "beams" => type \in {"model", "solidsupport"}
    /\ Change([api EXCEPT !.res[o].type = type])

AddComponentsObject == Add([Blank EXCEPT !.kind = "Components"])

(* AddComponent; cycles, which it does not refuse, are left out.           *)
AddComponent ==
  \E o \in OfKind(api, "Components"), c \in ObjectsOf(api) \cap DOMAIN api.res :
    LET m == [api EXCEPT !.res[o].refs = @ \cup {<<"component", c>>}]
    IN  AcyclicModel(m) /\ Change(m)

AddBuildItem ==
  \E o \in ObjectsOf(api), tilted \in BOOLEAN :
    /\ api.items = {} /\ Allowed("item", 0) /\ (tilted => Allowed("SliceStack", 0))
    /\ Change([api EXCEPT !.items = {[object |-> o, tilted |-> tilted]}])

AddMetaData == Allowed("metadata", 0) /\ Change([api EXCEPT !.meta = {1}])

Edit ==
  \/ AddGroup \/ AddTexture2DGroup \/ AddCompositeMaterials \/ AddMultiPropertyGroup
  \/ AddSliceStack \/ AddSliceStackReference \/ AddMeshObject \/ SetObjectLevelProperty
  \/ SetAllTriangleProperties \/ SetLatticeMesh \/ AssignSliceStack \/ SetType
  \/ AddComponentsObject \/ AddComponent \/ AddBuildItem \/ AddMetaData

-----------------------------------------------------------------------------
(* Writing and reading.  A write that throws leaves nothing to read.       *)
Write ==
  /\ Editing /\ api.res # <<>>
  /\ IF WriterThrows(api) THEN status' = "unwritten" /\ UNCHANGED todo
     ELSE status' = "reading" /\ todo' = Exported(api)
  /\ UNCHANGED <<frames, eof, flags, cur, model, warned, shadowed, documentVars, open, mistakes,
                 apiVars>>

Read == Reads /\ UNCHANGED apiVars

(* ReportProgressAndQueryCancelled(true): before a part, the sections of a *)
(* model, an object, slice stack or toolpath, and now and then a slice.    *)
Queried ==
  \/ open = <<>>
  \/ Due /\ Child(Token1) \in {"Resources", "Build", "Object", "SliceStack", "Slice",
                               "ToolpathResource"}

Cancel ==
  /\ status = "reading" /\ ~eof /\ Queried /\ retries < MaxRetries
  /\ status' = "cancelled"
  /\ UNCHANGED <<frames, eof, flags, cur, model, warned, shadowed, documentVars, todo, open,
                 mistakes, apiVars>>

(* The constructor of CModelReader clears the model: the resources, items  *)
(* and metadata, but not the package resource IDs.                         *)
clearAll(m) == [EmptyModel EXCEPT !.known = m.known]

Retry ==
  /\ status = "cancelled"
  /\ retries' = retries + 1
  /\ model' = clearAll(model)
  /\ frames' = <<>> /\ eof' = FALSE /\ flags' = NoFlags /\ cur' = NoResource /\ warned' = {}
  /\ status' = "reading" /\ shadowed' = FALSE
  /\ todo' = Exported(api) /\ open' = <<>>
  /\ UNCHANGED <<documentVars, mistakes, scenario, api>>

RoundTripInit ==
  /\ frames = <<>> /\ eof = FALSE /\ flags = NoFlags /\ cur = NoResource
  /\ model = EmptyModel /\ warned = {} /\ status = "editing" /\ shadowed = FALSE
  /\ strict = TRUE /\ production = TRUE /\ todo = <<>> /\ open = <<>> /\ mistakes = 0
  /\ scenario \in Scenarios
  /\ api = [res |-> <<>>, items |-> {}, meta |-> {}]
  /\ retries = 0

RoundTripNext == Edit \/ Write \/ Read \/ Cancel \/ Retry

(***************************************************************************)
(* Reading, once begun, goes on; the client need not write or try again.   *)
(***************************************************************************)
RoundTripSpec == RoundTripInit /\ [][RoundTripNext]_allVars /\ WF_allVars(Read)

-----------------------------------------------------------------------------
(* Properties. *)

(* Where the writer puts a resource.                                       *)
Place(i) == <<api.res[i].part, i>>

Position(i) == CHOOSE k \in DOMAIN getSortedObjectList(api) : getSortedObjectList(api)[k] = i

(* What the reader accepts: a stack's references lead to stacks without    *)
(* references, in another part read before or earlier in the same part; an *)
(* object's slice stack is in the root part and its polygons are closed; a *)
(* lattice's meshes come before it or are the lattice's own; no object of  *)
(* type other is built.                                                    *)
Readable ==
  /\ \A s \in OfKind(api, "SliceStack") : \A r \in Named(api, s) :
       /\ api.res[r].refs = {}
       /\ \/ api.res[r].part = Other /\ api.res[s].part = Root
          \/ api.res[r].part = api.res[s].part /\ r < s
  /\ \A o \in ObjectsOf(api) : api.res[o].stack # 0 =>
       api.res[api.res[o].stack].part = Root /\ AllPolygonsClosed(api, api.res[o].stack)
  /\ \A o \in OfKind(api, "Mesh") : \A r \in {api.res[o].clip, api.res[o].rep} \ {0, o} :
       Position(r) < Position(o)
  /\ \A item \in api.items : api.res[item.object].type # "other"

(* WrittenModelsAreRead: the reader, in strict mode, reads what the writer *)
(* wrote of these clients' models without a warning exactly if they are    *)
(* Readable; the API builds and the writer writes the others as well.      *)
WrittenModelsAreRead ==
  retries = 0 =>
    /\ status = "read" => Readable /\ warned = {}
    /\ status = "failed" => ~Readable

(* The model the reader should build: IDs are the writer's unique IDs.     *)
ExpectedRefs(i) ==
  LET o == api.res[i]
      Ref(role, S) == {<<role, Place(k)>> : k \in S \ {0}}
  IN  UNION {Ref(r[1], {r[2]}) : r \in o.refs}
      \cup Ref("property", {o.pid} \cup IF o.binary THEN {} ELSE {o.face})
      \cup Ref("lattice", {o.clip, o.rep}) \cup Ref("slicestack", {o.stack})

ReadBackModel ==
  [res |-> [t \in {Place(i) : i \in DOMAIN api.res} |->
              [kind |-> api.res[t[2]].kind,
               n |-> IF api.res[t[2]].kind \in Groups THEN 1 ELSE 0,
               refs |-> ExpectedRefs(t[2])]],
   known |-> {Place(i) : i \in DOMAIN api.res},
   items |-> {[part |-> Root, object |-> Place(i.object), old |-> FALSE] : i \in api.items},
   meta |-> api.meta]

(* ReadModelIsTheWritten: when reading succeeds the model read is the one  *)
(* written: every resource with its references, build item and metadata;   *)
(* only the properties of binary faces are lost.                           *)
ReadModelIsTheWritten == status = "read" => model = ReadBackModel
=============================================================================
