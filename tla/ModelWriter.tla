---------------------------- MODULE ModelWriter ----------------------------
(***************************************************************************)
(* The text of a model part: CModelWriterNode100_Model::writeToXML and the *)
(* mesh node it uses, as the sequence of start tags they write, with their *)
(* depth.  Tags are those ModelReader reads; attributes that are always    *)
(* written correctly are left out.                                         *)
(*                                                                         *)
(* A model is a sequence of resources, the place of a resource being its   *)
(* unique ID, a set of build items and a set of metadata keys.  The writer *)
(* gives every resource its unique ID in the file.  Of the faces, nodes    *)
(* and properties of a mesh or group one stands for all.  What the writer  *)
(* writes as it is and the reader then objects to, the type of an object   *)
(* and open polygons, is in the tag at which the reader looks at it, as    *)
(* the outcome ReaderNodes gives it.                                       *)
(***************************************************************************)
EXTENDS Integers, Sequences, FiniteSets, SequencesExt

CONSTANTS Root, Other   \* path of the root model part and of another part

(***************************************************************************)
(* A resource.  refs: what a group or components object refers to, in the  *)
(* reader's words; part: the own path of a slice stack; content of a mesh: *)
(* "empty", "faces", "beams"; of a stack: "empty", "closed", "open" or     *)
(* "point", for the polygons of its slices; type of an object; pid, face:  *)
(* the property group of the object and of its faces; clip, rep, stack;    *)
(* binary: written to a binary stream.                                     *)
(***************************************************************************)
Blank == [kind |-> "", refs |-> {}, part |-> Root, content |-> "empty", type |-> "model",
          pid |-> 0, face |-> 0, clip |-> 0, rep |-> 0, stack |-> 0, binary |-> FALSE]

NoValue == [id |-> 0, ref |-> 0, ref2 |-> 0, path |-> "", index |-> 0]
Tag(depth, ns, name, val) ==
  <<[depth |-> depth, tok |-> [el |-> <<ns, name>>, early |-> "ok", late |-> "ok", val |-> val]]>>
Bare(depth, ns, name) == Tag(depth, ns, name, NoValue)
Costing(tag, wrong, cost) == IF wrong THEN <<[tag[1] EXCEPT !.tok.late = cost]>> ELSE tag
WithID(i) == [NoValue EXCEPT !.id = i]
When(condition, text) == IF condition THEN text ELSE <<>>

(* The texts Text(i) of the members of S, in the order of their IDs.       *)
Written(S, Text(_)) ==
  LET ids == SetToSortSeq(S, <)
  IN  FlattenSeq([i \in DOMAIN ids |-> Text(ids[i])])

OfKind(m, kind) == {i \in DOMAIN m.res : m.res[i].kind = kind}
Named(m, i) == {r[2] : r \in m.res[i].refs}
TheOne(S) == IF S = {} THEN 0 ELSE CHOOSE i \in S : TRUE
Lowest(S) == IF S = {} THEN 0 ELSE CHOOSE i \in S : \A k \in S : i <= k

-----------------------------------------------------------------------------
(* Property groups, each with one element. *)

writeBaseMaterials(m) ==
  Written(OfKind(m, "BaseMaterials"), LAMBDA i :
    Tag(2, "core", "basematerials", WithID(i)) \o Bare(3, "core", "base"))

writeTextures2D(m) ==
  Written(OfKind(m, "Texture2D"), LAMBDA i : Tag(2, "material", "texture2d", WithID(i)))

writeColors(m) ==
  Written(OfKind(m, "Colors"), LAMBDA i :
    Tag(2, "material", "colorgroup", WithID(i)) \o Bare(3, "material", "color"))

writeTex2Coords(m) ==
  Written(OfKind(m, "Tex2DGroup"), LAMBDA i :
    Tag(2, "material", "texture2dgroup", [WithID(i) EXCEPT !.ref = TheOne(Named(m, i))])
      \o Bare(3, "material", "tex2coord"))

(* matindices lists every base material a composite uses once: here one.   *)
writeCompositeMaterials(m) ==
  Written(OfKind(m, "CompositeMaterials"), LAMBDA i :
    Tag(2, "material", "compositematerials",
        [WithID(i) EXCEPT !.ref = TheOne(Named(m, i)), !.index = 1])
      \o Bare(3, "material", "composite"))

writeMultiProperties(m) ==
  Written(OfKind(m, "MultiProperties"), LAMBDA i :
    Tag(2, "material", "multiproperties",
        [WithID(i) EXCEPT !.ref = Lowest(Named(m, i)),
                          !.ref2 = TheOne(Named(m, i) \ {Lowest(Named(m, i))})])
      \o Bare(3, "material", "multi"))

-----------------------------------------------------------------------------
(* Slice stacks of a part.  A reference names the part of its stack unless *)
(* that is the root part or the part being written.                        *)

SliceRefPath(m, r, part) ==
  IF m.res[r].part \in {Root, part} THEN "" ELSE m.res[r].part

writeSliceStacks(m, part) ==
  Written({i \in OfKind(m, "SliceStack") : m.res[i].part = part}, LAMBDA i :
    Tag(2, "slice", "slicestack", WithID(i))
      \o Written(Named(m, i), LAMBDA r :
           Tag(3, "slice", "sliceref", [NoValue EXCEPT !.ref = r, !.path = SliceRefPath(m, r, part)]))
      \o When(m.res[i].content # "empty",
              Bare(3, "slice", "slice") \o Bare(4, "slice", "vertices") \o Bare(5, "slice", "vertex")
                \o Bare(4, "slice", "polygon") \o Bare(5, "slice", "segment")))

(* areAllPolygonsClosed: of the stack and of those it refers to, which the *)
(* reader only accepts when they refer to no others.                       *)
AllPolygonsClosed(m, s) == \A k \in {s} \cup Named(m, s) : m.res[k].content # "open"

writeToolpaths(m) ==
  Written(OfKind(m, "ToolpathResource"), LAMBDA i :
    Tag(2, "toolpath", "toolpathresource", WithID(i))
      \o Bare(3, "toolpath", "toolpathprofiles") \o Bare(4, "toolpath", "toolpathprofile")
      \o Bare(3, "toolpath", "toolpathlayers"))

-----------------------------------------------------------------------------
(* Objects. *)

\* Mutant of writeFaces: no face says its property.
writeBareFaces(o) ==
  IF o.binary THEN Bare(5, "zip", "triangle")
  ELSE When(o.content = "faces", Bare(5, "core", "triangle"))

(* A face says which property it has unless it is the object's.  Binary    *)
(* faces cannot say it.                                                    *)
writeFaces(o) ==
  IF o.binary THEN Bare(5, "zip", "triangle")
  ELSE When(o.content = "faces",
            Tag(5, "core", "triangle", [NoValue EXCEPT !.ref = IF o.face = o.pid THEN 0 ELSE o.face]))

(* The reader looks at the polygons of an object's slice stack after its   *)
(* mesh or components.                                                     *)
writeGeometry(m, o, name) ==
  Costing(Bare(3, "core", name), o.stack # 0 /\ ~AllPolygonsClosed(m, o.stack), "mand")

writeMesh(m, o) ==
  writeGeometry(m, o, "mesh")
    \o Bare(4, "core", "vertices")
    \o When(o.content # "empty", Bare(5, IF o.binary THEN "zip" ELSE "core", "vertex"))
    \o Bare(4, "core", "triangles") \o writeFaces(o)
    \o When(o.content = "beams",
            Tag(4, "beam", "beamlattice", [NoValue EXCEPT !.ref = o.clip, !.ref2 = o.rep])
              \o Bare(5, "beam", "beams") \o Bare(6, "beam", "beam")
              \o Bare(5, "beam", "beamsets") \o Bare(6, "beam", "beamset") \o Bare(7, "beam", "ref"))

writeComponentsObject(m, i) ==
  writeGeometry(m, m.res[i], "components")
    \o Written(Named(m, i), LAMBDA c : Tag(4, "core", "component", [NoValue EXCEPT !.ref = c]))

Parts(m, S) == UNION {IF m.res[i].kind = "Components" THEN Named(m, i) ELSE {} : i \in S}
ObjectsOf(m) == OfKind(m, "Mesh") \cup OfKind(m, "Components")

(* The objects calculateComponentDepthLevel visits with a level.           *)
AtLevel(m) ==
  LET at[n \in 1..(Len(m.res) + 1)] == IF n = 1 THEN ObjectsOf(m) ELSE Parts(m, at[n - 1])
  IN  at
DepthLevel(m, i) == CHOOSE n \in 1..Len(m.res) : i \in AtLevel(m)[n] /\ i \notin AtLevel(m)[n + 1]
AcyclicModel(m) == AtLevel(m)[Len(m.res) + 1] = {}

\* Mutant of getSortedObjectList: objects are not sorted by level.
getObjectList(m) == SetToSortSeq(ObjectsOf(m), <)

getSortedObjectList(m) ==
  SetToSortSeq(ObjectsOf(m), LAMBDA a, b :
    DepthLevel(m, a) > DepthLevel(m, b) \/ (DepthLevel(m, a) = DepthLevel(m, b) /\ a < b))

(* The type is written too: writeBuild has what the reader does with it.   *)
writeObject(m, i) ==
  LET o == m.res[i]
  IN  Tag(2, "core", "object", [WithID(i) EXCEPT !.ref = o.pid, !.ref2 = o.stack])
        \o IF o.kind = "Mesh" THEN writeMesh(m, o) ELSE writeComponentsObject(m, i)

writeObjects(m) ==
  FlattenSeq([i \in DOMAIN getSortedObjectList(m) |-> writeObject(m, getSortedObjectList(m)[i])])

-----------------------------------------------------------------------------
(* The parts.  The root part has everything but the slice stacks with a    *)
(* path, which the parts of that path have.                                *)

writeMetaData(m) == Written(m.meta, LAMBDA k : Tag(1, "core", "metadata", WithID(k)))

writeResources(m, part) ==
  Bare(1, "core", "resources")
    \o IF part = Root
       THEN writeBaseMaterials(m) \o writeTextures2D(m) \o writeColors(m) \o writeTex2Coords(m)
              \o writeCompositeMaterials(m) \o writeMultiProperties(m) \o writeSliceStacks(m, part)
              \o writeToolpaths(m) \o writeObjects(m)
       ELSE writeSliceStacks(m, part)

(* The reader wants no build item of an object of type other.              *)
writeBuild(m, part) ==
  Bare(1, "core", "build")
    \o When(part = Root,
            Written({i.object : i \in m.items}, LAMBDA i :
              Costing(Tag(2, "core", "item", [NoValue EXCEPT !.ref = i]),
                      m.res[i].type = "other", "mand")))

writeToXML(m, part) ==
  [path |-> part,
   text |-> Bare(0, "core", "model") \o When(part = Root, writeMetaData(m))
              \o writeResources(m, part) \o writeBuild(m, part)]

Exported(m) ==
  When(\E i \in OfKind(m, "SliceStack") : m.res[i].part = Other, <<writeToXML(m, Other)>>)
    \o <<writeToXML(m, Root)>>

-----------------------------------------------------------------------------
(* When the writer throws: a face has a property and its object has none;  *)
(* a binary mesh has no faces (addIntArray takes no empty array); a build  *)
(* item tilts slices; a slice or a polygon is a single point.              *)

MissingObjectLevelPID(o) ==
  o.content = "faces" /\ o.face # 0 /\ o.pid = 0 /\ ~o.binary
EmptyBinaryArray(o) == o.binary /\ o.content # "faces"

(* isValidForSlices of the object of a tilted item.                        *)
Sliced(m, i) ==
  LET below[n \in 0..Len(m.res)] ==
        IF n = 0 THEN {i} ELSE below[n - 1] \cup Parts(m, below[n - 1])
  IN  \E o \in below[Len(m.res)] : m.res[o].stack # 0

WriterThrows(m) ==
  \/ \E i \in OfKind(m, "Mesh") : MissingObjectLevelPID(m.res[i]) \/ EmptyBinaryArray(m.res[i])
  \/ \E item \in m.items : item.tilted /\ Sliced(m, item.object)
  \/ \E s \in OfKind(m, "SliceStack") : m.res[s].content = "point"
=============================================================================
