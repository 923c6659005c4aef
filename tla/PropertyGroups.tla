--------------------------- MODULE PropertyGroups ---------------------------
(***************************************************************************)
(* Base materials, colours, texture coordinates, composites and multi      *)
(* properties, the triangle and object level properties that name them,    *)
(* and what becomes of both when a model is written and read in strict     *)
(* mode or merged into a new model.                                        *)
(*                                                                         *)
(* A property has an ID in its group, which counts up and is never used    *)
(* again; a file has its place in the group instead.  The index map of a   *)
(* group lists its IDs in order and is made when it is needed.  The model  *)
(* has one group of every kind and a mesh of one face.  A client gives     *)
(* every base material, colour and coordinate a value of its own: the ID   *)
(* it was made with.                                                       *)
(***************************************************************************)
EXTENDS Integers, Sequences, FiniteSets, SequencesExt

CONSTANTS Scenarios,  \* bounds on the properties made in each group
          MaxIDs,     \* bound: IDs that faces and composites name
          LayerIDs,   \* IDs that multi properties name
          Ratios,     \* mixing ratios of composites, not 0
          MaxLayers,  \* bound: layers of the multi property group
          MaxSettings \* bound: settings of properties of the mesh

ASSUME PropertyGroupsAssumption == {MaxIDs, MaxLayers} \subseteq Nat

Plain == {"base", "color", "coordinate"}
Kinds == Plain \cup {"composite", "multi"}
IDs == 1..MaxIDs

VARIABLES scenario,
          items,    \* of a group: its properties by ID
          next,     \* m_nNextPropertyID
          indexMap, \* m_ResourceIndexMap, or NoMap
          layers,   \* m_vctLayers: the kinds of the groups of the layers
          face,     \* the face's MESHINFORMATION_PROPERTIES
          default,  \* the default data of the mesh, or Null
          settings, \* settings made
          copy,     \* the model read back or merged
          outcome   \* "editing", "read", "merged", or what threw

client == <<scenario, items, next, indexMap, layers, face, default, settings>>
propertyVars == <<client, copy, outcome>>

NoMap == <<0>>
NoIDs == <<0, 0, 0>>
NoProperty == [group |-> "", ids |-> NoIDs]   \* m_nResourceID = 0
Null == [group |-> "null", ids |-> NoIDs]     \* no default data
Corners == UNION {{<<i, i, i>>, <<i, i, j>>, <<i, j, j>>} : i \in IDs, j \in IDs}
Properties == [group : Kinds, ids : {c \in Corners : c[1] <= c[3]}]

Empty == [i \in {} |-> 0]

-----------------------------------------------------------------------------
(* The groups. *)

Editing == outcome = "editing"
Edits == Editing /\ UNCHANGED <<scenario, copy, outcome>>
May(g) == g \in DOMAIN scenario /\ next[g] <= scenario[g]

clearResourceIndexMap(g) == indexMap' = [indexMap EXCEPT ![g] = NoMap]

(* A std::map lists its keys in order: at place k is the one with k - 1    *)
(* below it.                                                               *)
Ascending(S) ==
  [k \in 1..Cardinality(S) |-> CHOOSE i \in S : Cardinality({j \in S : j < i}) = k - 1]

buildResourceIndexMap(g) == Ascending(DOMAIN items[g])

addProperty(g, content) ==
  /\ Edits /\ May(g)
  /\ items' = [items EXCEPT ![g] =
       [i \in DOMAIN @ \cup {next[g]} |-> IF i = next[g] THEN content ELSE @[i]]]
  /\ next' = [next EXCEPT ![g] = @ + 1]
  /\ clearResourceIndexMap(g)
  /\ UNCHANGED <<layers, face, default, settings>>

AddMaterial == addProperty("base", next["base"])
AddColor == addProperty("color", next["color"])
AddTex2Coord == addProperty("coordinate", next["coordinate"])

(* addComposite checks the base materials of the constituents.             *)
Constituents == {c \in BoundedSeq(IDs \X Ratios, 2) : c # <<>>}
addComposite(c, base) == \A k \in DOMAIN c : c[k][1] \in DOMAIN base

AddComposite ==
  \E c \in Constituents : addComposite(c, items["base"]) /\ addProperty("composite", c)

(* addMultiProperty and setMultiProperty check nothing.                    *)
PropertyIDs == UNION {[1..n -> LayerIDs] : n \in 0..MaxLayers}
AddMultiProperty == \E p \in PropertyIDs : addProperty("multi", p)

SetMultiProperty ==
  /\ Edits
  /\ \E i \in DOMAIN items["multi"], p \in PropertyIDs :
       items' = [items EXCEPT !["multi"][i] = p]
  /\ UNCHANGED <<next, indexMap, layers, face, default, settings>>

removeProperty(g, i) ==
  /\ Edits
  /\ items' = [items EXCEPT ![g] = [k \in DOMAIN @ \ {i} |-> @[k]]]
  /\ clearResourceIndexMap(g)
  /\ UNCHANGED <<next, layers, face, default, settings>>

RemoveMaterial == \E i \in DOMAIN items["base"] : removeProperty("base", i)
RemoveColor == \E i \in DOMAIN items["color"] : removeProperty("color", i)
RemoveTex2Coord == \E i \in DOMAIN items["coordinate"] : removeProperty("coordinate", i)
RemoveComposite == \E i \in DOMAIN items["composite"] : removeProperty("composite", i)
RemoveMultiProperty == \E i \in DOMAIN items["multi"] : removeProperty("multi", i)

(* GetAllPropertyIDs makes the index map of a group unless it has one.     *)
GetAllPropertyIDs ==
  /\ Edits
  /\ \E g \in Kinds :
       /\ indexMap[g] = NoMap /\ items[g] # Empty
       /\ indexMap' = [indexMap EXCEPT ![g] = buildResourceIndexMap(g)]
  /\ UNCHANGED <<items, next, layers, face, default, settings>>

(* addLayer: at most one layer of materials and one of colours.            *)
Materials == {"base", "composite"}
addLayer(g) ==
  /\ g \in Materials => \A k \in DOMAIN layers : layers[k] \notin Materials
  /\ g = "color" => \A k \in DOMAIN layers : layers[k] # "color"
  /\ layers' = Append(layers, g)

AddLayer ==
  /\ Edits /\ "multi" \in DOMAIN scenario /\ Len(layers) < MaxLayers
  /\ \E g \in (Kinds \ {"multi"}) \cap DOMAIN scenario : addLayer(g)
  /\ UNCHANGED <<items, next, indexMap, face, default, settings>>

RemoveLayer ==
  /\ Edits
  /\ \E k \in DOMAIN layers : layers' = RemoveAt(layers, k)
  /\ UNCHANGED <<items, next, indexMap, face, default, settings>>

-----------------------------------------------------------------------------
(* The mesh.  What the client sets is not checked against the groups; here *)
(* the IDs are those of properties that exist or existed.                  *)

Sets == Edits /\ settings < MaxSettings /\ settings' = settings + 1
Settable == {p \in Properties : \A k \in 1..3 : p.ids[k] < next[p.group]}

SetTriangleProperties ==
  /\ Sets
  /\ \E p \in Settable \cup {NoProperty} : face' = p
  /\ UNCHANGED <<items, next, indexMap, layers, default>>

(* Without default data the first face's become the default, even none.    *)
SetAllTriangleProperties ==
  /\ Sets
  /\ \E p \in Settable \cup {NoProperty} :
       face' = p /\ default' = IF default = Null THEN p ELSE default
  /\ UNCHANGED <<items, next, indexMap, layers>>

SetObjectLevelProperty ==
  /\ Sets
  /\ \E p \in Settable : p.ids = [k \in 1..3 |-> p.ids[1]] /\ default' = p
  /\ UNCHANGED <<items, next, indexMap, layers, face>>

ClearAllProperties ==
  /\ Edits
  /\ face' = NoProperty /\ default' = Null
  /\ UNCHANGED <<items, next, indexMap, layers, settings>>

-----------------------------------------------------------------------------
(* The writer builds every index map and registers the place of every ID   *)
(* (registerPropertyID); it throws if an ID has none.                      *)

IsSet(p) == p.group \in Kinds

mapPropertyIDToIndex(g, i) ==
  CHOOSE k \in DOMAIN buildResourceIndexMap(g) : buildResourceIndexMap(g)[k] = i

InOrder(g, Of(_)) ==
  LET map == buildResourceIndexMap(g) IN [k \in DOMAIN map |-> Of(items[g][map[k]])]
Mapped(g, ids) == [k \in DOMAIN ids |-> mapPropertyIDToIndex(g, ids[k])]

UsedMaterials == UNION {{items["composite"][i][k][1] : k \in DOMAIN items["composite"][i]} :
                          i \in DOMAIN items["composite"]}

(* GetMixingRatio: of the first constituent with the material, or 0.       *)
GetMixingRatio(c, i) ==
  IF \E k \in DOMAIN c : c[k][1] = i
  THEN c[CHOOSE k \in DOMAIN c : c[k][1] = i /\ \A j \in 1..(k - 1) : c[j][1] # i][2]
  ELSE 0

(* The values follow the IDs of the materials used.  matindices has the    *)
(* same materials in the order of their first use; of it the reader uses   *)
(* the length.                                                             *)
writeCompositeMaterials ==
  LET used == Ascending(UsedMaterials)
  IN  [matindices |-> Len(used),
       values |-> InOrder("composite", LAMBDA c :
                    [k \in DOMAIN used |-> GetMixingRatio(c, used[k])])]

writeMultiProperties ==
  [pids |-> layers,
   pindices |-> InOrder("multi", LAMBDA p :
                  [k \in DOMAIN layers |-> mapPropertyIDToIndex(layers[k], p[k])])]

\* Mutant of writeFace: a face with different corners is written by its first.
writeFaceByFirst(p) ==
  IF ~IsSet(p) \/ (p.group = default.group /\ p.ids[1] = default.ids[1])
  THEN [pid |-> "", p |-> <<>>]
  ELSE [pid |-> p.group, p |-> <<mapPropertyIDToIndex(p.group, p.ids[1])>>]

(* A face with the object's property is written without one.               *)
writeFace(p) ==
  LET same == p.ids[1] = p.ids[2] /\ p.ids[1] = p.ids[3]
  IN  IF ~IsSet(p) \/ (same /\ p.group = default.group /\ p.ids[1] = default.ids[1])
      THEN [pid |-> "", p |-> <<>>]
      ELSE [pid |-> p.group,
            p |-> Mapped(p.group, IF same THEN <<p.ids[1]>> ELSE p.ids)]

Written ==
  [values |-> [g \in Plain |-> InOrder(g, LAMBDA v : v)],
   composites |-> writeCompositeMaterials,
   multis |-> writeMultiProperties,
   object |-> IF IsSet(default)
              THEN [pid |-> default.group,
                    pindex |-> mapPropertyIDToIndex(default.group, default.ids[1])]
              ELSE [pid |-> "", pindex |-> 0],
   triangle |-> writeFace(face)]

Registered(p) == IsSet(p) => \A k \in 1..3 : p.ids[k] \in DOMAIN items[p.group]

(* The writer throws PROPERTYIDNOTFOUND, NOT_ENOUGH_PROPERTYIDS_SPECIFIED  *)
(* or MISSINGOBJECTLEVELPID.                                               *)
CompositeThrows == ~(UsedMaterials \subseteq DOMAIN items["base"])
MultiThrows ==
  \E i \in DOMAIN items["multi"] : \E k \in DOMAIN layers :
    k <= Len(items["multi"][i]) => items["multi"][i][k] \notin DOMAIN items[layers[k]]
MeshThrows ==
  \/ ~Registered(face)
  \/ IsSet(default) /\ default.ids[1] \notin DOMAIN items[default.group]
  \/ IsSet(face) /\ ~IsSet(default)

WriterThrows == CompositeThrows \/ MultiThrows \/ MeshThrows

WriteThrows ==
  /\ Editing /\ WriterThrows = TRUE
  /\ outcome' = "unwritten"
  /\ UNCHANGED <<client, copy>>

-----------------------------------------------------------------------------
(* The reader gives the properties of a group the IDs 1, 2, ... and maps   *)
(* places back to them.                                                    *)

(* The materials of a composite are the first ones of the base materials,  *)
(* as many as matindices lists.                                            *)
readComposites(text) ==
  [i \in DOMAIN text.values |-> [k \in 1..text.matindices |-> <<k, text.values[i][k]>>]]

readTriangle(text) ==
  LET p == text.triangle.p
      corner(k) == IF k \in DOMAIN p THEN p[k] ELSE p[1]
  IN  IF text.triangle.pid # ""
      THEN [group |-> text.triangle.pid, ids |-> [k \in 1..3 |-> corner(k)]]
      ELSE IF text.object.pid # ""
      THEN [group |-> text.object.pid, ids |-> [k \in 1..3 |-> text.object.pindex]]
      ELSE NoProperty

ReadBack(text) ==
  [items |-> [g \in Kinds |->
                CASE g = "composite" -> readComposites(text.composites)
                  [] g = "multi" -> text.multis.pindices
                  [] OTHER -> text.values[g]],
   layers |-> text.multis.pids,
   face |-> readTriangle(text)]

(* pids without entries has no number of blend methods that fits.          *)
ReadThrows == "multi" \in DOMAIN scenario /\ layers = <<>>

WriteAndRead ==
  /\ Editing /\ ~WriterThrows
  /\ indexMap' = [g \in Kinds |-> buildResourceIndexMap(g)]
  /\ IF ReadThrows THEN outcome' = "unread" /\ UNCHANGED copy
     ELSE outcome' = "read" /\ copy' = ReadBack(Written)
  /\ UNCHANGED <<scenario, items, next, layers, face, default, settings>>

-----------------------------------------------------------------------------
(* MergeToModel.  mergeFrom copies the properties in the order of the      *)
(* index map, which numbers them anew; the faces keep their property IDs,  *)
(* and a composite the IDs of its constituents.  Multi property groups     *)
(* with layers are left out: MergeToModel has them.                        *)

\* Mutant of mergeFrom: the properties are copied from the last to the first.
mergeFromBackwards(g) == Reverse(InOrder(g, LAMBDA v : v))

mergeFrom(g) == InOrder(g, LAMBDA v : v)

Merge ==
  /\ Editing /\ layers = <<>>
  /\ indexMap' = [g \in Kinds |-> buildResourceIndexMap(g)]
  /\ IF \A i \in DOMAIN items["composite"] : addComposite(items["composite"][i], mergeFrom("base"))
     THEN /\ outcome' = "merged"
          /\ copy' = [items |-> [g \in Kinds |-> mergeFrom(g)], layers |-> <<>>, face |-> face]
     ELSE outcome' = "unmerged" /\ UNCHANGED copy
  /\ UNCHANGED <<scenario, items, next, layers, face, default, settings>>

-----------------------------------------------------------------------------
Init ==
  /\ scenario \in Scenarios
  /\ items = [g \in Kinds |-> Empty] /\ next = [g \in Kinds |-> 1]
  /\ indexMap = [g \in Kinds |-> NoMap] /\ layers = <<>>
  /\ face = NoProperty /\ default = Null /\ settings = 0
  /\ copy = [items |-> items, layers |-> <<>>, face |-> NoProperty]
  /\ outcome = "editing"

Next ==
  \/ AddMaterial \/ AddColor \/ AddTex2Coord \/ AddComposite \/ AddMultiProperty
  \/ SetMultiProperty \/ RemoveMaterial \/ RemoveColor \/ RemoveTex2Coord \/ RemoveComposite
  \/ RemoveMultiProperty \/ GetAllPropertyIDs \/ AddLayer \/ RemoveLayer
  \/ SetTriangleProperties \/ SetAllTriangleProperties \/ SetObjectLevelProperty
  \/ ClearAllProperties \/ WriteThrows \/ WriteAndRead \/ Merge

Spec == Init /\ [][Next]_propertyVars

-----------------------------------------------------------------------------
(* Properties. *)

(* What a property of a model means: the value made with it, the values of *)
(* a composite's materials with their ratios, or what its layers mean.     *)
SimpleMeaning(m, g, i) ==
  IF i \notin DOMAIN m.items[g] THEN {}
  ELSE IF g = "composite"
  THEN LET c == m.items[g][i]
       IN  {<<m.items["base"][b], GetMixingRatio(c, b)>> :
              b \in {b \in DOMAIN m.items["base"] : GetMixingRatio(c, b) # 0}}
  ELSE {<<m.items[g][i], 1>>}

Meaning(m, g, i) ==
  IF g # "multi" THEN <<SimpleMeaning(m, g, i)>>
  ELSE IF i \notin DOMAIN m.items[g] THEN <<>>
  ELSE [k \in DOMAIN m.layers |-> SimpleMeaning(m, m.layers[k], m.items[g][i][k])]

FaceMeaning(m, p) ==
  IF IsSet(p) THEN [k \in 1..3 |-> Meaning(m, p.group, p.ids[k])] ELSE <<>>

Client == [items |-> items, layers |-> layers]

(* A face without a property has the object's.                             *)
Shown ==
  IF IsSet(face) \/ ~IsSet(default) THEN face
  ELSE [group |-> default.group, ids |-> [k \in 1..3 |-> default.ids[1]]]

(* The composites use the first base materials only.                       *)
CompositesUseTheFirst ==
  \A i \in UsedMaterials, k \in DOMAIN items["base"] : k < i => k \in UsedMaterials

(* FacesKeepTheirProperty: a face read back shows the property it showed   *)
(* when it was written, however the IDs and places of properties differ;   *)
(* composites only if they use the first base materials and no others.     *)
(* And an index map a group has lists the IDs of its properties in order,  *)
(* whatever was added or removed since it was made.                        *)
FacesKeepTheirProperty ==
  /\ outcome = "read" /\ CompositesUseTheFirst =>
       FaceMeaning(copy, copy.face) = FaceMeaning(Client, Shown)
  /\ \A g \in Kinds : indexMap[g] # NoMap => indexMap[g] = buildResourceIndexMap(g)

(* MergedFacesShowTheSame: a face of a merged model shows what it          *)
(* showed unless a property of a group was removed before: MergeToModel    *)
(* numbers the properties anew and leaves the faces' IDs.                  *)
NothingRemoved == \A g \in Kinds : DOMAIN items[g] = 1..(next[g] - 1)
MergedFacesShowTheSame ==
  outcome = "merged" /\ NothingRemoved => FaceMeaning(copy, copy.face) = FaceMeaning(Client, face)

(* CompositesReadBack: the composite of a face read back has the materials *)
(* and mixing ratios of the one written.                                   *)
CompositesReadBack ==
  outcome = "read" => FaceMeaning(copy, copy.face) = FaceMeaning(Client, Shown)
=============================================================================
