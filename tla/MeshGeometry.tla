---------------------------- MODULE MeshGeometry ----------------------------
(***************************************************************************)
(* The geometry of one mesh object: the nodes of its CMesh, the node       *)
(* indices of its faces, its beam lattice (beams and beam sets) and the    *)
(* type of the object; the check IsManifoldAndOriented; and the STL export *)
(* that merges a mesh into a new one once for every build item.            *)
(***************************************************************************)
EXTENDS Naturals, Sequences, SequencesExt, FiniteSets

CONSTANTS MaxNodes,     \* bound: nodes of the mesh
          Triangles,    \* triples of node indices that a caller may pass
          FaceLists,    \* lists of them that SetGeometry may be given
          BeamEnds,     \* pairs of node indices that a caller may pass
          BeamLists,    \* lists of them that SetBeams may be given
          RefLists,     \* lists of beam indices that SetReferences may be given
          MaxElements,  \* bound: faces, beams and beam sets together
          ItemCount,    \* build items of the object
          ObjectTypes   \* types that the object may be given

ASSUME GeometryAssumption ==
  /\ Triangles \subseteq Nat \X Nat \X Nat
  /\ FaceLists \subseteq Seq(Triangles)
  /\ BeamEnds \subseteq Nat \X Nat
  /\ BeamLists \subseteq Seq(BeamEnds)
  /\ RefLists \subseteq Seq(Nat)
  /\ ItemCount \in Nat

VARIABLES geometry,    \* the CMesh
          objectType,  \* m_ObjectType
          stl          \* the last STL export, unless the mesh changed since

geometryVars == <<geometry, objectType, stl>>

NoGeometry == [nodes |-> 0, faces |-> <<>>, beams |-> <<>>, sets |-> <<>>]
NotExported == [items |-> 0, facets |-> <<>>, threw |-> FALSE]

isValidForBeamLattices(t) == t \in {"model", "solidsupport"}

InRange(g, t) == \A j \in DOMAIN t : t[j] < g.nodes
AllDistinct(t) == \A i, j \in DOMAIN t : t[i] = t[j] => i = j

-----------------------------------------------------------------------------
(* The API of CMeshObject. *)

Elements(g) == Len(g.faces) + Len(g.beams) + Len(g.sets)
Edit(g, t) ==
  /\ Elements(g) <= MaxElements
  /\ <<g, t>> # <<geometry, objectType>>
  /\ geometry' = g /\ objectType' = t /\ stl' = NotExported

AddVertex ==
  /\ geometry.nodes < MaxNodes
  /\ Edit([geometry EXCEPT !.nodes = @ + 1], objectType)

(* addFace by indices refuses equal ones and does not look at the nodes.   *)
AddFace ==
  \E t \in Triangles :
    /\ AllDistinct(t)
    /\ Edit([geometry EXCEPT !.faces = Append(@, t)], objectType)

(* SetTriangle stores any indices.                                         *)
SetTriangle ==
  \E k \in DOMAIN geometry.faces, t \in Triangles :
    Edit([geometry EXCEPT !.faces[k] = t], objectType)

(* SetGeometry clears the mesh with its beam lattice and adds the faces up *)
(* to the first one it refuses, and throws there.                          *)
SetNodesAndFaces ==
  \E n \in 0..MaxNodes, ts \in FaceLists :
    LET g == [NoGeometry EXCEPT !.nodes = n]
        accepted(t) == InRange(g, t) /\ AllDistinct(t)
    IN  \E k \in 0..Len(ts) :
          /\ \A i \in 1..k : accepted(ts[i])
          /\ k < Len(ts) => ~accepted(ts[k + 1])
          /\ Edit([g EXCEPT !.faces = SubSeq(ts, 1, k)], objectType)

(* A mesh with beams keeps a type that may have them.                      *)
SetType ==
  \E t \in ObjectTypes :
    /\ isValidForBeamLattices(t) \/ geometry.beams = <<>>
    /\ Edit(geometry, t)

-----------------------------------------------------------------------------
(* The API of CBeamLattice and CBeamSet. *)

isBeamValid(g, p) == InRange(g, p) /\ AllDistinct(p)

AddBeam ==
  \E p \in BeamEnds :
    /\ isValidForBeamLattices(objectType) /\ isBeamValid(geometry, p)
    /\ Edit([geometry EXCEPT !.beams = Append(@, p)], objectType)

SetBeam ==
  \E k \in DOMAIN geometry.beams, p \in BeamEnds :
    /\ isBeamValid(geometry, p)
    /\ Edit([geometry EXCEPT !.beams[k] = p], objectType)

\* Mutant of clearBeamLattice: the beam sets stay.
clearBeams(g) == [g EXCEPT !.beams = <<>>]

clearBeamLattice(g) == [g EXCEPT !.beams = <<>>, !.sets = <<>>]

(* SetBeams clears the lattice and adds beams up to the first invalid one. *)
SetBeams ==
  \E bs \in BeamLists :
    \E k \in 0..Len(bs) :
      /\ bs # <<>> => isValidForBeamLattices(objectType)
      /\ \A i \in 1..k : isBeamValid(geometry, bs[i])
      /\ k < Len(bs) => ~isBeamValid(geometry, bs[k + 1])
      /\ Edit([clearBeamLattice(geometry) EXCEPT !.beams = SubSeq(bs, 1, k)], objectType)

AddBeamSet == Edit([geometry EXCEPT !.sets = Append(@, <<>>)], objectType)

(* SetReferences resizes the set first, with zeros, and writes references  *)
(* up to the first that names no beam.                                     *)
SetReferences ==
  \E s \in DOMAIN geometry.sets, refs \in RefLists :
    LET old == geometry.sets[s]
        good(k) == \A i \in 1..k : refs[i] < Len(geometry.beams)
    IN  Edit([geometry EXCEPT !.sets[s] =
                [k \in DOMAIN refs |->
                   IF good(k) THEN refs[k] ELSE IF k <= Len(old) THEN old[k] ELSE 0]], objectType)

-----------------------------------------------------------------------------
(* IsManifoldAndOriented. *)

checkSanity(g) ==
  /\ \A k \in DOMAIN g.faces : InRange(g, g.faces[k]) /\ AllDistinct(g.faces[k])
  /\ \A k \in DOMAIN g.beams : InRange(g, g.beams[k]) /\ AllDistinct(g.beams[k])

HalfEdges(g) == (DOMAIN g.faces) \X (1..3)
Start(g, h) == g.faces[h[1]][h[2]]
End(g, h) == g.faces[h[1]][(h[2] % 3) + 1]

(* CPairMatchingTree: an edge is the pair of its nodes in either order.    *)
Match(g, h) == {Start(g, h), End(g, h)}

PositiveOrientations(g, e) ==
  Cardinality({h \in HalfEdges(g) : Match(g, h) = e /\ Start(g, h) <= End(g, h)})
NegativeOrientations(g, e) ==
  Cardinality({h \in HalfEdges(g) : Match(g, h) = e /\ Start(g, h) > End(g, h)})

\* Mutant of isManifoldAndOriented: edges are counted, not their orientations.
isManifold(g) ==
  /\ checkSanity(g) /\ g.nodes >= 3 /\ Len(g.faces) >= 3
  /\ \A e \in {Match(g, h) : h \in HalfEdges(g)} :
       PositiveOrientations(g, e) + NegativeOrientations(g, e) = 2

isManifoldAndOriented(g) ==
  /\ checkSanity(g) /\ g.nodes >= 3 /\ Len(g.faces) >= 3
  /\ \A e \in {Match(g, h) : h \in HalfEdges(g)} :
       PositiveOrientations(g, e) = 1 /\ NegativeOrientations(g, e) = 1

-----------------------------------------------------------------------------
(* The STL export. *)

(* The merged mesh has the positions of its nodes: <<item, node>>.         *)
\* Mutant of mergeGeometry: the faces keep the node indices of the source.
mergeInPlace(m, g, item) ==
  [nodes |-> m.nodes \o [n \in 1..g.nodes |-> <<item, n - 1>>],
   faces |-> IF g.nodes = 0 THEN m.faces ELSE m.faces \o g.faces]

mergeGeometry(m, g, item) ==
  [nodes |-> m.nodes \o [n \in 1..g.nodes |-> <<item, n - 1>>],
   faces |-> IF g.nodes = 0 THEN m.faces
             ELSE m.faces \o [k \in DOMAIN g.faces |->
                                [j \in 1..3 |-> Len(m.nodes) + g.faces[k][j]]]]

(* mergeMesh throws at a face or beam whose nodes do not exist or repeat.  *)
mergeThrows(g) == g.nodes > 0 /\ ~checkSanity(g)

(* CModel::mergeToMesh: one merge for every build item.                    *)
mergeToMesh(g, n) ==
  LET M[k \in 0..n] ==
        IF k = 0 THEN [nodes |-> <<>>, faces |-> <<>>] ELSE mergeGeometry(M[k - 1], g, k)
  IN  M[n]

exportMeshEx(m) ==
  [k \in DOMAIN m.faces |-> [j \in 1..3 |-> m.nodes[m.faces[k][j] + 1]]]

ExportSTL ==
  /\ stl = NotExported
  /\ stl' = IF mergeThrows(geometry) THEN [items |-> ItemCount, facets |-> <<>>, threw |-> TRUE]
            ELSE [items |-> ItemCount, threw |-> FALSE,
                  facets |-> exportMeshEx(mergeToMesh(geometry, ItemCount))]
  /\ UNCHANGED <<geometry, objectType>>

GeometryInit == geometry = NoGeometry /\ objectType = "model" /\ stl = NotExported

GeometryNext ==
  \/ AddVertex \/ AddFace \/ SetTriangle \/ SetNodesAndFaces \/ SetType
  \/ AddBeam \/ SetBeam \/ SetBeams \/ AddBeamSet \/ SetReferences \/ ExportSTL

GeometrySpec == GeometryInit /\ [][GeometryNext]_geometryVars

-----------------------------------------------------------------------------
(* Properties. *)

(* ManifoldIsClosed: isManifoldAndOriented accepts exactly the sane meshes *)
(* of three or more faces in which no two faces run along an edge in the   *)
(* same direction and each is met by one that runs against it.             *)
ManifoldIsClosed ==
  LET H == HalfEdges(geometry)
      dir(h) == <<Start(geometry, h), End(geometry, h)>>
  IN  isManifoldAndOriented(geometry) <=>
        /\ checkSanity(geometry) /\ Len(geometry.faces) > 2
        /\ \A h, i \in H : dir(h) = dir(i) => h = i
        /\ \A h \in H : \E i \in H : dir(i) = <<dir(h)[2], dir(h)[1]>>

(* LatticeIsSane: whatever is done to the mesh, its beams join two nodes   *)
(* it has, its type is one that may have beams, and, as long as it has     *)
(* beams, its beam sets name them; a set of a mesh without beams may hold  *)
(* the zeros a refused SetReferences left.                                 *)
LatticeIsSane ==
  /\ \A k \in DOMAIN geometry.beams : isBeamValid(geometry, geometry.beams[k])
  /\ geometry.beams # <<>> =>
       /\ isValidForBeamLattices(objectType)
       /\ \A s \in DOMAIN geometry.sets : \A k \in DOMAIN geometry.sets[s] :
            geometry.sets[s][k] < Len(geometry.beams)

(* FacetsAreTheFaces: an STL file that was written has, for every build    *)
(* item, the faces of its mesh with the item's own positions, in order     *)
(* (and nothing if the mesh has no nodes).                                 *)
FacetsAreTheFaces ==
  stl.items > 0 /\ ~stl.threw /\ geometry.nodes > 0 =>
    stl.facets = FlattenSeq([n \in 1..stl.items |->
                   [k \in DOMAIN geometry.faces |->
                      [j \in 1..3 |-> <<n, geometry.faces[k][j]>>]]])
=============================================================================
