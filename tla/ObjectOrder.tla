----------------------------- MODULE ObjectOrder -----------------------------
(***************************************************************************)
(* The objects of a model and what they refer to: a components object has  *)
(* components, each of which is an object; a mesh object with a beam       *)
(* lattice may name a clipping and a representation mesh.  The writer      *)
(* writes the objects in the order of getSortedObjectList, and the reader  *)
(* accepts a reference only to an object it has read.                      *)
(*                                                                         *)
(* An object is its unique ID, its place in the order of construction; the *)
(* object lookup table has the same order (ResourceModel).  Clipping and   *)
(* representation mesh are set and written alike: m_nRepresentationID      *)
(* stands for both.                                                        *)
(***************************************************************************)
EXTENDS Integers, Sequences, FiniteSets, SequencesExt

CONSTANTS
  MaxObjects,    \* bound: objects of the model
  MaxComponents  \* bound: components of one object

ASSUME ObjectOrderAssumption == {MaxObjects, MaxComponents} \subseteq Nat \ {0}

VARIABLES
  kind,                \* object -> "mesh" or "components"
  m_Components,        \* object -> the objects of its components
  m_nRepresentationID  \* object -> the mesh it names, 0 is none

objectOrderVars == <<kind, m_Components, m_nRepresentationID>>

Objects == DOMAIN kind

(* AddMeshObject and AddComponentsObject of the API.                       *)
AddObject(k) ==
  /\ Len(kind) < MaxObjects
  /\ kind' = Append(kind, k)
  /\ m_Components' = Append(m_Components, << >>)
  /\ m_nRepresentationID' = Append(m_nRepresentationID, 0)

(* An object element of a file: its components must name objects that are  *)
(* already in the model, which the object itself is not.                   *)
ReadComponentsObject(components) ==
  /\ Len(kind) < MaxObjects
  /\ Range(components) \subseteq Objects
  /\ kind' = Append(kind, "components")
  /\ m_Components' = Append(m_Components, components)
  /\ m_nRepresentationID' = Append(m_nRepresentationID, 0)

(* AddComponent of the API refuses the object itself, and no other.        *)
AddComponent(o, component) ==
  /\ kind[o] = "components" /\ component # o
  /\ Len(m_Components[o]) < MaxComponents
  /\ m_Components' = [m_Components EXCEPT ![o] = Append(@, component)]
  /\ UNCHANGED <<kind, m_nRepresentationID>>

(* 1 if a comes before b in the object lookup table, -1 if after.          *)
compareObjectsByResourceID(a, b) ==
  CASE a < b -> 1 [] a > b -> -1 [] OTHER -> 0

(* SetRepresentation and SetClipping, and SetRepresentation(0).            *)
SetRepresentation(o, mesh) ==
  /\ kind[o] = "mesh" /\ kind[mesh] = "mesh"
  /\ compareObjectsByResourceID(mesh, o) >= 0
  /\ m_nRepresentationID' = [m_nRepresentationID EXCEPT ![o] = mesh]
  /\ UNCHANGED <<kind, m_Components>>

ClearRepresentation(o) ==
  /\ kind[o] = "mesh"
  /\ m_nRepresentationID' = [m_nRepresentationID EXCEPT ![o] = 0]
  /\ UNCHANGED <<kind, m_Components>>

ObjectOrderInit == kind = << >> /\ m_Components = << >> /\ m_nRepresentationID = << >>

ObjectOrderNext ==
  \/ \E k \in {"mesh", "components"} : AddObject(k)
  \/ \E components \in BoundedSeq(Objects, MaxComponents) : ReadComponentsObject(components)
  \/ \E o, component \in Objects : AddComponent(o, component)
  \/ \E o, mesh \in Objects : SetRepresentation(o, mesh)
  \/ \E o \in Objects : ClearRepresentation(o)

ObjectOrderSpec == ObjectOrderInit /\ [][ObjectOrderNext]_objectOrderVars

(* ------------------------------------------------------------------------ *)
(* getSortedObjectList.                                                     *)

(* calculateComponentDepthLevel(n) is called for these objects: with 1 for *)
(* every object, and with one more for the components of an object.        *)
Visited[n \in 1..(MaxObjects + 1)] ==
  IF n = 1 THEN Objects
  ELSE UNION {Range(m_Components[o]) : o \in Visited[n - 1]}

(* The recursion of calculateComponentDepthLevel, and with it those of     *)
(* mergeToMesh, isValid, hasSlices and extendOutbox, comes to an end.      *)
Acyclic == Visited[Len(kind) + 1] = {}

\* Mutant of ComponentDepthLevel: the smallest level wins.
SmallestDepthLevel(o) == Min({n \in 1..MaxObjects : o \in Visited[n]})

(* The largest level with which an object was visited.                     *)
ComponentDepthLevel(o) == Max({n \in 1..MaxObjects : o \in Visited[n]})

WrittenBefore(a, b) ==
  \/ ComponentDepthLevel(a) > ComponentDepthLevel(b)
  \/ ComponentDepthLevel(a) = ComponentDepthLevel(b) /\ a < b

(* std::list::sort: at place i is the object with i - 1 objects before it. *)
getSortedObjectList ==
  [i \in Objects |->
     CHOOSE o \in Objects : Cardinality({b \in Objects : WrittenBefore(b, o)}) = i - 1]

(* ------------------------------------------------------------------------ *)
(* Properties.                                                              *)

(* ComponentsAreWrittenFirst: however components were nested, by the API or by
   a file, getSortedObjectList has every object once and every component's
   object before the object that uses it, so that the reader finds it; the
   mesh a beam lattice names comes before the mesh that names it, unless that
   one is nested deeper (SetRepresentation compares the wrong order then) or
   is the same.                                                            *)
ComponentsAreWrittenFirst ==
  Acyclic =>
    LET list == getSortedObjectList
        before(a, b) == \E i, j \in DOMAIN list : i < j /\ list[i] = a /\ list[j] = b
    IN  /\ Len(list) = Len(kind) /\ Range(list) = Objects
        /\ \A o \in Objects :
             /\ \A used \in Range(m_Components[o]) : before(used, o)
             /\ LET r == m_nRepresentationID[o] IN
                \/ r \in {0, o} \/ before(r, o)
                \/ ComponentDepthLevel(o) > ComponentDepthLevel(r)
=============================================================================
