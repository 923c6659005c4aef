----------------------------- MODULE SliceStack -----------------------------
(***************************************************************************)
(* The slice stacks of a model.  A stack holds slices, each with the Z of  *)
(* its top, or references to other stacks; CModelSliceStack checks the     *)
(* order in Z and the depth of the references when a slice or a reference  *)
(* is added, and never again.  CollapseSliceReferences copies the slices   *)
(* of the referenced stacks.                                               *)
(*                                                                         *)
(* A stack is created with a bottom Z and stays.  Coordinates are naturals *)
(* up to MaxZ; only their order matters.                                   *)
(***************************************************************************)
EXTENDS Integers, Sequences, FiniteSets, SequencesExt

CONSTANTS
  Stacks,    \* the slice stacks of the model
  MaxZ,      \* the largest Z coordinate
  MaxSlices, \* bound: slices of one stack
  MaxRefs    \* bound: references of one stack

ASSUME SliceStackAssumption ==
  /\ IsFiniteSet(Stacks) /\ Stacks # {}
  /\ {MaxZ, MaxSlices, MaxRefs} \subseteq Nat

VARIABLES
  m_dZBottom,  \* stack -> its bottom
  m_pSlices,   \* stack -> the top Z of its slices, in order
  m_pSliceRefs \* stack -> the stacks it refers to, in order

sliceStackVars == <<m_dZBottom, m_pSlices, m_pSliceRefs>>

AllowsGeometry(s) == m_pSliceRefs[s] = << >>
AllowsReferences(s) == m_pSlices[s] = << >>

Larger(a, b) == IF a >= b THEN a ELSE b

(* The highest of the stack's bottom and its last slice.                   *)
OwnHighestZ(s) ==
  IF m_pSlices[s] = << >> THEN m_dZBottom[s] ELSE Larger(m_dZBottom[s], Last(m_pSlices[s]))

(* getHighestZ: the last reference is asked as well.                       *)
getHighestZ[s \in Stacks] ==
  IF m_pSliceRefs[s] = << >> THEN OwnHighestZ(s)
  ELSE Larger(OwnHighestZ(s), getHighestZ[Last(m_pSliceRefs[s])])

TopOfSlices(s) == IF m_pSlices[s] = << >> THEN m_dZBottom[s] ELSE Last(m_pSlices[s])

(* AddSlice: above the last slice, or the bottom.                          *)
AddSlice(s, z) ==
  /\ Len(m_pSlices[s]) < MaxSlices
  /\ AllowsGeometry(s)
  /\ TopOfSlices(s) < z
  /\ m_pSlices' = [m_pSlices EXCEPT ![s] = Append(@, z)]
  /\ UNCHANGED <<m_dZBottom, m_pSliceRefs>>

\* Mutant of RefAllowed: the other stack may have references.
RefAllowedDeep(s, other) ==
  /\ AllowsReferences(s)
  /\ s # other
  /\ m_dZBottom[other] >= getHighestZ[s]

RefAllowed(s, other) ==
  /\ AllowsReferences(s)
  /\ s # other
  /\ m_pSliceRefs[other] = << >>
  /\ m_dZBottom[other] >= getHighestZ[s]

(* AddSliceRef.                                                            *)
AddSliceRef(s, other) ==
  /\ Len(m_pSliceRefs[s]) < MaxRefs
  /\ RefAllowed(s, other)
  /\ m_pSliceRefs' = [m_pSliceRefs EXCEPT ![s] = Append(@, other)]
  /\ UNCHANGED <<m_dZBottom, m_pSlices>>

(* CollapseSliceReferences: copies of the referenced stacks' own slices    *)
(* take the place of the stack's slices; the references are kept.          *)
CollapseSliceReferences(s) ==
  /\ m_pSlices' = [m_pSlices EXCEPT ![s] =
                     FlattenSeq([i \in DOMAIN m_pSliceRefs[s] |-> m_pSlices[m_pSliceRefs[s][i]]])]
  /\ UNCHANGED <<m_dZBottom, m_pSliceRefs>>

SliceStackInit ==
  /\ m_dZBottom \in [Stacks -> 0..MaxZ]
  /\ m_pSlices = [s \in Stacks |-> << >>]
  /\ m_pSliceRefs = [s \in Stacks |-> << >>]

SliceStackNext ==
  \E s \in Stacks :
    \/ \E z \in 0..MaxZ : AddSlice(s, z)
    \/ \E other \in Stacks : AddSliceRef(s, other)
    \/ CollapseSliceReferences(s)

SliceStackSpec == SliceStackInit /\ [][SliceStackNext]_sliceStackVars

(* ------------------------------------------------------------------------ *)
(* Properties.                                                              *)

(* ReferencesAreOrdered: no stack reaches itself through references (in every
   set of stacks there is one that refers to none of them, so that no set
   holds a cycle), though AddSliceRef only rejects the stack itself and a
   stack that has references at that moment, and a referenced stack may get
   references later: the recursions of getHighestZ and areAllPolygonsClosed
   end.  And each stack that a stack refers to starts at or above the bottom
   of the stack and of the references before it, however they were filled and
   collapsed in between.                                                    *)
ReferencesAreOrdered ==
  /\ \A set \in (SUBSET Stacks) \ {{}} : \E s \in set : Range(m_pSliceRefs[s]) \cap set = {}
  /\ \A s \in Stacks :
       LET bottoms == [i \in DOMAIN m_pSliceRefs[s] |-> m_dZBottom[m_pSliceRefs[s][i]]]
       IN  \A i \in DOMAIN bottoms :
             /\ m_dZBottom[s] <= bottoms[i]
             /\ \A j \in 1..(i - 1) : bottoms[j] <= bottoms[i]
=============================================================================
