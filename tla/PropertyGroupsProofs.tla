------------------------ MODULE PropertyGroupsProofs ------------------------
(***************************************************************************)
(* What PropertyGroups promises of the properties that faces show, for     *)
(* groups and composites of any size, any number of layers and whatever    *)
(* was added, set and removed before.                                      *)
(*                                                                         *)
(* The index map of a group lists its IDs in order: Ascending is that list *)
(* (AscendingIDs), and the place of an ID in it leads back to the ID       *)
(* (PlacesOfIDs).  From this follows, kind of group by kind of group, what *)
(* the reader makes of what the writer wrote, up to FaceReadBack.  The     *)
(* invariant is then that the model fits its declarations, and the two     *)
(* properties; an index map stays that of its group because every          *)
(* operation that changes a group's IDs clears it.                         *)
(***************************************************************************)
EXTENDS PropertyGroups, ListTheorems

-----------------------------------------------------------------------------
(* Lists of IDs in order. *)

(* AscendingIDs: Ascending lists every ID of a set, at the place after the *)
(* smaller ones.                                                           *)
LEMMA AscendingIDs ==
  ASSUME NEW S, S \subseteq Nat, IsFiniteSet(S)
  PROVE  /\ Cardinality(S) \in Nat /\ Ascending(S) \in [1..Cardinality(S) -> S]
         /\ \A k \in 1..Cardinality(S) :
              Cardinality({j \in S : j < Ascending(S)[k]}) = k - 1
         /\ \A i \in S :
              /\ Cardinality({j \in S : j < i}) \in Nat
              /\ Cardinality({j \in S : j < i}) + 1 \in 1..Cardinality(S)
              /\ Ascending(S)[Cardinality({j \in S : j < i}) + 1] = i
<1> DEFINE R == {p \in S \X S : p[1] < p[2]}
           P(i) == Predecessors(R, S, i)
           C(i) == Cardinality({j \in S : j < i})
           n == Cardinality(S)
<1>1. n \in Nat
  BY FS_CardinalityType
<1>2. \A a, b \in S : <<a, b>> \in R <=> a < b
  OBVIOUS
<1>3. Orders(R, S)
  <2> HIDE DEF R
  <2> QED BY <1>2 DEF Orders
<1>4. ASSUME NEW i \in S PROVE {j \in S : j < i} = P(i)
  BY <1>2 DEF Predecessors
<1> HIDE DEF R, n
<1>5. \A i \in S : Cardinality(P(i)) \in Nat /\ Cardinality(P(i)) + 1 \in 1..n
  BY <1>3, EveryPlaceIsTaken DEF n
<1>6. \A k \in 1..n : \E i \in S : Cardinality(P(i)) = k - 1
  BY <1>3, EveryPlaceIsTaken DEF n
<1>7. ASSUME NEW a \in S, NEW b \in S, Cardinality(P(a)) = Cardinality(P(b)) PROVE a = b
  <2>1. \A x, y \in S :
          Cardinality(Predecessors(R, S, x)) = Cardinality(Predecessors(R, S, y)) => x = y
    BY <1>3, EveryPlaceIsTaken, SMTT(30)
  <2> QED BY <1>7, <2>1, Zenon
<1>8. \A i \in S : C(i) = Cardinality(P(i))
  BY <1>4
<1> HIDE DEF P, C
<1> DEFINE Place(k) == CHOOSE i \in S : C(i) = k - 1
<1>9. ASSUME NEW k \in 1..n PROVE Place(k) \in S /\ C(Place(k)) = k - 1
  BY <1>6, <1>8
<1>10. Ascending(S) = [k \in 1..n |-> Place(k)]
  BY DEF Ascending, C, n
<1> HIDE DEF Place
<1>11. Ascending(S) \in [1..n -> S] /\ \A k \in 1..n : C(Ascending(S)[k]) = k - 1
  BY <1>9, <1>10
<1>12. ASSUME NEW i \in S PROVE C(i) \in Nat /\ C(i) + 1 \in 1..n /\ Ascending(S)[C(i) + 1] = i
  <2>1. C(i) \in Nat /\ C(i) + 1 \in 1..n
    BY <1>5, <1>8
  <2> DEFINE a == Ascending(S)[C(i) + 1]
  <2>2. a \in S /\ C(a) = C(i)
    BY <1>11, <2>1
  <2> HIDE DEF a
  <2>3. a = i
    BY <1>7, <1>8, <2>2
  <2> QED BY <2>1, <2>3 DEF a
<1> QED BY <1>1, <1>11, <1>12 DEF C, n

(* AscendingInterval: the list of 1 to n is 1, 2, ..., n.                  *)
LEMMA AscendingInterval ==
  ASSUME NEW n \in Nat
  PROVE  Ascending(1..n) = [k \in 1..n |-> k]
<1>1. IsFiniteSet(1..n) /\ Cardinality(1..n) = n /\ 1..n \subseteq Nat
  BY FS_Interval
<1>2. ASSUME NEW k \in 1..n PROVE Ascending(1..n)[k] = k
  <2>1. {j \in 1..n : j < k} = 1..(k - 1)
    OBVIOUS
  <2>2. Cardinality(1..(k - 1)) = k - 1
    BY FS_Interval
  <2>3. Ascending(1..n)[Cardinality({j \in 1..n : j < k}) + 1] = k
    BY <1>1, AscendingIDs
  <2>4. (k - 1) + 1 = k
    OBVIOUS
  <2> QED BY <2>1, <2>2, <2>3, <2>4
<1>3. Ascending(1..n) \in [1..n -> 1..n]
  BY <1>1, AscendingIDs
<1> QED BY <1>2, <1>3

(* AscendingStart: if the smaller members of a set S are all in a part V   *)
(* of it, the list of S starts with the list of V.                         *)
LEMMA AscendingStart ==
  ASSUME NEW S, S \subseteq Nat, IsFiniteSet(S), NEW V, V \subseteq S,
         \A i \in V, j \in S : j < i => j \in V
  PROVE  /\ IsFiniteSet(V) /\ V \subseteq Nat
         /\ \A k \in 1..Cardinality(V) :
              k \in 1..Cardinality(S) /\ Ascending(V)[k] = Ascending(S)[k]
<1>1. IsFiniteSet(V) /\ V \subseteq Nat
  BY FS_Subset
<1>2. ASSUME NEW k \in 1..Cardinality(V)
      PROVE  k \in 1..Cardinality(S) /\ Ascending(V)[k] = Ascending(S)[k]
  <2> DEFINE i == Ascending(V)[k]
  <2>1. i \in V /\ Cardinality({j \in V : j < i}) = k - 1 /\ Cardinality(V) \in Nat
    BY <1>1, AscendingIDs
  <2> HIDE DEF i
  <2>2. {j \in V : j < i} = {j \in S : j < i}
    BY <2>1
  <2>3. /\ Cardinality({j \in S : j < i}) + 1 \in 1..Cardinality(S)
        /\ Ascending(S)[Cardinality({j \in S : j < i}) + 1] = i
    BY <2>1, AscendingIDs
  <2>4. Cardinality({j \in S : j < i}) + 1 = k
    BY <2>1, <2>2
  <2> QED BY <2>3, <2>4 DEF i
<1> QED BY <1>1, <1>2

-----------------------------------------------------------------------------
(* What is read back. *)

(* The groups and the mesh are what they are declared to be.               *)
ModelFits ==
  /\ DOMAIN items = Kinds /\ next \in [Kinds -> Nat \ {0}] /\ DOMAIN indexMap = Kinds
  /\ \A g \in Kinds : /\ DOMAIN items[g] \subseteq 1..(next[g] - 1)
                      /\ items[g] = [i \in DOMAIN items[g] |-> items[g][i]]
  /\ \A i \in DOMAIN items["composite"] : items["composite"][i] \in Seq(IDs \X Ratios)
  /\ layers \in Seq(Kinds \ {"multi"})
  /\ face \in Properties \cup {NoProperty}
  /\ default \in Properties \cup {NoProperty, Null}

(* PlacesOfIDs: the index map of a group lists its IDs, and the writer     *)
(* finds each of them.                                                     *)
LEMMA PlacesOfIDs ==
  ASSUME ModelFits, NEW g \in Kinds
  PROVE  /\ DOMAIN items[g] \subseteq Nat /\ IsFiniteSet(DOMAIN items[g])
         /\ Cardinality(DOMAIN items[g]) \in Nat
         /\ buildResourceIndexMap(g) \in [1..Cardinality(DOMAIN items[g]) -> DOMAIN items[g]]
         /\ \A i \in DOMAIN items[g] :
              /\ mapPropertyIDToIndex(g, i) \in 1..Cardinality(DOMAIN items[g])
              /\ buildResourceIndexMap(g)[mapPropertyIDToIndex(g, i)] = i
<1> DEFINE D == DOMAIN items[g]
           M == buildResourceIndexMap(g)
<1>1. D \subseteq Nat /\ IsFiniteSet(D)
  <2>1. D \in SUBSET (1..(next[g] - 1)) /\ next[g] - 1 \in Int
    BY DEF ModelFits
  <2> HIDE DEF D
  <2>2. IsFiniteSet(1..(next[g] - 1))
    BY <2>1, FS_Interval
  <2>3. IsFiniteSet(D)
    BY <2>1, <2>2, FS_Subset
  <2> QED BY <2>1, <2>3
<1>2. M = Ascending(D)
  BY DEF buildResourceIndexMap
<1> HIDE DEF D, M
<1>3. /\ Cardinality(D) \in Nat /\ M \in [1..Cardinality(D) -> D]
      /\ \A i \in D : \E k \in DOMAIN M : M[k] = i
  BY <1>1, <1>2, AscendingIDs
<1>4. ASSUME NEW i \in D
      PROVE  mapPropertyIDToIndex(g, i) \in DOMAIN M /\ M[mapPropertyIDToIndex(g, i)] = i
  <2>1. \E k \in DOMAIN M : M[k] = i
    BY <1>3
  <2>2. mapPropertyIDToIndex(g, i) = CHOOSE k \in DOMAIN M : M[k] = i
    BY DEF mapPropertyIDToIndex, M
  <2> QED BY <2>1, <2>2
<1> QED BY <1>1, <1>3, <1>4 DEF D, M

(* ReadGroups: the groups read back have the properties of the written     *)
(* ones by their places.                                                   *)
LEMMA ReadGroups ==
  ASSUME ModelFits, ~CompositeThrows
  PROVE  LET read == ReadBack(Written) IN
         /\ \A g \in Kinds : DOMAIN read.items[g] = 1..Cardinality(DOMAIN items[g])
         /\ \A g \in Plain : \A k \in DOMAIN read.items[g] :
              read.items[g][k] = items[g][buildResourceIndexMap(g)[k]]
         /\ \A k \in DOMAIN read.items["composite"] :
              read.items["composite"][k] =
                [b \in 1..Cardinality(UsedMaterials) |->
                   <<b, GetMixingRatio(items["composite"][buildResourceIndexMap("composite")[k]],
                                       Ascending(UsedMaterials)[b])>>]
         /\ \A k \in DOMAIN read.items["multi"] :
              read.items["multi"][k] =
                [l \in DOMAIN layers |->
                   mapPropertyIDToIndex(layers[l],
                                        items["multi"][buildResourceIndexMap("multi")[k]][l])]
         /\ read.layers = layers /\ read.face = readTriangle(Written)
<1> DEFINE read == ReadBack(Written)
           M(g) == buildResourceIndexMap(g)
<1>1. \A g \in Kinds : DOMAIN M(g) = 1..Cardinality(DOMAIN items[g])
  BY PlacesOfIDs
<1> HIDE DEF M
<1>2. ASSUME NEW g \in Plain PROVE Written.values[g] = [k \in DOMAIN M(g) |-> items[g][M(g)[k]]]
  BY DEF Written, InOrder, M
<1>3. Written.multis.pids = layers
      /\ Written.multis.pindices =
           [k \in DOMAIN M("multi") |-> [l \in DOMAIN layers |->
              mapPropertyIDToIndex(layers[l], items["multi"][M("multi")[k]][l])]]
  BY DEF Written, writeMultiProperties, InOrder, M
<1>4. Cardinality(UsedMaterials) \in Nat /\ Len(Ascending(UsedMaterials)) = Cardinality(UsedMaterials)
      /\ DOMAIN Ascending(UsedMaterials) = 1..Cardinality(UsedMaterials)
  <2>1. UsedMaterials \subseteq Nat /\ IsFiniteSet(UsedMaterials)
    <3>1. UsedMaterials \in SUBSET (DOMAIN items["base"])
      BY DEF CompositeThrows
    <3> HIDE DEF UsedMaterials
    <3>2. DOMAIN items["base"] \subseteq Nat /\ IsFiniteSet(DOMAIN items["base"])
      BY PlacesOfIDs DEF Kinds, Plain
    <3> QED BY <3>1, <3>2, FS_Subset
  <2> HIDE DEF UsedMaterials
  <2> DEFINE n == Cardinality(UsedMaterials)
             used == Ascending(UsedMaterials)
  <2>2. n \in Nat /\ used \in [1..n -> UsedMaterials]
    BY <2>1, AscendingIDs
  <2> HIDE DEF n, used
  <2>3. DOMAIN used = 1..n /\ Len(used) = n
    BY <2>2
  <2> QED BY <2>2, <2>3 DEF n, used
<1>5. /\ Written.composites.matindices = Cardinality(UsedMaterials)
      /\ Written.composites.values =
           [k \in DOMAIN M("composite") |-> [b \in 1..Cardinality(UsedMaterials) |->
              GetMixingRatio(items["composite"][M("composite")[k]], Ascending(UsedMaterials)[b])]]
  <2> DEFINE used == Ascending(UsedMaterials)
  <2>1. writeCompositeMaterials =
          [matindices |-> Len(used),
           values |-> [k \in DOMAIN M("composite") |->
              [b \in DOMAIN used |-> GetMixingRatio(items["composite"][M("composite")[k]], used[b])]]]
    BY DEF writeCompositeMaterials, InOrder, M
  <2>2. Len(used) = Cardinality(UsedMaterials) /\ DOMAIN used = 1..Cardinality(UsedMaterials)
    BY <1>4
  <2>3. Written.composites = writeCompositeMaterials
    BY DEF Written
  <2> HIDE DEF used
  <2> QED BY <2>1, <2>2, <2>3 DEF used
<1>6. readComposites(Written.composites) =
        [k \in DOMAIN M("composite") |-> [b \in 1..Cardinality(UsedMaterials) |->
           <<b, GetMixingRatio(items["composite"][M("composite")[k]], Ascending(UsedMaterials)[b])>>]]
  BY <1>5 DEF readComposites
<1>7. /\ \A g \in Plain : read.items[g] = Written.values[g]
      /\ read.items["composite"] = readComposites(Written.composites)
      /\ read.items["multi"] = Written.multis.pindices
      /\ read.layers = Written.multis.pids /\ read.face = readTriangle(Written)
  BY DEF ReadBack, Kinds, Plain
<1> HIDE DEF read
<1>8. ASSUME NEW g \in Kinds PROVE DOMAIN read.items[g] = DOMAIN M(g)
  <2>1. CASE g \in Plain
    BY <1>2, <1>7, <2>1
  <2>2. CASE g = "composite"
    BY <1>6, <1>7, <2>2
  <2>3. CASE g = "multi"
    BY <1>3, <1>7, <2>3
  <2> QED BY <2>1, <2>2, <2>3 DEF Kinds
<1>9. \A g \in Kinds : DOMAIN read.items[g] = 1..Cardinality(DOMAIN items[g])
  BY <1>1, <1>8
<1>10. ASSUME NEW g \in Plain, NEW k \in DOMAIN read.items[g]
       PROVE  read.items[g][k] = items[g][M(g)[k]]
  <2>1. read.items[g] = [j \in DOMAIN M(g) |-> items[g][M(g)[j]]]
    BY <1>2, <1>7
  <2> QED BY <2>1
<1>11. \A k \in DOMAIN read.items["composite"] :
         read.items["composite"][k] =
           [b \in 1..Cardinality(UsedMaterials) |->
              <<b, GetMixingRatio(items["composite"][M("composite")[k]], Ascending(UsedMaterials)[b])>>]
  BY <1>6, <1>7
<1>12. \A k \in DOMAIN read.items["multi"] :
         read.items["multi"][k] =
           [l \in DOMAIN layers |-> mapPropertyIDToIndex(layers[l], items["multi"][M("multi")[k]][l])]
  BY <1>3, <1>7
<1>13. read.layers = layers /\ read.face = readTriangle(Written)
  BY <1>3, <1>7
<1> QED BY <1>9, <1>10, <1>11, <1>12, <1>13, Zenon DEF read, M

(* MixingRatios: the ratio of a material is the first constituent's that   *)
(* names it.                                                               *)
LEMMA MixingRatios ==
  ASSUME NEW n \in Nat, NEW ratio, NEW c, DOMAIN c = 1..n,
         \A k \in 1..n : c[k][1] = k /\ c[k][2] = ratio[k], NEW b
  PROVE  GetMixingRatio(c, b) = IF b \in 1..n THEN ratio[b] ELSE 0
<1>1. DOMAIN c = 1..n /\ \A k \in 1..n : c[k][1] = k /\ c[k][2] = ratio[k]
  OBVIOUS
<1>2. (\E k \in DOMAIN c : c[k][1] = b) <=> b \in 1..n
  BY <1>1
<1>3. CASE b \notin 1..n
  BY <1>2, <1>3 DEF GetMixingRatio
<1>4. CASE b \in 1..n
  <2> DEFINE P(k) == c[k][1] = b /\ \A j \in 1..(k - 1) : c[j][1] # b
             x == CHOOSE k \in DOMAIN c : P(k)
  <2>1. \A j \in 1..(b - 1) : j \in 1..n
    BY <1>4
  <2>2. b \in DOMAIN c /\ P(b)
    BY <1>1, <1>4, <2>1
  <2>3. x \in DOMAIN c /\ P(x)
    <3> HIDE DEF P
    <3> QED BY <2>2
  <2> HIDE DEF x
  <2>4. x = b
    BY <1>1, <2>3
  <2>5. GetMixingRatio(c, b) = c[x][2]
    BY <1>2, <1>4 DEF GetMixingRatio, x
  <2> QED BY <1>1, <1>4, <2>4, <2>5
<1> QED BY <1>3, <1>4

(* UsedByComposite: a material with a ratio in a composite is used.        *)
LEMMA UsedByComposite ==
  ASSUME NEW i \in DOMAIN items["composite"], NEW b,
         GetMixingRatio(items["composite"][i], b) # 0
  PROVE  b \in UsedMaterials
<1>1. PICK k \in DOMAIN items["composite"][i] : items["composite"][i][k][1] = b
  BY DEF GetMixingRatio
<1> QED BY <1>1 DEF UsedMaterials

(* CompositeReadBack: a composite read back has the materials and ratios   *)
(* of the written one, if the composites use the first materials.          *)
LEMMA CompositeReadBack ==
  ASSUME ModelFits, ~CompositeThrows, CompositesUseTheFirst,
         NEW i \in DOMAIN items["composite"]
  PROVE  SimpleMeaning(ReadBack(Written), "composite", mapPropertyIDToIndex("composite", i))
           = SimpleMeaning(Client, "composite", i)
<1> DEFINE read == ReadBack(Written)
           k == mapPropertyIDToIndex("composite", i)
           c == items["composite"][i]
           M == buildResourceIndexMap("base")
           D == DOMAIN items["base"]
           V == UsedMaterials
           n == Cardinality(V)
           ratio == [b \in 1..n |-> GetMixingRatio(c, Ascending(V)[b])]
           r == read.items["composite"][k]
<1>1. /\ D \subseteq Nat /\ IsFiniteSet(D) /\ V \subseteq D /\ M = Ascending(D)
      /\ \A j \in V, l \in D : l < j => l \in V
  <2>1. D \subseteq Nat /\ IsFiniteSet(D)
    BY PlacesOfIDs DEF Kinds, Plain
  <2>2. V \subseteq D
    BY DEF CompositeThrows
  <2>3. \A j \in V, l \in D : l < j => l \in V
    BY DEF CompositesUseTheFirst
  <2> QED BY <2>1, <2>2, <2>3 DEF buildResourceIndexMap
<1> HIDE DEF V, D, M
<1>2. /\ IsFiniteSet(V) /\ V \subseteq Nat
      /\ \A b \in 1..n : b \in 1..Cardinality(D) /\ Ascending(V)[b] = M[b]
  <2>1. D \subseteq Nat /\ IsFiniteSet(D) /\ V \subseteq D /\ \A j \in V, l \in D : l < j => l \in V
    BY <1>1
  <2>2. /\ IsFiniteSet(V) /\ V \subseteq Nat
        /\ \A b \in 1..Cardinality(V) :
             b \in 1..Cardinality(D) /\ Ascending(V)[b] = Ascending(D)[b]
    BY <2>1, AscendingStart, Zenon
  <2> QED BY <1>1, <2>2
<1>3. n \in Nat /\ \A j \in V : \E b \in 1..n : Ascending(V)[b] = j
  <2>1. /\ Cardinality(V) \in Nat
        /\ \A j \in V : /\ Cardinality({l \in V : l < j}) + 1 \in 1..Cardinality(V)
                        /\ Ascending(V)[Cardinality({l \in V : l < j}) + 1] = j
    BY <1>2, AscendingIDs
  <2> QED BY <2>1
<1>4. /\ k \in DOMAIN read.items["composite"]
      /\ buildResourceIndexMap("composite")[k] = i
      /\ DOMAIN read.items["base"] = 1..Cardinality(D)
      /\ \A b \in 1..Cardinality(D) : read.items["base"][b] = items["base"][M[b]] /\ M[b] \in D
  <2>1. /\ k \in 1..Cardinality(DOMAIN items["composite"])
        /\ buildResourceIndexMap("composite")[k] = i
    BY PlacesOfIDs DEF Kinds
  <2>2. M \in [1..Cardinality(D) -> D]
    BY PlacesOfIDs DEF Kinds, Plain, M, D
  <2>3. /\ DOMAIN read.items["composite"] = 1..Cardinality(DOMAIN items["composite"])
        /\ DOMAIN read.items["base"] = 1..Cardinality(D)
    BY ReadGroups DEF Kinds, Plain, D
  <2>4. \A b \in DOMAIN read.items["base"] : read.items["base"][b] = items["base"][M[b]]
    BY ReadGroups DEF Plain, M
  <2> HIDE DEF read, k
  <2> QED BY <2>1, <2>2, <2>3, <2>4
<1>5. r = [b \in 1..n |-> <<b, ratio[b]>>]
  <2>1. r = [b \in 1..n |-> <<b, GetMixingRatio(items["composite"][buildResourceIndexMap("composite")[k]],
                                                Ascending(V)[b])>>]
    BY <1>4, ReadGroups DEF V
  <2> HIDE DEF r, k
  <2> QED BY <1>4, <2>1
<1> HIDE DEF read, k, r
<1>6. \A b : GetMixingRatio(r, b) = IF b \in 1..n THEN GetMixingRatio(c, Ascending(V)[b]) ELSE 0
  <2>1. \A b : GetMixingRatio(r, b) = IF b \in 1..n THEN ratio[b] ELSE 0
    <3> HIDE DEF ratio, n
    <3>1. ASSUME NEW b PROVE GetMixingRatio(r, b) = IF b \in 1..n THEN ratio[b] ELSE 0
      <4>1. n \in Nat
        BY <1>3
      <4>2. DOMAIN r = 1..n /\ \A a \in 1..n : r[a][1] = a /\ r[a][2] = ratio[a]
        BY <1>5
      <4> QED BY <4>1, <4>2, MixingRatios
    <3> QED BY <3>1
  <2> QED BY <2>1
<1>7. SimpleMeaning(read, "composite", k)
        = {<<read.items["base"][b], GetMixingRatio(r, b)>> :
             b \in {b \in DOMAIN read.items["base"] : GetMixingRatio(r, b) # 0}}
  BY <1>4 DEF SimpleMeaning, r
<1>8. SimpleMeaning(Client, "composite", i)
        = {<<items["base"][b], GetMixingRatio(c, b)>> : b \in {b \in D : GetMixingRatio(c, b) # 0}}
  BY DEF SimpleMeaning, Client, D
<1>9. \A b : GetMixingRatio(c, b) # 0 => b \in V
  BY UsedByComposite DEF V
<1> HIDE DEF c, ratio, n
<1>10. \A b \in 1..n : Ascending(V)[b] = M[b] /\ M[b] \in D /\ b \in 1..Cardinality(D)
  BY <1>2, <1>4
<1> DEFINE Left == {b \in DOMAIN read.items["base"] : GetMixingRatio(r, b) # 0}
           Right == {b \in D : GetMixingRatio(c, b) # 0}
<1>11. ASSUME NEW b \in Left
       PROVE  M[b] \in Right
              /\ <<read.items["base"][b], GetMixingRatio(r, b)>> = <<items["base"][M[b]], GetMixingRatio(c, M[b])>>
  <2>1. b \in 1..n
    BY <1>6
  <2>2. GetMixingRatio(r, b) = GetMixingRatio(c, M[b])
    BY <1>6, <1>10, <2>1
  <2> QED BY <1>4, <1>10, <2>1, <2>2
<1>12. ASSUME NEW j \in Right PROVE \E b \in Left : M[b] = j
  <2>1. PICK b \in 1..n : Ascending(V)[b] = j
    BY <1>3, <1>9
  <2>2. M[b] = j /\ b \in DOMAIN read.items["base"] /\ GetMixingRatio(r, b) = GetMixingRatio(c, j)
    BY <1>4, <1>6, <1>10, <2>1
  <2> QED BY <2>2
<1> HIDE DEF Left, Right
<1>13. {<<read.items["base"][b], GetMixingRatio(r, b)>> : b \in Left}
         = {<<items["base"][b], GetMixingRatio(c, b)>> : b \in Right}
  BY <1>11, <1>12
<1> QED BY <1>7, <1>8, <1>13 DEF Left, Right, read, k

(* SimpleReadBack: what a property of a group without layers means, its    *)
(* place means in what is read back.                                       *)
LEMMA SimpleReadBack ==
  ASSUME ModelFits, ~CompositeThrows, CompositesUseTheFirst,
         NEW g \in Kinds \ {"multi"}, NEW i \in DOMAIN items[g]
  PROVE  SimpleMeaning(ReadBack(Written), g, mapPropertyIDToIndex(g, i)) = SimpleMeaning(Client, g, i)
<1>1. CASE g = "composite"
  BY <1>1, CompositeReadBack
<1>2. CASE g # "composite"
  <2> DEFINE read == ReadBack(Written)
             k == mapPropertyIDToIndex(g, i)
  <2>1. g \in Plain /\ g \in Kinds
    BY <1>2 DEF Kinds
  <2>2. k \in 1..Cardinality(DOMAIN items[g]) /\ buildResourceIndexMap(g)[k] = i
    BY <2>1, PlacesOfIDs
  <2>3. k \in DOMAIN read.items[g]
    BY <2>1, <2>2, ReadGroups
  <2>4. read.items[g][k] = items[g][i]
    <3>1. read.items[g][k] = items[g][buildResourceIndexMap(g)[k]]
      BY <2>1, <2>3, ReadGroups
    <3> HIDE DEF read, k
    <3> QED BY <2>2, <3>1
  <2> HIDE DEF read, k
  <2>5. SimpleMeaning(read, g, k) = {<<items[g][i], 1>>}
    BY <1>2, <2>3, <2>4 DEF SimpleMeaning
  <2>6. SimpleMeaning(Client, g, i) = {<<items[g][i], 1>>}
    BY <1>2 DEF SimpleMeaning, Client
  <2> QED BY <2>5, <2>6 DEF read, k
<1> QED BY <1>1, <1>2

(* MeaningReadBack: so it is with every property, if the writer does not   *)
(* throw.                                                                  *)
LEMMA MeaningReadBack ==
  ASSUME ModelFits, ~WriterThrows, CompositesUseTheFirst,
         NEW g \in Kinds, NEW i \in DOMAIN items[g]
  PROVE  Meaning(ReadBack(Written), g, mapPropertyIDToIndex(g, i)) = Meaning(Client, g, i)
<1>1. ~CompositeThrows /\ ~MultiThrows
  BY DEF WriterThrows
<1>2. CASE g # "multi"
  <2>1. SimpleMeaning(ReadBack(Written), g, mapPropertyIDToIndex(g, i)) = SimpleMeaning(Client, g, i)
    BY <1>1, <1>2, SimpleReadBack
  <2> QED BY <1>2, <2>1 DEF Meaning
<1>3. CASE g = "multi"
  <2> DEFINE read == ReadBack(Written)
             k == mapPropertyIDToIndex(g, i)
             p == items["multi"][i]
  <2>1. k \in 1..Cardinality(DOMAIN items[g]) /\ buildResourceIndexMap(g)[k] = i
    BY PlacesOfIDs
  <2>2. k \in DOMAIN read.items["multi"] /\ read.layers = layers
    BY <1>1, <1>3, <2>1, ReadGroups
  <2>3. read.items["multi"][k] = [l \in DOMAIN layers |-> mapPropertyIDToIndex(layers[l], p[l])]
    <3>1. read.items["multi"][k] =
            [l \in DOMAIN layers |->
               mapPropertyIDToIndex(layers[l], items["multi"][buildResourceIndexMap("multi")[k]][l])]
      BY <1>1, <2>2, ReadGroups
    <3> HIDE DEF read, k
    <3> QED BY <1>3, <2>1, <3>1
  <2>4. ASSUME NEW l \in DOMAIN layers
        PROVE  SimpleMeaning(read, layers[l], mapPropertyIDToIndex(layers[l], p[l]))
                 = SimpleMeaning(Client, layers[l], p[l])
    <3>1. layers[l] \in Kinds \ {"multi"}
      BY DEF ModelFits
    <3>2. p[l] \in DOMAIN items[layers[l]]
      BY <1>1, <1>3 DEF MultiThrows
    <3> QED BY <1>1, <3>1, <3>2, SimpleReadBack
  <2> HIDE DEF read, k
  <2>5. Meaning(read, g, k)
          = [l \in DOMAIN layers |-> SimpleMeaning(read, layers[l], mapPropertyIDToIndex(layers[l], p[l]))]
    BY <1>3, <2>2, <2>3 DEF Meaning
  <2>6. Meaning(Client, g, i) = [l \in DOMAIN layers |-> SimpleMeaning(Client, layers[l], p[l])]
    BY <1>3 DEF Meaning, Client
  <2> HIDE DEF p
  <2> QED BY <2>4, <2>5, <2>6 DEF read, k
<1> QED BY <1>2, <1>3

(* Corners3: the IDs of a property are three.                              *)
LEMMA Corners3 ==
  ASSUME NEW p \in Properties \cup {NoProperty}
  PROVE  DOMAIN p.ids = 1..3
<1>1. CASE p = NoProperty
  <2>1. p.ids = <<0, 0, 0>>
    BY <1>1 DEF NoProperty, NoIDs
  <2> QED BY <2>1
<1>2. CASE p \in Properties
  <2>1. p.ids \in Corners
    BY <1>2 DEF Properties
  <2> DEFINE c == p.ids
  <2>2. PICK i \in IDs, j \in IDs : c \in {<<i, i, i>>, <<i, i, j>>, <<i, j, j>>}
    <3> HIDE DEF c
    <3> QED BY <2>1 DEF Corners, c
  <2> HIDE DEF c
  <2>3. DOMAIN c = 1..3
    BY <2>2
  <2> QED BY <2>3 DEF c
<1> QED BY <1>1, <1>2

(* A face that is written without a property.                              *)
WrittenWithout(p) ==
  ~IsSet(p) \/ (/\ p.ids[1] = p.ids[2] /\ p.ids[1] = p.ids[3]
                /\ p.group = default.group /\ p.ids[1] = default.ids[1])

(* FaceWritten: the others have the places of their IDs, or of the first   *)
(* if all are alike.                                                       *)
LEMMA FaceWritten ==
  ASSUME NEW p, DOMAIN p.ids = 1..3
  PROVE  LET t == writeFace(p) IN
         /\ WrittenWithout(p) => t.pid = ""
         /\ ~WrittenWithout(p) =>
              /\ t.pid = p.group
              /\ \A k \in 1..3 : (IF k \in DOMAIN t.p THEN t.p[k] ELSE t.p[1])
                                   = mapPropertyIDToIndex(p.group, p.ids[k])
<1>1. CASE WrittenWithout(p)
  BY <1>1 DEF WrittenWithout, writeFace
<1>2. CASE ~WrittenWithout(p)
  <2> DEFINE same == p.ids[1] = p.ids[2] /\ p.ids[1] = p.ids[3]
             ids == IF same THEN <<p.ids[1]>> ELSE p.ids
             t == Mapped(p.group, ids)
  <2>1. writeFace(p) = [pid |-> p.group, p |-> t]
    BY <1>2 DEF WrittenWithout, writeFace
  <2>2. DOMAIN t = DOMAIN ids /\ \A k \in DOMAIN ids : t[k] = mapPropertyIDToIndex(p.group, ids[k])
    BY DEF Mapped
  <2> HIDE DEF t
  <2>3. ASSUME NEW k \in 1..3
        PROVE  (IF k \in DOMAIN t THEN t[k] ELSE t[1]) = mapPropertyIDToIndex(p.group, p.ids[k])
    <3>1. CASE same
      <4>0. ids = <<p.ids[1]>>
        BY <3>1
      <4>1. DOMAIN ids = {1} /\ ids[1] = p.ids[1]
        BY <4>0
      <4>2. p.ids[k] = p.ids[1]
        <5>1. k = 1 \/ k = 2 \/ k = 3
          OBVIOUS
        <5> QED BY <3>1, <5>1
      <4> HIDE DEF ids
      <4> QED BY <2>2, <4>1, <4>2
    <3>2. CASE ~same
      <4>1. ids = p.ids
        BY <3>2
      <4> HIDE DEF ids
      <4> QED BY <2>2, <4>1
    <3> QED BY <3>1, <3>2
  <2> HIDE DEF same, ids
  <2> DEFINE w == writeFace(p)
  <2>4. w.pid = p.group /\ w.p = t
    BY <2>1
  <2> HIDE DEF w
  <2>5. \A k \in 1..3 : (IF k \in DOMAIN w.p THEN w.p[k] ELSE w.p[1])
                           = mapPropertyIDToIndex(p.group, p.ids[k])
    BY <2>3, <2>4
  <2> QED BY <1>2, <2>4, <2>5 DEF w
<1> QED BY <1>1, <1>2

(* TriangleRead: a triangle without a property gets the object's.          *)
LEMMA TriangleRead ==
  ASSUME NEW text
  PROVE  LET f == readTriangle(text)
             t == text.triangle.p
         IN  /\ text.triangle.pid # "" =>
                  /\ f.group = text.triangle.pid
                  /\ \A k \in 1..3 : f.ids[k] = IF k \in DOMAIN t THEN t[k] ELSE t[1]
             /\ text.triangle.pid = "" /\ text.object.pid # "" =>
                  f.group = text.object.pid /\ \A k \in 1..3 : f.ids[k] = text.object.pindex
             /\ text.triangle.pid = "" /\ text.object.pid = "" => f = NoProperty
BY DEF readTriangle

(* FaceReadBack: a face read back shows what it showed.                    *)
LEMMA FaceReadBack ==
  ASSUME ModelFits, ~WriterThrows, CompositesUseTheFirst
  PROVE  FaceMeaning(ReadBack(Written), ReadBack(Written).face) = FaceMeaning(Client, Shown)
<1> DEFINE read == ReadBack(Written)
           f == readTriangle(Written)
           t == writeFace(face)
(* A property whose IDs became places shows the same.                      *)
<1>1. ASSUME NEW p, IsSet(p), \A k \in 1..3 : p.ids[k] \in DOMAIN items[p.group],
             NEW q, q.group = p.group,
             \A k \in 1..3 : q.ids[k] = mapPropertyIDToIndex(p.group, p.ids[k])
      PROVE  FaceMeaning(read, q) = FaceMeaning(Client, p)
  <2>1. ASSUME NEW k \in 1..3 PROVE Meaning(read, q.group, q.ids[k]) = Meaning(Client, p.group, p.ids[k])
    <3>1. Meaning(read, p.group, mapPropertyIDToIndex(p.group, p.ids[k])) = Meaning(Client, p.group, p.ids[k])
      BY <1>1, MeaningReadBack DEF IsSet
    <3> HIDE DEF read
    <3> QED BY <1>1, <3>1
  <2> HIDE DEF read
  <2>2. IsSet(q)
    BY <1>1 DEF IsSet
  <2> QED BY <1>1, <2>1, <2>2 DEF FaceMeaning
<1>2. read.face = f
  BY ReadGroups DEF WriterThrows
<1>3. /\ DOMAIN face.ids = 1..3
      /\ IsSet(default) => default.group # "" /\ default.ids[1] \in DOMAIN items[default.group]
      /\ IsSet(face) => /\ face.group # "" /\ IsSet(default)
                        /\ \A k \in 1..3 : face.ids[k] \in DOMAIN items[face.group]
  <2>1. "" \notin Kinds
    BY DEF Kinds, Plain
  <2>2. DOMAIN face.ids = 1..3
    BY Corners3 DEF ModelFits
  <2>3. ~MeshThrows
    BY DEF WriterThrows
  <2> QED BY <2>1, <2>2, <2>3 DEF MeshThrows, Registered, IsSet
<1>4. /\ Written.triangle = t
      /\ IsSet(default) => Written.object.pid = default.group
                           /\ Written.object.pindex = mapPropertyIDToIndex(default.group, default.ids[1])
      /\ ~IsSet(default) => Written.object.pid = ""
  BY DEF Written
<1>5. /\ WrittenWithout(face) => t.pid = ""
      /\ ~WrittenWithout(face) =>
           /\ t.pid = face.group
           /\ \A k \in 1..3 : (IF k \in DOMAIN t.p THEN t.p[k] ELSE t.p[1])
                                = mapPropertyIDToIndex(face.group, face.ids[k])
  BY <1>3, FaceWritten
<1>6. /\ t.pid # "" =>
           /\ f.group = t.pid
           /\ \A k \in 1..3 : f.ids[k] = IF k \in DOMAIN t.p THEN t.p[k] ELSE t.p[1]
      /\ t.pid = "" /\ Written.object.pid # "" =>
           f.group = Written.object.pid /\ \A k \in 1..3 : f.ids[k] = Written.object.pindex
      /\ t.pid = "" /\ Written.object.pid = "" => f = NoProperty
  <2> HIDE DEF t
  <2> QED BY <1>4, TriangleRead
<1> HIDE DEF read, f, t
<1>7. CASE WrittenWithout(face) /\ ~IsSet(default)
  <2>1. ~IsSet(face)
    BY <1>3, <1>7
  <2>2. f = NoProperty
    BY <1>4, <1>5, <1>6, <1>7
  <2>3. ~IsSet(NoProperty)
    BY DEF IsSet, NoProperty, Kinds, Plain
  <2>4. Shown = face
    BY <1>7 DEF Shown
  <2> QED BY <1>2, <2>1, <2>2, <2>3, <2>4 DEF FaceMeaning, read
<1>8. CASE WrittenWithout(face) /\ IsSet(default)
  <2> DEFINE d == [group |-> default.group, ids |-> [k \in 1..3 |-> default.ids[1]]]
  <2>1. d.group = default.group /\ \A k \in 1..3 : d.ids[k] = default.ids[1]
    OBVIOUS
  <2>2. (face.group = d.group /\ IsSet(face) /\ \A k \in 1..3 : d.ids[k] = face.ids[k]) \/ ~IsSet(face)
    BY <1>8 DEF WrittenWithout
  <2>3. IsSet(face) => Shown = face
    BY DEF Shown
  <2>4. ~IsSet(face) => Shown = d
    BY <1>8 DEF Shown
  <2> HIDE DEF d
  <2>5. f.group = default.group /\ \A k \in 1..3 : f.ids[k] = mapPropertyIDToIndex(default.group, default.ids[1])
    BY <1>3, <1>4, <1>5, <1>6, <1>8
  <2>6. IsSet(d)
    BY <1>8, <2>1 DEF IsSet
  <2>7. \A k \in 1..3 : d.ids[k] \in DOMAIN items[d.group]
                        /\ f.ids[k] = mapPropertyIDToIndex(d.group, d.ids[k])
    BY <1>3, <1>8, <2>1, <2>5
  <2>8. FaceMeaning(read, f) = FaceMeaning(Client, d)
    BY <1>1, <2>1, <2>5, <2>6, <2>7
  <2>9. FaceMeaning(Client, d) = FaceMeaning(Client, Shown)
    BY <2>2, <2>3, <2>4, <2>6 DEF FaceMeaning
  <2> QED BY <1>2, <2>8, <2>9 DEF read
<1>9. CASE ~WrittenWithout(face)
  <2>1. IsSet(face)
    BY <1>9 DEF WrittenWithout
  <2>2. Shown = face
    BY <2>1 DEF Shown
  <2>3. f.group = face.group /\ \A k \in 1..3 : f.ids[k] = mapPropertyIDToIndex(face.group, face.ids[k])
    BY <1>3, <1>5, <1>6, <1>9, <2>1
  <2>4. FaceMeaning(read, f) = FaceMeaning(Client, face)
    BY <1>1, <1>3, <2>1, <2>3
  <2> QED BY <1>2, <2>2, <2>4 DEF read
<1> QED BY <1>7, <1>8, <1>9

-----------------------------------------------------------------------------
(* What every step keeps. *)


(* SameGroupsSameFaces: models with the same groups and layers show the    *)
(* same.                                                                   *)
LEMMA SameGroupsSameFaces ==
  ASSUME NEW m, NEW n, \A g \in Kinds : m.items[g] = n.items[g],
         m.layers = n.layers, DOMAIN m.layers = {}, NEW p
  PROVE  FaceMeaning(m, p) = FaceMeaning(n, p)
<1>1. ASSUME NEW g \in Kinds, NEW i PROVE Meaning(m, g, i) = Meaning(n, g, i)
  <2>1. "base" \in Kinds
    BY DEF Kinds, Plain
  <2>2. m.items[g] = n.items[g] /\ m.items["base"] = n.items["base"]
    BY <2>1
  <2>3. SimpleMeaning(m, g, i) = SimpleMeaning(n, g, i)
    BY <2>2 DEF SimpleMeaning
  <2>4. CASE g # "multi"
    BY <2>3, <2>4 DEF Meaning
  <2>5. CASE g = "multi" /\ i \notin DOMAIN m.items[g]
    BY <2>2, <2>5 DEF Meaning
  <2>6. CASE g = "multi" /\ i \in DOMAIN m.items[g]
    <3>1. Meaning(m, g, i) = [k \in {} |-> SimpleMeaning(m, m.layers[k], m.items[g][i][k])]
      BY <2>6 DEF Meaning
    <3>2. Meaning(n, g, i) = [k \in {} |-> SimpleMeaning(n, n.layers[k], n.items[g][i][k])]
      BY <2>2, <2>6 DEF Meaning
    <3> QED BY <3>1, <3>2
  <2> QED BY <2>4, <2>5, <2>6
<1>2. CASE IsSet(p)
  <2>1. \A k \in 1..3 : Meaning(m, p.group, p.ids[k]) = Meaning(n, p.group, p.ids[k])
    BY <1>1, <1>2 DEF IsSet
  <2> QED BY <1>2, <2>1 DEF FaceMeaning
<1>3. CASE ~IsSet(p)
  BY <1>3 DEF FaceMeaning
<1> QED BY <1>2, <1>3

(* MergeKeepsIDs: where nothing was removed, mergeFrom gives every         *)
(* property the ID it had.                                                 *)
LEMMA MergeKeepsIDs ==
  ASSUME ModelFits, NothingRemoved, NEW g \in Kinds
  PROVE  mergeFrom(g) = items[g]
<1> DEFINE n == next[g] - 1
<1>1. DOMAIN items[g] = 1..n /\ n \in Nat
  BY DEF NothingRemoved, ModelFits
<1>2. buildResourceIndexMap(g) = [k \in 1..n |-> k]
  BY <1>1, AscendingInterval DEF buildResourceIndexMap
<1> HIDE DEF n
<1>3. mergeFrom(g) = [k \in 1..n |-> items[g][k]]
  BY <1>2 DEF mergeFrom, InOrder
<1> QED BY <1>1, <1>3 DEF ModelFits

(* MergedFaceShowsTheSame: then a face of the merged model shows what it   *)
(* showed.                                                                 *)
LEMMA MergedFaceShowsTheSame ==
  ASSUME ModelFits, NothingRemoved, layers = <<>>, NEW m, m.layers = <<>>,
         m.items = [g \in Kinds |-> mergeFrom(g)]
  PROVE  FaceMeaning(m, face) = FaceMeaning(Client, face)
<1>1. \A g \in Kinds : m.items[g] = Client.items[g]
  BY MergeKeepsIDs DEF Client
<1>2. m.layers = Client.layers /\ DOMAIN m.layers = {}
  BY DEF Client
<1> QED BY <1>1, <1>2, SameGroupsSameFaces

(* What holds in every state: the declarations, the index maps, and what   *)
(* the faces of a model read or merged show.                               *)
PropertyGroupsInv ==
  /\ ModelFits
  /\ FacesKeepTheirProperty
  /\ MergedFacesShowTheSame

(* PropertyGroupsStart: a new model.                                       *)
LEMMA PropertyGroupsStart ==
  ASSUME Init
  PROVE  PropertyGroupsInv
<1>1. ModelFits
  <2>1. \A g \in Kinds : items[g] = Empty /\ DOMAIN items[g] = {}
    BY DEF Init, Empty
  <2>2. \A g \in Kinds : items[g] = [i \in DOMAIN items[g] |-> items[g][i]]
    BY <2>1 DEF Empty
  <2>3. "composite" \in Kinds
    BY DEF Kinds
  <2>4. DOMAIN items = Kinds /\ next \in [Kinds -> Nat \ {0}] /\ DOMAIN indexMap = Kinds
    BY DEF Init
  <2>5. layers \in Seq(Kinds \ {"multi"})
    BY DEF Init
  <2>6. face = NoProperty /\ default = Null
    BY DEF Init
  <2> QED BY <2>1, <2>2, <2>3, <2>4, <2>5, <2>6 DEF ModelFits
<1>2. FacesKeepTheirProperty
  BY DEF Init, FacesKeepTheirProperty
<1>3. MergedFacesShowTheSame
  BY DEF Init, MergedFacesShowTheSame
<1> QED BY <1>1, <1>2, <1>3 DEF PropertyGroupsInv

(* EditingKeeps: while a model is edited the invariant asks for its        *)
(* declarations and its index maps.                                        *)
LEMMA EditingKeeps ==
  ASSUME ModelFits', outcome' = "editing",
         \A g \in Kinds : indexMap'[g] # NoMap => indexMap'[g] = buildResourceIndexMap(g)'
  PROVE  PropertyGroupsInv'
<1>1. FacesKeepTheirProperty'
  BY DEF FacesKeepTheirProperty
<1>2. MergedFacesShowTheSame'
  BY DEF MergedFacesShowTheSame
<1> QED BY <1>1, <1>2 DEF PropertyGroupsInv

(* SameGroupsKeep: so does a step that leaves the groups alone.            *)
LEMMA SameGroupsKeep ==
  ASSUME PropertyGroupsInv, outcome' = "editing", UNCHANGED <<items, next, indexMap>>,
         layers' \in Seq(Kinds \ {"multi"}), face' \in Properties \cup {NoProperty},
         default' \in Properties \cup {NoProperty, Null}
  PROVE  PropertyGroupsInv'
<1>1. ModelFits'
  BY DEF PropertyGroupsInv, ModelFits
<1>2. \A g \in Kinds : indexMap'[g] # NoMap => indexMap'[g] = buildResourceIndexMap(g)'
  BY DEF PropertyGroupsInv, FacesKeepTheirProperty, buildResourceIndexMap
<1> QED BY <1>1, <1>2, EditingKeeps

(* A map of IDs, whatever it maps them to.                                 *)
IsFunction(f) == f = [i \in DOMAIN f |-> f[i]]

(* GroupChangeKeeps: so does a step that changes one group, if that has    *)
(* no index map afterwards or the same IDs.                                *)
LEMMA GroupChangeKeeps ==
  ASSUME PropertyGroupsInv, Edits, layers' = layers, face' = face, default' = default,
         NEW g \in Kinds, DOMAIN items' = Kinds, \A h \in Kinds \ {g} : items'[h] = items[h],
         IsFunction(items'[g]),
         DOMAIN items'[g] \subseteq 1..(next'[g] - 1),
         g = "composite" => \A i \in DOMAIN items'[g] : items'[g][i] \in Seq(IDs \X Ratios),
         next' \in [Kinds -> Nat \ {0}], \A h \in Kinds \ {g} : next'[h] = next[h],
         DOMAIN indexMap' = Kinds, \A h \in Kinds \ {g} : indexMap'[h] = indexMap[h],
         \/ indexMap'[g] = NoMap
         \/ DOMAIN items'[g] = DOMAIN items[g] /\ indexMap'[g] = indexMap[g]
  PROVE  PropertyGroupsInv'
<1>1. ModelFits /\ DOMAIN items = Kinds /\ DOMAIN indexMap = Kinds /\ "composite" \in Kinds
  BY DEF PropertyGroupsInv, ModelFits, Kinds
<1>2. DOMAIN indexMap' = Kinds
  BY <1>1
<1>3. ASSUME NEW h \in Kinds
      PROVE  /\ DOMAIN items'[h] \subseteq 1..(next'[h] - 1)
             /\ items'[h] = [i \in DOMAIN items'[h] |-> items'[h][i]]
  <2>1. CASE h = g
    BY <2>1 DEF IsFunction
  <2>2. CASE h # g
    BY <1>1, <2>2 DEF ModelFits
  <2> QED BY <2>1, <2>2
<1>4. \A i \in DOMAIN items'["composite"] : items'["composite"][i] \in Seq(IDs \X Ratios)
  BY <1>1 DEF ModelFits
<1>5. ModelFits'
  BY <1>1, <1>2, <1>3, <1>4 DEF ModelFits
<1>6. ASSUME NEW h \in Kinds, indexMap'[h] # NoMap
      PROVE  indexMap'[h] = buildResourceIndexMap(h)'
  <2>1. indexMap'[h] = indexMap[h] /\ DOMAIN items'[h] = DOMAIN items[h]
    <3>1. CASE h = g
      BY <1>1, <1>6, <3>1
    <3>2. CASE h # g
      BY <1>1, <3>2
    <3> QED BY <3>1, <3>2
  <2>2. indexMap[h] = buildResourceIndexMap(h)
    BY <1>6, <2>1 DEF PropertyGroupsInv, FacesKeepTheirProperty
  <2> QED BY <2>1, <2>2 DEF buildResourceIndexMap
<1> QED BY <1>5, <1>6, EditingKeeps DEF Edits, Editing

(* AddKeeps: a property that is added gets an ID above all others.         *)
LEMMA AddKeeps ==
  ASSUME PropertyGroupsInv, NEW g \in Kinds, NEW content, addProperty(g, content),
         g = "composite" => content \in Seq(IDs \X Ratios)
  PROVE  PropertyGroupsInv'
<1> DEFINE D == DOMAIN items[g]
           f == [i \in D \cup {next[g]} |-> IF i = next[g] THEN content ELSE items[g][i]]
<1>1. ModelFits /\ next[g] \in Nat \ {0} /\ DOMAIN items = Kinds
  BY DEF PropertyGroupsInv, ModelFits
<1>2. items' = [items EXCEPT ![g] = f] /\ next' = [next EXCEPT ![g] = @ + 1]
  BY <1>1 DEF addProperty
<1>3. D \subseteq 1..(next[g] - 1)
  BY <1>1 DEF ModelFits
<1>4. next' \in [Kinds -> Nat \ {0}] /\ next'[g] = next[g] + 1 /\ \A h \in Kinds \ {g} : next'[h] = next[h]
  BY <1>1, <1>2 DEF ModelFits
<1>5. DOMAIN f = D \cup {next[g]} /\ f = [i \in DOMAIN f |-> f[i]]
  OBVIOUS
<1>6. \A i \in DOMAIN f : f[i] = IF i = next[g] THEN content ELSE items[g][i]
  OBVIOUS
<1> HIDE DEF f, D
<1>7. DOMAIN f \subseteq 1..(next'[g] - 1)
  BY <1>1, <1>3, <1>4, <1>5
<1>8. g = "composite" => \A i \in DOMAIN f : f[i] \in Seq(IDs \X Ratios)
  BY <1>1, <1>5, <1>6 DEF ModelFits, D
<1>9. DOMAIN items' = Kinds /\ items'[g] = f /\ \A h \in Kinds \ {g} : items'[h] = items[h]
  BY <1>1, <1>2
<1>10. /\ Edits /\ layers' = layers /\ face' = face /\ default' = default
       /\ DOMAIN indexMap' = Kinds /\ indexMap'[g] = NoMap
       /\ \A h \in Kinds \ {g} : indexMap'[h] = indexMap[h]
  BY <1>1 DEF ModelFits, addProperty, clearResourceIndexMap
<1>11. IsFunction(items'[g])
  BY <1>5, <1>9 DEF IsFunction
<1>12. /\ DOMAIN items'[g] \subseteq 1..(next'[g] - 1)
       /\ g = "composite" => \A i \in DOMAIN items'[g] : items'[g][i] \in Seq(IDs \X Ratios)
  BY <1>7, <1>8, <1>9
<1> QED BY <1>4, <1>10, <1>9, <1>11, <1>12, GroupChangeKeeps

(* RemoveKeeps: the IDs left are those of before but one.                  *)
LEMMA RemoveKeeps ==
  ASSUME PropertyGroupsInv, NEW g \in Kinds, NEW i \in DOMAIN items[g], removeProperty(g, i)
  PROVE  PropertyGroupsInv'
<1> DEFINE f == [k \in DOMAIN items[g] \ {i} |-> items[g][k]]
<1>1. ModelFits /\ DOMAIN items = Kinds
  BY DEF PropertyGroupsInv, ModelFits
<1>2. items' = [items EXCEPT ![g] = f] /\ next' = next
  BY <1>1 DEF removeProperty
<1>3. /\ DOMAIN f = DOMAIN items[g] \ {i} /\ f = [k \in DOMAIN f |-> f[k]]
      /\ \A k \in DOMAIN f : f[k] = items[g][k]
  OBVIOUS
<1> HIDE DEF f
<1>4. DOMAIN f \subseteq 1..(next'[g] - 1)
  BY <1>1, <1>2, <1>3 DEF ModelFits
<1>5. g = "composite" => \A k \in DOMAIN f : f[k] \in Seq(IDs \X Ratios)
  BY <1>1, <1>3 DEF ModelFits
<1>6. next' \in [Kinds -> Nat \ {0}] /\ \A h \in Kinds \ {g} : next'[h] = next[h]
  BY <1>1, <1>2 DEF ModelFits
<1>7. DOMAIN items' = Kinds /\ items'[g] = f /\ \A h \in Kinds \ {g} : items'[h] = items[h]
  BY <1>1, <1>2
<1>8. /\ Edits /\ layers' = layers /\ face' = face /\ default' = default
      /\ DOMAIN indexMap' = Kinds /\ indexMap'[g] = NoMap
      /\ \A h \in Kinds \ {g} : indexMap'[h] = indexMap[h]
  BY <1>1 DEF ModelFits, removeProperty, clearResourceIndexMap
<1>9. IsFunction(items'[g])
  BY <1>3, <1>7 DEF IsFunction
<1>10. /\ DOMAIN items'[g] \subseteq 1..(next'[g] - 1)
       /\ g = "composite" => \A k \in DOMAIN items'[g] : items'[g][k] \in Seq(IDs \X Ratios)
  BY <1>4, <1>5, <1>7
<1> QED BY <1>6, <1>8, <1>7, <1>9, <1>10, GroupChangeKeeps

(* MeshKeeps: the properties set on the mesh fit.                          *)
LEMMA MeshKeeps ==
  ASSUME PropertyGroupsInv,
         \/ SetTriangleProperties \/ SetAllTriangleProperties
         \/ SetObjectLevelProperty \/ ClearAllProperties
  PROVE  PropertyGroupsInv'
<1>1. ModelFits
  BY DEF PropertyGroupsInv
<1>2. layers \in Seq(Kinds \ {"multi"}) /\ face \in Properties \cup {NoProperty}
      /\ default \in Properties \cup {NoProperty, Null}
  BY <1>1 DEF ModelFits
<1>3. Settable \subseteq Properties
  BY DEF Settable
<1>4. outcome' = "editing" /\ layers' = layers /\ UNCHANGED <<items, next, indexMap>>
  BY DEF SetTriangleProperties, SetAllTriangleProperties, SetObjectLevelProperty,
         ClearAllProperties, Sets, Edits, Editing
<1>5. face' \in Properties \cup {NoProperty} /\ default' \in Properties \cup {NoProperty, Null}
  <2>1. CASE SetTriangleProperties
    BY <1>2, <1>3, <2>1 DEF SetTriangleProperties
  <2>2. CASE SetAllTriangleProperties
    BY <1>2, <1>3, <2>2 DEF SetAllTriangleProperties
  <2>3. CASE SetObjectLevelProperty
    BY <1>2, <1>3, <2>3 DEF SetObjectLevelProperty
  <2>4. CASE ClearAllProperties
    BY <1>2, <2>4 DEF ClearAllProperties
  <2> QED BY <2>1, <2>2, <2>3, <2>4
<1> QED BY <1>2, <1>4, <1>5, SameGroupsKeep

(* LayersKeep: layers are groups of properties without layers.             *)
LEMMA LayersKeep ==
  ASSUME PropertyGroupsInv, AddLayer \/ RemoveLayer
  PROVE  PropertyGroupsInv'
<1>1. /\ layers \in Seq(Kinds \ {"multi"}) /\ face \in Properties \cup {NoProperty}
      /\ default \in Properties \cup {NoProperty, Null}
  BY DEF PropertyGroupsInv, ModelFits
<1>2. outcome' = "editing" /\ face' = face /\ default' = default /\ UNCHANGED <<items, next, indexMap>>
  BY DEF AddLayer, RemoveLayer, Edits, Editing
<1>3. layers' \in Seq(Kinds \ {"multi"})
  <2>1. CASE AddLayer
    <3>1. PICK g \in (Kinds \ {"multi"}) \cap DOMAIN scenario : layers' = Append(layers, g)
      BY <2>1 DEF AddLayer, addLayer
    <3> QED BY <1>1, <3>1
  <2>2. CASE RemoveLayer
    <3>1. PICK k \in DOMAIN layers : layers' = RemoveAt(layers, k)
      BY <2>2 DEF RemoveLayer
    <3> DEFINE S == Kinds \ {"multi"}
    <3>2. layers \in Seq(S) /\ k \in 1..Len(layers) /\ Len(layers) \in Nat
      BY <1>1
    <3> HIDE DEF S
    <3>3. SubSeq(layers, 1, k - 1) \in Seq(S) /\ SubSeq(layers, k + 1, Len(layers)) \in Seq(S)
      BY <3>2
    <3> QED BY <3>1, <3>3 DEF RemoveAt, S
  <2> QED BY <2>1, <2>2
<1> QED BY <1>1, <1>2, <1>3, SameGroupsKeep

(* ContentsFit: the constituents of a composite are a list.                *)
LEMMA ContentsFit ==
  ASSUME NEW c \in Constituents
  PROVE  c \in Seq(IDs \X Ratios)
<1> DEFINE S == IDs \X Ratios
<1>1. PICK m \in 0..2 : c \in [1..m -> S]
  BY DEF Constituents, BoundedSeq, SeqOf
<1> HIDE DEF S
<1>2. c \in Seq(S)
  BY <1>1
<1> QED BY <1>2 DEF S

(* SetMultiPropertyKeeps: a multi property that is set keeps its ID.       *)
LEMMA SetMultiPropertyKeeps ==
  ASSUME PropertyGroupsInv, SetMultiProperty
  PROVE  PropertyGroupsInv'
<1>1. PICK i \in DOMAIN items["multi"], p \in PropertyIDs :
        items' = [items EXCEPT !["multi"] = [items["multi"] EXCEPT ![i] = p]]
  BY DEF SetMultiProperty
<1>2. ModelFits /\ DOMAIN items = Kinds /\ DOMAIN indexMap = Kinds /\ "multi" \in Kinds
  BY DEF PropertyGroupsInv, ModelFits, Kinds
<1>3. /\ Edits /\ layers' = layers /\ face' = face /\ default' = default
      /\ next' = next /\ indexMap' = indexMap
  BY DEF SetMultiProperty
<1>4. /\ DOMAIN items' = Kinds /\ items'["multi"] = [items["multi"] EXCEPT ![i] = p]
      /\ \A h \in Kinds \ {"multi"} : items'[h] = items[h]
  BY <1>1, <1>2
<1>5. DOMAIN items'["multi"] = DOMAIN items["multi"] /\ IsFunction(items'["multi"])
  BY <1>4 DEF IsFunction
<1>6. DOMAIN items'["multi"] \subseteq 1..(next'["multi"] - 1) /\ next' \in [Kinds -> Nat \ {0}]
  BY <1>2, <1>3, <1>5 DEF ModelFits
<1> QED BY <1>2, <1>3, <1>4, <1>5, <1>6, GroupChangeKeeps

(* GetAllPropertyIDsKeeps: an index map that is made is that of the IDs.   *)
LEMMA GetAllPropertyIDsKeeps ==
  ASSUME PropertyGroupsInv, GetAllPropertyIDs
  PROVE  PropertyGroupsInv'
<1>1. PICK g \in Kinds : indexMap' = [indexMap EXCEPT ![g] = buildResourceIndexMap(g)]
  BY DEF GetAllPropertyIDs
<1>2. outcome' = "editing" /\ UNCHANGED <<items, next, layers, face, default>>
  BY DEF GetAllPropertyIDs, Edits, Editing
<1>3. ModelFits'
  BY <1>1, <1>2 DEF PropertyGroupsInv, ModelFits
<1>4. ASSUME NEW h \in Kinds, indexMap'[h] # NoMap
      PROVE  indexMap'[h] = buildResourceIndexMap(h)'
  <2>1. buildResourceIndexMap(h)' = buildResourceIndexMap(h)
    BY <1>2 DEF buildResourceIndexMap
  <2>2. indexMap'[h] = IF h = g THEN buildResourceIndexMap(g) ELSE indexMap[h]
    BY <1>1 DEF PropertyGroupsInv, ModelFits
  <2> QED BY <1>4, <2>1, <2>2 DEF PropertyGroupsInv, FacesKeepTheirProperty
<1> QED BY <1>2, <1>3, <1>4, EditingKeeps

(* LeavesKeep: writing and merging leave the model and make every index    *)
(* map.                                                                    *)
LEMMA LeavesKeep ==
  ASSUME PropertyGroupsInv, UNCHANGED <<items, next, layers, face, default>>,
         indexMap' = [g \in Kinds |-> buildResourceIndexMap(g)]
  PROVE  /\ ModelFits'
         /\ \A g \in Kinds : indexMap'[g] # NoMap => indexMap'[g] = buildResourceIndexMap(g)'
         /\ Client' = Client /\ Shown' = Shown
         /\ CompositesUseTheFirst' = CompositesUseTheFirst /\ NothingRemoved' = NothingRemoved
<1>1. ModelFits'
  BY DEF PropertyGroupsInv, ModelFits
<1>2. \A g \in Kinds : buildResourceIndexMap(g)' = buildResourceIndexMap(g)
  BY DEF buildResourceIndexMap
<1>3. \A g \in Kinds : indexMap'[g] = buildResourceIndexMap(g)'
  BY <1>2
<1>4. Client' = Client /\ Shown' = Shown
  BY DEF Client, Shown, IsSet
<1>5. UsedMaterials' = UsedMaterials
  BY DEF UsedMaterials
<1>6. CompositesUseTheFirst' = CompositesUseTheFirst
  BY <1>5 DEF CompositesUseTheFirst
<1>7. NothingRemoved' = NothingRemoved
  BY DEF NothingRemoved
<1> QED BY <1>1, <1>3, <1>4, <1>6, <1>7

(* WriteAndReadKeeps: what is read back shows what was written.            *)
LEMMA WriteAndReadKeeps ==
  ASSUME PropertyGroupsInv, WriteAndRead
  PROVE  PropertyGroupsInv'
<1>1. /\ ~WriterThrows /\ UNCHANGED <<items, next, layers, face, default>>
      /\ indexMap' = [g \in Kinds |-> buildResourceIndexMap(g)]
      /\ outcome' = "unread" \/ (outcome' = "read" /\ copy' = ReadBack(Written))
  BY DEF WriteAndRead
<1>2. /\ ModelFits' /\ Client' = Client /\ Shown' = Shown
      /\ CompositesUseTheFirst' = CompositesUseTheFirst
      /\ \A g \in Kinds : indexMap'[g] # NoMap => indexMap'[g] = buildResourceIndexMap(g)'
  BY <1>1, LeavesKeep
<1>3. ASSUME outcome' = "read", CompositesUseTheFirst
      PROVE  FaceMeaning(copy', copy'.face) = FaceMeaning(Client, Shown)
  <2>1. copy' = ReadBack(Written)
    BY <1>1, <1>3
  <2>2. FaceMeaning(ReadBack(Written), ReadBack(Written).face) = FaceMeaning(Client, Shown)
    BY <1>1, <1>3, FaceReadBack DEF PropertyGroupsInv
  <2> QED BY <2>1, <2>2
<1>4. FaceMeaning(copy, copy.face)' = FaceMeaning(copy', copy'.face)
      /\ FaceMeaning(Client, Shown)' = FaceMeaning(Client', Shown')
  BY DEF FaceMeaning, Meaning, SimpleMeaning, IsSet
<1>5. FacesKeepTheirProperty'
  BY <1>2, <1>3, <1>4 DEF FacesKeepTheirProperty
<1>6. MergedFacesShowTheSame'
  BY <1>1 DEF MergedFacesShowTheSame
<1> QED BY <1>2, <1>5, <1>6 DEF PropertyGroupsInv

(* MergeKeeps: what is merged shows the same if nothing was removed.       *)
LEMMA MergeKeeps ==
  ASSUME PropertyGroupsInv, Merge
  PROVE  PropertyGroupsInv'
<1> DEFINE m == [items |-> [g \in Kinds |-> mergeFrom(g)], layers |-> <<>>, face |-> face]
<1>1. /\ layers = <<>> /\ UNCHANGED <<items, next, layers, face, default>>
      /\ indexMap' = [g \in Kinds |-> buildResourceIndexMap(g)]
      /\ outcome' = "unmerged" \/ (outcome' = "merged" /\ copy' = m)
  BY DEF Merge
<1>2. /\ ModelFits' /\ Client' = Client /\ face' = face /\ NothingRemoved' = NothingRemoved
      /\ \A g \in Kinds : indexMap'[g] # NoMap => indexMap'[g] = buildResourceIndexMap(g)'
  BY <1>1, LeavesKeep
<1>3. ASSUME outcome' = "merged", NothingRemoved
      PROVE  FaceMeaning(copy', copy'.face) = FaceMeaning(Client, face)
  <2>1. m.layers = <<>> /\ m.items = [g \in Kinds |-> mergeFrom(g)] /\ m.face = face
    OBVIOUS
  <2> HIDE DEF m
  <2>2. copy' = m
    BY <1>1, <1>3
  <2>3. FaceMeaning(m, face) = FaceMeaning(Client, face)
    BY <1>1, <1>3, <2>1, MergedFaceShowsTheSame DEF PropertyGroupsInv
  <2> QED BY <2>1, <2>2, <2>3
<1>4. FaceMeaning(copy, copy.face)' = FaceMeaning(copy', copy'.face)
      /\ FaceMeaning(Client, face)' = FaceMeaning(Client', face')
  BY DEF FaceMeaning, Meaning, SimpleMeaning, IsSet
<1>5. MergedFacesShowTheSame'
  BY <1>2, <1>3, <1>4 DEF MergedFacesShowTheSame
<1>6. FacesKeepTheirProperty'
  BY <1>1, <1>2 DEF FacesKeepTheirProperty
<1> QED BY <1>2, <1>5, <1>6 DEF PropertyGroupsInv

(* EndedKeeps: a step that leaves the groups, the mesh and the copy alone  *)
(* keeps the invariant, if it reports no model read or merged.             *)
LEMMA EndedKeeps ==
  ASSUME PropertyGroupsInv, UNCHANGED <<items, next, indexMap, layers, face, default, copy>>,
         outcome' = outcome \/ outcome' = "unwritten"
  PROVE  PropertyGroupsInv'
<1>1. ModelFits'
  BY DEF PropertyGroupsInv, ModelFits
<1>2. \A g \in Kinds : buildResourceIndexMap(g)' = buildResourceIndexMap(g)
  BY DEF buildResourceIndexMap
<1>3. Client' = Client /\ Shown' = Shown
  BY DEF Client, Shown, IsSet
<1>4. UsedMaterials' = UsedMaterials
  BY DEF UsedMaterials
<1>5. CompositesUseTheFirst' = CompositesUseTheFirst /\ NothingRemoved' = NothingRemoved
  BY <1>4 DEF CompositesUseTheFirst, NothingRemoved
<1>6. /\ FaceMeaning(copy, copy.face)' = FaceMeaning(copy', copy'.face)
      /\ FaceMeaning(Client, Shown)' = FaceMeaning(Client', Shown')
      /\ FaceMeaning(Client, face)' = FaceMeaning(Client', face')
  BY DEF FaceMeaning, Meaning, SimpleMeaning, IsSet
<1>7. FacesKeepTheirProperty'
  BY <1>2, <1>3, <1>5, <1>6 DEF PropertyGroupsInv, FacesKeepTheirProperty
<1>8. MergedFacesShowTheSame'
  BY <1>3, <1>5, <1>6 DEF PropertyGroupsInv, MergedFacesShowTheSame
<1> QED BY <1>1, <1>7, <1>8 DEF PropertyGroupsInv

(* PropertyGroupsStep: every step keeps the invariant.                     *)
LEMMA PropertyGroupsStep ==
  ASSUME PropertyGroupsInv, [Next]_propertyVars
  PROVE  PropertyGroupsInv'
<1>1. {"base", "color", "coordinate", "composite", "multi"} \subseteq Kinds
  BY DEF Kinds, Plain
<1>2. CASE AddMaterial \/ AddColor \/ AddTex2Coord
  BY <1>1, <1>2, AddKeeps DEF AddMaterial, AddColor, AddTex2Coord
<1>3. CASE AddComposite
  <2>1. PICK c \in Constituents : addProperty("composite", c)
    BY <1>3 DEF AddComposite
  <2>2. c \in Seq(IDs \X Ratios)
    BY ContentsFit
  <2> QED BY <1>1, <2>1, <2>2, AddKeeps
<1>4. CASE AddMultiProperty
  <2>1. PICK p \in PropertyIDs : addProperty("multi", p)
    BY <1>4 DEF AddMultiProperty
  <2> QED BY <1>1, <2>1, AddKeeps
<1>5. CASE SetMultiProperty
  BY <1>5, SetMultiPropertyKeeps
<1>6. CASE \/ RemoveMaterial \/ RemoveColor \/ RemoveTex2Coord \/ RemoveComposite
           \/ RemoveMultiProperty
  BY <1>1, <1>6, RemoveKeeps DEF RemoveMaterial, RemoveColor, RemoveTex2Coord, RemoveComposite,
                                 RemoveMultiProperty
<1>7. CASE GetAllPropertyIDs
  BY <1>7, GetAllPropertyIDsKeeps
<1>8. CASE AddLayer \/ RemoveLayer
  BY <1>8, LayersKeep
<1>9. CASE \/ SetTriangleProperties \/ SetAllTriangleProperties
           \/ SetObjectLevelProperty \/ ClearAllProperties
  BY <1>9, MeshKeeps
<1>10. CASE WriteThrows
  BY <1>10, EndedKeeps DEF WriteThrows, client
<1>11. CASE WriteAndRead
  BY <1>11, WriteAndReadKeeps
<1>12. CASE Merge
  BY <1>12, MergeKeeps
<1>13. CASE UNCHANGED propertyVars
  BY <1>13, EndedKeeps DEF propertyVars, client
<1> QED BY <1>2, <1>3, <1>4, <1>5, <1>6, <1>7, <1>8, <1>9, <1>10, <1>11, <1>12, <1>13 DEF Next

(* FacesReadBack: the faces of a model that is written and read in strict  *)
(* mode show what they showed, and index maps list the IDs of their group, *)
(* for groups, layers and composites of any size.                          *)
THEOREM FacesReadBack == Spec => []FacesKeepTheirProperty
<1>1. Init => PropertyGroupsInv
  BY PropertyGroupsStart
<1>2. PropertyGroupsInv /\ [Next]_propertyVars => PropertyGroupsInv'
  BY PropertyGroupsStep
<1>3. PropertyGroupsInv => FacesKeepTheirProperty
  BY DEF PropertyGroupsInv
<1> QED BY <1>1, <1>2, <1>3, PTL DEF Spec

(* FacesMerged: the faces of a merged model show what they showed, if no   *)
(* property was removed.                                                   *)
THEOREM FacesMerged == Spec => []MergedFacesShowTheSame
<1>1. Init => PropertyGroupsInv
  BY PropertyGroupsStart
<1>2. PropertyGroupsInv /\ [Next]_propertyVars => PropertyGroupsInv'
  BY PropertyGroupsStep
<1>3. PropertyGroupsInv => MergedFacesShowTheSame
  BY DEF PropertyGroupsInv
<1> QED BY <1>1, <1>2, <1>3, PTL DEF Spec
=============================================================================
