------------------------ MODULE ResourceModelProofs ------------------------
(***************************************************************************)
(* What ResourceModel promises of a model, and MergeToModel of a merged    *)
(* one, for all kinds, parts and bounds of IDs, resources, handles and     *)
(* layers.                                                                 *)
(***************************************************************************)
EXTENDS MergeToModel, ListTheorems

ResourceType ==
  [path : Paths, id : Nat, kind : Kinds, parent : Nat, layers : Seq(Nat)]

BuildItemType == [handle : Nat, object : Nat]

TypeOK ==
  /\ resource \in Seq(ResourceType)
  /\ m_Resources \in Seq(1..Len(resource))
  /\ lookup \in [Tables -> Seq(1..Len(resource))]
  /\ m_sCurPath \in Paths
  /\ m_BuildItems \in Seq(BuildItemType)
  /\ m_nHandleCounter \in Nat \ {0}
  /\ unread \in SUBSET OtherPaths

(* A parent is listed before the resource that refers to it.               *)
ParentsComeFirst ==
  \A i \in DOMAIN m_Resources :
    LET r == resource[m_Resources[i]] IN
    ParentKind(r.kind) # {} =>
      \E j \in 1..(i - 1) : /\ m_Resources[j] = r.parent
                            /\ resource[r.parent].kind \in ParentKind(r.kind)

(* The layers of a group, as addLayer accepts them.                        *)
LayersFit(layers) ==
  /\ \A k \in DOMAIN layers : KindOf(layers[k]) \in Materials \cup {"color", "texturegroup"}
  /\ \A k, l \in DOMAIN layers :
       /\ KindOf(layers[k]) \in Materials /\ KindOf(layers[l]) \in Materials => k = l
       /\ KindOf(layers[k]) = "color" /\ KindOf(layers[l]) = "color" => k = l

GroupsFit == \A u \in Range(m_Resources) : LayersFit(resource[u].layers)

(* Handles are counted up, so that no item has the next one.               *)
HandlesAreUsed == \A i \in DOMAIN m_BuildItems : m_BuildItems[i].handle < m_nHandleCounter

(* Before a reader is queried, the model lists every resource there is, and *)
(* each has its unique ID as its resource ID.                              *)
APIModelsAreNumbered ==
  reader = "none" =>
    /\ Len(m_Resources) = Len(resource)
    /\ \A u \in 1..Len(resource) : m_Resources[u] = u /\ resource[u].id = u

ModelInv ==
  /\ TypeOK
  /\ LookupTablesListTheModel
  /\ ParentsComeFirst
  /\ GroupsFit
  /\ BuildItemsAreKnownByTheirHandles
  /\ HandlesAreUsed
  /\ APIModelsAreNumbered

-----------------------------------------------------------------------------
(* Sequences. *)

(* AppendIncreases: an increasing list stays so when a larger number is    *)
(* appended.                                                               *)
LEMMA AppendIncreases ==
  ASSUME NEW n \in Nat, NEW s \in Seq(1..n), Increasing(s)
  PROVE  Increasing(Append(s, n + 1)) /\ Append(s, n + 1) \in Seq(1..(n + 1))
BY DEF Increasing

(* LastIsLargest: the largest number of an increasing list is its last.    *)
LEMMA LastIsLargest ==
  ASSUME NEW n \in Nat, NEW s \in Seq(1..n), Increasing(s), s # << >>
  PROVE  Max(Range(s)) = s[Len(s)]
<1>1. Len(s) \in Nat \ {0} /\ DOMAIN s = 1..Len(s) /\ s[Len(s)] \in Range(s)
  BY DEF Range
<1>2. \A y \in Range(s) : y \in Int /\ s[Len(s)] >= y
  BY <1>1 DEF Range, Increasing
<1>3. \A x \in Range(s) : (\A y \in Range(s) : x >= y) => x = s[Len(s)]
  BY <1>1, <1>2
<1> QED BY <1>1, <1>2, <1>3 DEF Max

(* Singles: a set in which any two elements are equal has at most one.     *)
LEMMA Singles ==
  ASSUME NEW S, \A x, y \in S : x = y
  PROVE  Cardinality(S) <= 1
<1>1. CASE S = {}
  BY <1>1, FS_EmptySet
<1>2. CASE S # {}
  <2>1. PICK x \in S : S = {x}
    BY <1>2
  <2> QED BY <2>1, FS_Singleton
<1> QED BY <1>1, <1>2

-----------------------------------------------------------------------------
(* Resources. *)

(* FieldsOf: a resource record and one with other layers, for any fields.  *)
LEMMA FieldsOf ==
  ASSUME NEW P, NEW I, NEW K, NEW N, NEW L,
         NEW r \in [path : P, id : I, kind : K, parent : N, layers : L], NEW v \in L
  PROVE  LET q == [r EXCEPT !.layers = v] IN
         /\ r.path \in P /\ r.id \in I /\ r.kind \in K /\ r.parent \in N /\ r.layers \in L
         /\ q \in [path : P, id : I, kind : K, parent : N, layers : L]
         /\ q.path = r.path /\ q.id = r.id /\ q.kind = r.kind /\ q.parent = r.parent
         /\ q.layers = v
         /\ \A w : [q EXCEPT !.layers = w] = [r EXCEPT !.layers = w]
OBVIOUS

(* Fields: the same for the resources of the model.                        *)
LEMMA Fields ==
  ASSUME NEW r \in ResourceType, NEW v \in Seq(Nat)
  PROVE  LET q == [r EXCEPT !.layers = v] IN
         /\ r.path \in Paths /\ r.id \in Nat /\ r.kind \in Kinds /\ r.parent \in Nat
         /\ r.layers \in Seq(Nat)
         /\ q \in ResourceType
         /\ q.path = r.path /\ q.id = r.id /\ q.kind = r.kind /\ q.parent = r.parent
         /\ q.layers = v
         /\ \A w : [q EXCEPT !.layers = w] = [r EXCEPT !.layers = w]
BY FieldsOf, Zenon DEF ResourceType

(* NewFields: the record a constructor makes, for any fields.              *)
LEMMA NewFields ==
  ASSUME NEW P, NEW I, NEW K, NEW N, NEW L,
         NEW p \in P, NEW i \in I, NEW k \in K, NEW n \in N, NEW l \in L
  PROVE  LET r == [path |-> p, id |-> i, kind |-> k, parent |-> n, layers |-> l] IN
         /\ r \in [path : P, id : I, kind : K, parent : N, layers : L]
         /\ r.path = p /\ r.id = i /\ r.kind = k /\ r.parent = n /\ r.layers = l
OBVIOUS

(* Constructed: a constructor appends one resource without layers.         *)
LEMMA Constructed ==
  ASSUME TypeOK, NEW kind \in Kinds, NEW id \in Nat, NEW parent \in Nat,
         Construct(kind, id, parent)
  PROVE  /\ resource' \in Seq(ResourceType)
         /\ Len(resource') = Len(resource) + 1
         /\ \A u \in 1..Len(resource) : resource'[u] = resource[u]
         /\ LET r == resource'[Len(resource) + 1] IN
            r.id = id /\ r.kind = kind /\ r.parent = parent /\ r.layers = << >>
<1> DEFINE r == [path |-> m_sCurPath, id |-> id, kind |-> kind, parent |-> parent, layers |-> << >>]
<1>1. << >> \in Seq(Nat)
  OBVIOUS
<1>2. r \in ResourceType /\ r.id = id /\ r.kind = kind /\ r.parent = parent /\ r.layers = << >>
  BY <1>1, NewFields, Zenon DEF TypeOK, ResourceType
<1>3. resource' = Append(resource, r) /\ resource \in Seq(ResourceType)
  BY DEF Construct, TypeOK
<1> HIDE DEF r
<1> QED BY <1>2, <1>3, AppendProperties

(* Relayered: addLayer and removeLayer change the layers of one group.     *)
LEMMA Relayered ==
  ASSUME TypeOK, NEW group \in UIDs, NEW v \in Seq(Nat),
         resource' = [resource EXCEPT ![group].layers = v]
  PROVE  /\ resource' \in Seq(ResourceType)
         /\ Len(resource') = Len(resource)
         /\ \A u \in 1..Len(resource) :
              /\ resource'[u].kind = resource[u].kind /\ resource'[u].id = resource[u].id
              /\ resource'[u].parent = resource[u].parent
              /\ u # group => resource'[u] = resource[u]
              /\ \A w : [resource'[u] EXCEPT !.layers = w] = [resource[u] EXCEPT !.layers = w]
         /\ resource'[group].layers = v
<1> DEFINE q == [resource[group] EXCEPT !.layers = v]
<1>1. resource \in Seq(ResourceType) /\ group \in 1..Len(resource) /\ resource[group] \in ResourceType
  BY ElementOfSeq DEF TypeOK, UIDs
<1>2. /\ q \in ResourceType
      /\ q.path = resource[group].path /\ q.id = resource[group].id
      /\ q.kind = resource[group].kind /\ q.parent = resource[group].parent
      /\ q.layers = v
      /\ \A w : [q EXCEPT !.layers = w] = [resource[group] EXCEPT !.layers = w]
  BY <1>1, Fields, Zenon
<1>3. resource' = [resource EXCEPT ![group] = q]
  OBVIOUS
<1>q. q \in ResourceType
  BY <1>2
<1> HIDE DEF q
<1>4. /\ resource' \in Seq(ResourceType) /\ Len(resource') = Len(resource)
      /\ \A u \in 1..Len(resource) : resource'[u] = IF u = group THEN q ELSE resource[u]
  BY ONLY <1>1, <1>3, <1>q
<1> QED BY <1>1, <1>2, <1>4, Zenon

(* GeneratedID: generateResourceID is one more than the last unique ID.    *)
LEMMA GeneratedID ==
  ASSUME TypeOK, LookupTablesListTheModel
  PROVE  /\ generateResourceID \in Nat \ {0}
         /\ generateResourceID = IF m_Resources = << >> THEN 1 ELSE m_Resources[Len(m_Resources)] + 1
<1>1. m_Resources \in Seq(1..Len(resource)) /\ Len(resource) \in Nat /\ Increasing(m_Resources)
  BY LenProperties DEF TypeOK, LookupTablesListTheModel
<1>2. CASE m_Resources = << >>
  BY <1>2 DEF generateResourceID
<1>3. CASE m_Resources # << >>
  <2>1. generateResourceID = m_Resources[Len(m_Resources)] + 1
    BY <1>1, <1>3, LastIsLargest DEF generateResourceID
  <2>2. m_Resources[Len(m_Resources)] \in 1..Len(resource)
    BY <1>1, <1>3
  <2> QED BY <1>1, <1>3, <2>1, <2>2
<1> QED BY <1>2, <1>3

(* ParentsAreNumbers: what find* answers is zero or a unique ID.           *)
LEMMA ParentsAreNumbers ==
  ASSUME TypeOK, NEW kind, NEW parent \in Parents(kind)
  PROVE  /\ parent \in Nat
         /\ ParentKind(kind) # {} =>
              /\ parent \in 1..Len(resource) /\ parent \in Range(m_Resources)
              /\ resource[parent].kind \in ParentKind(kind)
<1>1. UIDs = 1..Len(resource) /\ Len(resource) \in Nat
  BY LenProperties DEF TypeOK, UIDs
<1> QED BY <1>1 DEF Parents, InModel

-----------------------------------------------------------------------------
(* A resource is constructed and added: Add, ReadResource and ReadSTL. *)

(* AddedTypes: the list and the tables hold unique IDs.                    *)
LEMMA AddedTypes ==
  ASSUME TypeOK, NEW kind \in Kinds, NEW id \in Nat, NEW parent \in Nat,
         Construct(kind, id, parent), addResource(kind)
  PROVE  /\ m_Resources' \in Seq(1..Len(resource'))
         /\ lookup' \in [Tables -> Seq(1..Len(resource'))]
<1> DEFINE n == Len(resource)
<1>1. n \in Nat /\ NewUID = n + 1 /\ Len(resource') = n + 1
  BY Constructed, LenProperties DEF TypeOK, NewUID
<1>2. \A s \in Seq(1..n) : s \in Seq(1..(n + 1)) /\ Append(s, n + 1) \in Seq(1..(n + 1))
  BY <1>1
<1>3. m_Resources \in Seq(1..n) /\ lookup \in [Tables -> Seq(1..n)]
  BY DEF TypeOK
<1> HIDE DEF n
<1>4. m_Resources' \in Seq(1..(n + 1))
  BY <1>1, <1>2, <1>3 DEF addResource
<1>5. \A t \in Tables : (IF t \in TableOf(kind) THEN Append(lookup[t], n + 1) ELSE lookup[t]) \in Seq(1..(n + 1))
  BY <1>2, <1>3
<1>6. lookup' = [t \in Tables |-> IF t \in TableOf(kind) THEN Append(lookup[t], n + 1) ELSE lookup[t]]
  BY <1>1 DEF addResource
<1> HIDE DEF Tables
<1>7. lookup' \in [Tables -> Seq(1..(n + 1))]
  BY <1>5, <1>6, Zenon
<1> QED BY <1>1, <1>4, <1>7

(* AddedRange: the model has what it had, and the new resource.            *)
LEMMA AddedRange ==
  ASSUME TypeOK, NEW kind \in Kinds, NEW id \in Nat, NEW parent \in Nat,
         Construct(kind, id, parent), addResource(kind)
  PROVE  /\ Range(m_Resources) \subseteq 1..Len(resource)
         /\ Range(m_Resources') = Range(m_Resources) \cup {Len(resource) + 1}
         /\ \A t \in Tables : OfTable(t)' = OfTable(t) \cup (IF t \in TableOf(kind) THEN {Len(resource) + 1} ELSE {})
<1>1. /\ m_Resources \in Seq(1..Len(resource)) /\ Len(resource) \in Nat
      /\ m_Resources' = Append(m_Resources, Len(resource) + 1)
  BY LenProperties DEF TypeOK, addResource, NewUID
<1>2. Range(m_Resources) \subseteq 1..Len(resource)
  BY <1>1, RangeOfSeq
<1>3. Range(m_Resources') = Range(m_Resources) \cup {Len(resource) + 1}
  BY <1>1, AppendRange
<1>4. /\ \A u \in 1..Len(resource) : resource'[u] = resource[u]
      /\ resource'[Len(resource) + 1].kind = kind
  BY Constructed
<1>5. \A t \in Tables : OfTable(t)' = OfTable(t) \cup (IF t \in TableOf(kind) THEN {Len(resource) + 1} ELSE {})
  BY <1>2, <1>3, <1>4 DEF OfTable
<1> QED BY <1>2, <1>3, <1>5

(* AddedTables: the new resource has the largest unique ID, and is the     *)
(* last of the list and of its table.                                      *)
LEMMA AddedTables ==
  ASSUME TypeOK, LookupTablesListTheModel, NEW kind \in Kinds, NEW id \in Nat, NEW parent \in Nat,
         Construct(kind, id, parent), addResource(kind)
  PROVE  LookupTablesListTheModel'
<1> DEFINE n == Len(resource)
           tg == "texturegroup"
<1>1. /\ n \in Nat /\ m_Resources \in Seq(1..n) /\ m_Resources' = Append(m_Resources, n + 1)
      /\ \A t \in Tables : lookup[t] \in Seq(1..n)
      /\ \A t \in Tables : lookup'[t] = IF t \in TableOf(kind) THEN Append(lookup[t], n + 1) ELSE lookup[t]
  BY LenProperties DEF TypeOK, addResource, NewUID
<1>2. /\ Range(m_Resources) \subseteq 1..n
      /\ \A t \in Tables : OfTable(t)' = OfTable(t) \cup (IF t \in TableOf(kind) THEN {n + 1} ELSE {})
  BY AddedRange
<1>3. \A t \in Tables : Range(lookup'[t]) = Range(lookup[t]) \cup (IF t \in TableOf(kind) THEN {n + 1} ELSE {})
  BY <1>1, AppendRange
<1>4. \A t \in Tables : Range(lookup[t]) \subseteq 1..n
  BY <1>1, RangeOfSeq
<1>5. \A t \in Tables : OfTable(t) \subseteq 1..n
  BY <1>2 DEF OfTable
<1>6. tg \in Tables
  BY DEF Tables, Kinds, Objects
<1> HIDE DEF n, tg
<1>7. Increasing(m_Resources)'
  BY <1>1, AppendIncreases DEF LookupTablesListTheModel
<1>8. ASSUME NEW t \in Tables
      PROVE  Increasing(lookup'[t]) /\ OfTable(t)' \subseteq Range(lookup'[t])
  <2>1. Increasing(lookup[t]) /\ OfTable(t) \subseteq Range(lookup[t])
    BY DEF LookupTablesListTheModel
  <2>2. Increasing(lookup'[t])
    BY <1>1, <2>1, AppendIncreases
  <2> QED BY <1>2, <1>3, <2>1, <2>2
<1>9. ASSUME NEW t \in Tables \ {tg}
      PROVE  Range(lookup'[t]) \subseteq OfTable(t)'
  BY <1>2, <1>3 DEF LookupTablesListTheModel, tg
<1>10. ASSUME NEW u \in OfTable(tg)', NEW stale \in Range(lookup'[tg])
       PROVE  stale \in OfTable(tg)' \/ stale < u
  <2>1. \A v \in OfTable(tg), w \in Range(lookup[tg]) : w \in OfTable(tg) \/ w < v
    BY DEF LookupTablesListTheModel, tg
  <2> DEFINE new == IF tg \in TableOf(kind) THEN {n + 1} ELSE {}
  <2>2. OfTable(tg)' = OfTable(tg) \cup new /\ Range(lookup'[tg]) = Range(lookup[tg]) \cup new
    BY <1>2, <1>3, <1>6
  <2>3. OfTable(tg) \subseteq 1..n /\ Range(lookup[tg]) \subseteq 1..n
    BY <1>4, <1>5, <1>6
  <2>4. new \subseteq {n + 1}
    OBVIOUS
  <2> HIDE DEF new
  <2>5. CASE stale \in new
    BY <2>2, <2>5
  <2>6. CASE stale \in Range(lookup[tg]) /\ u \in new
    <3>1. stale \in 1..n /\ u = n + 1
      BY <2>3, <2>4, <2>6
    <3> QED BY <3>1, <1>1
  <2>7. CASE stale \in Range(lookup[tg]) /\ u \in OfTable(tg)
    BY <2>1, <2>2, <2>7
  <2> QED BY <2>2, <2>5, <2>6, <2>7
<1> QED BY <1>7, <1>8, <1>9, <1>10 DEF LookupTablesListTheModel, tg, Increasing

(* AddedParents: the new resource's parent is in the model already.        *)
LEMMA AddedParents ==
  ASSUME TypeOK, ParentsComeFirst, NEW kind \in Kinds, NEW id \in Nat, NEW parent \in Parents(kind),
         Construct(kind, id, parent), addResource(kind)
  PROVE  ParentsComeFirst'
<1> DEFINE n == Len(resource)
<1>1. parent \in Nat
  BY ParentsAreNumbers
<1>2. /\ n \in Nat /\ m_Resources \in Seq(1..n) /\ m_Resources' = Append(m_Resources, n + 1)
  BY LenProperties DEF TypeOK, addResource, NewUID
<1>3. /\ \A u \in 1..n : resource'[u] = resource[u]
      /\ resource'[n + 1].kind = kind /\ resource'[n + 1].parent = parent
  BY <1>1, Constructed
<1>4. /\ Len(m_Resources) \in Nat /\ DOMAIN m_Resources = 1..Len(m_Resources)
      /\ DOMAIN m_Resources' = 1..(Len(m_Resources) + 1)
      /\ \A i \in 1..Len(m_Resources) : m_Resources'[i] = m_Resources[i] /\ m_Resources[i] \in 1..n
      /\ m_Resources'[Len(m_Resources) + 1] = n + 1
  BY <1>2
<1> HIDE DEF n
<1> SUFFICES ASSUME NEW i \in 1..(Len(m_Resources) + 1), ParentKind(resource'[m_Resources'[i]].kind) # {}
             PROVE  \E j \in 1..(i - 1) :
                      /\ m_Resources'[j] = resource'[m_Resources'[i]].parent
                      /\ resource'[resource'[m_Resources'[i]].parent].kind
                           \in ParentKind(resource'[m_Resources'[i]].kind)
  BY <1>4 DEF ParentsComeFirst
<1>5. CASE i = Len(m_Resources) + 1
  <2>1. parent \in 1..n /\ parent \in Range(m_Resources) /\ resource[parent].kind \in ParentKind(kind)
    BY <1>3, <1>4, <1>5, ParentsAreNumbers DEF n
  <2>2. PICK j \in 1..Len(m_Resources) : m_Resources[j] = parent
    BY <1>4, <2>1 DEF Range
  <2> QED BY <1>3, <1>4, <1>5, <2>1, <2>2
<1>6. CASE i \in 1..Len(m_Resources)
  <2>1. m_Resources'[i] = m_Resources[i] /\ resource'[m_Resources[i]] = resource[m_Resources[i]]
    BY <1>3, <1>4, <1>6
  <2>2. PICK j \in 1..(i - 1) : /\ m_Resources[j] = resource[m_Resources[i]].parent
                                /\ resource[resource[m_Resources[i]].parent].kind
                                     \in ParentKind(resource[m_Resources[i]].kind)
    BY <1>4, <1>6, <2>1 DEF ParentsComeFirst
  <2>3. m_Resources'[j] = m_Resources[j] /\ resource'[m_Resources[j]] = resource[m_Resources[j]]
    BY <1>3, <1>4, <1>6, <2>2
  <2> QED BY <2>1, <2>2, <2>3
<1> QED BY <1>4, <1>5, <1>6

(* FitStays: layers that fit still fit if the resources of the model keep  *)
(* their kinds; none of the layers is outside the model.                   *)
LEMMA FitStays ==
  ASSUME NEW layers, LayersFit(layers), \A v \in Range(m_Resources) : KindOf(v)' = KindOf(v)
  PROVE  LayersFit(layers)'
<1>1. \A k \in DOMAIN layers : layers[k] \in Range(m_Resources)
  BY DEF LayersFit, KindOf, InModel, Materials
<1>2. \A k \in DOMAIN layers : KindOf(layers[k])' = KindOf(layers[k])
  BY <1>1
<1> HIDE DEF KindOf
<1> QED BY <1>2 DEF LayersFit, Materials

(* AddedGroups: the new resource has no layers, and the kinds of the       *)
(* others' layers stay.                                                    *)
LEMMA AddedGroups ==
  ASSUME TypeOK, GroupsFit, NEW kind \in Kinds, NEW id \in Nat, NEW parent \in Nat,
         Construct(kind, id, parent), addResource(kind)
  PROVE  GroupsFit'
<1> DEFINE n == Len(resource)
<1>1. /\ Range(m_Resources) \subseteq 1..n
      /\ Range(m_Resources') = Range(m_Resources) \cup {n + 1}
  BY AddedRange
<1>2. /\ \A u \in 1..n : resource'[u] = resource[u]
      /\ resource'[n + 1].layers = << >>
  BY Constructed
<1> HIDE DEF n
<1>3. \A v \in Range(m_Resources) : KindOf(v)' = KindOf(v)
  BY <1>1, <1>2 DEF KindOf, InModel
<1>4. LayersFit(<< >>)'
  BY DEF LayersFit
<1>5. ASSUME NEW u \in Range(m_Resources)
      PROVE  LayersFit(resource[u].layers)' /\ resource'[u] = resource[u]
  BY <1>1, <1>2, <1>3, FitStays DEF GroupsFit
<1> QED BY <1>1, <1>2, <1>4, <1>5 DEF GroupsFit

-----------------------------------------------------------------------------
(* The other changes. *)

(* ParentsStay: parents stay listed first while the list and what its      *)
(* resources are constructed from stay.                                    *)
LEMMA ParentsStay ==
  ASSUME TypeOK, ParentsComeFirst, UNCHANGED m_Resources,
         \A u \in 1..Len(resource) : /\ resource'[u].kind = resource[u].kind
                                     /\ resource'[u].parent = resource[u].parent
  PROVE  ParentsComeFirst'
<1>1. Len(m_Resources) \in Nat /\ DOMAIN m_Resources = 1..Len(m_Resources)
      /\ \A i \in DOMAIN m_Resources : m_Resources[i] \in 1..Len(resource)
  BY DEF TypeOK
<1>2. ASSUME NEW i \in DOMAIN m_Resources, ParentKind(resource'[m_Resources[i]].kind) # {}
      PROVE  \E j \in 1..(i - 1) :
                /\ m_Resources[j] = resource'[m_Resources[i]].parent
                /\ resource'[resource'[m_Resources[i]].parent].kind
                     \in ParentKind(resource'[m_Resources[i]].kind)
  <2>1. /\ resource'[m_Resources[i]].kind = resource[m_Resources[i]].kind
        /\ resource'[m_Resources[i]].parent = resource[m_Resources[i]].parent
    BY <1>1
  <2>2. PICK j \in 1..(i - 1) : /\ m_Resources[j] = resource[m_Resources[i]].parent
                                /\ resource[resource[m_Resources[i]].parent].kind
                                     \in ParentKind(resource[m_Resources[i]].kind)
    BY <1>2, <2>1 DEF ParentsComeFirst
  <2>3. resource'[m_Resources[j]].kind = resource[m_Resources[j]].kind
    BY <1>1, <2>2
  <2> QED BY <2>1, <2>2, <2>3
<1> QED BY <1>2 DEF ParentsComeFirst

(* OnlyConstructed: a resource that was constructed and not added changes  *)
(* nothing for the resources of the model.                                 *)
LEMMA OnlyConstructed ==
  ASSUME ModelInv, NEW kind \in Kinds, NEW id \in Nat, NEW parent \in Nat,
         Construct(kind, id, parent), UNCHANGED <<m_Resources, lookup, m_BuildItems>>
  PROVE  /\ m_Resources' \in Seq(1..Len(resource')) /\ lookup' \in [Tables -> Seq(1..Len(resource'))]
         /\ LookupTablesListTheModel' /\ ParentsComeFirst' /\ GroupsFit'
         /\ BuildItemsAreKnownByTheirHandles'
<1> DEFINE n == Len(resource)
<1>0. ModelInv
  OBVIOUS
<1>1. n \in Nat /\ m_Resources \in Seq(1..n) /\ lookup \in [Tables -> Seq(1..n)] /\ TypeOK
  BY LenProperties DEF ModelInv, TypeOK
<1>2. Len(resource') = n + 1 /\ \A u \in 1..n : resource'[u] = resource[u]
  BY <1>1, Constructed
<1>3. Range(m_Resources) \subseteq 1..n /\ DOMAIN m_Resources = 1..Len(m_Resources)
      /\ \A i \in DOMAIN m_Resources : m_Resources[i] \in 1..n
  BY <1>1, RangeOfSeq
<1> HIDE DEF n, Tables
<1>4. Seq(1..n) \subseteq Seq(1..(n + 1))
  BY <1>1
<1>5. m_Resources' \in Seq(1..Len(resource')) /\ lookup' \in [Tables -> Seq(1..Len(resource'))]
  BY <1>1, <1>2, <1>4
<1>6. \A t : OfTable(t)' = OfTable(t)
  BY <1>2, <1>3 DEF OfTable
<1>7. LookupTablesListTheModel'
  BY ONLY <1>0, <1>6, UNCHANGED <<m_Resources, lookup>>
     DEF ModelInv, LookupTablesListTheModel, Increasing
<1>8. ParentsComeFirst'
  BY <1>0, <1>1, <1>2, ParentsStay DEF ModelInv, n
<1>9. GroupsFit'
  <2>1. \A v \in Range(m_Resources) : KindOf(v)' = KindOf(v)
    BY <1>2, <1>3 DEF KindOf, InModel
  <2>2. ASSUME NEW u \in Range(m_Resources)
        PROVE  LayersFit(resource[u].layers)' /\ resource'[u] = resource[u]
    BY <1>0, <1>2, <1>3, <2>1, FitStays DEF ModelInv, GroupsFit
  <2> QED BY <2>2 DEF GroupsFit
<1>10. BuildItemsAreKnownByTheirHandles'
  BY <1>0, <1>2, <1>3 DEF ModelInv, BuildItemsAreKnownByTheirHandles, InModel
<1> QED BY <1>5, <1>7, <1>8, <1>9, <1>10

(* OnlyRelayered: new layers of one group that fit, if the group is in the *)
(* model, change nothing else.                                             *)
LEMMA OnlyRelayered ==
  ASSUME ModelInv, NEW group \in UIDs, NEW v \in Seq(Nat),
         InModel(group) => LayersFit(v),
         resource' = [resource EXCEPT ![group].layers = v],
         UNCHANGED <<m_Resources, lookup, m_sCurPath, m_BuildItems, m_nHandleCounter, reader, unread>>
  PROVE  ModelInv'
<1> DEFINE n == Len(resource)
<1>0. ModelInv /\ UNCHANGED <<m_Resources, lookup, m_sCurPath, m_BuildItems, m_nHandleCounter, reader, unread>>
      /\ (InModel(group) => LayersFit(v))
  OBVIOUS
<1>1. n \in Nat /\ m_Resources \in Seq(1..n) /\ lookup \in [Tables -> Seq(1..n)] /\ TypeOK
  BY LenProperties DEF ModelInv, TypeOK
<1>2. /\ resource' \in Seq(ResourceType) /\ Len(resource') = n /\ resource'[group].layers = v
      /\ \A u \in 1..n : /\ resource'[u].kind = resource[u].kind /\ resource'[u].id = resource[u].id
                         /\ resource'[u].parent = resource[u].parent
                         /\ u # group => resource'[u] = resource[u]
  BY <1>1, Relayered
<1>3. Range(m_Resources) \subseteq 1..n
      /\ \A i \in DOMAIN m_Resources : m_Resources[i] \in 1..n
  BY <1>1, RangeOfSeq
<1> HIDE DEF n, Tables
<1>4. TypeOK'
  BY ONLY <1>0, <1>1, <1>2 DEF TypeOK, n
<1>5. \A t : OfTable(t)' = OfTable(t)
  BY ONLY <1>0, <1>2, <1>3 DEF OfTable
<1>6. LookupTablesListTheModel'
  BY ONLY <1>0, <1>5 DEF ModelInv, LookupTablesListTheModel, Increasing
<1>7. ParentsComeFirst'
  BY ONLY <1>0, <1>1, <1>2, ParentsStay DEF ModelInv, n
<1>8. GroupsFit'
  <2>1. \A w : KindOf(w)' = KindOf(w)
    BY ONLY <1>0, <1>2, <1>3 DEF KindOf, InModel
  <2>2. ASSUME NEW layers, LayersFit(layers) PROVE LayersFit(layers)'
    BY ONLY <2>1, <2>2, FitStays
  <2>3. \A u \in Range(m_Resources) : u # group => LayersFit(resource[u].layers)
    BY ONLY <1>0 DEF ModelInv, GroupsFit
  <2>4. ASSUME NEW u \in Range(m_Resources) PROVE LayersFit(resource[u].layers)'
    <3>1. CASE u = group
      BY <1>0, <1>2, <2>2, <3>1 DEF InModel
    <3>2. CASE u # group
      BY <1>2, <1>3, <2>2, <2>3, <3>2
    <3> QED BY <3>1, <3>2
  <2> QED BY ONLY <1>0, <2>4 DEF GroupsFit
<1>9. BuildItemsAreKnownByTheirHandles' /\ HandlesAreUsed'
  BY ONLY <1>0, <1>2, <1>3 DEF ModelInv, BuildItemsAreKnownByTheirHandles, HandlesAreUsed, InModel
<1>10. APIModelsAreNumbered'
  BY ONLY <1>0, <1>2 DEF ModelInv, APIModelsAreNumbered, n
<1> QED BY ONLY <1>4, <1>6, <1>7, <1>8, <1>9, <1>10 DEF ModelInv

(* Items: build item records.                                              *)
LEMMA Items ==
  ASSUME NEW h \in Nat, NEW o \in Nat
  PROVE  LET b == [handle |-> h, object |-> o] IN
         b \in BuildItemType /\ b.handle = h /\ b.object = o
BY DEF BuildItemType

(* NewItemKeeps: a build item gets a handle no item has, and its object is *)
(* in the model.                                                           *)
LEMMA NewItemKeeps ==
  ASSUME TypeOK, HandlesAreUsed, NEW object \in Nat, NewBuildItem(object),
         \A i, j \in DOMAIN m_BuildItems : m_BuildItems[i].handle = m_BuildItems[j].handle => i = j,
         \A i \in DOMAIN m_BuildItems : m_BuildItems[i].object \in Range(m_Resources') /\ resource'[m_BuildItems[i].object].kind \in Objects,
         object \in Range(m_Resources'), resource'[object].kind \in Objects
  PROVE  /\ m_BuildItems' \in Seq(BuildItemType) /\ m_nHandleCounter' \in Nat \ {0}
         /\ BuildItemsAreKnownByTheirHandles' /\ HandlesAreUsed'
<1> DEFINE b == [handle |-> m_nHandleCounter, object |-> object]
<1>1. m_nHandleCounter \in Nat \ {0} /\ m_BuildItems \in Seq(BuildItemType)
  BY DEF TypeOK
<1>2. b \in BuildItemType /\ b.handle = m_nHandleCounter /\ b.object = object
  BY <1>1, Items
<1>3. m_BuildItems' = Append(m_BuildItems, b) /\ m_nHandleCounter' = m_nHandleCounter + 1
  BY DEF NewBuildItem
<1> HIDE DEF b
<1>4. /\ Len(m_BuildItems) \in Nat /\ DOMAIN m_BuildItems = 1..Len(m_BuildItems)
      /\ m_BuildItems' \in Seq(BuildItemType)
      /\ DOMAIN m_BuildItems' = 1..(Len(m_BuildItems) + 1)
      /\ \A i \in 1..Len(m_BuildItems) : m_BuildItems'[i] = m_BuildItems[i]
      /\ m_BuildItems'[Len(m_BuildItems) + 1] = b
  BY <1>1, <1>2, <1>3
<1>5. \A i \in 1..Len(m_BuildItems) : m_BuildItems[i].handle \in Nat /\ m_BuildItems[i].handle < m_nHandleCounter
  <2>1. \A i \in 1..Len(m_BuildItems) : m_BuildItems[i] \in BuildItemType
    BY <1>1
  <2> QED BY <1>4, <2>1 DEF HandlesAreUsed, BuildItemType
<1>6. HandlesAreUsed'
  BY <1>1, <1>2, <1>3, <1>4, <1>5 DEF HandlesAreUsed
<1>7. \A i, j \in DOMAIN m_BuildItems' : m_BuildItems'[i].handle = m_BuildItems'[j].handle => i = j
  BY <1>1, <1>2, <1>4, <1>5
<1>8. \A i \in DOMAIN m_BuildItems' : m_BuildItems'[i].object \in Range(m_Resources') /\ resource'[m_BuildItems'[i].object].kind \in Objects
  BY <1>2, <1>4
<1> QED BY <1>1, <1>3, <1>4, <1>6, <1>7, <1>8 DEF BuildItemsAreKnownByTheirHandles, InModel

(* AddedInv: Add, ReadResource and ReadSTL keep the invariant.             *)
LEMMA AddedInv ==
  ASSUME ModelInv, NEW kind \in Kinds, NEW id \in Nat, NEW parent \in Parents(kind),
         Construct(kind, id, parent), addResource(kind),
         UNCHANGED <<m_sCurPath, reader, unread>>,
         reader = "none" => id = generateResourceID,
         \/ UNCHANGED <<m_BuildItems, m_nHandleCounter>>
         \/ NewBuildItem(NewUID) /\ kind \in Objects
  PROVE  ModelInv'
<1> DEFINE n == Len(resource)
<1>0. TypeOK /\ LookupTablesListTheModel /\ ParentsComeFirst /\ GroupsFit /\ HandlesAreUsed
      /\ BuildItemsAreKnownByTheirHandles /\ APIModelsAreNumbered
  BY DEF ModelInv
<1>1. parent \in Nat
  BY <1>0, ParentsAreNumbers
<1>2. n \in Nat /\ NewUID = n + 1 /\ m_Resources \in Seq(1..n)
  BY <1>0, LenProperties DEF TypeOK, NewUID
<1>3. /\ resource' \in Seq(ResourceType) /\ Len(resource') = n + 1
      /\ \A u \in 1..n : resource'[u] = resource[u]
      /\ resource'[n + 1].id = id /\ resource'[n + 1].kind = kind
  BY <1>0, <1>1, Constructed
<1>4. Range(m_Resources) \subseteq 1..n /\ Range(m_Resources') = Range(m_Resources) \cup {n + 1}
  BY <1>0, <1>1, AddedRange
<1>5. m_Resources' \in Seq(1..Len(resource')) /\ lookup' \in [Tables -> Seq(1..Len(resource'))]
  BY <1>0, <1>1, AddedTypes
<1>6. LookupTablesListTheModel' /\ ParentsComeFirst' /\ GroupsFit'
  BY <1>0, <1>1, AddedTables, AddedParents, AddedGroups
<1> HIDE DEF n, Tables
<1>7. \A i \in DOMAIN m_BuildItems : m_BuildItems[i].object \in Range(m_Resources') /\ resource'[m_BuildItems[i].object].kind \in Objects
  BY <1>0, <1>3, <1>4 DEF BuildItemsAreKnownByTheirHandles, InModel
<1>8. /\ m_BuildItems' \in Seq(BuildItemType) /\ m_nHandleCounter' \in Nat \ {0}
      /\ BuildItemsAreKnownByTheirHandles' /\ HandlesAreUsed'
  <2>1. CASE UNCHANGED <<m_BuildItems, m_nHandleCounter>>
    BY <1>0, <1>7, <2>1 DEF TypeOK, BuildItemsAreKnownByTheirHandles, HandlesAreUsed, InModel
  <2>2. CASE NewBuildItem(NewUID) /\ kind \in Objects
    <3>1. n + 1 \in Range(m_Resources') /\ resource'[n + 1].kind \in Objects /\ NewBuildItem(n + 1)
      BY <1>2, <1>3, <1>4, <2>2
    <3>2. \A i, j \in DOMAIN m_BuildItems : m_BuildItems[i].handle = m_BuildItems[j].handle => i = j
      BY <1>0 DEF BuildItemsAreKnownByTheirHandles
    <3> QED BY <1>0, <1>2, <1>7, <3>1, <3>2, NewItemKeeps
  <2> QED BY <2>1, <2>2
<1>9. TypeOK'
  BY <1>0, <1>3, <1>5, <1>8 DEF TypeOK
<1>10. APIModelsAreNumbered'
  <2> SUFFICES ASSUME reader = "none" PROVE APIModelsAreNumbered'
    BY DEF APIModelsAreNumbered
  <2>1. Len(m_Resources) = n /\ \A u \in 1..n : m_Resources[u] = u /\ resource[u].id = u
    BY <1>0 DEF APIModelsAreNumbered, n
  <2>2. id = n + 1
    <3>1. id = generateResourceID /\ Increasing(m_Resources)
      BY <1>0 DEF LookupTablesListTheModel
    <3> QED BY <1>0, <1>2, <2>1, <3>1, GeneratedID
  <2>3. m_Resources' = Append(m_Resources, n + 1)
    BY <1>2 DEF addResource
  <2>4. /\ Len(m_Resources') = n + 1 /\ m_Resources'[n + 1] = n + 1
        /\ \A u \in 1..n : m_Resources'[u] = u
    BY <1>2, <2>1, <2>3
  <2>5. \A u \in 1..(n + 1) : m_Resources'[u] = u /\ resource'[u].id = u
    BY <1>2, <1>3, <2>1, <2>2, <2>4
  <2> QED BY <1>3, <2>4, <2>5 DEF APIModelsAreNumbered
<1> QED BY <1>6, <1>8, <1>9, <1>10 DEF ModelInv

(* ClearedInv: clearAll empties the model and forgets no resource.         *)
LEMMA ClearedInv ==
  ASSUME ModelInv, clearAll, reader' # "none",
         UNCHANGED <<resource, m_sCurPath, m_nHandleCounter, unread>>
  PROVE  ModelInv'
<1> DEFINE n == Len(resource)
<1>1. /\ m_Resources' = << >> /\ m_BuildItems' = << >> /\ resource' = resource
      /\ \A t \in Tables : lookup'[t] = IF t = "texturegroup" THEN lookup[t] ELSE << >>
  BY DEF clearAll
<1>2. TypeOK /\ \A t \in Tables : lookup[t] \in Seq(1..n)
  BY DEF ModelInv, TypeOK
<1>3. Range(m_Resources') = {} /\ DOMAIN m_Resources' = {} /\ DOMAIN m_BuildItems' = {}
  BY <1>1 DEF Range
<1>4. \A t : OfTable(t)' = {}
  BY <1>3 DEF OfTable
<1>5. \A t \in Tables : lookup'[t] \in Seq(1..n)
  <2>1. << >> \in Seq(1..n)
    OBVIOUS
  <2> HIDE DEF Tables, n
  <2> QED BY <1>1, <1>2, <2>1
<1>6. lookup' \in [Tables -> Seq(1..n)]
  <2>1. lookup' = [t \in Tables |-> IF t = "texturegroup" THEN lookup[t] ELSE << >>]
    BY DEF clearAll
  <2> HIDE DEF Tables, n
  <2> QED BY <1>5, <2>1
<1>7. TypeOK'
  BY <1>1, <1>2, <1>6 DEF TypeOK
<1>8. Range(<< >>) = {} /\ Increasing(<< >>)
  BY DEF Range, Increasing
<1> HIDE DEF Tables
<1>9. \A t \in Tables : Increasing(lookup'[t])
  BY <1>1, <1>8 DEF ModelInv, LookupTablesListTheModel
<1>10. \A t \in Tables \ {"texturegroup"} : Range(lookup'[t]) = {}
  BY <1>1, <1>8
<1>11. LookupTablesListTheModel'
  BY <1>1, <1>4, <1>8, <1>9, <1>10 DEF LookupTablesListTheModel, Increasing
<1>12. ParentsComeFirst' /\ GroupsFit' /\ BuildItemsAreKnownByTheirHandles' /\ HandlesAreUsed'
       /\ APIModelsAreNumbered'
  BY <1>3 DEF ParentsComeFirst, GroupsFit, BuildItemsAreKnownByTheirHandles, HandlesAreUsed,
              APIModelsAreNumbered
<1> QED BY <1>7, <1>11, <1>12 DEF ModelInv

(* OnlyPaths: the steps that change neither resources nor build items keep *)
(* the invariant.                                                          *)
LEMMA OnlyPaths ==
  ASSUME ModelInv, UNCHANGED <<resource, m_Resources, lookup, m_BuildItems, m_nHandleCounter>>,
         m_sCurPath' \in Paths, unread' \in SUBSET OtherPaths, reader' = "none" => reader = "none"
  PROVE  ModelInv'
<1>1. \A t : OfTable(t)' = OfTable(t)
  BY DEF OfTable
<1>2. \A layers : LayersFit(layers)' <=> LayersFit(layers)
  BY DEF LayersFit, KindOf, InModel
<1>3. TypeOK' /\ HandlesAreUsed' /\ APIModelsAreNumbered'
  BY DEF ModelInv, TypeOK, HandlesAreUsed, APIModelsAreNumbered
<1>4. LookupTablesListTheModel'
  BY <1>1 DEF ModelInv, LookupTablesListTheModel, Increasing
<1>5. ParentsComeFirst' /\ BuildItemsAreKnownByTheirHandles'
  BY DEF ModelInv, ParentsComeFirst, BuildItemsAreKnownByTheirHandles, InModel
<1>6. GroupsFit'
  BY <1>2 DEF ModelInv, GroupsFit
<1> QED BY <1>3, <1>4, <1>5, <1>6 DEF ModelInv

-----------------------------------------------------------------------------
(* InitInv: a new model is empty.                                          *)
LEMMA InitInv == Init => ModelInv
<1> SUFFICES ASSUME Init PROVE ModelInv
  OBVIOUS
<1>1. /\ resource = << >> /\ m_Resources = << >> /\ m_BuildItems = << >> /\ m_nHandleCounter = 1
      /\ m_sCurPath = "" /\ unread = {} /\ lookup = [t \in Tables |-> << >>]
  BY DEF Init
<1>2. \A S : << >> \in Seq(S)
  OBVIOUS
<1>3. lookup \in [Tables -> Seq(1..Len(resource))]
  <2> HIDE DEF Tables
  <2> QED BY <1>1, <1>2
<1>4. TypeOK
  <2>1. m_sCurPath \in Paths /\ unread \in SUBSET OtherPaths /\ m_nHandleCounter \in Nat \ {0}
    <3>1. m_sCurPath = "" /\ unread = {} /\ m_nHandleCounter = 1
      BY <1>1, Zenon
    <3>2. m_sCurPath \in Paths
      BY ONLY <3>1, Zenon DEF Paths
    <3>3. unread \in SUBSET OtherPaths
      BY ONLY <3>1, Zenon
    <3>4. m_nHandleCounter \in Nat \ {0}
      <4>1. m_nHandleCounter = 1
        BY ONLY <3>1, Zenon
      <4> QED BY ONLY <4>1
    <3> QED BY ONLY <3>2, <3>3, <3>4
  <2> HIDE DEF Tables
  <2> QED BY ONLY <1>1, <1>2, <1>3, <2>1, Zenon DEF TypeOK
<1>5. Range(<< >>) = {} /\ Increasing(<< >>) /\ DOMAIN << >> = {}
  BY DEF Range, Increasing
<1>6. \A t \in Tables : lookup[t] = << >>
  BY <1>1
<1>7. \A t : OfTable(t) = {}
  BY <1>1, <1>5 DEF OfTable
<1>8. "texturegroup" \in Tables
  BY DEF Tables, Kinds, Objects
<1> HIDE DEF Tables
<1>9. LookupTablesListTheModel
  BY <1>1, <1>5, <1>6, <1>7, <1>8 DEF LookupTablesListTheModel
<1>10. /\ ParentsComeFirst /\ GroupsFit /\ BuildItemsAreKnownByTheirHandles /\ HandlesAreUsed
  <2>1. DOMAIN m_Resources = {} /\ Range(m_Resources) = {} /\ DOMAIN m_BuildItems = {}
    BY <1>1, <1>5
  <2> QED BY <2>1 DEF ParentsComeFirst, GroupsFit, BuildItemsAreKnownByTheirHandles, HandlesAreUsed
<1>11. APIModelsAreNumbered
  <2>1. Len(<< >>) = 0 /\ 1..0 = {}
    OBVIOUS
  <2> QED BY <1>1, <2>1 DEF APIModelsAreNumbered
<1> QED BY <1>4, <1>9, <1>10, <1>11 DEF ModelInv

(* AllowedFits: addLayer accepts a layer only if it fits the ones before.  *)
LEMMA AllowedFits ==
  ASSUME NEW layers \in Seq(Nat), NEW layer \in Nat, LayersFit(layers), LayerAllowed(layers, layer)
  PROVE  LayersFit(Append(layers, layer))
<1> DEFINE new == Append(layers, layer)
           n == Len(layers)
<1>1. /\ n \in Nat /\ DOMAIN layers = 1..n /\ DOMAIN new = 1..(n + 1)
      /\ \A k \in 1..n : new[k] = layers[k]
      /\ new[n + 1] = layer
  OBVIOUS
<1> HIDE DEF new, n, KindOf, Materials
<1>2. /\ KindOf(layer) \in Materials \cup {"color", "texturegroup"}
      /\ KindOf(layer) \in Materials => \A k \in 1..n : KindOf(layers[k]) \notin Materials
      /\ KindOf(layer) = "color" => \A k \in 1..n : KindOf(layers[k]) # "color"
  BY <1>1 DEF LayerAllowed, LayerKinds
<1>3. \A k \in 1..(n + 1) : k \in 1..n \/ k = n + 1
  BY <1>1
<1>4. \A k \in 1..(n + 1) : KindOf(new[k]) \in Materials \cup {"color", "texturegroup"}
  BY <1>1, <1>2, <1>3 DEF LayersFit
<1>5. ASSUME NEW k \in 1..(n + 1), NEW l \in 1..(n + 1)
      PROVE  /\ KindOf(new[k]) \in Materials /\ KindOf(new[l]) \in Materials => k = l
             /\ KindOf(new[k]) = "color" /\ KindOf(new[l]) = "color" => k = l
  BY <1>1, <1>2, <1>3 DEF LayersFit
<1> QED BY <1>1, <1>4, <1>5 DEF LayersFit, new

(* RemovedFits: layers fit when one is removed.                            *)
LEMMA RemovedFits ==
  ASSUME NEW layers \in Seq(Nat), NEW i \in DOMAIN layers, LayersFit(layers)
  PROVE  LayersFit(RemoveAt(layers, i))
<1> DEFINE new == RemoveAt(layers, i)
<1>1. i \in 1..Len(layers)
  OBVIOUS
<1>2. PICK old \in [DOMAIN new -> DOMAIN layers] :
        /\ \A k \in DOMAIN new : new[k] = layers[old[k]]
        /\ \A k, l \in DOMAIN new : old[k] = old[l] => k = l
  BY <1>1, RemovedFrom
<1> HIDE DEF new, KindOf, Materials
<1>3. \A k \in DOMAIN new : KindOf(new[k]) \in Materials \cup {"color", "texturegroup"}
  BY <1>2 DEF LayersFit
<1>4. ASSUME NEW k \in DOMAIN new, NEW l \in DOMAIN new
      PROVE  /\ KindOf(new[k]) \in Materials /\ KindOf(new[l]) \in Materials => k = l
             /\ KindOf(new[k]) = "color" /\ KindOf(new[l]) = "color" => k = l
  BY <1>2 DEF LayersFit
<1> QED BY <1>3, <1>4 DEF LayersFit, new

(* NextInv: every call of the API and every step of a reader keeps the     *)
(* invariant.                                                              *)
LEMMA NextInv == ModelInv /\ [Next]_vars => ModelInv'
<1> SUFFICES ASSUME ModelInv, [Next]_vars PROVE ModelInv'
  OBVIOUS
<1>t. TypeOK /\ LookupTablesListTheModel
  BY DEF ModelInv
<1>n. Len(resource) \in Nat /\ UIDs = 1..Len(resource) /\ UIDs \subseteq Nat
  BY <1>t, LenProperties DEF TypeOK, UIDs
<1>k. UsedKinds \subseteq Kinds /\ MaxID \in Nat /\ "mesh" \in Kinds /\ "mesh" \in Objects
  BY ResourceModelAssumption DEF Kinds, Objects
<1>p. m_sCurPath \in Paths /\ RootPath \in Paths /\ OtherPaths \subseteq Paths /\ unread \in SUBSET OtherPaths
  BY <1>t DEF TypeOK, Paths
<1>m. MaxResources \in Nat
  BY ResourceModelAssumption, Zenon
<1>e. << >> \in Seq(Nat)
  BY ONLY EmptySeq
<1>g. generateResourceID \in Nat
  BY <1>t, GeneratedID
<1>1. ASSUME NEW kind \in UsedKinds, Add(kind) PROVE ModelInv'
  <2>1. PICK parent \in Parents(kind) : Construct(kind, generateResourceID, parent)
    BY <1>1 DEF Add
  <2>2. addResource(kind) /\ UNCHANGED <<m_sCurPath, m_BuildItems, m_nHandleCounter, reader, unread>>
    BY <1>1 DEF Add
  <2> QED BY <1>g, <1>k, <2>1, <2>2, AddedInv
<1>2. ASSUME NEW object \in 1..MaxResources, AddBuildItem(object) PROVE ModelInv'
  <2>1. /\ InModel(object) /\ resource[object].kind \in Objects /\ NewBuildItem(object)
        /\ UNCHANGED <<resource, m_Resources, lookup, m_sCurPath, reader, unread>>
    BY <1>2 DEF AddBuildItem
  <2>2. HandlesAreUsed /\ BuildItemsAreKnownByTheirHandles
    BY DEF ModelInv
  <2>3. /\ \A i, j \in DOMAIN m_BuildItems : m_BuildItems[i].handle = m_BuildItems[j].handle => i = j
        /\ \A i \in DOMAIN m_BuildItems : m_BuildItems[i].object \in Range(m_Resources') /\ resource'[m_BuildItems[i].object].kind \in Objects
        /\ object \in Range(m_Resources') /\ resource'[object].kind \in Objects
    BY <2>1, <2>2 DEF BuildItemsAreKnownByTheirHandles, InModel
  <2>4. /\ m_BuildItems' \in Seq(BuildItemType) /\ m_nHandleCounter' \in Nat \ {0}
        /\ BuildItemsAreKnownByTheirHandles' /\ HandlesAreUsed'
    BY <1>t, <2>1, <2>2, <2>3, NewItemKeeps
  <2>5. TypeOK' /\ APIModelsAreNumbered' /\ ParentsComeFirst'
    BY <2>1, <2>4 DEF ModelInv, TypeOK, APIModelsAreNumbered, ParentsComeFirst
  <2>6. LookupTablesListTheModel' /\ GroupsFit'
    <3>1. (\A t : OfTable(t)' = OfTable(t)) /\ (\A layers : LayersFit(layers)' <=> LayersFit(layers))
      BY <2>1 DEF OfTable, LayersFit, KindOf, InModel
    <3> QED BY <2>1, <3>1 DEF ModelInv, LookupTablesListTheModel, Increasing, GroupsFit
  <2> QED BY <2>4, <2>5, <2>6 DEF ModelInv
<1>3. ASSUME NEW handle \in 1..MaxHandles, RemoveBuildItem(handle) PROVE ModelInv'
  <2>1. PICK i \in DOMAIN m_BuildItems : m_BuildItems' = RemoveAt(m_BuildItems, i)
    BY <1>3 DEF RemoveBuildItem
  <2>2. UNCHANGED <<resource, m_Resources, lookup, m_sCurPath, m_nHandleCounter, reader, unread>>
    BY <1>3 DEF RemoveBuildItem
  <2>3. m_BuildItems \in Seq(BuildItemType) /\ i \in 1..Len(m_BuildItems)
    BY <1>t DEF TypeOK
  <2>4. m_BuildItems' \in Seq(BuildItemType)
    BY <2>1, <2>3, Removed
  <2>5. PICK old \in [DOMAIN m_BuildItems' -> DOMAIN m_BuildItems] :
          /\ \A k \in DOMAIN m_BuildItems' : m_BuildItems'[k] = m_BuildItems[old[k]]
          /\ \A k, l \in DOMAIN m_BuildItems' : old[k] = old[l] => k = l
    BY <2>1, <2>3, RemovedFrom
  <2>8. BuildItemsAreKnownByTheirHandles' /\ HandlesAreUsed'
    BY <2>2, <2>5 DEF ModelInv, BuildItemsAreKnownByTheirHandles, HandlesAreUsed, InModel
  <2>9. TypeOK' /\ APIModelsAreNumbered' /\ ParentsComeFirst'
    BY <2>2, <2>4 DEF ModelInv, TypeOK, APIModelsAreNumbered, ParentsComeFirst
  <2>10. LookupTablesListTheModel' /\ GroupsFit'
    <3>1. (\A t : OfTable(t)' = OfTable(t)) /\ (\A layers : LayersFit(layers)' <=> LayersFit(layers))
      BY <2>2 DEF OfTable, LayersFit, KindOf, InModel
    <3> QED BY <2>2, <3>1 DEF ModelInv, LookupTablesListTheModel, Increasing, GroupsFit
  <2> QED BY <2>8, <2>9, <2>10 DEF ModelInv
<1>4. ASSUME NEW group \in 1..MaxResources, NEW layer \in 1..MaxResources, addLayer(group, layer)
      PROVE  ModelInv'
  <2> DEFINE old == resource[group].layers
  <2>1. /\ group \in UIDs /\ LayerAllowed(old, layer)
        /\ resource' = [resource EXCEPT ![group].layers = Append(old, layer)]
        /\ UNCHANGED <<m_Resources, lookup, m_sCurPath, m_BuildItems, m_nHandleCounter, reader, unread>>
    BY <1>4 DEF addLayer
  <2>2. resource[group] \in ResourceType
    BY <1>t, <1>n, <2>1, ElementOfSeq DEF TypeOK
  <2>3. old \in Seq(Nat)
    BY <1>e, <2>2, Fields, Zenon
  <2>4. layer \in Nat
    BY <1>m
  <2>5. InModel(group) => LayersFit(old)
    BY DEF ModelInv, GroupsFit, InModel
  <2> HIDE DEF old
  <2>6. Append(old, layer) \in Seq(Nat)
    BY <2>3, <2>4
  <2>7. InModel(group) => LayersFit(Append(old, layer))
    BY <2>1, <2>3, <2>4, <2>5, AllowedFits
  <2> QED BY <2>1, <2>6, <2>7, OnlyRelayered
<1>5. ASSUME NEW group \in 1..MaxResources, NEW at \in 1..MaxLayers, removeLayer(group, at)
      PROVE  ModelInv'
  <2> DEFINE old == resource[group].layers
  <2>1. /\ group \in UIDs /\ at \in DOMAIN old
        /\ resource' = [resource EXCEPT ![group].layers = RemoveAt(old, at)]
        /\ UNCHANGED <<m_Resources, lookup, m_sCurPath, m_BuildItems, m_nHandleCounter, reader, unread>>
    BY <1>5 DEF removeLayer
  <2>2. resource[group] \in ResourceType
    BY <1>t, <1>n, <2>1, ElementOfSeq DEF TypeOK
  <2>3. old \in Seq(Nat)
    BY <1>e, <2>2, Fields, Zenon
  <2>4. InModel(group) => LayersFit(old)
    BY DEF ModelInv, GroupsFit, InModel
  <2> HIDE DEF old
  <2>5. RemoveAt(old, at) \in Seq(Nat)
    BY <2>1, <2>3, Removed
  <2>6. InModel(group) => LayersFit(RemoveAt(old, at))
    BY <2>1, <2>3, <2>4, RemovedFits
  <2> QED BY <2>1, <2>5, <2>6, OnlyRelayered
<1>6. CASE QueryReader
  BY <1>6, ClearedInv DEF QueryReader
<1>7. CASE BeginRead
  BY <1>7, <1>p, OnlyPaths DEF BeginRead, modelVars
<1>8. ASSUME NEW path \in OtherPaths, EnterPart(path) PROVE ModelInv'
  BY <1>8, <1>p, OnlyPaths DEF EnterPart
<1>9. CASE EnterRoot
  BY <1>9, <1>p, OnlyPaths DEF EnterRoot
<1>10. ASSUME NEW kind \in UsedKinds, NEW id \in 1..MaxID, ReadResource(kind, id) PROVE ModelInv'
  <2>1. PICK parent \in Parents(kind) : Construct(kind, id, parent)
    BY <1>10 DEF ReadResource, PartParents
  <2>2. /\ addResource(kind) /\ reader # "none" /\ id \in Nat
        /\ UNCHANGED <<m_sCurPath, m_BuildItems, m_nHandleCounter, reader, unread>>
    BY <1>10, <1>k DEF ReadResource, InPart
  <2> QED BY <1>k, <2>1, <2>2, AddedInv
<1>11. ASSUME NEW kind \in UsedKinds, NEW id \in 1..MaxID, ReadMalformedResource(kind, id)
       PROVE  ModelInv'
  <2>1. PICK parent \in Parents(kind) : Construct(kind, id, parent)
    BY <1>11 DEF ReadMalformedResource, PartParents
  <2>2. /\ reader' # "none" /\ unread' = {} /\ id \in Nat /\ kind \in Kinds
        /\ UNCHANGED <<m_Resources, lookup, m_sCurPath, m_BuildItems, m_nHandleCounter>>
    BY <1>11, <1>k DEF ReadMalformedResource
  <2>3. parent \in Nat
    BY <1>t, <2>1, ParentsAreNumbers
  <2>4. /\ m_Resources' \in Seq(1..Len(resource')) /\ lookup' \in [Tables -> Seq(1..Len(resource'))]
        /\ LookupTablesListTheModel' /\ ParentsComeFirst' /\ GroupsFit'
        /\ BuildItemsAreKnownByTheirHandles'
    BY <2>1, <2>2, <2>3, OnlyConstructed
  <2>5. resource' \in Seq(ResourceType)
    BY <1>t, <2>1, <2>2, <2>3, Constructed
  <2>6. HandlesAreUsed' /\ APIModelsAreNumbered'
    BY <2>2 DEF ModelInv, HandlesAreUsed, APIModelsAreNumbered
  <2>7. TypeOK'
    <3> HIDE DEF Tables
    <3> QED BY <1>t, <2>2, <2>4, <2>5 DEF TypeOK
  <2> QED BY <2>4, <2>6, <2>7 DEF ModelInv
<1>12. CASE EndRead
  BY <1>12, <1>p, OnlyPaths DEF EndRead, modelVars
<1>13. CASE ReadSTL
  <2>1. /\ reader # "none" /\ Construct("mesh", generateResourceID, 0) /\ addResource("mesh")
        /\ NewBuildItem(NewUID) /\ UNCHANGED <<m_sCurPath, reader, unread>>
    BY <1>13 DEF ReadSTL
  <2>2. 0 \in Parents("mesh")
    BY DEF Parents, ParentKind
  <2> QED BY <1>g, <1>k, <2>1, <2>2, AddedInv
<1>14. ASSUME NEW path \in OtherPaths, WriteSliceStack(path) PROVE ModelInv'
  BY <1>14, <1>p, OnlyPaths DEF WriteSliceStack
<1>15. CASE UNCHANGED vars
  BY <1>15, <1>p, OnlyPaths DEF vars
<1> QED
  BY <1>1, <1>2, <1>3, <1>4, <1>5, <1>6, <1>7, <1>8, <1>9, <1>10, <1>11, <1>12, <1>13, <1>14, <1>15 DEF Next

(* InvReferences: the layers of a group that fit are at most one of each   *)
(* kind that a group may have once.                                        *)
LEMMA InvReferences == ModelInv => ReferencesResolve
<1> SUFFICES ASSUME ModelInv, NEW i \in DOMAIN m_Resources
             PROVE  LET r == resource[m_Resources[i]]
                        Of(kinds) == {k \in DOMAIN r.layers : KindOf(r.layers[k]) \in kinds}
                    IN  /\ ParentKind(r.kind) # {} =>
                             \E j \in 1..(i - 1) : /\ m_Resources[j] = r.parent
                                                   /\ resource[r.parent].kind \in ParentKind(r.kind)
                        /\ DOMAIN r.layers = Of(Materials \cup {"color", "texturegroup"})
                        /\ Cardinality(Of(Materials)) <= 1
                        /\ Cardinality(Of({"color"})) <= 1
  BY DEF ReferencesResolve
<1> DEFINE r == resource[m_Resources[i]]
           Of(kinds) == {k \in DOMAIN r.layers : KindOf(r.layers[k]) \in kinds}
<1>1. ParentKind(r.kind) # {} =>
        \E j \in 1..(i - 1) : /\ m_Resources[j] = r.parent
                              /\ resource[r.parent].kind \in ParentKind(r.kind)
  BY DEF ModelInv, ParentsComeFirst
<1>2. LayersFit(r.layers)
  BY DEF ModelInv, GroupsFit, Range
<1> HIDE DEF r, KindOf, Materials
<1>3. DOMAIN r.layers = Of(Materials \cup {"color", "texturegroup"})
  BY <1>2 DEF LayersFit
<1>4. (\A k, l \in Of(Materials) : k = l) /\ (\A k, l \in Of({"color"}) : k = l)
  BY <1>2 DEF LayersFit
<1> HIDE DEF Of
<1>5. Cardinality(Of(Materials)) <= 1 /\ Cardinality(Of({"color"})) <= 1
  BY <1>4, Singles
<1> QED BY <1>1, <1>3, <1>5 DEF r, Of

(* InvFresh: an API model numbers its resources 1, 2, 3, ..., and the next *)
(* number is free in every part.                                           *)
LEMMA InvFresh == ModelInv => APIModelsNeverCollide
<1> SUFFICES ASSUME ModelInv, reader = "none" PROVE ~KnownID(m_sCurPath, generateResourceID)
  BY DEF APIModelsNeverCollide, GeneratedIDIsFresh
<1>1. /\ Len(m_Resources) = Len(resource)
      /\ \A u \in 1..Len(resource) : m_Resources[u] = u /\ resource[u].id = u
  BY DEF ModelInv, APIModelsAreNumbered
<1>2. Len(resource) \in Nat /\ UIDs = 1..Len(resource) /\ m_Resources \in Seq(1..Len(resource))
  BY LenProperties DEF ModelInv, TypeOK, UIDs
<1>3. generateResourceID = IF m_Resources = << >> THEN 1 ELSE m_Resources[Len(m_Resources)] + 1
  BY GeneratedID DEF ModelInv
<1>4. generateResourceID = Len(resource) + 1
  BY <1>1, <1>2, <1>3
<1> HIDE DEF generateResourceID
<1> QED BY <1>1, <1>2, <1>4, SMTT(60) DEF KnownID

(* StepKeepsIDs: what a step does to the resources that there are.         *)
LEMMA StepKeepsIDs ==
  ASSUME ModelInv, [Next]_vars, NEW u \in UIDs
  PROVE  /\ u \in DOMAIN resource'
         /\ [resource'[u] EXCEPT !.layers = << >>] = [resource[u] EXCEPT !.layers = << >>]
         /\ u \notin Range(m_Resources) => u \notin Range(m_Resources')
<1> DEFINE n == Len(resource)
           Goal == /\ u \in DOMAIN resource'
                   /\ [resource'[u] EXCEPT !.layers = << >>] = [resource[u] EXCEPT !.layers = << >>]
                   /\ u \notin Range(m_Resources) => u \notin Range(m_Resources')
<1>t. TypeOK /\ LookupTablesListTheModel
  BY DEF ModelInv
<1>n. n \in Nat /\ UIDs = 1..n /\ u \in 1..n
  BY <1>t, LenProperties DEF TypeOK, UIDs
<1>k. UsedKinds \subseteq Kinds /\ MaxID \in Nat /\ "mesh" \in Kinds
  BY ResourceModelAssumption DEF Kinds
<1>g. generateResourceID \in Nat
  BY <1>t, GeneratedID
<1>e. << >> \in Seq(Nat) /\ Range(<< >>) = {}
  BY EmptySeq DEF Range
<1>1. ASSUME NEW kind \in Kinds, NEW id \in Nat, NEW parent \in Nat, Construct(kind, id, parent),
             addResource(kind) \/ UNCHANGED m_Resources
      PROVE  Goal
  <2>1. /\ resource' \in Seq(ResourceType) /\ Len(resource') = n + 1 /\ resource'[u] = resource[u]
    BY <1>1, <1>t, <1>n, Constructed
  <2>2. u \in DOMAIN resource'
    BY <1>n, <2>1
  <2>3. Range(m_Resources') = Range(m_Resources) \cup {n + 1} \/ m_Resources' = m_Resources
    BY <1>1, <1>t, AddedRange
  <2>4. u \notin Range(m_Resources) => u \notin Range(m_Resources')
    BY <1>n, <2>3
  <2> QED BY <2>1, <2>2, <2>4
<1>2. ASSUME NEW group \in UIDs, NEW v \in Seq(Nat), UNCHANGED m_Resources,
             resource' = [resource EXCEPT ![group].layers = v]
      PROVE  Goal
  <2>1. /\ resource' \in Seq(ResourceType) /\ Len(resource') = n
        /\ [resource'[u] EXCEPT !.layers = << >>] = [resource[u] EXCEPT !.layers = << >>]
    BY <1>2, <1>t, <1>n, Relayered
  <2>2. u \in DOMAIN resource'
    BY ONLY <1>n, <2>1
  <2> QED BY <1>2, <2>1, <2>2
<1>3. ASSUME UNCHANGED resource, m_Resources' = m_Resources \/ m_Resources' = << >>
      PROVE  Goal
  BY <1>3, <1>e DEF UIDs
<1>4. ASSUME NEW group \in UIDs PROVE resource[group].layers \in Seq(Nat)
  <2>1. resource[group] \in ResourceType
    BY <1>t, <1>n, ElementOfSeq DEF TypeOK
  <2> QED BY <1>e, <2>1, Fields, Zenon
<1> HIDE DEF Goal, n
<1>5. ASSUME NEW kind \in UsedKinds, Add(kind) PROVE Goal
  BY <1>1, <1>5, <1>g, <1>k, <1>t, ParentsAreNumbers DEF Add
<1>6. ASSUME NEW group \in 1..MaxResources, NEW layer \in 1..MaxResources, addLayer(group, layer)
      PROVE  Goal
  <2>1. MaxResources \in Nat
    BY ResourceModelAssumption, Zenon
  <2>2. group \in UIDs /\ UNCHANGED m_Resources
        /\ resource' = [resource EXCEPT ![group].layers = Append(resource[group].layers, layer)]
    BY <1>6 DEF addLayer
  <2>3. Append(resource[group].layers, layer) \in Seq(Nat)
    <3>1. resource[group].layers \in Seq(Nat) /\ layer \in Nat
      BY <1>4, <2>1, <2>2
    <3> QED BY ONLY <3>1
  <2> QED BY <1>2, <2>2, <2>3
<1>7. ASSUME NEW group \in 1..MaxResources, NEW at \in 1..MaxLayers, removeLayer(group, at)
      PROVE  Goal
  <2>1. group \in UIDs /\ UNCHANGED m_Resources /\ at \in DOMAIN resource[group].layers
        /\ resource' = [resource EXCEPT ![group].layers = RemoveAt(resource[group].layers, at)]
    BY <1>7 DEF removeLayer
  <2>2. RemoveAt(resource[group].layers, at) \in Seq(Nat)
    <3>1. resource[group].layers \in Seq(Nat)
      BY <1>4, <2>1
    <3> QED BY <2>1, <3>1, Removed
  <2> QED BY <1>2, <2>1, <2>2
<1>8. ASSUME NEW kind \in UsedKinds, NEW id \in 1..MaxID, ReadResource(kind, id) \/ ReadMalformedResource(kind, id)
      PROVE  Goal
  <2>1. PICK parent \in Parents(kind) : Construct(kind, id, parent)
    BY <1>8 DEF ReadResource, ReadMalformedResource, PartParents
  <2>2. id \in Nat /\ parent \in Nat /\ kind \in Kinds
    BY <1>k, <1>t, ParentsAreNumbers
  <2>3. addResource(kind) \/ UNCHANGED m_Resources
    BY <1>8 DEF ReadResource, ReadMalformedResource
  <2> QED BY <1>1, <2>1, <2>2, <2>3
<1>9. ASSUME ReadSTL PROVE Goal
  BY <1>1, <1>9, <1>g, <1>k DEF ReadSTL
<1>10. ASSUME QueryReader \/ BeginRead \/ EnterRoot \/ EndRead \/ UNCHANGED vars PROVE Goal
  BY <1>3, <1>10 DEF QueryReader, clearAll, BeginRead, EnterRoot, EndRead, modelVars, vars
<1>11. ASSUME NEW path \in OtherPaths, EnterPart(path) \/ WriteSliceStack(path) PROVE Goal
  BY <1>3, <1>11 DEF EnterPart, WriteSliceStack
<1>12. ASSUME NEW k \in Nat, AddBuildItem(k) \/ RemoveBuildItem(k) PROVE Goal
  BY <1>3, <1>12 DEF AddBuildItem, RemoveBuildItem
<1>13. 1..MaxResources \subseteq Nat /\ 1..MaxHandles \subseteq Nat
  OBVIOUS
<1>14. Goal
  BY <1>5, <1>6, <1>7, <1>8, <1>9, <1>10, <1>11, <1>12, <1>13 DEF Next
<1> QED BY <1>14 DEF Goal

-----------------------------------------------------------------------------
(* ModelInvariant: the invariant holds of every model a client of the API  *)
(* and a 3MF or STL reader can make.                                       *)
THEOREM ModelInvariant == Spec => []ModelInv
BY InitInv, NextInv, PTL DEF Spec

(* TablesCorrect: the lookup tables of addResourceToLookupTable list the   *)
(* resources of the model, whatever was added, read and cleared.           *)
THEOREM TablesCorrect == Spec => []LookupTablesListTheModel
<1>1. ModelInv => LookupTablesListTheModel
  BY DEF ModelInv
<1> QED BY <1>1, ModelInvariant, PTL

(* ReferencesCorrect: textures, base materials and layers that resources   *)
(* refer to are in the model, before them and of the right kinds.          *)
THEOREM ReferencesCorrect == Spec => []ReferencesResolve
BY InvReferences, ModelInvariant, PTL

(* BuildItemsCorrect: the handles of createHandle tell the build items     *)
(* apart, and their objects are in the model.                              *)
THEOREM BuildItemsCorrect == Spec => []BuildItemsAreKnownByTheirHandles
<1>1. ModelInv => BuildItemsAreKnownByTheirHandles
  BY DEF ModelInv
<1> QED BY <1>1, ModelInvariant, PTL

(* APIModelsCorrect: before a reader is queried, generateResourceID        *)
(* returns an ID that getNewResourceID accepts.                            *)
THEOREM APIModelsCorrect == Spec => []APIModelsNeverCollide
BY InvFresh, ModelInvariant, PTL

(* UniqueIDsCorrect: no step gives a unique ID another resource, or brings *)
(* a resource back that clearAll removed.                                  *)
THEOREM UniqueIDsCorrect == Spec => UniqueIDsAreNeverReused
<1>1. ModelInv /\ [Next]_vars =>
        [\A u \in UIDs :
           /\ u \in DOMAIN resource'
           /\ [resource'[u] EXCEPT !.layers = << >>] = [resource[u] EXCEPT !.layers = << >>]
           /\ ~InModel(u) => ~InModel(u)']_vars
  BY StepKeepsIDs DEF InModel
<1> QED BY <1>1, ModelInvariant, PTL DEF Spec, UniqueIDsAreNeverReused

-----------------------------------------------------------------------------
(* A merge. *)

(* What a merge needs of its source: the bounds, a table's resources have  *)
(* its kind even after a clearAll, parents are numbers that exist, and     *)
(* only multi property groups have layers.                                 *)
SourceFacts(r, tables, handles) ==
  /\ Len(r) <= MaxResources /\ handles <= MaxHandles
  /\ \A t \in Tables : \A u \in Range(tables[t]) : t \in TableOf(r[u].kind)
  /\ \A u \in 1..Len(r) :
       /\ ParentKind(r[u].kind) # {} => r[u].parent \in 1..Len(r)
       /\ r[u].kind # "multi" => r[u].layers = << >>

SourceInv == ModelInv /\ SourceFacts(resource, lookup, m_nHandleCounter)

(* The path of resources outside of every part, as long as none is read.    *)
NoPath == ""

(* The resources r of a model that has all of them, its list and tables.   *)
KindIn(r, u) == IF u \in 1..Len(r) THEN r[u].kind ELSE "none"

LayersFitIn(r, layers) ==
  /\ \A k \in DOMAIN layers : KindIn(r, layers[k]) \in Materials \cup {"color", "texturegroup"}
  /\ \A k, l \in DOMAIN layers :
       /\ KindIn(r, layers[k]) \in Materials /\ KindIn(r, layers[l]) \in Materials => k = l
       /\ KindIn(r, layers[k]) = "color" /\ KindIn(r, layers[l]) = "color" => k = l

Numbered(r, u) ==
  /\ r[u].path = NoPath /\ r[u].id = u
  /\ ParentKind(r[u].kind) # {} =>
       r[u].parent \in 1..(u - 1) /\ r[r[u].parent].kind \in ParentKind(r[u].kind)
  /\ LayersFitIn(r, r[u].layers)

TableLists(r, t, table) ==
  /\ table \in Seq(1..Len(r)) /\ Increasing(table)
  /\ Range(table) = {u \in 1..Len(r) : t \in TableOf(r[u].kind)}

FreshModel(r, list, tables) ==
  /\ r \in Seq(ResourceType)
  /\ list = [u \in 1..Len(r) |-> u]
  /\ \A u \in 1..Len(r) : Numbered(r, u)
  /\ tables = [t \in Tables |-> tables[t]]
  /\ \A t \in Tables : TableLists(r, t, tables[t])

(* How many resources of the i-th table of Stages have copies, when entry  *)
(* x of table s is the next.                                               *)
Made(s, x, tables) ==
  [i \in 1..6 |-> IF i < s THEN Len(tables[Stages[i]]) ELSE IF i = s THEN x - 1 ELSE 0]

(* The resource v of r2 is the copy of u of r, by the mapping.             *)
CopyIs(r, u, r2, v, map) ==
  /\ map[u] = v
  /\ ParentKind(r[u].kind) # {} => r2[v].parent = map[r[u].parent]

(* The first made[i] entries of each table have their copies in table 2,   *)
(* and nothing else is mapped.                                             *)
CopiesAre(made, r, tables, r2, tables2, map) ==
  /\ \A i \in 1..6 :
       /\ made[i] \in 0..Len(tables[Stages[i]])
       /\ Len(tables2[Stages[i]]) = made[i]
       /\ \A k \in 1..made[i] : CopyIs(r, tables[Stages[i]][k], r2, tables2[Stages[i]][k], map)
  /\ \A u \in 1..MaxResources : map[u] # 0 =>
       \E i \in 1..6 : \E k \in 1..made[i] : u = tables[Stages[i]][k]

CopiesMade == Made(stage, index, lookup)
CopiesInv == CopiesAre(CopiesMade, resource, lookup, n_resource, n_lookup, oldToNew)

WhyMergesFail ==
  \/ StaleGroups # {} \/ LayeredGroups # {} \/ m_nHandleCounter = MaxHandles
  \/ oldFaceID # 0 /\ \A i \in DOMAIN Stages : oldFaceID \notin Range(lookup[Stages[i]])
  \/ refusedData # "none" \/ refusedResource # 0

MergeTypeOK ==
  /\ oldToNew \in [1..MaxResources -> Nat]
  /\ merge \in {"none", "copying", "done", "failed"}
  /\ stage \in 1..7 /\ index \in Nat \ {0}
  /\ faceID \in Nat /\ oldFaceID \in 0..MaxResources
  /\ n_sCurPath = NoPath
  /\ refusedData \in {"none", "mesh", "attachments", "metadata"}
  /\ refusedResource \in Nat

MergeInv ==
  /\ SourceInv
  /\ MergeTypeOK
  /\ FreshModel(n_resource, n_Resources, n_lookup)
  /\ CopiesInv
  /\ merge = "none" => stage = 1 /\ index = 1
  /\ merge = "copying" => faceID = oldFaceID
  /\ merge = "done" => /\ stage = 7
                       /\ oldFaceID = 0 => faceID = 0
                       /\ oldFaceID # 0 => faceID = oldToNew[oldFaceID] /\ faceID # 0
  /\ merge = "failed" => WhyMergesFail

(* The build items of the new model: the first has a handle of the source, *)
(* the others have their own.                                              *)
ItemsInv ==
  /\ n_BuildItems \in Seq(BuildItemType) /\ n_nHandleCounter \in Nat
  /\ \A i \in DOMAIN n_BuildItems \ {1} : n_BuildItems[i].handle < n_nHandleCounter
  /\ \A i, j \in DOMAIN n_BuildItems \ {1} :
       n_BuildItems[i].handle = n_BuildItems[j].handle => i = j
  /\ \A i \in DOMAIN n_BuildItems : KindIn(n_resource, n_BuildItems[i].object) \in Objects
  /\ merge # "done" => n_BuildItems = << >>

(* NewNames: the constants of the new model are those of the source.       *)
LEMMA NewNames ==
  /\ New!Tables = Tables /\ New!Materials = Materials /\ New!Objects = Objects
  /\ \A k : New!TableOf(k) = TableOf(k) /\ New!ParentKind(k) = ParentKind(k)
  /\ \A s : (New!Increasing(s) <=> Increasing(s)) /\ New!Range(s) = Range(s)
  /\ \A S : New!Cardinality(S) = Cardinality(S)
<1>1. New!Tables = Tables /\ New!Materials = Materials /\ New!Objects = Objects
  BY DEF New!Tables, New!Kinds, New!Objects, New!Materials, Tables, Kinds, Objects, Materials
<1>2. ASSUME NEW k PROVE New!TableOf(k) = TableOf(k) /\ New!ParentKind(k) = ParentKind(k)
  BY DEF New!TableOf, New!ParentKind, New!Objects, TableOf, ParentKind, Objects
<1>3. ASSUME NEW s PROVE (New!Increasing(s) <=> Increasing(s)) /\ New!Range(s) = Range(s)
  BY DEF New!Increasing, Increasing, New!Range, Range
<1>4. \A S : New!Cardinality(S) = Cardinality(S)
  BY Zenon DEF New!Cardinality, Cardinality
<1> QED BY <1>1, <1>2, <1>3, <1>4

(* Bounds: the bounds are positive numbers.                                *)
LEMMA Bounds ==
  /\ MaxID \in Nat \ {0} /\ MaxResources \in Nat \ {0}
  /\ MaxHandles \in Nat \ {0} /\ MaxLayers \in Nat \ {0}
BY ResourceModelAssumption, Zenon

(* Numbers: the list of all numbers up to n.                               *)
LEMMA Numbers ==
  ASSUME NEW n \in Nat, NEW s, s = [u \in 1..n |-> u]
  PROVE  /\ s \in Seq(1..n) /\ Len(s) = n /\ Range(s) = 1..n /\ Increasing(s)
         /\ Append(s, n + 1) = [u \in 1..(n + 1) |-> u]
<1>1. s \in Seq(1..n) /\ Len(s) = n /\ DOMAIN s = 1..n /\ \A u \in 1..n : s[u] = u
  OBVIOUS
<1>2. Range(s) = 1..n
  BY <1>1 DEF Range
<1>3. Increasing(s)
  BY <1>1 DEF Increasing
<1>4. Append(s, n + 1) = [u \in 1..(n + 1) |-> u]
  BY <1>1
<1> QED BY <1>1, <1>2, <1>3, <1>4

(* FreshNames: what the operators of ResourceModel say of a fresh model.   *)
LEMMA FreshNames ==
  ASSUME FreshModel(n_resource, n_Resources, n_lookup)
  PROVE  /\ Len(n_resource) \in Nat /\ New!UIDs = 1..Len(n_resource)
         /\ n_Resources \in Seq(1..Len(n_resource)) /\ Len(n_Resources) = Len(n_resource)
         /\ Range(n_Resources) = 1..Len(n_resource) /\ Increasing(n_Resources)
         /\ New!generateResourceID = Len(n_resource) + 1 /\ New!NewUID = Len(n_resource) + 1
         /\ \A u : (New!InModel(u) <=> u \in 1..Len(n_resource)) /\ New!KindOf(u) = KindIn(n_resource, u)
         /\ \A t : New!OfTable(t) = {u \in 1..Len(n_resource) : t \in TableOf(n_resource[u].kind)}
<1> DEFINE n == Len(n_resource)
<1>1. n \in Nat /\ n_resource \in Seq(ResourceType) /\ n_Resources = [u \in 1..n |-> u]
  BY LenProperties DEF FreshModel
<1>2. New!UIDs = 1..n /\ New!NewUID = n + 1
  BY <1>1 DEF New!UIDs, New!NewUID
<1>3. n_Resources \in Seq(1..n) /\ Len(n_Resources) = n /\ Range(n_Resources) = 1..n /\ Increasing(n_Resources)
  BY <1>1, Numbers
<1>4. \A u : (New!InModel(u) <=> u \in 1..n) /\ New!KindOf(u) = KindIn(n_resource, u)
  BY <1>3, NewNames DEF New!InModel, New!KindOf, KindIn
<1>5. \A t : New!OfTable(t) = {u \in 1..n : t \in TableOf(n_resource[u].kind)}
  BY <1>3, NewNames DEF New!OfTable
<1>6. New!generateResourceID = n + 1
  <2>1. CASE n = 0
    <3>1. n_Resources = << >>
      BY <1>3, <2>1
    <3> QED BY <2>1, <3>1 DEF New!generateResourceID
  <2>2. CASE n # 0
    <3>1. n_Resources # << >> /\ n_Resources[n] = n
      BY <1>1, <1>3, <2>2
    <3>2. Max(Range(n_Resources)) = n
      BY <1>1, <1>3, <3>1, LastIsLargest
    <3>3. New!Max(New!Range(n_Resources)) = Max(Range(n_Resources))
      BY NewNames DEF New!Max, Max
    <3> QED BY <3>1, <3>2, <3>3 DEF New!generateResourceID
  <2> QED BY <2>1, <2>2
<1> QED BY <1>1, <1>2, <1>3, <1>4, <1>5, <1>6

(* The model r2, list2, tables2 has one more resource e, whose parent and  *)
(* layers the model r, list, tables has.                                   *)
GrowsTo(r, list, tables, e, r2, list2, tables2) ==
  /\ e \in ResourceType /\ e.path = NoPath /\ e.id = Len(r) + 1
  /\ ParentKind(e.kind) # {} => KindIn(r, e.parent) \in ParentKind(e.kind)
  /\ LayersFitIn(r, e.layers)
  /\ r2 = Append(r, e) /\ list2 = Append(list, Len(r) + 1)
  /\ tables2 = [t \in Tables |-> IF t \in TableOf(e.kind) THEN Append(tables[t], Len(r) + 1)
                                 ELSE tables[t]]

(* FreshGrows: a fresh model with one more resource is fresh.              *)
LEMMA FreshGrows ==
  ASSUME NEW r, NEW list, NEW tables, FreshModel(r, list, tables),
         NEW e, NEW r2, NEW list2, NEW tables2, GrowsTo(r, list, tables, e, r2, list2, tables2)
  PROVE  /\ FreshModel(r2, list2, tables2)
         /\ Len(r2) = Len(r) + 1 /\ (\A u \in 1..Len(r) : r2[u] = r[u]) /\ r2[Len(r) + 1] = e
<1> DEFINE n == Len(r)
<1>1. n \in Nat /\ r \in Seq(ResourceType) /\ list = [u \in 1..n |-> u]
      /\ (\A u \in 1..n : Numbered(r, u)) /\ (\A t \in Tables : TableLists(r, t, tables[t]))
  BY LenProperties DEF FreshModel
<1>2. /\ r2 \in Seq(ResourceType) /\ Len(r2) = n + 1
      /\ (\A u \in 1..n : r2[u] = r[u]) /\ r2[n + 1] = e
  BY <1>1, AppendProperties DEF GrowsTo
<1>3. list2 = [u \in 1..(n + 1) |-> u]
  BY <1>1, Numbers DEF GrowsTo
<1>4. tables2 = [t \in Tables |-> tables2[t]]
  BY Zenon DEF GrowsTo
<1>5. \A t \in Tables : tables2[t] = IF t \in TableOf(e.kind) THEN Append(tables[t], n + 1) ELSE tables[t]
  BY Zenon DEF GrowsTo
<1>6. e.path = NoPath /\ e.id = n + 1
      /\ (ParentKind(e.kind) # {} => KindIn(r, e.parent) \in ParentKind(e.kind)) /\ LayersFitIn(r, e.layers)
  BY DEF GrowsTo
<1> HIDE DEF n
<1>7. \A u : u \in 1..n => KindIn(r, u) = r[u].kind /\ KindIn(r2, u) = KindIn(r, u)
  BY <1>1, <1>2 DEF KindIn, n
<1>8. \A u : KindIn(r, u) # "none" => u \in 1..n
  BY DEF KindIn, n
<1>9. ASSUME NEW layers, LayersFitIn(r, layers) PROVE LayersFitIn(r2, layers)
  <2>1. \A k \in DOMAIN layers : KindIn(r, layers[k]) # "none"
    BY <1>9 DEF LayersFitIn, Materials
  <2>2. \A k \in DOMAIN layers : KindIn(r2, layers[k]) = KindIn(r, layers[k])
    BY <1>7, <1>8, <2>1
  <2> QED BY <1>9, <2>2 DEF LayersFitIn, Materials
<1>10. ASSUME NEW u \in 1..n PROVE Numbered(r2, u)
  <2>1. Numbered(r, u) /\ r2[u] = r[u] /\ LayersFitIn(r2, r[u].layers)
    BY <1>1, <1>2, <1>9 DEF Numbered
  <2>2. ParentKind(r[u].kind) # {} =>
          /\ r[u].parent \in 1..(u - 1) /\ r[r[u].parent].kind \in ParentKind(r[u].kind)
          /\ r[u].parent \in 1..n /\ r2[r[u].parent] = r[r[u].parent]
    BY <1>1, <1>2, <2>1 DEF Numbered
  <2> QED BY <2>1, <2>2 DEF Numbered
<1>11. Numbered(r2, n + 1)
  <2>1. LayersFitIn(r2, e.layers)
    BY <1>6, <1>9
  <2>2. ParentKind(e.kind) # {} => KindIn(r, e.parent) # "none"
    BY <1>6 DEF ParentKind
  <2>3. ParentKind(e.kind) # {} =>
          /\ e.parent \in 1..n /\ r2[e.parent].kind = KindIn(r, e.parent)
    BY <1>2, <1>7, <1>8, <2>2
  <2>4. (n + 1) - 1 = n
    BY <1>1
  <2> QED BY <1>2, <1>6, <2>1, <2>3, <2>4 DEF Numbered
<1>12. ASSUME NEW t \in Tables PROVE TableLists(r2, t, tables2[t])
  <2>1. tables[t] \in Seq(1..n) /\ Increasing(tables[t])
        /\ Range(tables[t]) = {u \in 1..n : t \in TableOf(r[u].kind)}
    BY <1>1 DEF TableLists, n
  <2>2. Seq(1..n) \subseteq Seq(1..(n + 1))
    BY <1>1
  <2>3. {u \in 1..(n + 1) : t \in TableOf(r2[u].kind)} =
          {u \in 1..n : t \in TableOf(r[u].kind)} \cup (IF t \in TableOf(e.kind) THEN {n + 1} ELSE {})
    BY <1>1, <1>2
  <2>4. CASE t \in TableOf(e.kind)
    <3>1. /\ tables2[t] = Append(tables[t], n + 1)
          /\ Append(tables[t], n + 1) \in Seq(1..(n + 1)) /\ Increasing(Append(tables[t], n + 1))
          /\ Range(Append(tables[t], n + 1)) = Range(tables[t]) \cup {n + 1}
      BY <1>1, <1>5, <2>1, <2>4, AppendIncreases, AppendRange
    <3> QED BY <1>2, <2>1, <2>3, <2>4, <3>1 DEF TableLists
  <2>5. CASE t \notin TableOf(e.kind)
    BY <1>2, <1>5, <2>1, <2>2, <2>3, <2>5 DEF TableLists
  <2> QED BY <2>4, <2>5
<1>13. \A u \in 1..(n + 1) : Numbered(r2, u)
  BY <1>1, <1>10, <1>11
<1> QED BY <1>2, <1>3, <1>4, <1>12, <1>13 DEF FreshModel, n

(* FreshPromises: a fresh model keeps the promises of ResourceModel.       *)
LEMMA FreshPromises ==
  ASSUME FreshModel(n_resource, n_Resources, n_lookup), n_sCurPath = NoPath
  PROVE  New!LookupTablesListTheModel /\ New!ReferencesResolve /\ New!GeneratedIDIsFresh
<1> DEFINE n == Len(n_resource)
<1>1. /\ n \in Nat /\ New!UIDs = 1..n /\ n_Resources \in Seq(1..n) /\ Len(n_Resources) = n
      /\ Range(n_Resources) = 1..n /\ Increasing(n_Resources)
      /\ New!generateResourceID = n + 1
      /\ \A u : (New!InModel(u) <=> u \in 1..n) /\ New!KindOf(u) = KindIn(n_resource, u)
      /\ \A t : New!OfTable(t) = {u \in 1..n : t \in TableOf(n_resource[u].kind)}
  BY FreshNames
<1>2. /\ \A u \in 1..n : Numbered(n_resource, u)
      /\ \A t \in Tables : TableLists(n_resource, t, n_lookup[t])
      /\ n_Resources = [u \in 1..n |-> u]
  BY DEF FreshModel
<1> HIDE DEF n
<1>3. New!LookupTablesListTheModel
  <2>1. \A t \in Tables : Increasing(n_lookup[t]) /\ Range(n_lookup[t]) = New!OfTable(t)
    BY <1>1, <1>2 DEF TableLists, n
  <2>2. "texturegroup" \in Tables
    BY DEF Tables, Kinds, Objects
  <2> QED BY <1>1, <2>1, <2>2, NewNames DEF New!LookupTablesListTheModel
<1>4. New!GeneratedIDIsFresh
  <2>1. \A u \in 1..n : n_resource[u].id = u
    BY <1>2 DEF Numbered
  <2>2. \A u \in 1..n : n_resource[u].id # n + 1
    BY <1>1, <2>1
  <2> QED BY <1>1, <2>2 DEF New!GeneratedIDIsFresh, New!KnownID
<1>5. New!ReferencesResolve
  <2> SUFFICES ASSUME NEW i \in DOMAIN n_Resources
               PROVE  LET r == n_resource[n_Resources[i]]
                          Of(kinds) == {k \in DOMAIN r.layers : New!KindOf(r.layers[k]) \in kinds}
                      IN  /\ New!ParentKind(r.kind) # {} =>
                               \E j \in 1..(i - 1) : /\ n_Resources[j] = r.parent
                                                     /\ n_resource[r.parent].kind \in New!ParentKind(r.kind)
                          /\ DOMAIN r.layers = Of(New!Materials \cup {"color", "texturegroup"})
                          /\ New!Cardinality(Of(New!Materials)) <= 1
                          /\ New!Cardinality(Of({"color"})) <= 1
    BY Zenon DEF New!ReferencesResolve
  <2> DEFINE q == n_resource[i]
             Of(kinds) == {k \in DOMAIN q.layers : KindIn(n_resource, q.layers[k]) \in kinds}
  <2>1. i \in 1..n /\ n_Resources[i] = i /\ (\A j \in 1..(i - 1) : n_Resources[j] = j)
    BY <1>1, <1>2
  <2>2. Numbered(n_resource, i)
    BY <1>2, <2>1
  <2>3. ParentKind(q.kind) # {} =>
          q.parent \in 1..(i - 1) /\ n_resource[q.parent].kind \in ParentKind(q.kind)
    BY <2>2 DEF Numbered
  <2>4. LayersFitIn(n_resource, q.layers)
    BY <2>2 DEF Numbered
  <2>5. ParentKind(q.kind) # {} =>
          \E j \in 1..(i - 1) : /\ n_Resources[j] = q.parent
                                /\ n_resource[q.parent].kind \in ParentKind(q.kind)
    BY <2>1, <2>3
  <2> HIDE DEF q
  <2>6. DOMAIN q.layers = Of(Materials \cup {"color", "texturegroup"})
    BY <2>4 DEF LayersFitIn
  <2>7. (\A k, l \in Of(Materials) : k = l) /\ (\A k, l \in Of({"color"}) : k = l)
    BY <2>4 DEF LayersFitIn
  <2> HIDE DEF Of
  <2>8. Cardinality(Of(Materials)) <= 1 /\ Cardinality(Of({"color"})) <= 1
    BY <2>7, Singles
  <2> QED BY <1>1, <2>1, <2>5, <2>6, <2>8, NewNames DEF q, Of
<1> QED BY <1>3, <1>4, <1>5

(* SourceAdds: a resource is constructed, and added or not.                *)
LEMMA SourceAdds ==
  ASSUME SourceInv, NEW kind \in Kinds, NEW id \in Nat, NEW parent \in Parents(kind),
         Construct(kind, id, parent), addResource(kind) \/ UNCHANGED lookup,
         m_nHandleCounter' <= MaxHandles
  PROVE  SourceFacts(resource, lookup, m_nHandleCounter)'
<1> DEFINE n == Len(resource)
<1>t. TypeOK /\ lookup \in [Tables -> Seq(1..n)] /\ n \in Nat
  BY LenProperties DEF SourceInv, ModelInv, TypeOK
<1>f. SourceFacts(resource, lookup, m_nHandleCounter)
  BY DEF SourceInv
<1>p. parent \in Nat /\ (ParentKind(kind) # {} => parent \in 1..n)
  BY <1>t, ParentsAreNumbers
<1>1. /\ Len(resource') = n + 1 /\ (\A u \in 1..n : resource'[u] = resource[u])
      /\ resource'[n + 1].kind = kind /\ resource'[n + 1].parent = parent
      /\ resource'[n + 1].layers = << >>
  BY <1>t, <1>p, Constructed
<1>2. n + 1 <= MaxResources
  <2>1. n < MaxResources /\ MaxResources \in Nat
    BY ResourceModelAssumption DEF Construct
  <2> HIDE DEF n
  <2> QED BY <1>t, <2>1
<1>3. \A t \in Tables : lookup[t] \in Seq(1..n) /\ Range(lookup[t]) \subseteq 1..n
  BY <1>t, RangeOfSeq
<1>4. \A t \in Tables : \/ lookup'[t] = lookup[t]
                        \/ t \in TableOf(kind) /\ lookup'[t] = Append(lookup[t], n + 1)
  BY DEF addResource, NewUID
<1> HIDE DEF n
<1>5. ASSUME NEW t \in Tables, NEW u \in Range(lookup'[t]) PROVE t \in TableOf(resource'[u].kind)
  <2>1. u \in Range(lookup[t]) \/ (t \in TableOf(kind) /\ u = n + 1)
    <3>1. Range(Append(lookup[t], n + 1)) = Range(lookup[t]) \cup {n + 1}
      BY <1>3, AppendRange
    <3> QED BY <1>4, <1>5, <3>1
  <2>2. CASE u \in Range(lookup[t])
    BY <1>1, <1>3, <1>f, <2>2 DEF SourceFacts
  <2> QED BY <1>1, <2>1, <2>2
<1>6. ASSUME NEW u \in 1..(n + 1)
      PROVE  /\ ParentKind(resource'[u].kind) # {} => resource'[u].parent \in 1..(n + 1)
             /\ resource'[u].kind # "multi" => resource'[u].layers = << >>
  <2>1. CASE u = n + 1
    BY <1>1, <1>p, <1>t, <2>1
  <2>2. CASE u \in 1..n
    <3>1. /\ ParentKind(resource[u].kind) # {} => resource[u].parent \in 1..n
          /\ resource[u].kind # "multi" => resource[u].layers = << >>
      BY <1>f, <2>2 DEF SourceFacts, n
    <3> QED BY <1>1, <1>t, <2>2, <3>1
  <2> QED BY <1>t, <2>1, <2>2
<1> QED BY <1>1, <1>2, <1>5, <1>6 DEF SourceFacts

(* SourceRelayers: a multi property group gets other layers.               *)
LEMMA SourceRelayers ==
  ASSUME SourceInv, NEW group \in UIDs, NEW v \in Seq(Nat), resource[group].kind = "multi",
         resource' = [resource EXCEPT ![group].layers = v],
         UNCHANGED <<lookup, m_nHandleCounter>>
  PROVE  SourceFacts(resource, lookup, m_nHandleCounter)'
<1> DEFINE n == Len(resource)
<1>t. TypeOK /\ lookup \in [Tables -> Seq(1..n)] /\ n \in Nat
  BY LenProperties DEF SourceInv, ModelInv, TypeOK
<1>f. SourceFacts(resource, lookup, m_nHandleCounter) /\ UNCHANGED <<lookup, m_nHandleCounter>>
      /\ resource[group].kind = "multi"
  BY DEF SourceInv
<1>1. /\ Len(resource') = n
      /\ \A u \in 1..n : /\ resource'[u].kind = resource[u].kind
                         /\ resource'[u].parent = resource[u].parent
                         /\ u # group => resource'[u] = resource[u]
  BY <1>t, Relayered
<1>3. \A t \in Tables : Range(lookup[t]) \subseteq 1..n
  BY <1>t, RangeOfSeq
<1> HIDE DEF n
<1>4. ASSUME NEW t \in Tables, NEW u \in Range(lookup[t]) PROVE t \in TableOf(resource'[u].kind)
  BY <1>1, <1>3, <1>f DEF SourceFacts
<1>5. ASSUME NEW u \in 1..n
      PROVE  /\ ParentKind(resource'[u].kind) # {} => resource'[u].parent \in 1..n
             /\ resource'[u].kind # "multi" => resource'[u].layers = << >>
  BY <1>1, <1>f DEF SourceFacts, n
<1>6. n <= MaxResources /\ m_nHandleCounter' <= MaxHandles
  BY <1>f DEF SourceFacts, n
<1> QED BY ONLY <1>1, <1>4, <1>5, <1>6, <1>f DEF SourceFacts

(* SourceStays: no resource is constructed.                                *)
LEMMA SourceStays ==
  ASSUME SourceInv, UNCHANGED resource, clearAll \/ UNCHANGED lookup,
         m_nHandleCounter' <= MaxHandles
  PROVE  SourceFacts(resource, lookup, m_nHandleCounter)'
<1>f. SourceFacts(resource, lookup, m_nHandleCounter)
  BY DEF SourceInv
<1>1. \A t \in Tables : lookup'[t] = lookup[t] \/ lookup'[t] = << >>
  BY DEF clearAll
<1>2. Range(<< >>) = {}
  BY DEF Range
<1>3. ASSUME NEW t \in Tables, NEW u \in Range(lookup'[t]) PROVE t \in TableOf(resource[u].kind)
  BY <1>1, <1>2, <1>3, <1>f DEF SourceFacts
<1> QED BY <1>3, <1>f DEF SourceFacts

(* SourceStep: the steps of the source keep what a merge needs.            *)
LEMMA SourceStep == SourceInv /\ [Next]_vars => SourceInv'
<1> SUFFICES ASSUME SourceInv, [Next]_vars PROVE SourceFacts(resource, lookup, m_nHandleCounter)'
  <2>1. SourceInv /\ [Next]_vars => ModelInv'
    BY NextInv DEF SourceInv
  <2> QED BY <2>1 DEF SourceInv
<1> DEFINE Goal == SourceFacts(resource, lookup, m_nHandleCounter)'
<1>t. TypeOK /\ LookupTablesListTheModel /\ UIDs = 1..Len(resource) /\ m_nHandleCounter \in Nat
  BY LenProperties DEF SourceInv, ModelInv, TypeOK, UIDs
<1>h. m_nHandleCounter <= MaxHandles /\ MaxHandles \in Nat /\ MaxResources \in Nat
  BY ResourceModelAssumption DEF SourceInv, SourceFacts
<1>k. UsedKinds \subseteq Kinds /\ MaxID \in Nat /\ "mesh" \in Kinds
  BY ResourceModelAssumption DEF Kinds
<1>g. generateResourceID \in Nat
  BY <1>t, GeneratedID
<1>n. \A object : NewBuildItem(object) => m_nHandleCounter' <= MaxHandles
  BY <1>t, <1>h DEF NewBuildItem
<1>4. ASSUME NEW group \in UIDs PROVE resource[group].layers \in Seq(Nat)
  <2>1. resource[group] \in ResourceType
    BY <1>t, ElementOfSeq DEF TypeOK
  <2> QED BY <2>1, EmptySeq, Fields, Zenon
<1>5. ASSUME NEW kind \in UsedKinds, Add(kind) PROVE Goal
  <2>1. PICK parent \in Parents(kind) : Construct(kind, generateResourceID, parent)
    BY <1>5 DEF Add
  <2>2. addResource(kind) /\ UNCHANGED m_nHandleCounter
    BY <1>5 DEF Add
  <2> QED BY <1>g, <1>h, <1>k, <2>1, <2>2, SourceAdds
<1>6. ASSUME NEW group \in 1..MaxResources, NEW layer \in 1..MaxResources, addLayer(group, layer)
      PROVE  Goal
  <2>1. group \in UIDs /\ resource[group].kind = "multi" /\ UNCHANGED <<lookup, m_nHandleCounter>>
        /\ resource' = [resource EXCEPT ![group].layers = Append(resource[group].layers, layer)]
    BY <1>6 DEF addLayer
  <2>2. Append(resource[group].layers, layer) \in Seq(Nat)
    <3>1. resource[group].layers \in Seq(Nat) /\ layer \in Nat
      BY <1>4, <1>h, <2>1
    <3> QED BY ONLY <3>1
  <2> QED BY <2>1, <2>2, SourceRelayers
<1>7. ASSUME NEW group \in 1..MaxResources, NEW at \in 1..MaxLayers, removeLayer(group, at)
      PROVE  Goal
  <2>1. group \in UIDs /\ resource[group].kind = "multi" /\ at \in DOMAIN resource[group].layers
        /\ UNCHANGED <<lookup, m_nHandleCounter>>
        /\ resource' = [resource EXCEPT ![group].layers = RemoveAt(resource[group].layers, at)]
    BY <1>7 DEF removeLayer
  <2>2. RemoveAt(resource[group].layers, at) \in Seq(Nat)
    <3>1. resource[group].layers \in Seq(Nat)
      BY <1>4, <2>1
    <3> QED BY <2>1, <3>1, Removed
  <2> QED BY <2>1, <2>2, SourceRelayers
<1>8. ASSUME NEW kind \in UsedKinds, NEW id \in 1..MaxID, ReadResource(kind, id) \/ ReadMalformedResource(kind, id)
      PROVE  Goal
  <2>1. PICK parent \in Parents(kind) : Construct(kind, id, parent)
    BY <1>8 DEF ReadResource, ReadMalformedResource, PartParents
  <2>2. id \in Nat /\ kind \in Kinds
    BY <1>k
  <2>3. (addResource(kind) \/ UNCHANGED lookup) /\ UNCHANGED m_nHandleCounter
    BY <1>8 DEF ReadResource, ReadMalformedResource
  <2> QED BY <1>h, <2>1, <2>2, <2>3, SourceAdds
<1>9. ASSUME ReadSTL PROVE Goal
  <2>1. Construct("mesh", generateResourceID, 0) /\ addResource("mesh") /\ NewBuildItem(NewUID)
    BY <1>9 DEF ReadSTL
  <2>2. 0 \in Parents("mesh")
    BY DEF Parents, ParentKind
  <2> QED BY <1>g, <1>k, <1>n, <2>1, <2>2, SourceAdds
<1>10. ASSUME QueryReader \/ BeginRead \/ EnterRoot \/ EndRead \/ UNCHANGED vars PROVE Goal
  <2>1. UNCHANGED resource /\ (clearAll \/ UNCHANGED lookup) /\ UNCHANGED m_nHandleCounter
    BY <1>10 DEF QueryReader, BeginRead, EnterRoot, EndRead, modelVars, vars
  <2> QED BY <1>h, <2>1, SourceStays
<1>11. ASSUME NEW path \in OtherPaths, EnterPart(path) \/ WriteSliceStack(path) PROVE Goal
  <2>1. UNCHANGED resource /\ UNCHANGED lookup /\ UNCHANGED m_nHandleCounter
    BY <1>11 DEF EnterPart, WriteSliceStack
  <2> QED BY <1>h, <2>1, SourceStays
<1>12. ASSUME NEW k \in Nat, AddBuildItem(k) \/ RemoveBuildItem(k) PROVE Goal
  <2>1. UNCHANGED resource /\ UNCHANGED lookup /\ (NewBuildItem(k) \/ UNCHANGED m_nHandleCounter)
    BY <1>12 DEF AddBuildItem, RemoveBuildItem
  <2> QED BY <1>h, <1>n, <2>1, SourceStays
<1>13. 1..MaxResources \subseteq Nat /\ 1..MaxHandles \subseteq Nat
  OBVIOUS
<1> HIDE DEF Goal
<1>14. Goal
  BY <1>5, <1>6, <1>7, <1>8, <1>9, <1>10, <1>11, <1>12, <1>13 DEF Next
<1> QED BY <1>14 DEF Goal

(* StagesAre: the six tables, in their order.                              *)
LEMMA StagesAre ==
  /\ Len(Stages) = 6 /\ DOMAIN Stages = 1..6
  /\ Stages[1] = "texture" /\ Stages[2] = "basematerial" /\ Stages[3] = "color"
  /\ Stages[4] = "texturegroup" /\ Stages[5] = "composite" /\ Stages[6] = "multi"
BY DEF Stages

(* TablesOfStages: each of them lists one kind, and what a kind is         *)
(* constructed from is in an earlier table.                                *)
LEMMA TablesOfStages ==
  ASSUME NEW i \in 1..6
  PROVE  /\ Stages[i] \in Tables /\ Stages[i] \in Kinds /\ TableOf(Stages[i]) = {Stages[i]}
         /\ (\A k : Stages[i] \in TableOf(k) => k = Stages[i])
         /\ (\A j \in 1..6 : Stages[j] = Stages[i] => j = i)
         /\ Stages[i] \notin TableOf("mesh")
         /\ ParentKind(Stages[i]) # {} =>
              \E p \in 1..(i - 1) : ParentKind(Stages[i]) = {Stages[p]}
<1>1. i = 1 \/ i = 2 \/ i = 3 \/ i = 4 \/ i = 5 \/ i = 6
  OBVIOUS
<1>2. Stages[i] \in Tables /\ Stages[i] \in Kinds
  BY <1>1, StagesAre DEF Tables, Kinds, Objects
<1>3. /\ TableOf(Stages[i]) = {Stages[i]} /\ (\A k : Stages[i] \in TableOf(k) => k = Stages[i])
      /\ Stages[i] \notin TableOf("mesh")
  BY <1>1, StagesAre DEF TableOf, Objects
<1>4. \A j \in 1..6 : Stages[j] = Stages[i] => j = i
  <2> SUFFICES ASSUME NEW j \in 1..6, Stages[j] = Stages[i] PROVE j = i
    OBVIOUS
  <2>1. j = 1 \/ j = 2 \/ j = 3 \/ j = 4 \/ j = 5 \/ j = 6
    OBVIOUS
  <2> QED BY <1>1, <2>1, StagesAre
<1>5. ParentKind(Stages[i]) # {} => \E p \in 1..(i - 1) : ParentKind(Stages[i]) = {Stages[p]}
  <2>1. CASE i \in {1, 2, 3, 6}
    BY <2>1, StagesAre DEF ParentKind
  <2>2. CASE i = 4
    <3>1. 1 \in 1..(i - 1) /\ ParentKind(Stages[i]) = {Stages[1]}
      BY <2>2, StagesAre DEF ParentKind
    <3> QED BY <3>1
  <2>3. CASE i = 5
    <3>1. 2 \in 1..(i - 1) /\ ParentKind(Stages[i]) = {Stages[2]}
      BY <2>3, StagesAre DEF ParentKind
    <3> QED BY <3>1
  <2> QED BY <1>1, <2>1, <2>2, <2>3
<1> QED BY <1>2, <1>3, <1>4, <1>5

(* SourceTables: the tables that are copied.                               *)
LEMMA SourceTables ==
  ASSUME SourceInv
  PROVE  /\ Len(resource) \in Nat /\ Len(resource) <= MaxResources /\ MaxResources \in Nat
         /\ \A i \in 1..6 :
              /\ lookup[Stages[i]] \in Seq(1..Len(resource)) /\ Len(lookup[Stages[i]]) \in Nat
              /\ DOMAIN lookup[Stages[i]] = 1..Len(lookup[Stages[i]])
              /\ Range(lookup[Stages[i]]) \subseteq 1..Len(resource)
              /\ \A k \in 1..Len(lookup[Stages[i]]) :
                   LET u == lookup[Stages[i]][k] IN
                   /\ u \in 1..Len(resource) /\ u \in 1..MaxResources /\ u \in Range(lookup[Stages[i]])
                   /\ resource[u].kind = Stages[i]
                   /\ ParentKind(Stages[i]) # {} => resource[u].parent \in 1..MaxResources
<1>1. /\ Len(resource) \in Nat /\ Len(resource) <= MaxResources /\ MaxResources \in Nat
      /\ \A t \in Tables : lookup[t] \in Seq(1..Len(resource))
  BY LenProperties, ResourceModelAssumption DEF SourceInv, ModelInv, TypeOK, SourceFacts
<1>2. ASSUME NEW i \in 1..6
      PROVE  /\ lookup[Stages[i]] \in Seq(1..Len(resource)) /\ Len(lookup[Stages[i]]) \in Nat
             /\ DOMAIN lookup[Stages[i]] = 1..Len(lookup[Stages[i]])
             /\ Range(lookup[Stages[i]]) \subseteq 1..Len(resource)
  <2>1. lookup[Stages[i]] \in Seq(1..Len(resource))
    BY <1>1, TablesOfStages
  <2> DEFINE s == lookup[Stages[i]]
  <2> HIDE DEF s
  <2>2. Range(s) \subseteq 1..Len(resource)
    BY <2>1, RangeOfSeq DEF s
  <2>3. Len(s) \in Nat /\ DOMAIN s = 1..Len(s)
    BY <2>1 DEF s
  <2> QED BY <2>1, <2>2, <2>3 DEF s
<1>3. 1..Len(resource) \subseteq 1..MaxResources
  BY <1>1
<1>4. ASSUME NEW i \in 1..6, NEW k \in 1..Len(lookup[Stages[i]])
      PROVE  LET u == lookup[Stages[i]][k] IN
             /\ u \in 1..Len(resource) /\ u \in 1..MaxResources /\ u \in Range(lookup[Stages[i]])
             /\ resource[u].kind = Stages[i]
             /\ ParentKind(Stages[i]) # {} => resource[u].parent \in 1..MaxResources
  <2> DEFINE u == lookup[Stages[i]][k]
  <2>1. u \in Range(lookup[Stages[i]])
    BY <1>2 DEF Range
  <2> HIDE DEF u
  <2>2. u \in 1..Len(resource) /\ u \in 1..MaxResources
    <3>1. u \in 1..Len(resource)
      BY <1>2, <2>1, Zenon
    <3> QED BY <1>3, <3>1, Zenon
  <2>3. resource[u].kind = Stages[i]
    <3>1. Stages[i] \in Tables /\ \A kind : Stages[i] \in TableOf(kind) => kind = Stages[i]
      BY TablesOfStages
    <3>2. Stages[i] \in TableOf(resource[u].kind)
      BY <2>1, <3>1, ZenonT(60) DEF SourceInv, SourceFacts
    <3> QED BY <3>1, <3>2, Zenon
  <2>4. ParentKind(Stages[i]) # {} => resource[u].parent \in 1..MaxResources
    BY <1>3, <2>2, <2>3 DEF SourceInv, SourceFacts
  <2> QED BY <2>1, <2>2, <2>3, <2>4 DEF u
<1> QED BY <1>1, <1>2, <1>4

(* EntriesDiffer: no resource is listed twice.                             *)
LEMMA EntriesDiffer ==
  ASSUME SourceInv
  PROVE  \A i, j \in 1..6 : \A k \in 1..Len(lookup[Stages[i]]), l \in 1..Len(lookup[Stages[j]]) :
           lookup[Stages[i]][k] = lookup[Stages[j]][l] => i = j /\ k = l
<1> SUFFICES ASSUME NEW i \in 1..6, NEW j \in 1..6,
                    NEW k \in 1..Len(lookup[Stages[i]]), NEW l \in 1..Len(lookup[Stages[j]]),
                    lookup[Stages[i]][k] = lookup[Stages[j]][l]
             PROVE  i = j /\ k = l
  BY Zenon
<1>1. i = j
  <2>1. resource[lookup[Stages[i]][k]].kind = Stages[i] /\ resource[lookup[Stages[j]][l]].kind = Stages[j]
    BY SourceTables
  <2> QED BY <2>1, TablesOfStages
<1>2. /\ Increasing(lookup[Stages[i]]) /\ k \in DOMAIN lookup[Stages[i]] /\ l \in DOMAIN lookup[Stages[i]]
      /\ lookup[Stages[i]][k] \in Nat
  <2>1. Increasing(lookup[Stages[i]])
    BY TablesOfStages DEF SourceInv, ModelInv, LookupTablesListTheModel
  <2>2. DOMAIN lookup[Stages[i]] = 1..Len(lookup[Stages[i]]) /\ lookup[Stages[i]][k] \in 1..Len(resource)
    BY SourceTables
  <2> QED BY <1>1, <2>1, <2>2
<1>3. k \in Nat /\ l \in Nat /\ lookup[Stages[i]][k] = lookup[Stages[i]][l]
  BY <1>1
<1>4. k = l
  BY ONLY <1>2, <1>3 DEF Increasing
<1> QED BY <1>1, <1>4

(* FreshTables: the tables of the new model that are filled.               *)
LEMMA FreshTables ==
  ASSUME NEW r, NEW list, NEW tables, FreshModel(r, list, tables), NEW i \in 1..6
  PROVE  /\ Len(r) \in Nat /\ tables[Stages[i]] \in Seq(1..Len(r)) /\ Len(tables[Stages[i]]) \in Nat
         /\ \A k \in 1..Len(tables[Stages[i]]) :
              /\ tables[Stages[i]][k] \in 1..Len(r)
              /\ r[tables[Stages[i]][k]].kind = Stages[i]
              /\ ParentKind(Stages[i]) # {} =>
                   r[tables[Stages[i]][k]].parent \in 1..(tables[Stages[i]][k] - 1)
<1> DEFINE s == tables[Stages[i]]
<1>1. Len(r) \in Nat /\ TableLists(r, Stages[i], s) /\ \A u \in 1..Len(r) : Numbered(r, u)
  BY LenProperties, TablesOfStages DEF FreshModel
<1>2. s \in Seq(1..Len(r)) /\ Len(s) \in Nat /\ DOMAIN s = 1..Len(s)
      /\ Range(s) = {u \in 1..Len(r) : Stages[i] \in TableOf(r[u].kind)}
  BY <1>1 DEF TableLists
<1> HIDE DEF s
<1>3. ASSUME NEW k \in 1..Len(s)
      PROVE  /\ s[k] \in 1..Len(r) /\ r[s[k]].kind = Stages[i]
             /\ ParentKind(Stages[i]) # {} => r[s[k]].parent \in 1..(s[k] - 1)
  <2>1. s[k] \in Range(s)
    BY <1>2 DEF Range
  <2>2. s[k] \in 1..Len(r) /\ r[s[k]].kind = Stages[i]
    BY <1>2, <2>1, TablesOfStages
  <2> QED BY <1>1, <2>2 DEF Numbered
<1> QED BY <1>1, <1>2, <1>3 DEF s

(* CopiesKept: copies stay what they are while no other is made.           *)
LEMMA CopiesKept ==
  ASSUME NEW made, NEW r, NEW tables, NEW r2, NEW tables2, NEW map,
         CopiesAre(made, r, tables, r2, tables2, map),
         NEW r3, NEW tables3,
         \A i \in 1..6 : tables3[Stages[i]] = tables2[Stages[i]],
         \A i \in 1..6 : \A k \in 1..made[i] : r3[tables2[Stages[i]][k]] = r2[tables2[Stages[i]][k]]
  PROVE  CopiesAre(made, r, tables, r3, tables3, map)
<1>1. ASSUME NEW i \in 1..6
      PROVE  /\ made[i] \in 0..Len(tables[Stages[i]]) /\ Len(tables3[Stages[i]]) = made[i]
             /\ \A k \in 1..made[i] : CopyIs(r, tables[Stages[i]][k], r3, tables3[Stages[i]][k], map)
  <2>1. ASSUME NEW k \in 1..made[i] PROVE CopyIs(r, tables[Stages[i]][k], r3, tables3[Stages[i]][k], map)
    <3>1. CopyIs(r, tables[Stages[i]][k], r2, tables2[Stages[i]][k], map)
      BY DEF CopiesAre
    <3>2. tables3[Stages[i]][k] = tables2[Stages[i]][k] /\ r3[tables2[Stages[i]][k]] = r2[tables2[Stages[i]][k]]
      OBVIOUS
    <3> QED BY <3>1, <3>2, Zenon DEF CopyIs
  <2> QED BY <2>1 DEF CopiesAre
<1>2. \A u \in 1..MaxResources : map[u] # 0 => \E i \in 1..6 : \E k \in 1..made[i] : u = tables[Stages[i]][k]
  BY DEF CopiesAre
<1> QED BY <1>1, <1>2, Zenon DEF CopiesAre

(* A copy of the resource old, the next entry of table s, is made: the     *)
(* resource n + 1 of r3.                                                   *)
CopyAdds(made, r, tables, r2, tables2, map, s, n, old, made3, r3, tables3, map3) ==
  /\ s \in 1..6 /\ n \in Nat /\ old \in 1..MaxResources
  /\ old = tables[Stages[s]][made[s] + 1] /\ made[s] < Len(tables[Stages[s]])
  /\ \A i \in 1..6 : made3[i] = IF i = s THEN made[i] + 1 ELSE made[i]
  /\ map3[old] = n + 1 /\ \A u \in 1..MaxResources : u # old => map3[u] = map[u]
  /\ \A i \in 1..6 : tables2[Stages[i]] \in Seq(1..n) /\ Len(tables[Stages[i]]) \in Nat
  /\ \A i \in 1..6 : tables3[Stages[i]] = IF i = s THEN Append(tables2[Stages[i]], n + 1)
                                          ELSE tables2[Stages[i]]
  /\ \A v \in 1..n : r3[v] = r2[v]
  /\ ParentKind(r[old].kind) # {} =>
       /\ r[old].parent \in 1..MaxResources /\ r[old].parent # old
       /\ r3[n + 1].parent = map[r[old].parent]
  /\ \A i \in 1..6 : \A k \in 1..made[i] :
       LET u == tables[Stages[i]][k] IN
       /\ u \in 1..MaxResources /\ u # old
       /\ ParentKind(r[u].kind) # {} => r[u].parent \in 1..MaxResources /\ r[u].parent # old

(* CopiesGrow: then it is what it should be, and the others stay.          *)
LEMMA CopiesGrow ==
  ASSUME NEW made, NEW r, NEW tables, NEW r2, NEW tables2, NEW map, NEW s, NEW n, NEW old,
         NEW made3, NEW r3, NEW tables3, NEW map3,
         CopiesAre(made, r, tables, r2, tables2, map),
         CopyAdds(made, r, tables, r2, tables2, map, s, n, old, made3, r3, tables3, map3)
  PROVE  CopiesAre(made3, r, tables, r3, tables3, map3)
<1>n. n \in Nat /\ s \in 1..6 /\ old \in 1..MaxResources /\ (\A v \in 1..n : r3[v] = r2[v])
  BY Zenon DEF CopyAdds
<1>1. /\ \A i \in 1..6 : made3[i] = IF i = s THEN made[i] + 1 ELSE made[i]
      /\ map3[old] = n + 1 /\ \A u \in 1..MaxResources : u # old => map3[u] = map[u]
  BY Zenon DEF CopyAdds
<1>2. \A i \in 1..6 : /\ made[i] \in 0..Len(tables[Stages[i]])
                      /\ Len(tables2[Stages[i]]) = made[i]
                      /\ \A k \in 1..made[i] : CopyIs(r, tables[Stages[i]][k], r2, tables2[Stages[i]][k], map)
  BY Zenon DEF CopiesAre
<1>3. /\ \A i \in 1..6 : tables2[Stages[i]] \in Seq(1..n) /\ Len(tables[Stages[i]]) \in Nat
      /\ \A i \in 1..6 : tables3[Stages[i]] = IF i = s THEN Append(tables2[Stages[i]], n + 1)
                                              ELSE tables2[Stages[i]]
  BY Zenon DEF CopyAdds
<1>4. old = tables[Stages[s]][made[s] + 1] /\ made[s] < Len(tables[Stages[s]])
  BY Zenon DEF CopyAdds
<1>5. \A i \in 1..6 : made[i] \in Nat
  <2> SUFFICES ASSUME NEW i \in 1..6 PROVE made[i] \in Nat
    OBVIOUS
  <2>1. tables2[Stages[i]] \in Seq(1..n) /\ Len(tables2[Stages[i]]) = made[i]
    BY <1>2, <1>3, Zenon
  <2> QED BY ONLY <2>1, LenProperties
<1>6. ASSUME NEW i \in 1..6, NEW k \in 1..made[i]
      PROVE  CopyIs(r, tables[Stages[i]][k], r3, tables3[Stages[i]][k], map3)
  <2> DEFINE u == tables[Stages[i]][k]
             t2 == tables2[Stages[i]]
             v == t2[k]
  <2>1. CopyIs(r, u, r2, v, map)
    BY <1>2, Zenon
  <2>2. /\ u \in 1..MaxResources /\ u # old
        /\ ParentKind(r[u].kind) # {} => r[u].parent \in 1..MaxResources /\ r[u].parent # old
    BY <1>6, Zenon DEF CopyAdds
  <2>3. t2 \in Seq(1..n) /\ k \in 1..Len(t2) /\ (tables3[Stages[i]] = t2 \/ tables3[Stages[i]] = Append(t2, n + 1))
    BY ONLY <1>2, <1>3, <1>6
  <2> HIDE DEF u, t2
  <2>4. tables3[Stages[i]][k] = v /\ v \in 1..n
    <3>1. v \in 1..n
      BY ONLY <2>3, ElementOfSeq
    <3>2. Append(t2, n + 1)[k] = v
      BY ONLY <2>3, <1>n, AppendProperties
    <3> QED BY ONLY <2>3, <3>1, <3>2
  <2> HIDE DEF v
  <2>5. r3[v] = r2[v]
    BY ONLY <1>n, <2>4
  <2> QED BY ONLY <1>1, <2>1, <2>2, <2>4, <2>5 DEF CopyIs, u
<1>7. CopyIs(r, old, r3, n + 1, map3)
  <2>1. ParentKind(r[old].kind) # {} =>
           /\ r[old].parent \in 1..MaxResources /\ r[old].parent # old
           /\ r3[n + 1].parent = map[r[old].parent]
    BY Zenon DEF CopyAdds
  <2> QED BY ONLY <1>1, <2>1 DEF CopyIs
<1>8. ASSUME NEW i \in 1..6
      PROVE  /\ made3[i] \in 0..Len(tables[Stages[i]]) /\ Len(tables3[Stages[i]]) = made3[i]
             /\ \A k \in 1..made3[i] : CopyIs(r, tables[Stages[i]][k], r3, tables3[Stages[i]][k], map3)
  <2>1. CASE i = s
    <3> DEFINE t2 == tables2[Stages[i]]
    <3>1. t2 \in Seq(1..n) /\ Len(t2) = made[i] /\ tables3[Stages[i]] = Append(t2, n + 1)
      BY ONLY <1>2, <1>3, <1>8, <2>1
    <3>0. made3[i] = made[i] + 1 /\ made[i] \in Nat
      BY ONLY <1>1, <1>5, <1>8, <2>1
    <3> HIDE DEF t2
    <3>2. Len(tables3[Stages[i]]) = made3[i] /\ tables3[Stages[i]][made[i] + 1] = n + 1
      BY ONLY <1>n, <3>0, <3>1
    <3>3. made3[i] \in 0..Len(tables[Stages[i]])
      <4> DEFINE L == Len(tables[Stages[i]])
      <4>1. L \in Nat /\ made[i] < L
        BY <1>3, <1>4, <2>1, Zenon
      <4> HIDE DEF L
      <4>2. made3[i] \in 0..L
        BY ONLY <3>0, <4>1
      <4> QED BY <4>2 DEF L
    <3>4. ASSUME NEW k \in 1..made3[i] PROVE CopyIs(r, tables[Stages[i]][k], r3, tables3[Stages[i]][k], map3)
      <4>1. k \in 1..made[i] \/ k = made[i] + 1
        BY ONLY <3>0, <3>4
      <4>2. CASE k = made[i] + 1
        <5>1. tables[Stages[i]][k] = old /\ tables3[Stages[i]][k] = n + 1
          BY ONLY <1>4, <2>1, <3>2, <4>2
        <5> QED BY ONLY <1>7, <5>1
      <4> QED BY ONLY <1>6, <1>8, <4>1, <4>2
    <3> QED BY <3>2, <3>3, <3>4, Zenon
  <2>2. CASE i # s
    <3>1. made3[i] = made[i] /\ tables3[Stages[i]] = tables2[Stages[i]]
      BY ONLY <1>1, <1>3, <1>8, <2>2
    <3>2. made[i] \in 0..Len(tables[Stages[i]]) /\ Len(tables2[Stages[i]]) = made[i]
      BY <1>2
    <3>3. \A k \in 1..made[i] : CopyIs(r, tables[Stages[i]][k], r3, tables3[Stages[i]][k], map3)
      BY <1>6, Zenon
    <3> QED BY ONLY <3>1, <3>2, <3>3
  <2> QED BY <2>1, <2>2, Zenon
<1>9. ASSUME NEW u \in 1..MaxResources, map3[u] # 0
      PROVE  \E i \in 1..6 : \E k \in 1..made3[i] : u = tables[Stages[i]][k]
  <2>1. CASE u = old
    <3>1. made[s] + 1 \in 1..made3[s]
      BY ONLY <1>1, <1>5, <1>n
    <3> QED BY ONLY <1>4, <1>n, <2>1, <3>1
  <2>2. CASE u # old
    <3>1. map[u] # 0
      BY ONLY <1>1, <1>9, <2>2
    <3>2. PICK i \in 1..6 : \E k \in 1..made[i] : u = tables[Stages[i]][k]
      BY <1>9, <3>1, Zenon DEF CopiesAre
    <3>3. PICK k \in 1..made[i] : u = tables[Stages[i]][k]
      BY <3>2
    <3>4. k \in 1..made3[i]
      BY ONLY <1>1, <1>5, <3>2, <3>3
    <3> QED BY <3>2, <3>3, <3>4, Zenon
  <2> QED BY <2>1, <2>2, Zenon
<1> QED BY <1>8, <1>9, Zenon DEF CopiesAre

(* AcceptedFit: the layers that addLayer accepts one after the other fit.  *)
LEMMA AcceptedFit ==
  ASSUME FreshModel(n_resource, n_Resources, n_lookup), NEW layers \in Seq(Nat), LayersAccepted(layers)
  PROVE  LayersFitIn(n_resource, layers)
<1> DEFINE K(u) == KindIn(n_resource, u)
           M == Materials
<1>1. ASSUME NEW l \in DOMAIN layers
      PROVE  /\ K(layers[l]) \in M \cup {"color", "texturegroup"}
             /\ \A k \in 1..(l - 1) : /\ K(layers[l]) \in M => K(layers[k]) \notin M
                                      /\ K(layers[l]) = "color" => K(layers[k]) # "color"
  <2> DEFINE s == SubSeq(layers, 1, l - 1)
  <2>1. New!LayerAllowed(s, layers[l])
    BY DEF LayersAccepted
  <2>2. l \in Nat /\ l \in 1..Len(layers) /\ s \in Seq(Nat) /\ Len(s) = l - 1
        /\ DOMAIN s = 1..(l - 1) /\ \A k \in 1..(l - 1) : s[k] = layers[k]
    OBVIOUS
  <2> HIDE DEF s
  <2>3. New!LayerKinds(s) = {K(s[k]) : k \in 1..(l - 1)}
    BY <2>2, FreshNames DEF New!LayerKinds
  <2>4. /\ K(layers[l]) \in M \cup {"color", "texturegroup"}
        /\ K(layers[l]) \in M => New!LayerKinds(s) \cap M = {}
        /\ K(layers[l]) = "color" => "color" \notin New!LayerKinds(s)
    BY <2>1, FreshNames, NewNames DEF New!LayerAllowed
  <2>5. \A k \in 1..(l - 1) : K(layers[k]) \in New!LayerKinds(s)
    BY <2>2, <2>3
  <2> HIDE DEF K, M
  <2> QED BY <2>4, <2>5
<1>2. DOMAIN layers = 1..Len(layers) /\ Len(layers) \in Nat
  OBVIOUS
<1> HIDE DEF K, M
<1>3. ASSUME NEW k \in DOMAIN layers, NEW l \in DOMAIN layers, k < l
      PROVE  /\ ~(K(layers[k]) \in M /\ K(layers[l]) \in M)
             /\ ~(K(layers[k]) = "color" /\ K(layers[l]) = "color")
  <2>1. k \in 1..(l - 1)
    BY <1>2, <1>3
  <2> QED BY <1>1, <2>1
<1>4. \A k, l \in DOMAIN layers : k = l \/ k < l \/ l < k
  BY <1>2
<1>5. \A k \in DOMAIN layers : K(layers[k]) \in M \cup {"color", "texturegroup"}
  BY <1>1
<1>6. \A k, l \in DOMAIN layers :
        /\ K(layers[k]) \in M /\ K(layers[l]) \in M => k = l
        /\ K(layers[k]) = "color" /\ K(layers[l]) = "color" => k = l
  BY <1>3, <1>4
<1> QED BY <1>5, <1>6 DEF LayersFitIn, K, M

(* NextCopied: the resource to be copied, and its place.                   *)
LEMMA NextCopied ==
  ASSUME SourceInv, MergeTypeOK, CopiesInv, Copying, index <= Len(lookup[Kind])
  PROVE  /\ stage \in 1..6 /\ Kind = Stages[stage] /\ index \in 1..Len(lookup[Kind])
         /\ CopiesMade[stage] = index - 1 /\ Len(n_lookup[Kind]) = index - 1
         /\ Old = lookup[Kind][index] /\ Old \in 1..Len(resource) /\ Old \in 1..MaxResources
         /\ resource[Old].kind = Kind /\ Old \in Range(lookup[Kind])
         /\ ParentKind(Kind) # {} => resource[Old].parent \in 1..MaxResources
         /\ resource[Old] \in ResourceType /\ resource[Old].layers \in Seq(Nat)
         /\ \A u \in 1..MaxResources : oldToNew[u] # 0 => u # Old
         /\ \A i \in 1..6 : \A k \in 1..CopiesMade[i] : lookup[Stages[i]][k] # Old
<1>1. stage \in 1..6 /\ Kind = Stages[stage] /\ index \in Nat \ {0}
  BY StagesAre DEF Copying, MergeTypeOK, Kind
<1>2. index \in 1..Len(lookup[Kind]) /\ Old = lookup[Kind][index]
  <2>1. Len(lookup[Kind]) \in Nat /\ index <= Len(lookup[Kind])
    BY <1>1, SourceTables
  <2> QED BY <1>1, <2>1 DEF Old
<1>3. CopiesMade[stage] = index - 1 /\ Len(n_lookup[Kind]) = index - 1
  <2>1. CopiesMade[stage] = index - 1
    BY <1>1 DEF CopiesMade, Made
  <2> QED BY <1>1, <2>1 DEF CopiesInv, CopiesAre
<1>4. /\ Old \in 1..Len(resource) /\ Old \in 1..MaxResources
      /\ resource[Old].kind = Kind /\ Old \in Range(lookup[Kind])
      /\ ParentKind(Kind) # {} => resource[Old].parent \in 1..MaxResources
  BY <1>1, <1>2, SourceTables
<1>5. resource[Old] \in ResourceType
  BY <1>4, ElementOfSeq DEF SourceInv, ModelInv, TypeOK
<1>6. resource[Old].layers \in Seq(Nat)
  BY <1>5, EmptySeq, Fields, Zenon
<1>7. ASSUME NEW i \in 1..6, NEW k \in 1..CopiesMade[i] PROVE lookup[Stages[i]][k] # Old
  <2>1. k \in 1..Len(lookup[Stages[i]])
    <3>1. CopiesMade[i] \in 0..Len(lookup[Stages[i]]) /\ Len(lookup[Stages[i]]) \in Nat
      BY SourceTables DEF CopiesInv, CopiesAre
    <3> QED BY <1>7, <3>1
  <2> SUFFICES ASSUME lookup[Stages[i]][k] = Old PROVE FALSE
    OBVIOUS
  <2>3. i = stage /\ k = index
    <3>1. index \in 1..Len(lookup[Stages[stage]]) /\ lookup[Stages[i]][k] = lookup[Stages[stage]][index]
      BY <1>1, <1>2
    <3>2. \A j \in 1..6 : \A l \in 1..Len(lookup[Stages[j]]) :
            lookup[Stages[i]][k] = lookup[Stages[j]][l] => i = j /\ k = l
      BY <2>1, EntriesDiffer, ZenonT(60)
    <3> QED BY <1>1, <3>1, <3>2, Zenon
  <2>4. k \in 1..(index - 1)
    BY <1>3, <1>7, <2>3
  <2> QED BY <1>1, <2>3, <2>4
<1>8. ASSUME NEW u \in 1..MaxResources, oldToNew[u] # 0 PROVE u # Old
  <2>1. PICK i \in 1..6 : \E k \in 1..CopiesMade[i] : u = lookup[Stages[i]][k]
    BY <1>8, Zenon DEF CopiesInv, CopiesAre
  <2> QED BY <1>7, <2>1
<1> QED BY <1>1, <1>2, <1>3, <1>4, <1>5, <1>6, <1>7, <1>8

(* CopyGrows: the copy is a resource of the new model.                     *)
LEMMA CopyGrows ==
  ASSUME SourceInv, MergeTypeOK, CopiesInv, FreshModel(n_resource, n_Resources, n_lookup), Copy
  PROVE  /\ FreshModel(n_resource, n_Resources, n_lookup)'
         /\ Len(n_resource) \in Nat
         /\ \A u \in 1..Len(n_resource) : n_resource'[u] = n_resource[u]
         /\ n_resource'[Len(n_resource) + 1].parent = NewParent
         /\ NewParent \in Nat /\ (ParentKind(Kind) # {} => NewParent # 0)
         /\ \A t \in Tables : n_lookup'[t] = IF t = Kind THEN Append(n_lookup[t], Len(n_resource) + 1)
                                             ELSE n_lookup[t]
<1> DEFINE n == Len(n_resource)
           e == [path |-> "", id |-> New!generateResourceID, kind |-> Kind,
                 parent |-> NewParent, layers |-> NewLayers]
<1>1. Copying /\ index <= Len(lookup[Kind]) /\ CopyAccepted /\ New!addResource(Kind)
      /\ n_resource' = Append(n_resource, e)
  BY DEF Copy
<1>2. /\ stage \in 1..6 /\ Kind = Stages[stage]
      /\ ParentKind(Kind) # {} => resource[Old].parent \in 1..MaxResources
      /\ resource[Old].layers \in Seq(Nat)
  BY <1>1, NextCopied
<1>3. NewParent \in Nat
  BY <1>2 DEF NewParent, MergeTypeOK
<1>4. NewLayers \in Seq(Nat) /\ LayersAccepted(NewLayers)
  BY <1>1, <1>2 DEF NewLayers, LayersCopied, CopyAccepted
<1>5. n \in Nat /\ New!generateResourceID = n + 1 /\ New!NewUID = n + 1
  BY FreshNames
<1>6. ParentKind(Kind) # {} => KindIn(n_resource, NewParent) \in ParentKind(Kind)
  BY <1>1, FreshNames, NewNames DEF CopyAccepted, ParentFound
<1>7. Kind \in Kinds /\ NoPath \in Paths /\ n + 1 \in Nat
  BY <1>2, <1>5, TablesOfStages DEF Paths, NoPath
<1>8. /\ e \in ResourceType /\ e.path = NoPath /\ e.id = n + 1 /\ e.kind = Kind
      /\ e.parent = NewParent /\ e.layers = NewLayers
  BY <1>3, <1>4, <1>5, <1>7, NewFields, Zenon DEF ResourceType, NoPath
<1> HIDE DEF e, n
<1>9. LayersFitIn(n_resource, e.layers)
  BY <1>4, <1>8, AcceptedFit
<1>10. n_Resources' = Append(n_Resources, n + 1)
       /\ n_lookup' = [t \in Tables |-> IF t \in TableOf(Kind) THEN Append(n_lookup[t], n + 1) ELSE n_lookup[t]]
  BY <1>1, <1>5, NewNames DEF New!addResource
<1>11. /\ FreshModel(n_resource', n_Resources', n_lookup')
       /\ (\A u \in 1..n : n_resource'[u] = n_resource[u]) /\ n_resource'[n + 1] = e
  <2>1. ParentKind(e.kind) # {} => KindIn(n_resource, e.parent) \in ParentKind(e.kind)
    BY <1>6, <1>8
  <2>2. n_lookup' = [t \in Tables |-> IF t \in TableOf(e.kind) THEN Append(n_lookup[t], n + 1) ELSE n_lookup[t]]
    BY <1>8, <1>10
  <2>3. GrowsTo(n_resource, n_Resources, n_lookup, e, n_resource', n_Resources', n_lookup')
    BY <1>1, <1>8, <1>9, <1>10, <2>1, <2>2, Zenon DEF GrowsTo, n
  <2> QED BY <2>3, FreshGrows DEF n
<1>12. \A t \in Tables : n_lookup'[t] = IF t = Kind THEN Append(n_lookup[t], n + 1) ELSE n_lookup[t]
  <2>1. TableOf(Kind) = {Kind}
    BY <1>2, TablesOfStages
  <2> QED BY <1>10, <2>1
<1>13. ParentKind(Kind) # {} => NewParent # 0
  BY <1>5, <1>6 DEF KindIn, ParentKind
<1>14. FreshModel(n_resource, n_Resources, n_lookup)'
  BY <1>11 DEF FreshModel, Numbered, TableLists, LayersFitIn, KindIn
<1> QED BY <1>3, <1>5, <1>8, <1>11, <1>12, <1>13, <1>14 DEF n

(* CopyIsMade: a copy is what it should be, and the ones before it stay.   *)
LEMMA CopyIsMade ==
  ASSUME SourceInv, MergeTypeOK, CopiesInv, FreshModel(n_resource, n_Resources, n_lookup), Copy
  PROVE  CopiesInv' /\ MergeTypeOK'
<1> DEFINE n == Len(n_resource)
           made == CopiesMade
           made3 == Made(stage, index + 1, lookup)
           map3 == [oldToNew EXCEPT ![Old] = n + 1]
           s == stage
           old == Old
<1>1. /\ s \in 1..6 /\ Kind = Stages[s] /\ index \in 1..Len(lookup[Kind]) /\ index \in Nat
      /\ made[s] = index - 1
      /\ old = lookup[Kind][index] /\ old \in 1..MaxResources /\ resource[old].kind = Kind
      /\ ParentKind(Kind) # {} => resource[old].parent \in 1..MaxResources
      /\ \A u \in 1..MaxResources : oldToNew[u] # 0 => u # old
      /\ \A i \in 1..6 : \A k \in 1..made[i] : lookup[Stages[i]][k] # old
  BY NextCopied DEF Copy, MergeTypeOK
<1>2. /\ n \in Nat /\ \A u \in 1..n : n_resource'[u] = n_resource[u]
      /\ n_resource'[n + 1].parent = NewParent
      /\ (ParentKind(Kind) # {} => NewParent # 0)
      /\ \A t \in Tables : n_lookup'[t] = IF t = Kind THEN Append(n_lookup[t], n + 1) ELSE n_lookup[t]
  BY CopyGrows
<1>3. /\ oldToNew' = map3 /\ index' = index + 1
      /\ UNCHANGED <<resource, lookup, stage, merge, faceID, oldFaceID, n_sCurPath, refusedData,
                      refusedResource>>
  BY FreshNames DEF Copy, vars
<1>4. CopiesAre(made, resource, lookup, n_resource, n_lookup, oldToNew)
  BY DEF CopiesInv
<1>5. CopiesMade' = made3
  BY <1>3 DEF CopiesMade, Made
<1>6. /\ oldToNew \in [1..MaxResources -> Nat]
      /\ map3[old] = n + 1 /\ (\A u \in 1..MaxResources : u # old => map3[u] = oldToNew[u])
      /\ map3 \in [1..MaxResources -> Nat]
  BY <1>1, <1>2 DEF MergeTypeOK
<1>7. \A i \in 1..6 : made3[i] = IF i = s THEN made[i] + 1 ELSE made[i]
  BY <1>1 DEF CopiesMade, Made
<1>8. MergeTypeOK'
  BY <1>1, <1>3, <1>6 DEF MergeTypeOK
<1> HIDE DEF n, made, made3, map3, s, old
<1>9. \A i \in 1..6 : n_lookup[Stages[i]] \in Seq(1..n) /\ Len(lookup[Stages[i]]) \in Nat
  BY SourceTables, FreshTables DEF n
<1>10. \A i \in 1..6 : n_lookup'[Stages[i]] = IF i = s THEN Append(n_lookup[Stages[i]], n + 1)
                                              ELSE n_lookup[Stages[i]]
  BY ONLY <1>1, <1>2, TablesOfStages
<1>11. old = lookup[Stages[s]][made[s] + 1] /\ made[s] < Len(lookup[Stages[s]])
  <2>1. Len(lookup[Kind]) \in Nat
    BY <1>1, <1>9
  <2> QED BY ONLY <1>1, <2>1
<1>12. ParentKind(resource[old].kind) # {} =>
         /\ resource[old].parent \in 1..MaxResources /\ resource[old].parent # old
         /\ n_resource'[n + 1].parent = oldToNew[resource[old].parent]
  <2>1. ParentKind(Kind) # {} => NewParent = oldToNew[resource[old].parent]
    BY DEF NewParent, old
  <2> QED BY ONLY <1>1, <1>2, <2>1
<1>13. ASSUME NEW i \in 1..6, NEW k \in 1..made[i]
       PROVE  LET u == lookup[Stages[i]][k] IN
              /\ u \in 1..MaxResources /\ u # old
              /\ ParentKind(resource[u].kind) # {} =>
                   resource[u].parent \in 1..MaxResources /\ resource[u].parent # old
  <2> DEFINE u == lookup[Stages[i]][k]
             v == n_lookup[Stages[i]][k]
  <2>1. made[i] \in 0..Len(lookup[Stages[i]]) /\ Len(n_lookup[Stages[i]]) = made[i]
        /\ CopyIs(resource, u, n_resource, v, oldToNew)
    BY <1>4 DEF CopiesAre
  <2>2. k \in 1..Len(lookup[Stages[i]]) /\ k \in 1..Len(n_lookup[Stages[i]])
    <3> DEFINE L == Len(lookup[Stages[i]])
               m == made[i]
    <3>1. L \in Nat /\ m \in 0..L /\ k \in 1..m
      BY <1>9, <1>13, <2>1, Zenon
    <3> HIDE DEF L, m
    <3>2. k \in 1..L /\ k \in 1..m
      BY ONLY <3>1
    <3> QED BY <2>1, <3>2 DEF L, m
  <2>3. u \in 1..MaxResources /\ resource[u].kind = Stages[i]
        /\ (ParentKind(Stages[i]) # {} => resource[u].parent \in 1..MaxResources)
    BY <2>2, SourceTables
  <2>4. v \in Nat /\ (ParentKind(Stages[i]) # {} => n_resource[v].parent \in 1..(v - 1))
    <3>1. \A l \in 1..Len(n_lookup[Stages[i]]) :
            /\ n_lookup[Stages[i]][l] \in 1..n
            /\ ParentKind(Stages[i]) # {} =>
                 n_resource[n_lookup[Stages[i]][l]].parent \in 1..(n_lookup[Stages[i]][l] - 1)
      BY FreshTables DEF n
    <3>2. v \in 1..n /\ (ParentKind(Stages[i]) # {} => n_resource[v].parent \in 1..(v - 1))
      BY <2>2, <3>1, Zenon
    <3> QED BY ONLY <1>2, <3>2
  <2>5. u # old
    BY <1>1
  <2> HIDE DEF u, v
  <2>6. ASSUME ParentKind(resource[u].kind) # {} PROVE resource[u].parent # old
    <3>1. n_resource[v].parent = oldToNew[resource[u].parent]
      BY ONLY <2>1, <2>6 DEF CopyIs
    <3>2. n_resource[v].parent # 0
      BY ONLY <2>3, <2>4, <2>6
    <3> QED BY ONLY <1>1, <2>3, <2>6, <3>1, <3>2
  <2> QED BY <2>3, <2>5, <2>6 DEF u
<1>14. CopiesAre(made3, resource, lookup, n_resource', n_lookup', map3)
  <2>1. CopyAdds(made, resource, lookup, n_resource, n_lookup, oldToNew, s, n, old,
                 made3, n_resource', n_lookup', map3)
    BY <1>1, <1>2, <1>6, <1>7, <1>9, <1>10, <1>11, <1>12, <1>13, ZenonT(60) DEF CopyAdds
  <2> QED BY <1>4, <2>1, CopiesGrow
<1>15. CopiesInv'
  BY <1>3, <1>5, <1>14, Zenon DEF CopiesInv
<1> QED BY <1>8, <1>15

(* NoCopies: as long as no copies are made, the source may change.         *)
LEMMA NoCopies ==
  ASSUME NEW made, NEW r, NEW tables, NEW r2, NEW tables2, NEW map,
         CopiesAre(made, r, tables, r2, tables2, map), \A i \in 1..6 : made[i] = 0,
         NEW r3, NEW tables3, \A i \in 1..6 : Len(tables3[Stages[i]]) \in Nat
  PROVE  CopiesAre(made, r3, tables3, r2, tables2, map)
<1>1. \A i \in 1..6 : Len(tables2[Stages[i]]) = made[i] /\ 1..made[i] = {} /\ made[i] \in 0..Len(tables3[Stages[i]])
  <2> SUFFICES ASSUME NEW i \in 1..6
               PROVE  /\ Len(tables2[Stages[i]]) = made[i] /\ 1..made[i] = {}
                      /\ made[i] \in 0..Len(tables3[Stages[i]])
    BY Zenon
  <2> DEFINE L == Len(tables3[Stages[i]])
  <2>1. Len(tables2[Stages[i]]) = made[i] /\ made[i] = 0 /\ L \in Nat
    BY Zenon DEF CopiesAre
  <2> HIDE DEF L
  <2>2. 1..made[i] = {} /\ made[i] \in 0..L
    BY ONLY <2>1
  <2> QED BY <2>1, <2>2 DEF L
<1>2. \A u \in 1..MaxResources : map[u] # 0 => FALSE
  BY <1>1 DEF CopiesAre
<1> QED BY <1>1, <1>2 DEF CopiesAre

(* CopyFound: the copy of a resource whose table is copied.                *)
LEMMA CopyFound ==
  ASSUME SourceInv, CopiesInv, FreshModel(n_resource, n_Resources, n_lookup),
         NEW i \in 1..6, NEW k \in 1..CopiesMade[i]
  PROVE  LET v == oldToNew[lookup[Stages[i]][k]] IN
         /\ v = n_lookup[Stages[i]][k]
         /\ v \in 1..Len(n_resource) /\ v # 0 /\ n_resource[v].kind = Stages[i]
         /\ KindIn(n_resource, v) = Stages[i]
<1> DEFINE v == oldToNew[lookup[Stages[i]][k]]
<1>1. v = n_lookup[Stages[i]][k] /\ Len(n_lookup[Stages[i]]) = CopiesMade[i]
  BY DEF CopiesInv, CopiesAre, CopyIs
<1>2. k \in 1..Len(n_lookup[Stages[i]])
  BY <1>1
<1>3. v \in 1..Len(n_resource) /\ n_resource[v].kind = Stages[i]
  <2>1. /\ Len(n_resource) \in Nat /\ n_lookup[Stages[i]] \in Seq(1..Len(n_resource))
        /\ Len(n_lookup[Stages[i]]) \in Nat
        /\ \A l \in 1..Len(n_lookup[Stages[i]]) :
             /\ n_lookup[Stages[i]][l] \in 1..Len(n_resource)
             /\ n_resource[n_lookup[Stages[i]][l]].kind = Stages[i]
             /\ ParentKind(Stages[i]) # {} =>
                  n_resource[n_lookup[Stages[i]][l]].parent \in 1..(n_lookup[Stages[i]][l] - 1)
    BY FreshTables
  <2> QED BY <1>1, <1>2, <2>1
<1> HIDE DEF v
<1>4. v # 0 /\ KindIn(n_resource, v) = Stages[i]
  BY <1>3 DEF KindIn
<1> QED BY <1>1, <1>3, <1>4 DEF v

(* OldInModel: a property resource that no clearAll left behind is listed  *)
(* by the source, and so is what it is constructed from, in a table that   *)
(* was copied.                                                             *)
LEMMA OldInModel ==
  ASSUME SourceInv, StaleGroups = {}, NEW i \in 1..6, NEW old \in Range(lookup[Stages[i]]),
         resource[old].kind = Stages[i], ParentKind(Stages[i]) # {}
  PROVE  \E p \in 1..(i - 1) : /\ ParentKind(Stages[i]) = {Stages[p]}
                               /\ resource[old].parent \in Range(lookup[Stages[p]])
<1>1. TypeOK /\ LookupTablesListTheModel /\ ParentsComeFirst
  BY DEF SourceInv, ModelInv
<1>2. InModel(old)
  <2>1. CASE Stages[i] = "texturegroup"
    BY <2>1 DEF StaleGroups
  <2>2. CASE Stages[i] # "texturegroup"
    <3>1. Range(lookup[Stages[i]]) \subseteq OfTable(Stages[i])
      BY <1>1, <2>2, TablesOfStages DEF LookupTablesListTheModel
    <3> QED BY <3>1 DEF OfTable, InModel
  <2> QED BY <2>1, <2>2
<1>3. PICK j \in DOMAIN m_Resources : m_Resources[j] = old
  BY <1>2 DEF InModel, Range
<1>4. PICK l \in 1..(j - 1) : /\ m_Resources[l] = resource[old].parent
                              /\ resource[resource[old].parent].kind \in ParentKind(Stages[i])
  BY <1>1, <1>3 DEF ParentsComeFirst
<1>5. resource[old].parent \in Range(m_Resources)
  <2>1. m_Resources \in Seq(1..Len(resource))
    BY <1>1 DEF TypeOK
  <2>2. l \in DOMAIN m_Resources
    BY ONLY <1>3, <1>4, <2>1
  <2> QED BY <1>4, <2>2 DEF Range
<1>6. PICK p \in 1..(i - 1) : ParentKind(Stages[i]) = {Stages[p]}
  BY TablesOfStages
<1>7. p \in 1..6 /\ resource[resource[old].parent].kind = Stages[p]
  BY <1>4, <1>6
<1>8. resource[old].parent \in OfTable(Stages[p])
  BY <1>5, <1>7, TablesOfStages DEF OfTable
<1>9. OfTable(Stages[p]) \subseteq Range(lookup[Stages[p]])
  BY <1>1, <1>7, TablesOfStages DEF LookupTablesListTheModel
<1> QED BY <1>6, <1>8, <1>9

(* CopiesAccepted: without stale groups, layers and refused data every     *)
(* copy is accepted.                                                       *)
LEMMA CopiesAccepted ==
  ASSUME SourceInv, MergeTypeOK, CopiesInv, FreshModel(n_resource, n_Resources, n_lookup),
         Copying, index <= Len(lookup[Kind]), StaleGroups = {}, LayeredGroups = {},
         refusedResource = 0
  PROVE  CopyAccepted
<1>1. /\ stage \in 1..6 /\ Kind = Stages[stage] /\ Old \in 1..Len(resource)
      /\ resource[Old].kind = Kind /\ Old \in Range(lookup[Kind])
  BY NextCopied
<1>2. ~New!KnownID("", New!generateResourceID)
  <2> DEFINE n == Len(n_resource)
  <2>1. n \in Nat /\ New!UIDs = 1..n /\ New!generateResourceID = n + 1
    BY FreshNames
  <2>2. \A u \in 1..n : n_resource[u].id = u
    BY DEF FreshModel, Numbered
  <2> HIDE DEF n
  <2>3. \A u \in 1..n : n_resource[u].id # n + 1
    BY <2>1, <2>2
  <2> QED BY <2>1, <2>3, Zenon DEF New!KnownID
<1>3. LayersAccepted(NewLayers)
  <2>1. NewLayers = << >>
    <3>1. CASE Kind = "multi"
      BY <1>1, <3>1 DEF LayeredGroups, NewLayers, LayersCopied
    <3>2. CASE Kind # "multi"
      BY <1>1, <3>2 DEF SourceInv, SourceFacts, NewLayers, LayersCopied
    <3> QED BY <3>1, <3>2
  <2>2. DOMAIN NewLayers = {}
    BY ONLY <2>1
  <2> QED BY <2>2, Zenon DEF LayersAccepted
<1>4. ParentFound
  <2> SUFFICES ASSUME ParentKind(Kind) # {} PROVE New!KindOf(NewParent) \in ParentKind(Kind)
    BY DEF ParentFound
  <2>1. PICK p \in 1..(stage - 1) : /\ ParentKind(Kind) = {Stages[p]}
                                    /\ resource[Old].parent \in Range(lookup[Stages[p]])
    BY <1>1, OldInModel
  <2>2. p \in 1..6 /\ p < stage
    BY <1>1
  <2>3. PICK k \in 1..Len(lookup[Stages[p]]) : lookup[Stages[p]][k] = resource[Old].parent
    <3>1. DOMAIN lookup[Stages[p]] = 1..Len(lookup[Stages[p]])
      BY <2>2, SourceTables
    <3> QED BY <2>1, <3>1 DEF Range
  <2>4. CopiesMade[p] = Len(lookup[Stages[p]])
    BY <2>2 DEF CopiesMade, Made
  <2>5. KindIn(n_resource, oldToNew[lookup[Stages[p]][k]]) = Stages[p]
    BY <2>2, <2>3, <2>4, CopyFound
  <2>6. NewParent = oldToNew[resource[Old].parent]
    BY DEF NewParent
  <2> QED BY <2>1, <2>3, <2>5, <2>6, FreshNames
<1>5. Old # refusedResource
  <2>1. Len(resource) \in Nat
    BY LenProperties DEF SourceInv, ModelInv, TypeOK
  <2>2. \A u \in 1..Len(resource) : u # 0
    BY <2>1
  <2> QED BY <1>1, <2>2
<1> QED BY <1>2, <1>3, <1>4, <1>5 DEF CopyAccepted

(* AllCopied: when all tables are copied, what has no copy is in none.     *)
LEMMA AllCopied ==
  ASSUME SourceInv, CopiesInv, FreshModel(n_resource, n_Resources, n_lookup), stage = 7
  PROVE  /\ \A i \in 1..6 : CopiesMade[i] = Len(lookup[Stages[i]])
         /\ \A u : oldToNew[u] = 0 => \A i \in 1..6 : u \notin Range(lookup[Stages[i]])
<1>1. \A i \in 1..6 : CopiesMade[i] = Len(lookup[Stages[i]])
  BY DEF CopiesMade, Made
<1>2. ASSUME NEW u, oldToNew[u] = 0, NEW i \in 1..6, u \in Range(lookup[Stages[i]]) PROVE FALSE
  <2>1. PICK k \in 1..Len(lookup[Stages[i]]) : u = lookup[Stages[i]][k]
    <3>1. DOMAIN lookup[Stages[i]] = 1..Len(lookup[Stages[i]])
      BY SourceTables
    <3> QED BY <1>2, <3>1 DEF Range
  <2> QED BY <1>1, <1>2, <2>1, CopyFound
<1> QED BY <1>1, <1>2

(* Unmoved: what fails a merge, and the invariant of the source, do not    *)
(* depend on the new model.                                                *)
LEMMA Unmoved ==
  ASSUME SourceInv, UNCHANGED vars
  PROVE  /\ SourceInv'
         /\ UNCHANGED <<oldFaceID, refusedData, refusedResource>> => (WhyMergesFail' <=> WhyMergesFail)
<1>1. SourceInv'
  BY SourceStep
<1>2. UNCHANGED <<resource, m_Resources, lookup, m_nHandleCounter>>
  BY DEF vars
<1> QED BY <1>1, <1>2 DEF WhyMergesFail, StaleGroups, LayeredGroups, InModel

(* FailsFor: a merge that throws has one of the reasons.                   *)
LEMMA FailsFor ==
  ASSUME MergeInv, CopyThrows \/ PatchThrows \/ FinishThrows
  PROVE  WhyMergesFail
<1>i. SourceInv /\ MergeTypeOK /\ CopiesInv /\ FreshModel(n_resource, n_Resources, n_lookup)
  BY DEF MergeInv
<1>1. CASE CopyThrows
  <2>1. Copying /\ index <= Len(lookup[Kind]) /\ ~CopyAccepted
    BY <1>1 DEF CopyThrows
  <2>2. ~(StaleGroups = {} /\ LayeredGroups = {} /\ refusedResource = 0)
    BY <1>i, <2>1, CopiesAccepted
  <2> QED BY <2>2 DEF WhyMergesFail
<1>2. CASE PatchThrows
  <2>1. stage = 7 /\ faceID = oldFaceID /\ oldFaceID # 0 /\ oldToNew[oldFaceID] = 0
    BY <1>2, <1>i, StagesAre DEF PatchThrows, Copied, MergeInv, MergeTypeOK
  <2>2. \A i \in DOMAIN Stages : oldFaceID \notin Range(lookup[Stages[i]])
    BY <1>i, <2>1, AllCopied, StagesAre
  <2> QED BY <2>1, <2>2 DEF WhyMergesFail
<1>3. CASE FinishThrows
  <2>1. m_nHandleCounter = MaxHandles
    <3>1. m_nHandleCounter \in Nat \ {0} /\ m_nHandleCounter <= MaxHandles
      BY <1>i DEF SourceInv, SourceFacts, ModelInv, TypeOK
    <3>2. m_nHandleCounter >= MaxHandles /\ MaxHandles \in Nat
      BY <1>3, Bounds DEF FinishThrows
    <3> QED BY ONLY <3>1, <3>2
  <2> QED BY <2>1 DEF WhyMergesFail
<1> QED BY <1>1, <1>2, <1>3

(* InitMerge: nothing is copied yet.                                       *)
LEMMA InitMerge == MergeInit => MergeInv
<1> SUFFICES ASSUME MergeInit PROVE MergeInv
  OBVIOUS
<1>1. Init /\ ModelInv
  BY InitInv DEF MergeInit
<1>2. SourceFacts(resource, lookup, m_nHandleCounter)
  <2>1. /\ resource = << >> /\ m_nHandleCounter = 1 /\ \A t \in Tables : lookup[t] = << >>
    BY <1>1 DEF Init
  <2>2. Range(<< >>) = {} /\ Len(<< >>) = 0 /\ 1..0 = {}
    BY DEF Range
  <2>3. 0 <= MaxResources /\ 1 <= MaxHandles
    BY Bounds
  <2>4. Len(resource) = 0 /\ 1..Len(resource) = {} /\ \A t \in Tables : Range(lookup[t]) = {}
    BY <2>1, <2>2, Zenon
  <2> QED BY <2>1, <2>3, <2>4 DEF SourceFacts
<1>3. /\ n_resource = << >> /\ n_Resources = << >> /\ n_lookup = [t \in Tables |-> << >>]
      /\ n_sCurPath = NoPath
  BY NewNames DEF MergeInit, New!Init, NoPath
<1>4. FreshModel(n_resource, n_Resources, n_lookup)
  <2>1. n_resource \in Seq(ResourceType) /\ Len(n_resource) = 0 /\ 1..Len(n_resource) = {}
    BY <1>3
  <2>2. n_Resources = [u \in 1..Len(n_resource) |-> u]
    BY <1>3, <2>1
  <2>3. \A t \in Tables : TableLists(n_resource, t, n_lookup[t])
    BY <1>3, <2>1 DEF TableLists, Increasing, Range
  <2> QED BY <1>3, <2>1, <2>2, <2>3 DEF FreshModel
<1>5. /\ oldToNew = [u \in 1..MaxResources |-> 0] /\ merge = "none" /\ stage = 1 /\ index = 1
      /\ faceID = 0 /\ oldFaceID = 0 /\ refusedData = "none" /\ refusedResource = 0
  BY DEF MergeInit
<1>6. MergeTypeOK
  BY <1>3, <1>5, Bounds DEF MergeTypeOK
<1>7. CopiesInv
  <2>1. \A i \in 1..6 : CopiesMade[i] = 0
    BY <1>5 DEF CopiesMade, Made
  <2>2. \A i \in 1..6 : Len(lookup[Stages[i]]) = 0 /\ Len(n_lookup[Stages[i]]) = 0
    BY <1>1, <1>3, TablesOfStages DEF Init
  <2> QED BY <1>5, <2>1, <2>2 DEF CopiesInv, CopiesAre
<1> QED BY <1>1, <1>2, <1>4, <1>5, <1>6, <1>7 DEF MergeInv, SourceInv

(* SourceKeeps: the source goes on before a merge.                         *)
LEMMA SourceKeeps == ASSUME MergeInv, Source PROVE MergeInv'
<1>1. merge = "none" /\ Next /\ UNCHANGED <<newVars, mergeVars>>
  BY DEF Source
<1>2. /\ SourceInv /\ MergeTypeOK /\ FreshModel(n_resource, n_Resources, n_lookup) /\ CopiesInv
      /\ stage = 1 /\ index = 1
  BY <1>1 DEF MergeInv
<1>3. SourceInv'
  BY <1>1, <1>2, SourceStep
<1>4. UNCHANGED <<n_resource, n_Resources, n_lookup, n_sCurPath, oldToNew, merge, stage, index,
                  faceID, oldFaceID, refusedData, refusedResource>>
  BY <1>1 DEF newVars, mergeVars
<1>5. MergeTypeOK'
  BY <1>2, <1>4 DEF MergeTypeOK
<1>6. FreshModel(n_resource, n_Resources, n_lookup)'
  BY <1>2, <1>4
<1>7. CopiesInv'
  <2>1. CopiesMade = [i \in 1..6 |-> 0] /\ CopiesMade' = [i \in 1..6 |-> 0]
    <3>1. \A i \in 1..6 : ~(i < 1) /\ 1 - 1 = 0
      OBVIOUS
    <3> QED BY <1>2, <1>4, <3>1 DEF CopiesMade, Made
  <2>2. \A i \in 1..6 : Len(lookup'[Stages[i]]) \in Nat
    <3> SUFFICES ASSUME NEW i \in 1..6 PROVE Len(lookup'[Stages[i]]) \in Nat
      OBVIOUS
    <3>1. lookup'[Stages[i]] \in Seq(1..Len(resource'))
      BY <1>3, TablesOfStages DEF SourceInv, ModelInv, TypeOK
    <3> QED BY <3>1, LenProperties
  <2>3. CopiesAre(CopiesMade, resource, lookup, n_resource, n_lookup, oldToNew)
        /\ \A i \in 1..6 : CopiesMade[i] = 0
    BY <1>2, <2>1 DEF CopiesInv
  <2>4. CopiesAre(CopiesMade, resource', lookup', n_resource, n_lookup, oldToNew)
    BY <2>2, <2>3, NoCopies
  <2> QED BY <1>4, <2>1, <2>4, Zenon DEF CopiesInv
<1> QED BY <1>1, <1>2, <1>3, <1>4, <1>5, <1>6, <1>7 DEF MergeInv

(* SameCopies: a step that copies nothing and constructs nothing.          *)
LEMMA SameCopies ==
  ASSUME MergeInv,
         UNCHANGED <<vars, n_resource, n_Resources, n_lookup, oldToNew, stage, index>>
  PROVE  SourceInv' /\ FreshModel(n_resource, n_Resources, n_lookup)' /\ CopiesInv'
<1>1. SourceInv /\ FreshModel(n_resource, n_Resources, n_lookup) /\ CopiesInv
  BY DEF MergeInv
<1>2. SourceInv'
  BY <1>1, Unmoved
<1>3. FreshModel(n_resource, n_Resources, n_lookup)'
  BY <1>1
<1>4. CopiesInv'
  BY <1>1 DEF CopiesInv, CopiesMade, vars
<1> QED BY <1>2, <1>3, <1>4

(* BeginKeeps: a merge starts.                                             *)
LEMMA BeginKeeps == ASSUME MergeInv, Begin PROVE MergeInv'
<1>1. /\ UNCHANGED <<vars, newVars, oldToNew, stage, index, refusedData>> /\ merge' = "copying"
  BY DEF Begin
<1>2. faceID' = oldFaceID' /\ oldFaceID' \in 0..MaxResources
  <2>1. 0 \in 0..MaxResources
    BY Bounds
  <2> QED BY <2>1 DEF Begin, FaceIDs
<1>3. SourceInv' /\ FreshModel(n_resource, n_Resources, n_lookup)' /\ CopiesInv'
  BY <1>1, SameCopies DEF newVars
<1>4. MergeTypeOK'
  <2>1. oldFaceID' \in Nat
    BY <1>2, Bounds
  <2>2. refusedResource' \in Nat
    <3>1. SourceInv /\ TypeOK
      BY DEF MergeInv, SourceInv, ModelInv
    <3>2. lookup["texture"] \in Seq(1..Len(resource)) /\ lookup["composite"] \in Seq(1..Len(resource))
      <4>1. "texture" \in Tables /\ "composite" \in Tables
        BY DEF Tables, Kinds, Objects, Materials
      <4> QED BY <3>1, <4>1 DEF TypeOK
    <3>3. Range(lookup["texture"]) \subseteq 1..Len(resource)
          /\ Range(lookup["composite"]) \subseteq 1..Len(resource)
      BY <3>2, ElementOfSeq DEF Range
    <3>4. 1..Len(resource) \subseteq Nat
      OBVIOUS
    <3>5. refusedResource' = 0 \/ refusedResource' \in Refusable
      BY DEF Begin
    <3> QED BY <3>3, <3>4, <3>5 DEF Refusable
  <2> QED BY <1>1, <1>2, <2>1, <2>2 DEF MergeInv, MergeTypeOK, newVars
<1> QED BY <1>1, <1>2, <1>3, <1>4 DEF MergeInv

(* BeginThrowsKeeps: the meshes, the attachments or the metadata refuse.   *)
LEMMA BeginThrowsKeeps ==
  ASSUME MergeInv, BeginThrows \/ MetaDataThrows
  PROVE  MergeInv'
<1>1. /\ UNCHANGED <<vars, newVars, oldToNew, stage, index, faceID, oldFaceID, refusedResource>>
      /\ merge' = "failed" /\ refusedData' \in {"mesh", "attachments", "metadata"}
  BY DEF BeginThrows, MetaDataThrows
<1>2. SourceInv' /\ FreshModel(n_resource, n_Resources, n_lookup)' /\ CopiesInv'
  BY <1>1, SameCopies DEF newVars
<1>3. WhyMergesFail'
  BY <1>1 DEF WhyMergesFail
<1>4. MergeTypeOK'
  BY <1>1 DEF MergeInv, MergeTypeOK, newVars
<1> QED BY <1>1, <1>2, <1>3, <1>4 DEF MergeInv

(* CopyKeeps: a resource is copied.                                        *)
LEMMA CopyKeeps == ASSUME MergeInv, Copy PROVE MergeInv'
<1>1. SourceInv /\ MergeTypeOK /\ CopiesInv /\ FreshModel(n_resource, n_Resources, n_lookup)
  BY DEF MergeInv
<1>2. UNCHANGED <<vars, merge, faceID, oldFaceID, refusedData, refusedResource>> /\ merge = "copying"
  BY DEF Copy, Copying
<1>3. SourceInv'
  BY <1>1, <1>2, Unmoved
<1>4. FreshModel(n_resource, n_Resources, n_lookup)' /\ CopiesInv' /\ MergeTypeOK'
  BY <1>1, CopyGrows, CopyIsMade
<1> QED BY <1>2, <1>3, <1>4 DEF MergeInv

(* ThrowsKeeps: a merge throws.                                            *)
LEMMA ThrowsKeeps ==
  ASSUME MergeInv, CopyThrows \/ PatchThrows \/ FinishThrows
  PROVE  MergeInv'
<1>1. Discard /\ WhyMergesFail
  BY FailsFor DEF CopyThrows, PatchThrows, FinishThrows
<1>2. /\ UNCHANGED <<vars, newVars, oldToNew, stage, index, faceID, oldFaceID, refusedData,
                      refusedResource>>
      /\ merge' = "failed"
  BY <1>1 DEF Discard
<1>3. SourceInv' /\ FreshModel(n_resource, n_Resources, n_lookup)' /\ CopiesInv'
  BY <1>2, SameCopies DEF newVars
<1>4. WhyMergesFail'
  BY <1>1, <1>2, Unmoved DEF MergeInv
<1>5. MergeTypeOK'
  BY <1>2 DEF MergeInv, MergeTypeOK, newVars
<1> QED BY <1>2, <1>3, <1>4, <1>5 DEF MergeInv

(* NextTableKeeps: the next table follows when all entries are copied.     *)
LEMMA NextTableKeeps == ASSUME MergeInv, NextTable PROVE MergeInv'
<1>1. /\ UNCHANGED <<vars, newVars, oldToNew, merge, faceID, oldFaceID, refusedData,
                      refusedResource>>
      /\ merge = "copying" /\ stage <= Len(Stages) /\ index > Len(lookup[Kind])
      /\ stage' = stage + 1 /\ index' = 1
  BY DEF NextTable, Copying
<1>2. SourceInv /\ MergeTypeOK /\ CopiesInv /\ FreshModel(n_resource, n_Resources, n_lookup)
  BY DEF MergeInv
<1>3. stage \in 1..6 /\ index \in Nat \ {0}
  BY <1>1, <1>2, StagesAre DEF MergeTypeOK
<1>4. index - 1 = Len(lookup[Stages[stage]])
  <2>1. CopiesMade[stage] = index - 1
    BY <1>3 DEF CopiesMade, Made
  <2>2. CopiesMade[stage] \in 0..Len(lookup[Stages[stage]])
    BY <1>2, <1>3 DEF CopiesInv, CopiesAre
  <2>3. index > Len(lookup[Stages[stage]])
    BY <1>1 DEF Kind
  <2>4. Len(lookup[Stages[stage]]) \in Nat
    BY <1>2, <1>3, SourceTables
  <2> DEFINE L == Len(lookup[Stages[stage]])
  <2> HIDE DEF L
  <2>5. index - 1 \in 0..L /\ index > L /\ L \in Nat
    BY <2>1, <2>2, <2>3, <2>4, Zenon DEF L
  <2>6. index - 1 = L
    BY ONLY <1>3, <2>5
  <2> QED BY <2>6 DEF L
<1>5. CopiesMade' = CopiesMade
  <2>1. UNCHANGED lookup
    BY <1>1 DEF vars
  <2>2. CopiesMade' = [i \in 1..6 |-> IF i < stage + 1 THEN Len(lookup[Stages[i]])
                                      ELSE IF i = stage + 1 THEN 1 - 1 ELSE 0]
    BY <1>1, <2>1 DEF CopiesMade, Made
  <2>3. CopiesMade = [i \in 1..6 |-> IF i < stage THEN Len(lookup[Stages[i]])
                                     ELSE IF i = stage THEN index - 1 ELSE 0]
    BY DEF CopiesMade, Made
  <2>4. \A i \in 1..6 : /\ i < stage + 1 <=> i < stage \/ i = stage
                        /\ i = stage + 1 => ~(i < stage) /\ i # stage
    BY <1>3
  <2> QED BY ONLY <1>4, <2>2, <2>3, <2>4
<1>6. CopiesInv'
  BY <1>1, <1>2, <1>5, Zenon DEF CopiesInv, vars, newVars
<1>7. SourceInv'
  BY <1>1, <1>2, Unmoved
<1>8. FreshModel(n_resource, n_Resources, n_lookup)'
  BY <1>1, <1>2 DEF newVars
<1>9. MergeTypeOK'
  BY <1>1, <1>2, <1>3 DEF MergeTypeOK, newVars
<1> QED BY <1>1, <1>6, <1>7, <1>8, <1>9 DEF MergeInv

(* MeshGrows: the merged mesh is one more resource of the new model.       *)
LEMMA MeshGrows ==
  ASSUME MergeInv, Finish
  PROVE  /\ FreshModel(n_resource, n_Resources, n_lookup)'
         /\ \A u \in 1..Len(n_resource) : n_resource'[u] = n_resource[u]
         /\ \A i \in 1..6 : n_lookup'[Stages[i]] = n_lookup[Stages[i]]
<1> DEFINE n == Len(n_resource)
           e == [path |-> n_sCurPath, id |-> New!generateResourceID, kind |-> "mesh",
                 parent |-> 0, layers |-> << >>]
<1>1. FreshModel(n_resource, n_Resources, n_lookup) /\ n_sCurPath = NoPath
  BY DEF MergeInv, MergeTypeOK
<1>2. n_resource' = Append(n_resource, e) /\ New!addResource("mesh")
  BY DEF Finish, New!Construct
<1>3. n \in Nat /\ New!generateResourceID = n + 1 /\ New!NewUID = n + 1
  BY <1>1, FreshNames
<1>4. n_Resources' = Append(n_Resources, n + 1)
      /\ n_lookup' = [t \in Tables |-> IF t \in TableOf("mesh") THEN Append(n_lookup[t], n + 1) ELSE n_lookup[t]]
  BY <1>2, <1>3, NewNames DEF New!addResource
<1>5. /\ NoPath \in Paths /\ "mesh" \in Kinds /\ << >> \in Seq(Nat) /\ n + 1 \in Nat /\ 0 \in Nat
  <2>1. NoPath \in Paths
    BY DEF Paths, NoPath
  <2>2. "mesh" \in Kinds
    BY DEF Kinds
  <2> QED BY <1>3, <2>1, <2>2
<1>6. /\ e \in ResourceType /\ e.path = NoPath /\ e.id = n + 1 /\ e.kind = "mesh"
      /\ e.layers = << >>
  BY <1>1, <1>3, <1>5, NewFields, Zenon DEF ResourceType
<1> HIDE DEF e, n
<1>7. LayersFitIn(n_resource, e.layers)
  <2>1. DOMAIN << >> = {}
    OBVIOUS
  <2> QED BY <1>6, <2>1, Zenon DEF LayersFitIn
<1>8. ParentKind(e.kind) = {}
  BY <1>6 DEF ParentKind
<1>9. n_lookup' = [t \in Tables |-> IF t \in TableOf(e.kind) THEN Append(n_lookup[t], n + 1) ELSE n_lookup[t]]
  BY <1>4, <1>6
<1>10. GrowsTo(n_resource, n_Resources, n_lookup, e, n_resource', n_Resources', n_lookup')
  BY <1>2, <1>4, <1>6, <1>7, <1>8, <1>9, Zenon DEF GrowsTo, n
<1>11. /\ FreshModel(n_resource', n_Resources', n_lookup')
       /\ \A u \in 1..n : n_resource'[u] = n_resource[u]
  BY <1>1, <1>10, FreshGrows DEF n
<1>12. \A i \in 1..6 : n_lookup'[Stages[i]] = n_lookup[Stages[i]]
  BY <1>4, TablesOfStages
<1>13. FreshModel(n_resource, n_Resources, n_lookup)'
  BY <1>11 DEF FreshModel, Numbered, TableLists, LayersFitIn, KindIn
<1> QED BY <1>11, <1>12, <1>13 DEF n

(* FinishKeeps: the merge ends with the mesh and its build item.           *)
LEMMA FinishKeeps == ASSUME MergeInv, Finish PROVE MergeInv'
<1>1. /\ merge = "copying" /\ stage > Len(Stages) /\ (faceID # 0 => oldToNew[faceID] # 0)
      /\ faceID' = PatchedID /\ m_nHandleCounter < MaxHandles
      /\ m_nHandleCounter' = m_nHandleCounter + 1 /\ merge' = "done"
      /\ UNCHANGED <<resource, m_Resources, lookup, m_sCurPath, m_BuildItems, reader, unread,
                     n_sCurPath, oldToNew, stage, index, oldFaceID, refusedData,
                     refusedResource>>
  BY DEF Finish, Copied
<1>2. /\ SourceInv /\ MergeTypeOK /\ CopiesInv /\ FreshModel(n_resource, n_Resources, n_lookup)
      /\ faceID = oldFaceID
  BY <1>1 DEF MergeInv
<1>3. stage = 7
  BY <1>1, <1>2, StagesAre DEF MergeTypeOK
<1>4. FreshModel(n_resource, n_Resources, n_lookup)'
      /\ (\A u \in 1..Len(n_resource) : n_resource'[u] = n_resource[u])
      /\ \A i \in 1..6 : n_lookup'[Stages[i]] = n_lookup[Stages[i]]
  BY MeshGrows
<1>5. SourceInv'
  <2>1. m_nHandleCounter \in Nat \ {0} /\ m_nHandleCounter <= MaxHandles /\ MaxHandles \in Nat
    BY <1>2, Bounds DEF SourceInv, SourceFacts, ModelInv, TypeOK
  <2>2. /\ m_nHandleCounter' \in Nat \ {0} /\ m_nHandleCounter' <= MaxHandles
        /\ \A h \in Nat : h < m_nHandleCounter => h < m_nHandleCounter'
    BY <1>1, <2>1
  <2>3. TypeOK'
    BY <1>1, <1>2, <2>2 DEF SourceInv, ModelInv, TypeOK
  <2>4. HandlesAreUsed'
    <3>1. \A i \in DOMAIN m_BuildItems : m_BuildItems[i].handle \in Nat
      <4>1. m_BuildItems \in Seq(BuildItemType)
        BY <1>2 DEF SourceInv, ModelInv, TypeOK
      <4>2. \A i \in DOMAIN m_BuildItems : m_BuildItems[i] \in BuildItemType
        BY <4>1, ElementOfSeq
      <4>3. \A b \in BuildItemType : b.handle \in Nat
        BY DEF BuildItemType
      <4> QED BY <4>2, <4>3
    <3> QED BY <1>1, <1>2, <2>2, <3>1 DEF SourceInv, ModelInv, HandlesAreUsed
  <2>5. LookupTablesListTheModel'
    BY <1>1, <1>2 DEF SourceInv, ModelInv, LookupTablesListTheModel, OfTable
  <2>6. ParentsComeFirst'
    BY <1>1, <1>2 DEF SourceInv, ModelInv, ParentsComeFirst
  <2>7. GroupsFit'
    BY <1>1, <1>2 DEF SourceInv, ModelInv, GroupsFit, LayersFit, KindOf, InModel
  <2>8. BuildItemsAreKnownByTheirHandles'
    BY <1>1, <1>2 DEF SourceInv, ModelInv, BuildItemsAreKnownByTheirHandles, InModel
  <2>9. APIModelsAreNumbered'
    BY <1>1, <1>2 DEF SourceInv, ModelInv, APIModelsAreNumbered
  <2>10. SourceFacts(resource, lookup, m_nHandleCounter)'
    <3>1. SourceFacts(resource, lookup, m_nHandleCounter)
      BY <1>2 DEF SourceInv
    <3> QED BY <1>1, <2>2, <3>1 DEF SourceFacts
  <2> QED BY <2>3, <2>4, <2>5, <2>6, <2>7, <2>8, <2>9, <2>10 DEF SourceInv, ModelInv
<1>6. CopiesInv'
  <2>1. CopiesAre(CopiesMade, resource, lookup, n_resource, n_lookup, oldToNew)
    BY <1>2 DEF CopiesInv
  <2>2. CopiesMade' = CopiesMade
    BY <1>1 DEF CopiesMade
  <2>3. ASSUME NEW i \in 1..6, NEW k \in 1..CopiesMade[i]
        PROVE  n_resource'[n_lookup[Stages[i]][k]] = n_resource[n_lookup[Stages[i]][k]]
    BY <1>2, <1>4, CopyFound
  <2>4. CopiesAre(CopiesMade, resource, lookup, n_resource', n_lookup', oldToNew)
    BY <1>4, <2>1, <2>3, CopiesKept
  <2> QED BY <1>1, <2>2, <2>4, Zenon DEF CopiesInv
<1>7. /\ oldFaceID = 0 => faceID' = 0
      /\ oldFaceID # 0 => faceID' = oldToNew[oldFaceID] /\ faceID' # 0
  BY <1>1, <1>2 DEF PatchedID
<1>8. MergeTypeOK'
  <2>1. faceID' \in Nat
    <3>1. oldFaceID # 0 => oldFaceID \in 1..MaxResources
      BY <1>2, Bounds DEF MergeTypeOK
    <3> QED BY <1>2, <1>7, <3>1 DEF MergeTypeOK
  <2> QED BY <1>1, <1>2, <2>1 DEF MergeTypeOK
<1> QED BY <1>1, <1>3, <1>4, <1>5, <1>6, <1>7, <1>8 DEF MergeInv

(* UseKeeps: the client changes the build items of the new model.          *)
LEMMA UseKeeps == ASSUME MergeInv, Use PROVE MergeInv'
<1>1. UNCHANGED <<vars, mergeVars>> /\ merge = "done"
  BY DEF Use
<1>2. UNCHANGED <<n_resource, n_Resources, n_lookup, n_sCurPath>>
  BY DEF Use, New!AddBuildItem, New!RemoveBuildItem
<1>3. SourceInv' /\ FreshModel(n_resource, n_Resources, n_lookup)' /\ CopiesInv'
  BY <1>1, <1>2, SameCopies DEF mergeVars
<1>4. MergeTypeOK'
  BY <1>1, <1>2 DEF MergeInv, MergeTypeOK, mergeVars
<1> QED BY <1>1, <1>3, <1>4 DEF MergeInv, mergeVars

(* NextMerge: every step of the source, the merge and the client keeps the *)
(* invariant.                                                              *)
LEMMA NextMerge == MergeInv /\ [MergeNext]_allVars => MergeInv'
<1> SUFFICES ASSUME MergeInv, [MergeNext]_allVars PROVE MergeInv'
  OBVIOUS
<1>1. ASSUME UNCHANGED allVars PROVE MergeInv'
  <2>1. /\ UNCHANGED vars
        /\ UNCHANGED <<n_resource, n_Resources, n_lookup, n_sCurPath>>
        /\ UNCHANGED <<oldToNew, merge, stage, index, faceID, oldFaceID, refusedData,
                       refusedResource>>
    BY <1>1 DEF allVars, newVars, mergeVars
  <2>2. SourceInv' /\ FreshModel(n_resource, n_Resources, n_lookup)' /\ CopiesInv'
    BY <2>1, SameCopies
  <2>3. MergeTypeOK'
    BY <2>1 DEF MergeInv, MergeTypeOK
  <2>4. WhyMergesFail => WhyMergesFail'
    BY <2>1, Unmoved DEF MergeInv
  <2> QED BY <2>1, <2>2, <2>3, <2>4 DEF MergeInv
<1> QED BY <1>1, SourceKeeps, BeginKeeps, BeginThrowsKeeps, CopyKeeps, ThrowsKeeps, NextTableKeeps, FinishKeeps,
           UseKeeps DEF MergeNext

(* FinishItems: the merged mesh is the object of the first build item.     *)
LEMMA FinishItems == ASSUME MergeInv, ItemsInv, Finish PROVE ItemsInv'
<1> DEFINE b == [handle |-> m_nHandleCounter, object |-> New!NewUID]
           n == Len(n_resource)
<1>1. n_BuildItems = << >> /\ n_BuildItems' = Append(n_BuildItems, b) /\ merge' = "done"
      /\ n_nHandleCounter' = n_nHandleCounter /\ n_nHandleCounter \in Nat
  BY DEF ItemsInv, Finish, Copied
<1>2. n \in Nat /\ n_resource \in Seq(ResourceType) /\ New!NewUID = n + 1
  BY FreshNames DEF MergeInv, FreshModel
<1>3. m_nHandleCounter \in Nat
  BY DEF MergeInv, SourceInv, ModelInv, TypeOK
<1>4. b \in BuildItemType /\ b.object = n + 1
  BY <1>2, <1>3, Items
<1> HIDE DEF b
<1>5. n_BuildItems' \in Seq(BuildItemType) /\ DOMAIN n_BuildItems' = {1} /\ n_BuildItems'[1] = b
  BY <1>1, <1>4
<1>6. KindIn(n_resource', n + 1) = "mesh"
  <2> DEFINE e == [path |-> n_sCurPath, id |-> New!generateResourceID, kind |-> "mesh",
                   parent |-> 0, layers |-> << >>]
  <2>1. n_resource' = Append(n_resource, e) /\ e.kind = "mesh"
    BY DEF Finish, New!Construct
  <2> HIDE DEF e
  <2>2. n + 1 \in DOMAIN n_resource' /\ n_resource'[n + 1] = e
    BY <1>2, <2>1
  <2> QED BY <2>1, <2>2 DEF KindIn
<1>7. "mesh" \in Objects
  BY DEF Objects
<1> QED BY <1>1, <1>4, <1>5, <1>6, <1>7 DEF ItemsInv

(* UseItems: the client's items are known by their handles.                *)
LEMMA UseItems == ASSUME MergeInv, ItemsInv, Use PROVE ItemsInv'
<1>1. UNCHANGED <<n_resource, merge>> /\ merge = "done"
  BY DEF Use, mergeVars, New!AddBuildItem, New!RemoveBuildItem
<1>2. n_BuildItems \in Seq(BuildItemType) /\ n_nHandleCounter \in Nat
      /\ DOMAIN n_BuildItems = 1..Len(n_BuildItems) /\ Len(n_BuildItems) \in Nat
      /\ \A i \in DOMAIN n_BuildItems : n_BuildItems[i] \in BuildItemType
  BY LenProperties, ElementOfSeq DEF ItemsInv
<1>3. \A i \in DOMAIN n_BuildItems : n_BuildItems[i].handle \in Nat
  BY <1>2 DEF BuildItemType
<1>4. ASSUME NEW object \in DOMAIN n_resource, New!AddBuildItem(object) PROVE ItemsInv'
  <2> DEFINE b == [handle |-> n_nHandleCounter, object |-> object]
             l == Len(n_BuildItems)
  <2>1. n_BuildItems' = Append(n_BuildItems, b) /\ n_nHandleCounter' = n_nHandleCounter + 1
        /\ n_resource[object].kind \in New!Objects
    BY <1>4 DEF New!AddBuildItem, New!NewBuildItem
  <2>2. object \in Nat /\ KindIn(n_resource, object) \in Objects
    <3>1. n_resource \in Seq(ResourceType)
      BY DEF MergeInv, FreshModel
    <3>2. object \in Nat
      BY <3>1, LenProperties
    <3> QED BY <2>1, <3>2, NewNames DEF KindIn
  <2>3. b \in BuildItemType /\ b.handle = n_nHandleCounter /\ b.object = object
    BY <1>2, <2>2, Items
  <2> HIDE DEF b
  <2>4. /\ n_BuildItems' \in Seq(BuildItemType) /\ DOMAIN n_BuildItems' = 1..(l + 1)
        /\ \A i \in 1..l : n_BuildItems'[i] = n_BuildItems[i]
        /\ n_BuildItems'[l + 1] = b /\ l \in Nat /\ DOMAIN n_BuildItems = 1..l
    BY <1>2, <2>1, <2>3
  <2>5. /\ \A i \in 2..l : n_BuildItems[i].handle < n_nHandleCounter
        /\ \A i, j \in 2..l : n_BuildItems[i].handle = n_BuildItems[j].handle => i = j
        /\ \A i \in 1..l : KindIn(n_resource, n_BuildItems[i].object) \in Objects
    BY <2>4 DEF ItemsInv
  <2> HIDE DEF l
  <2>6. \A i \in DOMAIN n_BuildItems' \ {1} : i = l + 1 \/ i \in 2..l
    BY <2>4
  <2>7. \A i \in DOMAIN n_BuildItems' \ {1} : n_BuildItems'[i].handle < n_nHandleCounter'
    BY <1>2, <1>3, <2>1, <2>3, <2>4, <2>5, <2>6
  <2>8. \A i, j \in DOMAIN n_BuildItems' \ {1} :
          n_BuildItems'[i].handle = n_BuildItems'[j].handle => i = j
    BY <1>2, <1>3, <2>3, <2>4, <2>5, <2>6
  <2>9. \A i \in DOMAIN n_BuildItems' : KindIn(n_resource', n_BuildItems'[i].object) \in Objects
    BY <1>1, <2>2, <2>3, <2>4, <2>5
  <2> QED BY <1>1, <1>2, <2>1, <2>4, <2>7, <2>8, <2>9 DEF ItemsInv
<1>5. ASSUME NEW handle \in 1..MaxHandles, New!RemoveBuildItem(handle) PROVE ItemsInv'
  <2>1. PICK k \in DOMAIN n_BuildItems : n_BuildItems' = RemoveAt(n_BuildItems, k)
    <3>1. \A s, k : New!RemoveAt(s, k) = RemoveAt(s, k)
      BY DEF New!RemoveAt, RemoveAt
    <3> QED BY <1>5, <3>1 DEF New!RemoveBuildItem
  <2>2. UNCHANGED n_nHandleCounter
    BY <1>5 DEF New!RemoveBuildItem
  <2> DEFINE l == Len(n_BuildItems)
             old(i) == IF i < k THEN i ELSE i + 1
  <2>3. /\ n_BuildItems' \in Seq(BuildItemType) /\ DOMAIN n_BuildItems' = 1..(l - 1)
        /\ \A i \in 1..(l - 1) : n_BuildItems'[i] = n_BuildItems[old(i)]
    <3>1. /\ n_BuildItems' \in Seq(BuildItemType) /\ Len(n_BuildItems') = l - 1
          /\ \A i \in 1..(l - 1) : /\ i < k => n_BuildItems'[i] = n_BuildItems[i]
                                   /\ i >= k => n_BuildItems'[i] = n_BuildItems[i + 1]
      BY <1>2, <2>1, Removed
    <3>2. l \in Nat /\ k \in 1..l
      BY <1>2
    <3> HIDE DEF l
    <3>3. DOMAIN n_BuildItems' = 1..(l - 1)
      BY <3>1, <3>2
    <3> QED BY <3>1, <3>2, <3>3
  <2>4. \A i \in 1..(l - 1) : old(i) \in 1..l /\ (i # 1 => old(i) # 1)
    BY <1>2
  <2>5. \A i, j \in 1..(l - 1) : old(i) = old(j) => i = j
    BY <1>2
  <2> HIDE DEF l, old
  <2>6. DOMAIN n_BuildItems = 1..l
    BY <1>2 DEF l
  <2> QED BY <1>1, <2>2, <2>3, <2>4, <2>5, <2>6 DEF ItemsInv
<1> QED BY <1>4, <1>5 DEF Use

(* NextItems: before the merge is done there are no items, and afterwards  *)
(* only the client changes them.                                           *)
LEMMA NextItems == MergeInv /\ ItemsInv /\ [MergeNext]_allVars => ItemsInv'
<1> SUFFICES ASSUME MergeInv, ItemsInv, [MergeNext]_allVars PROVE ItemsInv'
  OBVIOUS
<1>1. ASSUME UNCHANGED <<n_BuildItems, n_nHandleCounter>>, UNCHANGED n_resource \/ merge # "done",
             merge' = merge \/ merge # "done"
      PROVE  ItemsInv'
  BY <1>1 DEF ItemsInv
<1>2. CASE UNCHANGED allVars
  BY <1>1, <1>2 DEF allVars, newVars, mergeVars
<1>3. CASE Source
  BY <1>1, <1>3 DEF Source, newVars
<1>4. CASE Begin \/ BeginThrows
  BY <1>1, <1>4 DEF Begin, BeginThrows, newVars
<1>5. CASE Copy
  BY <1>1, <1>5 DEF Copy, Copying
<1>6. CASE CopyThrows \/ PatchThrows \/ FinishThrows
  BY <1>1, <1>6 DEF CopyThrows, PatchThrows, FinishThrows, Discard, Copying, Copied, newVars
<1>7. CASE NextTable \/ MetaDataThrows
  BY <1>1, <1>7 DEF NextTable, MetaDataThrows, Copying, Copied, newVars
<1> QED BY <1>2, <1>3, <1>4, <1>5, <1>6, <1>7, FinishItems, UseItems DEF MergeNext

(* InvWellFormed: the invariants are what MergedModelIsWellFormed needs.   *)
LEMMA InvWellFormed == MergeInv /\ ItemsInv => MergedModelIsWellFormed
<1> SUFFICES ASSUME MergeInv, ItemsInv PROVE MergedModelIsWellFormed
  OBVIOUS
<1>1. New!LookupTablesListTheModel /\ New!ReferencesResolve /\ New!GeneratedIDIsFresh
  BY FreshPromises DEF MergeInv, MergeTypeOK
<1>2. merge = "failed" => WhyMergesFail
  BY DEF MergeInv
<1>3. ASSUME NEW i \in DOMAIN n_BuildItems
      PROVE  /\ New!InModel(n_BuildItems[i].object)
             /\ n_resource[n_BuildItems[i].object].kind \in Objects
  <2>1. KindIn(n_resource, n_BuildItems[i].object) \in Objects
    BY DEF ItemsInv
  <2>2. n_BuildItems[i].object \in 1..Len(n_resource)
        /\ n_resource[n_BuildItems[i].object].kind \in Objects
    BY <2>1 DEF KindIn, Objects
  <2> QED BY <2>2, FreshNames DEF MergeInv
<1>4. \A i, j \in DOMAIN n_BuildItems \ {1} :
        n_BuildItems[i].handle = n_BuildItems[j].handle => i = j
  BY DEF ItemsInv
<1> QED BY <1>1, <1>2, <1>3, <1>4, Zenon DEF MergedModelIsWellFormed, WhyMergesFail

(* InvCopies: and what MergeCopiesEveryTable needs.                        *)
LEMMA InvCopies == MergeInv => MergeCopiesEveryTable
<1> SUFFICES ASSUME MergeInv, Merged PROVE MergeCopiesEveryTable
  BY DEF MergeCopiesEveryTable
<1>1. /\ SourceInv /\ MergeTypeOK /\ CopiesInv /\ FreshModel(n_resource, n_Resources, n_lookup)
      /\ stage = 7
      /\ oldFaceID # 0 => faceID = oldToNew[oldFaceID] /\ faceID # 0
  BY DEF MergeInv, Merged
<1>2. \A i \in 1..6 : CopiesMade[i] = Len(lookup[Stages[i]])
  BY <1>1, AllCopied
<1>3. ASSUME NEW i \in 1..6
      PROVE  /\ Len(n_lookup[Stages[i]]) = Len(lookup[Stages[i]])
             /\ \A k \in DOMAIN lookup[Stages[i]] :
                  /\ oldToNew[lookup[Stages[i]][k]] = n_lookup[Stages[i]][k]
                  /\ ParentKind(Stages[i]) # {} =>
                       n_resource[n_lookup[Stages[i]][k]].parent =
                         oldToNew[resource[lookup[Stages[i]][k]].parent]
  <2>1. Len(n_lookup[Stages[i]]) = Len(lookup[Stages[i]])
    BY <1>1, <1>2 DEF CopiesInv, CopiesAre
  <2>2. DOMAIN lookup[Stages[i]] = 1..CopiesMade[i]
        /\ \A k \in 1..CopiesMade[i] : resource[lookup[Stages[i]][k]].kind = Stages[i]
    BY <1>1, <1>2, SourceTables
  <2>3. \A k \in 1..CopiesMade[i] :
          CopyIs(resource, lookup[Stages[i]][k], n_resource, n_lookup[Stages[i]][k], oldToNew)
    BY <1>1 DEF CopiesInv, CopiesAre
  <2> QED BY <2>1, <2>2, <2>3 DEF CopyIs
<1>4. ASSUME oldFaceID # 0
      PROVE  faceID \in Range(n_Resources) /\ n_resource[faceID].kind = resource[oldFaceID].kind
  <2>1. oldFaceID \in 1..MaxResources
    BY <1>1, <1>4, Bounds DEF MergeTypeOK
  <2>2. PICK i \in 1..6 : \E k \in 1..CopiesMade[i] : oldFaceID = lookup[Stages[i]][k]
    BY <1>1, <1>4, <2>1 DEF CopiesInv, CopiesAre
  <2>3. PICK k \in 1..CopiesMade[i] : oldFaceID = lookup[Stages[i]][k]
    BY <2>2
  <2>4. faceID \in 1..Len(n_resource) /\ n_resource[faceID].kind = Stages[i]
    <3>1. /\ oldToNew[lookup[Stages[i]][k]] \in 1..Len(n_resource)
          /\ n_resource[oldToNew[lookup[Stages[i]][k]]].kind = Stages[i]
      BY <1>1, <2>3, CopyFound, ZenonT(60)
    <3> QED BY <1>1, <1>4, <2>3, <3>1, Zenon
  <2>5. resource[oldFaceID].kind = Stages[i]
    BY <1>1, <1>2, <2>2, <2>3, SourceTables
  <2>6. Range(n_Resources) = 1..Len(n_resource)
    BY <1>1, FreshNames
  <2> QED BY <2>4, <2>5, <2>6
<1> QED BY <1>3, <1>4, StagesAre, ZenonT(60) DEF MergeCopiesEveryTable

-----------------------------------------------------------------------------
(* Theorems of MergeToModel. *)

(* MergeInvariant: the invariant holds of every merge (MergeToModel).      *)
THEOREM MergeInvariant == MergeSpec => []MergeInv
<1>1. MergeInit => MergeInv
  BY InitMerge
<1>2. MergeInv /\ [MergeNext]_allVars => MergeInv'
  BY NextMerge
<1> QED BY <1>1, <1>2, PTL DEF MergeSpec

(* MergedModelCorrect: at every step of a merge, and while a client uses   *)
(* its result, the new model keeps the promises of a model (the handle of  *)
(* the merged item aside), its generated IDs are free, and a merge* call   *)
(* throws only for what the source is.                                     *)
THEOREM MergedModelCorrect == MergeSpec => []MergedModelIsWellFormed
<1>1. MergeInit => ItemsInv
  <2> SUFFICES ASSUME MergeInit PROVE ItemsInv
    OBVIOUS
  <2>1. n_BuildItems = << >> /\ n_nHandleCounter = 1
    BY DEF MergeInit, New!Init
  <2>2. n_BuildItems \in Seq(BuildItemType) /\ DOMAIN n_BuildItems = {}
    BY <2>1
  <2> QED BY <2>1, <2>2 DEF ItemsInv
<1>2. MergeInv /\ ItemsInv /\ [MergeNext]_allVars => ItemsInv'
  BY NextItems
<1>3. MergeInv /\ ItemsInv => MergedModelIsWellFormed
  BY InvWellFormed
<1> QED BY <1>1, <1>2, <1>3, MergeInvariant, PTL DEF MergeSpec

(* MergeCopiesCorrect: after MergeToModel every property resource has one  *)
(* copy, in its order, that refers to copies, and the faces of the merged  *)
(* mesh refer to the copy of what they referred to.                        *)
THEOREM MergeCopiesCorrect == MergeSpec => []MergeCopiesEveryTable
<1>1. MergeInv => MergeCopiesEveryTable
  BY InvCopies
<1> QED BY <1>1, MergeInvariant, PTL
=============================================================================
