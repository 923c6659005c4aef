---------------------------- MODULE PackageProofs ----------------------------
(***************************************************************************)
(* Proofs about Package, for any paths, any number of parts, exports and   *)
(* failing copies, whatever a client does between two exports.             *)
(***************************************************************************)
EXTENDS Package, ListTheorems

-----------------------------------------------------------------------------
(* The inductive invariant.                                                *)

(* What addPart and addRelationship make.                                  *)
IsPackage(p) ==
  /\ p = [parts |-> p.parts, types |-> p.types, root |-> p.root, rels |-> p.rels]
  /\ IsList(p.parts)
  /\ IsFiniteSet(p.rels)

WholePart(p, name) == \E i \in DOMAIN p.parts : p.parts[i].name = name /\ p.parts[i].whole

(* A relationship leads to a part, and to a whole one if the writer        *)
(* generated its ID: those are added when the part has been copied.        *)
LeadsTo(p, r) == r.target \in Names(p) /\ (r.id[1] = "rel" => WholePart(p, r.target))
Linked(p) == \A r \in p.root \cup p.rels : LeadsTo(p, r)

(* The root model is the first part of the package.                        *)
HasRoot(p) ==
  1 \in DOMAIN p.parts /\ p.parts[1].name = RootName /\ p.parts[1].whole

HasThumbnail(p) == \E r \in p.root : r.type = "thumbnail" /\ r.target \in Names(p)

(* The package has the attachment a, with its relationship.                *)
HasCopy(p, type, name, value, whole) ==
  /\ \E r \in p.rels : r.type = type /\ r.target = name
  /\ [name |-> name, value |-> value, whole |-> whole] \in ToSet(p.parts)
Carries(p, a) == HasCopy(p, a.type, a.name, a.value, TRUE)

(* A package that a reader opens has all of the model.                     *)
Represents(p, attachments, hasThumbnail) ==
  p.types => /\ HasRoot(p)
             /\ hasThumbnail => HasThumbnail(p)
             /\ \A a \in attachments : Carries(p, a)

(* The attachments before the next one are in the package.                 *)
Attached ==
  \A i \in DOMAIN m_Attachments :
    (pc = "attachments" /\ i < next) \/ pc \in {"streams", "layers"} => Carries(package, m_Attachments[i])


(* The export, while writePackageToStream runs.                            *)
ExportInv ==
  /\ IsList(m_Attachments)
  /\ IsPackage(package) /\ Linked(package)
  /\ pc = "root" => package = NoPackage
  /\ pc = "attachments" => next \in Nat
  /\ pc \in {"thumbnail", "slices", "attachments", "streams", "layers"} => HasRoot(package)
  /\ (pc \in {"slices", "attachments", "streams", "layers"} /\ thumbnail) => HasThumbnail(package)
  /\ Attached
  /\ package.types => pc \in {"streams", "layers"}

(* What an export left.                                                    *)
ArchiveInv ==
  /\ IsPackage(archive) /\ Linked(archive)
  /\ Represents(archive, source.attachments, source.thumbnail)

PackageInv == ExportInv /\ ArchiveInv

-----------------------------------------------------------------------------
(* Packages.                                                               *)

(* The package q has what p has, at the same places.                       *)
Grows(p, q) ==
  /\ \A i \in DOMAIN p.parts : i \in DOMAIN q.parts /\ q.parts[i] = p.parts[i]
  /\ p.root \subseteq q.root
  /\ p.rels \subseteq q.rels

(* EmptyPackage: the package an export starts with.                        *)
LEMMA EmptyPackage ==
  /\ IsPackage(NoPackage) /\ Linked(NoPackage)
  /\ NoPackage.types = FALSE /\ NoPackage.parts = << >>
<1>1. IsList(<< >>)
  <2>1. << >> \in Seq({})
    OBVIOUS
  <2> QED BY <2>1, SeqIsList, Zenon
<1>2. IsFiniteSet({})
  BY FS_EmptySet
<1>3. IsPackage(NoPackage)
  BY <1>1, <1>2 DEF IsPackage, NoPackage
<1>4. Linked(NoPackage)
  BY DEF Linked, NoPackage
<1>5. NoPackage.types = FALSE /\ NoPackage.parts = << >>
  BY Zenon DEF NoPackage
<1> QED BY <1>3, <1>4, <1>5, Zenon

(* GrowsKeeps: what is found in a package is found in a grown one.         *)
LEMMA GrowsKeeps ==
  ASSUME NEW p, NEW q, Grows(p, q)
  PROVE  /\ \A r : LeadsTo(p, r) => LeadsTo(q, r)
         /\ HasRoot(p) => HasRoot(q)
         /\ HasThumbnail(p) => HasThumbnail(q)
         /\ \A a : Carries(p, a) => Carries(q, a)
<1>1. /\ \A i \in DOMAIN p.parts : i \in DOMAIN q.parts /\ q.parts[i] = p.parts[i]
      /\ p.root \subseteq q.root
      /\ p.rels \subseteq q.rels
  BY DEF Grows
<1>2. Names(p) \subseteq Names(q)
  BY <1>1 DEF Names
<1>3. ASSUME NEW name, WholePart(p, name) PROVE WholePart(q, name)
  <2>1. PICK i \in DOMAIN p.parts : p.parts[i].name = name /\ p.parts[i].whole
    BY <1>3 DEF WholePart
  <2>2. i \in DOMAIN q.parts /\ q.parts[i] = p.parts[i]
    BY <1>1
  <2> QED BY <2>1, <2>2, Zenon DEF WholePart
<1>4. ToSet(p.parts) \subseteq ToSet(q.parts)
  BY <1>1 DEF ToSet
<1>5. \A r : LeadsTo(p, r) => LeadsTo(q, r)
  BY <1>2, <1>3, Zenon DEF LeadsTo
<1>6. HasRoot(p) => HasRoot(q)
  BY <1>1, Zenon DEF HasRoot
<1>7. HasThumbnail(p) => HasThumbnail(q)
  BY <1>1, <1>2, Zenon DEF HasThumbnail
<1>8. \A a : Carries(p, a) => Carries(q, a)
  BY <1>1, <1>4, Zenon DEF Carries, HasCopy
<1> QED BY <1>5, <1>6, <1>7, <1>8

(* PartAdded: addPart puts a part behind the others.                       *)
LEMMA PartAdded ==
  ASSUME NEW p, IsPackage(p), NEW name, NEW value, NEW whole,
         NEW q, q = addPart(p, name, value, whole)
  PROVE  /\ IsPackage(q) /\ Grows(p, q)
         /\ q.types = p.types /\ q.root = p.root /\ q.rels = p.rels
         /\ \E i \in DOMAIN q.parts : q.parts[i] = [name |-> name, value |-> value, whole |-> whole]
         /\ p.parts = << >> => /\ 1 \in DOMAIN q.parts
                               /\ q.parts[1] = [name |-> name, value |-> value, whole |-> whole]
<1> DEFINE e == [name |-> name, value |-> value, whole |-> whole]
           s == p.parts
           t == Append(s, e)
<1>1. p = [parts |-> s, types |-> p.types, root |-> p.root, rels |-> p.rels] /\ IsList(s) /\ IsFiniteSet(p.rels)
  BY DEF IsPackage
<1>2. q = [p EXCEPT !.parts = t]
  BY DEF addPart
<1>3. /\ IsList(t) /\ Len(s) \in Nat /\ Len(t) = Len(s) + 1
      /\ DOMAIN s = 1..Len(s) /\ DOMAIN t = 1..(Len(s) + 1)
      /\ \A i \in 1..Len(s) : t[i] = s[i]
      /\ t[Len(s) + 1] = e
  <2> HIDE DEF e, s
  <2> QED BY <1>1, ListAppend
<1> HIDE DEF e, t
<1>4. /\ q = [parts |-> t, types |-> p.types, root |-> p.root, rels |-> p.rels]
      /\ q.parts = t /\ q.types = p.types /\ q.root = p.root /\ q.rels = p.rels
  <2> HIDE DEF s
  <2> QED BY <1>1, <1>2
<1>5. IsPackage(q)
  BY <1>1, <1>3, <1>4, Zenon DEF IsPackage
<1>6. Grows(p, q)
  BY <1>3, <1>4 DEF Grows
<1>7. Len(s) + 1 \in DOMAIN t
  BY <1>3
<1>8. s = << >> => 1 \in DOMAIN t /\ t[1] = e
  <2> SUFFICES ASSUME s = << >> PROVE 1 \in DOMAIN t /\ t[1] = e
    OBVIOUS
  <2>1. Len(s) = 0
    OBVIOUS
  <2> QED BY <1>3, <2>1
<1> QED BY <1>3, <1>4, <1>5, <1>6, <1>7, <1>8, Zenon DEF e

(* RelationAdded: the two functions that add a relationship.               *)
LEMMA RelationAdded ==
  ASSUME NEW p, IsPackage(p), NEW id, NEW type, NEW name
  PROVE  LET r == [id |-> id, type |-> type, target |-> name]
             q == addRelationship(p, id, type, name)
             t == addRootRelationship(p, id, type, name)
         IN  /\ IsPackage(q) /\ Grows(p, q)
             /\ q.types = p.types /\ q.parts = p.parts /\ q.root = p.root /\ q.rels = p.rels \cup {r}
             /\ IsPackage(t) /\ Grows(p, t)
             /\ t.types = p.types /\ t.parts = p.parts /\ t.root = p.root \cup {r} /\ t.rels = p.rels
<1> DEFINE r == [id |-> id, type |-> type, target |-> name]
           q == addRelationship(p, id, type, name)
           t == addRootRelationship(p, id, type, name)
<1>1. /\ p = [parts |-> p.parts, types |-> p.types, root |-> p.root, rels |-> p.rels]
      /\ IsList(p.parts) /\ IsFiniteSet(p.rels)
  BY DEF IsPackage
<1>2. q = [p EXCEPT !.rels = @ \cup {r}] /\ t = [p EXCEPT !.root = @ \cup {r}]
  BY DEF addRelationship, addRootRelationship
<1> HIDE DEF r, q, t
<1>3. /\ q = [parts |-> p.parts, types |-> p.types, root |-> p.root, rels |-> p.rels \cup {r}]
      /\ q.types = p.types /\ q.parts = p.parts /\ q.root = p.root /\ q.rels = p.rels \cup {r}
  BY <1>1, <1>2
<1>4. /\ t = [parts |-> p.parts, types |-> p.types, root |-> p.root \cup {r}, rels |-> p.rels]
      /\ t.types = p.types /\ t.parts = p.parts /\ t.root = p.root \cup {r} /\ t.rels = p.rels
  BY <1>1, <1>2
<1>5. IsFiniteSet(p.rels \cup {r})
  BY <1>1, FS_AddElement
<1>6. IsPackage(q) /\ IsPackage(t)
  BY <1>1, <1>3, <1>4, <1>5, Zenon DEF IsPackage
<1>7. Grows(p, q) /\ Grows(p, t)
  BY <1>3, <1>4 DEF Grows
<1> QED BY <1>3, <1>4, <1>6, <1>7, Zenon DEF r, q, t

(* GrowsLinked: a grown package is linked if its new relationships are.    *)
LEMMA GrowsLinked ==
  ASSUME NEW p, NEW q, Grows(p, q), Linked(p),
         \A r \in q.root \cup q.rels : r \in p.root \cup p.rels \/ LeadsTo(q, r)
  PROVE  Linked(q)
<1>1. \A r : LeadsTo(p, r) => LeadsTo(q, r)
  BY GrowsKeeps
<1> QED BY <1>1, Zenon DEF Linked

(* PartWritten: a part without a relationship, which an exception leaves.  *)
LEMMA PartWritten ==
  ASSUME NEW p, IsPackage(p), Linked(p), NEW name, NEW value, NEW whole,
         NEW q, q = addPart(p, name, value, whole)
  PROVE  IsPackage(q) /\ Linked(q) /\ Grows(p, q) /\ q.types = p.types
<1>1. IsPackage(q) /\ Grows(p, q) /\ q.types = p.types /\ q.root = p.root /\ q.rels = p.rels
  <2>1. LET e == [name |-> name, value |-> value, whole |-> whole]
        IN  /\ IsPackage(q) /\ Grows(p, q)
            /\ q.types = p.types /\ q.root = p.root /\ q.rels = p.rels
            /\ \E i \in DOMAIN q.parts : q.parts[i] = e
    BY PartAdded
  <2> QED BY <2>1
<1>2. \A r \in q.root \cup q.rels : r \in p.root \cup p.rels
  BY <1>1
<1>3. Linked(q)
  BY <1>1, <1>2, GrowsLinked, Zenon
<1> QED BY <1>1, <1>3, Zenon

(* PartRelated: a part and its relationship.                               *)
LEMMA PartRelated ==
  ASSUME NEW p, IsPackage(p), Linked(p), NEW name, NEW value, NEW whole, NEW id, NEW type,
         id[1] = "rel" => whole,
         NEW q, NEW u, u = addPart(p, name, value, whole),
         q = addRelationship(u, id, type, name) \/ q = addRootRelationship(u, id, type, name)
  PROVE  /\ IsPackage(q) /\ Linked(q) /\ Grows(p, q) /\ q.types = p.types /\ q.parts = u.parts
         /\ name \in Names(q)
<1> DEFINE r == [id |-> id, type |-> type, target |-> name]
           e == [name |-> name, value |-> value, whole |-> whole]
<1>1. /\ IsPackage(u) /\ Grows(p, u)
      /\ u.types = p.types /\ u.root = p.root /\ u.rels = p.rels
      /\ \E i \in DOMAIN u.parts : u.parts[i] = e
  BY PartAdded
<1>2. /\ IsPackage(q) /\ Grows(u, q) /\ q.types = u.types /\ q.parts = u.parts
      /\ \/ q.root = u.root /\ q.rels = u.rels \cup {r}
         \/ q.root = u.root \cup {r} /\ q.rels = u.rels
  BY <1>1, RelationAdded
<1>3. r.id = id /\ r.target = name /\ e.name = name /\ e.whole = whole
  OBVIOUS
<1> HIDE DEF r, e
<1>4. Grows(p, q)
  BY <1>1, <1>2 DEF Grows
<1>5. PICK i \in DOMAIN q.parts : q.parts[i] = e
  BY <1>1, <1>2
<1>6. name \in Names(q)
  BY <1>3, <1>5 DEF Names
<1>7. whole => WholePart(q, name)
  BY <1>3, <1>5, Zenon DEF WholePart
<1>8. LeadsTo(q, r)
  BY <1>3, <1>6, <1>7, Zenon DEF LeadsTo
<1>9. \A x \in q.root \cup q.rels : x \in p.root \cup p.rels \/ LeadsTo(q, x)
  BY <1>1, <1>2, <1>8
<1>10. Linked(q)
  BY <1>4, <1>9, GrowsLinked
<1> QED BY <1>1, <1>2, <1>4, <1>6, <1>10

(* AttachmentCopied: an attachment and its relationship.                   *)
LEMMA AttachmentCopied ==
  ASSUME NEW p, IsPackage(p), Linked(p), NEW type, NEW name, NEW value, NEW id,
         NEW whole, id[1] = "rel" => whole,
         NEW u, u = addPart(p, name, value, whole),
         NEW q, q = addRelationship(u, id, type, name)
  PROVE  IsPackage(q) /\ Linked(q) /\ Grows(p, q) /\ q.types = p.types /\ HasCopy(q, type, name, value, whole)
<1> DEFINE r == [id |-> id, type |-> type, target |-> name]
           e == [name |-> name, value |-> value, whole |-> whole]
<1>1. IsPackage(q) /\ Linked(q) /\ Grows(p, q) /\ q.types = p.types
  BY PartRelated
<1>2. IsPackage(u) /\ \E i \in DOMAIN u.parts : u.parts[i] = e
  BY PartAdded
<1>3. q.parts = u.parts /\ q.rels = u.rels \cup {r}
  BY <1>2, RelationAdded
<1>4. r.type = type /\ r.target = name
  OBVIOUS
<1> HIDE DEF r, e
<1>5. e \in ToSet(q.parts)
  BY <1>2, <1>3 DEF ToSet
<1>6. \E x \in q.rels : x.type = type /\ x.target = name
  BY <1>3, <1>4
<1>7. HasCopy(q, type, name, value, whole)
  BY <1>5, <1>6, Zenon DEF HasCopy, e
<1> QED BY <1>1, <1>7

(* TypesAdded: the content types change nothing else.                      *)
LEMMA TypesAdded ==
  ASSUME NEW p, IsPackage(p), Linked(p), NEW q, q = [p EXCEPT !.types = TRUE]
  PROVE  IsPackage(q) /\ Linked(q) /\ Grows(p, q)
<1>1. /\ p = [parts |-> p.parts, types |-> p.types, root |-> p.root, rels |-> p.rels]
      /\ IsList(p.parts) /\ IsFiniteSet(p.rels)
  BY DEF IsPackage
<1>2. /\ q = [parts |-> p.parts, types |-> TRUE, root |-> p.root, rels |-> p.rels]
      /\ q.parts = p.parts /\ q.root = p.root /\ q.rels = p.rels /\ q.types = TRUE
  BY <1>1
<1>3. IsPackage(q)
  BY <1>1, <1>2, Zenon DEF IsPackage
<1>4. Grows(p, q)
  BY <1>2 DEF Grows
<1>5. Linked(q)
  <2>1. \A r \in q.root \cup q.rels : r \in p.root \cup p.rels
    BY <1>2
  <2> QED BY <1>4, <2>1, GrowsLinked, Zenon
<1> QED BY <1>3, <1>4, <1>5

(* GrowsSame: a package that stays as it is.                               *)
LEMMA GrowsSame ==
  ASSUME NEW p
  PROVE  Grows(p, p)
BY DEF Grows

(* RootIsFirst: the reader finds the root model that was written first.    *)
LEMMA RootIsFirst ==
  ASSUME NEW p, IsPackage(p), HasRoot(p)
  PROVE  Entry(p, RootName).whole
<1> DEFINE P(i) == /\ p.parts[i].name = RootName
                   /\ \A j \in 1..i - 1 : p.parts[j].name # RootName
           k == CHOOSE i \in DOMAIN p.parts : P(i)
<1>1. DOMAIN p.parts = 1..Len(p.parts) /\ Len(p.parts) \in Nat
  BY ListFacts DEF IsPackage
<1>2. 1 \in DOMAIN p.parts /\ p.parts[1].name = RootName /\ p.parts[1].whole
  BY Zenon DEF HasRoot
<1>3. P(1)
  BY <1>2
<1>4. k \in DOMAIN p.parts /\ P(k)
  <2> HIDE DEF P
  <2> QED BY <1>2, <1>3, Zenon
<1>5. Entry(p, RootName) = p.parts[k]
  BY DEF Entry
<1> HIDE DEF k
<1>6. k = 1
  <2>1. CASE k > 1
    <3>1. 1 \in 1..k - 1
      BY <1>1, <1>4, <2>1
    <3> QED BY <1>2, <1>4, <3>1
  <2> QED BY <1>1, <1>4, <2>1
<1> QED BY <1>2, <1>5, <1>6, Zenon

(* ReadAttachmentsFinite: a package gives a model finitely many attachments.*)
LEMMA ReadAttachmentsFinite ==
  ASSUME NEW p, IsPackage(p), NEW types
  PROVE  IsFiniteSet(ReadAttachments(p, types))
<1> DEFINE S == {q \in p.rels : q.type \in types}
           f == [r \in S |-> [name |-> r.target, type |-> r.type, value |-> Entry(p, r.target).value]]
           T == ReadAttachments(p, types)
<1>1. IsFiniteSet(S)
  BY FS_Subset DEF IsPackage
<1>2. T = {f[r] : r \in S}
  BY DEF ReadAttachments
<1>3. f = [r \in S |-> f[r]]
  OBVIOUS
<1> HIDE DEF f, S, T
<1>4. f \in Surjection(S, T)
  BY <1>2, <1>3 DEF Surjection
<1> QED BY <1>1, <1>4, FS_Surjection DEF T

-----------------------------------------------------------------------------
(* The steps.                                                              *)

(* ArchiveStays: what the last export left, if nothing touches it.         *)
LEMMA ArchiveStays ==
  ASSUME ArchiveInv, UNCHANGED <<archive, source>>
  PROVE  ArchiveInv'
<1>1. archive' = archive /\ source' = source
  OBVIOUS
<1>2. IsPackage(archive') /\ Linked(archive') /\ Represents(archive', source'.attachments, source'.thumbnail)
  BY <1>1, Zenon DEF ArchiveInv
<1> QED BY <1>2, Zenon DEF ArchiveInv

(* ArchiveGone: the client goes on, or an export wrote nothing.            *)
LEMMA ArchiveGone ==
  ASSUME archive' = NoPackage
  PROVE  ArchiveInv'
<1>1. IsPackage(archive') /\ Linked(archive') /\ archive'.types = FALSE
  BY EmptyPackage, Zenon
<1>2. Represents(archive', source'.attachments, source'.thumbnail)
  BY <1>1, Zenon DEF Represents
<1> QED BY <1>1, <1>2, Zenon DEF ArchiveInv

(* Represented: what has grown out of the package is the whole model if a  *)
(* reader opens it.                                                        *)
LEMMA Represented ==
  ASSUME ExportInv, NEW q, Grows(package, q), q.types = package.types
  PROVE  Represents(q, ToSet(m_Attachments), thumbnail)
<1> SUFFICES ASSUME q.types
             PROVE  /\ HasRoot(q)
                    /\ thumbnail => HasThumbnail(q)
                    /\ \A a \in ToSet(m_Attachments) : Carries(q, a)
  BY Zenon DEF Represents
<1>1. pc \in {"streams", "layers"}
  BY Zenon DEF ExportInv
<1>2. pc \in {"thumbnail", "slices", "attachments", "streams", "layers"}
  BY <1>1
<1>3. pc \in {"slices", "attachments", "streams", "layers"}
  BY <1>1
<1>4. HasRoot(package)
  BY <1>2, Zenon DEF ExportInv
<1>5. thumbnail => HasThumbnail(package)
  BY <1>3, Zenon DEF ExportInv
<1>6. \A i \in DOMAIN m_Attachments : Carries(package, m_Attachments[i])
  BY <1>1, Zenon DEF ExportInv, Attached
<1>7. ASSUME NEW a \in ToSet(m_Attachments) PROVE Carries(package, a)
  BY <1>6 DEF ToSet
<1> QED BY <1>4, <1>5, <1>7, GrowsKeeps, Zenon

(* Leaves: writePackageToStream is left, and the archive is what has grown *)
(* out of the package.                                                     *)
LEMMA Leaves ==
  ASSUME ExportInv, UNCHANGED m_Attachments, NEW q, NEW to \in {"idle", "cleanup"}, NEW result,
         Leave(q, to, result),
         IsPackage(q), Linked(q), Grows(package, q), q.types = package.types
  PROVE  PackageInv'
<1>1. /\ archive' = q /\ package' = NoPackage /\ pc' = to
      /\ source' = [attachments |-> ToSet(m_Attachments), thumbnail |-> thumbnail,
                    stacks |-> m_sOwnPath, refused |-> refused,
                    streams |-> ToSet(streams), layers |-> m_AdditionalAttachments]
  BY Zenon DEF Leave
<1>2. source'.attachments = ToSet(m_Attachments) /\ source'.thumbnail = thumbnail
  BY <1>1
<1>3. Represents(q, ToSet(m_Attachments), thumbnail)
  BY Represented, Zenon
<1>4. Represents(archive', source'.attachments, source'.thumbnail)
  BY <1>1, <1>2, <1>3, Zenon
<1>5. ArchiveInv'
  BY <1>1, <1>4, Zenon DEF ArchiveInv
<1>6. pc' \notin {"root", "thumbnail", "slices", "attachments", "streams", "layers"}
  BY <1>1
<1>7. IsPackage(package') /\ Linked(package') /\ package'.types = FALSE
  BY <1>1, EmptyPackage, Zenon
<1>8. Attached'
  BY <1>6 DEF Attached
<1>9. IsList(m_Attachments')
  BY Zenon DEF ExportInv
<1>10. ExportInv'
  BY <1>6, <1>7, <1>8, <1>9 DEF ExportInv
<1> QED BY <1>5, <1>10 DEF PackageInv

(* PartialLeaves: an exception leaves a part behind that is not whole.     *)
LEMMA PartialLeaves ==
  ASSUME ExportInv, UNCHANGED m_Attachments, NEW name, NEW result,
         Leave(addPart(package, name, <<"partial">>, FALSE), "idle", result)
  PROVE  PackageInv'
<1> DEFINE whole == FALSE
           q == addPart(package, name, <<"partial">>, whole)
<1>1. q = addPart(package, name, <<"partial">>, whole)
  OBVIOUS
<1>2. Leave(q, "idle", result)
  OBVIOUS
<1> HIDE DEF whole, q
<1>3. IsPackage(package) /\ Linked(package)
  BY Zenon DEF ExportInv
<1>4. IsPackage(q) /\ Linked(q) /\ Grows(package, q) /\ q.types = package.types
  BY ONLY <1>1, <1>3, PartWritten
<1> QED BY <1>2, <1>4, Leaves

(* Continues: the export goes on, with a package that has grown.           *)
LEMMA Continues ==
  ASSUME PackageInv, NEW to, NEW index, Goto(to, index), UNCHANGED thumbnail,
         IsList(m_Attachments'),
         IsPackage(package'), Linked(package'), Grows(package, package'),
         to # "root",
         to = "attachments" => index \in Nat,
         HasRoot(package'),
         (to \in {"slices", "attachments", "streams", "layers"} /\ thumbnail) => HasThumbnail(package'),
         \A k \in DOMAIN m_Attachments' :
           (to = "attachments" /\ k < index) \/ to \in {"streams", "layers"} => Carries(package', m_Attachments'[k]),
         package'.types => to \in {"streams", "layers"}
  PROVE  PackageInv'
<1>1. pc' = to /\ next' = index /\ archive' = archive /\ source' = source
  BY DEF Goto
<1>2. ArchiveInv'
  <2>1. ArchiveInv /\ UNCHANGED <<archive, source>>
    BY <1>1, Zenon DEF PackageInv
  <2> QED BY <2>1, ArchiveStays, Zenon
<1>3. Attached'
  BY <1>1, Zenon DEF Attached
<1>4. /\ pc' # "root"
      /\ pc' = "attachments" => next' \in Nat
      /\ (pc' \in {"slices", "attachments", "streams", "layers"} /\ thumbnail') => HasThumbnail(package')
      /\ package'.types => pc' \in {"streams", "layers"}
  BY <1>1, Zenon
<1>5. ExportInv'
  BY <1>3, <1>4, Zenon DEF ExportInv
<1> QED BY <1>2, <1>5, Zenon DEF PackageInv

(* LoopContinues: so do the loops behind the content types, which find     *)
(* everything else in the package.                                         *)
LEMMA LoopContinues ==
  ASSUME PackageInv, NEW to \in {"streams", "layers"}, NEW index, Goto(to, index),
         pc \in {"streams", "layers"}, UNCHANGED <<m_Attachments, thumbnail>>,
         IsPackage(package'), Linked(package'), Grows(package, package')
  PROVE  PackageInv'
<1>1. IsList(m_Attachments) /\ Attached
  BY Zenon DEF PackageInv, ExportInv
<1>2. HasRoot(package) /\ (thumbnail => HasThumbnail(package))
  <2>1. /\ pc \in {"thumbnail", "slices", "attachments", "streams", "layers"}
        /\ pc \in {"slices", "attachments", "streams", "layers"}
    OBVIOUS
  <2> QED BY <2>1, Zenon DEF PackageInv, ExportInv
<1>3. HasRoot(package') /\ (thumbnail => HasThumbnail(package'))
  BY <1>2, GrowsKeeps, Zenon
<1>4. \A k \in DOMAIN m_Attachments' : Carries(package', m_Attachments'[k])
  <2>1. \A k \in DOMAIN m_Attachments : Carries(package, m_Attachments[k])
    BY <1>1, Zenon DEF Attached
  <2>2. m_Attachments' = m_Attachments
    OBVIOUS
  <2> QED BY <2>1, <2>2, GrowsKeeps, Zenon
<1>5. to # "root" /\ to # "attachments"
  OBVIOUS
<1>6. UNCHANGED thumbnail /\ IsList(m_Attachments')
  BY <1>1, Zenon
<1> QED BY <1>3, <1>4, <1>5, <1>6, Continues, Zenon

(* ClientKeeps: what clients do between two exports.                       *)
LEMMA ClientKeeps ==
  ASSUME PackageInv, ClientStep, IsList(m_Attachments')
  PROVE  PackageInv'
<1>1. pc = "idle" /\ pc' = "idle" /\ archive' = NoPackage /\ package' = package
  BY DEF ClientStep
<1>2. ArchiveInv'
  BY <1>1, ArchiveGone
<1>3. /\ IsPackage(package) /\ Linked(package)
      /\ package.types => pc \in {"streams", "layers"}
  BY Zenon DEF PackageInv, ExportInv
<1>4. IsPackage(package') /\ Linked(package') /\ ~package'.types
  BY <1>1, <1>3
<1>5. Attached'
  BY <1>1 DEF Attached
<1>6. ExportInv'
  BY <1>1, <1>4, <1>5 DEF ExportInv
<1> QED BY <1>2, <1>6 DEF PackageInv

(* ClientNextKeeps: the actions of the client.                             *)
LEMMA ClientNextKeeps ==
  ASSUME PackageInv, ClientNext
  PROVE  PackageInv'
<1>0. IsList(m_Attachments)
  BY Zenon DEF PackageInv, ExportInv
<1>1. ASSUME NEW name \in PartNames, NEW type \in ClientTypes, AddAttachment(name, type)
      PROVE  PackageInv'
  <2>1. ClientStep /\ \E e : m_Attachments' = Append(m_Attachments, e)
    BY <1>1, Zenon DEF AddAttachment
  <2>2. IsList(m_Attachments')
    BY <1>0, <2>1, ListAppend
  <2> QED BY <2>1, <2>2, ClientKeeps, Zenon
<1>2. CASE ClientStep /\ UNCHANGED m_Attachments
  BY <1>0, <1>2, ClientKeeps, Zenon
<1>3. \/ \E name \in PartNames, type \in ClientTypes : AddAttachment(name, type)
      \/ ClientStep /\ UNCHANGED m_Attachments
  BY DEF ClientNext, CreatePackageThumbnailAttachment, AddSliceStack, CreateBinaryStream, FinishLayer,
         SetOwnPath, SetContent, AssignBinaryStream, AddArray, modelVars
<1> QED BY <1>1, <1>2, <1>3

(* ReadKeeps: the attachments of a model that was read are a list again.   *)
LEMMA ReadKeeps ==
  ASSUME PackageInv, NEW types, Read(types)
  PROVE  PackageInv'
<1>1. /\ pc = "idle" /\ pc' = pc /\ archive' = NoPackage /\ package' = package
      /\ m_Attachments' = SetToSeq(ReadAttachments(archive, {"texture"})) \o SetToSeq(ReadAttachments(archive, types))
  BY DEF Read
<1>2. ArchiveInv'
  BY <1>1, ArchiveGone
<1>3. IsList(m_Attachments')
  <2>1. IsPackage(archive)
    BY Zenon DEF PackageInv, ArchiveInv
  <2>2. IsFiniteSet(ReadAttachments(archive, {"texture"})) /\ IsFiniteSet(ReadAttachments(archive, types))
    BY <2>1, ReadAttachmentsFinite
  <2>3. IsList(SetToSeq(ReadAttachments(archive, {"texture"}))) /\ IsList(SetToSeq(ReadAttachments(archive, types)))
    BY <2>2, SetInSomeOrder, Zenon
  <2> QED BY <1>1, <2>3, ListConcat
<1>4. /\ IsPackage(package) /\ Linked(package)
      /\ package.types => pc \in {"streams", "layers"}
  BY Zenon DEF PackageInv, ExportInv
<1>5. IsPackage(package') /\ Linked(package') /\ ~package'.types
  BY <1>1, <1>4
<1>6. Attached'
  BY <1>1 DEF Attached
<1>7. ExportInv'
  BY <1>1, <1>3, <1>5, <1>6 DEF ExportInv
<1> QED BY <1>2, <1>7 DEF PackageInv

(* Unfinished: what holds of the package in every step of the export.      *)
LEMMA Unfinished ==
  ASSUME PackageInv
  PROVE  /\ ExportInv /\ IsList(m_Attachments) /\ IsPackage(package) /\ Linked(package)
         /\ package.types => pc \in {"streams", "layers"}
         /\ pc \in {"thumbnail", "slices", "attachments"} => HasRoot(package)
         /\ (pc \in {"slices", "attachments"} /\ thumbnail) => HasThumbnail(package)
<1>1. /\ pc \in {"thumbnail", "slices", "attachments"}
           => pc \in {"thumbnail", "slices", "attachments", "streams", "layers"}
      /\ pc \in {"slices", "attachments"} => pc \in {"slices", "attachments", "streams", "layers"}
  OBVIOUS
<1> QED BY <1>1, Zenon DEF PackageInv, ExportInv

(* StartKeeps: an export starts, or is aborted before there is a package.  *)
LEMMA StartKeeps ==
  ASSUME PackageInv, Start \/ AbortBeforePackage
  PROVE  PackageInv'
<1>0. IsList(m_Attachments) /\ IsPackage(package) /\ Linked(package) /\ (package.types => pc \in {"streams", "layers"})
  BY Unfinished
<1>1. CASE Start
  <2>1. pc' = "root" /\ package' = NoPackage /\ m_Attachments' = m_Attachments /\ UNCHANGED <<archive, source>>
    BY <1>1 DEF Start, modelVars
  <2>2. ArchiveInv'
    BY <2>1, ArchiveStays, Zenon DEF PackageInv
  <2>3. IsPackage(package') /\ Linked(package') /\ ~package'.types
    BY <2>1, EmptyPackage
  <2>4. Attached'
    BY <2>1 DEF Attached
  <2>5. ExportInv'
    BY <1>0, <2>1, <2>3, <2>4 DEF ExportInv
  <2> QED BY <2>2, <2>5 DEF PackageInv
<1>2. CASE AbortBeforePackage
  <2>1. pc = "idle" /\ pc' = pc /\ package' = package /\ m_Attachments' = m_Attachments /\ archive' = NoPackage
    BY <1>2 DEF AbortBeforePackage, modelVars
  <2>2. ArchiveInv'
    BY <2>1, ArchiveGone
  <2>3. IsPackage(package') /\ Linked(package') /\ ~package'.types
    BY <1>0, <2>1
  <2>4. Attached'
    BY <2>1 DEF Attached
  <2>5. ExportInv'
    BY <1>0, <2>1, <2>3, <2>4 DEF ExportInv
  <2> QED BY <2>2, <2>5 DEF PackageInv
<1> QED BY <1>1, <1>2

(* RootKeeps: the part of the root model.                                  *)
LEMMA RootKeeps ==
  ASSUME PackageInv, writeModelStream
  PROVE  PackageInv'
<1> DEFINE u == addPart(package, RootName, RootValue, TRUE)
           e == [name |-> RootName, value |-> RootValue, whole |-> TRUE]
<1>1. /\ pc = "root" /\ package' = addRootRelationship(u, generateRelationShipID, "model", RootName)
      /\ Goto("thumbnail", 0) /\ UNCHANGED <<m_Attachments, thumbnail>>
  BY DEF writeModelStream, modelVars
<1>2. package = NoPackage
  BY <1>1, Zenon DEF PackageInv, ExportInv
<1>3. IsPackage(package) /\ Linked(package) /\ IsList(m_Attachments) /\ package.types = FALSE /\ package.parts = << >>
  BY <1>2, EmptyPackage, Unfinished, Zenon
<1> DEFINE whole == TRUE
<1>4. whole /\ whole = TRUE
  OBVIOUS
<1> HIDE DEF whole
<1>5. u = addPart(package, RootName, RootValue, whole)
  BY <1>4, Zenon
<1> HIDE DEF u
<1>6. /\ IsPackage(package') /\ Linked(package') /\ Grows(package, package')
      /\ package'.types = package.types /\ package'.parts = u.parts
  <2>1. generateRelationShipID[1] = "rel" => whole
    BY <1>4, Zenon
  <2> QED BY ONLY <1>1, <1>3, <1>5, <2>1, PartRelated
<1>7. 1 \in DOMAIN u.parts /\ u.parts[1] = [name |-> RootName, value |-> RootValue, whole |-> whole]
  BY ONLY <1>3, <1>5, PartAdded
<1>8. HasRoot(package')
  <2> DEFINE f == [name |-> RootName, value |-> RootValue, whole |-> whole]
  <2>1. f.name = RootName /\ f.whole = whole
    OBVIOUS
  <2> HIDE DEF f
  <2>2. 1 \in DOMAIN u.parts /\ u.parts[1] = f
    BY <1>7, Zenon DEF f
  <2> QED BY <1>4, <1>6, <2>1, <2>2, Zenon DEF HasRoot
<1>9. IsList(m_Attachments') /\ UNCHANGED thumbnail
  BY <1>1, <1>3, Zenon
<1>10. /\ "thumbnail" \notin {"slices", "attachments", "streams", "layers"}
       /\ "thumbnail" # "attachments" /\ "thumbnail" \notin {"streams", "layers"} /\ "thumbnail" # "root"
  OBVIOUS
<1>11. ~package'.types
  BY <1>3, <1>6, Zenon
<1> QED BY <1>1, <1>6, <1>8, <1>9, <1>10, <1>11, Continues, Zenon

(* ThumbnailKeeps: the part of the package thumbnail.                      *)
LEMMA ThumbnailKeeps ==
  ASSUME PackageInv, WriteThumbnail
  PROVE  PackageInv'
<1>1. pc = "thumbnail" /\ Goto("slices", 1) /\ UNCHANGED <<m_Attachments, thumbnail>>
  BY DEF WriteThumbnail, modelVars
<1>2. /\ IsPackage(package) /\ Linked(package) /\ IsList(m_Attachments)
      /\ HasRoot(package) /\ ~package.types
  <2>1. pc \in {"thumbnail", "slices", "attachments"} /\ pc \notin {"streams", "layers"}
    BY <1>1
  <2> QED BY <2>1, Unfinished, Zenon
<1>3. /\ IsPackage(package') /\ Linked(package') /\ Grows(package, package') /\ package'.types = package.types
      /\ thumbnail => HasThumbnail(package')
  <2>1. CASE thumbnail
    <3> DEFINE u == addPart(package, ThumbnailName, <<"thumbnail">>, TRUE)
               whole == TRUE
               id == generateRelationShipID
               r == [id |-> id, type |-> "thumbnail", target |-> ThumbnailName]
    <3>1. package' = addRootRelationship(u, id, "thumbnail", ThumbnailName)
      BY <2>1 DEF WriteThumbnail
    <3>0. whole /\ whole = TRUE
      OBVIOUS
    <3> HIDE DEF whole
    <3>2. (id[1] = "rel" => whole) /\ u = addPart(package, ThumbnailName, <<"thumbnail">>, whole)
      BY <3>0, Zenon
    <3>3. r.type = "thumbnail" /\ r.target = ThumbnailName
      OBVIOUS
    <3> HIDE DEF u, id
    <3>4. /\ IsPackage(package') /\ Linked(package') /\ Grows(package, package')
          /\ package'.types = package.types /\ ThumbnailName \in Names(package')
      BY ONLY <1>2, <3>1, <3>2, PartRelated
    <3>5. IsPackage(u)
      BY ONLY <1>2, <3>2, PartAdded
    <3>6. r \in package'.root
      BY <3>1, <3>5, RelationAdded
    <3> HIDE DEF r
    <3>7. HasThumbnail(package')
      BY <3>3, <3>4, <3>6, Zenon DEF HasThumbnail
    <3> QED BY <3>4, <3>7
  <2>2. CASE ~thumbnail
    <3>1. package' = package
      BY <2>2 DEF WriteThumbnail
    <3> QED BY <1>2, <2>2, <3>1, GrowsSame, Zenon
  <2> QED BY <2>1, <2>2
<1>4. HasRoot(package') /\ ~package'.types /\ IsList(m_Attachments') /\ UNCHANGED thumbnail
  BY <1>1, <1>2, <1>3, GrowsKeeps, Zenon
<1>5. "slices" # "attachments" /\ "slices" \notin {"streams", "layers"} /\ "slices" # "root"
  OBVIOUS
<1> QED BY <1>1, <1>3, <1>4, <1>5, Continues, Zenon

(* SlicesKeep: an attachment for a slice stack, or the end of their loop.  *)
LEMMA SlicesKeep ==
  ASSUME PackageInv,
         \/ AddSlicerefAttachment
         \/ pc = "slices" /\ Goto("attachments", 1) /\ UNCHANGED <<package, modelVars, writerVars>>
  PROVE  PackageInv'
<1>1. pc = "slices" /\ UNCHANGED thumbnail
  BY DEF AddSlicerefAttachment, modelVars
<1>2. /\ ExportInv /\ IsPackage(package) /\ Linked(package) /\ IsList(m_Attachments)
      /\ HasRoot(package) /\ ~package.types /\ (thumbnail => HasThumbnail(package))
  <2>1. /\ pc \in {"thumbnail", "slices", "attachments"} /\ pc \notin {"streams", "layers"}
        /\ pc \in {"slices", "attachments"}
    BY <1>1
  <2> QED BY <2>1, Unfinished, Zenon
<1>3. CASE Leave(package, "idle", "failed") /\ UNCHANGED m_Attachments
  BY <1>2, <1>3, GrowsSame, Leaves, Zenon
<1>4. CASE Goto("slices", next + 1) /\ UNCHANGED package /\ IsList(m_Attachments')
  <2>1. IsPackage(package') /\ Linked(package') /\ Grows(package, package') /\ HasRoot(package')
        /\ ~package'.types /\ (thumbnail => HasThumbnail(package'))
    BY <1>2, <1>4, GrowsSame, Zenon
  <2>2. "slices" # "attachments" /\ "slices" \notin {"streams", "layers"} /\ "slices" # "root"
    OBVIOUS
  <2> QED BY <1>1, <1>4, <2>1, <2>2, Continues, Zenon
<1>5. CASE Goto("attachments", 1) /\ UNCHANGED package /\ UNCHANGED m_Attachments
  <2>1. IsPackage(package') /\ Linked(package') /\ Grows(package, package') /\ HasRoot(package')
        /\ ~package'.types /\ (thumbnail => HasThumbnail(package')) /\ IsList(m_Attachments')
    BY <1>2, <1>5, GrowsSame, Zenon
  <2>2. "attachments" # "root" /\ "attachments" \notin {"streams", "layers"} /\ 1 \in Nat
    OBVIOUS
  <2>3. \A k \in DOMAIN m_Attachments' : ~ k < 1
    <3>1. DOMAIN m_Attachments' = 1..Len(m_Attachments') /\ Len(m_Attachments') \in Nat
      BY <2>1, ListFacts, Zenon
    <3> QED BY <3>1
  <2> QED BY <1>1, <1>5, <2>1, <2>2, <2>3, Continues, Zenon
<1>6. CASE AddSlicerefAttachment
  <2> DEFINE path == m_sOwnPath[next]
             At == {i \in DOMAIN m_Attachments : m_Attachments[i].name = path.name}
  <2>1. CASE At = {}
    <3>1. /\ \E e : m_Attachments' = Append(m_Attachments, e)
          /\ Goto("slices", next + 1) /\ UNCHANGED package
      BY <1>6, <2>1, Zenon DEF AddSlicerefAttachment
    <3>2. IsList(m_Attachments')
      BY <1>2, <3>1, ListAppend
    <3> QED BY <1>4, <3>1, <3>2
  <2>2. CASE At # {}
    <3>1. PICK i \in At :
            IF m_Attachments[i].type = "model"
            THEN /\ m_Attachments' = [m_Attachments EXCEPT ![i].value = SlicesValue(path)]
                 /\ Goto("slices", next + 1)
                 /\ UNCHANGED package
            ELSE /\ UNCHANGED <<m_Attachments, failures>>
                 /\ Leave(package, "idle", "failed")
      BY <1>6, <2>2, Zenon DEF AddSlicerefAttachment
    <3>2. CASE m_Attachments[i].type = "model"
      <4>1. DOMAIN m_Attachments = 1..Len(m_Attachments) /\ Len(m_Attachments) \in Nat
        BY <1>2, ListFacts
      <4>2. m_Attachments' = [j \in DOMAIN m_Attachments |-> m_Attachments'[j]]
        BY <3>1, <3>2
      <4>3. IsList(m_Attachments')
        BY <4>1, <4>2, FunctionIsList
      <4> QED BY <1>4, <3>1, <3>2, <4>3
    <3>3. CASE m_Attachments[i].type # "model"
      BY <1>3, <3>1, <3>3
    <3> QED BY <3>2, <3>3
  <2> QED BY <2>1, <2>2
<1> QED BY <1>5, <1>6 DEF modelVars

(* AttachmentsKeep: an attachment, and the content types behind the last   *)
(* one.                                                                    *)
LEMMA AttachmentsKeep ==
  ASSUME PackageInv, AddAttachmentPart \/ AddContentTypes
  PROVE  PackageInv'
<1>1. pc = "attachments" /\ UNCHANGED <<m_Attachments, thumbnail>>
  BY DEF AddAttachmentPart, AddContentTypes, modelVars
<1>2. /\ ExportInv /\ IsPackage(package) /\ Linked(package) /\ IsList(m_Attachments)
      /\ HasRoot(package) /\ ~package.types /\ (thumbnail => HasThumbnail(package))
  <2>1. /\ pc \in {"thumbnail", "slices", "attachments"} /\ pc \notin {"streams", "layers"}
        /\ pc \in {"slices", "attachments"}
    BY <1>1
  <2> QED BY <2>1, Unfinished, Zenon
<1>3. next \in Nat /\ \A k \in DOMAIN m_Attachments : k < next => Carries(package, m_Attachments[k])
  BY <1>1, <1>2, Zenon DEF ExportInv, Attached
<1>4. DOMAIN m_Attachments = 1..Len(m_Attachments) /\ Len(m_Attachments) \in Nat
  BY <1>2, ListFacts, Zenon
<1>5. CASE AddAttachmentPart
  <2> DEFINE a == m_Attachments[next]
             p == addPart(package, a.name, a.value, TRUE)
  <2>1. CASE DuplicateRelationship(p, a.type, a.name)
    <3>1. Leave(p, "idle", "failed")
      BY <1>5, <2>1, Zenon DEF AddAttachmentPart
    <3>2. IsPackage(p) /\ Linked(p) /\ Grows(package, p) /\ p.types = package.types
      <4> DEFINE whole == TRUE
      <4>1. p = addPart(package, a.name, a.value, whole)
        OBVIOUS
      <4> HIDE DEF a, p, whole
      <4> QED BY ONLY <1>2, <4>1, PartWritten
    <3> HIDE DEF p
    <3> QED BY <1>1, <1>2, <3>1, <3>2, Leaves, Zenon
  <2>2. CASE ~DuplicateRelationship(p, a.type, a.name)
    <3>1. /\ package' = addRelationship(p, generateRelationShipID, a.type, a.name)
          /\ Goto("attachments", next + 1) /\ next \in DOMAIN m_Attachments
      BY <1>5, <2>2, Zenon DEF AddAttachmentPart
    <3>2. /\ IsPackage(package') /\ Linked(package') /\ Grows(package, package')
          /\ package'.types = package.types /\ Carries(package', a)
      <4> DEFINE whole == TRUE
      <4>0. generateRelationShipID[1] = "rel" => whole
        BY Zenon
      <4>1. p = addPart(package, a.name, a.value, whole)
        OBVIOUS
      <4>2. IsPackage(package) /\ Linked(package) /\ package' = addRelationship(p, generateRelationShipID, a.type, a.name)
        BY <1>2, <3>1
      <4> HIDE DEF a, p, whole
      <4>3. /\ IsPackage(package') /\ Linked(package') /\ Grows(package, package')
            /\ package'.types = package.types /\ HasCopy(package', a.type, a.name, a.value, whole)
        BY ONLY <4>0, <4>1, <4>2, AttachmentCopied
      <4> QED BY <4>3, Zenon DEF Carries, whole
    <3> HIDE DEF p
    <3>3. ASSUME NEW k \in DOMAIN m_Attachments, k < next + 1 PROVE Carries(package', m_Attachments[k])
      <4>1. k < next \/ k = next
        BY <1>3, <1>4, <3>3
      <4> QED BY <1>3, <3>2, <4>1, GrowsKeeps, Zenon
    <3>4. \A k \in DOMAIN m_Attachments' : k < next + 1 => Carries(package', m_Attachments'[k])
      BY <1>1, <3>3, Zenon
    <3>5. HasRoot(package') /\ (thumbnail => HasThumbnail(package')) /\ ~package'.types /\ IsList(m_Attachments')
      BY <1>1, <1>2, <3>2, GrowsKeeps, Zenon
    <3>6. next + 1 \in Nat /\ "attachments" # "root" /\ "attachments" \notin {"streams", "layers"}
      BY <1>3
    <3> QED BY <1>1, <3>1, <3>2, <3>4, <3>5, <3>6, Continues, Zenon
  <2> QED BY <2>1, <2>2
<1>6. CASE AddContentTypes
  <2>1. /\ package' = [package EXCEPT !.types = TRUE] /\ Goto("streams", 1)
        /\ next = Len(m_Attachments) + 1
    BY <1>6 DEF AddContentTypes
  <2>2. IsPackage(package') /\ Linked(package') /\ Grows(package, package')
    BY <1>2, <2>1, TypesAdded, Zenon
  <2>3. \A k \in DOMAIN m_Attachments : k < next
    BY <1>4, <2>1
  <2>4. \A k \in DOMAIN m_Attachments' : Carries(package', m_Attachments'[k])
    BY <1>1, <1>3, <2>2, <2>3, GrowsKeeps, Zenon
  <2>5. HasRoot(package') /\ (thumbnail => HasThumbnail(package')) /\ IsList(m_Attachments')
    BY <1>1, <1>2, <2>2, GrowsKeeps, Zenon
  <2>6. "streams" # "root" /\ "streams" # "attachments" /\ "streams" \in {"streams", "layers"}
    OBVIOUS
  <2> QED BY <1>1, <2>1, <2>2, <2>4, <2>5, <2>6, Continues, Zenon
<1> QED BY <1>5, <1>6

(* LoopsKeep: the binary streams, the toolpath layers and the ends of      *)
(* their loops.                                                            *)
LEMMA LoopsKeep ==
  ASSUME PackageInv,
         \/ WriteBinaryStream \/ WriteLayer
         \/ pc = "streams" /\ Goto("layers", 1) /\ UNCHANGED <<package, modelVars, writerVars>>
         \/ pc = "layers" /\ Leave(package, "cleanup", "complete") /\ UNCHANGED <<failures, modelVars, writerVars>>
  PROVE  PackageInv'
<1>1. pc \in {"streams", "layers"} /\ UNCHANGED <<m_Attachments, thumbnail>>
  BY DEF WriteBinaryStream, WriteLayer, modelVars
<1>2. ExportInv /\ IsPackage(package) /\ Linked(package)
  BY Unfinished
<1>3. ASSUME NEW to \in {"streams", "layers"}, NEW index, Goto(to, index), package' = package
      PROVE  PackageInv'
  <2>1. IsPackage(package') /\ Linked(package') /\ Grows(package, package')
    BY <1>2, <1>3, GrowsSame, Zenon
  <2> QED BY <1>1, <1>3, <2>1, LoopContinues, Zenon
<1>4. ASSUME NEW to \in {"streams", "layers"}, NEW index, Goto(to, index),
             NEW name, NEW value, NEW id, NEW type,
             package' = addRelationship(addPart(package, name, value, TRUE), id, type, name)
      PROVE  PackageInv'
  <2> DEFINE whole == TRUE
             u == addPart(package, name, value, whole)
  <2>1. whole
    OBVIOUS
  <2>2. u = addPart(package, name, value, whole) /\ package' = addRelationship(u, id, type, name)
    BY <1>4
  <2> HIDE DEF whole, u
  <2>3. IsPackage(package') /\ Linked(package') /\ Grows(package, package')
    BY ONLY <1>2, <2>1, <2>2, PartRelated
  <2> QED BY <1>1, <1>4, <2>3, LoopContinues, Zenon
<1>5. ASSUME NEW name, Leave(addPart(package, name, <<"partial">>, FALSE), "idle", "failed")
      PROVE  PackageInv'
  BY <1>1, <1>2, <1>5, PartialLeaves
<1>6. CASE WriteBinaryStream
  <2> DEFINE s == streams[next]
             p == addPart(package, s.path.name, <<"binary", s.arrays>>, TRUE)
  <2>1. \/ Goto("streams", next + 1) /\ package' = package
        \/ Leave(addPart(package, s.path.name, <<"partial">>, FALSE), "idle", "failed")
        \/ /\ package' = addRelationship(p, <<"binary", next>>, "binary", s.path.name)
           /\ Goto("streams", next + 1)
    BY <1>6, Zenon DEF WriteBinaryStream
  <2> QED BY <1>3, <1>4, <1>5, <2>1
<1>7. CASE WriteLayer
  <2> DEFINE path == Layers[next]
  <2>1. \/ Leave(addPart(package, path.name, <<"partial">>, FALSE), "idle", "failed")
        \/ /\ package' = addRelationship(addPart(package, path.name, <<"layer", path>>, TRUE),
                                         LayerID(path), "toolpath", path.name)
           /\ Goto("layers", next + 1)
    BY <1>7, Zenon DEF WriteLayer
  <2> HIDE DEF path
  <2> QED BY <1>4, <1>5, <2>1
<1>8. CASE pc = "streams" /\ Goto("layers", 1) /\ UNCHANGED <<package, modelVars, writerVars>>
  BY <1>3, <1>8
<1>9. CASE pc = "layers" /\ Leave(package, "cleanup", "complete") /\ UNCHANGED <<failures, modelVars, writerVars>>
  BY <1>1, <1>2, <1>9, GrowsSame, Leaves
<1> QED BY <1>6, <1>7, <1>8, <1>9

(* ThrowKeeps: an export ends with an exception.                           *)
LEMMA ThrowKeeps ==
  ASSUME PackageInv, writeModelStreamThrows \/ writeSliceStackStreamThrows \/ Abort \/ CopyFails
  PROVE  PackageInv'
<1>1. UNCHANGED m_Attachments
  BY DEF writeModelStreamThrows, writeSliceStackStreamThrows, Abort, CopyFails, modelVars
<1>2. ExportInv /\ IsPackage(package) /\ Linked(package)
  BY Unfinished
<1>3. ASSUME NEW result, NEW name, Leave(addPart(package, name, <<"partial">>, FALSE), "idle", result)
      PROVE  PackageInv'
  BY <1>1, <1>2, <1>3, PartialLeaves
<1>4. ASSUME NEW name, NEW id, NEW type, id[1] # "rel",
             Leave(addRelationship(addPart(package, name, <<"partial">>, FALSE), id, type, name), "idle", "broken")
      PROVE  PackageInv'
  <2> DEFINE whole == FALSE
             u == addPart(package, name, <<"partial">>, whole)
             q == addRelationship(u, id, type, name)
  <2>1. id[1] = "rel" => whole
    BY <1>4, Zenon
  <2>2. u = addPart(package, name, <<"partial">>, whole) /\ q = addRelationship(u, id, type, name)
    OBVIOUS
  <2>3. Leave(q, "idle", "broken")
    BY <1>4, Zenon
  <2> HIDE DEF whole, u, q
  <2>4. IsPackage(q) /\ Linked(q) /\ Grows(package, q) /\ q.types = package.types
    BY ONLY <1>2, <2>1, <2>2, PartRelated
  <2> QED BY <1>1, <1>2, <2>3, <2>4, Leaves
<1>5. CASE writeModelStreamThrows
  BY <1>3, <1>5 DEF writeModelStreamThrows
<1>6. CASE Abort
  <2>1. \/ Leave(addPart(package, RootName, <<"partial">>, FALSE), "idle", "aborted")
        \/ Leave(package, "idle", "aborted")
    BY <1>6, Zenon DEF Abort
  <2>2. CASE Leave(package, "idle", "aborted")
    BY <1>1, <1>2, <2>2, GrowsSame, Leaves
  <2> QED BY <1>3, <2>1, <2>2
<1>7. CASE CopyFails
  <2> DEFINE layer == Layers[next]
             stream == streams[next].path
  <2>1. \/ Leave(addPart(package, RootName, <<"partial">>, FALSE), "idle", "broken")
        \/ Leave(addPart(package, ThumbnailName, <<"partial">>, FALSE), "idle", "broken")
        \/ Leave(addPart(package, m_Attachments[next].name, <<"partial">>, FALSE), "idle", "broken")
        \/ Leave(addRelationship(addPart(package, stream.name, <<"partial">>, FALSE),
                                 <<"binary", next>>, "binary", stream.name), "idle", "broken")
        \/ Leave(addRelationship(addPart(package, layer.name, <<"partial">>, FALSE),
                                 LayerID(layer), "toolpath", layer.name), "idle", "broken")
    BY <1>7, Zenon DEF CopyFails
  <2>2. <<"binary", next>>[1] # "rel" /\ LayerID(layer)[1] # "rel"
    BY DEF LayerID
  <2> HIDE DEF layer, stream
  <2> QED BY <1>3, <1>4, <2>1, <2>2
<1>8. CASE writeSliceStackStreamThrows
  <2>1. Leave(package, "idle", "failed")
    BY <1>8, Zenon DEF writeSliceStackStreamThrows
  <2> QED BY <1>1, <1>2, <2>1, GrowsSame, Leaves
<1> QED BY <1>5, <1>6, <1>7, <1>8

(* CleanupKeeps: exportToStream returns.                                   *)
LEMMA CleanupKeeps ==
  ASSUME PackageInv, Cleanup
  PROVE  PackageInv'
<1>1. pc = "cleanup" /\ pc' = "idle" /\ UNCHANGED <<m_Attachments, package, archive, source>>
  BY DEF Cleanup, modelVars
<1>2. ArchiveInv'
  BY <1>1, ArchiveStays, Zenon DEF PackageInv
<1>3. IsList(m_Attachments) /\ IsPackage(package) /\ Linked(package) /\ (package.types => pc \in {"streams", "layers"})
  BY Unfinished
<1>4. IsList(m_Attachments') /\ IsPackage(package') /\ Linked(package') /\ ~package'.types
  BY <1>1, <1>3
<1>5. Attached'
  BY <1>1 DEF Attached
<1>6. ExportInv'
  BY <1>1, <1>4, <1>5 DEF ExportInv
<1> QED BY <1>2, <1>6 DEF PackageInv

(* NextKeeps: every step keeps the invariant.                              *)
LEMMA NextKeeps ==
  ASSUME PackageInv, [Next]_vars
  PROVE  PackageInv'
<1>1. CASE ClientNext
  BY <1>1, ClientNextKeeps
<1>2. CASE ExportNext
  <2>1. CASE EndLoop
    <3>1. \/ pc = "slices" /\ Goto("attachments", 1) /\ UNCHANGED <<package, modelVars, writerVars>>
          \/ pc = "streams" /\ Goto("layers", 1) /\ UNCHANGED <<package, modelVars, writerVars>>
          \/ pc = "layers" /\ Leave(package, "cleanup", "complete") /\ UNCHANGED <<failures, modelVars, writerVars>>
      BY <2>1, Zenon DEF EndLoop
    <3> QED BY <3>1, SlicesKeep, LoopsKeep, Zenon
  <2> QED BY <1>2, <2>1, StartKeeps, RootKeeps, ThumbnailKeeps, SlicesKeep, AttachmentsKeep, LoopsKeep,
             ThrowKeeps, CleanupKeeps, Zenon DEF ExportNext
<1>3. CASE \E types \in SUBSET {"custom", "toolpath"} : Read(types)
  BY <1>3, ReadKeeps
<1>4. CASE UNCHANGED vars
  <2>1. UNCHANGED <<m_Attachments, thumbnail, pc, next, package, archive, source>>
    BY <1>4 DEF vars, modelVars, exportVars
  <2>2. ArchiveInv'
    BY <2>1, ArchiveStays, Zenon DEF PackageInv
  <2>3. ExportInv'
    BY <2>1, Zenon DEF PackageInv, ExportInv, Attached
  <2> QED BY <2>2, <2>3 DEF PackageInv
<1> QED BY <1>1, <1>2, <1>3, <1>4, Zenon DEF Next

(* InitIsWhole: at first there is neither a package nor an archive.        *)
LEMMA InitIsWhole ==
  ASSUME Init
  PROVE  PackageInv
<1>1. pc = "idle" /\ m_Attachments = << >> /\ package = NoPackage /\ archive = NoPackage
  BY DEF Init
<1>2. IsPackage(NoPackage) /\ Linked(NoPackage) /\ NoPackage.types = FALSE
  BY EmptyPackage
<1>3. IsList(m_Attachments)
  BY <1>1, EmptyPackage, Zenon DEF IsPackage
<1>4. ArchiveInv
  BY <1>1, <1>2, Zenon DEF ArchiveInv, Represents
<1>5. Attached
  BY <1>1 DEF Attached
<1>6. IsPackage(package) /\ Linked(package) /\ ~package.types
  BY <1>1, <1>2, Zenon
<1>7. ExportInv
  BY <1>1, <1>3, <1>5, <1>6 DEF ExportInv
<1> QED BY <1>4, <1>7 DEF PackageInv

-----------------------------------------------------------------------------
(* The theorems.                                                           *)

(* What a reader opens is the whole model, its thumbnail and its           *)
(* attachments, whatever aborted the export or failed in it; and no        *)
(* package has a relationship that leads nowhere.                          *)
THEOREM PackagesCorrect == Spec => []AcceptedPackagesAreWhole
<1>1. ASSUME PackageInv PROVE AcceptedPackagesAreWhole
  <2>1. IsPackage(archive) /\ Linked(archive) /\ Represents(archive, source.attachments, source.thumbnail)
    BY <1>1, Zenon DEF PackageInv, ArchiveInv
  <2>2. ASSUME OpensPackage(archive)
        PROVE  /\ Entry(archive, RootName).whole
               /\ source.thumbnail => HasThumbnail(archive)
               /\ \A a \in source.attachments : Carries(archive, a)
    <3>1. archive.types
      BY <2>2 DEF OpensPackage
    <3> QED BY <2>1, <3>1, RootIsFirst, Zenon DEF Represents
  <2> QED BY <2>1, <2>2, Zenon
       DEF AcceptedPackagesAreWhole, Linked, LeadsTo, WholePart, HasThumbnail, Carries, HasCopy
<1>2. PackageInv /\ [Next]_vars => PackageInv'
  BY NextKeeps
<1> QED BY <1>1, <1>2, InitIsWhole, PTL DEF Spec

-----------------------------------------------------------------------------
(* Exporting again.                                                        *)
(*                                                                         *)
(* From the root model on, an export is a function of the attachments, the *)
(* thumbnail, the binary streams and the layers: a list of steps, each of  *)
(* which makes the next package from the last one.                         *)

IsAttachment(a) == a = [name |-> a.name, type |-> a.type, value |-> a.value]
Streams == [path : Paths, arrays : Nat, finished : BOOLEAN]

(* What is written of the streams: finishing one changes nothing of it.    *)
Contents == [thumbnail |-> thumbnail,
             streams |-> [j \in DOMAIN streams |-> [path |-> streams[j].path, arrays |-> streams[j].arrays]],
             layers |-> Layers]

(* The value of the root model; without a binary stream there is only one. *)
NoStream == <<"root", "", 0>>
RootFits(stream, v) == stream = 0 => v = NoStream

RootPackage(v) ==
  addRootRelationship(addPart(NoPackage, RootName, v, TRUE), <<"rel", 0>>, "model", RootName)
FrontPackage(hasThumbnail, v) ==
  IF hasThumbnail
  THEN addRootRelationship(addPart(RootPackage(v), ThumbnailName, <<"thumbnail">>, TRUE),
                           <<"rel", 1>>, "thumbnail", ThumbnailName)
  ELSE RootPackage(v)
IDsInFront(hasThumbnail) == IF hasThumbnail THEN 2 ELSE 1

WithAttachment(p, a, id) ==
  addRelationship(addPart(p, a.name, a.value, TRUE), <<"rel", id>>, a.type, a.name)
WithStream(p, j, s) ==
  IF s.arrays = 0 THEN p
  ELSE addRelationship(addPart(p, s.path.name, <<"binary", s.arrays>>, TRUE),
                       <<"binary", j>>, "binary", s.path.name)
WithLayer(p, path) ==
  addRelationship(addPart(p, path.name, <<"layer", path>>, TRUE), LayerID(path), "toolpath", path.name)

(* The k-th step takes the package p to q.                                 *)
StepIs(c, atts, k, p, q) ==
  /\ k <= Len(atts) => q = WithAttachment(p, atts[k], IDsInFront(c.thumbnail) + k - 1)
  /\ k = Len(atts) + 1 => q = [p EXCEPT !.types = TRUE]
  /\ \A j \in DOMAIN c.streams : k = Len(atts) + 1 + j => q = WithStream(p, j, c.streams[j])
  /\ k = Len(atts) + Len(c.streams) + 2 => q = p
  /\ \A j \in DOMAIN c.layers : k = Len(atts) + Len(c.streams) + 2 + j => q = WithLayer(p, c.layers[j])
Steps(c, atts) == Len(atts) + Len(c.streams) + Len(c.layers) + 2

(* The package p is what comes before the n-th step.                       *)
Built(c, atts, v, n, p) ==
  \E T : /\ T[1] = FrontPackage(c.thumbnail, v)
         /\ \A k \in 1..(n - 1) : StepIs(c, atts, k, T[k], T[k + 1])
         /\ T[n] = p

Place == CASE pc = "attachments" -> next
           [] pc = "streams" -> Len(m_Attachments) + 1 + next
           [] pc = "layers" -> Len(m_Attachments) + Len(streams) + 2 + next

(* Every slice stack in front of the n-th has its attachment, with the     *)
(* slices of the last of them that has its path.                           *)
SlicesOf(own, path) == <<"slices", Cardinality({i \in DOMAIN own : own[i] = path})>>
Settled(own, atts, n) ==
  \A k \in DOMAIN own : k < n =>
    \E i \in DOMAIN atts :
      /\ atts[i].name = own[k].name /\ atts[i].type = "model"
      /\ (\A l \in DOMAIN own : (k < l /\ l < n) => own[l].name # own[k].name)
           => atts[i].value = SlicesOf(own, own[k])

(* The lists have the same attachments, up to slices that are yet to be    *)
(* written again.                                                          *)
Agree(atts, given, names) ==
  /\ IsList(atts) /\ Len(atts) = Len(given)
  /\ \A i \in DOMAIN given :
       \/ given[i] = atts[i]
       \/ /\ given[i].name = atts[i].name /\ given[i].type = atts[i].type
          /\ IsAttachment(atts[i])
          /\ atts[i].name \in names
Pending == {m_sOwnPath[k].name : k \in {l \in DOMAIN m_sOwnPath : pc = "slices" /\ next <= l}}

(* A package keeps the number of slices of a slice part.                   *)
Counted(value) == value[1] = "slices" => value[2] \in Nat
PartsCounted(p) == \A i \in DOMAIN p.parts : Counted(p.parts[i].value)

AttachmentList(atts) ==
  /\ IsList(atts)
  /\ \A i \in DOMAIN atts : IsAttachment(atts[i]) /\ Counted(atts[i].value)
  /\ \A i, j \in DOMAIN atts : atts[i].name = atts[j].name => i = j

Lists ==
  /\ AttachmentList(m_Attachments)
  /\ IsList(m_sOwnPath)
  /\ streams \in Seq(Streams) /\ assigned \in 0..Len(streams)
  /\ IsFiniteSet(m_AdditionalAttachments)
  /\ PartsCounted(package) /\ PartsCounted(archive)

Progress ==
  /\ pc = "root" => package = NoPackage /\ m_nRelationIDCounter = 0
  /\ pc = "thumbnail" => /\ m_nRelationIDCounter = 1
                         /\ \E v : RootFits(assigned, v) /\ package = RootPackage(v)
  /\ pc = "slices" => /\ m_nRelationIDCounter = IDsInFront(thumbnail)
                      /\ next \in 1..(Len(m_sOwnPath) + 1) /\ Settled(m_sOwnPath, m_Attachments, next)
                      /\ \E v : RootFits(assigned, v) /\ package = FrontPackage(thumbnail, v)
  /\ pc = "attachments" => /\ next \in 1..(Len(m_Attachments) + 1)
                           /\ m_nRelationIDCounter = IDsInFront(thumbnail) + next - 1
  /\ pc = "streams" => next \in 1..(Len(streams) + 1)
  /\ pc = "layers" => next \in 1..(Len(Layers) + 1)
  /\ pc \in {"attachments", "streams", "layers"} =>
       /\ Settled(m_sOwnPath, m_Attachments, Len(m_sOwnPath) + 1)
       /\ \E v : RootFits(assigned, v) /\ Built(Contents, m_Attachments, v, Place, package)

(* A stream that was written is finished, and the one with the mesh has    *)
(* been.                                                                   *)
StreamsClose ==
  /\ \A j \in DOMAIN streams :
       ((pc = "streams" /\ j < next) \/ pc = "layers" \/ stable) /\ streams[j].arrays > 0 => streams[j].finished
  /\ (pc \notin {"idle", "root"} \/ stable) /\ assigned # 0 => streams[assigned].arrays > 0
  /\ stable /\ pc \in {"thumbnail", "slices", "attachments", "streams", "layers"} => assigned = 0

(* The archive is what an export of this model would write.                *)
Exports(c, own, stream, given, names, p) ==
  \E atts : /\ Agree(atts, given, names) /\ Settled(own, atts, Len(own) + 1)
            /\ \E v : RootFits(stream, v) /\ Built(c, atts, v, Steps(c, atts) + 1, p)
Repeats == stable => Exports(Contents, m_sOwnPath, assigned, m_Attachments, Pending, archive)

RepeatInv == Lists /\ Progress /\ StreamsClose /\ Repeats

(* The lists a package is built from.                                      *)
Ordered(c, atts) == IsList(c.streams) /\ IsList(c.layers) /\ IsList(atts)

(* OrderedFacts: their lengths.                                            *)
LEMMA OrderedFacts ==
  ASSUME NEW c, NEW atts, Ordered(c, atts)
  PROVE  /\ Len(c.streams) \in Nat /\ DOMAIN c.streams = 1..Len(c.streams)
         /\ Len(c.layers) \in Nat /\ DOMAIN c.layers = 1..Len(c.layers)
         /\ Len(atts) \in Nat /\ DOMAIN atts = 1..Len(atts)
BY ListFacts DEF Ordered

(* StepOnce: a step leads to one package.                                  *)
LEMMA StepOnce ==
  ASSUME NEW c, NEW atts, Ordered(c, atts), NEW k \in 1..Steps(c, atts),
         NEW p, NEW q, NEW r, StepIs(c, atts, k, p, q), StepIs(c, atts, k, p, r)
  PROVE  q = r
<1> DEFINE A == Len(atts)
           S == Len(c.streams)
           L == Len(c.layers)
<1>1. /\ S \in Nat /\ DOMAIN c.streams = 1..S
      /\ L \in Nat /\ DOMAIN c.layers = 1..L
      /\ A \in Nat
  BY OrderedFacts
<1>2. Steps(c, atts) = A + S + L + 2
  BY DEF Steps
<1> HIDE DEF A, S, L
<1>3. \/ k <= A
      \/ k = A + 1
      \/ \E j \in 1..S : k = A + 1 + j
      \/ k = A + S + 2
      \/ \E j \in 1..L : k = A + S + 2 + j
  <2>1. k \in 1..(A + S + L + 2) /\ S \in Nat /\ L \in Nat /\ A \in Nat
    BY <1>1, <1>2
  <2>2. \/ k <= A
        \/ k = A + 1
        \/ k - A - 1 \in 1..S /\ k = A + 1 + (k - A - 1)
        \/ k = A + S + 2
        \/ k - A - S - 2 \in 1..L /\ k = A + S + 2 + (k - A - S - 2)
    BY ONLY <2>1
  <2> QED BY <2>2, Zenon
<1>4. CASE k <= A
  BY <1>4, Zenon DEF StepIs, A
<1>5. CASE k = A + 1
  BY <1>5, Zenon DEF StepIs, A
<1>6. ASSUME NEW j \in 1..S, k = A + 1 + j PROVE q = r
  <2>1. j \in DOMAIN c.streams
    BY <1>1, Zenon
  <2>2. k = Len(atts) + 1 + j
    BY <1>6, Zenon DEF A
  <2>3. q = WithStream(p, j, c.streams[j]) /\ r = WithStream(p, j, c.streams[j])
    BY <2>1, <2>2, Zenon DEF StepIs
  <2> QED BY <2>3, Zenon
<1>7. CASE k = A + S + 2
  BY <1>7, Zenon DEF StepIs, A, S
<1>8. ASSUME NEW j \in 1..L, k = A + S + 2 + j PROVE q = r
  BY <1>1, <1>8, Zenon DEF StepIs, A, S
<1> QED BY <1>3, <1>4, <1>5, <1>6, <1>7, <1>8, Zenon

(* BuiltOnce: so the steps lead to one package, by the least step at which *)
(* two would differ.                                                       *)
LEMMA BuiltOnce ==
  ASSUME NEW c, NEW atts, Ordered(c, atts), NEW v, NEW n \in 1..(Steps(c, atts) + 1),
         NEW p, NEW q, Built(c, atts, v, n, p), Built(c, atts, v, n, q)
  PROVE  p = q
<1>0. Steps(c, atts) \in Nat /\ n \in Nat
  <2> DEFINE A == Len(atts)
             S == Len(c.streams)
             L == Len(c.layers)
  <2>1. A \in Nat /\ S \in Nat /\ L \in Nat
    BY OrderedFacts
  <2>2. Steps(c, atts) = A + S + L + 2
    BY DEF Steps
  <2> HIDE DEF A, S, L
  <2>3. Steps(c, atts) \in Nat
    BY <2>1, <2>2
  <2> QED BY <2>3
<1>1. PICK T : /\ T[1] = FrontPackage(c.thumbnail, v)
               /\ \A k \in 1..(n - 1) : StepIs(c, atts, k, T[k], T[k + 1])
               /\ T[n] = p
  BY Zenon DEF Built
<1>2. PICK U : /\ U[1] = FrontPackage(c.thumbnail, v)
               /\ \A k \in 1..(n - 1) : StepIs(c, atts, k, U[k], U[k + 1])
               /\ U[n] = q
  BY Zenon DEF Built
<1> DEFINE D == {k \in 1..n : T[k] # U[k]}
<1>3. ASSUME D # {} PROVE FALSE
  <2>1. D \subseteq Nat
    BY <1>0
  <2> HIDE DEF D
  <2>2. PICK m \in D : \A k \in D : m <= k
    BY <1>3, <2>1, NatMin
  <2>3. m \in 1..n /\ T[m] # U[m]
    BY <2>2 DEF D
  <2>4. m # 1
    BY <1>1, <1>2, <2>3, Zenon
  <2> DEFINE k == m - 1
  <2>5. k \in 1..n /\ k \in 1..(n - 1) /\ k \in 1..Steps(c, atts) /\ m = k + 1 /\ ~ m <= k
    BY <1>0, <2>3, <2>4
  <2> HIDE DEF k
  <2>6. T[k] = U[k]
    BY <2>2, <2>5, Zenon DEF D
  <2>7. StepIs(c, atts, k, T[k], T[m]) /\ StepIs(c, atts, k, T[k], U[m])
    BY <1>1, <1>2, <2>5, <2>6, Zenon
  <2>8. T[m] = U[m]
    BY <2>5, <2>7, StepOnce, Zenon
  <2> QED BY <2>3, <2>8
<1>4. n \in 1..n
  BY <1>0
<1> QED BY <1>1, <1>2, <1>3, <1>4

(* BuiltMore: one step more.                                               *)
LEMMA BuiltMore ==
  ASSUME NEW c, NEW atts, NEW v, NEW n \in Nat \ {0}, NEW p, NEW q,
         Built(c, atts, v, n, p), StepIs(c, atts, n, p, q)
  PROVE  Built(c, atts, v, n + 1, q)
<1>1. PICK T : /\ T[1] = FrontPackage(c.thumbnail, v)
               /\ \A k \in 1..(n - 1) : StepIs(c, atts, k, T[k], T[k + 1])
               /\ T[n] = p
  BY Zenon DEF Built
<1> DEFINE U == [k \in 1..(n + 1) |-> IF k <= n THEN T[k] ELSE q]
<1>2. U[n + 1] = q /\ \A k \in 1..n : U[k] = T[k]
  OBVIOUS
<1> HIDE DEF U
<1>3. U[1] = FrontPackage(c.thumbnail, v)
  BY <1>1, <1>2
<1>4. ASSUME NEW k \in 1..n PROVE StepIs(c, atts, k, U[k], U[k + 1])
  <2>1. CASE k = n
    <3>1. U[k] = p /\ U[k + 1] = q
      BY <1>1, <1>2, <2>1
    <3> QED BY <2>1, <3>1
  <2>2. CASE k # n
    <3>1. k \in 1..(n - 1) /\ k + 1 \in 1..n
      BY <2>2
    <3>2. U[k] = T[k] /\ U[k + 1] = T[k + 1]
      BY <1>2, <3>1
    <3> QED BY <1>1, <3>1, <3>2
  <2> QED BY <2>1, <2>2
<1>5. (n + 1) - 1 = n
  OBVIOUS
<1>6. \A k \in 1..((n + 1) - 1) : StepIs(c, atts, k, U[k], U[k + 1])
  BY <1>4, <1>5
<1> QED BY <1>2, <1>3, <1>6, Zenon DEF Built

(* BuiltFirst: no step yet.                                                *)
LEMMA BuiltFirst ==
  ASSUME NEW c, NEW atts, NEW v, NEW p, p = FrontPackage(c.thumbnail, v)
  PROVE  Built(c, atts, v, 1, p)
<1> DEFINE T == [k \in {1} |-> p]
<1>1. T[1] = p /\ \A k \in 1..(1 - 1) : StepIs(c, atts, k, T[k], T[k + 1])
  OBVIOUS
<1> QED BY <1>1, Zenon DEF Built

(* PartCounted: one part more.                                             *)
LEMMA PartCounted ==
  ASSUME NEW p, IsPackage(p), PartsCounted(p), NEW name, NEW value, NEW whole, Counted(value),
         NEW q, q = addPart(p, name, value, whole)
  PROVE  PartsCounted(q)
<1> DEFINE e == [name |-> name, value |-> value, whole |-> whole]
           s == p.parts
           t == Append(s, e)
<1>1. p = [parts |-> s, types |-> p.types, root |-> p.root, rels |-> p.rels] /\ IsList(s)
  BY DEF IsPackage
<1>2. q = [p EXCEPT !.parts = t] /\ e.value = value
  BY DEF addPart
<1>3. /\ Len(s) \in Nat
      /\ DOMAIN s = 1..Len(s) /\ DOMAIN t = 1..(Len(s) + 1)
      /\ \A i \in 1..Len(s) : t[i] = s[i]
      /\ t[Len(s) + 1] = e
  <2> HIDE DEF e, s
  <2> QED BY <1>1, ListAppend
<1> HIDE DEF e, t
<1>4. q.parts = t
  <2> HIDE DEF s
  <2> QED BY <1>1, <1>2
<1>5. ASSUME NEW i \in DOMAIN t PROVE Counted(t[i].value)
  <2>1. i \in 1..Len(s) \/ i = Len(s) + 1
    BY <1>3
  <2>2. CASE i \in 1..Len(s)
    BY <1>3, <2>2, Zenon DEF PartsCounted
  <2>3. CASE i = Len(s) + 1
    BY <1>2, <1>3, <2>3, Zenon
  <2> QED BY <2>1, <2>2, <2>3
<1> QED BY <1>4, <1>5, Zenon DEF PartsCounted

(* SamePartsCounted: relationships and content types change no part.       *)
LEMMA SamePartsCounted ==
  ASSUME NEW p, PartsCounted(p), NEW q, q.parts = p.parts
  PROVE  PartsCounted(q)
BY Zenon DEF PartsCounted

(* RelatedCounted: a part and its relationship.                            *)
LEMMA RelatedCounted ==
  ASSUME NEW p, IsPackage(p), PartsCounted(p), NEW name, NEW value, NEW whole, NEW id, NEW type, Counted(value),
         NEW q, NEW u, u = addPart(p, name, value, whole),
         q = addRelationship(u, id, type, name) \/ q = addRootRelationship(u, id, type, name)
  PROVE  PartsCounted(q)
<1>1. PartsCounted(u)
  BY PartCounted
<1>2. IsPackage(u)
  BY PartAdded
<1>3. q.parts = u.parts
  BY <1>2, RelationAdded
<1> QED BY <1>1, <1>3, SamePartsCounted

(* OneMoreAttachment: an attachment with a name of its own.                *)
LEMMA OneMoreAttachment ==
  ASSUME NEW atts, AttachmentList(atts), NEW a, IsAttachment(a), Counted(a.value),
         \A i \in DOMAIN atts : atts[i].name # a.name,
         NEW t, t = Append(atts, a)
  PROVE  AttachmentList(t)
<1>1. IsList(atts)
  BY Zenon DEF AttachmentList
<1>2. /\ IsList(t) /\ Len(atts) \in Nat /\ DOMAIN atts = 1..Len(atts) /\ DOMAIN t = 1..(Len(atts) + 1)
      /\ \A i \in 1..Len(atts) : t[i] = atts[i]
      /\ t[Len(atts) + 1] = a
  <2> DEFINE u == Append(atts, a)
  <2>1. /\ IsList(u) /\ Len(atts) \in Nat /\ Len(u) = Len(atts) + 1
        /\ DOMAIN atts = 1..Len(atts) /\ DOMAIN u = 1..(Len(atts) + 1)
        /\ \A i \in 1..Len(atts) : u[i] = atts[i]
        /\ u[Len(atts) + 1] = a
    BY ONLY <1>1, ListAppend
  <2> HIDE DEF u
  <2>2. t = u
    BY Zenon DEF u
  <2> QED BY <2>1, <2>2
<1> DEFINE n == Len(atts)
<1> HIDE DEF n
<1>3. /\ n \in Nat /\ DOMAIN atts = 1..n /\ DOMAIN t = 1..(n + 1)
      /\ \A i \in DOMAIN atts : t[i] = atts[i]
      /\ t[n + 1] = a
  BY <1>2 DEF n
<1>4. \A i \in DOMAIN t : i \in DOMAIN atts \/ i = n + 1
  BY <1>3
<1>5. \A i \in DOMAIN t : IsAttachment(t[i]) /\ Counted(t[i].value)
  BY <1>3, <1>4, Zenon DEF AttachmentList
<1>6. ASSUME NEW i \in DOMAIN t, NEW j \in DOMAIN t, t[i].name = t[j].name PROVE i = j
  <2>1. CASE i \in DOMAIN atts /\ j \in DOMAIN atts
    <3>1. atts[i].name = atts[j].name
      BY <1>3, <1>6, <2>1, Zenon
    <3> QED BY <2>1, <3>1, Zenon DEF AttachmentList
  <2>2. CASE i \in DOMAIN atts /\ j = n + 1
    <3>1. atts[i].name = a.name
      BY <1>3, <1>6, <2>2, Zenon
    <3> QED BY <2>2, <3>1, Zenon
  <2>3. CASE i = n + 1 /\ j \in DOMAIN atts
    <3>1. atts[j].name = a.name
      BY <1>3, <1>6, <2>3, Zenon
    <3> QED BY <2>3, <3>1, Zenon
  <2> QED BY <1>4, <2>1, <2>2, <2>3, Zenon
<1> QED BY <1>2, <1>5, <1>6, Zenon DEF AttachmentList

(* The list t has other content in its i-th attachment.                    *)
Replaced(atts, i, value, t) ==
  /\ Len(t) = Len(atts) /\ DOMAIN t = DOMAIN atts
  /\ IsAttachment(t[i])
  /\ t[i].name = atts[i].name /\ t[i].type = atts[i].type /\ t[i].value = value
  /\ \A j \in DOMAIN atts : j # i => t[j] = atts[j]

(* AttachmentReplaced: an attachment gets other content.                   *)
LEMMA AttachmentReplaced ==
  ASSUME AttachmentList(m_Attachments), NEW i \in DOMAIN m_Attachments, NEW value, Counted(value),
         m_Attachments' = [m_Attachments EXCEPT ![i].value = value]
  PROVE  AttachmentList(m_Attachments') /\ Replaced(m_Attachments, i, value, m_Attachments')
<1> DEFINE atts == m_Attachments
           t == m_Attachments'
<1>0. AttachmentList(atts) /\ i \in DOMAIN atts /\ t = [atts EXCEPT ![i].value = value]
  OBVIOUS
<1> HIDE DEF atts, t
<1>1. IsList(atts) /\ IsAttachment(atts[i])
  BY <1>0, Zenon DEF AttachmentList
<1>2. Len(atts) \in Nat /\ DOMAIN atts = 1..Len(atts)
  BY <1>1, ListFacts
<1>3. /\ DOMAIN t = DOMAIN atts /\ t = [j \in DOMAIN atts |-> t[j]]
      /\ t[i] = [atts[i] EXCEPT !.value = value]
      /\ \A j \in DOMAIN atts : j # i => t[j] = atts[j]
  BY <1>0
<1>4. IsList(t) /\ Len(t) = Len(atts)
  BY <1>2, <1>3, FunctionIsList
<1> DEFINE a == atts[i]
           b == t[i]
<1>5. a = [name |-> a.name, type |-> a.type, value |-> a.value] /\ b = [a EXCEPT !.value = value]
  BY <1>1, <1>3 DEF IsAttachment
<1> HIDE DEF a, b
<1>6. b = [name |-> a.name, type |-> a.type, value |-> value] /\ b.name = a.name /\ b.type = a.type /\ b.value = value
  BY <1>5
<1>7. IsAttachment(b)
  BY <1>6, Zenon DEF IsAttachment
<1>8. IsAttachment(t[i]) /\ t[i].name = atts[i].name /\ t[i].type = atts[i].type /\ t[i].value = value
  BY <1>6, <1>7, Zenon DEF a, b
<1>9. \A j \in DOMAIN t : IsAttachment(t[j]) /\ Counted(t[j].value)
  BY <1>0, <1>3, <1>8, Zenon DEF AttachmentList
<1>10. \A j \in DOMAIN t : t[j].name = atts[j].name
  BY <1>3, <1>8, Zenon
<1>11. ASSUME NEW j \in DOMAIN t, NEW k \in DOMAIN t, t[j].name = t[k].name PROVE j = k
  <2>1. atts[j].name = atts[k].name /\ j \in DOMAIN atts /\ k \in DOMAIN atts
    BY <1>3, <1>10, <1>11, Zenon
  <2> QED BY <1>0, <2>1, Zenon DEF AttachmentList
<1>12. AttachmentList(t)
  BY <1>4, <1>9, <1>11, Zenon DEF AttachmentList
<1>13. Replaced(atts, i, value, t)
  BY <1>3, <1>4, <1>8, Zenon DEF Replaced
<1> QED BY <1>12, <1>13 DEF atts, t

(* EntryNamed: the reader finds a part of the name.                        *)
LEMMA EntryNamed ==
  ASSUME NEW p, IsPackage(p), NEW name, name \in Names(p)
  PROVE  \E i \in DOMAIN p.parts : Entry(p, name) = p.parts[i] /\ p.parts[i].name = name
<1> DEFINE I == {i \in DOMAIN p.parts : p.parts[i].name = name}
           P(i) == /\ p.parts[i].name = name
                   /\ \A j \in 1..i - 1 : p.parts[j].name # name
           m == CHOOSE i \in DOMAIN p.parts : P(i)
<1>1. DOMAIN p.parts = 1..Len(p.parts) /\ Len(p.parts) \in Nat
  BY ListFacts DEF IsPackage
<1>2. I \subseteq Nat /\ I # {}
  BY <1>1 DEF Names
<1>3. \E k \in I : \A j \in I : k <= j
  <2> HIDE DEF I
  <2> QED BY <1>2, NatMin
<1>4. PICK k \in I : \A j \in I : k <= j
  BY <1>3, Zenon
<1>5. ASSUME NEW j \in 1..k - 1 PROVE p.parts[j].name # name
  <2>1. k \in 1..Len(p.parts)
    BY <1>1, <1>4
  <2>2. j \in DOMAIN p.parts /\ ~ k <= j
    BY <1>1, <2>1
  <2> QED BY <1>4, <2>2
<1>6. k \in DOMAIN p.parts /\ P(k)
  BY <1>4, <1>5
<1>7. m \in DOMAIN p.parts /\ P(m)
  <2> HIDE DEF P
  <2> QED BY <1>6, Zenon
<1>8. Entry(p, name) = p.parts[m]
  BY DEF Entry
<1>9. p.parts[m].name = name
  BY <1>7, Zenon
<1> HIDE DEF m
<1> QED BY <1>7, <1>8, <1>9

(* ReadDistinct: attachments that were read for the same types have names  *)
(* of their own: what the reader makes of a relationship depends on its    *)
(* target and, where two types may be asked for, there is one of a target. *)
LEMMA ReadDistinct ==
  ASSUME NEW p, NEW types,
         \A r, s \in p.rels : (r.type \in types /\ s.type \in types /\ r.target = s.target) => r.type = s.type,
         NEW a \in ReadAttachments(p, types), NEW b \in ReadAttachments(p, types), a.name = b.name
  PROVE  a = b
<1> DEFINE R == {q \in p.rels : q.type \in types}
           At(r) == [name |-> r.target, type |-> r.type, value |-> Entry(p, r.target).value]
<1>1. PICK r \in R : a = At(r)
  BY DEF ReadAttachments
<1>2. PICK s \in R : b = At(s)
  BY DEF ReadAttachments
<1>3. r.target = s.target
  BY <1>1, <1>2
<1>4. r.type = s.type
  BY <1>3, Zenon
<1> QED BY <1>1, <1>2, <1>3, <1>4, Zenon

(* ReadValues: they are attachments, with what the package has of them.    *)
LEMMA ReadValues ==
  ASSUME NEW p, IsPackage(p), Linked(p), PartsCounted(p), NEW types, NEW a \in ReadAttachments(p, types)
  PROVE  /\ IsAttachment(a) /\ Counted(a.value)
         /\ \E r \in p.rels : r.type \in types /\ r.target = a.name
<1>1. PICK r \in p.rels : /\ r.type \in types
                          /\ a = [name |-> r.target, type |-> r.type, value |-> Entry(p, r.target).value]
  BY DEF ReadAttachments
<1>2. r.target \in Names(p)
  BY Zenon DEF Linked, LeadsTo
<1>3. PICK i \in DOMAIN p.parts : Entry(p, r.target) = p.parts[i]
  BY <1>2, EntryNamed
<1>4. Counted(p.parts[i].value)
  BY Zenon DEF PartsCounted
<1>5. a.name = r.target /\ a.type = r.type /\ a.value = p.parts[i].value
  BY <1>1, <1>3
<1>6. IsAttachment(a)
  BY <1>1, <1>3, <1>5 DEF IsAttachment
<1> QED BY <1>1, <1>4, <1>5, <1>6, Zenon

(* ReadList: the attachments of a model that was read.                     *)
LEMMA ReadList ==
  ASSUME NEW p, IsPackage(p), Linked(p), PartsCounted(p), NEW types, types \subseteq {"custom", "toolpath"},
         extractCustomDataFromRelationships(p, types),
         NEW t, t = SetToSeq(ReadAttachments(p, {"texture"})) \o SetToSeq(ReadAttachments(p, types))
  PROVE  AttachmentList(t)
<1> DEFINE X == ReadAttachments(p, {"texture"})
           Y == ReadAttachments(p, types)
           U == X \cup Y
           x == SetToSeq(X)
           y == SetToSeq(Y)
<1>1. IsFiniteSet(X) /\ IsFiniteSet(Y)
  BY ReadAttachmentsFinite
<1>2. /\ x \in Seq(X) /\ \A i, j \in DOMAIN x : x[i] = x[j] => i = j
      /\ y \in Seq(Y) /\ \A i, j \in DOMAIN y : y[i] = y[j] => i = j
  <2> HIDE DEF X, Y
  <2> QED BY <1>1, SetInSomeOrder, Zenon
<1>3. t = x \o y
  OBVIOUS
<1>4. ASSUME NEW a \in U PROVE IsAttachment(a) /\ Counted(a.value)
  BY ReadValues
<1>5. \A a, b \in X : a.name = b.name => a = b
  BY ReadDistinct
<1>6. \A a, b \in Y : a.name = b.name => a = b
  <2>1. \A r, s \in p.rels : (r.type \in types /\ s.type \in types /\ r.target = s.target) => r.type = s.type
    BY Zenon DEF extractCustomDataFromRelationships
  <2> QED BY <2>1, ReadDistinct
<1>7. ASSUME NEW a \in X, NEW b \in Y, a.name = b.name PROVE FALSE
  <2>1. PICK r \in p.rels : r.type \in {"texture"} /\ r.target = a.name
    BY ReadValues
  <2>2. PICK s \in p.rels : s.type \in types /\ s.target = b.name
    BY ReadValues
  <2>3. s = r
    <3>1. r.type \in types \cup {"texture"} /\ s.target = r.target
      BY <1>7, <2>1, <2>2
    <3> QED BY <2>2, <3>1, Zenon DEF extractCustomDataFromRelationships
  <2>4. "texture" \notin {"custom", "toolpath"}
    OBVIOUS
  <2> QED BY <2>1, <2>2, <2>3, <2>4
<1> HIDE DEF x, y
<1>8. x \in Seq(U) /\ y \in Seq(U)
  <2> HIDE DEF X, Y
  <2> QED BY <1>2
<1>9. \A i \in DOMAIN x : x[i] \in X
  <2> HIDE DEF X
  <2> QED BY <1>2
<1>10. \A i \in DOMAIN y : y[i] \in Y
  <2> HIDE DEF Y
  <2> QED BY <1>2
<1> DEFINE m == Len(x)
           n == Len(y)
<1>11. /\ m \in Nat /\ n \in Nat /\ DOMAIN x = 1..m /\ DOMAIN y = 1..n
       /\ t \in Seq(U) /\ DOMAIN t = 1..(m + n)
       /\ \A k \in 1..m : t[k] = x[k]
       /\ \A k \in 1..n : t[m + k] = y[k]
  <2> HIDE DEF U
  <2> DEFINE z == x \o y
  <2>1. /\ Len(x) \in Nat /\ Len(y) \in Nat
        /\ z \in Seq(U) /\ Len(z) = Len(x) + Len(y)
        /\ DOMAIN z = 1..(Len(x) + Len(y))
        /\ \A k \in 1..Len(x) : z[k] = x[k]
        /\ \A k \in 1..Len(y) : z[Len(x) + k] = y[k]
    BY ONLY <1>8, Concat
  <2>2. DOMAIN x = 1..Len(x) /\ DOMAIN y = 1..Len(y)
    BY ONLY <1>8
  <2>3. t = z
    BY <1>3, Zenon
  <2> HIDE DEF z
  <2> QED BY <2>1, <2>2, <2>3, Zenon
<1> HIDE DEF X, Y, U, m, n
<1>12. IsList(t)
  BY <1>11, SeqIsList
<1>13. \A i \in DOMAIN t : IsAttachment(t[i]) /\ Counted(t[i].value)
  <2>1. \A i \in DOMAIN t : t[i] \in U
    BY <1>11
  <2> QED BY <1>4, <2>1, Zenon
<1>14. ASSUME NEW i \in DOMAIN t PROVE i \in 1..m \/ \E k \in 1..n : i = m + k
  <2>1. m \in Nat /\ n \in Nat /\ i \in 1..(m + n)
    BY <1>11
  <2> QED BY ONLY <2>1, SplitPlace
<1>15. ASSUME NEW i \in DOMAIN t, NEW j \in DOMAIN t, t[i].name = t[j].name PROVE i = j
  <2>1. CASE i \in 1..m /\ j \in 1..m
    <3>1. x[i].name = x[j].name /\ x[i] \in X /\ x[j] \in X
      BY <1>9, <1>11, <1>15, <2>1, Zenon
    <3> QED BY <1>2, <1>5, <1>11, <2>1, <3>1, Zenon
  <2>2. ASSUME i \in 1..m, NEW k \in 1..n, j = m + k PROVE FALSE
    <3>1. x[i].name = y[k].name /\ x[i] \in X /\ y[k] \in Y
      BY <1>9, <1>10, <1>11, <1>15, <2>2, Zenon
    <3> QED BY <1>7, <3>1, Zenon
  <2>3. ASSUME j \in 1..m, NEW k \in 1..n, i = m + k PROVE FALSE
    <3>1. x[j].name = y[k].name /\ x[j] \in X /\ y[k] \in Y
      BY <1>9, <1>10, <1>11, <1>15, <2>3, Zenon
    <3> QED BY <1>7, <3>1, Zenon
  <2>4. ASSUME NEW k \in 1..n, NEW l \in 1..n, i = m + k, j = m + l PROVE i = j
    <3>1. y[k].name = y[l].name /\ y[k] \in Y /\ y[l] \in Y
      BY <1>10, <1>11, <1>15, <2>4, Zenon
    <3> QED BY <1>2, <1>6, <1>11, <2>4, <3>1, Zenon
  <2> QED BY <1>14, <2>1, <2>2, <2>3, <2>4, Zenon
<1> QED BY <1>12, <1>13, <1>15, Zenon DEF AttachmentList

(* TargetsFinite: finitely many targets.                                   *)
LEMMA TargetsFinite ==
  ASSUME NEW p, IsPackage(p), NEW types
  PROVE  IsFiniteSet(TargetsOf(p, types))
<1> DEFINE R == {q \in p.rels : q.type \in types}
           T == TargetsOf(p, types)
           f == [r \in R |-> r.target]
<1>1. IsFiniteSet(R)
  BY FS_Subset DEF IsPackage
<1>2. T = {f[r] : r \in R} /\ f = [r \in R |-> f[r]]
  BY DEF TargetsOf
<1> HIDE DEF f, R, T
<1>3. f \in Surjection(R, T)
  BY <1>2 DEF Surjection
<1>4. IsFiniteSet(T)
  BY <1>1, <1>3, FS_Surjection
<1> QED BY <1>4 DEF T

(* ReadStacksList: the slice stacks of a model that was read.              *)
LEMMA ReadStacksList ==
  ASSUME NEW p, IsPackage(p), PartsCounted(p), extractModelDataFromRelationships(p)
  PROVE  /\ IsList(ReadStacks(p))
         /\ \A k \in DOMAIN ReadStacks(p) : \E name \in TargetsOf(p, {"model"}) :
              ReadStacks(p)[k] = [leading |-> TRUE, name |-> name]
<1> DEFINE T == TargetsOf(p, {"model"})
           names == SetToSeq(T)
           S == {[leading |-> TRUE, name |-> name] : name \in T}
           List(i) == [k \in 1..Entry(p, names[i]).value[2] |-> [leading |-> TRUE, name |-> names[i]]]
           lists == [i \in DOMAIN names |-> List(i)]
<1>1. IsFiniteSet(T)
  BY TargetsFinite
<1>2. names \in Seq(T)
  <2> HIDE DEF T
  <2> QED BY <1>1, SetInSomeOrder
<1> HIDE DEF names
<1>3. DOMAIN names = 1..Len(names) /\ Len(names) \in Nat /\ \A i \in DOMAIN names : names[i] \in T
  <2> HIDE DEF T
  <2> QED BY <1>2
<1>4. ASSUME NEW i \in DOMAIN names PROVE List(i) \in Seq(S)
  <2>1. names[i] \in T
    BY <1>3
  <2>2. names[i] \in Names(p) /\ Entry(p, names[i]).value[1] = "slices"
    BY <2>1, Zenon DEF extractModelDataFromRelationships
  <2>3. PICK j \in DOMAIN p.parts : Entry(p, names[i]) = p.parts[j]
    BY <2>2, EntryNamed
  <2>4. Entry(p, names[i]).value[2] \in Nat
    BY <2>2, <2>3, Zenon DEF PartsCounted, Counted
  <2>5. [leading |-> TRUE, name |-> names[i]] \in S
    BY <2>1
  <2> DEFINE n == Entry(p, names[i]).value[2]
             e == [leading |-> TRUE, name |-> names[i]]
  <2> HIDE DEF n, e, S
  <2>6. n \in Nat /\ e \in S
    BY <2>4, <2>5 DEF n, e
  <2>7. [k \in 1..n |-> e] \in Seq(S)
    BY <2>6
  <2> QED BY <2>7 DEF n, e
<1> HIDE DEF S, T
<1>5. lists \in Seq(Seq(S))
  <2> HIDE DEF List
  <2> QED BY <1>3, <1>4
<1>6. FlattenSeq(lists) \in Seq(S)
  <2> HIDE DEF lists
  <2> QED BY <1>5, FlattenType
<1>7. ReadStacks(p) = FlattenSeq(lists)
  BY DEF ReadStacks, names, T
<1>8. \A x \in S : \E name \in T : x = [leading |-> TRUE, name |-> name]
  BY DEF S
<1>9. \A k \in DOMAIN ReadStacks(p) : ReadStacks(p)[k] \in S
  BY <1>6, <1>7
<1>10. IsList(ReadStacks(p))
  BY <1>6, <1>7, SeqIsList
<1> QED BY <1>8, <1>9, <1>10, Zenon DEF T

(* OneIn: a list of anything with one element in front of the i-th.        *)
LEMMA OneIn ==
  ASSUME NEW S, NEW s \in Seq(S), NEW i \in 1..(Len(s) + 1), NEW e \in S
  PROVE  InsertAt(s, i, e) \in Seq(S) /\ Len(InsertAt(s, i, e)) = Len(s) + 1
<1>1. SubSeq(s, 1, i - 1) \in Seq(S) /\ Len(SubSeq(s, 1, i - 1)) = i - 1
  OBVIOUS
<1>2. SubSeq(s, i, Len(s)) \in Seq(S) /\ Len(SubSeq(s, i, Len(s))) = Len(s) - i + 1
  OBVIOUS
<1>3. <<e>> \in Seq(S) /\ Len(<<e>>) = 1 /\ Len(s) \in Nat
  OBVIOUS
<1> DEFINE a == SubSeq(s, 1, i - 1)
           b == SubSeq(s, i, Len(s))
           c == <<e>>
<1>4. InsertAt(s, i, e) = a \o c \o b
  BY DEF InsertAt
<1> HIDE DEF a, b, c
<1>5. a \o c \in Seq(S) /\ Len(a \o c) = Len(a) + Len(c)
  BY <1>1, <1>3, Concat DEF a, c
<1> DEFINE d == a \o c
<1> HIDE DEF d
<1>6. d \o b \in Seq(S) /\ Len(d \o b) = Len(d) + Len(b)
  BY <1>2, <1>5, Concat DEF b, d
<1>7. Len(a) = i - 1 /\ Len(b) = Len(s) - i + 1 /\ Len(c) = 1 /\ Len(d) = Len(a) + Len(c)
  BY <1>1, <1>2, <1>3, <1>5 DEF a, b, c, d
<1> QED BY <1>3, <1>4, <1>6, <1>7 DEF d

-----------------------------------------------------------------------------
(* Exporting again: the steps.                                             *)

(* ArrayAdded: a stream gets an array.                                     *)
LEMMA ArrayAdded ==
  ASSUME streams \in Seq(Streams), NEW i \in DOMAIN streams, streams' = [streams EXCEPT ![i].arrays = @ + 1]
  PROVE  /\ streams' \in Seq(Streams) /\ Len(streams') = Len(streams) /\ DOMAIN streams' = DOMAIN streams
         /\ streams'[i].arrays > 0
<1> DEFINE z == [streams[i] EXCEPT !.arrays = @ + 1]
<1>1. streams[i] \in Streams
  OBVIOUS
<1>2. z \in Streams /\ z.arrays > 0
  <2> DEFINE s == streams[i]
  <2>1. s \in Streams /\ z = [s EXCEPT !.arrays = s.arrays + 1]
    BY <1>1
  <2> HIDE DEF s, z
  <2>2. s.arrays \in Nat /\ s.arrays + 1 \in Nat /\ s.arrays + 1 > 0
    BY ONLY <2>1 DEF Streams
  <2>3. z.arrays = s.arrays + 1 /\ z \in Streams
    BY ONLY <2>1, <2>2 DEF Streams
  <2> QED BY <2>2, <2>3
<1>3. streams' = [streams EXCEPT ![i] = z]
  OBVIOUS
<1> HIDE DEF z
<1>4. /\ streams' \in Seq(Streams) /\ Len(streams') = Len(streams) /\ DOMAIN streams' = DOMAIN streams
      /\ streams'[i] = z
  BY ONLY streams \in Seq(Streams), i \in DOMAIN streams, <1>2, <1>3
<1> QED BY <1>2, <1>4

(* StreamFinished: a stream is finished.                                   *)
LEMMA StreamFinished ==
  ASSUME streams \in Seq(Streams), NEW i \in DOMAIN streams, streams' = [streams EXCEPT ![i].finished = TRUE]
  PROVE  /\ streams' \in Seq(Streams) /\ Len(streams') = Len(streams) /\ DOMAIN streams' = DOMAIN streams
         /\ streams'[i].finished /\ streams'[i].path = streams[i].path /\ streams'[i].arrays = streams[i].arrays
         /\ \A j \in DOMAIN streams : j # i => streams'[j] = streams[j]
<1> DEFINE z == [streams[i] EXCEPT !.finished = TRUE]
<1>1. streams[i] \in Streams
  OBVIOUS
<1>2. z \in Streams /\ z.path = streams[i].path /\ z.arrays = streams[i].arrays
  BY <1>1 DEF Streams
<1>3. z.finished
  BY <1>1 DEF Streams
<1>4. streams' = [streams EXCEPT ![i] = z]
  OBVIOUS
<1> HIDE DEF z
<1>5. /\ streams' \in Seq(Streams) /\ Len(streams') = Len(streams) /\ DOMAIN streams' = DOMAIN streams
      /\ streams'[i] = z /\ \A j \in DOMAIN streams : j # i => streams'[j] = streams[j]
  BY ONLY streams \in Seq(Streams), i \in DOMAIN streams, <1>2, <1>4
<1> QED BY <1>2, <1>3, <1>5, Zenon

(* ContentsStay: what is written does not change when a stream is finished.*)
LEMMA ContentsStay ==
  ASSUME UNCHANGED <<thumbnail, m_AdditionalAttachments>>, DOMAIN streams' = DOMAIN streams,
         \A j \in DOMAIN streams : streams'[j].path = streams[j].path /\ streams'[j].arrays = streams[j].arrays
  PROVE  Contents' = Contents
<1>1. [j \in DOMAIN streams' |-> [path |-> streams'[j].path, arrays |-> streams'[j].arrays]]
        = [j \in DOMAIN streams |-> [path |-> streams[j].path, arrays |-> streams[j].arrays]]
  OBVIOUS
<1>2. Layers' = Layers /\ thumbnail' = thumbnail
  BY DEF Layers
<1> QED BY <1>1, <1>2, Zenon DEF Contents

(* ContentsFacts: the lists a package of the model is built from.          *)
LEMMA ContentsFacts ==
  ASSUME Lists
  PROVE  /\ Ordered(Contents, m_Attachments)
         /\ Contents.thumbnail = thumbnail
         /\ DOMAIN Contents.streams = DOMAIN streams /\ Len(Contents.streams) = Len(streams)
         /\ \A j \in DOMAIN streams : /\ Contents.streams[j].path = streams[j].path
                                      /\ Contents.streams[j].arrays = streams[j].arrays
         /\ Contents.layers = Layers /\ IsList(Layers)
<1>1. streams \in Seq(Streams) /\ IsFiniteSet(m_AdditionalAttachments) /\ IsList(m_Attachments)
  BY Zenon DEF Lists, AttachmentList
<1>2. IsList(Layers)
  BY <1>1, SetInSomeOrder, Zenon DEF Layers
<1> DEFINE ss == [j \in DOMAIN streams |-> [path |-> streams[j].path, arrays |-> streams[j].arrays]]
<1>3. /\ DOMAIN streams = 1..Len(streams) /\ Len(streams) \in Nat
      /\ DOMAIN ss = DOMAIN streams /\ ss = [j \in DOMAIN streams |-> ss[j]]
      /\ \A j \in DOMAIN streams : ss[j].path = streams[j].path /\ ss[j].arrays = streams[j].arrays
  BY <1>1
<1>4. Contents.thumbnail = thumbnail /\ Contents.streams = ss /\ Contents.layers = Layers
  BY DEF Contents
<1> HIDE DEF ss
<1>5. IsList(ss) /\ Len(ss) = Len(streams)
  BY <1>3, FunctionIsList
<1>6. Ordered(Contents, m_Attachments)
  BY <1>1, <1>2, <1>4, <1>5, Zenon DEF Ordered
<1> QED BY <1>2, <1>3, <1>4, <1>5, <1>6, Zenon

(* IdleEnds: nothing is said of an export that is over and not complete.   *)
LEMMA IdleEnds ==
  ASSUME pc' = "idle", stable' = FALSE
  PROVE  Progress' /\ StreamsClose' /\ Repeats'
<1>1. pc' \notin {"root", "thumbnail", "slices", "attachments", "streams", "layers"}
  OBVIOUS
<1>2. Progress'
  BY <1>1 DEF Progress
<1>3. StreamsClose'
  BY <1>1 DEF StreamsClose
<1> QED BY <1>2, <1>3 DEF Repeats

(* EmptyCounted: a package without parts.                                  *)
LEMMA EmptyCounted == PartsCounted(NoPackage)
BY DEF PartsCounted, NoPackage

(* ClientLists: what clients do to the lists.                              *)
LEMMA ClientLists ==
  ASSUME Lists, ClientNext
  PROVE  Lists' /\ pc' = "idle" /\ stable' = FALSE
<1>0. /\ AttachmentList(m_Attachments) /\ IsList(m_sOwnPath)
      /\ streams \in Seq(Streams) /\ assigned \in 0..Len(streams)
      /\ IsFiniteSet(m_AdditionalAttachments) /\ PartsCounted(package)
  BY Zenon DEF Lists
<1>1. pc = "idle" /\ pc' = pc /\ archive' = NoPackage /\ package' = package /\ stable' = FALSE
  BY DEF ClientNext, ClientStep, AddAttachment, CreatePackageThumbnailAttachment, AddSliceStack,
         CreateBinaryStream, FinishLayer, SetOwnPath, SetContent, AssignBinaryStream, AddArray
<1>2. PartsCounted(package') /\ PartsCounted(archive')
  BY <1>0, <1>1, EmptyCounted, Zenon
<1> DEFINE AttsOK == AttachmentList(m_Attachments') /\ UNCHANGED <<m_sOwnPath, writerVars>>
           OwnOK == IsList(m_sOwnPath') /\ UNCHANGED <<m_Attachments, writerVars>>
           StreamsOK == /\ streams' \in Seq(Streams) /\ assigned' \in 0..Len(streams')
                        /\ UNCHANGED <<modelVars, m_AdditionalAttachments>>
           LayersOK == IsFiniteSet(m_AdditionalAttachments') /\ UNCHANGED <<modelVars, streams, assigned>>
<1>3. ASSUME NEW name \in PartNames, NEW type \in ClientTypes, AddAttachment(name, type) PROVE AttsOK
  <2> DEFINE a == [name |-> name, type |-> type, value |-> <<"data", name, type>>]
  <2>1. m_Attachments' = Append(m_Attachments, a) /\ ~Known(name) /\ UNCHANGED <<m_sOwnPath, writerVars>>
    BY <1>3 DEF AddAttachment
  <2>2. a = [name |-> a.name, type |-> a.type, value |-> a.value] /\ a.name = name /\ a.value = <<"data", name, type>>
    OBVIOUS
  <2>3. <<"data", name, type>>[1] # "slices"
    OBVIOUS
  <2> HIDE DEF a
  <2>4. IsAttachment(a) /\ Counted(a.value)
    BY <2>2, <2>3, Zenon DEF IsAttachment, Counted
  <2>5. \A i \in DOMAIN m_Attachments : m_Attachments[i].name # a.name
    BY <2>1, <2>2, Zenon DEF Known
  <2>6. AttachmentList(m_Attachments')
    BY <1>0, <2>1, <2>4, <2>5, OneMoreAttachment
  <2> QED BY <2>1, <2>6
<1>4. ASSUME NEW path \in Paths, AddSliceStack(path) PROVE OwnOK
  <2>1. m_sOwnPath' = Append(m_sOwnPath, path) /\ UNCHANGED <<m_Attachments, writerVars>>
    BY <1>4 DEF AddSliceStack
  <2>2. IsList(m_sOwnPath')
    BY <1>0, <2>1, ListAppend
  <2> QED BY <2>1, <2>2
<1>5. ASSUME NEW stack, NEW path \in Paths, SetOwnPath(stack, path) PROVE OwnOK
  <2>1. m_sOwnPath' = [m_sOwnPath EXCEPT ![stack] = path] /\ UNCHANGED <<m_Attachments, writerVars>>
    BY <1>5 DEF SetOwnPath, modelVars
  <2>2. DOMAIN m_sOwnPath = 1..Len(m_sOwnPath) /\ Len(m_sOwnPath) \in Nat
    BY <1>0, ListFacts
  <2>3. m_sOwnPath' = [k \in 1..Len(m_sOwnPath) |-> m_sOwnPath'[k]]
    BY <2>1, <2>2
  <2>4. IsList(m_sOwnPath')
    BY <2>2, <2>3, FunctionIsList
  <2> QED BY <2>1, <2>4
<1>6. ASSUME NEW path \in Paths, CreateBinaryStream(path) PROVE StreamsOK
  <2> DEFINE s == [path |-> path, arrays |-> 0, finished |-> FALSE]
  <2>1. PICK i \in 1..Len(streams) + 1 :
          /\ streams' = InsertAt(streams, i, s)
          /\ assigned' = IF assigned >= i THEN assigned + 1 ELSE assigned
    BY <1>6 DEF CreateBinaryStream
  <2>2. s \in Streams
    BY DEF Streams
  <2> HIDE DEF s
  <2>3. streams' \in Seq(Streams) /\ Len(streams') = Len(streams) + 1
    BY <1>0, <2>1, <2>2, OneIn
  <2>4. Len(streams) \in Nat
    BY <1>0
  <2>5. assigned' \in 0..Len(streams')
    BY <1>0, <2>1, <2>3, <2>4
  <2> QED BY <1>6, <2>3, <2>5 DEF CreateBinaryStream
<1>7. ASSUME NEW s, AssignBinaryStream(s) PROVE StreamsOK
  BY <1>0, <1>7 DEF AssignBinaryStream
<1>8. ASSUME NEW s, AddArray(s) PROVE StreamsOK
  <2>1. s \in DOMAIN streams /\ streams' = [streams EXCEPT ![s].arrays = @ + 1]
    BY <1>8 DEF AddArray
  <2>2. streams' \in Seq(Streams) /\ Len(streams') = Len(streams)
    BY <1>0, <2>1, ArrayAdded
  <2> QED BY <1>0, <1>8, <2>2 DEF AddArray
<1>9. ASSUME NEW path \in Paths, FinishLayer(path) PROVE LayersOK
  <2>1. m_AdditionalAttachments' = m_AdditionalAttachments \cup {path}
    BY <1>9 DEF FinishLayer
  <2>2. IsFiniteSet(m_AdditionalAttachments')
    BY <1>0, <2>1, FS_AddElement
  <2> QED BY <1>9, <2>2 DEF FinishLayer
<1>10. ASSUME CreatePackageThumbnailAttachment PROVE AttsOK
  BY <1>0, <1>10 DEF CreatePackageThumbnailAttachment
<1>11. ASSUME NEW what, SetContent(what) PROVE AttsOK
  BY <1>0, <1>11 DEF SetContent
<1>12. CASE AttsOK
  <2>1. /\ AttachmentList(m_Attachments') /\ m_sOwnPath' = m_sOwnPath
        /\ streams' = streams /\ assigned' = assigned /\ m_AdditionalAttachments' = m_AdditionalAttachments
    BY <1>12 DEF writerVars
  <2>2. /\ AttachmentList(m_Attachments') /\ IsList(m_sOwnPath')
        /\ streams' \in Seq(Streams) /\ assigned' \in 0..Len(streams')
        /\ IsFiniteSet(m_AdditionalAttachments')
    BY <1>0, <2>1
  <2> QED BY <1>1, <1>2, <2>2 DEF Lists
<1>13. CASE OwnOK
  <2>1. /\ IsList(m_sOwnPath') /\ m_Attachments' = m_Attachments
        /\ streams' = streams /\ assigned' = assigned /\ m_AdditionalAttachments' = m_AdditionalAttachments
    BY <1>13 DEF writerVars
  <2>2. /\ AttachmentList(m_Attachments') /\ IsList(m_sOwnPath')
        /\ streams' \in Seq(Streams) /\ assigned' \in 0..Len(streams')
        /\ IsFiniteSet(m_AdditionalAttachments')
    BY <1>0, <2>1
  <2> QED BY <1>1, <1>2, <2>2 DEF Lists
<1>14. CASE StreamsOK
  <2>1. /\ streams' \in Seq(Streams) /\ assigned' \in 0..Len(streams')
        /\ m_Attachments' = m_Attachments /\ m_sOwnPath' = m_sOwnPath
        /\ m_AdditionalAttachments' = m_AdditionalAttachments
    BY <1>14 DEF modelVars
  <2>2. /\ AttachmentList(m_Attachments') /\ IsList(m_sOwnPath')
        /\ streams' \in Seq(Streams) /\ assigned' \in 0..Len(streams')
        /\ IsFiniteSet(m_AdditionalAttachments')
    BY <1>0, <2>1
  <2> QED BY <1>1, <1>2, <2>2 DEF Lists
<1>15. CASE LayersOK
  <2>1. /\ IsFiniteSet(m_AdditionalAttachments')
        /\ m_Attachments' = m_Attachments /\ m_sOwnPath' = m_sOwnPath
        /\ streams' = streams /\ assigned' = assigned
    BY <1>15 DEF modelVars
  <2>2. /\ AttachmentList(m_Attachments') /\ IsList(m_sOwnPath')
        /\ streams' \in Seq(Streams) /\ assigned' \in 0..Len(streams')
        /\ IsFiniteSet(m_AdditionalAttachments')
    BY <1>0, <2>1
  <2> QED BY <1>1, <1>2, <2>2 DEF Lists
<1> HIDE DEF AttsOK, OwnOK, StreamsOK, LayersOK
<1>16. AttsOK \/ OwnOK \/ StreamsOK \/ LayersOK
  BY <1>3, <1>4, <1>5, <1>6, <1>7, <1>8, <1>9, <1>10, <1>11, Zenon DEF ClientNext
<1> QED BY <1>1, <1>12, <1>13, <1>14, <1>15, <1>16

(* ReadLists: what a package is read into.                                 *)
LEMMA ReadLists ==
  ASSUME PackageInv, Lists, NEW types \in SUBSET {"custom", "toolpath"}, Read(types)
  PROVE  Lists' /\ pc' = "idle" /\ stable' = FALSE
<1> DEFINE atts == SetToSeq(ReadAttachments(archive, {"texture"})) \o SetToSeq(ReadAttachments(archive, types))
           stacks == ReadStacks(archive)
<1>1. /\ pc = "idle" /\ pc' = pc /\ stable' = FALSE /\ archive' = NoPackage /\ package' = package
      /\ m_Attachments' = atts /\ m_sOwnPath' = stacks
      /\ streams' = << >> /\ assigned' = 0 /\ m_AdditionalAttachments' = {}
      /\ Readable(archive, types)
  BY DEF Read
<1>2. IsPackage(archive) /\ Linked(archive) /\ PartsCounted(archive) /\ PartsCounted(package)
  BY Zenon DEF PackageInv, ArchiveInv, Lists
<1>3. extractCustomDataFromRelationships(archive, types) /\ extractModelDataFromRelationships(archive)
  BY <1>1, Zenon DEF Readable
<1>4. types \subseteq {"custom", "toolpath"}
  OBVIOUS
<1>5. AttachmentList(atts)
  BY ONLY <1>2, <1>3, <1>4, ReadList
<1>6. IsList(stacks)
  BY ONLY <1>2, <1>3, ReadStacksList
<1> HIDE DEF atts, stacks
<1>7. streams' \in Seq(Streams) /\ assigned' \in 0..Len(streams')
  BY <1>1
<1>8. IsFiniteSet(m_AdditionalAttachments')
  BY <1>1, FS_EmptySet
<1>9. PartsCounted(package') /\ PartsCounted(archive')
  BY <1>1, <1>2, EmptyCounted
<1>10. AttachmentList(m_Attachments') /\ IsList(m_sOwnPath')
  BY <1>1, <1>5, <1>6
<1> QED BY <1>1, <1>7, <1>8, <1>9, <1>10 DEF Lists

(* ListsStay: what an export changes of the lists.                         *)
LEMMA ListsStay ==
  ASSUME Lists, UNCHANGED <<m_sOwnPath, assigned, m_AdditionalAttachments>>,
         AttachmentList(m_Attachments'), streams' \in Seq(Streams), Len(streams') = Len(streams),
         PartsCounted(package'), PartsCounted(archive')
  PROVE  Lists'
BY DEF Lists

(* LeaveCounted: the package an export left.                               *)
LEMMA LeaveCounted ==
  ASSUME NEW p, PartsCounted(p), NEW to, NEW result, Leave(p, to, result)
  PROVE  PartsCounted(package') /\ PartsCounted(archive')
<1>1. package' = NoPackage /\ archive' = p
  BY DEF Leave
<1> QED BY <1>1, EmptyCounted

(* ValuesCounted: what the parts of an export hold.                        *)
LEMMA ValuesCounted ==
  /\ Counted(RootValue)
  /\ Counted(<<"partial">>) /\ Counted(<<"thumbnail">>)
  /\ \A n : Counted(<<"binary", n>>) /\ Counted(<<"layer", n>>)
<1>1. RootValue[1] = "root"
  BY DEF RootValue
<1> QED BY <1>1 DEF Counted

(* SlicesCounted: the slices of a path are a number.                       *)
LEMMA SlicesCounted ==
  ASSUME IsList(m_sOwnPath), NEW path
  PROVE  Counted(SlicesValue(path)) /\ SlicesValue(path) = SlicesOf(m_sOwnPath, path)
<1> DEFINE I == {i \in DOMAIN m_sOwnPath : m_sOwnPath[i] = path}
<1>1. DOMAIN m_sOwnPath = 1..Len(m_sOwnPath) /\ Len(m_sOwnPath) \in Nat
  BY ListFacts
<1>2. IsFiniteSet(1..Len(m_sOwnPath))
  BY <1>1, FS_Interval
<1>3. IsFiniteSet(I)
  BY <1>1, <1>2, FS_Subset
<1>4. Cardinality(I) \in Nat
  BY <1>3, FS_CardinalityType
<1>5. SlicesValue(path) = <<"slices", Cardinality(I)>> /\ SlicesOf(m_sOwnPath, path) = <<"slices", Cardinality(I)>>
  BY DEF SlicesValue, SlicesOf
<1> HIDE DEF I
<1> QED BY <1>4, <1>5 DEF Counted

(* RepeatsStay: an export that repeats another goes on.                    *)
LEMMA RepeatsStay ==
  ASSUME Repeats, UNCHANGED <<archive, stable, m_sOwnPath, assigned, m_Attachments>>,
         stable => Contents' = Contents, Pending \subseteq Pending'
  PROVE  Repeats'
<1>1. ASSUME NEW c, NEW own, NEW stream, NEW given, NEW p, NEW names, NEW more, names \subseteq more,
             Exports(c, own, stream, given, names, p)
      PROVE  Exports(c, own, stream, given, more, p)
  <2>1. PICK atts : /\ Agree(atts, given, names) /\ Settled(own, atts, Len(own) + 1)
                    /\ \E v : RootFits(stream, v) /\ Built(c, atts, v, Steps(c, atts) + 1, p)
    BY <1>1, Zenon DEF Exports
  <2>2. Agree(atts, given, more)
    BY <1>1, <2>1, Zenon DEF Agree
  <2> QED BY <2>1, <2>2, Zenon DEF Exports
<1>2. CASE stable
  <2>1. Exports(Contents, m_sOwnPath, assigned, m_Attachments, Pending, archive)
    BY <1>2, Zenon DEF Repeats
  <2>2. Exports(Contents, m_sOwnPath, assigned, m_Attachments, Pending', archive)
    BY <1>1, <2>1, Zenon
  <2>3. Exports(Contents', m_sOwnPath', assigned', m_Attachments', Pending', archive')
    BY <1>2, <2>2, Zenon
  <2> QED BY <2>3, Zenon DEF Repeats
<1>3. CASE ~stable
  BY <1>3, Zenon DEF Repeats
<1> QED BY <1>2, <1>3

(* OutOfSlices: nothing is pending but in the loop over the slice stacks.  *)
LEMMA OutOfSlices ==
  ASSUME pc # "slices"
  PROVE  Pending = {}
BY DEF Pending

(* MeshWritten: the mesh is an array more of its stream.                   *)
LEMMA MeshWritten ==
  ASSUME Lists, WriteMesh
  PROVE  /\ streams' \in Seq(Streams) /\ Len(streams') = Len(streams)
         /\ assigned = 0 => streams' = streams
         /\ assigned # 0 => /\ assigned \in DOMAIN streams /\ streams'[assigned].arrays > 0
                            /\ DOMAIN streams' = DOMAIN streams
<1>1. streams \in Seq(Streams) /\ assigned \in 0..Len(streams)
  BY Zenon DEF Lists
<1>2. CASE assigned = 0
  BY <1>1, <1>2 DEF WriteMesh
<1>3. CASE assigned # 0
  <2>1. assigned \in DOMAIN streams
    BY <1>1, <1>3
  <2>2. streams' = [streams EXCEPT ![assigned].arrays = @ + 1]
    BY <1>3 DEF WriteMesh
  <2>3. /\ streams' \in Seq(Streams) /\ Len(streams') = Len(streams) /\ DOMAIN streams' = DOMAIN streams
        /\ streams'[assigned].arrays > 0
    BY <1>1, <2>1, <2>2, ArrayAdded
  <2> QED BY <1>3, <2>1, <2>3
<1> QED BY <1>2, <1>3

(* Ended: an export is over and not complete, and left the package p.      *)
LEMMA Ended ==
  ASSUME RepeatInv, NEW p, PartsCounted(p), NEW result, result # "complete", Leave(p, "idle", result),
         UNCHANGED <<m_sOwnPath, assigned, m_AdditionalAttachments, m_Attachments>>,
         streams' \in Seq(Streams), Len(streams') = Len(streams)
  PROVE  RepeatInv'
<1>1. pc' = "idle" /\ stable' = FALSE
  BY DEF Leave
<1>2. PartsCounted(package') /\ PartsCounted(archive')
  BY LeaveCounted
<1>3. Lists
  BY Zenon DEF RepeatInv
<1>4. AttachmentList(m_Attachments')
  BY <1>3, Zenon DEF Lists
<1>5. Lists'
  BY <1>2, <1>3, <1>4, ListsStay
<1>6. Progress' /\ StreamsClose' /\ Repeats'
  BY <1>1, IdleEnds
<1> QED BY <1>5, <1>6 DEF RepeatInv

(* PartialCounted: a part that is not copied to its end.                   *)
LEMMA PartialCounted ==
  ASSUME NEW p, IsPackage(p), PartsCounted(p), NEW name, NEW id, NEW type
  PROVE  LET u == addPart(p, name, <<"partial">>, FALSE)
         IN  PartsCounted(u) /\ PartsCounted(addRelationship(u, id, type, name))
<1> DEFINE whole == FALSE
           value == <<"partial">>
           u == addPart(p, name, value, whole)
           q == addRelationship(u, id, type, name)
<1>1. Counted(value)
  BY ValuesCounted
<1> HIDE DEF whole, value
<1>2. PartsCounted(u)
  BY <1>1, PartCounted
<1>3. PartsCounted(q)
  <2> HIDE DEF q, u
  <2>1. q = addRelationship(u, id, type, name) \/ q = addRootRelationship(u, id, type, name)
    BY DEF q
  <2>2. u = addPart(p, name, value, whole)
    BY DEF u
  <2> QED BY <1>1, <2>1, <2>2, RelatedCounted
<1> QED BY <1>2, <1>3 DEF whole, value

(* FailureRepeats: exceptions, aborts, and copies that fail.               *)
LEMMA FailureRepeats ==
  ASSUME PackageInv, RepeatInv,
         \/ AbortBeforePackage \/ writeModelStreamThrows \/ writeSliceStackStreamThrows
         \/ Abort \/ CopyFails
  PROVE  RepeatInv'
<1>0. /\ Lists /\ PartsCounted(package) /\ PartsCounted(archive) /\ IsPackage(package)
      /\ streams \in Seq(Streams) /\ AttachmentList(m_Attachments)
  BY Unfinished, Zenon DEF RepeatInv, Lists
<1> DEFINE Part(name) == addPart(package, name, <<"partial">>, FALSE)
           Kept == UNCHANGED <<m_sOwnPath, assigned, m_AdditionalAttachments, m_Attachments>>
<1>1. \A name : PartsCounted(Part(name))
  BY <1>0, PartialCounted
<1>2. \A name, id, type : PartsCounted(addRelationship(Part(name), id, type, name))
  BY <1>0, PartialCounted
<1>3. "aborted" # "complete" /\ "failed" # "complete" /\ "broken" # "complete"
  OBVIOUS
<1> HIDE DEF Part
<1>4. CASE AbortBeforePackage
  <2>1. /\ pc' = "idle" /\ stable' = FALSE /\ archive' = NoPackage /\ package' = package
        /\ UNCHANGED <<m_sOwnPath, assigned, m_AdditionalAttachments, m_Attachments, streams>>
    BY <1>4 DEF AbortBeforePackage, modelVars, writerVars
  <2>2. Progress' /\ StreamsClose' /\ Repeats'
    BY <2>1, IdleEnds
  <2>3. AttachmentList(m_Attachments') /\ streams' \in Seq(Streams) /\ Len(streams') = Len(streams)
    BY <1>0, <2>1
  <2>4. PartsCounted(package') /\ PartsCounted(archive')
    BY <1>0, <2>1, EmptyCounted
  <2>5. Lists'
    BY <1>0, <2>1, <2>3, <2>4, ListsStay
  <2> QED BY <2>2, <2>5 DEF RepeatInv
<1>5. CASE writeModelStreamThrows
  <2>1. Leave(Part(RootName), "idle", "failed") /\ Kept /\ (streams' = streams \/ WriteMesh)
    BY <1>5 DEF writeModelStreamThrows, modelVars, writerVars, Part
  <2>2. streams' \in Seq(Streams) /\ Len(streams') = Len(streams)
    <3>1. CASE streams' = streams
      BY <1>0, <3>1
    <3>2. CASE WriteMesh
      BY <1>0, <3>2, MeshWritten
    <3> QED BY <2>1, <3>1, <3>2
  <2> QED BY <1>0, <1>1, <1>3, <2>1, <2>2, Ended
<1>8. CASE writeSliceStackStreamThrows
  <2>1. Leave(package, "idle", "failed") /\ Kept /\ streams' = streams
    BY <1>8 DEF writeSliceStackStreamThrows, modelVars, writerVars
  <2>2. streams' \in Seq(Streams) /\ Len(streams') = Len(streams)
    BY <1>0, <2>1
  <2> QED BY <1>0, <1>3, <2>1, <2>2, Ended
<1>6. CASE Abort
  <2>1. /\ \/ pc = "root" /\ (streams' = streams \/ WriteMesh) /\ Leave(Part(RootName), "idle", "aborted")
           \/ Leave(package, "idle", "aborted") /\ streams' = streams
        /\ Kept
    BY <1>6 DEF Abort, modelVars, Part
  <2>2. streams' \in Seq(Streams) /\ Len(streams') = Len(streams)
    <3>1. streams' = streams \/ WriteMesh
      BY <2>1
    <3>2. CASE streams' = streams
      BY <1>0, <3>2
    <3>3. CASE WriteMesh
      BY <1>0, <3>3, MeshWritten
    <3> QED BY <3>1, <3>2, <3>3
  <2>3. CASE Leave(Part(RootName), "idle", "aborted")
    BY <1>0, <1>1, <1>3, <2>1, <2>2, <2>3, Ended
  <2>4. CASE Leave(package, "idle", "aborted")
    BY <1>0, <1>1, <1>3, <2>1, <2>2, <2>4, Ended
  <2> QED BY <2>1, <2>3, <2>4
<1>7. CASE CopyFails
  <2>1. /\ \/ \E name : Leave(Part(name), "idle", "broken") /\ streams' = streams
           \/ \E name : \E id : \E type : /\ Leave(addRelationship(Part(name), id, type, name), "idle", "broken")
                                          /\ \/ streams' = streams
                                             \/ next \in DOMAIN streams /\ streams' = [streams EXCEPT ![next].finished = TRUE]
        /\ Kept
    BY <1>7, Zenon DEF CopyFails, modelVars, Part
  <2>2. streams' \in Seq(Streams) /\ Len(streams') = Len(streams)
    <3>1. streams' = streams \/ (next \in DOMAIN streams /\ streams' = [streams EXCEPT ![next].finished = TRUE])
      BY <2>1
    <3>2. CASE streams' = streams
      BY <1>0, <3>2
    <3>3. CASE next \in DOMAIN streams /\ streams' = [streams EXCEPT ![next].finished = TRUE]
      BY <1>0, <3>3, StreamFinished
    <3> QED BY <3>1, <3>2, <3>3
  <2>3. ASSUME NEW name, Leave(Part(name), "idle", "broken") PROVE RepeatInv'
    BY <1>0, <1>1, <1>3, <2>1, <2>2, <2>3, Ended
  <2>4. ASSUME NEW name, NEW id, NEW type, Leave(addRelationship(Part(name), id, type, name), "idle", "broken")
        PROVE  RepeatInv'
    BY <1>0, <1>2, <1>3, <2>1, <2>2, <2>4, Ended
  <2> QED BY <2>1, <2>3, <2>4
<1> QED BY <1>4, <1>5, <1>6, <1>7, <1>8

(* SameContents: what a package is built from, when no list changes.       *)
LEMMA SameContents ==
  ASSUME UNCHANGED <<thumbnail, streams, m_AdditionalAttachments>>
  PROVE  Contents' = Contents
BY ContentsStay

(* FinishedIfStable: the mesh goes to no stream when an export repeats one *)
(* that completed: that stream is finished.                                *)
LEMMA FinishedIfStable ==
  ASSUME Lists, StreamsClose, stable, ~MeshThrows
  PROVE  assigned = 0
<1>1. assigned # 0 => assigned \in DOMAIN streams
  <2>1. streams \in Seq(Streams) /\ assigned \in 0..Len(streams)
    BY Zenon DEF Lists
  <2> QED BY <2>1
<1>2. assigned # 0 => streams[assigned].arrays > 0 /\ ~streams[assigned].finished
  BY Zenon DEF StreamsClose, MeshThrows
<1> QED BY <1>1, <1>2, Zenon DEF StreamsClose

(* StartRepeats: an export starts.                                         *)
LEMMA StartRepeats ==
  ASSUME RepeatInv, Start
  PROVE  RepeatInv'
<1>0. Lists /\ Progress /\ StreamsClose /\ Repeats
  BY Zenon DEF RepeatInv
<1>1. /\ pc = "idle" /\ pc' = "root" /\ package' = NoPackage /\ m_nRelationIDCounter' = 0
      /\ UNCHANGED <<m_Attachments, thumbnail, m_sOwnPath, streams, assigned, m_AdditionalAttachments, archive, stable>>
  BY DEF Start, modelVars
<1>2. Lists'
  <2>1. AttachmentList(m_Attachments) /\ streams \in Seq(Streams) /\ PartsCounted(archive)
    BY <1>0, Zenon DEF Lists
  <2>2. AttachmentList(m_Attachments') /\ streams' \in Seq(Streams) /\ Len(streams') = Len(streams)
        /\ PartsCounted(package') /\ PartsCounted(archive')
    BY <1>1, <2>1, EmptyCounted
  <2> QED BY <1>0, <1>1, <2>2, ListsStay
<1>3. Progress'
  BY <1>1 DEF Progress
<1>4. StreamsClose'
  BY <1>0, <1>1 DEF StreamsClose
<1>5. Repeats'
  <2>1. Contents' = Contents
    BY <1>1, SameContents
  <2>2. Pending = {}
    <3>1. pc # "slices"
      BY <1>1
    <3> QED BY <3>1, OutOfSlices
  <2> QED BY <1>0, <1>1, <2>1, <2>2, RepeatsStay
<1> QED BY <1>2, <1>3, <1>4, <1>5 DEF RepeatInv

(* CleanupRepeats: after the last query nothing has changed.               *)
LEMMA CleanupRepeats ==
  ASSUME RepeatInv, Cleanup \/ UNCHANGED vars
  PROVE  RepeatInv'
<1>0. Lists /\ Progress /\ StreamsClose /\ Repeats
  BY Zenon DEF RepeatInv
<1>1. /\ UNCHANGED <<m_Attachments, thumbnail, m_sOwnPath, streams, assigned, m_AdditionalAttachments, archive,
                     stable, package, m_nRelationIDCounter, next>>
      /\ pc' = pc \/ (pc = "cleanup" /\ pc' = "idle")
  BY DEF Cleanup, vars, modelVars, writerVars, exportVars
<1>2. Lists'
  <2>1. AttachmentList(m_Attachments) /\ streams \in Seq(Streams) /\ PartsCounted(archive) /\ PartsCounted(package)
    BY <1>0, Zenon DEF Lists
  <2>2. AttachmentList(m_Attachments') /\ streams' \in Seq(Streams) /\ Len(streams') = Len(streams)
        /\ PartsCounted(package') /\ PartsCounted(archive')
    BY <1>1, <2>1
  <2> QED BY <1>0, <1>1, <2>2, ListsStay
<1>3. Contents' = Contents /\ Pending \subseteq Pending'
  <2>1. Contents' = Contents
    BY <1>1, SameContents
  <2>2. pc' = pc => Pending' = Pending
    BY <1>1 DEF Pending
  <2>3. pc = "cleanup" => Pending = {}
    <3>1. pc = "cleanup" => pc # "slices"
      OBVIOUS
    <3> QED BY <3>1, OutOfSlices
  <2> QED BY <1>1, <2>1, <2>2, <2>3
<1>4. Repeats'
  BY <1>0, <1>1, <1>3, RepeatsStay
<1>5. StreamsClose'
  BY <1>0, <1>1 DEF StreamsClose
<1>6. Progress'
  <2>1. CASE pc' = pc
    <3>1. Layers' = Layers /\ Place' = Place
      BY <1>1, <2>1 DEF Layers, Place
    <3> QED BY <1>0, <1>1, <1>3, <2>1, <3>1 DEF Progress
  <2>2. CASE pc' = "idle"
    BY <2>2 DEF Progress
  <2> QED BY <1>1, <2>1, <2>2
<1> QED BY <1>2, <1>4, <1>5, <1>6 DEF RepeatInv

(* RootRepeats: the root model.                                            *)
LEMMA RootRepeats ==
  ASSUME RepeatInv, writeModelStream
  PROVE  RepeatInv'
<1>0. Lists /\ Progress /\ StreamsClose /\ Repeats
  BY Zenon DEF RepeatInv
<1>1. /\ pc = "root" /\ ~MeshThrows /\ WriteMesh
      /\ package' = addRootRelationship(addPart(package, RootName, RootValue, TRUE),
                                        generateRelationShipID, "model", RootName)
      /\ m_nRelationIDCounter' = m_nRelationIDCounter + 1 /\ pc' = "thumbnail"
      /\ UNCHANGED <<m_Attachments, thumbnail, m_sOwnPath, assigned, m_AdditionalAttachments, archive, stable>>
  BY DEF writeModelStream, RootThrows, modelVars, Goto
<1>2. /\ streams' \in Seq(Streams) /\ Len(streams') = Len(streams)
      /\ assigned = 0 => streams' = streams
      /\ assigned # 0 => streams'[assigned].arrays > 0
  BY <1>0, <1>1, MeshWritten
<1>3. stable => assigned = 0
  BY <1>0, <1>1, FinishedIfStable
<1>4. package = NoPackage /\ m_nRelationIDCounter = 0
  BY <1>0, <1>1, Zenon DEF Progress
<1>5. package' = RootPackage(RootValue)
  BY <1>1, <1>4, Zenon DEF RootPackage, generateRelationShipID
<1>6. RootFits(assigned, RootValue)
  BY DEF RootFits, RootValue, NoStream
<1>7. Lists'
  <2> DEFINE whole == TRUE
             value == RootValue
             u == addPart(package, RootName, value, whole)
             id == generateRelationShipID
  <2>1. Counted(value) /\ IsPackage(package) /\ PartsCounted(package)
    BY <1>4, ValuesCounted, EmptyCounted, EmptyPackage
  <2>2. package' = addRelationship(u, id, "model", RootName) \/ package' = addRootRelationship(u, id, "model", RootName)
    BY <1>1, Zenon
  <2> HIDE DEF whole, value, u, id
  <2>3. u = addPart(package, RootName, value, whole)
    BY Zenon DEF u
  <2>4. PartsCounted(package')
    BY ONLY <2>1, <2>2, <2>3, RelatedCounted
  <2>5. PartsCounted(archive') /\ AttachmentList(m_Attachments')
    BY <1>0, <1>1 DEF Lists
  <2> QED BY <1>0, <1>1, <1>2, <2>4, <2>5, ListsStay
<1>8. Progress'
  <2>1. m_nRelationIDCounter' = 1
    BY <1>1, <1>4
  <2>2. \E v : RootFits(assigned', v) /\ package' = RootPackage(v)
    BY <1>1, <1>5, <1>6, Zenon
  <2>3. pc' = "thumbnail"
    BY <1>1
  <2> QED BY <2>1, <2>2, <2>3 DEF Progress
<1>9. StreamsClose'
  BY <1>0, <1>1, <1>2, <1>3 DEF StreamsClose
<1>10. Repeats'
  <2>1. stable => Contents' = Contents
    BY <1>1, <1>2, <1>3, SameContents
  <2>2. Pending = {}
    <3>1. pc # "slices"
      BY <1>1
    <3> QED BY <3>1, OutOfSlices
  <2> QED BY <1>0, <1>1, <2>1, <2>2, RepeatsStay
<1> QED BY <1>7, <1>8, <1>9, <1>10 DEF RepeatInv

(* ThumbnailRepeats: the package thumbnail.                                *)
LEMMA ThumbnailRepeats ==
  ASSUME PackageInv, RepeatInv, WriteThumbnail
  PROVE  RepeatInv'
<1>0. Lists /\ Progress /\ StreamsClose /\ Repeats
  BY Zenon DEF RepeatInv
<1>1. /\ pc = "thumbnail" /\ pc' = "slices" /\ next' = 1
      /\ thumbnail => /\ package' = addRootRelationship(addPart(package, ThumbnailName, <<"thumbnail">>, TRUE),
                                                        generateRelationShipID, "thumbnail", ThumbnailName)
                      /\ m_nRelationIDCounter' = m_nRelationIDCounter + 1
      /\ ~thumbnail => package' = package /\ m_nRelationIDCounter' = m_nRelationIDCounter
      /\ UNCHANGED <<m_Attachments, thumbnail, m_sOwnPath, streams, assigned, m_AdditionalAttachments, archive, stable>>
  BY DEF WriteThumbnail, modelVars, Goto
<1>2. m_nRelationIDCounter = 1
  BY <1>0, <1>1, Zenon DEF Progress
<1>3. PICK v : RootFits(assigned, v) /\ package = RootPackage(v)
  BY <1>0, <1>1, Zenon DEF Progress
<1>4. package' = FrontPackage(thumbnail, v)
  <2>1. CASE thumbnail
    <3>1. package' = addRootRelationship(addPart(RootPackage(v), ThumbnailName, <<"thumbnail">>, TRUE),
                                         <<"rel", 1>>, "thumbnail", ThumbnailName)
      BY <1>1, <1>2, <1>3, <2>1, Zenon DEF generateRelationShipID
    <3> QED BY <2>1, <3>1, Zenon DEF FrontPackage
  <2>2. CASE ~thumbnail
    BY <1>1, <1>3, <2>2, Zenon DEF FrontPackage
  <2> QED BY <2>1, <2>2
<1>5. m_nRelationIDCounter' = IDsInFront(thumbnail)
  <2>1. CASE thumbnail
    <3>1. IDsInFront(thumbnail) = 2
      BY <2>1, Zenon DEF IDsInFront
    <3>2. m_nRelationIDCounter' = 2
      <4>1. m_nRelationIDCounter' = m_nRelationIDCounter + 1
        BY <1>1, <2>1, Zenon
      <4> QED BY ONLY <1>2, <4>1
    <3> QED BY <3>1, <3>2, Zenon
  <2>2. CASE ~thumbnail
    <3>1. IDsInFront(thumbnail) = 1
      BY <2>2, Zenon DEF IDsInFront
    <3> QED BY <1>1, <1>2, <2>2, <3>1, Zenon
  <2> QED BY <2>1, <2>2
<1>6. IsPackage(package) /\ PartsCounted(package) /\ PartsCounted(archive) /\ AttachmentList(m_Attachments) /\ IsList(m_sOwnPath)
      /\ streams \in Seq(Streams)
  BY <1>0, Unfinished, Zenon DEF Lists
<1>7. PartsCounted(package')
  <2>1. CASE thumbnail
    <3> DEFINE whole == TRUE
               value == <<"thumbnail">>
               u == addPart(package, ThumbnailName, value, whole)
               id == generateRelationShipID
    <3>1. Counted(value)
      BY ValuesCounted
    <3>2. \/ package' = addRelationship(u, id, "thumbnail", ThumbnailName)
          \/ package' = addRootRelationship(u, id, "thumbnail", ThumbnailName)
      BY <1>1, <2>1, Zenon
    <3> HIDE DEF whole, value, u, id
    <3>3. u = addPart(package, ThumbnailName, value, whole)
      BY Zenon DEF u
    <3> QED BY ONLY <1>6, <3>1, <3>2, <3>3, RelatedCounted
  <2>2. CASE ~thumbnail
    BY <1>1, <1>6, <2>2
  <2> QED BY <2>1, <2>2
<1>8. Lists'
  BY <1>0, <1>1, <1>6, <1>7, ListsStay
<1>9. Progress'
  <2>1. next' \in 1..(Len(m_sOwnPath') + 1) /\ Settled(m_sOwnPath', m_Attachments', next')
    <3>1. DOMAIN m_sOwnPath = 1..Len(m_sOwnPath) /\ Len(m_sOwnPath) \in Nat
      BY <1>6, ListFacts
    <3>2. \A k \in DOMAIN m_sOwnPath : ~(k < 1)
      BY <3>1
    <3>3. Settled(m_sOwnPath, m_Attachments, 1)
      BY <3>2, Zenon DEF Settled
    <3> QED BY <1>1, <3>1, <3>3
  <2>2. \E w : RootFits(assigned', w) /\ package' = FrontPackage(thumbnail', w)
    BY <1>1, <1>3, <1>4, Zenon
  <2>3. pc' = "slices" /\ m_nRelationIDCounter' = IDsInFront(thumbnail')
    BY <1>1, <1>5
  <2> QED BY <2>1, <2>2, <2>3 DEF Progress
<1>10. StreamsClose'
  BY <1>0, <1>1 DEF StreamsClose
<1>11. Repeats'
  <2>1. Contents' = Contents
    BY <1>1, SameContents
  <2>2. Pending = {}
    <3>1. pc # "slices"
      BY <1>1
    <3> QED BY <3>1, OutOfSlices
  <2> QED BY <1>0, <1>1, <2>1, <2>2, RepeatsStay
<1> QED BY <1>8, <1>9, <1>10, <1>11 DEF RepeatInv

(* SettledMore: the next slice stack has its attachment.                   *)
LEMMA SettledMore ==
  ASSUME NEW own, IsList(own), NEW atts, NEW n \in DOMAIN own, Settled(own, atts, n),
         NEW t, NEW i \in DOMAIN t,
         t[i].name = own[n].name, t[i].type = "model", t[i].value = SlicesOf(own, own[n]),
         \A j \in DOMAIN atts : atts[j].name # own[n].name => j \in DOMAIN t /\ t[j] = atts[j]
  PROVE  Settled(own, t, n + 1)
<1> DEFINE IsLast(k, m) == \A l \in DOMAIN own : (k < l /\ l < m) => own[l].name # own[k].name
<1>0. DOMAIN own = 1..Len(own) /\ Len(own) \in Nat
  BY ListFacts
<1>1. n \in Nat /\ n < n + 1 /\ \A k \in DOMAIN own : k \in Nat /\ (k < n + 1 => k < n \/ k = n)
  BY <1>0
<1>2. ASSUME NEW k \in DOMAIN own, k < n + 1
      PROVE  \E j \in DOMAIN t : /\ t[j].name = own[k].name /\ t[j].type = "model"
                                 /\ IsLast(k, n + 1) => t[j].value = SlicesOf(own, own[k])
  <2>1. CASE own[k].name = own[n].name
    <3>1. IsLast(k, n + 1) => k = n
      BY <1>1, <1>2, <2>1, Zenon
    <3> HIDE DEF IsLast
    <3> QED BY <2>1, <3>1, Zenon
  <2>2. CASE own[k].name # own[n].name
    <3>1. k < n
      BY <1>1, <1>2, <2>2, Zenon
    <3>2. PICK j \in DOMAIN atts : /\ atts[j].name = own[k].name /\ atts[j].type = "model"
                                   /\ IsLast(k, n) => atts[j].value = SlicesOf(own, own[k])
      BY <3>1, Zenon DEF Settled
    <3>3. j \in DOMAIN t /\ t[j] = atts[j]
      BY <2>2, <3>2, Zenon
    <3>4. IsLast(k, n + 1) => IsLast(k, n)
      BY <1>1
    <3> HIDE DEF IsLast
    <3> QED BY <3>2, <3>3, <3>4, Zenon
  <2> QED BY <2>1, <2>2
<1> QED BY <1>2, Zenon DEF Settled

(* SliceFound: an export that repeats another finds the attachment of each *)
(* slice stack.                                                            *)
LEMMA SliceFound ==
  ASSUME NEW own, IsList(own), NEW given, IsList(given), NEW atts, NEW names, Agree(atts, given, names),
         Settled(own, atts, Len(own) + 1), NEW n \in DOMAIN own
  PROVE  \E i \in DOMAIN given :
           /\ i \in DOMAIN atts /\ atts[i].name = own[n].name
           /\ given[i].name = own[n].name /\ given[i].type = "model"
           /\ (\A l \in DOMAIN own : n < l => own[l].name # own[n].name)
                => atts[i].value = SlicesOf(own, own[n])
<1>1. DOMAIN own = 1..Len(own) /\ Len(own) \in Nat
  BY ListFacts
<1>2. n < Len(own) + 1
  BY <1>1
<1>3. PICK i \in DOMAIN atts :
        /\ atts[i].name = own[n].name /\ atts[i].type = "model"
        /\ (\A l \in DOMAIN own : (n < l /\ l < Len(own) + 1) => own[l].name # own[n].name)
             => atts[i].value = SlicesOf(own, own[n])
  BY <1>2, Zenon DEF Settled
<1>4. DOMAIN atts = DOMAIN given
  BY ListFacts DEF Agree
<1>5. given[i].name = own[n].name /\ given[i].type = "model"
  BY <1>3, <1>4, Zenon DEF Agree
<1> QED BY <1>3, <1>4, <1>5, Zenon

(* AgreeMore: and puts the slices into it that were there.                 *)
LEMMA AgreeMore ==
  ASSUME NEW own, IsList(own), NEW given, AttachmentList(given), NEW atts, NEW n \in DOMAIN own,
         NEW names, names = {own[k].name : k \in {l \in DOMAIN own : n <= l}},
         NEW more, more = {own[k].name : k \in {l \in DOMAIN own : n + 1 <= l}},
         Agree(atts, given, names), Settled(own, atts, Len(own) + 1),
         NEW i \in DOMAIN given, given[i].name = own[n].name,
         NEW t, Replaced(given, i, SlicesOf(own, own[n]), t)
  PROVE  Agree(atts, t, more)
<1>1. IsList(given)
  BY Zenon DEF AttachmentList
<1>2. /\ Len(t) = Len(given) /\ DOMAIN t = DOMAIN given
      /\ IsAttachment(t[i])
      /\ t[i].name = given[i].name /\ t[i].type = given[i].type /\ t[i].value = SlicesOf(own, own[n])
      /\ \A j \in DOMAIN given : j # i => t[j] = given[j]
  BY Zenon DEF Replaced
<1>3. PICK f \in DOMAIN given :
        /\ f \in DOMAIN atts /\ atts[f].name = own[n].name
        /\ given[f].name = own[n].name /\ given[f].type = "model"
        /\ (\A l \in DOMAIN own : n < l => own[l].name # own[n].name)
             => atts[f].value = SlicesOf(own, own[n])
  BY <1>1, SliceFound
<1>4. f = i
  BY <1>3, Zenon DEF AttachmentList
<1>5. DOMAIN own = 1..Len(own) /\ Len(own) \in Nat
  BY ListFacts
<1>6. \A l \in DOMAIN own : /\ n < l => own[l].name \in more
                            /\ n <= l => l = n \/ own[l].name \in more
  BY <1>5
<1>7. given[i].name = atts[i].name /\ given[i].type = atts[i].type /\ IsAttachment(atts[i])
  BY Zenon DEF Agree, AttachmentList
<1>8. t[i] = atts[i] \/ atts[i].name \in more
  <2>1. CASE \E l \in DOMAIN own : n < l /\ own[l].name = own[n].name
    BY <1>3, <1>4, <1>6, <2>1, Zenon
  <2>2. CASE \A l \in DOMAIN own : n < l => own[l].name # own[n].name
    <3>1. t[i].name = atts[i].name /\ t[i].type = atts[i].type /\ t[i].value = atts[i].value
      BY <1>2, <1>3, <1>4, <1>7, <2>2, Zenon
    <3> QED BY <1>2, <1>7, <3>1, Zenon DEF IsAttachment
  <2> QED BY <2>1, <2>2, Zenon
<1>9. ASSUME NEW j \in DOMAIN given, j # i
      PROVE  given[j] = atts[j] \/ atts[j].name \in more
  <2>1. CASE atts[j].name \in names
    <3>1. PICK l \in DOMAIN own : n <= l /\ own[l].name = atts[j].name
      BY <2>1
    <3>2. given[j].name = atts[j].name
      BY Zenon DEF Agree
    <3>3. l # n
      <4>1. given[j].name # given[i].name
        BY <1>9, Zenon DEF AttachmentList
      <4> QED BY <3>1, <3>2, <4>1, Zenon
    <3> QED BY <1>6, <3>1, <3>3, Zenon
  <2>2. CASE atts[j].name \notin names
    BY <2>2, Zenon DEF Agree
  <2> QED BY <2>1, <2>2
<1>10. ASSUME NEW j \in DOMAIN t
       PROVE  \/ t[j] = atts[j]
              \/ /\ t[j].name = atts[j].name /\ t[j].type = atts[j].type
                 /\ IsAttachment(atts[j])
                 /\ atts[j].name \in more
  <2>1. CASE j = i
    BY <1>2, <1>7, <1>8, <2>1, Zenon
  <2>2. CASE j # i
    <3>1. j \in DOMAIN given /\ t[j] = given[j]
      BY <1>2, <2>2, Zenon
    <3>2. given[j] = atts[j] \/ atts[j].name \in more
      BY <1>9, <2>2, <3>1, Zenon
    <3>3. \/ given[j] = atts[j]
          \/ /\ given[j].name = atts[j].name /\ given[j].type = atts[j].type
             /\ IsAttachment(atts[j])
      BY <3>1, Zenon DEF Agree
    <3> QED BY <3>1, <3>2, <3>3, Zenon
  <2> QED BY <2>1, <2>2
<1>11. IsList(atts) /\ Len(atts) = Len(t)
  BY <1>2, Zenon DEF Agree
<1> QED BY <1>10, <1>11, Zenon DEF Agree

(* SliceStep: the slices of a stack go into the attachment of its path, or *)
(* into a new one.                                                         *)
LEMMA SliceStep ==
  ASSUME AddSlicerefAttachment, Lists
  PROVE  LET path == m_sOwnPath[next]
             value == SlicesOf(m_sOwnPath, path)
         IN  \/ /\ pc' = "slices" /\ next' = next + 1
                /\ UNCHANGED <<package, archive, stable>>
                /\ AttachmentList(m_Attachments')
                /\ \/ /\ \A i \in DOMAIN m_Attachments : m_Attachments[i].name # path.name
                      /\ DOMAIN m_Attachments \subseteq DOMAIN m_Attachments'
                      /\ \A j \in DOMAIN m_Attachments : m_Attachments'[j] = m_Attachments[j]
                      /\ \E i \in DOMAIN m_Attachments' :
                           m_Attachments'[i] = [name |-> path.name, type |-> "model", value |-> value]
                   \/ \E i \in DOMAIN m_Attachments :
                        /\ m_Attachments[i].name = path.name /\ m_Attachments[i].type = "model"
                        /\ Replaced(m_Attachments, i, value, m_Attachments')
             \/ /\ Leave(package, "idle", "failed")
                /\ m_Attachments' = m_Attachments
<1> DEFINE path == m_sOwnPath[next]
           value == SlicesOf(m_sOwnPath, path)
           At == {i \in DOMAIN m_Attachments : m_Attachments[i].name = path.name}
           a == [name |-> path.name, type |-> "model", value |-> value]
<1>1. AttachmentList(m_Attachments) /\ IsList(m_sOwnPath)
  BY Zenon DEF Lists
<1>2. Counted(value) /\ SlicesValue(path) = value
  BY <1>1, SlicesCounted
<1> HIDE DEF value
<1>3. \/ /\ At = {} /\ m_Attachments' = Append(m_Attachments, a)
         /\ Goto("slices", next + 1) /\ UNCHANGED package
      \/ \E i \in At : \/ /\ m_Attachments[i].type = "model"
                          /\ m_Attachments' = [m_Attachments EXCEPT ![i].value = value]
                          /\ Goto("slices", next + 1) /\ UNCHANGED package
                       \/ m_Attachments' = m_Attachments /\ Leave(package, "idle", "failed")
  BY <1>2 DEF AddSlicerefAttachment
<1>4. ASSUME At = {}, m_Attachments' = Append(m_Attachments, a)
      PROVE  /\ AttachmentList(m_Attachments')
             /\ \A i \in DOMAIN m_Attachments : m_Attachments[i].name # path.name
             /\ DOMAIN m_Attachments \subseteq DOMAIN m_Attachments'
             /\ \A j \in DOMAIN m_Attachments : m_Attachments'[j] = m_Attachments[j]
             /\ \E i \in DOMAIN m_Attachments' : m_Attachments'[i] = a
  <2>1. \A i \in DOMAIN m_Attachments : m_Attachments[i].name # path.name
    BY <1>4, Zenon
  <2>2. a.name = path.name /\ a.value = value /\ IsAttachment(a)
    BY DEF IsAttachment
  <2> HIDE DEF a
  <2>3. \A i \in DOMAIN m_Attachments : m_Attachments[i].name # a.name
    BY <2>1, <2>2, Zenon
  <2>4. Counted(a.value)
    BY <1>2, <2>2
  <2>5. AttachmentList(m_Attachments')
    BY <1>1, <1>4, <2>2, <2>3, <2>4, OneMoreAttachment
  <2> DEFINE t == Append(m_Attachments, a)
  <2>6. IsList(m_Attachments)
    BY <1>1, Zenon DEF AttachmentList
  <2>7. /\ IsList(t) /\ Len(m_Attachments) \in Nat /\ Len(t) = Len(m_Attachments) + 1
        /\ DOMAIN m_Attachments = 1..Len(m_Attachments) /\ DOMAIN t = 1..(Len(m_Attachments) + 1)
        /\ \A i \in 1..Len(m_Attachments) : t[i] = m_Attachments[i]
        /\ t[Len(m_Attachments) + 1] = a
    BY ONLY <2>6, ListAppend
  <2>8. m_Attachments' = t
    BY <1>4
  <2> DEFINE n == Len(m_Attachments)
  <2> HIDE DEF t, n
  <2>9. /\ n \in Nat /\ DOMAIN m_Attachments = 1..n /\ DOMAIN t = 1..(n + 1)
        /\ \A i \in 1..n : t[i] = m_Attachments[i]
        /\ t[n + 1] = a
    BY <2>7, Zenon DEF n
  <2>10. n + 1 \in 1..(n + 1) /\ 1..n \subseteq 1..(n + 1)
    BY <2>9
  <2>11. /\ DOMAIN m_Attachments \subseteq DOMAIN t
         /\ \A j \in DOMAIN m_Attachments : t[j] = m_Attachments[j]
         /\ \E i \in DOMAIN t : t[i] = a
    BY <2>9, <2>10, Zenon
  <2> QED BY <2>1, <2>5, <2>8, <2>11, Zenon
<1>5. ASSUME NEW i \in At, m_Attachments' = [m_Attachments EXCEPT ![i].value = value]
      PROVE  AttachmentList(m_Attachments') /\ Replaced(m_Attachments, i, value, m_Attachments')
  <2>1. i \in DOMAIN m_Attachments
    OBVIOUS
  <2> QED BY <1>1, <1>2, <1>5, <2>1, AttachmentReplaced
<1>6. \A i \in At : i \in DOMAIN m_Attachments /\ m_Attachments[i].name = path.name
  OBVIOUS
<1>7. Goto("slices", next + 1) => pc' = "slices" /\ next' = next + 1 /\ UNCHANGED <<archive, stable>>
  BY DEF Goto
<1> HIDE DEF At, a, path
<1>8. CASE /\ At = {} /\ m_Attachments' = Append(m_Attachments, a)
           /\ Goto("slices", next + 1) /\ UNCHANGED package
  BY <1>4, <1>7, <1>8, Zenon DEF a, path, value
<1>9. ASSUME NEW i \in At, m_Attachments[i].type = "model",
             m_Attachments' = [m_Attachments EXCEPT ![i].value = value],
             Goto("slices", next + 1), UNCHANGED package
      PROVE  /\ pc' = "slices" /\ next' = next + 1
             /\ UNCHANGED <<package, archive, stable>>
             /\ AttachmentList(m_Attachments')
             /\ \E j \in DOMAIN m_Attachments :
                  /\ m_Attachments[j].name = path.name /\ m_Attachments[j].type = "model"
                  /\ Replaced(m_Attachments, j, value, m_Attachments')
  BY <1>5, <1>6, <1>7, <1>9, Zenon
<1> QED BY <1>3, <1>8, <1>9, Zenon DEF path, value

(* SlicesRepeat: the attachment of a slice stack.                          *)
LEMMA SlicesRepeat ==
  ASSUME PackageInv, RepeatInv, AddSlicerefAttachment
  PROVE  RepeatInv'
<1> DEFINE path == m_sOwnPath[next]
           value == SlicesOf(m_sOwnPath, path)
           Same == /\ \A i \in DOMAIN m_Attachments : m_Attachments[i].name # path.name
                   /\ DOMAIN m_Attachments \subseteq DOMAIN m_Attachments'
                   /\ \A j \in DOMAIN m_Attachments : m_Attachments'[j] = m_Attachments[j]
                   /\ \E i \in DOMAIN m_Attachments' :
                        m_Attachments'[i] = [name |-> path.name, type |-> "model", value |-> value]
           Other == \E i \in DOMAIN m_Attachments :
                      /\ m_Attachments[i].name = path.name /\ m_Attachments[i].type = "model"
                      /\ Replaced(m_Attachments, i, value, m_Attachments')
<1>0. Lists /\ Progress /\ StreamsClose /\ Repeats
  BY Zenon DEF RepeatInv
<1>1. /\ pc = "slices" /\ next \in DOMAIN m_sOwnPath
      /\ UNCHANGED <<thumbnail, m_sOwnPath, streams, assigned, m_AdditionalAttachments, m_nRelationIDCounter>>
  BY DEF AddSlicerefAttachment, writerVars
<1>2. /\ PartsCounted(package) /\ PartsCounted(archive) /\ AttachmentList(m_Attachments) /\ IsList(m_sOwnPath)
      /\ streams \in Seq(Streams)
  BY <1>0, Zenon DEF Lists
<1>3. \/ /\ pc' = "slices" /\ next' = next + 1
         /\ UNCHANGED <<package, archive, stable>>
         /\ AttachmentList(m_Attachments')
         /\ Same \/ Other
      \/ Leave(package, "idle", "failed") /\ m_Attachments' = m_Attachments
  BY <1>0, SliceStep
<1>4. CASE Leave(package, "idle", "failed") /\ m_Attachments' = m_Attachments
  <2>1. "failed" # "complete"
    OBVIOUS
  <2>2. streams' \in Seq(Streams) /\ Len(streams') = Len(streams)
    BY <1>1, <1>2
  <2> QED BY <1>1, <1>2, <1>4, <2>1, <2>2, Ended
<1>5. ASSUME pc' = "slices", next' = next + 1, UNCHANGED <<package, archive, stable>>,
             AttachmentList(m_Attachments'), Same \/ Other
      PROVE  RepeatInv'
  <2>1. Lists'
    <3>1. /\ streams' \in Seq(Streams) /\ Len(streams') = Len(streams)
          /\ PartsCounted(package') /\ PartsCounted(archive')
      BY <1>1, <1>2, <1>5
    <3> QED BY <1>0, <1>1, <1>5, <3>1, ListsStay
  <2>2. DOMAIN m_sOwnPath = 1..Len(m_sOwnPath) /\ Len(m_sOwnPath) \in Nat
    BY <1>2, ListFacts
  <2>3. /\ m_nRelationIDCounter = IDsInFront(thumbnail) /\ Settled(m_sOwnPath, m_Attachments, next)
        /\ \E v : RootFits(assigned, v) /\ package = FrontPackage(thumbnail, v)
    BY <1>0, <1>1, Zenon DEF Progress
  <2>4. Settled(m_sOwnPath, m_Attachments', next + 1)
    <3>1. \E i \in DOMAIN m_Attachments' :
            /\ m_Attachments'[i].name = path.name /\ m_Attachments'[i].type = "model"
            /\ m_Attachments'[i].value = value
            /\ \A j \in DOMAIN m_Attachments :
                 m_Attachments[j].name # path.name => j \in DOMAIN m_Attachments' /\ m_Attachments'[j] = m_Attachments[j]
      <4> DEFINE a == [name |-> path.name, type |-> "model", value |-> value]
      <4>1. a.name = path.name /\ a.type = "model" /\ a.value = value
        OBVIOUS
      <4> HIDE DEF a
      <4>2. CASE Same
        <5>1. PICK i \in DOMAIN m_Attachments' : m_Attachments'[i] = a
          BY <4>2, Zenon DEF a
        <5>2. \A j \in DOMAIN m_Attachments : j \in DOMAIN m_Attachments' /\ m_Attachments'[j] = m_Attachments[j]
          BY <4>2, Zenon
        <5> QED BY <4>1, <5>1, <5>2, Zenon
      <4>3. CASE Other
        <5>1. PICK i \in DOMAIN m_Attachments :
                /\ m_Attachments[i].name = path.name /\ m_Attachments[i].type = "model"
                /\ Replaced(m_Attachments, i, value, m_Attachments')
          BY <4>3, Zenon
        <5>2. /\ DOMAIN m_Attachments' = DOMAIN m_Attachments
              /\ m_Attachments'[i].name = m_Attachments[i].name /\ m_Attachments'[i].type = m_Attachments[i].type
              /\ m_Attachments'[i].value = value
              /\ \A j \in DOMAIN m_Attachments : j # i => m_Attachments'[j] = m_Attachments[j]
          BY <5>1, Zenon DEF Replaced
        <5> HIDE DEF value, path
        <5> QED BY <5>1, <5>2, Zenon
      <4> QED BY <1>5, <4>2, <4>3
    <3>2. PICK i \in DOMAIN m_Attachments' :
            /\ m_Attachments'[i].name = path.name /\ m_Attachments'[i].type = "model"
            /\ m_Attachments'[i].value = value
            /\ \A j \in DOMAIN m_Attachments :
                 m_Attachments[j].name # path.name => j \in DOMAIN m_Attachments' /\ m_Attachments'[j] = m_Attachments[j]
      BY <3>1, Zenon
    <3> DEFINE t == m_Attachments'
    <3>3. /\ i \in DOMAIN t /\ t[i].name = m_sOwnPath[next].name /\ t[i].type = "model"
          /\ t[i].value = SlicesOf(m_sOwnPath, m_sOwnPath[next])
          /\ \A j \in DOMAIN m_Attachments :
               m_Attachments[j].name # m_sOwnPath[next].name => j \in DOMAIN t /\ t[j] = m_Attachments[j]
      BY <3>2, Zenon
    <3> HIDE DEF t
    <3>4. Settled(m_sOwnPath, t, next + 1)
      BY ONLY <1>1, <1>2, <2>3, <3>3, SettledMore
    <3> QED BY <3>4 DEF t
  <2>5. Progress'
    <3>1. next' \in 1..(Len(m_sOwnPath') + 1) /\ Settled(m_sOwnPath', m_Attachments', next')
      <4>1. next + 1 \in 1..(Len(m_sOwnPath) + 1)
        BY <1>1, <2>2
      <4> QED BY <1>1, <1>5, <2>4, <4>1
    <3>2. \E v : RootFits(assigned', v) /\ package' = FrontPackage(thumbnail', v)
      BY <1>1, <1>5, <2>3, Zenon
    <3>3. m_nRelationIDCounter' = IDsInFront(thumbnail') /\ pc' = "slices"
      BY <1>1, <1>5, <2>3, Zenon
    <3> QED BY <3>1, <3>2, <3>3 DEF Progress
  <2>6. StreamsClose'
    BY <1>0, <1>1, <1>5 DEF StreamsClose
  <2>7. CASE stable
    <3>1. Contents' = Contents
      BY <1>1, SameContents
    <3>2. Exports(Contents, m_sOwnPath, assigned, m_Attachments, Pending, archive)
      BY <1>0, <2>7, Zenon DEF Repeats
    <3>3. PICK atts : /\ Agree(atts, m_Attachments, Pending) /\ Settled(m_sOwnPath, atts, Len(m_sOwnPath) + 1)
                      /\ \E v : RootFits(assigned, v) /\ Built(Contents, atts, v, Steps(Contents, atts) + 1, archive)
      BY <3>2, Zenon DEF Exports
    <3>4. IsList(m_Attachments)
      BY <1>2, Zenon DEF AttachmentList
    <3>5. \E i \in DOMAIN m_Attachments : m_Attachments[i].name = path.name
      BY <1>1, <1>2, <3>3, <3>4, SliceFound
    <3>6. Other
      BY <1>5, <3>5, Zenon
    <3>7. PICK i \in DOMAIN m_Attachments :
            /\ m_Attachments[i].name = path.name /\ m_Attachments[i].type = "model"
            /\ Replaced(m_Attachments, i, value, m_Attachments')
      BY <3>6, Zenon
    <3> DEFINE names == {m_sOwnPath[k].name : k \in {l \in DOMAIN m_sOwnPath : next <= l}}
               more == {m_sOwnPath[k].name : k \in {l \in DOMAIN m_sOwnPath : next + 1 <= l}}
               t == m_Attachments'
    <3>8. Pending = names /\ Pending' = more
      BY <1>1, <1>5 DEF Pending
    <3>9. names = {m_sOwnPath[k].name : k \in {l \in DOMAIN m_sOwnPath : next <= l}}
          /\ more = {m_sOwnPath[k].name : k \in {l \in DOMAIN m_sOwnPath : next + 1 <= l}}
      OBVIOUS
    <3>10. /\ i \in DOMAIN m_Attachments /\ m_Attachments[i].name = m_sOwnPath[next].name
           /\ Replaced(m_Attachments, i, SlicesOf(m_sOwnPath, m_sOwnPath[next]), t)
      BY <3>7
    <3> HIDE DEF names, more, t
    <3>11. Agree(atts, m_Attachments, names)
      BY <3>3, <3>8
    <3>12. Agree(atts, t, more)
      BY ONLY <1>1, <1>2, <3>3, <3>9, <3>10, <3>11, AgreeMore
    <3>13. Agree(atts, m_Attachments', Pending')
      BY <3>8, <3>12 DEF t
    <3>14. Exports(Contents', m_sOwnPath', assigned', m_Attachments', Pending', archive')
      BY <1>1, <1>5, <3>1, <3>3, <3>13, Zenon DEF Exports
    <3> QED BY <2>1, <2>5, <2>6, <3>14, Zenon DEF RepeatInv, Repeats
  <2>8. CASE ~stable
    <3>1. Repeats'
      BY <1>5, <2>8 DEF Repeats
    <3> QED BY <2>1, <2>5, <2>6, <3>1, Zenon DEF RepeatInv
  <2> QED BY <2>7, <2>8
<1> HIDE DEF Same, Other
<1> QED BY <1>3, <1>4, <1>5

(* StepKinds: what each step makes of the package.                         *)
LEMMA StepKinds ==
  ASSUME NEW c, NEW atts, Ordered(c, atts), NEW k, NEW p, NEW q,
         \/ k \in DOMAIN atts /\ q = WithAttachment(p, atts[k], IDsInFront(c.thumbnail) + k - 1)
         \/ k = Len(atts) + 1 /\ q = [p EXCEPT !.types = TRUE]
         \/ \E j \in DOMAIN c.streams : k = Len(atts) + 1 + j /\ q = WithStream(p, j, c.streams[j])
         \/ k = Len(atts) + Len(c.streams) + 2 /\ q = p
         \/ \E j \in DOMAIN c.layers : k = Len(atts) + Len(c.streams) + 2 + j /\ q = WithLayer(p, c.layers[j])
  PROVE  StepIs(c, atts, k, p, q) /\ k \in 1..Steps(c, atts)
<1> DEFINE A == Len(atts)
           S == Len(c.streams)
           L == Len(c.layers)
           n == A + 1
           m == A + S + 2
<1>1. /\ S \in Nat /\ DOMAIN c.streams = 1..S
      /\ L \in Nat /\ DOMAIN c.layers = 1..L
      /\ A \in Nat /\ DOMAIN atts = 1..A
  BY OrderedFacts
<1>2. Steps(c, atts) = A + S + L + 2
  BY DEF Steps
<1> HIDE DEF A, S, L
<1>3. /\ n = A + 1 /\ m = A + S + 2
      /\ \A i \in 1..A : i <= A /\ i # n /\ i # m /\ (\A j \in 1..S : i # n + j) /\ (\A j \in 1..L : i # m + j)
                         /\ i \in 1..(A + S + L + 2)
      /\ ~ n <= A /\ n # m /\ (\A j \in 1..S : n # n + j) /\ (\A j \in 1..L : n # m + j)
      /\ n \in 1..(A + S + L + 2)
      /\ ~ m <= A /\ (\A j \in 1..S : m # n + j) /\ (\A j \in 1..L : m # m + j)
      /\ m \in 1..(A + S + L + 2)
      /\ \A i \in 1..S : /\ ~ n + i <= A /\ n + i # n /\ n + i # m
                         /\ (\A j \in 1..S : n + i = n + j => i = j) /\ (\A j \in 1..L : n + i # m + j)
                         /\ n + i \in 1..(A + S + L + 2)
      /\ \A i \in 1..L : /\ ~ m + i <= A /\ m + i # n /\ m + i # m
                         /\ (\A j \in 1..S : m + i # n + j) /\ (\A j \in 1..L : m + i = m + j => i = j)
                         /\ m + i \in 1..(A + S + L + 2)
  BY ONLY <1>1
<1> HIDE DEF n, m
<1> DEFINE StepsOK ==
             /\ (k <= A => q = WithAttachment(p, atts[k], IDsInFront(c.thumbnail) + k - 1))
             /\ (k = n => q = [p EXCEPT !.types = TRUE])
             /\ (\A j \in 1..S : k = n + j => q = WithStream(p, j, c.streams[j]))
             /\ (k = m => q = p)
             /\ (\A j \in 1..L : k = m + j => q = WithLayer(p, c.layers[j]))
             /\ k \in 1..(A + S + L + 2)
<1>4. StepsOK
  <2>1. CASE k \in DOMAIN atts /\ q = WithAttachment(p, atts[k], IDsInFront(c.thumbnail) + k - 1)
    BY <1>1, <1>3, <2>1, Zenon
  <2>2. CASE k = Len(atts) + 1 /\ q = [p EXCEPT !.types = TRUE]
    <3>1. k = n
      BY <2>2, Zenon DEF n, A
    <3> QED BY <1>3, <2>2, <3>1, Zenon
  <2>3. ASSUME NEW j \in DOMAIN c.streams, k = Len(atts) + 1 + j, q = WithStream(p, j, c.streams[j]) PROVE StepsOK
    <3>1. k = n + j /\ j \in 1..S
      BY <1>1, <2>3, Zenon DEF n, A
    <3> QED BY <1>3, <2>3, <3>1, ZenonT(60)
  <2>4. CASE k = Len(atts) + Len(c.streams) + 2 /\ q = p
    <3>1. k = m
      BY <2>4, Zenon DEF m, A, S
    <3> QED BY <1>3, <2>4, <3>1, Zenon
  <2>5. ASSUME NEW j \in DOMAIN c.layers, k = Len(atts) + Len(c.streams) + 2 + j, q = WithLayer(p, c.layers[j])
        PROVE  StepsOK
    <3>1. k = m + j /\ j \in 1..L
      BY <1>1, <2>5, Zenon DEF m, A, S
    <3> QED BY <1>3, <2>5, <3>1, Zenon
  <2> QED BY <2>1, <2>2, <2>3, <2>4, <2>5, Zenon
<1>5. k \in 1..Steps(c, atts)
  BY <1>2, <1>4, Zenon
<1>6. /\ \A j \in DOMAIN c.streams : k = Len(atts) + 1 + j => q = WithStream(p, j, c.streams[j])
      /\ \A j \in DOMAIN c.layers : k = Len(atts) + Len(c.streams) + 2 + j => q = WithLayer(p, c.layers[j])
  BY <1>1, <1>4, Zenon DEF A, S, n, m
<1>7. /\ k <= Len(atts) => q = WithAttachment(p, atts[k], IDsInFront(c.thumbnail) + k - 1)
      /\ k = Len(atts) + 1 => q = [p EXCEPT !.types = TRUE]
      /\ k = Len(atts) + Len(c.streams) + 2 => q = p
  BY <1>4, Zenon DEF A, S, n, m
<1> QED BY <1>5, <1>6, <1>7, Zenon DEF StepIs

(* GoesOn: what a step of the later loops keeps.                           *)
LEMMA GoesOn ==
  ASSUME Lists, Progress, Repeats,
         pc \in {"attachments", "streams", "layers"}, pc' \in {"attachments", "streams", "layers"},
         Contents' = Contents, UNCHANGED <<archive, stable, m_sOwnPath, assigned, m_Attachments>>,
         StepIs(Contents, m_Attachments, Place, package, package'), Place \in Nat \ {0}, Place' = Place + 1
  PROVE  /\ Settled(m_sOwnPath', m_Attachments', Len(m_sOwnPath') + 1)
         /\ \E v : RootFits(assigned', v) /\ Built(Contents', m_Attachments', v, Place', package')
         /\ Repeats'
<1>1. PICK v : RootFits(assigned, v) /\ Built(Contents, m_Attachments, v, Place, package)
  BY Zenon DEF Progress
<1>2. Settled(m_sOwnPath, m_Attachments, Len(m_sOwnPath) + 1)
  BY Zenon DEF Progress
<1> DEFINE c == Contents
           n == Place
           q == package'
<1>3. n \in Nat \ {0} /\ StepIs(c, m_Attachments, n, package, q) /\ Built(c, m_Attachments, v, n, package)
  BY <1>1
<1> HIDE DEF c, n, q
<1>4. Built(c, m_Attachments, v, n + 1, q)
  BY ONLY <1>3, BuiltMore
<1>5. Built(Contents', m_Attachments', v, Place', package')
  <2>1. Place' = n + 1
    BY Zenon DEF n
  <2>2. Contents' = c /\ m_Attachments' = m_Attachments
    BY Zenon DEF c
  <2> QED BY <1>4, <2>1, <2>2, Zenon DEF q
<1>6. Pending = {}
  <2>1. pc # "slices"
    OBVIOUS
  <2> QED BY <2>1, OutOfSlices
<1>7. Repeats'
  BY <1>6, RepeatsStay
<1>8. RootFits(assigned', v) /\ Settled(m_sOwnPath', m_Attachments', Len(m_sOwnPath') + 1)
  BY <1>1, <1>2, Zenon
<1> QED BY <1>5, <1>7, <1>8, Zenon

(* SlicesEndRepeats: every slice stack has its attachment.                 *)
LEMMA SlicesEndRepeats ==
  ASSUME RepeatInv, pc = "slices", next = Len(m_sOwnPath) + 1, Goto("attachments", 1),
         UNCHANGED <<package, modelVars, writerVars>>
  PROVE  RepeatInv'
<1>0. Lists /\ Progress /\ StreamsClose /\ Repeats
  BY Zenon DEF RepeatInv
<1>1. /\ pc' = "attachments" /\ next' = 1
      /\ UNCHANGED <<m_Attachments, thumbnail, m_sOwnPath, streams, assigned, m_AdditionalAttachments, archive,
                     stable, package, m_nRelationIDCounter>>
  BY DEF Goto, modelVars, writerVars
<1>2. /\ PartsCounted(package) /\ PartsCounted(archive) /\ AttachmentList(m_Attachments) /\ IsList(m_Attachments)
      /\ IsList(m_sOwnPath) /\ streams \in Seq(Streams)
  BY <1>0, Zenon DEF Lists, AttachmentList
<1>3. Lists'
  <2>1. /\ AttachmentList(m_Attachments') /\ streams' \in Seq(Streams) /\ Len(streams') = Len(streams)
        /\ PartsCounted(package') /\ PartsCounted(archive')
    BY <1>1, <1>2
  <2> QED BY <1>0, <1>1, <2>1, ListsStay
<1>4. PICK v : RootFits(assigned, v) /\ package = FrontPackage(thumbnail, v)
  BY <1>0, Zenon DEF Progress
<1>5. Contents' = Contents /\ Contents.thumbnail = thumbnail
  BY <1>0, <1>1, SameContents, ContentsFacts
<1>6. Built(Contents', m_Attachments', v, Place', package')
  <2> DEFINE c == Contents
  <2>1. package = FrontPackage(c.thumbnail, v)
    BY <1>4, <1>5
  <2> HIDE DEF c
  <2>2. Built(c, m_Attachments, v, 1, package)
    BY ONLY <2>1, BuiltFirst
  <2>3. Place' = 1
    BY <1>1 DEF Place
  <2> QED BY <1>1, <1>5, <2>2, <2>3, Zenon DEF c
<1>7. Progress'
  <2>1. m_nRelationIDCounter = IDsInFront(thumbnail) /\ Settled(m_sOwnPath, m_Attachments, Len(m_sOwnPath) + 1)
    BY <1>0, Zenon DEF Progress
  <2>2. IDsInFront(thumbnail) \in Nat
    BY DEF IDsInFront
  <2>3. next' \in 1..(Len(m_Attachments') + 1) /\ m_nRelationIDCounter' = IDsInFront(thumbnail') + next' - 1
    <3> DEFINE n == Len(m_Attachments)
    <3>1. n \in Nat
      BY <1>2, ListFacts
    <3> HIDE DEF n
    <3>2. 1 \in 1..(n + 1)
      BY <3>1
    <3>3. next' \in 1..(Len(m_Attachments') + 1)
      BY <1>1, <3>2, Zenon DEF n
    <3> DEFINE m == IDsInFront(thumbnail)
    <3>4. m \in Nat /\ m_nRelationIDCounter' = m /\ IDsInFront(thumbnail') = m /\ next' = 1
      BY <1>1, <2>1, <2>2, Zenon
    <3> HIDE DEF m
    <3>5. m_nRelationIDCounter' = m + next' - 1
      BY ONLY <3>4
    <3> QED BY <3>3, <3>4, <3>5, Zenon
  <2>4. \E w : RootFits(assigned', w) /\ Built(Contents', m_Attachments', w, Place', package')
    BY <1>1, <1>4, <1>6, Zenon
  <2>5. Settled(m_sOwnPath', m_Attachments', Len(m_sOwnPath') + 1)
    BY <1>1, <2>1, Zenon
  <2>6. pc' = "attachments"
    BY <1>1
  <2> QED BY <2>3, <2>4, <2>5, <2>6 DEF Progress
<1>8. StreamsClose'
  BY <1>0, <1>1 DEF StreamsClose
<1>9. Repeats'
  <2>1. Pending = {}
    <3>1. DOMAIN m_sOwnPath = 1..Len(m_sOwnPath) /\ Len(m_sOwnPath) \in Nat
      BY <1>2, ListFacts
    <3>2. \A l \in DOMAIN m_sOwnPath : ~ next <= l
      BY <3>1
    <3> QED BY <3>2 DEF Pending
  <2> QED BY <1>0, <1>1, <1>5, <2>1, RepeatsStay
<1> QED BY <1>3, <1>7, <1>8, <1>9 DEF RepeatInv

(* AttachmentRepeats: the part of an attachment.                           *)
LEMMA AttachmentRepeats ==
  ASSUME PackageInv, RepeatInv, AddAttachmentPart
  PROVE  RepeatInv'
<1> DEFINE a == m_Attachments[next]
           p == addPart(package, a.name, a.value, TRUE)
<1>0. Lists /\ Progress /\ StreamsClose /\ Repeats
  BY Zenon DEF RepeatInv
<1>1. /\ pc = "attachments" /\ next \in DOMAIN m_Attachments
      /\ \/ Leave(p, "idle", "failed")
         \/ /\ package' = addRelationship(p, generateRelationShipID, a.type, a.name)
            /\ m_nRelationIDCounter' = m_nRelationIDCounter + 1
            /\ Goto("attachments", next + 1)
      /\ UNCHANGED <<thumbnail, m_Attachments, m_sOwnPath, streams, assigned, m_AdditionalAttachments>>
  BY DEF AddAttachmentPart, modelVars
<1>2. /\ PartsCounted(package) /\ PartsCounted(archive) /\ AttachmentList(m_Attachments) /\ IsList(m_Attachments)
      /\ streams \in Seq(Streams) /\ IsPackage(package)
  BY <1>0, Unfinished, Zenon DEF Lists, AttachmentList
<1>3. Counted(a.value)
  BY <1>1, <1>2, Zenon DEF AttachmentList
<1> DEFINE whole == TRUE
           name == a.name
           value == a.value
           type == a.type
           id == generateRelationShipID
<1>4. Counted(value) /\ p = addPart(package, name, value, whole)
  BY <1>3, Zenon
<1>5. PartsCounted(p)
  <2> HIDE DEF p, whole, name, value
  <2> QED BY ONLY <1>2, <1>4, PartCounted
<1>6. streams' \in Seq(Streams) /\ Len(streams') = Len(streams)
  BY <1>1, <1>2
<1>7. CASE Leave(p, "idle", "failed")
  <2>1. "failed" # "complete"
    OBVIOUS
  <2> HIDE DEF p
  <2> QED BY <1>1, <1>5, <1>6, <1>7, <2>1, Ended
<1>8. ASSUME package' = addRelationship(p, id, type, name),
             m_nRelationIDCounter' = m_nRelationIDCounter + 1,
             Goto("attachments", next + 1)
      PROVE  RepeatInv'
  <2>1. pc' = "attachments" /\ next' = next + 1 /\ UNCHANGED <<archive, stable>>
    BY <1>8 DEF Goto
  <2>2. PartsCounted(package')
    <3>1. package' = addRelationship(p, id, type, name) \/ package' = addRootRelationship(p, id, type, name)
      BY <1>8, Zenon
    <3> HIDE DEF p, whole, name, value, id, type
    <3> QED BY ONLY <1>2, <1>4, <3>1, RelatedCounted
  <2>3. Lists'
    <3>1. PartsCounted(archive') /\ AttachmentList(m_Attachments')
      BY <1>1, <1>2, <2>1
    <3> QED BY <1>0, <1>1, <1>6, <2>1, <2>2, <3>1, ListsStay
  <2>4. Contents' = Contents /\ Contents.thumbnail = thumbnail /\ Ordered(Contents, m_Attachments)
    BY <1>0, <1>1, SameContents, ContentsFacts
  <2> DEFINE A == Len(m_Attachments)
             first == IDsInFront(thumbnail)
  <2>5. A \in Nat /\ DOMAIN m_Attachments = 1..A
    BY <1>2, ListFacts
  <2>6. m_nRelationIDCounter = first + next - 1
    BY <1>0, <1>1, Zenon DEF Progress
  <2>7. first \in Nat
    BY DEF IDsInFront
  <2>8. Place = next /\ Place' = next + 1
    BY <1>1, <2>1 DEF Place
  <2> HIDE DEF A, first
  <2>9. next \in Nat \ {0} /\ next + 1 \in 1..(A + 1)
    BY <1>1, <2>5
  <2>10. StepIs(Contents, m_Attachments, Place, package, package')
    <3> DEFINE c == Contents
               q == package'
    <3>1. q = WithAttachment(package, m_Attachments[next], IDsInFront(c.thumbnail) + next - 1)
      <4>1. IDsInFront(c.thumbnail) + next - 1 = m_nRelationIDCounter
        BY <2>4, <2>6, Zenon DEF first
      <4>2. q = addRelationship(addPart(package, a.name, a.value, TRUE), <<"rel", m_nRelationIDCounter>>, a.type, a.name)
        BY <1>8, Zenon DEF generateRelationShipID
      <4> QED BY <4>1, <4>2, Zenon DEF WithAttachment
    <3>2. Ordered(c, m_Attachments)
      BY <2>4
    <3> HIDE DEF c, q
    <3>3. StepIs(c, m_Attachments, next, package, q)
      BY ONLY <1>1, <3>1, <3>2, StepKinds
    <3> QED BY <2>8, <3>3, Zenon DEF c, q
  <2>11. pc \in {"attachments", "streams", "layers"} /\ pc' \in {"attachments", "streams", "layers"}
    BY <1>1, <2>1
  <2>12. Place \in Nat \ {0} /\ Place' = Place + 1
    BY <2>8, <2>9
  <2>13. /\ Settled(m_sOwnPath', m_Attachments', Len(m_sOwnPath') + 1)
         /\ \E v : RootFits(assigned', v) /\ Built(Contents', m_Attachments', v, Place', package')
         /\ Repeats'
    BY <1>0, <1>1, <2>1, <2>4, <2>10, <2>11, <2>12, GoesOn
  <2>14. Progress'
    <3>1. next' \in 1..(Len(m_Attachments') + 1)
      BY <1>1, <2>1, <2>9 DEF A
    <3>2. m_nRelationIDCounter' = IDsInFront(thumbnail') + next' - 1
      <4>1. m_nRelationIDCounter' = first + (next + 1) - 1
        BY <1>8, <2>6, <2>7, <2>9
      <4> QED BY <1>1, <2>1, <4>1, Zenon DEF first
    <3>3. pc' = "attachments"
      BY <2>1
    <3> QED BY <2>13, <3>1, <3>2, <3>3 DEF Progress
  <2>15. StreamsClose'
    BY <1>0, <1>1, <2>1 DEF StreamsClose
  <2> QED BY <2>3, <2>13, <2>14, <2>15 DEF RepeatInv
<1> QED BY <1>1, <1>7, <1>8

(* TypesRepeats: the content types.                                        *)
LEMMA TypesRepeats ==
  ASSUME PackageInv, RepeatInv, AddContentTypes
  PROVE  RepeatInv'
<1>0. Lists /\ Progress /\ StreamsClose /\ Repeats
  BY Zenon DEF RepeatInv
<1>1. /\ pc = "attachments" /\ next = Len(m_Attachments) + 1
      /\ package' = [package EXCEPT !.types = TRUE]
      /\ pc' = "streams" /\ next' = 1
      /\ UNCHANGED <<thumbnail, m_Attachments, m_sOwnPath, streams, assigned, m_AdditionalAttachments, archive, stable>>
  BY DEF AddContentTypes, modelVars, writerVars, Goto
<1>2. /\ PartsCounted(package) /\ PartsCounted(archive) /\ AttachmentList(m_Attachments) /\ IsList(m_Attachments)
      /\ streams \in Seq(Streams) /\ IsPackage(package)
  BY <1>0, Unfinished, Zenon DEF Lists, AttachmentList
<1>3. package'.parts = package.parts
  BY <1>1, <1>2 DEF IsPackage
<1>4. PartsCounted(package')
  BY <1>2, <1>3, SamePartsCounted
<1>5. Lists'
  <2>1. PartsCounted(archive') /\ AttachmentList(m_Attachments') /\ streams' \in Seq(Streams) /\ Len(streams') = Len(streams)
    BY <1>1, <1>2
  <2> QED BY <1>0, <1>1, <1>4, <2>1, ListsStay
<1>6. Contents' = Contents /\ Ordered(Contents, m_Attachments)
  BY <1>0, <1>1, SameContents, ContentsFacts
<1> DEFINE A == Len(m_Attachments)
<1>7. A \in Nat
  BY <1>2, ListFacts
<1>8. Place = A + 1 /\ Place' = A + 1 + 1
  BY <1>1 DEF Place
<1>9. StepIs(Contents, m_Attachments, Place, package, package')
  <2> DEFINE c == Contents
             q == package'
             n == A + 1
  <2>1. Ordered(c, m_Attachments) /\ n = Len(m_Attachments) + 1 /\ q = [package EXCEPT !.types = TRUE]
    BY <1>1, <1>6
  <2> HIDE DEF c, q, n
  <2>2. StepIs(c, m_Attachments, n, package, q)
    BY ONLY <2>1, StepKinds
  <2> QED BY <1>8, <2>2, Zenon DEF c, q, n
<1> HIDE DEF A
<1>10. Place \in Nat \ {0} /\ Place' = Place + 1
  BY <1>7, <1>8
<1>11. pc \in {"attachments", "streams", "layers"} /\ pc' \in {"attachments", "streams", "layers"}
  BY <1>1
<1>12. /\ Settled(m_sOwnPath', m_Attachments', Len(m_sOwnPath') + 1)
       /\ \E v : RootFits(assigned', v) /\ Built(Contents', m_Attachments', v, Place', package')
       /\ Repeats'
  BY <1>0, <1>1, <1>6, <1>9, <1>10, <1>11, GoesOn
<1>13. Progress'
  <2>1. next' \in 1..(Len(streams') + 1)
    <3>1. Len(streams) \in Nat
      BY <1>2
    <3> QED BY <1>1, <3>1
  <2> QED BY <1>1, <1>12, <2>1 DEF Progress
<1>14. StreamsClose'
  <2>1. \A j \in DOMAIN streams : ~ j < 1
    BY <1>2
  <2> QED BY <1>0, <1>1, <2>1 DEF StreamsClose
<1> QED BY <1>5, <1>12, <1>13, <1>14 DEF RepeatInv

(* StreamStep: what the part of a binary stream changes.                   *)
LEMMA StreamStep ==
  ASSUME PackageInv, RepeatInv, WriteBinaryStream
  PROVE  /\ pc = "streams" /\ next \in DOMAIN streams
         /\ UNCHANGED <<thumbnail, m_Attachments, m_sOwnPath, assigned, m_AdditionalAttachments>>
         /\ streams' \in Seq(Streams) /\ Len(streams') = Len(streams) /\ DOMAIN streams' = DOMAIN streams
         /\ \A j \in DOMAIN streams : /\ streams'[j].path = streams[j].path /\ streams'[j].arrays = streams[j].arrays
                                      /\ streams[j].finished => streams'[j].finished
         /\ streams[next].arrays > 0 => streams'[next].finished
         /\ \/ /\ package' = WithStream(package, next, streams[next])
               /\ PartsCounted(package')
               /\ Goto("streams", next + 1)
            \/ \E p : PartsCounted(p) /\ Leave(p, "idle", "failed")
<1> DEFINE s == streams[next]
           name == s.path.name
           value == <<"binary", s.arrays>>
           whole == TRUE
           p == addPart(package, name, value, whole)
           id == <<"binary", next>>
           part == addPart(package, name, <<"partial">>, FALSE)
           closed == [streams EXCEPT ![next].finished = TRUE]
<1>1. /\ pc = "streams" /\ next \in DOMAIN streams
      /\ UNCHANGED <<thumbnail, m_Attachments, m_sOwnPath, assigned, m_AdditionalAttachments>>
      /\ \/ s.arrays = 0 /\ Goto("streams", next + 1) /\ streams' = streams /\ package' = package
         \/ /\ s.arrays > 0 /\ streams' = closed
            /\ \/ Leave(part, "idle", "failed")
               \/ package' = addRelationship(p, id, "binary", name) /\ Goto("streams", next + 1)
  BY DEF WriteBinaryStream, modelVars
<1>2. PartsCounted(package) /\ streams \in Seq(Streams) /\ IsPackage(package)
  BY Unfinished, Zenon DEF RepeatInv, Lists
<1>3. Counted(value)
  BY ValuesCounted
<1>4. CASE s.arrays = 0 /\ Goto("streams", next + 1) /\ streams' = streams /\ package' = package
  <2>1. package' = WithStream(package, next, streams[next])
    BY <1>4, Zenon DEF WithStream
  <2>2. ~ s.arrays > 0
    BY <1>4
  <2> QED BY <1>1, <1>2, <1>4, <2>1, <2>2, Zenon
<1>5. ASSUME streams' = closed
      PROVE  /\ streams' \in Seq(Streams) /\ Len(streams') = Len(streams) /\ DOMAIN streams' = DOMAIN streams
             /\ \A j \in DOMAIN streams : /\ streams'[j].path = streams[j].path /\ streams'[j].arrays = streams[j].arrays
                                          /\ streams[j].finished => streams'[j].finished
             /\ streams'[next].finished
  <2>1. /\ streams' \in Seq(Streams) /\ Len(streams') = Len(streams) /\ DOMAIN streams' = DOMAIN streams
        /\ streams'[next].finished /\ streams'[next].path = streams[next].path
        /\ streams'[next].arrays = streams[next].arrays
        /\ \A j \in DOMAIN streams : j # next => streams'[j] = streams[j]
    BY <1>1, <1>2, <1>5, StreamFinished
  <2> QED BY <2>1, Zenon
<1>6. CASE s.arrays > 0 /\ streams' = closed /\ Leave(part, "idle", "failed")
  <2>1. PartsCounted(part)
    BY <1>2, PartialCounted
  <2> HIDE DEF part, closed
  <2> QED BY <1>1, <1>5, <1>6, <2>1, Zenon
<1>7. CASE /\ s.arrays > 0 /\ streams' = closed
           /\ package' = addRelationship(p, id, "binary", name) /\ Goto("streams", next + 1)
  <2>1. s.arrays # 0
    BY <1>7
  <2>2. package' = WithStream(package, next, streams[next])
    BY <1>7, <2>1, Zenon DEF WithStream
  <2>3. PartsCounted(package')
    <3>1. package' = addRelationship(p, id, "binary", name) \/ package' = addRootRelationship(p, id, "binary", name)
      BY <1>7
    <3>2. p = addPart(package, name, value, whole)
      OBVIOUS
    <3> HIDE DEF p, whole, name, value, id
    <3> QED BY ONLY <1>2, <1>3, <3>1, <3>2, RelatedCounted
  <2> HIDE DEF closed
  <2> QED BY <1>1, <1>5, <1>7, <2>2, <2>3, Zenon
<1> HIDE DEF s, name, value, whole, p, id, part, closed
<1> QED BY <1>1, <1>4, <1>6, <1>7

(* StreamRepeats: the part of a binary stream.                             *)
LEMMA StreamRepeats ==
  ASSUME PackageInv, RepeatInv, WriteBinaryStream
  PROVE  RepeatInv'
<1>0. Lists /\ Progress /\ StreamsClose /\ Repeats
  BY Zenon DEF RepeatInv
<1>1. /\ pc = "streams" /\ next \in DOMAIN streams
      /\ UNCHANGED <<thumbnail, m_Attachments, m_sOwnPath, assigned, m_AdditionalAttachments>>
      /\ streams' \in Seq(Streams) /\ Len(streams') = Len(streams) /\ DOMAIN streams' = DOMAIN streams
      /\ \A j \in DOMAIN streams : /\ streams'[j].path = streams[j].path /\ streams'[j].arrays = streams[j].arrays
                                   /\ streams[j].finished => streams'[j].finished
      /\ streams[next].arrays > 0 => streams'[next].finished
  BY StreamStep
<1>2. \/ /\ package' = WithStream(package, next, streams[next])
         /\ PartsCounted(package')
         /\ Goto("streams", next + 1)
      \/ \E p : PartsCounted(p) /\ Leave(p, "idle", "failed")
  BY StreamStep
<1>3. ASSUME NEW p, PartsCounted(p), Leave(p, "idle", "failed") PROVE RepeatInv'
  <2>1. "failed" # "complete"
    OBVIOUS
  <2> QED BY <1>1, <1>3, <2>1, Ended
<1>4. ASSUME package' = WithStream(package, next, streams[next]), PartsCounted(package'), Goto("streams", next + 1)
      PROVE  RepeatInv'
  <2>1. pc' = "streams" /\ next' = next + 1 /\ UNCHANGED <<archive, stable>>
    BY <1>4 DEF Goto
  <2>2. /\ PartsCounted(archive) /\ AttachmentList(m_Attachments) /\ IsList(m_Attachments)
        /\ streams \in Seq(Streams) /\ assigned \in 0..Len(streams)
    BY <1>0, Zenon DEF Lists, AttachmentList
  <2>3. Lists'
    <3>1. PartsCounted(archive') /\ AttachmentList(m_Attachments')
      BY <1>1, <2>1, <2>2
    <3> QED BY <1>0, <1>1, <1>4, <3>1, ListsStay
  <2>4. Contents' = Contents
    BY <1>1, ContentsStay
  <2>5. /\ Ordered(Contents, m_Attachments) /\ DOMAIN Contents.streams = DOMAIN streams
        /\ Contents.streams[next].path = streams[next].path /\ Contents.streams[next].arrays = streams[next].arrays
    BY <1>0, <1>1, ContentsFacts
  <2> DEFINE A == Len(m_Attachments)
  <2>6. A \in Nat /\ next \in Nat \ {0} /\ next + 1 \in 1..(Len(streams) + 1)
    BY <1>1, <2>2, ListFacts
  <2>7. Place = A + 1 + next /\ Place' = A + 1 + (next + 1)
    BY <1>1, <2>1 DEF Place
  <2>8. StepIs(Contents, m_Attachments, Place, package, package')
    <3> DEFINE c == Contents
               q == package'
               n == A + 1 + next
    <3>1. q = WithStream(package, next, c.streams[next])
      BY <1>4, <2>5, Zenon DEF WithStream
    <3>2. Ordered(c, m_Attachments) /\ next \in DOMAIN c.streams /\ n = Len(m_Attachments) + 1 + next
      BY <1>1, <2>5
    <3> HIDE DEF c, q, n
    <3>3. \E j \in DOMAIN c.streams : n = Len(m_Attachments) + 1 + j /\ q = WithStream(package, j, c.streams[j])
      BY <3>1, <3>2, Zenon
    <3>4. StepIs(c, m_Attachments, n, package, q)
      BY ONLY <3>2, <3>3, StepKinds
    <3> QED BY <2>7, <3>4, Zenon DEF c, q, n
  <2> HIDE DEF A
  <2>9. Place \in Nat \ {0} /\ Place' = Place + 1
    BY <2>6, <2>7
  <2>10. pc \in {"attachments", "streams", "layers"} /\ pc' \in {"attachments", "streams", "layers"}
    BY <1>1, <2>1
  <2>11. /\ Settled(m_sOwnPath', m_Attachments', Len(m_sOwnPath') + 1)
         /\ \E v : RootFits(assigned', v) /\ Built(Contents', m_Attachments', v, Place', package')
         /\ Repeats'
    BY <1>0, <1>1, <2>1, <2>4, <2>8, <2>9, <2>10, GoesOn
  <2>12. Progress'
    <3>1. next' \in 1..(Len(streams') + 1) /\ pc' = "streams"
      BY <1>1, <2>1, <2>6
    <3> QED BY <2>11, <3>1 DEF Progress
  <2>13. StreamsClose'
    <3>1. \A j \in DOMAIN streams : j < next + 1 => j < next \/ j = next
      BY <1>1, <2>2
    <3>2. \A j \in DOMAIN streams :
            (j < next' \/ stable) /\ streams'[j].arrays > 0 => streams'[j].finished
      BY <1>0, <1>1, <2>1, <3>1, Zenon DEF StreamsClose
    <3>3. assigned # 0 => streams'[assigned].arrays > 0
      <4>1. assigned # 0 => assigned \in DOMAIN streams
        BY <2>2
      <4>2. pc \notin {"idle", "root"}
        BY <1>1
      <4>3. assigned # 0 => streams[assigned].arrays > 0
        BY <1>0, <4>2, Zenon DEF StreamsClose
      <4> QED BY <1>1, <4>1, <4>3, Zenon
    <3>4. stable => assigned = 0
      BY <1>0, <1>1 DEF StreamsClose
    <3> QED BY <1>1, <2>1, <3>2, <3>3, <3>4 DEF StreamsClose
  <2> QED BY <2>3, <2>11, <2>12, <2>13 DEF RepeatInv
<1> QED BY <1>2, <1>3, <1>4

(* StreamsEndRepeats: every binary stream that has arrays has its part.    *)
LEMMA StreamsEndRepeats ==
  ASSUME RepeatInv, pc = "streams", next = Len(streams) + 1, Goto("layers", 1),
         UNCHANGED <<package, modelVars, writerVars>>
  PROVE  RepeatInv'
<1>0. Lists /\ Progress /\ StreamsClose /\ Repeats
  BY Zenon DEF RepeatInv
<1>1. /\ pc' = "layers" /\ next' = 1
      /\ UNCHANGED <<m_Attachments, thumbnail, m_sOwnPath, streams, assigned, m_AdditionalAttachments, archive,
                     stable, package>>
  BY DEF Goto, modelVars, writerVars
<1>2. /\ PartsCounted(package) /\ PartsCounted(archive) /\ AttachmentList(m_Attachments) /\ IsList(m_Attachments)
      /\ streams \in Seq(Streams)
  BY <1>0, Zenon DEF Lists, AttachmentList
<1>3. Lists'
  <2>1. /\ AttachmentList(m_Attachments') /\ streams' \in Seq(Streams) /\ Len(streams') = Len(streams)
        /\ PartsCounted(package') /\ PartsCounted(archive')
    BY <1>1, <1>2
  <2> QED BY <1>0, <1>1, <2>1, ListsStay
<1>4. Contents' = Contents
  BY <1>1, SameContents
<1>5. /\ Ordered(Contents, m_Attachments) /\ Len(Contents.streams) = Len(streams) /\ IsList(Layers)
  BY <1>0, ContentsFacts
<1> DEFINE A == Len(m_Attachments)
           S == Len(streams)
<1>6. A \in Nat /\ S \in Nat
  BY <1>2, ListFacts
<1>7. Place = A + 1 + next /\ next = S + 1 /\ Place' = A + S + 2 + 1
  BY <1>1 DEF Place
<1>8. StepIs(Contents, m_Attachments, Place, package, package')
  <2> DEFINE c == Contents
             n == A + S + 2
  <2>1. Ordered(c, m_Attachments) /\ n = Len(m_Attachments) + Len(c.streams) + 2 /\ package = package
    BY <1>5
  <2> HIDE DEF c, n
  <2>2. StepIs(c, m_Attachments, n, package, package)
    BY ONLY <2>1, StepKinds
  <2> HIDE DEF A, S
  <2>3. Place = A + S + 2
    BY <1>6, <1>7
  <2> QED BY <1>1, <2>2, <2>3, Zenon DEF c, n
<1> HIDE DEF A, S
<1>9. Place \in Nat \ {0} /\ Place' = Place + 1
  BY <1>6, <1>7
<1>10. pc \in {"attachments", "streams", "layers"} /\ pc' \in {"attachments", "streams", "layers"}
  BY <1>1
<1>11. /\ Settled(m_sOwnPath', m_Attachments', Len(m_sOwnPath') + 1)
       /\ \E v : RootFits(assigned', v) /\ Built(Contents', m_Attachments', v, Place', package')
       /\ Repeats'
  BY <1>0, <1>1, <1>4, <1>8, <1>9, <1>10, GoesOn
<1>12. Progress'
  <2>1. next' \in 1..(Len(Layers') + 1)
    <3>1. Len(Layers) \in Nat /\ Layers' = Layers
      BY <1>1, <1>5, ListFacts DEF Layers
    <3> QED BY <1>1, <3>1
  <2> QED BY <1>1, <1>11, <2>1 DEF Progress
<1>13. StreamsClose'
  <2>1. \A j \in DOMAIN streams : j < next
    BY <1>2
  <2> QED BY <1>0, <1>1, <2>1 DEF StreamsClose
<1> QED BY <1>3, <1>11, <1>12, <1>13 DEF RepeatInv

(* LayerRepeats: the part of a toolpath layer.                             *)
LEMMA LayerRepeats ==
  ASSUME PackageInv, RepeatInv, WriteLayer
  PROVE  RepeatInv'
<1> DEFINE path == Layers[next]
           name == path.name
           value == <<"layer", path>>
           whole == TRUE
           p == addPart(package, name, value, whole)
           id == LayerID(path)
           part == addPart(package, name, <<"partial">>, FALSE)
<1>0. Lists /\ Progress /\ StreamsClose /\ Repeats
  BY Zenon DEF RepeatInv
<1>1. /\ pc = "layers" /\ next \in DOMAIN Layers
      /\ UNCHANGED <<thumbnail, m_Attachments, m_sOwnPath, streams, assigned, m_AdditionalAttachments>>
      /\ \/ Leave(part, "idle", "failed")
         \/ package' = addRelationship(p, id, "toolpath", name) /\ Goto("layers", next + 1)
  BY DEF WriteLayer, modelVars, writerVars
<1>2. /\ PartsCounted(package) /\ PartsCounted(archive) /\ AttachmentList(m_Attachments) /\ IsList(m_Attachments)
      /\ streams \in Seq(Streams) /\ IsPackage(package)
  BY <1>0, Unfinished, Zenon DEF Lists, AttachmentList
<1>3. streams' \in Seq(Streams) /\ Len(streams') = Len(streams)
  BY <1>1, <1>2
<1>4. CASE Leave(part, "idle", "failed")
  <2>1. PartsCounted(part)
    BY <1>2, PartialCounted
  <2>2. "failed" # "complete"
    OBVIOUS
  <2> HIDE DEF part
  <2> QED BY <1>1, <1>3, <1>4, <2>1, <2>2, Ended
<1>5. CASE package' = addRelationship(p, id, "toolpath", name) /\ Goto("layers", next + 1)
  <2>1. pc' = "layers" /\ next' = next + 1 /\ UNCHANGED <<archive, stable>>
    BY <1>5 DEF Goto
  <2>2. PartsCounted(package')
    <3>1. package' = addRelationship(p, id, "toolpath", name) \/ package' = addRootRelationship(p, id, "toolpath", name)
      BY <1>5
    <3>2. p = addPart(package, name, value, whole) /\ Counted(value)
      BY ValuesCounted
    <3> HIDE DEF p, whole, name, value, id, path
    <3> QED BY ONLY <1>2, <3>1, <3>2, RelatedCounted
  <2>3. Lists'
    <3>1. PartsCounted(archive') /\ AttachmentList(m_Attachments')
      BY <1>1, <1>2, <2>1
    <3> QED BY <1>0, <1>1, <1>3, <2>1, <2>2, <3>1, ListsStay
  <2>4. Contents' = Contents
    BY <1>1, SameContents
  <2>5. /\ Ordered(Contents, m_Attachments) /\ Len(Contents.streams) = Len(streams)
        /\ Contents.layers = Layers /\ IsList(Layers)
    BY <1>0, ContentsFacts
  <2> DEFINE A == Len(m_Attachments)
             S == Len(streams)
             L == Len(Layers)
  <2>6. A \in Nat /\ S \in Nat /\ L \in Nat /\ DOMAIN Layers = 1..L
    BY <1>2, <2>5, ListFacts
  <2>7. Place = A + S + 2 + next /\ Place' = A + S + 2 + (next + 1)
    BY <1>1, <2>1 DEF Place
  <2>8. StepIs(Contents, m_Attachments, Place, package, package')
    <3> DEFINE c == Contents
               q == package'
               n == A + S + 2 + next
    <3>1. q = WithLayer(package, c.layers[next])
      BY <1>5, <2>5, Zenon DEF WithLayer
    <3>2. Ordered(c, m_Attachments) /\ next \in DOMAIN c.layers /\ n = Len(m_Attachments) + Len(c.streams) + 2 + next
      BY <1>1, <2>5
    <3> HIDE DEF c, q, n
    <3>3. \E j \in DOMAIN c.layers : n = Len(m_Attachments) + Len(c.streams) + 2 + j /\ q = WithLayer(package, c.layers[j])
      BY <3>1, <3>2, Zenon
    <3>4. StepIs(c, m_Attachments, n, package, q)
      BY ONLY <3>2, <3>3, StepKinds
    <3> QED BY <2>7, <3>4, Zenon DEF c, q, n
  <2> HIDE DEF A, S, L
  <2>9. /\ next \in Nat \ {0} /\ next + 1 \in 1..(L + 1)
        /\ Place \in Nat \ {0} /\ Place' = Place + 1
    BY <1>1, <2>6, <2>7
  <2>10. pc \in {"attachments", "streams", "layers"} /\ pc' \in {"attachments", "streams", "layers"}
    BY <1>1, <2>1
  <2>11. /\ Settled(m_sOwnPath', m_Attachments', Len(m_sOwnPath') + 1)
         /\ \E v : RootFits(assigned', v) /\ Built(Contents', m_Attachments', v, Place', package')
         /\ Repeats'
    BY <1>0, <1>1, <2>1, <2>4, <2>8, <2>9, <2>10, GoesOn
  <2>12. Progress'
    <3>1. Layers' = Layers
      BY <1>1 DEF Layers
    <3>2. next' \in 1..(Len(Layers') + 1) /\ pc' = "layers"
      BY <2>1, <2>9, <3>1 DEF L
    <3> QED BY <2>11, <3>2 DEF Progress
  <2>13. StreamsClose'
    BY <1>0, <1>1, <2>1 DEF StreamsClose
  <2> QED BY <2>3, <2>11, <2>12, <2>13 DEF RepeatInv
<1> HIDE DEF path, name, value, whole, p, id, part
<1> QED BY <1>1, <1>4, <1>5

(* CompleteRepeats: every layer has its part, and the export is complete.  *)
LEMMA CompleteRepeats ==
  ASSUME RepeatInv, pc = "layers", next = Len(Layers) + 1, Leave(package, "cleanup", "complete"),
         UNCHANGED <<modelVars, writerVars>>
  PROVE  RepeatInv'
<1>0. Lists /\ Progress /\ StreamsClose /\ Repeats
  BY Zenon DEF RepeatInv
<1>1. /\ pc' = "cleanup" /\ archive' = package
      /\ UNCHANGED <<m_Attachments, thumbnail, m_sOwnPath, streams, assigned, m_AdditionalAttachments>>
  BY DEF Leave, modelVars, writerVars
<1>2. /\ PartsCounted(package) /\ AttachmentList(m_Attachments) /\ IsList(m_Attachments)
      /\ streams \in Seq(Streams)
  BY <1>0, Zenon DEF Lists, AttachmentList
<1>3. Lists'
  <2>1. PartsCounted(package') /\ PartsCounted(archive')
    BY <1>2, LeaveCounted
  <2>2. AttachmentList(m_Attachments') /\ streams' \in Seq(Streams) /\ Len(streams') = Len(streams)
    BY <1>1, <1>2
  <2> QED BY <1>0, <1>1, <2>1, <2>2, ListsStay
<1>4. Progress'
  BY <1>1 DEF Progress
<1>5. StreamsClose'
  <2>1. pc \notin {"idle", "root"} /\ pc' \notin {"thumbnail", "slices", "attachments", "streams", "layers"}
    BY <1>1
  <2> QED BY <1>0, <1>1, <2>1 DEF StreamsClose
<1>6. Repeats'
  <2>1. Contents' = Contents /\ Pending' = {}
    <3>1. pc' # "slices"
      BY <1>1
    <3> QED BY <1>1, <3>1, SameContents DEF Pending
  <2>2. Place = Steps(Contents, m_Attachments) + 1
    <3>1. Len(Contents.streams) = Len(streams) /\ Contents.layers = Layers /\ IsList(Layers)
      BY <1>0, ContentsFacts
    <3> DEFINE A == Len(m_Attachments)
               S == Len(streams)
               L == Len(Layers)
    <3>2. A \in Nat /\ S \in Nat /\ L \in Nat
      BY <1>2, <3>1, ListFacts
    <3>3. Place = A + S + 2 + (L + 1) /\ Steps(Contents, m_Attachments) = A + S + L + 2
      BY <3>1 DEF Place, Steps
    <3> HIDE DEF A, S, L
    <3> QED BY <3>2, <3>3
  <2>3. PICK v : RootFits(assigned, v) /\ Built(Contents, m_Attachments, v, Steps(Contents, m_Attachments) + 1, package)
    BY <1>0, <2>2, Zenon DEF Progress
  <2>4. Agree(m_Attachments, m_Attachments, {}) /\ Settled(m_sOwnPath, m_Attachments, Len(m_sOwnPath) + 1)
    BY <1>0, <1>2, Zenon DEF Progress, Agree
  <2>5. Exports(Contents, m_sOwnPath, assigned, m_Attachments, {}, package)
    BY <2>3, <2>4, Zenon DEF Exports
  <2>6. Exports(Contents', m_sOwnPath', assigned', m_Attachments', Pending', archive')
    BY <1>1, <2>1, <2>5, Zenon
  <2> QED BY <2>6, Zenon DEF Repeats
<1> QED BY <1>3, <1>4, <1>5, <1>6 DEF RepeatInv

(* RepeatKeeps: no step disturbs the invariant.                            *)
LEMMA RepeatKeeps ==
  ASSUME PackageInv, RepeatInv, [Next]_vars
  PROVE  RepeatInv'
<1>0. Lists
  BY Zenon DEF RepeatInv
<1>1. CASE ClientNext
  BY <1>0, <1>1, ClientLists, IdleEnds DEF RepeatInv
<1>2. ASSUME NEW types \in SUBSET {"custom", "toolpath"}, Read(types) PROVE RepeatInv'
  BY <1>0, <1>2, ReadLists, IdleEnds DEF RepeatInv
<1>3. CASE EndLoop
  <2>1. CASE /\ pc = "slices" /\ next = Len(m_sOwnPath) + 1
             /\ Goto("attachments", 1) /\ UNCHANGED <<package, modelVars, writerVars>>
    BY <2>1, SlicesEndRepeats
  <2>2. CASE /\ pc = "streams" /\ next = Len(streams) + 1
             /\ Goto("layers", 1) /\ UNCHANGED <<package, modelVars, writerVars>>
    BY <2>2, StreamsEndRepeats
  <2>3. CASE /\ pc = "layers" /\ next = Len(Layers) + 1
             /\ Leave(package, "cleanup", "complete") /\ UNCHANGED <<failures, modelVars, writerVars>>
    BY <2>3, CompleteRepeats
  <2> QED BY <1>3, <2>1, <2>2, <2>3 DEF EndLoop
<1>4. CASE Start
  BY <1>4, StartRepeats
<1>5. CASE \/ AbortBeforePackage \/ writeModelStreamThrows \/ writeSliceStackStreamThrows
           \/ Abort \/ CopyFails
  BY <1>5, FailureRepeats
<1>6. CASE writeModelStream
  BY <1>6, RootRepeats
<1>7. CASE WriteThumbnail
  BY <1>7, ThumbnailRepeats
<1>8. CASE AddSlicerefAttachment
  BY <1>8, SlicesRepeat
<1>9. CASE AddAttachmentPart
  BY <1>9, AttachmentRepeats
<1>10. CASE AddContentTypes
  BY <1>10, TypesRepeats
<1>11. CASE WriteBinaryStream
  BY <1>11, StreamRepeats
<1>12. CASE WriteLayer
  BY <1>12, LayerRepeats
<1>13. CASE Cleanup \/ UNCHANGED vars
  BY <1>13, CleanupRepeats
<1> QED BY <1>1, <1>2, <1>3, <1>4, <1>5, <1>6, <1>7, <1>8, <1>9, <1>10, <1>11, <1>12, <1>13, Zenon
        DEF Next, ExportNext

(* RepeatStarts: the new model and its writer.                             *)
LEMMA RepeatStarts ==
  ASSUME Init
  PROVE  RepeatInv
<1>1. /\ m_Attachments = << >> /\ m_sOwnPath = << >> /\ streams = << >> /\ assigned = 0
      /\ m_AdditionalAttachments = {} /\ package = NoPackage /\ archive = NoPackage
      /\ pc = "idle" /\ stable = FALSE
  BY DEF Init
<1>2. IsList(<< >>) /\ DOMAIN << >> = {}
  <2>1. << >> \in Seq({})
    OBVIOUS
  <2>2. IsList(<< >>)
    BY <2>1, SeqIsList
  <2> QED BY <2>2
<1>3. AttachmentList(m_Attachments)
  BY <1>1, <1>2 DEF AttachmentList
<1>4. streams \in Seq(Streams) /\ assigned \in 0..Len(streams)
  BY <1>1
<1>5. Lists
  BY <1>1, <1>2, <1>3, <1>4, EmptyCounted, FS_EmptySet DEF Lists
<1>6. Progress /\ StreamsClose /\ Repeats
  BY <1>1 DEF Progress, StreamsClose, Repeats
<1> QED BY <1>5, <1>6 DEF RepeatInv

(* SameArchive: an export that repeats another leaves the same package.    *)
LEMMA SameArchive ==
  ASSUME RepeatInv, stable, pc = "layers", next = Len(Layers) + 1, archive' = package
  PROVE  archive' = archive
<1>0. Lists /\ Progress /\ StreamsClose /\ Repeats
  BY Zenon DEF RepeatInv
<1>1. Pending = {}
  BY OutOfSlices
<1>2. Exports(Contents, m_sOwnPath, assigned, m_Attachments, {}, archive)
  BY <1>0, <1>1, Zenon DEF Repeats
<1> DEFINE n == Steps(Contents, m_Attachments) + 1
<1>3. PICK atts : /\ Agree(atts, m_Attachments, {})
                  /\ \E v : RootFits(assigned, v) /\ Built(Contents, atts, v, Steps(Contents, atts) + 1, archive)
  BY <1>2, Zenon DEF Exports
<1>4. atts = m_Attachments
  <2>1. IsList(atts) /\ Len(atts) = Len(m_Attachments) /\ \A i \in DOMAIN m_Attachments : m_Attachments[i] = atts[i]
    BY <1>3, Zenon DEF Agree
  <2>2. IsList(m_Attachments)
    BY <1>0, Zenon DEF Lists, AttachmentList
  <2> DEFINE S == {atts[i] : i \in DOMAIN atts}
             T == {m_Attachments[i] : i \in DOMAIN m_Attachments}
  <2>3. atts \in Seq(S) /\ m_Attachments \in Seq(T)
    BY <2>1, <2>2 DEF IsList
  <2> HIDE DEF S, T
  <2> QED BY <2>1, <2>3
<1>5. assigned = 0
  BY <1>0 DEF StreamsClose
<1>6. Built(Contents, m_Attachments, NoStream, n, archive)
  BY <1>3, <1>4, <1>5, Zenon DEF RootFits
<1>7. Ordered(Contents, m_Attachments) /\ Len(Contents.streams) = Len(streams)
      /\ Contents.layers = Layers /\ IsList(Layers)
  BY <1>0, ContentsFacts
<1>8. Place = n /\ n \in 1..n
  <2> DEFINE A == Len(m_Attachments)
             S == Len(streams)
             L == Len(Layers)
  <2>1. A \in Nat /\ S \in Nat /\ L \in Nat
    BY <1>7, OrderedFacts
  <2>2. Place = A + S + 2 + (L + 1) /\ n = A + S + L + 2 + 1
    BY <1>7 DEF Place, Steps
  <2> HIDE DEF A, S, L, n
  <2> QED BY <2>1, <2>2
<1>9. PICK v : RootFits(assigned, v) /\ Built(Contents, m_Attachments, v, Place, package)
  BY <1>0, Zenon DEF Progress
<1>10. Built(Contents, m_Attachments, NoStream, n, package)
  BY <1>5, <1>8, <1>9, Zenon DEF RootFits
<1> DEFINE c == Contents
           root == NoStream
<1>11. Ordered(c, m_Attachments) /\ n \in 1..(Steps(c, m_Attachments) + 1)
  BY <1>7, <1>8
<1>12. Built(c, m_Attachments, root, n, archive) /\ Built(c, m_Attachments, root, n, package)
  BY <1>6, <1>10
<1> HIDE DEF c, root, n
<1>13. archive = package
  BY ONLY <1>11, <1>12, BuiltOnce
<1> QED BY <1>13

(* ClientsKeepTheirs: an export changes slices only.                       *)
LEMMA ClientsKeepTheirs ==
  ASSUME RepeatInv, [Next]_vars, pc # "idle", NEW i \in DOMAIN m_Attachments, m_Attachments[i].type # "model"
  PROVE  m_Attachments'[i] = m_Attachments[i]
<1>1. CASE AddSlicerefAttachment
  <2>1. Lists
    BY Zenon DEF RepeatInv
  <2>2. \/ \A j \in DOMAIN m_Attachments : m_Attachments'[j] = m_Attachments[j]
        \/ \E j \in DOMAIN m_Attachments :
             /\ m_Attachments[j].type = "model"
             /\ \A k \in DOMAIN m_Attachments : k # j => m_Attachments'[k] = m_Attachments[k]
        \/ m_Attachments' = m_Attachments
    BY <1>1, <2>1, SliceStep, Zenon DEF Replaced
  <2> QED BY <2>2, Zenon
<1>2. CASE ~AddSlicerefAttachment
  <2>1. ~ClientNext
    BY DEF ClientNext, ClientStep, AddAttachment, CreatePackageThumbnailAttachment, AddSliceStack,
           CreateBinaryStream, FinishLayer, SetOwnPath, SetContent, AssignBinaryStream, AddArray
  <2>2. \A types : ~Read(types)
    BY DEF Read
  <2>3. ASSUME ExportNext PROVE UNCHANGED modelVars
    <3>1. EndLoop => UNCHANGED modelVars
      BY Zenon DEF EndLoop
    <3> QED BY <1>2, <2>3, <3>1, Zenon
         DEF ExportNext, Start, AbortBeforePackage, writeModelStream, writeModelStreamThrows, WriteThumbnail,
             writeSliceStackStreamThrows, AddAttachmentPart, AddContentTypes, WriteBinaryStream, WriteLayer, Cleanup,
             Abort, CopyFails
  <2>4. UNCHANGED vars => UNCHANGED modelVars
    BY DEF vars
  <2>5. UNCHANGED modelVars
    BY <2>1, <2>2, <2>3, <2>4, Zenon DEF Next
  <2> QED BY <2>5 DEF modelVars
<1> QED BY <1>1, <1>2

(* CompleteStep: only the end of the last loop completes an export.        *)
LEMMA CompleteStep ==
  ASSUME [Next]_vars, pc = "layers", pc' = "cleanup"
  PROVE  next = Len(Layers) + 1 /\ archive' = package
<1>1. ~ClientNext
  BY DEF ClientNext, ClientStep, AddAttachment, CreatePackageThumbnailAttachment, AddSliceStack,
         CreateBinaryStream, FinishLayer, SetOwnPath, SetContent, AssignBinaryStream, AddArray
<1>2. \A types : ~Read(types)
  BY DEF Read
<1>3. ~UNCHANGED vars
  BY DEF vars, exportVars
<1>4. ~(Start \/ AbortBeforePackage \/ writeModelStream \/ writeModelStreamThrows \/ WriteThumbnail)
  BY DEF Start, AbortBeforePackage, writeModelStream, writeModelStreamThrows, WriteThumbnail
<1>5. ~(AddSlicerefAttachment \/ AddAttachmentPart \/ AddContentTypes \/ WriteBinaryStream \/ Cleanup)
  BY DEF AddSlicerefAttachment, AddAttachmentPart, AddContentTypes, WriteBinaryStream, Cleanup
<1>6. ~WriteLayer
  <2>1. WriteLayer => pc' = "idle" \/ pc' = "layers"
    BY DEF WriteLayer, Leave, Goto
  <2> QED BY <2>1
<1>7. ~Abort /\ ~CopyFails /\ ~writeSliceStackStreamThrows
  <2>1. Abort \/ CopyFails \/ writeSliceStackStreamThrows => pc' = "idle"
    BY DEF Abort, CopyFails, writeSliceStackStreamThrows, Leave
  <2> QED BY <2>1
<1>8. EndLoop
  BY <1>1, <1>2, <1>3, <1>4, <1>5, <1>6, <1>7, Zenon DEF Next, ExportNext
<1> QED BY <1>8 DEF EndLoop, Leave

(* What an export writes of a model that nobody changed since the last one *)
(* completed is what that one wrote, if it completes; and it changes no    *)
(* attachment but the slices the writer adds.                              *)
THEOREM RepeatedExportsCorrect == Spec => RepeatedExportIsTheSame
<1>1. PackageInv /\ [Next]_vars => PackageInv'
  BY NextKeeps
<1>2. PackageInv /\ RepeatInv /\ [Next]_vars => RepeatInv'
  BY RepeatKeeps
<1>3. RepeatInv /\ [Next]_vars =>
        [/\ (stable /\ pc = "layers" /\ pc' = "cleanup") => archive' = archive
         /\ pc # "idle" => \A i \in DOMAIN m_Attachments :
              m_Attachments[i].type # "model" => m_Attachments'[i] = m_Attachments[i]]_vars
  BY CompleteStep, SameArchive, ClientsKeepTheirs
<1> QED BY <1>1, <1>2, <1>3, InitIsWhole, RepeatStarts, PTL DEF Spec, RepeatedExportIsTheSame

-----------------------------------------------------------------------------
(* What an export writes is read again.  The package has the parts and the *)
(* relationships the steps wrote, and no other; where their names differ   *)
(* the reader finds each.                                                  *)

(* What the k-th step of an export writes: the part x and its relationship.*)
Written(c, atts, k, x) ==
  \/ /\ k \in DOMAIN atts
     /\ x = [name |-> atts[k].name, type |-> atts[k].type, value |-> atts[k].value,
             id |-> <<"rel", IDsInFront(c.thumbnail) + k - 1>>]
  \/ \E j \in DOMAIN c.streams :
       /\ k = Len(atts) + 1 + j /\ c.streams[j].arrays # 0
       /\ x = [name |-> c.streams[j].path.name, type |-> "binary", value |-> <<"binary", c.streams[j].arrays>>,
               id |-> <<"binary", j>>]
  \/ \E j \in DOMAIN c.layers :
       /\ k = Len(atts) + Len(c.streams) + 2 + j
       /\ x = [name |-> c.layers[j].name, type |-> "toolpath", value |-> <<"layer", c.layers[j]>>,
               id |-> LayerID(c.layers[j])]
PartOf(x) == [name |-> x.name, value |-> x.value, whole |-> TRUE]
RelationOf(x) == [id |-> x.id, type |-> x.type, target |-> x.name]

(* The package p has the front and what the steps before the n-th wrote,   *)
(* and nothing else.                                                       *)
IsPart(p, e) == \E i \in DOMAIN p.parts : p.parts[i] = e
Holds(c, atts, front, n, p) ==
  /\ IsPackage(p) /\ Grows(front, p) /\ p.root = front.root
  /\ \A i \in DOMAIN p.parts :
       i \in DOMAIN front.parts \/ \E k \in 1..(n - 1) : \E x : Written(c, atts, k, x) /\ p.parts[i] = PartOf(x)
  /\ \A k \in 1..(n - 1) : \A x : Written(c, atts, k, x) => IsPart(p, PartOf(x)) /\ RelationOf(x) \in p.rels
  /\ \A r \in p.rels : \E k \in 1..(n - 1) : \E x : Written(c, atts, k, x) /\ r = RelationOf(x)
  /\ n > Len(atts) + 1 => p.types

(* The package q has the part and the relationship x and what p has.       *)
OneMore(p, x, q) ==
  /\ IsPackage(q) /\ Grows(p, q) /\ q.types = p.types /\ q.root = p.root
  /\ IsPart(q, PartOf(x))
  /\ \A i \in DOMAIN q.parts : i \in DOMAIN p.parts \/ q.parts[i] = PartOf(x)
  /\ q.rels = p.rels \cup {RelationOf(x)}

(* WithOneMore: a part and its relationship, in the writer's words.        *)
LEMMA WithOneMore ==
  ASSUME NEW p, IsPackage(p), NEW name, NEW type, NEW value, NEW id,
         NEW x, x = [name |-> name, type |-> type, value |-> value, id |-> id],
         NEW q, q = addRelationship(addPart(p, name, value, TRUE), id, type, name)
  PROVE  OneMore(p, x, q)
<1> DEFINE s == p.parts
           e == PartOf(x)
           t == Append(s, e)
           r == RelationOf(x)
<1>1. p = [parts |-> s, types |-> p.types, root |-> p.root, rels |-> p.rels] /\ IsList(s) /\ IsFiniteSet(p.rels)
  BY DEF IsPackage
<1>2. e = [name |-> name, value |-> value, whole |-> TRUE] /\ r = [id |-> id, type |-> type, target |-> name]
  BY DEF PartOf, RelationOf
<1> DEFINE u == addPart(p, name, value, TRUE)
<1>3. u = [p EXCEPT !.parts = t]
  BY <1>2 DEF addPart
<1>4. q = [u EXCEPT !.rels = @ \cup {r}]
  BY <1>2 DEF addRelationship
<1>5. /\ IsList(t) /\ Len(s) \in Nat /\ Len(t) = Len(s) + 1
      /\ DOMAIN s = 1..Len(s) /\ DOMAIN t = 1..(Len(s) + 1)
      /\ \A i \in 1..Len(s) : t[i] = s[i]
      /\ t[Len(s) + 1] = e
  <2> HIDE DEF e, s
  <2> QED BY <1>1, ListAppend
<1> HIDE DEF e, t, u, r
<1>6. u = [parts |-> t, types |-> p.types, root |-> p.root, rels |-> p.rels]
  <2> HIDE DEF s
  <2> QED BY <1>1, <1>3
<1>7. q = [parts |-> t, types |-> p.types, root |-> p.root, rels |-> p.rels \cup {r}]
  <2> HIDE DEF s
  <2> QED BY <1>4, <1>6
<1>8. q.parts = t /\ q.types = p.types /\ q.root = p.root /\ q.rels = p.rels \cup {r}
  BY ONLY <1>7
<1>9. IsFiniteSet(q.rels)
  BY ONLY <1>1, <1>8, FS_AddElement
<1>10. IsPackage(q)
  BY <1>5, <1>7, <1>8, <1>9, Zenon DEF IsPackage
<1>11. Grows(p, q)
  BY ONLY <1>5, <1>8 DEF Grows, s
<1>12. /\ \A i \in DOMAIN t : i \in DOMAIN s \/ t[i] = e
       /\ \E i \in DOMAIN t : t[i] = e
  BY ONLY <1>5
<1> QED BY <1>8, <1>10, <1>11, <1>12, Zenon DEF OneMore, IsPart, e, r

(* What a step does with a package.                                        *)
Adds(c, atts, k, p, q) ==
  /\ k = Len(atts) + 1 => q.types = TRUE
  /\ k # Len(atts) + 1 => q.types = p.types
  /\ \/ /\ IsPackage(q) /\ Grows(p, q) /\ q.root = p.root /\ q.parts = p.parts /\ q.rels = p.rels
        /\ \A x : ~Written(c, atts, k, x)
     \/ \E x : /\ Written(c, atts, k, x) /\ OneMore(p, x, q)
               /\ \A y : Written(c, atts, k, y) => y = x

(* StepWrites: a step adds what it writes.                                 *)
LEMMA StepWrites ==
  ASSUME NEW c, NEW atts, Ordered(c, atts), NEW k \in 1..Steps(c, atts),
         NEW p, IsPackage(p), NEW q, StepIs(c, atts, k, p, q)
  PROVE  Adds(c, atts, k, p, q)
<1> DEFINE A == Len(atts)
           S == Len(c.streams)
           L == Len(c.layers)
           n == A + 1
           m == A + S + 2
<1>1. /\ S \in Nat /\ DOMAIN c.streams = 1..S
      /\ L \in Nat /\ DOMAIN c.layers = 1..L
      /\ A \in Nat /\ DOMAIN atts = 1..A
  BY OrderedFacts
<1>2. Steps(c, atts) = A + S + L + 2
  BY DEF Steps
<1> DEFINE At(x) == k \in 1..A /\ x = [name |-> atts[k].name, type |-> atts[k].type, value |-> atts[k].value,
                                       id |-> <<"rel", IDsInFront(c.thumbnail) + k - 1>>]
           St(j, x) == /\ c.streams[j].arrays # 0
                       /\ x = [name |-> c.streams[j].path.name, type |-> "binary",
                               value |-> <<"binary", c.streams[j].arrays>>, id |-> <<"binary", j>>]
           La(j, x) == x = [name |-> c.layers[j].name, type |-> "toolpath", value |-> <<"layer", c.layers[j]>>,
                            id |-> LayerID(c.layers[j])]
<1>3. \A x : Written(c, atts, k, x) <=>
               \/ At(x)
               \/ \E j \in 1..S : k = n + j /\ St(j, x)
               \/ \E j \in 1..L : k = m + j /\ La(j, x)
  BY <1>1, Zenon DEF Written
<1>4. /\ k <= A => q = WithAttachment(p, atts[k], IDsInFront(c.thumbnail) + k - 1)
      /\ k = n => q = [p EXCEPT !.types = TRUE]
      /\ \A j \in 1..S : k = n + j => q = WithStream(p, j, c.streams[j])
      /\ k = m => q = p
      /\ \A j \in 1..L : k = m + j => q = WithLayer(p, c.layers[j])
  BY <1>1, Zenon DEF StepIs
<1>5. k \in 1..(A + S + L + 2)
  BY <1>2
<1>6. /\ k \in 1..A => k <= A /\ k # n /\ (\A j \in 1..S : k # n + j) /\ (\A j \in 1..L : k # m + j)
      /\ k = n => ~k \in 1..A /\ (\A j \in 1..S : k # n + j) /\ (\A j \in 1..L : k # m + j)
      /\ k = m => ~k \in 1..A /\ k # n /\ (\A j \in 1..S : k # n + j) /\ (\A j \in 1..L : k # m + j)
      /\ \A i \in 1..S : k = n + i => /\ ~k \in 1..A /\ k # n /\ (\A j \in 1..S : k = n + j => j = i)
                                      /\ (\A j \in 1..L : k # m + j)
      /\ \A i \in 1..L : k = m + i => /\ ~k \in 1..A /\ k # n /\ (\A j \in 1..S : k # n + j)
                                      /\ (\A j \in 1..L : k = m + j => j = i)
  <2> HIDE DEF A, S, L
  <2> QED BY <1>1
<1>7. k \in 1..A \/ k = n \/ (\E j \in 1..S : k = n + j) \/ k = m \/ (\E j \in 1..L : k = m + j)
  <2> HIDE DEF A, S, L
  <2>1. k \in 1..A \/ k = n \/ (k - n \in 1..S /\ k = n + (k - n)) \/ k = m \/ (k - m \in 1..L /\ k = m + (k - m))
    BY ONLY <1>1, <1>5
  <2> QED BY <2>1, Zenon
<1> DEFINE Nothing == \A x : ~Written(c, atts, k, x)
           Only(x) == Written(c, atts, k, x) /\ \A y : Written(c, atts, k, y) => y = x
<1> HIDE DEF A, S, L, n, m
<1>14. k = Len(atts) + 1 <=> k = n
  BY Zenon DEF n, A
<1> DEFINE Same == IsPackage(q) /\ Grows(p, q) /\ q.root = p.root /\ q.parts = p.parts /\ q.rels = p.rels /\ Nothing
           Goal == /\ k = n => q.types = TRUE
                   /\ k # n => q.types = p.types
                   /\ Same \/ \E x : Only(x) /\ OneMore(p, x, q)
<1>8. ASSUME k \in 1..A PROVE Goal
  <2> DEFINE x == [name |-> atts[k].name, type |-> atts[k].type, value |-> atts[k].value,
                   id |-> <<"rel", IDsInFront(c.thumbnail) + k - 1>>]
  <2>1. Only(x)
    BY <1>3, <1>6, <1>8, Zenon
  <2>2. q = addRelationship(addPart(p, atts[k].name, atts[k].value, TRUE),
                            <<"rel", IDsInFront(c.thumbnail) + k - 1>>, atts[k].type, atts[k].name)
    BY <1>4, <1>6, <1>8, Zenon DEF WithAttachment
  <2>3. OneMore(p, x, q)
    BY <2>2, WithOneMore
  <2>4. k # n /\ q.types = p.types
    BY <1>6, <1>8, <2>3, Zenon DEF OneMore
  <2> HIDE DEF x
  <2> QED BY <2>1, <2>3, <2>4, Zenon
<1>9. ASSUME k = n PROVE Goal
  <2>1. Nothing
    BY <1>3, <1>6, <1>9, Zenon
  <2>2. q = [p EXCEPT !.types = TRUE]
    BY <1>4, <1>9, Zenon
  <2>3. /\ p = [parts |-> p.parts, types |-> p.types, root |-> p.root, rels |-> p.rels]
        /\ IsList(p.parts) /\ IsFiniteSet(p.rels)
    BY DEF IsPackage
  <2>4. /\ q = [parts |-> p.parts, types |-> TRUE, root |-> p.root, rels |-> p.rels]
        /\ q.parts = p.parts /\ q.root = p.root /\ q.rels = p.rels /\ q.types = TRUE
    BY <2>2, <2>3
  <2>5. IsPackage(q)
    BY <2>3, <2>4, Zenon DEF IsPackage
  <2>6. Grows(p, q)
    BY <2>4 DEF Grows
  <2> QED BY <1>9, <2>1, <2>4, <2>5, <2>6, Zenon
<1>10. ASSUME NEW j \in 1..S, k = n + j, c.streams[j].arrays # 0
       PROVE  \E x : Only(x) /\ OneMore(p, x, q) /\ q.types = p.types
  <2> DEFINE x == [name |-> c.streams[j].path.name, type |-> "binary",
                   value |-> <<"binary", c.streams[j].arrays>>, id |-> <<"binary", j>>]
  <2>1. Only(x)
    <3>1. \A i \in 1..S : k = n + i => i = j
      BY <1>6, <1>10, Zenon
    <3>2. Written(c, atts, k, x)
      BY <1>3, <1>10, Zenon
    <3>3. ASSUME NEW y, Written(c, atts, k, y) PROVE y = x
      BY <1>3, <1>6, <1>10, <3>1, <3>3, Zenon
    <3> QED BY <3>2, <3>3
  <2>2. q = addRelationship(addPart(p, c.streams[j].path.name, <<"binary", c.streams[j].arrays>>, TRUE),
                            <<"binary", j>>, "binary", c.streams[j].path.name)
    BY <1>4, <1>10, Zenon DEF WithStream
  <2>3. OneMore(p, x, q)
    BY <2>2, WithOneMore
  <2>4. q.types = p.types
    BY <2>3, Zenon DEF OneMore
  <2> HIDE DEF x
  <2> QED BY <2>1, <2>3, <2>4, Zenon
<1>11. ASSUME NEW j \in 1..S, k = n + j, c.streams[j].arrays = 0
       PROVE  Nothing /\ q = p
  <2>1. \A i \in 1..S : k = n + i => i = j
    BY <1>6, <1>11, Zenon
  <2>2. Nothing
    BY <1>3, <1>6, <1>11, <2>1, Zenon
  <2>3. q = p
    BY <1>4, <1>11, Zenon DEF WithStream
  <2> QED BY <2>2, <2>3
<1>12. k = m => Nothing /\ q = p /\ k # n
  BY <1>3, <1>4, <1>6, Zenon
<1>13. ASSUME NEW j \in 1..L, k = m + j
       PROVE  \E x : Only(x) /\ OneMore(p, x, q) /\ q.types = p.types
  <2> DEFINE x == [name |-> c.layers[j].name, type |-> "toolpath", value |-> <<"layer", c.layers[j]>>,
                   id |-> LayerID(c.layers[j])]
  <2>1. Only(x)
    <3>1. \A i \in 1..L : k = m + i => i = j
      BY <1>6, <1>13, Zenon
    <3>2. Written(c, atts, k, x)
      BY <1>3, <1>13, Zenon
    <3>3. ASSUME NEW y, Written(c, atts, k, y) PROVE y = x
      BY <1>3, <1>6, <1>13, <3>1, <3>3, Zenon
    <3> QED BY <3>2, <3>3
  <2>2. q = addRelationship(addPart(p, c.layers[j].name, <<"layer", c.layers[j]>>, TRUE),
                            LayerID(c.layers[j]), "toolpath", c.layers[j].name)
    BY <1>4, <1>13, Zenon DEF WithLayer
  <2>3. OneMore(p, x, q)
    BY <2>2, WithOneMore
  <2>4. q.types = p.types
    BY <2>3, Zenon DEF OneMore
  <2> HIDE DEF x
  <2> QED BY <2>1, <2>3, <2>4, Zenon
<1>15. Grows(p, p)
  BY GrowsSame
<1>16. ASSUME k # n, q = p, Nothing PROVE Goal
  BY <1>15, <1>16, Zenon
<1>17. ASSUME k # n, \E x : Only(x) /\ OneMore(p, x, q) /\ q.types = p.types PROVE Goal
  BY <1>17, Zenon
<1>18. ASSUME NEW j \in 1..S, k = n + j PROVE Goal
  BY <1>6, <1>10, <1>11, <1>16, <1>17, <1>18, Zenon
<1>19. ASSUME NEW j \in 1..L, k = m + j PROVE Goal
  BY <1>6, <1>13, <1>17, <1>19, Zenon
<1>20. ASSUME k = m PROVE Goal
  BY <1>6, <1>12, <1>16, <1>20, Zenon
<1>21. Goal
  BY <1>7, <1>8, <1>9, <1>14, <1>18, <1>19, <1>20, Zenon
<1> QED BY <1>14, <1>21, Zenon DEF Adds

(* StepsCount: the number of steps.                                        *)
LEMMA StepsCount ==
  ASSUME NEW c, NEW atts, Ordered(c, atts)
  PROVE  Steps(c, atts) \in Nat /\ Len(atts) \in Nat
<1> DEFINE A == Len(atts)
           S == Len(c.streams)
           L == Len(c.layers)
<1>1. A \in Nat /\ S \in Nat /\ L \in Nat
  BY OrderedFacts
<1>2. Steps(c, atts) = A + S + L + 2
  BY DEF Steps
<1> HIDE DEF A, S, L
<1>3. A + S + L + 2 \in Nat
  BY <1>1
<1> QED BY <1>1, <1>2, <1>3, Zenon DEF A

(* HoldsMore: what a step before the n-th writes is in the package.        *)
LEMMA HoldsMore ==
  ASSUME NEW c, NEW atts, Ordered(c, atts), NEW n \in 1..Steps(c, atts), NEW front,
         NEW p, Holds(c, atts, front, n, p), NEW q, StepIs(c, atts, n, p, q)
  PROVE  Holds(c, atts, front, n + 1, q)
<1>1. n \in Nat /\ Len(atts) \in Nat
  BY StepsCount
<1>2. IsPackage(p) /\ Grows(front, p) /\ p.root = front.root
  BY Zenon DEF Holds
<1> DEFINE Nothing == /\ IsPackage(q) /\ Grows(p, q) /\ q.root = p.root /\ q.parts = p.parts /\ q.rels = p.rels
                      /\ \A x : ~Written(c, atts, n, x)
           One == \E x : /\ Written(c, atts, n, x) /\ OneMore(p, x, q)
                         /\ \A y : Written(c, atts, n, y) => y = x
<1>3. /\ n = Len(atts) + 1 => q.types = TRUE
      /\ n # Len(atts) + 1 => q.types = p.types
      /\ Nothing \/ One
  <2>1. Adds(c, atts, n, p, q)
    BY <1>2, StepWrites
  <2> QED BY <2>1, Zenon DEF Adds
<1>4. /\ (n + 1) - 1 = n /\ n \in 1..n
      /\ \A k \in 1..(n - 1) : k \in 1..n
      /\ \A k \in 1..n : k \in 1..(n - 1) \/ k = n
      /\ n + 1 > Len(atts) + 1 => n = Len(atts) + 1 \/ n > Len(atts) + 1
      /\ n > Len(atts) + 1 => n # Len(atts) + 1
  BY <1>1
<1>5. n + 1 > Len(atts) + 1 => q.types
  <2>1. n > Len(atts) + 1 => p.types
    BY Zenon DEF Holds
  <2> QED BY <1>3, <1>4, <2>1, Zenon
<1>6. IsPackage(q) /\ Grows(p, q) /\ q.root = p.root
  BY <1>3, Zenon DEF OneMore
<1>7. Grows(front, q)
  BY <1>2, <1>6 DEF Grows
<1>8. \A i \in DOMAIN p.parts : i \in DOMAIN q.parts /\ q.parts[i] = p.parts[i]
  BY <1>6 DEF Grows
<1>9. p.rels \subseteq q.rels
  BY <1>6 DEF Grows
<1> DEFINE W(k, x) == Written(c, atts, k, x)
           F(i) == i \in DOMAIN front.parts
<1>10. /\ \A i \in DOMAIN p.parts : F(i) \/ \E k \in 1..(n - 1) : \E x : W(k, x) /\ p.parts[i] = PartOf(x)
       /\ \A k \in 1..(n - 1) : \A x : W(k, x) => IsPart(p, PartOf(x)) /\ RelationOf(x) \in p.rels
       /\ \A r \in p.rels : \E k \in 1..(n - 1) : \E x : W(k, x) /\ r = RelationOf(x)
  BY Zenon DEF Holds
<1>11. \A e : IsPart(p, e) => IsPart(q, e)
  BY <1>8, Zenon DEF IsPart
<1>12. CASE q.parts = p.parts /\ q.rels = p.rels /\ \A x : ~W(n, x)
  <2>1. \A i \in DOMAIN q.parts : F(i) \/ \E k \in 1..n : \E x : W(k, x) /\ q.parts[i] = PartOf(x)
    BY <1>4, <1>10, <1>12, Zenon
  <2>2. \A k \in 1..n : \A x : W(k, x) => IsPart(q, PartOf(x)) /\ RelationOf(x) \in q.rels
    BY <1>4, <1>9, <1>10, <1>11, <1>12, Zenon
  <2>3. \A r \in q.rels : \E k \in 1..n : \E x : W(k, x) /\ r = RelationOf(x)
    BY <1>4, <1>10, <1>12, Zenon
  <2> QED BY <1>2, <1>4, <1>5, <1>6, <1>7, <2>1, <2>2, <2>3, Zenon DEF Holds
<1>13. ASSUME NEW x, W(n, x), OneMore(p, x, q), \A y : W(n, y) => y = x
       PROVE  Holds(c, atts, front, n + 1, q)
  <2>1. /\ IsPart(q, PartOf(x))
        /\ \A i \in DOMAIN q.parts : i \in DOMAIN p.parts \/ q.parts[i] = PartOf(x)
        /\ q.rels = p.rels \cup {RelationOf(x)}
    BY <1>13, Zenon DEF OneMore
  <2>2. RelationOf(x) \in q.rels /\ \A r \in q.rels : r \in p.rels \/ r = RelationOf(x)
    BY <2>1
  <2>3. ASSUME NEW i \in DOMAIN q.parts PROVE F(i) \/ \E k \in 1..n : \E y : W(k, y) /\ q.parts[i] = PartOf(y)
    <3>1. CASE i \in DOMAIN p.parts
      BY <1>4, <1>8, <1>10, <3>1, Zenon
    <3>2. CASE q.parts[i] = PartOf(x)
      BY <1>4, <1>13, <3>2, Zenon
    <3> QED BY <2>1, <3>1, <3>2, Zenon
  <2>4. \A k \in 1..n : \A y : W(k, y) => IsPart(q, PartOf(y)) /\ RelationOf(y) \in q.rels
    BY <1>4, <1>9, <1>10, <1>11, <1>13, <2>1, <2>2, Zenon
  <2>5. \A r \in q.rels : \E k \in 1..n : \E y : W(k, y) /\ r = RelationOf(y)
    BY <1>4, <1>10, <1>13, <2>2, Zenon
  <2> QED BY <1>2, <1>4, <1>5, <1>6, <1>7, <2>3, <2>4, <2>5, Zenon DEF Holds
<1> QED BY <1>3, <1>12, <1>13, Zenon

(* The parts in front of the steps, and their relationships.               *)
RootPart(v) == [name |-> RootName, value |-> v, whole |-> TRUE]
ThumbnailPart == [name |-> ThumbnailName, value |-> <<"thumbnail">>, whole |-> TRUE]
RootRelation == [id |-> <<"rel", 0>>, type |-> "model", target |-> RootName]
ThumbnailRelation == [id |-> <<"rel", 1>>, type |-> "thumbnail", target |-> ThumbnailName]

(* FrontIs: an export starts with them.                                    *)
LEMMA FrontIs ==
  ASSUME NEW t \in BOOLEAN, NEW v, NEW f, f = FrontPackage(t, v)
  PROVE  /\ IsPackage(f) /\ f.rels = {}
         /\ 1 \in DOMAIN f.parts /\ f.parts[1] = RootPart(v)
         /\ \A i \in DOMAIN f.parts : i = 1 \/ (t /\ f.parts[i] = ThumbnailPart)
         /\ t => f.root = {RootRelation, ThumbnailRelation} /\ \E i \in DOMAIN f.parts : f.parts[i] = ThumbnailPart
         /\ ~t => f.root = {RootRelation}
<1> DEFINE root == RootPart(v)
           picture == ThumbnailPart
           r == RootRelation
           s == ThumbnailRelation
           a == RootPackage(v)
           e == NoPackage
           x == addPart(e, RootName, v, TRUE)
           y == addPart(a, ThumbnailName, <<"thumbnail">>, TRUE)
<1>0. /\ e = [parts |-> << >>, types |-> FALSE, root |-> {}, rels |-> {}]
      /\ x = [e EXCEPT !.parts = Append(@, root)]
      /\ a = [x EXCEPT !.root = @ \cup {r}]
      /\ y = [a EXCEPT !.parts = Append(@, picture)]
      /\ t => f = [y EXCEPT !.root = @ \cup {s}]
      /\ ~t => f = a
  BY Zenon DEF NoPackage, addPart, RootPackage, addRootRelationship, FrontPackage, RootPart, ThumbnailPart,
               RootRelation, ThumbnailRelation
<1>1. a = [parts |-> <<root>>, types |-> FALSE, root |-> {r}, rels |-> {}]
  <2> HIDE DEF root, picture, r, s, a, e, x, y
  <2>1. Append(<< >>, root) = <<root>> /\ {} \cup {r} = {r}
    OBVIOUS
  <2>2. x = [parts |-> <<root>>, types |-> FALSE, root |-> {}, rels |-> {}]
    BY ONLY <1>0, <2>1
  <2> QED BY ONLY <1>0, <2>1, <2>2
<1> DEFINE one == <<root>>
           two == Append(one, picture)
<1>2. /\ IsList(one) /\ DOMAIN one = 1..1 /\ Len(one) = 1 /\ one[1] = root
      /\ IsList(two) /\ DOMAIN two = 1..2 /\ two[1] = root /\ two[2] = picture
  <2> HIDE DEF root, picture, two
  <2>1. one \in Seq({root}) /\ Len(one) = 1 /\ DOMAIN one = 1..1 /\ one[1] = root
    OBVIOUS
  <2> HIDE DEF one
  <2>2. IsList(one)
    BY <2>1, SeqIsList
  <2>3. /\ IsList(two) /\ DOMAIN two = 1..(Len(one) + 1)
        /\ \A i \in 1..Len(one) : two[i] = one[i]
        /\ two[Len(one) + 1] = picture
    <3> DEFINE z == Append(one, picture)
    <3>1. /\ IsList(z) /\ Len(one) \in Nat /\ Len(z) = Len(one) + 1
          /\ DOMAIN one = 1..Len(one) /\ DOMAIN z = 1..(Len(one) + 1)
          /\ \A i \in 1..Len(one) : z[i] = one[i]
          /\ z[Len(one) + 1] = picture
      BY ONLY <2>2, ListAppend
    <3>2. two = z
      BY Zenon DEF two
    <3> QED BY <3>1, <3>2, Zenon
  <2>4. 1 \in 1..1 /\ 1 + 1 = 2
    OBVIOUS
  <2> QED BY <2>1, <2>2, <2>3, <2>4
<1>3. a = [parts |-> one, types |-> FALSE, root |-> {r}, rels |-> {}]
  BY <1>1
<1>4. CASE t
  <2> HIDE DEF root, picture, r, s, a, e, x, y, one
  <2>1. a.parts = one /\ a.root = {r}
    BY ONLY <1>3
  <2>2. y = [parts |-> two, types |-> FALSE, root |-> {r}, rels |-> {}]
    BY ONLY <1>0, <1>3, <2>1
  <2>3. {r} \cup {s} = {r, s} /\ y.root = {r}
    BY ONLY <2>2
  <2> HIDE DEF two
  <2>9. f = [y EXCEPT !.root = @ \cup {s}]
    BY <1>0, <1>4, Zenon
  <2>4. f = [parts |-> two, types |-> FALSE, root |-> {r, s}, rels |-> {}]
    BY ONLY <2>2, <2>3, <2>9
  <2>5. /\ f.parts = two /\ f.root = {r, s} /\ f.rels = {}
        /\ f = [parts |-> f.parts, types |-> f.types, root |-> f.root, rels |-> f.rels]
    BY ONLY <2>4
  <2>6. IsPackage(f)
    BY <1>2, <2>5, FS_EmptySet DEF IsPackage
  <2>7. 1 \in 1..2 /\ 2 \in 1..2 /\ \A i \in 1..2 : i = 1 \/ i = 2
    OBVIOUS
  <2>8. /\ 1 \in DOMAIN f.parts /\ f.parts[1] = root
        /\ \A i \in DOMAIN f.parts : i = 1 \/ (t /\ f.parts[i] = picture)
        /\ \E i \in DOMAIN f.parts : f.parts[i] = picture
    BY <1>2, <1>4, <2>5, <2>7, Zenon
  <2> QED BY <1>4, <2>5, <2>6, <2>8, Zenon DEF root, picture, r, s
<1>5. CASE ~t
  <2> HIDE DEF root, picture, r, s, a, e, x, y, one, two
  <2>1. f = a
    BY <1>0, <1>5, Zenon
  <2>2. /\ f.parts = one /\ f.root = {r} /\ f.rels = {}
        /\ f = [parts |-> f.parts, types |-> f.types, root |-> f.root, rels |-> f.rels]
    BY ONLY <1>3, <2>1
  <2>3. IsPackage(f)
    BY <1>2, <2>2, FS_EmptySet DEF IsPackage
  <2>4. 1 \in 1..1 /\ \A i \in 1..1 : i = 1
    OBVIOUS
  <2>5. /\ 1 \in DOMAIN f.parts /\ f.parts[1] = root
        /\ \A i \in DOMAIN f.parts : i = 1
    BY <1>2, <2>2, <2>4, Zenon
  <2> QED BY <1>5, <2>2, <2>3, <2>5, Zenon DEF root, picture, r, s
<1> QED BY <1>4, <1>5

(* BuiltHolds: a package that was built has what its steps wrote.          *)
LEMMA BuiltHolds ==
  ASSUME NEW c, NEW atts, Ordered(c, atts), c.thumbnail \in BOOLEAN, NEW v,
         NEW n \in 1..(Steps(c, atts) + 1), NEW p, Built(c, atts, v, n, p)
  PROVE  Holds(c, atts, FrontPackage(c.thumbnail, v), n, p)
<1> DEFINE front == FrontPackage(c.thumbnail, v)
<1>0. Steps(c, atts) \in Nat /\ Len(atts) \in Nat
  BY StepsCount
<1>1. PICK T : /\ T[1] = front
               /\ \A k \in 1..(n - 1) : StepIs(c, atts, k, T[k], T[k + 1])
               /\ T[n] = p
  BY Zenon DEF Built
<1>2. IsPackage(front) /\ front.rels = {}
  <2>1. front = FrontPackage(c.thumbnail, v)
    OBVIOUS
  <2> HIDE DEF front
  <2> QED BY <2>1, FrontIs
<1> HIDE DEF front
<1>3. Holds(c, atts, front, 1, T[1])
  <2>1. ~ 1 > Len(atts) + 1 /\ 1 - 1 = 0 /\ \A k \in 1..0 : FALSE
    BY <1>0
  <2>2. Grows(front, front)
    BY GrowsSame
  <2> QED BY <1>1, <1>2, <2>1, <2>2 DEF Holds
<1> DEFINE D == {k \in 1..n : ~Holds(c, atts, front, k, T[k])}
<1>4. ASSUME D # {} PROVE FALSE
  <2>1. D \subseteq Nat
    BY <1>0
  <2> HIDE DEF D
  <2>2. PICK m \in D : \A k \in D : m <= k
    BY <1>4, <2>1, NatMin
  <2>3. m \in 1..n /\ ~Holds(c, atts, front, m, T[m])
    BY <2>2 DEF D
  <2>4. m # 1
    BY <1>3, <2>3, Zenon
  <2> DEFINE k == m - 1
  <2>5. k \in 1..n /\ k \in 1..(n - 1) /\ k \in 1..Steps(c, atts) /\ m = k + 1 /\ ~ m <= k
    BY <1>0, <2>3, <2>4
  <2> HIDE DEF k
  <2>6. Holds(c, atts, front, k, T[k])
    BY <2>2, <2>5, Zenon DEF D
  <2>7. StepIs(c, atts, k, T[k], T[m])
    BY <1>1, <2>5, Zenon
  <2>8. Holds(c, atts, front, m, T[m])
    BY <2>5, <2>6, <2>7, HoldsMore, Zenon
  <2> QED BY <2>3, <2>8
<1>5. n \in 1..n
  BY <1>0
<1> QED BY <1>1, <1>4, <1>5 DEF front

(* No two parts have the same name, none is called like the root model,    *)
(* and none like the thumbnail, if there is one.                           *)
Distinct(c, atts) ==
  /\ \A k \in DOMAIN atts : /\ atts[k].name \in PartNames
                            /\ c.thumbnail => atts[k].name # ThumbnailName
  /\ \A j \in DOMAIN c.streams :
       c.streams[j].arrays # 0 => /\ c.streams[j].path.name \in PartNames
                                  /\ c.thumbnail => c.streams[j].path.name # ThumbnailName
  /\ \A j \in DOMAIN c.layers : /\ c.layers[j].name \in PartNames
                                /\ c.thumbnail => c.layers[j].name # ThumbnailName
  /\ \A k, l \in DOMAIN atts : atts[k].name = atts[l].name => k = l
  /\ \A i, j \in DOMAIN c.streams :
       (c.streams[i].arrays # 0 /\ c.streams[j].arrays # 0 /\ c.streams[i].path.name = c.streams[j].path.name) => i = j
  /\ \A i, j \in DOMAIN c.layers : c.layers[i].name = c.layers[j].name => i = j
  /\ \A j \in DOMAIN c.streams, k \in DOMAIN atts :
       c.streams[j].arrays # 0 => c.streams[j].path.name # atts[k].name
  /\ \A j \in DOMAIN c.layers, k \in DOMAIN atts : c.layers[j].name # atts[k].name
  /\ \A i \in DOMAIN c.streams, j \in DOMAIN c.layers :
       c.streams[i].arrays # 0 => c.streams[i].path.name # c.layers[j].name

(* What is written of an attachment, a stream and a layer.                 *)
OfAttachment(c, atts, k, x) ==
  /\ k \in DOMAIN atts
  /\ x.name = atts[k].name /\ x.type = atts[k].type /\ x.value = atts[k].value
  /\ x.id = <<"rel", IDsInFront(c.thumbnail) + k - 1>>
OfStream(c, j, x) ==
  /\ j \in DOMAIN c.streams /\ c.streams[j].arrays # 0
  /\ x.name = c.streams[j].path.name /\ x.type = "binary" /\ x.value = <<"binary", c.streams[j].arrays>>
  /\ x.id = <<"binary", j>>
OfLayer(c, j, x) ==
  /\ j \in DOMAIN c.layers
  /\ x.name = c.layers[j].name /\ x.type = "toolpath" /\ x.value = <<"layer", c.layers[j]>>
  /\ x.id = LayerID(c.layers[j])
IsItem(x) == x = [name |-> x.name, type |-> x.type, value |-> x.value, id |-> x.id]

(* WrittenIs: the parts are these.                                         *)
LEMMA WrittenIs ==
  ASSUME NEW c, NEW atts, NEW k, NEW x, Written(c, atts, k, x)
  PROVE  /\ IsItem(x)
         /\ \/ OfAttachment(c, atts, k, x)
            \/ \E j \in DOMAIN c.streams : OfStream(c, j, x)
            \/ \E j \in DOMAIN c.layers : OfLayer(c, j, x)
<1>1. ASSUME NEW name, NEW type, NEW value, NEW id, x = [name |-> name, type |-> type, value |-> value, id |-> id]
      PROVE  IsItem(x) /\ x.name = name /\ x.type = type /\ x.value = value /\ x.id = id
  BY ONLY <1>1 DEF IsItem
<1>2. CASE /\ k \in DOMAIN atts
           /\ x = [name |-> atts[k].name, type |-> atts[k].type, value |-> atts[k].value,
                   id |-> <<"rel", IDsInFront(c.thumbnail) + k - 1>>]
  <2>1. /\ IsItem(x) /\ x.name = atts[k].name /\ x.type = atts[k].type /\ x.value = atts[k].value
        /\ x.id = <<"rel", IDsInFront(c.thumbnail) + k - 1>>
    BY <1>1, <1>2, Zenon
  <2> QED BY <1>2, <2>1, Zenon DEF OfAttachment
<1>3. ASSUME NEW j \in DOMAIN c.streams, c.streams[j].arrays # 0,
             x = [name |-> c.streams[j].path.name, type |-> "binary", value |-> <<"binary", c.streams[j].arrays>>,
                  id |-> <<"binary", j>>]
      PROVE  IsItem(x) /\ OfStream(c, j, x)
  <2>1. /\ IsItem(x) /\ x.name = c.streams[j].path.name /\ x.type = "binary"
        /\ x.value = <<"binary", c.streams[j].arrays>> /\ x.id = <<"binary", j>>
    BY <1>1, <1>3, Zenon
  <2> QED BY <1>3, <2>1, Zenon DEF OfStream
<1>4. ASSUME NEW j \in DOMAIN c.layers,
             x = [name |-> c.layers[j].name, type |-> "toolpath", value |-> <<"layer", c.layers[j]>>,
                  id |-> LayerID(c.layers[j])]
      PROVE  IsItem(x) /\ OfLayer(c, j, x)
  <2>1. /\ IsItem(x) /\ x.name = c.layers[j].name /\ x.type = "toolpath" /\ x.value = <<"layer", c.layers[j]>>
        /\ x.id = LayerID(c.layers[j])
    BY <1>1, <1>4, Zenon
  <2> QED BY <1>4, <2>1, Zenon DEF OfLayer
<1> QED BY <1>2, <1>3, <1>4, Zenon DEF Written

(* SameItem: parts with the same fields.                                   *)
LEMMA SameItem ==
  ASSUME NEW x, NEW y, IsItem(x), IsItem(y), x.name = y.name, x.type = y.type, x.value = y.value, x.id = y.id
  PROVE  x = y
BY DEF IsItem

(* OneOfItsName: a part has a name of its own.                             *)
LEMMA OneOfItsName ==
  ASSUME NEW c, NEW atts, Distinct(c, atts), NEW k, NEW x, Written(c, atts, k, x),
         NEW l, NEW y, Written(c, atts, l, y)
  PROVE  /\ x.name = y.name => x = y
         /\ x.name \in PartNames /\ (c.thumbnail => x.name # ThumbnailName)
<1>1. /\ IsItem(x)
      /\ \/ OfAttachment(c, atts, k, x)
         \/ \E j \in DOMAIN c.streams : OfStream(c, j, x)
         \/ \E j \in DOMAIN c.layers : OfLayer(c, j, x)
  BY WrittenIs
<1>2. /\ IsItem(y)
      /\ \/ OfAttachment(c, atts, l, y)
         \/ \E j \in DOMAIN c.streams : OfStream(c, j, y)
         \/ \E j \in DOMAIN c.layers : OfLayer(c, j, y)
  BY WrittenIs
<1>3. x.name \in PartNames /\ (c.thumbnail => x.name # ThumbnailName)
  BY <1>1, Zenon DEF OfAttachment, OfStream, OfLayer, Distinct
<1>4. ASSUME x.name = y.name PROVE x = y
  <2>1. CASE OfAttachment(c, atts, k, x)
    <3>1. CASE OfAttachment(c, atts, l, y)
      <4>1. k = l
        BY <1>4, <2>1, <3>1, Zenon DEF OfAttachment, Distinct
      <4>2. x.type = y.type /\ x.value = y.value /\ x.id = y.id
        BY <2>1, <3>1, <4>1, Zenon DEF OfAttachment
      <4> QED BY <1>1, <1>2, <1>4, <4>2, SameItem
    <3>2. ASSUME NEW j, OfStream(c, j, y) PROVE FALSE
      <4>1. c.streams[j].path.name = atts[k].name /\ j \in DOMAIN c.streams /\ k \in DOMAIN atts /\ c.streams[j].arrays # 0
        BY <1>4, <2>1, <3>2, Zenon DEF OfAttachment, OfStream
      <4> QED BY <4>1, Zenon DEF Distinct
    <3>3. \A j : ~OfLayer(c, j, y)
      BY <1>4, <2>1, Zenon DEF OfAttachment, OfLayer, Distinct
    <3> QED BY <1>2, <3>1, <3>2, <3>3, Zenon
  <2>2. ASSUME NEW i, OfStream(c, i, x) PROVE x = y
    <3>1. ~OfAttachment(c, atts, l, y)
      BY <1>4, <2>2, Zenon DEF OfAttachment, OfStream, Distinct
    <3>2. ASSUME NEW j, OfStream(c, j, y) PROVE x = y
      <4>1. i = j
        BY <1>4, <2>2, <3>2, Zenon DEF OfStream, Distinct
      <4>2. x.type = y.type /\ x.value = y.value /\ x.id = y.id
        BY <2>2, <3>2, <4>1, Zenon DEF OfStream
      <4> QED BY <1>1, <1>2, <1>4, <4>2, SameItem
    <3>3. \A j : ~OfLayer(c, j, y)
      BY <1>4, <2>2, Zenon DEF OfStream, OfLayer, Distinct
    <3> QED BY <1>2, <3>1, <3>2, <3>3, Zenon
  <2>3. ASSUME NEW i, OfLayer(c, i, x) PROVE x = y
    <3>1. ~OfAttachment(c, atts, l, y)
      BY <1>4, <2>3, Zenon DEF OfAttachment, OfLayer, Distinct
    <3>2. \A j : ~OfStream(c, j, y)
      BY <1>4, <2>3, Zenon DEF OfStream, OfLayer, Distinct
    <3>3. ASSUME NEW j, OfLayer(c, j, y) PROVE x = y
      <4>1. i = j
        BY <1>4, <2>3, <3>3, Zenon DEF OfLayer, Distinct
      <4>2. x.type = y.type /\ x.value = y.value /\ x.id = y.id
        BY <2>3, <3>3, <4>1, Zenon DEF OfLayer
      <4> QED BY <1>1, <1>2, <1>4, <4>2, SameItem
    <3> QED BY <1>2, <3>1, <3>2, <3>3, Zenon
  <2> QED BY <1>1, <2>1, <2>2, <2>3, Zenon
<1> QED BY <1>3, <1>4

(* OneOfItsID: and a relationship has an ID of its own.                    *)
LEMMA OneOfItsID ==
  ASSUME NEW c, NEW atts, IsList(atts), Distinct(c, atts), NEW k, NEW x, Written(c, atts, k, x),
         NEW l, NEW y, Written(c, atts, l, y), x.id = y.id
  PROVE  x = y
<1>1. /\ IsItem(x)
      /\ \/ OfAttachment(c, atts, k, x)
         \/ \E j \in DOMAIN c.streams : OfStream(c, j, x)
         \/ \E j \in DOMAIN c.layers : OfLayer(c, j, x)
  BY WrittenIs
<1>2. /\ IsItem(y)
      /\ \/ OfAttachment(c, atts, l, y)
         \/ \E j \in DOMAIN c.streams : OfStream(c, j, y)
         \/ \E j \in DOMAIN c.layers : OfLayer(c, j, y)
  BY WrittenIs
<1>3. /\ OfAttachment(c, atts, k, x) => x.id[1] = "rel" /\ x.id[2] = IDsInFront(c.thumbnail) + k - 1
      /\ OfAttachment(c, atts, l, y) => y.id[1] = "rel" /\ y.id[2] = IDsInFront(c.thumbnail) + l - 1
  BY DEF OfAttachment
<1>4. \A j : /\ OfStream(c, j, x) => x.id[1] = "binary" /\ x.id[2] = j
             /\ OfStream(c, j, y) => y.id[1] = "binary" /\ y.id[2] = j
  BY DEF OfStream
<1>5. \A j : /\ OfLayer(c, j, x) => x.id[1] = "attachment" /\ x.id[3] = c.layers[j].name
             /\ OfLayer(c, j, y) => y.id[1] = "attachment" /\ y.id[3] = c.layers[j].name
  BY DEF OfLayer, LayerID
<1>6. "rel" # "binary" /\ "rel" # "attachment" /\ "binary" # "attachment"
  OBVIOUS
<1>7. x.id[1] = y.id[1] /\ x.id[2] = y.id[2] /\ x.id[3] = y.id[3]
  OBVIOUS
<1>8. CASE OfAttachment(c, atts, k, x) /\ OfAttachment(c, atts, l, y)
  <2>1. k \in Nat /\ l \in Nat
    <3>1. DOMAIN atts = 1..Len(atts) /\ Len(atts) \in Nat
      BY ListFacts
    <3>2. k \in DOMAIN atts /\ l \in DOMAIN atts
      BY <1>8 DEF OfAttachment
    <3> QED BY <3>1, <3>2
  <2>2. IDsInFront(c.thumbnail) \in Nat
    BY DEF IDsInFront
  <2> DEFINE d == IDsInFront(c.thumbnail)
  <2>3. d + k - 1 = d + l - 1
    BY <1>3, <1>7, <1>8, Zenon
  <2> HIDE DEF d
  <2>4. k = l
    BY <2>1, <2>2, <2>3 DEF d
  <2>5. x.name = y.name
    BY <1>8, <2>4, Zenon DEF OfAttachment
  <2> QED BY <2>5, OneOfItsName
<1>9. ASSUME NEW i, NEW j, OfStream(c, i, x), OfStream(c, j, y) PROVE x = y
  <2>1. i = j
    <3>1. x.id[2] = i /\ y.id[2] = j
      BY <1>4, <1>9, Zenon
    <3> QED BY <1>7, <3>1
  <2>2. x.name = y.name
    BY <1>9, <2>1, Zenon DEF OfStream
  <2> QED BY <2>2, OneOfItsName
<1>10. ASSUME NEW i, NEW j, OfLayer(c, i, x), OfLayer(c, j, y) PROVE x = y
  <2>1. x.name = y.name
    BY <1>5, <1>7, <1>10, Zenon DEF OfLayer
  <2> QED BY <2>1, OneOfItsName
<1> QED BY <1>1, <1>2, <1>3, <1>4, <1>5, <1>6, <1>7, <1>8, <1>9, <1>10, Zenon

(* What the reader finds of a relationship.                                *)
Found(p, r) == [name |-> r.target, type |-> r.type, value |-> Entry(p, r.target).value, id |-> r.id]

(* The package p has a whole part and a relationship for every attachment, *)
(* every stream that is not empty and every layer, and no other, and they  *)
(* can be told apart.                                                      *)
Shows(c, atts, p) ==
  /\ \A r \in p.rels : r.target \in Names(p) /\ Entry(p, r.target).whole
  /\ \A r, s \in p.rels : (r.target = s.target \/ r.id = s.id) => r = s
  /\ \A r \in p.rels : \/ \E k : OfAttachment(c, atts, k, Found(p, r))
                       \/ \E j : OfStream(c, j, Found(p, r))
                       \/ \E j : OfLayer(c, j, Found(p, r))
  /\ \A k \in DOMAIN atts : \E r \in p.rels : OfAttachment(c, atts, k, Found(p, r))
  /\ \A j \in DOMAIN c.streams : c.streams[j].arrays # 0 => \E r \in p.rels : OfStream(c, j, Found(p, r))
  /\ \A j \in DOMAIN c.layers : \E r \in p.rels : OfLayer(c, j, Found(p, r))

(* The reader finds what the steps before the n-th wrote.                  *)
Finds(c, atts, n, p) ==
  \A k \in 1..(n - 1) : \A x :
    Written(c, atts, k, x) => x.name \in Names(p) /\ Entry(p, x.name) = PartOf(x)

(* EntryOf: the reader finds what was written under a name.                *)
LEMMA EntryOf ==
  ASSUME NEW c, NEW atts, c.thumbnail \in BOOLEAN, Distinct(c, atts), NEW v, NEW n, NEW p,
         Holds(c, atts, FrontPackage(c.thumbnail, v), n, p)
  PROVE  /\ Finds(c, atts, n, p)
         /\ RootName \in Names(p) /\ Entry(p, RootName) = RootPart(v)
         /\ c.thumbnail => ThumbnailName \in Names(p)
<1> DEFINE f == FrontPackage(c.thumbnail, v)
           root == RootPart(v)
           picture == ThumbnailPart
<1>1. /\ 1 \in DOMAIN f.parts /\ f.parts[1] = root
      /\ \A i \in DOMAIN f.parts : i = 1 \/ (c.thumbnail /\ f.parts[i] = picture)
      /\ c.thumbnail => \E i \in DOMAIN f.parts : f.parts[i] = picture
  <2>1. f = FrontPackage(c.thumbnail, v)
    OBVIOUS
  <2> HIDE DEF f
  <2> QED BY <2>1, FrontIs
<1>2. root.name = RootName /\ picture.name = ThumbnailName
  BY DEF RootPart, ThumbnailPart
<1> HIDE DEF root, picture, f
<1>3. IsPackage(p) /\ Grows(f, p)
  BY Zenon DEF Holds, f
<1>4. \A i \in DOMAIN f.parts : i \in DOMAIN p.parts /\ p.parts[i] = f.parts[i]
  BY <1>3, Zenon DEF Grows
<1>5. \A i \in DOMAIN p.parts : \/ p.parts[i] = root
                                \/ c.thumbnail /\ p.parts[i] = picture
                                \/ \E k \in 1..(n - 1) : \E x : Written(c, atts, k, x) /\ p.parts[i] = PartOf(x)
  <2>1. \A i \in DOMAIN p.parts :
          \/ i \in DOMAIN f.parts
          \/ \E k \in 1..(n - 1) : \E x : Written(c, atts, k, x) /\ p.parts[i] = PartOf(x)
    BY Zenon DEF Holds, f
  <2>2. \A i \in DOMAIN f.parts : p.parts[i] = root \/ (c.thumbnail /\ p.parts[i] = picture)
    BY <1>1, <1>4
  <2> QED BY <2>1, <2>2, Zenon
<1>6. RootName \notin PartNames /\ RootName # ThumbnailName
  BY PackageAssumption
<1>7. \A x : PartOf(x).name = x.name
  BY DEF PartOf
<1>8. ASSUME NEW k \in 1..(n - 1), NEW x, Written(c, atts, k, x)
      PROVE  x.name \in Names(p) /\ Entry(p, x.name) = PartOf(x)
  <2>1. IsPart(p, PartOf(x))
    BY <1>8, Zenon DEF Holds
  <2>2. x.name \in Names(p)
    BY <1>7, <2>1 DEF IsPart, Names
  <2>3. PICK i \in DOMAIN p.parts : Entry(p, x.name) = p.parts[i] /\ p.parts[i].name = x.name
    BY <1>3, <2>2, EntryNamed
  <2>4. x.name \in PartNames /\ (c.thumbnail => x.name # ThumbnailName)
    BY <1>8, OneOfItsName
  <2>5. p.parts[i] # root /\ ~(c.thumbnail /\ p.parts[i] = picture)
    BY <1>2, <1>6, <2>3, <2>4, Zenon
  <2>6. PICK l \in 1..(n - 1) : \E y : Written(c, atts, l, y) /\ p.parts[i] = PartOf(y)
    BY <1>5, <2>5, Zenon
  <2>7. PICK y : Written(c, atts, l, y) /\ p.parts[i] = PartOf(y)
    BY <2>6
  <2>8. x.name = y.name
    BY <1>7, <2>3, <2>7, Zenon
  <2>9. x = y
    BY <1>8, <2>7, <2>8, OneOfItsName
  <2> QED BY <2>2, <2>3, <2>7, <2>9, Zenon
<1>9. RootName \in Names(p) /\ Entry(p, RootName) = root
  <2>1. 1 \in DOMAIN p.parts /\ p.parts[1] = root
    BY <1>1, <1>4, Zenon
  <2>2. RootName \in Names(p)
    BY <1>2, <2>1 DEF Names
  <2>3. PICK i \in DOMAIN p.parts : Entry(p, RootName) = p.parts[i] /\ p.parts[i].name = RootName
    BY <1>3, <2>2, EntryNamed
  <2>4. p.parts[i] # picture
    BY <1>2, <1>6, <2>3, Zenon
  <2>5. ASSUME NEW k \in 1..(n - 1), NEW x, Written(c, atts, k, x), p.parts[i] = PartOf(x) PROVE FALSE
    <3>1. x.name \in PartNames
      BY <2>5, OneOfItsName
    <3> QED BY <1>6, <1>7, <2>3, <2>5, <3>1, Zenon
  <2> QED BY <1>5, <2>2, <2>3, <2>4, <2>5, Zenon
<1>10. c.thumbnail => ThumbnailName \in Names(p)
  <2> SUFFICES ASSUME c.thumbnail PROVE ThumbnailName \in Names(p)
    OBVIOUS
  <2>1. \E i \in DOMAIN p.parts : p.parts[i] = picture
    BY <1>1, <1>4, Zenon
  <2> QED BY <1>2, <2>1 DEF Names
<1> QED BY <1>8, <1>9, <1>10, Zenon DEF root, Finds

(* EverythingIsWritten: every attachment, every stream that is not empty   *)
(* and every layer is written by a step.                                   *)
LEMMA EverythingIsWritten ==
  ASSUME NEW c, NEW atts, Ordered(c, atts)
  PROVE  /\ \A i \in DOMAIN atts : \E k \in 1..Steps(c, atts) : \E x :
              Written(c, atts, k, x) /\ OfAttachment(c, atts, i, x)
         /\ \A j \in DOMAIN c.streams : c.streams[j].arrays # 0 =>
              \E k \in 1..Steps(c, atts) : \E x : Written(c, atts, k, x) /\ OfStream(c, j, x)
         /\ \A j \in DOMAIN c.layers : \E k \in 1..Steps(c, atts) : \E x :
              Written(c, atts, k, x) /\ OfLayer(c, j, x)
<1> DEFINE A == Len(atts)
           S == Len(c.streams)
           L == Len(c.layers)
<1>1. /\ S \in Nat /\ DOMAIN c.streams = 1..S
      /\ L \in Nat /\ DOMAIN c.layers = 1..L
      /\ A \in Nat /\ DOMAIN atts = 1..A
  BY OrderedFacts
<1>2. Steps(c, atts) = A + S + L + 2
  BY DEF Steps
<1> HIDE DEF A, S, L
<1>3. /\ \A i \in 1..A : i \in 1..Steps(c, atts)
      /\ \A j \in 1..S : A + 1 + j \in 1..Steps(c, atts)
      /\ \A j \in 1..L : A + S + 2 + j \in 1..Steps(c, atts)
  BY <1>1, <1>2
<1>4. ASSUME NEW i \in DOMAIN atts
      PROVE  \E k \in 1..Steps(c, atts) : \E x : Written(c, atts, k, x) /\ OfAttachment(c, atts, i, x)
  <2> DEFINE x == [name |-> atts[i].name, type |-> atts[i].type, value |-> atts[i].value,
                   id |-> <<"rel", IDsInFront(c.thumbnail) + i - 1>>]
  <2>1. Written(c, atts, i, x)
    BY Zenon DEF Written
  <2>2. OfAttachment(c, atts, i, x)
    <3>1. /\ x.name = atts[i].name /\ x.type = atts[i].type /\ x.value = atts[i].value
          /\ x.id = <<"rel", IDsInFront(c.thumbnail) + i - 1>>
      OBVIOUS
    <3> HIDE DEF x
    <3> QED BY <3>1, Zenon DEF OfAttachment
  <2> HIDE DEF x
  <2> QED BY <1>1, <1>3, <2>1, <2>2, Zenon
<1>5. ASSUME NEW j \in DOMAIN c.streams, c.streams[j].arrays # 0
      PROVE  \E k \in 1..Steps(c, atts) : \E x : Written(c, atts, k, x) /\ OfStream(c, j, x)
  <2> DEFINE x == [name |-> c.streams[j].path.name, type |-> "binary", value |-> <<"binary", c.streams[j].arrays>>,
                   id |-> <<"binary", j>>]
             k == A + 1 + j
  <2>1. Written(c, atts, k, x)
    BY <1>5, Zenon DEF Written, A
  <2>2. OfStream(c, j, x)
    <3>1. /\ x.name = c.streams[j].path.name /\ x.type = "binary" /\ x.value = <<"binary", c.streams[j].arrays>>
          /\ x.id = <<"binary", j>>
      OBVIOUS
    <3> HIDE DEF x
    <3> QED BY <1>5, <3>1, Zenon DEF OfStream
  <2>3. k \in 1..Steps(c, atts)
    BY <1>1, <1>3
  <2> HIDE DEF x, k
  <2> QED BY <2>1, <2>2, <2>3, Zenon
<1>6. ASSUME NEW j \in DOMAIN c.layers
      PROVE  \E k \in 1..Steps(c, atts) : \E x : Written(c, atts, k, x) /\ OfLayer(c, j, x)
  <2> DEFINE x == [name |-> c.layers[j].name, type |-> "toolpath", value |-> <<"layer", c.layers[j]>>,
                   id |-> LayerID(c.layers[j])]
             k == A + S + 2 + j
  <2>1. Written(c, atts, k, x)
    BY Zenon DEF Written, A, S
  <2>2. OfLayer(c, j, x)
    <3>1. /\ x.name = c.layers[j].name /\ x.type = "toolpath" /\ x.value = <<"layer", c.layers[j]>>
          /\ x.id = LayerID(c.layers[j])
      OBVIOUS
    <3> HIDE DEF x
    <3> QED BY <3>1, Zenon DEF OfLayer
  <2>3. k \in 1..Steps(c, atts)
    BY <1>1, <1>3
  <2> HIDE DEF x, k
  <2> QED BY <2>1, <2>2, <2>3, Zenon
<1> QED BY <1>4, <1>5, <1>6, Zenon

(* PackageShows: what a complete export with distinct names wrote.         *)
LEMMA PackageShows ==
  ASSUME NEW c, NEW atts, Ordered(c, atts), c.thumbnail \in BOOLEAN, Distinct(c, atts), NEW v, NEW p,
         Holds(c, atts, FrontPackage(c.thumbnail, v), Steps(c, atts) + 1, p)
  PROVE  Shows(c, atts, p)
<1> DEFINE n == Steps(c, atts)
           W(k, x) == Written(c, atts, k, x)
<1>1. n \in Nat /\ (n + 1) - 1 = n
  <2>1. Steps(c, atts) \in Nat
    BY StepsCount
  <2> HIDE DEF n
  <2>2. n \in Nat
    BY <2>1 DEF n
  <2> QED BY <2>2
<1>2. \A k \in 1..n : \A x : W(k, x) => x.name \in Names(p) /\ Entry(p, x.name) = PartOf(x)
  <2> DEFINE m == n + 1
  <2>1. Holds(c, atts, FrontPackage(c.thumbnail, v), m, p)
    OBVIOUS
  <2> HIDE DEF m, n
  <2>4. Finds(c, atts, m, p)
    BY <2>1, EntryOf
  <2>2. \A k \in 1..(m - 1) : \A x : W(k, x) => x.name \in Names(p) /\ Entry(p, x.name) = PartOf(x)
    BY <2>4, Zenon DEF Finds
  <2>3. m - 1 = n
    BY <1>1 DEF m
  <2> QED BY <2>2, <2>3, Zenon
<1>3. /\ \A k \in 1..n : \A x : W(k, x) => RelationOf(x) \in p.rels
      /\ \A r \in p.rels : \E k \in 1..n : \E x : W(k, x) /\ r = RelationOf(x)
  BY <1>1, Zenon DEF Holds
<1>4. ASSUME NEW k \in 1..n, NEW x, W(k, x), NEW r, r = RelationOf(x)
      PROVE  /\ Found(p, r) = x /\ r.target = x.name /\ r.id = x.id /\ r.target \in Names(p)
             /\ Entry(p, r.target).whole
  <2>1. r.target = x.name /\ r.type = x.type /\ r.id = x.id
    BY <1>4 DEF RelationOf
  <2>2. IsItem(x)
    BY <1>4, WrittenIs
  <2>3. Entry(p, r.target) = PartOf(x) /\ r.target \in Names(p)
    BY <1>2, <1>4, <2>1, Zenon
  <2>4. PartOf(x).value = x.value /\ PartOf(x).whole
    BY DEF PartOf
  <2>5. Found(p, r) = [name |-> x.name, type |-> x.type, value |-> x.value, id |-> x.id]
    BY <2>1, <2>3, <2>4, Zenon DEF Found
  <2> QED BY <2>1, <2>2, <2>3, <2>4, <2>5, Zenon DEF IsItem
<1>5. \A r \in p.rels : r.target \in Names(p) /\ Entry(p, r.target).whole
  BY <1>3, <1>4, Zenon
<1>6. ASSUME NEW r \in p.rels, NEW s \in p.rels, r.target = s.target \/ r.id = s.id PROVE r = s
  <2>1. PICK k \in 1..n : \E x : W(k, x) /\ r = RelationOf(x)
    BY <1>3, Zenon
  <2>2. PICK x : W(k, x) /\ r = RelationOf(x)
    BY <2>1
  <2>3. PICK l \in 1..n : \E y : W(l, y) /\ s = RelationOf(y)
    BY <1>3, Zenon
  <2>4. PICK y : W(l, y) /\ s = RelationOf(y)
    BY <2>3
  <2>5. x.name = y.name \/ x.id = y.id
    BY <1>4, <1>6, <2>2, <2>4, Zenon
  <2>6. IsList(atts)
    BY DEF Ordered
  <2>7. x = y
    BY <2>2, <2>4, <2>5, <2>6, OneOfItsName, OneOfItsID
  <2> QED BY <2>2, <2>4, <2>7, Zenon
<1>7. ASSUME NEW r \in p.rels
      PROVE  \/ \E k : OfAttachment(c, atts, k, Found(p, r))
             \/ \E j : OfStream(c, j, Found(p, r))
             \/ \E j : OfLayer(c, j, Found(p, r))
  <2>1. PICK k \in 1..n : \E x : W(k, x) /\ r = RelationOf(x)
    BY <1>3, Zenon
  <2>2. PICK x : W(k, x) /\ r = RelationOf(x)
    BY <2>1
  <2>3. Found(p, r) = x
    BY <1>4, <2>2, Zenon
  <2>4. \/ OfAttachment(c, atts, k, x)
        \/ \E j \in DOMAIN c.streams : OfStream(c, j, x)
        \/ \E j \in DOMAIN c.layers : OfLayer(c, j, x)
    BY <2>2, WrittenIs
  <2> QED BY <2>3, <2>4, Zenon
<1>8. \A k \in DOMAIN atts : \E r \in p.rels : OfAttachment(c, atts, k, Found(p, r))
  <2>1. \A i \in DOMAIN atts : \E k \in 1..n : \E x : W(k, x) /\ OfAttachment(c, atts, i, x)
    BY EverythingIsWritten
  <2> QED BY <1>3, <1>4, <2>1, Zenon
<1>9. \A j \in DOMAIN c.streams : c.streams[j].arrays # 0 => \E r \in p.rels : OfStream(c, j, Found(p, r))
  <2>1. \A j \in DOMAIN c.streams : c.streams[j].arrays # 0 => \E k \in 1..n : \E x : W(k, x) /\ OfStream(c, j, x)
    BY EverythingIsWritten
  <2> QED BY <1>3, <1>4, <2>1, Zenon
<1>10. \A j \in DOMAIN c.layers : \E r \in p.rels : OfLayer(c, j, Found(p, r))
  <2>1. \A j \in DOMAIN c.layers : \E k \in 1..n : \E x : W(k, x) /\ OfLayer(c, j, x)
    BY EverythingIsWritten
  <2> QED BY <1>3, <1>4, <2>1, Zenon
<1> QED BY <1>5, <1>6, <1>7, <1>8, <1>9, <1>10, Zenon DEF Shows

(* The attachments of a client and the writer, and the stream of a mesh.   *)
KnownType(atts) == \A k \in DOMAIN atts : atts[k].type \in {"texture", "custom", "toolpath", "model"}
HasSlices(atts) == \A k \in DOMAIN atts : atts[k].type = "model" => atts[k].value[1] = "slices"
HasMesh(c, v) ==
  v[3] > 0 => \E j \in DOMAIN c.streams :
                c.streams[j].arrays # 0 /\ v[2] = c.streams[j].path.name /\ c.streams[j].arrays >= v[3]

(* TargetIs: where the relationships of some types lead.                   *)
LEMMA TargetIs ==
  ASSUME NEW p, NEW types
  PROVE  /\ \A t \in TargetsOf(p, types) : \E r \in p.rels : r.type \in types /\ r.target = t
         /\ \A r \in p.rels : r.type \in types => r.target \in TargetsOf(p, types)
BY DEF TargetsOf

(* FoundIs: what the reader finds of a relationship.                       *)
LEMMA FoundIs ==
  ASSUME NEW p, NEW r
  PROVE  /\ Found(p, r).name = r.target /\ Found(p, r).type = r.type
         /\ Found(p, r).value = Entry(p, r.target).value /\ Found(p, r).id = r.id
BY DEF Found

(* OfItsType: what the type of a relationship says of it.                  *)
LEMMA OfItsType ==
  ASSUME NEW c, NEW atts, NEW p, Shows(c, atts, p), KnownType(atts), NEW r \in p.rels
  PROVE  /\ r.type \in {"texture", "custom", "model"} => \E k : OfAttachment(c, atts, k, Found(p, r))
         /\ r.type = "binary" => \E j : OfStream(c, j, Found(p, r))
         /\ r.type = "toolpath" => \/ \E k : OfAttachment(c, atts, k, Found(p, r))
                                   \/ \E j : OfLayer(c, j, Found(p, r))
<1>1. \/ \E k : OfAttachment(c, atts, k, Found(p, r))
      \/ \E j : OfStream(c, j, Found(p, r))
      \/ \E j : OfLayer(c, j, Found(p, r))
  BY Zenon DEF Shows
<1>2. Found(p, r).type = r.type
  BY FoundIs
<1>3. \A k : OfAttachment(c, atts, k, Found(p, r)) => r.type \in {"texture", "custom", "toolpath", "model"}
  BY <1>2, Zenon DEF OfAttachment, KnownType
<1>4. \A j : OfStream(c, j, Found(p, r)) => r.type = "binary"
  BY <1>2, Zenon DEF OfStream
<1>5. \A j : OfLayer(c, j, Found(p, r)) => r.type = "toolpath"
  BY <1>2, Zenon DEF OfLayer
<1> DEFINE A == \E k : OfAttachment(c, atts, k, Found(p, r))
           B == \E j : OfStream(c, j, Found(p, r))
           C == \E j : OfLayer(c, j, Found(p, r))
<1>6. /\ A => r.type \in {"texture", "custom", "toolpath", "model"}
      /\ B => r.type = "binary"
      /\ C => r.type = "toolpath"
      /\ A \/ B \/ C
  BY <1>1, <1>3, <1>4, <1>5, Zenon
<1> HIDE DEF A, B, C
<1>7. /\ r.type \in {"texture", "custom", "model"} => A
      /\ r.type = "binary" => B
      /\ r.type = "toolpath" => A \/ C
  BY <1>6
<1> QED BY <1>7, Zenon DEF A, B, C

(* ShownIsReadable: such a package is readable, and each stream is in its  *)
(* part.                                                                   *)
LEMMA ShownIsReadable ==
  ASSUME NEW c, NEW atts, NEW p, Shows(c, atts, p), KnownType(atts), HasSlices(atts), c.thumbnail \in BOOLEAN,
         NEW v, HasMesh(c, v), p.types, p.root = FrontPackage(c.thumbnail, v).root,
         RootName \in Names(p), Entry(p, RootName) = RootPart(v),
         c.thumbnail => ThumbnailName \in Names(p)
  PROVE  /\ Readable(p, {"custom", "toolpath"})
         /\ \A j \in DOMAIN c.streams :
              c.streams[j].arrays # 0 => Entry(p, c.streams[j].path.name).value = <<"binary", c.streams[j].arrays>>
<1>1. /\ c.thumbnail => p.root = {RootRelation, ThumbnailRelation}
      /\ ~c.thumbnail => p.root = {RootRelation}
  <2> DEFINE f == FrontPackage(c.thumbnail, v)
  <2>1. f = FrontPackage(c.thumbnail, v) /\ p.root = f.root
    OBVIOUS
  <2> HIDE DEF f
  <2> QED BY <2>1, FrontIs
<1>2. /\ RootRelation.type = "model" /\ RootRelation.target = RootName /\ RootRelation.id = <<"rel", 0>>
      /\ ThumbnailRelation.type = "thumbnail" /\ ThumbnailRelation.target = ThumbnailName
      /\ ThumbnailRelation.id = <<"rel", 1>> /\ <<"rel", 0>> # <<"rel", 1>>
      /\ "model" # "thumbnail"
  BY DEF RootRelation, ThumbnailRelation
<1>3. \A r \in p.rels : r.target \in Names(p) /\ Entry(p, r.target).whole
  BY Zenon DEF Shows
<1>4. \A r, s \in p.rels : (r.target = s.target \/ r.id = s.id) => r = s
  BY Zenon DEF Shows
<1>5. OpensPackage(p)
  <2>1. RootRelation \in p.root
    BY <1>1
  <2>2. \A r \in p.root : r = RootRelation \/ r = ThumbnailRelation
    BY <1>1
  <2>3. p.root # {}
    BY <2>1
  <2>4. DistinctIDs(p.root)
    BY <1>2, <2>2, Zenon DEF DistinctIDs
  <2>5. DistinctIDs(p.rels)
    BY <1>4, Zenon DEF DistinctIDs
  <2>6. \E r \in p.root : r.type = "model" /\ r.target \in Names(p)
    BY <1>2, <2>1, Zenon
  <2> QED BY <2>3, <2>4, <2>5, <2>6, Zenon DEF OpensPackage
<1>6. \A types : TargetsOf(p, types) \subseteq Names(p)
  <2>1. ASSUME NEW types, NEW t \in TargetsOf(p, types) PROVE t \in Names(p)
    <3>1. PICK r \in p.rels : r.type \in types /\ r.target = t
      BY TargetIs
    <3> QED BY <1>3, <3>1, Zenon
  <2> QED BY <2>1
<1>7. extractTexturesFromRelationships(p)
  BY <1>6, Zenon DEF extractTexturesFromRelationships
<1>8. extractCustomDataFromRelationships(p, {"custom", "toolpath"})
  BY <1>4, <1>6, Zenon DEF extractCustomDataFromRelationships
<1>9. extractModelDataFromRelationships(p)
  <2> SUFFICES ASSUME NEW name \in TargetsOf(p, {"model"})
               PROVE  name \in Names(p) /\ Entry(p, name).whole /\ Entry(p, name).value[1] = "slices"
    BY DEF extractModelDataFromRelationships
  <2>1. PICK r \in p.rels : r.type \in {"model"} /\ r.target = name
    BY TargetIs
  <2>2. r.type = "model" /\ r.type \in {"texture", "custom", "model"}
    BY <2>1
  <2>3. PICK k : OfAttachment(c, atts, k, Found(p, r))
    BY <2>2, OfItsType
  <2>4. k \in DOMAIN atts /\ atts[k].type = "model" /\ atts[k].value = Entry(p, name).value
    <3>1. Found(p, r).type = r.type /\ Found(p, r).value = Entry(p, r.target).value
      BY FoundIs
    <3> QED BY <2>1, <2>2, <2>3, <3>1, Zenon DEF OfAttachment
  <2>5. atts[k].value[1] = "slices"
    BY <2>4, Zenon DEF HasSlices
  <2> QED BY <1>3, <2>1, <2>4, <2>5, Zenon
<1>10. extractBinaryStreamsFromRelationships(p)
  <2> SUFFICES ASSUME NEW name \in TargetsOf(p, {"binary"})
               PROVE  name \in Names(p) /\ Entry(p, name).whole /\ Entry(p, name).value[1] = "binary"
    BY DEF extractBinaryStreamsFromRelationships
  <2>1. PICK r \in p.rels : r.type \in {"binary"} /\ r.target = name
    BY TargetIs
  <2>2. r.type = "binary"
    BY <2>1
  <2>3. PICK j : OfStream(c, j, Found(p, r))
    BY <2>2, OfItsType
  <2>4. Entry(p, name).value = <<"binary", c.streams[j].arrays>>
    BY <2>1, <2>3, FoundIs, Zenon DEF OfStream
  <2>5. Entry(p, name).value[1] = "binary"
    BY <2>4
  <2> QED BY <1>3, <2>1, <2>5, Zenon
<1>11. extractThumbnail(p)
  <2>1. \A r \in p.root : r = RootRelation \/ (c.thumbnail /\ r = ThumbnailRelation)
    BY <1>1
  <2> QED BY <1>2, <2>1, Zenon DEF extractThumbnail
<1>12. ASSUME NEW j \in DOMAIN c.streams, c.streams[j].arrays # 0
       PROVE  /\ Entry(p, c.streams[j].path.name).value = <<"binary", c.streams[j].arrays>>
              /\ c.streams[j].path.name \in TargetsOf(p, {"binary"})
  <2>1. PICK r \in p.rels : OfStream(c, j, Found(p, r))
    BY <1>12, Zenon DEF Shows
  <2>2. /\ r.target = c.streams[j].path.name /\ r.type = "binary"
        /\ Entry(p, r.target).value = <<"binary", c.streams[j].arrays>>
    BY <2>1, FoundIs, Zenon DEF OfStream
  <2>3. r.type \in {"binary"}
    BY <2>2
  <2>4. r.target \in TargetsOf(p, {"binary"})
    BY <2>3, TargetIs
  <2> QED BY <2>2, <2>4, Zenon
<1>13. readStream(p)
  <2>1. Entry(p, RootName).whole /\ Entry(p, RootName).value = v
    BY DEF RootPart
  <2>2. ASSUME v[3] > 0 PROVE v[2] \in TargetsOf(p, {"binary"}) /\ Entry(p, v[2]).value[2] >= v[3]
    <3>1. PICK j \in DOMAIN c.streams :
            c.streams[j].arrays # 0 /\ v[2] = c.streams[j].path.name /\ c.streams[j].arrays >= v[3]
      BY <2>2, Zenon DEF HasMesh
    <3>2. /\ Entry(p, v[2]).value = <<"binary", c.streams[j].arrays>>
          /\ v[2] \in TargetsOf(p, {"binary"})
      BY <1>12, <3>1, Zenon
    <3>3. Entry(p, v[2]).value[2] = c.streams[j].arrays
      BY <3>2
    <3> QED BY <3>1, <3>2, <3>3, Zenon
  <2> QED BY <2>1, <2>2, Zenon DEF readStream
<1>14. Readable(p, {"custom", "toolpath"})
  BY <1>5, <1>7, <1>8, <1>9, <1>10, <1>11, <1>13, Zenon DEF Readable
<1> QED BY <1>12, <1>14, Zenon

(* ShownAttachments: the attachments of the model that is read.            *)
LEMMA ShownAttachments ==
  ASSUME NEW c, NEW atts, NEW p, Shows(c, atts, p), KnownType(atts),
         \A k \in DOMAIN atts : IsAttachment(atts[k])
  PROVE  ReadAttachments(p, ClientTypes \cup {"toolpath"})
           = {a \in ToSet(atts) : a.type # "model"}
               \cup {[name |-> l.name, type |-> "toolpath", value |-> <<"layer", l>>] : l \in ToSet(c.layers)}
<1> DEFINE types == ClientTypes \cup {"toolpath"}
           At(r) == [name |-> r.target, type |-> r.type, value |-> Entry(p, r.target).value]
           R == ReadAttachments(p, types)
           X == {a \in ToSet(atts) : a.type # "model"}
           La(l) == [name |-> l.name, type |-> "toolpath", value |-> <<"layer", l>>]
           Y == {La(l) : l \in ToSet(c.layers)}
<1>1. types = {"texture", "custom", "toolpath"}
  BY DEF ClientTypes
<1>2. ToSet(atts) = {atts[k] : k \in DOMAIN atts} /\ ToSet(c.layers) = {c.layers[j] : j \in DOMAIN c.layers}
  BY DEF ToSet
<1>3. ASSUME NEW r \in p.rels, NEW k, OfAttachment(c, atts, k, Found(p, r))
      PROVE  k \in DOMAIN atts /\ At(r) = atts[k]
  <2>1. /\ k \in DOMAIN atts
        /\ r.target = atts[k].name /\ r.type = atts[k].type /\ Entry(p, r.target).value = atts[k].value
    BY <1>3, FoundIs, Zenon DEF OfAttachment
  <2>2. atts[k] = [name |-> atts[k].name, type |-> atts[k].type, value |-> atts[k].value]
    BY <2>1, Zenon DEF IsAttachment
  <2> QED BY <2>1, <2>2, Zenon
<1>4. ASSUME NEW r \in p.rels, NEW j, OfLayer(c, j, Found(p, r))
      PROVE  j \in DOMAIN c.layers /\ At(r) = La(c.layers[j])
  <2>1. /\ j \in DOMAIN c.layers
        /\ r.target = c.layers[j].name /\ r.type = "toolpath" /\ Entry(p, r.target).value = <<"layer", c.layers[j]>>
    BY <1>4, FoundIs, Zenon DEF OfLayer
  <2> QED BY <2>1, Zenon
<1>5. /\ \A r \in p.rels : r.type \in types => At(r) \in R
      /\ \A a \in R : \E r \in p.rels : r.type \in types /\ a = At(r)
  BY DEF ReadAttachments
<1>6. /\ \A k \in DOMAIN atts : atts[k].type # "model" => atts[k] \in X
      /\ \A j \in DOMAIN c.layers : La(c.layers[j]) \in Y
  BY <1>2
<1>7. /\ \A a \in X : \E k \in DOMAIN atts : a = atts[k] /\ atts[k].type # "model"
      /\ \A a \in Y : \E j \in DOMAIN c.layers : a = La(c.layers[j])
  BY <1>2
<1> HIDE DEF R, X, Y, La, At, types
<1>8. ASSUME NEW a \in R PROVE a \in X \cup Y
  <2>1. PICK r \in p.rels : r.type \in types /\ a = At(r)
    BY <1>5, Zenon
  <2>2. (\E k : OfAttachment(c, atts, k, Found(p, r))) \/ (\E j : OfLayer(c, j, Found(p, r)))
    <3>1. r.type \in {"texture", "custom", "model"} \/ r.type = "toolpath"
      BY <1>1, <2>1
    <3> QED BY <3>1, OfItsType, Zenon
  <2>3. ASSUME NEW k, OfAttachment(c, atts, k, Found(p, r)) PROVE a \in X
    <3>1. k \in DOMAIN atts /\ a = atts[k]
      BY <1>3, <2>1, <2>3, Zenon
    <3>2. atts[k].type = r.type
      <4>1. Found(p, r).type = r.type
        BY FoundIs
      <4> QED BY <2>3, <4>1, Zenon DEF OfAttachment
    <3>3. r.type # "model"
      BY <1>1, <2>1
    <3> QED BY <1>6, <3>1, <3>2, <3>3, Zenon
  <2>4. ASSUME NEW j, OfLayer(c, j, Found(p, r)) PROVE a \in Y
    BY <1>4, <1>6, <2>1, <2>4, Zenon
  <2> QED BY <2>2, <2>3, <2>4
<1>9. ASSUME NEW a \in X PROVE a \in R
  <2>1. PICK k \in DOMAIN atts : a = atts[k] /\ atts[k].type # "model"
    BY <1>7, Zenon
  <2>2. PICK r \in p.rels : OfAttachment(c, atts, k, Found(p, r))
    BY Zenon DEF Shows
  <2>3. At(r) = a
    BY <1>3, <2>1, <2>2, Zenon
  <2>4. r.type = atts[k].type
    <3>1. Found(p, r).type = r.type
      BY FoundIs
    <3> QED BY <2>2, <3>1, Zenon DEF OfAttachment
  <2>5. atts[k].type \in {"texture", "custom", "toolpath", "model"}
    BY Zenon DEF KnownType
  <2>6. r.type \in types
    BY <1>1, <2>1, <2>4, <2>5
  <2> QED BY <1>5, <2>3, <2>6, Zenon
<1>10. ASSUME NEW a \in Y PROVE a \in R
  <2>1. PICK j \in DOMAIN c.layers : a = La(c.layers[j])
    BY <1>7, Zenon
  <2>2. PICK r \in p.rels : OfLayer(c, j, Found(p, r))
    BY Zenon DEF Shows
  <2>3. At(r) = a
    BY <1>4, <2>1, <2>2, Zenon
  <2>4. r.type = "toolpath"
    BY <2>2, FoundIs, Zenon DEF OfLayer
  <2>5. r.type \in types
    BY <1>1, <2>4
  <2> QED BY <1>5, <2>3, <2>5, Zenon
<1>11. R = X \cup Y
  BY <1>8, <1>9, <1>10
<1> QED BY <1>11 DEF R, X, Y, La, types

(* WholeSetInOrder: the list of a finite set names all of its elements.    *)
LEMMA WholeSetInOrder ==
  ASSUME NEW S, IsFiniteSet(S)
  PROVE  \A x \in S : \E i \in DOMAIN SetToSeq(S) : SetToSeq(S)[i] = x
<1> DEFINE n == Cardinality(S)
           P(f) == f \in [1..n -> S] /\ IsInjective(f)
<1>1. n \in Nat
  BY FS_CardinalityType
<1>2. ExistsBijection(1..n, S)
  BY FS_CardinalityType
<1>3. \E f : P(f)
  BY <1>2, Zenon DEF ExistsBijection, Bijection, Injection
<1>4. SetToSeq(S) = CHOOSE f : P(f)
  BY DEF SetToSeq
<1>5. P(SetToSeq(S))
  <2> HIDE DEF P
  <2> QED BY <1>3, <1>4, Zenon
<1> DEFINE g == SetToSeq(S)
           R == {g[i] : i \in 1..n}
<1> HIDE DEF g
<1>6. g \in [1..n -> S] /\ \A i, j \in 1..n : g[i] = g[j] => i = j
  BY <1>5 DEF IsInjective, g
<1> HIDE DEF n
<1>7. R \subseteq S /\ g \in [1..n -> R] /\ \A x \in R : \E i \in 1..n : g[i] = x
  BY <1>6
<1> HIDE DEF R
<1>8. Cardinality(R) = n
  BY <1>1, <1>6, <1>7, DistinctCount
<1>9. R = S
  BY <1>7, <1>8, FS_Subset DEF n
<1>10. \A x \in S : \E i \in DOMAIN g : g[i] = x
  BY <1>6, <1>7, <1>9
<1> QED BY <1>10 DEF g

(* Every slice stack has its slices in an attachment, and no other         *)
(* attachment has slices.                                                  *)
StacksOfName(own, name) == {k \in DOMAIN own : own[k].name = name}
StacksAttached(own, atts) ==
  /\ \A k \in DOMAIN own : \E i \in DOMAIN atts : /\ atts[i].name = own[k].name /\ atts[i].type = "model"
                                                  /\ atts[i].value = SlicesOf(own, own[k])
  /\ \A i \in DOMAIN atts : atts[i].type = "model" => \E k \in DOMAIN own : own[k].name = atts[i].name
  /\ \A k, l \in DOMAIN own : own[k].name = own[l].name => own[k] = own[l]
  /\ \A i, j \in DOMAIN atts : atts[i].name = atts[j].name => i = j

(* SlicesAttached: so an attachment with slices has those of its name.     *)
LEMMA SlicesAttached ==
  ASSUME NEW own, NEW atts, StacksAttached(own, atts), NEW i \in DOMAIN atts, atts[i].type = "model"
  PROVE  atts[i].value[1] = "slices" /\ atts[i].value[2] = Cardinality(StacksOfName(own, atts[i].name))
<1>1. PICK k \in DOMAIN own : own[k].name = atts[i].name
  BY Zenon DEF StacksAttached
<1>2. PICK j \in DOMAIN atts : atts[j].name = own[k].name /\ atts[j].value = SlicesOf(own, own[k])
  BY Zenon DEF StacksAttached
<1>3. i = j
  BY <1>1, <1>2, Zenon DEF StacksAttached
<1>4. ASSUME NEW l \in DOMAIN own PROVE (own[l] = own[k]) <=> (own[l].name = atts[i].name)
  <2>1. own[l].name = own[k].name => own[l] = own[k]
    BY Zenon DEF StacksAttached
  <2> QED BY <1>1, <2>1
<1>5. {l \in DOMAIN own : own[l] = own[k]} = StacksOfName(own, atts[i].name)
  BY <1>4 DEF StacksOfName
<1>6. atts[i].value = <<"slices", Cardinality(StacksOfName(own, atts[i].name))>>
  BY <1>2, <1>3, <1>5, Zenon DEF SlicesOf
<1> QED BY <1>6

(* ShownStacks: as many slice stacks are read as were written.             *)
LEMMA ShownStacks ==
  ASSUME NEW c, NEW atts, NEW p, IsPackage(p), Shows(c, atts, p), KnownType(atts),
         NEW own, IsList(own), StacksAttached(own, atts)
  PROVE  Len(ReadStacks(p)) = Len(own)
<1> DEFINE T == TargetsOf(p, {"model"})
           names == SetToSeq(T)
           e(t) == [leading |-> TRUE, name |-> t]
           S == {e(t) : t \in T}
           List(i) == [k \in 1..Entry(p, names[i]).value[2] |-> [leading |-> TRUE, name |-> names[i]]]
           lists == [i \in DOMAIN names |-> List(i)]
           class == [i \in DOMAIN names |-> StacksOfName(own, names[i])]
           D == DOMAIN own
<1>1. IsFiniteSet(T)
  BY TargetsFinite
<1>2. ASSUME NEW t \in T
      PROVE  Entry(p, t).value[2] = Cardinality(StacksOfName(own, t))
  <2>1. PICK r \in p.rels : r.type \in {"model"} /\ r.target = t
    BY TargetIs
  <2>2. r.type = "model" /\ r.type \in {"texture", "custom", "model"}
    BY <2>1
  <2>3. PICK k : OfAttachment(c, atts, k, Found(p, r))
    BY <2>2, OfItsType
  <2>4. /\ Found(p, r).type = r.type /\ Found(p, r).name = r.target
        /\ Found(p, r).value = Entry(p, r.target).value
    BY FoundIs
  <2>5. k \in DOMAIN atts /\ atts[k].type = "model" /\ atts[k].name = t /\ atts[k].value = Entry(p, t).value
    BY <2>1, <2>2, <2>3, <2>4, Zenon DEF OfAttachment
  <2>6. atts[k].value[2] = Cardinality(StacksOfName(own, atts[k].name))
    BY <2>5, SlicesAttached
  <2> QED BY <2>5, <2>6, Zenon
<1>3. ASSUME NEW k \in D PROVE own[k].name \in T
  <2>1. PICK i \in DOMAIN atts : atts[i].name = own[k].name /\ atts[i].type = "model"
    BY Zenon DEF StacksAttached
  <2>2. PICK r \in p.rels : OfAttachment(c, atts, i, Found(p, r))
    BY Zenon DEF Shows
  <2>3. Found(p, r).type = r.type /\ Found(p, r).name = r.target
    BY FoundIs
  <2>4. r.type = "model" /\ r.target = own[k].name
    BY <2>1, <2>2, <2>3, Zenon DEF OfAttachment
  <2>5. r.type \in {"model"}
    BY <2>4
  <2> QED BY <2>4, <2>5, TargetIs, Zenon
<1>4. D = 1..Len(own) /\ Len(own) \in Nat /\ IsFiniteSet(D) /\ Cardinality(D) = Len(own)
  <2>1. DOMAIN own = 1..Len(own) /\ Len(own) \in Nat
    BY ListFacts
  <2>2. IsFiniteSet(1..Len(own)) /\ Cardinality(1..Len(own)) = Len(own)
    <3> DEFINE n == Len(own)
    <3> HIDE DEF n
    <3>1. n \in Nat
      BY <2>1 DEF n
    <3>2. IsFiniteSet(1..n) /\ Cardinality(1..n) = n
      BY <3>1, FS_Interval
    <3> QED BY <3>2 DEF n
  <2> QED BY <2>1, <2>2, Zenon
<1>5. ReadStacks(p) = FlattenSeq(lists)
  BY DEF ReadStacks
<1> HIDE DEF T, D
<1>6. /\ names \in Seq(T)
      /\ \A i, j \in DOMAIN names : names[i] = names[j] => i = j
      /\ \A t \in T : \E i \in DOMAIN names : names[i] = t
  BY <1>1, SetInSomeOrder, WholeSetInOrder
<1> HIDE DEF names
<1>7. DOMAIN names = 1..Len(names) /\ Len(names) \in Nat /\ \A i \in DOMAIN names : names[i] \in T
  BY <1>6
<1>8. ASSUME NEW i \in DOMAIN names
      PROVE  /\ List(i) \in Seq(S) /\ Len(List(i)) = Cardinality(StacksOfName(own, names[i]))
             /\ StacksOfName(own, names[i]) \subseteq D
  <2> DEFINE n == Entry(p, names[i]).value[2]
             x == [leading |-> TRUE, name |-> names[i]]
             C == StacksOfName(own, names[i])
  <2>1. C \subseteq D
    BY DEF StacksOfName, D
  <2>2. x \in S
    BY <1>7
  <2> HIDE DEF C, x, S
  <2>3. n = Cardinality(C)
    BY <1>2, <1>7, Zenon DEF C
  <2> HIDE DEF n
  <2>4. n \in Nat
    BY <1>4, <2>1, <2>3, FS_Subset, FS_CardinalityType
  <2>5. [k \in 1..n |-> x] \in Seq(S) /\ Len([k \in 1..n |-> x]) = n
    BY <2>2, <2>4
  <2> QED BY <2>1, <2>3, <2>5 DEF n, x, C
<1> HIDE DEF S, List
<1>9. /\ lists \in Seq(Seq(S)) /\ Len(lists) = Len(names)
      /\ \A i \in 1..Len(names) : lists[i] = List(i)
  BY <1>7, <1>8
<1>10. \A i \in 1..Len(names) : class[i] = StacksOfName(own, names[i])
  BY <1>7
<1> HIDE DEF lists, class
<1>11. \A i \in 1..Len(lists) : class[i] \subseteq D /\ Len(lists[i]) = Cardinality(class[i])
  BY <1>7, <1>8, <1>9, <1>10
<1>12. \A i, j \in 1..Len(lists) : i # j => class[i] \cap class[j] = {}
  <2> SUFFICES ASSUME NEW i \in 1..Len(lists), NEW j \in 1..Len(lists), NEW d, d \in class[i], d \in class[j]
               PROVE  i = j
    BY Zenon
  <2>1. own[d].name = names[i] /\ own[d].name = names[j]
    BY <1>9, <1>10 DEF StacksOfName
  <2> QED BY <1>6, <1>7, <1>9, <2>1
<1>13. \A d \in D : \E i \in 1..Len(lists) : d \in class[i]
  <2> SUFFICES ASSUME NEW d \in D PROVE \E i \in 1..Len(lists) : d \in class[i]
    OBVIOUS
  <2>1. PICK i \in DOMAIN names : names[i] = own[d].name
    BY <1>3, <1>6, Zenon
  <2>2. d \in StacksOfName(own, names[i])
    BY <2>1 DEF StacksOfName, D
  <2> QED BY <1>7, <1>9, <1>10, <2>2, Zenon
<1>14. Len(FlattenSeq(lists)) = Cardinality(D)
  BY <1>4, <1>9, <1>11, <1>12, <1>13, FlattenCount
<1> QED BY <1>4, <1>5, <1>14, Zenon

-----------------------------------------------------------------------------
(* The names of the model and the writer, and the mesh of the root model.  *)

(* The names clients give, and the types of attachments.                   *)
KnownNames(atts) == \A k \in DOMAIN atts : atts[k].name \in PartNames
TargetsKnown(p) == \A r \in p.rels : r.target \in PartNames
PathsDiffer(ss) == \A i, j \in DOMAIN ss : ss[i].path = ss[j].path => i = j
NamesKnown ==
  /\ KnownNames(m_Attachments) /\ KnownType(m_Attachments)
  /\ \A k \in DOMAIN m_sOwnPath : m_sOwnPath[k] \in Paths
  /\ m_AdditionalAttachments \subseteq Paths
  /\ PathsDiffer(streams)
  /\ TargetsKnown(package) /\ TargetsKnown(archive)

(* The root model names the stream its mesh is in.                         *)
Running == {"thumbnail", "slices", "attachments", "streams", "layers"}
MeshValue == IF assigned = 0 THEN NoStream
             ELSE <<"root", streams[assigned].path.name, streams[assigned].arrays>>
MeshInRoot == pc \in Running => package.parts[1].value = MeshValue

(* The package of the export with more in it.                              *)
Grown(q) == IsPackage(q) /\ Grows(package, q) /\ TargetsKnown(q)
StepGrows ==
  /\ package' = NoPackage \/ Grown(package')
  /\ archive' = archive \/ archive' = NoPackage \/ Grown(archive')
  /\ (pc # "root" /\ pc' \in Running) => pc \in Running /\ Grown(package')

(* GrownBy: what the writer does with a package.                           *)
LEMMA GrownBy ==
  ASSUME IsPackage(package), TargetsKnown(package)
  PROVE  /\ Grown(package)
         /\ \A q : q = [package EXCEPT !.types = TRUE] => Grown(q)
         /\ \A name, value, whole : Grown(addPart(package, name, value, whole))
         /\ \A name, value, whole, id, type :
              Grown(addRootRelationship(addPart(package, name, value, whole), id, type, name))
         /\ \A name \in PartNames : \A value, whole, id, type :
              Grown(addRelationship(addPart(package, name, value, whole), id, type, name))
<1> DEFINE p == package
<1>0. IsPackage(p) /\ TargetsKnown(p)
  OBVIOUS
<1> HIDE DEF p
<1>1. IsPackage(p) /\ Grows(p, p) /\ TargetsKnown(p)
  BY <1>0, GrowsSame
<1>2. ASSUME NEW q, q = [p EXCEPT !.types = TRUE] PROVE IsPackage(q) /\ Grows(p, q) /\ TargetsKnown(q)
  <2>1. /\ p = [parts |-> p.parts, types |-> p.types, root |-> p.root, rels |-> p.rels]
        /\ IsList(p.parts) /\ IsFiniteSet(p.rels)
    BY <1>0 DEF IsPackage
  <2>2. /\ q = [parts |-> p.parts, types |-> TRUE, root |-> p.root, rels |-> p.rels]
        /\ q.parts = p.parts /\ q.root = p.root /\ q.rels = p.rels /\ q.types = TRUE
    BY ONLY <2>1, <1>2
  <2>3. IsPackage(q)
    BY <2>1, <2>2, Zenon DEF IsPackage
  <2>4. Grows(p, q)
    BY <2>2 DEF Grows
  <2>5. TargetsKnown(q)
    BY <1>0, <2>2, Zenon DEF TargetsKnown
  <2> QED BY <2>3, <2>4, <2>5
<1>3. ASSUME NEW name, NEW value, NEW whole, NEW u, u = addPart(p, name, value, whole)
      PROVE  IsPackage(u) /\ Grows(p, u) /\ TargetsKnown(u)
  <2>1. /\ IsPackage(u) /\ Grows(p, u)
        /\ u.types = p.types /\ u.root = p.root /\ u.rels = p.rels
        /\ \E i \in DOMAIN u.parts : u.parts[i] = [name |-> name, value |-> value, whole |-> whole]
    BY ONLY <1>0, <1>3, PartAdded
  <2> QED BY <1>0, <2>1, Zenon DEF TargetsKnown
<1>4. ASSUME NEW name, NEW value, NEW whole, NEW id, NEW type,
             NEW u, u = addPart(p, name, value, whole), NEW t, t = addRootRelationship(u, id, type, name)
      PROVE  IsPackage(t) /\ Grows(p, t) /\ TargetsKnown(t)
  <2> DEFINE r == [id |-> id, type |-> type, target |-> name]
  <2>1. IsPackage(u) /\ Grows(p, u) /\ TargetsKnown(u)
    BY <1>3, <1>4
  <2>2. IsPackage(t) /\ Grows(u, t) /\ t.rels = u.rels /\ t.root = u.root \cup {r}
    BY <1>4, <2>1, RelationAdded
  <2> HIDE DEF r
  <2>3. Grows(p, t)
    BY <2>1, <2>2 DEF Grows
  <2>4. TargetsKnown(t)
    BY <2>1, <2>2, Zenon DEF TargetsKnown
  <2> QED BY <2>2, <2>3, <2>4
<1>5. ASSUME NEW name \in PartNames, NEW value, NEW whole, NEW id, NEW type,
             NEW u, u = addPart(p, name, value, whole), NEW t, t = addRelationship(u, id, type, name)
      PROVE  IsPackage(t) /\ Grows(p, t) /\ TargetsKnown(t)
  <2> DEFINE r == [id |-> id, type |-> type, target |-> name]
  <2>1. IsPackage(u) /\ Grows(p, u) /\ TargetsKnown(u)
    BY <1>3, <1>5
  <2>2. IsPackage(t) /\ Grows(u, t) /\ t.rels = u.rels \cup {r}
    BY <1>5, <2>1, RelationAdded
  <2>3. r.target = name
    OBVIOUS
  <2> HIDE DEF r
  <2>4. Grows(p, t)
    BY <2>1, <2>2 DEF Grows
  <2>5. TargetsKnown(t)
    BY <2>1, <2>2, <2>3 DEF TargetsKnown
  <2> QED BY <2>2, <2>4, <2>5
<1> QED BY <1>1, <1>2, <1>3, <1>4, <1>5 DEF p, Grown

(* LeaveGrows: an export that ends leaves the package with more in it.     *)
LEMMA LeaveGrows ==
  ASSUME NEW q, Grown(q), NEW to \in {"idle", "cleanup"}, NEW result, Leave(q, to, result)
  PROVE  StepGrows
<1>1. package' = NoPackage /\ archive' = q /\ pc' = to
  BY Zenon DEF Leave
<1>2. pc' \notin Running
  BY <1>1 DEF Running
<1> QED BY <1>1, <1>2, Zenon DEF StepGrows

(* GotoGrows: one that goes on has it.                                     *)
LEMMA GotoGrows ==
  ASSUME Grown(package'), NEW to, NEW index, Goto(to, index), pc = "root" \/ pc \in Running
  PROVE  StepGrows
<1>1. archive' = archive
  BY DEF Goto
<1> QED BY <1>1, Zenon DEF StepGrows

(* ExportGrows: every step of an export.                                   *)
LEMMA ExportGrows ==
  ASSUME IsPackage(package), TargetsKnown(package), Lists, NamesKnown, ExportNext
  PROVE  StepGrows
<1>1. /\ Grown(package)
      /\ \A q : q = [package EXCEPT !.types = TRUE] => Grown(q)
      /\ \A name, value, whole : Grown(addPart(package, name, value, whole))
      /\ \A name, value, whole, id, type :
           Grown(addRootRelationship(addPart(package, name, value, whole), id, type, name))
      /\ \A name \in PartNames : \A value, whole, id, type :
           Grown(addRelationship(addPart(package, name, value, whole), id, type, name))
  BY GrownBy
<1>2. /\ \A k \in DOMAIN m_Attachments : m_Attachments[k].name \in PartNames
      /\ \A j \in DOMAIN streams : streams[j].path.name \in PartNames
      /\ \A j \in DOMAIN Layers : Layers[j].name \in PartNames
  <2>1. \A k \in DOMAIN m_Attachments : m_Attachments[k].name \in PartNames
    BY Zenon DEF NamesKnown, KnownNames
  <2>2. \A path \in Paths : path.name \in PartNames
    BY DEF Paths
  <2>3. \A j \in DOMAIN streams : streams[j].path \in Paths
    <3>1. streams \in Seq(Streams)
      BY Zenon DEF Lists
    <3>2. \A j \in DOMAIN streams : streams[j] \in Streams
      BY <3>1
    <3> QED BY <3>2 DEF Streams
  <2>4. \A j \in DOMAIN Layers : Layers[j] \in Paths
    <3>1. IsFiniteSet(m_AdditionalAttachments) /\ m_AdditionalAttachments \subseteq Paths
      BY Zenon DEF Lists, NamesKnown
    <3>2. Layers \in Seq(m_AdditionalAttachments)
      BY <3>1, SetInSomeOrder DEF Layers
    <3> QED BY <3>1, <3>2
  <2> QED BY <2>1, <2>2, <2>3, <2>4, Zenon
<1>3. "idle" \in {"idle", "cleanup"} /\ "cleanup" \in {"idle", "cleanup"}
  OBVIOUS
<1>4. /\ "thumbnail" \in Running /\ "slices" \in Running /\ "attachments" \in Running
      /\ "streams" \in Running /\ "layers" \in Running
      /\ "root" \notin Running /\ "idle" \notin Running
  BY DEF Running
<1>5. CASE Start
  BY <1>4, <1>5, Zenon DEF Start, StepGrows
<1>6. CASE AbortBeforePackage
  <2>1. pc = "idle" /\ pc' = pc /\ package' = package /\ archive' = NoPackage
    BY <1>6 DEF AbortBeforePackage
  <2> QED BY <1>1, <1>4, <2>1, Zenon DEF StepGrows
<1>7. CASE writeModelStream
  BY <1>1, <1>7, GotoGrows, Zenon DEF writeModelStream
<1>8. CASE writeModelStreamThrows
  BY <1>1, <1>3, <1>8, LeaveGrows, Zenon DEF writeModelStreamThrows
<1>9. CASE WriteThumbnail
  BY <1>1, <1>4, <1>9, GotoGrows, Zenon DEF WriteThumbnail
<1>10. CASE AddSlicerefAttachment
  <2>1. /\ pc = "slices"
        /\ \/ package' = package /\ Goto("slices", next + 1)
           \/ Leave(package, "idle", "failed")
    BY <1>10, Zenon DEF AddSlicerefAttachment
  <2> QED BY <1>1, <1>3, <1>4, <2>1, GotoGrows, LeaveGrows, Zenon
<1>11. CASE AddAttachmentPart
  <2>1. /\ pc = "attachments" /\ next \in DOMAIN m_Attachments
        /\ \/ Leave(addPart(package, m_Attachments[next].name, m_Attachments[next].value, TRUE), "idle", "failed")
           \/ /\ package' = addRelationship(addPart(package, m_Attachments[next].name, m_Attachments[next].value, TRUE),
                                            generateRelationShipID, m_Attachments[next].type, m_Attachments[next].name)
              /\ Goto("attachments", next + 1)
    BY <1>11, Zenon DEF AddAttachmentPart
  <2> QED BY <1>1, <1>2, <1>3, <1>4, <2>1, GotoGrows, LeaveGrows, Zenon
<1>12. CASE AddContentTypes
  <2>1. pc = "attachments" /\ package' = [package EXCEPT !.types = TRUE] /\ Goto("streams", 1)
    BY <1>12, Zenon DEF AddContentTypes
  <2> QED BY <1>1, <1>4, <2>1, GotoGrows, Zenon
<1>13. CASE WriteBinaryStream
  <2> DEFINE s == streams[next]
  <2>1. /\ pc = "streams" /\ next \in DOMAIN streams
        /\ \/ package' = package /\ Goto("streams", next + 1)
           \/ Leave(addPart(package, s.path.name, <<"partial">>, FALSE), "idle", "failed")
           \/ /\ package' = addRelationship(addPart(package, s.path.name, <<"binary", s.arrays>>, TRUE),
                                            <<"binary", next>>, "binary", s.path.name)
              /\ Goto("streams", next + 1)
    BY <1>13, Zenon DEF WriteBinaryStream
  <2> QED BY <1>1, <1>2, <1>3, <1>4, <2>1, GotoGrows, LeaveGrows, Zenon
<1>14. CASE WriteLayer
  <2> DEFINE path == Layers[next]
  <2>1. /\ pc = "layers" /\ next \in DOMAIN Layers
        /\ \/ Leave(addPart(package, path.name, <<"partial">>, FALSE), "idle", "failed")
           \/ /\ package' = addRelationship(addPart(package, path.name, <<"layer", path>>, TRUE),
                                            LayerID(path), "toolpath", path.name)
              /\ Goto("layers", next + 1)
    BY <1>14, Zenon DEF WriteLayer
  <2> QED BY <1>1, <1>2, <1>3, <1>4, <2>1, GotoGrows, LeaveGrows, Zenon
<1>15. CASE EndLoop
  <2>1. \/ pc = "slices" /\ package' = package /\ Goto("attachments", 1)
        \/ pc = "streams" /\ package' = package /\ Goto("layers", 1)
        \/ Leave(package, "cleanup", "complete")
    BY <1>15, Zenon DEF EndLoop
  <2> QED BY <1>1, <1>3, <1>4, <2>1, GotoGrows, LeaveGrows, Zenon
<1>16. CASE Cleanup
  <2>1. pc' = "idle" /\ package' = package /\ archive' = archive
    BY <1>16 DEF Cleanup
  <2> QED BY <1>1, <1>4, <2>1, Zenon DEF StepGrows
<1>17. CASE Abort
  <2>1. \/ Leave(addPart(package, RootName, <<"partial">>, FALSE), "idle", "aborted")
        \/ Leave(package, "idle", "aborted")
    BY <1>17, Zenon DEF Abort
  <2> QED BY <1>1, <1>3, <2>1, LeaveGrows, Zenon
<1>18. CASE CopyFails
  <2> DEFINE layer == Layers[next]
             stream == streams[next].path
  <2>1. \/ Leave(addPart(package, RootName, <<"partial">>, FALSE), "idle", "broken")
        \/ Leave(addPart(package, ThumbnailName, <<"partial">>, FALSE), "idle", "broken")
        \/ Leave(addPart(package, m_Attachments[next].name, <<"partial">>, FALSE), "idle", "broken")
        \/ /\ next \in DOMAIN streams
           /\ Leave(addRelationship(addPart(package, stream.name, <<"partial">>, FALSE),
                                    <<"binary", next>>, "binary", stream.name), "idle", "broken")
        \/ /\ next \in DOMAIN Layers
           /\ Leave(addRelationship(addPart(package, layer.name, <<"partial">>, FALSE),
                                    LayerID(layer), "toolpath", layer.name), "idle", "broken")
    BY <1>18, Zenon DEF CopyFails
  <2> QED BY <1>1, <1>2, <1>3, <2>1, LeaveGrows, Zenon
<1>19. CASE writeSliceStackStreamThrows
  BY <1>1, <1>3, <1>19, LeaveGrows, Zenon DEF writeSliceStackStreamThrows
<1> QED BY <1>5, <1>6, <1>7, <1>8, <1>9, <1>10, <1>11, <1>12, <1>13, <1>14, <1>15, <1>16, <1>17, <1>18, <1>19, Zenon
        DEF ExportNext

(* What a step keeps of the streams.                                       *)
StreamsKept == /\ DOMAIN streams' = DOMAIN streams
               /\ \A j \in DOMAIN streams : streams'[j].path = streams[j].path
ArraysKept == \A j \in DOMAIN streams : streams'[j].arrays = streams[j].arrays

(* ArrayPaths: an array changes no path.                                   *)
LEMMA ArrayPaths ==
  ASSUME streams \in Seq(Streams), NEW i \in DOMAIN streams, streams' = [streams EXCEPT ![i].arrays = @ + 1]
  PROVE  StreamsKept /\ streams'[i].arrays = streams[i].arrays + 1
<1> DEFINE z == [streams[i] EXCEPT !.arrays = @ + 1]
<1>1. streams[i] \in Streams
  OBVIOUS
<1>2. z.path = streams[i].path /\ z.arrays = streams[i].arrays + 1
  <2> DEFINE s == streams[i]
  <2>1. s \in Streams /\ z = [s EXCEPT !.arrays = s.arrays + 1]
    BY <1>1
  <2> HIDE DEF s, z
  <2>2. z.arrays = s.arrays + 1 /\ z.path = s.path
    BY ONLY <2>1 DEF Streams
  <2> QED BY <2>2 DEF s
<1>3. streams' = [streams EXCEPT ![i] = z]
  OBVIOUS
<1> HIDE DEF z
<1>4. /\ DOMAIN streams' = DOMAIN streams /\ streams'[i] = z
      /\ \A j \in DOMAIN streams : j # i => streams'[j] = streams[j]
  BY ONLY streams \in Seq(Streams), i \in DOMAIN streams, <1>3
<1>5. ASSUME NEW j \in DOMAIN streams PROVE streams'[j].path = streams[j].path
  BY <1>2, <1>4
<1> QED BY <1>2, <1>4, <1>5, Zenon DEF StreamsKept

(* ExportStreams: what an export does to the streams and the paths.        *)
LEMMA ExportStreams ==
  ASSUME Lists, ExportNext
  PROVE  /\ UNCHANGED <<thumbnail, m_sOwnPath, assigned, m_AdditionalAttachments>>
         /\ StreamsKept
         /\ pc # "root" => ArraysKept
<1>1. UNCHANGED <<thumbnail, m_sOwnPath, assigned, m_AdditionalAttachments>>
  <2>1. EndLoop => UNCHANGED <<modelVars, writerVars>>
    BY Zenon DEF EndLoop
  <2>2. ExportNext => UNCHANGED <<thumbnail, m_sOwnPath, assigned, m_AdditionalAttachments>>
    BY <2>1, Zenon DEF ExportNext, Start, AbortBeforePackage, writeModelStream, writeModelStreamThrows, WriteThumbnail,
             writeSliceStackStreamThrows, AddSlicerefAttachment, AddAttachmentPart, AddContentTypes, WriteBinaryStream, WriteLayer, Cleanup, Abort,
             CopyFails, modelVars, writerVars
  <2> QED BY <2>2
<1>2. \/ streams' = streams
      \/ pc = "root" /\ WriteMesh
      \/ next \in DOMAIN streams /\ streams' = [streams EXCEPT ![next].finished = TRUE]
  <2>1. EndLoop => UNCHANGED <<modelVars, writerVars>>
    BY Zenon DEF EndLoop
  <2> QED BY <2>1, Zenon DEF ExportNext, Start, AbortBeforePackage, writeModelStream, writeModelStreamThrows,
             WriteThumbnail, writeSliceStackStreamThrows, AddSlicerefAttachment, AddAttachmentPart, AddContentTypes,
             WriteBinaryStream, WriteLayer, Cleanup, Abort, CopyFails, writerVars
<1>3. streams \in Seq(Streams) /\ assigned \in 0..Len(streams)
  BY Zenon DEF Lists
<1>4. CASE streams' = streams
  BY <1>1, <1>4 DEF StreamsKept, ArraysKept
<1>5. CASE pc = "root" /\ WriteMesh
  <2>1. CASE assigned = 0
    BY <1>1, <1>5, <2>1 DEF WriteMesh, StreamsKept
  <2>2. CASE assigned # 0
    <3>1. assigned \in DOMAIN streams
      BY <1>3, <2>2
    <3>2. streams' = [streams EXCEPT ![assigned].arrays = @ + 1]
      BY <1>5, <2>2 DEF WriteMesh
    <3>3. StreamsKept
      BY <1>3, <3>1, <3>2, ArrayPaths
    <3> QED BY <1>1, <1>5, <3>3
  <2> QED BY <2>1, <2>2
<1>6. CASE next \in DOMAIN streams /\ streams' = [streams EXCEPT ![next].finished = TRUE]
  <2>1. /\ DOMAIN streams' = DOMAIN streams
        /\ streams'[next].path = streams[next].path /\ streams'[next].arrays = streams[next].arrays
        /\ \A j \in DOMAIN streams : j # next => streams'[j] = streams[j]
    BY <1>3, <1>6, StreamFinished
  <2>2. StreamsKept /\ ArraysKept
    BY <2>1 DEF StreamsKept, ArraysKept
  <2> QED BY <1>1, <2>2
<1> QED BY <1>2, <1>4, <1>5, <1>6

(* OneMoreKnown: a list of attachments with another one.                   *)
LEMMA OneMoreKnown ==
  ASSUME NEW s, IsList(s), KnownNames(s), KnownType(s),
         NEW e, e.name \in PartNames, e.type \in {"texture", "custom", "toolpath", "model"},
         NEW t, t = Append(s, e)
  PROVE  KnownNames(t) /\ KnownType(t)
<1> DEFINE u == Append(s, e)
<1>0. /\ IsList(u) /\ Len(s) \in Nat /\ Len(u) = Len(s) + 1
      /\ DOMAIN s = 1..Len(s) /\ DOMAIN u = 1..(Len(s) + 1)
      /\ \A i \in 1..Len(s) : u[i] = s[i]
      /\ u[Len(s) + 1] = e
  BY ListAppend
<1> HIDE DEF u
<1>1. /\ Len(s) \in Nat
      /\ DOMAIN s = 1..Len(s) /\ DOMAIN t = 1..(Len(s) + 1)
      /\ \A i \in 1..Len(s) : t[i] = s[i]
      /\ t[Len(s) + 1] = e
  BY <1>0 DEF u
<1>2. \A k \in DOMAIN t : k \in DOMAIN s \/ k = Len(s) + 1
  BY <1>1
<1>3. KnownNames(t)
  BY <1>1, <1>2 DEF KnownNames
<1>4. KnownType(t)
  BY <1>1, <1>2, Zenon DEF KnownType
<1> QED BY <1>3, <1>4

(* ExportAttachments: an export uses the paths of the slice stacks.        *)
LEMMA ExportAttachments ==
  ASSUME Lists, NamesKnown, ExportNext
  PROVE  KnownNames(m_Attachments') /\ KnownType(m_Attachments')
<1>0. /\ KnownNames(m_Attachments) /\ KnownType(m_Attachments)
      /\ IsList(m_Attachments) /\ IsList(m_sOwnPath)
  BY Zenon DEF Lists, AttachmentList, NamesKnown
<1>1. ASSUME UNCHANGED m_Attachments PROVE KnownNames(m_Attachments') /\ KnownType(m_Attachments')
  BY <1>0, <1>1
<1>2. CASE ~AddSlicerefAttachment
  <2>1. EndLoop => UNCHANGED modelVars
    BY Zenon DEF EndLoop
  <2>2. UNCHANGED modelVars
    BY <1>2, <2>1, Zenon
       DEF ExportNext, Start, AbortBeforePackage, writeModelStream, writeModelStreamThrows, WriteThumbnail,
           writeSliceStackStreamThrows, AddAttachmentPart, AddContentTypes, WriteBinaryStream, WriteLayer, Cleanup, Abort, CopyFails
  <2> QED BY <1>1, <2>2 DEF modelVars
<1>3. CASE AddSlicerefAttachment
  <2> DEFINE path == m_sOwnPath[next]
             value == SlicesValue(path)
             e == [name |-> path.name, type |-> "model", value |-> value]
  <2>1. next \in DOMAIN m_sOwnPath
    BY <1>3, Zenon DEF AddSlicerefAttachment
  <2>2. path.name \in PartNames
    BY <2>1 DEF NamesKnown, Paths
  <2>3. \/ m_Attachments' = Append(m_Attachments, e)
        \/ \E i \in DOMAIN m_Attachments : m_Attachments' = [m_Attachments EXCEPT ![i].value = value]
        \/ m_Attachments' = m_Attachments
    BY <1>3, Zenon DEF AddSlicerefAttachment
  <2>4. e.name = path.name /\ e.type = "model"
    OBVIOUS
  <2> HIDE DEF e, value
  <2>5. CASE m_Attachments' = Append(m_Attachments, e)
    BY <1>0, <2>2, <2>4, <2>5, OneMoreKnown
  <2>6. ASSUME NEW i \in DOMAIN m_Attachments, m_Attachments' = [m_Attachments EXCEPT ![i].value = value]
        PROVE  KnownNames(m_Attachments') /\ KnownType(m_Attachments')
    <3>1. AttachmentList(m_Attachments)
      BY Zenon DEF Lists
    <3>2. Counted(value)
      BY <1>0, SlicesCounted DEF value
    <3>3. Replaced(m_Attachments, i, value, m_Attachments')
      BY <2>6, <3>1, <3>2, AttachmentReplaced
    <3>4. /\ DOMAIN m_Attachments' = DOMAIN m_Attachments
          /\ \A k \in DOMAIN m_Attachments : /\ m_Attachments'[k].name = m_Attachments[k].name
                                             /\ m_Attachments'[k].type = m_Attachments[k].type
      BY <3>3, Zenon DEF Replaced
    <3>5. KnownNames(m_Attachments')
      BY <1>0, <3>4, Zenon DEF KnownNames
    <3>6. KnownType(m_Attachments')
      BY <1>0, <3>4, Zenon DEF KnownType
    <3> QED BY <3>5, <3>6
  <2> QED BY <1>1, <2>3, <2>5, <2>6
<1> QED BY <1>2, <1>3

(* ExportKeepsNames: an export keeps the names, and its root model.        *)
LEMMA ExportKeepsNames ==
  ASSUME PackageInv, Lists, NamesKnown, MeshInRoot, ExportNext
  PROVE  NamesKnown' /\ MeshInRoot'
<1>1. IsPackage(package) /\ IsPackage(archive)
  BY Zenon DEF PackageInv, ExportInv, ArchiveInv
<1>2. TargetsKnown(package) /\ TargetsKnown(archive) /\ PathsDiffer(streams)
  BY Zenon DEF NamesKnown
<1>3. StepGrows
  BY <1>1, <1>2, ExportGrows
<1>4. /\ UNCHANGED <<thumbnail, m_sOwnPath, assigned, m_AdditionalAttachments>>
      /\ StreamsKept
      /\ pc # "root" => ArraysKept
  BY ExportStreams
<1>5. TargetsKnown(package') /\ TargetsKnown(archive')
  <2>1. TargetsKnown(NoPackage)
    BY DEF TargetsKnown, NoPackage
  <2> QED BY <1>2, <1>3, <2>1, Zenon DEF StepGrows, Grown
<1>6. KnownNames(m_Attachments') /\ KnownType(m_Attachments')
  BY ExportAttachments
<1>7. PathsDiffer(streams')
  BY <1>2, <1>4, Zenon DEF PathsDiffer, StreamsKept
<1>8. NamesKnown'
  BY <1>4, <1>5, <1>6, <1>7 DEF NamesKnown
<1>9. MeshInRoot'
  <2> SUFFICES ASSUME pc' \in Running PROVE package'.parts[1].value = MeshValue'
    BY DEF MeshInRoot
  <2>0. streams \in Seq(Streams) /\ assigned \in 0..Len(streams)
    BY Zenon DEF Lists
  <2>1. CASE pc # "root"
    <3>1. pc \in Running /\ Grows(package, package')
      BY <1>3, <2>1, Zenon DEF StepGrows, Grown
    <3>2. HasRoot(package)
      <4>1. pc \in {"thumbnail", "slices", "attachments", "streams", "layers"}
        BY <3>1 DEF Running
      <4> QED BY <4>1, Zenon DEF PackageInv, ExportInv
    <3>3. package'.parts[1] = package.parts[1]
      BY <3>1, <3>2, Zenon DEF Grows, HasRoot
    <3>4. assigned # 0 => assigned \in DOMAIN streams
      BY <2>0
    <3>5. assigned # 0 => /\ streams'[assigned].path = streams[assigned].path
                          /\ streams'[assigned].arrays = streams[assigned].arrays
      BY <1>4, <2>1, <3>4, Zenon DEF StreamsKept, ArraysKept
    <3>6. MeshValue' = MeshValue
      BY <1>4, <3>5 DEF MeshValue
    <3> QED BY <3>1, <3>3, <3>6, Zenon DEF MeshInRoot
  <2>2. CASE pc = "root"
    <3>1. writeModelStream
      <4>1. Start \/ AbortBeforePackage \/ WriteThumbnail \/ AddSlicerefAttachment \/ AddAttachmentPart
              \/ AddContentTypes \/ WriteBinaryStream \/ WriteLayer \/ EndLoop \/ Cleanup => pc # "root"
        BY DEF Start, AbortBeforePackage, WriteThumbnail, AddSlicerefAttachment, AddAttachmentPart,
               AddContentTypes, WriteBinaryStream, WriteLayer, EndLoop, Cleanup
      <4>2. writeModelStreamThrows \/ writeSliceStackStreamThrows \/ Abort \/ CopyFails => pc' = "idle"
        BY Zenon DEF writeModelStreamThrows, writeSliceStackStreamThrows, Abort, CopyFails, Leave
      <4>3. "idle" \notin Running
        BY DEF Running
      <4> QED BY <2>2, <4>1, <4>2, <4>3, Zenon DEF ExportNext
    <3> DEFINE v == RootValue
               u == addPart(package, RootName, v, TRUE)
    <3>2. package' = addRootRelationship(u, generateRelationShipID, "model", RootName) /\ WriteMesh
      BY <3>1 DEF writeModelStream
    <3>3. package = NoPackage
      BY <2>2, Zenon DEF PackageInv, ExportInv
    <3>4. package.parts = << >>
      BY <3>3 DEF NoPackage
    <3> HIDE DEF v
    <3>5. u.parts[1].value = v
      <4> DEFINE whole == TRUE
                 e == [name |-> RootName, value |-> v, whole |-> whole]
                 w == addPart(package, RootName, v, whole)
      <4>1. w = addPart(package, RootName, v, whole)
        OBVIOUS
      <4> HIDE DEF w, whole
      <4>2. /\ IsPackage(w) /\ Grows(package, w)
            /\ w.types = package.types /\ w.root = package.root /\ w.rels = package.rels
            /\ \E i \in DOMAIN w.parts : w.parts[i] = [name |-> RootName, value |-> v, whole |-> whole]
            /\ package.parts = << >> => /\ 1 \in DOMAIN w.parts
                                        /\ w.parts[1] = [name |-> RootName, value |-> v, whole |-> whole]
        BY ONLY <1>1, <4>1, PartAdded
      <4>3. w.parts[1].value = v
        BY <3>4, <4>2
      <4> QED BY <4>3 DEF w, whole
    <3>6. package'.parts = u.parts
      <4>1. IsPackage(u)
        BY <1>1, <1>2, GrownBy, Zenon DEF Grown
      <4> HIDE DEF u
      <4> DEFINE id == generateRelationShipID
                 t == addRootRelationship(u, id, "model", RootName)
      <4>2. t = [u EXCEPT !.root = @ \cup {[id |-> id, type |-> "model", target |-> RootName]}]
        BY DEF addRootRelationship
      <4>3. u = [parts |-> u.parts, types |-> u.types, root |-> u.root, rels |-> u.rels]
        BY <4>1 DEF IsPackage
      <4> HIDE DEF t, id
      <4>4. t.parts = u.parts
        BY ONLY <4>2, <4>3
      <4> QED BY <3>2, <4>4 DEF t, id
    <3>7. MeshValue' = v
      <4>1. CASE assigned = 0
        BY <1>4, <4>1 DEF MeshValue, RootValue, v, NoStream
      <4>2. CASE assigned # 0
        <5>1. assigned \in DOMAIN streams
          BY <2>0, <4>2
        <5>2. streams' = [streams EXCEPT ![assigned].arrays = @ + 1]
          BY <3>2, <4>2 DEF WriteMesh
        <5>3. streams'[assigned].path = streams[assigned].path /\ streams'[assigned].arrays = streams[assigned].arrays + 1
          BY <2>0, <5>1, <5>2, ArrayPaths DEF StreamsKept
        <5> QED BY <1>4, <4>2, <5>3 DEF MeshValue, RootValue, v
      <4> QED BY <4>1, <4>2
    <3> QED BY <3>5, <3>6, <3>7
  <2> QED BY <2>1, <2>2
<1> QED BY <1>8, <1>9

(* OneInserted: a list with one element in front of the i-th.              *)
LEMMA OneInserted ==
  ASSUME NEW S, NEW s \in Seq(S), NEW i \in 1..(Len(s) + 1), NEW e \in S, NEW t, t = InsertAt(s, i, e)
  PROVE  /\ DOMAIN t = 1..(Len(s) + 1)
         /\ \A k \in DOMAIN t : /\ k < i => t[k] = s[k]
                                /\ k = i => t[k] = e
                                /\ k > i => t[k] = s[k - 1]
<1>1. SubSeq(s, 1, i - 1) \in Seq(S) /\ Len(SubSeq(s, 1, i - 1)) = i - 1
      /\ \A k \in 1..(i - 1) : SubSeq(s, 1, i - 1)[k] = s[k]
  OBVIOUS
<1>2. SubSeq(s, i, Len(s)) \in Seq(S) /\ Len(SubSeq(s, i, Len(s))) = Len(s) - i + 1
      /\ \A k \in 1..(Len(s) - i + 1) : SubSeq(s, i, Len(s))[k] = s[i + k - 1]
  OBVIOUS
<1>3. <<e>> \in Seq(S) /\ Len(<<e>>) = 1 /\ <<e>>[1] = e /\ Len(s) \in Nat
  OBVIOUS
<1> DEFINE a == SubSeq(s, 1, i - 1)
           b == SubSeq(s, i, Len(s))
           c == <<e>>
           d == a \o c
<1>4. t = d \o b
  BY DEF InsertAt
<1> HIDE DEF a, b, c
<1>5. /\ Len(a) = i - 1 /\ \A k \in 1..(i - 1) : a[k] = s[k]
      /\ Len(b) = Len(s) - i + 1 /\ \A k \in 1..(Len(s) - i + 1) : b[k] = s[i + k - 1]
      /\ Len(c) = 1 /\ c[1] = e
      /\ a \in Seq(S) /\ b \in Seq(S) /\ c \in Seq(S)
  BY <1>1, <1>2, <1>3 DEF a, b, c
<1>6. /\ Len(a) \in Nat /\ Len(c) \in Nat
      /\ d \in Seq(S) /\ Len(d) = Len(a) + Len(c)
      /\ DOMAIN d = 1..(Len(a) + Len(c))
      /\ \A k \in 1..Len(a) : d[k] = a[k]
      /\ \A k \in 1..Len(c) : d[Len(a) + k] = c[k]
  <2>1. a \in Seq(S) /\ c \in Seq(S)
    BY <1>5
  <2> QED BY ONLY <2>1
<1> HIDE DEF d
<1>7. /\ Len(d) \in Nat /\ Len(b) \in Nat
      /\ d \o b \in Seq(S) /\ Len(d \o b) = Len(d) + Len(b)
      /\ DOMAIN (d \o b) = 1..(Len(d) + Len(b))
      /\ \A k \in 1..Len(d) : (d \o b)[k] = d[k]
      /\ \A k \in 1..Len(b) : (d \o b)[Len(d) + k] = b[k]
  <2>1. d \in Seq(S) /\ b \in Seq(S)
    BY <1>5, <1>6
  <2> QED BY ONLY <2>1
<1>8. Len(d) = i /\ Len(d) + Len(b) = Len(s) + 1 /\ i \in 1..Len(d) /\ 1 \in 1..Len(c)
  BY <1>3, <1>5, <1>6
<1>9. d[i] = e /\ \A k \in 1..(i - 1) : d[k] = s[k]
  <2>1. \A k \in 1..(i - 1) : k \in 1..Len(a)
    BY <1>5
  <2>2. Len(a) + 1 = i
    BY <1>3, <1>5
  <2> QED BY <1>5, <1>6, <1>8, <2>1, <2>2
<1>10. DOMAIN t = 1..(Len(s) + 1)
  BY <1>4, <1>7, <1>8
<1>11. ASSUME NEW k \in 1..(Len(s) + 1)
       PROVE  /\ k < i => t[k] = s[k]
              /\ k = i => t[k] = e
              /\ k > i => t[k] = s[k - 1]
  <2>1. ASSUME k < i PROVE t[k] = s[k]
    <3>1. k \in 1..(i - 1) /\ k \in 1..Len(d)
      BY <1>3, <1>8, <2>1
    <3> QED BY <1>4, <1>7, <1>9, <3>1
  <2>2. ASSUME k = i PROVE t[k] = e
    BY <1>4, <1>7, <1>8, <1>9, <2>2
  <2>3. ASSUME k > i PROVE t[k] = s[k - 1]
    <3> DEFINE l == k - i
    <3>1. l \in 1..Len(b) /\ Len(d) + l = k /\ i + l - 1 = k - 1 /\ l \in 1..(Len(s) - i + 1)
      BY <1>3, <1>5, <1>8, <2>3
    <3> HIDE DEF l
    <3>2. t[k] = b[l]
      BY <1>4, <1>7, <3>1
    <3>3. b[l] = s[k - 1]
      BY <1>5, <3>1
    <3> QED BY <3>2, <3>3
  <2> QED BY <2>1, <2>2, <2>3
<1> QED BY <1>10, <1>11

(* PathsInserted: a stream with a new path.                                *)
LEMMA PathsInserted ==
  ASSUME streams \in Seq(Streams), PathsDiffer(streams), NEW e \in Streams,
         \A j \in DOMAIN streams : streams[j].path # e.path,
         NEW i \in 1..(Len(streams) + 1), streams' = InsertAt(streams, i, e)
  PROVE  PathsDiffer(streams')
<1> DEFINE s == streams
           t == streams'
<1>1. /\ s \in Seq(Streams) /\ t = InsertAt(s, i, e) /\ i \in 1..(Len(s) + 1)
      /\ \A j, k \in DOMAIN s : s[j].path = s[k].path => j = k
      /\ \A j \in DOMAIN s : s[j].path # e.path
  BY DEF PathsDiffer
<1> HIDE DEF s, t
<1>2. /\ DOMAIN t = 1..(Len(s) + 1)
      /\ \A k \in DOMAIN t : /\ k < i => t[k] = s[k]
                             /\ k = i => t[k] = e
                             /\ k > i => t[k] = s[k - 1]
  BY ONLY <1>1, e \in Streams, OneInserted
<1>3. DOMAIN s = 1..Len(s) /\ Len(s) \in Nat
  BY <1>1
<1> DEFINE Old(k) == IF k < i THEN k ELSE k - 1
<1>4. ASSUME NEW k \in DOMAIN t, k # i PROVE Old(k) \in DOMAIN s /\ t[k] = s[Old(k)]
  BY <1>1, <1>2, <1>3, <1>4
<1>5. ASSUME NEW k \in DOMAIN t, NEW l \in DOMAIN t, k # i, l # i, Old(k) = Old(l) PROVE k = l
  BY <1>1, <1>2, <1>3, <1>5
<1> HIDE DEF Old
<1>6. ASSUME NEW k \in DOMAIN t, NEW l \in DOMAIN t, t[k].path = t[l].path PROVE k = l
  <2>1. CASE k = i /\ l # i
    BY <1>1, <1>2, <1>4, <1>6, <2>1
  <2>2. CASE l = i /\ k # i
    BY <1>1, <1>2, <1>4, <1>6, <2>2
  <2>3. CASE k # i /\ l # i
    BY <1>1, <1>4, <1>5, <1>6, <2>3
  <2> QED BY <2>1, <2>2, <2>3
<1> QED BY <1>6 DEF PathsDiffer, t

(* ClientKeepsNames: a client gives paths of its own.                      *)
LEMMA ClientKeepsNames ==
  ASSUME Lists, NamesKnown, ClientNext
  PROVE  NamesKnown' /\ MeshInRoot'
<1>0. /\ KnownNames(m_Attachments) /\ KnownType(m_Attachments)
      /\ \A k \in DOMAIN m_sOwnPath : m_sOwnPath[k] \in Paths
      /\ m_AdditionalAttachments \subseteq Paths
      /\ PathsDiffer(streams) /\ TargetsKnown(package)
      /\ IsList(m_Attachments) /\ IsList(m_sOwnPath) /\ streams \in Seq(Streams)
  BY Zenon DEF NamesKnown, Lists, AttachmentList
<1>1. pc = "idle" /\ pc' = pc /\ archive' = NoPackage /\ package' = package
  BY DEF ClientNext, ClientStep, AddAttachment, CreatePackageThumbnailAttachment, AddSliceStack,
         CreateBinaryStream, FinishLayer, SetOwnPath, SetContent, AssignBinaryStream, AddArray
<1>2. TargetsKnown(package') /\ TargetsKnown(archive')
  <2>1. TargetsKnown(NoPackage)
    BY DEF TargetsKnown, NoPackage
  <2> QED BY <1>0, <1>1, <2>1
<1>3. MeshInRoot'
  <2>1. pc' \notin Running
    BY <1>1 DEF Running
  <2> QED BY <2>1 DEF MeshInRoot
<1> DEFINE Atts == KnownNames(m_Attachments') /\ KnownType(m_Attachments')
           Own == \A k \in DOMAIN m_sOwnPath' : m_sOwnPath'[k] \in Paths
           More == m_AdditionalAttachments' \subseteq Paths
           Ss == PathsDiffer(streams')
<1>4. /\ UNCHANGED m_Attachments => Atts
      /\ UNCHANGED m_sOwnPath => Own
      /\ UNCHANGED m_AdditionalAttachments => More
      /\ UNCHANGED streams => Ss
  BY <1>0
<1> HIDE DEF Atts, Own, More, Ss
<1>5. ASSUME NEW name \in PartNames, NEW type \in ClientTypes, AddAttachment(name, type)
      PROVE  Atts /\ Own /\ More /\ Ss
  <2> DEFINE e == [name |-> name, type |-> type, value |-> <<"data", name, type>>]
  <2>1. m_Attachments' = Append(m_Attachments, e) /\ UNCHANGED <<m_sOwnPath, m_AdditionalAttachments, streams>>
    BY <1>5 DEF AddAttachment, writerVars
  <2>2. e.name \in PartNames /\ e.type \in {"texture", "custom", "toolpath", "model"}
    BY DEF ClientTypes
  <2> HIDE DEF e
  <2>3. Atts
    BY <1>0, <2>1, <2>2, OneMoreKnown DEF Atts
  <2> QED BY <1>4, <2>1, <2>3
<1>6. ASSUME NEW path \in Paths, AddSliceStack(path) PROVE Atts /\ Own /\ More /\ Ss
  <2> DEFINE u == Append(m_sOwnPath, path)
  <2>1. m_sOwnPath' = u /\ UNCHANGED <<m_Attachments, m_AdditionalAttachments, streams>>
    BY <1>6 DEF AddSliceStack, writerVars
  <2>2. /\ IsList(u) /\ Len(m_sOwnPath) \in Nat /\ Len(u) = Len(m_sOwnPath) + 1
        /\ DOMAIN m_sOwnPath = 1..Len(m_sOwnPath) /\ DOMAIN u = 1..(Len(m_sOwnPath) + 1)
        /\ \A i \in 1..Len(m_sOwnPath) : u[i] = m_sOwnPath[i]
        /\ u[Len(m_sOwnPath) + 1] = path
    BY <1>0, ListAppend
  <2> HIDE DEF u
  <2>3. \A k \in DOMAIN u : u[k] \in Paths
    BY <1>0, <2>2
  <2> QED BY <1>4, <2>1, <2>3 DEF Own
<1>7. ASSUME NEW stack, NEW path \in Paths, SetOwnPath(stack, path) PROVE Atts /\ Own /\ More /\ Ss
  <2>1. m_sOwnPath' = [m_sOwnPath EXCEPT ![stack] = path] /\ UNCHANGED <<m_Attachments, m_AdditionalAttachments, streams>>
    BY <1>7 DEF SetOwnPath, writerVars
  <2>2. DOMAIN m_sOwnPath = 1..Len(m_sOwnPath)
    BY <1>0, ListFacts
  <2>3. \A k \in DOMAIN m_sOwnPath' : m_sOwnPath'[k] \in Paths
    BY <1>0, <2>1
  <2> QED BY <1>4, <2>1, <2>3 DEF Own
<1>8. ASSUME NEW path \in Paths, CreateBinaryStream(path) PROVE Atts /\ Own /\ More /\ Ss
  <2> DEFINE e == [path |-> path, arrays |-> 0, finished |-> FALSE]
  <2>1. PICK i \in 1..(Len(streams) + 1) : streams' = InsertAt(streams, i, e)
    BY <1>8 DEF CreateBinaryStream
  <2>2. UNCHANGED <<m_Attachments, m_sOwnPath, m_AdditionalAttachments>> /\ \A j \in DOMAIN streams : streams[j].path # path
    BY <1>8 DEF CreateBinaryStream, modelVars
  <2>3. e \in Streams /\ e.path = path
    BY DEF Streams
  <2> HIDE DEF e
  <2>4. Ss
    BY <1>0, <2>1, <2>2, <2>3, PathsInserted DEF Ss
  <2> QED BY <1>4, <2>2, <2>4
<1>9. ASSUME NEW s, AssignBinaryStream(s) PROVE Atts /\ Own /\ More /\ Ss
  BY <1>4, <1>9 DEF AssignBinaryStream, modelVars
<1>10. ASSUME NEW s, AddArray(s) PROVE Atts /\ Own /\ More /\ Ss
  <2>1. /\ s \in DOMAIN streams /\ streams' = [streams EXCEPT ![s].arrays = @ + 1]
        /\ UNCHANGED <<m_Attachments, m_sOwnPath, m_AdditionalAttachments>>
    BY <1>10 DEF AddArray, modelVars
  <2>2. StreamsKept
    BY <1>0, <2>1, ArrayPaths
  <2>3. Ss
    BY <1>0, <2>2, Zenon DEF Ss, PathsDiffer, StreamsKept
  <2> QED BY <1>4, <2>1, <2>3
<1>11. ASSUME NEW path \in Paths, FinishLayer(path) PROVE Atts /\ Own /\ More /\ Ss
  <2>1. /\ m_AdditionalAttachments' = m_AdditionalAttachments \cup {path}
        /\ UNCHANGED <<m_Attachments, m_sOwnPath, streams>>
    BY <1>11 DEF FinishLayer, modelVars
  <2> QED BY <1>0, <1>4, <2>1 DEF More
<1>12. ASSUME CreatePackageThumbnailAttachment PROVE Atts /\ Own /\ More /\ Ss
  BY <1>4, <1>12 DEF CreatePackageThumbnailAttachment, writerVars
<1>13. ASSUME NEW what, SetContent(what) PROVE Atts /\ Own /\ More /\ Ss
  BY <1>4, <1>13 DEF SetContent, writerVars
<1>14. Atts /\ Own /\ More /\ Ss
  BY <1>5, <1>6, <1>7, <1>8, <1>9, <1>10, <1>11, <1>12, <1>13, Zenon DEF ClientNext
<1> QED BY <1>2, <1>3, <1>14 DEF NamesKnown, Atts, Own, More, Ss

(* ReadKeepsNames: the parts of a package have the names clients gave.     *)
LEMMA ReadKeepsNames ==
  ASSUME PackageInv, Lists, NamesKnown, NEW types \in SUBSET {"custom", "toolpath"}, Read(types)
  PROVE  NamesKnown' /\ MeshInRoot'
<1> DEFINE X == ReadAttachments(archive, {"texture"})
           Y == ReadAttachments(archive, types)
           atts == SetToSeq(X) \o SetToSeq(Y)
           stacks == ReadStacks(archive)
<1>1. /\ pc = "idle" /\ pc' = pc /\ archive' = NoPackage /\ package' = package
      /\ m_Attachments' = atts /\ m_sOwnPath' = stacks
      /\ streams' = << >> /\ m_AdditionalAttachments' = {}
      /\ Readable(archive, types)
  BY DEF Read
<1>2. IsPackage(archive) /\ PartsCounted(archive)
  BY Zenon DEF PackageInv, ArchiveInv, Lists
<1>3. TargetsKnown(package) /\ TargetsKnown(archive)
  BY Zenon DEF NamesKnown
<1>4. extractModelDataFromRelationships(archive)
  BY <1>1, Zenon DEF Readable
<1>5. ASSUME NEW a \in X \cup Y
      PROVE  a.name \in PartNames /\ a.type \in {"texture", "custom", "toolpath", "model"}
  <2>1. PICK r \in archive.rels :
          /\ r.type \in {"texture", "custom", "toolpath"}
          /\ a = [name |-> r.target, type |-> r.type, value |-> Entry(archive, r.target).value]
    <3>1. a \in X => \E r \in archive.rels :
                       /\ r.type \in {"texture"}
                       /\ a = [name |-> r.target, type |-> r.type, value |-> Entry(archive, r.target).value]
      BY DEF ReadAttachments
    <3>2. a \in Y => \E r \in archive.rels :
                       /\ r.type \in types
                       /\ a = [name |-> r.target, type |-> r.type, value |-> Entry(archive, r.target).value]
      BY DEF ReadAttachments
    <3> HIDE DEF X, Y
    <3>3. \A t : t \in {"texture"} \/ t \in types => t \in {"texture", "custom", "toolpath"}
      OBVIOUS
    <3> QED BY <3>1, <3>2, <3>3, Zenon
  <2>2. a.name = r.target /\ a.type = r.type
    BY <2>1
  <2>3. r.target \in PartNames
    BY <1>3, Zenon DEF TargetsKnown
  <2> QED BY <2>1, <2>2, <2>3
<1>6. IsFiniteSet(X) /\ IsFiniteSet(Y)
  BY <1>2, ReadAttachmentsFinite
<1> HIDE DEF X, Y
<1>7. atts \in Seq(X \cup Y)
  <2>1. SetToSeq(X) \in Seq(X) /\ SetToSeq(Y) \in Seq(Y)
    BY <1>6, SetInSomeOrder
  <2>2. SetToSeq(X) \in Seq(X \cup Y) /\ SetToSeq(Y) \in Seq(X \cup Y)
    BY <2>1
  <2> QED BY <2>2
<1> HIDE DEF atts
<1>8. \A k \in DOMAIN atts : atts[k] \in X \cup Y
  BY <1>7
<1>9. KnownNames(atts) /\ KnownType(atts)
  BY <1>5, <1>8, Zenon DEF KnownNames, KnownType
<1>10. \A k \in DOMAIN stacks : stacks[k] \in Paths
  <2>1. \A k \in DOMAIN stacks : \E name \in TargetsOf(archive, {"model"}) :
          stacks[k] = [leading |-> TRUE, name |-> name]
    BY <1>2, <1>4, ReadStacksList
  <2>2. \A name \in TargetsOf(archive, {"model"}) : name \in PartNames
    BY <1>3 DEF TargetsOf, TargetsKnown
  <2> HIDE DEF stacks
  <2> SUFFICES ASSUME NEW k \in DOMAIN stacks PROVE stacks[k] \in Paths
    OBVIOUS
  <2>3. PICK name \in TargetsOf(archive, {"model"}) : stacks[k] = [leading |-> TRUE, name |-> name]
    BY <2>1
  <2>4. name \in PartNames
    BY <2>2
  <2> QED BY <2>3, <2>4 DEF Paths
<1> HIDE DEF stacks
<1>11. TargetsKnown(package') /\ TargetsKnown(archive')
  <2>1. TargetsKnown(NoPackage)
    BY DEF TargetsKnown, NoPackage
  <2> QED BY <1>1, <1>3, <2>1
<1>12. PathsDiffer(streams') /\ m_AdditionalAttachments' \subseteq Paths
  <2>1. DOMAIN << >> = {}
    OBVIOUS
  <2> QED BY <1>1, <2>1 DEF PathsDiffer
<1>13. NamesKnown'
  BY <1>1, <1>9, <1>10, <1>11, <1>12 DEF NamesKnown
<1>14. pc' \notin Running
  BY <1>1 DEF Running
<1> QED BY <1>13, <1>14 DEF MeshInRoot

(* NamesKept: every step.                                                  *)
LEMMA NamesKept ==
  ASSUME PackageInv, Lists, NamesKnown, MeshInRoot, [Next]_vars
  PROVE  NamesKnown' /\ MeshInRoot'
<1>1. CASE UNCHANGED vars
  <2>1. UNCHANGED <<m_Attachments, m_sOwnPath, m_AdditionalAttachments, streams, assigned, package, archive, pc>>
    BY <1>1 DEF vars, modelVars, writerVars, exportVars
  <2>2. NamesKnown'
    BY <2>1 DEF NamesKnown
  <2>3. MeshValue' = MeshValue
    BY <2>1 DEF MeshValue
  <2>4. MeshInRoot'
    BY <2>1, <2>3 DEF MeshInRoot
  <2> QED BY <2>2, <2>4
<1> QED BY <1>1, ClientKeepsNames, ExportKeepsNames, ReadKeepsNames, Zenon DEF Next

(* NamesStart: at first there are none.                                    *)
LEMMA NamesStart ==
  ASSUME Init
  PROVE  NamesKnown /\ MeshInRoot
<1>1. /\ m_Attachments = << >> /\ m_sOwnPath = << >> /\ streams = << >> /\ m_AdditionalAttachments = {}
      /\ pc = "idle" /\ package = NoPackage /\ archive = NoPackage
  BY DEF Init
<1>2. TargetsKnown(NoPackage)
  BY DEF TargetsKnown, NoPackage
<1>3. DOMAIN << >> = {}
  OBVIOUS
<1>4. NamesKnown
  BY <1>1, <1>2, <1>3 DEF NamesKnown, KnownNames, KnownType, PathsDiffer
<1> QED BY <1>1, <1>4 DEF MeshInRoot, Running

-----------------------------------------------------------------------------
(* An export that throws.                                                  *)

(* BackStays: what the last export left.                                   *)
LEMMA BackStays ==
  ASSUME CompletedExportReadsBack, UNCHANGED <<archive, source, outcome>>
  PROVE  CompletedExportReadsBack'
<1>1. archive' = archive /\ source' = source /\ outcome' = outcome
  OBVIOUS
<1>2. NamesAreClean' => NamesAreClean
  BY <1>1 DEF NamesAreClean
<1> QED BY <1>1, <1>2 DEF CompletedExportReadsBack

(* BackSaysNothing: nothing is said of another end.                        *)
LEMMA BackSaysNothing ==
  ASSUME outcome' \notin {"complete", "failed"}
  PROVE  CompletedExportReadsBack'
BY DEF CompletedExportReadsBack

(* The reasons of an export that throws, of the model it was writing.      *)
Reason ==
  \/ refused # {}
  \/ \E s \in ToSet(streams) : s.finished
  \/ \E a \in ToSet(m_Attachments), i \in DOMAIN m_sOwnPath : a.name = m_sOwnPath[i].name /\ a.type # "model"
  \/ \E s, t \in ToSet(streams) : s.path # t.path /\ s.path.name = t.path.name
  \/ \E l \in m_AdditionalAttachments :
       \/ \E k \in m_AdditionalAttachments : k # l /\ k.name = l.name
       \/ \E a \in ToSet(m_Attachments) : a.type = "toolpath" /\ a.name = l.name

(* LeaveSource: what the archive was written from.                         *)
LEMMA LeaveSource ==
  ASSUME NEW p, NEW to, NEW result, Leave(p, to, result)
  PROVE  /\ archive' = p /\ outcome' = result
         /\ source'.attachments = ToSet(m_Attachments) /\ source'.thumbnail = thumbnail
         /\ source'.stacks = m_sOwnPath /\ source'.streams = ToSet(streams)
         /\ source'.layers = m_AdditionalAttachments /\ source'.refused = refused
BY DEF Leave

(* FailedBack: an export that throws for one of the reasons.               *)
LEMMA FailedBack ==
  ASSUME NEW p, Leave(p, "idle", "failed"), Reason
  PROVE  CompletedExportReadsBack'
<1>1. /\ outcome' = "failed" /\ source'.refused = refused
      /\ source'.attachments = ToSet(m_Attachments) /\ source'.stacks = m_sOwnPath
      /\ source'.streams = ToSet(streams) /\ source'.layers = m_AdditionalAttachments
  BY LeaveSource
<1>2. \/ source'.refused # {}
      \/ \E s \in source'.streams : s.finished
      \/ \E a \in source'.attachments, i \in DOMAIN source'.stacks :
           a.name = source'.stacks[i].name /\ a.type # "model"
      \/ \E s, t \in source'.streams : s.path # t.path /\ s.path.name = t.path.name
      \/ \E l \in source'.layers : \/ \E k \in source'.layers : k # l /\ k.name = l.name
                                   \/ \E a \in source'.attachments : a.type = "toolpath" /\ a.name = l.name
  BY <1>1, Zenon DEF Reason
<1>3. outcome' # "complete"
  BY <1>1
<1> QED BY <1>2, <1>3, Zenon DEF CompletedExportReadsBack

(* InLists: what is in the lists is in their sets.                         *)
LEMMA InLists ==
  /\ \A i \in DOMAIN m_Attachments : m_Attachments[i] \in ToSet(m_Attachments)
  /\ \A j \in DOMAIN streams : streams[j] \in ToSet(streams)
BY DEF ToSet

(* HoldsNow: the package an export has written so far.                     *)
LEMMA HoldsNow ==
  ASSUME Lists, Progress, pc \in {"attachments", "streams", "layers"}, thumbnail \in BOOLEAN,
         Place \in 1..(Steps(Contents, m_Attachments) + 1)
  PROVE  \E v : Holds(Contents, m_Attachments, FrontPackage(thumbnail, v), Place, package)
<1> DEFINE c == Contents
           n == Place
<1>1. Ordered(c, m_Attachments) /\ c.thumbnail = thumbnail
  BY ContentsFacts
<1>2. PICK v : Built(c, m_Attachments, v, n, package)
  BY Zenon DEF Progress
<1>3. n \in 1..(Steps(c, m_Attachments) + 1)
  OBVIOUS
<1> HIDE DEF c, n
<1>4. Holds(c, m_Attachments, FrontPackage(c.thumbnail, v), n, package)
  BY <1>1, <1>2, <1>3, BuiltHolds
<1> QED BY <1>1, <1>4 DEF c, n

(* DuplicateOf: a relationship that is there already was written by one of *)
(* the steps before.                                                       *)
LEMMA DuplicateOf ==
  ASSUME NEW c, NEW atts, Ordered(c, atts), NEW front, NEW n \in Nat, NEW p, Holds(c, atts, front, n, p),
         NEW type, NEW name, DuplicateRelationship(p, type, name)
  PROVE  \/ \E k \in DOMAIN atts : k < n /\ atts[k].type = type /\ atts[k].name = name
         \/ \E j \in DOMAIN c.streams : /\ Len(atts) + 1 + j < n /\ "binary" = type /\ c.streams[j].path.name = name
         \/ \E j \in DOMAIN c.layers : /\ Len(atts) + Len(c.streams) + 2 + j < n /\ "toolpath" = type
                                       /\ c.layers[j].name = name
<1>1. PICK r \in p.rels : r.type = type /\ r.target = name
  BY DEF DuplicateRelationship
<1>2. PICK k \in 1..(n - 1) : \E x : Written(c, atts, k, x) /\ r = RelationOf(x)
  BY Zenon DEF Holds
<1>3. PICK x : Written(c, atts, k, x) /\ r = RelationOf(x)
  BY <1>2
<1>4. x.type = type /\ x.name = name
  BY <1>1, <1>3 DEF RelationOf
<1>5. k < n
  BY <1>2
<1>6. CASE k \in DOMAIN atts /\ x.name = atts[k].name /\ x.type = atts[k].type
  BY <1>4, <1>5, <1>6, Zenon
<1>7. CASE \E j \in DOMAIN c.streams : k = Len(atts) + 1 + j /\ x.name = c.streams[j].path.name /\ x.type = "binary"
  BY <1>4, <1>5, <1>7, Zenon
<1>8. CASE \E j \in DOMAIN c.layers : /\ k = Len(atts) + Len(c.streams) + 2 + j
                                      /\ x.name = c.layers[j].name /\ x.type = "toolpath"
  BY <1>4, <1>5, <1>8, Zenon
<1>9. \/ k \in DOMAIN atts /\ x.name = atts[k].name /\ x.type = atts[k].type
      \/ \E j \in DOMAIN c.streams : k = Len(atts) + 1 + j /\ x.name = c.streams[j].path.name /\ x.type = "binary"
      \/ \E j \in DOMAIN c.layers : /\ k = Len(atts) + Len(c.streams) + 2 + j
                                    /\ x.name = c.layers[j].name /\ x.type = "toolpath"
  <2>1. \/ /\ k \in DOMAIN atts
           /\ x = [name |-> atts[k].name, type |-> atts[k].type, value |-> atts[k].value,
                   id |-> <<"rel", IDsInFront(c.thumbnail) + k - 1>>]
        \/ \E j \in DOMAIN c.streams :
             /\ k = Len(atts) + 1 + j
             /\ x = [name |-> c.streams[j].path.name, type |-> "binary", value |-> <<"binary", c.streams[j].arrays>>,
                     id |-> <<"binary", j>>]
        \/ \E j \in DOMAIN c.layers :
             /\ k = Len(atts) + Len(c.streams) + 2 + j
             /\ x = [name |-> c.layers[j].name, type |-> "toolpath", value |-> <<"layer", c.layers[j]>>,
                     id |-> LayerID(c.layers[j])]
    BY <1>3, Zenon DEF Written
  <2> QED BY <2>1
<1> QED BY <1>6, <1>7, <1>8, <1>9

(* PlaceIs: where an export is in its steps.                               *)
LEMMA PlaceIs ==
  ASSUME Lists, Progress
  PROVE  /\ Len(Contents.streams) = Len(streams) /\ Contents.layers = Layers
         /\ Len(m_Attachments) \in Nat /\ Len(streams) \in Nat /\ Len(Layers) \in Nat
         /\ DOMAIN Layers = 1..Len(Layers) /\ DOMAIN streams = 1..Len(streams)
         /\ DOMAIN m_Attachments = 1..Len(m_Attachments)
         /\ Steps(Contents, m_Attachments) = Len(m_Attachments) + Len(streams) + Len(Layers) + 2
         /\ pc = "attachments" => Place = next /\ next \in 1..(Len(m_Attachments) + 1)
         /\ pc = "streams" => Place = Len(m_Attachments) + 1 + next /\ next \in 1..(Len(streams) + 1)
         /\ pc = "layers" => /\ Place = Len(m_Attachments) + Len(streams) + 2 + next
                             /\ next \in 1..(Len(Layers) + 1)
         /\ pc \in {"attachments", "streams", "layers"} => Place \in 1..(Steps(Contents, m_Attachments) + 1)
<1>1. Len(Contents.streams) = Len(streams) /\ Contents.layers = Layers /\ IsList(Layers)
  BY ContentsFacts
<1>2. IsList(m_Attachments) /\ streams \in Seq(Streams)
  BY Zenon DEF Lists, AttachmentList
<1> DEFINE A == Len(m_Attachments)
           S == Len(streams)
           L == Len(Layers)
<1>3. /\ A \in Nat /\ S \in Nat /\ L \in Nat
      /\ DOMAIN Layers = 1..L /\ DOMAIN streams = 1..S /\ DOMAIN m_Attachments = 1..A
  BY <1>1, <1>2, ListFacts
<1>4. Steps(Contents, m_Attachments) = A + S + L + 2
  BY <1>1 DEF Steps
<1>5. /\ pc = "attachments" => Place = next /\ next \in 1..(A + 1)
      /\ pc = "streams" => Place = A + 1 + next /\ next \in 1..(S + 1)
      /\ pc = "layers" => Place = A + S + 2 + next /\ next \in 1..(L + 1)
  BY DEF Place, Progress
<1> DEFINE n == Steps(Contents, m_Attachments)
<1>6. pc \in {"attachments", "streams", "layers"} => Place \in 1..(n + 1)
  <2> HIDE DEF n, A, S, L
  <2>1. n = A + S + L + 2
    BY <1>4 DEF n, A, S, L
  <2>2. A \in Nat /\ S \in Nat /\ L \in Nat
    BY <1>3 DEF A, S, L
  <2>3. CASE pc = "attachments"
    <3>1. Place = next /\ next \in 1..(A + 1)
      BY <1>5, <2>3 DEF A
    <3> QED BY <2>1, <2>2, <3>1
  <2>4. CASE pc = "streams"
    <3>1. Place = A + 1 + next /\ next \in 1..(S + 1)
      BY <1>5, <2>4 DEF A, S
    <3> QED BY <2>1, <2>2, <3>1
  <2>5. CASE pc = "layers"
    <3>1. Place = A + S + 2 + next /\ next \in 1..(L + 1)
      BY <1>5, <2>5 DEF A, S, L
    <3> QED BY <2>1, <2>2, <3>1
  <2> QED BY <2>3, <2>4, <2>5
<1> QED BY <1>1, <1>3, <1>4, <1>5, <1>6

(* DuplicateNow: so is one that is there already in an export.             *)
LEMMA DuplicateNow ==
  ASSUME Lists, Progress, pc \in {"attachments", "streams", "layers"}, thumbnail \in BOOLEAN,
         NEW type, NEW name, DuplicateRelationship(package, type, name)
  PROVE  \/ \E k \in DOMAIN m_Attachments : k < Place /\ m_Attachments[k].type = type /\ m_Attachments[k].name = name
         \/ \E j \in DOMAIN streams : Len(m_Attachments) + 1 + j < Place /\ "binary" = type /\ streams[j].path.name = name
         \/ \E j \in DOMAIN Layers : /\ Len(m_Attachments) + Len(streams) + 2 + j < Place /\ "toolpath" = type
                                     /\ Layers[j].name = name
<1> DEFINE c == Contents
           n == Place
           atts == m_Attachments
<1>1. /\ Len(c.streams) = Len(streams) /\ c.layers = Layers
      /\ n \in 1..(Steps(c, atts) + 1) /\ Steps(c, atts) \in Nat
  BY PlaceIs
<1>2. /\ Ordered(c, atts) /\ DOMAIN c.streams = DOMAIN streams
      /\ \A j \in DOMAIN streams : c.streams[j].path = streams[j].path
  BY ContentsFacts
<1>3. PICK v : Holds(c, atts, FrontPackage(thumbnail, v), n, package)
  BY <1>1, HoldsNow
<1>4. n \in Nat
  <2> HIDE DEF n
  <2> QED BY <1>1
<1> HIDE DEF c, n, atts
<1>5. \/ \E k \in DOMAIN atts : k < n /\ atts[k].type = type /\ atts[k].name = name
      \/ \E j \in DOMAIN c.streams : /\ Len(atts) + 1 + j < n /\ "binary" = type /\ c.streams[j].path.name = name
      \/ \E j \in DOMAIN c.layers : /\ Len(atts) + Len(c.streams) + 2 + j < n /\ "toolpath" = type
                                    /\ c.layers[j].name = name
  BY <1>2, <1>3, <1>4, DuplicateOf
<1> QED BY <1>1, <1>2, <1>5, Zenon DEF n, atts

(* ThrowBack: the mesh goes to a stream that is finished, or the root      *)
(* model has what its writer refuses.                                      *)
LEMMA ThrowBack ==
  ASSUME Lists, writeModelStreamThrows
  PROVE  CompletedExportReadsBack'
<1>1. RootThrows /\ Leave(addPart(package, RootName, <<"partial">>, FALSE), "idle", "failed")
  BY DEF writeModelStreamThrows
<1>2. CASE MeshThrows
  <2>1. assigned # 0 /\ streams[assigned].finished
    BY <1>2 DEF MeshThrows
  <2>2. assigned \in DOMAIN streams
    <3>1. streams \in Seq(Streams) /\ assigned \in 0..Len(streams)
      BY Zenon DEF Lists
    <3> QED BY <2>1, <3>1
  <2>3. Reason
    BY <2>1, <2>2, InLists, Zenon DEF Reason
  <2> QED BY <1>1, <2>3, FailedBack
<1>3. CASE 0 \in refused
  <2>1. Reason
    BY <1>3 DEF Reason
  <2> QED BY <1>1, <2>1, FailedBack
<1> QED BY <1>1, <1>2, <1>3 DEF RootThrows

(* SlicesThrowBack: slices that their writer refuses.                      *)
LEMMA SlicesThrowBack ==
  ASSUME writeSliceStackStreamThrows
  PROVE  CompletedExportReadsBack'
<1>1. Leave(package, "idle", "failed") /\ SlicesThrow(m_sOwnPath[next])
  BY DEF writeSliceStackStreamThrows
<1>2. Reason
  BY <1>1 DEF SlicesThrow, Reason
<1> QED BY <1>1, <1>2, FailedBack

(* SlicesBack: the path of slices is an attachment of another type.        *)
LEMMA SlicesBack ==
  ASSUME CompletedExportReadsBack, AddSlicerefAttachment
  PROVE  CompletedExportReadsBack'
<1> DEFINE path == m_sOwnPath[next]
<1>1. next \in DOMAIN m_sOwnPath
  BY Zenon DEF AddSlicerefAttachment
<1>2. \/ Goto("slices", next + 1)
      \/ /\ \E i \in DOMAIN m_Attachments : m_Attachments[i].name = path.name /\ m_Attachments[i].type # "model"
         /\ Leave(package, "idle", "failed")
  BY DEF AddSlicerefAttachment
<1>3. CASE Goto("slices", next + 1)
  BY <1>3, BackStays DEF Goto
<1>4. CASE /\ \E i \in DOMAIN m_Attachments : m_Attachments[i].name = path.name /\ m_Attachments[i].type # "model"
           /\ Leave(package, "idle", "failed")
  <2>1. Reason
    BY <1>1, <1>4, InLists, Zenon DEF Reason
  <2> QED BY <1>4, <2>1, FailedBack
<1> QED BY <1>2, <1>3, <1>4

(* AttachmentBack: no two attachments have the same name.                  *)
LEMMA AttachmentBack ==
  ASSUME CompletedExportReadsBack, Lists, Progress, thumbnail \in BOOLEAN, IsPackage(package), AddAttachmentPart
  PROVE  CompletedExportReadsBack'
<1> DEFINE a == m_Attachments[next]
           p == addPart(package, a.name, a.value, TRUE)
<1>1. /\ pc = "attachments" /\ next \in DOMAIN m_Attachments
      /\ DuplicateRelationship(p, a.type, a.name) \/ Goto("attachments", next + 1)
  BY Zenon DEF AddAttachmentPart
<1>2. Place = next /\ DOMAIN m_Attachments = 1..Len(m_Attachments) /\ Len(m_Attachments) \in Nat
      /\ Len(streams) \in Nat /\ DOMAIN streams = 1..Len(streams) /\ DOMAIN Layers = 1..Len(Layers)
  BY <1>1, PlaceIs
<1>3. ASSUME DuplicateRelationship(p, a.type, a.name) PROVE FALSE
  <2>1. p.rels = package.rels
    <3> DEFINE name == a.name
               value == a.value
               whole == TRUE
               u == addPart(package, name, value, whole)
    <3>1. u = addPart(package, name, value, whole)
      OBVIOUS
    <3> HIDE DEF name, value, whole, u
    <3>2. /\ IsPackage(u) /\ Grows(package, u)
          /\ u.types = package.types /\ u.root = package.root /\ u.rels = package.rels
          /\ \E i \in DOMAIN u.parts : u.parts[i] = [name |-> name, value |-> value, whole |-> whole]
      BY ONLY IsPackage(package), <3>1, PartAdded
    <3> QED BY <3>2 DEF u, name, value, whole
  <2>2. DuplicateRelationship(package, a.type, a.name)
    BY <1>3, <2>1, Zenon DEF DuplicateRelationship
  <2> DEFINE type == a.type
             name == a.name
  <2>3. type = m_Attachments[next].type /\ name = m_Attachments[next].name /\ DuplicateRelationship(package, type, name)
    BY <2>2
  <2>4. pc \in {"attachments", "streams", "layers"}
    BY <1>1
  <2> HIDE DEF type, name
  <2>5. \/ \E k \in DOMAIN m_Attachments : k < Place /\ m_Attachments[k].type = type /\ m_Attachments[k].name = name
        \/ \E j \in DOMAIN streams : Len(m_Attachments) + 1 + j < Place /\ "binary" = type /\ streams[j].path.name = name
        \/ \E j \in DOMAIN Layers : /\ Len(m_Attachments) + Len(streams) + 2 + j < Place /\ "toolpath" = type
                                    /\ Layers[j].name = name
    BY <2>3, <2>4, DuplicateNow
  <2>6. \A i, j \in DOMAIN m_Attachments : m_Attachments[i].name = m_Attachments[j].name => i = j
    BY Zenon DEF Lists, AttachmentList
  <2>7. ASSUME NEW k \in DOMAIN m_Attachments, k < Place, m_Attachments[k].name = name PROVE FALSE
    <3>1. k = next
      BY <1>1, <2>3, <2>6, <2>7
    <3> QED BY <1>2, <2>7, <3>1
  <2>8. \A j \in DOMAIN streams : ~(Len(m_Attachments) + 1 + j < Place)
    BY <1>1, <1>2
  <2>9. \A j \in DOMAIN Layers : ~(Len(m_Attachments) + Len(streams) + 2 + j < Place)
    BY <1>1, <1>2
  <2> QED BY <2>5, <2>7, <2>8, <2>9
<1>4. Goto("attachments", next + 1)
  BY <1>1, <1>3
<1> QED BY <1>4, BackStays DEF Goto

(* StreamBack: two streams whose paths differ in the delimiter.            *)
LEMMA StreamBack ==
  ASSUME CompletedExportReadsBack, Lists, Progress, thumbnail \in BOOLEAN, NamesKnown, WriteBinaryStream
  PROVE  CompletedExportReadsBack'
<1> DEFINE s == streams[next]
<1>1. /\ pc = "streams" /\ next \in DOMAIN streams
      /\ \/ Goto("streams", next + 1)
         \/ /\ DuplicateRelationship(package, "binary", s.path.name)
            /\ Leave(addPart(package, s.path.name, <<"partial">>, FALSE), "idle", "failed")
  BY Zenon DEF WriteBinaryStream
<1>2. CASE Goto("streams", next + 1)
  BY <1>2, BackStays DEF Goto
<1>3. CASE /\ DuplicateRelationship(package, "binary", s.path.name)
           /\ Leave(addPart(package, s.path.name, <<"partial">>, FALSE), "idle", "failed")
  <2>1. /\ Place = Len(m_Attachments) + 1 + next
        /\ Len(m_Attachments) \in Nat /\ Len(streams) \in Nat /\ DOMAIN streams = 1..Len(streams)
    BY <1>1, PlaceIs
  <2>2. pc \in {"attachments", "streams", "layers"}
    BY <1>1
  <2> DEFINE type == "binary"
             name == s.path.name
  <2>3. type = "binary" /\ name = streams[next].path.name /\ DuplicateRelationship(package, type, name)
    BY <1>3
  <2> HIDE DEF type, name
  <2>4. \/ \E k \in DOMAIN m_Attachments : k < Place /\ m_Attachments[k].type = type /\ m_Attachments[k].name = name
        \/ \E j \in DOMAIN streams : Len(m_Attachments) + 1 + j < Place /\ "binary" = type /\ streams[j].path.name = name
        \/ \E j \in DOMAIN Layers : /\ Len(m_Attachments) + Len(streams) + 2 + j < Place /\ "toolpath" = type
                                    /\ Layers[j].name = name
    BY <2>2, <2>3, DuplicateNow
  <2>5. \A k \in DOMAIN m_Attachments : m_Attachments[k].type # type
    BY <2>3 DEF NamesKnown, KnownType
  <2>6. "toolpath" # type
    BY <2>3
  <2>7. PICK j \in DOMAIN streams : Len(m_Attachments) + 1 + j < Place /\ streams[j].path.name = name
    BY <2>4, <2>5, <2>6, Zenon
  <2>8. j # next
    BY <1>1, <2>1, <2>7
  <2>9. streams[j].path # streams[next].path
    BY <1>1, <2>8, Zenon DEF NamesKnown, PathsDiffer
  <2>10. Reason
    BY <1>1, <2>3, <2>7, <2>9, InLists, Zenon DEF Reason
  <2> QED BY <1>3, <2>10, FailedBack
<1> QED BY <1>1, <1>2, <1>3

(* LayersInOrder: the layers, each once.                                   *)
LEMMA LayersInOrder ==
  ASSUME Lists
  PROVE  /\ \A j \in DOMAIN Layers : Layers[j] \in m_AdditionalAttachments
         /\ \A i, j \in DOMAIN Layers : Layers[i] = Layers[j] => i = j
         /\ \A l \in m_AdditionalAttachments : \E j \in DOMAIN Layers : Layers[j] = l
<1>1. IsFiniteSet(m_AdditionalAttachments)
  BY Zenon DEF Lists
<1>2. Layers \in Seq(m_AdditionalAttachments) /\ \A i, j \in DOMAIN Layers : Layers[i] = Layers[j] => i = j
  BY <1>1, SetInSomeOrder, Zenon DEF Layers
<1>3. \A l \in m_AdditionalAttachments : \E j \in DOMAIN Layers : Layers[j] = l
  BY <1>1, WholeSetInOrder, Zenon DEF Layers
<1>4. \A j \in DOMAIN Layers : Layers[j] \in m_AdditionalAttachments
  BY <1>2
<1> QED BY <1>2, <1>3, <1>4, Zenon

(* LayerBack: two layers of the same name, one of them read perhaps.       *)
LEMMA LayerBack ==
  ASSUME CompletedExportReadsBack, Lists, Progress, thumbnail \in BOOLEAN, NamesKnown, WriteLayer
  PROVE  CompletedExportReadsBack'
<1> DEFINE path == Layers[next]
<1>1. /\ pc = "layers" /\ next \in DOMAIN Layers
      /\ \/ Goto("layers", next + 1)
         \/ /\ DuplicateRelationship(package, "toolpath", path.name)
            /\ Leave(addPart(package, path.name, <<"partial">>, FALSE), "idle", "failed")
  BY Zenon DEF WriteLayer
<1>2. CASE Goto("layers", next + 1)
  BY <1>2, BackStays DEF Goto
<1>3. CASE /\ DuplicateRelationship(package, "toolpath", path.name)
           /\ Leave(addPart(package, path.name, <<"partial">>, FALSE), "idle", "failed")
  <2>1. /\ Place = Len(m_Attachments) + Len(streams) + 2 + next
        /\ Len(m_Attachments) \in Nat /\ Len(streams) \in Nat /\ DOMAIN Layers = 1..Len(Layers)
    BY <1>1, PlaceIs
  <2>2. pc \in {"attachments", "streams", "layers"}
    BY <1>1
  <2> DEFINE type == "toolpath"
             name == path.name
  <2>3. type = "toolpath" /\ name = Layers[next].name /\ DuplicateRelationship(package, type, name)
    BY <1>3
  <2> HIDE DEF type, name
  <2>4. \/ \E k \in DOMAIN m_Attachments : k < Place /\ m_Attachments[k].type = type /\ m_Attachments[k].name = name
        \/ \E j \in DOMAIN streams : Len(m_Attachments) + 1 + j < Place /\ "binary" = type /\ streams[j].path.name = name
        \/ \E j \in DOMAIN Layers : /\ Len(m_Attachments) + Len(streams) + 2 + j < Place /\ "toolpath" = type
                                    /\ Layers[j].name = name
    BY <2>2, <2>3, DuplicateNow
  <2>5. "binary" # type
    BY <2>3
  <2>6. Layers[next] \in m_AdditionalAttachments
    BY <1>1, LayersInOrder, Zenon
  <2>7. ASSUME \E k \in DOMAIN m_Attachments : m_Attachments[k].type = type /\ m_Attachments[k].name = name
        PROVE  Reason
    <3>1. PICK k \in DOMAIN m_Attachments : m_Attachments[k].type = type /\ m_Attachments[k].name = name
      BY <2>7
    <3>2. m_Attachments[k] \in ToSet(m_Attachments)
      BY InLists
    <3>3. m_Attachments[k].type = "toolpath" /\ m_Attachments[k].name = Layers[next].name
      BY <2>3, <3>1
    <3> DEFINE a == m_Attachments[k]
               l == Layers[next]
    <3>4. a \in ToSet(m_Attachments) /\ a.type = "toolpath" /\ l \in m_AdditionalAttachments /\ a.name = l.name
      BY <2>6, <3>2, <3>3
    <3> HIDE DEF a, l
    <3> QED BY <3>4, Zenon DEF Reason
  <2>8. ASSUME NEW j \in DOMAIN Layers, Len(m_Attachments) + Len(streams) + 2 + j < Place, Layers[j].name = name
        PROVE  Reason
    <3>1. j # next
      BY <1>1, <2>1, <2>8
    <3>2. Layers[j] # Layers[next] /\ Layers[j] \in m_AdditionalAttachments
      BY <1>1, <3>1, LayersInOrder, Zenon
    <3> DEFINE l == Layers[next]
               k == Layers[j]
    <3>3. l \in m_AdditionalAttachments /\ k \in m_AdditionalAttachments /\ k # l /\ k.name = l.name
      BY <2>3, <2>6, <2>8, <3>2
    <3> HIDE DEF l, k
    <3> QED BY <3>3, Zenon DEF Reason
  <2>9. Reason
    BY <2>4, <2>5, <2>7, <2>8, Zenon
  <2> QED BY <1>3, <2>9, FailedBack
<1> QED BY <1>1, <1>2, <1>3

-----------------------------------------------------------------------------
(* A client with clean names.                                              *)

(* What clean names mean to the model that an export writes.               *)
StacksClean ==
  /\ \A i, j \in DOMAIN m_sOwnPath : m_sOwnPath[i].name = m_sOwnPath[j].name => m_sOwnPath[i] = m_sOwnPath[j]
  /\ \A a \in ToSet(m_Attachments) : a.type = "model" => \E i \in DOMAIN m_sOwnPath : m_sOwnPath[i].name = a.name
OthersClean ==
  /\ \A s, t \in ToSet(streams) : (s.arrays > 0 /\ t.arrays > 0 /\ s.path.name = t.path.name) => s.path = t.path
  /\ \A k, l \in m_AdditionalAttachments : k.name = l.name => k = l
  /\ \A s \in ToSet(streams), l \in m_AdditionalAttachments : s.arrays > 0 => s.path.name # l.name
  /\ \A s \in ToSet(streams), a \in ToSet(m_Attachments) : s.arrays > 0 => s.path.name # a.name
  /\ \A l \in m_AdditionalAttachments, a \in ToSet(m_Attachments) : l.name # a.name
  /\ thumbnail => /\ \A a \in ToSet(m_Attachments) : a.name # ThumbnailName
                  /\ \A s \in ToSet(streams) : s.arrays > 0 => s.path.name # ThumbnailName
                  /\ \A l \in m_AdditionalAttachments : l.name # ThumbnailName

(* CleanNow: the archive of this model has clean names.                    *)
LEMMA CleanNow ==
  ASSUME NEW p, NEW to, NEW result, Leave(p, to, result), NamesAreClean'
  PROVE  StacksClean /\ OthersClean
<1> DEFINE A == ToSet(m_Attachments)
           S == ToSet(streams)
           L == m_AdditionalAttachments
           own == m_sOwnPath
           st(s) == [a |-> "stream", path |-> s.path]
           la(l) == [a |-> "layer", path |-> l]
           names == {own[i].name : i \in DOMAIN own}
           others == {st(s) : s \in {t \in S : t.arrays > 0}} \cup {la(l) : l \in L}
<1>1. /\ source'.attachments = A /\ source'.thumbnail = thumbnail
      /\ source'.stacks = own /\ source'.streams = S /\ source'.layers = L
  BY LeaveSource
<1>2. /\ \A i, j \in DOMAIN own : own[i].name = own[j].name => own[i] = own[j]
      /\ \A a \in A : a.type = "model" => a.name \in names
      /\ \A o, q \in others : o.path.name = q.path.name => o = q
      /\ \A o \in others, a \in A : o.path.name # a.name
      /\ thumbnail => /\ \A a \in A : a.name # ThumbnailName
                      /\ \A o \in others : o.path.name # ThumbnailName
  <2> HIDE DEF A, S, L, own
  <2> QED BY <1>1 DEF NamesAreClean
<1>3. /\ \A s \in S : s.arrays > 0 => st(s) \in others
      /\ \A l \in L : la(l) \in others
  OBVIOUS
<1>4. /\ \A s : st(s).path = s.path /\ st(s).a = "stream"
      /\ \A l : la(l).path = l /\ la(l).a = "layer"
  OBVIOUS
<1>5. \A a \in A : a.type = "model" => \E i \in DOMAIN own : own[i].name = a.name
  BY <1>2
<1> HIDE DEF others, st, la, names, A, S, L
<1>6. \A s, t \in S : (s.arrays > 0 /\ t.arrays > 0 /\ s.path.name = t.path.name) => s.path = t.path
  <2> SUFFICES ASSUME NEW s \in S, NEW t \in S, s.arrays > 0, t.arrays > 0, s.path.name = t.path.name
               PROVE  s.path = t.path
    OBVIOUS
  <2>1. st(s) \in others /\ st(t) \in others /\ st(s).path = s.path /\ st(t).path = t.path
    BY <1>3, <1>4
  <2>2. st(s) = st(t)
    BY <1>2, <2>1
  <2> QED BY <2>1, <2>2
<1>7. \A k, l \in L : k.name = l.name => k = l
  <2> SUFFICES ASSUME NEW k \in L, NEW l \in L, k.name = l.name PROVE k = l
    OBVIOUS
  <2>1. la(k) \in others /\ la(l) \in others /\ la(k).path = k /\ la(l).path = l
    BY <1>3, <1>4
  <2>2. la(k) = la(l)
    BY <1>2, <2>1
  <2> QED BY <2>1, <2>2
<1>8. \A s \in S, l \in L : s.arrays > 0 => s.path.name # l.name
  <2> SUFFICES ASSUME NEW s \in S, NEW l \in L, s.arrays > 0, s.path.name = l.name PROVE FALSE
    OBVIOUS
  <2>1. st(s) \in others /\ la(l) \in others /\ st(s).path = s.path /\ la(l).path = l
        /\ st(s).a = "stream" /\ la(l).a = "layer"
    BY <1>3, <1>4
  <2>2. st(s) = la(l)
    BY <1>2, <2>1
  <2> QED BY <2>1, <2>2
<1>9. /\ \A s \in S, a \in A : s.arrays > 0 => s.path.name # a.name
      /\ thumbnail => \A s \in S : s.arrays > 0 => s.path.name # ThumbnailName
  <2> SUFFICES ASSUME NEW s \in S, s.arrays > 0
               PROVE  /\ \A a \in A : s.path.name # a.name
                      /\ thumbnail => s.path.name # ThumbnailName
    OBVIOUS
  <2>1. st(s) \in others /\ st(s).path = s.path
    BY <1>3, <1>4
  <2> QED BY <1>2, <2>1
<1>10. /\ \A l \in L, a \in A : l.name # a.name
       /\ thumbnail => \A l \in L : l.name # ThumbnailName
  <2> SUFFICES ASSUME NEW l \in L
               PROVE  /\ \A a \in A : l.name # a.name
                      /\ thumbnail => l.name # ThumbnailName
    OBVIOUS
  <2>1. la(l) \in others /\ la(l).path = l
    BY <1>3, <1>4
  <2> QED BY <1>2, <2>1
<1>11. StacksClean
  BY <1>2, <1>5, Zenon DEF StacksClean, A
<1>12. OthersClean
  BY <1>2, <1>6, <1>7, <1>8, <1>9, <1>10, Zenon DEF OthersClean, A, S, L
<1> QED BY <1>11, <1>12

(* CleanDistinct: so no two of its parts have the same name.               *)
LEMMA CleanDistinct ==
  ASSUME Lists, NamesKnown, OthersClean
  PROVE  Distinct(Contents, m_Attachments)
<1> DEFINE c == Contents
           atts == m_Attachments
           A == ToSet(m_Attachments)
           S == ToSet(streams)
           L == m_AdditionalAttachments
<1>1. /\ c.thumbnail = thumbnail /\ DOMAIN c.streams = DOMAIN streams /\ c.layers = Layers
      /\ \A j \in DOMAIN streams : c.streams[j].path = streams[j].path /\ c.streams[j].arrays = streams[j].arrays
  BY ContentsFacts
<1>2. /\ \A k \in DOMAIN atts : atts[k] \in A
      /\ \A j \in DOMAIN streams : streams[j] \in S
  BY InLists
<1>3. /\ \A j \in DOMAIN Layers : Layers[j] \in L
      /\ \A i, j \in DOMAIN Layers : Layers[i] = Layers[j] => i = j
  BY LayersInOrder
<1>4. /\ \A k \in DOMAIN atts : atts[k].name \in PartNames
      /\ L \subseteq Paths
      /\ \A i, j \in DOMAIN streams : streams[i].path = streams[j].path => i = j
  BY Zenon DEF NamesKnown, KnownNames, PathsDiffer
<1>5. \A j \in DOMAIN streams : /\ streams[j].path.name \in PartNames
                                /\ streams[j].arrays # 0 => streams[j].arrays > 0
  <2> SUFFICES ASSUME NEW j \in DOMAIN streams
               PROVE  streams[j].path.name \in PartNames /\ (streams[j].arrays # 0 => streams[j].arrays > 0)
    OBVIOUS
  <2>1. streams \in Seq(Streams)
    BY Zenon DEF Lists
  <2>2. streams[j] \in Streams
    BY <2>1
  <2> QED BY <2>2 DEF Streams, Paths
<1>6. \A j \in DOMAIN Layers : Layers[j].name \in PartNames
  BY <1>3, <1>4 DEF Paths
<1>7. \A i, j \in DOMAIN atts : atts[i].name = atts[j].name => i = j
  BY Zenon DEF Lists, AttachmentList
<1>8. /\ \A s, t \in S : (s.arrays > 0 /\ t.arrays > 0 /\ s.path.name = t.path.name) => s.path = t.path
      /\ \A k, l \in L : k.name = l.name => k = l
      /\ \A s \in S, l \in L : s.arrays > 0 => s.path.name # l.name
      /\ \A s \in S, a \in A : s.arrays > 0 => s.path.name # a.name
      /\ \A l \in L, a \in A : l.name # a.name
      /\ thumbnail => /\ \A a \in A : a.name # ThumbnailName
                      /\ \A s \in S : s.arrays > 0 => s.path.name # ThumbnailName
                      /\ \A l \in L : l.name # ThumbnailName
  BY Zenon DEF OthersClean
<1> HIDE DEF c, atts, A, S, L
<1>9. \A k \in DOMAIN atts : /\ atts[k].name \in PartNames
                             /\ c.thumbnail => atts[k].name # ThumbnailName
  BY <1>1, <1>2, <1>4, <1>8
<1>10. \A j \in DOMAIN c.streams :
         c.streams[j].arrays # 0 => /\ c.streams[j].path.name \in PartNames
                                    /\ c.thumbnail => c.streams[j].path.name # ThumbnailName
  BY <1>1, <1>2, <1>5, <1>8
<1>11. \A j \in DOMAIN c.layers : /\ c.layers[j].name \in PartNames
                                  /\ c.thumbnail => c.layers[j].name # ThumbnailName
  BY <1>1, <1>3, <1>6, <1>8
<1>12. \A i, j \in DOMAIN c.streams :
         (c.streams[i].arrays # 0 /\ c.streams[j].arrays # 0 /\ c.streams[i].path.name = c.streams[j].path.name) => i = j
  <2> SUFFICES ASSUME NEW i \in DOMAIN streams, NEW j \in DOMAIN streams,
                      streams[i].arrays # 0, streams[j].arrays # 0, streams[i].path.name = streams[j].path.name
               PROVE  i = j
    BY <1>1
  <2>1. streams[i].path = streams[j].path
    BY <1>2, <1>5, <1>8
  <2> QED BY <1>4, <2>1
<1>13. \A i, j \in DOMAIN c.layers : c.layers[i].name = c.layers[j].name => i = j
  BY <1>1, <1>3, <1>8
<1>14. \A j \in DOMAIN c.streams, k \in DOMAIN atts :
         c.streams[j].arrays # 0 => c.streams[j].path.name # atts[k].name
  BY <1>1, <1>2, <1>5, <1>8
<1>15. \A j \in DOMAIN c.layers, k \in DOMAIN atts : c.layers[j].name # atts[k].name
  BY <1>1, <1>2, <1>3, <1>8
<1>16. \A i \in DOMAIN c.streams, j \in DOMAIN c.layers :
         c.streams[i].arrays # 0 => c.streams[i].path.name # c.layers[j].name
  BY <1>1, <1>2, <1>3, <1>5, <1>8
<1> QED BY <1>7, <1>9, <1>10, <1>11, <1>12, <1>13, <1>14, <1>15, <1>16, Zenon DEF Distinct, c, atts

(* LastOfItsName: a slice stack of the name that no other follows.         *)
LEMMA LastOfItsName ==
  ASSUME NEW own, IsList(own), NEW k \in DOMAIN own
  PROVE  \E m \in DOMAIN own : own[m].name = own[k].name /\ \A l \in DOMAIN own : m < l => own[l].name # own[k].name
<1> DEFINE n == Len(own)
           D == {d \in 0..n : \E l \in DOMAIN own : d = n - l /\ own[l].name = own[k].name}
<1>1. n \in Nat /\ DOMAIN own = 1..n
  BY ListFacts
<1> HIDE DEF n
<1>2. \A l \in DOMAIN own : own[l].name = own[k].name => n - l \in D
  BY <1>1
<1>3. D \subseteq Nat /\ D # {}
  BY <1>1, <1>2
<1>4. \A d \in D : \E l \in DOMAIN own : d = n - l /\ own[l].name = own[k].name
  OBVIOUS
<1> HIDE DEF D
<1>5. PICK d \in D : \A e \in D : d <= e
  BY <1>3, NatMin
<1>6. PICK m \in DOMAIN own : d = n - m /\ own[m].name = own[k].name
  BY <1>4
<1>7. ASSUME NEW l \in DOMAIN own, m < l, own[l].name = own[k].name PROVE FALSE
  <2>1. n - l \in D
    BY <1>2, <1>7
  <2>2. n - m <= n - l
    BY <1>5, <1>6, <2>1
  <2> QED BY <1>1, <1>7, <2>2
<1> QED BY <1>6, <1>7

(* SettledAttached: at the end of the loop every stack has its slices.     *)
LEMMA SettledAttached ==
  ASSUME NEW own, IsList(own), NEW atts, Settled(own, atts, Len(own) + 1),
         \A i, j \in DOMAIN own : own[i].name = own[j].name => own[i] = own[j],
         \A i \in DOMAIN atts : atts[i].type = "model" => \E k \in DOMAIN own : own[k].name = atts[i].name,
         \A i, j \in DOMAIN atts : atts[i].name = atts[j].name => i = j
  PROVE  StacksAttached(own, atts)
<1>1. Len(own) \in Nat /\ DOMAIN own = 1..Len(own)
  BY ListFacts
<1>2. ASSUME NEW k \in DOMAIN own
      PROVE  \E i \in DOMAIN atts : /\ atts[i].name = own[k].name /\ atts[i].type = "model"
                                    /\ atts[i].value = SlicesOf(own, own[k])
  <2>1. PICK m \in DOMAIN own : /\ own[m].name = own[k].name
                                /\ \A l \in DOMAIN own : m < l => own[l].name # own[k].name
    BY LastOfItsName
  <2>2. m < Len(own) + 1
    BY <1>1, <2>1
  <2>3. PICK i \in DOMAIN atts :
          /\ atts[i].name = own[m].name /\ atts[i].type = "model"
          /\ (\A l \in DOMAIN own : (m < l /\ l < Len(own) + 1) => own[l].name # own[m].name)
               => atts[i].value = SlicesOf(own, own[m])
    BY <2>1, <2>2, Zenon DEF Settled
  <2>4. own[m] = own[k]
    BY <2>1
  <2>5. \A l \in DOMAIN own : (m < l /\ l < Len(own) + 1) => own[l].name # own[m].name
    BY <2>1
  <2> QED BY <2>3, <2>4, <2>5, Zenon
<1> QED BY <1>2, Zenon DEF StacksAttached

-----------------------------------------------------------------------------
(* An export that completes.                                               *)

(* ThumbnailKept: there is a thumbnail or there is none.                   *)
LEMMA ThumbnailKept ==
  ASSUME thumbnail \in BOOLEAN, [Next]_vars
  PROVE  thumbnail' \in BOOLEAN
<1>1. CASE UNCHANGED vars
  BY <1>1 DEF vars, modelVars
<1>2. CASE ClientNext
  <2>1. thumbnail' = thumbnail \/ thumbnail' = TRUE
    BY <1>2 DEF ClientNext, AddAttachment, CreatePackageThumbnailAttachment, AddSliceStack, CreateBinaryStream,
                FinishLayer, SetOwnPath, SetContent, AssignBinaryStream, AddArray, modelVars
  <2> QED BY <2>1
<1>3. CASE ExportNext
  <2>1. Start \/ AbortBeforePackage \/ writeModelStream \/ writeModelStreamThrows => thumbnail' = thumbnail
    BY DEF Start, AbortBeforePackage, writeModelStream, writeModelStreamThrows, modelVars
  <2>2. WriteThumbnail \/ writeSliceStackStreamThrows \/ AddSlicerefAttachment \/ AddAttachmentPart
          \/ AddContentTypes => thumbnail' = thumbnail
    BY DEF WriteThumbnail, writeSliceStackStreamThrows, AddSlicerefAttachment, AddAttachmentPart, AddContentTypes, modelVars
  <2>3. WriteBinaryStream \/ WriteLayer => thumbnail' = thumbnail
    BY DEF WriteBinaryStream, WriteLayer, modelVars
  <2>4. EndLoop \/ Cleanup \/ Abort \/ CopyFails => thumbnail' = thumbnail
    BY DEF EndLoop, Cleanup, Abort, CopyFails, modelVars
  <2> QED BY <1>3, <2>1, <2>2, <2>3, <2>4, Zenon DEF ExportNext
<1>4. ASSUME NEW types, Read(types) PROVE thumbnail' \in BOOLEAN
  <2>1. thumbnail' = \E r \in archive.root : r.type = "thumbnail"
    BY <1>4, Zenon DEF Read
  <2> QED BY <2>1, Zenon
<1> QED BY <1>1, <1>2, <1>3, <1>4, Zenon DEF Next

(* MeshShown: the mesh is in the stream the root model names.              *)
LEMMA MeshShown ==
  ASSUME Lists, StreamsClose, MeshInRoot, pc = "layers", thumbnail \in BOOLEAN,
         NEW v, NEW n, Holds(Contents, m_Attachments, FrontPackage(thumbnail, v), n, package)
  PROVE  HasMesh(Contents, v)
<1> DEFINE f == FrontPackage(thumbnail, v)
           c == Contents
<1>1. 1 \in DOMAIN f.parts /\ f.parts[1] = RootPart(v)
  <2>1. f = FrontPackage(thumbnail, v)
    OBVIOUS
  <2> HIDE DEF f
  <2> QED BY <2>1, FrontIs
<1>2. Grows(f, package)
  BY Zenon DEF Holds
<1> HIDE DEF f
<1>3. package.parts[1] = RootPart(v)
  BY <1>1, <1>2, Zenon DEF Grows
<1>4. RootPart(v).value = v
  BY DEF RootPart
<1>5. pc \in Running
  BY DEF Running
<1>6. v = MeshValue
  BY <1>3, <1>4, <1>5, Zenon DEF MeshInRoot
<1>7. CASE assigned = 0
  <2>1. v = <<"root", "", 0>>
    BY <1>6, <1>7 DEF MeshValue, NoStream
  <2>2. v[3] = 0
    BY ONLY <2>1
  <2>3. ~(v[3] > 0)
    BY ONLY <2>2
  <2> QED BY <2>3, Zenon DEF HasMesh
<1>8. CASE assigned # 0
  <2>1. streams \in Seq(Streams) /\ assigned \in 0..Len(streams)
    BY Zenon DEF Lists
  <2>2. assigned \in DOMAIN streams /\ streams[assigned] \in Streams
    BY <1>8, <2>1
  <2>3. streams[assigned].arrays \in Nat
    BY <2>2 DEF Streams
  <2>4. streams[assigned].arrays > 0
    BY <1>8 DEF StreamsClose
  <2>5. v = <<"root", streams[assigned].path.name, streams[assigned].arrays>>
    BY <1>6, <1>8 DEF MeshValue
  <2>6. v[2] = streams[assigned].path.name /\ v[3] = streams[assigned].arrays
    BY <2>5
  <2>7. /\ assigned \in DOMAIN c.streams
        /\ c.streams[assigned].path = streams[assigned].path
        /\ c.streams[assigned].arrays = streams[assigned].arrays
    BY <2>2, ContentsFacts
  <2> HIDE DEF c
  <2>8. c.streams[assigned].arrays # 0 /\ v[2] = c.streams[assigned].path.name /\ c.streams[assigned].arrays >= v[3]
    BY <2>3, <2>4, <2>6, <2>7
  <2>9. HasMesh(c, v)
    BY <2>7, <2>8, Zenon DEF HasMesh
  <2> QED BY <2>9 DEF c
<1> QED BY <1>7, <1>8

(* LayersWritten: the layers that are written are those of the writer.     *)
LEMMA LayersWritten ==
  ASSUME Lists
  PROVE  ToSet(Contents.layers) = m_AdditionalAttachments
<1>1. Contents.layers = Layers
  BY ContentsFacts
<1>2. /\ \A j \in DOMAIN Layers : Layers[j] \in m_AdditionalAttachments
      /\ \A l \in m_AdditionalAttachments : \E j \in DOMAIN Layers : Layers[j] = l
  BY LayersInOrder
<1> QED BY <1>1, <1>2 DEF ToSet

(* CompletedNow: what a completed export of a client with clean names      *)
(* wrote is read again.                                                    *)
LEMMA CompletedNow ==
  ASSUME IsPackage(package), Lists, Progress, StreamsClose, NamesKnown, MeshInRoot, thumbnail \in BOOLEAN,
         pc = "layers", next = Len(Layers) + 1, StacksClean, OthersClean
  PROVE  /\ Readable(package, {"custom", "toolpath"})
         /\ ReadAttachments(package, ClientTypes \cup {"toolpath"})
              = {a \in ToSet(m_Attachments) : a.type # "model"}
                  \cup {[name |-> l.name, type |-> "toolpath", value |-> <<"layer", l>>] :
                          l \in m_AdditionalAttachments}
         /\ Len(ReadStacks(package)) = Len(m_sOwnPath)
         /\ \A j \in DOMAIN streams :
              streams[j].arrays > 0 => Entry(package, streams[j].path.name).value = <<"binary", streams[j].arrays>>
<1> DEFINE c == Contents
           atts == m_Attachments
           own == m_sOwnPath
           p == package
           n == Steps(c, atts) + 1
<1>1. Place = n /\ n \in Nat /\ n > Len(atts) + 1 /\ n \in 1..n
  <2>1. /\ Len(atts) \in Nat /\ Len(streams) \in Nat /\ Len(Layers) \in Nat
        /\ Steps(c, atts) = Len(atts) + Len(streams) + Len(Layers) + 2
        /\ Place = Len(atts) + Len(streams) + 2 + next
    BY PlaceIs
  <2> HIDE DEF c, atts
  <2> QED BY <2>1
<1>2. /\ c.thumbnail = thumbnail /\ DOMAIN c.streams = DOMAIN streams /\ Ordered(c, atts)
      /\ \A j \in DOMAIN streams : c.streams[j].path = streams[j].path /\ c.streams[j].arrays = streams[j].arrays
  BY ContentsFacts
<1>3. PICK v : Holds(c, atts, FrontPackage(thumbnail, v), n, p)
  <2>1. Place \in 1..(Steps(c, atts) + 1)
    BY <1>1, Zenon
  <2>2. \E v : Holds(c, atts, FrontPackage(thumbnail, v), Place, p)
    BY <2>1, HoldsNow
  <2> QED BY <1>1, <2>2, Zenon
<1>4. Distinct(c, atts) /\ KnownType(atts)
  BY CleanDistinct DEF NamesKnown
<1>5. HasMesh(c, v)
  BY <1>3, MeshShown
<1>6. /\ IsList(own) /\ Settled(own, atts, Len(own) + 1)
      /\ \A k \in DOMAIN atts : IsAttachment(atts[k])
      /\ \A i, j \in DOMAIN atts : atts[i].name = atts[j].name => i = j
  BY Zenon DEF Lists, AttachmentList, Progress
<1>7. StacksAttached(own, atts)
  <2>1. \A i, j \in DOMAIN own : own[i].name = own[j].name => own[i] = own[j]
    BY Zenon DEF StacksClean
  <2>2. \A i \in DOMAIN atts : atts[i].type = "model" => \E k \in DOMAIN own : own[k].name = atts[i].name
    BY InLists, Zenon DEF StacksClean
  <2> HIDE DEF own, atts
  <2> QED BY <1>6, <2>1, <2>2, SettledAttached
<1>8. ToSet(c.layers) = m_AdditionalAttachments
  BY LayersWritten
<1>9. c.thumbnail \in BOOLEAN /\ IsPackage(p)
  BY <1>2
<1> HIDE DEF c, atts, own, p
<1>10. /\ Holds(c, atts, FrontPackage(c.thumbnail, v), Steps(c, atts) + 1, p)
       /\ n = Steps(c, atts) + 1
  BY <1>2, <1>3
<1> HIDE DEF n
<1>11. Shows(c, atts, p)
  BY <1>2, <1>4, <1>9, <1>10, PackageShows
<1>12. /\ RootName \in Names(p) /\ Entry(p, RootName) = RootPart(v)
       /\ c.thumbnail => ThumbnailName \in Names(p)
  BY <1>4, <1>9, <1>10, EntryOf
<1>13. p.types /\ p.root = FrontPackage(c.thumbnail, v).root
  BY <1>1, <1>10, Zenon DEF Holds
<1>14. HasSlices(atts)
  BY <1>7, SlicesAttached, Zenon DEF HasSlices
<1>15. /\ Readable(p, {"custom", "toolpath"})
       /\ \A j \in DOMAIN c.streams :
            c.streams[j].arrays # 0 => Entry(p, c.streams[j].path.name).value = <<"binary", c.streams[j].arrays>>
  BY <1>4, <1>5, <1>9, <1>11, <1>12, <1>13, <1>14, ShownIsReadable
<1>16. ReadAttachments(p, ClientTypes \cup {"toolpath"})
         = {a \in ToSet(atts) : a.type # "model"}
             \cup {[name |-> l.name, type |-> "toolpath", value |-> <<"layer", l>>] : l \in ToSet(c.layers)}
  BY <1>4, <1>6, <1>11, ShownAttachments
<1>17. Len(ReadStacks(p)) = Len(own)
  BY <1>4, <1>6, <1>7, <1>9, <1>11, ShownStacks
<1>18. ASSUME NEW j \in DOMAIN streams, streams[j].arrays > 0
       PROVE  Entry(p, streams[j].path.name).value = <<"binary", streams[j].arrays>>
  <2>1. c.streams[j].path = streams[j].path /\ c.streams[j].arrays = streams[j].arrays /\ j \in DOMAIN c.streams
    BY <1>2
  <2>2. streams[j].arrays # 0
    BY <1>18
  <2> QED BY <1>15, <2>1, <2>2, Zenon
<1> QED BY <1>8, <1>15, <1>16, <1>17, <1>18 DEF atts, own, p

(* CompletedIsRead: so it is when the export has ended.                    *)
LEMMA CompletedIsRead ==
  ASSUME IsPackage(package), Lists, Progress, StreamsClose, NamesKnown, MeshInRoot, thumbnail \in BOOLEAN,
         pc = "layers", next = Len(Layers) + 1, Leave(package, "cleanup", "complete")
  PROVE  CompletedExportReadsBack'
<1>1. /\ archive' = package /\ outcome' = "complete"
      /\ source'.attachments = ToSet(m_Attachments) /\ source'.stacks = m_sOwnPath
      /\ source'.streams = ToSet(streams) /\ source'.layers = m_AdditionalAttachments
  BY LeaveSource
<1>2. outcome' # "failed"
  BY <1>1
<1>3. ASSUME NamesAreClean'
      PROVE  /\ Readable(package, {"custom", "toolpath"})
             /\ ReadAttachments(package, ClientTypes \cup {"toolpath"})
                  = {a \in ToSet(m_Attachments) : a.type # "model"}
                      \cup {[name |-> l.name, type |-> "toolpath", value |-> <<"layer", l>>] :
                              l \in m_AdditionalAttachments}
             /\ Len(ReadStacks(package)) = Len(m_sOwnPath)
             /\ \A s \in ToSet(streams) :
                  s.arrays > 0 => Entry(package, s.path.name).value = <<"binary", s.arrays>>
  <2>1. StacksClean /\ OthersClean
    BY <1>3, CleanNow
  <2>2. \A s \in ToSet(streams) : \E j \in DOMAIN streams : streams[j] = s
    BY DEF ToSet
  <2>3. \A j \in DOMAIN streams :
          streams[j].arrays > 0 => Entry(package, streams[j].path.name).value = <<"binary", streams[j].arrays>>
    BY <2>1, CompletedNow
  <2>4. \A s \in ToSet(streams) : s.arrays > 0 => Entry(package, s.path.name).value = <<"binary", s.arrays>>
    BY <2>2, <2>3, Zenon
  <2> QED BY <2>1, <2>4, CompletedNow
<1>4. NamesAreClean' =>
        /\ Readable(archive', {"custom", "toolpath"})
        /\ ReadAttachments(archive', ClientTypes \cup {"toolpath"})
             = {a \in source'.attachments : a.type # "model"}
                 \cup {[name |-> l.name, type |-> "toolpath", value |-> <<"layer", l>>] : l \in source'.layers}
        /\ Len(ReadStacks(archive')) = Len(source'.stacks)
        /\ \A s \in source'.streams : s.arrays > 0 => Entry(archive', s.path.name).value = <<"binary", s.arrays>>
  BY <1>1, <1>3
<1> QED BY <1>2, <1>4, Zenon DEF CompletedExportReadsBack

(* BackKept: every step.                                                   *)
LEMMA BackKept ==
  ASSUME PackageInv, RepeatInv, NamesKnown, MeshInRoot, thumbnail \in BOOLEAN, CompletedExportReadsBack, [Next]_vars
  PROVE  CompletedExportReadsBack'
<1>1. IsPackage(package) /\ Lists /\ Progress /\ StreamsClose
  BY Zenon DEF PackageInv, ExportInv, RepeatInv
<1>2. CASE UNCHANGED vars
  BY <1>2, BackStays DEF vars, exportVars
<1>3. CASE ClientNext
  <2>1. outcome' = "none"
    BY <1>3 DEF ClientNext, ClientStep, AddAttachment, CreatePackageThumbnailAttachment, AddSliceStack,
                CreateBinaryStream, FinishLayer, SetOwnPath, SetContent, AssignBinaryStream, AddArray
  <2> QED BY <2>1, BackSaysNothing
<1>4. ASSUME NEW types, Read(types) PROVE CompletedExportReadsBack'
  <2>1. outcome' = "none"
    BY <1>4, Zenon DEF Read
  <2> QED BY <2>1, BackSaysNothing
<1>5. CASE ExportNext
  <2>1. CASE Start \/ writeModelStream \/ WriteThumbnail \/ AddContentTypes \/ Cleanup
    <3>1. UNCHANGED <<archive, source, outcome>>
      BY <2>1 DEF Start, writeModelStream, WriteThumbnail, AddContentTypes, Cleanup, Goto
    <3> QED BY <3>1, BackStays
  <2>2. CASE AbortBeforePackage
    <3>1. outcome' = "aborted"
      BY <2>2, Zenon DEF AbortBeforePackage
    <3> QED BY <3>1, BackSaysNothing
  <2>3. CASE writeModelStreamThrows
    BY <1>1, <2>3, ThrowBack
  <2>4. CASE AddSlicerefAttachment
    BY <2>4, SlicesBack
  <2>5. CASE AddAttachmentPart
    BY <1>1, <2>5, AttachmentBack
  <2>6. CASE WriteBinaryStream
    BY <1>1, <2>6, StreamBack
  <2>7. CASE WriteLayer
    BY <1>1, <2>7, LayerBack
  <2>8. CASE EndLoop
    <3>1. \/ Goto("attachments", 1)
          \/ Goto("layers", 1)
          \/ pc = "layers" /\ next = Len(Layers) + 1 /\ Leave(package, "cleanup", "complete")
      BY <2>8, Zenon DEF EndLoop
    <3>2. CASE Goto("attachments", 1) \/ Goto("layers", 1)
      BY <3>2, BackStays DEF Goto
    <3>3. CASE pc = "layers" /\ next = Len(Layers) + 1 /\ Leave(package, "cleanup", "complete")
      BY <1>1, <3>3, CompletedIsRead
    <3> QED BY <3>1, <3>2, <3>3
  <2>9. CASE Abort
    <3>1. outcome' = "aborted"
      BY <2>9 DEF Abort, Leave
    <3> QED BY <3>1, BackSaysNothing
  <2>10. CASE CopyFails
    <3>1. outcome' = "broken"
      BY <2>10 DEF CopyFails, Leave
    <3> QED BY <3>1, BackSaysNothing
  <2>11. CASE writeSliceStackStreamThrows
    BY <2>11, SlicesThrowBack
  <2> QED BY <1>5, <2>1, <2>2, <2>3, <2>4, <2>5, <2>6, <2>7, <2>8, <2>9, <2>10, <2>11, Zenon DEF ExportNext
<1> QED BY <1>2, <1>3, <1>4, <1>5, Zenon DEF Next

(* BackStarts: no export has ended at first.                               *)
LEMMA BackStarts ==
  ASSUME Init
  PROVE  CompletedExportReadsBack /\ thumbnail \in BOOLEAN
BY DEF Init, CompletedExportReadsBack

(* What a completed export of a client with clean names wrote is read      *)
(* again, with the attachments, the layers, the binary streams and as many *)
(* slice stacks as were written, and an export that throws has one of the  *)
(* four reasons.                                                           *)
THEOREM CompletedExportsCorrect == Spec => []CompletedExportReadsBack
<1>1. PackageInv /\ [Next]_vars => PackageInv'
  BY NextKeeps
<1>2. PackageInv /\ RepeatInv /\ [Next]_vars => RepeatInv'
  BY RepeatKeeps
<1> DEFINE HasThumbnailOrNot == thumbnail \in BOOLEAN
           Back == CompletedExportReadsBack
<1>3. PackageInv /\ RepeatInv /\ NamesKnown /\ MeshInRoot /\ [Next]_vars => NamesKnown' /\ MeshInRoot'
  BY NamesKept, Zenon DEF RepeatInv
<1>4. HasThumbnailOrNot /\ [Next]_vars => HasThumbnailOrNot'
  BY ThumbnailKept
<1>5. PackageInv /\ RepeatInv /\ NamesKnown /\ MeshInRoot /\ HasThumbnailOrNot /\ Back /\ [Next]_vars => Back'
  BY BackKept
<1>6. Init => Back /\ HasThumbnailOrNot
  BY BackStarts
<1> HIDE DEF HasThumbnailOrNot
<1> QED BY <1>1, <1>2, <1>3, <1>4, <1>5, <1>6, InitIsWhole, RepeatStarts, NamesStart, PTL DEF Spec
=============================================================================
