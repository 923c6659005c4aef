------------------------------- MODULE Package -------------------------------
(***************************************************************************)
(* A package that an export left, read again: CModelReader_3MF_Native over *)
(* COpcPackageReader.  The package may come from a completed export or     *)
(* from one that was aborted or failed.  It is read into a new model (what *)
(* a used model keeps is the subject of ResourceModel), which replaces the *)
(* one that was written.                                                   *)
(***************************************************************************)
EXTENDS PackageExport

Names(p) == {p.parts[i].name : i \in DOMAIN p.parts}

(* m_ZIPEntries.insert keeps the first entry of a name.                    *)
Entry(p, name) ==
  p.parts[CHOOSE i \in DOMAIN p.parts :
            /\ p.parts[i].name = name
            /\ \A j \in 1..i - 1 : p.parts[j].name # name]

TargetsOf(p, types) == {r.target : r \in {q \in p.rels : q.type \in types}}

DistinctIDs(rels) == \A r, s \in rels : r.id = s.id => r = s

(* The constructor of COpcPackageReader, findRootRelation and createPart:  *)
(* content types, root relationships and the part of the root model.       *)
OpensPackage(p) ==
  /\ p.types
  /\ p.root # {} /\ DistinctIDs(p.root)
  /\ \E r \in p.root : r.type = "model" /\ r.target \in Names(p)
  /\ DistinctIDs(p.rels)

(* What is not read throws: a part that is missing, an attachment whose    *)
(* path is taken, a model part or a binary stream that ends too early.     *)
extractTexturesFromRelationships(p) == TargetsOf(p, {"texture"}) \subseteq Names(p)
extractCustomDataFromRelationships(p, m_RelationsToRead) ==
  /\ TargetsOf(p, m_RelationsToRead) \subseteq Names(p)
  /\ \A r, s \in p.rels :
       (r.type \in m_RelationsToRead /\ s.type \in m_RelationsToRead \cup {"texture"} /\ r.target = s.target)
         => r = s
extractModelDataFromRelationships(p) ==
  \A name \in TargetsOf(p, {"model"}) : name \in Names(p) /\ Entry(p, name).whole
                                         /\ Entry(p, name).value[1] = "slices"
extractBinaryStreamsFromRelationships(p) ==
  \A name \in TargetsOf(p, {"binary"}) : name \in Names(p) /\ Entry(p, name).whole
                                          /\ Entry(p, name).value[1] = "binary"
extractThumbnail(p) ==
  \A r \in p.root : r.type = "thumbnail" => r.target \in Names(p)

(* The root model is whole, and its mesh is in the stream it names.        *)
readStream(p) ==
  LET root == Entry(p, RootName)
  IN  /\ root.whole
      /\ root.value[3] > 0 =>
           /\ root.value[2] \in TargetsOf(p, {"binary"})
           /\ Entry(p, root.value[2]).value[2] >= root.value[3]

Readable(p, m_RelationsToRead) ==
  /\ OpensPackage(p)
  /\ extractTexturesFromRelationships(p)
  /\ extractCustomDataFromRelationships(p, m_RelationsToRead)
  /\ extractModelDataFromRelationships(p)
  /\ extractBinaryStreamsFromRelationships(p)
  /\ extractThumbnail(p)
  /\ readStream(p)

(* The attachments of the new model: textures, then what was asked for.    *)
ReadAttachments(p, types) ==
  {[name |-> r.target, type |-> r.type, value |-> Entry(p, r.target).value] :
     r \in {q \in p.rels : q.type \in types}}

(* The slice stacks of the other parts, with the path of their part.       *)
ReadStacks(p) ==
  LET names == SetToSeq(TargetsOf(p, {"model"}))
  IN  FlattenSeq([i \in DOMAIN names |->
                    [k \in 1..Entry(p, names[i]).value[2] |-> [leading |-> TRUE, name |-> names[i]]]])

(* ReadFromFile into a new model, which gets a new writer.                 *)
Read(m_RelationsToRead) ==
  /\ pc = "idle" /\ outcome # "none"
  /\ Readable(archive, m_RelationsToRead)
  /\ m_Attachments' = SetToSeq(ReadAttachments(archive, {"texture"}))
                        \o SetToSeq(ReadAttachments(archive, m_RelationsToRead))
  /\ thumbnail' = \E r \in archive.root : r.type = "thumbnail"
  /\ m_sOwnPath' = ReadStacks(archive) /\ refused' = {}
  /\ streams' = << >> /\ assigned' = 0 /\ m_AdditionalAttachments' = {}
  /\ m_nRelationIDCounter' = 0
  /\ archive' = NoPackage /\ source' = NoSource /\ outcome' = "none" /\ stable' = FALSE
  /\ UNCHANGED <<pc, next, package, exports, failures>>

Next ==
  \/ ClientNext
  \/ ExportNext
  \/ \E m_RelationsToRead \in SUBSET {"custom", "toolpath"} : Read(m_RelationsToRead)

Spec == Init /\ [][Next]_vars

-----------------------------------------------------------------------------
(* Properties.                                                             *)

(* A package the reader opens, from an aborted or a failed export too, has *)
(* the whole root model, and the thumbnail and the attachments of the      *)
(* model it was written from, each with its relationship: content types    *)
(* are added after all of them, and without them no reader opens it.  In   *)
(* every package each relationship leads to a part, and the ones with a    *)
(* generated ID lead to a part that was copied to its end.                 *)
AcceptedPackagesAreWhole ==
  /\ OpensPackage(archive) =>
       /\ Entry(archive, RootName).whole
       /\ source.thumbnail => \E r \in archive.root : r.type = "thumbnail" /\ r.target \in Names(archive)
       /\ \A a \in source.attachments :
            /\ \E r \in archive.rels : r.type = a.type /\ r.target = a.name
            /\ [name |-> a.name, value |-> a.value, whole |-> TRUE] \in ToSet(archive.parts)
  /\ \A r \in archive.root \cup archive.rels :
       /\ r.target \in Names(archive)
       /\ r.id[1] = "rel" => \E i \in DOMAIN archive.parts :
                                archive.parts[i].name = r.target /\ archive.parts[i].whole

(* A client that gives every part a name of its own, spelled the same      *)
(* wherever it is used, and no stack a new path after an export.           *)
NamesAreClean ==
  LET stackNames == {source.stacks[i].name : i \in DOMAIN source.stacks}
      others == {[a |-> "stream", path |-> s.path] : s \in {t \in source.streams : t.arrays > 0}}
                  \cup {[a |-> "layer", path |-> l] : l \in source.layers}
  IN  /\ \A i, j \in DOMAIN source.stacks :
           source.stacks[i].name = source.stacks[j].name => source.stacks[i] = source.stacks[j]
      /\ \A a \in source.attachments : a.type = "model" => a.name \in stackNames
      /\ \A o, q \in others : o.path.name = q.path.name => o = q
      /\ \A o \in others, a \in source.attachments : o.path.name # a.name
      /\ source.thumbnail => /\ \A a \in source.attachments : a.name # ThumbnailName
                             /\ \A o \in others : o.path.name # ThumbnailName

(* What a completed export of such a client wrote is read again: with      *)
(* every relationship type asked for, the attachments, the layers and the  *)
(* number of slice stacks are those of the model and the writer.  And an   *)
(* export that throws without a failing callback or stream has one of      *)
(* four reasons: something in the model is refused by its writer (see      *)
(* SetContent), its mesh goes to a binary stream an earlier export         *)
(* finished, the path of slices is an attachment of another type, or two   *)
(* binary streams, or two layers, or a layer read as an attachment and a   *)
(* new one, differ in the leading delimiter only.                          *)
CompletedExportReadsBack ==
  /\ (outcome = "complete" /\ NamesAreClean) =>
       /\ Readable(archive, {"custom", "toolpath"})
       /\ ReadAttachments(archive, ClientTypes \cup {"toolpath"})
            = {a \in source.attachments : a.type # "model"}
                \cup {[name |-> l.name, type |-> "toolpath", value |-> <<"layer", l>>] : l \in source.layers}
       /\ Len(ReadStacks(archive)) = Len(source.stacks)
       /\ \A s \in source.streams : s.arrays > 0 => Entry(archive, s.path.name).value = <<"binary", s.arrays>>
  /\ outcome = "failed" =>
       \/ source.refused # {}
       \/ \E s \in source.streams : s.finished
       \/ \E a \in source.attachments, i \in DOMAIN source.stacks :
            a.name = source.stacks[i].name /\ a.type # "model"
       \/ \E s, t \in source.streams : s.path # t.path /\ s.path.name = t.path.name
       \/ \E l \in source.layers : \/ \E k \in source.layers : k # l /\ k.name = l.name
                                   \/ \E a \in source.attachments : a.type = "toolpath" /\ a.name = l.name

(* Exporting again what nobody changed since the last export completed     *)
(* writes the same package, if it completes (up to the UUIDs in the IDs of *)
(* layers): the slice attachments the first export put into the model are  *)
(* found and replaced, not repeated; and no export changes an attachment a *)
(* client made, whatever path its slice stacks have.                       *)
RepeatedExportIsTheSame ==
  [][/\ (stable /\ pc = "layers" /\ pc' = "cleanup") => archive' = archive
     /\ pc # "idle" => \A i \in DOMAIN m_Attachments :
          m_Attachments[i].type # "model" => m_Attachments'[i] = m_Attachments[i]]_vars
=============================================================================
