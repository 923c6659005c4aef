----------------------------- MODULE Attachments -----------------------------
(***************************************************************************)
(* The attachments of a model: the parts of the package that are neither   *)
(* the root model nor read as one.  CModel lists them and maps their paths *)
(* to them; textures hold the attachment object they were created from.    *)
(* A client's handle is an attachment object, of the model or removed from *)
(* it: operations by handle look up the path the object has.               *)
(*                                                                         *)
(* A path is a name with or without a leading delimiter.  The contents of  *)
(* the streams are left out.                                               *)
(***************************************************************************)
EXTENDS Integers, Sequences, FiniteSets, SequencesExt

CONSTANTS
  PartNames,           \* the paths, without leading delimiters
  ThumbnailName,   \* the path of the package thumbnail
  MaxAttachments,  \* bound: attachment objects over the model's life
  MaxTextures      \* bound: textures of the model

ASSUME AttachmentsAssumption ==
  /\ ThumbnailName \notin PartNames
  /\ {MaxAttachments, MaxTextures} \subseteq Nat \ {0}

VARIABLES
  attachment,          \* the attachment objects: their path and relationship type
  m_Attachments,       \* the model's list
  m_AttachmentURIMap,  \* name -> attachment object
  m_pPackageThumbnailAttachment,  \* attachment object, 0 is none
  m_pAttachment,       \* texture -> the attachment object it holds
  call                 \* history: the attachment the last call was made for, 0 is none

attachmentVars == <<attachment, m_Attachments, m_AttachmentURIMap, m_pPackageThumbnailAttachment,
          m_pAttachment, call>>

Types == {"texture", "model"}
Paths == [leading : BOOLEAN, name : PartNames]
NoPath == [leading |-> FALSE, name |-> ThumbnailName]

(* fnRemoveLeadingPathDelimiter.                                           *)
fnRemoveLeadingPathDelimiter(path) == [path EXCEPT !.leading = FALSE]

Key(path) == fnRemoveLeadingPathDelimiter(path).name
Known(path) == Key(path) \in DOMAIN m_AttachmentURIMap
Handles == DOMAIN attachment
Listed(a) == a \in Range(m_Attachments)
NewObject == Len(attachment) + 1

Construct(path, type) ==
  /\ Len(attachment) < MaxAttachments
  /\ attachment' = Append(attachment, [path |-> path, type |-> type])

(* What addAttachment and removeAttachment make of a list and a map.       *)
Inserted(map, path, a) ==
  [n \in DOMAIN map \cup {Key(path)} |-> IF n = Key(path) THEN a ELSE map[n]]
Erased(map, path) == [n \in DOMAIN map \ {Key(path)} |-> map[n]]

\* Mutant of Unlisted: the list keeps the attachment.
StillListed(list, map, path) == list

Unlisted(list, map, path) ==
  IF Key(path) \in DOMAIN map THEN RemoveFirst(list, map[Key(path)]) ELSE list

(* AddAttachment of the API, and of the reader for a related part.         *)
addAttachment(path, type) ==
  /\ ~Known(path)
  /\ Construct(fnRemoveLeadingPathDelimiter(path), type)
  /\ m_Attachments' = Append(m_Attachments, NewObject)
  /\ m_AttachmentURIMap' = Inserted(m_AttachmentURIMap, path, NewObject)
  /\ call' = 0
  /\ UNCHANGED <<m_pPackageThumbnailAttachment, m_pAttachment>>

(* RemoveAttachment of the API.                                            *)
RemoveAttachment(a) ==
  /\ m_Attachments' = Unlisted(m_Attachments, m_AttachmentURIMap, attachment[a].path)
  /\ m_AttachmentURIMap' = Erased(m_AttachmentURIMap, attachment[a].path)
  /\ call' = a
  /\ UNCHANGED <<attachment, m_pPackageThumbnailAttachment, m_pAttachment>>

\* Mutant of SetPath: an attachment at the new path is replaced.
SetPathReplaces(a, path) ==
  LET list == Unlisted(Unlisted(m_Attachments, m_AttachmentURIMap, attachment[a].path),
                       m_AttachmentURIMap, path)
      map  == Erased(Erased(m_AttachmentURIMap, attachment[a].path), path)
  IN  /\ a # m_pPackageThumbnailAttachment
      /\ Construct(fnRemoveLeadingPathDelimiter(path), attachment[a].type)
      /\ m_Attachments' = Append(list, NewObject)
      /\ m_AttachmentURIMap' = Inserted(map, path, NewObject)
      /\ call' = a
      /\ UNCHANGED <<m_pPackageThumbnailAttachment, m_pAttachment>>

(* SetPath of the API: the attachment is removed by its path, and another  *)
(* is added, which the handle has from then on.                            *)
SetPath(a, path) ==
  LET list == Unlisted(m_Attachments, m_AttachmentURIMap, attachment[a].path)
      map  == Erased(m_AttachmentURIMap, attachment[a].path)
  IN  /\ a # m_pPackageThumbnailAttachment
      /\ Key(path) \notin DOMAIN map
      /\ Construct(fnRemoveLeadingPathDelimiter(path), attachment[a].type)
      /\ m_Attachments' = Append(list, NewObject)
      /\ m_AttachmentURIMap' = Inserted(map, path, NewObject)
      /\ call' = a
      /\ UNCHANGED <<m_pPackageThumbnailAttachment, m_pAttachment>>

(* The new path is taken: addAttachment throws, after the removal.         *)
SetPathThrows(a, path) ==
  LET map == Erased(m_AttachmentURIMap, attachment[a].path)
  IN  /\ a # m_pPackageThumbnailAttachment
      /\ Key(path) \in DOMAIN map
      /\ m_Attachments' = Unlisted(m_Attachments, m_AttachmentURIMap, attachment[a].path)
      /\ m_AttachmentURIMap' = map
      /\ call' = a
      /\ UNCHANGED <<attachment, m_pPackageThumbnailAttachment, m_pAttachment>>

(* SetPath of the package thumbnail, which has no entry in list and map.   *)
SetThumbnailPath(path) ==
  /\ m_pPackageThumbnailAttachment # 0
  /\ Construct(path, "model")
  /\ m_pPackageThumbnailAttachment' = NewObject
  /\ call' = 0
  /\ UNCHANGED <<m_Attachments, m_AttachmentURIMap, m_pAttachment>>

(* CreatePackageThumbnailAttachment, RemovePackageThumbnailAttachment.     *)
addPackageThumbnail ==
  /\ m_pPackageThumbnailAttachment = 0
  /\ Construct(NoPath, "model")
  /\ m_pPackageThumbnailAttachment' = NewObject
  /\ call' = 0
  /\ UNCHANGED <<m_Attachments, m_AttachmentURIMap, m_pAttachment>>

removePackageThumbnail ==
  /\ m_pPackageThumbnailAttachment' = 0
  /\ call' = 0
  /\ UNCHANGED <<attachment, m_Attachments, m_AttachmentURIMap, m_pAttachment>>

SetRelationShipType(a, type) ==
  /\ attachment' = [attachment EXCEPT ![a].type = type]
  /\ call' = a
  /\ UNCHANGED <<m_Attachments, m_AttachmentURIMap, m_pPackageThumbnailAttachment,
                 m_pAttachment>>

(* findModelAttachment for the path of a handle's object.                  *)
Found(a) == m_AttachmentURIMap[Key(attachment[a].path)]

(* AddTexture2DFromAttachment, and a texture of a file.                    *)
AddTexture(a) ==
  /\ Len(m_pAttachment) < MaxTextures
  /\ Known(attachment[a].path)
  /\ attachment[Found(a)].type = "texture"
  /\ m_pAttachment' = Append(m_pAttachment, Found(a))
  /\ call' = 0
  /\ UNCHANGED <<attachment, m_Attachments, m_AttachmentURIMap,
                 m_pPackageThumbnailAttachment>>

(* SetAttachment of a texture, for an attachment there is: the lookup's    *)
(* answer is used unchecked.                                               *)
SetAttachment(t, a) ==
  /\ Known(attachment[a].path)
  /\ attachment[Found(a)].type = "texture"
  /\ m_pAttachment' = [m_pAttachment EXCEPT ![t] = Found(a)]
  /\ call' = 0
  /\ UNCHANGED <<attachment, m_Attachments, m_AttachmentURIMap,
                 m_pPackageThumbnailAttachment>>

(* addSlicerefAttachments, for a slice stack kept in a part of its own and *)
(* not yet attached; an attached one gets a new stream.                    *)
WriteSliceStack(path) == addAttachment(path, "model")

(* clearAll: the textures and the thumbnail go, the attachments stay.      *)
clearAllAttachments ==
  /\ m_pPackageThumbnailAttachment' = 0
  /\ m_pAttachment' = << >>
  /\ call' = 0
  /\ UNCHANGED <<attachment, m_Attachments, m_AttachmentURIMap>>

AttachmentsInit ==
  /\ attachment = << >> /\ m_Attachments = << >>
  /\ m_AttachmentURIMap = [n \in {} |-> 0]
  /\ m_pPackageThumbnailAttachment = 0
  /\ m_pAttachment = << >>
  /\ call = 0

AttachmentsNext ==
  \/ \E path \in Paths, type \in Types : addAttachment(path, type)
  \/ \E a \in Handles : RemoveAttachment(a)
  \/ \E a \in Handles, path \in Paths : SetPath(a, path)
  \/ \E a \in Handles, path \in Paths : SetPathThrows(a, path)
  \/ \E path \in Paths : SetThumbnailPath(path)
  \/ addPackageThumbnail
  \/ removePackageThumbnail
  \/ \E a \in Handles, type \in Types : SetRelationShipType(a, type)
  \/ \E a \in Handles : AddTexture(a)
  \/ \E t \in DOMAIN m_pAttachment, a \in Handles : SetAttachment(t, a)
  \/ \E path \in Paths : WriteSliceStack(path)
  \/ clearAllAttachments

AttachmentsSpec == AttachmentsInit /\ [][AttachmentsNext]_attachmentVars

(* ------------------------------------------------------------------------ *)
(* Properties.                                                              *)

(* MapAndListAgree: whatever was added, renamed to a free or a taken path, and
   removed through handles that may be stale, the list and the map of paths
   hold the same attachments, each once and under the path it has.         *)
MapAndListAgree ==
  /\ Range(m_Attachments) = Range(m_AttachmentURIMap)
  /\ Len(m_Attachments) = Cardinality(DOMAIN m_AttachmentURIMap)
  /\ \A n \in DOMAIN m_AttachmentURIMap :
       attachment[m_AttachmentURIMap[n]].path = [leading |-> FALSE, name |-> n]

(* OthersStayAttached: a call made through the handle of an attachment of the
   model takes no other attachment out of the model, a SetPath to a path that
   is taken included; and a texture is only ever given an attachment that the
   model has at that moment, also when the handle the client passes is one of
   an attachment that was renamed or replaced since.                       *)
OthersStayAttached ==
  [][/\ \A a \in Range(m_Attachments) :
          a \in Range(m_Attachments') \/ a = call' \/ (call' # 0 /\ ~Listed(call'))
     /\ \A t \in DOMAIN m_pAttachment' :
          \/ t \in DOMAIN m_pAttachment /\ m_pAttachment'[t] = m_pAttachment[t]
          \/ Listed(m_pAttachment'[t])]_attachmentVars
=============================================================================
