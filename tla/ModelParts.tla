----------------------------- MODULE ModelParts -----------------------------
(***************************************************************************)
(* The parts of a CModel that share no state with each other: its metadata *)
(* groups, its UUIDs, its attachments, the hierarchy of its objects, its   *)
(* slice stacks, its meshes (their information, and their geometry) and    *)
(* its toolpath layers.  No operation reads one part and changes another   *)
(* (clearAll clears each by itself), and every property below is about one *)
(* part, so that a behaviour of the model violates it exactly if the steps *)
(* of that part alone do.  A behaviour here therefore moves one part, and  *)
(* leaves the others in their initial state.  (A call such as AddTriangle  *)
(* changes both the information and the geometry of a mesh: each module    *)
(* has the half of it that its properties are about.)                      *)
(***************************************************************************)
EXTENDS MetaDataGroup, UUIDRegistry, Attachments, ObjectOrder, SliceStack, Meshes,
        MeshGeometry, ToolpathLayers

VARIABLE part  \* the part that moves

partVars == <<part, metaDataVars, uuidVars, attachmentVars, objectOrderVars, sliceStackVars,
              meshVars, geometryVars, toolpathVars>>

Parts == {"metadata", "uuids", "attachments", "objects", "slices", "meshes",
          "geometry", "toolpaths"}

Init ==
  /\ part \in Parts
  /\ MetaDataInit /\ UUIDInit /\ AttachmentsInit /\ ObjectOrderInit /\ SliceStackInit
  /\ MeshesInit /\ GeometryInit /\ ToolpathInit
  /\ part # "slices" => \A s \in Stacks : m_dZBottom[s] = 0

Next ==
  /\ UNCHANGED part
  /\ \/ /\ part = "metadata" /\ MetaDataNext
        /\ UNCHANGED <<uuidVars, attachmentVars, objectOrderVars, sliceStackVars,
                       meshVars, geometryVars, toolpathVars>>
     \/ /\ part = "uuids" /\ UUIDNext
        /\ UNCHANGED <<metaDataVars, attachmentVars, objectOrderVars, sliceStackVars,
                       meshVars, geometryVars, toolpathVars>>
     \/ /\ part = "attachments" /\ AttachmentsNext
        /\ UNCHANGED <<metaDataVars, uuidVars, objectOrderVars, sliceStackVars,
                       meshVars, geometryVars, toolpathVars>>
     \/ /\ part = "objects" /\ ObjectOrderNext
        /\ UNCHANGED <<metaDataVars, uuidVars, attachmentVars, sliceStackVars,
                       meshVars, geometryVars, toolpathVars>>
     \/ /\ part = "slices" /\ SliceStackNext
        /\ UNCHANGED <<metaDataVars, uuidVars, attachmentVars, objectOrderVars,
                       meshVars, geometryVars, toolpathVars>>
     \/ /\ part = "meshes" /\ MeshesNext
        /\ UNCHANGED <<metaDataVars, uuidVars, attachmentVars, objectOrderVars,
                       sliceStackVars, geometryVars, toolpathVars>>
     \/ /\ part = "geometry" /\ GeometryNext
        /\ UNCHANGED <<metaDataVars, uuidVars, attachmentVars, objectOrderVars,
                       sliceStackVars, meshVars, toolpathVars>>
     \/ /\ part = "toolpaths" /\ ToolpathNext
        /\ UNCHANGED <<metaDataVars, uuidVars, attachmentVars, objectOrderVars,
                       sliceStackVars, meshVars, geometryVars>>

Spec == Init /\ [][Next]_partVars
=============================================================================
