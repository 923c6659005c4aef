--------------------------- MODULE MCMergeToModel ---------------------------
(* MergeToModel on a small instance.                                       *)
EXTENDS MergeToModel

MCKinds == {"mesh", "texture", "texturegroup", "basematerial", "composite"}
=============================================================================
