-------------------------- MODULE MCResourceModel --------------------------
(* ResourceModel on a small instance.                                      *)
EXTENDS ResourceModel

MCKinds == {"mesh", "slicestack", "basematerial", "composite", "multi"}
MCObjectKinds == {"mesh", "texture", "texturegroup", "slicestack"}
=============================================================================
