---------------------------- MODULE MCRoundTrip ----------------------------
EXTENDS RoundTrip

MCScenarios ==
  {[BaseMaterials |-> 1, CompositeMaterials |-> 1, MultiProperties |-> 1],
   [Colors |-> 1, MultiProperties |-> 1, Mesh |-> 1],
   [Texture2D |-> 1, Tex2DGroup |-> 1, Mesh |-> 1],
   [Colors |-> 1, Mesh |-> 1, binary |-> 1, beams |-> 1, empty |-> 1],
   [Mesh |-> 2, Components |-> 1, beams |-> 1],
   [Components |-> 3, metadata |-> 1, item |-> 1],
   [Mesh |-> 1, Components |-> 1, beams |-> 1, item |-> 1, type |-> 1],
   [SliceStack |-> 2, Mesh |-> 1, open |-> 1, point |-> 1],
   [SliceStack |-> 3], [SliceStack |-> 1, Mesh |-> 1, Components |-> 1, item |-> 1],
   [ToolpathResource |-> 1]}
=============================================================================
