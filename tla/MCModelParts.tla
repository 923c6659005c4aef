---------------------------- MODULE MCModelParts ----------------------------
(* ModelParts on small instances of every part.                            *)
EXTENDS ModelParts

CONSTANTS a, b, c

MCStacks == {a, b, c}
(* The faces of a tetrahedron, one of them also turned round, and a face   *)
(* with a node twice; a mesh with fewer than four nodes lacks some.        *)
MCTriangles == {<<0, 1, 2>>, <<0, 3, 1>>, <<1, 3, 2>>, <<0, 2, 3>>, <<0, 2, 1>>, <<0, 0, 1>>}
MCFaceLists == {<<>>, <<<<0, 1, 2>>, <<0, 3, 1>>>>, <<<<0, 1, 2>>, <<0, 0, 1>>, <<0, 3, 1>>>>}
MCBeamEnds == {<<0, 1>>, <<1, 3>>, <<1, 1>>}
MCBeamLists == {<<>>} \cup {<<p>> : p \in MCBeamEnds} \cup MCBeamEnds \X MCBeamEnds
MCRefLists == {<<>>, <<0>>, <<1>>, <<2>>, <<0, 1>>, <<0, 2>>, <<2, 0>>}
=============================================================================
