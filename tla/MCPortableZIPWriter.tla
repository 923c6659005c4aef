------------------------ MODULE MCPortableZIPWriter ------------------------
(***************************************************************************)
(* Up to three entries, one more that is refused, an output buffer of two  *)
(* bytes, buffers of one and three bytes.                                  *)
(***************************************************************************)
EXTENDS PortableZIPWriter

MCChunks == {<<1>>, <<2, 1, 2>>}
=============================================================================
