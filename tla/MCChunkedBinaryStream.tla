----------------------- MODULE MCChunkedBinaryStream -----------------------
(***************************************************************************)
(* Small instances of ChunkedBinaryStream: 5-bit words, eight grains in    *)
(* 1.0f, a unit of one and a half, and arrays that wrap a difference of    *)
(* integers and one of units, round a quotient and a product, and leave    *)
(* the range of the units.                                                 *)
(*                                                                         *)
(* The floats have a significand of three bits, and are rounded to the     *)
(* nearest one, ties to an even significand.                               *)
(***************************************************************************)
EXTENDS ChunkedBinaryStream

MCIntArrays == {<<15, -16>>}
MCFloatArrays == {<<0, 40, -96, 96>>, <<0, 112>>}
MCUnits == {12}

\* The magnitudes of the floats, by increasing bits.
Magnitudes ==
  [k \in 1 .. 36 |->
     IF k <= 4 THEN k - 1 ELSE (4 + ((k - 1) % 4)) * 2 ^ ((k - 5) \div 4)]

Floats == {Magnitudes[k] : k \in DOMAIN Magnitudes}

EvenFloats == {Magnitudes[k] : k \in {l \in DOMAIN Magnitudes : l % 2 = 1}}

\* The magnitude nearest to x / d.
Nearest(x, d) ==
  CHOOSE g \in Floats :
    \A h \in Floats \ {g} :
      \/ AbsValue(x - g * d) < AbsValue(x - h * d)
      \/ AbsValue(x - g * d) = AbsValue(x - h * d) /\ g \in EvenFloats

Signed(x, magnitude) == IF x >= 0 THEN magnitude ELSE -magnitude

\* The bits of a float are its sign and the place of its magnitude.
MCBitsOf(x) ==
  LET place == CHOOSE k \in DOMAIN Magnitudes : Magnitudes[k] = AbsValue(x)
  IN  IF x >= 0 THEN place - 1 ELSE place - 1 - HalfRange

MCFloatOf(w) ==
  IF w >= 0 THEN Magnitudes[w + 1] ELSE -Magnitudes[w + 1 + HalfRange]

\* The quotient is rounded in quarters of 1.
MCQuotient(x, d) == Signed(x, Nearest(4 * AbsValue(x), d) \div 4)

MCProduct(n, d) ==
  Signed(n * d, Nearest(Nearest(AbsValue(n), 1) * AbsValue(d), 1))
=============================================================================
