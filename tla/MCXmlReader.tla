---------------------------- MODULE MCXmlReader ----------------------------
(* XmlReader for texts of up to three pieces, well formed or not.          *)
EXTENDS XmlReader

Pieces ==
  {<<"<", "a", ">">>, <<"<", "/", "a", " ", ">">>, <<"<", "a", "/", ">">>, <<"a", "a">>, <<" ">>,
   <<"<", "a", " ", "a", "=", "q", "a", "q", ">">>,
   <<"<", "a", " ", "a", " ", "=", " ", "q", "q", "/", ">">>,
   <<"<", "!", "-", "-", "a", "-", "-", "-", ">">>, <<"<", "?", "a", "?", ">">>,
   <<"<", "a", " ", "a", " ", " ", "=", "q", "q", ">">>, <<"<", "a", " ", "a", "=", " ", "a", "q", "q", ">">>,
   <<"<", " ", ">">>, <<"<", "a", " ", "q">>, <<"<", "/", "/">>}

MCDocuments == {FlattenSeq(pieces) : pieces \in UNION {[1..n -> Pieces] : n \in 1..3}}
=============================================================================
