-------------------------- MODULE ModelPartsProofs --------------------------
(***************************************************************************)
(* What the parts of a model promise, for all values of their constants.   *)
(* Each part is proved about by itself, from its own next-state relation;  *)
(* the last theorems put the parts together as ModelParts does.            *)
(***************************************************************************)
EXTENDS ModelParts, ListTheorems

-----------------------------------------------------------------------------
(* Toolpath layers. *)

LayerType ==
  [path : LayerPaths, phase : {"header", "data", "finished"}, ids : Seq(Nat), next : Nat,
   segments : Seq({"stream", "text", "half"}), stream : SUBSET Streams, names : BOOLEAN,
   late : BOOLEAN, depth : Nat]

(* The layers that a list of layers has finished for a path.               *)
FinishedIn(list, p) == {l \in DOMAIN list : list[l].path = p /\ list[l].phase = "finished"}

(* The parts handed over are those of the finished layers of a list.       *)
PartsOf(list, parts) ==
  /\ \A p : p \in DOMAIN parts <=> FinishedIn(list, p) # {}
  /\ \A p \in DOMAIN parts : \E l \in FinishedIn(list, p) : parts[p] = Text(list[l])

(* What an export listed is still there, and finished layers are as they   *)
(* were.                                                                   *)
ListedStays(list, now) ==
  /\ list \in Seq(LayerType) /\ Len(list) <= Len(now)
  /\ \A l \in DOMAIN list :
       /\ list[l].path = now[l].path
       /\ list[l].phase = "finished" =>
            now[l].phase = "finished" /\ Text(now[l]) = Text(list[l])

(* The parts of one export are in the next and are handed over still.      *)
Kept(parts, later) == \A p \in DOMAIN parts : p \in DOMAIN later /\ later[p] = parts[p]

HasHalf(d) == \E s \in DOMAIN d.segments : d.segments[s] = "half"

(* The segments of a layer are where its header says, and the elements     *)
(* that are open are the layer, the segments and the half-written ones.    *)
SegmentsFit(d) ==
  /\ d.phase = "header" => d.segments = <<>> /\ ~d.late /\ d.depth = 1
  /\ d.phase # "header" => d.depth >= 2 /\ (d.depth = 2 <=> ~HasHalf(d))
  /\ ~d.late =>
       /\ d.phase # "header" => (d.names <=> d.stream # {})
       /\ \A s \in DOMAIN d.segments :
            d.segments[s] # "half" => (d.segments[s] = "stream" <=> d.names)

TextType ==
  [ids : Seq(Nat), names : BOOLEAN, segments : Seq({"stream", "text", "half"}), unclosed : Nat]
PartsType == UNION {[P -> TextType] : P \in SUBSET LayerPaths}

ToolpathType ==
  /\ layers \in Seq(LayerType)
  /\ handed \in PartsType
  /\ exports \in Seq([listed : Seq(LayerType), parts : PartsType])

ToolpathInv ==
  /\ ToolpathType
  /\ PartsOf(layers, handed)
  /\ \A e \in DOMAIN exports :
       /\ ListedStays(exports[e].listed, layers)
       /\ PartsOf(exports[e].listed, exports[e].parts)
       /\ Kept(exports[e].parts, handed)
  /\ \A e, f \in DOMAIN exports : e <= f => Kept(exports[e].parts, exports[f].parts)
  /\ \A l \in DOMAIN layers : SegmentsFit(layers[l])

(* A segment is half-written only when its stream is finished, which an    *)
(* export did: the first export has no part with open elements.            *)
StreamsInv ==
  /\ streams \in [Streams -> {"empty", "used", "finished"}]
  /\ \A l \in DOMAIN layers : HasHalf(layers[l]) => Finished(layers[l])
  /\ exports = <<>> => \A s \in Streams : streams[s] # "finished"
  /\ exports # <<>> => \A p \in DOMAIN exports[1].parts : exports[1].parts[p].unclosed = 0

(* LayerFields: a layer record with fields replaced as the writer replaces *)
(* them, for any fields.                                                   *)
LEMMA LayerFields ==
  ASSUME NEW P, NEW H, NEW I, NEW N, NEW S, NEW T, NEW B, NEW D,
         NEW r \in [path : P, phase : H, ids : I, next : N, segments : S,
                    stream : T, names : B, late : B, depth : D],
         NEW i \in I, NEW n \in N, NEW s \in S, NEW t \in T, NEW x \in B, NEW h \in H, NEW d \in D
  PROVE  /\ r.path \in P /\ r.phase \in H /\ r.ids \in I /\ r.next \in N /\ r.segments \in S
         /\ r.stream \in T /\ r.names \in B /\ r.late \in B /\ r.depth \in D
         /\ LET q == [r EXCEPT !.ids = i, !.next = n] IN
            /\ q \in [path : P, phase : H, ids : I, next : N, segments : S,
                      stream : T, names : B, late : B, depth : D]
            /\ q.path = r.path /\ q.phase = r.phase /\ q.ids = i /\ q.segments = r.segments
            /\ q.stream = r.stream /\ q.names = r.names /\ q.late = r.late /\ q.depth = r.depth
         /\ LET q == [r EXCEPT !.stream = t, !.late = x] IN
            /\ q \in [path : P, phase : H, ids : I, next : N, segments : S,
                      stream : T, names : B, late : B, depth : D]
            /\ q.path = r.path /\ q.phase = r.phase /\ q.ids = r.ids /\ q.segments = r.segments
            /\ q.stream = t /\ q.names = r.names /\ q.late = x /\ q.depth = r.depth
         /\ LET q == [r EXCEPT !.phase = h, !.names = x, !.depth = d] IN
            /\ q \in [path : P, phase : H, ids : I, next : N, segments : S,
                      stream : T, names : B, late : B, depth : D]
            /\ q.path = r.path /\ q.phase = h /\ q.ids = r.ids /\ q.segments = r.segments
            /\ q.stream = r.stream /\ q.names = x /\ q.late = r.late /\ q.depth = d
         /\ LET q == [r EXCEPT !.phase = h] IN
            /\ q \in [path : P, phase : H, ids : I, next : N, segments : S,
                      stream : T, names : B, late : B, depth : D]
            /\ q.path = r.path /\ q.phase = h /\ q.ids = r.ids /\ q.segments = r.segments
            /\ q.stream = r.stream /\ q.names = r.names /\ q.late = r.late /\ q.depth = r.depth
         /\ LET q == [r EXCEPT !.segments = s] IN
            /\ q \in [path : P, phase : H, ids : I, next : N, segments : S,
                      stream : T, names : B, late : B, depth : D]
            /\ q.path = r.path /\ q.phase = r.phase /\ q.ids = r.ids /\ q.segments = s
            /\ q.stream = r.stream /\ q.names = r.names /\ q.late = r.late /\ q.depth = r.depth
         /\ LET q == [r EXCEPT !.segments = s, !.depth = d] IN
            /\ q \in [path : P, phase : H, ids : I, next : N, segments : S,
                      stream : T, names : B, late : B, depth : D]
            /\ q.path = r.path /\ q.phase = r.phase /\ q.ids = r.ids /\ q.segments = s
            /\ q.stream = r.stream /\ q.names = r.names /\ q.late = r.late /\ q.depth = d
OBVIOUS

(* A layer q is what the layer r may become: a finished layer keeps its    *)
(* text, and the header tells where the segments are.                      *)
Follows(r, q) ==
  /\ q \in LayerType /\ q.path = r.path /\ SegmentsFit(q)
  /\ r.phase = "finished" => q.phase = "finished" /\ Text(q) = Text(r)

(* LayerTypes: the fields of a layer, and of a layer with other fields.    *)
LEMMA LayerTypes ==
  ASSUME NEW r \in LayerType
  PROVE  /\ r.path \in LayerPaths /\ r.phase \in {"header", "data", "finished"}
         /\ r.ids \in Seq(Nat) /\ r.next \in Nat
         /\ r.segments \in Seq({"stream", "text", "half"})
         /\ r.stream \in SUBSET Streams /\ r.names \in BOOLEAN /\ r.late \in BOOLEAN
         /\ r.depth \in Nat
BY DEF LayerType

(* RegisterFollows: RegisterProfile and RegisterPart, before the header is *)
(* written.                                                                *)
LEMMA RegisterFollows ==
  ASSUME NEW r \in LayerType, SegmentsFit(r), r.phase = "header"
  PROVE  LET q == [r EXCEPT !.ids = Append(@, r.next), !.next = @ + 1] IN
         Follows(r, q) /\ q.phase = "header" /\ q.segments = r.segments /\ q.stream = r.stream
<1> DEFINE i == Append(r.ids, r.next)
           n == r.next + 1
           q == [r EXCEPT !.ids = i, !.next = n]
<1>1. i \in Seq(Nat) /\ n \in Nat
  <2>1. r.ids \in Seq(Nat) /\ r.next \in Nat
    BY LayerTypes
  <2> QED BY ONLY <2>1
<1>2. r.segments \in Seq({"stream", "text", "half"}) /\ r.names \in BOOLEAN /\ r.phase \in {"header", "data", "finished"}
      /\ r.stream \in SUBSET Streams /\ r.depth \in Nat
  BY LayerTypes
<1> HIDE DEF i, n
<1>3. /\ q \in LayerType /\ q.path = r.path /\ q.phase = r.phase /\ q.segments = r.segments
      /\ q.stream = r.stream /\ q.names = r.names /\ q.late = r.late /\ q.depth = r.depth
  BY <1>1, <1>2, LayerFields, Zenon DEF LayerType
<1>4. q = [r EXCEPT !.ids = Append(@, r.next), !.next = @ + 1]
  BY DEF i, n
<1> HIDE DEF q
<1>5. Follows(r, q) /\ q.phase = "header" /\ q.segments = r.segments /\ q.stream = r.stream
  BY <1>3 DEF Follows, SegmentsFit, HasHalf
<1> QED BY <1>4, <1>5

(* AssignFollows: a binary stream is assigned; the header may be written.  *)
LEMMA AssignFollows ==
  ASSUME NEW r \in LayerType, SegmentsFit(r), NEW s \in Streams
  PROVE  LET q == [r EXCEPT !.stream = {s}, !.late = r.phase # "header"] IN
         Follows(r, q) /\ q.phase = r.phase /\ q.segments = r.segments
<1> DEFINE y == r.phase # "header"
           t == {s}
           q == [r EXCEPT !.stream = t, !.late = y]
<1>1. r.ids \in Seq(Nat) /\ r.next \in Nat /\ r.segments \in Seq({"stream", "text", "half"})
      /\ r.phase \in {"header", "data", "finished"} /\ t \in SUBSET Streams /\ y \in BOOLEAN
      /\ r.depth \in Nat
  BY LayerTypes
<1> HIDE DEF y, t
<1>2. /\ q \in LayerType /\ q.path = r.path /\ q.phase = r.phase /\ q.ids = r.ids
      /\ q.segments = r.segments /\ q.stream = t /\ q.names = r.names /\ q.late = y
      /\ q.depth = r.depth
  BY <1>1, LayerFields, Zenon DEF LayerType
<1> HIDE DEF q
<1>3. Text(q) = Text(r)
  BY <1>2 DEF Text
<1>4. SegmentsFit(q)
  BY <1>2 DEF SegmentsFit, HasHalf, y
<1>5. Follows(r, q) /\ q.phase = r.phase /\ q.segments = r.segments
  BY <1>2, <1>3, <1>4 DEF Follows
<1> QED BY <1>5 DEF q, y, t

(* HeaderFollows: finishHeader writes the header once, and names the       *)
(* stream that is assigned by then.                                        *)
LEMMA HeaderFollows ==
  ASSUME NEW r \in LayerType, SegmentsFit(r)
  PROVE  /\ Follows(r, finishHeader(r))
         /\ finishHeader(r).phase = IF r.phase = "header" THEN "data" ELSE r.phase
         /\ finishHeader(r).segments = r.segments /\ finishHeader(r).stream = r.stream
<1>1. CASE r.phase # "header"
  BY <1>1 DEF finishHeader, Follows
<1>2. CASE r.phase = "header"
  <2> DEFINE x == r.stream # {}
             d == r.depth + 1
             q == [r EXCEPT !.phase = "data", !.names = x, !.depth = d]
  <2>1. r.ids \in Seq(Nat) /\ r.next \in Nat /\ r.segments \in Seq({"stream", "text", "half"})
        /\ "data" \in {"header", "data", "finished"} /\ x \in BOOLEAN /\ r.depth \in Nat
        /\ d \in Nat /\ r.stream \in SUBSET Streams
    BY LayerTypes
  <2>2. finishHeader(r) = q
    BY <1>2 DEF finishHeader
  <2> HIDE DEF x, d
  <2>3. /\ q \in LayerType /\ q.path = r.path /\ q.phase = "data"
        /\ q.segments = r.segments /\ q.stream = r.stream /\ q.names = x /\ q.late = r.late
        /\ q.depth = d
    BY <2>1, LayerFields, Zenon DEF LayerType
  <2> HIDE DEF q
  <2>4. r.segments = <<>> /\ r.depth = 1
    BY <1>2 DEF SegmentsFit
  <2>5. SegmentsFit(q)
    <3>1. d = 2 /\ q.segments = <<>> /\ DOMAIN <<>> = {}
      BY <2>3, <2>4 DEF d
    <3>2. ~HasHalf(q)
      BY ONLY <3>1 DEF HasHalf
    <3>3. q.names <=> q.stream # {}
      BY <2>3 DEF x
    <3>4. \A k \in DOMAIN q.segments : FALSE
      BY ONLY <3>1
    <3>5. q.phase = "data" /\ q.depth = 2
      BY <2>3, <3>1
    <3> QED BY ONLY <3>2, <3>3, <3>4, <3>5 DEF SegmentsFit
  <2> QED BY <1>2, <2>2, <2>3, <2>5 DEF Follows
<1> QED BY <1>1, <1>2

(* SegmentFollows: a segment goes where the header says, unless the stream *)
(* came late.                                                              *)
LEMMA SegmentFollows ==
  ASSUME NEW r \in LayerType, SegmentsFit(r), r.phase = "data"
  PROVE  LET q == [r EXCEPT !.segments = Append(@, IF r.stream # {} THEN "stream" ELSE "text")] IN
         Follows(r, q) /\ q.phase = "data" /\ q.stream = r.stream /\ (HasHalf(q) <=> HasHalf(r))
<1> DEFINE e == IF r.stream # {} THEN "stream" ELSE "text"
           s == Append(r.segments, e)
           q == [r EXCEPT !.segments = s]
<1>0. e \in {"stream", "text", "half"} /\ e # "half"
  OBVIOUS
<1>1. r.ids \in Seq(Nat) /\ r.next \in Nat /\ r.segments \in Seq({"stream", "text", "half"})
      /\ r.names \in BOOLEAN /\ r.stream \in SUBSET Streams /\ r.phase \in {"header", "data", "finished"}
      /\ r.depth \in Nat
  BY LayerTypes
<1> HIDE DEF e
<1>2. /\ s \in Seq({"stream", "text", "half"})
      /\ DOMAIN s = 1..(Len(r.segments) + 1) /\ DOMAIN r.segments = 1..Len(r.segments)
      /\ \A k \in 1..Len(r.segments) : s[k] = r.segments[k]
      /\ s[Len(r.segments) + 1] = e /\ Len(r.segments) \in Nat
  BY <1>0, <1>1
<1> HIDE DEF s
<1>3. /\ q \in LayerType /\ q.path = r.path /\ q.phase = r.phase
      /\ q.segments = s /\ q.stream = r.stream /\ q.names = r.names /\ q.late = r.late
      /\ q.depth = r.depth
  BY <1>1, <1>2, LayerFields, Zenon DEF LayerType
<1> HIDE DEF q
<1>4. ASSUME ~r.late, NEW k \in DOMAIN s, s[k] # "half" PROVE s[k] = "stream" <=> r.names
  <2>1. r.names <=> r.stream # {}
    BY <1>4 DEF SegmentsFit
  <2>2. CASE k \in 1..Len(r.segments)
    BY <1>2, <1>4, <2>2 DEF SegmentsFit
  <2>3. CASE k = Len(r.segments) + 1
    BY <1>1, <1>2, <2>1, <2>3 DEF e
  <2> QED BY <1>2, <2>2, <2>3
<1>5. HasHalf(q) <=> HasHalf(r)
  BY <1>0, <1>2, <1>3 DEF HasHalf
<1>6. SegmentsFit(q)
  BY <1>3, <1>4, <1>5 DEF SegmentsFit
<1>7. Follows(r, q) /\ q.phase = "data"
  BY <1>3, <1>6 DEF Follows
<1> QED BY <1>3, <1>5, <1>7 DEF q, s, e

(* HalfFollows: a segment that throws leaves its element open.             *)
LEMMA HalfFollows ==
  ASSUME NEW r \in LayerType, SegmentsFit(r), r.phase = "data"
  PROVE  LET q == [r EXCEPT !.segments = Append(@, "half"), !.depth = @ + 1] IN
         Follows(r, q) /\ q.phase = "data" /\ q.stream = r.stream
<1> DEFINE s == Append(r.segments, "half")
           d == r.depth + 1
           q == [r EXCEPT !.segments = s, !.depth = d]
<1>1. r.ids \in Seq(Nat) /\ r.next \in Nat /\ r.segments \in Seq({"stream", "text", "half"})
      /\ r.names \in BOOLEAN /\ r.stream \in SUBSET Streams /\ r.phase \in {"header", "data", "finished"}
      /\ r.depth \in Nat /\ d \in Nat
  BY LayerTypes
<1>2. /\ s \in Seq({"stream", "text", "half"})
      /\ DOMAIN s = 1..(Len(r.segments) + 1) /\ DOMAIN r.segments = 1..Len(r.segments)
      /\ \A k \in 1..Len(r.segments) : s[k] = r.segments[k]
      /\ s[Len(r.segments) + 1] = "half" /\ Len(r.segments) \in Nat
  BY <1>1
<1>3. r.depth >= 2
  BY DEF SegmentsFit
<1>4. d > 2
  BY <1>1, <1>3
<1>5. q = [r EXCEPT !.segments = Append(@, "half"), !.depth = @ + 1]
  OBVIOUS
<1> HIDE DEF s, d
<1>6. /\ q \in LayerType /\ q.path = r.path /\ q.phase = r.phase
      /\ q.segments = s /\ q.stream = r.stream /\ q.names = r.names /\ q.late = r.late
      /\ q.depth = d
  BY <1>1, <1>2, LayerFields, Zenon DEF LayerType
<1> HIDE DEF q
<1>7. HasHalf(q)
  <2>1. Len(r.segments) + 1 \in DOMAIN s
    BY <1>2
  <2> QED BY <1>2, <1>6, <2>1 DEF HasHalf
<1>8. ASSUME ~r.late, NEW k \in DOMAIN s, s[k] # "half" PROVE s[k] = "stream" <=> r.names
  <2>1. k \in 1..Len(r.segments)
    BY <1>2, <1>8
  <2> QED BY <1>2, <1>8, <2>1 DEF SegmentsFit
<1>9. SegmentsFit(q)
  <2>1. d >= 2 /\ d # 2
    BY <1>1, <1>4
  <2> QED BY <1>6, <1>7, <1>8, <2>1 DEF SegmentsFit
<1>10. Follows(r, q) /\ q.phase = "data" /\ q.stream = r.stream
  BY <1>6, <1>9 DEF Follows
<1> QED BY <1>5, <1>10

(* FinishFollows: Finish, with the header written.                         *)
LEMMA FinishFollows ==
  ASSUME NEW r \in LayerType, SegmentsFit(r), r.phase = "data"
  PROVE  LET q == [r EXCEPT !.phase = "finished"] IN
         /\ Follows(r, q) /\ q.phase = "finished" /\ Text(q) \in TextType
         /\ q.segments = r.segments /\ q.stream = r.stream
<1> DEFINE q == [r EXCEPT !.phase = "finished"]
<1>1. r.ids \in Seq(Nat) /\ r.next \in Nat /\ r.segments \in Seq({"stream", "text", "half"})
      /\ r.names \in BOOLEAN /\ r.stream \in SUBSET Streams /\ "finished" \in {"header", "data", "finished"}
      /\ r.depth \in Nat
  BY LayerTypes
<1>2. /\ q \in LayerType /\ q.path = r.path /\ q.phase = "finished" /\ q.ids = r.ids
      /\ q.segments = r.segments /\ q.stream = r.stream /\ q.names = r.names /\ q.late = r.late
      /\ q.depth = r.depth
  BY <1>1, LayerFields, Zenon DEF LayerType
<1> HIDE DEF q
<1>3. SegmentsFit(q)
  BY <1>2 DEF SegmentsFit, HasHalf
<1>4. Text(q) \in TextType
  <2>1. r.depth >= 2
    BY DEF SegmentsFit
  <2>2. q.depth - 2 \in Nat
    BY <1>1, <1>2, <2>1
  <2> QED BY <1>1, <1>2, <2>2 DEF Text, TextType
<1>5. Follows(r, q)
  BY <1>2, <1>3 DEF Follows
<1> QED BY <1>2, <1>4, <1>5 DEF q

(* ListedStaysOn: what an export listed is still there when every layer    *)
(* became what it may become.                                              *)
LEMMA ListedStaysOn ==
  ASSUME layers \in Seq(LayerType), layers' \in Seq(LayerType), Len(layers) <= Len(layers'),
         \A k \in DOMAIN layers : Follows(layers[k], layers'[k]),
         NEW list, ListedStays(list, layers)
  PROVE  ListedStays(list, layers')
<1>1. /\ list \in Seq(LayerType) /\ Len(list) \in Nat /\ Len(layers) \in Nat /\ Len(layers') \in Nat
      /\ DOMAIN list = 1..Len(list) /\ DOMAIN layers = 1..Len(layers) /\ Len(list) <= Len(layers)
  <2>1. list \in Seq(LayerType) /\ Len(list) <= Len(layers)
    BY DEF ListedStays
  <2> QED BY ONLY <2>1, layers \in Seq(LayerType), layers' \in Seq(LayerType)
<1>2. Len(list) <= Len(layers')
  BY ONLY <1>1, Len(layers) <= Len(layers')
<1>3. ASSUME NEW k \in DOMAIN list
      PROVE  /\ list[k].path = layers'[k].path
             /\ list[k].phase = "finished" =>
                  layers'[k].phase = "finished" /\ Text(layers'[k]) = Text(list[k])
  <2>1. k \in DOMAIN layers
    BY ONLY <1>1, k \in DOMAIN list
  <2>2. Follows(layers[k], layers'[k])
    BY <2>1
  <2>3. /\ list[k].path = layers[k].path
        /\ list[k].phase = "finished" =>
             layers[k].phase = "finished" /\ Text(layers[k]) = Text(list[k])
    BY Zenon DEF ListedStays
  <2>4. /\ layers'[k].path = layers[k].path
        /\ layers[k].phase = "finished" =>
             layers'[k].phase = "finished" /\ Text(layers'[k]) = Text(layers[k])
    BY <2>2, Zenon DEF Follows
  <2> QED BY ONLY <2>3, <2>4, Zenon
<1> QED BY <1>1, <1>2, <1>3, Zenon DEF ListedStays

(* LayersMove: the invariant is kept when every layer became what it may   *)
(* become, and the parts handed over are those of the finished layers, the *)
(* old ones among them.                                                    *)
LEMMA LayersMove ==
  ASSUME ToolpathInv, layers' \in Seq(LayerType), Len(layers) <= Len(layers'),
         \A k \in DOMAIN layers : Follows(layers[k], layers'[k]),
         \A k \in DOMAIN layers' : SegmentsFit(layers'[k]),
         handed' \in PartsType, PartsOf(layers', handed'), Kept(handed, handed'),
         exports' = exports
  PROVE  ToolpathInv'
<1>1. layers \in Seq(LayerType) /\ exports \in Seq([listed : Seq(LayerType), parts : PartsType])
  BY Zenon DEF ToolpathInv, ToolpathType
<1>2. ToolpathType'
  BY <1>1, Zenon DEF ToolpathType
<1>3. ASSUME NEW e \in DOMAIN exports'
      PROVE  /\ ListedStays(exports'[e].listed, layers')
             /\ PartsOf(exports'[e].listed, exports'[e].parts)
             /\ Kept(exports'[e].parts, handed')
  <2>1. e \in DOMAIN exports /\ exports'[e] = exports[e]
    BY Zenon
  <2>2. /\ ListedStays(exports[e].listed, layers)
        /\ PartsOf(exports[e].listed, exports[e].parts)
        /\ Kept(exports[e].parts, handed)
    BY <2>1, Zenon DEF ToolpathInv
  <2> DEFINE list == exports[e].listed
  <2> HIDE DEF list
  <2>3. ListedStays(list, layers)
    BY <2>2 DEF list
  <2>4. ListedStays(list, layers')
    BY <1>1, <2>3, ListedStaysOn, Zenon
  <2>5. exports'[e].listed = list
    BY <2>1 DEF list
  <2>6. ListedStays(exports'[e].listed, layers')
    BY <2>4, <2>5, Zenon
  <2>7. Kept(exports[e].parts, handed')
    BY <2>2, Zenon DEF Kept
  <2> QED BY <2>1, <2>2, <2>6, <2>7, Zenon
<1>4. \A e, f \in DOMAIN exports' : e <= f => Kept(exports'[e].parts, exports'[f].parts)
  BY Zenon DEF ToolpathInv
<1> QED BY <1>2, <1>3, <1>4, Zenon DEF ToolpathInv

(* ReplaceLayer: a step that changes one layer and finishes none.          *)
LEMMA ReplaceLayer ==
  ASSUME ToolpathInv, NEW l \in DOMAIN layers, NEW q, Follows(layers[l], q),
         q.phase = "finished" => layers[l].phase = "finished",
         SetLayer(l, q)
  PROVE  ToolpathInv'
<1>1. layers \in Seq(LayerType) /\ handed \in PartsType /\ PartsOf(layers, handed)
  BY Zenon DEF ToolpathInv, ToolpathType
<1>2. layers' = [layers EXCEPT ![l] = q] /\ handed' = handed /\ exports' = exports
  BY DEF SetLayer
<1>3. q \in LayerType /\ SegmentsFit(q)
  BY DEF Follows
<1>4. /\ layers' \in Seq(LayerType) /\ Len(layers') = Len(layers) /\ Len(layers) \in Nat
      /\ DOMAIN layers' = DOMAIN layers /\ layers'[l] = q
      /\ \A k \in DOMAIN layers : k # l => layers'[k] = layers[k]
  BY ONLY <1>1, <1>2, <1>3, l \in DOMAIN layers
<1>5. \A k \in DOMAIN layers : Follows(layers[k], layers'[k])
  <2> SUFFICES ASSUME NEW k \in DOMAIN layers PROVE Follows(layers[k], layers'[k])
    OBVIOUS
  <2>1. CASE k = l
    BY <1>4, <2>1
  <2>2. CASE k # l
    <3>1. layers[k] \in LayerType
      BY ONLY <1>1, k \in DOMAIN layers
    <3>2. SegmentsFit(layers[k])
      BY Zenon DEF ToolpathInv
    <3> QED BY <1>4, <2>2, <3>1, <3>2, Zenon DEF Follows
  <2> QED BY <2>1, <2>2
<1>6. \A k \in DOMAIN layers' : SegmentsFit(layers'[k])
  BY <1>4, <1>5, Zenon DEF Follows
<1>7. \A p : FinishedIn(layers', p) = FinishedIn(layers, p)
  <2>1. \A k \in DOMAIN layers :
          layers'[k].path = layers[k].path /\ (layers'[k].phase = "finished" <=> layers[k].phase = "finished")
    BY <1>4, <1>5, Zenon DEF Follows
  <2> QED BY ONLY <1>4, <2>1 DEF FinishedIn
<1>8. PartsOf(layers', handed')
  <2>1. \A p : \A k \in FinishedIn(layers, p) : Text(layers'[k]) = Text(layers[k])
    BY <1>5, Zenon DEF FinishedIn, Follows
  <2> QED BY ONLY <1>1, <1>2, <1>7, <2>1, Zenon DEF PartsOf
<1>9. Kept(handed, handed')
  BY <1>2, Zenon DEF Kept
<1>10. Len(layers) <= Len(layers')
  BY ONLY <1>4
<1> QED BY <1>1, <1>2, <1>4, <1>5, <1>6, <1>8, <1>9, <1>10, LayersMove, Zenon

(* NewLayerStep: addLayer lists a layer without data.                      *)
LEMMA NewLayerStep ==
  ASSUME ToolpathInv, AddLayer
  PROVE  ToolpathInv'
<1>1. layers \in Seq(LayerType) /\ handed \in PartsType /\ PartsOf(layers, handed)
  BY Zenon DEF ToolpathInv, ToolpathType
<1>2. PICK path \in LayerPaths : layers' = Append(layers, NewLayer(path))
  BY DEF AddLayer
<1>3. handed' = handed /\ exports' = exports
  BY DEF AddLayer
<1> DEFINE q == NewLayer(path)
<1>4. q \in LayerType /\ q.phase = "header" /\ SegmentsFit(q)
  <2>1. <<>> \in Seq(Nat) /\ <<>> \in Seq({"stream", "text", "half"}) /\ 1 \in Nat /\ DOMAIN <<>> = {}
    OBVIOUS
  <2>2. q \in LayerType
    BY <2>1 DEF NewLayer, LayerType
  <2>3. q.phase = "header" /\ q.segments = <<>> /\ ~q.late /\ q.depth = 1
    BY DEF NewLayer
  <2>4. DOMAIN q.segments = {}
    BY <2>1, <2>3
  <2> QED BY <2>2, <2>3, <2>4, Zenon DEF SegmentsFit
<1> HIDE DEF q
<1>5. layers' = Append(layers, q)
  BY <1>2 DEF q
<1>6. /\ layers' \in Seq(LayerType) /\ Len(layers) <= Len(layers')
      /\ DOMAIN layers' = DOMAIN layers \cup {Len(layers) + 1}
      /\ \A k \in DOMAIN layers : layers'[k] = layers[k]
      /\ layers'[Len(layers) + 1] = q
      /\ \A k \in DOMAIN layers : layers[k] \in LayerType
  BY ONLY <1>1, <1>4, <1>5
<1>7. \A k \in DOMAIN layers : SegmentsFit(layers[k])
  BY Zenon DEF ToolpathInv
<1>8. \A k \in DOMAIN layers : Follows(layers[k], layers'[k])
  BY <1>6, <1>7, Zenon DEF Follows
<1>9. \A k \in DOMAIN layers' : SegmentsFit(layers'[k])
  BY ONLY <1>4, <1>6, <1>7
<1>10. \A p : FinishedIn(layers', p) = FinishedIn(layers, p)
  <2>1. "header" # "finished"
    OBVIOUS
  <2> QED BY ONLY <1>4, <1>6, <2>1 DEF FinishedIn
<1>11. PartsOf(layers', handed')
  <2>1. \A p : \A k \in FinishedIn(layers, p) : layers'[k] = layers[k]
    BY ONLY <1>6, Zenon DEF FinishedIn
  <2> QED BY ONLY <1>1, <1>3, <1>10, <2>1, Zenon DEF PartsOf
<1>12. Kept(handed, handed')
  BY <1>3, Zenon DEF Kept
<1> QED BY <1>1, <1>3, <1>6, <1>8, <1>9, <1>11, <1>12, LayersMove, Zenon

(* FinishStep: finishWriting hands over the text of a layer, unless the    *)
(* writer has a part for that path.                                        *)
LEMMA FinishStep ==
  ASSUME ToolpathInv, NEW l \in DOMAIN layers, finishWriting(l)
  PROVE  ToolpathInv'
<1>1. layers \in Seq(LayerType) /\ handed \in PartsType /\ PartsOf(layers, handed)
  BY Zenon DEF ToolpathInv, ToolpathType
<1>2. \A k \in DOMAIN layers : SegmentsFit(layers[k])
  BY Zenon DEF ToolpathInv
<1> DEFINE r == layers[l]
           h == finishHeader(r)
           q == [h EXCEPT !.phase = "finished"]
<1>3. /\ r.phase # "finished" /\ layers' = [layers EXCEPT ![l] = q]
      /\ handed' = addAdditionalAttachment(q.path, Text(q)) /\ exports' = exports
  BY DEF finishWriting
<1>4. r \in LayerType /\ SegmentsFit(r)
  <2>1. r \in LayerType
    BY ONLY <1>1, l \in DOMAIN layers
  <2> QED BY <1>2, <2>1
<1> HIDE DEF r
<1>5. h \in LayerType /\ SegmentsFit(h) /\ h.phase = "data" /\ h.path = r.path
  <2>1. /\ Follows(r, h) /\ h.phase = IF r.phase = "header" THEN "data" ELSE r.phase
    BY <1>4, HeaderFollows
  <2>2. r.phase \in {"header", "data", "finished"}
    BY <1>4, LayerTypes
  <2>3. h.phase = "data"
    BY ONLY <1>3, <2>1, <2>2
  <2> QED BY <2>1, <2>3, Zenon DEF Follows
<1> HIDE DEF h
<1>6. q \in LayerType /\ q.path = r.path /\ q.phase = "finished" /\ SegmentsFit(q) /\ Text(q) \in TextType
  <2>1. Follows(h, q) /\ q.phase = "finished" /\ Text(q) \in TextType
    BY <1>5, FinishFollows
  <2> QED BY <1>5, <2>1, Zenon DEF Follows
<1> HIDE DEF q
<1>7. /\ layers' \in Seq(LayerType) /\ Len(layers) <= Len(layers')
      /\ DOMAIN layers' = DOMAIN layers /\ layers'[l] = q
      /\ \A k \in DOMAIN layers : k # l => layers'[k] = layers[k]
      /\ \A k \in DOMAIN layers : layers[k] \in LayerType
  BY ONLY <1>1, <1>3, <1>6, l \in DOMAIN layers
<1>8. layers[l] = r
  BY DEF r
<1>9. \A k \in DOMAIN layers : Follows(layers[k], layers'[k])
  <2> SUFFICES ASSUME NEW k \in DOMAIN layers PROVE Follows(layers[k], layers'[k])
    OBVIOUS
  <2>1. CASE k = l
    BY ONLY <1>3, <1>6, <1>7, <1>8, <2>1, Zenon DEF Follows
  <2>2. CASE k # l
    BY <1>2, <1>7, <2>2, Zenon DEF Follows
  <2> QED BY <2>1, <2>2
<1>10. \A k \in DOMAIN layers' : SegmentsFit(layers'[k])
  BY <1>7, <1>9, Zenon DEF Follows
<1>11. q.path \in LayerPaths
  BY <1>6, LayerTypes
<1>12. \A p : FinishedIn(layers', p) = FinishedIn(layers, p) \cup {k \in {l} : p = q.path}
  BY ONLY <1>3, <1>6, <1>7, <1>8, l \in DOMAIN layers DEF FinishedIn
<1>13. /\ DOMAIN handed' = DOMAIN handed \cup {q.path}
       /\ \A p \in DOMAIN handed : handed'[p] = handed[p]
       /\ q.path \notin DOMAIN handed => handed'[q.path] = Text(q)
  BY ONLY <1>3 DEF addAdditionalAttachment
<1>14. handed' \in PartsType
  <2>1. PICK P \in SUBSET LayerPaths : handed \in [P -> TextType]
    BY <1>1, Zenon DEF PartsType
  <2> DEFINE Q == P \cup {q.path}
  <2>2. Q \in SUBSET LayerPaths
    BY <1>11
  <2>3. handed' = [p \in Q |-> IF p \in DOMAIN handed THEN handed[p] ELSE Text(q)]
    BY <1>3, <2>1 DEF addAdditionalAttachment
  <2>4. \A p \in Q : (IF p \in DOMAIN handed THEN handed[p] ELSE Text(q)) \in TextType
    BY <1>6, <2>1
  <2>5. handed' \in [Q -> TextType]
    BY ONLY <2>3, <2>4
  <2> QED BY <2>2, <2>5, Zenon DEF PartsType
<1>15. Kept(handed, handed')
  BY ONLY <1>13 DEF Kept
<1>16. PartsOf(layers', handed')
  <2>1. \A p : p \in DOMAIN handed' <=> FinishedIn(layers', p) # {}
    BY ONLY <1>1, <1>12, <1>13 DEF PartsOf
  <2>2. ASSUME NEW p \in DOMAIN handed'
        PROVE  \E k \in FinishedIn(layers', p) : handed'[p] = Text(layers'[k])
    <3>1. CASE p \in DOMAIN handed
      <4>1. PICK k \in FinishedIn(layers, p) : handed[p] = Text(layers[k])
        BY <1>1, <3>1, Zenon DEF PartsOf
      <4>2. k \in DOMAIN layers /\ layers[k].phase = "finished"
        BY <4>1 DEF FinishedIn
      <4>3. Text(layers'[k]) = Text(layers[k])
        BY <1>9, <4>2, Zenon DEF Follows
      <4>4. k \in FinishedIn(layers', p)
        BY <1>12, <4>1
      <4> QED BY <1>13, <3>1, <4>1, <4>3, <4>4, Zenon
    <3>2. CASE p \notin DOMAIN handed
      <4>1. p = q.path
        BY ONLY <1>13, <3>2, p \in DOMAIN handed'
      <4>2. l \in FinishedIn(layers', p)
        BY <1>12, <4>1
      <4> QED BY <1>7, <1>13, <3>2, <4>1, <4>2, Zenon
    <3> QED BY <3>1, <3>2
  <2> QED BY <2>1, <2>2, Zenon DEF PartsOf
<1> QED BY <1>3, <1>7, <1>9, <1>10, <1>14, <1>15, <1>16, LayersMove, Zenon

(* ExportStep: an export has the layers listed and the parts handed over.  *)
LEMMA ExportStep ==
  ASSUME ToolpathInv, ExportLayers
  PROVE  ToolpathInv'
<1> DEFINE ExportType == [listed : Seq(LayerType), parts : PartsType]
           x == [listed |-> layers, parts |-> handed]
<1>1. layers \in Seq(LayerType) /\ handed \in PartsType /\ PartsOf(layers, handed)
      /\ exports \in Seq(ExportType)
  BY Zenon DEF ToolpathInv, ToolpathType
<1>2. layers' = layers /\ handed' = handed /\ exports' = Append(exports, x)
  BY DEF ExportLayers
<1>3. x \in ExportType /\ x.listed = layers /\ x.parts = handed
  BY <1>1
<1> HIDE DEF ExportType, x
<1>4. /\ exports' \in Seq(ExportType) /\ Len(exports) \in Nat
      /\ DOMAIN exports = 1..Len(exports) /\ DOMAIN exports' = 1..(Len(exports) + 1)
      /\ \A e \in DOMAIN exports : e \in DOMAIN exports' /\ exports'[e] = exports[e]
      /\ exports'[Len(exports) + 1] = x
  BY ONLY <1>1, <1>2, <1>3
<1>5. ToolpathType'
  BY <1>1, <1>2, <1>4, Zenon DEF ToolpathType, ExportType
<1>6. ListedStays(layers, layers)
  <2>1. Len(layers) <= Len(layers)
    BY ONLY <1>1
  <2> QED BY <1>1, <2>1, Zenon DEF ListedStays
<1>7. Kept(handed, handed)
  BY Zenon DEF Kept
<1>8. \A e \in DOMAIN exports' : e \notin DOMAIN exports => e = Len(exports) + 1
  BY ONLY <1>4
<1>9. ASSUME NEW e \in DOMAIN exports'
      PROVE  /\ ListedStays(exports'[e].listed, layers')
             /\ PartsOf(exports'[e].listed, exports'[e].parts)
             /\ Kept(exports'[e].parts, handed')
  <2>1. CASE e \in DOMAIN exports
    <3>1. /\ ListedStays(exports[e].listed, layers)
          /\ PartsOf(exports[e].listed, exports[e].parts)
          /\ Kept(exports[e].parts, handed)
      BY <2>1, Zenon DEF ToolpathInv
    <3> QED BY <1>2, <1>4, <2>1, <3>1, Zenon
  <2>2. CASE e \notin DOMAIN exports
    BY <1>1, <1>2, <1>3, <1>4, <1>6, <1>7, <1>8, <2>2, Zenon
  <2> QED BY <2>1, <2>2
<1>10. ASSUME NEW e \in DOMAIN exports', NEW f \in DOMAIN exports', e <= f
       PROVE  Kept(exports'[e].parts, exports'[f].parts)
  <2>1. CASE f \in DOMAIN exports
    <3>1. e \in DOMAIN exports
      BY ONLY <1>4, <1>10, <2>1
    <3>2. Kept(exports[e].parts, exports[f].parts)
      BY <1>10, <2>1, <3>1, Zenon DEF ToolpathInv
    <3> QED BY <1>4, <2>1, <3>1, <3>2, Zenon
  <2>2. CASE f \notin DOMAIN exports
    <3>1. exports'[f].parts = handed'
      BY <1>2, <1>3, <1>4, <1>8, <2>2, Zenon
    <3> QED BY <1>9, <3>1, Zenon
  <2> QED BY <2>1, <2>2
<1>11. \A l \in DOMAIN layers' : SegmentsFit(layers'[l])
  BY <1>2, Zenon DEF ToolpathInv
<1>12. PartsOf(layers', handed')
  BY <1>1, <1>2, Zenon
<1> QED BY <1>5, <1>9, <1>10, <1>11, <1>12, Zenon DEF ToolpathInv

(* ToolpathStart: no layer, no part, no export.                            *)
LEMMA ToolpathStart == ToolpathInit => ToolpathInv
<1> SUFFICES ASSUME ToolpathInit PROVE ToolpathInv
  OBVIOUS
<1>1. layers = <<>> /\ handed = <<>> /\ exports = <<>>
  BY DEF ToolpathInit
<1>2. DOMAIN layers = {} /\ DOMAIN handed = {} /\ DOMAIN exports = {}
  BY <1>1
<1>3. handed \in PartsType
  <2>1. handed \in [{} -> TextType]
    BY <1>1
  <2>2. {} \in SUBSET LayerPaths
    OBVIOUS
  <2> QED BY <2>1, <2>2, Zenon DEF PartsType
<1>4. layers \in Seq(LayerType) /\ exports \in Seq([listed : Seq(LayerType), parts : PartsType])
  BY <1>1
<1>5. PartsOf(layers, handed)
  <2>1. \A p : FinishedIn(layers, p) = {}
    BY <1>2 DEF FinishedIn
  <2> QED BY <1>2, <2>1 DEF PartsOf
<1> QED BY <1>2, <1>3, <1>4, <1>5, Zenon DEF ToolpathInv, ToolpathType

(* ToolpathStep: every operation on the toolpath keeps the invariant.      *)
LEMMA ToolpathStep == ToolpathInv /\ [ToolpathNext]_toolpathVars => ToolpathInv'
<1> SUFFICES ASSUME ToolpathInv, [ToolpathNext]_toolpathVars PROVE ToolpathInv'
  OBVIOUS
<1>1. \A l \in DOMAIN layers : layers[l] \in LayerType /\ SegmentsFit(layers[l])
  <2>1. layers \in Seq(LayerType)
    BY Zenon DEF ToolpathInv, ToolpathType
  <2>2. \A l \in DOMAIN layers : layers[l] \in LayerType
    BY ONLY <2>1
  <2> QED BY <2>2, Zenon DEF ToolpathInv
<1>2. ASSUME AddLayer PROVE ToolpathInv'
  BY <1>2, NewLayerStep
<1>3. ASSUME Register PROVE ToolpathInv'
  <2>1. PICK l \in DOMAIN layers :
          /\ layers[l].phase = "header"
          /\ SetLayer(l, [layers[l] EXCEPT !.ids = Append(@, layers[l].next), !.next = @ + 1])
    BY <1>3 DEF Register
  <2> DEFINE r == layers[l]
             q == [r EXCEPT !.ids = Append(@, r.next), !.next = @ + 1]
  <2> HIDE DEF r
  <2>2. r \in LayerType /\ SegmentsFit(r) /\ r.phase = "header" /\ r = layers[l]
    BY <1>1, <2>1 DEF r
  <2>3. Follows(r, q) /\ q.phase = "header"
    BY <2>2, RegisterFollows
  <2>4. SetLayer(l, q)
    BY <2>1 DEF r
  <2> HIDE DEF q
  <2>5. "header" # "finished"
    OBVIOUS
  <2> QED BY <2>2, <2>3, <2>4, <2>5, ReplaceLayer, Zenon
<1>4. ASSUME AssignLayerStream PROVE ToolpathInv'
  <2>1. PICK l \in DOMAIN layers, s \in Streams :
          SetLayer(l, [layers[l] EXCEPT !.stream = {s}, !.late = layers[l].phase # "header"])
    BY <1>4 DEF AssignLayerStream
  <2> DEFINE r == layers[l]
             q == [r EXCEPT !.stream = {s}, !.late = r.phase # "header"]
  <2> HIDE DEF r
  <2>2. r \in LayerType /\ SegmentsFit(r) /\ r = layers[l]
    BY <1>1, <2>1 DEF r
  <2>3. Follows(r, q) /\ q.phase = r.phase
    BY <2>2, AssignFollows
  <2>4. SetLayer(l, q)
    BY <2>1 DEF r
  <2> HIDE DEF q
  <2> QED BY <2>2, <2>3, <2>4, ReplaceLayer, Zenon
<1>5. ASSUME WriteSegment PROVE ToolpathInv'
  <2>1. PICK l \in DOMAIN layers :
          LET h == finishHeader(layers[l]) IN
          /\ h.phase = "data"
          /\ SetLayer(l, [h EXCEPT !.segments = Append(@, IF h.stream # {} THEN "stream" ELSE "text")])
    BY <1>5 DEF WriteSegment
  <2> DEFINE r == layers[l]
             h == finishHeader(r)
             q == [h EXCEPT !.segments = Append(@, IF h.stream # {} THEN "stream" ELSE "text")]
  <2>2. h.phase = "data" /\ SetLayer(l, q)
    BY <2>1
  <2> HIDE DEF r
  <2>3. r \in LayerType /\ SegmentsFit(r) /\ r = layers[l]
    BY <1>1, <2>1 DEF r
  <2>4. Follows(r, h) /\ h.phase = IF r.phase = "header" THEN "data" ELSE r.phase
    BY <2>3, HeaderFollows
  <2> HIDE DEF h
  <2>5. h \in LayerType /\ SegmentsFit(h) /\ h.path = r.path
    BY <2>4, Zenon DEF Follows
  <2>6. Follows(h, q) /\ q.phase = "data"
    BY <2>2, <2>5, SegmentFollows
  <2> HIDE DEF q
  <2>7. r.phase # "finished" /\ "data" # "finished"
    BY <2>2, <2>4
  <2>8. Follows(r, q)
    BY <2>5, <2>6, <2>7, Zenon DEF Follows
  <2> QED BY <2>2, <2>3, <2>6, <2>7, <2>8, ReplaceLayer, Zenon
<1>6. ASSUME FinishLayer PROVE ToolpathInv'
  BY <1>6, FinishStep DEF FinishLayer
<1>7. ASSUME ExportLayers PROVE ToolpathInv'
  BY <1>7, ExportStep
<1>8. ASSUME UNCHANGED toolpathVars PROVE ToolpathInv'
  <2>1. layers' = layers /\ handed' = handed /\ exports' = exports
    BY <1>8, Zenon DEF toolpathVars
  <2> QED BY <2>1, Zenon DEF ToolpathInv, ToolpathType
<1>9. ASSUME WriteSegmentThrows PROVE ToolpathInv'
  <2>1. PICK l \in DOMAIN layers :
          LET h == finishHeader(layers[l]) IN
          /\ h.phase = "data"
          /\ SetLayer(l, [h EXCEPT !.segments = Append(@, "half"), !.depth = @ + 1])
    BY <1>9 DEF WriteSegmentThrows
  <2> DEFINE r == layers[l]
             h == finishHeader(r)
             q == [h EXCEPT !.segments = Append(@, "half"), !.depth = @ + 1]
  <2>2. h.phase = "data" /\ SetLayer(l, q)
    BY <2>1
  <2> HIDE DEF r
  <2>3. r \in LayerType /\ SegmentsFit(r) /\ r = layers[l]
    BY <1>1, <2>1 DEF r
  <2>4. Follows(r, h) /\ h.phase = IF r.phase = "header" THEN "data" ELSE r.phase
    BY <2>3, HeaderFollows
  <2> HIDE DEF h
  <2>5. h \in LayerType /\ SegmentsFit(h) /\ h.path = r.path
    BY <2>4, Zenon DEF Follows
  <2>6. Follows(h, q) /\ q.phase = "data"
    BY <2>2, <2>5, HalfFollows
  <2> HIDE DEF q
  <2>7. r.phase # "finished" /\ "data" # "finished"
    BY <2>2, <2>4
  <2>8. Follows(r, q)
    BY <2>5, <2>6, <2>7, Zenon DEF Follows
  <2> QED BY <2>2, <2>3, <2>6, <2>7, <2>8, ReplaceLayer, Zenon
<1> QED BY <1>2, <1>3, <1>4, <1>5, <1>6, <1>7, <1>8, <1>9, Zenon DEF ToolpathNext

(* SameHalf, SameFinished, FollowsIs: what a layer takes over from another *)
(* one with the same segments or the same stream.                          *)
LEMMA SameHalf ==
  ASSUME NEW r, NEW q, q.segments = r.segments
  PROVE  HasHalf(q) <=> HasHalf(r)
BY DEF HasHalf

LEMMA SameFinished ==
  ASSUME NEW r, NEW q, q.stream = r.stream
  PROVE  Finished(q) <=> Finished(r)
BY DEF Finished

LEMMA FollowsIs ==
  ASSUME NEW r, NEW q, Follows(r, q)
  PROVE  q \in LayerType /\ SegmentsFit(q)
BY Zenon DEF Follows

(* SameStreams: a step that leaves the streams alone.                      *)
LEMMA SameStreams ==
  ASSUME StreamsInv, streams' = streams
  PROVE  /\ streams' \in [Streams -> {"empty", "used", "finished"}]
         /\ \A s \in Streams : streams'[s] = "finished" <=> streams[s] = "finished"
BY Zenon DEF StreamsInv

(* SameLayerStreams: a step that replaces one layer, by one with no        *)
(* half-written segment unless its stream is finished.                     *)
LEMMA SameLayerStreams ==
  ASSUME ToolpathInv, StreamsInv, NEW l \in DOMAIN layers, NEW q \in LayerType,
         layers' = [layers EXCEPT ![l] = q], exports' = exports,
         streams' \in [Streams -> {"empty", "used", "finished"}],
         \A s \in Streams : streams'[s] = "finished" <=> streams[s] = "finished",
         HasHalf(q) => Finished(q)
  PROVE  StreamsInv'
<1>1. layers \in Seq(LayerType)
  BY Zenon DEF ToolpathInv, ToolpathType
<1>2. /\ DOMAIN layers' = DOMAIN layers /\ layers'[l] = q
      /\ \A k \in DOMAIN layers : k # l => layers'[k] = layers[k]
      /\ \A k \in DOMAIN layers : layers[k] \in LayerType
  BY ONLY <1>1, l \in DOMAIN layers, layers' = [layers EXCEPT ![l] = q]
<1>3. ASSUME NEW d \in LayerType, Finished(d) PROVE \E s \in d.stream : streams'[s] = "finished"
  <2>1. PICK s \in d.stream : streams[s] = "finished"
    BY <1>3 DEF Finished
  <2>2. s \in Streams
    BY <2>1, LayerTypes
  <2> QED BY <2>1, <2>2
<1>4. ASSUME NEW k \in DOMAIN layers', HasHalf(layers'[k])
      PROVE  \E s \in layers'[k].stream : streams'[s] = "finished"
  <2>1. CASE k = l
    BY <1>2, <1>3, <1>4, <2>1
  <2>2. CASE k # l
    <3>1. layers'[k] = layers[k] /\ layers[k] \in LayerType /\ k \in DOMAIN layers
      BY <1>2, <2>2
    <3>2. Finished(layers[k])
      BY <1>4, <3>1, Zenon DEF StreamsInv
    <3>3. \E s \in layers[k].stream : streams'[s] = "finished"
      BY <1>3, <3>1, <3>2
    <3> QED BY <3>1, <3>3
  <2> QED BY <2>1, <2>2
<1>5. \A k \in DOMAIN layers' : HasHalf(layers'[k]) => Finished(layers[k])'
  BY <1>4 DEF Finished
<1>6. \A k \in DOMAIN layers' : HasHalf(layers[k])' <=> HasHalf(layers'[k])
  BY DEF HasHalf
<1>7. exports' = <<>> => \A s \in Streams : streams'[s] # "finished"
  BY DEF StreamsInv
<1>8. exports' # <<>> => \A p \in DOMAIN exports'[1].parts : exports'[1].parts[p].unclosed = 0
  BY DEF StreamsInv
<1> QED BY <1>5, <1>6, <1>7, <1>8 DEF StreamsInv

(* FirstParts: before any export the parts handed over have no open        *)
(* element.                                                                *)
LEMMA FirstParts ==
  ASSUME ToolpathInv, StreamsInv, exports = <<>>
  PROVE  \A p \in DOMAIN handed : handed[p].unclosed = 0
<1> SUFFICES ASSUME NEW p \in DOMAIN handed PROVE handed[p].unclosed = 0
  OBVIOUS
<1>1. layers \in Seq(LayerType) /\ PartsOf(layers, handed)
  BY Zenon DEF ToolpathInv, ToolpathType
<1>2. PICK l \in FinishedIn(layers, p) : handed[p] = Text(layers[l])
  BY <1>1, Zenon DEF PartsOf
<1>3. l \in DOMAIN layers /\ layers[l].phase = "finished"
  BY <1>2 DEF FinishedIn
<1>4. layers[l] \in LayerType
  BY ONLY <1>1, <1>3
<1>5. SegmentsFit(layers[l])
  BY <1>3, Zenon DEF ToolpathInv
<1>6. ~HasHalf(layers[l])
  <2>1. HasHalf(layers[l]) => Finished(layers[l])
    BY <1>3, Zenon DEF StreamsInv
  <2>2. layers[l].stream \in SUBSET Streams
    BY <1>4, LayerTypes
  <2>3. \A s \in Streams : streams[s] # "finished"
    BY Zenon DEF StreamsInv
  <2> QED BY <2>1, <2>2, <2>3 DEF Finished
<1>7. layers[l].depth = 2
  BY <1>3, <1>5, <1>6 DEF SegmentsFit
<1> QED BY <1>2, <1>7 DEF Text

(* StreamsStep: every operation keeps what is known of the streams.        *)
LEMMA StreamsStep ==
  ASSUME ToolpathInv, StreamsInv, [ToolpathNext]_toolpathVars
  PROVE  StreamsInv'
<1>1. layers \in Seq(LayerType) /\ streams \in [Streams -> {"empty", "used", "finished"}]
  BY Zenon DEF ToolpathInv, ToolpathType, StreamsInv
<1>2. \A l \in DOMAIN layers :
        /\ layers[l] \in LayerType
        /\ SegmentsFit(layers[l])
        /\ HasHalf(layers[l]) => Finished(layers[l])
  <2>1. \A l \in DOMAIN layers : layers[l] \in LayerType
    BY ONLY <1>1
  <2> QED BY <2>1, Zenon DEF ToolpathInv, StreamsInv
<1>3. CASE AddLayer
  <2>1. PICK path \in LayerPaths : layers' = Append(layers, NewLayer(path))
    BY <1>3 DEF AddLayer
  <2>2. exports' = exports /\ streams' = streams
    BY <1>3 DEF AddLayer
  <2> DEFINE q == NewLayer(path)
  <2>3. ~HasHalf(q)
    <3>1. q.segments = <<>> /\ DOMAIN <<>> = {}
      BY DEF NewLayer
    <3> QED BY <3>1 DEF HasHalf
  <2>4. layers' = Append(layers, q)
    BY <2>1
  <2> HIDE DEF q
  <2>5. /\ DOMAIN layers' = DOMAIN layers \cup {Len(layers) + 1}
        /\ layers'[Len(layers) + 1] = q
        /\ \A k \in DOMAIN layers : layers'[k] = layers[k]
    BY ONLY <1>1, <2>4
  <2>6. \A k \in DOMAIN layers' : HasHalf(layers'[k]) => k \in DOMAIN layers
    BY <2>3, <2>5
  <2>7. ASSUME NEW k \in DOMAIN layers', HasHalf(layers'[k])
        PROVE  \E s \in layers'[k].stream : streams[s] = "finished"
    <3>1. k \in DOMAIN layers
      BY <2>6, <2>7
    <3>2. layers'[k] = layers[k]
      BY <2>5, <3>1
    <3>3. Finished(layers[k])
      BY <1>2, <2>7, <3>1, <3>2, Zenon
    <3> QED BY <3>2, <3>3, Zenon DEF Finished
  <2>8. (\A l \in DOMAIN layers : HasHalf(layers[l]) => Finished(layers[l]))'
    BY <2>2, <2>7 DEF HasHalf, Finished
  <2> QED BY <2>2, <2>8 DEF StreamsInv
<1>4. CASE Register
  <2>1. PICK l \in DOMAIN layers :
          /\ layers[l].phase = "header"
          /\ SetLayer(l, [layers[l] EXCEPT !.ids = Append(@, layers[l].next), !.next = @ + 1])
    BY <1>4 DEF Register
  <2> DEFINE q == [layers[l] EXCEPT !.ids = Append(@, layers[l].next), !.next = @ + 1]
  <2>2. Follows(layers[l], q) /\ q.segments = layers[l].segments /\ q.stream = layers[l].stream
    BY <1>2, <2>1, RegisterFollows
  <2>3. layers' = [layers EXCEPT ![l] = q] /\ exports' = exports /\ streams' = streams
    BY <1>4, <2>1 DEF SetLayer, Register
  <2> HIDE DEF q
  <2>4. q \in LayerType
    BY <2>2, FollowsIs, Zenon
  <2>5. HasHalf(q) => Finished(q)
    BY <1>2, <2>2, SameHalf, SameFinished, Zenon
  <2>6. /\ streams' \in [Streams -> {"empty", "used", "finished"}]
        /\ \A s \in Streams : streams'[s] = "finished" <=> streams[s] = "finished"
    BY <2>3, SameStreams
  <2> QED BY <2>3, <2>4, <2>5, <2>6, SameLayerStreams, Zenon
<1>5. CASE AssignLayerStream
  <2>1. PICK l \in DOMAIN layers, s \in Streams :
          /\ layers[l].stream = {}
          /\ SetLayer(l, [layers[l] EXCEPT !.stream = {s}, !.late = layers[l].phase # "header"])
    BY <1>5 DEF AssignLayerStream
  <2> DEFINE q == [layers[l] EXCEPT !.stream = {s}, !.late = layers[l].phase # "header"]
  <2>2. Follows(layers[l], q) /\ q.segments = layers[l].segments
    BY <1>2, AssignFollows
  <2>3. layers' = [layers EXCEPT ![l] = q] /\ exports' = exports /\ streams' = streams
    BY <1>5, <2>1 DEF SetLayer, AssignLayerStream
  <2> HIDE DEF q
  <2>4. ~HasHalf(q)
    <3>1. ~Finished(layers[l])
      BY <2>1 DEF Finished
    <3>2. ~HasHalf(layers[l])
      BY <1>2, <3>1, Zenon
    <3> QED BY <2>2, <3>2, SameHalf, Zenon
  <2>5. q \in LayerType
    BY <2>2, FollowsIs, Zenon
  <2>6. /\ streams' \in [Streams -> {"empty", "used", "finished"}]
        /\ \A t \in Streams : streams'[t] = "finished" <=> streams[t] = "finished"
    BY <2>3, SameStreams
  <2> QED BY <2>3, <2>4, <2>5, <2>6, SameLayerStreams, Zenon
<1>6. CASE WriteSegment
  <2>1. PICK l \in DOMAIN layers :
          LET h == finishHeader(layers[l]) IN
          /\ h.phase = "data" /\ ~Finished(h)
          /\ SetLayer(l, [h EXCEPT !.segments = Append(@, IF h.stream # {} THEN "stream" ELSE "text")])
          /\ streams' = [s \in Streams |-> IF s \in h.stream THEN "used" ELSE streams[s]]
    BY <1>6 DEF WriteSegment
  <2> DEFINE h == finishHeader(layers[l])
             q == [h EXCEPT !.segments = Append(@, IF h.stream # {} THEN "stream" ELSE "text")]
  <2>2. Follows(layers[l], h) /\ h.segments = layers[l].segments /\ h.stream = layers[l].stream
    BY <1>2, HeaderFollows
  <2>3. h \in LayerType /\ SegmentsFit(h) /\ h.phase = "data" /\ ~Finished(h)
    BY <2>1, <2>2 DEF Follows
  <2>4. streams' = [s \in Streams |-> IF s \in h.stream THEN "used" ELSE streams[s]]
    BY <2>1
  <2>5. layers' = [layers EXCEPT ![l] = q] /\ exports' = exports
    BY <2>1 DEF SetLayer
  <2> HIDE DEF h
  <2>6. Follows(h, q) /\ (HasHalf(q) <=> HasHalf(h))
    BY <2>3, SegmentFollows
  <2> HIDE DEF q
  <2>7. ~HasHalf(q)
    <3>1. ~Finished(layers[l])
      BY <2>2, <2>3, SameFinished, Zenon
    <3>2. ~HasHalf(layers[l])
      BY <1>2, <3>1, Zenon
    <3> QED BY <2>2, <2>6, <3>2, SameHalf, Zenon
  <2>8. /\ streams' \in [Streams -> {"empty", "used", "finished"}]
        /\ \A s \in Streams : streams'[s] = "finished" <=> streams[s] = "finished"
    <3>1. \A s \in h.stream : streams[s] # "finished"
      BY <2>3 DEF Finished
    <3> QED BY <1>1, <2>4, <3>1
  <2>9. q \in LayerType
    BY <2>6, FollowsIs, Zenon
  <2> QED BY <2>5, <2>7, <2>8, <2>9, SameLayerStreams, Zenon
<1>7. CASE WriteSegmentThrows
  <2>1. PICK l \in DOMAIN layers :
          LET h == finishHeader(layers[l]) IN
          /\ h.phase = "data" /\ Finished(h)
          /\ SetLayer(l, [h EXCEPT !.segments = Append(@, "half"), !.depth = @ + 1])
          /\ streams' = streams
    BY <1>7 DEF WriteSegmentThrows
  <2> DEFINE h == finishHeader(layers[l])
             q == [h EXCEPT !.segments = Append(@, "half"), !.depth = @ + 1]
  <2>2. Follows(layers[l], h)
    BY <1>2, HeaderFollows
  <2>3. h \in LayerType /\ SegmentsFit(h) /\ h.phase = "data" /\ Finished(h)
    BY <2>1, <2>2 DEF Follows
  <2>4. layers' = [layers EXCEPT ![l] = q] /\ exports' = exports /\ streams' = streams
    BY <2>1 DEF SetLayer
  <2> HIDE DEF h
  <2>5. Follows(h, q) /\ q.stream = h.stream
    BY <2>3, HalfFollows
  <2> HIDE DEF q
  <2>6. q \in LayerType
    BY <2>5, FollowsIs, Zenon
  <2>7. Finished(q)
    BY <2>3, <2>5, SameFinished, Zenon
  <2>8. /\ streams' \in [Streams -> {"empty", "used", "finished"}]
        /\ \A s \in Streams : streams'[s] = "finished" <=> streams[s] = "finished"
    BY <2>4, SameStreams
  <2> QED BY <2>4, <2>6, <2>7, <2>8, SameLayerStreams, Zenon
<1>8. CASE FinishLayer
  <2>1. PICK l \in DOMAIN layers : finishWriting(l)
    BY <1>8 DEF FinishLayer
  <2> DEFINE h == finishHeader(layers[l])
             q == [h EXCEPT !.phase = "finished"]
  <2>2. /\ layers[l].phase # "finished" /\ layers' = [layers EXCEPT ![l] = q]
        /\ exports' = exports /\ streams' = streams
    BY <2>1 DEF finishWriting
  <2>3. /\ Follows(layers[l], h) /\ h.segments = layers[l].segments /\ h.stream = layers[l].stream
        /\ h.phase = IF layers[l].phase = "header" THEN "data" ELSE layers[l].phase
    BY <1>2, HeaderFollows
  <2>4. h \in LayerType /\ SegmentsFit(h) /\ h.phase = "data"
    <3>1. layers[l].phase \in {"header", "data", "finished"}
      BY <1>2, LayerTypes
    <3>2. h.phase = "data"
      BY <2>2, <2>3, <3>1
    <3> QED BY <2>3, <3>2 DEF Follows
  <2> HIDE DEF h
  <2>5. Follows(h, q) /\ q.segments = h.segments /\ q.stream = h.stream
    BY <2>4, FinishFollows
  <2> HIDE DEF q
  <2>6. q \in LayerType
    BY <2>5, FollowsIs, Zenon
  <2>7. HasHalf(q) => Finished(q)
    <3>1. q.segments = layers[l].segments /\ q.stream = layers[l].stream
      BY <2>3, <2>5
    <3> QED BY <1>2, <3>1, SameHalf, SameFinished, Zenon
  <2>8. /\ streams' \in [Streams -> {"empty", "used", "finished"}]
        /\ \A s \in Streams : streams'[s] = "finished" <=> streams[s] = "finished"
    BY <2>2, SameStreams
  <2> QED BY <2>2, <2>6, <2>7, <2>8, SameLayerStreams, Zenon
<1>9. CASE ExportLayers
  <2> DEFINE x == [listed |-> layers, parts |-> handed]
  <2>1. /\ layers' = layers /\ exports' = Append(exports, x)
        /\ streams' = [s \in Streams |-> IF streams[s] = "used" THEN "finished" ELSE streams[s]]
    BY <1>9 DEF ExportLayers
  <2>2. x.parts = handed
    OBVIOUS
  <2> HIDE DEF x
  <2>3. exports \in Seq([listed : Seq(LayerType), parts : PartsType])
    BY Zenon DEF ToolpathInv, ToolpathType
  <2>4. /\ streams' \in [Streams -> {"empty", "used", "finished"}]
        /\ \A s \in Streams : streams[s] = "finished" => streams'[s] = "finished"
    BY <1>1, <2>1
  <2>5. (\A l \in DOMAIN layers : HasHalf(layers[l]) => Finished(layers[l]))'
    <3>1. ASSUME NEW l \in DOMAIN layers, HasHalf(layers[l])
          PROVE  \E s \in layers[l].stream : streams'[s] = "finished"
      <4>1. PICK s \in layers[l].stream : streams[s] = "finished"
        <5>1. Finished(layers[l])
          BY <1>2, <3>1, Zenon
        <5> QED BY <5>1, Zenon DEF Finished
      <4>2. s \in Streams
        <5>1. layers[l] \in LayerType
          BY <1>2, Zenon
        <5>2. layers[l].stream \in SUBSET Streams
          BY <5>1, LayerTypes, Zenon
        <5> QED BY <4>1, <5>2
      <4> QED BY <2>4, <4>1, <4>2
    <3> QED BY <2>1, <3>1 DEF HasHalf, Finished
  <2>6. exports' # <<>>
    BY ONLY <2>1, <2>3
  <2>7. \A p \in DOMAIN exports'[1].parts : exports'[1].parts[p].unclosed = 0
    <3>1. CASE exports = <<>>
      <4>1. exports'[1] = x
        BY ONLY <2>1, <3>1
      <4> QED BY <2>2, <3>1, <4>1, FirstParts
    <3>2. CASE exports # <<>>
      <4>1. exports'[1] = exports[1]
        BY ONLY <2>1, <2>3, <3>2
      <4>2. \A p \in DOMAIN exports[1].parts : exports[1].parts[p].unclosed = 0
        BY <3>2, Zenon DEF StreamsInv
      <4> QED BY <4>1, <4>2
    <3> QED BY <3>1, <3>2
  <2> QED BY <2>4, <2>5, <2>6, <2>7 DEF StreamsInv
<1>10. CASE UNCHANGED toolpathVars
  <2>1. layers' = layers /\ exports' = exports /\ streams' = streams
    BY <1>10 DEF toolpathVars
  <2> QED BY <2>1, Zenon DEF StreamsInv, HasHalf, Finished
<1> QED BY <1>3, <1>4, <1>5, <1>6, <1>7, <1>8, <1>9, <1>10 DEF ToolpathNext

(* ListedParts: the parts of an export are what ListedLayersHaveTheirParts *)
(* says, because a listed layer stays and a finished one keeps its text.   *)
LEMMA ListedParts == ToolpathInv /\ StreamsInv => ListedLayersHaveTheirParts
<1> SUFFICES ASSUME ToolpathInv, StreamsInv PROVE ListedLayersHaveTheirParts
  OBVIOUS
<1>1. exports \in Seq([listed : Seq(LayerType), parts : PartsType])
  BY Zenon DEF ToolpathInv, ToolpathType
<1>2. DOMAIN exports = 1..Len(exports) /\ Len(exports) \in Nat
  BY ONLY <1>1
<1>3. ASSUME NEW e \in DOMAIN exports, NEW l \in DOMAIN exports[e].listed,
             NEW p, p = exports[e].listed[l].path
      PROVE  /\ p \in DOMAIN exports[e].parts <=> FinishedIn(exports[e].listed, p) # {}
             /\ p \in DOMAIN exports[e].parts =>
                  /\ exports[e].parts[p] \in {Text(layers[k]) : k \in FinishedIn(exports[e].listed, p)}
                  /\ \A later \in e..Len(exports) : exports[later].parts[p] = exports[e].parts[p]
                  /\ e = 1 => exports[e].parts[p].unclosed = 0
  <2> DEFINE list == exports[e].listed
             parts == exports[e].parts
  <2>1. ListedStays(list, layers) /\ PartsOf(list, parts)
    BY Zenon DEF ToolpathInv
  <2>2. \A f \in DOMAIN exports : e <= f => Kept(parts, exports[f].parts)
    BY Zenon DEF ToolpathInv
  <2> HIDE DEF list, parts
  <2>3. p \in DOMAIN parts <=> FinishedIn(list, p) # {}
    BY <2>1, Zenon DEF PartsOf
  <2>4. ASSUME p \in DOMAIN parts
        PROVE  parts[p] \in {Text(layers[k]) : k \in FinishedIn(list, p)}
    <3>1. PICK k \in FinishedIn(list, p) : parts[p] = Text(list[k])
      BY <2>1, <2>4, Zenon DEF PartsOf
    <3>2. Text(layers[k]) = Text(list[k])
      BY <2>1, <3>1, Zenon DEF FinishedIn, ListedStays
    <3> QED BY <3>1, <3>2, Zenon
  <2>5. ASSUME p \in DOMAIN parts, NEW later \in e..Len(exports)
        PROVE  exports[later].parts[p] = parts[p]
    <3>1. later \in DOMAIN exports /\ e <= later
      BY ONLY <1>2, later \in e..Len(exports), e \in DOMAIN exports
    <3> QED BY <2>2, <2>5, <3>1, Zenon DEF Kept
  <2>6. ASSUME p \in DOMAIN parts, e = 1 PROVE parts[p].unclosed = 0
    <3>1. exports # <<>>
      BY <1>2
    <3> QED BY <2>6, <3>1 DEF StreamsInv, parts
  <2> QED BY <2>3, <2>4, <2>5, <2>6, Zenon DEF list, parts
<1>4. ASSUME NEW l \in DOMAIN layers
      PROVE  LET a == layers[l]
                 Halves == {s \in DOMAIN a.segments : a.segments[s] = "half"}
             IN  /\ ~a.late => \A s \in DOMAIN a.segments \ Halves :
                                    a.segments[s] = "stream" <=> a.names
                 /\ a.phase = "finished" => (Text(a).unclosed = 0 <=> Halves = {})
                 /\ Halves # {} => Finished(a)
  <2> DEFINE d == layers[l]
  <2>1. SegmentsFit(d) /\ (HasHalf(d) => Finished(d))
    BY Zenon DEF ToolpathInv, StreamsInv
  <2>2. layers \in Seq(LayerType)
    BY Zenon DEF ToolpathInv, ToolpathType
  <2>3. d \in LayerType
    BY ONLY <2>2, l \in DOMAIN layers
  <2> HIDE DEF d
  <2>4. d.depth \in Nat
    BY <2>3, LayerTypes
  <2> DEFINE Halves == {s \in DOMAIN d.segments : d.segments[s] = "half"}
  <2>5. HasHalf(d) <=> Halves # {}
    BY DEF HasHalf
  <2>6. ~d.late => \A s \in DOMAIN d.segments \ Halves : d.segments[s] = "stream" <=> d.names
    BY <2>1 DEF SegmentsFit
  <2> HIDE DEF Halves
  <2>7. d.phase = "finished" => (Text(d).unclosed = 0 <=> Halves = {})
    <3>1. Text(d).unclosed = d.depth - 2
      BY DEF Text
    <3>2. d.phase = "finished" => d.depth >= 2 /\ (d.depth = 2 <=> Halves = {})
      BY <2>1, <2>5 DEF SegmentsFit
    <3>3. d.depth - 2 = 0 <=> d.depth = 2
      BY ONLY <2>4
    <3> QED BY <3>1, <3>2, <3>3
  <2>8. Halves # {} => Finished(d)
    BY <2>1, <2>5
  <2> QED BY <2>6, <2>7, <2>8, Zenon DEF d, Halves
<1>5. ASSUME NEW e \in DOMAIN exports, NEW l \in DOMAIN exports[e].listed
      PROVE  LET x == exports[e]
                 p == x.listed[l].path
                 Done == {k \in DOMAIN x.listed : x.listed[k].path = p /\ x.listed[k].phase = "finished"}
             IN  /\ p \in DOMAIN x.parts <=> Done # {}
                 /\ p \in DOMAIN x.parts =>
                      /\ x.parts[p] \in {Text(layers[k]) : k \in Done}
                      /\ \A later \in e..Len(exports) : exports[later].parts[p] = x.parts[p]
                      /\ e = 1 => x.parts[p].unclosed = 0
  <2> DEFINE p == exports[e].listed[l].path
  <2>1. FinishedIn(exports[e].listed, p)
          = {k \in DOMAIN exports[e].listed :
               exports[e].listed[k].path = p /\ exports[e].listed[k].phase = "finished"}
    BY DEF FinishedIn
  <2>2. p = exports[e].listed[l].path
    OBVIOUS
  <2> HIDE DEF p
  <2>3. /\ p \in DOMAIN exports[e].parts <=> FinishedIn(exports[e].listed, p) # {}
        /\ p \in DOMAIN exports[e].parts =>
             /\ exports[e].parts[p] \in {Text(layers[k]) : k \in FinishedIn(exports[e].listed, p)}
             /\ \A later \in e..Len(exports) : exports[later].parts[p] = exports[e].parts[p]
             /\ e = 1 => exports[e].parts[p].unclosed = 0
    BY <1>3, <2>2, Zenon
  <2>4. /\ p \in DOMAIN exports[e].parts <=>
             {k \in DOMAIN exports[e].listed :
               exports[e].listed[k].path = p /\ exports[e].listed[k].phase = "finished"} # {}
        /\ p \in DOMAIN exports[e].parts =>
             exports[e].parts[p] \in {Text(layers[k]) : k \in
               {k \in DOMAIN exports[e].listed :
                  exports[e].listed[k].path = p /\ exports[e].listed[k].phase = "finished"}}
    BY ONLY <2>1, <2>3, Zenon
  <2> QED BY <2>3, <2>4 DEF p
<1> QED BY <1>4, <1>5, Zenon DEF ListedLayersHaveTheirParts

(* ToolpathCorrect: every export of a toolpath has a part for exactly the  *)
(* listed paths that have a finished layer, with that layer's whole text,  *)
(* and the first export has no text with open elements, for any number of  *)
(* layers, segments, streams, paths and exports.                           *)
THEOREM ToolpathCorrect == ToolpathSpec => []ListedLayersHaveTheirParts
<1>1. ToolpathInit => ToolpathInv /\ StreamsInv
  <2>1. ToolpathInit => StreamsInv
    BY DEF ToolpathInit, StreamsInv
  <2> QED BY <2>1, ToolpathStart
<1>2. (ToolpathInv /\ StreamsInv) /\ [ToolpathNext]_toolpathVars => (ToolpathInv /\ StreamsInv)'
  BY ToolpathStep, StreamsStep
<1> QED BY <1>1, <1>2, ListedParts, PTL DEF ToolpathSpec

-----------------------------------------------------------------------------
(* Metadata groups. *)

DatumType == [ns : NameSpaces, name : Names]

MetaDataInv ==
  /\ data \in Seq(DatumType)
  /\ m_MetaData \in Seq(Nat) /\ \A i \in DOMAIN m_MetaData : m_MetaData[i] \in DOMAIN data
  /\ renamed \in BOOLEAN
  /\ DistinctUnlessRenamed

(* AddedDatum: a datum is added under a key that the map does not have.    *)
LEMMA AddedDatum ==
  ASSUME MetaDataInv, NEW ns \in NameSpaces, NEW name \in Names, addMetaData(ns, name)
  PROVE  MetaDataInv'
<1> DEFINE n == Len(data) + 1
           d == [ns |-> ns, name |-> name]
           m == Len(m_MetaData) + 1
<1>1. data \in Seq(DatumType) /\ m_MetaData \in Seq(Nat) /\ \A i \in DOMAIN m_MetaData : m_MetaData[i] \in DOMAIN data
  BY DEF MetaDataInv
<1>2. /\ <<ns, name>> \notin m_MetaDataMap
      /\ data' = Append(data, d) /\ m_MetaData' = Append(m_MetaData, n)
      /\ m_MetaDataMap' = m_MetaDataMap \cup {<<ns, name>>} /\ renamed' = renamed
  BY Zenon DEF addMetaData, hasMetaData
<1>3. d \in DatumType /\ d.ns = ns /\ d.name = name
  BY DEF DatumType
<1>4. n \in Nat /\ m \in Nat /\ n \notin DOMAIN data
  BY <1>1
<1> HIDE DEF d
<1>5. /\ data' \in Seq(DatumType) /\ DOMAIN data' = DOMAIN data \cup {n} /\ data'[n] = d
      /\ \A i \in DOMAIN data : data'[i] = data[i]
  BY ONLY <1>1, <1>2, <1>3
<1> HIDE DEF n
<1>6. /\ m_MetaData' \in Seq(Nat) /\ DOMAIN m_MetaData' = DOMAIN m_MetaData \cup {m} /\ m_MetaData'[m] = n
      /\ \A i \in DOMAIN m_MetaData : m_MetaData'[i] = m_MetaData[i]
  BY ONLY <1>1, <1>2, <1>4
<1> HIDE DEF m
<1>7. \A i \in DOMAIN m_MetaData' : m_MetaData'[i] \in DOMAIN data'
  BY ONLY <1>1, <1>5, <1>6
<1> DEFINE K(i) == <<data[m_MetaData[i]].ns, data[m_MetaData[i]].name>>
           L(i) == <<data'[m_MetaData'[i]].ns, data'[m_MetaData'[i]].name>>
<1>8. ASSUME ~renamed'
      PROVE  /\ \A i, j \in DOMAIN m_MetaData' : L(i) = L(j) => i = j
             /\ \A i \in DOMAIN m_MetaData' : L(i) \in m_MetaDataMap'
  <2>1. /\ \A i, j \in DOMAIN m_MetaData : K(i) = K(j) => i = j
        /\ \A i \in DOMAIN m_MetaData : K(i) \in m_MetaDataMap
    BY <1>2, <1>8, Zenon DEF MetaDataInv, DistinctUnlessRenamed, key
  <2>2. \A i \in DOMAIN m_MetaData : L(i) = K(i)
    BY ONLY <1>1, <1>5, <1>6, Zenon
  <2>3. L(m) = <<ns, name>>
    BY ONLY <1>3, <1>5, <1>6, Zenon
  <2>4. \A i \in DOMAIN m_MetaData' : i = m \/ i \in DOMAIN m_MetaData
    BY ONLY <1>6
  <2> HIDE DEF K, L
  <2> QED BY ONLY <1>2, <2>1, <2>2, <2>3, <2>4, SMTT(60)
<1>9. DistinctUnlessRenamed'
  BY ONLY <1>8, Zenon DEF DistinctUnlessRenamed, key
<1>10. renamed' \in BOOLEAN
  BY <1>2 DEF MetaDataInv
<1> QED BY <1>5, <1>6, <1>7, <1>9, <1>10, Zenon DEF MetaDataInv

(* RemovedDatum: a datum leaves the list, by its index or by its name; the *)
(* others keep theirs, and the map keeps all keys.                         *)
LEMMA RemovedDatum ==
  ASSUME MetaDataInv, NEW index, removeMetaData(index)
  PROVE  MetaDataInv'
<1> DEFINE t == RemoveAt(m_MetaData, index)
<1>1. data \in Seq(DatumType) /\ m_MetaData \in Seq(Nat) /\ \A i \in DOMAIN m_MetaData : m_MetaData[i] \in DOMAIN data
  BY DEF MetaDataInv
<1>2. /\ index \in DOMAIN m_MetaData /\ m_MetaData' = t
      /\ data' = data /\ m_MetaDataMap' = m_MetaDataMap /\ renamed' = renamed
  BY DEF removeMetaData
<1>3. index \in 1..Len(m_MetaData)
  BY <1>1, <1>2
<1> HIDE DEF t
<1>4. t = RemoveAt(m_MetaData, index)
  BY DEF t
<1>5. t \in Seq(Nat)
  BY ONLY <1>1, <1>3, <1>4, Removed
<1>6. PICK old \in [DOMAIN t -> DOMAIN m_MetaData] :
        /\ \A k \in DOMAIN t : t[k] = m_MetaData[old[k]]
        /\ \A k, l \in DOMAIN t : old[k] = old[l] => k = l
  <2>1. m_MetaData \in Seq(Nat)
    BY <1>1
  <2> QED BY ONLY <1>3, <1>4, <2>1, RemovedFrom
<1>7. \A i \in DOMAIN t : old[i] \in DOMAIN m_MetaData
  BY ONLY <1>6
<1>8. \A i \in DOMAIN t : t[i] \in DOMAIN data
  BY ONLY <1>1, <1>6, <1>7
<1>9. ASSUME ~renamed
      PROVE  /\ \A i, j \in DOMAIN t : key(t[i]) = key(t[j]) => i = j
             /\ \A i \in DOMAIN t : key(t[i]) \in m_MetaDataMap
  <2>1. /\ \A i, j \in DOMAIN m_MetaData : key(m_MetaData[i]) = key(m_MetaData[j]) => i = j
        /\ \A i \in DOMAIN m_MetaData : key(m_MetaData[i]) \in m_MetaDataMap
    BY <1>9 DEF MetaDataInv, DistinctUnlessRenamed
  <2> HIDE DEF key
  <2> QED BY ONLY <1>6, <1>7, <2>1
<1>10. \A k : key(k)' = <<data[k].ns, data[k].name>>
  BY <1>2 DEF key
<1>11. DistinctUnlessRenamed'
  BY <1>2, <1>9, <1>10 DEF DistinctUnlessRenamed, key
<1> QED BY <1>1, <1>2, <1>5, <1>8, <1>11 DEF MetaDataInv

(* MetaDataStep: every operation on the group keeps the invariant.         *)
LEMMA MetaDataStep == MetaDataInv /\ [MetaDataNext]_metaDataVars => MetaDataInv'
<1> SUFFICES ASSUME MetaDataInv, [MetaDataNext]_metaDataVars PROVE MetaDataInv'
  OBVIOUS
<1>1. data \in Seq(DatumType) /\ m_MetaData \in Seq(Nat) /\ \A i \in DOMAIN m_MetaData : m_MetaData[i] \in DOMAIN data
  BY DEF MetaDataInv
<1>2. ASSUME NEW ns \in NameSpaces, NEW name \in Names, addMetaData(ns, name) PROVE MetaDataInv'
  BY <1>2, AddedDatum
<1>3. ASSUME NEW index, removeMetaData(index) PROVE MetaDataInv'
  BY <1>3, RemovedDatum
<1>4. ASSUME NEW d \in DOMAIN data, NEW name \in Names, setName(d, name) PROVE MetaDataInv'
  <2>1. data' = [data EXCEPT ![d].name = name] /\ renamed' = TRUE /\ m_MetaData' = m_MetaData
    BY <1>4, Zenon DEF setName
  <2>2. data' \in Seq(DatumType) /\ DOMAIN data' = DOMAIN data
    <3> DEFINE e == [data[d] EXCEPT !.name = name]
    <3>1. data[d] \in DatumType
      BY ONLY <1>1, d \in DOMAIN data
    <3>2. e \in DatumType
      BY ONLY <3>1, name \in Names DEF DatumType
    <3>3. data' = [data EXCEPT ![d] = e]
      BY <2>1
    <3> HIDE DEF e
    <3> QED BY ONLY <1>1, <3>2, <3>3, d \in DOMAIN data
  <2>3. DistinctUnlessRenamed'
    BY <2>1, Zenon DEF DistinctUnlessRenamed
  <2> QED BY <1>1, <2>1, <2>2, <2>3, Zenon DEF MetaDataInv
<1>5. ASSUME NEW d \in DOMAIN data, NEW ns \in NameSpaces, setNameSpace(d, ns) PROVE MetaDataInv'
  <2>1. data' = [data EXCEPT ![d].ns = ns] /\ renamed' = TRUE /\ m_MetaData' = m_MetaData
    BY <1>5, Zenon DEF setNameSpace
  <2>2. data' \in Seq(DatumType) /\ DOMAIN data' = DOMAIN data
    <3> DEFINE e == [data[d] EXCEPT !.ns = ns]
    <3>1. data[d] \in DatumType
      BY ONLY <1>1, d \in DOMAIN data
    <3>2. e \in DatumType
      BY ONLY <3>1, ns \in NameSpaces DEF DatumType
    <3>3. data' = [data EXCEPT ![d] = e]
      BY <2>1
    <3> HIDE DEF e
    <3> QED BY ONLY <1>1, <3>2, <3>3, d \in DOMAIN data
  <2>3. DistinctUnlessRenamed'
    BY <2>1, Zenon DEF DistinctUnlessRenamed
  <2> QED BY <1>1, <2>1, <2>2, <2>3, Zenon DEF MetaDataInv
<1>6. ASSUME clear PROVE MetaDataInv'
  <2>1. data' = data /\ m_MetaData' = << >> /\ renamed' = renamed
    BY <1>6 DEF clear
  <2>2. m_MetaData' \in Seq(Nat) /\ DOMAIN m_MetaData' = {}
    BY <2>1
  <2>3. DistinctUnlessRenamed'
    BY <2>2, Zenon DEF DistinctUnlessRenamed
  <2> QED BY <1>1, <2>1, <2>2, <2>3, Zenon DEF MetaDataInv
<1>7. ASSUME UNCHANGED metaDataVars PROVE MetaDataInv'
  BY <1>7, Zenon DEF MetaDataInv, DistinctUnlessRenamed, key, metaDataVars
<1> QED BY <1>2, <1>3, <1>4, <1>5, <1>6, <1>7, Zenon
        DEF MetaDataNext, RemoveMetaDataByIndex, RemoveMetaData

(* MetaDataStart: a new group is empty.                                    *)
LEMMA MetaDataStart == MetaDataInit => MetaDataInv
<1> SUFFICES ASSUME MetaDataInit PROVE MetaDataInv
  OBVIOUS
<1>1. data = << >> /\ m_MetaData = << >> /\ renamed = FALSE
  BY DEF MetaDataInit
<1>2. data \in Seq(DatumType) /\ m_MetaData \in Seq(Nat) /\ DOMAIN m_MetaData = {}
  BY <1>1
<1> QED BY <1>1, <1>2, Zenon DEF MetaDataInv, DistinctUnlessRenamed

(* MetaDataCorrect: a group never has two data with one key and finds each *)
(* datum by its key, unless a client renamed one, for all names and        *)
(* namespaces and any number of data.                                      *)
THEOREM MetaDataCorrect == MetaDataSpec => []DistinctUnlessRenamed
<1>1. MetaDataInv => DistinctUnlessRenamed
  BY DEF MetaDataInv
<1> QED BY <1>1, MetaDataStart, MetaDataStep, PTL DEF MetaDataSpec

-----------------------------------------------------------------------------
(* UUIDs. *)

OwnerType == [type : OwnerTypes \cup {"build"}, uuid : Nat]

(* The UUIDs in use, and those the registry has, were drawn before.  Every *)
(* owner has its UUID from setUUID or from a constructor, so that it is    *)
(* registered or was drawn for a component, until one of those is reused.  *)
UUIDInv ==
  /\ owners \in Seq(OwnerType) /\ fresh \in Nat /\ reused \in BOOLEAN
  /\ \A u \in usedUUIDs : u \in Nat /\ u < fresh
  /\ \A o \in DOMAIN owners : owners[o].uuid < fresh
  /\ Registering = DOMAIN owners =>
       /\ usedUUIDs = {owners[o].uuid : o \in DOMAIN owners}
       /\ \A o, p \in DOMAIN owners : owners[o].uuid = owners[p].uuid => o = p
  /\ ~reused =>
       /\ \A o \in DOMAIN owners : owners[o].uuid \in usedUUIDs \cup drawn
       /\ \A o, p \in DOMAIN owners : owners[o].uuid = owners[p].uuid => o = p

(* AddedOwner: a constructor draws a UUID that nobody has.                 *)
LEMMA AddedOwner ==
  ASSUME UUIDInv, NEW type \in OwnerTypes, AddOwner(type)
  PROVE  UUIDInv'
<1> DEFINE new == [type |-> type, uuid |-> fresh]
           n == Len(owners) + 1
<1>1. owners \in Seq(OwnerType) /\ fresh \in Nat /\ reused \in BOOLEAN
  BY DEF UUIDInv
<1>2. /\ owners' = Append(owners, new)
      /\ usedUUIDs' = IF type = "component" THEN usedUUIDs ELSE usedUUIDs \cup {fresh}
      /\ drawn' = IF type = "component" THEN drawn \cup {fresh} ELSE drawn
      /\ fresh' = fresh + 1 /\ reused' = reused
  BY DEF AddOwner
<1>3. new \in OwnerType /\ new.type = type /\ new.uuid = fresh
  BY <1>1 DEF OwnerType
<1>4. n \notin DOMAIN owners
  BY <1>1
<1> HIDE DEF new
<1>5. /\ owners' \in Seq(OwnerType) /\ DOMAIN owners' = DOMAIN owners \cup {n} /\ owners'[n] = new
      /\ \A o \in DOMAIN owners : owners'[o] = owners[o]
      /\ \A o \in DOMAIN owners : owners[o] \in OwnerType
  BY ONLY <1>1, <1>2, <1>3
<1> HIDE DEF n
<1>6. \A o \in DOMAIN owners : owners[o].uuid \in Nat
  BY ONLY <1>5 DEF OwnerType
<1>7. (\A u \in usedUUIDs : u \in Nat /\ u < fresh) /\ (\A o \in DOMAIN owners : owners[o].uuid < fresh)
  BY DEF UUIDInv
<1>8. \A u \in usedUUIDs' : u \in Nat /\ u < fresh'
  BY ONLY <1>1, <1>2, <1>7
<1>9. \A o \in DOMAIN owners' : owners'[o].uuid < fresh'
  BY ONLY <1>1, <1>2, <1>3, <1>5, <1>6, <1>7
<1>10. ASSUME \A o, p \in DOMAIN owners : owners[o].uuid = owners[p].uuid => o = p
       PROVE  \A o, p \in DOMAIN owners' : owners'[o].uuid = owners'[p].uuid => o = p
  BY ONLY <1>1, <1>3, <1>5, <1>6, <1>7, <1>10
<1>11. ASSUME Registering' = DOMAIN owners'
       PROVE  /\ usedUUIDs' = {owners'[o].uuid : o \in DOMAIN owners'}
              /\ \A o, p \in DOMAIN owners' : owners'[o].uuid = owners'[p].uuid => o = p
  <2>1. \A o \in DOMAIN owners' : owners'[o].type # "component"
    BY <1>11 DEF Registering
  <2>2. type # "component" /\ Registering = DOMAIN owners
    BY <1>3, <1>5, <2>1 DEF Registering
  <2>3. /\ usedUUIDs = {owners[o].uuid : o \in DOMAIN owners}
        /\ \A o, p \in DOMAIN owners : owners[o].uuid = owners[p].uuid => o = p
    BY <2>2 DEF UUIDInv
  <2>4. usedUUIDs' = {owners'[o].uuid : o \in DOMAIN owners'}
    BY ONLY <1>2, <1>3, <1>5, <2>2, <2>3
  <2> QED BY <1>10, <2>3, <2>4
<1>12. ASSUME ~reused'
       PROVE  /\ \A o \in DOMAIN owners' : owners'[o].uuid \in usedUUIDs' \cup drawn'
              /\ \A o, p \in DOMAIN owners' : owners'[o].uuid = owners'[p].uuid => o = p
  <2>1. /\ \A o \in DOMAIN owners : owners[o].uuid \in usedUUIDs \cup drawn
        /\ \A o, p \in DOMAIN owners : owners[o].uuid = owners[p].uuid => o = p
    BY <1>2, <1>12 DEF UUIDInv
  <2>2. \A o \in DOMAIN owners' : owners'[o].uuid \in usedUUIDs' \cup drawn'
    BY ONLY <1>2, <1>3, <1>5, <2>1
  <2> QED BY <1>10, <2>1, <2>2
<1>13. fresh' \in Nat /\ reused' \in BOOLEAN
  BY ONLY <1>1, <1>2
<1> QED BY <1>5, <1>8, <1>9, <1>11, <1>12, <1>13, Zenon DEF UUIDInv

(* SetOwner: setUUID gives an owner a UUID that is not registered.         *)
LEMMA SetOwner ==
  ASSUME UUIDInv, NEW o \in DOMAIN owners, NEW uuid \in 1..fresh, SetUUID(o, uuid)
  PROVE  UUIDInv'
<1> DEFINE old == owners[o].uuid
           new == [owners[o] EXCEPT !.uuid = uuid]
<1>1. owners \in Seq(OwnerType) /\ fresh \in Nat /\ reused \in BOOLEAN /\ uuid \in Nat /\ uuid <= fresh
  BY DEF UUIDInv
<1>2. /\ uuid \notin usedUUIDs
      /\ usedUUIDs' = (usedUUIDs \cup {uuid}) \ {old}
      /\ owners' = [owners EXCEPT ![o] = new]
      /\ fresh' = IF uuid = fresh THEN fresh + 1 ELSE fresh
      /\ reused' = (reused \/ uuid \in drawn) /\ drawn' = drawn
  BY DEF SetUUID, registerUUID, Registered
<1>3. owners[o] \in OwnerType
  BY ONLY <1>1, o \in DOMAIN owners
<1>4. new \in OwnerType /\ new.type = owners[o].type /\ new.uuid = uuid /\ old \in Nat
  BY ONLY <1>1, <1>3 DEF OwnerType
<1> HIDE DEF new
<1>5. /\ owners' \in Seq(OwnerType) /\ DOMAIN owners' = DOMAIN owners /\ owners'[o] = new
      /\ \A p \in DOMAIN owners : p # o => owners'[p] = owners[p]
      /\ \A p \in DOMAIN owners : owners[p] \in OwnerType
  BY ONLY <1>1, <1>2, <1>4, o \in DOMAIN owners
<1>6. \A p \in DOMAIN owners : owners[p].uuid \in Nat
  BY ONLY <1>5 DEF OwnerType
<1>7. (\A u \in usedUUIDs : u \in Nat /\ u < fresh) /\ (\A p \in DOMAIN owners : owners[p].uuid < fresh)
  BY DEF UUIDInv
<1>8. fresh' \in Nat /\ fresh <= fresh' /\ uuid < fresh'
  BY ONLY <1>1, <1>2
<1>9. \A u \in usedUUIDs' : u \in Nat /\ u < fresh'
  BY ONLY <1>1, <1>2, <1>7, <1>8
<1>10. \A p \in DOMAIN owners' : owners'[p].uuid < fresh'
  BY ONLY <1>1, <1>4, <1>5, <1>6, <1>7, <1>8
<1>11. old = owners[o].uuid
  OBVIOUS
<1> HIDE DEF old
<1>12. ASSUME Registering' = DOMAIN owners'
       PROVE  /\ usedUUIDs' = {owners'[p].uuid : p \in DOMAIN owners'}
              /\ \A p, q \in DOMAIN owners' : owners'[p].uuid = owners'[q].uuid => p = q
  <2>1. \A p \in DOMAIN owners' : owners'[p].type # "component"
    BY <1>12 DEF Registering
  <2>2. \A p \in DOMAIN owners : owners[p].type # "component"
    BY ONLY <1>4, <1>5, <2>1
  <2>3. Registering = DOMAIN owners
    BY <2>2 DEF Registering
  <2>4. /\ usedUUIDs = {owners[p].uuid : p \in DOMAIN owners}
        /\ \A p, q \in DOMAIN owners : owners[p].uuid = owners[q].uuid => p = q
    BY <2>3 DEF UUIDInv
  <2>5. usedUUIDs' = {owners'[p].uuid : p \in DOMAIN owners'}
    <3>1. \A p \in DOMAIN owners' : owners'[p].uuid \in usedUUIDs'
      BY ONLY <1>2, <1>4, <1>5, <1>11, <2>4, o \in DOMAIN owners
    <3>2. \A u \in usedUUIDs' : \E p \in DOMAIN owners' : u = owners'[p].uuid
      BY ONLY <1>2, <1>4, <1>5, <1>11, <2>4, o \in DOMAIN owners
    <3> QED BY ONLY <3>1, <3>2
  <2>6. \A p, q \in DOMAIN owners' : owners'[p].uuid = owners'[q].uuid => p = q
    BY ONLY <1>2, <1>4, <1>5, <2>4
  <2> QED BY <2>5, <2>6
<1>13. ASSUME ~reused'
       PROVE  /\ \A p \in DOMAIN owners' : owners'[p].uuid \in usedUUIDs' \cup drawn'
              /\ \A p, q \in DOMAIN owners' : owners'[p].uuid = owners'[q].uuid => p = q
  <2>1. ~reused /\ uuid \notin drawn
    BY <1>1, <1>2, <1>13
  <2>2. /\ \A p \in DOMAIN owners : owners[p].uuid \in usedUUIDs \cup drawn
        /\ \A p, q \in DOMAIN owners : owners[p].uuid = owners[q].uuid => p = q
    BY <2>1 DEF UUIDInv
  <2>3. old # uuid
    BY <1>2, <1>11, <2>1, <2>2
  <2>4. \A p \in DOMAIN owners' : owners'[p].uuid \in usedUUIDs' \cup drawn'
    BY ONLY <1>2, <1>4, <1>5, <1>11, <2>2, <2>3, o \in DOMAIN owners
  <2>5. \A p, q \in DOMAIN owners' : owners'[p].uuid = owners'[q].uuid => p = q
    BY ONLY <1>2, <1>4, <1>5, <2>1, <2>2
  <2> QED BY <2>4, <2>5
<1>14. reused' \in BOOLEAN
  BY <1>1, <1>2
<1> QED BY <1>5, <1>8, <1>9, <1>10, <1>12, <1>13, <1>14 DEF UUIDInv

(* UUIDStep: every operation on UUIDs keeps the invariant.                 *)
LEMMA UUIDStep == UUIDInv /\ [UUIDNext]_uuidVars => UUIDInv'
<1> SUFFICES ASSUME UUIDInv, [UUIDNext]_uuidVars PROVE UUIDInv'
  OBVIOUS
<1>1. ASSUME owners' = owners, usedUUIDs' = usedUUIDs, fresh' = fresh, drawn' = drawn, reused' = reused
      PROVE  UUIDInv'
  BY <1>1, Zenon DEF UUIDInv, Registering
<1>2. ASSUME NEW o \in DOMAIN owners, RemoveBuildItem(o) PROVE UUIDInv'
  BY <1>1, <1>2 DEF RemoveBuildItem
<1>3. ASSUME clearAllUUIDs PROVE UUIDInv'
  BY <1>1, <1>3 DEF clearAllUUIDs
<1>4. ASSUME UNCHANGED uuidVars PROVE UUIDInv'
  BY <1>1, <1>4 DEF uuidVars
<1> QED BY <1>2, <1>3, <1>4, AddedOwner, SetOwner, Zenon DEF UUIDNext

(* UUIDStart: the build of a new model has the one UUID.                   *)
LEMMA UUIDStart == UUIDInit => UUIDInv
<1> SUFFICES ASSUME UUIDInit PROVE UUIDInv
  OBVIOUS
<1> DEFINE new == [type |-> "build", uuid |-> 1]
<1>1. owners = <<new>> /\ usedUUIDs = {1} /\ fresh = 2 /\ drawn = {} /\ reused = FALSE
  BY DEF UUIDInit
<1>2. new \in OwnerType /\ new.uuid = 1
  BY DEF OwnerType
<1> HIDE DEF new
<1>3. owners \in Seq(OwnerType) /\ DOMAIN owners = {1} /\ owners[1] = new
  BY <1>1, <1>2
<1>4. fresh \in Nat /\ reused \in BOOLEAN /\ (\A u \in usedUUIDs : u \in Nat /\ u < fresh)
      /\ (\A o \in DOMAIN owners : owners[o].uuid < fresh)
  <2>1. \A o \in DOMAIN owners : owners[o].uuid = 1
    BY <1>2, <1>3
  <2>2. fresh \in Nat /\ 1 < fresh
    BY <1>1
  <2>3. \A u \in usedUUIDs : u = 1
    BY <1>1
  <2>4. reused \in BOOLEAN /\ 1 \in Nat
    BY <1>1
  <2> QED BY ONLY <2>1, <2>2, <2>3, <2>4, Zenon
<1>5. usedUUIDs = {owners[o].uuid : o \in DOMAIN owners}
  BY <1>1, <1>2, <1>3
<1>6. \A o, p \in DOMAIN owners : o = p
  BY <1>3
<1>7. \A o \in DOMAIN owners : owners[o].uuid \in usedUUIDs
  BY <1>1, <1>2, <1>3
<1> QED BY <1>3, <1>4, <1>5, <1>6, <1>7 DEF UUIDInv

(* UUIDExact: owners without two of one UUID are as many as the UUIDs.     *)
LEMMA UUIDExact == UUIDInv => RegistryIsExact
<1> SUFFICES ASSUME UUIDInv PROVE RegistryIsExact
  OBVIOUS
<1>1. ASSUME Registering = DOMAIN owners
      PROVE  /\ usedUUIDs = {owners[o].uuid : o \in DOMAIN owners}
             /\ Cardinality(usedUUIDs) = Len(owners)
  <2>1. /\ usedUUIDs = {owners[o].uuid : o \in DOMAIN owners}
        /\ \A o, p \in DOMAIN owners : owners[o].uuid = owners[p].uuid => o = p
    BY <1>1 DEF UUIDInv
  <2>2. owners \in Seq(OwnerType)
    BY DEF UUIDInv
  <2>3. Len(owners) \in Nat /\ DOMAIN owners = 1..Len(owners)
    BY ONLY <2>2
  <2> DEFINE n == Len(owners)
             f == [o \in 1..n |-> owners[o].uuid]
  <2> HIDE DEF n
  <2>4. n \in Nat /\ DOMAIN owners = 1..n
    BY <2>3 DEF n
  <2>5. /\ f \in [1..n -> usedUUIDs] /\ (\A i, j \in 1..n : f[i] = f[j] => i = j)
        /\ (\A x \in usedUUIDs : \E i \in 1..n : f[i] = x)
    BY ONLY <2>1, <2>4
  <2> HIDE DEF f
  <2>6. Cardinality(usedUUIDs) = n
    BY ONLY <2>4, <2>5, DistinctCount
  <2> QED BY <2>1, <2>6 DEF n
<1>2. ~reused => \A o, p \in DOMAIN owners : owners[o].uuid = owners[p].uuid => o = p
  BY DEF UUIDInv
<1> QED BY <1>1, <1>2 DEF RegistryIsExact

(* UUIDsCorrect: the registry has exactly the UUIDs of the owners, and two *)
(* owners share one only after a component's was reused, for any number of *)
(* owners and UUIDs.                                                       *)
THEOREM UUIDsCorrect == UUIDSpec => []RegistryIsExact
BY UUIDStart, UUIDStep, UUIDExact, PTL DEF UUIDSpec

-----------------------------------------------------------------------------
(* Attachments. *)

PathType == [leading : BOOLEAN, name : PartNames \cup {ThumbnailName}]
AttachmentType == [path : PathType, type : Types]

(* A list and a map of the attachment objects objs agree.                  *)
AttachmentsFit(list, map, objs) ==
  /\ list \in Seq(Nat) /\ \A i \in DOMAIN list : list[i] \in DOMAIN objs
  /\ \A i, j \in DOMAIN list : list[i] = list[j] => i = j
  /\ Range(list) = Range(map)
  /\ \A n \in DOMAIN map : objs[map[n]].path = [leading |-> FALSE, name |-> n]

AttachmentsInv ==
  /\ attachment \in Seq(AttachmentType)
  /\ AttachmentsFit(m_Attachments, m_AttachmentURIMap, attachment)
  /\ m_pAttachment \in Seq(Nat)

(* PathKeys: the key of a path is its name.                                *)
LEMMA PathKeys ==
  ASSUME NEW path \in PathType
  PROVE  /\ Key(path) = path.name
         /\ fnRemoveLeadingPathDelimiter(path) \in PathType
         /\ fnRemoveLeadingPathDelimiter(path) = [leading |-> FALSE, name |-> path.name]
<1> DEFINE q == [path EXCEPT !.leading = FALSE]
<1>1. q \in PathType /\ q.name = path.name
  BY DEF PathType
<1>2. q.leading = FALSE
  BY Zenon DEF PathType
<1>3. fnRemoveLeadingPathDelimiter(path) = q
  BY Zenon DEF fnRemoveLeadingPathDelimiter
<1> HIDE DEF q
<1>4. q = [leading |-> q.leading, name |-> q.name]
  BY <1>1 DEF PathType
<1>5. q = [leading |-> FALSE, name |-> path.name]
  BY <1>1, <1>2, <1>4, Zenon
<1> QED BY <1>1, <1>3, <1>5, Zenon DEF Key

(* PathOf: the path of an attachment.                                      *)
LEMMA PathOf ==
  ASSUME NEW o \in AttachmentType
  PROVE  o.path \in PathType /\ o.type \in Types
BY DEF AttachmentType

(* UnlistedFits: removeAttachment takes the attachment of a path out of    *)
(* the list and of the map.                                                *)
LEMMA UnlistedFits ==
  ASSUME AttachmentsInv, NEW path \in PathType
  PROVE  LET new  == Unlisted(m_Attachments, m_AttachmentURIMap, path)
             left == Erased(m_AttachmentURIMap, path)
         IN  /\ AttachmentsFit(new, left, attachment)
             /\ \A x \in Range(m_Attachments) :
                  \/ x \in Range(new)
                  \/ path.name \in DOMAIN m_AttachmentURIMap /\ x = m_AttachmentURIMap[path.name]
<1> DEFINE list == m_Attachments
           map == m_AttachmentURIMap
           objs == attachment
<1>0. AttachmentsFit(list, map, objs)
  BY DEF AttachmentsInv
<1> HIDE DEF list, map, objs
<1> DEFINE n == path.name
           new == Unlisted(list, map, path)
           left == Erased(map, path)
<1>1. Key(path) = n
  BY PathKeys
<1>2. /\ list \in Seq(Nat) /\ (\A i \in DOMAIN list : list[i] \in DOMAIN objs)
      /\ (\A i, j \in DOMAIN list : list[i] = list[j] => i = j)
      /\ Range(list) = Range(map)
      /\ \A m \in DOMAIN map : objs[map[m]].path = [leading |-> FALSE, name |-> m]
  BY <1>0 DEF AttachmentsFit
<1>3. new = IF n \in DOMAIN map THEN RemoveFirst(list, map[n]) ELSE list
  BY <1>1 DEF Unlisted
<1>4. left = [m \in DOMAIN map \ {n} |-> map[m]]
  BY <1>1 DEF Erased
<1> HIDE DEF n, new, left
<1>5. DOMAIN left = DOMAIN map \ {n} /\ \A m \in DOMAIN left : left[m] = map[m]
  BY <1>4
<1>6. \A m \in DOMAIN left : objs[left[m]].path = [leading |-> FALSE, name |-> m]
  BY <1>2, <1>5
<1>7. /\ AttachmentsFit(new, left, objs)
      /\ \A x \in Range(list) : x \in Range(new) \/ (n \in DOMAIN map /\ x = map[n])
  <2>1. CASE n \notin DOMAIN map
    <3>1. new = list /\ DOMAIN left = DOMAIN map
      BY <1>3, <1>5, <2>1
    <3>2. Range(left) = Range(map)
      BY <1>5, <3>1 DEF Range
    <3> QED BY <1>2, <1>6, <3>1, <3>2, Zenon DEF AttachmentsFit
  <2>2. CASE n \in DOMAIN map
    <3> DEFINE e == map[n]
    <3>1. new = RemoveFirst(list, e)
      BY <1>3, <2>2
    <3> HIDE DEF e
    <3>2. /\ new \in Seq(Nat) /\ (\A i, j \in DOMAIN new : new[i] = new[j] => i = j)
          /\ Range(new) = Range(list) \ {e}
      <4>1. list \in Seq(Nat) /\ (\A i, j \in DOMAIN list : list[i] = list[j] => i = j)
        BY <1>2
      <4> QED BY ONLY <3>1, <4>1, RemovedFirst
    <3>3. \A m \in DOMAIN map : map[m] = e => m = n
      <4>1. ASSUME NEW m \in DOMAIN map, map[m] = map[n] PROVE m = n
        <5>1. [leading |-> FALSE, name |-> m] = [leading |-> FALSE, name |-> n]
          BY <1>2, <2>2, <4>1, Zenon
        <5>2. [leading |-> FALSE, name |-> m].name = [leading |-> FALSE, name |-> n].name
          BY <5>1
        <5> QED BY <5>2
      <4> QED BY <4>1 DEF e
    <3>4. Range(left) = Range(map) \ {e}
      BY <1>5, <2>2, <3>3 DEF Range, e
    <3>5. \A i \in DOMAIN new : new[i] \in DOMAIN objs
      <4>1. \A x \in Range(list) : x \in DOMAIN objs
        BY <1>2 DEF Range
      <4>2. \A i \in DOMAIN new : new[i] \in Range(new)
        BY DEF Range
      <4> QED BY <3>2, <4>1, <4>2
    <3>6. Range(new) = Range(left)
      BY <1>2, <3>2, <3>4
    <3>7. AttachmentsFit(new, left, objs)
      BY <1>6, <3>2, <3>5, <3>6, Zenon DEF AttachmentsFit
    <3> QED BY <2>2, <3>2, <3>7 DEF e
  <2> QED BY <2>1, <2>2
<1> QED BY <1>7 DEF n, new, left, list, map, objs

(* GrownFits: a new attachment object disturbs no other.                   *)
LEMMA GrownFits ==
  ASSUME NEW list, NEW map, NEW objs \in Seq(AttachmentType), AttachmentsFit(list, map, objs),
         NEW o \in AttachmentType
  PROVE  AttachmentsFit(list, map, Append(objs, o)) /\ Append(objs, o) \in Seq(AttachmentType)
<1> DEFINE more == Append(objs, o)
<1>1. /\ more \in Seq(AttachmentType) /\ DOMAIN objs \subseteq DOMAIN more
      /\ \A k \in DOMAIN objs : more[k] = objs[k]
  OBVIOUS
<1> HIDE DEF more
<1>2. \A x \in Range(map) : x \in DOMAIN objs
  BY DEF AttachmentsFit, Range
<1>3. \A n \in DOMAIN map : map[n] \in Range(map)
  BY DEF Range
<1>4. \A n \in DOMAIN map : more[map[n]].path = [leading |-> FALSE, name |-> n]
  BY <1>1, <1>2, <1>3 DEF AttachmentsFit
<1>5. \A i \in DOMAIN list : list[i] \in DOMAIN more
  BY <1>1 DEF AttachmentsFit
<1>6. AttachmentsFit(list, map, more)
  BY <1>4, <1>5, Zenon DEF AttachmentsFit
<1> QED BY <1>1, <1>6 DEF more

(* InsertedFits: addAttachment under a free path.                          *)
LEMMA InsertedFits ==
  ASSUME NEW list, NEW map, NEW objs \in Seq(AttachmentType), AttachmentsFit(list, map, objs),
         NEW path \in PathType, NEW type \in Types, path.name \notin DOMAIN map,
         NEW more, more = Append(objs, [path |-> fnRemoveLeadingPathDelimiter(path), type |-> type])
  PROVE  /\ more \in Seq(AttachmentType)
         /\ AttachmentsFit(Append(list, Len(objs) + 1), Inserted(map, path, Len(objs) + 1), more)
         /\ Range(list) \subseteq Range(Append(list, Len(objs) + 1))
<1> DEFINE a1 == Len(objs) + 1
           n == path.name
           o == [path |-> fnRemoveLeadingPathDelimiter(path), type |-> type]
           new == Append(list, a1)
           left == Inserted(map, path, a1)
<1>1. Key(path) = n /\ o \in AttachmentType /\ o.path = [leading |-> FALSE, name |-> n]
  BY PathKeys DEF AttachmentType
<1>2. /\ AttachmentsFit(list, map, more) /\ more \in Seq(AttachmentType)
  BY <1>1, GrownFits
<1>3. /\ a1 \in Nat /\ a1 \in DOMAIN more /\ a1 \notin DOMAIN objs /\ more[a1] = o
      /\ DOMAIN objs \subseteq DOMAIN more
  BY <1>1
<1>4. left = [m \in DOMAIN map \cup {n} |-> IF m = n THEN a1 ELSE map[m]]
  BY <1>1 DEF Inserted
<1>5. /\ list \in Seq(Nat) /\ (\A i \in DOMAIN list : list[i] \in DOMAIN objs)
      /\ (\A i, j \in DOMAIN list : list[i] = list[j] => i = j)
      /\ Range(list) = Range(map)
      /\ \A m \in DOMAIN map : more[map[m]].path = [leading |-> FALSE, name |-> m]
  BY <1>2 DEF AttachmentsFit
<1> DEFINE l1 == Len(list) + 1
<1>6. l1 \notin DOMAIN list
  BY <1>5
<1>7. /\ new \in Seq(Nat) /\ DOMAIN new = DOMAIN list \cup {l1} /\ new[l1] = a1
      /\ \A i \in DOMAIN list : new[i] = list[i]
  <2> HIDE DEF a1
  <2> QED BY ONLY <1>3, <1>5
<1> HIDE DEF a1, n, o, new, left, l1
<1>8. Range(new) = Range(list) \cup {a1}
  BY ONLY <1>7 DEF Range
<1>9. DOMAIN left = DOMAIN map \cup {n} /\ left[n] = a1 /\ \A m \in DOMAIN map : left[m] = map[m]
  BY <1>4 DEF n
<1>10. Range(left) = Range(map) \cup {a1}
  BY ONLY <1>9 DEF Range
<1>11. \A i, j \in DOMAIN new : new[i] = new[j] => i = j
  BY ONLY <1>3, <1>5, <1>7
<1>12. \A i \in DOMAIN new : new[i] \in DOMAIN more
  BY ONLY <1>3, <1>5, <1>7
<1>13. \A m \in DOMAIN left : more[left[m]].path = [leading |-> FALSE, name |-> m]
  BY ONLY <1>1, <1>3, <1>5, <1>9
<1>14. AttachmentsFit(new, left, more)
  BY <1>5, <1>7, <1>8, <1>10, <1>11, <1>12, <1>13, Zenon DEF AttachmentsFit
<1> QED BY <1>2, <1>8, <1>14 DEF new, left, a1

(* What a step does to the attachments of the model, beside the invariant: *)
(* the action that OthersStayAttached forbids to be otherwise.             *)
OthersStay ==
  /\ \A x \in Range(m_Attachments) :
       x \in Range(m_Attachments') \/ x = call' \/ (call' # 0 /\ ~Listed(call'))
  /\ \A t \in DOMAIN m_pAttachment' :
       \/ t \in DOMAIN m_pAttachment /\ m_pAttachment'[t] = m_pAttachment[t]
       \/ Listed(m_pAttachment'[t])

(* HandlesPath: the path of a handle's object; a listed object is the one  *)
(* that the map has for that path.                                         *)
LEMMA HandlesPath ==
  ASSUME AttachmentsInv, NEW x \in Handles
  PROVE  /\ attachment[x].path \in PathType /\ attachment[x].type \in Types /\ x # 0
         /\ Key(attachment[x].path) = attachment[x].path.name
         /\ Listed(x) => /\ attachment[x].path.name \in DOMAIN m_AttachmentURIMap
                         /\ m_AttachmentURIMap[attachment[x].path.name] = x
<1>1. attachment \in Seq(AttachmentType) /\ AttachmentsFit(m_Attachments, m_AttachmentURIMap, attachment)
  BY DEF AttachmentsInv
<1>2. attachment[x] \in AttachmentType /\ x # 0
  BY <1>1 DEF Handles
<1>3. attachment[x].path \in PathType /\ attachment[x].type \in Types
  BY <1>2, PathOf
<1>4. Key(attachment[x].path) = attachment[x].path.name
  BY <1>3, PathKeys
<1>5. ASSUME Listed(x) PROVE /\ attachment[x].path.name \in DOMAIN m_AttachmentURIMap
                            /\ m_AttachmentURIMap[attachment[x].path.name] = x
  <2>1. x \in Range(m_AttachmentURIMap)
    BY <1>1, <1>5 DEF AttachmentsFit, Listed
  <2>2. PICK n \in DOMAIN m_AttachmentURIMap : m_AttachmentURIMap[n] = x
    BY <2>1 DEF Range
  <2>3. attachment[x].path = [leading |-> FALSE, name |-> n]
    BY <1>1, <2>2 DEF AttachmentsFit
  <2>4. attachment[x].path.name = n
    BY <2>3
  <2> QED BY <2>2, <2>4
<1> QED BY <1>2, <1>3, <1>4, <1>5

(* SameAttachments: list, map and the attachments' paths are as they were. *)
LEMMA SameAttachments ==
  ASSUME AttachmentsInv, UNCHANGED <<m_Attachments, m_AttachmentURIMap>>,
         \/ UNCHANGED attachment
         \/ \E o \in AttachmentType : attachment' = Append(attachment, o),
         m_pAttachment' \in Seq(Nat)
  PROVE  AttachmentsInv' /\ \A x \in Range(m_Attachments) : x \in Range(m_Attachments')
<1>1. attachment \in Seq(AttachmentType) /\ AttachmentsFit(m_Attachments, m_AttachmentURIMap, attachment)
  BY DEF AttachmentsInv
<1>2. m_Attachments' = m_Attachments /\ m_AttachmentURIMap' = m_AttachmentURIMap
  OBVIOUS
<1>3. CASE attachment' = attachment
  BY <1>1, <1>2, <1>3, Zenon DEF AttachmentsInv
<1>4. CASE \E o \in AttachmentType : attachment' = Append(attachment, o)
  BY <1>1, <1>2, <1>4, GrownFits, Zenon DEF AttachmentsInv
<1> QED BY <1>2, <1>3, <1>4

(* TexturesStay: a texture keeps its attachment or is given a listed one.  *)
LEMMA TexturesStay ==
  ASSUME AttachmentsInv, NEW x \in Handles, Known(attachment[x].path),
         \/ m_pAttachment' = Append(m_pAttachment, Found(x))
         \/ \E t \in DOMAIN m_pAttachment : m_pAttachment' = [m_pAttachment EXCEPT ![t] = Found(x)]
  PROVE  /\ m_pAttachment' \in Seq(Nat)
         /\ \A t \in DOMAIN m_pAttachment' :
              \/ t \in DOMAIN m_pAttachment /\ m_pAttachment'[t] = m_pAttachment[t]
              \/ Listed(m_pAttachment'[t])
<1> DEFINE f == Found(x)
<1>1. f \in Range(m_AttachmentURIMap)
  BY DEF Known, Found, Range
<1>2. AttachmentsFit(m_Attachments, m_AttachmentURIMap, attachment) /\ m_pAttachment \in Seq(Nat)
  BY DEF AttachmentsInv
<1>3. Listed(f)
  BY <1>1, <1>2 DEF AttachmentsFit, Listed
<1>4. f \in Nat
  <2>1. PICK i \in DOMAIN m_Attachments : f = m_Attachments[i]
    BY <1>3 DEF Listed, Range
  <2>2. m_Attachments \in Seq(Nat)
    BY <1>2 DEF AttachmentsFit
  <2> QED BY ONLY <2>1, <2>2
<1> HIDE DEF f
<1>5. CASE m_pAttachment' = Append(m_pAttachment, f)
  <2>1. /\ m_pAttachment' \in Seq(Nat) /\ DOMAIN m_pAttachment' = DOMAIN m_pAttachment \cup {Len(m_pAttachment) + 1}
        /\ m_pAttachment'[Len(m_pAttachment) + 1] = f
        /\ \A t \in DOMAIN m_pAttachment : m_pAttachment'[t] = m_pAttachment[t]
    BY ONLY <1>2, <1>4, <1>5
  <2> QED BY <1>3, <2>1
<1>6. CASE \E t \in DOMAIN m_pAttachment : m_pAttachment' = [m_pAttachment EXCEPT ![t] = f]
  <2>1. PICK t \in DOMAIN m_pAttachment : m_pAttachment' = [m_pAttachment EXCEPT ![t] = f]
    BY <1>6
  <2>2. /\ m_pAttachment' \in Seq(Nat) /\ DOMAIN m_pAttachment' = DOMAIN m_pAttachment
        /\ m_pAttachment'[t] = f
        /\ \A k \in DOMAIN m_pAttachment : k # t => m_pAttachment'[k] = m_pAttachment[k]
    BY ONLY <1>2, <1>4, <2>1
  <2> QED BY <1>3, <2>2
<1> QED BY <1>5, <1>6 DEF f

(* AttachmentsStep: every operation keeps the invariant, and takes no      *)
(* attachment out of the model but the one it was called for.              *)
LEMMA AttachmentsStep ==
  AttachmentsInv /\ [AttachmentsNext]_attachmentVars => AttachmentsInv' /\ (OthersStay \/ UNCHANGED attachmentVars)
<1> DEFINE Goal == AttachmentsInv' /\ (OthersStay \/ UNCHANGED attachmentVars)
<1> SUFFICES ASSUME AttachmentsInv, [AttachmentsNext]_attachmentVars PROVE Goal
  OBVIOUS
<1>1. /\ attachment \in Seq(AttachmentType) /\ m_pAttachment \in Seq(Nat)
      /\ AttachmentsFit(m_Attachments, m_AttachmentURIMap, attachment)
  BY DEF AttachmentsInv
<1>2. \A path \in Paths : path \in PathType
  BY DEF Paths, PathType
<1>3. "model" \in Types /\ NoPath \in PathType
  BY DEF Types, NoPath, PathType
<1>4. m_pAttachment' = m_pAttachment =>
        \A t \in DOMAIN m_pAttachment' : t \in DOMAIN m_pAttachment /\ m_pAttachment'[t] = m_pAttachment[t]
  OBVIOUS
<1> DEFINE Kept0 == \A x \in Range(m_Attachments) : x \in Range(m_Attachments')
<1> HIDE DEF Goal
<1>5. ASSUME Kept0, AttachmentsInv', m_pAttachment' = m_pAttachment PROVE Goal
  BY <1>4, <1>5, Zenon DEF Goal, OthersStay
<1>6. ASSUME NEW path \in Paths, NEW type \in Types, addAttachment(path, type) PROVE Goal
  <2>1. /\ Key(path) \notin DOMAIN m_AttachmentURIMap
        /\ attachment' = Append(attachment, [path |-> fnRemoveLeadingPathDelimiter(path), type |-> type])
        /\ m_Attachments' = Append(m_Attachments, Len(attachment) + 1)
        /\ m_AttachmentURIMap' = Inserted(m_AttachmentURIMap, path, Len(attachment) + 1)
        /\ m_pAttachment' = m_pAttachment
    BY <1>6 DEF addAttachment, Construct, Known, NewObject
  <2>2. path.name \notin DOMAIN m_AttachmentURIMap /\ path \in PathType
    BY <1>2, <2>1, PathKeys
  <2>3. /\ attachment' \in Seq(AttachmentType) /\ AttachmentsFit(m_Attachments', m_AttachmentURIMap', attachment')
        /\ Range(m_Attachments) \subseteq Range(m_Attachments')
    BY <1>1, <2>1, <2>2, InsertedFits
  <2>4. AttachmentsInv'
    BY <1>1, <2>1, <2>3, Zenon DEF AttachmentsInv
  <2> QED BY <1>5, <2>1, <2>3, <2>4
<1> DEFINE Gone(x) == Unlisted(m_Attachments, m_AttachmentURIMap, attachment[x].path)
           Left(x) == Erased(m_AttachmentURIMap, attachment[x].path)
<1>7. ASSUME NEW x \in Handles
      PROVE  /\ AttachmentsFit(Gone(x), Left(x), attachment)
             /\ \A y \in Range(m_Attachments) : y \in Range(Gone(x)) \/ y = x \/ (x # 0 /\ ~Listed(x))
             /\ attachment[x].type \in Types
  <2>1. /\ attachment[x].path \in PathType /\ attachment[x].type \in Types /\ x # 0
        /\ Listed(x) => /\ attachment[x].path.name \in DOMAIN m_AttachmentURIMap
                        /\ m_AttachmentURIMap[attachment[x].path.name] = x
    BY HandlesPath
  <2>2. /\ AttachmentsFit(Gone(x), Left(x), attachment)
        /\ \A y \in Range(m_Attachments) :
             \/ y \in Range(Gone(x))
             \/ attachment[x].path.name \in DOMAIN m_AttachmentURIMap
                /\ y = m_AttachmentURIMap[attachment[x].path.name]
    BY <2>1, UnlistedFits
  <2> QED BY <2>1, <2>2, Zenon
<1> HIDE DEF Gone, Left
<1>8. ASSUME NEW x \in Handles, RemoveAttachment(x) PROVE Goal
  <2>1. /\ m_Attachments' = Gone(x) /\ m_AttachmentURIMap' = Left(x) /\ attachment' = attachment
        /\ m_pAttachment' = m_pAttachment /\ call' = x
    BY <1>8 DEF RemoveAttachment, Gone, Left
  <2> QED BY <1>1, <1>4, <1>7, <2>1, Zenon DEF Goal, AttachmentsInv, OthersStay
<1>9. ASSUME NEW x \in Handles, NEW path \in Paths, SetPathThrows(x, path) PROVE Goal
  <2>1. /\ m_Attachments' = Gone(x) /\ m_AttachmentURIMap' = Left(x) /\ attachment' = attachment
        /\ m_pAttachment' = m_pAttachment /\ call' = x
    BY <1>9 DEF SetPathThrows, Gone, Left
  <2> QED BY <1>1, <1>4, <1>7, <2>1, Zenon DEF Goal, AttachmentsInv, OthersStay
<1>10. ASSUME NEW x \in Handles, NEW path \in Paths, SetPath(x, path) PROVE Goal
  <2>1. /\ Key(path) \notin DOMAIN Left(x)
        /\ attachment' = Append(attachment, [path |-> fnRemoveLeadingPathDelimiter(path), type |-> attachment[x].type])
        /\ m_Attachments' = Append(Gone(x), Len(attachment) + 1)
        /\ m_AttachmentURIMap' = Inserted(Left(x), path, Len(attachment) + 1)
        /\ m_pAttachment' = m_pAttachment /\ call' = x
    BY <1>10 DEF SetPath, Construct, NewObject, Gone, Left
  <2>2. path.name \notin DOMAIN Left(x) /\ path \in PathType
    BY <1>2, <2>1, PathKeys
  <2>3. /\ attachment' \in Seq(AttachmentType) /\ AttachmentsFit(m_Attachments', m_AttachmentURIMap', attachment')
        /\ Range(Gone(x)) \subseteq Range(m_Attachments')
    BY <1>1, <1>7, <2>1, <2>2, InsertedFits
  <2>4. \A y \in Range(m_Attachments) : y \in Range(m_Attachments') \/ y = x \/ (x # 0 /\ ~Listed(x))
    BY <1>7, <2>3
  <2> QED BY <1>1, <1>4, <2>1, <2>3, <2>4, Zenon DEF Goal, AttachmentsInv, OthersStay
<1>11. ASSUME NEW path \in PathType, Construct(path, "model"),
              UNCHANGED <<m_Attachments, m_AttachmentURIMap, m_pAttachment>>
       PROVE  Goal
  <2> DEFINE o == [path |-> path, type |-> "model"]
  <2>1. o \in AttachmentType
    BY <1>3 DEF AttachmentType
  <2>2. attachment' = Append(attachment, o)
    BY <1>11 DEF Construct
  <2>3. m_pAttachment' = m_pAttachment /\ m_pAttachment' \in Seq(Nat)
    BY <1>1, <1>11
  <2> HIDE DEF o
  <2>4. AttachmentsInv' /\ Kept0
    BY <1>11, <2>1, <2>2, <2>3, SameAttachments
  <2> QED BY <1>5, <2>3, <2>4
<1>12. ASSUME NEW path \in Paths, SetThumbnailPath(path) PROVE Goal
  BY <1>2, <1>11, <1>12 DEF SetThumbnailPath
<1>13. ASSUME addPackageThumbnail PROVE Goal
  BY <1>3, <1>11, <1>13 DEF addPackageThumbnail
<1>14. ASSUME UNCHANGED <<attachment, m_Attachments, m_AttachmentURIMap>>, m_pAttachment' \in Seq(Nat)
       PROVE  AttachmentsInv' /\ Kept0
  BY <1>14, SameAttachments
<1>15. ASSUME removePackageThumbnail PROVE Goal
  BY <1>1, <1>5, <1>14, <1>15 DEF removePackageThumbnail
<1>16. ASSUME NEW x \in Handles, NEW type \in Types, SetRelationShipType(x, type) PROVE Goal
  <2> DEFINE o == [attachment[x] EXCEPT !.type = type]
  <2>1. /\ attachment' = [attachment EXCEPT ![x] = o]
        /\ m_Attachments' = m_Attachments /\ m_AttachmentURIMap' = m_AttachmentURIMap /\ m_pAttachment' = m_pAttachment
    BY <1>16 DEF SetRelationShipType
  <2>2. attachment[x] \in AttachmentType /\ x \in DOMAIN attachment
    BY <1>1 DEF Handles
  <2>3. o \in AttachmentType /\ o.path = attachment[x].path
    BY <2>2 DEF AttachmentType
  <2> HIDE DEF o
  <2>4. /\ attachment' \in Seq(AttachmentType) /\ DOMAIN attachment' = DOMAIN attachment
        /\ attachment'[x] = o /\ \A k \in DOMAIN attachment : k # x => attachment'[k] = attachment[k]
    BY ONLY <1>1, <2>1, <2>2, <2>3
  <2>5. \A k \in DOMAIN attachment : attachment'[k].path = attachment[k].path
    BY ONLY <2>3, <2>4
  <2>6. \A n \in DOMAIN m_AttachmentURIMap : m_AttachmentURIMap[n] \in DOMAIN attachment
    <3>1. \A y \in Range(m_AttachmentURIMap) : y \in DOMAIN attachment
      BY <1>1 DEF AttachmentsFit, Range
    <3> QED BY <3>1 DEF Range
  <2>7. AttachmentsFit(m_Attachments, m_AttachmentURIMap, attachment')
    BY <1>1, <2>4, <2>5, <2>6, Zenon DEF AttachmentsFit
  <2>8. AttachmentsInv' /\ Kept0
    BY <1>1, <2>1, <2>4, <2>7, Zenon DEF AttachmentsInv
  <2> QED BY <1>5, <2>1, <2>8
<1>17. ASSUME NEW x \in Handles, AddTexture(x) PROVE Goal
  <2>1. Known(attachment[x].path) /\ m_pAttachment' = Append(m_pAttachment, Found(x))
        /\ UNCHANGED <<attachment, m_Attachments, m_AttachmentURIMap>>
    BY <1>17 DEF AddTexture
  <2> QED BY <1>14, <2>1, TexturesStay, Zenon DEF Goal, OthersStay
<1>18. ASSUME NEW x \in Handles, NEW t \in DOMAIN m_pAttachment, SetAttachment(t, x) PROVE Goal
  <2>1. Known(attachment[x].path) /\ m_pAttachment' = [m_pAttachment EXCEPT ![t] = Found(x)]
        /\ UNCHANGED <<attachment, m_Attachments, m_AttachmentURIMap>>
    BY <1>18 DEF SetAttachment
  <2> QED BY <1>14, <2>1, TexturesStay, Zenon DEF Goal, OthersStay
<1>19. ASSUME clearAllAttachments PROVE Goal
  <2>1. m_pAttachment' = << >> /\ UNCHANGED <<attachment, m_Attachments, m_AttachmentURIMap>>
    BY <1>19 DEF clearAllAttachments
  <2>2. m_pAttachment' \in Seq(Nat) /\ DOMAIN m_pAttachment' = {}
    BY <2>1
  <2> QED BY <1>14, <2>1, <2>2, Zenon DEF Goal, OthersStay
<1>20. ASSUME UNCHANGED attachmentVars PROVE Goal
  BY <1>1, <1>14, <1>20 DEF attachmentVars, Goal
<1> QED BY <1>3, <1>6, <1>8, <1>9, <1>10, <1>12, <1>13, <1>15, <1>16, <1>17, <1>18, <1>19, <1>20, Zenon
        DEF AttachmentsNext, WriteSliceStack

(* AttachmentsStart: a new model has no attachments.                       *)
LEMMA AttachmentsStart == AttachmentsInit => AttachmentsInv
<1> SUFFICES ASSUME AttachmentsInit PROVE AttachmentsInv
  OBVIOUS
<1>1. attachment = << >> /\ m_Attachments = << >> /\ m_AttachmentURIMap = [n \in {} |-> 0] /\ m_pAttachment = << >>
  BY DEF AttachmentsInit
<1>2. /\ attachment \in Seq(AttachmentType) /\ m_Attachments \in Seq(Nat) /\ m_pAttachment \in Seq(Nat)
      /\ DOMAIN m_Attachments = {} /\ DOMAIN m_AttachmentURIMap = {}
  BY <1>1
<1>3. Range(m_Attachments) = Range(m_AttachmentURIMap)
  BY <1>2 DEF Range
<1> QED BY <1>2, <1>3, Zenon DEF AttachmentsInv, AttachmentsFit

(* AttachmentsAgree: the map has as many paths as the list has attachments.*)
LEMMA AttachmentsAgree == AttachmentsInv => MapAndListAgree
<1> SUFFICES ASSUME AttachmentsInv PROVE MapAndListAgree
  OBVIOUS
<1> DEFINE list == m_Attachments
           map == m_AttachmentURIMap
<1>1. /\ list \in Seq(Nat) /\ (\A i, j \in DOMAIN list : list[i] = list[j] => i = j)
      /\ Range(list) = Range(map)
      /\ \A n \in DOMAIN map : attachment[map[n]].path = [leading |-> FALSE, name |-> n]
  BY Zenon DEF AttachmentsInv, AttachmentsFit
<1> HIDE DEF list, map
<1>2. Len(list) \in Nat /\ DOMAIN list = 1..Len(list)
  BY ONLY <1>1
<1> DEFINE k == Len(list)
           f == [i \in 1..k |-> attachment[list[i]].path.name]
<1> HIDE DEF k
<1>3. k \in Nat /\ DOMAIN list = 1..k
  BY <1>2 DEF k
<1>4. \A n \in DOMAIN map : attachment[map[n]].path.name = n
  <2>1. \A n : [leading |-> FALSE, name |-> n].name = n
    OBVIOUS
  <2> QED BY <1>1, <2>1
<1>5. \A i \in 1..k : f[i] \in DOMAIN map /\ map[f[i]] = list[i]
  <2> SUFFICES ASSUME NEW i \in 1..k PROVE f[i] \in DOMAIN map /\ map[f[i]] = list[i]
    OBVIOUS
  <2>1. list[i] \in Range(map)
    BY <1>1, <1>3 DEF Range
  <2>2. PICK n \in DOMAIN map : list[i] = map[n]
    BY <2>1 DEF Range
  <2>3. f[i] = n
    BY <1>4, <2>2
  <2> QED BY <2>2, <2>3
<1>6. \A n \in DOMAIN map : \E i \in 1..k : f[i] = n
  <2> SUFFICES ASSUME NEW n \in DOMAIN map PROVE \E i \in 1..k : f[i] = n
    OBVIOUS
  <2>1. map[n] \in Range(list)
    BY <1>1 DEF Range
  <2>2. PICK i \in 1..k : list[i] = map[n]
    BY <1>3, <2>1 DEF Range
  <2> QED BY <1>4, <2>2
<1>7. f = [i \in 1..k |-> f[i]]
  OBVIOUS
<1> HIDE DEF f
<1>8. f \in [1..k -> DOMAIN map]
  BY <1>5, <1>7
<1>9. \A i, j \in 1..k : f[i] = f[j] => i = j
  BY ONLY <1>1, <1>3, <1>5
<1>10. Cardinality(DOMAIN map) = k
  BY ONLY <1>3, <1>6, <1>8, <1>9, DistinctCount
<1> QED BY <1>1, <1>10 DEF MapAndListAgree, k, list, map

(* AttachmentsCorrect: the list and the map of a model's attachments hold  *)
(* the same attachments, each once and under its path, for any number of   *)
(* paths, attachments and stale handles.                                   *)
THEOREM AttachmentsCorrect == AttachmentsSpec => []MapAndListAgree
BY AttachmentsStart, AttachmentsStep, AttachmentsAgree, PTL DEF AttachmentsSpec

(* AttachmentsStay: no call takes another attachment out of the model than *)
(* the one it was made for, and a texture is given an attachment of the    *)
(* model only.                                                             *)
THEOREM AttachmentsStay == AttachmentsSpec => OthersStayAttached
<1>1. AttachmentsInv /\ [AttachmentsNext]_attachmentVars => AttachmentsInv'
  BY AttachmentsStep
<1>2. AttachmentsInv /\ [AttachmentsNext]_attachmentVars =>
        [/\ \A a \in Range(m_Attachments) :
              a \in Range(m_Attachments') \/ a = call' \/ (call' # 0 /\ ~Listed(call'))
         /\ \A t \in DOMAIN m_pAttachment' :
              \/ t \in DOMAIN m_pAttachment /\ m_pAttachment'[t] = m_pAttachment[t]
              \/ Listed(m_pAttachment'[t])]_attachmentVars
  BY AttachmentsStep, Zenon DEF OthersStay
<1> QED BY <1>1, <1>2, AttachmentsStart, PTL DEF AttachmentsSpec, OthersStayAttached

-----------------------------------------------------------------------------
(* Slice stacks. *)

SliceInv ==
  /\ m_dZBottom \in [Stacks -> Nat]
  /\ m_pSlices \in [Stacks -> Seq(Nat)]
  /\ m_pSliceRefs \in [Stacks -> Seq(Stacks)]
  /\ ReferencesAreOrdered

(* One step of getHighestZ, for stacks with the heights own, of which the  *)
(* ones in E have no references and each other one refers to next last.    *)
Highest(E, own, next, f, s) == IF s \in E THEN own[s] ELSE Larger(own[s], f[next[s]])

(* Asked of the stacks in D, getHighestZ asks of no other, and answers f.  *)
Answers(S, E, own, next, D, f) ==
  /\ D \in SUBSET S
  /\ \A s \in D : (s \notin E => next[s] \in D) /\ f[s] = Highest(E, own, next, f, s)

(* No stack reaches itself by the last references.                         *)
NoCycle(S, E, next) == \A C \in SUBSET S : C # {} => \E s \in C : s \in E \/ next[s] \notin C

(* The recursion of getHighestZ for all stacks.                            *)
Solves(S, E, own, next, f) == f = [s \in S |-> Highest(E, own, next, f, s)]

(* HighestOnce: where no stack reaches itself, there is one answer.        *)
LEMMA HighestOnce ==
  ASSUME NEW S, NEW E, NEW own, NEW next,
         NoCycle(S, E, next),
         NEW D, NEW f, Answers(S, E, own, next, D, f),
         NEW B, NEW g, Answers(S, E, own, next, B, g),
         NEW x, x \in D, x \in B
  PROVE  f[x] = g[x]
<1> DEFINE C == {s \in D : s \in B /\ f[s] # g[s]}
<1> SUFFICES ASSUME C # {} PROVE FALSE
  OBVIOUS
<1>1. C \in SUBSET S
  BY DEF Answers
<1> HIDE DEF C
<1>2. PICK s \in C : s \in E \/ next[s] \notin C
  BY <1>1 DEF NoCycle
<1>3. s \in D /\ s \in B /\ f[s] # g[s]
  BY DEF C
<1>4. /\ s \notin E => next[s] \in D /\ next[s] \in B
      /\ f[s] = Highest(E, own, next, f, s) /\ g[s] = Highest(E, own, next, g, s)
  BY <1>3 DEF Answers
<1>5. s \notin E => f[next[s]] = g[next[s]]
  BY <1>2, <1>4 DEF C
<1> QED BY <1>3, <1>4, <1>5, Zenon DEF Highest

(* HighestExists: where no stack reaches itself, getHighestZ ends: its     *)
(* recursion has a solution for all stacks.                                *)
LEMMA HighestExists ==
  ASSUME NEW S, NEW E, NEW own, NEW next,
         \A s \in S : s \notin E => next[s] \in S,
         NoCycle(S, E, next)
  PROVE  \E f : Solves(S, E, own, next, f)
<1> DEFINE A(D, f) == Answers(S, E, own, next, D, f)
           U == {s \in S : \E D, f : A(D, f) /\ s \in D}
           F == [s \in S |-> CHOOSE v : \E D, f : A(D, f) /\ s \in D /\ v = f[s]]
<1>1. ASSUME NEW D, NEW f, A(D, f), NEW s \in D PROVE s \in U /\ F[s] = f[s]
  <2>1. s \in S
    BY <1>1 DEF Answers
  <2>2. s \in U
    BY <1>1, <2>1, Zenon
  <2>3. ASSUME NEW B, NEW g, A(B, g), s \in B PROVE g[s] = f[s]
    BY <1>1, <2>3, HighestOnce
  <2>4. F[s] = CHOOSE v : \E B, g : A(B, g) /\ s \in B /\ v = g[s]
    BY <2>1
  <2> HIDE DEF F, U, A
  <2> DEFINE V == CHOOSE v : \E B, g : A(B, g) /\ s \in B /\ v = g[s]
  <2>5. \E v : \E B, g : A(B, g) /\ s \in B /\ v = g[s]
    BY <1>1, Zenon
  <2>6. \E B, g : A(B, g) /\ s \in B /\ V = g[s]
    BY <2>5, Zenon
  <2> HIDE DEF V
  <2>7. V = f[s]
    BY <2>3, <2>6, Zenon
  <2> QED BY <2>2, <2>4, <2>7 DEF V
<1>2. ASSUME NEW s \in U PROVE (s \notin E => next[s] \in U) /\ F[s] = Highest(E, own, next, F, s)
  <2>1. \E D, f : A(D, f) /\ s \in D
    OBVIOUS
  <2> HIDE DEF F, U, A
  <2>2. PICK D, f : A(D, f) /\ s \in D
    BY <2>1
  <2>3. F[s] = f[s]
    BY <1>1, <2>2
  <2>4. (s \notin E => next[s] \in D) /\ f[s] = Highest(E, own, next, f, s)
    BY <2>2, Zenon DEF A, Answers
  <2>5. s \notin E => next[s] \in U /\ F[next[s]] = f[next[s]]
    BY <1>1, <2>2, <2>4
  <2> QED BY <2>3, <2>4, <2>5, Zenon DEF Highest
<1>3. ASSUME NEW s \in S, s \in E PROVE s \in U
  <2> DEFINE f == [x \in {s} |-> own[x]]
  <2>1. f[s] = own[s]
    OBVIOUS
  <2> HIDE DEF f
  <2>2. A({s}, f)
    BY <1>3, <2>1 DEF Answers, Highest
  <2> HIDE DEF A
  <2> QED BY <2>2
<1>4. ASSUME NEW s \in S, s \notin E, s \notin U, next[s] \in U PROVE FALSE
  <2>1. \E D, f : A(D, f) /\ next[s] \in D
    BY <1>4
  <2>2. PICK D, f : A(D, f) /\ next[s] \in D
    BY <2>1
  <2>3. s \notin D
    BY <1>1, <1>4, <2>2, Zenon
  <2> DEFINE B == D \cup {s}
             h == Larger(own[s], f[next[s]])
             g == [x \in B |-> IF x = s THEN h ELSE f[x]]
  <2>4. g[s] = h /\ \A x \in D : g[x] = f[x]
    BY <2>3
  <2> HIDE DEF g
  <2>5. B \in SUBSET S
    BY <2>2 DEF Answers
  <2>6. ASSUME NEW x \in D PROVE (x \notin E => next[x] \in B) /\ g[x] = Highest(E, own, next, g, x)
    <3>1. (x \notin E => next[x] \in D) /\ f[x] = Highest(E, own, next, f, x)
      BY <2>2 DEF Answers
    <3> QED BY <2>4, <3>1 DEF Highest
  <2>7. next[s] \in B /\ g[s] = Highest(E, own, next, g, s)
    BY <1>4, <2>2, <2>4 DEF Highest
  <2>8. A(B, g)
    <3>1. \A x \in B : (x \notin E => next[x] \in B) /\ g[x] = Highest(E, own, next, g, x)
      BY <2>6, <2>7
    <3> HIDE DEF B
    <3> QED BY <2>5, <3>1, Zenon DEF Answers
  <2>9. s \in B
    OBVIOUS
  <2> HIDE DEF A, B
  <2> QED BY <1>1, <1>4, <2>8, <2>9, Zenon
<1> DEFINE C == S \ U
<1>5. C = {}
  <2> SUFFICES ASSUME C # {} PROVE FALSE
    OBVIOUS
  <2>1. C \in SUBSET S
    OBVIOUS
  <2>2. PICK s \in C : s \in E \/ next[s] \notin C
    BY <2>1 DEF NoCycle
  <2> HIDE DEF U
  <2>3. s \in S /\ s \notin U
    OBVIOUS
  <2>4. CASE s \in E
    BY <1>3, <2>3, <2>4
  <2>5. CASE s \notin E
    <3>1. next[s] \in U
      BY <2>2, <2>3, <2>5
    <3> QED BY <1>4, <2>3, <2>5, <3>1
  <2> QED BY <2>4, <2>5
<1>6. \A s \in S : F[s] = Highest(E, own, next, F, s)
  BY <1>2, <1>5
<1>7. F = [s \in S |-> F[s]]
  OBVIOUS
<1> HIDE DEF F
<1>8. Solves(S, E, own, next, F)
  BY <1>6, <1>7 DEF Solves
<1> QED BY <1>8

(* OwnHeight: a stack is at least as high as its bottom.                   *)
LEMMA OwnHeight ==
  ASSUME SliceInv, NEW s \in Stacks
  PROVE  OwnHighestZ(s) \in Nat /\ OwnHighestZ(s) >= m_dZBottom[s]
<1>1. m_dZBottom[s] \in Nat /\ m_pSlices[s] \in Seq(Nat)
  BY DEF SliceInv
<1>2. m_pSlices[s] # << >> => Last(m_pSlices[s]) \in Nat
  <2> SUFFICES ASSUME m_pSlices[s] # << >> PROVE Last(m_pSlices[s]) \in Nat
    OBVIOUS
  <2>1. Len(m_pSlices[s]) \in 1..Len(m_pSlices[s])
    BY <1>1
  <2>2. m_pSlices[s][Len(m_pSlices[s])] \in Nat
    BY <1>1, <2>1
  <2> QED BY <2>2 DEF Last
<1> QED BY <1>1, <1>2 DEF OwnHighestZ, Larger

(* HighestZ: getHighestZ of a stack is a height, at least that of its own  *)
(* bottom and of the bottom of its last reference.                         *)
LEMMA HighestZ ==
  ASSUME SliceInv, NEW s \in Stacks
  PROVE  /\ getHighestZ[s] \in Nat /\ getHighestZ[s] >= m_dZBottom[s]
         /\ m_pSliceRefs[s] # << >> => getHighestZ[s] >= m_dZBottom[Last(m_pSliceRefs[s])]
<1> DEFINE E == {x \in Stacks : m_pSliceRefs[x] = << >>}
           own == [x \in Stacks |-> OwnHighestZ(x)]
           next == [x \in Stacks |-> Last(m_pSliceRefs[x])]
<1>1. m_dZBottom \in [Stacks -> Nat] /\ m_pSliceRefs \in [Stacks -> Seq(Stacks)] /\ ReferencesAreOrdered
  BY DEF SliceInv
<1>2. ASSUME NEW x \in Stacks, x \notin E
      PROVE  next[x] \in Stacks /\ next[x] \in Range(m_pSliceRefs[x]) /\ next[x] = Last(m_pSliceRefs[x])
  <2> DEFINE r == m_pSliceRefs[x]
  <2>1. r \in Seq(Stacks) /\ r # << >>
    BY <1>1, <1>2
  <2> HIDE DEF r
  <2>2. Len(r) \in DOMAIN r /\ r[Len(r)] \in Stacks
    BY <2>1
  <2>3. Last(r) \in Stacks /\ Last(r) \in Range(r)
    BY <2>2 DEF Last, Range
  <2> QED BY <2>3 DEF r
<1>3. NoCycle(Stacks, E, next)
  <2> SUFFICES ASSUME NEW C \in SUBSET Stacks, C # {}
               PROVE  \E x \in C : x \in E \/ next[x] \notin C
    BY Zenon DEF NoCycle
  <2>1. PICK x \in C : Range(m_pSliceRefs[x]) \cap C = {}
    BY <1>1 DEF ReferencesAreOrdered
  <2> HIDE DEF E, next
  <2>2. x \in Stacks
    BY <2>1
  <2> QED BY <1>2, <2>1, <2>2
<1>4. \A x \in Stacks : x \notin E => next[x] \in Stacks
  BY <1>2
<1>5. \E f : Solves(Stacks, E, own, next, f)
  <2> HIDE DEF E, own, next
  <2> QED BY <1>3, <1>4, HighestExists
<1>6. \A f : [x \in Stacks |-> Highest(E, own, next, f, x)]
              = [x \in Stacks |-> IF m_pSliceRefs[x] = << >> THEN OwnHighestZ(x)
                                  ELSE Larger(OwnHighestZ(x), f[Last(m_pSliceRefs[x])])]
  BY DEF Highest
<1>7. getHighestZ = [x \in Stacks |-> IF m_pSliceRefs[x] = << >> THEN OwnHighestZ(x)
                                      ELSE Larger(OwnHighestZ(x), getHighestZ[Last(m_pSliceRefs[x])])]
  <2>1. \E f : f = [x \in Stacks |-> IF m_pSliceRefs[x] = << >> THEN OwnHighestZ(x)
                                     ELSE Larger(OwnHighestZ(x), f[Last(m_pSliceRefs[x])])]
    <3>1. PICK f : Solves(Stacks, E, own, next, f)
      BY <1>5
    <3>2. f = [x \in Stacks |-> Highest(E, own, next, f, x)]
      BY <3>1, Zenon DEF Solves
    <3> HIDE DEF E, own, next
    <3>3. f = [x \in Stacks |-> IF m_pSliceRefs[x] = << >> THEN OwnHighestZ(x)
                               ELSE Larger(OwnHighestZ(x), f[Last(m_pSliceRefs[x])])]
      BY <1>6, <3>2, Zenon
    <3> QED BY <3>3, Zenon
  <2> QED BY <2>1, Zenon DEF getHighestZ
<1> HIDE DEF getHighestZ
<1>8. \A x \in Stacks : getHighestZ[x] = IF m_pSliceRefs[x] = << >> THEN OwnHighestZ(x)
                                      ELSE Larger(OwnHighestZ(x), getHighestZ[Last(m_pSliceRefs[x])])
  BY <1>7, Zenon
<1>9. \A x \in Stacks : OwnHighestZ(x) \in Nat /\ OwnHighestZ(x) >= m_dZBottom[x]
  BY OwnHeight
<1> DEFINE C == {x \in Stacks : getHighestZ[x] \notin Nat}
<1>10. C = {}
  <2> SUFFICES ASSUME C # {} PROVE FALSE
    OBVIOUS
  <2>1. C \in SUBSET Stacks
    OBVIOUS
  <2>2. PICK x \in C : x \in E \/ next[x] \notin C
    BY <1>3, <2>1 DEF NoCycle
  <2>3. CASE x \in E
    BY <1>8, <1>9, <2>2, <2>3
  <2>4. CASE x \notin E
    <3>1. getHighestZ[Last(m_pSliceRefs[x])] \in Nat
      BY <1>2, <2>2, <2>4
    <3> QED BY <1>8, <1>9, <2>2, <2>4, <3>1 DEF Larger
  <2> QED BY <2>3, <2>4
<1>11. \A x \in Stacks : getHighestZ[x] \in Nat /\ getHighestZ[x] >= m_dZBottom[x]
  <2> SUFFICES ASSUME NEW x \in Stacks PROVE getHighestZ[x] \in Nat /\ getHighestZ[x] >= m_dZBottom[x]
    OBVIOUS
  <2>1. getHighestZ[x] \in Nat /\ m_dZBottom[x] \in Nat
    BY <1>1, <1>10
  <2>2. CASE x \in E
    BY <1>8, <1>9, <2>1, <2>2
  <2>3. CASE x \notin E
    <3>1. getHighestZ[Last(m_pSliceRefs[x])] \in Nat
      BY <1>2, <1>10, <2>3
    <3> QED BY <1>8, <1>9, <2>1, <2>3, <3>1 DEF Larger
  <2> QED BY <2>2, <2>3
<1>12. ASSUME m_pSliceRefs[s] # << >> PROVE getHighestZ[s] >= m_dZBottom[Last(m_pSliceRefs[s])]
  <2> DEFINE l == Last(m_pSliceRefs[s])
  <2>1. l \in Stacks
    BY <1>2, <1>12
  <2> HIDE DEF l
  <2>2. getHighestZ[l] \in Nat /\ getHighestZ[l] >= m_dZBottom[l] /\ m_dZBottom[l] \in Nat
    BY <1>1, <1>11, <2>1
  <2>3. getHighestZ[s] = Larger(OwnHighestZ(s), getHighestZ[l])
    BY <1>8, <1>12 DEF l
  <2>4. getHighestZ[s] >= m_dZBottom[l]
    BY <1>9, <2>2, <2>3 DEF Larger
  <2> QED BY <2>4 DEF l
<1> QED BY <1>11, <1>12

(* No set of stacks holds a cycle of the references refs.                  *)
NoRefCycle(refs) == \A set \in (SUBSET Stacks) \ {{}} : \E s \in set : Range(refs[s]) \cap set = {}

(* The references refs of a stack start no lower than its bottom, and than *)
(* the references before them.                                             *)
BottomsRise(refs, own, bottom) ==
  \A i \in DOMAIN refs :
    /\ own <= bottom[refs[i]]
    /\ \A j \in 1..(i - 1) : bottom[refs[j]] <= bottom[refs[i]]

Ordered ==
  /\ NoRefCycle(m_pSliceRefs)
  /\ \A s \in Stacks : BottomsRise(m_pSliceRefs[s], m_dZBottom[s], m_dZBottom)

(* Bottoms: ReferencesAreOrdered in terms of the two.                      *)
LEMMA Bottoms ==
  m_pSliceRefs \in [Stacks -> Seq(Stacks)] => (ReferencesAreOrdered <=> Ordered)
<1> SUFFICES ASSUME m_pSliceRefs \in [Stacks -> Seq(Stacks)]
             PROVE  ReferencesAreOrdered <=>
                      /\ NoRefCycle(m_pSliceRefs)
                      /\ \A s \in Stacks : BottomsRise(m_pSliceRefs[s], m_dZBottom[s], m_dZBottom)
  BY DEF Ordered
<1> DEFINE bottoms(s) == [i \in DOMAIN m_pSliceRefs[s] |-> m_dZBottom[m_pSliceRefs[s][i]]]
           Rise(s) == \A i \in DOMAIN bottoms(s) :
                        /\ m_dZBottom[s] <= bottoms(s)[i]
                        /\ \A j \in 1..(i - 1) : bottoms(s)[j] <= bottoms(s)[i]
<1>1. ASSUME NEW s \in Stacks
      PROVE  Rise(s) <=> BottomsRise(m_pSliceRefs[s], m_dZBottom[s], m_dZBottom)
  <2> DEFINE r == m_pSliceRefs[s]
  <2>1. Len(r) \in Nat /\ DOMAIN r = 1..Len(r)
    OBVIOUS
  <2>2. \A i \in DOMAIN r : \A j \in 1..(i - 1) : j \in DOMAIN r
    BY <2>1
  <2>3. DOMAIN bottoms(s) = DOMAIN r /\ \A i \in DOMAIN r : bottoms(s)[i] = m_dZBottom[r[i]]
    OBVIOUS
  <2> HIDE DEF bottoms, r
  <2>4. Rise(s) <=> BottomsRise(r, m_dZBottom[s], m_dZBottom)
    BY <2>2, <2>3 DEF BottomsRise
  <2> HIDE DEF Rise
  <2> QED BY <2>4 DEF r
<1>2. ReferencesAreOrdered <=> NoRefCycle(m_pSliceRefs) /\ \A s \in Stacks : Rise(s)
  BY Zenon DEF ReferencesAreOrdered, NoRefCycle
<1> HIDE DEF Rise
<1> QED BY <1>1, <1>2

(* StillAcyclic: a reference to a stack without references makes no cycle. *)
LEMMA StillAcyclic ==
  ASSUME NEW refs \in [Stacks -> Seq(Stacks)], NoRefCycle(refs),
         NEW s \in Stacks, NEW other \in Stacks, s # other, refs[other] = << >>,
         NEW now, now = [refs EXCEPT ![s] = Append(@, other)]
  PROVE  now \in [Stacks -> Seq(Stacks)] /\ NoRefCycle(now)
<1>1. refs[s] \in Seq(Stacks)
  OBVIOUS
<1>2. Append(refs[s], other) \in Seq(Stacks) /\ Range(Append(refs[s], other)) = Range(refs[s]) \cup {other}
  BY <1>1, AppendRange
<1>3. now \in [Stacks -> Seq(Stacks)]
  BY <1>2
<1>4. now[s] = Append(refs[s], other) /\ \A x \in Stacks : x # s => now[x] = refs[x]
  OBVIOUS
<1>5. ASSUME NEW set \in SUBSET Stacks, set # {}
      PROVE  \E x \in set : Range(now[x]) \cap set = {}
  <2>1. PICK x \in set : Range(refs[x]) \cap set = {}
    BY <1>5 DEF NoRefCycle
  <2>2. CASE other \in set
    <3>1. Range(now[other]) = {}
      BY <1>4 DEF Range
    <3> QED BY <2>2, <3>1
  <2>3. CASE other \notin set
    <3>1. Range(now[x]) \cap set = {}
      BY <1>2, <1>4, <2>1, <2>3
    <3> QED BY <3>1
  <2> QED BY <2>2, <2>3
<1>6. NoRefCycle(now)
  BY <1>5, Zenon DEF NoRefCycle
<1> QED BY <1>3, <1>6

(* StillRising: a reference whose bottom is no lower than the stack's and  *)
(* than that of the last reference is no lower than any before it.         *)
LEMMA StillRising ==
  ASSUME NEW bottom \in [Stacks -> Nat], NEW refs \in Seq(Stacks), NEW own \in Nat,
         BottomsRise(refs, own, bottom), NEW other \in Stacks,
         bottom[other] >= own, refs # << >> => bottom[other] >= bottom[Last(refs)]
  PROVE  BottomsRise(Append(refs, other), own, bottom)
<1> DEFINE now == Append(refs, other)
<1>1. /\ DOMAIN now = 1..(Len(refs) + 1) /\ now[Len(refs) + 1] = other
      /\ \A i \in 1..Len(refs) : now[i] = refs[i]
      /\ Len(refs) \in Nat /\ DOMAIN refs = 1..Len(refs)
      /\ \A i \in 1..Len(refs) : bottom[refs[i]] \in Nat
  OBVIOUS
<1>2. \A i \in 1..Len(refs) : /\ own <= bottom[refs[i]]
                              /\ \A j \in 1..(i - 1) : bottom[refs[j]] <= bottom[refs[i]]
  BY <1>1 DEF BottomsRise
<1>3. \A i \in 1..Len(refs) : bottom[refs[i]] <= bottom[other]
  <2> SUFFICES ASSUME NEW i \in 1..Len(refs) PROVE bottom[refs[i]] <= bottom[other]
    OBVIOUS
  <2>1. Len(refs) \in 1..Len(refs) /\ refs # << >>
    BY <1>1
  <2>2. bottom[refs[Len(refs)]] <= bottom[other]
    BY <1>1, <2>1 DEF Last
  <2>3. bottom[refs[i]] <= bottom[refs[Len(refs)]]
    <3>1. CASE i = Len(refs)
      BY <1>1, <2>1, <3>1
    <3>2. CASE i # Len(refs)
      <4> DEFINE n == Len(refs)
      <4>1. n \in Nat /\ i \in 1..n /\ i # n /\ n \in 1..n
        BY <1>1, <2>1, <3>2, Zenon
      <4> HIDE DEF n
      <4>2. i \in 1..(n - 1)
        BY ONLY <4>1
      <4>3. \A k \in 1..n : \A j \in 1..(k - 1) : bottom[refs[j]] <= bottom[refs[k]]
        BY <1>2, Zenon DEF n
      <4> QED BY <4>1, <4>2, <4>3, Zenon DEF n
    <3> QED BY <3>1, <3>2
  <2> QED BY <1>1, <2>1, <2>2, <2>3
<1> HIDE DEF now
<1>4. ASSUME NEW i \in DOMAIN now
      PROVE  /\ own <= bottom[now[i]]
             /\ \A j \in 1..(i - 1) : bottom[now[j]] <= bottom[now[i]]
  <2>1. CASE i = Len(refs) + 1
    BY <1>1, <1>3, <2>1
  <2>2. CASE i \in 1..Len(refs)
    BY <1>1, <1>2, <2>2
  <2> QED BY <1>1, <2>1, <2>2
<1>5. BottomsRise(now, own, bottom)
  BY <1>4, Zenon DEF BottomsRise
<1> QED BY <1>5 DEF now

(* SliceStep: no operation on slice stacks breaks SliceInv.                *)
LEMMA SliceStep ==
  ASSUME SliceInv, [SliceStackNext]_sliceStackVars
  PROVE  SliceInv'
<1>0. (m_pSliceRefs \in [Stacks -> Seq(Stacks)] => (ReferencesAreOrdered <=> Ordered))'
  BY Bottoms, PTL
<1>10. ASSUME m_dZBottom' = m_dZBottom, m_pSliceRefs' = m_pSliceRefs
       PROVE  /\ m_dZBottom' \in [Stacks -> Nat] /\ m_pSliceRefs' \in [Stacks -> Seq(Stacks)]
              /\ ReferencesAreOrdered'
  <2>1. Ordered
    BY Bottoms DEF SliceInv
  <2>2. Ordered'
    BY <1>10, <2>1 DEF Ordered
  <2>3. m_dZBottom' \in [Stacks -> Nat] /\ m_pSliceRefs' \in [Stacks -> Seq(Stacks)]
    BY <1>10 DEF SliceInv
  <2> QED BY <1>0, <2>2, <2>3
<1>1. /\ m_dZBottom \in [Stacks -> Nat] /\ m_pSlices \in [Stacks -> Seq(Nat)]
      /\ m_pSliceRefs \in [Stacks -> Seq(Stacks)] /\ ReferencesAreOrdered
  BY DEF SliceInv
<1>2. CASE UNCHANGED sliceStackVars
  BY <1>1, <1>2, <1>10 DEF sliceStackVars, SliceInv
<1>3. ASSUME NEW s \in Stacks, NEW z \in 0..MaxZ, AddSlice(s, z)
      PROVE  SliceInv'
  <2>1. z \in Nat
    BY SliceStackAssumption
  <2>2. Append(m_pSlices[s], z) \in Seq(Nat)
    BY <1>1, <2>1
  <2>3. m_pSlices' \in [Stacks -> Seq(Nat)]
    BY <1>1, <1>3, <2>2 DEF AddSlice
  <2> QED BY <1>3, <1>10, <2>3 DEF AddSlice, SliceInv
<1>4. ASSUME NEW s \in Stacks, CollapseSliceReferences(s)
      PROVE  SliceInv'
  <2> DEFINE lists == [i \in DOMAIN m_pSliceRefs[s] |-> m_pSlices[m_pSliceRefs[s][i]]]
  <2>1. m_pSliceRefs[s] \in Seq(Stacks)
    BY <1>1
  <2>2. DOMAIN m_pSliceRefs[s] = 1..Len(m_pSliceRefs[s]) /\ Len(m_pSliceRefs[s]) \in Nat
    BY <2>1
  <2>3. \A i \in DOMAIN m_pSliceRefs[s] : m_pSlices[m_pSliceRefs[s][i]] \in Seq(Nat)
    BY <1>1, <2>1
  <2>4. lists \in Seq(Seq(Nat))
    BY <2>2, <2>3
  <2>5. m_pSlices' = [m_pSlices EXCEPT ![s] = FlattenSeq(lists)]
    BY <1>4 DEF CollapseSliceReferences
  <2> HIDE DEF lists
  <2>6. FlattenSeq(lists) \in Seq(Nat)
    BY <2>4, FlattenType
  <2>7. m_pSlices' \in [Stacks -> Seq(Nat)]
    BY <1>1, <2>5, <2>6
  <2> QED BY <1>4, <1>10, <2>7 DEF CollapseSliceReferences, SliceInv
<1>5. ASSUME NEW s \in Stacks, NEW other \in Stacks, AddSliceRef(s, other)
      PROVE  SliceInv'
  <2>1. /\ s # other /\ m_pSliceRefs[other] = << >> /\ m_dZBottom[other] >= getHighestZ[s]
        /\ m_pSliceRefs' = [m_pSliceRefs EXCEPT ![s] = Append(@, other)]
        /\ m_dZBottom' = m_dZBottom /\ m_pSlices' = m_pSlices
    BY <1>5 DEF AddSliceRef, RefAllowed
  <2>2. NoRefCycle(m_pSliceRefs) /\ \A x \in Stacks : BottomsRise(m_pSliceRefs[x], m_dZBottom[x], m_dZBottom)
    BY <1>1, Bottoms DEF Ordered
  <2>3. m_pSliceRefs' \in [Stacks -> Seq(Stacks)] /\ NoRefCycle(m_pSliceRefs')
    BY <1>1, <2>1, <2>2, StillAcyclic
  <2>4. /\ m_pSliceRefs'[s] = Append(m_pSliceRefs[s], other)
        /\ \A x \in Stacks : x # s => m_pSliceRefs'[x] = m_pSliceRefs[x]
    BY <1>1, <2>1
  <2>5. /\ getHighestZ[s] \in Nat /\ getHighestZ[s] >= m_dZBottom[s]
        /\ m_pSliceRefs[s] # << >> => getHighestZ[s] >= m_dZBottom[Last(m_pSliceRefs[s])]
    BY HighestZ
  <2>6. m_dZBottom[s] \in Nat /\ m_dZBottom[other] \in Nat /\ m_pSliceRefs[s] \in Seq(Stacks)
    BY <1>1
  <2>7. m_pSliceRefs[s] # << >> => m_dZBottom[Last(m_pSliceRefs[s])] \in Nat
    BY <1>1, <2>6 DEF Last
  <2>8. m_dZBottom[other] >= m_dZBottom[s]
        /\ (m_pSliceRefs[s] # << >> => m_dZBottom[other] >= m_dZBottom[Last(m_pSliceRefs[s])])
    BY <2>1, <2>5, <2>6, <2>7
  <2>9. BottomsRise(m_pSliceRefs'[s], m_dZBottom[s], m_dZBottom)
    BY <1>1, <2>2, <2>4, <2>6, <2>8, StillRising
  <2>10. \A x \in Stacks : BottomsRise(m_pSliceRefs'[x], m_dZBottom'[x], m_dZBottom')
    BY <2>1, <2>2, <2>4, <2>9
  <2>11. ReferencesAreOrdered'
    BY <1>0, <2>3, <2>10 DEF Ordered
  <2> QED BY <1>1, <2>1, <2>3, <2>11 DEF SliceInv
<1> QED BY <1>2, <1>3, <1>4, <1>5, Zenon DEF SliceStackNext

(* SlicesCorrect: in every behaviour of the slice stacks, no stack reaches *)
(* itself, and the references of a stack rise from its bottom.             *)
THEOREM SlicesCorrect == SliceStackSpec => []ReferencesAreOrdered
<1>1. SliceStackInit => SliceInv
  <2> SUFFICES ASSUME SliceStackInit PROVE SliceInv
    OBVIOUS
  <2>1. m_dZBottom \in [Stacks -> 0..MaxZ] /\ 0..MaxZ \subseteq Nat
    BY SliceStackAssumption DEF SliceStackInit
  <2>2. /\ m_dZBottom \in [Stacks -> Nat] /\ m_pSlices \in [Stacks -> Seq(Nat)]
        /\ m_pSliceRefs \in [Stacks -> Seq(Stacks)] /\ \A s \in Stacks : m_pSliceRefs[s] = << >>
    BY <2>1 DEF SliceStackInit
  <2>3. NoRefCycle(m_pSliceRefs)
    BY <2>2 DEF NoRefCycle, Range
  <2>4. \A s \in Stacks : BottomsRise(m_pSliceRefs[s], m_dZBottom[s], m_dZBottom)
    BY <2>2 DEF BottomsRise
  <2> QED BY <2>2, <2>3, <2>4, Bottoms DEF SliceInv, Ordered
<1>2. SliceInv /\ [SliceStackNext]_sliceStackVars => SliceInv'
  BY SliceStep
<1>3. SliceInv => ReferencesAreOrdered
  BY DEF SliceInv
<1> QED BY <1>1, <1>2, <1>3, PTL DEF SliceStackSpec

-----------------------------------------------------------------------------
(* Meshes and their information. *)

(* What a face and the default data of a mesh may show.                    *)
FaceValues == Properties \cup {None}
DefaultValues == FaceValues \cup {Null, Uninitialised}

InfoType == [has : BOOLEAN, data : Seq(FaceValues), default : DefaultValues]
MeshType == [nodes : BOOLEAN, faces : Nat, info : InfoType]

(* The meshes whose information, if they have it, has a record per face.   *)
Fitting == {m \in MeshType : m.info.has => Len(m.info.data) = m.faces}

(* The merged mesh has information as soon as a mesh merged had it, which  *)
(* is why an absent one says that none of them had default data.           *)
MeshInv ==
  /\ mesh \in [MeshNames -> Fitting] /\ merged \in Fitting /\ sources \in Seq(Fitting)
  /\ merged.info.has <=> \E k \in DOMAIN sources : sources[k].info.has
  /\ MergedMeshIsTheSources

(* InfoFields, MeshFields: the fields of a mesh and of its information.    *)
LEMMA InfoFields ==
  ASSUME NEW B, NEW S, NEW D, NEW i \in [has : B, data : S, default : D]
  PROVE  /\ i.has \in B /\ i.data \in S /\ i.default \in D
         /\ i = [has |-> i.has, data |-> i.data, default |-> i.default]
         /\ \A x \in S : LET j == [i EXCEPT !.data = x] IN
              j \in [has : B, data : S, default : D] /\ j.has = i.has /\ j.data = x
         /\ \A x \in D : LET j == [i EXCEPT !.default = x] IN
              j \in [has : B, data : S, default : D] /\ j.has = i.has /\ j.data = i.data
OBVIOUS

(* MeshFields: the same of a mesh.                                         *)
LEMMA MeshFields ==
  ASSUME NEW B, NEW N, NEW I, NEW m \in [nodes : B, faces : N, info : I]
  PROVE  /\ m.nodes \in B /\ m.faces \in N /\ m.info \in I
         /\ \A x \in I : LET n == [m EXCEPT !.info = x] IN
              n \in [nodes : B, faces : N, info : I] /\ n.faces = m.faces /\ n.info = x
OBVIOUS

(* FittingFields: what is known of a mesh.                                 *)
LEMMA FittingFields ==
  ASSUME NEW m \in Fitting
  PROVE  /\ m.nodes \in BOOLEAN
         /\ m.faces \in Nat /\ m.info \in InfoType /\ m.info.has \in BOOLEAN
         /\ m.info.data \in Seq(FaceValues) /\ m.info.default \in DefaultValues
         /\ m.info.has => Len(m.info.data) = m.faces
<1>1. m \in MeshType /\ (m.info.has => Len(m.info.data) = m.faces)
  BY DEF Fitting
<1>2. m.nodes \in BOOLEAN /\ m.faces \in Nat /\ m.info \in InfoType
  BY <1>1, MeshFields, Zenon DEF MeshType
<1>3. m.info.has \in BOOLEAN /\ m.info.data \in Seq(FaceValues) /\ m.info.default \in DefaultValues
  BY <1>2, InfoFields, Zenon DEF InfoType
<1> QED BY <1>1, <1>2, <1>3, Zenon

(* WithInfo: a mesh whose information is replaced by a fitting one fits.   *)
LEMMA WithInfo ==
  ASSUME NEW m \in Fitting, NEW i \in InfoType, i.has => Len(i.data) = m.faces
  PROVE  [m EXCEPT !.info = i] \in Fitting
<1>1. m \in MeshType
  BY DEF Fitting
<1> DEFINE n == [m EXCEPT !.info = i]
<1>2. n \in MeshType /\ n.faces = m.faces /\ n.info = i
  BY <1>1, MeshFields, Zenon DEF MeshType
<1> HIDE DEF n
<1>3. n \in Fitting
  BY <1>2 DEF Fitting
<1> QED BY <1>3 DEF n

(* NoRecords: the records of faces that have no property.                  *)
LEMMA NoRecords ==
  ASSUME NEW n \in Nat
  PROVE  Invalid(n) \in Seq(FaceValues) /\ Len(Invalid(n)) = n
         /\ \A k \in 1..n : Invalid(n)[k] = None
BY DEF Invalid, FaceValues

(* Created: createInformation gives a mesh information that fits.          *)
LEMMA Created ==
  ASSUME NEW m \in Fitting
  PROVE  LET c == createInformation(m) IN
         /\ c \in Fitting /\ c.faces = m.faces /\ c.info.has = TRUE
         /\ c.info.data = OwnData(m)
         /\ c.info.default = IF m.info.has THEN m.info.default ELSE Null
<1> DEFINE c == createInformation(m)
           i == [has |-> TRUE, data |-> Invalid(m.faces), default |-> Null]
<1>1. CASE m.info.has
  <2>1. c = m /\ m.info.has = TRUE
    BY <1>1, FittingFields DEF createInformation
  <2> QED BY <1>1, <2>1 DEF OwnData
<1>2. CASE ~m.info.has
  <2>1. c = [m EXCEPT !.info = i]
    BY <1>2 DEF createInformation
  <2>2. m.faces \in Nat
    BY FittingFields
  <2>3. Invalid(m.faces) \in Seq(FaceValues) /\ Len(Invalid(m.faces)) = m.faces
    BY <2>2, NoRecords
  <2>4. i \in InfoType /\ i.has = TRUE /\ i.data = Invalid(m.faces) /\ i.default = Null
    BY <2>3 DEF InfoType, DefaultValues
  <2> HIDE DEF i
  <2>5. c \in Fitting
    BY <2>1, <2>3, <2>4, WithInfo
  <2>6. m \in MeshType
    BY DEF Fitting
  <2>7. c.faces = m.faces /\ c.info = i
    BY <2>1, <2>4, <2>6, MeshFields, Zenon DEF MeshType
  <2> HIDE DEF c
  <2> QED BY <1>2, <2>4, <2>5, <2>7 DEF OwnData, c
<1> QED BY <1>1, <1>2

(* EditStep: a call on a mesh that leaves a fitting mesh keeps MeshInv.    *)
LEMMA EditStep ==
  ASSUME MeshInv, NEW n \in MeshNames, NEW m \in Fitting, Change(n, m)
  PROVE  MeshInv'
<1>1. /\ mesh' = [mesh EXCEPT ![n] = m] /\ merged' = merged /\ sources' = sources
      /\ mesh \in [MeshNames -> Fitting]
  BY DEF Change, MeshInv
<1>2. mesh' \in [MeshNames -> Fitting]
  BY <1>1
<1>3. \A x \in {mesh'[a] : a \in MeshNames} \cup {merged'} : x.info.has => Len(x.info.data) = x.faces
  BY <1>1, <1>2, FittingFields DEF MeshInv
<1>4. MergedMeshIsTheSources'
  BY <1>1, <1>3 DEF MeshInv, MergedMeshIsTheSources, OwnData, WithFaces, WithDefault, Invalid
<1> QED BY <1>1, <1>2, <1>4 DEF MeshInv

(* MergedType: mergeMesh gives a mesh that fits, has information if either *)
(* of the two had it, and the faces of the two.                            *)
LEMMA MergedType ==
  ASSUME NEW m \in Fitting, NEW source \in Fitting
  PROVE  LET r == mergeMesh(m, source) IN
         /\ r \in Fitting
         /\ r.info.has <=> m.info.has \/ source.info.has
         /\ OwnData(r) = OwnData(m) \o OwnData(source)
         /\ r.info.default =
              IF source.info.has /\ source.faces > 0
              THEN IF source.info.default # Null THEN source.info.default
                   ELSE IF ~m.info.has \/ m.info.default = Null THEN Uninitialised
                   ELSE m.info.default
              ELSE IF m.info.has \/ ~source.info.has THEN m.info.default ELSE Null
<1> DEFINE t == addInfoTableFrom(m, source)
           r == mergeMesh(m, source)
           d == IF t.info.has THEN cloneFaceInfosFrom(t.info.data, source) ELSE <<>>
           both == t.info.has /\ source.info.has /\ source.faces > 0
           def == IF both THEN cloneDefaultInfosFrom(t, source) ELSE t.info.default
<1>1. /\ t \in Fitting /\ t.faces = m.faces
      /\ t.info.has <=> m.info.has \/ source.info.has
      /\ source.info.has => t.info.data = OwnData(m)
      /\ ~source.info.has => t = m
      /\ t.info.default = IF m.info.has \/ ~source.info.has THEN m.info.default ELSE Null
  <2>1. CASE source.info.has
    <3>1. t = createInformation(m)
      BY <2>1 DEF addInfoTableFrom
    <3> HIDE DEF t
    <3> QED BY <2>1, <3>1, Created
  <2>2. CASE ~source.info.has
    <3>1. t = m
      BY <2>2 DEF addInfoTableFrom
    <3> QED BY <2>2, <3>1
  <2> QED BY <2>1, <2>2
<1>2. r = [nodes |-> t.nodes \/ source.nodes, faces |-> t.faces + source.faces,
           info |-> [has |-> t.info.has, data |-> d, default |-> def]]
  BY DEF mergeMesh
<1> HIDE DEF t
<1>3. /\ t.faces \in Nat /\ t.info.has \in BOOLEAN /\ t.info.data \in Seq(FaceValues)
      /\ t.info.default \in DefaultValues /\ (t.info.has => Len(t.info.data) = t.faces)
  BY <1>1, FittingFields
<1>4. /\ source.faces \in Nat /\ source.info.has \in BOOLEAN /\ source.info.data \in Seq(FaceValues)
      /\ source.info.default \in DefaultValues /\ (source.info.has => Len(source.info.data) = source.faces)
  BY FittingFields
<1>5. m.faces \in Nat /\ (m.info.has => Len(m.info.data) = m.faces) /\ m.info.data \in Seq(FaceValues)
  BY FittingFields
<1>6. OwnData(source) \in Seq(FaceValues) /\ Len(OwnData(source)) = source.faces
  BY <1>4, NoRecords DEF OwnData
<1>7. t.info.has => d = t.info.data \o OwnData(source)
  BY DEF cloneFaceInfosFrom, OwnData
<1>8. d \in Seq(FaceValues) /\ (t.info.has => Len(d) = t.faces + source.faces)
  <2>1. CASE t.info.has
    <3>1. d = t.info.data \o OwnData(source)
      BY <1>7, <2>1
    <3> HIDE DEF d
    <3>2. t.info.data \o OwnData(source) \in Seq(FaceValues)
          /\ Len(t.info.data \o OwnData(source)) = Len(t.info.data) + Len(OwnData(source))
      BY ONLY <1>3, <1>6, ConcatProperties
    <3> QED BY <1>3, <1>6, <2>1, <3>1, <3>2
  <2>2. CASE ~t.info.has
    BY <2>2
  <2> QED BY <2>1, <2>2
<1>9. def \in DefaultValues
  BY <1>3, <1>4 DEF cloneDefaultInfosFrom, DefaultValues
<1>10. def = IF source.info.has /\ source.faces > 0
             THEN IF source.info.default # Null THEN source.info.default
                  ELSE IF ~m.info.has \/ m.info.default = Null THEN Uninitialised
                  ELSE m.info.default
             ELSE IF m.info.has \/ ~source.info.has THEN m.info.default ELSE Null
  <2>1. CASE both
    <3>1. def = cloneDefaultInfosFrom(t, source)
      BY <2>1
    <3> QED BY <1>1, <2>1, <3>1 DEF cloneDefaultInfosFrom
  <2>2. CASE ~both
    <3>1. def = t.info.default /\ ~(source.info.has /\ source.faces > 0)
      BY <1>1, <2>2
    <3> QED BY <1>1, <3>1
  <2> QED BY <2>1, <2>2
<1> HIDE DEF d, def, both
<1> DEFINE i == [has |-> t.info.has, data |-> d, default |-> def]
<1>11. i \in InfoType /\ i.has = t.info.has /\ i.data = d /\ i.default = def
  BY <1>3, <1>8, <1>9 DEF InfoType
<1> DEFINE b == t.nodes \/ source.nodes
<1>12. r = [nodes |-> b, faces |-> t.faces + source.faces, info |-> i] /\ b \in BOOLEAN
  BY <1>2
<1> HIDE DEF i, r, b
<1>13. t.faces + source.faces \in Nat
  BY <1>3, <1>4
<1>14. r \in MeshType /\ r.faces = t.faces + source.faces /\ r.info = i
  BY <1>11, <1>12, <1>13 DEF MeshType
<1>15. r \in Fitting
  BY <1>8, <1>11, <1>14 DEF Fitting
<1>16. OwnData(r) = OwnData(m) \o OwnData(source)
  <2>1. CASE source.info.has
    BY <1>1, <1>7, <1>11, <1>14, <2>1 DEF OwnData
  <2>2. CASE ~source.info.has /\ m.info.has
    BY <1>1, <1>7, <1>11, <1>14, <2>2 DEF OwnData
  <2>3. CASE ~source.info.has /\ ~m.info.has
    <3>1. OwnData(r) = Invalid(m.faces + source.faces)
      BY <1>1, <1>11, <1>14, <2>3 DEF OwnData
    <3>2. OwnData(m) = Invalid(m.faces) /\ OwnData(source) = Invalid(source.faces)
      BY <2>3 DEF OwnData
    <3>3. Invalid(m.faces + source.faces) = Invalid(m.faces) \o Invalid(source.faces)
      BY <1>4, <1>5 DEF Invalid
    <3> QED BY <3>1, <3>2, <3>3
  <2> QED BY <2>1, <2>2, <2>3
<1>17. (r.info.has <=> m.info.has \/ source.info.has) /\ r.info.default = def
  BY <1>1, <1>11, <1>14
<1> QED BY <1>10, <1>15, <1>16, <1>17 DEF r

(* The sources merged with faces and information, and those of them that   *)
(* have default data.                                                      *)
Faced(srcs) == {k \in DOMAIN srcs : srcs[k].info.has /\ srcs[k].faces > 0}
Defaulted(srcs) == {k \in Faced(srcs) : srcs[k].info.default # Null}

(* The default d is that of the last of them.                              *)
DefaultOf(d, srcs) ==
  /\ \A k \in Defaulted(srcs) :
       (\A l \in Defaulted(srcs) : l <= k) => d = srcs[k].info.default
  /\ Defaulted(srcs) = {} => d = IF Faced(srcs) # {} THEN Uninitialised ELSE Null

(* MergedDefault: the default data after one merge more.                   *)
LEMMA MergedDefault ==
  ASSUME NEW srcs \in Seq(Fitting), NEW m \in Fitting, NEW source \in Fitting,
         m.info.has <=> \E k \in DOMAIN srcs : srcs[k].info.has,
         DefaultOf(m.info.default, srcs)
  PROVE  DefaultOf(mergeMesh(m, source).info.default, Append(srcs, source))
<1> DEFINE now == Append(srcs, source)
           n == Len(srcs)
           old == m.info.default
           d == mergeMesh(m, source).info.default
<1>1. /\ n \in Nat /\ DOMAIN srcs = 1..n /\ DOMAIN now = 1..(n + 1)
      /\ now[n + 1] = source /\ \A k \in 1..n : now[k] = srcs[k]
  OBVIOUS
<1>2. d = IF source.info.has /\ source.faces > 0
          THEN IF source.info.default # Null THEN source.info.default
               ELSE IF ~m.info.has \/ old = Null THEN Uninitialised ELSE old
          ELSE IF m.info.has \/ ~source.info.has THEN old ELSE Null
  BY MergedType
<1> HIDE DEF now, d
<1>3. Faced(now) = Faced(srcs) \cup (IF source.info.has /\ source.faces > 0 THEN {n + 1} ELSE {})
  <2> SUFFICES ASSUME NEW k \in 1..(n + 1)
               PROVE  k \in Faced(now) <=>
                        k \in Faced(srcs) \/ (source.info.has /\ source.faces > 0 /\ k = n + 1)
    BY <1>1 DEF Faced
  <2>1. CASE k = n + 1
    BY <1>1, <2>1 DEF Faced
  <2>2. CASE k \in 1..n
    BY <1>1, <2>2 DEF Faced
  <2> QED BY <1>1, <2>1, <2>2
<1>4. /\ n + 1 \notin Faced(srcs) /\ Faced(srcs) \subseteq 1..n
      /\ ~m.info.has => Faced(srcs) = {}
  BY <1>1 DEF Faced
<1>5. CASE source.info.has /\ source.faces > 0 /\ source.info.default # Null
  <2>1. n + 1 \in Defaulted(now) /\ d = now[n + 1].info.default
    BY <1>1, <1>2, <1>3, <1>5 DEF Defaulted
  <2>2. Defaulted(now) \subseteq 1..(n + 1)
    BY <1>1, <1>3, <1>4 DEF Defaulted
  <2>3. ASSUME NEW k \in Defaulted(now), \A l \in Defaulted(now) : l <= k
        PROVE  k = n + 1
    BY <1>1, <2>1, <2>2, <2>3
  <2> QED BY <2>1, <2>3 DEF DefaultOf, now, d
<1>6. ASSUME ~(source.info.has /\ source.faces > 0 /\ source.info.default # Null)
      PROVE  Defaulted(now) = Defaulted(srcs)
  <2>1. \A k \in 1..n : k \in Faced(now) <=> k \in Faced(srcs)
    BY <1>1, <1>3
  <2>2. n + 1 \in Faced(now) => source.info.default = Null
    BY <1>3, <1>4, <1>6
  <2>3. Faced(now) \subseteq 1..(n + 1)
    BY <1>1, <1>3, <1>4
  <2> QED BY <1>1, <1>4, <2>1, <2>2, <2>3 DEF Defaulted
<1>7. \A k \in Defaulted(srcs) : /\ srcs[k].info.default # Null /\ m.info.has
                                 /\ now[k] = srcs[k]
  BY <1>1, <1>4 DEF Defaulted
<1>8. CASE source.info.has /\ source.faces > 0 /\ source.info.default = Null
  <2>1. Defaulted(now) = Defaulted(srcs) /\ Faced(now) # {}
    BY <1>3, <1>6, <1>8
  <2>2. d = IF ~m.info.has \/ old = Null THEN Uninitialised ELSE old
    BY <1>2, <1>8
  <2>3. ASSUME NEW k \in Defaulted(srcs), \A l \in Defaulted(srcs) : l <= k
        PROVE  d = now[k].info.default
    <3>1. old = srcs[k].info.default
      BY <2>3 DEF DefaultOf
    <3> QED BY <1>7, <2>2, <2>3, <3>1
  <2>4. ASSUME Defaulted(srcs) = {} PROVE d = Uninitialised
    <3>1. old = Uninitialised \/ old = Null
      BY <2>4 DEF DefaultOf
    <3> QED BY <2>2, <3>1
  <2>5. DefaultOf(d, now)
    BY <2>1, <2>3, <2>4 DEF DefaultOf
  <2> QED BY <2>5 DEF now, d
<1>9. CASE ~(source.info.has /\ source.faces > 0)
  <2>1. Defaulted(now) = Defaulted(srcs) /\ Faced(now) = Faced(srcs)
    BY <1>3, <1>6, <1>9
  <2>2. d = IF m.info.has \/ ~source.info.has THEN old ELSE Null
    BY <1>2, <1>9
  <2>3. ASSUME NEW k \in Defaulted(srcs), \A l \in Defaulted(srcs) : l <= k
        PROVE  d = now[k].info.default
    <3>1. old = srcs[k].info.default
      BY <2>3 DEF DefaultOf
    <3> QED BY <1>7, <2>2, <2>3, <3>1
  <2>4. ASSUME Defaulted(srcs) = {} PROVE d = IF Faced(srcs) # {} THEN Uninitialised ELSE Null
    <3>1. old = IF Faced(srcs) # {} THEN Uninitialised ELSE Null
      BY <2>4 DEF DefaultOf
    <3> QED BY <1>4, <2>2, <3>1
  <2>5. DefaultOf(d, now)
    BY <2>1, <2>3, <2>4 DEF DefaultOf
  <2> QED BY <2>5 DEF now, d
<1> QED BY <1>5, <1>8, <1>9

(* The faces of the meshes srcs, one after another.                        *)
FacesOf(srcs) == FlattenSeq([k \in DOMAIN srcs |-> OwnData(srcs[k])])

(* MergedFaces: the faces after one merge more.                            *)
LEMMA MergedFaces ==
  ASSUME NEW srcs \in Seq(Fitting), NEW source \in Fitting
  PROVE  FacesOf(Append(srcs, source)) = FacesOf(srcs) \o OwnData(source)
<1> DEFINE ss == [k \in DOMAIN srcs |-> OwnData(srcs[k])]
           tt == [k \in DOMAIN Append(srcs, source) |-> OwnData(Append(srcs, source)[k])]
<1>1. ASSUME NEW m \in Fitting PROVE OwnData(m) \in Seq(FaceValues)
  BY FittingFields, NoRecords DEF OwnData
<1>2. /\ Len(srcs) \in Nat /\ DOMAIN srcs = 1..Len(srcs)
      /\ \A k \in 1..Len(srcs) : srcs[k] \in Fitting
      /\ DOMAIN Append(srcs, source) = 1..(Len(srcs) + 1)
      /\ Append(srcs, source)[Len(srcs) + 1] = source
      /\ \A k \in 1..Len(srcs) : Append(srcs, source)[k] = srcs[k]
  OBVIOUS
<1>3. ss \in Seq(Seq(FaceValues)) /\ Len(ss) = Len(srcs)
  BY <1>1, <1>2
<1>4. /\ DOMAIN tt = 1..(Len(srcs) + 1) /\ tt = [k \in 1..(Len(srcs) + 1) |-> tt[k]]
      /\ tt[Len(srcs) + 1] = OwnData(source)
      /\ \A k \in 1..Len(srcs) : tt[k] = ss[k]
  BY <1>2
<1> HIDE DEF ss, tt
<1>5. tt = Append(ss, OwnData(source))
  <2>1. OwnData(source) \in Seq(FaceValues)
    BY <1>1
  <2>2. Extends(tt, ss, OwnData(source))
    BY <1>3, <1>4, Zenon DEF Extends
  <2> QED BY <1>3, <2>1, <2>2, IsAppend
<1>6. FlattenSeq(tt) = FlattenSeq(ss) \o OwnData(source)
  BY <1>1, <1>3, <1>5, FlattenAppend
<1> QED BY <1>6 DEF FacesOf, ss, tt

(* InfoUpdates: a mesh with new records or with new default data fits.     *)
LEMMA InfoUpdates ==
  ASSUME NEW m \in Fitting
  PROVE  /\ \A x \in Seq(FaceValues) : Len(x) = m.faces =>
              LET n == [m EXCEPT !.info.data = x] IN
              n \in Fitting /\ n.faces = m.faces
         /\ \A x \in DefaultValues : [m EXCEPT !.info.default = x] \in Fitting
<1>1. m \in MeshType /\ m.info \in InfoType /\ (m.info.has => Len(m.info.data) = m.faces)
  BY FittingFields DEF Fitting
<1>2. ASSUME NEW x \in Seq(FaceValues), Len(x) = m.faces
      PROVE  LET n == [m EXCEPT !.info.data = x] IN n \in Fitting /\ n.faces = m.faces
  <2> DEFINE i == [m.info EXCEPT !.data = x]
  <2>1. i \in InfoType /\ i.data = x
    BY <1>1, InfoFields, Zenon DEF InfoType
  <2>2. [m EXCEPT !.info.data = x] = [m EXCEPT !.info = i]
    OBVIOUS
  <2> HIDE DEF i
  <2>3. [m EXCEPT !.info = i] \in Fitting
    BY <1>2, <2>1, WithInfo
  <2>4. [m EXCEPT !.info = i].faces = m.faces
    BY <1>1, <2>1, MeshFields, Zenon DEF MeshType
  <2> QED BY <2>2, <2>3, <2>4, Zenon
<1>3. ASSUME NEW x \in DefaultValues
      PROVE  [m EXCEPT !.info.default = x] \in Fitting
  <2> DEFINE i == [m.info EXCEPT !.default = x]
  <2>1. i \in InfoType /\ i.has = m.info.has /\ i.data = m.info.data
    BY <1>1, InfoFields, Zenon DEF InfoType
  <2>2. [m EXCEPT !.info.default = x] = [m EXCEPT !.info = i]
    OBVIOUS
  <2> HIDE DEF i
  <2>3. [m EXCEPT !.info = i] \in Fitting
    BY <1>1, <2>1, WithInfo
  <2> QED BY <2>2, <2>3, Zenon
<1> QED BY <1>2, <1>3, Zenon

(* FaceRecord: the two changes of addFace, field by field.                 *)
LEMMA FaceRecord ==
  ASSUME NEW N, NEW B, NEW S, NEW D, NEW m \in [nodes : B, faces : N, info : [has : B, data : S, default : D]],
         NEW a, NEW d
  PROVE  [m EXCEPT !.faces = a, !.info.data = d]
           = [nodes |-> m.nodes, faces |-> a,
              info |-> [has |-> m.info.has, data |-> d, default |-> m.info.default]]
<1> DEFINE i == [m.info EXCEPT !.data = d]
<1>1. /\ m = [nodes |-> m.nodes, faces |-> m.faces, info |-> m.info]
      /\ m.info \in [has : B, data : S, default : D]
  OBVIOUS
<1>2. [m EXCEPT !.faces = a, !.info.data = d] = [nodes |-> m.nodes, faces |-> a, info |-> i]
  <2>1. [m EXCEPT !.faces = a, !.info.data = d] = [[m EXCEPT !.faces = a] EXCEPT !.info = i]
    OBVIOUS
  <2> HIDE DEF i
  <2>2. [m EXCEPT !.faces = a] = [nodes |-> m.nodes, faces |-> a, info |-> m.info]
    BY <1>1
  <2>3. [[nodes |-> m.nodes, faces |-> a, info |-> m.info] EXCEPT !.info = i]
          = [nodes |-> m.nodes, faces |-> a, info |-> i]
    OBVIOUS
  <2> QED BY <2>1, <2>2, <2>3, Zenon
<1>3. i = [has |-> m.info.has, data |-> d, default |-> m.info.default]
  <2>1. \A j \in [has : B, data : S, default : D] :
          [j EXCEPT !.data = d] = [has |-> j.has, data |-> d, default |-> j.default]
    OBVIOUS
  <2> QED BY <1>1, <2>1
<1> QED BY <1>2, <1>3

(* FaceAdded: addFace adds a record for the face if there is information.  *)
LEMMA FaceAdded ==
  ASSUME NEW m \in Fitting
  PROVE  addFace(m) \in Fitting
<1> DEFINE d == IF m.info.has THEN Append(m.info.data, None) ELSE m.info.data
           i == [has |-> m.info.has, data |-> d, default |-> m.info.default]
           n == [nodes |-> m.nodes, faces |-> m.faces + 1, info |-> i]
<1>1. /\ m \in MeshType /\ m.nodes \in BOOLEAN /\ m.faces \in Nat
      /\ m.info \in InfoType /\ m.info.has \in BOOLEAN
      /\ m.info.data \in Seq(FaceValues) /\ m.info.default \in DefaultValues
      /\ m.info.has => Len(m.info.data) = m.faces
  BY FittingFields DEF Fitting
<1>2. d \in Seq(FaceValues) /\ (m.info.has => Len(d) = m.faces + 1)
  <2>1. None \in FaceValues
    BY DEF FaceValues
  <2> QED BY <1>1, <2>1
<1>3. addFace(m) = n
  <2>1. addFace(m) = [m EXCEPT !.faces = m.faces + 1, !.info.data = d]
    BY DEF addFace
  <2> HIDE DEF d
  <2>2. m \in [nodes : BOOLEAN, faces : Nat,
                info : [has : BOOLEAN, data : Seq(FaceValues), default : DefaultValues]]
    BY <1>1, Zenon DEF MeshType, InfoType
  <2> QED BY <2>1, <2>2, FaceRecord, Zenon
<1> HIDE DEF d
<1>4. i \in InfoType /\ i.has = m.info.has /\ i.data = d
  BY <1>1, <1>2 DEF InfoType
<1> HIDE DEF i
<1>5. n \in MeshType /\ n.faces = m.faces + 1 /\ n.info = i
  BY <1>1, <1>4 DEF MeshType
<1> HIDE DEF n
<1>6. n \in Fitting
  BY <1>2, <1>4, <1>5 DEF Fitting
<1> QED BY <1>3, <1>6

(* ReadFits: what mergeMesh reads of a mesh fits as well.                  *)
LEMMA ReadFits ==
  ASSUME NEW m \in Fitting
  PROVE  ReadFrom(m) \in Fitting
<1>1. CASE m.nodes
  BY <1>1 DEF ReadFrom
<1>2. CASE ~m.nodes
  <2> DEFINE i == [has |-> m.info.has, data |-> <<>>, default |-> m.info.default]
             n == [nodes |-> m.nodes, faces |-> 0, info |-> i]
  <2>1. /\ m \in MeshType /\ m.nodes \in BOOLEAN /\ m.info.has \in BOOLEAN
        /\ m.info.default \in DefaultValues
    BY FittingFields DEF Fitting
  <2>2. m \in [nodes : BOOLEAN, faces : Nat,
                info : [has : BOOLEAN, data : Seq(FaceValues), default : DefaultValues]]
    BY <2>1, Zenon DEF MeshType, InfoType
  <2>3. ReadFrom(m) = n
    BY <1>2, <2>2, FaceRecord, Zenon DEF ReadFrom
  <2>4. i \in InfoType /\ i.has = m.info.has /\ i.data = <<>>
    BY <2>1 DEF InfoType
  <2> HIDE DEF i
  <2>5. n \in MeshType /\ n.faces = 0 /\ n.info = i
    BY <2>1, <2>4 DEF MeshType
  <2> HIDE DEF n
  <2>6. n \in Fitting
    BY <2>4, <2>5 DEF Fitting
  <2> QED BY <2>3, <2>6
<1> QED BY <1>1, <1>2

(* NodeAdded: the first node of a mesh changes none of its faces.          *)
LEMMA NodeAdded ==
  ASSUME NEW m \in Fitting
  PROVE  [m EXCEPT !.nodes = TRUE] \in Fitting
<1> DEFINE n == [m EXCEPT !.nodes = TRUE]
<1>1. m \in MeshType /\ (m.info.has => Len(m.info.data) = m.faces)
  BY DEF Fitting
<1>2. \A N, I : \A x \in [nodes : BOOLEAN, faces : N, info : I] :
        LET y == [x EXCEPT !.nodes = TRUE] IN
        y \in [nodes : BOOLEAN, faces : N, info : I] /\ y.faces = x.faces /\ y.info = x.info
  OBVIOUS
<1>3. n \in MeshType /\ n.faces = m.faces /\ n.info = m.info
  BY <1>1, <1>2, Zenon DEF MeshType
<1> HIDE DEF n
<1>4. n \in Fitting
  BY <1>1, <1>3 DEF Fitting
<1> QED BY <1>4 DEF n

(* NothingMerged: before any merge, and after one that threw, the merged   *)
(* mesh is the empty one.                                                  *)
LEMMA NothingMerged ==
  ASSUME mesh \in [MeshNames -> Fitting], merged = EmptyMesh, sources = <<>>
  PROVE  MeshInv
<1>1. EmptyMesh \in Fitting /\ ~EmptyMesh.info.has /\ EmptyMesh.info.default = Null /\ EmptyMesh.faces = 0
  BY DEF EmptyMesh, NoInformation, Fitting, MeshType, InfoType, DefaultValues
<1>2. OwnData(merged) = <<>> /\ FlattenSeq([k \in DOMAIN sources |-> OwnData(sources[k])]) = <<>>
  <2>1. [k \in DOMAIN sources |-> OwnData(sources[k])] = <<>>
    OBVIOUS
  <2>2. OwnData(merged) = <<>>
    BY <1>1 DEF OwnData, Invalid
  <2>3. FlattenSeq(<<>>) = <<>>
    BY DEF FlattenSeq
  <2> QED BY <2>1, <2>2, <2>3
<1>3. WithFaces = {} /\ WithDefault = {}
  BY DEF WithFaces, WithDefault
<1>4. \A m \in {mesh[a] : a \in MeshNames} \cup {merged} : m.info.has => Len(m.info.data) = m.faces
  BY <1>1, FittingFields
<1>5. MergedMeshIsTheSources
  BY <1>1, <1>2, <1>3, <1>4 DEF MergedMeshIsTheSources
<1> QED BY <1>1, <1>5 DEF MeshInv

(* MergeStep: merging a mesh keeps MeshInv.                                *)
LEMMA MergeStep ==
  ASSUME MeshInv, Merge
  PROVE  MeshInv'
<1>1. PICK a \in MeshNames :
        /\ merged' = mergeMesh(merged, ReadFrom(mesh[a]))
        /\ sources' = Append(sources, ReadFrom(mesh[a])) /\ mesh' = mesh
  BY DEF Merge
<1> DEFINE source == ReadFrom(mesh[a])
<1>2. /\ source \in Fitting /\ merged \in Fitting /\ sources \in Seq(Fitting)
      /\ mesh \in [MeshNames -> Fitting]
  BY ReadFits DEF MeshInv
<1>3. /\ merged.info.has <=> \E k \in DOMAIN sources : sources[k].info.has
      /\ OwnData(merged) = FacesOf(sources) /\ DefaultOf(merged.info.default, sources)
  BY Zenon DEF MeshInv, MergedMeshIsTheSources, FacesOf, DefaultOf, Faced, Defaulted,
               WithFaces, WithDefault
<1>4. merged' = mergeMesh(merged, source) /\ sources' = Append(sources, source) /\ mesh' = mesh
  BY <1>1
<1> HIDE DEF source
<1>5. merged' \in Fitting /\ sources' \in Seq(Fitting) /\ mesh' \in [MeshNames -> Fitting]
  BY <1>2, <1>4, MergedType
<1>6. OwnData(mergeMesh(merged, source)) = FacesOf(Append(sources, source))
  <2>1. OwnData(mergeMesh(merged, source)) = OwnData(merged) \o OwnData(source)
    BY <1>2, MergedType
  <2>2. FacesOf(Append(sources, source)) = FacesOf(sources) \o OwnData(source)
    BY <1>2, MergedFaces, Zenon
  <2> QED BY <1>3, <2>1, <2>2, Zenon
<1>7. DefaultOf(mergeMesh(merged, source).info.default, Append(sources, source))
  BY <1>2, <1>3, MergedDefault
<1>8. merged'.info.has <=> \E k \in DOMAIN sources' : sources'[k].info.has
  <2>1. /\ Len(sources) \in Nat /\ DOMAIN sources = 1..Len(sources)
        /\ DOMAIN sources' = 1..(Len(sources) + 1) /\ sources'[Len(sources) + 1] = source
        /\ \A k \in 1..Len(sources) : sources'[k] = sources[k]
    BY <1>2, <1>4
  <2>2. merged'.info.has <=> merged.info.has \/ source.info.has
    BY <1>2, <1>4, MergedType
  <2>3. (\E k \in 1..(Len(sources) + 1) : sources'[k].info.has)
          <=> (\E k \in 1..Len(sources) : sources[k].info.has) \/ source.info.has
    BY <2>1
  <2> QED BY <1>3, <2>1, <2>2, <2>3
<1>9. \A x \in {mesh'[n] : n \in MeshNames} \cup {merged'} : x.info.has => Len(x.info.data) = x.faces
  BY <1>5, FittingFields
<1>10. MergedMeshIsTheSources'
  BY <1>4, <1>6, <1>7, <1>9, Zenon
  DEF MergedMeshIsTheSources, FacesOf, DefaultOf, Faced, Defaulted, WithFaces, WithDefault, OwnData, Invalid
<1> QED BY <1>5, <1>8, <1>10 DEF MeshInv

(* Refaced: a mesh with other nodes and faces.                             *)
LEMMA Refaced ==
  ASSUME NEW B, NEW F, NEW I, NEW m \in [nodes : B, faces : F, info : I],
         NEW b \in B, NEW f \in F
  PROVE  LET q == [m EXCEPT !.nodes = b, !.faces = f] IN
         q \in [nodes : B, faces : F, info : I] /\ q.faces = f /\ q.info = m.info
OBVIOUS

(* MeshesStep: no call on the meshes, and no merge, breaks MeshInv.        *)
LEMMA MeshesStep ==
  ASSUME MeshInv, [MeshesNext]_meshVars
  PROVE  MeshInv'
<1>0. ASSUME NEW a \in MeshNames PROVE mesh[a] \in Fitting
  BY DEF MeshInv
<1>1. CASE AddTriangle
  BY <1>0, <1>1, FaceAdded, EditStep DEF AddTriangle
<1>2. CASE SetTriangleProperties
  <2>1. PICK a \in MeshNames : \E k \in 1..mesh[a].faces, p \in Properties \cup {None} :
          Change(a, [createInformation(mesh[a]) EXCEPT !.info.data[k] = p])
    BY <1>2 DEF SetTriangleProperties
  <2> DEFINE c == createInformation(mesh[a])
  <2>2. PICK k \in 1..mesh[a].faces, p \in Properties \cup {None} :
          Change(a, [c EXCEPT !.info.data[k] = p])
    BY <2>1
  <2>3. /\ c \in Fitting /\ c.faces = mesh[a].faces /\ c.info.data \in Seq(FaceValues)
        /\ Len(c.info.data) = c.faces
    BY <1>0, Created, FittingFields, Zenon
  <2> HIDE DEF c
  <2> DEFINE x == [c.info.data EXCEPT ![k] = p]
  <2>4. p \in FaceValues /\ k \in 1..Len(c.info.data)
    BY <2>2, <2>3 DEF FaceValues
  <2>5. x \in Seq(FaceValues) /\ Len(x) = c.faces
    BY ONLY <2>3, <2>4
  <2>6. [c EXCEPT !.info.data[k] = p] = [c EXCEPT !.info.data = x]
    OBVIOUS
  <2> HIDE DEF x
  <2>7. [c EXCEPT !.info.data = x] \in Fitting
    BY <2>3, <2>5, InfoUpdates, Zenon
  <2> QED BY <2>2, <2>6, <2>7, EditStep
<1>3. CASE SetAllTriangleProperties
  <2>1. PICK a \in MeshNames : \E ps \in [1..mesh[a].faces -> Properties \cup {None}] :
          LET m == [createInformation(mesh[a]) EXCEPT !.info.data = ps]
          IN  Change(a, IF m.faces > 0 /\ m.info.default = Null
                        THEN [m EXCEPT !.info.default = ps[1]] ELSE m)
    BY <1>3 DEF SetAllTriangleProperties
  <2> DEFINE c == createInformation(mesh[a])
  <2>2. PICK ps \in [1..mesh[a].faces -> Properties \cup {None}] :
          LET m == [c EXCEPT !.info.data = ps]
          IN  Change(a, IF m.faces > 0 /\ m.info.default = Null
                        THEN [m EXCEPT !.info.default = ps[1]] ELSE m)
    BY <2>1
  <2>3. c \in Fitting /\ c.faces = mesh[a].faces /\ c.faces \in Nat
    BY <1>0, Created, FittingFields, Zenon
  <2> HIDE DEF c
  <2>4. ps \in Seq(FaceValues) /\ Len(ps) = c.faces
    BY <2>2, <2>3 DEF FaceValues
  <2> DEFINE m == [c EXCEPT !.info.data = ps]
             n == IF m.faces > 0 /\ m.info.default = Null THEN [m EXCEPT !.info.default = ps[1]] ELSE m
  <2>5. m \in Fitting /\ m.faces = c.faces
    BY <2>3, <2>4, InfoUpdates, Zenon
  <2>6. Change(a, n)
    BY <2>2, Zenon
  <2> HIDE DEF m
  <2>7. CASE m.faces > 0
    <3>1. ps[1] \in DefaultValues
      BY <2>3, <2>4, <2>5, <2>7 DEF DefaultValues
    <3>2. [m EXCEPT !.info.default = ps[1]] \in Fitting
      BY <2>5, <3>1, InfoUpdates, Zenon
    <3>3. n \in Fitting
      BY <2>5, <3>2, Zenon
    <3> HIDE DEF n
    <3> QED BY <2>6, <3>3, EditStep
  <2>8. CASE ~(m.faces > 0)
    <3>1. n = m
      BY <2>8, Zenon
    <3> HIDE DEF n
    <3> QED BY <2>5, <2>6, <3>1, EditStep
  <2> QED BY <2>7, <2>8
<1>4. CASE SetObjectLevelProperty
  <2>1. PICK a \in MeshNames, p \in Properties :
          Change(a, [createInformation(mesh[a]) EXCEPT !.info.default = p])
    BY <1>4 DEF SetObjectLevelProperty
  <2>2. createInformation(mesh[a]) \in Fitting /\ p \in DefaultValues
    BY <1>0, Created DEF DefaultValues, FaceValues
  <2>3. [createInformation(mesh[a]) EXCEPT !.info.default = p] \in Fitting
    BY <2>2, InfoUpdates, Zenon
  <2> QED BY <2>1, <2>3, EditStep
<1>5. CASE GetProperties
  <2>1. PICK a \in MeshNames : Change(a, createInformation(mesh[a]))
    BY <1>5 DEF GetProperties
  <2>2. createInformation(mesh[a]) \in Fitting
    BY <1>0, Created
  <2> QED BY <2>1, <2>2, EditStep
<1>6. CASE ClearAllProperties
  <2>1. PICK a \in MeshNames : Change(a, [mesh[a] EXCEPT !.info = NoInformation])
    BY <1>6 DEF ClearAllProperties
  <2>2. NoInformation \in InfoType /\ ~NoInformation.has
    BY DEF NoInformation, InfoType, DefaultValues
  <2>3. [mesh[a] EXCEPT !.info = NoInformation] \in Fitting
    BY <1>0, <2>2, WithInfo
  <2> QED BY <2>1, <2>3, EditStep
<1>7. CASE SetGeometry
  <2>1. PICK a \in MeshNames, n \in 0..MaxFaces, nodes \in BOOLEAN :
          Change(a, [EmptyMesh EXCEPT !.nodes = nodes, !.faces = n])
    BY <1>7 DEF SetGeometry
  <2>2. NoInformation \in InfoType /\ ~NoInformation.has
    BY DEF NoInformation, InfoType, DefaultValues
  <2> DEFINE q == [EmptyMesh EXCEPT !.nodes = nodes, !.faces = n]
  <2>3. q \in MeshType /\ q.info = NoInformation
    <3>1. EmptyMesh \in MeshType /\ EmptyMesh.info = NoInformation
      BY <2>2 DEF EmptyMesh, MeshType
    <3>2. n \in Nat
      OBVIOUS
    <3> QED BY <3>1, <3>2, Refaced, Zenon DEF MeshType
  <2> HIDE DEF q
  <2>4. q \in Fitting
    BY <2>2, <2>3 DEF Fitting
  <2> QED BY <2>1, <2>4, EditStep DEF q
<1>8. CASE Merge
  BY <1>8, MergeStep
<1>9. CASE UNCHANGED meshVars
  BY <1>9 DEF meshVars, MeshInv, MergedMeshIsTheSources, OwnData, WithFaces, WithDefault, Invalid
<1>10. CASE AddVertexTo
  BY <1>0, <1>10, NodeAdded, EditStep DEF AddVertexTo
<1>11. CASE MergeThrows
  <2>1. mesh' \in [MeshNames -> Fitting] /\ merged' = EmptyMesh /\ sources' = <<>>
    BY <1>11 DEF MergeThrows, MeshInv
  <2>2. (mesh \in [MeshNames -> Fitting] /\ merged = EmptyMesh /\ sources = <<>> => MeshInv)'
    BY NothingMerged, PTL
  <2> QED BY <2>1, <2>2
<1> QED BY <1>1, <1>2, <1>3, <1>4, <1>5, <1>6, <1>7, <1>8, <1>9, <1>10, <1>11 DEF MeshesNext

(* MeshesCorrect: a mesh with information has a record for every face, and *)
(* a merged mesh has the faces of the meshes merged, each with its         *)
(* property, for any number of meshes, faces and merges.                   *)
THEOREM MeshesCorrect == MeshesSpec => []MergedMeshIsTheSources
<1>1. MeshesInit => MeshInv
  <2> SUFFICES ASSUME MeshesInit PROVE MeshInv
    OBVIOUS
  <2>1. /\ mesh = [a \in MeshNames |-> EmptyMesh] /\ merged = EmptyMesh /\ sources = <<>>
    BY DEF MeshesInit
  <2>2. EmptyMesh \in Fitting
    BY DEF EmptyMesh, NoInformation, Fitting, MeshType, InfoType, DefaultValues
  <2> QED BY <2>1, <2>2, NothingMerged
<1>2. MeshInv => MergedMeshIsTheSources
  BY DEF MeshInv
<1> QED BY <1>1, <1>2, MeshesStep, PTL DEF MeshesSpec

-----------------------------------------------------------------------------
(* The hierarchy of objects and the order in which they are written. *)

(* What objects refer to are objects; a mesh names itself or an earlier    *)
(* one.                                                                    *)
ObjectOrderInv ==
  /\ kind \in Seq({"mesh", "components"}) /\ Len(kind) <= MaxObjects
  /\ m_Components \in Seq(Seq(Nat)) /\ Len(m_Components) = Len(kind)
  /\ m_nRepresentationID \in Seq(Nat) /\ Len(m_nRepresentationID) = Len(kind)
  /\ \A o \in Objects :
       Range(m_Components[o]) \subseteq Objects /\ m_nRepresentationID[o] \in 0..o

(* ObjectAdded: so it is with one object more.                             *)
LEMMA ObjectAdded ==
  ASSUME ObjectOrderInv, Len(kind) < MaxObjects,
         NEW k \in {"mesh", "components"}, NEW c, c \in Seq(Nat), Range(c) \subseteq Objects,
         kind' = Append(kind, k), m_Components' = Append(m_Components, c),
         m_nRepresentationID' = Append(m_nRepresentationID, 0)
  PROVE  ObjectOrderInv'
<1> DEFINE n == Len(kind)
<1>1. n \in Nat /\ MaxObjects \in Nat /\ Objects = 1..n
  BY ObjectOrderAssumption DEF ObjectOrderInv, Objects
<1>2. /\ kind' \in Seq({"mesh", "components"}) /\ Len(kind') = n + 1
      /\ m_Components' \in Seq(Seq(Nat)) /\ Len(m_Components') = n + 1
      /\ m_nRepresentationID' \in Seq(Nat) /\ Len(m_nRepresentationID') = n + 1
      /\ \A o \in 1..n : m_Components'[o] = m_Components[o]
                         /\ m_nRepresentationID'[o] = m_nRepresentationID[o]
      /\ m_Components'[n + 1] = c /\ m_nRepresentationID'[n + 1] = 0
  BY DEF ObjectOrderInv
<1>3. Objects' = 1..(n + 1)
  BY <1>2 DEF Objects
<1> HIDE DEF n
<1>4. ASSUME NEW o \in 1..(n + 1)
      PROVE  Range(m_Components'[o]) \subseteq 1..(n + 1) /\ m_nRepresentationID'[o] \in 0..o
  <2>1. 1..n \subseteq 1..(n + 1)
    BY <1>1
  <2>2. CASE o = n + 1
    BY <1>1, <1>2, <2>1, <2>2
  <2>3. CASE o \in 1..n
    BY <1>1, <1>2, <2>1, <2>3 DEF ObjectOrderInv
  <2>4. o = n + 1 \/ o \in 1..n
    BY <1>1
  <2> QED BY <2>2, <2>3, <2>4
<1>5. n + 1 <= MaxObjects
  BY <1>1 DEF n
<1> QED BY <1>2, <1>3, <1>4, <1>5 DEF ObjectOrderInv

(* ObjectOrderStep: no operation makes an object refer to another thing.   *)
LEMMA ObjectOrderStep == ObjectOrderInv /\ [ObjectOrderNext]_objectOrderVars => ObjectOrderInv'
<1> SUFFICES ASSUME ObjectOrderInv, [ObjectOrderNext]_objectOrderVars PROVE ObjectOrderInv'
  OBVIOUS
<1>0. /\ Len(kind) \in Nat /\ Objects = 1..Len(kind) /\ Objects = DOMAIN m_Components
      /\ Objects = DOMAIN m_nRepresentationID
  BY DEF ObjectOrderInv, Objects
<1>1. CASE UNCHANGED objectOrderVars
  <2>1. /\ kind' = kind /\ m_Components' = m_Components
        /\ m_nRepresentationID' = m_nRepresentationID /\ Objects' = Objects
    BY <1>1 DEF objectOrderVars, Objects
  <2> QED BY <2>1 DEF ObjectOrderInv
<1>2. ASSUME NEW k \in {"mesh", "components"}, AddObject(k) PROVE ObjectOrderInv'
  <2>1. << >> \in Seq(Nat) /\ Range(<< >>) \subseteq Objects
    BY DEF Range
  <2> QED BY <1>2, <2>1, ObjectAdded DEF AddObject
<1>3. ASSUME NEW c \in BoundedSeq(Objects, MaxComponents), ReadComponentsObject(c)
      PROVE  ObjectOrderInv'
  <2>1. c \in Seq(Nat)
    <3>1. PICK m \in 0..MaxComponents : c \in [1..m -> Objects]
      BY DEF BoundedSeq, SeqOf
    <3>2. Objects \subseteq Nat /\ m \in Nat
      BY <1>0, ObjectOrderAssumption
    <3>3. c \in [1..m -> Nat]
      BY <3>1, <3>2
    <3> QED BY <3>2, <3>3
  <2> QED BY <1>3, <2>1, ObjectAdded DEF ReadComponentsObject
<1>4. ASSUME NEW o \in Objects, NEW component \in Objects, AddComponent(o, component)
      PROVE  ObjectOrderInv'
  <2>1. /\ kind' = kind /\ m_nRepresentationID' = m_nRepresentationID /\ Objects' = Objects
        /\ m_Components' = [m_Components EXCEPT ![o] = Append(m_Components[o], component)]
    BY <1>4 DEF AddComponent, Objects
  <2>2. m_Components[o] \in Seq(Nat) /\ component \in Nat /\ Range(m_Components[o]) \subseteq Objects
    BY <1>0 DEF ObjectOrderInv
  <2>3. Range(Append(m_Components[o], component)) \subseteq Objects
        /\ Append(m_Components[o], component) \in Seq(Nat)
    BY <2>2, AppendRange
  <2>4. m_Components' \in Seq(Seq(Nat)) /\ Len(m_Components') = Len(m_Components)
        /\ \A x \in Objects : m_Components'[x] =
             IF x = o THEN Append(m_Components[o], component) ELSE m_Components[x]
    BY <1>0, <2>1, <2>3 DEF ObjectOrderInv
  <2>5. \A x \in Objects : Range(m_Components'[x]) \subseteq Objects
    BY <2>3, <2>4 DEF ObjectOrderInv
  <2> QED BY <2>1, <2>4, <2>5 DEF ObjectOrderInv
<1>5. ASSUME NEW o \in Objects, NEW r \in 0..o,
             m_nRepresentationID' = [m_nRepresentationID EXCEPT ![o] = r],
             UNCHANGED <<kind, m_Components>>
      PROVE  ObjectOrderInv'
  <2>1. kind' = kind /\ m_Components' = m_Components /\ Objects' = Objects
    BY <1>5 DEF Objects
  <2>2. r \in Nat
    BY <1>0
  <2>3. /\ m_nRepresentationID' \in Seq(Nat)
        /\ Len(m_nRepresentationID') = Len(m_nRepresentationID)
        /\ \A x \in Objects : m_nRepresentationID'[x] = IF x = o THEN r ELSE m_nRepresentationID[x]
    BY <1>0, <1>5, <2>2 DEF ObjectOrderInv
  <2> QED BY <2>1, <2>3 DEF ObjectOrderInv
<1>6. ASSUME NEW o \in Objects, NEW named \in Objects, SetRepresentation(o, named)
      PROVE  ObjectOrderInv'
  <2>1. named \in 0..o
    BY <1>0, <1>6 DEF SetRepresentation, compareObjectsByResourceID
  <2> QED BY <1>5, <1>6, <2>1 DEF SetRepresentation
<1>7. ASSUME NEW o \in Objects, ClearRepresentation(o) PROVE ObjectOrderInv'
  <2>1. 0 \in 0..o
    BY <1>0
  <2> QED BY <1>5, <1>7, <2>1 DEF ClearRepresentation
<1> QED BY <1>1, <1>2, <1>3, <1>4, <1>6, <1>7 DEF ObjectOrderNext

(* The objects calculateComponentDepthLevel is called for with level n,    *)
(* from those of the level before.                                         *)
Level(visited, n) ==
  IF n = 1 THEN Objects ELSE UNION {Range(m_Components[o]) : o \in visited[n - 1]}

(* LevelsExist: the recursion of Visited has a solution.                   *)
LEMMA LevelsExist ==
  ASSUME NEW N \in Nat
  PROVE  \E f : f = [n \in 1..N |-> Level(f, n)]
<1> DEFINE Reaches(m, f) == \A n \in 1..m : f[n] = Level(f, n)
           T == {m \in Nat : ~ \E f : Reaches(m, f)}
<1>1. T = {}
  <2> SUFFICES ASSUME T # {} PROVE FALSE
    OBVIOUS
  <2>1. PICK m \in T : \A y \in T : m <= y
    <3>1. T \subseteq Nat
      OBVIOUS
    <3> QED BY <3>1, NatMin
  <2>2. m \in Nat /\ ~ \E f : Reaches(m, f)
    OBVIOUS
  <2>3. CASE m = 0
    <3>1. \A f : Reaches(0, f)
      OBVIOUS
    <3> QED BY <2>2, <2>3, <3>1
  <2>4. CASE m # 0
    <3>1. m - 1 \in Nat /\ m - 1 \notin T
      BY <2>1, <2>2, <2>4
    <3>2. PICK f : Reaches(m - 1, f)
      BY <3>1
    <3> HIDE DEF T
    <3> DEFINE g == [n \in 1..m |-> IF n = m THEN Level(f, m) ELSE f[n]]
    <3>3. \A n \in 1..m : g[n] = IF n = m THEN Level(f, m) ELSE f[n]
      OBVIOUS
    <3> HIDE DEF g
    <3>4. ASSUME NEW n \in 1..m PROVE g[n] = Level(g, n)
      <4>1. n # 1 => n - 1 \in 1..m /\ g[n - 1] = f[n - 1]
        BY <2>2, <3>3
      <4>2. Level(g, n) = Level(f, n)
        BY <4>1 DEF Level
      <4>3. n # m => n \in 1..(m - 1)
        BY <2>2
      <4> QED BY <3>2, <3>3, <4>2, <4>3
    <3>5. Reaches(m, g)
      BY <3>4
    <3> HIDE DEF Reaches
    <3> QED BY <2>2, <3>5
  <2> QED BY <2>3, <2>4
<1>2. PICK f : Reaches(N, f)
  BY <1>1
<1> HIDE DEF T
<1> DEFINE g == [n \in 1..N |-> f[n]]
<1>3. \A n \in 1..N : g[n] = f[n]
  OBVIOUS
<1>4. g = [n \in 1..N |-> g[n]]
  OBVIOUS
<1> HIDE DEF g
<1>5. \A n \in 1..N : g[n] = Level(g, n)
  <2> SUFFICES ASSUME NEW n \in 1..N PROVE g[n] = Level(g, n)
    OBVIOUS
  <2>1. n # 1 => n - 1 \in 1..N /\ g[n - 1] = f[n - 1]
    BY <1>3
  <2>2. Level(g, n) = Level(f, n)
    BY <2>1 DEF Level
  <2> QED BY <1>2, <1>3, <2>2
<1>6. g = [n \in 1..N |-> Level(g, n)]
  <2> HIDE DEF Reaches
  <2>1. [n \in 1..N |-> g[n]] = [n \in 1..N |-> Level(g, n)]
    BY <1>5, Zenon
  <2> QED BY <1>4, <2>1, Zenon
<1> QED BY <1>6

(* Levels: the objects of each level.                                      *)
LEMMA Levels ==
  /\ Visited[1] = Objects
  /\ \A n \in 1..MaxObjects :
       Visited[n + 1] = UNION {Range(m_Components[o]) : o \in Visited[n]}
<1>1. MaxObjects \in Nat /\ MaxObjects >= 1 /\ MaxObjects + 1 \in Nat
  BY ObjectOrderAssumption
<1>2. \E f : f = [n \in 1..(MaxObjects + 1) |-> Level(f, n)]
  BY <1>1, LevelsExist
<1>3. Visited = [n \in 1..(MaxObjects + 1) |-> Level(Visited, n)]
  BY <1>2, Zenon DEF Visited, Level
<1> HIDE DEF Visited
<1>4. \A n \in 1..(MaxObjects + 1) : Visited[n] = Level(Visited, n)
  BY <1>3, Zenon
<1>5. Visited[1] = Objects
  <2>1. 1 \in 1..(MaxObjects + 1)
    BY <1>1
  <2> QED BY <1>4, <2>1 DEF Level
<1>6. ASSUME NEW n \in 1..MaxObjects
      PROVE  Visited[n + 1] = UNION {Range(m_Components[o]) : o \in Visited[n]}
  <2>1. n + 1 \in 1..(MaxObjects + 1) /\ n + 1 # 1 /\ (n + 1) - 1 = n
    BY <1>1
  <2> QED BY <1>4, <2>1 DEF Level
<1> QED BY <1>5, <1>6

(* DeepestLevel: an object has a largest level.                            *)
LEMMA DeepestLevel ==
  ASSUME NEW N \in Nat, NEW S, S \subseteq 1..N, S # {}
  PROVE  Max(S) \in S /\ \A n \in S : Max(S) >= n
<1> DEFINE T == {N - n : n \in S}
<1>1. T \subseteq Nat /\ T # {}
  <2>1. \A n \in S : N - n \in Nat
    OBVIOUS
  <2> QED BY <2>1
<1>2. PICK x \in T : \A y \in T : x <= y
  BY <1>1, NatMin
<1>3. PICK m \in S : x = N - m
  OBVIOUS
<1>4. \A n \in S : m >= n
  <2> SUFFICES ASSUME NEW n \in S PROVE m >= n
    OBVIOUS
  <2>1. N - m <= N - n
    BY <1>2, <1>3
  <2> QED BY <2>1
<1> HIDE DEF T
<1>5. \E k \in S : \A n \in S : k >= n
  BY <1>4
<1> QED BY <1>5, Zenon DEF Max

(* DepthLevels: ComponentDepthLevel of an object is the last level it is   *)
(* visited on, and only the first Len(kind) levels visit any.              *)
LEMMA DepthLevels ==
  ASSUME ObjectOrderInv
  PROVE  /\ \A o \in Objects : /\ ComponentDepthLevel(o) \in 1..MaxObjects
                               /\ o \in Visited[ComponentDepthLevel(o)]
                               /\ \A n \in 1..MaxObjects :
                                    o \in Visited[n] => n <= ComponentDepthLevel(o)
         /\ Acyclic => \A n \in (Len(kind) + 1)..(MaxObjects + 1) : Visited[n] = {}
<1>0. /\ Len(kind) \in Nat /\ Len(kind) <= MaxObjects /\ MaxObjects \in Nat /\ 1 \in 1..MaxObjects
      /\ Objects = 1..Len(kind)
  BY ObjectOrderAssumption DEF ObjectOrderInv, Objects
<1>1. ASSUME NEW o \in Objects
      PROVE  /\ ComponentDepthLevel(o) \in 1..MaxObjects
             /\ o \in Visited[ComponentDepthLevel(o)]
             /\ \A n \in 1..MaxObjects : o \in Visited[n] => n <= ComponentDepthLevel(o)
  <2> DEFINE S == {n \in 1..MaxObjects : o \in Visited[n]}
  <2>1. 1 \in S
    BY <1>0, Levels
  <2>2. Max(S) \in S /\ \A n \in S : Max(S) >= n
    <3>1. S \subseteq 1..MaxObjects /\ S # {}
      BY <2>1
    <3> HIDE DEF S
    <3> QED BY <1>0, <3>1, DeepestLevel
  <2>3. ComponentDepthLevel(o) = Max(S)
    BY DEF ComponentDepthLevel
  <2> DEFINE d == Max(S)
  <2>4. d \in 1..MaxObjects /\ o \in Visited[d]
    BY <2>2
  <2>5. \A n \in 1..MaxObjects : o \in Visited[n] => n <= d
    <3> SUFFICES ASSUME NEW n \in 1..MaxObjects, o \in Visited[n] PROVE n <= d
      OBVIOUS
    <3>1. n \in S
      OBVIOUS
    <3>2. d >= n
      BY <2>2, <3>1
    <3> HIDE DEF d
    <3> QED BY <2>4, <3>2
  <2> HIDE DEF S, d
  <2> QED BY <2>3, <2>4, <2>5 DEF d
<1>2. ASSUME Acyclic PROVE \A n \in (Len(kind) + 1)..(MaxObjects + 1) : Visited[n] = {}
  <2> DEFINE T == {n \in (Len(kind) + 1)..(MaxObjects + 1) : Visited[n] # {}}
  <2> SUFFICES ASSUME T # {} PROVE FALSE
    OBVIOUS
  <2>1. PICK n \in T : \A m \in T : n <= m
    <3>1. T \subseteq Nat
      BY <1>0
    <3> QED BY <3>1, NatMin
  <2>2. n \in (Len(kind) + 1)..(MaxObjects + 1) /\ Visited[n] # {}
    OBVIOUS
  <2>3. n # Len(kind) + 1
    BY <1>2, <2>2 DEF Acyclic
  <2> DEFINE k == n - 1
  <2>4. k \in (Len(kind) + 1)..(MaxObjects + 1) /\ k \in 1..MaxObjects /\ k + 1 = n /\ ~(n <= k)
    BY <1>0, <2>2, <2>3
  <2> HIDE DEF k
  <2>5. Visited[k] = {}
    BY <2>1, <2>4
  <2>6. Visited[n] = UNION {Range(m_Components[o]) : o \in Visited[k]}
    BY <2>4, Levels
  <2> QED BY <2>2, <2>5, <2>6
<1> QED BY <1>1, <1>2

(* ComponentsAreDeeper: where the recursion ends, the object of a          *)
(* component is deeper than the object that uses it.                       *)
LEMMA ComponentsAreDeeper ==
  ASSUME ObjectOrderInv, Acyclic, NEW o \in Objects, NEW used \in Range(m_Components[o])
  PROVE  used \in Objects /\ ComponentDepthLevel(used) > ComponentDepthLevel(o)
<1> DEFINE d == ComponentDepthLevel(o)
<1>1. d \in 1..MaxObjects /\ o \in Visited[d] /\ used \in Objects
  BY DepthLevels DEF ObjectOrderInv
<1>2. Len(kind) \in Nat /\ Len(kind) <= MaxObjects /\ MaxObjects \in Nat
  BY ObjectOrderAssumption DEF ObjectOrderInv
<1> HIDE DEF d
<1>3. used \in Visited[d + 1]
  BY <1>1, Levels
<1>4. d + 1 \in 1..MaxObjects
  <2>1. d + 1 \notin (Len(kind) + 1)..(MaxObjects + 1)
    BY <1>3, DepthLevels
  <2> QED BY <1>1, <1>2, <2>1
<1>5. d + 1 <= ComponentDepthLevel(used) /\ ComponentDepthLevel(used) \in 1..MaxObjects
  BY <1>1, <1>3, <1>4, DepthLevels
<1> QED BY <1>1, <1>2, <1>5 DEF d

(* SortedObjects: WrittenBefore orders the objects, and the list of them   *)
(* follows it.                                                             *)
LEMMA SortedObjects ==
  ASSUME ObjectOrderInv
  PROVE  /\ getSortedObjectList \in [Objects -> Objects]
         /\ Range(getSortedObjectList) = Objects
         /\ \A a, b \in Objects : WrittenBefore(a, b) =>
              \E i, j \in Objects : i < j /\ getSortedObjectList[i] = a /\ getSortedObjectList[j] = b
<1> DEFINE n == Len(kind)
           R == {p \in Objects \X Objects : WrittenBefore(p[1], p[2])}
           P(o) == Predecessors(R, Objects, o)
<1>1. /\ n \in Nat /\ Objects = 1..n
      /\ IsFiniteSet(Objects) /\ Cardinality(Objects) = n
  <2>1. n \in Nat /\ Objects = 1..n
    BY DEF ObjectOrderInv, Objects
  <2> HIDE DEF n
  <2> QED BY <2>1, FS_Interval
<1>2. \A a, b \in Objects : <<a, b>> \in R <=> WrittenBefore(a, b)
  OBVIOUS
<1>3. Orders(R, Objects)
  <2>1. \A o \in 1..n : ComponentDepthLevel(o) \in Nat
    BY <1>1, DepthLevels
  <2> HIDE DEF R, n
  <2>2. \A a, b \in 1..n : <<a, b>> \in R <=>
          \/ ComponentDepthLevel(a) > ComponentDepthLevel(b)
          \/ ComponentDepthLevel(a) = ComponentDepthLevel(b) /\ a < b
    BY <1>1, <1>2 DEF WrittenBefore
  <2>3. \A a, b \in 1..n : a = b \/ <<a, b>> \in R \/ <<b, a>> \in R
    <3> SUFFICES ASSUME NEW a \in 1..n, NEW b \in 1..n, a # b
                 PROVE  <<a, b>> \in R \/ <<b, a>> \in R
      OBVIOUS
    <3> DEFINE x == ComponentDepthLevel(a)
               y == ComponentDepthLevel(b)
    <3>1. x \in Nat /\ y \in Nat /\ a \in Nat /\ b \in Nat
      BY <1>1, <2>1
    <3> HIDE DEF x, y
    <3>2. (x > y \/ (x = y /\ a < b)) \/ (y > x \/ (y = x /\ b < a))
      BY <3>1
    <3> QED BY <2>2, <3>2 DEF x, y
  <2>4. \A a \in 1..n : <<a, a>> \notin R
    BY <1>1, <2>1, <2>2
  <2>5. \A a, b, c \in 1..n : <<a, b>> \in R /\ <<b, c>> \in R => <<a, c>> \in R
    <3> SUFFICES ASSUME NEW a \in 1..n, NEW b \in 1..n, NEW c \in 1..n, <<a, b>> \in R, <<b, c>> \in R
                 PROVE  <<a, c>> \in R
      OBVIOUS
    <3> DEFINE x == ComponentDepthLevel(a)
               y == ComponentDepthLevel(b)
               z == ComponentDepthLevel(c)
    <3>1. x \in Nat /\ y \in Nat /\ z \in Nat /\ a \in Nat /\ b \in Nat /\ c \in Nat
      BY <1>1, <2>1
    <3>2. (x > y \/ (x = y /\ a < b)) /\ (y > z \/ (y = z /\ b < c))
      BY <2>2
    <3> HIDE DEF x, y, z
    <3>3. x > z \/ (x = z /\ a < c)
      BY <3>1, <3>2
    <3> QED BY <2>2, <3>3 DEF x, z
  <2> QED BY <1>1, <2>3, <2>4, <2>5 DEF Orders
<1>4. ASSUME NEW o \in Objects PROVE {b \in Objects : WrittenBefore(b, o)} = P(o)
  BY <1>1, <1>2 DEF Predecessors
<1> HIDE DEF R, n
<1> DEFINE C(o) == Cardinality(P(o))
<1>5. /\ \A o \in Objects : C(o) \in 0..(n - 1)
      /\ \A a, b \in Objects : <<a, b>> \in R => C(a) < C(b)
      /\ \A a, b \in Objects : C(a) = C(b) => a = b
      /\ \A i \in Objects : \E o \in Objects : C(o) = i - 1
  <2>1. \A o \in Objects : C(o) \in Nat /\ C(o) + 1 \in 1..n
    BY <1>1, <1>3, EveryPlaceIsTaken
  <2>2. \A o \in Objects : C(o) \in 0..(n - 1)
    <3> HIDE DEF C
    <3> QED BY <1>1, <2>1
  <2>3. \A a, b \in Objects : <<a, b>> \in R => C(a) < C(b)
    BY <1>1, <1>3, EveryPlaceIsTaken
  <2>4. ASSUME NEW a \in Objects, NEW b \in Objects, C(a) = C(b) PROVE a = b
    <3>1. \A x, y \in Objects :
            Cardinality(Predecessors(R, Objects, x)) = Cardinality(Predecessors(R, Objects, y)) => x = y
      <4>1. IsFiniteSet(Objects)
        BY <1>1
      <4> QED BY <1>3, <4>1, EveryPlaceIsTaken, SMTT(30)
    <3> QED BY <2>4, <3>1, Zenon
  <2>5. \A i \in 1..Cardinality(Objects) : \E o \in Objects : C(o) = i - 1
    BY <1>1, <1>3, EveryPlaceIsTaken
  <2> HIDE DEF C
  <2> QED BY <1>1, <2>2, <2>3, <2>4, <2>5
<1> DEFINE Place(i) == CHOOSE o \in Objects : Cardinality({b \in Objects : WrittenBefore(b, o)}) = i - 1
<1>6. ASSUME NEW i \in Objects PROVE Place(i) \in Objects /\ C(Place(i)) = i - 1
  <2>1. PICK o \in Objects : C(o) = i - 1
    BY <1>5
  <2>2. Cardinality({b \in Objects : WrittenBefore(b, o)}) = i - 1
    BY <1>4, <2>1
  <2>3. Place(i) \in Objects /\ Cardinality({b \in Objects : WrittenBefore(b, Place(i))}) = i - 1
    BY <2>2
  <2> HIDE DEF Place, P
  <2> QED BY <1>4, <2>3
<1>7. getSortedObjectList = [i \in Objects |-> Place(i)]
  BY DEF getSortedObjectList
<1> HIDE DEF Place
<1>8. \A i \in Objects : getSortedObjectList[i] \in Objects /\ C(getSortedObjectList[i]) = i - 1
  BY <1>6, <1>7
<1> HIDE DEF C, P
<1>9. ASSUME NEW o \in Objects
      PROVE  C(o) + 1 \in Objects /\ getSortedObjectList[C(o) + 1] = o
  <2> DEFINE i == C(o) + 1
  <2>1. i \in Objects /\ i - 1 = C(o)
    BY <1>1, <1>5
  <2> DEFINE x == getSortedObjectList[i]
  <2> HIDE DEF i
  <2>2. x \in Objects /\ C(x) = C(o)
    BY <1>8, <2>1
  <2> HIDE DEF x
  <2>3. x = o
    BY <1>5, <2>2
  <2> QED BY <2>1, <2>3 DEF i, x
<1>10. getSortedObjectList \in [Objects -> Objects]
  BY <1>6, <1>7
<1>11. Range(getSortedObjectList) = Objects
  BY <1>9, <1>10 DEF Range
<1>12. ASSUME NEW a \in Objects, NEW b \in Objects, WrittenBefore(a, b)
       PROVE  \E i, j \in Objects : i < j /\ getSortedObjectList[i] = a /\ getSortedObjectList[j] = b
  <2>1. C(a) < C(b) /\ C(a) \in 0..(n - 1) /\ C(b) \in 0..(n - 1)
    BY <1>2, <1>5, <1>12
  <2>2. C(a) + 1 < C(b) + 1
    BY <1>1, <2>1
  <2> QED BY <1>9, <2>2
<1> QED BY <1>10, <1>11, <1>12

(* ObjectsInOrder: the order has every object once and what it uses before *)
(* it.                                                                     *)
LEMMA ObjectsInOrder == ObjectOrderInv => ComponentsAreWrittenFirst
<1> SUFFICES ASSUME ObjectOrderInv, Acyclic PROVE ComponentsAreWrittenFirst
  BY DEF ComponentsAreWrittenFirst
<1> DEFINE list == getSortedObjectList
           before(a, b) == \E i, j \in DOMAIN list : i < j /\ list[i] = a /\ list[j] = b
<1>1. Len(kind) \in Nat /\ Objects = 1..Len(kind)
  BY DEF ObjectOrderInv, Objects
<1>2. /\ list \in [Objects -> Objects] /\ Range(list) = Objects
      /\ \A a, b \in Objects : WrittenBefore(a, b) => before(a, b)
  <2>1. list \in [Objects -> Objects] /\ Range(list) = Objects
        /\ \A a, b \in Objects : WrittenBefore(a, b) =>
             \E i, j \in Objects : i < j /\ list[i] = a /\ list[j] = b
    BY SortedObjects
  <2>2. DOMAIN list = Objects
    BY <2>1
  <2> HIDE DEF list
  <2> QED BY <2>1, <2>2
<1>3. Len(list) = Len(kind)
  <2> HIDE DEF list
  <2>1. list = [i \in 1..Len(kind) |-> list[i]]
    BY <1>1, <1>2
  <2> QED BY <1>1, <2>1, FunctionIsList
<1> HIDE DEF list
<1>4. ASSUME NEW o \in Objects, NEW used \in Range(m_Components[o]) PROVE before(used, o)
  <2>1. used \in Objects /\ ComponentDepthLevel(used) > ComponentDepthLevel(o)
    BY ComponentsAreDeeper
  <2> QED BY <1>2, <2>1 DEF WrittenBefore
<1>5. ASSUME NEW o \in Objects, NEW r, r = m_nRepresentationID[o]
      PROVE  r \in {0, o} \/ before(r, o) \/ ComponentDepthLevel(o) > ComponentDepthLevel(r)
  <2> SUFFICES ASSUME r \notin {0, o}, ~(ComponentDepthLevel(o) > ComponentDepthLevel(r))
               PROVE  before(r, o)
    OBVIOUS
  <2>1. r \in 0..o
    BY <1>5 DEF ObjectOrderInv
  <2>2. r \in Objects /\ r < o
    BY <1>1, <2>1
  <2>3. ComponentDepthLevel(o) \in Nat /\ ComponentDepthLevel(r) \in Nat
    BY <2>2, DepthLevels
  <2>4. WrittenBefore(r, o)
    <3> DEFINE x == ComponentDepthLevel(o)
               y == ComponentDepthLevel(r)
    <3>1. x \in Nat /\ y \in Nat /\ ~(x > y)
      BY <2>3
    <3> HIDE DEF x, y
    <3>2. y > x \/ y = x
      BY <3>1
    <3> QED BY <2>2, <3>2 DEF WrittenBefore, x, y
  <2> QED BY <1>2, <2>2, <2>4
<1> HIDE DEF before
<1> QED BY <1>2, <1>3, <1>4, <1>5, Zenon DEF ComponentsAreWrittenFirst, list, before

(* ObjectOrderCorrect: in every behaviour of the objects, and for any      *)
(* number of objects and components, the writer's order has every object   *)
(* once and what it uses before it.                                        *)
THEOREM ObjectOrderCorrect == ObjectOrderSpec => []ComponentsAreWrittenFirst
<1>1. ObjectOrderInit => ObjectOrderInv
  BY ObjectOrderAssumption DEF ObjectOrderInit, ObjectOrderInv, Objects
<1>2. ObjectOrderInv /\ [ObjectOrderNext]_objectOrderVars => ObjectOrderInv'
  BY ObjectOrderStep
<1>3. ObjectOrderInv => ComponentsAreWrittenFirst
  BY ObjectsInOrder
<1> QED BY <1>1, <1>2, <1>3, PTL DEF ObjectOrderSpec

-----------------------------------------------------------------------------
(* Beam lattices, manifolds and STL files. *)

(* LatticeIsSane is not inductive as it stands: it says nothing about the  *)
(* beam sets of a mesh without beams, which get beams later.  GeometryInv  *)
(* adds that a reference is a zero or names a beam, whether or not there   *)
(* are beams.                                                              *)

Geometries ==
  [nodes : Nat, faces : Seq(Triangles), beams : Seq(BeamEnds), sets : Seq(Seq(Nat))]

GeometryType == geometry \in Geometries

BeamsAreValid == \A k \in DOMAIN geometry.beams : isBeamValid(geometry, geometry.beams[k])

TypeMayHaveBeams == geometry.beams # <<>> => isValidForBeamLattices(objectType)

ReferencesNameBeams ==
  \A s \in DOMAIN geometry.sets : \A k \in DOMAIN geometry.sets[s] :
    geometry.sets[s][k] = 0 \/ geometry.sets[s][k] < Len(geometry.beams)

GeometryInv == GeometryType /\ BeamsAreValid /\ TypeMayHaveBeams /\ ReferencesNameBeams

-----------------------------------------------------------------------------
(* FieldUpdates: a record with one field replaced, for any fields.         *)
LEMMA FieldUpdates ==
  ASSUME NEW N, NEW F, NEW B, NEW S, NEW g \in [nodes : N, faces : F, beams : B, sets : S]
  PROVE  /\ g.nodes \in N /\ g.faces \in F /\ g.beams \in B /\ g.sets \in S
         /\ \A n \in N : LET h == [g EXCEPT !.nodes = n] IN
              /\ h \in [nodes : N, faces : F, beams : B, sets : S]
              /\ h.nodes = n /\ h.beams = g.beams /\ h.sets = g.sets
         /\ \A f \in F : LET h == [g EXCEPT !.faces = f] IN
              /\ h \in [nodes : N, faces : F, beams : B, sets : S]
              /\ h.nodes = g.nodes /\ h.beams = g.beams /\ h.sets = g.sets
         /\ \A b \in B : LET h == [g EXCEPT !.beams = b] IN
              /\ h \in [nodes : N, faces : F, beams : B, sets : S]
              /\ h.nodes = g.nodes /\ h.beams = b /\ h.sets = g.sets
         /\ \A s \in S : LET h == [g EXCEPT !.sets = s] IN
              /\ h \in [nodes : N, faces : F, beams : B, sets : S]
              /\ h.nodes = g.nodes /\ h.beams = g.beams /\ h.sets = s
OBVIOUS

(* Updates: the geometry with one field replaced, as the API replaces it.  *)
LEMMA Updates ==
  ASSUME NEW g \in Geometries
  PROVE  /\ g.nodes \in Nat /\ g.faces \in Seq(Triangles)
         /\ g.beams \in Seq(BeamEnds) /\ g.sets \in Seq(Seq(Nat))
         /\ \A n \in Nat : LET h == [g EXCEPT !.nodes = n] IN
              /\ h \in Geometries
              /\ h.nodes = n /\ h.beams = g.beams /\ h.sets = g.sets
         /\ \A f \in Seq(Triangles) : LET h == [g EXCEPT !.faces = f] IN
              /\ h \in Geometries
              /\ h.nodes = g.nodes /\ h.beams = g.beams /\ h.sets = g.sets
         /\ \A b \in Seq(BeamEnds) : LET h == [g EXCEPT !.beams = b] IN
              /\ h \in Geometries
              /\ h.nodes = g.nodes /\ h.beams = b /\ h.sets = g.sets
         /\ \A s \in Seq(Seq(Nat)) : LET h == [g EXCEPT !.sets = s] IN
              /\ h \in Geometries
              /\ h.nodes = g.nodes /\ h.beams = g.beams /\ h.sets = s
BY FieldUpdates, Zenon DEF Geometries

(* InRangeGrows: a beam within a mesh is within a mesh of more nodes, as   *)
(* addNode only appends.                                                   *)
LEMMA InRangeGrows ==
  ASSUME NEW p \in BeamEnds, NEW g, NEW h, g.nodes \in Nat, h.nodes \in Nat,
         g.nodes <= h.nodes, isBeamValid(g, p)
  PROVE  isBeamValid(h, p)
BY GeometryAssumption DEF isBeamValid, InRange

(* SameNodes: whether a beam is valid depends on the number of nodes only. *)
LEMMA SameNodes ==
  ASSUME NEW p, NEW g, NEW h, g.nodes = h.nodes
  PROVE  isBeamValid(g, p) <=> isBeamValid(h, p)
BY DEF isBeamValid, InRange

(* Prefix: the elements an interrupted call has added are a list of the    *)
(* same type with the same first elements.                                 *)
LEMMA Prefix ==
  ASSUME NEW S, NEW s \in Seq(S), NEW k \in 0..Len(s)
  PROVE  /\ SubSeq(s, 1, k) \in Seq(S)
         /\ Len(SubSeq(s, 1, k)) = k
         /\ \A i \in 1..k : SubSeq(s, 1, k)[i] = s[i]
OBVIOUS

(* EditKeeps: the invariant depends on the new geometry and type only, and *)
(* every call but the export sets them by Edit.                            *)
LEMMA EditKeeps ==
  ASSUME NEW g \in Geometries,
         NEW t, Edit(g, t),
         \A k \in DOMAIN g.beams : isBeamValid(g, g.beams[k]),
         g.beams # <<>> => isValidForBeamLattices(t),
         \A s \in DOMAIN g.sets : \A k \in DOMAIN g.sets[s] :
            g.sets[s][k] = 0 \/ g.sets[s][k] < Len(g.beams)
  PROVE  GeometryInv'
BY DEF Edit, GeometryInv, GeometryType, BeamsAreValid, TypeMayHaveBeams, ReferencesNameBeams,
       isBeamValid, InRange, AllDistinct, isValidForBeamLattices, Geometries

-----------------------------------------------------------------------------
(* GeometryStart: a new mesh object has neither beams nor beam sets.       *)
LEMMA GeometryStart == GeometryInit => GeometryInv
BY DEF GeometryInit, Geometries, NoGeometry, GeometryInv, GeometryType, BeamsAreValid, TypeMayHaveBeams,
       ReferencesNameBeams

(* GeometryStep: every call of the API of a mesh object keeps it.          *)
LEMMA GeometryStep == GeometryInv /\ [GeometryNext]_geometryVars => GeometryInv'
<1> SUFFICES ASSUME GeometryInv, [GeometryNext]_geometryVars PROVE GeometryInv'
  OBVIOUS
<1> USE DEF GeometryInv
<1>t. /\ geometry \in Geometries /\ geometry.nodes \in Nat
      /\ geometry.faces \in Seq(Triangles) /\ geometry.beams \in Seq(BeamEnds)
      /\ geometry.sets \in Seq(Seq(Nat)) /\ Len(geometry.beams) \in Nat
  BY Updates DEF GeometryType
<1>1. CASE AddVertex
  <2> DEFINE g == [geometry EXCEPT !.nodes = @ + 1]
  <2>1. Edit(g, objectType)
    BY <1>1 DEF AddVertex
  <2>2. /\ g \in Geometries
        /\ g.nodes = geometry.nodes + 1 /\ g.beams = geometry.beams /\ g.sets = geometry.sets
    <3>1. geometry.nodes + 1 \in Nat
      BY <1>t
    <3> QED BY <1>t, <3>1, Updates
  <2>3. \A k \in DOMAIN g.beams : isBeamValid(g, g.beams[k])
    <3> TAKE k \in DOMAIN g.beams
    <3>1. g.beams[k] \in BeamEnds /\ isBeamValid(geometry, g.beams[k])
      BY <1>t, <2>2 DEF BeamsAreValid
    <3>2. geometry.nodes \in Nat /\ g.nodes \in Nat /\ geometry.nodes <= g.nodes
      BY <1>t, <2>2
    <3> HIDE DEF g
    <3> QED BY <3>1, <3>2, InRangeGrows
  <2> HIDE DEF g
  <2> QED BY <2>1, <2>2, <2>3, EditKeeps DEF TypeMayHaveBeams, ReferencesNameBeams
<1>2. CASE AddFace
  <2> PICK t \in Triangles : Edit([geometry EXCEPT !.faces = Append(@, t)], objectType)
    BY <1>2 DEF AddFace
  <2> DEFINE g == [geometry EXCEPT !.faces = Append(@, t)]
  <2>1. Append(geometry.faces, t) \in Seq(Triangles)
    BY <1>t
  <2>2. /\ g \in Geometries
        /\ g.nodes = geometry.nodes /\ g.beams = geometry.beams /\ g.sets = geometry.sets
    BY <1>t, <2>1, Updates
  <2>3. \A k \in DOMAIN g.beams : isBeamValid(g, g.beams[k])
    BY <2>2, SameNodes DEF BeamsAreValid
  <2> QED BY <2>2, <2>3, EditKeeps DEF TypeMayHaveBeams, ReferencesNameBeams
<1>3. CASE SetTriangle
  <2> PICK f \in DOMAIN geometry.faces, t \in Triangles :
              Edit([geometry EXCEPT !.faces[f] = t], objectType)
    BY <1>3 DEF SetTriangle
  <2> DEFINE g == [geometry EXCEPT !.faces[f] = t]
  <2>1. [geometry.faces EXCEPT ![f] = t] \in Seq(Triangles)
    BY <1>t
  <2>2. /\ g \in Geometries
        /\ g.nodes = geometry.nodes /\ g.beams = geometry.beams /\ g.sets = geometry.sets
    BY <1>t, <2>1, Updates
  <2>3. \A k \in DOMAIN g.beams : isBeamValid(g, g.beams[k])
    BY <2>2, SameNodes DEF BeamsAreValid
  <2> QED BY <2>2, <2>3, EditKeeps DEF TypeMayHaveBeams, ReferencesNameBeams
<1>4. CASE SetNodesAndFaces
  <2> PICK n \in 0..MaxNodes, ts \in FaceLists : \E j \in 0..Len(ts) :
              Edit([[NoGeometry EXCEPT !.nodes = n] EXCEPT !.faces = SubSeq(ts, 1, j)], objectType)
    BY <1>4 DEF SetNodesAndFaces
  <2> PICK k \in 0..Len(ts) :
              Edit([[NoGeometry EXCEPT !.nodes = n] EXCEPT !.faces = SubSeq(ts, 1, k)], objectType)
    OBVIOUS
  <2> DEFINE g == [[NoGeometry EXCEPT !.nodes = n] EXCEPT !.faces = SubSeq(ts, 1, k)]
  <2>1. SubSeq(ts, 1, k) \in Seq(Triangles)
    BY GeometryAssumption, Prefix
  <2>2. /\ g \in Geometries
        /\ g.beams = <<>> /\ g.sets = <<>>
    <3>1. /\ NoGeometry \in Geometries /\ NoGeometry.beams = <<>> /\ NoGeometry.sets = <<>>
          /\ n \in Nat
      BY DEF NoGeometry, Geometries
    <3> DEFINE c == [NoGeometry EXCEPT !.nodes = n]
    <3>2. c \in Geometries /\ c.beams = <<>> /\ c.sets = <<>>
      BY <3>1, Updates
    <3> HIDE DEF c
    <3> QED BY <2>1, <3>2, Updates DEF c
  <2>3. Edit(g, objectType)
    OBVIOUS
  <2> HIDE DEF g
  <2> QED BY <2>2, <2>3, EditKeeps
<1>5. CASE SetType
  <2> PICK t \in ObjectTypes : (isValidForBeamLattices(t) \/ geometry.beams = <<>>) /\ Edit(geometry, t)
    BY <1>5 DEF SetType
  <2> QED BY <1>t, EditKeeps DEF BeamsAreValid, ReferencesNameBeams
<1>6. CASE AddBeam
  <2> PICK p \in BeamEnds : /\ isValidForBeamLattices(objectType) /\ isBeamValid(geometry, p)
                            /\ Edit([geometry EXCEPT !.beams = Append(@, p)], objectType)
    BY <1>6 DEF AddBeam
  <2> DEFINE g == [geometry EXCEPT !.beams = Append(@, p)]
  <2>1. Append(geometry.beams, p) \in Seq(BeamEnds)
    BY <1>t
  <2>2. /\ g \in Geometries
        /\ g.nodes = geometry.nodes /\ g.beams = Append(geometry.beams, p) /\ g.sets = geometry.sets
    BY <1>t, <2>1, Updates
  <2>3. \A k \in DOMAIN g.beams : isBeamValid(geometry, g.beams[k])
    BY <1>t, <2>2 DEF BeamsAreValid
  <2>4. \A k \in DOMAIN g.beams : isBeamValid(g, g.beams[k])
    BY <2>2, <2>3, SameNodes
  <2>5. Len(g.beams) = Len(geometry.beams) + 1 /\ geometry.sets \in Seq(Seq(Nat)) /\ Len(geometry.beams) \in Nat
    BY <1>t, <2>2
  <2>6. \A s \in DOMAIN g.sets : \A k \in DOMAIN g.sets[s] :
            g.sets[s][k] = 0 \/ g.sets[s][k] < Len(g.beams)
    BY <2>2, <2>5 DEF ReferencesNameBeams
  <2> QED BY <2>2, <2>4, <2>6, EditKeeps
<1>7. CASE SetBeam
  <2> PICK b \in DOMAIN geometry.beams, p \in BeamEnds :
              /\ isBeamValid(geometry, p)
              /\ Edit([geometry EXCEPT !.beams[b] = p], objectType)
    BY <1>7 DEF SetBeam
  <2> DEFINE g == [geometry EXCEPT !.beams[b] = p]
  <2>1. [geometry.beams EXCEPT ![b] = p] \in Seq(BeamEnds)
    BY <1>t
  <2>2. /\ g \in Geometries
        /\ g.nodes = geometry.nodes /\ g.beams = [geometry.beams EXCEPT ![b] = p]
        /\ g.sets = geometry.sets
    BY <1>t, <2>1, Updates
  <2>3. \A k \in DOMAIN g.beams : isBeamValid(geometry, g.beams[k])
    BY <1>t, <2>2 DEF BeamsAreValid
  <2>4. \A k \in DOMAIN g.beams : isBeamValid(g, g.beams[k])
    BY <2>2, <2>3, SameNodes
  <2>5. Len(g.beams) = Len(geometry.beams) /\ geometry.beams # <<>>
    BY <1>t, <2>2
  <2> QED BY <2>2, <2>4, <2>5, EditKeeps DEF TypeMayHaveBeams, ReferencesNameBeams
<1>8. CASE SetBeams
  <2> DEFINE Added(bs, j) ==
               /\ bs # <<>> => isValidForBeamLattices(objectType)
               /\ \A i \in 1..j : isBeamValid(geometry, bs[i])
               /\ Edit([clearBeamLattice(geometry) EXCEPT !.beams = SubSeq(bs, 1, j)], objectType)
  <2> PICK bs \in BeamLists : \E j \in 0..Len(bs) : Added(bs, j)
    BY <1>8 DEF SetBeams
  <2> PICK n \in 0..Len(bs) : Added(bs, n)
    OBVIOUS
  <2> DEFINE g == [clearBeamLattice(geometry) EXCEPT !.beams = SubSeq(bs, 1, n)]
  <2>1. bs \in Seq(BeamEnds)
    BY GeometryAssumption
  <2>2. /\ SubSeq(bs, 1, n) \in Seq(BeamEnds) /\ Len(SubSeq(bs, 1, n)) = n
        /\ \A i \in 1..n : SubSeq(bs, 1, n)[i] = bs[i]
    BY <2>1, Prefix
  <2>3. /\ g \in Geometries
        /\ g.nodes = geometry.nodes /\ g.beams = SubSeq(bs, 1, n) /\ g.sets = <<>>
    <3> DEFINE c == [geometry EXCEPT !.sets = <<>>]
    <3>1. <<>> \in Seq(Seq(Nat))
      OBVIOUS
    <3>2. c \in Geometries /\ c.nodes = geometry.nodes /\ c.sets = <<>>
      BY <1>t, <3>1, Updates, ZenonT(60)
    <3>3. g = [c EXCEPT !.beams = SubSeq(bs, 1, n)]
      BY <1>t DEF clearBeamLattice, Geometries
    <3> HIDE DEF c, g
    <3> QED BY <2>2, <3>2, <3>3, Updates
  <2>4. \A k \in DOMAIN g.beams : isBeamValid(geometry, g.beams[k])
    BY <2>2, <2>3
  <2>5. \A k \in DOMAIN g.beams : isBeamValid(g, g.beams[k])
    BY <2>3, <2>4, SameNodes
  <2>6. g.beams # <<>> => isValidForBeamLattices(objectType)
    BY <2>2, <2>3
  <2>7. Edit(g, objectType)
    OBVIOUS
  <2>8. \A s \in DOMAIN g.sets : \A k \in DOMAIN g.sets[s] :
            g.sets[s][k] = 0 \/ g.sets[s][k] < Len(g.beams)
    BY <2>3
  <2> HIDE DEF g, Added
  <2> QED BY <2>3, <2>5, <2>6, <2>7, <2>8, EditKeeps
<1>9. CASE AddBeamSet
  <2> DEFINE g == [geometry EXCEPT !.sets = Append(@, <<>>)]
  <2>1. Edit(g, objectType)
    BY <1>9 DEF AddBeamSet
  <2>2. /\ g \in Geometries
        /\ g.nodes = geometry.nodes /\ g.beams = geometry.beams /\ g.sets = Append(geometry.sets, <<>>)
    <3>1. Append(geometry.sets, <<>>) \in Seq(Seq(Nat))
      BY <1>t
    <3> QED BY <1>t, <3>1, Updates, ZenonT(60)
  <2>3. \A k \in DOMAIN g.beams : isBeamValid(g, g.beams[k])
    BY <2>2, SameNodes DEF BeamsAreValid
  <2>4. \A s \in DOMAIN g.sets : \A k \in DOMAIN g.sets[s] :
            g.sets[s][k] = 0 \/ g.sets[s][k] < Len(g.beams)
    BY <1>t, <2>2 DEF ReferencesNameBeams
  <2> QED BY <2>1, <2>2, <2>3, <2>4, EditKeeps DEF TypeMayHaveBeams
<1>10. CASE SetReferences
  <2> DEFINE New(s, refs) ==
               [k \in DOMAIN refs |->
                  IF \A i \in 1..k : refs[i] < Len(geometry.beams) THEN refs[k]
                  ELSE IF k <= Len(geometry.sets[s]) THEN geometry.sets[s][k] ELSE 0]
  <2>1. PICK s \in DOMAIN geometry.sets, refs \in RefLists :
               Edit([geometry EXCEPT !.sets[s] = New(s, refs)], objectType)
    BY <1>10 DEF SetReferences
  <2>2. refs \in Seq(Nat) /\ Len(refs) \in Nat /\ DOMAIN refs = 1..Len(refs)
    BY GeometryAssumption
  <2>3. geometry.sets \in Seq(Seq(Nat)) /\ geometry.sets[s] \in Seq(Nat) /\ Len(geometry.beams) \in Nat
    BY <1>t
  <2>4. \A k \in DOMAIN refs :
            /\ New(s, refs)[k] \in Nat
            /\ New(s, refs)[k] = 0 \/ New(s, refs)[k] < Len(geometry.beams)
    <3> TAKE k \in DOMAIN refs
    <3>1. CASE \A i \in 1..k : refs[i] < Len(geometry.beams)
      BY <2>2, <3>1
    <3>2. CASE ~(\A i \in 1..k : refs[i] < Len(geometry.beams)) /\ k <= Len(geometry.sets[s])
      <4> DEFINE old == geometry.sets[s]
      <4>3. old \in Seq(Nat) /\ k \in 1..Len(refs) /\ k <= Len(old)
        BY <2>2, <2>3, <3>2
      <4> HIDE DEF old
      <4>4. Len(old) \in Nat /\ DOMAIN old = 1..Len(old)
        BY <4>3
      <4>5. k \in DOMAIN old /\ old[k] \in Nat
        BY <2>2, <4>3, <4>4
      <4>1. k \in DOMAIN geometry.sets[s] /\ geometry.sets[s][k] \in Nat
        BY <4>5 DEF old
      <4>2. New(s, refs)[k] = geometry.sets[s][k]
        BY <3>2
      <4> HIDE DEF New
      <4> QED BY <4>1, <4>2 DEF ReferencesNameBeams
    <3>3. CASE ~(\A i \in 1..k : refs[i] < Len(geometry.beams)) /\ ~(k <= Len(geometry.sets[s]))
      BY <3>3
    <3> QED BY <3>1, <3>2, <3>3
  <2>5. New(s, refs) \in Seq(Nat) /\ DOMAIN New(s, refs) = DOMAIN refs
    BY <2>2, <2>4
  <2> DEFINE g == [geometry EXCEPT !.sets[s] = New(s, refs)]
  <2>6. /\ g \in Geometries
        /\ g.nodes = geometry.nodes /\ g.beams = geometry.beams
        /\ g.sets = [geometry.sets EXCEPT ![s] = New(s, refs)]
    <3> HIDE DEF New
    <3>1. [geometry.sets EXCEPT ![s] = New(s, refs)] \in Seq(Seq(Nat))
      BY <1>t, <2>5
    <3> QED BY <1>t, <3>1, Updates, ZenonT(60)
  <2>7. \A k \in DOMAIN g.beams : isBeamValid(g, g.beams[k])
    BY <2>6, SameNodes DEF BeamsAreValid
  <2>8. \A r \in DOMAIN g.sets : \A k \in DOMAIN g.sets[r] :
            g.sets[r][k] = 0 \/ g.sets[r][k] < Len(g.beams)
    <3> HIDE DEF New
    <3> QED BY <2>3, <2>4, <2>5, <2>6 DEF ReferencesNameBeams
  <2> HIDE DEF New
  <2> QED BY <2>1, <2>6, <2>7, <2>8, EditKeeps DEF TypeMayHaveBeams
<1>11. CASE ExportSTL \/ UNCHANGED geometryVars
  <2>1. geometry' = geometry /\ objectType' = objectType
    BY <1>11 DEF ExportSTL, geometryVars
  <2> QED BY <2>1 DEF GeometryType, BeamsAreValid, TypeMayHaveBeams, ReferencesNameBeams,
                      isBeamValid, InRange, AllDistinct, isValidForBeamLattices
<1> QED BY <1>1, <1>2, <1>3, <1>4, <1>5, <1>6, <1>7, <1>8, <1>9, <1>10, <1>11 DEF GeometryNext

(* InvSane: the invariant is as strong as the property.                    *)
LEMMA InvSane == GeometryInv => LatticeIsSane
<1> SUFFICES ASSUME GeometryInv, geometry.beams # <<>>,
                    NEW s \in DOMAIN geometry.sets, NEW k \in DOMAIN geometry.sets[s]
             PROVE  geometry.sets[s][k] < Len(geometry.beams)
  BY DEF GeometryInv, LatticeIsSane, BeamsAreValid, TypeMayHaveBeams
<1>1. geometry.beams \in Seq(BeamEnds)
  BY Updates DEF GeometryInv, GeometryType
<1>2. Len(geometry.beams) \in Nat /\ Len(geometry.beams) # 0
  BY <1>1
<1> QED BY <1>2 DEF GeometryInv, ReferencesNameBeams

(* LatticeCorrect: over every sequence of calls on a mesh object and its   *)
(* beam lattice, calls that are refused half way included, the beams join  *)
(* nodes of the mesh, a mesh with beams has a type that may have them, and *)
(* its beam sets name its beams.                                           *)
THEOREM LatticeCorrect == GeometrySpec => []LatticeIsSane
<1>1. GeometrySpec => []GeometryInv
  BY GeometryStart, GeometryStep, PTL DEF GeometrySpec
<1> QED BY <1>1, InvSane, PTL

-----------------------------------------------------------------------------
(* The check for manifolds. *)

(* TriangleNodes: a half edge of a mesh runs between two of its face's     *)
(* nodes, and in a sane mesh these are two nodes of the mesh.              *)
LEMMA TriangleNodes ==
  ASSUME NEW g \in Geometries, NEW h \in HalfEdges(g)
  PROVE  /\ Start(g, h) \in Nat /\ End(g, h) \in Nat
         /\ checkSanity(g) => Start(g, h) # End(g, h)
<1>1. g.faces \in Seq(Triangles)
  BY Updates
<1>2. h[1] \in DOMAIN g.faces /\ h[2] \in 1..3
  BY DEF HalfEdges
<1> DEFINE t == g.faces[h[1]]
<1>3. t \in Nat \X Nat \X Nat
  BY <1>1, <1>2, GeometryAssumption, SMTT(60)
<1>4. checkSanity(g) => AllDistinct(t)
  BY <1>2 DEF checkSanity
<1> HIDE DEF t
<1>5. DOMAIN t = 1..3 /\ t[1] \in Nat /\ t[2] \in Nat /\ t[3] \in Nat
  BY <1>3
<1>6. (h[2] % 3) + 1 \in 1..3 /\ (h[2] % 3) + 1 # h[2]
  BY <1>2
<1>7. \A j \in 1..3 : t[j] \in Nat
  BY <1>5
<1>8. Start(g, h) = t[h[2]] /\ End(g, h) = t[(h[2] % 3) + 1]
  BY DEF Start, End, t
<1>9. AllDistinct(t) => t[h[2]] # t[(h[2] % 3) + 1]
  BY <1>2, <1>5, <1>6 DEF AllDistinct
<1> QED BY <1>2, <1>4, <1>6, <1>7, <1>8, <1>9

(* ThreeNodes: a sane mesh with a face has three nodes.                    *)
LEMMA ThreeNodes ==
  ASSUME NEW g \in Geometries, checkSanity(g), Len(g.faces) > 0
  PROVE  g.nodes >= 3
<1>1. g.faces \in Seq(Triangles) /\ g.nodes \in Nat
  BY Updates
<1>2. 1 \in DOMAIN g.faces
  BY <1>1
<1> DEFINE t == g.faces[1]
<1>3. t \in Nat \X Nat \X Nat
  BY <1>1, <1>2, GeometryAssumption
<1>4. InRange(g, t) /\ AllDistinct(t)
  BY <1>2 DEF checkSanity
<1> HIDE DEF t
<1>5. DOMAIN t = {1, 2, 3} /\ t[1] \in Nat /\ t[2] \in Nat /\ t[3] \in Nat
  BY <1>3
<1>6. t[1] < g.nodes /\ t[2] < g.nodes /\ t[3] < g.nodes
  BY <1>4, <1>5 DEF InRange
<1>7. t[1] # t[2] /\ t[1] # t[3] /\ t[2] # t[3]
  BY <1>4, <1>5 DEF AllDistinct
<1> QED BY <1>1, <1>5, <1>6, <1>7

(* The half edges along an edge e, upwards and downwards.                  *)
Up(g, e) == {h \in HalfEdges(g) : Match(g, h) = e /\ Start(g, h) <= End(g, h)}
Down(g, e) == {h \in HalfEdges(g) : Match(g, h) = e /\ Start(g, h) > End(g, h)}

(* CountOne: one orientation is counted exactly if there is one half edge. *)
LEMMA CountOne ==
  ASSUME NEW g \in Geometries, NEW e
  PROVE  /\ PositiveOrientations(g, e) = 1 <=> \E h : Up(g, e) = {h}
         /\ NegativeOrientations(g, e) = 1 <=> \E h : Down(g, e) = {h}
<1>1. g.faces \in Seq(Triangles)
  BY Updates
<1>2. IsFiniteSet(DOMAIN g.faces) /\ IsFiniteSet(1..3)
  <2>1. DOMAIN g.faces = 1..Len(g.faces) /\ Len(g.faces) \in Int
    BY <1>1
  <2>2. \A n \in Int : IsFiniteSet(1..n)
    BY FS_Interval
  <2>3. 3 \in Int
    OBVIOUS
  <2> QED BY <2>1, <2>2, <2>3, Zenon
<1>3. IsFiniteSet(HalfEdges(g))
  BY <1>2, FS_Product DEF HalfEdges
<1>4. IsFiniteSet(Up(g, e)) /\ IsFiniteSet(Down(g, e))
  <2>1. Up(g, e) \subseteq HalfEdges(g) /\ Down(g, e) \subseteq HalfEdges(g)
    BY DEF Up, Down
  <2> QED BY <1>3, <2>1, FS_Subset
<1>5. PositiveOrientations(g, e) = Cardinality(Up(g, e)) /\ NegativeOrientations(g, e) = Cardinality(Down(g, e))
  BY DEF PositiveOrientations, NegativeOrientations, Up, Down
<1> QED BY <1>4, <1>5, FS_Singleton

(* Opposite: two half edges along the same edge run the same way or the    *)
(* opposite one.                                                           *)
LEMMA Opposite ==
  ASSUME NEW a \in Nat, NEW b \in Nat, NEW c \in Nat, NEW d \in Nat, {a, b} = {c, d}
  PROVE  /\ a <= b /\ c <= d => a = c /\ b = d
         /\ a > b /\ c > d => a = c /\ b = d
         /\ a <= b /\ c > d => a = d /\ b = c
         /\ a > b /\ c <= d => a = d /\ b = c
OBVIOUS

(* ClosedManifold: what isManifoldAndOriented counts.                      *)
LEMMA ClosedManifold ==
  ASSUME NEW g \in Geometries, checkSanity(g)
  PROVE  (\A e \in {Match(g, h) : h \in HalfEdges(g)} :
             PositiveOrientations(g, e) = 1 /\ NegativeOrientations(g, e) = 1)
         <=>
         /\ \A h, i \in HalfEdges(g) :
              Start(g, h) = Start(g, i) /\ End(g, h) = End(g, i) => h = i
         /\ \A h \in HalfEdges(g) : \E i \in HalfEdges(g) :
              Start(g, i) = End(g, h) /\ End(g, i) = Start(g, h)
<1> DEFINE H == HalfEdges(g)
           One(e) == (\E h : Up(g, e) = {h}) /\ (\E h : Down(g, e) = {h})
           S(h) == Start(g, h)
           E(h) == End(g, h)
<1>1. \A e : PositiveOrientations(g, e) = 1 /\ NegativeOrientations(g, e) = 1 <=> One(e)
  BY CountOne
<1>2. \A h \in H : S(h) \in Nat /\ E(h) \in Nat /\ S(h) # E(h)
  BY TriangleNodes
<1>3. \A e : \A h \in H : /\ h \in Up(g, e) <=> {S(h), E(h)} = e /\ S(h) <= E(h)
                          /\ h \in Down(g, e) <=> {S(h), E(h)} = e /\ S(h) > E(h)
  BY DEF Up, Down, Match
<1>4. \A e : Up(g, e) \subseteq H /\ Down(g, e) \subseteq H
  BY DEF Up, Down
<1> HIDE DEF H, S, E
<1>5. ASSUME \A h \in H : One({S(h), E(h)})
      PROVE  /\ \A h, i \in H : S(h) = S(i) /\ E(h) = E(i) => h = i
             /\ \A h \in H : \E i \in H : S(i) = E(h) /\ E(i) = S(h)
  <2>1. ASSUME NEW h \in H, NEW i \in H, S(h) = S(i), E(h) = E(i)
        PROVE  h = i
    <3> DEFINE e == {S(h), E(h)}
    <3>1. PICK u : Up(g, e) = {u}
      BY <1>5
    <3>2. PICK d : Down(g, e) = {d}
      BY <1>5
    <3>3. {S(i), E(i)} = e
      BY <2>1
    <3> HIDE DEF e
    <3>4. \A x \in {h, i} : /\ x \in Up(g, e) <=> {S(x), E(x)} = e /\ S(x) <= E(x)
                            /\ x \in Down(g, e) <=> {S(x), E(x)} = e /\ S(x) > E(x)
      BY <1>3, <2>1
    <3>5. {S(h), E(h)} = e
      BY DEF e
    <3>6. CASE S(h) <= E(h)
      <4>1. h \in Up(g, e) /\ i \in Up(g, e)
        BY <2>1, <3>6, <3>3, <3>4, <3>5
      <4> QED BY <3>1, <4>1
    <3>7. CASE S(h) > E(h)
      <4>1. h \in Down(g, e) /\ i \in Down(g, e)
        BY <2>1, <3>7, <3>3, <3>4, <3>5
      <4> QED BY <3>2, <4>1
    <3> QED BY <1>2, <3>6, <3>7
  <2>2. ASSUME NEW h \in H
        PROVE  \E i \in H : S(i) = E(h) /\ E(i) = S(h)
    <3> DEFINE e == {S(h), E(h)}
    <3>1. PICK u : Up(g, e) = {u}
      BY <1>5
    <3>2. PICK d : Down(g, e) = {d}
      BY <1>5
    <3>3. /\ u \in H /\ {S(u), E(u)} = e /\ S(u) <= E(u)
          /\ d \in H /\ {S(d), E(d)} = e /\ S(d) > E(d)
      BY <1>3, <1>4, <3>1, <3>2
    <3>4. CASE S(h) <= E(h)
      <4>1. S(h) = E(d) /\ E(h) = S(d)
        BY <1>2, <3>3, <3>4, Opposite
      <4> QED BY <3>3, <4>1
    <3>5. CASE S(h) > E(h)
      <4>1. S(h) = E(u) /\ E(h) = S(u)
        BY <1>2, <3>3, <3>5, Opposite
      <4> QED BY <3>3, <4>1
    <3> QED BY <1>2, <3>4, <3>5
  <2> QED BY <2>1, <2>2
<1>6. ASSUME \A h, i \in H : S(h) = S(i) /\ E(h) = E(i) => h = i,
             \A h \in H : \E i \in H : S(i) = E(h) /\ E(i) = S(h),
             NEW x \in H
      PROVE  One({S(x), E(x)})
  <2> DEFINE e == {S(x), E(x)}
  <2>1. PICK y \in H : S(y) = E(x) /\ E(y) = S(x)
    BY <1>6
  <2>2. \E u, d \in H : /\ {S(u), E(u)} = e /\ S(u) <= E(u)
                        /\ {S(d), E(d)} = e /\ S(d) > E(d)
    <3>1. CASE S(x) <= E(x)
      BY <1>2, <2>1, <3>1
    <3>2. CASE S(x) > E(x)
      BY <1>2, <2>1, <3>2
    <3> QED BY <1>2, <3>1, <3>2
  <2>3. PICK u \in H, d \in H : /\ {S(u), E(u)} = e /\ S(u) <= E(u)
                                /\ {S(d), E(d)} = e /\ S(d) > E(d)
    BY <2>2
  <2> HIDE DEF e
  <2>4. Up(g, e) = {u}
    <3>1. ASSUME NEW k \in Up(g, e) PROVE k = u
      <4>1. k \in H /\ {S(k), E(k)} = e /\ S(k) <= E(k)
        BY <1>3, <1>4, <3>1
      <4>2. S(k) = S(u) /\ E(k) = E(u)
        BY <1>2, <2>3, <4>1, Opposite, ZenonT(60)
      <4> QED BY <1>6, <4>1, <4>2
    <3>2. u \in Up(g, e)
      BY <1>3, <2>3
    <3> QED BY <3>1, <3>2
  <2>5. Down(g, e) = {d}
    <3>1. ASSUME NEW k \in Down(g, e) PROVE k = d
      <4>1. k \in H /\ {S(k), E(k)} = e /\ S(k) > E(k)
        BY <1>3, <1>4, <3>1
      <4>2. S(k) = S(d) /\ E(k) = E(d)
        BY <1>2, <2>3, <4>1, Opposite
      <4> QED BY <1>6, <4>1, <4>2
    <3>2. d \in Down(g, e)
      BY <1>3, <2>3
    <3> QED BY <3>1, <3>2
  <2> QED BY <2>4, <2>5 DEF e
<1>7. (\A h \in H : One({S(h), E(h)}))
        <=> /\ \A h, i \in H : S(h) = S(i) /\ E(h) = E(i) => h = i
            /\ \A h \in H : \E i \in H : S(i) = E(h) /\ E(i) = S(h)
  BY <1>5, <1>6, Zenon
<1> HIDE DEF One
<1>8. (\A e \in {Match(g, h) : h \in H} : PositiveOrientations(g, e) = 1 /\ NegativeOrientations(g, e) = 1)
        <=> \A h \in H : One({S(h), E(h)})
  BY <1>1 DEF Match, S, E
<1> QED BY <1>7, <1>8 DEF H, S, E

(* TypeClosed: the invariant gives the property.                           *)
LEMMA TypeClosed == GeometryInv => ManifoldIsClosed
<1> SUFFICES ASSUME GeometryInv PROVE ManifoldIsClosed
  OBVIOUS
<1> DEFINE g == geometry
           H == HalfEdges(g)
           Closed == /\ \A h, i \in H : <<Start(g, h), End(g, h)>> = <<Start(g, i), End(g, i)>> => h = i
                     /\ \A h \in H : \E i \in H :
                          <<Start(g, i), End(g, i)>> = << <<Start(g, h), End(g, h)>>[2], <<Start(g, h), End(g, h)>>[1] >>
           Counted == \A e \in {Match(g, h) : h \in H} :
                        PositiveOrientations(g, e) = 1 /\ NegativeOrientations(g, e) = 1
<1>1. g \in Geometries /\ Len(g.faces) \in Nat
  BY Updates DEF GeometryInv, GeometryType
<1>2. checkSanity(g) /\ Len(g.faces) > 2 => g.nodes >= 3
  BY <1>1, ThreeNodes
<1>3. Closed <=> /\ \A h, i \in H : Start(g, h) = Start(g, i) /\ End(g, h) = End(g, i) => h = i
                 /\ \A h \in H : \E i \in H : Start(g, i) = End(g, h) /\ End(g, i) = Start(g, h)
  OBVIOUS
<1>4. checkSanity(g) => (Counted <=> Closed)
  <2> HIDE DEF Closed
  <2> QED BY <1>1, <1>3, ClosedManifold
<1>5. Len(g.faces) > 2 <=> Len(g.faces) >= 3
  BY <1>1
<1>6. isManifoldAndOriented(g) <=> checkSanity(g) /\ g.nodes >= 3 /\ Len(g.faces) >= 3 /\ Counted
  BY Zenon DEF isManifoldAndOriented
<1>7. isManifoldAndOriented(g) <=> checkSanity(g) /\ Len(g.faces) > 2 /\ Closed
  <2> HIDE DEF Closed, Counted, g
  <2> QED BY <1>2, <1>4, <1>5, <1>6, Zenon
<1> QED BY <1>7, Zenon DEF ManifoldIsClosed

(* ManifoldCorrect: over every sequence of calls on a mesh object, for any *)
(* number of nodes and faces, isManifoldAndOriented says what it is for.   *)
THEOREM ManifoldCorrect == GeometrySpec => []ManifoldIsClosed
<1>1. GeometrySpec => []GeometryInv
  BY GeometryStart, GeometryStep, PTL DEF GeometrySpec
<1> QED BY <1>1, TypeClosed, PTL

-----------------------------------------------------------------------------
(* The STL export. *)

Positions == Nat \X Nat
MergedFace == [1..3 -> Nat]

(* A merged mesh whose faces name nodes it has.                            *)
Exportable(m) ==
  /\ m.nodes \in Seq(Positions) /\ m.faces \in Seq(MergedFace)
  /\ \A k \in DOMAIN m.faces : \A j \in 1..3 : m.faces[k][j] < Len(m.nodes)

(* The faces of one build item, with its own positions.                    *)
FacesOfItem(g, item) ==
  [k \in DOMAIN g.faces |-> [j \in 1..3 |-> <<item, g.faces[k][j]>>]]

Facet == [1..3 -> Positions]

(* SaneFaces: the faces of a sane mesh name nodes it has.                  *)
LEMMA SaneFaces ==
  ASSUME NEW g \in Geometries, checkSanity(g)
  PROVE  \A k \in DOMAIN g.faces : \A j \in 1..3 : g.faces[k][j] \in Nat /\ g.faces[k][j] < g.nodes
<1>1. g.faces \in Seq(Triangles)
  BY Updates
<1>2. ASSUME NEW k \in DOMAIN g.faces
      PROVE  \A j \in 1..3 : g.faces[k][j] \in Nat /\ g.faces[k][j] < g.nodes
  <2> DEFINE t == g.faces[k]
  <2>1. t \in Nat \X Nat \X Nat
    BY <1>1, <1>2, GeometryAssumption
  <2>2. InRange(g, t)
    BY <1>2 DEF checkSanity
  <2> HIDE DEF t
  <2>3. DOMAIN t = 1..3 /\ t[1] \in Nat /\ t[2] \in Nat /\ t[3] \in Nat
    BY <2>1
  <2>4. \A j \in 1..3 : t[j] \in Nat /\ t[j] < g.nodes
    BY <2>2, <2>3 DEF InRange
  <2> QED BY <2>4 DEF t
<1> QED BY <1>2

(* ItemFaces: the faces of a build item are facets.                        *)
LEMMA ItemFaces ==
  ASSUME NEW g \in Geometries, checkSanity(g), NEW item \in Nat
  PROVE  /\ FacesOfItem(g, item) \in Seq(Facet) /\ Len(FacesOfItem(g, item)) = Len(g.faces)
         /\ \A k \in 1..Len(g.faces) :
              FacesOfItem(g, item)[k] = [j \in 1..3 |-> <<item, g.faces[k][j]>>]
<1>1. g.faces \in Seq(Triangles) /\ Len(g.faces) \in Nat /\ DOMAIN g.faces = 1..Len(g.faces)
  BY Updates
<1>2. ASSUME NEW k \in 1..Len(g.faces)
      PROVE  [j \in 1..3 |-> <<item, g.faces[k][j]>>] \in Facet
  BY <1>1, SaneFaces DEF Facet, Positions
<1> QED BY <1>1, <1>2 DEF FacesOfItem

(* Exported: what exportMeshEx writes of a merged mesh.                    *)
LEMMA Exported ==
  ASSUME NEW m, Exportable(m)
  PROVE  /\ exportMeshEx(m) \in Seq(Facet) /\ Len(exportMeshEx(m)) = Len(m.faces)
         /\ \A k \in 1..Len(m.faces) :
              exportMeshEx(m)[k] = [j \in 1..3 |-> m.nodes[m.faces[k][j] + 1]]
<1> DEFINE nodes == m.nodes
           faces == m.faces
<1>1. nodes \in Seq(Positions) /\ faces \in Seq(MergedFace) /\ Len(faces) \in Nat /\ Len(nodes) \in Nat
      /\ DOMAIN faces = 1..Len(faces)
      /\ \A k \in DOMAIN faces : \A j \in 1..3 : faces[k][j] < Len(nodes)
  BY DEF Exportable
<1>2. exportMeshEx(m) = [k \in DOMAIN faces |-> [j \in 1..3 |-> nodes[faces[k][j] + 1]]]
  BY DEF exportMeshEx
<1> HIDE DEF nodes, faces
<1>3. ASSUME NEW k \in 1..Len(faces)
      PROVE  [j \in 1..3 |-> nodes[faces[k][j] + 1]] \in Facet
  <2>1. faces[k] \in [1..3 -> Nat]
    BY <1>1 DEF MergedFace
  <2>2. \A j \in 1..3 : faces[k][j] + 1 \in 1..Len(nodes)
    BY <1>1, <2>1
  <2>3. \A j \in 1..3 : nodes[faces[k][j] + 1] \in Positions
    BY <1>1, <2>2
  <2> QED BY <2>3 DEF Facet
<1> HIDE DEF Facet
<1>4. /\ exportMeshEx(m) \in Seq(Facet) /\ Len(exportMeshEx(m)) = Len(faces)
      /\ \A k \in 1..Len(faces) : exportMeshEx(m)[k] = [j \in 1..3 |-> nodes[faces[k][j] + 1]]
  BY <1>1, <1>2, <1>3
<1> QED BY <1>4 DEF nodes, faces

(* The F faces gf name nodes below N.                                      *)
NamesNodes(gf, F, N) == \A k \in 1..F : \A j \in 1..3 : gf[k][j] \in Nat /\ gf[k][j] < N

(* Nodes p are a with N nodes of an item behind them, faces q are f with   *)
(* the F faces gf behind them.                                             *)
Puts(item, gf, F, N, a, f, p, q) ==
  /\ p = a \o [n \in 1..N |-> <<item, n - 1>>]
  /\ q = f \o [k \in 1..F |-> [j \in 1..3 |-> Len(a) + gf[k][j]]]

(* The faces q, with the positions p of their nodes, are the faces f with  *)
(* the positions a and behind them the faces gf with those of an item.     *)
Places(item, gf, F, a, f, p, q) ==
  /\ p \in Seq(Positions) /\ q \in Seq(MergedFace) /\ Len(q) = Len(f) + F
  /\ \A k \in DOMAIN q : \A j \in 1..3 : q[k][j] < Len(p)
  /\ \A k \in 1..Len(f) : \A j \in 1..3 : p[q[k][j] + 1] = a[f[k][j] + 1]
  /\ \A k \in 1..F : \A j \in 1..3 : p[q[Len(f) + k][j] + 1] = <<item, gf[k][j]>>

(* MergeLists: nodes p and faces q, made of the nodes a and faces f there  *)
(* are and of N nodes and F faces more, which get their place behind them. *)
LEMMA MergeLists ==
  ASSUME NEW N \in Nat, NEW F \in Nat, NEW item \in Nat, NEW gf, NamesNodes(gf, F, N),
         NEW a \in Seq(Positions), NEW f \in Seq(MergedFace), NamesNodes(f, Len(f), Len(a)),
         NEW p, NEW q, Puts(item, gf, F, N, a, f, p, q)
  PROVE  Places(item, gf, F, a, f, p, q)
<1> DEFINE b == [n \in 1..N |-> <<item, n - 1>>]
           h == [k \in 1..F |-> [j \in 1..3 |-> Len(a) + gf[k][j]]]
<1>p. p = a \o b /\ q = f \o h
  BY Zenon DEF Puts
<1>0. /\ \A k \in 1..F : \A j \in 1..3 : gf[k][j] \in Nat /\ gf[k][j] < N
      /\ \A k \in 1..Len(f) : \A j \in 1..3 : f[k][j] \in Nat /\ f[k][j] < Len(a)
  BY DEF NamesNodes
<1>1. Len(a) \in Nat /\ Len(f) \in Nat
  OBVIOUS
<1>2. /\ b \in Seq(Positions) /\ Len(b) = N
      /\ \A n \in 1..N : b[n] = <<item, n - 1>>
  <2>1. \A n \in 1..N : <<item, n - 1>> \in Positions
    BY DEF Positions
  <2> QED BY <2>1
<1>3. /\ h \in Seq(MergedFace) /\ Len(h) = F
      /\ \A k \in 1..F : \A j \in 1..3 : h[k][j] = Len(a) + gf[k][j]
  <2>1. \A k \in 1..F : [j \in 1..3 |-> Len(a) + gf[k][j]] \in MergedFace
    <3>1. ASSUME NEW k \in 1..F, NEW j \in 1..3 PROVE Len(a) + gf[k][j] \in Nat
      <4>1. gf[k][j] \in Nat
        BY <1>0, <3>1
      <4> QED BY ONLY <1>1, <4>1
    <3> QED BY ONLY <3>1 DEF MergedFace
  <2>2. \A k \in 1..F : h[k] = [j \in 1..3 |-> Len(a) + gf[k][j]]
    OBVIOUS
  <2>3. \A k \in 1..F : h[k] \in MergedFace
    BY <2>1, <2>2
  <2>4. h \in Seq(MergedFace) /\ Len(h) = F
    BY <2>3
  <2> QED BY <2>2, <2>4
<1> HIDE DEF b, h
<1>4. /\ p \in Seq(Positions) /\ Len(p) = Len(a) + N
      /\ \A n \in 1..Len(a) : p[n] = a[n]
      /\ \A n \in 1..N : p[Len(a) + n] = b[n]
  <2>1. /\ a \o b \in Seq(Positions) /\ Len(a \o b) = Len(a) + Len(b)
        /\ \A n \in 1..Len(a) : (a \o b)[n] = a[n]
        /\ \A n \in 1..Len(b) : (a \o b)[Len(a) + n] = b[n]
    <3>1. a \in Seq(Positions) /\ b \in Seq(Positions)
      BY <1>2
    <3> QED BY ONLY <3>1
  <2>2. p = a \o b /\ Len(b) = N
    BY <1>p, <1>2
  <2> QED BY ONLY <2>1, <2>2, Zenon
<1>5. /\ q \in Seq(MergedFace) /\ Len(q) = Len(f) + F /\ DOMAIN q = 1..(Len(f) + F)
      /\ \A k \in 1..Len(f) : q[k] = f[k]
      /\ \A k \in 1..F : q[Len(f) + k] = h[k]
  <2>1. /\ f \o h \in Seq(MergedFace) /\ Len(f \o h) = Len(f) + Len(h)
        /\ DOMAIN (f \o h) = 1..(Len(f) + Len(h))
        /\ \A n \in 1..Len(f) : (f \o h)[n] = f[n]
        /\ \A n \in 1..Len(h) : (f \o h)[Len(f) + n] = h[n]
    <3>1. f \in Seq(MergedFace) /\ h \in Seq(MergedFace)
      BY <1>3
    <3> QED BY ONLY <3>1
  <2>2. q = f \o h /\ Len(h) = F
    BY <1>p, <1>3
  <2> QED BY ONLY <2>1, <2>2, Zenon
<1>6. ASSUME NEW k \in 1..Len(f), NEW j \in 1..3
      PROVE  q[k][j] < Len(p) /\ p[q[k][j] + 1] = a[f[k][j] + 1]
  <2>1. f[k][j] \in Nat /\ f[k][j] < Len(a)
    BY <1>0
  <2>2. f[k][j] + 1 \in 1..Len(a)
    BY <1>1, <2>1, SMTT(60)
  <2>3. q[k][j] = f[k][j]
    BY <1>5
  <2> QED BY <1>1, <1>4, <2>1, <2>2, <2>3
<1>7. ASSUME NEW k \in 1..F, NEW j \in 1..3
      PROVE  q[Len(f) + k][j] < Len(p) /\ p[q[Len(f) + k][j] + 1] = <<item, gf[k][j]>>
  <2>1. gf[k][j] \in Nat /\ gf[k][j] < N
    BY <1>0
  <2>2. q[Len(f) + k][j] = Len(a) + gf[k][j]
    BY <1>3, <1>5
  <2> DEFINE v == gf[k][j]
  <2>3. v + 1 \in 1..N /\ (Len(a) + v) + 1 = Len(a) + (v + 1) /\ (v + 1) - 1 = v
    BY ONLY <1>1, <2>1, N \in Nat, SMTT(60)
  <2>4. p[Len(a) + (v + 1)] = <<item, (v + 1) - 1>>
    BY <1>2, <1>4, <2>3
  <2>5. Len(a) + v < Len(p)
    BY <1>1, <1>4, <2>1
  <2> HIDE DEF v
  <2>6. q[Len(f) + k][j] = Len(a) + v
    BY <2>2 DEF v
  <2>7. p[q[Len(f) + k][j] + 1] = <<item, v>>
    BY <2>3, <2>4, <2>6
  <2> QED BY <2>5, <2>6, <2>7 DEF v
<1>8. ASSUME NEW k \in DOMAIN q, NEW j \in 1..3
      PROVE  q[k][j] < Len(p)
  <2>1. k \in 1..Len(f) \/ \E l \in 1..F : k = Len(f) + l
    <3>1. k \in 1..(Len(f) + F)
      BY <1>5
    <3> QED BY ONLY <1>1, <3>1, F \in Nat, SplitPlace
  <2> QED BY <1>6, <1>7, <2>1
<1> QED BY <1>4, <1>5, <1>6, <1>7, <1>8, Zenon DEF Places

(* MergeOnce: mergeMesh puts the faces of one build item more behind the   *)
(* others, which keep their positions.                                     *)
LEMMA MergeOnce ==
  ASSUME NEW g \in Geometries, checkSanity(g), g.nodes > 0, NEW item \in Nat,
         NEW m, Exportable(m)
  PROVE  LET r == mergeGeometry(m, g, item) IN
         Exportable(r) /\ exportMeshEx(r) = exportMeshEx(m) \o FacesOfItem(g, item)
<1> DEFINE r == mergeGeometry(m, g, item)
           a == m.nodes
           f == m.faces
           gf == g.faces
           N == g.nodes
           F == Len(g.faces)
           p == r.nodes
           q == r.faces
           t == exportMeshEx(r)
           old == exportMeshEx(m)
           new == FacesOfItem(g, item)
<1>1. /\ g.faces \in Seq(Triangles) /\ N \in Nat /\ F \in Nat /\ DOMAIN g.faces = 1..F
  BY Updates
<1>2. Puts(item, gf, F, N, a, f, p, q)
  <2>1. N # 0
    OBVIOUS
  <2> QED BY <1>1, <2>1, Zenon DEF mergeGeometry, Puts
<1>3. /\ a \in Seq(Positions) /\ f \in Seq(MergedFace)
      /\ NamesNodes(f, Len(f), Len(a))
  BY DEF Exportable, MergedFace, NamesNodes
<1>4. NamesNodes(gf, F, N)
  BY <1>1, SaneFaces DEF NamesNodes
<1>6. /\ old \in Seq(Facet) /\ Len(old) = Len(f)
      /\ \A k \in 1..Len(f) : old[k] = [j \in 1..3 |-> a[f[k][j] + 1]]
  BY Exported
<1>7. /\ new \in Seq(Facet) /\ Len(new) = F
      /\ \A k \in 1..F : new[k] = [j \in 1..3 |-> <<item, gf[k][j]>>]
  BY ItemFaces
<1> HIDE DEF a, f, gf, N, F, p, q, old, new
<1>8. /\ p \in Seq(Positions) /\ q \in Seq(MergedFace) /\ Len(q) = Len(f) + F
      /\ \A k \in DOMAIN q : \A j \in 1..3 : q[k][j] < Len(p)
      /\ \A k \in 1..Len(f) : \A j \in 1..3 : p[q[k][j] + 1] = a[f[k][j] + 1]
      /\ \A k \in 1..F : \A j \in 1..3 : p[q[Len(f) + k][j] + 1] = <<item, gf[k][j]>>
  <2>1. Places(item, gf, F, a, f, p, q)
    BY ONLY <1>1, <1>2, <1>3, <1>4, item \in Nat, MergeLists
  <2> QED BY <2>1, Zenon DEF Places
<1>9. Exportable(r)
  BY <1>8, Zenon DEF Exportable, p, q
<1>10. /\ t \in Seq(Facet) /\ Len(t) = Len(q)
       /\ \A k \in 1..Len(q) : t[k] = [j \in 1..3 |-> p[q[k][j] + 1]]
  <2> HIDE DEF r
  <2> QED BY <1>9, Exported DEF p, q
<1> HIDE DEF t, r
<1>11. Len(f) \in Nat /\ F \in Nat
  BY <1>1, <1>3
<1>12. ASSUME NEW k \in 1..Len(old) PROVE t[k] = old[k]
  <2>1. k \in 1..Len(f) /\ k \in 1..Len(q)
    BY <1>6, <1>8, <1>11
  <2>2. t[k] = [j \in 1..3 |-> p[q[k][j] + 1]] /\ old[k] = [j \in 1..3 |-> a[f[k][j] + 1]]
    BY <1>6, <1>10, <2>1
  <2>3. \A j \in 1..3 : p[q[k][j] + 1] = a[f[k][j] + 1]
    BY <1>8, <2>1
  <2> QED BY <2>2, <2>3
<1>13. ASSUME NEW k \in 1..Len(new) PROVE t[Len(old) + k] = new[k]
  <2>1. k \in 1..F /\ Len(f) + k \in 1..Len(q)
    BY <1>7, <1>8, <1>11
  <2>2. t[Len(f) + k] = [j \in 1..3 |-> p[q[Len(f) + k][j] + 1]] /\ new[k] = [j \in 1..3 |-> <<item, gf[k][j]>>]
    BY <1>7, <1>10, <2>1
  <2>3. \A j \in 1..3 : p[q[Len(f) + k][j] + 1] = <<item, gf[k][j]>>
    BY <1>8, <2>1
  <2> QED BY <1>6, <2>2, <2>3
<1>14. t = [k \in 1..(Len(old) + Len(new)) |-> t[k]]
  <2>1. t \in [1..Len(t) -> Facet] /\ Len(t) = Len(old) + Len(new)
    BY <1>6, <1>7, <1>8, <1>10
  <2> QED BY <2>1
<1>15. t = old \o new
  <2>1. Joins(t, old, new)
    BY ONLY <1>12, <1>13, <1>14, Zenon DEF Joins
  <2> QED BY ONLY <1>6, <1>7, <2>1, IsConcat
<1> QED BY <1>9, <1>15, Zenon DEF t, old, new, r

NoMerges == [nodes |-> <<>>, faces |-> <<>>]

(* The meshes of the recursion of mergeToMesh up to n build items.         *)
MergesTo(g, n, f) ==
  f = [k \in 0..n |-> IF k = 0 THEN NoMerges ELSE mergeGeometry(f[k - 1], g, k)]

(* MergesExist: the recursion has a solution, by the least number of build *)
(* items that would have none.                                             *)
LEMMA MergesExist ==
  ASSUME NEW g, NEW n \in Nat
  PROVE  \E f : MergesTo(g, n, f)
<1> DEFINE T == {k \in Nat : ~\E f : MergesTo(g, k, f)}
<1>1. ASSUME T # {} PROVE FALSE
  <2>1. T \subseteq Nat
    OBVIOUS
  <2> HIDE DEF T
  <2>2. PICK m \in T : \A k \in T : m <= k
    BY <1>1, <2>1, NatMin
  <2>3. m \in Nat /\ ~\E f : MergesTo(g, m, f)
    BY <2>2, Zenon DEF T
  <2>4. CASE m = 0
    <3> DEFINE f == [k \in 0..0 |-> NoMerges]
    <3>1. f = [k \in 0..0 |-> IF k = 0 THEN NoMerges ELSE mergeGeometry(f[k - 1], g, k)]
      OBVIOUS
    <3> HIDE DEF f
    <3>2. MergesTo(g, 0, f)
      BY <3>1, Zenon DEF MergesTo
    <3> QED BY <2>3, <2>4, <3>2, Zenon
  <2>5. CASE m # 0
    <3>1. m - 1 \in Nat /\ m - 1 \notin T
      BY <2>2, <2>3, <2>5
    <3>2. PICK f : MergesTo(g, m - 1, f)
      BY <3>1, Zenon DEF T
    <3>3. \A k \in 0..(m - 1) : f[k] = IF k = 0 THEN NoMerges ELSE mergeGeometry(f[k - 1], g, k)
      BY <3>2, Zenon DEF MergesTo
    <3> DEFINE last == mergeGeometry(f[m - 1], g, m)
               h == [k \in 0..m |-> IF k < m THEN f[k] ELSE last]
    <3>4. last = mergeGeometry(f[m - 1], g, m)
      OBVIOUS
    <3> HIDE DEF last
    <3>5. /\ h = [k \in 0..m |-> h[k]] /\ h[m] = last
          /\ \A k \in 0..(m - 1) : h[k] = f[k]
      BY <2>3, <3>1
    <3> HIDE DEF h
    <3>6. ASSUME NEW k \in 0..m
          PROVE  h[k] = IF k = 0 THEN NoMerges ELSE mergeGeometry(h[k - 1], g, k)
      <4>1. CASE k = m
        <5>1. m - 1 \in 0..(m - 1)
          BY <2>3, <2>5
        <5>2. h[m] = mergeGeometry(h[m - 1], g, m)
          BY <3>4, <3>5, <5>1, Zenon
        <5> QED BY <2>5, <4>1, <5>2, Zenon
      <4>2. CASE k \in 0..(m - 1) /\ k # 0
        <5>1. k - 1 \in 0..(m - 1)
          BY <2>3, <4>2
        <5>2. h[k] = f[k] /\ h[k - 1] = f[k - 1] /\ f[k] = mergeGeometry(f[k - 1], g, k)
          BY <3>3, <3>5, <4>2, <5>1, Zenon
        <5> QED BY <4>2, <5>2, Zenon
      <4>3. CASE k = 0
        <5>1. 0 \in 0..(m - 1)
          BY <2>3, <2>5
        <5> QED BY <3>3, <3>5, <4>3, <5>1, Zenon
      <4> QED BY <2>3, <4>1, <4>2, <4>3
    <3>7. MergesTo(g, m, h)
      BY <3>5, <3>6, Zenon DEF MergesTo
    <3> QED BY <2>3, <3>7, Zenon
  <2> QED BY <2>4, <2>5
<1> QED BY <1>1, Zenon

(* MergeSolution: mergeToMesh takes the last value of a solution.          *)
LEMMA MergeSolution ==
  ASSUME NEW g, NEW n \in Nat
  PROVE  \E f : MergesTo(g, n, f) /\ mergeToMesh(g, n) = f[n]
<1> DEFINE Rec(f) == [k \in 0..n |-> IF k = 0 THEN NoMerges ELSE mergeGeometry(f[k - 1], g, k)]
           F == CHOOSE f : f = Rec(f)
<1>1. mergeToMesh(g, n) = F[n]
  BY Zenon DEF mergeToMesh, NoMerges
<1>2. PICK f : MergesTo(g, n, f)
  BY MergesExist
<1>3. f = Rec(f)
  BY <1>2, Zenon DEF MergesTo
<1> HIDE DEF Rec
<1>4. F = Rec(F)
  BY <1>3, Zenon
<1> HIDE DEF F
<1>5. MergesTo(g, n, F)
  BY <1>4, Zenon DEF MergesTo, Rec
<1> QED BY <1>1, <1>5, Zenon

(* The faces of the build items up to k.                                   *)
ItemsTo(g, k) == [i \in 1..k |-> FacesOfItem(g, i)]

(* OneItemMore: the faces of k build items are those of k - 1 and of one.  *)
LEMMA OneItemMore ==
  ASSUME NEW g \in Geometries, checkSanity(g), NEW k \in Nat, k # 0
  PROVE  /\ ItemsTo(g, k - 1) \in Seq(Seq(Facet)) /\ FacesOfItem(g, k) \in Seq(Facet)
         /\ ItemsTo(g, k) = Append(ItemsTo(g, k - 1), FacesOfItem(g, k))
<1> DEFINE s == ItemsTo(g, k - 1)
           t == ItemsTo(g, k)
           e == FacesOfItem(g, k)
<1>1. \A i \in Nat : FacesOfItem(g, i) \in Seq(Facet)
  BY ItemFaces
<1>2. k - 1 \in Nat /\ e \in Seq(Facet)
  BY <1>1
<1>3. s \in Seq(Seq(Facet)) /\ Len(s) = k - 1 /\ \A i \in 1..(k - 1) : s[i] = FacesOfItem(g, i)
  BY <1>1, <1>2 DEF ItemsTo
<1>4. t = [i \in 1..k |-> t[i]] /\ \A i \in 1..k : t[i] = FacesOfItem(g, i)
  BY DEF ItemsTo
<1> HIDE DEF s, t, e
<1>5. (k - 1) + 1 = k /\ k \in 1..k /\ \A i \in 1..(k - 1) : i \in 1..k
  OBVIOUS
<1>6. Extends(t, s, e)
  BY <1>3, <1>4, <1>5, Zenon DEF e, Extends
<1>7. t = Append(s, e)
  BY <1>2, <1>3, <1>6, IsAppend
<1> QED BY <1>2, <1>3, <1>7 DEF s, t, e

(* MergedItems: the facets of the merged mesh are the faces of the build   *)
(* items, one item after another.                                          *)
LEMMA MergedItems ==
  ASSUME NEW g \in Geometries, checkSanity(g), g.nodes > 0, NEW n \in Nat
  PROVE  exportMeshEx(mergeToMesh(g, n)) = FlattenSeq(ItemsTo(g, n))
<1>1. PICK f : MergesTo(g, n, f) /\ mergeToMesh(g, n) = f[n]
  BY MergeSolution
<1>2. \A k \in 0..n : f[k] = IF k = 0 THEN NoMerges ELSE mergeGeometry(f[k - 1], g, k)
  BY <1>1, Zenon DEF MergesTo
<1> DEFINE C(k) == Exportable(f[k]) /\ exportMeshEx(f[k]) = FlattenSeq(ItemsTo(g, k))
           T == {k \in 0..n : ~C(k)}
<1>3. ASSUME T # {} PROVE FALSE
  <2>1. T \subseteq Nat
    OBVIOUS
  <2> HIDE DEF T
  <2>2. PICK m \in T : \A k \in T : m <= k
    BY <1>3, <2>1, NatMin
  <2>3. m \in 0..n /\ ~C(m)
    BY <2>2, Zenon DEF T
  <2>4. CASE m = 0
    <3>1. f[m] = NoMerges
      BY <1>2, <2>3, <2>4, Zenon
    <3>2. Exportable(NoMerges) /\ exportMeshEx(NoMerges) = <<>>
      BY DEF Exportable, exportMeshEx, NoMerges
    <3>3. ItemsTo(g, 0) = <<>> /\ FlattenSeq(<<>>) = <<>>
      BY DEF ItemsTo, FlattenSeq
    <3> QED BY <2>3, <2>4, <3>1, <3>2, <3>3, Zenon
  <2>5. CASE m # 0
    <3>1. m - 1 \in 0..n /\ m - 1 \notin T /\ m \in Nat
      BY <2>2, <2>3, <2>5
    <3>2. Exportable(f[m - 1]) /\ exportMeshEx(f[m - 1]) = FlattenSeq(ItemsTo(g, m - 1))
      BY <3>1, Zenon DEF T
    <3>3. f[m] = mergeGeometry(f[m - 1], g, m)
      BY <1>2, <2>3, <2>5, Zenon
    <3>4. Exportable(f[m]) /\ exportMeshEx(f[m]) = exportMeshEx(f[m - 1]) \o FacesOfItem(g, m)
      BY <3>1, <3>2, <3>3, MergeOnce
    <3>5. FlattenSeq(ItemsTo(g, m)) = FlattenSeq(ItemsTo(g, m - 1)) \o FacesOfItem(g, m)
      <4>1. /\ ItemsTo(g, m - 1) \in Seq(Seq(Facet)) /\ FacesOfItem(g, m) \in Seq(Facet)
            /\ ItemsTo(g, m) = Append(ItemsTo(g, m - 1), FacesOfItem(g, m))
        BY <2>5, <3>1, OneItemMore
      <4> QED BY <4>1, FlattenAppend
    <3> QED BY <2>3, <3>2, <3>4, <3>5, Zenon
  <2> QED BY <2>4, <2>5
<1>4. n \in 0..n
  OBVIOUS
<1>5. C(n)
  BY <1>3, <1>4, Zenon
<1> QED BY <1>1, <1>5, Zenon

(* An export that did not throw is of the mesh as it still is.             *)
StlIsCurrent ==
  stl.items > 0 /\ ~stl.threw =>
    /\ stl.items \in Nat /\ ~mergeThrows(geometry)
    /\ stl.facets = exportMeshEx(mergeToMesh(geometry, stl.items))

(* StlStep: an export writes the mesh, and every edit forgets the export.  *)
LEMMA StlStep == StlIsCurrent /\ [GeometryNext]_geometryVars => StlIsCurrent'
<1> SUFFICES ASSUME StlIsCurrent, [GeometryNext]_geometryVars PROVE StlIsCurrent'
  OBVIOUS
<1>1. CASE stl' = NotExported
  BY <1>1 DEF StlIsCurrent, NotExported
<1>2. CASE ExportSTL
  <2>1. geometry' = geometry
    BY <1>2 DEF ExportSTL
  <2>2. CASE mergeThrows(geometry)
    <3>1. stl'.threw = TRUE
      BY <1>2, <2>2 DEF ExportSTL
    <3> QED BY <3>1 DEF StlIsCurrent
  <2>3. CASE ~mergeThrows(geometry)
    <3>1. stl' = [items |-> ItemCount, threw |-> FALSE,
                  facets |-> exportMeshEx(mergeToMesh(geometry, ItemCount))]
      BY <1>2, <2>3 DEF ExportSTL
    <3>2. stl'.items = ItemCount /\ stl'.facets = exportMeshEx(mergeToMesh(geometry, ItemCount))
      BY <3>1
    <3> HIDE DEF mergeThrows
    <3>3. ~mergeThrows(geometry') /\ stl'.facets = exportMeshEx(mergeToMesh(geometry', stl'.items))
      BY <2>1, <2>3, <3>2
    <3> QED BY <3>2, <3>3, GeometryAssumption DEF StlIsCurrent
  <2> QED BY <2>2, <2>3
<1>3. CASE UNCHANGED geometryVars
  BY <1>3 DEF StlIsCurrent, geometryVars
<1>4. GeometryNext => ExportSTL \/ stl' = NotExported
  BY DEF GeometryNext, AddVertex, AddFace, SetTriangle, SetNodesAndFaces, SetType, AddBeam, SetBeam,
         SetBeams, AddBeamSet, SetReferences, Edit
<1> QED BY <1>1, <1>2, <1>3, <1>4

(* FacetsCorrect: an STL file has the faces of the mesh once for every     *)
(* build item, in order and each with the positions of its own item, for   *)
(* any mesh and any number of build items.                                 *)
THEOREM FacetsCorrect == GeometrySpec => []FacetsAreTheFaces
<1>1. GeometryInit => StlIsCurrent
  BY DEF GeometryInit, StlIsCurrent, NotExported
<1>2. GeometryInv /\ StlIsCurrent => FacetsAreTheFaces
  <2> SUFFICES ASSUME GeometryInv, StlIsCurrent, stl.items > 0, ~stl.threw, geometry.nodes > 0
               PROVE  stl.facets = FlattenSeq(ItemsTo(geometry, stl.items))
    BY Zenon DEF FacetsAreTheFaces, ItemsTo, FacesOfItem
  <2>1. geometry \in Geometries
    BY DEF GeometryInv, GeometryType
  <2>2. checkSanity(geometry) /\ stl.items \in Nat
    BY DEF StlIsCurrent, mergeThrows
  <2>3. stl.facets = exportMeshEx(mergeToMesh(geometry, stl.items))
    BY DEF StlIsCurrent
  <2> QED BY <2>1, <2>2, <2>3, MergedItems
<1> QED BY <1>1, <1>2, GeometryStart, GeometryStep, StlStep, PTL DEF GeometrySpec

-----------------------------------------------------------------------------
(* The parts together. *)

(* PartsAreTheComponents: a behaviour of ModelParts is, of each part, a    *)
(* behaviour of the part's own specification: no operation on another part *)
(* changes it.                                                             *)
LEMMA PartsAreTheComponents ==
  Spec => /\ MetaDataSpec /\ UUIDSpec /\ AttachmentsSpec /\ ObjectOrderSpec
          /\ SliceStackSpec /\ MeshesSpec /\ GeometrySpec /\ ToolpathSpec
<1>1. Init => /\ MetaDataInit /\ UUIDInit /\ AttachmentsInit /\ ObjectOrderInit
              /\ SliceStackInit /\ MeshesInit /\ GeometryInit /\ ToolpathInit
  BY DEF Init
<1>2. [Next]_partVars => [MetaDataNext]_metaDataVars
  BY DEF Next, partVars
<1>3. [Next]_partVars => [UUIDNext]_uuidVars
  BY DEF Next, partVars
<1>4. [Next]_partVars => [AttachmentsNext]_attachmentVars
  BY DEF Next, partVars
<1>5. [Next]_partVars => [SliceStackNext]_sliceStackVars
  BY DEF Next, partVars
<1>6. [Next]_partVars => [GeometryNext]_geometryVars
  BY DEF Next, partVars
<1>7. [Next]_partVars => [ToolpathNext]_toolpathVars
  BY DEF Next, partVars
<1>8. [Next]_partVars => [MeshesNext]_meshVars
  BY DEF Next, partVars
<1>9. [Next]_partVars => [ObjectOrderNext]_objectOrderVars
  BY DEF Next, partVars
<1> QED
  BY <1>1, <1>2, <1>3, <1>4, <1>5, <1>6, <1>7, <1>8, <1>9, PTL
  DEF Spec, MeshesSpec, MetaDataSpec, UUIDSpec, AttachmentsSpec, ObjectOrderSpec, SliceStackSpec,
      GeometrySpec, ToolpathSpec

(* PartsCorrect: what the theorems above say of each part holds of all of  *)
(* them in every behaviour of ModelParts.                                  *)
THEOREM PartsCorrect ==
  Spec => /\ [](/\ DistinctUnlessRenamed /\ RegistryIsExact /\ MapAndListAgree
                /\ ComponentsAreWrittenFirst /\ ReferencesAreOrdered
                /\ MergedMeshIsTheSources /\ LatticeIsSane /\ ManifoldIsClosed
                /\ FacetsAreTheFaces /\ ListedLayersHaveTheirParts)
          /\ OthersStayAttached
BY PartsAreTheComponents, MetaDataCorrect, UUIDsCorrect, AttachmentsCorrect, AttachmentsStay,
   ObjectOrderCorrect, SlicesCorrect, MeshesCorrect, LatticeCorrect, ManifoldCorrect,
   FacetsCorrect, ToolpathCorrect, PTL
=============================================================================
