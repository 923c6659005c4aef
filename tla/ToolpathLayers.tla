--------------------------- MODULE ToolpathLayers ---------------------------
(***************************************************************************)
(* Writing the layers of a toolpath: CModelToolpath::addLayer lists a      *)
(* layer in the model, a CModelToolpathLayerWriteData collects its data:   *)
(* first a header with the registered profiles and parts, then segments,   *)
(* in the text or in a binary stream, which layers may share.              *)
(* finishWriting hands the text to the writer, whose exports write it as a *)
(* part of the package and finish the streams.                             *)
(***************************************************************************)
EXTENDS Naturals, Sequences

CONSTANTS LayerPaths,     \* paths a client gives its layers
          Streams,        \* binary streams of the writer, assigned to layers only
          MaxToolLayers,  \* bound: layers
          MaxRegistered,  \* bound: profiles and parts registered for a layer
          MaxSegments,    \* bound: segments of a layer
          MaxExports      \* bound: exports of the model

VARIABLES layers,      \* the layers of the model, each with its data object
          handed,      \* m_AdditionalAttachments: path |-> layer, as finished
          exports,     \* what each export of the writer contained
          streams      \* per stream: empty, used or finished

toolpathVars == <<layers, handed, exports, streams>>

(* A layer.  phase: header, data, finished; ids: registered; next:         *)
(* m_nIDCounter; stream: the assigned one, if any; names: the header names *)
(* it; late: it was assigned after the header; depth: the size of the XML  *)
(* writer's node stack.                                                    *)
NewLayer(path) ==
  [path |-> path, phase |-> "header", ids |-> <<>>, next |-> 1, segments |-> <<>>,
   stream |-> {}, names |-> FALSE, late |-> FALSE, depth |-> 1]

AddLayer ==
  /\ Len(layers) < MaxToolLayers
  /\ \E path \in LayerPaths : layers' = Append(layers, NewLayer(path))
  /\ UNCHANGED <<handed, exports, streams>>

SetLayer(l, value) == layers' = [layers EXCEPT ![l] = value] /\ UNCHANGED <<handed, exports>>

(* RegisterProfile and RegisterPart share the counter.                     *)
Register ==
  \E l \in DOMAIN layers :
    LET data == layers[l]
    IN  /\ data.phase = "header" /\ Len(data.ids) < MaxRegistered
        /\ SetLayer(l, [data EXCEPT !.ids = Append(@, data.next), !.next = @ + 1])
        /\ UNCHANGED streams

(* AssignBinaryStream: the map keeps the first assignment.                 *)
AssignLayerStream ==
  \E l \in DOMAIN layers, s \in Streams :
    /\ layers[l].stream = {}
    /\ SetLayer(l, [layers[l] EXCEPT !.stream = {s}, !.late = layers[l].phase # "header"])
    /\ UNCHANGED streams

finishHeader(data) ==
  IF data.phase # "header" THEN data
  ELSE [data EXCEPT !.phase = "data", !.names = data.stream # {}, !.depth = @ + 1]

Finished(data) == \E s \in data.stream : streams[s] = "finished"

(* WriteHatchData, WriteLoop and WritePolyline: the profile and the part   *)
(* are not looked up.  A segment says where its points are.                *)
WriteSegment ==
  \E l \in DOMAIN layers :
    LET data == finishHeader(layers[l])
    IN  /\ data.phase = "data" /\ Len(data.segments) < MaxSegments
        /\ ~Finished(data)
        /\ SetLayer(l, [data EXCEPT !.segments = Append(@, IF data.stream # {} THEN "stream" ELSE "text")])
        /\ streams' = [s \in Streams |-> IF s \in data.stream THEN "used" ELSE streams[s]]

(* addIntArray throws on a finished stream: the element of the segment has *)
(* been started and stays open, the elements that follow are inside of it. *)
WriteSegmentThrows ==
  \E l \in DOMAIN layers :
    LET data == finishHeader(layers[l])
    IN  /\ data.phase = "data" /\ Len(data.segments) < MaxSegments
        /\ Finished(data)
        /\ SetLayer(l, [data EXCEPT !.segments = Append(@, "half"), !.depth = @ + 1])
        /\ UNCHANGED streams

(* The text of a layer, as createStream copies it: it ends two elements,   *)
(* meant to be the segments and the layer.                                 *)
Text(data) ==
  [ids |-> data.ids, names |-> data.names, segments |-> data.segments, unclosed |-> data.depth - 2]

\* Mutant of addAdditionalAttachment: the last layer of a path is kept.
addLastAttachment(path, data) ==
  [p \in DOMAIN handed \cup {path} |-> IF p = path THEN data ELSE handed[p]]

(* The map keeps the first layer of a path.                                *)
addAdditionalAttachment(path, data) ==
  [p \in DOMAIN handed \cup {path} |-> IF p \in DOMAIN handed THEN handed[p] ELSE data]

(* Finish, and the destructor of a layer that was not finished.            *)
finishWriting(l) ==
  LET data == [finishHeader(layers[l]) EXCEPT !.phase = "finished"]
  IN  /\ layers[l].phase # "finished"
      /\ layers' = [layers EXCEPT ![l] = data]
      /\ handed' = addAdditionalAttachment(data.path, Text(data))
      /\ UNCHANGED <<exports, streams>>

FinishLayer == \E l \in DOMAIN layers : finishWriting(l)

(* WriteToFile: the text of the model lists every layer, the package has   *)
(* the parts handed over so far, and the streams with data are finished.   *)
ExportLayers ==
  /\ Len(exports) < MaxExports /\ layers # <<>>
  /\ exports' = Append(exports, [listed |-> layers, parts |-> handed])
  /\ streams' = [s \in Streams |-> IF streams[s] = "used" THEN "finished" ELSE streams[s]]
  /\ UNCHANGED <<layers, handed>>

ToolpathInit ==
  layers = <<>> /\ handed = <<>> /\ exports = <<>> /\ streams = [s \in Streams |-> "empty"]

ToolpathNext ==
  \/ AddLayer
  \/ Register
  \/ AssignLayerStream
  \/ WriteSegment
  \/ WriteSegmentThrows
  \/ FinishLayer
  \/ ExportLayers

ToolpathSpec == ToolpathInit /\ [][ToolpathNext]_toolpathVars

-----------------------------------------------------------------------------
(* Properties. *)

(* ListedLayersHaveTheirParts: an export has a part for a path the model   *)
(* text lists exactly if some layer of that path was finished before it,   *)
(* later exports have it unchanged, and it is the whole data of one such   *)
(* layer: segments written after Finish never change or extend it.  The    *)
(* points of a segment that are not in the text are in the stream the      *)
(* header names, unless the stream was assigned when the header had been   *)
(* written: that layer names none.  Every element of a part is closed,     *)
(* unless a segment call of its layer threw, and none did so before an     *)
(* export finished the stream: the parts of a first export are closed.     *)
ListedLayersHaveTheirParts ==
  /\ \A e \in DOMAIN exports :
       LET x == exports[e]
           Done(p) == {l \in DOMAIN x.listed : x.listed[l].path = p /\ x.listed[l].phase = "finished"}
       IN  \A l \in DOMAIN x.listed :
             LET p == x.listed[l].path
             IN  /\ p \in DOMAIN x.parts <=> Done(p) # {}
                 /\ p \in DOMAIN x.parts =>
                      /\ x.parts[p] \in {Text(layers[k]) : k \in Done(p)}
                      /\ \A later \in e..Len(exports) : exports[later].parts[p] = x.parts[p]
                      /\ e = 1 => x.parts[p].unclosed = 0
  /\ \A l \in DOMAIN layers :
       LET data == layers[l]
           Halves == {s \in DOMAIN data.segments : data.segments[s] = "half"}
       IN  /\ ~data.late => \A s \in DOMAIN data.segments \ Halves :
                              data.segments[s] = "stream" <=> data.names
           /\ data.phase = "finished" => (Text(data).unclosed = 0 <=> Halves = {})
           /\ Halves # {} => Finished(data)
=============================================================================
