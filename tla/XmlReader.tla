----------------------------- MODULE XmlReader -----------------------------
(***************************************************************************)
(* CXmlReader_Native: the XML reader of every part.  It fills a buffer     *)
(* from the stream, cuts it into entities (names, attribute names and      *)
(* values, texts, ends), and hands them out one after another.  What is    *)
(* left of the buffer after the last whole entity is copied to the front   *)
(* of the next buffer and parsed again.  Strings are pointers into the     *)
(* buffer; they end where the parser writes a zero over a delimiter.       *)
(*                                                                         *)
(* Characters are classes: "a" stands for any character without a meaning  *)
(* of its own, " " for white space, "q" for either quote.  Prefixes and    *)
(* escapes, which never cross a delimiter, are left out.                   *)
(***************************************************************************)
EXTENDS Naturals, Sequences, SequencesExt

CONSTANTS Documents,   \* the texts read
          Capacities   \* sizes of the buffer, less its margin

ASSUME CapacityAssumption == Capacities \subseteq Nat \ {0}

VARIABLES doc,       \* the text
          capacity,  \* cbBufferCapacity - NMR_NATIVEXMLREADER_BUFFERMARGIN
          base,      \* first character in the buffer
          fed,       \* characters taken from the stream
          parsed,    \* the parser's result for the buffer
          index,     \* m_nCurrentEntityIndex: entities handed out of it
          out,       \* every entity handed out
          outcome    \* "reading", "eof" (m_bIsEOF) or "failed"

vars == <<doc, capacity, base, fed, parsed, index, out, outcome>>

-----------------------------------------------------------------------------
(* The parser: one state for each parse function.  start is pszStart, had  *)
(* is bHadSpacing, dashes is endPosition in a comment, skip counts the     *)
(* characters to pass over.  entities holds what was pushed, the first     *)
(* `full` of them finished; zeros are written, pending ones wait for the   *)
(* entity to be finished; next is the character after the last finished    *)
(* entity (m_pCurrentEntityPointer), 0 if there is none.                   *)

ParserAt(i) ==
  [mode |-> "text", start |-> i, had |-> FALSE, dashes |-> 0, skip |-> 0,
   entities |-> <<>>, full |-> 0, zeros |-> {}, pending |-> {}, next |-> 0]

Throw(p) == [p EXCEPT !.mode = "throw"]
Go(p, mode, i) ==
  [p EXCEPT !.mode = mode, !.start = i, !.had = FALSE, !.dashes = 0, !.skip = 0]

pushZeroInsert(p, i) == [p EXCEPT !.pending = @ \cup {i}]

\* Mutant of performZeroInserts: only the last delimiter is overwritten.
performLastZeroInsert(p) ==
  [p EXCEPT !.zeros = @ \cup {i \in p.pending : \A k \in p.pending : k <= i}, !.pending = {}]

performZeroInserts(p) == [p EXCEPT !.zeros = @ \cup p.pending, !.pending = {}]

(* An entity from p.start up to a delimiter.                               *)
pushEntity(p, type, to, next, finished) ==
  LET q == [p EXCEPT !.entities = Append(@, [type |-> type, from |-> p.start, to |-> to])]
  IN  IF ~finished THEN q
      ELSE [performZeroInserts(q) EXCEPT !.full = Len(q.entities), !.next = next]

(* The push functions of a name that a delimiter ends.                     *)
Unfinished(p, type, i) == pushZeroInsert(pushEntity(p, type, i, i, FALSE), i)
Finished(p, type, i) == pushEntity(pushZeroInsert(p, i), type, i, i + 1, TRUE)

OpensComment(i, end) == i + 3 <= end /\ SubSeq(doc, i, i + 3) = <<"<", "!", "-", "-">>

(* A comment drops the text before it.  A text is finished by the "<"      *)
(* after it, whose zero is written with the next finished entity.          *)
parseText(p, i, end) ==
  IF doc[i] # "<" THEN p
  ELSE IF OpensComment(i, end) THEN [Go(p, "comment", i) EXCEPT !.skip = 3]
  ELSE LET q == IF i = p.start THEN p ELSE pushEntity(p, "text", i, i, TRUE)
       IN  Go(pushZeroInsert(q, i), "element", i + 1)

(* The comment ends at its ">", which begins the next text.                *)
parseComment(p, i) ==
  IF p.skip > 0 THEN [p EXCEPT !.skip = @ - 1]
  ELSE IF p.dashes = 2 /\ doc[i] = ">" THEN Go(p, "text", i)
  ELSE [p EXCEPT !.dashes = IF doc[i] # "-" THEN 0 ELSE IF @ = 2 THEN 2 ELSE @ + 1]

parseElement(p, i) ==
  CASE doc[i] = " " ->
         IF i = p.start THEN Throw(p) ELSE Go(Unfinished(p, "element", i), "attributes", i + 1)
    [] doc[i] = "?" -> IF i # p.start THEN Throw(p) ELSE Go(p, "instruction", i + 1)
    [] doc[i] = ">" -> Go(Finished(p, "element", i), "text", i + 1)
    [] doc[i] = "/" ->
         IF i = p.start THEN Go(p, "end", i + 1)
         ELSE Go(Unfinished(p, "element", i), "close", i + 1)
    [] OTHER -> p

parseProcessingInstruction(p, i) ==
  CASE doc[i] = "/" \/ (doc[i] \in {" ", "?"} /\ i = p.start) -> Throw(p)
    [] doc[i] = " " /\ i # p.start -> Go(Unfinished(p, "instruction", i), "attributes", i + 1)
    [] doc[i] = "?" /\ i # p.start -> Go(Unfinished(p, "instruction", i), "closeInstruction", i + 1)
    [] OTHER -> p

(* parseCloseElement and parseCloseProcessingInstruction.                  *)
parseClose(p, type, i) ==
  IF doc[i] # ">" THEN Throw(p) ELSE Go(Finished(p, type, i), "text", i + 1)

parseEndElement(p, i) ==
  CASE doc[i] \in {"/", "?"} \/ (doc[i] = ">" /\ i = p.start) -> Throw(p)
    [] doc[i] = ">" /\ i # p.start -> Go(Finished(p, "end", i), "text", i + 1)
    [] OTHER -> p

(* White space after the name pushes the name, each character of it; the   *)
(* "=" after white space is left to parseAttributeValue.                   *)
parseAttributeName(p, i) ==
  CASE doc[i] = " " -> [Unfinished(p, "name", i) EXCEPT !.had = TRUE]
    [] doc[i] = "q" -> Throw(p)
    [] doc[i] = "=" -> IF p.had THEN Go(p, "value", i) ELSE Go(Unfinished(p, "name", i), "value", i + 1)
    [] OTHER -> IF p.had THEN Throw(p) ELSE p

(* skipSpaces passes over one space at the start; anything before the      *)
(* quote is passed over unless it follows white space.                     *)
parseAttributeValue(p, i) ==
  CASE doc[i] = " " -> [p EXCEPT !.had = i # p.start]
    [] doc[i] = "q" -> Go(p, "quoted", i + 1)
    [] OTHER -> IF p.had THEN Throw(p) ELSE p

parseAttributeValueQuote(p, i) ==
  IF doc[i] = "q" THEN Go(pushEntity(pushZeroInsert(p, i), "value", i, i + 1, FALSE), "attributes", i + 1)
  ELSE p

(* The ">" of an element with attributes does not finish it: the next      *)
(* finished entity does.                                                   *)
parseAttributes(p, i) ==
  CASE doc[i] = " " -> p
    [] doc[i] = ">" -> Go(p, "text", i + 1)
    [] doc[i] = "/" -> Go(p, "close", i + 1)
    [] doc[i] = "?" -> Go(p, "closeInstruction", i + 1)
    [] OTHER -> parseAttributeName(Go(p, "name", i), i)

parseChar(p, i, end) ==
  CASE p.mode = "throw" -> p
    [] p.mode = "text" -> parseText(p, i, end)
    [] p.mode = "comment" -> parseComment(p, i)
    [] p.mode = "element" -> parseElement(p, i)
    [] p.mode = "instruction" -> parseProcessingInstruction(p, i)
    [] p.mode = "close" -> parseClose(p, "close", i)
    [] p.mode = "closeInstruction" -> parseClose(p, "endInstruction", i)
    [] p.mode = "end" -> parseEndElement(p, i)
    [] p.mode = "attributes" -> parseAttributes(p, i)
    [] p.mode = "name" -> parseAttributeName(p, i)
    [] p.mode = "value" -> parseAttributeValue(p, i)
    [] p.mode = "quoted" -> parseAttributeValueQuote(p, i)

(* parseUnknown, for the characters from..end.  The set makes TLC compute  *)
(* each state of the parser once.                                          *)
parseUnknown(from, end) ==
  FoldLeft(LAMBDA p, i : CHOOSE r \in {parseChar(q, i, end) : q \in {p}} : TRUE, ParserAt(from),
           [k \in 1..(end + 1 - from) |-> from + k - 1])

-----------------------------------------------------------------------------
(* Reading. *)

(* The string a pointer to character i is: it ends at the first zero in    *)
(* the buffer; without one it goes on beyond the buffer's end.             *)
Beyond == 0
StringEnd(p, i) ==
  IF \E z \in p.zeros : z >= i THEN CHOOSE z \in p.zeros : z >= i /\ \A y \in p.zeros : y >= i => z <= y
  ELSE Beyond

\* Mutant of OverflowSize: nothing is kept of any buffer.
NoOverflow == 0

(* m_cbCurrentOverflowSize: nothing is kept of a buffer in which no entity *)
(* is finished.                                                            *)
OverflowSize == IF parsed.next = 0 THEN 0 ELSE fed + 1 - parsed.next

Lower(m, n) == IF m < n THEN m ELSE n

\* Mutant of OutcomeOf: a buffer without a finished entity is not the end.
OutcomeUnlessEmpty(p) == IF p.mode = "throw" THEN "failed" ELSE "reading"

(* ensureFilledBuffer: an exception of the parser leaves the reader, and a *)
(* buffer without a finished entity is the end of the text.                *)
OutcomeOf(p) ==
  IF p.mode = "throw" THEN "failed" ELSE IF p.full = 0 THEN "eof" ELSE "reading"

(* When Read or MoveToNextAttribute has used up the buffer.                *)
readNextBufferFromStream ==
  /\ outcome = "reading" /\ index >= parsed.full
  /\ base' = fed + 1 - OverflowSize
  /\ fed' = fed + Lower(capacity - OverflowSize, Len(doc) - fed)
  /\ parsed' = parseUnknown(base', fed')
  /\ index' = 0
  /\ outcome' = OutcomeOf(parsed')
  /\ UNCHANGED <<doc, capacity, out>>

(* Hands out the next entity; the value of an attribute, which             *)
(* MoveToNextAttribute hands out with its name, too.                       *)
Read ==
  /\ outcome = "reading" /\ index < parsed.full
  /\ LET e == parsed.entities[index + 1]
     IN  /\ e.type # "name"
         /\ out' = Append(out, [e EXCEPT !.to = StringEnd(parsed, e.from)])
  /\ index' = index + 1
  /\ UNCHANGED <<doc, capacity, base, fed, parsed, outcome>>

(* A name, which a value must follow.                                      *)
MoveToNextAttribute ==
  /\ outcome = "reading" /\ index < parsed.full
  /\ LET e == parsed.entities[index + 1]
     IN  /\ e.type = "name"
         /\ out' = Append(out, [e EXCEPT !.to = StringEnd(parsed, e.from)])
         /\ outcome' = IF index + 2 <= parsed.full /\ parsed.entities[index + 2].type = "value"
                       THEN outcome ELSE "failed"
  /\ index' = index + 1
  /\ UNCHANGED <<doc, capacity, base, fed, parsed>>

Init ==
  /\ doc \in Documents /\ capacity \in Capacities
  /\ base = 1 /\ fed = 0 /\ parsed = ParserAt(1) /\ index = 0
  /\ out = <<>> /\ outcome = "reading"

Next == readNextBufferFromStream \/ Read \/ MoveToNextAttribute

Spec == Init /\ [][Next]_vars

-----------------------------------------------------------------------------
(* Properties. *)

(* What a buffer that holds the whole text gives.                          *)
Whole == parseUnknown(1, Len(doc))

Stopped == outcome # "reading"

Kind(e) == <<e.type, e.from>>
BeforeComment(e) == e.type = "text" /\ \E i \in e.from..Len(doc) :
                      OpensComment(i, Len(doc)) /\ \A k \in e.from..(i - 1) : doc[k] # "<"
Known == SelectSeq(out, LAMBDA e : ~BeforeComment(e))

(* EntitiesDoNotDependOnTheBuffer: whatever the size of the buffer, and    *)
(* wherever it cuts the text, the entities handed out are those of the     *)
(* text, in order.  One text may be more: that before a comment, which is  *)
(* dropped unless the buffer cuts the comment's opening.                   *)
EntitiesDoNotDependOnTheBuffer ==
  Stopped => \A w \in {Whole.entities} :
    IsPrefix([k \in DOMAIN Known |-> Kind(Known[k])], [k \in DOMAIN w |-> Kind(w[k])])

(* StringsEndAtTheirDelimiter: a string handed out ends at its delimiter;  *)
(* only a text may instead go on beyond the end of the buffer.             *)
StringsEndAtTheirDelimiter ==
  Stopped => \A w \in {Whole.entities} : \A e \in ToSet(out) :
    \/ e \in ToSet(w) \/ BeforeComment(e)
    \/ e.type = "text" /\ e.to = Beyond

(* StringsAreTerminated: every string handed out ends at its delimiter:    *)
(* pushEntity says it inserts all zeros of an entity it finishes.          *)
StringsAreTerminated == \A k \in DOMAIN out : out[k].to # Beyond

(* TheEndIsReached: the reader says the text has ended when it has handed  *)
(* out all of it, or when a full buffer held no whole entity: an entity    *)
(* longer than the buffer ends the reading without an error.               *)
TheEndIsReached ==
  outcome = "eof" =>
    \/ Len(Known) >= Whole.full
    \/ fed + 1 - base = capacity /\ parsed.full = 0
=============================================================================
