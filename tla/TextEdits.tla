------------------------------ MODULE TextEdits ------------------------------
(***************************************************************************)
(* The texts of open documents: src/src/workspace/text_position.cpp and    *)
(* document_store.cpp.  A text is a sequence of bytes: "a", a line break   *)
(* "\r" or "\n", the first byte "2" or "4" of a sequence of so many bytes, *)
(* or a byte "c" that continues one.  Offsets count bytes, from 1;         *)
(* positions count lines and, in a line, UTF-16 units, both from 0.        *)
(* An operation that throws has the result {}.                             *)
(***************************************************************************)
EXTENDS Integers, Sequences, FiniteSets, SequencesExt

Breaks == {"\r", "\n"}
Bytes(first) == CASE first = "2" -> 2 [] first = "4" -> 4 [] OTHER -> 1

\* A sequence of four bytes is above U+FFFF.
\* Fault: a sequence of bytes is a unit.
OneUnit(first) == 1
Units(first) == IF first = "4" THEN 2 ELSE 1

-----------------------------------------------------------------------------
(* text_position.cpp                                                       *)

Starts(text) == {o \in DOMAIN text : text[o] # "c"}

\* Every first byte is followed by the bytes that continue it, and no others.
WellFormed(text) ==
  /\ text = <<>> \/ text[1] # "c"
  /\ \A o \in Starts(text) :
       LET next == o + Bytes(text[o])
       IN /\ next <= Len(text) + 1
          /\ \A i \in o + 1 .. next - 1 : text[i] = "c"
          /\ next > Len(text) \/ text[next] # "c"

\* The offsets after line breaks; the two bytes of a CRLF are one.
LineStarts(text) ==
  {1} \cup {o + 1 : o \in {b \in DOMAIN text :
    text[b] = "\n" \/ (text[b] = "\r" /\ ~(b < Len(text) /\ text[b + 1] = "\n"))}}

\* The offsets of the start and of the end of a line, if there is the line.
LineBounds(text, line) ==
  LET starts == {s \in LineStarts(text) : Cardinality({t \in LineStarts(text) : t < s}) = line}
      end(start) == CHOOSE e \in start .. Len(text) + 1 :
                      /\ e = Len(text) + 1 \/ text[e] \in Breaks
                      /\ \A o \in start .. e - 1 : text[o] \notin Breaks
  IN {[start |-> s, end |-> end(s)] : s \in starts}

UnitsBetween(text, start, end) ==
  FoldLeft(LAMBDA units, byte : units + (IF byte = "c" THEN 0 ELSE Units(byte)), 0,
           SubSeq(text, start, end - 1))

\* Nowhere when the position is outside the line or between two units.
Utf8OffsetAt(text, position) ==
  IF ~WellFormed(text) THEN {}
  ELSE UNION {{o \in line.start .. line.end :
                 /\ o = line.end \/ text[o] # "c"
                 /\ UnitsBetween(text, line.start, o) = position.character} :
              line \in LineBounds(text, position.line)}

\* Nowhere when the offset is within a sequence or a line break.
LspPositionAt(text, offset) ==
  LET before == {s \in LineStarts(text) : s <= offset}
      start == CHOOSE s \in before : \A t \in before : t <= s
      splits == /\ offset <= Len(text)
                /\ \/ text[offset] = "c"
                   \/ text[offset] = "\n" /\ offset > 1 /\ text[offset - 1] = "\r"
  IN IF ~WellFormed(text) \/ offset > Len(text) + 1 \/ splits THEN {}
     ELSE {[line |-> Cardinality(before) - 1, character |-> UnitsBetween(text, start, offset)]}

Utf16Length(text) == IF WellFormed(text) THEN {UnitsBetween(text, 1, Len(text) + 1)} ELSE {}

-----------------------------------------------------------------------------
(* document_store.cpp.  A document is [text, version, open, dirty] or, when*)
(* the store has none, absent: {}.  A change is [range: a set of at most   *)
(* one [start, end], rangeLength: a set of at most one number, text].      *)

DidOpen(document, version, text) ==
  IF ~WellFormed(text) \/ \E d \in document : d.open THEN {}
  ELSE {[text |-> text, version |-> version, open |-> TRUE, dirty |-> FALSE]}

\* The text after a change of a range.
Replaced(text, change, range) ==
  {SubSeq(text, 1, offsets[1] - 1) \o change.text \o SubSeq(text, offsets[2], Len(text)) :
     offsets \in {o \in Utf8OffsetAt(text, range.start) \X Utf8OffsetAt(text, range.end) :
       /\ o[1] <= o[2]
       /\ change.rangeLength \subseteq Utf16Length(SubSeq(text, o[1], o[2] - 1))
       /\ WellFormed(change.text)}}

Changed(text, change) ==
  IF change.range = {}
  THEN IF change.rangeLength # {} \/ ~WellFormed(change.text) THEN {} ELSE {change.text}
  ELSE UNION {Replaced(text, change, range) : range \in change.range}

\* All of the changes, each of the text that the ones before it leave, or none.
DidChange(document, version, changes) ==
  {[d EXCEPT !.text = text, !.version = version, !.dirty = TRUE] :
     <<d, text>> \in UNION {
       {<<d, t>> : t \in FoldLeft(LAMBDA texts, c : UNION {Changed(u, c) : u \in texts},
                                  {d.text}, changes)} :
       d \in {e \in document : e.open /\ version > e.version}}}

DidClose(document) == {[d EXCEPT !.open = FALSE, !.dirty = FALSE] : d \in {e \in document : e.open}}

\* The text is that of the notification, if it has one.
DidSave(document, text) ==
  {[d EXCEPT !.text = IF text = {} THEN @ ELSE CHOOSE t \in text : TRUE, !.dirty = FALSE] :
     d \in {e \in document : e.open /\ \A t \in text : WellFormed(t)}}

Notified(document, n) ==
  CASE n.method = "didOpen" -> DidOpen(document, n.version, n.text)
    [] n.method = "didChange" -> DidChange(document, n.version, n.changes)
    [] n.method = "didClose" -> DidClose(document)
    [] n.method = "didSave" -> DidSave(document, n.saved)
\* A notification that is refused changes nothing.
Store(document, n) == IF Notified(document, n) = {} THEN document ELSE Notified(document, n)

-----------------------------------------------------------------------------
(* The same text in an editor, a sequence of UTF-16 units.                 *)

Utf16(text) ==
  FlattenSeq([i \in DOMAIN text |->
    CASE text[i] = "c" -> <<>> [] text[i] = "2" -> <<"wide">>
      [] text[i] = "4" -> <<"high", "low">> [] OTHER -> <<text[i]>>])

\* The place of every unit, and of the end: the line, the character, and
\* whether the place is within a line break or a pair.
Places(units) ==
  FoldLeft(
    LAMBDA places, i :
      LET last == Last(places)
          next == IF i < Len(units) THEN units[i + 1] ELSE "end"
          crlf == units[i] = "\r" /\ next = "\n"
      IN Append(places,
           IF units[i] \in Breaks /\ ~crlf THEN [line |-> last.line + 1, character |-> 0, in |-> FALSE]
           ELSE [line |-> last.line, character |-> last.character + 1,
                 in |-> crlf \/ (units[i] = "high" /\ next = "low")]),
    <<[line |-> 0, character |-> 0, in |-> FALSE]>>, [i \in DOMAIN units |-> i])

PlacesAt(units, position) ==
  {i \in DOMAIN Places(units) :
     ~Places(units)[i].in /\ Places(units)[i].line = position.line
     /\ Places(units)[i].character = position.character}

\* What an editor that can make a change has after it.
Edited(units, change) ==
  IF change.range = {} THEN {Utf16(change.text)}
  ELSE UNION {{SubSeq(units, 1, p[1] - 1) \o Utf16(change.text) \o SubSeq(units, p[2], Len(units)) :
                 p \in {q \in PlacesAt(units, r.start) \X PlacesAt(units, r.end) :
                          q[1] <= q[2] /\ change.rangeLength \subseteq {q[2] - q[1]}}} :
              r \in change.range}

\* What an editor has open, [units, version], after a notification it may send.
EditorAfter(editor, n) ==
  LET readable == n.method = "didChange" =>
                    \A i \in DOMAIN n.changes :
                      /\ WellFormed(n.changes[i].text)
                      /\ n.changes[i].range = {} => n.changes[i].rangeLength = {}
      edited(e) == IF ~readable \/ n.version <= e.version THEN {}
                   ELSE FoldLeft(LAMBDA texts, c : UNION {Edited(t, c) : t \in texts},
                                 {e.units}, n.changes)
  IN CASE n.method = "didOpen" ->
            IF editor # {} \/ ~WellFormed(n.text) THEN editor
            ELSE {[units |-> Utf16(n.text), version |-> n.version]}
       [] n.method = "didChange" ->
            UNION {IF edited(e) = {} THEN {e}
                   ELSE {[units |-> u, version |-> n.version] : u \in edited(e)} : e \in editor}
       [] n.method = "didClose" -> {}
       [] n.method = "didSave" ->
            {IF n.saved = {} \/ \E t \in n.saved : ~WellFormed(t) THEN e
             ELSE [e EXCEPT !.units = Utf16(CHOOSE t \in n.saved : TRUE)] : e \in editor}

\* After any notifications the store has open what the editor has open: a change
\* is made whole, as the editor makes it, or not at all.
StoreFollows(notifications) ==
  LET stored == FoldLeft(Store, {}, notifications)
      editor == FoldLeft(EditorAfter, {}, notifications)
  IN {[units |-> Utf16(d.text), version |-> d.version] : d \in {e \in stored : e.open}} = editor

\* The offset of a position is the offset that has this position.
PositionsRoundTrip(text) ==
  /\ \A o \in 1 .. Len(text) + 1 : \A p \in LspPositionAt(text, o) : Utf8OffsetAt(text, p) = {o}
  /\ \A i \in DOMAIN Places(Utf16(text)) :
       LET place == Places(Utf16(text))[i]
       IN WellFormed(text) /\ ~place.in =>
            \E o \in Utf8OffsetAt(text, place) : UnitsBetween(text, 1, o) = i - 1

=============================================================================
