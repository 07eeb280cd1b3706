------------------------------ MODULE CallSites ------------------------------
(***************************************************************************)
(* The two readers of calls in the text of a shader, both in server.cpp:   *)
(* call_context, which finds the call that the cursor is in for signature  *)
(* help, and inlay_call_sites, which finds the arguments of all calls for  *)
(* the names of their parameters.  A text is a sequence of characters; a   *)
(* name that is a keyword before a parenthesis is made of the letter k.    *)
(***************************************************************************)
EXTENDS Integers, Sequences, FiniteSets, SequencesExt

Spaces == {" ", "\n"}
Letters == {"f", "k"}
Keyword == <<"k">>
Openers == [x \in {")", "]", "}", ">"} |->
              CASE x = ")" -> "(" [] x = "]" -> "[" [] x = "}" -> "{" [] x = ">" -> "<"]
None == 0

At(text, i, limit) == IF i <= limit THEN text[i] ELSE ""

-----------------------------------------------------------------------------
(* Comments and literals.                                                  *)

\* One step of reading: the state after the character at offset, the number of
\* characters read, and whether the first is code.
Opened(text, offset, limit) ==
  LET c == text[offset]
      next == At(text, offset + 1, limit)
  IN CASE c = "/" /\ next = "/" -> [state |-> "line_comment", width |-> 2, code |-> FALSE]
       [] c = "/" /\ next = "*" -> [state |-> "block_comment", width |-> 2, code |-> FALSE]
       [] c = "\"" -> [state |-> "string", width |-> 1, code |-> FALSE]
       [] OTHER -> [state |-> "code", width |-> 1, code |-> TRUE]
Lexed(text, offset, state, limit) ==
  LET c == text[offset]
      next == At(text, offset + 1, limit)
  IN CASE state = "code" -> Opened(text, offset, limit)
       [] state = "line_comment" ->
            [state |-> IF c = "\n" THEN "code" ELSE state, width |-> 1, code |-> c = "\n"]
       [] state = "block_comment" ->
            IF c = "*" /\ next = "/" THEN [state |-> "code", width |-> 2, code |-> FALSE]
            ELSE [state |-> state, width |-> 1, code |-> FALSE]
       [] state = "string" ->
            IF c = "\\" /\ next # "" THEN [state |-> state, width |-> 2, code |-> FALSE]
            ELSE [state |-> IF c = "\"" THEN "code" ELSE state, width |-> 1, code |-> FALSE]

\* The offsets up to limit that are code, and the state there.
RECURSIVE LexicalFrom(_, _, _, _, _)
LexicalFrom(text, limit, offset, state, code) ==
  IF offset > limit THEN [code |-> code, state |-> state]
  ELSE LET read == Lexed(text, offset, state, limit)
       IN LexicalFrom(text, limit, offset + read.width, read.state,
                      IF read.code THEN code \cup {offset} ELSE code)
LexicalPrefix(text, limit) == LexicalFrom(text, limit, 1, "code", {})

-----------------------------------------------------------------------------
(* The call that the cursor is in.                                         *)

\* The last offset before this one that is code and no space, or None.
PreviousCodeOffset(text, code, offset) ==
  LET before == {o \in code : o < offset /\ text[o] \notin Spaces}
  IN IF before = {} THEN None ELSE CHOOSE o \in before : \A p \in before : p <= o

\* How deep in angles a text is at each of some offsets.
Depth(text, offsets, from, to) ==
  Cardinality({o \in offsets : from <= o /\ o <= to /\ text[o] = "<"})
    - Cardinality({o \in offsets : from <= o /\ o <= to /\ text[o] = ">"})

\* The angle at open is closed, before what ends an expression, by one that a
\* parenthesis follows.
CloseFollows(text, offsets, open) ==
  LET after == {o \in offsets : o > open}
      closes == {o \in after : text[o] = ">" /\ Depth(text, offsets, open, o) = 0}
      ends == {o \in after : text[o] \in {";", ")", "]", "}"} /\ Depth(text, offsets, open, o) = 1}
      close == CHOOSE o \in closes : \A p \in closes : o <= p
      next == {o \in after : o > close /\ text[o] \notin Spaces}
  IN /\ closes # {} /\ \A o \in ends : o > close
     /\ next # {} /\ text[CHOOSE o \in next : \A p \in next : o <= p] = "("

\* Fault: an angle after a name is taken for the start of template arguments.
AngleAfterName(text, code, offset) ==
  LET previous == PreviousCodeOffset(text, code, offset)
  IN previous # None /\ text[previous] \in Letters \cup {">", "]"}
TemplateOpen(text, code, offset) ==
  LET previous == PreviousCodeOffset(text, code, offset)
  IN /\ previous # None /\ text[previous] \in Letters \cup {">", "]"}
     /\ CloseFollows(text, code, offset)

\* The start of the name that ends here.
NameStart(text, code, end) ==
  CHOOSE start \in 1 .. end :
    /\ \A o \in start .. end : o \in code /\ text[o] \in Letters
    /\ start = 1 \/ start - 1 \notin code \/ text[start - 1] \notin Letters

NameAt(text, code, end) ==
  IF end = None \/ text[end] \notin Letters THEN None
  ELSE LET start == NameStart(text, code, end)
       IN IF SubSeq(text, start, end) = Keyword THEN None ELSE start

\* The name before a parenthesis, or before the angles that are before it.
CalleeAt(text, code, open) ==
  LET previous == PreviousCodeOffset(text, code, open)
      opens == {o \in code : o < previous /\ text[o] = "<" /\ Depth(text, code, o, previous) = 0}
      angle == CHOOSE o \in opens : \A p \in opens : p <= o
  IN IF previous = None THEN None
     ELSE IF text[previous] # ">" THEN NameAt(text, code, previous)
     ELSE IF opens = {} THEN None
     ELSE NameAt(text, code, PreviousCodeOffset(text, code, angle))

Delimiter(value, callee) == [value |-> value, callee |-> callee, parameter |-> 0]

\* What a closing character closes, and all that is open within it.
Closed(delimiters, closing) ==
  LET matching == SelectLastInSeq(delimiters, LAMBDA d : d.value = Openers[closing])
  IN IF matching = 0 THEN delimiters ELSE SubSeq(delimiters, 1, matching - 1)

CountsComma(delimiters) ==
  delimiters # <<>> /\ Last(delimiters).value = "(" /\ Last(delimiters).callee # None

ReadDelimiter(text, code, delimiters, offset) ==
  LET c == text[offset] IN
  CASE c = "(" -> Append(delimiters, Delimiter(c, CalleeAt(text, code, offset)))
    [] c \in {"[", "{"} -> Append(delimiters, Delimiter(c, None))
    [] c = "<" -> IF \/ delimiters # <<>> /\ Last(delimiters).value = "<"
                     \/ TemplateOpen(text, code, offset)
                  THEN Append(delimiters, Delimiter(c, None)) ELSE delimiters
    [] c \in DOMAIN Openers -> Closed(delimiters, c)
    [] c = "," -> IF CountsComma(delimiters)
                  THEN [delimiters EXCEPT ![Len(delimiters)].parameter = @ + 1]
                  ELSE delimiters
    [] OTHER -> delimiters

\* The innermost call around the end of the prefix, as a set of at most one.
CallContext(text, cursor) ==
  LET lexical == LexicalPrefix(text, cursor - 1)
      offsets == SelectSeq([o \in 1 .. cursor - 1 |-> o], LAMBDA o : o \in lexical.code)
      delimiters == FoldLeft(LAMBDA d, o : ReadDelimiter(text, lexical.code, d, o), <<>>, offsets)
      call == SelectLastInSeq(delimiters, LAMBDA d : d.value = "(" /\ d.callee # None)
  IN IF lexical.state # "code" \/ call = 0 THEN {}
     ELSE {[callee |-> delimiters[call].callee, parameter |-> delimiters[call].parameter]}

-----------------------------------------------------------------------------
(* The arguments of all calls.                                             *)

\* After the angle only spaces may stand before the parenthesis, no comment.
RECURSIVE AfterSpaces(_, _)
AfterSpaces(text, offset) ==
  IF offset <= Len(text) /\ text[offset] \in Spaces THEN AfterSpaces(text, offset + 1) ELSE offset

TemplateCallOpen(text, open) ==
  LET code == LexicalFrom(text, Len(text), open + 1, "code", {open}).code
      closes == {o \in code : text[o] = ">" /\ Depth(text, code, open, o) = 0}
      close == CHOOSE o \in closes : \A p \in closes : o <= p
      ends == {o \in code : text[o] \in {";", ")", "]", "}"} /\ Depth(text, code, open, o) = 1}
  IN /\ closes # {} /\ \A o \in ends : o > close
     /\ At(text, AfterSpaces(text, close + 1), Len(text)) = "("

\* The end of the name that starts here.
RECURSIVE NameEnd(_, _)
NameEnd(text, offset) ==
  IF At(text, offset + 1, Len(text)) \in Letters THEN NameEnd(text, offset + 1) ELSE offset
Callable(text, start) ==
  IF start = None \/ SubSeq(text, start, NameEnd(text, start)) = Keyword THEN None ELSE start

\* Delimiters here have the offsets of their arguments.
Bracket(value, callee, awaiting) ==
  [value |-> value, callee |-> callee, arguments |-> <<>>, awaiting |-> awaiting]

\* An argument starts where one is awaited.
BeginArgument(s, text, offset) ==
  IF \/ s.delimiters = <<>> \/ text[offset] = ")"
     \/ Last(s.delimiters).callee = None \/ ~Last(s.delimiters).awaiting
  THEN s
  ELSE [s EXCEPT !.delimiters[Len(s.delimiters)].arguments = Append(@, offset),
                 !.delimiters[Len(s.delimiters)].awaiting = FALSE]

CloseSite(s, closing) ==
  LET matching == SelectLastInSeq(s.delimiters, LAMBDA d : d.value = Openers[closing])
      closed == s.delimiters[matching]
  IN IF matching = 0 THEN [s EXCEPT !.name = None]
     ELSE [delimiters |-> SubSeq(s.delimiters, 1, matching - 1),
           name |-> IF closing = ">" THEN closed.callee ELSE None,
           sites |-> IF closing = ")" /\ closed.callee # None /\ closed.arguments # <<>>
                     THEN Append(s.sites, [callee |-> closed.callee,
                                           arguments |-> closed.arguments])
                     ELSE s.sites]

ReadSite(s, text, offset) ==
  LET c == text[offset]
      open(bracket) == [s EXCEPT !.delimiters = Append(@, bracket), !.name = None]
  IN CASE c = "(" -> open(Bracket(c, Callable(text, s.name), TRUE))
       [] c \in {"[", "{"} -> open(Bracket(c, None, FALSE))
       [] c = "<" /\ s.name # None ->
            IF TemplateCallOpen(text, offset) THEN open(Bracket(c, s.name, FALSE))
            ELSE [s EXCEPT !.name = None]
       [] c = "," /\ s.delimiters # <<>> ->
            [s EXCEPT !.name = None,
                      !.delimiters[Len(s.delimiters)].awaiting =
                        @ \/ (Last(s.delimiters).value = "(" /\ Last(s.delimiters).callee # None)]
       [] c \in DOMAIN Openers -> CloseSite(s, c)
       [] OTHER -> [s EXCEPT !.name = None]

RECURSIVE SitesFrom(_, _, _, _)
SitesFrom(text, offset, state, s) ==
  IF offset > Len(text) THEN s.sites
  ELSE LET read == Lexed(text, offset, state, Len(text))
           c == text[offset]
           begun == BeginArgument(s, text, offset)
       IN IF state # "code" \/ c \in Spaces \/ read.state \in {"line_comment", "block_comment"}
          THEN SitesFrom(text, offset + read.width, read.state, s)
          ELSE IF c \in Letters
          THEN SitesFrom(text, NameEnd(text, offset) + 1, "code", [begun EXCEPT !.name = offset])
          ELSE IF read.state = "string"
          THEN SitesFrom(text, offset + 1, read.state, [begun EXCEPT !.name = None])
          ELSE SitesFrom(text, offset + 1, "code", ReadSite(begun, text, offset))
InlayCallSites(text) ==
  SitesFrom(text, 1, "code", [delimiters |-> <<>>, name |-> None, sites |-> <<>>])

-----------------------------------------------------------------------------

\* A comment or a literal stands between an angle and the parenthesis after it.
\* The forward reader then does not see template arguments (TemplateCallOpen),
\* and counts their commas; the other one does.
Interrupted(text) ==
  LET code == LexicalPrefix(text, Len(text)).code
      between(angle, open) == angle + 1 .. open - 1
  IN \E angle, open \in code :
       /\ angle < open /\ text[angle] = ">" /\ text[open] = "("
       /\ \A o \in between(angle, open) \cap code : text[o] \in Spaces
       /\ ~(between(angle, open) \subseteq code)

\* Where the name of a parameter is shown before an argument, signature help at
\* that argument shows the same function and the same parameter.
ReadersAgree(text) ==
  \A site \in ToSet(InlayCallSites(text)) : \A i \in DOMAIN site.arguments :
    CallContext(text, site.arguments[i]) = {[callee |-> site.callee, parameter |-> i - 1]}

=============================================================================
