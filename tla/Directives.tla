----------------------------- MODULE Directives -----------------------------
(***************************************************************************)
(* The directives in a text: the first half of include_resolver.cpp.  A    *)
(* text is a sequence of characters, of which "i" stands for the keyword   *)
(* include, "d" for define or undef, "n" for a name, "q" for a quote and   *)
(* "\n" for any line break.  A byte of a line is [char, offset].           *)
(***************************************************************************)
EXTENDS Integers, Sequences, FiniteSets, SequencesExt, TLC

Letters == {"i", "d", "n"}
LineLimit == 12 \* 256 KiB in the code

-----------------------------------------------------------------------------
(* Lines, after splices and comments.                                      *)

\* The bytes of a text without its splices.
Spliced(text) ==
  LET splice(o) == o < Len(text) /\ text[o] = "\\" /\ text[o + 1] = "\n"
      kept == SelectSeq([o \in DOMAIN text |-> o],
                        LAMBDA o : ~splice(o) /\ (o = 1 \/ ~splice(o - 1)))
  IN [i \in DOMAIN kept |-> [char |-> text[kept[i]], offset |-> kept[i]]]

NoLine == [bytes |-> <<>>, offset |-> 0, ambiguous |-> FALSE]
Start ==
  [lines |-> <<>>, line |-> NoLine, state |-> "normal", slash |-> <<>>, star |-> FALSE,
   escaped |-> FALSE, comment |-> 0]

\* A line that is too long is cut, and is ambiguous.
AppendByte(s, byte) ==
  IF Len(s.line.bytes) = LineLimit THEN [s EXCEPT !.line.ambiguous = TRUE]
  ELSE [s EXCEPT !.line.bytes = Append(@, byte)]

\* A slash is held back until what follows shows whether it starts a comment.
FlushSlash(s) ==
  [(IF s.slash = <<>> THEN s ELSE AppendByte(s, s.slash[1])) EXCEPT !.slash = <<>>]
Blank(s) == AppendByte([s EXCEPT !.slash = <<>>], [s.slash[1] EXCEPT !.char = " "])

\* Fault: the end of a line is the end of a comment.
EndLineAndComment(s) ==
  [s EXCEPT !.lines = Append(@, FlushSlash(s).line), !.line = NoLine, !.slash = <<>>,
            !.star = FALSE, !.escaped = FALSE, !.state = "normal"]
EndLine(s) ==
  LET flushed == FlushSlash(s)
      open == s.state = "string"
  IN [flushed EXCEPT !.lines = Append(@, [flushed.line EXCEPT !.ambiguous = @ \/ open]),
                     !.line = NoLine, !.star = FALSE, !.escaped = @ /\ ~open,
                     !.state = IF @ = "block_comment" THEN @ ELSE "normal"]

InBlockComment(s, char) ==
  IF s.star /\ char = "/" THEN [s EXCEPT !.state = "normal", !.star = FALSE]
  ELSE [s EXCEPT !.star = char = "*"]

InString(s, byte) ==
  [AppendByte(s, byte) EXCEPT
     !.escaped = ~s.escaped /\ byte.char = "\\",
     !.state = IF ~s.escaped /\ byte.char = "q" THEN "normal" ELSE @]

InCode(s, byte) ==
  LET flushed == FlushSlash(s) IN
  CASE s.slash # <<>> /\ byte.char = "/" -> [Blank(s) EXCEPT !.state = "line_comment"]
    [] s.slash # <<>> /\ byte.char = "*" ->
         [Blank(s) EXCEPT !.state = "block_comment", !.star = FALSE, !.comment = s.line.offset]
    [] byte.char = "/" /\ s.slash = <<>> -> [s EXCEPT !.slash = <<byte>>]
    [] OTHER -> AppendByte(IF byte.char = "q" THEN [flushed EXCEPT !.state = "string"] ELSE flushed,
                           byte)

ScanByte(scan, byte) ==
  LET s == IF scan.line.bytes = <<>> /\ scan.slash = <<>>
           THEN [scan EXCEPT !.line.offset = byte.offset] ELSE scan
  IN CASE byte.char = "\n" -> EndLine(s)
       [] byte.char # "\n" /\ s.state = "line_comment" -> s
       [] byte.char # "\n" /\ s.state = "block_comment" -> InBlockComment(s, byte.char)
       [] byte.char # "\n" /\ s.state = "string" -> InString(s, byte)
       [] byte.char # "\n" /\ s.state = "normal" -> InCode(s, byte)

\* A comment or a literal that the text does not end makes its line ambiguous.
EndText(s) ==
  LET flushed == FlushSlash(s)
      line == [flushed.line EXCEPT !.ambiguous = @ \/ s.state \in {"block_comment", "string"},
                                   !.offset = IF s.state = "block_comment" /\ s.comment < @
                                              THEN s.comment ELSE @]
  IN IF line.bytes = <<>> /\ ~line.ambiguous THEN s.lines ELSE Append(s.lines, line)
LogicalLines(text) == EndText(FoldLeft(ScanByte, Start, Spliced(text)))

-----------------------------------------------------------------------------
(* Directives.                                                             *)

\* The first index from which there is something else than spaces.
TrimLeft(bytes, from) ==
  LET indices == {i \in from .. Len(bytes) : bytes[i].char # " "}
  IN IF indices = {} THEN Len(bytes) + 1 ELSE CHOOSE i \in indices : \A j \in indices : i <= j
TrimRight(bytes) ==
  LET indices == {i \in DOMAIN bytes : bytes[i].char # " "}
  IN CHOOSE i \in indices : \A j \in indices : j <= i

Chars(bytes, first, last) == [i \in 1 .. last - first + 1 |-> bytes[first + i - 1].char]
SourceSpan(bytes, first, last) == [from |-> bytes[first].offset, to |-> bytes[last].offset]

KeywordAt(bytes, i, keyword) ==
  /\ i <= Len(bytes) /\ bytes[i].char = keyword
  /\ i = Len(bytes) \/ bytes[i + 1].char \notin Letters

\* A header in quotes or in angle brackets, up to the first byte that closes it.
Closing == [q |-> "q"] @@ ("<" :> ">")
Include(bytes, operand) ==
  LET closes == {i \in operand + 1 .. Len(bytes) : bytes[i].char = Closing[bytes[operand].char]}
      close == CHOOSE i \in closes : \A j \in closes : i <= j
  IN CASE operand > Len(bytes) -> <<>>
       [] operand <= Len(bytes) /\ bytes[operand].char \in DOMAIN Closing ->
            IF closes = {} THEN <<>>
            ELSE <<[kind |-> "literal", text |-> Chars(bytes, operand, close),
                    span |-> SourceSpan(bytes, operand, close)]>>
       [] OTHER -> <<[kind |-> "dynamic", text |-> Chars(bytes, operand, TrimRight(bytes)),
                      span |-> SourceSpan(bytes, operand, TrimRight(bytes))]>>

Macro(bytes, keyword) ==
  LET name == TrimLeft(bytes, keyword + 1)
      known == name <= Len(bytes) /\ bytes[name].char \in Letters
      offset == bytes[keyword].offset
  IN <<[kind |-> IF known THEN "macro" ELSE "unknown", text |-> <<>>,
        span |-> [from |-> offset, to |-> offset]]>>

Directive(line) ==
  LET hash == TrimLeft(line.bytes, 1)
      keyword == TrimLeft(line.bytes, hash + 1)
      ambiguous == IF ~line.ambiguous THEN <<>>
                   ELSE <<[kind |-> "unknown", text |-> <<>>,
                           span |-> [from |-> line.offset, to |-> line.offset]]>>
  IN ambiguous
     \o CASE hash > Len(line.bytes) \/ keyword > Len(line.bytes) -> <<>>
          [] hash <= Len(line.bytes) /\ line.bytes[hash].char # "#" -> <<>>
          [] KeywordAt(line.bytes, keyword, "i") ->
               Include(line.bytes, TrimLeft(line.bytes, keyword + 1))
          [] KeywordAt(line.bytes, keyword, "d") -> Macro(line.bytes, keyword)
          [] OTHER -> <<>>
ParseIncludes(text) ==
  LET lines == LogicalLines(text) IN FlattenSeq([i \in DOMAIN lines |-> Directive(lines[i])])

\* The text for the compiler, with a header in the place of an operand.
Rewrite(text, span, header) ==
  SubSeq(text, 1, span.from - 1) \o header \o SubSeq(text, span.to + 1, Len(text))

-----------------------------------------------------------------------------
(* The phases of translation in the language.  A comment is one space; the *)
(* comment becomes the given characters if it has line breaks in it.       *)

RECURSIVE Uncommented(_, _, _)
Uncommented(chars, string, broken) ==
  LET second == IF Len(chars) < 2 THEN "" ELSE chars[2]
      rest(n) == SubSeq(chars, n, Len(chars))
      firstOf(set) == CHOOSE i \in set : \A j \in set : i <= j
      breaks == {i \in DOMAIN chars : chars[i] = "\n"}
      ends == {i \in 4 .. Len(chars) : chars[i - 1] = "*" /\ chars[i] = "/"}
      space == IF ends # {} /\ \A b \in breaks : b > firstOf(ends) THEN <<" ">> ELSE broken
  IN CASE chars = <<>> -> <<>>
       [] chars # <<>> /\ string ->
            IF chars[1] = "\\" /\ second \notin {"", "\n"}
            THEN <<chars[1], second>> \o Uncommented(rest(3), TRUE, broken)
            ELSE <<chars[1]>> \o Uncommented(rest(2), chars[1] \notin {"q", "\n"}, broken)
       [] chars # <<>> /\ ~string /\ chars[1] = "/" /\ second = "/" ->
            IF breaks = {} THEN <<" ">>
            ELSE <<" ">> \o Uncommented(rest(firstOf(breaks)), FALSE, broken)
       [] chars # <<>> /\ ~string /\ chars[1] = "/" /\ second = "*" ->
            space \o (IF ends = {} THEN <<>> ELSE Uncommented(rest(firstOf(ends) + 1), FALSE, broken))
       [] OTHER -> <<chars[1]>> \o Uncommented(rest(2), chars[1] = "q", broken)

Lines(chars) ==
  FoldLeft(LAMBDA lines, c : IF c = "\n" THEN Append(lines, <<>>)
                             ELSE [lines EXCEPT ![Len(lines)] = Append(@, c)], <<<<>>>>, chars)

\* The directives without their places, and without the lines that are unknown.
Said(directives) ==
  LET known == SelectSeq(directives, LAMBDA d : d.kind # "unknown")
  IN [i \in DOMAIN known |-> [kind |-> known[i].kind, text |-> known[i].text]]

\* The lines of a text, where a comment with line breaks is the given character.
TranslatedLines(text, broken) ==
  LET spliced == Spliced(text)
  IN Lines(Uncommented([i \in DOMAIN spliced |-> spliced[i].char], FALSE, <<broken>>))

\* What the compiler reads: every comment is a space, with line breaks or without.
Meant(text) ==
  LET lines == TranslatedLines(text, " ")
      line(l) == [bytes |-> [i \in DOMAIN l |-> [char |-> l[i], offset |-> i]],
                  offset |-> 0, ambiguous |-> FALSE]
  IN Said(FlattenSeq([i \in DOMAIN lines |-> Directive(line(lines[i]))]))

\* What the scanner is not made for: a line that is too long, a line that goes on
\* behind a comment with line breaks in its midst, and a comment that begins in a
\* header in angle brackets, where for the compiler there is none.
TooLong(text) == \E line \in ToSet(LogicalLines(text)) : Len(line.bytes) = LineLimit
GoesOnBehindBreak(text) ==
  \E line \in ToSet(TranslatedLines(text, "broken")) :
    \E i \in DOMAIN line :
      /\ line[i] = "broken"
      /\ ToSet(SubSeq(line, 1, i)) \ {" ", "broken"} # {}
      /\ ToSet(SubSeq(line, i, Len(line))) \ {" ", "broken"} # {}
CommentInHeader(text) ==
  LET spliced == Spliced(text)
      char(i) == spliced[i].char
      before(i) == Last(TranslatedLines([j \in 1 .. i - 1 |-> char(j)], " "))
  IN \E first, slash \in DOMAIN spliced :
       /\ char(first) = "<"
       /\ SelectSeq(before(first), LAMBDA c : c # " ") = <<"#", "i">>
       /\ first < slash /\ slash < Len(spliced)
       /\ char(slash) = "/" /\ char(slash + 1) \in {"/", "*"}
       /\ \A i \in first .. slash : char(i) \notin {">", "\n"}

\* The directives that are found are those that the compiler reads.
DirectivesAreFound(text) ==
  \/ TooLong(text) \/ GoesOnBehindBreak(text) \/ CommentInHeader(text)
  \/ Said(ParseIncludes(text)) = Meant(text)

\* To rewrite an include changes this include and nothing else in the text.  A
\* header stays in the brackets or quotes it is in, and an expansion gets quotes.
RewritesAreExact(text, header) ==
  LET said == Said(ParseIncludes(text))
      known == SelectSeq(ParseIncludes(text), LAMBDA d : d.kind # "unknown")
      opening(d) == IF d.kind = "literal" THEN Head(d.text) ELSE "q"
      rewriting(d) == <<opening(d)>> \o header \o <<Closing[opening(d)]>>
  IN \A i \in DOMAIN known :
       known[i].kind \in {"literal", "dynamic"} =>
         LET rewritten == Rewrite(text, known[i].span, rewriting(known[i]))
         IN \/ TooLong(rewritten)
            \/ Said(ParseIncludes(rewritten)) =
                 [said EXCEPT ![i] = [kind |-> "literal", text |-> rewriting(known[i])]]

\* A macro that the text defines is found, or it is known that some may be missed.
MacrosAreFound(text) ==
  \/ \E d \in ToSet(ParseIncludes(text)) : d.kind \in {"unknown", "macro"}
  \/ \A d \in ToSet(Meant(text)) : d.kind # "macro"

=============================================================================
