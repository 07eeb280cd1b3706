------------------------------- MODULE Protocol -------------------------------
(***************************************************************************)
(* Frames: src/src/json_rpc/framing.cpp.  A stream is a sequence of bytes, *)
(* where the text of a header line is one byte, and so are the letters of  *)
(* payloads.                                                               *)
(***************************************************************************)
EXTENDS Integers, Sequences, FiniteSets, SequencesExt, TLC

ContentLength ==
  ("Content-Length: 0" :> 0) @@ ("content-length:1" :> 1) @@ ("Content-Length : 3" :> 3)
    @@ ("Content-Length: -1" :> -1)
OtherHeaders == {"Content-Type: a"}

\* The line at an offset: its text, where the next one is, and an error.
ReadCrlfLine(stream, offset) ==
  LET ends == {o \in offset .. Len(stream) : stream[o] \in {"\r", "\n"}}
      end == CHOOSE o \in ends : \A p \in ends : o <= p
      error == CASE ends = {} -> IF offset > Len(stream) THEN "end of input" ELSE "malformed_header"
                 [] OTHER -> IF stream[end] = "\r" /\ end < Len(stream) /\ stream[end + 1] = "\n"
                             THEN "none" ELSE "malformed_header"
  IN [error |-> error, next |-> IF ends = {} THEN 0 ELSE end + 2,
      line |-> IF ends = {} THEN <<>> ELSE SubSeq(stream, offset, end - 1)]

\* A line that is one header, and the length that it gives, if it does.
HeaderError(line, length) ==
  CASE Len(line) # 1 \/ line[1] \notin DOMAIN ContentLength \cup OtherHeaders -> "malformed_header"
    [] OTHER -> IF line[1] \in OtherHeaders THEN "none"
                ELSE IF length # {} \/ ContentLength[line[1]] < 0 THEN "invalid_content_length"
                ELSE "none"

RECURSIVE ReadHeaders(_, _, _, _)
ReadHeaders(stream, offset, length, any) ==
  LET read == ReadCrlfLine(stream, offset)
      error == HeaderError(read.line, length)
  IN IF read.error = "end of input" /\ any
     THEN [error |-> "malformed_header", next |-> 0, length |-> 0]
     ELSE IF read.error # "none" THEN [error |-> read.error, next |-> 0, length |-> 0]
     ELSE IF read.line = <<>>
     THEN [error |-> IF length = {} THEN "missing_content_length" ELSE "none", next |-> read.next,
           length |-> IF length = {} THEN 0 ELSE CHOOSE n \in length : TRUE]
     ELSE IF error # "none" THEN [error |-> error, next |-> 0, length |-> 0]
     ELSE ReadHeaders(stream, read.next,
                      IF read.line[1] \in OtherHeaders THEN length ELSE {ContentLength[read.line[1]]},
                      TRUE)

\* Fault: what there is of a payload is the payload.
WholeOrPart(stream, offset, length) == TRUE
Whole(stream, offset, length) == offset + length <= Len(stream) + 1

\* The frame at an offset: its payload, and where the next one is, or an error.
ReadFrame(stream, offset) ==
  LET headers == ReadHeaders(stream, offset, {}, FALSE)
      next == headers.next + headers.length
  IN CASE headers.error # "none" -> [error |-> headers.error, payload |-> <<>>, next |-> 0]
       [] ~Whole(stream, headers.next, headers.length) ->
            [error |-> "truncated_payload", payload |-> <<>>, next |-> 0]
       [] OTHER -> [error |-> "none", next |-> next,
                    payload |-> SubSeq(stream, headers.next, IF next - 1 > Len(stream)
                                                             THEN Len(stream) ELSE next - 1)]

\* The payloads of a stream, and what ends it.
RECURSIVE ReadFrom(_, _, _)
ReadFrom(stream, offset, payloads) ==
  LET frame == ReadFrame(stream, offset)
  IN IF frame.error # "none" THEN [payloads |-> payloads, error |-> frame.error]
     ELSE ReadFrom(stream, frame.next, Append(payloads, frame.payload))

WriteFrame(payload) ==
  <<CHOOSE h \in DOMAIN ContentLength : ContentLength[h] = Len(payload)>>
    \o <<"\r", "\n", "\r", "\n">> \o payload

\* A stream of frames that ends anywhere has the payloads of the frames that are
\* whole, and an end of input only after one of them.
FramesAreWhole(payloads, length) ==
  LET frames == [i \in DOMAIN payloads |-> WriteFrame(payloads[i])]
      written == FlattenSeq(frames)
      stream == SubSeq(written, 1, IF length < Len(written) THEN length ELSE Len(written))
      end(n) == Len(FlattenSeq(SubSeq(frames, 1, n)))
      whole == CHOOSE n \in 0 .. Len(payloads) :
                 end(n) <= Len(stream) /\ (n = Len(payloads) \/ end(n + 1) > Len(stream))
      read == ReadFrom(stream, 1, <<>>)
  IN /\ read.payloads = SubSeq(payloads, 1, whole)
     /\ (read.error = "end of input") = (Len(stream) = end(whole))

=============================================================================
