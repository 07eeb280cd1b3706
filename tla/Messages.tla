------------------------------- MODULE Messages -------------------------------
(***************************************************************************)
(* Messages: src/src/json_rpc/message.cpp.  JSON is a function from the    *)
(* names that an object has to the kinds of their values.  "2.0" is the    *)
(* version; of the numbers, "integer" fits into 64 bits with a sign, which *)
(* ids are kept in, "unsigned" only into 64 bits without, and "fraction"   *)
(* into neither.                                                           *)
(***************************************************************************)

Get(json, name) == IF name \in DOMAIN json THEN json[name] ELSE "absent"

\* The id in a message, if it can be one.  The library counts unsigned numbers
\* among the integers, so one that is too large is not refused but wraps around.
ParseId(json) ==
  IF Get(json, "id") \in {"null", "string", "integer"} THEN {json["id"]}
  ELSE IF Get(json, "id") = "unsigned" THEN {"wrapped"}
  ELSE {}
\* Fault: an id that cannot be read is as one that is absent.
UnreadIdIsAbsent(json) == ParseId(json) = {}
HasNoId(json) == Get(json, "id") = "absent"

Failure(id) == [kind |-> "error", id |-> id]
InvalidRequest == Failure("null")

ParseCall(json) ==
  LET id == IF ParseId(json) = {} THEN "null" ELSE CHOOSE i \in ParseId(json) : TRUE
  IN IF \/ json["method"] # "string" \/ Get(json, "params") \notin {"absent", "object", "array"}
        \/ {"result", "error"} \cap DOMAIN json # {}
     THEN Failure(id)
     ELSE IF HasNoId(json)
     THEN [kind |-> "notification", method |-> json["method"], params |-> Get(json, "params")]
     ELSE IF ParseId(json) = {} THEN InvalidRequest
     ELSE [kind |-> "request", id |-> id, method |-> json["method"], params |-> Get(json, "params")]

ParseAnswer(json) ==
  LET has(name) == name \in DOMAIN json
      id == CHOOSE i \in ParseId(json) : TRUE
  IN IF ParseId(json) = {} \/ has("result") = has("error") THEN InvalidRequest
     ELSE IF has("result") THEN [kind |-> "response", id |-> id, result |-> json["result"]]
     ELSE IF json["error"] # "codeAndMessage" THEN InvalidRequest
     ELSE [kind |-> "errorResponse", id |-> id, result |-> json["error"]]

ParseMessage(json) ==
  IF Get(json, "jsonrpc") # "2.0" THEN InvalidRequest
  ELSE IF "method" \in DOMAIN json THEN ParseCall(json)
  ELSE ParseAnswer(json)

ToJson(message) ==
  LET isCall == message.kind \in {"request", "notification"}
      says == [jsonrpc |-> TRUE, id |-> message.kind # "notification",
               method |-> isCall, params |-> isCall /\ message.params # "absent",
               result |-> message.kind = "response", error |-> message.kind = "errorResponse"]
  IN [name \in {n \in DOMAIN says : says[n]} |->
        CASE name = "jsonrpc" -> "2.0"
          [] name \in {"result", "error"} -> message.result
          [] OTHER -> message[name]]

\* A message that is understood says what was sent, nothing that has an id is
\* taken for a notification, and a call that is refused is refused under its own
\* id if that can be read.  It is of a client whose ids have 64 bits with a sign.
MessageIsUnderstood(json) ==
  LET message == ParseMessage(json)
      understood == ToJson(message)
  IN Get(json, "id") # "unsigned" =>
       IF message.kind # "error"
       THEN /\ \A name \in DOMAIN understood : Get(json, name) = understood[name]
            /\ message.kind = "notification" => "id" \notin DOMAIN json
       ELSE /\ message.id \in {"null", Get(json, "id")}
            /\ Get(json, "jsonrpc") = "2.0" /\ "method" \in DOMAIN json =>
                 ParseId(json) \subseteq {message.id}

=============================================================================
