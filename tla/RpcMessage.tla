----------------------------- MODULE RpcMessage -----------------------------
(***************************************************************************)
(* What becomes of one message on a session's socket: make_message()       *)
(* (rpc/message.cpp) and the structures it converts to (rpc/message.hpp),  *)
(* the dispatch (rpc/dispatcher.cpp), on_request() and on_response()       *)
(* (rpc/client.cpp), and the conversion of the result in front of each     *)
(* response callback (neovim/send.hpp).  NvimSession takes its kinds of    *)
(* messages from here and follows many of them; this module has the one    *)
(* message in full, from any peer.                                         *)
(*                                                                         *)
(* msgpack is external.  An array is converted field by field: a field of  *)
(* another type throws, items that are left over are ignored, and a field  *)
(* the array is too short for keeps what it was initialised to.  For       *)
(* msgid_ of the code that is nothing at all: here "unread", which may     *)
(* turn out to be any id.                                                  *)
(* A definition named D_Something, placed before D, is a faulty variant of *)
(* D that no specification uses: the README says which property rejects it.*)
(***************************************************************************)
EXTENDS Naturals, Sequences

CONSTANT MaxItems       \* bound on the length of an array

ASSUME MessageAssumption == MaxItems \in Nat

\* Small integers, of which "7" is no msg_type, an integer beyond 32 bits, a
\* string, an array of an id and something, an empty array, nil.
Ids == {"0", "1", "2", "7"}
Items == Ids \union {"huge", "str", "arr", "empty", "nil"}
Arrays == UNION {[1 .. n -> Items] : n \in 0 .. MaxItems}
NotArray == <<"not an array">>

\* The id that a request of this session has, and what it was.
Outstanding == "7"
Calls == {"client_info", "api_info", "exec_lua", "autocmd"}

VARIABLES
  raw,                  \* the message
  message,              \* what make_message() made of it
  expected,             \* the request that is outstanding, or "none"
  stage,                \* how far the message is
  answer                \* what was posted for the callback

vars == <<raw, message, expected, stage, answer>>

Stages == {"received", "made", "asked", "answered", "signalled", "posted",
           "called", "session_ended", "thread_ended"}

Failed == [kind |-> "error"]
Nothing == [kind |-> "none"]

\* The item an array has at i, or what the field was initialised to.
Field(a, i, default) == IF i <= Len(a) THEN a[i] ELSE default

IdOf(a) == Field(a, 2, "unread")

Converts_IgnoresId(kind, a) ==
  kind = "request" => Field(a, 3, "str") = "str"

\* The conversions of the fields: msg_id_t, std::string_view; any object.
Converts(kind, a) ==
  CASE kind = "request" -> IdOf(a) \in Ids \union {"unread"} /\ Field(a, 3, "str") = "str"
    [] kind = "response" -> IdOf(a) \in Ids \union {"unread"}
    [] kind = "notification" -> Field(a, 2, "str") = "str"

Made(kind, a) ==
  CASE kind = "request" ->
         [kind |-> kind, id |-> IdOf(a), params |-> Field(a, 4, "nil")]
    [] kind = "response" ->
         [kind |-> kind, id |-> IdOf(a), error |-> Field(a, 3, "nil"),
          result |-> Field(a, 4, "nil")]
    [] kind = "notification" -> [kind |-> kind]

Kinds == {"request", "response", "notification"}

Messages ==
  [kind : {"request"}, id : Ids \union {"unread"}, params : Items]
  \union [kind : {"response"}, id : Ids \union {"unread"}, error : Items, result : Items]
  \union {[kind |-> "notification"], Failed, Nothing}

TypeOK ==
  /\ raw \in Arrays \union {NotArray}
  /\ message \in Messages
  /\ expected \in Calls \union {"none"}
  /\ stage \in Stages
  /\ answer \in [kind : {"result", "failure"}, item : Items, call : Calls]
                \union {Nothing}

Init ==
  /\ raw \in Arrays \union {NotArray}
  /\ message = Nothing
  /\ expected \in Calls \union {"none"}
  /\ stage = "received"
  /\ answer = Nothing

-----------------------------------------------------------------------------
\* msg_type_t, once the first item is known to be a positive integer.
KindOf(item) ==
  CASE item = "0" -> "request"
    [] item = "1" -> "response"
    [] item = "2" -> "notification"
    [] OTHER -> "unexpected"

\* Whatever make_message() throws, it returns.
make_message(object) ==
  IF object = NotArray \/ object = <<>> THEN Failed
  ELSE LET kind == KindOf(object[1])
       IN  IF kind \in Kinds /\ Converts(kind, object) THEN Made(kind, object) ELSE Failed

OnMessageReceived ==
  /\ stage = "received" /\ stage' = "made"
  /\ message' = make_message(raw)
  /\ UNCHANGED <<raw, expected, answer>>

\* on_client_error(): the job is erased, and the map of callbacks with it.
EndSession == stage' = "session_ended" /\ expected' = "none" /\ answer' = answer

OnError ==
  /\ stage = "made" /\ message.kind = "error"
  /\ EndSession
  /\ UNCHANGED <<raw, message>>

OnNotification ==
  /\ stage = "made" /\ message.kind = "notification"
  /\ stage' = "signalled"
  /\ UNCHANGED <<raw, message, expected, answer>>

IsArray(item) == item \in {"arr", "empty"}

OnRequest_AnyParams ==
  /\ stage = "made" /\ message.kind = "request"
  /\ stage' = "asked"
  /\ UNCHANGED <<raw, message, expected, answer>>

\* client_t::on_request().
OnRequest ==
  /\ stage = "made" /\ message.kind = "request"
  /\ IF IsArray(message.params)
     THEN stage' = "asked" /\ UNCHANGED <<expected, answer>>
     ELSE EndSession
  /\ UNCHANGED <<raw, message>>

\* request_handler_t::on_request(): an answer, of whatever kind.
Respond ==
  /\ stage = "asked" /\ stage' = "answered"
  /\ UNCHANGED <<raw, message, expected, answer>>

\* What the id of the message turns out to be.
Named(id) == message.id = id \/ (message.id = "unread" /\ id \in Ids)

OnResponse_KeepsSession ==
  /\ stage = "made" /\ message.kind = "response"
  /\ \E id \in Ids :
       /\ Named(id)
       /\ IF id # Outstanding \/ expected = "none" THEN EndSession
          ELSE IF message.result # "nil" /\ message.error # "nil"
          THEN stage' = "signalled" /\ expected' = "none" /\ answer' = answer
          ELSE /\ stage' = "posted" /\ expected' = "none"
               /\ answer' = IF message.error = "nil"
                            THEN [kind |-> "result", item |-> message.result, call |-> expected]
                            ELSE [kind |-> "failure", item |-> message.error, call |-> expected]
  /\ UNCHANGED <<raw, message>>

\* client_t::on_response(): the callback leaves the map before the rest of the
\* response is looked at.
OnResponse ==
  /\ stage = "made" /\ message.kind = "response"
  /\ \E id \in Ids :
       /\ Named(id)
       /\ IF id # Outstanding \/ expected = "none" THEN EndSession
          ELSE IF message.result # "nil" /\ message.error # "nil" THEN EndSession
          ELSE /\ stage' = "posted" /\ expected' = "none"
               /\ answer' = IF message.error = "nil"
                            THEN [kind |-> "result", item |-> message.result, call |-> expected]
                            ELSE [kind |-> "failure", item |-> message.error, call |-> expected]
  /\ UNCHANGED <<raw, message>>

\* response_result_t of each method: nil_t, an array, any object.
HasType(item, call) ==
  CASE call \in {"client_info", "autocmd"} -> item = "nil"
    [] call = "api_info" -> IsArray(item)
    [] OTHER -> TRUE

RunCallback_ConvertsErrors ==
  /\ stage = "posted"
  /\ stage' = IF HasType(answer.item, answer.call) THEN "called" ELSE "thread_ended"
  /\ UNCHANGED <<raw, message, expected, answer>>

\* converting_cb_t: an error is handed on as it is, a result is converted,
\* and if that throws nobody catches it.
RunCallback ==
  /\ stage = "posted"
  /\ stage' = IF answer.kind = "result" /\ ~ HasType(answer.item, answer.call)
              THEN "thread_ended" ELSE "called"
  /\ UNCHANGED <<raw, message, expected, answer>>

Next ==
  \/ OnMessageReceived
  \/ OnError \/ OnNotification \/ OnRequest \/ Respond \/ OnResponse
  \/ RunCallback

Spec == Init /\ [][Next]_vars

-----------------------------------------------------------------------------
(* Properties                                                              *)

(* A request that reaches the handler was read in full: the array check of *)
(* on_request() also keeps out the requests that are too short, whose id   *)
(* and method were never read (client.cpp:37-40, message.hpp:22-29).       *)
RequestsAreWhole ==
  stage \in {"asked", "answered"} =>
    /\ Len(raw) >= 4
    /\ raw[1] = "0" /\ raw[2] \in Ids /\ message.id = raw[2]
    /\ raw[3] = "str" /\ IsArray(raw[4])

(* A message ends the io thread, and with it every session, only as the    *)
(* response without error to an outstanding request, whose result is not   *)
(* of the type of the method; anything else ends its own session at most   *)
(* (message.cpp:8-44, client.cpp:60-87, send.hpp:30-38).                   *)
OnlyResultsEndThread ==
  stage = "thread_ended" =>
    /\ raw[1] = "1" /\ Field(raw, 2, Outstanding) = Outstanding
    /\ Field(raw, 3, "nil") = "nil"
    /\ answer.call # "exec_lua"

(* No response is lost: once its callback has left the map it is posted,   *)
(* or the session is over and with it everybody who waits                  *)
(* (client.cpp:61-86).                                                     *)
ResponseIsDelivered ==
  [][message.kind = "response" /\ expected # "none" /\ expected' = "none"
       => \/ stage' = "session_ended"
          \/ answer'.kind \in {"result", "failure"} /\ answer'.call = expected]_vars

=============================================================================
