--------------------------- MODULE RpcMessageProofs ---------------------------
(***************************************************************************)
(* Proofs about RpcMessage, for arrays of any length: what reaches the     *)
(* handler, what ends the io thread, and that no response is lost.         *)
(***************************************************************************)
EXTENDS RpcMessage, TLAPS

\* What make_message() made of the message is what is handled.
Converted ==
  /\ stage = "received" => message = Nothing
  /\ stage # "received" => message = make_message(raw)

\* A request gets past on_request() with an array for parameters.
Asked ==
  stage \in {"asked", "answered"} => message.kind = "request" /\ IsArray(message.params)

\* A callback is posted for a response that names the outstanding request, and
\* with its result only if there is no error.
Answered ==
  stage \in {"posted", "called", "thread_ended"} =>
    /\ message.kind = "response" /\ message.id \in {Outstanding, "unread"}
    /\ answer.kind = "result" => message.error = "nil"
    /\ answer \in [kind : {"result", "failure"}, item : Items, call : Calls]
    /\ stage = "thread_ended" => answer.kind = "result" /\ answer.call # "exec_lua"

IInv == TypeOK /\ Converted /\ Asked /\ Answered

-----------------------------------------------------------------------------
LEMMA ItemsOfArrays ==
  ASSUME NEW a \in Arrays
  PROVE  /\ a \in Seq(Items)
         /\ \A i \in 1 .. Len(a) : a[i] \in Items
BY DEF Arrays

\* What make_message() makes is a message.
LEMMA MessageType ==
  ASSUME NEW a \in Arrays \union {NotArray}
  PROVE  make_message(a) \in Messages \ {Nothing}
<1>1. CASE a = NotArray \/ a = <<>>
  BY <1>1 DEF make_message, Messages, Failed, Nothing
<1>2. CASE ~ (a = NotArray \/ a = <<>>)
  <2>1. a \in Seq(Items) /\ \A i \in 1 .. Len(a) : a[i] \in Items
    BY <1>2, ItemsOfArrays
  <2> DEFINE kind == KindOf(a[1])
  <2>2. CASE ~ (kind \in Kinds /\ Converts(kind, a))
    BY <1>2, <2>2 DEF make_message, Messages, Failed, Nothing
  <2>3. CASE kind \in Kinds /\ Converts(kind, a)
    <3>1. make_message(a) = Made(kind, a)
      BY <1>2, <2>3 DEF make_message
    <3>2. \A i \in 1 .. 4 : Field(a, i, "nil") \in Items
      BY <2>1 DEF Field, Items
    <3>3. CASE kind = "request"
      <4>1. IdOf(a) \in Ids \union {"unread"}
        BY <2>3, <3>3 DEF Converts
      <4>2. Made(kind, a) = [kind |-> "request", id |-> IdOf(a), params |-> Field(a, 4, "nil")]
        BY <3>3 DEF Made
      <4> QED
        BY <3>1, <3>2, <4>1, <4>2 DEF Messages, Nothing
    <3>4. CASE kind = "response"
      <4>1. IdOf(a) \in Ids \union {"unread"}
        BY <2>3, <3>4 DEF Converts
      <4>2. Made(kind, a) = [kind |-> "response", id |-> IdOf(a),
                             error |-> Field(a, 3, "nil"), result |-> Field(a, 4, "nil")]
        BY <3>4 DEF Made
      <4> QED
        BY <3>1, <3>2, <4>1, <4>2 DEF Messages, Nothing
    <3>5. CASE kind = "notification"
      BY <3>1, <3>5 DEF Made, Messages, Nothing
    <3> QED
      BY <2>3, <3>3, <3>4, <3>5 DEF Kinds
  <2> QED
    BY <2>2, <2>3
<1> QED
  BY <1>1, <1>2

\* What a request or a response was made from.
LEMMA MadeFrom ==
  ASSUME NEW a \in Arrays \union {NotArray},
         make_message(a).kind \in {"request", "response"}
  PROVE  /\ a \in Seq(Items) /\ a # <<>>
         /\ \A i \in 1 .. Len(a) : a[i] \in Items
         /\ Converts(make_message(a).kind, a)
         /\ make_message(a) = Made(make_message(a).kind, a)
         /\ a[1] = IF make_message(a).kind = "request" THEN "0" ELSE "1"
<1>1. a # NotArray /\ a # <<>>
  BY DEF make_message, Failed
<1> DEFINE kind == KindOf(a[1])
<1>2. kind \in Kinds /\ Converts(kind, a)
  BY <1>1 DEF make_message, Failed
<1>3. make_message(a) = Made(kind, a)
  BY <1>1, <1>2 DEF make_message
<1>4. Made(kind, a).kind = kind
  BY <1>2 DEF Made, Kinds
<1>5. a[1] = IF kind = "request" THEN "0" ELSE "1"
  BY <1>3, <1>4 DEF KindOf
<1> QED
  BY <1>1, <1>2, <1>3, <1>4, <1>5, ItemsOfArrays

-----------------------------------------------------------------------------
(* The invariant                                                           *)

LEMMA InitEstablishes == Init => IInv
BY DEF Init, IInv, TypeOK, Converted, Asked, Answered, Messages, Stages, Nothing

LEMMA MessageReceivedKeeps == IInv /\ OnMessageReceived => IInv'
<1> SUFFICES ASSUME IInv, OnMessageReceived PROVE IInv'
  OBVIOUS
<1> USE DEF IInv, OnMessageReceived
<1>1. make_message(raw) \in Messages
  BY MessageType DEF TypeOK
<1>2. TypeOK'
  BY <1>1 DEF TypeOK, Stages
<1>3. Converted' /\ Asked' /\ Answered'
  BY DEF Converted, Asked, Answered
<1> QED
  BY <1>2, <1>3

\* The end of a session, in whatever handler.
LEMMA EndSessionKeeps ==
  ASSUME IInv, EndSession, UNCHANGED <<raw, message>>, stage = "made"
  PROVE  IInv'
<1>1. TypeOK'
  BY DEF IInv, EndSession, TypeOK, Stages
<1>2. Converted' /\ Asked' /\ Answered'
  BY DEF IInv, EndSession, Converted, Asked, Answered
<1> QED
  BY <1>1, <1>2 DEF IInv

LEMMA ErrorKeeps == IInv /\ OnError => IInv'
BY EndSessionKeeps DEF OnError

LEMMA NotificationKeeps == IInv /\ OnNotification => IInv'
BY DEF IInv, OnNotification, TypeOK, Stages, Converted, Asked, Answered

LEMMA RequestKeeps == IInv /\ OnRequest => IInv'
<1> SUFFICES ASSUME IInv, OnRequest PROVE IInv'
  OBVIOUS
<1>1. CASE IsArray(message.params)
  BY <1>1 DEF IInv, OnRequest, TypeOK, Stages, Converted, Asked, Answered
<1>2. CASE ~ IsArray(message.params)
  BY <1>2, EndSessionKeeps DEF OnRequest
<1> QED
  BY <1>1, <1>2

LEMMA RespondKeeps == IInv /\ Respond => IInv'
BY DEF IInv, Respond, TypeOK, Stages, Converted, Asked, Answered

LEMMA ResponseKeeps == IInv /\ OnResponse => IInv'
<1> SUFFICES ASSUME IInv, OnResponse PROVE IInv'
  OBVIOUS
<1>1. CASE EndSession
  BY <1>1, EndSessionKeeps DEF OnResponse
<1>2. CASE ~ EndSession
  <2>1. /\ stage = "made" /\ message.kind = "response"
        /\ UNCHANGED <<raw, message>>
    BY DEF OnResponse
  <2>2. message.id \in {Outstanding, "unread"} /\ expected # "none"
    BY <1>2 DEF OnResponse, Named
  <2>3. /\ stage' = "posted" /\ expected' = "none"
        /\ answer' = IF message.error = "nil"
                     THEN [kind |-> "result", item |-> message.result, call |-> expected]
                     ELSE [kind |-> "failure", item |-> message.error, call |-> expected]
    BY <1>2 DEF OnResponse
  <2>4. message.error \in Items /\ message.result \in Items /\ expected \in Calls
    BY <2>1, <2>2 DEF IInv, TypeOK, Messages, Failed, Nothing
  <2>5. answer' \in [kind : {"result", "failure"}, item : Items, call : Calls]
    BY <2>3, <2>4
  <2>6. answer'.kind = "result" => message.error = "nil"
    BY <2>3
  <2>7. TypeOK'
    BY <2>1, <2>3, <2>5 DEF IInv, TypeOK, Stages
  <2>8. Converted' /\ Asked'
    BY <2>1, <2>3 DEF IInv, Converted, Asked
  <2>9. Answered'
    BY <2>1, <2>2, <2>3, <2>5, <2>6 DEF Answered
  <2> QED
    BY <2>7, <2>8, <2>9 DEF IInv
<1> QED
  BY <1>1, <1>2

LEMMA CallbackKeeps == IInv /\ RunCallback => IInv'
<1> SUFFICES ASSUME IInv, RunCallback PROVE IInv'
  OBVIOUS
<1>1. TypeOK' /\ Converted' /\ Asked'
  BY DEF IInv, RunCallback, TypeOK, Stages, Converted, Asked
<1>2. stage' = "thread_ended" => answer.kind = "result" /\ answer.call # "exec_lua"
  BY DEF RunCallback, HasType
<1>3. Answered'
  BY <1>2 DEF IInv, RunCallback, Answered
<1> QED
  BY <1>1, <1>3 DEF IInv

LEMMA StepKeeps == IInv /\ [Next]_vars => IInv'
<1> SUFFICES ASSUME IInv, [Next]_vars PROVE IInv'
  OBVIOUS
<1>1. CASE Next
  BY <1>1, MessageReceivedKeeps, ErrorKeeps, NotificationKeeps, RequestKeeps,
     RespondKeeps, ResponseKeeps, CallbackKeeps DEF Next
<1>2. CASE UNCHANGED vars
  BY <1>2 DEF vars, IInv, TypeOK, Converted, Asked, Answered
<1> QED
  BY <1>1, <1>2

(* The inductive invariant holds.                                          *)
THEOREM Invariance == Spec => []IInv
BY InitEstablishes, StepKeeps, PTL DEF Spec

(* The state is well typed: TypeOK of RpcMessage.                          *)
THEOREM TypeCorrect == Spec => []TypeOK
<1>1. IInv => TypeOK
  BY DEF IInv
<1> QED
  BY Invariance, <1>1, PTL

-----------------------------------------------------------------------------
(* The properties                                                          *)

(* A request that reaches the handler was read in full, whatever the length*)
(* of the array: RequestsAreWhole of RpcMessage.                           *)
THEOREM RequestsAreWholeHolds == Spec => []RequestsAreWhole
<1>1. IInv => RequestsAreWhole
  <2> SUFFICES ASSUME IInv, stage \in {"asked", "answered"}
               PROVE  /\ Len(raw) >= 4
                      /\ raw[1] = "0" /\ raw[2] \in Ids /\ message.id = raw[2]
                      /\ raw[3] = "str" /\ IsArray(raw[4])
    BY DEF RequestsAreWhole
  <2>1. message = make_message(raw) /\ message.kind = "request" /\ IsArray(message.params)
    BY DEF IInv, Converted, Asked
  <2>2. /\ raw \in Seq(Items) /\ \A i \in 1 .. Len(raw) : raw[i] \in Items
        /\ Converts("request", raw) /\ message = Made("request", raw) /\ raw[1] = "0"
    BY <2>1, MadeFrom DEF IInv, TypeOK
  <2>3. message = [kind |-> "request", id |-> IdOf(raw), params |-> Field(raw, 4, "nil")]
    BY <2>2 DEF Made
  <2>4. Len(raw) >= 4 /\ IsArray(raw[4])
    BY <2>1, <2>2, <2>3 DEF Field, IsArray
  <2>5. IdOf(raw) = raw[2] /\ raw[2] \in Items /\ Field(raw, 3, "str") = raw[3]
    BY <2>2, <2>4 DEF IdOf, Field
  <2>6. IdOf(raw) \in Ids \union {"unread"} /\ Field(raw, 3, "str") = "str"
    BY <2>2 DEF Converts
  <2>7. raw[2] \in Ids /\ raw[3] = "str"
    BY <2>5, <2>6 DEF Items, Ids
  <2> QED
    BY <2>2, <2>3, <2>4, <2>5, <2>7
<1> QED
  BY Invariance, <1>1, PTL

(* Only a response without error to the outstanding request ends the io    *)
(* thread: OnlyResultsEndThread of RpcMessage.                             *)
THEOREM OnlyResultsEndThreadHolds == Spec => []OnlyResultsEndThread
<1>1. IInv => OnlyResultsEndThread
  <2> SUFFICES ASSUME IInv, stage = "thread_ended"
               PROVE  /\ raw[1] = "1" /\ Field(raw, 2, Outstanding) = Outstanding
                      /\ Field(raw, 3, "nil") = "nil"
                      /\ answer.call # "exec_lua"
    BY DEF OnlyResultsEndThread
  <2>1. /\ message = make_message(raw) /\ message.kind = "response"
        /\ message.id \in {Outstanding, "unread"} /\ message.error = "nil"
        /\ answer.call # "exec_lua"
    BY DEF IInv, Converted, Answered
  <2>2. /\ raw \in Seq(Items) /\ \A i \in 1 .. Len(raw) : raw[i] \in Items
        /\ message = Made("response", raw) /\ raw[1] = "1"
    BY <2>1, MadeFrom DEF IInv, TypeOK
  <2>3. message = [kind |-> "response", id |-> IdOf(raw),
                   error |-> Field(raw, 3, "nil"), result |-> Field(raw, 4, "nil")]
    BY <2>2 DEF Made
  <2>4. IdOf(raw) \in {Outstanding, "unread"} /\ Field(raw, 3, "nil") = "nil"
    BY <2>1, <2>3
  <2>5. Field(raw, 2, Outstanding) = Outstanding
    BY <2>2, <2>4 DEF IdOf, Field, Items, Ids
  <2> QED
    BY <2>1, <2>2, <2>4, <2>5
<1> QED
  BY Invariance, <1>1, PTL

(* A callback that has left the map is posted, or its session is over:     *)
(* ResponseIsDelivered of RpcMessage.                                      *)
THEOREM ResponseIsDeliveredHolds == Spec => ResponseIsDelivered
<1> DEFINE Delivered == message.kind = "response" /\ expected # "none" /\ expected' = "none"
                        => \/ stage' = "session_ended"
                           \/ answer'.kind \in {"result", "failure"} /\ answer'.call = expected
<1>1. [Next]_vars => [Delivered]_vars
  <2> SUFFICES ASSUME Next PROVE Delivered
    OBVIOUS
  <2>1. CASE OnError \/ OnRequest
    BY <2>1 DEF OnError, OnRequest
  <2>2. CASE OnResponse
    BY <2>2 DEF OnResponse, EndSession
  <2>3. CASE OnMessageReceived \/ OnNotification \/ Respond \/ RunCallback
    BY <2>3 DEF OnMessageReceived, OnNotification, Respond, RunCallback
  <2> QED
    BY <2>1, <2>2, <2>3 DEF Next
<1> QED
  BY <1>1, PTL DEF Spec, ResponseIsDelivered

=============================================================================
