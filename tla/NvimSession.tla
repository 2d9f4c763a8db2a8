----------------------------- MODULE NvimSession -----------------------------
(***************************************************************************)
(* One RPC session with an editor: rpc::client_t with its dispatcher and   *)
(* reader (rpc/client.cpp, rpc/dispatcher.cpp, rpc/read.hpp), the job that *)
(* owns it (service/neovim.cpp, util/job.hpp), the initialisation chain of *)
(* service/request_handler.cpp and the broadcast of service/monitor.cpp.   *)
(*                                                                         *)
(* The io thread runs one handler at a time, in the order of queue; the    *)
(* read handler is split into the iterations of its loop, during which no  *)
(* other handler runs.  Destroying the client cancels its reader, but not  *)
(* the response callbacks: they were posted without wrap().                *)
(* A definition named D_Something, placed before D, is a faulty variant of *)
(* D that no specification uses: the README says which property rejects it.*)
(*                                                                         *)
(* The stream to the editor is the FIFO that RpcWriter implements.  The    *)
(* editor is external: it executes requests in order, answers each, and    *)
(* its OnDarkMonitorConnected callback may call DarkMonitorQuery(), which  *)
(* blocks that callback until the answer, but not other requests.          *)
(***************************************************************************)
EXTENDS Naturals, Sequences, FiniteSets

CONSTANTS
  IdCount,      \* number of request ids: 2^32 in the code
  MaxThemes,    \* bound on the number of theme changes
  MaxFaults     \* bound on the messages that no editor sends

ASSUME SessionAssumption ==
  IdCount \in Nat \ {0, 1} /\ MaxThemes \in Nat /\ MaxFaults \in Nat

VARIABLES
  alive,        \* the client (and its job) exists
  msgid_,       \* msgid_: the id of the next request
  request_cbs_, \* request_cbs_: what is expected, per outstanding id
  reading,      \* an async_read is in progress
  looping,      \* handle_read is in its loop
  unpacker_,    \* unpacker_: the messages in its buffer, not yet taken out
  queue,        \* handlers ready to run
  misuse,       \* what was used after the client was destroyed
  aborted,      \* an assertion has failed: the process is gone
  outbox,       \* messages on the way to the editor
  inbox,        \* messages on the way to the client
  open,         \* the editor runs
  executed,     \* the calls the editor has executed with success
  asking,       \* ids of the requests whose callback waits for a query
  themes,       \* theme changes so far
  faults        \* messages so far that no editor sends

vars == <<alive, msgid_, request_cbs_, aborted, reading, looping, unpacker_,
          queue, misuse, outbox, inbox, open, executed, asking, themes, faults>>

client == <<alive, msgid_, request_cbs_, aborted>>
reader == <<reading, looping, unpacker_>>
editor == <<inbox, open, executed, asking>>
counters == <<themes, faults>>

Ids == 0 .. IdCount - 1
Calls == {"client_info", "api_info", "exec_lua", "connected", "theme"}
Results == {"ok", "error"}

\* Messages in either direction.  A response repeats the call it answers,
\* which the wire does not show; the program never looks at it.
Request(id, call) == [type |-> "request", id |-> id, call |-> call]
Response(id, call, result) ==
  [type |-> "response", id |-> id, call |-> call, result |-> result]

\* What an editor may ask, and what it is told: request_handler_t::on_request().
Questions == {"query", "other"}
Served(question) == IF question = "query" THEN "ok" ELSE "error"

ToEditor == {Request(id, call) : id \in Ids, call \in Calls} \union
            {Response(0, q, Served(q)) : q \in Questions}

FromEditor ==
  {Response(id, call, r) : id \in Ids, call \in Calls, r \in Results \union {"both"}}
  \union {Request(0, q) : q \in Questions}
  \union {[type |-> "notification"], [type |-> "malformed"]}

Handlers ==
  [kind : {"read"}, ok : BOOLEAN] \union
  [kind : {"callback"}, call : Calls, result : Results] \union
  [kind : {"theme", "stop", "write_error"}]

TypeOK ==
  /\ alive \in BOOLEAN
  /\ msgid_ \in Ids
  /\ DOMAIN request_cbs_ \subseteq Ids
  /\ \A id \in DOMAIN request_cbs_ : request_cbs_[id] \in Calls
  /\ aborted \in BOOLEAN
  /\ reading \in BOOLEAN /\ looping \in BOOLEAN
  /\ unpacker_ \in Seq(FromEditor)
  /\ queue \in Seq(Handlers)
  /\ misuse \in SUBSET {"unpacker", "client"}
  /\ outbox \in Seq(ToEditor) /\ inbox \in Seq(FromEditor)
  /\ open \in BOOLEAN
  /\ executed \in SUBSET Calls
  /\ asking \in SUBSET Ids
  /\ themes \in 0 .. MaxThemes
  /\ faults \in 0 .. MaxFaults

\* on_new_client() has run: two requests are on their way.
Init ==
  /\ alive = TRUE
  /\ msgid_ = 2 % IdCount
  /\ request_cbs_ = [id \in {0, 1} |-> IF id = 0 THEN "client_info" ELSE "api_info"]
  /\ aborted = FALSE
  /\ reading = TRUE /\ looping = FALSE
  /\ unpacker_ = <<>>
  /\ queue = <<>>
  /\ misuse = {}
  /\ outbox = <<Request(0, "client_info"), Request(1, "api_info")>>
  /\ inbox = <<>>
  /\ open = TRUE
  /\ executed = {}
  /\ asking = {}
  /\ themes = 0
  /\ faults = 0

-----------------------------------------------------------------------------
(* What handlers do                                                        *)

NextId_Grows(id) == id + 1
NextId(id) == (id + 1) % IdCount

\* send_request() with a free id.
Insert(call) ==
  /\ request_cbs_' = [id \in DOMAIN request_cbs_ \union {msgid_} |->
                       IF id \in DOMAIN request_cbs_ THEN request_cbs_[id] ELSE call]
  /\ msgid_' = NextId(msgid_)
  /\ outbox' = Append(outbox, Request(msgid_, call))
  /\ UNCHANGED <<alive, aborted>>

SendRequest_Unchecked(call) == Insert(call)

\* send_request() asserts that the id is free.
SendRequest(call) ==
  \/ msgid_ \notin DOMAIN request_cbs_ /\ Insert(call)
  \/ /\ msgid_ \in DOMAIN request_cbs_
     /\ alive' = FALSE /\ aborted' = TRUE
     /\ UNCHANGED <<msgid_, request_cbs_, outbox>>

\* on_client_error(), or the stop of the inventory: the job is erased, and
\* the client with its socket and the map of callbacks.
Erase ==
  /\ alive' = FALSE
  /\ request_cbs_' = <<>>
  /\ UNCHANGED <<msgid_, aborted, outbox>>

Keep == UNCHANGED <<client, outbox>>

\* on_request(): answered at once, from within the read loop.
OnRequest_Unanswered(m) == Keep
OnRequest(m) ==
  /\ outbox' = Append(outbox, Response(m.id, m.call, Served(m.call)))
  /\ UNCHANGED client

\* on_response(): the callback leaves the map and is posted, not called.
OnResponse(m) ==
  IF m.id \notin DOMAIN request_cbs_ \/ m.result = "both"
  THEN Erase /\ queue' = queue
  ELSE /\ request_cbs_' = [id \in DOMAIN request_cbs_ \ {m.id} |-> request_cbs_[id]]
       /\ queue' = Append(queue, [kind |-> "callback", call |-> request_cbs_[m.id],
                                  result |-> m.result])
       /\ UNCHANGED <<alive, msgid_, aborted, outbox>>

\* dispatcher_t::on_message_received().
Dispatch(m) ==
  \/ m.type = "request" /\ OnRequest(m) /\ queue' = queue
  \/ m.type = "response" /\ OnResponse(m)
  \/ m.type = "notification" /\ Keep /\ queue' = queue
  \/ m.type = "malformed" /\ Erase /\ queue' = queue

-----------------------------------------------------------------------------
(* The io thread                                                           *)

\* The handler at the head of the queue runs; a read handler in its loop
\* still occupies the thread.
Runs(kind) == ~ aborted /\ ~ looping /\ queue # <<>> /\ Head(queue).kind = kind

\* read_t::handle_read(), wrapped: the error case, and the start of the loop.
HandleRead ==
  /\ Runs("read")
  /\ IF alive /\ Head(queue).ok
     THEN looping' = TRUE /\ Keep
     ELSE looping' = looping /\ (IF alive THEN Erase ELSE Keep)
  /\ queue' = Tail(queue)
  /\ UNCHANGED <<reading, unpacker_, misuse, editor, counters>>

\* One iteration: the next message is unpacked and handled.
LoopNext ==
  /\ looping /\ alive /\ unpacker_ # <<>>
  /\ Dispatch(Head(unpacker_))
  /\ unpacker_' = Tail(unpacker_)
  /\ UNCHANGED <<reading, looping, misuse, editor, counters>>

\* unpacker_.next() finds nothing more: read on.
LoopEnds ==
  /\ looping /\ alive /\ unpacker_ = <<>>
  /\ looping' = FALSE
  /\ reading' = TRUE
  /\ UNCHANGED <<unpacker_, queue, client, outbox, misuse, editor, counters>>

\* The message just handled has destroyed the reader, and the loop goes on to
\* its unpacker.
LoopAfterErase ==
  /\ looping /\ ~ alive
  /\ looping' = FALSE
  /\ misuse' = misuse \union {"unpacker"}
  /\ UNCHANGED <<reading, unpacker_, queue, client, outbox, editor, counters>>

Follows_EvenAfterError(call, result) ==
  CASE call = "api_info" -> {"exec_lua"}
    [] call = "exec_lua" -> {"connected"}
    [] OTHER -> {}

Follows_StopsAfterInfo(call, result) == IF result = "ok" /\ call = "exec_lua"
                                        THEN {"connected"} ELSE {}

\* What client_initializer_t sends when a request of its was answered.
Follows(call, result) ==
  CASE result = "ok" /\ call = "api_info" -> {"exec_lua"}
    [] result = "ok" /\ call = "exec_lua" -> {"connected"}
    [] OTHER -> {}

\* A posted callback runs, and may need a client that is gone.
HandleCallback ==
  /\ Runs("callback")
  /\ LET next == Follows(Head(queue).call, Head(queue).result)
     IN  \/ next = {} /\ Keep /\ misuse' = misuse
         \/ \E call \in next :
              IF alive THEN SendRequest(call) /\ misuse' = misuse
                       ELSE Keep /\ misuse' = misuse \union {"client"}
  /\ queue' = Tail(queue)
  /\ UNCHANGED <<reader, editor, counters>>

\* monitor_t::on_appearance(): every client there is, whatever its state.
HandleTheme ==
  /\ Runs("theme")
  /\ IF alive THEN SendRequest("theme") ELSE Keep
  /\ queue' = Tail(queue)
  /\ UNCHANGED <<reader, misuse, editor, counters>>

\* The monitor stops, or a write has failed (wrapped).
HandleEnd ==
  /\ Runs("stop") \/ Runs("write_error")
  /\ Erase
  /\ queue' = Tail(queue)
  /\ reading' = FALSE
  /\ UNCHANGED <<looping, unpacker_, misuse, editor, counters>>

IoThread ==
  \/ HandleRead \/ LoopNext \/ LoopEnds \/ LoopAfterErase
  \/ HandleCallback \/ HandleTheme \/ HandleEnd

-----------------------------------------------------------------------------
(* The environment: kernel, notifier, main thread                          *)

Post(h) == queue' = Append(queue, h)

\* A read completes with some of the messages that have arrived, which are in
\* the buffer of the unpacker then, or with an error once the editor is gone
\* and everything was read.
ReadCompletes ==
  /\ reading /\ ~ aborted
  /\ reading' = FALSE
  /\ \/ \E n \in 1 .. Len(inbox) :
          /\ unpacker_' = unpacker_ \o SubSeq(inbox, 1, n)
          /\ inbox' = SubSeq(inbox, n + 1, Len(inbox))
          /\ Post([kind |-> "read", ok |-> TRUE])
     \/ /\ ~ open /\ inbox = <<>>
        /\ Post([kind |-> "read", ok |-> FALSE])
        /\ UNCHANGED <<unpacker_, inbox>>
  /\ UNCHANGED <<client, looping, misuse, outbox, open, executed, asking,
                 counters>>

ThemeChanges ==
  /\ themes < MaxThemes /\ ~ aborted
  /\ themes' = themes + 1
  /\ Post([kind |-> "theme"])
  /\ UNCHANGED <<client, reader, misuse, outbox, editor, faults>>

\* The end of the session is decided once: a signal, or the last editor gone.
StopRequested ==
  /\ alive /\ \A i \in 1 .. Len(queue) : queue[i].kind \notin {"stop", "write_error"}
  /\ \/ Post([kind |-> "stop"])
     \/ ~ open /\ outbox # <<>> /\ Post([kind |-> "write_error"])
  /\ UNCHANGED <<client, reader, misuse, outbox, editor, counters>>

-----------------------------------------------------------------------------
(* The editor                                                              *)

Answer(id, call, result) == inbox' = Append(inbox, Response(id, call, result))

\* nvim_exec_lua and the others may fail; a request is answered in turn.
EditorExecutes ==
  /\ open /\ outbox # <<>> /\ Head(outbox).type = "request"
  /\ \E id \in {Head(outbox).id}, call \in {Head(outbox).call} :
       \/ /\ Answer(id, call, "ok")
          /\ executed' = executed \union {call}
          /\ asking' = asking
       \/ /\ Answer(id, call, "error")
          /\ UNCHANGED <<executed, asking>>
       \* the callback of the autocommand calls DarkMonitorQuery()
       \/ /\ call = "connected" /\ "exec_lua" \in executed
          /\ inbox' = Append(inbox, Request(0, "query"))
          /\ executed' = executed \union {call}
          /\ asking' = asking \union {id}
  /\ outbox' = Tail(outbox)
  /\ UNCHANGED <<client, reader, queue, misuse, open, counters>>

\* The query is answered and its callback ends, with success if it could use
\* the answer.  Nobody waits for the answer to anything else.
EditorAnswered ==
  /\ open /\ outbox # <<>> /\ Head(outbox).type = "response"
  /\ \/ /\ Head(outbox).call = "query"
        /\ \E id \in asking : /\ asking' = asking \ {id}
                              /\ Answer(id, "connected", Head(outbox).result)
     \/ /\ Head(outbox).call = "other"
        /\ UNCHANGED <<asking, inbox>>
  /\ outbox' = Tail(outbox)
  /\ UNCHANGED <<client, reader, queue, misuse, open, executed, counters>>

EditorQuits ==
  /\ open /\ open' = FALSE
  /\ UNCHANGED <<client, reader, queue, misuse, outbox, inbox, executed,
                 asking, counters>>

\* What no editor sends, but the client is prepared for.
PeerFault ==
  /\ faults < MaxFaults /\ open
  /\ faults' = faults + 1
  /\ \E m \in {[type |-> "malformed"], [type |-> "notification"], Request(0, "other")}
              \union {Response(id, "theme", "both") : id \in Ids} :
       inbox' = Append(inbox, m)
  /\ UNCHANGED <<client, reader, queue, misuse, outbox, open, executed, asking,
                 themes>>

Editor == EditorExecutes \/ EditorAnswered

Next ==
  \/ IoThread
  \/ ReadCompletes \/ ThemeChanges \/ StopRequested
  \/ Editor \/ EditorQuits \/ PeerFault

(* The io thread runs its handlers, the kernel completes reads, and an     *)
(* editor that runs executes what it is sent.                              *)
Fairness == WF_vars(IoThread) /\ WF_vars(ReadCompletes) /\ WF_vars(Editor)

Spec == Init /\ [][Next]_vars

FairSpec == Spec /\ Fairness

-----------------------------------------------------------------------------
(* Properties                                                              *)

\* The messages that the client has still to look at.
Stream == unpacker_ \o inbox

\* An answer to a request, which an editor gives once.
Real(m) == m.type = "response" /\ m.result \in Results

(* Every response of an editor finds the callback of the request it        *)
(* answers, also when ids come round again: what send_request() asserts is *)
(* enough for that (client.cpp:13-29, 60-66).                              *)
ResponsesMatch ==
  alive => \A i \in 1 .. Len(Stream) :
             Real(Stream[i]) => /\ Stream[i].id \in DOMAIN request_cbs_
                                /\ request_cbs_[Stream[i].id] = Stream[i].call

(* The editor runs OnDarkMonitorConnected only when DarkMonitorQuery is    *)
(* registered (README.md:39, request_handler.cpp:48-72).                   *)
ConnectedIsRegistered == "connected" \in executed => "exec_lua" \in executed

Refused ==
  \E i \in 1 .. Len(Stream) : Stream[i].type = "response" /\ Stream[i].result = "error"

(* The initialisation comes to its end: the editor is told that it is      *)
(* connected, unless the session ends or the editor refused a step.        *)
GetsConnected == <>("connected" \in executed \/ ~ alive \/ ~ open \/ Refused)

(* A callback that waits for DarkMonitorQuery() gets its answer: the two   *)
(* programs never wait for each other (request_handler.cpp:92-105,         *)
(* client.cpp:36-58).                                                      *)
QueryAnswered == asking # {} ~> (asking = {} \/ ~ alive \/ ~ open)

\* The places of a sequence where a query, or the answer to one, is.
IsQuery(m) == m.type \in {"request", "response"} /\ m.call = "query"
Queries(s) == {i \in 1 .. Len(s) : IsQuery(s[i])}

(* What QueryAnswered rests on: as long as the session lasts, every        *)
(* callback that waits has its query on the way to the client or its       *)
(* answer on the way back, and no query is answered twice                  *)
(* (request_handler.cpp:92-105, dispatcher.cpp, client.cpp:36-58).         *)
QueryUnderWay ==
  alive => Cardinality(asking) =
             Cardinality(Queries(Stream)) + Cardinality(Queries(outbox))

(* A response callback runs while its client exists (job.hpp:85-87,        *)
(* client.cpp:75-86, request_handler.cpp:48-72).                           *)
CallbackFindsClient == "client" \notin misuse

=============================================================================
