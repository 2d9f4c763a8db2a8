-------------------------- MODULE NvimSessionProofs --------------------------
(***************************************************************************)
(* Proofs about NvimSession: the type invariant, that every response finds *)
(* its request (ResponsesMatch), that OnDarkMonitorConnected comes after   *)
(* DarkMonitorQuery is registered (ConnectedIsRegistered), that nobody     *)
(* waits for a query in vain (QueryUnderWay), and that the client goes on  *)
(* reading.                                                                *)
(*                                                                         *)
(* A request is outstanding while it is on the way to the editor, while    *)
(* the editor waits for a query to answer it, or while its answer is on    *)
(* the way back.  Expected says that the client has an entry for each of   *)
(* these and that no two of them have the same id; the id of a new request *)
(* has no entry, so it is none of theirs.  Balanced counts the callbacks   *)
(* that wait and the queries and answers under way.                        *)
(***************************************************************************)
EXTENDS NvimSession, TLAPS, FiniteSetTheorems

-----------------------------------------------------------------------------
(* Messages in a sequence                                                  *)

\* A request of the client, or an answer to one.
Carries(m) ==
  /\ m.type \in {"request", "response"} /\ m.call \in Calls
  /\ m.type = "response" => m.result \in Results

Carried(s) == {s[i].id : i \in {j \in 1 .. Len(s) : Carries(s[j])}}

\* No two of them have the same id.
Once(s) ==
  \A i, j \in 1 .. Len(s) :
    Carries(s[i]) /\ Carries(s[j]) /\ s[i].id = s[j].id => i = j

LEMMA OnceAppend ==
  ASSUME NEW S, NEW s \in Seq(S), NEW m \in S, Once(s),
         Carries(m) => m.id \notin Carried(s)
  PROVE  /\ Once(Append(s, m))
         /\ Carries(m) => Carried(Append(s, m)) = Carried(s) \union {m.id}
         /\ ~ Carries(m) => Carried(Append(s, m)) = Carried(s)
<1> DEFINE t == Append(s, m)
<1>1. /\ Len(s) \in Nat /\ Len(t) = Len(s) + 1 /\ t[Len(s) + 1] = m
      /\ \A i \in 1 .. Len(s) : t[i] = s[i]
  OBVIOUS
<1>2. Once(t)
  <2> SUFFICES ASSUME NEW i \in 1 .. Len(t), NEW j \in 1 .. Len(t), i < j,
                      Carries(t[i]), Carries(t[j]), t[i].id = t[j].id
               PROVE  FALSE
    BY <1>1 DEF Once
  <2>1. i \in 1 .. Len(s) /\ t[i] = s[i]
    BY <1>1
  <2>2. CASE j = Len(s) + 1
    BY <1>1, <2>1, <2>2 DEF Carried
  <2>3. CASE j \in 1 .. Len(s)
    BY <1>1, <2>1, <2>3 DEF Once
  <2> QED
    BY <1>1, <2>2, <2>3
<1>3. Carried(t) = Carried(s) \union (IF Carries(m) THEN {m.id} ELSE {})
  <2>1. ASSUME NEW x \in Carried(t)
        PROVE  x \in Carried(s) \/ (Carries(m) /\ x = m.id)
    <3>1. PICK i \in 1 .. Len(t) : Carries(t[i]) /\ x = t[i].id
      BY DEF Carried
    <3> QED
      BY <1>1, <3>1 DEF Carried
  <2>2. ASSUME NEW x \in Carried(s) PROVE x \in Carried(t)
    <3>1. PICK i \in 1 .. Len(s) : Carries(s[i]) /\ x = s[i].id
      BY DEF Carried
    <3>2. i \in 1 .. Len(t) /\ t[i] = s[i]
      BY <1>1
    <3> QED
      BY <3>1, <3>2 DEF Carried
  <2>3. Carries(m) => m.id \in Carried(t)
    <3>1. Len(s) + 1 \in 1 .. Len(t)
      BY <1>1
    <3> QED
      BY <1>1, <3>1 DEF Carried
  <2> QED
    BY <2>1, <2>2, <2>3
<1> QED
  BY <1>2, <1>3

LEMMA OnceTail ==
  ASSUME NEW S, NEW s \in Seq(S), s # <<>>, Once(s)
  PROVE  /\ Once(Tail(s))
         /\ Carried(Tail(s)) \subseteq Carried(s)
         /\ Carries(Head(s)) => /\ Head(s).id \in Carried(s)
                                /\ Head(s).id \notin Carried(Tail(s))
<1>1. /\ Len(s) \in Nat /\ 1 \in 1 .. Len(s)
      /\ Len(Tail(s)) = Len(s) - 1
      /\ Head(s) = s[1]
      /\ \A i \in 1 .. Len(s) - 1 : i + 1 \in 1 .. Len(s) /\ Tail(s)[i] = s[i + 1]
  OBVIOUS
<1>2. Once(Tail(s))
  <2> SUFFICES ASSUME NEW i \in 1 .. Len(s) - 1, NEW j \in 1 .. Len(s) - 1,
                      Carries(Tail(s)[i]), Carries(Tail(s)[j]),
                      Tail(s)[i].id = Tail(s)[j].id
               PROVE  i = j
    BY <1>1 DEF Once
  <2>1. i + 1 = j + 1
    BY <1>1 DEF Once
  <2> QED
    BY <2>1
<1>3. ASSUME NEW x \in Carried(Tail(s))
      PROVE  \E i \in 1 .. Len(s) : i # 1 /\ Carries(s[i]) /\ x = s[i].id
  <2>1. PICK i \in 1 .. Len(s) - 1 : Carries(Tail(s)[i]) /\ x = Tail(s)[i].id
    BY <1>1 DEF Carried
  <2>2. i + 1 \in 1 .. Len(s) /\ i + 1 # 1
    BY <1>1
  <2> QED
    BY <1>1, <2>1, <2>2
<1>4. Carried(Tail(s)) \subseteq Carried(s)
  BY <1>3 DEF Carried
<1>5. Carries(Head(s)) => Head(s).id \in Carried(s)
  BY <1>1 DEF Carried
<1>6. ASSUME Carries(Head(s)) PROVE Head(s).id \notin Carried(Tail(s))
  BY <1>1, <1>3, <1>6 DEF Once
<1> QED
  BY <1>2, <1>4, <1>5, <1>6

\* Sequences with the same elements are equal.
LEMMA SeqEq ==
  ASSUME NEW S, NEW s \in Seq(S), NEW t \in Seq(S), Len(s) = Len(t),
         \A i \in 1 .. Len(s) : s[i] = t[i]
  PROVE  s = t
  OBVIOUS

-----------------------------------------------------------------------------
(* Types                                                                   *)

LEMMA MessageTypes ==
  ASSUME SessionAssumption
  PROVE  /\ 0 \in Ids /\ 1 \in Ids
         /\ \A id \in Ids, call \in Calls : Request(id, call) \in ToEditor
         /\ \A m \in ToEditor : m.type \in {"request", "response"}
         /\ \A m \in ToEditor : m.type = "request" => m.id \in Ids /\ m.call \in Calls
         /\ \A m \in ToEditor : m.type = "response" => m.call \in Questions /\ m.result \in Results
         /\ \A id \in Ids, call \in Calls, r \in Results \union {"both"} :
              Response(id, call, r) \in FromEditor
         /\ \A q \in Questions : Request(0, q) \in FromEditor
         /\ [type |-> "notification"] \in FromEditor /\ [type |-> "malformed"] \in FromEditor
         /\ \A m \in FromEditor : m.type = "request" =>
              m.call \in Questions /\ Response(m.id, m.call, Served(m.call)) \in ToEditor
         /\ \A m \in FromEditor : m.type = "response" =>
              m.id \in Ids /\ m.call \in Calls /\ m.result \in Results \union {"both"}
<1> USE DEF SessionAssumption, Ids, Request, Response, Questions, Served, Results
<1>1. 0 \in Ids /\ 1 \in Ids
  OBVIOUS
<1>2. \A id \in Ids, call \in Calls : Request(id, call) \in ToEditor
  BY DEF ToEditor
<1>3. ASSUME NEW m \in ToEditor
      PROVE  /\ m.type \in {"request", "response"}
             /\ m.type = "request" => m.id \in Ids /\ m.call \in Calls
             /\ m.type = "response" => m.call \in Questions /\ m.result \in Results
  BY DEF ToEditor
<1>4. \A id \in Ids, call \in Calls, r \in Results \union {"both"} :
        Response(id, call, r) \in FromEditor
  BY DEF FromEditor
<1>5. /\ \A q \in Questions : Request(0, q) \in FromEditor
      /\ [type |-> "notification"] \in FromEditor /\ [type |-> "malformed"] \in FromEditor
  BY DEF FromEditor
<1>6. ASSUME NEW m \in FromEditor, m.type = "request"
      PROVE  m.call \in Questions /\ Response(m.id, m.call, Served(m.call)) \in ToEditor
  <2>1. PICK q \in Questions : m = Request(0, q)
    BY <1>6 DEF FromEditor
  <2> QED
    BY <2>1 DEF ToEditor
<1>7. ASSUME NEW m \in FromEditor, m.type = "response"
      PROVE  m.id \in Ids /\ m.call \in Calls /\ m.result \in Results \union {"both"}
  BY <1>7 DEF FromEditor
<1> QED
  BY <1>1, <1>2, <1>3, <1>4, <1>5, <1>6, <1>7

LEMMA NextIdType ==
  ASSUME SessionAssumption, NEW id \in Ids
  PROVE  NextId(id) \in Ids
  BY DEF SessionAssumption, Ids, NextId

LEMMA HandlerTypes ==
  /\ \A ok \in BOOLEAN : [kind |-> "read", ok |-> ok] \in Handlers
  /\ \A call \in Calls, result \in Results :
       [kind |-> "callback", call |-> call, result |-> result] \in Handlers
  /\ \A k \in {"theme", "stop", "write_error"} : [kind |-> k] \in Handlers
  /\ \A h \in Handlers : h.kind = "callback" => h.call \in Calls /\ h.result \in Results
  BY DEF Handlers

LEMMA RunsType ==
  ASSUME TypeOK, NEW k, Runs(k)
  PROVE  /\ Head(queue) \in Handlers /\ Head(queue).kind = k
         /\ Tail(queue) \in Seq(Handlers)
  BY DEF TypeOK, Runs

LEMMA PostType ==
  ASSUME TypeOK, NEW h \in Handlers, Post(h)
  PROVE  queue' \in Seq(Handlers)
  BY DEF TypeOK, Post

LEMMA InsertType ==
  ASSUME TypeOK, NEW call \in Calls, Insert(call)
  PROVE  /\ msgid_' \in Ids /\ DOMAIN request_cbs_' \subseteq Ids
         /\ \A id \in DOMAIN request_cbs_' : request_cbs_'[id] \in Calls
         /\ outbox' \in Seq(ToEditor) /\ alive' = alive /\ aborted' = aborted
<1> USE SessionAssumption, MessageTypes, NextIdType
<1>1. /\ DOMAIN request_cbs_' = DOMAIN request_cbs_ \union {msgid_}
      /\ \A id \in DOMAIN request_cbs_' : request_cbs_'[id] \in Calls
  BY DEF Insert, TypeOK
<1>2. Request(msgid_, call) \in ToEditor
  BY DEF TypeOK
<1>3. outbox' \in Seq(ToEditor)
  BY <1>2 DEF Insert, TypeOK
<1> QED
  BY <1>1, <1>3 DEF Insert, TypeOK

LEMMA ClientType ==
  ASSUME TypeOK,
         \/ Erase \/ Keep
         \/ \E call \in Calls : SendRequest(call)
  PROVE  /\ alive' \in BOOLEAN /\ aborted' \in BOOLEAN
         /\ msgid_' \in Ids /\ DOMAIN request_cbs_' \subseteq Ids
         /\ \A id \in DOMAIN request_cbs_' : request_cbs_'[id] \in Calls
         /\ outbox' \in Seq(ToEditor)
<1>1. CASE Erase
  <2>1. DOMAIN request_cbs_' = {}
    BY <1>1 DEF Erase
  <2> QED
    BY <1>1, <2>1 DEF Erase, TypeOK
<1>2. CASE Keep
  BY <1>2 DEF Keep, client, TypeOK
<1>3. ASSUME NEW call \in Calls, SendRequest(call)
      PROVE  /\ alive' \in BOOLEAN /\ aborted' \in BOOLEAN
             /\ msgid_' \in Ids /\ DOMAIN request_cbs_' \subseteq Ids
             /\ \A id \in DOMAIN request_cbs_' : request_cbs_'[id] \in Calls
             /\ outbox' \in Seq(ToEditor)
  <2>1. CASE Insert(call)
    BY <2>1, InsertType DEF TypeOK
  <2>2. CASE ~ Insert(call)
    BY <1>3, <2>2 DEF SendRequest, TypeOK
  <2> QED
    BY <2>1, <2>2
<1> QED
  BY <1>1, <1>2, <1>3

LEMMA TypeInit == Init => TypeOK
<1> SUFFICES ASSUME Init PROVE TypeOK
  OBVIOUS
<1> USE SessionAssumption, MessageTypes
<1>1. msgid_ \in Ids
  BY DEF Init, Ids, SessionAssumption
<1>2. /\ DOMAIN request_cbs_ \subseteq Ids
      /\ \A id \in DOMAIN request_cbs_ : request_cbs_[id] \in Calls
  BY DEF Init, Calls
<1>3. outbox \in Seq(ToEditor)
  <2>1. "client_info" \in Calls /\ "api_info" \in Calls
    BY DEF Calls
  <2> QED
    BY <2>1 DEF Init
<1>4. /\ unpacker_ \in Seq(FromEditor) /\ inbox \in Seq(FromEditor)
      /\ queue \in Seq(Handlers)
  BY DEF Init
<1>5. themes \in 0 .. MaxThemes /\ faults \in 0 .. MaxFaults
  BY DEF Init, SessionAssumption
<1> QED
  BY <1>1, <1>2, <1>3, <1>4, <1>5 DEF Init, TypeOK

LEMMA TypeLoop == TypeOK /\ LoopNext => TypeOK'
<1> SUFFICES ASSUME TypeOK, LoopNext PROVE TypeOK'
  OBVIOUS
<1> USE SessionAssumption, MessageTypes
<1> DEFINE m == Head(unpacker_)
<1>1. m \in FromEditor /\ Tail(unpacker_) \in Seq(FromEditor)
  BY DEF LoopNext, TypeOK
<1>2. /\ alive' \in BOOLEAN /\ aborted' \in BOOLEAN
      /\ msgid_' \in Ids /\ DOMAIN request_cbs_' \subseteq Ids
      /\ \A id \in DOMAIN request_cbs_' : request_cbs_'[id] \in Calls
      /\ outbox' \in Seq(ToEditor) /\ queue' \in Seq(Handlers)
  <2>1. CASE m.type = "request" /\ OnRequest(m) /\ queue' = queue
    <3>1. outbox' \in Seq(ToEditor)
      BY <1>1, <2>1 DEF OnRequest, TypeOK
    <3> QED
      BY <2>1, <3>1 DEF OnRequest, client, TypeOK
  <2>2. CASE m.type = "response" /\ OnResponse(m)
    <3>1. CASE Erase /\ queue' = queue
      BY <3>1, ClientType DEF TypeOK
    <3>2. CASE ~ (m.id \notin DOMAIN request_cbs_ \/ m.result = "both")
      <4>1. m.result \in Results /\ request_cbs_[m.id] \in Calls
        BY <1>1, <2>2, <3>2 DEF TypeOK
      <4>2. queue' \in Seq(Handlers)
          <5>1. [kind |-> "callback", call |-> request_cbs_[m.id], result |-> m.result] \in Handlers
            BY <4>1, HandlerTypes
          <5>2. \E h \in Handlers : queue' = Append(queue, h)
            BY <2>2, <3>2, <5>1 DEF OnResponse
          <5> QED
            BY <5>2 DEF TypeOK
      <4> QED
        BY <2>2, <3>2, <4>2 DEF OnResponse, TypeOK
    <3> QED
      BY <2>2, <3>1, <3>2 DEF OnResponse
  <2>3. CASE (Keep \/ Erase) /\ queue' = queue
    BY <2>3, ClientType DEF TypeOK
  <2> QED
    BY <2>1, <2>2, <2>3 DEF LoopNext, Dispatch
<1> QED
  BY <1>1, <1>2 DEF LoopNext, TypeOK, editor, counters

LEMMA FollowsType == \A call, result : Follows(call, result) \subseteq Calls
  BY DEF Follows, Calls

LEMMA TypeIo == TypeOK /\ IoThread => TypeOK'
<1> SUFFICES ASSUME TypeOK, IoThread PROVE TypeOK'
  OBVIOUS
<1>1. CASE HandleRead
  <2>1. Tail(queue) \in Seq(Handlers)
    BY <1>1, RunsType DEF HandleRead
  <2>2. Keep \/ Erase
    BY <1>1 DEF HandleRead
  <2> QED
    BY <1>1, <2>1, <2>2, ClientType DEF HandleRead, TypeOK, editor, counters
<1>2. CASE LoopNext
  BY <1>2, TypeLoop
<1>3. CASE LoopEnds
  BY <1>3 DEF LoopEnds, TypeOK, client, editor, counters
<1>4. CASE LoopAfterErase
  BY <1>4 DEF LoopAfterErase, TypeOK, client, editor, counters
<1>5. CASE HandleCallback
  <2>1. Tail(queue) \in Seq(Handlers)
    BY <1>5, RunsType DEF HandleCallback
  <2>2. misuse' \in SUBSET {"unpacker", "client"}
    BY <1>5 DEF HandleCallback, TypeOK
  <2>3. Keep \/ \E call \in Calls : SendRequest(call)
    BY <1>5, FollowsType DEF HandleCallback
  <2> QED
    BY <1>5, <2>1, <2>2, <2>3, ClientType DEF HandleCallback, TypeOK, reader, editor, counters
<1>6. CASE HandleTheme
  <2>1. Tail(queue) \in Seq(Handlers)
    BY <1>6, RunsType DEF HandleTheme
  <2>2. Keep \/ \E call \in Calls : SendRequest(call)
    BY <1>6 DEF HandleTheme, Calls
  <2> QED
    BY <1>6, <2>1, <2>2, ClientType DEF HandleTheme, TypeOK, reader, editor, counters
<1>7. CASE HandleEnd
  <2>1. Tail(queue) \in Seq(Handlers)
    BY <1>7, RunsType DEF HandleEnd
  <2> QED
    BY <1>7, <2>1, ClientType DEF HandleEnd, TypeOK, editor, counters
<1> QED
  BY <1>1, <1>2, <1>3, <1>4, <1>5, <1>6, <1>7 DEF IoThread

LEMMA TypeEnvironment ==
  TypeOK /\ (ReadCompletes \/ ThemeChanges \/ StopRequested) => TypeOK'
<1> SUFFICES ASSUME TypeOK, ReadCompletes \/ ThemeChanges \/ StopRequested
             PROVE  TypeOK'
  OBVIOUS
<1>1. CASE ReadCompletes
  <2>1. unpacker_' \in Seq(FromEditor) /\ inbox' \in Seq(FromEditor)
    <3>1. ASSUME NEW n \in 1 .. Len(inbox)
          PROVE  /\ unpacker_ \o SubSeq(inbox, 1, n) \in Seq(FromEditor)
                 /\ SubSeq(inbox, n + 1, Len(inbox)) \in Seq(FromEditor)
      BY DEF TypeOK
    <3> QED
      BY <1>1, <3>1 DEF ReadCompletes, TypeOK
  <2>2. queue' \in Seq(Handlers)
    BY <1>1, HandlerTypes, PostType DEF ReadCompletes
  <2> QED
    BY <1>1, <2>1, <2>2 DEF ReadCompletes, TypeOK, client, counters
<1>2. CASE ThemeChanges
  <2>1. queue' \in Seq(Handlers)
    BY <1>2, HandlerTypes, PostType DEF ThemeChanges
  <2>2. themes' \in 0 .. MaxThemes
    BY <1>2, SessionAssumption DEF ThemeChanges, TypeOK, SessionAssumption
  <2> QED
    BY <1>2, <2>1, <2>2 DEF ThemeChanges, TypeOK, client, reader, editor
<1>3. CASE StopRequested
  <2>1. queue' \in Seq(Handlers)
    BY <1>3, HandlerTypes, PostType DEF StopRequested
  <2> QED
    BY <1>3, <2>1 DEF StopRequested, TypeOK, client, reader, editor, counters
<1> QED
  BY <1>1, <1>2, <1>3

LEMMA TypeEditor ==
  TypeOK /\ (Editor \/ EditorQuits \/ PeerFault) => TypeOK'
<1> SUFFICES ASSUME TypeOK, Editor \/ EditorQuits \/ PeerFault
             PROVE  TypeOK'
  OBVIOUS
<1> USE SessionAssumption, MessageTypes
<1>1. CASE EditorExecutes
  <2>1. /\ Head(outbox).id \in Ids /\ Head(outbox).call \in Calls
        /\ Tail(outbox) \in Seq(ToEditor)
    BY <1>1 DEF EditorExecutes, TypeOK
  <2>2. /\ inbox' \in Seq(FromEditor)
        /\ executed' \in SUBSET Calls /\ asking' \in SUBSET Ids
    <3>1. /\ Response(Head(outbox).id, Head(outbox).call, "ok") \in FromEditor
          /\ Response(Head(outbox).id, Head(outbox).call, "error") \in FromEditor
          /\ Request(0, "query") \in FromEditor
      BY <2>1 DEF Results, Questions
    <3>2. /\ \E m \in FromEditor : inbox' = Append(inbox, m)
          /\ executed' \subseteq executed \union {Head(outbox).call}
          /\ asking' \subseteq asking \union {Head(outbox).id}
      BY <1>1, <3>1 DEF EditorExecutes, Answer
    <3> QED
      BY <2>1, <3>2 DEF TypeOK
  <2> QED
    BY <1>1, <2>1, <2>2 DEF EditorExecutes, TypeOK, client, reader, counters
<1>2. CASE EditorAnswered
  <2>1. Tail(outbox) \in Seq(ToEditor) /\ Head(outbox).result \in Results
    BY <1>2 DEF EditorAnswered, TypeOK
  <2>2. inbox' \in Seq(FromEditor) /\ asking' \in SUBSET Ids
    <3>1. \A id \in asking : Response(id, "connected", Head(outbox).result) \in FromEditor
      BY <2>1 DEF Calls, TypeOK
    <3>2. /\ inbox' = inbox \/ \E m \in FromEditor : inbox' = Append(inbox, m)
          /\ asking' \subseteq asking
      BY <1>2, <3>1 DEF EditorAnswered, Answer
    <3>3. inbox \in Seq(FromEditor) /\ asking \in SUBSET Ids
      BY DEF TypeOK
    <3>4. \A m \in FromEditor : Append(inbox, m) \in Seq(FromEditor)
      BY <3>3
    <3>5. inbox' \in Seq(FromEditor)
      BY <3>2, <3>3, <3>4, Zenon
    <3> QED
      BY <3>2, <3>3, <3>5, Zenon
  <2> QED
    BY <1>2, <2>1, <2>2 DEF EditorAnswered, TypeOK, client, reader, counters
<1>3. CASE EditorQuits
  BY <1>3 DEF EditorQuits, TypeOK, client, reader, counters
<1>4. CASE PeerFault
  <2>1. inbox' \in Seq(FromEditor)
    <3>1. PICK m \in {[type |-> "malformed"], [type |-> "notification"], Request(0, "other")}
                     \union {Response(id, "theme", "both") : id \in Ids} :
            inbox' = Append(inbox, m)
      BY <1>4 DEF PeerFault
    <3>2. m \in FromEditor
      BY <3>1 DEF Calls, Questions
    <3> QED
      BY <3>1, <3>2 DEF TypeOK
  <2>2. faults' \in 0 .. MaxFaults
    BY <1>4 DEF PeerFault, TypeOK, SessionAssumption
  <2> QED
    BY <1>4, <2>1, <2>2 DEF PeerFault, TypeOK, client, reader
<1> QED
  BY <1>1, <1>2, <1>3, <1>4 DEF Editor

LEMMA TypeStep == TypeOK /\ [Next]_vars => TypeOK'
<1> SUFFICES ASSUME TypeOK, [Next]_vars PROVE TypeOK'
  OBVIOUS
<1>1. CASE UNCHANGED vars
  BY <1>1 DEF vars, TypeOK
<1> QED
  BY <1>1, TypeIo, TypeEnvironment, TypeEditor DEF Next

(* Every variable keeps its type, for any number of ids, of changes of the *)
(* theme and of faults.                                                    *)
THEOREM TypeCorrect == Spec => []TypeOK
  BY TypeInit, TypeStep, PTL DEF Spec

-----------------------------------------------------------------------------
(* Outstanding requests                                                    *)

\* The client expects an answer to every request in a sequence.
Matches(s, cbs) ==
  \A i \in 1 .. Len(s) : Carries(s[i]) =>
    s[i].id \in DOMAIN cbs /\ cbs[s[i].id] = s[i].call

\* No outstanding request has the id.
Unused(id, s, t, ids) == id \notin Carried(s) /\ id \notin Carried(t) /\ id \notin ids

\* The requests in two sequences, and those whose callback waits.
Outstanding(s, t, ids, cbs) ==
  /\ Once(s) /\ Once(t)
  /\ Carried(s) \intersect Carried(t) = {}
  /\ ids \intersect Carried(s) = {} /\ ids \intersect Carried(t) = {}
  /\ Matches(s, cbs) /\ Matches(t, cbs)
  /\ \A id \in ids : id \in DOMAIN cbs /\ cbs[id] = "connected"

Expected == alive => Outstanding(Stream, outbox, asking, request_cbs_)

LEMMA Swapped ==
  ASSUME NEW s, NEW t, NEW ids, NEW cbs, Outstanding(s, t, ids, cbs)
  PROVE  Outstanding(t, s, ids, cbs)
  BY DEF Outstanding

\* Whatever is outstanding has an entry.
LEMMA UnusedWithoutEntry ==
  ASSUME NEW s, NEW t, NEW ids, NEW cbs, Outstanding(s, t, ids, cbs),
         NEW id, id \notin DOMAIN cbs
  PROVE  Unused(id, s, t, ids)
  BY DEF Outstanding, Unused, Matches, Carried

\* The head of a sequence is taken away: its id is free.
LEMMA Taken ==
  ASSUME NEW S, NEW s \in Seq(S), s # <<>>,
         NEW t, NEW ids, NEW cbs, Outstanding(s, t, ids, cbs)
  PROVE  /\ Outstanding(Tail(s), t, ids, cbs)
         /\ Carries(Head(s)) =>
              /\ Unused(Head(s).id, Tail(s), t, ids)
              /\ Head(s).id \in DOMAIN cbs /\ cbs[Head(s).id] = Head(s).call
<1>1. /\ Once(Tail(s)) /\ Carried(Tail(s)) \subseteq Carried(s)
      /\ Carries(Head(s)) => /\ Head(s).id \in Carried(s)
                             /\ Head(s).id \notin Carried(Tail(s))
  BY OnceTail DEF Outstanding
<1>2. /\ Len(s) \in Nat /\ 1 \in 1 .. Len(s) /\ Head(s) = s[1]
      /\ Len(Tail(s)) = Len(s) - 1
      /\ \A i \in 1 .. Len(s) - 1 : i + 1 \in 1 .. Len(s) /\ Tail(s)[i] = s[i + 1]
  OBVIOUS
<1>3. Matches(Tail(s), cbs)
  BY <1>2 DEF Outstanding, Matches
<1>4. Carries(Head(s)) => Head(s).id \in DOMAIN cbs /\ cbs[Head(s).id] = Head(s).call
  BY <1>2 DEF Outstanding, Matches
<1>5. Outstanding(Tail(s), t, ids, cbs)
  BY <1>1, <1>3 DEF Outstanding
<1> QED
  BY <1>1, <1>4, <1>5 DEF Outstanding, Unused

\* A message is put at the end: none of ours, or with an id that is free.
LEMMA PutBehind ==
  ASSUME NEW S, NEW s \in Seq(S), NEW m \in S,
         NEW t, NEW ids, NEW cbs, Outstanding(s, t, ids, cbs),
         Carries(m) => /\ Unused(m.id, s, t, ids)
                       /\ m.id \in DOMAIN cbs /\ cbs[m.id] = m.call
  PROVE  Outstanding(Append(s, m), t, ids, cbs)
<1>1. /\ Once(Append(s, m))
      /\ Carries(m) => Carried(Append(s, m)) = Carried(s) \union {m.id}
      /\ ~ Carries(m) => Carried(Append(s, m)) = Carried(s)
  BY OnceAppend DEF Outstanding, Unused
<1>2. Matches(Append(s, m), cbs)
  <2>1. /\ Len(s) \in Nat /\ Len(Append(s, m)) = Len(s) + 1
        /\ Append(s, m)[Len(s) + 1] = m
        /\ \A i \in 1 .. Len(s) : Append(s, m)[i] = s[i]
    OBVIOUS
  <2>2. ASSUME NEW i \in 1 .. Len(s) + 1, Carries(Append(s, m)[i])
        PROVE  /\ Append(s, m)[i].id \in DOMAIN cbs
               /\ cbs[Append(s, m)[i].id] = Append(s, m)[i].call
    <3>1. CASE i = Len(s) + 1
      BY <2>1, <2>2, <3>1
    <3>2. CASE i \in 1 .. Len(s)
      BY <2>1, <2>2, <3>2 DEF Outstanding, Matches
    <3> QED
      BY <2>1, <3>1, <3>2
  <2> QED
    BY <2>1, <2>2 DEF Matches
<1> QED
  BY <1>1, <1>2 DEF Outstanding, Unused

\* A callback of the editor begins to wait, and ends.
LEMMA Asks ==
  ASSUME NEW s, NEW t, NEW ids, NEW cbs, Outstanding(s, t, ids, cbs),
         NEW id, Unused(id, s, t, ids), id \in DOMAIN cbs, cbs[id] = "connected"
  PROVE  Outstanding(s, t, ids \union {id}, cbs)
  BY DEF Outstanding, Unused

LEMMA Answered ==
  ASSUME NEW s, NEW t, NEW ids, NEW cbs, Outstanding(s, t, ids, cbs), NEW id \in ids
  PROVE  /\ Outstanding(s, t, ids \ {id}, cbs)
         /\ Unused(id, s, t, ids \ {id})
         /\ id \in DOMAIN cbs /\ cbs[id] = "connected"
  BY DEF Outstanding, Unused

\* An entry that nothing outstanding needs is removed; an entry is added.
LEMMA EntryRemoved ==
  ASSUME NEW s, NEW t, NEW ids, NEW cbs, Outstanding(s, t, ids, cbs),
         NEW id, Unused(id, s, t, ids)
  PROVE  Outstanding(s, t, ids, [k \in DOMAIN cbs \ {id} |-> cbs[k]])
  BY DEF Outstanding, Unused, Matches, Carried

LEMMA EntryAdded ==
  ASSUME NEW s, NEW t, NEW ids, NEW cbs, Outstanding(s, t, ids, cbs),
         NEW new, DOMAIN cbs \subseteq DOMAIN new,
         \A id \in DOMAIN cbs : new[id] = cbs[id]
  PROVE  Outstanding(s, t, ids, new)
  BY DEF Outstanding, Matches

-----------------------------------------------------------------------------
(* The stream to the client                                                *)

LEMMA StreamType == TypeOK => Stream \in Seq(FromEditor)
  BY DEF TypeOK, Stream

\* What a read takes from the socket is in the buffer.
LEMMA StreamReads ==
  ASSUME NEW S, NEW u \in Seq(S), NEW v \in Seq(S), NEW n \in 1 .. Len(v)
  PROVE  (u \o SubSeq(v, 1, n)) \o SubSeq(v, n + 1, Len(v)) = u \o v
<1> DEFINE a == u \o SubSeq(v, 1, n)
           b == SubSeq(v, n + 1, Len(v))
<1>1. /\ a \in Seq(S) /\ b \in Seq(S)
      /\ Len(u) \in Nat /\ Len(v) \in Nat
      /\ Len(a) = Len(u) + n /\ Len(b) = Len(v) - n
      /\ \A i \in 1 .. Len(u) : a[i] = u[i]
      /\ \A i \in Len(u) + 1 .. Len(u) + n : a[i] = v[i - Len(u)]
      /\ \A i \in 1 .. Len(v) - n : b[i] = v[n + i]
  OBVIOUS
<1> HIDE DEF a, b
<1>2. /\ a \o b \in Seq(S) /\ u \o v \in Seq(S)
      /\ Len(a \o b) = Len(u) + Len(v) /\ Len(u \o v) = Len(u) + Len(v)
  <2>1. a \in Seq(S) /\ b \in Seq(S)
    BY <1>1
  <2>2. /\ a \o b \in Seq(S) /\ u \o v \in Seq(S)
        /\ Len(a \o b) = Len(a) + Len(b) /\ Len(u \o v) = Len(u) + Len(v)
    BY <2>1
  <2>3. Len(a) + Len(b) = Len(u) + Len(v)
    BY <1>1
  <2> QED
    BY <2>2, <2>3
<1>3. ASSUME NEW i \in 1 .. Len(u) + Len(v) PROVE (a \o b)[i] = (u \o v)[i]
  <2>1. CASE i \in 1 .. Len(u)
    BY <1>1, <2>1
  <2>2. CASE i \in Len(u) + 1 .. Len(u) + n
    BY <1>1, <2>2
  <2>3. CASE i \in Len(u) + n + 1 .. Len(u) + Len(v)
    <3>1. /\ (a \o b)[i] = b[i - Len(a)] /\ (u \o v)[i] = v[i - Len(u)]
          /\ i - Len(a) \in 1 .. Len(v) - n /\ n + (i - Len(a)) = i - Len(u)
      BY <1>1, <2>3, SMTT(30)
    <3> QED
      BY <1>1, <3>1
  <2>4. Len(u) \in Nat /\ Len(v) \in Nat /\ n \in 1 .. Len(v)
    BY <1>1
  <2>5. \/ i \in 1 .. Len(u) \/ i \in Len(u) + 1 .. Len(u) + n
        \/ i \in Len(u) + n + 1 .. Len(u) + Len(v)
    BY <2>4
  <2> QED
    BY <2>1, <2>2, <2>3, <2>5, Zenon
<1>4. a \o b = u \o v
  BY <1>2, <1>3, SeqEq
<1> QED
  BY <1>4 DEF a, b

LEMMA StreamAppends ==
  ASSUME NEW S, NEW u \in Seq(S), NEW v \in Seq(S), NEW m \in S
  PROVE  u \o Append(v, m) = Append(u \o v, m)
<1>1. /\ Len(u \o Append(v, m)) = Len(u) + Len(v) + 1
      /\ Len(Append(u \o v, m)) = Len(u) + Len(v) + 1
      /\ Len(u) \in Nat /\ Len(v) \in Nat
      /\ u \o Append(v, m) \in Seq(S) /\ Append(u \o v, m) \in Seq(S)
  OBVIOUS
<1>2. ASSUME NEW i \in 1 .. Len(u) + Len(v) + 1
      PROVE  (u \o Append(v, m))[i] = Append(u \o v, m)[i]
  OBVIOUS
<1> QED
  BY <1>1, <1>2, SeqEq

LEMMA StreamTakes ==
  ASSUME NEW S, NEW u \in Seq(S), NEW v \in Seq(S), u # <<>>
  PROVE  u \o v # <<>> /\ Head(u \o v) = Head(u) /\ Tail(u) \o v = Tail(u \o v)
<1>1. /\ Len(u) \in Nat /\ Len(u) >= 1 /\ Len(v) \in Nat
      /\ u \o v \in Seq(S) /\ Len(u \o v) = Len(u) + Len(v)
      /\ Tail(u) \in Seq(S) /\ Len(Tail(u)) = Len(u) - 1
      /\ \A i \in 1 .. Len(u) - 1 : Tail(u)[i] = u[i + 1]
  OBVIOUS
<1>2. u \o v # <<>> /\ Head(u \o v) = Head(u)
  BY <1>1
<1>3. /\ Tail(u \o v) \in Seq(S) /\ Len(Tail(u \o v)) = Len(u) + Len(v) - 1
      /\ \A i \in 1 .. Len(u) + Len(v) - 1 : Tail(u \o v)[i] = (u \o v)[i + 1]
      /\ Tail(u) \o v \in Seq(S) /\ Len(Tail(u) \o v) = Len(u) + Len(v) - 1
  BY <1>1, <1>2
<1>4. ASSUME NEW i \in 1 .. Len(u) + Len(v) - 1
      PROVE  (Tail(u) \o v)[i] = Tail(u \o v)[i]
  <2>1. CASE i \in 1 .. Len(u) - 1
    BY <1>1, <1>3, <2>1
  <2>2. CASE i \in Len(u) .. Len(u) + Len(v) - 1
    BY <1>1, <1>3, <2>2
  <2> QED
    BY <1>1, <2>1, <2>2
<1> QED
  BY <1>2, <1>3, <1>4, SeqEq

-----------------------------------------------------------------------------
(* Every response finds its request                                        *)

\* A response that is expected has the id and the call of an entry.
LEMMA ExpectedImplies == TypeOK /\ Expected => ResponsesMatch
<1> SUFFICES ASSUME TypeOK, Expected, alive,
                    NEW i \in 1 .. Len(Stream), Real(Stream[i])
             PROVE  /\ Stream[i].id \in DOMAIN request_cbs_
                    /\ request_cbs_[Stream[i].id] = Stream[i].call
  BY DEF ResponsesMatch
<1>1. Stream[i] \in FromEditor
  BY StreamType
<1>2. Carries(Stream[i])
  BY <1>1, SessionAssumption, MessageTypes DEF Real, Carries
<1> QED
  BY <1>2 DEF Expected, Outstanding, Matches

LEMMA ExpectedInit == Init => Expected
<1> SUFFICES ASSUME Init PROVE Outstanding(Stream, outbox, asking, request_cbs_)
  BY DEF Expected
<1>1. Stream = <<>> /\ asking = {}
  BY DEF Init, Stream
<1>2. /\ outbox = <<Request(0, "client_info"), Request(1, "api_info")>>
      /\ 0 \in DOMAIN request_cbs_ /\ request_cbs_[0] = "client_info"
      /\ 1 \in DOMAIN request_cbs_ /\ request_cbs_[1] = "api_info"
  BY DEF Init
<1>3. Once(outbox) /\ Matches(outbox, request_cbs_)
  BY <1>2 DEF Once, Matches, Request
<1>4. Once(Stream) /\ Carried(Stream) = {} /\ Matches(Stream, request_cbs_)
  BY <1>1 DEF Once, Carried, Matches
<1> QED
  BY <1>1, <1>3, <1>4 DEF Outstanding

\* Nothing changes for the client, or the client goes.
LEMMA ExpectedKept ==
  ASSUME Expected,
         \/ ~ alive'
         \/ UNCHANGED <<alive, request_cbs_, outbox, asking>> /\ Stream' = Stream
  PROVE  Expected'
  BY DEF Expected

\* A request is sent, with an id without an entry.
LEMMA ExpectedSend ==
  ASSUME TypeOK, Expected, alive, NEW call \in Calls, SendRequest(call),
         Stream' = Stream, asking' = asking
  PROVE  Expected'
<1>1. CASE ~ alive'
  BY <1>1, ExpectedKept
<1>2. CASE alive'
  <2> USE SessionAssumption, MessageTypes
  <2> DEFINE m == Request(msgid_, call)
  <2>1. msgid_ \notin DOMAIN request_cbs_ /\ Insert(call)
    BY <1>2 DEF SendRequest
  <2>2. Outstanding(Stream, outbox, asking, request_cbs_)
    BY DEF Expected
  <2>3. Unused(msgid_, Stream, outbox, asking)
    BY <2>1, <2>2, UnusedWithoutEntry
  <2>4. Outstanding(outbox, Stream, asking, request_cbs_')
    <3>1. /\ DOMAIN request_cbs_ \subseteq DOMAIN request_cbs_'
          /\ \A id \in DOMAIN request_cbs_ : request_cbs_'[id] = request_cbs_[id]
      BY <2>1 DEF Insert
    <3>2. Outstanding(Stream, outbox, asking, request_cbs_')
      BY <2>2, <3>1, EntryAdded
    <3> QED
      BY <3>2, Swapped
  <2>5. /\ m.id \in DOMAIN request_cbs_' /\ request_cbs_'[m.id] = m.call
        /\ Unused(m.id, outbox, Stream, asking)
    BY <2>1, <2>3 DEF Insert, Request, Unused
  <2>6. m \in ToEditor /\ outbox \in Seq(ToEditor)
    BY DEF TypeOK
  <2>7. Outstanding(Append(outbox, m), Stream, asking, request_cbs_')
    BY <2>4, <2>5, <2>6, PutBehind
  <2>8. Outstanding(Stream, Append(outbox, m), asking, request_cbs_')
    BY <2>7, Swapped
  <2> QED
    BY <2>1, <2>8 DEF Expected, Insert
<1> QED
  BY <1>1, <1>2

\* The next message is handled: a response takes its entry with it.
LEMMA ExpectedLoop == TypeOK /\ Expected /\ LoopNext => Expected'
<1> SUFFICES ASSUME TypeOK, Expected, LoopNext PROVE Expected'
  OBVIOUS
<1> USE SessionAssumption, MessageTypes
<1> DEFINE m == Head(unpacker_)
<1>1. /\ unpacker_ # <<>> /\ unpacker_ \in Seq(FromEditor) /\ inbox \in Seq(FromEditor)
      /\ Stream \in Seq(FromEditor)
  BY StreamType DEF LoopNext, TypeOK
<1>2. Stream # <<>> /\ Head(Stream) = m /\ Stream' = Tail(Stream)
  BY <1>1, StreamTakes DEF Stream, LoopNext, editor
<1>3. m \in FromEditor /\ asking' = asking /\ alive
  BY <1>1 DEF LoopNext, editor
<1>4. Outstanding(Stream, outbox, asking, request_cbs_)
  BY <1>3 DEF Expected
<1>5. /\ Outstanding(Stream', outbox, asking, request_cbs_)
      /\ Carries(m) => Unused(m.id, Stream', outbox, asking)
  BY <1>1, <1>2, <1>4, Taken
<1>6. CASE m.type = "request" /\ OnRequest(m)
  <2> DEFINE r == Response(m.id, m.call, Served(m.call))
  <2>1. r \in ToEditor /\ outbox \in Seq(ToEditor)
    BY <1>3, <1>6 DEF TypeOK
  <2>2. m.call \in Questions
    BY <1>3, <1>6
  <2>3. ~ Carries(r)
    BY <2>2 DEF Carries, Response, Questions, Calls
  <2>4. Outstanding(Append(outbox, r), Stream', asking, request_cbs_)
    BY <1>5, <2>1, <2>3, PutBehind, Swapped
  <2>5. Outstanding(Stream', Append(outbox, r), asking, request_cbs_)
    BY <2>4, Swapped
  <2> QED
    BY <1>3, <1>6, <2>5 DEF Expected, OnRequest, client
<1>7. CASE m.type = "response" /\ OnResponse(m)
  <2>1. CASE m.id \notin DOMAIN request_cbs_ \/ m.result = "both"
    BY <1>7, <2>1, ExpectedKept DEF OnResponse, Erase
  <2>2. CASE ~ (m.id \notin DOMAIN request_cbs_ \/ m.result = "both")
    <3>1. Carries(m)
      BY <1>3, <1>7, <2>2 DEF Carries
    <3>2. Outstanding(Stream', outbox, asking,
                      [k \in DOMAIN request_cbs_ \ {m.id} |-> request_cbs_[k]])
      BY <1>5, <3>1, EntryRemoved
    <3> QED
      BY <1>3, <1>7, <2>2, <3>2 DEF Expected, OnResponse
  <2> QED
    BY <2>1, <2>2
<1>8. CASE Keep
  BY <1>3, <1>5, <1>8 DEF Expected, Keep, client
<1>9. CASE Erase
  BY <1>9, ExpectedKept DEF Erase
<1> QED
  BY <1>6, <1>7, <1>8, <1>9 DEF LoopNext, Dispatch

LEMMA ExpectedIo == TypeOK /\ Expected /\ IoThread => Expected'
<1> SUFFICES ASSUME TypeOK, Expected, IoThread PROVE Expected'
  OBVIOUS
<1>1. CASE HandleRead
  <2>1. UNCHANGED <<alive, request_cbs_, outbox>> \/ ~ alive'
    BY <1>1 DEF HandleRead, Keep, Erase, client
  <2>2. Stream' = Stream /\ asking' = asking
    BY <1>1 DEF HandleRead, Stream, editor
  <2> QED
    BY <2>1, <2>2, ExpectedKept
<1>2. CASE LoopNext
  BY <1>2, ExpectedLoop
<1>3. CASE LoopEnds \/ LoopAfterErase
  BY <1>3, ExpectedKept DEF LoopEnds, LoopAfterErase, client, editor, Stream
<1>4. CASE HandleCallback \/ HandleTheme
  <2>1. Stream' = Stream /\ asking' = asking
    BY <1>4 DEF HandleCallback, HandleTheme, reader, editor, Stream
  <2>2. \/ UNCHANGED <<alive, request_cbs_, outbox>>
        \/ alive /\ \E call \in Calls : SendRequest(call)
    BY <1>4, FollowsType DEF HandleCallback, HandleTheme, Keep, client, Calls
  <2> QED
    BY <2>1, <2>2, ExpectedKept, ExpectedSend
<1>5. CASE HandleEnd
  BY <1>5, ExpectedKept DEF HandleEnd, Erase
<1> QED
  BY <1>1, <1>2, <1>3, <1>4, <1>5 DEF IoThread

LEMMA ExpectedEnvironment ==
  TypeOK /\ Expected /\ (ReadCompletes \/ ThemeChanges \/ StopRequested) => Expected'
<1> SUFFICES ASSUME TypeOK, Expected, ReadCompletes \/ ThemeChanges \/ StopRequested
             PROVE  Expected'
  OBVIOUS
<1>1. CASE ReadCompletes
  <2>1. ASSUME NEW n \in 1 .. Len(inbox),
               unpacker_' = unpacker_ \o SubSeq(inbox, 1, n),
               inbox' = SubSeq(inbox, n + 1, Len(inbox))
        PROVE  Stream' = Stream
    <3>1. unpacker_ \in Seq(FromEditor) /\ inbox \in Seq(FromEditor)
      BY DEF TypeOK
    <3> QED
      BY <2>1, <3>1, StreamReads DEF Stream
  <2>2. Stream' = Stream
    BY <1>1, <2>1 DEF ReadCompletes, Stream
  <2> QED
    BY <1>1, <2>2, ExpectedKept DEF ReadCompletes, client
<1>2. CASE ThemeChanges \/ StopRequested
  BY <1>2, ExpectedKept DEF ThemeChanges, StopRequested, client, reader, editor, Stream
<1> QED
  BY <1>1, <1>2

\* What the editor sends comes behind what it has sent before.
LEMMA StreamSends ==
  ASSUME TypeOK, NEW m \in FromEditor, inbox' = Append(inbox, m), unpacker_' = unpacker_
  PROVE  Stream' = Append(Stream, m)
<1>1. unpacker_ \in Seq(FromEditor) /\ inbox \in Seq(FromEditor)
  BY DEF TypeOK
<1> QED
  BY <1>1, StreamAppends DEF Stream

LEMMA ExpectedExecutes == TypeOK /\ Expected /\ EditorExecutes => Expected'
<1> SUFFICES ASSUME TypeOK, Expected, EditorExecutes, alive PROVE Expected'
  BY DEF EditorExecutes, client, Expected
<1> USE SessionAssumption, MessageTypes
<1> DEFINE m == Head(outbox)
<1>1. /\ outbox # <<>> /\ outbox \in Seq(ToEditor) /\ Stream \in Seq(FromEditor)
      /\ m \in ToEditor /\ m.type = "request" /\ m.id \in Ids /\ m.call \in Calls
  BY StreamType DEF EditorExecutes, TypeOK
<1>2. Carries(m)
  BY <1>1 DEF Carries
<1>3. /\ Outstanding(Tail(outbox), Stream, asking, request_cbs_)
      /\ Unused(m.id, Tail(outbox), Stream, asking)
      /\ m.id \in DOMAIN request_cbs_ /\ request_cbs_[m.id] = m.call
  BY <1>1, <1>2, Taken, Swapped DEF Expected
<1>4. /\ Outstanding(Stream, Tail(outbox), asking, request_cbs_)
      /\ Unused(m.id, Stream, Tail(outbox), asking)
  BY <1>3, Swapped DEF Unused
<1>5. /\ alive' = alive /\ request_cbs_' = request_cbs_
      /\ outbox' = Tail(outbox) /\ unpacker_' = unpacker_
  BY DEF EditorExecutes, client, reader
<1>6. ASSUME NEW result \in Results, Answer(m.id, m.call, result), asking' = asking
      PROVE  Expected'
  <2> DEFINE r == Response(m.id, m.call, result)
  <2>1. r \in FromEditor /\ r.id = m.id /\ r.call = m.call
    BY <1>1 DEF Response
  <2>2. Stream' = Append(Stream, r)
    BY <1>5, <1>6, <2>1, StreamSends DEF Answer
  <2>3. Outstanding(Append(Stream, r), Tail(outbox), asking, request_cbs_)
    BY <1>1, <1>3, <1>4, <2>1, PutBehind
  <2> QED
    BY <1>5, <1>6, <2>2, <2>3 DEF Expected
<1>7. ASSUME m.call = "connected", inbox' = Append(inbox, Request(0, "query")),
             asking' = asking \union {m.id}
      PROVE  Expected'
  <2> DEFINE r == Request(0, "query")
  <2>1. r \in FromEditor /\ ~ Carries(r)
    BY DEF Questions, Carries, Request, Calls
  <2>2. Stream' = Append(Stream, r)
    BY <1>5, <1>7, <2>1, StreamSends
  <2>3. Outstanding(Stream, Tail(outbox), asking', request_cbs_)
    BY <1>3, <1>4, <1>7, Asks
  <2>4. Outstanding(Append(Stream, r), Tail(outbox), asking', request_cbs_)
    BY <1>1, <2>1, <2>3, PutBehind
  <2> QED
    BY <1>5, <2>2, <2>4 DEF Expected
<1> QED
  BY <1>6, <1>7 DEF EditorExecutes, Results

LEMMA ExpectedAnswered == TypeOK /\ Expected /\ EditorAnswered => Expected'
<1> SUFFICES ASSUME TypeOK, Expected, EditorAnswered, alive PROVE Expected'
  BY DEF EditorAnswered, client, Expected
<1> USE SessionAssumption, MessageTypes
<1> DEFINE m == Head(outbox)
<1>1. /\ outbox # <<>> /\ outbox \in Seq(ToEditor) /\ Stream \in Seq(FromEditor)
      /\ m \in ToEditor /\ m.type = "response" /\ m.result \in Results
  BY StreamType DEF EditorAnswered, TypeOK
<1>2. Outstanding(Tail(outbox), Stream, asking, request_cbs_)
  BY <1>1, Taken, Swapped DEF Expected
<1>3. Outstanding(Stream, Tail(outbox), asking, request_cbs_)
  BY <1>2, Swapped
<1>4. /\ alive' = alive /\ request_cbs_' = request_cbs_
      /\ outbox' = Tail(outbox) /\ unpacker_' = unpacker_
  BY DEF EditorAnswered, client, reader
<1>5. ASSUME NEW id \in asking, asking' = asking \ {id}, Answer(id, "connected", m.result)
      PROVE  Expected'
  <2> DEFINE r == Response(id, "connected", m.result)
  <2>1. r \in FromEditor /\ r.id = id /\ r.call = "connected"
    BY <1>1 DEF Response, Calls, TypeOK
  <2>2. Stream' = Append(Stream, r)
    BY <1>4, <1>5, <2>1, StreamSends DEF Answer
  <2>3. /\ Outstanding(Stream, Tail(outbox), asking', request_cbs_)
        /\ Unused(id, Stream, Tail(outbox), asking')
        /\ id \in DOMAIN request_cbs_ /\ request_cbs_[id] = "connected"
    BY <1>3, <1>5, Answered
  <2>4. Outstanding(Append(Stream, r), Tail(outbox), asking', request_cbs_)
    BY <1>1, <2>1, <2>3, PutBehind
  <2> QED
    BY <1>4, <2>2, <2>4 DEF Expected
<1>6. CASE UNCHANGED <<asking, inbox>>
  BY <1>3, <1>4, <1>6 DEF Expected, Stream
<1> QED
  BY <1>5, <1>6 DEF EditorAnswered

LEMMA ExpectedStep == TypeOK /\ Expected /\ [Next]_vars => Expected'
<1> SUFFICES ASSUME TypeOK, Expected, [Next]_vars PROVE Expected'
  OBVIOUS
<1>1. CASE EditorQuits
  BY <1>1, ExpectedKept DEF EditorQuits, client, reader, Stream
<1>2. CASE PeerFault
  <2>1. PICK m \in {[type |-> "malformed"], [type |-> "notification"], Request(0, "other")}
                   \union {Response(id, "theme", "both") : id \in Ids} :
          inbox' = Append(inbox, m)
    BY <1>2 DEF PeerFault
  <2>2. m \in FromEditor
    BY <2>1, SessionAssumption, MessageTypes DEF Calls, Questions
  <2>3. ~ Carries(m)
    BY <2>1 DEF Carries, Request, Response, Calls, Results
  <2>4. Stream' = Append(Stream, m) /\ Stream \in Seq(FromEditor)
    BY <1>2, <2>1, <2>2, StreamSends, StreamType DEF PeerFault, reader
  <2>5. alive => Outstanding(Stream', outbox, asking, request_cbs_)
    BY <2>2, <2>3, <2>4, PutBehind DEF Expected
  <2> QED
    BY <1>2, <2>5 DEF PeerFault, client, Expected
<1>3. CASE UNCHANGED vars
  BY <1>3, ExpectedKept DEF vars, Stream
<1> QED
  BY <1>1, <1>2, <1>3, ExpectedIo, ExpectedEnvironment, ExpectedExecutes,
     ExpectedAnswered DEF Next, Editor

-----------------------------------------------------------------------------
(* DarkMonitorQuery is registered before OnDarkMonitorConnected            *)

\* The answer that makes the initialisation send the autocommand.
Success(m) == m.type = "response" /\ m.call = "exec_lua" /\ m.result = "ok"
Continues(h) == h.kind = "callback" /\ h.call = "exec_lua" /\ h.result = "ok"

\* As long as DarkMonitorQuery is not registered, nothing is under way that
\* says it was.
Registered ==
  "exec_lua" \notin executed =>
    /\ "connected" \notin executed
    /\ \A i \in 1 .. Len(outbox) : outbox[i].type = "request" => outbox[i].call # "connected"
    /\ \A i \in 1 .. Len(Stream) : ~ Success(Stream[i])
    /\ \A i \in 1 .. Len(queue) : ~ Continues(queue[i])

LEMMA RegisteredInit == Init => Registered
<1> SUFFICES ASSUME Init PROVE Registered
  OBVIOUS
<1>1. Stream = <<>> /\ queue = <<>> /\ executed = {}
  BY DEF Init, Stream
<1>2. \A i \in 1 .. Len(outbox) : outbox[i].call # "connected"
  BY DEF Init, Request
<1> QED
  BY <1>1, <1>2 DEF Registered

LEMMA InAppend ==
  ASSUME NEW S, NEW s \in Seq(S), NEW m \in S, NEW i \in 1 .. Len(Append(s, m))
  PROVE  \/ Append(s, m)[i] = m
         \/ i \in 1 .. Len(s) /\ Append(s, m)[i] = s[i]
<1>1. CASE i = Len(s) + 1
  BY <1>1
<1>2. CASE i # Len(s) + 1
  <2>1. i \in 1 .. Len(s)
    BY <1>2
  <2> QED
    BY <2>1
<1> QED
  BY <1>1, <1>2

\* Each part is kept if its sequence becomes shorter in front, or longer by
\* something else behind.
LEMMA QueueKept ==
  ASSUME NEW S, NEW s \in Seq(S), NEW h \in S, ~ Continues(h),
         \A i \in 1 .. Len(s) : ~ Continues(s[i])
  PROVE  \A i \in 1 .. Len(Append(s, h)) : ~ Continues(Append(s, h)[i])
  BY InAppend

LEMMA StreamKept ==
  ASSUME NEW S, NEW s \in Seq(S), NEW m \in S, ~ Success(m),
         \A i \in 1 .. Len(s) : ~ Success(s[i])
  PROVE  \A i \in 1 .. Len(Append(s, m)) : ~ Success(Append(s, m)[i])
  BY InAppend

LEMMA OutboxKept ==
  ASSUME NEW S, NEW s \in Seq(S), NEW m \in S,
         m.type = "request" => m.call # "connected",
         \A i \in 1 .. Len(s) : s[i].type = "request" => s[i].call # "connected"
  PROVE  \A i \in 1 .. Len(Append(s, m)) :
           Append(s, m)[i].type = "request" => Append(s, m)[i].call # "connected"
  BY InAppend

LEMMA InTail ==
  ASSUME NEW S, NEW s \in Seq(S), s # <<>>
  PROVE  /\ 1 \in 1 .. Len(s) /\ Head(s) = s[1]
         /\ \A i \in 1 .. Len(Tail(s)) : i + 1 \in 1 .. Len(s) /\ Tail(s)[i] = s[i + 1]
  OBVIOUS

LEMMA RegisteredLoop == TypeOK /\ Expected /\ Registered /\ LoopNext => Registered'
<1> SUFFICES ASSUME TypeOK, Expected, Registered, LoopNext, "exec_lua" \notin executed
             PROVE  Registered'
  BY DEF LoopNext, editor, Registered
<1> USE SessionAssumption, MessageTypes
<1> DEFINE m == Head(unpacker_)
<1>1. /\ unpacker_ # <<>> /\ unpacker_ \in Seq(FromEditor) /\ inbox \in Seq(FromEditor)
      /\ Stream \in Seq(FromEditor) /\ queue \in Seq(Handlers) /\ outbox \in Seq(ToEditor)
  BY StreamType DEF LoopNext, TypeOK
<1>2. Stream # <<>> /\ Head(Stream) = m /\ Stream' = Tail(Stream)
  BY <1>1, StreamTakes DEF Stream, LoopNext, editor
<1>3. m \in FromEditor /\ alive /\ executed' = executed
  BY <1>1 DEF LoopNext, editor
<1>4. ~ Success(m) /\ \A i \in 1 .. Len(Stream') : ~ Success(Stream'[i])
  BY <1>1, <1>2, InTail DEF Registered
<1>5. CASE m.type = "request" /\ OnRequest(m) /\ queue' = queue
  <2> DEFINE r == Response(m.id, m.call, Served(m.call))
  <2>1. r \in ToEditor /\ r.type # "request"
    BY <1>3, <1>5 DEF Response
  <2>2. \A i \in 1 .. Len(Append(outbox, r)) :
          Append(outbox, r)[i].type = "request" => Append(outbox, r)[i].call # "connected"
    BY <1>1, <2>1, OutboxKept DEF Registered
  <2> QED
    BY <1>3, <1>4, <1>5, <2>2 DEF Registered, OnRequest
<1>6. CASE m.type = "response" /\ OnResponse(m)
  <2>1. CASE m.id \notin DOMAIN request_cbs_ \/ m.result = "both"
    BY <1>3, <1>4, <1>6, <2>1 DEF Registered, OnResponse, Erase
  <2>2. CASE ~ (m.id \notin DOMAIN request_cbs_ \/ m.result = "both")
    <3> DEFINE h == [kind |-> "callback", call |-> request_cbs_[m.id], result |-> m.result]
    <3>1. Carries(m) /\ m.result \in Results
      BY <1>3, <1>6, <2>2 DEF Carries
    <3>2. request_cbs_[m.id] = m.call
      BY <1>1, <1>2, <1>3, <3>1, Taken DEF Expected
    <3>3. h \in Handlers /\ ~ Continues(h)
      <4>1. m.call \in Calls
        BY <3>1 DEF Carries
      <4> QED
        BY <1>4, <1>6, <3>1, <3>2, <4>1, HandlerTypes DEF Continues, Success
    <3>4. \A i \in 1 .. Len(Append(queue, h)) : ~ Continues(Append(queue, h)[i])
      BY <1>1, <3>3, QueueKept DEF Registered
    <3> QED
      BY <1>3, <1>4, <1>6, <2>2, <3>4 DEF Registered, OnResponse
  <2> QED
    BY <2>1, <2>2
<1>7. CASE (Keep \/ Erase) /\ queue' = queue
  BY <1>3, <1>4, <1>7 DEF Registered, Keep, Erase
<1> QED
  BY <1>5, <1>6, <1>7 DEF LoopNext, Dispatch

\* A handler runs that sends something else, or nothing.
LEMMA RegisteredHandler ==
  ASSUME TypeOK, Registered, NEW k, Runs(k), queue' = Tail(queue),
         UNCHANGED <<unpacker_, inbox, executed>>,
         \/ outbox' = outbox
         \/ \E call \in Calls :
              /\ SendRequest(call)
              /\ "exec_lua" \notin executed => call # "connected"
  PROVE  Registered'
<1> SUFFICES ASSUME "exec_lua" \notin executed PROVE Registered'
  BY DEF Registered
<1>1. queue # <<>> /\ queue \in Seq(Handlers) /\ outbox \in Seq(ToEditor)
  BY DEF Runs, TypeOK
<1>2. \A i \in 1 .. Len(queue') : ~ Continues(queue'[i])
  BY <1>1, InTail DEF Registered
<1>3. ASSUME NEW call \in Calls, SendRequest(call), call # "connected"
      PROVE  \A i \in 1 .. Len(outbox') : outbox'[i].type = "request" => outbox'[i].call # "connected"
  <2> DEFINE r == Request(msgid_, call)
  <2>1. r \in ToEditor /\ r.call = call
    BY SessionAssumption, MessageTypes DEF TypeOK, Request
  <2>2. outbox' = outbox \/ outbox' = Append(outbox, r)
    BY <1>3 DEF SendRequest, Insert
  <2>3. \A i \in 1 .. Len(Append(outbox, r)) :
          Append(outbox, r)[i].type = "request" => Append(outbox, r)[i].call # "connected"
    BY <1>1, <1>3, <2>1, OutboxKept DEF Registered
  <2> QED
    BY <2>2, <2>3 DEF Registered
<1>4. \A i \in 1 .. Len(outbox') : outbox'[i].type = "request" => outbox'[i].call # "connected"
  BY <1>3 DEF Registered
<1> QED
  BY <1>2, <1>4 DEF Registered, Stream

LEMMA RegisteredIo == TypeOK /\ Expected /\ Registered /\ IoThread => Registered'
<1> SUFFICES ASSUME TypeOK, Expected, Registered, IoThread PROVE Registered'
  OBVIOUS
<1>1. CASE HandleRead
  <2>1. outbox' = outbox
    BY <1>1 DEF HandleRead, Keep, Erase
  <2> QED
    BY <1>1, <2>1, RegisteredHandler DEF HandleRead, editor
<1>2. CASE LoopNext
  BY <1>2, RegisteredLoop
<1>3. CASE LoopEnds \/ LoopAfterErase
  BY <1>3 DEF LoopEnds, LoopAfterErase, editor, Registered, Stream
<1>4. CASE HandleCallback
  <2> DEFINE h == Head(queue)
  <2>1. queue # <<>> /\ queue \in Seq(Handlers) /\ h.kind = "callback"
    BY <1>4 DEF HandleCallback, Runs, TypeOK
  <2>2. "exec_lua" \notin executed => ~ Continues(h)
    BY <2>1, InTail DEF Registered
  <2>3. "exec_lua" \notin executed => "connected" \notin Follows(h.call, h.result)
    BY <2>1, <2>2 DEF Continues, Follows
  <2>4. \/ outbox' = outbox
        \/ \E call \in Calls : /\ SendRequest(call)
                               /\ "exec_lua" \notin executed => call # "connected"
    BY <1>4, <2>3, FollowsType DEF HandleCallback, Keep
  <2> QED
    BY <1>4, <2>4, RegisteredHandler DEF HandleCallback, reader, editor
<1>5. CASE HandleTheme
  <2>1. outbox' = outbox \/ SendRequest("theme")
    BY <1>5 DEF HandleTheme, Keep
  <2> QED
    BY <1>5, <2>1, RegisteredHandler DEF HandleTheme, reader, editor, Calls
<1>6. CASE HandleEnd
  BY <1>6, RegisteredHandler DEF HandleEnd, Erase, editor
<1> QED
  BY <1>1, <1>2, <1>3, <1>4, <1>5, <1>6 DEF IoThread

LEMMA RegisteredPost ==
  ASSUME TypeOK, Registered, NEW h \in Handlers, ~ Continues(h), Post(h),
         Stream' = Stream, UNCHANGED <<outbox, executed>>
  PROVE  Registered'
<1>1. queue \in Seq(Handlers) /\ queue' = Append(queue, h)
  BY DEF TypeOK, Post
<1>2. "exec_lua" \notin executed =>
        \A i \in 1 .. Len(queue') : ~ Continues(queue'[i])
  BY <1>1, QueueKept DEF Registered
<1> QED
  BY <1>2 DEF Registered

LEMMA RegisteredEnvironment ==
  TypeOK /\ Registered /\ (ReadCompletes \/ ThemeChanges \/ StopRequested) => Registered'
<1> SUFFICES ASSUME TypeOK, Registered, ReadCompletes \/ ThemeChanges \/ StopRequested
             PROVE  Registered'
  OBVIOUS
<1>1. ASSUME NEW k \in {"theme", "stop", "write_error"}
      PROVE  [kind |-> k] \in Handlers /\ ~ Continues([kind |-> k])
  BY HandlerTypes DEF Continues
<1>2. ASSUME NEW ok \in BOOLEAN
      PROVE  [kind |-> "read", ok |-> ok] \in Handlers /\ ~ Continues([kind |-> "read", ok |-> ok])
  BY HandlerTypes DEF Continues
<1>3. CASE ReadCompletes
  <2>1. ASSUME NEW n \in 1 .. Len(inbox),
               unpacker_' = unpacker_ \o SubSeq(inbox, 1, n),
               inbox' = SubSeq(inbox, n + 1, Len(inbox))
        PROVE  Stream' = Stream
    <3>1. unpacker_ \in Seq(FromEditor) /\ inbox \in Seq(FromEditor)
      BY DEF TypeOK
    <3> QED
      BY <2>1, <3>1, StreamReads DEF Stream
  <2>2. Stream' = Stream /\ UNCHANGED <<outbox, executed>>
    BY <1>3, <2>1 DEF ReadCompletes, Stream
  <2>3. \E ok \in BOOLEAN : Post([kind |-> "read", ok |-> ok])
    BY <1>3 DEF ReadCompletes
  <2> QED
    BY <1>2, <2>2, <2>3, RegisteredPost
<1>4. CASE ThemeChanges \/ StopRequested
  <2>1. Stream' = Stream /\ UNCHANGED <<outbox, executed>>
    BY <1>4 DEF ThemeChanges, StopRequested, reader, editor, Stream
  <2>2. \E k \in {"theme", "stop", "write_error"} : Post([kind |-> k])
    BY <1>4 DEF ThemeChanges, StopRequested
  <2> QED
    BY <1>1, <2>1, <2>2, RegisteredPost
<1> QED
  BY <1>3, <1>4

LEMMA RegisteredExecutes == TypeOK /\ Registered /\ EditorExecutes => Registered'
<1> SUFFICES ASSUME TypeOK, Registered, EditorExecutes, "exec_lua" \notin executed'
             PROVE  Registered'
  BY DEF Registered
<1> USE SessionAssumption, MessageTypes
<1> DEFINE m == Head(outbox)
<1>1. /\ outbox # <<>> /\ outbox \in Seq(ToEditor) /\ Stream \in Seq(FromEditor)
      /\ m.type = "request" /\ m.id \in Ids /\ m.call \in Calls
  BY StreamType DEF EditorExecutes, TypeOK
<1>2. /\ executed' \subseteq executed \union {m.call} /\ executed \subseteq executed'
      /\ outbox' = Tail(outbox) /\ unpacker_' = unpacker_ /\ queue' = queue
  BY DEF EditorExecutes, reader
<1>3. "exec_lua" \notin executed
  BY <1>2
<1>4. m.call # "connected"
  BY <1>1, <1>3, InTail DEF Registered
<1>5. \A i \in 1 .. Len(outbox') : outbox'[i].type = "request" => outbox'[i].call # "connected"
  BY <1>1, <1>2, <1>3, InTail DEF Registered
<1>6. \E r \in FromEditor : ~ Success(r) /\ inbox' = Append(inbox, r)
  <2>1. CASE Answer(m.id, m.call, "ok") /\ executed' = executed \union {m.call}
    <3>1. Response(m.id, m.call, "ok") \in FromEditor
      BY <1>1 DEF Results
    <3>2. m.call # "exec_lua"
      BY <2>1
    <3> QED
      BY <2>1, <3>1, <3>2 DEF Answer, Success, Response
  <2>2. CASE Answer(m.id, m.call, "error")
    <3>1. Response(m.id, m.call, "error") \in FromEditor
      BY <1>1 DEF Results
    <3> QED
      BY <2>2, <3>1 DEF Answer, Success, Response
  <2> QED
    BY <1>4, <2>1, <2>2 DEF EditorExecutes
<1>7. \A i \in 1 .. Len(Stream') : ~ Success(Stream'[i])
  <2>1. PICK r \in FromEditor : ~ Success(r) /\ inbox' = Append(inbox, r)
    BY <1>6
  <2>2. Stream' = Append(Stream, r)
    BY <1>2, <2>1, StreamSends
  <2> QED
    BY <1>1, <1>3, <2>1, <2>2, StreamKept DEF Registered
<1> QED
  BY <1>2, <1>3, <1>4, <1>5, <1>7 DEF Registered

LEMMA RegisteredAnswered == TypeOK /\ Registered /\ EditorAnswered => Registered'
<1> SUFFICES ASSUME TypeOK, Registered, EditorAnswered, "exec_lua" \notin executed
             PROVE  Registered'
  BY DEF Registered, EditorAnswered
<1> USE SessionAssumption, MessageTypes
<1> DEFINE m == Head(outbox)
<1>1. /\ outbox # <<>> /\ outbox \in Seq(ToEditor) /\ Stream \in Seq(FromEditor)
      /\ m.result \in Results
  BY StreamType DEF EditorAnswered, TypeOK
<1>2. /\ outbox' = Tail(outbox) /\ unpacker_' = unpacker_ /\ queue' = queue
      /\ executed' = executed
  BY DEF EditorAnswered, reader
<1>3. \A i \in 1 .. Len(outbox') : outbox'[i].type = "request" => outbox'[i].call # "connected"
  BY <1>1, <1>2, InTail DEF Registered
<1>4. \A i \in 1 .. Len(Stream') : ~ Success(Stream'[i])
  <2>1. ASSUME NEW id \in asking, Answer(id, "connected", m.result)
        PROVE  \A i \in 1 .. Len(Stream') : ~ Success(Stream'[i])
    <3> DEFINE r == Response(id, "connected", m.result)
    <3>1. r \in FromEditor /\ ~ Success(r)
      BY <1>1 DEF Response, Success, Calls, TypeOK
    <3>2. Stream' = Append(Stream, r)
      BY <1>2, <2>1, <3>1, StreamSends DEF Answer
    <3> QED
      BY <1>1, <3>1, <3>2, StreamKept DEF Registered
  <2>2. CASE inbox' = inbox
    BY <1>2, <2>2 DEF Registered, Stream
  <2> QED
    BY <2>1, <2>2 DEF EditorAnswered
<1> QED
  BY <1>2, <1>3, <1>4 DEF Registered

LEMMA RegisteredStep == TypeOK /\ Expected /\ Registered /\ [Next]_vars => Registered'
<1> SUFFICES ASSUME TypeOK, Expected, Registered, [Next]_vars PROVE Registered'
  OBVIOUS
<1>1. CASE EditorQuits
  BY <1>1 DEF EditorQuits, reader, Stream, Registered
<1>2. CASE PeerFault
  <2>1. PICK m \in {[type |-> "malformed"], [type |-> "notification"], Request(0, "other")}
                   \union {Response(id, "theme", "both") : id \in Ids} :
          inbox' = Append(inbox, m)
    BY <1>2 DEF PeerFault
  <2>2. m \in FromEditor
    BY <2>1, SessionAssumption, MessageTypes DEF Calls, Questions
  <2>3. ~ Success(m)
    BY <2>1 DEF Success, Request, Response
  <2>4. Stream' = Append(Stream, m) /\ Stream \in Seq(FromEditor)
    BY <1>2, <2>1, <2>2, StreamSends, StreamType DEF PeerFault, reader
  <2>5. "exec_lua" \notin executed => \A i \in 1 .. Len(Stream') : ~ Success(Stream'[i])
    BY <2>2, <2>3, <2>4, StreamKept DEF Registered
  <2> QED
    BY <1>2, <2>5 DEF PeerFault, Registered
<1>3. CASE UNCHANGED vars
  BY <1>3 DEF vars, Stream, Registered
<1> QED
  BY <1>1, <1>2, <1>3, RegisteredIo, RegisteredEnvironment, RegisteredExecutes,
     RegisteredAnswered DEF Next, Editor

-----------------------------------------------------------------------------
(* Every callback that waits has its query, or its answer, under way        *)

Count(s) == Cardinality(Queries(s))

LEMMA CountType ==
  ASSUME NEW S, NEW s \in Seq(S)
  PROVE  IsFiniteSet(Queries(s)) /\ Count(s) \in Nat
<1>1. Len(s) \in Nat /\ Queries(s) \in SUBSET (1 .. Len(s))
  BY DEF Queries
<1>2. IsFiniteSet(1 .. Len(s))
  BY <1>1, FS_Interval
<1>3. IsFiniteSet(Queries(s))
  BY <1>1, <1>2, FS_Subset
<1> QED
  BY <1>3, FS_CardinalityType DEF Count

\* A message comes behind the others.
LEMMA CountAppend ==
  ASSUME NEW S, NEW s \in Seq(S), NEW m \in S
  PROVE  Count(Append(s, m)) = IF IsQuery(m) THEN Count(s) + 1 ELSE Count(s)
<1> DEFINE t == Append(s, m)
<1>1. /\ Len(s) \in Nat /\ Len(t) = Len(s) + 1 /\ t[Len(s) + 1] = m
      /\ \A i \in 1 .. Len(s) : t[i] = s[i]
  OBVIOUS
<1> HIDE DEF t
<1>2. CASE IsQuery(m)
  <2>1. Queries(t) = Queries(s) \union {Len(s) + 1} /\ Len(s) + 1 \notin Queries(s)
    BY <1>1, <1>2 DEF Queries
  <2> QED
    BY <1>2, <2>1, CountType, FS_AddElement DEF Count, t
<1>3. CASE ~ IsQuery(m)
  <2>1. Queries(t) = Queries(s)
    BY <1>1, <1>3 DEF Queries
  <2> QED
    BY <1>3, <2>1 DEF Count, t
<1> QED
  BY <1>2, <1>3

\* The first message is taken away: the others move one place.
LEMMA CountTail ==
  ASSUME NEW S, NEW s \in Seq(S), s # <<>>
  PROVE  Count(Tail(s)) = IF IsQuery(Head(s)) THEN Count(s) - 1 ELSE Count(s)
<1> DEFINE t == Tail(s)
           rest == Queries(s) \ {1}
           f == [i \in rest |-> i - 1]
<1>1. /\ Len(s) \in Nat /\ Len(s) >= 1 /\ s[1] = Head(s)
      /\ t \in Seq(S) /\ Len(t) = Len(s) - 1
      /\ \A i \in 1 .. Len(s) - 1 : t[i] = s[i + 1]
  OBVIOUS
<1> HIDE DEF t
<1>2. \A i \in rest : i \in 2 .. Len(s) /\ i - 1 \in 1 .. Len(t) /\ t[i - 1] = s[i]
  BY <1>1 DEF Queries
<1>3. f \in Bijection(rest, Queries(t))
  <2>1. f \in [rest -> Queries(t)]
    BY <1>2 DEF Queries
  <2>2. \A i, j \in rest : f[i] = f[j] => i = j
    BY <1>2
  <2>3. ASSUME NEW j \in Queries(t) PROVE \E i \in rest : f[i] = j
    <3>1. j + 1 \in rest /\ (j + 1) - 1 = j
      BY <1>1 DEF Queries
    <3>2. f[j + 1] = j
      BY <3>1
    <3> QED
      BY <3>1, <3>2
  <2> HIDE DEF f, rest
  <2>4. f \in Injection(rest, Queries(t))
    BY <2>1, <2>2 DEF Injection, IsInjective
  <2>5. f \in Surjection(rest, Queries(t))
    BY <2>1, <2>3 DEF Surjection
  <2> QED
    BY <2>4, <2>5 DEF Bijection
<1>4. IsFiniteSet(Queries(s))
  BY CountType
<1>5. /\ IsFiniteSet(rest)
      /\ Cardinality(rest) = IF 1 \in Queries(s) THEN Count(s) - 1 ELSE Count(s)
  BY <1>4, FS_RemoveElement DEF Count
<1>6. Cardinality(Queries(t)) = Cardinality(rest)
  <2> HIDE DEF f, rest
  <2>1. ExistsBijection(rest, Queries(t))
    BY <1>3 DEF ExistsBijection
  <2> QED
    BY <1>5, <2>1, FS_Bijection
<1>7. 1 \in Queries(s) <=> IsQuery(Head(s))
  BY <1>1 DEF Queries
<1> QED
  BY <1>5, <1>6, <1>7 DEF Count, t

UnderWay(ids, s, t) == IsFiniteSet(ids) /\ Cardinality(ids) = Count(s) + Count(t)

\* With Expected, the inductive form of QueryUnderWay.
Balanced == alive => UnderWay(asking, Stream, outbox)

LEMMA BalancedInit == Init => Balanced
<1> SUFFICES ASSUME Init PROVE UnderWay(asking, Stream, outbox)
  BY DEF Balanced
<1>1. asking = {} /\ Stream = <<>>
  BY DEF Init, Stream
<1>2. outbox = <<Request(0, "client_info"), Request(1, "api_info")>>
  BY DEF Init
<1>3. Queries(Stream) = {} /\ Queries(outbox) = {}
  BY <1>1, <1>2 DEF Queries, IsQuery, Request
<1> QED
  BY <1>1, <1>3, FS_EmptySet DEF UnderWay, Count

\* The client goes, or what happens has nothing to do with queries.
LEMMA BalancedKept ==
  ASSUME TypeOK, Balanced,
         \/ ~ alive'
         \/ /\ alive' = alive /\ asking' = asking /\ Stream' = Stream
            /\ \/ outbox' = outbox
               \/ \E m \in ToEditor : ~ IsQuery(m) /\ outbox' = Append(outbox, m)
  PROVE  Balanced'
<1> SUFFICES ASSUME alive' PROVE Balanced'
  BY DEF Balanced
<1>1. CASE outbox' = outbox
  BY <1>1 DEF Balanced
<1>2. ASSUME NEW m \in ToEditor, ~ IsQuery(m), outbox' = Append(outbox, m)
      PROVE  Balanced'
  <2>1. outbox \in Seq(ToEditor)
    BY DEF TypeOK
  <2>2. Count(outbox') = Count(outbox)
    BY <1>2, <2>1, CountAppend
  <2> QED
    BY <2>2 DEF Balanced, UnderWay
<1> QED
  BY <1>1, <1>2

\* Requests of the client are not queries.
LEMMA SendsNoQuery ==
  ASSUME TypeOK, NEW call \in Calls, SendRequest(call), alive'
  PROVE  \E m \in ToEditor : ~ IsQuery(m) /\ outbox' = Append(outbox, m)
<1>1. Request(msgid_, call) \in ToEditor
  BY SessionAssumption, MessageTypes DEF TypeOK
<1>2. ~ IsQuery(Request(msgid_, call))
  BY DEF IsQuery, Request, Calls
<1> QED
  BY <1>1, <1>2 DEF SendRequest, Insert

\* A query leaves the stream and its answer goes to the editor at once.
LEMMA BalancedLoop == TypeOK /\ Balanced /\ LoopNext => Balanced'
<1> SUFFICES ASSUME TypeOK, Balanced, LoopNext, alive' PROVE Balanced'
  BY DEF Balanced
<1> USE SessionAssumption, MessageTypes
<1> DEFINE m == Head(unpacker_)
<1>1. /\ unpacker_ # <<>> /\ unpacker_ \in Seq(FromEditor) /\ inbox \in Seq(FromEditor)
      /\ Stream \in Seq(FromEditor) /\ outbox \in Seq(ToEditor)
  BY StreamType DEF LoopNext, TypeOK
<1>2. Stream # <<>> /\ Head(Stream) = m /\ Stream' = Tail(Stream)
  BY <1>1, StreamTakes DEF Stream, LoopNext, editor
<1>3. m \in FromEditor /\ asking' = asking /\ alive
  BY <1>1 DEF LoopNext, editor
<1>4. /\ Count(Stream') = IF IsQuery(m) THEN Count(Stream) - 1 ELSE Count(Stream)
      /\ Count(Stream) \in Nat /\ Count(outbox) \in Nat
  BY <1>1, <1>2, CountTail, CountType
<1>5. CASE m.type = "request" /\ OnRequest(m)
  <2> DEFINE r == Response(m.id, m.call, Served(m.call))
  <2>1. r \in ToEditor /\ (IsQuery(r) <=> IsQuery(m))
    BY <1>3, <1>5 DEF IsQuery, Response
  <2>2. Count(outbox') = IF IsQuery(m) THEN Count(outbox) + 1 ELSE Count(outbox)
    BY <1>1, <1>5, <2>1, CountAppend DEF OnRequest
  <2> QED
    BY <1>3, <1>4, <2>2 DEF Balanced, UnderWay
<1>6. CASE m.type # "request" /\ outbox' = outbox
  <2>1. ~ IsQuery(m)
    BY <1>3, <1>6 DEF IsQuery, Calls
  <2> QED
    BY <1>3, <1>4, <1>6, <2>1 DEF Balanced, UnderWay
<1> QED
  BY <1>5, <1>6 DEF LoopNext, Dispatch, OnResponse, Erase, Keep

LEMMA BalancedIo == TypeOK /\ Balanced /\ IoThread => Balanced'
<1> SUFFICES ASSUME TypeOK, Balanced, IoThread PROVE Balanced'
  OBVIOUS
<1>1. CASE LoopNext
  BY <1>1, BalancedLoop
<1>2. CASE HandleRead \/ LoopEnds \/ LoopAfterErase \/ HandleEnd
  <2>1. \/ ~ alive'
        \/ alive' = alive /\ outbox' = outbox /\ asking' = asking /\ Stream' = Stream
    BY <1>2 DEF HandleRead, LoopEnds, LoopAfterErase, HandleEnd, Erase, Keep,
                client, editor, Stream
  <2> QED
    BY <2>1, BalancedKept
<1>3. CASE HandleCallback \/ HandleTheme
  <2>1. Stream' = Stream /\ asking' = asking
    BY <1>3 DEF HandleCallback, HandleTheme, reader, editor, Stream
  <2>2. \/ alive' = alive /\ outbox' = outbox
        \/ alive /\ \E call \in Calls : SendRequest(call)
    BY <1>3, FollowsType DEF HandleCallback, HandleTheme, Keep, client, Calls
  <2>3. \/ ~ alive'
        \/ /\ alive' = alive
           /\ \/ outbox' = outbox
              \/ \E m \in ToEditor : ~ IsQuery(m) /\ outbox' = Append(outbox, m)
    BY <2>2, SendsNoQuery DEF SendRequest, Insert
  <2> QED
    BY <2>1, <2>3, BalancedKept
<1> QED
  BY <1>1, <1>2, <1>3 DEF IoThread

LEMMA BalancedEnvironment ==
  TypeOK /\ Balanced /\ (ReadCompletes \/ ThemeChanges \/ StopRequested) => Balanced'
<1> SUFFICES ASSUME TypeOK, Balanced, ReadCompletes \/ ThemeChanges \/ StopRequested
             PROVE  Balanced'
  OBVIOUS
<1>1. ReadCompletes => Stream' = Stream
  <2> SUFFICES ASSUME NEW n \in 1 .. Len(inbox),
                      unpacker_' = unpacker_ \o SubSeq(inbox, 1, n),
                      inbox' = SubSeq(inbox, n + 1, Len(inbox))
               PROVE  Stream' = Stream
    BY DEF ReadCompletes, Stream
  <2>1. unpacker_ \in Seq(FromEditor) /\ inbox \in Seq(FromEditor)
    BY DEF TypeOK
  <2> QED
    BY <2>1, StreamReads DEF Stream
<1> QED
  BY <1>1, BalancedKept DEF ReadCompletes, ThemeChanges, StopRequested, client,
                            reader, editor, Stream

\* What the editor does to the two ends: it puts a message behind the stream
\* and takes one from its own.
LEMMA StreamCount ==
  ASSUME TypeOK, NEW m \in FromEditor, inbox' = Append(inbox, m), unpacker_' = unpacker_
  PROVE  Count(Stream') = IF IsQuery(m) THEN Count(Stream) + 1 ELSE Count(Stream)
<1>1. Stream' = Append(Stream, m) /\ Stream \in Seq(FromEditor)
  BY StreamSends, StreamType
<1> QED
  BY <1>1, CountAppend

\* A callback begins to wait, and its query is on its way: no callback of the
\* same request waits already, which is where Expected is needed.
LEMMA BalancedExecutes == TypeOK /\ Expected /\ Balanced /\ EditorExecutes => Balanced'
<1> SUFFICES ASSUME TypeOK, Expected, Balanced, EditorExecutes, alive PROVE Balanced'
  BY DEF EditorExecutes, client, Balanced
<1> USE SessionAssumption, MessageTypes
<1> DEFINE m == Head(outbox)
<1>1. /\ outbox # <<>> /\ outbox \in Seq(ToEditor) /\ Stream \in Seq(FromEditor)
      /\ m \in ToEditor /\ m.type = "request" /\ m.id \in Ids /\ m.call \in Calls
  BY StreamType DEF EditorExecutes, TypeOK
<1>2. outbox' = Tail(outbox) /\ unpacker_' = unpacker_
  BY DEF EditorExecutes, reader
<1>3. ~ IsQuery(m) /\ Carries(m)
  BY <1>1 DEF IsQuery, Calls, Carries
<1>4. Count(outbox') = Count(outbox) /\ Count(outbox) \in Nat /\ Count(Stream) \in Nat
  BY <1>1, <1>2, <1>3, CountTail, CountType
<1>5. m.id \notin asking
  BY <1>1, <1>3, Taken, Swapped DEF Expected, Unused
<1>6. ASSUME NEW result \in Results, Answer(m.id, m.call, result), asking' = asking
      PROVE  Balanced'
  <2>1. /\ Response(m.id, m.call, result) \in FromEditor
        /\ ~ IsQuery(Response(m.id, m.call, result))
    BY <1>1 DEF IsQuery, Calls, Response
  <2>2. Count(Stream') = Count(Stream)
    BY <1>2, <1>6, <2>1, StreamCount DEF Answer
  <2> QED
    BY <1>4, <1>6, <2>2 DEF Balanced, UnderWay
<1>7. ASSUME inbox' = Append(inbox, Request(0, "query")), asking' = asking \union {m.id}
      PROVE  Balanced'
  <2>1. Request(0, "query") \in FromEditor /\ IsQuery(Request(0, "query"))
    BY DEF Questions, IsQuery, Request
  <2>2. Count(Stream') = Count(Stream) + 1
    BY <1>2, <1>7, <2>1, StreamCount
  <2>3. IsFiniteSet(asking') /\ Cardinality(asking') = Cardinality(asking) + 1
    BY <1>5, <1>7, FS_AddElement DEF Balanced, UnderWay
  <2> QED
    BY <1>4, <2>2, <2>3 DEF Balanced, UnderWay
<1> QED
  BY <1>6, <1>7 DEF EditorExecutes, Results

\* A query is answered: its callback waits no more.
LEMMA BalancedAnswered == TypeOK /\ Balanced /\ EditorAnswered => Balanced'
<1> SUFFICES ASSUME TypeOK, Balanced, EditorAnswered, alive PROVE Balanced'
  BY DEF EditorAnswered, client, Balanced
<1> USE SessionAssumption, MessageTypes
<1> DEFINE m == Head(outbox)
<1>1. /\ outbox # <<>> /\ outbox \in Seq(ToEditor) /\ Stream \in Seq(FromEditor)
      /\ m \in ToEditor /\ m.type = "response" /\ m.result \in Results
  BY StreamType DEF EditorAnswered, TypeOK
<1>2. outbox' = Tail(outbox) /\ unpacker_' = unpacker_
  BY DEF EditorAnswered, reader
<1>3. Count(outbox) \in Nat /\ Count(Stream) \in Nat
  BY <1>1, CountType
<1>4. ASSUME m.call = "query", NEW id \in asking, asking' = asking \ {id},
             Answer(id, "connected", m.result)
      PROVE  Balanced'
  <2> DEFINE r == Response(id, "connected", m.result)
  <2>1. r \in FromEditor /\ ~ IsQuery(r)
    BY <1>1 DEF Response, Calls, IsQuery, TypeOK
  <2>2. Count(Stream') = Count(Stream)
    BY <1>2, <1>4, <2>1, StreamCount DEF Answer
  <2>3. Count(outbox') = Count(outbox) - 1
    BY <1>1, <1>2, <1>4, CountTail DEF IsQuery
  <2>4. IsFiniteSet(asking') /\ Cardinality(asking') = Cardinality(asking) - 1
    BY <1>4, FS_RemoveElement DEF Balanced, UnderWay
  <2> QED
    BY <1>3, <2>2, <2>3, <2>4 DEF Balanced, UnderWay
<1>5. CASE m.call = "other" /\ UNCHANGED <<asking, inbox>>
  <2>1. Count(outbox') = Count(outbox)
    BY <1>1, <1>2, <1>5, CountTail DEF IsQuery
  <2>2. Stream' = Stream
    BY <1>2, <1>5 DEF Stream
  <2> QED
    BY <1>5, <2>1, <2>2 DEF Balanced, UnderWay
<1> QED
  BY <1>4, <1>5 DEF EditorAnswered

LEMMA BalancedStep == TypeOK /\ Expected /\ Balanced /\ [Next]_vars => Balanced'
<1> SUFFICES ASSUME TypeOK, Expected, Balanced, [Next]_vars PROVE Balanced'
  OBVIOUS
<1>1. CASE EditorQuits
  BY <1>1, BalancedKept DEF EditorQuits, client, reader, Stream
<1>2. CASE PeerFault
  <2>1. PICK m \in {[type |-> "malformed"], [type |-> "notification"], Request(0, "other")}
                   \union {Response(id, "theme", "both") : id \in Ids} :
          inbox' = Append(inbox, m)
    BY <1>2 DEF PeerFault
  <2>2. m \in FromEditor
    BY <2>1, SessionAssumption, MessageTypes DEF Calls, Questions
  <2>3. ~ IsQuery(m)
    BY <2>1 DEF IsQuery, Request, Response
  <2>4. Count(Stream') = Count(Stream)
    BY <1>2, <2>1, <2>2, <2>3, StreamCount DEF PeerFault, reader
  <2> QED
    BY <1>2, <2>4 DEF PeerFault, client, Balanced, UnderWay
<1>3. CASE UNCHANGED vars
  BY <1>3, BalancedKept DEF vars, Stream
<1> QED
  BY <1>1, <1>2, <1>3, BalancedIo, BalancedEnvironment, BalancedExecutes,
     BalancedAnswered DEF Next, Editor

-----------------------------------------------------------------------------
(* The reader                                                              *)

ReadsIn(s) == {i \in 1 .. Len(s) : s[i].kind = "read"}
OneRead(s) == \E i \in ReadsIn(s) : ReadsIn(s) = {i}

\* The reader is in one place: it waits for the socket, it is in its loop, or
\* its handler is queued.  It does not wait with messages in its buffer.
ReadGoesOn ==
  alive => \/ reading /\ ~ looping /\ ReadsIn(queue) = {} /\ unpacker_ = <<>>
           \/ ~ reading /\ looping /\ ReadsIn(queue) = {}
           \/ ~ reading /\ ~ looping /\ OneRead(queue)

LEMMA ReadsAppend ==
  ASSUME NEW S, NEW s \in Seq(S), NEW h \in S
  PROVE  /\ h.kind # "read" => ReadsIn(Append(s, h)) = ReadsIn(s)
         /\ h.kind = "read" /\ ReadsIn(s) = {} => OneRead(Append(s, h))
<1> DEFINE t == Append(s, h)
<1>1. /\ Len(s) \in Nat /\ Len(t) = Len(s) + 1 /\ t[Len(s) + 1] = h
      /\ \A i \in 1 .. Len(s) : t[i] = s[i]
  OBVIOUS
<1> HIDE DEF t
<1>2. 1 .. Len(t) = (1 .. Len(s)) \union {Len(s) + 1}
  BY <1>1
<1>3. CASE h.kind # "read"
  BY <1>1, <1>2, <1>3 DEF ReadsIn, t
<1>4. CASE h.kind = "read" /\ ReadsIn(s) = {}
  <2>1. ReadsIn(t) = {Len(s) + 1}
    BY <1>1, <1>2, <1>4 DEF ReadsIn
  <2> QED
    BY <1>4, <2>1 DEF OneRead, t
<1> QED
  BY <1>3, <1>4

LEMMA ReadsTail ==
  ASSUME NEW S, NEW s \in Seq(S), s # <<>>
  PROVE  /\ Head(s).kind # "read" => /\ ReadsIn(s) = {} => ReadsIn(Tail(s)) = {}
                                     /\ OneRead(s) => OneRead(Tail(s))
         /\ Head(s).kind = "read" /\ OneRead(s) => ReadsIn(Tail(s)) = {}
<1> DEFINE t == Tail(s)
<1>1. /\ Len(s) \in Nat \ {0} /\ Len(t) = Len(s) - 1 /\ Head(s) = s[1]
      /\ \A i \in 1 .. Len(t) : t[i] = s[i + 1]
  OBVIOUS
<1> HIDE DEF t
<1>2. \A i \in ReadsIn(t) : i + 1 \in ReadsIn(s) /\ i + 1 # 1
  BY <1>1 DEF ReadsIn
<1>3. Head(s).kind = "read" <=> 1 \in ReadsIn(s)
  BY <1>1 DEF ReadsIn
<1>4. ReadsIn(s) = {} => ReadsIn(t) = {}
  BY <1>2
<1>5. Head(s).kind = "read" /\ OneRead(s) => ReadsIn(t) = {}
  BY <1>2, <1>3 DEF OneRead
<1>6. ASSUME Head(s).kind # "read", OneRead(s) PROVE OneRead(t)
  <2>1. PICK i \in ReadsIn(s) : ReadsIn(s) = {i}
    BY <1>6 DEF OneRead
  <2>2. i \in 1 .. Len(s) /\ s[i].kind = "read" /\ i # 1
    BY <1>3, <1>6, <2>1 DEF ReadsIn
  <2>3. i - 1 \in 1 .. Len(t) /\ (i - 1) + 1 = i
    BY <1>1, <2>2
  <2>4. i - 1 \in ReadsIn(t)
    <3>1. t[i - 1] = s[i]
      BY <1>1, <2>3
    <3> QED
      BY <2>2, <2>3, <3>1 DEF ReadsIn
  <2>5. ASSUME NEW j \in ReadsIn(t) PROVE j = i - 1
    <3>1. j + 1 = i
      BY <1>2, <2>1
    <3>2. j \in Nat
      BY <1>1 DEF ReadsIn
    <3> QED
      BY <3>1, <3>2
  <2> QED
    BY <2>4, <2>5 DEF OneRead
<1> QED
  BY <1>4, <1>5, <1>6 DEF t

\* What another handler posts, and its leaving the queue, change nothing here.
LEMMA ReadKept ==
  ASSUME TypeOK, ReadGoesOn, alive' => alive,
         reading' = reading, looping' = looping, unpacker_' = unpacker_,
         \/ queue' = queue
         \/ \E h \in Handlers : h.kind # "read" /\ queue' = Append(queue, h)
         \/ queue # <<>> /\ Head(queue).kind # "read" /\ queue' = Tail(queue)
  PROVE  ReadGoesOn'
<1>1. queue \in Seq(Handlers)
  BY DEF TypeOK
<1>2. /\ ReadsIn(queue) = {} => ReadsIn(queue') = {}
      /\ OneRead(queue) => OneRead(queue')
  <2>1. CASE queue' = queue
    BY <2>1
  <2>2. CASE \E h \in Handlers : h.kind # "read" /\ queue' = Append(queue, h)
    BY <1>1, <2>2, ReadsAppend DEF OneRead
  <2>3. CASE queue # <<>> /\ Head(queue).kind # "read" /\ queue' = Tail(queue)
    BY <1>1, <2>3, ReadsTail
  <2> QED
    BY <2>1, <2>2, <2>3
<1>3. ReadsIn(queue)' = ReadsIn(queue') /\ OneRead(queue)' = OneRead(queue')
  BY DEF ReadsIn, OneRead
<1> QED
  BY <1>2, <1>3 DEF ReadGoesOn

LEMMA ReadInit == Init => ReadGoesOn
BY DEF Init, ReadGoesOn, ReadsIn

LEMMA ReadLoop ==
  ASSUME TypeOK, ReadGoesOn, HandleRead \/ LoopNext \/ LoopEnds \/ LoopAfterErase
  PROVE  ReadGoesOn'
<1> SUFFICES ASSUME alive' PROVE ReadGoesOn'
  BY DEF ReadGoesOn
<1> USE DEF Keep, client
<1>1. CASE HandleRead
  <2>1. /\ alive /\ queue # <<>> /\ Head(queue).kind = "read" /\ queue \in Seq(Handlers)
        /\ looping' = TRUE /\ reading' = reading /\ queue' = Tail(queue) /\ ~ looping
    BY <1>1 DEF HandleRead, Runs, Erase, TypeOK
  <2>2. ReadsIn(queue) # {}
    <3>1. 1 \in 1 .. Len(queue) /\ Head(queue) = queue[1]
      BY <2>1
    <3> QED
      BY <2>1, <3>1 DEF ReadsIn
  <2>3. ~ reading /\ OneRead(queue)
    BY <2>1, <2>2 DEF ReadGoesOn
  <2>4. ReadsIn(queue') = {}
    BY <2>1, <2>3, ReadsTail
  <2> QED
    BY <2>1, <2>3, <2>4 DEF ReadGoesOn, ReadsIn
<1>2. CASE LoopNext
  <2>1. /\ alive /\ looping /\ UNCHANGED <<looping, reading>> /\ queue \in Seq(Handlers)
        /\ Head(unpacker_) \in FromEditor
    BY <1>2 DEF LoopNext, TypeOK
  <2>2. ReadsIn(queue) = {} /\ ~ reading
    BY <2>1 DEF ReadGoesOn
  <2>3. \/ queue' = queue
        \/ \E h \in Handlers : h.kind # "read" /\ queue' = Append(queue, h)
    <3>1. CASE queue' = queue
      BY <3>1
    <3>2. CASE queue' # queue
      <4> DEFINE m == Head(unpacker_)
      <4>1. /\ m.type = "response" /\ m.result # "both" /\ m.id \in DOMAIN request_cbs_
            /\ queue' = Append(queue, [kind |-> "callback", call |-> request_cbs_[m.id],
                                       result |-> m.result])
        BY <1>2, <3>2 DEF LoopNext, Dispatch, OnResponse
      <4>2. request_cbs_[m.id] \in Calls /\ m.result \in Results
        BY <2>1, <4>1, SessionAssumption, MessageTypes DEF TypeOK
      <4> QED
        BY <4>1, <4>2, HandlerTypes
    <3> QED
      BY <3>1, <3>2
  <2>4. ReadsIn(queue') = {}
    BY <2>1, <2>2, <2>3, ReadsAppend
  <2> QED
    BY <2>1, <2>2, <2>4 DEF ReadGoesOn, ReadsIn
<1>3. CASE LoopEnds
  BY <1>3 DEF LoopEnds, ReadGoesOn, ReadsIn
<1>4. CASE LoopAfterErase
  BY <1>4 DEF LoopAfterErase
<1> QED
  BY <1>1, <1>2, <1>3, <1>4

LEMMA ReadCompletesStep == TypeOK /\ ReadGoesOn /\ ReadCompletes => ReadGoesOn'
<1> SUFFICES ASSUME TypeOK, ReadGoesOn, ReadCompletes, alive PROVE ReadGoesOn'
  BY DEF ReadGoesOn, ReadCompletes, client
<1>1. reading /\ ~ reading' /\ looping' = looping /\ queue \in Seq(Handlers)
  BY DEF ReadCompletes, TypeOK
<1>2. ~ looping /\ ReadsIn(queue) = {}
  BY <1>1 DEF ReadGoesOn
<1>3. PICK ok \in BOOLEAN : queue' = Append(queue, [kind |-> "read", ok |-> ok])
  BY DEF ReadCompletes, Post
<1>4. OneRead(queue')
  BY <1>1, <1>2, <1>3, ReadsAppend, HandlerTypes
<1> QED
  BY <1>1, <1>2, <1>4 DEF ReadGoesOn, OneRead, ReadsIn

LEMMA ReadStep == TypeOK /\ ReadGoesOn /\ [Next]_vars => ReadGoesOn'
<1> SUFFICES ASSUME TypeOK, ReadGoesOn, [Next]_vars PROVE ReadGoesOn'
  OBVIOUS
<1>1. CASE HandleCallback \/ HandleTheme
  <2>1. /\ UNCHANGED <<reading, looping, unpacker_>> /\ queue' = Tail(queue)
        /\ queue # <<>> /\ Head(queue).kind # "read"
    BY <1>1 DEF HandleCallback, HandleTheme, Runs, reader
  <2>2. alive' => alive
    BY <1>1 DEF HandleCallback, HandleTheme, SendRequest, Insert, Keep, client
  <2> QED
    BY <2>1, <2>2, ReadKept
<1>2. CASE HandleEnd
  BY <1>2 DEF HandleEnd, Erase, ReadGoesOn
<1>3. CASE ThemeChanges \/ StopRequested
  <2>1. PICK k \in {"theme", "stop", "write_error"} : queue' = Append(queue, [kind |-> k])
    BY <1>3 DEF ThemeChanges, StopRequested, Post
  <2>2. UNCHANGED <<alive, reading, looping, unpacker_>>
    BY <1>3 DEF ThemeChanges, StopRequested, client, reader
  <2> QED
    BY <2>1, <2>2, ReadKept, HandlerTypes
<1>4. CASE Editor \/ EditorQuits \/ PeerFault \/ UNCHANGED vars
  <2>1. UNCHANGED <<alive, reading, looping, unpacker_, queue>>
    BY <1>4 DEF Editor, EditorExecutes, EditorAnswered, EditorQuits, PeerFault,
       vars, client, reader
  <2> QED
    BY <2>1, ReadKept
<1> QED
  BY <1>1, <1>2, <1>3, <1>4, ReadLoop, ReadCompletesStep DEF Next, IoThread

-----------------------------------------------------------------------------
(* The theorems                                                            *)

IInv == TypeOK /\ Expected /\ Registered /\ Balanced /\ ReadGoesOn

(* What holds of every reachable state: the outstanding requests are       *)
(* expected and told apart, the initialisation is in order, and whoever    *)
(* waits for a query has it under way.                                     *)
THEOREM Invariance == Spec => []IInv
<1>1. Init => IInv
  BY TypeInit, ExpectedInit, RegisteredInit, BalancedInit, ReadInit DEF IInv
<1>2. IInv /\ [Next]_vars => IInv'
  BY TypeStep, ExpectedStep, RegisteredStep, BalancedStep, ReadStep DEF IInv
<1> QED
  BY <1>1, <1>2, PTL DEF Spec

(* A response finds the callback of the request it answers, however often  *)
(* the ids come round, although the peer may also send malformed, unknown  *)
(* and unsolicited messages.                                               *)
THEOREM ResponsesMatchHolds == Spec => []ResponsesMatch
<1>1. IInv => ResponsesMatch
  BY ExpectedImplies DEF IInv
<1> QED
  BY <1>1, Invariance, PTL

(* The editor runs OnDarkMonitorConnected only when DarkMonitorQuery is    *)
(* registered.                                                             *)
THEOREM ConnectedIsRegisteredHolds == Spec => []ConnectedIsRegistered
<1>1. IInv => ConnectedIsRegistered
  BY DEF IInv, Registered, ConnectedIsRegistered
<1> QED
  BY <1>1, Invariance, PTL

(* The editor and the monitor never wait for each other: as long as the    *)
(* session lasts, every callback of an editor that waits has its query on  *)
(* the way to the client, or the answer on the way back.                   *)
THEOREM QueryUnderWayHolds == Spec => []QueryUnderWay
<1>1. IInv => QueryUnderWay
  BY DEF IInv, Balanced, UnderWay, Count, QueryUnderWay
<1> QED
  BY <1>1, Invariance, PTL

(* The client of a session never stops reading: its read is in progress,   *)
(* queued or in its loop, once, and no message is left in the buffer of    *)
(* the unpacker while it waits for more.  With QueryUnderWay it is what    *)
(* GetsConnected and QueryAnswered need of every state (read.hpp:36-60).   *)
THEOREM ReadGoesOnHolds == Spec => []ReadGoesOn
BY Invariance, PTL DEF IInv

=============================================================================
