--------------------------- MODULE ThemeSyncProofs ---------------------------
(***************************************************************************)
(* Proofs about ThemeSync, for any set of editors and any number of        *)
(* changes and queries: the type invariant, that a client is greeted       *)
(* first, that an answer is fresh, and that no update is lost.             *)
(***************************************************************************)
EXTENDS ThemeSync, SequenceTheorems, TLAPS

-----------------------------------------------------------------------------
(* Sequences of messages or handlers                                       *)

\* What is said by a sequence that has one more element, or one less.
LEMMA SaidAppend ==
  ASSUME NEW S, NEW s \in Seq(S), NEW m \in S, NEW k
  PROVE  Said(k, Append(s, m)) = Said(k, s) \union (IF m.kind = k THEN {m.theme} ELSE {})
<1>1. /\ Len(Append(s, m)) = Len(s) + 1
      /\ Append(s, m)[Len(s) + 1] = m
      /\ \A i \in 1 .. Len(s) : Append(s, m)[i] = s[i]
      /\ Len(s) \in Nat
  OBVIOUS
<1>2. 1 .. Len(s) + 1 = (1 .. Len(s)) \union {Len(s) + 1}
  BY <1>1
<1>3. Said(k, Append(s, m)) \subseteq
        Said(k, s) \union (IF m.kind = k THEN {m.theme} ELSE {})
  BY <1>1, <1>2 DEF Said
<1>4. Said(k, s) \subseteq Said(k, Append(s, m))
  BY <1>1, <1>2 DEF Said
<1>5. m.kind = k => m.theme \in Said(k, Append(s, m))
  BY <1>1, <1>2 DEF Said
<1> QED
  BY <1>3, <1>4, <1>5

LEMMA SaidTail ==
  ASSUME NEW S, NEW s \in Seq(S), s # <<>>, NEW k
  PROVE  Said(k, s) = Said(k, Tail(s)) \union (IF Head(s).kind = k THEN {Head(s).theme} ELSE {})
<1>1. /\ Len(s) \in Nat /\ Len(s) >= 1
      /\ Len(Tail(s)) = Len(s) - 1
      /\ Head(s) = s[1]
      /\ \A i \in 1 .. Len(s) - 1 : Tail(s)[i] = s[i + 1]
  OBVIOUS
<1>2. \A i \in 1 .. Len(s) : i = 1 \/ (i - 1 \in 1 .. Len(s) - 1 /\ Tail(s)[i - 1] = s[i])
  BY <1>1
<1>3. Said(k, s) \subseteq
        Said(k, Tail(s)) \union (IF Head(s).kind = k THEN {Head(s).theme} ELSE {})
  BY <1>1, <1>2 DEF Said
<1>4. Said(k, Tail(s)) \subseteq Said(k, s)
  <2> SUFFICES ASSUME NEW t \in Said(k, Tail(s)) PROVE t \in Said(k, s)
    OBVIOUS
  <2>1. PICK i \in 1 .. Len(s) - 1 : Tail(s)[i].kind = k /\ t = Tail(s)[i].theme
    BY <1>1 DEF Said
  <2>2. i + 1 \in 1 .. Len(s) /\ s[i + 1].kind = k /\ t = s[i + 1].theme
    BY <1>1, <2>1
  <2> QED
    BY <2>2 DEF Said
<1>5. Head(s).kind = k => Head(s).theme \in Said(k, s)
  BY <1>1 DEF Said
<1> QED
  BY <1>3, <1>4, <1>5

LEMMA SaidNothing == ASSUME NEW k PROVE Said(k, <<>>) = {}
  BY DEF Said

\* The themes in s and those in t come in order: none of t is older.
Before(A, B) == \A a \in A, b \in B : a <= b

\* The announcements in a sequence come in order.
Sorted(s) ==
  \A i, j \in 1 .. Len(s) :
    i < j /\ s[i].kind = "theme" /\ s[j].kind = "theme" => s[i].theme <= s[j].theme

LEMMA SortedAppend ==
  ASSUME NEW S, NEW s \in Seq(S), NEW m \in S, Sorted(s),
         m.kind = "theme" => Before(Said("theme", s), {m.theme})
  PROVE  Sorted(Append(s, m))
<1>1. /\ Len(Append(s, m)) = Len(s) + 1
      /\ Append(s, m)[Len(s) + 1] = m
      /\ \A i \in 1 .. Len(s) : Append(s, m)[i] = s[i]
      /\ Len(s) \in Nat
  OBVIOUS
<1>2. \A i \in 1 .. Len(s) : s[i].kind = "theme" => s[i].theme \in Said("theme", s)
  BY DEF Said
<1> SUFFICES ASSUME NEW i \in 1 .. Len(s) + 1, NEW j \in 1 .. Len(s) + 1, i < j,
                    Append(s, m)[i].kind = "theme", Append(s, m)[j].kind = "theme"
             PROVE  Append(s, m)[i].theme <= Append(s, m)[j].theme
  BY <1>1 DEF Sorted
<1>3. i \in 1 .. Len(s) /\ Append(s, m)[i] = s[i]
  BY <1>1
<1>4. CASE j = Len(s) + 1
  <2>1. m.kind = "theme" /\ Append(s, m)[j] = m
    BY <1>1, <1>4
  <2>2. s[i].theme \in Said("theme", s)
    BY <1>2, <1>3
  <2> QED
    BY <1>3, <2>1, <2>2 DEF Before
<1>5. CASE j \in 1 .. Len(s)
  BY <1>1, <1>3, <1>5 DEF Sorted
<1> QED
  BY <1>1, <1>4, <1>5

LEMMA SortedTail ==
  ASSUME NEW S, NEW s \in Seq(S), s # <<>>, Sorted(s)
  PROVE  /\ Sorted(Tail(s))
         /\ Head(s).kind = "theme" => Before({Head(s).theme}, Said("theme", Tail(s)))
<1>1. /\ Len(s) \in Nat /\ Len(s) >= 1
      /\ Len(Tail(s)) = Len(s) - 1
      /\ Head(s) = s[1]
      /\ \A i \in 1 .. Len(s) - 1 : i + 1 \in 1 .. Len(s) /\ Tail(s)[i] = s[i + 1]
  OBVIOUS
<1>2. Sorted(Tail(s))
  <2> SUFFICES ASSUME NEW i \in 1 .. Len(s) - 1, NEW j \in 1 .. Len(s) - 1, i < j,
                      Tail(s)[i].kind = "theme", Tail(s)[j].kind = "theme"
               PROVE  Tail(s)[i].theme <= Tail(s)[j].theme
    BY <1>1 DEF Sorted
  <2>1. /\ Tail(s)[i] = s[i + 1] /\ Tail(s)[j] = s[j + 1] /\ i + 1 < j + 1
        /\ i + 1 \in 1 .. Len(s) /\ j + 1 \in 1 .. Len(s)
    BY <1>1
  <2> QED
    BY <2>1 DEF Sorted
<1>3. ASSUME Head(s).kind = "theme", NEW b \in Said("theme", Tail(s))
      PROVE  Head(s).theme <= b
  <2>1. PICK i \in 1 .. Len(s) - 1 : Tail(s)[i].kind = "theme" /\ b = Tail(s)[i].theme
    BY <1>1 DEF Said
  <2>2. /\ 1 \in 1 .. Len(s) /\ i + 1 \in 1 .. Len(s) /\ 1 < i + 1
        /\ s[1].kind = "theme" /\ s[i + 1].kind = "theme" /\ b = s[i + 1].theme
    BY <1>1, <1>3, <2>1
  <2> QED
    BY <1>1, <2>2 DEF Sorted
<1> QED
  BY <1>2, <1>3 DEF Before

LEMMA SortedNothing == Sorted(<<>>)
  BY DEF Sorted

-----------------------------------------------------------------------------
(* Types                                                                   *)

LEMMA PostType ==
  ASSUME TypeOK, NEW h \in Handlers, Post(h)
  PROVE  queue' \in Seq(Handlers)
  BY DEF TypeOK, Post

LEMMA RunsType ==
  ASSUME TypeOK, NEW k, Runs(k)
  PROVE  /\ queue # <<>> /\ queue \in Seq(Handlers)
         /\ Head(queue) \in Handlers /\ Head(queue).kind = k
         /\ queue' = Tail(queue) /\ queue' \in Seq(Handlers)
  BY DEF TypeOK, Runs

\* The handlers with an editor are the four kinds that name it.
LEMMA HandlerEditor ==
  ASSUME NEW h \in Handlers, h.kind \in {"join", "connect", "query", "lost"}
  PROVE  h.editor \in Editors
  BY DEF Handlers, Announcements

LEMMA SendType ==
  ASSUME TypeOK, NEW m \in Messages, NEW es, SendTo(es, m)
  PROVE  wire' \in [Editors -> Seq(Messages)]
  BY DEF TypeOK, SendTo

LEMMA MessageTypes ==
  ASSUME ThemeAssumption
  PROVE  /\ \A t \in Themes : /\ Announcement(t) \in Announcements
                              /\ Announcement(t) \in Handlers
                              /\ Announcement(t) \in Messages
                              /\ Announcement(t) \in Events
                              /\ Answer(t) \in Messages
         /\ \A h \in Handlers : h.kind = "theme" => h.theme \in Themes /\ h = Announcement(h.theme)
         /\ \A m \in Messages : m.kind \in {"theme", "answer"} => m.theme \in Themes
         /\ \A m \in Messages : m.kind # "answer" => m \in Events
         /\ Announcements \subseteq Handlers /\ Events \subseteq Messages
         /\ Greeting \in Messages /\ Connected \in Messages
         /\ Themes \subseteq Int
         /\ [kind |-> "reload"] \in Handlers
         /\ \A e \in Editors, k \in {"join", "connect", "query", "lost"} :
              [kind |-> k, editor |-> e] \in Handlers
<1>1. \A t \in Themes : Announcement(t) \in Announcements
  BY DEF Announcements, Announcement
<1>2. Announcements \subseteq Handlers /\ Announcements \subseteq Events
      /\ Events \subseteq Messages
  BY DEF Handlers, Events, Messages
<1>3. \A t \in Themes : Answer(t) \in Messages
  BY DEF Answer, Messages
<1>4. \A h \in Handlers : h.kind = "theme" => h.theme \in Themes /\ h = Announcement(h.theme)
  BY DEF Handlers, Announcements, Announcement
<1>5. \A m \in Messages : m.kind \in {"theme", "answer"} => m.theme \in Themes
  BY DEF Messages, Events, Announcements, Greeting, Connected
<1>6. \A m \in Messages : m.kind # "answer" => m \in Events
  BY DEF Messages
<1>7. Greeting \in Messages /\ Connected \in Messages
  BY DEF Messages, Events
<1>8. Themes \subseteq Int
  BY DEF Themes, ThemeAssumption
<1>9. /\ [kind |-> "reload"] \in Handlers
      /\ \A e \in Editors, k \in {"join", "connect", "query", "lost"} :
           [kind |-> k, editor |-> e] \in Handlers
  BY DEF Handlers
<1> QED
  BY <1>1, <1>2, <1>3, <1>4, <1>5, <1>6, <1>7, <1>8, <1>9

LEMMA TypeInit == Init => TypeOK
<1> SUFFICES ASSUME Init PROVE TypeOK
  OBVIOUS
<1>1. 0 \in Themes /\ 0 \in 0 .. MaxAsks
  BY ThemeAssumption DEF ThemeAssumption, Themes
<1>2. jobs \in SUBSET Editors /\ main \in MainSteps
  BY ThemeAssumption DEF ThemeAssumption, Init, MainSteps
<1>3. /\ wire \in [Editors -> Seq(Messages)] /\ events \in [Editors -> Seq(Events)]
      /\ queue \in Seq(Handlers) /\ changes \in Seq(Announcements)
  BY DEF Init
<1>4. /\ query \in [Editors -> QuerySteps] /\ stage \in [Editors -> Stages]
      /\ shown \in [Editors -> Themes \union {Unset}]
  BY DEF Init, QuerySteps, Stages
<1> QED
  BY <1>1, <1>2, <1>3, <1>4 DEF Init, TypeOK

LEMMA TypeMain == TypeOK /\ MainThread => TypeOK'
<1> SUFFICES ASSUME TypeOK, MainThread PROVE TypeOK'
  OBVIOUS
<1> USE ThemeAssumption, MessageTypes
<1>1. CASE PostReload
  <2>1. queue' \in Seq(Handlers)
    BY <1>1, PostType DEF PostReload
  <2> QED
    BY <1>1, <2>1 DEF PostReload, TypeOK, MainSteps, os, editor
<1>2. CASE RegisterCallback
  BY <1>2 DEF RegisterCallback, TypeOK, MainSteps, os, editor
<1>3. CASE RunNotifier
  BY <1>3 DEF RunNotifier, TypeOK, MainSteps, os, editor
<1>4. CASE Callback
  <2>1. Head(changes) \in Announcements /\ Tail(changes) \in Seq(Announcements)
    BY <1>4 DEF Callback, TypeOK
  <2>2. queue' \in Seq(Handlers)
    BY <1>4, <2>1, PostType DEF Callback
  <2> QED
    BY <1>4, <2>1, <2>2 DEF Callback, TypeOK, editor
<1> QED
  BY <1>1, <1>2, <1>3, <1>4 DEF MainThread

LEMMA TypeIo == TypeOK /\ IoThread => TypeOK'
<1> SUFFICES ASSUME TypeOK, IoThread PROVE TypeOK'
  OBVIOUS
<1> USE ThemeAssumption, MessageTypes
<1>1. CASE HandleReload
  <2>1. queue' \in Seq(Handlers)
    BY <1>1, RunsType DEF HandleReload
  <2>2. wire' \in [Editors -> Seq(Messages)]
    BY <1>1, SendType DEF HandleReload
  <2> QED
    BY <1>1, <2>1, <2>2 DEF HandleReload, TypeOK, os, editor
<1>2. CASE HandleJoin
  <2>1. queue' \in Seq(Handlers) /\ Head(queue).editor \in Editors
    BY <1>2, RunsType, HandlerEditor DEF HandleJoin
  <2>2. wire' \in [Editors -> Seq(Messages)]
    BY <1>2, SendType DEF HandleJoin
  <2> QED
    BY <1>2, <2>1, <2>2 DEF HandleJoin, TypeOK, os, editor
<1>3. CASE HandleConnect
  <2>1. queue' \in Seq(Handlers)
    BY <1>3, RunsType DEF HandleConnect
  <2>2. wire' \in [Editors -> Seq(Messages)]
    BY <1>3, SendType DEF HandleConnect
  <2> QED
    BY <1>3, <2>1, <2>2 DEF HandleConnect, TypeOK, os, editor
<1>4. CASE HandleTheme
  <2>1. /\ queue' \in Seq(Handlers)
        /\ Head(queue) \in Handlers /\ Head(queue).kind = "theme"
    BY <1>4, RunsType DEF HandleTheme
  <2>2. Announcement(Head(queue).theme) \in Messages
    BY <2>1
  <2>3. wire' \in [Editors -> Seq(Messages)]
    BY <1>4, <2>2, SendType DEF HandleTheme
  <2> QED
    BY <1>4, <2>1, <2>3 DEF HandleTheme, TypeOK, os, editor
<1>5. CASE HandleQuery
  <2>1. queue' \in Seq(Handlers) /\ Head(queue).editor \in Editors
    BY <1>5, RunsType, HandlerEditor DEF HandleQuery
  <2>2. Answer(Appearance) \in Messages
    BY DEF TypeOK, Appearance
  <2>3. wire' \in [Editors -> Seq(Messages)]
    BY <1>5, <2>2, SendType DEF HandleQuery
  <2> QED
    <3>1. query' \in [Editors -> QuerySteps] /\ missed' \in SUBSET Editors
      BY <1>5, <2>1 DEF HandleQuery, TypeOK, QuerySteps
    <3> QED
      BY <1>5, <2>1, <2>3, <3>1 DEF HandleQuery, TypeOK
<1>6. CASE HandleLost
  <2>1. queue' \in Seq(Handlers)
    BY <1>6, RunsType DEF HandleLost
  <2> QED
    BY <1>6, <2>1 DEF HandleLost, TypeOK, os, editor
<1> QED
  BY <1>1, <1>2, <1>3, <1>4, <1>5, <1>6 DEF IoThread

LEMMA TypeOs == TypeOK /\ (NotifierListens \/ ThemeChanges) => TypeOK'
<1> SUFFICES ASSUME TypeOK, NotifierListens \/ ThemeChanges PROVE TypeOK'
  OBVIOUS
<1>1. CASE NotifierListens
  BY <1>1 DEF NotifierListens, TypeOK, editor
<1>2. CASE ThemeChanges
  <2>1. theme + 1 \in Themes
    BY <1>2, ThemeAssumption DEF ThemeChanges, TypeOK, Themes, ThemeAssumption
  <2>2. changes' \in Seq(Announcements)
    <3>1. Announcement(theme + 1) \in Announcements /\ changes \in Seq(Announcements)
      BY <2>1, ThemeAssumption, MessageTypes DEF TypeOK
    <3>2. Append(changes, Announcement(theme + 1)) \in Seq(Announcements)
      BY <3>1
    <3> QED
      BY <1>2, <3>1, <3>2 DEF ThemeChanges
  <2>3. missed' \in SUBSET Editors
    BY <1>2 DEF ThemeChanges, Told
  <2> QED
    <3>1. /\ UNCHANGED <<main, queue, jobs, greeted, listening, wire, events>>
          /\ UNCHANGED <<shown, query, asks, stage, gone>>
          /\ theme' = theme + 1
      BY <1>2 DEF ThemeChanges, editor
    <3> QED
      BY <2>1, <2>2, <2>3, <3>1 DEF TypeOK
<1> QED
  BY <1>1, <1>2

LEMMA TypeEditors ==
  ASSUME TypeOK, NEW e \in Editors, Joins(e) \/ Editor(e) \/ Asks(e) \/ Quits(e)
  PROVE  TypeOK'
<1> USE ThemeAssumption, MessageTypes
<1>1. CASE Joins(e)
  <2>1. queue' \in Seq(Handlers)
    BY <1>1, PostType DEF Joins
  <2> QED
    BY <1>1, <2>1 DEF Joins, TypeOK, os, editor
<1>2. CASE ExecutesGreeting(e)
  BY <1>2 DEF ExecutesGreeting, TypeOK, os, Stages
<1>3. CASE ChainEnds(e)
  <2>1. queue' \in Seq(Handlers)
    BY <1>3, PostType DEF ChainEnds, TypeOK
  <2> QED
    BY <1>3, <2>1 DEF ChainEnds, TypeOK, os, Stages
<1>4. CASE Receive(e)
  <2>1. /\ wire[e] \in Seq(Messages) /\ wire[e] # <<>>
        /\ Head(wire[e]) \in Messages /\ Tail(wire[e]) \in Seq(Messages)
    BY <1>4, SMTT(30) DEF Receive, TypeOK
  <2>2. wire' \in [Editors -> Seq(Messages)]
    BY <1>4, <2>1 DEF Receive, TypeOK
  <2>3. CASE Head(wire[e]).kind = "answer"
    <3>1. Head(wire[e]).theme \in Themes
      BY <2>1, <2>3
    <3>2. shown' \in [Editors -> Themes \union {Unset}]
      BY <1>4, <2>3, <3>1 DEF Receive, TypeOK
    <3>3. query' \in [Editors -> QuerySteps] /\ events' = events
      BY <1>4, <2>3 DEF Receive, TypeOK, QuerySteps
    <3> QED
      BY <1>4, <2>2, <3>2, <3>3 DEF Receive, TypeOK, os
  <2>4. CASE Head(wire[e]).kind # "answer"
    <3>1. Head(wire[e]) \in Events
      BY <2>1, <2>4
    <3>2. events' \in [Editors -> Seq(Events)]
      <4>1. events[e] \in Seq(Events)
        BY DEF TypeOK
      <4>2. Append(events[e], Head(wire[e])) \in Seq(Events)
        BY <3>1, <4>1
      <4> QED
        BY <1>4, <2>4, <4>2 DEF Receive, TypeOK
    <3>3. shown' = shown /\ query' = query
      BY <1>4, <2>4 DEF Receive
    <3> QED
      BY <1>4, <2>2, <3>2, <3>3 DEF Receive, TypeOK, os
  <2> QED
    BY <2>3, <2>4
<1>5. CASE ExecutesChange(e)
  <2>1. /\ Head(events[e]) \in Events /\ Tail(events[e]) \in Seq(Events)
        /\ Head(events[e]).kind = "theme"
    BY <1>5, SMTT(30) DEF ExecutesChange, TypeOK
  <2>2. Head(events[e]).theme \in Themes
    BY <2>1
  <2> QED
    BY <1>5, <2>1, <2>2 DEF ExecutesChange, TypeOK, os
<1>6. CASE ExecutesConnected(e)
  BY <1>6 DEF ExecutesConnected, TypeOK, os, QuerySteps
<1>7. CASE Asks(e)
  BY <1>7 DEF Asks, TypeOK, os, QuerySteps, ThemeAssumption
<1>8. CASE QueryArrives(e)
  <2>1. queue' \in Seq(Handlers)
    BY <1>8, PostType DEF QueryArrives
  <2> QED
    BY <1>8, <2>1 DEF QueryArrives, TypeOK, os, QuerySteps
<1>9. CASE Quits(e)
  <2>1. queue' \in Seq(Handlers)
    BY <1>9, PostType DEF Quits
  <2> QED
    BY <1>9, <2>1, SMTT(30) DEF Quits, TypeOK, os
<1> QED
  BY <1>1, <1>2, <1>3, <1>4, <1>5, <1>6, <1>7, <1>8, <1>9 DEF Editor

LEMMA TypeStep == TypeOK /\ [Next]_vars => TypeOK'
<1> SUFFICES ASSUME TypeOK, [Next]_vars PROVE TypeOK'
  OBVIOUS
<1>1. CASE UNCHANGED vars
  BY <1>1 DEF vars, TypeOK
<1> QED
  BY <1>1, TypeMain, TypeIo, TypeOs, TypeEditors DEF Next

(* The state keeps its types: what is on its way to an editor is a message, *)
(* what waits on the io thread a handler (monitor.cpp:67-100).              *)
THEOREM TypeInvariance == Spec => []TypeOK
  BY TypeInit, TypeStep, PTL DEF Spec

-----------------------------------------------------------------------------
(* Greeted first                                                           *)

\* An editor that has not joined was never told anything.
Untouched ==
  \A e \in Editors \ (jobs \union gone) :
    /\ wire[e] = <<>> /\ events[e] = <<>>
    /\ shown[e] = Unset /\ query[e] = "none" /\ stage[e] = "new"

\* Until the reload is posted, nothing but the loss of the first editor can
\* happen; and nothing else is queued before the reload.
Start ==
  /\ main = "start" =>
       /\ \A i \in 1 .. Len(queue) : queue[i].kind = "lost"
       /\ \A e \in Editors : /\ wire[e] = <<>> /\ events[e] = <<>>
                             /\ query[e] = "none" /\ stage[e] = "new"
  /\ \A i \in 1 .. Len(queue) : queue[i].kind = "reload" =>
       \A j \in 1 .. i - 1 : queue[j].kind = "lost"
  /\ Reloaded => jobs \subseteq greeted

Greeted == Untouched /\ Start /\ GreetedFirst

\* What the queue looks like after a handler was posted, or was taken.
LEMMA PostQueue ==
  ASSUME TypeOK, NEW h \in Handlers, Post(h)
  PROVE  /\ Len(queue) \in Nat /\ Len(queue') = Len(queue) + 1
         /\ \A i \in 1 .. Len(queue) : queue'[i] = queue[i]
         /\ queue'[Len(queue) + 1] = h
         /\ 1 .. Len(queue') = (1 .. Len(queue)) \union {Len(queue) + 1}
  BY DEF TypeOK, Post

LEMMA RunsQueue ==
  ASSUME TypeOK, NEW k, Runs(k)
  PROVE  /\ Len(queue) \in Nat /\ Len(queue) >= 1 /\ Len(queue') = Len(queue) - 1
         /\ \A i \in 1 .. Len(queue') : i + 1 \in 1 .. Len(queue) /\ queue'[i] = queue[i + 1]
         /\ queue[1] = Head(queue) /\ queue[1].kind = k /\ 1 \in 1 .. Len(queue)
  BY DEF TypeOK, Runs

\* The queue keeps its form when something else than a reload is posted.
LEMMA StartPost ==
  ASSUME TypeOK, Start, NEW h \in Handlers, Post(h), h.kind # "reload",
         main' = main, main # "start" \/ h.kind = "lost",
         main = "start" => UNCHANGED <<wire, events, query, stage>>
                           \/ \A e \in Editors : wire'[e] = <<>> /\ events'[e] = <<>>
                                /\ UNCHANGED <<query, stage>>,
         jobs' = jobs, greeted' = greeted
  PROVE  Start'
<1>1. /\ Len(queue) \in Nat /\ Len(queue') = Len(queue) + 1
      /\ \A i \in 1 .. Len(queue) : queue'[i] = queue[i]
      /\ queue'[Len(queue) + 1] = h
      /\ 1 .. Len(queue') = (1 .. Len(queue)) \union {Len(queue) + 1}
  BY PostQueue
<1>2. main' = "start" =>
       /\ \A i \in 1 .. Len(queue') : queue'[i].kind = "lost"
       /\ \A e \in Editors : /\ wire'[e] = <<>> /\ events'[e] = <<>>
                             /\ query'[e] = "none" /\ stage'[e] = "new"
  BY <1>1 DEF Start
<1>3. \A i \in 1 .. Len(queue') : queue'[i].kind = "reload" =>
        \A j \in 1 .. i - 1 : queue'[j].kind = "lost"
  BY <1>1 DEF Start
<1>4. Reloaded' => Reloaded
  BY <1>1 DEF Reloaded
<1> QED
  BY <1>2, <1>3, <1>4 DEF Start

\* A handler runs, other than the reload or the loss of an editor: then the
\* reload is over.
LEMMA RunsAfterReload ==
  ASSUME TypeOK, Start, NEW k, Runs(k), k \notin {"reload", "lost"}
  PROVE  Reloaded /\ main # "start" /\ jobs \subseteq greeted
<1>1. /\ Len(queue) \in Nat /\ Len(queue) >= 1
      /\ queue[1].kind = k /\ 1 \in 1 .. Len(queue)
  BY RunsQueue
<1>2. main # "start"
  BY <1>1 DEF Start
<1>3. ASSUME NEW i \in 1 .. Len(queue), queue[i].kind = "reload" PROVE FALSE
  <2>1. i = 1 \/ 1 \in 1 .. i - 1
    BY <1>1
  <2> QED
    BY <1>1, <1>3, <2>1 DEF Start
<1> QED
  BY <1>2, <1>3 DEF Reloaded, Start

LEMMA StartRuns ==
  ASSUME TypeOK, Start, NEW k, Runs(k), main' = main,
         k = "lost" => UNCHANGED <<wire, events, query, stage, greeted>> /\ jobs' \subseteq jobs,
         k # "lost" => main # "start" /\ jobs' \subseteq greeted'
  PROVE  Start'
<1>1. /\ Len(queue) \in Nat /\ Len(queue) >= 1 /\ Len(queue') = Len(queue) - 1
      /\ \A i \in 1 .. Len(queue') : i + 1 \in 1 .. Len(queue) /\ queue'[i] = queue[i + 1]
      /\ queue[1].kind = k /\ 1 \in 1 .. Len(queue)
  BY RunsQueue
<1>2. main' = "start" =>
       /\ \A i \in 1 .. Len(queue') : queue'[i].kind = "lost"
       /\ \A e \in Editors : /\ wire'[e] = <<>> /\ events'[e] = <<>>
                             /\ query'[e] = "none" /\ stage'[e] = "new"
  BY <1>1 DEF Start
<1>3. \A i \in 1 .. Len(queue') : queue'[i].kind = "reload" =>
        \A j \in 1 .. i - 1 : queue'[j].kind = "lost"
  <2> SUFFICES ASSUME NEW i \in 1 .. Len(queue'), queue'[i].kind = "reload",
                      NEW j \in 1 .. i - 1
               PROVE  queue'[j].kind = "lost"
    OBVIOUS
  <2>1. /\ i + 1 \in 1 .. Len(queue) /\ queue[i + 1].kind = "reload"
        /\ j \in 1 .. Len(queue') /\ queue'[j] = queue[j + 1]
        /\ j + 1 \in 1 .. (i + 1) - 1
    BY <1>1, SMTT(30)
  <2> QED
    BY <2>1 DEF Start
<1>4. CASE k = "lost"
  <2>1. Reloaded' => Reloaded
    <3> SUFFICES ASSUME Reloaded', NEW i \in 1 .. Len(queue)
                 PROVE  main # "start" /\ queue[i].kind # "reload"
      BY DEF Reloaded
    <3>1. i = 1 \/ (i - 1 \in 1 .. Len(queue') /\ queue'[i - 1] = queue[i])
      BY <1>1
    <3> QED
      BY <1>1, <1>4, <3>1 DEF Reloaded
  <2> QED
    BY <1>2, <1>3, <1>4, <2>1 DEF Start
<1>5. CASE k # "lost"
  BY <1>2, <1>3, <1>5 DEF Start
<1> QED
  BY <1>4, <1>5

\* A query waits in the queue once, and the loss of an editor is real.
Queued ==
  /\ \A i \in 1 .. Len(queue) :
       /\ queue[i].kind = "query" => query[queue[i].editor] = "queued"
       /\ queue[i].kind = "lost" => queue[i].editor \in gone
  /\ \A i, j \in 1 .. Len(queue) :
       queue[i].kind = "query" /\ queue[j].kind = "query"
         /\ queue[i].editor = queue[j].editor => i = j

\* An editor has at most one answer on its way, and waits for it.
Once(s) == \A i, j \in 1 .. Len(s) : s[i].kind = "answer" /\ s[j].kind = "answer" => i = j

Answering ==
  \A e \in Editors : /\ Answers(e) # {} => query[e] = "answered"
                     /\ Once(wire[e])

LEMMA OnceAppend ==
  ASSUME NEW S, NEW s \in Seq(S), NEW m \in S, Once(s),
         m.kind = "answer" => Said("answer", s) = {}
  PROVE  Once(Append(s, m))
<1>1. /\ Len(Append(s, m)) = Len(s) + 1
      /\ Append(s, m)[Len(s) + 1] = m
      /\ \A i \in 1 .. Len(s) : Append(s, m)[i] = s[i]
      /\ Len(s) \in Nat
      /\ 1 .. Len(s) + 1 = (1 .. Len(s)) \union {Len(s) + 1}
  OBVIOUS
<1>2. m.kind = "answer" => \A i \in 1 .. Len(s) : s[i].kind # "answer"
  BY DEF Said
<1> QED
  BY <1>1, <1>2 DEF Once

LEMMA OnceTail ==
  ASSUME NEW S, NEW s \in Seq(S), s # <<>>, Once(s)
  PROVE  /\ Once(Tail(s))
         /\ Head(s).kind = "answer" => Said("answer", Tail(s)) = {}
<1>1. /\ Len(s) \in Nat /\ Len(s) >= 1 /\ 1 \in 1 .. Len(s)
      /\ Len(Tail(s)) = Len(s) - 1
      /\ Head(s) = s[1]
      /\ \A i \in 1 .. Len(s) - 1 :
           i + 1 \in 1 .. Len(s) /\ i + 1 # 1 /\ Tail(s)[i] = s[i + 1]
  OBVIOUS
<1>2. Once(Tail(s))
  <2> SUFFICES ASSUME NEW i \in 1 .. Len(s) - 1, NEW j \in 1 .. Len(s) - 1,
                      Tail(s)[i].kind = "answer", Tail(s)[j].kind = "answer"
               PROVE  i = j
    BY <1>1 DEF Once
  <2>1. i + 1 = j + 1
    BY <1>1 DEF Once
  <2> QED
    BY <2>1
<1>3. Head(s).kind = "answer" => \A i \in 1 .. Len(s) - 1 : Tail(s)[i].kind # "answer"
  BY <1>1 DEF Once
<1> QED
  BY <1>1, <1>2, <1>3 DEF Said

\* What is said on the wires after a message was sent.
LEMMA SendWire ==
  ASSUME TypeOK, NEW m \in Messages, NEW es, SendTo(es, m), NEW e \in Editors
  PROVE  /\ wire[e] \in Seq(Messages)
         /\ e \in es \ gone => wire'[e] = Append(wire[e], m)
         /\ e \notin es \ gone => wire'[e] = wire[e]
  BY DEF TypeOK, SendTo

LEMMA SendSaid ==
  ASSUME TypeOK, NEW m \in Messages, NEW es, SendTo(es, m), NEW e \in Editors, NEW k
  PROVE  Said(k, wire'[e]) = Said(k, wire[e]) \union
              (IF e \in es \ gone /\ m.kind = k THEN {m.theme} ELSE {})
<1>1. /\ wire[e] \in Seq(Messages)
      /\ e \in es \ gone => wire'[e] = Append(wire[e], m)
      /\ e \notin es \ gone => wire'[e] = wire[e]
  BY SendWire
<1>2. CASE e \in es \ gone
  <2>1. Said(k, Append(wire[e], m)) =
          Said(k, wire[e]) \union (IF m.kind = k THEN {m.theme} ELSE {})
    BY <1>1, SaidAppend
  <2> QED
    BY <1>1, <1>2, <2>1
<1>3. CASE e \notin es \ gone
  BY <1>1, <1>3
<1> QED
  BY <1>1, <1>2, <1>3

\* Sending what is no answer leaves the answers as they are.
LEMMA AnsweringSend ==
  ASSUME TypeOK, Answering, NEW m \in Messages, NEW es, SendTo(es, m),
         m.kind # "answer", query' = query
  PROVE  Answering'
<1> SUFFICES ASSUME NEW e \in Editors
             PROVE  /\ Answers(e)' # {} => query'[e] = "answered"
                    /\ Once(wire'[e])
  BY DEF Answering
<1>1. Answers(e)' = Answers(e)
  <2>1. Said("answer", wire'[e]) = Said("answer", wire[e]) \union
          (IF e \in es \ gone /\ m.kind = "answer" THEN {m.theme} ELSE {})
    BY SendSaid
  <2> QED
    BY <2>1 DEF Answers
<1>2. Once(wire'[e])
  <2>1. /\ wire[e] \in Seq(Messages) /\ Once(wire[e])
        /\ wire'[e] = Append(wire[e], m) \/ wire'[e] = wire[e]
    BY SendWire DEF Answering
  <2>2. Once(Append(wire[e], m))
    BY <2>1, OnceAppend
  <2> QED
    BY <2>1, <2>2
<1> QED
  BY <1>1, <1>2 DEF Answering

LEMMA AnsweringStep == TypeOK /\ Queued /\ Answering /\ [Next]_vars => Answering'
<1> SUFFICES ASSUME TypeOK, Queued, Answering, [Next]_vars PROVE Answering'
  OBVIOUS
<1> USE ThemeAssumption, MessageTypes
<1>1. CASE MainThread \/ NotifierListens \/ ThemeChanges \/ UNCHANGED vars
  BY <1>1 DEF MainThread, PostReload, RegisterCallback, RunNotifier, Callback,
     NotifierListens, ThemeChanges, vars, os, editor, Answering, Answers
<1>2. CASE IoThread
  <2>1. CASE HandleReload \/ HandleJoin
    <3>1. Greeting.kind # "answer" /\ query' = query
      BY <2>1 DEF HandleReload, HandleJoin, editor, Greeting
    <3> QED
      BY <2>1, <3>1, AnsweringSend DEF HandleReload, HandleJoin
  <2>2. CASE HandleConnect
    <3>1. Connected.kind # "answer" /\ query' = query
      BY <2>2 DEF HandleConnect, editor, Connected
    <3> QED
      BY <2>2, <3>1, AnsweringSend DEF HandleConnect
  <2>3. CASE HandleTheme
    <3>1. Head(queue).theme \in Themes
      BY <2>3, RunsType DEF HandleTheme
    <3>2. Announcement(Head(queue).theme).kind # "answer" /\ query' = query
      BY <2>3 DEF HandleTheme, editor, Announcement
    <3> QED
      BY <2>3, <3>1, <3>2, AnsweringSend DEF HandleTheme
  <2>4. CASE HandleQuery
    <3> DEFINE e == Head(queue).editor
    <3> DEFINE m == Answer(Appearance)
    <3>1. /\ Head(queue).kind = "query" /\ Head(queue) = queue[1] /\ 1 \in 1 .. Len(queue)
          /\ Head(queue) \in Handlers
      BY <2>4, RunsType, RunsQueue DEF HandleQuery
    <3>2. e \in Editors /\ query[e] = "queued"
      BY <3>1, HandlerEditor DEF Queued
    <3>3. m \in Messages /\ m.kind = "answer"
      BY DEF TypeOK, Appearance, Answer
    <3>4. SendTo(jobs \intersect {e}, m)
      BY <2>4 DEF HandleQuery
    <3>5. Answers(e) = {}
      BY <3>2 DEF Answering
    <3> HIDE DEF m, e
    <3>6. ASSUME NEW f \in Editors PROVE Once(wire'[f])
      <4>1. Once(wire[f])
        BY DEF Answering
      <4>2. f \in jobs \intersect {e} => Said("answer", wire[f]) = {}
        BY <3>5 DEF Answers
      <4>3. /\ wire[f] \in Seq(Messages)
            /\ f \in (jobs \intersect {e}) \ gone => wire'[f] = Append(wire[f], m)
            /\ f \notin (jobs \intersect {e}) \ gone => wire'[f] = wire[f]
        BY <3>3, <3>4, SendWire
      <4>4. CASE f \in (jobs \intersect {e}) \ gone
        <5>1. Once(Append(wire[f], m))
          BY <3>3, <4>1, <4>2, <4>3, <4>4, OnceAppend
        <5> QED
          BY <4>3, <4>4, <5>1
      <4> QED
        BY <4>1, <4>3, <4>4
    <3>7. ASSUME NEW f \in Editors, Answers(f)' # {} PROVE query'[f] = "answered"
      <4>1. CASE f = e
        BY <2>4, <3>2, <4>1 DEF HandleQuery, TypeOK, e
      <4>2. CASE f # e
        <5>1. Answers(f)' = Answers(f)
          <6>1. wire'[f] = wire[f]
            BY <3>3, <3>4, <4>2, SendWire
          <6> QED
            BY <6>1 DEF Answers
        <5>2. query'[f] = query[f]
          BY <2>4, <4>2 DEF HandleQuery, TypeOK, e
        <5> QED
          BY <3>7, <5>1, <5>2 DEF Answering
      <4> QED
        BY <4>1, <4>2
    <3> QED
      BY <3>6, <3>7 DEF Answering
  <2>5. CASE HandleLost
    BY <2>5 DEF HandleLost, editor, Answering, Answers
  <2> QED
    BY <1>2, <2>1, <2>2, <2>3, <2>4, <2>5 DEF IoThread
<1>3. ASSUME NEW e \in Editors, Joins(e) \/ Editor(e) \/ Asks(e) \/ Quits(e)
      PROVE  Answering'
  <2>1. CASE Joins(e) \/ ExecutesGreeting(e) \/ ChainEnds(e) \/ ExecutesChange(e)
    BY <2>1 DEF Joins, ExecutesGreeting, ChainEnds, ExecutesChange, editor,
       Answering, Answers
  <2>2. CASE Receive(e)
    <3>1. wire[e] \in Seq(Messages) /\ wire[e] # <<>> /\ Once(wire[e])
      BY <2>2 DEF Receive, TypeOK, Answering
    <3>2. /\ wire'[e] = Tail(wire[e])
          /\ \A f \in Editors \ {e} : wire'[f] = wire[f] /\ query'[f] = query[f]
          /\ Head(wire[e]).kind # "answer" => query' = query
      BY <2>2 DEF Receive, TypeOK
    <3>3. Once(wire'[e]) /\ (Head(wire[e]).kind = "answer" => Said("answer", wire'[e]) = {})
      BY <3>1, <3>2, OnceTail
    <3>4. Said("answer", wire'[e]) \subseteq Said("answer", wire[e])
      BY <3>1, <3>2, SaidTail
    <3> QED
      BY <3>2, <3>3, <3>4 DEF Answering, Answers
  <2>3. CASE ExecutesConnected(e) \/ Asks(e) \/ QueryArrives(e)
    <3>1. query[e] # "answered" /\ wire' = wire
      BY <2>3 DEF ExecutesConnected, Asks, QueryArrives
    <3>2. \A f \in Editors \ {e} : query'[f] = query[f]
      BY <2>3 DEF ExecutesConnected, Asks, QueryArrives, TypeOK
    <3> QED
      BY <3>1, <3>2 DEF Answering, Answers
  <2>4. CASE Quits(e)
    <3>1. /\ wire'[e] = <<>> /\ query' = query
          /\ \A f \in Editors \ {e} : wire'[f] = wire[f]
      BY <2>4 DEF Quits, TypeOK
    <3>2. Once(wire'[e]) /\ Said("answer", wire'[e]) = {}
      BY <3>1 DEF Once, Said
    <3> QED
      BY <3>1, <3>2 DEF Answering, Answers
  <2> QED
    BY <1>3, <2>1, <2>2, <2>3, <2>4 DEF Editor
<1> QED
  BY <1>1, <1>2, <1>3 DEF Next

LEMMA QueuedPost ==
  ASSUME TypeOK, Queued, NEW h \in Handlers, Post(h), gone \subseteq gone',
         h.kind = "lost" => h.editor \in gone',
         h.kind # "query" => query' = query,
         h.kind = "query" => /\ query[h.editor] # "queued"
                             /\ query' = [query EXCEPT ![h.editor] = "queued"]
  PROVE  Queued'
<1>1. /\ Len(queue) \in Nat /\ Len(queue') = Len(queue) + 1
      /\ \A i \in 1 .. Len(queue) : queue'[i] = queue[i]
      /\ queue'[Len(queue) + 1] = h
      /\ 1 .. Len(queue') = (1 .. Len(queue)) \union {Len(queue) + 1}
  BY PostQueue
<1>2. \A i \in 1 .. Len(queue) : queue[i] \in Handlers
  BY DEF TypeOK
<1>3. CASE h.kind # "query"
  BY <1>1, <1>3 DEF Queued
<1>4. CASE h.kind = "query"
  <2>1. h.editor \in Editors /\ query'[h.editor] = "queued"
    BY <1>4, HandlerEditor DEF TypeOK
  <2>2. \A i \in 1 .. Len(queue) : queue[i].kind = "query" =>
          queue[i].editor # h.editor /\ queue[i].editor \in Editors
    BY <1>2, <1>4, HandlerEditor DEF Queued
  <2>3. \A i \in 1 .. Len(queue) : queue[i].kind = "query" =>
          query'[queue[i].editor] = "queued"
    BY <1>4, <2>2 DEF Queued, TypeOK
  <2> QED
    BY <1>1, <1>4, <2>1, <2>2, <2>3 DEF Queued
<1> QED
  BY <1>3, <1>4

LEMMA QueuedRuns ==
  ASSUME TypeOK, Queued, NEW k, Runs(k), gone' = gone,
         k # "query" => query' = query,
         k = "query" => query' = [query EXCEPT ![Head(queue).editor] = "answered"]
  PROVE  Queued'
<1>1. /\ Len(queue) \in Nat /\ Len(queue) >= 1 /\ Len(queue') = Len(queue) - 1
      /\ \A i \in 1 .. Len(queue') : i + 1 \in 1 .. Len(queue) /\ queue'[i] = queue[i + 1]
      /\ queue[1] = Head(queue) /\ queue[1].kind = k /\ 1 \in 1 .. Len(queue)
  BY RunsQueue
<1>2. \A i, j \in 1 .. Len(queue') :
        queue'[i].kind = "query" /\ queue'[j].kind = "query"
          /\ queue'[i].editor = queue'[j].editor => i = j
  <2> SUFFICES ASSUME NEW i \in 1 .. Len(queue'), NEW j \in 1 .. Len(queue'),
                      queue'[i].kind = "query", queue'[j].kind = "query",
                      queue'[i].editor = queue'[j].editor
               PROVE  i + 1 = j + 1
    BY <1>1, SMTT(30)
  <2>1. /\ i + 1 \in 1 .. Len(queue) /\ queue'[i] = queue[i + 1]
        /\ j + 1 \in 1 .. Len(queue) /\ queue'[j] = queue[j + 1]
    BY <1>1
  <2> QED
    BY <2>1 DEF Queued
<1>3. \A i \in 1 .. Len(queue') : queue'[i].kind = "lost" => queue'[i].editor \in gone'
  BY <1>1 DEF Queued
<1>4. \A i \in 1 .. Len(queue') : queue'[i].kind = "query" => query'[queue'[i].editor] = "queued"
  <2> SUFFICES ASSUME NEW i \in 1 .. Len(queue'), queue'[i].kind = "query"
               PROVE  query'[queue'[i].editor] = "queued"
    OBVIOUS
  <2>1. /\ i + 1 \in 1 .. Len(queue) /\ queue'[i] = queue[i + 1]
        /\ queue[i + 1].kind = "query" /\ i + 1 # 1
    BY <1>1
  <2>2. query[queue[i + 1].editor] = "queued"
    BY <2>1 DEF Queued
  <2>3. CASE k # "query"
    BY <2>1, <2>2, <2>3
  <2>4. CASE k = "query"
    <3>1. queue[i + 1].editor # Head(queue).editor
      BY <1>1, <2>1, <2>4 DEF Queued
    <3>2. queue[i + 1] \in Handlers
      BY <2>1 DEF TypeOK
    <3>3. queue[i + 1].editor \in Editors
      BY <2>1, <3>2, HandlerEditor
    <3> QED
      BY <2>1, <2>2, <2>4, <3>1, <3>3 DEF TypeOK
  <2> QED
    BY <2>3, <2>4
<1> QED
  BY <1>2, <1>3, <1>4 DEF Queued

LEMMA QueuedStep == TypeOK /\ Queued /\ Answering /\ [Next]_vars => Queued'
<1> SUFFICES ASSUME TypeOK, Queued, Answering, [Next]_vars PROVE Queued'
  OBVIOUS
<1> USE ThemeAssumption, MessageTypes
<1>1. CASE MainThread
  <2>1. CASE PostReload
    BY <2>1, QueuedPost DEF PostReload, editor
  <2>2. CASE RegisterCallback \/ RunNotifier
    BY <2>2 DEF RegisterCallback, RunNotifier, editor, Queued
  <2>3. CASE Callback
    <3>1. Head(changes) \in Announcements
      BY <2>3 DEF Callback, TypeOK
    <3>2. Head(changes).kind = "theme" /\ Head(changes) \in Handlers
      BY <3>1 DEF Announcements
    <3> QED
      BY <2>3, <3>2, QueuedPost DEF Callback, editor
  <2> QED
    BY <1>1, <2>1, <2>2, <2>3 DEF MainThread
<1>2. CASE IoThread
  <2>1. CASE HandleQuery
    BY <2>1, QueuedRuns DEF HandleQuery
  <2>2. CASE HandleReload \/ HandleJoin \/ HandleConnect \/ HandleTheme \/ HandleLost
    BY <2>2, QueuedRuns DEF HandleReload, HandleJoin, HandleConnect, HandleTheme,
       HandleLost, editor
  <2> QED
    BY <1>2, <2>1, <2>2 DEF IoThread
<1>3. CASE NotifierListens \/ ThemeChanges
  BY <1>3 DEF NotifierListens, ThemeChanges, editor, Queued
<1>4. ASSUME NEW e \in Editors, Joins(e) \/ Editor(e) \/ Asks(e) \/ Quits(e)
      PROVE  Queued'
  <2>0. \A i \in 1 .. Len(queue) : queue[i] \in Handlers
    BY DEF TypeOK
  <2>1. CASE Joins(e)
    BY <2>1, QueuedPost DEF Joins, editor
  <2>2. CASE ExecutesGreeting(e) \/ ExecutesChange(e)
    BY <2>2 DEF ExecutesGreeting, ExecutesChange, Queued
  <2>3. CASE ChainEnds(e)
    <3>1. CASE queue' = queue
      BY <2>3, <3>1 DEF ChainEnds, Queued
    <3>2. CASE Post([kind |-> "connect", editor |-> e])
      BY <2>3, <3>2, QueuedPost DEF ChainEnds
    <3> QED
      BY <2>3, <3>1, <3>2 DEF ChainEnds
  <2>4. CASE Receive(e) \/ ExecutesConnected(e) \/ Asks(e)
    <3>1. queue' = queue /\ gone' = gone
      BY <2>4 DEF Receive, ExecutesConnected, Asks
    <3>2. query' = query \/ query[e] # "queued"
      <4>1. CASE Receive(e)
        <5>1. wire[e] \in Seq(Messages) /\ wire[e] # <<>>
          BY <4>1 DEF Receive, TypeOK
        <5>2. Head(wire[e]).kind = "answer" => query[e] = "answered"
          BY <5>1, SaidTail DEF Answering, Answers
        <5> QED
          BY <4>1, <5>2 DEF Receive
      <4>2. CASE ExecutesConnected(e) \/ Asks(e)
        BY <4>2 DEF ExecutesConnected, Asks
      <4> QED
        BY <2>4, <4>1, <4>2
    <3>3. \A f \in Editors \ {e} : query'[f] = query[f]
      BY <2>4 DEF Receive, ExecutesConnected, Asks, TypeOK
    <3>4. \A i \in 1 .. Len(queue) : queue[i].kind = "query" => queue[i].editor \in Editors
      BY <2>0, HandlerEditor
    <3>5. \A i \in 1 .. Len(queue) : queue[i].kind = "query" =>
            query'[queue[i].editor] = "queued"
      BY <3>2, <3>3, <3>4 DEF Queued
    <3> QED
      BY <3>1, <3>5 DEF Queued
  <2>5. CASE QueryArrives(e)
    BY <2>5, QueuedPost DEF QueryArrives
  <2>6. CASE Quits(e)
    BY <2>6, QueuedPost DEF Quits
  <2> QED
    BY <1>4, <2>1, <2>2, <2>3, <2>4, <2>5, <2>6 DEF Editor
<1>5. CASE UNCHANGED vars
  BY <1>5 DEF vars, Queued
<1> QED
  BY <1>1, <1>2, <1>3, <1>4, <1>5 DEF Next

\* Nothing that Untouched and GreetedFirst speak of changes.
LEMMA UntouchedKept ==
  ASSUME Greeted, UNCHANGED <<jobs, greeted, wire, events, shown, query, stage, gone>>
  PROVE  Untouched' /\ GreetedFirst'
  BY DEF Greeted, Untouched, GreetedFirst

LEMMA GreetedMain == TypeOK /\ Greeted /\ MainThread => Greeted'
<1> SUFFICES ASSUME TypeOK, Greeted, MainThread PROVE Greeted'
  OBVIOUS
<1>1. Untouched' /\ GreetedFirst'
  BY UntouchedKept DEF MainThread, PostReload, RegisterCallback, RunNotifier, Callback,
     os, editor
<1>2. CASE PostReload
  <2>1. /\ Len(queue) \in Nat /\ Len(queue') = Len(queue) + 1
        /\ \A i \in 1 .. Len(queue) : queue'[i] = queue[i]
        /\ queue'[Len(queue) + 1] = [kind |-> "reload"]
        /\ 1 .. Len(queue') = (1 .. Len(queue)) \union {Len(queue) + 1}
    BY <1>2, PostQueue, MessageTypes, ThemeAssumption DEF PostReload
  <2>2. \A i \in 1 .. Len(queue') : queue'[i].kind = "reload" =>
          \A j \in 1 .. i - 1 : queue'[j].kind = "lost"
    BY <1>2, <2>1 DEF PostReload, Greeted, Start
  <2>3. main' # "start" /\ ~ Reloaded'
    BY <1>2, <2>1 DEF PostReload, Reloaded
  <2> QED
    BY <1>1, <2>2, <2>3 DEF Greeted, Start
<1>3. CASE RegisterCallback \/ RunNotifier
  BY <1>1, <1>3 DEF RegisterCallback, RunNotifier, Greeted, Start, Reloaded
<1>4. CASE Callback
  <2>1. Head(changes) \in Announcements /\ Head(changes) \in Handlers
        /\ Head(changes).kind # "reload"
    <3>1. Head(changes) \in Announcements
      BY <1>4 DEF Callback, TypeOK
    <3>2. Head(changes).kind = "theme"
      BY <3>1 DEF Announcements
    <3> QED
      BY <3>1, <3>2, MessageTypes, ThemeAssumption
  <2> QED
    BY <1>1, <1>4, <2>1, StartPost DEF Callback, Greeted, editor
<1> QED
  BY <1>2, <1>3, <1>4 DEF MainThread

LEMMA SendKeeps ==
  ASSUME TypeOK, NEW m, NEW es, SendTo(es, m), NEW e \in Editors, e \notin es
  PROVE  wire'[e] = wire[e]
  BY DEF TypeOK, SendTo

LEMMA GreetedIo == TypeOK /\ Queued /\ Greeted /\ IoThread => Greeted'
<1> SUFFICES ASSUME TypeOK, Queued, Greeted, IoThread PROVE Greeted'
  OBVIOUS
<1>0. TypeOK /\ Start /\ Untouched /\ GreetedFirst
  BY DEF Greeted
<1>1. CASE HandleReload
  <2>1. main # "start" /\ \A e \in Editors : e \notin jobs => wire'[e] = wire[e]
    BY <1>0, <1>1, RunsQueue, SendKeeps DEF HandleReload, Start
  <2>2. Start'
    BY <1>0, <1>1, <2>1, StartRuns DEF HandleReload
  <2>3. Untouched'
    BY <1>0, <1>1, <2>1 DEF HandleReload, Untouched, editor
  <2>4. GreetedFirst'
    BY <1>0, <1>1, <2>1 DEF HandleReload, GreetedFirst
  <2> QED
    BY <2>2, <2>3, <2>4 DEF Greeted
<1>2. CASE HandleJoin
  <2>1. main # "start" /\ jobs \subseteq greeted
    BY <1>0, <1>2, RunsAfterReload DEF HandleJoin
  <2>2. \A e \in Editors : e # Head(queue).editor => wire'[e] = wire[e]
    BY <1>0, <1>2, SendKeeps DEF HandleJoin
  <2>3. Start'
    BY <1>0, <1>2, <2>1, StartRuns DEF HandleJoin
  <2>4. Untouched'
    BY <1>0, <1>2, <2>2 DEF HandleJoin, Untouched, editor
  <2>5. GreetedFirst'
    BY <1>0, <1>2, <2>2 DEF HandleJoin, GreetedFirst
  <2> QED
    BY <2>3, <2>4, <2>5 DEF Greeted
<1>3. CASE HandleConnect \/ HandleTheme \/ HandleQuery
  <2>1. main # "start" /\ jobs \subseteq greeted
    BY <1>0, <1>3, RunsAfterReload DEF HandleConnect, HandleTheme, HandleQuery
  <2>2. \A e \in Editors : e \notin jobs => wire'[e] = wire[e]
    BY <1>0, <1>3, SendKeeps DEF HandleConnect, HandleTheme, HandleQuery
  <2>3. Start'
    BY <1>0, <1>3, <2>1, StartRuns DEF HandleConnect, HandleTheme, HandleQuery
  <2>4. GreetedFirst'
    BY <1>0, <1>3, <2>1, <2>2 DEF HandleConnect, HandleTheme, HandleQuery, GreetedFirst
  <2>5. CASE HandleConnect \/ HandleTheme
    <3>1. Untouched'
      BY <1>0, <2>2, <2>5 DEF HandleConnect, HandleTheme, Untouched, editor
    <3> QED
      BY <2>3, <2>4, <3>1 DEF Greeted
  <2>6. CASE HandleQuery
    <3>1. /\ Head(queue).kind = "query" /\ Head(queue) = queue[1] /\ 1 \in 1 .. Len(queue)
          /\ Head(queue) \in Handlers
      BY <1>0, <2>6, RunsType, RunsQueue DEF HandleQuery
    <3>2. query[Head(queue).editor] = "queued" /\ Head(queue).editor \in Editors
      BY <3>1, HandlerEditor DEF Queued
    <3>3. Head(queue).editor \in jobs \union gone
      BY <1>0, <3>2 DEF Untouched
    <3>4. \A e \in Editors \ (jobs \union gone) : query'[e] = query[e]
      BY <2>6, <3>3 DEF HandleQuery, TypeOK
    <3>5. Untouched'
      BY <1>0, <2>2, <2>6, <3>4 DEF HandleQuery, Untouched
    <3> QED
      BY <2>3, <2>4, <3>5 DEF Greeted
  <2> QED
    BY <1>3, <2>5, <2>6
<1>4. CASE HandleLost
  <2>1. /\ Head(queue).kind = "lost" /\ Head(queue) = queue[1] /\ 1 \in 1 .. Len(queue)
    BY <1>0, <1>4, RunsQueue DEF HandleLost
  <2>2. Head(queue).editor \in gone
    BY <2>1 DEF Queued
  <2>3. Start'
    BY <1>0, <1>4, StartRuns DEF HandleLost, editor
  <2>4. Untouched'
    BY <1>0, <1>4, <2>2 DEF HandleLost, Untouched, editor
  <2>5. GreetedFirst'
    BY <1>0, <1>4 DEF HandleLost, GreetedFirst
  <2> QED
    BY <2>3, <2>4, <2>5 DEF Greeted
<1> QED
  BY <1>1, <1>2, <1>3, <1>4 DEF IoThread

\* Start holds on when neither the queue nor what the first editor has
\* changes, and so it does when the reload is over.
LEMMA StartKept ==
  ASSUME Start, UNCHANGED <<main, queue, jobs, greeted>>,
         main # "start" \/ UNCHANGED <<wire, events, query, stage>>
  PROVE  Start'
  BY DEF Start, Reloaded

\* Only editors that were told something take part.
LEMMA TouchedEditor ==
  ASSUME TypeOK, Greeted, NEW e \in Editors,
         wire[e] # <<>> \/ events[e] # <<>> \/ query[e] # "none" \/ stage[e] # "new"
  PROVE  main # "start" /\ e \in jobs \union gone
  BY DEF Greeted, Start, Untouched

LEMMA GreetedEditors ==
  ASSUME TypeOK, Greeted, NEW e \in Editors,
         Joins(e) \/ Editor(e) \/ Asks(e) \/ Quits(e)
  PROVE  Greeted'
<1>0. Start /\ Untouched /\ GreetedFirst
  BY DEF Greeted
<1>1. CASE Joins(e)
  <2>1. Untouched' /\ GreetedFirst'
    BY <1>1, UntouchedKept DEF Joins, os, editor
  <2>2. /\ main # "start" /\ Post([kind |-> "join", editor |-> e])
        /\ UNCHANGED <<main, jobs, greeted>>
    BY <1>1 DEF Joins, Reloaded
  <2>3. [kind |-> "join", editor |-> e] \in Handlers
    BY MessageTypes, ThemeAssumption
  <2> QED
    BY <1>0, <2>1, <2>2, <2>3, StartPost DEF Greeted
<1>2. CASE ExecutesGreeting(e) \/ ExecutesChange(e) \/ ExecutesConnected(e) \/ Receive(e)
  <2>1. main # "start" /\ e \in jobs \union gone
    BY <1>2, TouchedEditor DEF ExecutesGreeting, ExecutesChange, ExecutesConnected, Receive
  <2>2. UNCHANGED <<main, queue, jobs, greeted, gone>>
    BY <1>2 DEF ExecutesGreeting, ExecutesChange, ExecutesConnected, Receive
  <2>3. Start'
    BY <1>0, <2>1, <2>2, StartKept
  <2>4. \A f \in Editors \ {e} : /\ wire'[f] = wire[f] /\ events'[f] = events[f]
                                 /\ shown'[f] = shown[f] /\ query'[f] = query[f]
                                 /\ stage'[f] = stage[f]
    BY <1>2 DEF TypeOK, ExecutesGreeting, ExecutesChange, ExecutesConnected, Receive
  <2>5. Untouched'
    BY <1>0, <2>1, <2>2, <2>4 DEF Untouched
  <2>6. wire[e] = <<>> => wire'[e] = <<>>
    BY <1>2 DEF TypeOK, ExecutesGreeting, ExecutesChange, ExecutesConnected, Receive
  <2>7. GreetedFirst'
    <3>1. CASE ~ Receive(e)
      BY <1>0, <1>2, <2>2, <3>1 DEF GreetedFirst, ExecutesGreeting, ExecutesChange,
         ExecutesConnected
    <3>2. CASE Receive(e)
      BY <1>0, <2>2, <2>4, <3>2 DEF GreetedFirst, Receive
    <3> QED
      BY <3>1, <3>2
  <2> QED
    BY <2>3, <2>5, <2>7 DEF Greeted
<1>3. CASE ChainEnds(e) \/ Asks(e) \/ QueryArrives(e)
  <2>1. main # "start" /\ e \in jobs \union gone
    BY <1>3, TouchedEditor DEF ChainEnds, Asks, QueryArrives
  <2>2. UNCHANGED <<main, jobs, greeted, wire, events, shown, gone>>
    BY <1>3 DEF ChainEnds, Asks, QueryArrives, os
  <2>3. \A f \in Editors \ {e} : query'[f] = query[f] /\ stage'[f] = stage[f]
    BY <1>3 DEF TypeOK, ChainEnds, Asks, QueryArrives
  <2>4. Untouched' /\ GreetedFirst'
    BY <1>0, <2>1, <2>2, <2>3 DEF Untouched, GreetedFirst
  <2>5. queue' = queue \/ \E k \in {"connect", "query"} : Post([kind |-> k, editor |-> e])
    BY <1>3 DEF ChainEnds, Asks, QueryArrives
  <2>6. CASE queue' = queue
    BY <1>0, <2>1, <2>2, <2>4, <2>6, StartKept DEF Greeted
  <2>7. ASSUME NEW k \in {"connect", "query"}, Post([kind |-> k, editor |-> e])
        PROVE  Greeted'
    <3>1. [kind |-> k, editor |-> e] \in Handlers
      BY MessageTypes, ThemeAssumption
    <3> QED
      BY <1>0, <2>1, <2>2, <2>4, <2>7, <3>1, StartPost DEF Greeted
  <2> QED
    BY <2>5, <2>6, <2>7
<1>4. CASE Quits(e)
  <2>1. \A f \in Editors \ {e} : wire'[f] = wire[f] /\ events'[f] = events[f]
                                 /\ shown'[f] = shown[f]
    BY <1>4 DEF TypeOK, Quits
  <2>2. wire'[e] = <<>> /\ events'[e] = <<>>
    BY <1>4 DEF TypeOK, Quits
  <2>3. /\ UNCHANGED <<main, jobs, greeted, query, stage>> /\ gone' = gone \union {e}
        /\ Post([kind |-> "lost", editor |-> e])
    BY <1>4 DEF Quits
  <2>4. Untouched' /\ GreetedFirst'
    BY <1>0, <2>1, <2>2, <2>3 DEF Untouched, GreetedFirst
  <2>5. [kind |-> "lost", editor |-> e] \in Handlers
    BY MessageTypes, ThemeAssumption
  <2>6. main = "start" => \A f \in Editors : wire'[f] = <<>> /\ events'[f] = <<>>
    BY <1>0, <2>1, <2>2 DEF Start
  <2> QED
    BY <1>0, <2>3, <2>4, <2>5, <2>6, StartPost DEF Greeted
<1> QED
  BY <1>1, <1>2, <1>3, <1>4 DEF Editor

LEMMA GreetedStep == TypeOK /\ Queued /\ Greeted /\ [Next]_vars => Greeted'
<1> SUFFICES ASSUME TypeOK, Queued, Greeted, [Next]_vars PROVE Greeted'
  OBVIOUS
<1>1. CASE NotifierListens \/ ThemeChanges \/ UNCHANGED vars
  <2>1. UNCHANGED <<main, queue, jobs, greeted, wire, events, shown, query, stage, gone>>
    BY <1>1 DEF NotifierListens, ThemeChanges, vars, editor
  <2> QED
    BY <2>1, UntouchedKept, StartKept DEF Greeted
<1> QED
  BY <1>1, GreetedMain, GreetedIo, GreetedEditors DEF Next

-----------------------------------------------------------------------------
(* Announcements come in order                                             *)

\* The announcements that the notifier has kept, that wait for the io
\* thread, that are on the wire, and that an editor has received.
Kept == Said("theme", changes)
Posted == Said("theme", queue)
Sent(e) == Said("theme", wire[e])
Received(e) == Said("theme", events[e])

InOrder ==
  /\ Sorted(changes) /\ Sorted(queue)
  /\ Before(Posted, Kept)
  /\ Before(Posted \union Kept, {theme})
  /\ \A e \in Editors :
       /\ Sorted(wire[e]) /\ Sorted(events[e])
       /\ Before(Sent(e), Posted \union Kept)
       /\ Before(Received(e), Sent(e) \union Posted \union Kept)
       /\ Before(Received(e) \union Sent(e), {theme})

LEMMA SaidType ==
  ASSUME TypeOK
  PROVE  /\ Kept \subseteq Themes /\ Posted \subseteq Themes
         /\ \A e \in Editors : /\ Sent(e) \subseteq Themes
                               /\ Received(e) \subseteq Themes
                               /\ Answers(e) \subseteq Themes
<1> USE ThemeAssumption, MessageTypes
<1>1. Kept \subseteq Themes
  <2>1. \A i \in 1 .. Len(changes) : changes[i] \in Handlers
    BY DEF TypeOK
  <2> QED
    BY <2>1 DEF Kept, Said
<1>2. Posted \subseteq Themes
  <2>1. \A i \in 1 .. Len(queue) : queue[i] \in Handlers
    BY DEF TypeOK
  <2> QED
    BY <2>1 DEF Posted, Said
<1>3. ASSUME NEW e \in Editors
      PROVE  Sent(e) \subseteq Themes /\ Received(e) \subseteq Themes /\ Answers(e) \subseteq Themes
  <2>1. \A i \in 1 .. Len(wire[e]) : wire[e][i] \in Messages
    BY DEF TypeOK
  <2>2. \A i \in 1 .. Len(events[e]) : events[e][i] \in Messages
    BY DEF TypeOK
  <2> QED
    BY <2>1, <2>2 DEF Sent, Received, Answers, Said
<1> QED
  BY <1>1, <1>2, <1>3

\* What the queue says after a handler was posted, or was taken.
LEMMA PostSaid ==
  ASSUME TypeOK, NEW h \in Handlers, Post(h)
  PROVE  /\ Posted' = Posted \union (IF h.kind = "theme" THEN {h.theme} ELSE {})
         /\ Sorted(queue) /\ (h.kind = "theme" => Before(Posted, {h.theme})) => Sorted(queue')
<1>1. queue \in Seq(Handlers) /\ queue' = Append(queue, h)
  BY DEF TypeOK, Post
<1>2. Said("theme", Append(queue, h)) =
        Said("theme", queue) \union (IF h.kind = "theme" THEN {h.theme} ELSE {})
  BY <1>1, SaidAppend
<1>3. ASSUME Sorted(queue), h.kind = "theme" => Before(Posted, {h.theme})
      PROVE  Sorted(Append(queue, h))
  BY <1>1, <1>3, SortedAppend DEF Posted
<1> QED
  BY <1>1, <1>2, <1>3 DEF Posted

LEMMA RunsSaid ==
  ASSUME TypeOK, NEW k, Runs(k)
  PROVE  /\ Posted = Posted' \union (IF k = "theme" THEN {Head(queue).theme} ELSE {})
         /\ Sorted(queue) => /\ Sorted(queue')
                             /\ k = "theme" => Before({Head(queue).theme}, Posted')
<1>1. /\ queue \in Seq(Handlers) /\ queue # <<>> /\ queue' = Tail(queue)
      /\ Head(queue).kind = k
  BY RunsType
<1>2. Said("theme", queue) =
        Said("theme", Tail(queue)) \union (IF Head(queue).kind = "theme" THEN {Head(queue).theme} ELSE {})
  BY <1>1, SaidTail
<1>3. ASSUME Sorted(queue)
      PROVE  /\ Sorted(Tail(queue))
             /\ k = "theme" => Before({Head(queue).theme}, Said("theme", Tail(queue)))
  BY <1>1, <1>3, SortedTail
<1> QED
  BY <1>1, <1>2, <1>3 DEF Posted

\* A message that is no announcement leaves the wires in order.
LEMMA SendOther ==
  ASSUME TypeOK, InOrder, NEW m \in Messages, NEW es, SendTo(es, m), m.kind # "theme"
  PROVE  \A e \in Editors : Sent(e)' = Sent(e) /\ Sorted(wire'[e])
<1> SUFFICES ASSUME NEW e \in Editors PROVE Sent(e)' = Sent(e) /\ Sorted(wire'[e])
  OBVIOUS
<1>1. Said("theme", wire'[e]) = Said("theme", wire[e]) \union
        (IF e \in es \ gone /\ m.kind = "theme" THEN {m.theme} ELSE {})
  BY SendSaid
<1>2. /\ wire[e] \in Seq(Messages) /\ Sorted(wire[e])
      /\ wire'[e] = Append(wire[e], m) \/ wire'[e] = wire[e]
  BY SendWire DEF InOrder
<1>3. Sorted(Append(wire[e], m))
  BY <1>2, SortedAppend
<1> QED
  BY <1>1, <1>2, <1>3 DEF Sent

\* A step that announces nothing, and passes no announcement on.
SaysNothing ==
  /\ UNCHANGED <<changes, theme>>
  /\ Posted' = Posted /\ Sorted(queue')
  /\ \A e \in Editors : /\ Sent(e)' = Sent(e) /\ Sorted(wire'[e])
                        /\ Received(e)' = Received(e) /\ Sorted(events'[e])

LEMMA OrderKept == InOrder /\ SaysNothing => InOrder'
  BY DEF InOrder, SaysNothing, Kept

LEMMA MainSaysNothing ==
  ASSUME TypeOK, InOrder, PostReload \/ RegisterCallback \/ RunNotifier
  PROVE  SaysNothing
<1>1. UNCHANGED <<changes, theme, wire, events>>
  BY DEF PostReload, RegisterCallback, RunNotifier, os, editor
<1>2. Posted' = Posted /\ Sorted(queue')
  <2>1. CASE PostReload
    <3>1. [kind |-> "reload"] \in Handlers
      BY MessageTypes, ThemeAssumption
    <3> QED
      BY <2>1, <3>1, PostSaid DEF PostReload, InOrder
  <2>2. CASE RegisterCallback \/ RunNotifier
    BY <2>2 DEF RegisterCallback, RunNotifier, InOrder, Posted
  <2> QED
    BY <2>1, <2>2
<1> QED
  BY <1>1, <1>2 DEF SaysNothing, InOrder, Sent, Received

LEMMA IoSaysNothing ==
  ASSUME TypeOK, InOrder, IoThread, ~ HandleTheme
  PROVE  SaysNothing
<1> USE ThemeAssumption, MessageTypes
<1>1. UNCHANGED <<changes, theme, events>>
  BY DEF IoThread, HandleReload, HandleJoin, HandleConnect, HandleQuery, HandleLost,
     os, editor
<1>2. \E k \in {"reload", "join", "connect", "query", "lost"} : Runs(k)
  BY DEF IoThread, HandleReload, HandleJoin, HandleConnect, HandleQuery, HandleLost
<1>3. Posted' = Posted /\ Sorted(queue')
  BY <1>2, RunsSaid DEF InOrder
<1>4. \A e \in Editors : Sent(e)' = Sent(e) /\ Sorted(wire'[e])
  <2>1. CASE \E m \in {Greeting, Connected, Answer(Appearance)}, es \in SUBSET Editors : SendTo(es, m)
    <3>1. PICK m \in {Greeting, Connected, Answer(Appearance)}, es \in SUBSET Editors : SendTo(es, m)
      BY <2>1
    <3>2. m \in Messages /\ m.kind # "theme"
      BY DEF TypeOK, Appearance, Greeting, Connected, Answer
    <3> QED
      BY <3>1, <3>2, SendOther
  <2>2. CASE wire' = wire
    BY <2>2 DEF Sent, InOrder
  <2>3. CASE HandleReload
    BY <2>1, <2>3 DEF HandleReload, TypeOK
  <2>4. CASE HandleJoin
    <3>1. Head(queue).editor \in Editors
      BY <2>4, RunsType, HandlerEditor DEF HandleJoin
    <3> QED
      BY <2>1, <2>4, <3>1 DEF HandleJoin
  <2>5. CASE HandleConnect
    <3>1. jobs \intersect {Head(queue).editor} \in SUBSET Editors
      BY DEF TypeOK
    <3> QED
      BY <2>1, <2>5, <3>1 DEF HandleConnect
  <2>6. CASE HandleQuery
    <3>1. jobs \intersect {Head(queue).editor} \in SUBSET Editors
      BY DEF TypeOK
    <3> QED
      BY <2>1, <2>6, <3>1 DEF HandleQuery
  <2>7. CASE HandleLost
    BY <2>2, <2>7 DEF HandleLost
  <2> QED
    BY <2>3, <2>4, <2>5, <2>6, <2>7 DEF IoThread
<1> QED
  BY <1>1, <1>3, <1>4 DEF SaysNothing, InOrder, Received

LEMMA EditorSaysNothing ==
  ASSUME TypeOK, InOrder, NEW e \in Editors,
         \/ Joins(e) \/ ChainEnds(e) \/ ExecutesConnected(e) \/ Asks(e)
         \/ QueryArrives(e) \/ ExecutesGreeting(e)
  PROVE  SaysNothing
<1>1. UNCHANGED <<changes, theme, wire>>
  BY DEF Joins, ChainEnds, ExecutesConnected, Asks, QueryArrives, ExecutesGreeting,
     os, editor
<1>2. Posted' = Posted /\ Sorted(queue')
  <2>1. queue' = queue \/ \E k \in {"join", "connect", "query"} :
                            Post([kind |-> k, editor |-> e])
    BY DEF Joins, ChainEnds, ExecutesConnected, Asks, QueryArrives, ExecutesGreeting
  <2>2. CASE queue' = queue
    BY <2>2 DEF Posted, InOrder
  <2>3. ASSUME NEW k \in {"join", "connect", "query"}, Post([kind |-> k, editor |-> e])
        PROVE  Posted' = Posted /\ Sorted(queue')
    <3>1. [kind |-> k, editor |-> e] \in Handlers
      BY MessageTypes, ThemeAssumption
    <3> QED
      BY <2>3, <3>1, PostSaid DEF InOrder
  <2> QED
    BY <2>1, <2>2, <2>3
<1>3. \A f \in Editors : Received(f)' = Received(f) /\ Sorted(events'[f])
  <2>1. CASE events' = events
    BY <2>1 DEF Received, InOrder
  <2>2. CASE ExecutesGreeting(e) \/ ExecutesConnected(e)
    <3>1. /\ events[e] \in Seq(Events) /\ events[e] # <<>>
          /\ Head(events[e]).kind # "theme" /\ Sorted(events[e])
      <4>1. Head(events[e]) = Greeting \/ Head(events[e]) = Connected
        BY <2>2 DEF ExecutesGreeting, ExecutesConnected
      <4>2. Head(events[e]).kind # "theme"
        BY <4>1 DEF Greeting, Connected
      <4> QED
        BY <2>2, <4>2 DEF ExecutesGreeting, ExecutesConnected, TypeOK, InOrder
    <3>2. /\ events'[e] = Tail(events[e])
          /\ \A f \in Editors \ {e} : events'[f] = events[f]
      BY <2>2 DEF ExecutesGreeting, ExecutesConnected, TypeOK
    <3>3. Said("theme", events[e]) = Said("theme", Tail(events[e])) /\ Sorted(Tail(events[e]))
      BY <3>1, SaidTail, SortedTail
    <3> QED
      BY <3>2, <3>3 DEF Received, InOrder
  <2> QED
    BY <2>1, <2>2 DEF Joins, ChainEnds, Asks, QueryArrives, editor
<1> QED
  BY <1>1, <1>2, <1>3 DEF SaysNothing, InOrder, Sent

\* A step that passes on the announcement t, or makes a new one.
LEMMA CallbackSays ==
  ASSUME TypeOK, InOrder, Callback
  PROVE  \E t \in Themes :
           /\ Kept = Kept' \union {t} /\ Posted' = Posted \union {t}
           /\ Before({t}, Kept') /\ Sorted(changes') /\ Sorted(queue')
           /\ UNCHANGED <<theme, wire, events>>
<1>1. /\ changes \in Seq(Announcements) /\ changes # <<>> /\ changes' = Tail(changes)
      /\ Head(changes) \in Announcements /\ Sorted(changes)
  BY DEF Callback, TypeOK, InOrder
<1>2. Head(changes).kind = "theme" /\ Head(changes).theme \in Themes
  BY <1>1 DEF Announcements
<1>3. Said("theme", changes) = Said("theme", Tail(changes)) \union {Head(changes).theme}
  BY <1>1, <1>2, SaidTail
<1>4. Sorted(Tail(changes)) /\ Before({Head(changes).theme}, Said("theme", Tail(changes)))
  BY <1>1, <1>2, SortedTail
<1>5. Before(Posted, {Head(changes).theme})
  BY <1>3 DEF InOrder, Before, Kept
<1>6. Head(changes) \in Handlers /\ Post(Head(changes))
  BY <1>1, MessageTypes, ThemeAssumption DEF Callback
<1>7. Posted' = Posted \union {Head(changes).theme} /\ Sorted(queue')
  BY <1>2, <1>5, <1>6, PostSaid DEF InOrder
<1> QED
  BY <1>1, <1>2, <1>3, <1>4, <1>7 DEF Kept, Callback, editor

LEMMA HandleThemeSays ==
  ASSUME TypeOK, InOrder, HandleTheme
  PROVE  \E t \in Themes :
           /\ Posted = Posted' \union {t} /\ Before({t}, Posted') /\ Sorted(queue')
           /\ \A e \in Editors :
                /\ Sent(e)' = Sent(e) \union (IF e \in jobs \ gone THEN {t} ELSE {})
                /\ Sorted(wire'[e])
           /\ UNCHANGED <<theme, changes, events>>
<1> DEFINE m == Announcement(Head(queue).theme)
<1>1. Head(queue) \in Handlers /\ Head(queue).kind = "theme"
  BY RunsType DEF HandleTheme
<1>2. /\ Head(queue).theme \in Themes /\ m \in Messages
      /\ m.kind = "theme" /\ m.theme = Head(queue).theme
  BY <1>1, MessageTypes, ThemeAssumption DEF Announcement
<1>3. Posted = Posted' \union {m.theme} /\ Before({m.theme}, Posted') /\ Sorted(queue')
  BY <1>2, RunsSaid DEF HandleTheme, InOrder
<1>4. SendTo(jobs, m)
  BY DEF HandleTheme
<1> HIDE DEF m
<1>5. ASSUME NEW e \in Editors
      PROVE  /\ Sent(e)' = Sent(e) \union (IF e \in jobs \ gone THEN {m.theme} ELSE {})
             /\ Sorted(wire'[e])
  <2>1. Said("theme", wire'[e]) = Said("theme", wire[e]) \union
          (IF e \in jobs \ gone /\ m.kind = "theme" THEN {m.theme} ELSE {})
    BY <1>2, <1>4, SendSaid
  <2>2. /\ wire[e] \in Seq(Messages) /\ Sorted(wire[e])
        /\ wire'[e] = Append(wire[e], m) \/ wire'[e] = wire[e]
    BY <1>2, <1>4, SendWire DEF InOrder
  <2>3. Before(Said("theme", wire[e]), {m.theme})
    BY <1>3 DEF InOrder, Before, Sent
  <2>4. Sorted(Append(wire[e], m))
    BY <1>2, <2>2, <2>3, SortedAppend
  <2> QED
    BY <1>2, <2>1, <2>2, <2>4 DEF Sent
<1> QED
  BY <1>2, <1>3, <1>5 DEF HandleTheme, os, editor

LEMMA ThemeChangesSays ==
  ASSUME TypeOK, InOrder, ThemeChanges
  PROVE  /\ theme' = theme + 1 /\ theme' \in Themes
         /\ UNCHANGED <<queue, wire, events, listening>>
         /\ listening => /\ Kept' = Kept \union {theme'} /\ Sorted(changes')
                         /\ missed' = {}
         /\ ~ listening => changes' = changes /\ missed' = Told
<1>1. theme + 1 \in Themes
  BY ThemeAssumption DEF ThemeChanges, TypeOK, Themes, ThemeAssumption
<1>2. CASE listening
  <2> DEFINE m == Announcement(theme + 1)
  <2>1. /\ changes \in Seq(Announcements) /\ m \in Announcements
        /\ m.kind = "theme" /\ m.theme = theme + 1
    BY <1>1, MessageTypes, ThemeAssumption DEF TypeOK, Announcement
  <2>2. changes' = Append(changes, m)
    BY <1>2 DEF ThemeChanges
  <2> HIDE DEF m
  <2>3. Before(Said("theme", changes), {m.theme})
    BY <2>1, SaidType, MessageTypes, ThemeAssumption DEF InOrder, Before, Kept, TypeOK
  <2>4. Sorted(Append(changes, m))
    BY <2>1, <2>3, SortedAppend DEF InOrder
  <2>5. Said("theme", Append(changes, m)) = Said("theme", changes) \union {m.theme}
    BY <2>1, SaidAppend
  <2> QED
    BY <1>1, <1>2, <2>1, <2>2, <2>4, <2>5 DEF ThemeChanges, Kept, editor
<1>3. CASE ~ listening
  BY <1>1, <1>3 DEF ThemeChanges, editor
<1> QED
  BY <1>2, <1>3

LEMMA ReceiveSays ==
  ASSUME TypeOK, InOrder, NEW e \in Editors, Receive(e), Head(wire[e]).kind = "theme"
  PROVE  \E t \in Themes :
           /\ Sent(e) = Sent(e)' \union {t} /\ Received(e)' = Received(e) \union {t}
           /\ Before({t}, Sent(e)') /\ Sorted(wire'[e]) /\ Sorted(events'[e])
           /\ Answers(e)' = Answers(e) /\ shown' = shown
<1>1. /\ wire[e] \in Seq(Messages) /\ wire[e] # <<>> /\ Sorted(wire[e])
      /\ events[e] \in Seq(Events) /\ Sorted(events[e])
      /\ wire'[e] = Tail(wire[e]) /\ events'[e] = Append(events[e], Head(wire[e]))
      /\ Head(wire[e]) \in Messages /\ shown' = shown
  <2>1. wire[e] \in Seq(Messages) /\ wire[e] # <<>> /\ Head(wire[e]) \in Messages
    BY DEF Receive, TypeOK
  <2>2. wire'[e] = Tail(wire[e])
    BY DEF Receive, TypeOK
  <2>3. events' = [events EXCEPT ![e] = Append(@, Head(wire[e]))] /\ shown' = shown
    BY DEF Receive
  <2>4. events'[e] = Append(events[e], Head(wire[e])) /\ events[e] \in Seq(Events)
    BY <2>3 DEF TypeOK
  <2> QED
    BY <2>1, <2>2, <2>3, <2>4 DEF InOrder
<1>2. Head(wire[e]).theme \in Themes /\ Head(wire[e]) \in Events
  BY <1>1, MessageTypes, ThemeAssumption
<1>3. /\ Said("theme", wire[e]) = Said("theme", Tail(wire[e])) \union {Head(wire[e]).theme}
      /\ Said("answer", wire[e]) = Said("answer", Tail(wire[e]))
  <2>1. \A k \in {"theme", "answer"} :
          Said(k, wire[e]) = Said(k, Tail(wire[e])) \union
            (IF Head(wire[e]).kind = k THEN {Head(wire[e]).theme} ELSE {})
    BY <1>1, SaidTail
  <2> QED
    BY <2>1
<1>4. Sorted(Tail(wire[e])) /\ Before({Head(wire[e]).theme}, Said("theme", Tail(wire[e])))
  BY <1>1, SortedTail
<1>5. Said("theme", Append(events[e], Head(wire[e]))) =
        Said("theme", events[e]) \union {Head(wire[e]).theme}
  BY <1>1, <1>2, SaidAppend
<1>6. Before(Said("theme", events[e]), {Head(wire[e]).theme})
  BY <1>3 DEF InOrder, Before, Sent, Received
<1>7. Sorted(Append(events[e], Head(wire[e])))
  BY <1>1, <1>2, <1>6, SortedAppend
<1> QED
  BY <1>1, <1>2, <1>3, <1>4, <1>5, <1>7 DEF Sent, Received, Answers

LEMMA ReceiveOther ==
  ASSUME TypeOK, InOrder, NEW e \in Editors, Receive(e), Head(wire[e]).kind # "theme"
  PROVE  SaysNothing
<1>1. /\ wire[e] \in Seq(Messages) /\ wire[e] # <<>> /\ Sorted(wire[e])
      /\ events[e] \in Seq(Events) /\ Sorted(events[e])
      /\ wire'[e] = Tail(wire[e]) /\ Head(wire[e]) \in Messages
      /\ \A f \in Editors \ {e} : wire'[f] = wire[f] /\ events'[f] = events[f]
      /\ events'[e] = events[e] \/ events'[e] = Append(events[e], Head(wire[e]))
      /\ Head(wire[e]).kind = "answer" => events'[e] = events[e]
      /\ UNCHANGED <<changes, theme, queue>>
  <2>1. /\ wire[e] \in Seq(Messages) /\ wire[e] # <<>> /\ Head(wire[e]) \in Messages
        /\ events[e] \in Seq(Events)
    BY DEF Receive, TypeOK
  <2>2. wire'[e] = Tail(wire[e]) /\ \A f \in Editors \ {e} : wire'[f] = wire[f]
    BY DEF Receive, TypeOK
  <2>3. CASE Head(wire[e]).kind = "answer"
    <3>1. events' = events
      BY <2>3 DEF Receive
    <3> QED
      BY <2>1, <2>2, <3>1 DEF InOrder, Receive, os
  <2>4. CASE Head(wire[e]).kind # "answer"
    <3>1. events' = [events EXCEPT ![e] = Append(@, Head(wire[e]))]
      BY <2>4 DEF Receive
    <3>2. /\ events'[e] = Append(events[e], Head(wire[e]))
          /\ \A f \in Editors \ {e} : events'[f] = events[f]
      BY <3>1 DEF TypeOK
    <3> QED
      BY <2>1, <2>2, <2>4, <3>2 DEF InOrder, Receive, os
  <2> QED
    BY <2>3, <2>4
<1>2. Said("theme", wire[e]) = Said("theme", Tail(wire[e])) /\ Sorted(Tail(wire[e]))
  <2>1. Said("theme", wire[e]) = Said("theme", Tail(wire[e])) \union
          (IF Head(wire[e]).kind = "theme" THEN {Head(wire[e]).theme} ELSE {})
    BY <1>1, SaidTail
  <2> QED
    BY <1>1, <2>1, SortedTail
<1>3. Said("theme", events'[e]) = Said("theme", events[e]) /\ Sorted(events'[e])
  <2>1. CASE events'[e] = events[e]
    BY <1>1, <2>1
  <2>2. CASE Head(wire[e]).kind # "answer"
    <3>1. Head(wire[e]) \in Events
      BY <1>1, <2>2, MessageTypes, ThemeAssumption
    <3>2. /\ Said("theme", Append(events[e], Head(wire[e]))) = Said("theme", events[e])
          /\ Sorted(Append(events[e], Head(wire[e])))
      <4>1. Said("theme", Append(events[e], Head(wire[e]))) = Said("theme", events[e]) \union
              (IF Head(wire[e]).kind = "theme" THEN {Head(wire[e]).theme} ELSE {})
        BY <1>1, <3>1, SaidAppend
      <4>2. Sorted(Append(events[e], Head(wire[e])))
        BY <1>1, <3>1, SortedAppend
      <4> QED
        BY <4>1, <4>2
    <3> QED
      BY <1>1, <3>2
  <2> QED
    BY <1>1, <2>1, <2>2
<1> QED
  BY <1>1, <1>2, <1>3 DEF SaysNothing, Sent, Received, Posted, InOrder

LEMMA ExecutesChangeSays ==
  ASSUME TypeOK, InOrder, NEW e \in Editors, ExecutesChange(e)
  PROVE  \E t \in Themes :
           /\ Received(e) = Received(e)' \union {t} /\ Before({t}, Received(e)')
           /\ Sorted(events'[e]) /\ shown' = [shown EXCEPT ![e] = t]
<1>1. /\ events[e] \in Seq(Events) /\ events[e] # <<>> /\ Sorted(events[e])
      /\ events'[e] = Tail(events[e]) /\ Head(events[e]).kind = "theme"
      /\ Head(events[e]) \in Messages
      /\ shown' = [shown EXCEPT ![e] = Head(events[e]).theme]
  <2>1. /\ events[e] \in Seq(Events) /\ events[e] # <<>> /\ Head(events[e]) \in Events
        /\ Head(events[e]).kind = "theme"
    BY DEF ExecutesChange, TypeOK
  <2>2. events'[e] = Tail(events[e])
    BY DEF ExecutesChange, TypeOK
  <2>3. Head(events[e]) \in Messages
    BY <2>1, MessageTypes, ThemeAssumption
  <2> QED
    BY <2>1, <2>2, <2>3 DEF ExecutesChange, InOrder
<1>2. Head(events[e]).theme \in Themes
  BY <1>1, MessageTypes, ThemeAssumption
<1>3. Said("theme", events[e]) = Said("theme", Tail(events[e])) \union {Head(events[e]).theme}
  BY <1>1, SaidTail
<1>4. Sorted(Tail(events[e])) /\ Before({Head(events[e]).theme}, Said("theme", Tail(events[e])))
  BY <1>1, SortedTail
<1> QED
  BY <1>1, <1>2, <1>3, <1>4 DEF Received

LEMMA QuitsSays ==
  ASSUME TypeOK, InOrder, NEW e \in Editors, Quits(e)
  PROVE  /\ Posted' = Posted /\ Sorted(queue')
         /\ Sent(e)' = {} /\ Received(e)' = {} /\ Sorted(wire'[e]) /\ Sorted(events'[e])
         /\ \A f \in Editors \ {e} :
              wire'[f] = wire[f] /\ events'[f] = events[f] /\ shown'[f] = shown[f]
         /\ UNCHANGED <<changes, theme>>
<1>1. [kind |-> "lost", editor |-> e] \in Handlers
  BY MessageTypes, ThemeAssumption
<1>2. Posted' = Posted /\ Sorted(queue')
  BY <1>1, PostSaid DEF Quits, InOrder
<1>3. wire'[e] = <<>> /\ events'[e] = <<>>
  BY DEF Quits, TypeOK
<1> QED
  BY <1>2, <1>3, SaidNothing, SortedNothing DEF Quits, TypeOK, os, Sent, Received

LEMMA OrderStep == TypeOK /\ InOrder /\ [Next]_vars => InOrder'
<1> SUFFICES ASSUME TypeOK, InOrder, [Next]_vars PROVE InOrder'
  OBVIOUS
<1>0. Themes \subseteq Int /\ theme \in Int
  BY MessageTypes, ThemeAssumption DEF TypeOK
<1>1. CASE PostReload \/ RegisterCallback \/ RunNotifier
  BY <1>1, MainSaysNothing, OrderKept
<1>2. CASE Callback
  <2>1. PICK t \in Themes :
           /\ Kept = Kept' \union {t} /\ Posted' = Posted \union {t}
           /\ Before({t}, Kept') /\ Sorted(changes') /\ Sorted(queue')
           /\ UNCHANGED <<theme, wire, events>>
    BY <1>2, CallbackSays
  <2>2. Posted' \union Kept' = Posted \union Kept
    BY <2>1
  <2>3. Before(Posted', Kept')
    BY <2>1 DEF InOrder, Before
  <2>4. \A e \in Editors : Sent(e)' = Sent(e) /\ Received(e)' = Received(e)
    BY <2>1 DEF Sent, Received
  <2> QED
    BY <2>1, <2>2, <2>3, <2>4 DEF InOrder, Before
<1>3. CASE HandleTheme
  <2>1. PICK t \in Themes :
           /\ Posted = Posted' \union {t} /\ Before({t}, Posted') /\ Sorted(queue')
           /\ \A e \in Editors :
                /\ Sent(e)' = Sent(e) \union (IF e \in jobs \ gone THEN {t} ELSE {})
                /\ Sorted(wire'[e])
           /\ UNCHANGED <<theme, changes, events>>
    BY <1>3, HandleThemeSays
  <2>2. /\ Kept' = Kept /\ Sorted(changes') /\ Before(Posted', Kept')
        /\ Before(Posted' \union Kept', {theme'})
        /\ Before({t}, Posted' \union Kept') /\ t <= theme
    BY <2>1 DEF InOrder, Before, Kept
  <2>3. ASSUME NEW e \in Editors
        PROVE  /\ Sorted(events'[e])
               /\ Before(Sent(e)', Posted' \union Kept')
               /\ Before(Received(e)', Sent(e)' \union Posted' \union Kept')
               /\ Before(Received(e)' \union Sent(e)', {theme'})
    <3>1. Received(e)' = Received(e) /\ Sorted(events'[e])
      BY <2>1 DEF Received, InOrder
    <3>2. Sent(e)' \subseteq Sent(e) \union {t}
      BY <2>1
    <3> QED
      BY <2>1, <2>2, <3>1, <3>2 DEF InOrder, Before
  <2> QED
    BY <2>1, <2>2, <2>3 DEF InOrder
<1>4. CASE IoThread /\ ~ HandleTheme
  BY <1>4, IoSaysNothing, OrderKept
<1>5. CASE ThemeChanges
  <2>1. /\ theme' = theme + 1
        /\ UNCHANGED <<queue, wire, events>>
        /\ listening => Kept' = Kept \union {theme'} /\ Sorted(changes')
        /\ ~ listening => changes' = changes
    BY <1>5, ThemeChangesSays
  <2>2. Posted' = Posted /\ \A e \in Editors : Sent(e)' = Sent(e) /\ Received(e)' = Received(e)
    BY <2>1 DEF Posted, Sent, Received
  <2>3. Kept' \subseteq Kept \union {theme'} /\ Sorted(changes')
    BY <2>1 DEF Kept, InOrder
  <2>4. /\ Before(Posted \union Kept, {theme'})
        /\ \A e \in Editors : Before(Received(e) \union Sent(e), {theme'})
    <3>1. \A t \in Int : t <= theme => t <= theme'
      BY <1>0, <2>1
    <3>2. Posted \union Kept \subseteq Int
          /\ \A e \in Editors : Received(e) \union Sent(e) \subseteq Int
      BY <1>0, SaidType
    <3> QED
      BY <3>1, <3>2 DEF InOrder, Before
  <2>5. theme' \in Int /\ theme' <= theme'
    BY <1>0, <2>1
  <2>6. /\ Before(Posted', Kept') /\ Before(Posted' \union Kept', {theme'})
    BY <2>2, <2>3, <2>4, <2>5 DEF InOrder, Before
  <2>7. \A e \in Editors : /\ Before(Sent(e)', Posted' \union Kept')
                           /\ Before(Received(e)', Sent(e)' \union Posted' \union Kept')
                           /\ Before(Received(e)' \union Sent(e)', {theme'})
    BY <2>2, <2>3, <2>4 DEF InOrder, Before
  <2> QED
    BY <2>1, <2>3, <2>6, <2>7 DEF InOrder
<1>6. CASE NotifierListens \/ UNCHANGED vars
  BY <1>6 DEF NotifierListens, vars, editor, InOrder, Kept, Posted, Sent, Received
<1>7. ASSUME NEW e \in Editors, Joins(e) \/ Editor(e) \/ Asks(e) \/ Quits(e)
      PROVE  InOrder'
  <2>1. CASE \/ Joins(e) \/ ChainEnds(e) \/ ExecutesConnected(e) \/ Asks(e)
             \/ QueryArrives(e) \/ ExecutesGreeting(e)
    BY <2>1, EditorSaysNothing, OrderKept
  <2>2. CASE Receive(e) /\ Head(wire[e]).kind # "theme"
    BY <2>2, ReceiveOther, OrderKept
  <2>3. CASE Receive(e) /\ Head(wire[e]).kind = "theme"
    <3>1. PICK t \in Themes :
           /\ Sent(e) = Sent(e)' \union {t} /\ Received(e)' = Received(e) \union {t}
           /\ Before({t}, Sent(e)') /\ Sorted(wire'[e]) /\ Sorted(events'[e])
      BY <2>3, ReceiveSays
    <3>2. /\ UNCHANGED <<changes, theme, queue>>
          /\ \A f \in Editors \ {e} : wire'[f] = wire[f] /\ events'[f] = events[f]
      BY <2>3 DEF Receive, TypeOK, os
    <3>3. /\ Before(Sent(e)', Posted \union Kept)
          /\ Before(Received(e)', Sent(e)' \union Posted \union Kept)
          /\ Before(Received(e)' \union Sent(e)', {theme})
      BY <3>1 DEF InOrder, Before
    <3> QED
      BY <3>1, <3>2, <3>3 DEF InOrder, Kept, Posted, Sent, Received
  <2>4. CASE ExecutesChange(e)
    <3>1. PICK t \in Themes :
           /\ Received(e) = Received(e)' \union {t} /\ Before({t}, Received(e)')
           /\ Sorted(events'[e])
      BY <2>4, ExecutesChangeSays
    <3>2. /\ UNCHANGED <<changes, theme, queue, wire>>
          /\ \A f \in Editors \ {e} : events'[f] = events[f]
      BY <2>4 DEF ExecutesChange, TypeOK, os
    <3>3. /\ Before(Received(e)', Sent(e) \union Posted \union Kept)
          /\ Before(Received(e)' \union Sent(e), {theme})
      BY <3>1 DEF InOrder, Before
    <3> QED
      BY <3>1, <3>2, <3>3 DEF InOrder, Kept, Posted, Sent, Received
  <2>5. CASE Quits(e)
    <3>1. /\ Posted' = Posted /\ Sorted(queue')
          /\ Sent(e)' = {} /\ Received(e)' = {} /\ Sorted(wire'[e]) /\ Sorted(events'[e])
          /\ \A f \in Editors \ {e} : wire'[f] = wire[f] /\ events'[f] = events[f]
          /\ UNCHANGED <<changes, theme>>
      BY <2>5, QuitsSays
    <3>2. \A f \in Editors \ {e} : Sent(f)' = Sent(f) /\ Received(f)' = Received(f)
      BY <3>1 DEF Sent, Received
    <3> QED
      BY <3>1, <3>2 DEF InOrder, Before, Kept
  <2> QED
    BY <1>7, <2>1, <2>2, <2>3, <2>4, <2>5 DEF Editor
<1> QED
  BY <1>1, <1>2, <1>3, <1>4, <1>5, <1>6, <1>7 DEF Next, MainThread, IoThread

-----------------------------------------------------------------------------
(* Answers are fresh                                                       *)

\* No announcement before an answer is newer than it.
FreshIn(s) ==
  \A i \in 1 .. Len(s) : s[i].kind = "answer" =>
    \A j \in 1 .. i : s[j].kind = "theme" => s[i].theme >= s[j].theme

Fresh ==
  \A e \in Editors : /\ FreshIn(wire[e])
                     /\ Before({shown[e]} \union Received(e), Answers(e))
                     /\ Before({shown[e]} \union Answers(e), {theme})

LEMMA FreshAppend ==
  ASSUME NEW S, NEW s \in Seq(S), NEW m \in S, FreshIn(s),
         m.kind = "answer" => \A t \in Said("theme", s) : m.theme >= t
  PROVE  FreshIn(Append(s, m))
<1>1. /\ Len(Append(s, m)) = Len(s) + 1
      /\ Append(s, m)[Len(s) + 1] = m
      /\ \A i \in 1 .. Len(s) : Append(s, m)[i] = s[i]
      /\ Len(s) \in Nat
  OBVIOUS
<1>2. \A i \in 1 .. Len(s) : s[i].kind = "theme" => s[i].theme \in Said("theme", s)
  BY DEF Said
<1> SUFFICES ASSUME NEW i \in 1 .. Len(s) + 1, Append(s, m)[i].kind = "answer",
                    NEW j \in 1 .. i, Append(s, m)[j].kind = "theme"
             PROVE  Append(s, m)[i].theme >= Append(s, m)[j].theme
  BY <1>1 DEF FreshIn
<1>3. CASE i = Len(s) + 1
  <2>1. m.kind = "answer" /\ Append(s, m)[i] = m
    BY <1>1, <1>3
  <2>2. j \in 1 .. Len(s) /\ Append(s, m)[j] = s[j]
    BY <1>1, <1>3, <2>1
  <2> QED
    BY <1>2, <2>1, <2>2
<1>4. CASE i \in 1 .. Len(s)
  <2>1. j \in 1 .. Len(s) /\ Append(s, m)[j] = s[j] /\ Append(s, m)[i] = s[i]
    BY <1>1, <1>4
  <2> QED
    BY <1>4, <2>1 DEF FreshIn
<1> QED
  BY <1>1, <1>3, <1>4

LEMMA FreshTail ==
  ASSUME NEW S, NEW s \in Seq(S), s # <<>>, FreshIn(s)
  PROVE  /\ FreshIn(Tail(s))
         /\ Head(s).kind = "theme" =>
              \A t \in Said("answer", Tail(s)) : t >= Head(s).theme
<1>1. /\ Len(s) \in Nat /\ Len(s) >= 1
      /\ Len(Tail(s)) = Len(s) - 1
      /\ Head(s) = s[1]
      /\ \A i \in 1 .. Len(s) - 1 : i + 1 \in 1 .. Len(s) /\ Tail(s)[i] = s[i + 1]
  OBVIOUS
<1>2. FreshIn(Tail(s))
  <2> SUFFICES ASSUME NEW i \in 1 .. Len(s) - 1, Tail(s)[i].kind = "answer",
                      NEW j \in 1 .. i, Tail(s)[j].kind = "theme"
               PROVE  Tail(s)[i].theme >= Tail(s)[j].theme
    BY <1>1 DEF FreshIn
  <2>1. /\ j \in 1 .. Len(s) - 1 /\ i + 1 \in 1 .. Len(s) /\ j + 1 \in 1 .. i + 1
        /\ Tail(s)[i] = s[i + 1] /\ Tail(s)[j] = s[j + 1]
    BY <1>1
  <2> QED
    BY <2>1 DEF FreshIn
<1>3. ASSUME Head(s).kind = "theme", NEW t \in Said("answer", Tail(s))
      PROVE  t >= Head(s).theme
  <2>1. PICK i \in 1 .. Len(s) - 1 : Tail(s)[i].kind = "answer" /\ t = Tail(s)[i].theme
    BY <1>1 DEF Said
  <2>2. /\ i + 1 \in 1 .. Len(s) /\ 1 \in 1 .. i + 1
        /\ s[i + 1].kind = "answer" /\ t = s[i + 1].theme
    BY <1>1, <2>1
  <2> QED
    BY <1>1, <1>3, <2>2 DEF FreshIn
<1> QED
  BY <1>2, <1>3

LEMMA FreshNothing == FreshIn(<<>>) /\ Said("answer", <<>>) = {}
  BY DEF FreshIn, Said

\* What Fresh says implies the property the runs check.
LEMMA FreshImplies == TypeOK /\ Fresh => QueryIsFresh
<1> SUFFICES ASSUME TypeOK, Fresh, NEW e \in Editors, NEW i \in 1 .. Len(wire[e]),
                    wire[e][i].kind = "answer"
             PROVE  /\ wire[e][i].theme >= shown[e]
                    /\ \A t \in Said("theme", events[e]) : wire[e][i].theme >= t
                    /\ \A j \in 1 .. i : wire[e][j].kind = "theme" =>
                         wire[e][i].theme >= wire[e][j].theme
  BY DEF QueryIsFresh
<1>1. wire[e][i].theme \in Answers(e)
  BY DEF Answers, Said
<1>2. wire[e][i].theme \in Int
  BY <1>1, SaidType, MessageTypes, ThemeAssumption
<1>3. \A t \in {shown[e]} \union Received(e) : t \in Int
  BY SaidType, MessageTypes, ThemeAssumption DEF TypeOK, Unset
<1>4. \A t \in {shown[e]} \union Received(e) : wire[e][i].theme >= t
  BY <1>1, <1>2, <1>3 DEF Fresh, Before
<1> QED
  BY <1>4 DEF Fresh, FreshIn, Received

\* A message that is no answer leaves the wires fresh.
LEMMA FreshSend ==
  ASSUME TypeOK, Fresh, NEW m \in Messages, NEW es, SendTo(es, m), m.kind # "answer"
  PROVE  \A e \in Editors : FreshIn(wire'[e]) /\ Answers(e)' = Answers(e)
<1> SUFFICES ASSUME NEW e \in Editors
             PROVE  FreshIn(wire'[e]) /\ Answers(e)' = Answers(e)
  OBVIOUS
<1>1. Said("answer", wire'[e]) = Said("answer", wire[e]) \union
        (IF e \in es \ gone /\ m.kind = "answer" THEN {m.theme} ELSE {})
  BY SendSaid
<1>2. /\ wire[e] \in Seq(Messages) /\ FreshIn(wire[e])
      /\ wire'[e] = Append(wire[e], m) \/ wire'[e] = wire[e]
  BY SendWire DEF Fresh
<1>3. FreshIn(Append(wire[e], m))
  BY <1>2, FreshAppend
<1> QED
  BY <1>1, <1>2, <1>3 DEF Answers

LEMMA FreshIo == TypeOK /\ InOrder /\ Fresh /\ IoThread => Fresh'
<1> SUFFICES ASSUME TypeOK, InOrder, Fresh, IoThread PROVE Fresh'
  OBVIOUS
<1> USE ThemeAssumption, MessageTypes
<1>0. UNCHANGED <<theme, events, shown>> /\ \A e \in Editors : Received(e)' = Received(e)
  BY DEF IoThread, HandleReload, HandleJoin, HandleConnect, HandleTheme, HandleQuery,
     HandleLost, os, editor, Received
<1>1. CASE \A e \in Editors : FreshIn(wire'[e]) /\ Answers(e)' = Answers(e)
  BY <1>0, <1>1 DEF Fresh
<1>2. CASE HandleReload \/ HandleJoin
  <2>1. Greeting.kind # "answer"
    BY DEF Greeting
  <2> QED
    BY <1>1, <1>2, <2>1, FreshSend DEF HandleReload, HandleJoin
<1>3. CASE HandleConnect
  <2>1. Connected.kind # "answer"
    BY DEF Connected
  <2> QED
    BY <1>1, <1>3, <2>1, FreshSend DEF HandleConnect
<1>4. CASE HandleTheme
  <2>1. Head(queue).theme \in Themes
    BY <1>4, RunsType DEF HandleTheme
  <2>2. Announcement(Head(queue).theme).kind # "answer"
    BY DEF Announcement
  <2> QED
    BY <1>1, <1>4, <2>1, <2>2, FreshSend DEF HandleTheme
<1>5. CASE HandleQuery
  <2> DEFINE m == Answer(Appearance)
  <2> DEFINE es == jobs \intersect {Head(queue).editor}
  <2>1. m \in Messages /\ m.kind = "answer" /\ m.theme = theme
    BY DEF TypeOK, Appearance, Answer
  <2>2. SendTo(es, m)
    BY <1>5 DEF HandleQuery
  <2> HIDE DEF m, es
  <2>3. ASSUME NEW e \in Editors
        PROVE  /\ FreshIn(wire'[e])
               /\ Answers(e)' \subseteq Answers(e) \union {theme}
    <3>1. Said("answer", wire'[e]) = Said("answer", wire[e]) \union
            (IF e \in es \ gone /\ m.kind = "answer" THEN {m.theme} ELSE {})
      BY <2>1, <2>2, SendSaid
    <3>2. /\ wire[e] \in Seq(Messages) /\ FreshIn(wire[e])
          /\ wire'[e] = Append(wire[e], m) \/ wire'[e] = wire[e]
      BY <2>1, <2>2, SendWire DEF Fresh
    <3>3. \A t \in Said("theme", wire[e]) : m.theme >= t
      <4>1. Sent(e) \subseteq Int /\ theme \in Int
        BY SaidType DEF TypeOK
      <4> QED
        BY <2>1, <4>1 DEF InOrder, Before, Sent
    <3>4. FreshIn(Append(wire[e], m))
      BY <2>1, <3>2, <3>3, FreshAppend
    <3> QED
      BY <2>1, <3>1, <3>2, <3>4 DEF Answers
  <2>4. theme \in Int
    BY DEF TypeOK
  <2> QED
    BY <1>0, <2>3, <2>4 DEF Fresh, Before, InOrder
<1>6. CASE HandleLost
  BY <1>1, <1>6 DEF HandleLost, Fresh, Answers
<1> QED
  BY <1>2, <1>3, <1>4, <1>5, <1>6 DEF IoThread

LEMMA FreshEditors ==
  ASSUME TypeOK, Answering, InOrder, Fresh, NEW e \in Editors,
         Joins(e) \/ Editor(e) \/ Asks(e) \/ Quits(e)
  PROVE  Fresh'
<1>0. theme' = theme /\ theme \in Int
  BY MessageTypes, ThemeAssumption DEF Joins, Editor, Asks, Quits, ExecutesGreeting,
     ChainEnds, Receive, ExecutesChange, ExecutesConnected, QueryArrives, os, TypeOK
<1>1. CASE \/ Joins(e) \/ ChainEnds(e) \/ ExecutesConnected(e) \/ Asks(e)
           \/ QueryArrives(e) \/ ExecutesGreeting(e)
  <2>1. SaysNothing
    BY <1>1, EditorSaysNothing
  <2>2. UNCHANGED <<wire, shown>>
    BY <1>1 DEF Joins, ChainEnds, ExecutesConnected, Asks, QueryArrives,
       ExecutesGreeting, editor
  <2> QED
    BY <1>0, <2>1, <2>2 DEF Fresh, SaysNothing, Answers
<1>2. CASE Receive(e)
  <2>1. /\ wire[e] \in Seq(Messages) /\ wire[e] # <<>> /\ wire'[e] = Tail(wire[e])
        /\ FreshIn(wire[e]) /\ Once(wire[e])
        /\ \A f \in Editors \ {e} : wire'[f] = wire[f]
    BY <1>2 DEF Receive, TypeOK, Fresh, Answering
  <2>2. FreshIn(wire'[e])
    BY <2>1, FreshTail
  <2>3. \A f \in Editors \ {e} : events'[f] = events[f] /\ shown'[f] = shown[f]
    BY <1>2 DEF Receive, TypeOK
  <2>4. CASE Head(wire[e]).kind = "theme"
    <3>1. PICK t \in Themes :
           /\ Sent(e) = Sent(e)' \union {t} /\ Received(e)' = Received(e) \union {t}
           /\ Answers(e)' = Answers(e) /\ shown' = shown
      BY <1>2, <2>4, ReceiveSays
    <3>2. \A a \in Said("answer", Tail(wire[e])) : a >= Head(wire[e]).theme
      BY <2>1, <2>4, FreshTail
    <3>3. Received(e)' \subseteq Received(e) \union {Head(wire[e]).theme}
      <4>1. events' = [events EXCEPT ![e] = Append(@, Head(wire[e]))]
        BY <1>2, <2>4 DEF Receive
      <4>2. events[e] \in Seq(Events) /\ Head(wire[e]) \in Messages
        BY <2>1 DEF TypeOK
      <4>3. Head(wire[e]) \in Events /\ events'[e] = Append(events[e], Head(wire[e]))
        BY <2>4, <4>1, <4>2, MessageTypes, ThemeAssumption DEF TypeOK
      <4>4. Said("theme", Append(events[e], Head(wire[e]))) =
              Said("theme", events[e]) \union
                (IF Head(wire[e]).kind = "theme" THEN {Head(wire[e]).theme} ELSE {})
        BY <4>2, <4>3, SaidAppend
      <4> QED
        BY <4>3, <4>4 DEF Received
    <3>4. Before({Head(wire[e]).theme}, Answers(e)')
      <4>1. Head(wire[e]).theme \in Int /\ Answers(e) \subseteq Int
        BY <2>1, <2>4, SaidType, MessageTypes, ThemeAssumption
      <4> QED
        BY <2>1, <3>1, <3>2, <4>1 DEF Before, Answers
    <3>5. /\ Before({shown'[e]} \union Received(e)', Answers(e)')
          /\ Before({shown'[e]} \union Answers(e)', {theme'})
      BY <1>0, <3>1, <3>3, <3>4 DEF Fresh, Before
    <3> QED
      BY <1>0, <2>1, <2>2, <2>3, <3>5 DEF Fresh, Received, Answers
  <2>5. CASE Head(wire[e]).kind = "answer"
    <3>1. Said("answer", Tail(wire[e])) = {}
      BY <2>1, <2>5, OnceTail
    <3>2. Said("answer", wire[e]) = Said("answer", Tail(wire[e])) \union
            (IF Head(wire[e]).kind = "answer" THEN {Head(wire[e]).theme} ELSE {})
      BY <2>1, SaidTail
    <3>3. shown'[e] = Head(wire[e]).theme
      BY <1>2, <2>5 DEF Receive, TypeOK
    <3>4. shown'[e] \in Answers(e) /\ Answers(e)' = {}
      BY <2>1, <2>5, <3>1, <3>2, <3>3 DEF Answers
    <3>5. /\ Before({shown'[e]} \union Received(e)', Answers(e)')
          /\ Before({shown'[e]} \union Answers(e)', {theme'})
      BY <1>0, <3>4 DEF Fresh, Before
    <3> QED
      BY <1>0, <2>1, <2>2, <2>3, <3>5 DEF Fresh, Received, Answers
  <2>6. CASE Head(wire[e]).kind \notin {"theme", "answer"}
    <3>1. SaysNothing
      BY <1>2, <2>6, ReceiveOther
    <3>2. Said("answer", wire[e]) = Said("answer", Tail(wire[e])) \union
            (IF Head(wire[e]).kind = "answer" THEN {Head(wire[e]).theme} ELSE {})
      BY <2>1, SaidTail
    <3>3. shown' = shown /\ Answers(e)' = Answers(e)
      BY <1>2, <2>1, <2>6, <3>2 DEF Receive, Answers
    <3>4. Received(e)' = Received(e)
      BY <3>1 DEF SaysNothing
    <3> QED
      BY <1>0, <2>1, <2>2, <2>3, <3>3, <3>4 DEF Fresh, Received, Answers
  <2> QED
    BY <2>4, <2>5, <2>6
<1>3. CASE ExecutesChange(e)
  <2>1. PICK t \in Themes :
          /\ Received(e) = Received(e)' \union {t}
          /\ shown' = [shown EXCEPT ![e] = t]
    BY <1>3, ExecutesChangeSays
  <2>2. /\ wire' = wire /\ shown'[e] = t
        /\ \A f \in Editors \ {e} : events'[f] = events[f] /\ shown'[f] = shown[f]
    BY <1>3, <2>1 DEF ExecutesChange, TypeOK
  <2>3. /\ Before({shown'[e]} \union Received(e)', Answers(e))
        /\ Before({shown'[e]} \union Answers(e), {theme})
    BY <2>1, <2>2 DEF Fresh, Before, InOrder
  <2> QED
    BY <1>0, <2>2, <2>3 DEF Fresh, Received, Answers
<1>4. CASE Quits(e)
  <2>1. /\ wire'[e] = <<>> /\ shown'[e] = Unset
        /\ \A f \in Editors \ {e} :
             wire'[f] = wire[f] /\ events'[f] = events[f] /\ shown'[f] = shown[f]
    BY <1>4 DEF Quits, TypeOK
  <2>2. FreshIn(wire'[e]) /\ Answers(e)' = {}
    BY <2>1, FreshNothing DEF Answers
  <2>3. Unset <= theme
    BY ThemeAssumption DEF Unset, TypeOK, Themes, ThemeAssumption
  <2> QED
    BY <1>0, <2>1, <2>2, <2>3 DEF Fresh, Before, Received, Answers
<1> QED
  BY <1>1, <1>2, <1>3, <1>4 DEF Editor

LEMMA FreshStep == TypeOK /\ Answering /\ InOrder /\ Fresh /\ [Next]_vars => Fresh'
<1> SUFFICES ASSUME TypeOK, Answering, InOrder, Fresh, [Next]_vars PROVE Fresh'
  OBVIOUS
<1>1. CASE MainThread \/ NotifierListens \/ UNCHANGED vars
  <2>1. UNCHANGED <<theme, wire, events, shown>>
    BY <1>1 DEF MainThread, PostReload, RegisterCallback, RunNotifier, Callback,
       NotifierListens, vars, os, editor
  <2> QED
    BY <2>1 DEF Fresh, Received, Answers
<1>2. CASE ThemeChanges
  <2>1. UNCHANGED <<wire, events, shown>> /\ theme' = theme + 1
    BY <1>2 DEF ThemeChanges, editor
  <2>2. \A e \in Editors : {shown[e]} \union Answers(e) \subseteq Int
    BY SaidType, MessageTypes, ThemeAssumption DEF TypeOK, Unset
  <2>3. \A t \in Int : t <= theme => t <= theme'
    BY <2>1, MessageTypes, ThemeAssumption DEF TypeOK
  <2>4. \A e \in Editors : Before({shown[e]} \union Answers(e), {theme'})
    BY <2>2, <2>3 DEF Fresh, Before
  <2> QED
    BY <2>1, <2>4 DEF Fresh, Received, Answers
<1> QED
  BY <1>1, <1>2, FreshIo, FreshEditors DEF Next

-----------------------------------------------------------------------------
(* No update is lost                                                       *)

\* As long as the notifier does not keep the changes, or a change that it
\* did not keep is the last one, nothing is announced.
Quiet ==
  ~ listening \/ missed # {} =>
    /\ Kept = {} /\ Posted = {}
    /\ \A e \in Editors : Sent(e) = {} /\ Received(e) = {}

\* The newest announcement that is still on this side is the current theme.
Latest == Posted \union Kept # {} => theme \in Posted \union Kept

Words == Quiet /\ Latest /\ NoLostUpdate

LEMMA AnnouncedParts ==
  \A e \in Editors : /\ Announced(e) = Kept \union Posted \union Sent(e) \union Received(e)
                     /\ Announced(e)' = Kept' \union Posted' \union Sent(e)' \union Received(e)'
  BY DEF Announced, Kept, Posted, Sent, Received

LEMMA SaysNothingAnnounced ==
  ASSUME SaysNothing
  PROVE  /\ Kept' = Kept /\ Posted' = Posted /\ theme' = theme
         /\ \A e \in Editors : /\ Sent(e)' = Sent(e) /\ Received(e)' = Received(e)
                               /\ Announced(e)' = Announced(e)
  BY AnnouncedParts DEF SaysNothing, Kept

\* A step that announces nothing loses nothing, if no editor is less known.
LEMMA WordsKept ==
  ASSUME Words, SaysNothing, listening => listening', missed' = missed,
         jobs' \subseteq jobs, gone' = gone,
         \A e \in Editors : Answers(e)' = Answers(e), shown' = shown,
         jobs \subseteq Editors
  PROVE  Words'
  BY SaysNothingAnnounced DEF Words, Quiet, Latest, NoLostUpdate

LEMMA WordsIo == TypeOK /\ Queued /\ Answering /\ Greeted /\ InOrder /\ Words /\ IoThread => Words'
<1> SUFFICES ASSUME TypeOK, Queued, Answering, Greeted, InOrder, Words, IoThread PROVE Words'
  OBVIOUS
<1> USE ThemeAssumption, MessageTypes
<1>0. jobs \subseteq Editors /\ theme \in Int
  BY DEF TypeOK
<1>1. CASE HandleReload \/ HandleConnect
  <2>1. \E m \in {Greeting, Connected}, es \in SUBSET Editors : SendTo(es, m)
    <3>1. jobs \intersect {Head(queue).editor} \in SUBSET Editors
      BY <1>0
    <3> QED
      BY <1>0, <1>1, <3>1 DEF HandleReload, HandleConnect
  <2>2. PICK m \in {Greeting, Connected}, es \in SUBSET Editors : SendTo(es, m)
    BY <2>1
  <2>3. m \in Messages /\ m.kind # "answer"
    BY DEF Greeting, Connected
  <2>4. ASSUME NEW e \in Editors PROVE Answers(e)' = Answers(e)
    <3>1. Said("answer", wire'[e]) = Said("answer", wire[e]) \union
            (IF e \in es \ gone /\ m.kind = "answer" THEN {m.theme} ELSE {})
      BY <2>2, <2>3, SendSaid
    <3> QED
      BY <2>3, <3>1 DEF Answers
  <2>5. SaysNothing
    <3>1. ~ HandleTheme
      BY <1>1 DEF HandleReload, HandleConnect, HandleTheme, Runs
    <3> QED
      BY <3>1, IoSaysNothing
  <2> QED
    BY <1>0, <1>1, <2>4, <2>5, WordsKept DEF HandleReload, HandleConnect, os, editor
<1>2. CASE HandleJoin
  <2> DEFINE f == Head(queue).editor
  <2>1. f \in Editors
    BY <1>2, RunsType, HandlerEditor DEF HandleJoin
  <2>2. /\ SendTo({f}, Greeting) /\ jobs' = jobs \union {f}
        /\ UNCHANGED <<listening, missed, gone, shown, theme>>
    BY <1>2 DEF HandleJoin, os, editor
  <2> HIDE DEF f
  <2>3. SaysNothing
    <3>1. ~ HandleTheme
      BY <1>2 DEF HandleJoin, HandleTheme, Runs
    <3> QED
      BY <3>1, IoSaysNothing
  <2>4. ASSUME NEW e \in Editors PROVE Answers(e)' = Answers(e)
    <3>1. Greeting.kind # "answer"
      BY DEF Greeting
    <3>2. Said("answer", wire'[e]) = Said("answer", wire[e]) \union
            (IF e \in {f} \ gone /\ Greeting.kind = "answer" THEN {Greeting.theme} ELSE {})
      BY <2>2, SendSaid
    <3> QED
      BY <3>1, <3>2 DEF Answers
  <2>5. Quiet' /\ Latest'
    BY <2>2, <2>3, SaysNothingAnnounced DEF Words, Quiet, Latest
  <2>6. ASSUME f \notin jobs \union gone
        PROVE  /\ shown[f] = Unset /\ Answers(f) = {}
               /\ Announced(f) = Posted \union Kept
    <3>1. wire[f] = <<>> /\ events[f] = <<>> /\ shown[f] = Unset
      BY <2>1, <2>6 DEF Greeted, Untouched
    <3>2. Sent(f) = {} /\ Received(f) = {} /\ Answers(f) = {}
      BY <3>1, SaidNothing DEF Sent, Received, Answers
    <3> QED
      BY <2>1, <3>1, <3>2, AnnouncedParts
  <2>7. NoLostUpdate'
    <3> SUFFICES ASSUME NEW e \in jobs' \ (gone' \union missed')
                 PROVE  IF Announced(e)' # {} THEN theme' \in Announced(e)'
                        ELSE IF Answers(e)' # {} THEN Answers(e)' = {theme'}
                        ELSE shown'[e] \in {theme', Unset}
      BY DEF NoLostUpdate
    <3>1. e \in Editors
      BY <1>0, <2>1, <2>2
    <3>2. /\ Announced(e)' = Announced(e) /\ Answers(e)' = Answers(e)
          /\ theme' = theme /\ shown' = shown
      BY <2>2, <2>3, <2>4, <3>1, SaysNothingAnnounced
    <3>3. CASE e \in jobs
      BY <2>2, <3>2, <3>3 DEF Words, NoLostUpdate
    <3>4. CASE e \notin jobs
      <4>1. e = f /\ f \notin jobs \union gone
        BY <2>2, <3>4
      <4> QED
        BY <2>6, <3>2, <4>1 DEF Words, Latest
    <3> QED
      BY <3>3, <3>4
  <2> QED
    BY <2>5, <2>7 DEF Words
<1>3. CASE HandleTheme
  <2>1. PICK t \in Themes :
           /\ Posted = Posted' \union {t} /\ Before({t}, Posted')
           /\ \A e \in Editors :
                Sent(e)' = Sent(e) \union (IF e \in jobs \ gone THEN {t} ELSE {})
           /\ UNCHANGED <<theme, changes, events>>
    BY <1>3, HandleThemeSays
  <2>2. Kept' = Kept /\ \A e \in Editors : Received(e)' = Received(e)
    BY <2>1 DEF Kept, Received
  <2>3. UNCHANGED <<jobs, listening, missed, gone, shown>>
    BY <1>3 DEF HandleTheme, os, editor
  <2>4. Quiet'
    BY <2>1, <2>3 DEF Words, Quiet
  <2>5. Latest'
    <3> SUFFICES ASSUME NEW x \in Posted' \union Kept PROVE theme \in Posted' \union Kept
      BY <2>1, <2>2 DEF Latest
    <3>1. theme \in Posted' \union {t} \union Kept
      BY <2>1 DEF Words, Latest
    <3>2. t <= x /\ x <= theme /\ x \in Int /\ t \in Int
      BY <1>0, <2>1, SaidType DEF InOrder, Before
    <3>3. t = theme => x = theme
      BY <1>0, <3>2
    <3> QED
      BY <3>1, <3>3
  <2>6. ASSUME NEW e \in Editors PROVE Answers(e)' = Answers(e)
    <3> DEFINE m == Announcement(Head(queue).theme)
    <3>1. Head(queue).theme \in Themes
      BY <1>3, RunsType DEF HandleTheme
    <3>2. m \in Messages /\ m.kind # "answer" /\ SendTo(jobs, m)
      BY <1>3, <3>1 DEF Announcement, HandleTheme
    <3> HIDE DEF m
    <3>3. Said("answer", wire'[e]) = Said("answer", wire[e]) \union
            (IF e \in jobs \ gone /\ m.kind = "answer" THEN {m.theme} ELSE {})
      BY <3>2, SendSaid
    <3> QED
      BY <3>2, <3>3 DEF Answers
  <2>7. \A e \in jobs \ gone : Announced(e)' = Announced(e)
    <3> SUFFICES ASSUME NEW e \in jobs \ gone PROVE Announced(e)' = Announced(e)
      OBVIOUS
    <3>1. e \in Editors /\ Sent(e)' = Sent(e) \union {t} /\ Received(e)' = Received(e)
      BY <1>0, <2>1, <2>2
    <3>2. Kept' = Kept /\ Posted = Posted' \union {t}
      BY <2>1, <2>2
    <3>3. /\ Announced(e) = Kept \union Posted \union Sent(e) \union Received(e)
          /\ Announced(e)' = Kept' \union Posted' \union Sent(e)' \union Received(e)'
      BY <3>1, AnnouncedParts
    <3> QED
      BY <3>1, <3>2, <3>3
  <2>8. NoLostUpdate'
    BY <1>0, <2>1, <2>3, <2>6, <2>7 DEF Words, NoLostUpdate
  <2> QED
    BY <2>4, <2>5, <2>8 DEF Words
<1>4. CASE HandleQuery
  <2> DEFINE f == Head(queue).editor
  <2> DEFINE m == Answer(Appearance)
  <2>1. /\ Head(queue).kind = "query" /\ Head(queue) = queue[1] /\ 1 \in 1 .. Len(queue)
        /\ Head(queue) \in Handlers
    BY <1>4, RunsType, RunsQueue DEF HandleQuery
  <2>2. f \in Editors /\ Answers(f) = {}
    BY <2>1, HandlerEditor DEF Queued, Answering
  <2>3. m \in Messages /\ m.kind = "answer" /\ m.theme = theme
    BY DEF TypeOK, Appearance, Answer
  <2>4. /\ SendTo(jobs \intersect {f}, m) /\ missed' = missed \ {f}
        /\ UNCHANGED <<jobs, listening, gone, shown, theme>>
    BY <1>4 DEF HandleQuery
  <2> HIDE DEF m, f
  <2>5. SaysNothing
    <3>1. ~ HandleTheme
      BY <1>4 DEF HandleQuery, HandleTheme, Runs
    <3> QED
      BY <3>1, IoSaysNothing
  <2>6. Quiet' /\ Latest'
    BY <2>4, <2>5, SaysNothingAnnounced DEF Words, Quiet, Latest
  <2>7. ASSUME NEW e \in Editors
        PROVE  /\ e \in (jobs \intersect {f}) \ gone => Answers(e)' = {theme}
               /\ e # f => Answers(e)' = Answers(e)
    <3>1. Said("answer", wire'[e]) = Said("answer", wire[e]) \union
            (IF e \in (jobs \intersect {f}) \ gone /\ m.kind = "answer" THEN {m.theme} ELSE {})
      BY <2>3, <2>4, SendSaid
    <3> QED
      BY <2>2, <2>3, <3>1 DEF Answers
  <2>8. NoLostUpdate'
    <3> SUFFICES ASSUME NEW e \in jobs \ (gone \union missed')
                 PROVE  IF Announced(e)' # {} THEN theme' \in Announced(e)'
                        ELSE IF Answers(e)' # {} THEN Answers(e)' = {theme'}
                        ELSE shown'[e] \in {theme', Unset}
      BY <2>4 DEF NoLostUpdate
    <3>1. e \in Editors /\ Announced(e)' = Announced(e) /\ theme' = theme
      BY <1>0, <2>5, SaysNothingAnnounced
    <3>2. CASE e # f
      BY <2>4, <2>7, <3>1, <3>2 DEF Words, NoLostUpdate
    <3>3. CASE e = f
      <4>1. Answers(e)' = {theme}
        BY <2>7, <3>1, <3>3
      <4>2. Announced(e) # {} => theme \in Announced(e)
        <5>1. CASE e \in missed
          BY <3>1, <5>1, AnnouncedParts DEF Words, Quiet
        <5>2. CASE e \notin missed
          BY <5>2 DEF Words, NoLostUpdate
        <5> QED
          BY <5>1, <5>2
      <4> QED
        BY <3>1, <4>1, <4>2
    <3> QED
      BY <3>2, <3>3
  <2> QED
    BY <2>6, <2>8 DEF Words
<1>5. CASE HandleLost
  <2>1. SaysNothing
    <3>1. ~ HandleTheme
      BY <1>5 DEF HandleLost, HandleTheme, Runs
    <3> QED
      BY <3>1, IoSaysNothing
  <2> QED
    BY <1>0, <1>5, <2>1, WordsKept DEF HandleLost, os, editor, Answers
<1> QED
  BY <1>1, <1>2, <1>3, <1>4, <1>5 DEF IoThread

LEMMA WordsMain == TypeOK /\ InOrder /\ Words /\ MainThread => Words'
<1> SUFFICES ASSUME TypeOK, InOrder, Words, MainThread PROVE Words'
  OBVIOUS
<1>0. jobs \subseteq Editors
  BY DEF TypeOK
<1>1. CASE PostReload \/ RegisterCallback \/ RunNotifier
  <2>1. SaysNothing
    BY <1>1, MainSaysNothing
  <2> QED
    BY <1>0, <1>1, <2>1, WordsKept DEF PostReload, RegisterCallback, RunNotifier,
       os, editor, Answers
<1>2. CASE Callback
  <2>1. PICK t \in Themes :
           /\ Kept = Kept' \union {t} /\ Posted' = Posted \union {t}
           /\ UNCHANGED <<theme, wire, events>>
    BY <1>2, CallbackSays
  <2>2. UNCHANGED <<jobs, listening, missed, gone, shown>>
    BY <1>2 DEF Callback, editor
  <2>3. \A e \in Editors : Sent(e)' = Sent(e) /\ Received(e)' = Received(e)
                           /\ Answers(e)' = Answers(e)
    BY <2>1 DEF Sent, Received, Answers
  <2>4. \A e \in Editors : Announced(e)' = Announced(e)
    <3> SUFFICES ASSUME NEW e \in Editors PROVE Announced(e)' = Announced(e)
      OBVIOUS
    <3>1. /\ Announced(e) = Kept \union Posted \union Sent(e) \union Received(e)
          /\ Announced(e)' = Kept' \union Posted' \union Sent(e)' \union Received(e)'
      BY AnnouncedParts
    <3> QED
      BY <2>1, <2>3, <3>1
  <2>5. Quiet' /\ Latest'
    BY <2>1, <2>2 DEF Words, Quiet, Latest
  <2>6. NoLostUpdate'
    BY <1>0, <2>1, <2>2, <2>3, <2>4 DEF Words, NoLostUpdate
  <2> QED
    BY <2>5, <2>6 DEF Words
<1> QED
  BY <1>1, <1>2 DEF MainThread

LEMMA WordsOs ==
  TypeOK /\ InOrder /\ Words /\ (NotifierListens \/ ThemeChanges) => Words'
<1> SUFFICES ASSUME TypeOK, InOrder, Words, NotifierListens \/ ThemeChanges PROVE Words'
  OBVIOUS
<1>0. jobs \subseteq Editors
  BY DEF TypeOK
<1>1. CASE NotifierListens
  <2>1. SaysNothing
    BY <1>1 DEF NotifierListens, editor, SaysNothing, InOrder, Posted, Sent, Received
  <2> QED
    BY <1>0, <1>1, <2>1, WordsKept DEF NotifierListens, editor, Answers
<1>2. CASE ThemeChanges
  <2>1. /\ theme' = theme + 1
        /\ UNCHANGED <<queue, wire, events, listening, jobs, gone, shown>>
        /\ listening => Kept' = Kept \union {theme'} /\ missed' = {}
        /\ ~ listening => changes' = changes /\ missed' = Told
    BY <1>2, ThemeChangesSays DEF ThemeChanges, editor
  <2>2. Posted' = Posted /\ \A e \in Editors : Sent(e)' = Sent(e) /\ Received(e)' = Received(e)
                                             /\ Answers(e)' = Answers(e)
    BY <2>1 DEF Posted, Sent, Received, Answers
  <2>3. CASE listening
    <3>1. Quiet' /\ Latest'
      BY <2>1, <2>3 DEF Quiet, Latest
    <3>2. \A e \in Editors : theme' \in Announced(e)'
      BY <2>1, <2>3, AnnouncedParts
    <3>3. NoLostUpdate'
      BY <1>0, <2>1, <3>2 DEF NoLostUpdate
    <3> QED
      BY <3>1, <3>3 DEF Words
  <2>4. CASE ~ listening
    <3>1. /\ Kept = {} /\ Posted = {}
          /\ \A e \in Editors : Sent(e) = {} /\ Received(e) = {}
      BY <2>4 DEF Words, Quiet
    <3>2. Kept' = {}
      BY <2>1, <2>4, <3>1 DEF Kept
    <3>3. Quiet' /\ Latest'
      BY <2>2, <3>1, <3>2 DEF Quiet, Latest
    <3>4. \A e \in Editors \ missed' : shown[e] = Unset /\ Answers(e) = {}
      BY <2>1, <2>4 DEF Told
    <3>5. \A e \in Editors : Announced(e)' = {}
      BY <2>2, <3>1, <3>2, AnnouncedParts
    <3>6. NoLostUpdate'
      BY <1>0, <2>1, <2>2, <3>4, <3>5 DEF NoLostUpdate
    <3> QED
      BY <3>3, <3>6 DEF Words
  <2> QED
    BY <2>3, <2>4
<1> QED
  BY <1>1, <1>2

LEMMA WordsEditors ==
  ASSUME TypeOK, Answering, InOrder, Fresh, Words, NEW e \in Editors,
         Joins(e) \/ Editor(e) \/ Asks(e) \/ Quits(e)
  PROVE  Words'
<1>0. jobs \subseteq Editors /\ theme \in Int
  BY MessageTypes, ThemeAssumption DEF TypeOK
<1>1. CASE \/ Joins(e) \/ ChainEnds(e) \/ ExecutesConnected(e) \/ Asks(e)
           \/ QueryArrives(e) \/ ExecutesGreeting(e)
  <2>1. SaysNothing
    BY <1>1, EditorSaysNothing
  <2>2. UNCHANGED <<wire, shown, jobs, gone, listening, missed>>
    BY <1>1 DEF Joins, ChainEnds, ExecutesConnected, Asks, QueryArrives,
       ExecutesGreeting, os, editor
  <2> QED
    BY <1>0, <2>1, <2>2, WordsKept DEF Answers
<1>2. CASE Receive(e)
  <2>0. /\ UNCHANGED <<queue, changes, theme, jobs, gone, listening, missed>>
        /\ \A f \in Editors \ {e} : /\ wire'[f] = wire[f] /\ events'[f] = events[f]
                                    /\ shown'[f] = shown[f]
    BY <1>2 DEF Receive, os, TypeOK
  <2>1. CASE Head(wire[e]).kind = "theme"
    <3>1. PICK t \in Themes :
           /\ Sent(e) = Sent(e)' \union {t} /\ Received(e)' = Received(e) \union {t}
           /\ Answers(e)' = Answers(e) /\ shown' = shown
      BY <1>2, <2>1, ReceiveSays
    <3>2. /\ Kept' = Kept /\ Posted' = Posted
          /\ \A f \in Editors \ {e} : /\ Sent(f)' = Sent(f) /\ Received(f)' = Received(f)
                                      /\ Answers(f)' = Answers(f)
      BY <2>0 DEF Kept, Posted, Sent, Received, Answers
    <3>3. \A f \in Editors : Announced(f)' = Announced(f)
      <4> SUFFICES ASSUME NEW f \in Editors PROVE Announced(f)' = Announced(f)
        OBVIOUS
      <4>1. /\ Announced(f) = Kept \union Posted \union Sent(f) \union Received(f)
            /\ Announced(f)' = Kept' \union Posted' \union Sent(f)' \union Received(f)'
        BY AnnouncedParts
      <4>2. CASE f = e
        BY <3>1, <3>2, <4>1, <4>2
      <4>3. CASE f # e
        BY <3>2, <4>1, <4>3
      <4> QED
        BY <4>2, <4>3
    <3>4. Quiet' /\ Latest'
      BY <2>0, <3>1, <3>2 DEF Words, Quiet, Latest
    <3>5. NoLostUpdate'
      BY <1>0, <2>0, <3>1, <3>2, <3>3 DEF Words, NoLostUpdate
    <3> QED
      BY <3>4, <3>5 DEF Words
  <2>2. CASE Head(wire[e]).kind # "theme"
    <3>1. SaysNothing
      BY <1>2, <2>2, ReceiveOther
    <3>2. /\ Kept' = Kept /\ Posted' = Posted
          /\ \A f \in Editors : /\ Sent(f)' = Sent(f) /\ Received(f)' = Received(f)
                                /\ Announced(f)' = Announced(f)
      BY <3>1, SaysNothingAnnounced
    <3>3. Quiet' /\ Latest'
      BY <2>0, <3>2 DEF Words, Quiet, Latest
    <3>4. \A f \in Editors \ {e} : Answers(f)' = Answers(f)
      BY <2>0 DEF Answers
    <3>5. /\ wire[e] \in Seq(Messages) /\ wire[e] # <<>> /\ wire'[e] = Tail(wire[e])
          /\ Once(wire[e])
      BY <1>2 DEF Receive, TypeOK, Answering
    <3>6. Said("answer", wire[e]) = Said("answer", Tail(wire[e])) \union
            (IF Head(wire[e]).kind = "answer" THEN {Head(wire[e]).theme} ELSE {})
      BY <3>5, SaidTail
    <3>7. CASE Head(wire[e]).kind # "answer"
      <4>1. shown' = shown /\ Answers(e)' = Answers(e)
        BY <1>2, <3>5, <3>6, <3>7 DEF Receive, Answers
      <4> QED
        BY <1>0, <2>0, <3>2, <3>3, <3>4, <4>1 DEF Words, NoLostUpdate
    <3>8. CASE Head(wire[e]).kind = "answer"
      <4>1. Answers(e)' = {} /\ Answers(e) = {Head(wire[e]).theme}
        BY <3>5, <3>6, <3>8, OnceTail DEF Answers
      <4>2. shown'[e] = Head(wire[e]).theme
        BY <1>2, <3>8 DEF Receive, TypeOK
      <4> QED
        BY <1>0, <2>0, <3>2, <3>3, <3>4, <4>1, <4>2 DEF Words, NoLostUpdate
    <3> QED
      BY <3>7, <3>8
  <2> QED
    BY <2>1, <2>2
<1>3. CASE ExecutesChange(e)
  <2>0. /\ UNCHANGED <<queue, changes, theme, wire, jobs, gone, listening, missed>>
        /\ \A f \in Editors \ {e} : events'[f] = events[f] /\ shown'[f] = shown[f]
    BY <1>3 DEF ExecutesChange, os, TypeOK
  <2>1. PICK t \in Themes :
          /\ Received(e) = Received(e)' \union {t} /\ Before({t}, Received(e)')
          /\ shown' = [shown EXCEPT ![e] = t]
    BY <1>3, ExecutesChangeSays
  <2>2. /\ Kept' = Kept /\ Posted' = Posted /\ shown'[e] = t
        /\ \A f \in Editors : Sent(f)' = Sent(f) /\ Answers(f)' = Answers(f)
        /\ \A f \in Editors \ {e} : Received(f)' = Received(f)
    BY <2>0, <2>1 DEF Kept, Posted, Sent, Received, Answers, TypeOK
  <2>3. Quiet' /\ Latest'
    BY <2>0, <2>1, <2>2 DEF Words, Quiet, Latest
  <2>4. /\ \A f \in Editors \ {e} : Announced(f)' = Announced(f)
        /\ Announced(e) = Announced(e)' \union {t}
    <3>1. \A f \in Editors :
            /\ Announced(f) = Kept \union Posted \union Sent(f) \union Received(f)
            /\ Announced(f)' = Kept' \union Posted' \union Sent(f)' \union Received(f)'
      BY AnnouncedParts
    <3>2. \A f \in Editors \ {e} : Announced(f)' = Announced(f)
      BY <2>2, <3>1
    <3>3. Announced(e) = Announced(e)' \union {t}
      <4>1. /\ Announced(e) = Kept \union Posted \union Sent(e) \union Received(e)
            /\ Announced(e)' = Kept \union Posted \union Sent(e) \union Received(e)'
        BY <2>2, <3>1
      <4> QED
        BY <2>1, <4>1
    <3> QED
      BY <3>2, <3>3
  <2>5. ASSUME NEW x \in Announced(e)' PROVE t <= x /\ x <= theme /\ x \in Int
    <3>1. Announced(e)' = Kept \union Posted \union Sent(e) \union Received(e)'
      BY <2>2, AnnouncedParts
    <3>2. x \in Received(e) \union Sent(e) \union Posted \union Kept
      BY <2>1, <3>1
    <3>3. x \in Int /\ x <= theme
      BY <3>2, SaidType, MessageTypes, ThemeAssumption DEF InOrder, Before
    <3>4. t <= x
      BY <2>1, <3>1 DEF InOrder, Before
    <3> QED
      BY <3>3, <3>4
  <2>6. t \in Int
    BY <2>1, MessageTypes, ThemeAssumption
  <2>7. ASSUME e \in jobs \ (gone \union missed)
        PROVE  IF Announced(e)' # {} THEN theme \in Announced(e)'
               ELSE IF Answers(e) # {} THEN Answers(e) = {theme}
               ELSE t \in {theme, Unset}
    <3>1. theme \in Announced(e)' \union {t}
      BY <2>4, <2>7 DEF Words, NoLostUpdate
    <3>2. CASE Announced(e)' # {}
      <4>1. PICK x \in Announced(e)' : TRUE
        BY <3>2
      <4>2. t = theme => x = theme
        BY <1>0, <2>5, <2>6, <4>1
      <4> QED
        BY <3>1, <3>2, <4>1, <4>2
    <3>3. CASE Announced(e)' = {}
      <4>1. t = theme
        BY <3>1, <3>3
      <4>2. \A a \in Answers(e) : a \in Int /\ t <= a /\ a <= theme
        <5>1. t \in Received(e)
          BY <2>1
        <5>2. Answers(e) \subseteq Int
          BY SaidType, MessageTypes, ThemeAssumption
        <5> QED
          BY <5>1, <5>2 DEF Fresh, Before
      <4>3. \A a \in Answers(e) : a = theme
        BY <1>0, <4>1, <4>2
      <4> QED
        BY <3>3, <4>1, <4>3
    <3> QED
      BY <3>2, <3>3
  <2>8. NoLostUpdate'
    <3> SUFFICES ASSUME NEW f \in jobs \ (gone \union missed)
                 PROVE  IF Announced(f)' # {} THEN theme \in Announced(f)'
                        ELSE IF Answers(f)' # {} THEN Answers(f)' = {theme}
                        ELSE shown'[f] \in {theme, Unset}
      BY <2>0 DEF NoLostUpdate
    <3>1. CASE f = e
      BY <2>2, <2>7, <3>1
    <3>2. CASE f # e
      BY <1>0, <2>0, <2>2, <2>4, <3>2 DEF Words, NoLostUpdate
    <3> QED
      BY <3>1, <3>2
  <2> QED
    BY <2>3, <2>8 DEF Words
<1>4. CASE Quits(e)
  <2>1. /\ Posted' = Posted /\ Sent(e)' = {} /\ Received(e)' = {}
        /\ \A f \in Editors \ {e} :
             wire'[f] = wire[f] /\ events'[f] = events[f] /\ shown'[f] = shown[f]
        /\ UNCHANGED <<changes, theme>>
    BY <1>4, QuitsSays
  <2>2. UNCHANGED <<jobs, listening, missed>> /\ gone' = gone \union {e}
    BY <1>4 DEF Quits, os
  <2>3. /\ Kept' = Kept
        /\ \A f \in Editors \ {e} : /\ Sent(f)' = Sent(f) /\ Received(f)' = Received(f)
                                    /\ Answers(f)' = Answers(f)
    BY <2>1 DEF Kept, Sent, Received, Answers
  <2>4. \A f \in Editors \ {e} : Announced(f)' = Announced(f)
    <3> SUFFICES ASSUME NEW f \in Editors \ {e} PROVE Announced(f)' = Announced(f)
      OBVIOUS
    <3>1. /\ Announced(f) = Kept \union Posted \union Sent(f) \union Received(f)
          /\ Announced(f)' = Kept' \union Posted' \union Sent(f)' \union Received(f)'
      BY AnnouncedParts
    <3> QED
      BY <2>1, <2>3, <3>1
  <2>5. Quiet' /\ Latest'
    BY <2>1, <2>2, <2>3 DEF Words, Quiet, Latest
  <2>6. NoLostUpdate'
    BY <1>0, <2>1, <2>2, <2>3, <2>4 DEF Words, NoLostUpdate
  <2> QED
    BY <2>5, <2>6 DEF Words
<1> QED
  BY <1>1, <1>2, <1>3, <1>4 DEF Editor

LEMMA WordsStep ==
  TypeOK /\ Queued /\ Answering /\ Greeted /\ InOrder /\ Fresh /\ Words /\ [Next]_vars => Words'
<1> SUFFICES ASSUME TypeOK, Queued, Answering, Greeted, InOrder, Fresh, Words, [Next]_vars
             PROVE  Words'
  OBVIOUS
<1>1. CASE UNCHANGED vars
  <2>1. /\ SaysNothing /\ jobs \subseteq Editors
        /\ UNCHANGED <<listening, missed, jobs, gone, shown, wire>>
    BY <1>1 DEF vars, SaysNothing, InOrder, Posted, Sent, Received, TypeOK
  <2> QED
    BY <2>1, WordsKept DEF Answers
<1> QED
  BY <1>1, WordsMain, WordsIo, WordsOs, WordsEditors DEF Next

-----------------------------------------------------------------------------
(* The theorems                                                            *)

\* The inductive invariant: each part is kept with the help of those before.
IndInv ==
  TypeOK /\ Queued /\ Answering /\ Greeted /\ InOrder /\ Fresh /\ Words

LEMMA InitInv == Init => IndInv
<1> SUFFICES ASSUME Init PROVE IndInv
  OBVIOUS
<1>1. /\ queue = <<>> /\ changes = <<>>
      /\ \A e \in Editors : wire[e] = <<>> /\ events[e] = <<>>
  BY DEF Init
<1>2. /\ Kept = {} /\ Posted = {} /\ Sorted(queue) /\ Sorted(changes)
      /\ \A e \in Editors : /\ Sent(e) = {} /\ Received(e) = {} /\ Answers(e) = {}
                            /\ Sorted(wire[e]) /\ Sorted(events[e])
                            /\ FreshIn(wire[e]) /\ Once(wire[e])
  BY <1>1, SaidNothing, SortedNothing, FreshNothing
     DEF Kept, Posted, Sent, Received, Answers, Once
<1>3. Queued /\ Answering
  BY <1>1, <1>2 DEF Queued, Answering
<1>4. Greeted
  BY <1>1 DEF Init, Greeted, Untouched, Start, GreetedFirst, Reloaded
<1>5. InOrder
  BY <1>2 DEF InOrder, Before
<1>6. Fresh
  <2>1. \A e \in Editors : shown[e] <= theme
    BY DEF Init, Unset
  <2> QED
    BY <1>2, <2>1 DEF Fresh, Before
<1>7. Words
  <2>1. \A e \in Editors : Announced(e) = {}
    BY <1>2, AnnouncedParts
  <2> QED
    BY <1>2, <2>1, ThemeAssumption
       DEF Words, Quiet, Latest, NoLostUpdate, Init, ThemeAssumption
<1> QED
  BY <1>3, <1>4, <1>5, <1>6, <1>7, TypeInit DEF IndInv

THEOREM Invariance == Spec => []IndInv
<1>1. IndInv /\ [Next]_vars => IndInv'
  BY TypeStep, QueuedStep, AnsweringStep, GreetedStep, OrderStep, FreshStep, WordsStep
     DEF IndInv
<1> QED
  BY <1>1, InitInv, PTL DEF Spec

(* The last word an editor gets is the current theme, unless the notifier  *)
(* did not keep the last change (monitor.cpp:83-91,                        *)
(* service/monitor.cpp:25-48, request_handler.cpp:92-98).                  *)
THEOREM NoLostUpdateHolds == Spec => []NoLostUpdate
<1>1. IndInv => NoLostUpdate
  BY DEF IndInv, Words
<1> QED
  BY <1>1, Invariance, PTL

(* An answer is at least as new as what the editor was told before it      *)
(* (monitor.cpp:98-100, request_handler.cpp:92-98).                        *)
THEOREM QueryIsFreshHolds == Spec => []QueryIsFresh
<1>1. IndInv => QueryIsFresh
  BY FreshImplies DEF IndInv
<1> QED
  BY <1>1, Invariance, PTL

(* A client is greeted before anything else is sent to it                  *)
(* (monitor.cpp:83-88, service/neovim.cpp:49-51).                          *)
THEOREM GreetedFirstHolds == Spec => []GreetedFirst
<1>1. IndInv => GreetedFirst
  BY DEF IndInv, Greeted
<1> QED
  BY <1>1, Invariance, PTL

=============================================================================
