------------------------------ MODULE ThemeSync ------------------------------
(***************************************************************************)
(* How the theme of the OS reaches every editor: mode::monitor_t::run()    *)
(* and query() (application/mode/monitor.cpp), the broadcast of            *)
(* service/monitor.cpp, the greeting and the query of                      *)
(* service/request_handler.cpp, the list of jobs of service/neovim.cpp and *)
(* util/job.hpp.                                                           *)
(*                                                                         *)
(* A theme is the number of changes before it, so that properties can tell *)
(* a late word from the current one; the program only passes themes on.    *)
(* The main thread prepares and runs the notifier while the io thread runs *)
(* its handlers, one at a time, in the order of queue.                     *)
(* The initialisation chain of an editor is one step here, ChainEnds:      *)
(* NvimSession has its messages.  The stream to an editor is a FIFO, which *)
(* RpcWriter implements.                                                   *)
(* A definition named D_Something, placed before D, is a faulty variant of *)
(* D that no specification uses: the README says which property rejects it.*)
(*                                                                         *)
(* The notifier is external: from some moment of its preparation on it     *)
(* keeps every change for the callback, which it calls from run(); query() *)
(* reads the theme of the OS.  So is the editor, with the configuration of *)
(* README.md:97-112: it queues requests and executes them in order, but    *)
(* takes the answer of a query as soon as it arrives.                      *)
(***************************************************************************)
EXTENDS Integers, Sequences, FiniteSets

CONSTANTS
  Editors,      \* the editors that may ever connect
  First,        \* the one the process is started by
  MaxChanges,   \* bound on the number of theme changes
  MaxAsks       \* bound on the queries that no OnDarkMonitorConnected makes

ASSUME ThemeAssumption ==
  First \in Editors /\ MaxChanges \in Nat /\ MaxAsks \in Nat

VARIABLES
  main,         \* how far the main thread is in run()
  queue,        \* handlers ready to run on the io thread
  jobs,         \* clients_: the editors in the list
  greeted,      \* the editors on_new_client() was called for
  listening,    \* the notifier keeps the changes of the theme
  theme,        \* the theme of the OS
  changes,      \* the changes the notifier has to call back for
  wire,         \* what is on its way to each editor
  events,       \* the requests each editor has still to execute
  shown,        \* the theme each editor was last set to, or Unset
  query,        \* how far the query of each editor is
  asks,         \* queries so far that no OnDarkMonitorConnected made
  stage,        \* how far the initialisation of each editor is
  gone,         \* the editors that have quit
  missed        \* the editors that a change the notifier did not keep left behind

vars == <<main, queue, jobs, greeted, listening, theme, changes, wire, events,
          shown, query, asks, stage, gone, missed>>

os == <<listening, theme, changes, missed>>
editor == <<events, shown, query, asks, stage, gone>>

Unset == -1
Themes == 0 .. MaxChanges

MainSteps == {"start", "posted", "registered", "running"}
QuerySteps == {"none", "asked", "queued", "answered"}
Stages == {"new", "greeted", "ready", "refused"}

Announcement(t) == [kind |-> "theme", theme |-> t]
Answer(t) == [kind |-> "answer", theme |-> t]
Greeting == [kind |-> "greeting"]
Connected == [kind |-> "connected"]

Announcements == [kind : {"theme"}, theme : Themes]
Events == Announcements \union {Greeting, Connected}
Messages == Events \union [kind : {"answer"}, theme : Themes]

Handlers == Announcements \union [kind : {"reload"}]
            \union [kind : {"join", "connect", "query", "lost"}, editor : Editors]

\* The themes in the messages or handlers of a kind, in a sequence of them.
Said(kind, s) == {s[i].theme : i \in {j \in 1 .. Len(s) : s[j].kind = kind}}

TypeOK ==
  /\ main \in MainSteps
  /\ queue \in Seq(Handlers)
  /\ jobs \in SUBSET Editors /\ greeted \in SUBSET Editors
  /\ listening \in BOOLEAN
  /\ theme \in Themes
  /\ changes \in Seq(Announcements)
  /\ wire \in [Editors -> Seq(Messages)]
  /\ events \in [Editors -> Seq(Events)]
  /\ shown \in [Editors -> Themes \union {Unset}]
  /\ query \in [Editors -> QuerySteps]
  /\ asks \in 0 .. MaxAsks
  /\ stage \in [Editors -> Stages]
  /\ gone \in SUBSET Editors
  /\ missed \in SUBSET Editors

\* monitor_t::monitor_t() and neovim_t::neovim_t(): the first job is there.
Init ==
  /\ main = "start"
  /\ queue = <<>>
  /\ jobs = {First} /\ greeted = {}
  /\ listening = FALSE
  /\ theme = 0
  /\ changes = <<>>
  /\ wire = [e \in Editors |-> <<>>]
  /\ events = [e \in Editors |-> <<>>]
  /\ shown = [e \in Editors |-> Unset]
  /\ query = [e \in Editors |-> "none"]
  /\ asks = 0
  /\ stage = [e \in Editors |-> "new"]
  /\ gone = {}
  /\ missed = {}

-----------------------------------------------------------------------------
(* The main thread: monitor_t::run()                                       *)

Post(handler) == queue' = Append(queue, handler)

PostReload_Forgotten ==
  /\ main = "start" /\ main' = "posted"
  /\ UNCHANGED <<queue, jobs, greeted, wire, os, editor>>

PostReload ==
  /\ main = "start" /\ main' = "posted"
  /\ Post([kind |-> "reload"])
  /\ UNCHANGED <<jobs, greeted, wire, os, editor>>

\* scoped_callback_register_t: nothing is called back before run().
RegisterCallback ==
  /\ main = "posted" /\ main' = "registered"
  /\ UNCHANGED <<queue, jobs, greeted, wire, os, editor>>

RunNotifier ==
  /\ main = "registered" /\ listening /\ main' = "running"
  /\ UNCHANGED <<queue, jobs, greeted, wire, os, editor>>

\* The registered callback: every change is posted to the io thread.
Callback ==
  /\ main = "running" /\ changes # <<>>
  /\ Post(Head(changes))
  /\ changes' = Tail(changes)
  /\ UNCHANGED <<main, jobs, greeted, listening, theme, missed, wire, editor>>

MainThread == PostReload \/ RegisterCallback \/ RunNotifier \/ Callback

-----------------------------------------------------------------------------
(* The io thread                                                           *)

Runs(kind) == queue # <<>> /\ Head(queue).kind = kind /\ queue' = Tail(queue)

\* What is sent to an editor that has quit is lost.
SendTo(es, m) ==
  wire' = [e \in Editors |-> IF e \in es \ gone THEN Append(wire[e], m) ELSE wire[e]]

\* inventory_.reload(), neovim_t::reload(): every client there is is greeted.
HandleReload ==
  /\ Runs("reload")
  /\ SendTo(jobs, Greeting)
  /\ greeted' = greeted \union jobs
  /\ UNCHANGED <<main, jobs, os, editor>>

\* neovim_t::on_client_msg(), when the connection to the editor is made.
HandleJoin_Ungreeted ==
  /\ Runs("join")
  /\ jobs' = jobs \union {Head(queue).editor}
  /\ UNCHANGED <<main, greeted, wire, os, editor>>

HandleJoin ==
  /\ Runs("join")
  /\ jobs' = jobs \union {Head(queue).editor}
  /\ SendTo({Head(queue).editor}, Greeting)
  /\ greeted' = greeted \union {Head(queue).editor}
  /\ UNCHANGED <<main, os, editor>>

\* client_initializer_t::on_exec_lua(): the last step of the initialisation.
HandleConnect ==
  /\ Runs("connect")
  /\ SendTo(jobs \intersect {Head(queue).editor}, Connected)
  /\ UNCHANGED <<main, jobs, greeted, os, editor>>

\* on_appearance(): every client in the list, however far it is.
HandleTheme_OnlyAnswered ==
  /\ Runs("theme")
  /\ SendTo({e \in jobs : shown[e] # Unset}, Announcement(Head(queue).theme))
  /\ UNCHANGED <<main, jobs, greeted, os, editor>>

HandleTheme ==
  /\ Runs("theme")
  /\ SendTo(jobs, Announcement(Head(queue).theme))
  /\ UNCHANGED <<main, jobs, greeted, os, editor>>

Appearance_AtStart == 0
Appearance_Shifted == theme + 1

\* query(): the theme of the moment in which the handler runs.
Appearance == theme

\* on_request(): the client answers from within its handler.
HandleQuery ==
  /\ Runs("query")
  /\ LET e == Head(queue).editor
     IN  /\ SendTo(jobs \intersect {e}, Answer(Appearance))
         /\ query' = [query EXCEPT ![e] = "answered"]
         /\ missed' = missed \ {e}
  /\ UNCHANGED <<main, jobs, greeted, listening, theme, changes, events, shown,
                 asks, stage, gone>>

\* on_client_error(): the job leaves the list.
HandleLost ==
  /\ Runs("lost")
  /\ jobs' = jobs \ {Head(queue).editor}
  /\ UNCHANGED <<main, greeted, wire, os, editor>>

IoThread ==
  \/ HandleReload \/ HandleJoin \/ HandleConnect
  \/ HandleTheme \/ HandleQuery \/ HandleLost

-----------------------------------------------------------------------------
(* The OS and its notifier                                                 *)

Answers(e) == Said("answer", wire[e])

\* The editors that were told a theme already.
Told == {e \in Editors : shown[e] # Unset \/ Answers(e) # {}}

NotifierListens ==
  /\ ~ listening /\ listening' = TRUE
  /\ UNCHANGED <<main, queue, jobs, greeted, theme, changes, missed, wire, editor>>

ThemeChanges ==
  /\ theme < MaxChanges
  /\ theme' = theme + 1
  /\ IF listening
     THEN changes' = Append(changes, Announcement(theme + 1)) /\ missed' = {}
     ELSE changes' = changes /\ missed' = Told
  /\ UNCHANGED <<main, queue, jobs, greeted, listening, wire, editor>>

-----------------------------------------------------------------------------
(* The editors                                                             *)

\* inventory_.reload() has been called.
Reloaded == main # "start" /\ \A i \in 1 .. Len(queue) : queue[i].kind # "reload"

\* A second process has sent the socket of its editor, and the connection to
\* it is made.  The acceptor is started by the reload.
Joins(e) ==
  /\ Reloaded
  /\ e \notin jobs \union gone
  /\ \A i \in 1 .. Len(queue) : queue[i] # [kind |-> "join", editor |-> e]
  /\ Post([kind |-> "join", editor |-> e])
  /\ UNCHANGED <<main, jobs, greeted, wire, os, editor>>

\* The first requests of the initialisation are executed.
ExecutesGreeting(e) ==
  /\ e \notin gone
  /\ events[e] # <<>> /\ Head(events[e]) = Greeting
  /\ events' = [events EXCEPT ![e] = Tail(@)]
  /\ stage' = [stage EXCEPT ![e] = "greeted"]
  /\ UNCHANGED <<main, queue, jobs, greeted, wire, os, shown, query, asks, gone>>

\* Some round trips later DarkMonitorQuery is registered, and the last
\* response is there; or the editor has refused a step.
ChainEnds(e) ==
  /\ e \notin gone /\ stage[e] = "greeted"
  /\ \/ /\ stage' = [stage EXCEPT ![e] = "ready"]
        /\ Post([kind |-> "connect", editor |-> e])
     \/ /\ stage' = [stage EXCEPT ![e] = "refused"]
        /\ queue' = queue
  /\ UNCHANGED <<main, jobs, greeted, wire, os, events, shown, query, asks, gone>>

\* A request waits for its turn, the answer is what the editor waits for.
Receive(e) ==
  /\ e \notin gone /\ wire[e] # <<>>
  /\ wire' = [wire EXCEPT ![e] = Tail(@)]
  /\ IF Head(wire[e]).kind = "answer"
     THEN /\ shown' = [shown EXCEPT ![e] = Head(wire[e]).theme]
          /\ query' = [query EXCEPT ![e] = "none"]
          /\ events' = events
     ELSE /\ events' = [events EXCEPT ![e] = Append(@, Head(wire[e]))]
          /\ UNCHANGED <<shown, query>>
  /\ UNCHANGED <<main, queue, jobs, greeted, os, asks, stage, gone>>

\* OnDarkMonitorThemeChange, also while a query is under way.
ExecutesChange(e) ==
  /\ e \notin gone
  /\ events[e] # <<>> /\ Head(events[e]).kind = "theme"
  /\ shown' = [shown EXCEPT ![e] = Head(events[e]).theme]
  /\ events' = [events EXCEPT ![e] = Tail(@)]
  /\ UNCHANGED <<main, queue, jobs, greeted, wire, os, query, asks, stage, gone>>

\* OnDarkMonitorConnected: the callback asks for the theme.
ExecutesConnected(e) ==
  /\ e \notin gone /\ query[e] = "none"
  /\ events[e] # <<>> /\ Head(events[e]) = Connected
  /\ query' = [query EXCEPT ![e] = "asked"]
  /\ events' = [events EXCEPT ![e] = Tail(@)]
  /\ UNCHANGED <<main, queue, jobs, greeted, wire, os, shown, asks, stage, gone>>

\* DarkMonitorQuery() is a global function: it may be called at any time.
Asks(e) ==
  /\ e \notin gone /\ stage[e] = "ready" /\ query[e] = "none" /\ asks < MaxAsks
  /\ asks' = asks + 1
  /\ query' = [query EXCEPT ![e] = "asked"]
  /\ UNCHANGED <<main, queue, jobs, greeted, wire, os, events, shown, stage, gone>>

QueryArrives(e) ==
  /\ query[e] = "asked"
  /\ query' = [query EXCEPT ![e] = "queued"]
  /\ Post([kind |-> "query", editor |-> e])
  /\ UNCHANGED <<main, jobs, greeted, wire, os, events, shown, asks, stage, gone>>

Quits(e) ==
  /\ e \in jobs \ gone
  /\ gone' = gone \union {e}
  /\ Post([kind |-> "lost", editor |-> e])
  /\ wire' = [wire EXCEPT ![e] = <<>>]
  /\ events' = [events EXCEPT ![e] = <<>>]
  /\ shown' = [shown EXCEPT ![e] = Unset]
  /\ UNCHANGED <<main, jobs, greeted, os, query, asks, stage>>

Editor(e) ==
  \/ ExecutesGreeting(e) \/ ChainEnds(e) \/ Receive(e)
  \/ ExecutesChange(e) \/ ExecutesConnected(e) \/ QueryArrives(e)

Next ==
  \/ MainThread \/ IoThread
  \/ NotifierListens \/ ThemeChanges
  \/ \E e \in Editors : Joins(e) \/ Editor(e) \/ Asks(e) \/ Quits(e)

Spec == Init /\ [][Next]_vars

(* Both threads go on, the notifier gets ready, and an editor executes     *)
(* what it is sent.  Nobody has to change the theme, join, ask or quit.    *)
Fairness ==
  /\ WF_vars(MainThread) /\ WF_vars(IoThread) /\ WF_vars(NotifierListens)
  /\ \A e \in Editors : WF_vars(Editor(e))

FairSpec == Spec /\ Fairness

-----------------------------------------------------------------------------
(* Properties                                                              *)

\* What an editor in the list has still to hear, from the notifier on.
Announced(e) ==
  Said("theme", changes) \union Said("theme", queue)
  \union Said("theme", wire[e]) \union Said("theme", events[e])

(* The last word an editor gets is the current theme: the newest of the    *)
(* announcements it has still to hear, or else the answer under way, or    *)
(* else what it shows (monitor.cpp:83-91, service/monitor.cpp:25-48,       *)
(* request_handler.cpp:92-98).  Only a change that the notifier did not    *)
(* keep may be missed, and only until the editor asks.                     *)
NoLostUpdate ==
  \A e \in jobs \ (gone \union missed) :
    IF Announced(e) # {} THEN theme \in Announced(e)
    ELSE IF Answers(e) # {} THEN Answers(e) = {theme}
    ELSE shown[e] \in {theme, Unset}

(* An answer is at least as new as what the editor was told before it      *)
(* (monitor.cpp:98-100, request_handler.cpp:92-98).                        *)
QueryIsFresh ==
  \A e \in Editors : \A i \in 1 .. Len(wire[e]) :
    wire[e][i].kind = "answer" =>
      /\ wire[e][i].theme >= shown[e]
      /\ \A t \in Said("theme", events[e]) : wire[e][i].theme >= t
      /\ \A j \in 1 .. i : wire[e][j].kind = "theme" => wire[e][i].theme >= wire[e][j].theme

(* A client is greeted before anything else is sent to it: no theme change *)
(* reaches the list before the reload, and none between the making of a    *)
(* job and its greeting (monitor.cpp:83-88, service/neovim.cpp:49-51).     *)
GreetedFirst ==
  \A e \in Editors : (e \notin greeted) => (wire[e] = <<>>)

(* When the theme rests, every editor that stays, unless it refuses its    *)
(* initialisation, is told it and comes to show it, for good.              *)
Converges ==
  <>[](\A e \in jobs \ (gone \union missed) :
         stage[e] # "refused" => shown[e] = theme)

=============================================================================
