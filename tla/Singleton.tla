------------------------------ MODULE Singleton ------------------------------
(***************************************************************************)
(* The election of the monitor among the processes that editors start, and *)
(* the handing over of an editor to the elected one                        *)
(* (application.cpp, mode/singleton_client.cpp, singleton/, and the parts  *)
(* of mode/monitor.cpp and service/neovim.cpp that take the editor over).  *)
(*                                                                         *)
(* Process p is started once, by editor p.  It probes the socket file; if  *)
(* nobody listens there it becomes a monitor: it connects to its editor,   *)
(* removes the file, binds a socket there and listens.  Otherwise it hands *)
(* the address of its editor to the process that answered, and exits.      *)
(* Nothing locks the steps between the probe and listen().                 *)
(*                                                                         *)
(* A socket file is the process that bound it: it stays in the directory   *)
(* when its process is gone, because nothing removes it on exit.           *)
(* What a monitor's handlers can do before its reload is left to           *)
(* MonitorProcess: here it serves from the reload on.                      *)
(*                                                                         *)
(* A definition named D_Something, placed before D, is a faulty variant of *)
(* D that no specification uses: the README says which property rejects it.*)
(***************************************************************************)
EXTENDS FiniteSets

CONSTANTS
  Procs,        \* the processes
  Valid,        \* those whose editor address make_endpoint understands
  None          \* no process

ASSUME SingletonAssumption == Valid \subseteq Procs /\ None \notin Procs

VARIABLES
  pc,           \* where each process is
  path,         \* the process whose socket the file names, or None
  listening,    \* the processes whose acceptor listens
  peer,         \* the process a client is connected to, or None
  backlog,      \* connections waiting to be accepted, per listening process
  handlers,     \* singleton::server_t::jobs_: the accepted ones
  unread,       \* clients whose message waits in the socket
  connecting,   \* async_connect operations of neovim_t::on_client_msg
  jobs,         \* neovim_t::clients_: the editors a monitor serves
  finished,     \* monitors with a posted on_jobs_finished
  editors,      \* the editors that are running
  dropped,      \* history: the editors a monitor gave up for an error while
                \* they were running
  raced         \* history: a startup began in the middle of another one, and
                \* a process of that race is still there

vars == <<pc, path, listening, peer, backlog, handlers, unread, connecting,
          jobs, finished, editors, dropped, raced>>

server == <<backlog, handlers, connecting, jobs, finished>>

\* probe .. listen: the program is choosing a mode or building its services.
Starting == {"connect", "remove", "bind", "listen"}
Running == {"reload", "serve"}
Ended == {"done", "stopped", "failed", "killed"}

TypeOK ==
  /\ pc \in [Procs -> {"new", "client"} \union Starting \union Running \union Ended]
  /\ path \in Procs \union {None}
  /\ listening \in SUBSET {p \in Procs : pc[p] \in Running}
  /\ peer \in [Procs -> Procs \union {None}]
  /\ backlog \in [Procs -> SUBSET Procs]
  /\ handlers \in [Procs -> SUBSET Procs]
  /\ unread \in SUBSET Procs
  /\ connecting \in [Procs -> SUBSET Procs]
  /\ jobs \in [Procs -> SUBSET Procs]
  /\ finished \in SUBSET {p \in Procs : pc[p] \in Running}
  /\ editors \in SUBSET Procs
  /\ dropped \in SUBSET Procs
  /\ raced \in BOOLEAN

Nobody == [p \in Procs |-> {}]

Init ==
  /\ pc = [p \in Procs |-> "new"]
  /\ path = None
  /\ listening = {}
  /\ peer = [p \in Procs |-> None]
  /\ backlog = Nobody
  /\ handlers = Nobody
  /\ unread = {}
  /\ connecting = Nobody
  /\ jobs = Nobody
  /\ finished = {}
  /\ editors = Procs
  /\ dropped = {}
  /\ raced = FALSE

-----------------------------------------------------------------------------
(* Helpers                                                                 *)

Goto(p, label) == pc' = [pc EXCEPT ![p] = label]
Put(f, p, c) == [f EXCEPT ![p] = @ \union {c}]
Take(f, p, c) == [f EXCEPT ![p] = @ \ {c}]

\* What a process that is about to start up as a monitor means for raced.
StartsRace ==
  \/ \E q \in Procs : pc[q] \in Starting
  \/ raced /\ \E q \in Procs : pc[q] \in Running

\* connect() succeeds iff a socket is listening behind the file; a missing
\* file (ENOENT) and a file nobody listens on (ECONNREFUSED) look alike.
Answered == path # None /\ path \in listening

Vanish_KeepsAcceptor(p, label) ==
  /\ Goto(p, label)
  /\ unread' = unread \ (backlog[p] \union handlers[p])
  /\ backlog' = [backlog EXCEPT ![p] = {}]
  /\ handlers' = [handlers EXCEPT ![p] = {}]
  /\ connecting' = [connecting EXCEPT ![p] = {}]
  /\ jobs' = [jobs EXCEPT ![p] = {}]
  /\ finished' = finished \ {p}
  /\ UNCHANGED <<listening, path, peer, editors, dropped, raced>>

\* What the end of process p does to the rest of the system: its sockets are
\* closed, what was in them is lost, the socket file stays.
Vanish(p, label) ==
  /\ Goto(p, label)
  /\ listening' = listening \ {p}
  /\ unread' = unread \ (backlog[p] \union handlers[p])
  /\ backlog' = [backlog EXCEPT ![p] = {}]
  /\ handlers' = [handlers EXCEPT ![p] = {}]
  /\ connecting' = [connecting EXCEPT ![p] = {}]
  /\ jobs' = [jobs EXCEPT ![p] = {}]
  /\ finished' = finished \ {p}
  /\ UNCHANGED <<path, peer, editors, dropped, raced>>

-----------------------------------------------------------------------------
(* Choosing the mode                                                       *)

Probe_BothModes(p) ==
  /\ pc[p] = "new"
  /\ Goto(p, "connect")
  /\ raced' = StartsRace
  /\ IF Answered
     THEN /\ peer' = [peer EXCEPT ![p] = path]
          /\ backlog' = Put(backlog, path, p)
          /\ unread' = unread \union {p}
     ELSE UNCHANGED <<peer, backlog, unread>>
  /\ UNCHANGED <<path, listening, handlers, connecting, jobs, finished, editors,
                 dropped>>

\* try_client_mode().
Probe(p) ==
  /\ pc[p] = "new"
  /\ IF Answered
     THEN /\ Goto(p, "client")
          /\ peer' = [peer EXCEPT ![p] = path]
          /\ backlog' = Put(backlog, path, p)
          /\ raced' = raced
     ELSE /\ Goto(p, "connect")
          /\ raced' = StartsRace
          /\ UNCHANGED <<peer, backlog>>
  /\ UNCHANGED <<path, listening, handlers, unread, connecting, jobs,
                 finished, editors, dropped>>

\* Any other error of connect() is thrown out of try_client_mode().
ProbeFails(p) ==
  /\ pc[p] = "new"
  /\ Goto(p, "failed")
  /\ UNCHANGED <<path, listening, peer, unread, editors, dropped, raced, server>>

\* make_socket(): the editor may be gone, its address unusable, or connect()
\* may fail otherwise.
ConnectEditor(p) ==
  /\ pc[p] = "connect"
  /\ \/ p \in Valid \intersect editors /\ Goto(p, "remove") /\ jobs' = Put(jobs, p, p)
     \/ Goto(p, "failed") /\ jobs' = jobs
  /\ UNCHANGED <<path, listening, peer, backlog, handlers, unread, connecting,
                 finished, editors, dropped, raced>>

RemoveFile_Forgotten(p) ==
  /\ pc[p] = "remove"
  /\ Goto(p, "bind")
  /\ UNCHANGED <<path, listening, peer, unread, editors, dropped, raced, server>>

\* filesystem::remove() in server_t's constructor: whoever bound the file.
RemoveFile(p) ==
  /\ pc[p] = "remove"
  /\ Goto(p, "bind")
  /\ path' = None
  /\ UNCHANGED <<listening, peer, unread, editors, dropped, raced, server>>

\* bind() throws when the file is there (EADDRINUSE): the process ends, and
\* with it the service of its own editor.
Bind(p) ==
  /\ pc[p] = "bind"
  /\ IF path = None
     THEN /\ Goto(p, "listen")
          /\ path' = p
          /\ UNCHANGED <<listening, peer, unread, editors, dropped, raced, server>>
     ELSE Vanish(p, "failed")

Listen_Omitted(p) ==
  /\ pc[p] = "listen"
  /\ Goto(p, "reload")
  /\ UNCHANGED <<path, listening, peer, unread, editors, dropped, raced, server>>

Listen(p) ==
  /\ pc[p] = "listen"
  /\ Goto(p, "reload")
  /\ listening' = listening \union {p}
  /\ UNCHANGED <<path, peer, unread, editors, dropped, raced, server>>

\* run() up to the reload of the services: the server accepts from here on.
Reload(p) ==
  /\ pc[p] = "reload"
  /\ Goto(p, "serve")
  /\ UNCHANGED <<path, listening, peer, unread, editors, dropped, raced, server>>

-----------------------------------------------------------------------------
(* Handing over                                                            *)

Connected(c) ==
  peer[c] # None /\ c \in backlog[peer[c]] \union handlers[peer[c]]

Send_IgnoresErrors(c) ==
  /\ pc[c] = "client"
  /\ Goto(c, "done")
  /\ unread' = IF Connected(c) THEN unread \union {c} ELSE unread
  /\ UNCHANGED <<path, listening, peer, editors, dropped, raced, server>>

\* singleton::client_t: the write succeeds as long as the connection is open,
\* read or not; the process then exits with 0.  Otherwise it throws.
Send(c) ==
  /\ pc[c] = "client"
  /\ IF Connected(c)
     THEN Goto(c, "done") /\ unread' = unread \union {c}
     ELSE Goto(c, "failed") /\ unread' = unread
  /\ UNCHANGED <<path, listening, peer, editors, dropped, raced, server>>

\* handle_accept(): a client_handler_t per connection.
Accept(p) ==
  /\ pc[p] = "serve"
  /\ \E c \in backlog[p] :
       /\ backlog' = Take(backlog, p, c)
       /\ handlers' = Put(handlers, p, c)
  /\ UNCHANGED <<pc, path, listening, peer, unread, connecting, jobs,
                 finished, editors, dropped, raced>>

Read_Drops(p) ==
  /\ pc[p] = "serve"
  /\ \E c \in handlers[p] \intersect unread : unread' = unread \ {c}
  /\ UNCHANGED <<pc, path, listening, peer, editors, dropped, raced, server>>

\* on_client_msg(): start connecting to the editor, unless its address is
\* not understood.
Read(p) ==
  /\ pc[p] = "serve"
  /\ \E c \in handlers[p] \intersect unread :
       /\ unread' = unread \ {c}
       /\ connecting' = IF c \in Valid THEN Put(connecting, p, c) ELSE connecting
  /\ UNCHANGED <<pc, path, listening, peer, backlog, handlers, jobs, finished,
                 editors, dropped, raced>>

\* on_read_error(): the client has closed the connection.
HandlerFinished(p) ==
  /\ pc[p] = "serve"
  /\ \E c \in handlers[p] \ unread :
       /\ pc[c] \in Ended
       /\ handlers' = Take(handlers, p, c)
  /\ UNCHANGED <<pc, path, listening, peer, backlog, unread, connecting, jobs,
                 finished, editors, dropped, raced>>

\* A monitor gives up editor c: worth noting if the editor still runs.
GiveUp(c) == dropped' = dropped \union ({c} \intersect editors)

\* on_read_error() for any other error: what the client has sent, or will
\* send, is lost with the connection.
HandlerFails(p) ==
  /\ pc[p] = "serve"
  /\ \E c \in handlers[p] :
       /\ handlers' = Take(handlers, p, c)
       /\ unread' = unread \ {c}
       /\ IF c \in unread THEN GiveUp(c) ELSE dropped' = dropped
  /\ UNCHANGED <<pc, path, listening, peer, backlog, connecting, jobs, finished,
                 editors, raced>>

\* The async_connect completes: the editor gets a job, or there was an error,
\* which may be any and which is logged.
EditorConnected(p) ==
  /\ pc[p] = "serve"
  /\ \E c \in connecting[p] :
       /\ connecting' = Take(connecting, p, c)
       /\ \/ c \in editors /\ jobs' = Put(jobs, p, c) /\ dropped' = dropped
          \/ GiveUp(c) /\ jobs' = jobs
  /\ UNCHANGED <<pc, path, listening, peer, backlog, handlers, unread, finished,
                 editors, raced>>

-----------------------------------------------------------------------------
(* The end of a monitor                                                    *)

JobFinished_ChecksBeforeErase(p, c) ==
  /\ pc[p] = "serve" /\ c \in jobs[p]
  /\ jobs' = Take(jobs, p, c)
  /\ GiveUp(c)
  /\ finished' = IF jobs[p] = {} THEN finished \union {p} ELSE finished
  /\ UNCHANGED <<pc, path, listening, peer, backlog, handlers, unread,
                 connecting, editors, raced>>

\* on_client_error(): the connection to the editor is lost, for it has quit,
\* or there was an error in the session; the last job posts on_jobs_finished.
JobFinished(p, c) ==
  /\ pc[p] = "serve" /\ c \in jobs[p]
  /\ jobs' = Take(jobs, p, c)
  /\ GiveUp(c)
  /\ finished' = IF jobs'[p] = {} THEN finished \union {p} ELSE finished
  /\ UNCHANGED <<pc, path, listening, peer, backlog, handlers, unread,
                 connecting, editors, raced>>

\* on_jobs_finished() runs: monitor_t::stop() destroys every service,
\* whatever came in since it was posted.
Stop(p) == pc[p] = "serve" /\ p \in finished /\ Vanish(p, "stopped")

\* SIGINT or SIGTERM: the same stop().
Signal(p) == pc[p] = "serve" /\ Vanish(p, "stopped")

\* The process is killed, at any point, or ends by an exception that the other
\* steps do not show: of open(), listen(), an accept, or what a handler throws.
Kill(p) == pc[p] \notin {"new"} \union Ended /\ Vanish(p, "killed")

\* An editor quits.
Quit(e) ==
  /\ e \in editors
  /\ editors' = editors \ {e}
  /\ UNCHANGED <<pc, path, listening, peer, unread, dropped, raced, server>>

-----------------------------------------------------------------------------
Startup(p) == ConnectEditor(p) \/ RemoveFile(p) \/ Bind(p) \/ Listen(p) \/ Reload(p)

Serve(p) ==
  \/ Accept(p) \/ Read(p) \/ HandlerFinished(p) \/ HandlerFails(p)
  \/ EditorConnected(p) \/ (\E c \in Procs : JobFinished(p, c)) \/ Stop(p)

Next ==
  \E p \in Procs :
    \/ Probe(p) \/ ProbeFails(p)
    \/ Startup(p)
    \/ Send(p)
    \/ Serve(p)
    \/ Signal(p) \/ Kill(p) \/ Quit(p)

(* A process that has chosen its mode goes on, and the kernel delivers     *)
(* what the sockets hold.  Starting a process, signals, kills, editors     *)
(* that quit and errors of connections are the environment's choice.       *)
Fairness ==
  \A p \in Procs :
    /\ WF_vars(Startup(p))
    /\ WF_vars(Send(p))
    /\ WF_vars(Accept(p))
    /\ WF_vars(Read(p))
    /\ WF_vars(HandlerFinished(p))
    /\ WF_vars(EditorConnected(p))
    /\ WF_vars(\E c \in Procs \ editors : JobFinished(p, c))
    /\ WF_vars(Stop(p))

Spec == Init /\ [][Next]_vars

FairSpec == Spec /\ Fairness

-----------------------------------------------------------------------------
(* Properties                                                              *)

\* What process p holds of an editor: its job, or a way to it.
Holds(p) == backlog[p] \union handlers[p] \union connecting[p] \union jobs[p]

(* No editor is served, or about to be, by two processes, whatever the     *)
(* race between them: a process that handed its editor over does not serve *)
(* it too (application.cpp:117-123, singleton_client.cpp:10-32).           *)
ServedOnce ==
  \A p, q \in Procs : Holds(p) \intersect Holds(q) # {} => p = q

\* The editors that process p serves, or whose address it has: unread, or
\* with the connect under way.
Has(p) == ((backlog[p] \union handlers[p]) \intersect unread)
          \union connecting[p] \union jobs[p]

H == INSTANCE Handover
  WITH ended <- {p \in Procs : pc[p] \in Ended},
       handed <- {p \in Procs : pc[p] = "done"},
       taken <- [p \in Procs |-> Has(p)],
       served <- jobs

(* An editor is taken over as Handover says, by one process that keeps it  *)
(* until it serves it: a client that has exited with success has not lost  *)
(* its editor on the way, unless the monitor met an error that it logs     *)
(* (client.cpp:20-25, server.cpp, client_handler.cpp, neovim.cpp:30-83).   *)
HandoverSpec == H!Spec

(* At most one process runs as the monitor at a time, so that it "can      *)
(* control all the instances within a single process" (README.md:124), as  *)
(* long as no startup began within another: whatever files and processes   *)
(* earlier monitors, stopped, failed or killed at any step, left behind    *)
(* (singleton_client.cpp:10-32, server.cpp:11-15).                         *)
SingleMonitor ==
  ~ raced => \A p, q \in Procs : pc[p] \in Running /\ pc[q] \in Running => p = q

(* A monitor that is alone in its startup never fails in bind(), whatever  *)
(* files earlier monitors left behind, as long as they can be deleted: an  *)
(* error of remove() is left to Startup (server.cpp:11-15, bugs.md:1).     *)
BindSucceeds ==
  [][~ raced => \A p \in Procs : pc[p] = "bind" => pc'[p] # "failed"]_vars

(* A process that exits with success has its editor served in the end,     *)
(* unless the editor quits or its address is unusable, the monitor that    *)
(* took the connection goes away, or meets an error that it logs           *)
(* (client.cpp:20-25, client_handler.cpp:19-28, neovim.cpp:30-83).         *)
HandedOver ==
  \A c \in Procs :
    pc[c] = "done" ~> \/ c \notin (editors \intersect Valid) \ dropped
                      \/ \E m \in Procs : /\ peer[c] = m
                                          /\ c \in jobs[m] \/ pc[m] \in Ended

(* A monitor whose editors have all quit ends: no monitor lingers on       *)
(* (neovim.cpp:59-62, monitor.cpp:102-105).                                *)
MonitorEnds ==
  \A p \in Procs :
    (pc[p] = "serve" /\ editors = {}) ~> pc[p] \in Ended

=============================================================================
