--------------------------- MODULE MonitorProcess ---------------------------
(***************************************************************************)
(* The life of one monitor process: mode::monitor_t (mode/monitor.cpp) with*)
(* its two threads, the io_context between them, the inventory of services *)
(* (util/inventory.cpp) and the handlers of the services that decide when  *)
(* it ends (service/neovim.cpp, singleton/server.cpp).                     *)
(*                                                                         *)
(* The io_context is a FIFO of handlers run by one thread.  An operation   *)
(* that was started waits in ops until the kernel completes it; its        *)
(* handler is then appended to the queue.  post() appends directly.  A     *)
(* destroyed object's operations leave ops, and a handler of its that was  *)
(* queued already runs as a no-op: this is what callback_wrapper_t is for. *)
(* Theme changes, which are posted too, change nothing here.               *)
(*                                                                         *)
(* The notifier (libdarknotify) is an external library: run() blocks the   *)
(* main thread until stop().  Whether a stop() that comes before run() is  *)
(* remembered is not known from this repository; it is a constant here.    *)
(*                                                                         *)
(* A definition named D_Something, placed before D, is a faulty variant of *)
(* D that no specification uses: the README says which property rejects it.*)
(***************************************************************************)
EXTENDS Integers, Sequences

CONSTANTS
  Clients,      \* the editors
  First,        \* the one whose socket the process was started with
  StopSticky    \* a stop() of the notifier before its run() ends that run()

ASSUME MonitorAssumption == First \in Clients /\ StopSticky \in BOOLEAN

VARIABLES
  main,         \* what the main thread does next
  io,           \* the io thread
  notifier,     \* the notifier
  stopped,      \* io_context::stop() was called
  queue,        \* handlers ready to run
  ops,          \* asynchronous operations in progress
  active,       \* inventory_t::active()
  jobs,         \* neovim_t::clients_
  arrived,      \* the editors that have been announced to the process
  trouble,      \* what has gone wrong: see Troubles
  exit_code     \* exit code of the process, -1 while it runs

vars == <<main, io, notifier, stopped, queue, ops, active, jobs, arrived,
          trouble, exit_code>>

threads == <<main, notifier, exit_code>>
services == <<ops, active, jobs, arrived>>

\* The operations: a read on an editor's socket, the wait for a signal, an
\* accept, the read of a singleton client's message, a connect to an editor.
ClientKinds == {"read", "accept", "message", "connect"}
Operation == [kind : ClientKinds \union {"signal"}, who : Clients]
\* "warned": monitor_t::stop() found the inventory inactive; "threw": an
\* exception left io_.run().
Troubles == {"warned", "threw"}
PostedKinds == {"reload", "finished", "stopped"}

\* What is not about an editor of its own carries First.
Op(kind, who) == [kind |-> kind, who |-> who]
Handler(kind, who, ok) == [kind |-> kind, who |-> who, ok |-> ok]
Posted(kind) == Handler(kind, First, TRUE)

TypeOK ==
  /\ main \in {"spawn", "signals", "post", "register", "run", "running",
               "wait", "unwinding", "exited"}
  /\ io \in {"none", "run", "left", "over", "aborted"}
  /\ notifier \in {"idle", "running", "stopped"}
  /\ stopped \in BOOLEAN
  /\ queue \in Seq([kind : ClientKinds \union {"signal"} \union PostedKinds,
                    who : Clients, ok : BOOLEAN])
  /\ ops \in SUBSET {o \in Operation : o.kind = "read" => o.who \in jobs}
  /\ active \in BOOLEAN
  /\ jobs \in SUBSET Clients
  /\ arrived \in SUBSET Clients
  /\ trouble \in SUBSET Troubles
  /\ exit_code \in {-1, 0, 124}

\* The constructor of monitor_t has run: the services exist and the reader of
\* the first client has started.
Init ==
  /\ main = "spawn"
  /\ io = "none"
  /\ notifier = "idle"
  /\ stopped = FALSE
  /\ queue = <<>>
  /\ ops = {Op("read", First)}
  /\ active = TRUE
  /\ jobs = {First}
  /\ arrived = {First}
  /\ trouble = {}
  /\ exit_code = -1

-----------------------------------------------------------------------------
(* The main thread: monitor_t::run()                                       *)

MainAt(label, next) == main = label /\ main' = next

Spawn ==
  /\ MainAt("spawn", "signals") /\ io = "none" /\ io' = "run"
  /\ UNCHANGED <<notifier, stopped, queue, services, trouble, exit_code>>

AwaitSignals ==
  /\ MainAt("signals", "post")
  /\ ops' = ops \union {Op("signal", First)}
  /\ UNCHANGED <<io, notifier, stopped, queue, active, jobs, arrived, trouble,
                 exit_code>>

PostReload ==
  /\ MainAt("post", "register")
  /\ queue' = Append(queue, Posted("reload"))
  /\ UNCHANGED <<io, notifier, stopped, services, trouble, exit_code>>

Register ==
  /\ MainAt("register", "run")
  /\ UNCHANGED <<io, notifier, stopped, queue, services, trouble, exit_code>>

\* notifier_->run() is entered, and left at once after a remembered stop().
RunNotifier ==
  /\ MainAt("run", "running")
  /\ notifier' = IF notifier = "stopped" THEN "stopped" ELSE "running"
  /\ UNCHANGED <<io, stopped, queue, services, trouble, exit_code>>

NotifierReturns ==
  /\ MainAt("running", "wait") /\ notifier = "stopped"
  /\ UNCHANGED <<io, notifier, stopped, queue, services, trouble, exit_code>>

\* io_fut.wait() ends with the io thread; nothing looks at what it threw, and
\* main() returns what run() returns.  After an exception of its own the main
\* thread waits all the same, in the future's destructor, and main() reports.
Exit ==
  /\ main \in {"wait", "unwinding"} /\ main' = "exited" /\ io = "over"
  /\ exit_code' = IF main = "wait" THEN 0 ELSE 124
  /\ UNCHANGED <<io, notifier, stopped, queue, services, trouble>>

\* The thread cannot be started.
SpawnThrows ==
  /\ MainAt("spawn", "exited") /\ io = "none" /\ exit_code' = 124
  /\ UNCHANGED <<io, notifier, stopped, queue, services, trouble>>

\* signal_set_.add(), register_callback() or the notifier's run() throws.
SetupThrows ==
  /\ main \in {"signals", "register", "running"} /\ main' = "unwinding"
  /\ notifier' = IF notifier = "running" THEN "idle" ELSE notifier
  /\ UNCHANGED <<io, stopped, queue, services, trouble, exit_code>>

MainThrows == io # "aborted" /\ (SpawnThrows \/ SetupThrows)

-----------------------------------------------------------------------------
(* The kernel: an operation in progress completes                          *)

\* What an operation can end with.  A read ends when the editor is gone or has
\* sent what its reader does not take, a message carries an address that
\* make_endpoint understands or not.
Outcomes(o) ==
  CASE o.kind = "accept" -> {Handler("accept", First, FALSE)} \union
                            {Handler("accept", c, TRUE) : c \in Clients \ arrived}
    [] o.kind \in {"message", "connect"} -> {Handler(o.kind, o.who, ok) : ok \in BOOLEAN}
    [] OTHER -> {Handler(o.kind, o.who, TRUE)}

Complete(o) ==
  /\ o \in ops /\ exit_code = -1 /\ io # "aborted"
  /\ \E h \in Outcomes(o) :
       /\ queue' = Append(queue, h)
       /\ arrived' = IF h.kind = "accept" THEN arrived \union {h.who} ELSE arrived
  /\ ops' = ops \ {o}
  /\ UNCHANGED <<threads, io, stopped, active, jobs, trouble>>

-----------------------------------------------------------------------------
(* The io thread: one handler at a time                                    *)

\* The handler h at the head of the queue runs.
Runs(kind, h) ==
  /\ io = "run" /\ ~ stopped
  /\ queue # <<>> /\ h = Head(queue) /\ h.kind = kind

Rest(posted) == queue' = Tail(queue) \o posted

\* inventory_t::reload() and the first reload of the services: the server
\* accepts, the clients are greeted.  assert(active()) aborts otherwise.
HandleReload ==
  \E h \in {Posted("reload")} :
    /\ Runs("reload", h)
    /\ Rest(<<>>)
    /\ IF active THEN ops' = ops \union {Op("accept", First)} /\ io' = io
                 ELSE io' = "aborted" /\ ops' = ops
    /\ UNCHANGED <<threads, stopped, active, jobs, arrived, trouble>>

\* An exception of a handler leaves io_.run().
Throws == io' = "left" /\ trouble' = trouble \union {"threw"}

\* server_t::handle_accept(), wrapped.
HandleAccept ==
  \E c \in Clients, ok \in BOOLEAN :
    /\ Runs("accept", Handler("accept", c, ok))
    /\ Rest(<<>>)
    /\ IF ~ active THEN UNCHANGED <<ops, io, trouble>>
       ELSE IF ok THEN /\ ops' = ops \union {Op("message", c), Op("accept", First)}
                       /\ UNCHANGED <<io, trouble>>
       ELSE Throws /\ ops' = ops
    /\ UNCHANGED <<threads, stopped, active, jobs, arrived>>

\* client_handler_t's reader, wrapped: neovim_t::on_client_msg().  An address
\* that is not understood is logged; what is no string, or no message at all,
\* or a path too long for a socket, throws.  What the client_handler_t does
\* after its one message ends nothing but itself.
HandleMessage ==
  \E c \in Clients, ok \in BOOLEAN :
    /\ Runs("message", Handler("message", c, ok))
    /\ Rest(<<>>)
    /\ ops' = IF active /\ ok THEN ops \union {Op("connect", c)} ELSE ops
    /\ \/ UNCHANGED <<io, trouble>>
       \/ active /\ ~ ok /\ Throws
    /\ UNCHANGED <<threads, stopped, active, jobs, arrived>>

HandleConnect_Unread ==
  \E c \in Clients, ok \in BOOLEAN :
    /\ Runs("connect", Handler("connect", c, ok))
    /\ Rest(<<>>)
    /\ jobs' = IF active /\ ok THEN jobs \union {c} ELSE jobs
    /\ UNCHANGED <<threads, io, stopped, ops, active, arrived, trouble>>

HandleConnect_Unwrapped ==
  \E c \in Clients, ok \in BOOLEAN :
    /\ Runs("connect", Handler("connect", c, ok))
    /\ Rest(<<>>)
    /\ jobs' = IF ok THEN jobs \union {c} ELSE jobs
    /\ ops' = IF ok THEN ops \union {Op("read", c)} ELSE ops
    /\ UNCHANGED <<threads, io, stopped, active, arrived, trouble>>

\* The completion of on_client_msg()'s async_connect, wrapped.
HandleConnect ==
  \E c \in Clients, ok \in BOOLEAN :
    /\ Runs("connect", Handler("connect", c, ok))
    /\ Rest(<<>>)
    /\ jobs' = IF active /\ ok THEN jobs \union {c} ELSE jobs
    /\ ops' = IF active /\ ok THEN ops \union {Op("read", c)} ELSE ops
    /\ UNCHANGED <<threads, io, stopped, active, arrived, trouble>>

\* The last job to finish posts on_jobs_finished: job_remove_t::job_finished,
\* neovim_t::on_jobs_finished.
PostIfEmpty(js) == IF js = {} THEN <<Posted("finished")>> ELSE <<>>

\* read_t's handler after the connection was lost, wrapped: the job goes.
HandleLost ==
  \E c \in Clients, ok \in BOOLEAN :
    /\ Runs("read", Handler("read", c, ok))
    /\ IF active THEN jobs' = jobs \ {c} /\ Rest(PostIfEmpty(jobs'))
                 ELSE jobs' = jobs /\ Rest(<<>>)
    /\ UNCHANGED <<threads, io, stopped, ops, active, arrived, trouble>>

\* What came from the editor is no message, and unpacker_.next() throws, or its
\* response has another type than its request, and the callback does.
HandleBadMessage ==
  \E c \in Clients :
    /\ Runs("read", Handler("read", c, TRUE)) /\ active
    /\ Rest(<<>>)
    /\ Throws
    /\ UNCHANGED <<threads, stopped, services>>

StopInventory_LeaksReads ==
  /\ active' = FALSE
  /\ jobs' = {}
  /\ ops' = {o \in ops : o.kind \notin {"accept", "message"}}
  /\ Rest(<<Posted("stopped")>>)
  /\ trouble' = trouble

\* inventory_t::stop(): no service of this program is a stoppable one, so all
\* of them are destroyed here, and the callback is posted.
StopInventory ==
  /\ active' = FALSE
  /\ jobs' = {}
  /\ ops' = {o \in ops : o.kind \notin ClientKinds}
  /\ Rest(<<Posted("stopped")>>)
  /\ trouble' = trouble

\* monitor_t::stop(), the end of handle_signal() and of on_jobs_finished().
HandleStop(kind) ==
  \E h \in {Handler(kind, First, TRUE)} :
    /\ Runs(kind, h)
    /\ \/ active /\ StopInventory
       \/ /\ ~ active
          /\ trouble' = trouble \union {"warned"}
          /\ Rest(<<>>)
          /\ UNCHANGED <<active, jobs, ops>>
    /\ UNCHANGED <<threads, io, stopped, arrived>>

\* notifier_->stop() ends the run() in progress, or, if the library remembers
\* it, the next one.
StopNotifier ==
  notifier' = IF notifier = "running" \/ StopSticky THEN "stopped" ELSE notifier

HandleStopped_KeepsContext ==
  \E h \in {Posted("stopped")} :
    /\ Runs("stopped", h)
    /\ Rest(<<>>)
    /\ StopNotifier
    /\ UNCHANGED <<main, exit_code, io, stopped, services, trouble>>

\* The callback of the inventory's stop.
HandleStopped ==
  \E h \in {Posted("stopped")} :
    /\ Runs("stopped", h)
    /\ Rest(<<>>)
    /\ StopNotifier
    /\ stopped' = TRUE
    /\ UNCHANGED <<main, exit_code, io, services, trouble>>

\* io_.run() returns: stopped, or out of work.
LeaveRun ==
  /\ io = "run"
  /\ stopped \/ (queue = <<>> /\ ops = {})
  /\ io' = "left"
  /\ UNCHANGED <<threads, stopped, queue, services, trouble>>

GuardStops_Missing ==
  /\ io = "left" /\ io' = "over"
  /\ UNCHANGED <<main, notifier, exit_code, stopped, queue, services, trouble>>

\* ~scoped_notifier_stopper_t(), however io_.run() was left.
GuardStops ==
  /\ io = "left" /\ io' = "over"
  /\ StopNotifier
  /\ UNCHANGED <<main, exit_code, stopped, queue, services, trouble>>

-----------------------------------------------------------------------------
MainThread ==
  /\ io # "aborted"
  /\ \/ Spawn \/ AwaitSignals \/ PostReload \/ Register
     \/ RunNotifier \/ NotifierReturns \/ Exit

IoThread ==
  \/ HandleReload \/ HandleAccept \/ HandleMessage \/ HandleConnect
  \/ HandleLost \/ HandleBadMessage \/ HandleStop("signal") \/ HandleStop("finished")
  \/ HandleStopped \/ LeaveRun \/ GuardStops

Kernel == \E o \in Operation : Complete(o)

Next == MainThread \/ MainThrows \/ IoThread \/ Kernel

(* Both threads run.  Nothing makes an editor quit, announce itself or the *)
(* user send a signal, a connect may stay in progress, and nothing has to  *)
(* throw on the main thread.                                               *)
Fairness == WF_vars(MainThread) /\ WF_vars(IoThread)

Spec == Init /\ [][Next]_vars

FairSpec == Spec /\ Fairness

-----------------------------------------------------------------------------
(* Properties                                                              *)

Over == exit_code # -1 \/ io = "aborted"

(* Once the inventory stops, no service is left working: no editor has a   *)
(* job and no operation of theirs is in progress, whatever handlers were   *)
(* in the queue at that time (inventory.cpp:20-24, callback_wrapper.hpp).  *)
SettledAfterStop ==
  ~ active => jobs = {} /\ \A o \in ops : o.kind \notin ClientKinds

Queued == 1 .. Len(queue)

\* The io thread runs handlers, or will: nothing has stopped it or thrown.
AtWork == io \in {"none", "run"} /\ ~ stopped

(* The end of the process is under way from its start, and is never lost   *)
(* while editors come and go.  While the io thread is at work, an active   *)
(* inventory has an editor, and every editor's reader, which notices its   *)
(* end, is waiting or about to run, or else the end of the last job is in  *)
(* the queue; after a stop, its callback is (neovim.cpp:30-62,             *)
(* job.hpp:84-95, monitor.cpp:102-129).                                    *)
EndUnderWay ==
  AtWork =>
    IF active
    THEN /\ jobs # {} \/ \E i \in Queued : queue[i].kind = "finished"
         /\ \A c \in jobs : \/ Op("read", c) \in ops
                            \/ \E i \in Queued : queue[i] = Handler("read", c, TRUE)
    ELSE \E i \in Queued : queue[i].kind = "stopped"

(* The process ends once its io thread has left run(), in whatever state   *)
(* the main thread was then, if the notifier remembers a stop() that comes *)
(* before its run(): StopSticky (monitor.cpp:49-53, 73-76, 91-93).         *)
ExitFollows == io = "left" ~> Over

(* A monitor whose last editor is gone, or that was told to stop, ends:    *)
(* the chain of posted handlers is never cut (monitor.cpp:102-129).        *)
StopCompletes ==
  (io = "run" /\ ~ stopped /\ \E i \in Queued :
                                queue[i].kind \in {"signal", "finished"}) ~> Over

(* reload() finds the inventory active (inventory.cpp:15: the assertion).  *)
ReloadIsActive == io # "aborted"

(* on_jobs_finished() runs when "All neovim jobs were finished"            *)
(* (monitor.cpp:103): no editor has a job then.                            *)
FinishedMeansEmpty ==
  [][queue # <<>> /\ Head(queue).kind = "finished" /\ active /\ ~ active'
       => jobs = {}]_vars

(* An error that ends the io thread is reported in the exit code, as       *)
(* main() does for an error of the main thread (main.cpp:13-15,            *)
(* error.hpp:5).                                                           *)
ErrorsReported == exit_code # -1 /\ "threw" \in trouble => exit_code # 0

=============================================================================
