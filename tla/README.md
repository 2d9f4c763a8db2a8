# neovim-dark-monitor: a TLA+ model

`neovim-dark-monitor` is started by every editor. One of the processes becomes
the *monitor*: it watches the theme of the operating system through
libdarknotify and tells every editor about it over msgpack-RPC. The other
processes hand the address of their editor to the monitor and exit.

These modules model the whole program but its wording: the start of a process,
the race for being the monitor and the handing over, the two threads of the
monitor and its end, the session with an editor, the queue of messages on its
socket, one message of any form, and the way of the theme to the editors. TLC
checks them on small instances; TLAPS proves the main safety properties for every
value of the constants. Paths below are relative to `src/monitor/` of the
repository unless they start with `src/`.

## 1. Inventory

| component | state | operations | uses |
|---|---|---|---|
| `application_t`, `main` | the mode | `run`: choose the mode; exit codes | both modes |
| `mode::singleton_client_t`, `singleton::client_t` | the socket, the message | `try_client_mode`, `run` | `singleton::server_t` of another process |
| `singleton::server_t`, `client_handler_t`, `service::singleton_t` | the acceptor, the accepted connections | construct (remove, bind, listen), `start`, `handle_accept`, message, read error | `neovim_t::on_client_msg` |
| `mode::monitor_t` | `io_context`, notifier, signals, inventory | `run` on two threads, `handle_signal`, `on_jobs_finished`, `stop`, `query` | all services |
| `util::inventory_t` | the services, or the stop in progress | `active`, `reload`, `stop` | the services |
| `service::neovim_t`, `util::job_storage_t` | one job per editor | `reload`, `on_client_msg`, `on_client_error`, `on_jobs_finished` | `rpc::client_t`, `monitor_t` |
| `rpc::client_t`, `dispatcher_t`, `read_t`, `make_message` | `msgid_`, `request_cbs_`, the unpacker | `send_request`, `handle_read`, `on_request`, `on_response`, errors | `write_t`, `request_handler_t` |
| `rpc::write_t` | `buffer_queue_` | `write`, `process_queue`, `handle_write` | the socket |
| `service::request_handler_t` | the query | `on_new_client` and the chain of the initialisation, `on_request` | `rpc::client_t` |
| `service::monitor_t` | the list of clients | `on_appearance` | `rpc::client_t` |
| `util::callback_wrapper_t` | `cancelled_` | `wrap`, `cancel` | everything that starts an operation |
| `util::asio::make_endpoint`, errors, user id, protocol types | none | pure functions | |

How they interact. All services run on one io thread, in handlers that run one
at a time; the main thread starts that thread, sets up signals and blocks in the
notifier, whose callback posts to the io thread. Objects are destroyed from
within handlers, so a handler may find its object gone: `wrap()` makes it a
no-op, and what is posted without `wrap()` has to be safe by itself. Processes
interact through a socket file in the runtime directory.

What is hard: the steps between probing the socket and listening on it are not
atomic; the io thread runs before the main thread has finished setting up;
`stop` is a chain of posted handlers with several causes; posted handlers act on
what was true when they were posted; the read loop may destroy its own object;
the chain of writes keeps itself going; editors block in queries; the theme
changes while editors come, ask and go; an exception of one editor's handler
ends the io thread for all. `PROJECT.json` lists each hazard with its line and
the properties that cover it.

What makes each component correct:

- start: a failure at any step leaves the socket of a monitor that listens alone
  and has its exit code; an address is understood as the host and port it spells;
- election: no editor served twice, none lost without an error that is logged;
  startups that do not overlap leave one monitor; old socket files are harmless;
  nobody lingers without editors;
- monitor process: nothing survives the stop, the process always ends when it
  should, and an error is reported;
- inventory: no service outlives one that it uses, and a stop is reported once;
- theme: the last word every editor gets is the current theme, an answer is never
  older than what was told before, and editors that stay come to show the theme;
- session: every response finds its request, the initialisation runs in order
  and to its end, no query blocks for ever, nothing uses a destroyed client;
- message: what reaches a handler was read in full, and no response is lost;
- writer: one asynchronous write at a time, whole messages in order, no stall.

## 2. Modules

| module | models | proofs |
|---|---|---|
| `FrameFifo` | what the writer promises: a FIFO of frames sent in pieces | |
| `RpcWriter` | `rpc/write.hpp` | `RpcWriterProofs` |
| `Endpoint`, `Startup` | `util/asio/endpoint.cpp`; one process from `main()` to its mode: `application.cpp`, `main.cpp`, `util/error.hpp` | `StartupProofs` |
| `Handover` | what the processes promise the editors: each is taken over by one process, which serves it unless it records why not | |
| `Singleton` | the processes of all editors: `application.cpp`, `singleton/`, `mode/singleton_client.cpp`, what `monitor.cpp` and `neovim.cpp` contribute | `SingletonProofs` |
| `MonitorProcess` | one monitor: `mode/monitor.cpp`, `util/inventory.cpp`, the handlers that decide its life | `MonitorProcessProofs` |
| `Teardown` | what the stop of an inventory promises | |
| `InventoryStop` | `util/inventory.cpp` over any list of services | `InventoryStopProofs` |
| `ThemeSync` | the theme: `mode/monitor.cpp`, `service/monitor.cpp`, `service/request_handler.cpp`, `service/neovim.cpp`, `util/job.hpp` | `ThemeSyncProofs` |
| `NvimSession` | one session: `rpc/client.cpp`, `dispatcher.cpp`, `read.hpp`, `request_handler.cpp`, `service/monitor.cpp` | `NvimSessionProofs` |
| `RpcMessage` | one message: `rpc/message.cpp`, `dispatcher.cpp`, `client.cpp`, `neovim/send.hpp` | `RpcMessageProofs` |

The modules are levels of one system. `Startup` is one process until it has its
mode, with every failure; `Singleton` takes the steps that matter to others and
interleaves them for many processes. It sees the handlers of a monitor as actions
that may come in any order; `MonitorProcess` opens one of these processes and
gives the handlers their queue and the two threads, and `InventoryStop` opens the
stop that is one step there. `ThemeSync` is the same process seen from the theme,
with several editors and without its end. `NvimSession` opens one job of it,
`RpcMessage` one message of a session; `RpcWriter` opens the stream that
`NvimSession` and `ThemeSync` take to be a FIFO (`outbox`, `wire`), which the
refinement of `FrameFifo` justifies.

A definition `D_Something` that stands before `D` is a faulty variant of `D`,
used by no specification. Putting it in place of `D` makes a run fail; the pairs
are in `PROJECT.json` under "mutants" and show that each property can fail.

### RpcWriter

`write()` never stores whether a chain of writes is running; it concludes it from
`buffer_queue_.size() == 1`. The model keeps what can be in flight as three
collections: posted `process_queue` handlers, asynchronous writes, and completed
ones whose handler has not run. `async_write` is a composed operation, so a buffer
crosses the socket in `Chunks` pieces; two operations at once would mix them.
`process_queue` appears as an action (the posted handler) and as `StartWrite`
inside `HandleWriteDone`, as in the code, where `handle_write` calls it directly.
A write error erases the job that owns the writer, and `Destroy` is every other
reason for that. Its assertion that the queue is not empty is implied by
`BufferPinned`.

### Singleton

One action per system call of the startup (`Probe`, `ConnectEditor`, `RemoveFile`,
`Bind`, `Listen`), because other processes and crashes come between any two of
them, and one per handler of the monitor. `path` is the process that bound the
socket file; nothing but `RemoveFile` deletes it. A connect succeeds when the
process behind the file listens. A connection is in the backlog, then in
`handlers`; its message is in `unread`; the editor is in `connecting`, then in
`jobs`. `Vanish` is what the kernel does when a process ends in whatever way.
`raced` remembers that a startup began within another one while a monitor of that
race may still run: two processes that start together do become two monitors, and
the second one takes the file of the first. The code has no lock against that, so
`SingleMonitor` and `BindSucceeds` say what holds without a race, and
`ServedOnce` what holds in every race.

Connections may fail at any time: the probe, the connect to the process's own
editor, a client's connection to the monitor (`HandlerFails`, and `Send` of a
client whose connection is gone), the connect to an editor that was handed over
(`EditorConnected`), and a session, by a write error or a message that does not
belong there (`JobFinished` of an editor that still runs). The monitor logs these
errors and forgets the editor; nobody tries again. The history variable `dropped`
collects the editors that are lost so, and is what tells these errors from
anything that would lose an editor unnoticed. The error of `remove()`, which the
code ignores, is left to `Startup`; so `BindSucceeds` is about files that can be
deleted.

`Handover` knows nothing of sockets: a process takes its own editor or hands it
over, once, to a process that has not ended, and whoever has taken an editor lets
it go only when the editor has quit or has no usable address (`LetGo`), for an
error that it records (`GiveUp`), or with its own end (`End`). The refinement takes an editor to be `taken` by the process that `Has` it: its message
is unread in a connection of that process, its connect is under way, or it has a
job. A client is `handed` when it has exited with success.

### MonitorProcess

The `io_context` is a FIFO (`queue`) run by one thread, plus the operations in
progress (`ops`). `post` appends; `Complete` moves an operation into the queue.
Stopping the inventory destroys the services, which cancels their operations;
their handlers that are in the queue already find `active` false, and do nothing
because they are wrapped. `on_jobs_finished` and the callback of the stop are
posted unwrapped, as in the code. The main thread is the sequence of the steps
of `monitor_t::run()`. Exceptions leave `io_.run()` (`Throws`: a failed accept, a
message that is no string, bytes that are no msgpack, a result of another type)
or the main thread (`MainThrows`), which then waits in the destructor of the
future and ends with 124.

libdarknotify is not part of the repository. `run()` is modelled as blocking until
`stop()`; `StopSticky` says whether a `stop()` before `run()` is remembered. The
code needs that: `ExitFollows` is checked with `StopSticky = TRUE` and fails with
`FALSE`, because the io thread may stop the notifier before the main thread has
started it. Assertions are active in the builds that `src/meson.build` describes
(`b_ndebug` keeps its default), so a failed one is the state "aborted".

### NvimSession

The read handler is split into the iterations of its loop (`LoopNext`); no other
handler runs between them, so that what one message does to the client is seen
by the next iteration. A response's callback leaves the map and is posted, then
runs as `HandleCallback`. `misuse` records the use of an object that is gone, and
what such a use does is not modelled further: undefined behaviour.

The editor executes requests in the order they arrive. Its callback of the
`OnDarkMonitorConnected` autocommand calls `DarkMonitorQuery()`, as the README of
the repository suggests, and is blocked until the answer, while other requests
are executed. `MaxFaults` lets the peer send what the client has code for but no
editor sends: malformed messages (including a request whose parameters are no
array), notifications, unknown methods, responses that nobody asked for.

What a read takes from the socket is in the buffer of the unpacker (`unpacker_`) from
then on, also while its handler waits in the queue.

Ids are `uint32_t`; `IdCount` stands for 2^32. When an id comes round while its
request is unanswered, which `rpc/client.cpp:18` calls almost impossible, the
assertion fails and the process is gone (`aborted`).

### ThemeSync

A theme is the number of changes before it, so that "late" and "current" can be
told apart; the program only passes themes on. The queue of the io thread holds
reloads, connections, broadcasts, queries and losses, in the order they were
posted. The initialisation of an editor is one step, `ChainEnds`.

libdarknotify is external, and so is what it does with a change that comes before
`run()`: `NotifierListens` is the moment, somewhere before `run()`, from which on
it keeps every change for the callback. A change before that may leave an editor
behind that has asked already: these are in `missed` until they ask again or the
next change is kept. The editor is external too, with the configuration that
src/README.md:97-112 gives: it asks when `OnDarkMonitorConnected` comes and sets
what it is told; it executes requests in order, and an answer is applied when it
arrives, ahead of the requests that wait. What is sent to an editor that has quit
is lost. Queries do not nest, and `notifier_->query()` does not throw. The end of
the monitor is left to `MonitorProcess`.

### InventoryStop

A service is its place in the list. The list is reversed and taken apart by
`StopStep` up to the next stoppable service, whose stop is external and calls back
from within (`CallBack` at "service") or later (at "later"). No service of this
program is stoppable, so the program itself uses the one-step case, which
`MonitorProcess` has; the class is written for any list, and the model checks it
for any. `Teardown` keeps of all this the number of living services.

### RpcMessage

One message, chosen freely: no array, or an array of up to `MaxItems` items.
msgpack converts field by field, ignores items that are left over and leaves the
fields of a short array as they were. `msgid` is never initialised, so a short
request or response has an id that may be anything ("unread"). `OnRequest` keeps
such requests out because it wants an array in the fourth field; a short response
may be taken for the answer to an outstanding request, and the model has that.

### Endpoint and Startup

`Endpoint` reads an address of tokens: slash, colon, two digits, a host, a letter.
`FromChars` stops at the first token that is no digit, as `std::from_chars` does,
and what follows is not looked at; `AddressIsRead` says so. `Startup` has one
action per function of `application.cpp` that can fail and one per step of the
constructor of `server_t`, and maps every error to the exit code that `main()`
gives it. `remove()` comes before `open()`, `bind()` and `listen()`: a process that
fails in one of these has deleted what was there, and after `bind()` leaves a file
of its own behind that nobody listens on. `FileIsKept` says which file that can
cost: never one behind which somebody listened at the probe. Inputs are chosen
when they are read.

## 3. Runs

| run | what it asks | bounds |
|---|---|---|
| `writer` | the chain, the buffers, the refinement of the FIFO, no stall | 4 messages, 3 pieces |
| `election` | nobody served twice, the refinement of `Handover`, handing over, one monitor, old files, no lingering monitor | 3 processes, one with an unusable address, any race, kills at every step, errors of every connection |
| `process` | the stop, the chain of handlers that ends the process, both threads, exceptions on both | 3 editors |
| `session` | ids, the initialisation, no query or answer lost | 2 ids, which come round with the third request; 1 theme change, 1 fault |
| `theme` | no lost update, fresh answers, convergence | 2 editors, 2 changes, 1 query besides those of `OnDarkMonitorConnected` |
| `inventory_stop` | the order of the teardown, the refinement of `Teardown`, the report | 6 services, any of them stoppable |
| `startup` | the socket file, exit code 0 only for what was done, the reading of addresses | addresses of up to 6 tokens, paths up to 4, ports up to 90 |
| `decode` | whole requests, delivered responses, what ends the io thread | arrays of up to 5 items of 9 kinds |
| `process_reload`, `process_stale_finish`, `process_exit_code` | three statements of the code about itself: violated | 3 editors |
| `session_callback` | use of a destroyed client: violated | 5 ids, 1 theme change, no fault |

Why the bounds are enough. Four messages show the writer the empty queue, the
queue of one, and queues that shrink and grow while a write is in progress;
three pieces have a first, a middle and a last. Three processes are a monitor, a
rival and a client, or two clients and a monitor that crashes; a fourth takes one
of these parts. Three editors are one that goes, one that comes and one whose
connection fails. Two ids make the third request meet
the first one, answered or not, which 2^32 ids do after as many requests. One session is independent of the others but for the order of
the handlers, which is free in the model where they are independent. Two themes
after the first are one that a message carries and one that overtakes it; two
editors are one that was there and one that joins meanwhile. Six services have
stoppable ones first, last, adjacent and apart. Six tokens hold a host with two
colons of its own, the colon before the port, and a port of two digits, too great
or with something after it; five items are one more than the longest message has.

Deadlock is not checked (`CHECK_DEADLOCK FALSE`) because all these systems may
stop: the messages are written, the processes have ended, the session is closed.

Fairness. `RpcWriter`: the io thread runs what is in its queue and the kernel
makes progress on a socket that is open. `Singleton`: a process that has chosen
its mode goes on, and the monitor handles what its sockets hold; a session is certain
to end only when its editor has quit, and no error has to happen. `MonitorProcess`:
both threads run; an operation may stay in progress for ever, and nothing has to
throw on the main thread. `NvimSession`: the io thread runs, reads complete, and
an editor that runs executes what it is sent. `ThemeSync`: the same, and the
notifier gets ready. `InventoryStop`: the io thread runs, and a stoppable service
calls back in the end, which is what its interface asks. Nowhere does an editor
have to start, quit or ask, no signal has to come, and no theme has to change.
`Startup` and `RpcMessage` state no liveness and no fairness.

## 4. What the runs found

The violation runs check a statement that a comment, a log line or an assertion
makes of the program. TLC refutes each:

- *Reload of a stopped inventory* (`ReloadIsActive`, `util/inventory.cpp:15`). The
  signal wait and the first reader run before the reload is posted.
- *Finished but not empty* (`FinishedMeansEmpty`, `mode/monitor.cpp:103`). An editor
  that connects after the last one went is dropped, although its process has
  reported success.
- *Lost exit code* (`ErrorsReported`, `util/error.hpp:5`). `io_fut.wait()` does not
  rethrow; a bad message or a failed accept ends the monitor with exit code 0.
- *Callback after the client* (`CallbackFindsClient`, `util/job.hpp:85`). The chain
  of the initialisation keeps `rpc::client_t &` in callbacks posted unwrapped.

Seen while modelling, without a run of their own: two processes that start
together both become monitors (`raced` in `Singleton`); a signal and the end of
the last editor call `stop()` twice, which `mode/monitor.cpp:120` says should never
happen and which is harmless (`HandleStop`); `handle_read` goes on in the loop of
a reader that a message has destroyed (`LoopAfterErase` in `NvimSession`); a theme
change while an editor is being initialised reaches it before
`OnDarkMonitorConnected`, the other way round than src/README.md:39-40 has it.

## 5. Proofs

Each proof module states an inductive invariant (`IInv`, or `IndInv`), proves that
`Init` implies it and that every step keeps it, and derives the theorems from it.

- `RpcWriterProofs`: a case distinction over the link of the chain at work (none,
  posted, writing, completed), with the relation between the queue, the numbers
  of the messages and the last piece on the wire. `OneLink` alone is not
  inductive: it does not say which buffer the operation in progress reads, and
  `BufferPinned` does not say which message is next on the wire. Proved:
  `TypeOK`, `OneLink`, `BufferPinned`, and that `RpcWriter` implements `FrameFifo`.
- `SingletonProofs`: the holder of an editor is its own process or the peer its
  client is connected to (`Traced`); a process that has not probed is nowhere; a
  process that starts a monitor has no peer. `ServedOnce` follows, for any race.
  A second invariant, `Solo`, says what holds as long as `raced` is false: one
  process at most is starting or running, and it is the one the socket file
  belongs to as soon as it listens. `SingleMonitor` and `BindSucceeds` follow.
  A third, `Placed`, says how far the way of an editor has come: its message is
  unread, or its connect is under way, or it has a job, one of these at most, and
  unless it is the process's own only after its client has exited with success.
  With it every step is a step of `Handover` or none (`ImplementsHandover`).
  `Occupied` (a monitor has its own editor until it serves; then it has an
  editor, or its end is posted) gives `NobodyLingers`. No assumption about
  crashes or the number of processes is made.
- `MonitorProcessProofs`: one operation or handler at a time has an editor in its
  hands (`OneHolder`), without which a late reader could belong to an editor
  without a job; and as long as the io thread is at work (`AtWork`) something that
  will end the process is under way (`EndUnderWay`): every job has its reader in
  progress or queued, without jobs the end of the last one is queued, and after
  the stop its callback is. `SettledAfterStop` is inductive with these. `StopSticky`
  plays no part in any of it.
- `InventoryStopProofs`: the list is 1 .. N or, once stopping, N .. 1 cut off in
  front, and the head of it is the stoppable service that is waited for. From
  that, `DependentsFirst`, and that every step is a step of `Teardown` or none. A
  stop that has not been reported is at one of its three places (`Waiting`), so that
  it is about to go on or waits for a living stoppable service (`StopGoesOn`).
- `ThemeSyncProofs`: the announcements under way to an editor come in the order of
  the themes (`InOrder`), from the changes the notifier keeps over the queue and the
  wire to what the editor has received; no announcement before an answer is newer
  than it, nor what the editor shows or has received (`Fresh`); the newest
  announcement on this side is the current theme, and none is under way when the
  notifier has not kept the last change (`Words`). A query waits in the queue once
  (`Queued`) and an editor that asks has one answer on its way at most
  (`Answering`). Before the reload nothing but a loss is queued, and who has not
  joined was told nothing (`Greeted`). None of the properties is inductive alone: a
  broadcast that is only in the queue has to be counted before `NoLostUpdate` can
  survive the handler that sends it. Proved: `TypeOK`, `NoLostUpdate`,
  `QueryIsFresh`, `GreetedFirst`.
- `RpcMessageProofs`: the message handled is what `make_message` made of the array,
  and what was posted has the form its kind allows. Proved: `TypeOK`,
  `RequestsAreWhole`, `OnlyResultsEndThread`, `ResponseIsDelivered`, for arrays of
  any length.
- `StartupProofs`: two lemmas about `MakeEndpoint` (what is read is spelt by the
  text; what is spelt to its end is read), for texts of any length, and the
  invariant that the file is not served, and the editor connected, once the process
  goes on to be the monitor (`Founded`). `AddressIsRead` bounds the reader from two
  sides: what is spelt whole is understood, and what is understood is spelt in
  front of whatever follows. Proved: `TypeOK`, `FileIsKept`, `SuccessIsEarned`,
  `AddressIsRead`.
- `NvimSessionProofs`: the outstanding requests (on the way to the editor, held by a
  callback that waits for a query, or answered on the way back) have an entry in
  `request_cbs_` each and different ids (`Expected`); a new request has an id without
  an entry, since `send_request()` aborts otherwise. `ResponsesMatch` alone is not
  inductive: it does not see the request whose answer the editor has still to give.
  `Registered` says that nothing under way claims that `DarkMonitorQuery` is
  registered before it is. The bytes a read takes from the socket stay in one stream
  (`Stream`), so that reading changes neither. `Balanced` counts: as many queries and
  answers to them are under way as callbacks of the editor wait. The count is of
  positions in the two streams, since equal messages are two messages; it needs
  `Expected` to know that the requests among them are those of the client.
  `ReadGoesOn` says where the reader is: in progress with an empty buffer, queued
  once, or in its loop, and nowhere else as long as the client is alive. Proved:
  `TypeOK`, `ResponsesMatch`, `ConnectedIsRegistered`, `QueryUnderWay`,
  `ReadGoesOn`.

The assumptions are those named in the modules: the bounds are natural numbers,
there are two request ids at least, `Valid` is a set of processes, `First` is an
editor, a list of services is not empty (asserted at `util/inventory.hpp:55`).

Only model-checked: the liveness properties, since liveness under fairness is not
within the prover's reach. Each of them says that something comes to its end. What
a chain of handlers can get wrong is to be cut off, so that nothing is left that
fairness could drive on; that this does not happen is a safety property, and it is
proved for every value of the constants:

| checked on small instances | proved of every state |
|---|---|
| `EverythingSent` | `OneLink`: the chain of writes has a link while messages are left |
| `HandedOver` | `HandoverSpec`: an editor that was handed over is on its way unless it was let go for a reason |
| `MonitorEnds` | `NobodyLingers`: a monitor without editors has its end posted |
| `StopCompletes` | `EndUnderWay`: a stopped inventory has its callback posted |
| `GetsConnected` | `ReadGoesOn`: the client reads on |
| `QueryAnswered` | `QueryUnderWay`, `ReadGoesOn`: a query that waits, or its answer, is under way |
| `Converges` | `NoLostUpdate`: the last word under way is the current theme |
| `StopIsReported` | `StopGoesOn`: the stop is about to go on or waits for a service |

`ExitFollows`, and the part of `StopCompletes` that comes after the stop of the
inventory, rest on the notifier (`StopSticky`) and on the fairness of the two
threads, and have no counterpart among the theorems.

What is missing from the right column to the left one is the measure that each step
brings down, and the fairness of the steps that do.

The violation runs are not proved either: each is a behaviour that TLC shows.

## 6. Not modelled, and what is left

Bytes, logging, help texts and wording are left out: the unpacker that puts pieces
together and the packing of messages are msgpack, the options are Boost's. The
fields of the requests in `neovim/proto/` are declarations, and the small type
utilities have no state. Notifications have no subscriber in this program. The
steps after undefined behaviour are not explored. An exception of
`notifier_->query()` and allocation failures are left out.

What is left, in this order:

1. The composition of `NvimSession` with `RpcWriter` in place of `outbox`, so that a
   write error is the one of the piece that was under way.
2. The pieces in which messages arrive: the unpacker keeps what is not complete.
