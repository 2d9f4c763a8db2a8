------------------------------ MODULE RpcWriter ------------------------------
(***************************************************************************)
(* rpc::write_t (src/monitor/rpc/write.hpp): the queue that turns write()  *)
(* calls into one chain of async_write operations on the client's socket.  *)
(*                                                                         *)
(* At most one link of the chain may exist at a time: a posted             *)
(* process_queue handler, an async_write in progress, or its completion    *)
(* waiting in the io_context.  Nothing in the code stores which of them    *)
(* exists; write() infers it from buffer_queue_.size() == 1.  The model    *)
(* keeps the three as separate collections, so that two links at once are  *)
(* representable and the rule is something to establish.                   *)
(*                                                                         *)
(* async_write is a composed operation: it hands the buffer to the socket  *)
(* in several pieces, and two such operations at once would mix theirs.    *)
(* Message n is the n-th call of write().  A write error reaches           *)
(* neovim_t::rpc_client_job_t::on_client_error, which erases the job and   *)
(* with it the client, the socket and this writer, inside handle_write.    *)
(*                                                                         *)
(* A definition named D_Something, placed before D, is a faulty variant of *)
(* D that no specification uses: the README says which property rejects it.*)
(***************************************************************************)
EXTENDS Naturals, Sequences

CONSTANTS MaxFrames,  \* bound on the number of write() calls
          Chunks      \* pieces in which one buffer crosses the socket

ASSUME WriterAssumption == /\ MaxFrames \in Nat
                           /\ Chunks \in Nat \ {0}

VARIABLES
  alive,          \* the writer (and the client that owns it) exists
  written,        \* number of write() calls so far
  buffer_queue_,  \* buffer_queue_: the unfinished messages
  posted,         \* process_queue handlers waiting in the io_context
  ops,            \* async_write operations in progress
  completions,    \* their completions waiting in the io_context
  wire            \* chunks taken by the socket, in order

vars == <<alive, written, buffer_queue_, posted, ops, completions, wire>>

Frame == Nat \ {0}
Op == [buf : Frame, sent : 0 .. Chunks]
Result == {"ok", "error"}
Chunk == [frame : Frame, piece : 1 .. Chunks]

TypeOK ==
  /\ alive \in BOOLEAN
  /\ written \in Nat
  /\ buffer_queue_ \in Seq(Frame)
  /\ posted \in Nat
  /\ ops \in SUBSET Op
  /\ completions \in Seq(Result)
  /\ wire \in Seq(Chunk)

Init ==
  /\ alive = TRUE
  /\ written = 0
  /\ buffer_queue_ = <<>>
  /\ posted = 0
  /\ ops = {}
  /\ completions = <<>>
  /\ wire = <<>>

-----------------------------------------------------------------------------
\* write() starts the chain when its message is the only one in the queue.
StartsChain_AlwaysPosts(q) == Len(q) >= 1
StartsChain(q) == Len(q) = 1

\* The operation process_queue starts on the front of the queue q, which it
\* asserts to be non-empty.
StartWrite_OfBack(q) == IF q = <<>> THEN {} ELSE {[buf |-> q[Len(q)], sent |-> 0]}
StartWrite(q) == IF q = <<>> THEN {} ELSE {[buf |-> Head(q), sent |-> 0]}

\* async_write goes on until the whole buffer is sent.
MoreToSend_OneTooMany(o) == o.sent <= Chunks
MoreToSend(o) == o.sent < Chunks

\* Closing the socket aborts the operation in progress.
AbortOps(done) == IF ops = {} THEN done ELSE Append(done, "error")

Write ==
  /\ alive /\ written < MaxFrames
  /\ written' = written + 1
  /\ buffer_queue_' = Append(buffer_queue_, written + 1)
  /\ posted' = IF StartsChain(buffer_queue_') THEN posted + 1 ELSE posted
  /\ UNCHANGED <<alive, ops, completions, wire>>

\* The io_context runs a posted process_queue; wrap() makes it a no-op once
\* the writer is gone.
ProcessQueue ==
  /\ posted > 0
  /\ posted' = posted - 1
  /\ ops' = IF alive THEN ops \union StartWrite(buffer_queue_) ELSE ops
  /\ UNCHANGED <<alive, written, buffer_queue_, completions, wire>>

\* The socket takes the next piece of an operation's buffer.
Transfer ==
  \E o \in ops :
    /\ MoreToSend(o)
    /\ wire' = Append(wire, [frame |-> o.buf, piece |-> o.sent + 1])
    /\ ops' = (ops \ {o}) \union {[o EXCEPT !.sent = @ + 1]}
    /\ UNCHANGED <<alive, written, buffer_queue_, posted, completions>>

\* An operation ends: with success once everything is sent, or with an error
\* at any point.
Complete ==
  \E o \in ops, result \in Result :
    /\ result = "ok" => ~ MoreToSend(o)
    /\ ops' = ops \ {o}
    /\ completions' = Append(completions, result)
    /\ UNCHANGED <<alive, written, buffer_queue_, posted, wire>>

HandleWriteDone_ForgetsRest ==
  /\ alive /\ completions # <<>> /\ Head(completions) = "ok"
  /\ completions' = Tail(completions)
  /\ buffer_queue_' = Tail(buffer_queue_)
  /\ UNCHANGED <<alive, written, posted, ops, wire>>

\* handle_write after success: the front is done, the next one is started
\* directly, without going through the io_context.
HandleWriteDone ==
  /\ alive /\ completions # <<>> /\ Head(completions) = "ok"
  /\ completions' = Tail(completions)
  /\ buffer_queue_' = Tail(buffer_queue_)
  /\ ops' = ops \union StartWrite(buffer_queue_')
  /\ UNCHANGED <<alive, written, posted, wire>>

\* handle_write after an error: on_write_error erases the job that owns this
\* writer; closing the socket ends whatever is still in progress.
HandleWriteError ==
  /\ alive /\ completions # <<>> /\ Head(completions) = "error"
  /\ completions' = AbortOps(Tail(completions))
  /\ buffer_queue_' = Tail(buffer_queue_)
  /\ alive' = FALSE
  /\ ops' = {}
  /\ UNCHANGED <<written, posted, wire>>

\* A completion that arrives after the writer is gone: cancelled by wrap().
HandleWriteCancelled ==
  /\ ~ alive /\ completions # <<>>
  /\ completions' = Tail(completions)
  /\ UNCHANGED <<alive, written, buffer_queue_, posted, ops, wire>>

\* The owner goes away for another reason: a read error, a malformed message
\* or the stop of the inventory.
Destroy ==
  /\ alive
  /\ alive' = FALSE
  /\ completions' = AbortOps(completions)
  /\ ops' = {}
  /\ UNCHANGED <<written, buffer_queue_, posted, wire>>

Next ==
  \/ Write
  \/ ProcessQueue
  \/ Transfer
  \/ Complete
  \/ HandleWriteDone
  \/ HandleWriteError
  \/ HandleWriteCancelled
  \/ Destroy

(* The io_context runs what it holds and the kernel makes progress on the  *)
(* operations of an open socket; nobody has to call write() or to stop.    *)
Fairness ==
  /\ WF_vars(ProcessQueue)
  /\ WF_vars(Transfer)
  /\ WF_vars(Complete)
  /\ WF_vars(HandleWriteDone \/ HandleWriteError \/ HandleWriteCancelled)

Spec == Init /\ [][Next]_vars

FairSpec == Spec /\ Fairness

-----------------------------------------------------------------------------
(* Properties                                                              *)

(* While the writer lives, a non-empty queue has exactly one link of the   *)
(* chain working on it and an empty queue has none: write() neither loses  *)
(* the wakeup nor starts a second async_write (write.hpp:45-49, 64-70).    *)
Links == posted + Len(completions)
OneLink ==
  alive => IF buffer_queue_ = <<>> THEN Links = 0 /\ ops = {}
           ELSE \/ Links = 1 /\ ops = {}
                \/ Links = 0 /\ \E o \in ops : ops = {o}

(* The buffer an async_write reads from is the front of the queue until    *)
(* its completion is handled: handle_write never pops a buffer that the    *)
(* socket is still reading (write.hpp:54-58, 64).                          *)
BufferPinned ==
  \A o \in ops : alive /\ buffer_queue_ # <<>> /\ o.buf = Head(buffer_queue_)

(* The writer implements the frame FIFO: the peer sees whole frames in the *)
(* order of the write() calls, each once, cut short only by the close.     *)
Fifo == INSTANCE FrameFifo WITH accepted <- written, open <- alive
FifoSpec == Fifo!Spec

(* Every message accepted by write() is eventually sent completely, unless *)
(* the client is destroyed first: the chain never stalls.                  *)
EverythingSent ==
  \A n \in 1 .. MaxFrames :
    written >= n ~> (~ alive \/ \E i \in 1 .. Len(wire) :
                                  wire[i] = [frame |-> n, piece |-> Chunks])

=============================================================================
