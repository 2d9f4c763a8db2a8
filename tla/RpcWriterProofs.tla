--------------------------- MODULE RpcWriterProofs ---------------------------
(***************************************************************************)
(* Proofs about RpcWriter for every number of messages and chunks: type    *)
(* correctness, the one-link rule, the pinned buffer and the refinement of *)
(* FrameFifo.  All of them follow from one inductive invariant, IInv.      *)
(***************************************************************************)
EXTENDS RpcWriter, SequenceTheorems, TLAPS

\* Number of messages handle_write has popped.
Popped == written - Len(buffer_queue_)

\* The chunk the peer expects next, and the one that follows piece s of
\* frame f.
Due == Fifo!NextChunk(wire)
After(f, s) == IF s < Chunks THEN [frame |-> f, piece |-> s + 1]
               ELSE [frame |-> f + 1, piece |-> 1]

\* The queue holds the messages after the popped ones, in order.
Contiguous ==
  /\ Len(buffer_queue_) <= written
  /\ \A j \in 1 .. Len(buffer_queue_) : buffer_queue_[j] = Popped + j

Idle ==
  /\ buffer_queue_ = <<>> /\ posted = 0 /\ ops = {} /\ completions = <<>>
  /\ Due = After(written + 1, 0)

Scheduled ==
  /\ buffer_queue_ # <<>> /\ posted = 1 /\ ops = {} /\ completions = <<>>
  /\ Due = After(Popped + 1, 0)

Writing ==
  /\ buffer_queue_ # <<>> /\ posted = 0 /\ completions = <<>>
  /\ \E o \in Op : /\ ops = {o}
                   /\ o.buf = Popped + 1
                   /\ Due = After(o.buf, o.sent)

Finished ==
  /\ buffer_queue_ # <<>> /\ posted = 0 /\ ops = {}
  /\ \E r \in Result : /\ completions = <<r>>
                       /\ r = "ok" => Due = After(Popped + 1, Chunks)

\* A living writer is in one of the four situations of its chain; a dead one
\* has no operation left that could reach the socket.
IInv ==
  /\ TypeOK
  /\ alive => Contiguous /\ (Idle \/ Scheduled \/ Writing \/ Finished)
  /\ ~ alive => ops = {}

-----------------------------------------------------------------------------
LEMMA InitIInv == Init => IInv
<1> SUFFICES ASSUME Init PROVE IInv
  OBVIOUS
<1>1. TypeOK
  BY DEF Init, TypeOK
<1>2. Contiguous
  BY DEF Init, Contiguous
<1>3. Idle
  BY WriterAssumption DEF Init, Idle, Due, After, Fifo!NextChunk
<1> QED
  BY <1>1, <1>2, <1>3 DEF Init, IInv

-----------------------------------------------------------------------------
(* One lemma per action that can disturb the chain of a living writer.     *)

LEMMA TailFacts ==
  ASSUME Contiguous, TypeOK, buffer_queue_ # <<>>
  PROVE  /\ Head(buffer_queue_) = Popped + 1
         /\ Popped \in Nat /\ Popped + 1 \in Frame
         /\ Tail(buffer_queue_) \in Seq(Frame)
         /\ Len(Tail(buffer_queue_)) = Len(buffer_queue_) - 1
         /\ \A j \in 1 .. Len(Tail(buffer_queue_)) :
              Tail(buffer_queue_)[j] = Popped + 1 + j
BY DEF Contiguous, TypeOK, Popped, Frame

LEMMA WriteStep == IInv /\ Write => IInv'
<1> SUFFICES ASSUME IInv, Write PROVE IInv'
  OBVIOUS
<1> USE DEF IInv, Write
<1> DEFINE q == buffer_queue_
           n == written + 1
<1>0. /\ written \in Nat /\ q \in Seq(Frame) /\ n \in Frame /\ Len(q) \in Nat
      /\ q' \in Seq(Frame) /\ q' # <<>> /\ Len(q') = Len(q) + 1
      /\ \A i \in 1 .. Len(q) : q'[i] = q[i]
      /\ q'[Len(q) + 1] = n
  <2>1. written \in Nat /\ q \in Seq(Frame) /\ n \in Frame
    BY DEF TypeOK, Frame
  <2> QED
    BY <2>1, AppendProperties, LenProperties
<1>1. TypeOK'
  BY <1>0 DEF TypeOK, StartsChain
<1>2. Contiguous' /\ buffer_queue_' # <<>> /\ Popped' = Popped
  <2>1. Len(q) <= written /\ \A j \in 1 .. Len(q) : q[j] = Popped + j
    BY DEF Contiguous
  <2>2. Popped' = Popped /\ Len(q') <= written'
    BY <1>0, <2>1 DEF Popped
  <2>3. ASSUME NEW j \in 1 .. Len(q') PROVE q'[j] = Popped + j
    <3>1. CASE j = Len(q) + 1
      BY <1>0, <2>1, <3>1 DEF Popped
    <3>2. CASE j \in 1 .. Len(q)
      BY <1>0, <2>1, <3>2
    <3> QED
      BY <1>0, <3>1, <3>2
  <2> QED
    BY <1>0, <2>2, <2>3 DEF Contiguous
<1>3. ASSUME Idle PROVE Scheduled'
  <2>1. Len(buffer_queue_') = 1 /\ Popped = written
    BY <1>3 DEF Idle, Popped, TypeOK
  <2> QED
    BY <1>2, <1>3, <2>1 DEF Idle, Scheduled, StartsChain, Due, Fifo!NextChunk, TypeOK
<1>4. ASSUME buffer_queue_ # <<>> PROVE posted' = posted
  BY <1>4 DEF TypeOK, StartsChain
<1>5. ASSUME Scheduled PROVE Scheduled'
  BY <1>2, <1>4, <1>5 DEF Scheduled, Due, Fifo!NextChunk
<1>6. ASSUME Writing PROVE Writing'
  BY <1>2, <1>4, <1>6 DEF Writing, Due, Fifo!NextChunk
<1>7. ASSUME Finished PROVE Finished'
  BY <1>2, <1>4, <1>7 DEF Finished, Due, Fifo!NextChunk
<1> QED
  BY <1>1, <1>2, <1>3, <1>5, <1>6, <1>7

LEMMA ProcessQueueStep == IInv /\ ProcessQueue => IInv'
<1> SUFFICES ASSUME IInv, ProcessQueue PROVE IInv'
  OBVIOUS
<1> USE DEF IInv, ProcessQueue
<1>1. CASE ~ alive
  BY <1>1 DEF TypeOK
<1>2. CASE alive
  <2>1. Scheduled
    BY <1>2 DEF Idle, Writing, Finished
  <2>2. Head(buffer_queue_) = Popped + 1 /\ Popped + 1 \in Frame
    BY <1>2, <2>1, TailFacts DEF Scheduled
  <2> DEFINE o == [buf |-> Popped + 1, sent |-> 0]
  <2>3. o \in Op /\ ops' = {o} /\ o.buf = Popped + 1 /\ o.sent = 0
    BY <1>2, <2>1, <2>2, WriterAssumption DEF Op, Scheduled, StartWrite
  <2>4. Due = After(o.buf, o.sent)
    BY <2>1 DEF Scheduled
  <2>5. TypeOK'
    BY <2>3 DEF TypeOK
  <2> HIDE DEF o
  <2>6. Popped' = Popped /\ (Contiguous' <=> Contiguous)
    BY DEF Popped, Contiguous
  <2>7. Writing'
    <3>1. Due' = After(o.buf, o.sent)
      BY <2>4 DEF Due, Fifo!NextChunk
    <3> QED
      BY <2>1, <2>3, <2>6, <3>1 DEF Writing, Scheduled
  <2> QED
    BY <1>2, <2>5, <2>6, <2>7
<1> QED
  BY <1>1, <1>2

LEMMA TransferStep == IInv /\ Transfer => IInv' /\ Fifo!Deliver
<1> SUFFICES ASSUME IInv, Transfer PROVE IInv' /\ Fifo!Deliver
  OBVIOUS
<1>1. PICK o \in ops :
        /\ o.sent < Chunks
        /\ wire' = Append(wire, [frame |-> o.buf, piece |-> o.sent + 1])
        /\ ops' = (ops \ {o}) \union {[o EXCEPT !.sent = @ + 1]}
        /\ UNCHANGED <<alive, written, buffer_queue_, posted, completions>>
  BY DEF Transfer, MoreToSend
<1>2. alive /\ Writing /\ Contiguous
  BY DEF IInv, Idle, Scheduled, Finished
<1>3. o \in Op /\ ops = {o} /\ o.buf = Popped + 1 /\ Due = After(o.buf, o.sent)
  BY <1>2 DEF Writing
<1> DEFINE c == [frame |-> o.buf, piece |-> o.sent + 1]
           p == [buf |-> o.buf, sent |-> o.sent + 1]
<1>4. c = Fifo!NextChunk(wire)
  BY <1>1, <1>3 DEF After, Due
<1>5. p \in Op /\ ops' = {p} /\ c \in Chunk
  BY <1>1, <1>3, WriterAssumption DEF Op, Chunk, Frame
<1>6. TypeOK'
  BY <1>1, <1>5 DEF IInv, TypeOK
<1>7. wire' # <<>> /\ wire'[Len(wire')] = c
  BY <1>1, <1>5 DEF IInv, TypeOK
<1>8. Due' = After(p.buf, p.sent)
  BY <1>1, <1>3, <1>7, WriterAssumption DEF Due, After, Fifo!NextChunk, Op
<1>9. Popped' = Popped /\ (Contiguous' <=> Contiguous)
  BY <1>1 DEF Popped, Contiguous
<1>10. Writing'
  BY <1>1, <1>2, <1>3, <1>5, <1>8, <1>9 DEF Writing
<1>11. IInv'
  BY <1>1, <1>2, <1>6, <1>9, <1>10 DEF IInv
<1>12. Fifo!Deliver
  <2>1. c.frame <= written
    BY <1>2, <1>3 DEF Writing, Contiguous, Popped, IInv, TypeOK
  <2> QED
    BY <1>1, <1>2, <1>4, <2>1 DEF Fifo!Deliver
<1> QED
  BY <1>11, <1>12

LEMMA CompleteStep == IInv /\ Complete => IInv'
<1> SUFFICES ASSUME IInv, Complete PROVE IInv'
  OBVIOUS
<1>1. PICK o \in ops, r \in Result :
        /\ r = "ok" => ~ (o.sent < Chunks)
        /\ ops' = ops \ {o}
        /\ completions' = Append(completions, r)
        /\ UNCHANGED <<alive, written, buffer_queue_, posted, wire>>
  BY DEF Complete, MoreToSend
<1>2. alive /\ Writing /\ Contiguous
  BY DEF IInv, Idle, Scheduled, Finished
<1>3. o \in Op /\ ops = {o} /\ o.buf = Popped + 1 /\ Due = After(o.buf, o.sent)
  BY <1>2 DEF Writing
<1>4. ops' = {} /\ completions' = <<r>>
  BY <1>1, <1>2, <1>3 DEF Writing
<1>5. r = "ok" => Due = After(Popped + 1, Chunks)
  BY <1>1, <1>3, WriterAssumption DEF After, Op
<1>6. TypeOK'
  BY <1>1, <1>4 DEF IInv, TypeOK
<1>7. Popped' = Popped /\ (Contiguous' <=> Contiguous)
  BY <1>1 DEF Popped, Contiguous
<1>8. Finished'
  BY <1>1, <1>2, <1>4, <1>5, <1>7 DEF Finished, Writing, Due, Fifo!NextChunk
<1> QED
  BY <1>1, <1>2, <1>4, <1>6, <1>7, <1>8 DEF IInv

LEMMA HandleWriteDoneStep == IInv /\ HandleWriteDone => IInv'
<1> SUFFICES ASSUME IInv, HandleWriteDone PROVE IInv'
  OBVIOUS
<1>1. alive /\ Finished /\ Contiguous /\ completions = <<"ok">>
  BY DEF HandleWriteDone, IInv, Idle, Scheduled, Writing, Finished, Result
<1>2. buffer_queue_ # <<>> /\ posted = 0 /\ ops = {} /\ Due = After(Popped + 1, Chunks)
  BY <1>1 DEF Finished
<1>3. /\ Popped \in Nat
      /\ buffer_queue_' \in Seq(Frame)
      /\ Len(buffer_queue_') = Len(buffer_queue_) - 1
      /\ \A j \in 1 .. Len(buffer_queue_') : buffer_queue_'[j] = Popped + 1 + j
  BY <1>1, <1>2, TailFacts DEF HandleWriteDone, IInv
<1>4. /\ UNCHANGED <<alive, written, posted, wire>>
      /\ ops' = ops \union StartWrite(buffer_queue_')
  BY DEF HandleWriteDone
<1>5. Popped' = Popped + 1 /\ Contiguous'
  BY <1>1, <1>2, <1>3, <1>4 DEF Popped, Contiguous, IInv, TypeOK
<1>6. completions' = <<>>
  BY <1>1 DEF HandleWriteDone
<1>7. Due' = After(Popped' + 1, 0)
  <2>1. Due = After(Popped + 2, 0)
    BY <1>2, <1>3, WriterAssumption DEF After
  <2> QED
    BY <1>3, <1>5, <1>4, <2>1 DEF Due, Fifo!NextChunk
<1>8. CASE buffer_queue_' = <<>>
  <2>1. ops' = {}
    BY <1>2, <1>8, <1>4 DEF StartWrite
  <2>2. Popped' = written'
    <3>1. Len(buffer_queue_) = 1 /\ Popped = written - Len(buffer_queue_)
      BY <1>1, <1>3, <1>8, Len(<<>>) = 0 DEF Popped, Contiguous, IInv, TypeOK
    <3> QED
      BY <1>4, <1>5, <3>1 DEF IInv, TypeOK
  <2>3. Idle'
    BY <1>2, <1>6, <1>7, <1>8, <1>4, <2>1, <2>2 DEF Idle
  <2> QED
    BY <1>1, <1>3, <1>5, <1>6, <1>4, <2>1, <2>3 DEF IInv, TypeOK
<1>9. CASE buffer_queue_' # <<>>
  <2> DEFINE o == [buf |-> Popped' + 1, sent |-> 0]
  <2>1. Head(buffer_queue_') = Popped' + 1
    <3>1. Len(buffer_queue_') > 0
      BY <1>3, <1>9, EmptySeq
    <3> QED
      BY <1>3, <1>5, <3>1
  <2>2. o \in Op /\ ops' = {o} /\ o.buf = Popped' + 1 /\ o.sent = 0
    BY <1>2, <1>3, <1>5, <1>9, <1>4, <2>1, WriterAssumption DEF StartWrite, Op, Frame
  <2> HIDE DEF o
  <2>3. Writing'
    BY <1>2, <1>6, <1>7, <1>9, <1>4, <2>2 DEF Writing
  <2>4. TypeOK'
    BY <1>3, <1>6, <1>4, <2>2 DEF IInv, TypeOK
  <2> QED
    BY <1>1, <1>5, <1>4, <2>3, <2>4 DEF IInv
<1> QED
  BY <1>8, <1>9

LEMMA AbortOpsType == ASSUME TypeOK, NEW s \in Seq(Result)
                      PROVE  AbortOps(s) \in Seq(Result)
<1>1. "error" \in Result
  BY DEF Result
<1> QED
  BY <1>1, AppendProperties DEF AbortOps

LEMMA DeathStep ==
  IInv /\ (HandleWriteError \/ HandleWriteCancelled \/ Destroy) => IInv'
<1> SUFFICES ASSUME IInv, HandleWriteError \/ HandleWriteCancelled \/ Destroy
             PROVE  IInv'
  OBVIOUS
<1>1. ~ alive' /\ ops' = {}
  BY DEF IInv, HandleWriteError, HandleWriteCancelled, Destroy
<1>2. CASE HandleWriteError
  <2>1. Tail(completions) \in Seq(Result)
    BY <1>2, HeadTailProperties DEF HandleWriteError, IInv, TypeOK
  <2>2. buffer_queue_ # <<>>
    BY <1>2 DEF HandleWriteError, IInv, Idle, Scheduled, Writing, Finished
  <2>3. Tail(buffer_queue_) \in Seq(Frame)
    BY <2>2, HeadTailProperties DEF IInv, TypeOK
  <2>4. AbortOps(Tail(completions)) \in Seq(Result)
    BY <2>1, AbortOpsType DEF IInv
  <2>5. TypeOK'
    BY <1>2, <2>3, <2>4 DEF HandleWriteError, IInv, TypeOK
  <2> QED
    BY <1>1, <2>5 DEF IInv
<1>3. CASE HandleWriteCancelled
  BY <1>1, <1>3 DEF HandleWriteCancelled, IInv, TypeOK
<1>4. CASE Destroy
  <2>1. TypeOK'
    BY <1>4, AbortOpsType DEF Destroy, IInv, TypeOK
  <2> QED
    BY <1>1, <2>1 DEF IInv
<1> QED
  BY <1>2, <1>3, <1>4

LEMMA StepIInv == IInv /\ [Next]_vars => IInv'
<1>1. IInv /\ UNCHANGED vars => IInv'
  <2> SUFFICES ASSUME IInv, UNCHANGED vars PROVE IInv'
    OBVIOUS
  <2> QED
    BY DEF vars, IInv, TypeOK, Contiguous, Popped, Idle, Scheduled, Writing,
           Finished, Due, Fifo!NextChunk
<1> QED
  BY <1>1, WriteStep, ProcessQueueStep, TransferStep, CompleteStep,
     HandleWriteDoneStep, DeathStep DEF Next

THEOREM Invariance == Spec => []IInv
BY InitIInv, StepIInv, PTL DEF Spec

-----------------------------------------------------------------------------
(* Every state has the declared types. *)
THEOREM TypeCorrect == Spec => []TypeOK
<1>1. IInv => TypeOK
  BY DEF IInv
<1> QED
  BY <1>1, Invariance, PTL

(* A living writer has exactly one link of its chain when the queue is     *)
(* non-empty and none otherwise (write.hpp:45-49, 64-70).                  *)
THEOREM OneLinkHolds == Spec => []OneLink
<1>1. IInv => OneLink
  <2> SUFFICES ASSUME IInv, alive PROVE OneLink
    BY DEF OneLink
  <2>1. CASE Idle
    BY <2>1, Len(<<>>) = 0 DEF Idle, OneLink, Links
  <2>2. CASE Scheduled
    BY <2>2 DEF Scheduled, OneLink, Links
  <2>3. CASE Writing
    BY <2>3 DEF Writing, OneLink, Links
  <2>4. CASE Finished
    BY <2>4 DEF Finished, OneLink, Links
  <2> QED
    BY <2>1, <2>2, <2>3, <2>4 DEF IInv
<1> QED
  BY <1>1, Invariance, PTL

(* An async_write in progress always reads from the front of the queue     *)
(* (write.hpp:54-58, 64).                                                  *)
THEOREM BufferPinnedHolds == Spec => []BufferPinned
<1>1. IInv => BufferPinned
  <2> SUFFICES ASSUME IInv, NEW o \in ops
               PROVE  alive /\ buffer_queue_ # <<>> /\ o.buf = Head(buffer_queue_)
    BY DEF BufferPinned
  <2>1. alive /\ Writing /\ Contiguous
    BY DEF IInv, Idle, Scheduled, Finished
  <2> QED
    BY <2>1, TailFacts DEF IInv, Writing
<1> QED
  BY <1>1, Invariance, PTL

(* The writer implements the frame FIFO for every number of messages and   *)
(* of chunks: whole frames, in the order of the write() calls, each once.  *)
THEOREM Refinement == Spec => FifoSpec
<1>1. Init => Fifo!Init
  BY DEF Init, Fifo!Init
<1>2. IInv /\ [Next]_vars => [Fifo!Next]_(Fifo!vars)
  <2> SUFFICES ASSUME IInv, [Next]_vars PROVE [Fifo!Next]_(Fifo!vars)
    OBVIOUS
  <2>1. CASE Write
    BY <2>1 DEF Write, Fifo!Next, Fifo!Accept
  <2>2. CASE Transfer
    BY <2>2, TransferStep DEF Fifo!Next
  <2>3. CASE HandleWriteError \/ Destroy
    BY <2>3 DEF HandleWriteError, Destroy, Fifo!Next, Fifo!Close
  <2>4. CASE ProcessQueue \/ Complete \/ HandleWriteDone \/ HandleWriteCancelled
    BY <2>4 DEF ProcessQueue, Complete, HandleWriteDone, HandleWriteCancelled,
                Fifo!vars
  <2>5. CASE UNCHANGED vars
    BY <2>5 DEF vars, Fifo!vars
  <2> QED
    BY <2>1, <2>2, <2>3, <2>4, <2>5 DEF Next
<1> QED
  BY <1>1, <1>2, Invariance, PTL DEF Spec, FifoSpec, Fifo!Spec

=============================================================================
