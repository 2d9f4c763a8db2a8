------------------------------ MODULE FrameFifo ------------------------------
(***************************************************************************)
(* What the RPC writer promises its user: the frames accepted by write()   *)
(* reach the peer in the order of the calls, each of them once, and the    *)
(* bytes of one frame are never mixed with those of another.  A frame is   *)
(* the n-th accepted message; it crosses the socket in Chunks pieces.      *)
(* Closing the connection may cut the stream short at any chunk.           *)
(***************************************************************************)
EXTENDS Naturals, Sequences

CONSTANTS MaxFrames,  \* bound on the number of accepted frames
          Chunks      \* pieces in which one frame crosses the socket

VARIABLES accepted,   \* number of frames accepted so far
          wire,       \* the chunks the peer's socket has taken, in order
          open        \* the connection exists

vars == <<accepted, wire, open>>

Chunk == [frame : Nat \ {0}, piece : 1 .. Chunks]

\* The chunk that must follow the stream w.
NextChunk(w) ==
  IF w = <<>> THEN [frame |-> 1, piece |-> 1]
  ELSE LET c == w[Len(w)] IN
       IF c.piece = Chunks THEN [frame |-> c.frame + 1, piece |-> 1]
       ELSE [frame |-> c.frame, piece |-> c.piece + 1]

Init == accepted = 0 /\ wire = <<>> /\ open = TRUE

Accept ==
  /\ open /\ accepted < MaxFrames
  /\ accepted' = accepted + 1
  /\ UNCHANGED <<wire, open>>

Deliver ==
  /\ open
  /\ NextChunk(wire).frame <= accepted
  /\ wire' = Append(wire, NextChunk(wire))
  /\ UNCHANGED <<accepted, open>>

Close ==
  /\ open
  /\ open' = FALSE
  /\ UNCHANGED <<accepted, wire>>

Next == Accept \/ Deliver \/ Close

Spec == Init /\ [][Next]_vars

=============================================================================
