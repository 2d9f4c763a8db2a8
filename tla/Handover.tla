------------------------------- MODULE Handover -------------------------------
(***************************************************************************)
(* What the processes promise the editors that start them, whoever is      *)
(* elected as the monitor (application.cpp, singleton/, service/neovim.cpp)*)
(*                                                                         *)
(* Every editor has a process of its own name.  A process takes its editor *)
(* for itself, or hands it over, once and to one process that has not      *)
(* ended.  Whoever has taken an editor keeps it on its way until it serves *)
(* it, and lets it go only if the editor has quit, if its address cannot   *)
(* be used, for an error that it records, or by ending itself.             *)
(***************************************************************************)
CONSTANTS
  Procs,        \* the processes
  Valid         \* those whose editor address can be used

VARIABLES
  editors,      \* the editors that are running
  dropped,      \* those that were let go for an error while they were running
  ended,        \* the processes that have ended
  handed,       \* those of them that have handed their editor over
  taken,        \* the editors each process serves or has on their way
  served        \* the editors each process serves

vars == <<editors, dropped, ended, handed, taken, served>>

Init ==
  /\ editors = Procs /\ dropped = {}
  /\ ended = {} /\ handed = {}
  /\ taken = [p \in Procs |-> {}]
  /\ served = [p \in Procs |-> {}]

\* Nobody has editor c, and its process may still do something about it.
Apart(c) == c \notin ended /\ \A p \in Procs : c \notin taken[p]

ServeOwn(c) ==
  /\ Apart(c) /\ c \in Valid \intersect editors
  /\ taken' = [taken EXCEPT ![c] = @ \union {c}]
  /\ served' = [served EXCEPT ![c] = @ \union {c}]
  /\ UNCHANGED <<editors, dropped, ended, handed>>

HandOver(c, m) ==
  /\ Apart(c) /\ m \notin ended \union {c} /\ taken[c] = {}
  /\ ended' = ended \union {c}
  /\ handed' = handed \union {c}
  /\ taken' = [taken EXCEPT ![m] = @ \union {c}]
  /\ UNCHANGED <<editors, dropped, served>>

Serve(c, m) ==
  /\ c \in taken[m] /\ c \in Valid \intersect editors
  /\ served' = [served EXCEPT ![m] = @ \union {c}]
  /\ UNCHANGED <<editors, dropped, ended, handed, taken>>

LetGo(c, m) ==
  /\ c \in taken[m] /\ c \notin Valid \intersect editors
  /\ taken' = [taken EXCEPT ![m] = @ \ {c}]
  /\ served' = [served EXCEPT ![m] = @ \ {c}]
  /\ UNCHANGED <<editors, dropped, ended, handed>>

GiveUp(c, m) ==
  /\ c \in taken[m] /\ c \in editors
  /\ taken' = [taken EXCEPT ![m] = @ \ {c}]
  /\ served' = [served EXCEPT ![m] = @ \ {c}]
  /\ dropped' = dropped \union {c}
  /\ UNCHANGED <<editors, ended, handed>>

End(p) ==
  /\ p \notin ended
  /\ ended' = ended \union {p}
  /\ taken' = [taken EXCEPT ![p] = {}]
  /\ served' = [served EXCEPT ![p] = {}]
  /\ UNCHANGED <<editors, dropped, handed>>

Quit(c) ==
  /\ c \in editors
  /\ editors' = editors \ {c}
  /\ UNCHANGED <<dropped, ended, handed, taken, served>>

Next ==
  \E c \in Procs :
    \/ ServeOwn(c) \/ End(c) \/ Quit(c)
    \/ \E m \in Procs : HandOver(c, m) \/ Serve(c, m) \/ LetGo(c, m) \/ GiveUp(c, m)

Spec == Init /\ [][Next]_vars

=============================================================================
