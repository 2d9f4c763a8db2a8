------------------------------ MODULE Teardown ------------------------------
(***************************************************************************)
(* What inventory_t::stop() (util/inventory.hpp, util/inventory.cpp)       *)
(* promises.  The services of a list may use those before them, so the     *)
(* last ones go first; one that is stoppable goes when it has said it is   *)
(* ready, and only then; when none is left the caller is told, once.       *)
(***************************************************************************)
EXTENDS Integers

CONSTANT N            \* the number of services

VARIABLES
  stoppable,          \* the stoppable services
  alive,              \* how many there are: 1 .. alive
  ready,              \* those whose callback has been called
  told                \* the callback of stop() is posted

vars == <<stoppable, alive, ready, told>>

Services == 1 .. N

Init ==
  /\ stoppable \in SUBSET Services
  /\ alive = N
  /\ ready = {}
  /\ told = FALSE

\* Some of the last services are destroyed, stoppable ones if they are ready.
Destroy ==
  /\ alive' \in 0 .. alive
  /\ \A i \in alive' + 1 .. alive : i \in stoppable => i \in ready'

\* The last one, and no other, is waited for.
GetReady ==
  \/ ready' = ready
  \/ alive \in stoppable /\ ready' = ready \union {alive}

Retire == Destroy /\ GetReady /\ UNCHANGED <<stoppable, told>>

Tell ==
  /\ Destroy /\ alive' = 0
  /\ ~ told /\ told' = TRUE
  /\ UNCHANGED <<stoppable, ready>>

Next == Retire \/ Tell

Spec == Init /\ [][Next]_vars

=============================================================================
