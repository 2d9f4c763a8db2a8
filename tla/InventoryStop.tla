---------------------------- MODULE InventoryStop ----------------------------
(***************************************************************************)
(* inventory_t and its stop_t (util/inventory.hpp, util/inventory.cpp) over*)
(* a list of N services, any of which may be a stoppable_service_t         *)
(* (util/service.hpp).  No service of this program is one, and N is 4      *)
(* (service/inventory.cpp:17-23): its own stop is the case in which        *)
(* stoppable is empty.  The class serves every list, and so does the model.*)
(*                                                                         *)
(* A service is its place in the list it was built in, and may use the     *)
(* services before it.  What a stoppable one does is external: it calls    *)
(* the callback of its stop() once, from within stop() or later.           *)
(* A definition named D_Something, placed before D, is a faulty variant of *)
(* D that no specification uses: the README says which property rejects it.*)
(***************************************************************************)
EXTENDS Integers, Sequences

CONSTANT N            \* the number of services

ASSUME InventoryAssumption == N \in Nat \ {0}

VARIABLES
  stoppable,          \* the services that are stoppable_service_t
  state,              \* state_: the list, or the stop_t in its place
  services,           \* the list, reversed once stop_t has it
  at,                 \* what the io thread is at: see Places
  ready,              \* the stoppable services that have called back
  callback            \* stop_t::callback_: kept, posted, or run

vars == <<stoppable, state, services, at, ready, callback>>

Services == 1 .. N

\* "none": no code of the inventory runs; "stop": stop_t::stop() is about to
\* run; "service": stop() of a stoppable service runs; "later": it has
\* returned and its callback has still to come.
Places == {"none", "stop", "service", "later"}

\* The services that are not destroyed.
Living == {services[i] : i \in 1 .. Len(services)}

\* A service that has called back is gone before the next step.
TypeOK ==
  /\ stoppable \in SUBSET Services
  /\ state \in {"list", "stop_t"}
  /\ services \in Seq(Services)
  /\ at \in Places
  /\ ready \in SUBSET (stoppable \ Living)
  /\ callback \in {"kept", "posted", "run"}

\* inventory_builder_t::add_service(), make_inventory().
Init ==
  /\ stoppable \in SUBSET Services
  /\ state = "list"
  /\ services = [i \in Services |-> i]
  /\ at = "none"
  /\ ready = {}
  /\ callback = "kept"

active == state = "list"

Reversed_Forgotten(s) == s

\* std::list::reverse().
Reversed(s) == [i \in 1 .. Len(s) |-> s[Len(s) + 1 - i]]

\* inventory_t::stop(), called by monitor_t::stop() while the list is active.
StopInventory ==
  /\ active /\ at = "none"
  /\ state' = "stop_t"
  /\ services' = Reversed(services)
  /\ at' = "stop"
  /\ UNCHANGED <<stoppable, ready, callback>>

\* find_if(): the first stoppable service, or the end of the list.
FoundAt(it) ==
  /\ it \in 1 .. Len(services) + 1
  /\ \A i \in 1 .. it - 1 : services[i] \notin stoppable
  /\ it <= Len(services) => services[it] \in stoppable

StopStep_CalledAtOnce ==
  /\ at = "stop"
  /\ \E it \in 1 .. Len(services) + 1 :
       /\ FoundAt(it)
       /\ services' = SubSeq(services, it, Len(services))
       /\ at' = IF it = Len(services) + 1 THEN "none" ELSE "service"
       /\ callback' = "posted"
  /\ UNCHANGED <<stoppable, state, ready>>

StopStep_Unreported ==
  /\ at = "stop"
  /\ \E it \in 1 .. Len(services) + 1 :
       /\ FoundAt(it)
       /\ services' = SubSeq(services, it, Len(services))
       /\ at' = IF it = Len(services) + 1 THEN "none" ELSE "service"
  /\ UNCHANGED <<stoppable, state, ready, callback>>

\* stop_t::stop(): the services before the stoppable one are destroyed, and
\* its stop() is called; or none is left, and the callback is posted.
StopStep ==
  /\ at = "stop"
  /\ \E it \in 1 .. Len(services) + 1 :
       /\ FoundAt(it)
       /\ services' = SubSeq(services, it, Len(services))
       /\ IF it = Len(services) + 1
          THEN at' = "none" /\ callback' = "posted"
          ELSE at' = "service" /\ UNCHANGED callback
  /\ UNCHANGED <<stoppable, state, ready>>

\* stop() of the service returns without having called the callback.
ServiceReturns ==
  /\ at = "service" /\ at' = "later"
  /\ UNCHANGED <<stoppable, state, services, ready, callback>>

CallBack_StopsFirst ==
  /\ at \in {"service", "later"}
  /\ ready' = ready \union {Head(services)}
  /\ at' = "stop"
  /\ UNCHANGED <<stoppable, state, services, callback>>

\* The lambda: the service is erased, from within its stop() or later, and
\* stop_t::stop() runs again.
CallBack ==
  /\ at \in {"service", "later"}
  /\ ready' = ready \union {Head(services)}
  /\ services' = Tail(services)
  /\ at' = "stop"
  /\ UNCHANGED <<stoppable, state, callback>>

\* The posted callback of monitor_t::stop() runs.
RunCallback ==
  /\ callback = "posted" /\ callback' = "run"
  /\ UNCHANGED <<stoppable, state, services, at, ready>>

Next ==
  \/ StopInventory \/ StopStep \/ ServiceReturns \/ CallBack \/ RunCallback

Spec == Init /\ [][Next]_vars

\* The io thread goes on, and a stoppable service calls back in the end.
Fairness == WF_vars(StopStep) /\ WF_vars(CallBack) /\ WF_vars(RunCallback)

FairSpec == Spec /\ Fairness

-----------------------------------------------------------------------------
(* Properties                                                              *)

(* No service outlives one that it may use, at any point of the stop: the  *)
(* living ones are the first ones of the list (inventory.cpp:28-52).  In   *)
(* this program monitor_t holds the clients of neovim_t, which holds       *)
(* request_handler_t (service/inventory.cpp:17-23).                        *)
DependentsFirst == \A i \in Living : \A j \in 1 .. i : j \in Living

T == INSTANCE Teardown
  WITH alive <- Len(services), told <- callback # "kept"

(* stop() tears the services down as Teardown says (inventory.cpp:20-52).  *)
TeardownSpec == T!Spec

(* A stop reaches its end: the caller is told, however the stoppable and   *)
(* the other services follow each other (inventory.cpp:36-52).             *)
StopIsReported == state = "stop_t" ~> callback = "run"

=============================================================================
