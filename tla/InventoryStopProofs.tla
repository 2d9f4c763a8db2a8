------------------------- MODULE InventoryStopProofs -------------------------
(***************************************************************************)
(* Proofs about InventoryStop, for every length of the list and every set  *)
(* of stoppable services: type correctness, the order of the destruction,  *)
(* that the code tears the services down as Teardown says, and that a stop *)
(* goes on until it is reported.                                           *)
(* The invariant: the list holds the services 1 .. Len(services), upwards  *)
(* before the stop and downwards after it.                                 *)
(***************************************************************************)
EXTENDS InventoryStop, TLAPS

Upwards == \A i \in 1 .. Len(services) : services[i] = i
Downwards == \A i \in 1 .. Len(services) : services[i] = Len(services) + 1 - i

\* The list is in order, and complete until the stop.
InOrder ==
  /\ Len(services) <= N
  /\ state = "list" => Len(services) = N /\ Upwards
  /\ state = "stop_t" => Downwards

\* A service is waited for iff it is the first in the list and stoppable, and
\* nobody is told before the end, up to which the stop is under way.
Waiting ==
  /\ state = "list" => at = "none" /\ callback = "kept"
  /\ at \in {"service", "later"} =>
       services # <<>> /\ services[1] \in stoppable
  /\ at # "none" => callback = "kept"
  /\ state = "stop_t" /\ callback = "kept" => at # "none"

IInv == TypeOK /\ InOrder /\ Waiting

-----------------------------------------------------------------------------
(* The living services are the first ones.                                 *)
LEMMA LivingIsPrefix ==
  ASSUME TypeOK, InOrder PROVE Living = 1 .. Len(services)
<1>1. Len(services) \in Nat
  BY DEF TypeOK
<1>2. CASE state = "list"
  BY <1>1, <1>2 DEF InOrder, Upwards, Living
<1>3. CASE state = "stop_t"
  <2>1. \A i \in 1 .. Len(services) : services[i] = Len(services) + 1 - i
    BY <1>3 DEF InOrder, Downwards
  <2>2. Living \subseteq 1 .. Len(services)
    BY <1>1, <2>1 DEF Living
  <2>3. ASSUME NEW k \in 1 .. Len(services) PROVE k \in Living
    <3>1. Len(services) + 1 - k \in 1 .. Len(services)
      BY <1>1
    <3>2. services[Len(services) + 1 - k] = k
      BY <1>1, <2>1, <3>1
    <3> QED
      BY <3>1, <3>2 DEF Living
  <2> QED
    BY <2>2, <2>3
<1> QED
  BY <1>2, <1>3 DEF TypeOK

LEMMA InitIInv == Init => IInv
<1> SUFFICES ASSUME Init PROVE IInv
  OBVIOUS
<1> USE InventoryAssumption DEF Init, Services
<1>1. services \in Seq(1 .. N) /\ Len(services) = N
  OBVIOUS
<1>2. TypeOK
  BY <1>1 DEF TypeOK, Places
<1>3. InOrder /\ Waiting
  BY <1>1 DEF InOrder, Upwards, Waiting
<1> QED
  BY <1>2, <1>3 DEF IInv

\* inventory_t::stop() turns the list round.
LEMMA StopInventoryStep == ASSUME IInv, StopInventory PROVE IInv'
<1> DEFINE n == Len(services)
<1> USE DEF IInv
<1>1. n \in Nat /\ \A i \in 1 .. n : services[i] \in Services
  BY DEF TypeOK
<1>2. \A i \in 1 .. n : n + 1 - i \in 1 .. n
  BY <1>1
<1>3. services' = [i \in 1 .. n |-> services[n + 1 - i]]
  BY DEF StopInventory, Reversed
<1>4. services' \in Seq(Services) /\ Len(services') = n
  BY <1>1, <1>2, <1>3
<1>5. \A i \in 1 .. n : services[i] = i
  BY DEF StopInventory, active, InOrder, Upwards
<1>6. \A i \in 1 .. n : services'[i] = n + 1 - i
  BY <1>2, <1>3, <1>5
<1>7. InOrder'
  BY <1>4, <1>6 DEF InOrder, Downwards, StopInventory
<1>8. Living' \subseteq Living
  <2>1. \A i \in 1 .. n : services'[i] \in Living
    BY <1>2, <1>3 DEF Living
  <2> QED
    BY <2>1, <1>4 DEF Living
<1>9. TypeOK'
  BY <1>4, <1>8 DEF TypeOK, StopInventory, Places
<1>10. Waiting'
  BY DEF Waiting, StopInventory, active
<1> QED
  BY <1>7, <1>9, <1>10

(* What stop_t::stop() leaves: the rest of the list, from it on.           *)
LEMMA RestOfList ==
  ASSUME IInv, at # "none" \/ state = "stop_t",
         NEW it \in 1 .. Len(services) + 1,
         services' = SubSeq(services, it, Len(services)),
         UNCHANGED <<state, stoppable>>, ready' \subseteq stoppable,
         ready' \subseteq ready \union (Len(services) + 2 - it .. Len(services))
  PROVE  /\ services' \in Seq(Services)
         /\ Len(services') = Len(services) + 1 - it
         /\ InOrder'
         /\ ready' \in SUBSET (stoppable \ Living')
         /\ it <= Len(services) => services'[1] = services[it]
<1> DEFINE n == Len(services)
<1> USE DEF IInv
<1>1. n \in Nat /\ it \in Nat /\ 1 <= it /\ it <= n + 1
  BY DEF TypeOK
<1>2. services \in Seq(Services) /\ state = "stop_t"
  BY DEF TypeOK, Waiting
<1>3. services' \in Seq(Services) /\ Len(services') = n + 1 - it
  BY <1>1, <1>2
<1>4. \A i \in 1 .. n + 1 - it : services'[i] = services[it + i - 1]
  BY <1>1, <1>2
<1>5. \A i \in 1 .. n : services[i] = n + 1 - i
  BY <1>2 DEF InOrder, Downwards
<1>6. \A i \in 1 .. n + 1 - it : services'[i] = (n + 1 - it) + 1 - i
  <2> SUFFICES ASSUME NEW i \in 1 .. n + 1 - it
               PROVE  services'[i] = (n + 1 - it) + 1 - i
    OBVIOUS
  <2>1. it + i - 1 \in 1 .. n
    BY <1>1
  <2>2. services'[i] = n + 1 - (it + i - 1)
    BY <1>4, <1>5, <2>1
  <2> QED
    BY <1>1, <2>2
<1>7. InOrder'
  <2>1. n <= N /\ N \in Nat
    BY InventoryAssumption DEF InOrder
  <2>2. n + 1 - it <= N
    BY <1>1, <2>1
  <2> QED
    BY <1>2, <1>3, <1>6, <2>2 DEF InOrder, Downwards
<1>8. Living' = {services'[i] : i \in 1 .. n + 1 - it}
  BY <1>3 DEF Living
<1>9. Living' \subseteq 1 .. n + 1 - it
  <2> SUFFICES ASSUME NEW i \in 1 .. n + 1 - it PROVE services'[i] \in 1 .. n + 1 - it
    BY <1>8
  <2> QED
    BY <1>1, <1>6
<1>10. Living = 1 .. n
  BY LivingIsPrefix
<1>11. ready' \intersect Living' = {}
  <2>1. ready \intersect (1 .. n) = {}
    BY <1>10 DEF TypeOK
  <2>2. 1 .. n + 1 - it \subseteq 1 .. n
    BY <1>1
  <2>3. (n + 2 - it .. n) \intersect (1 .. n + 1 - it) = {}
    BY <1>1
  <2> QED
    BY <1>9, <2>1, <2>2, <2>3
<1>12. it <= n => services'[1] = services[it]
  BY <1>1, <1>4
<1> QED
  BY <1>3, <1>7, <1>11, <1>12

LEMMA StopStepStep == ASSUME IInv, StopStep PROVE IInv'
<1> USE DEF IInv
<1>1. PICK it \in 1 .. Len(services) + 1 :
        /\ FoundAt(it)
        /\ services' = SubSeq(services, it, Len(services))
        /\ IF it = Len(services) + 1
           THEN at' = "none" /\ callback' = "posted"
           ELSE at' = "service" /\ UNCHANGED callback
  BY DEF StopStep
<1>2. at = "stop" /\ UNCHANGED <<stoppable, state, ready>>
  BY DEF StopStep
<1>3. ready' \subseteq stoppable
  BY <1>2 DEF TypeOK
<1>4. /\ services' \in Seq(Services)
      /\ Len(services') = Len(services) + 1 - it
      /\ InOrder'
      /\ ready' \in SUBSET (stoppable \ Living')
      /\ it <= Len(services) => services'[1] = services[it]
  <2>1. state = "stop_t"
    BY <1>2 DEF Waiting, TypeOK
  <2> QED
    BY <1>1, <1>2, <1>3, <2>1, RestOfList
<1>5. at' \in {"none", "service"} /\ callback' \in {"kept", "posted"}
  BY <1>1, <1>2 DEF Waiting
<1>6. TypeOK'
  BY <1>2, <1>4, <1>5 DEF TypeOK, Places
<1>7. Waiting'
  <2>1. CASE it = Len(services) + 1
    BY <1>1, <1>2, <2>1 DEF Waiting
  <2>2. CASE it # Len(services) + 1
    <3>1. it <= Len(services) /\ Len(services') >= 1
      BY <1>4, <2>2 DEF TypeOK
    <3>2. services'[1] \in stoppable /\ services' # <<>>
      <4>1. services[it] \in stoppable
        BY <1>1, <3>1 DEF FoundAt
      <4>2. services'[1] = services[it]
        BY <1>4, <3>1
      <4>3. services' # <<>>
        BY <1>4, <3>1
      <4> QED
        BY <4>1, <4>2, <4>3
    <3>3. at' = "service" /\ callback' = callback /\ state' = state
      BY <1>1, <1>2, <2>2
    <3>4. callback = "kept" /\ state # "list"
      BY <1>2 DEF Waiting
    <3> HIDE DEF IInv
    <3> QED
      BY <1>2, <3>2, <3>3, <3>4 DEF Waiting
  <2> QED
    BY <2>1, <2>2
<1> QED
  BY <1>4, <1>6, <1>7

\* The first service of the reversed list is the last one there is.
LEMMA CalledBack ==
  ASSUME IInv, CallBack
  PROVE  /\ Len(services) \in Nat \ {0} /\ state = "stop_t"
         /\ Head(services) = Len(services) /\ Len(services) \in stoppable
         /\ services' = SubSeq(services, 2, Len(services))
<1> USE DEF IInv
<1>1. at \in {"service", "later"} /\ services \in Seq(Services)
  BY DEF CallBack, TypeOK
<1>2. services # <<>> /\ services[1] \in stoppable /\ state = "stop_t"
  BY <1>1 DEF Waiting, TypeOK
<1>3. Len(services) \in Nat \ {0}
  BY <1>1, <1>2
<1>4. services[1] = Len(services)
  BY <1>2, <1>3 DEF InOrder, Downwards
<1> QED
  BY <1>1, <1>2, <1>3, <1>4 DEF CallBack

LEMMA CallBackStep == ASSUME IInv, CallBack PROVE IInv'
<1> USE DEF IInv
<1> DEFINE n == Len(services)
<1>1. /\ n \in Nat \ {0} /\ state = "stop_t" /\ Head(services) = n /\ n \in stoppable
      /\ services' = SubSeq(services, 2, n)
  BY CalledBack
<1>2. /\ ready' = ready \union {n} /\ at' = "stop"
      /\ UNCHANGED <<stoppable, state, callback>>
  BY <1>1 DEF CallBack
<1>3. 2 \in 1 .. n + 1 /\ ready' \subseteq stoppable
  BY <1>1, <1>2 DEF TypeOK
<1>4. ready' \subseteq ready \union (n + 2 - 2 .. n)
  BY <1>1, <1>2
<1>5. /\ services' \in Seq(Services) /\ InOrder'
      /\ ready' \in SUBSET (stoppable \ Living')
  BY <1>1, <1>2, <1>3, <1>4, RestOfList
<1>6. callback = "kept"
  BY DEF Waiting, CallBack
<1> QED
  BY <1>1, <1>2, <1>5, <1>6 DEF TypeOK, Waiting, Places

LEMMA NextIInv == IInv /\ [Next]_vars => IInv'
<1> SUFFICES ASSUME IInv, [Next]_vars PROVE IInv'
  OBVIOUS
<1>1. CASE StopInventory
  BY <1>1, StopInventoryStep
<1>2. CASE StopStep
  BY <1>2, StopStepStep
<1>3. CASE ServiceReturns
  BY <1>3 DEF ServiceReturns, IInv, TypeOK, Living, InOrder, Upwards, Downwards,
              Waiting, Places
<1>4. CASE CallBack
  BY <1>4, CallBackStep
<1>5. CASE RunCallback
  BY <1>5 DEF RunCallback, IInv, TypeOK, Living, InOrder, Upwards, Downwards,
              Waiting, Places
<1>6. CASE UNCHANGED vars
  BY <1>6 DEF vars, IInv, TypeOK, Living, InOrder, Upwards, Downwards,
              Waiting, Places
<1> QED
  BY <1>1, <1>2, <1>3, <1>4, <1>5, <1>6 DEF Next

THEOREM Invariance == Spec => []IInv
BY InitIInv, NextIInv, PTL DEF Spec

-----------------------------------------------------------------------------
(* Every state has the declared types; among others, a service that has    *)
(* called back is no longer in the list (inventory.cpp:46-49).             *)
THEOREM TypeCorrect == Spec => []TypeOK
BY Invariance, PTL DEF IInv

(* The living services are always the first ones of the list: no service   *)
(* outlives one that it may use (inventory.cpp:28-52).                     *)
THEOREM DependentsFirstHolds == Spec => []DependentsFirst
<1>1. IInv => DependentsFirst
  <2> SUFFICES ASSUME IInv PROVE DependentsFirst
    OBVIOUS
  <2>1. Living = 1 .. Len(services) /\ Len(services) \in Nat
    BY LivingIsPrefix DEF IInv, TypeOK
  <2> QED
    BY <2>1 DEF DependentsFirst
<1> QED
  BY <1>1, Invariance, PTL

(* A stop that has not been reported is going on: stop_t::stop() is about  *)
(* to run, or the service that is waited for is stoppable and there, so    *)
(* that its callback continues the stop.  It is what StopIsReported needs  *)
(* of every state (inventory.cpp:36-52).                                   *)
THEOREM StopGoesOn ==
  Spec => [](state = "stop_t" /\ callback = "kept" =>
               \/ at = "stop"
               \/ /\ at \in {"service", "later"}
                  /\ services # <<>> /\ services[1] \in stoppable \ ready)
<1>1. IInv => (state = "stop_t" /\ callback = "kept" =>
                 \/ at = "stop"
                 \/ /\ at \in {"service", "later"}
                    /\ services # <<>> /\ services[1] \in stoppable \ ready)
  <2> SUFFICES ASSUME IInv, at # "stop", at # "none"
               PROVE  /\ at \in {"service", "later"}
                      /\ services # <<>> /\ services[1] \in stoppable \ ready
    BY DEF IInv, Waiting
  <2>1. at \in {"service", "later"}
    BY DEF IInv, TypeOK, Places
  <2>2. services # <<>> /\ services[1] \in stoppable
    BY <2>1 DEF IInv, Waiting
  <2>3. services[1] \in Living
    BY <2>2 DEF Living, IInv, TypeOK
  <2> QED
    BY <2>1, <2>2, <2>3 DEF IInv, TypeOK
<1> QED
  BY <1>1, Invariance, PTL

-----------------------------------------------------------------------------
(* The refinement                                                          *)

LEMMA InitTeardown == Init => T!Init
<1> SUFFICES ASSUME Init PROVE T!Init
  OBVIOUS
<1>1. Len(services) = N
  BY InventoryAssumption DEF Init, Services
<1> QED
  BY <1>1 DEF Init, Services, T!Init, T!Services

LEMMA StopStepTeardown == ASSUME IInv, StopStep PROVE T!Next
<1> USE DEF IInv
<1> DEFINE n == Len(services)
<1>1. PICK it \in 1 .. n + 1 :
        /\ FoundAt(it)
        /\ services' = SubSeq(services, it, n)
        /\ IF it = n + 1
           THEN at' = "none" /\ callback' = "posted"
           ELSE at' = "service" /\ UNCHANGED callback
  BY DEF StopStep
<1>2. at = "stop" /\ callback = "kept" /\ state = "stop_t"
  BY DEF StopStep, Waiting, TypeOK
<1>3. UNCHANGED <<stoppable, ready>> /\ n \in Nat
  BY DEF StopStep, TypeOK
<1>4. Len(services') = n + 1 - it
  BY <1>1, <1>3 DEF TypeOK
<1>5. ASSUME NEW i \in n + 1 - it + 1 .. n PROVE i \notin stoppable
  <2>1. n + 1 - i \in 1 .. it - 1 /\ n + 1 - i \in 1 .. n
    BY <1>3
  <2>2. services[n + 1 - i] = i
    BY <1>2, <1>3, <2>1 DEF InOrder, Downwards
  <2>3. services[n + 1 - i] \notin stoppable
    BY <1>1, <2>1 DEF FoundAt
  <2> QED
    BY <2>2, <2>3
<1>6. T!Destroy
  <2>1. Len(services') \in 0 .. n
    BY <1>3, <1>4
  <2> QED
    BY <1>4, <1>5, <2>1 DEF T!Destroy
<1>7. CASE it = n + 1
  <2>1. Len(services') = 0
    BY <1>3, <1>4, <1>7
  <2>2. T!Tell
    BY <1>1, <1>2, <1>3, <1>6, <1>7, <2>1 DEF T!Tell
  <2> QED
    BY <2>2 DEF T!Next
<1>8. CASE it # n + 1
  <2>1. T!Retire
    BY <1>1, <1>3, <1>6, <1>8 DEF T!Retire, T!GetReady
  <2> QED
    BY <2>1 DEF T!Next
<1> QED
  BY <1>7, <1>8

LEMMA CallBackTeardown == ASSUME IInv, CallBack PROVE T!Next
<1> DEFINE n == Len(services)
<1>1. /\ n \in Nat \ {0} /\ Head(services) = n /\ n \in stoppable
      /\ services' = SubSeq(services, 2, n)
  BY CalledBack
<1>2. ready' = ready \union {n} /\ UNCHANGED <<stoppable, callback>>
  BY <1>1 DEF CallBack
<1>3. Len(services') = n - 1
  <2>1. services \in Seq(Services)
    BY DEF IInv, TypeOK
  <2>2. \A it \in 1 .. n + 1 : Len(SubSeq(services, it, n)) = n + 1 - it
    BY <1>1, <2>1
  <2>3. 2 \in 1 .. n + 1
    BY <1>1
  <2>4. Len(SubSeq(services, 2, n)) = n + 1 - 2
    BY <2>2, <2>3
  <2>5. services' = SubSeq(services, 2, n) /\ n \in Nat
    BY <1>1
  <2>6. n + 1 - 2 = n - 1
    BY <2>5
  <2> QED
    BY <2>4, <2>5, <2>6
<1>4. T!Destroy
  <2>1. Len(services') \in 0 .. n
    BY <1>1, <1>3
  <2>2. ASSUME NEW i \in Len(services') + 1 .. n PROVE i \in ready'
    <3>1. i = n
      BY <1>1, <1>3
    <3> QED
      BY <1>2, <3>1
  <2> QED
    BY <2>1, <2>2 DEF T!Destroy
<1>5. T!GetReady
  BY <1>1, <1>2 DEF T!GetReady
<1> QED
  BY <1>2, <1>4, <1>5 DEF T!Next, T!Retire

LEMMA NextTeardown == ASSUME IInv, [Next]_vars PROVE [T!Next]_T!vars
<1>1. CASE StopInventory
  <2>1. Len(services') = Len(services)
    BY <1>1 DEF StopInventory, Reversed, IInv, TypeOK
  <2> QED
    BY <1>1, <2>1 DEF StopInventory, T!vars
<1>2. CASE StopStep
  BY <1>2, StopStepTeardown
<1>3. CASE ServiceReturns
  BY <1>3 DEF ServiceReturns, T!vars
<1>4. CASE CallBack
  BY <1>4, CallBackTeardown
<1>5. CASE RunCallback
  BY <1>5 DEF RunCallback, T!vars
<1>6. CASE UNCHANGED vars
  BY <1>6 DEF vars, T!vars
<1> QED
  BY <1>1, <1>2, <1>3, <1>4, <1>5, <1>6 DEF Next

(* inventory_t::stop() implements Teardown: services go from the last to   *)
(* the first, stoppable ones after they have called back, and the caller   *)
(* is told once, when none is left (inventory.cpp:20-52).                  *)
THEOREM ImplementsTeardown == Spec => TeardownSpec
<1>1. Init => T!Init
  BY InitTeardown
<1>2. IInv /\ [Next]_vars => [T!Next]_T!vars
  BY NextTeardown
<1> QED
  BY <1>1, <1>2, Invariance, PTL DEF Spec, TeardownSpec, T!Spec

=============================================================================
