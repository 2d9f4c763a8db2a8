------------------------- MODULE MonitorProcessProofs -------------------------
(***************************************************************************)
(* Proofs about MonitorProcess for every number of editors and every       *)
(* behaviour of the notifier: type correctness, SettledAfterStop,          *)
(* EndUnderWay and OneHolder.                                              *)
(* Two things carry the argument: an editor is in the hands of one         *)
(* operation or handler at a time, from its announcement to its loss; and  *)
(* something that will end the process is always under way.                *)
(***************************************************************************)
EXTENDS MonitorProcess, SequenceTheorems, TLAPS

QueueItem == [kind : ClientKinds \union {"signal"} \union PostedKinds,
              who : Clients, ok : BOOLEAN]

\* An operation or a handler that has an editor in its hands.
EditorKinds == {"message", "connect", "read"}
HoldsOne(x) == x.kind \in EditorKinds
HandsOver(h) == HoldsOne(h) \/ (h.kind = "accept" /\ h.ok)

\* One operation or handler per editor, and only for those that were announced.
OneHolder ==
  /\ \A o1, o2 \in ops : HoldsOne(o1) /\ HoldsOne(o2) /\ o1.who = o2.who => o1 = o2
  /\ \A o \in ops, i \in Queued :
       HoldsOne(o) /\ HandsOver(queue[i]) => o.who # queue[i].who
  /\ \A i, j \in Queued :
       HandsOver(queue[i]) /\ HandsOver(queue[j]) /\ queue[i].who = queue[j].who
         => i = j
  /\ \A o \in ops : HoldsOne(o) => o.who \in arrived
  /\ \A i \in Queued : HandsOver(queue[i]) => queue[i].who \in arrived

IInv == TypeOK /\ SettledAfterStop /\ OneHolder /\ EndUnderWay

-----------------------------------------------------------------------------
(* The queue                                                               *)

\* The queue gets h at its end.
Joins(h) ==
  /\ queue' \in Seq(QueueItem)
  /\ Len(queue') = Len(queue) + 1
  /\ \A i \in Queued : queue'[i] = queue[i]
  /\ queue'[Len(queue) + 1] = h

\* The head leaves the queue, the others move up, what follows was posted.
Advances ==
  /\ queue' \in Seq(QueueItem)
  /\ \A i \in 1 .. Len(queue) - 1 : i \in 1 .. Len(queue') /\ queue'[i] = queue[i + 1]
  /\ \A i \in 1 .. Len(queue') :
       i \in 1 .. Len(queue) - 1 \/ queue'[i].kind \in PostedKinds

LEMMA AppendJoins ==
  ASSUME queue \in Seq(QueueItem), NEW h \in QueueItem, queue' = Append(queue, h)
  PROVE  Joins(h)
BY DEF Queued, Joins

LEMMA PostedIsItem ==
  ASSUME NEW kind \in PostedKinds
  PROVE  /\ Posted(kind) \in QueueItem
         /\ Posted(kind).kind = kind
         /\ ~ HandsOver(Posted(kind))
BY MonitorAssumption
   DEF Posted, Handler, QueueItem, PostedKinds, HandsOver, HoldsOne, EditorKinds

LEMMA RestAdvances ==
  ASSUME queue \in Seq(QueueItem), queue # <<>>, Rest(<<>>)
  PROVE  Advances
<1>1. Tail(queue) \o <<>> = Tail(queue)
  OBVIOUS
<1>2. queue' = Tail(queue)
  BY <1>1 DEF Rest
<1> QED
  BY <1>2 DEF Advances

LEMMA RestPosts ==
  ASSUME queue \in Seq(QueueItem), queue # <<>>, NEW kind \in PostedKinds,
         Rest(<<Posted(kind)>>)
  PROVE  Advances /\ Len(queue) \in 1 .. Len(queue') /\ queue'[Len(queue)] = Posted(kind)
<1> DEFINE p == Posted(kind)
<1>1. p \in QueueItem /\ p.kind \in PostedKinds
  BY PostedIsItem
<1>2. queue' = Tail(queue) \o <<p>>
  BY DEF Rest
<1> HIDE DEF p
<1>3. Tail(queue) \in Seq(QueueItem) /\ Len(Tail(queue)) = Len(queue) - 1
  OBVIOUS
<1>4. queue' = Append(Tail(queue), p)
  BY <1>1, <1>2, <1>3, AppendIsConcat
<1>5. Len(queue') = Len(queue) /\ queue'[Len(queue)] = p
  BY <1>1, <1>3, <1>4
<1>6. Advances
  <2>1. queue' \in Seq(QueueItem)
    BY <1>1, <1>3, <1>4
  <2>2. \A i \in 1 .. Len(queue) - 1 : Tail(queue)[i] = queue[i + 1]
    OBVIOUS
  <2>3. \A i \in 1 .. Len(queue) - 1 : queue'[i] = Tail(queue)[i]
    BY <1>1, <1>3, <1>4, AppendProperties
  <2> QED
    BY <1>1, <1>5, <2>1, <2>2, <2>3 DEF Advances
<1>7. Len(queue) \in 1 .. Len(queue')
  BY <1>5
<1> QED
  BY <1>5, <1>6, <1>7 DEF p

-----------------------------------------------------------------------------
(* What a step must do to keep the invariant                               *)

\* The handler that runs may pass its editor on to one operation.
LEMMA HolderPassesOn ==
  ASSUME OneHolder, queue \in Seq(QueueItem), queue # <<>>, Advances,
         arrived' = arrived,
         \A o \in ops' \ ops :
           HoldsOne(o) => HandsOver(Head(queue)) /\ o.who = Head(queue).who,
         \A o1, o2 \in ops' \ ops : HoldsOne(o1) /\ HoldsOne(o2) => o1 = o2
  PROVE  OneHolder'
<1> DEFINE Moved(i) == i + 1
<1>1. Head(queue) = queue[1] /\ 1 \in Queued
  BY DEF Queued
<1>2. ASSUME NEW i \in Queued', HandsOver(queue'[i])
      PROVE  i + 1 \in Queued /\ queue'[i] = queue[i + 1]
  BY <1>2, SMTT(30) DEF Advances, Queued, HandsOver, HoldsOne, EditorKinds, PostedKinds
<1>3. \A o1, o2 \in ops' : HoldsOne(o1) /\ HoldsOne(o2) /\ o1.who = o2.who => o1 = o2
  BY <1>1 DEF OneHolder
<1>4. \A o \in ops', i \in Queued' :
        HoldsOne(o) /\ HandsOver(queue'[i]) => o.who # queue'[i].who
  <2> SUFFICES ASSUME NEW o \in ops', NEW i \in Queued', HoldsOne(o),
                      HandsOver(queue'[i])
               PROVE  o.who # queue'[i].who
    OBVIOUS
  <2>1. i + 1 \in Queued /\ queue'[i] = queue[i + 1] /\ i + 1 # 1
    BY <1>2 DEF Queued
  <2> QED
    BY <1>1, <2>1 DEF OneHolder
<1>5. \A i, j \in Queued' :
        HandsOver(queue'[i]) /\ HandsOver(queue'[j]) /\ queue'[i].who = queue'[j].who
          => i = j
  <2> SUFFICES ASSUME NEW i \in Queued', NEW j \in Queued', HandsOver(queue'[i]),
                      HandsOver(queue'[j]), queue'[i].who = queue'[j].who
               PROVE  i = j
    OBVIOUS
  <2>1. i + 1 = j + 1
    BY <1>2 DEF OneHolder
  <2> QED
    BY <2>1 DEF Queued
<1>6. \A o \in ops' : HoldsOne(o) => o.who \in arrived'
  BY <1>1 DEF OneHolder
<1>7. \A i \in Queued' : HandsOver(queue'[i]) => queue'[i].who \in arrived'
  BY <1>2 DEF OneHolder
<1> QED
  BY <1>3, <1>4, <1>5, <1>6, <1>7 DEF OneHolder

\* A handler that neither loses an editor nor ends a stop keeps things going.
LEMMA WayKept ==
  ASSUME EndUnderWay, queue \in Seq(QueueItem), queue # <<>>, Advances,
         AtWork, active' = active,
         Head(queue).kind # "stopped",
         active => /\ Head(queue).kind \notin {"read", "finished"}
                   /\ jobs \subseteq jobs'
                   /\ \A c \in jobs : Op("read", c) \in ops => Op("read", c) \in ops'
                   /\ \A c \in jobs' \ jobs : Op("read", c) \in ops'
  PROVE  EndUnderWay'
<1>1. Head(queue) = queue[1]
  OBVIOUS
<1>2. \A i \in Queued : i = 1 \/ (i - 1 \in Queued' /\ queue'[i - 1] = queue[i])
  BY DEF Queued, Advances
<1>3. CASE ~ active
  BY <1>1, <1>2, <1>3 DEF EndUnderWay
<1>4. CASE active
  <2>1. \A c \in Clients : Handler("read", c, TRUE).kind = "read"
    BY DEF Handler
  <2> QED
    BY <1>1, <1>2, <1>4, <2>1 DEF EndUnderWay, Handler
<1> QED
  BY <1>3, <1>4

\* A step that changes neither the queue nor the services keeps what is said
\* of them.
LEMMA ServicesKept ==
  ASSUME IInv, UNCHANGED <<queue, services>>, AtWork' => AtWork
  PROVE  SettledAfterStop' /\ OneHolder' /\ EndUnderWay'
BY DEF IInv, SettledAfterStop, OneHolder, EndUnderWay, Queued, services

-----------------------------------------------------------------------------
(* Init and the main thread                                                *)

LEMMA InitIInv == Init => IInv
<1> SUFFICES ASSUME Init PROVE IInv
  OBVIOUS
<1>1. TypeOK
  <2>1. Op("read", First) \in {o \in Operation : o.kind = "read" => o.who \in jobs}
    BY MonitorAssumption DEF Init, Op, Operation, ClientKinds
  <2>2. queue \in Seq([kind : ClientKinds \union {"signal"} \union PostedKinds,
                       who : Clients, ok : BOOLEAN])
    BY DEF Init
  <2> QED
    BY <2>1, <2>2, MonitorAssumption DEF Init, TypeOK
<1>2. SettledAfterStop /\ EndUnderWay
  BY DEF Init, SettledAfterStop, EndUnderWay
<1>3. OneHolder
  BY DEF Init, OneHolder, Op, Queued
<1> QED
  BY <1>1, <1>2, <1>3 DEF IInv

LEMMA MainStep == ASSUME IInv, MainThread \/ MainThrows PROVE IInv'
<1> USE DEF IInv
<1>1. CASE Spawn \/ Register \/ RunNotifier \/ NotifierReturns \/ Exit \/ MainThrows
  <2> USE DEF Spawn, Register, RunNotifier, NotifierReturns, Exit, MainThrows,
              SpawnThrows, SetupThrows
  <2>1. UNCHANGED <<queue, services>> /\ stopped' = stopped
    BY <1>1
  <2>2. io' = io \/ io = "none"
    BY <1>1
  <2>3. TypeOK'
    BY <1>1 DEF TypeOK, MainAt, services
  <2>4. AtWork' => AtWork
    BY <2>1, <2>2 DEF AtWork
  <2> QED
    BY <2>1, <2>3, <2>4, ServicesKept
<1>2. CASE AwaitSignals
  <2>1. Op("signal", First) \in Operation /\ Op("signal", First).kind = "signal"
    BY MonitorAssumption DEF Op, Operation
  <2>2. /\ ops' = ops \union {Op("signal", First)}
        /\ UNCHANGED <<io, stopped, queue, active, jobs, arrived>>
    BY <1>2 DEF AwaitSignals
  <2>3. TypeOK'
    BY <1>2, <2>1 DEF AwaitSignals, MainAt, TypeOK
  <2>4. SettledAfterStop'
    BY <2>1, <2>2 DEF SettledAfterStop, ClientKinds
  <2>5. OneHolder'
    BY <2>1, <2>2 DEF OneHolder, HoldsOne, EditorKinds, Queued
  <2>6. EndUnderWay'
    BY <2>2 DEF EndUnderWay, AtWork, Queued
  <2> QED
    BY <2>3, <2>4, <2>5, <2>6
<1>3. CASE PostReload
  <2> DEFINE h == Posted("reload")
  <2>1. h \in QueueItem /\ ~ HandsOver(h)
    BY PostedIsItem DEF PostedKinds
  <2>2. queue \in Seq(QueueItem) /\ queue' = Append(queue, h)
    BY <1>3 DEF PostReload, TypeOK, QueueItem
  <2> HIDE DEF h
  <2>3. Joins(h)
    BY <2>1, <2>2, AppendJoins
  <2>4. UNCHANGED <<io, stopped, services>>
    BY <1>3 DEF PostReload
  <2>5. TypeOK'
    BY <1>3, <2>3 DEF PostReload, MainAt, TypeOK, QueueItem, services, Joins
  <2>6. SettledAfterStop'
    BY <2>4 DEF SettledAfterStop, services
  <2>7. OneHolder'
    BY <2>1, <2>2, <2>3, <2>4 DEF OneHolder, services, Queued, Joins
  <2>8. \A i \in Queued : i \in Queued' /\ queue'[i] = queue[i]
    BY <2>2, <2>3 DEF Queued, Joins
  <2>9. EndUnderWay'
    BY <2>4, <2>8 DEF EndUnderWay, AtWork, services
  <2> QED
    BY <2>5, <2>6, <2>7, <2>9
<1> QED
  BY <1>1, <1>2, <1>3 DEF MainThread

-----------------------------------------------------------------------------
(* The kernel                                                              *)

\* A completed operation hands its editor to its handler.
LEMMA CompleteStep == ASSUME IInv, NEW o \in Operation, Complete(o) PROVE IInv'
<1> USE DEF IInv
<1>1. PICK h \in Outcomes(o) :
        /\ queue' = Append(queue, h)
        /\ arrived' = IF h.kind = "accept" THEN arrived \union {h.who} ELSE arrived
  BY DEF Complete
<1>2. /\ o \in ops /\ ops' = ops \ {o}
      /\ UNCHANGED <<threads, io, stopped, active, jobs, trouble>>
  BY DEF Complete
<1>3. /\ h \in QueueItem /\ h.kind = o.kind
      /\ HandsOver(h) => IF HoldsOne(o) THEN h.who = o.who
                                        ELSE h.kind = "accept" /\ h.who \notin arrived
      /\ o.kind = "read" => h = Handler("read", o.who, TRUE)
  <2>1. o.who \in Clients /\ o.kind \in ClientKinds \union {"signal"}
    BY DEF Operation
  <2>2. CASE o.kind = "accept"
    <3>1. PICK c \in Clients, ok \in BOOLEAN :
            h = Handler("accept", c, ok) /\ (ok => c \notin arrived)
      BY <2>2, MonitorAssumption DEF Outcomes
    <3>2. h.kind = "accept" /\ h.who = c /\ h.ok = ok
      BY <3>1 DEF Handler
    <3>3. h \in QueueItem
      BY <3>1 DEF Handler, QueueItem, ClientKinds
    <3> QED
      BY <2>2, <3>1, <3>2, <3>3 DEF HandsOver, HoldsOne, EditorKinds
  <2>3. CASE o.kind \in {"message", "connect"}
    <3>1. PICK ok \in BOOLEAN : h = Handler(o.kind, o.who, ok)
      BY <2>3 DEF Outcomes
    <3>2. h \in QueueItem /\ h.kind = o.kind /\ h.who = o.who
      BY <2>1, <3>1 DEF Handler, QueueItem
    <3> QED
      BY <2>3, <3>2 DEF HandsOver, HoldsOne, EditorKinds
  <2>4. CASE o.kind \in {"read", "signal"}
    <3>1. h = Handler(o.kind, o.who, TRUE)
      BY <2>4 DEF Outcomes
    <3> QED
      BY <2>1, <2>4, <3>1 DEF Handler, QueueItem, HandsOver, HoldsOne, EditorKinds
  <2> QED
    BY <2>1, <2>2, <2>3, <2>4 DEF ClientKinds
<1>4. queue \in Seq(QueueItem)
  BY DEF TypeOK, QueueItem
<1>5. Joins(h)
  BY <1>1, <1>3, <1>4, AppendJoins
<1>6. \A i \in Queued : i \in Queued' /\ queue'[i] = queue[i]
  BY <1>4, <1>5 DEF Queued, Joins
<1>7. Len(queue) + 1 \in Queued' /\ queue'[Len(queue) + 1] = h
  BY <1>4, <1>5 DEF Queued, Joins
<1>8. \A i \in Queued' : i \in Queued \/ i = Len(queue) + 1
  BY <1>4, <1>5 DEF Queued, Joins
<1>9. TypeOK'
  BY <1>1, <1>2, <1>3, <1>5 DEF TypeOK, Joins, QueueItem, threads
<1>10. SettledAfterStop'
  BY <1>2 DEF SettledAfterStop
<1>11. OneHolder'
  <2>1. \A o1, o2 \in ops' :
          HoldsOne(o1) /\ HoldsOne(o2) /\ o1.who = o2.who => o1 = o2
    BY <1>2 DEF OneHolder
  <2>2. HandsOver(h) => \A i \in Queued : HandsOver(queue[i]) => queue[i].who # h.who
    BY <1>2, <1>3 DEF OneHolder
  <2>3. \A o1 \in ops', i \in Queued' :
          HoldsOne(o1) /\ HandsOver(queue'[i]) => o1.who # queue'[i].who
    BY <1>2, <1>3, <1>6, <1>7, <1>8 DEF OneHolder
  <2>4. \A i, j \in Queued' :
          HandsOver(queue'[i]) /\ HandsOver(queue'[j]) /\ queue'[i].who = queue'[j].who
            => i = j
    BY <2>2, <1>6, <1>7, <1>8 DEF OneHolder
  <2>5. arrived \subseteq arrived' /\ (h.kind = "accept" => h.who \in arrived')
    BY <1>1
  <2>6. HandsOver(h) => h.who \in arrived'
    BY <1>2, <1>3, <2>5 DEF OneHolder
  <2>7. \A o1 \in ops' : HoldsOne(o1) => o1.who \in arrived'
    BY <1>2, <2>5 DEF OneHolder
  <2>8. \A i \in Queued' : HandsOver(queue'[i]) => queue'[i].who \in arrived'
    BY <1>6, <1>7, <1>8, <2>5, <2>6 DEF OneHolder
  <2> QED
    BY <2>1, <2>3, <2>4, <2>7, <2>8 DEF OneHolder
<1>12. EndUnderWay'
  <2>1. \A c \in jobs : o = Op("read", c) => h = Handler("read", c, TRUE)
    BY <1>3 DEF Op
  <2> QED
    BY <1>2, <1>6, <1>7, <2>1 DEF EndUnderWay, AtWork
<1> QED
  BY <1>9, <1>10, <1>11, <1>12

-----------------------------------------------------------------------------
(* The io thread                                                           *)

\* What the run of a handler that posts nothing gives each proof below.
LEMMA RunsFacts ==
  ASSUME TypeOK, NEW kind, NEW h, Runs(kind, h)
  PROVE  /\ queue \in Seq(QueueItem) /\ queue # <<>>
         /\ Head(queue) = h /\ h.kind = kind /\ h \in QueueItem
         /\ io = "run" /\ ~ stopped /\ AtWork
<1>1. queue \in Seq(QueueItem)
  BY DEF TypeOK, QueueItem
<1> QED
  BY <1>1 DEF Runs, AtWork

LEMMA ReloadStep == ASSUME IInv, HandleReload PROVE IInv'
<1> USE DEF IInv
<1>1. PICK h \in {Posted("reload")} :
        /\ Runs("reload", h)
        /\ Rest(<<>>)
        /\ IF active THEN ops' = ops \union {Op("accept", First)} /\ io' = io
                     ELSE io' = "aborted" /\ ops' = ops
        /\ UNCHANGED <<threads, stopped, active, jobs, arrived, trouble>>
  BY DEF HandleReload
<1>2. /\ queue \in Seq(QueueItem) /\ queue # <<>> /\ Advances
      /\ Head(queue).kind = "reload" /\ io = "run" /\ AtWork
  BY <1>1, RunsFacts, RestAdvances
<1>3. Op("accept", First) \in Operation /\ Op("accept", First).kind = "accept"
  BY MonitorAssumption DEF Op, Operation, ClientKinds
<1>4. TypeOK'
  BY <1>1, <1>2, <1>3 DEF TypeOK, Advances, QueueItem, threads
<1>5. SettledAfterStop'
  BY <1>1 DEF SettledAfterStop
<1>6. OneHolder'
  BY <1>1, <1>2, <1>3, HolderPassesOn DEF HoldsOne, EditorKinds
<1>7. EndUnderWay'
  BY <1>1, <1>2, WayKept
<1> QED
  BY <1>4, <1>5, <1>6, <1>7

LEMMA AcceptStep == ASSUME IInv, HandleAccept PROVE IInv'
<1> USE DEF IInv
<1>1. PICK c \in Clients, ok \in BOOLEAN :
        /\ Runs("accept", Handler("accept", c, ok))
        /\ Rest(<<>>)
        /\ IF ~ active THEN UNCHANGED <<ops, io, trouble>>
           ELSE IF ok THEN /\ ops' = ops \union {Op("message", c), Op("accept", First)}
                           /\ UNCHANGED <<io, trouble>>
           ELSE Throws /\ ops' = ops
        /\ UNCHANGED <<threads, stopped, active, jobs, arrived>>
  BY DEF HandleAccept
<1>2. /\ queue \in Seq(QueueItem) /\ queue # <<>> /\ Advances
      /\ Head(queue) = Handler("accept", c, ok) /\ io = "run" /\ AtWork
  BY <1>1, RunsFacts, RestAdvances
<1>3. /\ Op("accept", First) \in Operation /\ Op("message", c) \in Operation
      /\ ~ HoldsOne(Op("accept", First)) /\ Op("message", c).who = c
      /\ Op("accept", First).kind = "accept" /\ Op("message", c).kind = "message"
  BY MonitorAssumption DEF Op, Operation, ClientKinds, HoldsOne, EditorKinds
<1>4. /\ Head(queue).kind = "accept" /\ Head(queue).who = c
      /\ ok => HandsOver(Head(queue))
  BY <1>2 DEF Handler, HandsOver
<1>5. TypeOK'
  <2>1. ops' \in SUBSET {o \in Operation : o.kind = "read" => o.who \in jobs}
    BY <1>1, <1>3 DEF TypeOK
  <2>2. trouble' \in SUBSET Troubles /\ io' \in {"run", "left"}
    BY <1>1, <1>2 DEF TypeOK, Troubles, Throws
  <2> QED
    BY <1>1, <1>2, <2>1, <2>2 DEF TypeOK, Advances, QueueItem, threads
<1>6. SettledAfterStop'
  BY <1>1 DEF SettledAfterStop
<1>7. OneHolder'
  <2>1. \/ ops' \subseteq ops
        \/ ok /\ ops' = ops \union {Op("message", c), Op("accept", First)}
    BY <1>1
  <2> QED
    BY <1>1, <1>2, <1>3, <1>4, <2>1, HolderPassesOn
<1>8. EndUnderWay'
  <2>1. ops \subseteq ops'
    BY <1>1
  <2> QED
    BY <1>1, <1>2, <1>4, <2>1, WayKept
<1> QED
  BY <1>5, <1>6, <1>7, <1>8

LEMMA MessageStep == ASSUME IInv, HandleMessage PROVE IInv'
<1> USE DEF IInv
<1>1. PICK c \in Clients, ok \in BOOLEAN :
        /\ Runs("message", Handler("message", c, ok))
        /\ Rest(<<>>)
        /\ ops' = IF active /\ ok THEN ops \union {Op("connect", c)} ELSE ops
        /\ \/ UNCHANGED <<io, trouble>>
           \/ active /\ ~ ok /\ Throws
        /\ UNCHANGED <<threads, stopped, active, jobs, arrived>>
  BY DEF HandleMessage
<1>2. /\ queue \in Seq(QueueItem) /\ queue # <<>> /\ Advances
      /\ Head(queue) = Handler("message", c, ok) /\ io = "run" /\ AtWork
  BY <1>1, RunsFacts, RestAdvances
<1>3. /\ Op("connect", c) \in Operation
      /\ Op("connect", c).who = c /\ Op("connect", c).kind = "connect"
  BY DEF Op, Operation, ClientKinds
<1>4. /\ Head(queue).kind = "message" /\ Head(queue).who = c
      /\ HandsOver(Head(queue))
  BY <1>2 DEF Handler, HandsOver, HoldsOne, EditorKinds
<1>5. TypeOK'
  <2>1. trouble' \in SUBSET Troubles /\ io' \in {"run", "left"}
    BY <1>1, <1>2 DEF TypeOK, Troubles, Throws
  <2>2. ops' \in SUBSET {o \in Operation : o.kind = "read" => o.who \in jobs'}
    BY <1>1, <1>3 DEF TypeOK
  <2> QED
    BY <1>1, <1>2, <2>1, <2>2 DEF TypeOK, Advances, QueueItem, threads
<1>6. SettledAfterStop'
  BY <1>1 DEF SettledAfterStop
<1>7. OneHolder'
  BY <1>1, <1>2, <1>3, <1>4, HolderPassesOn
<1>8. EndUnderWay'
  BY <1>1, <1>2, <1>4, WayKept
<1> QED
  BY <1>5, <1>6, <1>7, <1>8

LEMMA ConnectStep == ASSUME IInv, HandleConnect PROVE IInv'
<1> USE DEF IInv
<1>1. PICK c \in Clients, ok \in BOOLEAN :
        /\ Runs("connect", Handler("connect", c, ok))
        /\ Rest(<<>>)
        /\ jobs' = IF active /\ ok THEN jobs \union {c} ELSE jobs
        /\ ops' = IF active /\ ok THEN ops \union {Op("read", c)} ELSE ops
        /\ UNCHANGED <<threads, io, stopped, active, arrived, trouble>>
  BY DEF HandleConnect
<1>2. /\ queue \in Seq(QueueItem) /\ queue # <<>> /\ Advances
      /\ Head(queue) = Handler("connect", c, ok) /\ AtWork
  BY <1>1, RunsFacts, RestAdvances
<1>3. /\ Op("read", c) \in Operation
      /\ Op("read", c).who = c /\ Op("read", c).kind = "read"
  BY DEF Op, Operation, ClientKinds
<1>4. /\ Head(queue).kind = "connect" /\ Head(queue).who = c
      /\ HandsOver(Head(queue))
  BY <1>2 DEF Handler, HandsOver, HoldsOne, EditorKinds
<1>5. TypeOK'
  BY <1>1, <1>2, <1>3 DEF TypeOK, Advances, QueueItem, threads
<1>6. SettledAfterStop'
  BY <1>1 DEF SettledAfterStop
<1>7. OneHolder'
  BY <1>1, <1>2, <1>3, <1>4, HolderPassesOn
<1>8. EndUnderWay'
  BY <1>1, <1>2, <1>4, WayKept
<1> QED
  BY <1>5, <1>6, <1>7, <1>8

\* The reader of an editor ends, and with it the job.
LEMMA LostStep == ASSUME IInv, HandleLost PROVE IInv'
<1> USE DEF IInv
<1>1. PICK c \in Clients, ok \in BOOLEAN :
        /\ Runs("read", Handler("read", c, ok))
        /\ IF active THEN jobs' = jobs \ {c} /\ Rest(PostIfEmpty(jobs'))
                     ELSE jobs' = jobs /\ Rest(<<>>)
        /\ UNCHANGED <<threads, io, stopped, ops, active, arrived, trouble>>
  BY DEF HandleLost
<1>2. /\ queue \in Seq(QueueItem) /\ queue # <<>>
      /\ Head(queue) = Handler("read", c, ok) /\ AtWork
  BY <1>1, RunsFacts
<1>3. /\ Head(queue).kind = "read" /\ Head(queue).who = c
      /\ HandsOver(Head(queue))
  BY <1>2 DEF Handler, HandsOver, HoldsOne, EditorKinds
<1>4. /\ Advances
      /\ active /\ jobs' = {} =>
           Len(queue) \in Queued' /\ queue'[Len(queue)] = Posted("finished")
  <2>1. CASE active /\ jobs' = {}
    <3>1. Rest(<<Posted("finished")>>)
      BY <1>1, <2>1 DEF PostIfEmpty
    <3> QED
      BY <1>2, <3>1, RestPosts DEF PostedKinds, Queued
  <2>2. CASE ~ (active /\ jobs' = {})
    <3>1. Rest(<<>>)
      BY <1>1, <2>2 DEF PostIfEmpty
    <3> QED
      BY <1>2, <2>2, <3>1, RestAdvances
  <2> QED
    BY <2>1, <2>2
<1>5. TypeOK'
  <2>1. \A o \in ops : o.kind = "read" => o.who # c
    BY <1>2, <1>3 DEF OneHolder, HoldsOne, EditorKinds, Queued
  <2>2. jobs' \in SUBSET Clients /\ \A o \in ops : o.kind = "read" => o.who \in jobs'
    BY <1>1, <2>1 DEF TypeOK
  <2> QED
    BY <1>1, <1>4, <2>2 DEF TypeOK, Advances, QueueItem, threads
<1>6. SettledAfterStop'
  BY <1>1 DEF SettledAfterStop
<1>7. OneHolder'
  BY <1>1, <1>2, <1>4, HolderPassesOn
<1>8. EndUnderWay'
  <2>1. CASE ~ active
    BY <1>1, <1>2, <1>3, <1>4, <2>1, WayKept
  <2>2. CASE active
    <3>1. AtWork
      BY <1>2
    <3>2. jobs' # {} \/ \E i \in Queued' : queue'[i].kind = "finished"
      BY <1>4, <2>2, PostedIsItem DEF PostedKinds
    <3>3. ASSUME NEW d \in jobs'
          PROVE  \/ Op("read", d) \in ops'
                 \/ \E i \in Queued' : queue'[i] = Handler("read", d, TRUE)
      <4>1. d \in jobs /\ d # c
        BY <1>1, <2>2
      <4>2. CASE Op("read", d) \in ops
        BY <1>1, <4>2
      <4>3. CASE \E i \in Queued : queue[i] = Handler("read", d, TRUE)
        <5>1. PICK i \in Queued : queue[i] = Handler("read", d, TRUE)
          BY <4>3
        <5>2. i # 1
          BY <1>2, <1>3, <4>1, <5>1 DEF Handler
        <5>3. i - 1 \in Queued' /\ queue'[i - 1] = queue[i]
          BY <1>2, <1>4, <5>2 DEF Advances, Queued
        <5> QED
          BY <5>1, <5>3
      <4> QED
        BY <2>2, <3>1, <4>1, <4>2, <4>3 DEF EndUnderWay
    <3>4. active'
      BY <1>1, <2>2
    <3> QED
      BY <3>2, <3>3, <3>4 DEF EndUnderWay
  <2> QED
    BY <2>1, <2>2
<1> QED
  BY <1>5, <1>6, <1>7, <1>8

\* The editor in the head's hands is dropped, and so is the io thread.
LEMMA BadMessageStep == ASSUME IInv, HandleBadMessage PROVE IInv'
<1> USE DEF IInv
<1>1. PICK c \in Clients :
        /\ Runs("read", Handler("read", c, TRUE)) /\ active
        /\ Rest(<<>>)
        /\ Throws
        /\ UNCHANGED <<threads, stopped, services>>
  BY DEF HandleBadMessage
<1>2. queue \in Seq(QueueItem) /\ queue # <<>> /\ Advances
  BY <1>1, RunsFacts, RestAdvances
<1>3. TypeOK'
  BY <1>1, <1>2 DEF TypeOK, Advances, QueueItem, services, threads, Throws, Troubles
<1>4. SettledAfterStop'
  BY <1>1 DEF SettledAfterStop, services
<1>5. OneHolder'
  BY <1>1, <1>2, HolderPassesOn DEF services
<1>6. EndUnderWay'
  BY <1>1 DEF EndUnderWay, AtWork, Throws
<1> QED
  BY <1>3, <1>4, <1>5, <1>6

\* The stop cancels the operations of every editor and posts its callback.
LEMMA StopStep ==
  ASSUME IInv, NEW kind \in {"signal", "finished"}, HandleStop(kind)
  PROVE  IInv'
<1> USE DEF IInv
<1>1. /\ Runs(kind, Handler(kind, First, TRUE))
      /\ \/ active /\ StopInventory
         \/ /\ ~ active
            /\ trouble' = trouble \union {"warned"}
            /\ Rest(<<>>)
            /\ UNCHANGED <<active, jobs, ops>>
      /\ UNCHANGED <<threads, io, stopped, arrived>>
  BY DEF HandleStop
<1>2. /\ queue \in Seq(QueueItem) /\ queue # <<>>
      /\ Head(queue).kind = kind /\ AtWork
  BY <1>1, RunsFacts DEF Handler
<1>3. CASE active /\ StopInventory
  <2>1. /\ Advances
        /\ Len(queue) \in Queued' /\ queue'[Len(queue)] = Posted("stopped")
    BY <1>2, <1>3, RestPosts DEF StopInventory, PostedKinds, Queued
  <2>2. /\ active' = FALSE /\ jobs' = {} /\ trouble' = trouble
        /\ ops' = {o \in ops : o.kind \notin ClientKinds}
    BY <1>3 DEF StopInventory
  <2>3. TypeOK'
    <3>1. ops' \in SUBSET {o \in Operation : o.kind = "read" => o.who \in jobs'}
      BY <2>2 DEF TypeOK, ClientKinds
    <3>2. active' \in BOOLEAN /\ jobs' \in SUBSET Clients
      BY <2>2
    <3>3. UNCHANGED <<main, notifier, exit_code, io, stopped, arrived, trouble>>
      BY <1>1, <2>2 DEF threads
    <3> QED
      BY <2>1, <3>1, <3>2, <3>3 DEF TypeOK, Advances, QueueItem
  <2>4. SettledAfterStop'
    BY <2>2 DEF SettledAfterStop
  <2>5. OneHolder'
    BY <1>1, <1>2, <2>1, <2>2, HolderPassesOn
  <2>6. EndUnderWay'
    BY <2>1, <2>2, PostedIsItem DEF EndUnderWay, PostedKinds
  <2> QED
    BY <2>3, <2>4, <2>5, <2>6
<1>4. CASE ~ active
  <2>1. /\ trouble' = trouble \union {"warned"}
        /\ Rest(<<>>)
        /\ UNCHANGED <<active, jobs, ops>>
    BY <1>1, <1>4
  <2>2. Advances
    BY <1>2, <2>1, RestAdvances
  <2>3. TypeOK'
    BY <1>1, <2>1, <2>2 DEF TypeOK, Advances, QueueItem, threads, Troubles
  <2>4. SettledAfterStop'
    BY <2>1 DEF SettledAfterStop
  <2>5. OneHolder'
    BY <1>1, <1>2, <2>1, <2>2, HolderPassesOn
  <2>6. EndUnderWay'
    BY <1>1, <1>2, <1>4, <2>1, <2>2, WayKept
  <2> QED
    BY <2>3, <2>4, <2>5, <2>6
<1> QED
  BY <1>1, <1>3, <1>4

LEMMA StoppedStep == ASSUME IInv, HandleStopped PROVE IInv'
<1> USE DEF IInv
<1>1. /\ Runs("stopped", Posted("stopped"))
      /\ Rest(<<>>) /\ StopNotifier /\ stopped' = TRUE
      /\ UNCHANGED <<main, exit_code, io, services, trouble>>
  BY DEF HandleStopped
<1>2. queue \in Seq(QueueItem) /\ queue # <<>> /\ Advances
  BY <1>1, RunsFacts, RestAdvances
<1>3. TypeOK'
  BY <1>1, <1>2 DEF TypeOK, Advances, QueueItem, services, StopNotifier
<1>4. SettledAfterStop'
  BY <1>1 DEF SettledAfterStop, services
<1>5. OneHolder'
  BY <1>1, <1>2, HolderPassesOn DEF services
<1>6. EndUnderWay'
  BY <1>1 DEF EndUnderWay, AtWork
<1> QED
  BY <1>3, <1>4, <1>5, <1>6

LEMMA LeaveStep == ASSUME IInv, LeaveRun \/ GuardStops PROVE IInv'
<1> USE DEF IInv
<1>1. UNCHANGED <<queue, services>> /\ ~ AtWork'
  BY DEF LeaveRun, GuardStops, AtWork
<1>2. TypeOK'
  BY DEF LeaveRun, GuardStops, TypeOK, services, threads, StopNotifier
<1> QED
  BY <1>1, <1>2, ServicesKept

-----------------------------------------------------------------------------
LEMMA NextIInv == IInv /\ [Next]_vars => IInv'
<1> SUFFICES ASSUME IInv, [Next]_vars PROVE IInv'
  OBVIOUS
<1>1. CASE MainThread \/ MainThrows
  BY <1>1, MainStep
<1>2. CASE IoThread
  BY <1>2, ReloadStep, AcceptStep, MessageStep, ConnectStep, LostStep,
     BadMessageStep, StopStep,
     StoppedStep, LeaveStep DEF IoThread
<1>3. CASE Kernel
  BY <1>3, CompleteStep DEF Kernel
<1>4. CASE UNCHANGED vars
  <2>1. TypeOK'
    BY <1>4 DEF IInv, TypeOK, vars
  <2> QED
    BY <1>4, <2>1, ServicesKept DEF IInv, vars, services, AtWork
<1> QED
  BY <1>1, <1>2, <1>3, <1>4 DEF Next

(* The invariant that the theorems below rest on: every editor is in one   *)
(* operation's or handler's hands, and an end is always under way.         *)
THEOREM Invariance == Spec => []IInv
BY InitIInv, NextIInv, PTL DEF Spec

(* Type correctness; a reader belongs to an editor that has a job, however *)
(* reads, stops and new editors interleave (neovim.cpp:43-53, 59-62).      *)
THEOREM TypeCorrect == Spec => []TypeOK
BY Invariance, PTL DEF IInv

(* Once the inventory stops, no handler that was queued before starts an   *)
(* operation or a job again (inventory.cpp:20-24, callback_wrapper.hpp).   *)
THEOREM SettledAfterStopHolds == Spec => []SettledAfterStop
BY Invariance, PTL DEF IInv

(* Nothing cuts the chain that ends the process: an editor's reader, the   *)
(* end of the last job or the callback of a stop is there to carry it on,  *)
(* with any number of editors in any order (neovim.cpp:30-62,              *)
(* monitor.cpp:102-129).                                                   *)
THEOREM EndUnderWayHolds == Spec => []EndUnderWay
BY Invariance, PTL DEF IInv

(* An editor that was announced is in one pair of hands at a time: one     *)
(* accepted connection, message, connect or reader, so that nobody serves  *)
(* it twice and nothing is left of it when its job ends (neovim.cpp:30-62, *)
(* server.cpp:17-40).                                                      *)
THEOREM OneHolderHolds == Spec => []OneHolder
BY Invariance, PTL DEF IInv

=============================================================================
