--------------------------- MODULE SingletonProofs ---------------------------
(***************************************************************************)
(* Proofs about Singleton for every number of processes and every race     *)
(* between them.  For ServedOnce the argument follows an editor: it is held*)
(* by its own process, which then is nobody's client, or by the one process*)
(* its client is connected to.  For SingleMonitor and BindSucceeds it      *)
(* follows the socket file: without a race it belongs to the one process   *)
(* that starts up or runs, and says how far that process has come.  For    *)
(* HandoverSpec it says of an editor how far its way to a job has come:    *)
(* Placed.                                                                 *)
(***************************************************************************)
EXTENDS Singleton, TLAPS

\* Whoever holds editor c is its own process or the peer of its client.
Traced ==
  \A p, c \in Procs :
    c \in Holds(p) => IF c = p THEN peer[c] = None ELSE peer[c] = p

\* A process that has not probed yet is nowhere.
Fresh ==
  \A c \in Procs :
    pc[c] = "new" => peer[c] = None /\ \A p \in Procs : c \notin Holds(p)

\* A process that serves its own editor is not a client.
NoClient == \A p \in Procs : pc[p] = "connect" => peer[p] = None

IInv == TypeOK /\ Traced /\ Fresh /\ NoClient

\* The end of some session of a monitor.
Finishes(p) == \E c \in Procs : JobFinished(p, c)

-----------------------------------------------------------------------------
LEMMA InitIInv == Init => IInv
BY DEF Init, IInv, TypeOK, Traced, Fresh, NoClient, Holds, Nobody, Starting,
       Running, Ended

\* A step that gives nobody a new editor and no client a new peer keeps the
\* trace of every editor.
LEMMA TraceKept ==
  ASSUME IInv, peer' = peer,
         \A q \in Procs : Holds(q)' \subseteq Holds(q),
         \A q \in Procs : pc'[q] \in {"new", "connect"} => pc'[q] = pc[q]
  PROVE  Traced' /\ Fresh' /\ NoClient'
BY DEF IInv, Traced, Fresh, NoClient

LEMMA VanishStep ==
  ASSUME IInv, NEW p \in Procs, NEW label \in Ended, Vanish(p, label)
  PROVE  IInv'
<1> USE DEF IInv
<1>1. TypeOK'
  BY DEF TypeOK, Vanish, Goto, Ended, Running, Starting
<1>2. \A q \in Procs : Holds(q)' \subseteq Holds(q)
  BY DEF TypeOK, Vanish, Holds
<1>3. \A q \in Procs : pc'[q] \in {"new", "connect"} => pc'[q] = pc[q]
  BY DEF TypeOK, Vanish, Goto, Ended
<1>4. peer' = peer
  BY DEF Vanish
<1> QED
  BY <1>1, <1>2, <1>3, <1>4, TraceKept

LEMMA ProbeStep == ASSUME IInv, NEW p \in Procs, Probe(p) PROVE IInv'
<1> USE DEF IInv
<1>1. /\ pc[p] = "new" /\ peer[p] = None
      /\ \A q \in Procs : p \notin Holds(q)
  BY DEF Probe, Fresh
<1> USE DEF StartsRace
<1>2. CASE ~ Answered
  <2>1. pc' = [pc EXCEPT ![p] = "connect"] /\ UNCHANGED <<peer, backlog>>
    BY <1>2 DEF Probe, Goto
  <2>2. TypeOK'
    BY <1>1, <1>2, <2>1 DEF Probe, TypeOK, Starting, Running
  <2>3. \A q \in Procs : Holds(q)' = Holds(q)
    BY <2>1 DEF Probe, Holds
  <2>4. Traced' /\ Fresh' /\ NoClient'
    BY <1>1, <2>1, <2>3 DEF TypeOK, Traced, Fresh, NoClient
  <2> QED
    BY <2>2, <2>4
<1>3. CASE Answered
  <2>1. /\ pc' = [pc EXCEPT ![p] = "client"]
        /\ peer' = [peer EXCEPT ![p] = path]
        /\ backlog' = Put(backlog, path, p)
    BY <1>3 DEF Probe, Goto
  <2>2. path \in Procs /\ pc[path] \in Running /\ path # p
    BY <1>1, <1>3 DEF Answered, TypeOK, Running
  <2>3. /\ backlog' \in [Procs -> SUBSET Procs]
        /\ \A q \in Procs :
             backlog'[q] = IF q = path THEN backlog[q] \union {p} ELSE backlog[q]
    BY <2>1, <2>2 DEF TypeOK, Put
  <2>4. TypeOK'
    BY <1>1, <1>3, <2>1, <2>2, <2>3 DEF Probe, TypeOK, Running
  <2>5. \A q \in Procs : Holds(q)' = IF q = path THEN Holds(q) \union {p} ELSE Holds(q)
    BY <2>3 DEF Probe, Holds
  <2>6. peer'[p] = path /\ \A c \in Procs \ {p} : peer'[c] = peer[c]
    BY <2>1 DEF TypeOK
  <2>7. pc'[p] = "client" /\ \A c \in Procs \ {p} : pc'[c] = pc[c]
    BY <2>1 DEF TypeOK
  <2>8. Traced'
    <3> SUFFICES ASSUME NEW q \in Procs, NEW c \in Procs, c \in Holds(q)'
                 PROVE  IF c = q THEN peer'[c] = None ELSE peer'[c] = q
      BY DEF Traced
    <3>1. CASE c = p
      BY <1>1, <2>2, <2>5, <2>6, <3>1
    <3>2. CASE c # p
      BY <2>5, <2>6, <3>2 DEF Traced
    <3> QED
      BY <3>1, <3>2
  <2>9. Fresh'
    BY <1>1, <2>5, <2>6, <2>7 DEF Fresh
  <2>10. NoClient'
    BY <2>6, <2>7 DEF NoClient
  <2> QED
    BY <2>4, <2>8, <2>9, <2>10
<1> QED
  BY <1>2, <1>3

LEMMA ConnectEditorStep == ASSUME IInv, NEW p \in Procs, ConnectEditor(p) PROVE IInv'
<1> USE DEF IInv
<1>1. pc[p] = "connect" /\ peer[p] = None
  BY DEF ConnectEditor, NoClient
<1>2. PICK label \in {"remove", "failed"} : pc' = [pc EXCEPT ![p] = label]
  BY DEF ConnectEditor, Goto
<1>3. /\ jobs' \in [Procs -> SUBSET Procs]
      /\ \A q \in Procs : jobs'[q] \subseteq IF q = p THEN jobs[q] \union {p} ELSE jobs[q]
  BY DEF ConnectEditor, TypeOK, Put
<1>4. TypeOK'
  BY <1>1, <1>2, <1>3 DEF ConnectEditor, TypeOK, Starting, Running, Ended
<1>5. \A q \in Procs : Holds(q)' \subseteq IF q = p THEN Holds(q) \union {p} ELSE Holds(q)
  BY <1>3 DEF ConnectEditor, Holds
<1>6. peer' = peer
  BY DEF ConnectEditor
<1>7. pc'[p] = label /\ \A c \in Procs \ {p} : pc'[c] = pc[c]
  BY <1>2 DEF TypeOK
<1>8. Traced'
  BY <1>1, <1>5, <1>6 DEF Traced
<1>9. Fresh' /\ NoClient'
  BY <1>5, <1>6, <1>7 DEF Fresh, NoClient
<1> QED
  BY <1>4, <1>8, <1>9

LEMMA StartupStep ==
  ASSUME IInv, NEW p \in Procs, RemoveFile(p) \/ Bind(p) \/ Listen(p) \/ Reload(p)
  PROVE  IInv'
<1>1. CASE Bind(p) /\ path # None
  BY <1>1, VanishStep DEF Bind, Ended
<1>2. CASE RemoveFile(p) \/ (Bind(p) /\ path = None) \/ Listen(p) \/ Reload(p)
  <2>1. PICK label \in {"bind", "listen", "reload", "serve"} :
          pc' = [pc EXCEPT ![p] = label]
    BY <1>2 DEF RemoveFile, Bind, Listen, Reload, Goto
  <2>2. UNCHANGED <<peer, unread, editors, dropped, raced, server>>
    BY <1>2 DEF RemoveFile, Bind, Listen, Reload
  <2>3. TypeOK'
    BY <1>2, <2>2 DEF RemoveFile, Bind, Listen, Reload, Goto, IInv, TypeOK,
                      Starting, Running, server
  <2>4. \A q \in Procs : Holds(q)' = Holds(q)
    BY <2>2 DEF Holds, server
  <2>5. \A q \in Procs : pc'[q] \in {"new", "connect"} => pc'[q] = pc[q]
    BY <2>1 DEF IInv, TypeOK
  <2> QED
    BY <2>2, <2>3, <2>4, <2>5, TraceKept DEF IInv
<1> QED
  BY <1>1, <1>2

LEMMA ClientStep ==
  ASSUME IInv, NEW p \in Procs, ProbeFails(p) \/ Send(p) \/ Quit(p)
  PROVE  IInv'
<1>1. UNCHANGED <<peer, server>>
  BY DEF ProbeFails, Send, Quit
<1>2. TypeOK'
  BY <1>1 DEF ProbeFails, Send, Quit, Goto, IInv, TypeOK, Ended, Starting,
              Running, server
<1>3. \A q \in Procs : Holds(q)' = Holds(q)
  BY <1>1 DEF Holds, server
<1>4. \A q \in Procs : pc'[q] \in {"new", "connect"} => pc'[q] = pc[q]
  BY DEF ProbeFails, Send, Quit, Goto, IInv, TypeOK
<1> QED
  BY <1>1, <1>2, <1>3, <1>4, TraceKept DEF IInv

\* The handlers of a serving monitor only move editors within it.
LEMMA ServeStep ==
  ASSUME IInv, NEW p \in Procs,
         \/ Accept(p) \/ Read(p) \/ HandlerFinished(p) \/ HandlerFails(p)
         \/ EditorConnected(p) \/ Finishes(p)
  PROVE  IInv'
<1> USE DEF IInv
<1> DEFINE Moves == [Procs -> SUBSET Procs]
<1>1. /\ pc[p] = "serve" /\ pc' = pc
      /\ UNCHANGED <<path, listening, peer, editors, raced>>
      /\ dropped' \in SUBSET Procs
  BY DEF Accept, Read, HandlerFinished, HandlerFails, EditorConnected, Finishes,
         JobFinished, GiveUp, TypeOK
<1>2. CASE Accept(p)
  <2>1. PICK c \in backlog[p] :
          /\ backlog' = Take(backlog, p, c)
          /\ handlers' = Put(handlers, p, c)
    BY <1>2 DEF Accept
  <2>2. c \in Procs
    BY DEF TypeOK
  <2>3. /\ /\ backlog' \in Moves
           /\ \A q \in Procs :
                backlog'[q] = IF q = p THEN backlog[q] \ {c}
                                       ELSE backlog[q]
        /\ /\ handlers' \in Moves
           /\ \A q \in Procs :
                handlers'[q] = IF q = p THEN handlers[q] \union {c}
                                        ELSE handlers[q]
    BY <2>1, <2>2 DEF TypeOK, Put, Take
  <2>4. UNCHANGED <<unread, connecting, jobs, finished>>
    BY <1>2 DEF Accept
  <2>5. TypeOK'
    BY <1>1, <2>1, <2>3, <2>4 DEF TypeOK
  <2>6. \A q \in Procs : Holds(q)' \subseteq Holds(q)
    BY <2>1, <2>3, <2>4 DEF Holds
  <2> QED
    BY <1>1, <2>5, <2>6, TraceKept
<1>3. CASE Read(p)
  <2>1. PICK c \in handlers[p] :
          /\ unread' = unread \ {c}
          /\ connecting' = IF c \in Valid THEN Put(connecting, p, c) ELSE connecting
    BY <1>3 DEF Read
  <2>2. c \in Procs
    BY DEF TypeOK
  <2>3. /\ connecting' \in Moves
        /\ \A q \in Procs :
             connecting'[q] \subseteq IF q = p THEN connecting[q] \union {c}
                                               ELSE connecting[q]
    BY <2>1, <2>2 DEF TypeOK, Put, Take
  <2>4. UNCHANGED <<backlog, handlers, jobs, finished>>
    BY <1>3 DEF Read
  <2>5. TypeOK'
    BY <1>1, <2>1, <2>3, <2>4 DEF TypeOK
  <2>6. \A q \in Procs : Holds(q)' \subseteq Holds(q)
    BY <2>1, <2>3, <2>4 DEF Holds
  <2> QED
    BY <1>1, <2>5, <2>6, TraceKept
<1>4. CASE HandlerFinished(p) \/ HandlerFails(p)
  <2>1. PICK c \in handlers[p] :
          handlers' = Take(handlers, p, c) /\ unread' \subseteq unread
    BY <1>4 DEF HandlerFinished, HandlerFails
  <2>2. c \in Procs
    BY DEF TypeOK
  <2>3. /\ handlers' \in Moves
        /\ \A q \in Procs :
             handlers'[q] = IF q = p THEN handlers[q] \ {c}
                                     ELSE handlers[q]
    BY <2>1, <2>2 DEF TypeOK, Put, Take
  <2>4. UNCHANGED <<backlog, connecting, jobs, finished>>
    BY <1>4 DEF HandlerFinished, HandlerFails
  <2>5. TypeOK'
    BY <1>1, <2>1, <2>3, <2>4 DEF TypeOK
  <2>6. \A q \in Procs : Holds(q)' \subseteq Holds(q)
    BY <2>1, <2>3, <2>4 DEF Holds
  <2> QED
    BY <1>1, <2>5, <2>6, TraceKept
<1>5. CASE EditorConnected(p)
  <2>1. PICK c \in connecting[p] :
          /\ connecting' = Take(connecting, p, c)
          /\ jobs' \in {jobs, Put(jobs, p, c)}
    BY <1>5 DEF EditorConnected
  <2>2. c \in Procs
    BY DEF TypeOK
  <2>3. /\ /\ connecting' \in Moves
           /\ \A q \in Procs :
                connecting'[q] = IF q = p THEN connecting[q] \ {c}
                                          ELSE connecting[q]
        /\ /\ jobs' \in Moves
           /\ \A q \in Procs :
                jobs'[q] \subseteq IF q = p THEN jobs[q] \union {c}
                                            ELSE jobs[q]
    <3>1. /\ Put(jobs, p, c) \in Moves
          /\ \A q \in Procs :
               Put(jobs, p, c)[q] = IF q = p THEN jobs[q] \union {c} ELSE jobs[q]
      BY <2>2 DEF TypeOK, Put
    <3>2. jobs \in Moves
      BY DEF TypeOK
    <3>3. CASE jobs' = jobs
      BY <2>1, <2>2, <3>2, <3>3 DEF TypeOK, Take
    <3>4. CASE jobs' = Put(jobs, p, c)
      BY <2>1, <2>2, <3>1, <3>4 DEF TypeOK, Take
    <3> QED
      BY <2>1, <3>3, <3>4
  <2>4. UNCHANGED <<backlog, handlers, unread, finished>>
    BY <1>5 DEF EditorConnected
  <2>5. TypeOK'
    BY <1>1, <2>1, <2>3, <2>4 DEF TypeOK
  <2>6. \A q \in Procs : Holds(q)' \subseteq Holds(q)
    BY <2>1, <2>3, <2>4 DEF Holds
  <2> QED
    BY <1>1, <2>5, <2>6, TraceKept
<1>6. CASE Finishes(p)
  <2>1. PICK c \in jobs[p] :
          /\ jobs' = Take(jobs, p, c)
          /\ finished' = IF jobs'[p] = {} THEN finished \union {p} ELSE finished
    BY <1>6 DEF Finishes, JobFinished
  <2>2. c \in Procs
    BY DEF TypeOK
  <2>3. /\ jobs' \in Moves
        /\ \A q \in Procs :
             jobs'[q] = IF q = p THEN jobs[q] \ {c}
                                 ELSE jobs[q]
    BY <2>1, <2>2 DEF TypeOK, Put, Take
  <2>4. UNCHANGED <<backlog, handlers, unread, connecting>>
    BY <1>6 DEF Finishes, JobFinished
  <2>5. TypeOK'
    BY <1>1, <2>1, <2>3, <2>4 DEF TypeOK, Running
  <2>6. \A q \in Procs : Holds(q)' \subseteq Holds(q)
    BY <2>1, <2>3, <2>4 DEF Holds
  <2> QED
    BY <1>1, <2>5, <2>6, TraceKept
<1> QED
  BY <1>2, <1>3, <1>4, <1>5, <1>6

LEMMA StepIInv == IInv /\ [Next]_vars => IInv'
<1> SUFFICES ASSUME IInv, [Next]_vars PROVE IInv'
  OBVIOUS
<1>1. CASE UNCHANGED vars
  BY <1>1 DEF vars, IInv, TypeOK, Traced, Fresh, NoClient, Holds
<1>2. ASSUME NEW p \in Procs, Stop(p) \/ Signal(p) \/ Kill(p) PROVE IInv'
  BY <1>2, VanishStep DEF Stop, Signal, Kill, Ended
<1> QED
  BY <1>1, <1>2, ProbeStep, ConnectEditorStep, StartupStep, ClientStep,
     ServeStep DEF Next, Startup, Serve, Finishes

THEOREM Invariance == Spec => []IInv
BY InitIInv, StepIInv, PTL DEF Spec

-----------------------------------------------------------------------------
(* Every state has the declared types: among others, only a running        *)
(* monitor listens or has its end posted.                                  *)
THEOREM TypeCorrect == Spec => []TypeOK
<1>1. IInv => TypeOK
  BY DEF IInv
<1> QED
  BY <1>1, Invariance, PTL

LEMMA Exclusive == IInv => ServedOnce
<1> SUFFICES ASSUME IInv, NEW p \in Procs, NEW q \in Procs,
                    NEW c \in Holds(p) \intersect Holds(q)
             PROVE  p = q
  BY DEF ServedOnce
<1>1. c \in Procs
  BY DEF IInv, TypeOK, Holds
<1> QED
  BY <1>1, SingletonAssumption DEF IInv, Traced

(* No race between processes makes two of them serve the same editor       *)
(* (application.cpp:117-123, singleton_client.cpp:10-32).                  *)
THEOREM ServedOnceHolds == Spec => []ServedOnce
BY Exclusive, Invariance, PTL

-----------------------------------------------------------------------------
(* Startups that do not overlap                                            *)

\* Without a race one process at most is there, and the file is its own from
\* bind() on.
Solo ==
  ~ raced =>
    /\ \A p, q \in Procs : /\ pc[p] \in Starting \union Running
                           /\ pc[q] \in Starting \union Running
                           => p = q
    /\ \A p \in Procs : /\ pc[p] = "bind" => path = None
                        /\ pc[p] = "listen" => path = p
                        /\ pc[p] \in Running => path = p /\ p \in listening

LEMMA InitSolo == Init => Solo
BY DEF Init, Solo, Starting, Running

\* A step of the handlers, of a client or of an editor starts no process.
LEMMA SoloKept ==
  ASSUME IInv, Solo, UNCHANGED <<path, listening, raced>>,
         \A q \in Procs : \/ pc'[q] = pc[q]
                          \/ pc'[q] \notin Starting \union Running
  PROVE  Solo'
BY DEF Solo, Starting, Running

LEMMA SoloProbe == ASSUME IInv, Solo, NEW p \in Procs, Probe(p) PROVE Solo'
<1>1. CASE Answered
  <2>1. pc' = [pc EXCEPT ![p] = "client"] /\ UNCHANGED <<path, listening, raced>>
    BY <1>1 DEF Probe, Goto
  <2> QED
    BY <2>1, SoloKept DEF IInv, TypeOK, Starting, Running
<1>2. CASE ~ Answered
  <2>1. /\ pc' = [pc EXCEPT ![p] = "connect"]
        /\ UNCHANGED <<path, listening>>
        /\ raced' = StartsRace
    BY <1>2 DEF Probe, Goto
  <2> SUFFICES ASSUME ~ StartsRace PROVE Solo'
    BY <2>1 DEF Solo
  <2>2. \A q \in Procs : pc[q] \notin Starting
    BY DEF StartsRace
  <2>3. \A q \in Procs : pc[q] \notin Running
    <3> SUFFICES ASSUME NEW q \in Procs, pc[q] \in Running PROVE FALSE
      OBVIOUS
    <3>1. ~ raced
      BY DEF StartsRace
    <3>2. path = q /\ q \in listening
      BY <3>1 DEF Solo
    <3> QED
      BY <1>2, <3>2, SingletonAssumption DEF Answered
  <2>4. pc'[p] = "connect" /\ \A q \in Procs \ {p} : pc'[q] = pc[q]
    BY <2>1 DEF IInv, TypeOK
  <2> QED
    BY <2>2, <2>3, <2>4 DEF Solo, Starting, Running
<1> QED
  BY <1>1, <1>2

LEMMA SoloVanish ==
  ASSUME IInv, Solo, NEW p \in Procs, NEW label \in Ended, Vanish(p, label)
  PROVE  Solo'
<1>1. /\ pc'[p] = label /\ \A q \in Procs \ {p} : pc'[q] = pc[q]
      /\ listening' = listening \ {p}
      /\ UNCHANGED <<path, raced>>
  BY DEF Vanish, Goto, IInv, TypeOK
<1>2. label \notin Starting \union Running
  BY DEF Ended, Starting, Running
<1> QED
  BY <1>1, <1>2 DEF Solo, Starting, Running

\* From the connection to the editor to the reload of the services.
LEMMA SoloStartup == ASSUME IInv, Solo, NEW p \in Procs, Startup(p) PROVE Solo'
<1>1. CASE Bind(p) /\ path # None
  BY <1>1, SoloVanish DEF Bind, Ended
<1>2. CASE ConnectEditor(p) \/ RemoveFile(p) \/ (Bind(p) /\ path = None)
           \/ Listen(p) \/ Reload(p)
  <2>1. /\ pc[p] \in Starting \union Running /\ raced' = raced
        /\ \A q \in Procs \ {p} : pc'[q] = pc[q]
    BY <1>2 DEF ConnectEditor, RemoveFile, Bind, Listen, Reload, Goto, Starting,
                Running, IInv, TypeOK
  <2> SUFFICES ASSUME ~ raced PROVE Solo'
    BY <2>1 DEF Solo
  <2>2. \A q \in Procs \ {p} : pc[q] \notin Starting \union Running
    BY <2>1 DEF Solo
  <2>3. /\ pc'[p] = "bind" => path' = None
        /\ pc'[p] = "listen" => path' = p
        /\ pc'[p] \in Running => path' = p /\ p \in listening'
    <3>1. CASE ConnectEditor(p)
      BY <3>1 DEF ConnectEditor, Goto, IInv, TypeOK, Running
    <3>2. CASE RemoveFile(p)
      BY <3>2 DEF RemoveFile, Goto, IInv, TypeOK, Running
    <3>3. CASE Bind(p) /\ path = None
      BY <3>3 DEF Bind, Goto, IInv, TypeOK, Running
    <3>4. CASE Listen(p)
      BY <3>4 DEF Listen, Goto, IInv, TypeOK, Running, Solo
    <3>5. CASE Reload(p)
      BY <3>5 DEF Reload, Goto, IInv, TypeOK, Running, Solo
    <3> QED
      BY <1>2, <3>1, <3>2, <3>3, <3>4, <3>5
  <2> QED
    BY <2>1, <2>2, <2>3 DEF Solo, Starting, Running
<1> QED
  BY <1>1, <1>2 DEF Startup

LEMMA StepSolo == IInv /\ Solo /\ [Next]_vars => Solo'
<1> SUFFICES ASSUME IInv, Solo, [Next]_vars PROVE Solo'
  OBVIOUS
<1>1. CASE UNCHANGED vars
  BY <1>1 DEF vars, Solo
<1>2. ASSUME NEW p \in Procs, Stop(p) \/ Signal(p) \/ Kill(p) PROVE Solo'
  BY <1>2, SoloVanish DEF Stop, Signal, Kill, Ended
<1>3. ASSUME NEW p \in Procs,
             \/ Accept(p) \/ Read(p) \/ HandlerFinished(p) \/ HandlerFails(p)
             \/ EditorConnected(p) \/ Finishes(p) \/ Quit(p)
      PROVE  Solo'
  BY <1>3, SoloKept DEF Accept, Read, HandlerFinished, HandlerFails,
                        EditorConnected, Finishes, JobFinished, Quit
<1>4. ASSUME NEW p \in Procs, ProbeFails(p) \/ Send(p) PROVE Solo'
  <2>1. /\ UNCHANGED <<path, listening, raced>>
        /\ \A q \in Procs : pc'[q] = pc[q] \/ pc'[q] \in Ended
    BY <1>4 DEF ProbeFails, Send, Goto, Ended, IInv, TypeOK
  <2> QED
    BY <2>1, SoloKept DEF Ended, Starting, Running
<1> QED
  BY <1>1, <1>2, <1>3, <1>4, SoloProbe, SoloStartup DEF Next, Serve, Finishes

THEOREM SoloInvariance == Spec => [](IInv /\ Solo)
<1>1. Init => IInv /\ Solo
  BY InitIInv, InitSolo
<1>2. (IInv /\ Solo) /\ [Next]_vars => (IInv /\ Solo)'
  BY StepIInv, StepSolo
<1> QED
  BY <1>1, <1>2, PTL DEF Spec

(* As long as no startup began within another there is one monitor, for    *)
(* any number of processes and of crashes (singleton_client.cpp:10-32).    *)
THEOREM SingleMonitorHolds == Spec => []SingleMonitor
<1>1. Solo => SingleMonitor
  BY DEF Solo, SingleMonitor
<1> QED
  BY <1>1, SoloInvariance, PTL

(* A monitor alone in its startup is never stopped by a file it finds      *)
(* (server.cpp:11-15): the action property, from the same invariant.       *)
THEOREM BindSucceedsHolds == Spec => BindSucceeds
<1> DEFINE Bound == ~ raced => \A p \in Procs : pc[p] = "bind" => pc'[p] # "failed"
<1>1. IInv /\ Solo /\ [Next]_vars => [Bound]_vars
  <2> SUFFICES ASSUME IInv, Solo, Next, ~ raced, NEW p \in Procs, pc[p] = "bind",
                      pc'[p] = "failed"
               PROVE  FALSE
    BY DEF Bound
  <2>1. path = None
    BY DEF Solo
  <2>2. PICK q \in Procs : \/ Probe(q) \/ ProbeFails(q) \/ Startup(q) \/ Send(q)
                           \/ Serve(q) \/ Signal(q) \/ Kill(q) \/ Quit(q)
    BY DEF Next
  <2>3. Bind(p)
    BY <2>2 DEF Probe, ProbeFails, Startup, ConnectEditor, RemoveFile, Bind,
                Listen, Reload, Send, Serve, Accept, Read, HandlerFinished,
                HandlerFails, EditorConnected, JobFinished, Stop, Signal, Kill, Quit, Vanish,
                Goto, IInv, TypeOK, Ended
  <2> QED
    BY <2>1, <2>3 DEF Bind, Goto, IInv, TypeOK
<1> QED
  BY <1>1, SoloInvariance, PTL DEF Spec, BindSucceeds

-----------------------------------------------------------------------------
(* The handing over of editors                                             *)

Serving == {"remove", "bind", "listen"} \union Running

\* Where an editor can be: only with a process that serves or is about to,
\* and, unless it is its own, after its process has handed it over; and in one
\* place at a time on its way from the socket to its job.
Placed ==
  /\ \A p \in Procs : Holds(p) # {} => pc[p] \in Serving
  /\ \A c \in unread : pc[c] = "done"
  /\ \A p, c \in Procs : c \in connecting[p] => c \in Valid /\ pc[c] = "done"
  /\ \A p, c \in Procs : c \in jobs[p] => c = p \/ pc[c] = "done"
  /\ \A p, c \in Procs : c \in unread => c \notin connecting[p] /\ c \notin jobs[p]
  /\ \A p, c \in Procs : c \in connecting[p] => c \notin jobs[p]

LEMMA InitPlaced == Init => Placed
BY DEF Init, Placed, Holds, Nobody

\* Editors only become fewer, and those that have handed over stay so.
LEMMA PlacedKept ==
  ASSUME Placed,
         unread' \subseteq unread,
         \A q \in Procs : /\ Holds(q)' \subseteq Holds(q)
                          /\ connecting'[q] \subseteq connecting[q]
                          /\ jobs'[q] \subseteq jobs[q],
         \A q \in Procs : pc[q] = "done" => pc'[q] = "done",
         \A q \in Procs : pc[q] \in Serving => pc'[q] \in Serving \/ Holds(q)' = {},
         unread \subseteq Procs
  PROVE  Placed'
<1>1. \A p \in Procs : Holds(p)' # {} => pc'[p] \in Serving
  BY DEF Placed
<1> QED
  BY <1>1 DEF Placed

LEMMA PlacedVanish ==
  ASSUME IInv, Placed, NEW p \in Procs, NEW label \in Ended, Vanish(p, label),
         pc[p] # "done"
  PROVE  Placed'
<1>1. /\ pc'[p] = label /\ \A q \in Procs \ {p} : pc'[q] = pc[q]
      /\ unread' \subseteq unread /\ unread \subseteq Procs
  BY DEF Vanish, Goto, IInv, TypeOK
<1>2. \A q \in Procs : /\ backlog'[q] = IF q = p THEN {} ELSE backlog[q]
                       /\ handlers'[q] = IF q = p THEN {} ELSE handlers[q]
                       /\ connecting'[q] = IF q = p THEN {} ELSE connecting[q]
                       /\ jobs'[q] = IF q = p THEN {} ELSE jobs[q]
  BY DEF Vanish, IInv, TypeOK
<1>3. \A q \in Procs : /\ Holds(q)' \subseteq Holds(q)
                       /\ connecting'[q] \subseteq connecting[q]
                       /\ jobs'[q] \subseteq jobs[q]
                       /\ q = p => Holds(q)' = {}
  BY <1>2 DEF Holds
<1> QED
  BY <1>1, <1>3, PlacedKept

LEMMA PlacedProbe == ASSUME IInv, Placed, NEW p \in Procs, Probe(p) PROVE Placed'
<1>1. /\ pc[p] = "new" /\ UNCHANGED <<unread, connecting, jobs, handlers>>
      /\ \A q \in Procs : q # p => pc'[q] = pc[q]
  BY DEF Probe, Goto, IInv, TypeOK
<1>2. ASSUME NEW q \in Procs, Holds(q)' # {} PROVE pc'[q] \in Serving
  <2>1. CASE ~ Answered
    <3>1. Holds(q)' = Holds(q)
      BY <2>1 DEF Probe, Holds
    <3> QED
      BY <1>1, <1>2, <3>1 DEF Placed, Serving, Running
  <2>2. CASE Answered /\ q # path
    <3>1. Holds(q)' = Holds(q)
      BY <2>2 DEF Probe, Holds, Put, IInv, TypeOK
    <3> QED
      BY <1>1, <1>2, <3>1 DEF Placed, Serving, Running
  <2>3. CASE Answered /\ q = path
    BY <1>1, <2>3 DEF Answered, Serving, Running, IInv, TypeOK
  <2> QED
    BY <2>1, <2>2, <2>3
<1> QED
  BY <1>1, <1>2 DEF Placed, IInv, TypeOK

LEMMA PlacedStartup == ASSUME IInv, Placed, NEW p \in Procs, Startup(p) PROVE Placed'
<1>1. CASE ConnectEditor(p)
  <2>1. /\ pc[p] = "connect" /\ UNCHANGED <<unread, connecting, backlog, handlers>>
        /\ \A q \in Procs : q # p => pc'[q] = pc[q]
    BY <1>1 DEF ConnectEditor, Goto, IInv, TypeOK
  <2>2. Holds(p) = {}
    BY <2>1 DEF Placed, Serving, Running
  <2>3. \/ jobs' = jobs
        \/ /\ pc'[p] = "remove"
           /\ \A q \in Procs : jobs'[q] = IF q = p THEN jobs[q] \union {p} ELSE jobs[q]
    BY <1>1 DEF ConnectEditor, Goto, Put, IInv, TypeOK
  <2>4. \A q \in Procs : Holds(q)' # {} => pc'[q] \in Serving
    BY <2>1, <2>2, <2>3 DEF Placed, Holds, Serving
  <2>5. \A q \in Procs : pc[q] = "done" => pc'[q] = "done"
    BY <2>1
  <2>6. p \notin unread /\ \A q \in Procs : p \notin connecting[q]
    BY <2>1 DEF Placed
  <2>7. \A c \in unread' : pc'[c] = "done"
    BY <2>1, <2>5 DEF Placed, IInv, TypeOK
  <2>8. \A q, c \in Procs : c \in jobs'[q] => c \in jobs[q] \/ (c = q /\ c = p)
    BY <2>3
  <2>9. \A q, c \in Procs : c \in jobs'[q] => c = q \/ pc'[c] = "done"
    BY <2>5, <2>8 DEF Placed
  <2>10. \A q, c \in Procs : c \in connecting'[q] =>
           c \in Valid /\ pc'[c] = "done" /\ c \notin jobs'[q]
    BY <2>1, <2>5, <2>6, <2>8 DEF Placed
  <2>11. \A q, c \in Procs : c \in unread' => c \notin connecting'[q] /\ c \notin jobs'[q]
    BY <2>1, <2>6, <2>8 DEF Placed
  <2> QED
    BY <2>4, <2>7, <2>9, <2>10, <2>11 DEF Placed
<1>2. CASE Bind(p) /\ path # None
  BY <1>2, PlacedVanish DEF Bind, Ended
<1>3. CASE RemoveFile(p) \/ (Bind(p) /\ path = None) \/ Listen(p) \/ Reload(p)
  <2>1. UNCHANGED <<unread, server>>
    BY <1>3 DEF RemoveFile, Bind, Listen, Reload
  <2>2. /\ pc[p] # "done" /\ pc'[p] \in Serving
        /\ \A q \in Procs : q # p => pc'[q] = pc[q]
    BY <1>3 DEF RemoveFile, Bind, Listen, Reload, Goto, IInv, TypeOK, Serving, Running
  <2> QED
    BY <2>1, <2>2, PlacedKept DEF server, Holds, IInv, TypeOK
<1> QED
  BY <1>1, <1>2, <1>3 DEF Startup

LEMMA PlacedClient ==
  ASSUME IInv, Placed, NEW p \in Procs, ProbeFails(p) \/ Send(p) \/ Quit(p)
  PROVE  Placed'
<1>1. UNCHANGED server /\ \A q \in Procs : Holds(q)' = Holds(q)
  BY DEF ProbeFails, Send, Quit, server, Holds
<1>2. CASE ProbeFails(p) \/ Quit(p) \/ (Send(p) /\ ~ Connected(p))
  <2>1. /\ unread' = unread /\ unread \subseteq Procs
        /\ \A q \in Procs : pc[q] = "done" => pc'[q] = "done"
        /\ \A q \in Procs : pc[q] \in Serving => pc'[q] \in Serving
    BY <1>2 DEF ProbeFails, Send, Quit, Goto, IInv, TypeOK, Serving, Running
  <2> QED
    BY <1>1, <2>1, PlacedKept DEF server
<1>3. CASE Send(p) /\ Connected(p)
  <2>1. /\ pc[p] = "client" /\ pc'[p] = "done" /\ unread' = unread \union {p}
        /\ \A q \in Procs : q # p => pc'[q] = pc[q]
    BY <1>3 DEF Send, Goto, IInv, TypeOK
  <2>2. \A q \in Procs : p \notin connecting[q] /\ p \notin jobs[q]
    <3> SUFFICES ASSUME NEW q \in Procs, p \in connecting[q] \/ p \in jobs[q]
                 PROVE  FALSE
      OBVIOUS
    <3>1. p \in Holds(q) /\ p # q => FALSE
      BY <2>1 DEF Placed, Holds
    <3>2. pc[p] \notin Serving
      BY <2>1 DEF Serving, Running
    <3> QED
      BY <3>1, <3>2 DEF Placed, Holds
  <2>3. \A q \in Procs : Holds(q)' # {} => pc'[q] \in Serving
    BY <1>1, <2>1 DEF Placed, Serving, Running
  <2>4. unread \subseteq Procs /\ UNCHANGED <<connecting, jobs>>
    BY <1>1 DEF server, IInv, TypeOK
  <2>5. \A q \in Procs : pc[q] = "done" => pc'[q] = "done"
    BY <2>1
  <2>6. \A c \in unread' : pc'[c] = "done"
    BY <2>1, <2>4, <2>5 DEF Placed
  <2> QED
    BY <2>1, <2>2, <2>3, <2>4, <2>5, <2>6 DEF Placed
<1> QED
  BY <1>2, <1>3

\* The handlers of a serving monitor move an editor on, or let it go.
LEMMA PlacedServe ==
  ASSUME IInv, Placed, NEW p \in Procs,
         \/ Accept(p) \/ Read(p) \/ HandlerFinished(p) \/ HandlerFails(p)
         \/ EditorConnected(p) \/ Finishes(p)
  PROVE  Placed'
<1>1. pc' = pc /\ unread \subseteq Procs
  BY DEF Accept, Read, HandlerFinished, HandlerFails, EditorConnected, Finishes,
         JobFinished, IInv, TypeOK
<1>2. CASE Accept(p) \/ HandlerFinished(p) \/ HandlerFails(p) \/ Finishes(p)
  <2>1. \A q \in Procs : /\ Holds(q)' \subseteq Holds(q)
                         /\ connecting'[q] \subseteq connecting[q]
                         /\ jobs'[q] \subseteq jobs[q]
    BY <1>2 DEF Accept, HandlerFinished, HandlerFails, Finishes, JobFinished,
                Take, Put, Holds, IInv, TypeOK
  <2>2. unread' \subseteq unread
    BY <1>2 DEF Accept, HandlerFinished, HandlerFails, Finishes, JobFinished
  <2> QED
    BY <1>1, <2>1, <2>2, PlacedKept
<1>3. CASE Read(p)
  <2>1. PICK c \in handlers[p] \intersect unread :
          /\ unread' = unread \ {c}
          /\ connecting' = IF c \in Valid THEN Put(connecting, p, c) ELSE connecting
    BY <1>3 DEF Read
  <2>2. UNCHANGED <<backlog, handlers, jobs>> /\ c \in Procs /\ pc[c] = "done"
    BY <1>1, <1>3 DEF Read, Placed
  <2>3. \A q, d \in Procs : d \in connecting'[q] =>
          d \in connecting[q] \/ (d = c /\ q = p /\ c \in Valid)
    BY <2>1 DEF Put, IInv, TypeOK
  <2>4. \A q \in Procs : Holds(q)' # {} => Holds(q) # {}
    <3>1. connecting' \in [Procs -> SUBSET Procs] /\ Holds(p) # {}
      BY <2>1, <2>2 DEF Put, Holds, IInv, TypeOK
    <3> QED
      BY <2>2, <2>3, <3>1 DEF Holds
  <2>5. \A q, d \in Procs : d \in connecting'[q] => d \in Valid /\ pc'[d] = "done"
    BY <1>1, <2>2, <2>3 DEF Placed
  <2>6. \A q, d \in Procs : d \in unread' => d \notin connecting'[q] /\ d \notin jobs'[q]
    BY <2>1, <2>2, <2>3 DEF Placed
  <2>7. \A q, d \in Procs : d \in connecting'[q] => d \notin jobs'[q]
    BY <2>2, <2>3 DEF Placed
  <2> QED
    BY <1>1, <2>1, <2>2, <2>4, <2>5, <2>6, <2>7 DEF Placed
<1>4. CASE EditorConnected(p)
  <2>1. PICK c \in connecting[p] :
          /\ connecting' = Take(connecting, p, c)
          /\ jobs' \in {jobs, Put(jobs, p, c)}
    BY <1>4 DEF EditorConnected
  <2>2. UNCHANGED <<backlog, handlers, unread>> /\ c \in Procs /\ pc[c] = "done"
    BY <1>4 DEF EditorConnected, Placed, IInv, TypeOK
  <2>3. \A q, d \in Procs : d \in jobs'[q] => d \in jobs[q] \/ (d = c /\ q = p)
    BY <2>1 DEF Put, IInv, TypeOK
  <2>4. \A q, d \in Procs : d \in connecting'[q] =>
          d \in connecting[q] /\ ~ (d = c /\ q = p)
    BY <2>1 DEF Take, IInv, TypeOK
  <2>5. \A q \in Procs : Holds(q)' # {} => Holds(q) # {}
    <3>1. /\ connecting' \in [Procs -> SUBSET Procs] /\ jobs' \in [Procs -> SUBSET Procs]
          /\ Holds(p) # {}
      BY <2>1, <2>2 DEF Put, Take, Holds, IInv, TypeOK
    <3> QED
      BY <2>2, <2>3, <2>4, <3>1 DEF Holds
  <2>6. \A q, d \in Procs : d \in connecting'[q] => d \in Valid /\ pc'[d] = "done"
    BY <1>1, <2>4 DEF Placed
  <2>7. \A q, d \in Procs : d \in jobs'[q] => d = q \/ pc'[d] = "done"
    BY <1>1, <2>2, <2>3 DEF Placed
  <2>8. \A q, d \in Procs : d \in unread' => d \notin connecting'[q] /\ d \notin jobs'[q]
    BY <2>1, <2>2, <2>3, <2>4 DEF Placed
  <2>9. \A q, d \in Procs : d \in connecting'[q] => d \notin jobs'[q]
    BY <2>3, <2>4 DEF Placed
  <2> QED
    BY <1>1, <2>2, <2>5, <2>6, <2>7, <2>8, <2>9 DEF Placed
<1> QED
  BY <1>2, <1>3, <1>4

LEMMA StepPlaced == IInv /\ Placed /\ [Next]_vars => Placed'
<1> SUFFICES ASSUME IInv, Placed, [Next]_vars PROVE Placed'
  OBVIOUS
<1>1. CASE UNCHANGED vars
  BY <1>1 DEF vars, Placed, Holds
<1>2. ASSUME NEW p \in Procs, Stop(p) \/ Signal(p) \/ Kill(p) PROVE Placed'
  BY <1>2, PlacedVanish DEF Stop, Signal, Kill, Ended
<1> QED
  BY <1>1, <1>2, PlacedProbe, PlacedStartup, PlacedClient, PlacedServe
     DEF Next, Serve, Finishes

-----------------------------------------------------------------------------
(* A monitor without editors                                               *)

\* From its startup on, a monitor has the editor it was started by, or
\* another, or the end of the last one is posted.
Occupied ==
  \A p \in Procs :
    /\ pc[p] \in {"remove", "bind", "listen", "reload"} => p \in jobs[p]
    /\ pc[p] = "serve" /\ jobs[p] = {} => p \in finished

LEMMA InitOccupied == Init => Occupied
BY DEF Init, Occupied

LEMMA StepOccupied == TypeOK /\ Occupied /\ [Next]_vars => Occupied'
<1> SUFFICES ASSUME TypeOK, Occupied, [Next]_vars PROVE Occupied'
  OBVIOUS
<1>1. CASE UNCHANGED vars
  BY <1>1 DEF vars, Occupied
<1>2. ASSUME NEW p \in Procs, NEW label \in Ended, Vanish(p, label) PROVE Occupied'
  BY <1>2 DEF Vanish, Goto, Ended, Occupied, TypeOK
<1>3. ASSUME NEW p \in Procs,
             \/ Probe(p) \/ ProbeFails(p) \/ Send(p) \/ Quit(p)
             \/ Accept(p) \/ Read(p) \/ HandlerFinished(p) \/ HandlerFails(p)
      PROVE  Occupied'
  <2>1. UNCHANGED <<jobs, finished>>
    BY <1>3 DEF Probe, ProbeFails, Send, Quit, Accept, Read, HandlerFinished,
                HandlerFails, server
  <2>2. \A q \in Procs :
          pc'[q] = pc[q] \/ pc'[q] \in {"client", "connect", "failed", "done"}
    BY <1>3 DEF Probe, ProbeFails, Send, Quit, Accept, Read, HandlerFinished,
                HandlerFails, Goto, TypeOK
  <2> QED
    BY <2>1, <2>2 DEF Occupied
<1>4. ASSUME NEW p \in Procs, Startup(p) PROVE Occupied'
  <2>1. CASE Bind(p) /\ path # None
    BY <1>2, <2>1 DEF Bind, Ended
  <2>2. CASE ~ (Bind(p) /\ path # None)
    BY <1>4, <2>2 DEF Startup, ConnectEditor, RemoveFile, Bind, Listen, Reload,
       Goto, Put, server, Occupied, TypeOK
  <2> QED
    BY <2>1, <2>2
<1>5. ASSUME NEW p \in Procs, EditorConnected(p) \/ Finishes(p) PROVE Occupied'
  <2>1. /\ pc[p] = "serve" /\ pc' = pc
        /\ \A q \in Procs \ {p} : jobs'[q] = jobs[q] /\ (q \in finished' <=> q \in finished)
    BY <1>5 DEF EditorConnected, Finishes, JobFinished, Put, Take, TypeOK
  <2>2. jobs'[p] = {} => p \in finished'
    BY <1>5, <2>1 DEF EditorConnected, Finishes, JobFinished, Put, Take, Occupied, TypeOK
  <2> QED
    BY <2>1, <2>2 DEF Occupied
<1>6. ASSUME NEW p \in Procs, Stop(p) \/ Signal(p) \/ Kill(p) PROVE Occupied'
  BY <1>2, <1>6 DEF Stop, Signal, Kill, Ended
<1> QED
  BY <1>1, <1>3, <1>4, <1>5, <1>6 DEF Next, Serve, Finishes

(* A monitor that serves nobody has noticed it: the handler that ends it   *)
(* is posted, whichever editor was the last one and whoever was connecting *)
(* then.  It is what MonitorEnds needs of every state (neovim.cpp:30-62,   *)
(* job.hpp:84-95).                                                         *)
THEOREM NobodyLingers ==
  Spec => [](\A p \in Procs : pc[p] = "serve" /\ jobs[p] = {} => p \in finished)
<1>1. IInv /\ Occupied /\ [Next]_vars => Occupied'
  BY StepOccupied DEF IInv
<1>2. Occupied => \A p \in Procs : pc[p] = "serve" /\ jobs[p] = {} => p \in finished
  BY DEF Occupied
<1> QED
  BY <1>1, <1>2, InitOccupied, Invariance, PTL DEF Spec

-----------------------------------------------------------------------------
(* Singleton implements Handover                                           *)

\* The variables of Handover.
Gone == {p \in Procs : pc[p] \in Ended}
Handed == {p \in Procs : pc[p] = "done"}
Taken == [p \in Procs |-> Has(p)]

\* What is to be proved of a step.
Abstract == H!Next \/ UNCHANGED <<editors, dropped, Gone, Handed, Taken, jobs>>

LEMMA HasHeld ==
  ASSUME IInv, NEW p \in Procs
  PROVE  Has(p) \subseteq Holds(p) /\ Holds(p) \subseteq Procs
BY DEF IInv, TypeOK, Has, Holds

\* A step that moves no process to its end, and no editor in or out.
LEMMA Stutters ==
  ASSUME UNCHANGED <<editors, dropped, jobs>>,
         \A q \in Procs : Has(q)' = Has(q),
         \A q \in Procs : /\ pc'[q] \in Ended <=> pc[q] \in Ended
                          /\ pc'[q] = "done" <=> pc[q] = "done"
  PROVE  Abstract
BY DEF Abstract, Gone, Handed, Taken

\* The end of a process, with all the editors it has.
LEMMA Ends ==
  ASSUME NEW p \in Procs, pc[p] \notin Ended, pc'[p] \in Ended \ {"done"},
         \A q \in Procs \ {p} : pc'[q] = pc[q],
         UNCHANGED <<editors, dropped>>,
         \A q \in Procs : Has(q)' = IF q = p THEN {} ELSE Has(q),
         jobs' = [jobs EXCEPT ![p] = {}]
  PROVE  Abstract
<1>1. Gone' = Gone \union {p} /\ Handed' = Handed /\ p \notin Gone
  BY DEF Gone, Handed, Ended
<1>2. Taken' = [Taken EXCEPT ![p] = {}]
  BY DEF Taken
<1>3. H!End(p)
  BY <1>1, <1>2 DEF H!End, Gone, Handed, Taken
<1> QED
  BY <1>3 DEF Abstract, H!Next

LEMMA AbstractVanish ==
  ASSUME IInv, NEW p \in Procs, NEW label \in {"stopped", "failed", "killed"},
         Vanish(p, label), pc[p] \notin Ended
  PROVE  Abstract
<1>1. /\ pc'[p] \in Ended \ {"done"} /\ \A q \in Procs \ {p} : pc'[q] = pc[q]
      /\ UNCHANGED <<editors, dropped>> /\ jobs' = [jobs EXCEPT ![p] = {}]
      /\ unread' = unread \ (backlog[p] \union handlers[p])
  BY DEF Vanish, Goto, IInv, TypeOK, Ended
<1>2. \A q \in Procs : /\ backlog'[q] = IF q = p THEN {} ELSE backlog[q]
                       /\ handlers'[q] = IF q = p THEN {} ELSE handlers[q]
                       /\ connecting'[q] = IF q = p THEN {} ELSE connecting[q]
                       /\ jobs'[q] = IF q = p THEN {} ELSE jobs[q]
  BY DEF Vanish, IInv, TypeOK
<1>3. ASSUME NEW q \in Procs, q # p PROVE Has(q)' = Has(q)
  <2>1. \A c \in backlog[q] \union handlers[q] : c \notin backlog[p] \union handlers[p]
    BY <1>3, Exclusive DEF ServedOnce, Holds
  <2> QED
    BY <1>1, <1>2, <1>3, <2>1 DEF Has
<1>4. Has(p)' = {}
  BY <1>2 DEF Has
<1> QED
  BY <1>1, <1>3, <1>4, Ends

\* Before its process is a client that has written, nobody has the editor.
LEMMA AbstractProbe ==
  ASSUME IInv, Placed, NEW p \in Procs, Probe(p)
  PROVE  Abstract
<1>1. /\ pc[p] = "new" /\ p \notin unread
      /\ UNCHANGED <<handlers, unread, connecting, jobs, editors, dropped>>
  BY DEF Probe, Placed
<1>2. pc'[p] \in {"client", "connect"} /\ \A q \in Procs \ {p} : pc'[q] = pc[q]
  BY DEF Probe, Goto, IInv, TypeOK
<1>3. \A q \in Procs : \A c \in unread : c \in backlog'[q] <=> c \in backlog[q]
  BY <1>1 DEF Probe, Put, IInv, TypeOK
<1>4. \A q \in Procs : Has(q)' = Has(q)
  BY <1>1, <1>3 DEF Has
<1> QED
  BY <1>1, <1>2, <1>4, Stutters DEF Ended

LEMMA AbstractStartup ==
  ASSUME IInv, Placed, NEW p \in Procs, Startup(p)
  PROVE  Abstract
<1>1. CASE ConnectEditor(p)
  <2>1. /\ pc[p] = "connect" /\ Holds(p) = {} /\ peer[p] = None
        /\ UNCHANGED <<unread, connecting, backlog, handlers, editors, dropped>>
        /\ \A q \in Procs \ {p} : pc'[q] = pc[q]
    BY <1>1 DEF ConnectEditor, Goto, IInv, TypeOK, NoClient, Placed, Serving, Running
  <2>2. CASE p \in Valid \intersect editors /\ pc'[p] = "remove" /\ jobs' = Put(jobs, p, p)
    <3>1. pc'[p] = "remove" /\ jobs' = [jobs EXCEPT ![p] = @ \union {p}]
      BY <1>1, <2>2 DEF ConnectEditor, Goto, Put, IInv, TypeOK
    <3>2. Gone' = Gone /\ Handed' = Handed /\ p \notin Gone
      BY <2>1, <3>1 DEF Gone, Handed, Ended
    <3>3. Taken' = [Taken EXCEPT ![p] = @ \union {p}]
      <4>1. \A q \in Procs : Has(q)' = IF q = p THEN Has(p) \union {p} ELSE Has(q)
        BY <2>1, <3>1 DEF Has, IInv, TypeOK
      <4> QED
        BY <4>1 DEF Taken
    <3>4. \A q \in Procs : p \notin Taken[q]
      BY <2>1, HasHeld, SingletonAssumption DEF Taken, IInv, Traced
    <3>5. H!ServeOwn(p)
      BY <2>1, <2>2, <3>1, <3>2, <3>3, <3>4
         DEF H!ServeOwn, H!Apart, Gone, Handed, Taken
    <3> QED
      BY <3>5 DEF Abstract, H!Next
  <2>3. CASE pc'[p] = "failed" /\ jobs' = jobs
    <3>1. jobs' = [jobs EXCEPT ![p] = {}]
      BY <2>1, <2>3 DEF Holds, IInv, TypeOK
    <3>2. \A q \in Procs : Has(q)' = IF q = p THEN {} ELSE Has(q)
      BY <2>1, <2>3 DEF Has, Holds
    <3> QED
      BY <2>1, <2>3, <3>1, <3>2, Ends DEF Ended
  <2> QED
    BY <1>1, <2>2, <2>3 DEF ConnectEditor, Goto, IInv, TypeOK
<1>2. CASE Bind(p) /\ path # None
  BY <1>2, AbstractVanish DEF Bind, Ended
<1>3. CASE RemoveFile(p) \/ (Bind(p) /\ path = None) \/ Listen(p) \/ Reload(p)
  <2>1. UNCHANGED <<unread, editors, dropped, server>>
    BY <1>3 DEF RemoveFile, Bind, Listen, Reload
  <2>2. /\ pc[p] \notin Ended /\ pc'[p] \notin Ended
        /\ \A q \in Procs \ {p} : pc'[q] = pc[q]
    BY <1>3 DEF RemoveFile, Bind, Listen, Reload, Goto, IInv, TypeOK, Ended
  <2> QED
    BY <2>1, <2>2, Stutters DEF server, Has, Ended
<1> QED
  BY <1>1, <1>2, <1>3 DEF Startup

\* A client that has written to the process it is connected to has handed its
\* editor over; any other end of it takes nothing with it.
LEMMA AbstractClient ==
  ASSUME IInv, Placed, NEW p \in Procs, ProbeFails(p) \/ Send(p) \/ Quit(p)
  PROVE  Abstract
<1>1. CASE Quit(p)
  <2>1. H!Quit(p)
    BY <1>1 DEF Quit, H!Quit, server, Has
  <2> QED
    BY <2>1 DEF Abstract, H!Next
<1>2. CASE ProbeFails(p) \/ (Send(p) /\ ~ Connected(p))
  <2>1. /\ pc[p] \in {"new", "client"} /\ pc'[p] = "failed"
        /\ \A q \in Procs \ {p} : pc'[q] = pc[q]
        /\ UNCHANGED <<unread, editors, dropped, server>>
    BY <1>2 DEF ProbeFails, Send, Goto, IInv, TypeOK
  <2>2. Holds(p) = {}
    BY <2>1 DEF Placed, Serving, Running
  <2>3. jobs' = [jobs EXCEPT ![p] = {}]
    BY <2>1, <2>2 DEF Holds, server, IInv, TypeOK
  <2>4. \A q \in Procs : Has(q)' = IF q = p THEN {} ELSE Has(q)
    BY <2>1, <2>2 DEF Has, Holds, server
  <2> QED
    BY <2>1, <2>3, <2>4, Ends DEF Ended
<1>3. CASE Send(p) /\ Connected(p)
  <2>1. /\ pc[p] = "client" /\ pc'[p] = "done" /\ unread' = unread \union {p}
        /\ \A q \in Procs \ {p} : pc'[q] = pc[q]
        /\ UNCHANGED <<editors, dropped, server>>
    BY <1>3 DEF Send, Goto, IInv, TypeOK
  <2>2. PICK m \in Procs : m = peer[p] /\ p \in backlog[m] \union handlers[m]
    BY <1>3 DEF Connected, IInv, TypeOK
  <2>3. m # p /\ pc[m] \in Serving
    BY <2>2, SingletonAssumption DEF Placed, Holds, IInv, Traced
  <2>4. Gone' = Gone \union {p} /\ Handed' = Handed \union {p} /\ p \notin Gone /\ m \notin Gone
    BY <2>1, <2>3 DEF Gone, Handed, Ended, Serving, Running
  <2>5. \A q \in Procs : q # m => p \notin backlog[q] \union handlers[q]
    BY <2>2, Exclusive DEF ServedOnce, Holds
  <2>6. Taken' = [Taken EXCEPT ![m] = @ \union {p}]
    <3>1. \A q \in Procs : Has(q)' = IF q = m THEN Has(m) \union {p} ELSE Has(q)
      BY <2>1, <2>2, <2>5 DEF Has, server
    <3> QED
      BY <2>2, <3>1 DEF Taken
  <2>7. Taken[p] = {}
    <3>1. Holds(p) = {}
      BY <2>1 DEF Placed, Serving, Running
    <3> QED
      BY <3>1, HasHeld DEF Taken
  <2>8. \A q \in Procs : p \notin Taken[q]
    <3> SUFFICES ASSUME NEW q \in Procs, p \in Has(q) PROVE FALSE
      BY DEF Taken
    <3>1. p \notin unread
      BY <2>1 DEF Placed
    <3>2. p \in connecting[q] \/ (p \in jobs[q] /\ p # q)
      BY <2>7, <3>1 DEF Has, Taken
    <3> QED
      BY <2>1, <3>2 DEF Placed
  <2>9. H!HandOver(p, m)
    BY <2>1, <2>3, <2>4, <2>6, <2>7, <2>8
       DEF H!HandOver, H!Apart, Gone, Handed, Taken, server
  <2> QED
    BY <2>9 DEF Abstract, H!Next
<1> QED
  BY <1>1, <1>2, <1>3

\* A monitor passes an editor on, serves it or lets it go.
LEMMA AbstractServe ==
  ASSUME IInv, Placed, NEW p \in Procs,
         \/ Accept(p) \/ Read(p) \/ HandlerFinished(p) \/ HandlerFails(p)
         \/ EditorConnected(p) \/ Finishes(p)
  PROVE  Abstract
<1>1. pc' = pc /\ editors' = editors /\ Gone' = Gone /\ Handed' = Handed
  BY DEF Accept, Read, HandlerFinished, HandlerFails, EditorConnected, Finishes,
         JobFinished, Gone, Handed
<1>2. ASSUME NEW c \in Procs, c \in Has(p),
             \/ GiveUp(c)
             \/ dropped' = dropped /\ c \notin Valid \intersect editors,
             \A q \in Procs : Has(q)' = IF q = p THEN Has(p) \ {c} ELSE Has(q),
             jobs' = [jobs EXCEPT ![p] = @ \ {c}]
      PROVE  Abstract
  <2>1. Taken' = [Taken EXCEPT ![p] = @ \ {c}] /\ c \in Taken[p]
    BY <1>2 DEF Taken
  <2>2. CASE c \in editors /\ dropped' = dropped \union {c}
    <3>1. H!GiveUp(c, p)
      BY <1>1, <1>2, <2>1, <2>2 DEF H!GiveUp, Gone, Handed, Taken
    <3> QED
      BY <1>2, <3>1 DEF Abstract, H!Next
  <2>3. CASE c \notin Valid \intersect editors /\ dropped' = dropped
    <3>1. H!LetGo(c, p)
      BY <1>1, <1>2, <2>1, <2>3 DEF H!LetGo, Gone, Handed, Taken
    <3> QED
      BY <1>2, <3>1 DEF Abstract, H!Next
  <2> QED
    BY <1>2, <2>2, <2>3 DEF GiveUp
<1>3. CASE Accept(p)
  <2>1. UNCHANGED <<unread, connecting, jobs, dropped>>
    BY <1>3 DEF Accept
  <2>2. \A q \in Procs : backlog'[q] \union handlers'[q] = backlog[q] \union handlers[q]
    BY <1>3 DEF Accept, Take, Put, IInv, TypeOK
  <2>3. \A q \in Procs : Has(q)' = Has(q)
    BY <2>1, <2>2 DEF Has
  <2> QED
    BY <1>1, <2>1, <2>3, Stutters
<1>4. CASE HandlerFinished(p)
  <2>1. UNCHANGED <<backlog, unread, connecting, jobs, dropped>>
    BY <1>4 DEF HandlerFinished
  <2>2. \A q \in Procs : handlers'[q] \intersect unread = handlers[q] \intersect unread
    BY <1>4 DEF HandlerFinished, Take, IInv, TypeOK
  <2>3. \A q \in Procs : Has(q)' = Has(q)
    BY <2>1, <2>2 DEF Has
  <2> QED
    BY <1>1, <2>1, <2>3, Stutters
<1>5. CASE Read(p)
  <2>1. PICK c \in handlers[p] \intersect unread :
          /\ unread' = unread \ {c}
          /\ connecting' = IF c \in Valid THEN Put(connecting, p, c) ELSE connecting
    BY <1>5 DEF Read
  <2>2. UNCHANGED <<backlog, handlers, jobs, dropped>> /\ c \in Procs /\ c \in Has(p)
    BY <1>5, <2>1 DEF Read, Has, IInv, TypeOK
  <2>3. \A q \in Procs \ {p} : connecting'[q] = connecting[q]
    BY <2>1 DEF Put, IInv, TypeOK
  <2>4. \A q \in Procs \ {p} : c \notin backlog[q] \union handlers[q]
    BY <2>1, Exclusive DEF ServedOnce, Holds
  <2>5. \A q \in Procs \ {p} : Has(q)' = Has(q)
    BY <2>1, <2>2, <2>3, <2>4 DEF Has
  <2>6. CASE c \in Valid
    <3>1. connecting'[p] = connecting[p] \union {c}
      BY <2>1, <2>6 DEF Put, IInv, TypeOK
    <3>2. Has(p)' = Has(p)
      BY <2>1, <2>2, <3>1 DEF Has
    <3> QED
      BY <1>1, <2>2, <2>5, <3>2, Stutters
  <2>7. CASE c \notin Valid
    <3>1. c \notin connecting[p] /\ c \notin jobs[p] /\ connecting' = connecting
      BY <2>1, <2>2, <2>7 DEF Placed
    <3>2. Has(p)' = Has(p) \ {c}
      BY <2>1, <2>2, <3>1 DEF Has
    <3>3. jobs' = [jobs EXCEPT ![p] = @ \ {c}]
      BY <2>2, <3>1 DEF IInv, TypeOK
    <3> QED
      BY <1>2, <2>2, <2>5, <2>7, <3>2, <3>3
  <2> QED
    BY <2>6, <2>7
<1>6. CASE EditorConnected(p)
  <2>1. PICK c \in connecting[p] :
          /\ connecting' = Take(connecting, p, c)
          /\ \/ c \in editors /\ jobs' = Put(jobs, p, c) /\ dropped' = dropped
             \/ GiveUp(c) /\ jobs' = jobs
    BY <1>6 DEF EditorConnected
  <2>2. UNCHANGED <<backlog, handlers, unread>> /\ c \in Procs /\ c \in Has(p)
    BY <1>6 DEF EditorConnected, Has, IInv, TypeOK
  <2>3. /\ c \in Valid /\ c \notin unread /\ c \notin jobs[p]
        /\ \A q \in Procs : connecting'[q] = IF q = p THEN connecting[p] \ {c}
                                                      ELSE connecting[q]
    BY <2>1, <2>2 DEF Placed, Take, IInv, TypeOK
  <2>4. CASE c \in editors /\ jobs' = Put(jobs, p, c) /\ dropped' = dropped
    <3>1. jobs' = [jobs EXCEPT ![p] = @ \union {c}]
      BY <2>4 DEF Put
    <3>2. \A q \in Procs : Has(q)' = Has(q)
      BY <2>1, <2>2, <2>3, <3>1 DEF Has, IInv, TypeOK
    <3>3. Taken' = Taken /\ c \in Taken[p]
      BY <2>2, <3>2 DEF Taken
    <3>4. H!Serve(c, p)
      BY <1>1, <2>3, <2>4, <3>1, <3>3 DEF H!Serve, Gone, Handed, Taken
    <3> QED
      BY <2>2, <3>4 DEF Abstract, H!Next
  <2>5. CASE GiveUp(c) /\ jobs' = jobs
    <3>1. jobs' = [jobs EXCEPT ![p] = @ \ {c}]
      BY <2>1, <2>3, <2>5 DEF IInv, TypeOK
    <3>2. \A q \in Procs : Has(q)' = IF q = p THEN Has(p) \ {c} ELSE Has(q)
      BY <2>2, <2>3, <2>5 DEF Has
    <3> QED
      BY <1>2, <2>2, <2>5, <3>1, <3>2
  <2> QED
    BY <2>1, <2>4, <2>5
<1>7. CASE Finishes(p)
  <2>1. PICK c \in jobs[p] : jobs' = Take(jobs, p, c) /\ GiveUp(c)
    BY <1>7 DEF Finishes, JobFinished
  <2>2. UNCHANGED <<backlog, handlers, unread, connecting>> /\ c \in Procs /\ c \in Has(p)
    BY <1>7, <2>1 DEF Finishes, JobFinished, Has, IInv, TypeOK
  <2>3. c \notin unread /\ c \notin connecting[p]
    BY <2>1, <2>2 DEF Placed
  <2>4. \A q \in Procs : Has(q)' = IF q = p THEN Has(p) \ {c} ELSE Has(q)
    BY <2>1, <2>2, <2>3 DEF Has, Take, IInv, TypeOK
  <2> QED
    BY <1>2, <2>1, <2>2, <2>4 DEF Take
<1>8. CASE HandlerFails(p)
  <2>1. PICK c \in handlers[p] :
          /\ handlers' = Take(handlers, p, c)
          /\ unread' = unread \ {c}
          /\ IF c \in unread THEN GiveUp(c) ELSE dropped' = dropped
    BY <1>8 DEF HandlerFails
  <2>2. UNCHANGED <<backlog, connecting, jobs>> /\ c \in Procs
    BY <1>8 DEF HandlerFails, IInv, TypeOK
  <2>3. \A q \in Procs : handlers'[q] = IF q = p THEN handlers[p] \ {c} ELSE handlers[q]
    BY <2>1, <2>2 DEF Take, IInv, TypeOK
  <2>4. CASE c \notin unread
    <3>1. \A q \in Procs : Has(q)' = Has(q)
      BY <2>1, <2>2, <2>3, <2>4 DEF Has
    <3> QED
      BY <1>1, <2>1, <2>2, <2>4, <3>1, Stutters
  <2>5. CASE c \in unread
    <3>1. c \notin connecting[p] /\ c \notin jobs[p] /\ c \in Has(p)
      BY <2>1, <2>2, <2>5 DEF Placed, Has
    <3>2. \A q \in Procs \ {p} : c \notin backlog[q] \union handlers[q]
      BY <2>1, Exclusive DEF ServedOnce, Holds
    <3>3. \A q \in Procs : Has(q)' = IF q = p THEN Has(p) \ {c} ELSE Has(q)
      BY <2>1, <2>2, <2>3, <3>1, <3>2 DEF Has
    <3>4. jobs' = [jobs EXCEPT ![p] = @ \ {c}]
      BY <2>2, <3>1 DEF IInv, TypeOK
    <3> QED
      BY <1>2, <2>1, <2>2, <2>5, <3>1, <3>3, <3>4
  <2> QED
    BY <2>4, <2>5
<1> QED
  BY <1>3, <1>4, <1>5, <1>6, <1>7, <1>8

LEMMA StepAbstract == IInv /\ Placed /\ [Next]_vars => [H!Next]_H!vars
<1> SUFFICES ASSUME IInv, Placed, [Next]_vars PROVE Abstract
  BY DEF Abstract, H!vars, Gone, Handed, Taken
<1>1. CASE UNCHANGED vars
  BY <1>1 DEF vars, Abstract, Gone, Handed, Taken, Has
<1>2. ASSUME NEW p \in Procs, Stop(p) \/ Signal(p) \/ Kill(p) PROVE Abstract
  BY <1>2, AbstractVanish DEF Stop, Signal, Kill, Ended
<1> QED
  BY <1>1, <1>2, AbstractProbe, AbstractStartup, AbstractClient, AbstractServe
     DEF Next, Serve, Finishes

LEMMA InitAbstract == Init => H!Init
<1> SUFFICES ASSUME Init PROVE H!Init
  OBVIOUS
<1>1. \A p \in Procs : Has(p) = {}
  BY DEF Init, Nobody, Has
<1> QED
  BY <1>1 DEF Init, Nobody, H!Init, Ended

(* Whoever is elected, and whatever ends in between, an editor is handed   *)
(* over as Handover promises: what a process that exits with success has   *)
(* handed over is lost on the way only to an error that the monitor logs   *)
(* (client.cpp:20-25, server.cpp, client_handler.cpp, neovim.cpp:30-83).   *)
THEOREM ImplementsHandover == Spec => HandoverSpec
<1>1. Init => H!Init /\ Placed
  BY InitAbstract, InitPlaced
<1>2. IInv /\ Placed /\ [Next]_vars => Placed' /\ [H!Next]_H!vars
  BY StepPlaced, StepAbstract
<1> QED
  BY <1>1, <1>2, Invariance, PTL DEF Spec, HandoverSpec, H!Spec

=============================================================================
