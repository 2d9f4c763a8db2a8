----------------------------- MODULE StartupProofs -----------------------------
(***************************************************************************)
(* Proofs about Startup and Endpoint, for addresses of any length and any  *)
(* limits: the socket file of a monitor is kept, whatever fails; success is*)
(* reported only where there was some; and what an address is read as.     *)
(***************************************************************************)
EXTENDS Startup, TLAPS

\* What the steps before have made sure of.
Founded ==
  /\ step = "client" => file = "served"
  /\ step \in {"editor", "remove", "open", "bind"} => file # "served"
  /\ step \in {"remove", "open", "bind"} => editor

IInv == TypeOK /\ Founded

LEMMA InitEstablishes == Init => IInv
<1>1. <<>> \in Texts
  <2>1. <<>> \in [1 .. 0 -> Tokens] /\ 0 \in 0 .. MaxTokens
    BY StartupAssumption
  <2> QED
    BY <2>1 DEF Texts
<1> QED
  BY <1>1 DEF Init, IInv, TypeOK, Founded, Files, Steps

LEMMA StepKeeps == IInv /\ [Next]_vars => IInv'
<1> SUFFICES ASSUME IInv, [Next]_vars PROVE IInv'
  OBVIOUS
<1> USE DEF IInv, TypeOK, Founded, Steps, At, Ends, ExitOf
<1>1. CASE ParseCommandLine \/ Help \/ SetLoglevel \/ MakeRuntimePath
  BY <1>1 DEF ParseCommandLine, Help, SetLoglevel, MakeRuntimePath
<1>2. CASE GetNvimSocket
  BY <1>2 DEF GetNvimSocket
<1>3. CASE Probe \/ RunClient
  BY <1>3 DEF Probe, RunClient
<1>4. CASE ConnectEditor
  <2>1. /\ UNCHANGED <<file, text>> /\ editor' \in BOOLEAN
        /\ \/ At("editor", "remove") /\ editor' = TRUE
           \/ Ends("editor", "exception")
    BY <1>4 DEF ConnectEditor
  <2> QED
    BY <2>1
<1>5. CASE RemoveFile \/ Open \/ Bind \/ Listen
  BY <1>5 DEF RemoveFile, Open, Bind, Listen, Files
<1>6. CASE UNCHANGED vars
  BY <1>6 DEF vars
<1> QED
  BY <1>1, <1>2, <1>3, <1>4, <1>5, <1>6 DEF Next

(* The inductive invariant holds.                                          *)
THEOREM Invariance == Spec => []IInv
BY InitEstablishes, StepKeeps, PTL DEF Spec

(* The state is well typed: TypeOK of Startup.                             *)
THEOREM TypeCorrect == Spec => []TypeOK
<1>1. IInv => TypeOK
  BY DEF IInv
<1> QED
  BY Invariance, <1>1, PTL

(* The socket file changes only for a process that is connected to its     *)
(* editor, and never one behind which somebody listened, whatever fails    *)
(* then: FileIsKept of Startup (server.cpp:11-15, monitor.cpp:61-69).      *)
THEOREM FileIsKeptHolds == Spec => FileIsKept
<1> DEFINE Kept == file' # file => /\ file # "served" /\ editor
                                   /\ file' = "own" => file = "absent"
<1>1. IInv /\ [Next]_vars => [Kept]_vars
  <2> SUFFICES ASSUME IInv, Next, file' # file PROVE Kept
    OBVIOUS
  <2>1. RemoveFile \/ Bind
    BY DEF Next, ParseCommandLine, Help, SetLoglevel, MakeRuntimePath, GetNvimSocket,
           Probe, RunClient, ConnectEditor, Open, Listen
  <2> QED
    BY <2>1 DEF RemoveFile, Bind, At, Ends, IInv, Founded
<1> QED
  BY Invariance, <1>1, PTL DEF Spec, FileIsKept

(* No failure on the way to either mode ends in exit code 0:               *)
(* SuccessIsEarned of Startup (main.cpp:4-19).                             *)
THEOREM SuccessIsEarnedHolds == Spec => SuccessIsEarned
<1> DEFINE Earned == step' = "ended" /\ exit_code' = 0 =>
                       step = "help" \/ (step = "client" /\ file = "served")
<1>1. IInv /\ [Next]_vars => [Earned]_vars
  <2> SUFFICES ASSUME IInv, Next, step' = "ended", exit_code' = 0
               PROVE  step = "help" \/ (step = "client" /\ file = "served")
    OBVIOUS
  <2>1. Ends("help", "none") \/ Ends("client", "none")
    BY DEF Next, ParseCommandLine, Help, SetLoglevel, MakeRuntimePath, GetNvimSocket,
           Probe, RunClient, ConnectEditor, RemoveFile, Open, Bind, Listen, At, Ends,
           ExitOf
  <2> QED
    BY <2>1 DEF Ends, IInv, Founded
<1> QED
  BY Invariance, <1>1, PTL DEF Spec, SuccessIsEarned

-----------------------------------------------------------------------------
(* How an address is read                                                  *)

\* What is before and after a place in a text.
LEMMA Parts ==
  ASSUME NEW t \in Seq(Tokens), NEW i \in 1 .. Len(t)
  PROVE  /\ After(t, i) \in Seq(Tokens) /\ Len(After(t, i)) = Len(t) - i
         /\ \A j \in 1 .. Len(t) - i : After(t, i)[j] = t[i + j]
BY DEF After

\* No digit is a colon.
LEMMA DigitsAreTokens == Digits = {"0", "9"} /\ ":" \notin Digits
BY DEF Digits, Digit

(* The endpoint of a text that is no path is one that the text spells, and *)
(* its port is not cut short.                                              *)
LEMMA ReadIsSpelt ==
  ASSUME NEW t \in Seq(Tokens), ~ IsPath(t),
         NEW e \in MakeEndpoint(t), e # None
  PROVE  \E i, k \in 1 .. Len(t) :
           /\ Spells(t, i, k, e.port) /\ e.ip = Before(t, i)
           /\ i + k = Len(t) \/ t[i + k + 1] \notin Digits
<1>1. e \in HostAndPort(t)
  BY DEF MakeEndpoint
<1>2. PICK i \in LastColon(t) : /\ IsAddress(Before(t, i))
                                /\ e \in {Tcp(Before(t, i), p) : p \in FromChars(After(t, i))}
  BY <1>1 DEF HostAndPort
<1>3. PICK p \in FromChars(After(t, i)) : e = Tcp(Before(t, i), p)
  BY <1>2
<1>4. i \in 1 .. Len(t) /\ t[i] = ":"
  BY DEF LastColon, Colons
<1>5. PICK k \in 1 .. Len(After(t, i)) : IsPrefix(After(t, i), k) /\ p = Number(After(t, i), k)
  BY <1>3 DEF FromChars
<1>6. k \in 1 .. Len(t) - i /\ k \in 1 .. Len(t)
  BY <1>4, <1>5, Parts
<1>7. \A j \in 1 .. k : t[i + j] \in Digits
  <2>1. \A j \in 1 .. k : After(t, i)[j] \in Digits
    BY <1>5 DEF IsPrefix
  <2>2. \A j \in 1 .. k : After(t, i)[j] = t[i + j]
    BY <1>4, <1>6, Parts
  <2> QED
    BY <2>1, <2>2
<1>8. p <= MaxPort
  BY <1>3 DEF FromChars
<1>9. e.port = p /\ e.ip = Before(t, i)
  BY <1>3 DEF Tcp
<1>10. Spells(t, i, k, e.port)
  BY <1>2, <1>4, <1>5, <1>6, <1>7, <1>8, <1>9 DEF Spells
<1>11. i + k = Len(t) \/ t[i + k + 1] \notin Digits
  <2>1. Len(t) \in Nat /\ Len(After(t, i)) = Len(t) - i
    BY <1>4, Parts
  <2>2. CASE k = Len(After(t, i))
    BY <1>4, <1>6, <2>1, <2>2
  <2>3. CASE k # Len(After(t, i))
    <3>1. After(t, i)[k + 1] \notin Digits
      BY <1>5, <2>3 DEF IsPrefix
    <3>2. k + 1 \in 1 .. Len(t) - i /\ i + (k + 1) = i + k + 1
      BY <1>4, <1>6, <2>1, <2>3
    <3>3. After(t, i)[k + 1] = t[i + (k + 1)]
      BY <1>4, <3>2, Parts
    <3> QED
      BY <3>1, <3>2, <3>3
  <2> QED
    BY <2>2, <2>3
<1> QED
  BY <1>4, <1>6, <1>9, <1>10, <1>11

(* A text that spells an endpoint to its end is read as this one.          *)
LEMMA SpeltIsRead ==
  ASSUME NEW t \in Seq(Tokens), ~ IsPath(t),
         NEW i \in 1 .. Len(t), NEW k \in 1 .. Len(t),
         Spells(t, i, k, Number(After(t, i), k)), i + k = Len(t)
  PROVE  MakeEndpoint(t) = {Tcp(Before(t, i), Number(After(t, i), k))}
<1>1. /\ t[i] = ":" /\ IsAddress(Before(t, i))
      /\ \A j \in 1 .. k : t[i + j] \in Digits
      /\ Number(After(t, i), k) <= MaxPort
  BY DEF Spells
<1>2. \A j \in 1 .. Len(t) : j > i => t[j] # ":"
  <2> SUFFICES ASSUME NEW j \in 1 .. Len(t), j > i PROVE t[j] # ":"
    OBVIOUS
  <2>1. j - i \in 1 .. k /\ i + (j - i) = j
    OBVIOUS
  <2> QED
    BY <2>1, <1>1, DigitsAreTokens
<1>3. i \in LastColon(t)
  BY <1>1, <1>2 DEF LastColon, Colons
<1>4. IsPrefix(After(t, i), k)
  <2>1. Len(t) \in Nat /\ k = Len(t) - i
    OBVIOUS
  <2>2. /\ Len(After(t, i)) = Len(t) - i
        /\ \A j \in 1 .. Len(t) - i : After(t, i)[j] = t[i + j]
    BY Parts
  <2> QED
    BY <2>1, <2>2, <1>1 DEF IsPrefix
<1>5. FromChars(After(t, i)) = {Number(After(t, i), k)}
  <2>1. k \in 1 .. Len(After(t, i)) /\ k = Len(After(t, i))
    BY Parts
  <2>2. ASSUME NEW j \in 1 .. Len(After(t, i)), IsPrefix(After(t, i), j) PROVE j = k
    <3> SUFFICES ASSUME j # k PROVE FALSE
      OBVIOUS
    <3>1. j + 1 \in 1 .. k /\ After(t, i)[j + 1] \notin Digits
      BY <2>1, <2>2 DEF IsPrefix
    <3> QED
      BY <1>4, <3>1 DEF IsPrefix
  <2> QED
    BY <1>1, <1>4, <2>1, <2>2 DEF FromChars
<1>6. LastColon(t) = {i}
  <2>1. LastColon(t) \subseteq 1 .. Len(t)
    BY DEF LastColon, Colons
  <2>2. ASSUME NEW j \in LastColon(t) PROVE j = i
    BY <1>3, <2>1 DEF LastColon
  <2> QED
    BY <1>3, <2>2
<1>7. HostAndPort(t) = {Tcp(Before(t, i), Number(After(t, i), k))}
  BY <1>1, <1>5, <1>6 DEF HostAndPort
<1> QED
  BY <1>7 DEF MakeEndpoint

(* What an address of any length, with ports of any bound, is read as:     *)
(* AddressIsRead of Startup.                                               *)
THEOREM AddressIsReadHolds == Spec => []AddressIsRead
<1>1. IInv => AddressIsRead
  <2> SUFFICES ASSUME IInv, ~ IsPath(text) PROVE AddressIsRead
    BY DEF AddressIsRead
  <2>1. text \in Seq(Tokens)
    BY DEF IInv, TypeOK, Texts
  <2>2. ASSUME NEW i \in 1 .. Len(text), NEW k \in 1 .. Len(text),
               Spells(text, i, k, Number(After(text, i), k)), i + k = Len(text)
        PROVE  MakeEndpoint(text) = {Tcp(Before(text, i), Number(After(text, i), k))}
    BY <2>1, <2>2, SpeltIsRead
  <2>3. ASSUME NEW e \in MakeEndpoint(text) \ {None}
        PROVE  \E i, k \in 1 .. Len(text) :
                 /\ Spells(text, i, k, e.port) /\ e.ip = Before(text, i)
                 /\ i + k = Len(text) \/ text[i + k + 1] \notin Digits
    BY <2>1, <2>3, ReadIsSpelt
  <2> QED
    BY <2>2, <2>3 DEF AddressIsRead
<1> QED
  BY Invariance, <1>1, PTL

=============================================================================
