------------------------------ MODULE Endpoint ------------------------------
(***************************************************************************)
(* util::asio::make_endpoint() (util/asio/endpoint.cpp): how the address   *)
(* of an editor is read.  A text is a sequence of tokens: a slash, a colon,*)
(* a host name that is an address, two digits, and a letter.               *)
(* make_address() and from_chars() are libraries; what they accept is      *)
(* modelled for texts of these tokens.                                     *)
(* A definition named D_Something, placed before D, is a faulty variant of *)
(* D that no specification uses: the README says which property rejects it.*)
(***************************************************************************)
EXTENDS Integers, Sequences

CONSTANTS
  MaxPath,      \* the longest path a local socket may have: 107 in the code
  MaxPort       \* the greatest port: 65535 in the code

ASSUME EndpointAssumption == MaxPath \in Nat /\ MaxPort \in Nat

Digit == [t \in {"0", "9"} |-> IF t = "0" THEN 0 ELSE 9]
Digits == DOMAIN Digit
Tokens == Digits \union {"/", ":", "host", "x"}

None == [kind |-> "none"]
TooLong == [kind |-> "too_long"]
Local(path) == [kind |-> "local", path |-> path]
Tcp(ip, port) == [kind |-> "tcp", ip |-> ip, port |-> port]

Before(t, i) == SubSeq(t, 1, i - 1)
After(t, i) == SubSeq(t, i + 1, Len(t))
Colons(t) == {i \in 1 .. Len(t) : t[i] = ":"}

\* make_address(): a host, or groups of digits with one :: in place of some.
\* The last group may be a host.
IsAddress(t) ==
  \/ t = <<"host">>
  \/ LET Gaps == {i \in Colons(t) : i + 1 \in Colons(t)}
         n == Len(t)
     IN  /\ \E i \in Gaps : Gaps = {i}
         /\ \A i \in 1 .. n : t[i] \in Digits \union {":"} \/ (i = n /\ t[i] = "host")
         /\ 1 \in Colons(t) => 1 \in Gaps
         /\ n \in Colons(t) => n - 1 \in Gaps
         /\ t[n] = "host" => n - 1 \in Colons(t)
         /\ \A i \in 1 .. n - 4 : \E j \in i .. i + 4 : t[j] \notin Digits

\* The number that the first k tokens of t spell.
Number(t, k) ==
  LET value[i \in 0 .. k] == IF i = 0 THEN 0 ELSE value[i - 1] * 10 + Digit[t[i]]
  IN  value[k]

\* How many tokens from_chars() reads.
IsPrefix(t, k) == /\ \A i \in 1 .. k : t[i] \in Digits
                  /\ k = Len(t) \/ t[k + 1] \notin Digits

FromChars_Wraps(t) ==
  {Number(t, k) % (MaxPort + 1) : k \in {j \in 1 .. Len(t) : IsPrefix(t, j)}}

\* The port from_chars() finds, if it finds one: the rest is not looked at.
FromChars(t) ==
  {p \in {Number(t, k) : k \in {j \in 1 .. Len(t) : IsPrefix(t, j)}} : p <= MaxPort}

\* rfind(':').
LastColon(t) == {i \in Colons(t) : \A j \in Colons(t) : j <= i}

\* The host and the port, if they are there.
HostAndPort(t) ==
  UNION {{Tcp(Before(t, i), p) : p \in FromChars(After(t, i))}
           : i \in {j \in LastColon(t) : IsAddress(Before(t, j))}}

IsPath(t) == t # <<>> /\ t[1] = "/"

\* The outcome of make_endpoint(), the only element of the set.
MakeEndpoint(t) ==
  IF IsPath(t) THEN {IF Len(t) <= MaxPath THEN Local(t) ELSE TooLong}
  ELSE IF HostAndPort(t) = {} THEN {None} ELSE HostAndPort(t)

-----------------------------------------------------------------------------
\* Text t has an address before its i-th token, a colon, and port p in the k
\* digits after it.
Spells(t, i, k, p) ==
  /\ i \in 1 .. Len(t) /\ t[i] = ":" /\ IsAddress(Before(t, i))
  /\ k \in 1 .. Len(t) - i
  /\ \A j \in 1 .. k : t[i + j] \in Digits
  /\ p = Number(After(t, i), k) /\ p <= MaxPort

=============================================================================
