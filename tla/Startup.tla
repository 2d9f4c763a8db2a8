------------------------------- MODULE Startup -------------------------------
(***************************************************************************)
(* The start of one process, from main() (main.cpp) over application_t     *)
(* (application/application.cpp) to the end or to the mode it runs in:     *)
(* the command line, the environment, the two sockets it needs, and the    *)
(* exit code for everything that goes wrong.  What other processes do in   *)
(* between is the subject of Singleton; here the socket file is as it was  *)
(* found.  The steps of a monitor that runs are those of MonitorProcess.   *)
(*                                                                         *)
(* Inputs are chosen when they are read.                                   *)
(* A definition named D_Something, placed before D, is a faulty variant of *)
(* D that no specification uses: the README says which property rejects it.*)
(***************************************************************************)
EXTENDS Endpoint, FiniteSets

CONSTANT MaxTokens    \* bound on the length of an address

ASSUME StartupAssumption == MaxTokens \in Nat

VARIABLES
  step,               \* what the process does next
  file,               \* the socket file in the runtime directory
  text,               \* the address of the editor
  editor,             \* the socket to the editor is connected
  exit_code           \* exit code of the process, -1 while it runs

vars == <<step, file, text, editor, exit_code>>

Texts == UNION {[1 .. n -> Tokens] : n \in 0 .. MaxTokens}

Steps == {"parse", "help", "loglevel", "paths", "address", "probe", "client",
          "editor", "remove", "open", "bind", "listen", "monitor", "ended"}

\* "stale": nobody listens behind it; "no_dir": there is no such directory.
\* "own" is the file that this process has bound.
Files == {"absent", "stale", "served", "no_dir"}

ExitOf_OnlyOurs(error) ==
  CASE error = "not_nvim_job" -> 1
    [] error = "bad_cmdline_option" -> 2
    [] OTHER -> 0

\* error_t; "none" is the return of run().
ExitOf(error) ==
  CASE error = "none" -> 0
    [] error = "not_nvim_job" -> 1
    [] error = "bad_cmdline_option" -> 2
    [] error = "exception" -> 124

TypeOK ==
  /\ step \in Steps
  /\ file \in Files \union {"own"}
  /\ text \in Texts
  /\ editor \in BOOLEAN
  /\ exit_code \in {-1, 0, 1, 2, 124}
  /\ step = "ended" <=> exit_code # -1
  /\ step \in {"listen", "monitor"} => file = "own"
  /\ file = "own" => step \in {"listen", "monitor", "ended"}

Init ==
  /\ step = "parse"
  /\ file \in Files
  /\ text = <<>>
  /\ editor = FALSE
  /\ exit_code = -1

-----------------------------------------------------------------------------
At(label, next) == step = label /\ step' = next /\ exit_code' = exit_code

\* main() turns what run() returns or throws into the exit code.
Ends(label, error) == step = label /\ step' = "ended" /\ exit_code' = ExitOf(error)

\* The options are read in the constructor; Boost's errors are exceptions.
ParseCommandLine ==
  /\ At("parse", "help") \/ Ends("parse", "exception")
  /\ UNCHANGED <<file, text, editor>>

Help ==
  /\ At("help", "loglevel") \/ Ends("help", "none")
  /\ UNCHANGED <<file, text, editor>>

SetLoglevel ==
  /\ At("loglevel", "paths") \/ Ends("loglevel", "bad_cmdline_option")
  /\ UNCHANGED <<file, text, editor>>

\* make_singleton_socket_path(): temp_directory_path(), which may throw, is
\* called whether or not $XDG_RUNTIME_DIR is set.
MakeRuntimePath ==
  /\ At("paths", "address") \/ Ends("paths", "exception")
  /\ UNCHANGED <<file, text, editor>>

\* --nvim-sock, or else $NVIM.
GetNvimSocket ==
  /\ \/ At("address", "probe") /\ text' \in Texts
     \/ Ends("address", "not_nvim_job") /\ text' = text
  /\ UNCHANGED <<file, editor>>

Probe_AnyError ==
  /\ \/ file = "served" /\ At("probe", "client")
     \/ At("probe", "editor")
  /\ UNCHANGED <<file, text, editor>>

\* try_client_mode(): of the errors of connect() only those that say that
\* nobody listens make a monitor.
Probe ==
  /\ \/ file = "served" /\ At("probe", "client")
     \/ file # "served" /\ At("probe", "editor")
     \/ Ends("probe", "exception")
  /\ UNCHANGED <<file, text, editor>>

\* singleton_client_t::run(): the address is sent as it is.
RunClient ==
  /\ Ends("client", "none") \/ Ends("client", "exception")
  /\ UNCHANGED <<file, text, editor>>

\* make_socket(), an argument of make_inventory().
ConnectEditor ==
  /\ \/ /\ \E e \in MakeEndpoint(text) : e.kind \in {"local", "tcp"}
        /\ At("editor", "remove") /\ editor' = TRUE
     \/ Ends("editor", "exception") /\ editor' = editor
  /\ UNCHANGED <<file, text>>

\* server_t::server_t() deletes what is in its way, a file or not; that this
\* may fail is ignored.
RemoveFile ==
  /\ At("remove", "open")
  /\ file' = file \/ (file # "no_dir" /\ file' = "absent")
  /\ UNCHANGED <<text, editor>>

Open ==
  /\ At("open", "bind") \/ Ends("open", "exception")
  /\ UNCHANGED <<file, text, editor>>

Bind_Reuses ==
  /\ At("bind", "listen") \/ Ends("bind", "exception")
  /\ file' = IF step' = "listen" /\ file = "absent" THEN "own" ELSE file
  /\ UNCHANGED <<text, editor>>

\* bind() makes the file; with a file there, or no directory, it throws.
Bind ==
  /\ \/ file = "absent" /\ At("bind", "listen") /\ file' = "own"
     \/ Ends("bind", "exception") /\ file' = file
  /\ UNCHANGED <<text, editor>>

\* What has been bound stays when listen() throws.
Listen ==
  /\ At("listen", "monitor") \/ Ends("listen", "exception")
  /\ UNCHANGED <<file, text, editor>>

Next ==
  \/ ParseCommandLine \/ Help \/ SetLoglevel \/ MakeRuntimePath \/ GetNvimSocket
  \/ Probe \/ RunClient
  \/ ConnectEditor
  \/ RemoveFile \/ Open \/ Bind \/ Listen

Spec == Init /\ [][Next]_vars

-----------------------------------------------------------------------------
(* Properties                                                              *)

(* The socket file changes only at the hands of a process that is          *)
(* connected to its editor, is never one behind which somebody listened    *)
(* when it was probed, and becomes the process's own only where there is   *)
(* none.  What fails after that, in open(), bind() or listen(), has cost a *)
(* file that led nowhere (singleton_client.cpp:20-29, monitor.cpp:61-69,   *)
(* server.cpp:11-15).                                                      *)
FileIsKept ==
  [][file' # file => /\ file # "served" /\ editor
                     /\ file' = "own" => file = "absent"]_vars

(* A process that ends with 0 was asked for help, or has sent its address  *)
(* to a process that listens: one that was to be the monitor and could not *)
(* says so, whichever step failed (main.cpp:4-19, error.hpp:5).            *)
SuccessIsEarned ==
  [][step' = "ended" /\ exit_code' = 0 =>
       step = "help" \/ (step = "client" /\ file = "served")]_vars

(* A text that is an address, a colon and a port is understood as this     *)
(* endpoint.  What else is understood differs from that in further text    *)
(* after the port only: the port is the whole of the digits after the      *)
(* colon, and within its bounds (endpoint.cpp:13-33).                      *)
AddressIsRead ==
  step = "editor" /\ ~ IsPath(text) =>
    /\ \A i, k \in 1 .. Len(text) :
         Spells(text, i, k, Number(After(text, i), k)) /\ i + k = Len(text) =>
           MakeEndpoint(text) = {Tcp(Before(text, i), Number(After(text, i), k))}
    /\ \A e \in MakeEndpoint(text) \ {None} :
         \E i, k \in 1 .. Len(text) :
           /\ Spells(text, i, k, e.port) /\ e.ip = Before(text, i)
           /\ i + k = Len(text) \/ text[i + k + 1] \notin Digits

=============================================================================
