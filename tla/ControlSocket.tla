---------------------------- MODULE ControlSocket ----------------------------
(***************************************************************************)
(* The socket a daemon is found by: ListenSocket and checkSocket           *)
(* (internal/controlsock/sock.go), which take the path over from a daemon  *)
(* that has died and leave it to one that lives, and the daemon's start and*)
(* end around them (RunDaemon in internal/host/daemon_darwin.go).          *)
(*                                                                         *)
(* A path is what the file system has there: a process's socket stays when *)
(* the process dies, and Close of a listener removes whatever is at its    *)
(* path.  checkLock and LockSocket are left out: nothing makes a lock file.*)
(***************************************************************************)
EXTENDS Naturals

CONSTANTS Procs,     \* daemons
          MaxStarts  \* bound: times one is started

ASSUME ProcsAssumption == "" \notin Procs
ASSUME SocketStartsAssumption == MaxStarts \in Nat

VARIABLES
  at,      \* where each daemon is
  path,    \* the daemon whose socket is at the path, or ""
  raced,   \* two were starting at once, since there was none
  runs     \* starts so far

sock_vars == <<at, path, raced, runs>>

Starting == {"bind", "stat", "dial", "remove", "unlink", "rebind", "listen"}
Down == {"off", "failed"}

SocketTypeOK ==
  /\ at \in [Procs -> Starting \union Down \union {"up", "closed"}]
  /\ path \in Procs \union {""} /\ raced \in BOOLEAN /\ runs \in 0 .. MaxStarts

SocketInit == at = [p \in Procs |-> "off"] /\ path = "" /\ raced = FALSE /\ runs = 0

Go(p, there) == at' = [at EXCEPT ![p] = there]

\* once no daemon is left it does not matter how they had started
Ends(p, how) ==
  /\ Go(p, how)
  /\ raced' = (raced /\ \E q \in Procs \ {p} : at[q] \notin Down)

Launch(p) ==
  /\ at[p] \in Down /\ runs < MaxStarts /\ runs' = runs + 1
  /\ Go(p, "bind")
  /\ raced' = (raced \/ \E q \in Procs : at[q] \in Starting)
  /\ UNCHANGED path

(***************************************************************************)
(* ListenSocket.  net.ListenUnix binds the path, then listens on it.       *)
(***************************************************************************)
\* It may fail for another reason than a path that is taken.
Bind(p) ==
  /\ at[p] = "bind"
  /\ \/ path = "" /\ path' = p /\ Go(p, "listen")
     \/ UNCHANGED path /\ Go(p, "stat")
  /\ UNCHANGED <<raced, runs>>

Stat(p) ==
  /\ at[p] = "stat" /\ Go(p, IF path = "" THEN "unlink" ELSE "dial")
  /\ UNCHANGED <<path, raced, runs>>

NobodyAnswers == FALSE
Answers == path # "" /\ \E q \in Procs : path = q /\ at[q] = "up"

\* checkSocket: ExistingSocketError, with which RunDaemon panics
Refused(p) == at[p] = "dial" /\ Answers /\ Ends(p, "failed") /\ UNCHANGED <<path, runs>>

Dial(p) ==
  /\ at[p] = "dial" /\ ~Answers /\ Go(p, "remove")
  /\ UNCHANGED <<path, raced, runs>>

Left == path
Removed == ""

RemoveStale(p) ==
  /\ at[p] = "remove" /\ Go(p, "unlink") /\ path' = Removed
  /\ UNCHANGED <<raced, runs>>

\* and once more in ListenSocket
Unlink(p) ==
  /\ at[p] = "unlink" /\ Go(p, "rebind") /\ path' = Removed
  /\ UNCHANGED <<raced, runs>>

\* another failure than a path that is taken is a panic like any (Crash)
Rebind(p) ==
  /\ at[p] = "rebind"
  /\ IF path = "" THEN path' = p /\ Go(p, "listen") /\ UNCHANGED raced
     ELSE UNCHANGED path /\ Ends(p, "failed")
  /\ UNCHANGED runs

Listen(p) ==
  /\ at[p] = "listen" /\ Go(p, "up")
  /\ UNCHANGED <<path, raced, runs>>

Starts(p) == \/ Bind(p) \/ Stat(p) \/ Refused(p) \/ Dial(p) \/ RemoveStale(p) \/ Unlink(p)
             \/ Rebind(p) \/ Listen(p)

(***************************************************************************)
(* The end of RunDaemon: control.Close, which has no listener to close when*)
(* the server has not come to serve it, and what is deferred before it.    *)
(***************************************************************************)
CloseControl(p) ==
  /\ at[p] = "up" /\ Go(p, "closed") /\ path' \in {"", path}
  /\ UNCHANGED <<raced, runs>>

Exit(p) == at[p] = "closed" /\ Ends(p, "off") /\ UNCHANGED <<path, runs>>

\* a panic, a signal, the end of the host
Crash(p) == at[p] \notin Down /\ Ends(p, "off") /\ UNCHANGED <<path, runs>>

(***************************************************************************)
(* Properties.                                                             *)
(***************************************************************************)
\* Unless two were starting at once, a daemon that is up has the path, and is
\* so the only one: whatever was left there, no other takes it over.
OwnsPath == ~raced => \A p \in Procs : at[p] = "up" => path = p
=============================================================================
