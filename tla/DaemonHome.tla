------------------------------ MODULE DaemonHome ------------------------------
(***************************************************************************)
(* What daemons of one home share: the control socket, which is to keep a  *)
(* second one away, and the log directory, which RunDaemon opens next and  *)
(* which the socket guards.  A daemon logs until it ends, after control.   *)
(* Close too.                                                              *)
(***************************************************************************)
EXTENDS ControlSocket, LogDir

\* every daemon logs
ASSUME HomeAssumption == Procs \subseteq Writers

home_vars == <<sock_vars, dir_vars>>

HomeInit == SocketInit /\ DirInit

Begins(p) == (Launch(p) \/ Starts(p)) /\ UNCHANGED dir_vars
SetupLogging(p) == at[p] = "up" /\ Open(p) /\ UNCHANGED sock_vars
Closes(p) == p \in isOpen /\ CloseControl(p) /\ UNCHANGED dir_vars
Logs(p) == (Rotate(p) \/ Write(p) \/ \E n \in Names : Removal(p, n)) /\ UNCHANGED sock_vars
Ended(p) == (Exit(p) \/ Crash(p)) /\ Leave(p)
Panics(p) == NameTaken(p) /\ Crash(p) /\ Leave(p)

HomeNext ==
  \/ \E p \in Procs : \/ Begins(p) \/ SetupLogging(p) \/ Closes(p)
                      \/ Logs(p) \/ Ended(p) \/ Panics(p)
  \/ Tick /\ UNCHANGED sock_vars

\* a start goes on
HomeSpec == /\ HomeInit /\ [][HomeNext]_home_vars
            /\ \A p \in Procs : WF_home_vars(Starts(p) /\ UNCHANGED dir_vars)

(***************************************************************************)
(* Properties.                                                             *)
(***************************************************************************)
\* Unless two were starting at once, a daemon that is up has the control socket
\* to itself, and two have the log directory open only while one of them has
\* closed its socket and is ending.
OneDaemon ==
  /\ SocketTypeOK /\ OwnsPath
  /\ ~raced => \A p, q \in isOpen : p = q \/ "closed" \in {at[p], at[q]}

\* What a dead daemon left at the path does not keep the next one from coming
\* up, if no other is there.
Alone(p) == \A q \in Procs \ {p} : at[q] \in Down

StaleIsReplaced ==
  \A p \in Procs : at[p] = "bind" /\ Alone(p) ~> at[p] \in {"up", "off"} \/ ~Alone(p)
=============================================================================
