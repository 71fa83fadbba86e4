---------------------------- MODULE ServiceLaunch ----------------------------
(***************************************************************************)
(* VirtualMachine.LaunchService (internal/host/service_darwin.go) and the  *)
(* part of RunDaemon that lives on it: launch dockerd in the guest, wait   *)
(* until it reports READY=1 on its notify socket or exits, later signal it *)
(* and wait for its exit code.                                             *)
(*                                                                         *)
(* The launcher is RunDaemon's main goroutine.  Two goroutines, waitNotify *)
(* and waitService, send on the unbuffered channel rc; the second closes   *)
(* it.  The notify socket is a DatagramProxy in the guest with the calls   *)
(* of the launcher (Listen, Close) and of waitNotify (Read).               *)
(***************************************************************************)
EXTENDS DatagramProxy

\* the calls of the two goroutines; a notification is READY=1 or another one
ASSUME ServiceAssumption ==
  Calls = {"launcher", "notifier"} /\ "ready" \in Data /\ Data \cap {"none", "ok", "error"} = {}

VARIABLES
  pc,        \* where the launcher is
  verdict,   \* what LaunchService returns: "none", "ready" or "error"
  cause,     \* why an error: "none", "setup", "ctx" or "code"
  exit,      \* what Service.Wait returned
  notifier,  \* where waitNotify is
  waiter,    \* where waitService is
  code,      \* the value waitService sends
  closed,    \* rc is closed
  proc,      \* the process in the guest
  announced, \* it has sent READY=1
  termed,    \* it was sent SIGTERM
  panicked   \* a send on the closed rc

host_vars  == <<pc, verdict, cause, exit, notifier, waiter, code, closed, panicked>>
guest_vars == <<proc, announced, termed>>
vars == <<proxy_vars, host_vars, guest_vars>>

\* values on rc: 0, -1 and the other exit codes
Codes == {"0", "-1", "n"}

\* how a process ends: with exit code 0, with another, or by a signal
Ends == {"stopped", "failed", "killed"}

TypeOK ==
  /\ ProxyTypeOK
  /\ pc \in {"listen", "listening", "launch", "select", "close", "closing", "up", "wait", "exited"}
  /\ verdict \in {"none", "ready", "error"} /\ cause \in {"none", "setup", "ctx", "code"}
  /\ exit \in Codes \union {"none"} /\ code \in {"none", "-1", "n"}
  /\ notifier \in {"none", "call", "read", "send", "fail", "done"}
  /\ waiter \in {"none", "wait", "send", "sent", "done"}
  /\ proc \in {"none", "running"} \union Ends
  /\ closed \in BOOLEAN /\ announced \in BOOLEAN /\ termed \in BOOLEAN
  /\ panicked \in BOOLEAN
  /\ closed <=> waiter = "done"

Init ==
  /\ ProxyInit
  /\ pc = "listen" /\ verdict = "none" /\ cause = "none" /\ exit = "none"
  /\ notifier = "none" /\ waiter = "none" /\ code = "none" /\ closed = FALSE
  /\ proc = "none" /\ announced = FALSE /\ termed = FALSE
  /\ panicked = FALSE

Alive == ~panicked /\ pc # "exited"

Becomes(p, v, c) == pc' = p /\ verdict' = v /\ cause' = c

(***************************************************************************)
(* LaunchService, up to the select.                                        *)
(***************************************************************************)
ListenNotify ==
  /\ pc = "listen" /\ Invoke("launcher", "ListenUnix")
  /\ pc' = "listening"
  /\ UNCHANGED <<verdict, cause, exit, notifier, waiter, code, closed, panicked, guest_vars>>

Listening ==
  /\ pc = "listening" /\ Return("launcher")
  /\ IF call["launcher"].res = "ok" THEN Becomes("launch", "none", "none") ELSE Becomes("exited", "error", "setup")
  /\ UNCHANGED <<exit, notifier, waiter, code, closed, panicked, guest_vars>>

Launch ==
  /\ pc = "launch"
  /\ \/ /\ vmUp /\ proc' = "running"
        /\ notifier' = "call" /\ waiter' = "wait"
        /\ Becomes("select", "none", "none")
     \/ /\ Becomes("close", "error", "setup")
        /\ UNCHANGED <<proc, notifier, waiter>>
  /\ UNCHANGED <<exit, code, closed, panicked, announced, termed, proxy_vars>>

CtxDone ==
  /\ pc = "select" /\ Becomes("close", "error", "ctx")
  /\ UNCHANGED <<exit, notifier, waiter, code, closed, panicked, guest_vars, proxy_vars>>

(***************************************************************************)
(* The channel.  A receiver takes v from a sender, and 0 when it is closed.*)
(***************************************************************************)
TakenBySelect(v) ==
  /\ pc = "select"
  /\ IF v = "0" THEN Becomes("close", "ready", "none") ELSE Becomes("close", "error", "code")
  /\ UNCHANGED exit

TakenByWait(v) ==
  /\ pc = "wait" /\ pc' = "exited" /\ exit' = v
  /\ UNCHANGED <<verdict, cause>>

TakenWithoutCh(v) == TakenBySelect(v)
Taken(v) == TakenBySelect(v) \/ TakenByWait(v)

ReceiveClosed ==
  /\ Alive /\ closed /\ Taken("0")
  /\ UNCHANGED <<notifier, waiter, code, closed, panicked, guest_vars, proxy_vars>>

(***************************************************************************)
(* The deferred conn.Close.  After an error RunDaemon returns at once, and *)
(* the process with it.                                                    *)
(***************************************************************************)
CloseConn ==
  /\ pc = "close" /\ Invoke("launcher", "Close")
  /\ pc' = "closing"
  /\ UNCHANGED <<verdict, cause, exit, notifier, waiter, code, closed, panicked, guest_vars>>

ConnClosed ==
  /\ pc = "closing" /\ Return("launcher")
  /\ pc' = IF verdict = "ready" THEN "up" ELSE "exited"
  /\ UNCHANGED <<verdict, cause, exit, notifier, waiter, code, closed, panicked, guest_vars>>

\* the signal loop of RunDaemon has ended: svc.Signal, then svc.Wait
StopService ==
  /\ pc = "up" /\ pc' = "wait"
  /\ termed' = vmUp
  /\ UNCHANGED <<verdict, cause, exit, notifier, waiter, code, closed, panicked,
                 proc, announced, proxy_vars>>

(***************************************************************************)
(* waitNotify.                                                             *)
(***************************************************************************)
NotifyCall ==
  /\ Alive /\ notifier = "call" /\ Invoke("notifier", "Read")
  /\ notifier' = "read"
  /\ UNCHANGED <<pc, verdict, cause, exit, waiter, code, closed, panicked, guest_vars>>

AnyIsReady(r) == IF r = "error" THEN "fail" ELSE "send"
NeverReady(r) == IF r = "error" THEN "fail" ELSE "call"

\* only READY=1 counts; other notifications are skipped
AfterRead(r) == CASE r = "error" -> "fail" [] r = "ready" -> "send" [] OTHER -> "call"

NotifyRead ==
  /\ Alive /\ notifier = "read" /\ Return("notifier")
  /\ notifier' = AfterRead(call["notifier"].res)
  /\ UNCHANGED <<pc, verdict, cause, exit, waiter, code, closed, panicked, guest_vars>>

\* the send of the error is under recover, the send of 0 is not
NotifySend ==
  /\ Alive /\ notifier \in {"send", "fail"}
  /\ \/ ~closed /\ Taken(IF notifier = "send" THEN "0" ELSE "-1") /\ UNCHANGED panicked
     \/ closed /\ panicked' = (notifier = "send") /\ UNCHANGED <<pc, verdict, cause, exit>>
  /\ notifier' = "done"
  /\ UNCHANGED <<waiter, code, closed, guest_vars, proxy_vars>>

(***************************************************************************)
(* waitService.  It sends 1 for an error of the call, -1 for the exit code *)
(* 0, and any other as it is; os gives the code -1 to a process that a     *)
(* signal ended.                                                           *)
(***************************************************************************)
Sent(end) == IF end = "failed" THEN "n" ELSE "-1"

WaitReturns ==
  /\ Alive /\ waiter = "wait"
  /\ \/ vmUp /\ proc \in Ends /\ code' = Sent(proc)
     \/ ~vmUp /\ code' = "n"
  /\ waiter' = "send"
  /\ UNCHANGED <<pc, verdict, cause, exit, notifier, closed, panicked, guest_vars, proxy_vars>>

SendOrDrop == IF pc \in {"select", "wait"} THEN Taken(code)
              ELSE UNCHANGED <<pc, verdict, cause, exit>>
SendCode == Taken(code)

WaiterSend ==
  /\ Alive /\ waiter = "send" /\ SendCode
  /\ waiter' = "sent"
  /\ UNCHANGED <<notifier, code, closed, panicked, guest_vars, proxy_vars>>

WaiterClose ==
  /\ Alive /\ waiter = "sent" /\ waiter' = "done" /\ closed' = TRUE
  /\ UNCHANGED <<pc, verdict, cause, exit, notifier, code, panicked, guest_vars, proxy_vars>>

(***************************************************************************)
(* The guest.                                                              *)
(***************************************************************************)
Announce ==
  /\ proc = "running" /\ ~announced
  /\ Arrive("ready") /\ announced' = TRUE
  /\ UNCHANGED <<host_vars, proc, termed>>

NotifyOther ==
  /\ proc = "running" /\ \E d \in Data \ {"ready"} : Arrive(d)
  /\ UNCHANGED <<host_vars, guest_vars>>

ProcExits ==
  /\ proc = "running" /\ proc' \in Ends
  /\ UNCHANGED <<host_vars, announced, termed, proxy_vars>>

GuestStops == VMStops /\ UNCHANGED <<host_vars, guest_vars>>

\* the guest serves a call, or the connection to it is gone
GuestCall(c) == (CallStep(c) \/ CallFails(c)) /\ UNCHANGED <<host_vars, guest_vars>>

Launcher == \/ ListenNotify \/ Listening \/ Launch \/ CloseConn \/ ConnClosed \/ ReceiveClosed
Notifier == NotifyCall \/ NotifyRead \/ NotifySend
Waiter == WaitReturns \/ WaiterSend \/ WaiterClose

Next == \/ Alive /\ (Launcher \/ CtxDone \/ StopService)
        \/ Notifier \/ Waiter
        \/ Announce \/ NotifyOther \/ ProcExits \/ GuestStops
        \/ \E c \in Calls : GuestCall(c)

\* Goroutines run; the proxy's mutex and the kernel are fair; a process that
\* was sent SIGTERM exits.  Nothing makes it announce itself or exit before.
Fairness ==
  /\ WF_vars(Alive /\ Launcher) /\ WF_vars(Notifier) /\ WF_vars(Waiter)
  /\ \A c \in Calls :
       WF_vars(GuestCall(c)) /\ SF_vars(GuestCall(c) /\ vmUp /\ Lock(c))
  /\ WF_vars(termed /\ ProcExits)

Spec == Init /\ [][Next]_vars /\ Fairness

(***************************************************************************)
(* Properties.                                                             *)
(***************************************************************************)
\* What is told of the service is what happened to it, whichever goroutine and
\* whichever of the channel's values comes first, 0 being also what a closed
\* channel gives. LaunchService succeeds only for a process that announced itself,
\* and fails for an exit code only when the process is gone or the guest is.
\* Service.Wait returns what the process left, and only after it is gone: -1 for one
\* that ended by itself without an error, and for one that a signal killed, which
\* the daemon cannot tell apart; another code for one that failed, or whose guest is
\* gone.
ReportsAreReal ==
  /\ verdict = "ready" => announced
  /\ cause = "code" => proc \in Ends \/ ~vmUp
  /\ exit # "none" => /\ exit = code
                      /\ exit = "-1" => proc \in {"stopped", "killed"}
                      /\ exit = "n" => proc = "failed" \/ ~vmUp

\* LaunchService and Service are well typed, and report what is real.
ServiceInv == TypeOK /\ ReportsAreReal

\* what RunDaemon has been told
Told == CASE verdict = "none" -> "nothing" [] verdict = "ready" -> "ready" [] OTHER -> cause

Contract == INSTANCE ServiceContract WITH life <- proc, reachable <- vmUp, told <- Told, left <- exit

\* The goroutines and their channel keep the contract of a service: each of their
\* steps changes nothing that RunDaemon sees, or gives it the one verdict or the one
\* exit code that is due, while it is true.
KeepsContract == Contract!Spec

\* Once the service has announced itself, LaunchService comes back: its Close
\* does not wait for ever behind the Read of waitNotify.
AnnouncedReturns == announced /\ vmUp ~> pc \in {"up", "wait", "exited"} \/ panicked

\* After the stop the daemon exits: Wait gets the exit code, although the
\* goroutine that sends it may have been blocked on the channel since long.
StopCompletes == pc = "wait" ~> pc = "exited"
=============================================================================
