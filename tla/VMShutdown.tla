------------------------------ MODULE VMShutdown ------------------------------
(***************************************************************************)
(* VirtualMachine.Shutdown (internal/host/vmguest.go) and its one caller,  *)
(* the end of debugVM (cli/railyard/debug_darwin.go), with the guest they  *)
(* stop: dockerd is sent SIGTERM and awaited, the guest's Shutdown is      *)
(* called while the host closes the listeners it forwards, and when it is  *)
(* answered the connection is closed, which lets the guest power off, and  *)
(* the status "stopped" is awaited on a channel of the event bus.          *)
(*                                                                         *)
(* Begin, the check and the goroutine that follows the machine's state hold*)
(* vm.mutex; so an Emit, which runs under it, is one step here.  The bus   *)
(* closes its channels some time after debugVM's context was cancelled,    *)
(* which is how debugVM comes to its end.                                  *)
(***************************************************************************)
EXTENDS GuestProcesses

CONSTANT Listeners  \* the sockets of the host forwarded to the guest

VARIABLES
  pc,         \* where debugVM is
  status,     \* vm.status
  notified,   \* the goroutine that follows the machine has seen its end
  calling,    \* the goroutine that calls the guest's Shutdown is started
  listenCh,   \* "none", "nil" or "made"
  queue,      \* the statuses in it; its capacity is 1
  busClosed,  \* the bus has closed its channels
  chClosed,   \* listenCh among them
  listeners,  \* vm.listeners
  accepting,  \* listeners open, their accept loops running
  returned,   \* listeners closed, vm.listeners not updated yet by their loops
  late        \* listeners registered after the sweep

wait_vars == <<listenCh, queue, busClosed, chClosed>>
forward_vars == <<listeners, accepting, returned, late>>
host_vars == <<pc, status, notified, calling, wait_vars, forward_vars>>
vars == <<guest_vars, host_vars>>

Statuses == {"ready", "stopping", "stopped"}
Finished == {"done", "failed", "crashed"}

TypeOK ==
  /\ GuestTypeOK
  /\ pc \in {"signal", "service", "begin", "check", "await", "close", "wait"} \union Finished
  /\ status \in Statuses /\ notified \in BOOLEAN /\ calling \in BOOLEAN
  /\ listenCh \in {"none", "nil", "made"}
  /\ queue \in Seq(Statuses) /\ Len(queue) <= 1
  /\ busClosed \in BOOLEAN /\ (chClosed => busClosed /\ listenCh = "made")
  /\ listeners \union accepting \union returned \union late \subseteq Listeners
  /\ accepting \cap returned = {}

\* dockerd was launched and its Wait is under way
Init ==
  /\ guest = "up" /\ conn = TRUE
  /\ at = [c \in Calls |-> IF c \in Launches THEN "ok" ELSE IF c \in Waits THEN "wait" ELSE "idle"]
  /\ table \in [Names -> Launches] /\ gone = FALSE
  /\ \A n \in Names : NameOf[table[n]] = n
  /\ proc = [l \in Launches |-> "running"] /\ killed = {}
  /\ got = [w \in Waits |-> table[NameOf[w]]]
  /\ reaping = <<>> /\ timedOut = FALSE /\ mounts = Mounts /\ orphans = FALSE
  /\ pc = "signal" /\ status = "ready" /\ notified = FALSE /\ calling = FALSE
  /\ listenCh = "none" /\ queue = <<>> /\ busClosed = FALSE /\ chClosed = FALSE
  /\ listeners = {} /\ accepting = {} /\ returned = {} /\ late = {}

Live == pc \notin Finished

UpdateRepeating(s) ==
  /\ status' = s
  /\ queue' = IF listenCh = "made" /\ ~chClosed /\ queue = <<>> THEN <<s>> ELSE queue

\* UpdateStatus, its Emit included: a full channel takes nothing more
UpdateStatus(s) ==
  /\ status' = s
  /\ queue' = IF s # status /\ listenCh = "made" /\ ~chClosed /\ queue = <<>> THEN <<s>> ELSE queue

(***************************************************************************)
(* debugVM, once its context is done.                                      *)
(***************************************************************************)
\* an error is only logged; whether dockerd obeys is Exits
SignalService ==
  /\ pc = "signal" /\ pc' = "service"
  /\ UNCHANGED <<guest_vars, status, notified, calling, wait_vars, forward_vars>>

\* Service.Wait has no deadline
ServiceExited ==
  /\ pc = "service" /\ \A w \in Waits : at[w] \in Answers
  /\ pc' = "begin"
  /\ UNCHANGED <<guest_vars, status, notified, calling, wait_vars, forward_vars>>

(***************************************************************************)
(* Shutdown.                                                               *)
(***************************************************************************)
Begin ==
  /\ pc = "begin" /\ pc' = "check"
  /\ UpdateStatus("stopping") /\ calling' = TRUE
  /\ UNCHANGED <<guest_vars, notified, listenCh, busClosed, chClosed, forward_vars>>

\* the goroutine of Await; without a connection net/rpc fails the call
CallShutdown ==
  /\ Live /\ calling /\ calling' = FALSE
  /\ IF conn THEN Send(Down)
     ELSE at' = [at EXCEPT ![Down] = "error"] /\ UNCHANGED <<guest, conn, proc_vars, down_vars>>
  /\ UNCHANGED <<pc, status, notified, wait_vars, forward_vars>>

Swept == listenCh # "none"

MakeCh == listenCh' = IF status = "stopped" THEN "nil" ELSE "made"

SweepRegistered ==
  /\ listeners' = {}
  /\ UNCHANGED <<accepting, returned, late>>

\* Close of every listener in the map, and a new map
Sweep ==
  /\ accepting' = accepting \ listeners
  /\ returned' = returned \union (accepting \cap listeners)
  /\ listeners' = {}
  /\ UNCHANGED late

\* one critical section: status, Listen, and the listeners
Check ==
  /\ pc = "check" /\ pc' = "await"
  /\ MakeCh /\ Sweep
  /\ UNCHANGED <<guest_vars, status, notified, calling, queue, busClosed, chClosed>>

AwaitGuest ==
  /\ pc = "await" /\ at[Down] \in Answers
  /\ pc' = IF at[Down] = "ok" THEN "close" ELSE "failed"
  /\ UNCHANGED <<guest_vars, status, notified, calling, wait_vars, forward_vars>>

CloseWithoutAnswer ==
  /\ pc \in {"await", "close"} /\ pc' = "wait"
  /\ IF conn THEN Close ELSE UNCHANGED guest_vars
  /\ UNCHANGED <<status, notified, calling, wait_vars, forward_vars>>

CloseConn ==
  /\ pc = "close" /\ pc' \in {"wait", "failed"}
  /\ IF conn /\ pc' = "wait" THEN Close ELSE UNCHANGED guest_vars
  /\ UNCHANGED <<status, notified, calling, wait_vars, forward_vars>>

AfterStatus(s) == IF s = "stopped" THEN "done" ELSE "wait"

ReceiveNow ==
  /\ pc = "wait" /\ pc' = IF queue = <<>> THEN "done" ELSE AfterStatus(Head(queue))
  /\ queue' = IF queue = <<>> THEN queue ELSE Tail(queue)
  /\ UNCHANGED <<guest_vars, status, notified, calling, listenCh, busClosed, chClosed, forward_vars>>

\* the range over listenCh; over nil it waits for ever
Receive ==
  /\ pc = "wait"
  /\ \/ queue # <<>> /\ queue' = Tail(queue) /\ pc' = AfterStatus(Head(queue))
     \/ queue = <<>> /\ chClosed /\ pc' = "done" /\ UNCHANGED queue
  /\ UNCHANGED <<guest_vars, status, notified, calling, listenCh, busClosed, chClosed, forward_vars>>

(***************************************************************************)
(* The goroutine that follows the machine, the event receiver and the bus. *)
(***************************************************************************)
Notified ==
  /\ Live /\ ~Up /\ ~notified
  /\ \/ UpdateStatus("stopping") /\ UNCHANGED notified
     \/ UpdateStatus("stopped") /\ notified' = TRUE
  /\ UNCHANGED <<guest_vars, pc, calling, listenCh, busClosed, chClosed, forward_vars>>

\* it panics when the stream ends with anything but EOF
StreamBreaks ==
  /\ Live /\ ~Up /\ pc' = "crashed"
  /\ UNCHANGED <<guest_vars, status, notified, calling, wait_vars, forward_vars>>

\* the function given to context.AfterFunc
CloseBus ==
  /\ Live /\ ~busClosed /\ busClosed' = TRUE
  /\ chClosed' = (listenCh = "made")
  /\ UNCHANGED <<guest_vars, pc, status, notified, calling, listenCh, queue, forward_vars>>

(***************************************************************************)
(* ForwardStopLatch, the listeners' side of it.                            *)
(***************************************************************************)
Forward(l) ==
  /\ Live /\ l \notin listeners \union accepting \union returned
  /\ listeners' = listeners \union {l} /\ accepting' = accepting \union {l}
  /\ late' = IF Swept THEN late \union {l} ELSE late
  /\ UNCHANGED <<guest_vars, pc, status, notified, calling, wait_vars, returned>>

\* the accept loop has ended
Forwarded(l) ==
  /\ Live /\ l \in returned
  /\ returned' = returned \ {l} /\ listeners' = listeners \ {l}
  /\ UNCHANGED <<guest_vars, pc, status, notified, calling, wait_vars, accepting, late>>

\* the guest's kernel fails, or the machine does
MachineFails ==
  /\ Up /\ Dies
  /\ UNCHANGED <<proc_vars, down_vars, host_vars>>

DebugVM == \/ SignalService \/ ServiceExited \/ Begin \/ Check
           \/ AwaitGuest \/ CloseConn \/ Receive

Guest == GuestStep /\ UNCHANGED host_vars

Next == \/ DebugVM \/ CallShutdown \/ Notified \/ StreamBreaks \/ CloseBus
         \/ (\E l \in Listeners : Forward(l) \/ Forwarded(l))
         \/ Guest \/ MachineFails

NotifiedStopped == Notified /\ notified'

Fairness ==
  /\ WF_vars(DebugVM) /\ WF_vars(CallShutdown) /\ WF_vars(NotifiedStopped)
  /\ \A c \in Calls : WF_vars(Serve(c) /\ UNCHANGED host_vars)
  /\ WF_vars(ReapNext /\ UNCHANGED host_vars) /\ WF_vars(TimeOut /\ UNCHANGED host_vars)
  /\ WF_vars(PowerOff /\ UNCHANGED host_vars)
  /\ \A l \in Launches : WF_vars(l \in killed /\ Exits(l) /\ UNCHANGED host_vars)

Spec == Init /\ [][Next]_vars /\ Fairness

(***************************************************************************)
(* Properties.                                                             *)
(***************************************************************************)
\* Shutdown returns without an error only when the machine has stopped, or
\* the cancelled context has closed its channel.
DoneMeansStopped == pc = "done" => (status = "stopped" /\ ~Up) \/ chClosed

\* A guest that powers off after Shutdown has unmounted its file systems,
\* and Shutdown's failure leaves it on: only its death loses what was mounted.
OffIsUnmounted == guest = "off" => mounts = 0 /\ at[Down] = "ok"

\* Until the sweep every socket that accepts connections is in vm.listeners, where
\* the sweep finds it; after it only one that was registered later accepts. Nothing
\* keeps Forward from registering one then, and no other sweep comes.
SweepIsComplete == accepting \subseteq IF Swept THEN late ELSE listeners

\* The host's and the guest's part of the shutdown are well typed, and the sweep
\* closes every socket that was forwarded before it.
ShutdownInv == TypeOK /\ SweepIsComplete

\* Shutdown ends, unless the machine stopped between the guest's answer and
\* the check: listenCh is nil then, and the range over it never ends.
ShutdownEnds == pc = "check" ~> pc \in Finished \/ listenCh = "nil"
=============================================================================
