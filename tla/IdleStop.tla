------------------------------- MODULE IdleStop -------------------------------
(***************************************************************************)
(* How the daemon comes to its end: the StopLatch (internal/host/stop.go), *)
(* the connections and containers it counts (ForwardStopLatch in vmguest.go*)
(* and MonitorContainerd in containerd.go), and the signal loop of         *)
(* RunDaemon (daemon_darwin.go), which the latch ends by closing sigCh.    *)
(*                                                                         *)
(* The latch is a goroutine that takes additions on an unbuffered channel, *)
(* so Add is a rendezvous; with none for a whole delay and a count of 0 it *)
(* stops, and nobody takes additions any more.                             *)
(*                                                                         *)
(* A forwarded connection is two sockets and a vsock connection between    *)
(* them: its handler asks a proxy in the guest (internal/rpc/proxy.go) for *)
(* the service, and each side then copies both ways.  What the service     *)
(* answers, before it closes, is one message here; of what the client sends*)
(* only this is kept: whether it sends on, whatever is answered.  An       *)
(* address that is read in part only is a refusal.                         *)
(***************************************************************************)
EXTENDS Naturals, Sequences, FiniteSets

CONSTANTS Conns,  \* connections to the docker socket
          Talkers, \* those whose client sends on, whatever it is answered; the others
                  \* ask, and then listen
          Delay,  \* of the latch, in ticks
          Signals \* bound: signals the process is sent

ASSUME ConnsAssumption == IsFiniteSet(Conns)
ASSUME TalkersAssumption == Talkers \subseteq Conns
ASSUME DelayAssumption == Delay \in Nat \ {0}
ASSUME SignalsAssumption == Signals \in Nat

VARIABLES
  pc,       \* where RunDaemon is
  latch,    \* "run" or "stopped"
  count,    \* of the latch
  elapsed,  \* ticks on its timer
  conn,     \* where the handler of each connection is
  client,   \* the client of each: "open", "half" (it has closed its writing half) or "gone",
            \* which it is too when the handler has closed the connection
  stream,   \* where the proxy of each is, then where the answer of the service is
  guestUp,  \* the guest takes connections
  sigCh,    \* values in sigCh, its capacity is 1
  closed,   \* sigCh is closed
  sent      \* signals sent so far

latch_vars == <<latch, count, elapsed>>
sig_vars == <<sigCh, closed, sent>>
conn_vars == <<conn, client, stream>>
vars == <<pc, latch_vars, conn_vars, guestUp, sig_vars>>

TypeOK ==
  /\ pc \in {"forward", "loop", "stopping", "exit", "panic"}
  /\ latch \in {"run", "stopped"} /\ count \in 0 .. Cardinality(Conns)
  /\ elapsed \in 0 .. Delay
  /\ conn \in [Conns -> {"new", "add", "dial", "ask", "copy", "cut", "sub", "closed"}]
  /\ client \in [Conns -> {"open", "half", "gone"}]
  /\ stream \in [Conns -> {"none", "asked", "refused", "open", "answered", "sent", "got", "lost"}]
  /\ \A c \in Conns : conn[c] \in {"copy", "cut"} => stream[c] \in {"open", "answered", "sent", "got", "lost"}
  /\ guestUp \in BOOLEAN
  /\ sigCh \in Seq({"term", "other"}) /\ Len(sigCh) <= 1
  /\ closed \in BOOLEAN /\ (closed => latch = "stopped") /\ sent \in 0 .. Signals

Init ==
  /\ pc = "forward" /\ latch = "run" /\ count = 0 /\ elapsed = 0
  /\ conn = [c \in Conns |-> "new"] /\ guestUp = TRUE
  /\ client = [c \in Conns |-> "open"] /\ stream = [c \in Conns |-> "none"]
  /\ sigCh = <<>> /\ closed = FALSE /\ sent = 0

Alive == pc \notin {"exit", "panic"}
Counted == {c \in Conns : conn[c] \in {"dial", "ask", "copy", "cut", "sub"}}
Goes(c, p, q) == Alive /\ conn[c] = p /\ conn' = [conn EXCEPT ![c] = q]

(***************************************************************************)
(* StopLatch.                                                              *)
(***************************************************************************)
\* every addition starts the timer anew
RestartTimer == elapsed' = 0

Added(n) ==
  /\ latch = "run" /\ count' = n
  /\ RestartTimer
  /\ UNCHANGED latch

Tick ==
  /\ Alive /\ latch = "run" /\ elapsed < Delay
  /\ elapsed' = elapsed + 1
  /\ UNCHANGED <<pc, latch, count, conn_vars, guestUp, sig_vars>>

ExpireAnyway ==
  /\ Alive /\ latch = "run" /\ elapsed = Delay
  /\ latch' = "stopped" /\ closed' = TRUE
  /\ UNCHANGED <<pc, count, elapsed, conn_vars, guestUp, sigCh, sent>>

ExpireReturns ==
  /\ Alive /\ latch = "run" /\ elapsed = Delay
  /\ IF count = 0
     THEN latch' = "stopped" /\ closed' = TRUE
     ELSE latch' = "returned" /\ UNCHANGED closed
  /\ UNCHANGED <<pc, count, elapsed, conn_vars, guestUp, sigCh, sent>>

Expire ==
  /\ Alive /\ latch = "run" /\ elapsed = Delay
  /\ IF count = 0
     THEN latch' = "stopped" /\ closed' = TRUE /\ UNCHANGED elapsed
     ELSE elapsed' = 0 /\ UNCHANGED <<latch, closed>>
  /\ UNCHANGED <<pc, count, conn_vars, guestUp, sigCh, sent>>

(***************************************************************************)
(* ForwardStopLatch: the handler of one connection.                        *)
(***************************************************************************)
\* each socket has its goroutine from when it is forwarded, whatever RunDaemon
\* still has to do before its loop
Accept(c) ==
  /\ Goes(c, "new", "add")
  /\ UNCHANGED <<pc, latch_vars, client, stream, guestUp, sig_vars>>

Add(c) ==
  /\ Goes(c, "add", "dial") /\ Added(count + 1)
  /\ UNCHANGED <<pc, client, stream, guestUp, sig_vars>>

\* connect to the proxy and name the service; after an error too the deferred
\* Add(-1) runs
Dial(c) ==
  /\ Goes(c, "dial", IF guestUp THEN "ask" ELSE "sub")
  /\ stream' = IF guestUp THEN [stream EXCEPT ![c] = "asked"] ELSE stream
  /\ UNCHANGED <<pc, latch_vars, client, guestUp, sig_vars>>

\* the proxy's reply, or the end of the guest
Asked(c) ==
  /\ stream[c] # "asked" \/ ~guestUp
  /\ Goes(c, "ask", IF stream[c] \in {"asked", "refused"} THEN "sub" ELSE "copy")
  /\ UNCHANGED <<pc, latch_vars, client, stream, guestUp, sig_vars>>

\* the proxy has sent the answer and closed, or is gone with the guest
AnswerSent(c) == stream[c] \in {"sent", "got", "lost"} \/ ~guestUp

\* the copy from the client ends with what it reads, and closes the connection
\* to the proxy, which a half of the client's was enough for
CopyIn(c) ==
  /\ client[c] # "open" /\ Goes(c, "copy", "cut")
  /\ UNCHANGED <<pc, latch_vars, client, stream, guestUp, sig_vars>>

\* it ends too when it writes to a proxy that has closed: what the proxy sent and
\* nobody has read goes with the connection
WriteFails(c) ==
  /\ c \in Talkers /\ client[c] = "open" /\ AnswerSent(c) /\ Goes(c, "copy", "cut")
  /\ UNCHANGED <<pc, latch_vars, client, stream, guestUp, sig_vars>>

\* the copy to the client
CopyOut(c) ==
  /\ Alive /\ conn[c] \in {"copy", "cut"} /\ stream[c] = "sent"
  /\ stream' = [stream EXCEPT ![c] = IF client[c] = "gone" THEN "lost" ELSE "got"]
  /\ UNCHANGED <<pc, latch_vars, conn, client, guestUp, sig_vars>>

\* it ends when the answer is read and the proxy has closed, or with the guest
ProxyClosed(c) == stream[c] \in {"got", "lost"} \/ ~guestUp

Copied(c) ==
  /\ \/ ProxyClosed(c) /\ Goes(c, "copy", "sub")
     \/ Goes(c, "cut", "sub")
  /\ stream' = [stream EXCEPT ![c] = IF @ = "sent" THEN "lost" ELSE @]
  /\ UNCHANGED <<pc, latch_vars, client, guestUp, sig_vars>>

\* the other deferred call closes the client's connection
Sub(c) ==
  /\ Goes(c, "sub", "closed") /\ Added(count - 1)
  /\ client' = [client EXCEPT ![c] = "gone"]
  /\ UNCHANGED <<pc, stream, guestUp, sig_vars>>

(***************************************************************************)
(* The client; and the guest's proxy, whose copy of the answer also closes *)
(* both its connections.  That of the client's data closes nothing: a      *)
(* service that does not speak is not told that its client is gone.        *)
(***************************************************************************)
Leave(c) ==
  /\ Alive /\ conn[c] \notin {"new", "closed"} /\ client[c] # "gone"
  /\ \E how \in {"half", "gone"} \ {client[c]} : client' = [client EXCEPT ![c] = how]
  /\ UNCHANGED <<pc, latch_vars, conn, stream, guestUp, sig_vars>>

Moves(c, p, q) == Alive /\ guestUp /\ stream[c] = p /\ stream' = [stream EXCEPT ![c] = q]

ServeStreamProxy(c) ==
  /\ \E q \in {"open", "refused"} : Moves(c, "asked", q)
  /\ UNCHANGED <<pc, latch_vars, conn, client, guestUp, sig_vars>>

Answer(c) ==
  /\ Moves(c, "open", "answered")
  /\ UNCHANGED <<pc, latch_vars, conn, client, guestUp, sig_vars>>

CopyAnswer(c) ==
  /\ Moves(c, "answered", IF conn[c] \in {"ask", "copy"} THEN "sent" ELSE "lost")
  /\ UNCHANGED <<pc, latch_vars, conn, client, guestUp, sig_vars>>

(***************************************************************************)
(* MonitorContainerd.  Its set of tasks is a nil map, and to add to it is a*)
(* panic of the daemon; the exit of a task is for ever unknown, and is     *)
(* ignored.                                                                *)
(***************************************************************************)
TaskStart ==
  /\ Alive /\ guestUp /\ pc' = "panic"
  /\ UNCHANGED <<latch_vars, conn_vars, guestUp, sig_vars>>

GuestStops ==
  /\ Alive /\ guestUp /\ guestUp' = FALSE
  /\ UNCHANGED <<pc, latch_vars, conn_vars, sig_vars>>

(***************************************************************************)
(* Signals.  All are relayed to sigCh, those of Go's own scheduler too; a  *)
(* full channel takes none, and a closed one is a panic.                   *)
(***************************************************************************)
Deliver(s) ==
  /\ Alive /\ sent < Signals /\ sent' = sent + 1
  /\ pc' = IF closed THEN "panic" ELSE pc
  /\ sigCh' = IF ~closed /\ sigCh = <<>> THEN <<s>> ELSE sigCh
  /\ UNCHANGED <<latch_vars, conn_vars, guestUp, closed>>

(***************************************************************************)
(* RunDaemon, from signal.Notify on.                                       *)
(***************************************************************************)
\* the sockets are forwarded and the guest's disks trimmed
ForwardSockets ==
  /\ pc = "forward" /\ pc' = "loop"
  /\ UNCHANGED <<latch_vars, conn_vars, guestUp, sig_vars>>

AnyStops(s) == "stopping"
AfterSignal(s) == IF s = "term" THEN "stopping" ELSE "loop"

SignalLoopOpen ==
  /\ pc = "loop" /\ sigCh # <<>>
  /\ sigCh' = Tail(sigCh) /\ pc' = AfterSignal(Head(sigCh))
  /\ UNCHANGED <<latch_vars, conn_vars, guestUp, closed, sent>>

SignalLoop ==
  /\ pc = "loop"
  /\ IF sigCh # <<>>
     THEN sigCh' = Tail(sigCh) /\ pc' = AfterSignal(Head(sigCh))
     ELSE closed /\ pc' = "stopping" /\ UNCHANGED sigCh
  /\ UNCHANGED <<latch_vars, conn_vars, guestUp, closed, sent>>

\* svc.Signal and svc.Wait: dockerd takes its time, or the guest is gone
StopService ==
  /\ pc = "stopping" /\ pc' = "exit"
  /\ UNCHANGED <<latch_vars, conn_vars, guestUp, sig_vars>>

Handler(c) == \/ Accept(c) \/ Add(c) \/ Dial(c) \/ Asked(c)
              \/ CopyIn(c) \/ WriteFails(c) \/ CopyOut(c) \/ Copied(c) \/ Sub(c)
Proxy(c) == ServeStreamProxy(c) \/ CopyAnswer(c)
Main == ForwardSockets \/ SignalLoop

Next == \/ Tick \/ Expire \/ Main \/ StopService
        \/ (\E c \in Conns : Handler(c) \/ Proxy(c) \/ Leave(c) \/ Answer(c))
        \/ TaskStart \/ GuestStops
        \/ \E s \in {"term", "other"} : Deliver(s)

\* Time passes and goroutines run; the latch takes what is offered again and
\* again.  Clients may stay connected and say nothing, services may not answer, and dockerd may
\* not end.
Fairness ==
  /\ WF_vars(Tick) /\ WF_vars(Expire) /\ WF_vars(Main)
  /\ \A c \in Conns :
       /\ WF_vars(Add(c) \/ Sub(c)) /\ WF_vars(Dial(c) \/ Asked(c) \/ CopyIn(c)) /\ WF_vars(Copied(c))
       /\ WF_vars(CopyOut(c)) /\ WF_vars(Proxy(c))

Spec == Init /\ [][Next]_vars /\ Fairness

(***************************************************************************)
(* Properties.                                                             *)
(***************************************************************************)
\* The latch counts the connections that are open: its "negative count" is
\* never reached, and none is forgotten.
CountIsOpen == count = Cardinality(Counted)

\* Never stopped under a client: when sigCh is closed no connection is
\* forwarded, nor will one be.
StopMeansIdle == latch = "stopped" => Counted = {}

\* What StopLatch.run may rely on: its state is well typed, it counts right, and
\* it stops only when there is nothing to count.
LatchInv == TypeOK /\ CountIsOpen /\ StopMeansIdle

\* The daemon's end as its users see it: each step of the latch, of a connection or
\* of the signal loop changes nothing of it, or lets in a client, or ends the daemon
\* for a reason: somebody asked for it, or nobody was in.
StopRequested == pc = "stopping" \/ (sigCh # <<>> /\ Head(sigCh) = "term")
Life == CASE pc \in {"exit", "panic"} -> pc
          [] Alive /\ closed -> "idle"
          [] Alive /\ ~closed /\ StopRequested -> "asked"
          [] OTHER -> "up"
At == [c \in Conns |-> IF conn[c] \in {"new", "add"} THEN "out" ELSE IF conn[c] = "closed" THEN "left" ELSE "in"]

Daemon == INSTANCE DaemonLife WITH Clients <- Conns, life <- Life, at <- At, signals <- sent

StopsForReason == Daemon!Spec

\* What the service answers reaches a client that has asked and listens, past two
\* copies that end and close in any order, unless the guest is gone.  Only such a
\* client is sure of it: one that closes the half it writes to may lose its answer,
\* and so may one that is still sending when the service has answered and closed.
AnswerReaches == \A c \in Conns : stream[c] = "lost" => client[c] # "open" \/ c \in Talkers \/ ~guestUp

\* A client that was accepted is let through or refused, unless the daemon is
\* stopping: the latch that has stopped takes no Add, and its client waits in
\* vain. And a client that leaves is not counted for ever.
ClientServed ==
  \A c \in Conns :
    /\ conn[c] = "add" ~> conn[c] \notin {"add", "dial", "ask"} \/ latch = "stopped" \/ ~Alive
    /\ client[c] # "open" ~> conn[c] = "closed" \/ latch = "stopped" \/ ~Alive

\* Without connections the daemon comes to its end.
IdleStops == count = 0 ~> count > 0 \/ pc \in {"stopping", "exit", "panic"}

=============================================================================
