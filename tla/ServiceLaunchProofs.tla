-------------------------- MODULE ServiceLaunchProofs --------------------------
(***************************************************************************)
(* Proofs about DatagramProxy, for any number of calls at once, any        *)
(* datagrams and any length of the kernel's queue, and about ServiceLaunch,*)
(* which uses it, for any notifications and any length of that queue.      *)
(***************************************************************************)
EXTENDS ServiceLaunch, TLAPS

(***************************************************************************)
(* The datagram proxy.                                                     *)
(***************************************************************************)
CallType == [op : Methods \union {"none"}, pc : {"idle", "waiting", "reading", "done"}, res : Results]

(***************************************************************************)
(* What sync.RWMutex guarantees: whoever announced a write waits or is     *)
(* alone, and the readers are the calls that are in the kernel.            *)
(***************************************************************************)
LockInv ==
  /\ call \in [Calls -> CallType]
  /\ writer \subseteq Waiting(Exclusive) /\ \A c, d \in writer : c = d
  /\ readers = Reading /\ \A c \in readers : call[c].op = "Read"

SocketInv ==
  /\ sock \in {"nil", "dialed", "listening"}
  /\ inbox \in Seq(Data) /\ Len(inbox) <= MaxQueue
  /\ deadline \in {"none", "armed", "passed"}
  /\ sock = "nil" => inbox = <<>> /\ deadline = "none"

LEMMA TypeIsParts == ProxyTypeOK <=> LockInv /\ SocketInv /\ vmUp \in BOOLEAN
BY Zenon DEF ProxyTypeOK, LockInv, SocketInv, CallType

\* An Unlock lets in all readers that wait, and no writer.
LEMMA FinishKeeps ==
  ASSUME LockInv, NEW c \in Calls, c \in writer, NoReaders, NEW r \in Results, Finish(c, r)
  PROVE  LockInv'
<1> DEFINE queued == Waiting({"Read"})
<1>1. writer' = {} /\ readers' = readers \union queued
  BY DEF Finish
<1>2. \A x \in Calls : call'[x] = IF x = c THEN [call[c] EXCEPT !.pc = "done", !.res = r]
                                  ELSE IF x \in queued THEN [call[x] EXCEPT !.pc = "reading"] ELSE call[x]
  BY DEF Finish
<1>3. \A x \in Calls : call[x] \in CallType
  BY DEF LockInv
<1>4. call' \in [Calls -> CallType]
  BY <1>2, <1>3 DEF Finish, CallType
<1>5. readers = {} /\ Reading = {}
  BY DEF LockInv, NoReaders
<1>6. c \notin queued
  BY DEF LockInv, Waiting, Exclusive, Openings
<1>7. Reading' = queued
  BY <1>2, <1>3, <1>5, <1>6 DEF Reading, CallType, Waiting
<1>8. \A x \in queued : call'[x].op = "Read"
  BY <1>2, <1>3, <1>6 DEF CallType, Waiting
<1> QED BY <1>1, <1>4, <1>5, <1>7, <1>8 DEF LockInv

LEMMA LockStep == LockInv /\ SocketInv /\ [ProxyNext]_proxy_vars => LockInv'
<1> SUFFICES ASSUME LockInv, SocketInv, [ProxyNext]_proxy_vars PROVE LockInv'
  OBVIOUS
<1>0. \A x \in Calls : call[x] \in CallType
  BY DEF LockInv
<1>1. CASE UNCHANGED <<call, writer, readers>>
  BY <1>1 DEF LockInv, Waiting, Reading
<1>2. ASSUME NEW c \in Calls, NEW op \in Methods, Invoke(c, op) PROVE LockInv'
  BY <1>0, <1>2 DEF Invoke, LockInv, Waiting, Reading, CallType, Results
<1>3. ASSUME NEW c \in Calls, Return(c) PROVE LockInv'
  BY <1>0, <1>3 DEF Return, LockInv, Waiting, Reading, CallType, Results, NoCall
<1>4. ASSUME NEW c \in Calls, RLock(c) PROVE LockInv'
  BY <1>0, <1>4 DEF RLock, EnterShared, LockInv, Waiting, Reading, CallType
<1>5. ASSUME NEW c \in Calls, NEW r \in Results, c \in Reading, EndRead(c, r), writer' = writer PROVE LockInv'
  BY <1>0, <1>5 DEF EndRead, LockInv, Waiting, Reading, CallType
<1>6. ASSUME NEW c \in Calls, ReadDatagram(c) PROVE LockInv'
  <2>1. Head(inbox) \in Data
    BY <1>6 DEF ReadDatagram, SocketInv
  <2> QED BY <1>5, <1>6, <2>1 DEF ReadDatagram, Results
<1>7. ASSUME NEW c \in Calls, ReadFails(c) PROVE LockInv'
  BY <1>5, <1>7 DEF ReadFails, Results
<1>8. ASSUME NEW c \in Calls, Lock(c) PROVE LockInv'
  BY <1>8 DEF Lock, LockInv, Waiting, Reading
<1>10. ASSUME NEW c \in Calls, CallFails(c) PROVE LockInv'
  <2>1. /\ call[c].pc \in {"waiting", "reading"} /\ call' = [call EXCEPT ![c].pc = "done", ![c].res = "error"]
        /\ writer' = writer \ {c} /\ readers' = readers \ {c}
    BY <1>10 DEF CallFails
  <2>2. call' \in [Calls -> CallType] /\ \A x \in Calls \ {c} : call'[x] = call[x]
    BY <1>0, <2>1 DEF LockInv, CallType, Results
  <2>3. call'[c].pc = "done" /\ call'[c].op = call[c].op
    BY <1>0, <2>1 DEF LockInv, CallType
  <2>4. writer' \subseteq Waiting(Exclusive)' /\ readers' = Reading'
    BY <2>1, <2>2, <2>3 DEF LockInv, Waiting, Reading
  <2>5. \A x \in readers' : call'[x].op = "Read"
    BY <2>1, <2>2, <2>4 DEF LockInv, Reading
  <2> QED BY <2>1, <2>2, <2>4, <2>5 DEF LockInv
<1>9. ASSUME NEW c \in Calls, Open(c) \/ Write(c) \/ SetReadDeadline(c) \/ CloseSocket(c) PROVE LockInv'
  <2>1. c \in writer /\ NoReaders /\ \E r \in Results : Finish(c, r)
    BY <1>9 DEF Open, Write, SetReadDeadline, CloseSocket, Holds, Results
  <2> QED BY <2>1, FinishKeeps
<1> QED BY <1>1, <1>2, <1>3, <1>4, <1>6, <1>7, <1>8, <1>9, <1>10 DEF ProxyNext, CallStep, Dereference, Arrive, Tick, VMStops,
     proxy_vars, lock_vars

LEMMA SocketStep == SocketInv /\ [ProxyNext]_proxy_vars => SocketInv'
<1> SUFFICES ASSUME SocketInv, [ProxyNext]_proxy_vars PROVE SocketInv'
  OBVIOUS
<1>0. inbox \in Seq(Data) /\ Len(inbox) <= MaxQueue /\ Len(inbox) \in Nat
  BY DEF SocketInv
<1>1. CASE UNCHANGED <<sock, inbox, deadline>>
  BY <1>1 DEF SocketInv
<1>2. ASSUME NEW c \in Calls, ReadDatagram(c) PROVE SocketInv'
  <2>1. inbox # <<>> /\ inbox' = Tail(inbox) /\ UNCHANGED <<sock, deadline>> /\ sock # "nil"
    BY <1>2 DEF ReadDatagram
  <2>2. inbox' \in Seq(Data) /\ Len(inbox') <= MaxQueue
    BY <1>0, <2>1, MaxQueueAssumption
  <2> QED BY <2>1, <2>2 DEF SocketInv
<1>3. ASSUME NEW d \in Data, Arrive(d) PROVE SocketInv'
  <2>1. Len(inbox) < MaxQueue /\ inbox' = Append(inbox, d) /\ UNCHANGED <<sock, deadline>> /\ sock # "nil"
    BY <1>3 DEF Arrive
  <2>2. inbox' \in Seq(Data) /\ Len(inbox') <= MaxQueue
    BY <1>0, <2>1, MaxQueueAssumption
  <2> QED BY <2>1, <2>2 DEF SocketInv
<1>4. ASSUME NEW c \in Calls, Open(c) PROVE SocketInv'
  BY <1>4 DEF Open, Opened, SocketInv
<1>5. ASSUME NEW c \in Calls, CloseSocket(c) PROVE SocketInv'
  <2>1. sock' = "nil" /\ inbox' = <<>> /\ deadline' = "none"
    BY <1>5 DEF CloseSocket
  <2>2. inbox' \in Seq(Data) /\ Len(inbox') <= MaxQueue
    BY <2>1, MaxQueueAssumption
  <2> QED BY <2>1, <2>2 DEF SocketInv
<1>6. ASSUME NEW c \in Calls, SetReadDeadline(c) PROVE SocketInv'
  BY <1>6 DEF SetReadDeadline, SocketInv
<1>7. CASE Tick
  BY <1>7 DEF Tick, SocketInv
<1> QED BY <1>1, <1>2, <1>3, <1>4, <1>5, <1>6, <1>7 DEF ProxyNext, CallStep, CallFails, Invoke, Return, RLock, ReadFails,
     Lock, Write, Dereference, VMStops, proxy_vars, net_vars

LEMMA UpStep == vmUp \in BOOLEAN /\ [ProxyNext]_proxy_vars => vmUp' \in BOOLEAN
<1> SUFFICES ASSUME vmUp \in BOOLEAN, [ProxyNext]_proxy_vars PROVE vmUp' \in BOOLEAN
  OBVIOUS
<1>1. vmUp' = vmUp \/ vmUp' = FALSE
  BY DEF ProxyNext, CallStep, CallFails, Invoke, Return, RLock, ReadDatagram, ReadFails, Lock, Open, Write, SetReadDeadline,
     CloseSocket, Dereference, Arrive, Tick, VMStops, proxy_vars
<1> QED BY <1>1, Zenon

LEMMA ProxyStart == ProxyInit => LockInv /\ SocketInv /\ vmUp \in BOOLEAN
<1> SUFFICES ASSUME ProxyInit PROVE LockInv /\ SocketInv /\ vmUp \in BOOLEAN
  OBVIOUS
<1>4. vmUp \in BOOLEAN
  BY Zenon DEF ProxyInit
<1>1. LockInv
  BY DEF ProxyInit, LockInv, NoCall, CallType, Results, Waiting, Reading
<1>2. inbox = <<>> /\ sock = "nil" /\ deadline = "none"
  BY DEF ProxyInit
<1>3. inbox \in Seq(Data) /\ Len(inbox) <= MaxQueue
  BY <1>2, MaxQueueAssumption
<1> QED BY <1>1, <1>2, <1>3, <1>4 DEF SocketInv

\* However many calls a client has under way, the mutex has one writer, or readers
\* that are all in the kernel, and the socket is as its methods left it.
THEOREM ProxyTypeCorrect == ProxySpec => []ProxyTypeOK
<1> DEFINE PInv == LockInv /\ SocketInv /\ vmUp \in BOOLEAN
<1>1. ProxyInit => PInv
  BY ProxyStart
<1>2. PInv /\ [ProxyNext]_proxy_vars => PInv'
  BY LockStep, SocketStep, UpStep, Zenon
<1>3. PInv => ProxyTypeOK
  BY TypeIsParts, Zenon
<1> QED BY <1>1, <1>2, <1>3, PTL DEF ProxySpec

\* Every method that replaces the socket or its deadline has found no reader.
LEMMA PinStep ==
  LockInv /\ [ProxyNext]_proxy_vars =>
    [\A c \in Reading : call'[c].pc = "reading" => sock' = sock /\ (deadline' # deadline => deadline' = "passed")]_proxy_vars
<1> SUFFICES ASSUME LockInv, ProxyNext, NEW c \in Reading
             PROVE  sock' = sock /\ (deadline' # deadline => deadline' = "passed")
  OBVIOUS
<1>1. ~NoReaders
  BY DEF LockInv, NoReaders
<1> QED BY <1>1 DEF ProxyNext, CallStep, CallFails, Invoke, Return, RLock, ReadDatagram, ReadFails, Lock, Open, Write,
     SetReadDeadline, CloseSocket, Dereference, Holds, Arrive, Tick, VMStops, net_vars

\* A Read that blocks in the kernel keeps the socket it is in, and its deadline.
THEOREM ReadPins == ProxySpec => ReadPinsSocket
BY ProxyStart, LockStep, SocketStep, PinStep, PTL DEF ProxySpec, ReadPinsSocket

(***************************************************************************)
(* The service.  Its two goroutines use the proxy for one call at a time,  *)
(* and nobody sets a deadline.                                             *)
(***************************************************************************)
Early == {"listen", "listening", "launch", "select"}

HostTyped ==
  /\ pc \in Early \union {"close", "closing", "up", "wait", "exited"}
  /\ verdict \in {"none", "ready", "error"} /\ cause \in {"none", "setup", "ctx", "code"}
  /\ exit \in Codes \union {"none"} /\ code \in {"none", "-1", "n"}
  /\ notifier \in {"none", "call", "read", "send", "fail", "done"}
  /\ waiter \in {"none", "wait", "send", "sent", "done"}

GuestTyped == proc \in {"none", "running"} \union Ends

Flags == /\ closed \in BOOLEAN /\ (closed <=> waiter = "done") /\ announced \in BOOLEAN /\ termed \in BOOLEAN
         /\ vmUp \in BOOLEAN /\ panicked \in BOOLEAN

CallInv ==
  /\ deadline = "none"
  /\ call["launcher"].pc # "idle" => \/ pc = "listening" /\ call["launcher"].op = "ListenUnix"
                                     \/ pc = "closing" /\ call["launcher"].op = "Close"
  /\ call["notifier"].pc # "idle" => notifier = "read" /\ call["notifier"].op = "Read"

(***************************************************************************)
(* The socket listens from the answer to ListenUnix until the launcher     *)
(* closes it, so that until then a Read fails only without the guest.      *)
(***************************************************************************)
Answered(c, r) == call[c].pc = "done" /\ call[c].res = r

SockInv ==
  /\ pc \in {"launch", "select"} => sock = "listening"
  /\ pc = "listening" /\ Answered("launcher", "ok") => sock = "listening"
  /\ notifier = "fail" \/ Answered("notifier", "error") => pc \notin Early \/ ~vmUp

\* READY=1 is read only after it was sent.
ReadyInv ==
  /\ \A i \in 1 .. Len(inbox) : inbox[i] = "ready" => announced
  /\ \A c \in Calls : call[c].res = "ready" => announced
  /\ notifier = "send" => announced

(***************************************************************************)
(* Each goroutine sends once.  LaunchService takes the first value, and    *)
(* only 0 lets the launcher go on to Wait, for which the other is left.    *)
(***************************************************************************)
SentInv ==
  /\ pc \in Early => verdict = "none" /\ cause = "none"
  /\ pc # "exited" => exit = "none"
  /\ pc \in Early \ {"select"} => waiter = "none" /\ notifier = "none"
  /\ pc \in {"up", "wait"} => verdict = "ready"
  /\ verdict = "ready" => announced /\ notifier = "done"
  /\ waiter \in {"sent", "done"} => \/ pc = "exited"
                                    \/ pc \in {"close", "closing"} /\ verdict = "error"
  /\ waiter \in {"none", "wait"} <=> code = "none"

CodeInv ==
  /\ code = "-1" => proc \in {"stopped", "killed"}
  /\ code = "n" => proc = "failed" \/ ~vmUp
  /\ cause = "code" => proc \in Ends \/ ~vmUp
  /\ exit # "none" => exit = code
  /\ pc \in Early => (proc = "none" <=> pc # "select")

SInv == /\ LockInv /\ SocketInv /\ HostTyped /\ GuestTyped /\ Flags
        /\ CallInv /\ SockInv /\ ReadyInv /\ SentInv /\ CodeInv

(***************************************************************************)
(* Steps inside the proxy, in which neither the launcher nor waitNotify    *)
(* moves.                                                                  *)
(***************************************************************************)
Unseen == /\ UNCHANGED <<host_vars, proc, termed>>
          /\ announced => announced'
          /\ vmUp' => vmUp
          /\ announced' \in BOOLEAN
          /\ vmUp' \in BOOLEAN

LEMMA Callers == \A c \in Calls : c = "launcher" \/ c = "notifier"
BY ServiceAssumption

LEMMA UnseenKeeps ==
  ASSUME SInv, Unseen
  PROVE  HostTyped' /\ GuestTyped' /\ Flags' /\ SentInv' /\ CodeInv'
<1>1. UNCHANGED <<pc, verdict, cause, exit, notifier, waiter, code, closed, panicked, proc, termed>> /\ (vmUp' => vmUp)
  BY DEF Unseen, host_vars
<1>2. HostTyped' /\ GuestTyped'
  BY <1>1 DEF SInv, HostTyped, GuestTyped
<1>3. Flags'
  <2>1. closed' = closed /\ panicked' = panicked /\ termed' = termed /\ waiter' = waiter
    BY <1>1
  <2> QED BY <2>1, Zenon DEF SInv, Flags, Unseen
<1>4. SentInv'
  BY <1>1 DEF SInv, SentInv, Unseen
<1>5. CodeInv'
  BY <1>1 DEF SInv, CodeInv
<1> QED BY <1>2, <1>3, <1>4, <1>5

\* A call that is under way stays what it is; it has its answer, or not.
SameCalls == \A x \in Calls : call'[x].op = call[x].op /\ (call'[x].pc = "idle" <=> call[x].pc = "idle")
Waits(x) == call'[x].res = call[x].res /\ (call'[x].pc = "done" <=> call[x].pc = "done")
ReadyIsTrue == \A i \in 1 .. Len(inbox') : inbox'[i] = "ready" => announced'

LEMMA Silence ==
  ASSUME SInv, Unseen, UNCHANGED <<sock, deadline>>, SameCalls, \A x \in Calls : Waits(x), ReadyIsTrue
  PROVE  CallInv' /\ SockInv' /\ ReadyInv'
<1>1. UNCHANGED <<pc, notifier>> /\ (vmUp' => vmUp) /\ (announced => announced')
  BY DEF Unseen, host_vars
<1>2. "launcher" \in Calls /\ "notifier" \in Calls
  BY ServiceAssumption
<1>3. CallInv'
  BY <1>1, <1>2 DEF SInv, CallInv, SameCalls
<1>4. SockInv'
  BY <1>1, <1>2 DEF SInv, SockInv, Answered, Waits
<1>5. ReadyInv'
  BY <1>1 DEF SInv, ReadyInv, Waits, ReadyIsTrue
<1> QED BY <1>3, <1>4, <1>5

LEMMA Answering ==
  ASSUME SInv, Unseen, deadline' = "none", SameCalls, ReadyIsTrue, NEW c \in Calls, NEW r,
         call'[c].res = r, \A x \in Calls \ {c} : Waits(x),
         r = "ready" => announced',
         sock' = sock \/ (c = "launcher" /\ pc \in {"listening", "closing"}),
         c = "launcher" /\ pc = "listening" /\ r = "ok" => sock' = "listening",
         c = "notifier" /\ r = "error" => pc \notin Early \/ ~vmUp
  PROVE  CallInv' /\ SockInv' /\ ReadyInv'
<1>1. UNCHANGED <<pc, notifier>> /\ (vmUp' => vmUp) /\ (announced => announced')
  BY DEF Unseen, host_vars
<1>2. "launcher" \in Calls /\ "notifier" \in Calls
  BY ServiceAssumption
<1>3. CallInv'
  BY <1>1, <1>2 DEF SInv, CallInv, SameCalls
<1>4. SockInv'
  BY <1>1, <1>2 DEF SInv, SockInv, Answered, Waits
<1>5. ReadyInv'
  BY <1>1 DEF SInv, ReadyInv, Waits, ReadyIsTrue
<1> QED BY <1>3, <1>4, <1>5

\* A Read comes back with the datagram at the head, or with an error.
LEMMA ReadKeeps ==
  ASSUME SInv, Unseen, announced' = announced, NEW c \in Calls, ReadDatagram(c) \/ ReadFails(c)
  PROVE  CallInv' /\ SockInv' /\ ReadyInv'
<1>1. c = "notifier" /\ call[c].op = "Read" /\ call[c].pc = "reading" /\ notifier = "read"
  <2>1. call[c].op = "Read" /\ call[c].pc = "reading"
    BY DEF ReadDatagram, ReadFails, SInv, LockInv, Reading
  <2> QED BY <2>1, Callers DEF SInv, CallInv
<1>2. call \in [Calls -> CallType] /\ inbox \in Seq(Data) /\ deadline = "none"
  BY DEF SInv, LockInv, SocketInv, CallInv
<1>3. CASE ReadDatagram(c)
  <2>1. call' = [call EXCEPT ![c].pc = "done", ![c].res = Head(inbox)] /\ UNCHANGED <<sock, deadline>>
    BY <1>3 DEF ReadDatagram, EndRead
  <2>2. SameCalls /\ call'[c].res = Head(inbox) /\ \A x \in Calls \ {c} : Waits(x)
    BY <1>1, <1>2, <2>1 DEF SameCalls, Waits, CallType
  <2>3. /\ inbox # <<>> /\ inbox' = Tail(inbox) /\ Head(inbox) = inbox[1] /\ Len(inbox) \in Nat /\ 1 \in 1 .. Len(inbox)
        /\ Len(inbox') = Len(inbox) - 1 /\ \A i \in 1 .. Len(inbox') : inbox'[i] = inbox[i + 1]
        /\ inbox[1] \in Data
    BY <1>2, <1>3 DEF ReadDatagram
  <2>4. ReadyIsTrue
    BY <2>3 DEF ReadyIsTrue, SInv, ReadyInv
  <2>5. Head(inbox) # "error" /\ (Head(inbox) = "ready" => announced')
    BY <2>3, ServiceAssumption DEF SInv, ReadyInv
  <2> QED BY <1>1, <1>2, <2>1, <2>2, <2>4, <2>5, Answering
<1>4. ~ReadFails(c)
  BY <1>2 DEF ReadFails
<1> QED BY <1>3, <1>4

\* The methods under the exclusive lock are those of the launcher.
LEMMA MethodKeeps ==
  ASSUME SInv, Unseen, announced' = announced, NEW c \in Calls, Open(c) \/ Write(c) \/ SetReadDeadline(c) \/ CloseSocket(c)
  PROVE  CallInv' /\ SockInv' /\ ReadyInv'
<1>1. c \in writer /\ call[c].pc = "waiting" /\ call[c].op \in Exclusive
  BY DEF Open, Write, SetReadDeadline, CloseSocket, Holds, SInv, LockInv, Waiting
<1>2. /\ c = "launcher"
      /\ \/ pc = "listening" /\ call[c].op = "ListenUnix"
         \/ pc = "closing" /\ call[c].op = "Close"
  BY <1>1, Callers DEF SInv, CallInv, Exclusive, Openings
<1>3. call \in [Calls -> CallType] /\ deadline = "none"
  BY DEF SInv, LockInv, CallInv
<1>4. ASSUME NEW r, Finish(c, r)
      PROVE  SameCalls /\ call'[c].res = r /\ \A x \in Calls \ {c} : Waits(x)
  <2>1. \A x \in Calls : call'[x] = IF x = c THEN [call[c] EXCEPT !.pc = "done", !.res = r]
                                    ELSE IF x \in Waiting({"Read"}) THEN [call[x] EXCEPT !.pc = "reading"] ELSE call[x]
    BY <1>4 DEF Finish
  <2> QED BY <1>1, <1>3, <2>1 DEF SameCalls, Waits, CallType, Waiting
<1>5. CASE Open(c)
  <2>1. pc = "listening" /\ call[c].op = "ListenUnix" /\ UNCHANGED <<inbox, deadline>>
    BY <1>2, <1>5 DEF Open, Holds, Openings
  <2>2. PICK r \in {"ok", "error"} : Finish(c, r) /\ (r = "ok" => sock' = "listening")
    BY <1>5, <2>1 DEF Open, Opened
  <2>3. ReadyIsTrue
    BY <2>1 DEF ReadyIsTrue, SInv, ReadyInv
  <2> QED BY <1>2, <1>3, <1>4, <2>1, <2>2, <2>3, Answering
<1>6. CASE CloseSocket(c)
  <2>1. pc = "closing" /\ deadline' = "none" /\ inbox' = <<>> /\ Finish(c, "ok")
    BY <1>2, <1>6 DEF CloseSocket, Holds
  <2>2. ReadyIsTrue
    BY <2>1 DEF ReadyIsTrue
  <2> QED BY <1>2, <1>4, <2>1, <2>2, Answering
<1>7. ~Write(c) /\ ~SetReadDeadline(c)
  BY <1>2 DEF Write, SetReadDeadline, Holds
<1> QED BY <1>5, <1>6, <1>7

\* Without the guest a call fails on the host's side.
LEMMA FailKeeps ==
  ASSUME SInv, Unseen, announced' = announced, NEW c \in Calls, ~vmUp, CallFails(c)
  PROVE  LockInv' /\ SocketInv' /\ CallInv' /\ SockInv' /\ ReadyInv'
<1>1. /\ ~vmUp /\ call[c].pc \in {"waiting", "reading"}
      /\ call' = [call EXCEPT ![c].pc = "done", ![c].res = "error"]
      /\ writer' = writer \ {c} /\ readers' = readers \ {c} /\ UNCHANGED <<sock, inbox, deadline>>
  BY DEF CallFails, net_vars
<1>2. call \in [Calls -> CallType]
  BY DEF SInv, LockInv
<1>3. LockInv'
  BY <1>1, <1>2 DEF SInv, LockInv, Waiting, Reading, CallType, Results
<1>4. SocketInv'
  BY <1>1 DEF SInv, SocketInv
<1>5. SameCalls /\ call'[c].res = "error" /\ \A x \in Calls \ {c} : Waits(x)
  BY <1>1, <1>2 DEF SameCalls, Waits, CallType
<1>6. ReadyIsTrue /\ deadline' = "none"
  BY <1>1 DEF ReadyIsTrue, SInv, ReadyInv, CallInv
<1> QED BY <1>1, <1>3, <1>4, <1>5, <1>6, Answering

\* What the guest's calls do, whether it answers or not.
LEMMA GuestCallKeeps == ASSUME SInv, NEW c \in Calls, GuestCall(c) PROVE SInv'
<1>1. Unseen /\ announced' = announced
  <2>1. announced' = announced /\ UNCHANGED <<host_vars, proc, termed>>
    BY DEF GuestCall, guest_vars
  <2>2. announced' \in BOOLEAN
    BY <2>1, Zenon DEF SInv, Flags
  <2>3. vmUp' = vmUp \/ (vmUp /\ vmUp' = FALSE)
    BY DEF GuestCall, CallStep, CallFails, RLock, ReadDatagram, ReadFails, Lock, Open, Write, SetReadDeadline,
       CloseSocket, Dereference
  <2>4. (vmUp' => vmUp) /\ vmUp' \in BOOLEAN
    <3>1. vmUp \in BOOLEAN
      BY Zenon DEF SInv, Flags
    <3>2. vmUp' \in BOOLEAN
      BY <2>3, <3>1, Zenon
    <3>3. vmUp' => vmUp
      BY <2>3
    <3> QED BY <3>2, <3>3, Zenon
  <2> QED BY <2>1, <2>2, <2>4 DEF Unseen
<1>2. LockInv' /\ SocketInv' /\ CallInv' /\ SockInv' /\ ReadyInv'
  <2>1. CASE CallFails(c)
    BY <1>1, <2>1, FailKeeps DEF CallFails
  <2>2. CASE CallStep(c)
    <3>1. LockInv' /\ SocketInv'
      BY <2>2, LockStep, SocketStep DEF ProxyNext, SInv
    <3>2. CASE ReadDatagram(c) \/ ReadFails(c)
      BY <1>1, <3>1, <3>2, ReadKeeps
    <3>3. CASE Open(c) \/ Write(c) \/ SetReadDeadline(c) \/ CloseSocket(c)
      BY <1>1, <3>1, <3>3, MethodKeeps
    <3>4. CASE RLock(c) \/ Lock(c) \/ Dereference(c)
      <4>1. UNCHANGED <<sock, inbox, deadline>> /\ call \in [Calls -> CallType]
        BY <3>4 DEF RLock, Lock, Dereference, SInv, LockInv, net_vars
      <4>2. SameCalls /\ \A x \in Calls : Waits(x)
        BY <3>4, <4>1 DEF RLock, EnterShared, Lock, Dereference, SameCalls, Waits, CallType, Waiting, lock_vars
      <4>3. ReadyIsTrue
        BY <1>1, <4>1 DEF ReadyIsTrue, SInv, ReadyInv
      <4> QED BY <1>1, <3>1, <4>1, <4>2, <4>3, Silence
    <3> QED BY <2>2, <3>2, <3>3, <3>4 DEF CallStep
  <2> QED BY <2>1, <2>2 DEF GuestCall
<1> QED BY <1>1, <1>2, UnseenKeeps DEF SInv

\* A notification is queued, READY=1 or another one.
LEMMA NotificationKeeps == ASSUME SInv, Announce \/ NotifyOther PROVE SInv'
<1>1. PICK d \in Data : Arrive(d) /\ (d = "ready" => announced')
  BY ServiceAssumption DEF Announce, NotifyOther
<1>2. Unseen
  <2>1. UNCHANGED <<host_vars, proc, termed>> /\ (announced' = announced \/ announced' = TRUE) /\ vmUp' = vmUp
    BY <1>1 DEF Announce, NotifyOther, Arrive, guest_vars
  <2>2. announced' \in BOOLEAN /\ vmUp' \in BOOLEAN /\ (announced => announced')
    BY <2>1, Zenon DEF SInv, Flags
  <2> QED BY <2>1, <2>2 DEF Unseen
<1>3. LockInv' /\ SocketInv'
  BY <1>1, LockStep, SocketStep DEF ProxyNext, SInv
<1>4. inbox \in Seq(Data) /\ inbox' = Append(inbox, d) /\ UNCHANGED <<sock, deadline, call>>
  BY <1>1 DEF Arrive, SInv, SocketInv, lock_vars
<1>5. ReadyIsTrue
  <2>1. \A i \in 1 .. Len(inbox') : (i \in 1 .. Len(inbox) /\ inbox'[i] = inbox[i]) \/ inbox'[i] = d
    BY <1>4
  <2> QED BY <1>1, <1>2, <2>1 DEF ReadyIsTrue, SInv, ReadyInv, Unseen
<1>6. SameCalls /\ \A x \in Calls : Waits(x)
  BY <1>4 DEF SameCalls, Waits
<1> QED BY <1>2, <1>3, <1>4, <1>5, <1>6, Silence, UnseenKeeps DEF SInv

(***************************************************************************)
(* Steps of the two goroutines and of the launcher.                        *)
(***************************************************************************)
LEMMA CalledKeeps == ASSUME SInv, ListenNotify \/ CloseConn \/ NotifyCall PROVE SInv'
<1>1. UNCHANGED <<verdict, cause, exit, waiter, code, closed, panicked, proc, announced, termed, vmUp, sock, inbox, deadline>>
  BY DEF ListenNotify, CloseConn, NotifyCall, Invoke, guest_vars, net_vars
<1>2. call \in [Calls -> CallType] /\ "launcher" \in Calls /\ "notifier" \in Calls
  BY ServiceAssumption DEF SInv, LockInv
<1>3. Flags'
  <2>1. closed' = closed /\ panicked' = panicked /\ termed' = termed /\ vmUp' = vmUp /\ waiter' = waiter /\ announced' = announced
    BY <1>1
  <2> QED BY <2>1, Zenon DEF SInv, Flags
<1>4. LockInv' /\ SocketInv'
  <2>1. ProxyNext
    BY <1>2 DEF ListenNotify, CloseConn, NotifyCall, ProxyNext, Methods, Exclusive, Openings
  <2> QED BY <2>1, LockStep, SocketStep DEF SInv
<1>5. CASE ListenNotify
  <2>1. /\ pc = "listen" /\ pc' = "listening" /\ notifier' = notifier
        /\ call' = [call EXCEPT !["launcher"] = [op |-> "ListenUnix", pc |-> "waiting", res |-> "none"]]
    BY <1>5 DEF ListenNotify, Invoke
  <2>2. call'["launcher"].pc = "waiting" /\ call'["launcher"].op = "ListenUnix" /\ call'["launcher"].res = "none"
        /\ call'["notifier"] = call["notifier"]
    BY <1>2, <2>1
  <2>3. HostTyped' /\ GuestTyped'
    BY <1>1, <2>1 DEF SInv, HostTyped, GuestTyped, Early
  <2>4. CallInv'
    BY <1>1, <2>1, <2>2 DEF SInv, CallInv
  <2>5. SockInv'
    BY <1>1, <2>1, <2>2 DEF SInv, SockInv, Answered, Early
  <2>6. ReadyInv'
    BY <1>1, <2>1, <2>2, Callers DEF SInv, ReadyInv
  <2>7. SentInv' /\ CodeInv'
    BY <1>1, <2>1 DEF SInv, SentInv, CodeInv, Early
  <2> QED BY <1>3, <1>4, <2>3, <2>4, <2>5, <2>6, <2>7 DEF SInv
<1>6. CASE CloseConn
  <2>1. /\ pc = "close" /\ pc' = "closing" /\ notifier' = notifier
        /\ call' = [call EXCEPT !["launcher"] = [op |-> "Close", pc |-> "waiting", res |-> "none"]]
    BY <1>6 DEF CloseConn, Invoke
  <2>2. call'["launcher"].pc = "waiting" /\ call'["launcher"].op = "Close" /\ call'["launcher"].res = "none"
        /\ call'["notifier"] = call["notifier"]
    BY <1>2, <2>1
  <2>3. HostTyped' /\ GuestTyped'
    BY <1>1, <2>1 DEF SInv, HostTyped, GuestTyped, Early
  <2>4. CallInv'
    BY <1>1, <2>1, <2>2 DEF SInv, CallInv
  <2>5. SockInv'
    BY <1>1, <2>1, <2>2 DEF SInv, SockInv, Answered, Early
  <2>6. ReadyInv'
    BY <1>1, <2>1, <2>2, Callers DEF SInv, ReadyInv
  <2>7. SentInv' /\ CodeInv'
    BY <1>1, <2>1 DEF SInv, SentInv, CodeInv, Early
  <2> QED BY <1>3, <1>4, <2>3, <2>4, <2>5, <2>6, <2>7 DEF SInv
<1>7. CASE NotifyCall
  <2>1. /\ notifier = "call" /\ notifier' = "read" /\ pc' = pc
        /\ call' = [call EXCEPT !["notifier"] = [op |-> "Read", pc |-> "waiting", res |-> "none"]]
    BY <1>7 DEF NotifyCall, Invoke
  <2>2. call'["notifier"].pc = "waiting" /\ call'["notifier"].op = "Read" /\ call'["notifier"].res = "none"
        /\ call'["launcher"] = call["launcher"]
    BY <1>2, <2>1
  <2>3. HostTyped' /\ GuestTyped'
    BY <1>1, <2>1 DEF SInv, HostTyped, GuestTyped
  <2>4. CallInv'
    BY <1>1, <2>1, <2>2 DEF SInv, CallInv
  <2>5. SockInv'
    BY <1>1, <2>1, <2>2 DEF SInv, SockInv, Answered
  <2>6. ReadyInv'
    BY <1>1, <2>1, <2>2, Callers DEF SInv, ReadyInv
  <2>7. SentInv' /\ CodeInv'
    BY <1>1, <2>1 DEF SInv, SentInv, CodeInv
  <2> QED BY <1>3, <1>4, <2>3, <2>4, <2>5, <2>6, <2>7 DEF SInv
<1> QED BY <1>5, <1>6, <1>7

LEMMA ReturnedKeeps == ASSUME SInv, Listening \/ ConnClosed \/ NotifyRead PROVE SInv'
<1>1. UNCHANGED <<exit, waiter, code, closed, panicked, proc, announced, termed, vmUp, sock, inbox, deadline>>
  BY DEF Listening, ConnClosed, NotifyRead, Return, guest_vars, net_vars
<1>2. call \in [Calls -> CallType] /\ "launcher" \in Calls /\ "notifier" \in Calls
  BY ServiceAssumption DEF SInv, LockInv
<1>3. Flags'
  <2>1. closed' = closed /\ panicked' = panicked /\ termed' = termed /\ vmUp' = vmUp /\ waiter' = waiter /\ announced' = announced
    BY <1>1
  <2> QED BY <2>1, Zenon DEF SInv, Flags
<1>4. LockInv' /\ SocketInv'
  <2>1. ProxyNext
    BY <1>2 DEF Listening, ConnClosed, NotifyRead, ProxyNext
  <2> QED BY <2>1, LockStep, SocketStep DEF SInv
<1>5. CASE Listening
  <2>1. /\ pc = "listening" /\ call["launcher"].pc = "done" /\ notifier' = notifier
        /\ call' = [call EXCEPT !["launcher"] = NoCall]
        /\ IF call["launcher"].res = "ok" THEN pc' = "launch" /\ verdict' = "none" /\ cause' = "none"
           ELSE pc' = "exited" /\ verdict' = "error" /\ cause' = "setup"
    BY <1>5 DEF Listening, Return, Becomes
  <2>2. call'["launcher"] = NoCall /\ call'["notifier"] = call["notifier"]
    BY <1>2, <2>1
  <2>3. HostTyped' /\ GuestTyped'
    BY <1>1, <2>1 DEF SInv, HostTyped, GuestTyped, Early
  <2>4. CallInv'
    BY <1>1, <2>1, <2>2 DEF SInv, CallInv, NoCall
  <2>5. SockInv'
    BY <1>1, <2>1, <2>2 DEF SInv, SockInv, SentInv, CallInv, Answered, Early, NoCall
  <2>6. ReadyInv'
    BY <1>1, <2>1, <2>2, Callers DEF SInv, ReadyInv, NoCall
  <2>7. SentInv' /\ CodeInv'
    BY <1>1, <2>1 DEF SInv, SentInv, CodeInv, Early
  <2> QED BY <1>3, <1>4, <2>3, <2>4, <2>5, <2>6, <2>7 DEF SInv
<1>6. CASE ConnClosed
  <2>1. /\ pc = "closing" /\ pc' = (IF verdict = "ready" THEN "up" ELSE "exited")
        /\ UNCHANGED <<notifier, verdict, cause>>
        /\ call' = [call EXCEPT !["launcher"] = NoCall]
    BY <1>6 DEF ConnClosed, Return
  <2>2. call'["launcher"] = NoCall /\ call'["notifier"] = call["notifier"]
    BY <1>2, <2>1
  <2>3. HostTyped' /\ GuestTyped'
    BY <1>1, <2>1 DEF SInv, HostTyped, GuestTyped
  <2>4. CallInv'
    BY <1>1, <2>1, <2>2 DEF SInv, CallInv, NoCall
  <2>5. SockInv'
    BY <1>1, <2>1, <2>2 DEF SInv, SockInv, Answered, Early, NoCall
  <2>6. ReadyInv'
    BY <1>1, <2>1, <2>2, Callers DEF SInv, ReadyInv, NoCall
  <2>7. SentInv' /\ CodeInv'
    BY <1>1, <2>1 DEF SInv, SentInv, CodeInv, Early
  <2> QED BY <1>3, <1>4, <2>3, <2>4, <2>5, <2>6, <2>7 DEF SInv
<1>7. CASE NotifyRead
  <2>1. /\ notifier = "read" /\ UNCHANGED <<pc, verdict, cause>> /\ call["notifier"].pc = "done"
        /\ notifier' = AfterRead(call["notifier"].res)
        /\ call' = [call EXCEPT !["notifier"] = NoCall]
    BY <1>7 DEF NotifyRead, Return
  <2>2. call'["notifier"] = NoCall /\ call'["launcher"] = call["launcher"]
    BY <1>2, <2>1
  <2>3. \/ notifier' = "fail" /\ call["notifier"].res = "error"
        \/ notifier' = "send" /\ call["notifier"].res = "ready"
        \/ notifier' = "call"
    BY <2>1 DEF AfterRead
  <2>4. HostTyped' /\ GuestTyped'
    BY <1>1, <2>1, <2>3 DEF SInv, HostTyped, GuestTyped
  <2>5. CallInv'
    BY <1>1, <2>1, <2>2 DEF SInv, CallInv, NoCall
  <2>6. SockInv'
    BY <1>1, <2>1, <2>2, <2>3 DEF SInv, SockInv, Answered, NoCall
  <2>7. ReadyInv'
    BY <1>1, <1>2, <2>1, <2>2, <2>3, Callers DEF SInv, ReadyInv, NoCall
  <2>8. SentInv' /\ CodeInv'
    BY <1>1, <2>1 DEF SInv, SentInv, CodeInv
  <2> QED BY <1>3, <1>4, <2>4, <2>5, <2>6, <2>7, <2>8 DEF SInv
<1> QED BY <1>5, <1>6, <1>7

\* A step that leaves the proxy alone keeps what is said of the calls, unless the
\* launcher is in one of its own.
LEMMA Outside ==
  ASSUME SInv, UNCHANGED <<net_vars, lock_vars>>, UNCHANGED announced,
         pc' = pc \/ {pc, pc'} \cap {"listen", "listening", "closing"} = {},
         notifier' = notifier \/ notifier # "read",
         pc' = "launch" => pc = "launch",
         pc' = "select" => pc \in {"launch", "select"},
         pc' \in Early => pc \in Early,
         vmUp' => vmUp,
         notifier' \in {"send", "fail"} => notifier' = notifier
  PROVE  LockInv' /\ SocketInv' /\ CallInv' /\ SockInv' /\ ReadyInv'
<1>1. UNCHANGED <<sock, inbox, deadline, call, writer, readers>>
  BY DEF net_vars, lock_vars
<1>2. LockInv' /\ SocketInv'
  BY <1>1 DEF SInv, LockInv, SocketInv, Waiting, Reading
<1>3. CallInv'
  BY <1>1 DEF SInv, CallInv
<1>4. SockInv'
  BY <1>1 DEF SInv, SockInv, Answered
<1>5. ReadyInv'
  BY <1>1 DEF SInv, ReadyInv
<1> QED BY <1>2, <1>3, <1>4, <1>5

LEMMA LauncherKeeps == ASSUME SInv, Launch \/ CtxDone \/ StopService PROVE SInv'
<1>1. UNCHANGED <<exit, code, closed, panicked, announced, vmUp, net_vars, lock_vars>>
  BY DEF Launch, CtxDone, StopService, host_vars, guest_vars, proxy_vars
<1>2. closed' = closed /\ panicked' = panicked /\ vmUp' = vmUp /\ announced' = announced
  BY <1>1
<1>3. CASE Launch
  <2>1. /\ pc = "launch" /\ termed' = termed
        /\ \/ /\ vmUp /\ proc' = "running" /\ notifier' = "call" /\ waiter' = "wait"
              /\ pc' = "select" /\ verdict' = "none" /\ cause' = "none"
           \/ /\ pc' = "close" /\ verdict' = "error" /\ cause' = "setup"
              /\ proc' = proc /\ notifier' = notifier /\ waiter' = waiter
    BY <1>3 DEF Launch, Becomes
  <2>2. LockInv' /\ SocketInv' /\ CallInv' /\ SockInv' /\ ReadyInv'
    BY <1>1, <2>1, Outside DEF Early, SInv, SentInv
  <2>3. HostTyped' /\ GuestTyped'
    BY <1>1, <2>1 DEF SInv, HostTyped, GuestTyped, Early
  <2>4. SentInv'
    BY <1>1, <2>1 DEF SInv, SentInv, Early
  <2>5. CodeInv'
    BY <1>1, <2>1 DEF SInv, CodeInv, SentInv, Early
  <2>6. Flags'
    <3>1. waiter # "done" /\ waiter' # "done"
      BY <2>1 DEF SInv, SentInv, Early
    <3> QED BY <1>2, <2>1, <3>1, Zenon DEF SInv, Flags
  <2> QED BY <2>2, <2>3, <2>4, <2>5, <2>6 DEF SInv
<1>4. CASE CtxDone
  <2>1. pc = "select" /\ pc' = "close" /\ verdict' = "error" /\ cause' = "ctx" /\ UNCHANGED <<notifier, waiter, proc, termed>>
    BY <1>4 DEF CtxDone, Becomes, guest_vars
  <2>2. LockInv' /\ SocketInv' /\ CallInv' /\ SockInv' /\ ReadyInv'
    BY <1>1, <2>1, Outside DEF Early
  <2>3. HostTyped' /\ GuestTyped' /\ SentInv' /\ CodeInv'
    BY <1>1, <2>1 DEF SInv, HostTyped, GuestTyped, SentInv, CodeInv, Early
  <2>4. Flags'
    <3>1. termed' = termed /\ waiter' = waiter
      BY <2>1
    <3> QED BY <1>2, <3>1, Zenon DEF SInv, Flags
  <2> QED BY <2>2, <2>3, <2>4 DEF SInv
<1>5. CASE StopService
  <2>1. pc = "up" /\ pc' = "wait" /\ UNCHANGED <<verdict, cause, notifier, waiter, proc>> /\ termed' = vmUp
    BY <1>5 DEF StopService
  <2>2. LockInv' /\ SocketInv' /\ CallInv' /\ SockInv' /\ ReadyInv'
    BY <1>1, <2>1, Outside DEF Early
  <2>3. HostTyped' /\ GuestTyped' /\ SentInv' /\ CodeInv'
    BY <1>1, <2>1 DEF SInv, HostTyped, GuestTyped, SentInv, CodeInv, Early
  <2>4. Flags'
    <3>1. termed' = vmUp /\ waiter' = waiter
      BY <2>1
    <3> QED BY <1>2, <3>1, Zenon DEF SInv, Flags
  <2> QED BY <2>2, <2>3, <2>4 DEF SInv
<1> QED BY <1>3, <1>4, <1>5

\* A receiver is in the select, or waits for the exit code; a value that is not 0
\* fails the launch.
LEMMA Takes ==
  ASSUME NEW v, Taken(v)
  PROVE  \/ pc = "select" /\ pc' = "close" /\ exit' = exit /\ v = "0" /\ verdict' = "ready" /\ cause' = "none"
         \/ pc = "select" /\ pc' = "close" /\ exit' = exit /\ v # "0" /\ verdict' = "error" /\ cause' = "code"
         \/ pc = "wait" /\ pc' = "exited" /\ exit' = v /\ UNCHANGED <<verdict, cause>>
BY DEF Taken, TakenBySelect, TakenByWait, Becomes

\* The channel is closed only after the launcher has taken the exit code.
LEMMA NobodyTakesClosed == SInv /\ closed => pc \notin {"select", "wait"}
<1> SUFFICES ASSUME SInv, closed PROVE pc \notin {"select", "wait"}
  OBVIOUS
<1>1. waiter = "done"
  BY Zenon DEF SInv, Flags
<1> QED BY <1>1 DEF SInv, SentInv

LEMMA NotifySendKeeps == ASSUME SInv, NotifySend PROVE SInv'
<1>1. /\ notifier \in {"send", "fail"} /\ notifier' = "done"
      /\ UNCHANGED <<waiter, code, closed, proc, announced, termed, vmUp, net_vars, lock_vars>>
  BY DEF NotifySend, guest_vars, proxy_vars
<1>2. verdict # "ready" /\ pc # "wait"
  BY <1>1 DEF SInv, SentInv
<1>3. \/ /\ pc = "select" /\ pc' = "close" /\ exit' = exit
         /\ \/ notifier = "send" /\ verdict' = "ready" /\ cause' = "none"
            \/ notifier = "fail" /\ verdict' = "error" /\ cause' = "code"
      \/ UNCHANGED <<pc, verdict, cause, exit>>
  <2>1. (IF notifier = "send" THEN "0" ELSE "-1") = "0" <=> notifier = "send"
    BY <1>1
  <2> QED BY <1>1, <1>2, <2>1, Takes DEF NotifySend
<1>4. LockInv' /\ SocketInv' /\ CallInv' /\ SockInv' /\ ReadyInv'
  <2>1. UNCHANGED <<net_vars, lock_vars>> /\ UNCHANGED announced /\ (vmUp' => vmUp)
    BY <1>1
  <2>2. /\ pc' = pc \/ {pc, pc'} \cap {"listen", "listening", "closing"} = {}
        /\ notifier # "read"
        /\ pc' = "launch" => pc = "launch"
        /\ pc' = "select" => pc = "select"
        /\ pc' \in Early => pc \in Early
        /\ notifier' \notin {"send", "fail"}
    BY <1>1, <1>3 DEF Early
  <2> QED BY <2>1, <2>2, Outside
<1>5. HostTyped' /\ GuestTyped'
  BY <1>1, <1>3 DEF SInv, HostTyped, GuestTyped, Early
<1>6. SentInv'
  BY <1>1, <1>2, <1>3 DEF SInv, SentInv, ReadyInv, Early
<1>7. CodeInv'
  BY <1>1, <1>3 DEF SInv, CodeInv, SockInv, Early
<1>8. Flags'
  <2>1. closed' = closed /\ termed' = termed /\ vmUp' = vmUp /\ announced' = announced /\ waiter' = waiter
    BY <1>1
  <2>2. panicked' = panicked \/ panicked' = (notifier = "send")
    BY DEF NotifySend
  <2>3. panicked' \in BOOLEAN
    BY <2>2, Zenon DEF SInv, Flags
  <2> QED BY <2>1, <2>3, Zenon DEF SInv, Flags
<1> QED BY <1>4, <1>5, <1>6, <1>7, <1>8 DEF SInv

LEMMA WaiterKeeps == ASSUME SInv, Waiter PROVE SInv'
<1>1. UNCHANGED <<notifier, panicked, proc, announced, termed, vmUp, net_vars, lock_vars>>
  BY DEF Waiter, WaitReturns, WaiterSend, WaiterClose, guest_vars, proxy_vars
<1>2. panicked' = panicked /\ termed' = termed /\ vmUp' = vmUp /\ announced' = announced /\ (vmUp' => vmUp)
  BY <1>1
<1>3. CASE WaitReturns
  <2>1. /\ waiter = "wait" /\ waiter' = "send" /\ UNCHANGED <<pc, verdict, cause, exit, closed>>
        /\ \/ proc \in {"stopped", "killed"} /\ code' = "-1"
           \/ proc = "failed" /\ code' = "n"
           \/ ~vmUp /\ code' = "n"
    BY <1>3 DEF WaitReturns, Sent, Ends
  <2>2. LockInv' /\ SocketInv' /\ CallInv' /\ SockInv' /\ ReadyInv'
    BY <1>1, <1>2, <2>1, Outside
  <2>3. HostTyped' /\ GuestTyped' /\ SentInv'
    BY <1>1, <2>1 DEF SInv, HostTyped, GuestTyped, SentInv
  <2>4. CodeInv'
    BY <1>1, <2>1 DEF SInv, CodeInv, SentInv
  <2>5. Flags'
    <3>1. waiter # "done" /\ waiter' # "done" /\ closed' = closed
      BY <2>1
    <3> QED BY <1>2, <3>1, Zenon DEF SInv, Flags
  <2> QED BY <2>2, <2>3, <2>4, <2>5 DEF SInv
<1>4. CASE WaiterSend
  <2>1. waiter = "send" /\ waiter' = "sent" /\ code \in {"-1", "n"} /\ UNCHANGED <<code, closed>>
    BY <1>4 DEF WaiterSend, SInv, HostTyped, SentInv
  <2>2. \/ pc = "select" /\ pc' = "close" /\ exit' = exit /\ verdict' = "error" /\ cause' = "code"
        \/ pc = "wait" /\ pc' = "exited" /\ exit' = code /\ UNCHANGED <<verdict, cause>>
    <3>1. Taken(code)
      BY <1>4 DEF WaiterSend, SendCode
    <3> QED BY <2>1, <3>1, Takes
  <2>3. LockInv' /\ SocketInv' /\ CallInv' /\ SockInv' /\ ReadyInv'
    <3>1. {pc, pc'} \cap {"listen", "listening", "closing"} = {} /\ pc' \notin Early
      BY <2>2 DEF Early
    <3> QED BY <1>1, <1>2, <2>2, <3>1, Outside
  <2>4. HostTyped' /\ GuestTyped'
    BY <1>1, <2>1, <2>2 DEF SInv, HostTyped, GuestTyped, Codes
  <2>5. SentInv'
    BY <1>1, <2>1, <2>2 DEF SInv, SentInv, Early
  <2>6. CodeInv'
    BY <1>1, <2>1, <2>2 DEF SInv, CodeInv, Early, Ends
  <2>7. Flags'
    <3>1. waiter # "done" /\ waiter' # "done" /\ closed' = closed
      BY <2>1
    <3> QED BY <1>2, <3>1, Zenon DEF SInv, Flags
  <2> QED BY <2>3, <2>4, <2>5, <2>6, <2>7 DEF SInv
<1>5. CASE WaiterClose
  <2>1. waiter = "sent" /\ waiter' = "done" /\ UNCHANGED <<pc, verdict, cause, exit, code>>
    BY <1>5 DEF WaiterClose
  <2>2. LockInv' /\ SocketInv' /\ CallInv' /\ SockInv' /\ ReadyInv'
    BY <1>1, <1>2, <2>1, Outside
  <2>3. HostTyped' /\ GuestTyped' /\ SentInv' /\ CodeInv'
    BY <1>1, <2>1 DEF SInv, HostTyped, GuestTyped, SentInv, CodeInv
  <2>4. Flags'
    <3>1. closed' = TRUE
      BY <1>5, Zenon DEF WaiterClose
    <3> QED BY <1>2, <2>1, <3>1, Zenon DEF SInv, Flags
  <2> QED BY <2>2, <2>3, <2>4 DEF SInv
<1> QED BY <1>3, <1>4, <1>5 DEF Waiter

LEMMA GuestKeeps == ASSUME SInv, ProcExits \/ GuestStops PROVE SInv'
<1>1. /\ UNCHANGED <<host_vars, announced, termed, net_vars, lock_vars>> /\ (vmUp' => vmUp)
      /\ vmUp' = vmUp \/ vmUp' = FALSE
      /\ proc' = proc \/ (proc = "running" /\ proc' \in Ends)
  <2>1. CASE ProcExits
    BY <2>1 DEF ProcExits, proxy_vars
  <2>2. CASE GuestStops
    BY <2>2 DEF GuestStops, VMStops, guest_vars
  <2> QED BY <2>1, <2>2
<1>2. UNCHANGED <<pc, verdict, cause, exit, notifier, waiter, code, closed, panicked>>
  BY <1>1 DEF host_vars
<1>3. LockInv' /\ SocketInv' /\ CallInv' /\ SockInv' /\ ReadyInv'
  BY <1>1, <1>2, Outside
<1>4. HostTyped' /\ GuestTyped' /\ SentInv' /\ CodeInv'
  BY <1>1, <1>2 DEF SInv, HostTyped, GuestTyped, SentInv, CodeInv, Early, Ends
<1>5. Flags'
  <2>1. closed' = closed /\ panicked' = panicked /\ waiter' = waiter /\ announced' = announced /\ termed' = termed
    BY <1>1, <1>2
  <2>2. vmUp' \in BOOLEAN
    BY <1>1, Zenon DEF SInv, Flags
  <2> QED BY <2>1, <2>2, Zenon DEF SInv, Flags
<1> QED BY <1>3, <1>4, <1>5 DEF SInv

LEMMA ServiceStart == Init => SInv
<1> SUFFICES ASSUME Init PROVE SInv
  OBVIOUS
<1>1. LockInv /\ SocketInv /\ vmUp \in BOOLEAN
  BY ProxyStart DEF Init
<1>2. /\ pc = "listen" /\ verdict = "none" /\ cause = "none" /\ exit = "none"
      /\ notifier = "none" /\ waiter = "none" /\ code = "none" /\ proc = "none"
  BY DEF Init
<1>3. "launcher" \in Calls /\ "notifier" \in Calls /\ deadline = "none" /\ inbox = <<>> /\ \A c \in Calls : call[c] = NoCall
  BY ServiceAssumption DEF Init, ProxyInit
<1>4. HostTyped /\ GuestTyped /\ SentInv /\ CodeInv
  BY <1>2 DEF HostTyped, GuestTyped, SentInv, CodeInv, Early
<1>5. CallInv /\ SockInv /\ ReadyInv
  BY <1>2, <1>3 DEF CallInv, SockInv, ReadyInv, Answered, NoCall, Early
<1>6. Flags
  <2>1. waiter # "done"
    BY <1>2
  <2> QED BY <1>1, <2>1, Zenon DEF Init, Flags
<1> QED BY <1>1, <1>4, <1>5, <1>6 DEF SInv

LEMMA ServiceStep == SInv /\ [Next]_vars => SInv'
<1> SUFFICES ASSUME SInv, [Next]_vars PROVE SInv'
  OBVIOUS
<1>1. CASE UNCHANGED vars
  <2>1. UNCHANGED <<proxy_vars, host_vars, guest_vars>>
    BY <1>1 DEF vars
  <2>2. Unseen /\ UNCHANGED <<sock, deadline, call, inbox>> /\ announced' = announced
    <3>1. announced' = announced /\ vmUp' = vmUp /\ UNCHANGED <<host_vars, proc, termed>>
      BY <2>1 DEF guest_vars, proxy_vars
    <3>2. announced' \in BOOLEAN /\ vmUp' \in BOOLEAN /\ (vmUp' => vmUp)
      BY <3>1, Zenon DEF SInv, Flags
    <3> QED BY <2>1, <3>1, <3>2 DEF Unseen, proxy_vars, net_vars, lock_vars
  <2>3. LockInv' /\ SocketInv'
    BY <2>1, LockStep, SocketStep DEF SInv
  <2>4. SameCalls /\ (\A x \in Calls : Waits(x)) /\ ReadyIsTrue
    BY <2>2 DEF SameCalls, Waits, ReadyIsTrue, SInv, ReadyInv
  <2> QED BY <2>2, <2>3, <2>4, Silence, UnseenKeeps DEF SInv
<1>2. ~ReceiveClosed
  BY NobodyTakesClosed, Takes DEF ReceiveClosed
<1> QED BY <1>1, <1>2, CalledKeeps, ReturnedKeeps, LauncherKeeps, NotifySendKeeps, WaiterKeeps, GuestKeeps,
           NotificationKeeps, GuestCallKeeps DEF Next, Launcher, Notifier

LEMMA InvIsServiceInv == SInv => ServiceInv
<1> SUFFICES ASSUME SInv PROVE ServiceInv
  OBVIOUS
<1>1. ProxyTypeOK
  BY TypeIsParts, Zenon DEF SInv, Flags
<1>2. pc \in {"listen", "listening", "launch", "select", "close", "closing", "up", "wait", "exited"}
  BY DEF SInv, HostTyped, Early
<1>3. TypeOK
  BY <1>1, <1>2, Zenon DEF TypeOK, SInv, HostTyped, GuestTyped, Flags
<1>4. ReportsAreReal
  BY DEF SInv, HostTyped, SentInv, CodeInv, ReportsAreReal
<1> QED BY <1>3, <1>4 DEF ServiceInv

\* Whatever dockerd notifies, in whatever order it announces itself, exits or loses
\* its machine, and whichever goroutine is first at the channel: a launch succeeds
\* only for a process that announced itself and fails for an exit code only when it
\* is gone, and Wait returns what it left.
THEOREM ServiceCorrect == Spec => []ServiceInv
BY ServiceStart, ServiceStep, InvIsServiceInv, PTL DEF Spec

(***************************************************************************)
(* The contract.  A verdict is given in a step from the first four places, *)
(* the exit code in one from "wait", by whoever is first at the channel.   *)
(***************************************************************************)
Seen == <<proc, announced, vmUp, Told, exit>>

LEMMA ContractInit == Init => Contract!Init
BY DEF Init, ProxyInit, Contract!Init, Told

\* A step of the launcher itself gives a verdict only for want of a guest, of a
\* process, or of time.
LEMMA LauncherTells == ASSUME SInv, Launcher \/ CtxDone \/ StopService PROVE [Contract!Next]_Seen
<1>1. pc \in Early => Told = "nothing" /\ exit = "none"
  BY DEF SInv, SentInv, Told, Early
<1>2. ~ReceiveClosed
  BY NobodyTakesClosed, Takes DEF ReceiveClosed
<1>3. CASE Listening
  <2>1. pc = "listening" /\ proc = "none" /\ UNCHANGED <<exit, proc, announced, vmUp>>
    BY <1>3 DEF Listening, Return, guest_vars, SInv, CodeInv, Early
  <2>2. Told' = "nothing" \/ Told' = "setup"
    BY <1>3 DEF Listening, Becomes, Told
  <2> QED BY <1>1, <2>1, <2>2 DEF Seen, Contract!Next, Contract!Tell, Early
<1>4. CASE Launch
  <2>1. pc = "launch" /\ proc = "none" /\ UNCHANGED <<exit, announced, vmUp>>
    BY <1>4 DEF Launch, SInv, CodeInv, Early, proxy_vars
  <2>2. \/ vmUp /\ proc' = "running" /\ Told' = "nothing"
        \/ proc' = proc /\ Told' = "setup"
    BY <1>4 DEF Launch, Becomes, Told
  <2> QED BY <1>1, <2>1, <2>2 DEF Seen, Contract!Next, Contract!Tell, Contract!Start, Early
<1>5. CASE CtxDone
  <2>1. pc = "select" /\ proc # "none" /\ UNCHANGED <<exit, proc, announced, vmUp>>
    BY <1>5 DEF CtxDone, guest_vars, SInv, CodeInv, Early, proxy_vars
  <2>2. Told' = "ctx"
    BY <1>5 DEF CtxDone, Becomes, Told
  <2> QED BY <1>1, <2>1, <2>2 DEF Contract!Next, Contract!Tell, Early
<1>6. CASE ListenNotify \/ CloseConn \/ ConnClosed \/ StopService
  BY <1>6 DEF ListenNotify, CloseConn, ConnClosed, StopService, Invoke, Return, guest_vars, proxy_vars, Seen, Told
<1> QED BY <1>2, <1>3, <1>4, <1>5, <1>6 DEF Launcher

\* waitNotify is there first: its 0 stands for READY=1, its -1 for a guest that is
\* gone. The launcher never waits for it after the verdict.
LEMMA NotifierTells == ASSUME SInv, Notifier PROVE [Contract!Next]_Seen
<1>1. CASE NotifyCall \/ NotifyRead
  BY <1>1 DEF NotifyCall, NotifyRead, Invoke, Return, guest_vars, Seen, Told
<1>2. CASE NotifySend
  <2>1. UNCHANGED <<proc, announced, vmUp>> /\ notifier \in {"send", "fail"}
    BY <1>2 DEF NotifySend, guest_vars, proxy_vars
  <2>2. pc # "wait"
    BY <2>1 DEF SInv, SentInv
  <2>3. CASE UNCHANGED <<pc, verdict, cause, exit>>
    BY <2>1, <2>3 DEF Seen, Told
  <2>4. CASE Taken(IF notifier = "send" THEN "0" ELSE "-1")
    <3>1. /\ pc = "select" /\ exit' = exit
          /\ \/ notifier = "send" /\ verdict' = "ready"
             \/ notifier = "fail" /\ verdict' = "error" /\ cause' = "code"
      BY <2>1, <2>2, <2>4, Takes
    <3>2. Told = "nothing" /\ proc # "none"
      BY <3>1 DEF SInv, SentInv, CodeInv, Told, Early
    <3>3. \/ Told' = "ready" /\ announced
          \/ Told' = "code" /\ ~vmUp
      BY <3>1 DEF SInv, ReadyInv, SockInv, Told, Early
    <3> QED BY <2>1, <3>1, <3>2, <3>3 DEF Contract!Next, Contract!Tell, Contract!Gone
  <2> QED BY <1>2, <2>3, <2>4 DEF NotifySend
<1> QED BY <1>1, <1>2 DEF Notifier

\* waitService is there first, or last: what it took from the guest when the process
\* was gone is still true when somebody takes it.
LEMMA WaiterTells == ASSUME SInv, Waiter PROVE [Contract!Next]_Seen
<1>1. CASE WaitReturns \/ WaiterClose
  BY <1>1 DEF WaitReturns, WaiterClose, guest_vars, proxy_vars, Seen, Told
<1>2. CASE WaiterSend
  <2>1. UNCHANGED <<proc, announced, vmUp>> /\ code \in {"-1", "n"}
    BY <1>2 DEF WaiterSend, guest_vars, proxy_vars, SInv, HostTyped, SentInv
  <2>2. (code = "-1" /\ proc \in {"stopped", "killed"}) \/ (code = "n" /\ (proc = "failed" \/ ~vmUp))
    BY <2>1 DEF SInv, CodeInv
  <2>3. \/ pc = "select" /\ exit' = exit /\ verdict' = "error" /\ cause' = "code"
        \/ pc = "wait" /\ exit' = code /\ UNCHANGED <<verdict, cause>>
    BY <1>2, <2>1, Takes DEF WaiterSend, SendCode
  <2>4. CASE pc = "select"
    <3>1. Told = "nothing" /\ Told' = "code" /\ proc # "none" /\ exit' = exit
      BY <2>3, <2>4 DEF SInv, SentInv, CodeInv, Told, Early
    <3> QED BY <2>1, <2>2, <3>1 DEF Contract!Next, Contract!Tell, Contract!Gone, Contract!Ends
  <2>5. CASE pc = "wait"
    <3>1. Told = "ready" /\ Told' = Told /\ exit = "none" /\ exit' = code
      BY <2>3, <2>5 DEF SInv, SentInv, Told
    <3> QED BY <2>1, <2>2, <3>1 DEF Contract!Next, Contract!Wait
  <2> QED BY <2>3, <2>4, <2>5
<1> QED BY <1>1, <1>2 DEF Waiter

LEMMA ContractStep == SInv /\ [Next]_vars => [Contract!Next]_(Contract!contract_vars)
<1> SUFFICES ASSUME SInv, [Next]_vars PROVE [Contract!Next]_Seen
  BY DEF Contract!contract_vars, Seen
<1>1. CASE UNCHANGED vars
  BY <1>1 DEF vars, proxy_vars, host_vars, guest_vars, Seen, Told
<1>2. CASE Announce
  BY <1>2 DEF Announce, Arrive, host_vars, Told, Contract!Next, Contract!Announce
<1>3. CASE ProcExits
  BY <1>3 DEF ProcExits, Ends, host_vars, proxy_vars, Told, Contract!Next, Contract!End, Contract!Ends
<1>4. ASSUME UNCHANGED <<host_vars, guest_vars>>, vmUp' = vmUp \/ (vmUp /\ vmUp' = FALSE) PROVE [Contract!Next]_Seen
  BY <1>4 DEF host_vars, guest_vars, Seen, Told, Contract!Next, Contract!Lose
<1>5. ASSUME NEW c \in Calls, GuestCall(c) PROVE [Contract!Next]_Seen
  BY <1>4, <1>5 DEF GuestCall, CallStep, CallFails, RLock, ReadDatagram, ReadFails, Lock, Open, Write, SetReadDeadline,
     CloseSocket, Dereference
<1>6. CASE NotifyOther \/ GuestStops
  BY <1>4, <1>6 DEF NotifyOther, Arrive, GuestStops, VMStops
<1> QED BY <1>1, <1>2, <1>3, <1>5, <1>6, LauncherTells, NotifierTells, WaiterTells DEF Next

\* RunDaemon can forget the channel, the notify socket and both goroutines: it is
\* given one verdict and then one exit code, each true of the process at the moment
\* it is given.
THEOREM ContractCorrect == Spec => KeepsContract
BY ServiceStart, ServiceStep, ContractInit, ContractStep, PTL DEF Spec, KeepsContract, Contract!Spec

\* The launcher and waitNotify use the notify socket as any client of DatagramProxy
\* may, so that what holds of every client holds of them.
THEOREM UsesProxy == Spec => ProxySpec
<1>1. Init => ProxyInit
  BY DEF Init
<1>2. [Next]_vars => [ProxyNext]_proxy_vars
  <2> SUFFICES ASSUME Next, ~UNCHANGED proxy_vars PROVE ProxyNext
    BY DEF vars
  <2>1. "launcher" \in Calls /\ "notifier" \in Calls
    BY ServiceAssumption
  <2> QED BY <2>1, ServiceAssumption DEF Next, Launcher, Notifier, Waiter, GuestCall, ListenNotify, Listening, Launch,
       CloseConn, ConnClosed, ReceiveClosed, CtxDone, StopService, NotifyCall, NotifyRead, NotifySend, WaitReturns,
       WaiterSend, WaiterClose, Announce, NotifyOther, ProcExits, GuestStops, ProxyNext, Methods, Exclusive, Openings
<1> QED BY <1>1, <1>2, PTL DEF Spec, ProxySpec
=============================================================================
