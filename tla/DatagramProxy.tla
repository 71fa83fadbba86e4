---------------------------- MODULE DatagramProxy ----------------------------
(***************************************************************************)
(* The guest's datagram proxy (internal/rpc/datagram.go): one socket behind*)
(* a sync.RWMutex, served to the host over net/rpc, which runs every call  *)
(* in a goroutine of its own.  Read holds the mutex shared while it blocks *)
(* in the kernel; every other method takes it exclusively.  The server is  *)
(* the guest's first process: when it panics, the guest is gone.           *)
(*                                                                         *)
(* The mutex is Go's: a writer that waits for readers holds off new        *)
(* readers, and its Unlock lets in all readers that queued meanwhile.      *)
(***************************************************************************)
EXTENDS Naturals, Sequences

CONSTANTS Calls,    \* the calls a client may have under way at once
          Data,     \* contents of datagrams
          MaxQueue  \* datagrams the kernel queues on the socket

ASSUME MaxQueueAssumption == MaxQueue \in Nat \ {0}

VARIABLES
  sock,      \* "nil", or how the socket was made
  inbox,     \* datagrams queued in the kernel
  deadline,  \* the read deadline of the socket: "none", "armed" or "passed"
  call,      \* what each call does and where it is
  writer,    \* the calls that hold the mutex exclusively or announced it
  readers,   \* the calls that hold it shared
  vmUp       \* the guest runs, and with it the process that serves

net_vars   == <<sock, inbox, deadline>>
lock_vars  == <<call, writer, readers>>
proxy_vars == <<net_vars, lock_vars, vmUp>>

Openings == {"DialUDP", "DialUnix", "ListenUDP", "ListenUnix"}
Exclusive == Openings \union {"Write", "SetReadDeadline", "Close"}
Methods == Exclusive \union {"Read"}
Results == {"none", "ok", "error"} \union Data
NoCall == [op |-> "none", pc |-> "idle", res |-> "none"]

Waiting(op) == {c \in Calls : call[c].pc = "waiting" /\ call[c].op \in op}
Reading == {c \in Calls : call[c].pc = "reading"}

ProxyTypeOK ==
  /\ sock \in {"nil", "dialed", "listening"}
  /\ inbox \in Seq(Data) /\ Len(inbox) <= MaxQueue
  /\ deadline \in {"none", "armed", "passed"}
  /\ call \in [Calls -> [op : Methods \union {"none"}, pc : {"idle", "waiting", "reading", "done"},
                         res : Results]]
  /\ writer \subseteq Waiting(Exclusive) /\ \A c, d \in writer : c = d
  /\ readers = Reading /\ \A c \in readers : call[c].op = "Read"
  /\ sock = "nil" => inbox = <<>> /\ deadline = "none"
  /\ vmUp \in BOOLEAN

ProxyInit ==
  /\ sock = "nil" /\ inbox = <<>> /\ deadline = "none"
  /\ call = [c \in Calls |-> NoCall]
  /\ writer = {} /\ readers = {} /\ vmUp = TRUE

(***************************************************************************)
(* The client's side of a call.                                            *)
(***************************************************************************)
Invoke(c, op) ==
  /\ call[c].pc = "idle"
  /\ call' = [call EXCEPT ![c] = [op |-> op, pc |-> "waiting", res |-> "none"]]
  /\ UNCHANGED <<net_vars, writer, readers, vmUp>>

Return(c) ==
  /\ call[c].pc = "done"
  /\ call' = [call EXCEPT ![c] = NoCall]
  /\ UNCHANGED <<net_vars, writer, readers, vmUp>>

\* without the guest the connection is gone, and a call fails on it
CallFails(c) ==
  /\ ~vmUp /\ call[c].pc \in {"waiting", "reading"}
  /\ call' = [call EXCEPT ![c].pc = "done", ![c].res = "error"]
  /\ writer' = writer \ {c} /\ readers' = readers \ {c}
  /\ UNCHANGED <<net_vars, vmUp>>

(***************************************************************************)
(* Read, under the shared lock.                                            *)
(***************************************************************************)
EnterShared(cs) ==
  /\ readers' = readers \union cs
  /\ call' = [c \in Calls |-> IF c \in cs THEN [call[c] EXCEPT !.pc = "reading"] ELSE call[c]]

RLock(c) ==
  /\ c \in Waiting({"Read"}) /\ writer = {}
  /\ EnterShared({c})
  /\ UNCHANGED <<net_vars, writer, vmUp>>

EndReadLocked(c, r) ==
  /\ call' = [call EXCEPT ![c].pc = "done", ![c].res = r]
  /\ readers' = IF r = "error" THEN readers ELSE readers \ {c}

EndRead(c, r) ==
  /\ call' = [call EXCEPT ![c].pc = "done", ![c].res = r]
  /\ readers' = readers \ {c}

ReadDatagram(c) ==
  /\ c \in Reading /\ sock # "nil" /\ inbox # <<>> /\ deadline # "passed"
  /\ EndRead(c, Head(inbox))
  /\ inbox' = Tail(inbox)
  /\ UNCHANGED <<sock, deadline, writer, vmUp>>

ReadFails(c) ==
  /\ c \in Reading /\ sock # "nil" /\ deadline = "passed"
  /\ EndRead(c, "error")
  /\ UNCHANGED <<net_vars, writer, vmUp>>

(***************************************************************************)
(* The methods under the exclusive lock.                                   *)
(***************************************************************************)
ReadersIgnored == TRUE
NoReaders == readers = {}

\* Lock announces the writer, then waits for the readers
Lock(c) ==
  /\ c \in Waiting(Exclusive) /\ writer = {}
  /\ writer' = {c}
  /\ UNCHANGED <<net_vars, call, readers, vmUp>>

\* the body of a method and the Unlock that follows it
Finish(c, r) ==
  LET queued == Waiting({"Read"}) IN
  /\ writer' = {}
  /\ readers' = readers \union queued
  /\ call' = [x \in Calls |->
                IF x = c THEN [call[c] EXCEPT !.pc = "done", !.res = r]
                ELSE IF x \in queued THEN [call[x] EXCEPT !.pc = "reading"] ELSE call[x]]

Holds(c, op) == c \in writer /\ NoReaders /\ call[c].op \in op

\* Listen tells the kinds apart by RemoteUDP, which ListenUDP never sends: it
\* takes the branch for unix sockets and fails
Opened(op) ==
  CASE op = "ListenUDP"  -> {"nil"}
    [] op = "ListenUnix" -> {"nil", "listening"}
    [] OTHER             -> {"nil", "dialed"}

\* Dial and Listen refuse a second socket
Open(c) ==
  /\ Holds(c, Openings)
  /\ IF sock # "nil"
     THEN Finish(c, "error") /\ UNCHANGED sock
     ELSE /\ sock' \in Opened(call[c].op)
          /\ Finish(c, IF sock' = "nil" THEN "error" ELSE "ok")
  /\ UNCHANGED <<inbox, deadline, vmUp>>

\* WriteTo is refused by a connected socket
Write(c) ==
  /\ Holds(c, {"Write"}) /\ sock # "nil"
  /\ \E r \in IF sock = "listening" THEN {"ok", "error"} ELSE {"error"} : Finish(c, r)
  /\ UNCHANGED <<net_vars, vmUp>>

\* SetDeadline acts the same on reads; write deadlines, which no write of a
\* datagram meets, are left out
SetReadDeadline(c) ==
  /\ Holds(c, {"SetReadDeadline"}) /\ sock # "nil"
  /\ Finish(c, "ok") /\ deadline' \in {"none", "armed", "passed"}
  /\ UNCHANGED <<sock, inbox, vmUp>>

\* none of the methods that use the socket asks whether there is one
Dereference(c) ==
  /\ sock = "nil" /\ (c \in Reading \/ Holds(c, {"Write", "SetReadDeadline"}))
  /\ vmUp' = FALSE
  /\ UNCHANGED <<net_vars, lock_vars>>

CloseSocket(c) ==
  /\ Holds(c, {"Close"})
  /\ sock' = "nil" /\ inbox' = <<>> /\ deadline' = "none"
  /\ Finish(c, "ok")
  /\ UNCHANGED vmUp

(***************************************************************************)
(* The guest's kernel, and the end of the guest.                           *)
(***************************************************************************)
Arrive(d) ==
  /\ vmUp /\ sock # "nil" /\ Len(inbox) < MaxQueue
  /\ inbox' = Append(inbox, d)
  /\ UNCHANGED <<sock, deadline, lock_vars, vmUp>>

Tick ==
  /\ vmUp /\ deadline = "armed" /\ deadline' = "passed"
  /\ UNCHANGED <<sock, inbox, lock_vars, vmUp>>

VMStops ==
  /\ vmUp /\ vmUp' = FALSE
  /\ UNCHANGED <<net_vars, lock_vars>>

CallStep(c) == /\ vmUp
               /\ \/ RLock(c) \/ ReadDatagram(c) \/ ReadFails(c) \/ Lock(c)
                  \/ Open(c) \/ Write(c) \/ SetReadDeadline(c) \/ CloseSocket(c) \/ Dereference(c)

ProxyNext ==
  \/ \E c \in Calls : CallStep(c) \/ CallFails(c) \/ Return(c) \/ \E op \in Methods : Invoke(c, op)
  \/ \E d \in Data : Arrive(d)
  \/ Tick \/ VMStops

ProxySpec == ProxyInit /\ [][ProxyNext]_proxy_vars

\* Goroutines run, time passes, Go's mutex hands a waiting writer the lock in time,
\* and the kernel wakes blocked readers in turn. Nothing makes a peer send.
CallFairness(c) == /\ WF_proxy_vars(CallStep(c) \/ CallFails(c))
                   /\ SF_proxy_vars(vmUp /\ Lock(c)) /\ SF_proxy_vars(vmUp /\ ReadDatagram(c))
ProxyFairSpec == ProxySpec /\ WF_proxy_vars(Tick) /\ \A c \in Calls : CallFairness(c)

(***************************************************************************)
(* Properties.                                                             *)
(***************************************************************************)
Blocked(c) == call[c].pc \in {"waiting", "reading"}

\* The socket a blocked Read is in is not closed, replaced or given another
\* deadline under it: that is what holding the mutex shared is for.
ReadPinsSocket ==
  [][\A c \in Reading : call'[c].pc = "reading" => sock' = sock /\ (deadline' # deadline => deadline' = "passed")]_proxy_vars

\* a Read waits in the kernel with nothing to wake it
Starving == vmUp /\ Reading # {} /\ inbox = <<>> /\ deadline = "none"

\* The one thing that can hold up a call for ever is a Read that has no datagram and
\* no deadline: it keeps the mutex, and Close and SetReadDeadline, which could end
\* it, wait for it. Whenever no Read is left so for ever, every call returns: readers
\* and writers let each other in, also after an error, and without the guest.
CallsComplete == <>[]Starving \/ \A c \in Calls : Blocked(c) ~> ~Blocked(c)
=============================================================================
