----------------------------- MODULE PortForward -----------------------------
(***************************************************************************)
(* The ports of containers on the host: MonitorDockerd (internal/host/     *)
(* docker.go) follows the events of dockerd, one after the other, asks it  *)
(* for the container that has started and has Listener (listen.go) open its*)
(* host ports, until the container is said to have stopped.                *)
(*                                                                         *)
(* dockerd is ahead of its events: a container may have stopped, or have   *)
(* been started again at another address, before its first start is looked *)
(* at.  What is told once ("stop" comes when the call that stopped the     *)
(* container returns) may even come after the next start.  Containers that *)
(* publish the same port on the same address of the host do not run        *)
(* together.  The listeners here take the port alone, and are on the       *)
(* interface of the configuration: of two containers that publish a port on*)
(* two addresses the second goes without.                                  *)
(*                                                                         *)
(* What dockerd gives as the address of a container is that in its default *)
(* network.  A container in networks of its own has none there; it is      *)
(* forwarded all the same, to "<nil>".                                     *)
(***************************************************************************)
EXTENDS Naturals, Sequences, FiniteSets

CONSTANTS Containers,
          HostPorts,  \* sockets of the host: a port on an address of the interface
          HostIPs,    \* that dockerd is asked to publish on; all is each of them
          Published,  \* what each container publishes
          Addresses,  \* of containers in dockerd's default network
          Apart,      \* containers that are in other networks only
          MaxStarts   \* bound: containers started

ASSUME PublishedAssumption == Published \in [Containers -> SUBSET (HostIPs \X HostPorts)]
ASSUME StartsAssumption == MaxStarts \in Nat

VARIABLES
  up,       \* the address dockerd gives for each container that runs
  leaving,  \* containers whose "stop" is still to be told
  starts,   \* containers started so far
  stream,   \* the event stream: "none", "open" or "broken"
  events,   \* events of dockerd not received yet
  bind,     \* the interface to listen on exists
  taken,    \* host ports other programs listen on
  pc,       \* where MonitorDockerd is
  job,      \* the container it is about
  found,    \* and the address it was found at
  ports,    \* Listener.ports: the listeners of each container
  open,     \* listeners open, as <<container, host port, where it leads>>
  forwarded \* containers whose last event was a start, and was acted upon

dockerd_vars == <<up, leaving, starts>>
listener_vars == <<ports, open>>
vars == <<dockerd_vars, stream, events, bind, taken, pc, job, found, listener_vars, forwarded>>

\* the host port is all that is read of a binding
PortsOf(c) == {b[2] : b \in Published[c]}

\* what the addresses of a container are; no address is "<nil>" when it is written
AddressesOf(c) == IF c \in Apart THEN {"<nil>"} ELSE Addresses
Targets == Addresses \union {"<nil>"}

Running == DOMAIN up
Event == [act : {"start", "die", "stop"}, id : Containers]
Listening == Containers \X HostPorts \X Targets

TypeOK ==
  /\ Running \subseteq Containers /\ \A c \in Running : up[c] \in AddressesOf(c)
  /\ leaving \subseteq Containers /\ starts \in 0 .. MaxStarts
  /\ stream \in {"none", "open", "broken"} /\ events \in Seq(Event)
  /\ bind \in BOOLEAN /\ taken \subseteq HostPorts
  /\ pc \in {"subscribe", "listener", "loop", "inspect", "forward", "panic"}
  /\ pc \in {"inspect", "forward"} => job \in Containers
  /\ pc = "forward" => found \in Targets
  /\ DOMAIN ports \subseteq Containers /\ \A c \in DOMAIN ports : ports[c] \subseteq Listening
  /\ open \subseteq Listening
  /\ forwarded \subseteq Containers

\* dockerd is ready: containers it restarts by itself may run already
Init ==
  /\ \E R \in SUBSET Containers :
       /\ \A c, d \in R : c # d => Published[c] \cap Published[d] = {}
       /\ up \in [R -> Targets] /\ \A c \in R : up[c] \in AddressesOf(c)
  /\ leaving = {} /\ starts = 0
  /\ stream = "none" /\ events = <<>>
  /\ bind \in BOOLEAN /\ taken \in SUBSET HostPorts
  /\ pc = "subscribe" /\ job = "none" /\ found = "none"
  /\ ports = <<>> /\ open = {} /\ forwarded = {}

Without(f, k) == [x \in DOMAIN f \ {k} |-> f[x]]
With(f, k, v) == [x \in DOMAIN f \union {k} |-> IF x = k THEN v ELSE f[x]]

(***************************************************************************)
(* dockerd.  Nobody is told what happens before the stream is open.        *)
(***************************************************************************)
Tell(act, c) ==
  events' = IF stream = "open" THEN Append(events, [act |-> act, id |-> c]) ELSE events

Starts(c) ==
  /\ starts < MaxStarts /\ starts' = starts + 1
  /\ c \notin Running /\ \A d \in Running : Published[c] \cap Published[d] = {}
  /\ \E a \in AddressesOf(c) : up' = With(up, c, a)
  /\ Tell("start", c)
  /\ UNCHANGED <<leaving, stream, bind, taken, pc, job, found, listener_vars, forwarded>>

\* by itself, or by a call that tells about it later
Dies(c) ==
  /\ c \in Running /\ up' = Without(up, c)
  /\ Tell("die", c)
  /\ leaving' \in {leaving, leaving \union {c}}
  /\ UNCHANGED <<starts, stream, bind, taken, pc, job, found, listener_vars, forwarded>>

Stopped(c) ==
  /\ c \in leaving /\ leaving' = leaving \ {c}
  /\ Tell("stop", c)
  /\ UNCHANGED <<up, starts, stream, bind, taken, pc, job, found, listener_vars, forwarded>>

(***************************************************************************)
(* MonitorDockerd.  The client never closes the channel of messages, so    *)
(* that the loop, and the CloseAll deferred to its end, outlive the stream.*)
(***************************************************************************)
\* the client's goroutine makes the request in its own time
Subscribe ==
  /\ stream = "none" /\ stream' \in {"open", "broken"}
  /\ UNCHANGED <<dockerd_vars, events, bind, taken, pc, job, found, listener_vars, forwarded>>

Breaks ==
  /\ stream = "open" /\ stream' = "broken" /\ events' = <<>>
  /\ UNCHANGED <<dockerd_vars, bind, taken, pc, job, found, listener_vars, forwarded>>

Monitor ==
  /\ pc = "subscribe" /\ pc' = "listener"
  /\ UNCHANGED <<dockerd_vars, stream, events, bind, taken, job, found, listener_vars, forwarded>>

\* without a listener the next assignment is a panic
GetListener ==
  /\ pc = "listener" /\ pc' = IF bind THEN "loop" ELSE "panic"
  /\ UNCHANGED <<dockerd_vars, stream, events, bind, taken, job, found, listener_vars, forwarded>>

OpenOf(c) == {l \in open : l[1] = c}
Tracked(c) == IF c \in DOMAIN ports THEN ports[c] ELSE {}

CloseIfGone(c) ==
  /\ open' = IF c \in Running THEN open ELSE open \ Tracked(c)
  /\ ports' = Without(ports, c)

\* Listener.Close
Close(c) ==
  /\ open' = open \ Tracked(c)
  /\ ports' = Without(ports, c)

EndsOnly == {"stop"}
Ends == {"die", "stop"}

Receive ==
  /\ pc = "loop" /\ events # <<>> /\ events' = Tail(events)
  /\ LET e == Head(events) IN
       IF e.act \in Ends
       THEN /\ Close(e.id) /\ forwarded' = forwarded \ {e.id}
            /\ UNCHANGED <<pc, job>>
       ELSE /\ e.act = "start" => pc' = "inspect" /\ job' = e.id
            /\ e.act # "start" => UNCHANGED <<pc, job>>
            /\ UNCHANGED <<listener_vars, forwarded>>
  /\ UNCHANGED <<dockerd_vars, stream, bind, taken, found>>

\* to the loop, where neither is known any more
Return == pc' = "loop" /\ job' = "none" /\ found' = "none"

\* the container as it is now; one that has stopped has no ports
Inspect ==
  /\ pc = "inspect"
  /\ \/ /\ job \in Running /\ PortsOf(job) # {}
        /\ found' = up[job] /\ pc' = "forward" /\ UNCHANGED <<forwarded, job>>
     \/ Return /\ forwarded' = forwarded \ {job}
  /\ UNCHANGED <<dockerd_vars, stream, events, bind, taken, listener_vars>>

\* ports other listeners have
Busy == taken \union {l[2] : l \in open}

\* Listener.Forward: a port that cannot be listened on is left out for good
Forward ==
  /\ pc = "forward" /\ Return
  /\ LET new == {<<job, p, found>> : p \in PortsOf(job) \ Busy} IN
       /\ open' = open \union new
       /\ ports' = With(ports, job, new)
  /\ forwarded' = forwarded \union {job}
  /\ UNCHANGED <<dockerd_vars, stream, events, bind, taken>>

MonitorDockerd == Monitor \/ GetListener \/ Receive \/ Inspect \/ Forward

Next == \/ pc # "panic" /\ (MonitorDockerd \/ Subscribe \/ Breaks)
        \/ pc # "panic" /\ \E c \in Containers : Starts(c) \/ Dies(c) \/ Stopped(c)

\* the goroutine runs; dockerd need not do anything
Spec == Init /\ [][Next]_vars /\ WF_vars(pc # "panic" /\ MonitorDockerd)

(***************************************************************************)
(* Properties.                                                             *)
(***************************************************************************)
\* Every listener that is open is among those of its container in
\* Listener.ports, where Close finds it: no Forward puts others over them.
OpenIsTracked == \A l \in open : l[1] \in DOMAIN ports /\ l \in ports[l[1]]

TrackedInv == TypeOK /\ OpenIsTracked

\* Ports that may be another's: a program's, or those of a container that can run
\* at the same time.
Exclude(c, d) == c = d \/ Published[c] \cap Published[d] # {}
Contested(c) == taken \union UNION {PortsOf(d) : d \in {d \in Containers : ~Exclude(c, d)}}

\* When all events are looked at, however far dockerd was ahead of them, what is
\* open for a container leads to where dockerd has it now (which is nowhere, for one
\* in networks of its own), each port that nobody contests is open if the container
\* was forwarded, and nothing listens for one that does not run.
Settled == pc = "loop" /\ events = <<>> /\ stream = "open"

ForwardedIsCurrent ==
  Settled => /\ \A l \in open : l[1] \in Running /\ l[2] \in PortsOf(l[1]) /\ l[3] = up[l[1]]
             /\ \A c \in Running \cap forwarded :
                  \A p \in PortsOf(c) \ Contested(c) : \E l \in OpenOf(c) : l[2] = p

\* The ports of a container that has stopped are closed, unless the events of
\* dockerd have ended: nothing closes them then.
StoppedIsClosed ==
  \A c \in Containers :
    OpenOf(c) # {} /\ c \notin Running ~> OpenOf(c) = {} \/ c \in Running \/ stream = "broken"
=============================================================================
