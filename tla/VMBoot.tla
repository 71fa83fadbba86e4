-------------------------------- MODULE VMBoot --------------------------------
(***************************************************************************)
(* The start of the virtual machine: VirtualMachine.Start and handshake on *)
(* the host (internal/host/vm_darwin.go), StartGuest and Init in the guest *)
(* (internal/guest/guestapi_linux.go), the vsock ports between them, and   *)
(* the goroutine that turns states of the machine into vm.status.          *)
(*                                                                         *)
(* The guest may die at any step (a failed dial or call in its PID 1 is a  *)
(* kernel panic), and the machine's framework then reports it stopped.     *)
(***************************************************************************)
EXTENDS Naturals, Sequences

CONSTANT Mounts  \* number of file systems mounted at boot

ASSUME MountsAssumption == Mounts \in Nat

VARIABLES
  pc,         \* where Start is
  status,     \* vm.status
  overwrote,  \* RunDaemon set "ready" over "stopped"
  notify,     \* states queued on vm.StateChangedNotify
  notifier,   \* the goroutine that reads them
  machine,    \* "off", "on" or "stopped"
  guest,      \* where StartGuest is
  setup,      \* what Init has set up in the guest
  hostPorts,  \* vsock ports the host listens on
  guestPorts, \* and the guest
  stream,     \* the event connection: "none", "dialed" or "open"
  backlog,    \* connections to the guest's port 1 not accepted yet
  served,     \* the connection the guest API runs on
  clock,      \* the clock connection
  calls,      \* calls to the guest API: "none" yet, "sent", "ok" or "error"
  mounted     \* file systems mounted so far

host_vars  == <<pc, status, overwrote, notifier, mounted>>
guest_vars == <<guest, setup>>
vsock_vars == <<hostPorts, guestPorts, stream, backlog, served, clock>>
vars == <<host_vars, guest_vars, vsock_vars, notify, machine, calls>>

Methods == {"init", "dhcp", "write", "mount"}
Steps == {"overlay", "clock", "network"}
States == {"running", "stopping", "stopped"}
Ended == {"ready", "failed", "crashed"}

TypeOK ==
  /\ pc \in {"configure", "power", "state", "listen", "accept", "connect", "clock", "init",
             "write", "mount", "dhcp", "started"} \union Ended
  /\ status \in {"none", "booting", "ready", "stopping", "stopped"} /\ overwrote \in BOOLEAN
  /\ notify \in Seq(States) /\ Len(notify) <= 3
  /\ notifier \in {"none", "running", "done"}
  /\ machine \in {"off", "on", "stopped"}
  /\ guest \in {"off", "ports", "api", "dial", "wait", "serve", "dead"}
  /\ guest \in {"off", "dead"} <=> machine # "on"
  /\ setup \subseteq Steps
  /\ hostPorts \subseteq {1, 2} /\ guestPorts \subseteq {1, 2}
  /\ stream \in {"none", "dialed", "open"} /\ clock \in {"none", "dialed", "open"}
  /\ backlog \in Seq({"rpc", "datagram"}) /\ served \in {"none", "rpc", "datagram"}
  /\ calls \in [Methods -> {"none", "sent", "ok", "error"}]
  /\ mounted \in 0 .. Mounts

Init ==
  /\ pc = "configure" /\ status = "none" /\ overwrote = FALSE
  /\ notify = <<>> /\ notifier = "none" /\ machine = "off"
  /\ guest = "off" /\ setup = {}
  /\ hostPorts = {} /\ guestPorts = {} /\ stream = "none" /\ clock = "none"
  /\ backlog = <<>> /\ served = "none"
  /\ calls = [m \in Methods |-> "none"] /\ mounted = 0

Unless(ok, there) == pc' = IF ok THEN there ELSE "failed"

(***************************************************************************)
(* Start.                                                                  *)
(***************************************************************************)
\* the status "booting", then configuration, disks and shares, which may fail
Configure ==
  /\ pc = "configure" /\ status' = "booting"
  /\ \E ok \in BOOLEAN : Unless(ok, "power")
  /\ UNCHANGED <<overwrote, notifier, mounted, guest_vars, vsock_vars, notify, machine, calls>>

PowerOn ==
  /\ pc = "power"
  /\ \/ /\ machine' = "on" /\ guest' = "ports" /\ notify' = Append(notify, "running")
        /\ pc' = "state"
     \/ pc' = "failed" /\ UNCHANGED <<machine, guest, notify>>
  /\ UNCHANGED <<status, overwrote, notifier, mounted, setup, vsock_vars, calls>>

\* the first state must be "running"; the goroutine gets the others
FirstState ==
  /\ pc = "state" /\ notify # <<>>
  /\ notify' = Tail(notify)
  /\ Unless(Head(notify) = "running", "listen")
  /\ notifier' = IF pc' = "listen" THEN "running" ELSE "none"
  /\ UNCHANGED <<status, overwrote, mounted, guest_vars, vsock_vars, machine, calls>>

\* handshake: listen on port 1 only now, with the guest already running
ListenEvents ==
  /\ pc = "listen"
  /\ \/ pc' = "accept" /\ hostPorts' = hostPorts \union {1}
     \/ pc' = "failed" /\ UNCHANGED hostPorts
  /\ UNCHANGED <<status, overwrote, notifier, mounted, guest_vars, guestPorts, stream, backlog,
                 served, clock, notify, machine, calls>>

\* Accept has no deadline, and the end of the machine does not close the listener
AcceptEvents ==
  /\ pc = "accept" /\ stream = "dialed"
  /\ stream' = "open" /\ pc' = "connect"
  /\ UNCHANGED <<status, overwrote, notifier, mounted, guest_vars, hostPorts, guestPorts, backlog,
                 served, clock, notify, machine, calls>>

Reach(conn) == IF 1 \in guestPorts THEN backlog' = Append(backlog, conn) ELSE UNCHANGED backlog

ConnectAPI ==
  /\ pc = "connect"
  /\ Unless(1 \in guestPorts, "clock") /\ Reach("rpc")
  /\ UNCHANGED <<status, overwrote, notifier, mounted, guest_vars, hostPorts, guestPorts, stream,
                 served, clock, notify, machine, calls>>

ClockPorts == (hostPorts \ {1}) \union {2}
\* the clock listener; the deferred Close ends the one for events
ListenClock ==
  /\ pc = "clock"
  /\ \/ /\ pc' = "init" /\ hostPorts' = ClockPorts
        /\ calls' = [calls EXCEPT !["init"] = "sent"]
     \/ pc' = "failed" /\ hostPorts' = hostPorts \ {1} /\ UNCHANGED calls
  /\ UNCHANGED <<status, overwrote, notifier, mounted, guest_vars, guestPorts, stream, backlog,
                 served, clock, notify, machine>>

\* accepts one connection, then closes the listener
AcceptClock ==
  /\ clock = "dialed" /\ clock' = "open"
  /\ hostPorts' = hostPorts \ {2}
  /\ UNCHANGED <<host_vars, guest_vars, guestPorts, stream, backlog, served, notify, machine, calls>>

Answered(m) == calls[m] \in {"ok", "error"}

\* DHCP runs beside the other calls
Initialized ==
  /\ pc = "init" /\ Answered("init")
  /\ Unless(calls["init"] = "ok", "write")
  /\ calls' = IF pc' = "write" THEN [calls EXCEPT !["dhcp"] = "sent", !["write"] = "sent"] ELSE calls
  /\ UNCHANGED <<status, overwrote, notifier, mounted, guest_vars, vsock_vars, notify, machine>>

NextMount(n) ==
  /\ mounted' = n
  /\ IF n < Mounts
     THEN pc' = "mount" /\ calls' = [calls EXCEPT !["mount"] = "sent"]
     ELSE pc' = "dhcp" /\ UNCHANGED calls

Written ==
  /\ pc = "write" /\ Answered("write")
  /\ IF calls["write"] = "ok" THEN NextMount(0) ELSE pc' = "failed" /\ UNCHANGED <<mounted, calls>>
  /\ UNCHANGED <<status, overwrote, notifier, guest_vars, vsock_vars, notify, machine>>

Mounted ==
  /\ pc = "mount" /\ Answered("mount")
  /\ IF calls["mount"] = "ok" THEN NextMount(mounted + 1) ELSE pc' = "failed" /\ UNCHANGED <<mounted, calls>>
  /\ UNCHANGED <<status, overwrote, notifier, guest_vars, vsock_vars, notify, machine>>

Addressed ==
  /\ pc = "dhcp" /\ Answered("dhcp")
  /\ Unless(calls["dhcp"] = "ok", "started")
  /\ UNCHANGED <<status, overwrote, notifier, mounted, guest_vars, vsock_vars, notify, machine, calls>>

\* RunDaemon: LaunchService connects to port 1 for its notify socket. One
\* connection at a time: backlog = <<>> /\ served # "datagram" is the bound.
ConnectDatagram ==
  /\ pc = "started" /\ backlog = <<>> /\ served # "datagram"
  /\ Reach("datagram")
  /\ Unless(1 \in guestPorts, "started")
  /\ UNCHANGED <<status, overwrote, notifier, mounted, guest_vars, hostPorts, guestPorts, stream,
                 served, clock, notify, machine, calls>>

\* RunDaemon sets "ready" whatever the status is by now
Ready ==
  /\ pc = "started" /\ pc' = "ready"
  /\ status' = "ready" /\ overwrote' = (status = "stopped")
  /\ UNCHANGED <<notifier, mounted, guest_vars, vsock_vars, notify, machine, calls>>

Start == \/ Configure \/ PowerOn \/ FirstState \/ ListenEvents \/ AcceptEvents \/ ConnectAPI
         \/ ListenClock \/ Initialized \/ Written \/ Mounted \/ Addressed

(***************************************************************************)
(* The goroutine that follows the machine, and the event receiver.         *)
(***************************************************************************)
StopIgnored == UNCHANGED status
StopShown == status' = "stopped"

NotifyState ==
  /\ pc \notin {"failed", "crashed"} /\ notifier = "running" /\ notify # <<>>
  /\ notify' = Tail(notify)
  /\ IF Head(notify) = "stopped"
     THEN StopShown /\ notifier' = "done"
     ELSE /\ status' = IF Head(notify) = "stopping" THEN "stopping" ELSE status
          /\ UNCHANGED notifier
  /\ UNCHANGED <<pc, overwrote, mounted, guest_vars, vsock_vars, machine, calls>>

\* the receiver panics when the stream ends with anything but EOF
StreamBreaks ==
  /\ pc \notin {"failed", "crashed"} /\ stream = "open" /\ machine = "stopped" /\ pc' = "crashed"
  /\ UNCHANGED <<status, overwrote, notifier, mounted, guest_vars, vsock_vars, notify, machine, calls>>

(***************************************************************************)
(* The guest.                                                              *)
(***************************************************************************)
GuestAt(p, q) == guest = p /\ guest' = q

ProxyListen ==
  /\ GuestAt("ports", "api") /\ guestPorts' = guestPorts \union {2}
  /\ UNCHANGED <<host_vars, setup, hostPorts, stream, backlog, served, clock, notify, machine, calls>>

NoAPIPort == guestPorts
APIPorts == guestPorts \union {1}

APIListen ==
  /\ GuestAt("api", "dial") /\ guestPorts' = APIPorts
  /\ UNCHANGED <<host_vars, setup, hostPorts, stream, backlog, served, clock, notify, machine, calls>>

\* the framework may tell of the machine's stopping first
Dies ==
  /\ guest' = "dead" /\ machine' = "stopped"
  /\ \E told \in {notify, Append(notify, "stopping")} : notify' = Append(told, "stopped")
  /\ guestPorts' = {}
  /\ calls' = [m \in Methods |-> IF calls[m] = "sent" THEN "error" ELSE calls[m]]

AcceptBeforeDial ==
  /\ guest = "dial" /\ guest' = "wait"
  /\ UNCHANGED <<machine, notify, guestPorts, calls, stream,
                 host_vars, setup, hostPorts, backlog, served, clock>>

\* without a listener on the host PID 1 panics
DialHost ==
  /\ guest = "dial"
  /\ IF 1 \in hostPorts
     THEN guest' = "wait" /\ stream' = "dialed" /\ UNCHANGED <<machine, notify, guestPorts, calls>>
     ELSE Dies /\ UNCHANGED stream
  /\ UNCHANGED <<host_vars, setup, hostPorts, backlog, served, clock>>

AcceptAPI ==
  /\ GuestAt("wait", "serve") /\ backlog # <<>>
  /\ served' = Head(backlog) /\ backlog' = Tail(backlog)
  /\ UNCHANGED <<host_vars, setup, hostPorts, guestPorts, stream, clock, notify, machine, calls>>

\* later connections get a DatagramProxy each
AcceptDatagram ==
  /\ guest = "serve" /\ backlog # <<>> /\ backlog' = Tail(backlog)
  /\ UNCHANGED <<host_vars, guest_vars, hostPorts, guestPorts, stream, served, clock, notify, machine, calls>>

Serves(m) == guest = "serve" /\ served = "rpc" /\ calls[m] = "sent"
Answer(m, r) == calls' = [calls EXCEPT ![m] = r]

\* Init, step by step; the clock needs the host's listener
InitStep(s) ==
  /\ Serves("init") /\ s \notin setup
  /\ s = "clock" => "overlay" \in setup
  /\ s = "network" => "clock" \in setup
  /\ \/ /\ s = "clock" => 2 \in hostPorts
        /\ setup' = setup \union {s}
        /\ clock' = IF s = "clock" THEN "dialed" ELSE clock
        /\ calls' = IF s = "network" THEN [calls EXCEPT !["init"] = "ok"] ELSE calls
     \/ Answer("init", "error") /\ UNCHANGED <<setup, clock>>
  /\ UNCHANGED <<host_vars, guest, hostPorts, guestPorts, stream, backlog, served, notify, machine>>

Handle(m) ==
  /\ m # "init" /\ Serves(m)
  /\ \E r \in {"ok", "error"} : Answer(m, r)
  /\ UNCHANGED <<host_vars, guest_vars, vsock_vars, notify, machine>>

GuestDies ==
  /\ machine = "on" /\ Dies
  /\ UNCHANGED <<host_vars, setup, hostPorts, stream, backlog, served, clock>>

Guest == \/ ProxyListen \/ APIListen \/ DialHost \/ AcceptAPI \/ AcceptDatagram
         \/ (\E s \in Steps : InitStep(s)) \/ \E m \in Methods : Handle(m)

Next == \/ Start \/ ConnectDatagram \/ Ready \/ AcceptClock \/ NotifyState \/ StreamBreaks
        \/ Guest \/ GuestDies

\* Both sides run; a guest need not die, nor a broken stream be noticed.
Spec == /\ Init /\ [][Next]_vars
        /\ WF_vars(Start) /\ WF_vars(Ready) /\ WF_vars(NotifyState) /\ WF_vars(AcceptClock)
        /\ WF_vars(Guest)

(***************************************************************************)
(* Properties.                                                             *)
(***************************************************************************)
\* boot.md: "Once the host receives the connection to the event stream, it
\* knows the guest is now ready to receive commands over the API": the
\* connection that follows is never refused by a living guest. Nor is the one
\* of the guest's clock by the host: Init is not called before it listens.
PortsReady ==
  /\ pc = "connect" /\ machine = "on" => 1 \in guestPorts
  /\ calls["init"] = "sent" /\ "clock" \notin setup => 2 \in hostPorts

\* The first connection the guest accepts, the only one its API runs on, is
\* the one the host makes its calls on, and no call waits on another.
APIOnRightConn ==
  /\ served \in {"none", "rpc"}
  /\ \A i \in 1 .. Len(backlog) : backlog[i] = "rpc" => served = "none"

\* The machine's end is not missed: "stopped" becomes the status, except when
\* the daemon puts "ready" over it or ends itself.
StopReported == machine = "stopped" ~> status = "stopped" \/ overwrote \/ pc \in {"failed", "crashed"}

\* Start comes to an end when the guest reaches the host: only a guest that
\* died before its dial leaves the host in Accept for ever.
BootEnds == pc = "accept" ~> pc # "accept" \/ (machine = "stopped" /\ stream = "none")

=============================================================================
