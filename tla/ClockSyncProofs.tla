--------------------------- MODULE ClockSyncProofs ---------------------------
(***************************************************************************)
(* Proofs about ClockSync, for all limits, delays, offsets and drifts, and  *)
(* about VMBoot under it, for any number of mounts.                        *)
(***************************************************************************)
EXTENDS ClockSync, TLAPS

\* Duration.Truncate and what it leaves: the parts add up, and what is left is
\* less than a second on the side of the sign.
LEMMA Truncation ==
  ASSUME NEW t \in Int
  PROVE  /\ Seconds(t) \in Int /\ Rest(t) \in Int
         /\ Seconds(t) * Second + Rest(t) = t
         /\ -Second < Rest(t) /\ Rest(t) < Second
<1>0. Second \in Nat /\ Second > 0
  BY SecondAssumption
<1>1. ASSUME NEW n \in Nat
      PROVE  /\ n \div Second \in Nat
             /\ n = Second * (n \div Second) + (n % Second) /\ n % Second \in 0 .. Second - 1
  BY <1>0
<1>2. CASE t < 0
  <2>1. -t \in Nat /\ Seconds(t) = -((-t) \div Second)
    BY <1>2 DEF Seconds
  <2> DEFINE q == (-t) \div Second
             r == (-t) % Second
  <2>2. q \in Nat /\ -t = Second * q + r /\ r \in 0 .. Second - 1
    BY <1>1, <2>1
  <2>3. Seconds(t) = -q /\ Rest(t) = t - (-q) * Second
    BY <2>1 DEF Rest
  <2> HIDE DEF q, r
  <2>4. (-q) * Second = -(Second * q)
    BY <1>0, <2>2
  <2>5. Rest(t) = -r
    BY <1>0, <2>2, <2>3, <2>4
  <2> QED BY <1>0, <2>2, <2>3, <2>4, <2>5
<1>3. CASE t >= 0
  <2> DEFINE q == t \div Second
             r == t % Second
  <2>1. Seconds(t) = q /\ Rest(t) = t - q * Second
    BY <1>3 DEF Seconds, Rest
  <2>2. q \in Nat /\ t = Second * q + r /\ r \in 0 .. Second - 1
    BY <1>1, <1>3
  <2> HIDE DEF q, r
  <2>3. q * Second = Second * q
    BY <1>0, <2>2
  <2> QED BY <1>0, <2>1, <2>2, <2>3
<1> QED BY <1>2, <1>3

\* What adjtime hands to the kernel is the offset, and its fraction is one that the
\* kernel takes, for offsets of either sign: the clock is set, to the nanosecond.
THEOREM TimexCorrect ==
  ASSUME NEW t \in Int
  PROVE  /\ Timex(t).sec * Second + Timex(t).usec = t
         /\ Timex(t).usec \in 0 .. Second - 1
<1>0. Second \in Nat /\ Second > 0
  BY SecondAssumption
<1>1. CASE Rest(t) < 0
  <2>1. Timex(t).sec = Seconds(t) - 1 /\ Timex(t).usec = Rest(t) + Second
    BY <1>1 DEF Timex
  <2>2. (Seconds(t) - 1) * Second = Seconds(t) * Second - Second
    BY <1>0, Truncation
  <2>3. Seconds(t) * Second \in Int
    BY <1>0, Truncation
  <2> HIDE DEF Timex
  <2>4. (Seconds(t) - 1) * Second + (Rest(t) + Second) = Seconds(t) * Second + Rest(t)
    BY <1>0, <2>2, <2>3, Truncation
  <2>5. Timex(t).sec * Second + Timex(t).usec = t
    BY <2>1, <2>4, Truncation
  <2>6. Rest(t) \in Int /\ -Second < Rest(t)
    BY Truncation
  <2>7. Rest(t) + Second \in 0 .. Second - 1
    BY <1>0, <1>1, <2>6
  <2> QED BY <2>1, <2>5, <2>7
<1>2. CASE Rest(t) >= 0
  <2>1. Timex(t).sec = Seconds(t) /\ Timex(t).usec = Rest(t)
    BY <1>2, Truncation DEF Timex
  <2> QED BY <1>0, <1>2, <2>1, Truncation
<1> QED BY <1>1, <1>2, Truncation

(***************************************************************************)
(* While a reply is on its way, the time in it is what the host's clock    *)
(* read when the request arrived, unless the host has slept since.         *)
(***************************************************************************)
SampleInv ==
  /\ offset \in Int /\ limit \in Nat /\ there \in Nat /\ ahead \in Int /\ slew \in Int
  /\ loop = "served" /\ ~overtaken => ahead = there - offset

\* Half the round trip is off by at most itself, and rounded up.
LEMMA HalfTrip ==
  ASSUME NEW a \in Nat, NEW b \in Nat
  PROVE  LET h == (a + b) \div 2 IN h \in Nat /\ a - h \in Int /\ -h <= a - h /\ a - h <= h + 1
OBVIOUS

\* The reply either leaves the clock, has it slewed later, or sets it to within
\* the latency of the sample.
LEMMA ReplySets ==
  ASSUME SampleInv, NEW d \in Delays, Reply(d)
  PROVE  /\ offset' \in Int /\ limit' \in Nat /\ slew' \in Int
         /\ loop' # "served" /\ there' = 0 /\ ahead' = 0
         /\ offset' # offset /\ ~overtaken
              => 2 * Abs(offset') <= limit' + 2 /\ limit' <= 2 * limit
<1> DEFINE h == Latency(d)
           t == AheadOf(d)
<1>1. /\ h \in Nat /\ t \in Int /\ t = ahead - h
      /\ there - h \in Int /\ -h <= there - h /\ there - h <= h + 1
  BY TimesAssumption, HalfTrip DEF Latency, AheadOf, SampleInv
<1>2. there' = 0 /\ ahead' = 0
  BY DEF Reply
<1> HIDE DEF h, t
<1>3. CASE h > limit
  BY <1>1, <1>2, <1>3 DEF Reply, NextLimit, SampleInv, h, t
<1>4. CASE ~(h > limit) /\ ~(Abs(t) > Tolerance)
  BY <1>1, <1>2, <1>4 DEF Reply, SampleInv, h, t
<1>5. CASE ~(h > limit) /\ Abs(t) > Tolerance
  <2>1. limit' = 2 * h /\ Adjust(t)
    BY <1>5 DEF Reply, h, t
  <2>2. CASE ~Jumps(t)
    BY <1>1, <1>2, <2>1, <2>2 DEF Adjust, SampleInv
  <2>3. CASE Jumps(t)
    <3>1. offset' = offset + t /\ loop' = "wait" /\ slew' = slew
      BY <1>1, <2>1, <2>3, TimexCorrect DEF Adjust, SetTime
    <3>2. loop = "served"
      BY DEF Reply
    <3>3. ~overtaken => offset' = there - h
      BY <1>1, <3>1, <3>2 DEF SampleInv
    <3>4. ~overtaken => Abs(offset') <= h + 1
      BY <1>1, <3>3 DEF Abs
    <3>5. offset' \in Int /\ Abs(offset') \in Int
      BY <1>1, <3>1 DEF SampleInv, Abs
    <3> QED BY <1>1, <1>2, <1>5, <2>1, <3>1, <3>4, <3>5 DEF SampleInv
  <2> QED BY <2>2, <2>3
<1> QED BY <1>3, <1>4, <1>5

\* Each step keeps the sample; those of the boot do not touch it.
LEMMA SampleStep == SampleInv /\ [ClockedNext]_clocked_vars => SampleInv'
<1> SUFFICES ASSUME SampleInv, [ClockedNext]_clocked_vars PROVE SampleInv'
  OBVIOUS
<1> USE DEF SampleInv
<1>1. CASE UNCHANGED clock_vars
  BY <1>1 DEF clock_vars, sample_vars
<1>2. CASE StartSync
  BY <1>2 DEF StartSync, sample_vars
<1>3. CASE Ask
  BY <1>3 DEF Ask, sample_vars
<1>4. CASE Interval
  BY <1>4, TimesAssumption DEF Interval, sample_vars
<1>5. ASSUME NEW d \in Delays, HostClock(d) PROVE SampleInv'
  BY <1>5, TimesAssumption DEF HostClock
<1>6. ASSUME NEW d \in Delays, Reply(d) PROVE SampleInv'
  BY <1>6, ReplySets
<1>7. ASSUME NEW n \in Naps, HostSleeps(n) PROVE SampleInv'
  <2>1. offset' = offset - n /\ UNCHANGED <<loop, limit, there, ahead, slew>>
    BY <1>7 DEF HostSleeps
  <2>2. loop' = "served" => overtaken'
    BY <1>7, ZenonT(30) DEF HostSleeps
  <2>3. offset' \in Int
    BY <2>1, TimesAssumption
  <2> QED BY <2>1, <2>2, <2>3
<1> QED BY <1>1, <1>2, <1>3, <1>4, <1>5, <1>6, <1>7
     DEF ClockedNext, Boots, Syncing, Sleeping, clocked_vars

\* Only a reply sets the clock where the clock has been read.
LEMMA SetStep ==
  SampleInv /\ [ClockedNext]_clocked_vars =>
    [loop = "served" /\ offset' # offset /\ loop' = "wait" /\ ~overtaken
       => 2 * Abs(offset') <= limit' + 2 /\ limit' <= 2 * limit]_clocked_vars
<1> SUFFICES ASSUME SampleInv, ClockedNext, loop = "served", offset' # offset, loop' = "wait", ~overtaken
             PROVE  2 * Abs(offset') <= limit' + 2 /\ limit' <= 2 * limit
  OBVIOUS
<1>1. PICK d \in Delays : Reply(d)
  BY DEF ClockedNext, Boots, Syncing, Sleeping, StartSync, Ask, Interval, HostClock, HostSleeps, clock_vars
<1> QED BY <1>1, ReplySets

\* Whatever the delays of request and reply, and however the clocks drift, a clock
\* that is set is right to within half the round trip, which was short enough, if
\* the host did not sleep under the reply.
THEOREM SetCorrect == ClockedSpec => SetIsAccurate
<1>1. ClockedInit => SampleInv
  BY TimesAssumption, LimitsAssumption DEF ClockedInit, ClockInit, SampleInv
<1> QED BY <1>1, SampleStep, SetStep, PTL DEF ClockedSpec, SetIsAccurate

(***************************************************************************)
(* The boot.  Each conjunct is kept by itself or with those before it.     *)
(***************************************************************************)
HostType ==
  /\ pc \in {"configure", "power", "state", "listen", "accept", "connect", "clock", "init",
             "write", "mount", "dhcp", "started", "ready", "failed", "crashed"}
  /\ status \in {"none", "booting", "ready", "stopping", "stopped"}
  /\ notifier \in {"none", "running", "done"}

GuestType ==
  /\ machine \in {"off", "on", "stopped"}
  /\ guest \in {"off", "ports", "api", "dial", "wait", "serve", "dead"}
  /\ guest \in {"off", "dead"} <=> machine # "on"
  /\ guest = "dead" <=> machine = "stopped"

PoweredOff == pc \in {"configure", "power"} => machine = "off"

VsockType ==
  /\ hostPorts \subseteq {1, 2} /\ guestPorts \subseteq {1, 2}
  /\ stream \in {"none", "dialed", "open"} /\ clock \in {"none", "dialed", "open"}

CallsType == calls \in [Methods -> {"none", "sent", "ok", "error"}]

Fields ==
  /\ HostType /\ overwrote \in BOOLEAN
  /\ GuestType /\ PoweredOff /\ setup \subseteq Steps
  /\ VsockType /\ CallsType

\* the machine tells of its start, and of its end in one or two steps
NotifyInv ==
  /\ notify \in Seq(States)
  /\ Len(notify) <= 3
  /\ machine = "on" => Len(notify) <= 1
  /\ machine = "off" => Len(notify) = 0

MountInv == mounted \in 0 .. Mounts /\ (pc = "mount" => mounted < Mounts)

\* the guest dials only after it listens, and so the host connects only to a
\* guest that does
PortsInv ==
  /\ guest \in {"dial", "wait", "serve"} => 1 \in guestPorts
  /\ stream # "none" => guest \in {"wait", "serve", "dead"}
  /\ pc = "connect" => stream # "none"
  /\ calls["init"] = "sent" /\ clock # "open" => 2 \in hostPorts
  /\ clock # "none" => "clock" \in setup

Early == {"configure", "power", "state", "listen", "accept", "connect"}

\* nobody else connects to the guest until it has answered over the first connection
QueueInv ==
  /\ backlog \in Seq({"rpc", "datagram"})
  /\ \A i \in 1 .. Len(backlog) :
       IF backlog[i] = "rpc" THEN served = "none" /\ Len(backlog) = 1 ELSE served = "rpc"

ServedInv ==
  /\ served \in {"none", "rpc"}
  /\ guest \in {"off", "ports", "api", "dial", "wait"} => served = "none"
  /\ guest = "serve" => served = "rpc"
  /\ pc \in Early => backlog = <<>> /\ served = "none"
  /\ pc = "started" => calls["dhcp"] = "ok"
  /\ \A m \in Methods : calls[m] = "ok" => served = "rpc"

BacklogInv == QueueInv /\ ServedInv

\* The types, a group of variables at a time.
LEMMA FieldsStep == Fields /\ [Next]_vars => Fields'
<1> SUFFICES ASSUME Fields, [Next]_vars PROVE Fields'
  OBVIOUS
<1> USE DEF Next, Start, Guest, vars, host_vars, guest_vars, vsock_vars
<1>1. HostType'
  BY DEF Fields, HostType,
     Unless, NextMount, StopShown, Configure, PowerOn, FirstState, ListenEvents, AcceptEvents,
     ConnectAPI, ListenClock, Initialized, Written, Mounted, Addressed, ConnectDatagram, Ready,
     AcceptClock, NotifyState, StreamBreaks, ProxyListen, APIListen, DialHost, AcceptAPI,
     AcceptDatagram, InitStep, Handle, GuestDies
<1>2. overwrote' \in BOOLEAN
  BY DEF Fields,
     Configure, PowerOn, FirstState, ListenEvents, AcceptEvents, ConnectAPI, ListenClock,
     Initialized, Written, Mounted, Addressed, ConnectDatagram, Ready, AcceptClock, NotifyState,
     StreamBreaks, ProxyListen, APIListen, DialHost, AcceptAPI, AcceptDatagram, InitStep,
     Handle, GuestDies
<1>3. GuestType'
  BY DEF Fields, GuestType,
     Dies, GuestAt, Configure, PowerOn, FirstState, ListenEvents, AcceptEvents, ConnectAPI,
     ListenClock, Initialized, Written, Mounted, Addressed, ConnectDatagram, Ready, AcceptClock,
     NotifyState, StreamBreaks, ProxyListen, APIListen, DialHost, AcceptAPI, AcceptDatagram,
     InitStep, Handle, GuestDies
<1>4. PoweredOff'
  BY DEF Fields, GuestType, PoweredOff,
     Unless, NextMount, Dies, GuestAt, Configure, PowerOn, FirstState, ListenEvents,
     AcceptEvents, ConnectAPI, ListenClock, Initialized, Written, Mounted, Addressed,
     ConnectDatagram, Ready, AcceptClock, NotifyState, StreamBreaks, ProxyListen, APIListen,
     DialHost, AcceptAPI, AcceptDatagram, InitStep, Handle, GuestDies
<1>5. setup' \subseteq Steps
  BY DEF Fields,
     Configure, PowerOn, FirstState, ListenEvents, AcceptEvents, ConnectAPI, ListenClock,
     Initialized, Written, Mounted, Addressed, ConnectDatagram, Ready, AcceptClock, NotifyState,
     StreamBreaks, ProxyListen, APIListen, DialHost, AcceptAPI, AcceptDatagram, InitStep,
     Handle, GuestDies
<1>6. VsockType'
  BY DEF Fields, VsockType,
     ClockPorts, APIPorts, Dies, Configure, PowerOn, FirstState, ListenEvents, AcceptEvents,
     ConnectAPI, ListenClock, Initialized, Written, Mounted, Addressed, ConnectDatagram, Ready,
     AcceptClock, NotifyState, StreamBreaks, ProxyListen, APIListen, DialHost, AcceptAPI,
     AcceptDatagram, InitStep, Handle, GuestDies
<1>7. CallsType'
  BY DEF Fields, CallsType, Methods,
     NextMount, Dies, Answer, Configure, PowerOn, FirstState, ListenEvents, AcceptEvents,
     ConnectAPI, ListenClock, Initialized, Written, Mounted, Addressed, ConnectDatagram, Ready,
     AcceptClock, NotifyState, StreamBreaks, ProxyListen, APIListen, DialHost, AcceptAPI,
     AcceptDatagram, InitStep, Handle, GuestDies
<1> QED BY <1>1, <1>2, <1>3, <1>4, <1>5, <1>6, <1>7 DEF Fields

LEMMA NotifyStep == Fields /\ NotifyInv /\ [Next]_vars => NotifyInv'
<1> SUFFICES ASSUME Fields, NotifyInv, [Next]_vars PROVE NotifyInv'
  OBVIOUS
<1>a. ASSUME notify' = notify, machine' = machine PROVE NotifyInv'
  BY <1>a DEF NotifyInv
<1>b. ASSUME notify # <<>>, notify' = Tail(notify), machine' = machine PROVE NotifyInv'
  BY <1>b DEF NotifyInv
<1>c. ASSUME Dies, machine = "on" PROVE NotifyInv'
  <2>1. PICK told \in {notify, Append(notify, "stopping")} : notify' = Append(told, "stopped")
    BY <1>c DEF Dies
  <2>2. notify \in Seq(States) /\ Len(notify) <= 1 /\ machine' = "stopped"
    BY <1>c DEF Dies, NotifyInv
  <2>3. told \in Seq(States) /\ Len(told) <= 2
    BY <2>1, <2>2 DEF States
  <2> QED BY <2>1, <2>2, <2>3 DEF NotifyInv, States
<1>d. ASSUME machine = "off", notify' = Append(notify, "running"), machine' = "on" PROVE NotifyInv'
  <2>1. Len(notify) = 0
    BY <1>d DEF NotifyInv
  <2> QED BY <1>d, <2>1 DEF NotifyInv, States
<1>1. CASE FirstState \/ NotifyState
  BY <1>1, <1>b DEF FirstState, NotifyState
<1>2. CASE PowerOn
  BY <1>2, <1>a, <1>d DEF PowerOn, Fields, PoweredOff
<1>3. CASE GuestDies
  BY <1>3, <1>c DEF GuestDies
<1>4. CASE DialHost
  <2>1. machine = "on"
    BY <1>4 DEF DialHost, Fields, GuestType
  <2> QED BY <1>4, <2>1, <1>a, <1>c DEF DialHost
<1> QED BY <1>1, <1>2, <1>3, <1>4, <1>a
  DEF Next, Start, Guest, vars, Configure, ListenEvents, AcceptEvents, ConnectAPI, ListenClock, Initialized,
      Written, Mounted, Addressed, ConnectDatagram, Ready, AcceptClock, StreamBreaks, ProxyListen, APIListen,
      AcceptAPI, AcceptDatagram, InitStep, Handle

LEMMA MountStep == Fields /\ MountInv /\ [Next]_vars => MountInv'
<1> SUFFICES ASSUME Fields, MountInv, [Next]_vars PROVE MountInv'
  OBVIOUS
<1>a. ASSUME mounted' = mounted, pc' = pc \/ pc' # "mount" PROVE MountInv'
  BY <1>a DEF MountInv
<1>b. ASSUME NEW n \in 0 .. Mounts, NextMount(n) PROVE MountInv'
  <2>1. mounted' = n
    BY <1>b DEF NextMount
  <2>2. n < Mounts \/ pc' = "dhcp"
    BY <1>b DEF NextMount
  <2> QED BY <2>1, <2>2, MountsAssumption DEF MountInv
<1>1. CASE Written
  <2>1. (pc' = "failed" /\ mounted' = mounted) \/ NextMount(0)
    BY <1>1 DEF Written
  <2> QED BY <2>1, <1>a, <1>b, MountsAssumption
<1>2. CASE Mounted
  <2>1. pc = "mount" /\ ((pc' = "failed" /\ mounted' = mounted) \/ NextMount(mounted + 1))
    BY <1>2 DEF Mounted
  <2>2. mounted + 1 \in 0 .. Mounts
    BY <2>1, MountsAssumption DEF MountInv
  <2> QED BY <2>1, <2>2, <1>a, <1>b
<1> QED BY <1>1, <1>2, <1>a
  DEF Next, Start, Guest, vars, host_vars, Unless, Configure, PowerOn, FirstState, ListenEvents, AcceptEvents,
      ConnectAPI, ListenClock, Initialized, Addressed, ConnectDatagram, Ready, AcceptClock, NotifyState,
      StreamBreaks, ProxyListen, APIListen, DialHost, AcceptAPI, AcceptDatagram, InitStep, Handle, GuestDies

LEMMA PortsStep == Fields /\ PortsInv /\ [Next]_vars => PortsInv'
<1> SUFFICES ASSUME Fields, PortsInv, [Next]_vars PROVE PortsInv'
  OBVIOUS
<1> USE DEF Next, Start, Guest, vars, host_vars, guest_vars, vsock_vars
<1>1. guest' \in {"dial", "wait", "serve"} => 1 \in guestPorts'
  <2>1. CASE APIListen
    BY <2>1 DEF APIListen, GuestAt, APIPorts, PortsInv
  <2>2. CASE DialHost
    BY <2>2 DEF DialHost, Dies, PortsInv
  <2>3. CASE GuestDies
    BY <2>3 DEF GuestDies, Dies, PortsInv
  <2> QED BY <2>1, <2>2, <2>3 DEF PortsInv, GuestAt,
       Configure, PowerOn, FirstState, ListenEvents, AcceptEvents,
       ConnectAPI, ListenClock, Initialized, Written, Mounted, Addressed, ConnectDatagram,
       Ready, AcceptClock, NotifyState, StreamBreaks, ProxyListen, AcceptAPI, AcceptDatagram,
       InitStep, Handle
<1>2. stream' # "none" => guest' \in {"wait", "serve", "dead"}
  <2>1. CASE PowerOn
    BY <2>1 DEF PowerOn, PortsInv, Fields, GuestType, PoweredOff
  <2>2. CASE AcceptEvents
    BY <2>2 DEF AcceptEvents, PortsInv
  <2>3. CASE ProxyListen
    BY <2>3 DEF ProxyListen, GuestAt, PortsInv
  <2>4. CASE APIListen
    BY <2>4 DEF APIListen, GuestAt, APIPorts, PortsInv
  <2>5. CASE DialHost
    BY <2>5 DEF DialHost, Dies, PortsInv
  <2>6. CASE AcceptAPI
    BY <2>6 DEF AcceptAPI, GuestAt, PortsInv
  <2>7. CASE GuestDies
    BY <2>7 DEF GuestDies, Dies, PortsInv
  <2> QED BY <2>1, <2>2, <2>3, <2>4, <2>5, <2>6, <2>7 DEF PortsInv,
       Configure, FirstState, ListenEvents, ConnectAPI, ListenClock,
       Initialized, Written, Mounted, Addressed, ConnectDatagram, Ready, AcceptClock,
       NotifyState, StreamBreaks, AcceptDatagram, InitStep, Handle
<1>3. pc' = "connect" => stream' # "none"
  BY DEF PortsInv, Fields, VsockType,
     Unless, NextMount, Configure, PowerOn, FirstState, ListenEvents, AcceptEvents, ConnectAPI,
     ListenClock, Initialized, Written, Mounted, Addressed, ConnectDatagram, Ready, AcceptClock,
     NotifyState, StreamBreaks, ProxyListen, APIListen, DialHost, AcceptAPI, AcceptDatagram,
     InitStep, Handle, GuestDies
<1>4. calls'["init"] = "sent" /\ clock' # "open" => 2 \in hostPorts'
  BY DEF PortsInv, Fields, CallsType, VsockType, Methods,
     ClockPorts, NextMount, Answer, Dies, Configure, PowerOn, FirstState, ListenEvents,
     AcceptEvents, ConnectAPI, ListenClock, Initialized, Written, Mounted, Addressed,
     ConnectDatagram, Ready, AcceptClock, NotifyState, StreamBreaks, ProxyListen, APIListen,
     DialHost, AcceptAPI, AcceptDatagram, InitStep, Handle, GuestDies
<1>5. clock' # "none" => "clock" \in setup'
  BY DEF PortsInv, Fields, VsockType,
     Configure, PowerOn, FirstState, ListenEvents, AcceptEvents, ConnectAPI, ListenClock,
     Initialized, Written, Mounted, Addressed, ConnectDatagram, Ready, AcceptClock, NotifyState,
     StreamBreaks, ProxyListen, APIListen, DialHost, AcceptAPI, AcceptDatagram, InitStep,
     Handle, GuestDies
<1> QED BY <1>1, <1>2, <1>3, <1>4, <1>5 DEF PortsInv

LEMMA BacklogStep == Fields /\ BacklogInv /\ [Next]_vars => BacklogInv'
<1> SUFFICES ASSUME Fields, BacklogInv, [Next]_vars PROVE BacklogInv'
  OBVIOUS
<1> USE DEF host_vars, guest_vars, vsock_vars
<1> USE DEF Methods, Early
\* what does not touch the queue keeps the rest by the places of host and guest
<1>a. ASSUME UNCHANGED <<backlog, served>>,
             guest' \in {guest, "dead"} \/ (guest' # "serve" /\ guest \notin {"dead", "serve"}),
             pc' \in Early => pc \in Early,
             pc' = "started" => calls'["dhcp"] = "ok",
             \A m \in Methods : calls'[m] = "ok" => calls[m] = "ok" \/ served = "rpc"
      PROVE  BacklogInv'
  <2>1. guest' \in {"off", "ports", "api", "dial", "wait"} => served' = "none"
    BY <1>a DEF BacklogInv, ServedInv, Fields, GuestType
  <2>2. guest' = "serve" => served' = "rpc"
    BY <1>a DEF BacklogInv, ServedInv
  <2>3. pc' \in Early => backlog' = <<>> /\ served' = "none"
    BY <1>a DEF BacklogInv, ServedInv
  <2>4. \A m \in Methods : calls'[m] = "ok" => served' = "rpc"
    BY <1>a DEF BacklogInv, ServedInv
  <2>5. QueueInv'
    BY <1>a DEF BacklogInv, QueueInv
  <2> QED BY <1>a, <2>1, <2>2, <2>3, <2>4, <2>5 DEF BacklogInv, ServedInv
<1>1. CASE Configure
  BY <1>1, <1>a DEF Configure, Unless, BacklogInv, ServedInv
<1>2. CASE PowerOn
  BY <1>2, <1>a DEF PowerOn, BacklogInv, ServedInv, Fields, GuestType, PoweredOff
<1>3. CASE FirstState
  BY <1>3, <1>a DEF FirstState, Unless, BacklogInv, ServedInv
<1>4. CASE ListenEvents
  BY <1>4, <1>a DEF ListenEvents, BacklogInv, ServedInv
<1>5. CASE AcceptEvents
  BY <1>5, <1>a DEF AcceptEvents, BacklogInv, ServedInv
<1>6. CASE ConnectAPI
  <2>1. /\ backlog = <<>> /\ served = "none" /\ pc = "connect" /\ UNCHANGED <<served, guest, calls>>
        /\ backlog' \in {backlog, Append(backlog, "rpc")} /\ pc' \in {"clock", "failed"}
    BY <1>6 DEF ConnectAPI, Unless, Reach, BacklogInv, ServedInv
  <2>2. QueueInv'
    <3>1. \A i \in 1 .. Len(backlog') : backlog'[i] = "rpc" /\ Len(backlog') = 1
      <4>1. CASE backlog' = <<>>
        BY <4>1
      <4>2. CASE backlog' = Append(<<>>, "rpc")
        <5>1. Len(backlog') = 1 /\ backlog'[1] = "rpc"
          BY <4>2
        <5> QED BY <5>1
      <4> QED BY <2>1, <4>1, <4>2
    <3>2. backlog' \in Seq({"rpc", "datagram"})
      <4>1. backlog \in Seq({"rpc", "datagram"})
        BY DEF BacklogInv, QueueInv
      <4>2. Append(backlog, "rpc") \in Seq({"rpc", "datagram"})
        BY <4>1
      <4>3. backlog' = backlog \/ backlog' = Append(backlog, "rpc")
        BY <2>1
      <4> QED BY <4>1, <4>2, <4>3
    <3> QED BY <2>1, <3>1, <3>2 DEF QueueInv
  <2> QED BY <2>1, <2>2 DEF BacklogInv, ServedInv
<1>7. CASE ListenClock
  <2>1. \A m \in Methods : calls'[m] = "ok" => calls[m] = "ok"
    BY <1>7 DEF ListenClock, Fields, CallsType
  <2>2. UNCHANGED <<backlog, served, guest>> /\ pc' \in {"init", "failed"}
    BY <1>7 DEF ListenClock
  <2> QED BY <1>a, <2>1, <2>2
<1>8. CASE Initialized
  BY <1>8, <1>a DEF Initialized, Unless, Answered, BacklogInv, ServedInv
<1>9. CASE Written
  BY <1>9, <1>a DEF Written, NextMount, Answered, BacklogInv, ServedInv
<1>10. CASE Mounted
  BY <1>10, <1>a DEF Mounted, NextMount, Answered, BacklogInv, ServedInv
<1>11. CASE Addressed
  BY <1>11, <1>a DEF Addressed, Unless, Answered, BacklogInv, ServedInv
<1>12. CASE ConnectDatagram
  <2>1. /\ backlog = <<>> /\ served = "rpc" /\ pc = "started" /\ UNCHANGED <<served, guest, calls>>
        /\ backlog' \in {backlog, Append(backlog, "datagram")} /\ pc' \in {"started", "failed"}
    BY <1>12 DEF ConnectDatagram, Unless, Reach, BacklogInv, ServedInv
  <2>2. QueueInv'
    <3>1. \A i \in 1 .. Len(backlog') : backlog'[i] = "datagram" /\ Len(backlog') = 1
      <4>1. CASE backlog' = <<>>
        BY <4>1
      <4>2. CASE backlog' = Append(<<>>, "datagram")
        <5>1. Len(backlog') = 1 /\ backlog'[1] = "datagram"
          BY <4>2
        <5> QED BY <5>1
      <4> QED BY <2>1, <4>1, <4>2
    <3>2. backlog' \in Seq({"rpc", "datagram"})
      <4>1. backlog \in Seq({"rpc", "datagram"})
        BY DEF BacklogInv, QueueInv
      <4>2. Append(backlog, "datagram") \in Seq({"rpc", "datagram"})
        BY <4>1
      <4>3. backlog' = backlog \/ backlog' = Append(backlog, "datagram")
        BY <2>1
      <4> QED BY <4>1, <4>2, <4>3
    <3> QED BY <2>1, <3>1, <3>2 DEF QueueInv
  <2> QED BY <2>1, <2>2 DEF BacklogInv, ServedInv
<1>13. CASE Ready
  BY <1>13, <1>a DEF Ready, BacklogInv, ServedInv
<1>14. CASE AcceptClock
  BY <1>14, <1>a DEF AcceptClock, BacklogInv, ServedInv
<1>15. CASE NotifyState
  BY <1>15, <1>a DEF NotifyState, StopShown, BacklogInv, ServedInv
<1>16. CASE StreamBreaks
  BY <1>16, <1>a DEF StreamBreaks, BacklogInv, ServedInv
<1>17. CASE ProxyListen
  BY <1>17, <1>a DEF ProxyListen, GuestAt, BacklogInv, ServedInv
<1>18. CASE APIListen
  BY <1>18, <1>a DEF APIListen, GuestAt, APIPorts, BacklogInv, ServedInv
<1>19. CASE DialHost
  BY <1>19, <1>a DEF DialHost, Dies, BacklogInv, ServedInv
<1>20. CASE AcceptAPI
  <2>1. /\ guest = "wait" /\ guest' = "serve" /\ served = "none" /\ backlog # <<>>
        /\ served' = Head(backlog) /\ backlog' = Tail(backlog) /\ UNCHANGED <<pc, calls>>
    BY <1>20 DEF AcceptAPI, GuestAt, BacklogInv, ServedInv
  <2>2. Len(backlog) = 1 /\ Head(backlog) = "rpc"
    BY <2>1 DEF BacklogInv, QueueInv
  <2>3. backlog' = <<>> /\ Len(backlog') = 0
    BY <2>1, <2>2 DEF BacklogInv, QueueInv
  <2>4. QueueInv'
    BY <2>3 DEF QueueInv
  <2> QED BY <2>1, <2>2, <2>3, <2>4 DEF BacklogInv, ServedInv
<1>21. CASE AcceptDatagram
  <2>1. /\ guest = "serve" /\ served = "rpc" /\ backlog # <<>>
        /\ backlog' = Tail(backlog) /\ UNCHANGED <<pc, calls, served, guest>>
    BY <1>21 DEF AcceptDatagram, BacklogInv, ServedInv
  <2>2. /\ backlog' \in Seq({"rpc", "datagram"}) /\ Len(backlog') = Len(backlog) - 1
        /\ \A i \in 1 .. Len(backlog') : i + 1 \in 1 .. Len(backlog) /\ backlog'[i] = backlog[i + 1]
    BY <2>1 DEF BacklogInv, QueueInv
  <2>3. QueueInv'
    BY <2>1, <2>2 DEF BacklogInv, QueueInv
  <2> QED BY <2>1, <2>3 DEF BacklogInv, ServedInv
<1>22. ASSUME NEW s \in Steps, InitStep(s) PROVE BacklogInv'
  <2>1. served = "rpc" /\ UNCHANGED <<backlog, served, guest, pc>>
    BY <1>22 DEF InitStep, Serves
  <2>2. calls'["dhcp"] = calls["dhcp"]
    BY <1>22 DEF InitStep, Answer, Fields, CallsType
  <2> QED BY <1>a, <2>1, <2>2 DEF BacklogInv, ServedInv
<1>23. ASSUME NEW m \in Methods, Handle(m) PROVE BacklogInv'
  BY <1>23, <1>a DEF Handle, Serves, Answer, BacklogInv, ServedInv
<1>24. CASE GuestDies
  BY <1>24, <1>a DEF GuestDies, Dies, BacklogInv, ServedInv
<1>25. CASE UNCHANGED vars
  BY <1>25, <1>a DEF vars, BacklogInv, ServedInv
<1> QED BY <1>1, <1>2, <1>3, <1>4, <1>5, <1>6, <1>7, <1>8, <1>9, <1>10, <1>11, <1>12, <1>13,
          <1>14, <1>15, <1>16, <1>17, <1>18, <1>19, <1>20, <1>21, <1>22, <1>23, <1>24, <1>25
       DEF Next, Start, Guest

\* The clock's own variables keep their types.
LEMMA ClockTypeStep == ClockTypeOK /\ SampleInv /\ SampleInv' /\ [ClockedNext]_clocked_vars => ClockTypeOK'
<1> SUFFICES ASSUME ClockTypeOK, SampleInv, SampleInv', [ClockedNext]_clocked_vars PROVE ClockTypeOK'
  OBVIOUS
<1>1. loop' \in {"off", "sync", "asked", "served", "wait", "failed"}
  BY DEF ClockTypeOK, ClockedNext, Boots, Syncing, Sleeping, StartSync, Ask, Interval,
     HostClock, HostSleeps, Reply,
     Adjust, SetTime, clock_vars, clocked_vars
<1>2. first' \in BOOLEAN /\ overtaken' \in BOOLEAN
  BY ZenonT(60) DEF ClockTypeOK, ClockedNext, Boots, Syncing, Sleeping, StartSync, Ask, Interval,
     HostClock, HostSleeps, Reply,
     Adjust, SetTime, clock_vars, sample_vars, clocked_vars
<1>3. naps' \in 0 .. MaxNaps
  BY MaxNapsAssumption DEF ClockTypeOK, ClockedNext, Boots, Syncing, Sleeping, StartSync, Ask, Interval,
     HostClock, HostSleeps, Reply,
     clock_vars, clocked_vars
<1> QED BY <1>1, <1>2, <1>3 DEF ClockTypeOK, SampleInv

BootIInv == Fields /\ NotifyInv /\ MountInv /\ PortsInv /\ BacklogInv

\* The boot and its clock are well typed; a host that connects to the guest finds it
\* listening, and the guest to its host; and the API is served on the one connection that
\* the host calls it on, however the steps of both interleave and whenever either dies.
THEOREM BootCorrect == ClockedSpec => []BootInv
<1>1. Init => BootIInv
  <2> SUFFICES ASSUME Init PROVE BootIInv
    OBVIOUS
  <2>1. Fields
    BY DEF Init, Fields, HostType, GuestType, PoweredOff, VsockType, CallsType
  <2>2. NotifyInv
    BY DEF Init, NotifyInv
  <2>3. MountInv
    BY MountsAssumption DEF Init, MountInv
  <2>4. PortsInv
    BY DEF Init, PortsInv, Methods
  <2>5. QueueInv
    BY DEF Init, QueueInv
  <2>6. ServedInv
    BY DEF Init, ServedInv, Methods
  <2> QED BY <2>1, <2>2, <2>3, <2>4, <2>5, <2>6 DEF BootIInv, BacklogInv
<1>2. ClockedInit => ClockTypeOK /\ SampleInv
  <2> SUFFICES ASSUME ClockedInit PROVE ClockTypeOK /\ SampleInv
    OBVIOUS
  <2>1. SampleInv
    BY TimesAssumption, LimitsAssumption DEF ClockedInit, ClockInit, SampleInv
  <2>2. first \in BOOLEAN /\ overtaken \in BOOLEAN
    BY Zenon DEF ClockedInit, ClockInit
  <2>3. loop = "off" /\ naps \in 0 .. MaxNaps
    BY MaxNapsAssumption DEF ClockedInit, ClockInit
  <2> QED BY <2>1, <2>2, <2>3 DEF ClockTypeOK, SampleInv
<1>3. [ClockedNext]_clocked_vars => [Next]_vars
  BY DEF ClockedNext, Boots, Syncing, Sleeping, clocked_vars
<1>4. BootIInv /\ [Next]_vars => BootIInv'
  BY FieldsStep, NotifyStep, MountStep, PortsStep, BacklogStep DEF BootIInv
<1>5. BootIInv => TypeOK
  <2> SUFFICES ASSUME BootIInv PROVE TypeOK
    OBVIOUS
  <2>1. /\ notify \in Seq(States) /\ Len(notify) <= 3
        /\ backlog \in Seq({"rpc", "datagram"}) /\ mounted \in 0 .. Mounts
    BY DEF BootIInv, NotifyInv, BacklogInv, QueueInv, MountInv
  <2>2. served \in {"none", "rpc", "datagram"}
    BY DEF BootIInv, BacklogInv, ServedInv
  <2>3. overwrote \in BOOLEAN /\ setup \subseteq Steps
    BY DEF BootIInv, Fields
  <2>4. /\ pc \in {"configure", "power", "state", "listen", "accept", "connect", "clock", "init",
                   "write", "mount", "dhcp", "started"} \union Ended
        /\ status \in {"none", "booting", "ready", "stopping", "stopped"}
        /\ notifier \in {"none", "running", "done"}
    BY DEF BootIInv, Fields, HostType, Ended
  <2>5. GuestType /\ VsockType /\ CallsType
    BY DEF BootIInv, Fields
  <2> QED BY <2>1, <2>2, <2>3, <2>4, <2>5 DEF TypeOK, GuestType, VsockType, CallsType
<1>6. BootIInv => PortsReady
  <2> SUFFICES ASSUME BootIInv PROVE PortsReady
    OBVIOUS
  <2>1. pc = "connect" /\ machine = "on" => guest \in {"wait", "serve"}
    BY DEF BootIInv, Fields, GuestType, PortsInv
  <2>2. calls["init"] = "sent" /\ "clock" \notin setup => 2 \in hostPorts
    BY DEF BootIInv, PortsInv
  <2> QED BY <2>1, <2>2 DEF BootIInv, PortsInv, PortsReady
<1>7. BootIInv => APIOnRightConn
  BY DEF BootIInv, BacklogInv, QueueInv, ServedInv, APIOnRightConn
<1>8. BootIInv /\ ClockTypeOK => BootInv
  BY <1>5, <1>6, <1>7 DEF BootInv
<1> QED BY <1>1, <1>2, <1>3, <1>4, <1>8, SampleStep, ClockTypeStep, PTL DEF ClockedSpec, ClockedInit
=============================================================================
