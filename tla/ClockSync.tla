------------------------------ MODULE ClockSync ------------------------------
(***************************************************************************)
(* The guest's clock: GuestClock and syncClock ask HostClock for the time  *)
(* (internal/rpc/time.go) and have timesync.adjtime set or slew the clock  *)
(* of the guest (internal/guest/time_linux.go).  It runs beside the rest   *)
(* of the boot (VMBoot), in which Init dials the connection to port 2.     *)
(*                                                                         *)
(* Time is counted in units of the model.  Of the two clocks only their    *)
(* difference is a variable; within a round trip it changes only when the  *)
(* host sleeps, which the guest, suspended with it, cannot see: what it    *)
(* drifts and is slewed in the meantime is counted at the next round.      *)
(* There is one request at a time, so that its id is always the expected.  *)
(***************************************************************************)
EXTENDS VMBoot, Integers

CONSTANTS Tolerance,   \* an offset that is let be: 0.5 ms
          FirstLimit,  \* the first maxLatency: 5 ms
          StepFrom,    \* an offset the clock is set by: 500 ms
          Second,      \* 1 s
          Delays,      \* of a message on its way
          Offsets,     \* the guest's clock less the host's, at boot
          Drifts,      \* of the guest's clock between two samples
          Naps,        \* how long the host may sleep
          MaxNaps      \* bound: times it does

ASSUME LimitsAssumption == Tolerance \in Nat /\ FirstLimit \in Nat /\ StepFrom \in Nat
ASSUME SecondAssumption == Second \in Nat \ {0}
ASSUME TimesAssumption == Delays \subseteq Nat /\ Offsets \subseteq Int
                          /\ Drifts \subseteq Int /\ Naps \subseteq Nat
ASSUME MaxNapsAssumption == MaxNaps \in Nat

VARIABLES
  loop,      \* where GuestClock is
  offset,    \* the guest's clock less the host's
  first,     \* timesync.first
  limit,     \* maxLatency
  there,     \* how long the request took
  ahead,     \* the time in the reply less the guest's at the start
  overtaken, \* the host has slept since it read the time
  slew,      \* what the kernel has still to slew
  naps       \* times the host slept

sample_vars == <<there, ahead, overtaken>>
clock_vars == <<loop, offset, first, limit, sample_vars, slew, naps>>
clocked_vars == <<vars, clock_vars>>


ClockTypeOK ==
  /\ loop \in {"off", "sync", "asked", "served", "wait", "failed"}
  /\ offset \in Int /\ first \in BOOLEAN /\ limit \in Nat
  /\ there \in Nat /\ ahead \in Int /\ overtaken \in BOOLEAN
  /\ slew \in Int /\ naps \in 0 .. MaxNaps

ClockInit ==
  /\ loop = "off" /\ offset \in Offsets /\ first = TRUE /\ limit = FirstLimit
  /\ there = 0 /\ ahead = 0 /\ overtaken = FALSE /\ slew = 0 /\ naps = 0

Abs(n) == IF n < 0 THEN -n ELSE n

\* StartClockSync has dialed
StartSync ==
  /\ loop = "off" /\ clock # "none" /\ loop' = "sync"
  /\ UNCHANGED <<offset, first, limit, sample_vars, slew, naps>>

(***************************************************************************)
(* syncClock.  The connection lasts as long as the guest: GuestClock never *)
(* sees an error of it.                                                    *)
(***************************************************************************)
Ask ==
  /\ loop = "sync"
  /\ loop' = "asked"
  /\ UNCHANGED <<offset, first, limit, sample_vars, slew, naps>>

\* HostClock reads the time when the request has arrived
HostClock(d) ==
  /\ loop = "asked" /\ clock = "open" /\ loop' = "served"
  /\ there' = d /\ ahead' = d - offset /\ overtaken' = FALSE
  /\ UNCHANGED <<offset, first, limit, slew, naps>>

(***************************************************************************)
(* timesync.adjtime.                                                       *)
(***************************************************************************)
\* Duration.Truncate: towards zero
Seconds(t) == IF t < 0 THEN -((-t) \div Second) ELSE t \div Second
Rest(t) == t - Seconds(t) * Second

\* the kernel takes no negative fraction
Timex(t) ==
  IF Rest(t) < 0 THEN [sec |-> Seconds(t) - 1, usec |-> Rest(t) + Second]
  ELSE [sec |-> Seconds(t), usec |-> Rest(t)]

SetTime(t) ==
  LET x == Timex(t) IN
  IF x.usec \in 0 .. Second - 1
  THEN /\ offset' = offset + (x.sec * Second + x.usec)
       /\ loop' = "wait"
  ELSE loop' = "failed" /\ UNCHANGED offset

Jumps(t) == first \/ Abs(t) >= StepFrom

Adjust(t) ==
  /\ first' = FALSE
  /\ IF Jumps(t)
     THEN SetTime(t) /\ UNCHANGED slew
     ELSE slew' = t /\ loop' = "wait" /\ UNCHANGED offset

Latency(d) == (there + d) \div 2

Uncorrected(d) == ahead
\* start.Add(latency) is when the host should have read its clock
AheadOf(d) == ahead - Latency(d)

\* the limit returned with a sample that took too long
KeepLimit(latency) == limit
NextLimit(latency) == 2 * latency

\* the reply has come
Reply(d) ==
  /\ loop = "served"
  /\ LET t == AheadOf(d) IN
     IF Latency(d) > limit
     THEN /\ limit' = NextLimit(Latency(d))
          /\ loop' = "wait" /\ UNCHANGED <<offset, first, slew>>
     ELSE /\ limit' = 2 * Latency(d)
          /\ IF Abs(t) > Tolerance THEN Adjust(t)
             ELSE loop' = "wait" /\ UNCHANGED <<offset, first, slew>>
  /\ there' = 0 /\ ahead' = 0 /\ overtaken' = FALSE
  /\ UNCHANGED naps

\* Between two samples the guest's clock drifts, and the kernel has slewed it by
\* what it was told, or has not come to it.
Interval ==
  /\ loop = "wait" /\ loop' = "sync"
  /\ \E drift \in Drifts, part \in {0, slew} : offset' = offset + drift + part
  /\ slew' = 0
  /\ UNCHANGED <<first, limit, sample_vars, naps>>

\* the guest is suspended with the host and does not see the time pass
HostSleeps(n) ==
  /\ naps < MaxNaps /\ naps' = naps + 1
  /\ offset' = offset - n
  /\ overtaken' = (loop = "served")
  /\ UNCHANGED <<loop, first, limit, there, ahead, slew>>

\* the guest runs, and the daemon that answers it
BothRun == pc \notin {"failed", "crashed"} /\ machine # "stopped"

Syncing == BothRun /\ UNCHANGED vars
           /\ (StartSync \/ Ask \/ Interval \/ \E d \in Delays : HostClock(d) \/ Reply(d))
Sleeping == BothRun /\ UNCHANGED vars /\ \E n \in Naps : HostSleeps(n)

Boots == Next /\ UNCHANGED clock_vars

ClockedInit == Init /\ ClockInit
ClockedNext == Boots \/ Syncing \/ Sleeping

\* VMBoot's fairness, and that of the goroutine of the clock
ClockedSpec ==
  /\ ClockedInit /\ [][ClockedNext]_clocked_vars
  /\ WF_clocked_vars(Start /\ UNCHANGED clock_vars)
  /\ WF_clocked_vars(Ready /\ UNCHANGED clock_vars)
  /\ WF_clocked_vars(NotifyState /\ UNCHANGED clock_vars)
  /\ WF_clocked_vars(AcceptClock /\ UNCHANGED clock_vars)
  /\ WF_clocked_vars(Guest /\ UNCHANGED clock_vars)
  /\ WF_clocked_vars(Syncing)

(***************************************************************************)
(* Properties.                                                             *)
(***************************************************************************)
\* The boot is well typed with its clock, and its ports are served in time and
\* in the right order, see VMBoot.
BootInv == TypeOK /\ ClockTypeOK /\ PortsReady /\ APIOnRightConn

\* When the clock of the guest is set, it is off by at most the latency of the
\* sample, rounded up, however the delay was shared out between the request and
\* the reply, and that was at most what was allowed. The one exception is a host
\* that slept while its reply was on the way.
SetIsAccurate ==
  [][loop = "served" /\ offset' # offset /\ loop' = "wait" /\ ~overtaken
       => 2 * Abs(offset') <= limit' + 2 /\ limit' <= 2 * limit]_clocked_vars

\* The clock does not stay far off, be it from boot or because the host slept:
\* however late the replies are, they are not refused for ever.
Far == \A d \in Delays : Abs(offset) > StepFrom + d + 1

ClockRecovers == Far /\ loop # "off" ~> ~Far \/ ~BothRun
=============================================================================
