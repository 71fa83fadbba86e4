------------------------------ MODULE StatusFeed ------------------------------
(***************************************************************************)
(* What the daemon tells its clients, on the event bus.                    *)
(*                                                                         *)
(* VirtualMachine.UpdateStatus (internal/host/vm_darwin.go): RunDaemon, the*)
(* goroutine of the VM's state channel and Shutdown change the status and  *)
(* emit it, under vm.mutex, which is held while Emit takes the mutex of the*)
(* bus.  metricsLoop stores the guest's metrics under vm.mutex and emits   *)
(* them after it has released it.  handleEvents (api_darwin.go) gives a    *)
(* client of the control socket a Sync with the current metrics and, what- *)
(* ever the status is, the status ready; then it taps the bus and passes on*)
(* what the tap receives.                                                  *)
(***************************************************************************)
EXTENDS EventBus

CONSTANTS Statuses,
          Loop,        \* the goroutine of metricsLoop
          MaxUpdates,  \* bound: changes of the status
          MaxMetrics   \* bound: metrics the guest answers with

ASSUME LoopAssumption == Loop \in Goroutines /\ MaxUpdates \in Nat /\ MaxMetrics \in Nat

VARIABLES
  updates,  \* changes of the status so far
  status,   \* vm.status, not set at first
  metrics,  \* vm.metrics, which answer of the guest it is
  mutex,    \* the goroutines that hold vm.mutex
  want,     \* the event each goroutine will emit
  sync,     \* by tap: the Sync of its client
  base      \* for each channel: the status when it was registered, and whether
            \* a value was dropped since

vm_vars == <<updates, status, metrics, mutex, want, sync, base>>
vars == <<bus_vars, vm_vars>>

NoStatus == "unset"
NoEvent == <<"none", 0>>
Ready == "ready"
NoSync == [status |-> NoStatus, metrics |-> 0]

Init ==
  /\ BusInit
  /\ status = NoStatus /\ updates = 0 /\ metrics = 0 /\ mutex = {}
  /\ want = [g \in Goroutines |-> NoEvent]
  /\ sync = [c \in Taps |-> NoSync]
  /\ base = [c \in Chans |-> [status |-> NoStatus, lost |-> FALSE]]

HeldBriefly(g) == {}
Held(g) == {g}

\* the status is set under vm.mutex; setting the same one again does nothing
UpdateStatus(g, s) ==
  /\ updates < MaxUpdates /\ g # Loop
  /\ mutex = {} /\ want[g] = NoEvent /\ s # status
  /\ updates' = updates + 1 /\ status' = s
  /\ want' = [want EXCEPT ![g] = <<"status", s>>]
  /\ mutex' = Held(g)
  /\ UNCHANGED <<bus_vars, metrics, sync, base>>

\* the guest has answered the call of metricsLoop
StoreMetrics ==
  /\ metrics < MaxMetrics /\ mutex = {} /\ want[Loop] = NoEvent
  /\ metrics' = metrics + 1
  /\ want' = [want EXCEPT ![Loop] = <<"metrics", metrics'>>]
  /\ UNCHANGED <<bus_vars, updates, status, mutex, sync, base>>

Emit(g) ==
  /\ want[g] # NoEvent /\ EmitBegin(g, want[g][1], want[g])
  /\ UNCHANGED vm_vars

\* Emit has returned; in UpdateStatus the deferred Unlock follows
Unlock(g) ==
  /\ EmitEnd(g)
  /\ want' = [want EXCEPT ![g] = NoEvent]
  /\ mutex' = mutex \ {g}
  /\ UNCHANGED <<updates, status, metrics, sync, base>>

Deliver(g) ==
  /\ EmitSend(g)
  /\ base' = [c \in Chans |->
                IF c \in emit[g].todo \ emit'[g].todo /\ seen'[c] = seen[c]
                THEN [status |-> base[c].status, lost |-> TRUE] ELSE base[c]]
  /\ UNCHANGED <<updates, status, metrics, mutex, want, sync>>

AnyTime(c) == TRUE
\* the tap of handleEvents follows its Sync
Synced(c) == c \in Taps => sync[c] # NoSync

Register(c) ==
  /\ Synced(c)
  /\ Subscribe(c)
  /\ base' = [base EXCEPT ![c] = [status |-> status, lost |-> FALSE]]
  /\ UNCHANGED <<updates, status, metrics, mutex, want, sync>>

\* handleEvents writes the Sync; Metrics takes vm.mutex shared, and the status is
\* not read
WriteSync(c) ==
  /\ c \in Taps /\ sync[c] = NoSync /\ mutex = {}
  /\ sync' = [sync EXCEPT ![c] = [status |-> Ready, metrics |-> metrics]]
  /\ UNCHANGED <<bus_vars, updates, status, metrics, mutex, want, base>>

Next ==
  \/ \E g \in Goroutines : Emit(g) \/ Deliver(g) \/ Unlock(g) \/ \E s \in Statuses : UpdateStatus(g, s)
  \/ StoreMetrics
  \/ \E c \in Chans : Register(c) \/ WriteSync(c)
  \/ /\ \E c \in Chans : Unsubscribe(c) \/ Receive(c) \/ UnsubscribeClosed(c)
     /\ UNCHANGED vm_vars
  \/ (Cancel \/ CloseAll) /\ UNCHANGED vm_vars

Spec == Init /\ [][Next]_vars

(***************************************************************************)
(* Properties.                                                             *)
(***************************************************************************)
\* The types of the bus and of the machine's fields, with vm.mutex held by
\* exactly the goroutine that has set a status it has yet to emit.
TypeOK ==
  /\ BusTypeOK
  /\ status \in Statuses \union {NoStatus} /\ updates \in 0 .. MaxUpdates /\ metrics \in 0 .. MaxMetrics
  /\ mutex \subseteq Goroutines \ {Loop} /\ Cardinality(mutex) <= 1
  /\ \A g \in Goroutines \ {Loop} : g \in mutex <=> want[g] # NoEvent
  /\ sync \in [Taps -> [status : {Ready, NoStatus}, metrics : 0 .. MaxMetrics]]

Following(c) == c \in Registered \ closed /\ ~base[c].lost
Hears(c, type) == c \in Taps \/ Typed[c] = type
\* where the events of a type are in a sequence of events
Places(type, s) == {i \in DOMAIN s : s[i][1] = type}
Status(s) == Places("status", s)

\* c took v as its last status
TookLast(c, v) == \A i \in Status(seen[c]) : (\A j \in Status(seen[c]) : j <= i) => seen[c][i][2] = v

\* c took v as its last status, or registered under it and took none since
LastTold(c, v) == (Status(seen[c]) = {} => base[c].status = v) /\ TookLast(c, v)

\* a client of the control socket has v from its Sync, or from its tap since
Shows(c, v) == (Status(seen[c]) = {} => sync[c].status = v) /\ TookLast(c, v)

\* the client joined under a status that its Sync withheld, and nothing changed since
Misled(c) == status # Ready /\ base[c].status = status /\ Status(seen[c]) = {}

NoRepeat(s) ==
  \A i, j \in Status(s) : i < j /\ (\A k \in Status(s) : k <= i \/ k >= j) => s[i] # s[j]

\* A subscriber that keeps up misses no change. When nobody is changing the status,
\* the last one its channel took is the status, and without any the status is the
\* one it registered under, in whatever order the goroutines came; and no status
\* comes twice in a row. What a client of the control socket shows is therefore the
\* status, but for one case, which the first change ends: it joined under a status
\* other than the one every Sync gives.
FeedIsCurrent ==
  \A c \in Chans : Following(c) /\ Hears(c, "status") =>
    /\ mutex = {} => LastTold(c, status)
    /\ mutex = {} /\ c \in Taps => Shows(c, status) \/ Misled(c)
    /\ NoRepeat(seen[c])

\* What a client of the control socket reads about the metrics never goes
\* back: no event it gets is older than its Sync, which was read before the
\* tap, nor older than the events before it.
MetricsGoForward ==
  \A c \in Taps : sync[c] # NoSync =>
    \A i \in Places("metrics", seen[c]) :
      /\ seen[c][i][2] >= sync[c].metrics
      /\ \A j \in Places("metrics", seen[c]) : i < j => seen[c][i][2] <= seen[c][j][2]

\* The feed and its bus are well typed, and no Emit is held up by a subscriber
\* that does not read, whatever the goroutines that call it hold.
FeedInv == TypeOK /\ EmitNeverWaits
=============================================================================
