--------------------------- MODULE StatusFeedProofs ---------------------------
(***************************************************************************)
(* Proofs about the event bus as StatusFeed uses it, for any goroutines,   *)
(* subscribers and capacity of their channels.                             *)
(***************************************************************************)
EXTENDS StatusFeed, FiniteSetTheorems, SequenceTheorems, TLAPS

(***************************************************************************)
(* Emit serves registered channels only: none is removed under it, because *)
(* it holds the mutex of the bus.                                          *)
(***************************************************************************)
ServesRegistered ==
  \A g \in Emitting : /\ emit[g].todo \subseteq Registered
                      /\ emit[g] = [event |-> emit[g].event, todo |-> emit[g].todo]

BusInv == DOMAIN seen = Chans /\ ServesRegistered

\* One channel of a kind is added to or taken from the table, which takes the others
\* as they are.
LEMMA Adding == ASSUME NEW c, Subscribe(c) 
  PROVE  Registered \subseteq Registered' /\ Registered' \subseteq Registered \union {c} /\ NoEmit
<1>1. CASE c \in Taps
  BY <1>1 DEF Subscribe, Registered
<1>2. CASE c \notin Taps
  <2>1. /\ taps' = taps
        /\ listeners' = [x \in DOMAIN listeners \union {Typed[c]} |->
                           IF x = Typed[c] THEN Listening(Typed[c]) \union {c} ELSE listeners[x]]
    BY <1>2 DEF Subscribe
  <2>2. \A t \in DOMAIN listeners : t \in DOMAIN listeners' /\ listeners[t] \subseteq listeners'[t]
    BY <2>1 DEF Listening
  <2>3. ASSUME NEW d \in Registered', d # c PROVE d \in Registered
    <3>1. CASE d \in taps
      BY <3>1 DEF Registered
    <3>2. CASE d \notin taps
      <4>1. PICK t \in DOMAIN listeners' : d \in listeners'[t]
        BY <2>1, <2>3, <3>2 DEF Registered
      <4>2. t \in DOMAIN listeners /\ d \in listeners[t]
        BY <2>1, <2>3, <4>1 DEF Listening
      <4> QED BY <4>2 DEF Registered
    <3> QED BY <3>1, <3>2
  <2>4. Registered \subseteq Registered'
    BY <2>1, <2>2 DEF Registered
  <2> QED BY <2>3, <2>4 DEF Subscribe
<1> QED BY <1>1, <1>2

LEMMA Removing == ASSUME NEW c, Remove(c) PROVE Registered \ Registered' \subseteq {c}
<1>1. CASE c \in Taps
  BY <1>1 DEF Remove, Registered
<1>2. CASE c \notin Taps
  <2>1. /\ taps' = taps
        /\ listeners' = [x \in {y \in DOMAIN listeners : listeners[y] # {c}} |-> listeners[x] \ {c}]
    BY <1>2 DEF Remove
  <2>2. \A t \in DOMAIN listeners : \A d \in listeners[t] \ {c} : t \in DOMAIN listeners' /\ d \in listeners'[t]
    BY <2>1
  <2> QED BY <2>1, <2>2 DEF Registered
<1> QED BY <1>1, <1>2

LEMMA Shrinking == ASSUME NEW c, Remove(c) PROVE Registered' \subseteq Registered
<1>1. CASE c \in Taps
  BY <1>1 DEF Remove, Registered
<1>2. CASE c \notin Taps
  <2>1. /\ taps' = taps
        /\ listeners' = [x \in {y \in DOMAIN listeners : listeners[y] # {c}} |-> listeners[x] \ {c}]
    BY <1>2 DEF Remove
  <2>2. \A t \in DOMAIN listeners' : t \in DOMAIN listeners /\ listeners'[t] \subseteq listeners[t]
    BY <2>1
  <2> QED BY <2>1, <2>2 DEF Registered
<1> QED BY <1>1, <1>2

LEMMA BusStep == BusInv /\ [Next]_vars => BusInv'
<1> SUFFICES ASSUME BusInv, [Next]_vars PROVE BusInv'
  OBVIOUS
<1> USE DEF BusInv, ServesRegistered, Emitting
<1>1. CASE UNCHANGED <<taps, listeners, seen, emit>>
  BY <1>1 DEF Registered
<1>2. ASSUME NEW g \in Goroutines, Emit(g) PROVE BusInv'
  <2>1. Registered' = Registered /\ DOMAIN seen' = DOMAIN seen
    BY <1>2 DEF Emit, EmitBegin, Registered
  <2>2. taps \union Listening(want[g][1]) \subseteq Registered
    BY DEF Listening, Registered
  <2> QED BY <1>2, <2>1, <2>2 DEF Emit, EmitBegin
<1>3. ASSUME NEW g \in Goroutines, Deliver(g) PROVE BusInv'
  <2>1. Registered' = Registered
    BY <1>3 DEF Deliver, EmitSend, Registered
  <2>2. DOMAIN seen' = DOMAIN seen
    BY <1>3 DEF Deliver, EmitSend, Send
  <2>3. PICK c : emit' = [emit EXCEPT ![g].todo = @ \ {c}]
    BY <1>3 DEF Deliver, EmitSend
  <2> QED BY <2>1, <2>2, <2>3
<1>4. ASSUME NEW g \in Goroutines, Unlock(g) PROVE BusInv'
  <2>1. Registered' = Registered
    BY <1>4 DEF Unlock, EmitEnd, Registered
  <2> QED BY <1>4, <2>1 DEF Unlock, EmitEnd
<1>5. ASSUME NEW c \in Chans, Register(c) PROVE BusInv'
  BY <1>5, Adding DEF Register, Subscribe, NoEmit
<1>6. ASSUME NEW c \in Chans, Unsubscribe(c) \/ UnsubscribeClosed(c) PROVE BusInv'
  BY <1>6 DEF Unsubscribe, UnsubscribeClosed, NoEmit
<1> QED BY <1>1, <1>2, <1>3, <1>4, <1>5, <1>6 DEF Next, UpdateStatus, StoreMetrics, WriteSync, Receive, Cancel,
     CloseAll, bus_vars, vars

\* A channel takes a value only from an Emit it is served by, and leaves alone.
LEMMA SilentStep ==
  BusInv /\ [Next]_vars =>
    [/\ \A c \in Chans : seen'[c] # seen[c] => c \in Registered
     /\ Cardinality(Registered \ Registered') <= 1]_bus_vars
<1> SUFFICES ASSUME BusInv, [Next]_vars
             PROVE  /\ \A c \in Chans : seen'[c] # seen[c] => c \in Registered
                    /\ Cardinality(Registered \ Registered') <= 1
  OBVIOUS
<1>1. \A c \in Chans : seen'[c] # seen[c] => c \in Registered
  <2>1. CASE seen' = seen
    BY <2>1
  <2>2. ASSUME NEW g \in Goroutines, Deliver(g), NEW c \in Chans, seen'[c] # seen[c] PROVE c \in Registered
    <3>1. PICK d \in NextChans(emit[g].todo) : Send(d, emit[g].event)
      BY <2>2 DEF Deliver, EmitSend
    <3>2. d = c
      BY <2>2, <3>1 DEF Send, BusInv
    <3>3. g \in Emitting /\ d \in emit[g].todo
      BY <2>2, <3>1 DEF Deliver, EmitSend, NextChans
    <3> QED BY <3>2, <3>3 DEF BusInv, ServesRegistered
  <2> QED BY <2>1, <2>2 DEF Next, Emit, EmitBegin, Unlock, EmitEnd, UpdateStatus, StoreMetrics, Register, Subscribe,
       WriteSync, Unsubscribe, Receive, UnsubscribeClosed, Cancel, CloseAll, bus_vars, vars
<1>2. \E c : Registered \ Registered' \subseteq {c}
  <2>1. CASE UNCHANGED <<taps, listeners>>
    BY <2>1 DEF Registered
  <2>2. ASSUME NEW c \in Chans, Register(c) PROVE Registered \ Registered' \subseteq {c}
    BY <2>2, Adding DEF Register
  <2>3. ASSUME NEW c \in Chans, Unsubscribe(c) \/ UnsubscribeClosed(c) PROVE Registered \ Registered' \subseteq {c}
    BY <2>3, Removing DEF Unsubscribe, UnsubscribeClosed
  <2> QED BY <2>1, <2>2, <2>3 DEF Next, Emit, EmitBegin, Deliver, EmitSend, Unlock, EmitEnd, UpdateStatus, StoreMetrics,
       WriteSync, Receive, Cancel, CloseAll, bus_vars, vars
<1>3. Cardinality(Registered \ Registered') <= 1
  <2>1. PICK c : Registered \ Registered' \subseteq {c}
    BY <1>2
  <2>2. IsFiniteSet({c}) /\ Cardinality({c}) = 1
    BY FS_Singleton
  <2> QED BY <2>1, <2>2, FS_Subset
<1> QED BY <1>1, <1>3

\* A channel that was removed takes nothing more, whatever Emit is under way, and
\* its removal takes no other channel with it, for any number of each.
THEOREM SilentCorrect == Spec => SilentOnceRemoved
<1>1. Init => BusInv
  <2> SUFFICES ASSUME Init PROVE BusInv
    OBVIOUS
  <2>1. emit = <<>> /\ DOMAIN seen = Chans
    BY DEF Init, BusInit
  <2>2. Emitting = {}
    BY <2>1 DEF Emitting
  <2> QED BY <2>1, <2>2 DEF BusInv, ServesRegistered
<1> QED BY <1>1, BusStep, SilentStep, PTL DEF Spec, SilentOnceRemoved

(***************************************************************************)
(* The types, and the table of the bus: a fresh channel is in it nowhere,  *)
(* and has taken nothing.                                                  *)
(***************************************************************************)
Events == {<<"status", v>> : v \in Statuses \union {NoStatus}} \union {<<"metrics", n>> : n \in 0 .. MaxMetrics}

TableInv ==
  /\ taps \subseteq Taps
  /\ \A t \in DOMAIN listeners :
       t \in Types /\ listeners[t] # {} /\ listeners[t] \subseteq {c \in DOMAIN Typed : Typed[c] = t}
  /\ fresh \subseteq Chans /\ closed \subseteq Chans
  /\ fresh \intersect (Registered \union closed) = {}
  /\ \A c \in fresh : seen[c] = <<>>

LEMMA RegisteredTyped ==
  ASSUME TableInv
  PROVE  /\ Registered \subseteq Chans
         /\ \A t : \A c \in Registered : Hears(c, t) => c \in taps \union Listening(t)
<1>1. \A c \in Registered \ taps : \E t \in DOMAIN listeners : c \in listeners[t]
  BY DEF Registered
<1>2. \A t \in DOMAIN listeners : \A c \in listeners[t] : c \in DOMAIN Typed /\ Typed[c] = t
  BY DEF TableInv
<1>3. taps \subseteq Taps
  BY DEF TableInv
<1>4. Registered \subseteq Chans
  BY <1>1, <1>2, <1>3 DEF Chans
<1>5. ASSUME NEW c \in Registered, NEW t, Hears(c, t) PROVE c \in taps \union Listening(t)
  <2>1. CASE c \in taps
    BY <2>1
  <2>2. CASE c \notin taps
    <3>1. PICK u \in DOMAIN listeners : c \in listeners[u]
      BY <1>1, <2>2
    <3>2. u = t
      BY <1>2, <1>5, <3>1, ChansAssumption DEF Hears
    <3> QED BY <3>1, <3>2 DEF Listening
  <2> QED BY <2>1, <2>2
<1> QED BY <1>4, <1>5

LEMMA TableStep == BusInv /\ TableInv /\ [Next]_vars => TableInv'
<1> SUFFICES ASSUME BusInv, TableInv, [Next]_vars PROVE TableInv'
  OBVIOUS
<1>1. Registered \subseteq Chans
  BY RegisteredTyped
<1>2. CASE UNCHANGED <<taps, listeners, fresh, closed, seen>>
  BY <1>2 DEF TableInv, Registered
<1>3. ASSUME NEW g \in Goroutines, Deliver(g) PROVE TableInv'
  <2>1. PICK c \in NextChans(emit[g].todo) : Send(c, emit[g].event)
    BY <1>3 DEF Deliver, EmitSend
  <2>2. g \in Emitting /\ UNCHANGED <<taps, listeners, fresh, closed>>
    BY <1>3 DEF Deliver, EmitSend
  <2>3. c \in Registered
    BY <2>1, <2>2 DEF NextChans, BusInv, ServesRegistered
  <2>4. \A d \in fresh : seen'[d] = seen[d]
    BY <2>1, <2>3 DEF Send, TableInv, BusInv
  <2> QED BY <2>2, <2>4 DEF TableInv, Registered
<1>4. ASSUME NEW c \in Chans, Register(c) PROVE TableInv'
  <2>1. c \in fresh /\ fresh' = fresh \ {c} /\ UNCHANGED <<closed, seen>>
    BY <1>4 DEF Register, Subscribe
  <2>2. CASE c \in Taps
    <3>1. taps' = taps \union {c} /\ listeners' = listeners
      BY <1>4, <2>2 DEF Register, Subscribe
    <3>2. Registered' = Registered \union {c}
      BY <3>1 DEF Registered
    <3> QED BY <2>1, <2>2, <3>1, <3>2 DEF TableInv
  <2>3. CASE c \notin Taps
    <3>1. /\ taps' = taps
          /\ listeners' = [x \in DOMAIN listeners \union {Typed[c]} |->
                             IF x = Typed[c] THEN Listening(Typed[c]) \union {c} ELSE listeners[x]]
      BY <1>4, <2>3 DEF Register, Subscribe
    <3>2. c \in DOMAIN Typed /\ Typed[c] \in Types
      BY <2>3, ChansAssumption DEF Chans
    <3>3. Listening(Typed[c]) \subseteq {d \in DOMAIN Typed : Typed[d] = Typed[c]}
      BY DEF Listening, TableInv
    <3>4. \A t \in DOMAIN listeners' :
            t \in Types /\ listeners'[t] # {} /\ listeners'[t] \subseteq {d \in DOMAIN Typed : Typed[d] = t}
      BY <3>1, <3>2, <3>3 DEF TableInv
    <3>5. Registered' \subseteq Registered \union {c}
      BY <3>1 DEF Registered, Listening
    <3> QED BY <2>1, <3>1, <3>4, <3>5 DEF TableInv
  <2> QED BY <2>2, <2>3
<1>5. ASSUME NEW c \in Chans, Unsubscribe(c) \/ UnsubscribeClosed(c) PROVE TableInv'
  <2>1. Remove(c) /\ UNCHANGED <<fresh, closed, seen>>
    BY <1>5 DEF Unsubscribe, UnsubscribeClosed
  <2>2. CASE c \in Taps
    BY <2>1, <2>2 DEF Remove, TableInv, Registered
  <2>3. CASE c \notin Taps
    <3>1. /\ taps' = taps
          /\ listeners' = [x \in {y \in DOMAIN listeners : listeners[y] # {c}} |-> listeners[x] \ {c}]
      BY <2>1, <2>3 DEF Remove
    <3>2. \A t \in DOMAIN listeners' :
            t \in DOMAIN listeners /\ listeners'[t] # {} /\ listeners'[t] \subseteq listeners[t]
      BY <3>1 DEF TableInv
    <3>3. Registered' \subseteq Registered
      BY <2>1, Shrinking
    <3> QED BY <2>1, <3>1, <3>2, <3>3 DEF TableInv
  <2> QED BY <2>2, <2>3
<1>6. CASE CloseAll
  BY <1>1, <1>6 DEF CloseAll, TableInv, Registered
<1> QED BY <1>2, <1>3, <1>4, <1>5, <1>6 DEF Next, Emit, EmitBegin, Unlock, EmitEnd, UpdateStatus, StoreMetrics,
     WriteSync, Receive, Cancel, bus_vars, vars


(***************************************************************************)
(* The events: one that a goroutine emits is the one it wants to emit,     *)
(* which is about the present status or the present metrics; and who has   *)
(* set a status to emit holds vm.mutex, alone.                             *)
(***************************************************************************)
WantInv ==
  /\ status \in Statuses \union {NoStatus} /\ metrics \in 0 .. MaxMetrics
  /\ mutex \subseteq Goroutines \ {Loop} /\ \A g, h \in mutex : g = h
  /\ want \in [Goroutines -> Events \union {NoEvent}]
  /\ \A g \in Goroutines \ {Loop} : want[g] = IF g \in mutex THEN <<"status", status>> ELSE NoEvent
  /\ want[Loop] \in {NoEvent, <<"metrics", metrics>>}
  /\ \A g \in Emitting : g \in Goroutines /\ want[g] # NoEvent /\ emit[g].event = want[g]

LEMMA EventsAre ==
  /\ \A v \in Statuses \union {NoStatus} : <<"status", v>> \in Events /\ <<"status", v>> # NoEvent
  /\ \A n \in 0 .. MaxMetrics : <<"metrics", n>> \in Events /\ <<"metrics", n>> # NoEvent
<1>1. ASSUME NEW v \in Statuses \union {NoStatus} PROVE <<"status", v>> \in Events
  BY DEF Events
<1>2. ASSUME NEW n \in 0 .. MaxMetrics PROVE <<"metrics", n>> \in Events
  BY DEF Events
<1>3. \A t, v : t # "none" => <<t, v>> # NoEvent
  <2> SUFFICES ASSUME NEW t, NEW v, <<t, v>> = NoEvent PROVE t = "none"
    OBVIOUS
  <2> QED BY <<t, v>>[1] = NoEvent[1] DEF NoEvent
<1> QED BY <1>1, <1>2, <1>3

LEMMA WantStep == WantInv /\ [Next]_vars => WantInv'
<1> SUFFICES ASSUME WantInv, [Next]_vars PROVE WantInv'
  OBVIOUS
<1>1. CASE UNCHANGED <<status, metrics, mutex, want, emit>>
  BY <1>1 DEF WantInv, Emitting
<1>2. ASSUME NEW g \in Goroutines, NEW s \in Statuses, UpdateStatus(g, s) PROVE WantInv'
  <2>1. /\ g # Loop /\ mutex = {} /\ want[g] = NoEvent
        /\ status' = s /\ want' = [want EXCEPT ![g] = <<"status", s>>] /\ mutex' = {g}
        /\ UNCHANGED <<metrics, emit>>
    BY <1>2 DEF UpdateStatus, Held, bus_vars
  <2>2. <<"status", s>> \in Events
    BY EventsAre
  <2>3. want' \in [Goroutines -> Events \union {NoEvent}]
    BY <2>1, <2>2 DEF WantInv
  <2>4. \A h \in Goroutines \ {Loop} : want'[h] = IF h \in mutex' THEN <<"status", status'>> ELSE NoEvent
    BY <2>1 DEF WantInv
  <2>5. g \notin Emitting /\ Emitting' = Emitting
    BY <2>1 DEF WantInv, Emitting
  <2>6. \A h \in Emitting' : h \in Goroutines /\ want'[h] # NoEvent /\ emit'[h].event = want'[h]
    BY <2>1, <2>5 DEF WantInv
  <2>7. want'[Loop] \in {NoEvent, <<"metrics", metrics'>>}
    BY <2>1, LoopAssumption DEF WantInv
  <2> QED BY <2>1, <2>3, <2>4, <2>6, <2>7 DEF WantInv
<1>3. CASE StoreMetrics
  <2>1. /\ metrics < MaxMetrics /\ want[Loop] = NoEvent /\ metrics' = metrics + 1
        /\ want' = [want EXCEPT ![Loop] = <<"metrics", metrics'>>]
        /\ UNCHANGED <<status, mutex, emit>>
    BY <1>3 DEF StoreMetrics, bus_vars
  <2>2. metrics' \in 0 .. MaxMetrics
    BY <2>1, LoopAssumption DEF WantInv
  <2>3. <<"metrics", metrics'>> \in Events
    BY <2>2, EventsAre
  <2>4. want' \in [Goroutines -> Events \union {NoEvent}]
    BY <2>1, <2>3 DEF WantInv
  <2>5. \A h \in Goroutines \ {Loop} : want'[h] = want[h]
    BY <2>1 DEF WantInv
  <2>6. Loop \notin Emitting /\ Emitting' = Emitting
    BY <2>1 DEF WantInv, Emitting
  <2>7. \A h \in Emitting' : h \in Goroutines /\ want'[h] # NoEvent /\ emit'[h].event = want'[h]
    BY <2>1, <2>5, <2>6 DEF WantInv
  <2>8. want'[Loop] = <<"metrics", metrics'>>
    BY <2>1, LoopAssumption DEF WantInv
  <2> QED BY <2>1, <2>2, <2>4, <2>5, <2>7, <2>8 DEF WantInv
<1>4. ASSUME NEW g \in Goroutines, Emit(g) PROVE WantInv'
  <2>1. /\ want[g] # NoEvent /\ UNCHANGED <<status, metrics, mutex, want>>
        /\ emit' = [x \in Emitting \union {g} |->
                      IF x = g THEN [event |-> want[g], todo |-> taps \union Listening(want[g][1])] ELSE emit[x]]
    BY <1>4 DEF Emit, EmitBegin, vm_vars
  <2>2. \A h \in Emitting' : h \in Goroutines /\ want'[h] # NoEvent /\ emit'[h].event = want'[h]
    BY <2>1 DEF WantInv, Emitting
  <2> QED BY <2>1, <2>2 DEF WantInv
<1>5. ASSUME NEW g \in Goroutines, Deliver(g) PROVE WantInv'
  <2>1. PICK c : emit' = [emit EXCEPT ![g].todo = @ \ {c}]
    BY <1>5 DEF Deliver, EmitSend
  <2>2. UNCHANGED <<status, metrics, mutex, want>>
    BY <1>5 DEF Deliver
  <2>3. \A h \in Emitting' : h \in Emitting /\ emit'[h].event = emit[h].event
    BY <2>1 DEF Emitting
  <2> QED BY <2>2, <2>3 DEF WantInv
<1>6. ASSUME NEW g \in Goroutines, Unlock(g) PROVE WantInv'
  <2>1. /\ emit' = [x \in Emitting \ {g} |-> emit[x]] /\ want' = [want EXCEPT ![g] = NoEvent]
        /\ mutex' = mutex \ {g} /\ UNCHANGED <<status, metrics>>
    BY <1>6 DEF Unlock, EmitEnd
  <2>2. \A h \in Emitting' : h \in Goroutines /\ want'[h] # NoEvent /\ emit'[h].event = want'[h]
    BY <2>1 DEF WantInv, Emitting
  <2>3. \A h \in Goroutines \ {Loop} : want'[h] = IF h \in mutex' THEN <<"status", status'>> ELSE NoEvent
    BY <2>1 DEF WantInv
  <2>4. want'[Loop] \in {NoEvent, <<"metrics", metrics'>>}
    BY <2>1, LoopAssumption DEF WantInv
  <2>5. want' \in [Goroutines -> Events \union {NoEvent}]
    BY <2>1 DEF WantInv
  <2> QED BY <2>1, <2>2, <2>3, <2>4, <2>5 DEF WantInv
<1> QED BY <1>1, <1>2, <1>3, <1>4, <1>5, <1>6 DEF Next, Register, Subscribe, WriteSync, Unsubscribe,
     UnsubscribeClosed, Receive, Cancel, CloseAll, bus_vars, vm_vars, vars

\* What the channels took, with how much of it waits.
SeenInv ==
  /\ seen \in [Chans -> Seq(Events)] /\ queued \in [Chans -> 0 .. Cap]
  /\ \A c \in Chans : queued[c] <= Len(seen[c])

LEMMA Appending ==
  ASSUME NEW s \in Seq(Events), NEW e \in Events
  PROVE  /\ Append(s, e) \in Seq(Events) /\ Len(Append(s, e)) = Len(s) + 1 /\ Len(s) \in Nat
         /\ DOMAIN s \subseteq Nat /\ \A i \in DOMAIN s : i <= Len(s)
         /\ DOMAIN Append(s, e) = DOMAIN s \union {Len(s) + 1}
         /\ \A i \in DOMAIN s : Append(s, e)[i] = s[i]
         /\ Append(s, e)[Len(s) + 1] = e
  OBVIOUS

\* What a step of Emit does: nothing but to append its event to one channel.
LEMMA Delivering ==
  ASSUME BusInv, SeenInv, WantInv, TableInv, NEW g \in Goroutines, Deliver(g)
  PROVE  /\ g \in Emitting /\ want[g] \in Events /\ emit[g].event = want[g]
         /\ \E c \in emit[g].todo :
              /\ c \in Chans /\ c \in Registered /\ emit' = [emit EXCEPT ![g].todo = @ \ {c}]
              /\ \/ UNCHANGED <<seen, queued>>
                 \/ /\ queued[c] < Cap /\ c \notin closed
                    /\ queued' = [queued EXCEPT ![c] = @ + 1]
                    /\ seen' = [seen EXCEPT ![c] = Append(@, want[g])]
<1>1. PICK c \in NextChans(emit[g].todo) :
        Send(c, emit[g].event) /\ emit' = [emit EXCEPT ![g].todo = @ \ {c}]
  BY DEF Deliver, EmitSend
<1>2. g \in Emitting
  BY DEF Deliver, EmitSend
<1>3. want[g] \in Events /\ emit[g].event = want[g]
  BY <1>2 DEF WantInv
<1>4. c \in emit[g].todo /\ c \in Registered /\ c \in Chans
  BY <1>1, <1>2, RegisteredTyped DEF NextChans, BusInv, ServesRegistered
<1>5. \/ UNCHANGED <<seen, queued>>
      \/ /\ queued[c] < Cap /\ c \notin closed
         /\ queued' = [queued EXCEPT ![c] = @ + 1]
         /\ seen' = [seen EXCEPT ![c] = Append(@, want[g])]
  BY <1>1, <1>3 DEF Send
<1> QED BY <1>1, <1>2, <1>3, <1>4, <1>5

LEMMA SeenStep == BusInv /\ TableInv /\ WantInv /\ SeenInv /\ [Next]_vars => SeenInv'
<1> SUFFICES ASSUME BusInv, TableInv, WantInv, SeenInv, [Next]_vars PROVE SeenInv'
  OBVIOUS
<1>1. CASE UNCHANGED <<seen, queued>>
  BY <1>1 DEF SeenInv
<1>2. ASSUME NEW g \in Goroutines, Deliver(g) PROVE SeenInv'
  <2>1. PICK c \in Chans :
          \/ UNCHANGED <<seen, queued>>
          \/ /\ queued[c] < Cap /\ c \notin closed
             /\ queued' = [queued EXCEPT ![c] = @ + 1]
             /\ seen' = [seen EXCEPT ![c] = Append(@, want[g])]
    BY <1>2, Delivering
  <2>2. /\ want[g] \in Events /\ seen[c] \in Seq(Events) /\ queued[c] \in 0 .. Cap
        /\ queued[c] <= Len(seen[c]) /\ Cap \in Nat
    BY <1>2, Delivering, CapAssumption DEF SeenInv
  <2>3. Append(seen[c], want[g]) \in Seq(Events) /\ Len(Append(seen[c], want[g])) = Len(seen[c]) + 1
    BY <2>2, Appending
  <2>4. CASE queued[c] < Cap /\ queued' = [queued EXCEPT ![c] = @ + 1]
                             /\ seen' = [seen EXCEPT ![c] = Append(@, want[g])]
    <3>1. seen' \in [Chans -> Seq(Events)]
      BY <2>3, <2>4 DEF SeenInv
    <3>2. queued[c] + 1 \in 0 .. Cap
      BY <2>2, <2>4
    <3>3. queued' \in [Chans -> 0 .. Cap]
      BY <2>4, <3>2 DEF SeenInv
    <3>4. queued'[c] = queued[c] + 1 /\ Len(seen'[c]) = Len(seen[c]) + 1
      BY <2>3, <2>4 DEF SeenInv
    <3>5. queued[c] + 1 <= Len(seen[c]) + 1
      BY <2>2, Appending
    <3>6. \A d \in Chans : d # c => queued'[d] = queued[d] /\ seen'[d] = seen[d]
      BY <2>4 DEF SeenInv
    <3> QED BY <3>1, <3>3, <3>4, <3>5, <3>6 DEF SeenInv
  <2> QED BY <1>1, <2>1, <2>4
<1>3. ASSUME NEW c \in Chans, Receive(c) PROVE SeenInv'
  <2>1. queued[c] > 0 /\ queued' = [queued EXCEPT ![c] = @ - 1] /\ seen' = seen
    BY <1>3 DEF Receive
  <2>2. queued[c] \in 0 .. Cap /\ queued[c] <= Len(seen[c]) /\ Len(seen[c]) \in Nat /\ Cap \in Nat
    BY CapAssumption DEF SeenInv
  <2>3. queued[c] - 1 \in 0 .. Cap /\ queued[c] - 1 <= Len(seen[c])
    BY <2>1, <2>2
  <2> QED BY <2>1, <2>3 DEF SeenInv
<1> QED BY <1>1, <1>2, <1>3 DEF Next, Emit, EmitBegin, Unlock, EmitEnd, UpdateStatus, StoreMetrics,
     Register, Subscribe, Unsubscribe, UnsubscribeClosed, WriteSync, Cancel, CloseAll, bus_vars, vars


(***************************************************************************)
(* What a channel was told: while a status waits to be emitted, those that *)
(* the Emit has still to serve were told another one last, and those it    *)
(* has served know it.                                                     *)
(***************************************************************************)
NeverLast(c, v) ==
  \A i \in Status(seen[c]) : (\A j \in Status(seen[c]) : j <= i) => seen[c][i][2] # v

Served(g, c) == g \in Emitting /\ c \notin emit[g].todo

Follows(c) ==
  /\ mutex = {} => LastTold(c, status)
  /\ \A g \in mutex : IF Served(g, c) THEN LastTold(c, status) ELSE NeverLast(c, status)
  /\ NoRepeat(seen[c])

Keeps(c) == Following(c) /\ Hears(c, "status")
KnowInv == DOMAIN base = Chans /\ \A c \in Chans : Keeps(c) => Follows(c)

LEMMA Placing ==
  ASSUME NEW s \in Seq(Events), NEW e \in Events, NEW t
  PROVE  /\ e[1] = t => Places(t, Append(s, e)) = Places(t, s) \union {Len(s) + 1}
         /\ e[1] # t => Places(t, Append(s, e)) = Places(t, s)
         /\ \A i \in Places(t, s) : i \in Nat /\ i < Len(s) + 1 /\ Append(s, e)[i] = s[i]
  BY Appending DEF Places

LEMMA Ignoring ==
  ASSUME NEW s \in Seq(Events), NEW e \in Events, e[1] # "status"
  PROVE  /\ Status(Append(s, e)) = Status(s)
         /\ \A i \in Status(s) : Append(s, e)[i] = s[i]
<1>1. \A i \in Places("status", s) : Append(s, e)[i] = s[i]
  BY Placing
<1> QED BY <1>1, Placing DEF Status

\* A status that differs from the last one told can be told.
LEMMA Telling ==
  ASSUME NEW s \in Seq(Events), NEW e \in Events, e[1] = "status", NoRepeat(s),
         \A i \in Status(s) : (\A j \in Status(s) : j <= i) => s[i][2] # e[2]
  PROVE  /\ NoRepeat(Append(s, e))
         /\ Status(Append(s, e)) # {}
         /\ \A i \in Status(Append(s, e)) :
              (\A j \in Status(Append(s, e)) : j <= i) => Append(s, e)[i][2] = e[2]
<1> DEFINE n == Len(s) + 1
           a == Append(s, e)
<1>1. Status(a) = Status(s) \union {n} /\ a[n] = e /\ n \in Nat
  BY Placing, Appending DEF Status
<1>2. \A i \in Status(s) : i \in Nat /\ i < n /\ a[i] = s[i]
  BY Placing DEF Status
<1> HIDE DEF n, a
<1>3. ASSUME NEW i \in Status(a), NEW j \in Status(a), i < j, \A k \in Status(a) : k <= i \/ k >= j
      PROVE  a[i] # a[j]
  <2>1. i \in Status(s)
    BY <1>1, <1>2, <1>3
  <2>2. CASE j \in Status(s)
    BY <1>1, <1>2, <1>3, <2>1, <2>2 DEF NoRepeat
  <2>3. CASE j = n
    <3>1. \A k \in Status(s) : k <= i
      BY <1>1, <1>2, <1>3, <2>1, <2>3
    <3>2. s[i][2] # e[2]
      BY <2>1, <3>1
    <3> QED BY <1>1, <1>2, <2>1, <2>3, <3>2
  <2> QED BY <1>1, <1>3, <2>2, <2>3
<1>4. NoRepeat(a)
  BY <1>3 DEF NoRepeat
<1>5. ASSUME NEW i \in Status(a), \A j \in Status(a) : j <= i PROVE a[i][2] = e[2]
  BY <1>1, <1>2, <1>5
<1>6. Status(a) # {}
  BY <1>1
<1> QED BY <1>4, <1>5, <1>6 DEF a

\* What KnowInv speaks of stays.
LEMMA Following0 ==
  ASSUME NEW c, KnowInv, c \in Chans, Keeps(c)', Registered' \subseteq Registered,
         closed \subseteq closed', base' = base
  PROVE  Follows(c)
  BY DEF KnowInv, Keeps, Following, Hears

LEMMA KnowStep == BusInv /\ TableInv /\ WantInv /\ SeenInv /\ KnowInv /\ [Next]_vars => KnowInv'
<1>0. DOMAIN base = Chans /\ [Next]_vars => DOMAIN base' = Chans
  BY DEF Next, Emit, Deliver, Unlock, UpdateStatus, StoreMetrics, Register, WriteSync, vm_vars, vars
<1> SUFFICES ASSUME BusInv, TableInv, WantInv, SeenInv, KnowInv, [Next]_vars, NEW c \in Chans, Keeps(c)'
             PROVE  Follows(c)'
  BY <1>0 DEF KnowInv, Chans
<1>1. CASE UNCHANGED <<mutex, status, seen, emit, base, closed>> /\ Registered' \subseteq Registered
  <2>1. Follows(c)
    BY <1>1, Following0
  <2> QED BY <1>1, <2>1 DEF Follows, LastTold, TookLast, NeverLast, Served, Emitting
<1>2. ASSUME NEW g \in Goroutines, NEW s \in Statuses, UpdateStatus(g, s) PROVE Follows(c)'
  <2>1. /\ mutex = {} /\ want[g] = NoEvent /\ s # status /\ status' = s /\ mutex' = {g}
        /\ UNCHANGED <<bus_vars, base>>
    BY <1>2 DEF UpdateStatus, Held
  <2>2. Follows(c)
    BY <2>1, Following0 DEF bus_vars, Registered
  <2>3. g \notin Emitting'
    BY <2>1 DEF WantInv, Emitting, bus_vars
  <2>4. LastTold(c, status) /\ NoRepeat(seen[c]) /\ seen' = seen
    BY <2>1, <2>2 DEF Follows, bus_vars
  <2>5. NeverLast(c, status)'
    BY <2>1, <2>4 DEF LastTold, TookLast, NeverLast
  <2> QED BY <2>1, <2>3, <2>4, <2>5 DEF Follows, Served
<1>3. ASSUME NEW g \in Goroutines, Emit(g) PROVE Follows(c)'
  <2>1. /\ want[g] # NoEvent /\ g \notin Emitting /\ UNCHANGED vm_vars
        /\ UNCHANGED <<taps, listeners, closed, seen>>
        /\ emit' = [x \in Emitting \union {g} |->
                      IF x = g THEN [event |-> want[g], todo |-> taps \union Listening(want[g][1])] ELSE emit[x]]
    BY <1>3 DEF Emit, EmitBegin
  <2>2. Follows(c)
    BY <2>1, Following0 DEF Registered, vm_vars
  <2>3. ASSUME NEW h \in mutex PROVE Served(h, c)' <=> Served(h, c)
    <3>1. CASE h # g
      BY <2>1, <3>1 DEF Served, Emitting
    <3>2. CASE h = g
      <4>1. want[g] = <<"status", status>>
        BY <3>2, <2>3 DEF WantInv
      <4>2. c \in taps \union Listening("status")
        BY <2>1, RegisteredTyped DEF Keeps, Following, Hears, Registered
      <4> QED BY <2>1, <3>2, <4>1, <4>2 DEF Served, Emitting
    <3> QED BY <3>1, <3>2
  <2> QED BY <2>1, <2>2, <2>3 DEF Follows, LastTold, TookLast, NeverLast, vm_vars
<1>4. ASSUME NEW g \in Goroutines, Deliver(g) PROVE Follows(c)'
  <2>1. /\ UNCHANGED <<updates, status, metrics, mutex, want, sync, taps, listeners, closed>>
        /\ base' = [x \in Chans |->
                     IF x \in emit[g].todo \ emit'[g].todo /\ seen'[x] = seen[x]
                     THEN [status |-> base[x].status, lost |-> TRUE] ELSE base[x]]
    BY <1>4 DEF Deliver, EmitSend
  <2>2. PICK d \in emit[g].todo :
          /\ d \in Chans /\ emit' = [emit EXCEPT ![g].todo = @ \ {d}]
          /\ \/ UNCHANGED <<seen, queued>>
             \/ seen' = [seen EXCEPT ![d] = Append(@, want[g])]
    BY <1>4, Delivering
  <2>3. g \in Emitting /\ want[g] \in Events /\ emit[g].event = want[g]
    BY <1>4, Delivering
  <2>4. /\ Emitting' = Emitting /\ emit'[g].todo = emit[g].todo \ {d}
        /\ \A h \in Emitting : h # g => emit'[h] = emit[h]
    BY <2>2, <2>3 DEF Emitting, BusInv, ServesRegistered
  <2>6. Keeps(c) /\ Follows(c) /\ base'[c].status = base[c].status
    <3>1. ~base'[c].lost
      BY DEF Keeps, Following
    <3>2. base'[c] = base[c]
      BY <2>1, <3>1
    <3> QED BY <2>1, <3>2 DEF Keeps, Following, Hears, KnowInv, Registered
  <2>7. CASE c # d
    <3>1. seen'[c] = seen[c]
      BY <2>2, <2>7 DEF SeenInv
    <3>2. \A h \in mutex : Served(h, c)' <=> Served(h, c)
      BY <2>4, <2>7 DEF Served
    <3> QED BY <2>1, <2>6, <3>1, <3>2 DEF Follows, LastTold, TookLast, NeverLast
  <2>8. CASE c = d
    <3>1. seen'[c] # seen[c]
      <4>1. d \in emit[g].todo \ emit'[g].todo
        BY <2>2, <2>4
      <4>2. ~base'[c].lost
        BY DEF Keeps, Following
      <4> QED BY <2>1, <2>8, <4>1, <4>2
    <3>2. seen'[c] = Append(seen[c], want[g]) /\ seen[c] \in Seq(Events)
      BY <2>2, <2>8, <3>1 DEF SeenInv
    <3>3. CASE g = Loop
      <4>1. want[g][1] # "status" /\ g \notin mutex
        BY <2>3, <3>3 DEF WantInv
      <4>2. Status(seen'[c]) = Status(seen[c]) /\ \A i \in Status(seen[c]) : seen'[c][i] = seen[c][i]
        <5>1. /\ Status(Append(seen[c], want[g])) = Status(seen[c])
              /\ \A i \in Status(seen[c]) : Append(seen[c], want[g])[i] = seen[c][i]
          BY <2>3, <3>2, <4>1, Ignoring
        <5> QED BY <3>2, <5>1
      <4>3. \A h \in mutex : Served(h, c)' <=> Served(h, c)
        BY <2>4, <4>1 DEF Served
      <4>4. NoRepeat(seen'[c])
        BY <2>6, <4>2 DEF Follows, NoRepeat
      <4> QED BY <2>1, <2>6, <4>2, <4>3, <4>4 DEF Follows, LastTold, TookLast, NeverLast
    <3>4. CASE g # Loop
      <4>1. g \in mutex /\ want[g][1] = "status" /\ want[g][2] = status
        BY <2>3, <3>4 DEF WantInv
      <4>2. NeverLast(c, status) /\ NoRepeat(seen[c])
        BY <2>2, <2>6, <2>8, <4>1 DEF Follows, Served
      <4>3. /\ NoRepeat(seen'[c]) /\ Status(seen'[c]) # {}
            /\ \A i \in Status(seen'[c]) : (\A j \in Status(seen'[c]) : j <= i) => seen'[c][i][2] = status
        <5>1. \A i \in Status(seen[c]) : (\A j \in Status(seen[c]) : j <= i) => seen[c][i][2] # want[g][2]
          BY <4>1, <4>2 DEF NeverLast
        <5> DEFINE a == Append(seen[c], want[g])
        <5>2. /\ NoRepeat(a) /\ Status(a) # {}
              /\ \A i \in Status(a) : (\A j \in Status(a) : j <= i) => a[i][2] = want[g][2]
          BY <2>3, <3>2, <4>1, <4>2, <5>1, Telling
        <5> HIDE DEF a
        <5>3. seen'[c] = a
          BY <3>2 DEF a
        <5> QED BY <4>1, <5>2, <5>3
      <4>4. LastTold(c, status)'
        BY <2>1, <4>3 DEF LastTold, TookLast
      <4>5. Served(g, c)' /\ \A h \in mutex : h = g
        BY <2>3, <2>4, <2>8, <4>1 DEF Served, WantInv
      <4> QED BY <2>1, <4>1, <4>3, <4>4, <4>5 DEF Follows
    <3> QED BY <3>3, <3>4
  <2> QED BY <2>7, <2>8
<1>5. ASSUME NEW g \in Goroutines, Unlock(g) PROVE Follows(c)'
  <2>1. /\ g \in Emitting /\ emit[g].todo = {} /\ emit' = [x \in Emitting \ {g} |-> emit[x]]
        /\ mutex' = mutex \ {g} /\ UNCHANGED <<status, base, taps, listeners, closed, seen>>
    BY <1>5 DEF Unlock, EmitEnd
  <2>2. Follows(c)
    BY <2>1, Following0 DEF Registered
  <2>3. CASE g \in mutex
    <3>1. Served(g, c) /\ mutex' = {}
      BY <2>1, <2>3 DEF Served, WantInv
    <3> QED BY <2>1, <2>2, <2>3, <3>1 DEF Follows, LastTold, TookLast
  <2>4. CASE g \notin mutex
    <3>1. mutex' = mutex /\ \A h \in mutex : Served(h, c)' <=> Served(h, c)
      BY <2>1, <2>4 DEF Served, Emitting
    <3> QED BY <2>1, <2>2, <3>1 DEF Follows, LastTold, TookLast, NeverLast
  <2> QED BY <2>3, <2>4
<1>6. ASSUME NEW d \in Chans, Register(d) PROVE Follows(c)'
  <2>1. /\ NoEmit /\ d \in fresh /\ base' = [base EXCEPT ![d] = [status |-> status, lost |-> FALSE]]
        /\ UNCHANGED <<status, mutex, closed, seen, emit>>
    BY <1>6 DEF Register, Subscribe
  <2>2. CASE c = d
    <3>1. seen'[c] = <<>> /\ Status(seen'[c]) = {}
      BY <2>1, <2>2 DEF TableInv, Status, Places
    <3>2. mutex = {} => LastTold(c, status)'
      BY <2>1, <2>2, <3>1 DEF LastTold, TookLast, KnowInv
    <3> QED BY <2>1, <3>1, <3>2 DEF Follows, NeverLast, NoRepeat, Served, NoEmit, Emitting
  <2>3. CASE c # d
    <3>1. base'[c] = base[c] /\ c \in Registered
      BY <1>6, <2>1, <2>3, Adding DEF Register, Keeps, Following, KnowInv
    <3>2. Follows(c)
      BY <2>1, <3>1 DEF KnowInv, Keeps, Following, Hears
    <3> QED BY <2>1, <3>1, <3>2 DEF Follows, LastTold, TookLast, NeverLast, Served, Emitting
  <2> QED BY <2>2, <2>3
<1>7. ASSUME NEW d \in Chans, Unsubscribe(d) \/ UnsubscribeClosed(d), UNCHANGED vm_vars PROVE Follows(c)'
  <2>1. Registered' \subseteq Registered
    BY <1>7, Shrinking DEF Unsubscribe, UnsubscribeClosed
  <2> QED BY <1>1, <1>7, <2>1 DEF Unsubscribe, UnsubscribeClosed, vm_vars
<1>8. CASE CloseAll /\ UNCHANGED vm_vars
  <2>1. /\ closed \subseteq closed' /\ Registered' = Registered
        /\ UNCHANGED <<mutex, status, seen, emit, base>>
    BY <1>8 DEF CloseAll, vm_vars, Registered
  <2>2. Follows(c)
    BY <2>1, Following0
  <2> QED BY <2>1, <2>2 DEF Follows, LastTold, TookLast, NeverLast, Served, Emitting
<1> QED BY <1>1, <1>2, <1>3, <1>4, <1>5, <1>6, <1>7, <1>8 DEF Next, StoreMetrics, WriteSync, Receive, Cancel, Registered,
     bus_vars, vm_vars, vars


(***************************************************************************)
(* What a client knows of the metrics: its Sync came before its tap, and   *)
(* everything else after it.                                               *)
(***************************************************************************)
Forward(s, from, to) ==
  \A i \in Places("metrics", s) :
    /\ s[i][2] \in from .. to
    /\ \A j \in Places("metrics", s) : i < j => s[i][2] <= s[j][2]

Synchronized(c) ==
  IF sync[c] = NoSync THEN c \in fresh
  ELSE sync[c].status = Ready /\ sync[c].metrics \in 0 .. metrics /\ Forward(seen[c], sync[c].metrics, metrics)

Syncs == [status : {Ready, NoStatus}, metrics : 0 .. MaxMetrics]

SyncInv == sync \in [Taps -> Syncs] /\ \A c \in Taps : Synchronized(c)

LEMMA Measuring ==
  ASSUME NEW s \in Seq(Events), NEW e \in Events, NEW from \in Nat, NEW to \in Nat, from <= to,
         Forward(s, from, to), e[1] = "metrics" => e[2] = to
  PROVE  Forward(Append(s, e), from, to)
<1> DEFINE a == Append(s, e)
           n == Len(s) + 1
           old == Places("metrics", s)
           all == Places("metrics", a)
<1>1. /\ \A i \in old : i \in Nat /\ i < n /\ a[i] = s[i]
      /\ all = old \/ (all = old \union {n} /\ e[1] = "metrics")
      /\ a[n] = e /\ n \in Nat
  <2>1. \A i \in old : i \in Nat /\ i < n /\ a[i] = s[i]
    BY Placing
  <2>2. e[1] = "metrics" => all = old \union {n}
    BY Placing
  <2>3. e[1] # "metrics" => all = old
    BY Placing
  <2>4. a[n] = e /\ n \in Nat
    BY Appending
  <2> QED BY <2>1, <2>2, <2>3, <2>4
<1>2. /\ \A i \in old : s[i][2] \in from .. to
      /\ \A i, j \in old : i < j => s[i][2] <= s[j][2]
  BY DEF Forward
<1> HIDE DEF a, n, old, all
<1>3. \A i \in old : a[i][2] \in from .. to
  BY <1>1, <1>2
<1>4. \A i, j \in old : i < j => a[i][2] <= a[j][2]
  BY <1>1, <1>2
<1>5. CASE all = old
  BY <1>3, <1>4, <1>5 DEF Forward, a, all
<1>6. CASE all = old \union {n} /\ e[1] = "metrics"
  <2>1. a[n][2] = to /\ to \in from .. to
    BY <1>1, <1>6
  <2>2. \A i \in all : a[i][2] \in from .. to
    BY <1>3, <1>6, <2>1
  <2>3. ASSUME NEW i \in all, NEW j \in all, i < j PROVE a[i][2] <= a[j][2]
    <3>1. i \in old
      BY <1>1, <1>6, <2>3
    <3>2. CASE j = n
      BY <1>3, <2>1, <3>1, <3>2
    <3> QED BY <1>4, <1>6, <2>3, <3>1, <3>2
  <2> QED BY <2>2, <2>3 DEF Forward, a, all
<1> QED BY <1>1, <1>5, <1>6

LEMMA SyncStep == BusInv /\ TableInv /\ WantInv /\ SeenInv /\ SyncInv /\ [Next]_vars => SyncInv'
<1> SUFFICES ASSUME BusInv, TableInv, WantInv, SeenInv, SyncInv, [Next]_vars PROVE SyncInv'
  OBVIOUS
<1>1. MaxMetrics \in Nat /\ metrics \in 0 .. MaxMetrics
  BY LoopAssumption DEF WantInv
<1>2. CASE UNCHANGED <<sync, metrics, fresh, seen>>
  BY <1>2 DEF SyncInv, Synchronized, NoSync
<1>3. CASE StoreMetrics
  <2>1. metrics' = metrics + 1 /\ UNCHANGED <<sync, fresh, seen>>
    BY <1>3 DEF StoreMetrics, bus_vars
  <2>2. \A n \in Nat : n .. metrics \subseteq n .. metrics'
    BY <1>1, <2>1
  <2>3. ASSUME NEW c \in Taps PROVE Synchronized(c)'
    <3>1. sync[c].metrics \in Nat /\ Synchronized(c) /\ 0 \in Nat
      BY <1>1 DEF SyncInv, Syncs
    <3> QED BY <2>1, <2>2, <3>1 DEF Synchronized, Forward, NoSync
  <2> QED BY <2>1, <2>3 DEF SyncInv, NoSync
<1>4. ASSUME NEW g \in Goroutines, Deliver(g) PROVE SyncInv'
  <2>1. UNCHANGED <<sync, metrics, fresh>>
    BY <1>4 DEF Deliver, EmitSend
  <2>2. PICK d \in emit[g].todo :
          /\ d \in Chans /\ d \in Registered
          /\ \/ UNCHANGED <<seen, queued>>
             \/ seen' = [seen EXCEPT ![d] = Append(@, want[g])]
    BY <1>4, Delivering
  <2>3. g \in Emitting /\ want[g] \in Events
    BY <1>4, Delivering
  <2>4. ASSUME NEW c \in Taps PROVE Synchronized(c)'
    <3>1. Synchronized(c) /\ c \in Chans
      BY DEF SyncInv, Chans
    <3>2. CASE seen'[c] = seen[c]
      BY <2>1, <3>1, <3>2 DEF Synchronized, NoSync
    <3>3. CASE seen'[c] # seen[c]
      <4>1. c = d /\ seen'[c] = Append(seen[c], want[g]) /\ seen[c] \in Seq(Events)
        BY <2>2, <3>1, <3>3 DEF SeenInv
      <4>2. sync[c] # NoSync
        BY <2>2, <3>1, <4>1 DEF Synchronized, TableInv
      <4>3. sync[c].status = Ready /\ sync[c].metrics \in 0 .. metrics /\ Forward(seen[c], sync[c].metrics, metrics)
        BY <3>1, <4>2 DEF Synchronized
      <4>4. want[g][1] = "metrics" => want[g][2] = metrics
        BY <2>3 DEF WantInv
      <4>5. Forward(seen'[c], sync[c].metrics, metrics)
        BY <1>1, <2>3, <4>1, <4>3, <4>4, Measuring
      <4> QED BY <2>1, <4>2, <4>3, <4>5 DEF Synchronized, NoSync
    <3> QED BY <3>2, <3>3
  <2> QED BY <2>1, <2>4 DEF SyncInv, NoSync
<1>5. ASSUME NEW d \in Chans, Register(d) PROVE SyncInv'
  <2>1. /\ Synced(d) /\ fresh' = fresh \ {d} /\ UNCHANGED <<sync, metrics, seen>>
    BY <1>5 DEF Register, Subscribe
  <2> QED BY <2>1 DEF Synced, SyncInv, Synchronized, NoSync
<1>6. ASSUME NEW d \in Chans, WriteSync(d) PROVE SyncInv'
  <2>1. /\ d \in Taps /\ sync[d] = NoSync /\ sync' = [sync EXCEPT ![d] = [status |-> Ready, metrics |-> metrics]]
        /\ UNCHANGED <<metrics, fresh, seen>>
    BY <1>6 DEF WriteSync, bus_vars
  <2>2. d \in fresh /\ seen[d] = <<>>
    BY <2>1 DEF SyncInv, Synchronized, TableInv
  <2>3. Places("metrics", seen[d]) = {}
    BY <2>2 DEF Places
  <2>4. sync' \in [Taps -> Syncs]
    BY <1>1, <2>1 DEF SyncInv, Syncs
  <2>5. sync'[d] = [status |-> Ready, metrics |-> metrics] /\ metrics \in 0 .. metrics /\ sync'[d] # NoSync
    <3>1. sync'[d].status # NoSync.status
      BY <2>1 DEF SyncInv, NoSync, Ready, NoStatus
    <3> QED BY <1>1, <2>1, <3>1 DEF SyncInv
  <2>6. Synchronized(d)'
    BY <2>1, <2>3, <2>5 DEF Synchronized, Forward, NoSync
  <2>7. \A c \in Taps \ {d} : Synchronized(c)'
    BY <2>1 DEF SyncInv, Synchronized, NoSync
  <2> QED BY <2>4, <2>6, <2>7 DEF SyncInv, NoSync
<1> QED BY <1>2, <1>3, <1>4, <1>5, <1>6 DEF Next, Emit, EmitBegin, Unlock, EmitEnd, UpdateStatus,
     Unsubscribe, UnsubscribeClosed, Receive, Cancel, CloseAll, bus_vars, vm_vars, vars

(***************************************************************************)
(* The rest of the types.                                                  *)
(***************************************************************************)
RestInv ==
  /\ context \in {"live", "cancelled", "closed"} /\ unsubs \subseteq closed
  /\ updates \in 0 .. MaxUpdates

LEMMA RestStep == RestInv /\ [Next]_vars => RestInv'
<1> SUFFICES ASSUME RestInv, [Next]_vars PROVE RestInv'
  OBVIOUS
<1>1. context' \in {"live", "cancelled", "closed"}
  BY DEF RestInv, Next, Emit, EmitBegin, Deliver, EmitSend, Unlock, EmitEnd, UpdateStatus, StoreMetrics, Register,
     Subscribe, WriteSync, Unsubscribe, UnsubscribeClosed, Receive, Cancel, CloseAll, bus_vars, vm_vars, vars
<1>2. unsubs' \subseteq closed'
  <2>1. CASE UNCHANGED unsubs /\ closed \subseteq closed'
    BY <2>1 DEF RestInv
  <2>2. ASSUME NEW g \in Goroutines, Deliver(g) PROVE unsubs' \subseteq closed'
    BY <2>2 DEF RestInv, Deliver, EmitSend, Send
  <2>3. ASSUME NEW c \in Chans, UnsubscribeClosed(c) PROVE unsubs' \subseteq closed'
    BY <2>3 DEF RestInv, UnsubscribeClosed
  <2> QED BY <2>1, <2>2, <2>3 DEF Next, Emit, EmitBegin, Unlock, EmitEnd, UpdateStatus, StoreMetrics, Register,
       Subscribe, WriteSync, Unsubscribe, Receive, Cancel, CloseAll, bus_vars, vm_vars, vars
<1>3. updates' \in 0 .. MaxUpdates
  <2>1. CASE UNCHANGED updates
    BY <2>1 DEF RestInv
  <2>2. ASSUME NEW g \in Goroutines, NEW s \in Statuses, UpdateStatus(g, s) PROVE updates' \in 0 .. MaxUpdates
    BY <2>2, LoopAssumption DEF RestInv, UpdateStatus
  <2> QED BY <2>1, <2>2 DEF Next, Emit, Deliver, Unlock, StoreMetrics, Register, WriteSync, vm_vars, vars
<1> QED BY <1>1, <1>2, <1>3 DEF RestInv

FeedIInv == BusInv /\ TableInv /\ WantInv /\ SeenInv /\ KnowInv /\ SyncInv /\ RestInv

LEMMA FeedInvariance == Spec => []FeedIInv
<1>1. Init => FeedIInv
  <2> SUFFICES ASSUME Init PROVE FeedIInv
    OBVIOUS
  <2>1. emit = <<>> /\ Emitting = {} /\ Registered = {}
    <3>1. emit = <<>> /\ listeners = <<>> /\ taps = {}
      BY DEF Init, BusInit
    <3> QED BY <3>1 DEF Emitting, Registered
  <2>2. seen = [c \in Chans |-> <<>>] /\ fresh = Chans /\ taps = {} /\ listeners = <<>> /\ closed = {}
    BY DEF Init, BusInit
  <2>3. BusInv
    BY <2>1, <2>2 DEF BusInv, ServesRegistered
  <2>4. TableInv
    BY <2>1, <2>2 DEF TableInv
  <2>5. WantInv
    BY <2>1, LoopAssumption DEF Init, WantInv
  <2>6. SeenInv
    <3>1. queued = [c \in Chans |-> 0] /\ 0 \in 0 .. Cap
      BY CapAssumption DEF Init, BusInit
    <3>2. <<>> \in Seq(Events) /\ Len(<<>>) = 0
      OBVIOUS
    <3> QED BY <2>2, <3>1, <3>2 DEF SeenInv
  <2>7. KnowInv
    BY <2>1 DEF Init, KnowInv, Keeps, Following
  <2>8. SyncInv
    <3>1. sync = [c \in Taps |-> NoSync] /\ NoSync \in Syncs
      BY LoopAssumption DEF Init, NoSync, Syncs
    <3> QED BY <2>2, <3>1 DEF SyncInv, Synchronized, Chans
  <2>9. RestInv
    BY <2>2, LoopAssumption DEF Init, BusInit, RestInv
  <2> QED BY <2>3, <2>4, <2>5, <2>6, <2>7, <2>8, <2>9 DEF FeedIInv
<1>2. FeedIInv /\ [Next]_vars => FeedIInv'
  BY BusStep, TableStep, WantStep, SeenStep, KnowStep, SyncStep, RestStep DEF FeedIInv
<1> QED BY <1>1, <1>2, PTL DEF Spec

\* Whatever goroutines change the status, and however they and the subscribers
\* interleave: the bus's tables, the channels and the machine's fields are well
\* typed, and vm.mutex is held by whoever has set a status it has still to emit.
THEOREM FeedTyped == Spec => []TypeOK
<1>1. FeedIInv => TypeOK
  <2> SUFFICES ASSUME FeedIInv PROVE TypeOK
    OBVIOUS
  <2>1. BusTypeOK
    BY RegisteredTyped DEF FeedIInv, TableInv, SeenInv, RestInv, BusInv, ServesRegistered, WantInv, BusTypeOK
  <2>2. Cardinality(mutex) <= 1
    <3>1. CASE mutex = {}
      BY <3>1, FS_EmptySet
    <3>2. CASE mutex # {}
      <4>1. PICK g : mutex = {g}
        BY <3>2 DEF FeedIInv, WantInv
      <4> QED BY <4>1, FS_Singleton
    <3> QED BY <3>1, <3>2
  <2>3. \A g \in Goroutines \ {Loop} : g \in mutex <=> want[g] # NoEvent
    BY EventsAre DEF FeedIInv, WantInv
  <2> QED BY <2>1, <2>2, <2>3 DEF FeedIInv, WantInv, SyncInv, Syncs, RestInv, TypeOK
<1> QED BY <1>1, FeedInvariance, PTL

\* Any subscriber to the status that keeps up misses no change of it, for any number
\* of goroutines that make them in any order, and is not told the same twice. A
\* client of the control socket shows the status, unless it joined under one that
\* its Sync, which is always ready, withheld and that has not changed since.
THEOREM CurrentFeedCorrect == Spec => []FeedIsCurrent
<1>1. FeedIInv => FeedIsCurrent
  <2> SUFFICES ASSUME FeedIInv, NEW c \in Chans, Following(c), Hears(c, "status")
               PROVE  /\ mutex = {} => LastTold(c, status)
                      /\ mutex = {} /\ c \in Taps => Shows(c, status) \/ Misled(c)
                      /\ NoRepeat(seen[c])
    BY DEF FeedIsCurrent
  <2>1. (mutex = {} => LastTold(c, status)) /\ NoRepeat(seen[c])
    BY DEF FeedIInv, KnowInv, Keeps, Follows
  <2>2. c \in Taps => sync[c].status = Ready
    BY DEF Following, FeedIInv, TableInv, SyncInv, Synchronized
  <2> QED BY <2>1, <2>2 DEF LastTold, Shows, Misled
<1> QED BY <1>1, FeedInvariance, PTL

\* The metrics that any client of the control socket gets never go back, from its
\* Sync on, although they are emitted outside of vm.mutex.
THEOREM MetricsCorrect == Spec => []MetricsGoForward
<1>1. FeedIInv => MetricsGoForward
  <2> SUFFICES ASSUME FeedIInv, NEW c \in Taps, sync[c] # NoSync,
                      NEW i \in Places("metrics", seen[c])
               PROVE  /\ seen[c][i][2] >= sync[c].metrics
                      /\ \A j \in Places("metrics", seen[c]) : i < j => seen[c][i][2] <= seen[c][j][2]
    BY DEF MetricsGoForward
  <2>1. sync[c].metrics \in Nat /\ seen[c][i][2] \in sync[c].metrics .. metrics /\ metrics \in Nat
    BY LoopAssumption DEF FeedIInv, SyncInv, Syncs, Synchronized, Forward, WantInv
  <2>2. seen[c][i][2] >= sync[c].metrics
    BY <2>1
  <2> QED BY <2>2 DEF FeedIInv, SyncInv, Synchronized, Forward
<1> QED BY <1>1, FeedInvariance, PTL
=============================================================================
