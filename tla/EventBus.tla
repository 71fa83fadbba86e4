------------------------------- MODULE EventBus -------------------------------
(***************************************************************************)
(* The event bus (internal/event/pubsub.go): goroutines emit, channels are *)
(* registered with Tap for all events or with Listen for one type.         *)
(*                                                                         *)
(* Emit holds the bus mutex shared while it sends, without blocking, to one*)
(* channel after the other; registering, unregistering and the function    *)
(* that runs after the context is cancelled hold it exclusively, and are   *)
(* one step each, possible when no Emit is under way.                      *)
(***************************************************************************)
EXTENDS Naturals, Sequences, FiniteSets

CONSTANTS Goroutines,  \* that emit
          Types,       \* of events
          Taps,        \* channels for Tap
          Typed,       \* channels for Listen: a function to their types
          Cap          \* capacity of every channel

ASSUME CapAssumption == Cap \in Nat \ {0}
ASSUME ChansAssumption == Typed \in [DOMAIN Typed -> Types] /\ Taps \cap DOMAIN Typed = {}

Chans == Taps \union DOMAIN Typed

VARIABLES
  taps,       \* bus.taps
  listeners,  \* bus.listeners: by type, the registered channels; no key, no channels
  context,    \* "live", "cancelled", and "closed" once the channels were closed
  closed,     \* closed channels
  queued,     \* how many values wait in each channel
  fresh,      \* channels nobody registered yet: each is made for one subscriber
  seen,       \* all values each channel took
  emit,       \* for each goroutine in Emit, its event and the channels still to serve
  unsubs      \* channels that an Emit found closed and a new goroutine unregisters

bus_vars == <<taps, listeners, context, closed, fresh, queued, seen, emit, unsubs>>

Listening(t) == IF t \in DOMAIN listeners THEN listeners[t] ELSE {}
Registered == taps \union UNION {listeners[t] : t \in DOMAIN listeners}
Emitting == DOMAIN emit

BusTypeOK ==
  /\ taps \subseteq Taps
  /\ \A t \in DOMAIN listeners :
       t \in Types /\ listeners[t] # {} /\ \A c \in listeners[t] : Typed[c] = t
  /\ context \in {"live", "cancelled", "closed"}
  /\ closed \subseteq Chans /\ unsubs \subseteq closed
  /\ fresh \subseteq Chans \ (Registered \union closed)
  /\ queued \in [Chans -> 0 .. Cap] /\ \A c \in Chans : queued[c] <= Len(seen[c])
  /\ Emitting \subseteq Goroutines
  /\ \A g \in Emitting : emit[g].todo \subseteq Registered

BusInit ==
  /\ taps = {} /\ listeners = <<>> /\ context = "live"
  /\ closed = {} /\ unsubs = {} /\ fresh = Chans
  /\ queued = [c \in Chans |-> 0] /\ seen = [c \in Chans |-> <<>>]
  /\ emit = <<>>

EmitsIgnored == TRUE
\* the exclusive lock
NoEmit == Emitting = {}

(***************************************************************************)
(* Emit.                                                                   *)
(***************************************************************************)
EmitBegin(g, t, e) ==
  /\ g \notin Emitting
  /\ emit' = [x \in Emitting \union {g} |->
                IF x = g THEN [event |-> e, todo |-> taps \union Listening(t)] ELSE emit[x]]
  /\ UNCHANGED <<taps, listeners, context, closed, fresh, queued, seen, unsubs>>

\* taps come before listeners
NextChans(todo) == IF todo \cap Taps # {} THEN todo \cap Taps ELSE todo

SendBlocking(c, e) ==
  /\ c \in closed \/ queued[c] < Cap
  /\ IF c \in closed
     THEN unsubs' = unsubs \union {c} /\ UNCHANGED <<queued, seen>>
     ELSE /\ queued' = [queued EXCEPT ![c] = @ + 1]
          /\ seen' = [seen EXCEPT ![c] = Append(@, e)]
          /\ UNCHANGED unsubs

\* send: dropped when the channel is full, recovered when it is closed
Send(c, e) ==
  CASE c \in closed -> unsubs' = unsubs \union {c} /\ UNCHANGED <<queued, seen>>
    [] c \notin closed /\ queued[c] < Cap ->
         /\ queued' = [queued EXCEPT ![c] = @ + 1]
         /\ seen' = [seen EXCEPT ![c] = Append(@, e)]
         /\ UNCHANGED unsubs
    [] OTHER -> UNCHANGED <<queued, seen, unsubs>>

EmitSend(g) ==
  /\ g \in Emitting
  /\ \E c \in NextChans(emit[g].todo) :
       /\ Send(c, emit[g].event)
       /\ emit' = [emit EXCEPT ![g].todo = @ \ {c}]
  /\ UNCHANGED <<taps, listeners, context, closed, fresh>>

EmitEnd(g) ==
  /\ g \in Emitting /\ emit[g].todo = {}
  /\ emit' = [x \in Emitting \ {g} |-> emit[x]]
  /\ UNCHANGED <<taps, listeners, context, closed, fresh, queued, seen, unsubs>>

(***************************************************************************)
(* Registration.                                                           *)
(***************************************************************************)
Subscribe(c) ==
  /\ NoEmit /\ c \in fresh /\ fresh' = fresh \ {c}
  /\ IF c \in Taps
     THEN taps' = taps \union {c} /\ UNCHANGED listeners
     ELSE LET t == Typed[c] IN
          /\ listeners' = [x \in DOMAIN listeners \union {t} |->
                             IF x = t THEN Listening(t) \union {c} ELSE listeners[x]]
          /\ UNCHANGED taps
  /\ UNCHANGED <<context, closed, queued, seen, emit, unsubs>>

\* Untap and Unlisten; the last listener of a type takes the type with it
Remove(c) ==
  IF c \in Taps
  THEN taps' = taps \ {c} /\ UNCHANGED listeners
  ELSE LET kept == {x \in DOMAIN listeners : listeners[x] # {c}} IN
       /\ listeners' = [x \in kept |-> listeners[x] \ {c}]
       /\ UNCHANGED taps

Unsubscribe(c) ==
  /\ NoEmit /\ c \in Registered
  /\ Remove(c)
  /\ UNCHANGED <<context, closed, fresh, queued, seen, emit, unsubs>>

UnsubscribeClosed(c) ==
  /\ NoEmit /\ c \in unsubs
  /\ Remove(c)
  /\ unsubs' = unsubs \ {c}
  /\ UNCHANGED <<context, closed, fresh, queued, seen, emit>>

(***************************************************************************)
(* The subscriber, and the end of the context.                             *)
(***************************************************************************)
Receive(c) ==
  /\ queued[c] > 0 /\ queued' = [queued EXCEPT ![c] = @ - 1]
  /\ UNCHANGED <<taps, listeners, context, closed, fresh, seen, emit, unsubs>>

Cancel ==
  /\ context = "live" /\ context' = "cancelled"
  /\ UNCHANGED <<taps, listeners, closed, fresh, queued, seen, emit, unsubs>>

\* the function given to context.AfterFunc; it leaves the channels registered
CloseAll ==
  /\ context = "cancelled" /\ NoEmit
  /\ context' = "closed" /\ closed' = closed \union Registered
  /\ UNCHANGED <<taps, listeners, fresh, queued, seen, emit, unsubs>>

(***************************************************************************)
(* Properties.                                                             *)
(***************************************************************************)
\* Once Untap or Unlisten has returned, the channel takes nothing more, from
\* whatever Emit that began before: its owner may stop reading it. And one
\* channel at most leaves at a time, whichever the others of its type are.
SilentOnceRemoved ==
  [][/\ \A c \in Chans : seen'[c] # seen[c] => c \in Registered
     /\ Cardinality(Registered \ Registered') <= 1]_bus_vars

\* Emit, which holds the bus, never waits for a subscriber: full channels,
\* closed ones and those nobody reads do not hold it up.
EmitNeverWaits == \A g \in Emitting : ENABLED (EmitSend(g) \/ EmitEnd(g))
=============================================================================
