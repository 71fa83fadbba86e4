---------------------------- MODULE IdleStopProofs ----------------------------
(***************************************************************************)
(* Proofs about IdleStop, for any number of connections, delay and signals.*)
(***************************************************************************)
EXTENDS IdleStop, FiniteSetTheorems, SequenceTheorems, TLAPS

(***************************************************************************)
(* Where a handler is tells where its proxy may be: a copy that was cut off*)
(* was so by its client, which had closed or would not stop sending, and   *)
(* one that ended with the proxy had the answer.                           *)
(***************************************************************************)
Gone(c) == client[c] # "open" \/ c \in Talkers \/ ~guestUp

PairInv ==
  \A c \in Conns :
    /\ conn[c] \in {"new", "add", "dial"} => stream[c] = "none"
    /\ conn[c] = "ask" => stream[c] # "none"
    /\ conn[c] = "cut" => client[c] # "open" \/ c \in Talkers
    /\ conn[c] \in {"sub", "closed"} /\ stream[c] \in {"asked", "open", "answered", "sent"} => Gone(c)

\* Connections are counted one by one.
LEMMA CountedFinite == IsFiniteSet(Counted) /\ Cardinality(Counted) \in 0 .. Cardinality(Conns)
<1>1. Counted \subseteq Conns
  BY DEF Counted
<1>2. IsFiniteSet(Counted) /\ Cardinality(Counted) <= Cardinality(Conns)
  BY <1>1, ConnsAssumption, FS_Subset
<1> QED BY <1>2, ConnsAssumption, FS_CardinalityType

LEMMA CountedNext == IsFiniteSet(Counted') /\ Cardinality(Counted') \in 0 .. Cardinality(Conns)
<1>1. Counted' \subseteq Conns
  BY DEF Counted
<1>2. IsFiniteSet(Counted') /\ Cardinality(Counted') <= Cardinality(Conns)
  BY <1>1, ConnsAssumption, FS_Subset
<1> QED BY <1>2, ConnsAssumption, FS_CardinalityType

ConnTypes ==
  /\ conn \in [Conns -> {"new", "add", "dial", "ask", "copy", "cut", "sub", "closed"}]
  /\ client \in [Conns -> {"open", "half", "gone"}]
  /\ stream \in [Conns -> {"none", "asked", "refused", "open", "answered", "sent", "got", "lost"}]
  /\ \A c \in Conns : conn[c] \in {"copy", "cut"} => stream[c] \in {"open", "answered", "sent", "got", "lost"}

LEMMA ConnStep == ConnTypes /\ PairInv /\ [Next]_vars => ConnTypes'
<1> SUFFICES ASSUME ConnTypes, PairInv, [Next]_vars PROVE ConnTypes'
  OBVIOUS
<1> USE DEF ConnTypes, Goes, Moves
<1>1. CASE UNCHANGED conn_vars
  BY <1>1 DEF conn_vars
<1>2. ASSUME NEW c \in Conns, Handler(c) PROVE ConnTypes'
  <2>1. CASE Accept(c) \/ Add(c) \/ Sub(c)
    BY <2>1 DEF Accept, Add, Sub
  <2>2. CASE Dial(c)
    BY <2>2 DEF Dial
  <2>3. CASE Asked(c)
    BY <2>3 DEF Asked, PairInv
  <2>4. CASE CopyIn(c) \/ WriteFails(c)
    BY <2>4 DEF CopyIn, WriteFails
  <2>5. CASE CopyOut(c)
    BY <2>5 DEF CopyOut
  <2>6. CASE Copied(c)
    BY <2>6 DEF Copied
  <2> QED BY <1>2, <2>1, <2>2, <2>3, <2>4, <2>5, <2>6 DEF Handler
<1>3. ASSUME NEW c \in Conns, Proxy(c) \/ Answer(c) PROVE ConnTypes'
  BY <1>3 DEF Proxy, ServeStreamProxy, CopyAnswer, Answer
<1>4. ASSUME NEW c \in Conns, Leave(c) PROVE ConnTypes'
  BY <1>4 DEF Leave
<1> QED BY <1>1, <1>2, <1>3, <1>4 DEF Next, Main, Tick, Expire, ForwardSockets, SignalLoop, StopService,
     TaskStart, GuestStops, Deliver, vars

\* Handlers and proxies keep to what the other knows.
LEMMA PairStep == TypeOK /\ PairInv /\ AnswerReaches /\ [Next]_vars => PairInv' /\ AnswerReaches'
<1> SUFFICES ASSUME TypeOK, PairInv, AnswerReaches, [Next]_vars PROVE PairInv' /\ AnswerReaches'
  OBVIOUS
<1>0. ConnTypes
  BY DEF ConnTypes, TypeOK
<1> USE <1>0 DEF ConnTypes, PairInv, AnswerReaches, Gone, Goes, Moves
<1>1. CASE UNCHANGED conn_vars /\ (guestUp' => guestUp)
  BY <1>1 DEF conn_vars
<1>2. ASSUME NEW c \in Conns, Handler(c) PROVE PairInv' /\ AnswerReaches'
  <2>1. CASE Accept(c) \/ Add(c) \/ Sub(c)
    BY <2>1 DEF Accept, Add, Sub
  <2>2. CASE Dial(c)
    BY <2>2 DEF Dial
  <2>3. CASE Asked(c)
    BY <2>3 DEF Asked
  <2>4. CASE CopyIn(c) \/ WriteFails(c)
    BY <2>4 DEF CopyIn, WriteFails
  <2>5. CASE CopyOut(c)
    BY <2>5 DEF CopyOut
  <2>6. CASE Copied(c)
    BY <2>6 DEF Copied, ProxyClosed
  <2> QED BY <1>2, <2>1, <2>2, <2>3, <2>4, <2>5, <2>6 DEF Handler
<1>3. ASSUME NEW c \in Conns, Proxy(c) \/ Answer(c) PROVE PairInv' /\ AnswerReaches'
  <2>1. CASE ServeStreamProxy(c)
    BY <2>1 DEF ServeStreamProxy
  <2>2. CASE CopyAnswer(c)
    BY <2>2 DEF CopyAnswer
  <2>3. CASE Answer(c)
    BY <2>3 DEF Answer
  <2> QED BY <1>3, <2>1, <2>2, <2>3 DEF Proxy
<1>4. ASSUME NEW c \in Conns, Leave(c) PROVE PairInv' /\ AnswerReaches'
  BY <1>4 DEF Leave
<1> QED BY <1>1, <1>2, <1>3, <1>4 DEF Next, Main, Tick, Expire, ForwardSockets, SignalLoop, StopService,
     TaskStart, GuestStops, Deliver, vars

(***************************************************************************)
(* The latch.                                                              *)
(***************************************************************************)
LatchCount == count \in Nat /\ CountIsOpen /\ StopMeansIdle

\* The count goes up with the first step of a handler that is counted, and down
\* with its last, and the latch that has stopped lets no handler take the first.
LEMMA CountStep == TypeOK /\ LatchCount /\ [Next]_vars => LatchCount'
<1> SUFFICES ASSUME TypeOK, LatchCount, [Next]_vars PROVE LatchCount'
  OBVIOUS
<1>0. conn \in [Conns -> {"new", "add", "dial", "ask", "copy", "cut", "sub", "closed"}]
      /\ latch \in {"run", "stopped"}
  BY DEF TypeOK
<1> USE DEF Goes, LatchCount, CountIsOpen, StopMeansIdle
<1>1. CASE UNCHANGED <<conn, count, latch>>
  BY <1>1 DEF Counted
<1>2. ASSUME NEW c \in Conns, Add(c) PROVE LatchCount'
  <2>1. Counted' = Counted \union {c} /\ c \notin Counted
    BY <1>0, <1>2 DEF Add, Counted
  <2>2. Cardinality(Counted') = Cardinality(Counted) + 1
    BY <2>1, CountedFinite, FS_AddElement
  <2>3. latch = "run" /\ latch' = "run" /\ count' = count + 1
    BY <1>2 DEF Add, Added
  <2>4. count' = Cardinality(Counted') /\ count' \in Nat
    BY <2>2, <2>3
  <2> QED BY <2>3, <2>4
<1>3. ASSUME NEW c \in Conns, Sub(c) PROVE LatchCount'
  <2>1. Counted' = Counted \ {c} /\ c \in Counted
    BY <1>0, <1>3 DEF Sub, Counted
  <2>2. Cardinality(Counted') = Cardinality(Counted) - 1
    BY <2>1, CountedFinite, FS_RemoveElement
  <2>3. latch = "run" /\ latch' = "run" /\ count' = count - 1
    BY <1>3 DEF Sub, Added
  <2>4. count' = Cardinality(Counted') /\ count' \in Nat
    BY <2>2, <2>3, CountedNext
  <2> QED BY <2>3, <2>4
<1>4. CASE Expire
  <2>1. conn' = conn /\ count' = count /\ (latch' = "stopped" => latch = "stopped" \/ count = 0)
    BY <1>4 DEF Expire, conn_vars
  <2>2. Counted' = Counted
    BY <2>1 DEF Counted
  <2>3. count = 0 => Counted = {}
    BY CountedFinite, FS_EmptySet
  <2> QED BY <2>1, <2>2, <2>3
<1>5. ASSUME NEW c \in Conns, Handler(c), UNCHANGED <<count, latch>> PROVE LatchCount'
  <2>1. Counted' = Counted
    BY <1>0, <1>5 DEF Handler, Accept, Add, Added, Dial, Asked, CopyIn, WriteFails, CopyOut, Copied, Sub, Counted
  <2> QED BY <1>5, <2>1
<1> QED BY <1>1, <1>2, <1>3, <1>4, <1>5 DEF Next, Main, Handler, Proxy, Tick, ForwardSockets, SignalLoop,
     StopService, Accept, Dial, Asked, CopyIn, WriteFails, CopyOut, Copied, ServeStreamProxy, CopyAnswer, Answer, Leave,
     TaskStart, GuestStops, Deliver, conn_vars, latch_vars, vars

LEMMA TypeStep == TypeOK /\ PairInv /\ LatchCount /\ [Next]_vars => TypeOK'
<1> SUFFICES ASSUME TypeOK, PairInv, LatchCount, [Next]_vars PROVE TypeOK'
  OBVIOUS
<1>1. count' \in 0 .. Cardinality(Conns)
  BY CountStep, CountedNext DEF LatchCount, CountIsOpen
<1>2. elapsed' \in 0 .. Delay
  <2>1. elapsed \in 0 .. Delay
    BY DEF TypeOK
  <2>2. elapsed' \in {elapsed, 0} \/ (elapsed < Delay /\ elapsed' = elapsed + 1)
    BY DEF Next, Main, Handler, Proxy, Tick, Expire, ForwardSockets, SignalLoop, StopService,
       Accept, Add, Sub, Added, RestartTimer, Dial, Asked, CopyIn, WriteFails, CopyOut, Copied, ServeStreamProxy, CopyAnswer,
       Answer, Leave, TaskStart, GuestStops, Deliver, latch_vars, vars
  <2> QED BY <2>1, <2>2, DelayAssumption
<1>3. sent' \in 0 .. Signals
  <2>1. sent \in 0 .. Signals
    BY DEF TypeOK
  <2>2. sent' = sent \/ (sent < Signals /\ sent' = sent + 1)
    BY DEF Next, Main, Handler, Proxy, Tick, Expire, ForwardSockets, SignalLoop, StopService,
       Accept, Add, Sub, Dial, Asked, CopyIn, WriteFails, CopyOut, Copied, ServeStreamProxy, CopyAnswer,
       Answer, Leave, TaskStart, GuestStops, Deliver, sig_vars, vars
  <2> QED BY <2>1, <2>2, SignalsAssumption
<1>4. sigCh' \in Seq({"term", "other"}) /\ Len(sigCh') <= 1
  <2>1. sigCh \in Seq({"term", "other"}) /\ Len(sigCh) <= 1
    BY DEF TypeOK
  <2>2. \/ sigCh' = sigCh
        \/ \E s \in {"term", "other"} : sigCh' = <<s>>
        \/ sigCh # <<>> /\ sigCh' = Tail(sigCh)
    BY DEF Next, Main, Handler, Proxy, Tick, Expire, ForwardSockets, SignalLoop, StopService,
       Accept, Add, Sub, Dial, Asked, CopyIn, WriteFails, CopyOut, Copied, ServeStreamProxy, CopyAnswer,
       Answer, Leave, TaskStart, GuestStops, Deliver, sig_vars, vars
  <2>3. CASE sigCh' = sigCh
    BY <2>1, <2>3
  <2>4. ASSUME NEW s \in {"term", "other"}, sigCh' = <<s>> PROVE sigCh' \in Seq({"term", "other"}) /\ Len(sigCh') <= 1
    BY <2>4
  <2>5. CASE sigCh # <<>> /\ sigCh' = Tail(sigCh)
    BY <2>1, <2>5
  <2> QED BY <2>2, <2>3, <2>4, <2>5
<1>5. /\ pc' \in {"forward", "loop", "stopping", "exit", "panic"}
      /\ guestUp' \in BOOLEAN
  <2>1. /\ pc \in {"forward", "loop", "stopping", "exit", "panic"}
        /\ guestUp \in BOOLEAN
    BY DEF TypeOK
  <2>2. guestUp' = guestUp \/ guestUp' = FALSE
    BY DEF Next, Main, Handler, Proxy, Tick, Expire, ForwardSockets, SignalLoop, AfterSignal, StopService,
       Accept, Add, Sub, Added, Dial, Asked, CopyIn, WriteFails, CopyOut, Copied, ServeStreamProxy, CopyAnswer,
       Answer, Leave, TaskStart, GuestStops, Deliver, latch_vars, sig_vars, vars
  <2>3. pc' = pc \/ pc' \in {"loop", "stopping", "exit", "panic"}
    BY DEF Next, Main, Handler, Proxy, Tick, Expire, ForwardSockets, SignalLoop, AfterSignal, StopService,
       Accept, Add, Sub, Added, Dial, Asked, CopyIn, WriteFails, CopyOut, Copied, ServeStreamProxy, CopyAnswer,
       Answer, Leave, TaskStart, GuestStops, Deliver, latch_vars, sig_vars, vars
  <2> QED BY <2>1, <2>2, <2>3
<1>6. latch' \in {"run", "stopped"} /\ closed' \in BOOLEAN /\ (closed' => latch' = "stopped")
  <2>1. latch \in {"run", "stopped"} /\ closed \in BOOLEAN /\ (closed => latch = "stopped")
    BY DEF TypeOK
  <2>2. \/ latch' = latch /\ closed' = closed
        \/ latch' = "stopped" /\ closed' = TRUE
    BY DEF Next, Main, Handler, Proxy, Tick, Expire, ForwardSockets, SignalLoop, AfterSignal, StopService,
       Accept, Add, Sub, Added, Dial, Asked, CopyIn, WriteFails, CopyOut, Copied, ServeStreamProxy, CopyAnswer,
       Answer, Leave, TaskStart, GuestStops, Deliver, latch_vars, sig_vars, vars
  <2>3. CASE latch' = latch /\ closed' = closed
    BY <2>1, <2>3
  <2>4. CASE latch' = "stopped" /\ closed' = TRUE
    BY <2>4
  <2> QED BY <2>2, <2>3, <2>4
<1>7. ConnTypes'
  BY ConnStep DEF ConnTypes, TypeOK
<1> QED BY <1>1, <1>2, <1>3, <1>4, <1>5, <1>6, <1>7 DEF ConnTypes, TypeOK

IInv == TypeOK /\ PairInv /\ AnswerReaches /\ LatchCount

LEMMA Invariance == Spec => []IInv
<1>1. Init => IInv
  <2> SUFFICES ASSUME Init PROVE IInv
    OBVIOUS
  <2>1. count = 0 /\ elapsed = 0 /\ sent = 0 /\ sigCh = <<>>
    BY Zenon DEF Init
  <2>2. conn = [c \in Conns |-> "new"] /\ client = [c \in Conns |-> "open"] /\ stream = [c \in Conns |-> "none"]
    BY DEF Init
  <2>3. Counted = {} /\ Cardinality(Counted) = 0
    BY <2>2, FS_EmptySet DEF Counted
  <2>4. count \in 0 .. Cardinality(Conns) /\ elapsed \in 0 .. Delay /\ sent \in 0 .. Signals
    BY <2>1, CountedFinite, <2>3, DelayAssumption, SignalsAssumption
  <2>5. sigCh \in Seq({"term", "other"}) /\ Len(sigCh) <= 1
    BY <2>1
  <2>6. TypeOK
    BY <2>2, <2>4, <2>5 DEF Init, TypeOK
  <2>7. LatchCount
    BY <2>1, <2>3 DEF LatchCount, CountIsOpen, StopMeansIdle
  <2> QED BY <2>2, <2>6, <2>7 DEF IInv, PairInv, AnswerReaches
<1>2. IInv /\ [Next]_vars => IInv'
  BY PairStep, CountStep, TypeStep DEF IInv
<1> QED BY <1>1, <1>2, PTL DEF Spec

\* For any number of connections, delay and signals: the latch counts the open
\* connections, and the daemon stops for idleness only when there are none.
THEOREM LatchCorrect == Spec => []LatchInv
<1>1. IInv => LatchInv
  BY DEF IInv, LatchInv, LatchCount
<1> QED BY <1>1, Invariance, PTL

\* Whichever copy ends first and whoever closes what: the answer of the service is
\* not lost to a client that has asked and listens, while the guest is up.
THEOREM AnswerCorrect == Spec => []AnswerReaches
<1>1. IInv => AnswerReaches
  BY DEF IInv
<1> QED BY <1>1, Invariance, PTL

(***************************************************************************)
(* The daemon's end.  IdleStop implements DaemonLife: a closed sigCh is the*)
(* idle daemon, and "term" on its way to the loop is a request.            *)
(***************************************************************************)
Seen == <<Life, At, sent>>

LEMMA LifeInit == Init => Daemon!Init
<1> SUFFICES ASSUME Init PROVE Daemon!Init
  OBVIOUS
<1>1. pc = "forward" /\ ~closed /\ sigCh = <<>> /\ sent = 0 /\ conn = [c \in Conns |-> "new"]
  BY Zenon DEF Init
<1>2. Life = "up"
  BY <1>1 DEF Life, StopRequested, Alive
<1>3. At = [c \in Conns |-> "out"]
  BY <1>1 DEF At
<1> QED BY <1>1, <1>2, <1>3 DEF Daemon!Init

\* What sigCh can hold, and who closes it.
LEMMA SigChIs == TypeOK => /\ sigCh # <<>> => Head(sigCh) \in {"term", "other"} /\ Tail(sigCh) = <<>>
                           /\ closed => latch = "stopped"
<1> SUFFICES ASSUME TypeOK PROVE /\ sigCh # <<>> => Head(sigCh) \in {"term", "other"} /\ Tail(sigCh) = <<>>
                                 /\ closed => latch = "stopped"
  OBVIOUS
<1>1. sigCh \in Seq({"term", "other"}) /\ Len(sigCh) <= 1
  BY DEF TypeOK
<1>2. CASE sigCh # <<>>
  <2>1. /\ Head(sigCh) \in {"term", "other"} /\ Tail(sigCh) \in Seq({"term", "other"})
        /\ Len(Tail(sigCh)) = Len(sigCh) - 1 /\ Len(sigCh) \in Nat
    BY <1>1, <1>2, HeadTailProperties
  <2>2. Len(Tail(sigCh)) = 0
    <3>1. Len(Tail(sigCh)) \in Nat
      BY <2>1, LenProperties
    <3> QED BY <1>1, <2>1, <3>1
  <2>3. Tail(sigCh) = <<>>
    BY <2>1, <2>2, EmptySeq
  <2> QED BY <2>1, <2>3 DEF TypeOK
<1> QED BY <1>2 DEF TypeOK

\* The ends of a handler's way are those of its client's.
LEMMA HandlerSeen == ASSUME TypeOK, NEW c \in Conns, Handler(c) PROVE [Daemon!Next]_Seen
<1>0. conn \in [Conns -> {"new", "add", "dial", "ask", "copy", "cut", "sub", "closed"}]
  BY DEF TypeOK
<1>1. Alive /\ UNCHANGED <<pc, closed, sigCh, sent>>
  BY DEF Handler, Accept, Add, Dial, Asked, CopyIn, WriteFails, CopyOut, Copied, Sub, Goes, sig_vars
<1>2. Life' = Life
  BY <1>1 DEF Life, StopRequested, Alive
<1>3. CASE Add(c)
  <2>1. ~closed
    BY <1>3, SigChIs DEF Add, Added
  <2>2. Life \in {"up", "asked"}
    BY <1>1, <2>1 DEF Life, Alive
  <2>3. At[c] = "out" /\ At' = [At EXCEPT ![c] = "in"]
    BY <1>0, <1>3 DEF Add, Goes, At
  <2> QED BY <1>1, <1>2, <2>2, <2>3 DEF Daemon!Next, Daemon!Admit
<1>4. CASE Sub(c)
  <2>1. ~closed
    BY <1>4, SigChIs DEF Sub, Added
  <2>2. Life \in {"up", "asked"}
    BY <1>1, <2>1 DEF Life, Alive
  <2>3. At[c] = "in" /\ At' = [At EXCEPT ![c] = "left"]
    BY <1>0, <1>4 DEF Sub, Goes, At
  <2> QED BY <1>1, <1>2, <2>2, <2>3 DEF Daemon!Next, Daemon!Leave
<1>5. CASE Accept(c) \/ Dial(c) \/ Asked(c) \/ CopyIn(c) \/ WriteFails(c) \/ CopyOut(c) \/ Copied(c)
  <2>1. At' = At
    BY <1>0, <1>5 DEF Accept, Dial, Asked, CopyIn, WriteFails, CopyOut, Copied, Goes, At
  <2> QED BY <1>1, <1>2, <2>1 DEF Seen
<1> QED BY <1>3, <1>4, <1>5 DEF Handler

\* The latch stops a daemon that nobody is in.
LEMMA ExpireSeen == ASSUME TypeOK, LatchCount, Expire PROVE [Daemon!Next]_Seen
<1>1. Alive /\ UNCHANGED <<pc, sigCh, sent, conn>> /\ latch = "run"
  BY DEF Expire, conn_vars
<1>2. At' = At /\ ~closed
  BY <1>1, SigChIs DEF At
<1>3. CASE count = 0
  <2>1. Counted = {}
    BY <1>3, CountedFinite, FS_EmptySet DEF LatchCount, CountIsOpen
  <2>2. \A c \in Conns : At[c] # "in"
    BY <2>1 DEF At, Counted, TypeOK
  <2>3. Life \in {"up", "asked"}
    BY <1>1, <1>2 DEF Life, Alive
  <2>4. closed'
    BY <1>3, Zenon DEF Expire
  <2>5. Life' = "idle"
    BY <1>1, <2>4 DEF Life, Alive
  <2> QED BY <1>1, <1>2, <2>2, <2>3, <2>5 DEF Daemon!Next, Daemon!BecomeIdle
<1>4. CASE count # 0
  <2>1. closed' = closed
    BY <1>4 DEF Expire
  <2> QED BY <1>1, <1>2, <2>1 DEF Seen, Life, Alive, StopRequested
<1> QED BY <1>3, <1>4

\* A signal is a request if it is "term" and finds room.
LEMMA SignalSeen == ASSUME TypeOK, NEW s \in {"term", "other"}, Deliver(s) PROVE [Daemon!Next]_Seen
<1>1. Alive /\ sent' = sent + 1 /\ closed' = closed /\ At' = At
  BY DEF Deliver, conn_vars, At
<1>2. CASE closed
  <2>1. Life = "idle"
    BY <1>1, <1>2 DEF Life, Alive
  <2>2. Life' = "panic"
    BY <1>2 DEF Deliver, Life, Alive
  <2> QED BY <1>1, <2>1, <2>2 DEF Daemon!Next, Daemon!Signal
<1>3. CASE ~closed
  <2>1. pc' = pc /\ sigCh' = IF sigCh = <<>> THEN <<s>> ELSE sigCh
    BY <1>3 DEF Deliver
  <2>2. Life = IF StopRequested THEN "asked" ELSE "up"
    BY <1>1, <1>3 DEF Life, Alive
  <2>3. Life' = IF StopRequested' THEN "asked" ELSE "up"
    BY <1>1, <1>3, <2>1 DEF Life, Alive
  <2>4. StopRequested => StopRequested'
    BY <2>1 DEF StopRequested
  <2> QED BY <1>1, <2>2, <2>3, <2>4 DEF Daemon!Next, Daemon!Signal
<1> QED BY <1>2, <1>3

\* The loop ends for "term" or for the closed channel, and takes any other signal
\* for nothing.
LEMMA LoopSeen == ASSUME TypeOK, SignalLoop PROVE UNCHANGED Seen
<1>1. pc = "loop" /\ UNCHANGED <<closed, sent>> /\ At' = At
  BY DEF SignalLoop, conn_vars, At
<1>2. pc' \in {"loop", "stopping"}
  BY DEF SignalLoop, AfterSignal
<1>3. CASE closed
  <2>1. Life = "idle" /\ Life' = "idle"
    BY <1>1, <1>2, <1>3 DEF Life, Alive
  <2> QED BY <1>1, <2>1 DEF Seen
<1>4. CASE ~closed
  <2>1. sigCh # <<>> /\ sigCh' = <<>> /\ pc' = AfterSignal(Head(sigCh))
    BY <1>4, SigChIs DEF SignalLoop
  <2>2. StopRequested <=> Head(sigCh) = "term"
    BY <1>1, <2>1 DEF StopRequested
  <2>3. StopRequested' <=> Head(sigCh) = "term"
    BY <2>1 DEF StopRequested, AfterSignal
  <2>4. Life' = Life
    BY <1>1, <1>2, <1>4, <2>2, <2>3 DEF Life, Alive
  <2> QED BY <1>1, <2>4 DEF Seen
<1> QED BY <1>3, <1>4

LEMMA LifeStep == TypeOK /\ LatchCount /\ [Next]_vars => [Daemon!Next]_(Daemon!life_vars)
<1> SUFFICES ASSUME TypeOK, LatchCount, [Next]_vars PROVE [Daemon!Next]_Seen
  BY DEF Daemon!life_vars, Seen
<1>1. CASE UNCHANGED <<pc, closed, sigCh, sent, conn>>
  BY <1>1 DEF Seen, Life, Alive, StopRequested, At
<1>2. CASE ForwardSockets
  <2>1. pc = "forward" /\ pc' = "loop" /\ UNCHANGED <<closed, sigCh, sent, conn>>
    BY <1>2 DEF ForwardSockets, conn_vars, sig_vars
  <2> QED BY <2>1 DEF Seen, Life, Alive, StopRequested, At
<1>3. CASE StopService
  <2>1. pc = "stopping" /\ pc' = "exit" /\ UNCHANGED <<sent, conn>>
    BY <1>3 DEF StopService, conn_vars, sig_vars
  <2>2. Life \in {"asked", "idle"} /\ Life' = "exit" /\ At' = At
    BY <2>1 DEF Life, Alive, StopRequested, At
  <2> QED BY <2>1, <2>2 DEF Daemon!Next, Daemon!Exit
<1>4. CASE TaskStart
  <2>1. Alive /\ pc' = "panic" /\ UNCHANGED <<sent, conn>>
    BY <1>4 DEF TaskStart, conn_vars, sig_vars
  <2>2. Life \in {"up", "asked", "idle"} /\ Life' = "panic" /\ At' = At
    BY <2>1 DEF Life, Alive, At
  <2> QED BY <2>1, <2>2 DEF Daemon!Next, Daemon!Panic
<1>5. ASSUME NEW c \in Conns, Proxy(c) \/ Leave(c) \/ Answer(c) PROVE UNCHANGED <<pc, closed, sigCh, sent, conn>>
  BY <1>5 DEF Proxy, ServeStreamProxy, CopyAnswer, Leave, Answer, sig_vars
<1>6. Tick \/ GuestStops \/ UNCHANGED vars => UNCHANGED <<pc, closed, sigCh, sent, conn>>
  BY DEF Tick, GuestStops, vars, sig_vars, conn_vars
<1> QED BY <1>1, <1>2, <1>3, <1>4, <1>5, <1>6, HandlerSeen, ExpireSeen, SignalSeen, LoopSeen DEF Next, Main

\* For any number of clients, any delay and any signals, the users of the docker
\* socket can forget the latch, its timer, the proxies and sigCh: the daemon ends
\* because somebody asked, or because nobody was in.
THEOREM LifeCorrect == Spec => StopsForReason
<1>1. IInv /\ [Next]_vars => [Daemon!Next]_(Daemon!life_vars)
  BY LifeStep DEF IInv
<1> QED BY <1>1, LifeInit, Invariance, PTL DEF Spec, StopsForReason, Daemon!Spec
=============================================================================
