--------------------------- MODULE PortForwardProofs ---------------------------
(***************************************************************************)
(* Proofs about PortForward, for any containers, ports and addresses.      *)
(***************************************************************************)
EXTENDS PortForward, TLAPS

(***************************************************************************)
(* The monitor owes a container its end once it has taken a start of it    *)
(* and not found it gone.  As long as the stream is open that end is       *)
(* either still to come, because the container runs, or among the events;  *)
(* and it is before every later start of that container, or of one that    *)
(* publishes the same port on the same address.                            *)
(***************************************************************************)
Owed(c) == c \in DOMAIN ports \/ (pc \in {"inspect", "forward"} /\ job = c)

StartAt(c, i) == events[i].act = "start" /\ events[i].id = c
EndAt(c, i) == events[i].act \in Ends /\ events[i].id = c
Pos == 1 .. Len(events)

EndsBefore ==
  \A c, d \in Containers : \A i \in Pos :
    Exclude(c, d) /\ Owed(d) /\ StartAt(c, i) => \E j \in Pos : j < i /\ EndAt(d, j)

EndsBetween ==
  \A c, d \in Containers : \A i, k \in Pos :
    Exclude(c, d) /\ i < k /\ StartAt(d, i) /\ StartAt(c, k)
      => \E j \in Pos : i < j /\ j < k /\ EndAt(d, j)

EndIsTold ==
  stream = "open" =>
    \A c \in Containers \ Running :
      /\ Owed(c) => \E j \in Pos : EndAt(c, j)
      /\ \A i \in Pos : StartAt(c, i) => \E j \in Pos : i < j /\ EndAt(c, j)

NotTwice ==
  pc \in {"inspect", "forward"} => \A d \in Containers : Exclude(job, d) => d \notin DOMAIN ports

Untold == stream = "none" => DOMAIN ports = {} /\ pc \notin {"inspect", "forward"}
Silent == stream # "open" => events = <<>>

OrderInv == EndsBefore /\ EndsBetween /\ EndIsTold /\ NotTwice /\ Untold /\ Silent

LEMMA ForwardStart == Init => TrackedInv /\ OrderInv
<1> SUFFICES ASSUME Init PROVE TrackedInv /\ OrderInv
  OBVIOUS
<1>1. TypeOK
  <2>1. Running \subseteq Containers /\ \A c \in Running : up[c] \in AddressesOf(c)
    BY DEF Init, Running
  <2>2. starts \in 0 .. MaxStarts
    <3>1. starts = 0
      BY Zenon DEF Init
    <3> QED BY <3>1, StartsAssumption
  <2>3. DOMAIN ports = {} /\ events \in Seq(Event)
    <3>1. ports = <<>> /\ events = <<>>
      BY Zenon DEF Init
    <3> QED BY <3>1
  <2>4. forwarded \subseteq Containers
    BY DEF Init
  <2> QED BY <2>1, <2>2, <2>3, <2>4 DEF Init, TypeOK
<1>2. events = <<>> /\ ports = <<>> /\ open = {} /\ pc = "subscribe" /\ stream = "none"
  BY Zenon DEF Init
<1>3. Pos = {} /\ DOMAIN ports = {}
  BY <1>2 DEF Pos
<1> QED BY <1>1, <1>2, <1>3 DEF OrderInv, TrackedInv, OpenIsTracked, EndsBefore, EndsBetween,
       EndIsTold, NotTwice, Untold, Silent

\* What dockerd tells is put after all other events, if the stream is open.
LEMMA Telling ==
  ASSUME TypeOK, Silent, NEW act \in {"start", "die", "stop"}, NEW c \in Containers, Tell(act, c)
  PROVE  /\ events' \in Seq(Event)
         /\ stream # "open" => events' = <<>>
         /\ stream = "open" =>
              /\ Pos' = Pos \union {Len(events) + 1} /\ \A i \in Pos : i < Len(events) + 1
              /\ \A i \in Pos : events'[i] = events[i]
              /\ events'[Len(events) + 1] = [act |-> act, id |-> c]
<1> DEFINE e == [act |-> act, id |-> c]
<1>1. e \in Event /\ events \in Seq(Event)
  BY DEF Event, TypeOK
<1>2. CASE stream = "open"
  <2>1. events' = Append(events, e)
    BY <1>2 DEF Tell
  <2> HIDE DEF e
  <2>2. /\ events' \in Seq(Event) /\ Len(events') = Len(events) + 1 /\ Len(events) \in Nat
        /\ events'[Len(events) + 1] = e
        /\ \A i \in 1 .. Len(events) : events'[i] = events[i]
    BY <1>1, <2>1
  <2> QED BY <1>2, <2>2 DEF Pos, e
<1>3. CASE stream # "open"
  BY <1>1, <1>3 DEF Tell, Silent
<1> QED BY <1>2, <1>3

LEMMA ToldEvents ==
  ASSUME TypeOK, NEW act \in {"start", "die", "stop"}, NEW c \in Containers, Tell(act, c)
  PROVE  events' \in Seq(Event)
<1> DEFINE e == [act |-> act, id |-> c]
<1>1. e \in Event /\ events \in Seq(Event) /\ events' \in {events, Append(events, e)}
  BY DEF Event, TypeOK, Tell
<1> HIDE DEF e
<1> QED BY <1>1

\* When the first event is taken, the others keep their order.
LEMMA Taking ==
  ASSUME TypeOK, events # <<>>, events' = Tail(events)
  PROVE  /\ events' \in Seq(Event) /\ 1 \in Pos /\ Head(events) = events[1] /\ events[1] \in Event
         /\ \A i \in Pos' : i \in Nat /\ i + 1 \in Pos /\ 1 < i + 1 /\ events'[i] = events[i + 1]
         /\ \A i \in Pos : i \in Nat /\ (i # 1 => i > 1 /\ i - 1 \in Pos' /\ events'[i - 1] = events[i])
<1>0. events \in Seq(Event)
  BY DEF TypeOK
<1>1. events \in Seq(Event) /\ Len(events) \in Nat /\ Len(events) >= 1
  BY <1>0
<1>2. events' \in Seq(Event) /\ Len(events') = Len(events) - 1
      /\ \A i \in 1 .. Len(events) - 1 : events'[i] = events[i + 1]
  BY <1>1
<1>3. 1 \in Pos /\ Head(events) = events[1] /\ events[1] \in Event
  BY <1>1 DEF Pos
<1>4. \A i \in Pos' : i \in Nat /\ i + 1 \in Pos /\ 1 < i + 1 /\ events'[i] = events[i + 1]
  BY <1>1, <1>2 DEF Pos
<1>5. \A i \in Pos : i \in Nat /\ (i # 1 => i > 1 /\ i - 1 \in Pos' /\ events'[i - 1] = events[i])
  BY <1>1, <1>2 DEF Pos
<1> QED BY <1>2, <1>3, <1>4, <1>5

(***************************************************************************)
(* The order of starts and ends, kept by dockerd and by the monitor.       *)
(***************************************************************************)
\* dockerd tells of a start only when it has told of the end before.
LEMMA TellKeeps ==
  ASSUME TypeOK, OrderInv, NEW act \in {"start", "die", "stop"}, NEW c \in Containers, Tell(act, c),
         UNCHANGED <<pc, job, ports, stream>>,
         act = "start" => c \in Running' /\ \A d \in Running : ~Exclude(c, d),
         \A d \in Containers \ Running' : d \notin Running \/ (d = c /\ act = "die")
  PROVE  OrderInv'
<1>0. PICK m \in Nat : m = Len(events) + 1
  <2>1. events \in Seq(Event)
    BY DEF TypeOK
  <2> QED BY <2>1
<1>1. NotTwice' /\ Untold'
  BY DEF OrderInv, NotTwice, Untold
<1>2. \A d : Owed(d)' = Owed(d)
  BY DEF Owed
<1>3. CASE stream # "open"
  <2>1. events' = <<>> /\ stream' = stream
    BY <1>3, Telling DEF OrderInv
  <2>2. Pos' = {}
    BY <2>1 DEF Pos
  <2> QED BY <1>1, <1>3, <2>1, <2>2 DEF OrderInv, EndsBefore, EndsBetween, EndIsTold, Silent
<1>4. CASE stream = "open"
  <2>1. /\ Pos' = Pos \union {m} /\ (\A i \in Pos : i < m)
        /\ (\A i \in Pos : events'[i] = events[i])
        /\ events'[m] = [act |-> act, id |-> c]
    BY <1>0, <1>4, Telling DEF OrderInv
  <2>2. \A i \in Pos : i \in Nat
    BY DEF Pos
  <2>4. \A d : \A i \in Pos : StartAt(d, i)' = StartAt(d, i) /\ EndAt(d, i)' = EndAt(d, i)
    BY <2>1 DEF StartAt, EndAt, Ends
  <2>5. \A d : /\ StartAt(d, m)' => d = c /\ act = "start"
               /\ act \in Ends => EndAt(c, m)'
    BY <2>1 DEF StartAt, EndAt, Ends
  <2>6. \A d \in Containers : StartAt(d, m)' =>
          \A e \in Containers : Exclude(d, e) => e \in Containers \ Running
    BY <2>5
  <2>7. Silent'
    BY <1>4 DEF Silent
  <2>8. EndsBefore'
    BY <1>2, <1>4, <2>1, <2>2, <2>4, <2>6 DEF OrderInv, EndsBefore, EndIsTold
  <2>9. EndsBetween'
    BY <1>4, <2>1, <2>2, <2>4, <2>6 DEF OrderInv, EndsBetween, EndIsTold, EndIsTold
  <2>10. EndIsTold'
    <3> SUFFICES ASSUME NEW d \in Containers \ Running'
                 PROVE  /\ Owed(d)' => \E j \in Pos' : EndAt(d, j)'
                        /\ \A i \in Pos' : StartAt(d, i)' => \E j \in Pos' : i < j /\ EndAt(d, j)'
      BY DEF EndIsTold
    <3>1. CASE d = c /\ act = "die"
      BY <2>1, <2>4, <2>5, <3>1 DEF Ends
    <3>2. CASE d \notin Running /\ ~(d = c /\ act = "start")
      BY <1>2, <1>4, <2>1, <2>4, <2>5, <3>2 DEF OrderInv, EndIsTold
    <3>3. act = "start" => d # c
      OBVIOUS
    <3> QED BY <3>1, <3>2, <3>3
  <2> QED BY <1>1, <2>7, <2>8, <2>9, <2>10 DEF OrderInv
<1> QED BY <1>3, <1>4

\* The monitor takes a start only of a container it owes nothing.
LEMMA ReceiveKeeps == ASSUME TypeOK, OrderInv, Receive PROVE OrderInv'
<1> DEFINE c == Head(events).id
<1>1. events # <<>> /\ events' = Tail(events) /\ pc = "loop" /\ UNCHANGED <<up, stream>>
  BY DEF Receive, dockerd_vars
<1>2. /\ 1 \in Pos /\ Head(events) = events[1] /\ events[1] \in Event
      /\ \A i \in Pos' : i \in Nat /\ i + 1 \in Pos /\ 1 < i + 1 /\ events'[i] = events[i + 1]
      /\ \A i \in Pos : i \in Nat /\ (i # 1 => i > 1 /\ i - 1 \in Pos' /\ events'[i - 1] = events[i])
  BY <1>1, Taking
<1>3. c \in Containers /\ Head(events).act \in {"start"} \union Ends
  BY <1>2 DEF Event, Ends
<1>4. stream = "open"
  BY <1>1 DEF OrderInv, Silent
<1>5. Running' = Running
  BY <1>1 DEF Running
<1>6. \A d : \A i \in Pos' : (StartAt(d, i)' <=> StartAt(d, i + 1)) /\ (EndAt(d, i)' <=> EndAt(d, i + 1))
  BY <1>2 DEF StartAt, EndAt
<1>7. \A d : \A i \in Pos : i # 1 => (StartAt(d, i - 1)' <=> StartAt(d, i)) /\ (EndAt(d, i - 1)' <=> EndAt(d, i))
  BY <1>2 DEF StartAt, EndAt
<1>8. EndsBetween'
  <2> SUFFICES ASSUME NEW e \in Containers, NEW d \in Containers, NEW i \in Pos', NEW k \in Pos',
                      Exclude(e, d), i < k, StartAt(d, i)', StartAt(e, k)'
               PROVE  \E j \in Pos' : i < j /\ j < k /\ EndAt(d, j)'
    BY DEF EndsBetween
  <2>1. PICK j \in Pos : i + 1 < j /\ j < k + 1 /\ EndAt(d, j)
    BY <1>2, <1>6 DEF OrderInv, EndsBetween
  <2> QED BY <1>2, <1>7, <2>1
<1>9. \A d \in Containers \ Running : \A i \in Pos' : StartAt(d, i)' => \E j \in Pos' : i < j /\ EndAt(d, j)'
  <2> SUFFICES ASSUME NEW d \in Containers \ Running, NEW i \in Pos', StartAt(d, i)'
               PROVE  \E j \in Pos' : i < j /\ EndAt(d, j)'
    OBVIOUS
  <2>1. PICK j \in Pos : i + 1 < j /\ EndAt(d, j)
    BY <1>2, <1>4, <1>6 DEF OrderInv, EndIsTold
  <2> QED BY <1>2, <1>7, <2>1
<1>10. Silent' /\ Untold'
  BY <1>1, <1>4 DEF Silent, Untold
\* an event of another container is before no event of d that matters
<1>11. ASSUME NEW d \in Containers, d # c \/ Head(events).act = "start"
       PROVE  ~EndAt(d, 1)
  BY <1>2, <1>11 DEF EndAt, Ends
<1>12. ASSUME NEW d \in Containers, NEW j \in Pos, EndAt(d, j), j # 1
       PROVE  j - 1 \in Pos' /\ EndAt(d, j - 1)'
  BY <1>2, <1>7, <1>12
<1>13. CASE Head(events).act \in Ends
  <2>1. ports' = Without(ports, c) /\ pc' = "loop" /\ job' = job
    BY <1>1, <1>13 DEF Receive, Close
  <2>2. \A d : Owed(d)' => Owed(d) /\ d # c
    BY <2>1 DEF Owed, Without
  <2>3. NotTwice'
    BY <2>1 DEF NotTwice
  <2>4. EndsBefore'
    <3> SUFFICES ASSUME NEW e \in Containers, NEW d \in Containers, NEW i \in Pos',
                        Exclude(e, d), Owed(d)', StartAt(e, i)'
                 PROVE  \E j \in Pos' : j < i /\ EndAt(d, j)'
      BY DEF EndsBefore
    <3>1. PICK j \in Pos : j < i + 1 /\ EndAt(d, j)
      BY <1>2, <1>6, <2>2 DEF OrderInv, EndsBefore
    <3>2. j # 1
      BY <1>11, <2>2, <3>1
    <3> QED BY <1>2, <1>12, <3>1, <3>2
  <2>5. \A d \in Containers \ Running : Owed(d)' => \E j \in Pos' : EndAt(d, j)'
    <3> SUFFICES ASSUME NEW d \in Containers \ Running, Owed(d)' PROVE \E j \in Pos' : EndAt(d, j)'
      OBVIOUS
    <3>1. PICK j \in Pos : EndAt(d, j)
      BY <1>4, <2>2 DEF OrderInv, EndIsTold
    <3>2. j # 1
      BY <1>11, <2>2, <3>1
    <3> QED BY <1>12, <3>1, <3>2
  <2> QED BY <1>5, <1>8, <1>9, <1>10, <2>3, <2>4, <2>5 DEF OrderInv, EndIsTold
<1>14. CASE Head(events).act = "start"
  <2>1. ports' = ports /\ pc' = "inspect" /\ job' = c
    BY <1>14 DEF Receive, Ends, listener_vars
  <2>2. StartAt(c, 1)
    BY <1>2, <1>14 DEF StartAt
  <2>3. \A d \in Containers : Exclude(c, d) => ~Owed(d)
    BY <1>2, <1>3, <2>2 DEF OrderInv, EndsBefore
  <2>4. NotTwice'
    BY <2>1, <2>3 DEF NotTwice, Owed
  <2>5. \A d : Owed(d)' => Owed(d) \/ d = c
    BY <1>1, <2>1 DEF Owed
  <2>6. EndsBefore'
    <3> SUFFICES ASSUME NEW e \in Containers, NEW d \in Containers, NEW i \in Pos',
                        Exclude(e, d), Owed(d)', StartAt(e, i)'
                 PROVE  \E j \in Pos' : j < i /\ EndAt(d, j)'
      BY DEF EndsBefore
    <3>1. PICK j \in Pos : j < i + 1 /\ EndAt(d, j) /\ j # 1
      <4>1. CASE d = c
        BY <1>2, <1>3, <1>6, <2>2, <4>1 DEF OrderInv, EndsBetween
      <4>2. CASE d # c
        BY <1>2, <1>6, <1>11, <2>5, <4>2 DEF OrderInv, EndsBefore
      <4> QED BY <4>1, <4>2
    <3> QED BY <1>2, <1>12, <3>1
  <2>7. \A d \in Containers \ Running : Owed(d)' => \E j \in Pos' : EndAt(d, j)'
    <3> SUFFICES ASSUME NEW d \in Containers \ Running, Owed(d)' PROVE \E j \in Pos' : EndAt(d, j)'
      OBVIOUS
    <3>1. PICK j \in Pos : EndAt(d, j) /\ j # 1
      BY <1>2, <1>4, <1>11, <1>14, <2>2, <2>5 DEF OrderInv, EndIsTold
    <3> QED BY <1>12, <3>1
  <2> QED BY <1>5, <1>8, <1>9, <1>10, <2>4, <2>6, <2>7 DEF OrderInv, EndIsTold
<1> QED BY <1>3, <1>13, <1>14

\* What the monitor owes it goes on to owe, or is done with, when the events stay.
LEMMA OwingLess ==
  ASSUME OrderInv, UNCHANGED <<events, stream, up>>, \A d : Owed(d)' => Owed(d)
  PROVE  EndsBefore' /\ EndsBetween' /\ EndIsTold' /\ Silent'
BY DEF OrderInv, EndsBefore, EndsBetween, EndIsTold, Silent, Pos, StartAt, EndAt, Running

LEMMA OrderStep == TypeOK /\ OrderInv /\ [Next]_vars => OrderInv'
<1> SUFFICES ASSUME TypeOK, OrderInv, [Next]_vars PROVE OrderInv'
  OBVIOUS
<1> USE DEF dockerd_vars, listener_vars
<1>1. CASE UNCHANGED vars
  BY <1>1, OwingLess DEF vars, Owed, OrderInv, NotTwice, Untold
<1>2. ASSUME NEW c \in Containers, Starts(c) PROVE OrderInv'
  <2>1. Running' = Running \union {c} /\ c \notin Running
    BY <1>2 DEF Starts, Running, With
  <2>2. \A d \in Running : ~Exclude(c, d)
    BY <1>2 DEF Starts, Exclude
  <2> QED BY <1>2, <2>1, <2>2, TellKeeps DEF Starts
<1>3. ASSUME NEW c \in Containers, Dies(c) PROVE OrderInv'
  <2>1. Running' = Running \ {c}
    BY <1>3 DEF Dies, Running, Without
  <2> QED BY <1>3, <2>1, TellKeeps DEF Dies
<1>4. ASSUME NEW c \in Containers, Stopped(c) PROVE OrderInv'
  <2>1. Running' = Running
    BY <1>4 DEF Stopped, Running
  <2> QED BY <1>4, <2>1, TellKeeps DEF Stopped
<1>5. CASE Subscribe
  <2>1. events' = <<>> /\ \A d : ~Owed(d)'
    BY <1>5 DEF Subscribe, OrderInv, Silent, Untold, Owed
  <2>2. Pos' = {}
    BY <2>1 DEF Pos
  <2> QED BY <1>5, <2>1, <2>2 DEF Subscribe, OrderInv, EndsBefore, EndsBetween, EndIsTold, NotTwice, Untold, Silent
<1>6. CASE Breaks
  <2>1. events' = <<>> /\ stream' = "broken"
    BY <1>6 DEF Breaks
  <2>2. Pos' = {}
    BY <2>1 DEF Pos
  <2> QED BY <1>6, <2>1, <2>2 DEF Breaks, OrderInv, EndsBefore, EndsBetween, EndIsTold, NotTwice, Untold, Silent
<1>7. CASE Monitor \/ GetListener
  BY <1>7, OwingLess DEF Monitor, GetListener, Owed, OrderInv, NotTwice, Untold
<1>8. CASE Receive
  BY <1>8, ReceiveKeeps
<1>9. CASE Inspect
  BY <1>9, OwingLess DEF Inspect, Return, Owed, OrderInv, NotTwice, Untold
<1>10. CASE Forward
  <2>1. DOMAIN ports' = DOMAIN ports \union {job}
    BY <1>10 DEF Forward, Return, With
  <2> QED BY <1>10, <2>1, OwingLess DEF Forward, Return, Owed, OrderInv, NotTwice, Untold
<1> QED BY <1>1, <1>2, <1>3, <1>4, <1>5, <1>6, <1>7, <1>8, <1>9, <1>10 DEF Next, MonitorDockerd

(***************************************************************************)
(* The listeners.                                                          *)
(***************************************************************************)
LEMMA TypeStep == TypeOK /\ [Next]_vars => TypeOK'
<1> SUFFICES ASSUME TypeOK, [Next]_vars PROVE TypeOK'
  OBVIOUS
<1> USE DEF dockerd_vars, listener_vars
<1>1. CASE UNCHANGED vars
  BY <1>1 DEF vars, TypeOK, Running
<1>2. ASSUME NEW c \in Containers, Starts(c) PROVE TypeOK'
  <2>1. events' \in Seq(Event)
    BY <1>2, ToldEvents DEF Starts
  <2>2. starts' \in 0 .. MaxStarts
    <3>1. starts \in 0 .. MaxStarts /\ starts < MaxStarts /\ starts' = starts + 1
      BY <1>2, Zenon DEF Starts, TypeOK
    <3> QED BY <3>1, StartsAssumption
  <2>3. Running' \subseteq Containers /\ \A d \in Running' : up'[d] \in AddressesOf(d)
    BY <1>2 DEF Starts, TypeOK, Running, With
  <2> QED BY <1>2, <2>1, <2>2, <2>3 DEF Starts, TypeOK
<1>3. ASSUME NEW c \in Containers, Dies(c) PROVE TypeOK'
  <2>1. events' \in Seq(Event)
    BY <1>3, ToldEvents DEF Dies
  <2>2. Running' \subseteq Containers /\ \A d \in Running' : up'[d] \in AddressesOf(d)
    BY <1>3 DEF Dies, TypeOK, Running, Without
  <2>3. leaving' \subseteq Containers
    BY <1>3 DEF Dies, TypeOK
  <2> QED BY <1>3, <2>1, <2>2, <2>3 DEF Dies, TypeOK
<1>4. ASSUME NEW c \in Containers, Stopped(c) PROVE TypeOK'
  <2>1. events' \in Seq(Event)
    BY <1>4, ToldEvents DEF Stopped
  <2> QED BY <1>4, <2>1 DEF Stopped, TypeOK, Running
<1>5. CASE Subscribe \/ Breaks
  <2>1. events' \in Seq(Event)
    <3>1. events' = events \/ events' = <<>>
      BY <1>5 DEF Subscribe, Breaks
    <3>2. events \in Seq(Event)
      BY DEF TypeOK
    <3>3. <<>> \in Seq(Event)
      OBVIOUS
    <3> QED BY <3>1, <3>2, <3>3
  <2> QED BY <1>5, <2>1 DEF Subscribe, Breaks, TypeOK, Running
<1>6. CASE Monitor \/ GetListener
  BY <1>6 DEF Monitor, GetListener, TypeOK, Running
<1>7. CASE Receive
  <2>1. events # <<>> /\ events' = Tail(events) /\ pc = "loop"
    BY <1>7 DEF Receive
  <2>2. events' \in Seq(Event) /\ Head(events) \in Event
    BY <2>1, Taking
  <2>3. Head(events).id \in Containers
    BY <2>2 DEF Event
  <2>4. CASE Head(events).act \in Ends
    <3>1. forwarded' \subseteq Containers
      BY <1>7, <2>3, <2>4 DEF Receive, TypeOK
    <3>2. /\ DOMAIN ports' \subseteq Containers /\ \A c \in DOMAIN ports' : ports'[c] \subseteq Listening
          /\ open' \subseteq Listening
      <4>1. ports' = Without(ports, Head(events).id) /\ open' = open \ Tracked(Head(events).id)
        BY <1>7, <2>4 DEF Receive, Close
      <4>2. /\ DOMAIN ports \subseteq Containers /\ \A c \in DOMAIN ports : ports[c] \subseteq Listening
            /\ open \subseteq Listening
        BY DEF TypeOK
      <4> QED BY <4>1, <4>2 DEF Without
    <3>3. UNCHANGED <<dockerd_vars, stream, bind, taken, found, pc, job>>
      BY <1>7, <2>4 DEF Receive
    <3> QED BY <2>1, <2>2, <3>1, <3>2, <3>3 DEF TypeOK, Running
  <2>5. CASE Head(events).act \notin Ends
    BY <1>7, <2>1, <2>2, <2>3, <2>5 DEF Receive, TypeOK, Running
  <2> QED BY <2>4, <2>5
<1>8. CASE Inspect
  <2>1. \/ pc' = "forward" /\ job' = job /\ job \in Running /\ found' = up[job] /\ forwarded' = forwarded
        \/ pc' = "loop" /\ forwarded' = forwarded \ {job}
    BY <1>8 DEF Inspect, Return
  <2>2. pc = "inspect" /\ UNCHANGED <<dockerd_vars, stream, events, bind, taken, listener_vars>>
    BY <1>8 DEF Inspect
  <2>3. \A c \in Running : up[c] \in Targets
    BY DEF TypeOK, AddressesOf, Targets
  <2> QED BY <2>1, <2>2, <2>3 DEF TypeOK, Running
<1>9. CASE Forward
  <2> DEFINE new == {<<job, p, found>> : p \in PortsOf(job) \ Busy}
  <2>1. job \in Containers /\ found \in Targets
    BY <1>9 DEF Forward, Return, TypeOK
  <2>2. new \subseteq Listening
    BY <2>1, PublishedAssumption DEF Listening, PortsOf
  <2>3. open' = open \union new /\ ports' = With(ports, job, new)
    BY <1>9 DEF Forward, Return
  <2> HIDE DEF new
  <2> QED BY <1>9, <2>1, <2>2, <2>3 DEF Forward, Return, With, TypeOK, Running
<1> QED BY <1>1, <1>2, <1>3, <1>4, <1>5, <1>6, <1>7, <1>8, <1>9 DEF Next, MonitorDockerd

LEMMA OpenStep == TypeOK /\ OrderInv /\ OpenIsTracked /\ [Next]_vars => OpenIsTracked'
<1> SUFFICES ASSUME TypeOK, OrderInv, OpenIsTracked, [Next]_vars PROVE OpenIsTracked'
  OBVIOUS
<1> USE DEF listener_vars
<1>1. CASE UNCHANGED listener_vars
  BY <1>1 DEF OpenIsTracked
<1>2. CASE Receive /\ Head(events).act \in Ends
  BY <1>2 DEF Receive, Close, Tracked, Without, OpenIsTracked
<1>3. CASE Forward
  <2> DEFINE new == {<<job, p, found>> : p \in PortsOf(job) \ Busy}
  <2>1. open' = open \union new /\ ports' = With(ports, job, new) /\ pc = "forward"
    BY <1>3 DEF Forward, Return
  <2>2. \A l \in new : l[1] = job
    OBVIOUS
  <2>3. \A l \in open : l[1] # job
    BY <2>1 DEF OrderInv, NotTwice, OpenIsTracked, Exclude, TypeOK
  <2> HIDE DEF new
  <2> QED BY <2>1, <2>2, <2>3 DEF With, OpenIsTracked
<1> QED BY <1>1, <1>2, <1>3 DEF Next, MonitorDockerd, Starts, Dies, Stopped, Subscribe, Breaks,
     Monitor, GetListener, Receive, Inspect, vars

(***************************************************************************)
(* Where the listeners lead, for as long as the events of dockerd come.    *)
(***************************************************************************)
OwnPorts == \A c \in DOMAIN ports : \A l \in ports[c] : l[1] = c /\ l[2] \in PortsOf(c)
LastTracked == forwarded \subseteq DOMAIN ports
NoEnd(c) == \A j \in Pos : ~EndAt(c, j)
Right(c) ==
  /\ \A l \in OpenOf(c) : l[3] = up[c]
  /\ \A p \in PortsOf(c) \ Contested(c) : \E l \in OpenOf(c) : l[2] = p

CurrentInv ==
  stream = "open" =>
    /\ \A c \in Running : c \in DOMAIN ports /\ NoEnd(c) => Right(c)
    /\ pc = "forward" /\ job \in Running /\ NoEnd(job) => found = up[job]

LEMMA OwnStep == TypeOK /\ OwnPorts /\ [Next]_vars => OwnPorts'
<1> SUFFICES ASSUME TypeOK, OwnPorts, [Next]_vars PROVE OwnPorts'
  OBVIOUS
<1> USE DEF listener_vars
<1>1. CASE UNCHANGED ports
  BY <1>1 DEF OwnPorts
<1>2. CASE Receive /\ Head(events).act \in Ends
  BY <1>2 DEF Receive, Close, Without, OwnPorts
<1>3. CASE Forward
  <2> DEFINE new == {<<job, p, found>> : p \in PortsOf(job) \ Busy}
  <2>1. ports' = With(ports, job, new)
    BY <1>3 DEF Forward, Return
  <2>2. \A l \in new : l[1] = job /\ l[2] \in PortsOf(job)
    OBVIOUS
  <2> HIDE DEF new
  <2> QED BY <2>1, <2>2 DEF With, OwnPorts
<1> QED BY <1>1, <1>2, <1>3 DEF Next, MonitorDockerd, Starts, Dies, Stopped, Subscribe, Breaks,
     Monitor, GetListener, Receive, Inspect, vars

LEMMA LastStep == TypeOK /\ OrderInv /\ LastTracked /\ [Next]_vars => LastTracked'
<1> SUFFICES ASSUME TypeOK, OrderInv, LastTracked, [Next]_vars PROVE LastTracked'
  OBVIOUS
<1> USE DEF listener_vars
<1>1. CASE UNCHANGED <<ports, forwarded>>
  BY <1>1 DEF LastTracked
<1>2. CASE Receive /\ Head(events).act \in Ends
  <2>1. ports' = Without(ports, Head(events).id) /\ forwarded' = forwarded \ {Head(events).id}
    BY <1>2 DEF Receive, Close
  <2> QED BY <2>1 DEF Without, LastTracked
<1>3. CASE Inspect
  <2>1. ports' = ports /\ (forwarded' = forwarded \/ forwarded' = forwarded \ {job})
    BY <1>3 DEF Inspect
  <2> QED BY <2>1 DEF LastTracked
<1>4. CASE Forward
  <2>1. DOMAIN ports' = DOMAIN ports \union {job} /\ forwarded' = forwarded \union {job}
    BY <1>4 DEF Forward, Return, With
  <2> QED BY <2>1 DEF LastTracked
<1> QED BY <1>1, <1>2, <1>3, <1>4 DEF Next, MonitorDockerd, Starts, Dies, Stopped, Subscribe, Breaks,
     Monitor, GetListener, Receive, vars

\* An event more does not take an end away.
LEMMA ToldStays ==
  ASSUME TypeOK, Silent, NEW act \in {"start", "die", "stop"}, NEW c \in Containers, Tell(act, c),
         stream = "open", NEW d, NoEnd(d)'
  PROVE  NoEnd(d)
<1>1. Pos \subseteq Pos' /\ \A i \in Pos : events'[i] = events[i]
  BY Telling
<1> QED BY <1>1 DEF NoEnd, EndAt

\* A container that starts is one that the monitor has still to hear the end of, if it
\* knows it; one that dies need not be current.
LEMMA DockerdKeeps ==
  ASSUME TypeOK, OrderInv, CurrentInv, NEW act \in {"start", "die", "stop"}, NEW c \in Containers,
         Tell(act, c), UNCHANGED <<stream, taken, pc, job, found, ports, open>>,
         \A d \in Running' : d \notin Running \/ up'[d] = up[d]
  PROVE  CurrentInv'
<1> SUFFICES ASSUME stream = "open" PROVE CurrentInv'
  BY DEF CurrentInv
<1>1. \A d : NoEnd(d)' => NoEnd(d)
  BY ToldStays DEF OrderInv
<1>2. \A d \in Containers : Owed(d) /\ NoEnd(d) => d \in Running
  BY DEF OrderInv, EndIsTold, NoEnd
<1>3. \A d \in Containers : d \in DOMAIN ports => Owed(d)
  BY DEF Owed
<1>4. pc = "forward" => job \in Containers /\ Owed(job)
  BY DEF Owed, TypeOK
<1>5. DOMAIN ports \subseteq Containers
  BY DEF TypeOK
<1>6. ASSUME NEW d \in Running', d \in DOMAIN ports', NoEnd(d)' PROVE Right(d)'
  <2>1. d \in Running /\ up'[d] = up[d] /\ NoEnd(d) /\ d \in DOMAIN ports
    BY <1>1, <1>2, <1>3, <1>5, <1>6
  <2>2. Right(d)
    BY <2>1 DEF CurrentInv
  <2>3. OpenOf(d)' = OpenOf(d) /\ Contested(d)' = Contested(d)
    BY <2>1 DEF OpenOf, Contested
  <2> QED BY <2>1, <2>2, <2>3 DEF Right
<1>7. ASSUME pc' = "forward", job' \in Running', NoEnd(job)' PROVE found' = up'[job']
  <2>1. job' = job /\ NoEnd(job)
    BY <1>1, <1>7
  <2>2. job \in Running /\ up'[job] = up[job]
    BY <1>2, <1>4, <1>7, <2>1
  <2> QED BY <1>7, <2>1, <2>2 DEF CurrentInv
<1> QED BY <1>6, <1>7 DEF CurrentInv

\* The end of a container closes no listener of another.
LEMMA EndKeeps ==
  ASSUME TypeOK, OpenIsTracked, OwnPorts, CurrentInv, Receive
  PROVE  CurrentInv'
<1> DEFINE c == Head(events).id
<1>1. /\ events # <<>> /\ events' = Tail(events) /\ pc = "loop"
      /\ UNCHANGED <<up, stream, taken>> /\ pc' # "forward"
  BY DEF Receive, dockerd_vars
<1>2. Running' = Running
  BY <1>1 DEF Running
<1>3. ASSUME NEW d \in DOMAIN ports', NoEnd(d)'
      PROVE  NoEnd(d) /\ d \in DOMAIN ports /\ OpenOf(d)' = OpenOf(d)
  <2>0. /\ 1 \in Pos /\ Head(events) = events[1]
        /\ \A i \in Pos : i # 1 => i - 1 \in Pos' /\ events'[i - 1] = events[i]
    BY <1>1, Taking
  <2>1. CASE Head(events).act \in Ends
    <3>1. ports' = Without(ports, c) /\ open' = open \ Tracked(c)
      BY <2>1 DEF Receive, Close
    <3>2. d # c /\ d \in DOMAIN ports
      BY <3>1 DEF Without
    <3>3. ~EndAt(d, 1)
      BY <2>0, <3>2 DEF EndAt
    <3>4. \A l \in Tracked(c) : l[1] # d
      BY <3>2 DEF Tracked, OwnPorts
    <3>5. OpenOf(d)' = OpenOf(d)
      BY <3>1, <3>4 DEF OpenOf
    <3> QED BY <1>3, <2>0, <3>2, <3>3, <3>5 DEF NoEnd, EndAt
  <2>2. CASE Head(events).act \notin Ends
    <3>1. ports' = ports /\ open' = open
      BY <2>2 DEF Receive, listener_vars
    <3>2. ~EndAt(d, 1)
      BY <2>0, <2>2 DEF EndAt
    <3> QED BY <1>3, <2>0, <3>1, <3>2 DEF NoEnd, EndAt, OpenOf
  <2> QED BY <2>1, <2>2
<1> QED BY <1>1, <1>2, <1>3 DEF CurrentInv, Right, Contested

\* No other container has a port that nobody contests, so that each of these is opened.
LEMMA ForwardKeeps ==
  ASSUME TypeOK, OrderInv, OpenIsTracked, OwnPorts, CurrentInv, Forward
  PROVE  CurrentInv'
<1> DEFINE new == {<<job, p, found>> : p \in PortsOf(job) \ Busy}
<1>1. /\ open' = open \union new /\ ports' = With(ports, job, new) /\ pc = "forward" /\ pc' = "loop"
      /\ UNCHANGED <<up, stream, taken, events>>
  BY DEF Forward, Return, dockerd_vars
<1>2. Running' = Running /\ (\A d : NoEnd(d)' = NoEnd(d)) /\ \A d : Contested(d)' = Contested(d)
  BY <1>1 DEF Running, NoEnd, Pos, EndAt, Contested
<1>3. \A l \in open : ~Exclude(job, l[1]) /\ l[1] \in Containers /\ l[2] \in PortsOf(l[1])
  BY <1>1 DEF OrderInv, NotTwice, OpenIsTracked, OwnPorts, TypeOK
<1>4. \A p \in PortsOf(job) \ Contested(job) : p \notin Busy
  BY <1>3 DEF Busy, Contested
<1>5. \A l \in open : l[1] # job
  BY <1>3 DEF Exclude
<1>6. \A l \in new : l[1] = job /\ l[3] = found
  OBVIOUS
<1>7. \A p \in PortsOf(job) \ Contested(job) : \E l \in new : l[2] = p
  <2> SUFFICES ASSUME NEW p \in PortsOf(job) \ Contested(job) PROVE \E l \in new : l[2] = p
    OBVIOUS
  <2>1. <<job, p, found>> \in new /\ <<job, p, found>>[2] = p
    BY <1>4
  <2> QED BY <2>1
<1> HIDE DEF new
<1>8. \A d : OpenOf(d)' = IF d = job THEN new ELSE OpenOf(d)
  <2>1. \A d : OpenOf(d)' = {l \in open \union new : l[1] = d}
    BY <1>1 DEF OpenOf
  <2>2. {l \in open \union new : l[1] = job} = new
    BY <1>5, <1>6
  <2>3. \A d : d # job => {l \in open \union new : l[1] = d} = OpenOf(d)
    BY <1>6 DEF OpenOf
  <2> QED BY <2>1, <2>2, <2>3
<1>9. ASSUME stream = "open", NEW d \in Running, d \in DOMAIN ports', NoEnd(d)
      PROVE  Right(d)'
  <2>1. CASE d = job
    <3>1. found = up[job]
      BY <1>1, <1>9, <2>1 DEF CurrentInv
    <3> QED BY <1>1, <1>2, <1>6, <1>7, <1>8, <2>1, <3>1 DEF Right
  <2>2. CASE d # job
    <3>1. Right(d)
      BY <1>1, <1>9, <2>2 DEF With, CurrentInv
    <3> QED BY <1>1, <1>2, <1>8, <2>2, <3>1 DEF Right
  <2> QED BY <2>1, <2>2
<1> QED BY <1>1, <1>2, <1>9 DEF CurrentInv

LEMMA CurrentStep ==
  TypeOK /\ OrderInv /\ OpenIsTracked /\ OwnPorts /\ CurrentInv /\ [Next]_vars => CurrentInv'
<1> SUFFICES ASSUME TypeOK, OrderInv, OpenIsTracked, OwnPorts, CurrentInv, [Next]_vars PROVE CurrentInv'
  OBVIOUS
<1> USE DEF dockerd_vars, listener_vars
<1>1. CASE UNCHANGED <<up, stream, events, taken, ports, open, pc, job, found>>
  <2>1. \A d : NoEnd(d)' = NoEnd(d) /\ Right(d)' = Right(d)
    BY <1>1 DEF NoEnd, Pos, EndAt, OpenOf, Contested, Right
  <2> QED BY <1>1, <2>1 DEF CurrentInv, Running
<1>2. ASSUME NEW c \in Containers, Starts(c) PROVE CurrentInv'
  <2>1. \A d \in Running' : d \notin Running \/ up'[d] = up[d]
    BY <1>2 DEF Starts, Running, With
  <2> QED BY <1>2, <2>1, DockerdKeeps DEF Starts
<1>3. ASSUME NEW c \in Containers, Dies(c) PROVE CurrentInv'
  <2>1. \A d \in Running' : d \notin Running \/ up'[d] = up[d]
    BY <1>3 DEF Dies, Running, Without
  <2> QED BY <1>3, <2>1, DockerdKeeps DEF Dies
<1>4. ASSUME NEW c \in Containers, Stopped(c) PROVE CurrentInv'
  BY <1>4, DockerdKeeps DEF Stopped
<1>5. CASE Subscribe
  BY <1>5 DEF Subscribe, OrderInv, Untold, CurrentInv
<1>6. CASE Breaks
  BY <1>6 DEF Breaks, CurrentInv
<1>7. CASE Monitor \/ GetListener \/ Inspect
  <2>1. UNCHANGED <<up, stream, events, taken, ports, open>> /\ (pc' = "forward" => found' = up[job'])
    BY <1>7 DEF Monitor, GetListener, Inspect, Return
  <2>2. \A d : NoEnd(d)' = NoEnd(d) /\ Right(d)' = Right(d)
    BY <2>1 DEF NoEnd, Pos, EndAt, OpenOf, Contested, Right
  <2> QED BY <2>1, <2>2 DEF CurrentInv, Running
<1>8. CASE Receive
  BY <1>8, EndKeeps
<1>9. CASE Forward
  BY <1>9, ForwardKeeps
<1> QED BY <1>1, <1>2, <1>3, <1>4, <1>5, <1>6, <1>7, <1>8, <1>9 DEF Next, MonitorDockerd, vars

\* Whatever containers come and go, and however late their events are looked at,
\* a Forward finds no entry of its container: every listener that is open is one
\* that Close would find.
THEOREM TrackedCorrect == Spec => []TrackedInv
<1> DEFINE IInv == TrackedInv /\ OrderInv
<1>1. Init => IInv
  BY ForwardStart
<1>2. IInv /\ [Next]_vars => IInv'
  BY OrderStep, TypeStep, OpenStep DEF TrackedInv
<1> QED BY <1>1, <1>2, PTL DEF Spec

\* However far dockerd was ahead of its events, once they are looked at nothing
\* listens for a container that does not run, what listens leads to where dockerd has
\* the container now, and one that was forwarded has each of its ports that no program
\* and no container that may run beside it has.
THEOREM CurrentCorrect == Spec => []ForwardedIsCurrent
<1> DEFINE IInv == TrackedInv /\ OrderInv /\ OwnPorts /\ LastTracked /\ CurrentInv
<1>1. Init => IInv
  <2> SUFFICES ASSUME Init PROVE IInv
    OBVIOUS
  <2>1. ports = <<>> /\ stream = "none"
    BY Zenon DEF Init
  <2>2. DOMAIN ports = {}
    BY <2>1
  <2>3. forwarded = {}
    BY Zenon DEF Init
  <2>4. stream # "open"
    BY <2>1
  <2> QED BY <2>2, <2>3, <2>4, ForwardStart DEF OwnPorts, LastTracked, CurrentInv
<1>2. IInv /\ [Next]_vars => IInv'
  BY OrderStep, TypeStep, OpenStep, OwnStep, LastStep, CurrentStep DEF TrackedInv
<1>3. IInv => ForwardedIsCurrent
  <2> SUFFICES ASSUME IInv, Settled PROVE ForwardedIsCurrent
    BY DEF ForwardedIsCurrent
  <2>1. stream = "open" /\ Pos = {}
    BY DEF Settled, Pos
  <2>2. \A c \in Containers : NoEnd(c)
    BY <2>1 DEF NoEnd
  <2>3. \A c \in Containers : c \in DOMAIN ports => c \in Running
    BY <2>1 DEF OrderInv, EndIsTold, Owed
  <2>4. \A l \in open : l[1] \in Running
    BY <2>3 DEF TrackedInv, OpenIsTracked, TypeOK
  <2>5. ASSUME NEW c \in Running \cap forwarded
        PROVE  \A p \in PortsOf(c) \ Contested(c) : \E l \in OpenOf(c) : l[2] = p
    <3>1. c \in Containers
      BY DEF TrackedInv, TypeOK
    <3> QED BY <2>1, <2>2, <2>5, <3>1 DEF LastTracked, CurrentInv, Right
  <2>6. ASSUME NEW l \in open PROVE l[2] \in PortsOf(l[1]) /\ l[3] = up[l[1]]
    <3>1. l[1] \in Containers /\ l[1] \in DOMAIN ports /\ l \in ports[l[1]]
      BY DEF TrackedInv, OpenIsTracked, TypeOK
    <3>2. Right(l[1])
      BY <2>1, <2>2, <2>4, <3>1 DEF CurrentInv
    <3> QED BY <3>1, <3>2 DEF OwnPorts, Right, OpenOf
  <2> QED BY <2>4, <2>5, <2>6 DEF ForwardedIsCurrent
<1> QED BY <1>1, <1>2, <1>3, PTL DEF Spec
=============================================================================
