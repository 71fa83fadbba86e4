-------------------------- MODULE DaemonStateProofs --------------------------
(***************************************************************************)
(* Proofs about DaemonState, for any number of sessions and any addresses. *)
(***************************************************************************)
EXTENDS DaemonState, TLAPS

USE SessionsAssumption, IPsAssumption

\* The states an OpenDaemonState call or a status update starts from have the
\* fields of DaemonState.
LEMMA ZeroTypes ==
  Zero \in DaemonStates /\ Update("stopping") \in DaemonStates /\ Update("stopped") \in DaemonStates
BY DEF Zero, Update, DaemonStates, Statuses

\* Merging an update into a state gives a state.
LEMMA MergeType ==
  ASSUME NEW s \in DaemonStates, NEW u \in DaemonStates
  PROVE  Merge(s, u) \in DaemonStates
BY DEF Merge, DaemonStates

\* What the file can hold: an encoded state, nothing, or a torn write.
LEMMA ContentsTypes ==
  ASSUME NEW s \in DaemonStates
  PROVE  /\ Encode(s) \in Contents /\ Encode(s).kind = "json" /\ Encode(s).st = s
         /\ Empty \in Contents /\ Empty.st = Zero
         /\ Torn \in Contents /\ Torn.st = Zero
BY ZeroTypes DEF Encode, Empty, Torn, Contents, Kinds

\* The file the daemon may find: with bytes that are no identifier.
LEMMA BadFile ==
  LET b == [Zero EXCEPT !.mid = Bad] IN
  /\ b \in DaemonStates /\ b.mac = 0 /\ b.mid = Bad /\ b.status = Zero.status
  /\ Encode(b) \in Contents /\ Encode(b).kind = "json" /\ Encode(b).st = b
BY DEF Zero, Bad, DaemonStates, Statuses, Encode, Contents, Kinds

\* The file, the channel and the writer start well typed.
LEMMA InitType == Init => TypeOK
<1> SUFFICES ASSUME Init PROVE TypeOK
  OBVIOUS
<1>1. ch \in Seq(DaemonStates) /\ session \in 0 .. MaxSessions /\ fresh \in Nat
  BY DEF Init, Bad
<1>2. booted \in BOOLEAN /\ open \in BOOLEAN /\ intact \in BOOLEAN
  BY Zenon DEF Init
<1>3. file \in Contents /\ bs \in Contents /\ (\A c \in {file, bs} : c.kind # "json" => c.st = Zero)
  BY ZeroTypes, ContentsTypes, BadFile DEF Init
<1> QED BY <1>1, <1>2, <1>3, ZeroTypes DEF Init, TypeOK

\* Each step of the daemon, of the writer goroutine and of a crash keeps the
\* types.
LEMMA TypeStep == TypeOK /\ [Next]_vars => TypeOK'
<1> SUFFICES ASSUME TypeOK, [Next]_vars PROVE TypeOK'
  OBVIOUS
<1> USE DEF TypeOK
<1>1. CASE OpenDaemonState
  <2>1. boot' \in DaemonStates /\ mem' \in DaemonStates
    BY <1>1 DEF OpenDaemonState, Decode, Contents
  <2>2. ch' \in Seq(DaemonStates) /\ session' \in 0 .. MaxSessions
    BY <1>1 DEF OpenDaemonState
  <2>3. booted' \in BOOLEAN /\ open' \in BOOLEAN /\ intact' \in BOOLEAN
    BY <1>1, Zenon DEF OpenDaemonState
  <2> QED BY <1>1, <2>1, <2>2, <2>3 DEF OpenDaemonState
<1>2. CASE Identify
  <2>1. PICK id \in MachineIDs(boot) : boot' = [boot EXCEPT !.mid = id, !.mac = MACAddress(boot)]
    BY <1>2 DEF Identify
  <2>2. id \in Nat /\ MACAddress(boot) \in Nat
    BY DEF MachineIDs, MACAddress, DaemonStates
  <2>3. boot' \in DaemonStates
    BY <2>1, <2>2 DEF DaemonStates
  <2> QED BY <1>2, <2>3 DEF Identify, chan_vars, writer_vars
<1>3. CASE StartSucceeds
  <2>1. PICK ip \in IPs : boot' = [boot EXCEPT !.ip = ip] /\ ch' = Append(ch, boot')
    BY <1>3 DEF StartSucceeds
  <2>2. boot' \in DaemonStates
    BY <2>1 DEF DaemonStates
  <2> QED BY <1>3, <2>1, <2>2 DEF StartSucceeds, writer_vars
<1>4. CASE StartFails
  BY <1>4 DEF StartFails, chan_vars, writer_vars
<1>5. CASE StopRequested
  BY <1>5, ZeroTypes DEF StopRequested, writer_vars
<1>6. CASE DeferredStop
  <2>1. open' \in BOOLEAN
    BY <1>6, Zenon DEF DeferredStop, AfterLastUpdate
  <2> QED BY <1>6, <2>1, ZeroTypes DEF DeferredStop, writer_vars
<1>7. CASE Exit
  BY <1>7, ZeroTypes DEF Exit, chan_vars, writer_vars
<1>8. CASE Receive
  BY <1>8, MergeType DEF Receive, session_vars
<1>9. CASE WriterEnds
  BY <1>9 DEF WriterEnds, chan_vars, session_vars
<1>10. CASE Truncate
  BY <1>10, ContentsTypes DEF Truncate, chan_vars, session_vars
<1>11. CASE Write
  BY <1>11, ContentsTypes DEF Write, Payload, chan_vars, session_vars
<1>12. CASE WriteFails
  BY <1>12, ContentsTypes DEF WriteFails, chan_vars, session_vars
<1>13. CASE Crash
  <2>1. ch' \in Seq(DaemonStates)
    BY <1>13 DEF Crash
  <2>0. open' \in BOOLEAN /\ intact' \in BOOLEAN
    BY <1>13, Zenon DEF Crash
  <2>2. file' \in Contents /\ (file'.kind # "json" => file'.st = Zero)
    BY <1>13, ContentsTypes, ZeroTypes DEF Crash
  <2> QED BY <1>13, <2>0, <2>1, <2>2, ZeroTypes DEF Crash
<1>14. CASE UNCHANGED vars
  BY <1>14 DEF vars, session_vars, chan_vars, writer_vars
<1> QED BY <1>1, <1>2, <1>3, <1>4, <1>5, <1>6, <1>7, <1>8, <1>9, <1>10, <1>11,
           <1>12, <1>13, <1>14 DEF Next, Main, Writer

(***************************************************************************)
(* The identity on disk is the one the running machine has.  The machine's *)
(* state keeps the identity of everything the writer has or will get.      *)
(***************************************************************************)
IdentityInv ==
  pc # "down" => /\ Keeps(boot, mem) /\ Keeps(boot, bs.st) /\ Keeps(boot, file.st)
                 /\ \A i \in 1 .. Len(ch) : Keeps(boot, ch[i]) /\ ch[i].mid \in {0, boot.mid}

WriterLives == pc = "down" => wpc = "none"

(***************************************************************************)
(* Why a clean session leaves the identity on disk although the file lags  *)
(* one update behind.  The full update of Start is the first one; "stopped"*)
(* is the last one and is never on disk before, so that it always differs  *)
(* from bs and forces one more write, of bytes that have the identity.     *)
(***************************************************************************)
StoppedIsLast ==
  /\ file.st.status # "stopped"
  /\ pc # "down" => boot.status # "stopped"
  /\ pc \notin {"closing", "down"} => mem.status # "stopped" /\ open /\ wpc # "none"
  /\ pc = "closing" => (mem.status = "stopped" <=> ch = <<>>)
  /\ pc # "down" => \A i \in 1 .. Len(ch) : ch[i].status = "stopped" <=> pc = "closing" /\ i = Len(ch)
  /\ pc # "down" /\ mem.status # "stopped" => bs.st.status # "stopped"
  /\ wpc \in {"truncate", "write"} => bs.st.status # "stopped"
  /\ pc = "closing" /\ wpc = "none" => ch = <<>>
  /\ pc \in {"opened", "identified"} => ~booted /\ ch = <<>>
  /\ pc # "down" /\ ~booted => \A i \in 1 .. Len(ch) : ch[i].mac = 0 /\ ch[i].mid = 0

PrevKept ==
  /\ pc = "down" => Keeps(file.st, prev)
  /\ pc # "down" => Keeps(boot, prev)
  /\ pc # "down" /\ intact => /\ Keeps(mem, prev) /\ Keeps(bs.st, prev)
                              /\ wpc # "write" => Keeps(file.st, prev)

FullUpdateQueued == ch # <<>> /\ ch[1] = boot

BootKept ==
  pc # "down" /\ booted /\ intact =>
    \/ FullUpdateQueued /\ mem.status # "stopped"
    \/ /\ Keeps(mem, boot)
       /\ mem.status # "stopped" /\ wpc \in {"recv", "none"} => Keeps(bs.st, boot)
       /\ mem.status = "stopped" => IF wpc \in {"truncate", "write"}
                                    THEN Keeps(bs.st, boot) ELSE Keeps(file.st, boot)

Inv == /\ TypeOK /\ IdentityInv /\ WriterLives
       /\ StoppedIsLast /\ PrevKept /\ BootKept

\* What an update does to the writer's state.
LEMMA MergeKeeps ==
  ASSUME NEW s \in DaemonStates, NEW u \in DaemonStates, NEW b \in DaemonStates
  PROVE  /\ Keeps(b, s) /\ Keeps(b, u) => Keeps(b, Merge(s, u))
         /\ Keeps(s, b) /\ (Keeps(u, b) \/ (u.mac = 0 /\ u.mid = 0)) => Keeps(Merge(s, u), b)
BY DEF Merge, Keeps, Parses, DaemonStates

\* A status update carries a status and no identity.
LEMMA UpdateFields ==
  ASSUME NEW s \in Statuses
  PROVE  Update(s).status = s /\ Update(s).mac = 0 /\ Update(s).mid = 0
BY DEF Update, Zero

\* Receiving takes the oldest update of the channel and keeps the order of
\* the others.
LEMMA ReceivedIsFirst ==
  ASSUME ch \in Seq(DaemonStates), ch # <<>>
  PROVE  /\ Head(ch) = ch[1] /\ Head(ch) \in DaemonStates /\ 1 \in 1 .. Len(ch)
         /\ Len(Tail(ch)) = Len(ch) - 1 /\ Tail(ch) \in Seq(DaemonStates)
         /\ \A i \in 1 .. Len(Tail(ch)) : Tail(ch)[i] = ch[i + 1] /\ i + 1 \in 1 .. Len(ch)
OBVIOUS

\* An update that is sent is the youngest of the channel.
LEMMA QueuedIsLast ==
  ASSUME ch \in Seq(DaemonStates), NEW u \in DaemonStates
  PROVE  /\ Len(Append(ch, u)) = Len(ch) + 1 /\ Append(ch, u) # <<>>
         /\ Append(ch, u)[Len(ch) + 1] = u
         /\ \A i \in 1 .. Len(ch) : Append(ch, u)[i] = ch[i]
OBVIOUS

\* No step lets the file, the channel or the writer hold an identity other
\* than the machine's own.
LEMMA IdentityStep ==
  TypeOK /\ TypeOK' /\ IdentityInv /\ WriterLives /\ StoppedIsLast /\ [Next]_vars
    => IdentityInv' /\ WriterLives'
<1> SUFFICES ASSUME TypeOK, TypeOK', IdentityInv, WriterLives, StoppedIsLast, [Next]_vars
             PROVE  IdentityInv' /\ WriterLives'
  OBVIOUS
<1> USE DEF IdentityInv, WriterLives
<1>t. /\ boot \in DaemonStates /\ mem \in DaemonStates /\ bs.st \in DaemonStates
      /\ file.st \in DaemonStates /\ ch \in Seq(DaemonStates)
  BY DEF TypeOK, Contents
<1>1. CASE OpenDaemonState
  BY <1>1, <1>t DEF OpenDaemonState, Decode, Keeps, Parses
<1>2. CASE Identify
  <2>1. \A s \in DaemonStates : Keeps(boot, s) => Keeps(boot', s)
    BY <1>2, <1>t DEF Identify, MachineIDs, MACAddress, Keeps, Parses, DaemonStates
  <2>2. pc # "down" /\ UNCHANGED <<file, ch, mem, bs, wpc>>
    BY <1>2 DEF Identify, chan_vars, writer_vars
  <2>3. ch = <<>>
    BY <1>2 DEF Identify, StoppedIsLast
  <2> QED BY <1>2, <2>1, <2>2, <2>3, <1>t DEF Identify
<1>3. CASE StartSucceeds
  <2>1. boot' \in DaemonStates /\ boot'.mac = boot.mac /\ boot'.mid = boot.mid /\ ch' = Append(ch, boot')
    BY <1>3, <1>t DEF StartSucceeds, DaemonStates
  <2>2. pc # "down" /\ pc' = "running" /\ UNCHANGED <<file, mem, bs, wpc>>
    BY <1>3 DEF StartSucceeds, writer_vars
  <2> QED BY <2>1, <2>2, <1>t, QueuedIsLast DEF Keeps
<1>4. CASE StartFails
  BY <1>4 DEF StartFails, chan_vars, writer_vars
<1>5. CASE StopRequested
  <2>1. PICK u \in DaemonStates : ch' = Append(ch, u) /\ u.mac = 0 /\ u.mid = 0
    BY <1>5, ZeroTypes, UpdateFields DEF StopRequested, Statuses
  <2>2. pc # "down" /\ pc' # "down" /\ UNCHANGED <<boot, file, mem, bs, wpc>>
    BY <1>5 DEF StopRequested, writer_vars
  <2> QED BY <2>1, <2>2, <1>t, QueuedIsLast DEF Keeps, Parses
<1>6. CASE DeferredStop
  <2>1. PICK u \in DaemonStates : ch' = Append(ch, u) /\ u.mac = 0 /\ u.mid = 0
    BY <1>6, ZeroTypes, UpdateFields DEF DeferredStop, Statuses
  <2>2. pc # "down" /\ pc' # "down" /\ UNCHANGED <<boot, file, mem, bs, wpc>>
    BY <1>6 DEF DeferredStop, writer_vars
  <2> QED BY <2>1, <2>2, <1>t, QueuedIsLast DEF Keeps, Parses
<1>7. CASE Exit
  BY <1>7 DEF Exit, writer_vars
<1>8. CASE Receive
  <2>1. Keeps(boot, mem')
    BY <1>8, <1>t, ReceivedIsFirst, MergeKeeps DEF Receive
  <2> QED BY <1>8, <1>t, <2>1, ReceivedIsFirst DEF Receive, session_vars
<1>9. CASE WriterEnds
  BY <1>9 DEF WriterEnds, chan_vars, session_vars
<1>10. CASE Truncate
  BY <1>10 DEF Truncate, Empty, Zero, Keeps, Parses, chan_vars, session_vars
<1>11. CASE Write
  BY <1>11 DEF Write, Payload, Encode, chan_vars, session_vars
<1>12. CASE WriteFails
  <2>1. file' = file \/ file'.st = Zero
    BY <1>12 DEF WriteFails, Empty, Torn
  <2>2. \A s \in DaemonStates : Keeps(s, Zero)
    BY DEF Keeps, Parses, Zero
  <2> QED BY <1>12, <1>t, <2>1, <2>2 DEF WriteFails, chan_vars, session_vars
<1>13. CASE Crash
  BY <1>13 DEF Crash
<1>14. CASE UNCHANGED vars
  BY <1>14 DEF vars, session_vars, chan_vars, writer_vars
<1> QED BY <1>1, <1>2, <1>3, <1>4, <1>5, <1>6, <1>7, <1>8, <1>9, <1>10, <1>11,
           <1>12, <1>13, <1>14 DEF Next, Main, Writer

\* Every step keeps "stopped" the last update of its session: the writer has
\* nothing to write once it has written it.
LEMMA StoppedStep == TypeOK /\ StoppedIsLast /\ WriterLives /\ [Next]_vars => StoppedIsLast'
<1> SUFFICES ASSUME TypeOK, StoppedIsLast, WriterLives, [Next]_vars PROVE StoppedIsLast'
  OBVIOUS
<1> USE DEF StoppedIsLast
<1>t. /\ boot \in DaemonStates /\ mem \in DaemonStates /\ bs.st \in DaemonStates
      /\ file.st \in DaemonStates /\ prev \in DaemonStates /\ ch \in Seq(DaemonStates)
  BY DEF TypeOK, Contents
<1>1. CASE OpenDaemonState
  BY <1>1, <1>t DEF OpenDaemonState, Decode, TypeOK, WriterLives
<1>2. CASE Identify
  BY <1>2, <1>t DEF Identify, DaemonStates, chan_vars, writer_vars
<1>3. CASE StartSucceeds
  <2>1. boot' \in DaemonStates /\ boot'.status = boot.status
    BY <1>3, <1>t DEF StartSucceeds, DaemonStates
  <2>2. Len(ch') = 1 /\ ch'[1] = boot' /\ ch' # <<>>
    BY <1>3, <1>t, <2>1, QueuedIsLast DEF StartSucceeds
  <2>3. \A i \in 1 .. Len(ch') : ch'[i].status # "stopped"
    <3>1. boot.status # "stopped"
      BY <1>3 DEF StartSucceeds
    <3>2. \A i \in 1 .. Len(ch') : i = 1
      BY <2>2
    <3> QED BY <2>1, <2>2, <3>1, <3>2
  <2>4. pc = "identified" /\ pc' = "running" /\ booted' /\ UNCHANGED <<file, mem, bs, wpc, open>>
    BY <1>3 DEF StartSucceeds, writer_vars
  <2> QED BY <2>1, <2>3, <2>4
<1>4. CASE StartFails
  BY <1>4 DEF StartFails, chan_vars, writer_vars
<1>5. CASE StopRequested
  <2>1. PICK u \in DaemonStates : ch' = Append(ch, u) /\ u.status = "stopping" /\ u.mac = 0 /\ u.mid = 0
    BY <1>5, ZeroTypes, UpdateFields DEF StopRequested, Statuses
  <2>2. Len(ch') = Len(ch) + 1 /\ ch'[Len(ch) + 1] = u /\ \A i \in 1 .. Len(ch) : ch'[i] = ch[i]
    BY <2>1, <1>t, QueuedIsLast
  <2>3. \A i \in 1 .. Len(ch') : ch'[i].status # "stopped"
    BY <1>5, <1>t, <2>1, <2>2 DEF StopRequested
  <2>4. \A i \in 1 .. Len(ch') : ~booted => ch'[i].mac = 0 /\ ch'[i].mid = 0
    BY <1>5, <1>t, <2>1, <2>2 DEF StopRequested
  <2>5. pc = "running" /\ pc' = "stopping" /\ UNCHANGED <<boot, booted, file, mem, bs, wpc, open>>
    BY <1>5 DEF StopRequested, writer_vars
  <2> QED BY <2>3, <2>4, <2>5
<1>6. CASE DeferredStop
  <2>1. PICK u \in DaemonStates : ch' = Append(ch, u) /\ u.status = "stopped" /\ u.mac = 0 /\ u.mid = 0
    BY <1>6, ZeroTypes, UpdateFields DEF DeferredStop, Statuses
  <2> QED BY <1>6, <1>t, <2>1, QueuedIsLast DEF DeferredStop, writer_vars, TypeOK
<1>7. CASE Exit
  BY <1>7, <1>t DEF Exit, chan_vars, writer_vars
<1>8. CASE Receive
  <2>1. pc # "down" /\ wpc = "recv" /\ ch # <<>> /\ UNCHANGED <<pc, boot, booted, file, bs, open>>
    BY <1>8 DEF Receive, session_vars, WriterLives
  <2>2. PICK u \in DaemonStates : u = ch[1] /\ mem' = Merge(mem, u)
    BY <1>8, <1>t, ReceivedIsFirst DEF Receive
  <2>3. /\ Len(ch') = Len(ch) - 1 /\ ch' \in Seq(DaemonStates)
        /\ \A i \in 1 .. Len(ch') : ch'[i] = ch[i + 1] /\ i + 1 \in 1 .. Len(ch)
    BY <1>8, <1>t, ReceivedIsFirst DEF Receive
  <2>4. mem'.status = IF u.status # "" THEN u.status ELSE mem.status
    BY <2>2 DEF Merge
  <2>5. u.status = "stopped" <=> pc = "closing" /\ Len(ch) = 1
    <3>1. 1 \in 1 .. Len(ch)
      BY <1>t, <2>1
    <3>2. ch[1].status = "stopped" <=> pc = "closing" /\ 1 = Len(ch)
      BY <2>1, <3>1
    <3> QED BY <2>2, <3>2
  <2>6. ch' = <<>> <=> Len(ch) = 1
    BY <1>t, <2>1, <2>3
  <2>7. mem.status # "stopped"
    BY <2>1
  <2>8. mem'.status = "stopped" <=> pc = "closing" /\ ch' = <<>>
    BY <2>4, <2>5, <2>6, <2>7
  <2>9. wpc' \in {"recv", "truncate"} /\ bs.st.status # "stopped"
    BY <1>8, <2>1, <2>7 DEF Receive
  <2>10. \A i \in 1 .. Len(ch') : ch'[i].status = "stopped" <=> pc' = "closing" /\ i = Len(ch')
    BY <1>t, <2>1, <2>3
  <2> QED BY <2>1, <2>3, <2>8, <2>9, <2>10
<1>9. CASE WriterEnds
  BY <1>9, <1>t DEF WriterEnds, chan_vars, session_vars
<1>10. CASE Truncate
  BY <1>10, <1>t DEF Truncate, Empty, Zero, chan_vars, session_vars
<1>11. CASE Write
  BY <1>11, <1>t DEF Write, Payload, Encode, chan_vars, session_vars
<1>12. CASE WriteFails
  <2>1. file' = file \/ file'.st = Zero
    BY <1>12 DEF WriteFails, Empty, Torn
  <2>2. file'.st.status # "stopped"
    <3>1. Zero.status # "stopped"
      BY DEF Zero
    <3> QED BY <2>1, <3>1
  <2> QED BY <1>12, <1>t, <2>2 DEF WriteFails, chan_vars, session_vars
<1>13. CASE Crash
  <2>1. file' = file \/ file'.st = Zero
    BY <1>13 DEF Crash, Torn
  <2>2. file'.st.status # "stopped"
    <3>1. Zero.status # "stopped"
      BY DEF Zero
    <3> QED BY <2>1, <3>1
  <2> QED BY <1>13, <1>t, <2>2 DEF Crash
<1>14. CASE UNCHANGED vars
  BY <1>14 DEF vars, session_vars, chan_vars, writer_vars
<1> QED BY <1>1, <1>2, <1>3, <1>4, <1>5, <1>6, <1>7, <1>8, <1>9, <1>10, <1>11,
           <1>12, <1>13, <1>14 DEF Next, Main, Writer

\* Every step keeps the identity a clean session left: in the writer's state
\* and last bytes, and in the file outside the moment it is truncated.
LEMMA PrevStep ==
  TypeOK /\ IdentityInv /\ StoppedIsLast /\ WriterLives /\ PrevKept /\ BootKept /\ [Next]_vars => PrevKept'
<1> SUFFICES ASSUME TypeOK, IdentityInv, StoppedIsLast, WriterLives, PrevKept, BootKept, [Next]_vars
             PROVE  PrevKept'
  OBVIOUS
<1> USE DEF PrevKept
<1>t. /\ boot \in DaemonStates /\ mem \in DaemonStates /\ bs.st \in DaemonStates
      /\ file.st \in DaemonStates /\ prev \in DaemonStates /\ ch \in Seq(DaemonStates)
  BY DEF TypeOK, Contents
<1>1. CASE OpenDaemonState
  BY <1>1, <1>t DEF OpenDaemonState, Decode
<1>2. CASE Identify
  BY <1>2, <1>t DEF Identify, MachineIDs, MACAddress, Keeps, Parses, DaemonStates, chan_vars, writer_vars
<1>3. CASE StartSucceeds
  <2>1. boot'.mac = boot.mac /\ boot'.mid = boot.mid
    BY <1>3, <1>t DEF StartSucceeds, DaemonStates
  <2> QED BY <1>3, <1>t, <2>1 DEF StartSucceeds, Keeps, Parses, writer_vars
<1>4. CASE StartFails
  BY <1>4 DEF StartFails, chan_vars, writer_vars
<1>5. CASE StopRequested
  BY <1>5 DEF StopRequested, writer_vars
<1>6. CASE DeferredStop
  BY <1>6 DEF DeferredStop, writer_vars
<1>7. CASE Exit
  <2>1. CASE ~intact
    BY <1>7, <2>1 DEF Exit, Keeps, Parses, Zero, writer_vars
  <2>2. CASE intact /\ booted
    <3>1. mem.status = "stopped" /\ ch = <<>>
      BY <1>7 DEF Exit, StoppedIsLast
    <3>2. Keeps(file.st, boot)
      BY <1>7, <2>2, <3>1 DEF Exit, BootKept, FullUpdateQueued
    <3> QED BY <1>7, <2>2, <3>2 DEF Exit, writer_vars
  <2>3. CASE intact /\ ~booted
    BY <1>7, <2>3 DEF Exit, writer_vars
  <2> QED BY <2>1, <2>2, <2>3
<1>8. CASE Receive
  <2>1. Keeps(mem, prev) /\ Keeps(boot, prev) => Keeps(mem', prev)
    <3>1. /\ Keeps(boot, ch[1]) /\ Keeps(boot, mem) /\ ch[1].mid \in {0, boot.mid}
          /\ ch[1] \in DaemonStates /\ mem' = Merge(mem, ch[1])
      BY <1>8, <1>t, ReceivedIsFirst DEF Receive, IdentityInv, WriterLives
    <3> QED BY <3>1, <1>t DEF Merge, Keeps, Parses, DaemonStates
  <2> QED BY <1>8, <2>1 DEF Receive, session_vars, WriterLives
<1>9. CASE WriterEnds
  BY <1>9 DEF WriterEnds, chan_vars, session_vars
<1>10. CASE Truncate
  BY <1>10 DEF Truncate, chan_vars, session_vars, WriterLives
<1>11. CASE Write
  BY <1>11 DEF Write, Payload, Encode, chan_vars, session_vars, WriterLives
<1>12. CASE WriteFails
  BY <1>12 DEF WriteFails, chan_vars, session_vars, WriterLives
<1>13. CASE Crash
  BY <1>13 DEF Crash, Keeps, Parses, Zero
<1>14. CASE UNCHANGED vars
  BY <1>14 DEF vars, session_vars, chan_vars, writer_vars
<1> QED BY <1>1, <1>2, <1>3, <1>4, <1>5, <1>6, <1>7, <1>8, <1>9, <1>10, <1>11,
           <1>12, <1>13, <1>14 DEF Next, Main, Writer

\* Every step keeps the identity of a machine that booted on its way to the
\* file: first in the queue, then in the writer's state, then in the bytes.
LEMMA BootStep ==
  TypeOK /\ IdentityInv /\ StoppedIsLast /\ WriterLives /\ BootKept /\ [Next]_vars => BootKept'
<1> SUFFICES ASSUME TypeOK, IdentityInv, StoppedIsLast, WriterLives, BootKept, [Next]_vars
             PROVE  BootKept'
  OBVIOUS
<1> USE DEF BootKept, FullUpdateQueued
<1>t. /\ boot \in DaemonStates /\ mem \in DaemonStates /\ bs.st \in DaemonStates
      /\ file.st \in DaemonStates /\ prev \in DaemonStates /\ ch \in Seq(DaemonStates)
  BY DEF TypeOK, Contents
<1>1. CASE OpenDaemonState
  BY <1>1 DEF OpenDaemonState
<1>2. CASE Identify
  BY <1>2 DEF Identify, StoppedIsLast
<1>3. CASE StartSucceeds
  <2>1. boot' \in DaemonStates
    BY <1>3, <1>t DEF StartSucceeds, DaemonStates
  <2>2. ch = <<>> /\ mem' = mem /\ mem.status # "stopped"
    BY <1>3 DEF StartSucceeds, StoppedIsLast, writer_vars
  <2>3. ch' # <<>> /\ ch'[1] = boot'
    BY <1>3, <1>t, <2>1, <2>2, QueuedIsLast DEF StartSucceeds
  <2> QED BY <2>2, <2>3
<1>4. CASE StartFails
  BY <1>4 DEF StartFails, chan_vars, writer_vars
<1>5. CASE StopRequested
  <2>1. ch # <<>> => ch' # <<>> /\ ch'[1] = ch[1]
    BY <1>5, <1>t, ZeroTypes, QueuedIsLast DEF StopRequested
  <2> QED BY <1>5, <2>1 DEF StopRequested, writer_vars
<1>6. CASE DeferredStop
  <2>1. ch # <<>> => ch' # <<>> /\ ch'[1] = ch[1]
    BY <1>6, <1>t, ZeroTypes, QueuedIsLast DEF DeferredStop
  <2> QED BY <1>6, <2>1 DEF DeferredStop, writer_vars
<1>7. CASE Exit
  BY <1>7 DEF Exit
<1>8. CASE Receive
  <2>1. SUFFICES ASSUME booted, intact PROVE BootKept'
    BY <1>8 DEF Receive, session_vars
  <2>2. pc # "down" /\ wpc = "recv" /\ ch # <<>> /\ UNCHANGED <<pc, boot, booted, intact, file, bs>>
    BY <1>8 DEF Receive, session_vars, WriterLives
  <2>3. PICK u \in DaemonStates : u = ch[1] /\ mem' = Merge(mem, u)
    BY <1>8, <1>t, ReceivedIsFirst DEF Receive
  <2>4. wpc' = IF bs = Encode(mem') THEN "recv" ELSE "truncate"
    BY <1>8 DEF Receive
  <2>5. mem.status # "stopped" /\ bs.st.status # "stopped" /\ boot.status # "stopped"
    BY <2>2 DEF StoppedIsLast
  <2>6. mem'.status = "stopped" => wpc' = "truncate"
    BY <2>4, <2>5 DEF Encode
  <2>7. CASE FullUpdateQueued
    <3>1. Keeps(mem', boot) /\ mem'.status # "stopped"
      BY <1>t, <2>3, <2>5, <2>7 DEF Merge, Keeps, Parses, DaemonStates
    <3>2. wpc' = "recv" => Keeps(bs.st, boot)
      BY <2>4, <3>1 DEF Encode
    <3> QED BY <2>2, <2>4, <3>1, <3>2
  <2>8. CASE ~FullUpdateQueued
    <3>1. Keeps(mem, boot) /\ Keeps(bs.st, boot)
      BY <2>1, <2>2, <2>5, <2>8
    <3>2. Keeps(boot, u) /\ u.mid \in {0, boot.mid}
      <4>1. 1 \in 1 .. Len(ch)
        BY <1>t, <2>2
      <4> QED BY <2>2, <2>3, <4>1 DEF IdentityInv
    <3>3. Keeps(mem', boot)
      BY <1>t, <2>3, <3>1, <3>2 DEF Merge, Keeps, Parses, DaemonStates
    <3> QED BY <2>2, <2>4, <2>6, <3>1, <3>3
  <2> QED BY <2>7, <2>8
<1>9. CASE WriterEnds
  BY <1>9 DEF WriterEnds, chan_vars, session_vars
<1>10. CASE Truncate
  BY <1>10 DEF Truncate, chan_vars, session_vars
<1>11. CASE Write
  <2>1. bs'.st = mem
    BY <1>11 DEF Write, Encode
  <2> QED BY <1>11, <2>1 DEF Write, Payload, chan_vars, session_vars
<1>12. CASE WriteFails
  BY <1>12 DEF WriteFails
<1>13. CASE Crash
  BY <1>13 DEF Crash
<1>14. CASE UNCHANGED vars
  BY <1>14 DEF vars, session_vars, chan_vars, writer_vars
<1> QED BY <1>1, <1>2, <1>3, <1>4, <1>5, <1>6, <1>7, <1>8, <1>9, <1>10, <1>11,
           <1>12, <1>13, <1>14 DEF Next, Main, Writer

\* The invariant holds of a first session.
LEMMA InitInv == Init => Inv
<1> SUFFICES ASSUME Init PROVE Inv
  OBVIOUS
<1>1. TypeOK
  BY InitType
<1>2. file.st.status # "stopped" /\ Keeps(file.st, prev)
  <2>1. file.st.status = Zero.status
    BY BadFile, ContentsTypes, ZeroTypes DEF Init
  <2> QED BY <2>1 DEF Init, Zero, Keeps, Parses
<1> QED BY <1>1, <1>2 DEF Init, Inv, IdentityInv, WriterLives, StoppedIsLast, PrevKept, BootKept

\* The inductive invariant holds in every reachable state.
LEMMA Invariance == Spec => []Inv
<1>1. Inv /\ [Next]_vars => Inv'
  BY TypeStep, IdentityStep, StoppedStep, PrevStep, BootStep DEF Inv
<1> QED BY InitInv, <1>1, PTL DEF Spec

\* The file never holds the identity of a machine other than the one that
\* runs, in whatever way the sessions before it ended; and a machine that booted
\* and stopped cleanly starts with its identity, though every write of the file
\* is of the state one update before.
THEOREM RestartCorrect == Spec => []RestartKeepsIdentity
<1>1. Inv => IdentityAgrees
  BY DEF Inv, IdentityInv, IdentityAgrees
<1>2. Inv => CleanStopKeeps
  BY DEF Inv, PrevKept, CleanStopKeeps
<1>3. Inv => RestartKeepsIdentity
  BY <1>1, <1>2 DEF Inv, RestartKeepsIdentity
<1> QED BY Invariance, <1>3, PTL

(***************************************************************************)
(* DaemonState implements MachineIdentity.                                 *)
(***************************************************************************)
\* The file is truncated before it is written.
WriteIsFresh == wpc = "write" => file.st = Zero

LEMMA FreshStep == TypeOK /\ WriteIsFresh /\ [Next]_vars => WriteIsFresh'
<1> SUFFICES ASSUME TypeOK, WriteIsFresh, [Next]_vars PROVE WriteIsFresh'
  OBVIOUS
<1> USE DEF WriteIsFresh
<1>1. CASE UNCHANGED <<file, wpc>>
  BY <1>1
<1>2. CASE wpc' # "write"
  BY <1>2
<1>3. CASE Truncate
  BY <1>3 DEF Truncate, Empty
<1> QED BY <1>1, <1>2, <1>3 DEF Next, Main, Writer, OpenDaemonState, Identify, StartSucceeds, StartFails,
     StopRequested, DeferredStop, Exit, Receive, WriterEnds, Write, WriteFails, Crash, vars,
     session_vars, chan_vars, writer_vars

\* The identities of DaemonState are those of MachineIdentity, and keeping one
\* is extending it.
LEMMA IdentityTypes ==
  /\ IdentityOf(Zero) = [mac |-> 0, mid |-> 0]
  /\ \A s \in DaemonStates :
       /\ IdentityOf(s) \in [mac : Nat, mid : Nat]
       /\ \A t \in DaemonStates :
            (/\ IdentityOf(t).mac # 0 => IdentityOf(s).mac = IdentityOf(t).mac
             /\ IdentityOf(t).mid # 0 => IdentityOf(s).mid = IdentityOf(t).mid) <=> Keeps(s, t)
BY DEF IdentityOf, Zero, DaemonStates, Keeps, Parses, Bad

\* What has no identity.
LEMMA ZeroIdentity == Zero.mac = 0 /\ Zero.mid = 0
BY Zenon DEF Zero

LEMMA IdentityInit == Init => Identity!Init
<1> SUFFICES ASSUME Init PROVE Identity!Init
  OBVIOUS
<1>1. pc = "down" /\ file.st.mac = 0 /\ file.st.mid \in {0, Bad}
  BY BadFile, ContentsTypes, ZeroTypes, ZeroIdentity DEF Init
<1>2. IdentityOf(file.st) = [mac |-> 0, mid |-> 0]
  BY <1>1 DEF IdentityOf, Parses
<1> QED BY <1>1, <1>2, IdentityTypes DEF Identity!Init, Identity!Unset

LEMMA OneStep ==
  TypeOK /\ TypeOK' /\ IdentityInv /\ WriterLives /\ WriteIsFresh /\ [Next]_vars
    => [Identity!Next]_(Identity!identity_vars)
<1> SUFFICES ASSUME TypeOK, TypeOK', IdentityInv, WriterLives, WriteIsFresh, [Next]_vars
             PROVE  Identity!Next \/ UNCHANGED Identity!identity_vars
  OBVIOUS
<1> DEFINE S(s) == IdentityOf(s)
<1>t. /\ boot \in DaemonStates /\ bs.st \in DaemonStates /\ file.st \in DaemonStates
      /\ boot' \in DaemonStates /\ file'.st \in DaemonStates /\ Zero \in DaemonStates
  BY ZeroTypes DEF TypeOK, Contents
<1> USE DEF Identity!Next, Identity!identity_vars, Identity!Unset, Identity!Identities, Identity!Extends
<1>1. CASE OpenDaemonState
  <2>1. pc = "down" /\ pc' # "down" /\ file' = file /\ boot' = file.st
    BY <1>1 DEF OpenDaemonState, Decode
  <2> QED BY <2>1 DEF Identity!Begin
<1>2. CASE Identify
  <2>1. pc # "down" /\ pc' # "down" /\ file' = file /\ Keeps(boot', boot)
    BY <1>2, <1>t DEF Identify, MachineIDs, MACAddress, Keeps, Parses, DaemonStates, writer_vars
  <2>2. Identity!Choose
    BY <2>1, <1>t, IdentityTypes DEF Identity!Choose
  <2> QED BY <2>2
<1>3. CASE StartSucceeds
  <2>1. pc # "down" /\ pc' # "down" /\ file' = file /\ IdentityOf(boot') = IdentityOf(boot)
    BY <1>3, <1>t DEF StartSucceeds, IdentityOf, DaemonStates
  <2> QED BY <2>1
<1>4. CASE StartFails \/ StopRequested \/ DeferredStop \/ Receive \/ WriterEnds
  <2>1. UNCHANGED <<file, boot>> /\ (pc = "down" <=> pc' = "down")
    BY <1>4 DEF StartFails, StopRequested, DeferredStop, Receive, WriterEnds, session_vars
  <2> QED BY <2>1
<1>5. CASE Exit
  <2>1. pc # "down" /\ pc' = "down" /\ file' = file
    BY <1>5 DEF Exit
  <2> QED BY <2>1, IdentityTypes DEF Identity!End
<1>6. CASE Crash
  <2>1. pc # "down" /\ pc' = "down" /\ (file' = file \/ file'.st = Zero)
    BY <1>6 DEF Crash, Torn
  <2> QED BY <2>1, IdentityTypes DEF Identity!End
<1>7. CASE Truncate \/ WriteFails
  <2>1. pc # "down" /\ UNCHANGED <<pc, boot>> /\ (file' = file \/ file'.st = Zero)
    BY <1>7 DEF Truncate, WriteFails, session_vars, WriterLives, Empty, Torn
  <2> QED BY <2>1, IdentityTypes DEF Identity!Lose
<1>8. CASE Write
  <2>1. pc # "down" /\ UNCHANGED <<pc, boot>> /\ file' = bs /\ file.st = Zero /\ Keeps(boot, bs.st)
    BY <1>8 DEF Write, Payload, session_vars, WriterLives, WriteIsFresh, IdentityInv
  <2>2. Keeps(file'.st, file.st)
    BY <2>1, ZeroIdentity DEF Keeps, Parses
  <2>3. Identity!Store
    BY <2>1, <2>2, <1>t, IdentityTypes DEF Identity!Store
  <2> QED BY <2>3
<1>9. CASE UNCHANGED vars
  BY <1>9 DEF vars, session_vars
<1> QED BY <1>1, <1>2, <1>3, <1>4, <1>5, <1>6, <1>7, <1>8, <1>9 DEF Next, Main, Writer

\* However late the writer is, whatever it fails to write and wherever a session
\* crashes, the daemon's sessions hand one identity on, or lose it and choose anew.
THEOREM OneIdentityCorrect == Spec => OneIdentity
<1>1. Init => Inv /\ WriteIsFresh
  BY InitInv DEF Init, WriteIsFresh
<1>2. Inv /\ WriteIsFresh /\ [Next]_vars => (Inv /\ WriteIsFresh)'
  BY TypeStep, IdentityStep, StoppedStep, PrevStep, BootStep, FreshStep DEF Inv
<1>3. Inv /\ Inv' /\ WriteIsFresh /\ [Next]_vars => [Identity!Next]_(Identity!identity_vars)
  BY OneStep DEF Inv
<1> QED BY <1>1, <1>2, <1>3, IdentityInit, PTL DEF Spec, OneIdentity, Identity!Spec
=============================================================================
