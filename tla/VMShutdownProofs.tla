--------------------------- MODULE VMShutdownProofs ---------------------------
(***************************************************************************)
(* Proofs about GuestProcesses and VMShutdown, for any calls of Launch and *)
(* Wait, any names they share, and any number of file systems and of       *)
(* listeners.                                                              *)
(***************************************************************************)
EXTENDS VMShutdown, FiniteSetTheorems, TLAPS

(***************************************************************************)
(* What the guest does, what the host does to it, and its sudden death.    *)
(***************************************************************************)
\* without a connection net/rpc answers the call of Shutdown itself
DownFails == /\ at[Down] = "idle" /\ at' = [at EXCEPT ![Down] = "error"]
             /\ UNCHANGED <<guest, conn, proc_vars, down_vars>>

Moved == \/ GuestStep \/ Close \/ DownFails
         \/ \E c \in Calls : Send(c)
         \/ Dies /\ UNCHANGED <<proc_vars, down_vars>>

(***************************************************************************)
(* Calls and processes: a process is there from its Launch's Fork on, and a*)
(* Launch fails only before it.                                            *)
(***************************************************************************)
CallInv ==
  /\ guest \in {"up", "off", "dead"} /\ conn \in BOOLEAN /\ (conn => Up)
  /\ DOMAIN at = Calls /\ \A c \in Calls : at[c] \in Labels(c)
  /\ proc \in [Launches -> {"none", "running", "exited", "reaped"}]
  /\ \A l \in Launches :
       /\ at[l] \in {"idle", "sent"} => proc[l] = "none"
       /\ at[l] \in {"started", "ok"} => proc[l] # "none"
       /\ at[l] = "error" /\ Up => proc[l] = "none"

(***************************************************************************)
(* Where processes are known by their name, or by their order.             *)
(***************************************************************************)
IsProcess(l) == l \in Launches /\ proc[l] # "none"

TableInv ==
  /\ DOMAIN table \subseteq Names
  /\ \A n \in DOMAIN table : IsProcess(table[n]) /\ NameOf[table[n]] = n
  /\ gone \in BOOLEAN /\ (gone => table = <<>>)
  /\ killed \subseteq Launches

GotInv ==
  /\ DOMAIN got \subseteq Waits
  /\ \A w \in DOMAIN got : IsProcess(got[w]) /\ NameOf[got[w]] = NameOf[w]
  /\ \A w \in Waits : at[w] \in {"wait", "delete"} => w \in DOMAIN got
  /\ \A w \in Waits : at[w] = "delete" => proc[got[w]] = "reaped"

\* the goroutine of stopAllProcesses waits for all that Shutdown found
ReapInv ==
  /\ reaping \in Seq(Launches)
  /\ \A i \in DOMAIN reaping : IsProcess(reaping[i])
  /\ at[Down] = "stop" =>
       \A l \in Tracked : proc[l] = "running" => \E i \in DOMAIN reaping : reaping[i] = l

MountInv ==
  /\ timedOut \in BOOLEAN /\ orphans \in BOOLEAN
  /\ mounts \in 0 .. Mounts /\ (mounts < Mounts => gone)
  /\ at[Down] \in {"unmount", "ok"} => gone
  /\ at[Down] = "ok" => mounts = 0

(***************************************************************************)
(* A step of a process: it comes from nothing once, and is reaped for good.*)
(***************************************************************************)
ProcessMoves ==
  /\ proc' \in [Launches -> {"none", "running", "exited", "reaped"}]
  /\ \A l \in Launches :
       /\ proc[l] # "none" => proc'[l] # "none"
       /\ proc[l] = "reaped" => proc'[l] = "reaped"
       /\ proc[l] = "none" => proc'[l] = "none" \/ (proc'[l] = "running" /\ at[l] = "sent" /\ at'[l] = "started")
       /\ proc'[l] = "running" => proc[l] \in {"none", "running"}

LEMMA HeadIsProcess ==
  ASSUME ReapInv, reaping # <<>>
  PROVE  /\ IsProcess(Head(reaping)) /\ Tail(reaping) \in Seq(Launches)
         /\ \A i \in DOMAIN Tail(reaping) : Tail(reaping)[i] = reaping[i + 1] /\ i + 1 \in DOMAIN reaping
         /\ \A i \in DOMAIN reaping : reaping[i] = Head(reaping) \/
               \E j \in DOMAIN Tail(reaping) : Tail(reaping)[j] = reaping[i]
<1>1. reaping \in Seq(Launches)
  BY DEF ReapInv
<1>2. Head(reaping) = reaping[1] /\ 1 \in DOMAIN reaping
  BY <1>1
<1>3. Tail(reaping) \in Seq(Launches)
  BY <1>1
<1>4. \A i \in DOMAIN Tail(reaping) : Tail(reaping)[i] = reaping[i + 1] /\ i + 1 \in DOMAIN reaping
  BY <1>1
<1>5. \A i \in DOMAIN reaping : i # 1 => i - 1 \in DOMAIN Tail(reaping) /\ Tail(reaping)[i - 1] = reaping[i]
  BY <1>1
<1>6. \A i \in DOMAIN reaping : reaping[i] = Head(reaping) \/
               \E j \in DOMAIN Tail(reaping) : Tail(reaping)[j] = reaping[i]
  BY <1>2, <1>5
<1> QED BY <1>2, <1>3, <1>4, <1>6 DEF ReapInv

LEMMA ProcessStep == CallInv /\ ReapInv /\ GotInv /\ Moved => ProcessMoves
<1> SUFFICES ASSUME CallInv, ReapInv, GotInv, Moved PROVE ProcessMoves
  OBVIOUS
<1>0. proc \in [Launches -> {"none", "running", "exited", "reaped"}] /\ DOMAIN at = Calls /\ Launches \subseteq Calls
  BY DEF CallInv, Calls
<1> USE <1>0 DEF ProcessMoves, Goes
<1>1. CASE proc' = proc
  BY <1>1
<1>2. ASSUME NEW l \in Launches, Fork(l) PROVE ProcessMoves
  <2>1. CASE proc' = [proc EXCEPT ![l] = "running"]
    <3>1. at[l] = "sent" /\ at'[l] = "started" /\ proc[l] = "none"
      BY <1>2, <2>1 DEF Fork, CallInv
    <3> QED BY <2>1, <3>1
  <2> QED BY <1>1, <1>2, <2>1 DEF Fork
<1>3. ASSUME NEW w \in Waits, WaitProcess(w) PROVE ProcessMoves
  <2>1. CASE proc' = [proc EXCEPT ![got[w]] = "reaped"] /\ at[w] = "wait"
    <3>1. IsProcess(got[w])
      BY <2>1 DEF GotInv
    <3> QED BY <2>1, <3>1 DEF IsProcess
  <2> QED BY <1>1, <1>3, <2>1 DEF WaitProcess, Reap
<1>4. ASSUME NEW l \in Launches, Exits(l) PROVE ProcessMoves
  BY <1>4 DEF Exits
<1>5. CASE ReapNext
  BY <1>5, HeadIsProcess DEF ReapNext, IsProcess
<1> QED BY <1>1, <1>2, <1>3, <1>4, <1>5 DEF Moved, GuestStep, Serve, Store, Lookup, Delete, StopAll, AllDone, UnmountAll,
     TimeOut, PowerOff, SignalKill, Close, DownFails, Send, Dies, proc_vars, down_vars

\* The labels of the guest's calls, by kind.
LEMMA Kinds ==
  /\ Launches \subseteq Calls /\ Waits \subseteq Calls /\ Down \in Calls
  /\ \A l \in Launches : Labels(l) = {"idle", "sent", "ok", "error", "started"}
  /\ \A w \in Waits : w \notin Launches /\ Labels(w) = {"idle", "sent", "ok", "error", "wait", "delete"}
  /\ Down \notin Launches /\ Labels(Down) = {"idle", "sent", "ok", "error", "stop", "unmount"}
  /\ \A c \in Calls : {"idle", "sent", "ok", "error"} \subseteq Labels(c)
BY CallsAssumption DEF Calls, Labels, Answers

LEMMA CallStep == CallInv /\ ProcessMoves /\ Moved => CallInv'
<1> SUFFICES ASSUME CallInv, ProcessMoves, Moved PROVE CallInv'
  OBVIOUS
<1> USE Kinds DEF CallInv, ProcessMoves, Goes, Up
<1>1. CASE UNCHANGED <<guest, conn, at>>
  BY <1>1
<1>2. ASSUME NEW l \in Launches, Fork(l) PROVE CallInv'
  BY <1>2 DEF Fork
<1>3. CASE Dies
  BY <1>3 DEF Dies, Answers
<1>4. ASSUME NEW l \in Launches, Store(l) PROVE CallInv'
  BY <1>3, <1>4 DEF Store
<1>5. ASSUME NEW w \in Waits, Lookup(w) \/ WaitProcess(w) \/ Delete(w) PROVE CallInv'
  BY <1>5 DEF Lookup, WaitProcess, Reap, Delete
<1>6. CASE StopAll \/ AllDone \/ TimeOut
  BY <1>6 DEF StopAll, AllDone, TimeOut
<1>7. CASE UnmountAll
  BY <1>3, <1>7 DEF UnmountAll, Unmount
<1>8. CASE PowerOff
  BY <1>8 DEF PowerOff
<1>9. CASE Close \/ DownFails
  <2>1. CASE Close
    BY <2>1 DEF Close, proc_vars
  <2>2. CASE DownFails
    <3>1. UNCHANGED <<guest, conn, proc>> /\ at' = [at EXCEPT ![Down] = "error"]
      BY <2>2 DEF DownFails, proc_vars
    <3> QED BY <3>1
  <2> QED BY <1>9, <2>1, <2>2
<1>10. ASSUME NEW c \in Calls, Send(c) PROVE CallInv'
  BY <1>10 DEF Send
<1> QED BY <1>1, <1>2, <1>3, <1>4, <1>5, <1>6, <1>7, <1>8, <1>9, <1>10 DEF Moved, GuestStep, Serve, ReapNext, Exits, SignalKill

LEMMA TableStep == CallInv /\ TableInv /\ ProcessMoves /\ Moved => TableInv'
<1> SUFFICES ASSUME CallInv, TableInv, ProcessMoves, Moved PROVE TableInv'
  OBVIOUS
<1> USE DEF TableInv, ProcessMoves, IsProcess
<1>1. CASE UNCHANGED <<table, gone, killed>>
  BY <1>1
<1>2. ASSUME NEW l \in Launches, Store(l) PROVE TableInv'
  <2>1. CASE table' = With(table, NameOf[l], l) /\ ~gone /\ UNCHANGED <<gone, killed>> /\ at[l] = "started"
    <3>1. proc[l] # "none" /\ NameOf[l] \in Names
      BY <2>1, NamesAssumption DEF CallInv, Names
    <3> QED BY <2>1, <3>1 DEF With
  <2> QED BY <1>1, <1>2, <2>1 DEF Store
<1>3. ASSUME NEW w \in Waits, Delete(w) PROVE TableInv'
  <2>1. table' = Without(table, NameOf[w]) /\ UNCHANGED <<gone, killed>>
    BY <1>3 DEF Delete
  <2>2. table = <<>> => table' = <<>>
    BY <2>1 DEF Without
  <2> QED BY <2>1, <2>2 DEF Without
<1>4. CASE AllDone \/ TimeOut
  <2>1. table' = <<>> /\ gone' = TRUE
    BY <1>4 DEF AllDone, TimeOut, DropTable
  <2>2. killed' \subseteq Launches
    BY <1>4 DEF AllDone, TimeOut, Tracked
  <2>3. DOMAIN table' = {}
    BY <2>1
  <2> QED BY <2>1, <2>2, <2>3
<1>5. ASSUME NEW n \in Names, SignalKill(n) PROVE TableInv'
  BY <1>5 DEF SignalKill
<1> QED BY <1>1, <1>2, <1>3, <1>4, <1>5 DEF Moved, GuestStep, Serve, Fork, Lookup, WaitProcess, StopAll, UnmountAll, ReapNext,
     PowerOff, Exits, Close, DownFails, Send, Dies, proc_vars, down_vars

LEMMA GotStep == CallInv /\ TableInv /\ GotInv /\ ProcessMoves /\ Moved => GotInv'
<1> SUFFICES ASSUME CallInv, TableInv, GotInv, ProcessMoves, Moved PROVE GotInv'
  OBVIOUS
<1>0. DOMAIN at = Calls
  BY DEF CallInv
<1> USE <1>0, Kinds DEF GotInv, ProcessMoves, IsProcess, Goes
<1>1. CASE UNCHANGED got /\ \A w \in Waits : at'[w] \in {"wait", "delete"} => at'[w] = at[w]
  BY <1>1
<1>2. ASSUME NEW w \in Waits, Lookup(w) PROVE GotInv'
  <2>1. CASE got' = With(got, w, table[NameOf[w]]) /\ at' = [at EXCEPT ![w] = "wait"] /\ NameOf[w] \in DOMAIN table
    BY <2>1 DEF With, TableInv
  <2> QED BY <1>1, <1>2, <2>1 DEF Lookup
<1>3. ASSUME NEW w \in Waits, WaitProcess(w) PROVE GotInv'
  <2>1. CASE at' = [at EXCEPT ![w] = "delete"] /\ at[w] = "wait" /\ proc' = [proc EXCEPT ![got[w]] = "reaped"]
    BY <1>3, <2>1 DEF WaitProcess
  <2> QED BY <1>1, <1>3, <2>1 DEF WaitProcess, Reap
<1>4. CASE Dies /\ UNCHANGED got
  BY <1>1, <1>4 DEF Dies, Answers
<1>5. ASSUME NEW l \in Launches, Fork(l) \/ Store(l) PROVE GotInv'
  BY <1>1, <1>4, <1>5 DEF Fork, Store, down_vars
<1>6. ASSUME NEW w \in Waits, Delete(w) PROVE GotInv'
  BY <1>1, <1>6 DEF Delete, down_vars
<1>7. CASE StopAll \/ AllDone \/ TimeOut
  BY <1>1, <1>7 DEF StopAll, AllDone, TimeOut, proc_vars, down_vars
<1>8. CASE UnmountAll
  BY <1>1, <1>4, <1>8 DEF UnmountAll, Unmount, proc_vars
<1>9. CASE ReapNext \/ PowerOff \/ Close \/ (\E l \in Launches : Exits(l)) \/ \E n \in Names : SignalKill(n)
  BY <1>1, <1>9 DEF ReapNext, PowerOff, Close, Exits, SignalKill, proc_vars, down_vars
<1>10. CASE DownFails \/ \E c \in Calls : Send(c)
  BY <1>1, <1>10 DEF DownFails, Send, proc_vars
<1>11. CASE Dies /\ UNCHANGED <<proc_vars, down_vars>>
  BY <1>4, <1>11 DEF proc_vars
<1> QED BY <1>2, <1>3, <1>5, <1>6, <1>7, <1>8, <1>9, <1>10, <1>11 DEF Moved, GuestStep, Serve

\* While Shutdown stops processes the table does not change: it has the mutex.
LEMMA ReapStep ==
  CallInv /\ TableInv /\ ReapInv /\ ProcessMoves /\ Moved => ReapInv'
<1> SUFFICES ASSUME CallInv, TableInv, ReapInv, ProcessMoves, Moved PROVE ReapInv'
  OBVIOUS
<1>0. DOMAIN at = Calls /\ (\A l \in Tracked : l \in Launches) /\ Down \in Calls
  BY Kinds DEF CallInv, TableInv, IsProcess, Tracked
<1>1. CASE reaping' = reaping /\ (at'[Down] = "stop" => at[Down] = "stop" /\ table' = table)
  <2>1. at'[Down] = "stop" => Tracked' = Tracked
    BY <1>1 DEF Tracked
  <2>2. \A l \in Tracked : proc'[l] = "running" => proc[l] = "running"
    BY <1>0, <1>1 DEF ProcessMoves, TableInv, IsProcess, Tracked
  <2> QED BY <1>1, <2>1, <2>2 DEF ReapInv, ProcessMoves, IsProcess
<1>2. CASE StopAll
  <2>1. reaping' \in Orders(Tracked) /\ UNCHANGED <<table, proc>>
    BY <1>2 DEF StopAll, proc_vars
  <2>2. IsFiniteSet(Tracked) /\ Cardinality(Tracked) \in Nat
    <3>1. Tracked \subseteq Launches
      BY <1>0
    <3> QED BY <3>1, LaunchesAssumption, FS_Subset, FS_CardinalityType
  <2>3. /\ reaping' \in [1 .. Cardinality(Tracked) -> Tracked]
        /\ Tracked = {reaping'[i] : i \in DOMAIN reaping'}
    BY <2>1 DEF Orders
  <2>4. reaping' \in Seq(Launches)
    BY <1>0, <2>2, <2>3
  <2>5. \A i \in DOMAIN reaping' : reaping'[i] \in Tracked
    BY <2>3
  <2>6. Tracked' = Tracked
    BY <2>1 DEF Tracked
  <2>7. \A l \in Tracked : IsProcess(l)'
    BY <2>1 DEF TableInv, Tracked, IsProcess
  <2> QED BY <2>3, <2>4, <2>5, <2>6, <2>7 DEF ReapInv
<1>3. CASE ReapNext
  <2>1. /\ reaping # <<>> /\ reaping' = Tail(reaping) /\ UNCHANGED <<at, table>>
        /\ proc' = [proc EXCEPT ![Head(reaping)] = "reaped"]
    BY <1>3 DEF ReapNext
  <2>2. Tracked' = Tracked
    BY <2>1 DEF Tracked
  <2>3. proc \in [Launches -> {"none", "running", "exited", "reaped"}]
    BY DEF CallInv
  <2>6. /\ reaping' \in Seq(Launches)
        /\ \A i \in DOMAIN reaping' : reaping'[i] = reaping[i + 1] /\ i + 1 \in DOMAIN reaping
    BY <2>1, HeadIsProcess
  <2>4. \A i \in DOMAIN reaping' : reaping'[i] \in Launches /\ proc'[reaping'[i]] # "none"
    <3>1. \A l : IsProcess(l) => IsProcess(l)'
      BY DEF IsProcess, ProcessMoves
    <3>2. \A i \in DOMAIN reaping' : IsProcess(reaping'[i])
      BY <2>6 DEF ReapInv
    <3> QED BY <3>1, <3>2 DEF IsProcess
  <2>5. ASSUME at'[Down] = "stop", NEW l \in Tracked, proc'[l] = "running"
        PROVE  \E i \in DOMAIN reaping' : reaping'[i] = l
    <3>1. l # Head(reaping) /\ proc[l] = "running"
      BY <1>0, <2>1, <2>3, <2>5, HeadIsProcess DEF IsProcess
    <3>2. PICK i \in DOMAIN reaping : reaping[i] = l
      BY <2>1, <2>5, <3>1 DEF ReapInv
    <3> QED BY <2>1, <3>1, <3>2, HeadIsProcess
  <2>7. at' = at
    BY <2>1
  <2> QED BY <2>2, <2>4, <2>5, <2>6, <2>7 DEF ReapInv, IsProcess
<1>4. CASE \E l \in Launches : Store(l)
  BY <1>0, <1>1, <1>4, Kinds DEF Store, Free, Goes, Dies, Answers, down_vars
<1>5. CASE \E w \in Waits : Delete(w)
  BY <1>0, <1>1, <1>5, Kinds DEF Delete, Free, Goes, down_vars
<1>6. CASE AllDone \/ TimeOut
  BY <1>0, <1>1, <1>6 DEF AllDone, TimeOut, Goes, down_vars
<1>7. CASE \E c \in Calls : Send(c)
  BY <1>0, <1>1, <1>7 DEF Send, Goes, proc_vars, down_vars
<1>8. CASE Dies /\ UNCHANGED <<proc_vars, down_vars>>
  BY <1>0, <1>1, <1>8 DEF Dies, Answers, proc_vars, down_vars
<1>9. CASE UnmountAll
  BY <1>0, <1>1, <1>9 DEF UnmountAll, Unmount, Dies, Answers, Goes, proc_vars, down_vars
<1>10. CASE \E l \in Launches : Fork(l)
  BY <1>0, <1>1, <1>10, Kinds DEF Fork, Goes, down_vars
<1>11. CASE \E w \in Waits : Lookup(w) \/ WaitProcess(w)
  BY <1>0, <1>1, <1>11, Kinds DEF Lookup, WaitProcess, Reap, Goes, down_vars
<1>12. CASE PowerOff \/ Close \/ (\E l \in Launches : Exits(l)) \/ \E n \in Names : SignalKill(n)
  BY <1>1, <1>12 DEF PowerOff, Close, Exits, SignalKill, proc_vars, down_vars
<1>13. CASE DownFails
  BY <1>0, <1>1, <1>13 DEF DownFails, proc_vars, down_vars
<1> QED BY <1>2, <1>3, <1>4, <1>5, <1>6, <1>7, <1>8, <1>9, <1>10, <1>11, <1>12, <1>13 DEF Moved, GuestStep, Serve

\* File systems are unmounted by Shutdown only, after it has taken the table away.
LEMMA MountStep == CallInv /\ MountInv /\ TableInv /\ Moved => MountInv'
<1> SUFFICES ASSUME CallInv, MountInv, TableInv, Moved PROVE MountInv'
  OBVIOUS
<1>0. DOMAIN at = Calls /\ Down \in Calls /\ \A l \in Launches \union Waits : l # Down
  BY Kinds DEF CallInv
<1>1. CASE /\ UNCHANGED <<timedOut, mounts>> /\ orphans' \in {orphans, TRUE}
           /\ (gone' = gone) /\ (at'[Down] \in {"unmount", "ok"} => at'[Down] = at[Down])
  BY <1>1 DEF MountInv
<1>2. CASE AllDone \/ TimeOut
  <2>1. UNCHANGED <<mounts, orphans>> /\ timedOut' \in {timedOut, TRUE} /\ gone' = TRUE /\ at'[Down] = "unmount"
    BY <1>0, <1>2 DEF AllDone, TimeOut, Goes, DropTable, down_vars
  <2> QED BY <2>1 DEF MountInv
<1>3. CASE UnmountAll
  <2>1. UNCHANGED <<timedOut, orphans, gone>>
    BY <1>3 DEF UnmountAll, proc_vars
  <2>2. CASE mounts > 0 /\ at[Down] = "unmount" /\ mounts' = mounts - 1 /\ at' = at
    <3>1. mounts \in 0 .. Mounts
      BY DEF MountInv
    <3>2. mounts' \in 0 .. Mounts
      BY <2>2, <3>1, MountsAssumption
    <3>3. gone
      BY <2>2 DEF MountInv
    <3>4. gone' /\ at'[Down] # "ok"
      BY <2>1, <2>2, <3>3
    <3> QED BY <2>1, <3>2, <3>4 DEF MountInv
  <2>3. CASE Dies /\ UNCHANGED mounts
    BY <1>0, <1>1, <2>1, <2>3 DEF Dies, Answers
  <2>4. CASE mounts = 0 /\ Goes(Down, "unmount", "ok") /\ UNCHANGED mounts
    BY <1>0, <2>1, <2>4 DEF Goes, MountInv
  <2> QED BY <1>3, <2>2, <2>3, <2>4 DEF UnmountAll, Unmount
<1>4. CASE \E l \in Launches : Fork(l) \/ Store(l) \/ Exits(l)
  BY <1>0, <1>1, <1>4 DEF Fork, Store, Exits, Goes, Dies, Answers, down_vars
<1>5. CASE \E w \in Waits : Lookup(w) \/ WaitProcess(w) \/ Delete(w)
  BY <1>0, <1>1, <1>5 DEF Lookup, WaitProcess, Reap, Delete, Goes, down_vars
<1>6. CASE StopAll \/ ReapNext \/ PowerOff \/ Close \/ DownFails \/ \E n \in Names : SignalKill(n)
  BY <1>0, <1>1, <1>6 DEF StopAll, ReapNext, PowerOff, Close, DownFails, SignalKill, Goes, proc_vars, down_vars
<1>7. CASE (\E c \in Calls : Send(c)) \/ (Dies /\ UNCHANGED <<proc_vars, down_vars>>)
  BY <1>0, <1>1, <1>7 DEF Send, Dies, Answers, Goes, proc_vars, down_vars
<1> QED BY <1>2, <1>3, <1>4, <1>5, <1>6, <1>7 DEF Moved, GuestStep, Serve

\* A process is taken from the table by a Wait that has reaped one of its name.
LEMMA TrackedStep ==
  ASSUME CallInv, TableInv, GotInv, RunningIsTracked, ProcessMoves, Moved
  PROVE  RunningIsTracked'
<1> SUFFICES ASSUME NEW l \in Launches, proc'[l] = "running", at'[l] = "ok", ~gone', ~Shares(l)
             PROVE  \E n \in DOMAIN table' : table'[n] = l
  BY DEF RunningIsTracked, Running, Tracked, Shares
<1>0. DOMAIN at = Calls /\ proc \in [Launches -> {"none", "running", "exited", "reaped"}]
  BY DEF CallInv
<1>1. CASE \E k \in Launches : Store(k)
  <2>1. PICK k \in Launches : Store(k)
    BY <1>1
  <2>2. CASE k = l
    BY <1>0, <2>1, <2>2, Kinds DEF Store, With, Goes, Dies, Answers, CallInv
  <2>3. CASE k # l
    <3>1. at[l] = "ok" /\ ~gone /\ proc[l] = "running"
      BY <1>0, <2>1, <2>3, Kinds DEF Store, Goes, Dies, Answers
    <3>2. PICK n \in DOMAIN table : table[n] = l
      BY <3>1 DEF RunningIsTracked, Running, Tracked
    <3>3. n # NameOf[k]
      BY <2>3, <3>2 DEF TableInv, Shares
    <3> QED BY <2>1, <3>2, <3>3 DEF Store, With
  <2> QED BY <2>2, <2>3
<1>2. CASE at[l] = "ok" /\ proc[l] = "running" /\ ~gone
  <2>1. PICK n \in DOMAIN table : table[n] = l
    BY <1>2 DEF RunningIsTracked, Running, Tracked
  <2>2. ASSUME NEW w \in Waits, Delete(w) PROVE NameOf[w] # n
    <3>1. at[w] = "delete"
      BY <2>2 DEF Delete, Goes
    <3>2. got[w] \in Launches /\ proc[got[w]] = "reaped" /\ NameOf[got[w]] = NameOf[w]
      BY <3>1 DEF GotInv, IsProcess
    <3> QED BY <1>2, <2>1, <3>2 DEF TableInv, Shares
  <2>3. CASE table' = table
    BY <2>1, <2>3
  <2>4. CASE \E w \in Waits : Delete(w)
    BY <2>1, <2>2, <2>4 DEF Delete, Without
  <2> QED BY <1>1, <2>3, <2>4 DEF Moved, GuestStep, Serve, Fork, Lookup, WaitProcess, StopAll, AllDone, TimeOut, DropTable,
       UnmountAll, ReapNext, PowerOff, Exits, SignalKill, Close, DownFails, Send, Dies, proc_vars, down_vars
<1>3. CASE ~(\E k \in Launches : Store(k))
  <2>1. gone' = gone \/ gone'
    BY <1>3 DEF Moved, GuestStep, Serve, Fork, Lookup, WaitProcess, Delete, StopAll, AllDone, TimeOut, DropTable,
       UnmountAll, ReapNext, PowerOff, Exits, SignalKill, Close, DownFails, Send, Dies, proc_vars, down_vars
  <2>2. at[l] = "ok"
    <3>1. l \in Calls /\ l # Down /\ \A w \in Waits : w # l
      BY Kinds
    <3>2. CASE at' = at
      BY <3>2
    <3>3. ASSUME NEW c \in Calls, NEW p, NEW q, Goes(c, p, q), c # l \/ q # "ok" PROVE at[l] = "ok"
      BY <1>0, <3>1, <3>3 DEF Goes
    <3>4. CASE Dies
      BY <3>1, <3>4 DEF Dies, Answers
    <3>5. CASE DownFails
      BY <1>0, <3>1, <3>5 DEF DownFails
    <3>6. CASE \E k \in Launches : Fork(k)
      BY <3>3, <3>6, Kinds DEF Fork
    <3>7. CASE \E w \in Waits : Lookup(w) \/ WaitProcess(w) \/ Delete(w)
      BY <3>1, <3>3, <3>7, Kinds DEF Lookup, WaitProcess, Reap, Delete
    <3>8. CASE StopAll \/ AllDone \/ TimeOut \/ UnmountAll
      BY <3>1, <3>2, <3>3, <3>4, <3>8, Kinds DEF StopAll, AllDone, TimeOut, UnmountAll, Unmount
    <3>9. CASE \E c \in Calls : Send(c)
      BY <3>3, <3>9 DEF Send
    <3> QED BY <1>3, <3>2, <3>4, <3>5, <3>6, <3>7, <3>8, <3>9 DEF Moved, GuestStep, Serve, ReapNext, PowerOff, Exits,
         SignalKill, Close
  <2>3. proc[l] = "running"
    BY <1>0, <2>2 DEF ProcessMoves, CallInv
  <2> QED BY <1>2, <2>1, <2>2, <2>3
<1> QED BY <1>1, <1>3

\* When the table is gone and the ten seconds are not, nothing was running that was
\* in it, and what is forked since does not reach it.
LEMMA QuietStep ==
  ASSUME CallInv, TableInv, ReapInv, MountInv, RunningIsTracked, UnmountIsQuiet, ProcessMoves, Moved
  PROVE  UnmountIsQuiet'
<1> SUFFICES ASSUME Up', gone', ~timedOut', NEW l \in Launches, proc'[l] = "running", ~Shares(l)
             PROVE  at'[l] = "started"
  BY DEF UnmountIsQuiet, Running, Shares
<1>0. DOMAIN at = Calls /\ proc \in [Launches -> {"none", "running", "exited", "reaped"}]
  BY DEF CallInv
<1>1. Up
  BY DEF Moved, GuestStep, Serve, Fork, Store, Lookup, WaitProcess, Reap, Delete, StopAll, AllDone, TimeOut,
     UnmountAll, Unmount, ReapNext, PowerOff, Exits, SignalKill, Close, DownFails, Send, Dies, Goes, Free, Up
<1>2. CASE proc[l] = "none"
  BY <1>2 DEF ProcessMoves
<1>3. CASE proc[l] # "none"
  <2>1. proc[l] = "running" /\ at[l] \in {"started", "ok"}
    <3>1. proc[l] = "running"
      BY <1>3 DEF ProcessMoves
    <3>2. at[l] \in {"idle", "sent", "ok", "error", "started"}
      BY Kinds DEF CallInv
    <3> QED BY <1>1, <3>1, <3>2 DEF CallInv
  <2>2. CASE AllDone
    <3>1. reaping = <<>> /\ at[Down] = "stop" /\ at'[l] = at[l]
      BY <1>0, <2>2, Kinds DEF AllDone, Goes
    <3>2. l \notin Tracked
      BY <2>1, <3>1 DEF ReapInv
    <3>3. gone => at[l] = "started"
      BY <2>1, <1>1, <2>2 DEF UnmountIsQuiet, Running, AllDone, down_vars
    <3> QED BY <2>1, <3>1, <3>2, <3>3 DEF RunningIsTracked, Running
  <2>3. CASE ~AllDone
    <3>1. gone /\ ~timedOut
      <4>1. ~TimeOut
        BY DEF TimeOut
      <4>2. gone' = gone /\ timedOut' = timedOut
        BY <2>3, <4>1 DEF Moved, GuestStep, Serve, Fork, Store, Lookup, WaitProcess, Delete, StopAll,
           UnmountAll, ReapNext, PowerOff, Exits, SignalKill, Close, DownFails, Send, Dies, proc_vars, down_vars
      <4> QED BY <4>2
    <3>2. at[l] = "started"
      BY <1>1, <2>1, <3>1 DEF UnmountIsQuiet, Running
    <3>3. ~(\E k \in Launches : Store(k))
      BY <3>1 DEF Store, Dies, Up
    <3> QED BY <1>0, <2>3, <3>2, <3>3, Kinds DEF Moved, GuestStep, Serve, Fork, Lookup, WaitProcess, Reap, Delete, StopAll,
         TimeOut, UnmountAll, Unmount, ReapNext, PowerOff, Exits, SignalKill, Close, DownFails, Send, Dies, Answers, Goes, Up
  <2> QED BY <2>2, <2>3
<1> QED BY <1>2, <1>3

(***************************************************************************)
(* The guest, whoever composes it.                                         *)
(***************************************************************************)
GuestIInv == /\ CallInv /\ TableInv /\ GotInv /\ ReapInv /\ MountInv
             /\ RunningIsTracked /\ UnmountIsQuiet

LEMMA GuestKeeps == GuestIInv /\ (Moved \/ UNCHANGED guest_vars) => GuestIInv'
<1> SUFFICES ASSUME GuestIInv, Moved \/ UNCHANGED guest_vars PROVE GuestIInv'
  OBVIOUS
<1>1. CASE Moved
  BY <1>1, ProcessStep, CallStep, TableStep, GotStep, ReapStep, MountStep, TrackedStep, QuietStep DEF GuestIInv
<1>2. CASE UNCHANGED guest_vars
  BY <1>2 DEF GuestIInv, CallInv, TableInv, GotInv, ReapInv, MountInv, RunningIsTracked, UnmountIsQuiet, IsProcess,
     Running, Tracked, Up, guest_vars, proc_vars, down_vars
<1> QED BY <1>1, <1>2

LEMMA GuestIsTyped == GuestIInv => GuestTypeOK
BY DEF GuestIInv, CallInv, TableInv, GotInv, ReapInv, MountInv, IsProcess, GuestTypeOK

LEMMA GuestStart == GuestInit => GuestIInv
<1> SUFFICES ASSUME GuestInit PROVE GuestIInv
  OBVIOUS
<1>1. CallInv
  BY Kinds DEF GuestInit, CallInv, Up
<1>2. table = <<>> /\ got = <<>> /\ reaping = <<>> /\ gone = FALSE /\ at = [c \in Calls |-> "idle"]
  BY DEF GuestInit
<1>3. DOMAIN table = {} /\ DOMAIN got = {} /\ reaping \in Seq(Launches) /\ DOMAIN reaping = {}
  BY <1>2
<1>4. mounts \in 0 .. Mounts /\ ~(mounts < Mounts)
  <2>1. mounts = Mounts
    BY DEF GuestInit
  <2> QED BY <2>1, MountsAssumption
<1> QED BY <1>1, <1>2, <1>3, <1>4, Kinds DEF GuestInit, GuestIInv, TableInv, GotInv, ReapInv, MountInv,
     RunningIsTracked, UnmountIsQuiet, Running

LEMMA GuestInvariance == GuestSpec => []GuestIInv
<1>1. GuestIInv /\ [GuestNext]_guest_vars => GuestIInv'
  <2>1. GuestNext => Moved
    BY DEF GuestNext, Moved
  <2> QED BY <2>1, GuestKeeps
<1> QED BY <1>1, GuestStart, PTL DEF GuestSpec

\* For any launches, waits and names, whatever the order of their calls: a service
\* that runs is in the table of the guest, where Wait and Shutdown find it.
THEOREM GuestCorrect == GuestSpec => []GuestInv
<1>1. GuestIInv => GuestInv
  BY GuestIsTyped DEF GuestIInv, GuestInv
<1> QED BY <1>1, GuestInvariance, PTL

\* Shutdown unmounts with nothing running, but for a service that did not end in
\* time, was started and not yet stored, or lost its name to another.
THEOREM QuietCorrect == GuestSpec => []UnmountIsQuiet
<1>1. GuestIInv => UnmountIsQuiet
  BY DEF GuestIInv
<1> QED BY <1>1, GuestInvariance, PTL

(***************************************************************************)
(* The host's side of Shutdown: the guest is asked once, and what "stopped"*)
(* is told of is over.                                                     *)
(***************************************************************************)
AskedOnce ==
  /\ calling => at[Down] = "idle"
  /\ pc \in {"signal", "service", "begin"} => ~calling /\ at[Down] = "idle"
  /\ pc = "close" => at[Down] = "ok"
  /\ ~conn /\ Up => at[Down] = "ok"
  /\ guest = "off" => at[Down] = "ok"

QueueInv ==
  \/ queue = <<>>
  \/ /\ listenCh = "made"
     /\ \E s \in Statuses : queue = <<s>> /\ (s = "stopped" => status = "stopped")

ToldStopped ==
  /\ notified => ~Up
  /\ status = "stopped" => notified
  /\ pc \in {"signal", "service", "begin", "check"} => listenCh = "none"
  /\ QueueInv

HostTypes ==
  /\ pc \in {"signal", "service", "begin", "check", "await", "close", "wait"} \union Finished
  /\ status \in Statuses /\ notified \in BOOLEAN /\ calling \in BOOLEAN
  /\ listenCh \in {"none", "nil", "made"}
  /\ busClosed \in BOOLEAN /\ (chClosed => busClosed /\ listenCh = "made")
  /\ listeners \union accepting \union returned \union late \subseteq Listeners
  /\ accepting \cap returned = {}

\* Shutdown's answer is for good, nobody but the host asks, and the guest goes off
\* when the connection is closed.
DownMoves ==
  /\ at[Down] = "ok" => at'[Down] = "ok"
  /\ Up' => Up
  /\ guest' = "off" => guest = "off" \/ (Up /\ ~conn)

LEMMA DownStep ==
  ASSUME CallInv, Moved
  PROVE  /\ DownMoves
         /\ GuestStep \/ Dies \/ Close => (at[Down] = "idle" => at'[Down] = "idle")
         /\ GuestStep \/ Dies => (Up' => conn' = conn)
<1>0. DOMAIN at = Calls /\ Down \in Calls /\ \A c \in Launches \union Waits : c # Down
  BY Kinds DEF CallInv
<1> DEFINE Goal == /\ DownMoves
                   /\ GuestStep \/ Dies \/ Close => (at[Down] = "idle" => at'[Down] = "idle")
                   /\ GuestStep \/ Dies => (Up' => conn' = conn)
<1>1. CASE UNCHANGED <<guest, conn, at>>
  BY <1>1 DEF DownMoves, Up
<1>2. CASE Dies
  BY <1>0, <1>2 DEF Dies, Answers, DownMoves, Up
<1>3. ASSUME NEW c \in Calls, NEW p, NEW q, Goes(c, p, q), UNCHANGED <<guest, conn>>,
             c # Down \/ p \notin {"ok", "idle"}
      PROVE  Goal
  BY <1>0, <1>3 DEF Goes, DownMoves, Up
<1>4. ASSUME NEW l \in Launches, Fork(l) \/ Store(l) PROVE Goal
  BY <1>0, <1>2, <1>3, <1>4, Kinds DEF Fork, Store
<1>5. ASSUME NEW w \in Waits, Lookup(w) \/ WaitProcess(w) \/ Delete(w) PROVE Goal
  BY <1>0, <1>3, <1>5, Kinds DEF Lookup, WaitProcess, Reap, Delete
<1>6. CASE StopAll \/ AllDone \/ TimeOut \/ UnmountAll
  BY <1>0, <1>1, <1>2, <1>3, <1>6 DEF StopAll, AllDone, TimeOut, UnmountAll, Unmount
<1>7. CASE PowerOff
  BY <1>7 DEF PowerOff, DownMoves, Up
<1>8. CASE GuestStep
  BY <1>1, <1>2, <1>4, <1>5, <1>6, <1>7, <1>8 DEF GuestStep, Serve, ReapNext, Exits, SignalKill
<1>9. CASE Close /\ ~(GuestStep \/ Dies)
  BY <1>9 DEF Close, DownMoves, Up
<1>10. CASE DownFails /\ ~(GuestStep \/ Dies \/ Close)
  BY <1>0, <1>10 DEF DownFails, DownMoves, Up
<1>11. CASE (\E c \in Calls : Send(c)) /\ ~(GuestStep \/ Dies \/ Close)
  BY <1>0, <1>11 DEF Send, Goes, DownMoves, Up
<1>12. GuestStep \/ Dies \/ Close \/ DownFails \/ \E c \in Calls : Send(c)
  BY DEF Moved
<1>13. CASE GuestStep \/ Dies \/ Close
  BY <1>2, <1>8, <1>9, <1>13
<1>14. CASE ~(GuestStep \/ Dies \/ Close)
  BY <1>10, <1>11, <1>12, <1>14
<1> QED BY <1>13, <1>14

\* What the guest sees of a step of the host.
LEMMA HostMoves == AskedOnce /\ [Next]_vars => Moved \/ UNCHANGED guest_vars
<1> SUFFICES ASSUME AskedOnce, [Next]_vars PROVE Moved \/ UNCHANGED guest_vars
  OBVIOUS
<1>1. CASE UNCHANGED guest_vars
  BY <1>1
<1>2. CASE CallShutdown
  <2>1. at[Down] = "idle" /\ Down \in Calls
    BY <1>2, Kinds DEF CallShutdown, AskedOnce
  <2> QED BY <1>2, <2>1 DEF CallShutdown, Moved, DownFails
<1>3. CASE CloseConn
  BY <1>3 DEF CloseConn, Moved
<1>4. CASE Guest \/ MachineFails
  BY <1>4 DEF Guest, MachineFails, Moved
<1> QED BY <1>1, <1>2, <1>3, <1>4 DEF Next, DebugVM, SignalService, ServiceExited, Begin, Check, AwaitGuest, Receive,
     Notified, StreamBreaks, CloseBus, Forward, Forwarded, vars

LEMMA AskedStep == CallInv /\ AskedOnce /\ [Next]_vars => AskedOnce'
<1> SUFFICES ASSUME CallInv, AskedOnce, [Next]_vars PROVE AskedOnce'
  OBVIOUS
<1>0. Moved \/ UNCHANGED guest_vars
  BY HostMoves
<1>1. DownMoves
  <2>1. CASE Moved
    BY <2>1, DownStep
  <2>2. CASE UNCHANGED guest_vars
    BY <2>2 DEF guest_vars, DownMoves, Up
  <2> QED BY <1>0, <2>1, <2>2
<1>2. DOMAIN at = Calls /\ Down \in Calls
  BY Kinds DEF CallInv
<1>3. CASE UNCHANGED <<guest_vars, pc, calling>>
  BY <1>3 DEF AskedOnce, guest_vars, Up
<1>4. CASE Guest \/ MachineFails
  <2>1. Moved /\ (GuestStep \/ Dies)
    BY <1>4 DEF Guest, MachineFails, Moved
  <2>2. UNCHANGED <<pc, calling>>
    BY <1>4 DEF Guest, MachineFails, host_vars
  <2>3. (at[Down] = "idle" => at'[Down] = "idle") /\ (Up' => conn' = conn)
    BY <2>1, DownStep
  <2> QED BY <1>1, <2>2, <2>3 DEF AskedOnce, DownMoves
<1>5. CASE CallShutdown
  BY <1>1, <1>2, <1>5 DEF CallShutdown, Send, Goes, AskedOnce, Up
<1>6. CASE UNCHANGED <<guest, conn, at>> /\ (calling' => at[Down] = "idle")
           /\ (pc' \in {"signal", "service", "begin"} => pc \in {"signal", "service", "begin"} /\ calling' = calling)
           /\ (pc' = "close" => at[Down] = "ok")
  BY <1>6 DEF AskedOnce, Up
<1>9. CASE SignalService \/ ServiceExited \/ Check \/ Receive
  BY <1>6, <1>9 DEF SignalService, ServiceExited, Check, Receive, AfterStatus, AskedOnce, guest_vars
<1>10. CASE Begin
  BY <1>6, <1>10 DEF Begin, AskedOnce, guest_vars
<1>11. CASE AwaitGuest
  BY <1>6, <1>11 DEF AwaitGuest, AskedOnce, guest_vars
<1>7. CASE CloseConn
  BY <1>1, <1>7 DEF CloseConn, Close, AskedOnce, guest_vars, Up
<1>8. CASE StreamBreaks
  BY <1>8 DEF StreamBreaks, AskedOnce, guest_vars, Up
<1> QED BY <1>3, <1>4, <1>5, <1>7, <1>8, <1>9, <1>10, <1>11 DEF Next, DebugVM, Notified, CloseBus, Forward, Forwarded,
     host_vars, vars

\* A step that leaves the machine's status alone.
LEMMA UntoldStep ==
  ASSUME ToldStopped, Up' => Up, UNCHANGED <<status, notified, listenCh, queue>>,
         pc' \in {"signal", "service", "begin", "check"} => pc \in {"signal", "service", "begin", "check"}
  PROVE  ToldStopped'
BY DEF ToldStopped, QueueInv

\* "stopped" is told last, and nobody is told before Shutdown's check.
LEMMA ToldStep == HostTypes /\ ToldStopped /\ (Up' => Up) /\ [Next]_vars => ToldStopped'
<1> SUFFICES ASSUME HostTypes, ToldStopped, Up' => Up, [Next]_vars PROVE ToldStopped'
  OBVIOUS
<1>1. CASE UNCHANGED <<pc, status, notified, listenCh, queue>>
  BY <1>1, UntoldStep
<1>2. CASE SignalService \/ ServiceExited \/ AwaitGuest \/ CloseConn \/ StreamBreaks
  <2>1. UNCHANGED <<status, notified, listenCh, queue>>
    BY <1>2 DEF SignalService, ServiceExited, AwaitGuest, CloseConn, StreamBreaks, wait_vars
  <2>2. pc' \in {"signal", "service", "begin", "check"} => pc \in {"signal", "service", "begin", "check"}
    BY <1>2 DEF SignalService, ServiceExited, AwaitGuest, CloseConn, StreamBreaks
  <2> QED BY <2>1, <2>2, UntoldStep
<1>3. CASE Begin
  <2>1. queue = <<>> /\ listenCh = "none" /\ UNCHANGED <<notified, listenCh>> /\ status' = "stopping" /\ queue' = queue
    BY <1>3 DEF Begin, UpdateStatus, ToldStopped, QueueInv
  <2> QED BY <1>3, <2>1 DEF Begin, ToldStopped, QueueInv
<1>4. CASE Check
  <2>1. queue = <<>> /\ UNCHANGED <<status, notified, queue>> /\ pc' = "await"
    BY <1>4 DEF Check, ToldStopped, QueueInv
  <2> QED BY <2>1 DEF ToldStopped, QueueInv
<1>5. CASE Receive
  <2>1. queue' = <<>> /\ UNCHANGED <<status, notified, listenCh>>
    BY <1>5 DEF Receive, ToldStopped, QueueInv
  <2>2. pc' \in {"done", "wait"}
    BY <1>5 DEF Receive, AfterStatus
  <2> QED BY <2>1, <2>2 DEF ToldStopped, QueueInv
<1>6. CASE Notified
  <2>1. ~Up /\ status # "stopped" /\ UNCHANGED <<pc, listenCh>>
    BY <1>6 DEF Notified, ToldStopped
  <2>2. PICK s \in Statuses : UpdateStatus(s) /\ (s = "stopped" => notified')
    BY <1>6 DEF Notified, Statuses
  <2>3. QueueInv'
    BY <2>1, <2>2 DEF UpdateStatus, ToldStopped, QueueInv
  <2> QED BY <2>1, <2>2, <2>3 DEF UpdateStatus, ToldStopped
<1>7. CASE CallShutdown \/ Guest \/ MachineFails \/ CloseBus \/ \E l \in Listeners : Forward(l) \/ Forwarded(l)
  BY <1>1, <1>7 DEF CallShutdown, Guest, MachineFails, CloseBus, Forward, Forwarded, host_vars, wait_vars
<1> QED BY <1>1, <1>2, <1>3, <1>4, <1>5, <1>6, <1>7 DEF Next, DebugVM, host_vars, wait_vars, vars

\* So that what Shutdown reads there is true when it returns, and stays true.
LEMMA DoneStep ==
  HostTypes /\ ToldStopped /\ DoneMeansStopped /\ (Up' => Up) /\ [Next]_vars => DoneMeansStopped'
<1> SUFFICES ASSUME HostTypes, ToldStopped, DoneMeansStopped, Up' => Up, [Next]_vars, pc' = "done"
             PROVE  (status' = "stopped" /\ ~Up') \/ chClosed'
  BY DEF DoneMeansStopped
<1>1. CASE pc = "done"
  <2>1. UNCHANGED <<status, chClosed>>
    BY <1>1 DEF Next, DebugVM, SignalService, ServiceExited, Begin, Check, AwaitGuest, CloseConn, Receive, CallShutdown,
       Notified, StreamBreaks, CloseBus, Forward, Forwarded, Guest, MachineFails, Live, Finished, host_vars, wait_vars, vars
  <2> QED BY <1>1, <2>1 DEF DoneMeansStopped
<1>2. CASE pc # "done"
  <2>1. Receive
    BY <1>2 DEF Next, DebugVM, SignalService, ServiceExited, Begin, Check, AwaitGuest, CloseConn, CallShutdown,
       Notified, StreamBreaks, CloseBus, Forward, Forwarded, Guest, MachineFails, host_vars, vars
  <2>2. UNCHANGED <<status, chClosed>>
    BY <2>1 DEF Receive
  <2>3. CASE queue # <<>>
    <3>1. PICK s \in Statuses : queue = <<s>> /\ (s = "stopped" => status = "stopped")
      BY <2>3 DEF ToldStopped, QueueInv
    <3>2. Head(queue) = s
      BY <3>1
    <3>3. s = "stopped"
      BY <2>1, <2>3, <3>2 DEF Receive, AfterStatus
    <3> QED BY <2>2, <3>1, <3>3 DEF ToldStopped
  <2>4. CASE queue = <<>>
    BY <2>1, <2>2, <2>4 DEF Receive
  <2> QED BY <2>3, <2>4
<1> QED BY <1>1, <1>2

LEMMA SweepStep == HostTypes /\ ToldStopped /\ SweepIsComplete /\ [Next]_vars => SweepIsComplete'
<1> SUFFICES ASSUME HostTypes, ToldStopped, SweepIsComplete, [Next]_vars PROVE SweepIsComplete'
  OBVIOUS
<1> USE DEF SweepIsComplete, Swept
<1>1. CASE UNCHANGED <<listeners, accepting, late, listenCh>>
  BY <1>1
<1>2. CASE Check
  <2>1. listenCh = "none" /\ listenCh' # "none"
    BY <1>2 DEF Check, MakeCh, ToldStopped
  <2> QED BY <1>2, <2>1 DEF Check, Sweep
<1>3. ASSUME NEW l \in Listeners, Forward(l) \/ Forwarded(l) PROVE SweepIsComplete'
  BY <1>3 DEF Forward, Forwarded, HostTypes, wait_vars
<1> QED BY <1>1, <1>2, <1>3 DEF Next, DebugVM, SignalService, ServiceExited, Begin, AwaitGuest, CloseConn, Receive,
     CallShutdown, Notified, StreamBreaks, CloseBus, Guest, MachineFails, forward_vars, wait_vars, host_vars, vars

LEMMA TypesStep == HostTypes /\ ToldStopped /\ [Next]_vars => HostTypes'
<1> SUFFICES ASSUME HostTypes, ToldStopped, [Next]_vars PROVE HostTypes'
  OBVIOUS
<1> USE DEF Finished
<1>1. pc' \in {"signal", "service", "begin", "check", "await", "close", "wait"} \union Finished
  BY DEF HostTypes, Next, DebugVM, SignalService, ServiceExited, Begin, Check, AwaitGuest, CloseConn, Receive, AfterStatus,
     CallShutdown, Notified, StreamBreaks, CloseBus, Forward, Forwarded, Guest, MachineFails, host_vars, vars
<1>2. status' \in Statuses
  BY DEF HostTypes, Next, DebugVM, SignalService, ServiceExited, Begin, Check, AwaitGuest, CloseConn, Receive, UpdateStatus,
     CallShutdown, Notified, StreamBreaks, CloseBus, Forward, Forwarded, Guest, MachineFails, host_vars, vars, Statuses
<1>3. notified' \in BOOLEAN /\ calling' \in BOOLEAN
  <2>1. notified' = notified \/ notified' = TRUE
    BY DEF Next, DebugVM, SignalService, ServiceExited, Begin, Check, AwaitGuest, CloseConn, Receive,
     CallShutdown, Notified, StreamBreaks, CloseBus, Forward, Forwarded, Guest, MachineFails, host_vars, vars
  <2>2. calling' = calling \/ calling' = TRUE \/ calling' = FALSE
    BY DEF Next, DebugVM, SignalService, ServiceExited, Begin, Check, AwaitGuest, CloseConn, Receive,
     CallShutdown, Notified, StreamBreaks, CloseBus, Forward, Forwarded, Guest, MachineFails, host_vars, vars
  <2> QED BY <2>1, <2>2 DEF HostTypes
<1>4. listenCh' \in {"none", "nil", "made"} /\ busClosed' \in BOOLEAN /\ (chClosed' => busClosed' /\ listenCh' = "made")
  <2>1. CASE UNCHANGED <<listenCh, busClosed, chClosed>>
    BY <2>1 DEF HostTypes
  <2>2. CASE Check
    <3>1. ~chClosed /\ UNCHANGED <<busClosed, chClosed>> /\ listenCh' \in {"nil", "made"}
      BY <2>2 DEF Check, MakeCh, HostTypes, ToldStopped
    <3> QED BY <3>1 DEF HostTypes
  <2>3. CASE CloseBus
    <3>1. busClosed' = TRUE /\ listenCh' = listenCh /\ chClosed' = (listenCh = "made")
      BY <2>3 DEF CloseBus
    <3> QED BY <3>1, ZenonT(30) DEF HostTypes
  <2> QED BY <2>1, <2>2, <2>3 DEF Next, DebugVM, SignalService, ServiceExited, Begin, AwaitGuest, CloseConn, Receive,
       CallShutdown, Notified, StreamBreaks, Forward, Forwarded, Guest, MachineFails, wait_vars, host_vars, vars
<1>5. listeners' \union accepting' \union returned' \union late' \subseteq Listeners /\ accepting' \cap returned' = {}
  <2>1. CASE UNCHANGED forward_vars
    BY <2>1 DEF HostTypes, forward_vars
  <2>2. CASE Check
    BY <2>2 DEF Check, Sweep, HostTypes
  <2>3. ASSUME NEW l \in Listeners, Forward(l) \/ Forwarded(l)
        PROVE  listeners' \union accepting' \union returned' \union late' \subseteq Listeners /\ accepting' \cap returned' = {}
    BY <2>3 DEF Forward, Forwarded, HostTypes
  <2> QED BY <2>1, <2>2, <2>3 DEF Next, DebugVM, SignalService, ServiceExited, Begin, AwaitGuest, CloseConn, Receive,
       CallShutdown, Notified, StreamBreaks, CloseBus, Guest, MachineFails, host_vars, vars
<1> QED BY <1>1, <1>2, <1>3, <1>4, <1>5 DEF HostTypes

HostIInv == /\ GuestIInv /\ HostTypes /\ AskedOnce /\ ToldStopped
            /\ DoneMeansStopped /\ SweepIsComplete

LEMMA ShutdownStart == Init => HostIInv
<1> SUFFICES ASSUME Init PROVE HostIInv
  OBVIOUS
<1>1. at = [c \in Calls |-> IF c \in Launches THEN "ok" ELSE IF c \in Waits THEN "wait" ELSE "idle"]
      /\ guest = "up" /\ conn = TRUE /\ proc = [l \in Launches |-> "running"]
  BY DEF Init
<1>2. at[Down] = "idle" /\ DOMAIN at = Calls
      /\ (\A l \in Launches : at[l] = "ok") /\ \A w \in Waits : at[w] = "wait"
  BY <1>1, Kinds
<1>3. CallInv
  <2>1. \A c \in Calls : at[c] \in Labels(c)
    BY <1>1, Kinds DEF Calls
  <2> QED BY <1>1, <1>2, <2>1 DEF CallInv, Up
<1>4. table \in [Names -> Launches] /\ (\A n \in Names : NameOf[table[n]] = n) /\ gone = FALSE /\ killed = {}
      /\ got = [w \in Waits |-> table[NameOf[w]]]
  BY DEF Init
<1>5. TableInv
  BY <1>1, <1>4 DEF TableInv, IsProcess
<1>6. GotInv
  <2>1. \A w \in Waits : NameOf[w] \in Names
    BY NamesAssumption DEF Names
  <2> QED BY <1>1, <1>2, <1>4, <2>1 DEF GotInv, IsProcess
<1>7. ReapInv
  <2>1. reaping = <<>>
    BY DEF Init
  <2>2. reaping \in Seq(Launches) /\ DOMAIN reaping = {}
    BY <2>1
  <2> QED BY <1>2, <2>2 DEF ReapInv
<1>8. MountInv
  <2>1. mounts = Mounts /\ timedOut \in BOOLEAN /\ orphans \in BOOLEAN
    BY DEF Init
  <2>2. mounts \in 0 .. Mounts /\ ~(mounts < Mounts)
    BY <2>1, MountsAssumption
  <2> QED BY <1>2, <2>1, <2>2 DEF MountInv
<1>9. RunningIsTracked
  <2>1. \A l \in Launches : NameOf[l] \in Names
    BY NamesAssumption DEF Names
  <2> QED BY <1>4, <2>1 DEF RunningIsTracked, Running, Tracked, Shares
<1>10. UnmountIsQuiet
  BY <1>4 DEF UnmountIsQuiet
<1>11. HostTypes /\ ToldStopped /\ DoneMeansStopped /\ SweepIsComplete
  BY DEF Init, HostTypes, ToldStopped, QueueInv, DoneMeansStopped, SweepIsComplete, Statuses
<1>12. AskedOnce
  BY <1>1, <1>2 DEF Init, AskedOnce
<1> QED BY <1>3, <1>5, <1>6, <1>7, <1>8, <1>9, <1>10, <1>11, <1>12 DEF HostIInv, GuestIInv

LEMMA ShutdownInvariance == Spec => []HostIInv
<1>1. HostIInv /\ [Next]_vars => HostIInv'
  <2> SUFFICES ASSUME HostIInv, [Next]_vars PROVE HostIInv'
    OBVIOUS
  <2>1. Moved \/ UNCHANGED guest_vars
    BY HostMoves DEF HostIInv
  <2>2. Up' => Up
    BY <2>1, DownStep DEF HostIInv, GuestIInv, DownMoves, guest_vars, Up
  <2> QED BY <2>1, <2>2, GuestKeeps, AskedStep, ToldStep, DoneStep, SweepStep, TypesStep DEF HostIInv, GuestIInv
<1> QED BY <1>1, ShutdownStart, PTL DEF Spec

\* Whatever is forwarded before and while the machine shuts down, by any number of
\* goroutines: the sweep leaves none of the sockets open that were forwarded before
\* it, and only those that were forwarded after it accept connections.
THEOREM ShutdownCorrect == Spec => []ShutdownInv
<1>1. HostIInv => ShutdownInv
  <2> SUFFICES ASSUME HostIInv PROVE ShutdownInv
    OBVIOUS
  <2>1. queue \in Seq(Statuses) /\ Len(queue) <= 1
    <3>1. queue = <<>> \/ \E s \in Statuses : queue = <<s>>
      BY DEF HostIInv, ToldStopped, QueueInv
    <3>2. ASSUME NEW s \in Statuses, queue = <<s>> PROVE queue \in Seq(Statuses) /\ Len(queue) <= 1
      BY <3>2
    <3>3. CASE queue = <<>>
      BY <3>3
    <3> QED BY <3>1, <3>2, <3>3
  <2>2. TypeOK
    BY <2>1, GuestIsTyped DEF HostIInv, HostTypes, TypeOK
  <2> QED BY <2>2 DEF HostIInv, ShutdownInv
<1> QED BY <1>1, ShutdownInvariance, PTL

\* However the guest answers, fails or powers off under it, and whenever the status
\* "stopped" is told: Shutdown is done only when the machine has stopped, or its
\* channel was closed.
THEOREM DoneCorrect == Spec => []DoneMeansStopped
<1>1. HostIInv => DoneMeansStopped
  BY DEF HostIInv
<1> QED BY <1>1, ShutdownInvariance, PTL

\* A guest that goes off has been asked to, has answered and has unmounted every
\* file system.
THEOREM OffCorrect == Spec => []OffIsUnmounted
<1>1. HostIInv => OffIsUnmounted
  BY DEF HostIInv, GuestIInv, AskedOnce, MountInv, OffIsUnmounted
<1> QED BY <1>1, ShutdownInvariance, PTL
=============================================================================
