---------------------------- MODULE GuestProcesses ----------------------------
(***************************************************************************)
(* The processes of the guest API (internal/guest/guestapi_linux.go):      *)
(* Launch, Wait, Signal and Shutdown.  Every call of the host is served by *)
(* a goroutine of its own; the mutex of Guest protects the table of        *)
(* processes and Shutdown holds it from its first step to its answer.      *)
(*                                                                         *)
(* The guest API runs in PID 1: a panic there, or os.Exit in UnmountAll, is*)
(* the end of the virtual machine.  When the one connection it serves is   *)
(* closed and the calls under way are answered, StartGuest returns and the *)
(* machine is powered off (guest/init/main_linux.go).                   *)
(***************************************************************************)
EXTENDS Naturals, Sequences, FiniteSets

CONSTANTS Launches,  \* calls of Launch, each also the process it starts
          Waits,     \* calls of Wait
          Down,      \* the call of Shutdown
          NameOf,    \* the service a Launch or a Wait names
          Mounts     \* number of file systems that are not "safe"

ASSUME LaunchesAssumption == IsFiniteSet(Launches)
ASSUME CallsAssumption == Launches \cap Waits = {} /\ Down \notin Launches \union Waits
ASSUME NamesAssumption == DOMAIN NameOf = Launches \union Waits
ASSUME MountsAssumption == Mounts \in Nat

Calls == Launches \union Waits \union {Down}
Names == {NameOf[c] : c \in DOMAIN NameOf}

VARIABLES
  guest,     \* "up", "off" (powered off) or "dead" (its PID 1 ended)
  conn,      \* the connection of the guest API is open
  at,        \* where each call is; "ok" and "error" are its answer
  table,     \* g.processeses: the process of a name
  gone,      \* Shutdown has set the table to nil
  proc,      \* the state of each process
  killed,    \* processes sent SIGKILL
  got,       \* the process a Wait has read from the table
  reaping,   \* processes the goroutine of stopAllProcesses has still to wait for
  timedOut,  \* its ten seconds went by first
  mounts,    \* file systems still mounted
  orphans    \* a process left children behind that may hold a file system

proc_vars == <<table, gone, proc, killed, got, orphans>>
down_vars == <<reaping, timedOut, mounts>>
guest_vars == <<guest, conn, at, proc_vars, down_vars>>

Answers == {"ok", "error"}
Labels(c) == {"idle", "sent"} \union Answers \union
             (IF c \in Launches THEN {"started"}
              ELSE IF c \in Waits THEN {"wait", "delete"} ELSE {"stop", "unmount"})

GuestTypeOK ==
  /\ guest \in {"up", "off", "dead"} /\ conn \in BOOLEAN
  /\ \A c \in Calls : at[c] \in Labels(c)
  /\ DOMAIN table \subseteq Names /\ \A n \in DOMAIN table : NameOf[table[n]] = n
  /\ \A n \in DOMAIN table : proc[table[n]] # "none"
  /\ gone \in BOOLEAN /\ (gone => table = <<>>)
  /\ proc \in [Launches -> {"none", "running", "exited", "reaped"}]
  /\ killed \subseteq Launches
  /\ DOMAIN got \subseteq Waits /\ \A w \in DOMAIN got : NameOf[got[w]] = NameOf[w]
  /\ \A i \in DOMAIN reaping : proc[reaping[i]] # "none"
  /\ timedOut \in BOOLEAN /\ orphans \in BOOLEAN
  /\ mounts \in 0 .. Mounts /\ (mounts < Mounts => gone)

GuestInit ==
  /\ guest = "up" /\ conn = TRUE
  /\ at = [c \in Calls |-> "idle"]
  /\ table = <<>> /\ gone = FALSE
  /\ proc = [l \in Launches |-> "none"] /\ killed = {} /\ got = <<>>
  /\ reaping = <<>> /\ timedOut = FALSE /\ mounts = Mounts /\ orphans = FALSE

Up == guest = "up"
NoMutex == Up
\* nobody has the mutex
Free == Up /\ at[Down] \notin {"stop", "unmount"}
Goes(c, p, q) == Up /\ at[c] = p /\ at' = [at EXCEPT ![c] = q]
With(f, k, v) == [x \in DOMAIN f \union {k} |-> IF x = k THEN v ELSE f[x]]
Without(f, k) == [x \in DOMAIN f \ {k} |-> f[x]]

\* the end of PID 1: the host sees every call under way fail
Dies ==
  /\ guest' = "dead" /\ conn' = FALSE
  /\ at' = [c \in Calls |-> IF at[c] \in Answers \union {"idle"} THEN at[c] ELSE "error"]

(***************************************************************************)
(* Launch.                                                                 *)
(***************************************************************************)
Fork(l) ==
  /\ \/ Goes(l, "sent", "started") /\ proc' = [proc EXCEPT ![l] = "running"]
     \/ Goes(l, "sent", "error") /\ UNCHANGED proc
  /\ UNCHANGED <<guest, conn, table, gone, killed, got, orphans, down_vars>>

\* an assignment to a nil map panics
Store(l) ==
  /\ Free /\ at[l] = "started"
  /\ IF gone
     THEN Dies /\ UNCHANGED table
     ELSE /\ Goes(l, "started", "ok") /\ table' = With(table, NameOf[l], l)
          /\ UNCHANGED <<guest, conn>>
  /\ UNCHANGED <<gone, proc, killed, got, orphans, down_vars>>

(***************************************************************************)
(* Wait.  Of two waits for a process one gets its exit code, the other an  *)
(* error.                                                                  *)
(***************************************************************************)
Lookup(w) ==
  /\ Free
  /\ IF NameOf[w] \in DOMAIN table
     THEN Goes(w, "sent", "wait") /\ got' = With(got, w, table[NameOf[w]])
     ELSE Goes(w, "sent", "error") /\ UNCHANGED got
  /\ UNCHANGED <<guest, conn, table, gone, proc, killed, orphans, down_vars>>

ReapEarly(w) ==
  /\ Goes(w, "wait", "delete")
  /\ proc' = [proc EXCEPT ![got[w]] = IF @ = "exited" THEN "reaped" ELSE @]

ReapOnce(w) ==
  /\ Goes(w, "wait", "delete") /\ proc[got[w]] = "exited"
  /\ proc' = [proc EXCEPT ![got[w]] = "reaped"]

Reap(w) ==
  \/ /\ Goes(w, "wait", "delete") /\ proc[got[w]] = "exited"
     /\ proc' = [proc EXCEPT ![got[w]] = "reaped"]
  \/ /\ Goes(w, "wait", "error") /\ proc[got[w]] = "reaped"
     /\ UNCHANGED proc

WaitProcess(w) ==
  /\ Reap(w)
  /\ UNCHANGED <<guest, conn, table, gone, killed, got, orphans, down_vars>>

\* by name, whichever process the table has there by now
Delete(w) ==
  /\ Free /\ Goes(w, "delete", "ok")
  /\ table' = Without(table, NameOf[w])
  /\ UNCHANGED <<guest, conn, gone, proc, killed, got, orphans, down_vars>>

(***************************************************************************)
(* Signal with the name of a service; other signals than SIGKILL leave it  *)
(* to the process whether it exits.                                        *)
(***************************************************************************)
SignalKill(n) ==
  /\ Free /\ conn /\ n \in DOMAIN table /\ proc[table[n]] = "running"
  /\ killed' = killed \union {table[n]}
  /\ UNCHANGED <<guest, conn, at, table, gone, proc, got, orphans, down_vars>>

Exits(l) ==
  /\ Up /\ proc[l] = "running" /\ proc' = [proc EXCEPT ![l] = "exited"]
  /\ orphans' \in {orphans, TRUE}
  /\ UNCHANGED <<guest, conn, at, table, gone, killed, got, down_vars>>

(***************************************************************************)
(* Shutdown.                                                               *)
(***************************************************************************)
Tracked == {table[n] : n \in DOMAIN table}
Orders(S) == {f \in [1 .. Cardinality(S) -> S] : S = {f[i] : i \in DOMAIN f}}

\* SIGTERM for all, and a goroutine that waits for one after the other
StopAll ==
  /\ Goes(Down, "sent", "stop")
  /\ reaping' \in Orders(Tracked)
  /\ UNCHANGED <<guest, conn, proc_vars, timedOut, mounts>>

ReapNext ==
  /\ Up /\ reaping # <<>> /\ proc[Head(reaping)] \in {"exited", "reaped"}
  /\ proc' = [proc EXCEPT ![Head(reaping)] = "reaped"]
  /\ reaping' = Tail(reaping)
  /\ UNCHANGED <<guest, conn, at, table, gone, killed, got, orphans, timedOut, mounts>>

DropTable == gone' = TRUE /\ table' = <<>>

AllDone ==
  /\ reaping = <<>> /\ Goes(Down, "stop", "unmount") /\ DropTable
  /\ UNCHANGED <<guest, conn, proc, killed, got, orphans, down_vars>>

TimeOutOnly ==
  /\ Goes(Down, "stop", "unmount") /\ DropTable
  /\ timedOut' = TRUE
  /\ UNCHANGED <<guest, conn, proc, killed, got, orphans, reaping, mounts>>

\* after ten seconds all are killed, and nobody waits for that
TimeOut ==
  /\ Goes(Down, "stop", "unmount") /\ DropTable
  /\ killed' = killed \union {p \in Tracked : proc[p] = "running"}
  /\ timedOut' = TRUE
  /\ UNCHANGED <<guest, conn, proc, got, orphans, reaping, mounts>>

Running == {l \in Launches : proc[l] = "running"}

\* UnmountAll, last mounted first: a busy one is os.Exit(1)
Unmount ==
  \/ /\ mounts > 0 /\ Up /\ at[Down] = "unmount" /\ mounts' = mounts - 1
     /\ UNCHANGED <<guest, conn, at>>
  \/ /\ mounts > 0 /\ Up /\ at[Down] = "unmount" /\ (Running # {} \/ orphans)
     /\ Dies /\ UNCHANGED mounts
  \/ mounts = 0 /\ Goes(Down, "unmount", "ok") /\ UNCHANGED <<guest, conn, mounts>>

UnmountAll ==
  /\ Unmount
  /\ UNCHANGED <<proc_vars, reaping, timedOut>>

(***************************************************************************)
(* The connection.                                                         *)
(***************************************************************************)
Send(c) ==
  /\ conn /\ Goes(c, "idle", "sent")
  /\ UNCHANGED <<guest, conn, proc_vars, down_vars>>

Close ==
  /\ conn /\ conn' = FALSE
  /\ UNCHANGED <<guest, at, proc_vars, down_vars>>

\* rpc.Server waits for the calls it has begun before it returns
PowerOff ==
  /\ Up /\ ~conn /\ \A c \in Calls : at[c] \in Answers \union {"idle"}
  /\ guest' = "off"
  /\ UNCHANGED <<conn, at, proc_vars, down_vars>>

Serve(c) == \/ c \in Launches /\ (Fork(c) \/ Store(c))
            \/ c \in Waits /\ (Lookup(c) \/ WaitProcess(c) \/ Delete(c))
            \/ c = Down /\ (StopAll \/ AllDone \/ UnmountAll)

GuestStep == \/ \E c \in Calls : Serve(c)
             \/ ReapNext \/ TimeOut \/ PowerOff
             \/ (\E l \in Launches : Exits(l))
             \/ \E n \in Names : SignalKill(n)

GuestNext == GuestStep \/ Close \/ \E c \in Calls : Send(c)

\* Goroutines of the guest run, time passes, the kernel ends killed
\* processes; others may run for ever.
GuestFairness ==
  /\ \A c \in Calls : WF_guest_vars(Serve(c))
  /\ WF_guest_vars(ReapNext) /\ WF_guest_vars(TimeOut) /\ WF_guest_vars(PowerOff)
  /\ \A l \in Launches : WF_guest_vars(l \in killed /\ Exits(l))

GuestSpec == GuestInit /\ [][GuestNext]_guest_vars /\ GuestFairness

(***************************************************************************)
(* Properties.                                                             *)
(***************************************************************************)
Shares(l) == \E k \in Launches \ {l} : NameOf[k] = NameOf[l]

\* Wait and Shutdown find every process: one that runs and whose Launch has
\* been answered is in the table until Shutdown, unless another was launched
\* under its name.
RunningIsTracked ==
  \A l \in Running : at[l] = "ok" /\ ~gone /\ ~Shares(l) => l \in Tracked

\* The guest's table and its processes are well typed, and the table is complete.
GuestInv == GuestTypeOK /\ RunningIsTracked

\* The file systems are unmounted with no service running, unless it did not
\* end in time, its Launch had not reached the table when Shutdown read it,
\* or another was launched under its name.
UnmountIsQuiet ==
  Up /\ gone /\ ~timedOut => \A l \in Running : at[l] = "started" \/ Shares(l)

\* Wait ends when its process does, also when Shutdown has the mutex or has
\* waited for the process itself.
WaitReturns ==
  \A w \in Waits : at[w] = "wait" /\ proc[got[w]] # "running" ~> at[w] \in Answers

\* After Shutdown and the end of the connection the machine goes off: no call
\* keeps the server of the guest API waiting.
PowersOff ==
  at[Down] = "ok" /\ ~conn /\ (\A l \in Launches : ~Shares(l)) ~> ~Up
=============================================================================
