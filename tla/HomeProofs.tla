------------------------------ MODULE HomeProofs ------------------------------
(***************************************************************************)
(* Proofs about what a daemon finds on the host and leaves there: its home *)
(* directory with the control socket and the log segments (DaemonHome), for*)
(* any number of daemons started any number of times, and the images of its*)
(* disks (Disks), for any images, sizes and number of boots.               *)
(***************************************************************************)
EXTENDS DaemonHome, Disks, FiniteSetTheorems, SequenceTheorems, TLAPS

(***************************************************************************)
(* Unless two were starting at once, at most one is starting, and one that *)
(* has found nobody answering is right until it listens: only a daemon that*)
(* is starting could come up in the meantime.                              *)
(***************************************************************************)
Alert == {"remove", "unlink", "rebind", "listen"}

StartsAlone ==
  /\ \A p, q \in Procs : at[p] \in Starting /\ at[q] \in Starting => p = q
  /\ \A p, q \in Procs : at[p] \in Alert => at[q] # "up"
  /\ \A p \in Procs : at[p] = "rebind" => path = ""
  /\ \A p \in Procs : at[p] = "listen" => path = p

SocketInv == SocketTypeOK /\ (~raced => StartsAlone /\ \A p \in Procs : at[p] = "up" => path = p)

\* Nobody has started yet.
LEMMA SocketStart == SocketInit => SocketInv
<1> SUFFICES ASSUME SocketInit PROVE SocketInv
  OBVIOUS
<1>1. at = [p \in Procs |-> "off"] /\ \A p \in Procs : at[p] = "off"
  BY DEF SocketInit
<1>2. at \in [Procs -> Starting \union Down \union {"up", "closed"}]
  BY <1>1 DEF Down
<1>3. SocketTypeOK
  <2>0. runs \in 0 .. MaxStarts
    <3>1. runs = 0
      BY DEF SocketInit
    <3> QED BY <3>1, SocketStartsAssumption
  <2>1. path \in Procs \union {""}
    BY DEF SocketInit
  <2>2. raced \in BOOLEAN
    BY Zenon DEF SocketInit
  <2> QED BY <1>2, <2>0, <2>1, <2>2 DEF SocketTypeOK
<1> QED BY <1>1, <1>3 DEF SocketInv, StartsAlone, Starting, Alert

\* When the last daemon ends, how they started is forgotten: all of them are down.
LEMMA EndsKeeps ==
  ASSUME SocketInv, NEW p \in Procs, NEW how \in Down, Ends(p, how), UNCHANGED <<path, runs>>
  PROVE  SocketInv'
<1>1. /\ at' = [at EXCEPT ![p] = how] /\ at' \in [Procs -> Starting \union Down \union {"up", "closed"}]
      /\ raced' \in BOOLEAN
  BY DEF Ends, Go, SocketInv, SocketTypeOK
<1>2. SocketTypeOK'
  BY <1>1 DEF SocketInv, SocketTypeOK
<1>3. CASE raced /\ ~raced'
  <2>1. \A q \in Procs : at'[q] \in Down
    BY <1>1, <1>3 DEF Ends, SocketInv, SocketTypeOK
  <2> QED BY <1>2, <2>1 DEF SocketInv, StartsAlone, Starting, Down, Alert
<1>4. CASE ~raced
  BY <1>1, <1>2, <1>4 DEF SocketInv, SocketTypeOK, StartsAlone, Starting, Down, Alert
<1>5. CASE raced'
  BY <1>2, <1>5 DEF SocketInv
<1> QED BY <1>3, <1>4, <1>5

\* A daemon that is launched while another starts is a race.
LEMMA LaunchKeeps == ASSUME SocketInv, NEW p \in Procs, Launch(p) PROVE SocketInv'
<1>1. at' = [at EXCEPT ![p] = "bind"] /\ at \in [Procs -> Starting \union Down \union {"up", "closed"}]
  BY DEF Launch, Go, SocketInv, SocketTypeOK
<1>2. SocketTypeOK'
  <2>1. at' \in [Procs -> Starting \union Down \union {"up", "closed"}]
    BY <1>1 DEF Starting
  <2>2. runs' \in 0 .. MaxStarts /\ path' \in Procs \union {""}
    <3>1. runs \in 0 .. MaxStarts /\ runs < MaxStarts /\ runs' = runs + 1
      BY Zenon DEF Launch, SocketInv, SocketTypeOK
    <3>2. path' \in Procs \union {""}
      BY Zenon DEF Launch, SocketInv, SocketTypeOK
    <3>3. runs' \in 0 .. MaxStarts
      BY <3>1, SocketStartsAssumption
    <3> QED BY <3>2, <3>3
  <2>3. raced' \in BOOLEAN
    BY Zenon DEF Launch
  <2> QED BY <2>1, <2>2, <2>3 DEF SocketTypeOK
<1>3. ASSUME ~raced' PROVE ~raced /\ \A q \in Procs : at[q] \notin Starting
  BY <1>3 DEF Launch
<1> QED BY <1>1, <1>2, <1>3 DEF Launch, SocketInv, StartsAlone, Starting, Alert, Down

\* Each step of ListenSocket keeps a start alone: it takes the path only when no
\* daemon has it.
LEMMA StartKeeps == ASSUME SocketInv, NEW p \in Procs, Starts(p) PROVE SocketInv'
<1>0. at \in [Procs -> Starting \union Down \union {"up", "closed"}] /\ path \in Procs \union {""}
  BY DEF SocketInv, SocketTypeOK
<1> USE <1>0 DEF SocketInv, SocketTypeOK, StartsAlone, Starting, Alert, Down, Go
<1>1. CASE Bind(p)
  BY <1>1, ProcsAssumption DEF Bind
<1>2. CASE Stat(p)
  BY <1>2, ProcsAssumption DEF Stat
<1>3. CASE Refused(p)
  BY <1>3, EndsKeeps DEF Refused
<1>4. CASE Dial(p)
  BY <1>4, ProcsAssumption DEF Dial, Answers
<1>5. CASE RemoveStale(p)
  BY <1>5 DEF RemoveStale, Removed
<1>6. CASE Unlink(p)
  BY <1>6 DEF Unlink, Removed
<1>7. CASE Rebind(p)
  <2>1. CASE path = ""
    BY <1>7, <2>1 DEF Rebind
  <2>2. CASE path # ""
    BY <1>7, <2>2, EndsKeeps DEF Rebind
  <2> QED BY <2>1, <2>2
<1>8. CASE Listen(p)
  BY <1>8 DEF Listen
<1> QED BY <1>1, <1>2, <1>3, <1>4, <1>5, <1>6, <1>7, <1>8 DEF Starts

\* A daemon closes its own socket, for nobody who starts can have taken the path.
LEMMA CloseKeeps == ASSUME SocketInv, NEW p \in Procs, CloseControl(p) PROVE SocketInv'
<1>1. at' = [at EXCEPT ![p] = "closed"] /\ at \in [Procs -> Starting \union Down \union {"up", "closed"}]
  BY DEF CloseControl, Go, SocketInv, SocketTypeOK
<1> QED BY <1>1 DEF CloseControl, SocketInv, SocketTypeOK, StartsAlone, Starting, Alert, Down

(***************************************************************************)
(* The daemons that have the log directory open are those that have come   *)
(* up and not ended.                                                       *)
(***************************************************************************)
LoggersRun == isOpen \subseteq {p \in Procs : at[p] \in {"up", "closed"}}

HomeInv == SocketInv /\ LoggersRun

LEMMA HomeStep == HomeInv /\ [HomeNext]_home_vars => HomeInv'
<1> SUFFICES ASSUME HomeInv, [HomeNext]_home_vars PROVE HomeInv'
  OBVIOUS
<1>0. at \in [Procs -> Starting \union Down \union {"up", "closed"}]
  BY DEF HomeInv, SocketInv, SocketTypeOK
<1>1. CASE UNCHANGED sock_vars /\ isOpen' \subseteq isOpen
  BY <1>1 DEF HomeInv, SocketInv, SocketTypeOK, StartsAlone, LoggersRun, sock_vars
<1>2. ASSUME NEW p \in Procs, Begins(p) PROVE HomeInv'
  <2>1. SocketInv'
    BY <1>2, StartKeeps, LaunchKeeps DEF Begins, HomeInv
  <2>2. at[p] \notin {"up", "closed"} /\ (\A q \in Procs \ {p} : at'[q] = at[q]) /\ isOpen' = isOpen
    BY <1>0, <1>2 DEF Begins, Launch, Starts, Bind, Stat, Refused, Dial, RemoveStale, Unlink, Rebind,
                      Listen, Ends, Go, Starting, Down, dir_vars
  <2> QED BY <2>1, <2>2 DEF HomeInv, LoggersRun
<1>3. ASSUME NEW p \in Procs, SetupLogging(p) PROVE HomeInv'
  BY <1>3 DEF SetupLogging, Open, HomeInv, SocketInv, SocketTypeOK, StartsAlone, LoggersRun, sock_vars
<1>4. ASSUME NEW p \in Procs, Closes(p) PROVE HomeInv'
  <2>1. SocketInv'
    BY <1>4, CloseKeeps DEF Closes, HomeInv
  <2> QED BY <1>0, <1>4, <2>1 DEF Closes, CloseControl, Go, HomeInv, LoggersRun, dir_vars
<1>5. ASSUME NEW p \in Procs, Logs(p) PROVE HomeInv'
  BY <1>1, <1>5 DEF Logs, Rotate, Write, Removal
<1>6. ASSUME NEW p \in Procs, Exit(p) \/ Crash(p), Leave(p) PROVE HomeInv'
  <2>1. SocketInv'
    BY <1>6, EndsKeeps DEF Exit, Crash, HomeInv, Down
  <2> QED BY <1>0, <1>6, <2>1 DEF Exit, Crash, Ends, Go, Leave, HomeInv, LoggersRun
<1>7. CASE Tick /\ UNCHANGED sock_vars
  BY <1>1, <1>7 DEF Tick
<1>8. CASE UNCHANGED home_vars
  BY <1>1, <1>8 DEF home_vars, dir_vars
<1> QED BY <1>2, <1>3, <1>4, <1>5, <1>6, <1>7, <1>8 DEF HomeNext, Ended, Panics

\* Whoever is up owns the path, so that two are up only after a race; and so for
\* those who log, which are up or have closed their socket.
LEMMA InvIsOneDaemon == HomeInv => OneDaemon
BY DEF HomeInv, SocketInv, LoggersRun, OneDaemon, OwnsPath

\* However often daemons of one home are started, crash, leave their socket behind
\* and take it over: one at a time is up and has the socket, and one at a time logs
\* but for those that are ending, unless two were starting at once.
THEOREM OneDaemonCorrect == HomeSpec => []OneDaemon
<1>1. HomeInit => HomeInv
  BY SocketStart DEF HomeInit, DirInit, HomeInv, LoggersRun
<1> QED BY <1>1, HomeStep, InvIsOneDaemon, PTL DEF HomeSpec

(***************************************************************************)
(* The log directory: its types.                                           *)
(***************************************************************************)
NamesTyped == now \in 1 .. MaxTime /\ Names \subseteq 1 .. now
BytesTyped ==
  /\ line \in 0 .. MaxLines
  /\ \A n \in Names : disk[n] \in Seq(1 .. line) /\ Len(disk[n]) <= 2 * line
ListsTyped ==
  /\ files \in [Writers -> Seq(1 .. now)]
  /\ fileLen \in [Writers -> Int] /\ \A p \in Writers : fileLen[p] \in -1 .. 2 * line
RestTyped == isOpen \subseteq Writers /\ removing \subseteq isOpen \X (1 .. now) /\ shared \in BOOLEAN

DirTyped == NamesTyped /\ BytesTyped /\ ListsTyped /\ RestTyped

(***************************************************************************)
(* As long as one process at a time has the directory open, its list is    *)
(* the files that it is not removing, the newest first; those it removes   *)
(* are older than MaxFiles of them; and only the newest file can be empty. *)
(***************************************************************************)
Dying(p) == {n \in 1 .. now : <<p, n>> \in removing}
Decreasing(s) == \A i, j \in DOMAIN s : i < j => s[i] > s[j]

Listed(p) ==
  /\ Names = ToSet(files[p]) \union Dying(p)
  /\ Decreasing(files[p])
  /\ \A r \in Dying(p), i \in DOMAIN files[p] : r < files[p][i]
  /\ Dying(p) # {} => Len(files[p]) >= MaxFiles

Sized(p) ==
  IF fileLen[p] < 0 THEN Names = {}
  ELSE files[p] # <<>> /\ fileLen[p] <= Len(disk[files[p][1]])

ListInv == \A p \in isOpen : (\A q \in isOpen : q = p) /\ Listed(p) /\ Sized(p)
FilledInv == \A m, n \in Names : m < n => disk[m] # <<>>
LogInv == ListInv /\ FilledInv /\ InOrder /\ NewestKept

DirIInv == DirTyped /\ (~shared => LogInv)

(***************************************************************************)
(* The sequences.                                                          *)
(***************************************************************************)
LEMMA FiniteNames ==
  ASSUME NEW t \in 1 .. MaxTime, NEW S, S \subseteq 1 .. t
  PROVE  IsFiniteSet(S) /\ Cardinality(S) \in Nat
<1>1. t \in Int /\ IsFiniteSet(1 .. t)
  BY FS_Interval
<1> QED BY <1>1, FS_Subset, FS_CardinalityType

LEMMA Elements == ASSUME NEW S, NEW s \in Seq(S) PROVE \A i \in DOMAIN s : s[i] \in S
  OBVIOUS

LEMMA First == ASSUME NEW S, NEW s \in Seq(S), s # <<>> PROVE 1 \in DOMAIN s /\ s[1] \in S
  OBVIOUS

LEMMA DecreasingCardinality ==
  ASSUME NEW s \in Seq(Nat), Decreasing(s) PROVE Cardinality(ToSet(s)) = Len(s)
<1>1. Len(s) \in Nat /\ DOMAIN s = 1 .. Len(s)
  OBVIOUS
<1>2. s \in [1 .. Len(s) -> ToSet(s)]
  BY <1>1 DEF ToSet
<1>3. \A i, j \in 1 .. Len(s) : s[i] = s[j] => i = j
  <2> SUFFICES ASSUME NEW i \in 1 .. Len(s), NEW j \in 1 .. Len(s), s[i] = s[j], i # j PROVE FALSE
    OBVIOUS
  <2>1. s[i] \in Nat /\ (i < j \/ j < i)
    OBVIOUS
  <2> QED BY <1>1, <2>1 DEF Decreasing
<1>4. \A t \in ToSet(s) : \E i \in 1 .. Len(s) : s[i] = t
  BY <1>1 DEF ToSet
<1>5. s \in Bijection(1 .. Len(s), ToSet(s))
  BY <1>1, <1>2, <1>3, <1>4 DEF Bijection, Injection, Surjection, IsInjective
<1> QED BY <1>1, <1>5, FS_CountingElements DEF ExistsBijection

\* scanLogDirectory: the newest first.
LEMMA Scanning ==
  ASSUME NamesTyped, NEW s \in Scanned
  PROVE  s \in Seq(1 .. now) /\ Names = ToSet(s) /\ Decreasing(s)
<1> DEFINE N == Cardinality(Names)
<1>1. PICK o \in OldestFirst : s = Reverse(o)
  BY DEF Scanned
<1>2. o \in [1 .. N -> Names] /\ Names = ToSet(o) /\ \A i, j \in DOMAIN o : i < j => o[i] < o[j]
  BY <1>1 DEF OldestFirst
<1>3. N \in Nat
  BY FiniteNames DEF NamesTyped
<1> HIDE DEF N
<1>4. Len(o) = N /\ DOMAIN o = 1 .. N
  BY <1>2, <1>3
<1>5. s = [i \in 1 .. N |-> o[(N - i) + 1]]
  BY <1>1, <1>4 DEF Reverse
<1>6. DOMAIN s = 1 .. N /\ \A i \in 1 .. N : (N - i) + 1 \in 1 .. N /\ s[i] = o[(N - i) + 1]
  BY <1>3, <1>5
<1>7. s \in [1 .. N -> Names]
  BY <1>2, <1>5, <1>6
<1>8. s \in Seq(1 .. now)
  <2>1. s \in [1 .. N -> 1 .. now]
    BY <1>7 DEF NamesTyped
  <2>2. Seq(1 .. now) = UNION {[1 .. n -> 1 .. now] : n \in Nat}
    BY SeqDef
  <2> QED BY <1>3, <2>1, <2>2, Zenon
<1>9. Names = ToSet(s)
  <2>1. \A i \in 1 .. N : o[i] = s[(N - i) + 1] /\ (N - i) + 1 \in 1 .. N
    BY <1>3, <1>6
  <2>2. \A n \in Names : \E i \in 1 .. N : n = o[i]
    BY <1>2, <1>4 DEF ToSet
  <2>3. \A n \in Names : \E i \in 1 .. N : n = s[i]
    BY <2>1, <2>2
  <2> QED BY <1>6, <1>7, <2>3 DEF ToSet
<1>10. Decreasing(s)
  <2> SUFFICES ASSUME NEW i \in 1 .. N, NEW j \in 1 .. N, i < j PROVE s[i] > s[j]
    BY <1>6 DEF Decreasing
  <2>1. (N - j) + 1 \in 1 .. N /\ (N - i) + 1 \in 1 .. N /\ (N - j) + 1 < (N - i) + 1
    BY <1>3
  <2>2. o[(N - j) + 1] < o[(N - i) + 1]
    BY <1>2, <1>4, <2>1
  <2>3. s[i] = o[(N - i) + 1] /\ s[j] = o[(N - j) + 1]
    BY <1>6
  <2>4. s[i] \in Nat /\ s[j] \in Nat
    <3>1. \A n \in Names : n \in Nat
      BY DEF NamesTyped
    <3> QED BY <1>7, <3>1
  <2> QED BY <2>2, <2>3, <2>4
<1> QED BY <1>8, <1>9, <1>10

\* rotate keeps the first MaxFiles of the list, and forgets the others.
LEMMA Splitting ==
  ASSUME NEW S, NEW k \in Seq(S)
  PROVE  /\ Kept(k) \in Seq(S)
         /\ Len(Kept(k)) = IF Len(k) < MaxFiles THEN Len(k) ELSE MaxFiles
         /\ \A i \in DOMAIN Kept(k) : i \in DOMAIN k /\ i <= MaxFiles /\ Kept(k)[i] = k[i]
         /\ \A r \in ToSet(Forgotten(k)) : Len(k) > MaxFiles /\ \E i \in DOMAIN k : i > MaxFiles /\ k[i] = r
         /\ ToSet(k) = ToSet(Kept(k)) \union ToSet(Forgotten(k))
<1> DEFINE m == IF Len(k) < MaxFiles THEN Len(k) ELSE MaxFiles
           n == MaxFiles + 1
           a == Kept(k)
           b == Forgotten(k)
<1>1. /\ MaxFiles \in Nat /\ MaxFiles >= 1 /\ Len(k) \in Nat /\ DOMAIN k = 1 .. Len(k)
      /\ m \in Int /\ n \in Int /\ m <= Len(k) /\ m <= MaxFiles /\ m \in Nat
  BY FilesAssumption
<1>2. \A i \in 1 .. Len(k) : k[i] \in S
  OBVIOUS
<1>3. /\ a \in Seq(S) /\ Len(a) = IF 1 <= m THEN m - 1 + 1 ELSE 0
      /\ \A i \in 1 .. m - 1 + 1 : a[i] = k[1 + i - 1]
  <2>1. \A i \in 1 .. m : k[i] \in S
    BY <1>1, <1>2
  <2> QED BY <1>1, <2>1, SubSeqProperties DEF Kept
<1>4. /\ b \in Seq(S) /\ Len(b) = IF n <= Len(k) THEN Len(k) - n + 1 ELSE 0
      /\ \A i \in 1 .. Len(k) - n + 1 : b[i] = k[n + i - 1]
  <2>1. \A i \in n .. Len(k) : k[i] \in S
    BY <1>1, <1>2
  <2> QED BY <1>1, <2>1, SubSeqProperties DEF Forgotten
<1> HIDE DEF a, b
<1>5. PICK K \in Nat : K = Len(k)
  BY <1>1
<1>6. (K > MaxFiles => DOMAIN b = 1 .. K - MaxFiles) /\ (K <= MaxFiles => DOMAIN b = {})
  <2>1. DOMAIN b = 1 .. Len(b)
    BY <1>4
  <2>2. Len(b) = IF n <= K THEN K - n + 1 ELSE 0
    BY <1>4, <1>5
  <2>3. CASE K > MaxFiles
    <3>1. n <= K /\ K - n + 1 = K - MaxFiles
      BY <1>1, <2>3
    <3>2. ~(K <= MaxFiles)
      BY <1>1, <2>3
    <3> QED BY <2>1, <2>2, <3>1, <3>2
  <2>4. CASE K <= MaxFiles
    <3>1. ~(n <= K)
      BY <1>1, <2>4
    <3>2. Len(b) = 0 /\ 1 .. 0 = {}
      BY <2>2, <3>1
    <3> QED BY <1>1, <2>1, <2>4, <3>2
  <2> QED BY <1>1, <2>3, <2>4
<1>7. Len(a) = m /\ DOMAIN a = 1 .. m
  BY <1>1, <1>3
<1>8. \A i \in 1 .. m : a[i] = k[i] /\ i \in DOMAIN k /\ i <= MaxFiles
  BY <1>1, <1>3
<1>9. ASSUME NEW i \in DOMAIN b
      PROVE  MaxFiles + i \in DOMAIN k /\ MaxFiles + i > MaxFiles /\ b[i] = k[MaxFiles + i] /\ Len(k) > MaxFiles
  <2>1. K > MaxFiles /\ i \in 1 .. K - MaxFiles
    BY <1>1, <1>6
  <2>2. i \in 1 .. K - n + 1 /\ n + i - 1 = MaxFiles + i /\ MaxFiles + i \in 1 .. K /\ MaxFiles + i > MaxFiles
    BY <1>1, <2>1
  <2>3. b[i] = k[n + i - 1]
    BY <1>4, <1>5, <2>2
  <2> QED BY <1>1, <1>5, <2>1, <2>2, <2>3
<1>10. ASSUME NEW i \in DOMAIN k, i \notin 1 .. m PROVE i - MaxFiles \in DOMAIN b /\ b[i - MaxFiles] = k[i]
  <2>1. i \in 1 .. K /\ m = IF K < MaxFiles THEN K ELSE MaxFiles
    BY <1>1, <1>5
  <2>2. K > MaxFiles /\ i - MaxFiles \in 1 .. K - MaxFiles /\ MaxFiles + (i - MaxFiles) = i
    BY <1>1, <1>10, <2>1
  <2>3. i - MaxFiles \in DOMAIN b
    BY <1>6, <2>2
  <2> QED BY <1>9, <2>2, <2>3
<1> HIDE DEF m, n
<1>11. \A r \in ToSet(b) : Len(k) > MaxFiles /\ \E i \in DOMAIN k : i > MaxFiles /\ k[i] = r
  BY <1>9 DEF ToSet
<1>12. ToSet(k) = ToSet(a) \union ToSet(b)
  BY <1>7, <1>8, <1>9, <1>10 DEF ToSet
<1> QED BY <1>3, <1>7, <1>8, <1>11, <1>12 DEF a, b, m

\* The new name in front of the list.
LEMMA Pushing ==
  ASSUME NEW f \in Seq(Nat), NEW x \in Nat, NEW k, k = <<x>> \o f
  PROVE  /\ k \in Seq(Nat) /\ Len(k) = Len(f) + 1 /\ k[1] = x
         /\ \A i \in DOMAIN k : i = 1 \/ (i - 1 \in DOMAIN f /\ k[i] = f[i - 1])
         /\ ToSet(k) = {x} \union ToSet(f)
         /\ Decreasing(f) /\ (\A i \in DOMAIN f : f[i] < x) => Decreasing(k)
<1>1. k \in Seq(Nat) /\ Len(k) = Len(f) + 1 /\ k[1] = x /\ Len(f) \in Nat
  OBVIOUS
<1>2. \A i \in 1 .. Len(f) + 1 : i = 1 \/ k[i] = f[i - 1]
  OBVIOUS
<1>3. DOMAIN k = 1 .. Len(f) + 1 /\ DOMAIN f = 1 .. Len(f)
  BY <1>1
<1>4. \A i \in DOMAIN f : f[i] = k[i + 1] /\ i + 1 \in DOMAIN k
  BY <1>1, <1>2, <1>3
<1>5. \A i \in DOMAIN k : i = 1 \/ (i - 1 \in DOMAIN f /\ k[i] = f[i - 1])
  BY <1>1, <1>2, <1>3
<1>6. ToSet(k) = {x} \union ToSet(f)
  <2>1. 1 \in DOMAIN k
    BY <1>1, <1>3
  <2>2. ToSet(k) \subseteq {x} \union ToSet(f)
    BY <1>1, <1>5 DEF ToSet
  <2>3. ToSet(f) \subseteq ToSet(k)
    BY <1>4 DEF ToSet
  <2>4. x \in ToSet(k)
    BY <1>1, <2>1 DEF ToSet
  <2> QED BY <2>2, <2>3, <2>4
<1>7. ASSUME Decreasing(f), \A i \in DOMAIN f : f[i] < x PROVE Decreasing(k)
  <2> SUFFICES ASSUME NEW i \in DOMAIN k, NEW j \in DOMAIN k, i < j PROVE k[i] > k[j]
    BY DEF Decreasing
  <2>1. j - 1 \in DOMAIN f /\ k[j] = f[j - 1]
    BY <1>1, <1>3, <1>5
  <2>2. f[j - 1] \in Nat
    BY <2>1
  <2>3. CASE i = 1
    BY <1>1, <1>7, <2>1, <2>2, <2>3
  <2>4. CASE i # 1
    <3>1. i - 1 \in DOMAIN f /\ k[i] = f[i - 1] /\ i - 1 < j - 1
      BY <1>3, <1>5, <2>4
    <3> QED BY <1>7, <2>1, <3>1 DEF Decreasing
  <2> QED BY <2>3, <2>4
<1> QED BY <1>1, <1>5, <1>6, <1>7

\* What is written goes to the end.
LEMMA Extending ==
  ASSUME NEW l \in Nat, NEW s \in Seq(1 .. l), NEW x, x = s \o Written(l + 1)
  PROVE  /\ x \in Seq(1 .. l + 1) /\ Len(s) + 1 <= Len(x) /\ Len(x) <= Len(s) + 2
         /\ \A i \in DOMAIN s : i \in DOMAIN x /\ x[i] = s[i]
         /\ \A i \in DOMAIN x : i \in DOMAIN s \/ (x[i] = l + 1 /\ \A j \in DOMAIN s : j < i)
         /\ \E i \in DOMAIN x : x[i] = l + 1
<1> DEFINE t == Written(l + 1)
           v == l + 1
<1>1. t \in Seq(1 .. v) /\ (Len(t) = 1 \/ Len(t) = 2) /\ \A i \in 1 .. Len(t) : t[i] = v
  <2>0. v \in 1 .. v
    OBVIOUS
  <2> HIDE DEF v
  <2>1. <<v>> \in Seq(1 .. v) /\ <<v, v>> \in Seq(1 .. v)
    BY <2>0
  <2>2. Len(<<v>>) = 1 /\ Len(<<v, v>>) = 2
    OBVIOUS
  <2>3. (\A i \in 1 .. 1 : <<v>>[i] = v) /\ (\A i \in 1 .. 2 : <<v, v>>[i] = v)
    OBVIOUS
  <2>4. t = <<v>> \/ t = <<v, v>>
    BY DEF Written, v
  <2>5. CASE t = <<v>>
    BY <2>1, <2>2, <2>3, <2>5, Zenon
  <2>6. CASE t = <<v, v>>
    BY <2>1, <2>2, <2>3, <2>6, Zenon
  <2> QED BY <2>4, <2>5, <2>6
<1> HIDE DEF t
<1>2. PICK T \in 1 .. 2 : Len(t) = T
  BY <1>1
<1>3. s \in Seq(1 .. v) /\ Len(s) \in Nat /\ DOMAIN s = 1 .. Len(s)
  <2>1. 1 .. l \subseteq 1 .. v
    OBVIOUS
  <2> QED BY <2>1, SeqMonotonic
<1>4. /\ x \in Seq(1 .. v) /\ Len(x) = Len(s) + T
      /\ \A i \in 1 .. Len(s) + T : x[i] = IF i <= Len(s) THEN s[i] ELSE t[i - Len(s)]
  <2>1. Len(x) = Len(s) + Len(t) /\ x \in Seq(1 .. v)
    BY <1>1, <1>3, ConcatProperties DEF t
  <2> QED BY <1>1, <1>3, <1>2, <2>1, ConcatProperties DEF t
<1> HIDE DEF v
<1>5. DOMAIN x = 1 .. Len(s) + T
  BY <1>4
<1>6. \A i \in DOMAIN s : i \in DOMAIN x /\ x[i] = s[i]
  BY <1>1, <1>3, <1>4, <1>5
<1>7. ASSUME NEW i \in DOMAIN x, i \notin DOMAIN s PROVE x[i] = v /\ \A j \in DOMAIN s : j < i
  <2>1. i \in Nat /\ i > Len(s) /\ i - Len(s) \in 1 .. T /\ i \in 1 .. Len(s) + T
    BY <1>1, <1>3, <1>5, <1>7
  <2>2. x[i] = t[i - Len(s)]
    BY <1>3, <1>4, <2>1
  <2>3. \A j \in 1 .. Len(s) : j < i
    BY <1>3, <2>1
  <2>4. t[i - Len(s)] = v
    BY <1>1, <1>2, <2>1
  <2> QED BY <1>3, <2>2, <2>3, <2>4
<1>8. Len(s) + 1 \in DOMAIN x /\ Len(s) + 1 \notin DOMAIN s
  BY <1>3, <1>5
<1>9. x[Len(s) + 1] = v
  BY <1>7, <1>8
<1>10. Len(s) + 1 <= Len(x) /\ Len(x) <= Len(s) + 2
  BY <1>1, <1>3, <1>4
<1> QED BY <1>4, <1>6, <1>7, <1>8, <1>9, <1>10 DEF v

(***************************************************************************)
(* The steps on the types.                                                 *)
(***************************************************************************)
LEMMA Setting ==
  ASSUME DirTyped, NEW v \in -1 .. 2 * line, NEW p, fileLen' = [fileLen EXCEPT ![p] = v]
  PROVE  fileLen' \in [Writers -> Int] /\ \A q \in Writers : fileLen'[q] \in -1 .. 2 * line
<1>1. fileLen \in [Writers -> Int] /\ \A q \in Writers : fileLen[q] \in -1 .. 2 * line
  BY DEF DirTyped, ListsTyped
<1>2. line \in Nat
  BY DEF DirTyped, BytesTyped
<1>3. v \in Int
  BY <1>2
<1>4. fileLen' \in [Writers -> Int]
  BY <1>1, <1>3
<1>5. \A q \in Writers : fileLen'[q] = v \/ fileLen'[q] = fileLen[q]
  BY <1>1
<1> QED BY <1>1, <1>4, <1>5

LEMMA OpenTyped == ASSUME DirTyped, NEW p \in Procs, Open(p) PROVE DirTyped'
<1>1. p \in Writers
  BY HomeAssumption
<1>2. PICK s \in Scanned :
        /\ files' = [files EXCEPT ![p] = s]
        /\ fileLen' = [fileLen EXCEPT ![p] = IF s = <<>> THEN -1 ELSE Len(disk[Head(s)])]
  BY DEF Open
<1>3. s \in Seq(1 .. now) /\ Names = ToSet(s)
  BY Scanning DEF DirTyped
<1>4. isOpen' = isOpen \union {p} /\ shared' = (shared \/ isOpen # {}) /\ UNCHANGED <<now, disk, line, removing>>
  BY DEF Open
<1>5. files' \in [Writers -> Seq(1 .. now)]
  BY <1>2, <1>3 DEF DirTyped, ListsTyped
<1>6. line \in Nat
  BY DEF DirTyped, BytesTyped
<1>7. (IF s = <<>> THEN -1 ELSE Len(disk[Head(s)])) \in -1 .. 2 * line
  <2>1. CASE s = <<>>
    BY <1>6, <2>1
  <2>2. CASE s # <<>>
    <3>1. Head(s) \in Names
      <4>1. Head(s) = s[1] /\ 1 \in DOMAIN s
        BY <1>3, <2>2
      <4> QED BY <1>3, <4>1 DEF ToSet
    <3>2. PICK n \in Nat : n = Len(disk[Head(s)]) /\ n <= 2 * line
      BY <3>1 DEF DirTyped, BytesTyped
    <3> QED BY <1>6, <2>2, <3>2
  <2> QED BY <2>1, <2>2
<1>8. fileLen' \in [Writers -> Int] /\ \A q \in Writers : fileLen'[q] \in -1 .. 2 * line
  <2>1. PICK v \in -1 .. 2 * line : fileLen' = [fileLen EXCEPT ![p] = v]
    BY <1>2, <1>7
  <2> QED BY <2>1, Setting
<1>9. NamesTyped' /\ BytesTyped'
  BY <1>4 DEF DirTyped, NamesTyped, BytesTyped, Names
<1>10. ListsTyped'
  BY <1>4, <1>5, <1>8 DEF ListsTyped
<1>11. RestTyped'
  <2>1. shared' \in BOOLEAN
    BY <1>4, Zenon DEF DirTyped, RestTyped
  <2> QED BY <1>1, <1>4, <2>1 DEF DirTyped, RestTyped
<1> QED BY <1>9, <1>10, <1>11 DEF DirTyped

\* What rotate makes of the directory.
LEMMA Rotating ==
  ASSUME DirTyped, NEW p \in Procs, Rotate(p)
  PROVE  /\ p \in isOpen /\ p \in Writers /\ now \in Nat /\ now \notin Names /\ Full(p)
         /\ Names' = Names \union {now} /\ disk'[now] = <<>> /\ \A n \in Names : disk'[n] = disk[n]
         /\ \E k \in Seq(1 .. now) :
              /\ k = <<now>> \o files[p]
              /\ files' = [files EXCEPT ![p] = Kept(k)]
              /\ removing' = removing \union ({p} \X ToSet(Forgotten(k)))
         /\ fileLen' = [fileLen EXCEPT ![p] = 0]
         /\ UNCHANGED <<now, line, isOpen, shared>>
<1>1. p \in isOpen /\ p \in Writers /\ now \notin Names /\ Full(p)
  BY HomeAssumption DEF Rotate
<1>2. disk' = [n \in Names \union {now} |-> IF n = now THEN <<>> ELSE disk[n]]
  BY DEF Rotate
<1>3. Names' = Names \union {now} /\ disk'[now] = <<>> /\ \A n \in Names : disk'[n] = disk[n]
  BY <1>1, <1>2 DEF Names
<1>4. now \in Nat /\ now \in 1 .. now
  BY DEF DirTyped, NamesTyped
<1>5. <<now>> \o files[p] \in Seq(1 .. now)
  <2>1. files[p] \in Seq(1 .. now)
    BY <1>1 DEF DirTyped, ListsTyped
  <2>2. <<now>> \in Seq(1 .. now)
    BY <1>4
  <2> QED BY <2>1, <2>2, ConcatProperties
<1> QED BY <1>1, <1>3, <1>4, <1>5 DEF Rotate

LEMMA RotateTyped == ASSUME DirTyped, NEW p \in Procs, Rotate(p) PROVE DirTyped'
<1>1. /\ p \in isOpen /\ p \in Writers /\ now \in Nat
      /\ Names' = Names \union {now} /\ disk'[now] = <<>> /\ \A n \in Names : disk'[n] = disk[n]
      /\ fileLen' = [fileLen EXCEPT ![p] = 0]
      /\ UNCHANGED <<now, line, isOpen, shared>>
  BY Rotating
<1>2. PICK k \in Seq(1 .. now) :
        /\ files' = [files EXCEPT ![p] = Kept(k)]
        /\ removing' = removing \union ({p} \X ToSet(Forgotten(k)))
  BY Rotating
<1>3. Kept(k) \in Seq(1 .. now) /\ ToSet(Forgotten(k)) \subseteq 1 .. now
  <2>1. Kept(k) \in Seq(1 .. now)
    BY Splitting
  <2>2. \A r \in ToSet(Forgotten(k)) : \E i \in DOMAIN k : k[i] = r
    BY Splitting
  <2>3. \A i \in DOMAIN k : k[i] \in 1 .. now
    BY Elements
  <2> QED BY <2>1, <2>2, <2>3
<1>4. NamesTyped'
  BY <1>1 DEF DirTyped, NamesTyped
<1>5. BytesTyped'
  <2>1. line \in Nat /\ <<>> \in Seq(1 .. line) /\ Len(<<>>) = 0
    BY DEF DirTyped, BytesTyped
  <2>2. Len(<<>>) <= 2 * line
    BY <2>1
  <2> QED BY <1>1, <2>1, <2>2 DEF DirTyped, BytesTyped
<1>6. ListsTyped'
  <2>1. files' \in [Writers -> Seq(1 .. now)]
    BY <1>2, <1>3 DEF DirTyped, ListsTyped
  <2>2. line \in Nat /\ 0 \in -1 .. 2 * line
    BY DEF DirTyped, BytesTyped
  <2>3. fileLen' \in [Writers -> Int] /\ \A q \in Writers : fileLen'[q] \in -1 .. 2 * line
    BY <1>1, <2>2, Setting
  <2> QED BY <1>1, <2>1, <2>3 DEF ListsTyped
<1>7. RestTyped'
  BY <1>1, <1>2, <1>3 DEF DirTyped, RestTyped
<1> QED BY <1>4, <1>5, <1>6, <1>7 DEF DirTyped

\* What a message makes of the directory: its line is appended to the current file.
LEMMA Writing ==
  ASSUME DirTyped, NEW p \in Procs, Write(p)
  PROVE  /\ p \in isOpen /\ p \in Writers /\ ~Full(p) /\ line \in Nat /\ line < MaxLines /\ line' = line + 1
         /\ Names' = Names
         /\ \A n \in Names \ {Head(files[p])} : disk'[n] = disk[n]
         /\ \A n \in Names : n = Head(files[p]) => disk'[n] = disk[n] \o Written(line + 1)
         /\ fileLen' = [fileLen EXCEPT ![p] = @ + 1]
         /\ UNCHANGED <<now, isOpen, files, removing, shared>>
<1>1. p \in Writers /\ line \in Nat
  BY HomeAssumption DEF DirTyped, BytesTyped
<1>2. disk' = [n \in Names |-> IF n = Head(files[p]) THEN disk[n] \o Written(line') ELSE disk[n]]
  BY DEF Write
<1> QED BY <1>1, <1>2 DEF Write, Names

\* How far it changes a file.
LEMMA WritingFile ==
  ASSUME DirTyped, NEW p \in Procs, Write(p), NEW n \in Names
  PROVE  /\ disk[n] \in Seq(1 .. line) /\ disk'[n] \in Seq(1 .. line + 1)
         /\ Len(disk'[n]) <= Len(disk[n]) + 2 /\ Len(disk[n]) <= Len(disk'[n])
         /\ n = Head(files[p]) => Len(disk[n]) + 1 <= Len(disk'[n]) /\ \E i \in DOMAIN disk'[n] : disk'[n][i] = line + 1
         /\ \A i \in DOMAIN disk[n] : i \in DOMAIN disk'[n] /\ disk'[n][i] = disk[n][i]
         /\ \A i \in DOMAIN disk'[n] : \/ i \in DOMAIN disk[n]
                                       \/ /\ n = Head(files[p]) /\ disk'[n][i] = line + 1
                                          /\ \A j \in DOMAIN disk[n] : j < i
<1>1. line \in Nat /\ disk[n] \in Seq(1 .. line)
  BY DEF DirTyped, BytesTyped
<1>2. CASE n # Head(files[p])
  <2>1. disk'[n] = disk[n]
    BY <1>2, Writing
  <2>2. disk[n] \in Seq(1 .. line + 1)
    <3>1. 1 .. line \subseteq 1 .. line + 1
      BY <1>1
    <3> QED BY <1>1, <3>1, SeqMonotonic
  <2>3. Len(disk[n]) \in Nat
    BY <1>1
  <2>4. Len(disk[n]) <= Len(disk[n]) + 2 /\ Len(disk[n]) <= Len(disk[n])
    BY <2>3
  <2> QED BY <1>1, <1>2, <2>1, <2>2, <2>4
<1>3. CASE n = Head(files[p])
  <2>1. disk'[n] = disk[n] \o Written(line + 1)
    BY <1>3, Writing
  <2>2. /\ disk'[n] \in Seq(1 .. line + 1) /\ Len(disk[n]) + 1 <= Len(disk'[n]) /\ Len(disk'[n]) <= Len(disk[n]) + 2
        /\ \A i \in DOMAIN disk[n] : i \in DOMAIN disk'[n] /\ disk'[n][i] = disk[n][i]
        /\ \A i \in DOMAIN disk'[n] :
             i \in DOMAIN disk[n] \/ (disk'[n][i] = line + 1 /\ \A j \in DOMAIN disk[n] : j < i)
        /\ \E i \in DOMAIN disk'[n] : disk'[n][i] = line + 1
    BY <1>1, <2>1, Extending
  <2>3. Len(disk[n]) \in Nat /\ Len(disk'[n]) \in Nat
    BY <1>1, <2>2
  <2>4. Len(disk[n]) <= Len(disk'[n])
    BY <2>2, <2>3
  <2> QED BY <1>1, <1>3, <2>2, <2>4
<1> QED BY <1>2, <1>3

LEMMA WriteTyped == ASSUME DirTyped, NEW p \in Procs, Write(p) PROVE DirTyped'
<1>1. /\ p \in isOpen /\ p \in Writers /\ line \in Nat /\ line < MaxLines /\ line' = line + 1
      /\ Names' = Names /\ fileLen' = [fileLen EXCEPT ![p] = @ + 1]
      /\ UNCHANGED <<now, isOpen, files, removing, shared>>
  BY Writing
<1>2. NamesTyped' /\ RestTyped'
  BY <1>1 DEF DirTyped, NamesTyped, RestTyped
<1>3. BytesTyped'
  <2>1. line' \in 0 .. MaxLines
    BY <1>1, LogBoundsAssumption
  <2>2. ASSUME NEW n \in Names PROVE disk'[n] \in Seq(1 .. line') /\ Len(disk'[n]) <= 2 * line'
    <3>1. disk'[n] \in Seq(1 .. line') /\ disk[n] \in Seq(1 .. line) /\ Len(disk'[n]) <= Len(disk[n]) + 2
      BY <1>1, WritingFile
    <3>2. PICK a \in Nat, b \in Nat : a = Len(disk[n]) /\ b = Len(disk'[n])
      BY <3>1
    <3>3. a <= 2 * line
      BY <3>2 DEF DirTyped, BytesTyped
    <3>4. b <= 2 * (line + 1)
      BY <1>1, <3>1, <3>2, <3>3
    <3> QED BY <1>1, <3>1, <3>2, <3>4
  <2> QED BY <1>1, <2>1, <2>2 DEF BytesTyped
<1>4. ListsTyped'
  <2>1. ASSUME NEW q \in Writers PROVE fileLen'[q] \in -1 .. 2 * (line + 1)
    <3>1. PICK a \in Int : a = fileLen[q] /\ a \in -1 .. 2 * line
      BY DEF DirTyped, ListsTyped
    <3>2. fileLen'[q] = a \/ fileLen'[q] = a + 1
      BY <1>1, <3>1 DEF DirTyped, ListsTyped
    <3>3. a \in -1 .. 2 * (line + 1) /\ a + 1 \in -1 .. 2 * (line + 1)
      BY <1>1, <3>1
    <3> QED BY <3>2, <3>3
  <2>2. fileLen' \in [Writers -> Int]
    BY <1>1 DEF DirTyped, ListsTyped
  <2> QED BY <1>1, <2>1, <2>2 DEF DirTyped, ListsTyped
<1> QED BY <1>2, <1>3, <1>4 DEF DirTyped

LEMMA Removing ==
  ASSUME NEW p, NEW n \in Names, Removal(p, n)
  PROVE  /\ Names' = Names \ {n} /\ \A m \in Names \ {n} : disk'[m] = disk[m]
         /\ <<p, n>> \in removing /\ removing' = removing \ {<<p, n>>}
         /\ UNCHANGED <<now, line, isOpen, files, fileLen, shared>>
  BY DEF Removal, Names

LEMMA RemovalTyped == ASSUME DirTyped, NEW p \in Procs, NEW n \in Names, Removal(p, n) PROVE DirTyped'
<1>1. NamesTyped' /\ BytesTyped'
  BY Removing DEF DirTyped, NamesTyped, BytesTyped
<1>2. ListsTyped' /\ RestTyped'
  BY Removing DEF DirTyped, ListsTyped, RestTyped
<1> QED BY <1>1, <1>2 DEF DirTyped

LEMMA LeaveTyped == ASSUME DirTyped, NEW p \in Procs, Leave(p) PROVE DirTyped'
<1>1. NamesTyped' /\ BytesTyped'
  BY DEF DirTyped, NamesTyped, BytesTyped, Leave, Names
<1>2. ListsTyped'
  <2>1. files' \in [Writers -> Seq(1 .. now)]
    <3>1. <<>> \in Seq(1 .. now)
      OBVIOUS
    <3> QED BY <3>1 DEF DirTyped, ListsTyped, Leave
  <2>2. line \in Nat /\ -1 \in -1 .. 2 * line
    BY DEF DirTyped, BytesTyped
  <2>3. fileLen' \in [Writers -> Int] /\ \A q \in Writers : fileLen'[q] \in -1 .. 2 * line
    <3>1. fileLen' = [fileLen EXCEPT ![p] = -1]
      BY DEF Leave
    <3> QED BY <2>2, <3>1, Setting
  <2> QED BY <2>1, <2>3 DEF ListsTyped, Leave
<1>3. RestTyped'
  <2>1. \A r \in removing : r[1] \in isOpen /\ r = <<r[1], r[2]>> /\ r[2] \in 1 .. now
    BY DEF DirTyped, RestTyped
  <2>2. /\ isOpen' = isOpen \ {p} /\ removing' = {r \in removing : r[1] # p} /\ now' = now
        /\ shared' = shared
    BY DEF Leave
  <2>3. removing' \subseteq isOpen' \X (1 .. now')
    BY <2>1, <2>2
  <2> QED BY <2>2, <2>3 DEF DirTyped, RestTyped
<1> QED BY <1>1, <1>2, <1>3 DEF DirTyped

LEMMA TickTyped == ASSUME DirTyped, Tick PROVE DirTyped'
<1>1. /\ now \in 1 .. MaxTime /\ now < MaxTime /\ now' = now + 1
      /\ UNCHANGED <<disk, line, isOpen, files, fileLen, removing, shared>>
  BY DEF Tick, DirTyped, NamesTyped
<1>2. now' \in 1 .. MaxTime /\ 1 .. now \subseteq 1 .. now'
  BY <1>1, LogBoundsAssumption
<1>3. NamesTyped' /\ BytesTyped'
  BY <1>1, <1>2 DEF DirTyped, NamesTyped, BytesTyped, Names
<1>4. ListsTyped'
  <2>1. Seq(1 .. now) \subseteq Seq(1 .. now')
    BY <1>2, SeqMonotonic
  <2> QED BY <1>1, <2>1 DEF DirTyped, ListsTyped
<1>5. RestTyped'
  BY <1>1, <1>2 DEF DirTyped, RestTyped
<1> QED BY <1>3, <1>4, <1>5 DEF DirTyped

(***************************************************************************)
(* The steps on what the directory holds, while one process at a time has  *)
(* it open.                                                                *)
(***************************************************************************)
\* Listed, Sized and FilledInv tell of a process that no step has touched.
LEMMA Untouched ==
  ASSUME DirTyped, LogInv, UNCHANGED <<disk, line>>, NEW p,
         \A q \in isOpen' : /\ q \in isOpen /\ files'[q] = files[q] /\ fileLen'[q] = fileLen[q]
                            /\ \A n : <<q, n>> \in removing' <=> <<q, n>> \in removing,
         now' \in Nat, now <= now'
  PROVE  LogInv'
<1>1. FilledInv' /\ InOrder' /\ NewestKept'
  <2>1. Names' = Names
    BY DEF Names
  <2>2. FilledInv' /\ InOrder'
    BY <2>1 DEF LogInv, FilledInv, InOrder
  <2>3. \A l : Newer(l)' = Newer(l) /\ \A n : Holds(n, l)' <=> Holds(n, l)
    BY <2>1 DEF Newer, Holds
  <2>4. NewestKept'
    BY <2>1, <2>3 DEF LogInv, NewestKept
  <2> QED BY <2>2, <2>4
<1>2. ASSUME NEW q \in isOpen' PROVE (\A r \in isOpen' : r = q) /\ Listed(q)' /\ Sized(q)'
  <2>1. Dying(q)' = Dying(q)
    <3>1. removing \subseteq isOpen \X (1 .. now)
      BY DEF DirTyped, RestTyped
    <3>2. \A n : <<q, n>> \in removing => n \in 1 .. now
      BY <3>1
    <3>3. now \in Nat
      BY DEF DirTyped, NamesTyped
    <3>4. 1 .. now \subseteq 1 .. now'
      BY <3>3
    <3> QED BY <3>2, <3>4 DEF Dying
  <2>2. Listed(q)'
    BY <2>1 DEF LogInv, ListInv, Listed, Names
  <2>3. Sized(q)'
    BY DEF LogInv, ListInv, Sized, Names
  <2> QED BY <2>2, <2>3 DEF LogInv, ListInv
<1> QED BY <1>1, <1>2 DEF LogInv, ListInv

LEMMA OpenKeeps == ASSUME DirTyped, LogInv, NEW p \in Procs, Open(p), isOpen = {} PROVE LogInv'
<1>1. PICK s \in Scanned :
        /\ files' = [files EXCEPT ![p] = s]
        /\ fileLen' = [fileLen EXCEPT ![p] = IF s = <<>> THEN -1 ELSE Len(disk[Head(s)])]
  BY DEF Open
<1>2. s \in Seq(1 .. now) /\ Names = ToSet(s) /\ Decreasing(s)
  BY Scanning DEF DirTyped
<1>3. isOpen' = {p} /\ UNCHANGED <<now, disk, line, removing>>
  BY DEF Open
<1>4. p \in Writers /\ files'[p] = s /\ fileLen'[p] = IF s = <<>> THEN -1 ELSE Len(disk[Head(s)])
  BY <1>1, HomeAssumption DEF DirTyped, ListsTyped
<1>5. Dying(p)' = {}
  BY <1>3 DEF Dying, DirTyped, RestTyped
<1>6. Listed(p)'
  BY <1>2, <1>3, <1>4, <1>5 DEF Listed, Names
<1>7. Sized(p)'
  <2>1. CASE s = <<>>
    <3>1. Names = {}
      BY <1>2, <2>1 DEF ToSet
    <3> QED BY <1>3, <1>4, <2>1, <3>1 DEF Sized, Names
  <2>2. CASE s # <<>>
    <3>1. Head(s) = s[1] /\ 1 \in DOMAIN s
      BY <1>2, <2>2
    <3>2. s[1] \in Names
      BY <1>2, <3>1 DEF ToSet
    <3>3. PICK n \in Nat : n = Len(disk[s[1]])
      BY <3>2 DEF DirTyped, BytesTyped
    <3>4. ~(n < 0) /\ n <= n
      OBVIOUS
    <3> QED BY <1>3, <1>4, <2>2, <3>1, <3>3, <3>4 DEF Sized
  <2> QED BY <2>1, <2>2
<1>8. ListInv'
  BY <1>3, <1>6, <1>7 DEF ListInv
<1>9. Names' = Names
  BY <1>3 DEF Names
<1>10. FilledInv' /\ InOrder'
  BY <1>3, <1>9 DEF LogInv, FilledInv, InOrder
<1>11. \A l : Newer(l)' = Newer(l) /\ \A n : Holds(n, l)' <=> Holds(n, l)
  BY <1>3, <1>9 DEF Newer, Holds
<1>12. NewestKept'
  BY <1>3, <1>9, <1>11 DEF LogInv, NewestKept
<1> QED BY <1>8, <1>10, <1>12 DEF LogInv

\* A set of files that is large enough stays so when it grows.
LEMMA CountGrows ==
  ASSUME NamesTyped, NEW S, NEW T, S \subseteq T, T \subseteq Names, Cardinality(S) >= MaxFiles
  PROVE  Cardinality(T) >= MaxFiles
<1>1. S \subseteq 1 .. now /\ T \subseteq 1 .. now /\ now \in 1 .. MaxTime
  BY DEF NamesTyped
<1>2. IsFiniteSet(T) /\ Cardinality(T) \in Nat /\ Cardinality(S) \in Nat
  BY <1>1, FiniteNames
<1>3. Cardinality(S) <= Cardinality(T)
  BY <1>2, FS_Subset
<1> QED BY <1>2, <1>3, FilesAssumption

\* More names, of files that are empty: what is in order and kept stays so.
LEMMA Growing ==
  ASSUME DirTyped, LogInv, Names \subseteq Names', \A n \in Names : disk'[n] = disk[n],
         \A n \in Names' \ Names : disk'[n] = <<>>, UNCHANGED line, NamesTyped'
  PROVE  InOrder' /\ NewestKept'
<1>1. \A i : \A n \in Names' : i \in DOMAIN disk'[n] => n \in Names /\ i \in DOMAIN disk[n] /\ disk'[n][i] = disk[n][i]
  OBVIOUS
<1>2. InOrder'
  BY <1>1 DEF LogInv, InOrder
<1>3. ASSUME NEW l \in 1 .. line PROVE (\E n \in Names' : Holds(n, l)') \/ Cardinality(Newer(l)') >= MaxFiles
  <2>1. CASE \E n \in Names : Holds(n, l)
    BY <2>1 DEF Holds
  <2>2. CASE Cardinality(Newer(l)) >= MaxFiles
    <3>1. Newer(l) \subseteq Newer(l)' /\ Newer(l) \subseteq Names /\ Newer(l)' \subseteq Names'
      BY <1>1 DEF Newer
    <3>2. IsFiniteSet(Newer(l)') /\ Cardinality(Newer(l)') \in Nat
      BY <3>1, FiniteNames DEF NamesTyped
    <3>3. Cardinality(Newer(l)) \in Nat
      BY <3>1, FiniteNames DEF DirTyped, NamesTyped
    <3>4. Cardinality(Newer(l)) <= Cardinality(Newer(l)')
      BY <3>1, <3>2, FS_Subset
    <3> QED BY <2>2, <3>2, <3>3, <3>4, FilesAssumption
  <2> QED BY <2>1, <2>2 DEF LogInv, NewestKept
<1> QED BY <1>2, <1>3 DEF NewestKept

LEMMA RotateKeeps == ASSUME DirTyped, LogInv, NEW p \in Procs, Rotate(p) PROVE LogInv'
<1>1. /\ p \in isOpen /\ p \in Writers /\ now \in Nat /\ now \notin Names /\ Full(p)
      /\ Names' = Names \union {now} /\ disk'[now] = <<>> /\ \A n \in Names : disk'[n] = disk[n]
      /\ fileLen' = [fileLen EXCEPT ![p] = 0]
      /\ UNCHANGED <<now, line, isOpen, shared>>
  BY Rotating
<1>2. PICK k \in Seq(1 .. now) :
        /\ k = <<now>> \o files[p]
        /\ files' = [files EXCEPT ![p] = Kept(k)]
        /\ removing' = removing \union ({p} \X ToSet(Forgotten(k)))
  BY Rotating
<1> DEFINE f == files[p]
<1>3. /\ isOpen = {p} /\ Names = ToSet(f) \union Dying(p) /\ Decreasing(f)
      /\ \A r \in Dying(p), i \in DOMAIN f : r < f[i]
      /\ Dying(p) # {} => Len(f) >= MaxFiles
  BY <1>1 DEF LogInv, ListInv, Listed
<1>4. f \in Seq(1 .. now) /\ \A i \in DOMAIN f : f[i] \in ToSet(f)
  BY <1>1 DEF DirTyped, ListsTyped, ToSet
<1>5. \A n \in Names : n \in Nat /\ n < now
  <2>1. \A n \in Names : n \in 1 .. now /\ n # now
    BY <1>1 DEF DirTyped, NamesTyped
  <2> QED BY <1>1, <2>1
<1>6. files'[p] = Kept(k) /\ fileLen'[p] = 0
  BY <1>1, <1>2 DEF DirTyped, ListsTyped
<1> HIDE DEF f
<1>7. f \in Seq(Nat) /\ \A i \in DOMAIN f : f[i] < now
  <2>1. 1 .. now \subseteq Nat
    OBVIOUS
  <2> QED BY <1>3, <1>4, <1>5, <2>1, SeqMonotonic
<1>8. /\ Len(k) = Len(f) + 1 /\ k[1] = now /\ ToSet(k) = {now} \union ToSet(f) /\ Decreasing(k)
      /\ \A i \in DOMAIN k : i = 1 \/ (i - 1 \in DOMAIN f /\ k[i] = f[i - 1])
  <2>1. k = <<now>> \o f
    BY <1>2 DEF f
  <2>2. Decreasing(f) /\ (\A i \in DOMAIN f : f[i] < now)
    BY <1>3, <1>7
  <2>3. /\ Len(k) = Len(f) + 1 /\ k[1] = now /\ ToSet(k) = {now} \union ToSet(f)
        /\ \A i \in DOMAIN k : i = 1 \/ (i - 1 \in DOMAIN f /\ k[i] = f[i - 1])
    <3>1. now \in Nat /\ f \in Seq(Nat)
      BY <1>1, <1>7
    <3>2. Len(k) = Len(f) + 1 /\ k[1] = now
      BY <2>1, <3>1, Pushing
    <3>3. ToSet(k) = {now} \union ToSet(f)
      BY <2>1, <3>1, Pushing
    <3>4. \A i \in DOMAIN k : i = 1 \/ (i - 1 \in DOMAIN f /\ k[i] = f[i - 1])
      BY <2>1, <3>1, Pushing
    <3> QED BY <3>2, <3>3, <3>4
  <2>4. Decreasing(f) /\ (\A i \in DOMAIN f : f[i] < now) => Decreasing(k)
    BY <1>1, <1>7, <2>1, Pushing
  <2> QED BY <2>2, <2>3, <2>4
<1>9. /\ Len(Kept(k)) = IF Len(k) < MaxFiles THEN Len(k) ELSE MaxFiles
      /\ \A i \in DOMAIN Kept(k) : i \in DOMAIN k /\ i <= MaxFiles /\ Kept(k)[i] = k[i]
      /\ \A r \in ToSet(Forgotten(k)) : Len(k) > MaxFiles /\ \E i \in DOMAIN k : i > MaxFiles /\ k[i] = r
      /\ ToSet(k) = ToSet(Kept(k)) \union ToSet(Forgotten(k))
      /\ Kept(k) \in Seq(1 .. now)
  BY Splitting
<1>10. Dying(p)' = Dying(p) \union ToSet(Forgotten(k))
  <2>1. ToSet(Forgotten(k)) \subseteq 1 .. now
    <3>1. \A i \in DOMAIN k : k[i] \in 1 .. now
      BY Elements
    <3> QED BY <1>9, <3>1
  <2> QED BY <1>1, <1>2, <2>1 DEF Dying
<1>11. Listed(p)'
  <2>1. Names' = ToSet(Kept(k)) \union Dying(p)'
    BY <1>1, <1>3, <1>8, <1>9, <1>10
  <2>2. Decreasing(Kept(k))
    BY <1>8, <1>9 DEF Decreasing
  <2>3. ASSUME NEW r \in Dying(p)', NEW i \in DOMAIN Kept(k) PROVE r < Kept(k)[i]
    <3>0. i \in DOMAIN k /\ i <= MaxFiles /\ Kept(k)[i] = k[i] /\ i \in Nat /\ MaxFiles \in Nat
      BY <1>9, FilesAssumption
    <3>1. CASE r \in Dying(p)
      <4>1. r < now
        BY <1>3, <1>5, <3>1
      <4>2. CASE i = 1
        BY <1>8, <3>0, <4>1, <4>2
      <4>3. CASE i # 1
        BY <1>3, <1>8, <3>0, <3>1, <4>3
      <4> QED BY <4>2, <4>3
    <3>2. CASE r \in ToSet(Forgotten(k))
      <4>1. PICK j \in DOMAIN k : j > MaxFiles /\ k[j] = r
        BY <1>9, <3>2
      <4>2. j \in Nat /\ i < j
        BY <3>0, <4>1
      <4>3. k[i] > k[j]
        BY <1>8, <3>0, <4>2 DEF Decreasing
      <4>4. k[i] \in Nat /\ k[j] \in Nat
        BY <1>1, <3>0, Elements
      <4> QED BY <3>0, <4>1, <4>3, <4>4
    <3> QED BY <1>10, <3>1, <3>2
  <2>4. Dying(p)' # {} => Len(Kept(k)) >= MaxFiles
    <3>1. PICK a \in Nat, b \in Nat : a = Len(f) /\ b = Len(k)
      BY <1>7
    <3>2. MaxFiles \in Nat /\ b = a + 1
      BY <1>8, <3>1, FilesAssumption
    <3>3. Dying(p)' # {} => b > MaxFiles
      BY <1>3, <1>9, <1>10, <3>1, <3>2 DEF f
    <3>4. b > MaxFiles => Len(Kept(k)) = MaxFiles
      BY <1>9, <3>1, <3>2
    <3> QED BY <3>2, <3>3, <3>4
  <2> QED BY <1>6, <2>1, <2>2, <2>3, <2>4 DEF Listed
<1>12. Sized(p)'
  <2>1. Kept(k) # <<>> /\ Kept(k)[1] = now
    <3>1. PICK a \in Nat, b \in Nat : a = Len(f) /\ b = Len(Kept(k))
      BY <1>7, <1>9
    <3>2. b >= 1
      BY <1>8, <1>9, <3>1, FilesAssumption
    <3>3. Kept(k) # <<>> /\ 1 \in DOMAIN Kept(k)
      BY <1>9, <3>1, <3>2
    <3> QED BY <1>8, <1>9, <3>3
  <2>2. Len(<<>>) = 0 /\ ~(0 < 0) /\ 0 <= 0
    OBVIOUS
  <2> QED BY <1>1, <1>6, <2>1, <2>2 DEF Sized
<1>13. \A m \in Names : disk[m] # <<>>
  <2>1. CASE fileLen[p] < 0
    BY <1>1, <2>1 DEF LogInv, ListInv, Sized
  <2>2. CASE ~(fileLen[p] < 0)
    <3>1. f # <<>> /\ fileLen[p] <= Len(disk[f[1]]) /\ fileLen[p] \in Int
      BY <1>1, <2>2 DEF LogInv, ListInv, Sized, DirTyped, ListsTyped, f
    <3>2. fileLen[p] >= 1
      BY <1>1, <2>2, <3>1, FilesAssumption DEF Full
    <3>3. 1 \in DOMAIN f /\ f[1] \in Names
      BY <1>3, <1>4, <3>1
    <3>4. disk[f[1]] # <<>>
      <4>1. Len(disk[f[1]]) \in Nat
        BY <3>3 DEF DirTyped, BytesTyped
      <4>2. Len(disk[f[1]]) >= 1
        BY <3>1, <3>2, <4>1
      <4>3. Len(<<>>) = 0
        OBVIOUS
      <4> QED BY <4>2, <4>3
    <3>5. ASSUME NEW m \in Names, m # f[1] PROVE m < f[1]
      <4>1. CASE m \in Dying(p)
        BY <1>3, <3>3, <4>1
      <4>2. CASE m \in ToSet(f)
        <5>1. PICK i \in DOMAIN f : f[i] = m
          BY <4>2 DEF ToSet
        <5>2. i > 1
          BY <1>7, <3>5, <5>1
        <5> QED BY <1>3, <1>5, <3>3, <5>1, <5>2 DEF Decreasing
      <4> QED BY <1>3, <4>1, <4>2
    <3> QED BY <3>3, <3>4, <3>5 DEF LogInv, FilledInv
  <2> QED BY <2>1, <2>2
<1>14. FilledInv'
  BY <1>1, <1>5, <1>13 DEF FilledInv
<1>15. InOrder' /\ NewestKept'
  BY <1>1, RotateTyped, Growing DEF DirTyped
<1>16. ListInv'
  BY <1>1, <1>3, <1>11, <1>12 DEF ListInv
<1> QED BY <1>14, <1>15, <1>16 DEF LogInv

LEMMA WriteKeeps == ASSUME DirTyped, LogInv, NEW p \in Procs, Write(p) PROVE LogInv'
<1>1. /\ p \in isOpen /\ p \in Writers /\ ~Full(p) /\ line \in Nat /\ line' = line + 1 /\ Names' = Names
      /\ fileLen' = [fileLen EXCEPT ![p] = @ + 1]
      /\ UNCHANGED <<now, isOpen, files, removing, shared>>
  BY Writing
<1> DEFINE h == files[p][1]
<1>2. /\ files[p] # <<>> /\ files[p] \in Seq(1 .. now) /\ fileLen[p] \in Int /\ ~(fileLen[p] < 0)
      /\ fileLen[p] <= Len(disk[h])
  BY <1>1 DEF LogInv, ListInv, Sized, DirTyped, ListsTyped, Full
<1>3. /\ isOpen = {p} /\ Names = ToSet(files[p]) \union Dying(p) /\ Decreasing(files[p])
      /\ \A r \in Dying(p), i \in DOMAIN files[p] : r < files[p][i]
  BY <1>1 DEF LogInv, ListInv, Listed
<1>4. h = Head(files[p]) /\ 1 \in DOMAIN files[p] /\ h \in Names
  <2>1. h = Head(files[p]) /\ 1 \in DOMAIN files[p]
    BY <1>2
  <2> QED BY <1>3, <2>1 DEF ToSet
<1>5. \A n \in Names : n \in Nat /\ (n = h \/ n < h)
  <2>1. \A n \in Names : n \in Nat
    BY DEF DirTyped, NamesTyped
  <2>2. ASSUME NEW i \in DOMAIN files[p] PROVE files[p][i] = h \/ files[p][i] < h
    <3>1. i \in Nat /\ (i = 1 \/ 1 < i)
      BY <1>2
    <3>2. 1 < i => h > files[p][i]
      BY <1>3, <1>4 DEF Decreasing
    <3>3. h \in Nat /\ files[p][i] \in Nat
      <4>1. h \in 1 .. now /\ files[p][i] \in 1 .. now
        BY <1>2, <1>4, Elements
      <4> QED BY <4>1
    <3> QED BY <3>1, <3>2, <3>3
  <2> QED BY <1>3, <1>4, <2>1, <2>2 DEF ToSet
<1> HIDE DEF h
<1>6. ASSUME NEW n \in Names
      PROVE  /\ disk[n] \in Seq(1 .. line) /\ disk'[n] \in Seq(1 .. line + 1)
             /\ Len(disk[n]) <= Len(disk'[n])
             /\ n = h => Len(disk[n]) + 1 <= Len(disk'[n]) /\ \E i \in DOMAIN disk'[n] : disk'[n][i] = line + 1
             /\ \A i \in DOMAIN disk[n] : /\ i \in DOMAIN disk'[n] /\ disk'[n][i] = disk[n][i]
                                          /\ disk[n][i] \in 1 .. line
             /\ \A i \in DOMAIN disk'[n] : \/ i \in DOMAIN disk[n]
                                           \/ /\ n = h /\ disk'[n][i] = line + 1
                                              /\ \A j \in DOMAIN disk[n] : j < i
  BY <1>4, WritingFile, Elements
<1>7. ListInv'
  <2>1. Dying(p)' = Dying(p)
    BY <1>1 DEF Dying
  <2>2. Listed(p)'
    BY <1>1, <2>1 DEF Listed, LogInv, ListInv
  <2>3. fileLen'[p] = fileLen[p] + 1
    BY <1>1 DEF DirTyped, ListsTyped
  <2>4. Sized(p)'
    <3>1. PICK a \in Nat, b \in Nat : a = Len(disk[h]) /\ b = Len(disk'[h])
      BY <1>4, <1>6
    <3>2. a + 1 <= b /\ fileLen[p] <= a
      BY <1>2, <1>4, <1>6, <3>1
    <3>3. fileLen[p] + 1 <= b /\ ~(fileLen[p] + 1 < 0)
      BY <1>2, <3>1, <3>2
    <3> QED BY <1>1, <1>2, <2>3, <3>1, <3>3 DEF Sized, h
  <2> QED BY <1>1, <1>3, <2>2, <2>4 DEF ListInv
<1>8. FilledInv'
  <2> SUFFICES ASSUME NEW m \in Names, NEW n \in Names, m < n PROVE disk'[m] # <<>>
    BY <1>1 DEF FilledInv
  <2>1. disk[m] # <<>>
    BY DEF LogInv, FilledInv
  <2>2. 1 \in DOMAIN disk[m]
    BY <1>6, <2>1
  <2>3. 1 \in DOMAIN disk'[m]
    BY <1>6, <2>2
  <2> QED BY <2>3
<1>9. InOrder'
  <2>1. ASSUME NEW n \in Names, NEW i \in DOMAIN disk'[n], NEW j \in DOMAIN disk'[n], i < j
        PROVE  disk'[n][i] <= disk'[n][j]
    <3>0. i \in Nat /\ j \in Nat
      BY <1>6
    <3>1. CASE i \in DOMAIN disk[n] /\ j \in DOMAIN disk[n]
      BY <1>6, <2>1, <3>1 DEF LogInv, InOrder
    <3>2. CASE j \notin DOMAIN disk[n]
      <4>1. disk'[n][j] = line + 1
        BY <1>6, <3>2
      <4>2. disk'[n][i] \in 1 .. line + 1
        BY <1>6, Elements
      <4> QED BY <1>1, <4>1, <4>2
    <3>3. CASE i \notin DOMAIN disk[n] /\ j \in DOMAIN disk[n]
      <4>1. j < i
        BY <1>6, <3>3
      <4> QED BY <2>1, <3>0, <4>1
    <3> QED BY <3>1, <3>2, <3>3
  <2>2. ASSUME NEW m \in Names, NEW n \in Names, m < n,
               NEW i \in DOMAIN disk'[m], NEW j \in DOMAIN disk'[n]
        PROVE  disk'[m][i] < disk'[n][j]
    <3>1. m # h
      BY <1>4, <1>5, <2>2
    <3>2. i \in DOMAIN disk[m] /\ disk'[m][i] = disk[m][i] /\ disk[m][i] \in 1 .. line
      BY <1>6, <3>1
    <3>3. CASE j \in DOMAIN disk[n]
      <4>1. disk'[n][j] = disk[n][j]
        BY <1>6, <3>3
      <4> QED BY <2>2, <3>2, <3>3, <4>1 DEF LogInv, InOrder
    <3>4. CASE j \notin DOMAIN disk[n]
      <4>1. disk'[n][j] = line + 1
        BY <1>6, <3>4
      <4> QED BY <1>1, <3>2, <4>1
    <3> QED BY <3>3, <3>4
  <2> QED BY <1>1, <2>1, <2>2 DEF InOrder
<1>10. NewestKept'
  <2>1. ASSUME NEW l \in 1 .. line PROVE (\E n \in Names : Holds(n, l)') \/ Cardinality(Newer(l)') >= MaxFiles
    <3>1. CASE \E n \in Names : Holds(n, l)
      BY <1>6, <3>1 DEF Holds
    <3>2. CASE Cardinality(Newer(l)) >= MaxFiles
      <4>1. Newer(l) \subseteq Newer(l)'
        <5> SUFFICES ASSUME NEW n \in Names, \A i \in DOMAIN disk[n] : disk[n][i] > l,
                            NEW i \in DOMAIN disk'[n]
                     PROVE  disk'[n][i] > l
          BY <1>1 DEF Newer
        <5>1. CASE i \in DOMAIN disk[n]
          BY <1>6, <5>1
        <5>2. CASE i \notin DOMAIN disk[n]
          <6>1. disk'[n][i] = line + 1
            BY <1>6, <5>2
          <6> QED BY <1>1, <6>1
        <5> QED BY <5>1, <5>2
      <4>2. Newer(l)' \subseteq Names
        BY <1>1 DEF Newer
      <4> QED BY <3>2, <4>1, <4>2, CountGrows DEF DirTyped
    <3> QED BY <3>1, <3>2 DEF LogInv, NewestKept
  <2>2. \E n \in Names : \E i \in DOMAIN disk'[n] : disk'[n][i] = line + 1
    BY <1>4, <1>6
  <2>3. \A l \in 1 .. line + 1 : l \in 1 .. line \/ l = line + 1
    BY <1>1
  <2> QED BY <1>1, <2>1, <2>2, <2>3 DEF NewestKept, Holds
<1> QED BY <1>7, <1>8, <1>9, <1>10 DEF LogInv

\* A name that is removed is older than MaxFiles files, which the list has.
LEMMA RemovalKeeps ==
  ASSUME DirTyped, LogInv, NEW p \in Procs, NEW n \in Names, Removal(p, n) PROVE LogInv'
<1>1. /\ Names' = Names \ {n} /\ \A m \in Names \ {n} : disk'[m] = disk[m]
      /\ <<p, n>> \in removing /\ removing' = removing \ {<<p, n>>}
      /\ UNCHANGED <<now, line, isOpen, files, fileLen, shared>>
  BY Removing
<1>2. p \in isOpen /\ p \in Writers
  BY <1>1 DEF DirTyped, RestTyped
<1> DEFINE f == files[p]
<1>3. n \in Dying(p) /\ Dying(p)' = Dying(p) \ {n}
  BY <1>1 DEF Dying, DirTyped, NamesTyped
<1>4. /\ isOpen = {p} /\ Names = ToSet(f) \union Dying(p) /\ Decreasing(f)
      /\ \A r \in Dying(p), i \in DOMAIN f : r < f[i]
      /\ Len(f) >= MaxFiles
  BY <1>2, <1>3 DEF LogInv, ListInv, Listed
<1>5. f \in Seq(1 .. now) /\ f \in Seq(Nat) /\ now \in Nat
  <2>1. f \in Seq(1 .. now) /\ 1 .. now \subseteq Nat
    BY <1>2 DEF DirTyped, ListsTyped
  <2> QED BY <2>1, SeqMonotonic DEF DirTyped, NamesTyped
<1>6. \A m \in Names : m \in Nat
  BY DEF DirTyped, NamesTyped
<1>7. \A m \in ToSet(f) : m \in Names /\ n < m /\ m # n
  BY <1>3, <1>4, <1>6 DEF ToSet
<1>8. ListInv'
  <2>1. Listed(p)'
    BY <1>1, <1>3, <1>4, <1>7 DEF Listed
  <2>2. Sized(p)'
    <3>1. CASE fileLen[p] < 0
      BY <1>1, <1>2, <3>1 DEF LogInv, ListInv, Sized
    <3>2. CASE ~(fileLen[p] < 0)
      <4>1. f # <<>> /\ fileLen[p] <= Len(disk[f[1]])
        BY <1>2, <3>2 DEF LogInv, ListInv, Sized
      <4>2. f[1] \in Names \ {n}
        <5>1. f[1] \in ToSet(f)
          BY <1>5, <4>1 DEF ToSet
        <5> QED BY <1>7, <5>1
      <4> QED BY <1>1, <3>2, <4>1, <4>2 DEF Sized
    <3> QED BY <3>1, <3>2
  <2> QED BY <1>1, <1>4, <2>1, <2>2 DEF ListInv
<1>9. FilledInv' /\ InOrder'
  BY <1>1 DEF LogInv, FilledInv, InOrder
<1>10. ASSUME NEW l \in 1 .. line, Holds(n, l) \/ n \in Newer(l) PROVE Cardinality(Newer(l)') >= MaxFiles
  <2>1. PICK i \in DOMAIN disk[n] : disk[n][i] >= l /\ disk[n][i] \in 1 .. line /\ l \in Nat
    <3>0. l \in Nat /\ disk[n] \in Seq(1 .. line)
      BY DEF DirTyped, BytesTyped
    <3>1. CASE Holds(n, l)
      BY <3>0, <3>1 DEF Holds
    <3>2. CASE n \in Newer(l)
      <4>1. Len(f) \in Nat /\ Len(f) >= 1 /\ DOMAIN f = 1 .. Len(f)
        BY <1>4, <1>5, FilesAssumption
      <4>2. 1 \in DOMAIN f /\ f[1] \in ToSet(f)
        BY <4>1 DEF ToSet
      <4>3. disk[n] # <<>>
        BY <1>7, <4>2 DEF LogInv, FilledInv
      <4>4. 1 \in DOMAIN disk[n] /\ disk[n][1] \in 1 .. line
        BY <3>0, <4>3, First
      <4>5. disk[n][1] > l
        BY <3>2, <4>4 DEF Newer
      <4> QED BY <3>0, <4>4, <4>5
    <3> QED BY <1>10, <3>1, <3>2
  <2>2. ToSet(f) \subseteq Newer(l)'
    <3> SUFFICES ASSUME NEW m \in ToSet(f), NEW j \in DOMAIN disk'[m] PROVE disk'[m][j] > l
      BY <1>1, <1>7 DEF Newer
    <3>1. m \in Names \ {n} /\ n < m /\ disk'[m] = disk[m]
      BY <1>1, <1>7
    <3>2. disk[n][i] < disk[m][j]
      BY <3>1 DEF LogInv, InOrder
    <3>3. disk[m][j] \in 1 .. line
      BY <3>1, Elements DEF DirTyped, BytesTyped
    <3> QED BY <2>1, <3>1, <3>2, <3>3
  <2>3. Cardinality(ToSet(f)) >= MaxFiles
    BY <1>4, <1>5, DecreasingCardinality
  <2>4. Newer(l)' \subseteq Names
    BY <1>1 DEF Newer
  <2> QED BY <2>2, <2>3, <2>4, CountGrows DEF DirTyped
<1>11. ASSUME NEW l \in 1 .. line, NEW m \in Names, Holds(m, l), m # n PROVE \E q \in Names' : Holds(q, l)'
  BY <1>1, <1>11 DEF Holds
<1>12. ASSUME NEW l \in 1 .. line, Cardinality(Newer(l)) >= MaxFiles, n \notin Newer(l)
       PROVE  Cardinality(Newer(l)') >= MaxFiles
  <2>1. Newer(l) \subseteq Newer(l)' /\ Newer(l)' \subseteq Names
    BY <1>1, <1>12 DEF Newer
  <2> QED BY <1>12, <2>1, CountGrows DEF DirTyped
<1>13. NewestKept'
  <2> SUFFICES ASSUME NEW l \in 1 .. line
               PROVE  (\E q \in Names' : Holds(q, l)') \/ Cardinality(Newer(l)') >= MaxFiles
    BY <1>1 DEF NewestKept
  <2> QED BY <1>10, <1>11, <1>12 DEF LogInv, NewestKept
<1> QED BY <1>8, <1>9, <1>13 DEF LogInv

\* A process that ends leaves the directory as it is.
LEMMA LeaveKeeps == ASSUME DirTyped, LogInv, NEW p \in Procs, Leave(p) PROVE LogInv'
<1>1. /\ isOpen' = isOpen \ {p} /\ removing' = {r \in removing : r[1] # p}
      /\ files' = [files EXCEPT ![p] = <<>>] /\ fileLen' = [fileLen EXCEPT ![p] = -1]
      /\ UNCHANGED <<now, disk, line, shared>>
  BY DEF Leave
<1>2. now \in Nat /\ now' = now /\ now <= now
  BY <1>1 DEF DirTyped, NamesTyped
<1>3. isOpen \subseteq Writers /\ files \in [Writers -> Seq(1 .. now)] /\ fileLen \in [Writers -> Int]
  BY DEF DirTyped, RestTyped, ListsTyped
<1>4. ASSUME NEW q \in isOpen'
      PROVE  /\ q \in isOpen /\ files'[q] = files[q] /\ fileLen'[q] = fileLen[q]
             /\ \A n : <<q, n>> \in removing' <=> <<q, n>> \in removing
  <2>1. q \in isOpen /\ q # p /\ q \in Writers
    BY <1>1, <1>3
  <2>2. \A n : <<q, n>>[1] = q
    OBVIOUS
  <2> QED BY <1>1, <1>3, <2>1, <2>2
<1> QED BY <1>1, <1>2, <1>4, Untouched

LEMMA TickKeeps == ASSUME DirTyped, LogInv, Tick PROVE LogInv'
<1>1. now' = now + 1 /\ now \in Nat /\ UNCHANGED <<disk, line, isOpen, files, fileLen, removing, shared>>
  BY DEF Tick, DirTyped, NamesTyped
<1>2. now' \in Nat /\ now <= now'
  BY <1>1
<1> QED BY <1>1, <1>2, Untouched

\* The directory that a home starts with is empty.
LEMMA LogStart == HomeInit => DirIInv
<1> SUFFICES ASSUME HomeInit PROVE DirIInv
  OBVIOUS
<1>1. /\ now = 1 /\ disk = <<>> /\ line = 0 /\ isOpen = {}
      /\ files = [p \in Writers |-> <<>>] /\ fileLen = [p \in Writers |-> -1] /\ removing = {}
  BY DEF HomeInit, DirInit
<1>2. Names = {}
  BY <1>1 DEF Names
<1>3. NamesTyped /\ BytesTyped
  BY <1>1, <1>2, LogBoundsAssumption DEF NamesTyped, BytesTyped
<1>4. ListsTyped
  <2>1. <<>> \in Seq(1 .. now) /\ -1 \in Int /\ -1 \in -1 .. 0
    OBVIOUS
  <2> QED BY <1>1, <2>1 DEF ListsTyped
<1>5. RestTyped
  <2>1. shared \in BOOLEAN
    BY Zenon DEF HomeInit, DirInit
  <2> QED BY <1>1, <2>1 DEF RestTyped
<1>6. LogInv
  BY <1>1, <1>2 DEF LogInv, ListInv, FilledInv, InOrder, NewestKept
<1> QED BY <1>3, <1>4, <1>5, <1>6 DEF DirIInv, DirTyped

LEMMA LogStep == DirIInv /\ [HomeNext]_home_vars => DirIInv'
<1> SUFFICES ASSUME DirIInv, [HomeNext]_home_vars PROVE DirIInv'
  OBVIOUS
<1>0. DirTyped /\ (~shared => LogInv)
  BY DEF DirIInv
<1>1. ASSUME UNCHANGED dir_vars PROVE DirIInv'
  <2>1. DirTyped'
    BY <1>0, <1>1 DEF DirTyped, NamesTyped, BytesTyped, ListsTyped, RestTyped, Names, dir_vars
  <2>2. LogInv => LogInv'
    <3>1. now \in Nat /\ now <= now
      BY <1>0 DEF DirTyped, NamesTyped
    <3>2. UNCHANGED <<now, disk, line, isOpen, files, fileLen, removing, shared>>
      BY <1>1 DEF dir_vars
    <3> QED BY <1>0, <3>1, <3>2, Untouched
  <2>3. shared' = shared
    BY <1>1 DEF dir_vars
  <2> QED BY <1>0, <2>1, <2>2, <2>3 DEF DirIInv
<1>2. ASSUME NEW p \in Procs, Open(p) PROVE DirIInv'
  <2>1. DirTyped'
    BY <1>0, <1>2, OpenTyped
  <2>2. ~shared' => ~shared /\ isOpen = {}
    BY <1>2 DEF Open
  <2>3. ~shared' => LogInv'
    BY <1>0, <1>2, <2>2, OpenKeeps
  <2> QED BY <2>1, <2>3 DEF DirIInv
<1>3. ASSUME NEW p \in Procs, Logs(p) PROVE DirIInv'
  <2>1. CASE Rotate(p)
    <3>1. DirTyped' /\ (LogInv => LogInv') /\ shared' = shared
      BY <1>0, <2>1, RotateTyped, RotateKeeps DEF Rotate
    <3> QED BY <1>0, <3>1 DEF DirIInv
  <2>2. CASE Write(p)
    <3>1. DirTyped' /\ (LogInv => LogInv') /\ shared' = shared
      BY <1>0, <2>2, WriteTyped, WriteKeeps DEF Write
    <3> QED BY <1>0, <3>1 DEF DirIInv
  <2>3. ASSUME NEW n \in Names, Removal(p, n) PROVE DirIInv'
    <3>1. DirTyped' /\ (LogInv => LogInv') /\ shared' = shared
      BY <1>0, <2>3, RemovalTyped, RemovalKeeps DEF Removal
    <3> QED BY <1>0, <3>1 DEF DirIInv
  <2> QED BY <1>3, <2>1, <2>2, <2>3 DEF Logs
<1>4. ASSUME NEW p \in Procs, Leave(p) PROVE DirIInv'
  <2>1. DirTyped' /\ (LogInv => LogInv') /\ shared' = shared
    BY <1>0, <1>4, LeaveTyped, LeaveKeeps DEF Leave
  <2> QED BY <1>0, <2>1 DEF DirIInv
<1>5. CASE Tick
  <2>1. DirTyped' /\ (LogInv => LogInv') /\ shared' = shared
    BY <1>0, <1>5, TickTyped, TickKeeps DEF Tick
  <2> QED BY <1>0, <2>1 DEF DirIInv
<1> QED BY <1>1, <1>2, <1>3, <1>4, <1>5
       DEF HomeNext, home_vars, Begins, SetupLogging, Closes, Ended, Panics

LEMMA InvIsLogKept == DirIInv => LogKept
<1> SUFFICES ASSUME DirIInv PROVE LogKept
  OBVIOUS
<1>1. NamesTyped /\ BytesTyped /\ ListsTyped /\ RestTyped
  BY DEF DirIInv, DirTyped
<1>2. fileLen \in [Writers -> -1 .. 2 * MaxLines]
  <2>1. line \in Nat /\ MaxLines \in Nat /\ line <= MaxLines
    BY <1>1, LogBoundsAssumption DEF BytesTyped
  <2>2. -1 .. 2 * line \subseteq -1 .. 2 * MaxLines
    BY <2>1
  <2>3. \A p \in Writers : fileLen[p] \in -1 .. 2 * MaxLines
    BY <1>1, <2>2 DEF ListsTyped
  <2> QED BY <1>1, <2>3 DEF ListsTyped
<1>3. DirTypeOK
  BY <1>1, <1>2 DEF DirTypeOK, NamesTyped, BytesTyped, ListsTyped, RestTyped
<1> QED BY <1>3 DEF LogKept, DirIInv, LogInv

\* However often daemons come up, crash with removals under way and come up again,
\* and whichever of their removals were done: while one at a time has the directory
\* open, it reads in the order in which the lines were written, and each line is
\* there until MaxFiles newer files are.
THEOREM LogCorrect == HomeSpec => []LogKept
<1> QED BY LogStart, LogStep, InvIsLogKept, PTL DEF HomeSpec

(***************************************************************************)
(* The disks.                                                              *)
(***************************************************************************)

States == {"off", "prepare", "machine", "up", "next"} \union MountSteps

\* The types, by groups of variables.
ImagesTyped ==
  /\ config \in [Images -> Configs] /\ fs \in [Images -> Contents]
  /\ file \in [Images -> FileSizes \union {Absent}]

FoundTyped ==
  /\ stat \in [Images -> FileSizes \union {Absent}]
  /\ found \in [Images -> Contents] /\ size \in [Images -> FileSizes]
  /\ \A d \in Images : found[d].type = "none" \/ Identified(found[d].type)

StepsTyped ==
  /\ pc \in States
  /\ todo \subseteq Images /\ empty \subseteq Images /\ cur \in Images
  /\ settled \subseteq Images /\ mounted \subseteq Images /\ (mounted # {} => pc \in {"next", "up"} \union MountSteps)
  /\ (pc \in MountSteps => cur \notin todo)

CountersTyped == boots \in 0 .. MaxBoots /\ edits \in 0 .. MaxEdits

LEMMA TypeIsGroups == TypeOK <=> ImagesTyped /\ FoundTyped /\ StepsTyped /\ CountersTyped
BY DEF TypeOK, ImagesTyped, FoundTyped, StepsTyped, CountersTyped, States

\* The share of an image without a size is at most maxAutoSize.
LEMMA AutoSizeTyped ==
  ASSUME NEW n \in Nat \ {0}, NEW free \in Nat
  PROVE  AutoSize(n, free) \in 0 .. maxAutoSize
<1> DEFINE S == {maxAutoSize, 4 * Total, 2 * free}
           m == Min(S)
<1>1. \E x \in S : \A y \in S : x =< y
  <2>1. maxAutoSize \in Nat /\ 4 * Total \in Nat /\ 2 * free \in Nat
    BY SizesAssumption
  <2>2. \A a, b, c \in Nat : \E x \in {a, b, c} : \A y \in {a, b, c} : x =< y
    OBVIOUS
  <2> QED BY <2>1, <2>2
<1>2. m \in S /\ \A y \in S : m =< y
  BY <1>1 DEF Min
<1>3. m \in 0 .. maxAutoSize
  BY <1>2, SizesAssumption
<1> HIDE DEF m
<1>4. m \div n \in 0 .. maxAutoSize
  BY <1>3, SizesAssumption
<1> QED BY <1>4 DEF AutoSize, m

LEMMA NumbersAreInts == FileSizes \subseteq Nat /\ 0 \in FileSizes /\ Absent \notin FileSizes
<1>1. \A n \in 1 .. Cardinality(Images), free \in Frees : AutoSize(n, free) \in Nat
  <2> SUFFICES ASSUME NEW n \in 1 .. Cardinality(Images), NEW free \in Frees PROVE AutoSize(n, free) \in Nat
    OBVIOUS
  <2>1. n \in Nat \ {0} /\ free \in Nat
    BY SizesAssumption, BoundsAssumption, FS_CardinalityType
  <2>2. AutoSize(n, free) \in 0 .. maxAutoSize
    BY <2>1, AutoSizeTyped
  <2> QED BY <2>2, SizesAssumption
<1>2. ASSUME NEW x \in FileSizes PROVE x \in Nat
  BY <1>1, <1>2, SizesAssumption DEF FileSizes
<1>3. 0 \in FileSizes
  BY DEF FileSizes
<1>4. Absent \notin Nat
  BY DEF Absent
<1> QED BY <1>2, <1>3, <1>4

\* The images without a size are some of the images.
LEMMA AutoSizeIsSize ==
  ASSUME empty \subseteq Images, empty # {}, NEW free \in Frees
  PROVE  AutoSize(Cardinality(empty), free) \in FileSizes
<1>1. Cardinality(empty) \in Nat \ {0} /\ Cardinality(empty) <= Cardinality(Images) /\ Cardinality(Images) \in Nat
  BY BoundsAssumption, FS_Subset, FS_CardinalityType, FS_EmptySet
<1>2. Cardinality(empty) \in 1 .. Cardinality(Images)
  BY <1>1
<1> QED BY <1>2 DEF FileSizes

LEMMA NoneTyped == None \in Contents /\ None.type = "none"
BY NumbersAreInts DEF None, Contents

LEMMA CutOffTyped == \A f \in Contents : CutOff(f) \in Contents
BY DEF CutOff, Contents

\* What SetFileSize does to each disk.
LEMMA SetSize ==
  ASSUME ImagesTyped, NEW D \in SUBSET Images, NEW n \in FileSizes, SetFileSize(D, n)
  PROVE  /\ file' \in [Images -> FileSizes \union {Absent}] /\ fs' \in [Images -> Contents]
         /\ \A d \in D : file'[d] = n
         /\ \A d \in Images \ D : file'[d] = file[d] /\ fs'[d] = fs[d]
         /\ \A d \in Images : /\ fs'[d].type = fs[d].type /\ fs'[d].size = fs[d].size
                              /\ fs'[d].data => fs[d].data
                              /\ d \in D /\ fs'[d].data => fs[d].size <= n
                              /\ fs[d].data /\ ~fs'[d].data => d \in D /\ fs[d].size > n
<1>1. file' = [d \in Images |-> IF d \in D THEN n ELSE file[d]]
  BY DEF SetFileSize
<1>2. fs' = [d \in Images |-> IF d \in D /\ fs[d].size > n THEN CutOff(fs[d]) ELSE fs[d]]
  BY DEF SetFileSize
<1>3. \A d \in Images : fs[d] \in Contents /\ fs[d].size \in Nat /\ fs[d].data \in BOOLEAN
  BY NumbersAreInts DEF ImagesTyped, Contents
<1>4. \A d \in Images : /\ CutOff(fs[d]) \in Contents /\ CutOff(fs[d]).type = fs[d].type
                        /\ CutOff(fs[d]).size = fs[d].size /\ CutOff(fs[d]).data = FALSE
  BY <1>3, CutOffTyped DEF CutOff
<1>5. file' \in [Images -> FileSizes \union {Absent}]
  BY <1>1 DEF ImagesTyped
<1>6. fs' \in [Images -> Contents]
  BY <1>2, <1>3, <1>4
<1>7. \A d \in Images : \/ d \in D /\ fs[d].size > n /\ fs'[d] = CutOff(fs[d])
                        \/ (d \in D => fs[d].size <= n) /\ fs'[d] = fs[d]
  BY <1>2, <1>3, NumbersAreInts
<1>8. \A d \in Images : /\ fs'[d].type = fs[d].type /\ fs'[d].size = fs[d].size
                        /\ fs'[d].data => fs[d].data
                        /\ d \in D /\ fs'[d].data => fs[d].size <= n
                        /\ fs[d].data /\ ~fs'[d].data => d \in D /\ fs[d].size > n
  BY <1>4, <1>7
<1> QED BY <1>1, <1>5, <1>6, <1>7, <1>8

(***************************************************************************)
(* Types are kept, group by group.                                         *)
(***************************************************************************)
LEMMA ImagesStep == TypeOK /\ [Next]_vars => ImagesTyped'
<1> SUFFICES ASSUME TypeOK, [Next]_vars PROVE ImagesTyped'
  OBVIOUS
<1>0. ImagesTyped /\ FoundTyped /\ StepsTyped
  BY TypeIsGroups
<1>1. CASE UNCHANGED disk_vars
  BY <1>0, <1>1 DEF disk_vars, ImagesTyped
<1>2. ASSUME NEW d \in Images, PrepareDisk(d) PROVE ImagesTyped'
  <2>1. config' = config /\ config[d].size \in FileSizes
    BY <1>0, <1>2 DEF PrepareDisk, ImagesTyped, Configs, FileSizes
  <2>2. UNCHANGED <<file, fs>> \/ SetFileSize({d}, config[d].size)
    BY <1>2 DEF PrepareDisk
  <2> QED BY <1>0, <2>1, <2>2, SetSize DEF ImagesTyped
<1>3. CASE PrepareAutoImages
  <2>1. config' = config
    BY <1>3 DEF PrepareAutoImages
  <2>2. CASE UNCHANGED <<file, fs>>
    BY <1>0, <2>1, <2>2 DEF ImagesTyped
  <2>3. ASSUME empty # {}, NEW free \in Frees, SetFileSize(empty, AutoSize(Cardinality(empty), free)) PROVE ImagesTyped'
    <3>1. AutoSize(Cardinality(empty), free) \in FileSizes
      BY <1>0, <2>3, AutoSizeIsSize DEF StepsTyped
    <3> QED BY <1>0, <2>1, <2>3, <3>1, SetSize DEF ImagesTyped, StepsTyped
  <2> QED BY <1>3, <2>2, <2>3 DEF PrepareAutoImages
<1>4. CASE TruncateImage
  <2>1. config' = config /\ size[cur] \in FileSizes /\ cur \in Images
    BY <1>0, <1>4 DEF TruncateImage, FoundTyped, StepsTyped
  <2>2. UNCHANGED <<file, fs>> \/ SetFileSize({cur}, size[cur])
    BY <1>4 DEF TruncateImage
  <2> QED BY <1>0, <2>1, <2>2, SetSize DEF ImagesTyped
<1>5. CASE Mkfs
  <2>1. file[cur] \in FileSizes /\ config[cur].fs \in FileSystems
    BY <1>0, <1>5 DEF Mkfs, ImagesTyped, StepsTyped, Configs, Absent
  <2> QED BY <1>0, <1>5, <2>1 DEF Mkfs, Image, ImagesTyped, Contents, StepsTyped
<1>6. CASE Resize
  BY <1>0, <1>6 DEF Resize, ImagesTyped, FoundTyped, StepsTyped, Contents
<1>7. ASSUME NEW d \in Images, Use(d) PROVE ImagesTyped'
  BY <1>0, <1>7 DEF Use, ImagesTyped, Contents
<1>8. CASE BootEnds
  BY <1>0, <1>8, NoneTyped DEF BootEnds, Image, ImagesTyped, StepsTyped
<1>9. ASSUME NEW d \in Images, EditConfig(d) PROVE ImagesTyped'
  BY <1>0, <1>9 DEF EditConfig, ImagesTyped
<1> QED BY <1>1, <1>2, <1>3, <1>4, <1>5, <1>6, <1>7, <1>8, <1>9
     DEF Next, Boot, StartMachine, Mount, Mounted, MountFunc, vars

LEMMA FoundStep == TypeOK /\ [Next]_vars => FoundTyped'
<1> SUFFICES ASSUME TypeOK, [Next]_vars PROVE FoundTyped'
  OBVIOUS
<1>0. ImagesTyped /\ FoundTyped
  BY TypeIsGroups
<1>1. CASE UNCHANGED <<found, size, stat>>
  BY <1>0, <1>1 DEF FoundTyped
<1>2. ASSUME NEW d \in Images, PrepareDisk(d) PROVE FoundTyped'
  <2>1. Identify(d) \in Contents /\ (Identify(d).type = "none" \/ Identified(Identify(d).type))
    BY <1>0, NoneTyped DEF Identify, ImagesTyped, None
  <2>2. PICK f \in Contents : found' = [found EXCEPT ![d] = f] /\ (f.type = "none" \/ Identified(f.type))
    BY <1>2, <2>1, NoneTyped DEF PrepareDisk
  <2>3. found' \in [Images -> Contents] /\ \A e \in Images : found'[e] = IF e = d THEN f ELSE found[e]
    BY <1>0, <2>2 DEF FoundTyped
  <2>7. \A e \in Images : found'[e].type = "none" \/ Identified(found'[e].type)
    BY <1>0, <2>2, <2>3 DEF FoundTyped
  <2>4. file[d] \in FileSizes \/ ~Unset(d)
    BY <1>0 DEF ImagesTyped, Unset
  <2>5. config[d].size \in FileSizes
    BY <1>0 DEF ImagesTyped, Configs, FileSizes
  <2>6. size' \in [Images -> FileSizes] /\ stat' \in [Images -> FileSizes \union {Absent}]
    BY <1>0, <1>2, <2>4, <2>5 DEF PrepareDisk, FoundTyped, ImagesTyped
  <2> QED BY <2>3, <2>6, <2>7 DEF FoundTyped
<1>3. CASE BootEnds
  BY <1>3, NoneTyped, NumbersAreInts DEF BootEnds, FoundTyped, None
<1> QED BY <1>1, <1>2, <1>3
     DEF Next, Boot, PrepareAutoImages, StartMachine, Mkfs, Resize, TruncateImage, Mount, Mounted, MountFunc, Use,
         EditConfig, prep_vars, vars

LEMMA StepsStep == TypeOK /\ [Next]_vars => StepsTyped'
<1> SUFFICES ASSUME TypeOK, [Next]_vars PROVE StepsTyped'
  OBVIOUS
<1>0. StepsTyped
  BY TypeIsGroups
<1> QED BY <1>0 DEF StepsTyped, States, MountSteps, AfterResize, Next, Boot, PrepareDisk, PrepareAutoImages, StartMachine,
     MountFunc, Mkfs, Resize, TruncateImage, Mount, Mounted, Use, BootEnds, EditConfig, prep_vars, vars

LEMMA CountersStep == TypeOK /\ [Next]_vars => CountersTyped'
<1> SUFFICES ASSUME TypeOK, [Next]_vars PROVE CountersTyped'
  OBVIOUS
<1>0. boots \in 0 .. MaxBoots /\ edits \in 0 .. MaxEdits
  BY TypeIsGroups DEF CountersTyped
<1>1. UNCHANGED <<boots, edits>> \/ (boots < MaxBoots /\ boots' = boots + 1 /\ edits' = edits)
        \/ (edits < MaxEdits /\ edits' = edits + 1 /\ boots' = boots)
  BY DEF Next, Boot, PrepareDisk, PrepareAutoImages, StartMachine, MountFunc, Mkfs, Resize, TruncateImage, Mount,
     Mounted, Use, BootEnds, EditConfig, vars
<1> QED BY <1>0, <1>1, BoundsAssumption DEF CountersTyped

LEMMA TypesStart == Init => TypeOK
<1> SUFFICES ASSUME Init PROVE TypeOK
  OBVIOUS
<1>1. ImagesTyped
  BY NoneTyped DEF Init, ImagesTyped
<1>2. FoundTyped
  BY NoneTyped, NumbersAreInts DEF Init, FoundTyped, None
<1>3. StepsTyped
  BY DEF Init, StepsTyped, States, MountSteps
<1>4. CountersTyped
  BY BoundsAssumption DEF Init, CountersTyped
<1> QED BY <1>1, <1>2, <1>3, <1>4, TypeIsGroups

\* Whatever the sizes of the disks, the host's space and the edits between boots.
LEMMA DisksTyped == Spec => []TypeOK
<1>1. TypeOK /\ [Next]_vars => TypeOK'
  BY ImagesStep, FoundStep, StepsStep, CountersStep, TypeIsGroups
     DEF TypeOK, ImagesTyped, FoundTyped, StepsTyped, CountersTyped, States
<1> QED BY <1>1, TypesStart, PTL DEF Spec

(***************************************************************************)
(* What prepareDisks and the mount functions rely on.  A disk is Through   *)
(* once it is mounted under its configuration.                             *)
(***************************************************************************)
Prepared(d) == pc \in {"machine", "up"} \/ (pc = "prepare" /\ d \notin todo) \/ Mounting

Through(d) == pc = "up" \/ (pc = "next" /\ d \notin todo) \/ (pc \in MountSteps /\ d \notin todo /\ d # cur)

\* the configuration sets a size, and the file system can be given it
HasSize(d) == config[d].size # 0 /\ Resizable(config[d].fs)

EmptyInv == (pc = "off" => empty = {}) /\ (pc = "prepare" => empty \cap todo = {})

\* Only a disk without a size is in emptyDisks; the others are as large as they will
\* be told to be.
PreparedInv ==
  \A d \in Images : Prepared(d) =>
    IF d \in empty THEN config[d].size = 0 /\ found[d].type = "none"
    ELSE size[d] = config[d].size /\ size[d] <= file[d]

StepInv ==
  /\ pc = "format" => found[cur].type # config[cur].fs
  /\ pc \in {"attach", "resize", "truncate"} =>
       cur \notin empty /\ fs[cur].type = config[cur].fs /\ Resizable(config[cur].fs)
  /\ pc = "truncate" => fs[cur].size = size[cur]

ThroughInv == \A d \in Images : Through(d) => fs[d].type = config[d].fs

\* A disk that has come up is not formatted again, and leaves its mount function with
\* the size it should have.
SettledInv ==
  \A d \in settled :
    /\ config[d].size # 0 /\ Identified(config[d].fs) => fs[d].type = config[d].fs
    /\ HasSize(d) /\ ((Through(d) /\ pc # "up") \/ (pc = "mount" /\ d = cur)) => fs[d].size = config[d].size

DiskInv == NothingCutOff /\ EmptyInv /\ PreparedInv /\ IdentifiedInv /\ StepInv /\ ThroughInv /\ SettledInv

\* The numbers among the fields of one disk.
Numbers ==
  \A d \in Images : /\ fs[d].size \in Nat /\ found[d].size \in Nat /\ size[d] \in Nat /\ config[d].size \in Nat
                    /\ file[d] \in Int /\ (file[d] \in Nat \/ file[d] = Absent) /\ Absent \in Int /\ Absent < 0

LEMMA AreNumbers == TypeOK => Numbers
<1> SUFFICES ASSUME TypeOK, NEW d \in Images
             PROVE  /\ fs[d].size \in Nat /\ found[d].size \in Nat /\ size[d] \in Nat /\ config[d].size \in Nat
                    /\ file[d] \in Int /\ (file[d] \in Nat \/ file[d] = Absent) /\ Absent \in Int /\ Absent < 0
  BY DEF Numbers
<1>1. fs[d] \in Contents /\ found[d] \in Contents /\ config[d] \in Configs /\ size[d] \in FileSizes
      /\ file[d] \in FileSizes \union {Absent}
  BY TypeIsGroups DEF ImagesTyped, FoundTyped
<1>2. fs[d].size \in FileSizes /\ found[d].size \in FileSizes
  BY <1>1 DEF Contents
<1>3. config[d].size \in Nat
  BY <1>1, SizesAssumption DEF Configs
<1>4. fs[d].size \in Nat /\ found[d].size \in Nat /\ size[d] \in Nat
  BY <1>1, <1>2, NumbersAreInts
<1>5. file[d] \in Nat \/ file[d] = Absent
  BY <1>1, NumbersAreInts
<1>6. Absent \in Int /\ Absent < 0
  BY DEF Absent
<1> QED BY <1>3, <1>4, <1>5, <1>6

\* The disks of one image file change with SetFileSize as SetSize says.
LEMMA PrepareStep == ASSUME TypeOK, DiskInv, NEW d \in Images, PrepareDisk(d) PROVE DiskInv'
<1>0. ImagesTyped /\ FoundTyped /\ StepsTyped /\ Numbers
  BY TypeIsGroups, AreNumbers
<1>1. /\ pc = "prepare" /\ d \in todo /\ todo' = todo \ {d} /\ UNCHANGED <<pc, config, cur, mounted, settled>>
      /\ mounted = {} /\ pc \notin MountSteps
  BY <1>0 DEF PrepareDisk, StepsTyped, MountSteps
<1>2. /\ \A e \in Images \ {d} : file'[e] = file[e] /\ fs'[e] = fs[e] /\ found'[e] = found[e] /\ size'[e] = size[e]
      /\ \A e \in Images : fs'[e].type = fs[e].type /\ fs'[e].size = fs[e].size
      /\ empty \ {d} = empty' \ {d}
  <2>1. UNCHANGED <<file, fs>> \/ SetFileSize({d}, config[d].size)
    BY <1>1 DEF PrepareDisk
  <2>2. config[d].size \in FileSizes
    BY <1>0 DEF ImagesTyped, Configs, FileSizes
  <2>3. /\ \A e \in Images \ {d} : file'[e] = file[e] /\ fs'[e] = fs[e]
        /\ \A e \in Images : fs'[e].type = fs[e].type /\ fs'[e].size = fs[e].size
    BY <1>0, <2>1, <2>2, SetSize
  <2> QED BY <1>0, <2>3 DEF PrepareDisk, FoundTyped
<1>3. CASE Unset(d)
  <2>1. UNCHANGED <<file, fs>> /\ config[d].size = 0 /\ found'[d].type = "none" /\ d \in empty'
    BY <1>0, <1>3, NoneTyped DEF PrepareDisk, Unset, FoundTyped
  <2> QED BY <1>0, <1>1, <1>2, <2>1
          DEF DiskInv, NothingCutOff, EmptyInv, PreparedInv, IdentifiedInv, StepInv, ThroughInv, SettledInv, Prepared, Fresh, Through, Mounting,
              Identify
<1>4. CASE ~Unset(d)
  <2>1. empty' = empty /\ size'[d] = config[d].size /\ found'[d] = Identify(d)
    BY <1>0, <1>4 DEF PrepareDisk, FoundTyped
  <2>2. found'[d].type = Identify(d)'.type /\ found'[d].size = Identify(d)'.size
    BY <1>2, <2>1 DEF Identify
  <2>3. config[d].size <= file'[d] /\ (fs'[d].data => fs[d].size <= file'[d])
    <3>1. CASE Creates(d) \/ Grows(d)
      <4>1. SetFileSize({d}, config[d].size) /\ config[d].size \in FileSizes
        BY <1>0, <1>4, <3>1 DEF PrepareDisk, ImagesTyped, Configs, FileSizes
      <4>2. file'[d] = config[d].size /\ (fs'[d].data => fs[d].size <= config[d].size)
        <5> DEFINE D == {d}
        <5>1. D \in SUBSET Images /\ d \in D /\ SetFileSize(D, config[d].size)
          BY <4>1
        <5> HIDE DEF D
        <5> QED BY <1>0, <4>1, <5>1, SetSize
      <4> QED BY <1>0, <4>2 DEF Numbers
    <3>2. CASE ~Creates(d) /\ ~Grows(d)
      BY <1>0, <1>4, <3>2 DEF PrepareDisk, Creates, Grows, DiskInv, NothingCutOff, Numbers
    <3> QED BY <3>1, <3>2
  <2>4. d \notin empty
    BY <1>1 DEF DiskInv, EmptyInv
  <2>5. NothingCutOff' /\ EmptyInv'
    BY <1>0, <1>1, <1>2, <2>1, <2>3 DEF DiskInv, NothingCutOff, EmptyInv
  <2>6. PreparedInv'
    BY <1>0, <1>1, <1>2, <2>1, <2>3, <2>4 DEF DiskInv, PreparedInv, Prepared, Mounting
  <2>7. IdentifiedInv'
    BY <1>0, <1>1, <1>2, <2>1, <2>2 DEF DiskInv, IdentifiedInv, Fresh, Mounting, Identify, MountSteps
  <2>8. StepInv' /\ ThroughInv' /\ SettledInv'
    BY <1>0, <1>1, <1>2 DEF DiskInv, StepInv, ThroughInv, SettledInv, Through, HasSize, StepsTyped, MountSteps
  <2> QED BY <2>5, <2>6, <2>7, <2>8 DEF DiskInv
<1> QED BY <1>3, <1>4

LEMMA AutoImagesStep == ASSUME TypeOK, DiskInv, PrepareAutoImages PROVE DiskInv'
<1>0. ImagesTyped /\ FoundTyped /\ StepsTyped /\ Numbers
  BY TypeIsGroups, AreNumbers
<1>1. /\ pc = "prepare" /\ todo = {} /\ pc' = "machine" /\ todo' = todo /\ UNCHANGED <<config, cur, prep_vars, mounted, settled>>
      /\ mounted = {}
  BY <1>0 DEF PrepareAutoImages, StepsTyped, MountSteps
<1>2. /\ \A e \in Images \ empty : file'[e] = file[e] /\ fs'[e] = fs[e]
      /\ \A e \in Images : /\ fs'[e].type = fs[e].type /\ fs'[e].size = fs[e].size
                           /\ fs'[e].data => fs[e].size <= file'[e]
  <2>1. CASE UNCHANGED <<file, fs>>
    BY <2>1 DEF DiskInv, NothingCutOff
  <2>2. ASSUME NEW n \in FileSizes, SetFileSize(empty, n)
        PROVE  /\ \A e \in Images \ empty : file'[e] = file[e] /\ fs'[e] = fs[e]
               /\ \A e \in Images : /\ fs'[e].type = fs[e].type /\ fs'[e].size = fs[e].size
                                    /\ fs'[e].data => fs[e].size <= file'[e]
    <3>1. /\ \A e \in empty : file'[e] = n
          /\ \A e \in Images \ empty : file'[e] = file[e] /\ fs'[e] = fs[e]
          /\ \A e \in Images : /\ fs'[e].type = fs[e].type /\ fs'[e].size = fs[e].size
                               /\ e \in empty /\ fs'[e].data => fs[e].size <= n
      BY <1>0, <2>2, SetSize DEF StepsTyped
    <3> QED BY <3>1 DEF DiskInv, NothingCutOff
  <2>3. ASSUME empty # {}, NEW free \in Frees PROVE AutoSize(Cardinality(empty), free) \in FileSizes
    BY <1>0, <2>3, AutoSizeIsSize DEF StepsTyped
  <2> QED BY <2>1, <2>2, <2>3 DEF PrepareAutoImages
<1>3. NothingCutOff' /\ EmptyInv'
  BY <1>0, <1>1, <1>2 DEF DiskInv, NothingCutOff, EmptyInv
<1>4. PreparedInv'
  BY <1>0, <1>1, <1>2 DEF DiskInv, PreparedInv, Prepared, Mounting, prep_vars
<1>5. IdentifiedInv'
  BY <1>0, <1>1, <1>2 DEF DiskInv, IdentifiedInv, Fresh, Mounting, Identify, MountSteps, prep_vars
<1>6. StepInv' /\ ThroughInv' /\ SettledInv'
  BY <1>0, <1>1, <1>2 DEF DiskInv, StepInv, ThroughInv, SettledInv, Through, HasSize, StepsTyped, MountSteps
<1> QED BY <1>3, <1>4, <1>5, <1>6 DEF DiskInv

\* A mount function begins: a disk that has come up with its size is neither
\* formatted nor left with another size.
LEMMA MountFuncStep == ASSUME TypeOK, DiskInv, NEW d \in Images, MountFunc(d) PROVE DiskInv'
<1>0. FoundTyped /\ StepsTyped /\ Numbers
  BY TypeIsGroups, AreNumbers
<1>1. /\ pc = "next" /\ d \in todo /\ todo' = todo \ {d} /\ cur' = d
      /\ UNCHANGED <<config, file, fs, found, size, stat, empty, mounted, settled>>
  BY DEF MountFunc, disk_vars, prep_vars
<1>2. d \notin empty => found[d].type = Identify(d).type /\ found[d].size = Identify(d).size
  BY <1>1 DEF DiskInv, IdentifiedInv, Fresh, Mounting
<1>3. d \notin empty /\ Identified(found[d].type) => found[d].type = fs[d].type /\ found[d].size = fs[d].size
  BY <1>2, NoneTyped DEF Identify, Identified
<1>4. IF d \in empty THEN config[d].size = 0 /\ found[d].type = "none" ELSE size[d] = config[d].size /\ size[d] <= file[d]
  BY <1>1 DEF DiskInv, PreparedInv, Prepared, Mounting
<1>5. CASE Formats(d)
  <2>1. pc' = "format"
    BY <1>5 DEF MountFunc
  <2> QED BY <1>0, <1>1, <1>3, <1>4, <1>5, <2>1 DEF DiskInv, NothingCutOff, EmptyInv, PreparedInv, IdentifiedInv, StepInv, ThroughInv, SettledInv,
             Prepared, Fresh, Through, Mounting, MountSteps, Identify, HasSize, Formats, StepsTyped
<1>6. CASE ~Formats(d)
  <2>1. /\ pc' \in {"resize", "attach", "mount"}
        /\ pc' # "mount" => Resizes(d) /\ Resizable(config[d].fs)
        /\ pc' = "mount" => ~Resizes(d) \/ ~Resizable(config[d].fs)
    BY <1>6 DEF MountFunc, Resizable
  <2>2. NothingCutOff' /\ EmptyInv' /\ PreparedInv' /\ IdentifiedInv'
    BY <1>1, <2>1 DEF DiskInv, NothingCutOff, EmptyInv, PreparedInv, IdentifiedInv, Prepared, Fresh, Mounting, MountSteps, Identify
  <2>3. ThroughInv'
    BY <1>0, <1>1, <2>1 DEF DiskInv, ThroughInv, Through, MountSteps
  <2>4. Resizable(config[d].fs) => d \notin empty /\ found[d].type = fs[d].type /\ found[d].size = fs[d].size /\ fs[d].type = config[d].fs
    BY <1>3, <1>4, <1>6 DEF Formats, Resizable, Identified
  <2>5. StepInv'
    BY <1>1, <2>1, <2>4 DEF DiskInv, StepInv
  <2>6. SettledInv'
    BY <1>0, <1>1, <1>4, <2>1, <2>4 DEF DiskInv, SettledInv, HasSize, Through, MountSteps, Resizes
  <2> QED BY <2>2, <2>3, <2>5, <2>6 DEF DiskInv
<1> QED BY <1>5, <1>6

\* What is done to the disk whose mount function runs leaves the others alone.
LEMMA OthersStep ==
  ASSUME TypeOK, DiskInv, pc \in MountSteps, pc' \in MountSteps \union {"next"}, pc' # "format",
         UNCHANGED <<config, cur, todo, found, size, empty, settled>>,
         \A d \in Images \ {cur} : file'[d] = file[d] /\ fs'[d] = fs[d],
         mounted' \subseteq mounted \union {cur},
         cur \in mounted' \/ fs'[cur].data => fs'[cur].size <= file'[cur],
         cur \in empty \/ size[cur] <= file'[cur],
         pc' # "mount" => fs'[cur].type = config[cur].fs,
         cur \in settled /\ config[cur].size # 0 /\ Identified(config[cur].fs) => fs'[cur].type = config[cur].fs,
         cur \in settled /\ HasSize(cur) /\ pc' \in {"next", "mount"} => fs'[cur].size = config[cur].size
  PROVE  NothingCutOff' /\ EmptyInv' /\ PreparedInv' /\ IdentifiedInv' /\ ThroughInv' /\ SettledInv'
<1>0. StepsTyped
  BY TypeIsGroups
<1>1. pc \notin {"off", "prepare", "machine", "up", "next"} /\ pc' \notin {"off", "prepare", "machine", "up"}
      /\ cur \notin todo /\ cur \in Images /\ settled \subseteq Images
  BY <1>0 DEF MountSteps, StepsTyped
<1>2. NothingCutOff' /\ EmptyInv'
  BY <1>1 DEF DiskInv, NothingCutOff, EmptyInv
<1>3. PreparedInv'
  BY <1>1 DEF DiskInv, PreparedInv, Prepared, Mounting
<1>4. IdentifiedInv'
  BY <1>1 DEF DiskInv, IdentifiedInv, Fresh, Mounting, Identify
<1>5. ThroughInv'
  BY <1>1 DEF DiskInv, ThroughInv, Through
<1>6. SettledInv'
  <2> SUFFICES ASSUME NEW d \in settled
               PROVE  /\ config[d].size # 0 /\ Identified(config[d].fs) => fs'[d].type = config[d].fs
                      /\ HasSize(d) /\ ((Through(d)' /\ pc' # "up") \/ (pc' = "mount" /\ d = cur)) => fs'[d].size = config[d].size
    BY DEF SettledInv, HasSize
  <2>1. CASE d = cur
    <3>1. Through(d)' /\ pc' # "up" => pc' = "next"
      BY <1>1, <2>1 DEF Through
    <3> QED BY <1>1, <2>1, <3>1
  <2>2. CASE d # cur
    <3>1. fs'[d] = fs[d] /\ (Through(d)' => Through(d))
      BY <1>1, <2>2 DEF Through
    <3> QED BY <1>1, <2>2, <3>1 DEF DiskInv, SettledInv
  <2> QED BY <2>1, <2>2
<1> QED BY <1>2, <1>3, <1>4, <1>5, <1>6

LEMMA MkfsStep == ASSUME TypeOK, DiskInv, Mkfs PROVE DiskInv'
<1>0. ImagesTyped /\ StepsTyped /\ Numbers
  BY TypeIsGroups, AreNumbers
<1>1. /\ pc = "format" /\ pc' = "mount" /\ UNCHANGED <<config, file, cur, todo, found, size, empty, mounted, settled>>
      /\ fs' = [fs EXCEPT ![cur] = [type |-> config[cur].fs, size |-> file[cur], data |-> FALSE]]
  BY DEF Mkfs, Image, prep_vars
<1>2. fs'[cur].type = config[cur].fs /\ fs'[cur].size = file[cur] /\ ~fs'[cur].data
      /\ \A d \in Images \ {cur} : fs'[d] = fs[d]
  BY <1>0, <1>1 DEF ImagesTyped, StepsTyped
<1>3. found[cur].type # config[cur].fs /\ (cur \notin empty => found[cur].type = Identify(cur).type)
  BY <1>0, <1>1 DEF DiskInv, StepInv, IdentifiedInv, Fresh, StepsTyped
<1>4. IF cur \in empty THEN config[cur].size = 0 ELSE size[cur] <= file[cur]
  BY <1>0, <1>1 DEF DiskInv, PreparedInv, Prepared, Mounting, MountSteps, StepsTyped
<1>5. cur \in settled => config[cur].size = 0 \/ ~Identified(config[cur].fs)
  BY <1>3, <1>4 DEF DiskInv, SettledInv, Identify
<1>6. NothingCutOff' /\ EmptyInv' /\ PreparedInv' /\ IdentifiedInv' /\ ThroughInv' /\ SettledInv'
  <2>1. cur \in mounted' \/ fs'[cur].data => fs'[cur].size <= file'[cur]
    BY <1>0, <1>1, <1>2 DEF Numbers, StepsTyped
  <2>2. HasSize(cur) => Identified(config[cur].fs) /\ config[cur].size # 0
    BY DEF HasSize, Resizable, Identified
  <2> QED BY <1>1, <1>2, <1>4, <1>5, <2>1, <2>2, OthersStep DEF MountSteps
<1>7. StepInv'
  BY <1>1 DEF StepInv
<1> QED BY <1>6, <1>7 DEF DiskInv

LEMMA ResizeStep == ASSUME TypeOK, DiskInv, Resize PROVE DiskInv'
<1>0. ImagesTyped /\ StepsTyped /\ Numbers
  BY TypeIsGroups, AreNumbers
<1>1. /\ pc = "resize" /\ pc' = "truncate" /\ UNCHANGED <<config, file, cur, todo, found, size, empty, mounted, settled>>
      /\ fs' = [fs EXCEPT ![cur].size = size[cur]]
  BY DEF Resize, prep_vars
<1>2. fs'[cur].type = fs[cur].type /\ fs'[cur].size = size[cur] /\ \A d \in Images \ {cur} : fs'[d] = fs[d]
  BY <1>0, <1>1 DEF ImagesTyped, StepsTyped, Contents
<1>3. cur \notin empty /\ fs[cur].type = config[cur].fs /\ Resizable(config[cur].fs)
  BY <1>1 DEF DiskInv, StepInv
<1>4. size[cur] = config[cur].size /\ size[cur] <= file[cur]
  BY <1>0, <1>1, <1>3 DEF DiskInv, PreparedInv, Prepared, Mounting, MountSteps, StepsTyped
<1>5. NothingCutOff' /\ EmptyInv' /\ PreparedInv' /\ IdentifiedInv' /\ ThroughInv' /\ SettledInv'
  BY <1>1, <1>2, <1>3, <1>4, OthersStep DEF MountSteps
<1>6. StepInv'
  BY <1>1, <1>2, <1>3 DEF StepInv
<1> QED BY <1>5, <1>6 DEF DiskInv

LEMMA TruncateStep == ASSUME TypeOK, DiskInv, TruncateImage PROVE DiskInv'
<1>0. ImagesTyped /\ FoundTyped /\ StepsTyped /\ Numbers
  BY TypeIsGroups, AreNumbers
<1>1. /\ pc = "truncate" /\ pc' \in {"next", "mount"} /\ UNCHANGED <<config, cur, todo, found, size, empty, mounted, settled>>
      /\ UNCHANGED <<file, fs>> \/ SetFileSize({cur}, size[cur])
  BY DEF TruncateImage, AfterResize, prep_vars
<1>2. cur \notin empty /\ fs[cur].type = config[cur].fs /\ fs[cur].size = size[cur]
  BY <1>1 DEF DiskInv, StepInv
<1>3. size[cur] = config[cur].size /\ size[cur] <= file[cur]
  BY <1>0, <1>1, <1>2 DEF DiskInv, PreparedInv, Prepared, Mounting, MountSteps, StepsTyped
<1>4. /\ \A d \in Images \ {cur} : file'[d] = file[d] /\ fs'[d] = fs[d]
      /\ fs'[cur].type = fs[cur].type /\ fs'[cur].size = fs[cur].size /\ size[cur] <= file'[cur]
  <2>1. CASE UNCHANGED <<file, fs>>
    BY <1>3, <2>1
  <2>2. CASE SetFileSize({cur}, size[cur])
    <3> DEFINE D == {cur}
    <3>1. D \in SUBSET Images /\ cur \in D /\ SetFileSize(D, size[cur]) /\ size[cur] \in FileSizes /\ cur \in Images
          /\ \A d \in Images \ {cur} : d \notin D
      BY <1>0, <2>2 DEF StepsTyped, FoundTyped
    <3> HIDE DEF D
    <3>2. /\ file'[cur] = size[cur] /\ fs'[cur].type = fs[cur].type /\ fs'[cur].size = fs[cur].size
          /\ \A d \in Images \ D : file'[d] = file[d] /\ fs'[d] = fs[d]
      BY <1>0, <3>1, SetSize
    <3> QED BY <1>0, <3>1, <3>2 DEF Numbers
  <2> QED BY <1>1, <2>1, <2>2
<1>5. NothingCutOff' /\ EmptyInv' /\ PreparedInv' /\ IdentifiedInv' /\ ThroughInv' /\ SettledInv'
  BY <1>1, <1>2, <1>3, <1>4, OthersStep DEF MountSteps
<1>6. StepInv'
  BY <1>1 DEF StepInv
<1> QED BY <1>5, <1>6 DEF DiskInv

LEMMA MountStep == ASSUME TypeOK, DiskInv, Mount PROVE DiskInv'
<1>0. StepsTyped /\ Numbers
  BY TypeIsGroups, AreNumbers
<1>1. /\ pc \in {"attach", "mount"} /\ pc' = (IF pc = "attach" THEN "resize" ELSE "next")
      /\ UNCHANGED <<config, file, fs, cur, todo, found, size, empty, settled>> /\ mounted' = mounted \union {cur}
      /\ fs[cur].type = config[cur].fs /\ fs[cur].size <= file[cur]
  BY DEF Mount, disk_vars, prep_vars
<1>2. cur \in empty \/ size[cur] <= file[cur]
  BY <1>0, <1>1 DEF DiskInv, PreparedInv, Prepared, Mounting, MountSteps, StepsTyped
<1>3. cur \in settled /\ HasSize(cur) /\ pc' = "next" => fs[cur].size = config[cur].size
  BY <1>1 DEF DiskInv, SettledInv
<1>4. NothingCutOff' /\ EmptyInv' /\ PreparedInv' /\ IdentifiedInv' /\ ThroughInv' /\ SettledInv'
  BY <1>1, <1>2, <1>3, OthersStep DEF MountSteps
<1>5. StepInv'
  BY <1>1 DEF DiskInv, StepInv
<1> QED BY <1>4, <1>5 DEF DiskInv

LEMMA BootStep == ASSUME TypeOK, DiskInv, Boot \/ StartMachine \/ Mounted PROVE DiskInv'
<1>0. StepsTyped
  BY TypeIsGroups
<1>1. CASE Boot
  <2>1. /\ pc = "off" /\ pc' = "prepare" /\ todo' = Images /\ empty = {}
        /\ UNCHANGED <<config, file, fs, cur, found, size, empty, mounted, settled>>
    BY <1>1 DEF Boot, DiskInv, EmptyInv, disk_vars, prep_vars
  <2> QED BY <1>0, <2>1 DEF DiskInv, NothingCutOff, EmptyInv, PreparedInv, IdentifiedInv, StepInv, ThroughInv, SettledInv,
             Prepared, Fresh, Through, Mounting, MountSteps, HasSize, StepsTyped
<1>2. CASE StartMachine
  <2>1. /\ pc = "machine" /\ pc' = "next" /\ todo' = Images
        /\ UNCHANGED <<config, file, fs, cur, found, size, empty, mounted, settled>>
    BY <1>2 DEF StartMachine, disk_vars, prep_vars
  <2> QED BY <1>0, <2>1 DEF DiskInv, NothingCutOff, EmptyInv, PreparedInv, IdentifiedInv, StepInv, ThroughInv, SettledInv,
             Prepared, Fresh, Through, Mounting, MountSteps, Identify, HasSize, StepsTyped
<1>3. CASE Mounted
  <2>1. /\ pc = "next" /\ pc' = "up" /\ todo = {} /\ settled' = Images
        /\ UNCHANGED <<config, file, fs, cur, todo, found, size, empty, mounted>>
    BY <1>3 DEF Mounted, disk_vars, prep_vars
  <2> QED BY <2>1 DEF DiskInv, NothingCutOff, EmptyInv, PreparedInv, IdentifiedInv, StepInv, ThroughInv, SettledInv,
             Prepared, Fresh, Through, Mounting, MountSteps
<1> QED BY <1>1, <1>2, <1>3

LEMMA UserStep == ASSUME TypeOK, DiskInv, NEW d \in Images, Use(d) \/ EditConfig(d) PROVE DiskInv'
<1>0. StepsTyped /\ ImagesTyped
  BY TypeIsGroups
<1>1. CASE Use(d)
  <2>1. /\ pc = "up" /\ d \in mounted /\ UNCHANGED <<pc, config, file, cur, todo, found, size, empty, mounted, settled>>
        /\ fs' = [fs EXCEPT ![d].data = TRUE]
    BY <1>1 DEF Use, prep_vars
  <2>2. \A e \in Images : fs'[e].type = fs[e].type /\ fs'[e].size = fs[e].size /\ (e # d => fs'[e] = fs[e])
    BY <1>0, <2>1 DEF ImagesTyped, Contents
  <2>3. NothingCutOff'
    BY <2>1, <2>2 DEF DiskInv, NothingCutOff
  <2> QED BY <1>0, <2>1, <2>2, <2>3 DEF DiskInv, EmptyInv, PreparedInv, IdentifiedInv, StepInv, ThroughInv, SettledInv,
             Prepared, Fresh, Through, Mounting, MountSteps, HasSize, StepsTyped
<1>2. CASE EditConfig(d)
  <2>1. /\ pc = "off" /\ UNCHANGED <<pc, file, fs, cur, todo, found, size, empty, mounted>> /\ settled' = settled \ {d}
        /\ \A e \in Images \ {d} : config'[e] = config[e]
    BY <1>0, <1>2 DEF EditConfig, ImagesTyped, prep_vars
  <2> QED BY <1>0, <2>1 DEF DiskInv, NothingCutOff, EmptyInv, PreparedInv, IdentifiedInv, StepInv, ThroughInv, SettledInv,
             Prepared, Fresh, Through, Mounting, MountSteps, HasSize, StepsTyped
<1> QED BY <1>1, <1>2

\* A boot ends, at worst in mkfs, which a disk that came up does not reach.
LEMMA EndStep == ASSUME TypeOK, DiskInv, BootEnds PROVE DiskInv'
<1>0. StepsTyped /\ ImagesTyped
  BY TypeIsGroups
<1>1. /\ pc' = "off" /\ mounted' = {} /\ todo' = {} /\ empty' = {} /\ UNCHANGED <<config, file, cur, settled>>
  BY DEF BootEnds
<1>2. ASSUME NEW d \in Images, fs'[d] # fs[d]
      PROVE  d = cur /\ ~fs'[d].data /\ (d \in settled => config[d].size = 0 \/ ~Identified(config[d].fs))
  <2>1. pc = "format" /\ Image(cur, None)
    BY <1>2 DEF BootEnds
  <2>2. d = cur /\ fs'[d] = None
    BY <1>0, <1>2, <2>1 DEF Image, ImagesTyped, StepsTyped
  <2>3. ~None.data
    BY DEF None
  <2>4. found[cur].type # config[cur].fs /\ (cur \notin empty => found[cur].type = Identify(cur).type)
    BY <1>0, <2>1 DEF DiskInv, StepInv, IdentifiedInv, Fresh, StepsTyped
  <2>5. cur \in empty => config[cur].size = 0
    BY <1>0, <2>1 DEF DiskInv, PreparedInv, Prepared, Mounting, MountSteps, StepsTyped
  <2>6. cur \in settled => config[cur].size = 0 \/ ~Identified(config[cur].fs)
    BY <2>4, <2>5 DEF DiskInv, SettledInv, Identify
  <2> QED BY <2>2, <2>3, <2>6
<1>3. NothingCutOff' /\ EmptyInv'
  BY <1>1, <1>2 DEF DiskInv, NothingCutOff, EmptyInv
<1>4. PreparedInv' /\ IdentifiedInv' /\ StepInv' /\ ThroughInv'
  BY <1>1 DEF PreparedInv, IdentifiedInv, StepInv, ThroughInv, Prepared, Fresh, Through, Mounting, MountSteps
<1>5. SettledInv'
  BY <1>0, <1>1, <1>2 DEF DiskInv, SettledInv, Through, HasSize, Resizable, Identified, StepsTyped, MountSteps
<1> QED BY <1>3, <1>4, <1>5 DEF DiskInv

LEMMA DiskStep == TypeOK /\ DiskInv /\ [Next]_vars => DiskInv'
<1> SUFFICES ASSUME TypeOK, DiskInv, [Next]_vars PROVE DiskInv'
  OBVIOUS
<1>1. CASE UNCHANGED vars
  BY <1>1 DEF vars, disk_vars, prep_vars, DiskInv, NothingCutOff, EmptyInv, PreparedInv, IdentifiedInv, StepInv, ThroughInv, SettledInv,
     Prepared, Fresh, Through, Mounting, Identify, HasSize
<1> QED BY <1>1, PrepareStep, AutoImagesStep, MountFuncStep, MkfsStep, ResizeStep, TruncateStep, MountStep, BootStep,
     UserStep, EndStep DEF Next

LEMMA DiskStart == Init => DiskInv
<1> SUFFICES ASSUME Init PROVE DiskInv
  OBVIOUS
<1>1. /\ pc = "off" /\ empty = {} /\ mounted = {} /\ settled = {} /\ todo = {}
      /\ \A d \in Images : fs[d] = None
  BY DEF Init
<1>2. ~None.data
  BY DEF None
<1> QED BY <1>1, <1>2 DEF DiskInv, NothingCutOff, EmptyInv, PreparedInv, IdentifiedInv, StepInv, ThroughInv, SettledInv,
     Prepared, Fresh, Through, Mounting, MountSteps

LEMMA DisksInvariance == Spec => [](TypeOK /\ DiskInv)
<1>1. TypeOK /\ DiskInv /\ [Next]_vars => DiskInv'
  BY DiskStep
<1> QED BY <1>1, DisksTyped, DiskStart, PTL DEF Spec

\* However the sizes are edited and wherever a boot breaks off, between the resizing
\* of a file system in the guest and that of its image on the host: what is mounted,
\* and what has the user's data, is within its image; and a mount function finds the
\* file system that was identified.
THEOREM DisksCorrect == Spec => []DisksInv
<1>1. TypeOK /\ DiskInv => DisksInv
  BY DEF DiskInv, DisksInv
<1> QED BY <1>1, DisksInvariance, PTL

\* Which steps lose the user's data: a format, and the sizing of emptyDisks.
LEMMA LossStep ==
  ASSUME TypeOK, DiskInv, [Next]_vars, NEW d \in Images, Loses(d)
  PROVE  config[d].fs # fs[d].type \/ ~Identified(fs[d].type) \/ config[d].size = 0
<1>0. ImagesTyped /\ FoundTyped /\ StepsTyped /\ Numbers
  BY TypeIsGroups, AreNumbers
<1>1. fs'[d] # fs[d] /\ fs[d].data /\ ~fs'[d].data
  BY DEF Loses
<1>2. fs[d].size <= file[d]
  BY <1>1 DEF DiskInv, NothingCutOff
<1>3. CASE Mkfs \/ BootEnds
  <2>1. pc = "format" /\ d = cur
    BY <1>0, <1>1, <1>3 DEF Mkfs, BootEnds, Image, ImagesTyped, StepsTyped
  <2>2. found[d].type # config[d].fs /\ (d \notin empty => found[d].type = Identify(d).type)
    BY <2>1 DEF DiskInv, StepInv, IdentifiedInv, Fresh
  <2>3. d \in empty => config[d].size = 0
    BY <2>1 DEF DiskInv, PreparedInv, Prepared, Mounting, MountSteps
  <2> QED BY <2>2, <2>3 DEF Identify
<1>4. ASSUME NEW e \in Images, PrepareDisk(e) PROVE FALSE
  <2>1. ~Unset(e) /\ (Creates(e) \/ Grows(e)) /\ SetFileSize({e}, config[e].size) /\ config[e].size \in FileSizes
    BY <1>0, <1>1, <1>4 DEF PrepareDisk, ImagesTyped, Configs, FileSizes
  <2>2. d \in {e} /\ fs[d].size > config[e].size
    BY <1>1, <2>1 DEF SetFileSize
  <2> QED BY <1>0, <1>2, <2>1, <2>2 DEF Creates, Grows, Numbers
<1>5. CASE PrepareAutoImages
  <2>1. PICK free \in Frees : empty # {} /\ SetFileSize(empty, AutoSize(Cardinality(empty), free))
    BY <1>1, <1>5 DEF PrepareAutoImages
  <2>2. d \in empty
    BY <1>1, <2>1 DEF SetFileSize
  <2> QED BY <1>5, <2>2 DEF PrepareAutoImages, DiskInv, PreparedInv, Prepared, EmptyInv
<1>6. CASE TruncateImage
  <2>1. SetFileSize({cur}, size[cur]) /\ size[cur] \in FileSizes /\ cur \in Images
    BY <1>0, <1>1, <1>6 DEF TruncateImage, FoundTyped, StepsTyped
  <2>2. d \in {cur} /\ fs[d].size > size[cur]
    BY <1>1, <2>1 DEF SetFileSize
  <2> QED BY <1>0, <1>6, <2>2 DEF TruncateImage, DiskInv, StepInv, Numbers
<1>7. CASE Resize
  <2>1. fs'[d].data = fs[d].data
    BY <1>0, <1>7 DEF Resize, ImagesTyped, StepsTyped, Contents
  <2> QED BY <1>1, <2>1
<1>8. ASSUME NEW e \in Images, Use(e) PROVE FALSE
  <2>1. d = e => fs'[d].data
    BY <1>0, <1>8 DEF Use, ImagesTyped, Contents
  <2>2. d # e => fs'[d] = fs[d]
    BY <1>0, <1>8 DEF Use, ImagesTyped
  <2> QED BY <1>1, <2>1, <2>2
<1> QED BY <1>1, <1>3, <1>4, <1>5, <1>6, <1>7, <1>8
     DEF Next, Boot, StartMachine, Mount, Mounted, MountFunc, EditConfig, disk_vars, vars

\* The data of any user, on any disks: it survives whatever boots break off where,
\* and however the sizes are edited, but for what DataKept names.
THEOREM DataCorrect == Spec => DataKept
<1>1. TypeOK /\ DiskInv /\ [Next]_vars =>
        [\A d \in Images : Loses(d) =>
           config[d].fs # fs[d].type \/ ~Identified(fs[d].type) \/ config[d].size = 0]_vars
  BY LossStep
<1> QED BY <1>1, DisksInvariance, PTL DEF Spec, DataKept

\* A disk that comes up under a configuration for the second time has its size, for
\* any sizes and whatever boots broke off in between.
THEOREM SizesCorrect == Spec => AgainAsConfigured
<1>1. TypeOK /\ DiskInv /\ [Next]_vars =>
        [pc = "next" /\ pc' = "up" =>
           \A d \in settled : config[d].size # 0 /\ Resizable(config[d].fs)
             => fs[d].type = config[d].fs /\ fs[d].size = config[d].size]_vars
  <2> SUFFICES ASSUME TypeOK, DiskInv, [Next]_vars, pc = "next", pc' = "up", NEW d \in settled,
                      config[d].size # 0, Resizable(config[d].fs)
               PROVE  fs[d].type = config[d].fs /\ fs[d].size = config[d].size
    OBVIOUS
  <2>1. todo = {}
    BY DEF Next, Boot, PrepareDisk, PrepareAutoImages, StartMachine, MountFunc, Mkfs, Resize, TruncateImage, Mount,
       Mounted, Use, BootEnds, EditConfig, vars
  <2> QED BY <2>1 DEF DiskInv, SettledInv, Through, HasSize, Resizable, Identified
<1> QED BY <1>1, DisksInvariance, PTL DEF Spec, AgainAsConfigured
===============================================================================
