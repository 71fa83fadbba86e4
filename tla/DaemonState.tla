----------------------------- MODULE DaemonState -----------------------------
(***************************************************************************)
(* The daemon's state file (internal/host/vmstate.go) and the two users of *)
(* it: RunDaemon, which opens it and announces "stopping" and "stopped",   *)
(* and VirtualMachine.Start, which takes the MAC address and the machine   *)
(* identifier of the virtual machine from it or generates them.            *)
(*                                                                         *)
(* Sessions of the daemon follow one another.  A session may crash at any  *)
(* step; only the file survives.  The goroutine of OpenDaemonState writes  *)
(* the file with os.WriteFile, which truncates it and then writes it, and  *)
(* may fail in either half.                                                *)
(*                                                                         *)
(* The bytes of the file are [kind, st]: "json" is the encoding of st,     *)
(* "empty" a missing or empty file and "torn" a strict prefix of some      *)
(* encoding, neither of which decodes.  Addresses and identifiers are      *)
(* numbers, 0 the empty one; every generated one is new.  The identifier   *)
(* Bad is bytes the framework cannot parse, in a file the daemon finds.    *)
(***************************************************************************)
EXTENDS Naturals, Sequences

CONSTANTS MaxSessions,  \* bound: sessions of the daemon that are explored
          IPs           \* addresses DHCP may give the guest

ASSUME SessionsAssumption == MaxSessions \in Nat \ {0}
ASSUME IPsAssumption == IPs \subseteq Nat \ {0}

VARIABLES
  file,      \* the bytes on disk
  pc,        \* where RunDaemon is
  boot,      \* the DaemonState that RunDaemon and Start pass along
  booted,    \* Start has sent boot on the state channel
  ch, open,  \* the state channel: queued updates, not yet closed. Its buffer of 10
             \* never fills: a session sends at most three
  mem,       \* the writer goroutine's state
  bs,        \* the writer goroutine's bs
  wpc,       \* where the writer goroutine is
  intact,    \* no write failed in this session
  fresh,     \* the last address or identifier that was generated
  session,   \* number of the session
  prev       \* the state of the last machine that booted, if nothing failed since

session_vars == <<pc, boot, booted, session, fresh, prev>>
chan_vars    == <<ch, open>>
writer_vars  == <<mem, bs, wpc, intact>>
vars == <<file, session_vars, chan_vars, writer_vars>>

Bad == 1

Statuses == {"", "stopping", "stopped"}
Zero == [status |-> "", mac |-> 0, mid |-> 0, ip |-> 0]
Update(s) == [Zero EXCEPT !.status = s]

DaemonStates == [status : Statuses, mac : Nat, mid : Nat, ip : {0} \union IPs]
Kinds == {"empty", "torn", "json"}
Contents == [kind : Kinds, st : DaemonStates]

Empty     == [kind |-> "empty", st |-> Zero]
Torn      == [kind |-> "torn", st |-> Zero]
Encode(s) == [kind |-> "json", st |-> s]
DecodeNothing(c) == Zero
Decode(c) == c.st   \* the error of json.Unmarshal is ignored

TypeOK ==
  /\ file \in Contents /\ bs \in Contents
  /\ \A c \in {file, bs} : c.kind # "json" => c.st = Zero
  /\ pc \in {"down", "opened", "identified", "running", "stopping", "closing"}
  /\ boot \in DaemonStates /\ mem \in DaemonStates
  /\ ch \in Seq(DaemonStates)
  /\ wpc \in {"none", "recv", "truncate", "write"}
  /\ booted \in BOOLEAN /\ open \in BOOLEAN /\ intact \in BOOLEAN
  /\ fresh \in Nat /\ session \in 0 .. MaxSessions /\ prev \in DaemonStates

Init ==
  /\ file \in {Empty, Encode([Zero EXCEPT !.mid = Bad])} /\ bs = Empty
  /\ pc = "down" /\ boot = Zero /\ booted = FALSE
  /\ ch = <<>> /\ open = FALSE
  /\ mem = Zero /\ wpc = "none" /\ intact = TRUE
  /\ fresh = Bad /\ session = 0 /\ prev = Zero

(***************************************************************************)
(* The main goroutine.                                                     *)
(***************************************************************************)
OpenDaemonState ==
  /\ pc = "down" /\ session < MaxSessions
  /\ session' = session + 1
  /\ pc' = "opened"
  /\ boot' = Decode(file) /\ mem' = Decode(file) /\ bs' = file
  /\ booted' = FALSE /\ intact' = TRUE
  /\ ch' = <<>> /\ open' = TRUE /\ wpc' = "recv"
  /\ UNCHANGED <<file, fresh, prev>>

Parses(mid) == mid \notin {0, Bad}

\* setupVMBase: an identifier of the file that parses is kept; generating one
\* may fail, and then the machine boots without and the bytes stay
MachineIDs(s) == IF Parses(s.mid) THEN {s.mid} ELSE {s.mid, fresh + 1}

\* setupVMNetwork: an address of the file is kept
MACAddress(s) == IF s.mac # 0 THEN s.mac ELSE fresh + 2

Identify ==
  /\ pc = "opened"
  /\ \E id \in MachineIDs(boot) :
       boot' = [boot EXCEPT !.mid = id, !.mac = MACAddress(boot)]
  /\ fresh' = fresh + 2
  /\ pc' = "identified"
  /\ UNCHANGED <<file, booted, session, prev, chan_vars, writer_vars>>

\* its update is the state Start was given, completed: the status is still the
\* one of the file
StartSucceeds ==
  /\ pc = "identified"
  /\ \E ip \in IPs :
       LET s == [boot EXCEPT !.ip = ip] IN
       /\ boot' = s
       /\ ch' = Append(ch, s)
  /\ booted' = TRUE
  /\ pc' = "running"
  /\ UNCHANGED <<file, session, fresh, prev, open, writer_vars>>

\* Start fails before or after it chose an identity, or LaunchService fails
StartFails ==
  /\ pc \in {"opened", "identified", "running"}
  /\ pc' = "stopping"
  /\ UNCHANGED <<file, boot, booted, session, fresh, prev, chan_vars, writer_vars>>

\* a signal or the idle timeout ends the loop over sigCh
StopRequested ==
  /\ pc = "running"
  /\ ch' = Append(ch, Update("stopping"))
  /\ pc' = "stopping"
  /\ UNCHANGED <<file, boot, booted, session, fresh, prev, open, writer_vars>>

LeaveOpen == TRUE
AfterLastUpdate == FALSE
\* the deferred function: the last update, close(stateCh), then <-done
DeferredStop ==
  /\ pc = "stopping"
  /\ ch' = Append(ch, Update("stopped"))
  /\ open' = AfterLastUpdate
  /\ pc' = "closing"
  /\ UNCHANGED <<file, boot, booted, session, fresh, prev, writer_vars>>

\* the writer has closed done
Exit ==
  /\ pc = "closing" /\ wpc = "none"
  /\ pc' = "down"
  /\ prev' = IF ~intact THEN Zero ELSE IF booted THEN boot ELSE prev
  /\ UNCHANGED <<file, boot, booted, session, fresh, chan_vars, writer_vars>>

(***************************************************************************)
(* The writer goroutine.                                                   *)
(***************************************************************************)
MergeAll(s, u) == [u EXCEPT !.status = IF u.status # "" THEN u.status ELSE s.status]

\* a field that is empty in the update keeps its value
Merge(s, u) ==
  [status |-> IF u.status # "" THEN u.status ELSE s.status,
   mac    |-> IF u.mac # 0 THEN u.mac ELSE s.mac,
   mid    |-> IF u.mid # 0 THEN u.mid ELSE s.mid,
   ip     |-> IF u.ip # 0 THEN u.ip ELSE s.ip]

Receive ==
  /\ wpc = "recv" /\ ch # <<>>
  /\ mem' = Merge(mem, Head(ch))
  /\ ch' = Tail(ch)
  /\ wpc' = IF bs = Encode(mem') THEN "recv" ELSE "truncate"
  /\ UNCHANGED <<file, bs, intact, open, session_vars>>

WriterEnds ==
  /\ wpc = "recv" /\ ch = <<>> /\ ~open
  /\ wpc' = "none"
  /\ UNCHANGED <<file, mem, bs, intact, chan_vars, session_vars>>

Truncate ==
  /\ wpc = "truncate"
  /\ file' = Empty
  /\ wpc' = "write"
  /\ UNCHANGED <<mem, bs, intact, chan_vars, session_vars>>

\* what os.WriteFile is given: the bytes that were read or written last
Payload == bs

Write ==
  /\ wpc = "write"
  /\ file' = Payload
  /\ bs' = Encode(mem)
  /\ wpc' = "recv"
  /\ UNCHANGED <<mem, intact, chan_vars, session_vars>>

\* the file cannot be opened, or cannot be written after it was truncated
WriteFails ==
  /\ \/ wpc = "truncate" /\ file' = file
     \/ wpc = "write" /\ file' \in {Empty, Torn}
  /\ wpc' = "recv" /\ intact' = FALSE
  /\ UNCHANGED <<mem, bs, chan_vars, session_vars>>

(***************************************************************************)
(* The process dies: the file stays as it is, or torn inside a write.      *)
(***************************************************************************)
Crash ==
  /\ pc # "down"
  /\ pc' = "down" /\ wpc' = "none" /\ ch' = <<>> /\ open' = FALSE
  /\ file' \in IF wpc = "write" THEN {file, Torn} ELSE {file}
  /\ intact' = FALSE /\ prev' = Zero
  /\ UNCHANGED <<boot, booted, session, fresh, mem, bs>>

Main == \/ OpenDaemonState \/ Identify \/ StartSucceeds \/ StartFails
        \/ StopRequested \/ DeferredStop \/ Exit
Writer == Receive \/ WriterEnds \/ Truncate \/ Write \/ WriteFails

Next == Main \/ Writer \/ Crash

\* goroutines that can run do run; svc.Wait before the deferred stop may block
Spec == Init /\ [][Next]_vars /\ WF_vars(Writer) /\ WF_vars(Exit)

(***************************************************************************)
(* Properties.                                                             *)
(***************************************************************************)
Keeps(s, old) == /\ old.mac # 0 => s.mac = old.mac
                 /\ Parses(old.mid) => s.mid = old.mid

\* While a machine runs under an address and an identifier, the file holds
\* those or none: whatever was read, queued, merged, truncated or written
\* late, by this session or one that crashed, never those of another machine.
IdentityAgrees == pc \in {"identified", "running"} => Keeps(boot, file.st)

\* A machine that booted and stopped cleanly comes back with its identity,
\* even after sessions that failed to start: the updates "stopping" and
\* "stopped", which carry no identity, must not drop it from the file.
CleanStopKeeps == pc \in {"identified", "running"} => Keeps(boot, prev)

\* A restart finds the machine it left, or none. (And all of it is well typed.)
RestartKeepsIdentity == TypeOK /\ IdentityAgrees /\ CleanStopKeeps

\* From one session to the next the identity is kept, or lost and chosen anew:
\* every step of the daemon, of its writer and of a crash is one that
\* MachineIdentity allows, seen through the identities that the file and the
\* session's state hold.
IdentityOf(s) == [mac |-> s.mac, mid |-> IF Parses(s.mid) THEN s.mid ELSE 0]

Identity == INSTANCE MachineIdentity WITH
              stored <- IdentityOf(file.st),
              active <- pc # "down",
              used <- IF pc = "down" THEN IdentityOf(Zero) ELSE IdentityOf(boot)

OneIdentity == Identity!Spec

\* The deferred wait for the writer ends: the daemon exits.
ExitCompletes == pc = "closing" ~> pc = "down"
=============================================================================
