------------------------------ MODULE DaemonLife ------------------------------
(***************************************************************************)
(* What the users of the docker socket see of the daemon's end: it stops   *)
(* at the request of a signal, or when it has been idle, that is, when no  *)
(* client is let in; and once it is idle it lets none in.  It knows of no  *)
(* latch, timer, channel or proxy.                                         *)
(*                                                                         *)
(* IdleStop implements this.                                               *)
(***************************************************************************)
EXTENDS Naturals

CONSTANT Clients

VARIABLES
  life,    \* "up", "asked" to stop, "idle", or over: "exit" or "panic"
  at,      \* where each client is: "out", "in" or "left"
  signals  \* sent so far

life_vars == <<life, at, signals>>

Init == life = "up" /\ at = [c \in Clients |-> "out"] /\ signals = 0

Admit(c) ==
  /\ life \in {"up", "asked"} /\ at[c] = "out"
  /\ at' = [at EXCEPT ![c] = "in"]
  /\ UNCHANGED <<life, signals>>

Leave(c) ==
  /\ life \in {"up", "asked"} /\ at[c] = "in"
  /\ at' = [at EXCEPT ![c] = "left"]
  /\ UNCHANGED <<life, signals>>

BecomeIdle ==
  /\ life \in {"up", "asked"} /\ \A c \in Clients : at[c] # "in"
  /\ life' = "idle"
  /\ UNCHANGED <<at, signals>>

\* a signal is a request, or is not or not heard; the idle daemon does not survive one
Signal ==
  /\ signals' = signals + 1
  /\ \/ life = "up" /\ life' \in {"up", "asked"}
     \/ life = "asked" /\ life' = "asked"
     \/ life = "idle" /\ life' = "panic"
  /\ UNCHANGED at

\* a daemon that nobody asked and that is not idle does not exit
Exit ==
  /\ life \in {"asked", "idle"} /\ life' = "exit"
  /\ UNCHANGED <<at, signals>>

\* a task of containerd starts
Panic ==
  /\ life \in {"up", "asked", "idle"} /\ life' = "panic"
  /\ UNCHANGED <<at, signals>>

Next == \/ \E c \in Clients : Admit(c) \/ Leave(c)
        \/ BecomeIdle \/ Signal \/ Exit \/ Panic

Spec == Init /\ [][Next]_life_vars
=============================================================================
