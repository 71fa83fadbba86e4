--------------------------- MODULE MachineIdentity ---------------------------
(***************************************************************************)
(* What the state file is for: a virtual machine has one identity, its MAC *)
(* address and machine identifier, over all sessions of the daemon.  The   *)
(* file may lose it, and then the next session chooses another; but it     *)
(* never has an identity that the machine of the session does not.         *)
(*                                                                         *)
(* DaemonState, with its queue of updates, its writer and its crashes,     *)
(* implements this.                                                        *)
(***************************************************************************)
EXTENDS Naturals

VARIABLES
  stored, \* the identity that outlasts a session; 0 is a part that is not there
  active, \* a session is under way
  used    \* the identity of its machine, so far

identity_vars == <<stored, active, used>>

Identities == [mac : Nat, mid : Nat]
Unset == [mac |-> 0, mid |-> 0]

\* i has each part of j
Extends(i, j) == /\ j.mac # 0 => i.mac = j.mac
                 /\ j.mid # 0 => i.mid = j.mid

Init == stored = Unset /\ ~active /\ used = Unset

\* a session goes on with what is stored
Begin == ~active /\ active' /\ used' = stored /\ UNCHANGED stored

\* and chooses what is missing
Choose ==
  /\ active /\ used' \in Identities /\ Extends(used', used)
  /\ UNCHANGED <<stored, active>>

\* of which as much is stored as has come that far
Store ==
  /\ active /\ stored' \in Identities
  /\ Extends(used, stored') /\ Extends(stored', stored)
  /\ UNCHANGED <<active, used>>

Lose == active /\ stored' = Unset /\ UNCHANGED <<active, used>>

End == active /\ ~active' /\ used' = Unset /\ stored' \in {stored, Unset}

Next == Begin \/ Choose \/ Store \/ Lose \/ End

Spec == Init /\ [][Next]_identity_vars
=============================================================================
