--------------------------- MODULE ServiceContract ---------------------------
(***************************************************************************)
(* What RunDaemon relies on when it launches dockerd: LaunchService gives  *)
(* one verdict and Service.Wait one exit code after it, and at the moment  *)
(* they are given they are true.  It knows of no channel, no notify socket *)
(* and no goroutines.                                                      *)
(*                                                                         *)
(* ServiceLaunch implements this.                                          *)
(***************************************************************************)
VARIABLES
  life,      \* of the process: "none", "running", or how it ended: "stopped" (with 0),
             \* "failed" (with another code) or "killed" (by a signal)
  announced, \* it has sent READY=1
  reachable, \* the guest answers
  told,      \* the verdict: "nothing" yet, "ready", or why not
  left       \* what Service.Wait returned, or "none"

contract_vars == <<life, announced, reachable, told, left>>

Init == life = "none" /\ announced = FALSE /\ reachable = TRUE /\ told = "nothing" /\ left = "none"

Ends == {"stopped", "failed", "killed"}
Gone == life \in Ends \/ ~reachable

Start ==
  /\ told = "nothing" /\ life = "none" /\ reachable /\ life' = "running"
  /\ UNCHANGED <<announced, reachable, told, left>>

Announce ==
  /\ life = "running" /\ reachable /\ ~announced /\ announced' = TRUE
  /\ UNCHANGED <<life, reachable, told, left>>

End ==
  /\ life = "running" /\ life' \in Ends
  /\ UNCHANGED <<announced, reachable, told, left>>

Lose ==
  /\ reachable /\ reachable' = FALSE
  /\ UNCHANGED <<life, announced, told, left>>

\* the verdict: only once, and a process that may still come up is given up only
\* at the deadline
Tell ==
  /\ told = "nothing"
  /\ \/ told' = "ready" /\ announced
     \/ told' = "setup" /\ life = "none"
     \/ told' = "ctx" /\ life # "none"
     \/ told' = "code" /\ life # "none" /\ Gone
  /\ UNCHANGED <<life, announced, reachable, left>>

\* the exit code of a service that was up: -1 stands for 0 and for a signal, and any
\* other also for a guest that does not answer
Wait ==
  /\ told = "ready" /\ left = "none"
  /\ \/ left' = "-1" /\ life \in {"stopped", "killed"}
     \/ left' = "n" /\ (life = "failed" \/ ~reachable)
  /\ UNCHANGED <<life, announced, reachable, told>>

Next == Start \/ Announce \/ End \/ Lose \/ Tell \/ Wait

Spec == Init /\ [][Next]_contract_vars
=============================================================================
