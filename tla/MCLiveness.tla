----------------------------- MODULE MCLiveness -----------------------------
(* The liveness of components that share no state, in one run: each        *)
(* behaviour is one of one of them.  Before its first step no step of a    *)
(* component is one that fairness asks for, so that the fairness of those  *)
(* that a behaviour leaves alone asks for nothing.                         *)
EXTENDS ServiceLifecycle, PeerLink, WSHub, TLC

VARIABLE part

lifecycleVars == vars
allVars == <<part, lifecycleVars, linkVars, wsVars>>

Parts == {"service", "link", "websockets"}

LiveInit ==
  /\ part \in Parts
  /\ Init /\ LinkInit /\ WSInit

Others(p) ==
  /\ p # "service" => UNCHANGED lifecycleVars
  /\ p # "link" => UNCHANGED linkVars
  /\ p # "websockets" => UNCHANGED wsVars

LiveNext ==
  /\ UNCHANGED part
  /\ \/ part = "service" /\ Next /\ Others("service")
     \/ part = "link" /\ LinkNext /\ Others("link")
     \/ part = "websockets" /\ WSNext /\ Others("websockets")

LiveSpec == LiveInit /\ [][LiveNext]_allVars /\ Fairness /\ LinkFairness /\ WSFairness
=============================================================================
