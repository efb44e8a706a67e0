------------------------------ MODULE MCServer -------------------------------
(***************************************************************************)
(* Small instances of what the server keeps for its clients: the turns of  *)
(* its sessions, reviews of what it learnt, turns delegated to OMP, and    *)
(* what a phone says to it. The components share no state. A behaviour     *)
(* plays one of them, the scene, and leaves the others where they began.   *)
(***************************************************************************)
EXTENDS VoiceCapture, AcpBackend, EvolutionReview, TurnStore, TLC

CONSTANTS s1, s2, t1, t2, t3, w1, w2

VARIABLE scene

server == <<storeVars, reviewVars, acpVars, voiceVars, scene>>

ServerInit ==
  /\ scene \in {"voice", "acp", "turns", "review"}
  /\ VoiceInit /\ AcpInit /\ StoreInit /\ ReviewInit

ServerNext ==
  /\ UNCHANGED scene
  /\ \/ /\ scene = "turns" /\ StoreNext
        /\ UNCHANGED <<reviewVars, acpVars, voiceVars>>
     \/ /\ scene = "review" /\ ReviewNext
        /\ UNCHANGED <<storeVars, acpVars, voiceVars>>
     \/ /\ scene = "acp" /\ AcpNext
        /\ UNCHANGED <<storeVars, reviewVars, voiceVars>>
     \/ /\ scene = "voice" /\ VoiceNext
        /\ UNCHANGED <<storeVars, reviewVars, acpVars>>

ServerSpec == ServerInit /\ [][ServerNext]_server

\* Ids of one kind are interchangeable; no property is a liveness property.
Symmetry ==
  Permutations({t1, t2, t3}) \cup Permutations({w1, w2}) \cup Permutations({s1, s2})
=============================================================================
