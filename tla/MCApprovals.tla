----------------------------- MODULE MCApprovals ------------------------------
(***************************************************************************)
(* Small instances of the approvals with their effects, and of the         *)
(* catalogue on disk that the effects of a skill or an addendum write to.  *)
(* A behaviour plays one of them, the scene, and leaves the other where it *)
(* began.                                                                  *)
(***************************************************************************)
EXTENDS ApprovalFlow, ManagedCatalog, TLC

CONSTANTS a1, a2, h1, h2, w1, w2, d1, d2

VARIABLE scene

\* Ids of one kind are interchangeable; used by the run without liveness.
Symmetry == Permutations(Approvals) \cup Permutations(Handlers)
              \cup Permutations(Workers) \cup Permutations(Digests)

AllOwners == Handlers \cup Workers \cup Approvals

AllPayloads == [expected : Digests \cup {None}, target : Digests \cup {None}]

approvalScenes == <<vars, catalogVars, scene>>

ApprovalsInit ==
  /\ scene \in {"flow", "catalog"}
  /\ FlowInit /\ CatalogInit
  /\ scene = "catalog" \/ family = "skill"

ApprovalsNext ==
  /\ UNCHANGED scene
  /\ \/ scene = "flow" /\ Next /\ UNCHANGED catalogVars
     \/ scene = "catalog" /\ CatalogNext /\ UNCHANGED vars

ApprovalScenes == ApprovalsInit /\ [][ApprovalsNext]_approvalScenes

\* The approvals alone, and with their fairness.
FlowSceneInit == scene = "flow" /\ ApprovalsInit
FlowScene == FlowSceneInit /\ [][ApprovalsNext]_approvalScenes
FlowFairSpec == FlowScene /\ Fairness
=============================================================================
