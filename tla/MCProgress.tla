------------------------------ MODULE MCProgress ------------------------------
(***************************************************************************)
(* What background work owes: one worker of each kind, with its crashes    *)
(* and its faults, must bring dreams, notifications and embeddings to an   *)
(* end; an actor's run must reach its record and a message set aside its   *)
(* reader. The scheduler's daemon is here with its crashes. A behaviour    *)
(* plays one scene and leaves the others where they began.                 *)
(***************************************************************************)
EXTENDS DreamQueue, CronScheduler, PushOutbox, EmbeddingGenerations, ActorTree, ActorInbox

CONSTANT w1

VARIABLE scene

progress == <<dreamVars, cronVars, pushVars, embedVars, actorVars, inboxVars, scene>>

OwnProcess == [w \in Slots |-> w]
OneVersion == {[w \in Slots |-> "v1"]}

ProgressInit ==
  /\ scene \in {"dream", "cron", "push", "embed", "actors", "inbox"}
  /\ DreamInit /\ CronInit /\ PushInit /\ EmbedInit /\ ActorInit /\ InboxInit

ProgressNext ==
  /\ UNCHANGED scene
  /\ \/ /\ scene = "dream" /\ DreamNext
        /\ UNCHANGED <<cronVars, pushVars, embedVars, actorVars, inboxVars>>
     \/ /\ scene = "cron" /\ CronNext
        /\ UNCHANGED <<dreamVars, pushVars, embedVars, actorVars, inboxVars>>
     \/ /\ scene = "push" /\ PushNext
        /\ UNCHANGED <<dreamVars, cronVars, embedVars, actorVars, inboxVars>>
     \/ /\ scene = "embed" /\ EmbedNext
        /\ UNCHANGED <<dreamVars, cronVars, pushVars, actorVars, inboxVars>>
     \/ /\ scene = "actors" /\ ActorNext
        /\ UNCHANGED <<dreamVars, cronVars, pushVars, embedVars, inboxVars>>
     \/ /\ scene = "inbox" /\ InboxNext
        /\ UNCHANGED <<dreamVars, cronVars, pushVars, embedVars, actorVars>>

-----------------------------------------------------------------------------
(* The fairness of each component, in its own scene.                       *)
On(s, A) == scene = s /\ A

ProgressFairness ==
  /\ \A w \in Slots :
       /\ WF_dreamVars(On("dream", DreamStep(w)))
       /\ WF_pushVars(On("push", PushStep(w)))
       /\ WF_embedVars(On("embed", EmbedStep(w)))
  /\ \A d \in Dreams : WF_dreamVars(On("dream", ElapseDream(d)))
  /\ \A x \in Deliveries : WF_pushVars(On("push", ElapseDelivery(x)))
  /\ \A j \in Jobs : WF_embedVars(On("embed", ElapseJob(j)))
  /\ \A t \in Actors \X Incs : WF_actorVars(On("actors", RunStep(t)))
  /\ \A r \in Readers :
       /\ WF_inboxVars(On("inbox", LookInBacklog(r)))
       /\ WF_inboxVars(On("inbox", ReceiveMessage(r)))
       /\ SF_inboxVars(On("inbox", LockChannel(r)))
       /\ WF_inboxVars(On("inbox", SetAside(r))) /\ WF_inboxVars(On("inbox", NextSlice(r)))
       /\ SF_inboxVars(On("inbox", DrainNext(r)))

ProgressSpec == ProgressInit /\ [][ProgressNext]_progress /\ ProgressFairness

\* Every dream, delivery and embedding generation comes to an end, and a dream
\* repeated after a crash asks for its skills once.
WorkEnds ==
  /\ []OneSkillApproval
  /\ EveryDreamEnds
  /\ NotificationWithdrawn
  /\ EveryDeliveryEnds
  /\ DenseRecallReturns

\* An actor's run reaches its record, and a message set aside its reader.
ActorsAnswer ==
  /\ SpawnedActorEnds
  /\ SetAsideIsFound
=============================================================================
