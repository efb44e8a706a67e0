----------------------------- MODULE MCTurnVoice ------------------------------
(***************************************************************************)
(* Small instances of the turn dispatcher, of the inboxes of an actor that *)
(* a turn has started, and of the speech model on the phone, which turns   *)
(* what is said into the text of a turn.  They share no state.  A          *)
(* behaviour plays one of them, the scene, and leaves the others where     *)
(* they began.                                                             *)
(***************************************************************************)
EXTENDS TurnDispatch, ActorInbox, VoiceModel

CONSTANTS s1, s2, t1, t2, t3, w1, w2, w3, c1, c2, c3

VARIABLE scene

\* Ids of one kind are interchangeable; used by the run without liveness.  In the inbox
\* scene the names of workers stand for the readers and those of clients for the senders.
Symmetry == Permutations(Turns) \cup Permutations(Workers) \cup Permutations(ClientIds)

BothRuntimes == <<"chat", "coding">>
ChatOnly == <<"chat">>

turnVoice == <<taskVars, storeVars, inboxVars, modelVars, scene>>

TurnVoiceInit ==
  /\ scene \in {"dispatch", "inbox", "model"}
  /\ Init /\ InboxInit /\ ModelInit
  /\ scene = "model" \/ version = Absent

TurnVoiceNext ==
  /\ UNCHANGED scene
  /\ \/ scene = "dispatch" /\ Next /\ UNCHANGED <<inboxVars, modelVars>>
     \/ scene = "inbox" /\ InboxNext /\ UNCHANGED <<taskVars, storeVars, modelVars>>
     \/ scene = "model" /\ ModelNext /\ UNCHANGED <<taskVars, storeVars, inboxVars>>

TurnVoiceSpec == TurnVoiceInit /\ [][TurnVoiceNext]_turnVoice

\* The dispatcher alone, with its fairness.
DispatchInit == scene = "dispatch" /\ TurnVoiceInit
DispatchFairSpec == DispatchInit /\ [][TurnVoiceNext]_turnVoice /\ Fairness
=============================================================================
