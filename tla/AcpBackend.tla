----------------------------- MODULE AcpBackend ------------------------------
(***************************************************************************)
(* The coding backend that delegates the turns of one session to OMP over  *)
(* ACP: run_turn puts its request on the channel of the session's worker,  *)
(* which runs one turn at a time in a fresh OMP process, with buffers that *)
(* outlive a turn, and answers.  The caller may stop waiting at any time;  *)
(* nothing tells the worker.  OMP is modelled from how the worker uses it. *)
(***************************************************************************)
EXTENDS Naturals, Sequences, SequencesExt, FiniteSets

CONSTANTS
  AcpTurns,     \* calls of run_turn
  Nobody,       \* no turn is active
  ChannelCap,   \* places of the worker's channel
  TextCap,      \* FINAL_TEXT_MAX_BYTES, in chunks
  LineCap,      \* TRANSCRIPT_MAX_BYTES, in lines
  MaxUpdates    \* updates and permission requests OMP sends in a turn

VARIABLES
  caller,       \* the state of each run_turn
  refuses,      \* turns whose sink no longer takes events
  worker,       \* the task that serves the session
  channel,      \* requests on their way to it
  text,         \* AssistantTextBuffer
  transcript,   \* TranscriptBuffer: the turns whose lines it holds
  private,      \* turns with a state directory and a prompt file
  stray,        \* turns whose half-written prompt file nobody owns
  events        \* what the sinks were given, in order

acpVars == <<caller, refuses, worker, channel, text, transcript, private, stray, events>>

AcpAssumption ==
  Nobody \notin AcpTurns /\ ChannelCap \in Nat \ {0} /\ TextCap \in Nat /\ LineCap \in Nat /\ MaxUpdates \in Nat
ASSUME AcpAssumption

Empty == [held |-> <<>>, truncated |-> FALSE]

\* A buffer takes what fits, and nothing more once something did not.
Pushed(buffer, cap, x) ==
  IF buffer.truncated THEN buffer
  ELSE IF Len(buffer.held) < cap THEN [buffer EXCEPT !.held = Append(@, x)]
  ELSE [buffer EXCEPT !.truncated = TRUE]

\* with_debug: every line to or from OMP is kept.
LineKept == transcript' = Pushed(transcript, LineCap, worker.turn)

Emitted(kind, of) == events' = Append(events, [turn |-> worker.turn, kind |-> kind, of |-> of])

WorkerIs(s) == worker.at = s
Goes(s) == worker' = [worker EXCEPT !.at = s]
TurnFails == worker' = [worker EXCEPT !.at = "over", !.result = "error"]

-----------------------------------------------------------------------------
(* The caller.                                                             *)

\* sender_for_session: the first turn of a session starts its worker.  Left out: a
\* third caller that comes while a second one still holds the channel of a stopped
\* worker, whose refusal would then remove the entry of the new worker.
SenderForSession(t) ==
  /\ caller[t] = "idle"
  /\ worker.entry \/ \A u \in AcpTurns : caller[u] # "sending"
  /\ caller' = [caller EXCEPT ![t] = "sending"]
  /\ worker' = IF worker.entry THEN worker ELSE [worker EXCEPT !.entry = TRUE, !.at = "boot"]
  /\ UNCHANGED <<refuses, channel, text, private, events, transcript, stray>>

\* A full channel makes the caller wait, a worker that has stopped refuses it.
SendRequest(t) ==
  /\ caller[t] = "sending"
  /\ \/ /\ ~WorkerIs("stopped") /\ Len(channel) < ChannelCap
        /\ channel' = Append(channel, t)
        /\ caller' = [caller EXCEPT ![t] = "waiting"]
        /\ UNCHANGED worker
     \/ /\ WorkerIs("stopped")
        /\ worker' = [worker EXCEPT !.entry = FALSE]
        /\ caller' = [caller EXCEPT ![t] = "error"]
        /\ UNCHANGED channel
  /\ UNCHANGED <<refuses, text, private, events, transcript, stray>>

\* The dispatcher drops the call: a timeout, a cancellation, a lost claim.
CallerDrops(t) ==
  /\ caller[t] \in {"sending", "waiting"}
  /\ caller' = [caller EXCEPT ![t] = "dropped"]
  /\ UNCHANGED <<refuses, worker, channel, text, private, events, transcript, stray>>

\* The store refuses the events of a turn that is claimed by another attempt.
ClaimLost(t) ==
  /\ t \notin refuses /\ caller[t] \in {"waiting", "dropped"}
  /\ refuses' = refuses \cup {t}
  /\ UNCHANGED <<caller, worker, channel, text, private, events, transcript, stray>>

-----------------------------------------------------------------------------
(* The worker.                                                             *)

\* write_generated_config; without it the task ends, and its channel with it.
Boot ==
  /\ WorkerIs("boot")
  /\ \/ Goes("free") /\ UNCHANGED <<caller, channel>>
     \/ /\ Goes("stopped")
        /\ channel' = <<>>
        /\ caller' = [t \in AcpTurns |->
                       IF t \in ToSet(channel) /\ caller[t] = "waiting" THEN "error" ELSE caller[t]]
  /\ UNCHANGED <<refuses, text, private, events, transcript, stray>>

\* Mutant: the buffers are not cleared.
TakeRequestUncleared ==
  /\ WorkerIs("free") /\ channel # <<>>
  /\ channel' = Tail(channel)
  /\ worker' = [worker EXCEPT !.at = "setup", !.turn = Head(channel), !.result = "none", !.sent = 0]
  /\ UNCHANGED <<caller, refuses, text, private, events, transcript, stray>>

TakeRequest ==
  /\ WorkerIs("free") /\ channel # <<>>
  /\ channel' = Tail(channel)
  /\ text' = Empty /\ transcript' = Empty
  /\ worker' = [worker EXCEPT !.at = "setup", !.turn = Head(channel), !.result = "none", !.sent = 0]
  /\ UNCHANGED <<caller, refuses, private, events, stray>>

\* validate_turn_prompts refuses, a directory is not made, the prompt file is not opened
\* or the agent not built: the guards remove what there is.
PromptsRefused == TurnFails /\ UNCHANGED <<private, stray>>

\* write_system_prompt_file opened the file and could not write or sync it: there is no
\* guard of the file yet, so it stays, and only the state directory is removed.
PromptLeftBehind == TurnFails /\ UNCHANGED private /\ stray' = stray \cup {worker.turn}

\* validate_turn_prompts, OmpTurnState::create, write_system_prompt_file, build_agent.
SetUp ==
  /\ WorkerIs("setup")
  /\ \/ Goes("connect") /\ private' = private \cup {worker.turn} /\ UNCHANGED stray
     \/ PromptsRefused
     \/ PromptLeftBehind
  /\ UNCHANGED <<caller, refuses, channel, text, events, transcript>>

\* OMP starts, and answers initialize and session/new.
StartOmp ==
  /\ WorkerIs("connect")
  /\ Goes("prompt") \/ TurnFails
  /\ LineKept
  /\ UNCHANGED <<caller, refuses, channel, text, private, events, stray>>

\* handle_session_notification: the chunk is kept, then emitted; a sink that refuses
\* ends the connection.
Update ==
  /\ WorkerIs("prompt") /\ worker.sent < MaxUpdates
  /\ LET n == <<worker.turn, worker.sent + 1>> IN
     /\ text' = Pushed(text, TextCap, n)
     /\ LineKept
     /\ IF worker.turn \in refuses THEN TurnFails /\ UNCHANGED events
        ELSE Emitted("text", n) /\ worker' = [worker EXCEPT !.sent = worker.sent + 1]
  /\ UNCHANGED <<caller, refuses, channel, private, stray>>

\* handle_permission_request: the request of the active turn goes to the broker; an
\* option of an unknown kind, or a sink that refuses, ends the connection.
AskPermission ==
  /\ WorkerIs("prompt") /\ worker.sent < MaxUpdates
  /\ \/ TurnFails /\ UNCHANGED events
     \/ /\ worker.turn \notin refuses
        /\ worker' = [worker EXCEPT !.at = "asking", !.sent = worker.sent + 1]
        /\ Emitted("ask", "none")
  /\ LineKept
  /\ UNCHANGED <<caller, refuses, channel, text, private, stray>>

\* The broker selects, cancels or times out, or it fails.
Permitted ==
  /\ WorkerIs("asking")
  /\ \/ TurnFails /\ UNCHANGED events
     \/ worker.turn \notin refuses /\ Goes("prompt") /\ Emitted("answer", "none")
  /\ LineKept
  /\ UNCHANGED <<caller, refuses, channel, text, private, stray>>

\* The prompt ends with an answer, or with an error that is emitted if it can be.
PromptReturns ==
  /\ WorkerIs("prompt")
  /\ \/ Goes("artifact") /\ UNCHANGED events
     \/ /\ TurnFails
        /\ IF worker.turn \in refuses THEN UNCHANGED events ELSE Emitted("error", "none")
  /\ UNCHANGED <<caller, refuses, channel, text, private, transcript, stray>>

\* write_transcript_artifacts and its event.
WriteTranscript ==
  /\ WorkerIs("artifact")
  /\ \/ TurnFails /\ (IF worker.turn \in refuses THEN UNCHANGED events ELSE Emitted("error", "none"))
     \/ worker.turn \notin refuses /\ Goes("final") /\ Emitted("artifact", transcript)
  /\ transcript' = Empty
  /\ UNCHANGED <<caller, refuses, channel, text, private, stray>>

\* shape_final_text; the buffer is taken whether or not the event is.
EmitFinal ==
  /\ WorkerIs("final")
  /\ text' = Empty
  /\ IF worker.turn \in refuses THEN TurnFails /\ UNCHANGED events
     ELSE /\ worker' = [worker EXCEPT !.at = "over", !.result = "ok"]
          /\ Emitted("final", text)
  /\ UNCHANGED <<caller, refuses, channel, private, transcript, stray>>

\* The guards remove the files of the turn (a removal that fails, which the code only
\* logs, is left out), and the answer goes to who still waits.
TurnOver ==
  /\ WorkerIs("over")
  /\ private' = private \ {worker.turn}
  /\ worker' = [worker EXCEPT !.at = "free", !.turn = Nobody]
  /\ caller' = [caller EXCEPT ![worker.turn] = IF @ = "waiting" THEN worker.result ELSE @]
  /\ UNCHANGED <<refuses, channel, text, events, transcript, stray>>

AcpInit ==
  /\ caller = [t \in AcpTurns |-> "idle"] /\ refuses = {}
  /\ worker = [at |-> "stopped", entry |-> FALSE, turn |-> Nobody, result |-> "none", sent |-> 0]
  /\ channel = <<>> /\ text = Empty /\ transcript = Empty
  /\ private = {} /\ stray = {} /\ events = <<>>

WorkerStep ==
  \/ Boot \/ TakeRequest \/ SetUp \/ StartOmp \/ PromptReturns \/ Permitted
  \/ WriteTranscript \/ EmitFinal \/ TurnOver

AcpNext ==
  \/ \E t \in AcpTurns : SenderForSession(t) \/ SendRequest(t) \/ CallerDrops(t) \/ ClaimLost(t)
  \/ WorkerStep \/ Update \/ AskPermission

AcpSpec == AcpInit /\ [][AcpNext]_acpVars

-----------------------------------------------------------------------------
(* What a delegated turn promises.                                         *)

AcpTypeOK ==
  /\ caller \in [AcpTurns -> {"idle", "sending", "waiting", "dropped", "ok", "error"}]
  /\ worker.turn \in AcpTurns \cup {Nobody} /\ private \cup stray \subseteq AcpTurns
  /\ Len(channel) <= ChannelCap /\ ToSet(channel) \subseteq AcpTurns

\* The chunk events of a turn before its event i.
SaidBefore(i) == {j \in 1..(i - 1) : events[j].turn = events[i].turn /\ events[j].kind = "text"}

\* The chunks held are those of the events at P, from the first on and up to the cap.
TellsInOrder(held, P) ==
  \E at \in [DOMAIN held -> P] :
    /\ \A k \in DOMAIN held : held[k] = events[at[k]].of
    /\ \A k, m \in DOMAIN held : k < m => at[k] < at[m]
    /\ \A j \in P : \/ \E k \in DOMAIN held : at[k] = j
                    \/ Len(held) = TextCap /\ \A k \in DOMAIN held : at[k] < j

\* The final text of a turn is what its own chunk events said, although the buffer is
\* shared by the turns of the session.
FinalSaysItsChunks ==
  \A i \in DOMAIN events : events[i].kind = "final" => TellsInOrder(events[i].of.held, SaidBefore(i))

\* The transcript of a turn has no line of another turn.
TranscriptIsItsOwn ==
  \A i \in DOMAIN events : events[i].kind = "artifact" => ToSet(events[i].of.held) \subseteq {events[i].turn}

\* The events of a turn are together: nobody else's are between them, the transcript
\* comes right before the final answer, and nothing comes after it.
TurnsDoNotMix ==
  \A i, j \in DOMAIN events : i < j /\ events[i].turn = events[j].turn =>
    /\ \A k \in i..j : events[k].turn = events[i].turn
    /\ events[i].kind \notin {"final", "error"}
    /\ events[i].kind = "artifact" => j = i + 1 /\ events[j].kind \in {"final", "error"}

\* A caller is told of success only after the final answer is durable, and of failure
\* only if it never will be.
AnswerMatchesLog ==
  \A t \in AcpTurns :
    LET final == \E i \in DOMAIN events : events[i].turn = t /\ events[i].kind = "final" IN
    (caller[t] = "ok" => final) /\ (caller[t] = "error" => ~final)

\* The guarded files of a turn are there while it runs and at no other time.
PrivateWhileRunning == private \subseteq {worker.turn} /\ (WorkerIs("free") => private = {})

\* A prompt file that is left behind belongs to a turn that OMP never saw: no event of it
\* is or will be in the log, and its caller is not told of success.
StrayNeverRan ==
  \A t \in stray :
    caller[t] \in {"waiting", "dropped", "error"} /\ t \notin private /\ \A i \in DOMAIN events : events[i].turn # t

\* The worker of a session, whoever stops waiting when.
DelegationSafe ==
  /\ AcpTypeOK /\ FinalSaysItsChunks /\ TranscriptIsItsOwn /\ TurnsDoNotMix
  /\ AnswerMatchesLog /\ PrivateWhileRunning /\ StrayNeverRan

\* Every run_turn returns or is dropped, provided OMP ends its prompts.
DelegatedTurnEnds == \A t \in AcpTurns : (caller[t] = "sending") ~> (caller[t] \in {"ok", "error", "dropped"})
=============================================================================
