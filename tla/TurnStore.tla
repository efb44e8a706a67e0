------------------------------ MODULE TurnStore ------------------------------
(***************************************************************************)
(* The durable half of a conversation: sessions, their turns and their     *)
(* messages, and the store operations the HTTP handlers and the turn       *)
(* dispatchers call.  Each operation of InMemoryStore holds the store's    *)
(* mutex throughout, so each is one action; the Postgres store makes each  *)
(* of them one statement under the session's lock.                         *)
(*                                                                         *)
(* Time: a running row keeps the age of its updated_at, capped at          *)
(* StaleTimeout, instead of a clock; created_at is a reading of the wall   *)
(* clock, which may repeat or step back.                                   *)
(***************************************************************************)
EXTENDS Naturals, Sequences, FiniteSets

CONSTANTS
  Sessions,      \* session ids
  Turns,         \* turn ids, fresh Uuids in the code
  Workers,       \* dispatcher ids, a fresh Uuid per dispatcher start
  ClientIds,     \* client message ids
  Contents,      \* what a content hash tells apart
  None,          \* the absent value of an optional column
  StaleTimeout,  \* ticks after which an unrefreshed running row is stale
  MaxStamp,      \* bound on created_at readings
  MaxMessages    \* messages of history a turn is given (40 in the code)

ASSUME TimeAssumption ==
  /\ StaleTimeout \in Nat \ {0}
  /\ MaxStamp \in Nat
  /\ MaxMessages \in Nat

ASSUME NoneAssumption ==
  None \notin Sessions \cup Workers \cup ClientIds \cup Contents

VARIABLES
  session,   \* session[s]: "open" or "ended"
  turns,     \* turns[t]: the row of session_turns, or NoTurn
  messages   \* messages[s]: the session's messages, in seq order

storeVars == <<session, turns, messages>>

-----------------------------------------------------------------------------
Status == {"queued", "running", "completed", "failed"}

\* A row of session_turns; age is the time since updated_at.
TurnRecord ==
  [status : Status, session : Sessions, client : ClientIds,
   content : Contents, created : 0..MaxStamp, age : 0..StaleTimeout,
   worker : Workers \cup {None}]

NoTurn ==
  [status |-> "none", session |-> None, client |-> None, content |-> None,
   created |-> 0, age |-> 0, worker |-> None]

Message == [turn : Turns, role : {"user", "assistant"}]

TurnsOf(s) == {t \in Turns : turns[t].session = s}

Running(s) == {t \in TurnsOf(s) : turns[t].status = "running"}

Open(s) == {t \in TurnsOf(s) : turns[t].status \in {"queued", "running"}}

-----------------------------------------------------------------------------
(* Operations of the store. *)

StoreInit ==
  /\ session = [s \in Sessions |-> "open"]
  /\ turns = [t \in Turns |-> NoTurn]
  /\ messages = [s \in Sessions |-> <<>>]

\* A new client message: the row and its user message, together.  A known
\* client id returns the existing row or a conflict and changes nothing.
EnqueueTurn(t, s, c, h, now) ==
  /\ session[s] # "ended"
  /\ \A u \in TurnsOf(s) : turns[u].client # c
  /\ turns[t] = NoTurn
  /\ turns' = [turns EXCEPT ![t] =
       [status |-> "queued", session |-> s, client |-> c, content |-> h,
        created |-> now, age |-> 0, worker |-> None]]
  /\ messages' = [messages EXCEPT ![s] = Append(@, [turn |-> t, role |-> "user"])]
  /\ UNCHANGED session

\* Queued turns of live sessions none of whose turns is running.
Claimable ==
  {t \in Turns :
    /\ turns[t].status = "queued"
    /\ Running(turns[t].session) = {}
    /\ session[turns[t].session] # "ended"}

StartTurn(t, w) ==
  /\ t \in Claimable
  /\ turns' = [turns EXCEPT ![t].status = "running", ![t].age = 0, ![t].worker = w]
  /\ UNCHANGED <<session, messages>>

\* The oldest claimable turn starts; equal created_at are ordered by random id.
ClaimNextTurn(t, w) ==
  /\ \A u \in Claimable : turns[t].created <= turns[u].created
  /\ StartTurn(t, w)

Owns(t, w) == turns[t].status = "running" /\ turns[t].worker = w

HeartbeatTurn(t, w) ==
  /\ Owns(t, w)
  /\ turns' = [turns EXCEPT ![t].age = 0]
  /\ UNCHANGED <<session, messages>>

HasMessage(s, t, role) ==
  \E i \in 1..Len(messages[s]) : messages[s][i] = [turn |-> t, role |-> role]

\* The owner's answer: the assistant message and the final status, together.
CompleteTurn(t, w) ==
  LET s == turns[t].session IN
  /\ Owns(t, w)
  /\ ~HasMessage(s, t, "assistant")
  /\ messages' = [messages EXCEPT ![s] = Append(@, [turn |-> t, role |-> "assistant"])]
  /\ turns' = [turns EXCEPT ![t].status = "completed", ![t].age = 0]
  /\ UNCHANGED session

FailTurn(t, w) ==
  /\ Owns(t, w)
  /\ turns' = [turns EXCEPT ![t].status = "failed", ![t].age = 0]
  /\ UNCHANGED <<session, messages>>

Stale(t) == turns[t].status = "running" /\ turns[t].age >= StaleTimeout

\* Variant, not the code: stale rows go back to the queue.
RequeueStaleRunningTurns ==
  /\ \E t \in Turns : Stale(t)
  /\ turns' = [t \in Turns |->
       IF Stale(t) THEN [turns[t] EXCEPT !.status = "queued", !.age = 0, !.worker = None]
                   ELSE turns[t]]
  /\ UNCHANGED <<session, messages>>

\* Every stale running row fails, whoever owns it; none is run again.
FailStaleRunningTurns ==
  /\ \E t \in Turns : Stale(t)
  /\ turns' = [t \in Turns |->
       IF Stale(t) THEN [turns[t] EXCEPT !.status = "failed", !.age = 0]
                   ELSE turns[t]]
  /\ UNCHANGED <<session, messages>>

\* Refused while the session has queued or running turns.
EndSession(s) ==
  /\ Open(s) = {}
  /\ session' = [session EXCEPT ![s] = "ended"]
  /\ UNCHANGED <<turns, messages>>

\* Time passes for every running row.
Tick ==
  /\ \E t \in Turns : turns[t].status = "running" /\ turns[t].age < StaleTimeout
  /\ turns' = [t \in Turns |->
       IF turns[t].status = "running" /\ turns[t].age < StaleTimeout
       THEN [turns[t] EXCEPT !.age = @ + 1] ELSE turns[t]]
  /\ UNCHANGED <<session, messages>>

\* A client posts a message: any content under any client id.
PostMessage ==
  \E t \in Turns, s \in Sessions, c \in ClientIds, h \in Contents, now \in 1..MaxStamp :
    EnqueueTurn(t, s, c, h, now)

StoreNext ==
  \/ PostMessage
  \/ \E t \in Turns, w \in Workers :
       \/ ClaimNextTurn(t, w)
       \/ HeartbeatTurn(t, w)
       \/ CompleteTurn(t, w)
       \/ FailTurn(t, w)
  \/ FailStaleRunningTurns
  \/ \E s \in Sessions : EndSession(s)
  \/ Tick

StoreSpec == StoreInit /\ [][StoreNext]_storeVars

-----------------------------------------------------------------------------
(* The history a turn is given. *)

\* Position of t's user message.
UserSeq(t) ==
  CHOOSE i \in 1..Len(messages[turns[t].session]) :
    messages[turns[t].session][i] = [turn |-> t, role |-> "user"]

\* Earlier turns with both messages before t's own user message.
CompleteBefore(t) ==
  LET m == messages[turns[t].session] IN
  {u \in Turns : \A r \in {"user", "assistant"} :
     \E i \in 1..(UserSeq(t) - 1) : m[i] = [turn |-> u, role |-> r]}

\* The newest MaxMessages messages of those turns, as positions.
PriorMessages(t) ==
  LET m    == messages[turns[t].session]
      full == {i \in 1..(UserSeq(t) - 1) : m[i].turn \in CompleteBefore(t)}
  IN {i \in full : Cardinality({j \in full : j >= i}) <= MaxMessages}

-----------------------------------------------------------------------------
(* Properties. *)

\* Every column holds a value of its type, absent rows are NoTurn, and a row
\* names a worker exactly when it has been started.
TypeOK ==
  /\ session \in [Sessions -> {"open", "ended"}]
  /\ turns \in [Turns -> TurnRecord \cup {NoTurn}]
  /\ messages \in [Sessions -> Seq(Message)]
  /\ \A t \in Turns : turns[t].worker # None <=>
                        turns[t].status \in {"running", "completed", "failed"}

\* claim_next_turn never starts a second turn of a session while one is
\* running, whatever dispatchers, sweeps and late owners do in between.
OneRunningPerSession ==
  \A s \in Sessions : \A t, u \in Running(s) : t = u

\* An ended session has no turn left to run: end_session is refused while one
\* is open, and enqueue_turn is refused afterwards.
EndedSessionIsQuiet ==
  \A s \in Sessions : session[s] = "ended" => Open(s) = {}

\* The transcript and the turn table agree: every turn has its user message
\* exactly once, has an assistant message exactly when it is completed, then
\* once and after the user message; no message belongs to another session.
TranscriptMatchesTurns ==
  \A s \in Sessions :
    /\ \A i, j \in 1..Len(messages[s]) :
         messages[s][i] = messages[s][j] => i = j
    /\ \A i \in 1..Len(messages[s]) : messages[s][i].turn \in TurnsOf(s)
    /\ \A t \in TurnsOf(s) :
         /\ HasMessage(s, t, "user")
         /\ HasMessage(s, t, "assistant") <=> turns[t].status = "completed"
    /\ \A i, j \in 1..Len(messages[s]) :
         /\ messages[s][i].turn = messages[s][j].turn
         /\ messages[s][i].role = "user"
         /\ messages[s][j].role = "assistant"
         => i < j

\* A client message id names one turn of its session, however often the
\* client retries the post.
UniqueClientId ==
  \A s \in Sessions : \A t, u \in TurnsOf(s) :
    turns[t].client = turns[u].client => t = u

\* A turn that has started is never queued or started again: a lost owner's
\* turn fails rather than repeat its side effects.
NeverReplayed ==
  [][\A t \in Turns : turns[t].worker # None =>
       /\ turns'[t].worker = turns[t].worker
       /\ turns'[t].status # "queued"
       /\ turns[t].status # "running" => turns'[t].status # "running"]_storeVars

\* The first final answer or failure of a turn is its last: a late owner whose
\* row was swept can neither complete it nor add to the transcript.
TerminalIsFinal ==
  [][\A t \in Turns : turns[t].status \in {"completed", "failed"} =>
       turns'[t] = turns[t]]_storeVars

\* The history given to a turn holds answered turns of its session only, never
\* a failed or an unanswered one, nor the turn itself.
ContextOnlyAnswered ==
  \A t \in Turns : turns[t].status = "running" =>
    \A i \in PriorMessages(t) :
      LET u == messages[turns[t].session][i].turn IN
      u # t /\ turns[u].status = "completed" /\ turns[u].session = turns[t].session

\* What the turn queue promises its callers.
StoreCorrect ==
  /\ []TypeOK
  /\ []OneRunningPerSession
  /\ []EndedSessionIsQuiet
  /\ []TranscriptMatchesTurns
  /\ []UniqueClientId
  /\ []ContextOnlyAnswered
  /\ NeverReplayed
  /\ TerminalIsFinal
=============================================================================
