--------------------------- MODULE TurnStoreProofs ---------------------------
(***************************************************************************)
(* Proofs about TurnStore for every set of sessions, turns and workers.    *)
(***************************************************************************)
EXTENDS TurnStore, TLAPS

Started == {"running", "completed", "failed"}

\* Replacing one row by a well-formed row keeps the table well-formed.
LEMMA RowUpdate ==
  ASSUME TypeOK, NEW t \in Turns, NEW r \in TurnRecord,
         r.worker # None <=> r.status \in Started,
         turns' = [turns EXCEPT ![t] = r]
  PROVE  /\ turns' \in [Turns -> TurnRecord \cup {NoTurn}]
         /\ \A u \in Turns : turns'[u].worker # None <=> turns'[u].status \in Started
BY DEF TypeOK, Started

\* A row with a status of the table is a record of the table.
LEMMA RowTyped ==
  ASSUME TypeOK, NEW t \in Turns, turns[t].status \in Status
  PROVE  turns[t] \in TurnRecord
BY DEF TypeOK, NoTurn, Status

\* Setting the status and refreshing updated_at yields a record of the table.
LEMMA SetStatus ==
  ASSUME NEW r \in TurnRecord, NEW st \in Status
  PROVE  [r EXCEPT !.status = st, !.age = 0] \in TurnRecord
<1>1. [r EXCEPT !.status = st] \in TurnRecord
  BY DEF TurnRecord
<1>2. \A q \in TurnRecord : [q EXCEPT !.age = 0] \in TurnRecord
  BY TimeAssumption DEF TurnRecord
<1>3. [r EXCEPT !.status = st, !.age = 0] = [[r EXCEPT !.status = st] EXCEPT !.age = 0]
  BY DEF TurnRecord
<1> QED BY <1>1, <1>2, <1>3

\* So does starting the turn.
LEMMA SetOwner ==
  ASSUME NEW r \in TurnRecord, NEW w \in Workers
  PROVE  [r EXCEPT !.status = "running", !.age = 0, !.worker = w] \in TurnRecord
<1>1. [r EXCEPT !.status = "running", !.age = 0] \in TurnRecord
  BY SetStatus DEF Status
<1>2. \A q \in TurnRecord : [q EXCEPT !.worker = w] \in TurnRecord
  BY DEF TurnRecord
<1>3. [r EXCEPT !.status = "running", !.age = 0, !.worker = w]
        = [[r EXCEPT !.status = "running", !.age = 0] EXCEPT !.worker = w]
  BY DEF TurnRecord
<1> QED BY <1>1, <1>2, <1>3

\* Whoever starts a claimable turn, oldest or not, keeps the columns typed.
LEMMA StartTypeOK ==
  ASSUME TypeOK, NEW t \in Turns, NEW w \in Workers, StartTurn(t, w)
  PROVE  TypeOK'
<1> DEFINE r == [turns[t] EXCEPT !.status = "running", !.age = 0, !.worker = w]
<1>1. turns[t] \in TurnRecord
  BY RowTyped DEF StartTurn, Claimable, Status
<1>2. r \in TurnRecord /\ r.worker # None /\ r.status \in Started
  BY <1>1, SetOwner, NoneAssumption DEF TurnRecord, Started
<1>3. turns' = [turns EXCEPT ![t] = r]
  BY <1>1 DEF StartTurn, TypeOK
<1> QED BY <1>2, <1>3, RowUpdate DEF StartTurn, TypeOK, Started

\* Every operation keeps the columns typed and a worker on started rows only.
LEMMA StepTypeOK == TypeOK /\ [StoreNext]_storeVars => TypeOK'
<1> SUFFICES ASSUME TypeOK, [StoreNext]_storeVars PROVE TypeOK'
  OBVIOUS
<1> USE TimeAssumption, NoneAssumption
<1>1. ASSUME NEW t \in Turns, NEW s \in Sessions, NEW c \in ClientIds,
             NEW h \in Contents, NEW now \in 1..MaxStamp, EnqueueTurn(t, s, c, h, now)
      PROVE  TypeOK'
  <2>1. [turn |-> t, role |-> "user"] \in Message
    BY DEF Message
  <2>2. turns' \in [Turns -> TurnRecord \cup {NoTurn}]
    BY <1>1 DEF TypeOK, EnqueueTurn, TurnRecord, Status
  <2>3. messages' \in [Sessions -> Seq(Message)]
    BY <1>1, <2>1 DEF TypeOK, EnqueueTurn
  <2> QED BY <1>1, <2>2, <2>3 DEF TypeOK, EnqueueTurn
<1>2. ASSUME NEW t \in Turns, NEW w \in Workers, ClaimNextTurn(t, w)
      PROVE  TypeOK'
  BY <1>2, StartTypeOK DEF ClaimNextTurn
<1>3. ASSUME NEW t \in Turns, NEW w \in Workers, HeartbeatTurn(t, w)
      PROVE  TypeOK'
  <2> DEFINE r == [turns[t] EXCEPT !.age = 0]
  <2>1. turns[t] \in TurnRecord
    BY <1>3, RowTyped DEF HeartbeatTurn, Owns, Status
  <2>2. r \in TurnRecord /\ r.worker # None /\ r.status \in Started
    BY <1>3, <2>1 DEF TurnRecord, Status, Started, HeartbeatTurn, Owns
  <2>3. turns' = [turns EXCEPT ![t] = r]
    BY <1>3 DEF HeartbeatTurn
  <2> QED BY <1>3, <2>2, <2>3, RowUpdate DEF HeartbeatTurn, TypeOK, Started
<1>4. ASSUME NEW t \in Turns, NEW w \in Workers, CompleteTurn(t, w)
      PROVE  TypeOK'
  <2> DEFINE r == [turns[t] EXCEPT !.status = "completed", !.age = 0]
  <2>1. turns[t] \in TurnRecord
    BY <1>4, RowTyped DEF CompleteTurn, Owns, Status
  <2>2. r \in TurnRecord /\ r.worker # None /\ r.status \in Started
    BY <1>4, <2>1, SetStatus DEF TurnRecord, Status, Started, CompleteTurn, Owns
  <2>3. turns' = [turns EXCEPT ![t] = r]
    BY <1>4 DEF CompleteTurn
  <2>4. [turn |-> t, role |-> "assistant"] \in Message
    BY DEF Message
  <2>5. messages' \in [Sessions -> Seq(Message)]
    BY <1>4, <2>1, <2>4 DEF TypeOK, CompleteTurn, TurnRecord
  <2> QED BY <1>4, <2>2, <2>3, <2>5, RowUpdate DEF CompleteTurn, TypeOK, Started
<1>5. ASSUME NEW t \in Turns, NEW w \in Workers, FailTurn(t, w)
      PROVE  TypeOK'
  <2> DEFINE r == [turns[t] EXCEPT !.status = "failed", !.age = 0]
  <2>1. turns[t] \in TurnRecord
    BY <1>5, RowTyped DEF FailTurn, Owns, Status
  <2>2. r \in TurnRecord /\ r.worker # None /\ r.status \in Started
    BY <1>5, <2>1, SetStatus DEF TurnRecord, Status, Started, FailTurn, Owns
  <2>3. turns' = [turns EXCEPT ![t] = r]
    BY <1>5 DEF FailTurn
  <2> QED BY <1>5, <2>2, <2>3, RowUpdate DEF FailTurn, TypeOK, Started
<1>6. ASSUME FailStaleRunningTurns PROVE TypeOK'
  <2>1. ASSUME NEW t \in Turns
        PROVE  /\ turns'[t] \in TurnRecord \cup {NoTurn}
               /\ turns'[t].worker # None <=> turns'[t].status \in Started
    <3>1. CASE Stale(t)
      <4>1. turns[t] \in TurnRecord
        BY <3>1, RowTyped DEF Stale, Status
      <4>2. turns'[t] = [turns[t] EXCEPT !.status = "failed", !.age = 0]
        BY <1>6, <3>1 DEF FailStaleRunningTurns
      <4>3. turns'[t] \in TurnRecord
        BY <4>1, <4>2, SetStatus DEF Status
      <4>4. turns[t].worker # None
        BY <3>1 DEF Stale, TypeOK
      <4>5. turns'[t].worker = turns[t].worker /\ turns'[t].status = "failed"
        BY <4>1, <4>2 DEF TurnRecord
      <4> QED BY <4>3, <4>4, <4>5 DEF Started
    <3>2. CASE ~Stale(t)
      BY <1>6, <3>2 DEF FailStaleRunningTurns, TypeOK, Started
    <3> QED BY <3>1, <3>2
  <2> QED BY <1>6, <2>1 DEF FailStaleRunningTurns, TypeOK, Started
<1>7. ASSUME NEW s \in Sessions, EndSession(s) PROVE TypeOK'
  BY <1>7 DEF TypeOK, EndSession
<1>8. ASSUME Tick PROVE TypeOK'
  <2>1. ASSUME NEW t \in Turns
        PROVE  /\ turns'[t] \in TurnRecord \cup {NoTurn}
               /\ turns'[t].worker # None <=> turns'[t].status \in Started
    <3>1. CASE turns[t].status = "running" /\ turns[t].age < StaleTimeout
      <4>1. turns[t] \in TurnRecord
        BY <3>1, RowTyped DEF Status
      <4>2. turns'[t] = [turns[t] EXCEPT !.age = @ + 1]
        BY <1>8, <3>1 DEF Tick
      <4>3. turns[t].age + 1 \in 0..StaleTimeout
        BY <3>1, <4>1 DEF TurnRecord
      <4>4. turns'[t] \in TurnRecord
        BY <4>1, <4>2, <4>3 DEF TurnRecord
      <4>5. turns[t].worker # None
        BY <3>1 DEF TypeOK
      <4>6. turns'[t].worker = turns[t].worker /\ turns'[t].status = "running"
        BY <3>1, <4>1, <4>2 DEF TurnRecord
      <4> QED BY <4>4, <4>5, <4>6 DEF Started
    <3>2. CASE ~(turns[t].status = "running" /\ turns[t].age < StaleTimeout)
      BY <1>8, <3>2 DEF Tick, TypeOK, Started
    <3> QED BY <3>1, <3>2
  <2> QED BY <1>8, <2>1 DEF Tick, TypeOK, Started
<1>9. ASSUME UNCHANGED storeVars PROVE TypeOK'
  BY <1>9 DEF TypeOK, storeVars
<1> QED
  BY <1>1, <1>2, <1>3, <1>4, <1>5, <1>6, <1>7, <1>8, <1>9 DEF StoreNext, PostMessage

\* The columns of session_turns, sessions and messages keep their types.
THEOREM TypeCorrect == StoreSpec => []TypeOK
<1>1. StoreInit => TypeOK
  BY DEF StoreInit, TypeOK, NoTurn
<1> QED BY <1>1, StepTypeOK, PTL DEF StoreSpec

-----------------------------------------------------------------------------
\* The relations between the rows of the turn table and the transcripts.
Related == OneRunningPerSession /\ TranscriptMatchesTurns /\ UniqueClientId

\* Refreshing updated_at, or letting it age, disturbs none of them.
LEMMA AgeOnly ==
  ASSUME Related, messages' = messages,
         \A u \in Turns : /\ turns'[u].session = turns[u].session
                          /\ turns'[u].client = turns[u].client
                          /\ turns'[u].status = turns[u].status
  PROVE  Related'
<1>1. \A s \in Sessions : TurnsOf(s)' = TurnsOf(s)
  BY DEF TurnsOf
<1>2. \A s \in Sessions : Running(s)' = Running(s)
  BY <1>1 DEF TurnsOf, Running
<1>3. \A s \in Sessions : Open(s)' = Open(s)
  BY <1>1 DEF TurnsOf, Open
<1>4. OneRunningPerSession'
  BY <1>2 DEF Related, OneRunningPerSession
<1>5. TranscriptMatchesTurns'
  BY <1>1 DEF Related, TranscriptMatchesTurns, HasMessage, TurnsOf
<1>6. UniqueClientId'
  BY <1>1 DEF Related, UniqueClientId, TurnsOf
<1> QED BY <1>4, <1>5, <1>6 DEF Related

\* Ending open turns without an answer disturbs none of them either.
LEMMA FailedOnly ==
  ASSUME Related, messages' = messages,
         \A u \in Turns :
           /\ turns'[u].session = turns[u].session
           /\ turns'[u].client = turns[u].client
           /\ \/ turns'[u].status = turns[u].status
              \/ turns[u].status = "running" /\ turns'[u].status = "failed"
  PROVE  Related'
<1>1. \A s \in Sessions : TurnsOf(s)' = TurnsOf(s)
  BY DEF TurnsOf
<1>2. \A s \in Sessions : Running(s)' \subseteq Running(s)
  BY <1>1 DEF TurnsOf, Running
<1>3. \A s \in Sessions : Open(s)' \subseteq Open(s)
  BY <1>1 DEF TurnsOf, Open
<1>4. OneRunningPerSession'
  BY <1>2 DEF Related, OneRunningPerSession
<1>5. TranscriptMatchesTurns'
  BY <1>1 DEF Related, TranscriptMatchesTurns, HasMessage, TurnsOf
<1>6. UniqueClientId'
  BY <1>1 DEF Related, UniqueClientId, TurnsOf
<1> QED BY <1>4, <1>5, <1>6 DEF Related

\* A claim starts a queued turn of a session with no running one.
LEMMA StartRelated ==
  ASSUME TypeOK, Related, NEW t \in Turns, NEW w \in Workers, StartTurn(t, w)
  PROVE  Related'
<1>1. /\ turns[t].status = "queued"
      /\ Running(turns[t].session) = {}
      /\ session[turns[t].session] # "ended"
      /\ session' = session /\ messages' = messages
  BY DEF StartTurn, Claimable
<1>2. turns[t] \in TurnRecord
  BY <1>1, RowTyped DEF Status
<1>3. /\ turns'[t].status = "running"
      /\ turns'[t].session = turns[t].session
      /\ turns'[t].client = turns[t].client
      /\ \A u \in Turns \ {t} : turns'[u] = turns[u]
  BY <1>2 DEF StartTurn, TypeOK, TurnRecord
<1>4. \A s \in Sessions : TurnsOf(s)' = TurnsOf(s)
  BY <1>3 DEF TurnsOf
<1>5. OneRunningPerSession'
  BY <1>1, <1>3, <1>4 DEF Related, OneRunningPerSession, Running, TurnsOf
<1>6. TranscriptMatchesTurns'
  BY <1>1, <1>3, <1>4 DEF Related, TranscriptMatchesTurns, HasMessage, TurnsOf
<1>7. UniqueClientId'
  BY <1>1, <1>3, <1>4 DEF Related, UniqueClientId, TurnsOf
<1> QED BY <1>5, <1>6, <1>7 DEF Related

\* Appending a message that the transcript does not hold yet, for a turn of the
\* session, keeps the transcript free of duplicates and of foreign messages.
LEMMA AppendFresh ==
  ASSUME NEW m \in Seq(Message), NEW x \in Message,
         \A i, j \in 1..Len(m) : m[i] = m[j] => i = j,
         \A i \in 1..Len(m) : m[i] # x
  PROVE  \A i, j \in 1..Len(Append(m, x)) : Append(m, x)[i] = Append(m, x)[j] => i = j
OBVIOUS

\* A post adds a queued row and its user message to a live session.
LEMMA EnqueueRelated ==
  ASSUME TypeOK, Related, NEW t \in Turns, NEW s \in Sessions, NEW c \in ClientIds,
         NEW h \in Contents, NEW now \in 1..MaxStamp, EnqueueTurn(t, s, c, h, now)
  PROVE  Related'
<1> USE NoneAssumption
<1> DEFINE x == [turn |-> t, role |-> "user"]
<1>1. /\ turns[t] = NoTurn
      /\ session[s] # "ended"
      /\ session' = session
      /\ \A u \in TurnsOf(s) : turns[u].client # c
  BY DEF EnqueueTurn
<1>2. /\ turns'[t].status = "queued" /\ turns'[t].session = s /\ turns'[t].client = c
      /\ \A u \in Turns \ {t} : turns'[u] = turns[u]
  BY DEF EnqueueTurn, TypeOK
<1>3. /\ turns[t].session = None /\ turns[t].status = "none"
      /\ \A r \in Sessions : t \notin TurnsOf(r)
  BY <1>1 DEF NoTurn, TurnsOf
<1>4. /\ TurnsOf(s)' = TurnsOf(s) \cup {t}
      /\ \A r \in Sessions \ {s} : TurnsOf(r)' = TurnsOf(r)
  BY <1>2, <1>3 DEF TurnsOf
<1>5. /\ messages[s] \in Seq(Message) /\ x \in Message
      /\ messages'[s] = Append(messages[s], x)
      /\ \A r \in Sessions \ {s} : messages'[r] = messages[r]
  BY DEF EnqueueTurn, TypeOK, Message
<1>6. \A i \in 1..Len(messages[s]) : messages[s][i].turn # t
  BY <1>3 DEF Related, TranscriptMatchesTurns
<1>7. OneRunningPerSession'
  BY <1>2, <1>3, <1>4 DEF Related, OneRunningPerSession, Running, TurnsOf
<1>8. UniqueClientId'
  BY <1>1, <1>2, <1>3, <1>4 DEF Related, UniqueClientId, TurnsOf
<1>9. TranscriptMatchesTurns'
  <2> SUFFICES ASSUME NEW r \in Sessions
               PROVE
        (/\ \A i, j \in 1..Len(messages[r]) : messages[r][i] = messages[r][j] => i = j
         /\ \A i \in 1..Len(messages[r]) : messages[r][i].turn \in TurnsOf(r)
         /\ \A u \in TurnsOf(r) :
              /\ HasMessage(r, u, "user")
              /\ HasMessage(r, u, "assistant") <=> turns[u].status = "completed"
         /\ \A i, j \in 1..Len(messages[r]) :
              /\ messages[r][i].turn = messages[r][j].turn
              /\ messages[r][i].role = "user"
              /\ messages[r][j].role = "assistant"
              => i < j)'
    BY DEF TranscriptMatchesTurns
  <2>1. CASE r # s
    <3>1. messages'[r] = messages[r] /\ TurnsOf(r)' = TurnsOf(r)
      BY <2>1, <1>4, <1>5
    <3>2. \A u \in TurnsOf(r) : turns'[u] = turns[u]
      BY <1>2, <1>3 DEF TurnsOf
    <3>3. \A u \in Turns : /\ HasMessage(r, u, "user")' <=> HasMessage(r, u, "user")
                           /\ HasMessage(r, u, "assistant")' <=> HasMessage(r, u, "assistant")
      BY <3>1 DEF HasMessage
    <3> QED BY <3>1, <3>2, <3>3 DEF Related, TranscriptMatchesTurns, TurnsOf
  <2>2. CASE r = s
    <3>1. \A i \in 1..Len(messages[s]) : messages[s][i] # x
      BY <1>6
    <3>2. \A i, j \in 1..Len(messages'[s]) : messages'[s][i] = messages'[s][j] => i = j
      BY <1>5, <3>1, AppendFresh DEF Related, TranscriptMatchesTurns
    <3>3. \A i \in 1..Len(messages'[s]) : messages'[s][i].turn \in TurnsOf(s)'
      BY <1>4, <1>5 DEF Related, TranscriptMatchesTurns
    <3>4. ASSUME NEW u \in TurnsOf(s)' PROVE HasMessage(s, u, "user")'
      <4>1. CASE u = t
        BY <4>1, <1>5 DEF HasMessage
      <4>2. CASE u \in TurnsOf(s)
        <5>1. HasMessage(s, u, "user")
          BY <4>2 DEF Related, TranscriptMatchesTurns
        <5> QED BY <5>1, <1>5 DEF HasMessage
      <4> QED BY <4>1, <4>2, <1>4
    <3>5. ASSUME NEW u \in TurnsOf(s)'
          PROVE  HasMessage(s, u, "assistant")' <=> turns'[u].status = "completed"
      <4>1. CASE u = t
        <5>1. \A i \in 1..Len(messages'[s]) :
                messages'[s][i] # [turn |-> t, role |-> "assistant"]
          BY <1>5, <1>6
        <5> QED BY <4>1, <5>1, <1>2 DEF HasMessage
      <4>2. CASE u # t
        <5>1. u \in TurnsOf(s) /\ turns'[u] = turns[u]
          BY <4>2, <1>2, <1>4 DEF TurnsOf
        <5>2. HasMessage(s, u, "assistant")' <=> HasMessage(s, u, "assistant")
          BY <1>5, <4>2 DEF HasMessage
        <5> QED BY <5>1, <5>2 DEF Related, TranscriptMatchesTurns
      <4> QED BY <4>1, <4>2
    <3>6. ASSUME NEW i \in 1..Len(messages'[s]), NEW j \in 1..Len(messages'[s]),
                 messages'[s][i].turn = messages'[s][j].turn,
                 messages'[s][i].role = "user", messages'[s][j].role = "assistant"
          PROVE  i < j
      <4>1. j \in 1..Len(messages[s]) /\ messages'[s][j] = messages[s][j]
        BY <1>5, <3>6
      <4>2. i \in 1..Len(messages[s]) /\ messages'[s][i] = messages[s][i]
        BY <1>5, <1>6, <3>6, <4>1
      <4> QED BY <3>6, <4>1, <4>2 DEF Related, TranscriptMatchesTurns
    <3> QED BY <2>2, <3>2, <3>3, <3>4, <3>5, <3>6
  <2> QED BY <2>1, <2>2
<1> QED BY <1>7, <1>8, <1>9 DEF Related

\* A completion adds the assistant message of the running turn it finishes.
LEMMA CompleteRelated ==
  ASSUME TypeOK, Related, NEW t \in Turns, NEW w \in Workers, CompleteTurn(t, w)
  PROVE  Related'
<1> DEFINE x == [turn |-> t, role |-> "assistant"]
<1>1. turns[t].status = "running" /\ session' = session
  BY DEF CompleteTurn, Owns
<1>2. turns[t] \in TurnRecord
  BY <1>1, RowTyped DEF Status
<1> PICK s \in Sessions : s = turns[t].session
  BY <1>2 DEF TurnRecord
<1>3. /\ turns'[t].status = "completed"
      /\ turns'[t].session = turns[t].session
      /\ turns'[t].client = turns[t].client
      /\ \A u \in Turns \ {t} : turns'[u] = turns[u]
  BY <1>2 DEF CompleteTurn, TypeOK, TurnRecord
<1>4. \A r \in Sessions : TurnsOf(r)' = TurnsOf(r)
  BY <1>3 DEF TurnsOf
<1>5. /\ messages[s] \in Seq(Message) /\ x \in Message
      /\ messages'[s] = Append(messages[s], x)
      /\ \A r \in Sessions \ {s} : messages'[r] = messages[r]
  BY <1>2 DEF CompleteTurn, TypeOK, Message
<1>6. OneRunningPerSession'
  BY <1>3, <1>4 DEF Related, OneRunningPerSession, Running, TurnsOf
<1>7. UniqueClientId'
  BY <1>3, <1>4 DEF Related, UniqueClientId, TurnsOf
<1>8. TranscriptMatchesTurns'
  <2> SUFFICES ASSUME NEW r \in Sessions
               PROVE
        (/\ \A i, j \in 1..Len(messages[r]) : messages[r][i] = messages[r][j] => i = j
         /\ \A i \in 1..Len(messages[r]) : messages[r][i].turn \in TurnsOf(r)
         /\ \A u \in TurnsOf(r) :
              /\ HasMessage(r, u, "user")
              /\ HasMessage(r, u, "assistant") <=> turns[u].status = "completed"
         /\ \A i, j \in 1..Len(messages[r]) :
              /\ messages[r][i].turn = messages[r][j].turn
              /\ messages[r][i].role = "user"
              /\ messages[r][j].role = "assistant"
              => i < j)'
    BY DEF TranscriptMatchesTurns
  <2>1. CASE r # s
    <3>1. t \notin TurnsOf(r)
      BY <2>1 DEF TurnsOf
    <3>2. messages'[r] = messages[r] /\ TurnsOf(r)' = TurnsOf(r)
      BY <2>1, <1>4, <1>5
    <3>3. \A u \in TurnsOf(r) : turns'[u] = turns[u]
      BY <1>3, <3>1 DEF TurnsOf
    <3>4. \A u \in Turns : /\ HasMessage(r, u, "user")' <=> HasMessage(r, u, "user")
                           /\ HasMessage(r, u, "assistant")' <=> HasMessage(r, u, "assistant")
      BY <3>2 DEF HasMessage
    <3> QED BY <3>2, <3>3, <3>4 DEF Related, TranscriptMatchesTurns, TurnsOf
  <2>2. CASE r = s
    <3>0. t \in TurnsOf(s)
      BY DEF TurnsOf
    <3>1. \A i \in 1..Len(messages[s]) : messages[s][i] # x
      BY DEF CompleteTurn, HasMessage
    <3>2. \A i, j \in 1..Len(messages'[s]) : messages'[s][i] = messages'[s][j] => i = j
      <4>1. \A i, j \in 1..Len(messages[s]) : messages[s][i] = messages[s][j] => i = j
        BY DEF Related, TranscriptMatchesTurns
      <4> HIDE DEF x
      <4> QED BY <1>5, <3>1, <4>1, AppendFresh
    <3>3. \A i \in 1..Len(messages'[s]) : messages'[s][i].turn \in TurnsOf(s)'
      BY <1>2, <1>4, <1>5, <3>0 DEF Related, TranscriptMatchesTurns
    <3>4. ASSUME NEW u \in TurnsOf(s)' PROVE HasMessage(s, u, "user")'
      <4>1. HasMessage(s, u, "user")
        BY <1>4 DEF Related, TranscriptMatchesTurns
      <4> QED BY <4>1, <1>5 DEF HasMessage
    <3>5. ASSUME NEW u \in TurnsOf(s)'
          PROVE  HasMessage(s, u, "assistant")' <=> turns'[u].status = "completed"
      <4>1. CASE u = t
        BY <4>1, <1>3, <1>5, SMTT(30) DEF HasMessage
      <4>2. CASE u # t
        <5>1. u \in TurnsOf(s) /\ turns'[u] = turns[u]
          BY <4>2, <1>2, <1>3, <1>4 DEF TurnsOf
        <5>2. HasMessage(s, u, "assistant")' <=> HasMessage(s, u, "assistant")
          BY <1>5, <4>2 DEF HasMessage
        <5> QED BY <1>2, <5>1, <5>2 DEF Related, TranscriptMatchesTurns
      <4> QED BY <4>1, <4>2
    <3>6. ASSUME NEW i \in 1..Len(messages'[s]), NEW j \in 1..Len(messages'[s]),
                 messages'[s][i].turn = messages'[s][j].turn,
                 messages'[s][i].role = "user", messages'[s][j].role = "assistant"
          PROVE  i < j
      <4>1. i \in 1..Len(messages[s]) /\ messages'[s][i] = messages[s][i]
        BY <1>5, <3>6
      <4>2. CASE j \in 1..Len(messages[s])
        BY <1>2, <1>5, <3>6, <4>1, <4>2 DEF Related, TranscriptMatchesTurns
      <4>3. CASE j = Len(messages[s]) + 1
        BY <1>5, <4>1, <4>3
      <4> QED BY <1>5, <4>2, <4>3
    <3> QED BY <2>2, <3>2, <3>3, <3>4, <3>5, <3>6
  <2> QED BY <2>1, <2>2
<1> QED BY <1>6, <1>7, <1>8 DEF Related

\* Every operation keeps the relations.
LEMMA StepRelated == TypeOK /\ Related /\ [StoreNext]_storeVars => Related'
<1> SUFFICES ASSUME TypeOK, Related, [StoreNext]_storeVars PROVE Related'
  OBVIOUS
<1>1. ASSUME NEW t \in Turns, NEW w \in Workers, HeartbeatTurn(t, w) PROVE Related'
  <2>1. turns[t] \in TurnRecord
    BY <1>1, RowTyped DEF HeartbeatTurn, Owns, Status
  <2> QED BY <1>1, <2>1, AgeOnly DEF HeartbeatTurn, TypeOK, TurnRecord
<1>2. ASSUME NEW t \in Turns, NEW w \in Workers, FailTurn(t, w) PROVE Related'
  <2>1. turns[t] \in TurnRecord
    BY <1>2, RowTyped DEF FailTurn, Owns, Status
  <2>2. \A u \in Turns : /\ turns'[u].session = turns[u].session
                         /\ turns'[u].client = turns[u].client
                         /\ \/ turns'[u].status = turns[u].status
                            \/ turns[u].status = "running" /\ turns'[u].status = "failed"
    BY <1>2, <2>1 DEF FailTurn, Owns, TypeOK, TurnRecord
  <2> QED BY <1>2, <2>2, FailedOnly DEF FailTurn
<1>3. ASSUME FailStaleRunningTurns PROVE Related'
  <2>1. ASSUME NEW u \in Turns
        PROVE  /\ turns'[u].session = turns[u].session
               /\ turns'[u].client = turns[u].client
               /\ \/ turns'[u].status = turns[u].status
                  \/ turns[u].status = "running" /\ turns'[u].status = "failed"
    <3>1. CASE Stale(u)
      <4>1. turns[u] \in TurnRecord
        BY <3>1, RowTyped DEF Stale, Status
      <4> QED BY <1>3, <3>1, <4>1 DEF FailStaleRunningTurns, Stale, TurnRecord
    <3>2. CASE ~Stale(u)
      BY <1>3, <3>2 DEF FailStaleRunningTurns
    <3> QED BY <3>1, <3>2
  <2> QED BY <1>3, <2>1, FailedOnly DEF FailStaleRunningTurns
<1>4. ASSUME NEW s \in Sessions, EndSession(s) PROVE Related'
  BY <1>4, AgeOnly DEF EndSession
<1>5. ASSUME Tick PROVE Related'
  <2>1. ASSUME NEW u \in Turns
        PROVE  /\ turns'[u].session = turns[u].session
               /\ turns'[u].client = turns[u].client
               /\ turns'[u].status = turns[u].status
    <3>1. CASE turns[u].status = "running" /\ turns[u].age < StaleTimeout
      <4>1. turns[u] \in TurnRecord
        BY <3>1, RowTyped DEF Status
      <4> QED BY <1>5, <3>1, <4>1 DEF Tick, TurnRecord
    <3>2. CASE ~(turns[u].status = "running" /\ turns[u].age < StaleTimeout)
      BY <1>5, <3>2 DEF Tick
    <3> QED BY <3>1, <3>2
  <2> QED BY <1>5, <2>1, AgeOnly DEF Tick
<1>6. ASSUME UNCHANGED storeVars PROVE Related'
  BY <1>6, AgeOnly DEF storeVars
<1> QED
  BY <1>1, <1>2, <1>3, <1>4, <1>5, <1>6, StartRelated, CompleteRelated, EnqueueRelated
  DEF StoreNext, PostMessage, ClaimNextTurn

\* An ended session stays without open turns: only a live one is posted to.
LEMMA StepQuiet ==
  TypeOK /\ EndedSessionIsQuiet /\ [StoreNext]_storeVars => EndedSessionIsQuiet'
<1> SUFFICES ASSUME TypeOK, EndedSessionIsQuiet, [StoreNext]_storeVars,
                    NEW s \in Sessions, session'[s] = "ended", NEW t \in Turns,
                    turns'[t].session = s, turns'[t].status \in {"queued", "running"}
             PROVE  FALSE
  BY DEF EndedSessionIsQuiet, Open, TurnsOf
<1> DEFINE WasOpen == turns[t].session = s /\ turns[t].status \in {"queued", "running"}
<1>1. session[s] = "ended" => ~WasOpen
  BY DEF EndedSessionIsQuiet, Open, TurnsOf
<1>2. ASSUME NEW u \in Turns, NEW r \in Sessions, NEW c \in ClientIds,
             NEW h \in Contents, NEW now \in 1..MaxStamp, EnqueueTurn(u, r, c, h, now)
      PROVE  FALSE
  BY <1>1, <1>2 DEF EnqueueTurn, TypeOK
<1>3. ASSUME NEW u \in Turns, NEW w \in Workers, ClaimNextTurn(u, w) PROVE FALSE
  <2>1. turns[u] \in TurnRecord
    BY <1>3, RowTyped DEF ClaimNextTurn, StartTurn, Claimable, Status
  <2> QED BY <1>1, <1>3, <2>1 DEF ClaimNextTurn, StartTurn, Claimable, TypeOK, TurnRecord
<1>4. ASSUME NEW u \in Turns, NEW w \in Workers,
             HeartbeatTurn(u, w) \/ CompleteTurn(u, w) \/ FailTurn(u, w)
      PROVE  FALSE
  <2>1. turns[u].status = "running" /\ session' = session
    BY <1>4 DEF HeartbeatTurn, CompleteTurn, FailTurn, Owns
  <2>2. turns[u] \in TurnRecord
    BY <2>1, RowTyped DEF Status
  <2>3. /\ turns'[u].session = turns[u].session
        /\ \A v \in Turns \ {u} : turns'[v] = turns[v]
    <3>1. CASE HeartbeatTurn(u, w)
      BY <2>2, <3>1 DEF HeartbeatTurn, TypeOK, TurnRecord
    <3>2. CASE CompleteTurn(u, w)
      BY <2>2, <3>2 DEF CompleteTurn, TypeOK, TurnRecord
    <3>3. CASE FailTurn(u, w)
      BY <2>2, <3>3 DEF FailTurn, TypeOK, TurnRecord
    <3> QED BY <1>4, <3>1, <3>2, <3>3
  <2> QED BY <1>1, <2>1, <2>3
<1>5. ASSUME FailStaleRunningTurns PROVE FALSE
  <2>1. CASE Stale(t)
    <3>1. turns[t] \in TurnRecord
      BY <2>1, RowTyped DEF Stale, Status
    <3> QED BY <1>5, <2>1, <3>1 DEF FailStaleRunningTurns, TurnRecord
  <2>2. CASE ~Stale(t)
    BY <1>1, <1>5, <2>2 DEF FailStaleRunningTurns
  <2> QED BY <2>1, <2>2
<1>6. ASSUME NEW r \in Sessions, EndSession(r) PROVE FALSE
  BY <1>1, <1>6 DEF EndSession, Open, TurnsOf, TypeOK
<1>7. ASSUME Tick PROVE FALSE
  <2>1. CASE turns[t].status = "running" /\ turns[t].age < StaleTimeout
    <3>1. turns[t] \in TurnRecord
      BY <2>1, RowTyped DEF Status
    <3> QED BY <1>1, <1>7, <2>1, <3>1 DEF Tick, TurnRecord
  <2>2. CASE ~(turns[t].status = "running" /\ turns[t].age < StaleTimeout)
    BY <1>1, <1>7, <2>2 DEF Tick
  <2> QED BY <2>1, <2>2
<1>8. ASSUME UNCHANGED storeVars PROVE FALSE
  BY <1>1, <1>8 DEF storeVars
<1> QED BY <1>2, <1>3, <1>4, <1>5, <1>6, <1>7, <1>8 DEF StoreNext, PostMessage

\* One running turn per session, quiet ended sessions, a transcript that agrees
\* with the turn table and one turn per client id, in every reachable state.
THEOREM StoreSafety ==
  StoreSpec => [](/\ OneRunningPerSession /\ EndedSessionIsQuiet
                  /\ TranscriptMatchesTurns /\ UniqueClientId)
<1>1. StoreInit => Related /\ EndedSessionIsQuiet
  BY NoneAssumption DEF StoreInit, Related, OneRunningPerSession, EndedSessionIsQuiet,
       TranscriptMatchesTurns, UniqueClientId, TurnsOf, Running, Open, NoTurn
<1>2. StoreSpec => [](Related /\ EndedSessionIsQuiet)
  BY <1>1, TypeCorrect, StepRelated, StepQuiet, PTL DEF StoreSpec
<1> QED BY <1>2, PTL DEF Related

\* The history a running turn is given holds answered turns of its session only.
THEOREM ContextAnswered == StoreSpec => []ContextOnlyAnswered
<1>1. TypeOK /\ TranscriptMatchesTurns => ContextOnlyAnswered
  <2> SUFFICES ASSUME TypeOK, TranscriptMatchesTurns, NEW t \in Turns,
                      turns[t].status = "running",
                      NEW i \in PriorMessages(t)
               PROVE  LET u == messages[turns[t].session][i].turn IN
                      /\ u # t
                      /\ turns[u].status = "completed"
                      /\ turns[u].session = turns[t].session
    BY DEF ContextOnlyAnswered
  <2>1. turns[t] \in TurnRecord
    BY RowTyped DEF Status
  <2> PICK s \in Sessions : s = turns[t].session
    BY <2>1 DEF TurnRecord
  <2> DEFINE u == messages[s][i].turn
  <2>2. HasMessage(s, t, "user")
    BY DEF TranscriptMatchesTurns, TurnsOf
  <2>3. UserSeq(t) \in 1..Len(messages[s])
    <3>1. \E k \in 1..Len(messages[turns[t].session]) :
            messages[turns[t].session][k] = [turn |-> t, role |-> "user"]
      BY <2>2 DEF HasMessage
    <3> QED BY <3>1, Zenon DEF UserSeq
  <2>4. i \in 1..(UserSeq(t) - 1) /\ u \in CompleteBefore(t)
    BY DEF PriorMessages
  <2>5. PICK j \in 1..(UserSeq(t) - 1) : messages[s][j] = [turn |-> u, role |-> "assistant"]
    BY <2>4 DEF CompleteBefore
  <2>6. j \in 1..Len(messages[s])
    <3>1. Len(messages[s]) \in Nat
      BY DEF TypeOK
    <3> QED BY <2>3, <2>5, <3>1
  <2>7. u \in TurnsOf(s)
    <3>1. messages[s][j].turn \in TurnsOf(s)
      BY <2>6 DEF TranscriptMatchesTurns
    <3> QED BY <2>5, <3>1
  <2>8. turns[u].status = "completed"
    <3>1. HasMessage(s, u, "assistant")
      BY <2>5, <2>6 DEF HasMessage
    <3> QED BY <2>7, <3>1 DEF TranscriptMatchesTurns
  <2> QED BY <2>7, <2>8 DEF TurnsOf
<1> QED BY <1>1, TypeCorrect, StoreSafety, PTL

\* What any one operation may do to a row that exists.
LEMMA StepRow ==
  ASSUME TypeOK, StoreNext, NEW t \in Turns, turns[t].worker # None
  PROVE  /\ turns'[t].worker = turns[t].worker
         /\ turns[t].status = "running" \/ turns'[t] = turns[t]
         /\ turns'[t].status # "queued"
<1>1. turns[t] \in TurnRecord /\ turns[t].status \in Started
  BY DEF TypeOK, NoTurn, Started
<1>2. turns \in [Turns -> TurnRecord \cup {NoTurn}]
  BY DEF TypeOK
<1>3. CASE PostMessage
  BY <1>1, <1>2, <1>3 DEF PostMessage, EnqueueTurn, NoTurn, Started
<1>4. ASSUME NEW u \in Turns, NEW w \in Workers, ClaimNextTurn(u, w)
      PROVE  turns'[t] = turns[t]
  BY <1>1, <1>2, <1>4 DEF ClaimNextTurn, StartTurn, Claimable, Started
<1>5. ASSUME NEW u \in Turns, NEW w \in Workers, u # t,
             HeartbeatTurn(u, w) \/ CompleteTurn(u, w) \/ FailTurn(u, w)
      PROVE  turns'[t] = turns[t]
  BY <1>2, <1>5 DEF HeartbeatTurn, CompleteTurn, FailTurn
<1>6. ASSUME NEW w \in Workers, HeartbeatTurn(t, w) \/ CompleteTurn(t, w) \/ FailTurn(t, w)
      PROVE  /\ turns[t].status = "running"
             /\ turns'[t].worker = turns[t].worker
             /\ turns'[t].status # "queued"
  <2>1. turns[t].status = "running"
    BY <1>6 DEF HeartbeatTurn, CompleteTurn, FailTurn, Owns
  <2>2. CASE HeartbeatTurn(t, w)
    BY <1>1, <1>2, <2>1, <2>2 DEF HeartbeatTurn, TurnRecord
  <2>3. CASE CompleteTurn(t, w)
    BY <1>1, <1>2, <2>1, <2>3 DEF CompleteTurn, TurnRecord
  <2>4. CASE FailTurn(t, w)
    BY <1>1, <1>2, <2>1, <2>4 DEF FailTurn, TurnRecord
  <2> QED BY <1>6, <2>1, <2>2, <2>3, <2>4
<1>7. CASE FailStaleRunningTurns
  <2>1. CASE Stale(t)
    BY <1>1, <1>7, <2>1 DEF FailStaleRunningTurns, Stale, TurnRecord
  <2>2. CASE ~Stale(t)
    BY <1>1, <1>7, <2>2 DEF FailStaleRunningTurns, Started
  <2> QED BY <2>1, <2>2
<1>8. CASE Tick
  <2>1. CASE turns[t].status = "running" /\ turns[t].age < StaleTimeout
    BY <1>1, <1>8, <2>1 DEF Tick, TurnRecord
  <2>2. CASE ~(turns[t].status = "running" /\ turns[t].age < StaleTimeout)
    BY <1>1, <1>8, <2>2 DEF Tick, Started
  <2> QED BY <2>1, <2>2
<1>9. ASSUME NEW s \in Sessions, EndSession(s) PROVE turns'[t] = turns[t]
  BY <1>9 DEF EndSession
<1>10. turns[t].status # "queued"
  BY <1>1 DEF Started
<1> QED
  BY <1>3, <1>4, <1>5, <1>6, <1>7, <1>8, <1>9, <1>10 DEF StoreNext

\* A started turn is never queued or started again, by any operation.
THEOREM TurnsNeverReplayed == StoreSpec => NeverReplayed
<1>1. TypeOK /\ [StoreNext]_storeVars =>
        [\A t \in Turns : turns[t].worker # None =>
           /\ turns'[t].worker = turns[t].worker
           /\ turns'[t].status # "queued"
           /\ turns[t].status # "running" => turns'[t].status # "running"]_storeVars
  BY StepRow
<1> QED BY <1>1, TypeCorrect, PTL DEF StoreSpec, NeverReplayed

\* The first final status of a turn is its last.
THEOREM FirstOutcomeIsFinal == StoreSpec => TerminalIsFinal
<1>1. TypeOK /\ [StoreNext]_storeVars =>
        [\A t \in Turns : turns[t].status \in {"completed", "failed"} =>
           turns'[t] = turns[t]]_storeVars
  <2> SUFFICES ASSUME TypeOK, StoreNext, NEW t \in Turns,
                      turns[t].status \in {"completed", "failed"}
               PROVE  turns'[t] = turns[t]
    OBVIOUS
  <2>1. turns[t].worker # None /\ turns[t].status # "running"
    BY DEF TypeOK
  <2> QED BY <2>1, StepRow
<1> QED BY <1>1, TypeCorrect, PTL DEF StoreSpec, TerminalIsFinal

\* Everything the turn queue promises its callers: exclusive, final and never
\* repeated turns, a transcript that agrees with them, and honest history.
THEOREM StoreIsCorrect == StoreSpec => StoreCorrect
BY TypeCorrect, StoreSafety, ContextAnswered, TurnsNeverReplayed, FirstOutcomeIsFinal, PTL
   DEF StoreCorrect
=============================================================================
