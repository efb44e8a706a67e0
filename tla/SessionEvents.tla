---------------------------- MODULE SessionEvents -----------------------------
(***************************************************************************)
(* The events of a session: how those of a turn reach the durable log, and *)
(* how the log reaches a screen.  The two parts share no state here.       *)
(***************************************************************************)
EXTENDS Naturals, Sequences, SequencesExt

(***************************************************************************)
(* The sink of one turn: producers (the agent loop, effects that run in    *)
(* parallel) push events into a bounded queue; one writer task appends     *)
(* them to the session's log, folds adjacent text into one row, and        *)
(* answers those who wait for a confirmation.  A failure is latched, and   *)
(* flush reports it to the turn.  The push modelled is the try_ form; the  *)
(* on_ forms latch the error they do not return.                           *)
(***************************************************************************)
CONSTANTS
  Producers,       \* tasks that share the sink
  QueueCap,        \* EVENT_WRITER_CAPACITY (4096 in the code)
  MaxPushes,       \* bound: pushes in a behaviour
  MaxStoreFaults   \* bound: appends the store refuses

ASSUME SinkAssumption ==
  /\ QueueCap \in Nat \ {0}
  /\ MaxPushes \in Nat
  /\ MaxStoreFaults \in Nat

VARIABLES
  inbound,      \* the bounded channel
  accepted,   \* history: ids of the events whose push returned Ok
  refused,    \* history: a push returned an error before the flush
  rows,       \* the log of the turn: each row is the ids of the events in it
  wr,         \* the writer task
  latch,      \* the shared failure
  asker,      \* asker[p]: the id whose confirmation p awaits, and the answer
  flush,      \* the turn's flush: no, waiting, ok, err
  pushes, faults

sinkVars ==
  <<inbound, accepted, refused, rows, wr, latch, asker, flush, pushes, faults>>

-----------------------------------------------------------------------------
EventKinds == {"text", "other", "barrier"}
Pending == [id : 1..MaxPushes, kind : EventKinds, confirm : BOOLEAN]
Idle == [id |-> 0, said |-> "none"]
Nothing == <<>>

\* at: recv = waiting for the channel, fold = draining text, append = awaiting
\* the store, failed = returned an error, over = the task has ended.
NewWriter == [at |-> "recv", ids |-> Nothing, confirm |-> FALSE,
              deferred |-> Nothing]

SinkTypeOK ==
  /\ inbound \in Seq(Pending) /\ Len(inbound) <= QueueCap
  /\ accepted \in Seq(1..MaxPushes) /\ rows \in Seq(Seq(1..MaxPushes))
  /\ wr.at \in {"recv", "fold", "append", "failed", "over"}
  /\ wr.deferred \in Seq(Pending) /\ Len(wr.deferred) <= 1
  /\ latch \in BOOLEAN /\ refused \in BOOLEAN
  /\ asker \in [Producers -> [id : 0..MaxPushes,
                              said : {"none", "waiting", "ok", "err"}]]
  /\ flush \in {"no", "waiting", "ok", "err"}
  /\ pushes \in 0..MaxPushes /\ faults \in 0..MaxStoreFaults

SinkInit ==
  /\ inbound = Nothing /\ accepted = Nothing /\ rows = Nothing
  /\ refused = FALSE /\ latch = FALSE
  /\ wr = NewWriter
  /\ asker = [p \in Producers |-> Idle]
  /\ flush = "no" /\ pushes = 0 /\ faults = 0

Answer(ids, word) ==
  [p \in Producers |-> IF asker[p].said = "waiting" /\ asker[p].id \in ids
                       THEN [asker[p] EXCEPT !.said = word] ELSE asker[p]]

\* push_pending: a latched failure and a closed sink are early errors; a full
\* or an abandoned channel is an error that is latched.
ReceiverGone == wr.at \in {"failed", "over"}

ChannelFull == Len(inbound) >= QueueCap

Push(p, kind, confirm) ==
  /\ asker[p].said # "waiting" /\ pushes < MaxPushes
  /\ kind = "barrier" => confirm
  /\ pushes' = pushes + 1
  /\ LET id == pushes + 1
         ok == /\ ~latch /\ flush = "no"
               /\ ~ReceiverGone /\ ~ChannelFull
     IN /\ inbound' = IF ok THEN Append(inbound, [id |-> id, kind |-> kind,
                                              confirm |-> confirm]) ELSE inbound
        /\ accepted' = IF ok /\ kind # "barrier" THEN Append(accepted, id)
                                                 ELSE accepted
        /\ asker' = [asker EXCEPT ![p] =
             [id |-> id, said |-> IF ~ok THEN "err"
                                  ELSE IF confirm THEN "waiting" ELSE "none"]]
        /\ latch' = (latch \/ (~ok /\ flush = "no"))
        /\ refused' = (refused \/ (~ok /\ flush = "no"))
  /\ UNCHANGED <<rows, wr, flush, faults>>

\* The writer's recv: the deferred event first, then the channel.  A barrier is
\* answered on the spot.
Inbox == wr.deferred \o inbound

Receive ==
  /\ wr.at = "recv" /\ Inbox # Nothing
  /\ LET e == Head(Inbox)
         rest == IF wr.deferred # Nothing THEN inbound ELSE Tail(inbound)
     IN /\ inbound' = rest
        /\ IF e.kind = "barrier"
           THEN /\ wr' = NewWriter
                /\ asker' = Answer({e.id}, "ok")
           ELSE /\ wr' = [at |-> IF e.kind = "text" /\ ~e.confirm
                                 THEN "fold" ELSE "append",
                          ids |-> <<e.id>>, confirm |-> e.confirm,
                          deferred |-> Nothing]
                /\ UNCHANGED asker
  /\ UNCHANGED <<accepted, refused, rows, latch, flush, pushes, faults>>

\* merge_unconfirmed_text: only unconfirmed text joins the row; the first event
\* that does not is deferred and ends the draining.
Joins(e) == e.kind = "text" /\ ~e.confirm

\* Variant, not the code: what joins the row is put in front of it.
FoldReversed ==
  /\ wr.at = "fold"
  /\ IF inbound = Nothing
     THEN wr' = [wr EXCEPT !.at = "append"] /\ UNCHANGED inbound
     ELSE /\ inbound' = Tail(inbound)
          /\ wr' = IF Joins(Head(inbound))
                   THEN [wr EXCEPT !.ids = <<Head(inbound).id>> \o @]
                   ELSE [wr EXCEPT !.at = "append", !.deferred = <<Head(inbound)>>]
  /\ UNCHANGED <<accepted, refused, rows, latch, asker, flush, pushes, faults>>

Fold ==
  /\ wr.at = "fold"
  /\ IF inbound = Nothing
     THEN wr' = [wr EXCEPT !.at = "append"] /\ UNCHANGED inbound
     ELSE /\ inbound' = Tail(inbound)
          /\ wr' = IF Joins(Head(inbound))
                   THEN [wr EXCEPT !.ids = Append(@, Head(inbound).id)]
                   ELSE [wr EXCEPT !.at = "append", !.deferred = <<Head(inbound)>>]
  /\ UNCHANGED <<accepted, refused, rows, latch, asker, flush, pushes, faults>>

\* append_event_for_turn returns: the row is broadcast, then confirmed.
Written ==
  /\ wr.at = "append"
  /\ rows' = Append(rows, wr.ids)
  /\ wr' = [NewWriter EXCEPT !.deferred = wr.deferred]
  /\ asker' = IF wr.confirm THEN Answer(Range(wr.ids), "ok") ELSE asker
  /\ UNCHANGED <<inbound, accepted, refused, latch, flush, pushes, faults>>

\* The store refuses: the writer returns, its channel and what is in it are
\* dropped, and whoever awaits a dropped confirmation gets an error.
WriteFails ==
  /\ wr.at = "append" /\ faults < MaxStoreFaults
  /\ faults' = faults + 1
  /\ wr' = [NewWriter EXCEPT !.at = "failed"]
  /\ asker' = Answer(1..MaxPushes, "err")
  /\ inbound' = Nothing
  /\ UNCHANGED <<accepted, refused, rows, latch, flush, pushes>>

\* The wrapper around write_events latches the failure.
LatchFailure ==
  /\ wr.at = "failed"
  /\ wr' = [wr EXCEPT !.at = "over"] /\ latch' = TRUE
  /\ UNCHANGED <<inbound, accepted, refused, rows, asker, flush, pushes, faults>>

\* flush takes the sender; the writer ends when the channel is drained.
Flush ==
  /\ flush = "no"
  /\ \A p \in Producers : asker[p].said # "waiting"
  /\ flush' = "waiting"
  /\ UNCHANGED <<inbound, accepted, refused, rows, wr, latch, asker, pushes, faults>>

WriterEnds ==
  /\ wr.at = "recv" /\ Inbox = Nothing /\ flush = "waiting"
  /\ wr' = [wr EXCEPT !.at = "over"]
  /\ UNCHANGED <<inbound, accepted, refused, rows, latch, asker, flush, pushes, faults>>

FlushReturns ==
  /\ flush = "waiting" /\ wr.at = "over"
  /\ flush' = IF latch THEN "err" ELSE "ok"
  /\ UNCHANGED <<inbound, accepted, refused, rows, wr, latch, asker, pushes, faults>>

WriterStep == Receive \/ Fold \/ Written \/ WriteFails \/ LatchFailure \/ WriterEnds

SinkNext ==
  \/ \E p \in Producers, kind \in EventKinds, c \in BOOLEAN : Push(p, kind, c)
  \/ Receive \/ Fold \/ Written \/ WriteFails
  \/ LatchFailure \/ WriterEnds
  \/ Flush \/ FlushReturns

SinkFairness == WF_sinkVars(WriterStep) /\ WF_sinkVars(FlushReturns)

SinkSpec == SinkInit /\ [][SinkNext]_sinkVars /\ SinkFairness

-----------------------------------------------------------------------------
\* The log is what was accepted, in the order of acceptance: folding and the
\* deferred event neither lose, duplicate nor reorder anything.
LogIsPrefixOfAccepted == IsPrefix(FlattenSeq(rows), accepted)

\* An event or a barrier is confirmed only when it and everything accepted
\* before it is in the log.
ConfirmedIsLogged ==
  \A p \in Producers :
    asker[p].said = "ok" =>
      {accepted[i] : i \in DOMAIN accepted} \cap (1..asker[p].id)
        \subseteq Range(FlattenSeq(rows))

\* flush says Ok to the turn only when every push was accepted and is logged.
FlushIsHonest ==
  flush = "ok" => ~refused /\ FlattenSeq(rows) = accepted

\* Whoever awaits a confirmation hears an answer, and flush returns.
EverySinkCallReturns ==
  /\ \A p \in Producers : asker[p].said = "waiting" ~> asker[p].said # "waiting"
  /\ flush = "waiting" ~> flush \in {"ok", "err"}

\* What the sink's log and its answers keep.
SinkSafe ==
  /\ SinkTypeOK
  /\ LogIsPrefixOfAccepted
  /\ ConfirmedIsLogged
  /\ FlushIsHonest

-----------------------------------------------------------------------------
(***************************************************************************)
(* How the durable event log of a session reaches a screen: the SSE        *)
(* handler (subscribe, replay, live loop), the connection, the client's    *)
(* pump with its two cursors, and the load that a start of the app does.   *)
(* The log is written by this API process, which also wakes its            *)
(* subscribers, and by worker processes, which cannot.                     *)
(***************************************************************************)
CONSTANTS
  Asks,          \* approvals that may be requested in the session
  WakeCap,       \* capacity of the broadcast channel
  MaxEvents,     \* bound: length of the log
  MaxBreaks,     \* bound: lost connections, refused authentications, store errors
  MaxLoads       \* bound: starts of the app

ASSUME StreamAssumption ==
  /\ WakeCap \in Nat \ {0} /\ MaxEvents \in Nat \ {0}
  /\ MaxBreaks \in Nat /\ MaxLoads \in Nat \ {0}

VARIABLES
  elog,     \* the log: a row per event, its position is its seq
  over,     \* the session's status is "ended"
  conn,     \* the SSE handler of the current connection
  wire,     \* seqs written to the connection and not yet read by the client
  app,      \* the client
  breaks, loads

streamVars == <<elog, over, conn, wire, app, breaks, loads>>

-----------------------------------------------------------------------------
NoAsk == "none"
Event(kind, ask) == [kind |-> kind, ask |-> ask]
Rows ==
  {Event("plain", NoAsk), Event("session_end", NoAsk)}
    \cup {Event(k, a) : k \in {"approval", "approval_resolved"}, a \in Asks}

EndSeqs == {n \in DOMAIN elog : elog[n].kind = "session_end"}
Fence == IF EndSeqs = {} THEN Len(elog) ELSE CHOOSE n \in EndSeqs : TRUE

\* conn.at: off, status (about to read the status), events (about to read the
\* rows), yield (handing the window out), wait (the select of the live loop).
Off == [at |-> "off", cursor |-> 0, ended |-> FALSE, window |-> <<>>,
        terminal |-> FALSE, wakes |-> <<>>, lagged |-> FALSE]

\* app.at: closed, loading (about to read the status), rows (about to read the
\* rows), running, finished.
Closed == [at |-> "closed", ended |-> FALSE, resume |-> 0, high |-> 0,
           prompts |-> {}, settled |-> {}]

StreamTypeOK ==
  /\ elog \in Seq(Rows) /\ Len(elog) <= MaxEvents /\ over \in BOOLEAN
  /\ conn.at \in {"off", "status", "events", "yield", "wait"}
  /\ conn.cursor \in 0..MaxEvents /\ Len(conn.wakes) <= WakeCap
  /\ \A i \in DOMAIN wire : wire[i] \in DOMAIN elog
  /\ app.at \in {"closed", "loading", "rows", "running", "finished"}
  /\ app.resume <= app.high /\ app.high \in 0..MaxEvents
  /\ app.prompts \subseteq Asks /\ app.settled \subseteq Asks
  /\ breaks \in 0..MaxBreaks /\ loads \in 0..MaxLoads

StreamInit ==
  /\ elog = <<>> /\ over = FALSE
  /\ conn = Off /\ wire = <<>> /\ app = Closed
  /\ breaks = 0 /\ loads = 0

-----------------------------------------------------------------------------
(* The log. *)

Asked(a) == \E n \in DOMAIN elog : elog[n] = Event("approval", a)
Resolved(a) == \E n \in DOMAIN elog : elog[n] = Event("approval_resolved", a)

\* Only what a subscriber is told: a full channel drops its oldest message and
\* remembers that the receiver lags.
Woken(c, n) ==
  IF c.at = "off" THEN c
  ELSE IF Len(c.wakes) < WakeCap THEN [c EXCEPT !.wakes = Append(@, n)]
  ELSE [c EXCEPT !.wakes = Append(Tail(@), n), !.lagged = TRUE]

\* append_event; here = the API process appends, and broadcasts.  Rows keep
\* coming after the end of the session: dream events.
AppendRow(e, here) ==
  /\ Len(elog) < MaxEvents
  /\ e.kind = "approval" => ~Asked(e.ask) /\ ~over
  /\ e.kind = "approval_resolved" => Asked(e.ask) /\ ~Resolved(e.ask) /\ ~over
  /\ e.kind = "session_end" => ~over
  /\ elog' = Append(elog, e)
  /\ over' = (over \/ e.kind = "session_end")
  /\ conn' = IF here THEN Woken(conn, Len(elog) + 1) ELSE conn
  /\ UNCHANGED <<wire, app, breaks, loads>>

-----------------------------------------------------------------------------
(* The SSE handler: session_events. *)

\* The client opens a connection with its cursor; the handler subscribes first.
Connect ==
  /\ app.at = "running" /\ conn.at = "off" /\ wire = <<>>
  /\ conn' = [Off EXCEPT !.at = "status", !.cursor = app.resume]
  /\ UNCHANGED <<elog, over, wire, app, breaks, loads>>

\* replay_window: the status first ...
ReadStatus ==
  /\ conn.at = "status"
  /\ conn' = [conn EXCEPT !.at = "events", !.ended = over]
  /\ UNCHANGED <<elog, over, wire, app, breaks, loads>>

\* ... then the rows after the cursor, cut behind session_end; an ended session
\* whose end is behind the cursor has nothing more to show.
After(cursor) == {n \in DOMAIN elog : n > cursor}

Window(cursor, ended) ==
  LET upTo == IF EndSeqs \cap After(cursor) = {} THEN Len(elog) ELSE Fence
  IN IF EndSeqs \cap After(cursor) = {} /\ ended THEN <<>>
     ELSE [k \in 1..(upTo - cursor) |-> cursor + k]

ReadEvents ==
  /\ conn.at = "events"
  /\ conn' = [conn EXCEPT !.at = "yield",
       !.window = Window(conn.cursor, conn.ended),
       !.terminal = conn.ended \/ EndSeqs \cap After(conn.cursor) # {}]
  /\ UNCHANGED <<elog, over, wire, app, breaks, loads>>

\* Variant, not the code: a broadcast row is shown as it comes.
YieldLatest ==
  /\ conn.at = "yield" /\ conn.window # <<>>
  /\ conn' = [conn EXCEPT !.cursor = Last(conn.window), !.window = <<>>]
  /\ wire' = Append(wire, Last(conn.window))
  /\ UNCHANGED <<elog, over, app, breaks, loads>>

\* Each row moves the cursor and is written to the connection.
Yield ==
  /\ conn.at = "yield" /\ conn.window # <<>>
  /\ conn' = [conn EXCEPT !.cursor = Head(conn.window), !.window = Tail(@)]
  /\ wire' = Append(wire, Head(conn.window))
  /\ UNCHANGED <<elog, over, app, breaks, loads>>

\* The window is out: the stream ends, or goes (back) to its select.
WindowDone ==
  /\ conn.at = "yield" /\ conn.window = <<>>
  /\ conn' = IF conn.terminal THEN Off ELSE [conn EXCEPT !.at = "wait"]
  /\ UNCHANGED <<elog, over, wire, app, breaks, loads>>

\* The tick that revalidates the authentication polls the log too.
PollTick ==
  /\ conn.at = "wait"
  /\ conn' = [conn EXCEPT !.at = "status"]
  /\ UNCHANGED <<elog, over, wire, app, breaks, loads>>

\* A broadcast is a wake-up; one that is behind the cursor is skipped, a lagging
\* receiver is told so before it gets the next message.
Wake ==
  /\ conn.at = "wait"
  /\ \/ /\ conn.lagged
        /\ conn' = [conn EXCEPT !.at = "status", !.lagged = FALSE]
     \/ /\ ~conn.lagged /\ conn.wakes # <<>>
        /\ conn' = [conn EXCEPT !.wakes = Tail(@),
                     !.at = IF Head(conn.wakes) <= conn.cursor THEN @ ELSE "status"]
  /\ UNCHANGED <<elog, over, wire, app, breaks, loads>>

\* The network, a refused authentication or a store error ends the stream; what
\* the client had not read of a broken connection is lost.
Break ==
  /\ conn.at # "off" /\ breaks < MaxBreaks
  /\ breaks' = breaks + 1
  /\ conn' = Off
  /\ \E n \in 0..Len(wire) : wire' = SubSeq(wire, 1, n)
  /\ UNCHANGED <<elog, over, app, loads>>

-----------------------------------------------------------------------------
(* The client. *)

\* A start, or a switch to the session, asks for its messages.  The handler
\* reads the status, then the rows: the cursor and the prompts still open.
LoadStatus ==
  /\ app.at = "loading"
  /\ app' = [Closed EXCEPT !.at = "rows", !.ended = over]
  /\ UNCHANGED <<elog, over, conn, wire, breaks, loads>>

OpenAsks == {a \in Asks : Asked(a) /\ ~Resolved(a)}

LoadRows ==
  /\ app.at = "rows"
  /\ app' = [app EXCEPT
       !.at = IF app.ended THEN "finished" ELSE "running",
       !.resume = Len(elog), !.high = Len(elog), !.prompts = OpenAsks]
  /\ UNCHANGED <<elog, over, conn, wire, breaks, loads>>

StartApp ==
  /\ loads < MaxLoads
  /\ loads' = loads + 1
  /\ app' = [app EXCEPT !.at = "loading"]
  /\ conn' = Off /\ wire' = <<>>
  /\ UNCHANGED <<elog, over, breaks>>

\* shouldRememberEventId: a prompt must be seen again after a restart.
Remembered(e) == e.kind # "approval"

\* _pumpEvents and _handleEvent: a row is taken once, behind the high-water mark
\* nothing is; session_end ends the pump.
Handle ==
  /\ app.at = "running" /\ wire # <<>>
  /\ wire' = Tail(wire)
  /\ LET n == Head(wire)
         e == elog[n]
     IN app' =
       IF n <= app.high THEN app
       ELSE [app EXCEPT
         !.high = n,
         !.resume = IF Remembered(e) THEN n ELSE @,
         !.at = IF e.kind = "session_end" THEN "finished" ELSE @,
         !.prompts = IF e.kind = "approval" THEN @ \cup {e.ask} ELSE @,
         !.settled = IF e.kind = "approval_resolved" THEN @ \cup {e.ask} ELSE @]
  /\ UNCHANGED <<elog, over, conn, breaks, loads>>

StreamNext ==
  \/ \E e \in Rows, here \in BOOLEAN : AppendRow(e, here)
  \/ Connect \/ ReadStatus \/ ReadEvents \/ Yield \/ WindowDone
  \/ PollTick \/ Wake \/ Break
  \/ StartApp \/ LoadStatus \/ LoadRows \/ Handle

\* The select polls on its interval, the pump reconnects, a load is answered.
StreamFairness ==
  /\ WF_streamVars(Connect) /\ WF_streamVars(ReadStatus) /\ WF_streamVars(ReadEvents)
  /\ WF_streamVars(Yield) /\ WF_streamVars(WindowDone)
  /\ SF_streamVars(PollTick)
  /\ WF_streamVars(LoadStatus) /\ WF_streamVars(LoadRows)
  /\ WF_streamVars(Handle)

StreamSpec == StreamInit /\ [][StreamNext]_streamVars /\ StreamFairness

-----------------------------------------------------------------------------
\* The client takes the rows one after the other, whatever breaks in between:
\* no gap and no repetition between the load and the end of the session.
GapFreeReplay ==
  [][app.at = "running" /\ app'.at \in {"running", "finished"}
       /\ app'.high # app.high => app'.high = app.high + 1]_streamVars

\* Nothing behind session_end is ever written to a connection.
EndIsAFence == \A i \in DOMAIN wire : wire[i] <= Fence

\* Every prompt the log holds up to the client's mark, and does not resolve, is
\* on the screen.
OpenPromptsShown ==
  app.at = "running" =>
    \A n \in 1..app.high :
      elog[n].kind = "approval"
        /\ ~(\E m \in 1..app.high : elog[m] = Event("approval_resolved", elog[n].ask))
      => elog[n].ask \in app.prompts

\* A client that stays up sees every row up to the end of the session.
EveryRowIsShown ==
  \A n \in 1..MaxEvents :
    (n \in DOMAIN elog /\ n <= Fence /\ app.at = "running")
      ~> (app.high >= n \/ app.at # "running")

\* What a client of the stream may rely on.
StreamCorrect ==
  /\ []StreamTypeOK
  /\ []EndIsAFence
  /\ []OpenPromptsShown
  /\ GapFreeReplay
=============================================================================
