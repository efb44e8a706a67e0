----------------------------- MODULE CellRuntime -----------------------------
(***************************************************************************)
(* One run of the agent loop over an open tm session: the model's turns,   *)
(* the batch of cells each of them asks for, and the evaluation of a cell  *)
(* with its `par` scopes and its effects.  Every start and every outcome   *)
(* is an event: it is handed to the sink, and acknowledged later.  The     *)
(* future that waits may be dropped in between: a sibling branch failed,   *)
(* the run was cancelled, or the wall clock ran out.                       *)
(*                                                                         *)
(* A program is abstracted to the names it reads and binds and the tree of *)
(* nodes it opens.  Values are the call that computed them.                *)
(***************************************************************************)
EXTENDS Integers, Sequences, FiniteSets

CONSTANTS
  Names,        \* bindings of the session
  Effects,      \* nodes that call the host
  Scopes,       \* nodes that run branches in parallel
  Above,        \* the scopes that enclose a node
  Batches,      \* the sequences of programs the model may ask for in a turn
  MaxTurns,     \* AgentConfig::max_turns
  Parallelism   \* RuntimeLimits::parallelism

VARIABLES
  token,        \* the run's cancellation was requested
  broken,       \* the sink latched a failure
  loop,         \* the agent loop
  batch,        \* the programs of the turn's calls
  env,          \* the interpreter's bindings
  logged,       \* the bindings the durable events stand for
  cell,         \* the evaluation of each call
  node          \* the nodes of each call's evaluation

cellVars == <<token, broken, loop, batch, env, logged, cell, node>>

Nodes == Effects \cup Scopes
Calls == 1..Len(batch)
Unbound == <<0, 0>>
Me(i) == <<loop.turn, i>>

CellAssumption ==
  /\ Above \in [Nodes -> SUBSET Scopes]
  /\ MaxTurns \in Nat \ {0} /\ Parallelism \in Nat \ {0}
  /\ \A t \in 1..MaxTurns : \A b \in Batches[t] :
       b \in Seq([parses : BOOLEAN, reads : SUBSET Names, writes : SUBSET Names, uses : SUBSET Nodes])
ASSUME CellAssumption

-----------------------------------------------------------------------------
(* The dependencies of a batch.                                            *)

\* The last earlier call known to bind the name, or none.
LastWriter(x, i) ==
  LET w == {j \in 1..(i - 1) : batch[j].parses /\ x \in batch[j].writes} IN
  IF w = {} THEN 0 ELSE CHOOSE j \in w : \A k \in w : k <= j

\* A call that cannot be analysed may bind anything, and reads nothing.
Dependencies(i) ==
  {j \in 1..(i - 1) : ~batch[j].parses}
    \cup (IF batch[i].parses THEN {LastWriter(x, i) : x \in batch[i].reads} \ {0} ELSE {})

StateWriting == \E i \in Calls : ~batch[i].parses \/ batch[i].writes # {}

-----------------------------------------------------------------------------
(* ActiveExecution: what a dropped evaluation leaves to be told.           *)

NewCell ==
  [at |-> "idle", status |-> "none", selected |-> FALSE, sent |-> FALSE, late |-> FALSE,
   sees |-> [x \in Names |-> Unbound], owed |-> {}, told |-> {}, out |-> "none"]
NewNode ==
  [at |-> "idle", active |-> FALSE, term |-> "none", sent |-> FALSE, begun |-> FALSE,
   owed |-> {}, told |-> {}]

Depth(n) == Cardinality(Above[n])
Inside(n, p) == p = "cell" \/ p \in Above[n]
Below(i, p) == {n \in batch[i].uses : Inside(n, p)}
Branches(i, p) == {n \in Below(i, p) : Depth(n) = IF p = "cell" THEN 0 ELSE Depth(p) + 1}
Unfinished == {"start", "run", "wait", "clean", "end"}
Active(i, p) == {n \in Below(i, p) : node[i][n].active}

\* Effects first, then the innermost scopes.
NextTold(owed) ==
  IF owed \cap Effects # {} THEN owed \cap Effects
  ELSE {s \in owed : \A r \in owed : Depth(r) <= Depth(s)}

\* The futures inside are dropped; what was recorded of them stays.
Dropped(i, p, removed) ==
  [n \in Nodes |->
    IF n \notin Below(i, p) THEN node[i][n]
    ELSE [node[i][n] EXCEPT !.at = IF @ \in Unfinished THEN "dropped" ELSE @,
                            !.active = IF removed THEN FALSE ELSE @]]

\* The outcome recorded before its event was sent wins over the cancellation.
Recorded(m, status) == IF m.term = "none" THEN status ELSE m.term

CellIs(i, s) == loop.at = "batch" /\ i \in Calls /\ cell[i].at = s
NodeIs(i, n, s) == CellIs(i, "run") /\ n \in batch[i].uses /\ node[i][n].at = s
SetCell(i, c) == cell' = [cell EXCEPT ![i] = c]
SetNode(i, n, m) == node' = [node EXCEPT ![i][n] = m]
EndCell(i, out) == SetCell(i, [cell[i] EXCEPT !.at = "done", !.out = out])

-----------------------------------------------------------------------------
(* A node.                                                                 *)

\* perform, start_scope: the node is registered, then its start is emitted.
StartNode(i, n) ==
  /\ NodeIs(i, n, "idle")
  /\ LET p == {s \in Scopes : n \in Branches(i, s)}
         siblings == IF p = {} THEN Branches(i, "cell") ELSE UNION {Branches(i, s) : s \in p}
         width == IF p = {} THEN 1 ELSE Parallelism
     IN
     /\ \A s \in p : node[i][s].at = "run"
     /\ \A m \in siblings : node[i][m].at # "err"
     /\ Cardinality({m \in siblings : node[i][m].at \in Unfinished}) < width
  /\ SetNode(i, n, [node[i][n] EXCEPT !.at = "start", !.active = TRUE])
  /\ UNCHANGED <<token, broken, loop, batch, env, logged, cell>>

TellNodeStart(i, n) ==
  /\ NodeIs(i, n, "start") /\ ~node[i][n].sent /\ ~broken
  /\ SetNode(i, n, [node[i][n] EXCEPT !.sent = TRUE, !.begun = TRUE])
  /\ UNCHANGED <<token, broken, loop, batch, env, logged, cell>>

NodeStarted(i, n) ==
  /\ NodeIs(i, n, "start") /\ node[i][n].sent
  /\ SetNode(i, n, [node[i][n] EXCEPT !.at = "run", !.sent = FALSE])
  /\ UNCHANGED <<token, broken, loop, batch, env, logged, cell>>

\* TracingApproval: the effect is suspended until the decision resumes it.
AskApproval(i, n) ==
  /\ n \in Effects /\ NodeIs(i, n, "run") /\ ~broken
  /\ SetNode(i, n, [node[i][n] EXCEPT !.at = "wait"])
  /\ UNCHANGED <<token, broken, loop, batch, env, logged, cell>>

Resumed(i, n) ==
  /\ NodeIs(i, n, "wait") /\ ~broken
  /\ SetNode(i, n, [node[i][n] EXCEPT !.at = "run"])
  /\ UNCHANGED <<token, broken, loop, batch, env, logged, cell>>

\* Mutant: the terminal is not recorded before it is emitted.
HostReturnsUnrecorded(i, n) ==
  /\ n \in Effects
  /\ \E status \in {"completed", "failed"} :
       /\ NodeIs(i, n, "run") \/ (NodeIs(i, n, "wait") /\ status = "failed")
       /\ SetNode(i, n, [node[i][n] EXCEPT !.at = "end", !.told = @ \cup {status}, !.sent = TRUE])
  /\ UNCHANGED <<token, broken, loop, batch, env, logged, cell>>

\* The terminal is recorded in ActiveExecution, then emitted, then cleared.
HostReturns(i, n) ==
  /\ n \in Effects
  /\ \E status \in {"completed", "failed"} :
       /\ NodeIs(i, n, "run") \/ (NodeIs(i, n, "wait") /\ status = "failed")
       /\ SetNode(i, n, [node[i][n] EXCEPT !.at = "end", !.term = status])
  /\ UNCHANGED <<token, broken, loop, batch, env, logged, cell>>

\* run_parallel: every branch returned a value.
JoinScope(i, n) ==
  /\ n \in Scopes /\ NodeIs(i, n, "run")
  /\ \A m \in Branches(i, n) : node[i][m].at = "ok"
  /\ SetNode(i, n, [node[i][n] EXCEPT !.at = "end", !.term = "completed"])
  /\ UNCHANGED <<token, broken, loop, batch, env, logged, cell>>

\* run_parallel drops the other branches; cancel_scope_effects takes everything
\* still active below the scope out of ActiveExecution before it emits any of it.
FailScope(i, n) ==
  /\ n \in Scopes /\ NodeIs(i, n, "run")
  /\ \E m \in Branches(i, n) : node[i][m].at = "err"
  /\ node' = [node EXCEPT ![i] =
                [Dropped(i, n, TRUE) EXCEPT ![n].at = "clean", ![n].owed = Active(i, n)]]
  /\ UNCHANGED <<token, broken, loop, batch, env, logged, cell>>

CleanScope(i, n) ==
  /\ NodeIs(i, n, "clean") /\ ~broken
  /\ \E m \in NextTold(node[i][n].owed) :
       node' = [node EXCEPT ![i][m].told = @ \cup {Recorded(node[i][m], "cancelled")},
                            ![i][n].owed = @ \ {m}]
  /\ UNCHANGED <<token, broken, loop, batch, env, logged, cell>>

ScopeCleaned(i, n) ==
  /\ NodeIs(i, n, "clean") /\ node[i][n].owed = {}
  /\ SetNode(i, n, [node[i][n] EXCEPT !.at = "end", !.term = "failed"])
  /\ UNCHANGED <<token, broken, loop, batch, env, logged, cell>>

TellNodeEnd(i, n) ==
  /\ NodeIs(i, n, "end") /\ ~node[i][n].sent /\ ~broken
  /\ SetNode(i, n, [node[i][n] EXCEPT !.sent = TRUE, !.told = @ \cup {node[i][n].term}])
  /\ UNCHANGED <<token, broken, loop, batch, env, logged, cell>>

\* The branch goes on: a failure may be handled, a value may exceed its budget.
NodeEnded(i, n) ==
  /\ NodeIs(i, n, "end") /\ node[i][n].sent
  /\ \E s \in {"ok", "err"} :
       SetNode(i, n, [node[i][n] EXCEPT !.at = s, !.active = FALSE])
  /\ UNCHANGED <<token, broken, loop, batch, env, logged, cell>>

-----------------------------------------------------------------------------
(* A cell.                                                                 *)

\* eval_batch: in order on the owner if anything may be bound, else in forks.
MayBegin(i) ==
  IF StateWriting THEN \A j \in 1..(i - 1) : cell[j].at = "done" /\ cell[j].out # "abort"
  ELSE /\ \A j \in 1..(i - 1) : cell[j].at # "idle"
       /\ Cardinality({j \in Calls : cell[j].at \notin {"idle", "done"}}) < Parallelism

DependencyFailed(i) == \E j \in Dependencies(i) : cell[j].out # "ok"

BeginCell(i) ==
  /\ CellIs(i, "idle") /\ MayBegin(i)
  /\ SetCell(i,
       IF DependencyFailed(i) THEN [cell[i] EXCEPT !.at = "refused", !.status = "failed"]
       ELSE IF token THEN [cell[i] EXCEPT !.at = "refused", !.status = "cancelled"]
       ELSE [cell[i] EXCEPT !.at = "start", !.sees = env])
  /\ UNCHANGED <<token, broken, loop, batch, env, logged, node>>

\* emit_immediate_bounded, emit_dependency_failure_bounded.
RefuseCell(i) ==
  /\ CellIs(i, "refused")
  /\ \/ /\ ~broken
        /\ SetCell(i, [cell[i] EXCEPT !.at = "done", !.out = "error", !.told = {cell[i].status}])
     \/ EndCell(i, "abort")
  /\ UNCHANGED <<token, broken, loop, batch, env, logged, node>>

TellCellStart(i) ==
  /\ CellIs(i, "start") /\ ~cell[i].sent /\ ~broken
  /\ SetCell(i, [cell[i] EXCEPT !.sent = TRUE])
  /\ UNCHANGED <<token, broken, loop, batch, env, logged, node>>

\* The parser and the checker: an unbound name fails the cell.
Valid(i) == batch[i].parses /\ \A x \in batch[i].reads : cell[i].sees[x] # Unbound

CellStarted(i) ==
  /\ CellIs(i, "start") /\ cell[i].sent
  /\ SetCell(i,
       IF Valid(i) THEN [cell[i] EXCEPT !.at = "run", !.sent = FALSE]
       ELSE [cell[i] EXCEPT !.at = "result", !.sent = FALSE, !.status = "failed", !.selected = TRUE])
  /\ UNCHANGED <<token, broken, loop, batch, env, logged, node>>

\* Evaluation or a budget fails outside every node.
FailCell(i) ==
  /\ CellIs(i, "run")
  /\ \A n \in Branches(i, "cell") : node[i][n].at \notin Unfinished
  /\ SetCell(i, [cell[i] EXCEPT !.at = "result", !.status = "failed", !.selected = TRUE])
  /\ UNCHANGED <<token, broken, loop, batch, env, logged, node>>

\* The bindings are installed before the first await of the commit.
CommitCell(i) ==
  /\ CellIs(i, "run")
  /\ \A n \in Branches(i, "cell") : node[i][n].at = "ok"
  /\ SetCell(i, [cell[i] EXCEPT !.at = "commit", !.selected = TRUE])
  /\ env' = [x \in Names |-> IF x \in batch[i].writes THEN Me(i) ELSE env[x]]
  /\ UNCHANGED <<token, broken, loop, batch, logged, node>>

TellBindings(i) ==
  /\ CellIs(i, "commit") /\ ~cell[i].sent /\ ~broken
  /\ SetCell(i, [cell[i] EXCEPT !.sent = TRUE])
  /\ logged' = [x \in Names |-> IF x \in batch[i].writes THEN Me(i) ELSE logged[x]]
  /\ UNCHANGED <<token, broken, loop, batch, env, node>>

BindingsTold(i) ==
  /\ CellIs(i, "commit") /\ cell[i].sent
  /\ SetCell(i, [cell[i] EXCEPT !.at = "result", !.sent = FALSE, !.status = "completed"])
  /\ UNCHANGED <<token, broken, loop, batch, env, logged, node>>

TellResult(i) ==
  /\ CellIs(i, "result") /\ ~cell[i].sent /\ ~broken
  /\ SetCell(i, [cell[i] EXCEPT !.sent = TRUE, !.told = @ \cup {cell[i].status}])
  /\ UNCHANGED <<token, broken, loop, batch, env, logged, node>>

ResultTold(i) ==
  /\ CellIs(i, "result") /\ cell[i].sent
  /\ EndCell(i, IF cell[i].status = "completed" THEN "ok" ELSE "error")
  /\ UNCHANGED <<token, broken, loop, batch, env, logged, node>>

\* race_evaluation: once a terminal is selected the evaluation gets its grace,
\* before that it is dropped and cancel_active_eval tells what is left.
Interrupt(i) ==
  /\ loop.at = "batch" /\ i \in Calls /\ ~cell[i].late
  /\ cell[i].at \in {"start", "run", "commit", "result"}
  /\ \E why \in {"timed_out"} \cup (IF token THEN {"cancelled"} ELSE {}) :
       IF cell[i].selected
       THEN SetCell(i, [cell[i] EXCEPT !.late = TRUE]) /\ UNCHANGED node
       ELSE /\ SetCell(i, [cell[i] EXCEPT !.at = "cancel", !.status = why, !.owed = Active(i, "cell")])
            /\ node' = [node EXCEPT ![i] = Dropped(i, "cell", TRUE)]
  /\ UNCHANGED <<token, broken, loop, batch, env, logged>>

\* TerminalPersistenceTimedOut: the recorded result is told once more.
GraceExpires(i) ==
  /\ loop.at = "batch" /\ i \in Calls /\ cell[i].late
  /\ cell[i].at \in {"commit", "result"}
  /\ SetCell(i, [cell[i] EXCEPT !.at = "cancel", !.owed = Active(i, "cell"),
                                !.status = IF cell[i].at = "result" THEN @ ELSE "failed"])
  /\ UNCHANGED <<token, broken, loop, batch, env, logged, node>>

CancelTells(i) ==
  /\ CellIs(i, "cancel") /\ ~broken
  /\ \/ \E n \in NextTold(cell[i].owed) :
          /\ SetCell(i, [cell[i] EXCEPT !.owed = @ \ {n}])
          /\ node' = [node EXCEPT ![i][n].told = @ \cup {Recorded(node[i][n], cell[i].status)}]
     \/ /\ cell[i].owed = {}
        /\ SetCell(i, [cell[i] EXCEPT !.at = "done", !.told = @ \cup {cell[i].status},
                                      !.out = IF cell[i].late THEN "abort" ELSE "error"])
        /\ UNCHANGED node
  /\ UNCHANGED <<token, broken, loop, batch, env, logged>>

\* cancel_active_bounded gives the events one second, abandon_active_eval ends it.
CancelExpires(i) ==
  /\ CellIs(i, "cancel")
  /\ EndCell(i, "abort")
  /\ UNCHANGED <<token, broken, loop, batch, env, logged, node>>

\* An event is refused: the error passes every handler and ends the session.
\* Bindings whose event was refused are taken back.
PersistenceFails(i) ==
  /\ loop.at = "batch" /\ i \in Calls /\ broken
  /\ \/ cell[i].at \in {"start", "commit", "result"} /\ ~cell[i].sent
     \/ cell[i].at = "run" /\ \E n \in batch[i].uses :
          node[i][n].at \in {"start", "clean", "end", "wait"} /\ ~node[i][n].sent
  /\ env' = IF cell[i].at = "commit" THEN cell[i].sees ELSE env
  /\ EndCell(i, "abort")
  /\ UNCHANGED <<token, broken, loop, batch, logged, node>>

-----------------------------------------------------------------------------
(* The agent loop.                                                         *)

EndRun(why) == loop' = [loop EXCEPT !.at = "ended", !.result = why]

\* check_cancelled, the inbox, the stream of the model and its validation.
ModelTurn ==
  /\ loop.at = "turn"
  /\ \/ \E b \in Batches[loop.turn + 1] :
          /\ ~token /\ ~broken
          /\ loop' = [loop EXCEPT !.at = "batch", !.turn = @ + 1, !.base = env]
          /\ batch' = b
          /\ cell' = [i \in 1..Len(b) |-> NewCell]
          /\ node' = [i \in 1..Len(b) |-> [n \in Nodes |-> NewNode]]
     \/ /\ \/ token /\ EndRun("cancelled")
           \/ broken /\ EndRun("sink")
           \/ ~token /\ ~broken /\ (EndRun("final") \/ EndRun("protocol"))
        /\ UNCHANGED <<batch, cell, node>>
  /\ UNCHANGED <<token, broken, env, logged>>

Aborted == \E i \in Calls : cell[i].out = "abort"

\* An error of the session ends the run; the backend then drops the session.
BatchReturns ==
  /\ loop.at = "batch"
  /\ \/ \A i \in Calls : cell[i].at = "done"
     \/ StateWriting /\ Aborted
  /\ IF Aborted THEN EndRun("sandbox") ELSE loop' = [loop EXCEPT !.at = "results"]
  /\ UNCHANGED <<token, broken, batch, env, logged, cell, node>>

\* A result for each call, in the order of the calls, then the next turn.
GiveResults ==
  /\ loop.at = "results"
  /\ IF token THEN EndRun("cancelled")
     ELSE IF broken THEN EndRun("sink")
     ELSE IF loop.turn = MaxTurns THEN EndRun("budget")
     ELSE loop' = [loop EXCEPT !.at = "turn"]
  /\ batch' = <<>> /\ cell' = <<>> /\ node' = <<>>
  /\ UNCHANGED <<token, broken, env, logged>>

CancelRun ==
  /\ ~token /\ loop.at # "ended"
  /\ token' = TRUE
  /\ UNCHANGED <<broken, loop, batch, env, logged, cell, node>>

BreakSink ==
  /\ ~broken /\ loop.at # "ended"
  /\ broken' = TRUE
  /\ UNCHANGED <<token, loop, batch, env, logged, cell, node>>

CellInit ==
  /\ token = FALSE /\ broken = FALSE
  /\ env = [x \in Names |-> Unbound] /\ logged = env
  /\ loop = [at |-> "turn", turn |-> 0, result |-> "none", base |-> env]
  /\ batch = <<>> /\ cell = <<>> /\ node = <<>>

NodeStep(i, n) ==
  \/ StartNode(i, n) \/ TellNodeStart(i, n) \/ NodeStarted(i, n)
  \/ AskApproval(i, n) \/ Resumed(i, n) \/ HostReturns(i, n)
  \/ JoinScope(i, n) \/ FailScope(i, n) \/ CleanScope(i, n) \/ ScopeCleaned(i, n)
  \/ TellNodeEnd(i, n) \/ NodeEnded(i, n)

CellStep(i) ==
  \/ BeginCell(i) \/ RefuseCell(i) \/ TellCellStart(i) \/ CellStarted(i)
  \/ FailCell(i) \/ CommitCell(i) \/ TellBindings(i) \/ BindingsTold(i)
  \/ TellResult(i) \/ ResultTold(i)
  \/ Interrupt(i) \/ GraceExpires(i) \/ CancelTells(i) \/ CancelExpires(i)
  \/ PersistenceFails(i)

CellNext ==
  \/ ModelTurn \/ BatchReturns \/ GiveResults \/ CancelRun \/ BreakSink
  \/ \E i \in Calls : CellStep(i) \/ \E n \in batch[i].uses : NodeStep(i, n)

-----------------------------------------------------------------------------
(* What the events and the bindings promise.                               *)

CellTypeOK ==
  /\ token \in BOOLEAN /\ broken \in BOOLEAN
  /\ loop.at \in {"turn", "batch", "results", "ended"} /\ loop.turn \in 0..MaxTurns
  /\ DOMAIN cell = Calls /\ DOMAIN node = Calls
  /\ \A i \in Calls :
       /\ cell[i].at \in {"idle", "refused", "start", "run", "commit", "result", "cancel", "done"}
       /\ cell[i].out \in {"none", "ok", "error", "abort"} /\ cell[i].owed \subseteq Nodes
       /\ (cell[i].out = "none") = (cell[i].at # "done")
       /\ \A n \in Nodes : node[i][n].at \in {"idle", "ok", "err", "dropped"} \cup Unfinished

\* Whatever is told of a node or a cell again, because nobody knows whether the
\* first event arrived, says the same outcome.
OneOutcome ==
  \A i \in Calls :
    /\ Cardinality(cell[i].told) <= 1
    /\ \A n \in Nodes : Cardinality(node[i][n].told) <= 1

\* What a scope still owed when its own cleaning was dropped is told by nobody:
\* it is no longer in ActiveExecution.
Orphans(i) == UNION {node[i][s].owed : s \in {r \in Scopes : node[i][r].at = "dropped"}}

\* A scope or a cell is over in the log only after everything that began inside.
ChildrenFirst ==
  \A i \in Calls, n \in Nodes :
    node[i][n].begun /\ node[i][n].told = {} /\ n \notin Orphans(i) =>
      cell[i].told = {} /\ \A s \in Above[n] : node[i][s].told = {}

\* A session that goes on has the bindings its durable events stand for.
BindingsAreLogged == loop.at \in {"turn", "results"} => env = logged

\* A cell that completes has read, of each name an earlier call of the batch binds,
\* the value of the last such call, and never one that a failed call left behind.
ReadsTheLastWriter ==
  \A i \in Calls : cell[i].out = "ok" =>
    \A x \in batch[i].reads :
      cell[i].sees[x] = IF LastWriter(x, i) = 0 THEN loop.base[x] ELSE <<loop.turn, LastWriter(x, i)>>

\* The agent loop and the tm session, whatever is dropped where.
CellsSafe ==
  CellTypeOK /\ OneOutcome /\ ChildrenFirst /\ BindingsAreLogged /\ ReadsTheLastWriter

\* A batch returns although no event is acknowledged and no host call answers, and
\* a cancelled run ends.
RunsEnd ==
  /\ (loop.at = "batch") ~> (loop.at # "batch")
  /\ token ~> (loop.at = "ended")
=============================================================================
