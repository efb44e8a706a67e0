----------------------------- MODULE MCServices ------------------------------
(***************************************************************************)
(* Small instances of the components whose calls must end: the agent loop  *)
(* with its cells, proc.run, the turns delegated to OMP, the event sink of *)
(* a turn, the event stream and its client, the MCP client and the remote  *)
(* worker.  They share no state.  A behaviour plays one of them, the       *)
(* scene, and leaves the others where they began.                          *)
(***************************************************************************)
EXTENDS AcpBackend, ProcIsolation, CellRuntime, SessionEvents, McpClient, RemoteWorker

CONSTANTS p1, p2, c1, c2

VARIABLE scene

services == <<sinkVars, streamVars, mcpVars, workerVars, cellVars, isoVars, acpVars, scene>>

\* An effect in a scope, and a cell that reads what another one binds.
Nested == [n \in Nodes |-> IF n = "e1" THEN {"outer"} ELSE {}]
Pure == [parses |-> TRUE, reads |-> {}, writes |-> {}, uses |-> {}]
Dialogue == <<{<<[Pure EXCEPT !.uses = {"outer", "e1"}]>>,
               <<[Pure EXCEPT !.writes = {"x"}], [Pure EXCEPT !.reads = {"x"}]>>}>>

ServicesInit ==
  /\ scene \in {"acp", "proc", "cells", "sink", "stream", "mcp", "worker"}
  /\ AcpInit /\ IsoInit /\ CellInit /\ SinkInit /\ StreamInit /\ McpInit /\ WorkerInit
  /\ scene = "proc" \/ profile = "disabled"

ServicesNext ==
  /\ UNCHANGED scene
  /\ \/ /\ scene = "sink" /\ SinkNext
        /\ UNCHANGED <<streamVars, mcpVars, workerVars, cellVars, isoVars, acpVars>>
     \/ /\ scene = "stream" /\ StreamNext
        /\ UNCHANGED <<sinkVars, mcpVars, workerVars, cellVars, isoVars, acpVars>>
     \/ /\ scene = "mcp" /\ McpNext
        /\ UNCHANGED <<sinkVars, streamVars, workerVars, cellVars, isoVars, acpVars>>
     \/ /\ scene = "worker" /\ WorkerNext
        /\ UNCHANGED <<sinkVars, streamVars, mcpVars, cellVars, isoVars, acpVars>>
     \/ /\ scene = "cells" /\ CellNext
        /\ UNCHANGED <<sinkVars, streamVars, mcpVars, workerVars, isoVars, acpVars>>
     \/ /\ scene = "proc" /\ IsoNext
        /\ UNCHANGED <<sinkVars, streamVars, mcpVars, workerVars, cellVars, acpVars>>
     \/ /\ scene = "acp" /\ AcpNext
        /\ UNCHANGED <<sinkVars, streamVars, mcpVars, workerVars, cellVars, isoVars>>

-----------------------------------------------------------------------------
(* The fairness of each component, in its own scene.                       *)
On(s, A) == scene = s /\ A

ServicesFairness ==
  /\ WF_sinkVars(On("sink", WriterStep)) /\ WF_sinkVars(On("sink", FlushReturns))
  /\ WF_streamVars(On("stream", Connect))
  /\ WF_streamVars(On("stream", ReadStatus)) /\ WF_streamVars(On("stream", ReadEvents))
  /\ WF_streamVars(On("stream", Yield)) /\ WF_streamVars(On("stream", WindowDone))
  /\ SF_streamVars(On("stream", PollTick))
  /\ WF_streamVars(On("stream", LoadStatus)) /\ WF_streamVars(On("stream", LoadRows))
  /\ WF_streamVars(On("stream", Handle))
  /\ WF_cellVars(On("cells", BatchReturns)) /\ WF_cellVars(On("cells", GiveResults))
  /\ WF_cellVars(On("cells", ModelTurn /\ token))
  /\ \A i \in 1..2 :
       /\ WF_cellVars(On("cells", BeginCell(i))) /\ WF_cellVars(On("cells", RefuseCell(i)))
       /\ WF_cellVars(On("cells", Interrupt(i))) /\ WF_cellVars(On("cells", GraceExpires(i)))
       /\ WF_cellVars(On("cells", CancelExpires(i)))
  /\ \A r \in Runs :
       /\ WF_isoVars(On("proc", TimesOut(r))) /\ WF_isoVars(On("proc", CleansUp(r)))
       /\ WF_isoVars(On("proc", CleanupFails(r))) /\ WF_isoVars(On("proc", TreeStopped(r)))
       /\ WF_isoVars(On("proc", DropEnds(r))) /\ WF_isoVars(On("proc", KilledDies(r)))
  /\ WF_acpVars(On("acp", WorkerStep))
  /\ \A t \in AcpTurns : SF_acpVars(On("acp", SendRequest(t)))
  /\ \A c \in McpCalls : WF_mcpVars(On("mcp", McpStep(c)))
  /\ \A j \in Jobs :
       WF_workerVars(On("worker", CallStep(j))) /\ WF_workerVars(On("worker", GiveUp(j)))

ServicesSpec == ServicesInit /\ [][ServicesNext]_services /\ ServicesFairness

\* Calls that cross a process end.
CallsEnd ==
  /\ EverySinkCallReturns
  /\ EveryRowIsShown
  /\ EveryRpcEnds
  /\ RemoteCallEnds
  /\ RunsEnd
  /\ CommandsEnd
  /\ DelegatedTurnEnds
=============================================================================
