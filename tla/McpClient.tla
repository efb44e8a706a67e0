------------------------------ MODULE McpClient ------------------------------
(***************************************************************************)
(* The MCP client of tm-mcp against one remote server: the catalog         *)
(* discovered at process start, the remote session shared by all calls     *)
(* under one lock, tool calls (mutations with a durable effect row) and    *)
(* reads (prompts and resources).  An expired remote session is answered   *)
(* by 404: the client initializes again and repeats reads, never a         *)
(* tools/call.                                                             *)
(***************************************************************************)
EXTENDS Naturals, FiniteSets

CONSTANTS
    McpCalls,       \* host calls that may overlap; NoCall when the lock is free
    NoCall,
    MaxRemote,      \* remote sessions ever opened
    MaxCatalogLoads,       \* catalog loads (process starts)
    MaxMcpStarts,   \* calls started
    MaxResumes      \* max_sse_resumes

ASSUME McpConstants ==
    /\ IsFiniteSet(McpCalls) /\ NoCall \notin McpCalls
    /\ {MaxRemote, MaxCatalogLoads, MaxMcpStarts} \subseteq Nat \ {0} /\ MaxResumes \in Nat

VARIABLES
    catalog,    \* generation of the active catalog and the tool's target digest; 0 while down
    client,     \* the session id the client sends, 0 for none
    remote,     \* sessions the server has opened and those it still knows
    holder,     \* who holds the session lock
    rpcs,       \* what each call is doing
    receipts,   \* mcp_mutation_effects by target digest
    delivered,  \* history: tools/call requests that reached the server, by target digest
    heard,      \* history: targets whose answer was read
    opened      \* loads and calls started so far

mcpVars == <<catalog, client, remote, holder, rpcs, receipts, delivered, heard, opened>>

Targets == 1..2
Quiet == [pc |-> "idle", kind |-> "read", binding |-> 0, target |-> 1,
          tries |-> 0, result |-> "ok"]

McpTypeOK ==
    /\ catalog \in [gen : 0..MaxCatalogLoads, target : Targets]
    /\ client \in 0..MaxRemote
    /\ remote \in [last : 0..MaxRemote, live : SUBSET (1..MaxRemote)]
    /\ holder \in McpCalls \cup {NoCall}
    /\ rpcs \in [McpCalls -> [pc : {"idle", "asking", "granted", "sealing", "ready", "posting",
                                    "expired", "resuming", "finishing"},
                              kind : {"read", "tool"}, binding : 0..MaxCatalogLoads,
                              target : Targets, tries : Nat,
                              result : {"ok", "toolerror", "rpcerror", "uncertain"}]]
    /\ receipts \in [Targets -> {"none", "started", "succeeded", "failed", "uncertain"}]
    /\ delivered \in [Targets -> Nat]
    /\ heard \subseteq Targets
    /\ opened \in [loads : 0..MaxCatalogLoads, calls : 0..MaxMcpStarts]

McpInit ==
    /\ catalog = [gen |-> 0, target |-> 1]
    /\ client = 0
    /\ remote = [last |-> 0, live |-> {}]
    /\ holder = NoCall
    /\ rpcs = [c \in McpCalls |-> Quiet]
    /\ receipts = [t \in Targets |-> "none"]
    /\ delivered = [t \in Targets |-> 0]
    /\ heard = {}
    /\ opened = [loads |-> 0, calls |-> 0]

-----------------------------------------------------------------------------
(* The remote session.                                                     *)

\* initialize drops the client's session before it asks for a new one; a refused
\* or lost initialize leaves the client without any.
Opened == [last |-> remote.last + 1, live |-> remote.live \cup {remote.last + 1}]

Initialized ==
    /\ remote.last < MaxRemote
    /\ remote' = Opened
    /\ client' = remote.last + 1

NotInitialized ==
    /\ client' = 0
    /\ remote' \in {remote} \cup IF remote.last < MaxRemote THEN {Opened} ELSE {}

\* stage: initialize, list and select every allowlisted object, then activate at
\* once; any failure leaves the process without a catalog.  The server may have
\* changed the tool's schema since the last start, and with it the target digest.
LoadCatalog(t) ==
    /\ catalog.gen = 0 /\ opened.loads < MaxCatalogLoads
    /\ opened' = [opened EXCEPT !.loads = @ + 1]
    /\ \/ /\ Initialized
          /\ catalog' = [gen |-> opened.loads + 1, target |-> t]
       \/ /\ NotInitialized
          /\ UNCHANGED catalog
    /\ UNCHANGED <<holder, rpcs, receipts, delivered, heard>>

\* The server forgets a session whenever it likes.
ForgetSession(s) ==
    /\ s \in remote.live
    /\ remote' = [remote EXCEPT !.live = @ \ {s}]
    /\ UNCHANGED <<catalog, client, holder, rpcs, receipts, delivered, heard, opened>>

\* terminate does not take the session lock: it deletes the session it read and
\* then drops whatever id is current.
Terminate(s) ==
    /\ catalog.gen # 0 /\ s <= remote.last
    /\ remote' = [remote EXCEPT !.live = @ \ {s}]
    /\ client' = 0
    /\ UNCHANGED <<catalog, holder, rpcs, receipts, delivered, heard, opened>>

-----------------------------------------------------------------------------
(* A call up to its request.                                               *)

Is(c, pc) == rpcs[c].pc = pc
Move(c, pc) == rpcs' = [rpcs EXCEPT ![c].pc = pc]
Stop(c) == rpcs' = [rpcs EXCEPT ![c] = Quiet]
remoteVars == <<catalog, client, remote>>

\* A binding made from another catalog generation is refused.
BindingIsCurrent(gen) == gen = catalog.gen

StartTool(c) ==
    /\ Is(c, "idle") /\ catalog.gen # 0 /\ opened.calls < MaxMcpStarts
    /\ BindingIsCurrent(catalog.gen)
    /\ opened' = [opened EXCEPT !.calls = @ + 1]
    /\ rpcs' = [rpcs EXCEPT ![c] = [Quiet EXCEPT !.pc = "asking", !.kind = "tool",
                                    !.binding = catalog.gen, !.target = catalog.target]]
    /\ UNCHANGED <<remoteVars, holder, receipts, delivered, heard>>

\* Prompts and resources: audited, then sent without approval.
StartRead(c) ==
    /\ Is(c, "idle") /\ catalog.gen # 0 /\ opened.calls < MaxMcpStarts
    /\ opened' = [opened EXCEPT !.calls = @ + 1]
    /\ rpcs' = [rpcs EXCEPT ![c] = [Quiet EXCEPT !.pc = "ready", !.binding = catalog.gen]]
    /\ UNCHANGED <<remoteVars, holder, receipts, delivered, heard>>

DecideTool(c) ==
    /\ Is(c, "asking")
    /\ Move(c, "granted") \/ Stop(c)
    /\ UNCHANGED <<remoteVars, holder, receipts, delivered, heard, opened>>

Fresh(t) == receipts[t] = "none"

BeginEffect(c) ==
    LET t == rpcs[c].target IN
    /\ Is(c, "granted")
    /\ \/ /\ Fresh(t)
          /\ receipts' = [receipts EXCEPT ![t] = "started"]
          /\ Move(c, "ready")
       \/ /\ ~Fresh(t)
          /\ IF receipts[t] = "started" THEN Move(c, "sealing") ELSE Stop(c)
          /\ UNCHANGED receipts
    /\ UNCHANGED <<remoteVars, holder, delivered, heard, opened>>

\* The store's compare-and-set from "started".
ClosedAs(receipt, final) == IF receipt = "started" THEN final ELSE receipt

SealReceipt(c) ==
    /\ Is(c, "sealing")
    /\ receipts' = [receipts EXCEPT ![rpcs[c].target] = ClosedAs(@, "uncertain")]
    /\ Stop(c)
    /\ UNCHANGED <<remoteVars, holder, delivered, heard, opened>>

LockSession(c) ==
    /\ Is(c, "ready") /\ holder = NoCall
    /\ holder' = c
    /\ Move(c, "posting")
    /\ UNCHANGED <<remoteVars, receipts, delivered, heard, opened>>

-----------------------------------------------------------------------------
(* post: the exchange under the session lock.                              *)

\* Variant, not the code: the session lock is kept.
ConcludeLocked(c, result) ==
    /\ UNCHANGED holder
    /\ rpcs' = [rpcs EXCEPT ![c] = IF @.kind = "tool"
                                   THEN [@ EXCEPT !.pc = "finishing", !.result = result]
                                   ELSE Quiet]

\* The exchange ends: a tool call goes on to seal its receipt, a read is over.
Conclude(c, result) ==
    /\ holder' = NoCall
    /\ rpcs' = [rpcs EXCEPT ![c] = IF @.kind = "tool"
                                   THEN [@ EXCEPT !.pc = "finishing", !.result = result]
                                   ELSE Quiet]

Deliver(c) ==
    delivered' = [delivered EXCEPT ![rpcs[c].target] = IF rpcs[c].kind = "tool" THEN @ + 1 ELSE @]
Hear(c) == heard' = IF rpcs[c].kind = "tool" THEN heard \cup {rpcs[c].target} ELSE heard

\* The server takes the request and answers it, or answers with a stream that
\* breaks off after a resumable event, or the answer is lost or malformed.
Accepted(c) ==
    /\ Is(c, "posting") /\ client \in remote.live
    /\ Deliver(c)
    /\ \/ \E result \in {"ok", "toolerror", "rpcerror"} : Conclude(c, result) /\ Hear(c)
       \/ Move(c, "resuming") /\ UNCHANGED <<holder, heard>>
       \/ Conclude(c, "uncertain") /\ UNCHANGED heard
    /\ UNCHANGED <<remoteVars, receipts, opened>>

\* Denied by the egress policy, unreachable, or without a session id at a server
\* that wants one: the request never arrives.
Undelivered(c) ==
    /\ Is(c, "posting")
    /\ Conclude(c, "uncertain")
    /\ UNCHANGED <<remoteVars, receipts, delivered, heard, opened>>

\* 404 for a session the client sent.  The server may have run the request
\* before it lost the session.
Expired(c) ==
    /\ Is(c, "posting") /\ client # 0 /\ client \notin remote.live
    /\ client' = 0
    /\ Deliver(c) \/ UNCHANGED delivered
    /\ IF rpcs[c].tries = 0 THEN Move(c, "expired") /\ UNCHANGED holder
       ELSE Conclude(c, "uncertain")
    /\ UNCHANGED <<catalog, remote, receipts, heard, opened>>

\* Variant, not the code: a tool call is repeated after a reinitialisation too.
MayRepeatAny(kind) == kind \in {"tool", "read"}

MayRepeat(kind) == kind # "tool"

\* reinitialize_locked, then one more try for anything but tools/call.  Its
\* "initialized" notification may fail after the new session is stored.
Reinitialize(c) ==
    /\ Is(c, "expired")
    /\ \/ /\ Initialized
          /\ \/ /\ MayRepeat(rpcs[c].kind)
                /\ rpcs' = [rpcs EXCEPT ![c] = [@ EXCEPT !.pc = "posting", !.tries = 1]]
                /\ UNCHANGED holder
             \/ Conclude(c, "uncertain")
       \/ NotInitialized /\ Conclude(c, "uncertain")
    /\ UNCHANGED <<catalog, receipts, delivered, heard, opened>>

\* GET with Last-Event-ID until the answer is found or the resumes are spent.
ResumeStream(c) ==
    /\ Is(c, "resuming")
    /\ \/ /\ rpcs[c].tries < MaxResumes
          /\ rpcs' = [rpcs EXCEPT ![c].tries = @ + 1]
          /\ UNCHANGED <<client, holder, heard>>
       \/ /\ \E result \in {"ok", "toolerror", "rpcerror"} : Conclude(c, result)
          /\ Hear(c) /\ UNCHANGED client
       \/ /\ Conclude(c, "uncertain")
          /\ client' = IF client \in remote.live THEN client ELSE 0
          /\ UNCHANGED heard
    /\ UNCHANGED <<catalog, remote, receipts, delivered, opened>>

\* The status a tool call's receipt is closed with.
ReceiptFor(result) ==
    CASE result = "ok" -> "succeeded"
      [] result = "uncertain" -> "uncertain"
      [] OTHER -> "failed"

FinishTool(c) ==
    /\ Is(c, "finishing")
    /\ receipts' = [receipts EXCEPT ![rpcs[c].target] = ClosedAs(@, ReceiptFor(rpcs[c].result))]
    /\ Stop(c)
    /\ UNCHANGED <<remoteVars, holder, delivered, heard, opened>>

\* The process dies: the catalog, the client's session id and the calls with it.
CrashMcp ==
    /\ catalog.gen # 0
    /\ catalog' = [catalog EXCEPT !.gen = 0]
    /\ client' = 0
    /\ holder' = NoCall
    /\ rpcs' = [c \in McpCalls |-> Quiet]
    /\ UNCHANGED <<remote, receipts, delivered, heard, opened>>

McpCall(c) ==
    \/ StartTool(c) \/ StartRead(c) \/ DecideTool(c) \/ BeginEffect(c) \/ SealReceipt(c)
    \/ LockSession(c) \/ Accepted(c) \/ Undelivered(c) \/ Expired(c) \/ Reinitialize(c)
    \/ ResumeStream(c) \/ FinishTool(c)

McpNext ==
    \/ \E t \in Targets : LoadCatalog(t)
    \/ \E s \in 1..MaxRemote : ForgetSession(s) \/ Terminate(s)
    \/ \E c \in McpCalls : McpCall(c)
    \/ CrashMcp

McpSpec == McpInit /\ [][McpNext]_mcpVars

\* Every exchange is bounded by its timeout and the session lock is granted in
\* order of arrival, so a call past its approval keeps moving.
McpStep(c) ==
    \/ BeginEffect(c) \/ SealReceipt(c) \/ LockSession(c) \/ Accepted(c) \/ Undelivered(c)
    \/ Expired(c) \/ Reinitialize(c) \/ ResumeStream(c) \/ FinishTool(c)
McpFairness == \A c \in McpCalls : WF_mcpVars(McpStep(c))

-----------------------------------------------------------------------------
\* A tool mutation reaches its server at most once for one turn, target and
\* arguments: neither an expired session, a repeated call nor a restart repeats it.
ToolCalledOnce == \A t \in Targets : delivered[t] <= 1

\* A delivered call whose answer nobody read is never closed as failed or succeeded.
LostAnswerIsUncertain ==
    \A t \in Targets :
        delivered[t] > 0 /\ t \notin heard => receipts[t] \in {"started", "uncertain"}

\* No path out of an exchange (answer, error, expiry, failed reinitialisation,
\* exhausted resumption) leaves the session lock taken: an approved call ends.
EveryRpcEnds ==
    \A c \in McpCalls : rpcs[c].pc = "ready" ~> rpcs[c].pc = "idle"

\* What a caller of an MCP tool may rely on.
McpSafe ==
  /\ McpTypeOK
  /\ ToolCalledOnce
  /\ LostAnswerIsUncertain
=============================================================================
