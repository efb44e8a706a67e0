---------------------------- MODULE ProcIsolation ----------------------------
(***************************************************************************)
(* proc.run around one child process: what is pinned before the approval   *)
(* and compared after it, the cgroup leaf a hardened run gets, the ways in *)
(* which a run is over, and the recovery of leaves when the service starts *)
(* again.  The kernel is modelled from how the code uses it: descriptors   *)
(* keep their inode, a leaf with a process in it cannot be removed or once *)
(* removed be joined, and a killed process dies some time later.           *)
(***************************************************************************)
EXTENDS Naturals, FiniteSets

CONSTANTS
  Runs,         \* calls of proc.run
  Profiles,     \* ProcIsolationConfig: "disabled", "bubblewrap", "hardened"
  MaxSwaps,     \* the most often any one path is replaced
  MaxDeaths     \* crashes of the service

VARIABLES
  profile,      \* the configured provider
  inode,        \* the identity (device, inode) behind each path
  service,      \* the service process
  run,          \* the calls of proc.run
  procs,        \* the living processes of each run
  doomed        \* those a kill was sent to

isoVars == <<profile, inode, service, run, procs, doomed>>

Things == {"executable", "cwd", "launcher", "subtree"}
Hardened == profile = "hardened"
Isolated == profile # "disabled"

\* The child before it has joined its leaf; the command; a descendant that holds the
\* output open; one that has closed it; one that has called setsid as well.
Descendants == {"helper", "quiet", "detached"}
Processes == {"fork", "main"} \cup Descendants

IsoAssumption == Profiles \subseteq {"disabled", "bubblewrap", "hardened"} /\ MaxSwaps \in Nat /\ MaxDeaths \in Nat
ASSUME IsoAssumption

Pinned == [x \in Things |-> inode[x]]
NewRun == [at |-> "idle", shown |-> Pinned, ran |-> <<>>, leaf |-> "none", out |-> "none"]

RunAt(r, s) == service.at = "up" /\ run[r].at = s
SetRun(r, v) == run' = [run EXCEPT ![r] = v]
EndRunAs(r, out) == SetRun(r, [run[r] EXCEPT !.at = "ended", !.out = out])
Kill(r, ps) == doomed' = [doomed EXCEPT ![r] = @ \cup (procs[r] \cap ps)]

Removed(leaf) == IF leaf = "none" THEN leaf ELSE "gone"

\* A kill of the process group; bubblewrap puts its child in a session of its own.
Group == IF Isolated THEN {"main"} ELSE {"main", "helper", "quiet"}

-----------------------------------------------------------------------------
(* Before the child.                                                       *)

\* resolve_executable, pin_executable, prepare and the cwd.
Prepare(r) ==
  /\ RunAt(r, "idle")
  /\ SetRun(r, [run[r] EXCEPT !.at = "asking", !.shown = Pinned])
  /\ UNCHANGED <<profile, inode, service, procs, doomed>>

\* A profile that cannot be had, such as a subtree whose probe leaf cannot be
\* configured, is no reason to run without it.
PrepareRefused(r) ==
  /\ RunAt(r, "idle") /\ Isolated
  /\ EndRunAs(r, "refused")
  /\ UNCHANGED <<profile, inode, service, procs, doomed>>

AnswerRun(r) ==
  /\ RunAt(r, "asking")
  /\ \/ SetRun(r, [run[r] EXCEPT !.at = "approved"])
     \/ EndRunAs(r, "refused")
  /\ UNCHANGED <<profile, inode, service, procs, doomed>>

\* Mutant: the working directory is not compared again.
SameProfileButCwd(r) ==
  \A x \in Things \ {"cwd"} : run[r].shown[x] = inode[x]

\* What is pinned afresh is compared with what the approval showed.
SameProfile(r) ==
  \A x \in IF Isolated THEN Things ELSE {"executable", "cwd"} :
    run[r].shown[x] = inode[x] \/ (x = "subtree" /\ ~Hardened)

\* Everything under the policy lock up to start_run.  The command is later executed
\* through the descriptors: the executable's is the one pinned before the approval.
Recheck(r) ==
  /\ RunAt(r, "approved")
  /\ IF SameProfile(r)
     THEN SetRun(r, [run[r] EXCEPT !.at = "start",
                       !.ran = [Pinned EXCEPT !["executable"] = run[r].shown["executable"]]])
     ELSE EndRunAs(r, "refused")
  /\ UNCHANGED <<profile, inode, service, procs, doomed>>

\* verify_current: the pinned subtree is the one its path leads to.
SubtreeIsCurrent(r) == inode["subtree"] = run[r].ran["subtree"]

\* start_run: the root is verified once more, then the leaf is made.
StartLeaf(r) ==
  /\ RunAt(r, "start")
  /\ IF ~Hardened THEN SetRun(r, [run[r] EXCEPT !.at = "spawn"])
     ELSE IF ~SubtreeIsCurrent(r) THEN EndRunAs(r, "refused")
     ELSE SetRun(r, [run[r] EXCEPT !.at = "limit", !.leaf = "made"])
  /\ UNCHANGED <<profile, inode, service, procs, doomed>>

\* A limit that does not read back as written removes the leaf.
ConfigureLeaf(r) ==
  /\ RunAt(r, "limit")
  /\ \/ SetRun(r, [run[r] EXCEPT !.at = "spawn", !.leaf = "limited"])
     \/ SetRun(r, [run[r] EXCEPT !.at = "ended", !.leaf = "gone", !.out = "refused"])
  /\ UNCHANGED <<profile, inode, service, procs, doomed>>

\* command and spawn, which returns when the child has called exec or failed to.
Fork(r) ==
  /\ RunAt(r, "spawn") /\ procs[r] = {}
  /\ procs' = [procs EXCEPT ![r] = {"fork"}]
  /\ UNCHANGED <<profile, inode, service, run, doomed>>

SpawnFails(r) ==
  /\ RunAt(r, "spawn")
  /\ SetRun(r, [run[r] EXCEPT !.at = "ended", !.out = "error", !.leaf = Removed(run[r].leaf)])
  /\ procs' = [procs EXCEPT ![r] = {}]
  /\ UNCHANGED <<profile, inode, service, doomed>>

\* A removed leaf cannot be joined.
JoinsLeaf(r) == Hardened => run[r].leaf = "limited"

\* prepare_child: a hardened child joins its leaf before exec, or it does not exec.
ChildReady(r) ==
  /\ procs[r] = {"fork"}
  /\ IF ~JoinsLeaf(r)
     THEN procs' = [procs EXCEPT ![r] = {}] /\ UNCHANGED run
     ELSE /\ procs' = [procs EXCEPT ![r] = {"main"}]
          /\ run' = IF run[r].at = "spawn" THEN [run EXCEPT ![r].at = "running"] ELSE run
  /\ UNCHANGED <<profile, inode, service, doomed>>

-----------------------------------------------------------------------------
(* The processes of a run.                                                 *)

Descend(r) ==
  /\ "main" \in procs[r] \ doomed[r]
  /\ \E d \in Descendants \ procs[r] : procs' = [procs EXCEPT ![r] = @ \cup {d}]
  /\ UNCHANGED <<profile, inode, service, run, doomed>>

\* A process exits, or the kernel gets to a kill; with the first process of the
\* namespace the others are killed.
Dies(r) ==
  \E p \in procs[r] \ {"fork"} :
    /\ procs' = [procs EXCEPT ![r] = @ \ {p}]
    /\ doomed' = [doomed EXCEPT ![r] = IF Isolated /\ p = "main" THEN procs[r] \ {p} ELSE @ \ {p}]
    /\ UNCHANGED <<profile, inode, service, run>>

KilledDies(r) == doomed[r] # {} /\ Dies(r)

-----------------------------------------------------------------------------
(* The ways a run is over.                                                 *)

\* Both pipes are at their end and the command was waited for.
Completes(r) ==
  /\ RunAt(r, "running") /\ procs[r] \cap {"main", "helper"} = {}
  /\ SetRun(r, [run[r] EXCEPT !.at = "clean", !.out = "ok"])
  /\ Kill(r, IF Hardened THEN Processes ELSE {})
  /\ UNCHANGED <<profile, inode, service, procs>>

TimesOut(r) ==
  /\ RunAt(r, "running")
  /\ SetRun(r, [run[r] EXCEPT !.at = "clean", !.out = "timeout"])
  /\ Kill(r, IF Hardened THEN Processes ELSE {})
  /\ UNCHANGED <<profile, inode, service, procs>>

\* An error of a pipe, or the caller drops the call: the guards are dropped in turn,
\* the process group first.
Drops(r) ==
  /\ RunAt(r, "running") \/ RunAt(r, "stop")
  /\ \E out \in {"error", "dropped"} : SetRun(r, [run[r] EXCEPT !.at = "drop", !.out = out])
  /\ Kill(r, IF Hardened THEN Processes ELSE Group)
  /\ UNCHANGED <<profile, inode, service, procs>>

DropsUnstarted(r) ==
  /\ service.at = "up" /\ run[r].at \in {"asking", "approved"}
  /\ EndRunAs(r, "dropped")
  /\ UNCHANGED <<profile, inode, service, procs, doomed>>

\* wait_unpopulated, read_counters, remove_leaf.
Drained(r) == Hardened => procs[r] = {}

\* terminate_and_cleanup: then the group is disarmed, or killed and waited for.
CleansUp(r) ==
  /\ RunAt(r, "clean") /\ Drained(r)
  /\ SetRun(r, [run[r] EXCEPT !.at = IF run[r].out = "ok" THEN "ended" ELSE "stop",
                               !.leaf = Removed(run[r].leaf)])
  /\ Kill(r, IF run[r].out = "ok" THEN {} ELSE Group)
  /\ UNCHANGED <<profile, inode, service, procs>>

\* stop_process_tree.
TreeStopped(r) ==
  /\ RunAt(r, "stop") /\ "main" \notin procs[r]
  /\ SetRun(r, [run[r] EXCEPT !.at = "ended"])
  /\ UNCHANGED <<profile, inode, service, procs, doomed>>

\* CLEANUP_TIMEOUT with the leaf still populated: the call fails, its guard tries again.
CleanupFails(r) ==
  /\ RunAt(r, "clean") /\ Hardened /\ procs[r] # {}
  /\ SetRun(r, [run[r] EXCEPT !.at = "drop", !.out = "error"])
  /\ UNCHANGED <<profile, inode, service, procs, doomed>>

\* CgroupRun::drop waits its two seconds too; rmdir refuses a populated leaf.
DropEnds(r) ==
  /\ RunAt(r, "drop")
  /\ SetRun(r, [run[r] EXCEPT !.at = "ended",
                               !.leaf = IF procs[r] = {} THEN Removed(run[r].leaf) ELSE run[r].leaf])
  /\ UNCHANGED <<profile, inode, service, procs, doomed>>

-----------------------------------------------------------------------------
(* The host and the service.                                               *)

Replace ==
  /\ \A x \in Things : inode[x] < MaxSwaps
  /\ \E x \in Things : inode' = [inode EXCEPT ![x] = @ + 1]
  /\ UNCHANGED <<profile, service, run, procs, doomed>>

\* The bubblewrap of a running command dies with its parent; a child that has not
\* called exec goes on.
Crash ==
  /\ service.at # "down" /\ service.deaths < MaxDeaths
  /\ service' = [at |-> "down", deaths |-> service.deaths + 1, todo |-> {}, emptied |-> {}]
  /\ run' = [r \in Runs |-> IF run[r].at \in {"idle", "ended"} THEN run[r] ELSE [run[r] EXCEPT !.at = "lost"]]
  /\ doomed' = [r \in Runs |-> IF Isolated THEN procs[r] \ {"fork"} ELSE doomed[r]]
  /\ UNCHANGED <<profile, inode, procs>>

\* recover_orphans_at_startup: the run leaves are listed once, before any work.
Leaves == {r \in Runs : run[r].leaf \in {"made", "limited"}}
ListLeaves ==
  /\ service.at = "down"
  /\ service' = [service EXCEPT !.at = "recover", !.todo = IF Hardened THEN Leaves ELSE {}]
  /\ UNCHANGED <<profile, inode, run, procs, doomed>>

InLeaf(r) == procs[r] \ {"fork"}

TerminateLeaf(r) ==
  /\ service.at = "recover" /\ r \in service.todo \ service.emptied
  /\ Kill(r, InLeaf(r))
  /\ service' = IF InLeaf(r) = {} THEN [service EXCEPT !.emptied = @ \cup {r}] ELSE service
  /\ UNCHANGED <<profile, inode, run, procs>>

RemoveOrphan(r) ==
  /\ service.at = "recover" /\ r \in service.emptied
  /\ InLeaf(r) = {}
  /\ SetRun(r, [run[r] EXCEPT !.leaf = "gone"])
  /\ service' = [service EXCEPT !.todo = @ \ {r}, !.emptied = @ \ {r}]
  /\ UNCHANGED <<profile, inode, procs, doomed>>

\* A leaf that stays populated ends the start of the service.
StartAborts ==
  /\ service.at = "recover" /\ \E r \in service.todo : InLeaf(r) # {}
  /\ service' = [service EXCEPT !.at = "down", !.todo = {}, !.emptied = {}]
  /\ UNCHANGED <<profile, inode, run, procs, doomed>>

ServiceUp ==
  /\ service.at = "recover" /\ service.todo = {}
  /\ service' = [service EXCEPT !.at = "up"]
  /\ UNCHANGED <<profile, inode, run, procs, doomed>>

IsoInit ==
  /\ profile \in Profiles
  /\ inode = [x \in Things |-> 0]
  /\ service = [at |-> "up", deaths |-> 0, todo |-> {}, emptied |-> {}]
  /\ run = [r \in Runs |-> NewRun]
  /\ procs = [r \in Runs |-> {}] /\ doomed = procs

RunStep(r) ==
  \/ Prepare(r) \/ PrepareRefused(r) \/ AnswerRun(r) \/ Recheck(r) \/ StartLeaf(r) \/ ConfigureLeaf(r)
  \/ Fork(r) \/ SpawnFails(r) \/ Completes(r) \/ TimesOut(r) \/ Drops(r) \/ DropsUnstarted(r)
  \/ CleansUp(r) \/ TreeStopped(r) \/ CleanupFails(r) \/ DropEnds(r)

IsoNext ==
  \/ \E r \in Runs : RunStep(r) \/ ChildReady(r) \/ Descend(r) \/ Dies(r)
                     \/ TerminateLeaf(r) \/ RemoveOrphan(r)
  \/ Replace \/ Crash \/ ListLeaves \/ StartAborts \/ ServiceUp

IsoSpec == IsoInit /\ [][IsoNext]_isoVars

-----------------------------------------------------------------------------
(* What a run may leave behind.                                            *)

IsoTypeOK ==
  /\ profile \in Profiles /\ inode \in [Things -> 0..MaxSwaps]
  /\ service.at \in {"up", "down", "recover"} /\ service.emptied \subseteq service.todo
  /\ \A r \in Runs : doomed[r] \subseteq procs[r] /\ procs[r] \subseteq Processes

\* A command runs as the files the approval named, whatever their paths lead to by then.
RunsAsShown ==
  \A r \in Runs : "main" \in procs[r] =>
    \A x \in (IF Isolated THEN Things ELSE {"executable", "cwd"}) :
      run[r].ran[x] = run[r].shown[x] \/ (x = "subtree" /\ ~Hardened)

\* A hardened command is inside a leaf with its limits for as long as it lives, a
\* crash of the service included.
Contained == Hardened => \A r \in Runs : InLeaf(r) # {} => run[r].leaf = "limited"

Dying(r) == IF Isolated /\ "main" \in doomed[r] THEN procs[r] ELSE doomed[r]

\* A hardened run that reports a result has left neither a process nor a leaf; a timed
\* out one has left no process but a detached one that is not about to die.
NothingLeftBehind ==
  \A r \in Runs : run[r].at = "ended" =>
    /\ Hardened /\ run[r].out \in {"ok", "timeout"} => procs[r] = {} /\ run[r].leaf = "gone"
    /\ run[r].out \in {"timeout", "dropped", "error"} => procs[r] \ Dying(r) \subseteq {"detached"}

\* A service that takes work has nothing of the runs a crash cut off: no leaf, and no
\* process but a child that can no longer start its command.
NothingFromBefore ==
  service.at = "up" /\ Hardened =>
    \A r \in Runs : run[r].at = "lost" => run[r].leaf \in {"none", "gone"} /\ InLeaf(r) = {}

\* proc.run and the processes it starts.
IsolationSafe ==
  IsoTypeOK /\ RunsAsShown /\ Contained /\ NothingLeftBehind /\ NothingFromBefore

\* A command that was started is over some time, whatever its descendants do.
CommandsEnd == \A r \in Runs : (run[r].at = "running") ~> (run[r].at \in {"ended", "lost"})
=============================================================================
