--------------------------- MODULE LinkedFolders ---------------------------
(***************************************************************************)
(* The linked folders of crate tm-host (linked/) for one alias: the policy *)
(* registry and its revision, the tools fs.write, fs.patch, fs.remove,     *)
(* fs.move, proc.run and git.*, and project.link / project.unlink of crate *)
(* tm-drive with the durable record they keep.                             *)
(*                                                                         *)
(* A tool resolves the alias, looks at the disk, asks, and only then acts, *)
(* so three things may change under it: the policy, the files, and the     *)
(* repository.  The code answers with a revision of the policy (with_      *)
(* stable_policy_snapshot), a mutex among the tools that write             *)
(* (lock_mutations), and the identity and tag of what it saw.  A file is   *)
(* its identity (inode), its content (tag) and who put it there: a tool of *)
(* the host, or an editor or child process outside its locks.              *)
(***************************************************************************)
EXTENDS Integers, FiniteSets

CONSTANTS
    Tools,          \* tool calls that may be in flight at once
    Roots,          \* directories that can be linked
    StaticRoot,     \* the root the operator's config links at startup
    Paths,          \* file names below a root
    Texts,          \* file contents
    Mixes,          \* what a behaviour may do: operations, and bounds on calls and outside edits
    MaxInodes,      \* bound on files ever created
    MaxHead,        \* bound on commits
    MaxReboots      \* bound on restarts of the process

ASSUME LinkedAssumption ==
    /\ StaticRoot \in Roots /\ Paths # {} /\ Texts # {}
    /\ \A m \in Mixes : m.calls \in Nat /\ m.edits \in Nat
    /\ MaxInodes \in Nat \ {0} /\ MaxHead \in Nat \ {0}
    /\ MaxReboots \in Nat

VARIABLES
    mount,          \* the alias's policy, or NoMount (LinkedFolders.policies)
    revision,       \* LinkedFolders.revision
    mutex,          \* tool holding LinkedFolders.mutations, as a set of at most one
    files,          \* Roots -> Paths -> file or NoFile
    repo,           \* Roots -> repository; head 0 when there is none
    published,      \* <<remote, head>> pairs pushed
    link,           \* the durable DriveLinkRecord of the alias
    stranded,       \* history: a link or unlink was cut off between record and policy
    tools,          \* Tools -> local state
    mix,            \* the bounds of this behaviour, which never change
    began, edits, reboots   \* counters behind the bounds

linkedVars == <<mount, revision, mutex, files, repo, published, link, stranded, tools, mix, began, edits, reboots>>
disk == <<files, repo, published>>
bounds == <<mix, began, edits, reboots>>

FsOps == {"write", "patch", "remove", "move"}
GitOps == {"add", "commit", "restore", "init", "push", "log"}
LinkOps == {"link", "unlink"}
NoMount == [root |-> "none", mode |-> "none", commands |-> FALSE]
StaticMount == [root |-> StaticRoot, mode |-> "rw", commands |-> TRUE]
NoFile == [id |-> 0, text |-> "none", by |-> "none"]
NoRepo == [head |-> 0, index |-> 0, remote |-> "none", filters |-> FALSE, by |-> "none"]
NoLink == [status |-> "none", root |-> "none", mode |-> "none", ver |-> 0]

(***************************************************************************)
(* A call: grant and rev are the policy and revision it started under, saw *)
(* and sawDest the files and sawRepo the repository it read before asking, *)
(* sawLink the record it read.  plan is what project.link asks for.        *)
(***************************************************************************)
IdleTool ==
    [op |-> "none", pc |-> "idle", path |-> "none", dest |-> "none", text |-> "none",
     overwrite |-> FALSE, grant |-> NoMount, rev |-> 0, saw |-> NoFile,
     sawDest |-> NoFile, sawRepo |-> NoRepo, sawLink |-> NoLink, plan |-> NoMount]

FirstPath == CHOOSE p \in Paths : TRUE
FirstText == CHOOSE t \in Texts : TRUE

LinkedInit ==
    /\ mount = StaticMount /\ revision = 0 /\ mutex = {} /\ link = NoLink /\ stranded = FALSE
    /\ mix \in Mixes
    /\ files = [r \in Roots |-> [p \in Paths |->
                  IF r = StaticRoot /\ p = FirstPath
                  THEN [id |-> 1, text |-> FirstText, by |-> "outside"] ELSE NoFile]]
    /\ repo = [r \in Roots |-> IF r = StaticRoot THEN [NoRepo EXCEPT !.head = 1, !.remote = "origin", !.by = "outside"]
                           ELSE NoRepo]
    /\ published = {}
    /\ tools = [c \in Tools |-> IdleTool]
    /\ began = 0 /\ edits = 0 /\ reboots = 0

PcIs(c, pc) == tools[c].pc = pc
Jump(c, pc) == tools' = [tools EXCEPT ![c].pc = pc]

\* Every return drops the mutation guard with the call's locals.
ReturnTool(c) ==
    /\ tools' = [tools EXCEPT ![c] = IdleTool]
    /\ mutex' = mutex \ {c}

FileAt(c, p) == files[tools[c].grant.root][p]
RepoOf(c) == repo[tools[c].grant.root]
Inodes == {files[r][p].id : r \in Roots, p \in Paths}
FreshInodes == {n \in 1..MaxInodes : n \notin Inodes}

\* The read side of policy_gate is held from the revision check to the last
\* system call of a commit.
Gated == {c \in Tools : tools[c].pc \in {"restat", "land"}}

\* ensure_revision
Stable(c) == revision = tools[c].rev

-----------------------------------------------------------------------------
(* A tool is called.                                                       *)

Call(c, state) ==
    /\ PcIs(c, "idle") /\ began < mix.calls /\ state.op \in mix.ops
    /\ tools' = [tools EXCEPT ![c] = state]
    /\ began' = began + 1
    /\ UNCHANGED <<mount, revision, mutex, link, stranded, mix, edits, reboots>> /\ UNCHANGED disk

CallWrite(c, p, t, overwrite) ==
    Call(c, [IdleTool EXCEPT !.op = "write", !.pc = "lock", !.path = p, !.text = t,
                             !.overwrite = overwrite])
\* patch, remove and move name the tag they expect at path.
CallTagged(c, op, p, q, t, overwrite) ==
    Call(c, [IdleTool EXCEPT !.op = op, !.pc = "lock", !.path = p, !.dest = q, !.text = t,
                             !.overwrite = overwrite])
CallProc(c) == Call(c, [IdleTool EXCEPT !.op = "proc", !.pc = "resolve"])
CallGit(c, op, p) == Call(c, [IdleTool EXCEPT !.op = op, !.pc = "resolve", !.path = p])
CallLink(c, plan) == Call(c, [IdleTool EXCEPT !.op = "link", !.pc = "ask", !.plan = plan])
CallUnlink(c) == Call(c, [IdleTool EXCEPT !.op = "unlink", !.pc = "ask"])

\* lock_mutations().await, then the revision and the policy.  fs.* needs rw.
MutexFree(c) == mutex = {}

StartTool(c, pc) == tools' = [tools EXCEPT ![c].pc = pc, ![c].grant = mount, ![c].rev = revision]

LockAndResolve(c) ==
    /\ PcIs(c, "lock") /\ MutexFree(c)
    /\ IF mount.mode = "rw"
       THEN mutex' = mutex \cup {c} /\ StartTool(c, "preflight")
       ELSE ReturnTool(c)
    /\ UNCHANGED <<mount, revision, link, stranded>> /\ UNCHANGED disk /\ UNCHANGED bounds

\* proc.run and git take no lock before they ask.
RequiresRw(op) == op \in GitOps \ {"log"}

ResolveTool(c) ==
    /\ PcIs(c, "resolve")
    /\ IF mount # NoMount /\ (RequiresRw(tools[c].op) => mount.mode = "rw")
       THEN StartTool(c, "preflight") /\ UNCHANGED mutex
       ELSE ReturnTool(c)
    /\ UNCHANGED <<mount, revision, link, stranded>> /\ UNCHANGED disk /\ UNCHANGED bounds

-----------------------------------------------------------------------------
(* The look at the disk before the question.                               *)

\* What each tool refuses at once, from what is on disk.
RefusesWrite(c) == FileAt(c, tools[c].path) # NoFile /\ ~tools[c].overwrite
RefusesPatch(c) == FileAt(c, tools[c].path) = NoFile \/ FileAt(c, tools[c].path).text # tools[c].text
RefusesRemove(c) == FileAt(c, tools[c].path) = NoFile \/ FileAt(c, tools[c].path).text # tools[c].text
RefusesMove(c) ==
    \/ RefusesRemove(c)
    \/ FileAt(c, tools[c].dest) # NoFile /\ ~tools[c].overwrite

\* validate_repository, and for init validate_pre_repository_cwd; add and
\* restore reject configured filters, push needs an upstream.
NeedsRepository(c) == RepoOf(c).head # 0
NeedsNoRepository(c) == RepoOf(c).head = 0
RejectsFilters(c) == tools[c].op \in {"add", "restore"} /\ RepoOf(c).filters
HasUpstream(c) == RepoOf(c).remote # "none"
RefusesGit(c) ==
    \/ ~(IF tools[c].op = "init" THEN NeedsNoRepository(c) ELSE NeedsRepository(c))
    \/ RejectsFilters(c)
    \/ tools[c].op = "push" /\ ~HasUpstream(c)

Refuses(c) ==
    CASE tools[c].op = "write" -> RefusesWrite(c)
      [] tools[c].op = "patch" -> RefusesPatch(c)
      [] tools[c].op = "remove" -> RefusesRemove(c)
      [] tools[c].op = "move" -> RefusesMove(c)
      [] tools[c].op = "proc" -> ~mount.commands
      [] OTHER -> RefusesGit(c)

\* What approval_state reads: the index only for the operations that use it.
IndexMatters(op) == op \in {"add", "restore", "commit"}
ApprovalState(c) ==
    IF tools[c].op = "init" THEN NoRepo
    ELSE [RepoOf(c) EXCEPT !.index = IF IndexMatters(tools[c].op) THEN @ ELSE 0,
                           !.remote = IF tools[c].op = "push" THEN @ ELSE "none",
                           !.filters = FALSE, !.by = "none"]

\* A write asks when it replaces something, a patch never, the rest always.
Asks(c) ==
    CASE tools[c].op = "write" -> FileAt(c, tools[c].path) # NoFile
      [] tools[c].op = "move" -> FileAt(c, tools[c].dest) # NoFile
      [] OTHER -> tools[c].op # "patch"

AfterAsking(op) ==
    CASE op \in FsOps -> "verify"
      [] op = "proc" -> "spawn"
      [] op \in GitOps -> "gitLock"
      [] op = "link" -> "insert"
      [] OTHER -> "readLink"

Preflight(c) ==
    LET t == tools[c]
    IN  /\ PcIs(c, "preflight")
        /\ IF ~Stable(c) \/ Refuses(c) THEN ReturnTool(c)
           ELSE /\ tools' = [tools EXCEPT
                      ![c].pc = IF Asks(c) THEN "ask" ELSE AfterAsking(t.op),
                      ![c].saw = IF t.op \in FsOps THEN FileAt(c, t.path) ELSE NoFile,
                      ![c].sawDest = IF t.op = "move" THEN FileAt(c, t.dest) ELSE NoFile,
                      ![c].sawRepo = IF t.op \in GitOps THEN ApprovalState(c) ELSE NoRepo]
                /\ UNCHANGED mutex
        /\ UNCHANGED <<mount, revision, link, stranded>> /\ UNCHANGED disk /\ UNCHANGED bounds

\* require_approval: the mutation lock of fs.* stays held meanwhile.
Answer(c, approved) ==
    /\ PcIs(c, "ask")
    /\ IF approved THEN Jump(c, AfterAsking(tools[c].op)) /\ UNCHANGED mutex ELSE ReturnTool(c)
    /\ UNCHANGED <<mount, revision, link, stranded>> /\ UNCHANGED disk /\ UNCHANGED bounds

-----------------------------------------------------------------------------
(* The commit of fs.*: verify, stat again, and the rename or unlink.       *)

Same(f, g) == f.id = g.id
SameText(f, g) == f.id = g.id /\ f.text = g.text

\* Identity and tag of what is there, against what was shown.
VerifiesId(c) ==
    /\ Same(FileAt(c, tools[c].path), tools[c].saw)
    /\ tools[c].op = "move" => Same(FileAt(c, tools[c].dest), tools[c].sawDest)
Verifies(c) ==
    /\ SameText(FileAt(c, tools[c].path), tools[c].saw)
    /\ tools[c].op = "move" => SameText(FileAt(c, tools[c].dest), tools[c].sawDest)

Verify(c) ==
    /\ PcIs(c, "verify")
    /\ IF Stable(c) /\ Verifies(c) THEN Jump(c, "restat") /\ UNCHANGED mutex ELSE ReturnTool(c)
    /\ UNCHANGED <<mount, revision, link, stranded>> /\ UNCHANGED disk /\ UNCHANGED bounds

\* The last stat of atomic_replace, rename_entry and remove_entry; a file
\* that is to be created is left to O_EXCL.
Restat(c) ==
    /\ PcIs(c, "restat")
    /\ IF tools[c].saw = NoFile \/ VerifiesId(c)
       THEN Jump(c, "land") /\ UNCHANGED mutex ELSE ReturnTool(c)
    /\ UNCHANGED <<mount, revision, link, stranded>> /\ UNCHANGED disk /\ UNCHANGED bounds

\* The system call itself.  Creating and renaming onto nothing fail when the
\* name is taken (EXCL, NOREPLACE); the others replace whatever is there.
NewFile(t) == [id |-> CHOOSE n \in FreshInodes : TRUE, text |-> t, by |-> "host"]
Put(c, p, f) == files' = [files EXCEPT ![tools[c].grant.root][p] = f]

Landed(c, op) ==
    /\ PcIs(c, "land") /\ tools[c].op = op
    /\ ReturnTool(c)
    /\ UNCHANGED <<mount, revision, link, stranded, repo, published>> /\ UNCHANGED bounds

CreateFile(c) == tools[c].saw = NoFile /\ FileAt(c, tools[c].path) = NoFile
AtomicReplace(c) == tools[c].saw # NoFile

LandWrite(c) ==
    /\ Landed(c, "write") /\ FreshInodes # {} /\ (CreateFile(c) \/ AtomicReplace(c))
    /\ Put(c, tools[c].path, NewFile(tools[c].text))
LandPatch(c) ==
    /\ Landed(c, "patch") /\ FreshInodes # {}
    /\ \E t \in Texts : Put(c, tools[c].path, NewFile(t))
LandRemove(c) == Landed(c, "remove") /\ Put(c, tools[c].path, NoFile)
LandMove(c) ==
    LET t == tools[c]  here == FileAt(c, t.path)
    IN  /\ Landed(c, "move") /\ here # NoFile
        /\ t.sawDest # NoFile \/ FileAt(c, t.dest) = NoFile
        /\ files' = [files EXCEPT ![t.grant.root][t.path] = NoFile,
                                  ![t.grant.root][t.dest] = [here EXCEPT !.by = "host"]]
LandFails(c) == UNCHANGED files /\ Landed(c, tools[c].op)

Land(c) == LandWrite(c) \/ LandPatch(c) \/ LandRemove(c) \/ LandMove(c) \/ LandFails(c)

-----------------------------------------------------------------------------
(* proc.run and git.                                                       *)

\* The spawn happens under the stable snapshot; the child runs outside it.
Spawn(c) ==
    /\ PcIs(c, "spawn")
    /\ IF Stable(c) /\ mount.commands THEN Jump(c, "running") /\ UNCHANGED mutex ELSE ReturnTool(c)
    /\ UNCHANGED <<mount, revision, link, stranded>> /\ UNCHANGED disk /\ UNCHANGED bounds

\* The child exits, or the timeout kills its process group.
Reap(c) ==
    /\ PcIs(c, "running") /\ tools[c].op = "proc"
    /\ ReturnTool(c)
    /\ UNCHANGED <<mount, revision, link, stranded>> /\ UNCHANGED disk /\ UNCHANGED bounds

MutatesLocal(op) == op \in {"add", "commit", "restore", "init"}

\* git takes the mutation lock after the approval, and git.push not at all.
GitLock(c) ==
    /\ PcIs(c, "gitLock")
    /\ IF MutatesLocal(tools[c].op)
       THEN MutexFree(c) /\ mutex' = mutex \cup {c} ELSE UNCHANGED mutex
    /\ Jump(c, "gitRecheck")
    /\ UNCHANGED <<mount, revision, link, stranded>> /\ UNCHANGED disk /\ UNCHANGED bounds

\* Variant, not the code: the repository is not looked at again.
StillShownAlways(c) == TRUE

\* approval_state again (for init: still no repository), then run_git.
StillShown(c) == ~RefusesGit(c) /\ ApprovalState(c) = tools[c].sawRepo

GitRecheck(c) ==
    /\ PcIs(c, "gitRecheck")
    /\ IF Stable(c) /\ StillShown(c)
       THEN Jump(c, "gitSpawn") /\ UNCHANGED mutex ELSE ReturnTool(c)
    /\ UNCHANGED <<mount, revision, link, stranded>> /\ UNCHANGED disk /\ UNCHANGED bounds

GitSpawn(c) ==
    /\ PcIs(c, "gitSpawn")
    /\ IF Stable(c) THEN Jump(c, "running") /\ UNCHANGED mutex ELSE ReturnTool(c)
    /\ UNCHANGED <<mount, revision, link, stranded>> /\ UNCHANGED disk /\ UNCHANGED bounds

\* What the git process does, or it fails or times out before doing it.  add
\* stands for mv, rm and bisect too, init for clone, log for show.  push sends
\* HEAD to the upstream that was resolved before the approval.
Ran(c, op) ==
    /\ PcIs(c, "running") /\ tools[c].op = op
    /\ ReturnTool(c)
    /\ UNCHANGED <<mount, revision, link, stranded>> /\ UNCHANGED bounds
ChangeRepo(c, to) == repo' = [repo EXCEPT ![tools[c].grant.root] = [to EXCEPT !.by = "host"]]

GitAdd(c) ==
    /\ Ran(c, "add") /\ RepoOf(c).index < MaxHead
    /\ ChangeRepo(c, [RepoOf(c) EXCEPT !.index = @ + 1]) /\ UNCHANGED <<files, published>>
GitCommit(c) ==
    /\ Ran(c, "commit") /\ RepoOf(c).head < MaxHead
    /\ ChangeRepo(c, [RepoOf(c) EXCEPT !.head = @ + 1]) /\ UNCHANGED <<files, published>>
GitInit(c) ==
    /\ Ran(c, "init") /\ RepoOf(c).head = 0
    /\ ChangeRepo(c, [NoRepo EXCEPT !.head = 1]) /\ UNCHANGED <<files, published>>
GitRestore(c) ==
    /\ Ran(c, "restore") /\ FreshInodes # {}
    /\ Put(c, tools[c].path, NewFile(FirstText)) /\ UNCHANGED <<repo, published>>
GitPush(c) ==
    /\ Ran(c, "push")
    /\ published' = published \cup {<<tools[c].sawRepo.remote, RepoOf(c).head>>}
    /\ UNCHANGED <<files, repo>>
GitNothing(c) == tools[c].op \in GitOps /\ Ran(c, tools[c].op) /\ UNCHANGED disk

GitRun(c) ==
    GitAdd(c) \/ GitCommit(c) \/ GitInit(c) \/ GitRestore(c) \/ GitPush(c) \/ GitNothing(c)

-----------------------------------------------------------------------------
(* project.link and project.unlink.                                        *)

\* insert_policy: the same policy again, a change of mode, another root (an
\* error), or a new one.  A drive link grants no commands.
Insert(c) ==
    LET plan == tools[c].plan
    IN  /\ PcIs(c, "insert") /\ Gated = {}
        /\ IF mount # NoMount /\ mount.root # plan.root THEN ReturnTool(c) /\ UNCHANGED <<mount, revision>>
           ELSE /\ mount' = plan
                /\ revision' = IF mount = plan THEN revision ELSE revision + 1
                /\ Jump(c, "readLink") /\ UNCHANGED mutex
        /\ UNCHANGED <<link, stranded>> /\ UNCHANGED disk /\ UNCHANGED bounds

\* record_link and revoke_link read the record, then swap it by version.
\* Revoking nothing, or what is revoked already, goes on to the policy.
ReadLink(c) ==
    /\ PcIs(c, "readLink")
    /\ tools' = [tools EXCEPT ![c].sawLink = link,
                              ![c].pc = IF tools[c].op = "unlink" /\ link.status \in {"none", "revoked"}
                                        THEN "remove" ELSE "saveLink"]
    /\ UNCHANGED <<mount, revision, mutex, link, stranded>> /\ UNCHANGED disk /\ UNCHANGED bounds

Fits(c) == link.ver = tools[c].sawLink.ver

Replacement(c) ==
    IF tools[c].op = "unlink" THEN [link EXCEPT !.status = "revoked", !.ver = @ + 1]
    ELSE [status |-> "active", root |-> tools[c].plan.root, mode |-> tools[c].plan.mode,
          ver |-> link.ver + 1]

\* The swap answers: done, or the version is another one.  A link whose record was not
\* stored takes its policy back; an unlink goes on to the policy only when it was.
SaveLink(c) ==
    /\ PcIs(c, "saveLink")
    /\ link' = IF Fits(c) THEN Replacement(c) ELSE link
    /\ IF (tools[c].op = "link") = Fits(c)
       THEN ReturnTool(c) ELSE Jump(c, "remove") /\ UNCHANGED mutex
    /\ UNCHANGED <<mount, revision, stranded>> /\ UNCHANGED disk /\ UNCHANGED bounds

\* The store fails, before the swap or with its acknowledgement lost: a link still takes its
\* policy back, an unlink returns the error and leaves the policy where it is.
SaveLinkFails(c) ==
    /\ PcIs(c, "saveLink")
    /\ \/ UNCHANGED link
       \/ Fits(c) /\ link' = Replacement(c)
    /\ IF tools[c].op = "link"
       THEN Jump(c, "remove") /\ UNCHANGED <<mutex, stranded>>
       ELSE ReturnTool(c) /\ stranded' = TRUE
    /\ UNCHANGED <<mount, revision>> /\ UNCHANGED disk /\ UNCHANGED bounds

\* The call's future is dropped where it waits: for the lock, an answer, the store or a
\* process, which is killed.  The store's swap may have been made.
DropTool(c) ==
    /\ tools[c].pc \in {"lock", "ask", "gitLock", "running", "readLink", "saveLink"}
    /\ \/ UNCHANGED link
       \/ PcIs(c, "saveLink") /\ Fits(c) /\ link' = Replacement(c)
    /\ stranded' = (stranded \/ tools[c].pc \in {"readLink", "saveLink"})
    /\ ReturnTool(c)
    /\ UNCHANGED <<mount, revision>> /\ UNCHANGED disk /\ UNCHANGED bounds

\* remove_policy, by alias: whoever's policy it is.
RemovePolicy(c) ==
    /\ PcIs(c, "remove") /\ Gated = {}
    /\ mount' = NoMount
    /\ revision' = IF mount = NoMount THEN revision ELSE revision + 1
    /\ stranded' = FALSE
    /\ ReturnTool(c)
    /\ UNCHANGED link /\ UNCHANGED disk /\ UNCHANGED bounds

-----------------------------------------------------------------------------
(* The world outside: editors, child processes, and a restart.             *)

\* An edit in place keeps the inode; saving by rename makes a new one.
OutsideEdit(r, p, t, inPlace) ==
    /\ edits < mix.edits
    /\ IF inPlace THEN files[r][p] # NoFile /\ files[r][p].text # t ELSE FreshInodes # {}
    /\ files' = [files EXCEPT ![r][p] =
            [id |-> IF inPlace THEN @.id ELSE CHOOSE n \in FreshInodes : TRUE,
             text |-> t, by |-> "outside"]]
    /\ edits' = edits + 1
    /\ UNCHANGED <<mount, revision, mutex, repo, published, link, stranded, tools, mix, began, reboots>>

\* Another git process: a commit, another remote, a filter.
OutsideGit(r, to) ==
    /\ edits < mix.edits /\ repo[r].head # 0 /\ to.head <= MaxHead
    /\ repo' = [repo EXCEPT ![r] = [to EXCEPT !.by = "outside"]]
    /\ edits' = edits + 1
    /\ UNCHANGED <<mount, revision, mutex, files, published, link, stranded, tools, mix, began, reboots>>

\* hydrate_drive_links over the operator's static policy: a record that is
\* not active removes it, an active one replaces it, and one that clashes
\* with its root is disabled, policy and all.
HydratedMount ==
    CASE link.status = "none" -> StaticMount
      [] link.status = "active" /\ link.root = StaticRoot ->
            [root |-> link.root, mode |-> link.mode, commands |-> FALSE]
      [] OTHER -> NoMount

Reboot ==
    /\ reboots < MaxReboots /\ reboots' = reboots + 1
    /\ mount' = HydratedMount
    /\ link' = IF link.status = "active" /\ link.root # StaticRoot
               THEN [link EXCEPT !.status = "invalid", !.ver = @ + 1] ELSE link
    /\ revision' = 0 /\ mutex' = {} /\ stranded' = FALSE
    /\ tools' = [c \in Tools |-> IdleTool]
    /\ UNCHANGED <<mix, began, edits>> /\ UNCHANGED disk

-----------------------------------------------------------------------------

ToolStep(c) ==
    \/ LockAndResolve(c) \/ ResolveTool(c) \/ Preflight(c)
    \/ Verify(c) \/ Restat(c) \/ Land(c)
    \/ Spawn(c) \/ Reap(c) \/ GitLock(c) \/ GitRecheck(c) \/ GitSpawn(c) \/ GitRun(c)
    \/ Insert(c) \/ ReadLink(c) \/ SaveLink(c) \/ SaveLinkFails(c)
    \/ RemovePolicy(c) \/ DropTool(c)
    \/ \E approved \in BOOLEAN : Answer(c, approved)

BeginTool(c) ==
    \/ \E p \in Paths, t \in Texts, o \in BOOLEAN : CallWrite(c, p, t, o)
    \/ \E op \in {"patch", "remove"}, p \in Paths, t \in Texts : CallTagged(c, op, p, "none", t, FALSE)
    \/ \E p, q \in Paths, t \in Texts, o \in BOOLEAN : p # q /\ CallTagged(c, "move", p, q, t, o)
    \/ CallProc(c)
    \/ \E op \in GitOps, p \in Paths : (op = "restore" \/ p = FirstPath) /\ CallGit(c, op, p)
    \/ \E r \in Roots, m \in {"ro", "rw"} : CallLink(c, [root |-> r, mode |-> m, commands |-> FALSE])
    \/ CallUnlink(c)

Outside ==
    \/ \E r \in Roots, p \in Paths, t \in Texts, inPlace \in BOOLEAN : OutsideEdit(r, p, t, inPlace)
    \/ \E r \in Roots : \E to \in {[repo[r] EXCEPT !.head = @ + 1], [repo[r] EXCEPT !.remote = "fork"],
                                   [repo[r] EXCEPT !.filters = TRUE]} : OutsideGit(r, to)

LinkedNext ==
    \/ \E c \in Tools : BeginTool(c) \/ ToolStep(c)
    \/ Outside
    \/ Reboot

LinkedSpec == LinkedInit /\ [][LinkedNext]_linkedVars

-----------------------------------------------------------------------------
(* Properties                                                              *)

LinkedTypeOK ==
    /\ mount \in {NoMount} \cup [root : Roots, mode : {"ro", "rw"}, commands : BOOLEAN]
    /\ revision \in Nat /\ mutex \subseteq Tools
    /\ \A r \in Roots, p \in Paths : files[r][p].id \in 0..MaxInodes
    /\ \A r \in Roots : repo[r].head \in 0..MaxHead
    /\ published \subseteq {"origin", "fork"} \X (1..MaxHead)
    /\ link.status \in {"none", "active", "revoked", "invalid"}
    /\ \A c \in Tools : PcIs(c, "idle") <=> tools[c] = IdleTool

Lands(c) == PcIs(c, "land") /\ tools'[c].pc = "idle" /\ files' # files
Spawns(c) == tools[c].pc \in {"spawn", "gitSpawn"} /\ tools'[c].pc = "running"
Affected(c) == {tools[c].path} \cup (IF tools[c].op = "move" THEN {tools[c].dest} ELSE {})

\* A file is changed, or a process started, under exactly the policy the
\* call began with: an unlink, a relink elsewhere or a narrowing to ro while
\* the approval was pending is noticed (with_stable_policy_snapshot).
ActsUnderItsGrant ==
    [][\A c \in Tools : Lands(c) \/ Spawns(c) => mount = tools[c].grant]_linkedVars

\* No tool replaces, moves or removes a file that another tool of the host
\* wrote after it looked: lock_mutations covers the look, the approval and
\* the commit.
HostEditsAreSeen ==
    [][\A c \in Tools : Lands(c) =>
          \A p \in Affected(c) :
             FileAt(c, p).by = "host" =>
                FileAt(c, p) \in {tools[c].saw, tools[c].sawDest}]_linkedVars

\* git commits, restores or initialises only the repository state it showed,
\* as far as the host's own tools are concerned: approval_state is compared
\* under the mutation lock.
GitActsAsShown ==
    [][\A c \in Tools :
          PcIs(c, "running") /\ MutatesLocal(tools[c].op) /\ RepoOf(c).by = "host" /\ disk' # disk
          /\ tools'[c].pc = "idle" => ApprovalState(c) = tools[c].sawRepo]_linkedVars

\* A link that was revoked or disabled grants nothing, also after a restart
\* over a config that still names it, once no link or unlink is between the
\* record and the policy.  One that was cut off there, by its error or by
\* being dropped, leaves the grant until the next unlink or restart.
RevokedIsNotMounted ==
    link.status \in {"revoked", "invalid"} =>
        \/ mount = NoMount \/ stranded
        \/ \E c \in Tools : tools[c].pc \in {"readLink", "saveLink", "remove"}

\* What tools on linked folders keep.
LinkedCorrect ==
  /\ []LinkedTypeOK
  /\ []RevokedIsNotMounted
  /\ ActsUnderItsGrant
  /\ HostEditsAreSeen
  /\ GitActsAsShown
=============================================================================
