------------------------------- MODULE MCHost --------------------------------
(***************************************************************************)
(* Small instances of the cells that make host calls, and of what those    *)
(* calls change: the drive, linked folders with their git repository, and  *)
(* processes in their sandbox; and of a phone that pairs.  They share no   *)
(* state.  A behaviour plays one of them, the scene, and leaves the others *)
(* where they began.                                                       *)
(***************************************************************************)
EXTENDS PhoneAuthority, ProcIsolation, CellRuntime, DriveStore, LinkedFolders, TLC

CONSTANTS c1, c2

VARIABLE scene

host == <<driveVars, linkedVars, cellVars, isoVars, phoneVars, scene>>

ToFinance == [h \in Contents |-> "finance"]

\* Any two calls, or links and unlinks only.
ToolMixes == {[ops |-> FsOps \cup GitOps \cup LinkOps \cup {"proc"}, calls |-> 2, edits |-> 1],
              [ops |-> LinkOps, calls |-> 3, edits |-> 0]}

Symmetry == Permutations({c1, c2})

\* A cell with nested scopes, one with an effect beside a pure one, and cells that
\* bind, rebind and read a name; then a cell that does not parse and a later read.
Nested == [n \in Nodes |-> CASE n = "inner" -> {"outer"} [] n = "e1" -> {"outer"}
                              [] n = "e2" -> {"outer", "inner"} [] OTHER -> {}]
Pure == [parses |-> TRUE, reads |-> {}, writes |-> {}, uses |-> {}]
Tree == [Pure EXCEPT !.uses = {"outer", "inner", "e1", "e2"}]
Single == [Pure EXCEPT !.uses = {"e3"}]
BindX == [Pure EXCEPT !.writes = {"x"}]
ReadX == [Pure EXCEPT !.reads = {"x"}, !.writes = {"y"}]
Garbled == [Pure EXCEPT !.parses = FALSE]
Dialogue == <<{<<Tree>>, <<Single, Pure>>, <<BindX, BindX, ReadX>>}, {<<Garbled, ReadX>>, <<ReadX>>}>>

HostInit ==
  /\ scene \in {"phone", "proc", "cells", "drive", "linked"}
  /\ PhoneInit /\ IsoInit /\ CellInit /\ DriveInit /\ LinkedInit
  /\ scene = "linked" \/ mix.ops = LinkOps
  /\ scene = "proc" \/ profile = "disabled"
  /\ scene = "phone" \/ url = Nil

HostNext ==
  /\ UNCHANGED scene
  /\ \/ /\ scene = "drive" /\ DriveNext
        /\ UNCHANGED <<linkedVars, cellVars, isoVars, phoneVars>>
     \/ /\ scene = "linked" /\ LinkedNext
        /\ UNCHANGED <<driveVars, cellVars, isoVars, phoneVars>>
     \/ /\ scene = "cells" /\ CellNext
        /\ UNCHANGED <<driveVars, linkedVars, isoVars, phoneVars>>
     \/ /\ scene = "proc" /\ IsoNext
        /\ UNCHANGED <<driveVars, linkedVars, cellVars, phoneVars>>
     \/ /\ scene = "phone" /\ PhoneNext
        /\ UNCHANGED <<driveVars, linkedVars, cellVars, isoVars>>

HostSpec == HostInit /\ [][HostNext]_host
=============================================================================
