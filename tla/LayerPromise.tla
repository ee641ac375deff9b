---------------------------- MODULE LayerPromise ----------------------------
(***************************************************************************)
(* REQ-019 as the guild's own runs must keep it: what git makes of each     *)
(* AI-layer path of one project, and who may change that.  A path is        *)
(*   "tracked"  in the index or in HEAD,                                    *)
(*   "hidden"   on disk, untracked and excluded: git status is silent,      *)
(*   "visible"  on disk, untracked and not excluded: git status lists it,   *)
(*   "absent"   none of these.                                              *)
(* A person may do anything.  A run of the guild, whole or killed half way, *)
(* may only hide a path, or untrack one whose file a person has deleted: it *)
(* never shows git a new file, never tracks one and never deletes one.  A   *)
(* path the person changes while the run is under way is not promised for.  *)
(***************************************************************************)
EXTENDS Naturals

CONSTANT Paths
VARIABLES status,
          edits,     \* how many steps a person has taken
          touched    \* the paths a person has changed during the present run

Status == {"absent", "tracked", "hidden", "visible"}

MayBecome(was, is) ==
  \/ is = was
  \/ is = "hidden"
  \/ was = "tracked" /\ is = "absent"

Guild ==
  /\ UNCHANGED edits
  /\ status' \in [Paths -> Status]
  /\ \A p \in Paths \ touched : MayBecome(status[p], status'[p])

Person ==
  /\ edits' = edits + 1
  /\ status' \in [Paths -> Status]

Init == edits = 0 /\ status \in [Paths -> Status]
Promise == Init /\ [][Guild \/ Person]_<<status, edits, touched>>
=============================================================================
