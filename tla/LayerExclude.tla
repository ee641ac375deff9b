---------------------------- MODULE LayerExclude ----------------------------
(***************************************************************************)
(* What a run that changes a project's files relies on from info/exclude:  *)
(* whether the file already hides the whole AI layer, and whether it holds  *)
(* a marker block that was never closed.  ExcludeFile is the detailed       *)
(* account, line by line and with overlapping writers; LayerMigrate and     *)
(* LayerCopy use the actions below as the one call they make of it.         *)
(***************************************************************************)
EXTENDS Naturals

VARIABLES excluded,  \* every pattern of the AI layer is a line of the file
          broken,    \* _validate_marker_lines refuses the file
          edits      \* how often a person changed something

(* Read, validate and append in one uninterrupted call. *)
AppendBlock ==
  /\ ~broken
  /\ excluded' = TRUE
  /\ UNCHANGED broken

(* The call raises MalformedExcludeBlockError and writes nothing. *)
RefuseBlock ==
  /\ broken
  /\ UNCHANGED <<excluded, broken>>

(* The writer dies inside its single append: part of the block is there,    *)
(* possibly every pattern of it, and no closing marker.                     *)
TearBlock ==
  /\ ~broken /\ ~excluded
  /\ broken' = TRUE
  /\ excluded' \in BOOLEAN

(* A person fixes the unclosed block by hand, dropping its patterns or not. *)
RepairBlock ==
  /\ broken
  /\ broken' = FALSE
  /\ excluded' \in {excluded, FALSE}

(* The promise to every other part of the guild, with any number of writers *)
(* at once: a file that hides the layer, in well-formed blocks, goes on     *)
(* hiding it until a person changes that.                                   *)
ExcludeInit == edits = 0
Writers ==
  /\ UNCHANGED edits
  /\ excluded /\ ~broken => excluded'
Editor  == edits' = edits + 1
ExcludePromise ==
  ExcludeInit /\ [][Writers \/ Editor]_<<excluded, broken, edits>>
=============================================================================
