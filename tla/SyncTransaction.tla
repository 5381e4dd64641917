-------------------------- MODULE SyncTransaction --------------------------
(***************************************************************************)
(* What a user of the plugin relies on, told without adapters, diffs and   *)
(* handlers: a sync job is one transaction. It leaves the database alone   *)
(* until it ends, and then it changes nothing or changes at once what its  *)
(* options promise. Meanwhile users edit the database.                     *)
(***************************************************************************)
EXTENDS Naturals

CONSTANTS
  None,               \* no job
  Options,            \* the options users start a job with
  InitialDatabases,
  Consistent(_),      \* what holds of every database
  Promise(_, _, _)    \* Promise(o, D, E): a job with options o may make E of D

VARIABLES
  rows,               \* the database, as it is committed
  job,                \* options of the running job
  edits               \* number of edits by users

vars == <<rows, job, edits>>

Init == rows \in InitialDatabases /\ job = None /\ edits = 0

Begin == job = None /\ job' \in Options /\ UNCHANGED <<rows, edits>>

Abort == job # None /\ job' = None /\ UNCHANGED <<rows, edits>>

Commit == /\ job # None /\ job' = None
          /\ Promise(job, rows, rows') /\ Consistent(rows')
          /\ UNCHANGED edits

(* Nothing but a commit and an edit touches the rows.                      *)
Edit == edits' = edits + 1 /\ Consistent(rows') /\ UNCHANGED job

Next == Begin \/ Abort \/ Commit \/ Edit

SafeSpec == Init /\ [][Next]_vars
Spec     == SafeSpec /\ WF_vars(Abort \/ Commit)
=============================================================================
