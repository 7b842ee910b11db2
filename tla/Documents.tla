------------------------------ MODULE Documents ------------------------------
(***************************************************************************)
(* Workflows, a collection, objects, queue messages and jobs, and the      *)
(* application's own keys in one Store. A Transaction may change several   *)
(* of them together.                                                       *)
(***************************************************************************)
EXTENDS Workflows, Collections, Objects, KeyValues, StagedWork

vars == <<txVars, held>>

Init == InitTransactions /\ InitUser

Elsewhere(steps) == steps /\ UNCHANGED held

Next ==
  \/ Elsewhere(Begin \/ Reopen \/ Rollback \/ CallFails \/ FlushStore)
  \/ CommitUser
  \/ Elsewhere(WorkflowSteps \/ TxWorkflowSteps)
  \/ Elsewhere(CreateCollection \/ MigrationSteps \/ IndexSteps \/ RecordSteps)
  \/ Elsewhere(ObjectSteps \/ TxObjectSteps)
  \/ UserSteps \/ TxUserSteps
  \/ Elsewhere(PushSteps \/ WorkSteps \/ TriggerSteps)

Spec == Init /\ [][Next]_vars

=============================================================================
