------------------------------ MODULE Workflows ------------------------------
(***************************************************************************)
(* Durable workflows (workflow.rs): an instance record and its history,    *)
(* written together by every transition, either as a transaction of its    *)
(* own or in a Transaction of the caller. What a step computes, its state, *)
(* its parent and its times are opaque to the code and left out.           *)
(***************************************************************************)
EXTENDS Transactions

CONSTANTS
  WorkflowId,
  Signal,      \* names of signals
  NoWait,      \* the instance waits for nothing
  MaxTimer,    \* bound: times of timers
  MaxHistory   \* bound: u64::MAX for the sequence of a history

ASSUME WorkflowAssumption == WorkflowId \subseteq Nat /\ MaxTimer \in Nat /\ MaxHistory \in Nat

InstanceKey(id) == <<"instance", id, 0>>
HistoryKey(id, sequence) == <<"history", id, sequence>>

WorkflowKeys ==
  {InstanceKey(id) : id \in WorkflowId}
    \cup {HistoryKey(id, n) : id \in WorkflowId, n \in 0 .. MaxHistory}

Instance(status, wait) == [status |-> status, wait |-> wait]

WaitSignal(name) == [on |-> "signal", what |-> name]
WaitTimer(at) == [on |-> "timer", what |-> at]

Entry(kind, detail) == [kind |-> kind, detail |-> detail]

Terminal == {"Completed", "Failed", "Cancelled"}

(* The status that an instance has after the transition that kind names.   *)
StatusAfter(kind) ==
  CASE kind \in {"WaitingSignal", "WaitingTimer"} -> "Waiting"
    [] kind \in Terminal -> kind
    [] OTHER -> "Running"

Recorded(id, n, kind) == <<"recorded", [id |-> id, sequence |-> n, kind |-> kind]>>
Finished(id, status) == <<"finished", [id |-> id, status |-> status]>>

-----------------------------------------------------------------------------
HistoryOf(m, id) == {n \in 0 .. MaxHistory : m[HistoryKey(id, n)] # NoRecord}

LastOf(m, id) ==
  LET entries == HistoryOf(m, id) IN CHOOSE n \in entries : \A o \in entries : o <= n

NextSequence(m, id) == IF HistoryOf(m, id) = {} THEN 0 ELSE LastOf(m, id) + 1

PersistBehindCommitted(id, kind, wait, detail) ==
  And(Put(InstanceKey(id), Instance(StatusAfter(kind), wait)),
      Put(HistoryKey(id, NextSequence(mem, id)), Entry(kind, detail)))

(* persist_instance_with_history: the instance and the entry that follows  *)
(* the last one that the transaction sees.                                 *)
Persist(id, kind, wait, detail) ==
  And(Put(InstanceKey(id), Instance(StatusAfter(kind), wait)),
      Put(HistoryKey(id, NextSequence(View, id)), Entry(kind, detail)))

Transition(id, kind, wait, detail) ==
  [writes |-> Persist(id, kind, wait, detail),
   facts |-> {Recorded(id, NextSequence(View, id), kind)}
               \cup IF kind \in Terminal THEN {Finished(id, kind)} ELSE {}]

HasRoom(id) == NextSequence(View, id) <= MaxHistory

Exists(id) == View[InstanceKey(id)] # NoRecord

Present(id) == Exists(id) /\ HasRoom(id)

(* ensure_active, and is_terminal in finish and cancel.                    *)
Active(id) == Present(id) /\ View[InstanceKey(id)].status \notin Terminal

RunsAlone(transition) == Alone(transition.writes, transition.facts)

RunsInTx(transition) == Staged(transition.writes, transition.facts)

(* The transitions, each as a transaction of its own and in a Transaction. *)
Created(id) == Transition(id, "Created", NoWait, NoWait)

(* An identifier is random in the code and unused here.                    *)
Fresh(id) == ~Exists(id) /\ \A i \in Copy : HistoryOf(Map(i), id) = {}

CreateWorkflow(id) == Fresh(id) /\ RunsAlone(Created(id))

TxCreateWorkflow(id) == Fresh(id) /\ RunsInTx(Created(id))

StepChanged(id) == Transition(id, "StepChanged", NoWait, NoWait)

SetWorkflowStep(id) == Active(id) /\ RunsAlone(StepChanged(id))

TxSetWorkflowStep(id) == Active(id) /\ RunsInTx(StepChanged(id))

WaitingSignal(id, name) == Transition(id, "WaitingSignal", WaitSignal(name), name)

WaitForSignal(id, name) == Active(id) /\ RunsAlone(WaitingSignal(id, name))

TxWaitForSignal(id, name) == Active(id) /\ RunsInTx(WaitingSignal(id, name))

SignalReceived(id, name) == Transition(id, "SignalReceived", NoWait, name)

(* Whether the instance is finished is not asked.                          *)
Awaits(id, name) == Present(id) /\ View[InstanceKey(id)].wait = WaitSignal(name)

SignalWorkflow(id, name) == Awaits(id, name) /\ RunsAlone(SignalReceived(id, name))

TxSignalWorkflow(id, name) == Awaits(id, name) /\ RunsInTx(SignalReceived(id, name))

WaitingTimer(id, at) == Transition(id, "WaitingTimer", WaitTimer(at), at)

WaitUntil(id, at) == Active(id) /\ RunsAlone(WaitingTimer(id, at))

TxWaitUntil(id, at) == Active(id) /\ RunsInTx(WaitingTimer(id, at))

Finish(id, status) == Transition(id, status, NoWait, NoWait)

CompleteWorkflow(id) == Active(id) /\ RunsAlone(Finish(id, "Completed"))

FailWorkflow(id) == Active(id) /\ RunsAlone(Finish(id, "Failed"))

CancelWorkflow(id) == Active(id) /\ RunsAlone(Finish(id, "Cancelled"))

TxCompleteWorkflow(id) == Active(id) /\ RunsInTx(Finish(id, "Completed"))

TxFailWorkflow(id) == Active(id) /\ RunsInTx(Finish(id, "Failed"))

TxCancelWorkflow(id) == Active(id) /\ RunsInTx(Finish(id, "Cancelled"))

-----------------------------------------------------------------------------
(* resume_due_workflows: the due instances are collected up to the limit,  *)
(* then each is resumed by a transaction.                                  *)
ResumeDueWorkflows(now, limit) ==
  LET due == {id \in WorkflowId : /\ mem[InstanceKey(id)] # NoRecord
                                  /\ mem[InstanceKey(id)].status = "Waiting"
                                  /\ mem[InstanceKey(id)].wait.on = "timer"
                                  /\ mem[InstanceKey(id)].wait.what <= now}
      taken == {id \in due : Cardinality({o \in due : o < id}) < limit}
  IN  /\ taken # {}
      /\ StartCall([op |-> "resume", due |-> taken])

ResumeStep ==
  /\ call # NoCall
  /\ call.op = "resume"
  /\ \E id \in call.due :
       LET fired == Transition(id, "TimerFired", NoWait, NoWait)
       IN  /\ \A other \in call.due : id <= other
           /\ HasRoom(id)
           /\ CallStep(fired.writes, fired.facts,
                       IF call.due = {id} THEN NoCall ELSE [call EXCEPT !.due = @ \ {id}])

WorkflowSteps ==
  \/ ResumeStep
  \/ \E now \in 0 .. MaxTimer, limit \in 0 .. 2 : ResumeDueWorkflows(now, limit)
  \/ \E id \in WorkflowId :
       \/ CreateWorkflow(id) \/ SetWorkflowStep(id)
       \/ CompleteWorkflow(id) \/ FailWorkflow(id) \/ CancelWorkflow(id)
       \/ \E name \in Signal : WaitForSignal(id, name) \/ SignalWorkflow(id, name)
       \/ \E at \in 0 .. MaxTimer : WaitUntil(id, at)

TxWorkflowSteps ==
  \E id \in WorkflowId :
    \/ TxCreateWorkflow(id) \/ TxSetWorkflowStep(id)
    \/ TxCompleteWorkflow(id) \/ TxFailWorkflow(id) \/ TxCancelWorkflow(id)
    \/ \E name \in Signal : TxWaitForSignal(id, name) \/ TxSignalWorkflow(id, name)
    \/ \E at \in 0 .. MaxTimer : TxWaitUntil(id, at)

-----------------------------------------------------------------------------
(* A workflow that was reported as completed, failed or cancelled stays    *)
(* so, in memory and in everything a recovery may find. signal_workflow    *)
(* does not look at the status: it relies on every finish to clear wait.   *)
FinishedIsFinal ==
  \A f \in told : f[1] = "finished" =>
    \A i \in Copy : Map(i)[InstanceKey(f[2].id)] = Instance(f[2].status, NoWait)

(* A transition that was reported keeps its place in the history, in       *)
(* memory and in everything a recovery may find, though later transitions  *)
(* take their place from what their transaction sees.                      *)
HistoryIsKept ==
  \A f \in told : f[1] = "recorded" =>
    \A i \in Copy :
      /\ Map(i)[HistoryKey(f[2].id, f[2].sequence)] # NoRecord
      /\ Map(i)[HistoryKey(f[2].id, f[2].sequence)].kind = f[2].kind

(* The last entry of a history tells the status of its instance. An entry  *)
(* of a commit in doubt may be left over behind it: a Transaction with two *)
(* transitions is in doubt, and a repetition makes only the first.         *)
HistoryTellsStatus ==
  \A i \in Copy, id \in WorkflowId : Map(i)[InstanceKey(id)] # NoRecord =>
    /\ HistoryOf(Map(i), id) # {}
    /\ LET last == HistoryKey(id, LastOf(Map(i), id))
       IN  \/ StatusAfter(Map(i)[last].kind) = Map(i)[InstanceKey(id)].status
           \/ last \in doubted

(* A signal or a timer is received once for each wait: its entry follows   *)
(* the entry of a wait for it. Entries of commits in doubt are excepted,   *)
(* as above.                                                               *)
WaitsAreAnsweredOnce ==
  \A i \in Copy, id \in WorkflowId, n \in 1 .. MaxHistory :
    LET entry == Map(i)[HistoryKey(id, n)]
        before == Map(i)[HistoryKey(id, n - 1)]
    IN  entry # NoRecord /\ {HistoryKey(id, n), HistoryKey(id, n - 1)} \cap doubted = {} =>
          /\ before # NoRecord
          /\ entry.kind = "SignalReceived" => before = Entry("WaitingSignal", entry.detail)
          /\ entry.kind = "TimerFired" => before.kind = "WaitingTimer"

(* Instance and history of a workflow belong together after any crash:     *)
(* finished ones stay finished, reported transitions stay in the history,  *)
(* its end tells the status, and each wait is answered once.               *)
WorkflowsAreSound == FinishedIsFinal /\ HistoryIsKept /\ HistoryTellsStatus /\ WaitsAreAnsweredOnce

=============================================================================
