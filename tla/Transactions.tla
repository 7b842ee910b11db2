---------------------------- MODULE Transactions -----------------------------
(***************************************************************************)
(* How the primitives reach the Store. An operation on the Store is a      *)
(* transaction of its own. A caller may instead open a Transaction, run    *)
(* operations of several primitives in it, which read what the earlier     *)
(* ones staged, and commit or drop it. A maintenance operation that walks  *)
(* over records makes one transaction per record, and a failure or a crash *)
(* may fall between two of them. The Transaction, and the operation that   *)
(* walks, borrow the Store, so nothing else runs meanwhile.                *)
(*                                                                         *)
(* Keys are triples <<kind, a, b>>. A caller whose operation fails inside  *)
(* a Transaction drops it, as the bindings do.                             *)
(***************************************************************************)
EXTENDS DurableRecords, FiniteSets

CONSTANTS
  NoTx,      \* no Transaction is open
  NoCall,    \* no operation is between two of its transactions
  MaxStaged  \* bound: operations of one Transaction

ASSUME MaxStagedAssumption == MaxStaged \in Nat

VARIABLES
  stage,   \* the open Transaction: its writes, its size, what it will have told
  call,    \* the operation that is between two of its transactions
  told,    \* history: what operations reported to their callers, or were asked for
  doubted  \* history: keys written by commits whose sync failed

txVars == <<mem, medium, stage, call, told, doubted>>

Put(key, record) == [k \in {key} |-> record]

Delete(key) == Put(key, NoRecord)

(* The writes v after the writes w.                                        *)
And(w, v) == [k \in DOMAIN v \cup DOMAIN w |-> IF k \in DOMAIN v THEN v[k] ELSE w[k]]

Nothing == [k \in {} |-> NoRecord]

Idle == stage = NoTx /\ call = NoCall

(* The map in memory, and every map that a recovery may find.              *)
Copy == 0 .. Len(medium)

Map(i) == IF i = 0 THEN mem ELSE medium[i]

(* What the open Transaction reads: the last staged write of a key, or the *)
(* committed record.                                                       *)
View == IF stage = NoTx THEN mem ELSE Written(mem, stage.writes)

InitTransactions ==
  /\ InitRecords
  /\ stage = NoTx
  /\ call = NoCall
  /\ told = {}
  /\ doubted = {}

(* A transaction with the writes w: it commits, and the operation reports  *)
(* facts and goes on as next says, or its sync fails, and the operation    *)
(* ends with an error.                                                     *)
Commits(w, facts, asked, next) ==
  \/ /\ CommitOk(w)
     /\ told' = told \cup asked \cup facts
     /\ call' = next
     /\ doubted' = doubted
  \/ /\ CommitInDoubt(w)
     /\ told' = told \cup asked
     /\ call' = NoCall
     /\ doubted' = doubted \cup DOMAIN w

(* An operation on the Store that is one transaction; asked is recorded    *)
(* even when it fails.                                                     *)
AloneAsking(w, facts, asked) ==
  /\ Idle
  /\ Commits(w, facts, asked, NoCall)
  /\ UNCHANGED stage

Alone(w, facts) == AloneAsking(w, facts, {})

(* An operation that only reads.                                           *)
Reads(facts) ==
  /\ Idle
  /\ told' = told \cup facts
  /\ UNCHANGED <<mem, medium, stage, call, doubted>>

(* The Transaction of a caller.                                            *)
BeginWith(w) ==
  /\ Idle
  /\ stage' = [writes |-> w, facts |-> {}, size |-> 0]
  /\ UNCHANGED <<mem, medium, call, told, doubted>>

Begin == BeginWith(Nothing)

Staged(w, facts) ==
  /\ stage # NoTx
  /\ stage.size < MaxStaged
  /\ stage' = [writes |-> And(stage.writes, w), facts |-> stage.facts \cup facts,
               size |-> stage.size + 1]
  /\ UNCHANGED <<mem, medium, call, told, doubted>>

Commit ==
  /\ stage # NoTx
  /\ Commits(stage.writes, stage.facts, {}, NoCall)
  /\ stage' = NoTx

(* rollback, a Transaction dropped after an error, or a commit that failed *)
(* before its commit record.                                               *)
Rollback ==
  /\ stage # NoTx
  /\ stage' = NoTx
  /\ UNCHANGED <<mem, medium, call, told, doubted>>

(* An operation that walks over records: it starts, each step is a         *)
(* transaction, and any step may fail and end it.                          *)
StartCall(c) ==
  /\ Idle
  /\ call' = c
  /\ UNCHANGED <<mem, medium, stage, told, doubted>>

(* An operation whose first step is a transaction already.                 *)
StartCallWith(w, next) ==
  /\ Idle
  /\ Commits(w, {}, {}, next)
  /\ UNCHANGED stage

CallStep(w, facts, next) ==
  /\ call # NoCall
  /\ Commits(w, facts, {}, next)
  /\ UNCHANGED stage

CallSkips(next) ==
  /\ call' = next
  /\ UNCHANGED <<mem, medium, stage, told, doubted>>

CallFails ==
  /\ call # NoCall
  /\ CallSkips(NoCall)

FlushStore ==
  /\ Idle
  /\ Flush
  /\ UNCHANGED <<stage, call, told, doubted>>

(* The Store is closed or its process dies, and it is opened again; or     *)
(* power is lost.                                                          *)
Reopen ==
  /\ Restart \/ PowerLoss
  /\ stage' = NoTx
  /\ call' = NoCall
  /\ UNCHANGED <<told, doubted>>

TransactionSteps == Commit \/ Rollback \/ CallFails \/ FlushStore

=============================================================================
