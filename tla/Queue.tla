-------------------------------- MODULE Queue --------------------------------
(***************************************************************************)
(* The durable queue (queue.rs): messages with an identifier, a state and  *)
(* a count of attempts. A claim leases the best eligible message; the      *)
(* attempt number it returns, the lease generation, must be shown to       *)
(* settle the message. Workers keep the receipts of their claims and may   *)
(* use them at any later time, after a restart of the Store too. The time  *)
(* is an argument of the caller's and need not advance.                    *)
(***************************************************************************)
EXTENDS DurableRecords, FiniteSets

CONSTANTS
  Worker,
  Payload,
  MaxId,        \* u64::MAX for message identifiers
  MaxAttempts,  \* u32::MAX for attempts
  MaxTime,      \* i64::MAX for times in milliseconds
  Priority      \* a set of integers

ASSUME QueueAssumption ==
  /\ MaxId \in Nat \ {0}
  /\ MaxAttempts \in Nat
  /\ MaxTime \in Nat
  /\ Priority \subseteq Int
  /\ NoRecord \notin Payload
  /\ NoRecord \notin 1 .. MaxId

VARIABLES
  receipts,  \* claims that returned a message
  pushed,    \* history: payloads whose push returned their identifier
  settled,   \* history: leases whose ack or dead_letter returned Ok
  gone       \* history: messages that an ack or a purge may have removed

history == <<receipts, pushed, settled, gone>>
vars == <<mem, medium, history>>

Meta == 0
Id == 1 .. MaxId - 1
Time == 0 .. MaxTime

ASSUME KeyAssumption == RecordKey = {Meta} \cup Id

StoredMessage ==
  [state: {"Ready", "Leased", "Dead"}, payload: Payload, attempts: 0 .. MaxAttempts,
   priority: Priority, available_at_ms: Time, lease_until_ms: Time]

ASSUME MessageAssumption == NoRecord \notin StoredMessage

Init ==
  /\ InitRecords
  /\ receipts = {}
  /\ pushed = [id \in Id |-> NoRecord]
  /\ settled = {}
  /\ gone = {}

-----------------------------------------------------------------------------
NextIdFromCount(m) == 1 + Cardinality({id \in Id : m[id] # NoRecord})

NextId(m) == IF m[Meta] = NoRecord THEN 1 ELSE m[Meta]

PushWritesMessageOnly(id, message) == [k \in {id} |-> message]

(* One transaction writes the message and the next identifier.             *)
PushWrites(id, message) == [k \in {Meta, id} |-> IF k = Meta THEN id + 1 ELSE message]

NewMessage(payload, priority, at) ==
  [state |-> "Ready", payload |-> payload, attempts |-> 0, priority |-> priority,
   available_at_ms |-> at, lease_until_ms |-> 0]

Push(payload, priority, at) ==
  LET id == NextId(mem)
      writes == PushWrites(id, NewMessage(payload, priority, at))
  IN  /\ id < MaxId
      /\ \/ CommitOk(writes) /\ pushed' = [pushed EXCEPT ![id] = payload]
         \/ CommitInDoubt(writes) /\ UNCHANGED pushed
      /\ UNCHANGED <<receipts, settled, gone>>

Present == {id \in Id : mem[id] # NoRecord}

Eligible(id, now) ==
  \/ mem[id].state = "Ready" /\ mem[id].available_at_ms <= now
  \/ mem[id].state = "Leased" /\ mem[id].lease_until_ms <= now

Precedes(a, b) ==
  \/ mem[a].priority > mem[b].priority
  \/ mem[a].priority = mem[b].priority /\ a < b

AttemptLeft(id) == mem[id].attempts < MaxAttempts

Leased(id, until) ==
  [mem[id] EXCEPT !.state = "Leased", !.attempts = @ + 1, !.lease_until_ms = until]

Write(id, record) == [k \in {id} |-> record]

(* A claim that finds no candidate, whose lease would end after the last   *)
(* time, or whose candidate has no attempt left, writes nothing.           *)
Claim(worker, now, lease) ==
  \E id \in Present :
    LET message == Leased(id, now + lease)
    IN  /\ now + lease <= MaxTime
        /\ Eligible(id, now)
        /\ \A other \in Present \ {id} : Eligible(other, now) => Precedes(id, other)
        /\ AttemptLeft(id)
        /\ \/ /\ CommitOk(Write(id, message))
              /\ receipts' = receipts \cup
                   {[worker |-> worker, id |-> id, generation |-> message.attempts,
                     payload |-> message.payload]}
           \/ CommitInDoubt(Write(id, message)) /\ UNCHANGED receipts
        /\ UNCHANGED <<pushed, settled, gone>>

ValidateLeaseStateOnly(id, generation) ==
  mem[id] # NoRecord /\ mem[id].state = "Leased"

ValidateLease(id, generation) ==
  /\ mem[id] # NoRecord
  /\ mem[id].state = "Leased"
  /\ mem[id].attempts = generation

Settlement(r) == [id |-> r.id, generation |-> r.generation]

Ack(r) ==
  /\ ValidateLease(r.id, r.generation)
  /\ \/ CommitOk(Write(r.id, NoRecord)) /\ settled' = settled \cup {Settlement(r)}
     \/ CommitInDoubt(Write(r.id, NoRecord)) /\ UNCHANGED settled
  /\ gone' = gone \cup {r.id}
  /\ UNCHANGED <<receipts, pushed>>

RequeuedAfresh(id, at) ==
  [mem[id] EXCEPT !.state = "Ready", !.available_at_ms = at, !.lease_until_ms = 0, !.attempts = 0]

Requeued(id, at) ==
  [mem[id] EXCEPT !.state = "Ready", !.available_at_ms = at, !.lease_until_ms = 0]

Nack(r, at) ==
  /\ ValidateLease(r.id, r.generation)
  /\ CommitOk(Write(r.id, Requeued(r.id, at))) \/ CommitInDoubt(Write(r.id, Requeued(r.id, at)))
  /\ UNCHANGED history

Buried(id) == [mem[id] EXCEPT !.state = "Dead", !.lease_until_ms = 0]

DeadLetter(r) ==
  /\ ValidateLease(r.id, r.generation)
  /\ \/ CommitOk(Write(r.id, Buried(r.id))) /\ settled' = settled \cup {Settlement(r)}
     \/ CommitInDoubt(Write(r.id, Buried(r.id))) /\ UNCHANGED settled
  /\ UNCHANGED <<receipts, pushed, gone>>

PurgeDead ==
  LET dead == {id \in Present : mem[id].state = "Dead"}
      writes == [k \in dead |-> NoRecord]
  IN  /\ dead # {}
      /\ CommitOk(writes) \/ CommitInDoubt(writes)
      /\ gone' = gone \cup dead
      /\ UNCHANGED <<receipts, pushed, settled>>

Next ==
  \/ \E payload \in Payload, priority \in Priority, at \in Time : Push(payload, priority, at)
  \/ \E worker \in Worker, now \in Time, lease \in Time : Claim(worker, now, lease)
  \/ \E r \in receipts : Ack(r)
  \/ \E r \in receipts, at \in Time : Nack(r, at)
  \/ \E r \in receipts : DeadLetter(r)
  \/ PurgeDead
  \/ (Flush \/ Restart \/ PowerLoss) /\ UNCHANGED history

Spec == Init /\ [][Next]_vars

-----------------------------------------------------------------------------
(* Properties.                                                             *)

Receipt == [worker: Worker, id: Id, generation: 1 .. MaxAttempts, payload: Payload]

RecordsOK(m) ==
  /\ DOMAIN m = RecordKey
  /\ m[Meta] = NoRecord \/ m[Meta] \in 1 .. MaxId
  /\ \A id \in Id : m[id] = NoRecord \/ m[id] \in StoredMessage

(* Records, receipts and histories have their types; identifiers and       *)
(* attempts stay within their width.                                       *)
TypeOK ==
  /\ RecordsOK(mem)
  /\ medium # << >> /\ \A i \in DOMAIN medium : RecordsOK(medium[i])
  /\ receipts \subseteq Receipt
  /\ pushed \in [Id -> Payload \cup {NoRecord}]
  /\ settled \subseteq [id: Id, generation: 1 .. MaxAttempts]
  /\ gone \subseteq Id

(* A lease generation is a fencing token: no two claims are ever given the *)
(* same one for a message, whatever was in doubt, lost or restarted in     *)
(* between.                                                                *)
GenerationsAreUnique ==
  \A r, s \in receipts :
    r.id = s.id /\ r.generation = s.generation => r = s

(* Once an ack or a dead_letter has returned Ok, its message is never      *)
(* delivered under a newer generation, and none had been before: a stale   *)
(* worker cannot settle a message that was claimed again.                  *)
SettledIsFinal ==
  \A s \in settled, r \in receipts : r.id = s.id => r.generation <= s.generation

(* A message whose push returned stays in the queue, with its payload,     *)
(* until an ack or a purge is asked to remove it.                          *)
PushedIsKept ==
  \A id \in Id : pushed[id] # NoRecord /\ id \notin gone =>
    mem[id] # NoRecord /\ mem[id].payload = pushed[id]

(* A claim returns the payload that was pushed under the identifier.       *)
DeliveredAsPushed ==
  \A r \in receipts : pushed[r.id] \in {NoRecord, r.payload}

=============================================================================
