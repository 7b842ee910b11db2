----------------------------- MODULE LogRecovery -----------------------------
(***************************************************************************)
(* The append-only log of a Store and what recovery reads from it          *)
(* (voodoo-store-core, log.rs and the recover function of engine.rs).      *)
(*                                                                         *)
(* A log is the sequence of physical records that follow the file header.  *)
(* Bytes, checksums and payload encodings are abstracted: a record is      *)
(* either complete, with its fields, or Torn, a record of which only some  *)
(* bytes reached the file.                                                 *)
(***************************************************************************)
EXTENDS Integers, Sequences, FiniteSets, FiniteSetsExt

CONSTANTS
  Key,          \* keys of the user and of the primitives built on the store
  Value,        \* values stored under them
  NoKey,        \* the key field of a record that has none
  NoValue,      \* the value of an absent key, and of a delete
  MaxTxId,      \* u64::MAX for transaction identifiers
  MaxSequence,  \* u64::MAX for record sequence numbers
  MaxOps        \* bound: user operations staged by one transaction

ASSUME BoundsAssumption ==
  /\ MaxTxId \in Nat \ {0}
  /\ MaxSequence \in Nat \ {0}
  /\ MaxOps \in Nat \ {0}

ASSUME SentinelAssumption ==
  /\ NoKey \notin Key
  /\ NoValue \notin Value

(* Keys of the change feed: transaction identifier and index of the change *)
(* in it, ordered lexicographically (cdc.rs, change_key).                  *)
ChangeKey == (1 .. MaxTxId - 1) \X (0 .. MaxOps - 1)

AnyKey == Key \cup ChangeKey

(* The metadata of one change (cdc.rs, ChangeRecord): what was done to     *)
(* which key, and the value it was given (length and digest in the code).  *)
Change == {"Put", "Delete"} \X Key \X (Value \cup {NoValue})

AnyValue == Value \cup Change

ASSUME DisjointAssumption ==
  /\ Key \cap ChangeKey = {}
  /\ NoKey \notin ChangeKey
  /\ NoValue \notin Change

Operation == [kind: {"Put", "Delete"}, key: AnyKey, value: AnyValue \cup {NoValue}]

Put(k, v) == [kind |-> "Put", key |-> k, value |-> v]
Delete(k) == [kind |-> "Delete", key |-> k, value |-> NoValue]
Commit == [kind |-> "Commit", key |-> NoKey, value |-> NoValue]

(* The record that carries op for transaction t with sequence number s.    *)
LogRecord(op, t, s) ==
  [kind |-> op.kind, tx_id |-> t, sequence |-> s, key |-> op.key, value |-> op.value]

Torn == [kind |-> "Torn", tx_id |-> 0, sequence |-> 0, key |-> NoKey, value |-> NoValue]

Record ==
  [kind: {"Put", "Delete", "Commit", "Torn"}, tx_id: 0 .. MaxTxId, sequence: 0 .. MaxSequence,
   key: AnyKey \cup {NoKey}, value: AnyValue \cup {NoValue}]

IsOp(r) == r.kind \in {"Put", "Delete"}

-----------------------------------------------------------------------------
(* The scan of a log. (Definitions named for a bug, here and in the other  *)
(* modules, are wrong versions of the definition that follows them; they   *)
(* show that the properties notice the difference.)                        *)

TornAt(l) == {i \in DOMAIN l : l[i].kind = "Torn"}

(* The scan stops at the first record that is not complete.                *)
Intact(l) == IF TornAt(l) = {} THEN Len(l) ELSE Min(TornAt(l)) - 1

ValidPrefix(l) == SubSeq(l, 1, Intact(l))

NonMonotonicSequence(l) ==
  \E i \in DOMAIN l : i > 1 /\ l[i].sequence <= l[i-1].sequence

RecordAfterCommit(l) ==
  \E i, j \in DOMAIN l : i < j /\ l[i].kind = "Commit" /\ l[i].tx_id = l[j].tx_id

Committed(l) == {l[i].tx_id : i \in {j \in DOMAIN l : l[j].kind = "Commit"}}

LastTxIdCommittedOnly(l) == Max({0} \cup Committed(l))

LastTxId(l) == Max({0} \cup {l[i].tx_id : i \in DOMAIN l})

LastSequenceOfCommits(l) ==
  Max({0} \cup {l[i].sequence : i \in {j \in DOMAIN l : l[j].kind = "Commit"}})

LastSequence(l) == IF l = << >> THEN 0 ELSE l[Len(l)].sequence

-----------------------------------------------------------------------------
(* Maps from keys to values; NoValue marks an absent key.                  *)

EmptyMap == [k \in AnyKey |-> NoValue]

(* Operations in order: the last one on a key decides.                     *)
ApplyOperations(map, ops) ==
  [k \in AnyKey |->
     LET on == {i \in DOMAIN ops : ops[i].key = k}
     IN  IF on = {} THEN map[k] ELSE ops[Max(on)].value]

CommitAt(l, t) ==
  CHOOSE i \in DOMAIN l : l[i].kind = "Commit" /\ l[i].tx_id = t

(* Operations of a transaction are held back until its commit record, so   *)
(* record j takes effect after record i when its transaction commits later *)
(* or, in one transaction, when it was written later.                      *)
AppliedNoLater(l, i, j) ==
  \/ CommitAt(l, l[i].tx_id) < CommitAt(l, l[j].tx_id)
  \/ l[i].tx_id = l[j].tx_id /\ i <= j

(* The map that the operations of the transactions in txs leave.           *)
Replay(l, txs) ==
  [k \in AnyKey |->
     LET on == {i \in DOMAIN l : IsOp(l[i]) /\ l[i].key = k /\ l[i].tx_id \in txs}
     IN  IF on = {} THEN NoValue
         ELSE l[CHOOSE j \in on : \A i \in on : AppliedNoLater(l, i, j)].value]

(* The scan gets to the end of the complete records without an error.      *)
PrefixOk(l) ==
  /\ ~NonMonotonicSequence(ValidPrefix(l))
  /\ ~RecordAfterCommit(ValidPrefix(l))

(* More was written after a record that is not complete. Where the rest of *)
(* it should be, the scan finds the next record: as a rule a checksum, a   *)
(* kind or a magic number is wrong then and recover fails. If what it      *)
(* reads as the length reaches beyond the end of the file, it stops there  *)
(* as at an incomplete last record. Which of the two depends on bytes.     *)
TornInside(l) == Intact(l) + 1 < Len(l)

(* recover is certain to succeed.                                          *)
RecoverOk(l) == PrefixOk(l) /\ ~TornInside(l)

(* What recover returns when it succeeds.                                  *)
Recovered(l) ==
  LET p == ValidPrefix(l)
  IN  [state |-> Replay(p, Committed(p)), max_tx_id |-> LastTxId(p),
       max_sequence |-> LastSequence(p), valid_end |-> Intact(l)]

=============================================================================
