----------------------------- MODULE RecoverScan -----------------------------
(***************************************************************************)
(* The loop of recover in engine.rs, one action per way an iteration can   *)
(* go. It reads a file, which need not be one that the engine wrote, and   *)
(* either fails or returns the map, the counters and the end of the valid  *)
(* part that LogRecovery describes without a loop.                         *)
(***************************************************************************)
EXTENDS LogRecovery

CONSTANT MaxLen  \* bound: records in a file

ASSUME MaxLenAssumption == MaxLen \in Nat /\ MaxLen < MaxSequence

VARIABLES
  file,          \* the records being read
  offset,        \* how many of them have been read
  state,         \* the map rebuilt so far
  pending,       \* operations of transactions without a commit record yet
  committed,     \* transactions whose commit record has been read
  max_tx_id,
  max_sequence,
  result         \* "scanning", "ok" or "error"

scanVars == <<file, offset, state, pending, committed, max_tx_id, max_sequence, result>>

TxIds == 1 .. MaxTxId - 1

(* A record of a file that recovery may be given, torn or complete. Its    *)
(* sequence number, relative to its position, may repeat the previous one. *)
Found ==
  {Torn} \cup {LogRecord(op, t, s) :
    op \in {Put(k, v) : k \in Key, v \in Value} \cup {Delete(k) : k \in Key} \cup {Commit},
    t \in TxIds, s \in {0, 1}}

InitScan ==
  /\ \E n \in 0 .. MaxLen : \E choice \in [1 .. n -> Found] :
       file = [i \in 1 .. n |->
                 IF choice[i] = Torn THEN Torn
                 ELSE [choice[i] EXCEPT !.sequence = @ + i]]
  /\ offset = 0
  /\ state = EmptyMap
  /\ pending = [t \in TxIds |-> << >>]
  /\ committed = {}
  /\ max_tx_id = 0
  /\ max_sequence = 0
  /\ result = "scanning"

record == file[offset + 1]

AtRecord == result = "scanning" /\ offset < Len(file)

Return(res) ==
  /\ result' = res
  /\ UNCHANGED <<file, offset, state, pending, committed, max_tx_id, max_sequence>>

ScanEnd == result = "scanning" /\ offset = Len(file) /\ Return("ok")

(* Too few bytes remain for the record that starts here.                   *)
ScanTruncated == AtRecord /\ record.kind = "Torn" /\ Return("ok")

(* More was written after a record that is not complete: its bytes run     *)
(* into the next record, and the checksum or a magic number is wrong.      *)
ScanCorrupt ==
  AtRecord /\ record.kind = "Torn" /\ offset + 1 < Len(file) /\ Return("error")

SequenceRepeats == record.sequence <= max_sequence /\ max_sequence # 0

ScanNonMonotonic ==
  AtRecord /\ record.kind # "Torn" /\ SequenceRepeats /\ Return("error")

ScanAfterCommit ==
  AtRecord /\ record.kind # "Torn" /\ record.tx_id \in committed /\ Return("error")

Accept ==
  /\ AtRecord
  /\ record.kind # "Torn"
  /\ ~SequenceRepeats
  /\ record.tx_id \notin committed
  /\ offset' = offset + 1
  /\ max_sequence' = record.sequence
  /\ max_tx_id' = IF record.tx_id > max_tx_id THEN record.tx_id ELSE max_tx_id
  /\ UNCHANGED <<file, result>>

ScanOperationAppliesNow ==
  /\ Accept
  /\ IsOp(record)
  /\ state' = [state EXCEPT ![record.key] = record.value]
  /\ UNCHANGED <<pending, committed>>

ScanOperation ==
  /\ Accept
  /\ IsOp(record)
  /\ pending' = [pending EXCEPT ![record.tx_id] =
       Append(@, [kind |-> record.kind, key |-> record.key, value |-> record.value])]
  /\ UNCHANGED <<state, committed>>

ScanCommit ==
  /\ Accept
  /\ record.kind = "Commit"
  /\ state' = ApplyOperations(state, pending[record.tx_id])
  /\ pending' = [pending EXCEPT ![record.tx_id] = << >>]
  /\ committed' = committed \cup {record.tx_id}

ScanSteps ==
  \/ ScanEnd
  \/ ScanTruncated
  \/ ScanCorrupt
  \/ ScanNonMonotonic
  \/ ScanAfterCommit
  \/ ScanOperation
  \/ ScanCommit

ScanSpec == InitScan /\ [][ScanSteps]_scanVars

-----------------------------------------------------------------------------
(* Properties.                                                             *)

(* A successful recovery returns what LogRecovery says: the operations of  *)
(* committed transactions in commit order, nothing of any other, the       *)
(* highest transaction identifier of any record and the last sequence.     *)
ScanComputesRecovered ==
  result = "ok" =>
    /\ PrefixOk(file)
    /\ [state |-> state, max_tx_id |-> max_tx_id, max_sequence |-> max_sequence,
        valid_end |-> offset] = Recovered(file)

(* Recovery fails only on a file with a repeated sequence number, with a   *)
(* record after its transaction's commit, or with a record that is         *)
(* incomplete without being the last.                                      *)
ScanFailsForAReason == result = "error" => ~RecoverOk(file)

(* On every file recover either returns what the definition says, or fails *)
(* for a reason that the file shows.                                       *)
ScanIsRight == ScanComputesRecovered /\ ScanFailsForAReason

=============================================================================
