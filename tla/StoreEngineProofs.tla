-------------------------- MODULE StoreEngineProofs --------------------------
(***************************************************************************)
(* Proofs about StoreEngine, for every set of keys and values, every       *)
(* counter width and every choice of options and of failing operations     *)
(* unless a theorem says otherwise.                                        *)
(***************************************************************************)
EXTENDS StoreEngine, LogRecoveryProofs

(* The counters of an open Store are ahead of every record in its file.    *)
CountersAhead ==
  open => \A i \in 1 .. Intact(log) :
            log[i].sequence < next_sequence /\ log[i].tx_id < next_tx_id

(* The transaction in progress is the youngest in the file, and has no     *)
(* commit record there before it waits for its sync.                       *)
TxCurrent ==
  tx.phase # "none" =>
    /\ open
    /\ tx.tx_id \in 1 .. next_tx_id - 1
    /\ \A i \in 1 .. Intact(log) :
         /\ log[i].tx_id <= tx.tx_id
         /\ log[i].kind = "Commit" /\ tx.phase # "sync" => log[i].tx_id < tx.tx_id

(* Before it commits, a transaction has at most MaxOps operations, none on *)
(* the change feed.                                                        *)
ActiveOperations ==
  tx.phase = "active" =>
    /\ Len(tx.operations) <= MaxOps
    /\ \A i \in 1 .. Len(tx.operations) :
         tx.operations[i].key \in Key /\ tx.operations[i].value \in Value \cup {NoValue}

Inv == TypeOK /\ WellOrdered(log) /\ CountersAhead /\ TxCurrent /\ ActiveOperations

-----------------------------------------------------------------------------
LEMMA EmptyMapType == EmptyMap \in [AnyKey -> AnyValue \cup {NoValue}]
BY Zenon DEF EmptyMap

LEMMA NoTxType == NoTx \in Transaction /\ NoTx.phase = "none" /\ NoTx.tx_id = 0
BY BoundsAssumption DEF NoTx, Transaction

LEMMA TornType == Torn \in Record /\ Torn.kind = "Torn"
BY BoundsAssumption DEF Torn, Record

(* A record made from an operation, or from Commit, has the type Record.   *)
LEMMA LogRecordType ==
  ASSUME NEW op \in Operation \cup {Commit}, NEW t \in 0 .. MaxTxId, NEW s \in 0 .. MaxSequence
  PROVE  /\ LogRecord(op, t, s) \in Record
         /\ LogRecord(op, t, s).kind = op.kind
         /\ op.kind # "Torn"
         /\ LogRecord(op, t, s).tx_id = t
         /\ LogRecord(op, t, s).sequence = s
BY DEF LogRecord, Record, Operation, Commit

(* Appending a record that is younger than all others keeps the order.     *)
LEMMA WellOrderedAppend ==
  ASSUME NEW l \in Seq(Record), NEW r \in Record, WellOrdered(l), r.kind # "Torn",
         r.tx_id \in 1 .. MaxTxId - 1, r.sequence \in 1 .. MaxSequence - 1,
         \A i \in 1 .. Intact(l) :
           /\ l[i].sequence < r.sequence
           /\ l[i].tx_id <= r.tx_id
           /\ l[i].kind = "Commit" => l[i].tx_id < r.tx_id
  PROVE  WellOrdered(Append(l, r))
<1> DEFINE a == Append(l, r)
           n == Intact(l)
<1>1. n \in 0 .. Len(l) /\ Len(l) \in Nat
  BY IntactProperties
<1>2. /\ a \in Seq(Record)
      /\ \A i \in 1 .. Len(l) : a[i] = l[i]
      /\ a[Len(l) + 1] = r
  OBVIOUS
<1>3. Intact(a) = IF n = Len(l) THEN n + 1 ELSE n
  BY IntactAppend, Zenon
<1>4. CASE n # Len(l)
  <2>1. Intact(a) <= Intact(l) /\ \A i \in 1 .. Intact(a) : a[i] = l[i]
    BY <1>1, <1>2, <1>3, <1>4
  <2> HIDE DEF a
  <2>2. WellOrdered(a)
    BY <1>2, <2>1, WellOrderedPrefix, Zenon
  <2> QED BY <2>2, Zenon DEF a
<1>5. CASE n = Len(l)
  <2>1. \A i \in 1 .. n + 1 : (i \in 1 .. n /\ a[i] = l[i]) \/ (i = n + 1 /\ a[i] = r)
    BY <1>1, <1>2, <1>5
  <2>2. \A i \in 1 .. n + 1 :
          a[i].tx_id \in 1 .. MaxTxId - 1 /\ a[i].sequence \in 1 .. MaxSequence - 1
    BY <2>1, Zenon DEF WellOrdered
  <2>3. ASSUME NEW i \in 1 .. n + 1, NEW j \in 1 .. n + 1, i < j
        PROVE  /\ a[i].sequence < a[j].sequence
               /\ a[i].tx_id <= a[j].tx_id
               /\ a[i].kind = "Commit" => a[i].tx_id < a[j].tx_id
    <3>1. i \in 1 .. n /\ a[i] = l[i]
      BY <1>1, <2>1, <2>3
    <3>2. CASE j \in 1 .. n /\ a[j] = l[j]
      BY <2>3, <3>1, <3>2, Zenon DEF WellOrdered
    <3>3. CASE a[j] = r
      BY <3>1, <3>3, Zenon
    <3> QED BY <2>1, <3>2, <3>3, Zenon
  <2>4. Intact(a) = n + 1
    BY <1>3, <1>5, Zenon
  <2> HIDE DEF a, n
  <2>5. WellOrdered(a)
    BY <2>2, <2>3, <2>4, Zenon DEF WellOrdered
  <2> QED BY <2>5 DEF a
<1> QED BY <1>4, <1>5, Zenon

(* What a successful append of the transaction in progress does.           *)
LEMMA AppendOkStep ==
  ASSUME Inv, tx.phase \in {"active", "commit"}, NEW op \in Operation \cup {Commit}, AppendOk(op)
  PROVE  /\ log' \in Seq(Record) /\ Len(log') = Len(log) + 1
         /\ \A i \in 1 .. Len(log) : log'[i] = log[i]
         /\ log'[Len(log) + 1] = LogRecord(op, tx.tx_id, next_sequence)
         /\ next_sequence' \in 1 .. MaxSequence
         /\ WellOrdered(log')
         /\ \A i \in 1 .. Intact(log') :
              /\ log'[i].sequence < next_sequence'
              /\ log'[i].tx_id <= tx.tx_id
              /\ log'[i].kind = "Commit" /\ op # Commit => log'[i].tx_id < tx.tx_id
<1> DEFINE r == LogRecord(op, tx.tx_id, next_sequence)
           n == Intact(log)
<1>1. /\ log \in Seq(Record) /\ n \in 0 .. Len(log) /\ Len(log) \in Nat
      /\ next_sequence \in 1 .. MaxSequence - 1 /\ next_sequence' = next_sequence + 1
      /\ log' = Append(log, r)
  BY IntactProperties, BoundsAssumption DEF Inv, TypeOK, AppendOk
<1>2. /\ tx.tx_id \in 1 .. MaxTxId - 1
      /\ \A i \in 1 .. n : log[i].tx_id <= tx.tx_id /\ (log[i].kind = "Commit" => log[i].tx_id < tx.tx_id)
  BY BoundsAssumption DEF Inv, TypeOK, TxCurrent
<1>3. \A i \in 1 .. n : log[i].sequence < next_sequence /\ log[i].sequence \in Int
  BY DEF Inv, TxCurrent, CountersAhead, WellOrdered
<1>4. /\ r \in Record /\ r.kind # "Torn" /\ r.tx_id = tx.tx_id /\ r.sequence = next_sequence
      /\ r.kind = op.kind
  <2>1. tx.tx_id \in 0 .. MaxTxId /\ next_sequence \in 0 .. MaxSequence
    BY <1>1, <1>2, BoundsAssumption
  <2> QED BY <2>1, LogRecordType
<1>5. op # Commit => op.kind # "Commit"
  BY Zenon DEF Operation
<1> HIDE DEF r, n
<1>6. WellOrdered(log')
  <2>1. WellOrdered(log)
    BY Zenon DEF Inv
  <2>2. \A i \in 1 .. Intact(log) :
           /\ log[i].sequence < r.sequence
           /\ log[i].tx_id <= r.tx_id
           /\ log[i].kind = "Commit" => log[i].tx_id < r.tx_id
    BY <1>2, <1>3, <1>4, Zenon DEF n
  <2>3. r.tx_id \in 1 .. MaxTxId - 1 /\ r.sequence \in 1 .. MaxSequence - 1
    BY <1>1, <1>2, <1>4, Zenon
  <2> QED BY <1>1, <1>4, <2>1, <2>2, <2>3, WellOrderedAppend, Zenon
<1>7. /\ log' \in Seq(Record) /\ Len(log') = Len(log) + 1
      /\ \A i \in 1 .. Len(log) : log'[i] = log[i]
      /\ log'[Len(log) + 1] = r
  BY <1>1, <1>4
<1>8. Intact(log') = IF n = Len(log) THEN n + 1 ELSE n
  BY <1>1, <1>4, IntactAppend, Zenon DEF n
<1>9. ASSUME NEW i \in 1 .. Intact(log')
      PROVE  /\ log'[i].sequence < next_sequence'
             /\ log'[i].tx_id <= tx.tx_id
             /\ log'[i].kind = "Commit" /\ op # Commit => log'[i].tx_id < tx.tx_id
  <2>1. CASE i \in 1 .. n
    BY <1>1, <1>2, <1>3, <1>7, <2>1
  <2>2. CASE i = n + 1 /\ n = Len(log)
    BY <1>1, <1>2, <1>4, <1>5, <1>7, <2>2
  <2> QED BY <1>1, <1>8, <2>1, <2>2
<1>10. next_sequence' \in 1 .. MaxSequence
  BY <1>1, BoundsAssumption
<1> QED BY <1>6, <1>7, <1>9, <1>10, Zenon DEF r

(* What a failed append does: it may use up a sequence number and leave    *)
(* part of a record, and changes no complete record.                       *)
LEMMA AppendErrStep ==
  ASSUME Inv, AppendErr
  PROVE  /\ log' \in Seq(Record) /\ Len(log') >= Len(log)
         /\ "Torn" \notin WriteErrors => log' = log
         /\ Intact(log') = Intact(log)
         /\ \A i \in 1 .. Len(log) : log'[i] = log[i]
         /\ next_sequence' \in 1 .. MaxSequence /\ next_sequence' >= next_sequence
         /\ WellOrdered(log')
<1>1. /\ log \in Seq(Record) /\ Intact(log) \in 0 .. Len(log) /\ Len(log) \in Nat
      /\ next_sequence \in 1 .. MaxSequence /\ MaxSequence \in Nat
  BY IntactProperties, BoundsAssumption DEF Inv, TypeOK
<1>2. /\ next_sequence' \in 1 .. MaxSequence /\ next_sequence' >= next_sequence
      /\ log' = log \/ ("Torn" \in WriteErrors /\ log' = Append(log, Torn))
  BY <1>1 DEF AppendErr
<1>3. CASE log' = log
  BY <1>1, <1>2, <1>3 DEF Inv
<1>4. CASE "Torn" \in WriteErrors /\ log' = Append(log, Torn)
  <2>1. /\ log' \in Seq(Record) /\ Len(log') = Len(log) + 1
        /\ \A i \in 1 .. Len(log) : log'[i] = log[i]
    BY <1>1, <1>4, TornType
  <2>2. Intact(log') = Intact(log)
    BY <1>1, <1>4, TornType, IntactAppend, Zenon
  <2>3. WellOrdered(log')
    BY <1>1, <2>1, <2>2, WellOrderedPrefix DEF Inv
  <2> QED BY <1>1, <1>2, <1>4, <2>1, <2>2, <2>3
<1> QED BY <1>2, <1>3, <1>4, Zenon

-----------------------------------------------------------------------------
(* Inv holds initially and every action preserves it.                      *)

LEMMA SyncFileType ==
  ASSUME NEW l \in Seq(Record), synced \in Nat
  PROVE  SyncFile(l) \in 0 .. Len(l)
BY DEF SyncFile

LEMMA InvInit == Init => Inv
<1> SUFFICES ASSUME Init PROVE Inv
  BY Zenon
<1>1. Intact(log) = 0
  BY DEF Init, Intact, TornAt
<1>2. TypeOK
  <2>1. log \in Seq(Record) /\ synced \in 0 .. Len(log) /\ open \in BOOLEAN
    <3>1. log = << >> /\ synced = 0 /\ open = FALSE
      BY Zenon DEF Init
    <3>2. << >> \in Seq(Record) /\ Len(<< >>) = 0
      OBVIOUS
    <3>3. 0 \in 0 .. Len(log)
      BY <3>1, <3>2
    <3> QED BY <3>1, <3>2, <3>3, Zenon
  <2>2. next_tx_id \in 1 .. MaxTxId /\ next_sequence \in 1 .. MaxSequence
    BY BoundsAssumption DEF Init
  <2>3. state \in [AnyKey -> AnyValue \cup {NoValue}] /\ tx \in Transaction
    BY EmptyMapType, NoTxType, Zenon DEF Init
  <2>4. /\ acked \subseteq [tx_id: 1 .. MaxTxId, at: Nat, operations: Seq(Operation)]
        /\ doubt \subseteq 1 .. MaxTxId /\ scarred \in BOOLEAN
    BY Zenon DEF Init
  <2> QED BY <2>1, <2>2, <2>3, <2>4, Zenon DEF TypeOK
<1>3. WellOrdered(log)
  BY <1>1 DEF WellOrdered
<1> QED BY <1>2, <1>3, NoTxType, Zenon DEF Init, Inv, CountersAhead, TxCurrent, ActiveOperations

(* When the Store closes, by a drop or a crash, only the file is left.     *)
LEMMA InvForget ==
  ASSUME Inv, ForgetMemory, log' \in Seq(Record), synced' \in 0 .. Len(log'), acked' \subseteq acked,
         Intact(log') <= Intact(log), \A i \in 1 .. Intact(log') : log'[i] = log[i],
         scarred' = scarred
  PROVE  Inv'
<1>1. TypeOK'
  <2>1. next_tx_id' \in 1 .. MaxTxId /\ next_sequence' \in 1 .. MaxSequence
    BY BoundsAssumption DEF ForgetMemory
  <2>2. state' \in [AnyKey -> AnyValue \cup {NoValue}] /\ tx' \in Transaction
    BY EmptyMapType, NoTxType, Zenon DEF ForgetMemory
  <2>3. /\ acked' \subseteq [tx_id: 1 .. MaxTxId, at: Nat, operations: Seq(Operation)]
        /\ doubt' \subseteq 1 .. MaxTxId /\ open' \in BOOLEAN /\ scarred' \in BOOLEAN
    BY Zenon DEF ForgetMemory, Inv, TypeOK
  <2> QED BY <2>1, <2>2, <2>3, Zenon DEF TypeOK
<1>2. WellOrdered(log')
  BY WellOrderedPrefix, Zenon DEF Inv, TypeOK
<1> QED BY <1>1, <1>2, NoTxType, Zenon DEF Inv, ForgetMemory, CountersAhead, TxCurrent, ActiveOperations

LEMMA InvOpen == ASSUME Inv, OpenWithOptions PROVE Inv'
<1> DEFINE recovery == Recovered(log)
<1>1. /\ log \in Seq(Record) /\ WellOrdered(log) /\ synced \in Nat
      /\ Intact(log) \in 0 .. Len(log) /\ tx.phase = "none"
  BY IntactProperties DEF Inv, TypeOK, TxCurrent, OpenWithOptions
<1>2. /\ recovery.state \in [AnyKey -> AnyValue \cup {NoValue}]
      /\ recovery.max_tx_id \in 0 .. MaxTxId - 1
      /\ recovery.max_sequence \in 0 .. MaxSequence - 1
      /\ \A i \in 1 .. Intact(log) : log[i].tx_id <= recovery.max_tx_id
      /\ \A i \in 1 .. Intact(log) : log[i].sequence <= recovery.max_sequence
  BY <1>1, WellOrderedRecovers, Zenon
<1>3. recovery.valid_end = Intact(log)
  BY Zenon DEF Recovered
<1> HIDE DEF recovery
<1>4. /\ state' = recovery.state
      /\ next_tx_id' = recovery.max_tx_id + 1
      /\ next_sequence' = recovery.max_sequence + 1
      /\ open' = TRUE /\ tx' = tx /\ acked' = acked /\ doubt' = doubt
      /\ \/ log' = SubSeq(log, 1, Intact(log)) /\ synced' = SyncFile(log')
         \/ log' = log /\ synced' = synced
  BY <1>3, Zenon DEF OpenWithOptions, recovery
<1>5. /\ log' \in Seq(Record) /\ synced' \in 0 .. Len(log') /\ Intact(log') = Intact(log)
      /\ \A i \in 1 .. Intact(log') : log'[i] = log[i]
  <2>1. CASE log' = log /\ synced' = synced
    BY <1>1, <2>1, Zenon DEF Inv, TypeOK
  <2>2. CASE log' = SubSeq(log, 1, Intact(log)) /\ synced' = SyncFile(log')
    <3>1. /\ log' \in Seq(Record) /\ Intact(log') = Intact(log) /\ Len(log') = Intact(log)
          /\ \A i \in 1 .. Intact(log) : log'[i] = log[i]
      BY <1>1, <2>2, IntactSubSeq, Zenon
    <3>2. synced' \in 0 .. Len(log')
      BY <1>1, <2>2, <3>1, SyncFileType, Zenon
    <3> QED BY <3>1, <3>2, Zenon
  <2> QED BY <1>4, <2>1, <2>2, Zenon
<1>6. TypeOK'
  <2>1. next_tx_id' \in 1 .. MaxTxId /\ next_sequence' \in 1 .. MaxSequence
    BY <1>2, <1>4, BoundsAssumption, SMTT(30)
  <2>2. scarred' \in BOOLEAN
    BY Zenon DEF OpenWithOptions
  <2> QED BY <1>2, <1>4, <1>5, <2>1, <2>2, Zenon DEF Inv, TypeOK
<1>7. WellOrdered(log')
  BY <1>1, <1>5, WellOrderedPrefix
<1>8. CountersAhead'
  <2>1. \A i \in 1 .. Intact(log) : log[i].tx_id \in Int /\ log[i].sequence \in Int
    BY <1>1 DEF WellOrdered
  <2>2. \A i \in 1 .. Intact(log) :
          log[i].sequence < next_sequence' /\ log[i].tx_id < next_tx_id'
    BY <1>2, <1>4, <2>1, SMTT(30)
  <2> QED BY <1>5, <2>2, Zenon DEF CountersAhead
<1> QED BY <1>1, <1>4, <1>6, <1>7, <1>8, Zenon DEF Inv, TxCurrent, ActiveOperations

LEMMA InvBegin ==
  ASSUME Inv, NEW phase \in {"active", "commit"}, NEW todo \in Seq(Operation), BeginAs(phase, todo)
  PROVE  Inv'
<1>1. /\ log' = log /\ open /\ open' = open /\ state' = state /\ synced' = synced
      /\ acked' = acked /\ doubt' = doubt /\ scarred' = scarred
      /\ next_sequence' = next_sequence /\ next_tx_id' = next_tx_id + 1
      /\ tx' = [tx_id |-> next_tx_id, phase |-> phase, operations |-> << >>, todo |-> todo]
  BY Zenon DEF BeginAs
<1>2. next_tx_id \in 1 .. MaxTxId - 1
  BY BoundsAssumption DEF BeginAs, Inv, TypeOK
<1>3. TypeOK'
  <2>1. tx' \in Transaction /\ next_tx_id' \in 1 .. MaxTxId
    BY <1>1, <1>2, BoundsAssumption DEF Transaction
  <2> QED BY <1>1, <2>1, Zenon DEF Inv, TypeOK
<1>4. \A i \in 1 .. Intact(log) : log[i].tx_id < next_tx_id /\ log[i].tx_id \in Int
  BY <1>1 DEF Inv, CountersAhead, WellOrdered
<1>5. CountersAhead'
  BY <1>1, <1>2, <1>4 DEF Inv, CountersAhead
<1>6. TxCurrent'
  BY <1>1, <1>2, <1>4 DEF TxCurrent
<1>7. ActiveOperations'
  BY <1>1, BoundsAssumption DEF ActiveOperations
<1> QED BY <1>1, <1>3, <1>5, <1>6, <1>7, Zenon DEF Inv

(* A step that ends or goes on with the transaction without an append.     *)
LEMMA InvTxOnly ==
  ASSUME Inv, log' = log, synced' \in 0 .. Len(log),
         state' \in [AnyKey -> AnyValue \cup {NoValue}],
         UNCHANGED <<open, next_tx_id, next_sequence>>, tx' = NoTx,
         acked' \subseteq [tx_id: 1 .. MaxTxId, at: Nat, operations: Seq(Operation)],
         doubt' \subseteq 1 .. MaxTxId, scarred' = scarred
  PROVE  Inv'
BY NoTxType, Zenon DEF Inv, TypeOK, CountersAhead, TxCurrent, ActiveOperations

(* A step whose append fails.                                              *)
LEMMA InvAppendErr ==
  ASSUME Inv, AppendErr, tx' \in {tx, NoTx}, UNCHANGED <<synced, open, state, next_tx_id, acked, doubt>>
  PROVE  Inv'
<1>1. /\ log' \in Seq(Record) /\ Len(log') >= Len(log)
      /\ Intact(log') = Intact(log)
      /\ \A i \in 1 .. Len(log) : log'[i] = log[i]
      /\ next_sequence' \in 1 .. MaxSequence /\ next_sequence' >= next_sequence
      /\ WellOrdered(log')
  BY AppendErrStep, Zenon
<1>2. log \in Seq(Record) /\ Intact(log) \in 0 .. Len(log) /\ next_sequence \in Int
  BY IntactProperties DEF Inv, TypeOK
<1>3. \A i \in 1 .. Intact(log') : log'[i] = log[i]
  BY <1>1, <1>2
<1>4. TypeOK'
  <2>1. scarred' \in BOOLEAN
    BY Zenon DEF AppendErr, Inv, TypeOK
  <2>2. synced' \in 0 .. Len(log')
    BY <1>1, <1>2 DEF Inv, TypeOK
  <2> QED BY <1>1, <2>1, <2>2, NoTxType, Zenon DEF Inv, TypeOK
<1>5. CountersAhead'
  <2>1. \A i \in 1 .. Intact(log) : log[i].sequence \in Int
    BY DEF Inv, WellOrdered
  <2> QED BY <1>1, <1>2, <1>3, <2>1 DEF Inv, CountersAhead
<1>6. TxCurrent'
  BY <1>1, <1>3, NoTxType, Zenon DEF Inv, TxCurrent
<1>7. ActiveOperations'
  BY NoTxType, Zenon DEF Inv, ActiveOperations
<1> QED BY <1>1, <1>4, <1>5, <1>6, <1>7, Zenon DEF Inv

(* A step that appends a record.                                           *)
LEMMA InvAppendOk ==
  ASSUME Inv, tx.phase \in {"active", "commit"}, NEW op \in Operation \cup {Commit}, AppendOk(op),
         tx' \in Transaction, tx'.tx_id = tx.tx_id, tx'.phase # "none",
         op = Commit => tx'.phase = "sync", ActiveOperations',
         UNCHANGED <<synced, open, state, next_tx_id, acked, doubt>>
  PROVE  Inv'
<1>1. /\ log' \in Seq(Record) /\ Len(log') = Len(log) + 1
      /\ next_sequence' \in 1 .. MaxSequence
      /\ WellOrdered(log')
      /\ \A i \in 1 .. Intact(log') :
           /\ log'[i].sequence < next_sequence'
           /\ log'[i].tx_id <= tx.tx_id
           /\ log'[i].kind = "Commit" /\ op # Commit => log'[i].tx_id < tx.tx_id
  BY AppendOkStep, Zenon
<1>2. TypeOK'
  <2>1. synced' \in 0 .. Len(log')
    BY <1>1 DEF Inv, TypeOK
  <2> QED BY <1>1, <2>1, Zenon DEF Inv, TypeOK, AppendOk
<1>3. open /\ tx.tx_id \in 1 .. next_tx_id - 1 /\ next_tx_id \in Int
  BY DEF Inv, TxCurrent, TypeOK
<1>4. CountersAhead'
  <2>1. \A i \in 1 .. Intact(log') : log'[i].tx_id \in Int
    BY <1>1 DEF WellOrdered
  <2> QED BY <1>1, <1>3, <2>1 DEF CountersAhead
<1>5. TxCurrent'
  BY <1>1, <1>3, Zenon DEF TxCurrent
<1> QED BY <1>1, <1>2, <1>4, <1>5, Zenon DEF Inv

LEMMA InvStage ==
  ASSUME Inv, NEW op \in Operation, op.key \in Key, op.value \in Value \cup {NoValue}, Stage(op)
  PROVE  Inv'
<1>1. CASE AppendErr /\ tx' = tx
  BY <1>1, InvAppendErr, Zenon DEF Stage
<1>2. CASE AppendOk(op) /\ tx' = [tx EXCEPT !.operations = Append(@, op)]
  <2>1. tx \in Transaction /\ tx.phase = "active" /\ Len(tx.operations) < MaxOps
    BY Zenon DEF Inv, TypeOK, Stage
  <2>2. tx.operations \in Seq(Operation)
    BY <2>1, Zenon DEF Transaction
  <2>3. /\ tx' \in Transaction /\ tx'.tx_id = tx.tx_id /\ tx'.phase = "active"
        /\ tx'.operations = Append(tx.operations, op)
    <3>1. Append(tx.operations, op) \in Seq(Operation)
      BY <2>2
    <3> QED BY <1>2, <2>1, <3>1, Zenon DEF Transaction
  <2>4. ActiveOperations'
    <3>1. /\ Len(tx'.operations) = Len(tx.operations) + 1
          /\ \A i \in 1 .. Len(tx'.operations) :
               (i \in 1 .. Len(tx.operations) /\ tx'.operations[i] = tx.operations[i])
               \/ tx'.operations[i] = op
      BY <2>2, <2>3
    <3>2. Len(tx'.operations) <= MaxOps
      BY <2>1, <2>2, <3>1, BoundsAssumption
    <3>3. \A i \in 1 .. Len(tx.operations) :
             tx.operations[i].key \in Key /\ tx.operations[i].value \in Value \cup {NoValue}
      BY <2>1, Zenon DEF Inv, ActiveOperations
    <3> QED BY <3>1, <3>2, <3>3, Zenon DEF ActiveOperations
  <2>5. op # Commit
    BY DEF Operation, Commit
  <2> QED BY <1>2, <2>1, <2>3, <2>4, <2>5, InvAppendOk, Zenon DEF Stage
<1> QED BY <1>1, <1>2, Zenon DEF Stage

(* The change records of an active transaction are operations on the feed. *)
LEMMA ChangesType ==
  ASSUME NEW t \in 1 .. MaxTxId - 1, NEW ops \in Seq(Operation), Len(ops) <= MaxOps,
         \A i \in 1 .. Len(ops) : ops[i].key \in Key /\ ops[i].value \in Value \cup {NoValue}
  PROVE  Changes(t, ops) \in Seq(Operation)
<1>1. ASSUME NEW i \in 1 .. Len(ops)
      PROVE  Put(<<t, i - 1>>, <<ops[i].kind, ops[i].key, ops[i].value>>) \in Operation
  <2>1. i - 1 \in 0 .. MaxOps - 1
    BY BoundsAssumption
  <2>2. <<t, i - 1>> \in AnyKey
    BY <2>1, Zenon DEF AnyKey, ChangeKey
  <2>3. ops[i] \in Operation
    OBVIOUS
  <2>4. <<ops[i].kind, ops[i].key, ops[i].value>> \in AnyValue
    BY <2>3, Zenon DEF Operation, AnyValue, Change
  <2> QED BY <2>2, <2>4, Zenon DEF Put, Operation
<1>2. Changes(t, ops) =
        [i \in 1 .. Len(ops) |-> Put(<<t, i - 1>>, <<ops[i].kind, ops[i].key, ops[i].value>>)]
  BY DEF Changes
<1> QED BY <1>1, <1>2

LEMMA InvCommitBegin == ASSUME Inv, CommitBegin PROVE Inv'
<1> DEFINE todo == Changes(tx.tx_id, tx.operations)
<1>1. /\ tx \in Transaction /\ tx.phase = "active" /\ tx' = [tx EXCEPT !.phase = "commit", !.todo = todo]
      /\ UNCHANGED <<log, synced, open, state, next_tx_id, next_sequence, acked, doubt, scarred>>
  BY Zenon DEF CommitBegin, Inv, TypeOK
<1>2. tx.tx_id \in 1 .. MaxTxId - 1
  BY <1>1, BoundsAssumption DEF Inv, TxCurrent, TypeOK
<1>3. todo \in Seq(Operation)
  <2>1. tx.operations \in Seq(Operation)
    BY <1>1, Zenon DEF Transaction
  <2> QED BY <1>1, <1>2, <2>1, ChangesType, Zenon DEF Inv, ActiveOperations
<1> HIDE DEF todo
<1>4. tx' \in Transaction /\ tx'.phase = "commit" /\ tx'.tx_id = tx.tx_id
  BY <1>1, <1>3, Zenon DEF Transaction
<1>5. TypeOK'
  BY <1>1, <1>4, Zenon DEF Inv, TypeOK
<1>6. CountersAhead'
  BY <1>1, Zenon DEF Inv, CountersAhead
<1>7. TxCurrent'
  BY <1>1, <1>4, Zenon DEF Inv, TxCurrent
<1>8. ActiveOperations'
  BY <1>4, Zenon DEF ActiveOperations
<1> QED BY <1>1, <1>5, <1>6, <1>7, <1>8, Zenon DEF Inv

LEMMA InvCommitStage == ASSUME Inv, CommitStage PROVE Inv'
<1>1. CASE AppendErr /\ tx' = NoTx
  BY <1>1, InvAppendErr, Zenon DEF CommitStage
<1>2. CASE /\ AppendOk(Head(tx.todo))
           /\ tx' = [tx EXCEPT !.operations = Append(@, Head(tx.todo)), !.todo = Tail(@)]
  <2>1. tx \in Transaction /\ tx.phase = "commit" /\ tx.todo # << >>
    BY Zenon DEF Inv, TypeOK, CommitStage
  <2>2. tx.operations \in Seq(Operation) /\ tx.todo \in Seq(Operation)
    BY <2>1, Zenon DEF Transaction
  <2>3. Head(tx.todo) \in Operation /\ Tail(tx.todo) \in Seq(Operation)
    BY <2>1, <2>2
  <2>4. Append(tx.operations, Head(tx.todo)) \in Seq(Operation)
    BY <2>2, <2>3
  <2>5. tx' \in Transaction /\ tx'.tx_id = tx.tx_id /\ tx'.phase = "commit"
    BY <1>2, <2>1, <2>3, <2>4, Zenon DEF Transaction
  <2>6. ActiveOperations'
    BY <2>5, Zenon DEF ActiveOperations
  <2>7. Head(tx.todo) # Commit
    BY <2>3 DEF Operation, Commit
  <2> QED BY <1>2, <2>1, <2>3, <2>5, <2>6, <2>7, InvAppendOk, Zenon DEF CommitStage
<1> QED BY <1>1, <1>2, Zenon DEF CommitStage

LEMMA InvCommitAppend == ASSUME Inv, CommitAppend PROVE Inv'
<1>1. CASE AppendErr /\ tx' = NoTx
  BY <1>1, InvAppendErr, Zenon DEF CommitAppend
<1>2. CASE AppendOk(Commit) /\ tx' = [tx EXCEPT !.phase = "sync"]
  <2>1. tx \in Transaction /\ tx.phase = "commit"
    BY Zenon DEF Inv, TypeOK, CommitAppend
  <2>2. tx' \in Transaction /\ tx'.tx_id = tx.tx_id /\ tx'.phase = "sync"
    BY <1>2, <2>1, Zenon DEF Transaction
  <2>3. ActiveOperations'
    BY <2>2, Zenon DEF ActiveOperations
  <2> QED BY <1>2, <2>1, <2>2, <2>3, InvAppendOk, Zenon DEF CommitAppend
<1>3. CASE NamespaceQuota /\ tx' = NoTx /\ UNCHANGED <<log, next_sequence, scarred>>
  BY <1>3, InvTxOnly, Zenon DEF CommitAppend, Inv, TypeOK
<1> QED BY <1>1, <1>2, <1>3, Zenon DEF CommitAppend

LEMMA InvCommitSync == ASSUME Inv, CommitSync PROVE Inv'
<1>1. tx \in Transaction /\ tx.phase = "sync" /\ tx.tx_id \in 1 .. MaxTxId
  BY BoundsAssumption DEF Inv, TypeOK, TxCurrent, CommitSync
<1>2. tx.operations \in Seq(Operation)
  BY <1>1, Zenon DEF Transaction
<1>3. state' \in [AnyKey -> AnyValue \cup {NoValue}]
  BY <1>2, ApplyType, Zenon DEF CommitSync, Inv, TypeOK
<1>4. synced' \in 0 .. Len(log)
  BY SyncFileType DEF CommitSync, Inv, TypeOK
<1>5. acked' \subseteq [tx_id: 1 .. MaxTxId, at: Nat, operations: Seq(Operation)]
  <2>1. Len(log) \in Nat
    BY DEF Inv, TypeOK
  <2> QED BY <1>1, <1>2, <2>1 DEF CommitSync, Inv, TypeOK
<1>6. doubt' \subseteq 1 .. MaxTxId
  BY Zenon DEF CommitSync, Inv, TypeOK
<1> QED BY <1>3, <1>4, <1>5, <1>6, InvTxOnly, Zenon DEF CommitSync

LEMMA InvCommitSyncErr == ASSUME Inv, CommitSyncErr PROVE Inv'
<1>1. tx.tx_id \in 1 .. MaxTxId
  BY BoundsAssumption DEF Inv, TypeOK, TxCurrent, CommitSyncErr
<1>2. doubt' \subseteq 1 .. MaxTxId
  BY <1>1, Zenon DEF CommitSyncErr, Inv, TypeOK
<1> QED BY <1>2, InvTxOnly, Zenon DEF CommitSyncErr, Inv, TypeOK

LEMMA InvPrune ==
  ASSUME Inv, NEW t \in 1 .. MaxTxId - 1, NEW limit \in 1 .. MaxOps, PruneChangesThrough(t, limit)
  PROVE  Inv'
<1>0. PICK n \in 1 .. limit : \E keys \in [1 .. n -> Prunable(t, limit)] :
        BeginAs("commit", [i \in 1 .. n |-> Delete(keys[i])])
  BY Zenon DEF PruneChangesThrough
<1>1. PICK keys \in [1 .. n -> Prunable(t, limit)] :
        BeginAs("commit", [i \in 1 .. n |-> Delete(keys[i])])
  BY <1>0, Zenon
<1>2. \A i \in 1 .. n : keys[i] \in AnyKey
  BY Zenon DEF Prunable, AnyKey
<1>3. \A i \in 1 .. n : Delete(keys[i]) \in Operation
  BY <1>2, Zenon DEF Delete, Operation
<1>4. n \in Nat
  BY BoundsAssumption
<1>5. [i \in 1 .. n |-> Delete(keys[i])] \in Seq(Operation)
  BY <1>3, <1>4
<1> QED BY <1>1, <1>5, InvBegin, Zenon

LEMMA InvProcessKill == ASSUME Inv, ProcessKill PROVE Inv'
<1>1. /\ log \in Seq(Record) /\ synced \in 0 .. Len(log) /\ Intact(log) \in 0 .. Len(log)
      /\ ForgetMemory /\ synced' = synced /\ acked' = acked /\ scarred' = scarred
  BY IntactProperties, Zenon DEF Inv, TypeOK, ProcessKill
<1>2. CASE log' = log
  BY <1>1, <1>2, InvForget
<1>3. CASE log' = Append(log, Torn)
  <2>1. /\ log' \in Seq(Record) /\ Len(log') = Len(log) + 1
        /\ \A i \in 1 .. Len(log) : log'[i] = log[i]
    BY <1>1, <1>3, TornType
  <2>2. Intact(log') = Intact(log)
    BY <1>1, <1>3, TornType, IntactAppend, Zenon
  <2>3. \A i \in 1 .. Intact(log') : log'[i] = log[i]
    BY <1>1, <2>1, <2>2
  <2>4. synced' \in 0 .. Len(log') /\ Intact(log') <= Intact(log)
    BY <1>1, <2>1, <2>2
  <2> QED BY <1>1, <2>1, <2>3, <2>4, InvForget, Zenon
<1> QED BY <1>2, <1>3, Zenon DEF ProcessKill

(* What a loss of power leaves in the file.                                *)
LEMMA PowerLossFile ==
  ASSUME Inv, PowerLoss
  PROVE  \E n \in synced .. Len(log) :
           /\ log' \in Seq(Record) /\ Len(log') >= n
           /\ Intact(log') = IF n < Intact(log) THEN n ELSE Intact(log)
           /\ \A i \in 1 .. n : log'[i] = log[i]
<1>1. log \in Seq(Record) /\ synced \in 0 .. Len(log) /\ Intact(log) \in 0 .. Len(log)
  BY IntactProperties, Zenon DEF Inv, TypeOK
<1>2. PICK n \in synced .. Len(log) :
        log' = SubSeq(log, 1, n) \/ log' = Append(SubSeq(log, 1, n), Torn)
  BY Zenon DEF PowerLoss
<1>3. n \in 0 .. Len(log)
  BY <1>1
<1> DEFINE s == SubSeq(log, 1, n)
<1>4. /\ s \in Seq(Record) /\ Len(s) = n /\ \A i \in 1 .. n : s[i] = log[i]
      /\ Intact(s) = IF n < Intact(log) THEN n ELSE Intact(log)
  BY <1>1, <1>3, IntactSubSeq, Zenon
<1>5. log' = s \/ log' = Append(s, Torn)
  BY <1>2, Zenon
<1> HIDE DEF s
<1>6. CASE log' = s
  BY <1>3, <1>4, <1>6
<1>7. CASE log' = Append(s, Torn)
  <2>1. /\ log' \in Seq(Record) /\ Len(log') = n + 1
        /\ \A i \in 1 .. n : log'[i] = s[i]
    BY <1>3, <1>4, <1>7, TornType
  <2>2. Intact(log') = Intact(s)
    BY <1>4, <1>7, TornType, IntactAppend, Zenon
  <2> QED BY <1>3, <1>4, <2>1, <2>2
<1> QED BY <1>5, <1>6, <1>7, Zenon

LEMMA InvPowerLoss == ASSUME Inv, PowerLoss PROVE Inv'
<1>1. PICK n \in synced .. Len(log) :
        /\ log' \in Seq(Record) /\ Len(log') >= n
        /\ Intact(log') = IF n < Intact(log) THEN n ELSE Intact(log)
        /\ \A i \in 1 .. n : log'[i] = log[i]
  BY PowerLossFile, Zenon
<1>2. log \in Seq(Record) /\ synced \in 0 .. Len(log) /\ Intact(log) \in 0 .. Len(log)
  BY IntactProperties, Zenon DEF Inv, TypeOK
<1>3. Intact(log') <= Intact(log) /\ \A i \in 1 .. Intact(log') : log'[i] = log[i]
  BY <1>1, <1>2
<1>4. synced' \in 0 .. Len(log')
  BY <1>1 DEF PowerLoss
<1>5. ForgetMemory /\ acked' \subseteq acked /\ scarred' = scarred
  BY Zenon DEF PowerLoss
<1> QED BY <1>1, <1>3, <1>4, <1>5, InvForget, Zenon

LEMMA InvNext == Inv /\ [Next]_vars => Inv'
<1> SUFFICES ASSUME Inv, [Next]_vars PROVE Inv'
  BY Zenon
<1>1. CASE OpenWithOptions
  BY <1>1, InvOpen, Zenon
<1>2. CASE Flush \/ BackupTo
  <2>1. synced' \in 0 .. Len(log)
    BY <1>2, SyncFileType DEF Flush, BackupTo, Inv, TypeOK
  <2>2. tx' = NoTx /\ UNCHANGED <<log, memory, acked, scarred>>
    BY <1>2, Zenon DEF Flush, BackupTo, memory
  <2> QED BY <2>1, <2>2, InvTxOnly, Zenon DEF Inv, TypeOK, memory
<1>3. CASE DropStore
  <2>1. log \in Seq(Record) /\ Intact(log) \in Int
    BY IntactProperties DEF Inv, TypeOK
  <2> QED BY <1>3, <2>1, InvForget DEF DropStore, Inv, TypeOK
<1>4. CASE Begin
  <2>1. << >> \in Seq(Operation)
    OBVIOUS
  <2> QED BY <1>4, <2>1, InvBegin, Zenon DEF Begin
<1>5. ASSUME NEW k \in Key, NEW v \in Value, TxPut(k, v) PROVE Inv'
  <2>1. Put(k, v) \in Operation /\ Put(k, v).key \in Key /\ Put(k, v).value \in Value \cup {NoValue}
    BY Zenon DEF Put, Operation, AnyKey, AnyValue
  <2> QED BY <1>5, <2>1, InvStage, Zenon DEF TxPut
<1>6. ASSUME NEW k \in Key, TxDelete(k) PROVE Inv'
  <2>1. Delete(k) \in Operation /\ Delete(k).key \in Key /\ Delete(k).value \in Value \cup {NoValue}
    BY Zenon DEF Delete, Operation, AnyKey, AnyValue
  <2> QED BY <1>6, <2>1, InvStage, Zenon DEF TxDelete
<1>7. CASE Rollback
  BY <1>7, InvTxOnly DEF Rollback, Inv, TypeOK
<1>8. CASE CommitBegin
  BY <1>8, InvCommitBegin
<1>9. CASE CommitStage
  BY <1>9, InvCommitStage, SMTT(30)
<1>10. CASE CommitAppend
  BY <1>10, InvCommitAppend
<1>11. CASE CommitSync
  BY <1>11, InvCommitSync
<1>12. CASE CommitSyncErr
  BY <1>12, InvCommitSyncErr
<1>13. ASSUME NEW t \in 1 .. MaxTxId - 1, NEW limit \in 1 .. MaxOps, PruneChangesThrough(t, limit)
       PROVE Inv'
  BY <1>13, InvPrune, Zenon
<1>14. CASE ProcessKill
  BY <1>14, InvProcessKill
<1>15. CASE PowerLoss
  BY <1>15, InvPowerLoss
<1>16. CASE OpenRefused \/ UNCHANGED vars
  <2>1. UNCHANGED vars
    BY <1>16, Zenon DEF OpenRefused
  <2> QED BY <2>1, Zenon DEF vars, memory, Inv, TypeOK, CountersAhead, TxCurrent, ActiveOperations
<1> QED BY <1>1, <1>2, <1>3, <1>4, <1>5, <1>6, <1>7, <1>8, <1>9, <1>10, <1>11, <1>12,
           <1>13, <1>14, <1>15, <1>16, Zenon DEF Next

LEMMA InvAlways == Spec => []Inv
BY InvInit, InvNext, PTL DEF Spec

-----------------------------------------------------------------------------
(* Every variable keeps its type, and the counters of the Store their      *)
(* width.                                                                  *)
THEOREM TypeCorrect == Spec => []TypeOK
<1>1. Inv => TypeOK
  BY Zenon DEF Inv
<1> QED BY <1>1, InvAlways, PTL

-----------------------------------------------------------------------------
(* Which files can be refused. Without scars only the last record of a     *)
(* file can be incomplete, and none while the Store is open.               *)

Scars == scarred \/ (~TornInside(log) /\ (open => Intact(log) = Len(log)))

LEMMA ScarsOpen == ASSUME Inv, OpenWithOptions PROVE Scars'
<1>1. log' \in Seq(Record)
  BY InvOpen, Zenon DEF Inv, TypeOK
<1>2. CASE TornAt(log') = {}
  <2>1. Intact(log') = Len(log')
    BY <1>2, Zenon DEF Intact
  <2>2. ~TornInside(log')
    BY <1>1, <2>1 DEF TornInside
  <2> QED BY <2>1, <2>2, Zenon DEF Scars
<1>3. CASE TornAt(log') # {}
  BY <1>3, Zenon DEF Scars, OpenWithOptions
<1> QED BY <1>2, <1>3, Zenon

LEMMA ScarsAppendOk ==
  ASSUME Inv, Scars, tx.phase \in {"active", "commit"}, NEW op \in Operation \cup {Commit},
         AppendOk(op), open' = open
  PROVE  Scars'
<1>1. CASE scarred
  BY <1>1, Zenon DEF Scars, AppendOk
<1>2. CASE ~scarred
  <2> DEFINE r == LogRecord(op, tx.tx_id, next_sequence)
  <2>1. /\ log \in Seq(Record) /\ tx.tx_id \in 0 .. MaxTxId /\ next_sequence \in 0 .. MaxSequence
        /\ open
    BY BoundsAssumption DEF Inv, TypeOK, TxCurrent, Transaction
  <2>2. r \in Record /\ r.kind # "Torn" /\ log' = Append(log, r)
    <3>1. log' = Append(log, r)
      BY Zenon DEF AppendOk
    <3>2. r \in Record /\ r.kind = op.kind /\ op.kind # "Torn"
      BY <2>1, LogRecordType, SMTT(30)
    <3> HIDE DEF r
    <3> QED BY <3>1, <3>2
  <2>3. Intact(log) = Len(log)
    BY <1>2, <2>1, Zenon DEF Scars
  <2> HIDE DEF r
  <2>4. Intact(log') = Len(log) + 1
    BY <2>1, <2>2, <2>3, IntactAppend, Zenon
  <2>5. Len(log') = Len(log) + 1 /\ Len(log) \in Nat
    BY <2>1, <2>2
  <2>6. Intact(log') = Len(log') /\ ~TornInside(log')
    BY <2>4, <2>5 DEF TornInside
  <2> QED BY <2>6, Zenon DEF Scars
<1> QED BY <1>1, <1>2, Zenon

LEMMA ScarsAppendErr == ASSUME Scars, AppendErr, open' = open PROVE Scars'
<1>1. scarred' = TRUE \/ (log' = log /\ scarred' = scarred)
  BY Zenon DEF AppendErr
<1> QED BY <1>1, Zenon DEF Scars

LEMMA ScarsKept ==
  ASSUME Scars, log' = log, scarred' = scarred, open' \in {open, FALSE} PROVE Scars'
BY Zenon DEF Scars

LEMMA ScarsProcessKill == ASSUME Inv, Scars, ProcessKill PROVE Scars'
<1>1. /\ log \in Seq(Record) /\ open /\ open' = FALSE /\ scarred' = scarred
      /\ log' = log \/ log' = Append(log, Torn)
  BY Zenon DEF ProcessKill, ForgetMemory, Inv, TypeOK
<1>2. CASE log' = log
  BY <1>1, <1>2, ScarsKept, Zenon
<1>3. CASE ~scarred /\ log' = Append(log, Torn)
  <2>1. Intact(log) = Len(log)
    BY <1>1, <1>3, Zenon DEF Scars
  <2>2. Intact(log') = Len(log)
    BY <1>1, <1>3, <2>1, TornType, IntactAppend, Zenon
  <2>3. Len(log') = Len(log) + 1 /\ Len(log) \in Nat
    BY <1>1, <1>3
  <2>4. ~TornInside(log')
    BY <2>2, <2>3 DEF TornInside
  <2> QED BY <1>1, <2>4, Zenon DEF Scars
<1> QED BY <1>1, <1>2, <1>3, Zenon DEF Scars

(* A loss of power cuts the file and leaves one incomplete record behind   *)
(* the cut, at most: the next one of the file, or one being appended.      *)
LEMMA ScarsPowerLoss == ASSUME Inv, Scars, PowerLoss PROVE Scars'
<1>1. CASE scarred
  BY <1>1, Zenon DEF Scars, PowerLoss
<1>2. CASE ~scarred
  <2>1. /\ log \in Seq(Record) /\ Intact(log) \in 0 .. Len(log) /\ Len(log) \in Nat
        /\ synced \in Nat /\ Intact(log) + 1 >= Len(log)
        /\ open => Intact(log) = Len(log)
    BY <1>2, IntactProperties DEF Scars, TornInside, Inv, TypeOK
  <2>2. PICK n \in synced .. Len(log) :
          \/ log' = SubSeq(log, 1, n)
          \/ (n < Len(log) \/ Appending) /\ log' = Append(SubSeq(log, 1, n), Torn)
    BY Zenon DEF PowerLoss
  <2> DEFINE s == SubSeq(log, 1, n)
  <2>3. n \in 0 .. Len(log)
    BY <2>1
  <2>4. /\ s \in Seq(Record) /\ Len(s) = n
        /\ Intact(s) = IF n < Intact(log) THEN n ELSE Intact(log)
    BY <2>1, <2>3, IntactSubSeq, Zenon
  <2>5. Appending => open
    BY Zenon DEF Appending, Inv, TxCurrent
  <2>6. log' = s \/ ((n < Len(log) \/ Appending) /\ log' = Append(s, Torn))
    BY <2>2, Zenon
  <2> HIDE DEF s
  <2>7. CASE log' = s
    <3>1. ~TornInside(log')
      BY <2>1, <2>3, <2>4, <2>7 DEF TornInside
    <3> QED BY <3>1, Zenon DEF Scars, PowerLoss, ForgetMemory
  <2>8. CASE (n < Len(log) \/ Appending) /\ log' = Append(s, Torn)
    <3>1. Intact(s) = n
      BY <2>1, <2>3, <2>4, <2>5, <2>8
    <3>2. Intact(log') = n
      BY <2>4, <2>8, <3>1, TornType, IntactAppend, Zenon
    <3>3. Len(log') = n + 1
      BY <2>4, <2>8
    <3>4. ~TornInside(log')
      BY <2>3, <3>2, <3>3 DEF TornInside
    <3> QED BY <3>4, Zenon DEF Scars, PowerLoss, ForgetMemory
  <2> QED BY <2>6, <2>7, <2>8, Zenon
<1> QED BY <1>1, <1>2, Zenon

LEMMA ScarsStage ==
  ASSUME Inv, Scars, NEW op \in Operation, Stage(op)
  PROVE  Scars'
<1>1. tx.phase \in {"active", "commit"} /\ open' = open /\ op \in Operation \cup {Commit}
  BY Zenon DEF Stage
<1>2. AppendOk(op) \/ AppendErr
  BY Zenon DEF Stage
<1> QED BY <1>1, <1>2, ScarsAppendOk, ScarsAppendErr, Zenon

LEMMA ScarsNext == Inv /\ Scars /\ [Next]_vars => Scars'
<1> SUFFICES ASSUME Inv, Scars, [Next]_vars PROVE Scars'
  BY Zenon
<1>1. CASE OpenWithOptions
  BY <1>1, ScarsOpen, Zenon
<1>2. CASE Flush \/ BackupTo \/ DropStore
  BY <1>2, ScarsKept, Zenon DEF Flush, BackupTo, DropStore, ForgetMemory, memory
<1>3. CASE Begin \/ Rollback \/ CommitBegin \/ CommitSync \/ CommitSyncErr
  BY <1>3, ScarsKept, Zenon DEF Begin, BeginAs, Rollback, CommitBegin, CommitSync, CommitSyncErr
<1>4. ASSUME NEW k \in Key, NEW v \in Value, TxPut(k, v) PROVE Scars'
  <2>1. Put(k, v) \in Operation
    BY Zenon DEF Put, Operation, AnyKey, AnyValue
  <2> QED BY <1>4, <2>1, ScarsStage, Zenon DEF TxPut
<1>5. ASSUME NEW k \in Key, TxDelete(k) PROVE Scars'
  <2>1. Delete(k) \in Operation
    BY Zenon DEF Delete, Operation, AnyKey, AnyValue
  <2> QED BY <1>5, <2>1, ScarsStage, Zenon DEF TxDelete
<1>6. CASE CommitStage
  <2>1. tx \in Transaction /\ tx.phase \in {"active", "commit"} /\ tx.todo # << >> /\ open' = open
    BY <1>6, Zenon DEF CommitStage, Inv, TypeOK
  <2>2. tx.todo \in Seq(Operation)
    BY <2>1, Zenon DEF Transaction
  <2>3. Head(tx.todo) \in Operation \cup {Commit}
    BY <2>1, <2>2
  <2>4. AppendOk(Head(tx.todo)) \/ AppendErr
    BY <1>6, Zenon DEF CommitStage
  <2> QED BY <2>1, <2>3, <2>4, ScarsAppendOk, ScarsAppendErr, Zenon
<1>7. CASE CommitAppend
  <2>1. tx.phase \in {"active", "commit"} /\ open' = open /\ Commit \in Operation \cup {Commit}
    BY <1>7, Zenon DEF CommitAppend
  <2>2. AppendOk(Commit) \/ AppendErr \/ UNCHANGED <<log, scarred>>
    BY <1>7, Zenon DEF CommitAppend
  <2> QED BY <2>1, <2>2, ScarsAppendOk, ScarsAppendErr, ScarsKept, Zenon
<1>8. ASSUME NEW t \in 1 .. MaxTxId - 1, NEW limit \in 1 .. MaxOps, PruneChangesThrough(t, limit)
      PROVE  Scars'
  BY <1>8, ScarsKept, Zenon DEF PruneChangesThrough, BeginAs
<1>9. CASE ProcessKill
  BY <1>9, ScarsProcessKill, Zenon
<1>10. CASE PowerLoss
  BY <1>10, ScarsPowerLoss, Zenon
<1>11. CASE OpenRefused \/ UNCHANGED vars
  BY <1>11, ScarsKept, Zenon DEF OpenRefused, vars, memory
<1> QED BY <1>1, <1>2, <1>3, <1>4, <1>5, <1>6, <1>7, <1>8, <1>9, <1>10, <1>11, Zenon DEF Next

LEMMA ScarsAlways == Spec => []Scars
<1>1. Init => Scars
  <2> SUFFICES ASSUME Init PROVE Scars
    BY Zenon
  <2>1. Intact(log) = 0 /\ Len(log) = 0
    BY DEF Init, Intact, TornAt
  <2>2. ~TornInside(log)
    BY <2>1 DEF TornInside
  <2> QED BY <2>1, <2>2, Zenon DEF Scars
<1> QED BY <1>1, ScarsNext, InvAlways, PTL DEF Spec

(* The scan of recover never meets a repeated sequence number, a record    *)
(* after its transaction's commit, or an exhausted counter, whatever the   *)
(* options and whatever operations failed; and it is sure to succeed on    *)
(* every file, however often the process died or power was lost, unless a  *)
(* write failed half way, or an open did not repair the file, since it was *)
(* last whole.                                                             *)
THEOREM RecoveryAlwaysAccepts == Spec => []RecoveryAccepts
<1>1. Inv /\ Scars => RecoveryAccepts
  <2> SUFFICES ASSUME Inv, Scars PROVE RecoveryAccepts
    BY Zenon
  <2>1. log \in Seq(Record) /\ WellOrdered(log)
    BY Zenon DEF Inv, TypeOK
  <2>2. /\ PrefixOk(log)
        /\ Recovered(log).max_tx_id \in 0 .. MaxTxId - 1
        /\ Recovered(log).max_sequence \in 0 .. MaxSequence - 1
    BY <2>1, WellOrderedRecovers, Zenon
  <2>3. Recovered(log).max_tx_id < MaxTxId /\ Recovered(log).max_sequence < MaxSequence
    BY <2>2, BoundsAssumption
  <2>4. scarred \/ RecoverOk(log)
    BY <2>2, Zenon DEF Scars, RecoverOk
  <2> QED BY <2>2, <2>3, <2>4, Zenon DEF RecoveryAccepts
<1> QED BY <1>1, InvAlways, ScarsAlways, PTL

(* When a torn tail is repaired on open and failing writes leave nothing   *)
(* in the file, no open is ever refused.                                   *)
THEOREM FilesStayReadable ==
  ASSUME RepairTornTail, "Torn" \notin WriteErrors
  PROVE  Spec => []RecoverOk(log)
<1>1. Init => ~scarred
  BY Zenon DEF Init
<1>2. Inv /\ ~scarred /\ [Next]_vars => ~scarred'
  <2> SUFFICES ASSUME Inv, ~scarred, [Next]_vars PROVE ~scarred'
    BY Zenon
  <2>1. CASE OpenWithOptions
    <3>1. /\ log \in Seq(Record) /\ Intact(log) \in 0 .. Len(log)
      BY IntactProperties, Zenon DEF Inv, TypeOK
    <3>2. Recovered(log).valid_end = Intact(log)
      BY Zenon DEF Recovered
    <3>3. log' = IF Intact(log) < Len(log) THEN SubSeq(log, 1, Intact(log)) ELSE log
      BY <2>1, <3>2, Zenon DEF OpenWithOptions
    <3>4. log' \in Seq(Record) /\ Len(log') = Intact(log) /\ Intact(log') = Intact(log)
      <4>1. CASE Intact(log) < Len(log)
        BY <3>1, <3>3, <4>1, IntactSubSeq, Zenon
      <4>2. CASE ~(Intact(log) < Len(log))
        BY <3>1, <3>3, <4>2
      <4> QED BY <4>1, <4>2, Zenon
    <3>5. TornAt(log') = {}
      <4>1. \A i \in 1 .. Len(log') : log'[i].kind # "Torn"
        BY <3>4, IntactProperties, Zenon
      <4> QED BY <3>4, <4>1 DEF TornAt
    <3> QED BY <2>1, <3>5, Zenon DEF OpenWithOptions
  <2>2. CASE ~OpenWithOptions
    BY <2>2, Zenon DEF Next, OpenRefused, Flush, BackupTo, DropStore, Begin, BeginAs, TxPut,
       TxDelete, Stage, AppendOk, AppendErr, Rollback, CommitBegin, CommitStage, CommitAppend,
       CommitSync, CommitSyncErr, PruneChangesThrough, ProcessKill, PowerLoss, vars
  <2> QED BY <2>1, <2>2, Zenon
<1>3. RecoveryAccepts /\ ~scarred => RecoverOk(log)
  BY Zenon DEF RecoveryAccepts
<1> QED BY <1>1, <1>2, <1>3, InvAlways, RecoveryAlwaysAccepts, PTL DEF Spec

-----------------------------------------------------------------------------
(* Durability. When a torn tail is repaired on open and a failing write    *)
(* leaves nothing in the file, no acknowledged transaction is ever lost    *)
(* and readers see exactly the committed transactions. (The run            *)
(* torn_write_loses_commits shows what becomes of them otherwise.)         *)

(* An open Store appends to a file without incomplete records.             *)
NoTear == open => Intact(log) = Len(log)

(* The records of the transaction in progress are the last ones of the     *)
(* file: its operations in order and, while it waits for its sync, its     *)
(* commit record. Every record before them belongs to an older one.        *)
TailStart == Len(log) - Len(tx.operations) - (IF tx.phase = "sync" THEN 1 ELSE 0)

TxTail ==
  IF tx.phase = "none" THEN tx = NoTx
  ELSE /\ TailStart \in Nat
       /\ \A i \in 1 .. TailStart : log[i].tx_id < tx.tx_id
       /\ \A i \in 1 .. Len(tx.operations) :
            log[TailStart + i] = LogRecord(tx.operations[i], tx.tx_id, log[TailStart + i].sequence)
       /\ tx.phase = "sync" => log[Len(log)].kind = "Commit" /\ log[Len(log)].tx_id = tx.tx_id

(* A transaction in doubt is older than any that is yet to commit.         *)
DoubtOld ==
  /\ ~open => doubt = {}
  /\ \A d \in doubt : d < next_tx_id /\ (tx.phase # "none" => d # tx.tx_id)

(* File l holds the acknowledged transaction a.                            *)
Held(l, a) ==
  /\ Len(a.operations) < a.at
  /\ a.at <= Intact(l)
  /\ l[a.at].kind = "Commit" /\ l[a.at].tx_id = a.tx_id
  /\ \A i \in 1 .. Len(a.operations) :
       LET r == l[a.at - Len(a.operations) + i - 1]
       IN  r = LogRecord(a.operations[i], a.tx_id, r.sequence)

AckedHeld == \A a \in acked : Held(log, a) /\ (Syncs => a.at <= synced)

SafeInv ==
  Inv /\ NoTear /\ TxTail /\ DoubtOld /\ AckedHeld /\ VisibleIsCommitted

Reliable == RepairTornTail /\ "Torn" \notin WriteErrors

-----------------------------------------------------------------------------
(* An acknowledged transaction is held by any file that keeps its records. *)
LEMMA HeldKept ==
  ASSUME NEW l, NEW m, NEW a \in [tx_id: 1 .. MaxTxId, at: Nat, operations: Seq(Operation)],
         Held(l, a), a.at <= Intact(m), \A i \in 1 .. a.at : m[i] = l[i]
  PROVE  Held(m, a)
<1>1. a.at \in Nat /\ Len(a.operations) \in Nat /\ Len(a.operations) < a.at
  BY DEF Held
<1>2. m[a.at] = l[a.at]
  BY <1>1
<1>3. \A i \in 1 .. Len(a.operations) :
        m[a.at - Len(a.operations) + i - 1] = l[a.at - Len(a.operations) + i - 1]
  BY <1>1
<1> QED BY <1>1, <1>2, <1>3, Zenon DEF Held

LEMMA AckedKept ==
  ASSUME Inv, AckedHeld, acked' \subseteq acked,
         \A a \in acked' : /\ a.at <= Intact(log')
                           /\ Syncs => a.at <= synced'
                           /\ \A i \in 1 .. a.at : log'[i] = log[i]
  PROVE  AckedHeld'
<1>1. ASSUME NEW a \in acked' PROVE Held(log', a) /\ (Syncs => a.at <= synced')
  <2>1. a \in [tx_id: 1 .. MaxTxId, at: Nat, operations: Seq(Operation)] /\ Held(log, a)
    BY Zenon DEF Inv, TypeOK, AckedHeld
  <2>2. a.at <= Intact(log') /\ \A i \in 1 .. a.at : log'[i] = log[i]
    BY Zenon
  <2> QED BY <2>1, <2>2, HeldKept, Zenon
<1> QED BY <1>1, Zenon DEF AckedHeld

LEMMA AckedUnchanged ==
  ASSUME Inv, AckedHeld, log' = log, acked' = acked, synced' >= synced, synced' \in Int
  PROVE  AckedHeld'
<1>1. ASSUME NEW a \in acked PROVE Held(log, a) /\ (Syncs => a.at <= synced')
  <2>1. a.at \in Nat /\ synced \in Nat
    BY DEF Inv, TypeOK
  <2> QED BY <2>1 DEF AckedHeld
<1> QED BY <1>1, Zenon DEF AckedHeld

(* The file of an open Store is ordered and its committed transactions are *)
(* older than the next one, and than the one in progress until it commits. *)
LEMMA OpenFile ==
  ASSUME Inv, NoTear, open
  PROVE  /\ log \in Seq(Record) /\ Ordered(log) /\ Intact(log) = Len(log)
         /\ \A t \in Committed(log) :
              /\ t \in 1 .. MaxTxId - 1
              /\ t < next_tx_id
              /\ tx.phase \in {"active", "commit"} => t < tx.tx_id
<1>1. log \in Seq(Record) /\ WellOrdered(log) /\ Intact(log) = Len(log)
  BY Zenon DEF Inv, TypeOK, NoTear
<1>2. Ordered(log)
  BY <1>1, Zenon DEF WellOrdered, Ordered
<1>3. ASSUME NEW t \in Committed(log)
      PROVE  /\ t \in 1 .. MaxTxId - 1
             /\ t < next_tx_id
             /\ tx.phase \in {"active", "commit"} => t < tx.tx_id
  <2>1. PICK i \in 1 .. Intact(log) : log[i].kind = "Commit" /\ log[i].tx_id = t
    BY <1>1 DEF Committed
  <2>2. t \in 1 .. MaxTxId - 1
    BY <1>1, <2>1, Zenon DEF WellOrdered
  <2>3. t < next_tx_id
    BY <2>1, Zenon DEF Inv, CountersAhead
  <2>4. tx.phase \in {"active", "commit"} => t < tx.tx_id
    BY <2>1, Zenon DEF Inv, TxCurrent
  <2> QED BY <2>2, <2>3, <2>4, Zenon
<1> QED BY <1>1, <1>2, <1>3, Zenon

(* Readers see the same when neither the map nor the set of visible        *)
(* transactions changes.                                                   *)
LEMMA VisibleKept ==
  ASSUME VisibleIsCommitted, log' = log, open' = open, state' = state,
         open => Committed(log) \ (doubt' \cup {tx'.tx_id}) = Committed(log) \ (doubt \cup {tx.tx_id})
  PROVE  VisibleIsCommitted'
BY Zenon DEF VisibleIsCommitted

(* Steps that end the transaction, or sync, without touching the file.     *)
LEMMA SafeTxOnly ==
  ASSUME SafeInv, tx.phase # "sync" \/ doubt' = doubt \cup {tx.tx_id},
         log' = log, synced' >= synced, synced' \in Int, tx' = NoTx,
         tx.phase # "sync" => doubt' = doubt,
         UNCHANGED <<open, state, next_tx_id, acked>>
  PROVE  NoTear' /\ TxTail' /\ DoubtOld' /\ AckedHeld' /\ VisibleIsCommitted'
<1>1. NoTear'
  BY Zenon DEF SafeInv, NoTear
<1>2. TxTail'
  BY NoTxType, Zenon DEF TxTail
<1>3. DoubtOld'
  <2>1. tx.phase = "sync" => open /\ tx.tx_id < next_tx_id
    BY DEF SafeInv, Inv, TxCurrent, TypeOK
  <2> QED BY <2>1, NoTxType, Zenon DEF SafeInv, DoubtOld
<1>4. AckedHeld'
  BY AckedUnchanged, Zenon DEF SafeInv
<1>5. VisibleIsCommitted'
  <2>1. ASSUME open
        PROVE  Committed(log) \ (doubt' \cup {tx'.tx_id}) = Committed(log) \ (doubt \cup {tx.tx_id})
    <3>1. \A t \in Committed(log) :
            t \in 1 .. MaxTxId - 1 /\ (tx.phase \in {"active", "commit"} => t < tx.tx_id)
      BY <2>1, OpenFile, Zenon DEF SafeInv
    <3>2. \A t \in Committed(log) : t # 0
      BY <3>1, BoundsAssumption
    <3>3. CASE tx.phase = "sync"
      BY <3>2, <3>3, NoTxType, Zenon
    <3>4. CASE tx.phase = "none"
      BY <3>4, Zenon DEF SafeInv, TxTail
    <3>5. CASE tx.phase \in {"active", "commit"}
      <4>1. \A t \in Committed(log) : t # tx.tx_id
        BY <3>1, <3>5 DEF SafeInv, Inv, TypeOK, Transaction
      <4> QED BY <3>2, <3>5, <4>1, NoTxType, Zenon
    <3> QED BY <3>3, <3>4, <3>5, Zenon DEF SafeInv, Inv, TypeOK, Transaction
  <2> QED BY <2>1, VisibleKept, Zenon DEF SafeInv
<1> QED BY <1>1, <1>2, <1>3, <1>4, <1>5, Zenon

LEMMA SafeBegin ==
  ASSUME SafeInv, NEW phase \in {"active", "commit"}, NEW todo, BeginAs(phase, todo)
  PROVE  NoTear' /\ TxTail' /\ DoubtOld' /\ AckedHeld' /\ VisibleIsCommitted'
<1>1. /\ UNCHANGED <<log, synced, open, state, acked, doubt>> /\ open /\ tx = NoTx
      /\ next_tx_id' = next_tx_id + 1 /\ next_tx_id \in Int
      /\ tx' = [tx_id |-> next_tx_id, phase |-> phase, operations |-> << >>, todo |-> todo]
  BY DEF BeginAs, SafeInv, Inv, TypeOK
<1>2. tx'.tx_id = next_tx_id /\ tx'.phase # "none" /\ tx'.phase # "sync" /\ tx'.operations = << >>
  BY <1>1, Zenon
<1>3. NoTear'
  BY <1>1, Zenon DEF SafeInv, NoTear
<1>4. log \in Seq(Record) /\ Intact(log) = Len(log)
  BY <1>1, Zenon DEF SafeInv, Inv, TypeOK, NoTear
<1>5. TxTail'
  <2>1. TailStart' = Len(log)
    BY <1>1, <1>2, <1>4 DEF TailStart
  <2>2. \A i \in 1 .. Len(log) : log[i].tx_id < next_tx_id
    BY <1>1, <1>4, Zenon DEF SafeInv, Inv, CountersAhead
  <2> QED BY <1>1, <1>2, <1>4, <2>1, <2>2, SMTT(30) DEF TxTail
<1>6. DoubtOld'
  <2>1. \A d \in doubt : d \in Int /\ d < next_tx_id
    BY BoundsAssumption DEF SafeInv, DoubtOld, Inv, TypeOK
  <2> QED BY <1>1, <1>2, <2>1 DEF DoubtOld
<1>7. AckedHeld'
  BY <1>1, AckedUnchanged DEF SafeInv, Inv, TypeOK
<1>8. VisibleIsCommitted'
  <2>1. \A t \in Committed(log) : t # 0 /\ t # next_tx_id
    BY <1>1, OpenFile, BoundsAssumption DEF SafeInv
  <2>2. tx.tx_id = 0
    BY <1>1, NoTxType, Zenon
  <2> QED BY <1>1, <1>2, <2>1, <2>2, VisibleKept, Zenon DEF SafeInv
<1> QED BY <1>3, <1>5, <1>6, <1>7, <1>8, Zenon

LEMMA SafeCommitBegin ==
  ASSUME SafeInv, CommitBegin
  PROVE  NoTear' /\ TxTail' /\ DoubtOld' /\ AckedHeld' /\ VisibleIsCommitted'
<1>1. /\ UNCHANGED <<log, synced, open, state, next_tx_id, acked, doubt>> /\ tx.phase = "active"
      /\ tx \in Transaction /\ tx' = [tx EXCEPT !.phase = "commit", !.todo = Changes(tx.tx_id, tx.operations)]
  BY Zenon DEF CommitBegin, SafeInv, Inv, TypeOK
<1>2. tx'.tx_id = tx.tx_id /\ tx'.phase = "commit" /\ tx'.operations = tx.operations
  BY <1>1, Zenon DEF Transaction
<1>3. NoTear'
  BY <1>1, Zenon DEF SafeInv, NoTear
<1>4. TxTail'
  <2>1. TailStart' = TailStart
    BY <1>1, <1>2, Zenon DEF TailStart
  <2> QED BY <1>1, <1>2, <2>1, Zenon DEF SafeInv, TxTail
<1>5. DoubtOld'
  BY <1>1, <1>2, Zenon DEF SafeInv, DoubtOld
<1>6. AckedHeld'
  BY <1>1, AckedUnchanged DEF SafeInv, Inv, TypeOK
<1>7. VisibleIsCommitted'
  BY <1>1, <1>2, VisibleKept, Zenon DEF SafeInv
<1> QED BY <1>3, <1>4, <1>5, <1>6, <1>7, Zenon

(* A failed append leaves the file as it was.                              *)
LEMMA SafeAppendErr ==
  ASSUME SafeInv, Reliable, AppendErr, tx.phase \in {"active", "commit"}, tx' \in {tx, NoTx},
         UNCHANGED <<synced, open, state, next_tx_id, acked, doubt>>
  PROVE  NoTear' /\ TxTail' /\ DoubtOld' /\ AckedHeld' /\ VisibleIsCommitted'
<1>1. log' = log
  BY AppendErrStep, Zenon DEF SafeInv, Reliable
<1>2. synced' >= synced /\ synced' \in Int
  BY DEF SafeInv, Inv, TypeOK
<1>3. CASE tx' = NoTx
  BY <1>1, <1>2, <1>3, SafeTxOnly, Zenon
<1>4. CASE tx' = tx
  <2>1. NoTear' /\ DoubtOld' /\ VisibleIsCommitted'
    BY <1>1, <1>4, Zenon DEF SafeInv, NoTear, DoubtOld, VisibleIsCommitted
  <2>2. TxTail'
    BY <1>1, <1>4, Zenon DEF SafeInv, TxTail, TailStart
  <2>3. AckedHeld'
    BY <1>1, <1>2, AckedUnchanged, Zenon DEF SafeInv
  <2> QED BY <2>1, <2>2, <2>3, Zenon
<1> QED BY <1>3, <1>4, Zenon

(* What an append leaves alone.                                            *)
LEMMA SafeAppendOk ==
  ASSUME SafeInv, Inv', tx.phase \in {"active", "commit"}, NEW op \in Operation \cup {Commit}, AppendOk(op),
         tx'.tx_id = tx.tx_id, tx'.phase # "none",
         UNCHANGED <<synced, open, state, next_tx_id, acked, doubt>>
  PROVE  NoTear' /\ DoubtOld' /\ AckedHeld' /\ VisibleIsCommitted'
<1> DEFINE r == LogRecord(op, tx.tx_id, next_sequence)
<1>1. /\ open /\ log \in Seq(Record) /\ Ordered(log) /\ Intact(log) = Len(log)
      /\ \A t \in Committed(log) : t < tx.tx_id
      /\ tx.tx_id \in 1 .. MaxTxId - 1 /\ next_sequence \in 0 .. MaxSequence
  <2>1. open /\ tx.tx_id \in 1 .. MaxTxId - 1 /\ next_sequence \in 0 .. MaxSequence
    BY BoundsAssumption, SMTT(30) DEF SafeInv, Inv, TxCurrent, TypeOK
  <2> QED BY <2>1, OpenFile, Zenon DEF SafeInv
<1>2. r \in Record /\ r.kind # "Torn" /\ r.kind = op.kind /\ r.tx_id = tx.tx_id
  <2>1. tx.tx_id \in 0 .. MaxTxId
    BY <1>1, BoundsAssumption
  <2> QED BY <1>1, <2>1, LogRecordType, SMTT(30)
<1>3. log' = Append(log, r)
  BY Zenon DEF AppendOk
<1> HIDE DEF r
<1>4. /\ log' \in Seq(Record) /\ Len(log') = Len(log) + 1
      /\ \A i \in 1 .. Len(log) : log'[i] = log[i]
  BY <1>1, <1>2, <1>3
<1>5. Intact(log') = Len(log) + 1
  BY <1>1, <1>2, <1>3, IntactAppend, Zenon
<1>6. NoTear'
  BY <1>4, <1>5, Zenon DEF NoTear
<1>7. DoubtOld'
  BY Zenon DEF SafeInv, DoubtOld
<1>8. AckedHeld'
  <2>1. ASSUME NEW a \in acked'
        PROVE  /\ a.at <= Intact(log')
               /\ Syncs => a.at <= synced'
               /\ \A i \in 1 .. a.at : log'[i] = log[i]
    <3>1. a.at \in Nat /\ a.at <= Len(log) /\ (Syncs => a.at <= synced) /\ Len(log) \in Nat
      BY <1>1 DEF SafeInv, AckedHeld, Held, Inv, TypeOK
    <3>2. \A i \in 1 .. a.at : i \in 1 .. Len(log)
      BY <3>1
    <3> QED BY <1>4, <1>5, <3>1, <3>2, SMTT(30)
  <2> QED BY <2>1, AckedKept, Zenon DEF SafeInv
<1>9. VisibleIsCommitted'
  <2> DEFINE txs == Committed(log) \ (doubt \cup {tx.tx_id})
  <2>1. state = Replay(log, txs)
    BY <1>1, Zenon DEF SafeInv, VisibleIsCommitted
  <2>2. Ordered(Append(log, r))
    <3>1. WellOrdered(log') /\ Intact(log') = Len(log')
      BY <1>4, <1>5, Zenon DEF Inv
    <3> QED BY <1>3, <3>1, Zenon DEF WellOrdered, Ordered
  <2>3. txs \subseteq Committed(log) /\ r.tx_id \notin txs
    BY <1>2, Zenon
  <2>4. Replay(log', txs) = Replay(log, txs)
    <3> HIDE DEF txs
    <3> QED BY <1>1, <1>2, <1>3, <2>2, <2>3, ReplayAppend, Zenon
  <2>5. Committed(log') \ (doubt' \cup {tx'.tx_id}) = txs
    <3>1. Committed(log') = IF r.kind = "Commit" THEN Committed(log) \cup {r.tx_id} ELSE Committed(log)
      BY <1>1, <1>2, <1>3, CommittedAppend, Zenon
    <3> QED BY <1>2, <3>1, Zenon
  <2> HIDE DEF txs
  <2> QED BY <2>1, <2>4, <2>5, Zenon DEF VisibleIsCommitted
<1> QED BY <1>6, <1>7, <1>8, <1>9, Zenon

(* The tail of the file, in one place.                                     *)
LEMMA TailFacts ==
  ASSUME SafeInv, tx.phase # "none"
  PROVE  /\ tx.operations \in Seq(Operation) /\ Len(tx.operations) \in Nat
         /\ Len(log) \in Nat /\ TailStart \in Nat
         /\ Len(log) = TailStart + Len(tx.operations) + (IF tx.phase = "sync" THEN 1 ELSE 0)
         /\ \A i \in 1 .. TailStart : log[i].tx_id < tx.tx_id
         /\ \A i \in 1 .. Len(tx.operations) :
              log[TailStart + i] = LogRecord(tx.operations[i], tx.tx_id, log[TailStart + i].sequence)
         /\ tx.phase = "sync" => log[Len(log)].kind = "Commit" /\ log[Len(log)].tx_id = tx.tx_id
<1>1. tx \in Transaction /\ log \in Seq(Record)
  BY Zenon DEF SafeInv, Inv, TypeOK
<1>2. tx.operations \in Seq(Operation) /\ Len(tx.operations) \in Nat /\ Len(log) \in Nat
  BY <1>1 DEF Transaction
<1>3. Len(log) = TailStart + Len(tx.operations) + (IF tx.phase = "sync" THEN 1 ELSE 0)
  BY <1>2 DEF TailStart
<1>4. TxTail
  BY Zenon DEF SafeInv
<1> QED BY <1>2, <1>3, <1>4, Zenon DEF TxTail

(* Appending an operation extends the tail of the file and the operations  *)
(* of the transaction alike.                                               *)
LEMMA TailAppendOp ==
  ASSUME SafeInv, tx.phase \in {"active", "commit"}, NEW op \in Operation, AppendOk(op),
         tx'.tx_id = tx.tx_id, tx'.phase \in {"active", "commit"},
         tx'.operations = Append(tx.operations, op)
  PROVE  TxTail'
<1> DEFINE n == Len(tx.operations)
           start == TailStart
<1>1. /\ log' \in Seq(Record) /\ Len(log') = Len(log) + 1
      /\ \A i \in 1 .. Len(log) : log'[i] = log[i]
      /\ log'[Len(log) + 1] = LogRecord(op, tx.tx_id, next_sequence)
  BY AppendOkStep, Zenon DEF SafeInv
<1>2. /\ tx.operations \in Seq(Operation) /\ n \in Nat /\ Len(log) \in Nat
      /\ start \in Nat /\ start = Len(log) - n
      /\ \A i \in 1 .. start : log[i].tx_id < tx.tx_id
      /\ \A i \in 1 .. n : log[start + i] = LogRecord(tx.operations[i], tx.tx_id, log[start + i].sequence)
  <2>1. tx.phase # "none" /\ tx.phase # "sync"
    BY Zenon
  <2>2. /\ tx.operations \in Seq(Operation) /\ n \in Nat /\ Len(log) \in Nat /\ start \in Nat
        /\ Len(log) = start + n + (IF tx.phase = "sync" THEN 1 ELSE 0)
        /\ \A i \in 1 .. start : log[i].tx_id < tx.tx_id
        /\ \A i \in 1 .. n : log[start + i] = LogRecord(tx.operations[i], tx.tx_id, log[start + i].sequence)
    BY <2>1, TailFacts, Zenon
  <2>3. start = Len(log) - n
    BY <2>1, <2>2
  <2> QED BY <2>2, <2>3, Zenon
<1>3. Len(tx'.operations) = n + 1 /\ tx'.operations[n + 1] = op
      /\ \A i \in 1 .. n : tx'.operations[i] = tx.operations[i]
  BY <1>2, SMTT(30)
<1>4. TailStart' = start
  BY <1>1, <1>2, <1>3 DEF TailStart
<1> HIDE DEF start, n
<1>5. \A i \in 1 .. start : log'[i].tx_id < tx'.tx_id
  <2>1. \A i \in 1 .. start : log'[i] = log[i]
    BY <1>1, <1>2
  <2> QED BY <1>2, <2>1, Zenon
<1>6. ASSUME NEW i \in 1 .. n + 1
      PROVE  log'[start + i] = LogRecord(tx'.operations[i], tx'.tx_id, log'[start + i].sequence)
  <2>1. CASE i \in 1 .. n
    <3>1. start + i \in 1 .. Len(log)
      BY <1>2, <2>1, SMTT(30)
    <3>2. log'[start + i] = log[start + i]
      BY <1>1, <3>1, Zenon
    <3>3. log[start + i] = LogRecord(tx.operations[i], tx.tx_id, log[start + i].sequence)
      BY <1>2, <2>1, Zenon
    <3>4. tx'.operations[i] = tx.operations[i]
      BY <1>3, <2>1, Zenon
    <3> QED BY <3>2, <3>3, <3>4, Zenon
  <2>2. CASE i = n + 1
    <3>1. start + i = Len(log) + 1
      BY <1>2, <2>2, SMTT(30)
    <3>2. log'[start + i].sequence = next_sequence
      BY <1>1, <3>1 DEF LogRecord
    <3>3. tx'.operations[i] = op
      BY <1>3, <2>2, Zenon
    <3>4. log'[start + i] = LogRecord(op, tx.tx_id, next_sequence)
      BY <1>1, <3>1, Zenon
    <3> DEFINE r == log'[start + i]
    <3>5. r = LogRecord(op, tx.tx_id, next_sequence) /\ r.sequence = next_sequence
      BY <3>2, <3>4, Zenon
    <3> HIDE DEF r
    <3>6. r = LogRecord(tx'.operations[i], tx'.tx_id, r.sequence)
      BY <3>3, <3>5, Zenon DEF LogRecord
    <3> QED BY <3>6, Zenon DEF r
  <2>3. n \in Nat
    BY <1>2, Zenon
  <2>4. i \in 1 .. n \/ i = n + 1
    BY <2>3
  <2> QED BY <2>1, <2>2, <2>4, Zenon
<1> QED BY <1>2, <1>3, <1>4, <1>5, <1>6, Zenon DEF TxTail

(* The commit record is the last one of the file.                          *)
LEMMA TailAppendCommit ==
  ASSUME SafeInv, tx.phase = "commit", AppendOk(Commit), tx' = [tx EXCEPT !.phase = "sync"]
  PROVE  TxTail'
<1> DEFINE n == Len(tx.operations)
           start == TailStart
<1>0. tx.phase \in {"active", "commit"} /\ tx \in Transaction
  BY Zenon DEF SafeInv, Inv, TypeOK
<1>1. /\ log' \in Seq(Record) /\ Len(log') = Len(log) + 1
      /\ \A i \in 1 .. Len(log) : log'[i] = log[i]
      /\ log'[Len(log) + 1] = LogRecord(Commit, tx.tx_id, next_sequence)
  BY <1>0, AppendOkStep, Zenon DEF SafeInv
<1>2. /\ tx.operations \in Seq(Operation) /\ n \in Nat /\ Len(log) \in Nat
      /\ start \in Nat /\ start = Len(log) - n
      /\ \A i \in 1 .. start : log[i].tx_id < tx.tx_id
      /\ \A i \in 1 .. n : log[start + i] = LogRecord(tx.operations[i], tx.tx_id, log[start + i].sequence)
  <2>1. tx.phase # "none" /\ tx.phase # "sync"
    BY Zenon
  <2>2. Len(log) = TailStart + Len(tx.operations)
    BY <2>1, TailFacts
  <2> QED BY <2>1, <2>2, TailFacts, SMTT(30)
<1>3. tx'.tx_id = tx.tx_id /\ tx'.phase = "sync" /\ tx'.operations = tx.operations
  BY <1>0, Zenon DEF Transaction
<1>4. TailStart' = start
  BY <1>1, <1>2, <1>3 DEF TailStart
<1>5. log'[Len(log')].kind = "Commit" /\ log'[Len(log')].tx_id = tx'.tx_id
  BY <1>1, <1>3 DEF LogRecord, Commit
<1>6. /\ \A i \in 1 .. start : log'[i] = log[i]
      /\ \A i \in 1 .. n : log'[start + i] = log[start + i]
  BY <1>1, <1>2, SMTT(30)
<1> HIDE DEF start
<1> QED BY <1>2, <1>3, <1>4, <1>5, <1>6, Zenon DEF TxTail

(* The acknowledged commit makes its operations visible, and is held.      *)
LEMMA SafeCommitSync ==
  ASSUME SafeInv, CommitSync
  PROVE  NoTear' /\ TxTail' /\ DoubtOld' /\ AckedHeld' /\ VisibleIsCommitted'
<1> DEFINE n == Len(tx.operations)
           start == TailStart
           t == tx.tx_id
           ops == tx.operations
<1>1. /\ open /\ tx.phase = "sync" /\ tx' = NoTx /\ synced' = SyncFile(log)
      /\ UNCHANGED <<log, open, next_tx_id, doubt>>
      /\ state' = ApplyOperations(state, ops)
      /\ acked' = acked \cup {[tx_id |-> t, at |-> Len(log), operations |-> ops]}
  BY Zenon DEF CommitSync, SafeInv, Inv, TxCurrent
<1>2. /\ log \in Seq(Record) /\ Ordered(log) /\ Intact(log) = Len(log)
      /\ \A u \in Committed(log) : u \in 1 .. MaxTxId - 1
  BY <1>1, OpenFile, Zenon DEF SafeInv
<1>3. ops \in Seq(Operation) /\ t \in 0 .. MaxTxId /\ synced \in 0 .. Len(log)
  BY Zenon DEF SafeInv, Inv, TypeOK, Transaction
<1>4. /\ start \in Nat /\ Len(log) = start + Len(ops) + 1
      /\ \A i \in 1 .. start : log[i].tx_id < t
      /\ \A i \in 1 .. Len(ops) : log[start + i] = LogRecord(ops[i], t, log[start + i].sequence)
      /\ log[Len(log)].kind = "Commit" /\ log[Len(log)].tx_id = t
  BY <1>1, TailFacts, Zenon
<1> HIDE DEF start, t, ops
<1>5. NoTear'
  BY <1>1, Zenon DEF SafeInv, NoTear
<1>6. TxTail'
  BY <1>1, NoTxType, Zenon DEF TxTail
<1>7. DoubtOld'
  BY <1>1, NoTxType, Zenon DEF SafeInv, DoubtOld
<1>8. AckedHeld'
  <2>1. Syncs => synced' = Len(log)
    BY <1>1, Zenon DEF SyncFile
  <2>2. ASSUME NEW a \in acked PROVE Held(log, a) /\ (Syncs => a.at <= synced')
    <3>1. a.at \in Nat /\ Held(log, a)
      BY Zenon DEF SafeInv, AckedHeld, Inv, TypeOK
    <3> QED BY <1>2, <2>1, <3>1, Zenon DEF Held
  <2> DEFINE b == [tx_id |-> t, at |-> Len(log), operations |-> ops]
  <2>3. b.tx_id = t /\ b.at = Len(log) /\ b.operations = ops
    BY Zenon
  <2> HIDE DEF b
  <2>4. Held(log, b)
    <3>1. \A i \in 1 .. Len(ops) : b.at - Len(ops) + i - 1 = start + i
      BY <1>2, <1>3, <1>4, <2>3, SMTT(30)
    <3>2. \A i \in 1 .. Len(ops) :
            LET r == log[b.at - Len(ops) + i - 1] IN r = LogRecord(ops[i], t, r.sequence)
      BY <1>4, <3>1, Zenon
    <3>3. Len(ops) < b.at /\ b.at <= Intact(log)
      BY <1>2, <1>3, <1>4, <2>3, SMTT(30)
    <3>4. log[b.at].kind = "Commit" /\ log[b.at].tx_id = b.tx_id
      BY <1>4, <2>3, Zenon
    <3> QED BY <2>3, <3>2, <3>3, <3>4, Zenon DEF Held
  <2>5. Syncs => b.at <= synced'
    BY <1>2, <2>1, <2>3
  <2>6. acked' = acked \cup {b}
    BY <1>1, Zenon DEF b
  <2> QED BY <1>1, <2>2, <2>4, <2>5, <2>6, Zenon DEF AckedHeld
<1>9. VisibleIsCommitted'
  <2> DEFINE txs == Committed(log) \ (doubt \cup {t})
  <2>1. t \in Committed(log)
    <3>1. Len(log) \in DOMAIN log
      BY <1>2, <1>3, <1>4
    <3> QED BY <1>4, <3>1, Zenon DEF Committed
  <2>2. state = Replay(log, txs)
    BY <1>1, Zenon DEF SafeInv, VisibleIsCommitted, t
  <2>3. t \notin doubt
    BY <1>1, Zenon DEF SafeInv, DoubtOld, t
  <2>4. \A i \in 1 .. start : log[i].tx_id # t
    BY <1>2, <1>3, <1>4, RecordFields, SMTT(30)
  <2>5. txs \subseteq Committed(log) /\ t \notin txs
    BY Zenon
  <2>6. Committed(log) \ (doubt \cup {0}) = txs \cup {t}
    BY <1>2, <2>1, <2>3
  <2> HIDE DEF txs
  <2>7. Replay(log, txs \cup {t}) = ApplyOperations(Replay(log, txs), ops)
    <3>1. EndsWith(log, start, t, ops, txs)
      BY <1>2, <1>3, <1>4, <2>1, <2>4, <2>5, Zenon DEF EndsWith
    <3> QED BY <3>1, ReplayApply
  <2>8. state' = Replay(log, txs \cup {t})
    BY <1>1, <2>2, <2>7, Zenon
  <2> QED BY <1>1, <2>6, <2>8, NoTxType, Zenon DEF VisibleIsCommitted
<1> QED BY <1>5, <1>6, <1>7, <1>8, <1>9

(* Recovery shows what the repaired file holds.                            *)
LEMMA SafeOpen ==
  ASSUME SafeInv, Reliable, Inv', OpenWithOptions
  PROVE  NoTear' /\ TxTail' /\ DoubtOld' /\ AckedHeld' /\ VisibleIsCommitted'
<1> DEFINE p == ValidPrefix(log)
<1>1. /\ log \in Seq(Record) /\ WellOrdered(log) /\ synced \in 0 .. Len(log)
      /\ Intact(log) \in 0 .. Len(log) /\ ~open
      /\ open' = TRUE /\ acked' = acked /\ tx' = tx /\ doubt' = doubt
      /\ state' = Replay(p, Committed(p))
      /\ IF Intact(log) < Len(log) THEN log' = p /\ synced' = SyncFile(log')
         ELSE log' = log /\ synced' = synced
  <2>1. log \in Seq(Record) /\ WellOrdered(log) /\ synced \in 0 .. Len(log)
    BY Zenon DEF SafeInv, Inv, TypeOK
  <2>2. /\ Recovered(log).state = Replay(p, Committed(p))
        /\ Recovered(log).valid_end = Intact(log)
    BY Zenon DEF Recovered
  <2>3. RepairTornTail
    BY Zenon DEF Reliable
  <2>4. IF Intact(log) < Len(log) THEN log' = p /\ synced' = SyncFile(log')
        ELSE log' = log /\ synced' = synced
    BY <2>2, <2>3, Zenon DEF OpenWithOptions, ValidPrefix
  <2>5. Intact(log) \in 0 .. Len(log)
    BY <2>1, IntactProperties, Zenon
  <2>6. /\ ~open /\ open' = TRUE /\ acked' = acked /\ tx' = tx /\ doubt' = doubt
        /\ state' = Replay(p, Committed(p))
    BY <2>2, Zenon DEF OpenWithOptions
  <2> QED BY <2>1, <2>4, <2>5, <2>6, Zenon
<1>2. /\ p \in Seq(Record) /\ Len(p) = Intact(log) /\ Intact(p) = Intact(log)
      /\ \A i \in 1 .. Intact(log) : p[i] = log[i]
  BY <1>1, ValidPrefixProperties, Zenon
<1> HIDE DEF p
<1>3. log' = p
  <2>1. CASE Intact(log) < Len(log)
    BY <1>1, <2>1, Zenon
  <2>2. CASE Intact(log) = Len(log)
    <3>1. log = p
      BY <1>1, <1>2, <2>2
    <3> QED BY <1>1, <2>2, <3>1, Zenon
  <2> QED BY <1>1, <2>1, <2>2
<1>4. tx = NoTx /\ doubt = {}
  <2>1. tx.phase = "none"
    BY <1>1, Zenon DEF SafeInv, Inv, TxCurrent
  <2> QED BY <1>1, <2>1, Zenon DEF SafeInv, TxTail, DoubtOld
<1>5. NoTear'
  BY <1>2, <1>3, Zenon DEF NoTear
<1>6. TxTail'
  BY <1>1, <1>4, NoTxType, Zenon DEF TxTail
<1>7. DoubtOld'
  BY <1>1, <1>4, Zenon DEF DoubtOld
<1>8. AckedHeld'
  <2>1. ASSUME NEW a \in acked'
        PROVE  /\ a.at <= Intact(log')
               /\ Syncs => a.at <= synced'
               /\ \A i \in 1 .. a.at : log'[i] = log[i]
    <3>1. a.at \in Nat /\ a.at <= Intact(log) /\ (Syncs => a.at <= synced)
      BY <1>1, Zenon DEF SafeInv, AckedHeld, Held, Inv, TypeOK
    <3>2. Syncs => a.at <= synced'
      <4>1. CASE Intact(log) < Len(log)
        <5>1. Syncs => synced' = Len(log')
          BY <1>1, <4>1, Zenon DEF SyncFile
        <5> QED BY <1>2, <1>3, <3>1, <5>1, Zenon
      <4>2. CASE ~(Intact(log) < Len(log))
        BY <1>1, <3>1, <4>2, Zenon
      <4> QED BY <4>1, <4>2, Zenon
    <3>3. \A i \in 1 .. a.at : i \in 1 .. Intact(log)
      BY <1>1, <3>1
    <3> QED BY <1>2, <1>3, <3>1, <3>2, <3>3, Zenon
  <2> QED BY <1>1, <2>1, AckedKept, Zenon DEF SafeInv
<1>9. VisibleIsCommitted'
  <2>1. \A t \in Committed(log') : t \in 1 .. MaxTxId - 1
    <3>1. WellOrdered(log') /\ Intact(log') = Len(log') /\ log' \in Seq(Record)
      BY <1>2, <1>3, Zenon DEF Inv
    <3> QED BY <3>1 DEF WellOrdered, Committed
  <2>2. Committed(log') \ (doubt' \cup {tx'.tx_id}) = Committed(log')
    BY <1>1, <1>4, <2>1, NoTxType, SMTT(30)
  <2> QED BY <1>1, <1>3, <2>2, Zenon DEF VisibleIsCommitted
<1> QED BY <1>5, <1>6, <1>7, <1>8, <1>9, Zenon

(* A closing Store leaves a file that holds what was acknowledged.         *)
LEMMA SafeForget ==
  ASSUME SafeInv, ForgetMemory, AckedHeld'
  PROVE  NoTear' /\ TxTail' /\ DoubtOld' /\ AckedHeld' /\ VisibleIsCommitted'
<1>1. NoTear' /\ VisibleIsCommitted'
  BY Zenon DEF ForgetMemory, NoTear, VisibleIsCommitted
<1>2. TxTail'
  BY NoTxType, Zenon DEF ForgetMemory, TxTail
<1>3. DoubtOld'
  BY Zenon DEF ForgetMemory, DoubtOld
<1> QED BY <1>1, <1>2, <1>3, Zenon

LEMMA AckedProcessKill == ASSUME SafeInv, ProcessKill PROVE AckedHeld'
<1>1. log \in Seq(Record) /\ Intact(log) \in 0 .. Len(log) /\ synced' = synced /\ acked' = acked
  BY IntactProperties, Zenon DEF SafeInv, Inv, TypeOK, ProcessKill
<1>2. Intact(log') = Intact(log) /\ \A i \in 1 .. Len(log) : log'[i] = log[i]
  <2>1. CASE log' = log
    BY <2>1, Zenon
  <2>2. CASE log' = Append(log, Torn)
    BY <1>1, <2>2, TornType, IntactAppend
  <2> QED BY <2>1, <2>2, Zenon DEF ProcessKill
<1>3. ASSUME NEW a \in acked'
      PROVE  /\ a.at <= Intact(log')
             /\ Syncs => a.at <= synced'
             /\ \A i \in 1 .. a.at : log'[i] = log[i]
  <2>1. a.at \in Nat /\ a.at <= Intact(log) /\ (Syncs => a.at <= synced)
    BY <1>1, Zenon DEF SafeInv, AckedHeld, Held, Inv, TypeOK
  <2>2. \A i \in 1 .. a.at : i \in 1 .. Len(log)
    BY <1>1, <2>1
  <2> QED BY <1>1, <1>2, <2>1, <2>2, Zenon
<1> QED BY <1>1, <1>3, AckedKept, Zenon DEF SafeInv

LEMMA AckedPowerLoss == ASSUME SafeInv, PowerLoss PROVE AckedHeld'
<1>0. Inv
  BY Zenon DEF SafeInv
<1>1. PICK n \in synced .. Len(log) :
        /\ log' \in Seq(Record) /\ Len(log') >= n
        /\ Intact(log') = IF n < Intact(log) THEN n ELSE Intact(log)
        /\ \A i \in 1 .. n : log'[i] = log[i]
  BY <1>0, PowerLossFile, Zenon
<1>2. /\ log \in Seq(Record) /\ synced \in 0 .. Len(log) /\ Intact(log) \in 0 .. Len(log)
      /\ synced' = Len(log') /\ acked' = IF Syncs THEN acked ELSE {a \in acked : a.at <= synced}
  BY <1>0, IntactProperties, Zenon DEF Inv, TypeOK, PowerLoss
<1>3. ASSUME NEW a \in acked'
      PROVE  /\ a.at <= Intact(log')
             /\ Syncs => a.at <= synced'
             /\ \A i \in 1 .. a.at : log'[i] = log[i]
  <2>1. a.at \in Nat /\ a.at <= Intact(log) /\ a.at <= synced
    BY <1>2, Zenon DEF SafeInv, AckedHeld, Held, Inv, TypeOK
  <2>2. \A i \in 1 .. a.at : i \in 1 .. n
    BY <1>2, <2>1
  <2>3. a.at <= n /\ n \in Int /\ Len(log') \in Int
    BY <1>1, <1>2, <2>1, SMTT(30)
  <2>4. a.at <= synced'
    BY <1>1, <1>2, <2>1, <2>3, SMTT(30)
  <2> QED BY <1>1, <1>2, <2>1, <2>2, <2>3, <2>4, Zenon
<1>4. acked' \subseteq acked
  BY <1>2, Zenon
<1> QED BY <1>3, <1>4, AckedKept, Zenon DEF SafeInv

-----------------------------------------------------------------------------
LEMMA SafeInit == Init => SafeInv
<1> SUFFICES ASSUME Init PROVE SafeInv
  OBVIOUS
<1>1. Inv
  BY InvInit, Zenon
<1>2. NoTear /\ VisibleIsCommitted
  BY Zenon DEF Init, NoTear, VisibleIsCommitted
<1>3. TxTail
  BY NoTxType, Zenon DEF Init, TxTail
<1>4. DoubtOld /\ AckedHeld
  BY Zenon DEF Init, DoubtOld, AckedHeld
<1> QED BY <1>1, <1>2, <1>3, <1>4, Zenon DEF SafeInv

(* A put or a delete of the transaction in progress.                       *)
LEMMA SafeStage ==
  ASSUME SafeInv, Inv', Reliable, NEW op \in Operation, Stage(op)
  PROVE  NoTear' /\ TxTail' /\ DoubtOld' /\ AckedHeld' /\ VisibleIsCommitted'
<1>1. /\ tx.phase = "active" /\ tx \in Transaction
      /\ UNCHANGED <<synced, open, state, next_tx_id, acked, doubt>>
  BY Zenon DEF Stage, SafeInv, Inv, TypeOK
<1>2. CASE AppendErr /\ tx' = tx
  BY <1>1, <1>2, SafeAppendErr, Zenon
<1>3. CASE AppendOk(op) /\ tx' = [tx EXCEPT !.operations = Append(@, op)]
  <2>1. /\ tx'.tx_id = tx.tx_id /\ tx'.phase = "active"
        /\ tx'.operations = Append(tx.operations, op)
    BY <1>1, <1>3, Zenon DEF Transaction
  <2>2. NoTear' /\ DoubtOld' /\ AckedHeld' /\ VisibleIsCommitted'
    BY <1>1, <1>3, <2>1, SafeAppendOk, Zenon
  <2>3. TxTail'
    BY <1>1, <1>3, <2>1, TailAppendOp, Zenon
  <2> QED BY <2>2, <2>3, Zenon
<1> QED BY <1>2, <1>3, Zenon DEF Stage

LEMMA SafeCommitStage ==
  ASSUME SafeInv, Inv', Reliable, CommitStage
  PROVE  NoTear' /\ TxTail' /\ DoubtOld' /\ AckedHeld' /\ VisibleIsCommitted'
<1>1. /\ tx.phase = "commit" /\ tx \in Transaction /\ tx.todo # << >>
      /\ UNCHANGED <<synced, open, state, next_tx_id, acked, doubt>>
  BY Zenon DEF CommitStage, SafeInv, Inv, TypeOK
<1>2. CASE AppendErr /\ tx' = NoTx
  BY <1>1, <1>2, SafeAppendErr, Zenon
<1>3. CASE /\ AppendOk(Head(tx.todo))
           /\ tx' = [tx EXCEPT !.operations = Append(@, Head(tx.todo)), !.todo = Tail(@)]
  <2> DEFINE op == Head(tx.todo)
  <2>1. op \in Operation
    <3>1. tx.todo \in Seq(Operation)
      BY <1>1, Zenon DEF Transaction
    <3> QED BY <1>1, <3>1
  <2>2. /\ tx'.tx_id = tx.tx_id /\ tx'.phase = "commit"
        /\ tx'.operations = Append(tx.operations, op)
    BY <1>1, <1>3, Zenon DEF Transaction
  <2>3. AppendOk(op)
    BY <1>3, Zenon
  <2> HIDE DEF op
  <2>4. NoTear' /\ DoubtOld' /\ AckedHeld' /\ VisibleIsCommitted'
    BY <1>1, <2>1, <2>2, <2>3, SafeAppendOk, Zenon
  <2>5. TxTail'
    BY <1>1, <2>1, <2>2, <2>3, TailAppendOp, Zenon
  <2> QED BY <2>4, <2>5, Zenon
<1> QED BY <1>2, <1>3, Zenon DEF CommitStage

LEMMA SafeCommitAppend ==
  ASSUME SafeInv, Inv', Reliable, CommitAppend
  PROVE  NoTear' /\ TxTail' /\ DoubtOld' /\ AckedHeld' /\ VisibleIsCommitted'
<1>1. /\ tx.phase = "commit" /\ tx \in Transaction /\ synced \in Int
      /\ UNCHANGED <<synced, open, state, next_tx_id, acked, doubt>>
  BY DEF CommitAppend, SafeInv, Inv, TypeOK
<1>2. CASE AppendErr /\ tx' = NoTx
  BY <1>1, <1>2, SafeAppendErr, Zenon
<1>3. CASE AppendOk(Commit) /\ tx' = [tx EXCEPT !.phase = "sync"]
  <2>1. tx'.tx_id = tx.tx_id /\ tx'.phase = "sync"
    BY <1>1, <1>3, Zenon DEF Transaction
  <2>2. NoTear' /\ DoubtOld' /\ AckedHeld' /\ VisibleIsCommitted'
    BY <1>1, <1>3, <2>1, SafeAppendOk, Zenon
  <2>3. TxTail'
    BY <1>1, <1>3, TailAppendCommit, Zenon
  <2> QED BY <2>2, <2>3
<1>4. CASE NamespaceQuota /\ tx' = NoTx /\ UNCHANGED <<log, next_sequence, scarred>>
  BY <1>1, <1>4, SafeTxOnly
<1> QED BY <1>2, <1>3, <1>4, Zenon DEF CommitAppend

LEMMA SafeNext == Reliable /\ SafeInv /\ [Next]_vars => SafeInv'
<1> SUFFICES ASSUME Reliable, SafeInv, [Next]_vars PROVE SafeInv'
  BY Zenon
<1> DEFINE Goal == NoTear' /\ TxTail' /\ DoubtOld' /\ AckedHeld' /\ VisibleIsCommitted'
<1>0. Inv' /\ Inv /\ synced \in Int
  <2>1. Inv
    BY Zenon DEF SafeInv
  <2>2. log \in Seq(Record) /\ synced \in 0 .. Len(log)
    BY <2>1, Zenon DEF Inv, TypeOK
  <2> QED BY <2>1, <2>2, InvNext
<1> SUFFICES Goal
  BY <1>0, Zenon DEF SafeInv
<1>1. CASE OpenWithOptions
  BY <1>0, <1>1, SafeOpen, Zenon
<1>2. CASE Flush \/ BackupTo
  <2>1. synced' >= synced /\ synced' \in Int
    BY <1>2 DEF Flush, BackupTo, SyncFile, SafeInv, Inv, TypeOK
  <2>2. tx = NoTx /\ tx' = NoTx /\ log' = log /\ UNCHANGED <<open, state, next_tx_id, acked, doubt>>
    BY <1>2, Zenon DEF Flush, BackupTo, memory
  <2>3. tx.phase # "sync"
    BY <2>2, NoTxType, Zenon
  <2> QED BY <2>1, <2>2, <2>3, SafeTxOnly, Zenon
<1>3. CASE DropStore
  <2>1. ForgetMemory /\ AckedHeld'
    BY <1>0, <1>3, AckedUnchanged DEF DropStore, SafeInv
  <2> QED BY <2>1, SafeForget, Zenon
<1>4. CASE Begin
  BY <1>4, SafeBegin, Zenon DEF Begin
<1>5. ASSUME NEW k \in Key, NEW v \in Value, TxPut(k, v) PROVE Goal
  <2>1. Put(k, v) \in Operation
    BY Zenon DEF Put, Operation, AnyKey, AnyValue
  <2> QED BY <1>0, <1>5, <2>1, SafeStage, Zenon DEF TxPut
<1>6. ASSUME NEW k \in Key, TxDelete(k) PROVE Goal
  <2>1. Delete(k) \in Operation
    BY Zenon DEF Delete, Operation, AnyKey, AnyValue
  <2> QED BY <1>0, <1>6, <2>1, SafeStage, Zenon DEF TxDelete
<1>7. CASE Rollback
  BY <1>0, <1>7, SafeTxOnly DEF Rollback
<1>8. CASE CommitBegin
  BY <1>8, SafeCommitBegin, Zenon
<1>9. CASE CommitStage
  BY <1>0, <1>9, SafeCommitStage, Zenon
<1>10. CASE CommitAppend
  BY <1>0, <1>10, SafeCommitAppend, SMTT(30)
<1>11. CASE CommitSync
  BY <1>11, SafeCommitSync, SMTT(30)
<1>12. CASE CommitSyncErr
  BY <1>0, <1>12, SafeTxOnly DEF CommitSyncErr
<1>13. ASSUME NEW t \in 1 .. MaxTxId - 1, NEW limit \in 1 .. MaxOps, PruneChangesThrough(t, limit)
       PROVE Goal
  BY <1>13, SafeBegin, Zenon DEF PruneChangesThrough
<1>14. CASE ProcessKill
  BY <1>14, AckedProcessKill, SafeForget, Zenon DEF ProcessKill
<1>15. CASE PowerLoss
  BY <1>15, AckedPowerLoss, SafeForget, Zenon DEF PowerLoss
<1>16. CASE OpenRefused \/ UNCHANGED vars
  <2>1. /\ log' = log /\ synced' = synced /\ open' = open /\ state' = state
        /\ next_tx_id' = next_tx_id /\ tx' = tx /\ acked' = acked /\ doubt' = doubt
    BY <1>16, Zenon DEF OpenRefused, vars, memory
  <2>2. NoTear' /\ DoubtOld' /\ AckedHeld' /\ VisibleIsCommitted'
    BY <2>1, Zenon DEF SafeInv, NoTear, DoubtOld, AckedHeld, VisibleIsCommitted
  <2>3. TxTail'
    BY <2>1, Zenon DEF SafeInv, TxTail, TailStart
  <2> QED BY <2>2, <2>3, Zenon
<1> QED
  BY <1>1, <1>2, <1>3, <1>4, <1>5, <1>6, <1>7, <1>8, <1>9, <1>10, <1>11, <1>12,
     <1>13, <1>14, <1>15, <1>16, Zenon DEF Next

LEMMA SafeAlways == ASSUME Reliable PROVE Spec => []SafeInv
<1>1. SafeInv /\ [Next]_vars => SafeInv'
  BY SafeNext, Zenon
<1> QED BY <1>1, SafeInit, PTL DEF Spec

-----------------------------------------------------------------------------
(* A transaction whose commit returned Ok is never lost, through any       *)
(* number of rollbacks, rejected writes, failed syncs, kills, losses of    *)
(* power and reopenings; under Relaxed durability, through any that are    *)
(* not losses of power.                                                    *)
THEOREM AcknowledgedStaysDurable ==
  ASSUME RepairTornTail, "Torn" \notin WriteErrors
  PROVE  Spec => []AckedIsDurable
<1>1. Reliable
  BY Zenon DEF Reliable
<1>2. SafeInv => AckedIsDurable
  <2> SUFFICES ASSUME SafeInv, NEW a \in acked
               PROVE  /\ a.at <= Intact(log)
                      /\ Syncs => a.at <= synced
                      /\ log[a.at].kind = "Commit" /\ log[a.at].tx_id = a.tx_id
                      /\ \A i \in DOMAIN a.operations :
                           LET r == log[a.at - Len(a.operations) + i - 1]
                           IN  r = LogRecord(a.operations[i], a.tx_id, r.sequence)
    BY Zenon DEF AckedIsDurable
  <2>1. Held(log, a) /\ (Syncs => a.at <= synced)
    BY Zenon DEF SafeInv, AckedHeld
  <2>2. DOMAIN a.operations = 1 .. Len(a.operations)
    BY SMTT(30) DEF SafeInv, Inv, TypeOK
  <2> QED BY <2>1, <2>2, Zenon DEF Held
<1> QED BY <1>1, <1>2, SafeAlways, PTL

(* Readers of an open Store see the committed transactions of its file,    *)
(* whole and in commit order, and nothing else; the ones in doubt and the  *)
(* one waiting for its sync are left out.                                  *)
THEOREM VisibleStaysCommitted ==
  ASSUME RepairTornTail, "Torn" \notin WriteErrors
  PROVE  Spec => []VisibleIsCommitted
<1>1. Reliable
  BY DEF Reliable
<1>2. SafeInv => VisibleIsCommitted
  BY Zenon DEF SafeInv
<1> QED BY <1>1, <1>2, SafeAlways, PTL

=============================================================================
