-------------------------- MODULE LogRecoveryProofs --------------------------
(***************************************************************************)
(* Facts about the operators of LogRecovery, for every log.                *)
(***************************************************************************)
EXTENDS LogRecovery, FiniteSetTheorems, TLAPS

(* Every non-empty set of naturals has a least element. (This is how the   *)
(* proofs do induction: from a set, not from an operator.)                 *)
LEMMA NatLeast ==
  ASSUME NEW S, S \subseteq Nat, S # {}
  PROVE  \E x \in S : \A y \in S : x <= y
<1> DEFINE R == OpToRel(<, Nat)
<1>1. IsWellFoundedOn(R, Nat)
  BY NatLessThanWellFounded, Zenon
<1>2. \A x, y \in Nat : x < y => <<x, y>> \in R
  BY Zenon DEF OpToRel
<1> HIDE DEF R
<1>3. PICK x \in S : \A y \in S : ~ (<<y, x>> \in R)
  BY <1>1, WFMin, Zenon
<1>4. ASSUME NEW y \in S PROVE x <= y
  <2>1. x \in Nat /\ y \in Nat
    BY Zenon
  <2>2. ~(y < x)
    BY <1>2, <1>3, <2>1, Zenon
  <2> QED BY <2>1, <2>2
<1> QED BY <1>4, Zenon

(* Min picks the least element of a set of naturals.                       *)
LEMMA MinNat ==
  ASSUME NEW S, S \subseteq Nat, S # {}
  PROVE  Min(S) \in S /\ \A y \in S : Min(S) <= y
BY NatLeast, Zenon DEF Min

(* Every non-empty set of naturals with an upper bound has a greatest      *)
(* element.                                                                *)
LEMMA NatGreatest ==
  ASSUME NEW n \in Nat, NEW S, S \subseteq 0 .. n, S # {}
  PROVE  \E x \in S : \A y \in S : y <= x
<1> DEFINE B == {m \in Nat : \A y \in S : y <= m}
<1>1. n \in B
  OBVIOUS
<1>2. PICK m \in B : \A y \in B : m <= y
  <2>1. B \subseteq Nat /\ B # {}
    BY <1>1, Zenon
  <2> HIDE DEF B
  <2> QED BY <2>1, NatLeast, Zenon
<1>3. m \in S
  <2> SUFFICES ASSUME m \notin S PROVE FALSE
    BY Zenon
  <2>1. \A y \in S : y < m
    OBVIOUS
  <2>2. PICK y \in S : TRUE
    BY Zenon
  <2>3. m - 1 \in B
    BY <2>1, <2>2
  <2> QED BY <2>3, <1>2
<1> QED BY <1>3, Zenon

(* Max picks the greatest element of a bounded set of naturals.            *)
LEMMA MaxNat ==
  ASSUME NEW n \in Nat, NEW S, S \subseteq 0 .. n, S # {}
  PROVE  Max(S) \in S /\ \A y \in S : y <= Max(S)
BY NatGreatest, Zenon DEF Max

-----------------------------------------------------------------------------
(* The records before Intact(l) are complete and the next one, if there is *)
(* one, is torn.                                                           *)
LEMMA IntactProperties ==
  ASSUME NEW l \in Seq(Record)
  PROVE  /\ Intact(l) \in 0 .. Len(l)
         /\ \A i \in 1 .. Intact(l) : l[i].kind # "Torn"
         /\ Intact(l) < Len(l) => l[Intact(l) + 1].kind = "Torn"
<1>1. CASE TornAt(l) = {}
  BY <1>1 DEF Intact, TornAt
<1>2. CASE TornAt(l) # {}
  <2>1. TornAt(l) \subseteq Nat
    BY DEF TornAt
  <2>2. Min(TornAt(l)) \in TornAt(l) /\ \A y \in TornAt(l) : Min(TornAt(l)) <= y
    BY <1>2, <2>1, MinNat, Zenon
  <2>3. Intact(l) = Min(TornAt(l)) - 1
    BY <1>2, Zenon DEF Intact
  <2> DEFINE m == Min(TornAt(l))
  <2>4. /\ m \in 1 .. Len(l) /\ l[m].kind = "Torn"
        /\ \A i \in 1 .. Len(l) : l[i].kind = "Torn" => m <= i
    BY <2>2 DEF TornAt
  <2> HIDE DEF m
  <2>5. Intact(l) = m - 1
    BY <2>3, Zenon DEF m
  <2> QED BY <2>4, <2>5
<1> QED BY <1>1, <1>2, Zenon

(* Intact(l) is the only position with these properties.                   *)
LEMMA IntactUnique ==
  ASSUME NEW l \in Seq(Record), NEW n \in 0 .. Len(l),
         \A i \in 1 .. n : l[i].kind # "Torn",
         n < Len(l) => l[n + 1].kind = "Torn"
  PROVE  Intact(l) = n
<1> DEFINE m == Intact(l)
<1>1. /\ m \in 0 .. Len(l)
      /\ \A i \in 1 .. m : l[i].kind # "Torn"
      /\ m < Len(l) => l[m + 1].kind = "Torn"
  BY IntactProperties, Zenon
<1> HIDE DEF m
<1>2. ~(m < n) /\ ~(n < m)
  BY <1>1
<1> QED BY <1>1, <1>2 DEF m

(* Appending a record extends the intact part only if the log had no torn  *)
(* record and the new one is complete.                                     *)
LEMMA IntactAppend ==
  ASSUME NEW l \in Seq(Record), NEW r \in Record
  PROVE  Intact(Append(l, r)) =
           IF Intact(l) = Len(l) /\ r.kind # "Torn" THEN Len(l) + 1 ELSE Intact(l)
<1> DEFINE a == Append(l, r)
<1>1. /\ a \in Seq(Record)
      /\ Len(a) = Len(l) + 1
      /\ \A i \in 1 .. Len(l) : a[i] = l[i]
      /\ a[Len(l) + 1] = r
  OBVIOUS
<1>2. /\ Intact(l) \in 0 .. Len(l)
      /\ \A i \in 1 .. Intact(l) : l[i].kind # "Torn"
      /\ Intact(l) < Len(l) => l[Intact(l) + 1].kind = "Torn"
  BY IntactProperties, Zenon
<1> HIDE DEF a
<1>3. CASE Intact(l) = Len(l) /\ r.kind # "Torn"
  <2>1. \A i \in 1 .. Len(a) : a[i].kind # "Torn"
    BY <1>1, <1>2, <1>3
  <2>2. Intact(a) = Len(a)
    BY <1>1, <2>1, IntactUnique
  <2> QED BY <1>1, <1>3, <2>2, Zenon DEF a
<1>4. CASE ~(Intact(l) = Len(l) /\ r.kind # "Torn")
  <2>1. \A i \in 1 .. Intact(l) : a[i].kind # "Torn"
    BY <1>1, <1>2
  <2>2. a[Intact(l) + 1].kind = "Torn" /\ Intact(l) \in 0 .. Len(a)
    BY <1>1, <1>2, <1>4
  <2>3. Intact(a) = Intact(l)
    BY <1>1, <2>1, <2>2, IntactUnique, Zenon
  <2> QED BY <1>4, <2>3, Zenon DEF a
<1> QED BY <1>3, <1>4, Zenon

(* Cutting a log cuts its intact part.                                     *)
LEMMA IntactSubSeq ==
  ASSUME NEW l \in Seq(Record), NEW n \in 0 .. Len(l)
  PROVE  /\ SubSeq(l, 1, n) \in Seq(Record)
         /\ Len(SubSeq(l, 1, n)) = n
         /\ \A i \in 1 .. n : SubSeq(l, 1, n)[i] = l[i]
         /\ Intact(SubSeq(l, 1, n)) = IF n < Intact(l) THEN n ELSE Intact(l)
<1> DEFINE s == SubSeq(l, 1, n)
<1>1. /\ s \in Seq(Record)
      /\ Len(s) = n
      /\ \A i \in 1 .. n : s[i] = l[i]
  OBVIOUS
<1>2. /\ Intact(l) \in 0 .. Len(l)
      /\ \A i \in 1 .. Intact(l) : l[i].kind # "Torn"
      /\ Intact(l) < Len(l) => l[Intact(l) + 1].kind = "Torn"
  BY IntactProperties, Zenon
<1> HIDE DEF s
<1>3. CASE n < Intact(l)
  <2>1. Intact(s) = n
    BY <1>1, <1>2, <1>3, IntactUnique, SMTT(30)
  <2> QED BY <1>1, <1>3, <2>1, Zenon DEF s
<1>4. CASE ~(n < Intact(l))
  <2>1. /\ Intact(l) \in 0 .. Len(s)
        /\ \A i \in 1 .. Intact(l) : s[i].kind # "Torn"
        /\ Intact(l) < Len(s) => s[Intact(l) + 1].kind = "Torn"
    BY <1>1, <1>2, <1>4
  <2>2. Intact(s) = Intact(l)
    BY <1>1, <2>1, IntactUnique, Zenon
  <2> QED BY <1>1, <1>4, <2>2, Zenon DEF s
<1> QED BY <1>3, <1>4, Zenon

-----------------------------------------------------------------------------
(* A log as the engine writes it: sequence numbers increase, transaction   *)
(* identifiers never decrease and grow after a commit record.              *)
Ordered(l) ==
  \A i, j \in 1 .. Len(l) : i < j =>
    /\ l[i].sequence < l[j].sequence
    /\ l[i].tx_id <= l[j].tx_id
    /\ l[i].kind = "Commit" => l[i].tx_id < l[j].tx_id

(* The fields of a record of a log.                                        *)
LEMMA RecordFields ==
  ASSUME NEW l \in Seq(Record), NEW i \in 1 .. Len(l)
  PROVE  /\ l[i].tx_id \in Nat /\ l[i].tx_id <= MaxTxId
         /\ l[i].sequence \in Nat /\ l[i].sequence <= MaxSequence
         /\ l[i].key \in AnyKey \cup {NoKey}
         /\ l[i].value \in AnyValue \cup {NoValue}
<1>1. l[i] \in Record
  OBVIOUS
<1>2. /\ l[i].tx_id \in 0 .. MaxTxId /\ l[i].sequence \in 0 .. MaxSequence
      /\ l[i].key \in AnyKey \cup {NoKey} /\ l[i].value \in AnyValue \cup {NoValue}
  BY <1>1, Zenon DEF Record
<1> QED BY <1>2, BoundsAssumption

(* CommitAt finds the commit record of a committed transaction.            *)
LEMMA CommitAtProperties ==
  ASSUME NEW l \in Seq(Record), NEW t \in Committed(l)
  PROVE  /\ CommitAt(l, t) \in 1 .. Len(l)
         /\ l[CommitAt(l, t)].kind = "Commit"
         /\ l[CommitAt(l, t)].tx_id = t
<1>1. \E i \in DOMAIN l : l[i].kind = "Commit" /\ l[i].tx_id = t
  BY Zenon DEF Committed
<1> QED BY <1>1 DEF CommitAt

(* In an ordered log, transactions commit in the order of their            *)
(* identifiers.                                                            *)
LEMMA CommitOrder ==
  ASSUME NEW l \in Seq(Record), Ordered(l),
         NEW t \in Committed(l), NEW u \in Committed(l), t < u
  PROVE  CommitAt(l, t) < CommitAt(l, u)
<1>1. /\ CommitAt(l, t) \in 1 .. Len(l) /\ l[CommitAt(l, t)].tx_id = t
      /\ CommitAt(l, u) \in 1 .. Len(l) /\ l[CommitAt(l, u)].tx_id = u
  BY CommitAtProperties, Zenon
<1>2. t \in Int /\ u \in Int
  BY <1>1, RecordFields
<1>3. CommitAt(l, u) < CommitAt(l, t) => u <= t
  BY <1>1, Zenon DEF Ordered
<1>4. CommitAt(l, u) # CommitAt(l, t)
  BY <1>1, <1>2
<1> QED BY <1>1, <1>2, <1>3, <1>4

(* The operations on key k of the transactions in txs.                     *)
OnKey(l, txs, k) ==
  {i \in DOMAIN l : IsOp(l[i]) /\ l[i].key = k /\ l[i].tx_id \in txs}

(* In an ordered log the last record on a key, by position, is the one     *)
(* that takes effect last, so replaying the log leaves its value.          *)
LEMMA ReplayLast ==
  ASSUME NEW l \in Seq(Record), Ordered(l), NEW txs, txs \subseteq Committed(l),
         NEW k \in AnyKey, NEW j \in OnKey(l, txs, k),
         \A i \in OnKey(l, txs, k) : i <= j
  PROVE  Replay(l, txs)[k] = l[j].value
<1> DEFINE on == OnKey(l, txs, k)
<1>1. ASSUME NEW i \in on PROVE AppliedNoLater(l, i, j)
  <2>1. i \in 1 .. Len(l) /\ j \in 1 .. Len(l) /\ i <= j
    BY DEF OnKey
  <2>2. l[i].tx_id \in Committed(l) /\ l[j].tx_id \in Committed(l)
    BY Zenon DEF OnKey
  <2>3. l[i].tx_id \in Int /\ l[j].tx_id \in Int
    BY <2>1, RecordFields
  <2>4. l[i].tx_id <= l[j].tx_id
    BY <2>1, <2>3 DEF Ordered
  <2>5. CASE l[i].tx_id = l[j].tx_id
    BY <2>1, <2>5, Zenon DEF AppliedNoLater
  <2>6. CASE l[i].tx_id < l[j].tx_id
    BY <2>2, <2>6, CommitOrder, Zenon DEF AppliedNoLater
  <2> QED BY <2>3, <2>4, <2>5, <2>6
<1>2. ASSUME NEW m \in on, \A i \in on : AppliedNoLater(l, i, m) PROVE m = j
  <2>1. m \in 1 .. Len(l) /\ j \in 1 .. Len(l) /\ m <= j
    BY DEF OnKey
  <2>2. l[m].tx_id \in Committed(l) /\ l[j].tx_id \in Committed(l)
    BY DEF OnKey
  <2>3. CommitAt(l, l[m].tx_id) \in Int /\ CommitAt(l, l[j].tx_id) \in Int
    BY <2>2, CommitAtProperties
  <2>4. AppliedNoLater(l, j, m) /\ AppliedNoLater(l, m, j)
    BY <1>1, <1>2, Zenon
  <2>5. ~(CommitAt(l, l[j].tx_id) < CommitAt(l, l[m].tx_id))
    BY <2>3, <2>4 DEF AppliedNoLater
  <2>6. j <= m
    BY <2>4, <2>5, Zenon DEF AppliedNoLater
  <2> QED BY <2>1, <2>6
<1> DEFINE latest == CHOOSE m \in on : \A i \in on : AppliedNoLater(l, i, m)
<1>3. latest = j
  <2>1. j \in on /\ \A i \in on : AppliedNoLater(l, i, j)
    BY <1>1, Zenon
  <2> HIDE DEF on
  <2>2. latest \in on /\ \A i \in on : AppliedNoLater(l, i, latest)
    BY <2>1, Zenon
  <2> QED BY <2>2, <1>2, Zenon
<1>4. Replay(l, txs)[k] = IF on = {} THEN NoValue ELSE l[latest].value
  BY Zenon DEF Replay, OnKey
<1> QED BY <1>3, <1>4, Zenon

(* A key that no operation of txs touches is absent.                       *)
LEMMA ReplayAbsent ==
  ASSUME NEW l \in Seq(Record), NEW txs, NEW k \in AnyKey, OnKey(l, txs, k) = {}
  PROVE  Replay(l, txs)[k] = NoValue
BY Zenon DEF Replay, OnKey

(* A touched key has a last operation.                                     *)
LEMMA OnKeyLast ==
  ASSUME NEW l \in Seq(Record), NEW txs, NEW k, OnKey(l, txs, k) # {}
  PROVE  \E j \in OnKey(l, txs, k) : \A i \in OnKey(l, txs, k) : i <= j
<1>1. OnKey(l, txs, k) \subseteq 0 .. Len(l)
  BY DEF OnKey
<1>2. Len(l) \in Nat
  OBVIOUS
<1> QED BY <1>1, <1>2, NatGreatest, Zenon

(* Replaying an ordered log gives a map of the type of Store.state.        *)
LEMMA ReplayType ==
  ASSUME NEW l \in Seq(Record), Ordered(l), NEW txs, txs \subseteq Committed(l)
  PROVE  Replay(l, txs) \in [AnyKey -> AnyValue \cup {NoValue}]
<1>1. ASSUME NEW k \in AnyKey PROVE Replay(l, txs)[k] \in AnyValue \cup {NoValue}
  <2>1. CASE OnKey(l, txs, k) = {}
    BY <2>1, ReplayAbsent, Zenon
  <2>2. CASE OnKey(l, txs, k) # {}
    <3>1. PICK j \in OnKey(l, txs, k) : \A i \in OnKey(l, txs, k) : i <= j
      BY <2>2, OnKeyLast, Zenon
    <3>2. Replay(l, txs)[k] = l[j].value
      BY <3>1, ReplayLast
    <3>3. j \in 1 .. Len(l)
      BY DEF OnKey
    <3> QED BY <3>2, <3>3, RecordFields, Zenon
  <2> QED BY <2>1, <2>2, Zenon
<1>2. Replay(l, txs) = [k \in AnyKey |-> Replay(l, txs)[k]]
  BY DEF Replay
<1> QED BY <1>1, <1>2, Zenon

(* Applying operations keeps the type of the map.                          *)
LEMMA ApplyType ==
  ASSUME NEW map \in [AnyKey -> AnyValue \cup {NoValue}], NEW ops \in Seq(Operation)
  PROVE  ApplyOperations(map, ops) \in [AnyKey -> AnyValue \cup {NoValue}]
<1>1. ASSUME NEW k \in AnyKey PROVE ApplyOperations(map, ops)[k] \in AnyValue \cup {NoValue}
  <2> DEFINE on == {i \in DOMAIN ops : ops[i].key = k}
  <2>1. ApplyOperations(map, ops)[k] = IF on = {} THEN map[k] ELSE ops[Max(on)].value
    BY Zenon DEF ApplyOperations
  <2>2. CASE on # {}
    <3>1. on \subseteq 0 .. Len(ops) /\ Len(ops) \in Nat
      OBVIOUS
    <3>2. Max(on) \in on
      <4> HIDE DEF on
      <4> QED BY <2>2, <3>1, MaxNat, Zenon
    <3>3. ops[Max(on)] \in Operation
      BY <3>2
    <3> QED BY <2>1, <2>2, <3>3, Zenon DEF Operation
  <2> QED BY <2>1, <2>2, Zenon
<1>2. ApplyOperations(map, ops) = [k \in AnyKey |-> ApplyOperations(map, ops)[k]]
  BY Zenon DEF ApplyOperations
<1> QED BY <1>1, <1>2, Zenon

(* No record carries a higher transaction identifier than LastTxId.        *)
LEMMA LastTxIdProperties ==
  ASSUME NEW l \in Seq(Record)
  PROVE  /\ LastTxId(l) \in 0 .. MaxTxId
         /\ \A i \in 1 .. Len(l) : l[i].tx_id <= LastTxId(l)
         /\ LastTxId(l) # 0 => \E i \in 1 .. Len(l) : l[i].tx_id = LastTxId(l)
<1> DEFINE ids == {0} \cup {l[i].tx_id : i \in DOMAIN l}
<1>1. ids \subseteq 0 .. MaxTxId /\ ids # {} /\ MaxTxId \in Nat
  BY BoundsAssumption, RecordFields
<1>2. Max(ids) \in ids /\ \A y \in ids : y <= Max(ids)
  <2> HIDE DEF ids
  <2> QED BY <1>1, MaxNat, Zenon
<1>3. LastTxId(l) = Max(ids)
  BY Zenon DEF LastTxId
<1>4. \A i \in 1 .. Len(l) : l[i].tx_id \in ids
  OBVIOUS
<1>5. \A y \in ids : y # 0 => \E i \in 1 .. Len(l) : l[i].tx_id = y
  OBVIOUS
<1> HIDE DEF ids
<1> QED BY <1>1, <1>2, <1>3, <1>4, <1>5, Zenon

-----------------------------------------------------------------------------
(* The intact part of a file that the engine wrote: ordered, and with      *)
(* identifiers and sequence numbers below their largest values.            *)
WellOrdered(l) ==
  /\ \A i \in 1 .. Intact(l) :
       /\ l[i].tx_id \in 1 .. MaxTxId - 1
       /\ l[i].sequence \in 1 .. MaxSequence - 1
  /\ \A i, j \in 1 .. Intact(l) : i < j =>
       /\ l[i].sequence < l[j].sequence
       /\ l[i].tx_id <= l[j].tx_id
       /\ l[i].kind = "Commit" => l[i].tx_id < l[j].tx_id

(* A file that keeps some of the intact records of another, from the       *)
(* first on, is as well ordered.                                           *)
LEMMA WellOrderedPrefix ==
  ASSUME NEW l \in Seq(Record), NEW m \in Seq(Record), WellOrdered(l),
         Intact(m) <= Intact(l), \A i \in 1 .. Intact(m) : m[i] = l[i]
  PROVE  WellOrdered(m)
<1>1. Intact(l) \in Nat /\ Intact(m) \in Nat
  BY IntactProperties
<1>2. \A i \in 1 .. Intact(m) : i \in 1 .. Intact(l)
  BY <1>1
<1> QED BY <1>2, Zenon DEF WellOrdered

(* The valid prefix is the intact part.                                    *)
LEMMA ValidPrefixProperties ==
  ASSUME NEW l \in Seq(Record)
  PROVE  /\ ValidPrefix(l) \in Seq(Record)
         /\ Len(ValidPrefix(l)) = Intact(l)
         /\ Intact(ValidPrefix(l)) = Intact(l)
         /\ \A i \in 1 .. Intact(l) : ValidPrefix(l)[i] = l[i]
<1>1. Intact(l) \in 0 .. Len(l)
  BY IntactProperties, Zenon
<1> QED BY <1>1, IntactSubSeq, Zenon DEF ValidPrefix

(* The scan of such a file meets no error before its end, or before a torn *)
(* record, and what it returns there has its types.                        *)
LEMMA WellOrderedRecovers ==
  ASSUME NEW l \in Seq(Record), WellOrdered(l)
  PROVE  /\ PrefixOk(l)
         /\ Ordered(ValidPrefix(l))
         /\ Recovered(l).state \in [AnyKey -> AnyValue \cup {NoValue}]
         /\ Recovered(l).max_tx_id \in 0 .. MaxTxId - 1
         /\ Recovered(l).max_sequence \in 0 .. MaxSequence - 1
         /\ \A i \in 1 .. Intact(l) : l[i].tx_id <= Recovered(l).max_tx_id
         /\ \A i \in 1 .. Intact(l) : l[i].sequence <= Recovered(l).max_sequence
<1> DEFINE p == ValidPrefix(l)
           n == Intact(l)
<1>1. /\ p \in Seq(Record) /\ Len(p) = n /\ n \in Nat
      /\ \A i \in 1 .. n : p[i] = l[i]
  BY ValidPrefixProperties, IntactProperties
<1>2. \A i \in 1 .. n : p[i].tx_id \in 1 .. MaxTxId - 1 /\ p[i].sequence \in 1 .. MaxSequence - 1
  BY <1>1, Zenon DEF WellOrdered
<1>3. \A i, j \in 1 .. n : i < j =>
        /\ p[i].sequence < p[j].sequence
        /\ p[i].tx_id <= p[j].tx_id
        /\ p[i].kind = "Commit" => p[i].tx_id < p[j].tx_id
  BY <1>1, Zenon DEF WellOrdered
<1>r. Recovered(l) = [state |-> Replay(p, Committed(p)), max_tx_id |-> LastTxId(p),
                      max_sequence |-> LastSequence(p), valid_end |-> n]
  BY Zenon DEF Recovered
<1>k. PrefixOk(l) <=> ~NonMonotonicSequence(p) /\ ~RecordAfterCommit(p)
  BY Zenon DEF PrefixOk
<1> HIDE DEF p, n
<1>4. Ordered(p)
  BY <1>1, <1>3, Zenon DEF Ordered
<1>5. ~NonMonotonicSequence(p)
  <2>1. ASSUME NEW i \in DOMAIN p, i > 1, p[i].sequence <= p[i-1].sequence PROVE FALSE
    <3>1. i \in 1 .. n /\ i - 1 \in 1 .. n /\ i - 1 < i
      BY <1>1, <2>1
    <3>2. p[i-1].sequence < p[i].sequence
      BY <1>3, <3>1, Zenon
    <3>3. p[i-1].sequence \in Int /\ p[i].sequence \in Int
      BY <1>2, <3>1
    <3> QED BY <2>1, <3>2, <3>3
  <2> QED BY <2>1, Zenon DEF NonMonotonicSequence
<1>6. ~RecordAfterCommit(p)
  <2>1. ASSUME NEW i \in 1 .. n, NEW j \in 1 .. n, i < j, p[i].kind = "Commit",
               p[i].tx_id = p[j].tx_id
        PROVE FALSE
    <3>1. p[i].tx_id < p[j].tx_id
      BY <1>3, <2>1, Zenon
    <3>2. p[i].tx_id \in Int
      BY <1>2, <2>1
    <3> QED BY <2>1, <3>1, <3>2
  <2> QED BY <1>1, <2>1 DEF RecordAfterCommit
<1>7. Replay(p, Committed(p)) \in [AnyKey -> AnyValue \cup {NoValue}]
  BY <1>1, <1>4, ReplayType, Zenon
<1>8. /\ LastTxId(p) \in 0 .. MaxTxId
      /\ \A i \in 1 .. n : p[i].tx_id <= LastTxId(p)
      /\ LastTxId(p) # 0 => \E i \in 1 .. n : p[i].tx_id = LastTxId(p)
  BY <1>1, LastTxIdProperties, Zenon
<1>9. LastTxId(p) \in 0 .. MaxTxId - 1
  <2>1. CASE LastTxId(p) = 0
    BY <2>1, BoundsAssumption
  <2>2. CASE LastTxId(p) # 0
    BY <2>2, <1>2, <1>8
  <2> QED BY <2>1, <2>2, Zenon
<1>10. /\ LastSequence(p) \in 0 .. MaxSequence - 1
       /\ \A i \in 1 .. n : p[i].sequence <= LastSequence(p)
  <2>1. CASE p = << >>
    BY <2>1, <1>1, BoundsAssumption DEF LastSequence
  <2>2. CASE p # << >>
    <3>1. n \in 1 .. n
      BY <2>2, <1>1
    <3>2. LastSequence(p) = p[n].sequence
      BY <2>2, <1>1, Zenon DEF LastSequence
    <3>3. p[n].sequence \in 1 .. MaxSequence - 1
      BY <1>2, <3>1, Zenon
    <3>4. ASSUME NEW i \in 1 .. n PROVE p[i].sequence <= p[n].sequence
      <4>1. p[i].sequence \in Int
        BY <1>2
      <4>2. CASE i = n
        BY <4>1, <4>2
      <4>3. CASE i < n
        BY <1>3, <3>1, <3>3, <4>1, <4>3
      <4> QED BY <1>1, <4>2, <4>3
    <3> QED BY <3>2, <3>3, <3>4
  <2> QED BY <2>1, <2>2, Zenon
<1>11. \A i \in 1 .. n : l[i].tx_id <= LastTxId(p) /\ l[i].sequence <= LastSequence(p)
  BY <1>1, <1>8, <1>10, Zenon
<1> USE DEF n, p
<1> QED BY <1>r, <1>k, <1>4, <1>5, <1>6, <1>7, <1>9, <1>10, <1>11

-----------------------------------------------------------------------------
(* Replay depends, for each key, only on the operations on that key.       *)
LEMMA ReplayAgreeAt ==
  ASSUME NEW l \in Seq(Record), Ordered(l), NEW tl, tl \subseteq Committed(l),
         NEW m \in Seq(Record), Ordered(m), NEW tm, tm \subseteq Committed(m),
         NEW k \in AnyKey, OnKey(l, tl, k) = OnKey(m, tm, k),
         \A i \in OnKey(l, tl, k) : l[i].value = m[i].value
  PROVE  Replay(l, tl)[k] = Replay(m, tm)[k]
<1>1. CASE OnKey(l, tl, k) = {}
  BY <1>1, ReplayAbsent, Zenon
<1>2. CASE OnKey(l, tl, k) # {}
  <2>1. PICK j \in OnKey(l, tl, k) : \A i \in OnKey(l, tl, k) : i <= j
    BY <1>2, OnKeyLast, Zenon
  <2>2. Replay(l, tl)[k] = l[j].value
    BY <2>1, ReplayLast
  <2>3. j \in OnKey(m, tm, k) /\ \A i \in OnKey(m, tm, k) : i <= j
    BY <2>1, Zenon
  <2>4. Replay(m, tm)[k] = m[j].value
    BY <2>3, ReplayLast
  <2> QED BY <2>1, <2>2, <2>4, Zenon
<1> QED BY <1>1, <1>2, Zenon

(* Two maps made by Replay are equal when they agree on every key.         *)
LEMMA ReplayEqual ==
  ASSUME NEW l, NEW tl, NEW map, map = [k \in AnyKey |-> map[k]],
         \A k \in AnyKey : Replay(l, tl)[k] = map[k]
  PROVE  Replay(l, tl) = map
<1>1. Replay(l, tl) = [k \in AnyKey |-> Replay(l, tl)[k]]
  BY DEF Replay
<1> QED BY <1>1, Zenon

(* A record of another transaction, or a commit record, changes nothing.   *)
LEMMA ReplayAppend ==
  ASSUME NEW l \in Seq(Record), NEW r \in Record, Ordered(l), Ordered(Append(l, r)),
         NEW txs, txs \subseteq Committed(l), r.tx_id \notin txs
  PROVE  Replay(Append(l, r), txs) = Replay(l, txs)
<1> DEFINE a == Append(l, r)
<1>1. /\ a \in Seq(Record) /\ Len(a) = Len(l) + 1 /\ a[Len(l) + 1] = r
      /\ \A i \in 1 .. Len(l) : a[i] = l[i]
  OBVIOUS
<1> HIDE DEF a
<1>2. txs \subseteq Committed(a)
  BY <1>1 DEF Committed
<1>3. ASSUME NEW k \in AnyKey PROVE Replay(a, txs)[k] = Replay(l, txs)[k]
  <2>1. OnKey(a, txs, k) = OnKey(l, txs, k)
    BY <1>1 DEF OnKey
  <2>2. \A i \in OnKey(a, txs, k) : a[i].value = l[i].value
    BY <1>1, <2>1 DEF OnKey
  <2>3. Ordered(a)
    BY Zenon DEF a
  <2> QED BY <1>1, <1>2, <2>1, <2>2, <2>3, ReplayAgreeAt
<1>4. Replay(l, txs) = [k \in AnyKey |-> Replay(l, txs)[k]]
  BY DEF Replay
<1> QED BY <1>3, <1>4, ReplayEqual DEF a

(* A log whose last records, after first, are the operations of t and its  *)
(* commit; txs are other committed transactions of it.                     *)
EndsWith(l, first, t, ops, txs) ==
  /\ l \in Seq(Record) /\ Ordered(l) /\ ops \in Seq(Operation)
  /\ txs \subseteq Committed(l) /\ t \in Committed(l) /\ t \notin txs
  /\ first \in Nat /\ Len(l) = first + Len(ops) + 1
  /\ \A i \in 1 .. first : l[i].tx_id # t
  /\ \A i \in 1 .. Len(ops) : l[first + i] = LogRecord(ops[i], t, l[first + i].sequence)
  /\ l[Len(l)].kind = "Commit"

(* Replaying one transaction more, the last of the log, is applying its    *)
(* operations to the map that the others leave.                            *)
LEMMA ReplayApply ==
  ASSUME NEW l, NEW first, NEW t, NEW ops, NEW txs, EndsWith(l, first, t, ops, txs)
  PROVE  Replay(l, txs \cup {t}) = ApplyOperations(Replay(l, txs), ops)
<1> USE DEF EndsWith
<1> DEFINE both == txs \cup {t}
           map == ApplyOperations(Replay(l, txs), ops)
<1>1. both \subseteq Committed(l)
  BY Zenon
<1>2. \A i \in 1 .. Len(ops) :
        /\ l[first + i].tx_id = t /\ IsOp(l[first + i])
        /\ l[first + i].key = ops[i].key /\ l[first + i].value = ops[i].value
  <2> SUFFICES ASSUME NEW i \in 1 .. Len(ops)
               PROVE  /\ l[first + i].tx_id = t /\ IsOp(l[first + i])
                      /\ l[first + i].key = ops[i].key /\ l[first + i].value = ops[i].value
    BY Zenon
  <2> DEFINE r == l[first + i]
             op == ops[i]
  <2>1. op \in Operation /\ r = LogRecord(op, t, r.sequence)
    OBVIOUS
  <2> HIDE DEF r, op
  <2>2. r.tx_id = t /\ r.kind = op.kind /\ r.key = op.key /\ r.value = op.value
    BY <2>1 DEF LogRecord
  <2>3. IsOp(r)
    BY <2>1, <2>2, Zenon DEF IsOp, Operation
  <2> QED BY <2>2, <2>3, Zenon DEF r, op
<1>3. ~IsOp(l[Len(l)])
  BY Zenon DEF IsOp
<1>4. \A i \in 1 .. Len(l) : \/ i \in 1 .. first
                            \/ i - first \in 1 .. Len(ops)
                            \/ i = Len(l)
  OBVIOUS
<1>5. ASSUME NEW k \in AnyKey PROVE Replay(l, both)[k] = map[k]
  <2> DEFINE on == {i \in DOMAIN ops : ops[i].key = k}
  <2>1. map[k] = IF on = {} THEN Replay(l, txs)[k] ELSE ops[Max(on)].value
    BY Zenon DEF ApplyOperations
  <2>2. CASE on = {}
    <3>1. ASSUME NEW i \in OnKey(l, both, k) PROVE i \in OnKey(l, txs, k)
      <4>1. i \in 1 .. Len(l) /\ IsOp(l[i]) /\ l[i].key = k /\ l[i].tx_id \in both
        BY DEF OnKey
      <4>2. CASE i \in 1 .. first
        BY <4>1, <4>2, Zenon DEF OnKey
      <4>3. CASE i - first \in 1 .. Len(ops)
        <5>1. l[first + (i - first)].key = ops[i - first].key
          BY <1>2, <4>3, Zenon
        <5>2. first + (i - first) = i
          BY <4>1
        <5> QED BY <2>2, <4>1, <4>3, <5>1, <5>2
      <4> QED BY <1>3, <1>4, <4>1, <4>2, <4>3, Zenon
    <3>2. OnKey(l, both, k) = OnKey(l, txs, k)
      BY <3>1, Zenon DEF OnKey
    <3>3. Replay(l, both)[k] = Replay(l, txs)[k]
      BY <1>1, <3>2, ReplayAgreeAt, SMTT(30)
    <3> QED BY <2>1, <2>2, <3>3, Zenon
  <2>3. CASE on # {}
    <3> DEFINE m == Max(on)
               j == first + m
    <3>1. m \in on /\ \A i \in on : i <= m
      <4>1. on \subseteq 0 .. Len(ops) /\ Len(ops) \in Nat
        OBVIOUS
      <4> HIDE DEF on
      <4> QED BY <2>3, <4>1, MaxNat, Zenon
    <3>2. m \in 1 .. Len(ops) /\ ops[m].key = k
      BY <3>1
    <3> HIDE DEF m
    <3>3. j \in OnKey(l, both, k) /\ l[j].value = ops[m].value
      BY <1>2, <3>2 DEF OnKey
    <3>4. ASSUME NEW i \in OnKey(l, both, k) PROVE i <= j
      <4>1. i \in 1 .. Len(l) /\ IsOp(l[i]) /\ l[i].key = k
        BY DEF OnKey
      <4>2. CASE i \in 1 .. first
        BY <3>2, <4>2
      <4>3. CASE i - first \in 1 .. Len(ops)
        <5>1. l[first + (i - first)].key = ops[i - first].key
          BY <1>2, <4>3
        <5>2. first + (i - first) = i
          BY <4>1
        <5>3. i - first \in on
          BY <4>1, <4>3, <5>1, <5>2
        <5> QED BY <3>1, <3>2, <4>1, <5>3
      <4> QED BY <1>3, <1>4, <4>1, <4>2, <4>3, Zenon
    <3> HIDE DEF j, both
    <3>5. \A i \in OnKey(l, both, k) : i <= j
      BY <3>4, Zenon
    <3>6. Replay(l, both)[k] = l[j].value
      BY <1>1, <3>3, <3>5, ReplayLast, SMTT(30)
    <3> QED BY <2>1, <2>3, <3>3, <3>6, Zenon DEF m
  <2> QED BY <2>2, <2>3, Zenon
<1>6. map = [k \in AnyKey |-> map[k]]
  BY Zenon DEF ApplyOperations
<1> HIDE DEF map, both
<1>7. \A k \in AnyKey : Replay(l, both)[k] = map[k]
  BY <1>5, Zenon
<1>8. Replay(l, both) = map
  <2>1. Replay(l, both) = [k \in AnyKey |-> Replay(l, both)[k]]
    BY DEF Replay
  <2> DEFINE rep == Replay(l, both)
  <2>2. rep = [k \in AnyKey |-> rep[k]] /\ \A k \in AnyKey : rep[k] = map[k]
    BY <1>7, <2>1, Zenon
  <2> HIDE DEF rep
  <2>3. rep = map
    BY <1>6, <2>2, Zenon
  <2> QED BY <2>3, Zenon DEF rep
<1> QED BY <1>8, Zenon DEF map, both

(* The committed transactions of a longer log.                             *)
LEMMA CommittedAppend ==
  ASSUME NEW l \in Seq(Record), NEW r \in Record
  PROVE  Committed(Append(l, r)) =
           IF r.kind = "Commit" THEN Committed(l) \cup {r.tx_id} ELSE Committed(l)
<1> DEFINE a == Append(l, r)
<1>1. /\ a \in Seq(Record) /\ Len(a) = Len(l) + 1 /\ a[Len(l) + 1] = r
      /\ \A i \in 1 .. Len(l) : a[i] = l[i]
  OBVIOUS
<1> HIDE DEF a
<1>2. \A i \in 1 .. Len(a) : i \in 1 .. Len(l) \/ i = Len(l) + 1
  BY <1>1
<1>3. Committed(a) \subseteq Committed(l) \cup {r.tx_id}
  BY <1>1, <1>2 DEF Committed
<1>4. r.kind # "Commit" => Committed(a) \subseteq Committed(l)
  BY <1>1, <1>2 DEF Committed
<1>5. Committed(l) \subseteq Committed(a)
  BY <1>1 DEF Committed
<1>6. r.kind = "Commit" => r.tx_id \in Committed(a)
  BY <1>1 DEF Committed
<1> QED BY <1>3, <1>4, <1>5, <1>6, Zenon DEF a

=============================================================================
