----------------------------- MODULE QueueProofs -----------------------------
(***************************************************************************)
(* The lease generations of the queue are fencing tokens, and a settled or *)
(* pushed message is never taken back or mixed up, for any number of       *)
(* workers, messages, attempts and commits in doubt.                       *)
(*                                                                         *)
(* None of these properties is inductive: a restart replaces the records   *)
(* in memory by records that only the medium had. So the invariant says of *)
(* every map that a recovery may bring back what it says of memory, and    *)
(* bounds how far an unacknowledged push may have moved the next           *)
(* identifier ahead in the newest one.                                     *)
(***************************************************************************)
EXTENDS Queue, TLAPS

(* A map of records agrees with what callers were told: R receipts, P      *)
(* payloads pushed, S settled leases, G messages perhaps removed.          *)
Agrees(m, R, P, S, G) ==
  /\ RecordsOK(m)
  /\ \A id \in Id : m[id] # NoRecord => id < NextId(m)
  /\ \A id \in Id : P[id] # NoRecord =>
       /\ id < NextId(m)
       /\ m[id] # NoRecord => m[id].payload = P[id]
       /\ id \notin G => m[id] # NoRecord
  /\ \A r \in R :
       /\ r.id < NextId(m)
       /\ m[r.id] # NoRecord => r.generation <= m[r.id].attempts
  /\ \A s \in S :
       /\ s.id < NextId(m)
       /\ m[s.id] # NoRecord => m[s.id].state = "Dead"

HistoryOK(R, P, S, G) ==
  /\ R \subseteq Receipt
  /\ P \in [Id -> Payload \cup {NoRecord}]
  /\ S \subseteq [id: Id, generation: 1 .. MaxAttempts]
  /\ G \subseteq Id

(* Every map that a recovery may find agrees.                              *)
MediumAgrees(q, R, P, S, G) ==
  /\ q \in Seq({q[i] : i \in DOMAIN q})
  /\ q # << >>
  /\ \A i \in 1 .. Len(q) : Agrees(q[i], R, P, S, G)

(* A push in doubt may have moved the next identifier on by one.           *)
NewestAhead == NextId(mem) <= NextId(Newest) /\ NextId(Newest) <= NextId(mem) + 1

IInv ==
  /\ HistoryOK(receipts, pushed, settled, gone)
  /\ Agrees(mem, receipts, pushed, settled, gone)
  /\ MediumAgrees(medium, receipts, pushed, settled, gone)
  /\ NewestAhead
  /\ GenerationsAreUnique
  /\ SettledIsFinal
  /\ DeliveredAsPushed

-----------------------------------------------------------------------------
(* A medium with one map, after a sync.                                    *)
LEMMA SingleMedium ==
  ASSUME NEW m, NEW R, NEW P, NEW S, NEW G, Agrees(m, R, P, S, G)
  PROVE  MediumAgrees(<<m>>, R, P, S, G) /\ <<m>>[Len(<<m>>)] = m
<1>1. <<m>> \in Seq({m}) /\ Len(<<m>>) = 1 /\ <<m>>[1] = m /\ DOMAIN <<m>> = 1 .. 1
  OBVIOUS
<1>2. {<<m>>[i] : i \in DOMAIN <<m>>} = {m}
  BY <1>1
<1>3. \A i \in 1 .. Len(<<m>>) : <<m>>[i] = m
  BY <1>1
<1>. QED
  BY <1>1, <1>2, <1>3, Zenon DEF MediumAgrees

(* A medium with one more map, after a commit in doubt.                    *)
LEMMA AppendMedium ==
  ASSUME NEW q, NEW m, NEW R, NEW P, NEW S, NEW G,
         MediumAgrees(q, R, P, S, G), Agrees(m, R, P, S, G)
  PROVE  MediumAgrees(Append(q, m), R, P, S, G) /\ Append(q, m)[Len(Append(q, m))] = m
<1>. DEFINE T == {q[i] : i \in DOMAIN q} \cup {m}
            a == Append(q, m)
<1>1. q \in Seq(T) /\ m \in T
  BY DEF MediumAgrees
<1>2. /\ a \in Seq(T) /\ Len(a) = Len(q) + 1 /\ DOMAIN a = 1 .. Len(q) + 1
      /\ Len(q) \in Nat
      /\ \A i \in 1 .. Len(q) : a[i] = q[i]
      /\ a[Len(q) + 1] = m
  BY <1>1
<1>3. \A i \in 1 .. Len(q) + 1 : i \in 1 .. Len(q) \/ i = Len(q) + 1
  BY <1>2
<1>4. \A i \in 1 .. Len(a) : Agrees(a[i], R, P, S, G)
  BY <1>2, <1>3, Zenon DEF MediumAgrees
<1>5. a \in Seq({a[i] : i \in DOMAIN a})
  <2>1. \A i \in DOMAIN a : a[i] \in T
    BY <1>2, <1>3
  <2>2. ASSUME NEW x \in T
        PROVE  \E i \in DOMAIN a : a[i] = x
    <3>1. DOMAIN q = 1 .. Len(q)
      BY <1>1
    <3>. QED
      BY <1>2, <3>1
  <2>3. {a[i] : i \in DOMAIN a} = T
    BY <2>1, <2>2, Zenon
  <2>. QED
    BY <1>2, <2>3, Zenon
<1>6. a # << >>
  BY <1>2
<1>. QED
  BY <1>2, <1>4, <1>5, <1>6, Zenon DEF MediumAgrees

(* Removing more messages only weakens what a map must hold.               *)
LEMMA AgreesGone ==
  ASSUME NEW m, NEW R, NEW P, NEW S, NEW G, NEW H, G \subseteq H, Agrees(m, R, P, S, G)
  PROVE  Agrees(m, R, P, S, H)
BY Zenon DEF Agrees

LEMMA MediumGone ==
  ASSUME NEW q, NEW R, NEW P, NEW S, NEW G, NEW H, G \subseteq H, MediumAgrees(q, R, P, S, G)
  PROVE  MediumAgrees(q, R, P, S, H)
BY AgreesGone, Zenon DEF MediumAgrees

(* The newest map agrees and its next identifier is near that of memory.   *)
LEMMA NewestAgrees ==
  ASSUME IInv
  PROVE  /\ Agrees(Newest, receipts, pushed, settled, gone)
         /\ Agrees(mem, receipts, pushed, settled, gone)
         /\ NextId(mem) \in 1 .. MaxId /\ NextId(Newest) \in 1 .. MaxId
         /\ NextId(mem) <= NextId(Newest) /\ NextId(Newest) <= NextId(mem) + 1
         /\ NextId(mem) <= NextId(mem) /\ NextId(mem) <= NextId(mem) + 1
<1>1. medium \in Seq({medium[i] : i \in DOMAIN medium}) /\ medium # << >>
  BY Zenon DEF IInv, MediumAgrees
<1>2. Len(medium) \in 1 .. Len(medium)
  BY <1>1
<1>3. Agrees(Newest, receipts, pushed, settled, gone)
  BY <1>2, Zenon DEF IInv, MediumAgrees, Newest
<1>4. \A m : RecordsOK(m) => NextId(m) \in 1 .. MaxId
  BY QueueAssumption DEF RecordsOK, NextId
<1>5. Agrees(mem, receipts, pushed, settled, gone)
  BY Zenon DEF IInv
<1>6. NextId(mem) \in 1 .. MaxId /\ NextId(Newest) \in 1 .. MaxId
  BY <1>3, <1>4, <1>5, Zenon DEF Agrees
<1>7. NextId(mem) <= NextId(Newest) /\ NextId(Newest) <= NextId(mem) + 1
  BY Zenon DEF IInv, NewestAhead
<1>8. NextId(mem) <= NextId(mem) /\ NextId(mem) <= NextId(mem) + 1
  BY <1>6
<1>. QED
  BY <1>3, <1>5, <1>6, <1>7, <1>8, Zenon

-----------------------------------------------------------------------------
(* The records that claim, nack and dead_letter write.                     *)
LEMMA LeasedFields ==
  ASSUME NEW x \in StoredMessage, NEW u \in Time, x.attempts + 1 \in 0 .. MaxAttempts
  PROVE  LET y == [x EXCEPT !.state = "Leased", !.attempts = @ + 1, !.lease_until_ms = u]
         IN  y \in StoredMessage /\ y.payload = x.payload /\ y.attempts = x.attempts + 1
BY Zenon DEF StoredMessage

LEMMA RequeuedFields ==
  ASSUME NEW x \in StoredMessage, NEW at \in Time, NEW u \in Time
  PROVE  LET y == [x EXCEPT !.state = "Ready", !.available_at_ms = at, !.lease_until_ms = u]
         IN  y \in StoredMessage /\ y.payload = x.payload /\ y.attempts = x.attempts
BY Zenon DEF StoredMessage

LEMMA BuriedFields ==
  ASSUME NEW x \in StoredMessage, NEW u \in Time
  PROVE  LET y == [x EXCEPT !.state = "Dead", !.lease_until_ms = u]
         IN  /\ y \in StoredMessage /\ y.payload = x.payload /\ y.attempts = x.attempts
             /\ y.state = "Dead"
BY Zenon DEF StoredMessage

(* Writing one record that the claim, ack, nack or dead_letter of message  *)
(* id produced keeps a map in agreement.                                   *)
LEMMA UpdateAgrees ==
  ASSUME IInv,
         NEW m, Agrees(m, receipts, pushed, settled, gone),
         NextId(mem) \in 1 .. MaxId, NextId(m) \in 1 .. MaxId, NextId(mem) <= NextId(m),
         NEW id \in Id, mem[id] # NoRecord, mem[id].state # "Dead",
         NEW rec,
         \/ rec = NoRecord
         \/ rec \in StoredMessage /\ rec.payload = mem[id].payload
                                  /\ mem[id].attempts <= rec.attempts,
         NEW R, \A r \in R : \/ r \in receipts
                             \/ r.id = id /\ (rec # NoRecord => r.generation <= rec.attempts),
         NEW S, \A s \in S : \/ s \in settled
                             \/ s.id = id /\ (rec # NoRecord => rec.state = "Dead"),
         NEW G, gone \subseteq G, rec = NoRecord => id \in G
  PROVE  /\ Agrees(Written(m, Write(id, rec)), R, pushed, S, G)
         /\ NextId(Written(m, Write(id, rec))) = NextId(m)
<1>. DEFINE n == Written(m, Write(id, rec))
<1>1. /\ DOMAIN n = RecordKey
      /\ id \in RecordKey /\ Meta \in RecordKey /\ Meta # id
      /\ n[id] = rec /\ n[Meta] = m[Meta]
      /\ \A k \in RecordKey \ {id} : n[k] = m[k]
      /\ \A k \in Id \ {id} : n[k] = m[k]
  BY KeyAssumption DEF Written, Write, Meta, Id
<1>2. NextId(n) = NextId(m)
  BY <1>1, Zenon DEF NextId
<1>. HIDE DEF n
<1>3. RecordsOK(n)
  BY <1>1, Zenon DEF Agrees, RecordsOK
<1>4. id < NextId(mem) /\ id < NextId(m)
  <2>1. id < NextId(mem)
    BY Zenon DEF IInv, Agrees
  <2>. QED
    BY <2>1 DEF Id
<1>5. \A k \in Id : n[k] # NoRecord => k < NextId(n)
  BY <1>1, <1>2, <1>4, Zenon DEF Agrees
<1>6. ASSUME NEW k \in Id, pushed[k] # NoRecord
      PROVE  /\ k < NextId(n)
             /\ n[k] # NoRecord => n[k].payload = pushed[k]
             /\ k \notin G => n[k] # NoRecord
  <2>1. CASE k = id
    BY <2>1, <1>1, <1>2, <1>4, <1>6, Zenon DEF IInv, Agrees
  <2>2. CASE k # id
    BY <2>2, <1>1, <1>2, <1>6, Zenon DEF Agrees
  <2>. QED
    BY <2>1, <2>2, Zenon
<1>7. ASSUME NEW r \in R
      PROVE  r.id < NextId(n) /\ (n[r.id] # NoRecord => r.generation <= n[r.id].attempts)
  <2>1. CASE r.id = id /\ (rec # NoRecord => r.generation <= rec.attempts)
    BY <2>1, <1>1, <1>2, <1>4, Zenon
  <2>2. CASE r \in receipts /\ r.id # id
    <3>1. r.id \in Id
      BY <2>2, Zenon DEF IInv, HistoryOK, Receipt
    <3>. QED
      BY <3>1, <2>2, <1>1, <1>2, Zenon DEF Agrees
  <2>3. CASE r \in receipts /\ r.id = id
    <3>1. r.generation <= mem[id].attempts
      BY <2>3, Zenon DEF IInv, Agrees
    <3>2. r.generation \in Nat
      BY <2>3 DEF IInv, HistoryOK, Receipt
    <3>3. mem[id].attempts \in Nat
      BY DEF IInv, Agrees, RecordsOK, StoredMessage
    <3>4. rec # NoRecord => rec.attempts \in Nat /\ mem[id].attempts <= rec.attempts
      BY DEF StoredMessage
    <3>5. rec # NoRecord => r.generation <= rec.attempts
      BY <3>1, <3>2, <3>3, <3>4
    <3>. QED
      BY <3>5, <2>3, <1>1, <1>2, <1>4, Zenon
  <2>. QED
    BY <2>1, <2>2, <2>3, Zenon
<1>8. ASSUME NEW s \in S
      PROVE  s.id < NextId(n) /\ (n[s.id] # NoRecord => n[s.id].state = "Dead")
  <2>1. CASE s.id = id /\ (rec # NoRecord => rec.state = "Dead")
    BY <2>1, <1>1, <1>2, <1>4, Zenon
  <2>2. CASE s \in settled
    <3>1. s.id \in Id
      BY <2>2, Zenon DEF IInv, HistoryOK
    <3>2. s.id # id
      BY <2>2, Zenon DEF IInv, Agrees
    <3>. QED
      BY <3>1, <3>2, <2>2, <1>1, <1>2, Zenon DEF Agrees
  <2>. QED
    BY <2>1, <2>2, Zenon
<1>9. Agrees(n, R, pushed, S, G)
  BY <1>3, <1>5, <1>6, <1>7, <1>8, Zenon DEF Agrees
<1>. QED
  BY <1>2, <1>9, Zenon DEF n

(* Writing the message and the next identifier of a push does too, whether *)
(* or not the push is acknowledged.                                        *)
LEMMA PushAgrees ==
  ASSUME IInv,
         NEW m, Agrees(m, receipts, pushed, settled, gone),
         NEW id, id = NextId(mem), id \in 1 .. MaxId, id < MaxId,
         NextId(m) \in 1 .. MaxId, id <= NextId(m), NextId(m) <= id + 1,
         NEW message \in StoredMessage,
         NEW P, \/ P = pushed
                \/ P = [pushed EXCEPT ![id] = message.payload]
  PROVE  /\ Agrees(Written(m, PushWrites(id, message)), receipts, P, settled, gone)
         /\ NextId(Written(m, PushWrites(id, message))) = id + 1
<1>. DEFINE n == Written(m, PushWrites(id, message))
<1>1. id \in Id /\ id + 1 \in 1 .. MaxId /\ NoRecord # id + 1 /\ message # NoRecord
  BY QueueAssumption, MessageAssumption DEF Id
<1>2. /\ DOMAIN n = RecordKey
      /\ n[id] = message /\ n[Meta] = id + 1
      /\ \A k \in Id \ {id} : n[k] = m[k]
  BY <1>1, KeyAssumption DEF Written, PushWrites, Meta, Id
<1>3. NextId(n) = id + 1
  BY <1>1, <1>2, Zenon DEF NextId
<1>. HIDE DEF n
<1>4. RecordsOK(n)
  BY <1>1, <1>2, Zenon DEF Agrees, RecordsOK
<1>5. \A k \in Id : k < NextId(m) => k < NextId(n)
  BY <1>1, <1>3 DEF Id
<1>6. \A k \in Id : k < id => k # id /\ k < NextId(n)
  BY <1>1, <1>3 DEF Id
<1>7. \A k \in Id : n[k] # NoRecord => k < NextId(n)
  <2>1. id < NextId(n)
    BY <1>1, <1>3 DEF Id
  <2>. QED
    BY <2>1, <1>2, <1>5, Zenon DEF Agrees
<1>8. ASSUME NEW k \in Id, P[k] # NoRecord
      PROVE  /\ k < NextId(n)
             /\ n[k] # NoRecord => n[k].payload = P[k]
             /\ k \notin gone => n[k] # NoRecord
  <2>1. CASE k = id
    <3>1. pushed[id] = NoRecord
      BY <1>1 DEF IInv, Agrees, Id
    <3>2. P[id] = message.payload
      BY <3>1, <2>1, <1>1, <1>8, Zenon DEF IInv, HistoryOK
    <3>3. id < NextId(n)
      BY <1>1, <1>3 DEF Id
    <3>. QED
      BY <2>1, <3>2, <3>3, <1>1, <1>2, Zenon
  <2>2. CASE k # id
    <3>1. P[k] = pushed[k]
      BY <2>2, <1>1, Zenon DEF IInv, HistoryOK
    <3>. QED
      BY <2>2, <3>1, <1>2, <1>5, <1>8, Zenon DEF Agrees
  <2>. QED
    BY <2>1, <2>2, Zenon
<1>9. ASSUME NEW r \in receipts
      PROVE  r.id < NextId(n) /\ (n[r.id] # NoRecord => r.generation <= n[r.id].attempts)
  <2>1. r.id \in Id /\ r.id < id
    BY Zenon DEF IInv, HistoryOK, Receipt, Agrees
  <2>. QED
    BY <2>1, <1>2, <1>6, Zenon DEF Agrees
<1>10. ASSUME NEW s \in settled
       PROVE  s.id < NextId(n) /\ (n[s.id] # NoRecord => n[s.id].state = "Dead")
  <2>1. s.id \in Id /\ s.id < id
    BY Zenon DEF IInv, HistoryOK, Agrees
  <2>. QED
    BY <2>1, <1>2, <1>6, Zenon DEF Agrees
<1>11. Agrees(n, receipts, P, settled, gone)
  BY <1>4, <1>7, <1>8, <1>9, <1>10, Zenon DEF Agrees
<1>. QED
  BY <1>3, <1>11, Zenon DEF n

(* So does removing a set of messages that callers may find gone.          *)
LEMMA PurgeAgrees ==
  ASSUME NEW m, NEW R \in SUBSET Receipt, NEW P,
         NEW S \in SUBSET [id: Id, generation: 1 .. MaxAttempts], NEW G,
         Agrees(m, R, P, S, G), NEW D \in SUBSET Id
  PROVE  /\ Agrees(Written(m, [k \in D |-> NoRecord]), R, P, S, G \cup D)
         /\ NextId(Written(m, [k \in D |-> NoRecord])) = NextId(m)
<1>. DEFINE n == Written(m, [k \in D |-> NoRecord])
<1>1. /\ DOMAIN n = RecordKey
      /\ n[Meta] = m[Meta]
      /\ \A k \in Id : n[k] = IF k \in D THEN NoRecord ELSE m[k]
  BY KeyAssumption DEF Written, Meta, Id
<1>2. NextId(n) = NextId(m)
  BY <1>1, Zenon DEF NextId
<1>. HIDE DEF n
<1>3. RecordsOK(n)
  BY <1>1, Zenon DEF Agrees, RecordsOK
<1>4. \A r \in R : r.id \in Id
  BY Zenon DEF Receipt
<1>5. \A s \in S : s.id \in Id
  BY Zenon
<1>6. Agrees(n, R, P, S, G \cup D)
  BY <1>1, <1>2, <1>3, <1>4, <1>5, Zenon DEF Agrees
<1>. QED
  BY <1>2, <1>6, Zenon DEF n

-----------------------------------------------------------------------------
(* A commit that returns Ok.                                               *)
LEMMA OkStep ==
  ASSUME NEW w, CommitOk(w),
         HistoryOK(receipts', pushed', settled', gone'),
         Agrees(Written(mem, w), receipts', pushed', settled', gone'),
         Agrees(Written(Newest, w), receipts', pushed', settled', gone'),
         NextId(Written(mem, w)) <= NextId(Written(Newest, w)),
         NextId(Written(Newest, w)) <= NextId(Written(mem, w)) + 1,
         GenerationsAreUnique', SettledIsFinal', DeliveredAsPushed'
  PROVE  IInv'
<1>1. mem' = Written(mem, w) /\ medium' = <<Written(Newest, w)>>
  BY Zenon DEF CommitOk
<1>2. /\ MediumAgrees(medium', receipts', pushed', settled', gone')
      /\ medium'[Len(medium')] = Written(Newest, w)
  BY <1>1, SingleMedium, Zenon
<1>3. NewestAhead'
  BY <1>1, <1>2, Zenon DEF NewestAhead, Newest
<1>. QED
  BY <1>1, <1>2, <1>3, Zenon DEF IInv

(* A commit whose sync fails: callers learn nothing.                       *)
LEMMA DoubtStep ==
  ASSUME IInv, NEW w, CommitInDoubt(w),
         UNCHANGED <<receipts, pushed, settled>>, gone \subseteq gone', gone' \subseteq Id,
         Agrees(Written(Newest, w), receipts, pushed, settled, gone'),
         NextId(mem) <= NextId(Written(Newest, w)),
         NextId(Written(Newest, w)) <= NextId(mem) + 1
  PROVE  IInv'
<1>1. mem' = mem /\ medium' = Append(medium, Written(Newest, w))
  BY Zenon DEF CommitInDoubt
<1>2. MediumAgrees(medium, receipts, pushed, settled, gone')
  BY MediumGone, Zenon DEF IInv
<1>3. /\ MediumAgrees(medium', receipts, pushed, settled, gone')
      /\ medium'[Len(medium')] = Written(Newest, w)
  BY <1>1, <1>2, AppendMedium, Zenon
<1>4. Agrees(mem', receipts, pushed, settled, gone')
  BY <1>1, AgreesGone, Zenon DEF IInv
<1>5. NewestAhead'
  BY <1>1, <1>3, Zenon DEF NewestAhead, Newest
<1>6. HistoryOK(receipts, pushed, settled, gone')
  BY Zenon DEF IInv, HistoryOK
<1>7. GenerationsAreUnique' /\ SettledIsFinal' /\ DeliveredAsPushed'
  BY Zenon DEF IInv, GenerationsAreUnique, SettledIsFinal, DeliveredAsPushed
<1>. QED
  BY <1>3, <1>4, <1>5, <1>6, <1>7, Zenon DEF IInv

-----------------------------------------------------------------------------
(* The initial state and each action.                                      *)

LEMMA IInvInit == Init => IInv
<1>. SUFFICES ASSUME Init PROVE IInv
  BY Zenon
<1>1. /\ DOMAIN mem = RecordKey /\ Meta \in RecordKey /\ mem[Meta] = NoRecord
      /\ \A id \in Id : mem[id] = NoRecord /\ pushed[id] = NoRecord
  BY KeyAssumption, Zenon DEF Init, InitRecords
<1>2. NextId(mem) = 1
  BY <1>1, Zenon DEF NextId
<1>3. Agrees(mem, receipts, pushed, settled, gone)
  BY <1>1, Zenon DEF Agrees, RecordsOK, Init
<1>4. /\ MediumAgrees(medium, receipts, pushed, settled, gone)
      /\ Newest = mem
  BY <1>3, SingleMedium, Zenon DEF Init, InitRecords, Newest
<1>5. HistoryOK(receipts, pushed, settled, gone)
  BY Zenon DEF Init, HistoryOK
<1>6. NewestAhead
  BY <1>2, <1>4 DEF NewestAhead
<1>. QED
  BY <1>3, <1>4, <1>5, <1>6, Zenon
     DEF IInv, Init, GenerationsAreUnique, SettledIsFinal, DeliveredAsPushed

LEMMA IInvPush ==
  ASSUME IInv, NEW payload \in Payload, NEW priority \in Priority, NEW at \in Time,
         Push(payload, priority, at)
  PROVE  IInv'
<1>. DEFINE id == NextId(mem)
            message == NewMessage(payload, priority, at)
            w == PushWrites(id, message)
            P == [pushed EXCEPT ![id] = payload]
<1>1. message \in StoredMessage /\ message.payload = payload
  BY QueueAssumption DEF NewMessage, StoredMessage, Time
<1>2. id \in 1 .. MaxId /\ id < MaxId /\ id \in Id
  BY NewestAgrees, QueueAssumption DEF Push, Id
<1>3. /\ id <= NextId(Newest) /\ NextId(Newest) <= id + 1 /\ id <= id + 1
      /\ NextId(Newest) \in 1 .. MaxId
      /\ Agrees(Newest, receipts, pushed, settled, gone)
      /\ Agrees(mem, receipts, pushed, settled, gone)
  BY NewestAgrees, Zenon
<1>. HIDE DEF message
<1>4. \A Q : Q = pushed \/ Q = P =>
        /\ Agrees(Written(mem, w), receipts, Q, settled, gone) /\ NextId(Written(mem, w)) = id + 1
        /\ Agrees(Written(Newest, w), receipts, Q, settled, gone)
        /\ NextId(Written(Newest, w)) = id + 1
  BY <1>1, <1>2, <1>3, PushAgrees
<1>5. UNCHANGED <<receipts, settled, gone>>
  BY Zenon DEF Push
<1>. HIDE DEF id, w, P
<1>6. CASE CommitOk(w) /\ pushed' = P
  <2>1. HistoryOK(receipts', pushed', settled', gone')
    BY <1>2, <1>5, <1>6, Zenon DEF IInv, HistoryOK, P
  <2>2. GenerationsAreUnique' /\ SettledIsFinal'
    BY <1>5, Zenon DEF IInv, GenerationsAreUnique, SettledIsFinal
  <2>3. DeliveredAsPushed'
    <3>1. \A r \in receipts : r.id \in Id /\ r.id < id
      BY Zenon DEF IInv, HistoryOK, Receipt, Agrees, id
    <3>2. \A r \in receipts : pushed'[r.id] = pushed[r.id]
      BY <3>1, <1>2, <1>6 DEF P, IInv, HistoryOK, Id
    <3>. QED
      BY <3>2, <1>5, Zenon DEF IInv, DeliveredAsPushed
  <2>. QED
    BY <2>1, <2>2, <2>3, <1>2, <1>4, <1>5, <1>6, OkStep
<1>7. CASE CommitInDoubt(w) /\ UNCHANGED pushed
  <2>1. gone' \subseteq Id
    BY <1>5, Zenon DEF IInv, HistoryOK
  <2>. QED
    BY <2>1, <1>2, <1>4, <1>5, <1>7, DoubtStep DEF id
<1>. QED
  BY <1>6, <1>7, Zenon DEF Push, id, message, w, P

LEMMA IInvClaim ==
  ASSUME IInv, NEW worker \in Worker, NEW now \in Time, NEW lease \in Time,
         Claim(worker, now, lease)
  PROVE  IInv'
<1>1. PICK id \in Present :
        LET message == Leased(id, now + lease)
        IN  /\ now + lease <= MaxTime
            /\ Eligible(id, now)
            /\ AttemptLeft(id)
            /\ \/ /\ CommitOk(Write(id, message))
                  /\ receipts' = receipts \cup
                       {[worker |-> worker, id |-> id, generation |-> message.attempts,
                         payload |-> message.payload]}
               \/ CommitInDoubt(Write(id, message)) /\ UNCHANGED receipts
            /\ UNCHANGED <<pushed, settled, gone>>
  BY Zenon DEF Claim
<1>. DEFINE message == Leased(id, now + lease)
            r == [worker |-> worker, id |-> id, generation |-> message.attempts,
                  payload |-> message.payload]
            w == Write(id, message)
<1>2. id \in Id /\ mem[id] # NoRecord /\ mem[id] \in StoredMessage /\ mem[id].state # "Dead"
  BY <1>1, Zenon DEF Present, IInv, Agrees, RecordsOK, Eligible
<1>3. /\ message \in StoredMessage /\ message.payload = mem[id].payload
      /\ message.attempts = mem[id].attempts + 1
      /\ mem[id].attempts \in Nat /\ message.attempts \in 1 .. MaxAttempts
  <2>1. now + lease \in Time
    BY <1>1, QueueAssumption DEF Time
  <2>2. mem[id].attempts + 1 \in 1 .. MaxAttempts /\ mem[id].attempts \in Nat
    BY <1>1, <1>2, QueueAssumption DEF StoredMessage, AttemptLeft
  <2>3. mem[id].attempts + 1 \in 0 .. MaxAttempts
    BY <2>2
  <2>. QED
    BY <1>2, <2>1, <2>2, <2>3, LeasedFields, Zenon DEF Leased
<1>4. r \in Receipt /\ r.id = id /\ r.generation = message.attempts /\ r.payload = mem[id].payload
  BY <1>2, <1>3, Zenon DEF Receipt, StoredMessage
<1>. HIDE DEF message, r
<1>5. UNCHANGED <<pushed, settled, gone>>
  BY <1>1, Zenon
<1>6. /\ message # NoRecord
      /\ mem[id].attempts <= message.attempts /\ r.generation <= message.attempts
  BY <1>3, <1>4, MessageAssumption
<1>7. /\ NextId(mem) \in 1 .. MaxId /\ NextId(Newest) \in 1 .. MaxId
      /\ NextId(mem) <= NextId(Newest) /\ NextId(Newest) <= NextId(mem) + 1
      /\ NextId(mem) <= NextId(mem) /\ NextId(mem) <= NextId(mem) + 1
      /\ Agrees(Newest, receipts, pushed, settled, gone)
      /\ Agrees(mem, receipts, pushed, settled, gone)
  BY NewestAgrees, Zenon
<1>8. ASSUME NEW R, R \subseteq receipts \cup {r}
      PROVE  /\ Agrees(Written(mem, w), R, pushed, settled, gone)
             /\ NextId(Written(mem, w)) = NextId(mem)
             /\ Agrees(Written(Newest, w), R, pushed, settled, gone)
             /\ NextId(Written(Newest, w)) = NextId(Newest)
  <2>1. \A q \in R : \/ q \in receipts
                     \/ q.id = id /\ (message # NoRecord => q.generation <= message.attempts)
    BY <1>4, <1>6, <1>8, Zenon
  <2>. QED
    BY <2>1, <1>2, <1>3, <1>6, <1>7, UpdateAgrees, Zenon
<1>. HIDE DEF w
<1>9. CASE CommitOk(w) /\ receipts' = receipts \cup {r}
  <2>1. HistoryOK(receipts', pushed', settled', gone')
    BY <1>4, <1>5, <1>9, Zenon DEF IInv, HistoryOK
  <2>2. \A q \in receipts : q.id = id => q.generation < r.generation
    <3>1. \A q \in receipts : q.generation \in Nat
      BY DEF IInv, HistoryOK, Receipt
    <3>2. \A q \in receipts : q.id = id => q.generation <= mem[id].attempts
      BY <1>2, Zenon DEF IInv, Agrees
    <3>. QED
      BY <3>1, <3>2, <1>3, <1>4
  <2>3. GenerationsAreUnique'
    <3>1. \A q \in receipts : q.id = id => q.generation # r.generation
      <4>1. \A q \in receipts : q.generation \in Nat
        BY DEF IInv, HistoryOK, Receipt
      <4>. QED
        BY <4>1, <2>2, <1>3, <1>4
    <3>. QED
      BY <3>1, <1>4, <1>9, Zenon DEF IInv, GenerationsAreUnique
  <2>4. SettledIsFinal'
    <3>1. \A s \in settled : s.id # id
      BY <1>2, Zenon DEF IInv, Agrees
    <3>. QED
      BY <3>1, <1>4, <1>5, <1>9, Zenon DEF IInv, SettledIsFinal
  <2>5. DeliveredAsPushed'
    <3>1. pushed[id] \in {NoRecord, r.payload}
      BY <1>2, <1>4, Zenon DEF IInv, Agrees
    <3>. QED
      BY <3>1, <1>4, <1>5, <1>9, Zenon DEF IInv, DeliveredAsPushed
  <2>6. /\ Agrees(Written(mem, w), receipts', pushed', settled', gone')
        /\ Agrees(Written(Newest, w), receipts', pushed', settled', gone')
        /\ NextId(Written(mem, w)) <= NextId(Written(Newest, w))
        /\ NextId(Written(Newest, w)) <= NextId(Written(mem, w)) + 1
    BY <1>5, <1>7, <1>8, <1>9, Zenon
  <2>. QED
    BY <2>1, <2>3, <2>4, <2>5, <2>6, <1>9, OkStep, Zenon
<1>10. CASE CommitInDoubt(w) /\ UNCHANGED receipts
  <2>1. gone' \subseteq Id
    BY <1>5, Zenon DEF IInv, HistoryOK
  <2>2. /\ Agrees(Written(Newest, w), receipts, pushed, settled, gone)
        /\ NextId(Written(Newest, w)) = NextId(Newest)
    BY <1>8, Zenon
  <2>. QED
    BY <2>1, <2>2, <1>5, <1>7, <1>10, DoubtStep, Zenon
<1>. QED
  BY <1>1, <1>9, <1>10, Zenon DEF message, r, w

(* What validate_lease establishes about the message of a receipt.         *)
LEMMA HeldLease ==
  ASSUME IInv, NEW r \in receipts, ValidateLease(r.id, r.generation)
  PROVE  /\ r.id \in Id /\ mem[r.id] # NoRecord
         /\ mem[r.id] \in StoredMessage /\ mem[r.id].state # "Dead"
         /\ mem[r.id].attempts \in Nat
         /\ Settlement(r) \in [id: Id, generation: 1 .. MaxAttempts]
         /\ \A q \in receipts : q.id = r.id => q.generation <= r.generation
<1>1. r \in Receipt
  BY Zenon DEF IInv, HistoryOK
<1>2. r.id \in Id /\ r.generation \in 1 .. MaxAttempts
  BY <1>1, Zenon DEF Receipt
<1>3. mem[r.id] # NoRecord /\ mem[r.id].state # "Dead" /\ mem[r.id].attempts = r.generation
  BY Zenon DEF ValidateLease
<1>4. mem[r.id] \in StoredMessage
  BY <1>2, <1>3, Zenon DEF IInv, Agrees, RecordsOK
<1>5. mem[r.id].attempts \in Nat
  BY <1>4 DEF StoredMessage
<1>6. Settlement(r) \in [id: Id, generation: 1 .. MaxAttempts]
  BY <1>2, Zenon DEF Settlement
<1>7. \A q \in receipts : q.id = r.id => q.generation <= r.generation
  BY <1>3, Zenon DEF IInv, Agrees
<1>. QED
  BY <1>2, <1>3, <1>4, <1>5, <1>6, <1>7, Zenon

(* What ack, nack and dead_letter have in common: they write rec over the  *)
(* message of receipt r and, when they settle it, record that.             *)
Settles(r, rec) ==
  /\ ValidateLease(r.id, r.generation)
  /\ \/ rec = NoRecord
     \/ rec \in StoredMessage /\ rec.payload = mem[r.id].payload
                              /\ rec.attempts = mem[r.id].attempts
  /\ UNCHANGED <<receipts, pushed>>
  /\ gone \subseteq gone' /\ gone' \subseteq Id
  /\ rec = NoRecord => r.id \in gone'
  /\ \/ /\ CommitOk(Write(r.id, rec))
        /\ \/ settled' = settled
           \/ /\ settled' = settled \cup {Settlement(r)}
              /\ rec # NoRecord => rec.state = "Dead"
     \/ CommitInDoubt(Write(r.id, rec)) /\ UNCHANGED settled

LEMMA SettleStep ==
  ASSUME IInv, NEW r \in receipts, NEW rec, Settles(r, rec)
  PROVE  IInv'
<1>. USE DEF Settles
<1>. DEFINE w == Write(r.id, rec)
<1>1. /\ r.id \in Id /\ mem[r.id] # NoRecord
      /\ mem[r.id] \in StoredMessage /\ mem[r.id].state # "Dead" /\ mem[r.id].attempts \in Nat
      /\ Settlement(r) \in [id: Id, generation: 1 .. MaxAttempts]
      /\ \A q \in receipts : q.id = r.id => q.generation <= r.generation
  BY HeldLease, Zenon
<1>2. /\ NextId(mem) \in 1 .. MaxId /\ NextId(Newest) \in 1 .. MaxId
      /\ NextId(mem) <= NextId(Newest) /\ NextId(Newest) <= NextId(mem) + 1
      /\ NextId(mem) <= NextId(mem) /\ NextId(mem) <= NextId(mem) + 1
      /\ Agrees(Newest, receipts, pushed, settled, gone)
      /\ Agrees(mem, receipts, pushed, settled, gone)
  BY NewestAgrees, Zenon
<1>3. \/ rec = NoRecord
      \/ rec \in StoredMessage /\ rec.payload = mem[r.id].payload
                               /\ mem[r.id].attempts <= rec.attempts
  <2>1. mem[r.id].attempts <= mem[r.id].attempts
    BY <1>1
  <2>. QED
    BY <2>1, Zenon
<1>4. ASSUME NEW S, \/ S = settled
                    \/ /\ S = settled \cup {Settlement(r)}
                       /\ rec # NoRecord => rec.state = "Dead"
      PROVE  /\ Agrees(Written(mem, w), receipts, pushed, S, gone')
             /\ NextId(Written(mem, w)) = NextId(mem)
             /\ Agrees(Written(Newest, w), receipts, pushed, S, gone')
             /\ NextId(Written(Newest, w)) = NextId(Newest)
  <2>1. \A s \in S : \/ s \in settled
                     \/ s.id = r.id /\ (rec # NoRecord => rec.state = "Dead")
    <3>1. Settlement(r).id = r.id
      BY Zenon DEF Settlement
    <3>. QED
      BY <1>4, <3>1, Zenon
  <2>2. \A q \in receipts : \/ q \in receipts
                            \/ q.id = r.id /\ (rec # NoRecord => q.generation <= rec.attempts)
    BY Zenon
  <2>. QED
    BY <2>1, <2>2, <1>1, <1>2, <1>3, UpdateAgrees, Zenon
<1>. HIDE DEF w
<1>5. CASE /\ CommitOk(w)
           /\ \/ settled' = settled
              \/ /\ settled' = settled \cup {Settlement(r)}
                 /\ rec # NoRecord => rec.state = "Dead"
  <2>1. HistoryOK(receipts', pushed', settled', gone')
    BY <1>1, <1>5, Zenon DEF IInv, HistoryOK
  <2>2. GenerationsAreUnique' /\ DeliveredAsPushed'
    BY Zenon DEF IInv, GenerationsAreUnique, DeliveredAsPushed
  <2>3. SettledIsFinal'
    <3>1. Settlement(r).id = r.id /\ Settlement(r).generation = r.generation
      BY Zenon DEF Settlement
    <3>2. \A s \in settled' : s \in settled \/ s = Settlement(r)
      BY <1>5, Zenon
    <3>. QED
      BY <1>1, <3>1, <3>2, Zenon DEF IInv, SettledIsFinal
  <2>4. /\ Agrees(Written(mem, w), receipts', pushed', settled', gone')
        /\ Agrees(Written(Newest, w), receipts', pushed', settled', gone')
        /\ NextId(Written(mem, w)) <= NextId(Written(Newest, w))
        /\ NextId(Written(Newest, w)) <= NextId(Written(mem, w)) + 1
    BY <1>2, <1>4, <1>5, Zenon
  <2>. QED
    BY <2>1, <2>2, <2>3, <2>4, <1>5, OkStep, Zenon
<1>6. CASE CommitInDoubt(w) /\ UNCHANGED settled
  <2>1. /\ Agrees(Written(Newest, w), receipts, pushed, settled, gone')
        /\ NextId(Written(Newest, w)) = NextId(Newest)
    BY <1>4, Zenon
  <2>. QED
    BY <2>1, <1>2, <1>6, DoubtStep, Zenon
<1>. QED
  BY <1>5, <1>6, Zenon DEF w

LEMMA IInvAck ==
  ASSUME IInv, NEW r \in receipts, Ack(r)
  PROVE  IInv'
<1>1. ValidateLease(r.id, r.generation) /\ UNCHANGED <<receipts, pushed>> /\ gone' = gone \cup {r.id}
  BY Zenon DEF Ack
<1>2. gone' \subseteq Id
  BY <1>1, HeldLease, Zenon DEF IInv, HistoryOK
<1>. QED
  <2>1. Settles(r, NoRecord)
    BY <1>1, <1>2, Zenon DEF Settles, Ack
  <2>. QED
    BY <2>1, SettleStep, Zenon

LEMMA IInvNack ==
  ASSUME IInv, NEW r \in receipts, NEW at \in Time, Nack(r, at)
  PROVE  IInv'
<1>. DEFINE rec == Requeued(r.id, at)
<1>1. ValidateLease(r.id, r.generation) /\ UNCHANGED <<receipts, pushed, settled, gone>>
  BY Zenon DEF Nack, history
<1>2. rec \in StoredMessage /\ rec.payload = mem[r.id].payload /\ rec.attempts = mem[r.id].attempts
  <2>1. 0 \in Time
    BY QueueAssumption DEF Time
  <2>2. mem[r.id] \in StoredMessage
    BY <1>1, HeldLease, Zenon
  <2>. DEFINE x == mem[r.id]
  <2>3. rec = [x EXCEPT !.state = "Ready", !.available_at_ms = at, !.lease_until_ms = 0]
    BY Zenon DEF Requeued
  <2>. HIDE DEF x, rec
  <2>4. x \in StoredMessage
    BY <2>2, Zenon DEF x
  <2>5. rec \in StoredMessage /\ rec.payload = x.payload /\ rec.attempts = x.attempts
    BY <2>1, <2>3, <2>4, RequeuedFields, Zenon
  <2>. QED
    BY <2>5, Zenon DEF x
<1>3. rec # NoRecord /\ gone' \subseteq Id
  BY <1>1, <1>2, MessageAssumption, Zenon DEF IInv, HistoryOK
<1>4. \/ CommitOk(Write(r.id, rec)) /\ settled' = settled
      \/ CommitInDoubt(Write(r.id, rec)) /\ UNCHANGED settled
  BY <1>1, Zenon DEF Nack
<1>5. UNCHANGED <<receipts, pushed>> /\ gone \subseteq gone'
  BY <1>1, Zenon
<1>6. ValidateLease(r.id, r.generation)
  BY <1>1, Zenon
<1>. HIDE DEF rec
<1>. QED
  <2>1. Settles(r, rec)
    BY <1>2, <1>3, <1>4, <1>5, <1>6, Zenon DEF Settles
  <2>. QED
    BY <2>1, SettleStep, Zenon

LEMMA IInvDeadLetter ==
  ASSUME IInv, NEW r \in receipts, DeadLetter(r)
  PROVE  IInv'
<1>. DEFINE rec == Buried(r.id)
<1>1. ValidateLease(r.id, r.generation) /\ UNCHANGED <<receipts, pushed, gone>>
  BY Zenon DEF DeadLetter
<1>2. /\ rec \in StoredMessage /\ rec.payload = mem[r.id].payload
      /\ rec.attempts = mem[r.id].attempts /\ rec.state = "Dead"
  <2>1. 0 \in Time
    BY QueueAssumption DEF Time
  <2>2. mem[r.id] \in StoredMessage
    BY <1>1, HeldLease, Zenon
  <2>. DEFINE x == mem[r.id]
  <2>3. rec = [x EXCEPT !.state = "Dead", !.lease_until_ms = 0]
    BY Zenon DEF Buried
  <2>. HIDE DEF x, rec
  <2>4. x \in StoredMessage
    BY <2>2, Zenon DEF x
  <2>5. rec \in StoredMessage /\ rec.payload = x.payload /\ rec.attempts = x.attempts /\ rec.state = "Dead"
    BY <2>1, <2>3, <2>4, BuriedFields, Zenon
  <2>. QED
    BY <2>5, Zenon DEF x
<1>3. rec # NoRecord /\ gone' \subseteq Id
  BY <1>1, <1>2, MessageAssumption, Zenon DEF IInv, HistoryOK
<1>4. \/ CommitOk(Write(r.id, rec)) /\ settled' = settled \cup {Settlement(r)}
      \/ CommitInDoubt(Write(r.id, rec)) /\ UNCHANGED settled
  BY Zenon DEF DeadLetter
<1>. HIDE DEF rec
<1>. QED
  <2>1. Settles(r, rec)
    BY <1>1, <1>2, <1>3, <1>4, Zenon DEF Settles
  <2>. QED
    BY <2>1, SettleStep, Zenon

LEMMA IInvPurgeDead ==
  ASSUME IInv, PurgeDead
  PROVE  IInv'
<1>. DEFINE D == {id \in Present : mem[id].state = "Dead"}
            w == [k \in D |-> NoRecord]
<1>1. /\ CommitOk(w) \/ CommitInDoubt(w)
      /\ gone' = gone \cup D
      /\ UNCHANGED <<receipts, pushed, settled>>
  BY Zenon DEF PurgeDead
<1>2. D \subseteq Id
  BY Zenon DEF Present
<1>3. /\ NextId(mem) \in 1 .. MaxId /\ NextId(Newest) \in 1 .. MaxId
      /\ NextId(mem) <= NextId(Newest) /\ NextId(Newest) <= NextId(mem) + 1
      /\ Agrees(Newest, receipts, pushed, settled, gone)
      /\ Agrees(mem, receipts, pushed, settled, gone)
  BY NewestAgrees, Zenon
<1>. HIDE DEF D
<1>4. /\ receipts \in SUBSET Receipt
      /\ settled \in SUBSET [id: Id, generation: 1 .. MaxAttempts]
      /\ gone \subseteq Id
  BY Zenon DEF IInv, HistoryOK
<1>5. /\ Agrees(Written(mem, w), receipts, pushed, settled, gone')
      /\ NextId(Written(mem, w)) = NextId(mem)
      /\ Agrees(Written(Newest, w), receipts, pushed, settled, gone')
      /\ NextId(Written(Newest, w)) = NextId(Newest)
  BY <1>1, <1>2, <1>3, <1>4, PurgeAgrees, Zenon
<1>. HIDE DEF w
<1>6. HistoryOK(receipts', pushed', settled', gone')
  BY <1>1, <1>2, Zenon DEF IInv, HistoryOK
<1>7. GenerationsAreUnique' /\ SettledIsFinal' /\ DeliveredAsPushed'
  BY <1>1, Zenon DEF IInv, GenerationsAreUnique, SettledIsFinal, DeliveredAsPushed
<1>8. CASE CommitOk(w)
  <2>1. /\ Agrees(Written(mem, w), receipts', pushed', settled', gone')
        /\ Agrees(Written(Newest, w), receipts', pushed', settled', gone')
    BY <1>1, <1>5, Zenon
  <2>. QED
    BY <2>1, <1>3, <1>5, <1>6, <1>7, <1>8, OkStep, Zenon
<1>9. CASE CommitInDoubt(w)
  BY <1>1, <1>2, <1>3, <1>4, <1>5, <1>9, DoubtStep, Zenon
<1>. QED
  BY <1>1, <1>8, <1>9, Zenon

(* Flush, Restart and PowerLoss bring back maps that already agree.        *)
LEMMA IInvFailures ==
  ASSUME IInv, Flush \/ Restart \/ PowerLoss, UNCHANGED history
  PROVE  IInv'
<1>1. UNCHANGED <<receipts, pushed, settled, gone>>
  BY Zenon DEF history
<1>2. /\ HistoryOK(receipts, pushed, settled, gone)'
      /\ GenerationsAreUnique' /\ SettledIsFinal' /\ DeliveredAsPushed'
  BY <1>1, Zenon DEF IInv, HistoryOK, GenerationsAreUnique, SettledIsFinal, DeliveredAsPushed
<1>3. /\ Agrees(Newest, receipts, pushed, settled, gone)
      /\ NextId(Newest) \in 1 .. MaxId /\ NextId(mem) \in 1 .. MaxId
  BY NewestAgrees, Zenon
<1>4. CASE Flush
  <2>1. mem' = mem /\ medium' = <<Newest>>
    BY <1>4, Zenon DEF Flush
  <2>2. /\ MediumAgrees(medium', receipts, pushed, settled, gone)
        /\ medium'[Len(medium')] = Newest
    BY <2>1, <1>3, SingleMedium, Zenon
  <2>3. NewestAhead'
    BY <2>1, <2>2, Zenon DEF IInv, NewestAhead, Newest
  <2>. QED
    BY <2>1, <2>2, <2>3, <1>1, <1>2, Zenon DEF IInv
<1>5. CASE Restart
  <2>1. mem' = Newest /\ medium' = medium
    BY <1>5, Zenon DEF Restart
  <2>2. Newest' = Newest
    BY <2>1, Zenon DEF Newest
  <2>3. NewestAhead'
    BY <2>1, <2>2, <1>3 DEF NewestAhead
  <2>. QED
    BY <2>1, <2>3, <1>1, <1>2, <1>3, Zenon DEF IInv
<1>6. CASE PowerLoss
  <2>1. PICK i \in 1 .. Len(medium) : mem' = medium[i] /\ medium' = <<medium[i]>>
    BY <1>6, Zenon DEF PowerLoss
  <2>2. Agrees(medium[i], receipts, pushed, settled, gone)
    BY Zenon DEF IInv, MediumAgrees
  <2>3. /\ MediumAgrees(medium', receipts, pushed, settled, gone)
        /\ medium'[Len(medium')] = medium[i]
    BY <2>1, <2>2, SingleMedium, Zenon
  <2>4. NextId(medium[i]) \in 1 .. MaxId
    BY <2>2, QueueAssumption DEF Agrees, RecordsOK, NextId
  <2>5. NewestAhead'
    BY <2>1, <2>3, <2>4 DEF NewestAhead, Newest
  <2>. QED
    BY <2>1, <2>2, <2>3, <2>5, <1>1, <1>2, Zenon DEF IInv
<1>. QED
  BY <1>4, <1>5, <1>6, Zenon

LEMMA IInvNext == IInv /\ [Next]_vars => IInv'
<1>. SUFFICES ASSUME IInv, [Next]_vars PROVE IInv'
  BY Zenon
<1>1. CASE UNCHANGED vars
  <2>1. UNCHANGED <<mem, medium, receipts, pushed, settled, gone>>
    BY <1>1, Zenon DEF vars, history
  <2>. QED
    BY <2>1, Zenon DEF IInv, NewestAhead, Newest, GenerationsAreUnique, SettledIsFinal,
                DeliveredAsPushed
<1>2. CASE Next
  BY <1>2, IInvPush, IInvClaim, IInvAck, IInvNack, IInvDeadLetter, IInvPurgeDead,
     IInvFailures, Zenon DEF Next
<1>. QED
  BY <1>1, <1>2, Zenon

LEMMA QueueInvariant == Spec => []IInv
BY IInvInit, IInvNext, PTL DEF Spec

(* Identifiers, attempts and lease times stay within their widths, in      *)
(* memory and in whatever a recovery may bring back.                       *)
THEOREM QueueTypeCorrect == Spec => []TypeOK
<1>1. ASSUME IInv PROVE TypeOK
  <2>1. RecordsOK(mem) /\ HistoryOK(receipts, pushed, settled, gone)
    BY <1>1, Zenon DEF IInv, Agrees
  <2>2. medium \in Seq({medium[i] : i \in DOMAIN medium}) /\ medium # << >>
    BY <1>1, Zenon DEF IInv, MediumAgrees
  <2>3. DOMAIN medium = 1 .. Len(medium)
    BY <2>2
  <2>4. \A i \in DOMAIN medium : RecordsOK(medium[i])
    BY <1>1, <2>3, Zenon DEF IInv, MediumAgrees, Agrees
  <2>. QED
    BY <2>1, <2>2, <2>4, Zenon DEF TypeOK, HistoryOK
<1>. QED
  BY <1>1, QueueInvariant, PTL

(* The lease generation that claim returns is a fencing token: no other    *)
(* claim of the message ever gets it, across restarts, losses of power and *)
(* commits in doubt.                                                       *)
THEOREM ClaimsAreFenced == Spec => []GenerationsAreUnique
<1>1. IInv => GenerationsAreUnique
  BY Zenon DEF IInv
<1>. QED
  BY <1>1, QueueInvariant, PTL

(* A message that ack or dead_letter settled was not, and never will be,   *)
(* delivered under a newer generation.                                     *)
THEOREM SettlementsAreFinal == Spec => []SettledIsFinal
<1>1. IInv => SettledIsFinal
  BY Zenon DEF IInv
<1>. QED
  BY <1>1, QueueInvariant, PTL

(* A message whose push returned stays, with its payload, until an ack or  *)
(* purge_dead asks for its removal.                                        *)
THEOREM PushedMessagesAreKept == Spec => []PushedIsKept
<1>1. IInv => PushedIsKept
  BY Zenon DEF IInv, Agrees, PushedIsKept
<1>. QED
  BY <1>1, QueueInvariant, PTL

(* claim returns the payload that push was given for that identifier: an   *)
(* identifier is never reused for another acknowledged message.            *)
THEOREM DeliveriesMatchPushes == Spec => []DeliveredAsPushed
<1>1. IInv => DeliveredAsPushed
  BY Zenon DEF IInv
<1>. QED
  BY <1>1, QueueInvariant, PTL

=============================================================================
