--------------------------- MODULE MessagingProofs ---------------------------
(***************************************************************************)
(* Streams keep every entry that an append reported and have no holes, and *)
(* the leases of consumer groups are fenced, beside everything else that   *)
(* happens in the Store, for any number of streams, entries, groups,       *)
(* consumers, transactions and commits in doubt.                           *)
(*                                                                         *)
(* Each step of Messaging is one of a few forms (StepOf): a transaction    *)
(* with some writes, an operation staged in a Transaction, a reopening, a  *)
(* copy, or a step that only reads. Which records it writes is told by the *)
(* first component of their keys, so that an invariant about the records   *)
(* of one primitive need not know the others.                              *)
(***************************************************************************)
EXTENDS Messaging, TLAPS, FiniteSetTheorems

(* The writes w and the facts F are of the kinds K and L.                  *)
OfKinds(w, F, K, L) ==
  /\ \A k \in DOMAIN w : k[1] \in K
  /\ \A f \in F : f[1] \in L

AppendKinds == {"next", "entry"}
AppendFacts == {"appended"}
SubscriptionKinds == {"subscription"}
SubscriptionFacts == {"polled", "acknowledged", "reset"}
FeedKinds == {"last", "change", "event", "request", "response"}
FeedFacts ==
  {"emitted", "acked", "requested", "responded", "consumed", "changed", "pruned", "copied"}

(* A step of the kinds K and L that is no Commit of a Transaction.         *)
StepOf(K, L) ==
  \/ /\ \E w, facts, asked, next :
          OfKinds(w, facts \cup asked, K, L) /\ Commits(w, facts, asked, next)
     /\ stage = NoTx /\ stage' = stage
  \/ \E w, facts : OfKinds(w, facts, K, L) /\ Staged(w, facts)
  \/ \E w : OfKinds(w, {}, K, L) /\ BeginWith(w)
  \/ \E w, facts : /\ OfKinds(w, facts, K, L)
                   /\ mem' = Written(mem, w)
                   /\ medium' = <<mem'>>
                   /\ told' = told \cup facts /\ doubted' = doubted
                   /\ stage = NoTx /\ stage' = stage /\ call' = call
  \/ /\ \E facts : OfKinds(Nothing, facts, K, L) /\ told' = told \cup facts
     /\ UNCHANGED <<mem, medium, stage, doubted>>
     /\ call' = call \/ call' = NoCall \/ stage = NoTx

(* The medium is a sequence of one map or more.                            *)
MediumOK == medium \in Seq({medium[i] : i \in DOMAIN medium}) /\ medium # << >>

(* Nothing runs beside a Transaction.                                      *)
OneAtATime == stage = NoTx \/ call = NoCall

-----------------------------------------------------------------------------
(* The form of each step.                                                  *)

LEMMA LargerKinds ==
  ASSUME NEW K, NEW L, NEW M, NEW N, K \subseteq M, L \subseteq N, StepOf(K, L)
  PROVE  StepOf(M, N)
<1>1. \A w, F : OfKinds(w, F, K, L) => OfKinds(w, F, M, N)
  BY Zenon DEF OfKinds
<1>. QED
  BY <1>1, Zenon DEF StepOf

LEMMA AppendForms ==
  ASSUME AppendSteps
  PROVE  StepOf(AppendKinds, AppendFacts)
<1>1. PICK s \in Stream, p \in Payload : StreamAppend(s, p) \/ TxAppendStream(s, p)
  BY Zenon DEF AppendSteps
<1>2. OfKinds(AppendWrites(s, p), {Appended(s, NextOffset(mem, s), p)} \cup {}, AppendKinds, AppendFacts)
  BY DEF OfKinds, AppendWrites, And, Put, NextKey, EntryKey, Appended, AppendKinds, AppendFacts
<1>3. OfKinds(AppendWrites(s, p), {Appended(s, NextOffset(View, s), p)}, AppendKinds, AppendFacts)
  BY DEF OfKinds, AppendWrites, And, Put, NextKey, EntryKey, Appended, AppendKinds, AppendFacts
<1>4. CASE StreamAppend(s, p)
  BY <1>2, <1>4, Zenon DEF StreamAppend, Alone, AloneAsking, Idle, StepOf
<1>5. CASE TxAppendStream(s, p)
  BY <1>3, <1>5, Zenon DEF TxAppendStream, StepOf
<1>. QED
  BY <1>1, <1>4, <1>5, Zenon

LEMMA SubscriptionForms ==
  ASSUME SubscriptionSteps
  PROVE  StepOf(SubscriptionKinds, SubscriptionFacts)
<1>1. PICK s \in Stream, b \in Subscription :
        \/ \E limit \in 1 .. 2 : Poll(s, b, limit)
        \/ \E o \in Offset : AcknowledgeThrough(s, b, o) \/ ResetSubscription(s, b, o)
  BY Zenon DEF SubscriptionSteps
<1>2. ASSUME NEW limit \in 1 .. 2, Poll(s, b, limit)
      PROVE  StepOf(SubscriptionKinds, SubscriptionFacts)
  <2>. DEFINE F == {Polled(s, b, o, mem[EntryKey(s, o)]) :
                      o \in ReadFrom(s, SubscriptionState(mem, s, b), limit)}
  <2>1. OfKinds(Nothing, F, SubscriptionKinds, SubscriptionFacts)
    BY DEF OfKinds, Nothing, Polled, SubscriptionFacts
  <2>2. told' = told \cup F /\ UNCHANGED <<mem, medium, stage, doubted>> /\ call' = call
    BY <1>2, Zenon DEF Poll, Reads
  <2>. HIDE DEF F
  <2>. QED
    BY <2>1, <2>2, Zenon DEF StepOf
<1>3. ASSUME NEW o \in Offset, AcknowledgeThrough(s, b, o)
      PROVE  StepOf(SubscriptionKinds, SubscriptionFacts)
  <2>1. OfKinds(Put(SubscriptionKey(s, b), o + 1), {Acknowledged(s, b, o + 1)} \cup {},
                SubscriptionKinds, SubscriptionFacts)
    BY DEF OfKinds, Put, SubscriptionKey, Acknowledged, SubscriptionKinds, SubscriptionFacts
  <2>. QED
    BY <1>3, <2>1, Zenon DEF AcknowledgeThrough, Alone, AloneAsking, Idle, StepOf
<1>4. ASSUME NEW o \in Offset, ResetSubscription(s, b, o)
      PROVE  StepOf(SubscriptionKinds, SubscriptionFacts)
  <2>1. OfKinds(Put(SubscriptionKey(s, b), o), {} \cup {ResetTo(s, b, o)},
                SubscriptionKinds, SubscriptionFacts)
    BY DEF OfKinds, Put, SubscriptionKey, ResetTo, SubscriptionKinds, SubscriptionFacts
  <2>. QED
    BY <1>4, <2>1, Zenon DEF ResetSubscription, AloneAsking, Idle, StepOf
<1>. QED
  BY <1>1, <1>2, <1>3, <1>4, Zenon


(* The feeds: every operation writes the last identifier and its change    *)
(* records beside its own records.                                         *)
LEMMA AloneWithIdForm ==
  ASSUME NEW w, NEW keys, NEW facts, NEW asked,
         OfKinds(w, facts \cup asked, FeedKinds, FeedFacts),
         AloneWithId(w, keys, facts, asked)
  PROVE  StepOf(FeedKinds, FeedFacts)
<1>. DEFINE v == And(And(w, Put(LastKey, nextTx)), ChangeWrites(nextTx, 0, keys))
            F == facts \cup ChangeFacts(nextTx, 0, keys)
<1>1. \A k \in DOMAIN v : k[1] \in FeedKinds
  BY DEF OfKinds, And, Put, LastKey, ChangeWrites, ChangeKey, FeedKinds
<1>2. \A f \in F \cup asked : f[1] \in FeedFacts
  BY DEF OfKinds, ChangeFacts, Changed, FeedFacts
<1>3. Commits(v, F, asked, NoCall) /\ stage = NoTx /\ stage' = stage
  BY Zenon DEF AloneWithId, AloneAsking, Idle
<1>. HIDE DEF v, F
<1>4. OfKinds(v, F \cup asked, FeedKinds, FeedFacts)
  BY <1>1, <1>2, Zenon DEF OfKinds
<1>. QED
  BY <1>3, <1>4, Zenon DEF StepOf

LEMMA StagedWithIdForm ==
  ASSUME NEW w, NEW key, NEW facts,
         OfKinds(w, facts, FeedKinds, FeedFacts),
         StagedWithId(w, key, facts)
  PROVE  StepOf(FeedKinds, FeedFacts)
<1>. DEFINE from == Cardinality({k \in DOMAIN stage.writes : k[1] = "change"})
            v == And(w, ChangeWrites(StageTx, from, <<key>>))
            F == facts \cup ChangeFacts(StageTx, from, <<key>>)
<1>1. \A k \in DOMAIN v : k[1] \in FeedKinds
  BY DEF OfKinds, And, ChangeWrites, ChangeKey, FeedKinds
<1>2. \A f \in F : f[1] \in FeedFacts
  BY DEF OfKinds, ChangeFacts, Changed, FeedFacts
<1>3. Staged(v, F)
  BY Zenon DEF StagedWithId
<1>. HIDE DEF v, F
<1>4. OfKinds(v, F, FeedKinds, FeedFacts)
  BY <1>1, <1>2, Zenon DEF OfKinds
<1>. QED
  BY <1>3, <1>4, Zenon DEF StepOf

LEMMA OutboxForms ==
  ASSUME OutboxSteps
  PROVE  StepOf(FeedKinds, FeedFacts)
<1>1. PICK n \in Nonce : EmitEvent(n) \/ EmitOutboxEvent(n) \/ \E t \in Tx : AckOutboxEvent(t, n)
  BY Zenon DEF OutboxSteps
<1>2. \A t : OfKinds(Put(EventKey(t, n), "event"), {Emitted(t, n)}, FeedKinds, FeedFacts)
  BY DEF OfKinds, Put, EventKey, Emitted, FeedKinds, FeedFacts
<1>3. CASE EmitEvent(n)
  BY <1>2, <1>3, StagedWithIdForm, Zenon DEF EmitEvent
<1>4. CASE EmitOutboxEvent(n)
  <2>1. OfKinds(Put(EventKey(nextTx, n), "event"), {Emitted(nextTx, n)} \cup {}, FeedKinds, FeedFacts)
    BY <1>2, Zenon DEF OfKinds
  <2>. QED
    BY <1>4, <2>1, AloneWithIdForm, Zenon DEF EmitOutboxEvent
<1>5. ASSUME NEW t \in Tx, AckOutboxEvent(t, n)
      PROVE  StepOf(FeedKinds, FeedFacts)
  <2>1. OfKinds(Delete(EventKey(t, n)), {} \cup {Acked(t, n)}, FeedKinds, FeedFacts)
    BY DEF OfKinds, Delete, Put, EventKey, Acked, FeedKinds, FeedFacts
  <2>. QED
    BY <1>5, <2>1, AloneWithIdForm, Zenon DEF AckOutboxEvent
<1>. QED
  BY <1>1, <1>3, <1>4, <1>5, Zenon


LEMMA ExpireForm ==
  ASSUME OneAtATime, ExpireStep
  PROVE  StepOf(FeedKinds, FeedFacts)
<1>1. PICK id, next :
        LET keys == <<RequestKey(id[1], id[2]), ResponseKey(id[1], id[2])>>
        IN  CallStep(And(And(RespondWrites(id[1], id[2], Expired), Put(LastKey, nextTx)),
                         ChangeWrites(nextTx, 0, keys)),
                     {Responded(id[1], id[2], Expired)} \cup ChangeFacts(nextTx, 0, keys), next)
  BY ZenonT(60) DEF ExpireStep
<1>. DEFINE keys == <<RequestKey(id[1], id[2]), ResponseKey(id[1], id[2])>>
            w == And(And(RespondWrites(id[1], id[2], Expired), Put(LastKey, nextTx)),
                     ChangeWrites(nextTx, 0, keys))
            F == {Responded(id[1], id[2], Expired)} \cup ChangeFacts(nextTx, 0, keys)
<1>2. \A k \in DOMAIN w : k[1] \in FeedKinds
  BY DEF And, Put, Delete, RespondWrites, RequestKey, ResponseKey, LastKey, ChangeWrites,
         ChangeKey, FeedKinds
<1>3. \A f \in F \cup {} : f[1] \in FeedFacts
  BY DEF Responded, ChangeFacts, Changed, FeedFacts
<1>4. Commits(w, F, {}, next) /\ stage' = stage /\ call # NoCall
  BY <1>1, Zenon DEF CallStep
<1>. HIDE DEF w, F
<1>5. OfKinds(w, F \cup {}, FeedKinds, FeedFacts)
  BY <1>2, <1>3, Zenon DEF OfKinds
<1>6. stage = NoTx
  BY <1>4, Zenon DEF OneAtATime
<1>. QED
  BY <1>4, <1>5, <1>6, Zenon DEF StepOf

LEMMA RpcForms ==
  ASSUME OneAtATime, RpcSteps
  PROVE  StepOf(FeedKinds, FeedFacts)
<1>1. CASE ExpireStep
  BY <1>1, ExpireForm, Zenon
<1>2. ASSUME NEW now, NEW limit, ExpireRpcRequests(now, limit)
      PROVE  StepOf(FeedKinds, FeedFacts)
  <2>1. told' = told \cup {} /\ UNCHANGED <<mem, medium, stage, doubted>> /\ stage = NoTx
    BY <1>2, Zenon DEF ExpireRpcRequests, StartCall, Idle
  <2>2. OfKinds(Nothing, {}, FeedKinds, FeedFacts)
    BY Zenon DEF OfKinds, Nothing
  <2>. QED
    BY <2>1, <2>2, Zenon DEF StepOf
<1>3. \A t, n, d : /\ OfKinds(Put(RequestKey(t, n), d), {Requested(t, n)}, FeedKinds, FeedFacts)
                   /\ OfKinds(Put(RequestKey(t, n), d), {Requested(t, n)} \cup {},
                              FeedKinds, FeedFacts)
  BY DEF OfKinds, Put, RequestKey, Requested, FeedKinds, FeedFacts
<1>4. ASSUME NEW n, NEW d, RequestRpc(n, d)
      PROVE  StepOf(FeedKinds, FeedFacts)
  BY <1>3, <1>4, StagedWithIdForm, Zenon DEF RequestRpc
<1>5. ASSUME NEW n, NEW d, SubmitRpcRequest(n, d)
      PROVE  StepOf(FeedKinds, FeedFacts)
  BY <1>3, <1>5, AloneWithIdForm, Zenon DEF SubmitRpcRequest
<1>6. ASSUME NEW t, NEW n, AckRpcResponse(t, n)
      PROVE  StepOf(FeedKinds, FeedFacts)
  <2>1. OfKinds(Delete(ResponseKey(t, n)), {} \cup {Consumed(t, n)}, FeedKinds, FeedFacts)
    BY DEF OfKinds, Delete, Put, ResponseKey, Consumed, FeedKinds, FeedFacts
  <2>. QED
    BY <1>6, <2>1, AloneWithIdForm, Zenon DEF AckRpcResponse
<1>7. ASSUME NEW t, NEW n, NEW a, RespondRpc(t, n, a)
      PROVE  StepOf(FeedKinds, FeedFacts)
  <2>1. OfKinds(RespondWrites(t, n, a), {Responded(t, n, a)} \cup {}, FeedKinds, FeedFacts)
    BY DEF OfKinds, RespondWrites, And, Delete, Put, RequestKey, ResponseKey, Responded,
           FeedKinds, FeedFacts
  <2>. QED
    BY <1>7, <2>1, AloneWithIdForm, Zenon DEF RespondRpc
<1>. QED
  BY <1>1, <1>2, <1>4, <1>5, <1>6, <1>7, Zenon DEF RpcSteps

LEMMA CopyForm ==
  ASSUME NEW last, NEW facts, \A f \in facts : f[1] \in FeedFacts, CopyAs(last, facts)
  PROVE  StepOf(FeedKinds, FeedFacts)
<1>1. OfKinds(Put(LastKey, last), facts, FeedKinds, FeedFacts)
  BY DEF OfKinds, Put, LastKey, FeedKinds
<1>. QED
  BY <1>1, Zenon DEF CopyAs, Idle, StepOf

(* Together with the identifiers, the readers, pruning and copies.         *)
FeedSteps ==
  \/ BeginWithId \/ OpenGeneration \/ OpenCompactCopy
  \/ OutboxSteps \/ RpcSteps \/ ReaderSteps \/ PruneSteps

LEMMA FeedForms ==
  ASSUME OneAtATime, FeedSteps
  PROVE  StepOf(FeedKinds, FeedFacts)
<1>1. CASE BeginWithId
  <2>1. OfKinds(Put(LastKey, nextTx), {}, FeedKinds, FeedFacts)
    BY DEF OfKinds, Put, LastKey, FeedKinds
  <2>. QED
    BY <1>1, <2>1, Zenon DEF BeginWithId, StepOf
<1>2. CASE OpenGeneration
  BY <1>2, CopyForm, Zenon DEF OpenGeneration
<1>3. CASE OpenCompactCopy
  <2>1. \A f \in {Copied} : f[1] \in FeedFacts
    BY DEF Copied, FeedFacts
  <2>. QED
    BY <1>3, <2>1, CopyForm, Zenon DEF OpenCompactCopy
<1>4. CASE OutboxSteps
  BY <1>4, OutboxForms, Zenon
<1>5. CASE RpcSteps
  BY <1>5, RpcForms, Zenon
<1>6. CASE ReaderSteps
  <2>1. told' = told \cup {} /\ UNCHANGED <<mem, medium, stage, doubted>> /\ call' = call
    BY <1>6, Zenon DEF ReaderSteps, ReadPage, txVars
  <2>2. OfKinds(Nothing, {}, FeedKinds, FeedFacts)
    BY Zenon DEF OfKinds, Nothing
  <2>. QED
    BY <2>1, <2>2, Zenon DEF StepOf
<1>7. CASE PruneSteps
  <2>1. PICK t, gone : /\ \A k \in gone : k \in Feed("change", mem)
                       /\ AloneAsking(And([k \in gone |-> NoRecord], Put(LastKey, nextTx)), {},
                                      {Pruned(t)})
    BY <1>7, Zenon DEF PruneSteps, PruneChangesThrough
  <2>2. OfKinds(And([k \in gone |-> NoRecord], Put(LastKey, nextTx)), {} \cup {Pruned(t)},
                FeedKinds, FeedFacts)
    BY <2>1 DEF OfKinds, And, Put, LastKey, Pruned, Feed, FeedKinds, FeedFacts
  <2>. QED
    BY <2>1, <2>2, Zenon DEF AloneAsking, Idle, StepOf
<1>. QED
  BY <1>1, <1>2, <1>3, <1>4, <1>5, <1>6, <1>7, Zenon DEF FeedSteps


-----------------------------------------------------------------------------
(* What a step makes of the map in memory and the maps that a recovery may *)
(* find.                                                                   *)

LEMMA NewestIsCopy ==
  ASSUME MediumOK
  PROVE  /\ Len(medium) \in Nat \ {0}
         /\ 0 \in Copy /\ Map(0) = mem
         /\ Len(medium) \in Copy /\ Map(Len(medium)) = Newest
<1>1. Len(medium) \in Nat \ {0}
  BY DEF MediumOK
<1>. QED
  BY <1>1 DEF Copy, Map, Newest

(* A medium with one map.                                                  *)
LEMMA OneMap ==
  ASSUME NEW m, medium' = <<m>>
  PROVE  /\ MediumOK'
         /\ Newest' = m
         /\ \A i \in Copy' : Map(i)' \in {mem', m}
<1>1. <<m>> \in Seq({m}) /\ Len(<<m>>) = 1 /\ <<m>>[1] = m /\ DOMAIN <<m>> = 1 .. 1
  OBVIOUS
<1>2. {<<m>>[i] : i \in DOMAIN <<m>>} = {m}
  BY <1>1
<1>3. <<m>> # << >>
  BY <1>1, Zenon
<1>4. MediumOK' /\ Newest' = m
  BY <1>1, <1>2, <1>3, Zenon DEF MediumOK, Newest
<1>5. \A i \in Copy' : i = 0 \/ i = 1
  BY <1>1 DEF Copy
<1>. QED
  BY <1>1, <1>4, <1>5, Zenon DEF Map

(* A medium with one more map.                                             *)
LEMMA MoreMaps ==
  ASSUME MediumOK, NEW m, medium' = Append(medium, m)
  PROVE  /\ MediumOK'
         /\ Newest' = m
         /\ \A i \in Copy' : Map(i)' \in {mem', m} \/ \E j \in Copy : Map(i)' = medium[j] /\ j # 0
<1>. DEFINE T == {medium[i] : i \in DOMAIN medium} \cup {m}
            a == Append(medium, m)
<1>1. medium \in Seq(T) /\ m \in T
  BY DEF MediumOK
<1>2. /\ a \in Seq(T) /\ Len(a) = Len(medium) + 1 /\ DOMAIN a = 1 .. Len(medium) + 1
      /\ Len(medium) \in Nat
      /\ \A i \in 1 .. Len(medium) : a[i] = medium[i]
      /\ a[Len(medium) + 1] = m
      /\ DOMAIN medium = 1 .. Len(medium)
  BY <1>1
<1>3. \A i \in 1 .. Len(medium) + 1 : i \in 1 .. Len(medium) \/ i = Len(medium) + 1
  BY <1>2
<1>4. {a[i] : i \in DOMAIN a} = T
  <2>1. \A i \in DOMAIN a : a[i] \in T
    BY <1>2, <1>3, Zenon
  <2>2. ASSUME NEW x \in T
        PROVE  \E i \in DOMAIN a : a[i] = x
    BY <1>2
  <2>. QED
    BY <2>1, <2>2, Zenon
<1>5. MediumOK' /\ Newest' = m
  BY <1>2, <1>4 DEF MediumOK, Newest
<1>6. ASSUME NEW i \in Copy'
      PROVE  Map(i)' \in {mem', m} \/ \E j \in Copy : Map(i)' = medium[j] /\ j # 0
  <2>1. i = 0 \/ i \in 1 .. Len(medium) \/ i = Len(medium) + 1
    BY <1>2 DEF Copy
  <2>2. CASE i \in 1 .. Len(medium)
    BY <2>2, <1>2 DEF Copy, Map
  <2>. QED
    BY <2>1, <2>2, <1>2, Zenon DEF Map
<1>. QED
  BY <1>5, <1>6, Zenon

(* After a commit that succeeded, and after one in doubt.                  *)
LEMMA CommitMaps ==
  ASSUME MediumOK, NEW w, NEW facts, NEW asked, NEW next, Commits(w, facts, asked, next)
  PROVE  /\ MediumOK'
         /\ Newest' = Written(Newest, w)
         /\ \/ /\ told' = told \cup asked \cup facts
               /\ mem' = Written(mem, w)
               /\ \A i \in Copy' : \E m \in {mem, Newest} : Map(i)' = Written(m, w)
            \/ /\ told' = told \cup asked
               /\ mem' = mem
               /\ \A i \in Copy' : \/ Map(i)' = Written(Newest, w)
                                   \/ \E j \in Copy : Map(i)' = Map(j)
<1>1. CASE CommitOk(w) /\ told' = told \cup asked \cup facts
  BY <1>1, OneMap, Zenon DEF CommitOk
<1>2. CASE CommitInDoubt(w) /\ told' = told \cup asked
  <2>1. \A i \in Copy' : \/ Map(i)' \in {mem', Written(Newest, w)}
                         \/ \E j \in Copy : Map(i)' = medium[j] /\ j # 0
    BY <1>2, MoreMaps, Zenon DEF CommitInDoubt
  <2>2. \A j \in Copy : j # 0 => medium[j] = Map(j)
    BY Zenon DEF Map
  <2>3. mem' = mem /\ 0 \in Copy /\ Map(0) = mem
    BY <1>2, NewestIsCopy, Zenon DEF CommitInDoubt
  <2>. QED
    BY <1>2, <2>1, <2>2, <2>3, MoreMaps, Zenon DEF CommitInDoubt
<1>. QED
  BY <1>1, <1>2, Zenon DEF Commits

(* After a flush, a restart or a loss of power.                            *)
LEMMA ReopenMaps ==
  ASSUME MediumOK, Restart \/ PowerLoss
  PROVE  /\ MediumOK' /\ Newest' = mem'
         /\ \A i \in Copy' : \E j \in Copy : Map(i)' = Map(j)
<1>1. CASE Restart
  <2>1. MediumOK' /\ Newest' = mem' /\ mem' = Newest /\ medium' = medium
    BY <1>1, Zenon DEF Restart, MediumOK, Newest
  <2>2. ASSUME NEW i \in Copy'
        PROVE  \E j \in Copy : Map(i)' = Map(j)
    <3>1. CASE i = 0
      BY <2>1, <3>1, NewestIsCopy, Zenon DEF Map
    <3>2. CASE i # 0
      BY <2>1, <3>2, Zenon DEF Map, Copy
    <3>. QED
      BY <3>1, <3>2, Zenon
  <2>. QED
    BY <2>1, <2>2, Zenon
<1>2. CASE PowerLoss
  <2>1. PICK i \in 1 .. Len(medium) : mem' = medium[i] /\ medium' = <<medium[i]>>
    BY <1>2, Zenon DEF PowerLoss
  <2>2. i \in Copy /\ Map(i) = medium[i]
    BY NewestIsCopy DEF Copy, Map
  <2>. QED
    BY <2>1, <2>2, OneMap, Zenon
<1>. QED
  BY <1>1, <1>2, Zenon

LEMMA FlushMaps ==
  ASSUME MediumOK, Flush
  PROVE  /\ MediumOK' /\ mem' = mem /\ Newest' = Newest
         /\ \A i \in Copy' : \E j \in Copy : Map(i)' = Map(j)
BY OneMap, NewestIsCopy, Zenon DEF Flush


-----------------------------------------------------------------------------
(* Consumer groups. The invariant says of every map that a recovery may    *)
(* find that the group's generation is at least that of every delivery,    *)
(* and that a Transaction touches no group.                                *)

GroupMapOK(m, T) ==
  \A s \in Stream, g \in Group :
    /\ m[GroupKey(s, g)] \in ConsumerGroupState \cup {NoRecord}
    /\ \A f \in T : f[1] = "delivered" /\ f[2].stream = s /\ f[2].group = g =>
         f[2].generation <= GroupState(m, s, g).lease_generation

DeliveryOK(f) ==
  /\ f[2].stream \in Stream /\ f[2].group \in Group
  /\ f[2].offset \in Offset /\ f[2].generation \in Nat

OtherKinds == AppendKinds \cup SubscriptionKinds \cup FeedKinds
OtherFacts == AppendFacts \cup SubscriptionFacts \cup FeedFacts

GroupInv ==
  /\ MediumOK /\ OneAtATime
  /\ stage # NoTx => OfKinds(stage.writes, stage.facts, OtherKinds, OtherFacts)
  /\ \A i \in Copy : GroupMapOK(Map(i), told)
  /\ \A f \in told : f[1] = "delivered" => DeliveryOK(f)
  /\ \A e, f \in told : /\ e[1] = "delivered" /\ f[1] = "delivered"
                        /\ e[2].stream = f[2].stream /\ e[2].group = f[2].group
                        /\ e[2].generation = f[2].generation
                        => e = f
  /\ LatestHolderSettles

LEMMA GroupStateType ==
  ASSUME NEW m, NEW T, GroupMapOK(m, T), NEW s \in Stream, NEW g \in Group
  PROVE  /\ GroupState(m, s, g) \in ConsumerGroupState
         /\ GroupState(m, s, g).lease_generation \in 0 .. MaxGeneration
<1>1. NewGroup \in ConsumerGroupState
  BY GroupAssumption, StreamAssumption DEF NewGroup, ConsumerGroupState, Offset
<1>2. GroupState(m, s, g) \in ConsumerGroupState
  BY <1>1, Zenon DEF GroupState, GroupMapOK
<1>. QED
  BY <1>2, Zenon DEF ConsumerGroupState

(* Writes of other kinds leave the groups of a map alone.                  *)
LEMMA GroupMapElse ==
  ASSUME NEW m, NEW T, GroupMapOK(m, T), NEW w, NEW F,
         OfKinds(w, F, OtherKinds, OtherFacts)
  PROVE  GroupMapOK(m, T \cup F) /\ GroupMapOK(Written(m, w), T \cup F)
<1>1. \A f \in F : f[1] # "delivered"
  BY Zenon DEF OfKinds, OtherFacts, AppendFacts, SubscriptionFacts, FeedFacts
<1>2. GroupMapOK(m, T \cup F)
  BY <1>1, Zenon DEF GroupMapOK
<1>3. ASSUME NEW s \in Stream, NEW g \in Group
      PROVE  Written(m, w)[GroupKey(s, g)] = m[GroupKey(s, g)]
  <2>1. GroupKey(s, g) \in RecordKey
    BY GroupAssumption DEF GroupKeys
  <2>2. GroupKey(s, g) \notin DOMAIN w
    BY Zenon DEF OfKinds, GroupKey, OtherKinds, AppendKinds, SubscriptionKinds, FeedKinds
  <2>. QED
    BY <2>1, <2>2, Zenon DEF Written
<1>4. \A s \in Stream, g \in Group : GroupState(Written(m, w), s, g) = GroupState(m, s, g)
  BY <1>3, Zenon DEF GroupState
<1>. QED
  BY <1>2, <1>3, <1>4, Zenon DEF GroupMapOK

(* What remains when the maps are right and no delivery is new.            *)
LEMMA GroupInvElse ==
  ASSUME GroupInv, MediumOK', OneAtATime',
         stage' # NoTx => OfKinds(stage'.writes, stage'.facts, OtherKinds, OtherFacts),
         \A i \in Copy' : GroupMapOK(Map(i)', told'),
         NEW F, told' = told \cup F, \A f \in F : f[1] \in OtherFacts
  PROVE  GroupInv'
<1>1. \A f \in F : f[1] # "delivered" /\ f[1] # "settled"
  BY Zenon DEF OtherFacts, AppendFacts, SubscriptionFacts, FeedFacts
<1>2. \A f \in told' : f[1] = "delivered" => f \in told
  BY <1>1, Zenon
<1>3. (\A f \in told : f[1] = "delivered" => DeliveryOK(f))'
  BY <1>2, Zenon DEF GroupInv, DeliveryOK
<1>4. LatestHolderSettles'
  BY <1>1, Zenon DEF GroupInv, LatestHolderSettles
<1>5. (\A i \in Copy : GroupMapOK(Map(i), told))'
  BY Zenon
<1>. QED
  BY <1>2, <1>3, <1>4, <1>5, Zenon DEF GroupInv


LEMMA GroupInvSame ==
  ASSUME GroupInv, MediumOK', OneAtATime', told' = told,
         stage' # NoTx => OfKinds(stage'.writes, stage'.facts, OtherKinds, OtherFacts),
         \A i \in Copy' : GroupMapOK(Map(i)', told')
  PROVE  GroupInv'
<1>1. (\A f \in told : f[1] = "delivered" => DeliveryOK(f))'
  BY Zenon DEF GroupInv, DeliveryOK
<1>2. LatestHolderSettles'
  BY Zenon DEF GroupInv, LatestHolderSettles
<1>3. (\A i \in Copy : GroupMapOK(Map(i), told))'
  BY Zenon
<1>. QED
  BY <1>1, <1>2, <1>3, Zenon DEF GroupInv

LEMMA GroupCommitElse ==
  ASSUME GroupInv, NEW w, NEW facts, NEW asked, NEW next,
         OfKinds(w, facts \cup asked, OtherKinds, OtherFacts),
         Commits(w, facts, asked, next), stage' = NoTx
  PROVE  GroupInv'
<1>1. MediumOK' /\ OneAtATime'
  BY CommitMaps, Zenon DEF GroupInv, OneAtATime
<1>2. /\ OfKinds(w, facts, OtherKinds, OtherFacts)
      /\ OfKinds(w, asked, OtherKinds, OtherFacts)
      /\ OfKinds(w, asked \cup facts, OtherKinds, OtherFacts)
  BY Zenon DEF OfKinds
<1>3. PICK F : /\ F = asked \/ F = asked \cup facts
               /\ told' = told \cup F
  BY DEF Commits
<1>4. OfKinds(w, F, OtherKinds, OtherFacts)
  BY <1>2, <1>3, Zenon
<1>5. GroupMapOK(mem, told) /\ GroupMapOK(Newest, told)
  BY NewestIsCopy, Zenon DEF GroupInv
<1>6. ASSUME NEW i \in Copy'
      PROVE  GroupMapOK(Map(i)', told')
  <2>1. \/ \E m \in {mem, Newest} : Map(i)' = Written(m, w)
        \/ \E j \in Copy : Map(i)' = Map(j)
    BY CommitMaps, Zenon DEF GroupInv
  <2>2. CASE \E m \in {mem, Newest} : Map(i)' = Written(m, w)
    BY <2>2, <1>3, <1>4, <1>5, GroupMapElse
  <2>3. CASE \E j \in Copy : Map(i)' = Map(j)
    BY <2>3, <1>3, <1>4, GroupMapElse, Zenon DEF GroupInv
  <2>. QED
    BY <2>1, <2>2, <2>3, Zenon
<1>7. \A f \in F : f[1] \in OtherFacts
  BY <1>4, Zenon DEF OfKinds
<1>. QED
  BY <1>1, <1>3, <1>6, <1>7, GroupInvElse, Zenon

LEMMA GroupStepElse ==
  ASSUME GroupInv, StepOf(OtherKinds, OtherFacts)
  PROVE  GroupInv'
<1>1. ASSUME NEW w, NEW facts, NEW asked, NEW next,
             OfKinds(w, facts \cup asked, OtherKinds, OtherFacts),
             Commits(w, facts, asked, next), stage = NoTx, stage' = stage
      PROVE  GroupInv'
  BY <1>1, GroupCommitElse, Zenon
<1>2. ASSUME NEW w, NEW facts, OfKinds(w, facts, OtherKinds, OtherFacts), Staged(w, facts)
      PROVE  GroupInv'
  <2>1. MediumOK' /\ OneAtATime' /\ told' = told
    BY <1>2, Zenon DEF Staged, GroupInv, MediumOK, OneAtATime
  <2>2. OfKinds(stage'.writes, stage'.facts, OtherKinds, OtherFacts)
    BY <1>2, Zenon DEF Staged, GroupInv, OfKinds, And
  <2>3. Copy' = Copy /\ \A i \in Copy : Map(i)' = Map(i)
    BY <1>2, Zenon DEF Staged, Copy, Map
  <2>4. \A i \in Copy' : GroupMapOK(Map(i)', told')
    BY <2>1, <2>3, Zenon DEF GroupInv
  <2>. QED
    BY <2>1, <2>2, <2>4, GroupInvSame, Zenon
<1>3. ASSUME NEW w, OfKinds(w, {}, OtherKinds, OtherFacts), BeginWith(w)
      PROVE  GroupInv'
  <2>1. MediumOK' /\ OneAtATime' /\ told' = told
    BY <1>3, Zenon DEF BeginWith, Idle, GroupInv, MediumOK, OneAtATime
  <2>2. OfKinds(stage'.writes, stage'.facts, OtherKinds, OtherFacts)
    BY <1>3, Zenon DEF BeginWith, OfKinds
  <2>3. Copy' = Copy /\ \A i \in Copy : Map(i)' = Map(i)
    BY <1>3, Zenon DEF BeginWith, Copy, Map
  <2>4. \A i \in Copy' : GroupMapOK(Map(i)', told')
    BY <2>1, <2>3 DEF GroupInv
  <2>. QED
    BY <2>1, <2>2, <2>4, GroupInvSame
<1>4. ASSUME NEW w, NEW facts, OfKinds(w, facts, OtherKinds, OtherFacts),
             mem' = Written(mem, w), medium' = <<mem'>>, told' = told \cup facts,
             stage = NoTx, stage' = stage, call' = call
      PROVE  GroupInv'
  <2>1. MediumOK' /\ OneAtATime'
    BY <1>4, OneMap, Zenon DEF OneAtATime
  <2>2. GroupMapOK(Written(mem, w), told \cup facts)
    BY <1>4, GroupMapElse, NewestIsCopy, Zenon DEF GroupInv
  <2>3. \A i \in Copy' : Map(i)' = Written(mem, w)
    BY <1>4, OneMap, Zenon
  <2>4. \A f \in facts : f[1] \in OtherFacts
    BY <1>4, Zenon DEF OfKinds
  <2>. QED
    BY <1>4, <2>1, <2>2, <2>3, <2>4, GroupInvElse, Zenon
<1>5. ASSUME NEW facts, OfKinds(Nothing, facts, OtherKinds, OtherFacts), told' = told \cup facts,
             UNCHANGED <<mem, medium, stage>>,
             call' = call \/ call' = NoCall \/ stage = NoTx
      PROVE  GroupInv'
  <2>1. MediumOK' /\ OneAtATime'
    BY <1>5, Zenon DEF GroupInv, MediumOK, OneAtATime
  <2>2. Copy' = Copy /\ \A i \in Copy : Map(i)' = Map(i)
    BY <1>5, Zenon DEF Copy, Map
  <2>3. \A i \in Copy' : GroupMapOK(Map(i)', told')
    BY <1>5, <2>2, GroupMapElse, Zenon DEF GroupInv
  <2>4. \A f \in facts : f[1] \in OtherFacts
    BY <1>5, Zenon DEF OfKinds
  <2>. QED
    BY <1>5, <2>1, <2>3, <2>4, GroupInvElse, Zenon DEF GroupInv
<1>. QED
  BY <1>1, <1>2, <1>3, <1>4, <1>5, ZenonT(60) DEF StepOf

LEMMA GroupTransactionSteps ==
  ASSUME GroupInv, TransactionSteps \/ Reopen
  PROVE  GroupInv'
<1>1. CASE Commit
  <2>1. OfKinds(stage.writes, stage.facts \cup {}, OtherKinds, OtherFacts)
    BY <1>1, Zenon DEF Commit, GroupInv
  <2>. QED
    BY <1>1, <2>1, GroupCommitElse, Zenon DEF Commit
<1>2. CASE Rollback \/ CallFails
  <2>1. MediumOK' /\ OneAtATime' /\ told' = told
    BY <1>2, Zenon DEF Rollback, CallFails, CallSkips, GroupInv, MediumOK, OneAtATime
  <2>2. Copy' = Copy /\ \A i \in Copy : Map(i)' = Map(i)
    BY <1>2, Zenon DEF Rollback, CallFails, CallSkips, Copy, Map
  <2>3. stage' # NoTx => OfKinds(stage'.writes, stage'.facts, OtherKinds, OtherFacts)
    BY <1>2, Zenon DEF Rollback, CallFails, CallSkips, GroupInv
  <2>4. \A i \in Copy' : GroupMapOK(Map(i)', told')
    BY <2>1, <2>2, Zenon DEF GroupInv
  <2>. QED
    BY <2>1, <2>3, <2>4, GroupInvSame, Zenon
<1>3. CASE FlushStore \/ Reopen
  <2>1. /\ MediumOK' /\ OneAtATime' /\ told' = told /\ stage' = NoTx
        /\ \A i \in Copy' : \E j \in Copy : Map(i)' = Map(j)
    BY <1>3, FlushMaps, ReopenMaps, Zenon DEF FlushStore, Reopen, Idle, GroupInv, OneAtATime
  <2>2. \A i \in Copy' : GroupMapOK(Map(i)', told')
    BY <2>1, Zenon DEF GroupInv
  <2>. QED
    BY <2>1, <2>2, GroupInvSame, Zenon
<1>. QED
  BY <1>1, <1>2, <1>3, Zenon DEF TransactionSteps


LEMMA GroupKeysAreKeys ==
  ASSUME NEW s \in Stream, NEW g \in Group
  PROVE  GroupKey(s, g) \in RecordKey
BY GroupAssumption DEF GroupKeys

(* A group's record is replaced by one with a generation at least as high, *)
(* and what is reported is a delivery with a higher one, or a settlement.  *)
GroupReport(s, g, rec, facts, asked) ==
  /\ rec.lease_generation >= GroupState(mem, s, g).lease_generation
  /\ \A f \in asked : f[1] = "reset"
  /\ \A f \in facts :
       \/ /\ f[1] = "delivered" /\ DeliveryOK(f) /\ f[2].stream = s /\ f[2].group = g
          /\ f[2].generation <= rec.lease_generation
          /\ f[2].generation > GroupState(mem, s, g).lease_generation
       \/ f[1] = "settled" /\ f[2].latest
  /\ \A e, f \in facts : e = f

LEMMA GroupWrite ==
  ASSUME GroupInv, NEW s \in Stream, NEW g \in Group, NEW rec \in ConsumerGroupState,
         NEW facts, NEW asked, GroupReport(s, g, rec, facts, asked),
         AloneAsking(Put(GroupKey(s, g), rec), facts, asked)
  PROVE  GroupInv'
<1>0. /\ rec.lease_generation >= GroupState(mem, s, g).lease_generation
      /\ \A f \in asked : f[1] = "reset"
      /\ \A f \in facts :
           \/ /\ f[1] = "delivered" /\ DeliveryOK(f) /\ f[2].stream = s /\ f[2].group = g
              /\ f[2].generation <= rec.lease_generation
              /\ f[2].generation > GroupState(mem, s, g).lease_generation
           \/ f[1] = "settled" /\ f[2].latest
      /\ \A e, f \in facts : e = f
  BY Zenon DEF GroupReport
<1>. DEFINE w == Put(GroupKey(s, g), rec)
            old == GroupState(mem, s, g).lease_generation
<1>1. MediumOK' /\ OneAtATime' /\ stage' = NoTx
  BY CommitMaps, Zenon DEF GroupInv, OneAtATime, AloneAsking, Idle
<1>2. GroupMapOK(mem, told) /\ GroupMapOK(Newest, told)
  BY NewestIsCopy, Zenon DEF GroupInv
<1>3. old \in Nat /\ rec.lease_generation \in Nat
  BY <1>2, GroupStateType, GroupAssumption DEF ConsumerGroupState
<1>4. \A f \in told : f[1] = "delivered" /\ f[2].stream = s /\ f[2].group = g =>
        f[2].generation \in Nat /\ f[2].generation <= old
  BY <1>2, Zenon DEF GroupInv, GroupMapOK, DeliveryOK
<1>5. ASSUME NEW m, GroupMapOK(m, told), NEW F, F \subseteq facts \cup asked
      PROVE  GroupMapOK(Written(m, w), told \cup F)
  <2>1. \A t \in Stream, h \in Group : GroupKey(t, h) \in RecordKey
    BY GroupKeysAreKeys, Zenon
  <2>2. Written(m, w)[GroupKey(s, g)] = rec
    BY <2>1, Zenon DEF Written, Put
  <2>3. \A t \in Stream, h \in Group : <<t, h>> # <<s, g>> =>
          Written(m, w)[GroupKey(t, h)] = m[GroupKey(t, h)]
    BY <2>1, Zenon DEF Written, Put, GroupKey
  <2>4. GroupState(Written(m, w), s, g) = rec
    BY <2>2, GroupAssumption, Zenon DEF GroupState
  <2>5. \A t \in Stream, h \in Group : <<t, h>> # <<s, g>> =>
          GroupState(Written(m, w), t, h) = GroupState(m, t, h)
    BY <2>3, Zenon DEF GroupState
  <2>. HIDE DEF w
  <2>6. \A f \in told \cup F : f[1] = "delivered" /\ f[2].stream = s /\ f[2].group = g =>
          f[2].generation <= rec.lease_generation
    <3>1. ASSUME NEW f \in told, f[1] = "delivered", f[2].stream = s, f[2].group = g
          PROVE  f[2].generation <= rec.lease_generation
      <4>1. f[2].generation \in Nat /\ f[2].generation <= old /\ rec.lease_generation >= old
        BY <3>1, <1>0, <1>4, Zenon
      <4>. QED
        BY <4>1, <1>3
    <3>2. ASSUME NEW f \in F, f[1] = "delivered"
          PROVE  f[2].generation <= rec.lease_generation
      BY <3>2, <1>0, <1>5, Zenon
    <3>. QED
      BY <3>1, <3>2, Zenon
  <2>7. \A f \in told \cup F : f[1] = "delivered" => f \in told \/ (f[2].stream = s /\ f[2].group = g)
    BY <1>0, <1>5, Zenon
  <2>8. ASSUME NEW t \in Stream, NEW h \in Group
        PROVE  /\ Written(m, w)[GroupKey(t, h)] \in ConsumerGroupState \cup {NoRecord}
               /\ \A f \in told \cup F : f[1] = "delivered" /\ f[2].stream = t /\ f[2].group = h =>
                    f[2].generation <= GroupState(Written(m, w), t, h).lease_generation
    <3>1. CASE t = s /\ h = g
      BY <3>1, <2>2, <2>4, <2>6, Zenon
    <3>2. CASE <<t, h>> # <<s, g>>
      BY <3>2, <2>3, <2>5, <2>7, <1>5, Zenon DEF GroupMapOK
    <3>. QED
      BY <3>1, <3>2, Zenon
  <2>. QED
    BY <2>8, Zenon DEF GroupMapOK
<1>6. ASSUME NEW m, GroupMapOK(m, told)
      PROVE  GroupMapOK(m, told \cup asked)
  BY <1>0, <1>6, Zenon DEF GroupMapOK
<1>. HIDE DEF w, old
<1>7. PICK F : /\ F \subseteq facts \cup asked
               /\ told' = told \cup F
               /\ \A i \in Copy' : GroupMapOK(Map(i)', told')
  <2>1. Commits(w, facts, asked, NoCall)
    BY Zenon DEF AloneAsking, w
  <2>2. CASE /\ told' = told \cup asked \cup facts
             /\ \A i \in Copy' : \E m \in {mem, Newest} : Map(i)' = Written(m, w)
    <3>1. told' = told \cup (facts \cup asked)
      BY <2>2, Zenon
    <3>2. GroupMapOK(Written(mem, w), told') /\ GroupMapOK(Written(Newest, w), told')
      BY <3>1, <1>2, <1>5, ZenonT(60)
    <3>3. \A i \in Copy' : GroupMapOK(Map(i)', told')
      BY <2>2, <3>2, Zenon
    <3>. QED
      BY <3>1, <3>3, ZenonT(60)
  <2>3. CASE /\ told' = told \cup asked
             /\ \A i \in Copy' : \/ Map(i)' = Written(Newest, w)
                                 \/ \E j \in Copy : Map(i)' = Map(j)
    <3>1. \A i \in Copy' : GroupMapOK(Map(i)', told')
      BY <2>3, <1>2, <1>5, <1>6, ZenonT(60) DEF GroupInv
    <3>. QED
      BY <2>3, <3>1, Zenon
  <2>. QED
    BY <2>1, <2>2, <2>3, CommitMaps, Zenon DEF GroupInv
<1>8. \A f \in F : f[1] = "delivered" =>
        /\ DeliveryOK(f) /\ f[2].stream = s /\ f[2].group = g
        /\ f[2].generation > old /\ f \in facts
  BY <1>0, <1>7, Zenon DEF old
<1>9. (\A f \in told : f[1] = "delivered" => DeliveryOK(f))'
  BY <1>7, <1>8, Zenon DEF GroupInv, DeliveryOK
<1>10. ASSUME NEW e \in told', NEW f \in told',
              e[1] = "delivered", f[1] = "delivered",
              e[2].stream = f[2].stream, e[2].group = f[2].group,
              e[2].generation = f[2].generation
       PROVE  e = f
  <2>1. CASE e \in told /\ f \in told
    BY <2>1, <1>10, Zenon DEF GroupInv
  <2>2. CASE e \in F /\ f \in F
    BY <2>2, <1>0, <1>8, <1>10, Zenon
  <2>3. ASSUME NEW a \in told, NEW b \in F, a[1] = "delivered", b[1] = "delivered",
               a[2].stream = b[2].stream, a[2].group = b[2].group
        PROVE  a[2].generation # b[2].generation
    <3>1. b[2].generation > old /\ b[2].stream = s /\ b[2].group = g
      BY <2>3, <1>8, Zenon
    <3>2. a[2].generation \in Nat /\ a[2].generation <= old
      BY <2>3, <3>1, <1>4, Zenon
    <3>3. b[2].generation \in Nat
      BY <2>3, <1>8, Zenon DEF DeliveryOK
    <3>4. \A x, y, z \in Nat : x > z /\ y <= z => y # x
      OBVIOUS
    <3>5. old \in Nat
      BY <1>3, Zenon
    <3>. QED
      BY <3>1, <3>2, <3>3, <3>4, <3>5, Zenon
  <2>. QED
    BY <1>7, <1>10, <2>1, <2>2, <2>3, Zenon
<1>11. LatestHolderSettles'
  BY <1>0, <1>7, Zenon DEF GroupInv, LatestHolderSettles
<1>12. (\A i \in Copy : GroupMapOK(Map(i), told))'
  BY <1>7, Zenon
<1>. QED
  BY <1>1, <1>9, <1>10, <1>11, <1>12, Zenon DEF GroupInv


(* Each operation of a group is such a step. An ack or a nack is accepted  *)
(* under the generation of the record, which no delivery exceeds.          *)
LEMMA GroupOperation ==
  ASSUME GroupInv, GroupSteps
  PROVE  GroupInv'
<1>. DEFINE lg(s, g) == GroupState(mem, s, g).lease_generation
<1>1. \A s \in Stream, g \in Group :
        /\ GroupState(mem, s, g) \in ConsumerGroupState
        /\ lg(s, g) \in 0 .. MaxGeneration
  BY NewestIsCopy, GroupStateType, Zenon DEF GroupInv
<1>2. ASSUME NEW s \in Stream, NEW g \in Group, NEW c \in Consumer,
             NEW now \in 0 .. MaxTime, NEW duration \in 0 .. MaxTime,
             ConsumerGroupClaim(s, g, c, now, duration)
      PROVE  GroupInv'
  <2>. DEFINE state == GroupState(mem, s, g)
  <2>1. PICK o \in ReadFrom(s, state.next_offset, 1) :
          Alone(Put(GroupKey(s, g), LeasedTo(state, c, o, now + duration)),
                {Delivered(s, g, c, o, state.lease_generation + 1, mem[EntryKey(s, o)])})
    BY <1>2, Zenon DEF ConsumerGroupClaim
  <2>2. o \in Offset
    BY Zenon DEF ReadFrom
  <2>3. state.lease_generation + 1 \in 0 .. MaxGeneration /\ now + duration \in 0 .. MaxTime
    BY <1>1, <1>2, GroupAssumption DEF ConsumerGroupClaim
  <2>4. LET rec == LeasedTo(state, c, o, now + duration)
        IN  rec \in ConsumerGroupState /\ rec.lease_generation = state.lease_generation + 1
    BY <1>1, <2>2, <2>3, Zenon DEF LeasedTo, ConsumerGroupState
  <2>. DEFINE f == Delivered(s, g, c, o, state.lease_generation + 1, mem[EntryKey(s, o)])
  <2>5. /\ f[1] = "delivered" /\ f[2].stream = s /\ f[2].group = g
        /\ f[2].offset = o /\ f[2].generation = state.lease_generation + 1
    BY Zenon DEF Delivered
  <2>. HIDE DEF f
  <2>6. DeliveryOK(f)
    BY <2>2, <2>3, <2>5 DEF DeliveryOK
  <2>7. /\ f[2].generation > state.lease_generation
        /\ state.lease_generation + 1 >= state.lease_generation
        /\ f[2].generation <= state.lease_generation + 1
    BY <1>1, <2>5
  <2>8. AloneAsking(Put(GroupKey(s, g), LeasedTo(state, c, o, now + duration)), {f}, {})
    BY <2>1, Zenon DEF Alone, f
  <2>. DEFINE rec == LeasedTo(state, c, o, now + duration)
  <2>9. GroupReport(s, g, rec, {f}, {})
    BY <2>4, <2>5, <2>6, <2>7, Zenon DEF GroupReport
  <2>. HIDE DEF rec
  <2>. QED
    BY <2>4, <2>8, <2>9, GroupWrite, Zenon DEF rec
<1>3. ASSUME NEW state \in ConsumerGroupState
      PROVE  /\ ClearLease(state) \in ConsumerGroupState
             /\ ClearLease(state).lease_generation = state.lease_generation
             /\ \A n \in Offset :
                  LET rec == [ClearLease(state) EXCEPT !.next_offset = n]
                  IN  /\ rec \in ConsumerGroupState
                      /\ rec.lease_generation = state.lease_generation
  <2>1. 0 \in 0 .. MaxTime
    BY GroupAssumption
  <2>2. /\ ClearLease(state) \in ConsumerGroupState
        /\ ClearLease(state).lease_generation = state.lease_generation
    BY <2>1, ZenonT(60) DEF ClearLease, ConsumerGroupState
  <2>3. ASSUME NEW x \in ConsumerGroupState, NEW n \in Offset
        PROVE  /\ [x EXCEPT !.next_offset = n] \in ConsumerGroupState
               /\ [x EXCEPT !.next_offset = n].lease_generation = x.lease_generation
    BY Zenon DEF ConsumerGroupState
  <2>. QED
    BY <2>2, <2>3, Zenon
<1>4. \A s \in Stream, g \in Group : lg(s, g) >= lg(s, g)
  BY <1>1
<1>5. ASSUME NEW s \in Stream, NEW g \in Group, NEW now, ConsumerGroupClaimNothing(s, g, now)
      PROVE  GroupInv'
  <2>1. AloneAsking(Put(GroupKey(s, g), ClearLease(GroupState(mem, s, g))), {}, {})
    BY <1>5, Zenon DEF ConsumerGroupClaimNothing, Alone
  <2>2. ClearLease(GroupState(mem, s, g)) \in ConsumerGroupState
    BY <1>1, <1>3, Zenon
  <2>3. GroupReport(s, g, ClearLease(GroupState(mem, s, g)), {}, {})
    BY <1>1, <1>3, <1>4, Zenon DEF GroupReport
  <2>. QED
    BY <2>1, <2>2, <2>3, GroupWrite, Zenon
<1>6. ASSUME NEW s \in Stream, NEW g \in Group, NEW n \in Offset, ConsumerGroupReset(s, g, n)
      PROVE  GroupInv'
  <2>. DEFINE rec == [ClearLease(GroupState(mem, s, g)) EXCEPT !.next_offset = n]
  <2>1. AloneAsking(Put(GroupKey(s, g), rec), {}, {ResetTo(s, g, n)})
    BY <1>6, Zenon DEF ConsumerGroupReset, ResetState
  <2>2. ResetTo(s, g, n)[1] = "reset"
    BY Zenon DEF ResetTo
  <2>3. rec \in ConsumerGroupState /\ rec.lease_generation = lg(s, g)
    BY <1>1, <1>3, Zenon
  <2>4. GroupReport(s, g, rec, {}, {ResetTo(s, g, n)})
    BY <2>2, <2>3, <1>4, Zenon DEF GroupReport
  <2>. HIDE DEF rec
  <2>. QED
    BY <2>1, <2>3, <2>4, GroupWrite, Zenon
<1>7. ASSUME NEW f \in told, f[1] = "delivered", NEW rec \in ConsumerGroupState,
             rec.lease_generation = lg(f[2].stream, f[2].group), Settle(f, rec)
      PROVE  GroupInv'
  <2>. DEFINE s == f[2].stream
              g == f[2].group
              latest == \A e \in Deliveries(s, g) : e[2].generation <= f[2].generation
  <2>1. DeliveryOK(f) /\ s \in Stream /\ g \in Group
    BY <1>7, Zenon DEF GroupInv, DeliveryOK
  <2>2. f[2].generation = lg(s, g)
    BY <1>7, Zenon DEF Settle, ValidateLease, GroupState
  <2>3. latest
    BY <2>1, <2>2, NewestIsCopy, Zenon DEF Deliveries, GroupInv, GroupMapOK
  <2>4. AloneAsking(Put(GroupKey(s, g), rec), {Settled(s, g, f[2].generation, latest)}, {})
    BY <1>7, Zenon DEF Settle, Alone
  <2>5. /\ Settled(s, g, f[2].generation, latest)[1] = "settled"
        /\ Settled(s, g, f[2].generation, latest)[2].latest
    BY <2>3, Zenon DEF Settled
  <2>6. rec.lease_generation >= GroupState(mem, s, g).lease_generation
    BY <1>4, <1>7, <2>1, Zenon
  <2>. HIDE DEF latest, s, g
  <2>7. GroupReport(s, g, rec, {Settled(s, g, f[2].generation, latest)}, {})
    BY <2>5, <2>6, Zenon DEF GroupReport
  <2>. QED
    BY <1>7, <2>1, <2>4, <2>7, GroupWrite, Zenon
<1>8. ASSUME NEW f \in told, f[1] = "delivered", ConsumerGroupAck(f) \/ ConsumerGroupNack(f)
      PROVE  GroupInv'
  <2>1. f[2].stream \in Stream /\ f[2].group \in Group /\ f[2].offset \in Offset
    BY <1>8, Zenon DEF GroupInv, DeliveryOK
  <2>2. ConsumerGroupAck(f) => f[2].offset + 1 \in Offset
    BY <2>1, StreamAssumption DEF ConsumerGroupAck, Offset
  <2>3. CASE ConsumerGroupAck(f)
    BY <2>1, <2>2, <2>3, <1>1, <1>3, <1>7, <1>8, Zenon DEF ConsumerGroupAck
  <2>4. CASE ConsumerGroupNack(f)
    BY <2>1, <2>4, <1>1, <1>3, <1>7, <1>8, Zenon DEF ConsumerGroupNack
  <2>. QED
    BY <1>8, <2>3, <2>4, Zenon
<1>. QED
  BY <1>2, <1>5, <1>6, <1>8, Zenon DEF GroupSteps


LEMMA GroupInit == Init => GroupInv
<1>. SUFFICES ASSUME Init
              PROVE  GroupInv
  BY Zenon
<1>. DEFINE m == [k \in RecordKey |-> NoRecord]
<1>1. mem = m /\ medium = <<m>> /\ stage = NoTx /\ told = {}
  BY Zenon DEF Init, InitFeeds, InitTransactions, InitRecords
<1>2. medium \in Seq({m}) /\ Len(medium) = 1 /\ medium[1] = m /\ DOMAIN medium = 1 .. 1
  BY <1>1
<1>3. \A s \in Stream, g \in Group : m[GroupKey(s, g)] = NoRecord
  BY GroupAssumption DEF GroupKeys
<1>4. GroupMapOK(m, told)
  BY <1>1, <1>3, Zenon DEF GroupMapOK
<1>. HIDE DEF m
<1>5. {medium[i] : i \in DOMAIN medium} = {m} /\ medium # << >>
  BY <1>2, SMT
<1>6. \A i \in Copy : Map(i) = m
  BY <1>1, <1>2 DEF Copy, Map
<1>. QED
  BY <1>1, <1>2, <1>4, <1>5, <1>6, Zenon DEF GroupInv, MediumOK, OneAtATime, LatestHolderSettles

LEMMA GroupNext == GroupInv /\ [Next]_vars => GroupInv'
<1>. SUFFICES ASSUME GroupInv, [Next]_vars
              PROVE  GroupInv'
  BY Zenon
<1>1. /\ AppendKinds \subseteq OtherKinds /\ AppendFacts \subseteq OtherFacts
      /\ SubscriptionKinds \subseteq OtherKinds /\ SubscriptionFacts \subseteq OtherFacts
      /\ FeedKinds \subseteq OtherKinds /\ FeedFacts \subseteq OtherFacts
  BY Zenon DEF OtherKinds, OtherFacts
<1>2. CASE FeedSteps
  BY <1>1, <1>2, FeedForms, LargerKinds, GroupStepElse, Zenon DEF GroupInv
<1>3. CASE AppendSteps
  BY <1>1, <1>3, AppendForms, LargerKinds, GroupStepElse, Zenon
<1>4. CASE SubscriptionSteps
  BY <1>1, <1>4, SubscriptionForms, LargerKinds, GroupStepElse, Zenon
<1>5. CASE GroupSteps
  BY <1>5, GroupOperation, Zenon
<1>6. CASE TransactionSteps \/ ReopenFeeds
  BY <1>6, GroupTransactionSteps, Zenon DEF ReopenFeeds
<1>7. CASE UNCHANGED vars
  <2>1. MediumOK' /\ OneAtATime' /\ told' = told /\ stage' = stage
    BY <1>7, Zenon DEF vars, txVars, GroupInv, MediumOK, OneAtATime
  <2>2. Copy' = Copy /\ \A i \in Copy : Map(i)' = Map(i)
    BY <1>7, Zenon DEF vars, txVars, Copy, Map
  <2>3. \A i \in Copy' : GroupMapOK(Map(i)', told')
    BY <2>1, <2>2, Zenon DEF GroupInv
  <2>. QED
    BY <2>1, <2>3, GroupInvSame, Zenon DEF GroupInv
<1>. QED
  BY <1>2, <1>3, <1>4, <1>5, <1>6, <1>7, Zenon DEF Next, TxIdSteps, FeedSteps

(* The generation of a group's lease is a fencing token, and an ack or a   *)
(* nack is accepted from the latest holder only, beside Transactions,      *)
(* copies of the store and all other operations. (consumer_group.rs)       *)
THEOREM GroupLeasesAreFenced == Spec => []LeasesAreFenced
<1>1. GroupInv => LeasesAreFenced
  <2>. SUFFICES ASSUME GroupInv
                PROVE  LeasesAreFenced
    BY Zenon
  <2>1. ASSUME NEW f \in told, f[1] = "delivered"
        PROVE  /\ \A i \in Copy :
                    GroupState(Map(i), f[2].stream, f[2].group).lease_generation
                      >= f[2].generation
               /\ \A e \in Deliveries(f[2].stream, f[2].group) :
                    e[2].generation = f[2].generation => e = f
    <3>1. f[2].stream \in Stream /\ f[2].group \in Group /\ f[2].generation \in Nat
      BY <2>1, Zenon DEF GroupInv, DeliveryOK
    <3>2. ASSUME NEW i \in Copy
          PROVE  GroupState(Map(i), f[2].stream, f[2].group).lease_generation >= f[2].generation
      <4>1. GroupState(Map(i), f[2].stream, f[2].group).lease_generation \in 0 .. MaxGeneration
        BY <3>1, GroupStateType, Zenon DEF GroupInv
      <4>2. f[2].generation <= GroupState(Map(i), f[2].stream, f[2].group).lease_generation
        BY <2>1, <3>1, Zenon DEF GroupInv, GroupMapOK
      <4>. QED
        BY <3>1, <4>1, <4>2, Zenon
    <3>. QED
      BY <2>1, <3>2, Zenon DEF GroupInv, Deliveries
  <2>. QED
    BY <2>1, Zenon DEF LeasesAreFenced, DeliveriesAreFenced, GroupInv
<1>. QED
  BY <1>1, GroupInit, GroupNext, PTL DEF Spec

-----------------------------------------------------------------------------
(* Streams: writes to a stream begin at the next offset in memory, which   *)
(* is beyond every entry reported, and no map that a recovery may find     *)
(* first is behind it. This makes it harmless that a commit in doubt may   *)
(* leave the stream that recovery finds ahead of the stream in memory, so  *)
(* that the next append writes over entries of it.                         *)

StreamMapOK(m, T) ==
  \A s \in Stream :
    /\ m[NextKey(s)] \in Offset \cup {NoRecord}
    /\ \A o \in Offset : o < NextOffset(m, s) => m[EntryKey(s, o)] # NoRecord
    /\ \A f \in T : f[1] = "appended" /\ f[2].stream = s =>
         f[2].offset < NextOffset(m, s) /\ m[EntryKey(s, f[2].offset)] = f[2].payload

AppendOK(f) == f[2].stream \in Stream /\ f[2].offset \in Offset

(* The writes w extend the streams of the map m, and the facts F report    *)
(* entries that they add.                                                  *)
Extends(m, w, F) ==
  /\ \A f \in F : f[1] = "appended" => AppendOK(f)
  /\ \A s \in Stream :
       /\ NextKey(s) \in DOMAIN w =>
            /\ w[NextKey(s)] \in Offset
            /\ w[NextKey(s)] >= NextOffset(m, s)
            /\ \A o \in Offset : o >= NextOffset(m, s) /\ o < w[NextKey(s)] =>
                 EntryKey(s, o) \in DOMAIN w
       /\ \A o \in Offset : EntryKey(s, o) \in DOMAIN w =>
            /\ NextKey(s) \in DOMAIN w
            /\ o >= NextOffset(m, s)
            /\ w[EntryKey(s, o)] # NoRecord
       /\ \A f \in F : f[1] = "appended" /\ f[2].stream = s =>
            /\ NextKey(s) \in DOMAIN w
            /\ EntryKey(s, f[2].offset) \in DOMAIN w
            /\ f[2].offset < w[NextKey(s)]
            /\ w[EntryKey(s, f[2].offset)] = f[2].payload

StreamInv ==
  /\ MediumOK /\ OneAtATime
  /\ stage # NoTx => Extends(mem, stage.writes, stage.facts)
  /\ \A i \in Copy : StreamMapOK(Map(i), told)
  /\ \A f \in told : f[1] = "appended" => AppendOK(f)
  /\ \A s \in Stream : NextOffset(mem, s) <= NextOffset(Newest, s)

-----------------------------------------------------------------------------
(* Maps and writes.                                                        *)

LEMMA StreamKeysAreKeys ==
  ASSUME NEW s \in Stream
  PROVE  NextKey(s) \in RecordKey /\ \A o \in Offset : EntryKey(s, o) \in RecordKey
BY StreamAssumption DEF StreamKeys

LEMMA NextOffsetType ==
  ASSUME NEW m, NEW T, StreamMapOK(m, T), NEW s \in Stream
  PROVE  NextOffset(m, s) \in Offset /\ NextOffset(m, s) \in Nat
<1>1. 0 \in Offset /\ Offset \subseteq Nat
  BY StreamAssumption DEF Offset
<1>. QED
  BY <1>1, Zenon DEF NextOffset, StreamMapOK

(* What Written shows of a stream.                                         *)
LEMMA WrittenStream ==
  ASSUME NEW m, NEW w, NEW s \in Stream
  PROVE  /\ NextKey(s) \notin DOMAIN w => /\ Written(m, w)[NextKey(s)] = m[NextKey(s)]
                                         /\ NextOffset(Written(m, w), s) = NextOffset(m, s)
         /\ NextKey(s) \in DOMAIN w /\ w[NextKey(s)] \in Offset =>
              /\ Written(m, w)[NextKey(s)] = w[NextKey(s)]
              /\ NextOffset(Written(m, w), s) = w[NextKey(s)]
         /\ \A o \in Offset :
              Written(m, w)[EntryKey(s, o)] =
                IF EntryKey(s, o) \in DOMAIN w THEN w[EntryKey(s, o)] ELSE m[EntryKey(s, o)]
<1>1. NextKey(s) \in RecordKey /\ \A o \in Offset : EntryKey(s, o) \in RecordKey
  BY StreamKeysAreKeys, Zenon
<1>2. NoRecord \notin Offset
  BY StreamAssumption, Zenon
<1>3. Written(m, w)[NextKey(s)] = IF NextKey(s) \in DOMAIN w THEN w[NextKey(s)] ELSE m[NextKey(s)]
  BY <1>1, Zenon DEF Written
<1>4. \A o \in Offset :
        Written(m, w)[EntryKey(s, o)] =
          IF EntryKey(s, o) \in DOMAIN w THEN w[EntryKey(s, o)] ELSE m[EntryKey(s, o)]
  BY <1>1, Zenon DEF Written
<1>. QED
  BY <1>2, <1>3, <1>4, Zenon DEF NextOffset

(* Writes that extend the streams in memory extend those of a map that is  *)
(* not behind memory, and leave it not behind.                             *)
LEMMA ExtendedMap ==
  ASSUME NEW T, NEW m, NEW w, NEW F, StreamMapOK(mem, T), StreamMapOK(m, T),
         \A f \in T : f[1] = "appended" => AppendOK(f),
         \A s \in Stream : NextOffset(mem, s) <= NextOffset(m, s),
         Extends(mem, w, F)
  PROVE  /\ StreamMapOK(Written(m, w), T \cup F)
         /\ \A s \in Stream : /\ NextOffset(mem, s) <= NextOffset(Written(m, w), s)
                              /\ NextOffset(Written(mem, w), s) <= NextOffset(Written(m, w), s)
<1>. DEFINE v == Written(m, w)
<1>1. ASSUME NEW s \in Stream
      PROVE  /\ v[NextKey(s)] \in Offset \cup {NoRecord}
             /\ \A o \in Offset : o < NextOffset(v, s) => v[EntryKey(s, o)] # NoRecord
             /\ \A f \in T \cup F : f[1] = "appended" /\ f[2].stream = s =>
                  f[2].offset < NextOffset(v, s) /\ v[EntryKey(s, f[2].offset)] = f[2].payload
             /\ NextOffset(mem, s) <= NextOffset(v, s)
             /\ NextOffset(Written(mem, w), s) <= NextOffset(v, s)
  <2>1. NextOffset(mem, s) \in Nat /\ NextOffset(m, s) \in Nat
    BY NextOffsetType, Zenon
  <2>2. NextOffset(mem, s) <= NextOffset(m, s)
    BY Zenon
  <2>3. Offset \subseteq Nat
    BY StreamAssumption DEF Offset
  <2>4. CASE NextKey(s) \notin DOMAIN w
    <3>1. v[NextKey(s)] = m[NextKey(s)] /\ NextOffset(v, s) = NextOffset(m, s)
      BY <2>4, WrittenStream, Zenon
    <3>2. NextOffset(Written(mem, w), s) = NextOffset(mem, s)
      BY <2>4, WrittenStream, Zenon
    <3>3. \A o \in Offset : EntryKey(s, o) \notin DOMAIN w
      BY <2>4, Zenon DEF Extends
    <3>4. \A o \in Offset : v[EntryKey(s, o)] = m[EntryKey(s, o)]
      BY <3>3, WrittenStream
    <3>5. \A f \in F : ~(f[1] = "appended" /\ f[2].stream = s)
      BY <2>4, Zenon DEF Extends
    <3>. HIDE DEF v
    <3>6. \A f \in T : f[1] = "appended" /\ f[2].stream = s =>
            f[2].offset < NextOffset(v, s) /\ v[EntryKey(s, f[2].offset)] = f[2].payload
      BY <3>1, <3>4, Zenon DEF AppendOK, StreamMapOK
    <3>7. /\ v[NextKey(s)] \in Offset \cup {NoRecord}
          /\ \A o \in Offset : o < NextOffset(v, s) => v[EntryKey(s, o)] # NoRecord
      BY <3>1, <3>4, Zenon DEF StreamMapOK
    <3>. QED
      BY <3>1, <3>2, <3>5, <3>6, <3>7, <2>2, Zenon
  <2>5. CASE NextKey(s) \in DOMAIN w
    <3>. DEFINE n == w[NextKey(s)]
                b == NextOffset(mem, s)
    <3>1. /\ n \in Offset /\ n >= b
          /\ \A o \in Offset : o >= b /\ o < n => EntryKey(s, o) \in DOMAIN w
          /\ \A o \in Offset : EntryKey(s, o) \in DOMAIN w => o >= b /\ w[EntryKey(s, o)] # NoRecord
      BY <2>5, Zenon DEF Extends
    <3>2. v[NextKey(s)] = n /\ NextOffset(v, s) = n /\ NextOffset(Written(mem, w), s) = n
      BY <2>5, <3>1, WrittenStream, Zenon
    <3>3. \A o \in Offset : v[EntryKey(s, o)] =
            IF EntryKey(s, o) \in DOMAIN w THEN w[EntryKey(s, o)] ELSE m[EntryKey(s, o)]
      BY WrittenStream
    <3>4. \A f \in F : f[1] = "appended" /\ f[2].stream = s =>
            /\ f[2].offset \in Offset /\ EntryKey(s, f[2].offset) \in DOMAIN w
            /\ f[2].offset < n /\ w[EntryKey(s, f[2].offset)] = f[2].payload
      BY Zenon DEF Extends, AppendOK
    <3>5. \A f \in T : f[1] = "appended" /\ f[2].stream = s =>
            /\ f[2].offset \in Offset /\ f[2].offset < b
            /\ m[EntryKey(s, f[2].offset)] = f[2].payload
      BY Zenon DEF StreamMapOK, AppendOK
    <3>6. \A o \in Offset : o < NextOffset(m, s) => m[EntryKey(s, o)] # NoRecord
      BY Zenon DEF StreamMapOK
    <3>. HIDE DEF v, n, b
    <3>7. b \in Nat /\ n \in Nat /\ b <= n /\ n <= n
      BY <2>1, <2>3, <3>1 DEF b
    <3>8. ASSUME NEW o \in Offset, o < n
          PROVE  v[EntryKey(s, o)] # NoRecord
      <4>1. CASE EntryKey(s, o) \in DOMAIN w
        BY <4>1, <3>1, <3>3, Zenon
      <4>2. CASE EntryKey(s, o) \notin DOMAIN w
        <5>1. o \in Nat /\ ~(o >= b)
          BY <4>2, <2>3, <3>1, <3>8, Zenon
        <5>2. o < NextOffset(m, s)
          BY <5>1, <3>7, <2>1, <2>2 DEF b
        <5>. QED
          BY <4>2, <5>2, <3>3, <3>6, Zenon
      <4>. QED
        BY <4>1, <4>2, Zenon
    <3>9. ASSUME NEW f \in T, f[1] = "appended", f[2].stream = s
          PROVE  f[2].offset < n /\ v[EntryKey(s, f[2].offset)] = f[2].payload
      <4>1. f[2].offset \in Nat /\ f[2].offset \in Offset /\ f[2].offset < b
        BY <3>9, <3>5, <2>3, Zenon
      <4>2. f[2].offset < n /\ ~(f[2].offset >= b)
        BY <4>1, <3>7
      <4>3. EntryKey(s, f[2].offset) \notin DOMAIN w
        BY <4>1, <4>2, <3>1, Zenon
      <4>. QED
        BY <4>1, <4>2, <4>3, <3>3, <3>5, <3>9, Zenon
    <3>10. ASSUME NEW f \in F, f[1] = "appended", f[2].stream = s
           PROVE  f[2].offset < n /\ v[EntryKey(s, f[2].offset)] = f[2].payload
      BY <3>10, <3>3, <3>4, Zenon
    <3>. QED
      BY <3>1, <3>2, <3>7, <3>8, <3>9, <3>10, Zenon DEF b
  <2>. QED
    BY <2>4, <2>5, Zenon
<1>. QED
  BY <1>1, Zenon DEF StreamMapOK

(* Writes of other primitives, alone or after others of a Transaction.     *)
NoStreamKinds == {"group"} \cup SubscriptionKinds \cup FeedKinds
NoStreamFacts == {"delivered", "settled"} \cup SubscriptionFacts \cup FeedFacts

LEMMA OthersExtend ==
  ASSUME NEW m, NEW w, NEW F, OfKinds(w, F, NoStreamKinds, NoStreamFacts)
  PROVE  /\ Extends(m, w, F)
         /\ \A v, G : Extends(m, v, G) => Extends(m, And(v, w), G \cup F)
<1>1. \A k \in DOMAIN w : k[1] # "next" /\ k[1] # "entry"
  BY Zenon DEF OfKinds, NoStreamKinds, SubscriptionKinds, FeedKinds
<1>2. \A s, o : NextKey(s) \notin DOMAIN w /\ EntryKey(s, o) \notin DOMAIN w
  BY <1>1, Zenon DEF NextKey, EntryKey
<1>3. \A f \in F : f[1] # "appended"
  BY Zenon DEF OfKinds, NoStreamFacts, SubscriptionFacts, FeedFacts
<1>4. Extends(m, w, F)
  BY <1>2, <1>3, Zenon DEF Extends
<1>5. ASSUME NEW v, NEW G, Extends(m, v, G)
      PROVE  Extends(m, And(v, w), G \cup F)
  <2>. DEFINE u == And(v, w)
  <2>1. \A s, o : /\ NextKey(s) \in DOMAIN u <=> NextKey(s) \in DOMAIN v
                  /\ EntryKey(s, o) \in DOMAIN u <=> EntryKey(s, o) \in DOMAIN v
                  /\ NextKey(s) \in DOMAIN v => u[NextKey(s)] = v[NextKey(s)]
                  /\ EntryKey(s, o) \in DOMAIN v => u[EntryKey(s, o)] = v[EntryKey(s, o)]
    BY <1>2, Zenon DEF And
  <2>. HIDE DEF u
  <2>2. \A f \in G \cup F : f[1] = "appended" => f \in G
    BY <1>3, Zenon
  <2>3. \A f \in G \cup F : f[1] = "appended" => AppendOK(f)
    BY <1>5, <2>2, Zenon DEF Extends
  <2>4. ASSUME NEW s \in Stream
        PROVE  /\ NextKey(s) \in DOMAIN u =>
                    /\ u[NextKey(s)] \in Offset
                    /\ u[NextKey(s)] >= NextOffset(m, s)
                    /\ \A o \in Offset : o >= NextOffset(m, s) /\ o < u[NextKey(s)] =>
                         EntryKey(s, o) \in DOMAIN u
               /\ \A o \in Offset : EntryKey(s, o) \in DOMAIN u =>
                    /\ NextKey(s) \in DOMAIN u
                    /\ o >= NextOffset(m, s)
                    /\ u[EntryKey(s, o)] # NoRecord
    BY <1>5, <2>1, Zenon DEF Extends
  <2>5. ASSUME NEW s \in Stream, NEW f \in G \cup F, f[1] = "appended", f[2].stream = s
        PROVE  /\ NextKey(s) \in DOMAIN u
               /\ EntryKey(s, f[2].offset) \in DOMAIN u
               /\ f[2].offset < u[NextKey(s)]
               /\ u[EntryKey(s, f[2].offset)] = f[2].payload
    BY <1>5, <2>1, <2>2, <2>5 DEF Extends
  <2>6. Extends(m, u, G \cup F)
    BY <2>3, <2>4, <2>5, Zenon DEF Extends
  <2>. QED
    BY <2>6, Zenon DEF u
<1>. QED
  BY <1>4, <1>5, Zenon

(* An append after the writes v, which counts from what they show.         *)
LEMMA AppendExtends ==
  ASSUME NEW m, NEW T, StreamMapOK(m, T), NEW v, NEW G, Extends(m, v, G),
         NEW s \in Stream, NEW p \in Payload, NEW o,
         o = IF NextKey(s) \in DOMAIN v THEN v[NextKey(s)] ELSE NextOffset(m, s),
         o < MaxOffset
  PROVE  Extends(m, And(v, And(Put(NextKey(s), o + 1), Put(EntryKey(s, o), p))),
                 G \cup {Appended(s, o, p)})
<1>. DEFINE u == And(v, And(Put(NextKey(s), o + 1), Put(EntryKey(s, o), p)))
            a == Appended(s, o, p)
            H == G \cup {a}
<1>1. a[1] = "appended" /\ a[2].stream = s /\ a[2].offset = o /\ a[2].payload = p
  BY Zenon DEF Appended
<1>2. /\ DOMAIN u = DOMAIN v \cup {NextKey(s), EntryKey(s, o)}
      /\ u[NextKey(s)] = o + 1 /\ u[EntryKey(s, o)] = p
      /\ \A k \in DOMAIN v : k # NextKey(s) /\ k # EntryKey(s, o) => u[k] = v[k]
  BY Zenon DEF And, Put, NextKey, EntryKey
<1>3. /\ \A t, e : NextKey(t) # EntryKey(s, e) /\ NextKey(s) # EntryKey(t, e)
      /\ \A t : NextKey(t) = NextKey(s) <=> t = s
      /\ \A t, e : EntryKey(t, e) = EntryKey(s, o) <=> t = s /\ e = o
  BY Zenon DEF NextKey, EntryKey
<1>4. Offset \subseteq Nat /\ MaxOffset \in Nat /\ p # NoRecord
  BY StreamAssumption DEF Offset
<1>5. NextOffset(m, s) \in Nat /\ NextOffset(m, s) \in Offset
  BY NextOffsetType, Zenon
<1>6. o \in Offset /\ o \in Nat /\ o >= NextOffset(m, s)
  <2>1. CASE NextKey(s) \in DOMAIN v
    <3>1. v[NextKey(s)] \in Offset /\ v[NextKey(s)] >= NextOffset(m, s)
      BY <2>1, Zenon DEF Extends
    <3>. QED
      BY <2>1, <3>1, <1>4, Zenon
  <2>2. CASE NextKey(s) \notin DOMAIN v
    BY <2>2, <1>5
  <2>. QED
    BY <2>1, <2>2, Zenon
<1>7. o + 1 \in Offset /\ o + 1 >= NextOffset(m, s)
  BY <1>4, <1>5, <1>6 DEF Offset
<1>. HIDE DEF u, a
<1>8. \A f \in H : f[1] = "appended" => AppendOK(f)
  BY <1>1, <1>6, Zenon DEF Extends, AppendOK
<1>9. ASSUME NEW t \in Stream, t # s
      PROVE  /\ NextKey(t) \in DOMAIN u <=> NextKey(t) \in DOMAIN v
             /\ NextKey(t) \in DOMAIN v => u[NextKey(t)] = v[NextKey(t)]
             /\ \A e : /\ EntryKey(t, e) \in DOMAIN u <=> EntryKey(t, e) \in DOMAIN v
                       /\ EntryKey(t, e) \in DOMAIN v => u[EntryKey(t, e)] = v[EntryKey(t, e)]
  BY <1>2, <1>3, <1>9
<1>10. ASSUME NEW t \in Stream
       PROVE  /\ NextKey(t) \in DOMAIN u =>
                   /\ u[NextKey(t)] \in Offset
                   /\ u[NextKey(t)] >= NextOffset(m, t)
                   /\ \A e \in Offset : e >= NextOffset(m, t) /\ e < u[NextKey(t)] =>
                        EntryKey(t, e) \in DOMAIN u
              /\ \A e \in Offset : EntryKey(t, e) \in DOMAIN u =>
                   /\ NextKey(t) \in DOMAIN u
                   /\ e >= NextOffset(m, t)
                   /\ u[EntryKey(t, e)] # NoRecord
              /\ \A f \in H : f[1] = "appended" /\ f[2].stream = t =>
                   /\ NextKey(t) \in DOMAIN u
                   /\ EntryKey(t, f[2].offset) \in DOMAIN u
                   /\ f[2].offset < u[NextKey(t)]
                   /\ u[EntryKey(t, f[2].offset)] = f[2].payload
  <2>1. CASE t # s
    <3>1. \A f \in H : f[1] = "appended" /\ f[2].stream = t => f \in G
      BY <2>1, <1>1, Zenon
    <3>. QED
      BY <2>1, <3>1, <1>9 DEF Extends
  <2>2. CASE t = s
    <3>1. ASSUME NEW e \in Offset, e >= NextOffset(m, s), e < o + 1
          PROVE  EntryKey(s, e) \in DOMAIN u
      <4>1. e = o \/ e < o
        BY <3>1, <1>4, <1>6
      <4>2. CASE e < o
        <5>1. NextKey(s) \in DOMAIN v
          BY <4>2, <3>1, <1>4, <1>5, <1>6
        <5>. QED
          BY <5>1, <4>2, <3>1, <1>2, Zenon DEF Extends
      <4>. QED
        BY <4>1, <4>2, <1>2, Zenon
    <3>2. ASSUME NEW e \in Offset, EntryKey(s, e) \in DOMAIN u
          PROVE  e >= NextOffset(m, s) /\ u[EntryKey(s, e)] # NoRecord
      <4>1. CASE e = o
        BY <4>1, <1>2, <1>4, <1>6, Zenon
      <4>2. CASE e # o
        <5>1. EntryKey(s, e) # EntryKey(s, o) /\ EntryKey(s, e) # NextKey(s)
          BY <4>2, <1>3, Zenon
        <5>2. EntryKey(s, e) \in DOMAIN v /\ u[EntryKey(s, e)] = v[EntryKey(s, e)]
          BY <5>1, <3>2, <1>2, Zenon
        <5>. QED
          BY <5>2, Zenon DEF Extends
      <4>. QED
        BY <4>1, <4>2, Zenon
    <3>3. ASSUME NEW f \in G, f[1] = "appended", f[2].stream = s
          PROVE  /\ EntryKey(s, f[2].offset) \in DOMAIN u
                 /\ f[2].offset < o + 1
                 /\ u[EntryKey(s, f[2].offset)] = f[2].payload
      <4>1. /\ NextKey(s) \in DOMAIN v /\ f[2].offset < v[NextKey(s)]
            /\ EntryKey(s, f[2].offset) \in DOMAIN v
            /\ v[EntryKey(s, f[2].offset)] = f[2].payload
            /\ f[2].offset \in Offset
        BY <3>3, Zenon DEF Extends, AppendOK
      <4>2. f[2].offset < o /\ f[2].offset \in Nat
        BY <4>1, <1>4, Zenon
      <4>3. f[2].offset # o /\ f[2].offset < o + 1
        BY <4>2, <1>6
      <4>4. EntryKey(s, f[2].offset) # EntryKey(s, o) /\ EntryKey(s, f[2].offset) # NextKey(s)
        BY <4>3, <1>3, Zenon
      <4>. QED
        BY <4>1, <4>3, <4>4, <1>2, Zenon
    <3>4. o < o + 1
      BY <1>6
    <3>. QED
      BY <2>2, <3>1, <3>2, <3>3, <3>4, <1>1, <1>2, <1>7, Zenon
  <2>. QED
    BY <2>1, <2>2, Zenon
<1>11. Extends(m, u, H)
  BY <1>8, <1>10, Zenon DEF Extends
<1>. QED
  BY <1>11, Zenon DEF u, a

-----------------------------------------------------------------------------
(* The steps.                                                              *)

LEMMA GroupForms ==
  ASSUME GroupSteps
  PROVE  StepOf({"group"}, {"delivered", "settled", "reset"})
<1>1. \A s, g, rec, f : f[1] \in {"delivered", "settled", "reset"} =>
        /\ OfKinds(Put(GroupKey(s, g), rec), {f} \cup {}, {"group"}, {"delivered", "settled", "reset"})
        /\ OfKinds(Put(GroupKey(s, g), rec), {} \cup {f}, {"group"}, {"delivered", "settled", "reset"})
  BY DEF OfKinds, Put, GroupKey
<1>2. /\ \A s, g, c, o, n, p : Delivered(s, g, c, o, n, p)[1] \in {"delivered", "settled", "reset"}
      /\ \A s, g, n, latest : Settled(s, g, n, latest)[1] \in {"delivered", "settled", "reset"}
      /\ \A s, b, n : ResetTo(s, b, n)[1] \in {"delivered", "settled", "reset"}
  BY Zenon DEF Delivered, Settled, ResetTo
<1>3. ASSUME NEW w, NEW facts, NEW asked, AloneAsking(w, facts, asked),
             OfKinds(w, facts \cup asked, {"group"}, {"delivered", "settled", "reset"})
      PROVE  StepOf({"group"}, {"delivered", "settled", "reset"})
  BY <1>3, Zenon DEF AloneAsking, Idle, StepOf
<1>4. ASSUME NEW s \in Stream, NEW g \in Group, NEW c \in Consumer,
             NEW now \in 0 .. MaxTime, NEW duration \in 0 .. MaxTime,
             ConsumerGroupClaim(s, g, c, now, duration)
      PROVE  StepOf({"group"}, {"delivered", "settled", "reset"})
  <2>. DEFINE state == GroupState(mem, s, g)
  <2>1. PICK o \in ReadFrom(s, state.next_offset, 1) :
          Alone(Put(GroupKey(s, g), LeasedTo(state, c, o, now + duration)),
                {Delivered(s, g, c, o, state.lease_generation + 1, mem[EntryKey(s, o)])})
    BY <1>4, Zenon DEF ConsumerGroupClaim
  <2>2. AloneAsking(Put(GroupKey(s, g), LeasedTo(state, c, o, now + duration)),
                    {Delivered(s, g, c, o, state.lease_generation + 1, mem[EntryKey(s, o)])}, {})
    BY <2>1, Zenon DEF Alone
  <2>. QED
    BY <2>2, <1>1, <1>2, <1>3
<1>5. ASSUME NEW s \in Stream, NEW g \in Group, NEW now, ConsumerGroupClaimNothing(s, g, now)
      PROVE  StepOf({"group"}, {"delivered", "settled", "reset"})
  <2>1. PICK rec : AloneAsking(Put(GroupKey(s, g), rec), {}, {})
    BY <1>5, Zenon DEF ConsumerGroupClaimNothing, Alone
  <2>2. OfKinds(Put(GroupKey(s, g), rec), {} \cup {}, {"group"}, {"delivered", "settled", "reset"})
    BY DEF OfKinds, Put, GroupKey
  <2>. QED
    BY <2>1, <2>2, <1>3, Zenon
<1>6. ASSUME NEW s \in Stream, NEW g \in Group, NEW n \in Offset, ConsumerGroupReset(s, g, n)
      PROVE  StepOf({"group"}, {"delivered", "settled", "reset"})
  <2>1. PICK rec : AloneAsking(Put(GroupKey(s, g), rec), {}, {ResetTo(s, g, n)})
    BY <1>6, Zenon DEF ConsumerGroupReset
  <2>. QED
    BY <2>1, <1>1, <1>2, <1>3
<1>7. ASSUME NEW f \in told, ConsumerGroupAck(f) \/ ConsumerGroupNack(f)
      PROVE  StepOf({"group"}, {"delivered", "settled", "reset"})
  <2>1. PICK rec : Settle(f, rec)
    BY <1>7, Zenon DEF ConsumerGroupAck, ConsumerGroupNack
  <2>2. PICK latest : AloneAsking(Put(GroupKey(f[2].stream, f[2].group), rec),
                                  {Settled(f[2].stream, f[2].group, f[2].generation, latest)}, {})
    BY <2>1, Zenon DEF Settle, Alone
  <2>. QED
    BY <2>2, <1>1, <1>2, <1>3
<1>. QED
  BY <1>4, <1>5, <1>6, <1>7, Zenon DEF GroupSteps

(* A transaction that extends the streams, committed or in doubt.          *)
LEMMA ExtendingCommit ==
  ASSUME StreamInv, NEW w, NEW facts, NEW asked, NEW next,
         Extends(mem, w, facts), \A f \in asked : f[1] # "appended",
         Commits(w, facts, asked, next), stage' = NoTx
  PROVE  StreamInv'
<1>1. MediumOK' /\ OneAtATime' /\ Newest' = Written(Newest, w)
  BY CommitMaps, Zenon DEF StreamInv, OneAtATime
<1>2. StreamMapOK(mem, told) /\ StreamMapOK(Newest, told)
  BY NewestIsCopy, Zenon DEF StreamInv
<1>3. \A s \in Stream : NextOffset(mem, s) <= NextOffset(mem, s)
  BY <1>2, NextOffsetType
<1>4. /\ StreamMapOK(Written(mem, w), told \cup facts)
      /\ \A s \in Stream : NextOffset(Written(mem, w), s) <= NextOffset(Written(mem, w), s)
  BY <1>2, <1>3, ExtendedMap, ZenonT(60) DEF StreamInv
<1>5. /\ StreamMapOK(Written(Newest, w), told \cup facts)
      /\ \A s \in Stream : /\ NextOffset(mem, s) <= NextOffset(Written(Newest, w), s)
                           /\ NextOffset(Written(mem, w), s) <= NextOffset(Written(Newest, w), s)
  BY <1>2, ExtendedMap, ZenonT(60) DEF StreamInv
<1>6. \A m, T : StreamMapOK(m, T) => StreamMapOK(m, T \cup asked)
  BY Zenon DEF StreamMapOK
<1>7. \A m : StreamMapOK(m, told \cup facts) => StreamMapOK(m, told \cup asked)
  BY Zenon DEF StreamMapOK
<1>8. \A f \in told \cup asked \cup facts : f[1] = "appended" => AppendOK(f)
  BY Zenon DEF StreamInv, Extends
<1>9. CASE /\ told' = told \cup asked \cup facts
           /\ mem' = Written(mem, w)
           /\ \A i \in Copy' : \E m \in {mem, Newest} : Map(i)' = Written(m, w)
  <2>1. told' = (told \cup facts) \cup asked
    BY <1>9, Zenon
  <2>2. StreamMapOK(Written(mem, w), told') /\ StreamMapOK(Written(Newest, w), told')
    BY <2>1, <1>4, <1>5, <1>6, Zenon
  <2>3. \A i \in Copy' : StreamMapOK(Map(i)', told')
    BY <2>2, <1>9, Zenon
  <2>4. \A s \in Stream : NextOffset(mem', s) <= NextOffset(Newest', s)
    BY <1>1, <1>5, <1>9, Zenon
  <2>5. \A f \in told' : f[1] = "appended" => AppendOK(f)
    BY <1>8, <1>9, Zenon
  <2>. QED
    BY <1>1, <2>3, <2>4, <2>5, Zenon DEF StreamInv, AppendOK, NextOffset, StreamMapOK
<1>10. CASE /\ told' = told \cup asked
            /\ mem' = mem
            /\ \A i \in Copy' : \/ Map(i)' = Written(Newest, w)
                                \/ \E j \in Copy : Map(i)' = Map(j)
  <2>1. \A i \in Copy' : StreamMapOK(Map(i)', told')
    BY <1>5, <1>6, <1>7, <1>10, Zenon DEF StreamInv
  <2>2. \A s \in Stream : NextOffset(mem', s) <= NextOffset(Newest', s)
    BY <1>1, <1>5, <1>10, Zenon
  <2>3. \A f \in told' : f[1] = "appended" => AppendOK(f)
    BY <1>8, <1>10, Zenon
  <2>. QED
    BY <1>1, <2>1, <2>2, <2>3 DEF StreamInv, AppendOK, NextOffset, StreamMapOK
<1>. QED
  BY <1>9, <1>10, CommitMaps, Zenon DEF StreamInv

(* What remains when the maps are what they were, or some of them.         *)
LEMMA StreamsSame ==
  ASSUME StreamInv, MediumOK', OneAtATime',
         \A f \in told' : f[1] = "appended" => f \in told,
         \A i \in Copy' : \E j \in Copy : Map(i)' = Map(j),
         \A s \in Stream : NextOffset(mem', s) <= NextOffset(Newest', s),
         stage' # NoTx => Extends(mem', stage'.writes, stage'.facts)
  PROVE  StreamInv'
<1>1. \A m : StreamMapOK(m, told) => StreamMapOK(m, told')
  BY Zenon DEF StreamMapOK
<1>2. \A i \in Copy' : StreamMapOK(Map(i)', told')
  BY <1>1, Zenon DEF StreamInv
<1>3. \A f \in told' : f[1] = "appended" => AppendOK(f)
  BY Zenon DEF StreamInv
<1>. QED
  BY <1>2, <1>3, Zenon DEF StreamInv, AppendOK, NextOffset, StreamMapOK, Extends

LEMMA StreamsElse ==
  ASSUME StreamInv, StepOf(NoStreamKinds, NoStreamFacts)
  PROVE  StreamInv'
<1>1. \A w, F : OfKinds(w, F, NoStreamKinds, NoStreamFacts) => \A f \in F : f[1] # "appended"
  BY Zenon DEF OfKinds, NoStreamFacts, SubscriptionFacts, FeedFacts
<1>2. ASSUME NEW w, NEW facts, NEW asked, NEW next,
             OfKinds(w, facts \cup asked, NoStreamKinds, NoStreamFacts),
             Commits(w, facts, asked, next), stage = NoTx, stage' = stage
      PROVE  StreamInv'
  <2>1. OfKinds(w, facts, NoStreamKinds, NoStreamFacts) /\ OfKinds(w, asked, NoStreamKinds, NoStreamFacts)
    BY <1>2, Zenon DEF OfKinds
  <2>2. Extends(mem, w, facts) /\ \A f \in asked : f[1] # "appended"
    BY <1>1, <2>1, OthersExtend, Zenon
  <2>. QED
    BY <1>2, <2>2, ExtendingCommit, Zenon
<1>3. ASSUME NEW w, NEW facts, OfKinds(w, facts, NoStreamKinds, NoStreamFacts), Staged(w, facts)
      PROVE  StreamInv'
  <2>1. MediumOK' /\ OneAtATime' /\ told' = told /\ mem' = mem /\ Newest' = Newest
    BY <1>3, Zenon DEF Staged, StreamInv, MediumOK, OneAtATime, Newest
  <2>2. \A i \in Copy' : \E j \in Copy : Map(i)' = Map(j)
    BY <1>3, Zenon DEF Staged, Copy, Map
  <2>3. Extends(mem', stage'.writes, stage'.facts)
    BY <1>3, OthersExtend, ZenonT(60) DEF Staged, StreamInv
  <2>4. \A s \in Stream : NextOffset(mem', s) <= NextOffset(Newest', s)
    BY <2>1, Zenon DEF StreamInv
  <2>5. \A f \in told' : f[1] = "appended" => f \in told
    BY <2>1, Zenon
  <2>. QED
    BY <2>1, <2>2, <2>3, <2>4, <2>5, StreamsSame, Zenon
<1>4. ASSUME NEW w, OfKinds(w, {}, NoStreamKinds, NoStreamFacts), BeginWith(w)
      PROVE  StreamInv'
  <2>1. MediumOK' /\ OneAtATime' /\ told' = told /\ mem' = mem /\ Newest' = Newest
    BY <1>4, Zenon DEF BeginWith, Idle, StreamInv, MediumOK, OneAtATime, Newest
  <2>2. \A i \in Copy' : \E j \in Copy : Map(i)' = Map(j)
    BY <1>4, Zenon DEF BeginWith, Copy, Map
  <2>3. Extends(mem', stage'.writes, stage'.facts)
    BY <1>4, OthersExtend, Zenon DEF BeginWith
  <2>4. \A s \in Stream : NextOffset(mem', s) <= NextOffset(Newest', s)
    BY <2>1 DEF StreamInv
  <2>5. \A f \in told' : f[1] = "appended" => f \in told
    BY <2>1
  <2>. QED
    BY <2>1, <2>2, <2>3, <2>4, <2>5, StreamsSame
<1>5. ASSUME NEW w, NEW facts, OfKinds(w, facts, NoStreamKinds, NoStreamFacts),
             mem' = Written(mem, w), medium' = <<mem'>>, told' = told \cup facts,
             stage = NoTx, stage' = stage, call' = call
      PROVE  StreamInv'
  <2>1. MediumOK' /\ OneAtATime' /\ Newest' = mem' /\ \A i \in Copy' : Map(i)' = mem'
    BY <1>5, OneMap, Zenon DEF OneAtATime
  <2>2. StreamMapOK(mem, told) /\ \A s \in Stream : NextOffset(mem, s) <= NextOffset(mem, s)
    BY NewestIsCopy, NextOffsetType DEF StreamInv
  <2>3. Extends(mem, w, facts)
    BY <1>5, OthersExtend, Zenon
  <2>4. /\ StreamMapOK(Written(mem, w), told \cup facts)
        /\ \A s \in Stream : NextOffset(Written(mem, w), s) <= NextOffset(Written(mem, w), s)
    BY <2>2, <2>3, ExtendedMap, ZenonT(60) DEF StreamInv
  <2>5. \A i \in Copy' : StreamMapOK(Map(i)', told')
    BY <1>5, <2>1, <2>4, Zenon
  <2>6. \A s \in Stream : NextOffset(mem', s) <= NextOffset(Newest', s)
    BY <1>5, <2>1, <2>4, Zenon
  <2>7. \A f \in told' : f[1] = "appended" => AppendOK(f)
    BY <1>1, <1>5, Zenon DEF StreamInv
  <2>. QED
    BY <1>5, <2>1, <2>5, <2>6, <2>7, Zenon DEF StreamInv, AppendOK, NextOffset, StreamMapOK
<1>6. ASSUME NEW facts, OfKinds(Nothing, facts, NoStreamKinds, NoStreamFacts),
             told' = told \cup facts, UNCHANGED <<mem, medium, stage>>,
             call' = call \/ call' = NoCall \/ stage = NoTx
      PROVE  StreamInv'
  <2>1. MediumOK' /\ OneAtATime' /\ mem' = mem /\ Newest' = Newest
    BY <1>6, Zenon DEF StreamInv, MediumOK, OneAtATime, Newest
  <2>2. \A i \in Copy' : \E j \in Copy : Map(i)' = Map(j)
    BY <1>6, Zenon DEF Copy, Map
  <2>3. stage' # NoTx => Extends(mem', stage'.writes, stage'.facts)
    BY <1>6, Zenon DEF StreamInv
  <2>4. \A s \in Stream : NextOffset(mem', s) <= NextOffset(Newest', s)
    BY <2>1, Zenon DEF StreamInv
  <2>5. \A f \in told' : f[1] = "appended" => f \in told
    BY <1>1, <1>6, Zenon
  <2>. QED
    BY <2>1, <2>2, <2>3, <2>4, <2>5, StreamsSame, Zenon
<1>. QED
  BY <1>2, <1>3, <1>4, <1>5, <1>6, ZenonT(60) DEF StepOf

LEMMA StreamsAppend ==
  ASSUME StreamInv, AppendSteps
  PROVE  StreamInv'
<1>1. PICK s \in Stream, p \in Payload : StreamAppend(s, p) \/ TxAppendStream(s, p)
  BY Zenon DEF AppendSteps
<1>2. StreamMapOK(mem, told)
  BY NewestIsCopy, Zenon DEF StreamInv
<1>3. CASE StreamAppend(s, p)
  <2>. DEFINE o == NextOffset(mem, s)
              w == And(Put(NextKey(s), o + 1), Put(EntryKey(s, o), p))
  <2>1. /\ o < MaxOffset /\ stage = NoTx
        /\ Commits(AppendWrites(s, p), {Appended(s, o, p)}, {}, NoCall) /\ stage' = stage
    BY <1>3, Zenon DEF StreamAppend, Alone, AloneAsking, Idle
  <2>2. AppendWrites(s, p) = w
    BY <2>1, Zenon DEF AppendWrites, View
  <2>3. Extends(mem, Nothing, {})
    BY Zenon DEF Extends, Nothing
  <2>4. NextKey(s) \notin DOMAIN Nothing
    BY Zenon DEF Nothing
  <2>5. Extends(mem, And(Nothing, w), {} \cup {Appended(s, o, p)})
    BY <1>2, <2>1, <2>3, <2>4, AppendExtends, Zenon
  <2>6. And(Nothing, w) = w
    BY Zenon DEF And, Nothing, Put
  <2>7. Extends(mem, AppendWrites(s, p), {Appended(s, o, p)})
    <3>. HIDE DEF w, o
    <3>. QED
      BY <2>2, <2>5, <2>6, Zenon
  <2>. HIDE DEF w, o
  <2>8. stage' = NoTx /\ \A f \in {} : f[1] # "appended"
    BY <2>1, Zenon
  <2>. QED
    BY <2>1, <2>7, <2>8, ExtendingCommit
<1>4. CASE TxAppendStream(s, p)
  <2>. DEFINE o == NextOffset(View, s)
  <2>1. /\ o < MaxOffset /\ stage # NoTx
        /\ stage'.writes = And(stage.writes, AppendWrites(s, p))
        /\ stage'.facts = stage.facts \cup {Appended(s, o, p)}
        /\ UNCHANGED <<mem, medium, call, told>>
    BY <1>4, Zenon DEF TxAppendStream, Staged
  <2>2. Extends(mem, stage.writes, stage.facts)
    BY <2>1, Zenon DEF StreamInv
  <2>3. o = IF NextKey(s) \in DOMAIN stage.writes THEN stage.writes[NextKey(s)]
            ELSE NextOffset(mem, s)
    <3>1. o = NextOffset(Written(mem, stage.writes), s)
      BY <2>1, Zenon DEF View
    <3>2. NextKey(s) \in DOMAIN stage.writes => stage.writes[NextKey(s)] \in Offset
      BY <2>2, Zenon DEF Extends
    <3>. HIDE DEF o
    <3>. QED
      BY <3>1, <3>2, WrittenStream
  <2>4. AppendWrites(s, p) = And(Put(NextKey(s), o + 1), Put(EntryKey(s, o), p))
    BY Zenon DEF AppendWrites
  <2>. HIDE DEF o
  <2>5. Extends(mem, stage'.writes, stage'.facts)
    <3>. DEFINE w == And(Put(NextKey(s), o + 1), Put(EntryKey(s, o), p))
    <3>1. o < MaxOffset
      BY <2>1, Zenon
    <3>2. Extends(mem, And(stage.writes, w), stage.facts \cup {Appended(s, o, p)})
      BY <1>2, <2>2, <2>3, <3>1, AppendExtends, Zenon
    <3>. HIDE DEF w
    <3>. QED
      BY <2>1, <2>4, <3>2, Zenon DEF w
  <2>6. MediumOK' /\ OneAtATime' /\ mem' = mem /\ Newest' = Newest
    BY <2>1, Zenon DEF StreamInv, MediumOK, OneAtATime, Newest
  <2>7. \A i \in Copy' : \E j \in Copy : Map(i)' = Map(j)
    BY <2>1, Zenon DEF Copy, Map
  <2>8. \A n \in Stream : NextOffset(mem', n) <= NextOffset(Newest', n)
    BY <2>6, Zenon DEF StreamInv
  <2>9. \A f \in told' : f[1] = "appended" => f \in told
    BY <2>1, Zenon
  <2>10. stage' # NoTx => Extends(mem', stage'.writes, stage'.facts)
    BY <2>5, <2>6, Zenon
  <2>. QED
    BY <2>6, <2>7, <2>8, <2>9, <2>10, StreamsSame, Zenon
<1>. QED
  BY <1>1, <1>3, <1>4, Zenon

LEMMA StreamsTransactionSteps ==
  ASSUME StreamInv, TransactionSteps \/ Reopen
  PROVE  StreamInv'
<1>1. CASE Commit
  <2>1. Extends(mem, stage.writes, stage.facts) /\ \A f \in {} : f[1] # "appended"
    BY <1>1, Zenon DEF Commit, StreamInv
  <2>. QED
    BY <1>1, <2>1, ExtendingCommit DEF Commit
<1>2. CASE Rollback \/ CallFails
  <2>1. /\ MediumOK' /\ OneAtATime' /\ told' = told /\ mem' = mem /\ Newest' = Newest
        /\ stage' = stage \/ stage' = NoTx
    BY <1>2, Zenon DEF Rollback, CallFails, CallSkips, StreamInv, MediumOK, OneAtATime, Newest
  <2>2. \A i \in Copy' : \E j \in Copy : Map(i)' = Map(j)
    BY <1>2, Zenon DEF Rollback, CallFails, CallSkips, Copy, Map
  <2>3. stage' # NoTx => Extends(mem', stage'.writes, stage'.facts)
    BY <2>1, Zenon DEF StreamInv
  <2>4. \A s \in Stream : NextOffset(mem', s) <= NextOffset(Newest', s)
    BY <2>1, Zenon DEF StreamInv
  <2>5. \A f \in told' : f[1] = "appended" => f \in told
    BY <2>1, Zenon
  <2>. QED
    BY <2>1, <2>2, <2>3, <2>4, <2>5, StreamsSame, Zenon
<1>3. CASE FlushStore \/ Reopen
  <2>1. /\ MediumOK' /\ OneAtATime' /\ told' = told /\ stage' = NoTx
        /\ \A i \in Copy' : \E j \in Copy : Map(i)' = Map(j)
        /\ Newest' = mem' \/ (mem' = mem /\ Newest' = Newest)
    BY <1>3, FlushMaps, ReopenMaps, Zenon DEF FlushStore, Reopen, Idle, StreamInv, OneAtATime
  <2>2. PICK j \in Copy : mem' = Map(j)
    BY <2>1, <1>3, ReopenMaps, NewestIsCopy, FlushMaps DEF FlushStore, Reopen, Restart, PowerLoss,
       StreamInv, Copy, Map, Newest
  <2>3. \A s \in Stream : NextOffset(mem', s) <= NextOffset(mem', s)
    BY <2>2, NextOffsetType DEF StreamInv
  <2>4. \A s \in Stream : NextOffset(mem', s) <= NextOffset(Newest', s)
    BY <2>1, <2>3, Zenon DEF StreamInv
  <2>5. \A f \in told' : f[1] = "appended" => f \in told
    BY <2>1, Zenon
  <2>. QED
    BY <2>1, <2>4, <2>5, StreamsSame, Zenon
<1>. QED
  BY <1>1, <1>2, <1>3, Zenon DEF TransactionSteps

LEMMA StreamsInit == Init => StreamInv
<1>. SUFFICES ASSUME Init
              PROVE  StreamInv
  BY Zenon
<1>. DEFINE m == [k \in RecordKey |-> NoRecord]
<1>1. mem = m /\ medium = <<m>> /\ stage = NoTx /\ told = {}
  BY Zenon DEF Init, InitFeeds, InitTransactions, InitRecords
<1>2. medium \in Seq({m}) /\ Len(medium) = 1 /\ medium[1] = m /\ DOMAIN medium = 1 .. 1
  BY <1>1
<1>3. {medium[i] : i \in DOMAIN medium} = {m} /\ medium # << >>
  BY <1>2
<1>4. \A s \in Stream : m[NextKey(s)] = NoRecord
  BY StreamKeysAreKeys, Zenon
<1>5. \A s \in Stream : NextOffset(m, s) = 0
  BY <1>4, Zenon DEF NextOffset
<1>. HIDE DEF m
<1>6. \A o \in Offset : ~(o < 0)
  BY StreamAssumption DEF Offset
<1>7. StreamMapOK(m, told)
  BY <1>1, <1>4, <1>5, <1>6, Zenon DEF StreamMapOK
<1>8. \A i \in Copy : Map(i) = m
  BY <1>1, <1>2 DEF Copy, Map
<1>9. \A s \in Stream : NextOffset(mem, s) <= NextOffset(Newest, s)
  BY <1>1, <1>2, <1>5 DEF Newest
<1>. QED
  BY <1>1, <1>2, <1>3, <1>7, <1>8, <1>9, Zenon DEF StreamInv, MediumOK, OneAtATime

LEMMA StreamsNext == StreamInv /\ [Next]_vars => StreamInv'
<1>. SUFFICES ASSUME StreamInv, [Next]_vars
              PROVE  StreamInv'
  BY Zenon
<1>1. /\ {"group"} \subseteq NoStreamKinds /\ {"delivered", "settled", "reset"} \subseteq NoStreamFacts
      /\ SubscriptionKinds \subseteq NoStreamKinds /\ SubscriptionFacts \subseteq NoStreamFacts
      /\ FeedKinds \subseteq NoStreamKinds /\ FeedFacts \subseteq NoStreamFacts
  BY Zenon DEF NoStreamKinds, NoStreamFacts, SubscriptionFacts
<1>2. CASE FeedSteps
  BY <1>1, <1>2, FeedForms, LargerKinds, StreamsElse, Zenon DEF StreamInv
<1>3. CASE AppendSteps
  BY <1>3, StreamsAppend, Zenon
<1>4. CASE SubscriptionSteps
  BY <1>1, <1>4, SubscriptionForms, LargerKinds, StreamsElse, Zenon
<1>5. CASE GroupSteps
  BY <1>1, <1>5, GroupForms, LargerKinds, StreamsElse
<1>6. CASE TransactionSteps \/ ReopenFeeds
  BY <1>6, StreamsTransactionSteps, Zenon DEF ReopenFeeds
<1>7. CASE UNCHANGED vars
  <2>1. /\ MediumOK' /\ OneAtATime' /\ told' = told /\ stage' = stage
        /\ mem' = mem /\ Newest' = Newest
    BY <1>7, Zenon DEF vars, txVars, StreamInv, MediumOK, OneAtATime, Newest
  <2>2. \A i \in Copy' : \E j \in Copy : Map(i)' = Map(j)
    BY <1>7, Zenon DEF vars, txVars, Copy, Map
  <2>3. stage' # NoTx => Extends(mem', stage'.writes, stage'.facts)
    BY <2>1, Zenon DEF StreamInv
  <2>4. \A s \in Stream : NextOffset(mem', s) <= NextOffset(Newest', s)
    BY <2>1, Zenon DEF StreamInv
  <2>5. \A f \in told' : f[1] = "appended" => f \in told
    BY <2>1, Zenon
  <2>. QED
    BY <2>1, <2>2, <2>3, <2>4, <2>5, StreamsSame, Zenon
<1>. QED
  BY <1>2, <1>3, <1>4, <1>5, <1>6, <1>7, Zenon DEF Next, TxIdSteps, FeedSteps

(* Every entry that append or append_stream reported stays at its offset,  *)
(* and a stream has no holes, in memory and in everything that a recovery  *)
(* may find, through Transactions that are committed, dropped or in doubt, *)
(* crashes and copies of the store. (messaging.rs, transaction_domains.rs) *)
THEOREM StreamsAreKept == Spec => []StreamsKeepEntries
<1>1. StreamInv => StreamsKeepEntries
  <2>. SUFFICES ASSUME StreamInv
                PROVE  StreamsKeepEntries
    BY Zenon
  <2>1. Offset \subseteq Nat
    BY StreamAssumption DEF Offset
  <2>2. ASSUME NEW f \in told, f[1] = "appended", NEW i \in Copy
        PROVE  /\ Map(i)[EntryKey(f[2].stream, f[2].offset)] = f[2].payload
               /\ NextOffset(Map(i), f[2].stream) > f[2].offset
    <3>1. f[2].stream \in Stream /\ f[2].offset \in Nat
      BY <2>1, <2>2, ZenonT(60) DEF StreamInv, AppendOK
    <3>2. StreamMapOK(Map(i), told) /\ NextOffset(Map(i), f[2].stream) \in Nat
      BY <3>1, NextOffsetType, Zenon DEF StreamInv
    <3>3. /\ f[2].offset < NextOffset(Map(i), f[2].stream)
          /\ Map(i)[EntryKey(f[2].stream, f[2].offset)] = f[2].payload
      BY <2>2, <3>1, <3>2, Zenon DEF StreamMapOK
    <3>. QED
      BY <3>1, <3>2, <3>3, Zenon
  <2>3. ASSUME NEW i \in Copy, NEW s \in Stream, NEW o \in 0 .. NextOffset(Map(i), s) - 1
        PROVE  Map(i)[EntryKey(s, o)] # NoRecord
    <3>1. StreamMapOK(Map(i), told) /\ NextOffset(Map(i), s) \in Offset /\ NextOffset(Map(i), s) \in Nat
      BY NextOffsetType, Zenon DEF StreamInv
    <3>2. o \in Offset /\ o < NextOffset(Map(i), s)
      BY <3>1, StreamAssumption DEF Offset
    <3>. QED
      BY <3>1, <3>2, Zenon DEF StreamMapOK
  <2>. QED
    BY <2>2, <2>3, Zenon DEF StreamsKeepEntries, AppendedIsKept, NoHoles
<1>. QED
  BY <1>1, StreamsInit, StreamsNext, PTL DEF Spec

=============================================================================
