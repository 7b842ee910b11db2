---------------------------- MODULE DeliveryProofs ---------------------------
(***************************************************************************)
(* Durable subscriptions and consumer groups skip no entry that an append  *)
(* reported, and acknowledged cursors do not fall, beside everything else  *)
(* that happens in the Store. (Module MessagingProofs has the forms of the *)
(* steps, and the streams themselves.)                                     *)
(***************************************************************************)
EXTENDS MessagingProofs

-----------------------------------------------------------------------------
(* Readers of streams. A step that concerns other records leaves those of  *)
(* the kinds K as some map had them, and tells nothing new of the kinds L. *)

Passes(K, L) ==
  /\ told \subseteq told' /\ doubted \subseteq doubted'
  /\ \A f \in told' : f[1] \in L => f \in told
  /\ \A i \in Copy' : \E j \in Copy :
       \A k \in RecordKey : k[1] \in K => Map(i)'[k] = Map(j)[k]

LEMMA SameMapsPass ==
  ASSUME NEW K, NEW L, told \subseteq told', doubted \subseteq doubted',
         \A f \in told' : f[1] \in L => f \in told,
         \A i \in Copy' : \E j \in Copy : Map(i)' = Map(j)
  PROVE  Passes(K, L)
BY Zenon DEF Passes

LEMMA CommitPasses ==
  ASSUME MediumOK, NEW K, NEW L, NEW M, NEW N, K \cap M = {}, L \cap N = {},
         NEW w, NEW facts, NEW asked, NEW next,
         OfKinds(w, facts \cup asked, M, N), Commits(w, facts, asked, next)
  PROVE  Passes(K, L)
<1>1. \A m : \A k \in RecordKey : k[1] \in K => Written(m, w)[k] = m[k]
  <2>. SUFFICES ASSUME NEW m, NEW k \in RecordKey, k[1] \in K
                PROVE  Written(m, w)[k] = m[k]
    BY Zenon
  <2>1. k \notin DOMAIN w
    BY Zenon DEF OfKinds
  <2>. QED
    BY <2>1, Zenon DEF Written
<1>2. told \subseteq told' /\ told' \subseteq told \cup asked \cup facts /\ doubted \subseteq doubted'
  BY DEF Commits
<1>3. \A f \in told' : f[1] \in L => f \in told
  BY <1>2, Zenon DEF OfKinds
<1>4. \A i \in Copy' : \/ \E m \in {mem, Newest} : Map(i)' = Written(m, w)
                       \/ \E j \in Copy : Map(i)' = Map(j)
  BY CommitMaps, Zenon
<1>5. (\E j \in Copy : mem = Map(j)) /\ (\E j \in Copy : Newest = Map(j))
  BY NewestIsCopy, Zenon
<1>6. ASSUME NEW i \in Copy'
      PROVE  \E j \in Copy : \A k \in RecordKey : k[1] \in K => Map(i)'[k] = Map(j)[k]
  <2>1. CASE \E m \in {mem, Newest} : Map(i)' = Written(m, w)
    <3>1. PICK m \in {mem, Newest} : Map(i)' = Written(m, w)
      BY <2>1, Zenon
    <3>2. PICK j \in Copy : m = Map(j)
      BY <3>1, <1>5, Zenon
    <3>. QED
      BY <3>1, <3>2, <1>1, Zenon
  <2>2. CASE \E j \in Copy : Map(i)' = Map(j)
    BY <2>2, Zenon
  <2>. QED
    BY <2>1, <2>2, <1>4, Zenon
<1>. QED
  BY <1>2, <1>3, <1>6, Zenon DEF Passes

LEMMA StepPasses ==
  ASSUME MediumOK, NEW K, NEW L, NEW M, NEW N, K \cap M = {}, L \cap N = {}, StepOf(M, N)
  PROVE  Passes(K, L)
<1>1. ASSUME NEW w, NEW facts, NEW asked, NEW next,
             OfKinds(w, facts \cup asked, M, N), Commits(w, facts, asked, next)
      PROVE  Passes(K, L)
  BY <1>1, CommitPasses, Zenon
<1>2. ASSUME UNCHANGED <<mem, medium, told, doubted>>
      PROVE  Passes(K, L)
  <2>1. \A i \in Copy' : \E j \in Copy : Map(i)' = Map(j)
    BY <1>2, Zenon DEF Copy, Map
  <2>. QED
    BY <1>2, <2>1, SameMapsPass, Zenon
<1>3. ASSUME NEW w, NEW facts, OfKinds(w, facts, M, N),
             mem' = Written(mem, w), medium' = <<mem'>>, told' = told \cup facts, doubted' = doubted
      PROVE  Passes(K, L)
  <2>1. \A i \in Copy' : Map(i)' = Written(mem, w)
    BY <1>3, OneMap, Zenon
  <2>2. \A k \in RecordKey : k[1] \in K => Written(mem, w)[k] = mem[k]
    <3>. SUFFICES ASSUME NEW k \in RecordKey, k[1] \in K
                  PROVE  Written(mem, w)[k] = mem[k]
      BY Zenon
    <3>1. k \notin DOMAIN w
      BY <1>3, Zenon DEF OfKinds
    <3>. QED
      BY <3>1, Zenon DEF Written
  <2>3. \A f \in told' : f[1] \in L => f \in told
    BY <1>3, Zenon DEF OfKinds
  <2>. QED
    BY <1>3, <2>1, <2>2, <2>3, NewestIsCopy, Zenon DEF Passes
<1>4. ASSUME NEW facts, OfKinds(Nothing, facts, M, N), told' = told \cup facts,
             UNCHANGED <<mem, medium, stage, doubted>>
      PROVE  Passes(K, L)
  <2>1. \A i \in Copy' : \E j \in Copy : Map(i)' = Map(j)
    BY <1>4, Zenon DEF Copy, Map
  <2>2. \A f \in told' : f[1] \in L => f \in told
    BY <1>4, Zenon DEF OfKinds
  <2>. QED
    BY <1>4, <2>1, <2>2, SameMapsPass, Zenon
<1>5. \A w, facts : Staged(w, facts) => UNCHANGED <<mem, medium, told, doubted>>
  BY Zenon DEF Staged
<1>6. \A w : BeginWith(w) => UNCHANGED <<mem, medium, told, doubted>>
  BY Zenon DEF BeginWith
<1>. QED
  BY <1>1, <1>2, <1>3, <1>4, <1>5, <1>6, ZenonT(60) DEF StepOf

LEMMA ReopenPasses ==
  ASSUME MediumOK, Rollback \/ CallFails \/ FlushStore \/ Reopen, NEW K, NEW L
  PROVE  Passes(K, L)
<1>1. told' = told /\ doubted' = doubted
  BY Zenon DEF Rollback, CallFails, CallSkips, FlushStore, Reopen
<1>2. CASE Rollback \/ CallFails
  <2>1. \A i \in Copy' : \E j \in Copy : Map(i)' = Map(j)
    BY <1>2, Zenon DEF Rollback, CallFails, CallSkips, Copy, Map
  <2>. QED
    BY <1>1, <2>1, SameMapsPass, Zenon
<1>3. CASE FlushStore \/ Reopen
  <2>1. \A i \in Copy' : \E j \in Copy : Map(i)' = Map(j)
    BY <1>3, FlushMaps, ReopenMaps, Zenon DEF FlushStore, Reopen
  <2>. QED
    BY <1>1, <2>1, SameMapsPass, Zenon
<1>. QED
  BY <1>2, <1>3, Zenon

(* A Transaction stages appends and records of the feeds only.             *)
StagedKinds == AppendKinds \cup FeedKinds
StagedFacts == AppendFacts \cup FeedFacts

KindsInv ==
  stage # NoTx => OfKinds(stage.writes, stage.facts, StagedKinds, StagedFacts)

LEMMA KindsStep ==
  ASSUME KindsInv, StepOf(StagedKinds, StagedFacts)
  PROVE  KindsInv'
<1>1. ASSUME NEW w, NEW facts, OfKinds(w, facts, StagedKinds, StagedFacts), Staged(w, facts)
      PROVE  KindsInv'
  BY <1>1, Zenon DEF Staged, KindsInv, OfKinds, And
<1>2. ASSUME NEW w, OfKinds(w, {}, StagedKinds, StagedFacts), BeginWith(w)
      PROVE  KindsInv'
  BY <1>2, Zenon DEF BeginWith, KindsInv, OfKinds
<1>3. ASSUME stage' = stage
      PROVE  KindsInv'
  BY <1>3, Zenon DEF KindsInv
<1>. QED
  BY <1>1, <1>2, <1>3, ZenonT(60) DEF StepOf

LEMMA KindsNext ==
  ASSUME OneAtATime, KindsInv, [Next]_vars
  PROVE  KindsInv'
<1>1. AppendKinds \subseteq StagedKinds /\ AppendFacts \subseteq StagedFacts
      /\ FeedKinds \subseteq StagedKinds /\ FeedFacts \subseteq StagedFacts
  BY Zenon DEF StagedKinds, StagedFacts
<1>2. CASE FeedSteps
  BY <1>1, <1>2, FeedForms, LargerKinds, KindsStep, Zenon
<1>3. CASE AppendSteps
  BY <1>1, <1>3, AppendForms, LargerKinds, KindsStep, Zenon
<1>4. CASE SubscriptionSteps
  <2>1. stage' = stage
    BY <1>4, ZenonT(60) DEF SubscriptionSteps, Poll, Reads, AcknowledgeThrough, ResetSubscription,
                            Alone, AloneAsking
  <2>. QED
    BY <2>1, Zenon DEF KindsInv
<1>5. CASE GroupSteps
  <2>1. stage' = stage
    BY <1>5, ZenonT(60) DEF GroupSteps, ConsumerGroupClaim, ConsumerGroupClaimNothing,
         ConsumerGroupReset, ConsumerGroupAck, ConsumerGroupNack, Settle, Alone, AloneAsking
  <2>. QED
    BY <2>1, Zenon DEF KindsInv
<1>6. CASE TransactionSteps \/ ReopenFeeds
  <2>1. stage' = NoTx \/ stage' = stage
    BY <1>6, Zenon DEF TransactionSteps, Commit, Rollback, CallFails, CallSkips, FlushStore,
                       ReopenFeeds, Reopen
  <2>. QED
    BY <2>1, Zenon DEF KindsInv
<1>7. CASE UNCHANGED vars
  BY <1>7, Zenon DEF vars, txVars, KindsInv
<1>. QED
  BY <1>2, <1>3, <1>4, <1>5, <1>6, <1>7, Zenon DEF Next, TxIdSteps, FeedSteps

-----------------------------------------------------------------------------
(* Entries. An entry that no commit in doubt wrote is the same in all maps *)
(* and was reported, and no map has an entry above a missing one.          *)

Gapless(m) ==
  \A s \in Stream, o, e \in Offset :
    e <= o /\ m[EntryKey(s, o)] # NoRecord => m[EntryKey(s, e)] # NoRecord

Reports(w, F) ==
  \A s \in Stream, o \in Offset :
    EntryKey(s, o) \in DOMAIN w => Appended(s, o, w[EntryKey(s, o)]) \in F

EntryInv ==
  /\ stage # NoTx => Reports(stage.writes, stage.facts)
  /\ \A i \in Copy : Gapless(Map(i))
  /\ \A s \in Stream, o \in Offset :
       EntryKey(s, o) \notin doubted =>
         /\ \A i \in Copy : Map(i)[EntryKey(s, o)] = mem[EntryKey(s, o)]
         /\ mem[EntryKey(s, o)] # NoRecord => Appended(s, o, mem[EntryKey(s, o)]) \in told

LEMMA EntriesPass ==
  ASSUME MediumOK', EntryInv, Passes({"entry"}, {}),
         stage' # NoTx => Reports(stage'.writes, stage'.facts)
  PROVE  EntryInv'
<1>1. ASSUME NEW i \in Copy'
      PROVE  \E j \in Copy : \A s \in Stream, o \in Offset :
               Map(i)'[EntryKey(s, o)] = Map(j)[EntryKey(s, o)]
  <2>1. PICK j \in Copy : \A k \in RecordKey : k[1] = "entry" => Map(i)'[k] = Map(j)[k]
    BY Zenon DEF Passes
  <2>2. \A s \in Stream, o \in Offset : EntryKey(s, o) \in RecordKey /\ EntryKey(s, o)[1] = "entry"
    BY StreamKeysAreKeys, Zenon DEF EntryKey
  <2>. QED
    BY <2>1, <2>2, Zenon
<1>2. \A i \in Copy' : Gapless(Map(i)')
  <2>. SUFFICES ASSUME NEW i \in Copy'
                PROVE  Gapless(Map(i)')
    BY Zenon
  <2>1. PICK j \in Copy : \A s \in Stream, o \in Offset :
          Map(i)'[EntryKey(s, o)] = Map(j)[EntryKey(s, o)]
    BY <1>1, Zenon
  <2>2. Gapless(Map(j))
    BY Zenon DEF EntryInv
  <2>. QED
    BY <2>1, <2>2, Zenon DEF Gapless
<1>3. 0 \in Copy' /\ Map(0)' = mem'
  <2>1. Len(medium') \in Nat
    BY DEF MediumOK
  <2>. QED
    BY <2>1 DEF Copy, Map
<1>4. told \subseteq told' /\ doubted \subseteq doubted'
  BY Zenon DEF Passes
<1>5. ASSUME NEW s \in Stream, NEW o \in Offset, EntryKey(s, o) \notin doubted'
      PROVE  /\ \A i \in Copy' : Map(i)'[EntryKey(s, o)] = mem'[EntryKey(s, o)]
             /\ mem'[EntryKey(s, o)] # NoRecord => Appended(s, o, mem'[EntryKey(s, o)]) \in told'
  <2>1. EntryKey(s, o) \notin doubted
    BY <1>4, <1>5, Zenon
  <2>2. \A i \in Copy' : Map(i)'[EntryKey(s, o)] = mem[EntryKey(s, o)]
    BY <2>1, <1>1, Zenon DEF EntryInv
  <2>3. mem'[EntryKey(s, o)] = mem[EntryKey(s, o)]
    BY <2>2, <1>3, Zenon
  <2>. QED
    BY <2>1, <2>2, <2>3, <1>4, Zenon DEF EntryInv
<1>. QED
  BY <1>2, <1>5, Zenon DEF EntryInv, Gapless, Reports

(* A map that is not behind memory, with writes that extend memory.        *)
LEMMA ExtendedGapless ==
  ASSUME NEW m, NEW w, NEW F, StreamMapOK(mem, told), StreamMapOK(m, told), Gapless(m),
         \A s \in Stream : NextOffset(mem, s) <= NextOffset(m, s),
         Extends(mem, w, F), Reports(w, F)
  PROVE  Gapless(Written(m, w))
<1>. SUFFICES ASSUME NEW s \in Stream, NEW o \in Offset, NEW e \in Offset, e <= o,
                     Written(m, w)[EntryKey(s, o)] # NoRecord
              PROVE  Written(m, w)[EntryKey(s, e)] # NoRecord
  BY Zenon DEF Gapless
<1>1. \A n \in Offset : Written(m, w)[EntryKey(s, n)] =
        IF EntryKey(s, n) \in DOMAIN w THEN w[EntryKey(s, n)] ELSE m[EntryKey(s, n)]
  BY WrittenStream, Zenon
<1>2. \A n \in Offset : EntryKey(s, n) \in DOMAIN w =>
        /\ NextKey(s) \in DOMAIN w /\ w[EntryKey(s, n)] # NoRecord
        /\ Appended(s, n, w[EntryKey(s, n)]) \in F
  BY Zenon DEF Extends, Reports
<1>3. CASE EntryKey(s, e) \in DOMAIN w
  BY <1>1, <1>2, <1>3, Zenon
<1>4. CASE EntryKey(s, e) \notin DOMAIN w /\ EntryKey(s, o) \notin DOMAIN w
  BY <1>1, <1>4, Zenon DEF Gapless
<1>5. CASE EntryKey(s, e) \notin DOMAIN w /\ EntryKey(s, o) \in DOMAIN w
  <2>. DEFINE a == Appended(s, o, w[EntryKey(s, o)])
  <2>1. a \in F /\ a[1] = "appended" /\ a[2].stream = s /\ a[2].offset = o
    BY <1>2, <1>5, Zenon DEF Appended
  <2>. HIDE DEF a
  <2>2. o < w[NextKey(s)] /\ NextKey(s) \in DOMAIN w /\ w[NextKey(s)] \in Offset
    BY <2>1, Zenon DEF Extends
  <2>3. NextOffset(mem, s) \in Nat /\ NextOffset(m, s) \in Nat
    BY NextOffsetType, Zenon
  <2>4. Offset \subseteq Nat
    BY StreamAssumption DEF Offset
  <2>5. ~(e >= NextOffset(mem, s) /\ e < w[NextKey(s)])
    BY <2>2, <1>5, Zenon DEF Extends
  <2>6. NextOffset(mem, s) <= NextOffset(m, s)
    BY Zenon
  <2>7. e < NextOffset(m, s)
    <3>1. e \in Nat /\ o \in Nat /\ w[NextKey(s)] \in Nat /\ e <= o
      BY <2>2, <2>4, Zenon
    <3>. QED
      BY <3>1, <2>2, <2>3, <2>5, <2>6
  <2>8. m[EntryKey(s, e)] # NoRecord
    BY <2>7, Zenon DEF StreamMapOK
  <2>. QED
    BY <2>8, <1>1, <1>5, Zenon
<1>. QED
  BY <1>3, <1>4, <1>5, Zenon

LEMMA EntriesCommit ==
  ASSUME StreamInv, EntryInv, NEW w, NEW facts, NEW asked, NEW next,
         Extends(mem, w, facts), Reports(w, facts),
         Commits(w, facts, asked, next), stage' = NoTx
  PROVE  EntryInv'
<1>1. MediumOK /\ MediumOK' /\ StreamMapOK(mem, told) /\ StreamMapOK(Newest, told)
      /\ Gapless(mem) /\ Gapless(Newest)
  BY NewestIsCopy, CommitMaps, Zenon DEF StreamInv, EntryInv
<1>2. \A s \in Stream : NextOffset(mem, s) <= NextOffset(mem, s)
  BY <1>1, NextOffsetType
<1>3. Gapless(Written(mem, w)) /\ Gapless(Written(Newest, w))
  BY <1>1, <1>2, ExtendedGapless, Zenon DEF StreamInv
<1>4. \A m : \A s \in Stream, o \in Offset :
        Written(m, w)[EntryKey(s, o)] =
          IF EntryKey(s, o) \in DOMAIN w THEN w[EntryKey(s, o)] ELSE m[EntryKey(s, o)]
  BY WrittenStream, Zenon
<1>5. \A s \in Stream, o \in Offset : EntryKey(s, o) \notin doubted =>
        /\ Newest[EntryKey(s, o)] = mem[EntryKey(s, o)]
        /\ \A i \in Copy : Map(i)[EntryKey(s, o)] = mem[EntryKey(s, o)]
        /\ mem[EntryKey(s, o)] # NoRecord => Appended(s, o, mem[EntryKey(s, o)]) \in told
  BY <1>1, NewestIsCopy, Zenon DEF EntryInv
<1>6. CASE /\ told' = told \cup asked \cup facts /\ doubted' = doubted
           /\ mem' = Written(mem, w)
           /\ \A i \in Copy' : \E m \in {mem, Newest} : Map(i)' = Written(m, w)
  <2>1. \A i \in Copy' : Gapless(Map(i)')
    BY <1>3, <1>6, Zenon
  <2>2. ASSUME NEW s \in Stream, NEW o \in Offset, EntryKey(s, o) \notin doubted'
        PROVE  /\ \A i \in Copy' : Map(i)'[EntryKey(s, o)] = mem'[EntryKey(s, o)]
               /\ mem'[EntryKey(s, o)] # NoRecord => Appended(s, o, mem'[EntryKey(s, o)]) \in told'
    <3>1. CASE EntryKey(s, o) \in DOMAIN w
      <4>1. \A m : Written(m, w)[EntryKey(s, o)] = w[EntryKey(s, o)]
        BY <3>1, <1>4, Zenon
      <4>2. Appended(s, o, w[EntryKey(s, o)]) \in told'
        BY <3>1, <1>6, Zenon DEF Reports
      <4>. QED
        BY <4>1, <4>2, <1>6, Zenon
    <3>2. CASE EntryKey(s, o) \notin DOMAIN w
      <4>1. \A m : Written(m, w)[EntryKey(s, o)] = m[EntryKey(s, o)]
        BY <3>2, <1>4, Zenon
      <4>2. /\ Newest[EntryKey(s, o)] = mem[EntryKey(s, o)]
            /\ mem[EntryKey(s, o)] # NoRecord => Appended(s, o, mem[EntryKey(s, o)]) \in told'
        BY <2>2, <1>5, <1>6, Zenon
      <4>3. mem'[EntryKey(s, o)] = mem[EntryKey(s, o)]
        BY <4>1, <1>6, Zenon
      <4>. QED
        BY <4>1, <4>2, <4>3, <1>6, Zenon
    <3>. QED
      BY <3>1, <3>2, Zenon
  <2>. QED
    BY <2>1, <2>2, Zenon DEF EntryInv, Gapless
<1>7. CASE /\ told' = told \cup asked /\ doubted' = doubted \cup DOMAIN w
           /\ mem' = mem
           /\ \A i \in Copy' : \/ Map(i)' = Written(Newest, w)
                               \/ \E j \in Copy : Map(i)' = Map(j)
  <2>1. \A i \in Copy' : Gapless(Map(i)')
    BY <1>3, <1>7, Zenon DEF EntryInv
  <2>2. ASSUME NEW s \in Stream, NEW o \in Offset, EntryKey(s, o) \notin doubted'
        PROVE  /\ \A i \in Copy' : Map(i)'[EntryKey(s, o)] = mem'[EntryKey(s, o)]
               /\ mem'[EntryKey(s, o)] # NoRecord => Appended(s, o, mem'[EntryKey(s, o)]) \in told'
    <3>1. EntryKey(s, o) \notin DOMAIN w /\ EntryKey(s, o) \notin doubted
      BY <2>2, <1>7, Zenon
    <3>. QED
      BY <3>1, <1>4, <1>5, <1>7, Zenon
  <2>. QED
    BY <2>1, <2>2, Zenon DEF EntryInv, Gapless
<1>8. \/ told' = told \cup asked \cup facts /\ doubted' = doubted /\ CommitOk(w)
      \/ told' = told \cup asked /\ doubted' = doubted \cup DOMAIN w /\ CommitInDoubt(w)
  BY Zenon DEF Commits
<1>9. CASE CommitOk(w) /\ told' = told \cup asked \cup facts /\ doubted' = doubted
  <2>1. \A i \in Copy' : \E m \in {mem, Newest} : Map(i)' = Written(m, w)
    BY <1>9, OneMap, Zenon DEF CommitOk
  <2>. QED
    BY <1>6, <1>9, <2>1, Zenon DEF CommitOk
<1>10. CASE CommitInDoubt(w) /\ told' = told \cup asked /\ doubted' = doubted \cup DOMAIN w
  <2>1. \A i \in Copy' : \/ Map(i)' \in {mem', Written(Newest, w)}
                         \/ \E j \in Copy : Map(i)' = medium[j] /\ j # 0
    BY <1>1, <1>10, MoreMaps, Zenon DEF CommitInDoubt
  <2>2. \A j \in Copy : j # 0 => medium[j] = Map(j)
    BY Zenon DEF Map
  <2>3. mem' = mem /\ 0 \in Copy /\ Map(0) = mem
    BY <1>1, <1>10, NewestIsCopy, Zenon DEF CommitInDoubt
  <2>4. \A i \in Copy' : Map(i)' = Written(Newest, w) \/ \E j \in Copy : Map(i)' = Map(j)
    BY <2>1, <2>2, <2>3, Zenon
  <2>. QED
    BY <1>7, <1>10, <2>3, <2>4, Zenon
<1>. QED
  BY <1>8, <1>9, <1>10, Zenon

LEMMA EntriesAppend ==
  ASSUME StreamInv, StreamInv', EntryInv, AppendSteps
  PROVE  EntryInv'
<1>1. PICK s \in Stream, p \in Payload : StreamAppend(s, p) \/ TxAppendStream(s, p)
  BY Zenon DEF AppendSteps
<1>2. StreamMapOK(mem, told)
  BY NewestIsCopy, Zenon DEF StreamInv
<1>3. ASSUME NEW n
      PROVE  LET w == And(Put(NextKey(s), n + 1), Put(EntryKey(s, n), p))
             IN  /\ Reports(w, {Appended(s, n, p)})
                 /\ \A v, G : Reports(v, G) => Reports(And(v, w), G \cup {Appended(s, n, p)})
  <2>. DEFINE w == And(Put(NextKey(s), n + 1), Put(EntryKey(s, n), p))
  <2>1. /\ DOMAIN w = {NextKey(s), EntryKey(s, n)}
        /\ w[EntryKey(s, n)] = p
    BY Zenon DEF And, Put, NextKey, EntryKey
  <2>2. \A t, o : EntryKey(t, o) \in DOMAIN w => t = s /\ o = n
    BY <2>1, Zenon DEF NextKey, EntryKey
  <2>. HIDE DEF w
  <2>3. Reports(w, {Appended(s, n, p)})
    BY <2>1, <2>2, Zenon DEF Reports
  <2>4. ASSUME NEW v, NEW G, Reports(v, G), NEW t \in Stream, NEW o \in Offset,
               EntryKey(t, o) \in DOMAIN And(v, w)
        PROVE  Appended(t, o, And(v, w)[EntryKey(t, o)]) \in G \cup {Appended(s, n, p)}
    <3>1. CASE EntryKey(t, o) \in DOMAIN w
      <4>1. t = s /\ o = n /\ And(v, w)[EntryKey(t, o)] = p
        BY <3>1, <2>1, <2>2, Zenon DEF And
      <4>. QED
        BY <4>1, Zenon
    <3>2. CASE EntryKey(t, o) \notin DOMAIN w
      <4>1. EntryKey(t, o) \in DOMAIN v /\ And(v, w)[EntryKey(t, o)] = v[EntryKey(t, o)]
        BY <3>2, <2>4, Zenon DEF And
      <4>. QED
        BY <4>1, <2>4, Zenon DEF Reports
    <3>. QED
      BY <3>1, <3>2, Zenon
  <2>. QED
    BY <2>3, <2>4, Zenon DEF Reports, w
<1>4. CASE StreamAppend(s, p)
  <2>. DEFINE o == NextOffset(mem, s)
              w == And(Put(NextKey(s), o + 1), Put(EntryKey(s, o), p))
  <2>1. /\ o < MaxOffset /\ stage = NoTx
        /\ Commits(AppendWrites(s, p), {Appended(s, o, p)}, {}, NoCall) /\ stage' = stage
    BY <1>4, Zenon DEF StreamAppend, Alone, AloneAsking, Idle
  <2>2. AppendWrites(s, p) = w
    BY <2>1, Zenon DEF AppendWrites, View
  <2>3. Extends(mem, Nothing, {}) /\ NextKey(s) \notin DOMAIN Nothing
    BY Zenon DEF Extends, Nothing
  <2>4. Extends(mem, And(Nothing, w), {} \cup {Appended(s, o, p)})
    BY <1>2, <2>1, <2>3, AppendExtends, Zenon
  <2>5. And(Nothing, w) = w
    BY Zenon DEF And, Nothing, Put
  <2>6. Reports(w, {Appended(s, o, p)})
    BY <1>3, Zenon
  <2>. HIDE DEF w, o
  <2>7. /\ Extends(mem, AppendWrites(s, p), {Appended(s, o, p)})
        /\ Reports(AppendWrites(s, p), {Appended(s, o, p)})
    BY <2>2, <2>4, <2>5, <2>6, Zenon
  <2>. QED
    BY <2>1, <2>7, EntriesCommit, Zenon
<1>5. CASE TxAppendStream(s, p)
  <2>. DEFINE o == NextOffset(View, s)
              w == And(Put(NextKey(s), o + 1), Put(EntryKey(s, o), p))
  <2>1. /\ stage # NoTx
        /\ stage'.writes = And(stage.writes, AppendWrites(s, p))
        /\ stage'.facts = stage.facts \cup {Appended(s, o, p)}
        /\ UNCHANGED <<mem, medium, told, doubted>>
    BY <1>5, Zenon DEF TxAppendStream, Staged
  <2>2. AppendWrites(s, p) = w
    BY Zenon DEF AppendWrites
  <2>3. Reports(stage.writes, stage.facts) =>
          Reports(And(stage.writes, w), stage.facts \cup {Appended(s, o, p)})
    BY <1>3, Zenon
  <2>. HIDE DEF w, o
  <2>4. Reports(stage'.writes, stage'.facts)
    BY <2>1, <2>2, <2>3, Zenon DEF EntryInv
  <2>5. \A i \in Copy' : \E j \in Copy : Map(i)' = Map(j)
    BY <2>1, Zenon DEF Copy, Map
  <2>6. Passes({"entry"}, {})
    BY <2>1, <2>5, SameMapsPass, Zenon
  <2>. QED
    BY <2>4, <2>6, EntriesPass, Zenon DEF StreamInv
<1>. QED
  BY <1>1, <1>4, <1>5, Zenon

LEMMA EntriesElse ==
  ASSUME StreamInv, StreamInv', EntryInv, StepOf(NoStreamKinds, NoStreamFacts)
  PROVE  EntryInv'
<1>1. {"entry"} \cap NoStreamKinds = {} /\ {} \cap NoStreamFacts = {}
  BY Zenon DEF NoStreamKinds, SubscriptionKinds, FeedKinds
<1>2. MediumOK /\ MediumOK'
  BY Zenon DEF StreamInv
<1>3. Passes({"entry"}, {})
  BY <1>1, <1>2, StepPasses, Zenon
<1>4. \A w, F : OfKinds(w, F, NoStreamKinds, NoStreamFacts) =>
        \A s, o : EntryKey(s, o) \notin DOMAIN w
  BY Zenon DEF OfKinds, EntryKey, NoStreamKinds, SubscriptionKinds, FeedKinds
<1>5. ASSUME NEW w, NEW facts, OfKinds(w, facts, NoStreamKinds, NoStreamFacts), Staged(w, facts)
      PROVE  stage' # NoTx => Reports(stage'.writes, stage'.facts)
  <2>1. /\ stage # NoTx /\ stage'.writes = And(stage.writes, w)
        /\ stage'.facts = stage.facts \cup facts
    BY <1>5, Zenon DEF Staged
  <2>2. \A s, o : /\ EntryKey(s, o) \in DOMAIN And(stage.writes, w) =>
                       EntryKey(s, o) \in DOMAIN stage.writes
                  /\ EntryKey(s, o) \in DOMAIN stage.writes =>
                       And(stage.writes, w)[EntryKey(s, o)] = stage.writes[EntryKey(s, o)]
    BY <1>4, <1>5, Zenon DEF And
  <2>. QED
    BY <2>1, <2>2, Zenon DEF EntryInv, Reports
<1>6. ASSUME NEW w, OfKinds(w, {}, NoStreamKinds, NoStreamFacts), BeginWith(w)
      PROVE  stage' # NoTx => Reports(stage'.writes, stage'.facts)
  BY <1>4, <1>6, Zenon DEF BeginWith, Reports
<1>7. stage' = stage => (stage' # NoTx => Reports(stage'.writes, stage'.facts))
  BY Zenon DEF EntryInv
<1>8. stage' # NoTx => Reports(stage'.writes, stage'.facts)
  BY <1>5, <1>6, <1>7, ZenonT(60) DEF StepOf
<1>. QED
  BY <1>2, <1>3, <1>8, EntriesPass, Zenon

LEMMA EntriesNext ==
  ASSUME StreamInv, StreamInv', EntryInv, [Next]_vars
  PROVE  EntryInv'
<1>1. /\ {"group"} \subseteq NoStreamKinds /\ {"delivered", "settled", "reset"} \subseteq NoStreamFacts
      /\ SubscriptionKinds \subseteq NoStreamKinds /\ SubscriptionFacts \subseteq NoStreamFacts
      /\ FeedKinds \subseteq NoStreamKinds /\ FeedFacts \subseteq NoStreamFacts
  BY Zenon DEF NoStreamKinds, NoStreamFacts, SubscriptionFacts
<1>2. CASE FeedSteps
  BY <1>1, <1>2, FeedForms, LargerKinds, EntriesElse, Zenon DEF StreamInv
<1>3. CASE AppendSteps
  BY <1>3, EntriesAppend, Zenon
<1>4. CASE SubscriptionSteps
  BY <1>1, <1>4, SubscriptionForms, LargerKinds, EntriesElse, Zenon
<1>5. CASE GroupSteps
  <2>1. StepOf(NoStreamKinds, NoStreamFacts)
    BY <1>1, <1>5, GroupForms, LargerKinds
  <2>. QED
    BY <2>1, EntriesElse, Zenon
<1>6. CASE Commit
  <2>1. Extends(mem, stage.writes, stage.facts) /\ Reports(stage.writes, stage.facts)
    BY <1>6, Zenon DEF Commit, StreamInv, EntryInv
  <2>. QED
    BY <1>6, <2>1, EntriesCommit, Zenon DEF Commit
<1>7. CASE Rollback \/ CallFails \/ FlushStore \/ Reopen
  <2>1. stage' = NoTx \/ stage' = stage
    BY <1>7, Zenon DEF Rollback, CallFails, CallSkips, FlushStore, Reopen
  <2>2. stage' # NoTx => Reports(stage'.writes, stage'.facts)
    BY <2>1, Zenon DEF EntryInv
  <2>3. Passes({"entry"}, {})
    BY <1>7, ReopenPasses, Zenon DEF StreamInv
  <2>. QED
    BY <2>2, <2>3, EntriesPass, Zenon DEF StreamInv
<1>8. CASE UNCHANGED vars
  <2>1. UNCHANGED <<mem, medium, stage, told, doubted>>
    BY <1>8, Zenon DEF vars, txVars
  <2>2. \A i \in Copy' : \E j \in Copy : Map(i)' = Map(j)
    BY <2>1, Zenon DEF Copy, Map
  <2>3. Passes({"entry"}, {})
    BY <2>1, <2>2, SameMapsPass, Zenon
  <2>. QED
    BY <2>1, <2>3, EntriesPass, Zenon DEF StreamInv, EntryInv
<1>. QED
  BY <1>2, <1>3, <1>4, <1>5, <1>6, <1>7, <1>8, Zenon
     DEF Next, TxIdSteps, FeedSteps, TransactionSteps, ReopenFeeds

(* A page of a stream has every entry between its start and any of its     *)
(* entries.                                                                *)
LEMMA PagesAreClosed ==
  ASSUME NEW s \in Stream, NEW c \in Offset, NEW limit \in Nat, NEW o \in ReadFrom(s, c, limit),
         NEW e \in Offset, e >= c, e <= o, mem[EntryKey(s, e)] # NoRecord
  PROVE  e \in ReadFrom(s, c, limit)
<1>. DEFINE found == {d \in Offset : d >= c /\ mem[EntryKey(s, d)] # NoRecord}
            A == {d \in found : d < e}
            B == {d \in found : d < o}
<1>1. o \in found /\ Cardinality(B) < limit /\ e \in found
  BY Zenon DEF ReadFrom
<1>2. Offset \subseteq Nat /\ IsFiniteSet(Offset)
  BY FS_Interval, StreamAssumption DEF Offset
<1>3. e \in Nat /\ o \in Nat
  BY <1>1, <1>2, Zenon
<1>4. A \subseteq B
  <2>. SUFFICES ASSUME NEW d \in A
                PROVE  d \in B
    BY Zenon
  <2>1. d \in found /\ d < e /\ d \in Nat
    BY <1>2, Zenon
  <2>. HIDE DEF found, A
  <2>2. d < o
    BY <2>1, <1>3
  <2>. QED
    BY <2>1, <2>2, Zenon
<1>5. IsFiniteSet(B)
  BY <1>2, FS_Subset, Zenon
<1>6. IsFiniteSet(A) /\ Cardinality(A) <= Cardinality(B)
  BY <1>4, <1>5, FS_Subset, Zenon
<1>7. Cardinality(A) \in Nat /\ Cardinality(B) \in Nat
  BY <1>5, <1>6, FS_CardinalityType, Zenon
<1>. HIDE DEF A, B
<1>8. Cardinality(A) < limit
  BY <1>1, <1>6, <1>7
<1>. QED
  BY <1>1, <1>8, Zenon DEF ReadFrom, A

-----------------------------------------------------------------------------
(* Subscriptions. Entries behind a cursor are seen: a poll gave them to    *)
(* the subscriber as they were appended, unless a reset jumped over them   *)
(* or a commit in doubt wrote at their offset.                             *)

Resets(T, s, b) == {r \in T : r[1] = "reset" /\ r[2].stream = s /\ r[2].by = b}

SeenBy(T, D, s, b, e) ==
  \/ EntryKey(s, e) \in D
  \/ \E r \in Resets(T, s, b) : r[2].next > e
  \/ \E f \in T : /\ f[1] = "appended" /\ f[2].stream = s /\ f[2].offset = e
                  /\ Polled(s, b, e, f[2].payload) \in T

CursorOK(c, T, D, s, b) ==
  /\ c \in Offset
  /\ \A e \in Offset : e < c => SeenBy(T, D, s, b, e)
  /\ \A f \in T : f[1] = "acknowledged" /\ f[2].stream = s /\ f[2].by = b /\ c < f[2].next =>
       \E r \in Resets(T, s, b) : r[2].next <= c

PollOK(f, T, D) ==
  /\ f[2].offset \in Offset
  /\ \A e \in Offset : e <= f[2].offset => SeenBy(T, D, f[2].stream, f[2].by, e)

SubscriberInv ==
  /\ \A i \in Copy, s \in Stream, b \in Subscription :
       CursorOK(SubscriptionState(Map(i), s, b), told, doubted, s, b)
  /\ \A f \in told : f[1] = "polled" => PollOK(f, told, doubted)
  /\ \A f \in told : f[1] \in {"acknowledged", "reset"} => f[2].next \in Offset
  /\ \A f \in told : f[1] = "acknowledged" => f[2].stream \in Stream /\ f[2].by \in Subscription

(* What was seen stays seen.                                               *)
LEMMA SeenStays ==
  ASSUME NEW T, NEW D, NEW U, NEW E, T \subseteq U, D \subseteq E
  PROVE  /\ \A s, b : Resets(T, s, b) \subseteq Resets(U, s, b)
         /\ \A s, b, e : SeenBy(T, D, s, b, e) => SeenBy(U, E, s, b, e)
         /\ \A f : PollOK(f, T, D) => PollOK(f, U, E)
         /\ \A c, s, b :
              (\A f \in U : f[1] = "acknowledged" /\ f[2].stream = s /\ f[2].by = b => f \in T) =>
                (CursorOK(c, T, D, s, b) => CursorOK(c, U, E, s, b))
<1>1. \A s, b : Resets(T, s, b) \subseteq Resets(U, s, b)
  BY Zenon DEF Resets
<1>2. \A s, b, e : SeenBy(T, D, s, b, e) => SeenBy(U, E, s, b, e)
  BY <1>1, Zenon DEF SeenBy
<1>3. \A f : PollOK(f, T, D) => PollOK(f, U, E)
  BY <1>2, Zenon DEF PollOK
<1>4. ASSUME NEW c, NEW s, NEW b, CursorOK(c, T, D, s, b),
             \A f \in U : f[1] = "acknowledged" /\ f[2].stream = s /\ f[2].by = b => f \in T
      PROVE  CursorOK(c, U, E, s, b)
  BY <1>1, <1>2, <1>4, Zenon DEF CursorOK
<1>. QED
  BY <1>1, <1>2, <1>3, <1>4, Zenon

LEMMA SubscriptionKeysAreKeys ==
  ASSUME NEW s \in Stream, NEW b \in Subscription
  PROVE  SubscriptionKey(s, b) \in RecordKey
BY StreamAssumption DEF StreamKeys

(* Steps of the other primitives; resets of groups may be told.            *)
LEMMA SubscribersPass ==
  ASSUME SubscriberInv, Passes({"subscription"}, {"polled", "acknowledged"}),
         \A f \in told' : f[1] = "reset" => f[2].next \in Offset
  PROVE  SubscriberInv'
<1>1. /\ told \subseteq told' /\ doubted \subseteq doubted'
      /\ \A f \in told' : f[1] \in {"polled", "acknowledged"} => f \in told
  BY Zenon DEF Passes
<1>2. ASSUME NEW i \in Copy', NEW s \in Stream, NEW b \in Subscription
      PROVE  CursorOK(SubscriptionState(Map(i)', s, b), told', doubted', s, b)
  <2>1. PICK j \in Copy : \A k \in RecordKey : k[1] \in {"subscription"} => Map(i)'[k] = Map(j)[k]
    BY Zenon DEF Passes
  <2>2. SubscriptionKey(s, b)[1] = "subscription" /\ SubscriptionKey(s, b) \in RecordKey
    BY SubscriptionKeysAreKeys, Zenon DEF SubscriptionKey
  <2>3. SubscriptionState(Map(i)', s, b) = SubscriptionState(Map(j), s, b)
    BY <2>1, <2>2, Zenon DEF SubscriptionState
  <2>4. CursorOK(SubscriptionState(Map(j), s, b), told, doubted, s, b)
    BY Zenon DEF SubscriberInv
  <2>5. CursorOK(SubscriptionState(Map(j), s, b), told', doubted', s, b)
    BY <2>4, <1>1, SeenStays, Zenon
  <2>. QED
    BY <2>3, <2>5, Zenon
<1>3. \A f \in told' : f[1] = "polled" => PollOK(f, told', doubted')
  BY <1>1, SeenStays, Zenon DEF SubscriberInv
<1>4. \A f \in told' : f[1] \in {"acknowledged", "reset"} => f[2].next \in Offset
  BY <1>1, Zenon DEF SubscriberInv
<1>5. \A f \in told' : f[1] = "acknowledged" => f[2].stream \in Stream /\ f[2].by \in Subscription
  BY <1>1, Zenon DEF SubscriberInv
<1>. QED
  BY <1>2, <1>3, <1>4, <1>5, Zenon
     DEF SubscriberInv, SubscriptionState, CursorOK, PollOK, SeenBy, Resets

(* A subscriber polls.                                                     *)
LEMMA PollSees ==
  ASSUME StreamInv, EntryInv, SubscriberInv, NEW s \in Stream, NEW b \in Subscription,
         NEW limit \in Nat, Poll(s, b, limit)
  PROVE  SubscriberInv'
<1>. DEFINE c == SubscriptionState(mem, s, b)
            page == ReadFrom(s, c, limit)
            F == {Polled(s, b, o, mem[EntryKey(s, o)]) : o \in page}
<1>1. told' = told \cup F /\ UNCHANGED <<mem, medium, doubted>>
  BY Zenon DEF Poll, Reads
<1>2. \A f \in F : f[1] = "polled" /\ f[2].stream = s /\ f[2].by = b /\ f[2].offset \in page
  BY DEF Polled
<1>3. CursorOK(c, told, doubted, s, b)
  BY NewestIsCopy, Zenon DEF SubscriberInv, StreamInv
<1>4. page \subseteq Offset /\ c \in Offset
  BY <1>3, Zenon DEF ReadFrom, CursorOK
<1>5. \A o \in page : mem[EntryKey(s, o)] # NoRecord
  BY Zenon DEF ReadFrom
<1>6. Gapless(mem)
  BY NewestIsCopy, Zenon DEF EntryInv, StreamInv
<1>7. \A o \in page : Polled(s, b, o, mem[EntryKey(s, o)]) \in F
  BY Zenon
<1>8. \A o, e \in Offset : o \in page /\ e >= c /\ e <= o => e \in page
  <2>. SUFFICES ASSUME NEW o \in Offset, NEW e \in Offset, o \in page, e >= c, e <= o
                PROVE  e \in page
    BY Zenon
  <2>1. mem[EntryKey(s, e)] # NoRecord
    BY <1>5, <1>6, Zenon DEF Gapless
  <2>. QED
    BY <2>1, <1>4, PagesAreClosed, Zenon
<1>9. Offset \subseteq Nat
  BY StreamAssumption DEF Offset
<1>. HIDE DEF page, F, c
<1>10. ASSUME NEW e \in page
       PROVE  SeenBy(told', doubted', s, b, e)
  <2>1. CASE EntryKey(s, e) \in doubted
    BY <2>1, <1>1, Zenon DEF SeenBy
  <2>2. CASE EntryKey(s, e) \notin doubted
    <3>. DEFINE p == mem[EntryKey(s, e)]
                a == Appended(s, e, p)
    <3>1. a \in told'
      BY <2>2, <1>1, <1>4, <1>5, Zenon DEF EntryInv
    <3>2. a[1] = "appended" /\ a[2].stream = s /\ a[2].offset = e /\ a[2].payload = p
      BY Zenon DEF Appended
    <3>3. Polled(s, b, e, p) \in told'
      BY <1>1, <1>7, Zenon
    <3>. HIDE DEF a, p
    <3>4. Polled(s, b, e, a[2].payload) \in told'
      BY <3>2, <3>3, Zenon
    <3>. QED
      BY <3>1, <3>2, <3>4, Zenon DEF SeenBy
  <2>. QED
    BY <2>1, <2>2, Zenon
<1>11. ASSUME NEW o \in page, NEW e \in Offset, e <= o
       PROVE  SeenBy(told', doubted', s, b, e)
  <2>1. CASE e < c
    <3>1. SeenBy(told, doubted, s, b, e)
      BY <2>1, <1>3, Zenon DEF CursorOK
    <3>2. told \subseteq told' /\ doubted \subseteq doubted'
      BY <1>1, Zenon
    <3>. QED
      BY <3>1, <3>2, SeenStays, Zenon
  <2>2. CASE e >= c
    BY <2>2, <1>4, <1>8, <1>10, <1>11, Zenon
  <2>. QED
    BY <2>1, <2>2, <1>4, <1>9
<1>12. told \subseteq told' /\ doubted \subseteq doubted'
  BY <1>1, Zenon
<1>13. ASSUME NEW f \in told', f[1] = "polled"
       PROVE  PollOK(f, told', doubted')
  <2>1. CASE f \in told
    BY <2>1, <1>12, <1>13, SeenStays, Zenon DEF SubscriberInv
  <2>2. CASE f \in F
    BY <2>2, <1>2, <1>4, <1>11, Zenon DEF PollOK
  <2>. QED
    BY <2>1, <2>2, <1>1, Zenon
<1>14. \A f \in told' : f[1] \in {"acknowledged", "reset"} => f \in told
  BY <1>1, <1>2, Zenon
<1>15. Copy' = Copy /\ \A i \in Copy : Map(i)' = Map(i)
  BY <1>1, Zenon DEF Copy, Map
<1>16. ASSUME NEW i \in Copy', NEW t \in Stream, NEW d \in Subscription
       PROVE  CursorOK(SubscriptionState(Map(i)', t, d), told', doubted', t, d)
  <2>1. CursorOK(SubscriptionState(Map(i), t, d), told, doubted, t, d)
    BY <1>15, Zenon DEF SubscriberInv
  <2>2. CursorOK(SubscriptionState(Map(i), t, d), told', doubted', t, d)
    BY <2>1, <1>12, <1>14, SeenStays, Zenon
  <2>. QED
    BY <2>2, <1>15, Zenon
<1>17. \A f \in told' : f[1] \in {"acknowledged", "reset"} => f[2].next \in Offset
  BY <1>14, Zenon DEF SubscriberInv
<1>18. \A f \in told' : f[1] = "acknowledged" => f[2].stream \in Stream /\ f[2].by \in Subscription
  BY <1>14, Zenon DEF SubscriberInv
<1>. QED
  BY <1>13, <1>16, <1>17, <1>18, Zenon
     DEF SubscriberInv, SubscriptionState, CursorOK, PollOK, SeenBy, Resets

(* The call may write c as the cursor of b, telling F once it is taken and *)
(* A whatever becomes of it: all below c was seen, and c falls behind no   *)
(* acknowledgement that a reset does not explain.                          *)
MayMove(s, b, c, F, A) ==
  /\ F \subseteq {Acknowledged(s, b, c)} /\ A \subseteq {ResetTo(s, b, c)}
  /\ \A e \in Offset : e < c => SeenBy(told \cup A, doubted, s, b, e)
  /\ \A f \in told :
       f[1] = "acknowledged" /\ f[2].stream = s /\ f[2].by = b /\ c < f[2].next =>
         \E r \in Resets(told \cup A, s, b) : r[2].next <= c

(* The cursor of a subscription is written.                                *)
LEMMA CursorWrite ==
  ASSUME MediumOK, SubscriberInv, NEW s \in Stream, NEW b \in Subscription, NEW c \in Offset,
         NEW facts, NEW asked, NEW next,
         Commits(Put(SubscriptionKey(s, b), c), facts, asked, next),
         MayMove(s, b, c, facts, asked)
  PROVE  SubscriberInv'
<1>0. /\ facts \subseteq {Acknowledged(s, b, c)} /\ asked \subseteq {ResetTo(s, b, c)}
      /\ \A e \in Offset : e < c => SeenBy(told \cup asked, doubted, s, b, e)
      /\ \A f \in told :
           f[1] = "acknowledged" /\ f[2].stream = s /\ f[2].by = b /\ c < f[2].next =>
             \E r \in Resets(told \cup asked, s, b) : r[2].next <= c
  BY Zenon DEF MayMove
<1>. DEFINE w == Put(SubscriptionKey(s, b), c)
<1>1. /\ told \subseteq told' /\ told \cup asked \subseteq told' /\ doubted \subseteq doubted'
      /\ told' \subseteq told \cup asked \cup facts
  BY DEF Commits
<1>2. /\ \A f \in facts : f[1] = "acknowledged" /\ f[2].stream = s /\ f[2].by = b /\ f[2].next = c
      /\ \A f \in asked : f[1] = "reset" /\ f[2].next = c
  <2>. DEFINE f1 == Acknowledged(s, b, c)
              f2 == ResetTo(s, b, c)
  <2>1. f1[1] = "acknowledged" /\ f1[2].stream = s /\ f1[2].by = b /\ f1[2].next = c
    BY Zenon DEF Acknowledged
  <2>2. f2[1] = "reset" /\ f2[2].next = c
    BY Zenon DEF ResetTo
  <2>. HIDE DEF f1, f2
  <2>3. facts \subseteq {f1} /\ asked \subseteq {f2}
    BY <1>0, Zenon DEF f1, f2
  <2>. QED
    BY <2>1, <2>2, <2>3, Zenon
<1>3. ~(c < c)
  BY StreamAssumption DEF Offset
<1>4. CursorOK(c, told', doubted', s, b)
  <2>1. \A e \in Offset : e < c => SeenBy(told', doubted', s, b, e)
    BY <1>0, <1>1, SeenStays, Zenon
  <2>2. Resets(told \cup asked, s, b) \subseteq Resets(told', s, b)
    BY <1>1, Zenon DEF Resets
  <2>3. ASSUME NEW f \in told', f[1] = "acknowledged", f[2].stream = s, f[2].by = b, c < f[2].next
        PROVE  \E r \in Resets(told', s, b) : r[2].next <= c
    <3>1. f \in told
      BY <2>3, <1>1, <1>2, <1>3, Zenon
    <3>. QED
      BY <1>0, <3>1, <2>2, <2>3, Zenon
  <2>. QED
    BY <2>1, <2>3, Zenon DEF CursorOK
<1>5. c # NoRecord
  BY StreamAssumption, Zenon
<1>6. \A m : \A t \in Stream, d \in Subscription :
        SubscriptionState(Written(m, w), t, d) =
          IF t = s /\ d = b THEN c ELSE SubscriptionState(m, t, d)
  <2>. SUFFICES ASSUME NEW m, NEW t \in Stream, NEW d \in Subscription
                PROVE  SubscriptionState(Written(m, w), t, d) =
                         IF t = s /\ d = b THEN c ELSE SubscriptionState(m, t, d)
    BY Zenon
  <2>1. SubscriptionKey(t, d) \in RecordKey
    BY SubscriptionKeysAreKeys, Zenon
  <2>2. DOMAIN w = {SubscriptionKey(s, b)} /\ w[SubscriptionKey(s, b)] = c
    BY Zenon DEF Put
  <2>3. SubscriptionKey(t, d) = SubscriptionKey(s, b) <=> t = s /\ d = b
    BY Zenon DEF SubscriptionKey
  <2>. HIDE DEF w
  <2>4. Written(m, w)[SubscriptionKey(t, d)] =
          IF t = s /\ d = b THEN c ELSE m[SubscriptionKey(t, d)]
    BY <2>1, <2>2, <2>3, Zenon DEF Written
  <2>. QED
    BY <2>4, <1>5, Zenon DEF SubscriptionState
<1>7. \A j \in Copy, t \in Stream, d \in Subscription :
        CursorOK(SubscriptionState(Map(j), t, d), told, doubted, t, d)
  BY Zenon DEF SubscriberInv
<1>8. ASSUME NEW m, \E j \in Copy : m = Map(j), NEW t \in Stream, NEW d \in Subscription
      PROVE  CursorOK(SubscriptionState(Written(m, w), t, d), told', doubted', t, d)
  <2>1. CASE t = s /\ d = b
    BY <2>1, <1>4, <1>6, Zenon
  <2>2. CASE ~(t = s /\ d = b)
    <3>1. SubscriptionState(Written(m, w), t, d) = SubscriptionState(m, t, d)
      BY <2>2, <1>6, Zenon
    <3>2. \A f \in told' : f[1] = "acknowledged" /\ f[2].stream = t /\ f[2].by = d => f \in told
      BY <2>2, <1>1, <1>2, Zenon
    <3>3. CursorOK(SubscriptionState(m, t, d), told', doubted', t, d)
      BY <3>2, <1>1, <1>7, <1>8, SeenStays, Zenon
    <3>. QED
      BY <3>1, <3>3, Zenon
  <2>. QED
    BY <2>1, <2>2, Zenon
<1>9. ASSUME told' = told \cup asked, NEW j \in Copy, NEW t \in Stream, NEW d \in Subscription
      PROVE  CursorOK(SubscriptionState(Map(j), t, d), told', doubted', t, d)
  <2>1. \A f \in told' : f[1] = "acknowledged" /\ f[2].stream = t /\ f[2].by = d => f \in told
    BY <1>2, <1>9, Zenon
  <2>. QED
    BY <2>1, <1>1, <1>7, SeenStays, Zenon
<1>10. \/ \A i \in Copy' : \E m \in {mem, Newest} : Map(i)' = Written(m, w)
       \/ /\ told' = told \cup asked
          /\ \A i \in Copy' : Map(i)' = Written(Newest, w) \/ \E j \in Copy : Map(i)' = Map(j)
  BY CommitMaps, Zenon
<1>11. (\E j \in Copy : mem = Map(j)) /\ (\E j \in Copy : Newest = Map(j))
  BY NewestIsCopy, Zenon
<1>. HIDE DEF w
<1>12. ASSUME NEW i \in Copy', NEW t \in Stream, NEW d \in Subscription
       PROVE  CursorOK(SubscriptionState(Map(i)', t, d), told', doubted', t, d)
  <2>1. CASE \E m \in {mem, Newest} : Map(i)' = Written(m, w)
    BY <2>1, <1>8, <1>11, Zenon
  <2>2. CASE told' = told \cup asked /\ \E j \in Copy : Map(i)' = Map(j)
    BY <2>2, <1>9, Zenon
  <2>. QED
    BY <2>1, <2>2, <1>10, Zenon
<1>13. \A f \in told' : f[1] = "polled" => PollOK(f, told', doubted')
  <2>1. \A f \in told' : f[1] = "polled" => f \in told
    BY <1>1, <1>2, Zenon
  <2>. QED
    BY <2>1, <1>1, SeenStays, Zenon DEF SubscriberInv
<1>14. \A f \in told' : f[1] \in {"acknowledged", "reset"} => f[2].next \in Offset
  BY <1>1, <1>2, Zenon DEF SubscriberInv
<1>15. \A f \in told' : f[1] = "acknowledged" => f[2].stream \in Stream /\ f[2].by \in Subscription
  BY <1>1, <1>2, Zenon DEF SubscriberInv
<1>. QED
  BY <1>12, <1>13, <1>14, <1>15, Zenon
     DEF SubscriberInv, SubscriptionState, CursorOK, PollOK, SeenBy, Resets

LEMMA SubscriptionStep ==
  ASSUME StreamInv, EntryInv, SubscriberInv, SubscriptionSteps
  PROVE  SubscriberInv'
<1>1. PICK s \in Stream, b \in Subscription :
        \/ \E limit \in 1 .. 2 : Poll(s, b, limit)
        \/ \E o \in Offset : AcknowledgeThrough(s, b, o) \/ ResetSubscription(s, b, o)
  BY Zenon DEF SubscriptionSteps
<1>2. MediumOK
  BY Zenon DEF StreamInv
<1>3. ASSUME NEW limit \in 1 .. 2, Poll(s, b, limit)
      PROVE  SubscriberInv'
  <2>1. limit \in Nat
    OBVIOUS
  <2>. QED
    BY <1>3, <2>1, PollSees, Zenon
<1>4. ASSUME NEW o \in Offset, AcknowledgeThrough(s, b, o)
      PROVE  SubscriberInv'
  <2>. DEFINE c == SubscriptionState(mem, s, b)
  <2>1. PICK p \in Payload : Polled(s, b, o, p) \in told
    BY <1>4, Zenon DEF AcknowledgeThrough
  <2>2. /\ o < MaxOffset /\ o + 1 >= c
        /\ Commits(Put(SubscriptionKey(s, b), o + 1), {Acknowledged(s, b, o + 1)}, {}, NoCall)
    BY <1>4, Zenon DEF AcknowledgeThrough, CursorMayMove, Alone, AloneAsking
  <2>3. CursorOK(c, told, doubted, s, b)
    BY <1>2, NewestIsCopy, Zenon DEF SubscriberInv
  <2>4. o + 1 \in Offset /\ o \in Nat /\ Offset \subseteq Nat
    BY <2>2, StreamAssumption DEF Offset
  <2>5. \A e \in Offset : e <= o => SeenBy(told, doubted, s, b, e)
    <3>. DEFINE f == Polled(s, b, o, p)
    <3>1. f[1] = "polled" /\ f[2].stream = s /\ f[2].by = b /\ f[2].offset = o
      BY Zenon DEF Polled
    <3>. HIDE DEF f
    <3>2. PollOK(f, told, doubted)
      BY <2>1, <3>1, Zenon DEF SubscriberInv, f
    <3>. QED
      BY <3>1, <3>2, Zenon DEF PollOK
  <2>6. \A e \in Offset : e < o + 1 => e <= o
    BY <2>4
  <2>7. told \cup {} = told
    BY Zenon
  <2>8. \A e \in Offset : e < o + 1 => SeenBy(told \cup {}, doubted, s, b, e)
    BY <2>5, <2>6, <2>7, Zenon
  <2>. HIDE DEF c
  <2>9. ASSUME NEW f \in told, f[1] = "acknowledged", f[2].stream = s, f[2].by = b,
               o + 1 < f[2].next
        PROVE  \E r \in Resets(told \cup {}, s, b) : r[2].next <= o + 1
    <3>1. f[2].next \in Nat /\ c \in Nat
      BY <2>3, <2>4, <2>9, Zenon DEF SubscriberInv, CursorOK
    <3>2. c < f[2].next
      BY <3>1, <2>2, <2>4, <2>9
    <3>3. PICK r \in Resets(told, s, b) : r[2].next <= c
      BY <3>2, <2>3, <2>9, Zenon DEF CursorOK
    <3>4. r[2].next \in Nat
      BY <3>3, <2>4, Zenon DEF Resets, SubscriberInv
    <3>5. r[2].next <= o + 1
      BY <3>1, <3>3, <3>4, <2>2, <2>4
    <3>. QED
      BY <3>5, <2>7, Zenon
  <2>10. {Acknowledged(s, b, o + 1)} \subseteq {Acknowledged(s, b, o + 1)}
         /\ {} \subseteq {ResetTo(s, b, o + 1)}
    BY Zenon
  <2>11. MayMove(s, b, o + 1, {Acknowledged(s, b, o + 1)}, {})
    BY <2>8, <2>9, <2>10, Zenon DEF MayMove
  <2>. QED
    BY <1>2, <2>2, <2>4, <2>11, CursorWrite, Zenon
<1>5. ASSUME NEW n \in Offset, ResetSubscription(s, b, n)
      PROVE  SubscriberInv'
  <2>. DEFINE a == ResetTo(s, b, n)
  <2>1. Commits(Put(SubscriptionKey(s, b), n), {}, {a}, NoCall)
    BY <1>5, Zenon DEF ResetSubscription, AloneAsking
  <2>2. a[1] = "reset" /\ a[2].stream = s /\ a[2].by = b /\ a[2].next = n
    BY Zenon DEF ResetTo
  <2>3. a \in Resets(told \cup {a}, s, b)
    BY <2>2, Zenon DEF Resets
  <2>4. n <= n /\ \A e \in Offset : e < n => n > e
    BY StreamAssumption DEF Offset
  <2>5. \A e \in Offset : e < n => SeenBy(told \cup {a}, doubted, s, b, e)
    BY <2>2, <2>3, <2>4, Zenon DEF SeenBy
  <2>6. \E r \in Resets(told \cup {a}, s, b) : r[2].next <= n
    BY <2>2, <2>3, <2>4, Zenon
  <2>7. {} \subseteq {Acknowledged(s, b, n)} /\ {a} \subseteq {ResetTo(s, b, n)}
    BY Zenon
  <2>. HIDE DEF a
  <2>8. MayMove(s, b, n, {}, {a})
    BY <2>5, <2>6, <2>7, Zenon DEF MayMove
  <2>. QED
    BY <1>2, <2>1, <2>8, CursorWrite, Zenon
<1>. QED
  BY <1>1, <1>3, <1>4, <1>5, Zenon

-----------------------------------------------------------------------------
(* Steps that write no cursor.                                             *)

CursorKinds == {"subscription", "group"}
CursorFacts == {"polled", "acknowledged", "reset", "delivered"}

LEMMA OthersPass ==
  ASSUME MediumOK, OneAtATime, KindsInv, [Next]_vars, ~SubscriptionSteps, ~GroupSteps,
         NEW K, NEW L, K \subseteq CursorKinds, L \subseteq CursorFacts
  PROVE  Passes(K, L)
<1>1. /\ CursorKinds \cap StagedKinds = {} /\ CursorFacts \cap StagedFacts = {}
      /\ AppendKinds \subseteq StagedKinds /\ AppendFacts \subseteq StagedFacts
      /\ FeedKinds \subseteq StagedKinds /\ FeedFacts \subseteq StagedFacts
  BY Zenon DEF CursorKinds, CursorFacts, StagedKinds, StagedFacts, AppendKinds, AppendFacts,
               FeedKinds, FeedFacts
<1>2. /\ K \cap StagedKinds = {} /\ L \cap StagedFacts = {}
      /\ K \cap AppendKinds = {} /\ L \cap AppendFacts = {}
      /\ K \cap FeedKinds = {} /\ L \cap FeedFacts = {}
  BY <1>1, Zenon
<1>3. CASE FeedSteps
  BY <1>2, <1>3, FeedForms, StepPasses, Zenon
<1>4. CASE AppendSteps
  BY <1>2, <1>4, AppendForms, StepPasses, Zenon
<1>5. CASE Commit
  <2>1. OfKinds(stage.writes, stage.facts, StagedKinds, StagedFacts)
        /\ Commits(stage.writes, stage.facts, {}, NoCall)
    BY <1>5, Zenon DEF Commit, KindsInv
  <2>2. OfKinds(stage.writes, stage.facts \cup {}, StagedKinds, StagedFacts)
    BY <2>1, Zenon DEF OfKinds
  <2>. QED
    BY <2>1, <2>2, <1>2, CommitPasses, Zenon
<1>6. CASE Rollback \/ CallFails \/ FlushStore \/ Reopen
  BY <1>6, ReopenPasses, Zenon
<1>7. CASE UNCHANGED vars
  <2>1. UNCHANGED <<mem, medium, told, doubted>>
    BY <1>7, Zenon DEF vars, txVars
  <2>2. \A i \in Copy' : \E j \in Copy : Map(i)' = Map(j)
    BY <2>1, Zenon DEF Copy, Map
  <2>. QED
    BY <2>1, <2>2, SameMapsPass, Zenon
<1>. QED
  BY <1>3, <1>4, <1>5, <1>6, <1>7, Zenon
     DEF Next, TxIdSteps, FeedSteps, TransactionSteps, ReopenFeeds

(* A group is reset to an offset.                                          *)
LEMMA GroupResets ==
  ASSUME GroupSteps, NEW f \in told', f[1] = "reset", f \notin told
  PROVE  f[2].next \in Offset
<1>1. /\ \A s, g, c, o, n, p : Delivered(s, g, c, o, n, p)[1] # "reset"
      /\ \A s, g, n, latest : Settled(s, g, n, latest)[1] # "reset"
      /\ \A s, b, n : ResetTo(s, b, n)[2].next = n
  BY Zenon DEF Delivered, Settled, ResetTo
<1>2. ASSUME NEW w, NEW facts, NEW asked, AloneAsking(w, facts, asked)
      PROVE  f \in facts \/ f \in asked
  <2>1. told' = told \cup facts \cup asked \/ told' = told \cup asked
    BY <1>2 DEF AloneAsking, Commits
  <2>. QED
    BY <2>1, Zenon
<1>3. ASSUME NEW w, NEW h, Alone(w, {h})
      PROVE  f = h
  BY <1>2, <1>3, Zenon DEF Alone
<1>4. ASSUME NEW s \in Stream, NEW g \in Group, NEW c \in Consumer,
             NEW now \in 0 .. MaxTime, NEW duration \in 0 .. MaxTime,
             ConsumerGroupClaim(s, g, c, now, duration)
      PROVE  FALSE
  <2>1. PICK w, o, n, p : Alone(w, {Delivered(s, g, c, o, n, p)})
    BY <1>4, Zenon DEF ConsumerGroupClaim
  <2>2. f = Delivered(s, g, c, o, n, p)
    BY <1>3, <2>1, Zenon
  <2>. QED
    BY <1>1, <2>2
<1>5. ASSUME NEW s \in Stream, NEW g \in Group, NEW now \in 0 .. MaxTime,
             ConsumerGroupClaimNothing(s, g, now)
      PROVE  FALSE
  BY <1>2, <1>5, Zenon DEF ConsumerGroupClaimNothing, Alone
<1>6. ASSUME NEW s \in Stream, NEW g \in Group, NEW n \in Offset, ConsumerGroupReset(s, g, n)
      PROVE  f[2].next \in Offset
  <2>1. PICK w : AloneAsking(w, {}, {ResetTo(s, g, n)})
    BY <1>6, Zenon DEF ConsumerGroupReset
  <2>2. f = ResetTo(s, g, n)
    BY <1>2, <2>1, Zenon
  <2>. QED
    BY <1>1, <2>2
<1>7. ASSUME NEW d \in told, ConsumerGroupAck(d) \/ ConsumerGroupNack(d)
      PROVE  FALSE
  <2>1. PICK rec : Settle(d, rec)
    BY <1>7, Zenon DEF ConsumerGroupAck, ConsumerGroupNack
  <2>2. PICK w, s, g, n, latest : Alone(w, {Settled(s, g, n, latest)})
    BY <2>1, Zenon DEF Settle
  <2>3. f = Settled(s, g, n, latest)
    BY <1>3, <2>2, Zenon
  <2>. QED
    BY <1>1, <2>3
<1>. QED
  BY <1>4, <1>5, <1>6, <1>7, Zenon DEF GroupSteps

LEMMA SubscribersNext ==
  ASSUME StreamInv, KindsInv, EntryInv, SubscriberInv, [Next]_vars
  PROVE  SubscriberInv'
<1>. DEFINE L == {"polled", "acknowledged", "reset"}
<1>1. MediumOK /\ OneAtATime
  BY Zenon DEF StreamInv
<1>2. CASE SubscriptionSteps
  BY <1>2, SubscriptionStep, Zenon
<1>3. CASE GroupSteps
  <2>1. {"subscription"} \cap {"group"} = {}
        /\ {"polled", "acknowledged"} \cap {"delivered", "settled", "reset"} = {}
    BY Zenon
  <2>2. Passes({"subscription"}, {"polled", "acknowledged"})
    BY <1>1, <1>3, <2>1, GroupForms, StepPasses
  <2>3. \A f \in told' : f[1] = "reset" => f[2].next \in Offset
    BY <1>3, GroupResets, Zenon DEF SubscriberInv
  <2>. QED
    BY <2>2, <2>3, SubscribersPass, Zenon
<1>4. CASE ~SubscriptionSteps /\ ~GroupSteps
  <2>1. /\ {"subscription"} \subseteq CursorKinds
        /\ {"polled", "acknowledged"} \subseteq CursorFacts /\ {"reset"} \subseteq CursorFacts
    BY Zenon DEF CursorKinds, CursorFacts
  <2>2. Passes({"subscription"}, {"polled", "acknowledged"}) /\ Passes({"subscription"}, {"reset"})
    BY <1>1, <1>4, <2>1, OthersPass, Zenon
  <2>3. \A f \in told' : f[1] = "reset" => f[2].next \in Offset
    BY <2>2, Zenon DEF Passes, SubscriberInv
  <2>. QED
    BY <2>2, <2>3, SubscribersPass, Zenon
<1>. QED
  BY <1>2, <1>3, <1>4, Zenon

(* In the initial state nothing is stored and nothing was told.            *)
LEMMA InitialMaps ==
  ASSUME Init
  PROVE  /\ stage = NoTx /\ told = {} /\ doubted = {}
         /\ \A i \in Copy : Map(i) = [k \in RecordKey |-> NoRecord]
         /\ mem = [k \in RecordKey |-> NoRecord]
<1>. DEFINE m == [k \in RecordKey |-> NoRecord]
<1>1. mem = m /\ medium = <<m>> /\ stage = NoTx /\ told = {} /\ doubted = {}
  BY Zenon DEF Init, InitFeeds, InitTransactions, InitRecords
<1>2. medium[1] = m /\ DOMAIN medium = 1 .. 1
  BY <1>1
<1>. HIDE DEF m
<1>3. \A i \in Copy : Map(i) = m
  BY <1>1, <1>2 DEF Copy, Map
<1>. QED
  BY <1>1, <1>3, Zenon DEF m

LEMMA SubscribersInit == Init => KindsInv /\ EntryInv /\ SubscriberInv
<1>. SUFFICES ASSUME Init
              PROVE  KindsInv /\ EntryInv /\ SubscriberInv
  BY Zenon
<1>. DEFINE m == [k \in RecordKey |-> NoRecord]
<1>1. /\ stage = NoTx /\ told = {} /\ doubted = {} /\ mem = m
      /\ \A i \in Copy : Map(i) = m
  BY InitialMaps, Zenon
<1>2. /\ \A s \in Stream, o \in Offset : m[EntryKey(s, o)] = NoRecord
      /\ \A s \in Stream, b \in Subscription : m[SubscriptionKey(s, b)] = NoRecord
  BY StreamKeysAreKeys, SubscriptionKeysAreKeys, Zenon
<1>3. 0 \in Offset /\ \A e \in Offset : ~(e < 0)
  BY StreamAssumption DEF Offset
<1>. HIDE DEF m
<1>4. KindsInv
  BY <1>1, Zenon DEF KindsInv
<1>5. EntryInv
  BY <1>1, <1>2, Zenon DEF EntryInv, Gapless
<1>6. SubscriberInv
  <2>1. \A i \in Copy, s \in Stream, b \in Subscription : SubscriptionState(Map(i), s, b) = 0
    BY <1>1, <1>2, Zenon DEF SubscriptionState
  <2>2. \A s, b : CursorOK(0, told, doubted, s, b)
    BY <1>1, <1>3, Zenon DEF CursorOK
  <2>. QED
    BY <1>1, <2>1, <2>2, Zenon DEF SubscriberInv
<1>. QED
  BY <1>4, <1>5, <1>6, Zenon

(* Two reports of an offset are of one entry.                              *)
LEMMA OneEntryPerOffset ==
  ASSUME StreamInv, NEW e \in told, NEW f \in told, e[1] = "appended", f[1] = "appended",
         e[2].stream = f[2].stream, e[2].offset = f[2].offset
  PROVE  e[2].payload = f[2].payload
<1>1. f[2].stream \in Stream
  BY Zenon DEF StreamInv, AppendOK
<1>2. StreamMapOK(mem, told)
  BY NewestIsCopy, Zenon DEF StreamInv
<1>. QED
  BY <1>1, <1>2, Zenon DEF StreamMapOK

(* A durable subscription neither falls behind what it acknowledged nor    *)
(* passes what it was not given, but for a reset or a commit in doubt,     *)
(* beside Transactions, crashes and all other operations. (messaging.rs)   *)
THEOREM SubscribersAreServed == Spec => []SubscribersMissNothing
<1>. DEFINE Inv == StreamInv /\ KindsInv /\ EntryInv /\ SubscriberInv
<1>1. Init => Inv
  BY StreamsInit, SubscribersInit, Zenon
<1>2. Inv /\ [Next]_vars => Inv'
  <2>. SUFFICES ASSUME StreamInv, KindsInv, EntryInv, SubscriberInv, [Next]_vars
                PROVE  Inv'
    BY Zenon
  <2>1. StreamInv'
    BY StreamsNext, Zenon
  <2>2. KindsInv'
    BY KindsNext, Zenon DEF StreamInv
  <2>3. EntryInv'
    BY <2>1, EntriesNext, Zenon
  <2>4. SubscriberInv'
    BY SubscribersNext, Zenon
  <2>. QED
    BY <2>1, <2>2, <2>3, <2>4, Zenon
<1>3. Inv => SubscribersMissNothing
  <2>. SUFFICES ASSUME StreamInv, SubscriberInv
                PROVE  SubscribersMissNothing
    BY Zenon
  <2>1. CursorsDoNotFall
    <3>1. ASSUME NEW f \in told, f[1] = "acknowledged", NEW i \in Copy
          PROVE  CursorOK(SubscriptionState(Map(i), f[2].stream, f[2].by), told, doubted,
                          f[2].stream, f[2].by)
      BY <3>1, Zenon DEF SubscriberInv
    <3>. QED
      BY <3>1, Zenon DEF CursorsDoNotFall, CursorOK, Resets
  <2>2. ASSUME NEW f \in told, NEW b \in Subscription, f[1] = "appended",
               f[2].offset < SubscriptionState(mem, f[2].stream, b)
        PROVE  \/ Polled(f[2].stream, b, f[2].offset, f[2].payload) \in told
               \/ EntryKey(f[2].stream, f[2].offset) \in doubted
               \/ \E r \in told : /\ r[1] = "reset"
                                  /\ r[2].stream = f[2].stream
                                  /\ r[2].by = b
                                  /\ r[2].next > f[2].offset
    <3>1. f[2].stream \in Stream /\ f[2].offset \in Offset
      BY <2>2, Zenon DEF StreamInv, AppendOK
    <3>2. CursorOK(SubscriptionState(mem, f[2].stream, b), told, doubted, f[2].stream, b)
      BY <3>1, NewestIsCopy, Zenon DEF SubscriberInv, StreamInv
    <3>3. SeenBy(told, doubted, f[2].stream, b, f[2].offset)
      BY <2>2, <3>1, <3>2, Zenon DEF CursorOK
    <3>. QED
      BY <2>2, <3>3, OneEntryPerOffset, Zenon DEF SeenBy, Resets
  <2>. QED
    BY <2>1, <2>2, Zenon DEF SubscribersMissNothing, NothingIsSkipped
<1>. QED
  BY <1>1, <1>2, <1>3, PTL DEF Spec

-----------------------------------------------------------------------------
(* Consumer groups. Entries behind the cursor of a group were delivered to *)
(* it as they were appended, with the same two exceptions.                 *)

ServedTo(T, D, s, g, e) ==
  \/ EntryKey(s, e) \in D
  \/ \E r \in Resets(T, s, g) : r[2].next > e
  \/ \E f, d \in T : /\ f[1] = "appended" /\ f[2].stream = s /\ f[2].offset = e
                     /\ d[1] = "delivered" /\ d[2].stream = s /\ d[2].group = g
                     /\ d[2].offset = e /\ d[2].payload = f[2].payload

ServedBelow(c, T, D, s, g) == \A e \in Offset : e < c => ServedTo(T, D, s, g, e)

ServedUpTo(f, T, D) ==
  \A e \in Offset : e <= f[2].offset => ServedTo(T, D, f[2].stream, f[2].group, e)

ServedInv ==
  /\ \A i \in Copy, s \in Stream, g \in Group :
       ServedBelow(GroupState(Map(i), s, g).next_offset, told, doubted, s, g)
  /\ \A f \in told : f[1] = "delivered" => ServedUpTo(f, told, doubted)

LEMMA ServedStays ==
  ASSUME NEW T, NEW D, NEW U, NEW E, T \subseteq U, D \subseteq E
  PROVE  /\ \A s, g, e : ServedTo(T, D, s, g, e) => ServedTo(U, E, s, g, e)
         /\ \A c, s, g : ServedBelow(c, T, D, s, g) => ServedBelow(c, U, E, s, g)
         /\ \A f : ServedUpTo(f, T, D) => ServedUpTo(f, U, E)
<1>1. ASSUME NEW s, NEW g, NEW e, ServedTo(T, D, s, g, e)
      PROVE  ServedTo(U, E, s, g, e)
  <2>1. Resets(T, s, g) \subseteq Resets(U, s, g)
    BY SeenStays, Zenon
  <2>. QED
    BY <1>1, <2>1, Zenon DEF ServedTo
<1>. QED
  BY <1>1, Zenon DEF ServedBelow, ServedUpTo

LEMMA ServedPass ==
  ASSUME ServedInv, Passes({"group"}, {"delivered"})
  PROVE  ServedInv'
<1>1. /\ told \subseteq told' /\ doubted \subseteq doubted'
      /\ \A f \in told' : f[1] \in {"delivered"} => f \in told
  BY Zenon DEF Passes
<1>2. ASSUME NEW i \in Copy', NEW s \in Stream, NEW g \in Group
      PROVE  ServedBelow(GroupState(Map(i)', s, g).next_offset, told', doubted', s, g)
  <2>1. PICK j \in Copy : \A k \in RecordKey : k[1] \in {"group"} => Map(i)'[k] = Map(j)[k]
    BY Zenon DEF Passes
  <2>2. GroupKey(s, g)[1] = "group" /\ GroupKey(s, g) \in RecordKey
    BY GroupKeysAreKeys, Zenon DEF GroupKey
  <2>3. GroupState(Map(i)', s, g) = GroupState(Map(j), s, g)
    BY <2>1, <2>2, Zenon DEF GroupState
  <2>4. ServedBelow(GroupState(Map(j), s, g).next_offset, told, doubted, s, g)
    BY Zenon DEF ServedInv
  <2>5. ServedBelow(GroupState(Map(j), s, g).next_offset, told', doubted', s, g)
    <3>. DEFINE n == GroupState(Map(j), s, g).next_offset
    <3>1. ServedBelow(n, told, doubted, s, g)
      BY <2>4, Zenon
    <3>. HIDE DEF n
    <3>2. ServedBelow(n, told', doubted', s, g)
      BY <3>1, <1>1, ServedStays, Zenon
    <3>. QED
      BY <3>2, Zenon DEF n
  <2>. QED
    BY <2>3, <2>5, Zenon
<1>3. \A f \in told' : f[1] = "delivered" => ServedUpTo(f, told', doubted')
  BY <1>1, ServedStays, Zenon DEF ServedInv
<1>. QED
  BY <1>2, <1>3, Zenon DEF ServedInv, GroupState, ServedBelow, ServedUpTo, ServedTo, Resets

(* The record of a group is written.                                       *)
LEMMA ServedWrite ==
  ASSUME MediumOK, ServedInv, NEW s \in Stream, NEW g \in Group, NEW rec \in ConsumerGroupState,
         NEW facts, NEW asked, NEW next,
         Commits(Put(GroupKey(s, g), rec), facts, asked, next),
         ServedBelow(rec.next_offset, told', doubted', s, g),
         \A f \in told' : f[1] = "delivered" => f \in told \/ ServedUpTo(f, told', doubted')
  PROVE  ServedInv'
<1>. DEFINE w == Put(GroupKey(s, g), rec)
<1>1. told \subseteq told' /\ doubted \subseteq doubted'
  BY DEF Commits
<1>2. rec # NoRecord
  BY GroupAssumption, Zenon
<1>3. \A m : \A t \in Stream, d \in Group :
        GroupState(Written(m, w), t, d) = IF t = s /\ d = g THEN rec ELSE GroupState(m, t, d)
  <2>. SUFFICES ASSUME NEW m, NEW t \in Stream, NEW d \in Group
                PROVE  GroupState(Written(m, w), t, d) =
                         IF t = s /\ d = g THEN rec ELSE GroupState(m, t, d)
    BY Zenon
  <2>1. GroupKey(t, d) \in RecordKey
    BY GroupKeysAreKeys, Zenon
  <2>2. DOMAIN w = {GroupKey(s, g)} /\ w[GroupKey(s, g)] = rec
    BY Zenon DEF Put
  <2>3. GroupKey(t, d) = GroupKey(s, g) <=> t = s /\ d = g
    BY Zenon DEF GroupKey
  <2>. HIDE DEF w
  <2>4. Written(m, w)[GroupKey(t, d)] = IF t = s /\ d = g THEN rec ELSE m[GroupKey(t, d)]
    BY <2>1, <2>2, <2>3, Zenon DEF Written
  <2>. QED
    BY <2>4, <1>2, Zenon DEF GroupState
<1>4. ASSUME NEW j \in Copy, NEW t \in Stream, NEW d \in Group
      PROVE  ServedBelow(GroupState(Map(j), t, d).next_offset, told', doubted', t, d)
  <2>. DEFINE n == GroupState(Map(j), t, d).next_offset
  <2>1. ServedBelow(n, told, doubted, t, d)
    BY Zenon DEF ServedInv
  <2>. HIDE DEF n
  <2>2. ServedBelow(n, told', doubted', t, d)
    BY <2>1, <1>1, ServedStays, Zenon
  <2>. QED
    BY <2>2, Zenon DEF n
<1>5. ASSUME NEW m, \E j \in Copy : m = Map(j), NEW t \in Stream, NEW d \in Group
      PROVE  ServedBelow(GroupState(Written(m, w), t, d).next_offset, told', doubted', t, d)
  <2>. HIDE DEF w
  <2>1. CASE t = s /\ d = g
    BY <2>1, <1>3, Zenon
  <2>2. CASE ~(t = s /\ d = g)
    BY <2>2, <1>3, <1>4, <1>5, Zenon
  <2>. QED
    BY <2>1, <2>2, Zenon
<1>6. \/ \A i \in Copy' : \E m \in {mem, Newest} : Map(i)' = Written(m, w)
      \/ /\ told' = told \cup asked
         /\ \A i \in Copy' : Map(i)' = Written(Newest, w) \/ \E j \in Copy : Map(i)' = Map(j)
  BY CommitMaps, Zenon
<1>7. (\E j \in Copy : mem = Map(j)) /\ (\E j \in Copy : Newest = Map(j))
  BY NewestIsCopy, Zenon
<1>. HIDE DEF w
<1>8. ASSUME NEW i \in Copy', NEW t \in Stream, NEW d \in Group
      PROVE  ServedBelow(GroupState(Map(i)', t, d).next_offset, told', doubted', t, d)
  <2>1. CASE \E m \in {mem, Newest} : Map(i)' = Written(m, w)
    BY <2>1, <1>5, <1>7, Zenon
  <2>2. CASE \E j \in Copy : Map(i)' = Map(j)
    BY <2>2, <1>4, Zenon
  <2>. QED
    BY <2>1, <2>2, <1>6, Zenon
<1>9. \A f \in told' : f[1] = "delivered" => ServedUpTo(f, told', doubted')
  BY <1>1, ServedStays, Zenon DEF ServedInv
<1>. QED
  BY <1>8, <1>9, Zenon DEF ServedInv, GroupState, ServedBelow, ServedUpTo, ServedTo, Resets

(* A group claims the entry at its cursor.                                 *)
LEMMA ClaimServes ==
  ASSUME StreamInv, GroupInv, EntryInv, ServedInv, NEW s \in Stream, NEW g \in Group,
         NEW o \in ReadFrom(s, GroupState(mem, s, g).next_offset, 1),
         NEW f \in told', f[1] = "delivered", f[2].stream = s, f[2].group = g, f[2].offset = o,
         f[2].payload = mem[EntryKey(s, o)], told \subseteq told', doubted \subseteq doubted'
  PROVE  ServedUpTo(f, told', doubted')
<1>. DEFINE c == GroupState(mem, s, g).next_offset
<1>1. c \in Offset /\ ServedBelow(c, told, doubted, s, g)
  <2>1. GroupState(mem, s, g) \in ConsumerGroupState
    BY NewestIsCopy, GroupStateType, Zenon DEF GroupInv
  <2>2. c \in Offset
    BY <2>1, Zenon DEF ConsumerGroupState
  <2>. QED
    BY <2>2, NewestIsCopy, Zenon DEF ServedInv, GroupInv
<1>2. o \in ReadFrom(s, c, 1)
  BY Zenon
<1>. HIDE DEF c
<1>3. o \in Offset /\ mem[EntryKey(s, o)] # NoRecord /\ Offset \subseteq Nat
  BY <1>2, StreamAssumption DEF ReadFrom, Offset
<1>4. ServedTo(told', doubted', s, g, o)
  <2>1. CASE EntryKey(s, o) \in doubted
    BY <2>1, Zenon DEF ServedTo
  <2>2. CASE EntryKey(s, o) \notin doubted
    <3>. DEFINE a == Appended(s, o, mem[EntryKey(s, o)])
    <3>1. a \in told'
      BY <2>2, <1>3, Zenon DEF EntryInv
    <3>2. /\ a[1] = "appended" /\ a[2].stream = s /\ a[2].offset = o
          /\ a[2].payload = mem[EntryKey(s, o)]
      BY Zenon DEF Appended
    <3>. HIDE DEF a
    <3>. QED
      BY <3>1, <3>2, Zenon DEF ServedTo
  <2>. QED
    BY <2>1, <2>2, Zenon
<1>5. ASSUME NEW e \in Offset, e < c
      PROVE  ServedTo(told', doubted', s, g, e)
  <2>1. ServedTo(told, doubted, s, g, e)
    BY <1>1, <1>5, Zenon DEF ServedBelow
  <2>. QED
    BY <2>1, ServedStays
<1>6. ASSUME NEW e \in Offset, e >= c, e < o
      PROVE  FALSE
  <2>. DEFINE found == {d \in Offset : d >= c /\ mem[EntryKey(s, d)] # NoRecord}
              B == {d \in found : d < o}
  <2>1. Cardinality(B) < 1
    BY <1>2, Zenon DEF ReadFrom
  <2>2. e <= o
    BY <1>3, <1>6
  <2>3. mem[EntryKey(s, e)] # NoRecord
    <3>1. Gapless(mem)
      BY NewestIsCopy, Zenon DEF EntryInv, StreamInv
    <3>. QED
      BY <3>1, <2>2, <1>3, Zenon DEF Gapless
  <2>4. e \in B
    BY <2>3, <1>6, Zenon
  <2>5. IsFiniteSet(Offset)
    BY FS_Interval, StreamAssumption DEF Offset
  <2>6. IsFiniteSet(B)
    BY <2>5, FS_Subset, Zenon
  <2>. HIDE DEF B
  <2>7. Cardinality(B) \in Nat /\ (Cardinality(B) = 0 <=> B = {})
    BY <2>6, FS_CardinalityType, FS_EmptySet, Zenon
  <2>. QED
    BY <2>1, <2>4, <2>7
<1>7. ASSUME NEW e \in Offset, e <= o
      PROVE  ServedTo(told', doubted', s, g, e)
  <2>1. e < c \/ e = o \/ (e >= c /\ e < o)
    BY <1>1, <1>3, <1>7
  <2>. QED
    BY <2>1, <1>4, <1>5, <1>6, Zenon
<1>. QED
  BY <1>7, Zenon DEF ServedUpTo

LEMMA ClearedLease ==
  ASSUME NEW state \in ConsumerGroupState
  PROVE  /\ ClearLease(state) \in ConsumerGroupState
         /\ ClearLease(state).next_offset = state.next_offset
         /\ \A n \in Offset :
              LET rec == [ClearLease(state) EXCEPT !.next_offset = n]
              IN  rec \in ConsumerGroupState /\ rec.next_offset = n
<1>1. 0 \in 0 .. MaxTime
  BY GroupAssumption
<1>2. /\ ClearLease(state) \in ConsumerGroupState
      /\ ClearLease(state).next_offset = state.next_offset
  BY <1>1, ZenonT(60) DEF ClearLease, ConsumerGroupState
<1>3. ASSUME NEW x \in ConsumerGroupState, NEW n \in Offset
      PROVE  /\ [x EXCEPT !.next_offset = n] \in ConsumerGroupState
             /\ [x EXCEPT !.next_offset = n].next_offset = n
  BY Zenon DEF ConsumerGroupState
<1>. QED
  BY <1>2, <1>3, Zenon

LEMMA ServedStep ==
  ASSUME StreamInv, GroupInv, EntryInv, ServedInv, GroupSteps
  PROVE  ServedInv'
<1>1. MediumOK
  BY Zenon DEF GroupInv
<1>2. ASSUME NEW s \in Stream, NEW g \in Group
      PROVE  /\ GroupState(mem, s, g) \in ConsumerGroupState
             /\ GroupState(mem, s, g).next_offset \in Offset
             /\ ServedBelow(GroupState(mem, s, g).next_offset, told, doubted, s, g)
  <2>1. GroupState(mem, s, g) \in ConsumerGroupState
    BY NewestIsCopy, GroupStateType, Zenon DEF GroupInv
  <2>2. GroupState(mem, s, g).next_offset \in Offset
    BY <2>1, Zenon DEF ConsumerGroupState
  <2>. QED
    BY <2>1, <2>2, <1>1, NewestIsCopy, Zenon DEF ServedInv
<1>3. ASSUME NEW s \in Stream, NEW g \in Group, NEW rec \in ConsumerGroupState,
             NEW facts, NEW asked, AloneAsking(Put(GroupKey(s, g), rec), facts, asked),
             ServedBelow(rec.next_offset, told \cup asked, doubted, s, g),
             \A f \in facts \cup asked : f[1] # "delivered"
      PROVE  ServedInv'
  <2>1. Commits(Put(GroupKey(s, g), rec), facts, asked, NoCall)
    BY <1>3, Zenon DEF AloneAsking
  <2>2. /\ told \cup asked \subseteq told' /\ doubted \subseteq doubted'
        /\ told' \subseteq told \cup asked \cup facts
    BY <2>1 DEF Commits
  <2>. DEFINE n == rec.next_offset
  <2>3. ServedBelow(n, told \cup asked, doubted, s, g)
    BY <1>3, Zenon
  <2>. HIDE DEF n
  <2>4. ServedBelow(n, told', doubted', s, g)
    BY <2>2, <2>3, ServedStays, Zenon
  <2>5. \A f \in told' : f[1] = "delivered" => f \in told \/ ServedUpTo(f, told', doubted')
    BY <2>2, <1>3, Zenon
  <2>. QED
    BY <2>1, <2>4, <2>5, <1>1, ServedWrite, Zenon DEF n
<1>4. ASSUME NEW s \in Stream, NEW g \in Group, NEW c \in Consumer,
             NEW now \in 0 .. MaxTime, NEW duration \in 0 .. MaxTime,
             ConsumerGroupClaim(s, g, c, now, duration)
      PROVE  ServedInv'
  <2>. DEFINE state == GroupState(mem, s, g)
              rec(o) == LeasedTo(state, c, o, now + duration)
              f(o) == Delivered(s, g, c, o, state.lease_generation + 1, mem[EntryKey(s, o)])
  <2>1. PICK o \in ReadFrom(s, state.next_offset, 1) : Alone(Put(GroupKey(s, g), rec(o)), {f(o)})
    BY <1>4, Zenon DEF ConsumerGroupClaim
  <2>2. o \in Offset
    BY Zenon DEF ReadFrom
  <2>3. state.lease_generation \in 0 .. MaxGeneration
    BY <1>2, Zenon DEF ConsumerGroupState
  <2>4. state.lease_generation + 1 \in 0 .. MaxGeneration /\ now + duration \in 0 .. MaxTime
    BY <1>4, <2>3, GroupAssumption DEF ConsumerGroupClaim
  <2>5. rec(o) \in ConsumerGroupState /\ rec(o).next_offset = state.next_offset
    BY <1>2, <2>2, <2>4, Zenon DEF LeasedTo, ConsumerGroupState
  <2>6. /\ f(o)[1] = "delivered" /\ f(o)[2].stream = s /\ f(o)[2].group = g
        /\ f(o)[2].offset = o /\ f(o)[2].payload = mem[EntryKey(s, o)]
    BY Zenon DEF Delivered
  <2>7. Commits(Put(GroupKey(s, g), rec(o)), {f(o)}, {}, NoCall)
    BY <2>1, Zenon DEF Alone, AloneAsking
  <2>. HIDE DEF rec, f
  <2>8. /\ told \subseteq told' /\ doubted \subseteq doubted'
        /\ told' \subseteq told \cup {f(o)}
    BY <2>7 DEF Commits
  <2>9. f(o) \in told' => ServedUpTo(f(o), told', doubted')
    BY <2>1, <2>6, <2>8, ClaimServes, Zenon
  <2>10. \A h \in told' : h[1] = "delivered" => h \in told \/ ServedUpTo(h, told', doubted')
    BY <2>8, <2>9, Zenon
  <2>. DEFINE n == state.next_offset
  <2>11. ServedBelow(n, told, doubted, s, g)
    BY <1>2, Zenon
  <2>12. rec(o).next_offset = n
    BY <2>5, Zenon
  <2>. HIDE DEF n, state
  <2>13. ServedBelow(n, told', doubted', s, g)
    BY <2>8, <2>11, ServedStays, Zenon
  <2>14. ServedBelow(rec(o).next_offset, told', doubted', s, g)
    BY <2>12, <2>13, Zenon
  <2>. QED
    BY <2>5, <2>7, <2>10, <2>14, <1>1, ServedWrite, Zenon
<1>5. ASSUME NEW s \in Stream, NEW g \in Group, NEW now, ConsumerGroupClaimNothing(s, g, now)
      PROVE  ServedInv'
  <2>. DEFINE rec == ClearLease(GroupState(mem, s, g))
  <2>1. AloneAsking(Put(GroupKey(s, g), rec), {}, {})
    BY <1>5, Zenon DEF ConsumerGroupClaimNothing, Alone
  <2>2. rec \in ConsumerGroupState /\ rec.next_offset = GroupState(mem, s, g).next_offset
    BY <1>2, ClearedLease, Zenon
  <2>3. told \cup {} = told /\ \A f \in {} \cup {} : f[1] # "delivered"
    BY Zenon
  <2>4. ServedBelow(rec.next_offset, told \cup {}, doubted, s, g)
    BY <1>2, <2>2, <2>3, Zenon
  <2>. HIDE DEF rec
  <2>. QED
    BY <2>1, <2>2, <2>3, <2>4, <1>3, Zenon
<1>6. ASSUME NEW s \in Stream, NEW g \in Group, NEW n \in Offset, ConsumerGroupReset(s, g, n)
      PROVE  ServedInv'
  <2>. DEFINE rec == [ClearLease(GroupState(mem, s, g)) EXCEPT !.next_offset = n]
              a == ResetTo(s, g, n)
  <2>1. AloneAsking(Put(GroupKey(s, g), rec), {}, {a})
    BY <1>6, Zenon DEF ConsumerGroupReset, ResetState
  <2>2. a[1] = "reset" /\ a[2].stream = s /\ a[2].by = g /\ a[2].next = n
    BY Zenon DEF ResetTo
  <2>3. rec \in ConsumerGroupState /\ rec.next_offset = n
    BY <1>2, ClearedLease, Zenon
  <2>. HIDE DEF a, rec
  <2>4. a \in Resets(told \cup {a}, s, g)
    BY <2>2, Zenon DEF Resets
  <2>5. \A e \in Offset : e < n => n > e
    BY StreamAssumption DEF Offset
  <2>6. ServedBelow(n, told \cup {a}, doubted, s, g)
    BY <2>2, <2>4, <2>5, Zenon DEF ServedBelow, ServedTo
  <2>7. \A f \in {} \cup {a} : f[1] # "delivered"
    BY <2>2
  <2>. QED
    BY <2>1, <2>3, <2>6, <2>7, <1>3, Zenon
<1>7. ASSUME NEW d \in told, d[1] = "delivered", ConsumerGroupAck(d) \/ ConsumerGroupNack(d)
      PROVE  ServedInv'
  <2>. DEFINE s == d[2].stream
              g == d[2].group
              state == GroupState(mem, s, g)
              acked == [ClearLease(state) EXCEPT !.next_offset = d[2].offset + 1]
  <2>1. s \in Stream /\ g \in Group /\ d[2].offset \in Offset
    BY <1>7, Zenon DEF GroupInv, DeliveryOK
  <2>2. ASSUME NEW rec \in ConsumerGroupState, Settle(d, rec),
               ServedBelow(rec.next_offset, told, doubted, s, g)
        PROVE  ServedInv'
    <3>1. PICK latest : AloneAsking(Put(GroupKey(s, g), rec),
                                    {Settled(s, g, d[2].generation, latest)}, {})
      BY <2>2, Zenon DEF Settle, Alone
    <3>. DEFINE h == Settled(s, g, d[2].generation, latest)
    <3>2. h[1] = "settled"
      BY Zenon DEF Settled
    <3>3. AloneAsking(Put(GroupKey(s, g), rec), {h}, {})
      BY <3>1, Zenon
    <3>. HIDE DEF h
    <3>4. \A f \in {h} \cup {} : f[1] # "delivered"
      BY <3>2
    <3>5. told \cup {} = told
      BY Zenon
    <3>6. ServedBelow(rec.next_offset, told \cup {}, doubted, s, g)
      BY <2>2, <3>5, Zenon
    <3>. HIDE DEF s, g
    <3>. QED
      BY <2>1, <3>3, <3>4, <3>6, <1>3, Zenon
  <2>3. CASE ConsumerGroupAck(d)
    <3>1. d[2].offset + 1 \in Offset
      BY <2>1, <2>3, StreamAssumption DEF ConsumerGroupAck, Offset
    <3>2. acked \in ConsumerGroupState /\ acked.next_offset = d[2].offset + 1
      BY <1>2, <2>1, <3>1, ClearedLease, Zenon
    <3>3. ServedUpTo(d, told, doubted)
      BY <1>7, Zenon DEF ServedInv
    <3>4. \A e \in Offset : e < d[2].offset + 1 => e <= d[2].offset
      BY <2>1, StreamAssumption DEF Offset
    <3>5. ServedBelow(d[2].offset + 1, told, doubted, s, g)
      BY <3>3, <3>4, Zenon DEF ServedBelow, ServedUpTo
    <3>6. Settle(d, acked)
      BY <2>3, Zenon DEF ConsumerGroupAck
    <3>. HIDE DEF acked, s, g
    <3>7. ServedBelow(acked.next_offset, told, doubted, s, g)
      BY <3>2, <3>5, Zenon
    <3>. QED
      BY <3>2, <3>6, <3>7, <2>2, Zenon
  <2>4. CASE ConsumerGroupNack(d)
    <3>. DEFINE rec == ClearLease(state)
    <3>1. rec \in ConsumerGroupState /\ rec.next_offset = state.next_offset
      BY <1>2, <2>1, ClearedLease, Zenon
    <3>2. ServedBelow(state.next_offset, told, doubted, s, g)
      BY <1>2, <2>1, Zenon
    <3>3. Settle(d, rec)
      BY <2>4, Zenon DEF ConsumerGroupNack
    <3>. HIDE DEF rec, s, g, state
    <3>4. ServedBelow(rec.next_offset, told, doubted, s, g)
      BY <3>1, <3>2, Zenon
    <3>. QED
      BY <3>1, <3>3, <3>4, <2>2, Zenon
  <2>. QED
    BY <1>7, <2>3, <2>4, Zenon
<1>. QED
  BY <1>4, <1>5, <1>6, <1>7, Zenon DEF GroupSteps

LEMMA ServedNext ==
  ASSUME StreamInv, GroupInv, KindsInv, EntryInv, ServedInv, [Next]_vars
  PROVE  ServedInv'
<1>1. MediumOK /\ OneAtATime
  BY Zenon DEF GroupInv
<1>2. CASE GroupSteps
  BY <1>2, ServedStep, Zenon
<1>3. CASE SubscriptionSteps
  <2>1. {"group"} \cap SubscriptionKinds = {} /\ {"delivered"} \cap SubscriptionFacts = {}
    BY Zenon DEF SubscriptionKinds, SubscriptionFacts
  <2>2. Passes({"group"}, {"delivered"})
    BY <1>1, <1>3, <2>1, SubscriptionForms, StepPasses
  <2>. QED
    BY <2>2, ServedPass, Zenon
<1>4. CASE ~SubscriptionSteps /\ ~GroupSteps
  <2>1. {"group"} \subseteq CursorKinds /\ {"delivered"} \subseteq CursorFacts
    BY Zenon DEF CursorKinds, CursorFacts
  <2>2. Passes({"group"}, {"delivered"})
    BY <1>1, <1>4, <2>1, OthersPass, Zenon
  <2>. QED
    BY <2>2, ServedPass, Zenon
<1>. QED
  BY <1>2, <1>3, <1>4, Zenon

LEMMA ServedInit == Init => ServedInv
<1>. SUFFICES ASSUME Init
              PROVE  ServedInv
  BY Zenon
<1>. DEFINE m == [k \in RecordKey |-> NoRecord]
<1>1. told = {} /\ \A i \in Copy : Map(i) = m
  BY InitialMaps, Zenon
<1>2. \A s \in Stream, g \in Group : m[GroupKey(s, g)] = NoRecord
  BY GroupKeysAreKeys, Zenon
<1>3. NewGroup.next_offset = 0
  BY Zenon DEF NewGroup
<1>4. \A e \in Offset : ~(e < 0)
  BY StreamAssumption DEF Offset
<1>. HIDE DEF m
<1>5. \A i \in Copy, s \in Stream, g \in Group : GroupState(Map(i), s, g).next_offset = 0
  BY <1>1, <1>2, <1>3, Zenon DEF GroupState
<1>6. \A s, g : ServedBelow(0, told, doubted, s, g)
  BY <1>4, Zenon DEF ServedBelow
<1>. QED
  BY <1>1, <1>5, <1>6, Zenon DEF ServedInv

(* A consumer group skips no entry that was appended: claims, acks, nacks, *)
(* redeliveries and crashes, beside every other operation, leave no entry  *)
(* behind the cursor that was not delivered, but for a reset or a commit   *)
(* in doubt. (consumer_group.rs)                                           *)
THEOREM GroupsAreServed == Spec => []GroupSkipsNothing
<1>. DEFINE Inv == StreamInv /\ GroupInv /\ KindsInv /\ EntryInv /\ ServedInv
<1>1. Init => Inv
  BY StreamsInit, GroupInit, SubscribersInit, ServedInit, Zenon
<1>2. Inv /\ [Next]_vars => Inv'
  <2>. SUFFICES ASSUME StreamInv, GroupInv, KindsInv, EntryInv, ServedInv, [Next]_vars
                PROVE  Inv'
    BY Zenon
  <2>1. StreamInv' /\ GroupInv'
    BY StreamsNext, GroupNext, Zenon
  <2>2. KindsInv'
    BY KindsNext, Zenon DEF StreamInv
  <2>3. EntryInv'
    BY <2>1, EntriesNext, Zenon
  <2>4. ServedInv'
    BY ServedNext, Zenon
  <2>. QED
    BY <2>1, <2>2, <2>3, <2>4, Zenon
<1>3. Inv => GroupSkipsNothing
  <2>. SUFFICES ASSUME StreamInv, ServedInv
                PROVE  GroupSkipsNothing
    BY Zenon
  <2>1. ASSUME NEW f \in told, NEW g \in Group, f[1] = "appended",
               f[2].offset < GroupState(mem, f[2].stream, g).next_offset
        PROVE  \/ \E d \in Deliveries(f[2].stream, g) :
                    d[2].offset = f[2].offset /\ d[2].payload = f[2].payload
               \/ EntryKey(f[2].stream, f[2].offset) \in doubted
               \/ \E r \in told : /\ r[1] = "reset"
                                  /\ r[2].stream = f[2].stream
                                  /\ r[2].by = g
                                  /\ r[2].next > f[2].offset
    <3>1. f[2].stream \in Stream /\ f[2].offset \in Offset
      BY <2>1, Zenon DEF StreamInv, AppendOK
    <3>2. ServedBelow(GroupState(mem, f[2].stream, g).next_offset, told, doubted, f[2].stream, g)
      BY <3>1, NewestIsCopy, Zenon DEF ServedInv, StreamInv
    <3>3. ServedTo(told, doubted, f[2].stream, g, f[2].offset)
      BY <2>1, <3>1, <3>2, Zenon DEF ServedBelow
    <3>. QED
      BY <2>1, <3>3, OneEntryPerOffset, Zenon DEF ServedTo, Resets, Deliveries
  <2>. QED
    BY <2>1, Zenon DEF GroupSkipsNothing
<1>. QED
  BY <1>1, <1>2, <1>3, PTL DEF Spec

=============================================================================
