-------------------------------- MODULE Feeds --------------------------------
(***************************************************************************)
(* Records that are ordered by the identifier of the transaction that      *)
(* wrote them: the change feed (cdc.rs), the outbox (outbox.rs) and the    *)
(* requests of rpc.rs, and a reader that pages through one of them with a  *)
(* transaction identifier as its cursor. A store may be replaced by a copy *)
(* of it, which begins with identifiers of its own.                        *)
(*                                                                         *)
(* A nonce is random in the code and an unused number here, so that events *)
(* of one transaction come in any order.                                   *)
(***************************************************************************)
EXTENDS Transactions

CONSTANTS
  MaxTx,    \* bound: u64::MAX for transaction identifiers
  Nonce,    \* numbers that tell the events of a transaction apart
  Answer,   \* what a server may answer
  Expired,  \* the answer "deadline exceeded"
  NoDeadline,
  NoReader

ASSUME FeedAssumption ==
  /\ MaxTx \in Nat
  /\ Nonce \subseteq Nat
  /\ Expired \notin Answer

VARIABLES
  nextTx,  \* Store.next_tx_id
  reader   \* a reader: the feed it reads, its cursor, what it saw, where pages cut

feedVars == <<nextTx, reader>>

Tx == 1 .. MaxTx
MaxChanges == IF MaxStaged < 2 THEN 2 ELSE MaxStaged

(* The highest identifier in a log, which every commit writes.             *)
LastKey == <<"last", 0, 0>>
EventKey(t, n) == <<"event", t, n>>
RequestKey(t, n) == <<"request", t, n>>
ResponseKey(t, n) == <<"response", t, n>>
ChangeKey(t, i) == <<"change", t, i>>

FeedKeys ==
  {LastKey} \cup {ChangeKey(t, i) : t \in Tx, i \in 0 .. MaxChanges - 1}
    \cup {EventKey(t, n) : t \in Tx, n \in Nonce}
    \cup {RequestKey(t, n) : t \in Tx, n \in Nonce}
    \cup {ResponseKey(t, n) : t \in Tx, n \in Nonce}

Last(m) == IF m[LastKey] = NoRecord THEN 0 ELSE m[LastKey]

Emitted(t, n) == <<"emitted", [tx |-> t, nonce |-> n]>>
Acked(t, n) == <<"acked", [tx |-> t, nonce |-> n]>>
Requested(t, n) == <<"requested", [tx |-> t, nonce |-> n]>>
Responded(t, n, a) == <<"responded", [tx |-> t, nonce |-> n, answer |-> a]>>
Consumed(t, n) == <<"consumed", [tx |-> t, nonce |-> n]>>
Changed(t, i, k) == <<"changed", [tx |-> t, index |-> i, key |-> k]>>
Pruned(t) == <<"pruned", [tx |-> t]>>
Copied == <<"copied", [tx |-> 1]>>

InitFeeds ==
  /\ InitTransactions
  /\ nextTx = 1
  /\ reader = NoReader

-----------------------------------------------------------------------------
(* Transactions with identifiers and change records.                       *)

(* One change record per operation, numbered from the index given.         *)
ChangeWrites(t, from, keys) ==
  [c \in {ChangeKey(t, from + i - 1) : i \in 1 .. Len(keys)} |-> keys[c[3] - from + 1]]

ChangeFacts(t, from, keys) == {Changed(t, from + i - 1, keys[i]) : i \in 1 .. Len(keys)}

KeepsTxId == UNCHANGED nextTx

TakeTxId == nextTx <= MaxTx /\ nextTx' = nextTx + 1

(* An operation on the Store that writes w in a transaction; keys are the  *)
(* keys of its operations, in order.                                       *)
AloneWithId(w, keys, facts, asked) ==
  /\ TakeTxId
  /\ AloneAsking(And(And(w, Put(LastKey, nextTx)), ChangeWrites(nextTx, 0, keys)),
                 facts \cup ChangeFacts(nextTx, 0, keys), asked)
  /\ UNCHANGED reader

BeginWithId ==
  /\ TakeTxId
  /\ BeginWith(Put(LastKey, nextTx))
  /\ UNCHANGED reader

StageTx == stage.writes[LastKey]

(* An operation with one key of the Transaction. The change records are    *)
(* staged by commit, after all operations; nothing reads them before.      *)
StagedWithId(w, key, facts) ==
  /\ stage # NoTx
  /\ LET t == StageTx
         from == Cardinality({k \in DOMAIN stage.writes : k[1] = "change"})
     IN  Staged(And(w, ChangeWrites(t, from, <<key>>)),
                facts \cup ChangeFacts(t, from, <<key>>))
  /\ UNCHANGED feedVars

(* The next identifier after a recovery is above all that left a record in *)
(* the log; a transaction that was rolled back may have left one, or not.  *)
RecoverTxId(last) == nextTx' \in last + 1 .. nextTx

ReopenFeeds ==
  /\ Reopen
  /\ RecoverTxId(Last(mem'))
  /\ UNCHANGED reader

NoMarker(last) == {1}

(* A generation ends with a marker one above the highest identifier in the *)
(* log it was made from.                                                   *)
MarkerTx(last) == last + 1 .. nextTx

CopyAs(last, facts) ==
  /\ Idle
  /\ mem' = Written(mem, Put(LastKey, last))
  /\ medium' = <<mem'>>
  /\ nextTx' = last + 1
  /\ told' = told \cup facts
  /\ UNCHANGED <<stage, call, doubted, reader>>

(* compact_generation_to, and the file it made put in place of the Store's *)
(* (module StoreFiles). It holds what is visible.                          *)
OpenGeneration ==
  /\ nextTx <= MaxTx
  /\ \E last \in MarkerTx(Last(Newest)) : CopyAs(last, {})

(* compact_copy_to or snapshot_to, and the copy opened: what is visible    *)
(* was written by one transaction, the first.                              *)
OpenCompactCopy ==
  /\ mem # [k \in RecordKey |-> NoRecord]
  /\ CopyAs(1, {Copied})

-----------------------------------------------------------------------------
(* The outbox.                                                             *)

Unused(key) == View[key] = NoRecord /\ \A i \in Copy : Map(i)[key] = NoRecord

EmitEvent(n) ==
  /\ stage # NoTx
  /\ Unused(EventKey(StageTx, n))
  /\ StagedWithId(Put(EventKey(StageTx, n), "event"), EventKey(StageTx, n),
                  {Emitted(StageTx, n)})

EmitOutboxEvent(n) ==
  LET key == EventKey(nextTx, n)
  IN  /\ nextTx <= MaxTx
      /\ Unused(key)
      /\ AloneWithId(Put(key, "event"), <<key>>, {Emitted(nextTx, n)}, {})

AckOutboxEvent(t, n) ==
  LET key == EventKey(t, n)
  IN  /\ mem[key] # NoRecord
      /\ AloneWithId(Delete(key), <<key>>, {}, {Acked(t, n)})

-----------------------------------------------------------------------------
(* Remote calls.                                                           *)

RequestRpc(n, deadline) ==
  /\ stage # NoTx
  /\ Unused(RequestKey(StageTx, n))
  /\ StagedWithId(Put(RequestKey(StageTx, n), deadline), RequestKey(StageTx, n),
                  {Requested(StageTx, n)})

SubmitRpcRequest(n, deadline) ==
  LET key == RequestKey(nextTx, n)
  IN  /\ nextTx <= MaxTx
      /\ Unused(key)
      /\ AloneWithId(Put(key, deadline), <<key>>, {Requested(nextTx, n)}, {})

(* The request makes way for its response in one transaction.              *)
RespondWrites(t, n, answer) ==
  And(Delete(RequestKey(t, n)), Put(ResponseKey(t, n), answer))

Pending(t, n) == mem[RequestKey(t, n)] # NoRecord

RespondToAnswered(t, n, answer) ==
  /\ Pending(t, n) \/ mem[ResponseKey(t, n)] # NoRecord
  /\ AloneWithId(RespondWrites(t, n, answer), <<RequestKey(t, n), ResponseKey(t, n)>>,
                 {Responded(t, n, answer)}, {})

RespondRpc(t, n, answer) ==
  /\ Pending(t, n)
  /\ AloneWithId(RespondWrites(t, n, answer), <<RequestKey(t, n), ResponseKey(t, n)>>,
                 {Responded(t, n, answer)}, {})

AckRpcResponse(t, n) ==
  LET key == ResponseKey(t, n)
  IN  /\ mem[key] # NoRecord
      /\ AloneWithId(Delete(key), <<key>>, {}, {Consumed(t, n)})

(* The loop of expire_rpc_requests over the requests found when it began,  *)
(* in the order of their keys.                                             *)
ExpireRpcRequests(now, limit) ==
  LET due == {id \in Tx \X Nonce : /\ Pending(id[1], id[2])
                                   /\ mem[RequestKey(id[1], id[2])] # NoDeadline
                                   /\ mem[RequestKey(id[1], id[2])] <= now}
  IN  /\ due # {}
      /\ limit > 0
      /\ StartCall([op |-> "expire", due |-> due, left |-> limit])
      /\ UNCHANGED feedVars

Before(a, b) == a[1] < b[1] \/ (a[1] = b[1] /\ a[2] < b[2])

ExpireStep ==
  /\ call # NoCall
  /\ TakeTxId
  /\ \E id \in call.due :
       LET keys == <<RequestKey(id[1], id[2]), ResponseKey(id[1], id[2])>>
       IN  /\ \A other \in call.due \ {id} : Before(id, other)
           /\ CallStep(And(And(RespondWrites(id[1], id[2], Expired), Put(LastKey, nextTx)),
                           ChangeWrites(nextTx, 0, keys)),
                       {Responded(id[1], id[2], Expired)} \cup ChangeFacts(nextTx, 0, keys),
                       IF call.left = 1 \/ call.due = {id} THEN NoCall
                       ELSE [call EXCEPT !.due = @ \ {id}, !.left = @ - 1])
  /\ UNCHANGED reader

-----------------------------------------------------------------------------
(* Readers: changes_after, outbox_events_after, pending_rpc_requests_after.*)

Feed(kind, m) == {k \in FeedKeys : k[1] = kind /\ m[k] # NoRecord}

KeyBefore(k, l) == Before(<<k[2], k[3]>>, <<l[2], l[3]>>)

(* Up to limit records behind the cursor. With a limit of zero the change  *)
(* feed returns none and the others return all.                            *)
Page(kind, cursor, limit) ==
  LET found == {k \in Feed(kind, mem) : k[2] > cursor}
  IN  IF limit = 0 THEN IF kind = "change" THEN {} ELSE found
      ELSE {k \in found : Cardinality({l \in found : KeyBefore(l, k)}) < limit}

NewReader(kind) == [kind |-> kind, cursor |-> 0, seen |-> {}, cut |-> {}]

(* A reader takes a page and moves its cursor to the last identifier in it.*)
ReadPage(kind, limit) ==
  LET r == IF reader = NoReader THEN NewReader(kind) ELSE reader
      page == Page(kind, r.cursor, limit)
      last == CHOOSE t \in {k[2] : k \in page} : \A k \in page : k[2] <= t
  IN  /\ Idle
      /\ r.kind = kind
      /\ page # {}
      /\ reader' = [r EXCEPT !.cursor = last, !.seen = @ \cup page,
                             !.cut = @ \cup {k[2] : k \in {l \in Feed(kind, mem) \ page :
                                                              l[2] = last}}]
      /\ UNCHANGED <<txVars, nextTx>>

(* prune_changes_through: at most limit records from the oldest on, in a   *)
(* transaction without change records.                                     *)
PruneChangesThrough(t, limit) ==
  LET old == {k \in Feed("change", mem) : k[2] <= t}
      gone == {k \in old : Cardinality({l \in old : KeyBefore(l, k)}) < limit}
  IN  /\ gone # {}
      /\ TakeTxId
      /\ AloneAsking(And([k \in gone |-> NoRecord], Put(LastKey, nextTx)), {}, {Pruned(t)})
      /\ UNCHANGED reader

TxIdSteps == BeginWithId \/ ReopenFeeds \/ OpenGeneration \/ OpenCompactCopy

OutboxSteps ==
  \E n \in Nonce :
    \/ EmitEvent(n) \/ EmitOutboxEvent(n)
    \/ \E t \in Tx : AckOutboxEvent(t, n)

RpcSteps ==
  \/ ExpireStep
  \/ \E now \in 0 .. 1, limit \in 0 .. 2 : ExpireRpcRequests(now, limit)
  \/ \E n \in Nonce :
       \/ \E d \in {1, NoDeadline} : RequestRpc(n, d) \/ SubmitRpcRequest(n, d)
       \/ \E t \in Tx : \/ AckRpcResponse(t, n)
                       \/ \E a \in Answer : RespondRpc(t, n, a)

ReaderSteps == \E kind \in {"change", "event", "request"}, limit \in 0 .. 2 : ReadPage(kind, limit)

PruneSteps == \E t \in Tx, limit \in 1 .. 2 : PruneChangesThrough(t, limit)

-----------------------------------------------------------------------------
(* An event that was emitted stays in the outbox, in memory and in         *)
(* everything a recovery may find, until its acknowledgement was asked for *)
(* ("acknowledge them only after the external side effect succeeds").      *)
EventsAreKept ==
  \A f \in told : f[1] = "emitted" /\ Acked(f[2].tx, f[2].nonce) \notin told =>
    \A i \in Copy : Map(i)[EventKey(f[2].tx, f[2].nonce)] # NoRecord

(* A request that was accepted is pending or answered, never both, in      *)
(* memory and in everything a recovery may find, until its response was    *)
(* consumed: respond_rpc and expire_rpc_requests replace one record by the *)
(* other in one transaction.                                               *)
RequestsHaveOneState ==
  \A f \in told : f[1] = "requested" =>
    \A i \in Copy :
      LET pending == Map(i)[RequestKey(f[2].tx, f[2].nonce)] # NoRecord
          answered == Map(i)[ResponseKey(f[2].tx, f[2].nonce)] # NoRecord
      IN  /\ ~(pending /\ answered)
          /\ Consumed(f[2].tx, f[2].nonce) \notin told => pending \/ answered

(* A request gets one answer: if an answer was reported as stored, no      *)
(* other one is, and every map has that answer until it was consumed. An   *)
(* answer and the expiry of the deadline race, and either may stay in      *)
(* doubt and be repeated.                                                  *)
AnsweredOnce ==
  \A f \in told : f[1] = "responded" =>
    /\ \A g \in told : /\ g[1] = "responded"
                       /\ g[2].tx = f[2].tx /\ g[2].nonce = f[2].nonce
                       => g = f
    /\ \A i \in Copy :
         Map(i)[ResponseKey(f[2].tx, f[2].nonce)] # f[2].answer =>
           Consumed(f[2].tx, f[2].nonce) \in told

(* "CDC records describe every logical key mutation that participated in a *)
(* committed transaction": the change records of a transaction stay what   *)
(* they were, in memory and in everything a recovery may find, until a     *)
(* prune was asked to go so far. Transaction identifiers must never be     *)
(* used again, by a store or by the generation that replaces it. (A store  *)
(* that goes on from a compact copy does use them again.)                  *)
ChangesAreKept ==
  Copied \notin told =>
    \A f \in told :
      f[1] = "changed" /\ (\A g \in told : g[1] = "pruned" => g[2].tx < f[2].tx) =>
        \A i \in Copy : Map(i)[ChangeKey(f[2].tx, f[2].index)] = f[2].key

(* A reader misses nothing: each record of its feed that is at or behind   *)
(* its cursor was in one of its pages, with four exceptions. A page may be *)
(* full in the middle of a transaction; a commit in doubt may show late    *)
(* what it wrote; a reader that saw such a commit, which a loss of power   *)
(* then took away, is ahead of the identifiers that come again, and so is  *)
(* one that goes on with a compact copy.                                   *)
ReaderMissesNothing ==
  reader # NoReader =>
    \A k \in Feed(reader.kind, mem) :
      k[2] <= reader.cursor =>
        \/ k \in reader.seen
        \/ k \in doubted
        \/ k[2] \in reader.cut
        \/ reader.seen \cap doubted # {}
        \/ Copied \in told

(* Every accepted request is pending or has its one answer until the       *)
(* answer is consumed.                                                     *)
RequestsAreAnsweredOnce == RequestsHaveOneState /\ AnsweredOnce

(* An event that was emitted is kept until it is acknowledged, and a       *)
(* reader that follows its cursor comes across it.                         *)
EventsReachReaders == EventsAreKept /\ ReaderMissesNothing

=============================================================================
