----------------------------- MODULE MCMessaging -----------------------------
(***************************************************************************)
(* The cases that TLC explores, each with some of the operations and       *)
(* bounds of its own: appends with Transactions; one subscription; one     *)
(* consumer group; events with their readers, pruning and generations;     *)
(* events in a compact copy; requests; and Transactions over several       *)
(* primitives.                                                             *)
(***************************************************************************)
EXTENDS Messaging

VARIABLE focus

MessagingKeys == StreamKeys \cup GroupKeys \cup FeedKeys

MCInit ==
  /\ Init
  /\ focus \in {"append", "subscription", "group", "outbox", "copy", "rpc", "mixed"}

In(cases, steps) == focus \in cases /\ steps /\ UNCHANGED focus

MCNext ==
  \/ In({"append", "outbox", "copy", "rpc", "mixed"}, BeginWithId)
  \/ In({"append", "subscription", "group", "outbox", "copy", "rpc", "mixed"},
        ReopenFeeds \/ (TransactionSteps /\ UNCHANGED feedVars))
  \/ In({"append", "subscription", "group", "mixed"}, AppendSteps /\ UNCHANGED feedVars)
  \/ In({"subscription"}, SubscriptionSteps /\ UNCHANGED feedVars)
  \/ In({"group"}, GroupSteps /\ UNCHANGED feedVars)
  \/ In({"outbox", "copy", "mixed"}, OutboxSteps)
  \/ In({"outbox"}, OpenGeneration \/ PruneSteps)
  \/ In({"copy"}, OpenCompactCopy)
  \/ In({"rpc", "mixed"}, RpcSteps)
  \/ In({"outbox", "copy", "rpc"}, ReaderSteps)

MCSpec == MCInit /\ [][MCNext]_<<vars, focus>>

Count(kind) == Cardinality({f \in told : f[1] = kind})

(* A second payload only where a commit in doubt has written.              *)
OnePayload ==
  \A s \in Stream, o \in Offset : mem[EntryKey(s, o)] = 2 => EntryKey(s, o) \in doubted

(* The first delivery is to the first consumer; after the second, nothing  *)
(* is in doubt or reset.                                                   *)
GroupBounds ==
  /\ \A s \in Stream : NextKey(s) \notin doubted /\ mem[EntryKey(s, 0)] # 2 /\ mem[EntryKey(s, 1)] # 2
  /\ \A s \in Stream, g \in Group, i \in Copy :
       LET state == GroupState(Map(i), s, g)
       IN  /\ state.lease_generation = 1 => state.owner \in {1, NoConsumer}
           /\ state.lease_generation = 3 => doubted = {} /\ Count("reset") = 0

(* Of the two events or requests of a transaction the first has the lower  *)
(* nonce.                                                                  *)
InOrder(key(_, _)) ==
  LET occurs(k) == View[k] # NoRecord \/ \E i \in Copy : Map(i)[k] # NoRecord
  IN  \A t \in Tx : occurs(key(t, 2)) =>
        \/ occurs(key(t, 1))
        \/ Count("acked") + Count("responded") > 0 \/ key(t, 1) \in doubted

Bounds ==
  /\ Count("reset") <= 1 /\ Count("pruned") <= 1 /\ Count("acked") <= 1
  /\ CASE focus = "append" -> nextTx <= 3
       [] focus = "subscription" -> OnePayload /\ Cardinality(doubted) <= 3
       [] focus = "group" -> GroupBounds
       [] focus = "outbox" -> /\ Cardinality(doubted) <= 3
                              /\ reader = NoReader \/ Count("pruned") = 0
                              /\ InOrder(EventKey)
       [] focus = "copy" -> nextTx <= 3 /\ doubted = {} /\ InOrder(EventKey)
       [] focus = "rpc" -> /\ Cardinality(doubted) <= IF Count("requested") <= 1 THEN 5 ELSE 0
                           /\ reader = NoReader \/ (reader.kind = "request" /\ doubted = {})
                           /\ InOrder(RequestKey)
       [] focus = "mixed" -> nextTx <= 2 /\ doubted = {} /\ OnePayload

=============================================================================
