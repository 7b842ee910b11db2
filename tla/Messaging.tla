------------------------------ MODULE Messaging ------------------------------
(***************************************************************************)
(* Streams, consumer groups, the outbox, remote calls and the change feed  *)
(* in one Store. A Transaction may append to a stream, emit an event and   *)
(* submit a request together. Operations on streams use up transaction     *)
(* identifiers too; here BeginWithId and Rollback stand for that.          *)
(***************************************************************************)
EXTENDS ConsumerGroups, Feeds

vars == <<txVars, feedVars>>

Init == InitFeeds

Next ==
  \/ TxIdSteps \/ OutboxSteps \/ RpcSteps \/ ReaderSteps \/ PruneSteps
  \/ /\ AppendSteps \/ SubscriptionSteps \/ GroupSteps \/ TransactionSteps
     /\ UNCHANGED feedVars

Spec == Init /\ [][Next]_vars

=============================================================================
