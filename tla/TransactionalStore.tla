-------------------------- MODULE TransactionalStore -------------------------
(***************************************************************************)
(* What the storage engine promises to a caller who never sees the log:    *)
(* transactions enter a history one at a time, each whole; a reader sees   *)
(* the map they leave; a loss of power takes away none that is safe, and a *)
(* restart shows the whole history, transactions in doubt included.        *)
(***************************************************************************)
EXTENDS Integers, Sequences, SequencesExt

CONSTANTS
  EmptyMap,
  Apply(_, _),  \* the map that a list of operations makes of a map
  Closed,       \* the view when no Store is open
  Durable       \* TRUE: an acknowledged transaction is safe

VARIABLES
  history,  \* the transactions on the medium, each a list of operations
  safe,     \* how many of them survive a loss of power
  view,     \* the map that readers see, or Closed
  waiting   \* the last transaction has been submitted, not yet acknowledged

vars == <<history, safe, view, waiting>>

Init ==
  /\ history = << >>
  /\ safe = 0
  /\ view = Closed
  /\ waiting = FALSE

Open ==
  /\ view = Closed
  /\ view' = FoldLeft(Apply, EmptyMap, history)
  /\ UNCHANGED <<history, waiting>>
  /\ safe' \in safe .. Len(history)

Submit ==
  /\ view # Closed
  /\ ~waiting
  /\ Len(history') = Len(history) + 1
  /\ Front(history') = history
  /\ waiting' = TRUE
  /\ UNCHANGED <<safe, view>>

Acknowledge ==
  /\ waiting
  /\ waiting' = FALSE
  /\ view' = Apply(view, Last(history))
  /\ safe' = IF Durable THEN Len(history) ELSE safe
  /\ UNCHANGED history

(* The caller is told of an error, and the transaction stays in doubt.     *)
Fail ==
  /\ waiting
  /\ waiting' = FALSE
  /\ UNCHANGED <<history, safe, view>>

Settle ==
  /\ safe' \in safe .. Len(history)
  /\ UNCHANGED <<history, view, waiting>>

Close ==
  /\ ~waiting
  /\ view' = Closed
  /\ UNCHANGED <<history, safe, waiting>>

Crash ==
  /\ view' = Closed
  /\ waiting' = FALSE
  /\ \E n \in safe .. Len(history) : history' = SubSeq(history, 1, n)
  /\ safe' \in safe .. Len(history')

Next == Open \/ Submit \/ Acknowledge \/ Fail \/ Settle \/ Close \/ Crash

Spec == Init /\ [][Next]_vars

=============================================================================
