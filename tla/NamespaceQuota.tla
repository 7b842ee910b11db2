--------------------------- MODULE NamespaceQuota ----------------------------
(***************************************************************************)
(* The byte limit of a namespace (engine.rs, check_namespace_quota). A     *)
(* commit adds up the sizes of the values of each namespace, then goes     *)
(* through the keys that it changes, in the arbitrary order of a HashMap,  *)
(* and stops at the first total above the limit. The limit is an option of *)
(* open, so a store may be opened without one, and then with less room     *)
(* than it already uses.                                                   *)
(***************************************************************************)
EXTENDS Naturals, FiniteSets, FiniteSetsExt

CONSTANTS
  QuotaKey,      \* keys of a store
  NamespaceOf,   \* namespace_for_key, a function of the key
  MaxSize,       \* the size of the largest value
  Limit,         \* the limits that a store is opened with
  NoQuota,       \* no limit
  MaxTotal,      \* bound: u64::MAX for the totals
  Absent         \* no value

VARIABLES
  sizes,    \* the size of every key's value, or Absent
  limit,    \* namespace_max_bytes
  change,   \* the new sizes of the keys that the commit changes
  todo,     \* those of them still to be looked at
  totals,   \* the running totals
  verdict   \* "none" outside a commit, "checking", "accepted" or "rejected"

quotaVars == <<sizes, limit, change, todo, totals, verdict>>

Size == 0 .. MaxSize
Namespaces == {NamespaceOf[k] : k \in QuotaKey}
KeysOf(n) == {k \in QuotaKey : NamespaceOf[k] = n}

Bytes(size) == IF size = Absent THEN 0 ELSE size
Total(s, n) == MapThenSumSet(LAMBDA k : Bytes(s[k]), KeysOf(n))

InitQuota ==
  /\ sizes = [k \in QuotaKey |-> Absent]
  /\ limit \in Limit \cup {NoQuota}
  /\ change = <<>> /\ todo = {}
  /\ totals = [n \in Namespaces |-> 0]
  /\ verdict = "none"

Overflows(ts) == \E n \in Namespaces : ts[n] > MaxTotal

(* The totals of the state and the last operation on each key; a total     *)
(* that overflows ends the commit (NamespaceQuotaOverflow). Without a      *)
(* limit there is nothing to check.                                        *)
StartCheck ==
  /\ verdict = "none"
  /\ \E touched \in SUBSET QuotaKey \ {{}} : change' \in [touched -> Size \cup {Absent}]
  /\ IF limit = NoQuota
       THEN todo' = {} /\ verdict' = "checking" /\ UNCHANGED totals
       ELSE /\ todo' = DOMAIN change'
            /\ totals' = [n \in Namespaces |-> Total(sizes, n)]
            /\ verdict' = IF Overflows(totals') THEN "rejected" ELSE "checking"
  /\ UNCHANGED <<sizes, limit>>

CountNewOnly(k) ==
  [totals EXCEPT ![NamespaceOf[k]] = @ + (IF sizes[k] = Absent THEN Bytes(change[k]) ELSE 0)]

(* The total after one more key: its value leaves, its new one comes in.   *)
CountKey(k) ==
  [totals EXCEPT ![NamespaceOf[k]] = @ - Bytes(sizes[k]) + Bytes(change[k])]

CheckKey(k) ==
  /\ verdict = "checking" /\ k \in todo
  /\ totals' = CountKey(k)
  /\ todo' = todo \ {k}
  /\ verdict' = IF totals'[NamespaceOf[k]] > limit \/ Overflows(totals')
                THEN "rejected" ELSE "checking"
  /\ UNCHANGED <<sizes, limit, change>>

(* The commit goes on (StoreEngine has its further steps), or ends with    *)
(* an error and changes nothing.                                           *)
AcceptCommit ==
  /\ verdict = "checking" /\ todo = {}
  /\ verdict' = "accepted"
  /\ sizes' = [k \in QuotaKey |-> IF k \in DOMAIN change THEN change[k] ELSE sizes[k]]
  /\ UNCHANGED <<limit, change, todo, totals>>

EndCommit ==
  /\ verdict \in {"accepted", "rejected"}
  /\ verdict' = "none" /\ change' = <<>> /\ todo' = {}
  /\ totals' = [n \in Namespaces |-> 0]
  /\ UNCHANGED <<sizes, limit>>

ReopenWith(l) ==
  /\ verdict = "none"
  /\ limit' = l
  /\ UNCHANGED <<sizes, change, todo, totals, verdict>>

QuotaSteps ==
  \/ StartCheck \/ AcceptCommit \/ EndCommit
  \/ \E k \in QuotaKey : CheckKey(k)
  \/ \E l \in Limit \cup {NoQuota} : ReopenWith(l)

-----------------------------------------------------------------------------
(* Properties.                                                             *)

Touched(n) == DOMAIN change \cap KeysOf(n) # {}

(* Whatever order the keys come in, a commit that passes leaves no         *)
(* namespace that it touched above the limit, also when one key grows and  *)
(* another of the same namespace shrinks, and in a store that is over its  *)
(* limit already. (check_namespace_quota)                                  *)
AcceptedIsWithinLimit ==
  verdict = "accepted" /\ limit # NoQuota => \A n \in Namespaces : Touched(n) => Total(sizes, n) <= limit

Grows(k) == Bytes(change[k]) > Bytes(sizes[k])

(* A commit that would end within the limit is turned away only if the     *)
(* values in the store overflow a total, or if it shrinks one key of a     *)
(* namespace while another grows, or while the namespace is over the limit *)
(* already; then the order of the HashMap decides. (check_namespace_quota  *)
(* compares a running total, not the final one)                            *)
RejectedForAReason ==
  verdict = "rejected" =>
    \/ Overflows([n \in Namespaces |-> Total(sizes, n)])
    \/ \E n \in Namespaces :
         LET after == [k \in QuotaKey |-> IF k \in DOMAIN change THEN change[k] ELSE sizes[k]]
         IN  \/ Total(after, n) > limit
             \/ \E k, other \in DOMAIN change \cap KeysOf(n) :
                  /\ Bytes(change[k]) < Bytes(sizes[k])
                  /\ Grows(other) \/ Total(sizes, n) > limit

(* The decision of check_namespace_quota: what it accepts is within the    *)
(* limit, and what it turns away either is not or is one of the mixed      *)
(* commits above.                                                          *)
VerdictIsRight == AcceptedIsWithinLimit /\ RejectedForAReason

=============================================================================
