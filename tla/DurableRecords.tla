--------------------------- MODULE DurableRecords ----------------------------
(***************************************************************************)
(* The Store as the primitives built on it use it (Strict or Data          *)
(* durability): each operation of a primitive reads the committed records  *)
(* and writes some of them in one transaction. This is StoreEngine with a  *)
(* transaction as one step; what it keeps of the log is what a crash can   *)
(* bring back: a commit whose sync failed is invisible until the process   *)
(* restarts, and may or may not survive a loss of power.                   *)
(***************************************************************************)
EXTENDS Integers, Sequences

CONSTANTS
  RecordKey,  \* keys of the primitive's records
  NoRecord,   \* an absent record
  MaxDoubt    \* bound: commits in doubt at one time

ASSUME MaxDoubtAssumption == MaxDoubt \in Nat

VARIABLES
  mem,    \* Store.state, restricted to the primitive's records
  medium  \* what a recovery may find: from the synced log to the whole log

(* The records w written over the map m.                                   *)
Written(m, w) == [k \in RecordKey |-> IF k \in DOMAIN w THEN w[k] ELSE m[k]]

Newest == medium[Len(medium)]

InitRecords ==
  /\ mem = [k \in RecordKey |-> NoRecord]
  /\ medium = <<mem>>

(* The commit record is written and synced, and with it all before it.     *)
CommitOk(w) ==
  /\ mem' = Written(mem, w)
  /\ medium' = <<Written(Newest, w)>>

(* The commit record is written, but its sync fails. (A commit that fails  *)
(* earlier changes nothing that recovery reads.)                           *)
CommitInDoubt(w) ==
  /\ Len(medium) <= MaxDoubt
  /\ mem' = mem
  /\ medium' = Append(medium, Written(Newest, w))

Flush ==
  /\ Len(medium) > 1
  /\ medium' = <<Newest>>
  /\ mem' = mem

(* The process dies, or closes the Store, and opens it again.              *)
Restart ==
  /\ mem' = Newest
  /\ medium' = medium

(* Power is lost; recovery finds a prefix of the log that has the synced   *)
(* part.                                                                   *)
PowerLoss ==
  \E i \in 1 .. Len(medium) :
    /\ mem' = medium[i]
    /\ medium' = <<medium[i]>>

=============================================================================
