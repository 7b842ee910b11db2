------------------------------- MODULE Streams -------------------------------
(***************************************************************************)
(* Streams, and topics, which are streams with durable subscriptions       *)
(* (messaging.rs), and the appends of a Transaction                        *)
(* (transaction_domains.rs). A stream is a record with the next offset and *)
(* one record per entry; a subscription is a record with its cursor.       *)
(***************************************************************************)
EXTENDS Transactions

CONSTANTS
  Stream, Subscription, Payload,
  MaxOffset  \* u64::MAX for offsets

Offset == 0 .. MaxOffset

NextKey(s) == <<"next", s, 0>>
EntryKey(s, o) == <<"entry", s, o>>
SubscriptionKey(s, b) == <<"subscription", s, b>>

StreamKeys ==
  {NextKey(s) : s \in Stream} \cup {EntryKey(s, o) : s \in Stream, o \in Offset}
    \cup {SubscriptionKey(s, b) : s \in Stream, b \in Subscription}

ASSUME StreamAssumption ==
  /\ MaxOffset \in Nat
  /\ NoRecord \notin Offset \cup Payload
  /\ StreamKeys \subseteq RecordKey

NextOffset(m, s) == IF m[NextKey(s)] = NoRecord THEN 0 ELSE m[NextKey(s)]

SubscriptionState(m, s, b) ==
  IF m[SubscriptionKey(s, b)] = NoRecord THEN 0 ELSE m[SubscriptionKey(s, b)]

Appended(s, o, p) == <<"appended", [stream |-> s, offset |-> o, payload |-> p]>>
Polled(s, b, o, p) == <<"polled", [stream |-> s, by |-> b, offset |-> o, payload |-> p]>>
Acknowledged(s, b, n) == <<"acknowledged", [stream |-> s, by |-> b, next |-> n]>>
ResetTo(s, b, n) == <<"reset", [stream |-> s, by |-> b, next |-> n]>>

-----------------------------------------------------------------------------
AppendIgnoresStage(s, p) ==
  And(Put(NextKey(s), NextOffset(View, s) + 1), Put(EntryKey(s, NextOffset(mem, s)), p))

(* The entry at the next offset and the offset after it, in one            *)
(* transaction, from what the view shows.                                  *)
AppendWrites(s, p) ==
  LET o == NextOffset(View, s)
  IN  And(Put(NextKey(s), o + 1), Put(EntryKey(s, o), p))

(* append, and publish of a topic.                                         *)
StreamAppend(s, p) ==
  /\ NextOffset(mem, s) < MaxOffset
  /\ Alone(AppendWrites(s, p), {Appended(s, NextOffset(mem, s), p)})

(* append_stream, and publish_topic.                                       *)
TxAppendStream(s, p) ==
  /\ NextOffset(View, s) < MaxOffset
  /\ Staged(AppendWrites(s, p), {Appended(s, NextOffset(View, s), p)})

ReadAfter(s, o, limit) ==
  LET found == {e \in Offset : e > o /\ mem[EntryKey(s, e)] # NoRecord}
  IN  {e \in found : Cardinality({d \in found : d < e}) < limit}

(* read_from: the first entries, limit of them at most, from an offset on. *)
ReadFrom(s, o, limit) ==
  LET found == {e \in Offset : e >= o /\ mem[EntryKey(s, e)] # NoRecord}
  IN  {e \in found : Cardinality({d \in found : d < e}) < limit}

Poll(s, b, limit) ==
  LET page == ReadFrom(s, SubscriptionState(mem, s, b), limit)
  IN  /\ page # {}
      /\ Reads({Polled(s, b, o, mem[EntryKey(s, o)]) : o \in page})

(* The cursor may stay, or move on, past the tail too, but not fall.       *)
CursorMayMove(s, b, o) == o < MaxOffset /\ o + 1 >= SubscriptionState(mem, s, b)

(* By a subscriber that acknowledges an entry it was given.                *)
AcknowledgeThrough(s, b, o) ==
  /\ \E p \in Payload : Polled(s, b, o, p) \in told
  /\ CursorMayMove(s, b, o)
  /\ Alone(Put(SubscriptionKey(s, b), o + 1), {Acknowledged(s, b, o + 1)})

ResetSubscription(s, b, n) ==
  AloneAsking(Put(SubscriptionKey(s, b), n), {}, {ResetTo(s, b, n)})

AppendSteps == \E s \in Stream, p \in Payload : StreamAppend(s, p) \/ TxAppendStream(s, p)

SubscriptionSteps ==
  \E s \in Stream, b \in Subscription :
    \/ \E limit \in 1 .. 2 : Poll(s, b, limit)
    \/ \E o \in Offset : AcknowledgeThrough(s, b, o) \/ ResetSubscription(s, b, o)

-----------------------------------------------------------------------------
(* An offset that append returned belongs to its entry for good: in memory *)
(* and in everything a recovery may find, the entry is there and the next  *)
(* offset is beyond it, whatever appends failed, stayed in doubt or were   *)
(* staged before and after.                                                *)
AppendedIsKept ==
  \A f \in told : f[1] = "appended" =>
    \A i \in Copy : /\ Map(i)[EntryKey(f[2].stream, f[2].offset)] = f[2].payload
                    /\ NextOffset(Map(i), f[2].stream) > f[2].offset

(* A stream has no holes: append writes the entry and the next offset in   *)
(* one transaction, so every offset below the next one has its entry, in   *)
(* memory and in everything a recovery may find.                           *)
NoHoles ==
  \A i \in Copy, s \in Stream :
    \A o \in 0 .. NextOffset(Map(i), s) - 1 : Map(i)[EntryKey(s, o)] # NoRecord

(* "Cursors cannot move backwards": once acknowledge_through returned, the *)
(* cursor is at least there, after any crash too, unless a reset was asked *)
(* for a lower one.                                                        *)
CursorsDoNotFall ==
  \A f \in told : f[1] = "acknowledged" =>
    \A i \in Copy :
      LET c == SubscriptionState(Map(i), f[2].stream, f[2].by)
      IN  c < f[2].next =>
            \E r \in told : /\ r[1] = "reset"
                            /\ r[2].stream = f[2].stream
                            /\ r[2].by = f[2].by
                            /\ r[2].next <= c

(* A subscriber that acknowledges what it polled misses nothing: every     *)
(* entry behind its cursor was polled, with the payload that was appended, *)
(* unless a reset jumped over it or a commit in doubt wrote at its offset. *)
(* (Such a commit may show an entry, lose it and leave its offset to       *)
(* another one.)                                                           *)
NothingIsSkipped ==
  \A f \in told, b \in Subscription :
    /\ f[1] = "appended"
    /\ f[2].offset < SubscriptionState(mem, f[2].stream, b)
    => \/ Polled(f[2].stream, b, f[2].offset, f[2].payload) \in told
       \/ EntryKey(f[2].stream, f[2].offset) \in doubted
       \/ \E r \in told : /\ r[1] = "reset"
                          /\ r[2].stream = f[2].stream
                          /\ r[2].by = b
                          /\ r[2].next > f[2].offset

(* append and append_stream, in any alternation and with any failure,      *)
(* leave a stream of all the entries they reported, without holes.         *)
StreamsKeepEntries == AppendedIsKept /\ NoHoles

(* A durable subscription neither falls behind what it acknowledged nor    *)
(* passes what it was not given.                                           *)
SubscribersMissNothing == CursorsDoNotFall /\ NothingIsSkipped

=============================================================================
