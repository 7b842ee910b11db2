---------------------------- MODULE ConsumerGroups ---------------------------
(***************************************************************************)
(* Consumer groups of streams (consumer_group.rs): a record with the       *)
(* group's cursor and the lease of the one offset that is being delivered. *)
(* Consumers remember the deliveries they got and may use them later.      *)
(***************************************************************************)
EXTENDS Streams

CONSTANTS
  Group, Consumer,
  NoOffset, NoConsumer,
  MaxGeneration,  \* u64::MAX for lease_generation
  MaxTime         \* i64::MAX for times

GroupKey(s, g) == <<"group", s, g>>

GroupKeys == {GroupKey(s, g) : s \in Stream, g \in Group}

NewGroup ==
  [next_offset |-> 0, leased_offset |-> NoOffset, lease_until_ms |-> 0,
   lease_generation |-> 0, owner |-> NoConsumer]

ConsumerGroupState ==
  [next_offset: Offset, leased_offset: Offset \cup {NoOffset}, lease_until_ms: 0 .. MaxTime,
   lease_generation: 0 .. MaxGeneration, owner: Consumer \cup {NoConsumer}]

ASSUME GroupAssumption ==
  /\ MaxGeneration \in Nat /\ MaxTime \in Nat
  /\ NoOffset \notin Offset /\ NoConsumer \notin Consumer
  /\ NoRecord \notin ConsumerGroupState
  /\ GroupKeys \subseteq RecordKey

GroupState(m, s, g) == IF m[GroupKey(s, g)] = NoRecord THEN NewGroup ELSE m[GroupKey(s, g)]

Delivered(s, g, c, o, n, p) ==
  <<"delivered", [stream |-> s, group |-> g, consumer |-> c, offset |-> o,
                  generation |-> n, payload |-> p]>>

Deliveries(s, g) ==
  {f \in told : f[1] = "delivered" /\ f[2].stream = s /\ f[2].group = g}

(* An accepted ack or nack, and whether another delivery was newer.        *)
Settled(s, g, n, latest) ==
  <<"settled", [stream |-> s, group |-> g, generation |-> n, latest |-> latest]>>

ClearLease(state) ==
  [state EXCEPT !.leased_offset = NoOffset, !.lease_until_ms = 0, !.owner = NoConsumer]

-----------------------------------------------------------------------------
Claimable(s, g, now) ==
  LET state == GroupState(mem, s, g)
  IN  state.leased_offset = NoOffset \/ state.lease_until_ms <= now

LeasedAndPassed(state, c, o, until) ==
  [state EXCEPT !.leased_offset = o, !.lease_until_ms = until, !.owner = c,
                !.lease_generation = @ + 1, !.next_offset = o + 1]

LeasedTo(state, c, o, until) ==
  [state EXCEPT !.leased_offset = o, !.lease_until_ms = until, !.owner = c,
                !.lease_generation = @ + 1]

(* The first entry from the cursor on is leased, anew if a lease is over.  *)
ConsumerGroupClaim(s, g, c, now, duration) ==
  LET state == GroupState(mem, s, g)
  IN  /\ Claimable(s, g, now)
      /\ now + duration <= MaxTime
      /\ state.lease_generation < MaxGeneration
      /\ \E o \in ReadFrom(s, state.next_offset, 1) :
           Alone(Put(GroupKey(s, g), LeasedTo(state, c, o, now + duration)),
                 {Delivered(s, g, c, o, state.lease_generation + 1, mem[EntryKey(s, o)])})

(* There is no entry, as when a reset moved the cursor or a crash took the *)
(* entry: a lease that is over is taken away.                              *)
ConsumerGroupClaimNothing(s, g, now) ==
  LET state == GroupState(mem, s, g)
  IN  /\ state.leased_offset # NoOffset
      /\ Claimable(s, g, now)
      /\ ReadFrom(s, state.next_offset, 1) = {}
      /\ Alone(Put(GroupKey(s, g), ClearLease(state)), {})

ValidateLeaseOwnerOnly(state, d) ==
  /\ state.leased_offset # NoOffset
  /\ state.owner = d.consumer
  /\ state.leased_offset = d.offset

ValidateLease(state, d) ==
  /\ state.leased_offset # NoOffset
  /\ state.owner = d.consumer
  /\ state.lease_generation = d.generation
  /\ state.leased_offset = d.offset

(* The delivery f is settled by a lease that has to match, expired or not. *)
Settle(f, state) ==
  LET d == f[2]
  IN  /\ mem[GroupKey(d.stream, d.group)] # NoRecord
      /\ ValidateLease(mem[GroupKey(d.stream, d.group)], d)
      /\ Alone(Put(GroupKey(d.stream, d.group), state),
               {Settled(d.stream, d.group, d.generation,
                        \A e \in Deliveries(d.stream, d.group) :
                          e[2].generation <= d.generation)})

ConsumerGroupAck(f) ==
  /\ f[2].offset < MaxOffset
  /\ Settle(f, [ClearLease(GroupState(mem, f[2].stream, f[2].group))
                  EXCEPT !.next_offset = f[2].offset + 1])

ConsumerGroupNack(f) ==
  Settle(f, ClearLease(GroupState(mem, f[2].stream, f[2].group)))

(* A reset takes the lease away and keeps the generation.                  *)
ResetState(state, n) == [ClearLease(state) EXCEPT !.next_offset = n]

ConsumerGroupReset(s, g, n) ==
  AloneAsking(Put(GroupKey(s, g), ResetState(GroupState(mem, s, g), n)), {},
              {ResetTo(s, g, n)})

GroupSteps ==
  \/ \E s \in Stream, g \in Group :
       \/ \E now, duration \in 0 .. MaxTime, c \in Consumer :
            ConsumerGroupClaim(s, g, c, now, duration)
       \/ \E now \in 0 .. MaxTime : ConsumerGroupClaimNothing(s, g, now)
       \/ \E n \in Offset : ConsumerGroupReset(s, g, n)
  \/ \E f \in told : f[1] = "delivered" /\ (ConsumerGroupAck(f) \/ ConsumerGroupNack(f))

-----------------------------------------------------------------------------
(* The lease generation is a fencing token: no two deliveries of a group   *)
(* have the same one, through resets, failed syncs and crashes, and every  *)
(* state of the group that a recovery may find is at least at the last     *)
(* one.                                                                    *)
DeliveriesAreFenced ==
  \A f \in told : f[1] = "delivered" =>
    /\ \A i \in Copy :
         GroupState(Map(i), f[2].stream, f[2].group).lease_generation >= f[2].generation
    /\ \A e \in Deliveries(f[2].stream, f[2].group) :
         e[2].generation = f[2].generation => e = f

(* "Lease generations reject stale ACK/NACK": an ack or a nack is accepted *)
(* from the consumer of the latest delivery only.                          *)
LatestHolderSettles == \A f \in told : f[1] = "settled" => f[2].latest

(* "Expired deliveries are redelivered without advancing the durable       *)
(* cursor": every entry behind the cursor was delivered to the group with  *)
(* the payload that was appended, unless a reset jumped over it or a       *)
(* commit in doubt wrote at its offset.                                    *)
GroupSkipsNothing ==
  \A f \in told, g \in Group :
    /\ f[1] = "appended"
    /\ f[2].offset < GroupState(mem, f[2].stream, g).next_offset
    => \/ \E d \in Deliveries(f[2].stream, g) :
            d[2].offset = f[2].offset /\ d[2].payload = f[2].payload
       \/ EntryKey(f[2].stream, f[2].offset) \in doubted
       \/ \E r \in told : /\ r[1] = "reset"
                          /\ r[2].stream = f[2].stream
                          /\ r[2].by = g
                          /\ r[2].next > f[2].offset

(* The lease of a group is fenced by its generation: generations are not   *)
(* used twice, and acks and nacks under an older one are turned away.      *)
LeasesAreFenced == DeliveriesAreFenced /\ LatestHolderSettles

=============================================================================
