------------------------------- MODULE MCQueue -------------------------------
EXTENDS Queue, TLC

Symmetry == Permutations(Worker) \cup Permutations(Payload)

Maps == {mem} \cup {medium[i] : i \in DOMAIN medium}

(* Explored in full: one message. Two messages: with one attempt each, one *)
(* commit in doubt at a time, and leases that are over at once.            *)
Bounds ==
  (\E m \in Maps : m[2] # NoRecord) \/ 2 \in gone =>
    /\ Len(medium) <= 2
    /\ \A m \in Maps, id \in Id : m[id] # NoRecord =>
         /\ m[id].attempts <= 1
         /\ m[id].available_at_ms = 0
         /\ m[id].lease_until_ms = 0

=============================================================================
