---------------------------- MODULE MCJobSources -----------------------------
EXTENDS JobSources, TLC

CONSTANT Key  \* an idempotency key

Plain ==
  [handler |-> "h1", idempotency_key |-> Key, max_attempts |-> 2, priority |-> 0,
   deadline_ms |-> NoDeadline, retry_backoff_ms |-> 1]

(* A job of another handler that is urgent, has a deadline and one attempt.*)
Urgent ==
  [handler |-> "h2", idempotency_key |-> NoKey, max_attempts |-> 1, priority |-> 1,
   deadline_ms |-> 1, retry_backoff_ms |-> 0]

PlainJobs == {Plain}
MixedJobs == {Plain, Urgent}

SourceRecords == ({"job", "history"} \X JobId) \cup SourceKeys
Seeds == [id \in JobId |-> 19]

Symmetry == Permutations(Worker)

=============================================================================
