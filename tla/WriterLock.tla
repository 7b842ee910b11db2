----------------------------- MODULE WriterLock ------------------------------
(***************************************************************************)
(* Who may have a store file open (engine.rs). Store::open takes the name  *)
(* of the file in a set that the process keeps, ProcessWriterGuard, and    *)
(* then an exclusive lock of the operating system; Store::verify takes a   *)
(* shared lock only. A handle is one call of either, with the file it has  *)
(* opened. Threads of several processes run these calls, each step between *)
(* any two of others; a process may die at any step. The file may have     *)
(* more than one name (hard links), each canonical.                        *)
(***************************************************************************)
EXTENDS Naturals, FiniteSets

CONSTANTS Process, Name, Handle  \* Handle: the calls a process may have at a time

ASSUME LockAssumption == Name # {}

VARIABLES
  phase,    \* for each process and handle: where the call or the Store is
  named,    \* the name it was given
  writers,  \* OPEN_WRITERS of each process
  locked    \* the handles that hold the operating system's lock

lockVars == <<phase, named, writers, locked>>

Caller == Process \X Handle

InitLocks ==
  /\ phase = [h \in Caller |-> "closed"]
  /\ named \in [Caller -> {CHOOSE n \in Name : TRUE}]
  /\ writers = [p \in Process |-> {}]
  /\ locked = {}

Move(h, from, to) == phase[h] = from /\ phase' = [phase EXCEPT ![h] = to]

Insert(h) == writers' = [writers EXCEPT ![h[1]] = @ \cup {named[h]}]

RemoveName(h) == writers' = [writers EXCEPT ![h[1]] = @ \ {named[h]}]

(* OpenOptions::open, which creates the file if there is none.             *)
OpenFile(h, n) ==
  /\ Move(h, "closed", "opened")
  /\ named' = [named EXCEPT ![h] = n]
  /\ UNCHANGED <<writers, locked>>

(* ProcessWriterGuard::acquire, or AlreadyOpen.                            *)
AcquireGuard(h) ==
  /\ \/ named[h] \notin writers[h[1]] /\ Move(h, "opened", "guarded") /\ Insert(h)
     \/ named[h] \in writers[h[1]] /\ Move(h, "opened", "closed") /\ UNCHANGED writers
  /\ UNCHANGED <<named, locked>>

LockUnchecked == TRUE

Lockable == locked = {}

(* An error in open drops its locals: the guard, then the file.            *)
FailOpen(h) == RemoveName(h)

(* FileExt::try_lock_exclusive, or AlreadyOpen.                            *)
TryLockExclusive(h) ==
  /\ \/ Lockable /\ Move(h, "guarded", "locked") /\ locked' = locked \cup {h} /\ UNCHANGED writers
     \/ ~Lockable /\ Move(h, "guarded", "closed") /\ FailOpen(h) /\ UNCHANGED locked
  /\ UNCHANGED named

(* The header, recovery and the repair of the tail; each may fail. Then    *)
(* the file is closed, and with it the lock, after the guard.              *)
FinishOpen(h) ==
  /\ \/ Move(h, "locked", "open") /\ UNCHANGED writers
     \/ Move(h, "locked", "failed") /\ FailOpen(h)
  /\ UNCHANGED <<named, locked>>

CloseFailed(h) ==
  /\ Move(h, "failed", "closed")
  /\ locked' = locked \ {h}
  /\ UNCHANGED <<named, writers>>

(* Drop for Store: the lock goes first, the guard with the last field.     *)
UnlockStore(h) ==
  /\ Move(h, "open", "unlocked")
  /\ locked' = locked \ {h}
  /\ UNCHANGED <<named, writers>>

DropGuard(h) ==
  /\ Move(h, "unlocked", "closed")
  /\ RemoveName(h)
  /\ UNCHANGED <<named, locked>>

(* Store::verify                                                           *)
VerifyFile(h) ==
  /\ \A other \in locked : phase[other] = "verifying"
  /\ Move(h, "closed", "verifying")
  /\ locked' = locked \cup {h}
  /\ UNCHANGED <<named, writers>>

EndVerify(h) ==
  /\ Move(h, "verifying", "closed")
  /\ locked' = locked \ {h}
  /\ UNCHANGED <<named, writers>>

Die(p) ==
  /\ phase' = [h \in Caller |-> IF h[1] = p THEN "closed" ELSE phase[h]]
  /\ locked' = {h \in locked : h[1] # p}
  /\ writers' = [writers EXCEPT ![p] = {}]
  /\ UNCHANGED named

HandleSteps(h) ==
  \/ AcquireGuard(h) \/ TryLockExclusive(h) \/ FinishOpen(h) \/ CloseFailed(h) \/ DropGuard(h)
  \/ EndVerify(h)

LockSteps ==
  \/ \E h \in Caller : (\E n \in Name : OpenFile(h, n)) \/ HandleSteps(h)
                       \/ UnlockStore(h) \/ VerifyFile(h)
  \/ \E p \in Process : Die(p)

LockSpec == InitLocks /\ [][LockSteps]_lockVars

-----------------------------------------------------------------------------
(* Properties.                                                             *)

Reading(h) == phase[h] \in {"locked", "open"}

(* From the moment it reads the header until it is dropped, no two Stores  *)
(* share a file, by whatever names, and no verification reads one that is  *)
(* being written. (open_with_options, "exactly one writer")                *)
OneWriter ==
  \A h, other \in Caller :
    h # other /\ Reading(h) => ~Reading(other) /\ phase[other] # "verifying"

(* A name is in OPEN_WRITERS exactly as long as one call or Store of the   *)
(* process stands for it, also after an open that failed at any point:     *)
(* otherwise the file could not be opened again before the process ends,   *)
(* or could be opened twice. (ProcessWriterGuard)                          *)
GuardsHaveOneHolder ==
  \A p \in Process, n \in Name :
    LET holders == {h \in Caller : /\ h[1] = p /\ named[h] = n
                                  /\ phase[h] \in {"guarded", "locked", "open", "unlocked"}}
    IN  Cardinality(holders) = IF n \in writers[p] THEN 1 ELSE 0

(* The two guards of open_with_options together: one writer for a file,    *)
(* and no name that stays taken.                                           *)
WritersAreExclusive == OneWriter /\ GuardsHaveOneHolder

=============================================================================
