------------------------------- MODULE Backups -------------------------------
(***************************************************************************)
(* create_backup_manifest and verify_backup_manifest of                    *)
(* python/voodoo_store/backup.py: a backup is copied over whatever is at   *)
(* the destination (backup_to of engine.rs), verified, digested, and       *)
(* described by a manifest in a second file. Several threads of one        *)
(* process may run the call for the same destination while others commit;  *)
(* the copy itself holds the store. A digest identifies what it was made   *)
(* of. An incomplete copy has lost the end of the log; native verification *)
(* accepts it if the header is there, since a log may end anywhere.        *)
(***************************************************************************)
EXTENDS Naturals

CONSTANTS
  Maker,      \* threads that make backups
  NoBackup,   \* no file, or no manifest
  Damaged,    \* a manifest that was not written to its end
  MaxVersion  \* bound: commits of the store

ASSUME BackupAssumption ==
  /\ MaxVersion \in Nat
  /\ {NoBackup, Damaged} \cap [version : Nat, complete : BOOLEAN] = {}

VARIABLES
  version,     \* commits of the store
  backup,      \* the file at the destination
  manifest,    \* the digest in the manifest beside it
  maker,       \* for each thread, the step it is at and what it has digested
  overlapped   \* history: a copy began while another thread was past its own

backupVars == <<version, backup, manifest, maker, overlapped>>

Contents(n, complete) == [version |-> n, complete |-> complete]

Phase(step, digest) == [step |-> step, digest |-> digest]

Resting == Phase("idle", NoBackup)

InitBackups ==
  /\ version = 0
  /\ backup = NoBackup
  /\ manifest = NoBackup
  /\ maker = [t \in Maker |-> Resting]
  /\ overlapped = FALSE

StoreIsFree == \A t \in Maker : maker[t].step # "copying"

CommitMore ==
  /\ StoreIsFree /\ version < MaxVersion
  /\ version' = version + 1
  /\ UNCHANGED <<backup, manifest, maker, overlapped>>

Goes(t, from, to) == maker[t].step = from /\ maker' = [maker EXCEPT ![t] = to]

(* backup_to: the destination is truncated,                                *)
BeginCopy(t) ==
  /\ StoreIsFree
  /\ Goes(t, "idle", Phase("copying", NoBackup))
  /\ backup' = Contents(version, FALSE)
  /\ overlapped' = (overlapped \/ \E other \in Maker \ {t} : maker[other] # Resting)
  /\ UNCHANGED <<version, manifest>>

(* and filled and synced.                                                  *)
FinishCopy(t) ==
  /\ Goes(t, "copying", Phase("copied", NoBackup))
  /\ backup' = Contents(version, TRUE)
  /\ UNCHANGED <<version, manifest, overlapped>>

VerifyCopy(t) ==
  /\ Goes(t, "copied", Phase("verified", NoBackup))
  /\ UNCHANGED <<version, backup, manifest, overlapped>>

Digest(t) ==
  /\ Goes(t, "verified", Phase("digested", backup))
  /\ UNCHANGED <<version, backup, manifest, overlapped>>

WriteManifest(t) ==
  /\ Goes(t, "digested", Resting)
  /\ manifest' = maker[t].digest
  /\ UNCHANGED <<version, backup, overlapped>>

FailKeepsQuiet(t) ==
  /\ maker[t].step = "copying"
  /\ maker' = [maker EXCEPT ![t] = Phase("copied", NoBackup)]
  /\ UNCHANGED <<version, backup, manifest, overlapped>>

(* A step raises: an incomplete copy stays where it is, and so does a      *)
(* manifest of which only a part is written.                               *)
Fail(t) ==
  /\ maker[t] # Resting
  /\ maker' = [maker EXCEPT ![t] = Resting]
  /\ \/ UNCHANGED manifest
     \/ maker[t].step = "digested" /\ manifest' = Damaged
  /\ UNCHANGED <<version, backup, overlapped>>

(* The process ends.                                                       *)
End ==
  /\ \E t \in Maker : maker[t] # Resting
  /\ maker' = [t \in Maker |-> Resting]
  /\ \/ UNCHANGED manifest
     \/ (\E t \in Maker : maker[t].step = "digested") /\ manifest' = Damaged
  /\ UNCHANGED <<version, backup, overlapped>>

BackupSteps ==
  \/ CommitMore \/ End
  \/ \E t \in Maker : BeginCopy(t) \/ FinishCopy(t) \/ VerifyCopy(t) \/ Digest(t)
                      \/ WriteManifest(t) \/ Fail(t)

BackupSpec == InitBackups /\ [][BackupSteps]_backupVars

(* verify_backup_manifest returns: it compares the digests, and the store  *)
(* identity and format, which all copies of a store share.                 *)
VerifyBackupManifest == backup # NoBackup /\ manifest = backup

-----------------------------------------------------------------------------
(* Properties.                                                             *)

(* A manifest never vouches for an incomplete backup: whatever calls       *)
(* failed or died at any step, over an older backup and manifest too, what *)
(* verify_backup_manifest accepts is a whole copy of the store, unless two *)
(* threads made backups at the same destination at the same time. ("This   *)
(* keeps an operational manifest from claiming a backup that is incomplete *)
(* or corrupt", create_backup_manifest)                                    *)
ManifestTellsBackup == VerifyBackupManifest => backup.complete \/ overlapped

=============================================================================
