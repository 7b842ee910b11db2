----------------------------- MODULE HostProofs ------------------------------
(***************************************************************************)
(* Theorems about the parts around the engine, each by itself: the locks   *)
(* of a store file and backup manifests, for any number of processes,      *)
(* names, handles, threads and commits, and the loop of recover, for files *)
(* of any length.                                                          *)
(***************************************************************************)
EXTENDS WriterLock, Backups, RecoverScan, LogRecoveryProofs

-----------------------------------------------------------------------------
(* Writer locks.                                                           *)

Phases == {"closed", "opened", "guarded", "locked", "open", "failed", "unlocked", "verifying"}

LocksOK ==
  /\ phase \in [Caller -> Phases]
  /\ named \in [Caller -> Name]
  /\ writers \in [Process -> SUBSET Name]
  /\ locked \subseteq Caller

(* The handle stands for its name in OPEN_WRITERS.                         *)
Guards(h) == phase[h] \in {"guarded", "locked", "open", "unlocked"}

(* The operating system's lock is held by those who are between taking and *)
(* releasing it, and shared by verifications only; a name in OPEN_WRITERS  *)
(* has a handle that guards it, and two handles of one process never guard *)
(* the same name.                                                          *)
LockInv ==
  /\ LocksOK
  /\ \A h \in Caller : h \in locked <=> phase[h] \in {"locked", "open", "failed", "verifying"}
  /\ \A h, other \in locked : h # other => phase[h] = "verifying"
  /\ \A h \in Caller : Guards(h) => named[h] \in writers[h[1]]
  /\ \A h, other \in Caller :
       Guards(h) /\ Guards(other) /\ h[1] = other[1] /\ named[h] = named[other] => h = other
  /\ \A p \in Process : \A n \in writers[p] :
       \E h \in Caller : h[1] = p /\ named[h] = n /\ Guards(h)

LEMMA LockInit == InitLocks => LockInv
<1>. SUFFICES ASSUME InitLocks PROVE LockInv
  BY Zenon
<1>1. (CHOOSE n \in Name : TRUE) \in Name
  BY LockAssumption, Zenon
<1>2. LocksOK
  BY <1>1, Zenon DEF InitLocks, LocksOK, Phases
<1>. QED
  BY <1>2, Zenon DEF InitLocks, LockInv, Guards

LEMMA LockNext == LockInv /\ [LockSteps]_lockVars => LockInv'
<1>. SUFFICES ASSUME LockInv, [LockSteps]_lockVars PROVE LockInv'
  BY Zenon
<1>. USE DEF LockInv, LocksOK, Phases, Guards
<1>0. \A h \in Caller : h[1] \in Process
  BY Zenon DEF Caller
<1>1. ASSUME NEW h \in Caller, NEW n \in Name, OpenFile(h, n) PROVE LockInv'
  BY <1>0, <1>1 DEF OpenFile, Move
<1>2. ASSUME NEW h \in Caller, AcquireGuard(h) PROVE LockInv'
  BY <1>0, <1>2 DEF AcquireGuard, Move, Insert
<1>3. ASSUME NEW h \in Caller, TryLockExclusive(h) PROVE LockInv'
  BY <1>0, <1>3 DEF TryLockExclusive, Move, Lockable, FailOpen, RemoveName
<1>4. ASSUME NEW h \in Caller, FinishOpen(h) PROVE LockInv'
  BY <1>0, <1>4 DEF FinishOpen, Move, FailOpen, RemoveName
<1>5. ASSUME NEW h \in Caller, CloseFailed(h) PROVE LockInv'
  BY <1>0, <1>5 DEF CloseFailed, Move
<1>6. ASSUME NEW h \in Caller, UnlockStore(h) PROVE LockInv'
  BY <1>0, <1>6 DEF UnlockStore, Move
<1>7. ASSUME NEW h \in Caller, DropGuard(h) PROVE LockInv'
  BY <1>0, <1>7 DEF DropGuard, Move, RemoveName
<1>8. ASSUME NEW h \in Caller, VerifyFile(h) PROVE LockInv'
  BY <1>0, <1>8 DEF VerifyFile, Move
<1>9. ASSUME NEW h \in Caller, EndVerify(h) PROVE LockInv'
  BY <1>0, <1>9 DEF EndVerify, Move
<1>10. ASSUME NEW p \in Process, Die(p) PROVE LockInv'
  BY <1>0, <1>10 DEF Die
<1>11. CASE UNCHANGED lockVars
  BY <1>11 DEF lockVars
<1>. QED
  BY <1>1, <1>2, <1>3, <1>4, <1>5, <1>6, <1>7, <1>8, <1>9, <1>10, <1>11, Zenon
  DEF LockSteps, HandleSteps

(* From the header's first byte to the end of a Store, no other Store and  *)
(* no verification has the same file, by whatever names, and a name stays  *)
(* in OPEN_WRITERS exactly as long as one call or Store stands for it,     *)
(* after any failed open and death of any process. (open_with_options,     *)
(* ProcessWriterGuard and Drop for Store)                                  *)
THEOREM WritersStayExclusive == LockSpec => []WritersAreExclusive
<1>1. LockInv => WritersAreExclusive
  <2>. SUFFICES ASSUME LockInv PROVE WritersAreExclusive
    BY Zenon
  <2>1. OneWriter
    BY Zenon DEF LockInv, LocksOK, OneWriter, Reading
  <2>2. ASSUME NEW p \in Process, NEW n \in Name
        PROVE  LET holders == {h \in Caller : /\ h[1] = p /\ named[h] = n
                                  /\ phase[h] \in {"guarded", "locked", "open", "unlocked"}}
               IN  Cardinality(holders) = IF n \in writers[p] THEN 1 ELSE 0
    <3>. DEFINE holders == {h \in Caller : /\ h[1] = p /\ named[h] = n
                                  /\ phase[h] \in {"guarded", "locked", "open", "unlocked"}}
    <3>1. CASE n \in writers[p]
      <4>1. PICK h \in Caller : h[1] = p /\ named[h] = n /\ Guards(h)
        BY <3>1, Zenon DEF LockInv
      <4>2. holders = {h}
        BY <4>1 DEF LockInv, Guards
      <4>. QED
        BY <4>2, <3>1, FS_Singleton, Zenon
    <3>2. CASE n \notin writers[p]
      <4>1. holders = {}
        BY <3>2 DEF LockInv, Guards
      <4>. QED
        BY <4>1, <3>2, FS_EmptySet, Zenon
    <3>. QED
      BY <3>1, <3>2, Zenon
  <2>3. GuardsHaveOneHolder
    BY <2>2, Zenon DEF GuardsHaveOneHolder
  <2>. QED
    BY <2>1, <2>3, Zenon DEF WritersAreExclusive
<1>. QED
  BY <1>1, LockInit, LockNext, PTL DEF LockSpec

-----------------------------------------------------------------------------
(* Backups and their manifests.                                            *)

Content == [version : Nat, complete : BOOLEAN]

Whole == {c \in Content : c.complete}

BackupsOK ==
  /\ version \in Nat
  /\ backup \in Content \cup {NoBackup}
  /\ manifest \in Content \cup {NoBackup, Damaged}
  /\ maker \in [Maker -> [step : {"idle", "copying", "copied", "verified", "digested"},
                         digest : Content \cup {NoBackup}]]
  /\ \A t \in Maker : maker[t].step # "digested" => maker[t].digest = NoBackup
  /\ overlapped \in BOOLEAN

(* As long as no two calls overlapped, one thread at most is in a call,    *)
(* past its copy it has a whole backup, and only such a backup reaches a   *)
(* digest and a manifest.                                                  *)
BackupInv ==
  /\ BackupsOK
  /\ ~overlapped =>
       /\ \A t, other \in Maker : maker[t] # Resting /\ maker[other] # Resting => t = other
       /\ \A t \in Maker : maker[t].step \in {"copied", "verified", "digested"} => backup \in Whole
       /\ \A t \in Maker : maker[t].step = "digested" => maker[t].digest \in Whole
       /\ manifest \in Whole \cup {NoBackup, Damaged}

LEMMA BackupNext == BackupInv /\ [BackupSteps]_backupVars => BackupInv'
<1>. SUFFICES ASSUME BackupInv, [BackupSteps]_backupVars PROVE BackupInv'
  OBVIOUS
<1>. USE BackupAssumption DEF BackupInv, BackupsOK, Resting, Phase, Content, Whole
<1>1. CASE CommitMore
  BY <1>1 DEF CommitMore
<1>2. CASE End
  BY <1>2, Zenon DEF End
<1>3. ASSUME NEW t \in Maker, BeginCopy(t) PROVE BackupInv'
  <2>1. overlapped' \in BOOLEAN
    BY <1>3, Zenon DEF BeginCopy
  <2>2. BackupsOK'
    BY <1>3, <2>1, Zenon DEF BeginCopy, Goes, Contents
  <2>3. ASSUME ~overlapped'
        PROVE  /\ ~overlapped
               /\ \A other \in Maker \ {t} : maker[other] = Resting
    BY <1>3, <2>3, Zenon DEF BeginCopy
  <2>. QED
    BY <1>3, <2>2, <2>3 DEF BeginCopy, Goes, Contents
<1>4. ASSUME NEW t \in Maker, FinishCopy(t) PROVE BackupInv'
  BY <1>4 DEF FinishCopy, Goes, Contents
<1>5. ASSUME NEW t \in Maker, VerifyCopy(t) PROVE BackupInv'
  BY <1>5 DEF VerifyCopy, Goes
<1>6. ASSUME NEW t \in Maker, Digest(t) PROVE BackupInv'
  BY <1>6 DEF Digest, Goes
<1>7. ASSUME NEW t \in Maker, WriteManifest(t) PROVE BackupInv'
  BY <1>7 DEF WriteManifest, Goes
<1>8. ASSUME NEW t \in Maker, Fail(t) PROVE BackupInv'
  BY <1>8 DEF Fail
<1>9. CASE UNCHANGED backupVars
  BY <1>9, Zenon DEF backupVars
<1>. QED
  BY <1>1, <1>2, <1>3, <1>4, <1>5, <1>6, <1>7, <1>8, <1>9, Zenon DEF BackupSteps

(* What verify_backup_manifest accepts is a whole copy of the store,       *)
(* whichever calls of create_backup_manifest failed or died at any step,   *)
(* unless two of them overlapped.                                          *)
THEOREM ManifestsTellBackups == BackupSpec => []ManifestTellsBackup
<1>1. InitBackups => BackupInv
  <2>. SUFFICES ASSUME InitBackups PROVE BackupInv
    OBVIOUS
  <2>1. BackupsOK
    BY Zenon DEF InitBackups, BackupsOK, Resting, Phase, Content
  <2>2. \A t \in Maker : maker[t] = Resting /\ maker[t].step = "idle"
    BY Zenon DEF InitBackups, Resting, Phase
  <2>. QED
    BY <2>1, <2>2, Zenon DEF BackupInv, InitBackups
<1>2. BackupInv => ManifestTellsBackup
  BY BackupAssumption, Zenon
  DEF BackupInv, BackupsOK, ManifestTellsBackup, VerifyBackupManifest, Content, Whole
<1>. QED
  BY <1>1, <1>2, BackupNext, PTL DEF BackupSpec

-----------------------------------------------------------------------------
(* The scan of recover.                                                    *)

Read == 1 .. offset

IsCommitOf(f, i, t) == f[i].kind = "Commit" /\ f[i].tx_id = t

IsOpOn(f, i, k, t) == IsOp(f[i]) /\ f[i].key = k /\ f[i].tx_id = t

(* In the first n records of the file f: record j takes effect after i.    *)
Overrides(f, n, j, i) ==
  \/ f[i].tx_id = f[j].tx_id /\ i <= j
  \/ \E c, d \in 1 .. n :
       IsCommitOf(f, c, f[i].tx_id) /\ IsCommitOf(f, d, f[j].tx_id) /\ c < d

Effective(f, n, txs, k) ==
  {i \in 1 .. n : IsOp(f[i]) /\ f[i].key = k /\ f[i].tx_id \in txs}

(* The value is that of the last operation on k of the last transaction of *)
(* txs committed.                                                          *)
Decides(f, n, txs, k, value) ==
  \/ Effective(f, n, txs, k) = {} /\ value = NoValue
  \/ \E j \in Effective(f, n, txs, k) :
       /\ value = f[j].value
       /\ \A i \in Effective(f, n, txs, k) : Overrides(f, n, j, i)

(* The list ops ends, for key k, with what the last operation of t on k    *)
(* among the first n records says.                                         *)
HoldsBack(f, n, ops, t, k) ==
  \/ /\ \A i \in 1 .. n : ~IsOpOn(f, i, k, t)
     /\ \A m \in DOMAIN ops : ops[m].key # k
  \/ \E j \in 1 .. n, m \in DOMAIN ops :
       /\ IsOpOn(f, j, k, t) /\ \A i \in 1 .. n : IsOpOn(f, i, k, t) => i <= j
       /\ ops[m].key = k /\ \A o \in DOMAIN ops : ops[o].key = k => o <= m
       /\ ops[m].value = f[j].value

FileOK ==
  /\ file \in Seq(Record)
  /\ \A i \in DOMAIN file : file[i].kind # "Torn" =>
       /\ file[i].tx_id \in TxIds
       /\ file[i].sequence # 0
       /\ IsOp(file[i]) => file[i].key \in AnyKey

ScanOK ==
  /\ FileOK
  /\ offset \in 0 .. Len(file)
  /\ state \in [AnyKey -> AnyValue \cup {NoValue}]
  /\ pending \in [TxIds -> Seq(Operation)]
  /\ committed \subseteq TxIds
  /\ result \in {"scanning", "ok", "error"}

(* Why the scan has ended, if it has.                                      *)
ResultIsDue ==
  /\ result = "ok" /\ offset < Len(file) => file[offset + 1].kind = "Torn"
  /\ result = "error" =>
       /\ offset < Len(file)
       /\ \/ file[offset + 1].kind = "Torn" /\ offset + 1 < Len(file)
          \/ /\ file[offset + 1].kind # "Torn"
             /\ \/ offset # 0 /\ file[offset + 1].sequence <= file[offset].sequence
                \/ \E i \in Read : IsCommitOf(file, i, file[offset + 1].tx_id)

(* What has been read is complete and in order, the counters and the set   *)
(* of committed transactions are those of the records read.                *)
PrefixIsSound ==
  /\ \A i \in Read : file[i].kind # "Torn"
  /\ \A i \in Read : i > 1 => file[i - 1].sequence < file[i].sequence
  /\ \A i, j \in Read : i < j => ~IsCommitOf(file, i, file[j].tx_id)
  /\ committed = {file[i].tx_id : i \in {j \in Read : file[j].kind = "Commit"}}
  /\ max_sequence = IF offset = 0 THEN 0 ELSE file[offset].sequence
  /\ max_tx_id \in Nat
  /\ \A i \in Read : file[i].tx_id <= max_tx_id
  /\ max_tx_id # 0 => \E i \in Read : file[i].tx_id = max_tx_id

ScanInv ==
  /\ ScanOK
  /\ PrefixIsSound
  /\ \A t \in TxIds \ committed : \A k \in AnyKey : HoldsBack(file, offset, pending[t], t, k)
  /\ \A k \in AnyKey : Decides(file, offset, committed, k, state[k])
  /\ ResultIsDue

LEMMA ScanInit == InitScan => ScanInv
<1>. SUFFICES ASSUME InitScan PROVE ScanInv
  OBVIOUS
<1>1. PICK n \in 0 .. MaxLen : \E choice \in [1 .. n -> Found] :
        file = [i \in 1 .. n |-> IF choice[i] = Torn THEN Torn
                                 ELSE [choice[i] EXCEPT !.sequence = @ + i]]
  BY Zenon DEF InitScan
<1>2. PICK choice \in [1 .. n -> Found] :
        file = [i \in 1 .. n |-> IF choice[i] = Torn THEN Torn
                                 ELSE [choice[i] EXCEPT !.sequence = @ + i]]
  BY <1>1, Zenon
<1>3. n \in Nat /\ n < MaxSequence
  BY MaxLenAssumption, BoundsAssumption
<1>4. ASSUME NEW i \in 1 .. n
      PROVE  /\ file[i] \in Record
             /\ file[i].kind # "Torn" =>
                  /\ file[i].tx_id \in TxIds
                  /\ file[i].sequence # 0
                  /\ IsOp(file[i]) => file[i].key \in AnyKey
  <2>1. CASE choice[i] = Torn
    <3>1. file[i] = Torn
      BY <1>2, <2>1, Zenon
    <3>. QED
      BY <3>1, BoundsAssumption DEF Torn, Record
  <2>2. CASE choice[i] # Torn
    <3>. DEFINE Ops ==
           {Put(k, v) : k \in Key, v \in Value} \cup {Delete(k) : k \in Key} \cup {Commit}
    <3>0. choice[i] \in {LogRecord(op, t, s) : op \in Ops, t \in TxIds, s \in {0, 1}}
      <4>1. choice[i] \in Found
        BY Zenon
      <4>2. Found = {Torn} \cup {LogRecord(op, t, s) : op \in Ops, t \in TxIds, s \in {0, 1}}
        BY DEF Found
      <4>. HIDE DEF Ops
      <4>. QED
        BY <2>2, <4>1, <4>2
    <3>. HIDE DEF Ops
    <3>1. PICK op \in Ops, t \in TxIds, s \in {0, 1} : choice[i] = LogRecord(op, t, s)
      BY <3>0
    <3>2. file[i] = LogRecord(op, t, s + i)
      BY <1>2, <2>2, <3>1 DEF LogRecord
    <3>3. /\ op.kind \in {"Put", "Delete", "Commit"}
          /\ op.key \in Key \cup {NoKey} /\ op.value \in Value \cup {NoValue}
          /\ op.kind \in {"Put", "Delete"} => op.key \in Key
      BY DEF Ops, Put, Delete, Commit
    <3>4. s + i \in 1 .. MaxSequence /\ t \in 0 .. MaxTxId
      BY <1>3, BoundsAssumption DEF TxIds
    <3>5. op.key \in AnyKey \cup {NoKey} /\ op.value \in AnyValue \cup {NoValue}
      BY <3>3, Zenon DEF AnyKey, AnyValue
    <3>6. op.kind \in {"Put", "Delete"} => op.key \in AnyKey
      BY <3>3, Zenon DEF AnyKey
    <3>7. s + i \in 0 .. MaxSequence /\ s + i # 0
      BY <3>4
    <3>8. file[i] = [kind |-> op.kind, tx_id |-> t, sequence |-> s + i, key |-> op.key,
                     value |-> op.value]
      BY <3>2, Zenon DEF LogRecord
    <3>9. file[i] \in Record
      BY <3>3, <3>4, <3>5, <3>7, <3>8 DEF Record
    <3>. QED
      BY <3>3, <3>6, <3>7, <3>8, <3>9 DEF IsOp
  <2>. QED
    BY <2>1, <2>2, Zenon
<1>5. file \in Seq(Record) /\ Len(file) = n
  <2>1. file = [i \in 1 .. n |-> file[i]]
    BY <1>2, Zenon
  <2>. QED
    BY <2>1, <1>3, <1>4
<1>6. ScanOK
  BY <1>4, <1>5 DEF InitScan, ScanOK, FileOK, EmptyMap
<1>7. Read = {}
  BY DEF InitScan, Read
<1>8. PrefixIsSound
  BY <1>7, Zenon DEF InitScan, PrefixIsSound
<1>9. \A t \in TxIds \ committed : \A k \in AnyKey : HoldsBack(file, offset, pending[t], t, k)
  BY <1>7 DEF InitScan, HoldsBack, Read
<1>10. \A k \in AnyKey : Decides(file, offset, committed, k, state[k])
  BY <1>7, Zenon DEF InitScan, Decides, Effective, EmptyMap, Read
<1>. QED
  BY <1>6, <1>8, <1>9, <1>10, Zenon DEF ScanInv, ResultIsDue, InitScan

(* What every accepted record does to the prefix.                          *)
LEMMA AcceptFacts ==
  ASSUME ScanInv, Accept
  PROVE  /\ record \in Record /\ record.tx_id \in TxIds
         /\ Read' = Read \cup {offset + 1} /\ offset + 1 \notin Read
         /\ file' = file /\ record = file[offset + 1] /\ offset + 1 \in DOMAIN file
         /\ \A i \in Read : i \in DOMAIN file /\ i \in Nat /\ i < offset + 1
         /\ \A i \in Read : ~IsCommitOf(file, i, record.tx_id)
         /\ offset \in Nat
  BY DEF ScanInv, ScanOK, FileOK, Accept, AtRecord, record, Read, PrefixIsSound, IsCommitOf

LEMMA AcceptPrefix ==
  ASSUME ScanInv, Accept,
         committed' = IF record.kind = "Commit" THEN committed \cup {record.tx_id} ELSE committed
  PROVE  PrefixIsSound'
<1>0. /\ record.tx_id \in TxIds
      /\ Read' = Read \cup {offset + 1} /\ file' = file /\ record = file[offset + 1]
      /\ \A i \in Read : i \in DOMAIN file /\ i \in Nat /\ i < offset + 1
      /\ \A i \in Read : ~IsCommitOf(file, i, record.tx_id)
      /\ offset + 1 \in DOMAIN file /\ offset \in Nat
  BY AcceptFacts, Zenon
<1>1. \A i \in Read' : file'[i].kind # "Torn"
  BY <1>0, Zenon DEF ScanInv, PrefixIsSound, Accept
<1>2. \A i \in Read' : i > 1 => file'[i - 1].sequence < file'[i].sequence
  <2>1. \A i \in DOMAIN file : file[i].sequence \in Nat
    BY RecordFields DEF ScanInv, ScanOK, FileOK
  <2>2. offset # 0 => offset \in Read /\ file[offset].sequence # 0
    BY <1>0 DEF ScanInv, ScanOK, FileOK, PrefixIsSound, Read
  <2>3. offset # 0 => file[offset].sequence < file[offset + 1].sequence
    BY <1>0, <2>1, <2>2 DEF ScanInv, PrefixIsSound, Accept, SequenceRepeats
  <2>. QED
    BY <1>0, <2>3 DEF ScanInv, PrefixIsSound
<1>3. \A i, j \in Read' : i < j => ~IsCommitOf(file', i, file'[j].tx_id)
  <2>1. \A i, j \in Read : i < j => ~IsCommitOf(file, i, file[j].tx_id)
    BY Zenon DEF ScanInv, PrefixIsSound
  <2>. QED
    BY <1>0, <2>1
<1>4. committed' = {file'[i].tx_id : i \in {j \in Read' : file'[j].kind = "Commit"}}
  BY <1>0, Zenon DEF ScanInv, PrefixIsSound
<1>5. max_sequence' = IF offset' = 0 THEN 0 ELSE file'[offset'].sequence
  BY <1>0 DEF Accept
<1>6. /\ max_tx_id' \in Nat
      /\ \A i \in Read' : file'[i].tx_id <= max_tx_id'
      /\ max_tx_id' # 0 => \E i \in Read' : file'[i].tx_id = max_tx_id'
  <2>1. \A i \in Read' : file[i].tx_id \in Nat
    BY <1>0, RecordFields DEF ScanInv, ScanOK, FileOK
  <2>2. /\ max_tx_id \in Nat /\ record.tx_id \in Nat
        /\ \A i \in Read : file[i].tx_id <= max_tx_id
        /\ max_tx_id # 0 => \E i \in Read : file[i].tx_id = max_tx_id
    BY <1>0, <2>1, Zenon DEF ScanInv, PrefixIsSound
  <2>3. max_tx_id' = IF record.tx_id > max_tx_id THEN record.tx_id ELSE max_tx_id
    BY Zenon DEF Accept
  <2>. QED
    BY <1>0, <2>1, <2>2, <2>3
<1>. QED
  BY <1>1, <1>2, <1>3, <1>4, <1>5, <1>6, Zenon DEF PrefixIsSound

(* What holds of the first n records, and what the next one changes.       *)
LEMMA OverridesStays ==
  ASSUME NEW f, NEW n \in Nat, NEW i, NEW j, Overrides(f, n, j, i)
  PROVE  Overrides(f, n + 1, j, i)
<1>1. 1 .. n \subseteq 1 .. n + 1
  OBVIOUS
<1>. QED
  BY <1>1, Zenon DEF Overrides

LEMMA DecidesStays ==
  ASSUME NEW f, NEW n \in Nat, NEW txs, NEW more, NEW k, NEW value,
         Decides(f, n, txs, k, value), Effective(f, n + 1, more, k) = Effective(f, n, txs, k)
  PROVE  Decides(f, n + 1, more, k, value)
  BY OverridesStays, Zenon DEF Decides

LEMMA HoldsBackStays ==
  ASSUME NEW f, NEW n \in Nat, NEW ops, NEW t, NEW k, HoldsBack(f, n, ops, t, k),
         ~IsOpOn(f, n + 1, k, t)
  PROVE  HoldsBack(f, n + 1, ops, t, k)
<1>1. \A i \in 1 .. n + 1 : IsOpOn(f, i, k, t) => i \in 1 .. n
  OBVIOUS
<1>2. 1 .. n \subseteq 1 .. n + 1
  OBVIOUS
<1>. QED
  BY <1>1, <1>2, Zenon DEF HoldsBack

LEMMA HoldsBackAppend ==
  ASSUME NEW f, NEW n \in Nat, NEW ops \in Seq(Operation), NEW op \in Operation, NEW t, NEW k,
         HoldsBack(f, n, ops, t, k),
         IsOp(f[n + 1]), f[n + 1].tx_id = t, f[n + 1].key = op.key, f[n + 1].value = op.value
  PROVE  HoldsBack(f, n + 1, Append(ops, op), t, k)
<1>. DEFINE new == Append(ops, op)
<1>1. /\ DOMAIN new = 1 .. Len(ops) + 1 /\ DOMAIN ops = 1 .. Len(ops) /\ Len(ops) \in Nat
      /\ new[Len(ops) + 1] = op
      /\ \A m \in DOMAIN ops : new[m] = ops[m]
  OBVIOUS
<1>. HIDE DEF new
<1>2. CASE op.key = k
  <2>1. IsOpOn(f, n + 1, k, t) /\ \A i \in 1 .. n + 1 : i <= n + 1
    BY <1>2 DEF IsOpOn
  <2>2. /\ Len(ops) + 1 \in DOMAIN new /\ new[Len(ops) + 1].key = k
        /\ \A o \in DOMAIN new : o <= Len(ops) + 1
        /\ new[Len(ops) + 1].value = f[n + 1].value
    BY <1>1, <1>2
  <2>3. n + 1 \in 1 .. n + 1
    OBVIOUS
  <2>4. HoldsBack(f, n + 1, new, t, k)
    BY <2>1, <2>2, <2>3, Zenon DEF HoldsBack
  <2>. QED
    BY <2>4, Zenon DEF new
<1>3. CASE op.key # k
  <2>1. ~IsOpOn(f, n + 1, k, t)
    BY <1>3, Zenon DEF IsOpOn
  <2>2. \A m \in DOMAIN new : new[m].key = k => m \in DOMAIN ops
    BY <1>1, <1>3
  <2>3. HoldsBack(f, n + 1, ops, t, k)
    BY <2>1, HoldsBackStays, Zenon
  <2>4. HoldsBack(f, n + 1, new, t, k)
    BY <1>1, <2>2, <2>3, SMTT(30) DEF HoldsBack
  <2>. QED
    BY <2>4 DEF new
<1>. QED
  BY <1>2, <1>3, Zenon

LEMMA ScanOperationKeeps == ScanInv /\ ScanOperation => ScanInv'
<1>. SUFFICES ASSUME ScanInv, ScanOperation PROVE ScanInv'
  BY Zenon
<1>. DEFINE t == record.tx_id
            op == [kind |-> record.kind, key |-> record.key, value |-> record.value]
<1>1. Accept /\ IsOp(record) /\ state' = state /\ committed' = committed
  BY Zenon DEF ScanOperation
<1>0. /\ offset + 1 \in DOMAIN file /\ offset \in Nat /\ file' = file
      /\ record = file[offset + 1] /\ record \in Record /\ t \in TxIds
  BY <1>1, AcceptFacts, Zenon
<1>2. /\ offset' = offset + 1 /\ offset \in Nat /\ file' = file /\ file[offset + 1] = record
      /\ t \notin committed /\ result' = result
  BY <1>0, <1>1, Zenon DEF Accept
<1>3. record.key \in AnyKey /\ op \in Operation
  <2>1. record.key \in AnyKey
    BY <1>0, <1>1, Zenon DEF ScanInv, ScanOK, FileOK, IsOp
  <2>. QED
    BY <1>0, <1>1, <2>1, Zenon DEF Record, Operation, IsOp
<1>. HIDE DEF op
<1>4. /\ t \in TxIds /\ pending[t] \in Seq(Operation)
      /\ pending'[t] = Append(pending[t], op)
      /\ \A u \in TxIds \ {t} : pending'[u] = pending[u]
      /\ pending' \in [TxIds -> Seq(Operation)]
  <2>1. pending \in [TxIds -> Seq(Operation)]
    BY Zenon DEF ScanInv, ScanOK
  <2>2. pending' = [pending EXCEPT ![t] = Append(@, op)]
    BY Zenon DEF ScanOperation, op
  <2>. QED
    BY <1>0, <1>3, <2>1, <2>2
<1>5. ScanOK'
  <2>1. offset' \in 0 .. Len(file')
    BY <1>0, <1>2 DEF ScanInv, ScanOK, FileOK
  <2>. QED
    BY <1>1, <1>2, <1>4, <2>1, Zenon DEF ScanInv, ScanOK, FileOK
<1>6. PrefixIsSound'
  BY <1>1, AcceptPrefix, Zenon DEF IsOp
<1>7. op.key = record.key /\ op.value = record.value
  BY Zenon DEF op
<1>8. ASSUME NEW u \in TxIds \ committed, NEW k \in AnyKey
      PROVE  HoldsBack(file', offset', pending'[u], u, k)
  <2>0. HoldsBack(file, offset, pending[u], u, k)
    BY Zenon DEF ScanInv
  <2>1. CASE u # t
    BY <1>2, <1>4, <2>0, <2>1, HoldsBackStays, Zenon DEF IsOpOn
  <2>2. CASE u = t
    <3>1. HoldsBack(file, offset + 1, Append(pending[t], op), t, k)
      BY <1>1, <1>2, <1>3, <1>4, <1>7, <2>0, <2>2, HoldsBackAppend, Zenon
    <3>. QED
      BY <1>2, <1>4, <2>2, <3>1, Zenon
  <2>. QED
    BY <2>1, <2>2, Zenon
<1>9. ASSUME NEW k \in AnyKey PROVE Decides(file', offset', committed', k, state'[k])
  <2>1. Effective(file, offset + 1, committed, k) = Effective(file, offset, committed, k)
    BY <1>2 DEF Effective
  <2>. QED
    BY <1>1, <1>2, <2>1, DecidesStays, Zenon DEF ScanInv
<1>10. ResultIsDue'
  BY <1>1, Zenon DEF Accept, AtRecord, ResultIsDue
<1>. QED
  BY <1>1, <1>5, <1>6, <1>8, <1>9, <1>10, Zenon DEF ScanInv

LEMMA ScanCommitKeeps == ScanInv /\ ScanCommit => ScanInv'
<1>. SUFFICES ASSUME ScanInv, ScanCommit PROVE ScanInv'
  OBVIOUS
<1>. DEFINE t == record.tx_id
            ops == pending[t]
<1>1. /\ Accept /\ record.kind = "Commit" /\ state' = ApplyOperations(state, ops)
      /\ committed' = committed \cup {t}
  BY Zenon DEF ScanCommit
<1>2. /\ offset' = offset + 1 /\ offset \in Nat /\ file' = file /\ file[offset + 1] = record
      /\ offset + 1 \in DOMAIN file
      /\ t \notin committed /\ t \in TxIds /\ result' = result
  <2>1. /\ offset + 1 \in DOMAIN file /\ offset \in Nat /\ file' = file
        /\ record = file[offset + 1] /\ t \in TxIds
    BY <1>1, AcceptFacts, Zenon
  <2>. QED
    BY <1>1, <2>1, Zenon DEF Accept
<1>3. /\ ops \in Seq(Operation)
      /\ pending' \in [TxIds -> Seq(Operation)]
      /\ \A u \in TxIds \ {t} : pending'[u] = pending[u]
  BY <1>1, <1>2 DEF ScanCommit, ScanInv, ScanOK
<1>. HIDE DEF ops, t
<1>4. state' \in [AnyKey -> AnyValue \cup {NoValue}]
  BY <1>1, <1>3, ApplyType, Zenon DEF ScanInv, ScanOK
<1>5. ScanOK'
  <2>1. offset' \in 0 .. Len(file')
    BY <1>2 DEF ScanInv, ScanOK, FileOK
  <2>2. committed' \subseteq TxIds
    BY <1>1, <1>2, Zenon DEF ScanInv, ScanOK
  <2>. QED
    BY <1>2, <1>3, <1>4, <2>1, <2>2, Zenon DEF ScanInv, ScanOK, FileOK
<1>6. PrefixIsSound'
  BY <1>1, AcceptPrefix, Zenon DEF t
<1>7. ASSUME NEW u \in TxIds \ committed', NEW k \in AnyKey
      PROVE  HoldsBack(file', offset', pending'[u], u, k)
  <2>1. HoldsBack(file, offset, pending[u], u, k)
    BY <1>1, Zenon DEF ScanInv
  <2>. QED
    BY <1>1, <1>2, <1>3, <2>1, HoldsBackStays, Zenon DEF IsOpOn, IsOp
<1>8. ASSUME NEW k \in AnyKey PROVE Decides(file', offset', committed', k, state'[k])
  <2>. DEFINE new == Effective(file, offset + 1, committed', k)
              old == Effective(file, offset, committed, k)
              on == {i \in DOMAIN ops : ops[i].key = k}
  <2>1. new = old \cup {i \in 1 .. offset : IsOpOn(file, i, k, t)}
    BY <1>1, <1>2 DEF Effective, IsOpOn, IsOp
  <2>2. state'[k] = IF on = {} THEN state[k] ELSE ops[Max(on)].value
    BY <1>1, Zenon DEF ApplyOperations
  <2>3. HoldsBack(file, offset, ops, t, k)
    BY <1>2, Zenon DEF ScanInv, ops
  <2>4. Decides(file, offset, committed, k, state[k])
    BY Zenon DEF ScanInv
  <2>5. CASE \A i \in 1 .. offset : ~IsOpOn(file, i, k, t)
    <3>1. on = {}
      BY <2>3, <2>5, Zenon DEF HoldsBack
    <3>2. new = old
      BY <2>1, <2>5, Zenon
    <3>. QED
      BY <1>2, <2>2, <2>4, <3>1, <3>2, DecidesStays, Zenon
  <2>6. CASE ~\A i \in 1 .. offset : ~IsOpOn(file, i, k, t)
    <3>1. PICK j \in 1 .. offset, m \in DOMAIN ops :
            /\ IsOpOn(file, j, k, t) /\ \A i \in 1 .. offset : IsOpOn(file, i, k, t) => i <= j
            /\ ops[m].key = k /\ \A o \in DOMAIN ops : ops[o].key = k => o <= m
            /\ ops[m].value = file[j].value
      BY <2>3, <2>6, Zenon DEF HoldsBack
    <3>2. m \in on /\ \A o \in on : o <= m
      BY <3>1, Zenon
    <3>3. Max(on) = m
      <4>1. on \subseteq 0 .. Len(ops) /\ on # {} /\ Len(ops) \in Nat
        BY <1>3, <3>2
      <4>. HIDE DEF on
      <4>2. Max(on) \in on /\ \A o \in on : o <= Max(on)
        BY <4>1, MaxNat, Zenon
      <4>3. Max(on) <= m /\ m <= Max(on) /\ Max(on) \in Nat /\ m \in Nat
        BY <3>2, <4>1, <4>2
      <4>. QED
        BY <4>3
    <3>4. state'[k] = file[j].value
      BY <2>2, <3>1, <3>2, <3>3, Zenon
    <3>5. ASSUME NEW i \in old PROVE Overrides(file, offset + 1, j, i)
      <4>1. PICK c \in 1 .. offset : IsCommitOf(file, c, file[i].tx_id)
        <5>1. file[i].tx_id \in committed
          BY Zenon DEF Effective
        <5>2. committed = {file[x].tx_id : x \in {y \in Read : file[y].kind = "Commit"}}
          BY Zenon DEF ScanInv, PrefixIsSound
        <5>. QED
          BY <5>1, <5>2, Zenon DEF Read, IsCommitOf
      <4>2. IsCommitOf(file, offset + 1, file[j].tx_id)
        BY <1>1, <1>2, <3>1, Zenon DEF IsCommitOf, IsOpOn, t
      <4>3. c \in 1 .. offset + 1 /\ offset + 1 \in 1 .. offset + 1 /\ c < offset + 1
        BY <1>2
      <4>. QED
        BY <4>1, <4>2, <4>3, Zenon DEF Overrides
    <3>6. ASSUME NEW i \in 1 .. offset, IsOpOn(file, i, k, t)
          PROVE  Overrides(file, offset + 1, j, i)
      BY <3>1, <3>6, Zenon DEF Overrides, IsOpOn
    <3>7. j \in new /\ \A i \in new : Overrides(file, offset + 1, j, i)
      BY <2>1, <3>1, <3>5, <3>6, Zenon
    <3>. QED
      BY <1>2, <3>4, <3>7, Zenon DEF Decides
  <2>. QED
    BY <2>5, <2>6, Zenon
<1>9. ResultIsDue'
  BY <1>1, Zenon DEF Accept, AtRecord, ResultIsDue
<1>. QED
  BY <1>1, <1>5, <1>6, <1>7, <1>8, <1>9, Zenon DEF ScanInv

LEMMA ScanNext == ScanInv /\ [ScanSteps]_scanVars => ScanInv'
<1>. SUFFICES ASSUME ScanInv, [ScanSteps]_scanVars PROVE ScanInv'
  OBVIOUS
<1>0. ASSUME UNCHANGED <<file, offset, state, pending, committed, max_tx_id, max_sequence>>,
             ResultIsDue', result' \in {"scanning", "ok", "error"}
      PROVE  ScanInv'
  BY <1>0, Zenon DEF ScanInv, ScanOK, FileOK, PrefixIsSound, Read
<1>1. CASE ScanEnd
  BY <1>0, <1>1 DEF ScanEnd, Return, ResultIsDue
<1>2. CASE ScanTruncated
  BY <1>0, <1>2, Zenon DEF ScanTruncated, Return, AtRecord, ResultIsDue, record
<1>3. CASE ScanCorrupt
  BY <1>0, <1>3, Zenon DEF ScanCorrupt, Return, AtRecord, ResultIsDue, record
<1>4. CASE ScanNonMonotonic
  <2>1. offset # 0 /\ record.sequence <= file[offset].sequence
    BY <1>4, Zenon DEF ScanNonMonotonic, SequenceRepeats, ScanInv, PrefixIsSound
  <2>. QED
    BY <1>0, <1>4, <2>1, Zenon DEF ScanNonMonotonic, Return, AtRecord, ResultIsDue, record
<1>5. CASE ScanAfterCommit
  <2>1. \E i \in Read : IsCommitOf(file, i, record.tx_id)
    BY <1>5, Zenon DEF ScanAfterCommit, ScanInv, PrefixIsSound, IsCommitOf
  <2>. QED
    BY <1>0, <1>5, <2>1, Zenon DEF ScanAfterCommit, Return, AtRecord, ResultIsDue, record, Read
<1>6. CASE UNCHANGED scanVars
  BY <1>0, <1>6, Zenon DEF scanVars, ResultIsDue, Read, ScanInv, ScanOK
<1>. QED
  BY <1>1, <1>2, <1>3, <1>4, <1>5, <1>6, ScanOperationKeeps, ScanCommitKeeps, Zenon DEF ScanSteps

(* The record that overrides all others decides, in any log.               *)
LEMMA ReplayDecided ==
  ASSUME NEW l \in Seq(Record), NEW txs, txs \subseteq Committed(l), NEW k \in AnyKey,
         NEW j \in OnKey(l, txs, k), \A i \in OnKey(l, txs, k) : AppliedNoLater(l, i, j)
  PROVE  Replay(l, txs)[k] = l[j].value
<1>. DEFINE on == OnKey(l, txs, k)
            last == CHOOSE x \in on : \A i \in on : AppliedNoLater(l, i, x)
<1>1. Replay(l, txs)[k] = l[last].value
  BY Zenon DEF Replay, OnKey
<1>2. last \in on /\ \A i \in on : AppliedNoLater(l, i, last)
  BY Zenon
<1>3. AppliedNoLater(l, j, last) /\ AppliedNoLater(l, last, j)
  BY <1>2, Zenon
<1>4. \A i \in on : i \in Nat /\ l[i].tx_id \in Committed(l)
  BY DEF OnKey
<1>5. \A i \in on : CommitAt(l, l[i].tx_id) \in Nat
  BY <1>4, CommitAtProperties
<1>. HIDE DEF on, last
<1>6. last = j
  <2>1. j \in on
    BY Zenon DEF on
  <2>. QED
    BY <1>2, <1>3, <1>4, <1>5, <2>1 DEF AppliedNoLater
<1>. QED
  BY <1>1, <1>6, Zenon

(* recover computes, on every file, what the definition of the log's       *)
(* meaning says: the operations of committed transactions in commit order, *)
(* the counters and the valid end; and it fails only where the file shows  *)
(* why.                                                                    *)
THEOREM RecoverIsRight == ScanSpec => []ScanIsRight
<1>1. ASSUME ScanInv, result = "ok"
      PROVE  /\ PrefixOk(file)
             /\ [state |-> state, max_tx_id |-> max_tx_id, max_sequence |-> max_sequence,
                 valid_end |-> offset] = Recovered(file)
  <2>. DEFINE p == ValidPrefix(file)
  <2>1. file \in Seq(Record) /\ offset \in 0 .. Len(file) /\ offset \in Nat
    BY <1>1 DEF ScanInv, ScanOK, FileOK
  <2>2. Intact(file) = offset
    BY <1>1, <2>1, IntactUnique, Zenon DEF ScanInv, PrefixIsSound, ResultIsDue, Read
  <2>3. p \in Seq(Record) /\ Len(p) = offset /\ \A i \in 1 .. offset : p[i] = file[i]
    BY <2>1, <2>2, ValidPrefixProperties, Zenon
  <2>. HIDE DEF p
  <2>4. DOMAIN p = Read
    BY <2>1, <2>3 DEF Read
  <2>5. \A i \in Read : p[i] = file[i] /\ i \in Nat
    BY <2>1, <2>3, SMTT(30) DEF Read
  <2>6. ~NonMonotonicSequence(p)
    <3>1. \A i \in Read : i > 1 => i - 1 \in Read
      BY <2>1 DEF Read
    <3>2. \A i \in Read : file[i].sequence \in Nat
      BY <2>1, RecordFields, SMTT(30) DEF Read
    <3>. QED
      BY <1>1, <2>4, <2>5, <3>1, <3>2 DEF ScanInv, PrefixIsSound, NonMonotonicSequence
  <2>7. ~RecordAfterCommit(p)
    BY <1>1, <2>4, <2>5, SMTT(30) DEF ScanInv, PrefixIsSound, RecordAfterCommit, IsCommitOf
  <2>8. Committed(p) = committed
    BY <1>1, <2>4, <2>5 DEF ScanInv, PrefixIsSound, Committed
  <2>9. LastTxId(p) = max_tx_id
    <3>1. /\ LastTxId(p) \in Nat
          /\ \A i \in Read : file[i].tx_id <= LastTxId(p)
          /\ LastTxId(p) # 0 => \E i \in Read : file[i].tx_id = LastTxId(p)
      BY <2>3, <2>5, LastTxIdProperties, BoundsAssumption DEF Read
    <3>2. /\ max_tx_id \in Nat
          /\ \A i \in Read : file[i].tx_id <= max_tx_id
          /\ max_tx_id # 0 => \E i \in Read : file[i].tx_id = max_tx_id
      BY <1>1, Zenon DEF ScanInv, PrefixIsSound
    <3>. QED
      BY <3>1, <3>2
  <2>10. LastSequence(p) = max_sequence
    <3>1. p = << >> <=> offset = 0
      BY <2>3
    <3>. QED
      BY <1>1, <2>1, <2>3, <3>1 DEF ScanInv, PrefixIsSound, LastSequence
  <2>11. ASSUME NEW k \in AnyKey PROVE Replay(p, committed)[k] = state[k]
    <3>. DEFINE on == Effective(file, offset, committed, k)
    <3>1. OnKey(p, committed, k) = on
      BY <2>4, <2>5, Zenon DEF OnKey, Effective, Read
    <3>2. CASE on = {} /\ state[k] = NoValue
      BY <2>3, <3>1, <3>2, ReplayAbsent, Zenon
    <3>3. ASSUME NEW j \in on, state[k] = file[j].value,
                 \A i \in on : Overrides(file, offset, j, i)
          PROVE  Replay(p, committed)[k] = state[k]
      <4>1. \A t \in committed :
              /\ CommitAt(p, t) \in Read
              /\ IsCommitOf(file, CommitAt(p, t), t)
        <5>1. ASSUME NEW t \in committed
              PROVE  CommitAt(p, t) \in Read /\ p[CommitAt(p, t)].kind = "Commit"
                     /\ p[CommitAt(p, t)].tx_id = t
          BY <2>3, <2>8, CommitAtProperties, Zenon DEF Read
        <5>. QED
          BY <2>5, <5>1, Zenon DEF IsCommitOf
      <4>2. ASSUME NEW t \in committed, NEW c \in Read, IsCommitOf(file, c, t)
            PROVE  c = CommitAt(p, t)
        <5>1. \A x, y \in Read : x < y => ~IsCommitOf(file, x, file[y].tx_id)
          BY <1>1, Zenon DEF ScanInv, PrefixIsSound
        <5>2. CommitAt(p, t) \in Read /\ IsCommitOf(file, CommitAt(p, t), t)
          BY <4>1, Zenon
        <5>. HIDE DEF p
        <5>. QED
          BY <2>5, <4>2, <5>1, <5>2 DEF IsCommitOf
      <4>3. ASSUME NEW i \in on PROVE AppliedNoLater(p, i, j)
        <5>1. i \in Read /\ j \in Read /\ file[i].tx_id \in committed /\ file[j].tx_id \in committed
          BY Zenon DEF Effective, Read
        <5>2. Overrides(file, offset, j, i)
          BY <3>3, Zenon
        <5>3. CASE file[i].tx_id = file[j].tx_id /\ i <= j
          BY <2>5, <5>1, <5>3, Zenon DEF AppliedNoLater
        <5>4. ASSUME NEW c \in Read, NEW d \in Read, IsCommitOf(file, c, file[i].tx_id),
                     IsCommitOf(file, d, file[j].tx_id), c < d
              PROVE  AppliedNoLater(p, i, j)
          BY <2>5, <4>2, <5>1, <5>4, Zenon DEF AppliedNoLater
        <5>. QED
          BY <5>2, <5>3, <5>4, Zenon DEF Overrides, Read
      <4>4. j \in Read
        BY Zenon DEF Effective, Read
      <4>. QED
        <5>. HIDE DEF on
        <5>1. Replay(p, committed)[k] = p[j].value
          BY <2>3, <2>8, <3>1, <4>3, ReplayDecided, SMTT(30)
        <5>. QED
          BY <2>5, <3>3, <4>4, <5>1, Zenon
    <3>. QED
      BY <1>1, <3>2, <3>3, Zenon DEF ScanInv, Decides
  <2>12. Replay(p, Committed(p)) = state
    <3>1. state = [k \in AnyKey |-> state[k]]
      BY <1>1, Zenon DEF ScanInv, ScanOK
    <3>. QED
      BY <2>8, <2>11, <3>1, ReplayEqual
  <2>. QED
    BY <2>2, <2>6, <2>7, <2>9, <2>10, <2>12, Zenon DEF PrefixOk, Recovered, p
<1>2. ASSUME ScanInv, result = "error"
      PROVE  ~RecoverOk(file)
  <2>. DEFINE n == offset + 1
              p == ValidPrefix(file)
  <2>1. /\ file \in Seq(Record) /\ offset \in Nat /\ n \in 1 .. Len(file)
        /\ \A i \in 1 .. offset : file[i].kind # "Torn"
    <3>1. file \in Seq(Record) /\ offset \in 0 .. Len(file)
      BY <1>2, Zenon DEF ScanInv, ScanOK, FileOK
    <3>2. offset < Len(file)
      BY <1>2, Zenon DEF ScanInv, ResultIsDue
    <3>3. \A i \in 1 .. offset : file[i].kind # "Torn"
      BY <1>2, Zenon DEF ScanInv, PrefixIsSound, Read
    <3>. QED
      BY <3>1, <3>2, <3>3
  <2>2. CASE file[n].kind = "Torn" /\ n < Len(file)
    <3>1. Intact(file) = offset
      BY <2>1, <2>2, IntactUnique
    <3>. QED
      BY <2>2, <3>1, Zenon DEF RecoverOk, TornInside
  <2>3. CASE file[n].kind # "Torn"
    <3>1. n <= Intact(file)
      BY <2>1, <2>3, IntactProperties
    <3>2. /\ p \in Seq(Record) /\ DOMAIN p = 1 .. Intact(file) /\ Intact(file) \in Nat
          /\ \A i \in 1 .. Intact(file) : p[i] = file[i]
      BY <2>1, ValidPrefixProperties, IntactProperties
    <3>. HIDE DEF p
    <3>3. CASE offset # 0 /\ file[n].sequence <= file[offset].sequence
      <4>1. n \in DOMAIN p /\ n > 1 /\ p[n].sequence <= p[n - 1].sequence
        BY <2>1, <3>1, <3>2, <3>3
      <4>. QED
        BY <4>1, Zenon DEF RecoverOk, PrefixOk, NonMonotonicSequence, p
    <3>4. CASE \E i \in Read : IsCommitOf(file, i, file[n].tx_id)
      <4>1. PICK i \in 1 .. offset : IsCommitOf(file, i, file[n].tx_id)
        BY <3>4, Zenon DEF Read
      <4>2. i \in DOMAIN p /\ n \in DOMAIN p /\ i < n /\ p[i] = file[i] /\ p[n] = file[n]
        BY <2>1, <3>1, <3>2
      <4>3. RecordAfterCommit(p)
        BY <4>1, <4>2, Zenon DEF RecordAfterCommit, IsCommitOf
      <4>. QED
        BY <4>3, Zenon DEF RecoverOk, PrefixOk, p
    <3>. QED
      BY <1>2, <2>3, <3>3, <3>4, Zenon DEF ScanInv, ResultIsDue
  <2>. QED
    BY <1>2, <2>2, <2>3, Zenon DEF ScanInv, ResultIsDue
<1>3. ScanInv => ScanIsRight
  BY <1>1, <1>2, Zenon DEF ScanIsRight, ScanComputesRecovered, ScanFailsForAReason
<1>. QED
  BY <1>3, ScanInit, ScanNext, PTL DEF ScanSpec

=============================================================================
