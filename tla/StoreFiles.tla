----------------------------- MODULE StoreFiles ------------------------------
(***************************************************************************)
(* The files of a store: the active one, compact generations of it         *)
(* (generation.rs), their activation and its recovery (activation.rs),     *)
(* copies (checkpoint.rs, restore.rs, compaction.rs, snapshot.rs) and the  *)
(* header that Store::open writes into a new file (engine.rs, header.rs).  *)
(*                                                                         *)
(* A directory gives names to files. Renaming, creating and removing       *)
(* change it at once; a loss of power keeps the changes up to the last     *)
(* sync of the directory and some of those after it, in their order. A     *)
(* file is known by its identity, its highest transaction, and the commits *)
(* it holds. What is committed is synced (Strict durability).              *)
(*                                                                         *)
(* Activation is an offline operation: no Store is open on the active path *)
(* while it or its recovery runs.                                          *)
(***************************************************************************)
EXTENDS Naturals, Sequences, FiniteSets

CONSTANTS
  NoFile,     \* a name without a file; a Store that is not open
  NoTask,     \* no operation on files is in progress
  MaxFiles,   \* bound: generations and copies are made up to so many files
  MaxAcked,   \* bound: commits
  MaxFaults   \* bound: failing renames and syncs, crashes and losses of power

ASSUME FilesAssumption == MaxFiles \in Nat \ {0} /\ MaxAcked \in Nat /\ MaxFaults \in Nat

VARIABLES
  files,   \* the files that exist, in the order of their creation
  dir,     \* the directory
  disk,    \* the directories that a loss of power may leave, the last one is dir
  store,   \* the file of the open Store
  task,    \* the operation in progress and where it is
  acked,   \* history: commits that were acknowledged
  copied,  \* history: copies that were reported, with what they were to hold, until
           \* they are discarded or power is lost before the directory is synced
  loose,   \* history: was the active name given to a file and not synced,
           \* and has power been lost since
  stray,   \* history: a Store was opened where its file had been moved away
  faults   \* failures so far

fileVars == <<files, dir, disk, store, task, acked, copied, loose, stray, faults>>

Path == {"active", "generation", "backup", "copy"}

(* form: "full", or what a crash while its header is written leaves.       *)
File(id, last, holds, form) == [id |-> id, last |-> last, holds |-> holds, form |-> form]

Empty == File(0, 0, {}, "empty")

InitFiles ==
  /\ \/ /\ files = <<>>
        /\ dir = [p \in Path |-> NoFile]
     \/ /\ files = <<File(1, 0, {}, "full")>>
        /\ dir = [p \in Path |-> IF p = "active" THEN 1 ELSE NoFile]
  /\ disk = <<dir>>
  /\ store = NoFile
  /\ task = NoTask
  /\ acked = {}
  /\ copied = {}
  /\ loose = "no"
  /\ stray = FALSE
  /\ faults = 0

Exists(p) == dir[p] # NoFile

FileAt(d, p) == files[d[p]]

(* Store::verify                                                           *)
Verifies(p) == Exists(p) /\ FileAt(dir, p).form = "full"

-----------------------------------------------------------------------------
(* Parts of steps.                                                         *)

ChangeDir(d) == dir' = d /\ disk' = Append(disk, d)

Rename(from, to) == ChangeDir([dir EXCEPT ![to] = dir[from], ![from] = NoFile])

Create(p, file) ==
  /\ files' = Append(files, file)
  /\ ChangeDir([dir EXCEPT ![p] = Len(files) + 1])

RemoveFile(p) == ChangeDir([dir EXCEPT ![p] = NoFile])

SyncDir ==
  /\ disk' = <<dir>>
  /\ loose' = IF loose = "unsynced" THEN "no" ELSE loose
  /\ UNCHANGED dir

Loosen == loose' = IF loose = "no" THEN "unsynced" ELSE loose

Fault == faults < MaxFaults /\ faults' = faults + 1

Goto(pc) == task' = [task EXCEPT !.pc = pc]

Done == task' = NoTask

At(op, pc) == task # NoTask /\ task.op = op /\ task.pc = pc

Start(op, pc) == task = NoTask /\ task' = [op |-> op, pc |-> pc]

-----------------------------------------------------------------------------
(* The Store on the active file.                                           *)

OpenStore ==
  /\ store = NoFile /\ task = NoTask
  /\ Verifies("active")
  /\ store' = dir["active"]
  /\ UNCHANGED <<files, dir, disk, task, acked, copied, loose, stray, faults>>

(* OpenOptions::create: without a file a new one is made.                  *)
OpenNew ==
  /\ store = NoFile
  /\ ~Exists("active")
  /\ Start("open", "header")
  /\ Create("active", Empty)
  /\ Loosen
  /\ stray' = (stray \/ Exists("backup"))
  /\ UNCHANGED <<store, acked, copied, faults>>

(* A file of length zero gets its header now.                              *)
OpenEmpty ==
  /\ store = NoFile
  /\ Exists("active") /\ FileAt(dir, "active").form = "empty"
  /\ Start("open", "header")
  /\ UNCHANGED <<files, dir, disk, store, acked, copied, loose, stray, faults>>

WriteHeader ==
  /\ At("open", "header")
  /\ files' = [files EXCEPT ![dir["active"]] = File(dir["active"], 0, {}, "full")]
  /\ store' = dir["active"]
  /\ Done
  /\ UNCHANGED <<dir, disk, acked, copied, loose, stray, faults>>

CommitStore ==
  /\ store # NoFile /\ task = NoTask
  /\ Cardinality(acked) < MaxAcked
  /\ LET n == Cardinality(acked) + 1
     IN  /\ acked' = acked \cup {n}
         /\ files' = [files EXCEPT ![store].last = @ + 1, ![store].holds = @ \cup {n}]
  /\ UNCHANGED <<dir, disk, store, task, copied, loose, stray, faults>>

CloseStore ==
  /\ store # NoFile /\ task = NoTask
  /\ store' = NoFile
  /\ UNCHANGED <<files, dir, disk, task, acked, copied, loose, stray, faults>>

-----------------------------------------------------------------------------
(* compact_generation_to: the name is reserved, a new store with what is   *)
(* visible is written there, then the identity of the source is written    *)
(* over its own and the marker behind it. (The temporary image of the      *)
(* source has a random name.)                                              *)

ReserveOverExisting ==
  /\ store # NoFile
  /\ Len(files) < MaxFiles
  /\ Start("compact", "build")
  /\ Create("generation", Empty)
  /\ UNCHANGED <<store, acked, copied, loose, stray, faults>>

ReserveGeneration ==
  /\ store # NoFile
  /\ ~Exists("generation")
  /\ Len(files) < MaxFiles
  /\ Start("compact", "build")
  /\ Create("generation", Empty)
  /\ UNCHANGED <<store, acked, copied, loose, stray, faults>>

Rewritten(id, source) ==
  File(id, IF source.holds = {} THEN 0 ELSE 1, source.holds, "full")

BuildGeneration ==
  /\ At("compact", "build")
  /\ files' = [files EXCEPT ![dir["generation"]] = Rewritten(dir["generation"], files[store])]
  /\ Goto("mark")
  /\ UNCHANGED <<dir, disk, store, acked, copied, loose, stray, faults>>

Marked(source) == File(source.id, source.last + 1, source.holds, "full")

MarkGeneration ==
  /\ At("compact", "mark")
  /\ files' = [files EXCEPT ![dir["generation"]] = Marked(files[store])]
  /\ Done
  /\ UNCHANGED <<dir, disk, store, acked, copied, loose, stray, faults>>

-----------------------------------------------------------------------------
(* activate_generation_offline                                             *)

IgnoresMarker(active, generation) == active.id = generation.id

(* The same store, and nothing was written to it since the marker was      *)
(* made. A generation whose marker is missing ends with the commit of its  *)
(* only transaction.                                                       *)
Current(active, generation) ==
  /\ active.id = generation.id
  /\ generation.last = active.last + 1

StartActivation ==
  /\ store = NoFile
  /\ ~Exists("backup")
  /\ Verifies("active") /\ Verifies("generation")
  /\ Current(FileAt(dir, "active"), FileAt(dir, "generation"))
  /\ Start("activate", "retire")
  /\ UNCHANGED <<files, dir, disk, store, acked, copied, loose, stray, faults>>

Step == UNCHANGED <<files, store, acked, copied, stray>>

RetireActive ==
  /\ At("activate", "retire")
  /\ \/ Rename("active", "backup") /\ Goto("sync retired") /\ UNCHANGED <<loose, faults>>
     \/ Fault /\ Done /\ UNCHANGED <<dir, disk, loose>>
  /\ Step

SyncRetired ==
  /\ At("activate", "sync retired")
  /\ \/ SyncDir /\ Goto("install") /\ UNCHANGED faults
     \/ Fault /\ Goto("undo") /\ UNCHANGED <<dir, disk, loose>>
  /\ Step

InstallGeneration ==
  /\ At("activate", "install")
  /\ \/ Rename("generation", "active") /\ Goto("sync installed") /\ UNCHANGED <<loose, faults>>
     \/ Fault /\ Goto("undo") /\ UNCHANGED <<dir, disk, loose>>
  /\ Step

(* The first rename is undone; the directory is not synced.                *)
UndoRetire ==
  /\ At("activate", "undo")
  /\ \/ Rename("backup", "active") /\ Loosen /\ UNCHANGED faults
     \/ Fault /\ UNCHANGED <<dir, disk, loose>>
  /\ Done
  /\ Step

SyncInstalled ==
  /\ At("activate", "sync installed")
  /\ \/ SyncDir /\ Goto("verify") /\ UNCHANGED faults
     \/ Fault /\ Goto("withdraw") /\ UNCHANGED <<dir, disk, loose>>
  /\ Step

(* verify_activated; reading the files may fail.                           *)
VerifyActivated ==
  /\ At("activate", "verify")
  /\ \/ Verifies("active") /\ Verifies("backup") /\ Done /\ UNCHANGED faults
     \/ Fault /\ Goto("withdraw")
  /\ UNCHANGED <<dir, disk, loose>>
  /\ Step

(* rollback_activation                                                     *)
WithdrawGeneration ==
  /\ At("activate", "withdraw")
  /\ \/ ~Exists("generation") /\ Rename("active", "generation") /\ Goto("restore")
        /\ UNCHANGED faults
     \/ Fault /\ Done /\ UNCHANGED <<dir, disk>>
  /\ UNCHANGED loose
  /\ Step

RestoreBackup ==
  /\ At("activate", "restore")
  /\ \/ Rename("backup", "active") /\ Loosen /\ Goto("sync restored") /\ UNCHANGED faults
     \/ Fault /\ Done /\ UNCHANGED <<dir, disk, loose>>
  /\ Step

SyncRestored ==
  /\ At("activate", "sync restored")
  /\ \/ SyncDir /\ UNCHANGED faults
     \/ Fault /\ UNCHANGED <<dir, disk, loose>>
  /\ Done
  /\ Step

-----------------------------------------------------------------------------
(* recover_generation_activation. With the active file in place nothing is *)
(* changed.                                                                *)

(* The file that takes the active name: the generation if both others are  *)
(* there and have one identity, the backup if it is alone.                 *)
CompletesOnly ==
  {p \in {"generation"} :
     /\ Verifies(p) /\ Verifies("backup")
     /\ FileAt(dir, p).id = FileAt(dir, "backup").id}

Successor ==
  IF Exists("generation")
  THEN {p \in {"generation"} :
          /\ Verifies(p) /\ Verifies("backup")
          /\ FileAt(dir, p).id = FileAt(dir, "backup").id}
  ELSE {p \in {"backup"} : Exists(p)}

RecoverActivation ==
  /\ store = NoFile /\ task = NoTask
  /\ ~Exists("active")
  /\ \E p \in Successor :
       \/ Rename(p, "active") /\ Loosen /\ task' = [op |-> "recover", pc |-> "sync"]
          /\ UNCHANGED faults
       \/ Fault /\ UNCHANGED <<dir, disk, loose, task>>
  /\ Step

SyncRecovered ==
  /\ At("recover", "sync")
  /\ \/ SyncDir /\ UNCHANGED faults
     \/ Fault /\ UNCHANGED <<dir, disk, loose>>
  /\ Done
  /\ Step

-----------------------------------------------------------------------------
(* Copies. A checkpoint is made of the open Store, a restored file of a    *)
(* closed one; both are the same bytes. A compact copy, and the snapshot   *)
(* that is one, is a new store. The name must be free. The copy is synced  *)
(* and verified before it is reported; its entry in the directory is not.  *)

StartCopyOverExisting(of, owes, removes) ==
  /\ Len(files) < MaxFiles
  /\ task = NoTask
  /\ task' = [op |-> "copy", pc |-> "write", of |-> of, owes |-> owes, removes |-> removes]
  /\ Create("copy", Empty)
  /\ UNCHANGED <<store, acked, copied, loose, stray, faults>>

(* owes: what callers have been promised by then.                          *)
StartCopy(of, owes, removes) ==
  /\ ~Exists("copy")
  /\ Len(files) < MaxFiles
  /\ task = NoTask
  /\ task' = [op |-> "copy", pc |-> "write", of |-> of, owes |-> owes, removes |-> removes]
  /\ Create("copy", Empty)
  /\ UNCHANGED <<store, acked, copied, loose, stray, faults>>

CheckpointTo ==
  /\ store # NoFile
  /\ StartCopy(files[store], acked, TRUE)

RestoreCopy(p) ==
  /\ store = NoFile
  /\ Verifies(p)
  /\ StartCopy(FileAt(dir, p), FileAt(dir, p).holds, TRUE)

CompactCopyTo ==
  /\ store # NoFile
  /\ StartCopy(Rewritten(Len(files) + 1, files[store]), acked, FALSE)

WriteCopy ==
  /\ At("copy", "write")
  /\ files' = [files EXCEPT ![dir["copy"]] = task.of]
  /\ Goto("sync")
  /\ UNCHANGED <<dir, disk, store, acked, copied, loose, stray, faults>>

SyncCopy ==
  /\ At("copy", "sync")
  /\ copied' = copied \cup {[file |-> dir["copy"], owes |-> task.owes]}
  /\ Done
  /\ UNCHANGED <<files, dir, disk, store, acked, loose, stray, faults>>

-----------------------------------------------------------------------------
(* What an operator does by hand, and makes durable: discards a copy, a    *)
(* generation that was never active, the backup once an activation is      *)
(* complete, and a file that open refuses because its header is cut short. *)
Discard(p) ==
  /\ task = NoTask
  /\ Exists(p)
  /\ \/ p = "copy"
     \/ /\ p = "generation"
        /\ Exists("active") \/ (Exists("backup") /\ Current(FileAt(dir, "backup"), FileAt(dir, p)))
     \/ p = "backup" /\ Exists("active") /\ ~Exists("generation")
     \/ p = "active" /\ FileAt(dir, p).form = "partial"
  /\ dir' = [dir EXCEPT ![p] = NoFile]
  /\ disk' = <<dir'>>
  /\ loose' = IF loose = "unsynced" THEN "no" ELSE loose
  /\ copied' = {c \in copied : p # "copy" \/ c.file # dir[p]}
  /\ UNCHANGED <<files, store, task, acked, stray, faults>>

-----------------------------------------------------------------------------
(* Failures. What an interrupted operation leaves of the file it writes:   *)
(* a header or a copy may be cut short, the new identity and the marker of *)
(* a generation may be there or not.                                       *)

CutShort(file) == {Empty, [Empty EXCEPT !.form = "partial"], [file EXCEPT !.last = 0, !.holds = {}]}

Target ==
  CASE task = NoTask -> NoFile
    [] task.op = "open" -> dir["active"]
    [] task.op = "compact" -> dir["generation"]
    [] task.op = "copy" -> dir["copy"]
    [] OTHER -> NoFile

Leftover ==
  CASE At("open", "header") -> CutShort(File(Target, 0, {}, "full"))
    [] At("compact", "build") -> CutShort(Rewritten(Target, files[store]))
    [] At("compact", "mark") ->
         {[files[Target] EXCEPT !.id = i, !.last = n] :
            i \in {Target, files[store].id}, n \in {files[Target].last, files[store].last + 1}}
    [] OTHER -> CutShort(task.of) \cup {task.of}

LeaveTarget ==
  IF Target = NoFile THEN UNCHANGED files
  ELSE \E file \in Leftover : files' = [files EXCEPT ![Target] = file]

(* An error removes the file. (Its removal may fail, too. A compact copy   *)
(* is removed only when its verification finds a difference.)              *)
FailWriting(op, p) ==
  /\ task # NoTask /\ task.op = op
  /\ Fault
  /\ LeaveTarget
  /\ \/ (op = "copy" => task.removes) /\ RemoveFile(p)
     \/ UNCHANGED <<dir, disk>>
  /\ Done
  /\ UNCHANGED <<store, acked, copied, loose, stray>>

Crash ==
  /\ Fault
  /\ LeaveTarget
  /\ store' = NoFile
  /\ Done
  /\ UNCHANGED <<dir, disk, acked, copied, loose, stray>>

PowerLoss ==
  /\ Fault
  /\ LeaveTarget
  /\ \E i \in DOMAIN disk : dir' = disk[i] /\ disk' = <<disk[i]>>
  /\ copied' = {c \in copied : \A i \in DOMAIN disk : disk[i]["copy"] = c.file}
  /\ store' = NoFile
  /\ loose' = IF loose = "unsynced" THEN "lost" ELSE loose
  /\ Done
  /\ UNCHANGED <<acked, stray>>

TaskSteps ==
  \/ WriteHeader \/ BuildGeneration \/ MarkGeneration
  \/ RetireActive \/ SyncRetired \/ InstallGeneration \/ UndoRetire
  \/ SyncInstalled \/ VerifyActivated \/ WithdrawGeneration \/ RestoreBackup \/ SyncRestored
  \/ SyncRecovered
  \/ WriteCopy \/ SyncCopy
  \/ FailWriting("compact", "generation") \/ FailWriting("copy", "copy")

FileSteps ==
  \/ OpenStore \/ OpenNew \/ OpenEmpty \/ CommitStore \/ CloseStore
  \/ ReserveGeneration \/ StartActivation \/ RecoverActivation
  \/ CheckpointTo \/ RestoreCopy("active") \/ RestoreCopy("backup") \/ CompactCopyTo
  \/ \E p \in Path : Discard(p)
  \/ TaskSteps
  \/ Crash \/ PowerLoss

(* Operations run to their end, and an activation that was interrupted is  *)
(* recovered sooner or later.                                              *)
FileFairness == WF_fileVars(TaskSteps) /\ WF_fileVars(RecoverActivation)

-----------------------------------------------------------------------------
(* Properties.                                                             *)

(* The file with the active name, or the one recovery would give it to.    *)
Serving(d) ==
  IF d["active"] # NoFile THEN d["active"]
  ELSE IF d["generation"] # NoFile /\ d["backup"] # NoFile THEN d["generation"]
  ELSE d["backup"]

ServesAll(d) ==
  acked # {} => /\ Serving(d) # NoFile
                /\ files[Serving(d)].form = "full"
                /\ acked \subseteq files[Serving(d)].holds

(* Whatever directory a loss of power leaves, the active file, or the one  *)
(* that recover_generation_activation makes active, holds every commit     *)
(* that was acknowledged: generations are complete, and a stale one is     *)
(* never made active. (activate_generation_offline,                        *)
(* recover_generation_activation)                                          *)
EveryLayoutServesAll == stray \/ \A i \in DOMAIN disk : ServesAll(disk[i])

(* The same, except that a name given to the active file and not synced    *)
(* since may be lost with the power: when Store::open creates the file,    *)
(* when activate_generation_offline undoes its first rename, and when the  *)
(* sync of a recovery failed and its caller goes on.                       *)
NothingIsLost ==
  \/ stray \/ loose = "lost"
  \/ ServesAll(dir) /\ (loose = "no" => \A i \in DOMAIN disk : ServesAll(disk[i]))

(* No operation replaces a file: a name that has one keeps it or loses it  *)
(* before it is given to another. (create_new, BackupExists, the check in  *)
(* rollback_activation; "It never overwrites an existing file.")           *)
NoFileIsReplaced ==
  [][PowerLoss \/ \A p \in Path : dir[p] # NoFile => dir'[p] \in {dir[p], NoFile}]_fileVars

(* A copy that was reported is found under its name, complete and with     *)
(* what callers had been promised by then, through failures, crashes and   *)
(* everything that is done to the other files, until it is discarded. Its  *)
(* contents are synced, its directory entry is not: a loss of power may    *)
(* take the name away, or give it back to an earlier copy that failed and  *)
(* was removed, unless the directory was synced in between; then the name  *)
(* holds, too. (checkpoint_to, restore_copy and compact_copy_to take only  *)
(* a free name, and sync and verify the copy before they report it)        *)
ReportedCopiesHold ==
  \A c \in copied :
    /\ dir["copy"] = c.file
    /\ files[c.file].form = "full"
    /\ stray \/ loose = "lost" \/ c.owes \subseteq files[c.file].holds

(* A store whose active file is missing gets it back, with all that was    *)
(* acknowledged, however often activation, recovery and power fail before. *)
(* (recover_generation_activation knows every layout that an interrupted   *)
(* activation leaves)                                                      *)
ActivationSettles ==
  ~Exists("active") /\ acked # {} ~>
    stray \/ loose = "lost" \/ (Exists("active") /\ acked \subseteq FileAt(dir, "active").holds)

=============================================================================
