------------------------------- MODULE MCHost --------------------------------
(***************************************************************************)
(* The parts around the engine, which share no state: the files of a       *)
(* store, the scan of one, the locks, the namespace quota, the bindings,   *)
(* migrations, backups and the calendar. A behaviour explores one of them  *)
(* (focus), while the others stay as they begin; the files of a store      *)
(* without copies, or with copies and fewer failures.                      *)
(***************************************************************************)
EXTENDS StoreFiles, RecoverScan, WriterLock, NamespaceQuota, Bindings, Migrations,
        Backups, Calendar

CONSTANTS a, b, c  \* keys of the quota, the last of another namespace

VARIABLE focus

hostVars == <<fileVars, scanVars, lockVars, quotaVars, bindingVars, migrationVars,
              backupVars, calendarVars>>

Namespace == [k \in QuotaKey |-> IF k = c THEN "internal:cdc" ELSE "user"]

(* 29 February; odd days from the 29th, or Mondays, in three months;       *)
(* Sundays in February and from October on.                                *)
Expressions ==
  {[day_of_month |-> Field({Single(29)}, FALSE), month |-> Field({Single(2)}, FALSE),
    day_of_week |-> Star(0, 6)],
   [day_of_month |-> Field({Part(29, 31, 2)}, FALSE), month |-> Field({Part(2, 12, 5)}, FALSE),
    day_of_week |-> Field({Single(1)}, FALSE)],
   [day_of_month |-> Star(1, 31), month |-> Field({Single(2), Part(10, 12, 1)}, FALSE),
    day_of_week |-> Field({Single(0)}, FALSE)]}

Focus == {"files", "copies", "scan", "locks", "quota", "bindings", "migrations", "backups",
          "calendar"}

FirstDatum == CHOOSE d \in Datum : TRUE

(* Two migrations at a time: none is a dry run, and there is one write.    *)
FewMigrations ==
  (\A m \in Migrator : Running(m)) => writes <= 1 /\ \A m \in Migrator : ~migration[m].dry

(* Parts that are not looked at have the first of their initial states. A  *)
(* collection begins with one datum in some of its records.                *)
MCInit ==
  /\ focus \in Focus
  /\ InitFiles /\ (focus \notin {"files", "copies"} => files = <<>>)
  /\ InitScan /\ (focus # "scan" => file = <<>>)
  /\ InitLocks
  /\ InitQuota /\ (focus # "quota" => limit = NoQuota)
  /\ InitBindings /\ (focus # "bindings" => binding = "python")
  /\ InitMigrations
  /\ \A k \in PrimaryKey : rows[k] # NoRow => focus = "migrations" /\ rows[k].datum = FirstDatum
  /\ InitBackups
  /\ InitCalendar

Apart(part, steps, others) == focus = part /\ steps /\ UNCHANGED <<focus, others>>

MCNext ==
  \/ Apart("files", FileSteps /\ dir'["copy"] = NoFile,
           <<scanVars, lockVars, quotaVars, bindingVars, migrationVars, backupVars, calendarVars>>)
  \/ Apart("copies", FileSteps /\ faults' < MaxFaults,
           <<scanVars, lockVars, quotaVars, bindingVars, migrationVars, backupVars, calendarVars>>)
  \/ Apart("scan", ScanSteps,
           <<fileVars, lockVars, quotaVars, bindingVars, migrationVars, backupVars, calendarVars>>)
  \/ Apart("locks", LockSteps,
           <<fileVars, scanVars, quotaVars, bindingVars, migrationVars, backupVars, calendarVars>>)
  \/ Apart("quota", QuotaSteps,
           <<fileVars, scanVars, lockVars, bindingVars, migrationVars, backupVars, calendarVars>>)
  \/ Apart("bindings", BindingSteps,
           <<fileVars, scanVars, lockVars, quotaVars, migrationVars, backupVars, calendarVars>>)
  \/ Apart("migrations", MigrateSteps /\ FewMigrations',
           <<fileVars, scanVars, lockVars, quotaVars, bindingVars, backupVars, calendarVars>>)
  \/ Apart("backups", BackupSteps,
           <<fileVars, scanVars, lockVars, quotaVars, bindingVars, migrationVars, calendarVars>>)
  \/ Apart("calendar", NextDay,
           <<fileVars, scanVars, lockVars, quotaVars, bindingVars, migrationVars, backupVars>>)

MCSpec == MCInit /\ [][MCNext]_<<hostVars, focus>> /\ FileFairness

=============================================================================
