------------------------------- MODULE Backup -------------------------------
(***************************************************************************)
(* The nightly dump of the database: a timer starts one script that dumps  *)
(* into the directory of the backups, checks the dump, drops all but the   *)
(* newest, and copies it away (deploy/cpgeeks-backup.sh with its unit and  *)
(* timer).  A run that fails is told by mail; one that is cut short by a   *)
(* stop of the machine is not.                                             *)
(*                                                                         *)
(* A dump is known by the run that made it.                                *)
(***************************************************************************)
EXTENDS Integers, Sequences, SequencesExt, FiniteSetsExt

CONSTANTS
    Keep,     \* KEEP
    MaxRuns   \* bound on the runs

ASSUME BackupAssumption == Keep \in Nat \ {0} /\ MaxRuns \in Nat

VARIABLES
    bucket,    \* is BACKUP_S3_BUCKET set?
    on,        \* does the machine run?
    due,       \* has 02:00 passed without a start of the script?
    runs,      \* runs that were started
    step,      \* of the script; "idle" when it does not run
    files,     \* the dumps in DIR, by the time they were last written to
    remote,    \* what of each run arrived in the bucket
    outcome,   \* history: how each run ended
    verified   \* history: whole dumps that passed the check and were reported

backupVars == <<bucket, on, due, runs, step, files, remote, outcome, verified>>

Runs == 1 .. MaxRuns

\* A whole dump, one that lists no table, one that cannot be listed.
Kinds == {"whole", "empty", "broken"}

BackupInit ==
    /\ bucket \in BOOLEAN
    /\ on = TRUE /\ due = FALSE
    /\ runs = 0 /\ step = "idle"
    /\ files = <<>>
    /\ remote = [r \in Runs |-> "nothing"]
    /\ outcome = [r \in Runs |-> "none"]
    /\ verified = 0

-----------------------------------------------------------------------------
(* Timer and machine.                                                      *)

\* An elapse during a run is lost; one while the machine is off is made up for.
Elapse ==
    /\ ~due /\ step = "idle" /\ runs < MaxRuns
    /\ due' = TRUE
    /\ UNCHANGED <<bucket, on, runs, step, files, remote, outcome, verified>>

Start ==
    /\ on /\ due
    /\ due' = FALSE
    /\ runs' = runs + 1
    /\ step' = "dumping"
    /\ outcome' = [outcome EXCEPT ![runs'] = "running"]
    /\ UNCHANGED <<bucket, on, files, remote, verified>>

Boot ==
    /\ ~on
    /\ on' = TRUE
    /\ UNCHANGED <<bucket, due, runs, step, files, remote, outcome, verified>>

\* What a dump that did not end may leave behind.
Remains == {files, Append(files, [run |-> runs, kind |-> "broken"])}

\* The timer has fired: a run that is cut short is not made up for.
Stop ==
    /\ on
    /\ on' = FALSE /\ step' = "idle"
    /\ IF step = "dumping" THEN files' \in Remains ELSE UNCHANGED files
    /\ outcome' = IF step = "idle" THEN outcome ELSE [outcome EXCEPT ![runs] = "stopped"]
    /\ UNCHANGED <<bucket, due, runs, remote, verified>>

-----------------------------------------------------------------------------
(* The script.                                                             *)

End(result) ==
    /\ step' = "idle"
    /\ outcome' = [outcome EXCEPT ![runs] = result]

DumpEnds ==
    /\ step = "dumping"
    /\ \E kind \in Kinds : files' = Append(files, [run |-> runs, kind |-> kind])
    /\ step' = "verifying"
    /\ UNCHANGED <<bucket, on, due, runs, remote, outcome, verified>>

\* set -e: what was written stays where it is.
DumpFails ==
    /\ step = "dumping"
    /\ files' \in Remains
    /\ End("failed")
    /\ UNCHANGED <<bucket, on, due, runs, remote, verified>>

\* A dump without a list goes; one without a table fails the count of grep and stays.
Verify ==
    /\ step = "verifying"
    /\ CASE Last(files).kind = "broken" ->
                End("failed") /\ files' = Front(files) /\ UNCHANGED verified
         [] Last(files).kind = "empty" ->
                End("failed") /\ UNCHANGED <<files, verified>>
         [] OTHER ->
                step' = "rotating" /\ verified' = verified + 1 /\ UNCHANGED <<files, outcome>>
    /\ UNCHANGED <<bucket, on, due, runs, remote>>

\* Faulty variant: tail -n +KEEP keeps one less.
NewestButOne == IF Len(files) < Keep THEN files
                ELSE SubSeq(files, Len(files) - Keep + 2, Len(files))

\* The newest, whatever is in them.
Newest == IF Len(files) <= Keep THEN files
          ELSE SubSeq(files, Len(files) - Keep + 1, Len(files))

Rotate ==
    /\ step = "rotating"
    /\ files' = Newest
    /\ IF bucket THEN step' = "copying" /\ UNCHANGED outcome ELSE End("ok")
    /\ UNCHANGED <<bucket, on, due, runs, remote, verified>>

\* The command may succeed and have sent less than there is.
Copy ==
    /\ step = "copying"
    /\ \E arrived \in {"whole", "part"} : remote' = [remote EXCEPT ![runs] = arrived]
    /\ step' = "comparing"
    /\ UNCHANGED <<bucket, on, due, runs, files, outcome, verified>>

\* No aws command, or one that fails.
CopyFails ==
    /\ step = "copying"
    /\ End("failed")
    /\ UNCHANGED <<bucket, on, due, runs, files, remote, verified>>

\* Faulty variant: an object that is there is taken for the copy.
Exists == remote[runs] # "nothing"

\* REMOTE_BYTES = BYTES
SameSize == remote[runs] = "whole"

Compare ==
    /\ step = "comparing"
    /\ \/ End(IF SameSize THEN "ok" ELSE "failed")
       \/ End("failed")  \* head-object did not answer
    /\ UNCHANGED <<bucket, on, due, runs, files, remote, verified>>

BackupNext ==
    \/ Elapse \/ Start \/ Boot \/ Stop
    \/ DumpEnds \/ DumpFails \/ Verify \/ Rotate
    \/ Copy \/ CopyFails \/ Compare

BackupSpec == BackupInit /\ [][BackupNext]_backupVars

-----------------------------------------------------------------------------
(* Properties.                                                             *)

Whole == {i \in DOMAIN files : files[i].kind = "whole"}
Leftovers == DOMAIN files \ Whole

\* Of the newest dumps that are kept, a failed or interrupted run costs one, its
\* leftover, which the rotation counts among them: never more, whatever comes before or
\* after it (cpgeeks-backup.sh:63-64, docs/backups.md: the dump keeps 14 local copies).
FailuresCostOneEach ==
    Cardinality(Whole) >= Min({verified, Keep - Cardinality(Leftovers)})

\* Success means a backup: a run that ended without a failure, and so without its unit
\* calling for a mail, has its whole dump in the bucket, if there is one, and in the
\* directory until as many newer files are there as are kept (cpgeeks-backup.sh:68-70,
\* "a silently missing offsite copy is the whole problem this section exists to prevent").
SilenceIsSuccess ==
    \A r \in Runs : outcome[r] = "ok" =>
        /\ bucket => remote[r] = "whole"
        /\ \/ \E i \in Whole : files[i].run = r
           \/ Cardinality({i \in DOMAIN files : files[i].run > r}) >= Keep

-----------------------------------------------------------------------------
(* The inductive invariant of the proofs.                                  *)

BackupTypes ==
    /\ bucket \in BOOLEAN /\ on \in BOOLEAN /\ due \in BOOLEAN
    /\ runs \in 0 .. MaxRuns
    /\ step \in {"idle", "dumping", "verifying", "rotating", "copying", "comparing"}
    /\ files \in Seq([run : Runs, kind : Kinds])
    /\ remote \in [Runs -> {"nothing", "part", "whole"}]
    /\ outcome \in [Runs -> {"none", "running", "ok", "failed", "stopped"}]
    /\ verified \in Nat

\* One dump of each run, by age.
DumpsInOrder ==
    /\ \A i, j \in DOMAIN files : i < j => files[i].run < files[j].run
    /\ \A i \in DOMAIN files : files[i].run <= runs
    /\ step = "dumping" => \A i \in DOMAIN files : files[i].run < runs
    /\ step \in {"verifying", "rotating", "copying", "comparing"} =>
           files # <<>> /\ Last(files).run = runs

\* One run at a time; the timer counts an elapse during one as done.
OneRunAtATime ==
    /\ step # "idle" => due = FALSE /\ runs > 0 /\ outcome[runs] = "running"
    /\ due = TRUE => runs < MaxRuns
    /\ \A r \in Runs : r > runs => outcome[r] = "none"

\* A dump that is not verified yet may go again: it does not count.
Settled == IF step = "verifying" THEN Len(files) - 1 ELSE Len(files)

\* The dump of a run is there, or the newest, as many as are kept, are newer.
Held(r) ==
    \/ \E i \in 1 .. Settled : files[i] = [run |-> r, kind |-> "whole"]
    \/ Keep <= Settled /\ \A i \in (Settled - Keep + 1) .. Settled : files[i].run > r

SuccessesAreHeld ==
    \A r \in Runs :
        /\ outcome[r] = "ok" => Held(r) /\ (bucket => remote[r] = "whole")
        /\ r = runs /\ step \in {"rotating", "copying", "comparing"} => Held(r)

\* FailuresCostOneEach, with the dump that is not verified yet on neither side of it.
DumpsAreCounted ==
    \/ Settled >= Keep
    \/ Cardinality(Whole) >=
           verified + (IF step = "verifying" /\ Last(files).kind = "whole" THEN 1 ELSE 0)

BackupInv ==
    /\ BackupTypes /\ DumpsInOrder /\ OneRunAtATime
    /\ SuccessesAreHeld /\ DumpsAreCounted

=============================================================================
