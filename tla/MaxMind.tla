------------------------------ MODULE MaxMind ------------------------------
(***************************************************************************)
(* The country database of internal/maxmind: loading it from disk,         *)
(* downloading it, the daily update and the lookups that run meanwhile.    *)
(* A database is the version (1, 2, ...) the vendor published it as.       *)
(***************************************************************************)
EXTENDS Integers

CONSTANTS MaxVersion,     \* bound: versions the vendor publishes
          MaxCrashes      \* bound: restarts of the process

None == 0                 \* no file, a nil reader, the zero time
Invalid == 0 - 1          \* a file that is not a database

VARIABLES
  remote,     \* the version the vendor serves, its Last-Modified
  dbFile,     \* [db, mtime]: the file at dbPath
  tmpFile,    \* the file at dbPath with the suffix -tmp
  reader,     \* db.Reader: the version it has open
  readerClosed, \* db.Reader has been closed and is still referred to
  lastUpdate, \* cfg.lastUpdate
  mm,         \* [at, got, dated, scheduled]: where LoadMaxMindDB / scheduleUpdate is
  mmPanic,    \* a nil pointer was used
  crashes

mmVars == <<remote, dbFile, tmpFile, reader, readerClosed, lastUpdate, mm, mmPanic, crashes>>

Loading == [at |-> "load", got |-> None, dated |-> FALSE, scheduled |-> FALSE]

MMInit ==
  /\ remote = 1
  /\ dbFile \in {[db |-> None, mtime |-> None], [db |-> Invalid, mtime |-> None], [db |-> 1, mtime |-> 1]}
  /\ tmpFile = None /\ reader = None /\ readerClosed = FALSE /\ lastUpdate = None
  /\ mm = Loading /\ mmPanic = FALSE /\ crashes = 0

\* The vendor publishes the next version.
Publish ==
  /\ remote < MaxVersion /\ remote' = remote + 1
  /\ UNCHANGED <<dbFile, tmpFile, reader, readerClosed, lastUpdate, mm, mmPanic, crashes>>

\* A valid file is opened and its updates are scheduled; a missing or an invalid
\* one is downloaded, and updates are then not scheduled; one that cannot be read
\* is an error.
LoadMaxMindDB ==
  /\ mm.at = "load"
  /\ \/ /\ dbFile.db > 0 /\ reader' = dbFile.db /\ lastUpdate' = dbFile.mtime
        /\ mm' = [mm EXCEPT !.at = "check", !.scheduled = TRUE]
     \/ dbFile.db <= 0 /\ mm' = [mm EXCEPT !.at = "download"] /\ UNCHANGED <<reader, lastUpdate>>
     \/ dbFile.db # None /\ mm' = [mm EXCEPT !.at = "failed"] /\ UNCHANGED <<reader, lastUpdate>>
  /\ UNCHANGED <<remote, dbFile, tmpFile, readerClosed, mmPanic, crashes>>

\* Where an update, or the download of LoadMaxMindDB, leaves off.
Rest == [mm EXCEPT !.at = IF mm.scheduled THEN "idle" ELSE IF reader = None THEN "failed" ELSE "loaded",
                   !.got = None, !.dated = FALSE]

\* checkLastest in update: the request fails, or its answer has no date (a nil
\* time is compared), or names the version served.
CheckLastest ==
  /\ mm.at = "check"
  /\ \/ mm' = Rest /\ UNCHANGED mmPanic
     \/ mmPanic' = TRUE /\ mm' = [mm EXCEPT !.at = "dead"]
     \/ mm' = (IF remote = lastUpdate THEN Rest ELSE [mm EXCEPT !.at = "download"]) /\ UNCHANGED mmPanic
  /\ UNCHANGED <<remote, dbFile, tmpFile, reader, readerClosed, lastUpdate, crashes>>

\* extractFileFromTarGz: what it may have left at the path when it fails, and what it wrote
\* when it does not; the file of the archive need not be a database.
LeftBehind == {tmpFile, Invalid}
Extracted == {remote, Invalid}

\* The first half of download: the archive is fetched and extracted. An error on
\* the way leaves what has been extracted behind.
Fetch ==
  /\ mm.at = "download"
  /\ \/ mm' = Rest /\ tmpFile' \in LeftBehind
     \/ \E d \in BOOLEAN, t \in Extracted :
          mm' = [mm EXCEPT !.at = "test", !.got = remote, !.dated = d] /\ tmpFile' = t
  /\ UNCHANGED <<remote, dbFile, reader, readerClosed, lastUpdate, mmPanic, crashes>>

\* Mutant: the download replaces the database whether or not it opens.
InstallUntested == [ok |-> TRUE, file |-> [db |-> tmpFile, mtime |-> None], tmp |-> None]

\* The downloaded database is opened to test it, then renamed over the old one;
\* one that does not open is removed.  The rename may fail.
Install ==
  IF tmpFile > 0 THEN [ok |-> TRUE, file |-> [db |-> tmpFile, mtime |-> None], tmp |-> None]
                 ELSE [ok |-> FALSE, file |-> dbFile, tmp |-> None]

Replace ==
  /\ mm.at = "test"
  /\ \/ /\ dbFile' = Install.file /\ tmpFile' = Install.tmp
        /\ mm' = IF Install.ok THEN [mm EXCEPT !.at = "swap"] ELSE Rest
     \/ Install.ok /\ mm' = Rest /\ UNCHANGED <<dbFile, tmpFile>>
  /\ UNCHANGED <<remote, reader, readerClosed, lastUpdate, mmPanic, crashes>>

\* Mutant: the date of what the vendor serves now is remembered.
DateOfNow == remote

\* The date of the response the database came in.
DateOf == mm.got

\* The second half of download, under the lock: the reader is closed and opened
\* on the new file (opening may fail: the reader is then nil), and the date of
\* the response is remembered, also on the file.
Swap ==
  /\ mm.at = "swap"
  /\ \/ /\ reader' = None
        /\ mm' = [Rest EXCEPT !.at = IF mm.scheduled THEN "idle" ELSE "failed"]
        /\ UNCHANGED <<dbFile, lastUpdate>>
     \/ /\ reader' = dbFile.db
        /\ mm' = [Rest EXCEPT !.at = IF mm.scheduled THEN "idle" ELSE "loaded"]
        /\ IF mm.dated THEN lastUpdate' = DateOf /\ dbFile' = [dbFile EXCEPT !.mtime = DateOf]
                       ELSE UNCHANGED <<dbFile, lastUpdate>>
  /\ UNCHANGED <<remote, tmpFile, readerClosed, mmPanic, crashes>>

\* scheduleUpdate: the ticker starts an update; the end of the task closes the
\* reader, which the instance keeps.
TickUpdate ==
  /\ mm.at = "idle" /\ mm' = [mm EXCEPT !.at = "check"]
  /\ UNCHANGED <<remote, dbFile, tmpFile, reader, readerClosed, lastUpdate, mmPanic, crashes>>

StopUpdate ==
  /\ mm.at = "idle" /\ mm' = [mm EXCEPT !.at = "stopped"] /\ readerClosed' = (reader # None)
  /\ UNCHANGED <<remote, dbFile, tmpFile, reader, lastUpdate, mmPanic, crashes>>

\* The process dies and starts again with what is on disk.
Crash ==
  /\ mm.at # "load" /\ crashes < MaxCrashes /\ crashes' = crashes + 1
  /\ reader' = None /\ readerClosed' = FALSE /\ lastUpdate' = None /\ mm' = Loading /\ mmPanic' = FALSE
  /\ UNCHANGED <<remote, dbFile, tmpFile>>

\* instance # nil: LoadMaxMindDB has returned without an error.
HasInstance == mm.at = "loaded" \/ mm.scheduled

MMNext ==
  \/ Publish \/ LoadMaxMindDB \/ CheckLastest \/ Fetch \/ Replace
  \/ Swap \/ TickUpdate \/ StopUpdate \/ Crash

MMSpec == MMInit /\ [][MMNext]_mmVars

-----------------------------------------------------------------------------

\* A file that LoadMaxMindDB or download accepted as the database is only ever
\* replaced by one that opens: a download that fails, is cut off or is interrupted
\* by a crash leaves the previous database in place (download tests the -tmp file
\* before os.Rename).
DatabaseKept == [][dbFile.db > 0 => dbFile'.db > 0]_dbFile

\* update skips the download when the vendor's date equals lastUpdate. That date,
\* in memory or on the file for the next start, is never that of a version other
\* than the one on disk, so no published version is skipped.
UpdateNotMissed ==
  dbFile.db > 0 =>
  /\ dbFile.mtime # None => dbFile.mtime = dbFile.db
  /\ (lastUpdate # None /\ mm.at \in {"idle", "check"}) => (lastUpdate = dbFile.db \/ lastUpdate # remote)

\* checkLastest logs "MaxMind responded no last modified time, update skipped":
\* a response without the date skips the update.
NoDateSkips == ~mmPanic
=============================================================================
