------------------------------ MODULE AccessLog ------------------------------
(***************************************************************************)
(* Access loggers that write to one path (internal/logging/accesslog).      *)
(* Each logger has its own buffer and its own goroutine; they share the     *)
(* opened File, which counts its users and is closed by a goroutine of its  *)
(* own (file_logger.go, utils/ref_count.go), and one lock per path, so that *)
(* a write, a flush and a rotation are each one step (access_logger.go).    *)
(*                                                                          *)
(* A line is the number it was logged as.  Lines up to `aged' are older     *)
(* than the retention allows.  Rotation is taken by whole lines; LogRotate  *)
(* has its bytes.                                                           *)
(***************************************************************************)
EXTENDS Integers, Sequences, FiniteSets, Functions

CONSTANTS
    Loggers,      \* names of the loggers, each created again after it was closed
    MaxLogged,    \* bound on the lines logged
    MaxFiles      \* bound on the times the path is opened

VARIABLES
    afiles,       \* every File made: its reference count and where closeOnZero is
    openedFile,   \* openedFiles[path], 0 when there is no entry
    alog,         \* the loggers
    disk,         \* the lines of the file
    accepted,     \* <<logger, line>> of every line taken by a logger
    failed,       \* lines of a write or a flush that failed
    logged, aged, \* lines logged, lines older than the retention
    apanic        \* RefCount.Add panicked

alogVars == <<afiles, openedFile, alog, disk, accepted, failed, logged, aged, apanic>>

NoLogger == [at |-> "none", file |-> 0, buf |-> <<>>, done |-> FALSE]

AInit ==
    /\ afiles = <<>>
    /\ openedFile = 0
    /\ alog = [l \in Loggers |-> NoLogger]
    /\ disk = <<>>
    /\ accepted = {}
    /\ failed = {}
    /\ logged = 0 /\ aged = 0
    /\ apanic = FALSE

Running(l) == alog[l].at \notin {"none", "closed"} /\ ~apanic

\* Mutants: a user that leaves is not counted; the first one to leave counts for all.
SubNone(n) == n
SubAll(n) == 0

\* RefCount.Sub
Sub(n) == IF n = 0 THEN 0 ELSE n - 1

-----------------------------------------------------------------------------
\* NewFileIO, then NewAccessLoggerWithIO.  The File of the map is taken if there is one,
\* even when its last user has left and closeOnZero has not deleted it yet: then the
\* reference counter panics.
NewAccessLogger(l) ==
    /\ ~apanic
    /\ ~Running(l)
    /\ LET new == [NoLogger EXCEPT !.at = "loop", !.file = IF openedFile = 0 THEN Len(afiles) + 1 ELSE openedFile]
       IN  \/ /\ openedFile = 0
              /\ Len(afiles) < MaxFiles
              /\ afiles' = Append(afiles, [refs |-> 1, at |-> "open"])
              /\ openedFile' = Len(afiles) + 1
              /\ alog' = [alog EXCEPT ![l] = new]
              /\ UNCHANGED apanic
           \/ /\ openedFile # 0
              /\ afiles' = [afiles EXCEPT ![openedFile].refs = @ + 1]
              /\ apanic' = (afiles[openedFile].refs = 0)
              /\ alog' = IF apanic' THEN alog ELSE [alog EXCEPT ![l] = new]
              /\ UNCHANGED openedFile
    /\ UNCHANGED <<disk, accepted, failed, logged, aged>>

\* closeOnZero: the entry of the map goes first, under the map's lock, then the file.
CloseOnZero(f) ==
    /\ ~apanic
    /\ \/ /\ afiles[f].at = "open" /\ afiles[f].refs = 0
          /\ afiles' = [afiles EXCEPT ![f].at = "deleted"]
          /\ openedFile' = 0
       \/ /\ afiles[f].at = "deleted"
          /\ afiles' = [afiles EXCEPT ![f].at = "closed"]
          /\ UNCHANGED openedFile
    /\ UNCHANGED <<alog, disk, accepted, failed, logged, aged, apanic>>

-----------------------------------------------------------------------------
\* Mutant: the lines reach the file but stay in the buffer.
FlushedKeep(x) == x

\* BufferedWriter.Flush: the buffer of a logger after it.
Flushed(x) == [x EXCEPT !.buf = <<>>]

\* BufferedWriter.Write: the buffer takes a line.
Took(x, n) == [x EXCEPT !.buf = Append(x.buf, n)]

\* write: a closed logger drops the line.  The buffer takes it, flushing itself first when
\* it has no room.  A write that fails loses what was to be written, and more than errBurst
\* of them end the logger's task (handleErr).
Write(l) ==
    /\ ~apanic
    /\ logged < MaxLogged
    /\ logged' = logged + 1
    /\ \/ alog[l].at = "closed" /\ UNCHANGED <<alog, disk, accepted, failed>>
       \/ /\ Running(l)
          /\ accepted' = accepted \cup {<<l, logged'>>}
          /\ \/ /\ alog' = [alog EXCEPT ![l] = Took(alog[l], logged')]
                /\ UNCHANGED <<disk, failed>>
             \/ /\ alog[l].buf # <<>>
                /\ disk' = disk \o alog[l].buf
                /\ alog' = [alog EXCEPT ![l] = Took(Flushed(alog[l]), logged')]
                /\ UNCHANGED failed
             \/ /\ failed' = failed \cup Range(alog[l].buf) \cup {logged'}
                /\ \E stop \in BOOLEAN : alog' = [alog EXCEPT ![l].buf = <<>>, ![l].done = @ \/ stop]
                /\ UNCHANGED disk
    /\ UNCHANGED <<afiles, openedFile, aged, apanic>>

\* Flush, on its own or as the resize of adjustBuffer.  Only the logger's goroutine calls
\* it, before Close.
FlushTo(l, at) ==
    /\ alog' = [alog EXCEPT ![l] = [Flushed(@) EXCEPT !.at = at]]
    /\ \/ disk' = disk \o alog[l].buf /\ UNCHANGED failed
       \/ alog[l].buf # <<>> /\ failed' = failed \cup Range(alog[l].buf) /\ UNCHANGED disk

\* adjustBuffer, a tick of the loop.
AdjustBuffer(l) ==
    /\ Running(l) /\ alog[l].at = "loop"
    /\ FlushTo(l, "loop")
    /\ UNCHANGED <<afiles, openedFile, accepted, logged, aged, apanic>>

\* Rotate: flushed first, ...
RotateFlush(l) ==
    /\ Running(l) /\ alog[l].at = "loop"
    /\ FlushTo(l, "rotate")
    /\ UNCHANGED <<afiles, openedFile, accepted, logged, aged, apanic>>

\* The scan from the end stops at a line that is too old; the lines after it are kept.
KeptLines(lines) ==
    LET old == {i \in DOMAIN lines : lines[i] <= aged}
    IN  IF old = {} THEN lines ELSE SubSeq(lines, 1 + CHOOSE i \in old : \A j \in old : j <= i, Len(lines))

\* ... then the file is rewritten, under the lock taken again.
RotateFile(l) ==
    /\ Running(l) /\ alog[l].at = "rotate"
    /\ disk' = KeptLines(disk)
    /\ alog' = [alog EXCEPT ![l].at = "loop"]
    /\ UNCHANGED <<afiles, openedFile, accepted, failed, logged, aged, apanic>>

-----------------------------------------------------------------------------
\* The parent of the logger's task ends.
FinishTask(l) ==
    /\ Running(l) /\ ~alog[l].done
    /\ alog' = [alog EXCEPT ![l].done = TRUE]
    /\ UNCHANGED <<afiles, openedFile, disk, accepted, failed, logged, aged, apanic>>

\* The deferred function of start: the last flush, ...
StartDone(l) ==
    /\ Running(l) /\ alog[l].at = "loop" /\ alog[l].done
    /\ FlushTo(l, "ending")
    /\ UNCHANGED <<afiles, openedFile, accepted, logged, aged, apanic>>

\* Mutant: what came in since the last flush is thrown away.
LastLinesNone(x) == <<>>

LastLines(x) == x.buf

\* ... then Close, which flushes what was written in between and gives the File up.  Requests
\* still hold the closed logger; a new one may take its name.
Close(l) ==
    /\ Running(l) /\ alog[l].at = "ending"
    /\ disk' = disk \o LastLines(alog[l])
    /\ afiles' = [afiles EXCEPT ![alog[l].file].refs = Sub(@)]
    /\ alog' = [alog EXCEPT ![l] = [NoLogger EXCEPT !.at = "closed"]]
    /\ UNCHANGED <<openedFile, accepted, failed, logged, aged, apanic>>

\* Time passes: the lines logged so far become older than the retention.
LinesAge ==
    /\ ~apanic
    /\ aged < logged
    /\ aged' = logged
    /\ UNCHANGED <<afiles, openedFile, alog, disk, accepted, failed, logged, apanic>>

ANext ==
    \/ \E l \in Loggers :
          \/ NewAccessLogger(l) \/ Write(l) \/ AdjustBuffer(l)
          \/ RotateFlush(l) \/ RotateFile(l) \/ FinishTask(l) \/ StartDone(l) \/ Close(l)
    \/ \E f \in DOMAIN afiles : CloseOnZero(f)
    \/ LinesAge

ASpec == AInit /\ [][ANext]_alogVars

\* The goroutines of the loggers and of the files run; a finished task is seen at some
\* point although the tickers of the same select are ready again and again.
AFair ==
    /\ \A l \in Loggers :
          /\ WF_alogVars(RotateFile(l))
          /\ SF_alogVars(StartDone(l))
          /\ WF_alogVars(Close(l))
    /\ \A f \in 1..MaxFiles : WF_alogVars(f \in DOMAIN afiles /\ CloseOnZero(f))

-----------------------------------------------------------------------------
\* No line within the retention is lost on its way: one that a logger took is in its buffer
\* or on disk, unless its write failed.  The exception is a line of another logger that is
\* too old and was flushed late: rotation drops whatever was put in the file before it.
LinesAccounted ==
    \A p \in accepted :
        \/ p[2] <= aged
        \/ p[2] \in failed
        \/ p[2] \in Range(disk)
        \/ p[2] \in Range(alog[p[1]].buf)
        \/ \E q \in accepted : q[1] # p[1] /\ q[2] <= aged

\* The lines of one logger are in the file once and in the order they were logged, those
\* in its buffer after them.
LinesInOrder ==
    \A l \in Loggers :
        LET mine(n) == <<l, n>> \in accepted
            all == SelectSeq(disk, mine) \o alog[l].buf
        IN  \A i, j \in DOMAIN all : i < j => all[i] < all[j]

\* No logger writes to a file that was closed under it.
LoggerFileOpen == \A l \in Loggers : Running(l) => afiles[alog[l].file].at = "open"

\* A file nobody uses any more is closed at last, unless the process is gone.
FileCloses ==
    \A f \in 1..MaxFiles :
        (f \in DOMAIN afiles /\ \A l \in Loggers : alog[l].file # f)
            ~> (apanic \/ (f \in DOMAIN afiles /\ afiles[f].at = "closed"))

\* file_logger.go:31: "If the file is already opened, it will be returned."
OpenedIsReturned == ~apanic
=============================================================================
