------------------------------ MODULE LogRotate ------------------------------
(***************************************************************************)
(* Rotation of an access log in place (internal/logging/accesslog):         *)
(* BackScanner reads the file backwards chunk by chunk (back_scanner.go),   *)
(* rotateLogFileByPolicy notes where the lines to keep are and moves them   *)
(* to the front of the same file, rotateLogFileBySize cuts the file         *)
(* (rotate.go).                                                             *)
(*                                                                          *)
(* A file is a sequence of bytes.  The first byte of a line tells its time: *)
(* new and old are valid times, bad is a line without one.  Positions count *)
(* from 0 as in the code.                                                   *)
(***************************************************************************)
EXTENDS Integers, Sequences, FiniteSets, SequencesExt

NL == "newline"
Bytes(file, pos, n) == SubSeq(file, pos + 1, pos + n)

\* LastIndexByte, -1 when there is none.
LastNewline(s) ==
    LET at == {i \in DOMAIN s : s[i] = NL}
    IN  IF at = {} THEN -1 ELSE (CHOOSE i \in at : \A j \in at : j <= i) - 1

-----------------------------------------------------------------------------
\* Mutant: the first byte of the file is never read.
NewOffsetOne(offset, size) == IF offset > size THEN offset - size ELSE 1

\* max(0, offset - chunkSize)
NewOffset(offset, size) == IF offset > size THEN offset - size ELSE 0

\* One round of BackScanner.Scan: a line of the buffer, the rest of the file, or the
\* next chunk, put in front.  Empty lines are passed over.
ScanRound(file, size, s) ==
    LET idx == LastNewline(s.chunk)
        line == SubSeq(s.chunk, idx + 2, Len(s.chunk))
        from == NewOffset(s.offset, size)
    IN  IF idx >= 0
        THEN [s EXCEPT !.chunk = SubSeq(@, 1, idx), !.lines = IF line = <<>> THEN @ ELSE Append(@, line)]
        ELSE IF s.offset <= 0
        THEN [s EXCEPT !.chunk = <<>>, !.lines = IF s.chunk = <<>> THEN @ ELSE Append(@, s.chunk)]
        ELSE [s EXCEPT !.chunk = Bytes(file, from, s.offset - from) \o @, !.offset = from]

\* The lines Scan gives, from the last to the first.
BackScan(file, size) ==
    LET rounds == 2 * Len(file) + 2
        after[n \in 0..rounds] ==
            IF n = 0 THEN [offset |-> Len(file), chunk |-> <<>>, lines |-> <<>>] ELSE ScanRound(file, size, after[n - 1])
    IN  after[rounds].lines

-----------------------------------------------------------------------------
HasTime(line) == line[1] \in {"new", "old"}

\* shouldStop.  Lines without a time are counted as if they were among those kept.
ShouldStop(policy, res, line) ==
    CASE policy.kind = "last" -> res.keep - res.invalid = policy.n
      [] policy.kind = "days" -> line[1] = "old"

\* Mutant: a line is joined to the one kept last, whatever was between them.
JoinAlways(res) == res.kept # <<>>

\* lastLineValid
Join(res) == res.lastValid

\* One line of the loop: it is left out, ends the loop, or is kept, joined to the
\* line after it when that one was kept too.
KeepLine(policy, res, line) ==
    LET size == Len(line) + 1
        pos == res.orig - res.read - size
        read == [res EXCEPT !.read = @ + size]
    IN  IF res.stop THEN res
        ELSE IF ~HasTime(line) THEN [read EXCEPT !.invalid = @ + 1, !.lastValid = FALSE]
        ELSE IF ShouldStop(policy, res, line) THEN [read EXCEPT !.stop = TRUE]
        ELSE [read EXCEPT !.keep = @ + 1, !.bytes = @ + size, !.lastValid = TRUE,
                          !.kept = IF Join(res)
                                   THEN [@ EXCEPT ![Len(@)] = [pos |-> @.pos - size, size |-> @.size + size]]
                                   ELSE Append(@, [pos |-> pos, size |-> size])]

\* WriteAt
Overwrite(file, bytes, pos) ==
    [i \in 1..Len(file) |-> IF i \in (pos + 1)..(pos + Len(bytes)) THEN bytes[i - pos] ELSE file[i]]

\* One of the kept blocks is moved; a block that does not lie in the file is an error.
MoveBlock(st, block) ==
    IF st.err \/ block.pos < 0 \/ block.pos + block.size > Len(st.file) THEN [st EXCEPT !.err = TRUE]
    ELSE [st EXCEPT !.file = Overwrite(@, Bytes(@, block.pos, block.size), st.pos), !.pos = @ + block.size]

rotateLogFileByPolicy(file, policy, size) ==
    LET lines == BackScan(file, size)
        after[n \in 0..Len(lines)] ==
            IF n = 0 THEN [orig |-> Len(file), read |-> 0, keep |-> 0, bytes |-> 0, invalid |-> 0,
                           stop |-> FALSE, lastValid |-> FALSE, kept |-> <<>>]
            ELSE KeepLine(policy, after[n - 1], lines[n])
        res == after[Len(lines)]
        moves[n \in 0..Len(res.kept)] ==
            IF n = 0 THEN [file |-> file, pos |-> 0, err |-> FALSE]
            ELSE MoveBlock(moves[n - 1], res.kept[Len(res.kept) + 1 - n])
        moved == moves[Len(res.kept)]
    IN  IF res.kept = <<>> THEN <<>>
        ELSE IF res.bytes = Len(file) THEN file
        ELSE IF moved.err THEN moved.file
        ELSE SubSeq(moved.file, 1, moved.pos)

\* The first bytes stay.
rotateLogFileBySize(file, keep) == IF keep >= Len(file) THEN file ELSE SubSeq(file, 1, keep)

rotateLogFile(file, policy, size) ==
    IF policy.kind = "size" THEN rotateLogFileBySize(file, policy.n) ELSE rotateLogFileByPolicy(file, policy, size)
=============================================================================
