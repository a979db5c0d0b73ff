----------------------------- MODULE Aggregate -----------------------------
(***************************************************************************)
(* What the metrics endpoints make of the entries of a period: the uptime  *)
(* of the routes, page by page, and the series of the system information.  *)
(***************************************************************************)
LOCAL INSTANCE Integers
LOCAL INSTANCE Sequences
LOCAL INSTANCE FiniteSets
LOCAL INSTANCE SequencesExt

\* Mutant: an offset on the last item is beyond the end.
CalculateBeginEndShort(n, limit, offset) ==
  IF n = 0 \/ offset + 1 >= n THEN [ok |-> FALSE, beg |-> 0, end |-> 0]
  ELSE LET lim == IF limit = 0 THEN n ELSE limit
       IN [ok |-> TRUE, beg |-> offset, end |-> offset + (IF offset + lim > n THEN n - offset ELSE lim)]

\* CalculateBeginEnd: the page of n items that starts at offset; limit 0 is all.
CalculateBeginEnd(n, limit, offset) ==
  IF n = 0 \/ offset >= n THEN [ok |-> FALSE, beg |-> 0, end |-> 0]
  ELSE LET lim == IF limit = 0 THEN n ELSE limit
       IN [ok |-> TRUE, beg |-> offset, end |-> offset + (IF offset + lim > n THEN n - offset ELSE lim)]

\* The statuses of an alias over the entries that know it, oldest first.
StatusesOf(entries, alias) ==
  LET known == SelectSeq(entries, LAMBDA e : alias \in DOMAIN e)
  IN [i \in DOMAIN known |-> known[i][alias]]

KindOf(status) ==
  IF status = "healthy" THEN "up" ELSE IF status \in {"napping", "starting"} THEN "idle" ELSE "down"

\* calculateInfo: how many of the statuses that are known are up, down and idle
\* (the code divides each by their number).
calculateInfo(statuses) ==
  LET known == SelectSeq(statuses, LAMBDA s : s # "unknown")
      n(k) == Len(SelectSeq(known, LAMBDA s : KindOf(s) = k))
  IN [up |-> n("up"), down |-> n("down"), idle |-> n("idle"), total |-> Len(known)]

\* aggregateStatuses and aggregate: one page of the aliases in order. The aliases
\* are numbers, as their order is all that matters.
aggregate(entries, limit, offset) ==
  LET as == UNION {DOMAIN entries[i] : i \in DOMAIN entries}
      sorted == SetToSortSeq(as, <)
      page == CalculateBeginEnd(Len(sorted), limit, offset)
      shown == IF page.ok THEN SubSeq(sorted, page.beg + 1, page.end) ELSE <<>>
  IN [i \in DOMAIN shown |-> [alias |-> shown[i], info |-> calculateInfo(StatusesOf(entries, shown[i]))]]

-----------------------------------------------------------------------------
Collectors == {"cpu", "memory", "disk", "network", "sensors"}

\* Mutant: the result is discarded only when every collector failed.
getSystemInfoPartial(enabled, outcome) ==
  IF \A c \in enabled : outcome[c] = "error" THEN {}
  ELSE {{c \in enabled : outcome[c] = "ok"}}

\* getSystemInfo: every enabled collector runs; a warning is logged and leaves its
\* data out, an error of any of them discards the whole result.
getSystemInfo(enabled, outcome) ==
  IF \E c \in enabled : outcome[c] = "error" THEN {}
  ELSE {{c \in enabled : outcome[c] = "ok"}}

\* The collector whose data a series shows.
SourceOf(mode) ==
  CASE mode = "cpu_average" -> "cpu"
    [] mode \in {"memory_usage", "memory_usage_percent"} -> "memory"
    [] mode \in {"disks_read_speed", "disks_write_speed", "disks_iops", "disk_usage"} -> "disk"
    [] mode \in {"network_speed", "network_transfer"} -> "network"
    [] mode = "sensor_temperature" -> "sensors"
    [] OTHER -> "none"

\* aggregate of the system information: the entries that have the data, by their
\* place; total -1 for a mode that does not exist.
aggregateSystem(entries, mode) ==
  LET rows == SelectSeq([i \in DOMAIN entries |-> i], LAMBDA i : SourceOf(mode) \in entries[i])
  IN IF SourceOf(mode) = "none" THEN [total |-> 0 - 1, rows |-> <<>>] ELSE [total |-> Len(rows), rows |-> rows]
=============================================================================
