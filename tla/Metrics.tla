------------------------------ MODULE Metrics ------------------------------
(***************************************************************************)
(* The metrics poller of internal/metrics/period: one ring of entries per  *)
(* period, filled by a poll a second, saved every few minutes and at exit, *)
(* loaded at start. An entry is the second it was polled at.               *)
(***************************************************************************)
EXTENDS Integers, Sequences, FiniteSets

CONSTANTS Filters,       \* the periods
          Duration,      \* Duration[f]: the seconds period f covers
          MaxEntries,    \* entries of a period (100 in the code)
          SaveTicks,     \* polls between two saves (300 in the code)
          MaxNow,        \* bound: seconds
          MaxStarts      \* bound: starts of the process

ASSUME MetricsAssumption == MaxEntries \in Nat \ {0} /\ Duration \in [Filters -> Nat]

VARIABLES
  now,
  rings,      \* rings[f]: [entries, index, count, interval, lastAdd]
  poller,     \* [at, ticks]: the goroutine of Start
  metricsFile,\* the file at savePath: [ok, data]: complete, and per period [entries, interval]
  added,      \* added[f]: every entry added to f that a save or the memory still holds
  savedAdded, \* added at the last save that completed
  starts

metricsVars == <<now, rings, poller, metricsFile, added, savedAdded, starts>>

Maximum(a, b) == IF a > b THEN a ELSE b
IntervalOf(f) == Maximum(Duration[f] \div MaxEntries, 1)
Blank == [i \in 0 .. MaxEntries - 1 |-> 0]
NewEntries(f) == [entries |-> Blank, index |-> 0, count |-> 0, interval |-> IntervalOf(f), lastAdd |-> now]
NoFile == [f \in {} |-> 0]

MetricsInit ==
  /\ now = 1 /\ rings = [f \in Filters |-> NewEntries(f)]
  /\ poller = [at |-> "down", ticks |-> 0]
  /\ metricsFile = [ok |-> TRUE, data |-> NoFile]
  /\ added = [f \in Filters |-> <<>>] /\ savedAdded = added /\ starts = 0

-----------------------------------------------------------------------------

\* addWithTime
AddWithTime(e, t, info) ==
  [e EXCEPT !.entries[e.index] = info, !.index = (e.index + 1) % MaxEntries,
            !.count = IF @ < MaxEntries THEN @ + 1 ELSE @, !.lastAdd = t]

\* Mutant: the comparison is off by one.
TooSoonLater(e, t) == t - e.lastAdd < e.interval - 1

TooSoon(e, t) == t - e.lastAdd < e.interval

Add(e, t, info) == IF TooSoon(e, t) THEN e ELSE AddWithTime(e, t, info)

\* Mutant: a full ring is read from its beginning.
OldestZero(e) == 0

\* Where Get starts to read.
Oldest(e) == IF e.count < MaxEntries THEN 0 ELSE e.index

Get(e) == [i \in 1 .. e.count |-> e.entries[(Oldest(e) + i - 1) % MaxEntries]]

\* UnmarshalJSON of a period, into an Entries the decoder made: nothing is set
\* when there are no entries; they are added oldest first, an interval apart.
AddAll(e, infos) ==
  LET upTo[n \in 0 .. Len(infos)] ==
        IF n = 0 THEN e ELSE AddWithTime(upTo[n - 1], now - (Len(infos) - n) * e.interval, infos[n])
  IN upTo[Len(infos)]

UnmarshalJSON(d) ==
  LET zero == [entries |-> Blank, index |-> 0, count |-> 0, interval |-> 0, lastAdd |-> 0]
  IN IF d.entries = <<>> THEN zero
     ELSE AddAll([zero EXCEPT !.interval = d.interval], d.entries)

\* Mutant: the intervals stay as they were loaded.
FixIntervalKeep(f, e) == e

\* ValidateAndFixIntervals
FixInterval(f, e) == IF e.interval = IntervalOf(f) THEN e ELSE [e EXCEPT !.interval = IntervalOf(f)]

\* Poller.Start: load keeps the new, empty rings when the file is missing, and
\* what was decoded before the error when the file is cut off (nothing: one value).
PollerStart ==
  /\ poller.at = "down" /\ starts < MaxStarts /\ starts' = starts + 1
  /\ LET loaded == metricsFile.ok /\ metricsFile.data # NoFile
     IN /\ rings' = [f \in Filters |-> IF loaded THEN FixInterval(f, UnmarshalJSON(metricsFile.data[f])) ELSE NewEntries(f)]
        /\ added' = IF loaded THEN savedAdded ELSE [f \in Filters |-> <<>>]
  /\ poller' = [at |-> "first", ticks |-> 0]
  /\ UNCHANGED <<now, metricsFile, savedAdded>>

\* pollWithTimeout: an error is only counted for the log, a result is added to
\* every period.
PollWithTimeout ==
  \/ UNCHANGED <<rings, added>>
  \/ /\ rings' = [f \in Filters |-> Add(rings[f], now, now)]
     /\ added' = [f \in Filters |-> IF TooSoon(rings[f], now) THEN added[f] ELSE Append(added[f], now)]

\* The first poll of the goroutine, and the poll of every tick, which every
\* SaveTicks ticks a save follows.
FirstPoll ==
  /\ poller.at = "first" /\ PollWithTimeout /\ poller' = [poller EXCEPT !.at = "wait"]
  /\ UNCHANGED <<now, metricsFile, savedAdded, starts>>

PollerTick ==
  /\ poller.at = "wait" /\ now < MaxNow /\ now' = now + 1
  /\ poller' = [poller EXCEPT !.at = "poll"]
  /\ UNCHANGED <<rings, metricsFile, added, savedAdded, starts>>

Poll ==
  /\ poller.at = "poll" /\ PollWithTimeout
  /\ LET t == poller.ticks + 1
     IN poller' = [at |-> IF t % SaveTicks = 0 THEN "save" ELSE "wait", ticks |-> t]
  /\ UNCHANGED <<now, metricsFile, savedAdded, starts>>

\* The task is cancelled: the deferred save, then the end.
PollerDone ==
  /\ poller.at = "wait" /\ poller' = [poller EXCEPT !.at = "save_exit"]
  /\ UNCHANGED <<now, rings, metricsFile, added, savedAdded, starts>>

AfterSave(at) == IF at \in {"save", "encode"} THEN "wait" ELSE "down"

\* save: the file is opened and emptied (O_TRUNC), or cannot be opened ...
SaveOpen ==
  /\ poller.at \in {"save", "save_exit"}
  /\ \/ /\ metricsFile' = [ok |-> FALSE, data |-> NoFile]
        /\ poller' = [poller EXCEPT !.at = IF @ = "save" THEN "encode" ELSE "encode_exit"]
     \/ poller' = [poller EXCEPT !.at = AfterSave(@)] /\ UNCHANGED metricsFile
  /\ UNCHANGED <<now, rings, added, savedAdded, starts>>

\* ... and Encode writes it, or fails.
SaveEncode ==
  /\ poller.at \in {"encode", "encode_exit"}
  /\ \/ /\ metricsFile' = [ok |-> TRUE, data |-> [f \in Filters |-> [entries |-> Get(rings[f]), interval |-> rings[f].interval]]]
        /\ savedAdded' = added
     \/ UNCHANGED <<metricsFile, savedAdded>>
  /\ poller' = [poller EXCEPT !.at = AfterSave(@)]
  /\ UNCHANGED <<now, rings, added, starts>>

\* The process dies at any point; time passes while it is down.
PollerCrash ==
  /\ poller.at # "down" /\ poller' = [at |-> "down", ticks |-> 0]
  /\ UNCHANGED <<now, rings, metricsFile, added, savedAdded, starts>>

MetricsNext == PollerStart \/ FirstPoll \/ PollerTick \/ Poll \/ PollerDone \/ SaveOpen \/ SaveEncode \/ PollerCrash

MetricsSpec == MetricsInit /\ [][MetricsNext]_metricsVars

-----------------------------------------------------------------------------

Newest(s) == IF Len(s) <= MaxEntries THEN s ELSE SubSeq(s, Len(s) - MaxEntries + 1, Len(s))

\* What Entries.Get returns for a period are the newest MaxEntries results added
\* to it, oldest first, also when the ring has wrapped and across any number of
\* saves, exits and starts.
RingExact == poller.at # "down" => \A f \in Filters : Get(rings[f]) = Newest(added[f])

\* Two entries of a period are at least its interval apart, also when one was
\* polled before a restart and the other after it, so MaxEntries of them cover
\* the whole period.
Spaced ==
  \A f \in Filters : \A i \in 1 .. Len(added[f]) - 1 : added[f][i + 1] - added[f][i] >= IntervalOf(f)
=============================================================================
