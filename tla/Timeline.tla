------------------------------- MODULE Timeline -------------------------------
(***************************************************************************)
(* The history of an agent's status and the timeline drawn from it.  The   *)
(* monitor daemon appends a row at each tick.  In the TUI two threads read *)
(* the file through one StatusHistoryFile, the timeline and the status bar *)
(* with different scopes; it keeps the rows and reads only what is new.    *)
(* What it takes for new rests on the size of the file, which a thread     *)
(* reads before it has the lock.                                           *)
(*                                                                         *)
(* Shown is the history of one agent, each row with a status of its own,   *)
(* so that a timeline tells which row a slot shows.  The size of the file  *)
(* is the number of its rows: its header is written with the first row.    *)
(* The binary search for the first recent row finds it as long as the      *)
(* rows are in the order of time, so the clock does not go back here.      *)
(***************************************************************************)
EXTENDS Integers, Sequences, SequencesExt, FiniteSetsExt

CONSTANTS
  HistoryThreads, \* of the TUI
  Scopes,         \* how far back a thread asks
  Width,          \* slots of a timeline
  LastTime,       \* bound on the clock
  MaxRows,        \* bound on rows
  MaxUnread       \* bound on reads that fail

ASSUME TimelineAssumption ==
  /\ Scopes \subseteq Nat \ {0} /\ Width \in Nat \ {0}
  /\ LastTime \in Nat /\ MaxRows \in Nat /\ MaxUnread \in Nat

VARIABLES
  time,
  log,     \* the rows of agent_status_history.csv
  cache,   \* _cached_entries, _cached_size, _cached_hours, _read_offset
  reading, \* the threads
  unread,  \* history: rows may be missing from the cache after a failed read
  failures,
  drawn    \* what the last read returned: the rows, and when

timelineVars == <<time, log, cache, reading, unread, failures, drawn>>

Slots == 0 .. Width - 1
NoRow == 0

Waiting == [at |-> "idle", scope |-> 0, size |-> 0]

-----------------------------------------------------------------------------
(* Writing *)

\* log_agent_status, once in each tick of the daemon.
LogAgentStatus ==
  /\ Len(log) < MaxRows
  /\ log' = Append(log, [at |-> time, status |-> Len(log) + 1])
  /\ UNCHANGED <<time, cache, reading, unread, failures, drawn>>

ClockAdvances ==
  /\ time < LastTime /\ time' = time + 1
  /\ UNCHANGED <<log, cache, reading, unread, failures, drawn>>

-----------------------------------------------------------------------------
(* Reading *)

\* The entries from a cutoff on, in their order.
Since(entries, cutoff) ==
  LET Kept[i \in 0 .. Len(entries)] ==
        IF i = 0 THEN <<>>
        ELSE IF entries[i].at >= cutoff THEN Append(Kept[i - 1], entries[i]) ELSE Kept[i - 1]
  IN  Kept[Len(entries)]

\* read: stat comes before the lock.
Stats(k) ==
  /\ reading[k].at = "idle"
  /\ log # <<>>
  /\ \E scope \in Scopes :
       reading' = [reading EXCEPT ![k] = [at |-> "stat", scope |-> scope, size |-> Len(log)]]
  /\ UNCHANGED <<time, log, cache, unread, failures, drawn>>

FileChanged(k) == reading[k].size # cache.size

\* Mutant: what is kept is taken to reach back far enough.
KeptReachesBack(k) == FALSE

HoursExpanded(k) == reading[k].scope > cache.scope /\ cache.scope > 0

Incremental(k) ==
  FileChanged(k) /\ ~HoursExpanded(k) /\ reading[k].size > cache.size /\ cache.offset > 0

\* The answer: _filter, at the time it is called.
Returns(k, entries, whole) ==
  /\ drawn' = [entries |-> Since(entries, time - reading[k].scope), scope |-> reading[k].scope,
               at |-> time, low |-> reading[k].size, high |-> Len(log), whole |-> whole]
  /\ reading' = [reading EXCEPT ![k] = Waiting]

AnswersFromCache(k) ==
  /\ reading[k].at = "stat" /\ ~FileChanged(k) /\ ~HoursExpanded(k)
  /\ UNCHANGED unread
  /\ Returns(k, cache.entries, ~unread)
  /\ UNCHANGED <<time, log, cache, failures>>

\* _incremental_read: to the end of the file, but the offset is that of stat,
\* so rows that came in between are read again.  It moves also if the file
\* cannot be opened.
ReadsTail(k) ==
  /\ reading[k].at = "stat" /\ Incremental(k)
  /\ \E tail \in {SubSeq(log, cache.offset + 1, Len(log))} \cup {<<>>} :
       /\ tail = <<>> => failures < MaxUnread
       /\ failures' = IF tail = <<>> THEN failures + 1 ELSE failures
       /\ unread' = (unread \/ tail = <<>>)
       /\ cache' = [entries |-> Since(cache.entries, time - cache.scope) \o tail,
                    size |-> reading[k].size, scope |-> cache.scope, offset |-> reading[k].size]
       /\ Returns(k, Since(cache.entries, time - cache.scope) \o tail, ~unread')
  /\ UNCHANGED <<time, log>>

\* _full_read, also after another thread has read what is newer than stat saw.
ReadsAll(k) ==
  /\ reading[k].at = "stat" /\ (FileChanged(k) \/ HoursExpanded(k)) /\ ~Incremental(k)
  /\ unread' = FALSE
  /\ cache' = [entries |-> Since(log, time - reading[k].scope), size |-> reading[k].size,
               scope |-> reading[k].scope, offset |-> reading[k].size]
  /\ Returns(k, Since(log, time - reading[k].scope), TRUE)
  /\ UNCHANGED <<time, log, failures>>

ReadFails(k) ==
  /\ reading[k].at = "stat" /\ (FileChanged(k) \/ HoursExpanded(k)) /\ ~Incremental(k)
  /\ failures < MaxUnread /\ failures' = failures + 1
  /\ Returns(k, <<>>, FALSE)
  /\ UNCHANGED <<time, log, cache, unread>>

TimelineInit ==
  /\ time = 0 /\ log = <<>>
  /\ cache = [entries |-> <<>>, size |-> 0, scope |-> 0, offset |-> 0]
  /\ reading = [k \in HistoryThreads |-> Waiting]
  /\ unread = FALSE /\ failures = 0
  /\ drawn = [entries |-> <<>>, scope |-> 0, at |-> 0, low |-> 0, high |-> 0, whole |-> TRUE]

TimelineNext ==
  \/ LogAgentStatus \/ ClockAdvances
  \/ \E k \in HistoryThreads :
       Stats(k) \/ AnswersFromCache(k) \/ ReadsTail(k) \/ ReadsAll(k) \/ ReadFails(k)

TimelineSpec == TimelineInit /\ [][TimelineNext]_timelineVars

-----------------------------------------------------------------------------
(* Drawing *)

\* The status of the last row at some positions of a history.
Latest(history, S) == IF S = {} THEN NoRow ELSE history[Max(S)].status

\* build_timeline_slots: the status in each slot, carried forward.
BuildTimelineSlots(history, scope) ==
  LET start == time - scope
      Slot(e) == ((e.at - start) * Width) \div scope
      Own(i) == Latest(history, {j \in DOMAIN history : history[j].at >= start /\ Slot(history[j]) = i})
      Carried[i \in Slots] ==
        IF Own(i) # NoRow THEN Own(i)
        ELSE IF i = 0 THEN Latest(history, {j \in DOMAIN history : history[j].at < start})
                      ELSE Carried[i - 1]
  IN Carried

\* What a timeline of the first n rows is: in each slot the last status up to
\* its end, of the rows that were in scope when the history was read.
TrueSlots(n) ==
  [i \in Slots |->
     Latest(log, {j \in 1 .. n : /\ log[j].at >= drawn.at - drawn.scope
                                 /\ (log[j].at - (time - drawn.scope)) * Width < (i + 1) * drawn.scope})]

-----------------------------------------------------------------------------
(* Properties *)

TimelineTypeOK ==
  /\ time \in 0 .. LastTime
  /\ cache.size \in 0 .. Len(log) /\ cache.offset \in 0 .. Len(log)
  /\ \A k \in HistoryThreads : reading[k].size \in 0 .. Len(log)

\* A timeline, drawn at once or later, is that of the file at some moment of
\* the read, although threads with different scopes share what is kept, look
\* at the size too early, and have rows twice; unless a read of the file's end
\* failed and no full one came since.
TimelineIsTrue ==
  drawn.scope > 0 /\ drawn.whole =>
    \E n \in drawn.low .. drawn.high :
      BuildTimelineSlots(drawn.entries, drawn.scope) = TrueSlots(n)
=============================================================================
