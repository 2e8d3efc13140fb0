------------------------------ MODULE StateFile ------------------------------
(***************************************************************************)
(* The file protocol under SessionManager: how CLI commands, the monitor   *)
(* daemon, the TUI and the web server share sessions.json.                 *)
(*                                                                         *)
(* A writer (_locked_state) opens the file, takes an exclusive flock,      *)
(* parses the content, lets its caller change the dictionary, and then     *)
(* truncates the same file and dumps the dictionary into it before it      *)
(* unlocks.  A reader (_load_state) takes a shared flock and parses.       *)
(* Nothing is renamed into place, so a writer that dies between truncate   *)
(* and the end of the dump leaves an empty or a torn file behind.          *)
(* JobManager uses the same code for jobs.json.                            *)
(***************************************************************************)
EXTENDS Integers, FiniteSets

CONSTANTS
  Writers,        \* processes that each make one update
  Readers,        \* processes that call _load_state again and again
  Nobody,         \* holder of a free lock
  LegacyBackups,  \* contents a .bak left by an older release may have
  MaxRetries,     \* max_retries of both loops (5 in the code)
  MaxFaults       \* how many processes may die, or meet a full disk, in a call

ASSUME StateFileAssumption ==
  /\ Nobody \notin Writers
  /\ Writers \cap Readers = {}
  /\ LegacyBackups \subseteq SUBSET Writers
  /\ MaxRetries \in Nat \ {0}
  /\ MaxFaults \in Nat

VARIABLES
  file,     \* [kind, data]; data is meaningful when kind = "json"
  bak,      \* sessions.json.bak, a file like sessions.json
  lock,     \* the writer that holds the exclusive flock, or Nobody
  pc,       \* where each process is
  local,    \* local[w]: the dictionary writer w parsed
  tries,    \* failed parse attempts of the current call
  seen,     \* seen[r]: what reader r's last call returned
  faults    \* number of processes that died or could not write

vars == <<file, bak, lock, pc, local, tries, seen, faults>>

Missing  == [kind |-> "missing", data |-> {}]
Empty    == [kind |-> "empty", data |-> {}]
Torn     == [kind |-> "torn", data |-> {}]    \* the beginning of one dump
Mixed    == [kind |-> "mixed", data |-> {}]   \* pieces of a dump and of a copy
Json(d)  == [kind |-> "json", data |-> d]

\* What json.loads(content) if content.strip() else {} makes of the file.
Parsable == file.kind \notin {"torn", "mixed"}

Processes == Writers \cup Readers

WriterPc == {"idle", "opened", "loaded", "truncated", "writing", "flushed",
             "done", "failed", "crashed"}
ReaderPc == {"idle", "opening", "corrupt", "restoring", "reread"}

\* A writer in one of these states holds the exclusive lock.
Locked == {"loaded", "truncated", "writing", "flushed"}

Init ==
  /\ file = Missing
  /\ bak \in {Missing} \cup {Json(d) : d \in LegacyBackups}
  /\ lock = Nobody
  /\ pc = [p \in Processes |-> "idle"]
  /\ local = [w \in Writers |-> {}]
  /\ tries = [p \in Processes |-> 0]
  /\ seen = [r \in Readers |-> {}]
  /\ faults = 0

Goto(p, from, to) ==
  /\ pc[p] \in from
  /\ pc' = [pc EXCEPT ![p] = to]

-----------------------------------------------------------------------------
(* Writers: _locked_state *)

\* open(state_file, 'a+') creates the file before the lock is taken.
Open(w) ==
  /\ Goto(w, {"idle"}, "opened")
  /\ file' = IF file = Missing THEN Empty ELSE file
  /\ UNCHANGED <<bak, lock, local, tries, seen, faults>>

\* Mutant: text that does not parse counts as an empty dictionary.
LockAndLoadLenient(w) ==
  /\ lock = Nobody
  /\ Goto(w, {"opened"}, "loaded")
  /\ lock' = w
  /\ local' = [local EXCEPT ![w] = file.data]
  /\ UNCHANGED <<file, bak, tries, seen, faults>>

\* flock(LOCK_EX), read, parse: the caller now works on its own dictionary.
LockAndLoad(w) ==
  /\ lock = Nobody
  /\ Parsable
  /\ Goto(w, {"opened"}, "loaded")
  /\ lock' = w
  /\ local' = [local EXCEPT ![w] = file.data]
  /\ UNCHANGED <<file, bak, tries, seen, faults>>

\* Mutant: the lock is kept when the parse fails.
LockAndFailHolding(w) ==
  /\ lock = Nobody
  /\ ~Parsable
  /\ tries' = [tries EXCEPT ![w] = @ + 1]
  /\ Goto(w, {"opened"}, IF tries[w] + 1 < MaxRetries THEN "opened" ELSE "failed")
  /\ lock' = w
  /\ UNCHANGED <<file, bak, local, seen, faults>>

\* The content does not parse: unlock, close and try again, or give up with
\* StateWriteError after MaxRetries attempts.
LockAndFail(w) ==
  /\ lock = Nobody
  /\ ~Parsable
  /\ tries' = [tries EXCEPT ![w] = @ + 1]
  /\ Goto(w, {"opened"}, IF tries[w] + 1 < MaxRetries THEN "opened" ELSE "failed")
  /\ UNCHANGED <<file, bak, lock, local, seen, faults>>

\* Mutant: the lock is dropped once the caller's change is made.
TruncateUnlocked(w) ==
  /\ Goto(w, {"loaded"}, "truncated")
  /\ file' = Empty
  /\ lock' = Nobody
  /\ UNCHANGED <<bak, local, tries, seen, faults>>

\* f.seek(0); f.truncate()
Truncate(w) ==
  /\ Goto(w, {"loaded"}, "truncated")
  /\ file' = Empty
  /\ UNCHANGED <<bak, lock, local, tries, seen, faults>>

\* json.dump has pushed a part of the text out of the buffer.  The file was opened
\* in append mode: text goes after whatever the file holds, which is more than this
\* writer's when a reader restored the backup in between.
DumpPart(w) ==
  /\ Goto(w, {"truncated"}, "writing")
  /\ file' = IF file = Empty THEN Torn ELSE Mixed
  /\ UNCHANGED <<bak, lock, local, tries, seen, faults>>

\* The end of json.dump, flush and fsync: one whole text, if what stood there is
\* still what this writer left.
DumpRest(w) ==
  /\ Goto(w, {"truncated", "writing"}, "flushed")
  /\ file' = IF file = (IF pc[w] = "truncated" THEN Empty ELSE Torn)
             THEN Json(local[w] \cup {w}) ELSE Mixed
  /\ UNCHANGED <<bak, lock, local, tries, seen, faults>>

\* flock(LOCK_UN); close
Unlock(w) ==
  /\ Goto(w, {"flushed"}, "done")
  /\ lock' = Nobody
  /\ UNCHANGED <<file, bak, local, tries, seen, faults>>

\* truncate, dump or fsync raises OSError: StateWriteError, and the lock goes.
DumpFails(w) ==
  /\ faults < MaxFaults
  /\ Goto(w, {"truncated", "writing"}, "failed")
  /\ lock' = Nobody
  /\ faults' = faults + 1
  /\ UNCHANGED <<file, bak, local, tries, seen>>

\* The process dies; the kernel drops its flock, the bytes stay.
Crash(w) ==
  /\ faults < MaxFaults
  /\ Goto(w, {"opened"} \cup Locked, "crashed")
  /\ lock' = IF lock = w THEN Nobody ELSE lock
  /\ faults' = faults + 1
  /\ UNCHANGED <<file, bak, local, tries, seen>>

-----------------------------------------------------------------------------
(* Readers: _load_state and restore_from_backup *)

Return(r, d) == seen' = [seen EXCEPT ![r] = d]

\* if not self.state_file.exists(): return {}
FindMissing(r) ==
  /\ pc[r] = "idle"
  /\ file = Missing
  /\ Return(r, {})
  /\ UNCHANGED <<file, bak, lock, pc, local, tries, faults>>

FindFile(r) ==
  /\ file # Missing
  /\ Goto(r, {"idle"}, "opening")
  /\ tries' = [tries EXCEPT ![r] = 0]
  /\ UNCHANGED <<file, bak, lock, local, seen, faults>>

\* Under LOCK_SH, which no writer's LOCK_EX admits, json.load succeeds.
LoadShared(r) ==
  /\ lock = Nobody
  /\ file.kind = "json"
  /\ Goto(r, {"opening"}, "idle")
  /\ Return(r, file.data)
  /\ UNCHANGED <<file, bak, lock, local, tries, faults>>

\* Under LOCK_SH, json.load raises: an empty file is an error for a reader.
LoadFails(r) ==
  /\ lock = Nobody
  /\ file.kind # "json"
  /\ tries' = [tries EXCEPT ![r] = @ + 1]
  /\ Goto(r, {"opening"}, IF tries[r] + 1 < MaxRetries THEN "opening" ELSE "corrupt")
  /\ UNCHANGED <<file, bak, lock, local, seen, faults>>

\* "No backup available, starting fresh"
StartFresh(r) ==
  /\ bak = Missing
  /\ Goto(r, {"corrupt"}, "idle")
  /\ Return(r, {})
  /\ UNCHANGED <<file, bak, lock, local, tries, faults>>

\* shutil.copy2(backup_file, state_file), under no lock at all: the file is opened
\* for writing, which empties it,
RestoreOpens(r) ==
  /\ bak # Missing
  /\ Goto(r, {"corrupt"}, "restoring")
  /\ file' = Empty
  /\ UNCHANGED <<bak, lock, local, tries, seen, faults>>

\* and the backup is laid over its beginning.  What a writer has put there meanwhile
\* shows behind it where that is longer.
RestoreCopies(r) ==
  /\ Goto(r, {"restoring"}, "reread")
  /\ file' \in {bak} \cup {Mixed : f \in {file} \ {Empty, bak}}
  /\ UNCHANGED <<bak, lock, local, tries, seen, faults>>

\* The copy raises OSError ("starting fresh"), or the reader dies over it: the file
\* stays as it is, which may be empty.
RestoreFails(r) ==
  /\ faults < MaxFaults
  /\ bak # Missing
  /\ Goto(r, {"corrupt", "restoring"}, "idle")
  /\ Return(r, {})
  /\ faults' = faults + 1
  /\ UNCHANGED <<file, bak, lock, local, tries>>

\* The restored file is loaded, again under no lock.
Reread(r) ==
  /\ Goto(r, {"reread"}, "idle")
  /\ Return(r, file.data)
  /\ UNCHANGED <<file, bak, lock, local, tries, faults>>

-----------------------------------------------------------------------------

WriterStep(w) ==
  \/ Open(w) \/ LockAndLoad(w) \/ LockAndFail(w)
  \/ Truncate(w) \/ DumpPart(w) \/ DumpRest(w) \/ Unlock(w)

ReaderStep(r) ==
  \/ FindMissing(r) \/ FindFile(r) \/ LoadShared(r) \/ LoadFails(r)
  \/ StartFresh(r) \/ RestoreOpens(r) \/ RestoreCopies(r) \/ Reread(r)

Next ==
  \/ \E w \in Writers : WriterStep(w) \/ DumpFails(w) \/ Crash(w)
  \/ \E r \in Readers : ReaderStep(r) \/ RestoreFails(r)

Spec == Init /\ [][Next]_vars

\* A process that made its system call is scheduled again; nobody is obliged
\* to begin an update, and no crash is obliged to happen.
FairSpec ==
  /\ Spec
  /\ \A w \in Writers : WF_vars(pc[w] # "idle" /\ WriterStep(w))
  /\ \A r \in Readers : WF_vars(pc[r] # "idle" /\ ReaderStep(r))
-----------------------------------------------------------------------------

TypeOK ==
  /\ file \in [kind : {"missing", "empty", "torn", "mixed", "json"}, data : SUBSET Writers]
  /\ bak \in {Missing} \cup {Json(d) : d \in LegacyBackups}
  /\ lock \in Writers \cup {Nobody}
  /\ pc \in [Processes -> WriterPc \cup ReaderPc]
  /\ local \in [Writers -> SUBSET Writers]
  /\ tries \in [Processes -> 0 .. MaxRetries]
  /\ seen \in [Readers -> SUBSET Writers]
  /\ faults \in 0 .. MaxFaults

\* The dictionary the file stands for: while a writer rewrites the file, the
\* one it parsed; otherwise the one in the file.
Committed ==
  IF lock # Nobody /\ pc[lock] \in {"truncated", "writing"}
  THEN local[lock]
  ELSE file.data

\* No update was cut short and no backup can be copied over the file.
Undisturbed == faults = 0 /\ bak = Missing

\* While no process dies, an update that returned is in the file for good:
\* two _locked_state calls never overwrite each other's change.
NoLostUpdate ==
  Undisturbed => \A w \in Writers : pc[w] = "done" => w \in Committed

\* While no process dies, no reader gets past the shared lock into a file
\* that a writer has truncated but not finished: a reader that once saw a
\* session keeps seeing it.
ReadsNeverGoBack ==
  [][Undisturbed => \A r \in Readers : seen[r] \subseteq seen'[r]]_vars

\* A dump that was cut short, and that no live writer goes on with, is never overwritten
\* by a later writer, which raises StateWriteError instead: only a reader that restores
\* the backup replaces it.  (Pieces of a dump and of a copy may be truncated by a writer
\* that had loaded the file before they stood there.)
TornFileIsKept ==
  [][file.kind = "torn" /\ (\A w \in Writers : pc[w] # "writing") =>
       \/ file' = file
       \/ /\ bak # Missing /\ file' \in {Empty, bak, Mixed}
          /\ \E r \in Readers : pc[r] \in {"corrupt", "restoring"} /\ pc'[r] # pc[r]]_vars

\* Whoever begins an update is not left waiting for a lock, even when the
\* holder dies: it returns, raises StateWriteError, or dies itself.
EveryUpdateEnds ==
  \A w \in Writers : pc[w] = "opened" ~> pc[w] \in {"done", "failed", "crashed"}

\* While no process dies, the file protocol implements the atomic registry.
Atomic == INSTANCE SessionRegistry WITH registry <- Committed

ImplementsRegistry == Atomic!Spec
=============================================================================
