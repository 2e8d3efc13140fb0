--------------------------- MODULE SessionArchive ---------------------------
(***************************************************************************)
(* delete_session and archive.json.  A session leaves sessions.json under  *)
(* the lock; its record is then added to archive.json by a load, a         *)
(* modification and a rename that hold no lock across the three (the lock  *)
(* _save_archive takes is on a temporary file of its own).                 *)
(***************************************************************************)
EXTENDS Integers, FiniteSets

CONSTANTS
  Ids,        \* session ids
  Procs,      \* CLI, TUI, daemon, web server
  Nothing,    \* no session in hand
  MaxFaults   \* bound on deaths and failed writes

ASSUME SessionArchiveAssumption ==
  /\ Nothing \notin Ids
  /\ MaxFaults \in Nat

VARIABLES
  registry,   \* ids in sessions.json
  archive,    \* ids in archive.json
  hand,       \* hand[p]: the session p took out and has yet to archive
  seen,       \* seen[p]: the archive p loaded
  stage,         \* stage[p]
  removed,    \* history: ids that were taken out to be archived
  overlap,    \* history: two processes were between load and rename at once
  faults

archiveVars == <<registry, archive, hand, seen, stage, removed, overlap, faults>>

ArchiveInit ==
  /\ registry = Ids
  /\ archive = {}
  /\ hand = [p \in Procs |-> Nothing]
  /\ seen = [p \in Procs |-> {}]
  /\ stage = [p \in Procs |-> "idle"]
  /\ removed = {}
  /\ overlap = FALSE
  /\ faults = 0

Return(p) ==
  /\ stage' = [stage EXCEPT ![p] = "idle"]
  /\ hand' = [hand EXCEPT ![p] = Nothing]
  /\ seen' = [seen EXCEPT ![p] = {}]

\* Mutant: the record is taken but the session is left to a later update.
DeleteSessionLate(p, i) ==
  /\ stage[p] = "idle"
  /\ i \in registry
  /\ hand' = [hand EXCEPT ![p] = i]
  /\ stage' = [stage EXCEPT ![p] = "load"]
  /\ removed' = removed \cup {i}
  /\ UNCHANGED <<registry, archive, seen, overlap, faults>>

\* Under the lock: take the record out.  A session that is gone is left alone.
DeleteSession(p, i) ==
  /\ stage[p] = "idle"
  /\ i \in registry
  /\ registry' = registry \ {i}
  /\ hand' = [hand EXCEPT ![p] = i]
  /\ stage' = [stage EXCEPT ![p] = "load"]
  /\ removed' = removed \cup {i}
  /\ UNCHANGED <<archive, seen, overlap, faults>>

\* archive=False: a launch that failed leaves no record.
Discard(p, i) ==
  /\ stage[p] = "idle"
  /\ registry' = registry \ {i}
  /\ i \in registry
  /\ UNCHANGED <<archive, hand, seen, stage, removed, overlap, faults>>

LoadArchive(p) ==
  /\ stage[p] = "load"
  /\ seen' = [seen EXCEPT ![p] = archive]
  /\ stage' = [stage EXCEPT ![p] = "save"]
  /\ overlap' = (overlap \/ \E q \in Procs \ {p} : stage[q] = "save")
  /\ UNCHANGED <<registry, archive, hand, removed, faults>>

\* The temporary file is written and renamed over archive.json.
SaveArchive(p) ==
  /\ stage[p] = "save"
  /\ archive' = seen[p] \cup {hand[p]}
  /\ Return(p)
  /\ UNCHANGED <<registry, removed, overlap, faults>>

\* The write of the temporary file fails: it is unlinked, the error returned.
SaveFails(p) ==
  /\ stage[p] = "save"
  /\ faults < MaxFaults
  /\ faults' = faults + 1
  /\ Return(p)
  /\ UNCHANGED <<registry, archive, removed, overlap>>

Crash(p) ==
  /\ stage[p] # "idle"
  /\ faults < MaxFaults
  /\ faults' = faults + 1
  /\ Return(p)
  /\ UNCHANGED <<registry, archive, removed, overlap>>

ArchiveNext == \E p \in Procs :
  \/ \E i \in Ids : DeleteSession(p, i) \/ Discard(p, i)
  \/ LoadArchive(p) \/ SaveArchive(p) \/ SaveFails(p) \/ Crash(p)

ArchiveSpec == ArchiveInit /\ [][ArchiveNext]_archiveVars

-----------------------------------------------------------------------------

Archiving == {hand[p] : p \in Procs}

\* A session is never both registered and archived, and one process at most
\* has it in hand, whatever dies: it cannot be listed or archived twice.  As
\* long as no two processes archive at once and nothing fails, it is not lost
\* either: what was removed is in the archive or on its way.
OnePlace ==
  /\ registry \cap (archive \cup removed) = {}
  /\ \A p, q \in Procs : hand[p] = hand[q] /\ p # q => hand[p] = Nothing
  /\ ~overlap /\ faults = 0 => removed \subseteq archive \cup Archiving
=============================================================================
