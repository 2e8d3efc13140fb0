-------------------------- MODULE StateFileProofs ---------------------------
(***************************************************************************)
(* Proofs about StateFile, for any number of writers, readers, retries and *)
(* faults: no update of a shared file is lost, a reader never goes back, a *)
(* torn file is left as it is, and without faults the protocol of locks    *)
(* and dumps implements the atomic registry.                               *)
(***************************************************************************)
EXTENDS StateFile, SumTheorems

USE DEF Goto, Return, Processes

\* Each process is in a state of its own kind.
PcInv ==
  /\ \A w \in Writers : pc[w] \in WriterPc
  /\ \A r \in Readers : pc[r] \in ReaderPc

\* An attempt is only begun when the limit allows one more.
TriesInv ==
  /\ \A w \in Writers : pc[w] \in {"idle", "opened"} => tries[w] < MaxRetries
  /\ \A r \in Readers : pc[r] = "opening" => tries[r] < MaxRetries

\* The exclusive lock belongs to the one writer between load and unlock.
LockInv == \A w \in Writers : pc[w] \in Locked <=> lock = w

\* A reader that restores has a backup to restore.
RestoringInv == \A r \in Readers : pc[r] = "restoring" => bak # Missing

\* What the file holds at each step of an undisturbed update.
FileInv ==
  /\ file.kind # "json" => file.data = {}
  /\ lock = Nobody => Parsable
  /\ \A w \in Writers :
       /\ pc[w] = "loaded" => Parsable /\ local[w] = file.data
       /\ pc[w] = "truncated" => file = Empty
       /\ pc[w] = "writing" => file = Torn
       /\ pc[w] = "flushed" => file.kind = "json"

\* Which updates the dictionary contains, and what readers have seen of it.
DataInv ==
  /\ \A w \in Writers : w \in Committed <=> pc[w] \in {"flushed", "done"}
  /\ \A r \in Readers : seen[r] \subseteq Committed
  /\ \A r \in Readers : pc[r] = "corrupt" => seen[r] = {}
  /\ \A r \in Readers : pc[r] \notin {"restoring", "reread"}

\* The inductive invariant.
FileProtocolInv ==
  /\ TypeOK
  /\ PcInv
  /\ TriesInv
  /\ LockInv
  /\ RestoringInv
  /\ Undisturbed => FileInv /\ DataInv

-----------------------------------------------------------------------------

\* The initial state satisfies the inductive invariant.
LEMMA FileBegins == Init => FileProtocolInv
<1> SUFFICES ASSUME Init PROVE FileProtocolInv
  OBVIOUS
<1> USE StateFileAssumption DEF Init
<1>1. TypeOK
  <2>1. file \in [kind : {"missing", "empty", "torn", "mixed", "json"}, data : SUBSET Writers]
    BY DEF Missing
  <2>2. pc \in [Processes -> WriterPc \cup ReaderPc] /\ tries \in [Processes -> 0 .. MaxRetries]
    BY DEF WriterPc, ReaderPc
  <2>3. local \in [Writers -> SUBSET Writers] /\ seen \in [Readers -> SUBSET Writers]
    OBVIOUS
  <2>4. faults \in 0 .. MaxFaults /\ lock \in Writers \cup {Nobody}
    OBVIOUS
  <2> QED
    BY <2>1, <2>2, <2>3, <2>4 DEF TypeOK
<1>2. PcInv /\ TriesInv /\ LockInv
  BY DEF PcInv, TriesInv, LockInv, WriterPc, ReaderPc, Locked
<1>5. RestoringInv
  BY DEF RestoringInv
<1>3. FileInv
  BY DEF FileInv, Missing, Parsable
<1>4. DataInv
  BY DEF DataInv, Committed, Missing
<1> QED
  BY <1>1, <1>2, <1>3, <1>4, <1>5 DEF FileProtocolInv

\* Types, control states, retry counters and lock ownership are preserved by
\* every step of every process, faults included.
LEMMA ControlStep ==
  ASSUME FileProtocolInv, [Next]_vars
  PROVE  TypeOK' /\ PcInv' /\ TriesInv' /\ LockInv'
<1> USE StateFileAssumption
    DEF FileProtocolInv, TypeOK, PcInv, TriesInv, LockInv, WriterPc, ReaderPc, Locked
<1>1. ASSUME NEW w \in Writers, Open(w)
      PROVE  TypeOK' /\ PcInv' /\ TriesInv' /\ LockInv'
  BY <1>1 DEF Open, Missing, Empty
<1>2. ASSUME NEW w \in Writers, LockAndLoad(w)
      PROVE  TypeOK' /\ PcInv' /\ TriesInv' /\ LockInv'
  BY <1>2 DEF LockAndLoad, Parsable
<1>3. ASSUME NEW w \in Writers, LockAndFail(w)
      PROVE  TypeOK' /\ PcInv' /\ TriesInv' /\ LockInv'
  BY <1>3 DEF LockAndFail, Parsable
<1>4. ASSUME NEW w \in Writers, Truncate(w)
      PROVE  TypeOK' /\ PcInv' /\ TriesInv' /\ LockInv'
  BY <1>4 DEF Truncate, Empty
<1>5. ASSUME NEW w \in Writers, DumpPart(w)
      PROVE  TypeOK' /\ PcInv' /\ TriesInv' /\ LockInv'
  BY <1>5 DEF DumpPart, Torn, Mixed
<1>6. ASSUME NEW w \in Writers, DumpRest(w)
      PROVE  TypeOK' /\ PcInv' /\ TriesInv' /\ LockInv'
  BY <1>6 DEF DumpRest, Mixed, Json
<1>7. ASSUME NEW w \in Writers, Unlock(w)
      PROVE  TypeOK' /\ PcInv' /\ TriesInv' /\ LockInv'
  BY <1>7 DEF Unlock
<1>8. ASSUME NEW w \in Writers, DumpFails(w)
      PROVE  TypeOK' /\ PcInv' /\ TriesInv' /\ LockInv'
  BY <1>8 DEF DumpFails
<1>9. ASSUME NEW w \in Writers, Crash(w)
      PROVE  TypeOK' /\ PcInv' /\ TriesInv' /\ LockInv'
  BY <1>9 DEF Crash
<1>10. ASSUME NEW r \in Readers, FindMissing(r) \/ FindFile(r) \/ LoadShared(r)
       PROVE  TypeOK' /\ PcInv' /\ TriesInv' /\ LockInv'
  BY <1>10 DEF FindMissing, FindFile, LoadShared
<1>11. ASSUME NEW r \in Readers, LoadFails(r)
       PROVE  TypeOK' /\ PcInv' /\ TriesInv' /\ LockInv'
  BY <1>11 DEF LoadFails
<1>12. ASSUME NEW r \in Readers, StartFresh(r) \/ Reread(r)
       PROVE  TypeOK' /\ PcInv' /\ TriesInv' /\ LockInv'
  BY <1>12 DEF StartFresh, Reread
<1>13. ASSUME NEW r \in Readers, RestoreOpens(r) \/ RestoreCopies(r) \/ RestoreFails(r)
       PROVE  TypeOK' /\ PcInv' /\ TriesInv' /\ LockInv'
  <2>1. bak \in [kind : {"missing", "empty", "torn", "mixed", "json"}, data : SUBSET Writers]
    BY DEF Missing, Json
  <2>2. CASE RestoreOpens(r)
    BY <2>2 DEF RestoreOpens, Empty
  <2>3. CASE RestoreCopies(r)
    <3>1. file' = bak \/ file' = Mixed
      BY <2>3 DEF RestoreCopies
    <3> QED
      BY <2>1, <2>3, <3>1 DEF RestoreCopies, Mixed
  <2>4. CASE RestoreFails(r)
    BY <2>4 DEF RestoreFails
  <2> QED
    BY <1>13, <2>2, <2>3, <2>4
<1>14. CASE UNCHANGED vars
  BY <1>14 DEF vars
<1> QED
  BY <1>1, <1>2, <1>3, <1>4, <1>5, <1>6, <1>7, <1>8, <1>9, <1>10, <1>11, <1>12,
     <1>13, <1>14 DEF Next, WriterStep, ReaderStep

\* Only a reader that found a backup begins to restore, and no backup vanishes.
LEMMA RestoringStep ==
  ASSUME FileProtocolInv, [Next]_vars
  PROVE  RestoringInv'
<1> USE DEF FileProtocolInv, TypeOK, PcInv, RestoringInv, WriterPc, ReaderPc
<1> USE StateFileAssumption
<1>1. ASSUME NEW w \in Writers, WriterStep(w) \/ DumpFails(w) \/ Crash(w)
      PROVE  RestoringInv'
  <2>1. bak' = bak /\ \A r \in Readers : pc'[r] = pc[r]
    BY <1>1 DEF WriterStep, Open, LockAndLoad, LockAndFail, Truncate, DumpPart, DumpRest,
       Unlock, DumpFails, Crash
  <2> QED
    BY <2>1
<1>2. ASSUME NEW q \in Readers, ReaderStep(q) \/ RestoreFails(q)
      PROVE  RestoringInv'
  <2>1. bak' = bak /\ \A r \in Readers \ {q} : pc'[r] = pc[r]
    BY <1>2 DEF ReaderStep, FindMissing, FindFile, LoadShared, LoadFails, StartFresh,
       RestoreOpens, RestoreCopies, RestoreFails, Reread
  <2>2. pc'[q] = "restoring" => bak # Missing
    BY <1>2 DEF ReaderStep, FindMissing, FindFile, LoadShared, LoadFails, StartFresh,
       RestoreOpens, RestoreCopies, RestoreFails, Reread
  <2> QED
    BY <2>1, <2>2
<1>3. CASE UNCHANGED vars
  BY <1>3 DEF vars
<1> QED
  BY <1>1, <1>2, <1>3 DEF Next

\* Faults are never forgotten and a backup neither appears nor vanishes.
LEMMA UndisturbedBefore ==
  ASSUME TypeOK, [Next]_vars, Undisturbed'
  PROVE  Undisturbed
<1>1. bak' = bak
  BY DEF vars, Next, WriterStep, ReaderStep, Open, LockAndLoad, LockAndFail,
     Truncate, DumpPart, DumpRest, Unlock, DumpFails, Crash, FindMissing, FindFile,
     LoadShared, LoadFails, StartFresh, RestoreOpens, RestoreCopies, RestoreFails, Reread
<1>2. faults' = faults \/ faults' = faults + 1
  BY DEF vars, Next, WriterStep, ReaderStep, Open, LockAndLoad, LockAndFail,
     Truncate, DumpPart, DumpRest, Unlock, DumpFails, Crash, FindMissing, FindFile,
     LoadShared, LoadFails, StartFresh, RestoreOpens, RestoreCopies, RestoreFails, Reread
<1>3. faults \in Nat
  BY StateFileAssumption DEF TypeOK
<1> QED
  BY <1>1, <1>2, <1>3 DEF Undisturbed

\* While nothing goes wrong, file, lock and dictionaries stay in step.
LEMMA FileStep ==
  ASSUME FileProtocolInv, [Next]_vars, Undisturbed'
  PROVE  FileInv'
<1> USE StateFileAssumption
    DEF FileProtocolInv, TypeOK, LockInv, Locked, FileInv, Missing, Empty, Torn, Mixed, Parsable
<1>0. Undisturbed
  BY UndisturbedBefore
<1> USE <1>0
<1>1. ASSUME NEW w \in Writers, Open(w)
      PROVE  FileInv'
  <2>1. CASE file # Missing
    BY <1>1, <2>1 DEF Open
  <2>2. CASE file = Missing
    <3>1. \A v \in Writers : pc[v] \notin {"truncated", "writing", "flushed"}
      BY <2>2
    <3> QED
      BY <1>1, <2>2, <3>1 DEF Open
  <2> QED
    BY <2>1, <2>2
<1>9. ASSUME NEW w \in Writers, LockAndFail(w) \/ Unlock(w)
      PROVE  FileInv'
  BY <1>9 DEF LockAndFail, Unlock
<1>2. ASSUME NEW w \in Writers, LockAndLoad(w)
      PROVE  FileInv'
  BY <1>2 DEF LockAndLoad, Parsable
<1>3. ASSUME NEW w \in Writers, Truncate(w) \/ DumpPart(w)
      PROVE  FileInv'
  BY <1>3 DEF Truncate, DumpPart
<1>4. ASSUME NEW w \in Writers, DumpRest(w)
      PROVE  FileInv'
  BY <1>4 DEF DumpRest, Json
<1>5. ASSUME NEW w \in Writers, DumpFails(w) \/ Crash(w)
      PROVE  FALSE
  BY <1>5 DEF DumpFails, Crash, Undisturbed
<1>6. ASSUME NEW r \in Readers,
             FindMissing(r) \/ FindFile(r) \/ LoadShared(r) \/ LoadFails(r) \/ StartFresh(r) \/ Reread(r)
      PROVE  FileInv'
  BY <1>6 DEF FindMissing, FindFile, LoadShared, LoadFails, StartFresh, Reread, PcInv,
     WriterPc, ReaderPc
<1>7. ASSUME NEW r \in Readers, RestoreOpens(r) \/ RestoreCopies(r) \/ RestoreFails(r)
      PROVE  FALSE
  BY <1>7 DEF RestoreOpens, RestoreCopies, RestoreFails, DataInv, Undisturbed
<1>8. CASE UNCHANGED vars
  BY <1>8 DEF vars
<1> QED
  BY <1>1, <1>2, <1>3, <1>4, <1>5, <1>6, <1>7, <1>8, <1>9 DEF Next, WriterStep, ReaderStep

\* While nothing goes wrong, the dictionary only grows, by the update whose
\* dump ends, and it holds every update that returned.
LEMMA DataStep ==
  ASSUME FileProtocolInv, [Next]_vars, Undisturbed'
  PROVE  DataInv'
<1> USE StateFileAssumption
    DEF FileProtocolInv, TypeOK, LockInv, Locked, DataInv, Committed, Missing, Empty, Torn, Mixed
<1>0. Undisturbed
  BY UndisturbedBefore
<1> USE <1>0
<1>1. ASSUME NEW w \in Writers, Open(w)
      PROVE  DataInv'
  BY <1>1 DEF Open, FileInv
<1>2. ASSUME NEW w \in Writers, LockAndLoad(w)
      PROVE  DataInv'
  BY <1>2 DEF LockAndLoad, Parsable
<1>3. ASSUME NEW w \in Writers, LockAndFail(w)
      PROVE  DataInv'
  BY <1>3 DEF LockAndFail
<1>4. ASSUME NEW w \in Writers, Truncate(w)
      PROVE  DataInv'
  BY <1>4 DEF Truncate, FileInv
<1>5. ASSUME NEW w \in Writers, DumpPart(w)
      PROVE  DataInv'
  BY <1>5 DEF DumpPart
<1>6. ASSUME NEW w \in Writers, DumpRest(w)
      PROVE  DataInv'
  <2>1. lock = w /\ file = (IF pc[w] = "truncated" THEN Empty ELSE Torn)
    BY <1>6 DEF DumpRest, FileInv
  <2>2. Committed = local[w] /\ Committed' = local[w] \cup {w}
    BY <1>6, <2>1 DEF DumpRest, Json
  <2> QED
    BY <1>6, <2>1, <2>2 DEF DumpRest
<1>7. ASSUME NEW w \in Writers, Unlock(w)
      PROVE  DataInv'
  <2>1. Committed' = Committed
    BY <1>7 DEF Unlock
  <2> QED
    BY <1>7, <2>1 DEF Unlock
<1>8. ASSUME NEW w \in Writers, DumpFails(w) \/ Crash(w)
      PROVE  FALSE
  BY <1>8 DEF DumpFails, Crash, Undisturbed
<1>9. ASSUME NEW r \in Readers, FindMissing(r) \/ FindFile(r) \/ LoadShared(r)
      PROVE  DataInv'
  <2>1. CASE FindMissing(r)
    BY <2>1 DEF FindMissing
  <2>2. CASE FindFile(r)
    BY <2>2 DEF FindFile, PcInv, WriterPc, ReaderPc
  <2>3. CASE LoadShared(r)
    BY <2>3 DEF LoadShared, PcInv, WriterPc, ReaderPc
  <2> QED
    BY <1>9, <2>1, <2>2, <2>3
<1>10. ASSUME NEW r \in Readers, LoadFails(r)
       PROVE  DataInv'
  <2>1. Committed = {}
    BY <1>10 DEF LoadFails, FileInv
  <2> QED
    BY <1>10, <2>1 DEF LoadFails, PcInv, WriterPc, ReaderPc
<1>11. ASSUME NEW r \in Readers, StartFresh(r) \/ Reread(r)
       PROVE  DataInv'
  BY <1>11 DEF StartFresh, Reread, PcInv, WriterPc, ReaderPc
<1>12. ASSUME NEW r \in Readers, RestoreOpens(r) \/ RestoreCopies(r) \/ RestoreFails(r)
       PROVE  FALSE
  BY <1>12 DEF RestoreOpens, RestoreCopies, RestoreFails, Undisturbed
<1>13. CASE UNCHANGED vars
  BY <1>13 DEF vars
<1> QED
  BY <1>1, <1>2, <1>3, <1>4, <1>5, <1>6, <1>7, <1>8, <1>9, <1>10, <1>11, <1>12,
     <1>13 DEF Next, WriterStep, ReaderStep

\* FileProtocolInv holds in every reachable state.
LEMMA FileAlways == Spec => []FileProtocolInv
<1>1. FileProtocolInv /\ [Next]_vars => FileProtocolInv'
  BY ControlStep, RestoringStep, FileStep, DataStep DEF FileProtocolInv
<1> QED
  BY FileBegins, <1>1, PTL DEF Spec

-----------------------------------------------------------------------------

\* Every variable keeps its type, with faults of any number and kind.
THEOREM FileTypeCorrect == Spec => []TypeOK
<1>1. FileProtocolInv => TypeOK
  BY DEF FileProtocolInv
<1> QED
  BY FileAlways, <1>1, PTL

\* Two updates of sessions.json never overwrite each other: as long as no
\* process dies, an update that returned stays in the file.
THEOREM UpdatesSurvive == Spec => []NoLostUpdate
<1>1. FileProtocolInv => NoLostUpdate
  BY DEF FileProtocolInv, DataInv, NoLostUpdate
<1> QED
  BY FileAlways, <1>1, PTL

\* A reader never sees fewer updates than it saw before, as long as no
\* process dies.
THEOREM ReadsAdvance == Spec => ReadsNeverGoBack
<1>1. FileProtocolInv /\ [Next]_vars =>
        [Undisturbed => \A r \in Readers : seen[r] \subseteq seen'[r]]_vars
  <2> SUFFICES ASSUME FileProtocolInv, Next, Undisturbed, NEW r \in Readers
               PROVE  seen[r] \subseteq seen'[r]
    BY DEF vars
  <2> USE DEF FileProtocolInv, TypeOK, DataInv, Committed
  <2>1. CASE \E w \in Writers : WriterStep(w) \/ DumpFails(w) \/ Crash(w)
    BY <2>1 DEF WriterStep, Open, LockAndLoad, LockAndFail, Truncate, DumpPart,
       DumpRest, Unlock, DumpFails, Crash
  <2>2. ASSUME NEW q \in Readers, LoadShared(q)
        PROVE  seen[r] \subseteq seen'[r]
    BY <2>2 DEF LoadShared
  <2>3. ASSUME NEW q \in Readers, FindMissing(q)
        PROVE  seen[r] \subseteq seen'[r]
    <3>1. Committed = {}
      BY <2>3 DEF FindMissing, Missing, FileInv, LockInv, Locked, Empty, Torn
    <3> QED
      BY <2>3, <3>1 DEF FindMissing
  <2>4. ASSUME NEW q \in Readers, FindFile(q) \/ LoadFails(q)
        PROVE  seen[r] \subseteq seen'[r]
    BY <2>4 DEF FindFile, LoadFails
  <2>6. ASSUME NEW q \in Readers, RestoreOpens(q) \/ RestoreCopies(q) \/ RestoreFails(q)
        PROVE  FALSE
    BY <2>6 DEF RestoreOpens, RestoreCopies, RestoreFails, Undisturbed
  <2>5. ASSUME NEW q \in Readers, StartFresh(q) \/ Reread(q)
        PROVE  seen[r] \subseteq seen'[r]
    BY <2>5 DEF StartFresh, Reread
  <2> QED
    BY <2>1, <2>2, <2>3, <2>4, <2>5, <2>6 DEF Next, ReaderStep
<1> QED
  BY FileAlways, <1>1, PTL DEF Spec, ReadsNeverGoBack

\* With no fault and no old backup, the file protocol implements the atomic
\* registry: the end of a dump is the update, and the end of a load the read.
THEOREM RegistryImplemented ==
  ASSUME MaxFaults = 0, LegacyBackups = {}
  PROVE  Spec => ImplementsRegistry
<1>1. FileProtocolInv => Undisturbed
  BY DEF FileProtocolInv, TypeOK, Undisturbed
<1>2. Init => Atomic!Init
  BY StateFileAssumption DEF Init, Atomic!Init, Committed, Missing
<1>3. FileProtocolInv /\ FileProtocolInv' /\ [Next]_vars => [Atomic!Next]_Atomic!vars
  <2> SUFFICES ASSUME FileProtocolInv, FileProtocolInv', Next
               PROVE  [Atomic!Next]_Atomic!vars
    BY DEF vars, Atomic!vars, Committed
  <2> USE <1>1, StateFileAssumption
      DEF FileProtocolInv, TypeOK, LockInv, Locked, Missing, Empty, Torn, Atomic!vars
  <2>1. ASSUME NEW w \in Writers, Open(w)
        PROVE  UNCHANGED Atomic!vars
    <3>1. file'.data = file.data
      BY <2>1 DEF Open
    <3>2. lock' = lock /\ local' = local /\ seen' = seen
      BY <2>1 DEF Open
    <3>3. lock # Nobody => pc'[lock] = pc[lock]
      BY <2>1 DEF Open
    <3> QED
      BY <3>1, <3>2, <3>3 DEF Committed
  <2>2. ASSUME NEW w \in Writers, LockAndLoad(w)
        PROVE  UNCHANGED Atomic!vars
    BY <2>2 DEF LockAndLoad, Committed
  <2>3. ASSUME NEW w \in Writers, LockAndFail(w)
        PROVE  UNCHANGED Atomic!vars
    BY <2>3 DEF LockAndFail, Committed
  <2>4. ASSUME NEW w \in Writers, Truncate(w) \/ DumpPart(w) \/ Unlock(w)
        PROVE  UNCHANGED Atomic!vars
    BY <2>4 DEF Truncate, DumpPart, Unlock, Committed, FileInv
  <2>5. ASSUME NEW w \in Writers, DumpRest(w)
        PROVE  Atomic!Update(w)
    <3>1. lock = w /\ file = (IF pc[w] = "truncated" THEN Empty ELSE Torn)
      BY <2>5 DEF DumpRest, FileInv
    <3>2. Committed = local[w] /\ Committed' = local[w] \cup {w}
      BY <2>5, <3>1 DEF DumpRest, Json, Committed
    <3>3. w \notin Committed
      BY <2>5 DEF DumpRest, DataInv
    <3> QED
      BY <2>5, <3>2, <3>3 DEF DumpRest, Atomic!Update
  <2>6. ASSUME NEW w \in Writers, DumpFails(w) \/ Crash(w)
        PROVE  FALSE
    BY <2>6 DEF DumpFails, Crash
  <2>7. ASSUME NEW r \in Readers, FindFile(r) \/ LoadFails(r)
        PROVE  UNCHANGED Atomic!vars
    BY <2>7 DEF FindFile, LoadFails, Committed, PcInv, WriterPc, ReaderPc
  <2>8. ASSUME NEW r \in Readers, LoadShared(r)
        PROVE  Atomic!Load(r)
    BY <2>8 DEF LoadShared, Committed, Atomic!Load
  <2>9. ASSUME NEW r \in Readers, FindMissing(r)
        PROVE  Atomic!Load(r)
    <3>1. Committed = {}
      BY <2>9 DEF FindMissing, FileInv, Committed
    <3>2. Committed' = Committed
      BY <2>9 DEF FindMissing, Committed
    <3> QED
      BY <2>9, <3>1, <3>2 DEF FindMissing, Atomic!Load
  <2>10. ASSUME NEW r \in Readers, StartFresh(r) \/ Reread(r)
         PROVE  UNCHANGED Atomic!vars
    <3>1. pc[r] = "corrupt" /\ seen[r] = {} /\ StartFresh(r)
      BY <2>10 DEF StartFresh, Reread, DataInv
    <3>2. seen' = seen
      BY <3>1 DEF StartFresh
    <3>3. Committed' = Committed
      BY <3>1 DEF StartFresh, Committed, PcInv, WriterPc, ReaderPc
    <3> QED
      BY <3>2, <3>3
  <2>11. ASSUME NEW r \in Readers, RestoreOpens(r) \/ RestoreCopies(r) \/ RestoreFails(r)
         PROVE  FALSE
    BY <2>11 DEF RestoreOpens, RestoreCopies, RestoreFails, DataInv, Undisturbed
  <2> QED
    BY <2>1, <2>2, <2>3, <2>4, <2>5, <2>6, <2>7, <2>8, <2>9, <2>10, <2>11
    DEF Next, WriterStep, ReaderStep, Atomic!Next
<1> QED
  BY FileAlways, <1>2, <1>3, PTL DEF Spec, ImplementsRegistry, Atomic!Spec

\* A writer that loaded the file, or truncated it and wrote nothing yet, is not
\* looking at the beginning of another's dump, whatever readers restore meanwhile and
\* whoever dies.
TornInv == \A w \in Writers : pc[w] \in {"loaded", "truncated"} => file.kind # "torn"

\* Every step keeps that: only the holder of the lock dumps.
LEMMA TornStep ==
  ASSUME FileProtocolInv, TornInv, [Next]_vars
  PROVE  TornInv'
<1> USE DEF TornInv
<1>0. /\ pc \in [Processes -> WriterPc \cup ReaderPc] /\ PcInv /\ LockInv
      /\ bak.kind # "torn" /\ file.kind \in {"missing", "empty", "torn", "mixed", "json"}
  BY DEF FileProtocolInv, TypeOK, Missing, Json
<1> USE <1>0, StateFileAssumption
<1>1. ASSUME NEW w \in Writers, Open(w) \/ LockAndLoad(w) \/ LockAndFail(w)
      PROVE  TornInv'
  BY <1>1 DEF Open, LockAndLoad, LockAndFail, Parsable, Empty
<1>2. ASSUME NEW w \in Writers, Truncate(w)
      PROVE  TornInv'
  BY <1>2 DEF Truncate, Empty
<1>3. ASSUME NEW w \in Writers, DumpPart(w) \/ DumpRest(w)
      PROVE  TornInv'
  <2>1. lock = w /\ \A v \in Writers : pc'[v] \notin {"loaded", "truncated"}
    BY <1>3 DEF DumpPart, DumpRest, LockInv, Locked, WriterPc
  <2> QED
    BY <2>1
<1>4. ASSUME NEW w \in Writers, Unlock(w) \/ DumpFails(w) \/ Crash(w)
      PROVE  TornInv'
  BY <1>4 DEF Unlock, DumpFails, Crash
<1>5. ASSUME NEW r \in Readers, FindMissing(r) \/ FindFile(r) \/ LoadShared(r) \/ LoadFails(r)
      PROVE  TornInv'
  BY <1>5 DEF FindMissing, FindFile, LoadShared, LoadFails
<1>6. ASSUME NEW r \in Readers, StartFresh(r) \/ RestoreFails(r) \/ Reread(r)
      PROVE  TornInv'
  BY <1>6 DEF StartFresh, RestoreFails, Reread
<1>8. ASSUME NEW r \in Readers, RestoreOpens(r) \/ RestoreCopies(r)
      PROVE  TornInv'
  <2>1. file'.kind # "torn"
    BY <1>8 DEF RestoreOpens, RestoreCopies, Empty, Mixed
  <2> QED
    BY <2>1
<1>7. CASE UNCHANGED vars
  BY <1>7 DEF vars
<1> QED
  BY <1>1, <1>2, <1>3, <1>4, <1>5, <1>6, <1>7, <1>8 DEF Next, WriterStep, ReaderStep

\* With writers that die at any point, readers that die over a restore and backups of
\* any content: a dump cut short that no live writer goes on with is changed by nobody
\* but a reader that restores the backup; writers raise StateWriteError.
THEOREM TornKept == Spec => TornFileIsKept
<1>1. Init => TornInv
  BY DEF Init, TornInv
<1> DEFINE Restored ==
             /\ bak # Missing /\ file' \in {Empty, bak, Mixed}
             /\ \E r \in Readers : pc[r] \in {"corrupt", "restoring"} /\ pc'[r] # pc[r]
<1>2. FileProtocolInv /\ TornInv /\ [Next]_vars =>
        [file.kind = "torn" /\ (\A w \in Writers : pc[w] # "writing") =>
           \/ file' = file
           \/ Restored]_vars
  <2> SUFFICES ASSUME FileProtocolInv, TornInv, Next, file.kind = "torn", \A w \in Writers : pc[w] # "writing"
               PROVE  file' = file \/ Restored
    OBVIOUS
  <2>1. ASSUME NEW w \in Writers, WriterStep(w) \/ DumpFails(w) \/ Crash(w)
        PROVE  file' = file
    BY <2>1 DEF TornInv, WriterStep, Open, LockAndLoad, LockAndFail, Truncate, DumpPart, DumpRest,
       Unlock, DumpFails, Crash, Missing
  <2>2. ASSUME NEW r \in Readers, RestoreOpens(r) \/ RestoreCopies(r)
        PROVE  Restored
    <3>1. bak # Missing
      BY <2>2 DEF RestoreOpens, RestoreCopies, FileProtocolInv, RestoringInv
    <3>2. /\ pc \in [Processes -> WriterPc \cup ReaderPc]
          /\ pc[r] \in {"corrupt", "restoring"} /\ pc'[r] # pc[r]
      BY <2>2 DEF RestoreOpens, RestoreCopies, FileProtocolInv, TypeOK
    <3>3. file' \in {Empty, bak, Mixed}
      BY <2>2 DEF RestoreOpens, RestoreCopies
    <3> QED
      BY <3>1, <3>2, <3>3
  <2>3. ASSUME NEW r \in Readers,
               \/ FindMissing(r) \/ FindFile(r) \/ LoadShared(r) \/ LoadFails(r) \/ StartFresh(r)
               \/ RestoreFails(r) \/ Reread(r)
        PROVE  file' = file
    BY <2>3 DEF FindMissing, FindFile, LoadShared, LoadFails, StartFresh, RestoreFails, Reread
  <2> QED
    BY <2>1, <2>2, <2>3 DEF Next, ReaderStep
<1>3. FileProtocolInv /\ TornInv /\ [Next]_vars => TornInv'
  BY TornStep
<1> QED
  BY FileAlways, <1>1, <1>2, <1>3, PTL DEF Spec, TornFileIsKept

HIDE DEF Goto, Return, Processes
=============================================================================
