--------------------------- MODULE SessionRegistry ---------------------------
(***************************************************************************)
(* What SessionManager promises about ~/.overcode/sessions/sessions.json:  *)
(* one dictionary, changed by one indivisible update at a time and read    *)
(* whole.  The dictionary is abstracted to the set of updates it contains; *)
(* an update (create_session, update_session, delete_session, ...) is      *)
(* named by the process that makes it.                                     *)
(***************************************************************************)
EXTENDS FiniteSets

CONSTANTS Writers, Readers

VARIABLES
  registry,   \* the updates the dictionary contains
  seen        \* seen[r]: what reader r last obtained

vars == <<registry, seen>>

Init ==
  /\ registry = {}
  /\ seen = [r \in Readers |-> {}]

\* One update takes effect at once and keeps every update made before it.
Update(w) ==
  /\ w \notin registry
  /\ registry' = registry \cup {w}
  /\ UNCHANGED seen

\* A reader obtains the dictionary as it is at one instant.
Load(r) ==
  /\ seen' = [seen EXCEPT ![r] = registry]
  /\ UNCHANGED registry

Next ==
  \/ \E w \in Writers : Update(w)
  \/ \E r \in Readers : Load(r)

Spec == Init /\ [][Next]_vars
=============================================================================
