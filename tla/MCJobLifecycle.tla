--------------------------- MODULE MCJobLifecycle ----------------------------
(* Two processes that list jobs, say the TUI and a `jobs list'. *)
EXTENDS JobLifecycle

CONSTANTS l1, l2

MCListers == {l1, l2}
=============================================================================
