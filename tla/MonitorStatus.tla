---------------------------- MODULE MonitorStatus ----------------------------
(* What the modules of the monitor daemon share: its statuses and `None'.   *)
EXTENDS Integers

\* A missing timestamp, and a missing status.
NoTime == -1
NoStatus == "none"

Green == {"running", "running_heartbeat", "heartbeat_start", "busy_sleeping"}
=============================================================================
