--------------------------- MODULE OutlookProcess ---------------------------
(* The one process of outlook-bridge.py.  Its two loops, the poll of the     *)
(* mailbox and the scheduled jobs, run from the end of the start-up to the   *)
(* end of the process, and share nothing else that changes.                  *)
VARIABLE up   \* _async_main has reached its loops
=============================================================================
