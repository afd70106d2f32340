--------------------------- MODULE MCOutlookJobs ---------------------------
(* Two jobs on a three-minute day, the first of them at midnight; the bridge *)
(* is configured, or lacks the senders.                                      *)
EXTENDS OutlookJobs

CONSTANTS daily, evening

TwoJobs  == {daily, evening}
TwoTimes == [j \in TwoJobs |-> IF j = daily THEN 0 ELSE 2]
TwoSettings == {[allowed |-> "blank", reply_to |-> "address"],
                [allowed |-> "blank", reply_to |-> "unset"]}
=============================================================================
