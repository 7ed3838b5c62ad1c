-------------------------- MODULE PayloadUpdates --------------------------
(***************************************************************************)
(* What an application may assume of payload_progress_cb for one payload   *)
(* and one endpoint (PayloadProgressInfo::Status in listeners.h): the      *)
(* transfer is reported in progress any number of times, then ends with    *)
(* one of kSuccess, kFailure or kCanceled, and is not reported again.      *)
(***************************************************************************)
CONSTANT Transfer           \* pairs of a payload and an endpoint

VARIABLES last,             \* the last status reported for each transfer
          finals            \* how many final statuses were reported for it

Final == {"success", "failure", "canceled"}

TypeOK ==
  /\ last \in [Transfer -> {"none", "progress"} \cup Final]
  /\ finals \in [Transfer -> {0, 1}]

Init ==
  /\ last = [t \in Transfer |-> "none"]
  /\ finals = [t \in Transfer |-> 0]

\* An active transfer is in progress, or ends.
Report(t, st) ==
  /\ finals[t] = 0
  /\ last' = [last EXCEPT ![t] = st]
  /\ finals' = [finals EXCEPT ![t] = IF st \in Final THEN 1 ELSE 0]

\* A disconnection ends every active transfer of the endpoint in one step.
ReportAll(T, st) ==
  /\ \A t \in T : finals[t] = 0
  /\ last' = [t \in Transfer |-> IF t \in T THEN st ELSE last[t]]
  /\ finals' = [t \in Transfer |-> IF t \in T THEN 1 ELSE finals[t]]

Next ==
  \/ \E t \in Transfer, st \in {"progress"} \cup Final : Report(t, st)
  \/ \E T \in SUBSET Transfer, st \in Final : ReportAll(T, st)

Spec == Init /\ [][Next]_<<last, finals>>
=============================================================================
