---------------------------- MODULE SchedulerMC -----------------------------
(* Small instances of the scheduler: a clock of twelve milliseconds.        *)
EXTENDS EspScheduler

OneTask == {0}
TwoTasks == {0, 1}
Starts == [id \in Ids |-> IF id[1] = "interval" THEN 1 ELSE 2]
Steps == [i \in Periodic |-> 2]
Owner == [k \in Keys |-> "P001"]

\* Settings to start with: a device page may change the device to the other one, and
\* of the tasks with a remote feed only one that is to be read differs from a local one.
Given ==
  \A t \in Tasks : device[t] = "P001" /\ (remote[t] => enabled[t] /\ interval[t] # 0)
MCInit == Init /\ Given
MCSpec == MCInit /\ [][Next]_vars /\ Fairness
=============================================================================
