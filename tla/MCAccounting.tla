---------------------------- MODULE MCAccounting ----------------------------
\* NrkAccounting with the applications of TaskSets.
EXTENDS NrkAccounting, TaskSets

=============================================================================
