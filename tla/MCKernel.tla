------------------------------ MODULE MCKernel ------------------------------
\* NrkKernel with the applications of TaskSets.
EXTENDS NrkKernel, TaskSets

=============================================================================
