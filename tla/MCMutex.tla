------------------------------ MODULE MCMutex ------------------------------
\* NrkMutex with the applications of TaskSets.
EXTENDS NrkMutex, TaskSets

=============================================================================
