----------------------------- MODULE MCReadyList -----------------------------
\* ReadyList for TLC.
EXTENDS ReadyList

ByNumber == [t \in {0} \cup User |-> t]
CeilingTwo == [t \in {0} \cup User |-> IF t = 0 THEN 0 ELSE 2]

=============================================================================
