------------------------------- MODULE MCSlip -------------------------------
\* Slip with short frames that hold the marks of the protocol.
EXTENDS Slip

Marks == {<<193>>, <<192, 219>>}

=============================================================================
