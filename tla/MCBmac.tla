------------------------------- MODULE MCBmac -------------------------------
(* Constants of the B-MAC runs. *)
EXTENDS Bmac

\* Every task that waits for the MAC task above it, who switches it off below.
UsersAbove ==
  [t \in Task |-> CASE t \in TxTask -> 4 [] t = Rx -> 3 [] t = Mac -> 2 [] OTHER -> 1]

\* The example of the repository: every application task below the MAC task.
MacAbove ==
  [t \in Task |-> CASE t = Mac -> 4 [] t = Rx -> 3 [] t \in TxTask -> 2 [] OTHER -> 1]

=============================================================================
