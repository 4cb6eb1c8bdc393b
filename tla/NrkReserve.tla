----------------------------- MODULE NrkReserve -----------------------------
(***************************************************************************)
(* Access reserves, nrk_reserve.c: a resource may be used set_access times *)
(* per period.  The moment of replenishment set_time is kept relative to   *)
(* the clock: left is the number of ticks until it, 0 once it has come.    *)
(***************************************************************************)
EXTENDS Integers

CONSTANT MaxReserves            \* NRK_MAX_RESERVES

ASSUME ReserveAssumption == MaxReserves \in Nat

VARIABLE nrk_reserve            \* _nrk_reserve[]

ReserveId == 0..MaxReserves-1

ReserveTypeOK ==
  nrk_reserve \in [ReserveId -> [active : BOOLEAN, period_ticks : Nat, left : Nat,
                                 set_access : Nat, cur_access : Nat]]

\* _nrk_reserve_init
ReserveInit ==
  nrk_reserve = [i \in ReserveId |-> [active |-> FALSE, period_ticks |-> 0,
                                      left |-> 0, set_access |-> 0,
                                      cur_access |-> 0]]

\* The slot nrk_reserve_create takes: the first that is not in use.
FreeReserve(i) ==
  /\ i \in ReserveId /\ ~nrk_reserve[i].active
  /\ \A j \in ReserveId : j < i => nrk_reserve[j].active

\* nrk_reserve_create followed by nrk_reserve_set for p ticks and n accesses.
CreateAndSet(i, p, n) ==
  nrk_reserve' = [nrk_reserve EXCEPT ![i] =
    [active |-> TRUE, period_ticks |-> p, left |-> p, set_access |-> n,
     cur_access |-> 0]]

\* _nrk_reserve_update: lazily, at the first use after the period.
Updated(r) ==
  IF r.left = 0 THEN [r EXCEPT !.left = r.period_ticks, !.cur_access = 0] ELSE r

UpdateReserve(i) == nrk_reserve' = [nrk_reserve EXCEPT ![i] = Updated(@)]

\* The test of nrk_reserve_consume, made on the updated reserve.
Exhausted(i) == Updated(nrk_reserve[i]).set_access <= Updated(nrk_reserve[i]).cur_access

\* The access nrk_reserve_consume takes when the test let it.
TakeAccess(i) == nrk_reserve' = [nrk_reserve EXCEPT ![i].cur_access = @ + 1]

\* Fault: set_time is taken for an unsigned distance.
AgeAlways ==
  nrk_reserve' = [i \in ReserveId |-> [nrk_reserve[i] EXCEPT !.left = @ - 1]]

\* A tick of the clock brings the replenishment of every reserve nearer.
AgeReserves ==
  nrk_reserve' = [i \in ReserveId |->
    [nrk_reserve[i] EXCEPT !.left = IF @ = 0 THEN 0 ELSE @ - 1]]

=============================================================================
