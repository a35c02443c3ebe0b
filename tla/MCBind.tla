------------------------------- MODULE MCBind -------------------------------
(***************************************************************************)
(* TLC instance of DriverCarBind.                                          *)
(***************************************************************************)
EXTENDS DriverCarBind, TLC

CONSTANTS d1, d2, c1, c2, t1, t2

\* Drivers, cars and threads are interchangeable.
Alike == Permutations({d1, d2}) \cup Permutations({c1, c2}) \cup Permutations({t1, t2})

\* Nothing is claimed once handlers met, and it stays so.
Claimed == ~disorder
=============================================================================
