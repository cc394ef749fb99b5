------------------------------- MODULE MCReport -------------------------------
(***************************************************************************)
(* Instances of Report for TLC.                                            *)
(***************************************************************************)
EXTENDS Report

NoOther == [passed |-> 0, failed |-> 0, skipped |-> 0]

\* Nothing, and suites just below 20000 tests.
SmallAndLarge ==
  {NoOther, [NoOther EXCEPT !.passed = 19998], [NoOther EXCEPT !.failed = 19998]}
=============================================================================
