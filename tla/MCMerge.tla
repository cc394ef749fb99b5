------------------------------- MODULE MCMerge -------------------------------
(***************************************************************************)
(* Instances of Merge for TLC.                                             *)
(***************************************************************************)
EXTENDS Merge

SmallNames == {"tests", "src", "test", "a"}

\* A directory that is purged as a whole and one that may hold a purged one.
SmallPaths == {<<"tests">>, <<"tests", "test">>, <<"src">>, <<"src", "a">>,
               <<"src", "test">>, <<"src", "test", "a">>}

\* As for JavaScript and Python, and as for Java.
SmallPurges == {{<<"tests">>}, {<<"src", "test">>}}

\* A link in the place of src leads to another directory of the checkout, to
\* one of the hidden tests beside it, or out of both.
SmallEnds == {[tree |-> "project", dir |-> <<"tests">>],
              [tree |-> "tests", dir |-> <<"tests">>],
              [tree |-> "tests", dir |-> <<"src">>],
              Elsewhere}
=============================================================================
