------------------------------- MODULE Absent -------------------------------
(* The value the models share for what is not there: a record that does not    *)
(* exist, a call that is not running, a token that was not given.              *)
CONSTANT Nil
=============================================================================
