----------------------------- MODULE MCJobLock ------------------------------
(* Three instances of the server, each with a timer and a button.          *)
EXTENDS JobLock, TLC
=============================================================================
