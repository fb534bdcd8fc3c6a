------------------------------- MODULE MCTask -------------------------------
(* A small instance of Task for TLC: the threads initialize_tasks() creates. *)
EXTENDS Task

CONSTANTS usermode_function, usermode_function2, do_sth

MCUsers   == {usermode_function, usermode_function2}
MCWorkers == {do_sth}
=============================================================================
