------------------------------ MODULE MCConsole ------------------------------
(***************************************************************************)
(* A small instance of Console for TLC: a kernel thread, a system call and *)
(* a thread that panics.                                                   *)
(***************************************************************************)
EXTENDS Console

CONSTANTS a, sys, bad

MCRequests ==
    [w \in Writers |->
        CASE w = a -> {<<Arg("d", 1), Lit(<<"\n">>)>>}
          [] w = bad -> {<<Str(<<"B">>), Lit(<<"\n">>)>>}
          [] w = sys ->
                {<<LongArg("d", n)>> : n \in {0, 128, 255}}
                \cup {<<Arg("d", n)>> : n \in {8, 23}}
                \cup {<<Arg("u", 26)>>, <<LongArg("u", 105)>>, <<LongArg("x", 10)>>,
                      <<Lit(<<"\t", "o", "\t", "\r">>), Arg("%", 0)>>,
                      <<Lit(<<Wide, Control, "o">>), Arg("z", 0), Lit(<<"\n", "\n">>)>>}]

MCCalls == [w \in Writers |-> 1]

MCHaltText == <<"0">>
=============================================================================
