-------------------------- MODULE MCTelnetSession --------------------------
(* Instances of TelnetSession for TLC. *)
EXTENDS TelnetSession

\* Output with and without a line that looks like a prompt in it.
AnyOutput == {<<"out">>, <<"hash", "out">>}

\* A greeting may look like a question for the name: a line is typed to the shell.
AnyGreeting == {<<>>, <<"login">>}
=============================================================================
