---------------------------- MODULE MCPullPrintf ----------------------------
(* Instances of PullPrintf for TLC: one command for each of the encoders. *)
EXTENDS PullPrintf

TwoInBase64   == <<"b1", "b2">>
TwoInHex      == <<"h1", "h2">>
ThreeInBase64 == <<"b1", "b2", "b3">>
ThreeInHex    == <<"h1", "h2", "h3">>

NoGreeting == {<<>>}

\* A greeting may ask for the name again, or look like a prompt, also to stripPrompt
\* and in what the first encoder gets for its answer.
AnyGreeting == {<<>>, <<"login">>, <<"hash", "out", "out", "sign">>}
=============================================================================
