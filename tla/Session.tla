------------------------------ MODULE Session ------------------------------
(***************************************************************************)
(* What a caller of a Telnet session counts on: the shell runs the         *)
(* commands it was sent in their order, and a command is answered only     *)
(* with what the shell made of that very command.  The client may give a   *)
(* command up; the shell then runs it all the same, before the next one.   *)
(*                                                                         *)
(* PrintfPush and Transfer build on this contract (an answer means that    *)
(* everything sent before has been run); TelnetSession shows that          *)
(* TelnetClient.ExecuteChecked (internal/telnet/checked.go) keeps it.      *)
(***************************************************************************)
EXTENDS Naturals, Sequences

CONSTANTS Command,  \* the commands of the session
          Output,   \* what a command may print and how it may end
          Failed    \* the answer to a command that was given up

VARIABLES sent,     \* commands sent and not yet run
          made,     \* what the shell made of the commands it has run
          answer    \* what the client has returned for its commands

sessionVars == <<sent, made, answer>>

Unanswered == Command \ DOMAIN answer

\* The functions f with c mapped to v.
With(f, c, v) == [x \in DOMAIN f \cup {c} |-> IF x = c THEN v ELSE f[x]]

SessionInit == sent = <<>> /\ made = <<>> /\ answer = <<>>

Send(c) ==
  /\ c \in Unanswered /\ c \notin DOMAIN made
  /\ sent' = Append(sent, c)
  /\ UNCHANGED <<made, answer>>

RunOldest ==
  /\ sent # <<>>
  /\ \E o \in Output : made' = With(made, Head(sent), o)
  /\ sent' = Tail(sent)
  /\ UNCHANGED answer

\* Everything sent so far has been run.
Answer(c) ==
  /\ c \in Unanswered
  /\ sent = <<>>
  /\ c \in DOMAIN made
  /\ answer' = With(answer, c, made[c])
  /\ UNCHANGED <<sent, made>>

GiveUp(c) ==
  /\ c \in Unanswered
  /\ answer' = With(answer, c, Failed)
  /\ UNCHANGED <<sent, made>>

SessionNext == RunOldest \/ \E c \in Command : Send(c) \/ Answer(c) \/ GiveUp(c)

SessionSpec == SessionInit /\ [][SessionNext]_sessionVars
=============================================================================
