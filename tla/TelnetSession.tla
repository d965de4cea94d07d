--------------------------- MODULE TelnetSession ---------------------------
(***************************************************************************)
(* One Telnet session: the login of TelnetClient.Dial, Execute             *)
(* (internal/telnet/telnet.go) and ExecuteChecked                          *)
(* (internal/telnet/checked.go), the login program and the shell that read *)
(* the lines, and the stream between them.                                 *)
(*                                                                         *)
(* Dial types the name after every "login:" it reads and the password      *)
(* after every "Password:", until it reads what looks like a prompt: a     *)
(* greeting of the device may make it type a line to the shell, or end too *)
(* early, and every later reply is then one prompt away from its command.  *)
(*                                                                         *)
(* A command whose reply does not arrive before the read deadline is an    *)
(* error, but the session stays open and its caller may send another one.  *)
(* What the shell still prints for the first is then in the stream before  *)
(* the second.  Execute finds its output by position: it drops what the    *)
(* reader has buffered, skips as many bytes as it sent (the echo) and      *)
(* stops at the next prompt.  ExecuteChecked finds it by a fresh marker    *)
(* that the command itself prints before and after its output.             *)
(*                                                                         *)
(* Data: a token is one unit of the stream.  "echo" is one of the EchoLen  *)
(* units of an echoed command; "login" and "password" are chunks of a line *)
(* that ask, or seem to ask, for them; "out" is output; "hash" is output   *)
(* that ReadUntilBanner takes for a prompt (a line that starts with `# '); *)
(* "begin" and "end" are the frames with the marker of command `of', the   *)
(* second with the exit status; "esc" and "csi" are the two parts of the   *)
(* sequence ESC[6n, sent after each prompt by a BusyBox that asks for the  *)
(* terminal: a read may end between them.  The shell edits lines: it       *)
(* echoes a command when it reads it.                                      *)
(***************************************************************************)
EXTENDS Naturals, Sequences, SequencesExt

CONSTANTS Kinds,        \* the methods the callers use: "plain", "checked"
          NumCommands,  \* bound of the model: commands of the session
          Outputs,      \* what a command may print, sequences of "out" and "hash"
          Greetings,    \* what a device may print after the login, before the first prompt
          MaxTimeouts   \* bound of the model: commands that time out

\* Output that looks like a prompt is "hash".
ASSUME SessionAssumption ==
         /\ Kinds \subseteq {"plain", "checked"}
         /\ NumCommands \in Nat
         /\ Outputs \subseteq Seq(STRING) /\ \A o \in Outputs : ~Contains(o, "prompt")
         /\ Greetings \subseteq Seq(STRING)
         /\ MaxTimeouts \in Nat

EchoLen  == 2
Commands == 1..NumCommands
Statuses == {"zero", "nonzero"}
Results  == [out : Outputs, status : Statuses]
Failed   == [out |-> <<>>, status |-> "error"]

VARIABLES
  cpc,      \* the client: "dial", "failed", "idle", "skip", "plain", "begin", "body", "prompt"
  k,        \* the command it is at
  kind,     \* the method used for each command
  skip,     \* units SkipBytes has still to skip
  reply,    \* output collected for the command
  status,   \* the exit status of its end frame
  esc,      \* the reader has been left inside an escape sequence
  buffered, \* units in the client's bufio.Reader
  wire,     \* units printed by the shell and not yet read into it
  asks,     \* the shell asks for the terminal after each prompt
  greeting, \* what the device prints after a login
  gate,     \* who reads the input: "login" and "password", the login program, or "shell"
  input,    \* lines that have not been read yet; command 0 is the name or the password
  made,     \* what the commands that were run have printed and returned
  answer,   \* what the client has returned, command by command
  timeouts

clientVars == <<cpc, k, kind, skip, reply, status, answer, timeouts>>
device     == <<asks, greeting>>
shellVars  == <<device, gate, input, made>>
vars == <<clientVars, esc, buffered, wire, shellVars>>

Token(t) == [tok |-> t, of |-> 0, status |-> "zero"]
Frame(t, c, s) == [tok |-> t, of |-> c, status |-> s]
Tokens(s) == [i \in 1..Len(s) |-> Token(s[i])]

\* What follows a prompt.
Query(a) == IF a THEN Tokens(<<"esc", "csi">>) ELSE <<>>

Init ==
  /\ cpc = "dial"
  /\ k = 0
  /\ kind = <<>>
  /\ skip = 0
  /\ reply = <<>>
  /\ status = "zero"
  /\ esc = FALSE
  /\ buffered = <<>>
  /\ asks \in BOOLEAN
  /\ greeting \in Greetings
  /\ gate \in {"login", "shell"}
  /\ wire = IF gate = "login" THEN <<Token("login")>> ELSE <<Token("prompt")>> \o Query(asks)
  /\ input = <<>>
  /\ made = <<>>
  /\ answer = <<>>
  /\ timeouts = 0

With(f, c, v) == [x \in DOMAIN f \cup {c} |-> IF x = c THEN v ELSE f[x]]

-----------------------------------------------------------------------------
(* The login program and the shell *)

\* A name is read, then a password; the name alone may do, and either may be
\* refused.
LogIn ==
  /\ gate # "shell"
  /\ input # <<>>
  /\ \/ gate = "login" /\ gate' = "password" /\ wire' = wire \o Tokens(<<"echo", "password">>)
     \/ gate = "password" /\ gate' = "login" /\ wire' = Append(wire, Token("login"))
     \/ gate' = "shell" /\ wire' = wire \o Tokens(Append(greeting, "prompt")) \o Query(asks)
  /\ input' = Tail(input)
  /\ UNCHANGED <<clientVars, esc, buffered, device, made>>

\* The shell takes a name or a password for a command it does not have.
RunStray ==
  /\ gate = "shell"
  /\ input # <<>> /\ Head(input).command = 0
  /\ wire' = wire \o Tokens(<<"echo", "out", "prompt">>) \o Query(asks)
  /\ input' = Tail(input)
  /\ UNCHANGED <<clientVars, esc, buffered, device, gate, made>>

\* The command is echoed and run, the prompt printed, the terminal asked for.
\* The exit status of a plain command is seen by nobody.
RunCommand ==
  /\ gate = "shell"
  /\ input # <<>> /\ Head(input).command # 0
  /\ LET c == Head(input).command
         echo == [i \in 1..EchoLen |-> Token("echo")]
     IN \E r \in Results :
          /\ Head(input).kind = "plain" => r.status = "zero"
          /\ made' = With(made, c, r)
          /\ wire' = wire \o echo
                     \o (IF Head(input).kind = "checked"
                         THEN <<Frame("begin", c, "zero")>> \o Tokens(r.out)
                              \o <<Frame("end", c, r.status)>>
                         ELSE Tokens(r.out))
                     \o <<Token("prompt")>> \o Query(asks)
  /\ input' = Tail(input)
  /\ UNCHANGED <<clientVars, esc, buffered, device, gate>>

-----------------------------------------------------------------------------
(* The client *)

\* inEscape: whether unit u belongs to an escape sequence, and the state after it.
InEscape(e, u)  == e \/ u.tok = "esc"
EscapeNext(e, u) == ~e /\ u.tok = "esc"

\* Mutant: what is dropped does not go through inEscape.
DiscardRaw == buffered' = <<>> /\ UNCHANGED esc

\* The state after the units of s.
EscapeAfter(e, s) ==
  LET state[i \in 0..Len(s)] == IF i = 0 THEN e ELSE EscapeNext(state[i - 1], s[i])
  IN  state[Len(s)]

\* discardBuffered: what the reader holds is dropped, what is on its way is not.
Discard == buffered' = <<>> /\ esc' = EscapeAfter(esc, buffered)

Begin(kd) ==
  /\ cpc = "idle"
  /\ k < NumCommands
  /\ k' = k + 1
  /\ kind' = With(kind, k + 1, kd)
  /\ Discard
  /\ input' = Append(input, [command |-> k + 1, kind |-> kd])
  /\ skip' = EchoLen
  /\ reply' = <<>>
  /\ cpc' = IF kd = "plain" THEN "skip" ELSE "begin"
  /\ UNCHANGED <<status, answer, timeouts, wire, device, gate, made>>

\* The empty reader is filled with some of what has arrived.
Fill ==
  /\ cpc \notin {"idle", "failed"}
  /\ buffered = <<>>
  /\ \E n \in 1..Len(wire) :
       /\ buffered' = SubSeq(wire, 1, n)
       /\ wire' = SubSeq(wire, n + 1, Len(wire))
  /\ UNCHANGED <<clientVars, esc, shellVars>>

\* The next unit is taken from the reader.
Reads == buffered # <<>> /\ buffered' = Tail(buffered)

\* Mutant: one unit too many is skipped.
SkipOneMore ==
  /\ cpc = "skip"
  /\ Reads
  /\ skip' = IF InEscape(esc, Head(buffered)) THEN skip ELSE skip - 1
  /\ esc' = EscapeNext(esc, Head(buffered))
  /\ cpc' = IF skip = 0 THEN "plain" ELSE "skip"
  /\ UNCHANGED <<k, kind, reply, status, answer, timeouts, wire, shellVars>>

\* SkipBytes does not count escape sequences.
SkipUnit ==
  /\ cpc = "skip"
  /\ Reads
  /\ skip' = IF InEscape(esc, Head(buffered)) THEN skip ELSE skip - 1
  /\ esc' = EscapeNext(esc, Head(buffered))
  /\ cpc' = IF skip' = 0 THEN "plain" ELSE "skip"
  /\ UNCHANGED <<k, kind, reply, status, answer, timeouts, wire, shellVars>>

LooksLikePrompt(u) == u.tok \in {"prompt", "hash"}

\* waitWelcomeSigns: every chunk that contains "login:" or "Password:" is answered.
ReadWelcome ==
  /\ cpc = "dial"
  /\ Reads
  /\ input' = IF Head(buffered).tok \in {"login", "password"}
              THEN Append(input, [command |-> 0, kind |-> Head(buffered).tok])
              ELSE input
  /\ cpc' = IF LooksLikePrompt(Head(buffered)) THEN "idle" ELSE cpc
  /\ UNCHANGED <<k, kind, skip, reply, status, answer, timeouts, esc, wire, device, gate, made>>

\* No connection, or no prompt before the deadline set by Dial.
DialFails ==
  /\ cpc = "dial"
  /\ cpc' = "failed"
  /\ UNCHANGED <<k, kind, skip, reply, status, answer, timeouts, esc, buffered, wire, shellVars>>

\* ReadUntilBanner; Execute returns what came before the prompt.
ReadPlain ==
  /\ cpc = "plain"
  /\ Reads
  /\ IF LooksLikePrompt(Head(buffered))
     THEN /\ answer' = With(answer, k, [out |-> reply, status |-> "zero"])
          /\ cpc' = "idle"
          /\ UNCHANGED reply
     ELSE /\ reply' = Append(reply, Head(buffered).tok)
          /\ UNCHANGED <<cpc, answer>>
  /\ UNCHANGED <<k, kind, skip, status, timeouts, esc, wire, shellVars>>

\* Mutant: any begin frame will do.
AnyMarker ==
  /\ cpc = "begin"
  /\ Reads
  /\ cpc' = IF Head(buffered).tok = "begin" THEN "body" ELSE cpc
  /\ UNCHANGED <<k, kind, skip, reply, status, answer, timeouts, esc, wire, shellVars>>

\* Everything up to the begin frame with this command's marker is dropped.
ReadBegin ==
  /\ cpc = "begin"
  /\ Reads
  /\ cpc' = IF Head(buffered).tok = "begin" /\ Head(buffered).of = k THEN "body" ELSE cpc
  /\ UNCHANGED <<k, kind, skip, reply, status, answer, timeouts, esc, wire, shellVars>>

\* Output up to the end frame with this command's marker.
ReadBody ==
  /\ cpc = "body"
  /\ Reads
  /\ IF Head(buffered).tok = "end" /\ Head(buffered).of = k
     THEN cpc' = "prompt" /\ status' = Head(buffered).status /\ UNCHANGED reply
     ELSE reply' = Append(reply, Head(buffered).tok) /\ UNCHANGED <<cpc, status>>
  /\ UNCHANGED <<k, kind, skip, answer, timeouts, esc, wire, shellVars>>

\* ReadUntilBanner after the end frame; ExecuteChecked returns.
ReadPrompt ==
  /\ cpc = "prompt"
  /\ Reads
  /\ IF LooksLikePrompt(Head(buffered))
     THEN cpc' = "idle" /\ answer' = With(answer, k, [out |-> reply, status |-> status])
     ELSE UNCHANGED <<cpc, answer>>
  /\ UNCHANGED <<k, kind, skip, reply, status, timeouts, esc, wire, shellVars>>

\* Mutant: the deadline set by Dial is not renewed, a command later on has none.
DeadlineOfDial ==
  /\ cpc \notin {"dial", "failed", "idle"}
  /\ k = 1
  /\ timeouts' = timeouts + 1
  /\ answer' = With(answer, k, Failed)
  /\ cpc' = "idle"
  /\ UNCHANGED <<k, kind, skip, reply, status, esc, buffered, wire, shellVars>>

\* The read deadline passes; the session stays open.
TimeOut ==
  /\ cpc \notin {"dial", "failed", "idle"}
  /\ timeouts < MaxTimeouts
  /\ timeouts' = timeouts + 1
  /\ answer' = With(answer, k, Failed)
  /\ cpc' = "idle"
  /\ UNCHANGED <<k, kind, skip, reply, status, esc, buffered, wire, shellVars>>

ClientStep ==
  \/ \E kd \in Kinds : Begin(kd)
  \/ ReadWelcome \/ DialFails
  \/ Fill \/ SkipUnit \/ ReadPlain \/ ReadBegin \/ ReadBody \/ ReadPrompt \/ TimeOut

Done ==
  /\ cpc = "failed" \/ (cpc = "idle" /\ k = NumCommands)
  /\ input = <<>>
  /\ UNCHANGED vars

Next == ClientStep \/ LogIn \/ RunStray \/ RunCommand \/ Done

Spec == Init /\ [][Next]_vars

-----------------------------------------------------------------------------
(* Properties *)

TypeOK ==
  /\ cpc \in {"dial", "failed", "idle", "skip", "plain", "begin", "body", "prompt"}
  /\ k \in 0..NumCommands
  /\ DOMAIN kind = 1..k /\ \A c \in 1..k : kind[c] \in Kinds
  /\ skip \in 0..EchoLen
  /\ status \in Statuses
  /\ DOMAIN made \subseteq 1..k
  /\ \A c \in DOMAIN made : made[c] \in Results
  /\ DOMAIN answer \subseteq 1..k
  /\ timeouts \in 0..MaxTimeouts
  /\ esc \in BOOLEAN
  /\ asks \in BOOLEAN
  /\ greeting \in Greetings
  /\ gate \in {"login", "password", "shell"}

\* ExecuteChecked: whatever was left behind by the login, by commands that timed
\* out and by plain ones, an answer is the output and the exit status of the
\* command it is given for, and it comes only when everything sent before has
\* been run.  Waiting for the shell are the commands behind the last line that
\* Dial has typed.
Typed == CHOOSE n \in 0..Len(input) :
           /\ n = 0 \/ input[n].command = 0
           /\ \A i \in (n + 1)..Len(input) : input[i].command # 0
Oldest == [i \in 1..(Len(input) - Typed) |-> input[Typed + i].command]
CheckedAnswers ==
  [c \in {d \in DOMAIN answer : kind[d] = "checked"} |-> answer[c]]

S == INSTANCE Session WITH Command <- Commands,
                           Output  <- Results,
                           Failed  <- Failed,
                           sent    <- Oldest,
                           answer  <- CheckedAnswers

ImplementsSession == S!SessionSpec

\* Execute "returns whole output" (telnet.go:377): on a device that prints nothing
\* between login and prompt, and as long as no command has timed out, every answer
\* is the output of its own command, also when the terminal query arrives after
\* the prompt, whole or in two reads.
Answered(c) == c \in DOMAIN answer /\ answer[c] # Failed
PlainOwnOutput ==
  timeouts = 0 /\ greeting = <<>> =>
    \A c \in Commands : Answered(c) => c \in DOMAIN made /\ answer[c].out = made[c].out

\* In a session that is also used with ExecuteChecked (phase 2 of the detection)
\* that is too much: ExecuteChecked reads the second half of a query without
\* inEscape, the escape state is wrong from then on, and the next Execute may take
\* the end of its echo for output.  But as long as nothing has timed out and no
\* output looks like a prompt, no output is lost and nothing else is added to it.
PlainKeepsOutput ==
  timeouts = 0 /\ greeting = <<>> /\ (\A c \in DOMAIN made : ~Contains(made[c].out, "hash")) =>
    \A c \in Commands : Answered(c) /\ kind[c] = "plain" =>
      \E n \in 0..EchoLen : answer[c].out = [i \in 1..n |-> "echo"] \o made[c].out
=============================================================================
