----------------------------- MODULE PullPrintf -----------------------------
(***************************************************************************)
(* The download through the Telnet shell: Scout.pullPrintf                 *)
(* (internal/scout/scout.go) and PullViaPrintf                             *)
(* (internal/scout/pull_printf.go), on one session of TelnetSession.       *)
(*                                                                         *)
(* Three encoders are tried one after the other with Execute, in the same  *)
(* session, whatever became of the one before: a device may not have it,   *)
(* the file may be unreadable, and a file that takes longer than the read  *)
(* deadline is a timeout with the rest of its encoding still on its way.   *)
(* The first answer that decodes is the file.                              *)
(*                                                                         *)
(* Data: a unit of an encoding stands for a unit of the file.  "text" is   *)
(* output no decoder accepts, a diagnostic or the message of a missing     *)
(* command; "sign" is a line that ends in # or $ with no blank behind it:  *)
(* no prompt to ReadUntilBanner, but one to stripPrompt.  A greeting may   *)
(* have such lines; of an encoder it is assumed that it prints none.       *)
(* Encodings are cut between units only.  Base64 that happens to be all    *)
(* hexadecimal digits ("AAAA", of bytes that are zero) is taken for        *)
(* hexadecimal by its decoder; base64 is tried first, so its own decoder   *)
(* never meets hexadecimal.                                                *)
(***************************************************************************)
EXTENDS TelnetSession

CONSTANTS Base64,  \* the units base64 prints of the file on the device
          Hex,     \* the units both xxd -p and od -An -t x1 print of it
          HexLike  \* the units of the file whose base64 is hexadecimal digits

Size == Len(Base64)

\* What the stream has beside the units of encodings.
Others == {"text", "sign", "echo", "out", "prompt", "hash", "login", "password", "esc", "csi"}

ASSUME PullAssumption ==
         /\ NumCommands = 3 /\ Kinds = {"plain"}
         /\ Base64 \in Seq(STRING) /\ Hex \in Seq(STRING) /\ Len(Hex) = Size
         /\ \A i, j \in 1..Size :
              /\ Base64[i] # Hex[j]
              /\ Base64[i] = Base64[j] => i = j
              /\ Hex[i] = Hex[j] => i = j
         /\ \A i \in 1..Size : Base64[i] \notin Others /\ Hex[i] \notin Others
         /\ HexLike \subseteq 1..Size
         /\ \A g \in Greetings : \A i \in 1..Len(g) : g[i] \in Others

VARIABLES
  pull,   \* "trying", "written", "partly" (a failed os.WriteFile), or how it ended
  local   \* the local file

pullVars    == <<pull, local>>
sessionVars == <<clientVars, esc, buffered, wire, shellVars>>

File     == [i \in 1..Size |-> i]
OldLocal == <<0>>
Wrong    == Size + 1  \* bytes the file does not have there
Contents == Seq(0..Wrong)

\* What command c prints of the file: base64, xxd -p, od -An -t x1.
Encoding(c) == IF c = 1 THEN Base64 ELSE Hex

\* What the command prints: the file, or an error, at once or in the middle.
Prints(c) ==
  {Encoding(c), <<"text">>}
     \cup {Append(SubSeq(Encoding(c), 1, n), "text") : n \in 1..(Size - 1)}

Encodings == UNION {Prints(c) : c \in 1..3}

PullInit == Init /\ pull = "trying" /\ local = OldLocal

-----------------------------------------------------------------------------
(* The decoders *)

\* stripPrompt: the last line that ends in # or $, and all behind it, is cut off.
StripPrompt(s) ==
  IF Contains(s, "sign")
  THEN SubSeq(s, 1, (CHOOSE n \in 1..Len(s) :
                       s[n] = "sign" /\ \A i \in (n + 1)..Len(s) : s[i] # "sign") - 1)
  ELSE s

Known(c, t) == \E n \in 1..Size : Encoding(c)[n] = t
UnitOf(c, t) == IF Known(c, t) THEN CHOOSE n \in 1..Size : Encoding(c)[n] = t ELSE Wrong

\* Base64 that is taken for hexadecimal digits: they are other bytes.
Misread(c, t) == c # 1 /\ \E n \in HexLike : Base64[n] = t

\* Mutant: what is not in the alphabet is decoded too.
DecodesWhatItCan(c, a) == a # Failed

\* Execute returned no error and every character is in the alphabet of the encoding.
Decodes(c, a) ==
  a # Failed /\ LET s == StripPrompt(a.out)
                IN  \A i \in 1..Len(s) : Known(c, s[i]) \/ Misread(c, s[i])

Decoded(c, a) == LET s == StripPrompt(a.out) IN [i \in 1..Len(s) |-> UnitOf(c, s[i])]

-----------------------------------------------------------------------------
(* PullViaPrintf *)

Answer    == answer[k]
Attempted == cpc = "idle" /\ k > 0

\* The login fails or the path cannot be passed to a shell.
CannotBegin ==
  /\ pull = "trying" /\ cpc \in {"dial", "idle"} /\ k = 0
  /\ pull' = "refused"
  /\ UNCHANGED <<local, sessionVars>>

\* The next encoder, in the same session.
TryEncoder ==
  /\ pull = "trying"
  /\ cpc = "idle"
  /\ k > 0 => ~Decodes(k, Answer)
  /\ Begin("plain")
  /\ UNCHANGED pullVars

NoEncoder ==
  /\ pull = "trying"
  /\ Attempted /\ k = NumCommands
  /\ ~Decodes(k, Answer)
  /\ pull' = "refused"
  /\ UNCHANGED <<local, sessionVars>>

\* Mutant: an error of the local file is taken for one of the encoder.
WriteErrorTriesNext ==
  /\ pull = "trying"
  /\ Attempted
  /\ Decodes(k, Answer)
  /\ \/ local' = Decoded(k, Answer) /\ pull' = "written"
     \/ local' = <<>> /\ UNCHANGED pull
  /\ UNCHANGED sessionVars

\* os.WriteFile; it may fail after a part.
WriteLocal ==
  /\ pull = "trying"
  /\ Attempted
  /\ Decodes(k, Answer)
  /\ LET data == Decoded(k, Answer)
     IN \/ local' = data /\ pull' = "written"
        \/ local' \in {local} \cup {SubSeq(data, 1, n) : n \in 0..Len(data)} /\ pull' = "partly"
  /\ UNCHANGED sessionVars

Return ==
  /\ \/ pull = "written" /\ pull' = "ok"
     \/ pull = "partly" /\ pull' = "broken"
  /\ UNCHANGED <<local, sessionVars>>

PullStep == CannotBegin \/ TryEncoder \/ NoEncoder \/ WriteLocal \/ Return

\* Dial and Execute at work on the stream; a Dial that fails is in CannotBegin.
ExecuteStep == (ReadWelcome \/ Fill \/ SkipUnit \/ ReadPlain \/ TimeOut) /\ UNCHANGED pullVars

\* The shell of the device runs an encoder; what it prints once the session is
\* closed is lost.
RunEncoder ==
  /\ pull = "trying"
  /\ RunCommand
  /\ \A c \in DOMAIN made' \ DOMAIN made : made'[c].out \in Prints(c)
  /\ UNCHANGED pullVars

LoginStep == pull = "trying" /\ (LogIn \/ RunStray) /\ UNCHANGED pullVars

Ended == pull \in {"ok", "broken", "refused"}
PullDone == Ended /\ UNCHANGED <<pullVars, sessionVars>>

PullNext == PullStep \/ ExecuteStep \/ LoginStep \/ RunEncoder \/ PullDone

\* The host runs and every read deadline passes in the end; nothing is assumed
\* of the device.
PullSpec == /\ PullInit /\ [][PullNext]_<<pullVars, sessionVars>>
            /\ WF_<<pullVars, sessionVars>>(PullStep)
            /\ WF_<<pullVars, sessionVars>>(ExecuteStep)

-----------------------------------------------------------------------------
(* Properties *)

\* Types; the answers of the session are about commands that were sent.
PullTypeOK ==
  /\ TypeOK
  /\ pull \in {"trying", "written", "partly", "ok", "broken", "refused"}
  /\ local \in Contents

Tails == {SubSeq(File, n, Size) : n \in 1..(Size + 1)}

\* Without a timeout, on a device without a greeting, a download that is reported
\* as complete is the file, whichever encoder it came from and whatever the ones
\* before it printed.
AnsweredIsWhole == pull = "ok" /\ timeouts = 0 /\ greeting = <<>> => local = File

\* What the hexadecimal decoder makes of a tail of the base64.
Misreads == {[i \in 1..n |-> Wrong] : n \in {m \in 1..Size : (Size - m + 1)..Size \subseteq HexLike}}

\* Otherwise it may be what was left of the encoding of an earlier command: a tail
\* of the file, or, when what was left of the base64 is hexadecimal digits from its
\* first to its last unit, what the decoder of xxd or od makes of those.  It is never
\* anything else: no echo, no diagnostic, no greeting, and of no two encodings.
SuccessIsOneTail == pull = "ok" => local \in Tails \/ (k > 1 /\ local \in Misreads)

outcome ==
  CASE pull = "trying" -> "idle"
    [] pull \in {"written", "partly"} -> "writing"
    [] OTHER -> pull

U == INSTANCE Upload WITH dest     <- local,
                          Content  <- Contents,
                          Complete <- Contents,
                          outcome  <- outcome

\* The local file is not touched before an answer has been decoded, and not by a
\* download that ends without one; no encoder is tried after a local error.
ImplementsUpload == U!UploadSpec

\* pullPrintf returns, whatever the device does.
PullReturns == <>Ended

\* "BusyScout reports transfer errors" (README.md:117): a download without an
\* error is the file.
SuccessIsWhole == pull = "ok" => local = File
=============================================================================
