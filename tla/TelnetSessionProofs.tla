------------------------ MODULE TelnetSessionProofs ------------------------
(***************************************************************************)
(* Theorems about TelnetSession, for every number of commands and of       *)
(* timeouts, every mixture of plain and checked commands, every output and *)
(* every greeting of the device: the refinement of Session by checked      *)
(* commands, and what the answers of plain ones are made of.               *)
(***************************************************************************)
EXTENDS TelnetSession, SequenceTheorems, NaturalsInduction, WellFoundedInduction, TLAPS

USE SessionAssumption

-----------------------------------------------------------------------------
(* The inductive invariant *)

\* The names of the units of the stream: strings, as those are that the model
\* gives a meaning.
Names == STRING \cup {"echo", "out", "login", "password", "prompt", "esc", "csi", "begin", "end"}
Units == [tok : Names, of : Nat, status : Statuses]
Lines == [command : Nat, kind : Kinds \cup {"login", "password"}]

\* What the client has not read yet, whether it is in the reader or on the wire.
stream == buffered \o wire

Busy == {"skip", "plain", "begin", "body", "prompt"}

\* The kinds of the variables, as far as checked commands depend on them.
SessionType ==
  /\ cpc \in {"dial", "failed", "idle"} \cup Busy
  /\ k \in 0..NumCommands
  /\ kind \in [1..k -> Kinds]
  /\ reply \in Seq(Names)
  /\ status \in Statuses
  /\ buffered \in Seq(Units)
  /\ wire \in Seq(Units)
  /\ asks \in BOOLEAN
  /\ greeting \in Greetings
  /\ gate \in {"login", "password", "shell"}
  /\ input \in Seq(Lines)
  /\ answer = [c \in DOMAIN answer |-> answer[c]]
  /\ DOMAIN answer \subseteq 1..k
  /\ made = [c \in DOMAIN made |-> made[c]]
  /\ \A c \in DOMAIN made : made[c] \in Results

\* The client is busy with a command it has not answered, by one of two methods.
ClientInv ==
  /\ cpc = "dial" => k = 0
  /\ cpc \in Busy => k > 0 /\ k \notin DOMAIN answer
  /\ cpc \in {"skip", "plain"} => kind[k] = "plain"
  /\ cpc \in {"begin", "body", "prompt"} => kind[k] = "checked"

\* Of the n lines of the input that Dial has typed and the last commands after
\* them: in is what waits for the shell when kk commands have been sent, by the
\* methods kd, and those before them have been run, as md tells.
Waits(in, kk, kd, md, n) ==
  /\ n \in 0..Len(in)
  /\ Len(in) - n <= kk
  /\ \A i \in 1..n : in[i].command = 0
  /\ \A i \in (n + 1)..Len(in) :
        in[i].command = kk - Len(in) + i /\ in[i].kind = kd[in[i].command]
  /\ DOMAIN md = 1..(kk - Len(in) + n)
Waiting(n) == Waits(input, k, kind, made, n)

\* Nothing that looks like a prompt is printed before the shell is there.
LoginInv ==
  gate # "shell" =>
    /\ cpc \in {"dial", "failed"} /\ k = 0
    /\ \A i \in 1..Len(stream) : ~LooksLikePrompt(stream[i])

\* Frames in the stream are those of commands that have been run.
FramesInv ==
  \A i \in 1..Len(stream) :
    stream[i].of # 0 => stream[i].tok \in {"begin", "end"} /\ stream[i].of \in DOMAIN made

\* The stream s from place p on: what command c has printed, result r, without
\* its first m units, and its end frame.
Rest(s, p, c, r, m) ==
  /\ p + Len(r.out) - m <= Len(s)
  /\ \A i \in 1..(Len(r.out) - m) : s[p + i - 1] = Token(r.out[m + i])
  /\ s[p + Len(r.out) - m] = Frame("end", c, r.status)

\* The stream s has what command c has printed, and at place p its only begin frame.
Framed(s, p, c, r) ==
  /\ p \in 1..Len(s)
  /\ s[p] = Frame("begin", c, "zero")
  /\ Rest(s, p + 1, c, r, 0)
  /\ \A i \in 1..Len(s) : s[i].of = c /\ s[i].tok = "begin" => i = p

\* A client that waits for its marker will find it before the output of its own
\* command, or the command has not been run; then it reads that output.
FramedInv ==
  /\ cpc = "begin" => reply = <<>>
  /\ cpc = "begin" /\ k \in DOMAIN made => \E p \in Nat : Framed(stream, p, k, made[k])
  /\ cpc = "body" =>
       /\ k \in DOMAIN made
       /\ Len(reply) <= Len(made[k].out)
       /\ \A i \in 1..Len(reply) : reply[i] = made[k].out[i]
       /\ Rest(stream, 1, k, made[k], Len(reply))
  /\ cpc = "prompt" => k \in DOMAIN made /\ reply = made[k].out /\ status = made[k].status

IInv == SessionType /\ ClientInv /\ (\E n \in Nat : Waiting(n)) /\ LoginInv /\ FramesInv /\ FramedInv

-----------------------------------------------------------------------------
(* Lemmas about the stream *)

\* Plain units, and the units that a result is printed as.
LEMMA TokensAreUnits ==
  ASSUME NEW s \in Seq(Names)
  PROVE  /\ Tokens(s) \in Seq(Units) /\ Len(Tokens(s)) = Len(s)
         /\ \A i \in 1..Len(s) : Tokens(s)[i] = Token(s[i]) /\ Tokens(s)[i].of = 0
<1>1. \A i \in 1..Len(s) : Token(s[i]) \in Units
  BY DEF Token, Units, Statuses
<1>2. Tokens(s) \in [1..Len(s) -> Units]
  BY <1>1 DEF Tokens
<1> QED BY <1>2, SeqDef DEF Tokens, Token

\* A result is output and a status.
LEMMA ResultType ==
  ASSUME NEW r \in Results
  PROVE  r.out \in Seq(Names) /\ r.status \in Statuses
         /\ r = [out |-> r.out, status |-> r.status]
<1>1. Seq(STRING) \subseteq Seq(Names)
  BY SeqMonotonic DEF Names
<1> QED BY <1>1 DEF Results

\* Reading takes the first unit of the stream.
LEMMA ReadsFirst ==
  ASSUME SessionType, Reads, UNCHANGED wire
  PROVE  /\ Len(stream) > 0 /\ Head(buffered) = stream[1]
         /\ buffered' \in Seq(Units)
         /\ Len(stream') = Len(stream) - 1
         /\ \A i \in 1..Len(stream') : stream'[i] = stream[i + 1]
         /\ Head(buffered) \in Units
<1>1. /\ buffered \in Seq(Units) /\ wire \in Seq(Units) /\ wire' = wire
      /\ buffered # <<>> /\ buffered' = Tail(buffered)
  BY DEF SessionType, Reads
<1>2. /\ Head(buffered) = buffered[1] /\ Head(buffered) \in Units
      /\ buffered' \in Seq(Units) /\ Len(buffered) \in Nat \ {0}
      /\ Len(buffered') = Len(buffered) - 1
      /\ \A i \in 1..Len(buffered') : buffered'[i] = buffered[i + 1]
  BY <1>1, HeadTailProperties, EmptySeq
<1>3. /\ Len(stream) = Len(buffered) + Len(wire) /\ Len(wire) \in Nat
      /\ \A i \in 1..Len(stream) : stream[i] = IF i <= Len(buffered) THEN buffered[i] ELSE wire[i - Len(buffered)]
  BY <1>1, ConcatProperties DEF stream
<1>4. /\ Len(stream') = Len(buffered') + Len(wire)
      /\ \A i \in 1..Len(stream') : stream'[i] = IF i <= Len(buffered') THEN buffered'[i] ELSE wire[i - Len(buffered')]
  BY <1>1, <1>2, ConcatProperties DEF stream
<1>5. \A i \in 1..Len(stream') : stream'[i] = stream[i + 1]
  <2> TAKE i \in 1..Len(stream')
  <2>1. i + 1 \in 1..Len(stream)
    BY <1>2, <1>3, <1>4
  <2>2. CASE i <= Len(buffered')
    BY <1>2, <1>3, <1>4, <2>1, <2>2
  <2>3. CASE i > Len(buffered')
    <3>1. stream'[i] = wire[i - Len(buffered')] /\ stream[i + 1] = wire[i + 1 - Len(buffered)]
      BY <1>2, <1>3, <1>4, <2>1, <2>3
    <3> QED BY <1>2, <3>1
  <2> QED BY <1>2, <2>2, <2>3
<1> QED BY <1>2, <1>3, <1>4, <1>5

\* Filling the reader moves the stream along.
LEMMA FillMoves ==
  ASSUME SessionType, Fill
  PROVE  buffered' \in Seq(Units) /\ wire' \in Seq(Units) /\ stream' = stream
<1>1. buffered = <<>> /\ wire \in Seq(Units) /\ Len(wire) \in Nat
  BY DEF Fill, SessionType
<1>2. PICK n \in 1..Len(wire) : buffered' = SubSeq(wire, 1, n) /\ wire' = SubSeq(wire, n + 1, Len(wire))
  BY DEF Fill
<1>3. buffered' \in Seq(Units) /\ wire' \in Seq(Units)
  BY <1>1, <1>2
<1>4. SubSeq(wire, 1, n) \o SubSeq(wire, n + 1, Len(wire)) = wire
  BY <1>1, ConcatAdjacentSubSeq, SubSeqFull
<1>5. <<>> \o wire = wire
  BY <1>1, ConcatEmptySeq
<1> QED BY <1>1, <1>2, <1>3, <1>4, <1>5 DEF stream

\* The places of x, which is put together from s and t.
Splits(x, s, t) ==
  /\ x \in Seq(Units)
  /\ Len(s) \in Nat /\ Len(t) \in Nat /\ Len(x) = Len(s) + Len(t)
  /\ \A i \in 1..Len(s) : x[i] = s[i]
  /\ \A i \in 1..Len(t) : x[Len(s) + i] = t[i]
  /\ \A i \in 1..Len(x) : i \in 1..Len(s) \/ \E j \in 1..Len(t) : i = Len(s) + j

LEMMA Joined ==
  ASSUME NEW s \in Seq(Units), NEW t \in Seq(Units)
  PROVE  s \o t \in Seq(Units) /\ Splits(s \o t, s, t)
<1>1. Len(s) \in Nat /\ Len(t) \in Nat /\ s \o t \in Seq(Units)
  BY ConcatProperties
<1>2. /\ Len(s \o t) = Len(s) + Len(t)
      /\ \A i \in 1..(Len(s) + Len(t)) : (s \o t)[i] = IF i <= Len(s) THEN s[i] ELSE t[i - Len(s)]
  BY ConcatProperties
<1>3. \A i \in 1..Len(t) : Len(s) + i \in 1..(Len(s) + Len(t)) /\ Len(s) + i - Len(s) = i
  BY <1>1
<1>4. \A i \in 1..Len(t) : (s \o t)[Len(s) + i] = t[i]
  <2> TAKE i \in 1..Len(t)
  <2>1. ~(Len(s) + i <= Len(s))
    BY <1>1
  <2> QED BY <1>2, <1>3, <2>1
<1>5. \A i \in 1..Len(s) : (s \o t)[i] = s[i]
  BY <1>1, <1>2
<1>6. ASSUME NEW i \in 1..Len(s \o t)
      PROVE  i \in 1..Len(s) \/ \E j \in 1..Len(t) : i = Len(s) + j
  <2>1. i \in 1..Len(s) \/ (i - Len(s) \in 1..Len(t) /\ i = Len(s) + (i - Len(s)))
    BY <1>1, <1>2
  <2> QED BY <2>1
<1> QED BY <1>1, <1>2, <1>4, <1>5, <1>6 DEF Splits

\* Without frames in either part there are none.
LEMMA NoFrames ==
  ASSUME NEW x, NEW s, NEW t, Splits(x, s, t),
         \A i \in 1..Len(s) : s[i].of = 0, \A i \in 1..Len(t) : t[i].of = 0
  PROVE  \A i \in 1..Len(x) : x[i].of = 0
<1> TAKE i \in 1..Len(x)
<1>1. CASE i \in 1..Len(s)
  BY <1>1 DEF Splits
<1>2. ASSUME NEW j \in 1..Len(t), i = Len(s) + j PROVE x[i].of = 0
  BY <1>2 DEF Splits
<1> QED BY <1>1, <1>2 DEF Splits

\* Printing adds to the end of the stream.
LEMMA PrintsLast ==
  ASSUME SessionType, NEW x \in Seq(Units), wire' = wire \o x, UNCHANGED buffered
  PROVE  /\ wire' \in Seq(Units)
         /\ Len(stream) \in Nat /\ Len(x) \in Nat /\ Len(stream') = Len(stream) + Len(x)
         /\ \A i \in 1..Len(stream) : stream'[i] = stream[i]
         /\ \A i \in 1..Len(x) : stream'[Len(stream) + i] = x[i]
         /\ \A i \in 1..Len(stream') : i \in 1..Len(stream) \/ \E j \in 1..Len(x) : i = Len(stream) + j
<1>1. buffered \in Seq(Units) /\ wire \in Seq(Units) /\ buffered' = buffered
  BY DEF SessionType
<1>2. wire' \in Seq(Units)
  BY <1>1, Joined
<1>3. stream \in Seq(Units)
  BY <1>1, Joined DEF stream
<1>4. buffered \o (wire \o x) = (buffered \o wire) \o x
  BY <1>1, ConcatAssociative
<1>5. stream' = stream \o x
  BY <1>1, <1>4 DEF stream
<1>6. Splits(stream \o x, stream, x)
  BY <1>3, Joined
<1> QED BY <1>2, <1>5, <1>6 DEF Splits

\* What the shell prints for command c of kind kd with result r.
Printed(c, kd, r, a) ==
  [i \in 1..EchoLen |-> Token("echo")]
  \o (IF kd = "checked"
      THEN <<Frame("begin", c, "zero")>> \o Tokens(r.out) \o <<Frame("end", c, r.status)>>
      ELSE Tokens(r.out))
  \o <<Token("prompt")>> \o Query(a)

\* A query of the terminal is no frame.
LEMMA QueryType ==
  ASSUME NEW a \in BOOLEAN
  PROVE  Query(a) \in Seq(Units) /\ \A i \in 1..Len(Query(a)) : Query(a)[i].of = 0
<1>1. "esc" \in Names /\ "csi" \in Names
  BY DEF Names
<1>2. <<"esc", "csi">> \in Seq(Names)
  BY <1>1
<1>3. Tokens(<<"esc", "csi">>) \in Seq(Units)
      /\ \A i \in 1..Len(Tokens(<<"esc", "csi">>)) : Tokens(<<"esc", "csi">>)[i].of = 0
  BY <1>2, TokensAreUnits
<1>4. <<>> \in Seq(Units) /\ \A i \in 1..Len(<<>>) : FALSE
  BY EmptySeq
<1> QED BY <1>3, <1>4 DEF Query

\* What x, printed for command c of kind kd with result r, adds to the stream: between
\* the frames of a checked command there is its output, and no frames elsewhere.
Adds(x, c, kd, r) ==
  /\ kd = "checked" =>
       /\ Len(r.out) \in Nat /\ Len(r.out) + 4 <= Len(x)
       /\ x[3] = Frame("begin", c, "zero")
       /\ \A i \in 1..Len(r.out) : x[3 + i] = Token(r.out[i])
       /\ x[Len(r.out) + 4] = Frame("end", c, r.status)
       /\ \A i \in 1..Len(x) : i = 3 \/ i = Len(r.out) + 4 \/ x[i].of = 0
  /\ kd = "plain" => \A i \in 1..Len(x) : x[i].of = 0

\* Functions of 1..n are sequences, and the echo is one.
LEMMA FunctionIsSeq ==
  ASSUME NEW n \in Nat, NEW e \in [1..n -> Units]
  PROVE  e \in Seq(Units) /\ Len(e) = n
<1>1. e \in Seq(Units)
  BY SeqDef
<1> QED BY <1>1, LenProperties

LEMMA EchoType ==
  ASSUME NEW u \in Units
  PROVE  LET e == [i \in 1..EchoLen |-> u] IN
           e \in Seq(Units) /\ Len(e) = 2 /\ \A i \in 1..2 : e[i] = u
<1> DEFINE e == [i \in 1..EchoLen |-> u]
<1>1. e \in [1..2 -> Units] /\ \A i \in 1..2 : e[i] = u
  BY DEF EchoLen
<1> HIDE DEF e
<1>2. e \in Seq(Units) /\ Len(e) = 2
  BY <1>1, FunctionIsSeq
<1>3. e \in Seq(Units) /\ Len(e) = 2 /\ \A i \in 1..2 : e[i] = u
  BY <1>1, <1>2
<1> QED BY <1>3 DEF e

\* What RunCommand prints is as Adds says.
LEMMA PrintedUnits ==
  ASSUME NEW c \in Nat, NEW kd \in Kinds, NEW r \in Results, NEW a \in BOOLEAN
  PROVE  Printed(c, kd, r, a) \in Seq(Units) /\ Adds(Printed(c, kd, r, a), c, kd, r)
<1> DEFINE echo == [i \in 1..EchoLen |-> Token("echo")]
           out == Tokens(r.out)
           begin == <<Frame("begin", c, "zero")>>
           end == <<Frame("end", c, r.status)>>
           prompt == <<Token("prompt")>>
           query == Query(a)
<1>0. Names # {} /\ {"echo", "prompt", "begin", "end"} \subseteq Names /\ r.status \in Statuses /\ "zero" \in Statuses
  BY ResultType DEF Names, Statuses
<1>1. /\ echo \in Seq(Units) /\ Len(echo) = 2 /\ \A i \in 1..2 : echo[i].of = 0
  <2>1. Token("echo") \in Units /\ Token("echo").of = 0
    BY <1>0 DEF Token, Units
  <2> QED BY <2>1, EchoType
<1>2. out \in Seq(Units) /\ Len(out) = Len(r.out) /\ Len(r.out) \in Nat
      /\ \A i \in 1..Len(r.out) : out[i] = Token(r.out[i]) /\ out[i].of = 0
  BY TokensAreUnits, ResultType
<1>3. /\ begin \in Seq(Units) /\ Len(begin) = 1 /\ begin[1] = Frame("begin", c, "zero")
      /\ end \in Seq(Units) /\ Len(end) = 1 /\ end[1] = Frame("end", c, r.status)
      /\ prompt \in Seq(Units) /\ Len(prompt) = 1 /\ prompt[1].of = 0
  <2>1. Frame("begin", c, "zero") \in Units /\ Frame("end", c, r.status) \in Units
        /\ Token("prompt") \in Units /\ Token("prompt").of = 0
    BY <1>0 DEF Frame, Token, Units
  <2> QED BY <2>1
<1>4. query \in Seq(Units) /\ \A i \in 1..Len(query) : query[i].of = 0
  BY QueryType
<1>5. CASE kd = "checked"
  <2>0. Printed(c, kd, r, a) = ((echo \o ((begin \o out) \o end)) \o prompt) \o query
    BY <1>5 DEF Printed
  <2> DEFINE f == begin \o out
             g == f \o end
             h == echo \o g
             l == h \o prompt
             x == l \o query
  <2> HIDE DEF echo, out, begin, end, prompt, query
  <2>1. /\ f \in Seq(Units) /\ Len(f) = 1 + Len(r.out) /\ f[1] = Frame("begin", c, "zero")
        /\ \A i \in 1..Len(r.out) : f[1 + i] = Token(r.out[i])
        /\ \A i \in 1..(1 + Len(r.out)) : i = 1 \/ f[i].of = 0
    <3>1. Splits(f, begin, out)
      BY <1>2, <1>3, Joined
    <3> HIDE DEF f
    <3>2. f \in Seq(Units) /\ Len(f) = 1 + Len(r.out)
      BY <1>2, <1>3, <3>1 DEF Splits
    <3>3. f[1] = Frame("begin", c, "zero")
      BY <1>3, <3>1 DEF Splits
    <3>4. \A i \in 1..Len(r.out) : f[1 + i] = out[i]
      BY <1>2, <1>3, <3>1 DEF Splits
    <3>5. ASSUME NEW i \in 1..(1 + Len(r.out)) PROVE i = 1 \/ f[i].of = 0
      <4>1. i = 1 \/ (i - 1 \in 1..Len(r.out) /\ i = 1 + (i - 1))
        BY <1>2
      <4> QED BY <1>2, <3>4, <4>1
    <3> QED BY <1>2, <3>2, <3>3, <3>4, <3>5
  <2> HIDE DEF f
  <2>2. /\ g \in Seq(Units) /\ Len(g) = 2 + Len(r.out) /\ g[1] = Frame("begin", c, "zero")
        /\ \A i \in 1..Len(r.out) : g[1 + i] = Token(r.out[i])
        /\ g[2 + Len(r.out)] = Frame("end", c, r.status)
        /\ \A i \in 1..(2 + Len(r.out)) : i = 1 \/ i = 2 + Len(r.out) \/ g[i].of = 0
    <3> DEFINE n == 1 + Len(r.out)
    <3>1. n \in Nat /\ n + 1 = 2 + Len(r.out) /\ \A i \in 1..Len(r.out) : 1 + i \in 1..n
      BY <1>2
    <3>2. 1 \in 1..n /\ 1 \in 1..1
      BY <1>2
    <3> HIDE DEF n
    <3>3. /\ g \in Seq(Units) /\ Len(g) = n + 1
          /\ \A i \in 1..n : g[i] = f[i]
          /\ \A i \in 1..1 : g[n + i] = end[i]
          /\ \A i \in 1..(n + 1) : i \in 1..n \/ \E j \in 1..1 : i = n + j
      <4>1. Len(f) = n
        BY <2>1 DEF n
      <4>2. Splits(g, f, end)
        BY <1>3, <2>1, Joined
      <4> HIDE DEF g
      <4> QED BY <1>3, <3>1, <4>1, <4>2 DEF Splits
    <3> HIDE DEF g
    <3>4. \A i \in 1..n : i = 1 \/ f[i].of = 0
      BY <2>1 DEF n
    <3>5. g[n + 1] = Frame("end", c, r.status)
      BY <1>3, <3>2, <3>3
    <3>6. \A i \in 1..(n + 1) : i = 1 \/ i = n + 1 \/ g[i].of = 0
      BY <3>3, <3>4
    <3> QED BY <2>1, <3>1, <3>2, <3>3, <3>5, <3>6
  <2> HIDE DEF g
  <2>3. /\ h \in Seq(Units) /\ Len(h) = 4 + Len(r.out) /\ h[3] = Frame("begin", c, "zero")
        /\ \A i \in 1..Len(r.out) : h[3 + i] = Token(r.out[i])
        /\ h[4 + Len(r.out)] = Frame("end", c, r.status)
        /\ \A i \in 1..(4 + Len(r.out)) : i = 3 \/ i = 4 + Len(r.out) \/ h[i].of = 0
    <3>1. /\ h \in Seq(Units) /\ Len(h) = 4 + Len(r.out)
          /\ \A i \in 1..2 : h[i] = echo[i]
          /\ \A i \in 1..(2 + Len(r.out)) : h[2 + i] = g[i]
          /\ \A i \in 1..(4 + Len(r.out)) : i \in 1..2 \/ \E j \in 1..(2 + Len(r.out)) : i = 2 + j
      <4>1. 2 + Len(r.out) \in Nat /\ 2 + (2 + Len(r.out)) = 4 + Len(r.out) /\ 2 \in Nat
        BY <1>2
      <4>2. /\ h \in Seq(Units) /\ Len(h) = 2 + (2 + Len(r.out))
            /\ \A i \in 1..2 : h[i] = echo[i]
            /\ \A i \in 1..(2 + Len(r.out)) : h[2 + i] = g[i]
            /\ \A i \in 1..(2 + (2 + Len(r.out))) : i \in 1..2 \/ \E j \in 1..(2 + Len(r.out)) : i = 2 + j
        <5>1. Splits(h, echo, g)
          BY <1>1, <2>2, Joined
        <5> HIDE DEF h
        <5> QED BY <1>1, <2>2, <4>1, <5>1 DEF Splits
      <4> HIDE DEF h
      <4> QED BY <4>1, <4>2
    <3>2. h[3] = g[1] /\ h[4 + Len(r.out)] = g[2 + Len(r.out)]
      <4>1. 1 \in 1..(2 + Len(r.out)) /\ 2 + Len(r.out) \in 1..(2 + Len(r.out))
            /\ 2 + 1 = 3 /\ 2 + (2 + Len(r.out)) = 4 + Len(r.out)
        BY <1>2
      <4> QED BY <3>1, <4>1
    <3>3. \A i \in 1..Len(r.out) : 1 + i \in 1..(2 + Len(r.out)) /\ 2 + (1 + i) = 3 + i
      BY <1>2
    <3>4. \A i \in 1..Len(r.out) : h[3 + i] = g[1 + i]
      BY <3>1, <3>3
    <3>5. \A i \in 1..(4 + Len(r.out)) : i = 3 \/ i = 4 + Len(r.out) \/ h[i].of = 0
      <4> TAKE i \in 1..(4 + Len(r.out))
      <4>1. CASE i \in 1..2
        BY <1>1, <3>1, <4>1
      <4>2. ASSUME NEW j \in 1..(2 + Len(r.out)), i = 2 + j PROVE i = 3 \/ i = 4 + Len(r.out) \/ h[i].of = 0
        BY <1>2, <2>2, <3>1, <4>2
      <4> QED BY <3>1, <4>1, <4>2
    <3> HIDE DEF h
    <3> QED BY <2>2, <3>1, <3>2, <3>4, <3>5
  <2> HIDE DEF h
  <2>4. /\ l \in Seq(Units) /\ Len(l) = 5 + Len(r.out)
        /\ \A i \in 1..(4 + Len(r.out)) : l[i] = h[i]
        /\ \A i \in 1..(5 + Len(r.out)) : i \in 1..(4 + Len(r.out)) \/ l[i].of = 0
    <3>1. 4 + Len(r.out) \in Nat /\ (4 + Len(r.out)) + 1 = 5 + Len(r.out) /\ 1 \in Nat
      BY <1>2
    <3>2. /\ l \in Seq(Units) /\ Len(l) = (4 + Len(r.out)) + 1
          /\ \A i \in 1..(4 + Len(r.out)) : l[i] = h[i]
          /\ \A i \in 1..1 : l[(4 + Len(r.out)) + i] = prompt[i]
          /\ \A i \in 1..((4 + Len(r.out)) + 1) : i \in 1..(4 + Len(r.out)) \/ \E j \in 1..1 : i = (4 + Len(r.out)) + j
      <4>1. Splits(l, h, prompt)
        BY <1>3, <2>3, Joined
      <4> HIDE DEF l
      <4> QED BY <1>3, <2>3, <3>1, <4>1 DEF Splits
    <3> HIDE DEF l
    <3> QED BY <1>3, <3>1, <3>2
  <2> HIDE DEF l
  <2>5. /\ x \in Seq(Units) /\ Len(x) \in Nat /\ 4 + Len(r.out) <= Len(x)
        /\ \A i \in 1..(4 + Len(r.out)) : x[i] = h[i]
        /\ \A i \in 1..Len(x) : i \in 1..(4 + Len(r.out)) \/ x[i].of = 0
    <3> DEFINE n == 5 + Len(r.out)
               m == Len(query)
    <3>1. n \in Nat /\ m \in Nat /\ \A i \in 1..(4 + Len(r.out)) : i \in 1..n
      BY <1>2, <1>4
    <3>2. Len(l) = n
      BY <2>4
    <3> HIDE DEF n, m
    <3>3. /\ x \in Seq(Units) /\ Len(x) = n + m
          /\ \A i \in 1..n : x[i] = l[i]
          /\ \A i \in 1..m : x[n + i] = query[i]
          /\ \A i \in 1..(n + m) : i \in 1..n \/ \E j \in 1..m : i = n + j
      <4>1. Len(query) = m
        BY DEF m
      <4>2. Splits(x, l, query)
        BY <1>4, <2>4, Joined
      <4> HIDE DEF x
      <4> QED BY <3>1, <3>2, <4>1, <4>2 DEF Splits
    <3> HIDE DEF x
    <3>4. \A i \in 1..n : i \in 1..(4 + Len(r.out)) \/ l[i].of = 0
      BY <2>4 DEF n
    <3>5. \A i \in 1..m : query[i].of = 0
      BY <1>4 DEF m
    <3>6. \A i \in 1..Len(x) : i \in 1..(4 + Len(r.out)) \/ x[i].of = 0
      BY <3>3, <3>4, <3>5
    <3>7. 4 + Len(r.out) <= Len(x)
      BY <1>2, <3>1, <3>3 DEF n
    <3>8. \A i \in 1..(4 + Len(r.out)) : x[i] = h[i]
      BY <2>4, <3>1, <3>3
    <3>9. Len(x) \in Nat
      BY <3>1, <3>3
    <3> QED BY <3>3, <3>6, <3>7, <3>8, <3>9
  <2>6. x = Printed(c, kd, r, a)
    BY <2>0 DEF x, l, h, g, f
  <2> HIDE DEF x
  <2>7. \A i \in 1..Len(r.out) : 3 + i \in 1..(4 + Len(r.out))
    BY <1>2
  <2>8. 3 \in 1..(4 + Len(r.out)) /\ Len(r.out) + 4 = 4 + Len(r.out) /\ 4 + Len(r.out) \in 1..(4 + Len(r.out))
    BY <1>2
  <2>9. Adds(x, c, kd, r)
    BY <1>2, <1>5, <2>3, <2>5, <2>7, <2>8 DEF Adds
  <2> QED BY <2>5, <2>6, <2>9
<1>6. CASE kd = "plain"
  <2>0. Printed(c, kd, r, a) = ((echo \o out) \o prompt) \o query
    BY <1>6 DEF Printed
  <2> DEFINE f == echo \o out
             g == f \o prompt
             x == g \o query
  <2> HIDE DEF echo, out, begin, end, prompt, query
  <2>1. f \in Seq(Units) /\ \A i \in 1..Len(f) : f[i].of = 0
    <3>1. Splits(f, echo, out)
      BY <1>1, <1>2, Joined
    <3> HIDE DEF f
    <3>2. \A i \in 1..Len(echo) : echo[i].of = 0
      BY <1>1
    <3>3. \A i \in 1..Len(out) : out[i].of = 0
      BY <1>2
    <3> QED BY <3>1, <3>2, <3>3, NoFrames DEF Splits
  <2> HIDE DEF f
  <2>2. g \in Seq(Units) /\ \A i \in 1..Len(g) : g[i].of = 0
    <3>1. \A i \in 1..Len(prompt) : prompt[i].of = 0
      BY <1>3
    <3>2. Splits(g, f, prompt)
      BY <1>3, <2>1, Joined
    <3> HIDE DEF g
    <3> QED BY <2>1, <3>1, <3>2, NoFrames DEF Splits
  <2> HIDE DEF g
  <2>3. x \in Seq(Units) /\ \A i \in 1..Len(x) : x[i].of = 0
    <3>1. Splits(x, g, query)
      BY <1>4, <2>2, Joined
    <3> HIDE DEF x
    <3> QED BY <1>4, <2>2, <3>1, NoFrames DEF Splits
  <2>4. x = Printed(c, kd, r, a)
    BY <2>0 DEF x, g, f
  <2> HIDE DEF x
  <2> QED BY <1>6, <2>3, <2>4 DEF Adds
<1> QED BY <1>5, <1>6

-----------------------------------------------------------------------------
(* Lemmas about the input *)

\* The functions that With makes.
LEMMA WithFacts ==
  ASSUME NEW f, NEW c, NEW v
  PROVE  /\ DOMAIN With(f, c, v) = DOMAIN f \cup {c}
         /\ With(f, c, v)[c] = v
         /\ \A x \in DOMAIN f : x # c => With(f, c, v)[x] = f[x]
         /\ With(f, c, v) = [x \in DOMAIN With(f, c, v) |-> With(f, c, v)[x]]
BY DEF With

\* A command is sent.
LEMMA WaitsSent ==
  ASSUME NEW in \in Seq(Lines), NEW kk \in Nat, NEW kd \in [1..kk -> Kinds], NEW md, NEW n \in Nat,
         NEW c \in Kinds, Waits(in, kk, kd, md, n)
  PROVE  Waits(Append(in, [command |-> kk + 1, kind |-> c]), kk + 1, With(kd, kk + 1, c), md, n)
<1> DEFINE l == [command |-> kk + 1, kind |-> c]
           new == Append(in, l)
           w == With(kd, kk + 1, c)
<1>1. l \in Lines
  BY DEF Lines
<1>2. l.command = kk + 1 /\ l.kind = c
  OBVIOUS
<1> HIDE DEF l
<1>3. /\ Len(in) \in Nat /\ Len(new) = Len(in) + 1 /\ new[Len(in) + 1] = l
      /\ \A i \in 1..Len(in) : new[i] = in[i]
  BY <1>1, AppendProperties
<1>4. w[kk + 1] = c /\ \A x \in 1..kk : w[x] = kd[x]
  <2>1. DOMAIN kd = 1..kk /\ \A x \in 1..kk : x # kk + 1
    OBVIOUS
  <2> QED BY <2>1 DEF With
<1> HIDE DEF new, w
<1>5. n \in 0..Len(new) /\ Len(new) - n <= kk + 1 /\ \A i \in 1..n : new[i].command = 0
  BY <1>3 DEF Waits
<1>6. ASSUME NEW i \in (n + 1)..Len(new)
      PROVE  new[i].command = (kk + 1) - Len(new) + i /\ new[i].kind = w[new[i].command]
  <2>1. CASE i = Len(in) + 1
    BY <1>2, <1>3, <1>4, <2>1
  <2>2. CASE i # Len(in) + 1
    <3>1. i \in (n + 1)..Len(in) /\ i \in 1..Len(in)
      BY <1>3, <2>2 DEF Waits
    <3>2. new[i] = in[i] /\ in[i].command = kk - Len(in) + i /\ in[i].kind = kd[in[i].command]
      BY <1>3, <3>1 DEF Waits
    <3>3. kk - Len(in) + i \in 1..kk
      BY <1>3, <3>1 DEF Waits
    <3> QED BY <1>3, <1>4, <3>2, <3>3
  <2> QED BY <2>1, <2>2
<1>7. DOMAIN md = 1..((kk + 1) - Len(new) + n)
  BY <1>3 DEF Waits
<1>8. Waits(new, kk + 1, w, md, n)
  BY <1>5, <1>6, <1>7 DEF Waits
<1> QED BY <1>8 DEF new, w, l

\* The first line is a command: the shell runs it, the oldest one.
LEMMA WaitsRun ==
  ASSUME NEW in \in Seq(Lines), NEW kk \in Nat, NEW kd, NEW md, NEW n \in Nat, NEW r,
         Waits(in, kk, kd, md, n), in # <<>>, in[1].command # 0
  PROVE  /\ in[1].command \in 1..kk /\ in[1].command \notin DOMAIN md
         /\ in[1].kind = kd[in[1].command]
         /\ Waits(Tail(in), kk, kd, With(md, in[1].command, r), 0)
<1> DEFINE c == in[1].command
           w == With(md, c, r)
           new == Tail(in)
<1>1. /\ Len(in) \in Nat /\ Len(in) > 0 /\ Len(new) = Len(in) - 1
      /\ \A i \in 1..Len(new) : new[i] = in[i + 1]
  BY HeadTailProperties, EmptySeq
<1>2. n = 0
  BY <1>1 DEF Waits
<1>3. c = kk - Len(in) + 1 /\ in[1].kind = kd[c] /\ Len(in) <= kk /\ DOMAIN md = 1..(kk - Len(in))
  BY <1>1, <1>2 DEF Waits
<1>4. c \in 1..kk /\ c \notin DOMAIN md
  BY <1>1, <1>3
<1>5. DOMAIN w = 1..(kk - Len(new) + 0)
  <2>1. DOMAIN w = DOMAIN md \cup {c}
    BY DEF With
  <2> HIDE DEF w, new
  <2>2. DOMAIN w = 1..(kk - Len(in)) \cup {kk - Len(in) + 1}
    BY <1>3, <2>1
  <2>3. kk - Len(new) + 0 = kk - Len(in) + 1 /\ kk - Len(in) \in Nat
    BY <1>1, <1>3
  <2> QED BY <2>2, <2>3
<1> HIDE DEF new, w
<1>6. \A i \in (0 + 1)..Len(new) : new[i].command = kk - Len(new) + i /\ new[i].kind = kd[new[i].command]
  <2> TAKE i \in (0 + 1)..Len(new)
  <2>1. i + 1 \in (n + 1)..Len(in) /\ new[i] = in[i + 1]
    BY <1>1, <1>2
  <2>2. in[i + 1].command = kk - Len(in) + (i + 1) /\ in[i + 1].kind = kd[in[i + 1].command]
    BY <2>1 DEF Waits
  <2> QED BY <1>1, <2>1, <2>2
<1>7. Waits(new, kk, kd, w, 0)
  BY <1>1, <1>3, <1>5, <1>6 DEF Waits
<1> QED BY <1>3, <1>4, <1>7 DEF new, w

\* The first line is one that Dial has typed.
LEMMA WaitsTyped ==
  ASSUME NEW in \in Seq(Lines), NEW kk \in Nat, NEW kd, NEW md, NEW n \in Nat,
         Waits(in, kk, kd, md, n), in # <<>>, kk = 0 \/ in[1].command = 0
  PROVE  n - 1 \in Nat /\ Waits(Tail(in), kk, kd, md, n - 1)
<1> DEFINE new == Tail(in)
<1>1. /\ Len(in) \in Nat /\ Len(in) > 0 /\ Len(new) = Len(in) - 1
      /\ \A i \in 1..Len(new) : new[i] = in[i + 1]
  BY HeadTailProperties, EmptySeq
<1>2. n \in 0..Len(in) /\ n > 0
  <2>1. n \in 0..Len(in) /\ Len(in) - n <= kk
    BY DEF Waits
  <2>2. ASSUME n = 0 PROVE FALSE
    <3>1. 1 \in (n + 1)..Len(in)
      BY <1>1, <2>2
    <3>2. in[1].command = kk - Len(in) + 1
      BY <3>1 DEF Waits
    <3>3. Len(in) <= kk
      BY <1>1, <2>1, <2>2
    <3>4. kk - Len(in) + 1 > 0 /\ kk # 0
      BY <1>1, <3>3
    <3> QED BY <3>2, <3>4
  <2> QED BY <2>1, <2>2
<1> HIDE DEF new
<1>3. \A i \in ((n - 1) + 1)..Len(new) : new[i].command = kk - Len(new) + i /\ new[i].kind = kd[new[i].command]
  <2> TAKE i \in ((n - 1) + 1)..Len(new)
  <2>1. i + 1 \in (n + 1)..Len(in) /\ i \in 1..Len(new) /\ new[i] = in[i + 1]
    BY <1>1, <1>2
  <2>2. in[i + 1].command = kk - Len(in) + (i + 1) /\ in[i + 1].kind = kd[in[i + 1].command]
    BY <2>1 DEF Waits
  <2> QED BY <1>1, <2>1, <2>2
<1>4. \A i \in 1..(n - 1) : new[i].command = 0
  <2> TAKE i \in 1..(n - 1)
  <2>1. i \in 1..Len(new) /\ i + 1 \in 1..n
    BY <1>1, <1>2
  <2> QED BY <1>1, <2>1 DEF Waits
<1>5. Waits(new, kk, kd, md, n - 1)
  BY <1>1, <1>2, <1>3, <1>4 DEF Waits
<1> QED BY <1>2, <1>5 DEF new

\* Dial types one more line.
LEMMA WaitsMore ==
  ASSUME NEW in \in Seq(Lines), NEW kd, NEW md, NEW n \in Nat, NEW l \in Lines,
         Waits(in, 0, kd, md, n), l.command = 0
  PROVE  Waits(Append(in, l), 0, kd, md, n + 1)
<1> DEFINE new == Append(in, l)
<1>1. /\ Len(in) \in Nat /\ Len(new) = Len(in) + 1 /\ new[Len(in) + 1] = l
      /\ \A i \in 1..Len(in) : new[i] = in[i]
  BY AppendProperties
<1>2. n = Len(in)
  BY <1>1 DEF Waits
<1> HIDE DEF new
<1>3. \A i \in 1..(n + 1) : new[i].command = 0
  BY <1>1, <1>2 DEF Waits
<1>4. Waits(new, 0, kd, md, n + 1)
  BY <1>1, <1>2, <1>3 DEF Waits
<1> QED BY <1>4 DEF new

-----------------------------------------------------------------------------
(* What is printed, and the initial state *)

\* What the device prints after a login, and what the shell prints for a stray line.
Welcome(g, a) == Tokens(Append(g, "prompt")) \o Query(a)
Stray(a) == Tokens(<<"echo", "out", "prompt">>) \o Query(a)

LEMMA WelcomeType ==
  ASSUME NEW g \in Greetings, NEW a \in BOOLEAN
  PROVE  /\ Tokens(Append(g, "prompt")) \in Seq(Units) /\ Welcome(g, a) \in Seq(Units)
         /\ \A i \in 1..Len(Welcome(g, a)) : Welcome(g, a)[i].of = 0
<1> DEFINE t == Append(g, "prompt")
<1>1. t \in Seq(Names)
  <2>1. g \in Seq(Names)
    BY SeqMonotonic DEF Names
  <2> QED BY <2>1, AppendProperties DEF Names
<1> HIDE DEF t
<1>2. Tokens(t) \in Seq(Units) /\ \A i \in 1..Len(Tokens(t)) : Tokens(t)[i].of = 0
  BY <1>1, TokensAreUnits
<1>3. Query(a) \in Seq(Units) /\ \A i \in 1..Len(Query(a)) : Query(a)[i].of = 0
  BY QueryType
<1>4. Tokens(t) \o Query(a) \in Seq(Units) /\ Splits(Tokens(t) \o Query(a), Tokens(t), Query(a))
  BY <1>2, <1>3, Joined
<1> QED BY <1>2, <1>3, <1>4, NoFrames DEF Welcome, t

LEMMA StrayType ==
  ASSUME NEW a \in BOOLEAN
  PROVE  /\ Tokens(<<"echo", "out", "prompt">>) \in Seq(Units) /\ Stray(a) \in Seq(Units)
         /\ \A i \in 1..Len(Stray(a)) : Stray(a)[i].of = 0
<1> DEFINE t == <<"echo", "out", "prompt">>
<1>1. t \in Seq(Names)
  BY DEF Names
<1> HIDE DEF t
<1>2. Tokens(t) \in Seq(Units) /\ \A i \in 1..Len(Tokens(t)) : Tokens(t)[i].of = 0
  BY <1>1, TokensAreUnits
<1>3. Query(a) \in Seq(Units) /\ \A i \in 1..Len(Query(a)) : Query(a)[i].of = 0
  BY QueryType
<1>4. Tokens(t) \o Query(a) \in Seq(Units) /\ Splits(Tokens(t) \o Query(a), Tokens(t), Query(a))
  BY <1>2, <1>3, Joined
<1> QED BY <1>2, <1>3, <1>4, NoFrames DEF Stray, t

LEMMA StrayPrints ==
  ASSUME SessionType, RunStray
  PROVE  wire' = wire \o Stray(asks) /\ Stray(asks) \in Seq(Units)
<1> DEFINE t == Tokens(<<"echo", "out", "prompt">>)
<1>1. t \in Seq(Units) /\ Query(asks) \in Seq(Units) /\ Stray(asks) \in Seq(Units) /\ wire \in Seq(Units)
  BY StrayType, QueryType DEF SessionType
<1>2. wire' = (wire \o t) \o Query(asks)
  BY DEF RunStray
<1>3. Stray(asks) = t \o Query(asks)
  BY DEF Stray
<1> HIDE DEF t
<1> QED BY <1>1, <1>2, <1>3, ConcatAssociative

\* What the login program prints has no frames, and nothing like a prompt before
\* the shell is there.
LEMMA LoginPrints ==
  ASSUME SessionType, LogIn
  PROVE  \E x \in Seq(Units) :
           /\ wire' = wire \o x
           /\ \A i \in 1..Len(x) : x[i].of = 0
           /\ gate' # "shell" => \A i \in 1..Len(x) : ~LooksLikePrompt(x[i])
<1>0. wire \in Seq(Units) /\ asks \in BOOLEAN /\ greeting \in Greetings
  BY DEF SessionType
<1>1. CASE gate' = "password" /\ wire' = wire \o Tokens(<<"echo", "password">>)
  <2> DEFINE s == <<"echo", "password">>
  <2>1. s \in Seq(Names)
    BY DEF Names
  <2>2. Len(s) = 2 /\ s[1] = "echo" /\ s[2] = "password"
    OBVIOUS
  <2> HIDE DEF s
  <2>3. Tokens(s) \in Seq(Units) /\ Len(Tokens(s)) = 2
        /\ \A i \in 1..2 : Tokens(s)[i] = Token(s[i]) /\ Tokens(s)[i].of = 0
    BY <2>1, <2>2, TokensAreUnits
  <2>4. \A i \in 1..2 : ~LooksLikePrompt(Token(s[i]))
    BY <2>2 DEF LooksLikePrompt, Token
  <2> QED BY <1>1, <2>3, <2>4 DEF s
<1>2. CASE gate' = "login" /\ wire' = Append(wire, Token("login"))
  <2> DEFINE x == <<Token("login")>>
  <2>1. Token("login") \in Units /\ Token("login").of = 0 /\ ~LooksLikePrompt(Token("login"))
    BY DEF Token, Units, Names, Statuses, LooksLikePrompt
  <2>2. x \in Seq(Units) /\ Len(x) = 1 /\ x[1] = Token("login")
    BY ONLY <2>1
  <2>3. Append(wire, Token("login")) = wire \o x
    BY <1>0, <2>1, AppendIsConcat
  <2> HIDE DEF x
  <2>4. \A i \in 1..Len(x) : x[i].of = 0 /\ ~LooksLikePrompt(x[i])
    BY <2>1, <2>2
  <2>5. wire' = wire \o x
    BY <1>2, <2>3
  <2> QED BY <2>2, <2>4, <2>5
<1>3. CASE gate' = "shell" /\ wire' = wire \o Tokens(Append(greeting, "prompt")) \o Query(asks)
  <2> DEFINE t == Tokens(Append(greeting, "prompt"))
  <2>1. t \in Seq(Units) /\ Query(asks) \in Seq(Units)
        /\ Welcome(greeting, asks) \in Seq(Units)
        /\ \A i \in 1..Len(Welcome(greeting, asks)) : Welcome(greeting, asks)[i].of = 0
    BY <1>0, WelcomeType, QueryType
  <2>2. wire' = (wire \o t) \o Query(asks) /\ Welcome(greeting, asks) = t \o Query(asks)
    BY <1>3 DEF Welcome
  <2> HIDE DEF t
  <2>3. wire' = wire \o Welcome(greeting, asks)
    BY <1>0, <2>1, <2>2, ConcatAssociative
  <2> QED BY <1>3, <2>1, <2>3
<1> QED BY <1>1, <1>2, <1>3 DEF LogIn

\* The shell prints what it makes of the oldest line.
LEMMA CommandPrints ==
  ASSUME SessionType, RunCommand
  PROVE  /\ wire' \in Seq(Units)
         /\ Head(input) \in Lines /\ Head(input) = input[1]
         /\ \E r \in Results :
              /\ made' = With(made, input[1].command, r)
              /\ wire' = wire \o Printed(input[1].command, input[1].kind, r, asks)
<1> DEFINE l == Head(input)
           echo == [i \in 1..EchoLen |-> Token("echo")]
           prompt == <<Token("prompt")>>
<1>1. l \in Lines /\ l = input[1] /\ wire \in Seq(Units) /\ asks \in BOOLEAN
  BY HeadTailProperties, EmptySeq DEF SessionType, RunCommand
<1>2. l.command \in Nat
  BY <1>1 DEF Lines
<1> DEFINE body(r) == IF l.kind = "checked"
                      THEN <<Frame("begin", l.command, "zero")>> \o Tokens(r.out) \o <<Frame("end", l.command, r.status)>>
                      ELSE Tokens(r.out)
<1>3. PICK r \in Results : /\ made' = With(made, l.command, r)
                           /\ wire' = wire \o echo \o body(r) \o prompt \o Query(asks)
  BY DEF RunCommand
<1>4. echo \in Seq(Units) /\ prompt \in Seq(Units) /\ Query(asks) \in Seq(Units)
  <2>1. Token("echo") \in Units /\ Token("prompt") \in Units
    BY DEF Token, Units, Names, Statuses
  <2>2. prompt \in Seq(Units)
    BY ONLY <2>1
  <2> QED BY <1>1, <2>1, <2>2, EchoType, QueryType
<1>5. body(r) \in Seq(Units)
  <2> DEFINE b == <<Frame("begin", l.command, "zero")>>
             o == Tokens(r.out)
             e == <<Frame("end", l.command, r.status)>>
  <2>1. Frame("begin", l.command, "zero") \in Units /\ Frame("end", l.command, r.status) \in Units
    BY <1>2, ResultType DEF Frame, Units, Names, Statuses
  <2>2. b \in Seq(Units) /\ e \in Seq(Units)
    BY ONLY <2>1
  <2>3. o \in Seq(Units)
    BY ResultType, TokensAreUnits
  <2> HIDE DEF b, o, e
  <2>4. (b \o o) \o e \in Seq(Units)
    BY <2>2, <2>3, ConcatProperties
  <2> QED BY <2>3, <2>4 DEF b, o, e
<1>6. wire \o echo \o body(r) \o prompt \o Query(asks) = wire \o (((echo \o body(r)) \o prompt) \o Query(asks))
  <2> DEFINE m == body(r)
             q == Query(asks)
             em == echo \o m
             emp == em \o prompt
  <2>1. m \in Seq(Units) /\ q \in Seq(Units)
    BY <1>4, <1>5
  <2> HIDE DEF m, q, echo, prompt
  <2>2. em \in Seq(Units) /\ (wire \o echo) \o m = wire \o em
    <3>1. wire \in Seq(Units) /\ echo \in Seq(Units)
      BY <1>1, <1>4
    <3>2. echo \o m \in Seq(Units)
      BY <2>1, <3>1, ConcatProperties
    <3>3. (wire \o echo) \o m = wire \o (echo \o m)
      BY <2>1, <3>1, ConcatAssociative
    <3> QED BY <3>2, <3>3
  <2> HIDE DEF em
  <2>3. emp \in Seq(Units) /\ (wire \o em) \o prompt = wire \o emp
    BY <1>1, <1>4, <2>2, ConcatProperties, ConcatAssociative
  <2> HIDE DEF emp
  <2>4. (wire \o emp) \o q = wire \o (emp \o q)
    BY <1>1, <2>1, <2>3, ConcatAssociative
  <2>5. ((((wire \o echo) \o m) \o prompt) \o q) = wire \o (emp \o q)
    BY <2>2, <2>3, <2>4
  <2> QED BY <2>5 DEF m, q, em, emp
<1>7. ((echo \o body(r)) \o prompt) \o Query(asks) = Printed(l.command, l.kind, r, asks)
  BY DEF Printed
<1>8. ((echo \o body(r)) \o prompt) \o Query(asks) \in Seq(Units)
  <2> HIDE DEF echo, prompt, body
  <2> QED BY <1>4, <1>5, ConcatProperties
<1>9. wire' = wire \o Printed(l.command, l.kind, r, asks)
  <2> HIDE DEF body, echo, prompt
  <2> QED BY <1>3, <1>6, <1>7
<1>10. wire' \in Seq(Units)
  BY <1>1, <1>7, <1>8, <1>9, ConcatProperties
<1> QED BY <1>1, <1>3, <1>9, <1>10

LEMMA InitIInv == Init => IInv
<1> SUFFICES ASSUME Init PROVE IInv
  OBVIOUS
<1> USE DEF Init
<1>1. wire \in Seq(Units) /\ (\A i \in 1..Len(wire) : wire[i].of = 0)
      /\ (gate # "shell" => \A i \in 1..Len(wire) : ~LooksLikePrompt(wire[i]))
  <2>1. CASE gate = "login"
    <3>1. Token("login") \in Units
      BY DEF Token, Units, Names, Statuses
    <3>2. wire = <<Token("login")>>
      BY <2>1
    <3>3. wire \in Seq(Units)
      <4>1. <<Token("login")>> \in Seq(Units)
        BY ONLY <3>1
      <4> QED BY <3>2, <4>1
    <3>4. Len(wire) = 1 /\ wire[1] = Token("login")
      BY <3>2
    <3>5. Token("login").of = 0 /\ ~LooksLikePrompt(Token("login"))
      BY DEF Token, LooksLikePrompt
    <3> QED BY <3>3, <3>4, <3>5
  <2>2. CASE gate = "shell"
    <3> DEFINE p == <<Token("prompt")>>
    <3>1. Token("prompt") \in Units /\ Token("prompt").of = 0
      BY DEF Token, Units, Names, Statuses
    <3>2. p \in Seq(Units) /\ Len(p) = 1 /\ p[1] = Token("prompt")
      BY <3>1
    <3>3. wire = p \o Query(asks)
      BY <2>2
    <3> HIDE DEF p
    <3>4. Query(asks) \in Seq(Units) /\ \A i \in 1..Len(Query(asks)) : Query(asks)[i].of = 0
      BY QueryType
    <3>5. p \o Query(asks) \in Seq(Units) /\ Splits(p \o Query(asks), p, Query(asks))
      BY <3>2, <3>4, Joined
    <3>6. \A i \in 1..Len(p) : p[i].of = 0
      BY <3>1, <3>2
    <3> QED BY <2>2, <3>3, <3>4, <3>5, <3>6, NoFrames
  <2> QED BY <2>1, <2>2
<1>2. stream = wire
  BY <1>1, ConcatEmptySeq DEF stream
<1>3. SessionType
  <2>1. kind \in [1..k -> Kinds] /\ DOMAIN answer = {} /\ DOMAIN made = {}
    BY DOMAIN <<>> = {}
  <2>2. answer = [c \in DOMAIN answer |-> answer[c]] /\ made = [c \in DOMAIN made |-> made[c]]
    OBVIOUS
  <2> QED BY <1>1, <2>1, <2>2 DEF SessionType, Busy, Statuses
<1>4. ClientInv /\ FramedInv
  BY DEF ClientInv, FramedInv, Busy
<1>5. Waiting(0)
  <2>1. DOMAIN made = {} /\ Len(input) = 0
    BY EmptySeq
  <2> QED BY <2>1 DEF Waiting, Waits
<1>6. LoginInv
  BY <1>1, <1>2 DEF LoginInv
<1>7. FramesInv
  BY <1>1, <1>2 DEF FramesInv
<1> QED BY <1>3, <1>4, <1>5, <1>6, <1>7 DEF IInv

-----------------------------------------------------------------------------
(* Every step preserves the invariant *)

LEMMA TypeStep ==
  ASSUME SessionType, ClientInv, Next
  PROVE  SessionType'
<1> USE DEF SessionType, clientVars, device, shellVars, Busy
<1>1. ASSUME NEW kd \in Kinds, Begin(kd) PROVE SessionType'
  <2>1. k' = k + 1 /\ k' \in 0..NumCommands /\ k \in Nat
    BY <1>1 DEF Begin
  <2>2. kind' \in [1..k' -> Kinds]
    <3>1. kind' = [x \in 1..k \cup {k + 1} |-> IF x = k + 1 THEN kd ELSE kind[x]]
      BY <1>1 DEF Begin, With
    <3>2. 1..k \cup {k + 1} = 1..k'
      BY <2>1
    <3>3. \A x \in 1..k' : (IF x = k + 1 THEN kd ELSE kind[x]) \in Kinds
      BY <2>1
    <3> QED BY <3>1, <3>2, <3>3
  <2>3. input' \in Seq(Lines)
    <3>1. [command |-> k + 1, kind |-> kd] \in Lines
      BY <2>1 DEF Lines
    <3> QED BY <1>1, <3>1, AppendProperties DEF Begin
  <2>4. buffered' = <<>> /\ buffered' \in Seq(Units) /\ reply' = <<>> /\ reply' \in Seq(Names)
    BY <1>1 DEF Begin, Discard
  <2>5. DOMAIN answer' \subseteq 1..k'
    BY <1>1, <2>1 DEF Begin
  <2>6. cpc' \in {"skip", "begin"} /\ UNCHANGED <<status, answer, timeouts, wire, device, gate, made>>
    BY <1>1 DEF Begin
  <2> QED BY <2>1, <2>2, <2>3, <2>4, <2>5, <2>6
<1>2. CASE ReadWelcome
  <2>1. Head(buffered) \in Units /\ buffered' \in Seq(Units)
    BY <1>2, ReadsFirst DEF ReadWelcome
  <2>2. input' \in Seq(Lines)
    <3>1. CASE Head(buffered).tok \in {"login", "password"}
      <4>1. [command |-> 0, kind |-> Head(buffered).tok] \in Lines
        BY <3>1 DEF Lines
      <4> QED BY <1>2, <3>1, <4>1, AppendProperties DEF ReadWelcome
    <3> QED BY <1>2, <3>1 DEF ReadWelcome
  <2>3. cpc' \in {"dial", "idle"}
    BY <1>2 DEF ReadWelcome
  <2> QED BY <1>2, <2>1, <2>2, <2>3 DEF ReadWelcome
<1>3. CASE DialFails
  BY <1>3 DEF DialFails
<1>4. CASE Fill
  BY <1>4, FillMoves DEF Fill
<1>5. CASE SkipUnit
  <2>1. buffered' \in Seq(Units)
    BY <1>5, ReadsFirst DEF SkipUnit
  <2> QED BY <1>5, <2>1 DEF SkipUnit
<1>6. CASE ReadPlain
  <2>1. Head(buffered).tok \in Names /\ buffered' \in Seq(Units)
    BY <1>6, ReadsFirst DEF ReadPlain, Units
  <2>2. reply' \in Seq(Names)
    <3>1. Append(reply, Head(buffered).tok) \in Seq(Names)
      BY <2>1, AppendProperties
    <3> QED BY <1>6, <3>1 DEF ReadPlain
  <2>3. /\ answer' = [c \in DOMAIN answer' |-> answer'[c]]
        /\ DOMAIN answer' \subseteq 1..k
    <3>1. CASE answer' = answer
      BY <3>1
    <3>2. CASE answer' = With(answer, k, [out |-> reply, status |-> "zero"])
      BY <1>6, <3>2 DEF ReadPlain, With, ClientInv
    <3> QED BY <1>6, <3>1, <3>2 DEF ReadPlain
  <2>4. cpc' \in {"plain", "idle"}
    BY <1>6 DEF ReadPlain
  <2> QED BY <1>6, <2>1, <2>2, <2>3, <2>4 DEF ReadPlain
<1>7. CASE ReadBegin
  <2>1. buffered' \in Seq(Units)
    BY <1>7, ReadsFirst DEF ReadBegin
  <2> QED BY <1>7, <2>1 DEF ReadBegin
<1>8. CASE ReadBody
  <2>1. Head(buffered) \in Units /\ buffered' \in Seq(Units)
    BY <1>8, ReadsFirst DEF ReadBody
  <2>2. reply' \in Seq(Names) /\ status' \in Statuses /\ cpc' \in {"body", "prompt"}
    <3>1. Head(buffered).tok \in Names /\ Head(buffered).status \in Statuses
      BY <2>1 DEF Units
    <3>2. Append(reply, Head(buffered).tok) \in Seq(Names)
      BY <3>1, AppendProperties
    <3> QED BY <1>8, <3>1, <3>2 DEF ReadBody
  <2> QED BY <1>8, <2>1, <2>2 DEF ReadBody
<1>9. CASE ReadPrompt
  <2>1. buffered' \in Seq(Units)
    BY <1>9, ReadsFirst DEF ReadPrompt
  <2>2. /\ answer' = [c \in DOMAIN answer' |-> answer'[c]]
        /\ DOMAIN answer' \subseteq 1..k
    <3>1. CASE answer' = answer
      BY <3>1
    <3>2. CASE answer' = With(answer, k, [out |-> reply, status |-> status])
      BY <1>9, <3>2 DEF ReadPrompt, With, ClientInv
    <3> QED BY <1>9, <3>1, <3>2 DEF ReadPrompt
  <2>3. cpc' \in {"prompt", "idle"}
    BY <1>9 DEF ReadPrompt
  <2> QED BY <1>9, <2>1, <2>2, <2>3 DEF ReadPrompt
<1>10. CASE TimeOut
  <2>1. cpc \in Busy
    BY <1>10 DEF TimeOut
  <2>2. /\ answer' = [c \in DOMAIN answer' |-> answer'[c]]
        /\ DOMAIN answer' \subseteq 1..k
    BY <1>10, <2>1 DEF TimeOut, With, ClientInv
  <2> QED BY <1>10, <2>2 DEF TimeOut
<1>11. CASE LogIn
  <2>1. input' \in Seq(Lines) /\ gate' \in {"login", "password", "shell"}
    BY <1>11, HeadTailProperties, EmptySeq DEF LogIn
  <2>2. \E x \in Seq(Units) : wire' = wire \o x
    BY <1>11, LoginPrints
  <2>3. wire' \in Seq(Units)
    BY <2>2, ConcatProperties
  <2> QED BY <1>11, <2>1, <2>3 DEF LogIn
<1>12. CASE RunStray
  <2>1. input' \in Seq(Lines)
    BY <1>12, HeadTailProperties, EmptySeq DEF RunStray
  <2>2. wire' \in Seq(Units)
    <3>1. wire' = wire \o Stray(asks) /\ Stray(asks) \in Seq(Units)
      BY <1>12, StrayPrints
    <3> QED BY <3>1, ConcatProperties
  <2> QED BY <1>12, <2>1, <2>2 DEF RunStray
<1>13. CASE RunCommand
  <2>1. input' \in Seq(Lines)
    BY <1>13, HeadTailProperties, EmptySeq DEF RunCommand
  <2>2. PICK r \in Results : made' = With(made, Head(input).command, r)
    BY <1>13 DEF RunCommand
  <2>3. made' = [c \in DOMAIN made' |-> made'[c]] /\ \A c \in DOMAIN made' : made'[c] \in Results
    BY <2>2 DEF With
  <2>4. wire' \in Seq(Units)
    BY <1>13, CommandPrints
  <2> QED BY <1>13, <2>1, <2>3, <2>4 DEF RunCommand
<1>14. CASE Done
  BY <1>14 DEF Done, vars
<1> QED BY <1>1, <1>2, <1>3, <1>4, <1>5, <1>6, <1>7, <1>8, <1>9, <1>10, <1>11, <1>12, <1>13, <1>14 DEF Next, ClientStep

LEMMA ClientInvStep ==
  ASSUME SessionType, ClientInv, Next
  PROVE  ClientInv'
<1> USE DEF clientVars, device, shellVars, Busy
<1>0. k \in 0..NumCommands /\ kind \in [1..k -> Kinds] /\ DOMAIN answer \subseteq 1..k
  BY DEF SessionType
<1>1. ASSUME NEW kd \in Kinds, Begin(kd) PROVE ClientInv'
  <2>1. k' = k + 1 /\ k' > 0 /\ k' \notin DOMAIN answer'
    BY <1>0, <1>1 DEF Begin
  <2>2. kind'[k'] = kd
    BY <1>1, <2>1 DEF Begin, With
  <2>3. cpc' = IF kd = "plain" THEN "skip" ELSE "begin"
    BY <1>1 DEF Begin
  <2>4. kd \in {"plain", "checked"}
    OBVIOUS
  <2> QED BY <2>1, <2>2, <2>3, <2>4 DEF ClientInv
<1>2. CASE ReadWelcome
  BY <1>2 DEF ReadWelcome, ClientInv
<1>3. CASE DialFails
  BY <1>3 DEF DialFails, ClientInv
<1>4. CASE Fill
  BY <1>4 DEF Fill, ClientInv
<1>5. CASE SkipUnit
  BY <1>5 DEF SkipUnit, ClientInv
<1>6. CASE ReadPlain
  BY <1>6 DEF ReadPlain, ClientInv
<1>7. CASE ReadBegin
  BY <1>7 DEF ReadBegin, ClientInv
<1>8. CASE ReadBody
  BY <1>8 DEF ReadBody, ClientInv
<1>9. CASE ReadPrompt
  BY <1>9 DEF ReadPrompt, ClientInv
<1>10. CASE TimeOut
  BY <1>10 DEF TimeOut, ClientInv
<1>11. CASE LogIn
  BY <1>11 DEF LogIn, ClientInv
<1>12. CASE RunStray
  BY <1>12 DEF RunStray, ClientInv
<1>13. CASE RunCommand
  BY <1>13 DEF RunCommand, ClientInv
<1>14. CASE Done
  BY <1>14 DEF Done, vars, ClientInv
<1> QED BY <1>1, <1>2, <1>3, <1>4, <1>5, <1>6, <1>7, <1>8, <1>9, <1>10, <1>11, <1>12, <1>13, <1>14 DEF Next, ClientStep

\* The shell runs the first line of the input, a command: the oldest one.
LEMMA OldestRuns ==
  ASSUME SessionType, NEW n \in Nat, Waiting(n), RunCommand
  PROVE  /\ input[1].command \in 1..k /\ input[1].command \notin DOMAIN made
         /\ input[1].kind = kind[input[1].command]
         /\ Waiting(0)'
<1>1. input \in Seq(Lines) /\ input # <<>> /\ input[1].command # 0 /\ k \in Nat
  <2>1. input # <<>> /\ Head(input).command # 0 /\ Head(input) = input[1]
    BY CommandPrints DEF RunCommand
  <2> QED BY <2>1 DEF SessionType
<1>2. PICK r \in Results : made' = With(made, input[1].command, r)
  BY CommandPrints
<1>3. input' = Tail(input) /\ k' = k /\ kind' = kind
  BY DEF RunCommand, clientVars
<1>4. Waits(input, k, kind, made, n)
  BY DEF Waiting
<1>5. /\ input[1].command \in 1..k /\ input[1].command \notin DOMAIN made
      /\ input[1].kind = kind[input[1].command]
      /\ Waits(Tail(input), k, kind, With(made, input[1].command, r), 0)
  BY <1>1, <1>4, WaitsRun
<1> QED BY <1>2, <1>3, <1>5 DEF Waiting

LEMMA WaitingStep ==
  ASSUME SessionType, ClientInv, LoginInv, NEW n \in Nat, Waiting(n), Next
  PROVE  \E m \in Nat : Waiting(m)'
<1> USE DEF clientVars, device, shellVars
<1>0. /\ k \in Nat /\ kind \in [1..k -> Kinds] /\ input \in Seq(Lines)
      /\ Waits(input, k, kind, made, n)
  BY DEF SessionType, Waiting
<1>1. ASSUME NEW kd \in Kinds, Begin(kd) PROVE Waiting(n)'
  <2>1. Waits(Append(input, [command |-> k + 1, kind |-> kd]), k + 1, With(kind, k + 1, kd), made, n)
    BY <1>0, WaitsSent
  <2>2. /\ input' = Append(input, [command |-> k + 1, kind |-> kd]) /\ k' = k + 1
        /\ kind' = With(kind, k + 1, kd) /\ made' = made
    BY <1>1 DEF Begin
  <2> QED BY <2>1, <2>2 DEF Waiting
<1>2. CASE UNCHANGED <<input, k, kind, made>>
  BY <1>0, <1>2 DEF Waiting
<1>3. CASE ReadWelcome
  <2>1. k = 0 /\ UNCHANGED <<k, kind, made>>
    BY <1>3 DEF ReadWelcome, ClientInv
  <2>2. CASE Head(buffered).tok \in {"login", "password"}
    <3> DEFINE l == [command |-> 0, kind |-> Head(buffered).tok]
    <3>1. l \in Lines /\ l.command = 0
      BY <2>2 DEF Lines
    <3>2. input' = Append(input, l)
      BY <1>3, <2>2 DEF ReadWelcome
    <3> HIDE DEF l
    <3>3. Waits(Append(input, l), k, kind, made, n + 1)
      BY <1>0, <2>1, <3>1, WaitsMore
    <3>4. Waiting(n + 1)'
      BY <2>1, <3>2, <3>3 DEF Waiting
    <3> QED BY <3>4
  <2>3. CASE Head(buffered).tok \notin {"login", "password"}
    BY <1>2, <1>3, <2>3 DEF ReadWelcome
  <2> QED BY <2>2, <2>3
<1>4. CASE LogIn \/ RunStray
  <2>1. input # <<>> /\ input' = Tail(input) /\ UNCHANGED <<k, kind, made>>
    BY <1>4 DEF LogIn, RunStray
  <2>2. k = 0 \/ input[1].command = 0
    <3>1. input[1] = Head(input)
      BY <1>0, <2>1, HeadTailProperties, EmptySeq
    <3> QED BY <1>4, <3>1 DEF LogIn, RunStray, LoginInv
  <2>3. n - 1 \in Nat /\ Waits(Tail(input), k, kind, made, n - 1)
    BY <1>0, <2>1, <2>2, WaitsTyped
  <2>4. Waiting(n - 1)'
    BY <2>1, <2>3 DEF Waiting
  <2> QED BY <2>3, <2>4
<1>5. CASE RunCommand
  <2>1. Waiting(0)'
    BY <1>5, OldestRuns
  <2> QED BY <2>1
<1>6. CASE Done \/ DialFails \/ Fill \/ SkipUnit \/ ReadPlain \/ ReadBegin \/ ReadBody \/ ReadPrompt \/ TimeOut
  <2>1. UNCHANGED <<input, k, kind, made>>
    BY <1>6 DEF Done, vars, DialFails, Fill, SkipUnit, ReadPlain, ReadBegin, ReadBody, ReadPrompt, TimeOut
  <2> QED BY <1>2, <2>1
<1> QED BY <1>1, <1>2, <1>3, <1>4, <1>5, <1>6 DEF Next, ClientStep

\* The client takes units from the front of the stream and changes none.
LeftAfter(new, old, d) ==
  /\ Len(old) \in Nat /\ Len(new) = Len(old) - d /\ Len(new) \in Nat
  /\ \A i \in 1..Len(new) : new[i] = old[i + d]

LEMMA StreamShrinks ==
  ASSUME SessionType, ClientStep \/ Done
  PROVE  \E d \in Nat : LeftAfter(stream', stream, d)
<1>0. /\ buffered \in Seq(Units) /\ wire \in Seq(Units)
      /\ stream \in Seq(Units) /\ Len(stream) \in Nat
  BY ConcatProperties DEF SessionType, stream
<1>1. CASE stream' = stream
  <2>1. LeftAfter(stream, stream, 0)
    BY <1>0 DEF LeftAfter
  <2> QED BY <1>1, <2>1
<1>2. CASE Reads /\ UNCHANGED wire
  <2>1. /\ Len(stream) > 0 /\ Len(stream') = Len(stream) - 1
        /\ \A i \in 1..Len(stream') : stream'[i] = stream[i + 1]
    BY <1>2, ReadsFirst
  <2>2. LeftAfter(stream', stream, 1)
    BY <1>0, <2>1 DEF LeftAfter
  <2> QED BY <2>2
<1>3. ASSUME NEW kd \in Kinds, Begin(kd) PROVE \E d \in Nat : LeftAfter(stream', stream, d)
  <2>1. buffered' = <<>> /\ wire' = wire
    BY <1>3 DEF Begin, Discard
  <2>2. stream' = wire
    BY <1>0, <2>1, ConcatEmptySeq DEF stream
  <2>3. Splits(stream, buffered, wire)
    BY <1>0, Joined DEF stream
  <2>4. LeftAfter(wire, stream, Len(buffered))
    BY <2>3 DEF Splits, LeftAfter
  <2>5. Len(buffered) \in Nat
    BY <2>3 DEF Splits
  <2> QED BY <2>2, <2>4, <2>5
<1>4. CASE Fill
  BY <1>1, <1>4, FillMoves
<1>5. CASE DialFails \/ TimeOut \/ Done
  BY <1>1, <1>5 DEF DialFails, TimeOut, Done, vars, stream
<1>6. CASE ReadWelcome \/ SkipUnit \/ ReadPlain \/ ReadBegin \/ ReadBody \/ ReadPrompt
  BY <1>2, <1>6 DEF ReadWelcome, SkipUnit, ReadPlain, ReadBegin, ReadBody, ReadPrompt
<1> QED BY <1>3, <1>4, <1>5, <1>6 DEF ClientStep

LEMMA LoginInvStep ==
  ASSUME SessionType, LoginInv, Next
  PROVE  LoginInv'
<1> SUFFICES ASSUME gate' # "shell"
             PROVE  /\ cpc' \in {"dial", "failed"} /\ k' = 0
                    /\ \A i \in 1..Len(stream') : ~LooksLikePrompt(stream'[i])
  BY DEF LoginInv
<1> USE DEF clientVars, device, shellVars
<1>1. CASE ClientStep \/ Done
  <2>1. gate' = gate
    BY <1>1 DEF ClientStep, Begin, ReadWelcome, DialFails, Fill, SkipUnit, ReadPlain, ReadBegin,
                ReadBody, ReadPrompt, TimeOut, Done, vars
  <2>2. /\ cpc \in {"dial", "failed"} /\ k = 0
        /\ \A i \in 1..Len(stream) : ~LooksLikePrompt(stream[i])
    BY <2>1 DEF LoginInv
  <2>3. cpc' \in {"dial", "failed"} /\ k' = 0
    <3>1. CASE ReadWelcome
      <4>1. Len(stream) \in Nat /\ Len(stream) > 0 /\ Head(buffered) = stream[1]
        <5>1. Reads /\ UNCHANGED wire
          BY <3>1 DEF ReadWelcome
        <5>2. Len(stream) \in Nat
          BY ConcatProperties DEF SessionType, stream
        <5> QED BY <5>1, <5>2, ReadsFirst
      <4>2. ~LooksLikePrompt(Head(buffered))
        BY <2>2, <4>1
      <4> QED BY <2>2, <3>1, <4>2 DEF ReadWelcome
    <3>2. CASE Done \/ DialFails \/ Fill
      BY <2>2, <3>2 DEF Done, vars, DialFails, Fill
    <3>3. CASE (\E kd \in Kinds : Begin(kd)) \/ SkipUnit \/ ReadPlain \/ ReadBegin \/ ReadBody \/ ReadPrompt \/ TimeOut
      BY <2>2, <3>3 DEF Begin, SkipUnit, ReadPlain, ReadBegin, ReadBody, ReadPrompt, TimeOut
    <3> QED BY <1>1, <3>1, <3>2, <3>3 DEF ClientStep
  <2>4. PICK d \in Nat : LeftAfter(stream', stream, d)
    BY <1>1, StreamShrinks
  <2>5. \A i \in 1..Len(stream') : ~LooksLikePrompt(stream'[i])
    <3> TAKE i \in 1..Len(stream')
    <3>1. i + d \in 1..Len(stream) /\ stream'[i] = stream[i + d]
      BY <2>4 DEF LeftAfter
    <3> QED BY <2>2, <3>1
  <2> QED BY <2>3, <2>5
<1>2. CASE LogIn
  <2>1. /\ cpc \in {"dial", "failed"} /\ k = 0
        /\ \A i \in 1..Len(stream) : ~LooksLikePrompt(stream[i])
    BY <1>2 DEF LogIn, LoginInv
  <2>2. PICK x \in Seq(Units) : /\ wire' = wire \o x
                               /\ \A i \in 1..Len(x) : ~LooksLikePrompt(x[i])
    BY <1>2, LoginPrints
  <2>3. /\ Len(stream) \in Nat /\ Len(x) \in Nat
        /\ \A i \in 1..Len(stream) : stream'[i] = stream[i]
        /\ \A i \in 1..Len(x) : stream'[Len(stream) + i] = x[i]
        /\ \A i \in 1..Len(stream') : i \in 1..Len(stream) \/ \E j \in 1..Len(x) : i = Len(stream) + j
    BY <1>2, <2>2, PrintsLast DEF LogIn
  <2>4. \A i \in 1..Len(stream') : ~LooksLikePrompt(stream'[i])
    <3> TAKE i \in 1..Len(stream')
    <3>1. CASE i \in 1..Len(stream)
      BY <2>1, <2>3, <3>1
    <3>2. ASSUME NEW j \in 1..Len(x), i = Len(stream) + j PROVE ~LooksLikePrompt(stream'[i])
      <4>1. stream'[i] = x[j]
        BY <2>3, <3>2
      <4> QED BY <2>2, <4>1
    <3> QED BY <2>3, <3>1, <3>2
  <2> QED BY <1>2, <2>1, <2>4 DEF LogIn
<1>3. CASE RunStray \/ RunCommand
  BY <1>3 DEF RunStray, RunCommand
<1> QED BY <1>1, <1>2, <1>3 DEF Next

\* The shell runs the oldest command and prints its frames and its output.
LEMMA CommandAdds ==
  ASSUME SessionType, NEW n \in Nat, Waiting(n), RunCommand
  PROVE  \E c \in 1..k, r \in Results, x \in Seq(Units) :
           /\ c \notin DOMAIN made
           /\ made' = With(made, c, r)
           /\ wire' = wire \o x
           /\ Adds(x, c, kind[c], r)
<1> DEFINE c == input[1].command
<1>1. c \in 1..k /\ c \notin DOMAIN made /\ input[1].kind = kind[c]
  BY OldestRuns
<1>2. PICK r \in Results : /\ made' = With(made, c, r)
                          /\ wire' = wire \o Printed(c, input[1].kind, r, asks)
  BY CommandPrints
<1>3. c \in Nat /\ kind[c] \in Kinds /\ asks \in BOOLEAN
  BY <1>1 DEF SessionType
<1> HIDE DEF c
<1> DEFINE x == Printed(c, kind[c], r, asks)
<1>4. x \in Seq(Units) /\ Adds(x, c, kind[c], r)
  BY <1>3, PrintedUnits
<1> HIDE DEF x
<1>5. wire' = wire \o x
  BY <1>1, <1>2 DEF x
<1> QED BY <1>1, <1>2, <1>4, <1>5

LEMMA FramesStep ==
  ASSUME SessionType, FramesInv, NEW n \in Nat, Waiting(n), Next
  PROVE  FramesInv'
<1> USE DEF clientVars, device, shellVars
<1>1. CASE ClientStep \/ Done
  <2>1. made' = made
    BY <1>1 DEF ClientStep, Begin, ReadWelcome, DialFails, Fill, SkipUnit, ReadPlain, ReadBegin,
                ReadBody, ReadPrompt, TimeOut, Done, vars
  <2>2. PICK d \in Nat : LeftAfter(stream', stream, d)
    BY <1>1, StreamShrinks
  <2>3. ASSUME NEW i \in 1..Len(stream'), stream'[i].of # 0
        PROVE  stream'[i].tok \in {"begin", "end"} /\ stream'[i].of \in DOMAIN made'
    <3>1. i + d \in 1..Len(stream) /\ stream'[i] = stream[i + d]
      BY <2>2 DEF LeftAfter
    <3> QED BY <2>1, <2>3, <3>1 DEF FramesInv
  <2> QED BY <2>3 DEF FramesInv
<1>2. ASSUME NEW x \in Seq(Units), wire' = wire \o x, UNCHANGED buffered, DOMAIN made \subseteq DOMAIN made',
             \A j \in 1..Len(x) : x[j].of # 0 => x[j].tok \in {"begin", "end"} /\ x[j].of \in DOMAIN made'
      PROVE  FramesInv'
  <2>1. /\ \A i \in 1..Len(stream) : stream'[i] = stream[i]
        /\ \A j \in 1..Len(x) : stream'[Len(stream) + j] = x[j]
        /\ \A i \in 1..Len(stream') : i \in 1..Len(stream) \/ \E j \in 1..Len(x) : i = Len(stream) + j
    BY <1>2, PrintsLast
  <2>2. ASSUME NEW i \in 1..Len(stream'), stream'[i].of # 0
        PROVE  stream'[i].tok \in {"begin", "end"} /\ stream'[i].of \in DOMAIN made'
    <3>1. CASE i \in 1..Len(stream)
      BY <1>2, <2>1, <2>2, <3>1 DEF FramesInv
    <3>2. ASSUME NEW j \in 1..Len(x), i = Len(stream) + j
          PROVE  stream'[i].tok \in {"begin", "end"} /\ stream'[i].of \in DOMAIN made'
      <4>1. stream'[i] = x[j]
        BY <2>1, <3>2
      <4> QED BY <1>2, <2>2, <4>1
    <3> QED BY <2>1, <3>1, <3>2
  <2> QED BY <2>2 DEF FramesInv
<1>3. CASE LogIn
  <2>1. PICK x \in Seq(Units) : wire' = wire \o x /\ \A i \in 1..Len(x) : x[i].of = 0
    BY <1>3, LoginPrints
  <2>2. UNCHANGED <<buffered, made>>
    BY <1>3 DEF LogIn
  <2> QED BY <1>2, <2>1, <2>2
<1>4. CASE RunStray
  <2>1. wire' = wire \o Stray(asks) /\ Stray(asks) \in Seq(Units)
    BY <1>4, StrayPrints
  <2>2. \A i \in 1..Len(Stray(asks)) : Stray(asks)[i].of = 0
    BY StrayType DEF SessionType
  <2>3. UNCHANGED <<buffered, made>>
    BY <1>4 DEF RunStray
  <2> QED BY <1>2, <2>1, <2>2, <2>3
<1>5. CASE RunCommand
  <2>1. PICK c \in 1..k, r \in Results, x \in Seq(Units) :
          made' = With(made, c, r) /\ wire' = wire \o x /\ Adds(x, c, kind[c], r)
    BY <1>5, CommandAdds
  <2>2. DOMAIN made' = DOMAIN made \cup {c}
    BY <2>1 DEF With
  <2>3. kind[c] \in {"plain", "checked"}
    BY DEF SessionType
  <2>4. ASSUME NEW j \in 1..Len(x), x[j].of # 0
        PROVE  x[j].tok \in {"begin", "end"} /\ x[j].of = c
    <3>1. kind[c] = "checked" /\ (j = 3 \/ j = Len(r.out) + 4)
      BY <2>1, <2>3, <2>4 DEF Adds
    <3>2. x[j] = Frame("begin", c, "zero") \/ x[j] = Frame("end", c, r.status)
      BY <2>1, <3>1 DEF Adds
    <3> QED BY <3>2 DEF Frame
  <2>5. UNCHANGED buffered
    BY <1>5 DEF RunCommand
  <2> QED BY <1>2, <2>1, <2>2, <2>4, <2>5
<1> QED BY <1>1, <1>3, <1>4, <1>5 DEF Next

\* The rest of an output stays where it is when something is printed behind it.
LEMMA RestStays ==
  ASSUME NEW s, NEW t, NEW p \in Nat, NEW c, NEW r \in Results, NEW m \in Nat,
         Len(s) \in Nat, Len(t) \in Nat, Len(s) <= Len(t), \A i \in 1..Len(s) : t[i] = s[i],
         p > 0, m <= Len(r.out), Rest(s, p, c, r, m)
  PROVE  Rest(t, p, c, r, m)
<1>0. Len(r.out) \in Nat
  BY ResultType
<1>1. p + Len(r.out) - m <= Len(s)
  BY DEF Rest
<1>2. ASSUME NEW i \in 1..(Len(r.out) - m) PROVE t[p + i - 1] = Token(r.out[m + i])
  <2>1. p + i - 1 \in 1..Len(s)
    BY <1>0, <1>1
  <2> QED BY <2>1 DEF Rest
<1>3. t[p + Len(r.out) - m] = Frame("end", c, r.status)
  <2>1. p + Len(r.out) - m \in 1..Len(s)
    BY <1>0, <1>1
  <2> QED BY <2>1 DEF Rest
<1>4. p + Len(r.out) - m <= Len(t)
  BY <1>0, <1>1
<1> QED BY <1>2, <1>3, <1>4 DEF Rest

\* One unit is taken from the front.
LEMMA RestMoves ==
  ASSUME NEW s, NEW t, NEW p \in Nat, NEW c, NEW r \in Results, NEW m \in Nat,
         Len(t) \in Nat, LeftAfter(t, s, 1), p > 0, m <= Len(r.out), Rest(s, p + 1, c, r, m)
  PROVE  Rest(t, p, c, r, m)
<1>0. Len(r.out) \in Nat /\ Len(s) \in Nat /\ Len(t) = Len(s) - 1
  BY ResultType DEF LeftAfter
<1>1. (p + 1) + Len(r.out) - m <= Len(s)
  BY DEF Rest
<1> DEFINE o == Len(r.out)
           ls == Len(s)
           lt == Len(t)
<1>a. /\ o \in Nat /\ ls \in Nat /\ lt \in Nat /\ lt = ls - 1
      /\ (p + 1) + o - m <= ls /\ m <= o
  BY <1>0, <1>1
<1> HIDE DEF o, ls, lt
<1>b. /\ p + o - m <= lt /\ p + o - m \in 1..lt /\ (p + o - m) + 1 = (p + 1) + o - m
      /\ \A i \in 1..(o - m) : p + i - 1 \in 1..lt /\ (p + i - 1) + 1 = (p + 1) + i - 1
  BY <1>a
<1>2. ASSUME NEW i \in 1..(Len(r.out) - m) PROVE t[p + i - 1] = Token(r.out[m + i])
  <2>1. p + i - 1 \in 1..Len(t) /\ (p + i - 1) + 1 = (p + 1) + i - 1
    BY <1>b DEF o, lt
  <2>2. t[p + i - 1] = s[(p + 1) + i - 1]
    BY <2>1 DEF LeftAfter
  <2> QED BY <2>2 DEF Rest
<1>3. t[p + Len(r.out) - m] = Frame("end", c, r.status)
  <2>1. p + Len(r.out) - m \in 1..Len(t) /\ (p + Len(r.out) - m) + 1 = (p + 1) + Len(r.out) - m
    BY <1>b DEF o, lt
  <2>2. t[p + Len(r.out) - m] = s[(p + 1) + Len(r.out) - m]
    BY <2>1 DEF LeftAfter
  <2> QED BY <2>2 DEF Rest
<1>4. p + Len(r.out) - m <= Len(t)
  BY <1>b DEF o, lt
<1> QED BY <1>2, <1>3, <1>4 DEF Rest

\* The first unit of an output is read.
LEMMA RestRead ==
  ASSUME NEW s, NEW t, NEW c, NEW r \in Results, NEW m \in Nat,
         LeftAfter(t, s, 1), m < Len(r.out), Rest(s, 1, c, r, m)
  PROVE  Rest(t, 1, c, r, m + 1)
<1>0. Len(r.out) \in Nat /\ Len(s) \in Nat /\ Len(t) \in Nat /\ Len(t) = Len(s) - 1
  BY ResultType DEF LeftAfter
<1>1. 1 + Len(r.out) - m <= Len(s)
  BY DEF Rest
<1>2. ASSUME NEW i \in 1..(Len(r.out) - (m + 1)) PROVE t[1 + i - 1] = Token(r.out[(m + 1) + i])
  <2>1. i \in 1..Len(t) /\ i + 1 \in 1..(Len(r.out) - m) /\ 1 + i - 1 = i /\ 1 + (i + 1) - 1 = i + 1
        /\ m + (i + 1) = (m + 1) + i
    BY <1>0, <1>1
  <2>2. s[1 + (i + 1) - 1] = Token(r.out[m + (i + 1)])
    BY <2>1 DEF Rest
  <2>3. t[i] = s[i + 1]
    BY <2>1 DEF LeftAfter
  <2> QED BY <2>1, <2>2, <2>3
<1>3. t[1 + Len(r.out) - (m + 1)] = Frame("end", c, r.status)
  <2>1. 1 + Len(r.out) - (m + 1) \in 1..Len(t) /\ (1 + Len(r.out) - (m + 1)) + 1 = 1 + Len(r.out) - m
    BY <1>0, <1>1
  <2>2. t[1 + Len(r.out) - (m + 1)] = s[1 + Len(r.out) - m]
    BY <2>1 DEF LeftAfter
  <2> QED BY <2>2 DEF Rest
<1>4. 1 + Len(r.out) - (m + 1) <= Len(t)
  BY <1>0, <1>1
<1> QED BY <1>2, <1>3, <1>4 DEF Rest

\* What the shell prints for other lines does not touch what it has printed for
\* the client's command.
LEMMA FramedStays ==
  ASSUME SessionType, ClientInv, FramedInv, NEW x \in Seq(Units), wire' = wire \o x, UNCHANGED buffered,
         k \in DOMAIN made, k \in DOMAIN made', made'[k] = made[k],
         UNCHANGED clientVars, \A i \in 1..Len(x) : x[i].of # k
  PROVE  FramedInv'
<1>1. /\ Len(stream) \in Nat /\ Len(x) \in Nat /\ Len(stream') = Len(stream) + Len(x)
      /\ \A i \in 1..Len(stream) : stream'[i] = stream[i]
      /\ \A i \in 1..Len(x) : stream'[Len(stream) + i] = x[i]
      /\ \A i \in 1..Len(stream') : i \in 1..Len(stream) \/ \E j \in 1..Len(x) : i = Len(stream) + j
  BY PrintsLast
<1>2. Len(stream') \in Nat /\ Len(stream) <= Len(stream')
  BY <1>1
<1>3. UNCHANGED <<cpc, k, reply, status>>
  BY DEF clientVars
<1>4. made[k] \in Results /\ made'[k'] = made[k]
  BY <1>3 DEF SessionType
<1>5. CASE cpc = "begin"
  <2>1. PICK p \in Nat : Framed(stream, p, k, made[k])
    BY <1>5 DEF FramedInv
  <2>2. p \in 1..Len(stream') /\ stream'[p] = Frame("begin", k, "zero")
    BY <1>1, <1>2, <2>1 DEF Framed
  <2>3. Rest(stream', p + 1, k, made[k], 0)
    <3>1. Rest(stream, p + 1, k, made[k], 0) /\ p + 1 \in Nat /\ p + 1 > 0 /\ 0 <= Len(made[k].out)
      BY <1>4, <2>1, ResultType DEF Framed
    <3> QED BY <1>1, <1>2, <1>4, <3>1, RestStays
  <2>4. ASSUME NEW i \in 1..Len(stream'), stream'[i].of = k, stream'[i].tok = "begin" PROVE i = p
    <3>1. CASE i \in 1..Len(stream)
      BY <1>1, <2>1, <2>4, <3>1 DEF Framed
    <3>2. ASSUME NEW j \in 1..Len(x), i = Len(stream) + j PROVE FALSE
      <4>1. stream'[i] = x[j]
        BY <1>1, <3>2
      <4> QED BY <2>4, <4>1
    <3> QED BY <1>1, <3>1, <3>2
  <2>5. Framed(stream', p, k, made[k])
    BY <2>2, <2>3, <2>4 DEF Framed
  <2> QED BY <1>3, <1>4, <1>5, <2>5 DEF FramedInv
<1>6. CASE cpc = "body"
  <2>1. /\ Len(reply) <= Len(made[k].out)
        /\ \A i \in 1..Len(reply) : reply[i] = made[k].out[i]
        /\ Rest(stream, 1, k, made[k], Len(reply))
    BY <1>6 DEF FramedInv
  <2>2. Len(reply) \in Nat
    BY DEF SessionType
  <2>3. Rest(stream', 1, k, made[k], Len(reply))
    <3> DEFINE m == Len(reply)
    <3>1. m \in Nat /\ m <= Len(made[k].out) /\ Rest(stream, 1, k, made[k], m) /\ 1 \in Nat /\ 1 > 0
      BY <2>1, <2>2
    <3> HIDE DEF m
    <3>2. Rest(stream', 1, k, made[k], m)
      BY <1>1, <1>2, <1>4, <3>1, RestStays
    <3> QED BY <3>2 DEF m
  <2> QED BY <1>3, <1>4, <1>6, <2>1, <2>3 DEF FramedInv
<1>7. CASE cpc \notin {"begin", "body"}
  BY <1>3, <1>4, <1>7 DEF FramedInv
<1> QED BY <1>5, <1>6, <1>7

\* The client reads the begin frame of its command, or drops a unit before it.
LEMMA BeginIsRead ==
  ASSUME SessionType, ClientInv, FramesInv, FramedInv, ReadBegin
  PROVE  FramedInv'
<1>1. /\ cpc = "begin" /\ Reads /\ UNCHANGED wire /\ UNCHANGED <<k, reply, status, made>>
      /\ cpc' = IF Head(buffered).tok = "begin" /\ Head(buffered).of = k THEN "body" ELSE cpc
      /\ reply = <<>> /\ k > 0 /\ k \in Nat
  BY DEF ReadBegin, FramedInv, ClientInv, SessionType, shellVars, Busy
<1>2. /\ Len(stream) > 0 /\ Head(buffered) = stream[1]
      /\ Len(stream') = Len(stream) - 1
      /\ \A i \in 1..Len(stream') : stream'[i] = stream[i + 1]
  BY <1>1, ReadsFirst
<1>3. Len(stream) \in Nat /\ Len(stream') \in Nat /\ LeftAfter(stream', stream, 1)
  <2>1. Len(stream) \in Nat
    BY ConcatProperties DEF SessionType, stream
  <2>2. Len(stream') \in Nat
    BY <1>2, <2>1
  <2> QED BY <1>2, <2>1, <2>2 DEF LeftAfter
<1>4. CASE stream[1].tok = "begin" /\ stream[1].of = k
  <2>1. k \in DOMAIN made
    <3>1. 1 \in 1..Len(stream) /\ stream[1].of # 0
      BY <1>1, <1>2, <1>3, <1>4
    <3> QED BY <1>4, <3>1 DEF FramesInv
  <2>2. PICK p \in Nat : Framed(stream, p, k, made[k])
    BY <1>1, <2>1 DEF FramedInv
  <2>3. p = 1
    <3>1. 1 \in 1..Len(stream)
      BY <1>2, <1>3
    <3> QED BY <1>4, <2>2, <3>1 DEF Framed
  <2>4. made[k] \in Results
    BY <2>1 DEF SessionType
  <2>5. Rest(stream', 1, k, made[k], 0)
    <3>1. Rest(stream, 1 + 1, k, made[k], 0) /\ 0 <= Len(made[k].out)
      BY <2>2, <2>3, <2>4, ResultType DEF Framed
    <3> QED BY <1>3, <2>4, <3>1, RestMoves
  <2>6. Len(made[k].out) \in Nat /\ Len(reply) = 0
    BY <1>1, <2>4, ResultType, EmptySeq
  <2>7. cpc' = "body"
    BY <1>1, <1>2, <1>4
  <2> QED BY <1>1, <2>1, <2>5, <2>6, <2>7 DEF FramedInv
<1>5. CASE ~(stream[1].tok = "begin" /\ stream[1].of = k)
  <2>1. cpc' = "begin" /\ reply' = <<>>
    BY <1>1, <1>2, <1>5
  <2>2. ASSUME k \in DOMAIN made PROVE \E q \in Nat : Framed(stream', q, k, made[k])
    <3>1. PICK p \in Nat : Framed(stream, p, k, made[k])
      BY <1>1, <2>2 DEF FramedInv
    <3>2. p \in 1..Len(stream) /\ p # 1 /\ p - 1 \in Nat /\ p - 1 > 0 /\ (p - 1) + 1 = p
      BY <1>3, <1>5, <3>1 DEF Framed, Frame
    <3>3. made[k] \in Results
      BY <2>2 DEF SessionType
    <3>4. p - 1 \in 1..Len(stream') /\ stream'[p - 1] = Frame("begin", k, "zero")
      <4>1. p - 1 \in 1..Len(stream')
        BY <1>2, <1>3, <3>2
      <4>2. stream'[p - 1] = stream[p]
        BY <1>2, <3>2, <4>1
      <4> QED BY <3>1, <4>1, <4>2 DEF Framed
    <3>5. Rest(stream', (p - 1) + 1, k, made[k], 0)
      <4>1. Rest(stream, p + 1, k, made[k], 0) /\ 0 <= Len(made[k].out) /\ p > 0
        BY <3>1, <3>2, <3>3, ResultType DEF Framed
      <4>2. Rest(stream', p, k, made[k], 0)
        BY <1>3, <3>3, <4>1, RestMoves
      <4> QED BY <3>2, <4>2
    <3>6. ASSUME NEW i \in 1..Len(stream'), stream'[i].of = k, stream'[i].tok = "begin" PROVE i = p - 1
      <4>1. i + 1 \in 1..Len(stream) /\ stream'[i] = stream[i + 1]
        BY <1>2, <1>3
      <4>2. i + 1 = p
        BY <3>1, <3>6, <4>1 DEF Framed
      <4> QED BY <3>2, <4>2
    <3>7. Framed(stream', p - 1, k, made[k])
      BY <3>4, <3>5, <3>6 DEF Framed
    <3> QED BY <3>2, <3>7
  <2> QED BY <1>1, <2>1, <2>2 DEF FramedInv
<1> QED BY <1>4, <1>5

\* The client reads a unit of its command's output, or the end frame.
LEMMA BodyIsRead ==
  ASSUME SessionType, ClientInv, FramedInv, ReadBody
  PROVE  FramedInv'
<1> DEFINE r == made[k]
           m == Len(reply)
<1>1. /\ cpc = "body" /\ Reads /\ UNCHANGED wire /\ UNCHANGED <<k, made>> /\ k > 0 /\ k \in Nat
      /\ k \in DOMAIN made /\ r \in Results
      /\ m <= Len(r.out)
      /\ \A i \in 1..m : reply[i] = r.out[i]
      /\ Rest(stream, 1, k, r, m)
      /\ reply \in Seq(Names) /\ m \in Nat
  BY DEF ReadBody, FramedInv, ClientInv, SessionType, shellVars, Busy
<1>2. r.out \in Seq(Names) /\ Len(r.out) \in Nat
  BY <1>1, ResultType
<1>3. /\ Len(stream) > 0 /\ Head(buffered) = stream[1]
      /\ Len(stream') = Len(stream) - 1
      /\ \A i \in 1..Len(stream') : stream'[i] = stream[i + 1]
      /\ Head(buffered) \in Units
  BY <1>1, ReadsFirst
<1>4. LeftAfter(stream', stream, 1)
  <2>1. Len(stream) \in Nat
    BY ConcatProperties DEF SessionType, stream
  <2>2. Len(stream') \in Nat
    BY <1>3, <2>1
  <2> QED BY <1>3, <2>1, <2>2 DEF LeftAfter
<1>5. IF stream[1].tok = "end" /\ stream[1].of = k
      THEN cpc' = "prompt" /\ status' = stream[1].status /\ reply' = reply
      ELSE reply' = Append(reply, stream[1].tok) /\ UNCHANGED <<cpc, status>>
  BY <1>3 DEF ReadBody
<1> HIDE DEF r, m
<1>6. CASE m = Len(r.out)
  <2>1. stream[1] = Frame("end", k, r.status)
    <3>1. stream[1 + Len(r.out) - m] = Frame("end", k, r.status)
      BY <1>1 DEF Rest
    <3>2. 1 + Len(r.out) - m = 1
      BY <1>1, <1>2, <1>6
    <3> QED BY <3>1, <3>2
  <2>2. cpc' = "prompt" /\ status' = r.status /\ reply' = reply
    BY <1>5, <2>1 DEF Frame
  <2>3. reply = r.out
    <3>1. Len(reply) = Len(r.out) /\ \A i \in 1..Len(reply) : reply[i] = r.out[i]
      BY <1>1, <1>6 DEF m
    <3> QED BY <1>1, <1>2, <3>1, SeqEqual
  <2> QED BY <1>1, <2>2, <2>3 DEF FramedInv, r
<1>7. CASE m < Len(r.out)
  <2>1. stream[1] = Token(r.out[m + 1])
    <3>1. 1 \in 1..(Len(r.out) - m) /\ 1 + 1 - 1 = 1
      BY <1>1, <1>2, <1>7
    <3> QED BY <1>1, <3>1 DEF Rest
  <2>2. reply' = Append(reply, r.out[m + 1]) /\ cpc' = "body"
    BY <1>1, <1>5, <2>1 DEF Token
  <2>3. r.out[m + 1] \in Names
    BY <1>1, <1>2, <1>7, ElementOfSeq
  <2>4. /\ Len(reply') = m + 1
        /\ reply'[m + 1] = r.out[m + 1]
        /\ \A i \in 1..m : reply'[i] = reply[i]
    <3>1. Len(reply) = m
      BY DEF m
    <3> QED BY <1>1, <2>2, <2>3, <3>1, AppendProperties
  <2>5. Rest(stream', 1, k, r, m + 1)
    BY <1>1, <1>4, <1>7, RestRead
  <2>6. \A i \in 1..(m + 1) : reply'[i] = r.out[i]
    BY <1>1, <2>4
  <2>7. m + 1 <= Len(r.out)
    BY <1>1, <1>2, <1>7
  <2>8. made'[k'] = r /\ k' \in DOMAIN made'
    BY <1>1 DEF r
  <2> QED BY <1>1, <2>2, <2>4, <2>5, <2>6, <2>7, <2>8 DEF FramedInv
<1> QED BY <1>1, <1>2, <1>6, <1>7

\* The shell runs the client's own command: its frames come behind everything
\* that was in the stream.
LEMMA OwnCommandRuns ==
  ASSUME SessionType, ClientInv, FramesInv, FramedInv, cpc = "begin", UNCHANGED <<clientVars, buffered>>,
         NEW r \in Results, NEW x \in Seq(Units), k \notin DOMAIN made,
         made' = With(made, k, r), wire' = wire \o x, Adds(x, k, kind[k], r)
  PROVE  FramedInv'
<1>1. /\ Len(stream) \in Nat /\ Len(x) \in Nat /\ Len(stream') = Len(stream) + Len(x)
      /\ \A i \in 1..Len(stream) : stream'[i] = stream[i]
      /\ \A i \in 1..Len(x) : stream'[Len(stream) + i] = x[i]
      /\ \A i \in 1..Len(stream') : i \in 1..Len(stream) \/ \E j \in 1..Len(x) : i = Len(stream) + j
  BY PrintsLast
<1>2. UNCHANGED <<cpc, k, reply, status>> /\ kind[k] = "checked" /\ k > 0 /\ k \in Nat /\ reply = <<>>
  BY DEF clientVars, ClientInv, Busy, SessionType, FramedInv
<1>3. /\ Len(r.out) \in Nat /\ Len(r.out) + 4 <= Len(x)
      /\ x[3] = Frame("begin", k, "zero")
      /\ \A i \in 1..Len(r.out) : x[3 + i] = Token(r.out[i])
      /\ x[Len(r.out) + 4] = Frame("end", k, r.status)
      /\ \A i \in 1..Len(x) : i = 3 \/ i = Len(r.out) + 4 \/ x[i].of = 0
  BY <1>2 DEF Adds
<1> DEFINE n == Len(stream)
           o == Len(r.out)
           l == Len(x)
           ln == Len(stream')
<1>4. n \in Nat /\ o \in Nat /\ l \in Nat /\ ln = n + l /\ o + 4 <= l
  BY <1>1, <1>3
<1> HIDE DEF n, o, l, ln
<1>5. /\ n + 3 \in 1..ln /\ n + 3 \in Nat /\ 3 \in 1..l /\ o + 4 \in 1..l /\ (n + 3 + 1) + o - 0 = n + (o + 4)
      /\ (n + 3 + 1) + o - 0 <= ln
      /\ \A i \in 1..(o - 0) : 3 + i \in 1..l /\ i \in 1..o /\ (n + 3 + 1) + i - 1 = n + (3 + i) /\ 0 + i = i
  BY <1>4
<1>6. stream'[n + 3] = Frame("begin", k, "zero")
  BY <1>1, <1>3, <1>5 DEF n, l
<1>7. Rest(stream', n + 3 + 1, k, r, 0)
  <2>1. ASSUME NEW i \in 1..(o - 0) PROVE stream'[(n + 3 + 1) + i - 1] = Token(r.out[0 + i])
    <3>1. stream'[n + (3 + i)] = x[3 + i]
      BY <1>1, <1>5 DEF n, l
    <3>2. x[3 + i] = Token(r.out[i])
      BY <1>3, <1>5 DEF o
    <3> QED BY <1>5, <3>1, <3>2
  <2>2. stream'[(n + 3 + 1) + o - 0] = Frame("end", k, r.status)
    <3>1. stream'[n + (o + 4)] = x[o + 4]
      BY <1>1, <1>5 DEF n, l
    <3>2. x[o + 4] = Frame("end", k, r.status)
      BY <1>3 DEF o
    <3> QED BY <1>5, <3>1, <3>2
  <2> QED BY <1>5, <2>1, <2>2 DEF Rest, o, ln
<1>8. ASSUME NEW i \in 1..ln, stream'[i].of = k, stream'[i].tok = "begin" PROVE i = n + 3
  <2>1. CASE i \in 1..n
    <3>1. stream[i].of = k /\ stream[i].of # 0
      BY <1>1, <1>2, <1>8, <2>1 DEF n
    <3>2. k \in DOMAIN made
      BY <2>1, <3>1 DEF FramesInv, n
    <3> QED BY <3>2
  <2>2. ASSUME NEW j \in 1..l, i = n + j PROVE j = 3
    <3>1. stream'[i] = x[j]
      BY <1>1, <2>2 DEF n, l
    <3>2. j = 3 \/ j = o + 4
      BY <1>2, <1>3, <1>8, <3>1 DEF l, o
    <3>3. ASSUME j = o + 4 PROVE FALSE
      <4>1. x[j] = Frame("end", k, r.status)
        BY <1>3, <3>3 DEF o
      <4> QED BY <1>8, <3>1, <4>1 DEF Frame
    <3> QED BY <3>2, <3>3
  <2>3. i \in 1..n \/ \E j \in 1..l : i = n + j
    BY <1>1 DEF n, l, ln
  <2> QED BY <2>1, <2>2, <2>3
<1>9. Framed(stream', n + 3, k, r)
  BY <1>5, <1>6, <1>7, <1>8 DEF Framed, ln
<1>10. made'[k] = r
  BY DEF With
<1> QED BY <1>2, <1>5, <1>9, <1>10 DEF FramedInv

LEMMA FramedStep ==
  ASSUME SessionType, ClientInv, LoginInv, FramesInv, FramedInv, NEW n \in Nat, Waiting(n), Next
  PROVE  FramedInv'
<1> USE DEF device, shellVars
<1>0. k \in Nat /\ DOMAIN made \subseteq 1..k
  <2>1. k \in Nat /\ Len(input) \in Nat
    BY DEF SessionType
  <2> QED BY <2>1 DEF Waiting, Waits
<1>1. ASSUME NEW kd \in Kinds, Begin(kd) PROVE FramedInv'
  <2>1. k' = k + 1 /\ made' = made /\ reply' = <<>> /\ cpc' \in {"skip", "begin"}
    BY <1>1 DEF Begin
  <2>2. k' \notin DOMAIN made'
    BY <1>0, <2>1
  <2> QED BY <2>1, <2>2 DEF FramedInv
<1>2. CASE ReadWelcome \/ DialFails \/ SkipUnit \/ ReadPlain \/ TimeOut
  <2>1. cpc' \in {"dial", "failed", "idle", "skip", "plain"}
    BY <1>2 DEF ReadWelcome, DialFails, SkipUnit, ReadPlain, TimeOut
  <2> QED BY <2>1 DEF FramedInv
<1>3. CASE Fill
  <2>1. stream' = stream /\ UNCHANGED <<cpc, k, reply, status, made>>
    BY <1>3, FillMoves DEF Fill, clientVars
  <2> QED BY <2>1 DEF FramedInv
<1>4. CASE ReadBegin
  BY <1>4, BeginIsRead
<1>5. CASE ReadBody
  BY <1>5, BodyIsRead
<1>6. CASE ReadPrompt
  BY <1>6 DEF ReadPrompt, FramedInv
<1>7. CASE LogIn
  <2>1. cpc' \in {"dial", "failed"}
    BY <1>7 DEF LogIn, LoginInv, clientVars
  <2> QED BY <2>1 DEF FramedInv
<1>9. CASE RunStray
  <2>1. wire' = wire \o Stray(asks) /\ Stray(asks) \in Seq(Units)
        /\ \A i \in 1..Len(Stray(asks)) : Stray(asks)[i].of = 0
    BY <1>9, StrayPrints, StrayType DEF SessionType
  <2>2. UNCHANGED <<clientVars, buffered, made>>
    BY <1>9 DEF RunStray
  <2>3. CASE k \in DOMAIN made
    <3>1. \A i \in 1..Len(Stray(asks)) : Stray(asks)[i].of # k
      BY <1>0, <2>1, <2>3
    <3> QED BY <2>1, <2>2, <2>3, <3>1, FramedStays
  <2>4. CASE k \notin DOMAIN made
    BY <2>2, <2>4 DEF FramedInv, clientVars
  <2> QED BY <2>3, <2>4
<1>10. CASE RunCommand
  <2>1. PICK c \in 1..k, r \in Results, x \in Seq(Units) :
          /\ c \notin DOMAIN made /\ made' = With(made, c, r)
          /\ wire' = wire \o x /\ Adds(x, c, kind[c], r)
    BY <1>10, CommandAdds
  <2>2. UNCHANGED <<clientVars, buffered>>
    BY <1>10 DEF RunCommand
  <2>3. CASE k \in DOMAIN made
    <3>1. k \in DOMAIN made' /\ made'[k] = made[k] /\ k # c
      BY <2>1, <2>3 DEF With
    <3>2. \A i \in 1..Len(x) : x[i].of # k
      <4> TAKE i \in 1..Len(x)
      <4>1. kind[c] \in {"plain", "checked"}
        BY DEF SessionType
      <4>2. x[i].of = 0 \/ x[i] = Frame("begin", c, "zero") \/ x[i] = Frame("end", c, r.status)
        BY <2>1, <4>1 DEF Adds
      <4>3. x[i].of = 0 \/ x[i].of = c
        BY <4>2 DEF Frame
      <4> QED BY <1>0, <2>3, <3>1, <4>3
    <3> QED BY <2>1, <2>2, <2>3, <3>1, <3>2, FramedStays
  <2>4. CASE k \notin DOMAIN made
    <3>1. CASE cpc = "begin" /\ k = c
      BY <2>1, <2>2, <2>4, <3>1, OwnCommandRuns
    <3>2. CASE cpc = "begin" /\ k # c
      <4>1. k \notin DOMAIN made'
        BY <2>1, <2>4, <3>2 DEF With
      <4> QED BY <2>2, <3>2, <4>1 DEF FramedInv, clientVars
    <3>3. CASE cpc # "begin"
      BY <2>2, <2>4, <3>3 DEF FramedInv, clientVars
    <3> QED BY <3>1, <3>2, <3>3
  <2> QED BY <2>3, <2>4
<1>11. CASE Done
  <2>1. UNCHANGED <<cpc, k, reply, status, made, stream>>
    BY <1>11 DEF Done, vars, clientVars, stream
  <2> QED BY <2>1 DEF FramedInv
<1> QED BY <1>1, <1>2, <1>3, <1>4, <1>5, <1>6, <1>7, <1>9, <1>10, <1>11 DEF Next, ClientStep

\* Every step, and every step that changes nothing, preserves the invariant.
LEMMA NextIInv == IInv /\ [Next]_vars => IInv'
<1> SUFFICES ASSUME IInv, [Next]_vars PROVE IInv'
  OBVIOUS
<1>0. SessionType /\ ClientInv /\ LoginInv /\ FramesInv /\ FramedInv
  BY DEF IInv
<1>1. PICK n \in Nat : Waiting(n)
  BY DEF IInv
<1>2. CASE Next
  <2>1. SessionType'
    BY <1>0, <1>2, TypeStep
  <2>2. ClientInv'
    BY <1>0, <1>2, ClientInvStep
  <2>3. \E m \in Nat : Waiting(m)'
    BY <1>0, <1>1, <1>2, WaitingStep
  <2>4. LoginInv'
    BY <1>0, <1>2, LoginInvStep
  <2>5. FramesInv'
    BY <1>0, <1>1, <1>2, FramesStep
  <2>6. FramedInv'
    BY <1>0, <1>1, <1>2, FramedStep
  <2> QED BY <2>1, <2>2, <2>3, <2>4, <2>5, <2>6 DEF IInv
<1>3. CASE UNCHANGED vars
  <2>1. UNCHANGED <<cpc, k, kind, reply, status, answer, buffered, wire, stream, asks, greeting, gate, input, made>>
    BY <1>3 DEF vars, clientVars, shellVars, device, stream
  <2>2. SessionType' /\ ClientInv'
    BY <1>0, <2>1 DEF SessionType, ClientInv
  <2>3. Waiting(n)'
    BY <1>1, <2>1 DEF Waiting
  <2>4. LoginInv' /\ FramesInv' /\ FramedInv'
    BY <1>0, <2>1 DEF LoginInv, FramesInv, FramedInv
  <2> QED BY <2>2, <2>3, <2>4 DEF IInv
<1> QED BY <1>2, <1>3

\* The invariant: what checked commands depend on in a session, whatever the login
\* program and plain commands have left in the stream.
THEOREM TelnetSessionInvariance == Spec => []IInv
BY InitIInv, NextIInv, PTL DEF Spec

-----------------------------------------------------------------------------
(* ExecuteChecked keeps the contract of a session *)

\* Typed and Oldest of an input.
TypedIn(in) == CHOOSE n \in 0..Len(in) :
                 /\ n = 0 \/ in[n].command = 0
                 /\ \A i \in (n + 1)..Len(in) : in[i].command # 0
OldestIn(in) == [i \in 1..(Len(in) - TypedIn(in)) |-> in[TypedIn(in) + i].command]

\* The commands after the first m, up to number kk.
Queue(m, kk) == [i \in 1..(kk - m) |-> m + i]

\* The commands that wait are the last ones, those that were not run.
LEMMA OldestAreLast ==
  ASSUME NEW in \in Seq(Lines), NEW kk \in Nat, NEW kd, NEW md, NEW n \in Nat, Waits(in, kk, kd, md, n)
  PROVE  \E m \in 0..kk : DOMAIN md = 1..m /\ OldestIn(in) = Queue(m, kk)
<1> DEFINE l == Len(in)
           m == kk - l + n
<1>1. /\ l \in Nat /\ n \in 0..l /\ l - n <= kk
      /\ \A i \in 1..n : in[i].command = 0
      /\ \A i \in (n + 1)..l : in[i].command = kk - l + i
      /\ DOMAIN md = 1..m
  BY DEF Waits
<1> HIDE DEF l
<1>2. m \in 0..kk /\ kk - m = l - n
  BY <1>1
<1>3. \A i \in (n + 1)..l : in[i].command # 0
  BY <1>1
<1>4. n = 0 \/ in[n].command = 0
  BY <1>1
<1>5. ASSUME NEW t \in 0..l, t = 0 \/ in[t].command = 0, \A i \in (t + 1)..l : in[i].command # 0 PROVE t = n
  <2>1. CASE t > n
    <3>1. t \in (n + 1)..l /\ t # 0
      BY <1>1, <2>1
    <3> QED BY <1>3, <1>5, <3>1
  <2>2. CASE t < n
    <3>1. n \in (t + 1)..l /\ n # 0
      BY <1>1, <2>2
    <3> QED BY <1>4, <1>5, <3>1
  <2> QED BY <1>1, <2>1, <2>2
<1>6. TypedIn(in) = n
  <2>1. \E t \in 0..l : /\ t = 0 \/ in[t].command = 0
                       /\ \A i \in (t + 1)..l : in[i].command # 0
    BY <1>1, <1>3, <1>4
  <2> QED BY <1>5, <2>1 DEF TypedIn, l
<1>7. OldestIn(in) = [i \in 1..(l - n) |-> in[n + i].command]
  BY <1>6 DEF OldestIn, l
<1>8. \A i \in 1..(l - n) : in[n + i].command = m + i
  <2> TAKE i \in 1..(l - n)
  <2>1. n + i \in (n + 1)..l /\ kk - l + (n + i) = m + i
    BY <1>1
  <2> QED BY <1>1, <2>1
<1> HIDE DEF m
<1>9. OldestIn(in) = Queue(m, kk)
  BY <1>2, <1>7, <1>8 DEF Queue
<1> QED BY <1>1, <1>2, <1>9 DEF m

\* The queue is a sequence; a command joins it at the end and leaves it at the front.
LEMMA QueueFacts ==
  ASSUME NEW kk \in Nat, NEW m \in 0..kk
  PROVE  /\ Queue(m, kk + 1) = Append(Queue(m, kk), kk + 1)
         /\ m = kk => Queue(m, kk) = <<>>
         /\ m < kk => /\ Queue(m, kk) # <<>> /\ Head(Queue(m, kk)) = m + 1
                      /\ Tail(Queue(m, kk)) = Queue(m + 1, kk)
<1>0. \A a \in 0..(kk + 1), b \in Nat : b >= a => Queue(a, b) \in Seq(Nat) /\ Len(Queue(a, b)) = b - a
                                    /\ \A i \in 1..(b - a) : Queue(a, b)[i] = a + i
  <2> TAKE a \in 0..(kk + 1), b \in Nat
  <2> HAVE b >= a
  <2> DEFINE q == Queue(a, b)
  <2>1. b - a \in Nat /\ q \in [1..(b - a) -> Nat] /\ \A i \in 1..(b - a) : q[i] = a + i
    BY DEF Queue
  <2> HIDE DEF q
  <2>2. q \in Seq(Nat)
    BY <2>1, SeqDef
  <2>3. Len(q) = b - a
    BY <2>1, <2>2, LenProperties
  <2> QED BY <2>1, <2>2, <2>3 DEF q
<1>1. Queue(m, kk + 1) = Append(Queue(m, kk), kk + 1)
  <2> DEFINE q == Queue(m, kk)
             w == Queue(m, kk + 1)
             a == Append(q, kk + 1)
  <2>1. /\ q \in Seq(Nat) /\ Len(q) = kk - m /\ \A i \in 1..(kk - m) : q[i] = m + i
        /\ w \in Seq(Nat) /\ Len(w) = (kk + 1) - m /\ \A i \in 1..((kk + 1) - m) : w[i] = m + i
    <3>1. m \in 0..(kk + 1) /\ kk + 1 \in Nat /\ kk + 1 >= m /\ kk >= m
      OBVIOUS
    <3> QED BY <1>0, <3>1
  <2> HIDE DEF q, w
  <2>2. a \in Seq(Nat) /\ Len(a) = Len(q) + 1 /\ a[Len(q) + 1] = kk + 1 /\ \A i \in 1..Len(q) : a[i] = q[i]
    <3>1. kk + 1 \in Nat /\ q \in Seq(Nat)
      BY <2>1
    <3> QED BY ONLY <3>1, AppendProperties
  <2> HIDE DEF a
  <2>3. Len(a) = Len(w)
    BY <2>1, <2>2
  <2>4. \A i \in 1..Len(a) : a[i] = w[i]
    <3> TAKE i \in 1..Len(a)
    <3>1. i \in 1..((kk + 1) - m) /\ (i \in 1..(kk - m) \/ i = (kk - m) + 1)
      BY <2>1, <2>2
    <3>2. m + ((kk - m) + 1) = kk + 1
      OBVIOUS
    <3> QED BY <2>1, <2>2, <3>1, <3>2
  <2>5. a = w
    BY <2>1, <2>2, <2>3, <2>4, SeqEqual
  <2> QED BY <2>5 DEF a, q, w
<1>2. ASSUME m = kk PROVE Queue(m, kk) = <<>>
  <2>1. Queue(m, kk) \in Seq(Nat) /\ Len(Queue(m, kk)) = 0
    BY <1>0, <1>2
  <2> QED BY <2>1, EmptySeq
<1>3. ASSUME m < kk
      PROVE  Queue(m, kk) # <<>> /\ Head(Queue(m, kk)) = m + 1 /\ Tail(Queue(m, kk)) = Queue(m + 1, kk)
  <2> DEFINE q == Queue(m, kk)
             w == Queue(m + 1, kk)
             t == Tail(q)
  <2>1. /\ q \in Seq(Nat) /\ Len(q) = kk - m /\ \A i \in 1..(kk - m) : q[i] = m + i
    BY <1>0, <1>3
  <2>2. w \in Seq(Nat) /\ Len(w) = kk - (m + 1) /\ \A i \in 1..(kk - (m + 1)) : w[i] = (m + 1) + i
    <3>1. m + 1 \in 0..(kk + 1) /\ kk >= m + 1
      BY <1>3
    <3> QED BY <1>0, <3>1
  <2> HIDE DEF q, w
  <2>3. Len(q) # 0 /\ q # <<>>
    BY <1>3, <2>1, EmptySeq
  <2>4. /\ Head(q) = q[1] /\ t \in Seq(Nat) /\ Len(t) = Len(q) - 1
        /\ \A i \in 1..Len(t) : t[i] = q[i + 1]
    BY <2>1, <2>3, HeadTailProperties
  <2> HIDE DEF t
  <2>5. Head(q) = m + 1
    BY <1>3, <2>1, <2>4
  <2>6. Len(t) = Len(w)
    BY <2>1, <2>2, <2>4
  <2>7. \A i \in 1..Len(t) : t[i] = w[i]
    <3> TAKE i \in 1..Len(t)
    <3>1. i + 1 \in 1..(kk - m) /\ i \in 1..(kk - (m + 1)) /\ m + (i + 1) = (m + 1) + i
      BY <2>1, <2>4
    <3> QED BY <2>1, <2>2, <2>4, <3>1
  <2>8. t = w
    BY <2>2, <2>4, <2>6, <2>7, SeqEqual
  <2> QED BY <2>3, <2>5, <2>8 DEF t, q, w
<1> QED BY <1>1, <1>2, <1>3

LEMMA SameUpTo ==
  ASSUME NEW a \in Nat, NEW b \in Nat, 1..a = 1..b
  PROVE  a = b
<1>1. ~(a < b)
  <2> SUFFICES ASSUME a < b PROVE FALSE
    OBVIOUS
  <2>1. a + 1 \in 1..b /\ a + 1 \notin 1..a
    OBVIOUS
  <2> QED BY <2>1
<1>2. ~(b < a)
  <2> SUFFICES ASSUME b < a PROVE FALSE
    OBVIOUS
  <2>1. b + 1 \in 1..a /\ b + 1 \notin 1..b
    OBVIOUS
  <2> QED BY <2>1
<1> QED BY <1>1, <1>2

\* The same in a state and in the next one.
LEMMA WaitingCommands ==
  ASSUME IInv
  PROVE  \E m \in 0..k : DOMAIN made = 1..m /\ Oldest = Queue(m, k)
<1>1. PICK n \in Nat : Waits(input, k, kind, made, n)
  BY DEF IInv, Waiting
<1>2. k \in Nat /\ input \in Seq(Lines)
  BY DEF IInv, SessionType
<1>3. Oldest = OldestIn(input)
  BY DEF Oldest, OldestIn, Typed, TypedIn
<1> QED BY <1>1, <1>2, <1>3, OldestAreLast

LEMMA WaitingCommandsNext ==
  ASSUME IInv'
  PROVE  \E m \in 0..k' : DOMAIN made' = 1..m /\ Oldest' = Queue(m, k')
<1>1. PICK n \in Nat : Waits(input', k', kind', made', n)
  BY DEF IInv, Waiting
<1>2. k' \in Nat /\ input' \in Seq(Lines)
  BY DEF IInv, SessionType
<1>3. Oldest' = OldestIn(input')
  BY DEF Oldest, OldestIn, Typed, TypedIn
<1> QED BY <1>1, <1>2, <1>3, OldestAreLast

LEMMA InitRefines ==
  ASSUME Init, IInv PROVE S!SessionInit
<1>1. PICK m \in 0..k : DOMAIN made = 1..m /\ Oldest = Queue(m, k)
  BY WaitingCommands
<1>2. k = 0 /\ m = 0
  BY <1>1 DEF Init
<1>3. Oldest = <<>>
  BY <1>1, <1>2, QueueFacts
<1>4. CheckedAnswers = <<>>
  <2>1. answer = <<>>
    BY DEF Init
  <2>2. {d \in DOMAIN answer : kind[d] = "checked"} = {}
    BY <2>1
  <2> QED BY <2>2 DEF CheckedAnswers
<1> QED BY <1>3, <1>4 DEF Init, S!SessionInit

\* Begin sends, RunCommand runs, ReadPrompt answers and TimeOut gives up; all other
\* steps, and those of a plain command, are invisible to the callers of ExecuteChecked.
LEMMA StepRefines ==
  ASSUME IInv, IInv', [Next]_vars
  PROVE  [S!SessionNext]_S!sessionVars
<1>0. SessionType /\ ClientInv /\ FramedInv /\ k \in Nat /\ k \in 0..NumCommands
  BY DEF IInv, SessionType
<1>1. PICK m \in 0..k : DOMAIN made = 1..m /\ Oldest = Queue(m, k)
  BY WaitingCommands
<1>2. PICK n \in 0..k' : DOMAIN made' = 1..n /\ Oldest' = Queue(n, k')
  BY WaitingCommandsNext
<1>3. ASSUME UNCHANGED <<k, made>> PROVE Oldest' = Oldest
  <2>1. m = n
    BY <1>0, <1>1, <1>2, <1>3, SameUpTo
  <2> QED BY <1>1, <1>2, <1>3, <2>1
<1>4. ASSUME UNCHANGED <<answer, kind>> PROVE CheckedAnswers' = CheckedAnswers
  BY <1>4 DEF CheckedAnswers
<1>5. CASE UNCHANGED <<k, kind, made, answer>>
  BY <1>3, <1>4, <1>5 DEF S!sessionVars
<1>6. ASSUME NEW kd \in Kinds, Begin(kd) PROVE S!SessionNext
  <2>1. k' = k + 1 /\ kind' = With(kind, k + 1, kd) /\ UNCHANGED <<made, answer>> /\ k + 1 \in Commands
    BY <1>0, <1>6 DEF Begin, Commands
  <2>2. Oldest' = Append(Oldest, k + 1)
    <3>1. m = n
      BY <1>0, <1>1, <1>2, <2>1, SameUpTo
    <3> QED BY <1>0, <1>1, <1>2, <2>1, <3>1, QueueFacts
  <2>3. DOMAIN answer \subseteq 1..k /\ DOMAIN kind = 1..k
    BY <1>0 DEF SessionType
  <2>4. CheckedAnswers' = CheckedAnswers
    <3>1. \A d \in DOMAIN answer : kind'[d] = kind[d]
      BY <1>0, <2>1, <2>3 DEF With
    <3>2. {d \in DOMAIN answer' : kind'[d] = "checked"} = {d \in DOMAIN answer : kind[d] = "checked"}
      BY <2>1, <3>1
    <3> QED BY <2>1, <3>2 DEF CheckedAnswers
  <2>5. k + 1 \notin DOMAIN CheckedAnswers /\ k + 1 \notin DOMAIN made
    BY <1>0, <1>1, <2>3 DEF CheckedAnswers
  <2>6. S!Send(k + 1)
    BY <2>1, <2>2, <2>4, <2>5 DEF S!Send, S!Unanswered
  <2> QED BY <2>1, <2>6 DEF S!SessionNext
<1>7. CASE RunCommand
  <2>1. UNCHANGED <<k, kind, answer>>
    BY <1>7 DEF RunCommand, clientVars
  <2>2. PICK w \in Nat : Waiting(w)
    BY DEF IInv
  <2>3. PICK c \in 1..k, r \in Results : c \notin DOMAIN made /\ made' = With(made, c, r)
    BY <1>0, <1>7, <2>2, CommandAdds
  <2>4. 1..n = 1..m \cup {c}
    BY <1>1, <1>2, <2>3 DEF With
  <2>5. c = m + 1 /\ n = m + 1
    <3>1. c \in 1..n /\ c \notin 1..m
      BY <1>1, <2>3, <2>4
    <3>2. m + 1 \in 1..n
      BY <1>0, <3>1
    <3>3. m + 1 = c
      <4>1. m + 1 \notin 1..m
        BY <1>0
      <4>2. m + 1 \in 1..m \cup {c}
        BY <2>4, <3>2
      <4> QED BY <4>1, <4>2
    <3>4. ~(n > m + 1)
      <4> SUFFICES ASSUME n > m + 1 PROVE FALSE
        OBVIOUS
      <4>1. m + 2 \in 1..n /\ m + 2 \notin 1..m /\ m + 2 # c
        BY <3>3
      <4> QED BY <2>4, <4>1
    <3> QED BY <3>2, <3>3, <3>4
  <2>6. m < k
    BY <1>0, <2>3, <2>5
  <2>7. Oldest # <<>> /\ Head(Oldest) = m + 1 /\ Oldest' = Tail(Oldest)
    BY <1>0, <1>1, <1>2, <2>1, <2>5, <2>6, QueueFacts
  <2>8. S!RunOldest
    <3>1. CheckedAnswers' = CheckedAnswers
      BY <1>4, <2>1
    <3>2. made' = S!With(made, Head(Oldest), r)
      BY <2>3, <2>5, <2>7 DEF With, S!With
    <3> QED BY <2>7, <3>1, <3>2 DEF S!RunOldest
  <2> QED BY <2>8 DEF S!SessionNext
<1>8. ASSUME NEW v, cpc \in Busy, UNCHANGED <<k, kind, made>>, answer' = With(answer, k, v)
      PROVE  /\ k \in Commands /\ k \notin DOMAIN CheckedAnswers /\ Oldest' = Oldest
             /\ kind[k] = "checked" => CheckedAnswers' = S!With(CheckedAnswers, k, v)
             /\ kind[k] = "plain" => CheckedAnswers' = CheckedAnswers
  <2>1. k > 0 /\ k \notin DOMAIN answer
    BY <1>0, <1>8 DEF ClientInv
  <2>2. k \in Commands /\ k \notin DOMAIN CheckedAnswers
    BY <1>0, <2>1 DEF Commands, CheckedAnswers
  <2>3. DOMAIN answer' = DOMAIN answer \cup {k} /\ answer'[k] = v /\ \A d \in DOMAIN answer : answer'[d] = answer[d]
    BY <1>8, <2>1 DEF With
  <2>4. ASSUME kind[k] = "checked" PROVE CheckedAnswers' = S!With(CheckedAnswers, k, v)
    <3>1. {d \in DOMAIN answer' : kind'[d] = "checked"} = {d \in DOMAIN answer : kind[d] = "checked"} \cup {k}
      BY <1>8, <2>3, <2>4
    <3>2. DOMAIN CheckedAnswers = {d \in DOMAIN answer : kind[d] = "checked"}
          /\ \A d \in DOMAIN CheckedAnswers : CheckedAnswers[d] = answer[d]
      BY DEF CheckedAnswers
    <3>3. CheckedAnswers' = [d \in DOMAIN CheckedAnswers \cup {k} |-> answer'[d]]
      BY <3>1, <3>2 DEF CheckedAnswers
    <3>4. \A d \in DOMAIN CheckedAnswers \cup {k} : answer'[d] = IF d = k THEN v ELSE CheckedAnswers[d]
      BY <2>2, <2>3, <3>2
    <3> QED BY <3>3, <3>4 DEF S!With
  <2>5. ASSUME kind[k] = "plain" PROVE CheckedAnswers' = CheckedAnswers
    <3>1. {d \in DOMAIN answer' : kind'[d] = "checked"} = {d \in DOMAIN answer : kind[d] = "checked"}
      BY <1>8, <2>3, <2>5
    <3> QED BY <2>3, <3>1 DEF CheckedAnswers
  <2> QED BY <1>3, <1>8, <2>2, <2>4, <2>5
<1>9. CASE ReadPlain
  <2>1. cpc \in Busy /\ kind[k] = "plain" /\ UNCHANGED <<k, kind, made>>
    BY <1>0, <1>9 DEF ReadPlain, ClientInv, Busy, shellVars
  <2>2. CASE answer' = answer
    BY <1>5, <2>1, <2>2
  <2>3. CASE answer' = With(answer, k, [out |-> reply, status |-> "zero"])
    BY <1>8, <2>1, <2>3 DEF S!sessionVars
  <2> QED BY <1>9, <2>2, <2>3 DEF ReadPlain
<1>10. CASE ReadPrompt
  <2>1. /\ cpc \in Busy /\ kind[k] = "checked" /\ UNCHANGED <<k, kind, made>>
        /\ k \in DOMAIN made /\ reply = made[k].out /\ status = made[k].status
    BY <1>0, <1>10 DEF ReadPrompt, ClientInv, FramedInv, Busy, shellVars
  <2>2. CASE answer' = answer
    BY <1>5, <2>1, <2>2
  <2>3. CASE answer' = With(answer, k, [out |-> reply, status |-> status])
    <3>1. [out |-> reply, status |-> status] = made[k]
      <4>1. made[k] \in Results
        BY <1>0, <2>1 DEF SessionType
      <4> QED BY <2>1, <4>1, ResultType
    <3>2. /\ k \in Commands /\ k \notin DOMAIN CheckedAnswers /\ Oldest' = Oldest
          /\ CheckedAnswers' = S!With(CheckedAnswers, k, made[k])
      BY <1>8, <2>1, <2>3, <3>1
    <3>3. Oldest = <<>>
      <4>1. m = k
        BY <1>0, <1>1, <2>1
      <4> QED BY <1>0, <1>1, <4>1, QueueFacts
    <3>4. S!Answer(k)
      BY <2>1, <3>2, <3>3 DEF S!Answer, S!Unanswered
    <3> QED BY <3>2, <3>4 DEF S!SessionNext
  <2> QED BY <1>10, <2>2, <2>3 DEF ReadPrompt
<1>11. CASE TimeOut
  <2>1. cpc \in Busy /\ UNCHANGED <<k, kind, made>> /\ answer' = With(answer, k, Failed)
    BY <1>0, <1>11 DEF TimeOut, SessionType, shellVars
  <2>2. kind[k] \in {"plain", "checked"}
    BY <1>0, <2>1 DEF ClientInv, Busy
  <2>3. CASE kind[k] = "plain"
    BY <1>8, <2>1, <2>3 DEF S!sessionVars
  <2>4. CASE kind[k] = "checked"
    <3>1. S!GiveUp(k) /\ k \in Commands
      BY <1>8, <2>1, <2>4 DEF S!GiveUp, S!Unanswered
    <3> QED BY <3>1 DEF S!SessionNext
  <2> QED BY <2>2, <2>3, <2>4
<1>12. CASE Done \/ ReadWelcome \/ DialFails \/ Fill \/ SkipUnit \/ ReadBegin \/ ReadBody \/ LogIn \/ RunStray \/ UNCHANGED vars
  <2>1. UNCHANGED <<k, kind, made, answer>>
    BY <1>12 DEF Done, vars, ReadWelcome, DialFails, Fill, SkipUnit, ReadBegin, ReadBody, LogIn, RunStray,
                 clientVars, shellVars, device
  <2> QED BY <1>5, <2>1
<1> QED BY <1>6, <1>7, <1>9, <1>10, <1>11, <1>12 DEF Next, ClientStep

\* ImplementsSession: whatever a login, commands that timed out and plain commands
\* have left behind, ExecuteChecked answers with what the shell made of the very
\* command, and only when everything sent before has been run.
THEOREM TelnetSessionImplementsSession == Spec => ImplementsSession
<1>1. Init => S!SessionInit
  BY InitIInv, InitRefines
<1>2. IInv /\ IInv' /\ [Next]_vars => [S!SessionNext]_S!sessionVars
  BY StepRefines
<1> QED BY <1>1, <1>2, TelnetSessionInvariance, PTL DEF Spec, ImplementsSession, S!SessionSpec

-----------------------------------------------------------------------------
(* The escape state *)

LEMMA Least ==
  ASSUME NEW T \in SUBSET Nat, T # {}
  PROVE  \E m \in T : \A n \in T : m <= n
<1> DEFINE R == {ss \in Nat \X Nat : ss[1] < ss[2]}
<1>1. IsWellFoundedOn(R, Nat)
  BY NatLessThanWellFounded DEF OpToRel
<1>2. PICK m \in T : \A n \in T : <<n, m>> \notin R
  <2> HIDE DEF R
  <2> QED BY <1>1, WFMin
<1>3. \A n \in T : ~(n < m)
  BY <1>2
<1> QED BY <1>3

\* The states of the reader on the way through the first n units of s.
IsEscape(f, e, s, n) == f = [i \in 0..n |-> IF i = 0 THEN e ELSE EscapeNext(f[i - 1], s[i])]

LEMMA EscapeExists ==
  ASSUME NEW e, NEW s, NEW n \in Nat
  PROVE  \E f : IsEscape(f, e, s, n)
<1> DEFINE T == {m \in Nat : ~ \E f : IsEscape(f, e, s, m)}
<1> SUFFICES ASSUME T # {} PROVE FALSE
  OBVIOUS
<1>1. PICK m \in T : \A j \in T : m <= j
  <2>1. T \in SUBSET Nat
    OBVIOUS
  <2> HIDE DEF T
  <2> QED BY <2>1, Least
<1>2. m \in Nat /\ ~ \E f : IsEscape(f, e, s, m)
  OBVIOUS
<1>3. m # 0
  <2> SUFFICES ASSUME m = 0 PROVE FALSE
    OBVIOUS
  <2> DEFINE f == [i \in 0..0 |-> e]
  <2>1. f = [i \in 0..0 |-> IF i = 0 THEN e ELSE EscapeNext(f[i - 1], s[i])]
    OBVIOUS
  <2>2. IsEscape(f, e, s, 0)
    BY <2>1 DEF IsEscape
  <2> QED BY <1>2, <2>2
<1>4. m - 1 \in Nat /\ m - 1 \notin T
  BY <1>1, <1>2, <1>3
<1>5. PICK g : IsEscape(g, e, s, m - 1)
  BY <1>4
<1> DEFINE f == [i \in 0..m |-> IF i = m THEN EscapeNext(g[m - 1], s[m]) ELSE g[i]]
<1>6. \A i \in 0..(m - 1) : g[i] = IF i = 0 THEN e ELSE EscapeNext(g[i - 1], s[i])
  BY <1>5 DEF IsEscape
<1>7. \A i \in 0..m : f[i] = IF i = 0 THEN e ELSE EscapeNext(f[i - 1], s[i])
  <2> TAKE i \in 0..m
  <2>1. CASE i = m
    <3>1. f[m] = EscapeNext(g[m - 1], s[m]) /\ f[m - 1] = g[m - 1]
      BY <1>2, <1>3
    <3> QED BY <1>3, <2>1, <3>1
  <2>2. CASE i # m
    <3>1. i \in 0..(m - 1) /\ f[i] = g[i]
      BY <1>2, <2>2
    <3>2. CASE i = 0
      BY <1>6, <3>1, <3>2
    <3>3. CASE i # 0
      <4>1. i - 1 \in 0..m /\ i - 1 # m
        BY <1>2, <3>1, <3>3
      <4>2. f[i - 1] = g[i - 1]
        BY <4>1
      <4> QED BY <1>6, <3>1, <3>3, <4>2
    <3> QED BY <3>2, <3>3
  <2> QED BY <2>1, <2>2
<1>8. IsEscape(f, e, s, m)
  <2>1. f = [i \in 0..m |-> f[i]]
    OBVIOUS
  <2> HIDE DEF f
  <2>2. f = [i \in 0..m |-> IF i = 0 THEN e ELSE EscapeNext(f[i - 1], s[i])]
    BY <1>7, <2>1, Zenon
  <2> QED BY <2>2 DEF IsEscape
<1> QED BY <1>2, <1>8

\* EscapeAfter is the last of the states.
LEMMA EscapeAfterIs ==
  ASSUME NEW e \in BOOLEAN, NEW s, Len(s) \in Nat
  PROVE  \E f : /\ f[0] = e
                /\ \A i \in 1..Len(s) : f[i] = EscapeNext(f[i - 1], s[i])
                /\ EscapeAfter(e, s) = f[Len(s)]
                /\ EscapeAfter(e, s) \in BOOLEAN
<1> DEFINE f == CHOOSE g : IsEscape(g, e, s, Len(s))
<1>1. IsEscape(f, e, s, Len(s))
  BY EscapeExists
<1>2. EscapeAfter(e, s) = f[Len(s)]
  BY DEF EscapeAfter, IsEscape
<1> HIDE DEF f
<1>3. \A i \in 0..Len(s) : f[i] = IF i = 0 THEN e ELSE EscapeNext(f[i - 1], s[i])
  BY <1>1 DEF IsEscape
<1>4. f[0] = e /\ \A i \in 1..Len(s) : f[i] = EscapeNext(f[i - 1], s[i])
  BY <1>3
<1>5. EscapeAfter(e, s) \in BOOLEAN
  <2>1. CASE Len(s) = 0
    BY <1>2, <1>4, <2>1
  <2>2. CASE Len(s) # 0
    <3>1. Len(s) \in 1..Len(s)
      BY <2>2
    <3>2. f[Len(s)] = EscapeNext(f[Len(s) - 1], s[Len(s)])
      BY <1>4, <3>1
    <3>3. EscapeNext(f[Len(s) - 1], s[Len(s)]) \in BOOLEAN
      BY Zenon DEF EscapeNext
    <3> QED BY <1>2, <3>2, <3>3
  <2> QED BY <2>1, <2>2
<1> QED BY <1>2, <1>4, <1>5

-----------------------------------------------------------------------------
(* The pages of a smooth session *)

LEMMA QueryUnits ==
  ASSUME NEW a \in BOOLEAN
  PROVE  /\ Query(a) \in Seq(Units) /\ Len(Query(a)) \in Nat
         /\ \A i \in 1..Len(Query(a)) : Query(a)[i].of = 0
         /\ a => /\ Len(Query(a)) = 2
                 /\ Query(a)[1] = Token("esc") /\ Query(a)[2] = Token("csi")
         /\ ~a => Query(a) = <<>> /\ Len(Query(a)) = 0
<1>1. /\ Query(a) \in Seq(Units) /\ Len(Query(a)) \in Nat
      /\ \A i \in 1..Len(Query(a)) : Query(a)[i].of = 0
  BY QueryType
<1>2. ASSUME a
      PROVE  Len(Query(a)) = 2 /\ Query(a)[1] = Token("esc") /\ Query(a)[2] = Token("csi")
  <2> DEFINE s == <<"esc", "csi">>
  <2>1. s \in Seq(Names) /\ Len(s) = 2 /\ s[1] = "esc" /\ s[2] = "csi"
    BY DEF Names
  <2>2. Query(a) = Tokens(s)
    BY <1>2 DEF Query
  <2> HIDE DEF s
  <2> QED BY <2>1, <2>2, TokensAreUnits
<1>3. ASSUME ~a PROVE Query(a) = <<>> /\ Len(Query(a)) = 0
  BY <1>3 DEF Query
<1> QED BY <1>1, <1>2, <1>3

\* x is e, b, p and t in this order.
Four(x, e, b, p, t) ==
  /\ x \in Seq(Units)
  /\ Len(e) \in Nat /\ Len(b) \in Nat /\ Len(p) \in Nat /\ Len(t) \in Nat
  /\ Len(x) = Len(e) + Len(b) + Len(p) + Len(t)
  /\ \A i \in 1..Len(e) : x[i] = e[i]
  /\ \A i \in 1..Len(b) : x[Len(e) + i] = b[i]
  /\ \A i \in 1..Len(p) : x[Len(e) + Len(b) + i] = p[i]
  /\ \A i \in 1..Len(t) : x[Len(e) + Len(b) + Len(p) + i] = t[i]

LEMMA FourParts ==
  ASSUME NEW e \in Seq(Units), NEW b \in Seq(Units), NEW p \in Seq(Units), NEW t \in Seq(Units)
  PROVE  Four(e \o b \o p \o t, e, b, p, t)
<1> DEFINE f == e \o b
           g == f \o p
           x == g \o t
<1>1. f \in Seq(Units) /\ Splits(f, e, b)
  BY Joined
<1> HIDE DEF f
<1>2. g \in Seq(Units) /\ Splits(g, f, p)
  BY <1>1, Joined
<1> HIDE DEF g
<1>3. x \in Seq(Units) /\ Splits(x, g, t)
  BY <1>2, Joined
<1> HIDE DEF x
<1> DEFINE le == Len(e)
           lb == Len(b)
           lp == Len(p)
           lt == Len(t)
           lf == Len(f)
           lg == Len(g)
<1>4. /\ le \in Nat /\ lb \in Nat /\ lp \in Nat /\ lt \in Nat
      /\ lf = le + lb /\ lg = lf + lp /\ Len(x) = lg + lt
      /\ \A i \in 1..le : f[i] = e[i]
      /\ \A i \in 1..lb : f[le + i] = b[i]
      /\ \A i \in 1..lf : g[i] = f[i]
      /\ \A i \in 1..lp : g[lf + i] = p[i]
      /\ \A i \in 1..lg : x[i] = g[i]
      /\ \A i \in 1..lt : x[lg + i] = t[i]
  BY <1>1, <1>2, <1>3 DEF Splits
<1> HIDE DEF le, lb, lp, lt, lf, lg
<1>5. \A i \in 1..le : x[i] = e[i]
  <2> TAKE i \in 1..le
  <2>1. i \in 1..lf /\ i \in 1..lg
    BY <1>4
  <2> QED BY <1>4, <2>1
<1>6. \A i \in 1..lb : x[le + i] = b[i]
  <2> TAKE i \in 1..lb
  <2>1. le + i \in 1..lf /\ le + i \in 1..lg
    BY <1>4
  <2> QED BY <1>4, <2>1
<1>7. \A i \in 1..lp : x[le + lb + i] = p[i]
  <2> TAKE i \in 1..lp
  <2>1. lf + i \in 1..lg /\ lf + i = le + lb + i
    BY <1>4
  <2> QED BY <1>4, <2>1
<1>8. \A i \in 1..lt : x[le + lb + lp + i] = t[i]
  <2> TAKE i \in 1..lt
  <2>1. lg + i = le + lb + lp + i
    BY <1>4
  <2> QED BY <1>4, <2>1
<1>9. Len(x) = le + lb + lp + lt
  BY <1>4
<1> QED BY <1>3, <1>4, <1>5, <1>6, <1>7, <1>8, <1>9 DEF Four, x, g, f, le, lb, lp, lt

\* The frames of a checked command around its output.
Frames(kd) == IF kd = "checked" THEN 1 ELSE 0

\* x, printed for a command, place by place.
Page(x, c, kd, r, a) ==
  LET o == Len(r.out)
      f == Frames(kd)
  IN  /\ x \in Seq(Units) /\ o \in Nat
      /\ Len(x) = EchoLen + o + 2 * f + 1 + Len(Query(a))
      /\ \A i \in 1..EchoLen : x[i] = Token("echo")
      /\ kd = "checked" => x[EchoLen + 1] = Frame("begin", c, "zero")
      /\ \A i \in 1..o : x[EchoLen + f + i] = Token(r.out[i])
      /\ kd = "checked" => x[EchoLen + o + 2] = Frame("end", c, r.status)
      /\ x[EchoLen + o + 2 * f + 1] = Token("prompt")
      /\ \A i \in 1..Len(Query(a)) : x[EchoLen + o + 2 * f + 1 + i] = Query(a)[i]

LEMMA PrintedIsPage ==
  ASSUME NEW c \in Nat, NEW kd \in Kinds, NEW r \in Results, NEW a \in BOOLEAN
  PROVE  Page(Printed(c, kd, r, a), c, kd, r, a)
<1> DEFINE echo == [i \in 1..EchoLen |-> Token("echo")]
           out == Tokens(r.out)
           begin == <<Frame("begin", c, "zero")>>
           end == <<Frame("end", c, r.status)>>
           prompt == <<Token("prompt")>>
           query == Query(a)
           o == Len(r.out)
<1>0. Names # {} /\ {"echo", "prompt", "begin", "end"} \subseteq Names /\ r.status \in Statuses /\ "zero" \in Statuses
  BY ResultType DEF Names, Statuses
<1>1. echo \in Seq(Units) /\ Len(echo) = 2 /\ \A i \in 1..2 : echo[i] = Token("echo")
  <2>1. Token("echo") \in Units
    BY <1>0 DEF Token, Units
  <2> QED BY <2>1, EchoType
<1>2. out \in Seq(Units) /\ Len(out) = o /\ o \in Nat /\ \A i \in 1..o : out[i] = Token(r.out[i])
  BY TokensAreUnits, ResultType
<1>3. /\ begin \in Seq(Units) /\ Len(begin) = 1 /\ begin[1] = Frame("begin", c, "zero")
      /\ end \in Seq(Units) /\ Len(end) = 1 /\ end[1] = Frame("end", c, r.status)
      /\ prompt \in Seq(Units) /\ Len(prompt) = 1 /\ prompt[1] = Token("prompt")
      /\ <<>> \in Seq(Units) /\ Len(<<>>) = 0
  <2>1. Frame("begin", c, "zero") \in Units /\ Frame("end", c, r.status) \in Units /\ Token("prompt") \in Units
    BY <1>0 DEF Frame, Token, Units
  <2> QED BY <2>1
<1>4. query \in Seq(Units) /\ Len(query) \in Nat
  BY QueryUnits
<1> DEFINE body == begin \o out \o end \o <<>>
           w == IF kd = "checked" THEN body ELSE out
           x == echo \o w \o prompt \o query
<1>5. Printed(c, kd, r, a) = x
  <2>1. begin \o out \o end \o <<>> = begin \o out \o end
    <3>1. begin \o out \o end \in Seq(Units)
      <4> HIDE DEF begin, out, end
      <4> QED BY <1>2, <1>3, ConcatProperties
    <3> HIDE DEF begin, out, end
    <3> QED BY <3>1, ConcatEmptySeq
  <2> QED BY <2>1 DEF Printed
<1> HIDE DEF echo, out, begin, end, prompt, query
<1>6. Four(body, begin, out, end, <<>>)
  BY <1>2, <1>3, FourParts
<1> HIDE DEF body
<1>7. w \in Seq(Units)
  BY <1>2, <1>6 DEF Four
<1>8. Four(x, echo, w, prompt, query)
  <2> HIDE DEF w
  <2> QED BY <1>1, <1>3, <1>4, <1>7, FourParts
<1> HIDE DEF x
<1> DEFINE lq == Len(query)
<1>9. CASE kd = "checked"
  <2>1. w = body
    BY <1>9
  <2>2. /\ Len(body) = o + 2
        /\ body[1] = Frame("begin", c, "zero")
        /\ \A i \in 1..o : body[1 + i] = Token(r.out[i])
        /\ body[o + 2] = Frame("end", c, r.status)
    <3>1. 1 \in 1..1 /\ 1 + o + 1 + 0 = o + 2 /\ 1 + o + 1 = o + 2
      BY <1>2
    <3> HIDE DEF o
    <3> QED BY <1>2, <1>3, <1>6, <3>1 DEF Four
  <2> HIDE DEF o, lq, w
  <2>3. /\ Len(x) = 2 + (o + 2) + 1 + lq /\ lq \in Nat
        /\ \A i \in 1..2 : x[i] = Token("echo")
        /\ \A i \in 1..(o + 2) : x[2 + i] = body[i]
        /\ \A i \in 1..1 : x[2 + (o + 2) + i] = prompt[i]
        /\ \A i \in 1..lq : x[2 + (o + 2) + 1 + i] = query[i]
    <3>1. Len(echo) = 2 /\ Len(w) = o + 2 /\ Len(prompt) = 1 /\ Len(query) = lq
      BY <1>1, <1>3, <2>1, <2>2 DEF lq
    <3> QED BY <1>1, <1>8, <2>1, <3>1 DEF Four
  <2>4. x[3] = body[1] /\ x[o + 4] = body[o + 2] /\ \A i \in 1..o : x[3 + i] = body[1 + i]
    <3>1. 1 \in 1..(o + 2) /\ o + 2 \in 1..(o + 2) /\ \A i \in 1..o : 1 + i \in 1..(o + 2) /\ 2 + (1 + i) = 3 + i
      BY <1>2
    <3>2. 2 + 1 = 3 /\ 2 + (o + 2) = o + 4
      BY <1>2
    <3> QED BY <2>3, <3>1, <3>2
  <2>5. x[o + 5] = Token("prompt")
    <3>1. 2 + (o + 2) + 1 = o + 5 /\ 1 \in 1..1
      BY <1>2
    <3> QED BY <1>3, <2>3, <3>1
  <2>6. \A i \in 1..lq : x[o + 5 + i] = query[i]
    <3>1. \A i \in 1..lq : 2 + (o + 2) + 1 + i = o + 5 + i
      BY <1>2
    <3> QED BY <2>3, <3>1
  <2>7. /\ Frames(kd) = 1 /\ EchoLen = 2 /\ EchoLen + o + 2 * 1 + 1 = o + 5 /\ EchoLen + 1 = 3 /\ EchoLen + o + 2 = o + 4
        /\ \A i \in 1..o : EchoLen + 1 + i = 3 + i
        /\ EchoLen + o + 2 * 1 + 1 + lq = 2 + (o + 2) + 1 + lq
    BY <1>2, <1>9, <2>3 DEF Frames, EchoLen
  <2>8. x \in Seq(Units)
    BY <1>8 DEF Four
  <2> QED BY <1>2, <1>5, <2>2, <2>3, <2>4, <2>5, <2>6, <2>7, <2>8 DEF Page, o, lq, query
<1>10. CASE kd # "checked"
  <2>1. w = out
    BY <1>10
  <2> HIDE DEF o, lq, w
  <2>2. /\ Len(x) = 2 + o + 1 + lq /\ lq \in Nat
        /\ \A i \in 1..2 : x[i] = Token("echo")
        /\ \A i \in 1..o : x[2 + i] = Token(r.out[i])
        /\ \A i \in 1..1 : x[2 + o + i] = prompt[i]
        /\ \A i \in 1..lq : x[2 + o + 1 + i] = query[i]
    <3>1. Len(echo) = 2 /\ Len(w) = o /\ Len(prompt) = 1 /\ Len(query) = lq
      BY <1>1, <1>2, <1>3, <2>1 DEF lq
    <3>2. /\ Len(x) = Len(echo) + Len(w) + Len(prompt) + Len(query) /\ Len(query) \in Nat
          /\ \A i \in 1..Len(echo) : x[i] = echo[i]
          /\ \A i \in 1..Len(w) : x[Len(echo) + i] = w[i]
          /\ \A i \in 1..Len(prompt) : x[Len(echo) + Len(w) + i] = prompt[i]
          /\ \A i \in 1..Len(query) : x[Len(echo) + Len(w) + Len(prompt) + i] = query[i]
      BY <1>8 DEF Four
    <3>3. \A i \in 1..o : x[2 + i] = w[i]
      BY <3>1, <3>2
    <3>4. \A i \in 1..o : x[2 + i] = Token(r.out[i])
      BY <1>2, <2>1, <3>3
    <3> QED BY <1>1, <3>1, <3>2, <3>4
  <2>3. x[2 + o + 1] = Token("prompt")
    <3>1. 1 \in 1..1
      OBVIOUS
    <3> QED BY <1>3, <2>2, <3>1
  <2>4. /\ Frames(kd) = 0 /\ EchoLen = 2 /\ EchoLen + o + 2 * 0 + 1 = 2 + o + 1
        /\ \A i \in 1..o : EchoLen + 0 + i = 2 + i
    BY <1>2, <1>10 DEF Frames, EchoLen
  <2>5. x \in Seq(Units)
    BY <1>8 DEF Four
  <2> QED BY <1>2, <1>5, <1>10, <2>2, <2>3, <2>4, <2>5 DEF Page, o, lq, query
<1> QED BY <1>9, <1>10

\* What the shell prints from the prompt before the client's command on, the query
\* behind that prompt and then what the command has printed.
script == Query(asks) \o (IF k \in DOMAIN made THEN Printed(k, kind[k], made[k], asks) ELSE <<>>)
asked  == Len(Query(asks))

\* The place in it that the client has come to; the stream is the rest.
place == Len(script) + 1 - Len(stream)
Ahead == place >= 1 /\ \A i \in 1..Len(stream) : stream[i] = script[place - 1 + i]

\* The places of script w when command c has been run with result r.
PlainScript(w, r, a, q, o) ==
  /\ Len(w) = q + o + 3 + q
  /\ w[q + 1] = Token("echo") /\ w[q + 2] = Token("echo")
  /\ \A i \in 1..o : w[q + 2 + i] = Token(r.out[i])
  /\ w[q + o + 3] = Token("prompt")
  /\ \A i \in 1..q : w[q + o + 3 + i] = Query(a)[i]

CheckedScript(w, c, r, a, q, o) ==
  /\ Len(w) = q + o + 5 + q
  /\ w[q + 1] = Token("echo") /\ w[q + 2] = Token("echo")
  /\ w[q + 3] = Frame("begin", c, "zero")
  /\ \A i \in 1..o : w[q + 3 + i] = Token(r.out[i])
  /\ w[q + o + 4] = Frame("end", c, r.status)
  /\ w[q + o + 5] = Token("prompt")
  /\ \A i \in 1..q : w[q + o + 5 + i] = Query(a)[i]

LEMMA PageScript ==
  ASSUME NEW a \in BOOLEAN, NEW c \in Nat, NEW kd \in Kinds, NEW r \in Results, NEW x, Page(x, c, kd, r, a)
  PROVE  LET w == Query(a) \o x
             q == Len(Query(a))
             o == Len(r.out)
         IN  /\ w \in Seq(Units) /\ Splits(w, Query(a), x) /\ q \in Nat /\ o \in Nat
             /\ kd = "plain" => PlainScript(w, r, a, q, o)
             /\ kd = "checked" => CheckedScript(w, c, r, a, q, o)
<1> DEFINE w == Query(a) \o x
           q == Len(Query(a))
           o == Len(r.out)
           l == Len(x)
<1>1. Query(a) \in Seq(Units) /\ q \in Nat /\ x \in Seq(Units) /\ o \in Nat
  BY QueryUnits DEF Page
<1>2. w \in Seq(Units) /\ Splits(w, Query(a), x)
  BY <1>1, Joined
<1> HIDE DEF w
<1>3. l \in Nat /\ Len(w) = q + l /\ \A i \in 1..l : w[q + i] = x[i]
  BY <1>2 DEF Splits
<1>4. CASE kd = "plain"
  <2>1. /\ l = 2 + o + 1 + q
        /\ x[1] = Token("echo") /\ x[2] = Token("echo")
        /\ \A i \in 1..o : x[2 + i] = Token(r.out[i])
        /\ x[2 + o + 1] = Token("prompt")
        /\ \A i \in 1..q : x[2 + o + 1 + i] = Query(a)[i]
    <3>1. Frames(kd) = 0 /\ EchoLen = 2 /\ 2 + 0 = 2 /\ 2 * 0 = 0 /\ 2 + o + 0 = 2 + o
      BY <1>1, <1>4 DEF Frames, EchoLen
    <3>2. /\ l = 2 + o + 2 * 0 + 1 + q
          /\ \A i \in 1..2 : x[i] = Token("echo")
          /\ \A i \in 1..o : x[2 + 0 + i] = Token(r.out[i])
          /\ x[2 + o + 2 * 0 + 1] = Token("prompt")
          /\ \A i \in 1..q : x[2 + o + 2 * 0 + 1 + i] = Query(a)[i]
      BY <3>1 DEF Page
    <3> HIDE DEF o, q, l
    <3> QED BY <1>1, <3>1, <3>2
  <2> HIDE DEF o, q, l
  <2>9. q \in Nat /\ o \in Nat /\ l = 2 + o + 1 + q
    BY <1>1, <2>1
  <2>2. Len(w) = q + o + 3 + q
    BY <1>3, <2>9
  <2>3. w[q + 1] = Token("echo") /\ w[q + 2] = Token("echo")
    <3>1. 1 \in 1..l /\ 2 \in 1..l
      BY <2>9
    <3> QED BY <1>3, <2>1, <3>1
  <2>4. \A i \in 1..o : w[q + 2 + i] = Token(r.out[i])
    <3> TAKE i \in 1..o
    <3>1. 2 + i \in 1..l /\ q + (2 + i) = q + 2 + i
      BY <2>9
    <3> QED BY <1>3, <2>1, <3>1
  <2>5. w[q + o + 3] = Token("prompt")
    <3>1. 2 + o + 1 \in 1..l /\ q + (2 + o + 1) = q + o + 3
      BY <2>9
    <3> QED BY <1>3, <2>1, <3>1
  <2>6. \A i \in 1..q : w[q + o + 3 + i] = Query(a)[i]
    <3> TAKE i \in 1..q
    <3>1. 2 + o + 1 + i \in 1..l /\ q + (2 + o + 1 + i) = q + o + 3 + i
      BY <2>9
    <3> QED BY <1>3, <2>1, <3>1
  <2>7. PlainScript(w, r, a, q, o)
    BY <2>2, <2>3, <2>4, <2>5, <2>6 DEF PlainScript
  <2> QED BY <1>1, <1>2, <1>4, <2>7 DEF w, q, o
<1>5. CASE kd = "checked"
  <2>1. /\ l = 2 + o + 2 + 1 + q
        /\ x[1] = Token("echo") /\ x[2] = Token("echo")
        /\ x[3] = Frame("begin", c, "zero")
        /\ \A i \in 1..o : x[3 + i] = Token(r.out[i])
        /\ x[2 + o + 2] = Frame("end", c, r.status)
        /\ x[2 + o + 2 + 1] = Token("prompt")
        /\ \A i \in 1..q : x[2 + o + 2 + 1 + i] = Query(a)[i]
    <3>1. Frames(kd) = 1 /\ EchoLen = 2 /\ 2 + 1 = 3 /\ 2 * 1 = 2 /\ 2 + o + 0 = 2 + o
      BY <1>1, <1>5 DEF Frames, EchoLen
    <3>2. /\ l = 2 + o + 2 * 1 + 1 + q
          /\ \A i \in 1..2 : x[i] = Token("echo")
          /\ x[2 + 1] = Frame("begin", c, "zero")
          /\ \A i \in 1..o : x[2 + 1 + i] = Token(r.out[i])
          /\ x[2 + o + 2] = Frame("end", c, r.status)
          /\ x[2 + o + 2 * 1 + 1] = Token("prompt")
          /\ \A i \in 1..q : x[2 + o + 2 * 1 + 1 + i] = Query(a)[i]
      BY <1>5, <3>1 DEF Page
    <3> HIDE DEF o, q, l
    <3> QED BY <1>1, <3>1, <3>2
  <2> HIDE DEF o, q, l
  <2>9. q \in Nat /\ o \in Nat /\ l = 2 + o + 2 + 1 + q
    BY <1>1, <2>1
  <2>2. Len(w) = q + o + 5 + q
    BY <1>3, <2>9
  <2>3. w[q + 1] = Token("echo") /\ w[q + 2] = Token("echo") /\ w[q + 3] = Frame("begin", c, "zero")
    <3>1. 1 \in 1..l /\ 2 \in 1..l /\ 3 \in 1..l
      BY <2>9
    <3> QED BY <1>3, <2>1, <3>1
  <2>4. \A i \in 1..o : w[q + 3 + i] = Token(r.out[i])
    <3> TAKE i \in 1..o
    <3>1. 3 + i \in 1..l /\ q + (3 + i) = q + 3 + i
      BY <2>9
    <3> QED BY <1>3, <2>1, <3>1
  <2>5. w[q + o + 4] = Frame("end", c, r.status) /\ w[q + o + 5] = Token("prompt")
    <3>1. /\ 2 + o + 2 \in 1..l /\ q + (2 + o + 2) = q + o + 4
          /\ 2 + o + 2 + 1 \in 1..l /\ q + (2 + o + 2 + 1) = q + o + 5
      BY <2>9
    <3> QED BY <1>3, <2>1, <3>1
  <2>6. \A i \in 1..q : w[q + o + 5 + i] = Query(a)[i]
    <3> TAKE i \in 1..q
    <3>1. 2 + o + 2 + 1 + i \in 1..l /\ q + (2 + o + 2 + 1 + i) = q + o + 5 + i
      BY <2>9
    <3> QED BY <1>3, <2>1, <3>1
  <2>7. CheckedScript(w, c, r, a, q, o)
    BY <2>2, <2>3, <2>4, <2>5, <2>6 DEF CheckedScript
  <2> QED BY <1>1, <1>2, <1>5, <2>7 DEF w, q, o
<1>6. kd = "plain" \/ kd = "checked"
  OBVIOUS
<1> QED BY <1>4, <1>5, <1>6

LEMMA ScriptFacts ==
  ASSUME SessionType, ClientInv, cpc \in Busy
  PROVE  /\ script \in Seq(Units) /\ Len(script) \in Nat /\ Len(stream) \in Nat /\ place \in Int
         /\ asked = IF asks THEN 2 ELSE 0
         /\ \A i \in 1..asked : script[i] = Query(asks)[i]
         /\ k \notin DOMAIN made => Len(script) = asked
         /\ k \in DOMAIN made =>
              /\ made[k] \in Results /\ Len(made[k].out) \in Nat
              /\ kind[k] = "plain" => PlainScript(script, made[k], asks, asked, Len(made[k].out))
              /\ kind[k] = "checked" => CheckedScript(script, k, made[k], asks, asked, Len(made[k].out))
<1>1. asks \in BOOLEAN /\ k \in 1..NumCommands /\ k \in Nat /\ kind[k] \in Kinds
      /\ stream \in Seq(Units) /\ Len(stream) \in Nat
  BY ConcatProperties DEF SessionType, ClientInv, stream
<1>2. Query(asks) \in Seq(Units) /\ asked = IF asks THEN 2 ELSE 0
  BY <1>1, QueryUnits DEF asked
<1>3. CASE k \notin DOMAIN made
  <2>1. script = Query(asks)
    BY <1>2, <1>3, ConcatEmptySeq DEF script
  <2> QED BY <1>1, <1>2, <1>3, <2>1 DEF asked, place
<1>4. CASE k \in DOMAIN made
  <2>1. made[k] \in Results /\ Len(made[k].out) \in Nat
    <3>1. made[k] \in Results
      BY <1>4 DEF SessionType
    <3> QED BY <3>1, ResultType
  <2> DEFINE x == Printed(k, kind[k], made[k], asks)
  <2>2. Page(x, k, kind[k], made[k], asks)
    BY <1>1, <2>1, PrintedIsPage
  <2>3. script = Query(asks) \o x
    BY <1>4 DEF script
  <2> HIDE DEF x
  <2>4. /\ script \in Seq(Units) /\ Splits(script, Query(asks), x)
        /\ kind[k] = "plain" => PlainScript(script, made[k], asks, asked, Len(made[k].out))
        /\ kind[k] = "checked" => CheckedScript(script, k, made[k], asks, asked, Len(made[k].out))
    BY <1>1, <2>1, <2>2, <2>3, PageScript DEF asked
  <2>5. Len(script) \in Nat /\ \A i \in 1..asked : script[i] = Query(asks)[i]
    BY <2>4 DEF Splits, asked
  <2> QED BY <1>1, <1>2, <1>4, <2>1, <2>4, <2>5 DEF place
<1> QED BY <1>3, <1>4

LEMMA PageKept ==
  ASSUME stream' = stream, UNCHANGED <<asks, k, kind, made>>
  PROVE  script' = script /\ asked' = asked /\ place' = place /\ (Ahead => Ahead')
<1>1. script' = script /\ asked' = asked
  BY DEF script, asked
<1>2. place' = place
  BY <1>1 DEF place
<1> QED BY <1>1, <1>2 DEF Ahead

LEMMA PageRead ==
  ASSUME SessionType, ClientInv, cpc \in Busy, Ahead, Reads, UNCHANGED <<wire, asks, k, kind, made>>
  PROVE  /\ script' = script /\ asked' = asked
         /\ place \in 1..Len(script) /\ place' = place + 1
         /\ Head(buffered) = script[place] /\ Head(buffered) \in Units
         /\ Ahead'
<1>1. script' = script /\ asked' = asked
  BY DEF script, asked
<1>2. /\ Len(stream) > 0 /\ Head(buffered) = stream[1] /\ Head(buffered) \in Units
      /\ Len(stream') = Len(stream) - 1
      /\ \A i \in 1..Len(stream') : stream'[i] = stream[i + 1]
  BY ReadsFirst
<1>3. Len(stream) \in Nat /\ Len(script) \in Nat
  BY ScriptFacts
<1>4. place' = place + 1 /\ place \in 1..Len(script)
  BY <1>1, <1>2, <1>3 DEF place, Ahead
<1>5. stream[1] = script[place]
  <2>1. 1 \in 1..Len(stream) /\ place - 1 + 1 = place
    BY <1>2, <1>3 DEF place
  <2> QED BY <2>1 DEF Ahead
<1>6. Ahead'
  <2>1. place' >= 1
    BY <1>3, <1>4
  <2>2. ASSUME NEW i \in 1..Len(stream') PROVE stream'[i] = script'[place' - 1 + i]
    <3>1. i + 1 \in 1..Len(stream) /\ place - 1 + (i + 1) = place' - 1 + i
      BY <1>2, <1>3, <1>4
    <3>2. stream[i + 1] = script[place - 1 + (i + 1)]
      BY <3>1 DEF Ahead
    <3> QED BY <1>1, <1>2, <3>1, <3>2
  <2> QED BY <2>1, <2>2 DEF Ahead
<1> QED BY <1>1, <1>2, <1>4, <1>5, <1>6

\* The kinds of the variables that checked commands do not depend on.
CounterType ==
  /\ esc \in BOOLEAN
  /\ timeouts \in 0..MaxTimeouts
  /\ skip \in 0..EchoLen
  /\ cpc = "skip" => skip > 0

LEMMA CounterTypeInit == Init => CounterType
<1> SUFFICES ASSUME Init PROVE CounterType
  OBVIOUS
<1>1. esc = FALSE /\ timeouts = 0 /\ skip = 0 /\ cpc = "dial"
  BY DEF Init
<1>2. esc \in BOOLEAN
  BY <1>1
<1>3. timeouts \in 0..MaxTimeouts /\ skip \in 0..EchoLen
  BY <1>1 DEF EchoLen
<1> QED BY <1>1, <1>2, <1>3 DEF CounterType

LEMMA CounterTypeStep ==
  ASSUME SessionType, CounterType, [Next]_vars
  PROVE  CounterType'
<1> USE DEF CounterType, clientVars, device, shellVars, vars
<1>1. ASSUME NEW kd \in Kinds, Begin(kd) PROVE CounterType'
  <2>1. esc' \in BOOLEAN
    <3>1. Len(buffered) \in Nat
      BY DEF SessionType
    <3>2. EscapeAfter(esc, buffered) \in BOOLEAN
      BY <3>1, EscapeAfterIs
    <3> QED BY <1>1, <3>2 DEF Begin, Discard
  <2>2. skip' = EchoLen /\ EchoLen \in 0..EchoLen /\ EchoLen > 0
    BY <1>1 DEF Begin, EchoLen
  <2> QED BY <1>1, <2>1, <2>2 DEF Begin
<1>2. CASE SkipUnit
  <2>1. esc' \in BOOLEAN
    <3>1. EscapeNext(esc, Head(buffered)) \in BOOLEAN
      BY Zenon DEF EscapeNext
    <3> QED BY <1>2, <3>1 DEF SkipUnit
  <2>2. skip' \in 0..EchoLen
    <3>1. skip' = skip \/ skip' = skip - 1
      BY <1>2 DEF SkipUnit
    <3> QED BY <1>2, <3>1 DEF SkipUnit, EchoLen
  <2>3. cpc' = "skip" => skip' > 0
    BY <1>2, <2>2 DEF SkipUnit, EchoLen
  <2> QED BY <1>2, <2>1, <2>2, <2>3 DEF SkipUnit
<1>3. CASE TimeOut
  BY <1>3 DEF TimeOut
<1>4. CASE ReadWelcome \/ DialFails \/ Fill
  BY <1>4 DEF ReadWelcome, DialFails, Fill
<1>5. CASE ReadPlain \/ ReadBegin \/ ReadBody \/ ReadPrompt
  BY <1>5 DEF ReadPlain, ReadBegin, ReadBody, ReadPrompt
<1>6. CASE LogIn \/ RunStray \/ RunCommand
  BY <1>6 DEF LogIn, RunStray, RunCommand
<1>7. CASE Done \/ UNCHANGED vars
  BY <1>7 DEF Done
<1> QED BY <1>1, <1>2, <1>3, <1>4, <1>5, <1>6, <1>7 DEF Next, ClientStep

LEMMA InvTypes ==
  ASSUME IInv, CounterType
  PROVE  TypeOK
<1>1. SessionType /\ k \in 0..NumCommands /\ kind \in [1..k -> Kinds]
  BY DEF IInv, SessionType
<1>2. DOMAIN made \subseteq 1..k
  <2>1. PICK m \in 0..k : DOMAIN made = 1..m
    BY WaitingCommands
  <2> QED BY <1>1, <2>1
<1> QED BY <1>1, <1>2 DEF SessionType, CounterType, TypeOK, Busy

\* TypeOK: the kinds of the variables of the client, the login program and the shell.
THEOREM TelnetSessionTypes == Spec => []TypeOK
<1>1. IInv /\ CounterType /\ [Next]_vars => CounterType'
  BY CounterTypeStep DEF IInv
<1> QED BY <1>1, InvTypes, CounterTypeInit, TelnetSessionInvariance, PTL DEF Spec

-----------------------------------------------------------------------------
(* The answers of plain commands *)

\* Until a command times out, on a device without a greeting and output that
\* looks like a prompt.
Quiet(o) == \A i \in 1..Len(o) : o[i] \notin {"prompt", "hash"}
Smooth == timeouts = 0 /\ greeting = <<>> /\ \A c \in DOMAIN made : ~Contains(made[c].out, "hash")

\* The login: one question is on its way, or one line; then the first prompt.
Ask(u) == u.tok \in {"login", "password"}
DialPage ==
  cpc = "dial" =>
    /\ ~esc
    /\ gate = "shell" => input = <<>> /\ stream = <<Token("prompt")>> \o Query(asks)
    /\ gate # "shell" =>
         \/ stream = <<>> /\ Len(input) = 1
         \/ /\ stream # <<>> /\ input = <<>>
            /\ Ask(stream[Len(stream)])
            /\ \A i \in 1..(Len(stream) - 1) : ~Ask(stream[i])

\* Between two commands only a query is left.
IdlePage == cpc = "idle" => input = <<>> /\ stream = Query(asks)

\* The escape state may be wrong, but never behind the query; SkipBytes ends within
\* the echo or with it.
SkipPage ==
  cpc = "skip" =>
    /\ reply = <<>>
    /\ place <= asked => skip = EchoLen
    /\ place > asked => ~esc /\ skip + place <= asked + EchoLen + 1

\* The reply begins with the end of the echo and ends before the prompt.
PlainPage ==
  cpc = "plain" =>
    LET n == asked + EchoLen + 1 + Len(reply) - place
    IN  /\ ~esc /\ n \in 0..EchoLen
        /\ k \in DOMAIN made => place <= asked + EchoLen + 1 + Len(made[k].out)
        /\ \A i \in 1..Len(reply) : reply[i] = script[asked + EchoLen - n + i].tok

CheckedPage ==
  /\ cpc = "begin" => place <= asked + EchoLen + 1
  /\ cpc = "body" => place = asked + EchoLen + 2 + Len(reply)
  /\ cpc = "prompt" => place = asked + EchoLen + 3 + Len(made[k].out)

CommandPage ==
  cpc \in Busy =>
    /\ input = IF k \in DOMAIN made THEN <<>> ELSE <<[command |-> k, kind |-> kind[k]]>>
    /\ Ahead /\ SkipPage /\ PlainPage /\ CheckedPage

AnswersPage ==
  \A c \in DOMAIN answer :
    /\ c \in DOMAIN made
    /\ kind[c] = "plain" => \E n \in 0..EchoLen : answer[c].out = [i \in 1..n |-> "echo"] \o made[c].out

\* A session that is used with Execute only: the escape state is right.
OnlyPlain == Kinds = {"plain"}
ExactPage ==
  /\ cpc = "idle" => ~esc
  /\ cpc = "skip" => /\ place = 1 => ~esc
                     /\ place = 2 /\ asks => esc
                     /\ place > asked => skip + place = asked + EchoLen + 1
  /\ cpc = "plain" => place = asked + EchoLen + 1 + Len(reply)
  /\ \A c \in DOMAIN answer : answer[c].out = made[c].out

Pages ==
  /\ esc => asks
  /\ DialPage /\ IdlePage /\ CommandPage /\ AnswersPage
  /\ OnlyPlain => ExactPage
PageInv == Smooth => Pages

-----------------------------------------------------------------------------

LEMMA QuietResults ==
  ASSUME SessionType, Smooth, NEW c \in DOMAIN made
  PROVE  Quiet(made[c].out) /\ made[c].out \in Seq(Names)
<1>1. made[c] \in Results
  BY DEF SessionType
<1>2. made[c].out \in Outputs
  BY <1>1 DEF Results
<1>3. \A i \in 1..Len(made[c].out) : made[c].out[i] # "prompt" /\ made[c].out[i] # "hash"
  BY <1>2 DEF Contains, Smooth
<1> QED BY <1>1, <1>3, ResultType DEF Quiet

\* A session that is smooth after a step was so before it.
LEMMA SmoothBefore ==
  ASSUME SessionType, CounterType, NEW n \in Nat, Waiting(n), [Next]_vars, Smooth'
  PROVE  Smooth
<1> USE DEF clientVars, device, shellVars, vars
<1>1. greeting = <<>>
  BY DEF Smooth, Next, ClientStep, Begin, ReadWelcome, DialFails, Fill, SkipUnit, ReadPlain, ReadBegin,
     ReadBody, ReadPrompt, TimeOut, Done, LogIn, RunStray, RunCommand
<1>2. timeouts = 0
  <2>1. CASE TimeOut
    BY <2>1 DEF TimeOut, CounterType, Smooth
  <2>2. CASE ~TimeOut
    <3>1. timeouts' = timeouts
      BY <2>2 DEF Next, ClientStep, Begin, ReadWelcome, DialFails, Fill, SkipUnit, ReadPlain, ReadBegin,
         ReadBody, ReadPrompt, Done, LogIn, RunStray, RunCommand
    <3> QED BY <3>1 DEF Smooth
  <2> QED BY <2>1, <2>2
<1>3. \A c \in DOMAIN made : c \in DOMAIN made' /\ made'[c] = made[c]
  <2>1. CASE RunCommand
    <3>1. PICK c \in 1..k, r \in Results : c \notin DOMAIN made /\ made' = With(made, c, r)
      BY <2>1, CommandAdds
    <3> QED BY <3>1 DEF With
  <2>2. CASE ~RunCommand
    <3>1. made' = made
      BY <2>2 DEF Next, ClientStep, Begin, ReadWelcome, DialFails, Fill, SkipUnit, ReadPlain, ReadBegin,
         ReadBody, ReadPrompt, TimeOut, Done, LogIn, RunStray
    <3> QED BY <3>1
  <2> QED BY <2>1, <2>2
<1> QED BY <1>1, <1>2, <1>3 DEF Smooth

\* SkipBytes takes a half of the query or a unit of the echo.
LEMMA SkipPages ==
  ASSUME SessionType, ClientInv, CounterType, Pages, SkipUnit
  PROVE  Pages'
<1>0. /\ cpc = "skip" /\ cpc \in Busy /\ Reads /\ esc' = EscapeNext(esc, Head(buffered))
      /\ skip' = (IF InEscape(esc, Head(buffered)) THEN skip ELSE skip - 1)
      /\ cpc' = (IF skip' = 0 THEN "plain" ELSE "skip")
      /\ UNCHANGED <<k, kind, reply, answer, wire, asks, made, input>>
      /\ kind[k] = "plain"
  BY DEF SkipUnit, Busy, shellVars, device, ClientInv
<1>4. /\ Len(script) \in Nat /\ asked \in Nat /\ place \in Int /\ asked = IF asks THEN 2 ELSE 0
      /\ \A i \in 1..asked : script[i] = Query(asks)[i]
      /\ k \notin DOMAIN made => Len(script) = asked
      /\ k \in DOMAIN made => /\ Len(made[k].out) \in Nat
                              /\ PlainScript(script, made[k], asks, asked, Len(made[k].out))
  BY <1>0, ScriptFacts
<1>1. CommandPage /\ AnswersPage /\ (OnlyPlain => ExactPage)
  BY DEF Pages
<1>2. /\ Ahead /\ reply = <<>>
      /\ input = IF k \in DOMAIN made THEN <<>> ELSE <<[command |-> k, kind |-> kind[k]]>>
      /\ skip \in 1..2
      /\ place <= asked => skip = 2
      /\ place > asked => ~esc /\ skip + place <= asked + 3
  BY <1>0, <1>1, <1>4 DEF CommandPage, SkipPage, CounterType, EchoLen
<1>9. ASSUME OnlyPlain
      PROVE  /\ place = 1 => ~esc
             /\ place = 2 /\ asks => esc
             /\ place > asked => skip + place = asked + 3
  BY <1>0, <1>1, <1>9, <1>4 DEF ExactPage, EchoLen
<1>3. /\ script' = script /\ asked' = asked /\ place \in 1..Len(script) /\ place' = place + 1
      /\ Head(buffered) = script[place] /\ Ahead'
  BY <1>0, <1>2, PageRead
<1>5. \A t : Token(t).tok = t
  BY DEF Token
<1>6. ASSUME cpc' = "skip", esc' => asks,
             place' <= asked => skip' = 2,
             place' > asked => ~esc' /\ skip' + place' <= asked + 3,
             OnlyPlain => /\ place' = 1 => ~esc'
                          /\ place' = 2 /\ asks => esc'
                          /\ place' > asked => skip' + place' = asked + 3
      PROVE  Pages'
  <2>0. skip' \in Int /\ place' \in Int /\ place' > 1
    BY <1>0, <1>2, <1>3, <1>4
  <2>1. CommandPage'
    <3>1. SkipPage'
      BY <1>0, <1>2, <1>3, <1>4, <1>6, <2>0 DEF SkipPage, EchoLen
    <3>2. PlainPage' /\ CheckedPage'
      BY <1>6 DEF PlainPage, CheckedPage
    <3> QED BY <1>0, <1>2, <1>3, <1>6, <3>1, <3>2 DEF CommandPage
  <2>2. AnswersPage'
    BY <1>0, <1>1 DEF AnswersPage
  <2>3. OnlyPlain => ExactPage'
    <3> SUFFICES ASSUME OnlyPlain PROVE ExactPage'
      OBVIOUS
    <3>1. \A c \in DOMAIN answer' : answer'[c].out = made'[c].out
      BY <1>0, <1>1 DEF ExactPage
    <3>2. place' > asked' => skip' + place' = asked' + EchoLen + 1
      <4>1. asked' = asked /\ asked + EchoLen + 1 = asked + 3
        BY <1>3, <1>4 DEF EchoLen
      <4> QED BY <1>6, <4>1
    <3>3. (place' = 1 => ~esc') /\ (place' = 2 /\ asks' => esc')
      BY <1>0, <1>6
    <3> QED BY <1>6, <3>1, <3>2, <3>3 DEF ExactPage
  <2> QED BY <1>0, <1>6, <2>1, <2>2, <2>3 DEF Pages, DialPage, IdlePage
<1>7. CASE place <= asked
  <2>0. asks \in BOOLEAN
    BY DEF SessionType
  <2>1. asks /\ asked = 2 /\ place \in {1, 2}
    <3>1. place >= 1
      BY <1>3, <1>4
    <3>2. asked # 0
      BY <1>4, <1>7, <3>1
    <3> QED BY <1>4, <1>7, <3>1, <3>2
  <2>2. script[1] = Token("esc") /\ script[2] = Token("csi")
    <3>1. 1 \in 1..asked /\ 2 \in 1..asked
      BY <2>1
    <3>2. Query(asks)[1] = Token("esc") /\ Query(asks)[2] = Token("csi")
      BY <2>0, <2>1, QueryUnits
    <3> QED BY <1>4, <3>1, <3>2
  <2>3. CASE place = 1
    <3>1. Head(buffered).tok = "esc"
      BY <1>3, <1>5, <2>2, <2>3
    <3>2. skip' = skip /\ (esc' <=> ~esc)
      BY <1>0, <3>1 DEF InEscape, EscapeNext
    <3>3. cpc' = "skip" /\ place' = 2 /\ skip' = 2
      BY <1>0, <1>2, <1>3, <1>7, <2>3, <3>2
    <3>4. OnlyPlain => ~esc
      BY <1>9, <2>3
    <3>5. ~(place' > asked) /\ place' # 1
      BY <2>1, <3>3
    <3> QED BY <1>6, <2>1, <3>2, <3>3, <3>4, <3>5
  <2>4. CASE place = 2
    <3>1. Head(buffered).tok = "csi"
      BY <1>3, <1>5, <2>2, <2>4
    <3>2. ~esc' /\ skip' = (IF esc THEN skip ELSE skip - 1)
      BY <1>0, <3>1 DEF InEscape, EscapeNext
    <3>3. skip = 2 /\ skip' \in {1, 2} /\ place' = 3
      BY <1>2, <1>3, <1>7, <2>4, <3>2
    <3>4. cpc' = "skip"
      BY <1>0, <3>3
    <3>5. OnlyPlain => skip' = 2
      BY <1>9, <2>1, <2>4, <3>2, <3>3
    <3>6. ~(place' <= asked) /\ skip' + place' <= asked + 3 /\ place' # 1 /\ place' # 2
      <4>1. asked = 2 /\ place' = 3 /\ skip' \in 1..2
        BY <2>1, <3>3
      <4>2. skip' + 3 <= 2 + 3
        <5>1. skip' = 1 \/ skip' = 2
          BY <4>1
        <5>2. CASE skip' = 1
          BY <5>2
        <5>3. CASE skip' = 2
          BY <5>3
        <5> QED BY <5>1, <5>2, <5>3
      <4>3. ~(3 <= 2) /\ 3 # 1 /\ 3 # 2
        OBVIOUS
      <4> QED BY <4>1, <4>2, <4>3
    <3>7. OnlyPlain => skip' + place' = asked + 3
      BY <2>1, <3>3, <3>5
    <3> QED BY <1>6, <3>2, <3>4, <3>6, <3>7
  <2> QED BY <2>1, <2>3, <2>4
<1>8. CASE ~(place <= asked)
  <2> DEFINE o == Len(made[k].out)
  <2>1. /\ k \in DOMAIN made /\ asked \in Nat /\ ~esc /\ skip + place <= asked + 3
        /\ o \in Nat /\ PlainScript(script, made[k], asks, asked, o)
    BY <1>2, <1>3, <1>4, <1>8
  <2>2. place = asked + 1 \/ place = asked + 2
    BY <1>2, <1>3, <1>8, <2>1
  <2>3. Head(buffered).tok = "echo"
    BY <1>3, <1>5, <2>1, <2>2 DEF PlainScript
  <2>4. ~esc' /\ skip' = skip - 1
    BY <1>0, <2>1, <2>3 DEF InEscape, EscapeNext
  <2>5. /\ ~(place' <= asked) /\ place' > asked /\ place' # 1 /\ skip' + place' <= asked + 3
        /\ asks => place' # 2
    BY <1>2, <1>3, <1>4, <1>8, <2>1, <2>4
  <2>9. OnlyPlain => skip' + place' = asked + 3
    <3>1. OnlyPlain => skip + place = asked + 3
      BY <1>9, <1>4, <1>8
    <3> QED BY <1>2, <1>3, <1>4, <2>4, <3>1
  <2>6. CASE skip' # 0
    <3>1. cpc' = "skip"
      BY <1>0, <2>6
    <3> QED BY <1>6, <2>4, <2>5, <2>9, <3>1
  <2>7. CASE skip' = 0
    <3>1. cpc' = "plain" /\ reply' = <<>> /\ Len(reply') = 0
      BY <1>0, <1>2, <2>7, EmptySeq
    <3>2. place' \in {asked + 2, asked + 3} /\ (OnlyPlain => place' = asked + 3)
      <4>1. OnlyPlain => place' = asked + 3
        BY <1>3, <1>4, <2>9, <2>7
      <4> QED BY <1>3, <1>4, <2>1, <2>2, <2>5, <2>7, <4>1
    <3>3. PlainPage'
      <4>1. k' \in DOMAIN made' /\ Len(made'[k'].out) = o
        BY <1>0, <2>1
      <4> HIDE DEF o
      <4>2. asked' + EchoLen + 1 + Len(reply') - place' \in 0..EchoLen
        BY <1>3, <2>1, <3>1, <3>2 DEF EchoLen
      <4>3. place' <= asked' + EchoLen + 1 + o
        BY <1>3, <2>1, <3>2 DEF EchoLen
      <4> QED BY <2>4, <3>1, <4>1, <4>2, <4>3 DEF PlainPage
    <3>4. CommandPage'
      BY <1>0, <1>2, <1>3, <3>1, <3>3 DEF CommandPage, SkipPage, CheckedPage
    <3>5. AnswersPage'
      BY <1>0, <1>1 DEF AnswersPage
    <3>6. OnlyPlain => ExactPage'
      <4>1. OnlyPlain => place' = asked' + EchoLen + 1 + Len(reply')
        BY <1>3, <2>1, <3>1, <3>2 DEF EchoLen
      <4> QED BY <1>0, <1>1, <3>1, <4>1 DEF ExactPage
    <3> QED BY <2>4, <3>1, <3>4, <3>5, <3>6 DEF Pages, DialPage, IdlePage
  <2> QED BY <2>6, <2>7
<1> QED BY <1>7, <1>8

\* Sequences with the same units.
LEMMA SameUnits ==
  ASSUME NEW D, NEW s \in Seq(D), NEW t \in Seq(D), Len(s) = Len(t), \A i \in 1..Len(t) : s[i] = t[i]
  PROVE  s = t
BY SeqEqual

\* Behind the prompt there is the query only.
LEMMA QueryLeft ==
  ASSUME NEW w, NEW s \in Seq(Units), NEW q \in Seq(Units), NEW b \in Nat,
         Len(w) = b + Len(q), \A i \in 1..Len(q) : w[b + i] = q[i],
         b = Len(w) - Len(s), \A i \in 1..Len(s) : s[i] = w[b + i]
  PROVE  s = q
<1>1. Len(s) \in Nat /\ Len(q) \in Nat
  OBVIOUS
<1>2. Len(s) = Len(q)
  BY <1>1
<1>3. \A i \in 1..Len(q) : s[i] = q[i]
  BY <1>2
<1> QED BY <1>2, <1>3, SameUnits

\* The reply that ends before the prompt: n units of echo and the output.
LEMMA ReplyIs ==
  ASSUME NEW s \in Seq(Names), NEW out \in Seq(Names), NEW n \in 0..EchoLen,
         Len(s) = n + Len(out),
         \A i \in 1..n : s[i] = "echo",
         \A i \in 1..Len(out) : s[n + i] = out[i]
  PROVE  s = [i \in 1..n |-> "echo"] \o out
<1> DEFINE e == [i \in 1..n |-> "echo"]
           x == e \o out
           o == Len(out)
<1>1. n \in Nat /\ o \in Nat /\ "echo" \in Names
  BY DEF EchoLen, Names
<1>2. e \in Seq(Names) /\ Len(e) = n /\ \A i \in 1..n : e[i] = "echo"
  <2>1. e \in [1..n -> Names]
    BY <1>1
  <2> HIDE DEF e
  <2>2. e \in Seq(Names) /\ Len(e) = n
    <3>1. e \in Seq(Names)
      BY <1>1, <2>1, SeqDef
    <3> QED BY <1>1, <2>1, <3>1, LenProperties
  <2> QED BY <2>2 DEF e
<1> HIDE DEF e
<1>3. /\ x \in Seq(Names) /\ Len(x) = n + o
      /\ \A i \in 1..(n + o) : x[i] = IF i <= n THEN e[i] ELSE out[i - n]
  BY <1>2, ConcatProperties
<1> HIDE DEF x, o
<1>4. \A i \in 1..(n + o) : s[i] = x[i]
  <2> TAKE i \in 1..(n + o)
  <2>1. CASE i <= n
    <3>1. i \in 1..n
      BY <1>1, <2>1
    <3> QED BY <1>2, <1>3, <2>1, <3>1
  <2>2. CASE ~(i <= n)
    <3>1. i - n \in 1..o /\ n + (i - n) = i
      BY <1>1, <2>2
    <3>2. s[n + (i - n)] = out[i - n]
      BY <3>1 DEF o
    <3> QED BY <1>3, <2>2, <3>1, <3>2
  <2> QED BY <2>1, <2>2
<1>5. Len(s) = Len(x)
  BY <1>3 DEF o
<1>6. s = x
  BY <1>3, <1>4, <1>5, SameUnits
<1> QED BY <1>6 DEF x, e

\* What has been read in an answered command's place: idle, and the query is left.
LEMMA EndsCommand ==
  ASSUME SessionType, SessionType', ClientInv, ClientInv', cpc \in Busy, Ahead', k \in DOMAIN made,
         NEW b \in Nat, Len(script) = b + asked, \A i \in 1..asked : script[b + i] = Query(asks)[i],
         place' = b + 1, script' = script, UNCHANGED asks
  PROVE  stream' = Query(asks')
<1>1. Query(asks) \in Seq(Units) /\ asks \in BOOLEAN
  BY QueryUnits DEF SessionType
<1>2. stream' \in Seq(Units) /\ Len(stream') \in Nat
  BY ConcatProperties DEF SessionType, stream
<1>3. b = Len(script) - Len(stream')
  <2>1. place' = Len(script) + 1 - Len(stream') /\ Len(script) \in Nat
    <3>1. Len(script) \in Nat
      BY ScriptFacts
    <3> QED BY <3>1 DEF place
  <2> QED BY <1>2, <2>1
<1>4. \A i \in 1..Len(stream') : stream'[i] = script[b + i]
  <2> TAKE i \in 1..Len(stream')
  <2>1. stream'[i] = script[place' - 1 + i]
    BY DEF Ahead
  <2>2. place' - 1 + i = b + i
    BY <1>2
  <2> QED BY <2>1, <2>2
<1>5. Len(script) = b + Len(Query(asks)) /\ \A i \in 1..Len(Query(asks)) : script[b + i] = Query(asks)[i]
  BY DEF asked
<1> HIDE DEF script, stream
<1>6. stream' = Query(asks)
  BY <1>1, <1>2, <1>3, <1>4, <1>5, QueryLeft
<1> QED BY <1>6

LEMMA PlainPages ==
  ASSUME SessionType, SessionType', ClientInv, ClientInv', Smooth, Pages, ReadPlain
  PROVE  Pages'
<1>0. /\ cpc = "plain" /\ cpc \in Busy /\ Reads
      /\ UNCHANGED <<k, kind, skip, timeouts, esc, wire, asks, greeting, gate, input, made>>
      /\ kind[k] = "plain" /\ k \notin DOMAIN answer
      /\ reply \in Seq(Names) /\ Len(reply) \in Nat
  BY DEF ReadPlain, Busy, shellVars, device, ClientInv, SessionType
<1>1. CommandPage /\ AnswersPage /\ (OnlyPlain => ExactPage) /\ (esc => asks)
  BY DEF Pages
<1>2. /\ Len(script) \in Nat /\ asked \in Nat /\ place \in Int
      /\ k \notin DOMAIN made => Len(script) = asked
      /\ k \in DOMAIN made => /\ Len(made[k].out) \in Nat
                              /\ PlainScript(script, made[k], asks, asked, Len(made[k].out))
  BY <1>0, ScriptFacts
<1> DEFINE n == asked + EchoLen + 1 + Len(reply) - place
           o == Len(made[k].out)
           l == Len(reply)
<1>3. /\ Ahead /\ PlainPage
      /\ input = IF k \in DOMAIN made THEN <<>> ELSE <<[command |-> k, kind |-> kind[k]]>>
  BY <1>0, <1>1 DEF CommandPage
<1>4. /\ ~esc /\ n \in 0..2 /\ place = asked + 3 + l - n
      /\ k \in DOMAIN made => place <= asked + 3 + o
      /\ \A i \in 1..l : reply[i] = script[asked + 2 - n + i].tok
  <2>1. /\ ~esc /\ n \in 0..EchoLen /\ n = asked + EchoLen + 1 + l - place
        /\ k \in DOMAIN made => place <= asked + EchoLen + 1 + o
        /\ \A i \in 1..l : reply[i] = script[asked + EchoLen - n + i].tok
    BY <1>0, <1>3 DEF PlainPage
  <2>2. EchoLen = 2 /\ l \in Nat
    BY <1>0 DEF EchoLen
  <2> HIDE DEF n, l, o
  <2>3. asked + 2 + 1 = asked + 3 /\ (k \in DOMAIN made => asked + 2 + 1 + o = asked + 3 + o)
    BY <1>2 DEF o
  <2>4. place = asked + 3 + l - n
    BY <1>2, <2>1, <2>2
  <2> QED BY <2>1, <2>2, <2>3, <2>4
<1>5. /\ script' = script /\ asked' = asked /\ place \in 1..Len(script) /\ place' = place + 1
      /\ Head(buffered) = script[place] /\ Head(buffered) \in Units /\ Ahead'
  BY <1>0, <1>3, PageRead
<1> HIDE DEF n, o, l
<1>6. k \in DOMAIN made /\ input = <<>>
  <2>1. ASSUME k \notin DOMAIN made PROVE FALSE
    <3>1. place <= asked /\ l \in Nat
      BY <1>0, <1>2, <1>5, <2>1 DEF l
    <3> QED BY <1>2, <1>4, <3>1
  <2> QED BY <1>3, <2>1
<1>7. o \in Nat /\ PlainScript(script, made[k], asks, asked, o) /\ place <= asked + 3 + o
  BY <1>2, <1>4, <1>6 DEF o
<1>8. Quiet(made[k].out) /\ made[k].out \in Seq(Names)
  BY <1>6, QuietResults
<1>9. /\ Len(script) = asked + o + 3 + asked
      /\ script[asked + 1] = Token("echo") /\ script[asked + 2] = Token("echo")
      /\ \A i \in 1..o : script[asked + 2 + i] = Token(made[k].out[i])
      /\ script[asked + o + 3] = Token("prompt")
      /\ \A i \in 1..asked : script[asked + o + 3 + i] = Query(asks)[i]
  BY <1>7 DEF PlainScript
<1>10. \A t : Token(t).tok = t
  BY DEF Token
<1>11. l \in Nat /\ asked + 1 <= place
  BY <1>0, <1>2, <1>4 DEF l
<1>12. n \in 0..2 /\ n \in Int /\ place = asked + 3 + l - n /\ l \in Nat /\ asked \in Nat /\ place \in Int
  BY <1>2, <1>4, <1>11
<1>13. CASE place = asked + o + 3
  <2>1. LooksLikePrompt(Head(buffered))
    BY <1>5, <1>9, <1>10, <1>13 DEF LooksLikePrompt
  <2>2. /\ cpc' = "idle" /\ reply' = reply
        /\ answer' = With(answer, k, [out |-> reply, status |-> "zero"])
    BY <2>1 DEF ReadPlain
  <2>3. stream' = Query(asks')
    <3> DEFINE b == asked + o + 3
    <3>1. b \in Nat /\ Len(script) = b + asked /\ \A i \in 1..asked : script[b + i] = Query(asks)[i]
      BY <1>2, <1>7, <1>9
    <3>2. place' = b + 1
      BY <1>5, <1>13
    <3> HIDE DEF b
    <3> QED BY <1>0, <1>5, <1>6, <3>1, <3>2, EndsCommand
  <2>4. reply = [i \in 1..n |-> "echo"] \o made[k].out /\ n \in 0..EchoLen
    <3>1. l = n + o
      BY <1>7, <1>13, <1>12
    <3>2. \A i \in 1..n : reply[i] = "echo"
      <4> TAKE i \in 1..n
      <4>1. i \in 1..l /\ (asked + 2 - n + i = asked + 1 \/ asked + 2 - n + i = asked + 2)
        BY <1>7, <1>12, <3>1
      <4>2. script[asked + 2 - n + i].tok = "echo"
        BY <1>9, <1>10, <4>1
      <4> QED BY <1>4, <4>1, <4>2
    <3>3. \A i \in 1..o : reply[n + i] = made[k].out[i]
      <4> TAKE i \in 1..o
      <4>1. n + i \in 1..l /\ asked + 2 - n + (n + i) = asked + 2 + i
        BY <1>7, <1>12, <3>1
      <4>2. script[asked + 2 - n + (n + i)].tok = made[k].out[i]
        BY <1>9, <1>10, <4>1
      <4> QED BY <1>4, <4>1, <4>2
    <3>4. n \in 0..EchoLen
      BY <1>4 DEF EchoLen
    <3>5. Len(reply) = n + Len(made[k].out) /\ \A i \in 1..Len(made[k].out) : reply[n + i] = made[k].out[i]
      BY <3>1, <3>3 DEF l, o
    <3> QED BY <1>0, <1>8, <3>2, <3>4, <3>5, ReplyIs
  <2>5. DOMAIN answer' = DOMAIN answer \cup {k} /\ answer'[k].out = reply
        /\ \A c \in DOMAIN answer : answer'[c] = answer[c]
    BY <1>0, <2>2 DEF With
  <2>6. AnswersPage'
    <3> SUFFICES ASSUME NEW c \in DOMAIN answer'
                 PROVE  /\ c \in DOMAIN made
                        /\ kind[c] = "plain" =>
                             \E m \in 0..EchoLen : answer'[c].out = [i \in 1..m |-> "echo"] \o made[c].out
      BY <1>0 DEF AnswersPage
    <3>1. CASE c = k
      BY <1>6, <2>4, <2>5, <3>1
    <3>2. CASE c # k
      BY <1>1, <2>5, <3>2 DEF AnswersPage
    <3> QED BY <3>1, <3>2
  <2>7. OnlyPlain => ExactPage'
    <3> SUFFICES ASSUME OnlyPlain PROVE ExactPage'
      OBVIOUS
    <3>1. ExactPage
      BY <1>1
    <3>2. n = 0
      <4>1. place = asked + EchoLen + 1 + Len(reply)
        BY <1>0, <3>1 DEF ExactPage
      <4> QED BY <1>2, <1>4, <1>11, <4>1 DEF EchoLen, l
    <3>3. reply = made[k].out
      <4>1. [i \in 1..n |-> "echo"] = <<>>
        BY <3>2
      <4>2. reply = <<>> \o made[k].out
        BY <2>4, <4>1
      <4> QED BY <1>8, <4>2, ConcatEmptySeq
    <3>4. \A c \in DOMAIN answer' : answer'[c].out = made'[c].out
      <4> TAKE c \in DOMAIN answer'
      <4>1. CASE c = k
        BY <1>0, <2>5, <3>3, <4>1
      <4>2. CASE c # k
        BY <1>0, <2>5, <3>1, <4>2 DEF ExactPage
      <4> QED BY <4>1, <4>2
    <3> QED BY <1>0, <1>4, <2>2, <3>4 DEF ExactPage
  <2> QED BY <1>0, <1>1, <1>6, <2>2, <2>3, <2>6, <2>7 DEF Pages, DialPage, IdlePage, CommandPage, Busy
<1>14. CASE place # asked + o + 3
  <2>1. place <= asked + 2 + o
    BY <1>2, <1>7, <1>11, <1>14
  <2>2. ~LooksLikePrompt(Head(buffered))
    <3>1. CASE place = asked + 1 \/ place = asked + 2
      BY <1>5, <1>9, <1>10, <3>1 DEF LooksLikePrompt
    <3>2. CASE place # asked + 1 /\ place # asked + 2
      <4>1. place - (asked + 2) \in 1..o /\ asked + 2 + (place - (asked + 2)) = place
        BY <1>2, <1>7, <1>11, <2>1, <3>2
      <4>2. Head(buffered).tok = made[k].out[place - (asked + 2)]
        BY <1>5, <1>9, <1>10, <4>1
      <4>3. made[k].out[place - (asked + 2)] \notin {"prompt", "hash"}
        BY <1>8, <4>1 DEF Quiet, o
      <4> QED BY <4>2, <4>3 DEF LooksLikePrompt
    <3> QED BY <3>1, <3>2
  <2>3. cpc' = "plain" /\ reply' = Append(reply, Head(buffered).tok) /\ answer' = answer
    BY <1>0, <2>2 DEF ReadPlain
  <2>4. /\ Len(reply') = l + 1 /\ reply'[l + 1] = script[place].tok
        /\ \A i \in 1..l : reply'[i] = reply[i]
    <3>1. Head(buffered).tok \in Names
      BY <1>5 DEF Units
    <3> QED BY <1>0, <1>5, <2>3, <3>1, AppendProperties DEF l
  <2>5. asked' + EchoLen + 1 + Len(reply') - place' = n
    BY <1>5, <1>12, <2>4 DEF EchoLen
  <2>6. \A i \in 1..(l + 1) : reply'[i] = script[asked + 2 - n + i].tok
    <3> TAKE i \in 1..(l + 1)
    <3>1. CASE i = l + 1
      <4>1. asked + 2 - n + (l + 1) = place
        BY <1>12
      <4> QED BY <2>4, <3>1, <4>1
    <3>2. CASE i # l + 1
      <4>1. i \in 1..l
        BY <1>11, <3>2
      <4> QED BY <1>4, <2>4, <4>1
    <3> QED BY <3>1, <3>2
  <2>7. PlainPage'
    <3>1. asked' + EchoLen - n = asked + 2 - n /\ n \in 0..EchoLen /\ ~esc'
      BY <1>0, <1>4, <1>5 DEF EchoLen
    <3>2. place' <= asked' + EchoLen + 1 + Len(made'[k'].out)
      <4>1. made'[k'].out = made[k].out
        BY <1>0
      <4>2. place + 1 <= asked + 2 + 1 + o
        BY <1>2, <1>7, <1>11, <2>1
      <4> QED BY <1>5, <4>1, <4>2 DEF EchoLen, o
    <3> QED BY <1>5, <2>4, <2>5, <2>6, <3>1, <3>2 DEF PlainPage
  <2>8. CommandPage'
    BY <1>0, <1>3, <1>5, <1>6, <2>3, <2>7 DEF CommandPage, SkipPage, CheckedPage
  <2>9. AnswersPage'
    BY <1>0, <1>1, <2>3 DEF AnswersPage
  <2>10. OnlyPlain => ExactPage'
    <3> SUFFICES ASSUME OnlyPlain PROVE ExactPage'
      OBVIOUS
    <3>1. ExactPage
      BY <1>1
    <3>2. place' = asked' + EchoLen + 1 + Len(reply')
      <4>1. place = asked + EchoLen + 1 + l
        BY <1>0, <3>1 DEF ExactPage, l
      <4> QED BY <1>2, <1>5, <1>11, <2>4, <4>1 DEF EchoLen
    <3>3. \A c \in DOMAIN answer' : answer'[c].out = made'[c].out
      BY <1>0, <2>3, <3>1 DEF ExactPage
    <3> QED BY <2>3, <3>2, <3>3 DEF ExactPage
  <2> QED BY <1>0, <1>1, <2>3, <2>8, <2>9, <2>10 DEF Pages, DialPage, IdlePage
<1> QED BY <1>13, <1>14

\* A checked command is not of a session without them.
LEMMA CheckedIsOther ==
  ASSUME SessionType, k \in DOMAIN kind, kind[k] = "checked"
  PROVE  ~OnlyPlain
BY DEF OnlyPlain, SessionType

LEMMA BeginPages ==
  ASSUME SessionType, SessionType', ClientInv, ClientInv', FramedInv, Pages, ReadBegin
  PROVE  Pages'
<1>0. /\ cpc = "begin" /\ cpc \in Busy /\ Reads
      /\ cpc' = (IF Head(buffered).tok = "begin" /\ Head(buffered).of = k THEN "body" ELSE cpc)
      /\ UNCHANGED <<k, kind, reply, answer, esc, wire, asks, greeting, gate, input, made>>
      /\ kind[k] = "checked" /\ reply = <<>> /\ k \in DOMAIN kind /\ k > 0
  BY DEF ReadBegin, Busy, shellVars, device, ClientInv, FramedInv, SessionType
<1>1. CommandPage /\ AnswersPage /\ (esc => asks) /\ ~OnlyPlain
  BY <1>0, CheckedIsOther DEF Pages
<1>2. /\ Len(script) \in Nat /\ asked \in Nat /\ place \in Int /\ asked = IF asks THEN 2 ELSE 0
      /\ \A i \in 1..asked : script[i] = Query(asks)[i]
      /\ k \notin DOMAIN made => Len(script) = asked
      /\ k \in DOMAIN made => /\ Len(made[k].out) \in Nat
                              /\ CheckedScript(script, k, made[k], asks, asked, Len(made[k].out))
  BY <1>0, ScriptFacts
<1>3. /\ Ahead /\ place <= asked + 3
      /\ input = IF k \in DOMAIN made THEN <<>> ELSE <<[command |-> k, kind |-> kind[k]]>>
  <2>1. EchoLen + 1 = 3 /\ asked + EchoLen + 1 = asked + 3
    BY <1>2 DEF EchoLen
  <2> QED BY <1>0, <1>1, <2>1 DEF CommandPage, CheckedPage
<1>4. /\ script' = script /\ asked' = asked /\ place \in 1..Len(script) /\ place' = place + 1
      /\ Head(buffered) = script[place] /\ Ahead'
  BY <1>0, <1>3, PageRead
<1>5. place <= asked + 2 => cpc' = "begin"
  <2>1. CASE place <= asked
    <3>1. place \in 1..asked /\ asks \in BOOLEAN
      BY <1>2, <1>4, <2>1 DEF SessionType
    <3>2. Query(asks)[place].of = 0
      <4>1. \A i \in 1..asked : Query(asks)[i].of = 0
        BY <3>1, QueryUnits DEF asked
      <4> QED BY <3>1, <4>1
    <3>3. Head(buffered).of = 0
      BY <1>2, <1>4, <3>1, <3>2
    <3>4. 0 # k
      BY <1>0
    <3> QED BY <1>0, <3>3, <3>4
  <2>2. CASE place = asked + 1 \/ place = asked + 2
    <3>1. k \in DOMAIN made
      BY <1>2, <1>4, <2>2
    <3>2. Head(buffered) = Token("echo")
      BY <1>2, <1>4, <2>2, <3>1 DEF CheckedScript
    <3> QED BY <1>0, <3>2 DEF Token
  <2> QED BY <1>2, <2>1, <2>2
<1>6. place = asked + 3 => cpc' = "body"
  <2> SUFFICES ASSUME place = asked + 3 PROVE cpc' = "body"
    OBVIOUS
  <2>1. k \in DOMAIN made
    BY <1>2, <1>4
  <2>2. Head(buffered) = Frame("begin", k, "zero")
    BY <1>2, <1>4, <2>1 DEF CheckedScript
  <2> QED BY <1>0, <2>2 DEF Frame
<1>7. CheckedPage' /\ cpc' \in {"begin", "body"}
  <2>1. CASE place = asked + 3
    <3>1. cpc' = "body" /\ place' = asked' + EchoLen + 2 + Len(reply')
      <4>1. Len(reply') = 0
        BY <1>0, EmptySeq
      <4> QED BY <1>2, <1>4, <1>6, <2>1, <4>1 DEF EchoLen
    <3> QED BY <3>1 DEF CheckedPage
  <2>2. CASE place # asked + 3
    <3>1. cpc' = "begin" /\ place' <= asked' + EchoLen + 1
      <4>1. place <= asked + 2
        BY <1>2, <1>3, <2>2
      <4> QED BY <1>2, <1>4, <1>5, <4>1 DEF EchoLen
    <3> QED BY <3>1 DEF CheckedPage
  <2> QED BY <2>1, <2>2
<1>8. CommandPage'
  BY <1>0, <1>3, <1>4, <1>7 DEF CommandPage, SkipPage, PlainPage
<1>9. AnswersPage'
  BY <1>0, <1>1 DEF AnswersPage
<1> QED BY <1>0, <1>1, <1>7, <1>8, <1>9 DEF Pages, DialPage, IdlePage

LEMMA BodyPages ==
  ASSUME SessionType, SessionType', ClientInv, ClientInv', FramedInv, Pages, ReadBody
  PROVE  Pages'
<1> DEFINE o == Len(made[k].out)
           l == Len(reply)
<1>0. /\ cpc = "body" /\ cpc \in Busy /\ Reads
      /\ UNCHANGED <<k, kind, answer, esc, wire, asks, greeting, gate, input, made>>
      /\ kind[k] = "checked" /\ k \in DOMAIN kind /\ k > 0
      /\ k \in DOMAIN made /\ l <= o /\ l \in Nat /\ reply \in Seq(Names)
  BY DEF ReadBody, Busy, shellVars, device, ClientInv, FramedInv, SessionType
<1>1. CommandPage /\ AnswersPage /\ (esc => asks) /\ ~OnlyPlain
  BY <1>0, CheckedIsOther DEF Pages
<1>2. /\ asked \in Nat /\ o \in Nat
      /\ CheckedScript(script, k, made[k], asks, asked, o)
  BY <1>0, ScriptFacts
<1>3. /\ Ahead /\ place = asked + 4 + l
      /\ input = IF k \in DOMAIN made THEN <<>> ELSE <<[command |-> k, kind |-> kind[k]]>>
  <2>1. EchoLen + 2 = 4 /\ asked + EchoLen + 2 = asked + 4
    BY <1>2 DEF EchoLen
  <2> QED BY <1>0, <1>1, <2>1 DEF CommandPage, CheckedPage
<1>4. /\ script' = script /\ asked' = asked /\ place \in 1..Len(script) /\ place' = place + 1
      /\ Head(buffered) = script[place] /\ Head(buffered) \in Units /\ Ahead'
  BY <1>0, <1>3, PageRead
<1>5. /\ \A i \in 1..o : script[asked + 3 + i] = Token(made[k].out[i])
      /\ script[asked + o + 4] = Frame("end", k, made[k].status)
  BY <1>2 DEF CheckedScript
<1> HIDE DEF o, l
<1>6. CheckedPage' /\ cpc' \in {"body", "prompt"}
  <2>1. CASE l = o
    <3>1. place = asked + o + 4
      BY <1>0, <1>2, <1>3, <2>1
    <3>2. Head(buffered) = Frame("end", k, made[k].status)
      BY <1>4, <1>5, <3>1
    <3>3. cpc' = "prompt"
      BY <3>2 DEF ReadBody, Frame
    <3>4. place' = asked' + EchoLen + 3 + o
      BY <1>2, <1>4, <3>1 DEF EchoLen
    <3> QED BY <1>0, <3>3, <3>4 DEF CheckedPage, o
  <2>2. CASE l # o
    <3>1. l + 1 \in 1..o /\ asked + 3 + (l + 1) = place
      BY <1>0, <1>2, <1>3, <2>2
    <3>2. Head(buffered) = Token(made[k].out[l + 1])
      BY <1>4, <1>5, <3>1
    <3>3. Head(buffered).of = 0 /\ 0 # k
      BY <1>0, <3>2 DEF Token
    <3>4. cpc' = "body" /\ reply' = Append(reply, Head(buffered).tok)
      BY <1>0, <3>3 DEF ReadBody
    <3>5. Len(reply') = l + 1
      <4>1. Head(buffered).tok \in Names
        BY <1>4 DEF Units
      <4> QED BY <1>0, <3>4, <4>1, AppendProperties DEF l
    <3>6. place' = asked' + EchoLen + 2 + Len(reply')
      BY <1>0, <1>2, <1>3, <1>4, <3>5 DEF EchoLen
    <3> QED BY <3>4, <3>6 DEF CheckedPage
  <2> QED BY <2>1, <2>2
<1>7. CommandPage'
  BY <1>0, <1>3, <1>4, <1>6 DEF CommandPage, SkipPage, PlainPage
<1>8. AnswersPage'
  BY <1>0, <1>1 DEF AnswersPage
<1> QED BY <1>0, <1>1, <1>6, <1>7, <1>8 DEF Pages, DialPage, IdlePage

LEMMA PromptPages ==
  ASSUME SessionType, SessionType', ClientInv, ClientInv', FramedInv, Pages, ReadPrompt
  PROVE  Pages'
<1> DEFINE o == Len(made[k].out)
<1>0. /\ cpc = "prompt" /\ cpc \in Busy /\ Reads
      /\ UNCHANGED <<k, kind, esc, wire, asks, greeting, gate, input, made>>
      /\ kind[k] = "checked" /\ k \in DOMAIN kind
      /\ k \in DOMAIN made
  BY DEF ReadPrompt, Busy, shellVars, device, ClientInv, FramedInv, SessionType
<1>1. CommandPage /\ AnswersPage /\ (esc => asks) /\ ~OnlyPlain
  BY <1>0, CheckedIsOther DEF Pages
<1>2. /\ asked \in Nat /\ o \in Nat
      /\ CheckedScript(script, k, made[k], asks, asked, o)
  BY <1>0, ScriptFacts
<1>3. /\ Ahead /\ place = asked + 5 + o /\ input = <<>>
  <2>1. EchoLen + 3 = 5 /\ asked + EchoLen + 3 = asked + 5
    BY <1>2 DEF EchoLen
  <2> QED BY <1>0, <1>1, <2>1 DEF CommandPage, CheckedPage
<1>4. /\ script' = script /\ place' = place + 1
      /\ Head(buffered) = script[place] /\ Ahead'
  BY <1>0, <1>3, PageRead
<1> HIDE DEF o
<1>5. place = asked + o + 5 /\ script[place] = Token("prompt") /\ Len(script) = asked + o + 5 + asked
      /\ \A i \in 1..asked : script[asked + o + 5 + i] = Query(asks)[i]
  <2>1. place = asked + o + 5
    BY <1>2, <1>3
  <2> QED BY <1>2, <2>1 DEF CheckedScript
<1>6. LooksLikePrompt(Head(buffered))
  BY <1>4, <1>5 DEF LooksLikePrompt, Token
<1>7. cpc' = "idle" /\ answer' = With(answer, k, [out |-> reply, status |-> status])
  BY <1>6 DEF ReadPrompt
<1>8. stream' = Query(asks')
  <2> DEFINE b == asked + o + 5
  <2>1. b \in Nat /\ Len(script) = b + asked /\ \A i \in 1..asked : script[b + i] = Query(asks)[i]
    BY <1>2, <1>5
  <2>3. place' = b + 1
    BY <1>2, <1>4, <1>5
  <2>2. cpc \in Busy /\ k \in DOMAIN made /\ asks' = asks /\ script' = script /\ Ahead'
    BY <1>0, <1>4
  <2> HIDE DEF b
  <2> QED BY <2>1, <2>2, <2>3, EndsCommand
<1>9. AnswersPage'
  <2>1. DOMAIN answer' = DOMAIN answer \cup {k} /\ \A c \in DOMAIN answer : c # k => answer'[c] = answer[c]
    BY <1>7 DEF With
  <2>2. ASSUME NEW c \in DOMAIN answer'
        PROVE  /\ c \in DOMAIN made
               /\ kind[c] = "plain" =>
                    \E m \in 0..EchoLen : answer'[c].out = [i \in 1..m |-> "echo"] \o made[c].out
    <3>1. CASE c = k
      BY <1>0, <3>1
    <3>2. CASE c # k
      BY <1>1, <2>1, <3>2 DEF AnswersPage
    <3> QED BY <3>1, <3>2
  <2> QED BY <1>0, <2>2 DEF AnswersPage
<1> QED BY <1>0, <1>1, <1>3, <1>7, <1>8, <1>9 DEF Pages, DialPage, IdlePage, CommandPage, Busy

\* The reader behind the first units of a query: behind the second one it is not
\* in an escape sequence.
LEMMA EscapeOfQuery ==
  ASSUME NEW a \in BOOLEAN, NEW e \in BOOLEAN, NEW s,
         Len(s) \in 0..Len(Query(a)), \A i \in 1..Len(s) : s[i] = Query(a)[i]
  PROVE  /\ EscapeAfter(e, s) \in BOOLEAN
         /\ Len(s) = 0 => EscapeAfter(e, s) = e
         /\ Len(s) = 1 => EscapeAfter(e, s) = ~e
         /\ Len(s) = 2 => EscapeAfter(e, s) = FALSE
         /\ Len(s) > 0 => a
<1>1. Len(Query(a)) \in Nat /\ (~a => Len(Query(a)) = 0)
      /\ (a => Query(a)[1] = Token("esc") /\ Query(a)[2] = Token("csi"))
  BY QueryUnits
<1>2. Len(s) \in Nat /\ (Len(s) > 0 => a)
  BY <1>1
<1>3. PICK f : /\ f[0] = e
               /\ \A i \in 1..Len(s) : f[i] = EscapeNext(f[i - 1], s[i])
               /\ EscapeAfter(e, s) = f[Len(s)]
               /\ EscapeAfter(e, s) \in BOOLEAN
  BY <1>2, EscapeAfterIs
<1>4. Len(s) >= 1 => f[1] = ~e
  <2> SUFFICES ASSUME Len(s) >= 1 PROVE f[1] = ~e
    OBVIOUS
  <2>1. 1 \in 1..Len(s) /\ 1 - 1 = 0 /\ Len(s) > 0
    BY <1>2
  <2>2. s[1] = Token("esc")
    BY <1>1, <1>2, <2>1
  <2>3. f[1] = EscapeNext(e, Token("esc"))
    BY <1>3, <2>1, <2>2
  <2>4. EscapeNext(e, Token("esc")) = ~e
    <3>1. Token("esc").tok = "esc"
      BY DEF Token
    <3> QED BY <3>1, Zenon DEF EscapeNext
  <2> QED BY <2>3, <2>4
<1>5. Len(s) = 2 => f[2] = FALSE
  <2> SUFFICES ASSUME Len(s) = 2 PROVE f[2] = FALSE
    OBVIOUS
  <2>1. 2 \in 1..Len(s) /\ 2 - 1 = 1 /\ Len(s) > 0
    BY <1>2
  <2>2. s[2] = Token("csi")
    BY <1>1, <1>2, <2>1
  <2>3. f[2] = EscapeNext(f[1], Token("csi"))
    BY <1>3, <2>1, <2>2
  <2>4. EscapeNext(f[1], Token("csi")) = FALSE
    <3>1. Token("csi").tok # "esc"
      BY DEF Token
    <3> QED BY <3>1, Zenon DEF EscapeNext
  <2> QED BY <2>3, <2>4
<1>6. Len(s) = 0 => EscapeAfter(e, s) = e
  BY <1>3
<1>7. Len(s) = 1 => EscapeAfter(e, s) = ~e
  BY <1>3, <1>4
<1>8. Len(s) = 2 => EscapeAfter(e, s) = FALSE
  BY <1>3, <1>5
<1> QED BY <1>2, <1>3, <1>6, <1>7, <1>8

LEMMA SendPages ==
  ASSUME SessionType, SessionType', CounterType, NEW n \in Nat, Waiting(n), Pages, NEW kd \in Kinds, Begin(kd)
  PROVE  Pages'
<1> DEFINE b == Len(buffered)
<1>0. /\ cpc = "idle" /\ k' = k + 1 /\ kind' = With(kind, k + 1, kd) /\ buffered' = <<>>
      /\ esc' = EscapeAfter(esc, buffered)
      /\ input' = Append(input, [command |-> k + 1, kind |-> kd])
      /\ skip' = EchoLen /\ reply' = <<>>
      /\ cpc' = (IF kd = "plain" THEN "skip" ELSE "begin")
      /\ UNCHANGED <<answer, wire, asks, greeting, gate, made>>
  BY DEF Begin, Discard, device
<1>1. input = <<>> /\ stream = Query(asks) /\ (esc => asks) /\ AnswersPage
      /\ (OnlyPlain => ExactPage)
  BY <1>0 DEF Pages, IdlePage
<1>2. k \in Nat /\ DOMAIN kind = 1..k /\ DOMAIN made = 1..k
  <2>1. Len(input) = 0
    BY <1>1
  <2>2. DOMAIN made = 1..(k - 0 + n) /\ n \in 0..0
    BY <2>1 DEF Waiting, Waits
  <2> QED BY <2>2 DEF SessionType
<1>3. k' \notin DOMAIN made' /\ kind'[k'] = kd /\ \A c \in 1..k : kind'[c] = kind[c]
  <2>1. k + 1 \notin 1..k
    BY <1>2
  <2>2. kind'[k + 1] = kd
    BY <1>0 DEF With
  <2>3. \A c \in 1..k : kind'[c] = kind[c]
    BY <1>0, <1>2, <2>1 DEF With
  <2> QED BY <1>0, <1>2, <2>1, <2>2, <2>3
<1>4. /\ asks \in BOOLEAN /\ esc \in BOOLEAN /\ Query(asks) \in Seq(Units) /\ Len(Query(asks)) = asked
      /\ asked = IF asks THEN 2 ELSE 0
  BY QueryUnits DEF SessionType, CounterType, asked
<1>5. stream' = wire /\ Splits(stream, buffered, wire)
  <2>1. buffered \in Seq(Units) /\ wire \in Seq(Units)
    BY DEF SessionType
  <2> QED BY <1>0, <2>1, Joined, ConcatEmptySeq DEF stream
<1>6. script' = Query(asks) /\ asked' = asked
  <2>1. script' = Query(asks) \o <<>>
    BY <1>0, <1>3 DEF script
  <2> QED BY <1>0, <1>4, <2>1, ConcatEmptySeq DEF asked
<1>7. b \in 0..asked /\ b \in Nat /\ place' = b + 1 /\ Len(wire) = asked - b /\ Len(wire) \in Nat
  <2>1. b \in Nat /\ Len(wire) \in Nat /\ asked = b + Len(wire)
    BY <1>1, <1>4, <1>5 DEF Splits
  <2>2. place' = asked + 1 - Len(wire)
    BY <1>4, <1>5, <1>6 DEF place
  <2> QED BY <2>1, <2>2
<1>8. Ahead'
  <2>1. place' >= 1
    BY <1>7
  <2>2. ASSUME NEW i \in 1..Len(stream') PROVE stream'[i] = script'[place' - 1 + i]
    <3>1. stream'[i] = stream[b + i]
      BY <1>5 DEF Splits
    <3>2. place' - 1 + i = b + i
      BY <1>5, <1>7
    <3> QED BY <1>1, <1>6, <3>1, <3>2
  <2> QED BY <2>1, <2>2 DEF Ahead
<1>9. /\ esc' \in BOOLEAN
      /\ b = 0 => esc' = esc
      /\ b = 1 => esc' = ~esc
      /\ b = 2 => esc' = FALSE
      /\ b > 0 => asks
  <2>1. b \in 0..Len(Query(asks))
    BY <1>4, <1>7
  <2>2. \A i \in 1..b : buffered[i] = Query(asks)[i]
    BY <1>1, <1>5 DEF Splits
  <2> QED BY <1>0, <1>4, <2>1, <2>2, EscapeOfQuery
<1> HIDE DEF b
<1>10. asked \in {0, 2} /\ (asks => asked = 2) /\ (~asks => asked = 0)
  BY <1>4
<1>11. esc' => asks'
  <2>1. b = 0 \/ b > 0
    BY <1>7
  <2> QED BY <1>0, <1>1, <1>9, <2>1
<1>12. place' > asked' => ~esc' /\ place' = asked' + 1
  <2> SUFFICES ASSUME place' > asked' PROVE ~esc' /\ place' = asked' + 1
    OBVIOUS
  <2>1. b = asked
    BY <1>6, <1>7, <1>10
  <2>2. CASE asks
    <3>1. b = 2
      BY <1>10, <2>1, <2>2
    <3> QED BY <1>6, <1>7, <1>9, <2>1, <3>1
  <2>3. CASE ~asks
    <3>1. b = 0
      BY <1>10, <2>1, <2>3
    <3>2. ~esc
      BY <1>1, <2>3
    <3> QED BY <1>6, <1>7, <1>9, <2>1, <3>1, <3>2
  <2> QED BY <2>2, <2>3
<1>13. SkipPage'
  <2>1. place' > asked' => skip' + place' <= asked' + EchoLen + 1
    BY <1>0, <1>6, <1>10, <1>12 DEF EchoLen
  <2> QED BY <1>0, <1>12, <2>1 DEF SkipPage
<1>14. CheckedPage' /\ PlainPage'
  <2>1. place' <= asked' + EchoLen + 1
    BY <1>6, <1>7, <1>10 DEF EchoLen
  <2> QED BY <1>0, <2>1 DEF CheckedPage, PlainPage
<1>15. CommandPage'
  <2>1. input' = <<[command |-> k', kind |-> kind'[k']]>>
    BY <1>0, <1>1, <1>3
  <2> QED BY <1>3, <1>8, <1>13, <1>14, <2>1 DEF CommandPage
<1>16. AnswersPage'
  <2>1. DOMAIN answer \subseteq 1..k
    BY DEF SessionType
  <2> QED BY <1>0, <1>1, <1>3, <2>1 DEF AnswersPage
<1>17. OnlyPlain => ExactPage'
  <2> SUFFICES ASSUME OnlyPlain PROVE ExactPage'
    OBVIOUS
  <2>1. ~esc /\ \A c \in DOMAIN answer' : answer'[c].out = made'[c].out
    BY <1>0, <1>1 DEF ExactPage
  <2>2. place' = 1 => ~esc'
    <3>1. place' = 1 => b = 0
      BY <1>7
    <3> QED BY <1>9, <2>1, <3>1
  <2>3. place' = 2 => esc'
    <3>1. place' = 2 => b = 1
      BY <1>7
    <3> QED BY <1>9, <2>1, <3>1
  <2>4. place' > asked' => skip' + place' = asked' + EchoLen + 1
    BY <1>0, <1>6, <1>10, <1>12 DEF EchoLen
  <2> QED BY <1>0, <2>1, <2>2, <2>3, <2>4 DEF ExactPage
<1>18. cpc' \in {"skip", "begin"}
  BY <1>0
<1> QED BY <1>11, <1>15, <1>16, <1>17, <1>18 DEF Pages, DialPage, IdlePage

LEMMA WelcomePages ==
  ASSUME SessionType, SessionType', LoginInv, Pages, ReadWelcome
  PROVE  Pages'
<1> DEFINE l == Len(stream)
<1>0. /\ cpc = "dial" /\ Reads
      /\ input' = (IF Head(buffered).tok \in {"login", "password"}
                   THEN Append(input, [command |-> 0, kind |-> Head(buffered).tok])
                   ELSE input)
      /\ cpc' = (IF LooksLikePrompt(Head(buffered)) THEN "idle" ELSE cpc)
      /\ UNCHANGED <<k, kind, answer, esc, wire, asks, greeting, gate, made>>
  BY DEF ReadWelcome, device
<1>1. DialPage /\ AnswersPage /\ (OnlyPlain => ExactPage)
  BY DEF Pages
<1>2. /\ l > 0 /\ Head(buffered) = stream[1]
      /\ Len(stream') = l - 1
      /\ \A i \in 1..Len(stream') : stream'[i] = stream[i + 1]
  BY <1>0, ReadsFirst
<1>3. l \in Nat /\ stream' \in Seq(Units)
  BY ConcatProperties DEF SessionType, stream
<1>4. AnswersPage'
  BY <1>0, <1>1 DEF AnswersPage
<1>5. ~esc'
  BY <1>0, <1>1 DEF DialPage
<1>6. OnlyPlain => \A c \in DOMAIN answer' : answer'[c].out = made'[c].out
  BY <1>0, <1>1 DEF ExactPage
<1>7. CASE gate = "shell"
  <2>1. input = <<>> /\ stream = <<Token("prompt")>> \o Query(asks)
    BY <1>0, <1>1, <1>7 DEF DialPage
  <2> DEFINE p == <<Token("prompt")>>
             q == Query(asks)
  <2>2. p \in Seq(Units) /\ Len(p) = 1 /\ p[1] = Token("prompt") /\ q \in Seq(Units) /\ Len(q) \in Nat
    <3>1. Token("prompt") \in Units
      BY DEF Token, Units, Names, Statuses
    <3>2. p \in Seq(Units) /\ Len(p) = 1 /\ p[1] = Token("prompt")
      BY ONLY <3>1
    <3> QED BY <3>2, QueryUnits DEF SessionType
  <2> HIDE DEF p, q
  <2>3. Splits(stream, p, q)
    BY <2>1, <2>2, Joined DEF p, q
  <2>4. stream[1] = Token("prompt") /\ l = 1 + Len(q) /\ \A i \in 1..Len(q) : stream[1 + i] = q[i]
    BY <2>2, <2>3 DEF Splits
  <2>5. cpc' = "idle" /\ input' = <<>>
    <3>1. Head(buffered).tok = "prompt"
      BY <1>2, <2>4 DEF Token
    <3>2. LooksLikePrompt(Head(buffered))
      BY <3>1 DEF LooksLikePrompt
    <3> QED BY <1>0, <2>1, <3>1, <3>2
  <2>6. stream' = q
    <3>1. Len(stream') = Len(q)
      BY <1>2, <1>3, <2>2, <2>4
    <3>2. \A i \in 1..Len(q) : stream'[i] = q[i]
      <4> TAKE i \in 1..Len(q)
      <4>1. i + 1 = 1 + i
        BY <2>2
      <4> QED BY <1>2, <2>4, <3>1, <4>1
    <3> HIDE DEF stream
    <3> QED BY <1>3, <2>2, <3>1, <3>2, SameUnits
  <2>7. IdlePage'
    BY <1>0, <2>5, <2>6 DEF IdlePage, q
  <2>8. OnlyPlain => ExactPage'
    BY <1>5, <1>6, <2>5 DEF ExactPage
  <2> QED BY <1>4, <1>5, <2>5, <2>7, <2>8 DEF Pages, DialPage, CommandPage, Busy
<1>8. CASE gate # "shell"
  <2>1. stream # <<>> /\ gate' # "shell"
    <3>1. stream = <<>> => l = 0
      BY EmptySeq
    <3> QED BY <1>0, <1>2, <1>8, <3>1
  <2>2. /\ input = <<>> /\ Ask(stream[l]) /\ \A i \in 1..(l - 1) : ~Ask(stream[i])
    BY <1>0, <1>1, <1>8, <2>1 DEF DialPage
  <2>3. cpc' = "dial"
    <3>1. 1 \in 1..l
      BY <1>2, <1>3
    <3>2. ~LooksLikePrompt(Head(buffered))
      BY <1>2, <1>8, <3>1 DEF LoginInv
    <3> QED BY <1>0, <3>2
  <2>4. \/ stream' = <<>> /\ Len(input') = 1
        \/ /\ stream' # <<>> /\ input' = <<>>
           /\ Ask(stream'[Len(stream')])
           /\ \A i \in 1..(Len(stream') - 1) : ~Ask(stream'[i])
    <3>1. CASE l = 1
      <4>1. stream' = <<>>
        <5>1. Len(stream') = 0
          BY <1>2, <3>1
        <5> QED BY <1>3, <5>1, EmptySeq
      <4>2. Head(buffered).tok \in {"login", "password"}
        BY <1>2, <2>2, <3>1 DEF Ask
      <4>3. input' = <<[command |-> 0, kind |-> Head(buffered).tok]>>
        BY <1>0, <2>2, <4>2
      <4> QED BY <4>1, <4>3
    <3>2. CASE l # 1
      <4>1. 1 \in 1..(l - 1) /\ l - 1 > 0
        BY <1>2, <1>3, <3>2
      <4>2. ~(Head(buffered).tok \in {"login", "password"})
        BY <1>2, <2>2, <4>1 DEF Ask
      <4>3. input' = <<>>
        BY <1>0, <2>2, <4>2
      <4>4. stream' # <<>>
        <5>1. stream' = <<>> => Len(stream') = 0
          BY EmptySeq
        <5> QED BY <1>2, <4>1, <5>1
      <4>5. Ask(stream'[Len(stream')])
        <5>1. l - 1 \in 1..Len(stream') /\ l - 1 + 1 = l
          BY <1>2, <1>3, <4>1
        <5>2. stream'[l - 1] = stream[l - 1 + 1]
          BY <1>2, <5>1
        <5> QED BY <1>2, <2>2, <5>1, <5>2
      <4>6. \A i \in 1..(Len(stream') - 1) : ~Ask(stream'[i])
        <5> TAKE i \in 1..(Len(stream') - 1)
        <5>1. i \in 1..Len(stream') /\ i + 1 \in 1..(l - 1)
          BY <1>2, <1>3
        <5>2. stream'[i] = stream[i + 1]
          BY <1>2, <5>1
        <5> QED BY <2>2, <5>1, <5>2
      <4> QED BY <4>3, <4>4, <4>5, <4>6
    <3> QED BY <3>1, <3>2
  <2>5. DialPage'
    BY <1>5, <2>1, <2>4 DEF DialPage
  <2>6. OnlyPlain => ExactPage'
    BY <1>6, <2>3 DEF ExactPage
  <2> QED BY <1>4, <1>5, <2>3, <2>5, <2>6 DEF Pages, IdlePage, CommandPage, Busy
<1> QED BY <1>7, <1>8

\* Nothing is asked of a session that has not been dialled.
LEMMA FailedPages ==
  ASSUME Pages, cpc' = "failed", UNCHANGED <<esc, asks, kind, made, answer>>
  PROVE  Pages'
<1>1. AnswersPage' /\ (esc' => asks')
  BY DEF Pages, AnswersPage
<1>2. OnlyPlain => ExactPage'
  <2> SUFFICES ASSUME OnlyPlain PROVE ExactPage'
    OBVIOUS
  <2>1. \A c \in DOMAIN answer' : answer'[c].out = made'[c].out
    BY DEF Pages, ExactPage
  <2> QED BY <2>1 DEF ExactPage
<1> QED BY <1>1, <1>2 DEF Pages, DialPage, IdlePage, CommandPage, Busy

LEMMA LoginPages ==
  ASSUME SessionType, SessionType', LoginInv, Smooth, Pages, LogIn
  PROVE  Pages'
<1>0. /\ gate # "shell" /\ input # <<>> /\ input' = Tail(input)
      /\ cpc \in {"dial", "failed"}
      /\ UNCHANGED <<cpc, k, kind, answer, esc, buffered, asks, greeting, made>>
  BY DEF LogIn, LoginInv, clientVars, device
<1>1. CASE cpc = "failed"
  BY <1>0, <1>1, FailedPages
<1>2. CASE cpc = "dial"
  <2>1. DialPage /\ AnswersPage /\ (esc => asks) /\ (OnlyPlain => ExactPage)
    BY DEF Pages
  <2>2. stream = <<>> /\ Len(input) = 1 /\ ~esc
    BY <1>0, <1>2, <2>1 DEF DialPage
  <2>3. input' = <<>>
    <3>1. input \in Seq(Lines)
      BY DEF SessionType
    <3>2. Tail(input) \in Seq(Lines) /\ Len(Tail(input)) = 0
      BY <1>0, <2>2, <3>1, HeadTailProperties
    <3> QED BY <1>0, <3>2, EmptySeq
  <2>4. buffered = <<>> /\ wire = <<>>
    <3>1. buffered \in Seq(Units) /\ wire \in Seq(Units)
      BY DEF SessionType
    <3>2. Len(buffered) + Len(wire) = 0
      BY <2>2, <3>1, ConcatProperties, EmptySeq DEF stream
    <3> QED BY <3>1, <3>2, EmptySeq, LenProperties
  <2>5. wire' \in Seq(Units) /\ stream' = wire'
    BY <1>0, <2>4, ConcatEmptySeq DEF SessionType, stream
  <2>6. AnswersPage' /\ (OnlyPlain => \A c \in DOMAIN answer' : answer'[c].out = made'[c].out)
    BY <1>0, <2>1 DEF AnswersPage, ExactPage
  <2>7. DialPage'
    <3>1. CASE gate' = "password" /\ wire' = wire \o Tokens(<<"echo", "password">>)
      <4> DEFINE s == <<"echo", "password">>
      <4>1. s \in Seq(Names) /\ Len(s) = 2 /\ s[1] = "echo" /\ s[2] = "password"
        BY DEF Names
      <4>2. wire' = wire \o Tokens(s)
        BY <3>1
      <4> HIDE DEF s
      <4>3. /\ Tokens(s) \in Seq(Units) /\ Len(Tokens(s)) = 2
            /\ Tokens(s)[1].tok = "echo" /\ Tokens(s)[2].tok = "password"
        <5>1. 1 \in 1..2 /\ 2 \in 1..2 /\ \A t : Token(t).tok = t
          BY DEF Token
        <5>2. /\ Tokens(s) \in Seq(Units) /\ Len(Tokens(s)) = 2
              /\ \A i \in 1..2 : Tokens(s)[i] = Token(s[i])
          BY <4>1, TokensAreUnits
        <5> QED BY <4>1, <5>1, <5>2
      <4>4. stream' = Tokens(s)
        BY <2>4, <2>5, <4>2, <4>3, ConcatEmptySeq
      <4>5. Ask(stream'[2]) /\ \A i \in 1..(2 - 1) : ~Ask(stream'[i])
        BY <4>3, <4>4 DEF Ask
      <4>6. Len(stream') = 2 /\ stream' # <<>>
        <5>1. stream' = <<>> => Len(stream') = 0
          BY EmptySeq
        <5> QED BY <4>3, <4>4, <5>1
      <4> QED BY <1>0, <2>2, <2>3, <3>1, <4>5, <4>6 DEF DialPage
    <3>2. CASE gate' = "login" /\ wire' = Append(wire, Token("login"))
      <4>1. stream' = <<Token("login")>>
        BY <2>4, <2>5, <3>2
      <4>2. Len(stream') = 1 /\ stream' # <<>> /\ stream'[1].tok = "login"
        BY <4>1 DEF Token
      <4>3. Ask(stream'[1]) /\ \A i \in 1..(1 - 1) : ~Ask(stream'[i])
        BY <4>2 DEF Ask
      <4> QED BY <1>0, <2>2, <2>3, <3>2, <4>2, <4>3 DEF DialPage
    <3>3. CASE gate' = "shell" /\ wire' = wire \o Tokens(Append(greeting, "prompt")) \o Query(asks)
      <4> DEFINE s == <<"prompt">>
      <4>1. Append(greeting, "prompt") = s
        BY DEF Smooth
      <4>2. s \in Seq(Names) /\ Len(s) = 1 /\ s[1] = "prompt"
        BY DEF Names
      <4> HIDE DEF s
      <4>3. Tokens(s) \in Seq(Units) /\ Len(Tokens(s)) = 1 /\ Tokens(s)[1] = Token("prompt")
        BY <4>2, TokensAreUnits
      <4>4. Tokens(s) = <<Token("prompt")>>
        BY <4>3
      <4>5. <<>> \o Tokens(s) = Tokens(s)
        BY <4>3, ConcatEmptySeq
      <4>6. stream' = <<Token("prompt")>> \o Query(asks)
        BY <2>4, <2>5, <3>3, <4>1, <4>4, <4>5
      <4> QED BY <1>0, <2>2, <2>3, <3>3, <4>6 DEF DialPage
    <3> QED BY <3>1, <3>2, <3>3 DEF LogIn
  <2>8. OnlyPlain => ExactPage'
    BY <1>0, <1>2, <2>6 DEF ExactPage
  <2> QED BY <1>0, <1>2, <2>1, <2>6, <2>7, <2>8 DEF Pages, IdlePage, CommandPage, Busy
<1> QED BY <1>0, <1>1, <1>2

LEMMA StrayPages ==
  ASSUME SessionType, ClientInv, Pages, RunStray
  PROVE  Pages'
<1>0. /\ gate = "shell" /\ input # <<>> /\ Head(input).command = 0
      /\ UNCHANGED <<cpc, kind, answer, esc, asks, made>>
  BY DEF RunStray, clientVars, device
<1>1. cpc = "failed"
  <2>1. cpc # "dial" /\ cpc # "idle"
    BY <1>0 DEF Pages, DialPage, IdlePage
  <2>2. ASSUME cpc \in Busy PROVE FALSE
    <3>1. input = <<[command |-> k, kind |-> kind[k]]>> /\ k > 0
      BY <1>0, <2>2 DEF Pages, CommandPage, ClientInv
    <3>2. Head(input).command = k
      BY <3>1
    <3> QED BY <1>0, <3>1, <3>2
  <2> QED BY <2>1, <2>2 DEF SessionType
<1> QED BY <1>0, <1>1, FailedPages

\* The shell runs the command that the client waits for.
LEMMA OwnScript ==
  ASSUME SessionType, ClientInv, NEW n \in Nat, Waiting(n), CommandPage, cpc \in Busy, RunCommand
  PROVE  /\ k \notin DOMAIN made /\ k \in DOMAIN made'
         /\ input = <<[command |-> k, kind |-> kind[k]]>> /\ input' = <<>>
         /\ \A c \in DOMAIN made : made'[c] = made[c]
         /\ asked' = asked /\ place' = place /\ Ahead'
         /\ Len(script) = asked /\ \A i \in 1..asked : script'[i] = script[i]
<1> DEFINE q == Query(asks)
           l == Len(stream)
<1>0. /\ input # <<>> /\ input' = Tail(input)
      /\ UNCHANGED <<cpc, k, kind, asks, buffered>> /\ k \in Nat /\ kind[k] \in Kinds
      /\ k > 0
  BY DEF RunCommand, clientVars, device, SessionType, ClientInv
<1>1. k \notin DOMAIN made /\ input = <<[command |-> k, kind |-> kind[k]]>> /\ Ahead
  BY <1>0 DEF CommandPage
<1>2. input' = <<>> /\ input[1].command = k /\ input[1].kind = kind[k]
  BY <1>0, <1>1
<1>3. PICK r \in Results : made' = With(made, k, r) /\ wire' = wire \o Printed(k, kind[k], r, asks)
  BY <1>2, CommandPrints
<1>4. DOMAIN made' = DOMAIN made \cup {k} /\ made'[k] = r /\ \A c \in DOMAIN made : made'[c] = made[c]
  BY <1>1, <1>3 DEF With
<1> DEFINE x == Printed(k, kind[k], r, asks)
<1>5. x \in Seq(Units) /\ q \in Seq(Units) /\ Len(q) = asked
  BY <1>0, PrintedUnits, QueryUnits DEF SessionType, asked
<1>6. script' = q \o x /\ asked' = asked
  BY <1>0, <1>4 DEF script, asked
<1>7. script = q
  <2>1. script = q \o <<>>
    BY <1>1 DEF script
  <2> QED BY <1>5, <2>1, ConcatEmptySeq
<1> HIDE DEF x, q
<1>8. Splits(script', q, x)
  BY <1>5, <1>6, Joined
<1>9. /\ l \in Nat /\ Len(x) \in Nat /\ Len(stream') = l + Len(x)
      /\ \A i \in 1..l : stream'[i] = stream[i]
      /\ \A i \in 1..Len(x) : stream'[l + i] = x[i]
      /\ \A i \in 1..Len(stream') : i \in 1..l \/ \E j \in 1..Len(x) : i = l + j
  BY <1>0, <1>3, <1>5, PrintsLast DEF x
<1> HIDE DEF l
<1>10. asked \in Nat /\ Len(script') = asked + Len(x) /\ Len(script) = asked
       /\ (\A i \in 1..asked : script'[i] = script[i])
       /\ (\A i \in 1..Len(x) : script'[asked + i] = x[i])
  BY <1>5, <1>7, <1>8 DEF Splits
<1>11. place = asked + 1 - l /\ place' = asked + 1 - l
  <2>1. place = asked + 1 - l
    BY <1>10 DEF place, l
  <2>2. place' = asked + Len(x) + 1 - (l + Len(x))
    BY <1>9, <1>10 DEF place
  <2> QED BY <1>9, <1>10, <2>1, <2>2
<1>12. Ahead'
  <2>1. place' >= 1
    BY <1>1, <1>11 DEF Ahead
  <2>2. ASSUME NEW i \in 1..Len(stream') PROVE stream'[i] = script'[place' - 1 + i]
    <3>1. CASE i \in 1..l
      <4>1. stream'[i] = script[place - 1 + i]
        BY <1>1, <1>9, <3>1 DEF Ahead, l
      <4>2. place - 1 + i \in 1..asked
        <5>1. place >= 1
          BY <1>1 DEF Ahead
        <5> QED BY <1>9, <1>10, <1>11, <3>1, <5>1
      <4> QED BY <1>10, <1>11, <4>1, <4>2
    <3>2. ASSUME NEW j \in 1..Len(x), i = l + j PROVE stream'[i] = script'[place' - 1 + i]
      <4>1. place' - 1 + i = asked + j
        BY <1>9, <1>10, <1>11, <3>2
      <4> QED BY <1>9, <1>10, <3>2, <4>1
    <3> QED BY <1>9, <3>1, <3>2
  <2> QED BY <2>1, <2>2 DEF Ahead
<1>13. place' = place
  BY <1>11
<1> QED BY <1>1, <1>2, <1>4, <1>6, <1>10, <1>12, <1>13

LEMMA RunPages ==
  ASSUME SessionType, SessionType', ClientInv, FramedInv, NEW n \in Nat, Waiting(n), Pages, RunCommand
  PROVE  Pages'
<1>0. /\ gate = "shell" /\ input # <<>>
      /\ UNCHANGED <<cpc, k, kind, skip, reply, answer, esc, asks, gate>>
  BY DEF RunCommand, clientVars, device
<1>1. AnswersPage /\ (esc => asks) /\ CommandPage /\ (OnlyPlain => ExactPage)
  BY DEF Pages
<1>2. \A c \in DOMAIN made : c \in DOMAIN made' /\ made'[c] = made[c]
  <2>1. PICK c \in 1..k, r \in Results : c \notin DOMAIN made /\ made' = With(made, c, r)
    BY CommandAdds
  <2> QED BY <2>1 DEF With
<1>3. AnswersPage' /\ (OnlyPlain => \A c \in DOMAIN answer' : answer'[c].out = made'[c].out)
  <2>1. AnswersPage'
    BY <1>0, <1>1, <1>2 DEF AnswersPage
  <2>2. OnlyPlain => \A c \in DOMAIN answer' : answer'[c].out = made'[c].out
    BY <1>0, <1>1, <1>2 DEF AnswersPage, ExactPage
  <2> QED BY <2>1, <2>2
<1>4. CASE cpc = "failed"
  BY <1>0, <1>1, <1>3, <1>4 DEF Pages, DialPage, IdlePage, CommandPage, ExactPage, Busy
<1>5. CASE cpc \in Busy
  <2>1. /\ k \notin DOMAIN made /\ k \in DOMAIN made'
        /\ input' = <<>>
        /\ asked' = asked /\ place' = place /\ Ahead'
        /\ Len(script) = asked
    BY <1>1, <1>5, OwnScript
  <2>2. SkipPage /\ PlainPage /\ CheckedPage
    BY <1>1, <1>5 DEF CommandPage
  <2>3. SkipPage'
    BY <1>0, <2>1, <2>2 DEF SkipPage
  <2>4. CheckedPage'
    <3>1. cpc # "prompt"
      BY <2>1 DEF FramedInv
    <3> QED BY <1>0, <2>1, <2>2, <3>1 DEF CheckedPage
  <2>5. PlainPage'
    <3> SUFFICES ASSUME cpc = "plain" PROVE PlainPage'
      BY <1>0 DEF PlainPage
    <3> DEFINE m == asked + EchoLen + 1 + Len(reply) - place
               o == Len(made'[k'].out)
    <3>1. ~esc /\ m \in 0..EchoLen
      BY <2>2 DEF PlainPage
    <3>2. asked \in Nat /\ place \in Int /\ place <= asked + 1 /\ Len(reply) \in Nat /\ o \in Nat
      <4>1. asked \in Nat /\ place \in Int /\ Len(reply) \in Nat
        <5>1. asked \in Nat /\ place \in Int
          BY <1>5, ScriptFacts
        <5>2. reply \in Seq(Names)
          BY DEF SessionType
        <5> QED BY <5>1, <5>2
      <4>2. place = asked + 1 - Len(stream) /\ Len(stream) \in Nat
        BY <1>5, <2>1, ScriptFacts DEF place
      <4>3. o \in Nat
        <5>1. made'[k'] \in Results
          BY <1>0, <2>1 DEF SessionType
        <5> HIDE DEF o
        <5> QED BY <5>1, ResultType DEF o
      <4> QED BY <4>1, <4>2, <4>3
    <3> HIDE DEF o
    <3>3. Len(reply) = 0
      BY <3>1, <3>2 DEF EchoLen
    <3>4. asked' + EchoLen + 1 + Len(reply') - place' \in 0..EchoLen
      BY <1>0, <2>1, <3>1
    <3>5. place' <= asked' + EchoLen + 1 + o
      BY <2>1, <3>2 DEF EchoLen
    <3> QED BY <1>0, <3>1, <3>3, <3>4, <3>5 DEF PlainPage, o
  <2>6. CommandPage'
    BY <1>0, <2>1, <2>3, <2>4, <2>5 DEF CommandPage
  <2>7. OnlyPlain => ExactPage'
    <3> SUFFICES ASSUME OnlyPlain PROVE ExactPage'
      OBVIOUS
    <3>1. ExactPage
      BY <1>1
    <3> QED BY <1>0, <1>3, <2>1, <3>1 DEF ExactPage
  <2> QED BY <1>0, <1>1, <1>3, <1>5, <2>6, <2>7 DEF Pages, DialPage, IdlePage, Busy
<1>6. cpc # "idle" /\ cpc # "dial"
  BY <1>0 DEF Pages, IdlePage, DialPage
<1> QED BY <1>4, <1>5, <1>6 DEF SessionType

LEMMA SamePages ==
  ASSUME stream' = stream, UNCHANGED <<cpc, k, kind, skip, reply, answer, esc, asks, gate, input, made>>, Pages
  PROVE  Pages'
<1>1. script' = script /\ asked' = asked /\ place' = place /\ (Ahead => Ahead')
  BY PageKept
<1>2. CommandPage'
  <2> SUFFICES ASSUME cpc \in Busy PROVE CommandPage'
    BY DEF CommandPage
  <2>1. /\ input = IF k \in DOMAIN made THEN <<>> ELSE <<[command |-> k, kind |-> kind[k]]>>
        /\ Ahead /\ SkipPage /\ PlainPage /\ CheckedPage
    BY DEF Pages, CommandPage
  <2>2. SkipPage'
    BY <1>1, <2>1 DEF SkipPage
  <2>3. PlainPage'
    BY <1>1, <2>1 DEF PlainPage
  <2>4. CheckedPage'
    BY <1>1, <2>1 DEF CheckedPage
  <2> QED BY <1>1, <2>1, <2>2, <2>3, <2>4 DEF CommandPage
<1>3. DialPage' /\ IdlePage' /\ AnswersPage' /\ (esc' => asks')
  <2>1. DialPage'
    BY DEF Pages, DialPage
  <2>2. IdlePage'
    BY DEF Pages, IdlePage
  <2> QED BY <2>1, <2>2 DEF Pages, AnswersPage
<1>4. OnlyPlain => ExactPage'
  <2> SUFFICES ASSUME OnlyPlain PROVE ExactPage'
    OBVIOUS
  <2>1. ExactPage
    BY DEF Pages
  <2> QED BY <1>1, <2>1 DEF ExactPage
<1> QED BY <1>2, <1>3, <1>4 DEF Pages

LEMMA PageInit == Init => PageInv
<1> SUFFICES ASSUME Init PROVE Pages
  BY DEF PageInv
<1>1. /\ cpc = "dial" /\ esc = FALSE /\ buffered = <<>> /\ input = <<>> /\ answer = <<>>
      /\ gate \in {"login", "shell"} /\ asks \in BOOLEAN
      /\ wire = IF gate = "login" THEN <<Token("login")>> ELSE <<Token("prompt")>> \o Query(asks)
  BY DEF Init
<1>2. stream = wire
  <2>1. wire \in Seq(Units)
    BY InitIInv DEF IInv, SessionType
  <2> QED BY <1>1, <2>1, ConcatEmptySeq DEF stream
<1>3. DialPage
  <2>1. CASE gate = "shell"
    BY <1>1, <1>2, <2>1 DEF DialPage
  <2>2. CASE gate # "shell"
    <3>1. stream = <<Token("login")>>
      BY <1>1, <1>2, <2>2
    <3>2. Len(stream) = 1 /\ stream # <<>> /\ stream[1].tok = "login"
      BY <3>1 DEF Token
    <3>3. Ask(stream[1]) /\ \A i \in 1..(1 - 1) : ~Ask(stream[i])
      BY <3>2 DEF Ask
    <3> QED BY <1>1, <2>2, <3>2, <3>3 DEF DialPage
  <2> QED BY <2>1, <2>2
<1>4. AnswersPage /\ (OnlyPlain => ExactPage)
  BY <1>1 DEF AnswersPage, ExactPage
<1> QED BY <1>1, <1>3, <1>4 DEF Pages, IdlePage, CommandPage, Busy

LEMMA PageStep ==
  ASSUME IInv, IInv', CounterType, PageInv, [Next]_vars
  PROVE  PageInv'
<1> SUFFICES ASSUME Smooth' PROVE Pages'
  BY DEF PageInv
<1>0. /\ SessionType /\ ClientInv /\ LoginInv /\ FramedInv
      /\ SessionType' /\ ClientInv'
  BY DEF IInv
<1>1. PICK n \in Nat : Waiting(n)
  BY DEF IInv
<1>2. Smooth /\ Pages
  BY <1>0, <1>1, SmoothBefore DEF PageInv
<1>3. ASSUME NEW kd \in Kinds, Begin(kd) PROVE Pages'
  BY <1>0, <1>1, <1>2, <1>3, SendPages
<1>4. CASE ReadWelcome
  BY <1>0, <1>2, <1>4, WelcomePages
<1>5. CASE DialFails
  <2>1. cpc' = "failed" /\ UNCHANGED <<esc, asks, kind, made, answer>>
    BY <1>5 DEF DialFails, shellVars, device
  <2> QED BY <1>2, <2>1, FailedPages
<1>6. CASE Fill
  <2>1. UNCHANGED <<cpc, k, kind, skip, reply, answer, esc, asks, gate, input, made>>
    BY <1>6 DEF Fill, clientVars, shellVars, device
  <2> QED BY <1>0, <1>2, <1>6, <2>1, FillMoves, SamePages
<1>7. CASE SkipUnit
  BY <1>0, <1>2, <1>7, SkipPages
<1>8. CASE ReadPlain
  BY <1>0, <1>2, <1>8, PlainPages
<1>9. CASE ReadBegin
  BY <1>0, <1>2, <1>9, BeginPages
<1>10. CASE ReadBody
  BY <1>0, <1>2, <1>10, BodyPages
<1>11. CASE ReadPrompt
  BY <1>0, <1>2, <1>11, PromptPages
<1>12. CASE TimeOut
  <2>1. timeouts' = timeouts + 1 /\ timeouts' = 0 /\ timeouts = 0
    BY <1>2, <1>12 DEF TimeOut, Smooth
  <2> QED BY <2>1
<1>13. CASE LogIn
  BY <1>0, <1>2, <1>13, LoginPages
<1>14. CASE RunStray
  BY <1>0, <1>2, <1>14, StrayPages
<1>15. CASE RunCommand
  BY <1>0, <1>1, <1>2, <1>15, RunPages
<1>16. CASE Done \/ UNCHANGED vars
  <2>1. UNCHANGED <<cpc, k, kind, skip, reply, answer, esc, asks, gate, input, made, buffered, wire>>
    BY <1>16 DEF Done, vars, clientVars, shellVars, device
  <2>2. stream' = stream
    BY <2>1 DEF stream
  <2> QED BY <1>2, <2>1, <2>2, SamePages
<1> QED BY <1>3, <1>4, <1>5, <1>6, <1>7, <1>8, <1>9, <1>10, <1>11, <1>12, <1>13, <1>14, <1>15, <1>16
        DEF Next, ClientStep

\* The invariant of plain commands, together with that of checked ones.
AllInv == IInv /\ CounterType /\ PageInv

LEMMA NextAllInv == AllInv /\ [Next]_vars => AllInv'
BY NextIInv, CounterTypeStep, PageStep DEF AllInv, IInv

LEMMA InitAllInv == Init => AllInv
BY InitIInv, CounterTypeInit, PageInit DEF AllInv

\* Execute keeps its output: see PlainKeepsOutput.
LEMMA AllInvKeeps ==
  ASSUME AllInv
  PROVE  PlainKeepsOutput
<1> SUFFICES ASSUME timeouts = 0, greeting = <<>>, \A c \in DOMAIN made : ~Contains(made[c].out, "hash"),
                    NEW c \in Commands, c \in DOMAIN answer, kind[c] = "plain"
             PROVE  \E n \in 0..EchoLen : answer[c].out = [i \in 1..n |-> "echo"] \o made[c].out
  BY DEF PlainKeepsOutput, Answered
<1>1. AnswersPage
  BY DEF AllInv, PageInv, Smooth, Pages
<1> QED BY <1>1 DEF AnswersPage

\* PlainKeepsOutput: without a timeout, without a greeting and without output that
\* looks like a prompt, Execute loses nothing of the output of its command, and
\* adds at most the end of its echo.
THEOREM TelnetSessionPlainKeepsOutput == Spec => []PlainKeepsOutput
<1>1. AllInv => PlainKeepsOutput
  BY AllInvKeeps
<1> QED BY <1>1, InitAllInv, NextAllInv, PTL DEF Spec

\* PlainOwnOutput: in a session that is used with Execute only, nothing is added
\* either, where no output looks like a prompt.
THEOREM TelnetSessionPlainOwnOutput ==
  ASSUME Kinds = {"plain"}, \A o \in Outputs : ~Contains(o, "hash")
  PROVE  Spec => []PlainOwnOutput
<1>1. AllInv => PlainOwnOutput
  <2> SUFFICES ASSUME AllInv, timeouts = 0, greeting = <<>>, NEW c \in Commands, c \in DOMAIN answer
               PROVE  c \in DOMAIN made /\ answer[c].out = made[c].out
    BY DEF PlainOwnOutput, Answered
  <2>1. \A d \in DOMAIN made : ~Contains(made[d].out, "hash")
    BY DEF AllInv, IInv, SessionType, Results
  <2>2. AnswersPage /\ ExactPage
    BY <2>1 DEF AllInv, PageInv, Smooth, Pages, OnlyPlain
  <2> QED BY <2>2 DEF AnswersPage, ExactPage
<1> QED BY <1>1, InitAllInv, NextAllInv, PTL DEF Spec
=============================================================================
