-------------------------- MODULE PullPrintfProofs --------------------------
(***************************************************************************)
(* Theorems about PullPrintf, for every file and every way to encode it,   *)
(* every greeting of the device and every number of timeouts.  The session *)
(* of a download is one of TelnetSession: its steps are steps of that      *)
(* module, and its invariant (AllInv) holds.                               *)
(***************************************************************************)
EXTENDS PullPrintf, TelnetSessionProofs

USE SessionAssumption, PullAssumption

-----------------------------------------------------------------------------
(* The session of a download *)

\* The steps of a download are steps of its session.
LEMMA PullSteps ==
  ASSUME PullNext
  PROVE  [Next]_vars
<1> USE DEF vars, sessionVars
<1>1. CASE PullStep
  BY <1>1 DEF PullStep, CannotBegin, TryEncoder, NoEncoder, WriteLocal, Return, Next, ClientStep
<1>2. CASE ExecuteStep
  BY <1>2 DEF ExecuteStep, Next, ClientStep
<1>3. CASE LoginStep \/ RunEncoder \/ PullDone
  BY <1>3 DEF LoginStep, RunEncoder, PullDone, Next
<1> QED BY <1>1, <1>2, <1>3 DEF PullNext

\* What an encoder prints: the units of the file in their order, all of them or the
\* first m and then a message.
LEMMA PrintsForm ==
  ASSUME NEW c \in 1..3, NEW x \in Prints(c)
  PROVE  /\ Len(x) \in Nat
         /\ \/ x = Encoding(c)
            \/ \E m \in 0..Size : /\ Len(x) = m + 1 /\ x[m + 1] = "text"
                                  /\ \A i \in 1..m : x[i] = Encoding(c)[i]
<1>1. Encoding(c) \in Seq(STRING) /\ Len(Encoding(c)) = Size /\ Size \in Nat
  BY DEF Encoding, Size
<1>2. CASE x = Encoding(c)
  BY <1>1, <1>2
<1>3. CASE x = <<"text">>
  <2>1. Len(x) = 0 + 1 /\ x[0 + 1] = "text" /\ \A i \in 1..0 : x[i] = Encoding(c)[i]
    BY <1>3
  <2> QED BY <1>1, <2>1
<1>4. ASSUME NEW m \in 1..(Size - 1), x = Append(SubSeq(Encoding(c), 1, m), "text")
      PROVE  /\ Len(x) \in Nat
             /\ \E n \in 0..Size : /\ Len(x) = n + 1 /\ x[n + 1] = "text"
                                   /\ \A i \in 1..n : x[i] = Encoding(c)[i]
  <2> DEFINE s == SubSeq(Encoding(c), 1, m)
  <2>1. s \in Seq(STRING) /\ Len(s) = m /\ \A i \in 1..m : s[i] = Encoding(c)[i]
    BY <1>1, SubSeqProperties
  <2> HIDE DEF s
  <2>2. Len(x) = m + 1 /\ x[m + 1] = "text" /\ \A i \in 1..m : x[i] = s[i]
    <3>1. s \in Seq(STRING \cup {"text"}) /\ "text" \in STRING \cup {"text"}
      BY <2>1, SeqMonotonic
    <3>2. x = Append(s, "text")
      BY <1>4 DEF s
    <3> QED BY <2>1, <3>1, <3>2, AppendProperties
  <2>3. m \in 0..Size /\ \A i \in 1..m : x[i] = Encoding(c)[i]
    BY <1>1, <2>1, <2>2
  <2> QED BY <2>2, <2>3
<1> QED BY <1>2, <1>3, <1>4 DEF Prints

\* The units of one encoding differ from each other, from those of the other
\* encoding and from everything else in the stream.
LEMMA UnitsDiffer ==
  ASSUME NEW c \in 1..3, NEW d \in 1..3, NEW i \in 1..Size, NEW j \in 1..Size,
         Encoding(c)[i] = Encoding(d)[j]
  PROVE  i = j /\ Encoding(c) = Encoding(d)
<1>0. /\ Base64[i] # Hex[j] /\ Base64[j] # Hex[i]
      /\ Base64[i] = Base64[j] => i = j
      /\ Hex[i] = Hex[j] => i = j
  BY PullAssumption
<1>1. CASE c = 1 /\ d = 1
  BY <1>0, <1>1 DEF Encoding
<1>2. CASE c # 1 /\ d # 1
  BY <1>0, <1>2 DEF Encoding
<1>3. CASE (c = 1 /\ d # 1) \/ (c # 1 /\ d = 1)
  BY <1>0, <1>3 DEF Encoding
<1> QED BY <1>1, <1>2, <1>3

LEMMA UnitsAreNoOthers ==
  ASSUME NEW c \in 1..3, NEW i \in 1..Size
  PROVE  Encoding(c)[i] \notin Others
BY DEF Encoding

\* No output of an encoder looks like a prompt.
LEMMA PrintsQuiet ==
  ASSUME NEW c \in 1..3, NEW x \in Prints(c)
  PROVE  ~Contains(x, "hash")
<1>1. CASE x = Encoding(c)
  <2>1. Len(Encoding(c)) = Size
    BY DEF Encoding, Size
  <2> QED BY <1>1, <2>1, UnitsAreNoOthers DEF Contains, Others
<1>2. ASSUME NEW m \in 0..Size, Len(x) = m + 1, x[m + 1] = "text",
             \A i \in 1..m : x[i] = Encoding(c)[i]
      PROVE  ~Contains(x, "hash")
  <2> SUFFICES ASSUME NEW i \in 1..Len(x), x[i] = "hash" PROVE FALSE
    BY DEF Contains
  <2>1. Size \in Nat
    BY DEF Size
  <2>2. i \in 1..m /\ i \in 1..Size
    BY <1>2, <2>1
  <2> QED BY <1>2, <2>2, UnitsAreNoOthers DEF Others
<1> QED BY <1>1, <1>2, PrintsForm

\* What the decoders make of a unit, and of an answer.
LEMMA UnitOfIs ==
  ASSUME NEW c \in 1..3, NEW t
  PROVE  /\ Known(c, t) => UnitOf(c, t) \in 1..Size /\ Encoding(c)[UnitOf(c, t)] = t
         /\ ~Known(c, t) => UnitOf(c, t) = Wrong
         /\ UnitOf(c, t) \in 0..Wrong
<1>1. Size \in Nat /\ Wrong = Size + 1
  BY DEF Size, Wrong
<1>2. CASE Known(c, t)
  <2>1. PICK n \in 1..Size : Encoding(c)[n] = t
    BY <1>2 DEF Known
  <2>2. UnitOf(c, t) = CHOOSE m \in 1..Size : Encoding(c)[m] = t
    BY <1>2 DEF UnitOf
  <2>3. UnitOf(c, t) \in 1..Size /\ Encoding(c)[UnitOf(c, t)] = t
    BY <2>1, <2>2
  <2> QED BY <1>1, <1>2, <2>3
<1>3. CASE ~Known(c, t)
  <2>1. UnitOf(c, t) = Wrong
    BY <1>3 DEF UnitOf
  <2> QED BY <1>1, <1>3, <2>1
<1> QED BY <1>2, <1>3

\* stripPrompt returns what was before the last line with a prompt, or all.
LEMMA Stripped ==
  ASSUME NEW s, s \in Seq(Names)
  PROVE  /\ StripPrompt(s) \in Seq(Names) /\ Len(StripPrompt(s)) \in Nat
         /\ \/ StripPrompt(s) = s
            \/ /\ Len(StripPrompt(s)) < Len(s) /\ s[Len(StripPrompt(s)) + 1] = "sign"
               /\ \A i \in 1..Len(StripPrompt(s)) : StripPrompt(s)[i] = s[i]
<1>1. Len(s) \in Nat
  OBVIOUS
<1>2. CASE ~Contains(s, "sign")
  BY <1>1, <1>2 DEF StripPrompt
<1>3. CASE Contains(s, "sign")
  <2> DEFINE LastSign(n) == s[n] = "sign" /\ \A i \in (n + 1)..Len(s) : s[i] # "sign"
             n == CHOOSE m \in 1..Len(s) : LastSign(m)
             t == SubSeq(s, 1, n - 1)
  <2>1. n \in 1..Len(s) /\ s[n] = "sign"
    <3> SUFFICES \E m \in 1..Len(s) : LastSign(m)
      OBVIOUS
    <3> DEFINE T == {j \in 0..Len(s) : s[Len(s) - j] = "sign" /\ j < Len(s)}
    <3>1. PICK i \in 1..Len(s) : s[i] = "sign"
      BY <1>3 DEF Contains
    <3>2. Len(s) - i \in T
      <4>1. Len(s) - (Len(s) - i) = i /\ Len(s) - i \in 0..Len(s) /\ Len(s) - i < Len(s)
        BY <1>1
      <4> QED BY <3>1, <4>1
    <3>3. T \in SUBSET Nat /\ T # {}
      BY <1>1, <3>2
    <3> HIDE DEF T
    <3>4. PICK j \in T : \A b \in T : j <= b
      BY <3>3, Least
    <3> DEFINE m == Len(s) - j
    <3>5. j \in Nat /\ j < Len(s) /\ m \in 1..Len(s) /\ s[m] = "sign"
      BY <1>1, <3>4 DEF T
    <3>6. ASSUME NEW b \in (m + 1)..Len(s), s[b] = "sign" PROVE FALSE
      <4>1. Len(s) - b \in 0..Len(s) /\ Len(s) - (Len(s) - b) = b /\ Len(s) - b < j
        BY <1>1, <3>5, <3>6
      <4>2. Len(s) - b \in T
        BY <1>1, <3>5, <3>6, <4>1 DEF T
      <4>3. j <= Len(s) - b
        BY <3>4, <4>2
      <4> QED BY <1>1, <3>5, <3>6, <4>1, <4>3
    <3> QED BY <3>5, <3>6
  <2>2. StripPrompt(s) = t
    BY <1>3 DEF StripPrompt
  <2> HIDE DEF n
  <2>3. t \in Seq(Names) /\ Len(t) = n - 1 /\ \A i \in 1..(n - 1) : t[i] = s[i]
    <3>1. n - 1 \in 0..Len(s) /\ n - 1 \in Nat
      BY <1>1, <2>1
    <3> QED BY <1>1, <2>1, <3>1, SubSeqProperties
  <2> HIDE DEF t
  <2>4. Len(t) < Len(s) /\ Len(t) + 1 = n /\ Len(t) \in Nat
    BY <1>1, <2>1, <2>3
  <2> QED BY <2>1, <2>2, <2>3, <2>4
<1> QED BY <1>2, <1>3

LEMMA DecodedType ==
  ASSUME NEW c \in 1..3, NEW a, a.out \in Seq(Names)
  PROVE  Decoded(c, a) \in Contents
<1> DEFINE s == StripPrompt(a.out)
           l == Len(s)
           d == Decoded(c, a)
<1>1. l \in Nat
  BY Stripped
<1>2. d = [i \in 1..l |-> UnitOf(c, s[i])]
  BY DEF Decoded
<1> DEFINE Found == 0..Wrong
<1>3. d \in [1..l -> Found]
  BY <1>2, UnitOfIs
<1> HIDE DEF d, l, Found
<1>4. d \in Seq(Found)
  BY <1>1, <1>3, SeqDef
<1> QED BY <1>4 DEF Contents, d, Found

-----------------------------------------------------------------------------
(* The invariant of a download, and the contract of an upload *)

\* What the encoders have printed, what has been answered, and what was made of it.
PullInv ==
  /\ \A c \in DOMAIN made : made[c].out \in Prints(c)
  /\ \A c \in DOMAIN answer : answer[c].out \in Seq(Names)
  /\ Attempted => k \in DOMAIN answer
  /\ pull \in {"trying", "written", "partly", "ok", "broken", "refused"}
  /\ local \in Contents
  /\ pull \in {"written", "ok"} => Attempted /\ Decodes(k, Answer) /\ local = Decoded(k, Answer)

LEMMA PullInvInit == PullInit => PullInv
<1> SUFFICES ASSUME PullInit PROVE PullInv
  OBVIOUS
<1>1. /\ Size \in Nat /\ Wrong = Size + 1 /\ cpc = "dial" /\ made = <<>> /\ answer = <<>>
      /\ pull = "trying" /\ local = OldLocal
  BY DEF PullInit, Init, Size, Wrong
<1>2. local \in Contents
  BY <1>1 DEF OldLocal, Contents
<1> QED BY <1>1, <1>2 DEF PullInv, Attempted

LEMMA PullInvStep ==
  ASSUME SessionType, ClientInv, PullInv, NEW n \in Nat, Waiting(n),
         PullNext \/ UNCHANGED <<pullVars, sessionVars>>
  PROVE  PullInv'
<1> USE DEF pullVars, sessionVars, clientVars, shellVars, device
<1>0. k \in 0..3 /\ k \in Nat
  BY DEF SessionType
<1>1. PullStep \/ ExecuteStep \/ LoginStep \/ RunEncoder \/ PullDone \/ UNCHANGED <<pullVars, sessionVars>>
  BY DEF PullNext
<1>2. \A c \in DOMAIN made' : made'[c].out \in Prints(c)
  <2>1. CASE RunEncoder
    <3>1. PICK c \in 1..k, r \in Results : c \notin DOMAIN made /\ made' = With(made, c, r)
      BY <2>1, CommandAdds DEF RunEncoder
    <3>2. DOMAIN made' = DOMAIN made \cup {c} /\ \A d \in DOMAIN made : made'[d] = made[d]
      BY <3>1 DEF With
    <3>3. made'[c].out \in Prints(c)
      BY <2>1, <3>1, <3>2 DEF RunEncoder
    <3> QED BY <3>2, <3>3 DEF PullInv
  <2>2. CASE ~RunEncoder
    <3>1. made' = made
      BY <1>1, <2>2 DEF PullStep, CannotBegin, TryEncoder, NoEncoder, WriteLocal, Return, ExecuteStep,
         LoginStep, PullDone, Begin, ReadWelcome, Fill, SkipUnit, ReadPlain, TimeOut, LogIn, RunStray
    <3> QED BY <3>1 DEF PullInv
  <2> QED BY <2>1, <2>2
<1>3. CASE ExecuteStep
  <2>1. PICK a : (answer' = answer \/ answer' = With(answer, k, a)) /\ a.out \in Seq(Names)
    <3> DEFINE f == [out |-> <<>>, status |-> "error"]
    <3>1. f.out \in Seq(Names)
      BY EmptySeq
    <3>2. CASE ReadPlain
      <4>1. answer' = answer \/ answer' = With(answer, k, [out |-> reply, status |-> "zero"])
        BY <3>2 DEF ReadPlain
      <4>2. reply \in Seq(Names)
        BY DEF SessionType
      <4> QED BY <4>1, <4>2
    <3>3. CASE TimeOut
      <4>1. answer' = With(answer, k, f)
        BY <3>3 DEF TimeOut, Failed
      <4> HIDE DEF f
      <4> QED BY <3>1, <4>1
    <3>4. CASE ReadWelcome \/ Fill \/ SkipUnit
      <4>1. answer' = answer
        BY <3>4 DEF ReadWelcome, Fill, SkipUnit
      <4> HIDE DEF f
      <4> QED BY <3>1, <4>1
    <3> QED BY <1>3, <3>2, <3>3, <3>4 DEF ExecuteStep
  <2>2. \A c \in DOMAIN answer' : answer'[c].out \in Seq(Names)
    BY <2>1 DEF With, PullInv
  <2>3. Attempted' => k' \in DOMAIN answer'
    <3>1. CASE ReadPlain \/ TimeOut
      BY <3>1 DEF ReadPlain, TimeOut, With, Attempted
    <3>2. CASE ReadWelcome
      BY <3>2 DEF ReadWelcome, ClientInv, Attempted
    <3>3. CASE Fill \/ SkipUnit
      BY <3>3 DEF Fill, SkipUnit, Attempted
    <3> QED BY <1>3, <3>1, <3>2, <3>3 DEF ExecuteStep
  <2>4. cpc # "idle" /\ pull' = pull /\ local' = local
    BY <1>3 DEF ExecuteStep, ReadWelcome, Fill, SkipUnit, ReadPlain, TimeOut
  <2> QED BY <1>2, <2>2, <2>3, <2>4 DEF PullInv, Attempted
<1>4. CASE RunEncoder \/ LoginStep
  <2>1. pull = "trying" /\ UNCHANGED <<pull, local, cpc, k, answer>>
    BY <1>4 DEF RunEncoder, LoginStep, RunCommand, LogIn, RunStray
  <2> QED BY <1>2, <2>1 DEF PullInv, Attempted
<1>5. CASE PullStep
  <2>1. CASE CannotBegin \/ NoEncoder
    BY <1>2, <2>1 DEF CannotBegin, NoEncoder, PullInv, Attempted
  <2>2. CASE TryEncoder
    <3>1. UNCHANGED <<pull, local, answer>> /\ cpc' # "idle" /\ pull = "trying"
      BY <2>2 DEF TryEncoder, Begin
    <3> QED BY <1>2, <3>1 DEF PullInv, Attempted
  <2>3. CASE WriteLocal
    <3> DEFINE data == Decoded(k, Answer)
    <3>1. Attempted /\ Decodes(k, Answer) /\ k \in DOMAIN answer /\ k \in 1..3
          /\ UNCHANGED <<cpc, k, answer>>
      BY <1>0, <2>3 DEF WriteLocal, PullInv, Attempted
    <3>2. data \in Contents
      <4>1. Answer.out \in Seq(Names)
        BY <3>1 DEF PullInv, Answer
      <4> QED BY <3>1, <4>1, DecodedType
    <3>3. Attempted' /\ Decodes(k, Answer)' /\ data' = data
      BY <3>1 DEF Attempted, Answer, Decodes, Decoded
    <3> HIDE DEF data
    <3>4. \A m \in 0..Len(data) : SubSeq(data, 1, m) \in Contents
      <4> DEFINE Found == 0..Wrong
      <4>1. data \in Seq(Found)
        BY <3>2 DEF Contents
      <4> HIDE DEF Found
      <4>2. \A m \in 0..Len(data) : SubSeq(data, 1, m) \in Seq(Found)
        BY <4>1, SubSeqProperties
      <4> QED BY <4>2 DEF Contents, Found
    <3>5. /\ local' \in Contents /\ pull' \in {"written", "partly"}
          /\ pull' = "written" => local' = data
      <4>1. \/ local' = data /\ pull' = "written"
            \/ /\ local' \in {local} \cup {SubSeq(data, 1, m) : m \in 0..Len(data)}
               /\ pull' = "partly"
        BY <2>3 DEF WriteLocal, data
      <4>2. local \in Contents
        BY DEF PullInv
      <4>3. CASE local' = data /\ pull' = "written"
        BY <3>2, <4>3
      <4>4. CASE local' = local /\ pull' = "partly"
        BY <4>2, <4>4
      <4>5. ASSUME NEW m \in 0..Len(data), local' = SubSeq(data, 1, m), pull' = "partly"
            PROVE  local' \in Contents
        BY <3>4, <4>5
      <4> QED BY <4>1, <4>3, <4>4, <4>5
    <3>6. /\ \A c \in DOMAIN answer' : answer'[c].out \in Seq(Names)
          /\ Attempted' => k' \in DOMAIN answer'
      BY <3>1 DEF PullInv, Attempted
    <3> QED BY <1>2, <3>3, <3>5, <3>6 DEF PullInv, data
  <2>4. CASE Return
    <3>1. UNCHANGED <<cpc, k, answer, local>>
      BY <2>4 DEF Return
    <3>2. (pull = "written" /\ pull' = "ok") \/ pull' = "broken"
      BY <2>4 DEF Return
    <3> QED BY <1>2, <3>1, <3>2 DEF PullInv, Attempted, Answer, Decodes, Decoded
  <2> QED BY <1>5, <2>1, <2>2, <2>3, <2>4 DEF PullStep
<1>6. CASE PullDone \/ UNCHANGED <<pullVars, sessionVars>>
  <2>1. UNCHANGED <<cpc, k, answer, pull, local>>
    BY <1>6 DEF PullDone
  <2> QED BY <1>2, <2>1 DEF PullInv, Attempted, Answer, Decodes, Decoded
<1> QED BY <1>1, <1>3, <1>4, <1>5, <1>6

\* The invariants together: of the session and of the download.
PullAll == AllInv /\ PullInv

LEMMA PullAllInit == PullInit => PullAll
BY InitAllInv, PullInvInit DEF PullAll, PullInit

LEMMA PullAllStep ==
  ASSUME PullAll, PullNext \/ UNCHANGED <<pullVars, sessionVars>>
  PROVE  PullAll'
<1>1. [Next]_vars
  BY PullSteps DEF vars, sessionVars
<1>2. AllInv'
  BY <1>1, NextAllInv DEF PullAll
<1>3. PICK n \in Nat : Waiting(n)
  BY DEF PullAll, AllInv, IInv
<1>4. PullInv'
  BY <1>3, PullInvStep DEF PullAll, AllInv, IInv
<1> QED BY <1>2, <1>4 DEF PullAll

LEMMA PullInvariance == PullSpec => []PullAll
BY PullAllInit, PullAllStep, PTL DEF PullSpec

\* PullTypeOK: the kinds of the variables of pullPrintf and of its session.
THEOREM PullTypes == PullSpec => []PullTypeOK
<1>1. PullAll => PullTypeOK
  BY InvTypes DEF PullAll, AllInv, PullInv, PullTypeOK
<1> QED BY <1>1, PullInvariance, PTL

\* ImplementsUpload: PullViaPrintf does not touch the local file before it has an
\* answer that decodes, and tries no other encoder once it has.
THEOREM PullImplementsUpload == PullSpec => ImplementsUpload
<1> USE DEF U!uploadVars, U!UploadNext, outcome
<1>1. PullInit => U!UploadInit
  BY PullInvInit DEF PullInit, U!UploadInit, PullInv
<1>2. ASSUME PullAll, PullAll', PullNext \/ UNCHANGED <<pullVars, sessionVars>>
      PROVE  [U!UploadNext]_(U!uploadVars)
  <2>1. local \in Contents /\ local' \in Contents
    BY <1>2 DEF PullAll, PullInv
  <2>2. CASE UNCHANGED pullVars
    BY <2>2 DEF pullVars
  <2>3. CASE CannotBegin \/ NoEncoder
    BY <2>3 DEF CannotBegin, NoEncoder, U!ReportRefused
  <2>4. CASE WriteLocal
    <3>1. pull = "trying" /\ pull' \in {"written", "partly"}
      BY <2>4 DEF WriteLocal
    <3> QED BY <2>1, <3>1 DEF U!StartWriting
  <2>5. CASE Return
    BY <2>1, <2>5 DEF Return, U!ReportOK, U!ReportBroken
  <2> QED BY <1>2, <2>2, <2>3, <2>4, <2>5
          DEF PullNext, PullStep, TryEncoder, ExecuteStep, LoginStep, RunEncoder, PullDone, pullVars
<1> QED BY <1>1, <1>2, PullInvariance, PTL DEF PullSpec, ImplementsUpload, U!UploadSpec

-----------------------------------------------------------------------------
(* Without a timeout: the file *)

\* A known unit is no message and no prompt, and has one place in the file.
LEMMA KnownUnits ==
  ASSUME NEW c \in 1..3, NEW t, Known(c, t)
  PROVE  t \notin Others
BY UnitsAreNoOthers DEF Known

LEMMA UnitOfUnit ==
  ASSUME NEW c \in 1..3, NEW i \in 1..Size
  PROVE  Known(c, Encoding(c)[i]) /\ UnitOf(c, Encoding(c)[i]) = i
<1> DEFINE t == Encoding(c)[i]
<1>1. Known(c, t)
  BY DEF Known
<1>2. UnitOf(c, t) \in 1..Size /\ Encoding(c)[UnitOf(c, t)] = t
  BY <1>1, UnitOfIs
<1>3. UnitOf(c, t) = i
  BY <1>2, UnitsDiffer
<1> QED BY <1>1, <1>3

\* An encoder prints no line that stripPrompt takes for a prompt.
LEMMA PrintsUnstripped ==
  ASSUME NEW c \in 1..3, NEW x \in Prints(c)
  PROVE  StripPrompt(x) = x
<1>1. CASE x = Encoding(c)
  <2>1. Len(Encoding(c)) = Size
    BY DEF Encoding, Size
  <2>2. ~Contains(x, "sign")
    BY <1>1, <2>1, UnitsAreNoOthers DEF Contains, Others
  <2> QED BY <2>2 DEF StripPrompt
<1>2. ASSUME NEW m \in 0..Size, Len(x) = m + 1, x[m + 1] = "text",
             \A i \in 1..m : x[i] = Encoding(c)[i]
      PROVE  StripPrompt(x) = x
  <2>1. Size \in Nat
    BY DEF Size
  <2>2. ASSUME NEW i \in 1..Len(x), x[i] = "sign" PROVE FALSE
    <3>1. i \in 1..m /\ i \in 1..Size
      BY <1>2, <2>1, <2>2
    <3> QED BY <1>2, <2>2, <3>1, UnitsAreNoOthers DEF Others
  <2>3. ~Contains(x, "sign")
    BY <2>2 DEF Contains
  <2> QED BY <2>3 DEF StripPrompt
<1> QED BY <1>1, <1>2, PrintsForm

\* No decoder accepts a message.
LEMMA TextIsRefused ==
  ASSUME NEW c \in 1..3, NEW t \in Others
  PROVE  ~Known(c, t) /\ ~Misread(c, t)
<1>1. ~Known(c, t)
  BY KnownUnits
<1>2. ~Misread(c, t)
  <2> SUFFICES ASSUME NEW n \in HexLike, Base64[n] = t PROVE FALSE
    BY DEF Misread
  <2>1. n \in 1..Size
    OBVIOUS
  <2>2. Base64[n] \notin Others
    BY <2>1
  <2> QED BY <2>2
<1> QED BY <1>1, <1>2

\* What an encoder has printed is the file, if it decodes.
LEMMA OutputIsFile ==
  ASSUME NEW c \in 1..3, NEW a, a.out \in Prints(c), Decodes(c, a)
  PROVE  Decoded(c, a) = File
<1>0. StripPrompt(a.out) = a.out
  BY PrintsUnstripped
<1>1. CASE a.out = Encoding(c)
  <2>1. Len(a.out) = Size
    BY <1>1 DEF Encoding, Size
  <2>2. \A i \in 1..Size : UnitOf(c, a.out[i]) = i
    BY <1>1, UnitOfUnit
  <2> QED BY <1>0, <2>1, <2>2 DEF Decoded, File
<1>2. ASSUME NEW m \in 0..Size, Len(a.out) = m + 1, a.out[m + 1] = "text" PROVE FALSE
  <2>1. m + 1 \in 1..Len(a.out)
    BY <1>2 DEF Size
  <2>2. Known(c, "text") \/ Misread(c, "text")
    <3>1. \A i \in 1..Len(a.out) : Known(c, a.out[i]) \/ Misread(c, a.out[i])
      BY <1>0 DEF Decodes
    <3>2. Known(c, a.out[m + 1]) \/ Misread(c, a.out[m + 1])
      BY <2>1, <3>1
    <3> QED BY <1>2, <3>2
  <2> QED BY <2>2, TextIsRefused DEF Others
<1> QED BY <1>1, <1>2, PrintsForm

LEMMA OwnOutput ==
  ASSUME PullAll, timeouts = 0, greeting = <<>>, NEW c \in DOMAIN answer
  PROVE  c \in DOMAIN made /\ c \in 1..3 /\ answer[c].out = made[c].out
<1>1. DOMAIN made \subseteq 1..3
  <2>1. PICK m \in 0..k : DOMAIN made = 1..m
    BY WaitingCommands DEF PullAll, AllInv
  <2>2. k \in 0..3
    BY DEF PullAll, AllInv, IInv, SessionType
  <2> QED BY <2>1, <2>2
<1>2. Smooth
  BY <1>1, PrintsQuiet DEF Smooth, PullAll, PullInv
<1>3. AnswersPage /\ ExactPage
  BY <1>2 DEF PullAll, AllInv, PageInv, Pages, OnlyPlain
<1> QED BY <1>1, <1>3 DEF AnswersPage, ExactPage

\* PlainOwnOutput: as long as no encoder has timed out, on a device without a
\* greeting, Execute returns for each of them what this very one has printed.
THEOREM PullOwnOutput == PullSpec => []PlainOwnOutput
<1>1. PullAll => PlainOwnOutput
  BY OwnOutput DEF PlainOwnOutput, Answered
<1> QED BY <1>1, PullInvariance, PTL

\* AnsweredIsWhole: without a timeout, on a device without a greeting, a download
\* that pullPrintf reports as complete is the file.
THEOREM PullAnsweredIsWhole == PullSpec => []AnsweredIsWhole
<1>1. PullAll => AnsweredIsWhole
  <2> SUFFICES ASSUME PullAll, pull = "ok", timeouts = 0, greeting = <<>>
               PROVE  local = File
    BY DEF AnsweredIsWhole
  <2>1. Attempted /\ Decodes(k, Answer) /\ local = Decoded(k, Answer) /\ k \in DOMAIN answer
    BY DEF PullAll, PullInv
  <2>2. k \in DOMAIN made /\ k \in 1..3 /\ Answer.out = made[k].out
    BY <2>1, OwnOutput DEF Answer
  <2>3. Answer.out \in Prints(k)
    BY <2>2 DEF PullAll, PullInv
  <2> QED BY <2>1, <2>2, <2>3, OutputIsFile
<1> QED BY <1>1, PullInvariance, PTL

-----------------------------------------------------------------------------
(* With timeouts: a tail of the file *)

\* What may follow unit n of an encoding, in the stream as well as in an answer.
Follows(c, n, t) ==
  \/ t = "text"
  \/ n < Size /\ t = Encoding(c)[n + 1]
  \/ n = Size /\ t = "prompt"

\* In the stream no encoding breaks off: there is always what follows a unit.
Flows(s) ==
  \A i \in 1..Len(s) : \A c \in 1..3 : \A n \in 1..Size :
    s[i].tok = Encoding(c)[n] => i < Len(s) /\ Follows(c, n, s[i + 1].tok)

\* So it is in a sequence of collected units, but for its last one.
Linked(s) ==
  \A i \in 1..Len(s) : \A c \in 1..3 : \A n \in 1..Size :
    s[i] = Encoding(c)[n] /\ i < Len(s) => Follows(c, n, s[i + 1])

\* A reply goes on in the stream, an answer ends with the last unit of the file.
FlowInv ==
  /\ Flows(stream)
  /\ cpc = "skip" => reply = <<>>
  /\ cpc = "plain" =>
       /\ Linked(reply)
       /\ \A c \in 1..3 : \A n \in 1..Size :
            Len(reply) > 0 /\ reply[Len(reply)] = Encoding(c)[n] =>
              Len(stream) > 0 /\ Follows(c, n, stream[1].tok)
  /\ \A d \in DOMAIN answer :
       /\ Linked(answer[d].out)
       /\ \A c \in 1..3 : \A n \in 1..Size :
            Len(answer[d].out) > 0 /\ answer[d].out[Len(answer[d].out)] = Encoding(c)[n] => n = Size

\* What the login program, the shell and the editor of lines print is no encoding.
OtherUnits(x) == x \in Seq(Units) /\ \A i \in 1..Len(x) : x[i].tok \in Others

LEMMA OthersFlow ==
  ASSUME NEW x, OtherUnits(x)
  PROVE  Flows(x)
BY UnitsAreNoOthers DEF OtherUnits, Flows

LEMMA OtherTokens ==
  ASSUME NEW s \in Seq(Names), \A i \in 1..Len(s) : s[i] \in Others
  PROVE  OtherUnits(Tokens(s))
<1>1. /\ Tokens(s) \in Seq(Units) /\ Len(Tokens(s)) = Len(s)
      /\ \A i \in 1..Len(s) : Tokens(s)[i] = Token(s[i])
  BY TokensAreUnits
<1>2. \A t : Token(t).tok = t
  BY DEF Token
<1> QED BY <1>1, <1>2 DEF OtherUnits

LEMMA OtherJoined ==
  ASSUME NEW x, NEW y, OtherUnits(x), OtherUnits(y)
  PROVE  OtherUnits(x \o y)
<1>1. x \in Seq(Units) /\ y \in Seq(Units)
  BY DEF OtherUnits
<1>2. x \o y \in Seq(Units) /\ Splits(x \o y, x, y)
  BY <1>1, Joined
<1> DEFINE z == x \o y
<1> HIDE DEF z
<1>3. \A i \in 1..Len(z) : z[i].tok \in Others
  <2> TAKE i \in 1..Len(z)
  <2>1. CASE i \in 1..Len(x)
    BY <1>2, <2>1 DEF Splits, OtherUnits, z
  <2>2. ASSUME NEW j \in 1..Len(y), i = Len(x) + j PROVE z[i].tok \in Others
    BY <1>2, <2>2 DEF Splits, OtherUnits, z
  <2> QED BY <1>2, <2>1, <2>2 DEF Splits, z
<1> QED BY <1>2, <1>3 DEF OtherUnits, z

LEMMA OtherQuery ==
  ASSUME NEW a \in BOOLEAN
  PROVE  OtherUnits(Query(a))
<1> DEFINE s == <<"esc", "csi">>
<1>1. s \in Seq(Names) /\ Len(s) = 2 /\ s[1] = "esc" /\ s[2] = "csi"
  BY DEF Names
<1> HIDE DEF s
<1>2. OtherUnits(Tokens(s))
  BY <1>1, OtherTokens DEF Others
<1>3. <<>> \in Seq(Units) /\ \A i \in 1..Len(<<>>) : FALSE
  BY EmptySeq
<1> QED BY <1>2, <1>3 DEF Query, s, OtherUnits

LEMMA OtherLogin ==
  ASSUME SessionType, LogIn \/ RunStray
  PROVE  \E x : OtherUnits(x) /\ wire' = wire \o x
<1>0. wire \in Seq(Units) /\ asks \in BOOLEAN /\ greeting \in Greetings /\ OtherUnits(Query(asks))
  BY OtherQuery DEF SessionType
<1>1. CASE RunStray
  <2> DEFINE s == <<"echo", "out", "prompt">>
  <2>1. s \in Seq(Names) /\ Len(s) = 3 /\ s[1] = "echo" /\ s[2] = "out" /\ s[3] = "prompt"
    BY DEF Names
  <2>2. Stray(asks) = Tokens(s) \o Query(asks)
    BY DEF Stray
  <2> HIDE DEF s
  <2>3. OtherUnits(Tokens(s))
    BY <2>1, OtherTokens DEF Others
  <2>4. OtherUnits(Stray(asks))
    BY <1>0, <2>2, <2>3, OtherJoined
  <2> QED BY <1>1, <2>4, StrayPrints
<1>2. CASE LogIn /\ gate' = "password" /\ wire' = wire \o Tokens(<<"echo", "password">>)
  <2> DEFINE s == <<"echo", "password">>
  <2>1. s \in Seq(Names) /\ Len(s) = 2 /\ s[1] = "echo" /\ s[2] = "password"
    BY DEF Names
  <2>2. wire' = wire \o Tokens(s)
    BY <1>2
  <2> HIDE DEF s
  <2>3. OtherUnits(Tokens(s))
    BY <2>1, OtherTokens DEF Others
  <2> QED BY <2>2, <2>3
<1>3. CASE LogIn /\ gate' = "login" /\ wire' = Append(wire, Token("login"))
  <2> DEFINE s == <<"login">>
  <2>1. s \in Seq(Names) /\ Len(s) = 1 /\ s[1] = "login"
    BY DEF Names
  <2> HIDE DEF s
  <2>2. OtherUnits(Tokens(s))
    BY <2>1, OtherTokens DEF Others
  <2>3. Tokens(s) \in Seq(Units) /\ Len(Tokens(s)) = 1 /\ Tokens(s)[1] = Token("login")
    BY <2>1, TokensAreUnits
  <2>4. Tokens(s) = <<Token("login")>> /\ Token("login") \in Units
    <3>1. Token("login") \in Units
      BY DEF Token, Units, Names, Statuses
    <3> QED BY <2>3, <3>1
  <2>5. Append(wire, Token("login")) = wire \o Tokens(s)
    BY <1>0, <2>4, AppendIsConcat
  <2> QED BY <1>3, <2>2, <2>5
<1>4. CASE LogIn /\ gate' = "shell" /\ wire' = wire \o Tokens(Append(greeting, "prompt")) \o Query(asks)
  <2> DEFINE s == Append(greeting, "prompt")
             l == Len(greeting)
  <2>1. greeting \in Seq(Names) /\ l \in Nat /\ \A i \in 1..l : greeting[i] \in Others
    <3>1. greeting \in Seq(STRING)
      BY <1>0
    <3> QED BY <1>0, <3>1, SeqMonotonic DEF Names
  <2>2. s \in Seq(Names) /\ Len(s) = l + 1 /\ s[l + 1] = "prompt" /\ \A i \in 1..l : s[i] = greeting[i]
    BY <2>1, AppendProperties DEF Names
  <2>3. wire' = (wire \o Tokens(s)) \o Query(asks)
    BY <1>4
  <2> HIDE DEF s, l
  <2>4. \A i \in 1..Len(s) : s[i] \in Others
    <3> TAKE i \in 1..Len(s)
    <3>1. i = l + 1 \/ i \in 1..l
      BY <2>1, <2>2
    <3> QED BY <2>1, <2>2, <3>1 DEF Others
  <2>5. OtherUnits(Tokens(s))
    BY <2>2, <2>4, OtherTokens
  <2>6. OtherUnits(Tokens(s) \o Query(asks))
    BY <1>0, <2>5, OtherJoined
  <2>7. wire' = wire \o (Tokens(s) \o Query(asks))
    <3> DEFINE t == Tokens(s)
               q == Query(asks)
    <3>1. wire \in Seq(Units) /\ t \in Seq(Units) /\ q \in Seq(Units)
      BY <1>0, <2>5 DEF OtherUnits
    <3>2. wire' = (wire \o t) \o q
      BY <2>3
    <3> HIDE DEF t, q
    <3>3. (wire \o t) \o q = wire \o (t \o q)
      BY <3>1, ConcatAssociative
    <3>4. wire' = wire \o (t \o q)
      BY <3>2, <3>3
    <3> QED BY <3>4 DEF t, q
  <2> QED BY <2>6, <2>7
<1> QED BY <1>1, <1>2, <1>3, <1>4 DEF LogIn

\* The output of an encoder breaks off with a message only.
LEMMA OutputFollows ==
  ASSUME NEW c \in 1..3, NEW x \in Prints(c), NEW j \in 1..Len(x),
         NEW d \in 1..3, NEW n \in 1..Size, x[j] = Encoding(d)[n]
  PROVE  /\ j < Len(x) => Follows(d, n, x[j + 1])
         /\ j = Len(x) => n = Size
<1>0. Size \in Nat /\ Len(Encoding(c)) = Size
  BY DEF Size, Encoding
<1>1. CASE x = Encoding(c)
  <2>1. j = n /\ Encoding(c) = Encoding(d)
    BY <1>0, <1>1, UnitsDiffer
  <2> QED BY <1>0, <1>1, <2>1 DEF Follows
<1>2. ASSUME NEW m \in 0..Size, Len(x) = m + 1, x[m + 1] = "text",
             \A i \in 1..m : x[i] = Encoding(c)[i]
      PROVE  /\ j < Len(x) => Follows(d, n, x[j + 1])
             /\ j = Len(x) => n = Size
  <2>1. j # m + 1
    BY <1>2, UnitsAreNoOthers DEF Others
  <2>2. j \in 1..m /\ j \in 1..Size /\ j + 1 \in 1..(m + 1)
    BY <1>0, <1>2, <2>1
  <2>3. j = n /\ Encoding(c) = Encoding(d)
    <3>1. Encoding(c)[j] = Encoding(d)[n]
      BY <1>2, <2>2
    <3> HIDE SessionAssumption, PullAssumption
    <3> QED BY <2>2, <3>1, UnitsDiffer
  <2>4. CASE j = m
    BY <1>2, <2>4 DEF Follows
  <2>5. CASE j # m
    <3>1. j + 1 \in 1..m /\ n < Size
      BY <1>0, <2>2, <2>3, <2>5
    <3>2. x[j + 1] = Encoding(d)[n + 1]
      BY <1>2, <2>3, <3>1
    <3> QED BY <1>2, <2>2, <3>1, <3>2 DEF Follows
  <2> QED BY <1>2, <2>2, <2>4, <2>5
<1>3. \/ x = Encoding(c)
      \/ \E m \in 0..Size : /\ Len(x) = m + 1 /\ x[m + 1] = "text"
                            /\ \A i \in 1..m : x[i] = Encoding(c)[i]
  <2> HIDE SessionAssumption, PullAssumption
  <2> QED BY PrintsForm
<1>4. CASE x # Encoding(c)
  <2>1. PICK m \in 0..Size : /\ Len(x) = m + 1 /\ x[m + 1] = "text"
                            /\ \A i \in 1..m : x[i] = Encoding(c)[i]
    BY <1>3, <1>4, Zenon
  <2> QED BY <1>2, <2>1
<1> QED BY <1>1, <1>4

LEMMA PrintedFlows ==
  ASSUME NEW c \in 1..3, NEW r \in Results, r.out \in Prints(c), NEW a \in BOOLEAN
  PROVE  Printed(c, "plain", r, a) \in Seq(Units) /\ Flows(Printed(c, "plain", r, a))
<1> DEFINE x == Printed(c, "plain", r, a)
           o == Len(r.out)
           q == Len(Query(a))
<1>1. Page(x, c, "plain", r, a)
  <2>1. c \in Nat /\ "plain" \in Kinds
    OBVIOUS
  <2> HIDE SessionAssumption, PullAssumption
  <2> QED BY <2>1, PrintedIsPage
<1>2. o \in Nat /\ q \in Nat /\ OtherUnits(Query(a))
  BY ResultType, QueryUnits, OtherQuery
<1> HIDE DEF x
<1>3. /\ x \in Seq(Units) /\ Len(x) = 3 + o + q
      /\ x[1] = Token("echo") /\ x[2] = Token("echo")
      /\ \A i \in 1..o : x[2 + i] = Token(r.out[i])
      /\ x[3 + o] = Token("prompt")
      /\ \A i \in 1..q : x[3 + o + i] = Query(a)[i]
  <2>1. Frames("plain") = 0 /\ EchoLen = 2 /\ 2 + 0 = 2 /\ 2 * 0 = 0 /\ 2 + o + 0 + 1 = 3 + o
    BY <1>2 DEF Frames, EchoLen
  <2>2. /\ x \in Seq(Units) /\ Len(x) = 2 + o + 2 * 0 + 1 + q
        /\ \A i \in 1..2 : x[i] = Token("echo")
        /\ \A i \in 1..o : x[2 + 0 + i] = Token(r.out[i])
        /\ x[2 + o + 2 * 0 + 1] = Token("prompt")
        /\ \A i \in 1..q : x[2 + o + 2 * 0 + 1 + i] = Query(a)[i]
    BY <1>1, <2>1 DEF Page
  <2> HIDE DEF o, q
  <2> QED BY <1>2, <2>1, <2>2
<1>4. \A t : Token(t).tok = t
  BY DEF Token
<1>5. ASSUME NEW i \in 1..Len(x), NEW d \in 1..3, NEW n \in 1..Size, x[i].tok = Encoding(d)[n]
      PROVE  i < Len(x) /\ Follows(d, n, x[i + 1].tok)
  <2> HIDE DEF o, q
  <2>1. Encoding(d)[n] \notin Others
    BY UnitsAreNoOthers
  <2>2. i # 1 /\ i # 2 /\ i # 3 + o
    BY <1>3, <1>4, <1>5, <2>1 DEF Others
  <2>3. i <= 3 + o
    <3> SUFFICES ASSUME i > 3 + o PROVE FALSE
      BY <1>2
    <3>1. i - (3 + o) \in 1..q /\ 3 + o + (i - (3 + o)) = i
      BY <1>2, <1>3
    <3>2. x[i] = Query(a)[i - (3 + o)]
      BY <1>3, <3>1
    <3>3. x[i].tok \in Others
      BY <1>2, <3>1, <3>2 DEF OtherUnits, q
    <3> QED BY <1>5, <2>1, <3>3
  <2> DEFINE j == i - 2
  <2>4. j \in 1..o /\ 2 + j = i /\ i < Len(x)
    BY <1>2, <1>3, <2>2, <2>3
  <2> HIDE DEF j
  <2>5. r.out[j] = Encoding(d)[n]
    BY <1>3, <1>4, <1>5, <2>4
  <2>6. j < Len(r.out) => Follows(d, n, r.out[j + 1])
    BY <2>4, <2>5, OutputFollows DEF o
  <2>7. j = Len(r.out) => n = Size
    BY <2>4, <2>5, OutputFollows DEF o
  <2>8. CASE j = o
    <3>1. x[i + 1] = Token("prompt")
      <4>1. i + 1 = 3 + o
        BY <1>2, <2>4, <2>8
      <4> QED BY <1>3, <4>1
    <3>2. n = Size
      BY <2>7, <2>8 DEF o
    <3> QED BY <1>4, <2>4, <3>1, <3>2 DEF Follows
  <2>9. CASE j # o
    <3>1. j + 1 \in 1..o /\ 2 + (j + 1) = i + 1 /\ j < o
      BY <1>2, <2>4, <2>9
    <3>2. x[i + 1].tok = r.out[j + 1]
      BY <1>3, <1>4, <3>1
    <3>3. Follows(d, n, r.out[j + 1])
      BY <2>6, <3>1 DEF o
    <3> QED BY <2>4, <3>2, <3>3
  <2> QED BY <2>8, <2>9
<1>6. Flows(x)
  BY <1>5 DEF Flows
<1> QED BY <1>3, <1>6 DEF x

\* Printing and reading keep the flow.
LEMMA FlowsOn ==
  ASSUME SessionType, NEW x \in Seq(Units), wire' = wire \o x, UNCHANGED buffered, Flows(stream), Flows(x)
  PROVE  /\ Flows(stream')
         /\ Len(stream) > 0 => Len(stream') > 0 /\ stream'[1] = stream[1]
<1> DEFINE l == Len(stream)
<1>1. /\ l \in Nat /\ Len(x) \in Nat /\ Len(stream') = l + Len(x)
      /\ \A i \in 1..l : stream'[i] = stream[i]
      /\ \A i \in 1..Len(x) : stream'[l + i] = x[i]
      /\ \A i \in 1..Len(stream') : i \in 1..l \/ \E j \in 1..Len(x) : i = l + j
  BY PrintsLast
<1> HIDE DEF l
<1>2. ASSUME NEW i \in 1..Len(stream'), NEW c \in 1..3, NEW n \in 1..Size, stream'[i].tok = Encoding(c)[n]
      PROVE  i < Len(stream') /\ Follows(c, n, stream'[i + 1].tok)
  <2>1. CASE i \in 1..l
    <3>1. i < l /\ Follows(c, n, stream[i + 1].tok)
      BY <1>1, <1>2, <2>1 DEF Flows, l
    <3>2. i + 1 \in 1..l
      BY <1>1, <2>1, <3>1
    <3> QED BY <1>1, <3>1, <3>2
  <2>2. ASSUME NEW j \in 1..Len(x), i = l + j
        PROVE  i < Len(stream') /\ Follows(c, n, stream'[i + 1].tok)
    <3>1. j < Len(x) /\ Follows(c, n, x[j + 1].tok)
      BY <1>1, <1>2, <2>2 DEF Flows
    <3>2. j + 1 \in 1..Len(x) /\ l + (j + 1) = i + 1
      BY <1>1, <2>2, <3>1
    <3> QED BY <1>1, <2>2, <3>1, <3>2
  <2> QED BY <1>1, <2>1, <2>2
<1>3. Flows(stream')
  BY <1>2 DEF Flows
<1>4. l > 0 => Len(stream') > 0 /\ stream'[1] = stream[1]
  BY <1>1
<1> QED BY <1>3, <1>4 DEF l

LEMMA FlowsLeft ==
  ASSUME NEW s, NEW t, NEW d \in Nat, LeftAfter(t, s, d), Flows(s)
  PROVE  Flows(t)
<1> SUFFICES ASSUME NEW i \in 1..Len(t), NEW c \in 1..3, NEW n \in 1..Size, t[i].tok = Encoding(c)[n]
             PROVE  i < Len(t) /\ Follows(c, n, t[i + 1].tok)
  BY DEF Flows
<1> DEFINE l == Len(s)
           m == Len(t)
<1>1. /\ l \in Nat /\ m \in Nat /\ m = l - d /\ i \in Nat /\ i >= 1 /\ i <= m
      /\ \A j \in 1..m : t[j] = s[j + d]
  BY DEF LeftAfter
<1>2. \A j \in 1..l : \A b \in 1..3 : \A u \in 1..Size :
        s[j].tok = Encoding(b)[u] => j < l /\ Follows(b, u, s[j + 1].tok)
  BY DEF Flows
<1>3. t[i] = s[i + d] /\ (i < m => t[i + 1] = s[(i + 1) + d])
  <2>1. t[i] = s[i + d]
    BY <1>1
  <2>2. ASSUME i < m PROVE t[i + 1] = s[(i + 1) + d]
    <3> HIDE DEF m, l
    <3>1. i + 1 \in 1..m
      BY <1>1, <2>2
    <3> QED BY <1>1, <3>1
  <2> QED BY <2>1, <2>2
<1> HIDE DEF l, m
<1>4. i + d \in 1..l /\ (i + d < l => i < m) /\ (i + 1) + d = (i + d) + 1
  BY <1>1
<1>5. i + d < l /\ Follows(c, n, s[(i + d) + 1].tok)
  BY <1>2, <1>3, <1>4
<1>6. i < m /\ t[i + 1] = s[(i + d) + 1]
  BY <1>3, <1>4, <1>5
<1>7. i < m /\ Follows(c, n, t[i + 1].tok)
  BY <1>5, <1>6
<1> QED BY <1>7 DEF m

LEMMA FlowInvInit == PullInit => FlowInv
<1> SUFFICES ASSUME PullInit PROVE FlowInv
  OBVIOUS
<1>1. /\ buffered = <<>> /\ cpc = "dial" /\ answer = <<>> /\ asks \in BOOLEAN
      /\ wire = <<Token("login")>> \/ wire = <<Token("prompt")>> \o Query(asks)
  BY DEF PullInit, Init
<1>2. ASSUME NEW t \in {"login", "prompt"} PROVE OtherUnits(<<Token(t)>>)
  <2>1. Token(t) \in Units /\ Token(t).tok \in Others
    BY DEF Token, Units, Names, Statuses, Others
  <2> DEFINE u == Token(t)
  <2> HIDE DEF u
  <2>2. u \in Units /\ u.tok \in Others
    BY <2>1 DEF u
  <2>3. <<u>> \in Seq(Units) /\ Len(<<u>>) = 1 /\ <<u>>[1] = u
    BY <2>2
  <2> QED BY <2>2, <2>3 DEF OtherUnits, u
<1>3. OtherUnits(wire)
  <2>1. OtherUnits(<<Token("login")>>) /\ OtherUnits(<<Token("prompt")>>)
    BY <1>2
  <2>2. OtherUnits(<<Token("prompt")>> \o Query(asks))
    BY <1>1, <2>1, OtherQuery, OtherJoined
  <2> QED BY <1>1, <2>1, <2>2
<1>4. stream = wire
  BY <1>1, <1>3, ConcatEmptySeq DEF stream, OtherUnits
<1>5. Flows(stream)
  BY <1>3, <1>4, OthersFlow
<1>6. DOMAIN answer = {}
  BY <1>1
<1> QED BY <1>1, <1>5, <1>6 DEF FlowInv

\* A unit that has been read follows what was collected before.
LEMMA Collects ==
  ASSUME SessionType, FlowInv, ReadPlain
  PROVE  /\ cpc' = "plain" =>
              /\ Linked(reply')
              /\ \A c \in 1..3 : \A n \in 1..Size :
                   Len(reply') > 0 /\ reply'[Len(reply')] = Encoding(c)[n] =>
                     Len(stream') > 0 /\ Follows(c, n, stream'[1].tok)
         /\ cpc' # "plain" =>
              /\ answer' = With(answer, k, [out |-> reply, status |-> "zero"])
              /\ \A c \in 1..3 : \A n \in 1..Size :
                   Len(reply) > 0 /\ reply[Len(reply)] = Encoding(c)[n] => n = Size
<1> DEFINE u == Head(buffered)
           l == Len(reply)
           m == Len(stream)
           m2 == Len(stream')
<1>1. /\ cpc = "plain" /\ reply \in Seq(Names) /\ l \in Nat
      /\ m \in Nat /\ m > 0 /\ u = stream[1] /\ u \in Units /\ u.tok \in Names
      /\ m2 = m - 1 /\ \A i \in 1..m2 : stream'[i] = stream[i + 1]
  <2>1. Reads /\ UNCHANGED wire /\ cpc = "plain"
    BY DEF ReadPlain
  <2>2. m \in Nat
    BY ConcatProperties DEF SessionType, stream
  <2> QED BY <2>1, <2>2, ReadsFirst DEF SessionType, Units
<1>2. /\ Linked(reply)
      /\ \A c \in 1..3 : \A n \in 1..Size :
           l > 0 /\ reply[l] = Encoding(c)[n] => m > 0 /\ Follows(c, n, u.tok)
  BY <1>1 DEF FlowInv
<1>3. CASE LooksLikePrompt(u)
  <2>1. cpc' = "idle" /\ answer' = With(answer, k, [out |-> reply, status |-> "zero"])
    BY <1>3 DEF ReadPlain
  <2>2. ASSUME NEW c \in 1..3, NEW n \in 1..Size, l > 0, reply[l] = Encoding(c)[n] PROVE n = Size
    <3>1. Follows(c, n, u.tok)
      BY <1>2, <2>2
    <3>2. u.tok # "text" /\ u.tok \in Others
      BY <1>3 DEF LooksLikePrompt, Others
    <3>3. n < Size => Encoding(c)[n + 1] \notin Others
      <4>1. n < Size => n + 1 \in 1..Size
        BY DEF Size
      <4> QED BY <4>1, UnitsAreNoOthers
    <3> QED BY <3>1, <3>2, <3>3 DEF Follows
  <2> QED BY <2>1, <2>2
<1>4. CASE ~LooksLikePrompt(u)
  <2>1. cpc' = "plain" /\ reply' = Append(reply, u.tok)
    BY <1>1, <1>4 DEF ReadPlain
  <2>2. Len(reply') = l + 1 /\ reply'[l + 1] = u.tok /\ \A i \in 1..l : reply'[i] = reply[i]
    BY <1>1, <2>1, AppendProperties
  <2> HIDE DEF u, l, m, m2
  <2>3. ASSUME NEW i \in 1..(l + 1), NEW c \in 1..3, NEW n \in 1..Size,
               reply'[i] = Encoding(c)[n], i < l + 1
        PROVE  Follows(c, n, reply'[i + 1])
    <3>1. i \in 1..l /\ reply[i] = Encoding(c)[n]
      BY <1>1, <2>2, <2>3
    <3>2. CASE i < l
      <4>1. Follows(c, n, reply[i + 1])
        BY <1>2, <3>1, <3>2 DEF Linked, l
      <4>2. i + 1 \in 1..l
        BY <1>1, <3>1, <3>2
      <4> QED BY <2>2, <4>1, <4>2
    <3>3. CASE i = l
      <4>1. l > 0 /\ reply[l] = Encoding(c)[n]
        BY <1>1, <3>1, <3>3
      <4>2. Follows(c, n, u.tok)
        BY <1>2, <4>1
      <4> QED BY <2>2, <3>3, <4>2
    <3> QED BY <1>1, <3>1, <3>2, <3>3
  <2>4. Linked(reply')
    BY <2>2, <2>3 DEF Linked
  <2>5. ASSUME NEW c \in 1..3, NEW n \in 1..Size, reply'[l + 1] = Encoding(c)[n]
        PROVE  m2 > 0 /\ Follows(c, n, stream'[1].tok)
    <3>1. stream[1].tok = Encoding(c)[n] /\ 1 \in 1..m
      BY <1>1, <2>2, <2>5
    <3>2. 1 < m /\ Follows(c, n, stream[1 + 1].tok)
      BY <3>1 DEF FlowInv, Flows, m
    <3>3. m2 > 0 /\ stream'[1] = stream[1 + 1]
      BY <1>1, <3>2
    <3> QED BY <3>2, <3>3
  <2> QED BY <2>1, <2>2, <2>4, <2>5 DEF m2
<1> QED BY <1>3, <1>4

LEMMA FlowInvStep ==
  ASSUME SessionType, ClientInv, FlowInv, NEW w \in Nat, Waiting(w), PullInv', PullInv,
         PullNext \/ UNCHANGED <<pullVars, sessionVars>>
  PROVE  FlowInv'
<1> USE DEF sessionVars, clientVars, shellVars, device
<1>0. k \in 0..3
  BY DEF SessionType
\* The host reads or drops something, or waits.
<1>1. CASE PullStep \/ ExecuteStep \/ PullDone \/ UNCHANGED <<pullVars, sessionVars>>
  <2>1. Flows(stream')
    <3>1. CASE ClientStep \/ Done
      <4>1. PICK d \in Nat : LeftAfter(stream', stream, d)
        BY <3>1, StreamShrinks
      <4> QED BY <4>1, FlowsLeft DEF FlowInv
    <3>2. CASE UNCHANGED <<buffered, wire>>
      BY <3>2 DEF stream, FlowInv
    <3>3. ClientStep \/ UNCHANGED <<buffered, wire>>
      BY <1>1 DEF PullStep, CannotBegin, TryEncoder, NoEncoder, WriteLocal, Return, ExecuteStep, PullDone, ClientStep
    <3> QED BY <3>1, <3>2, <3>3
  <2>2. CASE UNCHANGED sessionVars
    BY <2>2 DEF FlowInv, stream
  <2>3. CASE TryEncoder
    <3>1. cpc' = "skip" /\ reply' = <<>> /\ answer' = answer
      BY <2>3 DEF TryEncoder, Begin
    <3> QED BY <2>1, <3>1 DEF FlowInv
  <2>4. CASE ReadWelcome
    <3>1. cpc' \in {"dial", "idle"} /\ answer' = answer
      BY <2>4 DEF ReadWelcome
    <3> QED BY <2>1, <3>1 DEF FlowInv
  <2>5. CASE Fill
    <3>1. UNCHANGED <<cpc, reply, answer>> /\ stream' = stream
      BY <2>5, FillMoves DEF Fill
    <3> QED BY <3>1 DEF FlowInv
  <2>6. CASE SkipUnit
    <3>1. cpc' \in {"skip", "plain"} /\ answer' = answer /\ reply' = <<>>
      BY <2>6 DEF SkipUnit, FlowInv
    <3>2. Len(reply') = 0
      BY <3>1
    <3>3. Linked(reply')
      BY <3>2 DEF Linked
    <3> QED BY <2>1, <3>1, <3>2, <3>3 DEF FlowInv
  <2>7. CASE ReadPlain
    <3>1. cpc' \in {"plain", "idle"} /\ (cpc' = "plain" => answer' = answer) /\ cpc = "plain"
      BY <2>7 DEF ReadPlain
    <3>2. CASE cpc' = "plain"
      BY <2>1, <2>7, <3>1, <3>2, Collects DEF FlowInv
    <3>3. CASE cpc' # "plain"
      <4> DEFINE a == [out |-> reply, status |-> "zero"]
      <4>1. a.out = reply /\ Linked(reply)
        BY <3>1 DEF FlowInv
      <4>2. /\ answer' = With(answer, k, a)
            /\ \A c \in 1..3 : \A n \in 1..Size :
                 Len(a.out) > 0 /\ a.out[Len(a.out)] = Encoding(c)[n] => n = Size
        BY <2>7, <3>3, Collects
      <4>3. Linked(a.out)
        BY <4>1
      <4> HIDE DEF a
      <4>4. \A d \in DOMAIN answer' : answer'[d] = a \/ (d \in DOMAIN answer /\ answer'[d] = answer[d])
        BY <4>2 DEF With
      <4>5. \A d \in DOMAIN answer' :
              /\ Linked(answer'[d].out)
              /\ \A c \in 1..3 : \A n \in 1..Size :
                   Len(answer'[d].out) > 0 /\ answer'[d].out[Len(answer'[d].out)] = Encoding(c)[n] => n = Size
        BY <4>2, <4>3, <4>4 DEF FlowInv
      <4> QED BY <2>1, <3>1, <3>3, <4>5 DEF FlowInv
    <3> QED BY <3>2, <3>3
  <2>8. CASE TimeOut
    <3>1. cpc' = "idle" /\ answer' = With(answer, k, Failed)
      BY <2>8 DEF TimeOut
    <3> DEFINE a == Failed
    <3>2. Len(a.out) = 0
      BY DEF Failed
    <3>3. Linked(a.out)
      BY <3>2 DEF Linked
    <3> HIDE DEF a
    <3>4. \A d \in DOMAIN answer' : answer'[d] = a \/ (d \in DOMAIN answer /\ answer'[d] = answer[d])
      BY <3>1 DEF With, a
    <3>5. \A d \in DOMAIN answer' :
            /\ Linked(answer'[d].out)
            /\ \A c \in 1..3 : \A n \in 1..Size :
                 Len(answer'[d].out) > 0 /\ answer'[d].out[Len(answer'[d].out)] = Encoding(c)[n] => n = Size
      BY <3>2, <3>3, <3>4 DEF FlowInv
    <3> QED BY <2>1, <3>1, <3>5 DEF FlowInv
  <2>9. TryEncoder \/ ReadWelcome \/ Fill \/ SkipUnit \/ ReadPlain \/ TimeOut \/ UNCHANGED sessionVars
    BY <1>1 DEF PullStep, CannotBegin, NoEncoder, WriteLocal, Return, ExecuteStep, PullDone
  <2> QED BY <2>2, <2>3, <2>4, <2>5, <2>6, <2>7, <2>8, <2>9
\* The login program or the shell prints.
<1>2. CASE LoginStep \/ RunEncoder
  <2>1. UNCHANGED <<cpc, reply, answer, buffered>>
    BY <1>2 DEF LoginStep, RunEncoder, LogIn, RunStray, RunCommand
  <2>2. \E x \in Seq(Units) : wire' = wire \o x /\ Flows(x)
    <3>1. CASE LoginStep
      <4>1. LogIn \/ RunStray
        BY <3>1 DEF LoginStep
      <4>2. PICK x : OtherUnits(x) /\ wire' = wire \o x
        BY <4>1, OtherLogin
      <4> QED BY <4>2, OthersFlow DEF OtherUnits
    <3>2. CASE RunEncoder
      <4> DEFINE c == input[1].command
      <4>1. RunCommand
        BY <3>2 DEF RunEncoder
      <4>2. c \in 1..k /\ c \notin DOMAIN made /\ input[1].kind = kind[c] /\ k \in Nat
        BY <1>0, <4>1, OldestRuns
      <4>3. input[1].kind = "plain" /\ c \in 1..3
        <5> HIDE DEF c
        <5>1. \A d \in 1..k : kind[d] = "plain"
          BY DEF SessionType
        <5> QED BY <1>0, <4>2, <5>1
      <4>4. PICK r \in Results : /\ made' = With(made, c, r)
                                 /\ wire' = wire \o Printed(c, input[1].kind, r, asks)
        BY <4>1, CommandPrints
      <4> HIDE DEF c
      <4>5. c \in DOMAIN made' /\ made'[c] = r
        BY <4>4 DEF With
      <4>6. r.out \in Prints(c)
        BY <4>5 DEF PullInv
      <4>7. asks \in BOOLEAN
        BY DEF SessionType
      <4> QED BY <4>3, <4>4, <4>6, <4>7, PrintedFlows
    <3> QED BY <1>2, <3>1, <3>2
  <2>3. PICK x \in Seq(Units) : wire' = wire \o x /\ Flows(x)
    BY <2>2
  <2>4. Flows(stream)
    BY DEF FlowInv
  <2>5. /\ Flows(stream')
        /\ Len(stream) > 0 => Len(stream') > 0 /\ stream'[1] = stream[1]
    BY <2>1, <2>3, <2>4, FlowsOn
  <2> QED BY <2>1, <2>5 DEF FlowInv
<1> QED BY <1>1, <1>2 DEF PullNext

\* Units of one encoding that follow each other up to the last of the file.
LEMMA RunsToTheEnd ==
  ASSUME NEW c \in 1..3, NEW s, Len(s) \in Nat, Linked(s), \A i \in 1..Len(s) : Known(c, s[i]),
         Len(s) > 0 => s[Len(s)] = Encoding(c)[Size] /\ Size > 0
  PROVE  /\ Size - Len(s) + 1 \in 1..(Size + 1)
         /\ \A i \in 1..Len(s) : UnitOf(c, s[i]) = Size - Len(s) + i
<1> DEFINE l == Len(s)
           u(i) == UnitOf(c, s[i])
<1>0. Size \in Nat /\ l \in Nat
  BY DEF Size
<1>1. \A i \in 1..l : u(i) \in 1..Size /\ Encoding(c)[u(i)] = s[i] /\ s[i] \notin Others
  BY UnitOfIs, KnownUnits
<1>2. \A i \in 1..l : u(i) \in Int
  BY <1>0, <1>1
<1>3. ASSUME NEW i \in 1..l, i < l PROVE u(i + 1) = u(i) + 1
  <2>1. u(i) \in 1..Size /\ s[i] = Encoding(c)[u(i)]
    BY <1>1
  <2>2. Follows(c, u(i), s[i + 1])
    BY <1>3, <2>1 DEF Linked
  <2>3. i + 1 \in 1..l
    BY <1>0, <1>3
  <2>4. s[i + 1] # "text" /\ s[i + 1] # "prompt"
    <3>1. s[i + 1] \notin Others
      BY <1>1, <2>3
    <3> QED BY <3>1 DEF Others
  <2>5. u(i) < Size /\ s[i + 1] = Encoding(c)[u(i) + 1]
    BY <2>2, <2>4 DEF Follows
  <2>6. u(i) + 1 \in 1..Size
    BY <1>0, <2>1, <2>5
  <2>7. UnitOf(c, Encoding(c)[u(i) + 1]) = u(i) + 1
    BY <2>6, UnitOfUnit
  <2> QED BY <2>5, <2>7
<1>4. l > 0 => u(l) = Size
  <2> SUFFICES ASSUME l > 0 PROVE u(l) = Size
    OBVIOUS
  <2>1. Size \in 1..Size /\ s[l] = Encoding(c)[Size]
    BY <1>0
  <2> QED BY <2>1, UnitOfUnit
<1>5. \A j \in 1..l : u(j) \in 1..Size
  BY <1>1
<1> DEFINE n == Size - l + 1
<1>6. \A j \in 0..(l - 1) : u(l - j) = Size - j
  <2> DEFINE T == {j \in 0..(l - 1) : u(l - j) # Size - j}
  <2> SUFFICES ASSUME T # {} PROVE FALSE
    OBVIOUS
  <2>1. T \in SUBSET Nat
    BY <1>0
  <2> HIDE DEF T
  <2>2. PICK m \in T : \A j \in T : m <= j
    BY <2>1, Least
  <2>3. m \in 0..(l - 1) /\ u(l - m) # Size - m
    BY <2>2 DEF T
  <2> HIDE DEF l, u
  <2>4. m # 0
    <3> SUFFICES ASSUME m = 0 PROVE FALSE
      OBVIOUS
    <3>1. l - m = l /\ Size - m = Size /\ l > 0
      BY <1>0, <2>3
    <3> QED BY <1>4, <2>3, <3>1
  <2> DEFINE b == m - 1
  <2>5. b \in 0..(l - 1) /\ m = b + 1 /\ ~(m <= b)
    BY <1>0, <2>3, <2>4
  <2> HIDE DEF b
  <2>6. b \notin T
    BY <2>2, <2>5
  <2>7. u(l - b) = Size - b
    BY <2>5, <2>6 DEF T
  <2>8. l - m \in 1..l /\ l - m < l /\ (l - m) + 1 = l - b
    BY <1>0, <2>3, <2>5
  <2>9. u((l - m) + 1) = u(l - m) + 1
    BY <1>3, <2>8
  <2>10. u(l - m) \in Int
    BY <1>2, <2>8
  <2>11. u(l - m) + 1 = Size - b
    BY <2>7, <2>8, <2>9
  <2>12. u(l - m) = Size - m
    <3> DEFINE v == u(l - m)
    <3>1. v \in Int /\ v + 1 = Size - b /\ m \in Int /\ b \in Int /\ m = b + 1
      BY <1>0, <2>3, <2>5, <2>10, <2>11
    <3> HIDE DEF v
    <3>2. v = Size - m
      BY <1>0, <3>1
    <3> QED BY <3>2 DEF v
  <2> QED BY <2>3, <2>12
<1>7. \A i \in 1..l : u(i) = n + i - 1
  <2> TAKE i \in 1..l
  <2> HIDE DEF l, u
  <2>1. l - i \in 0..(l - 1) /\ l - (l - i) = i /\ Size - (l - i) = n + i - 1
    BY <1>0
  <2> QED BY <1>6, <2>1
<1>8. n \in 1..(Size + 1)
  <2> HIDE DEF l, u
  <2>1. CASE l = 0
    BY <1>0, <2>1
  <2>2. CASE l > 0
    <3>1. 1 \in 1..l
      BY <1>0, <2>2
    <3>2. u(1) = n /\ u(1) \in 1..Size
      BY <1>0, <1>5, <1>7, <3>1
    <3> QED BY <1>0, <3>2
  <2> QED BY <1>0, <2>1, <2>2
<1>9. n \in 1..(Size + 1) /\ \A i \in 1..l : u(i) = Size - l + i
  <2> HIDE DEF l, u
  <2>1. \A i \in 1..l : n + i - 1 = Size - l + i
    BY <1>0
  <2> QED BY <1>7, <1>8, <2>1
<1> QED BY <1>9

\* So they decode to a tail of the file.
LEMMA RunIsTail ==
  ASSUME NEW c \in 1..3, NEW s, NEW l \in Nat, l <= Size,
         \A i \in 1..l : UnitOf(c, s[i]) = Size - l + i
  PROVE  [i \in 1..l |-> UnitOf(c, s[i])] \in Tails
<1> DEFINE n == Size - l + 1
           t == SubSeq(File, n, Size)
<1>1. Size \in Nat /\ n \in 1..(Size + 1)
  BY DEF Size
<1>2. [i \in 1..l |-> UnitOf(c, s[i])] = [i \in 1..l |-> n + i - 1]
  <2>1. \A i \in 1..l : Size - l + i = n + i - 1
    BY <1>1
  <2> QED BY <2>1
<1>3. t \in Seq(1..Size) /\ Len(t) = l /\ \A i \in 1..l : t[i] = n + i - 1
  <2>1. \A i \in n..Size : File[i] = i /\ File[i] \in 1..Size
    BY <1>1 DEF File
  <2>2. /\ n \in Int /\ Size \in Int /\ Size - n + 1 = l
        /\ l = IF n <= Size THEN Size - n + 1 ELSE 0
        /\ \A i \in 1..l : n + i - 1 \in n..Size
    BY <1>1
  <2> HIDE DEF n
  <2>3. /\ t \in Seq(1..Size)
        /\ Len(t) = IF n <= Size THEN Size - n + 1 ELSE 0
        /\ \A i \in 1..(Size - n + 1) : t[i] = File[n + i - 1]
    BY <2>1, <2>2, SubSeqProperties
  <2> QED BY <2>1, <2>2, <2>3
<1> HIDE DEF n
<1>4. t = [i \in 1..l |-> n + i - 1]
  <2> HIDE DEF t
  <2>1. t = [i \in 1..Len(t) |-> t[i]]
    BY <1>3
  <2> QED BY <1>3, <2>1
<1> QED BY <1>1, <1>2, <1>4 DEF Tails

\* A run of base64 that the hexadecimal decoder accepts is all hexadecimal digits.
LEMMA RunIsMisread ==
  ASSUME NEW c \in 1..3, c # 1, NEW s, NEW l \in Nat, 0 < l, l <= Size,
         \A i \in 1..l : Known(1, s[i]) /\ UnitOf(1, s[i]) = Size - l + i,
         \A i \in 1..l : Known(c, s[i]) \/ Misread(c, s[i])
  PROVE  [i \in 1..l |-> UnitOf(c, s[i])] \in Misreads
<1>1. Size \in Nat
  BY DEF Size
<1>2. ASSUME NEW i \in 1..l PROVE UnitOf(c, s[i]) = Wrong /\ Size - l + i \in HexLike
  <2>1. Size - l + i \in 1..Size /\ Encoding(1)[Size - l + i] = s[i] /\ 1 \in 1..3
    BY <1>1, UnitOfIs
  <2> DEFINE m == Size - l + i
  <2> HIDE DEF m
  <2>2. m \in 1..Size /\ Base64[m] = s[i]
    BY <2>1 DEF Encoding, m
  <2>3. ~Known(c, s[i])
    BY <2>2 DEF Known, Encoding
  <2>4. PICK h \in HexLike : Base64[h] = s[i]
    BY <2>3 DEF Misread
  <2>5. h \in 1..Size
    OBVIOUS
  <2>6. h = m
    BY <2>2, <2>4, <2>5
  <2>7. UnitOf(c, s[i]) = Wrong
    BY <2>3, UnitOfIs
  <2> QED BY <2>4, <2>6, <2>7 DEF m
<1>3. (Size - l + 1)..Size \subseteq HexLike
  <2> SUFFICES ASSUME NEW j \in (Size - l + 1)..Size PROVE j \in HexLike
    OBVIOUS
  <2> DEFINE i == j - (Size - l)
  <2>1. i \in 1..l /\ Size - l + i = j
    BY <1>1
  <2> HIDE DEF i
  <2> QED BY <1>2, <2>1
<1>4. [i \in 1..l |-> UnitOf(c, s[i])] = [i \in 1..l |-> Wrong]
  BY <1>2
<1>5. l \in {m \in 1..Size : (Size - m + 1)..Size \subseteq HexLike}
  BY <1>1, <1>3
<1> QED BY <1>4, <1>5 DEF Misreads

\* Units that follow each other are of one encoding, that of the first.
LEMMA RunIsOfOne ==
  ASSUME NEW c \in 1..3, NEW s, Len(s) \in Nat, Linked(s), Len(s) > 0, Known(c, s[1]),
         \A i \in 1..Len(s) : s[i] \notin Others
  PROVE  \A i \in 1..Len(s) : Known(c, s[i])
<1> DEFINE l == Len(s)
           T == {i \in 1..l : ~Known(c, s[i])}
<1>0. Size \in Nat /\ l \in Nat
  BY DEF Size
<1> SUFFICES ASSUME T # {} PROVE FALSE
  OBVIOUS
<1>1. T \in SUBSET Nat
  BY <1>0
<1> HIDE DEF T
<1>2. PICK m \in T : \A j \in T : m <= j
  BY <1>1, Least
<1>3. m \in 1..l /\ ~Known(c, s[m]) /\ m # 1
  BY <1>2 DEF T
<1> DEFINE b == m - 1
<1>4. b \in 1..l /\ b < l /\ m = b + 1 /\ ~(m <= b)
  BY <1>0, <1>3
<1> HIDE DEF b
<1>5. b \notin T
  BY <1>2, <1>4
<1>6. PICK n \in 1..Size : Encoding(c)[n] = s[b]
  BY <1>4, <1>5 DEF T, Known
<1>7. Follows(c, n, s[b + 1])
  BY <1>4, <1>6 DEF Linked
<1>8. s[m] \notin Others
  BY <1>3
<1>9. n < Size /\ s[m] = Encoding(c)[n + 1]
  BY <1>4, <1>7, <1>8 DEF Follows, Others
<1>10. n + 1 \in 1..Size
  BY <1>0, <1>9
<1> QED BY <1>3, <1>9, <1>10 DEF Known

\* What an answer decodes to, when its units follow each other up to the last one.
LEMMA LinkedIsOneTail ==
  ASSUME NEW c \in 1..3, NEW a, a.out \in Seq(Names), Decodes(c, a), Linked(a.out),
         \A d \in 1..3 : \A n \in 1..Size :
           Len(a.out) > 0 /\ a.out[Len(a.out)] = Encoding(d)[n] => n = Size
  PROVE  Decoded(c, a) \in Tails \/ (c > 1 /\ Decoded(c, a) \in Misreads)
<1> DEFINE s == StripPrompt(a.out)
           l == Len(s)
<1>0. Size \in Nat /\ l \in Nat /\ Len(a.out) \in Nat /\ s \in Seq(Names)
  BY Stripped DEF Size
<1>1. /\ Decoded(c, a) = [i \in 1..l |-> UnitOf(c, s[i])]
      /\ \A i \in 1..l : Known(c, s[i]) \/ Misread(c, s[i])
  BY DEF Decodes, Decoded
<1>2. \/ s = a.out
      \/ /\ l < Len(a.out) /\ a.out[l + 1] = "sign"
         /\ \A i \in 1..l : s[i] = a.out[i]
  BY Stripped
<1> HIDE DEF s
<1>3. \A i \in 1..l : s[i] \notin Others
  BY <1>1, TextIsRefused
\* A unit is known as one of this encoding or of base64.
<1>4. ASSUME NEW i \in 1..l, ~Known(c, s[i]) PROVE Known(1, s[i]) /\ c # 1
  <2>1. Misread(c, s[i])
    BY <1>1, <1>4
  <2>2. PICK n \in HexLike : Base64[n] = s[i] /\ c # 1
    BY <2>1 DEF Misread
  <2> QED BY <2>2 DEF Known, Encoding
<1>5. CASE l = 0
  <2>1. l <= Size /\ \A i \in 1..l : UnitOf(c, s[i]) = Size - l + i
    BY <1>0, <1>5
  <2> HIDE DEF l
  <2>2. [i \in 1..l |-> UnitOf(c, s[i])] \in Tails
    <3> HIDE SessionAssumption, PullAssumption
    <3> QED BY <1>0, <2>1, RunIsTail
  <2> QED BY <1>1, <2>2
<1>6. CASE l > 0 /\ s # a.out
  <2>1. l < Len(a.out) /\ a.out[l + 1] = "sign" /\ l \in 1..l /\ l \in 1..Len(a.out) /\ s[l] = a.out[l]
    BY <1>0, <1>2, <1>6
  <2>2. PICK d \in 1..3 : Known(d, s[l])
    <3>1. 1 \in 1..3
      OBVIOUS
    <3> QED BY <1>4, <2>1, <3>1
  <2>3. PICK n \in 1..Size : Encoding(d)[n] = s[l]
    BY <2>2 DEF Known
  <2>4. Follows(d, n, "sign")
    <3> DEFINE o == a.out
    <3>1. Linked(o) /\ l < Len(o) /\ o[l + 1] = "sign" /\ l \in 1..Len(o) /\ o[l] = Encoding(d)[n]
      BY <2>1, <2>3
    <3> HIDE DEF l, o
    <3> HIDE SessionAssumption, PullAssumption
    <3>2. \A j \in 1..Len(o) : \A e \in 1..3 : \A m \in 1..Size :
            o[j] = Encoding(e)[m] /\ j < Len(o) => Follows(e, m, o[j + 1])
      BY <3>1 DEF Linked
    <3>3. Follows(d, n, o[l + 1])
      BY <3>1, <3>2
    <3> QED BY <3>1, <3>3
  <2>5. n < Size /\ "sign" = Encoding(d)[n + 1]
    BY <2>4 DEF Follows
  <2>6. n + 1 \in 1..Size
    BY <1>0, <2>5
  <2> QED BY <2>5, <2>6, UnitsAreNoOthers DEF Others
<1>7. CASE l > 0 /\ s = a.out
  <2>1. Linked(s) /\ 1 \in 1..l /\ l \in 1..l
    BY <1>0, <1>7
  <2>2. PICK d \in 1..3 : Known(d, s[1]) /\ (d = c \/ (d = 1 /\ c # 1))
    <3>1. 1 \in 1..3
      OBVIOUS
    <3> QED BY <1>4, <2>1, <3>1
  <2>3. \A i \in 1..l : Known(d, s[i])
    BY <1>3, <1>7, <1>0, <2>1, <2>2, RunIsOfOne
  <2>4. PICK n \in 1..Size : Encoding(d)[n] = s[l]
    BY <2>1, <2>3 DEF Known
  <2>5. n = Size
    BY <1>7, <2>4
  <2>6. s[l] = Encoding(d)[Size] /\ Size > 0
    BY <1>0, <2>4, <2>5
  <2>7. Size - l + 1 \in 1..(Size + 1) /\ \A i \in 1..l : UnitOf(d, s[i]) = Size - l + i
    BY <1>0, <2>1, <2>3, <2>6, RunsToTheEnd
  <2>8. l <= Size /\ 0 < l
    BY <1>0, <1>7, <2>7
  <2> HIDE DEF l
  <2>9. CASE d = c
    <3>1. [i \in 1..l |-> UnitOf(c, s[i])] \in Tails
      <4> HIDE SessionAssumption, PullAssumption
      <4>1. \A i \in 1..l : UnitOf(c, s[i]) = Size - l + i
        BY <2>7, <2>9
      <4> QED BY <1>0, <2>8, <4>1, RunIsTail
    <3> QED BY <1>1, <3>1
  <2>10. CASE d = 1 /\ c # 1
    <3>1. \A i \in 1..l : Known(1, s[i]) /\ UnitOf(1, s[i]) = Size - l + i
      BY <2>3, <2>7, <2>10
    <3>2. [i \in 1..l |-> UnitOf(c, s[i])] \in Misreads
      <4> HIDE SessionAssumption, PullAssumption
      <4>1. 0 < l /\ c # 1 /\ \A i \in 1..l : Known(c, s[i]) \/ Misread(c, s[i])
        BY <1>0, <1>1, <2>8, <2>10
      <4> QED BY <1>0, <2>8, <3>1, <4>1, RunIsMisread
    <3> QED BY <1>1, <2>10, <3>2
  <2> QED BY <2>2, <2>9, <2>10
<1> QED BY <1>0, <1>5, <1>6, <1>7

\* SuccessIsOneTail: whatever has timed out and whatever the device says after the
\* login, a download that pullPrintf reports as complete is a tail of the file, or
\* what the hexadecimal decoder makes of a tail of base64 that is all such digits.
THEOREM PullSuccessIsOneTail == PullSpec => []SuccessIsOneTail
<1>1. PullInit => PullAll /\ FlowInv
  BY PullAllInit, FlowInvInit
<1>2. ASSUME PullAll, FlowInv, PullNext \/ UNCHANGED <<pullVars, sessionVars>>
      PROVE  PullAll' /\ FlowInv'
  <2>1. PullAll'
    BY <1>2, PullAllStep
  <2>2. PICK w \in Nat : Waiting(w)
    BY <1>2 DEF PullAll, AllInv, IInv
  <2>3. SessionType /\ ClientInv /\ PullInv /\ PullInv'
    BY <1>2, <2>1 DEF PullAll, AllInv, IInv
  <2> QED BY <1>2, <2>1, <2>2, <2>3, FlowInvStep
<1>3. PullAll /\ FlowInv => SuccessIsOneTail
  <2> SUFFICES ASSUME PullAll, FlowInv, pull = "ok"
               PROVE  local \in Tails \/ (k > 1 /\ local \in Misreads)
    BY DEF SuccessIsOneTail
  <2>1. Attempted /\ Decodes(k, Answer) /\ local = Decoded(k, Answer) /\ k \in DOMAIN answer
    BY DEF PullAll, PullInv
  <2>2. k \in 1..3 /\ Answer.out \in Seq(Names)
    <3>1. k \in 0..3
      BY DEF PullAll, AllInv, IInv, SessionType
    <3> QED BY <2>1, <3>1 DEF Attempted, Answer, PullAll, PullInv
  <2>3. /\ Linked(Answer.out)
        /\ \A d \in 1..3 : \A n \in 1..Size :
             Len(Answer.out) > 0 /\ Answer.out[Len(Answer.out)] = Encoding(d)[n] => n = Size
    BY <2>1, <2>2 DEF FlowInv, Answer
  <2> QED BY <2>1, <2>2, <2>3, LinkedIsOneTail
<1> QED BY <1>1, <1>2, <1>3, PTL DEF PullSpec
=============================================================================
