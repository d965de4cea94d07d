--------------------------- MODULE FastPushProofs ---------------------------
(***************************************************************************)
(* Theorems about FastPush, for every size of the file, of the socket      *)
(* buffers and of the old destination.                                     *)
(***************************************************************************)
EXTENDS FastPush, SequenceTheorems, TLAPS

USE FastPushAssumption

-----------------------------------------------------------------------------
(* The inductive invariant *)

\* The units 1 .. n of the file.
Copied(n) == [i \in 1..n |-> i]

\* The kinds of the variables of the workstation, and of what the socket holds.
HostType ==
  /\ mpc \in {"accept", "select", "waitWriter", "waitReply", "returned"}
  /\ result \in Results
  /\ wpc \in {"off", "write", "ok", "failed"}
  /\ rpc \in {"off", "type", "body"} \cup ReadResults
  /\ armed \in BOOLEAN /\ closed \in BOOLEAN
  /\ sent \in 0..Total

\* The goroutines exist from the accept on, the connection is open as long as
\* the reader is at work, and what is returned is the verdict on two goroutines
\* that have ended.  Before the accept nothing has been sent.
CallerInv ==
  /\ mpc = "accept" => wpc = "off" /\ rpc = "off" /\ ~closed
  /\ mpc \in {"select", "waitReply"} => wpc # "off" /\ rpc # "off" /\ ~closed
  /\ mpc = "waitReply" => wpc \in {"ok", "failed"}
  /\ mpc = "waitWriter" => wpc # "off" /\ rpc \in ReadResults
  /\ mpc = "returned" =>
       \/ wpc = "off" /\ rpc = "off" /\ result \in {"setup", "readFile"}
       \/ wpc \in {"ok", "failed"} /\ rpc \in ReadResults /\ result = Verdict

\* A writer that has failed has not sent everything, one that has not has.
WriterInv ==
  /\ wpc = "off" => sent = 0
  /\ wpc = "ok" => sent = Total
  /\ wpc = "failed" => sent < Total

\* How far the fileloader has come is how much it has read and copied; it says
\* "OK" only for the whole file.
LoaderInv ==
  /\ dpc \in {"connect", "header", "open", "data", "close", "ok",
              "error", "errorBody", "drain", "drained", "gone", "absent"}
  /\ consumed \in 0..sent
  /\ dest \in Seq(0..Size)
  /\ wpc # "off" => dpc \notin {"connect", "absent"}
  /\ dpc \in {"connect", "header"} => consumed = 0
  /\ dpc = "open" => consumed = 1
  /\ dpc = "data" => consumed \in 1..Size /\ dest = Copied(consumed - 1)
  /\ dpc \in {"close", "ok", "gone"} => consumed = Total /\ dest = Data

\* What the fileloader has written to the connection.
Replied ==
  IF dpc = "errorBody" THEN <<"ERR">>
  ELSE IF dpc \in {"drain", "drained"} THEN <<"ERR", "BODY">>
  ELSE IF dpc = "gone" THEN <<"OK">>
  ELSE <<>>

\* Its length.
RepliedUnits ==
  IF dpc \in {"errorBody", "gone"} THEN 1 ELSE IF dpc \in {"drain", "drained"} THEN 2 ELSE 0

\* What of it is before a reader that is still at work.
Unread ==
  IF rpc # "body" THEN Replied ELSE IF dpc = "errorBody" THEN <<>> ELSE <<"BODY">>

\* A reader that is at work has before it exactly what it has not read of the
\* reply, unless a reset has destroyed it; only a fileloader that has ended
\* resets a connection that the workstation has open.
ReplyInv ==
  /\ {fin, rst, lost, link} \subseteq BOOLEAN
  /\ reply \in Seq({"OK", "ERR", "BODY"})
  /\ Len(reply) <= RepliedUnits
  /\ fin => dpc \in {"drain", "drained", "gone"}
  /\ rst => closed \/ Exited
  /\ mpc = "accept" => ~rst
  /\ lost => rst
  /\ ~closed /\ rpc \notin ReadResults => reply = IF lost THEN <<>> ELSE Unread
  /\ rpc = "body" => dpc \in {"errorBody", "drain", "drained"}

\* What a reader that has ended says of the fileloader.
ReaderInv ==
  /\ rpc = "gotOK" => dpc = "gone"
  /\ rpc = "gotRemote" => dpc \in {"drain", "drained"}
  /\ rpc = "gotIO" => lost

IInv == HostType /\ CallerInv /\ WriterInv /\ LoaderInv /\ ReplyInv /\ ReaderInv

-----------------------------------------------------------------------------
(* Every step keeps it *)

\* The error reply is written in two parts.
LEMMA ErrorReply == Append(<<"ERR">>, "BODY") = <<"ERR", "BODY">>
<1> DEFINE s == Append(<<"ERR">>, "BODY")
           t == <<"ERR", "BODY">>
           Parts == {"ERR", "BODY"}
<1>1. s \in Seq(Parts) /\ t \in Seq(Parts)
  BY AppendProperties
<1>2. Len(s) = 2 /\ s[1] = "ERR" /\ s[2] = "BODY"
  BY AppendProperties
<1>3. Len(t) = 2 /\ t[1] = "ERR" /\ t[2] = "BODY"
  OBVIOUS
<1>4. \A i \in 1..Len(s) : s[i] = t[i]
  BY <1>2, <1>3
<1> QED BY <1>1, <1>2, <1>3, <1>4, SeqEqual

\* What has been copied is a sequence of units.
LEMMA CopiedIsSeq ==
  ASSUME NEW n \in 0..Size
  PROVE  /\ Copied(n) \in Seq(0..Size) /\ Len(Copied(n)) = n
         /\ \A i \in 1..n : Copied(n)[i] = i
<1>1. n \in Nat /\ Copied(n) \in [1..n -> 0..Size]
  BY DEF Copied
<1>2. Copied(n) \in Seq(0..Size)
  BY <1>1, SeqDef
<1>3. DOMAIN Copied(n) = 1..n
  BY DEF Copied
<1> QED BY <1>1, <1>2, <1>3, LenProperties DEF Copied

\* One more unit of the file has been copied.
LEMMA CopyGrows ==
  ASSUME NEW n \in 1..Size
  PROVE  Append(Copied(n - 1), n) = Copied(n) /\ Copied(n) \in Seq(0..Size)
<1> DEFINE s == Copied(n - 1)
<1>1. s \in Seq(0..Size) /\ Len(s) = n - 1 /\ \A i \in 1..(n - 1) : s[i] = i
  BY CopiedIsSeq
<1>2. Copied(n) \in Seq(0..Size) /\ Len(Copied(n)) = n /\ \A i \in 1..n : Copied(n)[i] = i
  BY CopiedIsSeq
<1> HIDE DEF s
<1>3. Append(s, n) \in Seq(0..Size) /\ Len(Append(s, n)) = n
  BY <1>1, AppendProperties
<1>4. \A i \in 1..n : Append(s, n)[i] = i
  BY <1>1, AppendProperties
<1>5. Append(s, n) = Copied(n)
  BY <1>2, <1>3, <1>4, SeqEqual
<1> QED BY <1>2, <1>5 DEF s

\* The caller: what it returns is the verdict on goroutines that have ended.
LEMMA HostSteps ==
  ASSUME IInv, HostStep
  PROVE  IInv'
<1> USE DEF IInv, HostType, CallerInv, WriterInv, LoaderInv, ReplyInv, ReaderInv, Replied,
            RepliedUnits, Unread, Exited, Results, ReadResults, Verdict, loaderVars, netVars
<1>1. CASE Accept
  BY <1>1 DEF Accept
<1>2. CASE ReadFileFails
  BY <1>2 DEF ReadFileFails
<1>3. CASE AcceptTimesOut
  BY <1>3 DEF AcceptTimesOut
<1>4. CASE SelectResponse
  BY <1>4 DEF SelectResponse
<1>5. CASE SelectWriteDone
  BY <1>5 DEF SelectWriteDone
<1>6. CASE Return
  BY <1>6 DEF Return
<1> QED BY <1>1, <1>2, <1>3, <1>4, <1>5, <1>6 DEF HostStep

\* The writer: it ends well only with the last unit.
LEMMA WriterSteps ==
  ASSUME IInv, WriterStep
  PROVE  IInv'
<1> USE DEF IInv, HostType, CallerInv, WriterInv, LoaderInv, ReplyInv, ReaderInv, Replied,
            RepliedUnits, Unread, Exited, Results, ReadResults, Verdict, loaderVars, netVars, Total
<1>1. CASE WriteUnit
  BY <1>1 DEF WriteUnit
<1>2. CASE WriteEnds
  BY <1>2 DEF WriteEnds
<1>3. CASE WriteFails
  BY <1>3 DEF WriteFails
<1> QED BY <1>1, <1>2, <1>3 DEF WriterStep

\* The reader: each unit it takes is the next one of the reply, and it misses
\* one only because a reset has destroyed it.
LEMMA ReaderSteps ==
  ASSUME IInv, ReaderStep
  PROVE  IInv'
<1> USE DEF IInv, HostType, CallerInv, WriterInv, LoaderInv, ReplyInv, ReaderInv, Replied,
            RepliedUnits, Unread, Exited, Results, ReadResults, Verdict, loaderVars
<1>1. CASE ReadType
  <2>1. ~closed /\ ~lost /\ rpc = "type" /\ reply = Replied /\ reply # <<>>
    BY <1>1 DEF ReadType
  <2>2. CASE Head(reply) = "OK"
    BY <1>1, <2>1, <2>2 DEF ReadType
  <2>3. CASE Head(reply) = "ERR"
    <3>1. dpc \in {"errorBody", "drain", "drained"}
      BY <2>1, <2>3
    <3>2. rpc' = "body" /\ reply' = IF dpc = "errorBody" THEN <<>> ELSE <<"BODY">>
      BY <1>1, <2>1, <2>3, <3>1 DEF ReadType
    <3>3. Len(reply') <= RepliedUnits /\ reply' \in Seq({"OK", "ERR", "BODY"})
      <4>1. reply \in Seq({"OK", "ERR", "BODY"}) /\ Len(reply) <= RepliedUnits /\ reply' = Tail(reply)
        BY <1>1 DEF ReadType
      <4>2. Tail(reply) \in Seq({"OK", "ERR", "BODY"}) /\ Len(Tail(reply)) = Len(reply) - 1
        BY <2>1, <4>1, HeadTailProperties
      <4>3. Len(reply) \in Nat /\ RepliedUnits \in Nat
        BY <4>1
      <4> QED BY <4>1, <4>2, <4>3
    <3>4. ReplyInv'
      BY <1>1, <2>1, <3>1, <3>2, <3>3 DEF ReadType
    <3> QED BY <1>1, <2>1, <2>3, <3>1, <3>4 DEF ReadType
  <2> QED BY <1>1, <2>1, <2>2, <2>3 DEF ReadType
<1>2. CASE ReadBody
  BY <1>2 DEF ReadBody
<1>3. CASE ReadFails
  <2>1. /\ ~closed /\ dpc # "absent" /\ rpc \in {"type", "body"}
        /\ rst \/ fin
        /\ reply = <<>>
    BY <1>3 DEF ReadFails
  <2>2. dpc \in {"drain", "drained", "gone"}
    BY <2>1
  <2>3. Unread # <<>>
    BY <2>1, <2>2
  <2>4. lost
    BY <2>1, <2>3
  <2> QED BY <1>3, <2>4 DEF ReadFails, netVars
<1>4. CASE ReadTimesOut
  BY <1>4 DEF ReadTimesOut, netVars
<1> QED BY <1>1, <1>2, <1>3, <1>4 DEF ReaderStep

\* The fileloader: it copies what it reads, and replies when it has ended.
LEMMA LoaderSteps ==
  ASSUME IInv, LoaderStep
  PROVE  IInv'
<1> USE DEF IInv, HostType, CallerInv, WriterInv, LoaderInv, ReplyInv, ReaderInv, Replied,
            RepliedUnits, Unread, Exited, Results, ReadResults, Verdict, hostVars
<1>1. CASE Connect
  BY <1>1 DEF Connect, netVars
<1>2. CASE CannotConnect
  BY <1>2 DEF CannotConnect, netVars
<1>3. CASE ReadHeader
  <2>1. LoaderInv'
    BY <1>3 DEF ReadHeader, ReadUnit, Total
  <2>2. ReplyInv' /\ ReaderInv'
    BY <1>3 DEF ReadHeader, netVars
  <2> QED BY <1>3, <2>1, <2>2 DEF ReadHeader
<1>4. CASE Open
  BY <1>4 DEF Open, Data, Copied, Total, netVars
<1>5. CASE CopyUnit
  <2>1. LoaderInv'
    <3>1. CASE ReadUnit /\ dest' = Append(dest, consumed)
      <4>1. dest' = Copied(consumed) /\ dest' \in Seq(0..Size)
        BY <1>5, <3>1, CopyGrows DEF CopyUnit
      <4>2. consumed' = consumed + 1 /\ consumed' <= sent /\ consumed' \in 2..Total
        BY <1>5, <3>1 DEF CopyUnit, ReadUnit, Total
      <4>3. consumed = Size => Copied(consumed) = Data
        BY DEF Copied, Data
      <4> QED BY <1>5, <3>1, <4>1, <4>2, <4>3 DEF CopyUnit, ReadUnit, Total
    <3>2. CASE dpc' = "error"
      BY <1>5, <3>2 DEF CopyUnit, ReadUnit
    <3> QED BY <1>5, <3>1, <3>2 DEF CopyUnit
  <2>2. ReplyInv' /\ ReaderInv'
    BY <1>5 DEF CopyUnit, netVars
  <2> QED BY <1>5, <2>1, <2>2 DEF CopyUnit
<1>6. CASE CloseOutput
  BY <1>6 DEF CloseOutput, netVars
<1>7. CASE SendOK
  <2>1. reply = <<>>
    BY <1>7, EmptySeq DEF SendOK
  <2>2. reply' = <<"OK">>
    BY <1>7, <2>1 DEF SendOK
  <2> QED BY <1>7, <2>1, <2>2 DEF SendOK
<1>8. CASE SendError
  <2>1. reply = <<>>
    BY <1>8, EmptySeq DEF SendError
  <2>2. reply' = <<"ERR">>
    BY <1>8, <2>1 DEF SendError
  <2> QED BY <1>8, <2>1, <2>2 DEF SendError
<1>9. CASE SendErrorBody
  <2>1. reply' \in Seq({"OK", "ERR", "BODY"}) /\ Len(reply') <= 2
    BY <1>9, AppendProperties DEF SendErrorBody
  <2>2. ASSUME ~closed, rpc \notin ReadResults PROVE ~lost /\ reply' = Unread'
    <3>1. ~lost /\ reply = Unread
      BY <1>9, <2>2 DEF SendErrorBody
    <3>2. CASE rpc = "body"
      BY <1>9, <3>1, <3>2 DEF SendErrorBody
    <3>3. CASE rpc # "body"
      <4>1. reply = <<"ERR">>
        BY <1>9, <3>1, <3>3 DEF SendErrorBody
      <4>2. reply' = <<"ERR", "BODY">>
        BY <1>9, <4>1, ErrorReply DEF SendErrorBody
      <4> QED BY <1>9, <3>1, <3>3, <4>2 DEF SendErrorBody
    <3> QED BY <3>2, <3>3
  <2>3. ReplyInv'
    BY <1>9, <2>1, <2>2 DEF SendErrorBody
  <2> QED BY <1>9, <2>3 DEF SendErrorBody
<1>10. CASE Drain
  BY <1>10 DEF Drain, ReadUnit, netVars
<1> QED BY <1>1, <1>2, <1>3, <1>4, <1>5, <1>6, <1>7, <1>8, <1>9, <1>10 DEF LoaderStep

\* The network: while the reader is at work only a fileloader that has ended
\* can cause a reset.
LEMMA NetworkSteps ==
  ASSUME IInv, Reset \/ LinkDown
  PROVE  IInv'
<1> USE DEF IInv, HostType, CallerInv, WriterInv, LoaderInv, ReplyInv, ReaderInv, Replied,
            RepliedUnits, Unread, Exited, Results, ReadResults, Verdict, hostVars, loaderVars
<1>1. CASE Reset
  <2>1. \/ reply' = reply /\ lost' = lost
        \/ reply' = <<>> /\ lost' = (reply # <<>>)
    BY <1>1 DEF Reset
  <2>2. /\ lost' \in BOOLEAN
        /\ reply' \in Seq({"OK", "ERR", "BODY"}) /\ Len(reply') <= RepliedUnits
    <3>1. CASE reply' = reply /\ lost' = lost
      BY <3>1
    <3>2. CASE reply' = <<>> /\ lost' = (reply # <<>>)
      <4>1. Len(<<>>) = 0 /\ <<>> \in Seq({"OK", "ERR", "BODY"}) /\ 0 <= RepliedUnits
        BY EmptySeq
      <4> QED BY <3>2, <4>1
    <3> QED BY <2>1, <3>1, <3>2
  <2>3. /\ rst' => closed' \/ Exited'
        /\ mpc = "accept" => FALSE
    BY <1>1 DEF Reset
  <2>4. ASSUME ~closed, rpc \notin ReadResults PROVE reply' = IF lost' THEN <<>> ELSE Unread
    <3>1. reply = Unread /\ ~lost
      BY <1>1, <2>4 DEF Reset
    <3>2. CASE reply' = reply /\ lost' = lost
      BY <3>1, <3>2
    <3>3. CASE reply' = <<>> /\ lost' = (reply # <<>>)
      BY <3>1, <3>3
    <3> QED BY <2>1, <3>2, <3>3
  <2>5. ReplyInv'
    BY <1>1, <2>1, <2>2, <2>3, <2>4 DEF Reset
  <2>6. ReaderInv'
    BY <1>1 DEF Reset
  <2> QED BY <1>1, <2>5, <2>6 DEF Reset
<1>2. CASE LinkDown
  <2>1. ReplyInv'
    BY <1>2 DEF LinkDown
  <2> QED BY <1>2, <2>1 DEF LinkDown
<1> QED BY <1>1, <1>2

\* Before the accept.
LEMMA InitIInv == Init => IInv
<1> SUFFICES ASSUME Init PROVE IInv
  OBVIOUS
<1>0. /\ mpc = "accept" /\ result = "none" /\ wpc = "off" /\ rpc = "off"
      /\ armed = FALSE /\ closed = FALSE /\ sent = 0 /\ dpc = "connect" /\ consumed = 0
      /\ reply = <<>> /\ fin = FALSE /\ rst = FALSE /\ lost = FALSE /\ link = TRUE
  BY DEF Init
<1>1. HostType /\ CallerInv /\ WriterInv
  <2>1. armed \in BOOLEAN /\ closed \in BOOLEAN
    BY <1>0
  <2>2. sent \in 0..Total /\ result \in Results
    BY <1>0 DEF Total, Results
  <2> QED BY <1>0, <2>1, <2>2 DEF HostType, CallerInv, WriterInv
<1>2. LoaderInv
  <2>1. PICK n \in OldSizes : dest = [i \in 1..n |-> 0]
    BY DEF Init
  <2>2. dest \in Seq(0..Size)
    BY <2>1, SeqDef
  <2> QED BY <1>0, <2>2 DEF LoaderInv
<1>3. ReplyInv /\ ReaderInv
  <2>1. reply = <<>> /\ Len(reply) = 0 /\ reply \in Seq({"OK", "ERR", "BODY"})
    BY <1>0, EmptySeq
  <2>2. Replied = <<>> /\ RepliedUnits = 0 /\ Unread = <<>>
    BY <1>0 DEF Replied, RepliedUnits, Unread
  <2>3. {fin, rst, lost, link} \subseteq BOOLEAN
    BY <1>0
  <2> QED BY <1>0, <2>1, <2>2, <2>3 DEF ReplyInv, ReaderInv
<1> QED BY <1>1, <1>2, <1>3 DEF IInv

\* Every step keeps the inductive invariant.
LEMMA StepIInv == IInv /\ [Next]_vars => IInv'
<1>1. ASSUME IInv, UNCHANGED vars PROVE IInv'
  BY <1>1 DEF vars, hostVars, loaderVars, netVars, IInv, HostType, CallerInv, WriterInv, LoaderInv,
              ReplyInv, ReaderInv, Replied, RepliedUnits, Unread, Exited, Verdict
<1> QED BY <1>1, HostSteps, WriterSteps, ReaderSteps, LoaderSteps, NetworkSteps DEF Next, Done

-----------------------------------------------------------------------------
(* The theorems *)

\* What the goroutines, the fileloader and the connection agree on at any time.
THEOREM FastPushInvariance == Spec => []IInv
BY InitIInv, StepIInv, PTL DEF Spec

\* Types; the device never reads what was not sent.
THEOREM FastPushTypes == Spec => []TypeOK
<1>1. IInv => TypeOK
  <2> SUFFICES ASSUME IInv PROVE TypeOK
    OBVIOUS
  <2>1. RepliedUnits <= 2 /\ RepliedUnits \in Nat /\ Len(reply) \in Nat
    BY DEF RepliedUnits, IInv, ReplyInv
  <2> QED BY <2>1 DEF IInv, HostType, LoaderInv, ReplyInv, TypeOK
<1> QED BY <1>1, FastPushInvariance, PTL

\* AcceptAndPush returns only when its writer and its reader have ended.
THEOREM GoroutinesHaveEnded == Spec => []GoroutinesEnded
<1>1. IInv => GoroutinesEnded
  BY DEF IInv, CallerInv, GoroutinesEnded, ReadResults
<1> QED BY <1>1, FastPushInvariance, PTL

\* An acknowledged upload is reported as a success, whenever the connection is
\* closed and the writer ends.
THEOREM AcknowledgedIsReported == Spec => []AcknowledgedIsSuccess
<1>1. IInv => AcknowledgedIsSuccess
  <2> SUFFICES ASSUME IInv, mpc = "returned", rpc = "gotOK" PROVE result = "ok"
    BY DEF AcknowledgedIsSuccess
  <2>1. dpc = "gone" /\ consumed = Total /\ consumed \in 0..sent /\ sent \in 0..Total
    BY DEF IInv, ReaderInv, LoaderInv, HostType
  <2>2. ~(sent < Total)
    BY <2>1 DEF Total
  <2>3. wpc # "failed"
    BY <2>2 DEF IInv, WriterInv
  <2> QED BY <2>3 DEF IInv, CallerInv, Verdict
<1> QED BY <1>1, FastPushInvariance, PTL

\* A diagnostic of the fileloader is hidden by nothing but a reset that destroys
\* it or its own deadline.
THEOREM DiagnosticIsReported == Spec => []DiagnosticSurvives
<1>1. IInv => DiagnosticSurvives
  BY DEF IInv, CallerInv, ReaderInv, ReadResults, Verdict, DiagnosticSurvives, Diagnosed
<1> QED BY <1>1, FastPushInvariance, PTL

-----------------------------------------------------------------------------
(* The promise of Upload *)

LEMMA InitImplements == Init => U!UploadInit
<1> SUFFICES ASSUME Init PROVE U!UploadInit
  OBVIOUS
<1>1. dest \in Seq(0..Size)
  BY InitIInv DEF IInv, LoaderInv
<1>2. outcome = "idle"
  BY DEF Init, outcome
<1> QED BY <1>1, <1>2 DEF U!UploadInit

\* Every step is a step of the promise or none.
LEMMA StepImplements ==
  ASSUME IInv, IInv', Next
  PROVE  U!UploadNext \/ UNCHANGED <<dest, outcome>>
<1>0. /\ dest \in Seq(0..Size) /\ dest' \in Seq(0..Size)
      /\ sent \in Nat /\ consumed \in 0..sent /\ Total > 0
  BY DEF IInv, HostType, LoaderInv, Total
<1>1. CASE Accept \/ SelectResponse \/ SelectWriteDone
  BY <1>1 DEF Accept, SelectResponse, SelectWriteDone, outcome, loaderVars
<1>2. CASE ReadFileFails \/ AcceptTimesOut
  <2>1. sent = 0 /\ outcome = "idle" /\ outcome' = "refused" /\ UNCHANGED dest
    BY <1>2 DEF ReadFileFails, AcceptTimesOut, outcome, loaderVars, IInv, CallerInv, WriterInv
  <2> QED BY <2>1 DEF U!UploadNext, U!ReportRefused
<1>3. CASE Return
  <2>1. mpc # "returned" /\ mpc' = "returned" /\ UNCHANGED <<dest, sent>>
    BY <1>3 DEF Return, loaderVars
  <2>2. CASE result' = "ok"
    <3>1. rpc = "gotOK"
      BY <1>3, <2>2 DEF Return, Verdict, IInv, CallerInv, ReadResults
    <3>2. dest = Data /\ sent > 0
      BY <1>0, <3>1 DEF IInv, ReaderInv, LoaderInv
    <3>3. outcome = "writing" /\ outcome' = "ok"
      BY <2>1, <2>2, <3>2 DEF outcome
    <3> QED BY <2>1, <3>2, <3>3 DEF U!UploadNext, U!ReportOK
  <2>3. CASE result' # "ok" /\ sent = 0
    <3>1. outcome = "idle" /\ outcome' = "refused"
      BY <2>1, <2>3 DEF outcome
    <3> QED BY <2>1, <3>1 DEF U!UploadNext, U!ReportRefused
  <2>4. CASE result' # "ok" /\ sent # 0
    <3>1. outcome = "writing" /\ outcome' = "broken"
      BY <2>1, <2>4 DEF outcome
    <3> QED BY <2>1, <3>1 DEF U!UploadNext, U!ReportBroken
  <2> QED BY <2>2, <2>3, <2>4
<1>4. CASE WriteUnit
  <2>1. mpc # "returned" /\ UNCHANGED <<mpc, dest>> /\ sent' = sent + 1
    BY <1>4 DEF WriteUnit, loaderVars, IInv, CallerInv
  <2>2. outcome \in {"idle", "writing"} /\ outcome' = "writing"
    BY <1>0, <2>1 DEF outcome
  <2> QED BY <1>0, <2>2 DEF U!UploadNext, U!StartWriting, U!Write
<1>5. CASE WriteEnds \/ WriteFails \/ ReaderStep
  BY <1>5 DEF WriteEnds, WriteFails, ReaderStep, ReadType, ReadBody, ReadFails, ReadTimesOut,
              outcome, loaderVars
<1>6. CASE Open \/ CopyUnit
  <2>1. sent > 0 /\ UNCHANGED <<mpc, result, sent>>
    BY <1>0, <1>6 DEF Open, CopyUnit, hostVars, IInv, LoaderInv
  <2>2. mpc = "returned" => result # "ok"
    BY <1>6 DEF Open, CopyUnit, IInv, CallerInv, ReaderInv, Verdict, ReadResults
  <2>3. outcome \in {"writing", "broken"} /\ outcome' = outcome
    BY <2>1, <2>2 DEF outcome
  <2> QED BY <1>0, <2>3 DEF U!UploadNext, U!Write, U!WriteLate
<1>7. CASE LoaderStep /\ ~(Open \/ CopyUnit)
  BY <1>7 DEF LoaderStep, Connect, CannotConnect, ReadHeader, CloseOutput, SendOK, SendError,
              SendErrorBody, Drain, outcome, hostVars
<1>8. CASE Reset \/ LinkDown \/ Done
  BY <1>8 DEF Reset, LinkDown, Done, vars, outcome, hostVars, loaderVars
<1> QED BY <1>1, <1>2, <1>3, <1>4, <1>5, <1>6, <1>7, <1>8 DEF Next, HostStep, WriterStep

\* AcceptAndPush and the fileloader keep the promise of Upload: success only with
\* exactly the file, and no write of a fileloader that is late after it, after a
\* SetupError or when the local file could not be read.
THEOREM FastPushImplementsUpload == Spec => ImplementsUpload
<1>1. IInv /\ IInv' /\ [Next]_vars => [U!UploadNext]_<<dest, outcome>>
  <2> SUFFICES ASSUME IInv, IInv', [Next]_vars
               PROVE  U!UploadNext \/ UNCHANGED <<dest, outcome>>
    OBVIOUS
  <2>1. CASE UNCHANGED vars
    BY <2>1 DEF vars, hostVars, loaderVars, outcome
  <2> QED BY <2>1, StepImplements
<1> QED BY <1>1, InitImplements, FastPushInvariance, PTL
        DEF Spec, ImplementsUpload, U!UploadSpec, U!uploadVars
=============================================================================
