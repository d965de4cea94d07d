--------------------------- MODULE FastPullProofs ---------------------------
(***************************************************************************)
(* Theorems about FastPull, for every size of the file, of the buffer of   *)
(* the fileloader and of the socket buffers, and for every number of       *)
(* changes by other programs.                                              *)
(***************************************************************************)
EXTENDS FastPull, SequenceTheorems, TLAPS

USE FastPullAssumption

-----------------------------------------------------------------------------
(* The inductive invariant *)

Messages == [kind : {"PULL", "DATA", "unit", "ERROR", "message"}, value : Nat]

\* Messages of the stream that the workstation has taken, while it is at work.
Taken ==
  IF mpc \in {"accept", "type"} THEN 0
  ELSE IF mpc \in {"size", "message"} THEN 1
  ELSE 2 + Len(got)

\* Messages that the fileloader has sent, taken or not.
Ahead == Taken + Len(stream)

\* The first message, while it is in the stream.
FirstKind == IF mpc \in {"accept", "type"} /\ Len(stream) > 0 THEN stream[1].kind ELSE "none"

\* The workstation: what it waits for is the number of units it has, and what it
\* expects is what the fileloader has found.
HostInv ==
  /\ mpc \in {"accept", "type", "message", "size", "data", "write", "written", "returned"}
  /\ result \in {"none", "setup", "io", "remote", "protocol", "writeFile", "ok"}
  /\ expected \in Nat /\ got \in Contents /\ local \in Contents /\ hostgone \in BOOLEAN
  /\ Len(got) <= expected
  /\ mpc \in {"accept", "type", "message", "size"} => got = <<>>
  /\ mpc \in {"data", "write", "written"} => expected = total
  /\ mpc = "data" => Len(got) < expected
  /\ mpc \in {"write", "written"} => Len(got) = expected
  /\ mpc = "written" => result \in {"ok", "writeFile"}
  /\ result = "ok" => /\ mpc \in {"written", "returned"} /\ dpc \notin {"connect", "open"}
                      /\ local = got /\ Len(got) = total

\* The fileloader: what it has read and not sent is its buffer.
LoaderInv ==
  /\ dpc \in {"connect", "open", "announce", "size", "read", "send", "close",
              "error", "message", "refused", "gone", "absent"}
  /\ total \in Nat /\ pos \in Nat /\ sent \in Nat /\ out \in Contents /\ fin \in BOOLEAN
  /\ sent + Len(out) = pos
  /\ dpc = "send" => out # <<>>
  /\ dpc \notin {"send", "gone"} => out = <<>>
  /\ dpc \in {"connect", "open", "announce", "size"} => sent = 0
  /\ dpc \in {"connect", "open"} => total = 0
  /\ fin => dpc \in {"gone", "refused"}

FileInv ==
  /\ file \in Contents /\ changes \in 0..MaxChanges
  /\ shrunk \in BOOLEAN /\ link \in BOOLEAN

\* The stream: as many messages as the fileloader has sent and the workstation has
\* not taken.
CountInv ==
  /\ stream \in Seq(Messages) /\ Len(stream) <= Window
  /\ mpc # "returned" =>
       /\ dpc \in {"connect", "open", "announce", "error", "absent"} => Ahead = 0
       /\ dpc \in {"size", "message"} => Ahead = 1
       /\ dpc \in {"read", "send", "close"} => Ahead = 2 + sent
       /\ dpc = "refused" => Ahead = 2

\* They are in the order of one of the two replies.
OrderInv ==
  mpc # "returned" =>
    /\ dpc \in {"size", "read", "send", "close"} =>
         mpc # "message" /\ FirstKind \in {"PULL", "none"}
    /\ dpc \in {"message", "refused"} =>
         mpc \in {"accept", "type", "message"} /\ FirstKind \in {"ERROR", "none"}
    /\ FirstKind = "PULL" /\ Len(stream) > 1 => stream[2].value = total
    /\ mpc = "size" /\ Len(stream) > 0 => stream[1].value = total

\* A refusal is lost only with the link, or when the connection was not accepted.
RefusalInv ==
  mpc = "returned" =>
    /\ dpc \in {"connect", "open", "announce", "error", "absent"} => result = "setup" \/ ~link
    /\ dpc \in {"message", "refused"} => result \in {"setup", "remote"} \/ ~link

\* v is a unit, and the n-th of the file unless the file has been shortened.
Unit(n, v) == v \in 0..(Size + 1) /\ (~shrunk => n <= Len(file) /\ v = file[n])

\* The messages in flight after the reply has begun are units of the file.
InFlight ==
  mpc # "returned" =>
    \A i \in 1..Len(stream) : Taken + i > 2 => Unit(Taken + i - 2, stream[i].value)

\* What has been received and what is still to be sent are units of the file.
ContentInv ==
  /\ ~shrunk => total <= Len(file) /\ pos <= Len(file)
  /\ \A i \in 1..Len(got) : Unit(i, got[i])
  /\ \A i \in 1..Len(out) : Unit(sent + i, out[i])

IInv == HostInv /\ LoaderInv /\ FileInv /\ CountInv /\ OrderInv /\ RefusalInv /\ InFlight /\ ContentInv

-----------------------------------------------------------------------------
(* Lemmas about the connection *)

\* The message taken is the first one, the others move up by one.
LEMMA Received ==
  ASSUME stream \in Seq(Messages), Receives
  PROVE  /\ Len(stream) \in Nat \ {0}
         /\ Head(stream) = stream[1] /\ stream[1] \in Messages
         /\ stream' \in Seq(Messages) /\ Len(stream') = Len(stream) - 1
         /\ \A i \in 1..Len(stream') : stream'[i] = stream[i + 1]
<1>1. stream # <<>> /\ stream' = Tail(stream)
  BY DEF Receives
<1>2. /\ Head(stream) \in Messages /\ Tail(stream) \in Seq(Messages)
      /\ Len(Tail(stream)) = Len(stream) - 1
      /\ \A i \in 1..Len(Tail(stream)) : Tail(stream)[i] = stream[i + 1]
  BY <1>1, HeadTailProperties
<1>3. Head(stream) = stream[1]
  OBVIOUS
<1>4. Len(stream) \in Nat \ {0}
  BY <1>1, EmptySeq
<1> QED BY <1>1, <1>2, <1>3, <1>4

\* The message sent is the last one, the others stay.
Sends(m) ==
  /\ Len(stream) \in Nat /\ stream' \in Seq(Messages)
  /\ Len(stream') = Len(stream) + 1 /\ Len(stream') <= Window
  /\ \A i \in 1..Len(stream) : stream'[i] = stream[i]
  /\ stream'[Len(stream) + 1] = m
  /\ Taken \in Nat /\ Taken' = Taken /\ Ahead' = Ahead + 1
  /\ ~hostgone

LEMMA Sent ==
  ASSUME stream \in Seq(Messages), got \in Contents, NEW m \in Messages, Send(m),
         UNCHANGED <<mpc, got>>
  PROVE  Sends(m)
<1>1. stream' = Append(stream, m) /\ Len(stream) \in Nat /\ Len(stream) < Window /\ ~hostgone
  BY DEF Send, CanSend
<1>2. /\ stream' \in Seq(Messages) /\ Len(stream') = Len(stream) + 1
      /\ \A i \in 1..Len(stream) : stream'[i] = stream[i]
      /\ stream'[Len(stream) + 1] = m
  BY <1>1, AppendProperties
<1>3. Taken' = Taken /\ Taken \in Nat
  BY DEF Taken, Contents
<1> QED BY <1>1, <1>2, <1>3 DEF Ahead, Sends

\* What a failed WriteFile has written is a part of what was received.
LEMMA PrefixIsContents ==
  ASSUME NEW s \in Contents, NEW n \in 0..Len(s)
  PROVE  SubSeq(s, 1, n) \in Contents
<1>1. \A i \in 1..n : s[i] \in 0..(Size + 1)
  BY DEF Contents
<1> QED BY <1>1, SubSeqProperties DEF Contents

\* Taking a message keeps what is said of the others.
LEMMA TakingKeepsInFlight ==
  ASSUME stream \in Seq(Messages), InFlight, Receives, mpc # "returned",
         Taken \in Nat, Taken' = Taken + 1, UNCHANGED <<file, shrunk>>
  PROVE  InFlight'
<1>1. SUFFICES ASSUME NEW i \in 1..Len(stream'), Taken' + i > 2
               PROVE  Unit(Taken' + i - 2, stream'[i].value)
  BY DEF InFlight, Unit
<1>2. i + 1 \in 1..Len(stream) /\ stream'[i] = stream[i + 1] /\ i \in Nat
  BY Received
<1>3. Taken + (i + 1) = Taken' + i
  BY <1>2
<1>4. Unit(Taken + (i + 1) - 2, stream[i + 1].value)
  BY <1>1, <1>2, <1>3 DEF InFlight
<1> QED BY <1>2, <1>3, <1>4

\* Sending a unit at its place keeps what is said of those in flight.
LEMMA SendingKeepsInFlight ==
  ASSUME NEW m \in Messages, Sends(m), InFlight, mpc # "returned" /\ Ahead > 1 => Unit(Ahead - 1, m.value),
         UNCHANGED <<file, shrunk, mpc>>
  PROVE  InFlight'
<1>1. SUFFICES ASSUME mpc # "returned", NEW i \in 1..Len(stream'), Taken' + i > 2
               PROVE  Unit(Taken' + i - 2, stream'[i].value)
  BY DEF InFlight, Unit
<1>2. Taken' = Taken /\ Taken \in Nat
  BY DEF Sends
<1>3. i \in Nat /\ Len(stream) \in Nat /\ Len(stream') = Len(stream) + 1
  BY DEF Sends
<1>4. CASE i \in 1..Len(stream)
  <2>1. stream'[i] = stream[i]
    BY <1>4 DEF Sends
  <2>2. Unit(Taken + i - 2, stream[i].value)
    BY <1>1, <1>2, <1>4 DEF InFlight
  <2> QED BY <1>2, <2>1, <2>2
<1>5. CASE i = Len(stream) + 1
  <2>1. stream'[i] = m
    BY <1>5 DEF Sends
  <2>2. Taken' + i - 2 = Ahead - 1 /\ Ahead > 1
    BY <1>1, <1>2, <1>3, <1>5 DEF Ahead
  <2> QED BY <1>1, <2>1, <2>2
<1> QED BY <1>3, <1>4, <1>5

-----------------------------------------------------------------------------
(* Every step keeps it *)

\* The fileloader: what it sends is the next message of the reply.
LEMMA SendSteps ==
  ASSUME IInv, Announce \/ SendSize \/ SendData \/ SendError \/ SendMessage
  PROVE  IInv'
<1> USE DEF IInv
<1>1. CASE Announce
  <2> DEFINE m == [kind |-> "PULL", value |-> 0]
  <2>1. m \in Messages /\ m.kind = "PULL" /\ m.value = 0
    BY DEF Messages, LoaderInv
  <2> HIDE DEF m
  <2>2. Send(m) /\ UNCHANGED <<hostVars, fileVars>> /\ UNCHANGED <<mpc, got, file, shrunk>>
    BY <1>1 DEF Announce, m, hostVars, fileVars
  <2>3. Sends(m)
    BY <2>1, <2>2, Sent DEF HostInv, CountInv
  <2>4. HostInv' /\ FileInv' /\ RefusalInv'
    BY <1>1, <2>2, <2>3 DEF Announce, HostInv, FileInv, RefusalInv, Sends, hostVars, fileVars, LoaderInv
  <2>5. LoaderInv'
    BY <1>1 DEF Announce, LoaderInv
  <2>6. CountInv'
    BY <1>1, <2>2, <2>3 DEF Announce, CountInv, Sends, LoaderInv
  <2>7. OrderInv'
    BY <1>1, <2>1, <2>2, <2>3 DEF Announce, OrderInv, CountInv, FirstKind, Sends, Ahead, Taken, HostInv, LoaderInv
  <2>8. InFlight'
    BY <1>1, <2>1, <2>2, <2>3, SendingKeepsInFlight DEF Announce, CountInv
  <2>9. ContentInv'
    BY <1>1, <2>2 DEF Announce, ContentInv, Unit, LoaderInv
  <2> QED BY <2>4, <2>5, <2>6, <2>7, <2>8, <2>9
<1>2. CASE SendSize
  <2> DEFINE m == [kind |-> "DATA", value |-> total]
  <2>1. m \in Messages /\ m.kind = "DATA" /\ m.value = total
    BY DEF Messages, LoaderInv
  <2> HIDE DEF m
  <2>2. Send(m) /\ UNCHANGED <<hostVars, fileVars>> /\ UNCHANGED <<mpc, got, file, shrunk>>
    BY <1>2 DEF SendSize, m, hostVars, fileVars
  <2>3. Sends(m)
    BY <2>1, <2>2, Sent DEF HostInv, CountInv
  <2>4. HostInv' /\ FileInv' /\ RefusalInv'
    BY <1>2, <2>2, <2>3 DEF SendSize, HostInv, FileInv, RefusalInv, Sends, hostVars, fileVars, LoaderInv
  <2>5. LoaderInv'
    BY <1>2 DEF SendSize, LoaderInv
  <2>6. CountInv'
    BY <1>2, <2>2, <2>3 DEF SendSize, CountInv, Sends, LoaderInv
  <2>7. OrderInv'
    BY <1>2, <2>1, <2>2, <2>3 DEF SendSize, OrderInv, CountInv, FirstKind, Sends, Ahead, Taken, HostInv, LoaderInv
  <2>8. InFlight'
    BY <1>2, <2>1, <2>2, <2>3, SendingKeepsInFlight DEF SendSize, CountInv
  <2>9. ContentInv'
    BY <1>2, <2>2 DEF SendSize, ContentInv, Unit, LoaderInv
  <2> QED BY <2>4, <2>5, <2>6, <2>7, <2>8, <2>9
<1>3. CASE SendData
  <2> DEFINE m == [kind |-> "unit", value |-> out[1]]
  <2>1. dpc = "send" /\ out \in Contents /\ out # <<>> /\ Len(out) \in Nat \ {0} /\ sent \in Nat
    BY <1>3, EmptySeq DEF SendData, LoaderInv, Contents
  <2>2. /\ Tail(out) \in Contents /\ Len(Tail(out)) = Len(out) - 1
        /\ \A i \in 1..(Len(out) - 1) : Tail(out)[i] = out[i + 1]
        /\ out[1] \in Nat
    BY <2>1, HeadTailProperties DEF Contents
  <2>3. m \in Messages /\ m.kind = "unit" /\ m.value = out[1]
    BY <2>2 DEF Messages
  <2> HIDE DEF m
  <2>4. Send(m) /\ UNCHANGED <<hostVars, fileVars>> /\ UNCHANGED <<mpc, got, file, shrunk>>
    BY <1>3 DEF SendData, m, hostVars, fileVars
  <2>5. /\ out' = Tail(out) /\ sent' = sent + 1 /\ UNCHANGED <<total, pos, fin, link>>
        /\ dpc' = IF out' # <<>> THEN "send" ELSE IF sent' < total THEN "read" ELSE "close"
    BY <1>3 DEF SendData
  <2>6. Sends(m)
    BY <2>3, <2>4, Sent DEF HostInv, CountInv
  <2>7. HostInv' /\ FileInv' /\ RefusalInv'
    BY <2>1, <2>4, <2>5, <2>6 DEF HostInv, FileInv, RefusalInv, Sends, hostVars, fileVars, LoaderInv
  <2>8. LoaderInv'
    BY <2>1, <2>2, <2>5 DEF LoaderInv
  <2>9. CountInv'
    BY <2>1, <2>4, <2>5, <2>6 DEF CountInv, Sends
  <2>10. OrderInv'
    <3>1. SUFFICES ASSUME mpc # "returned"
                   PROVE  OrderInv'
      BY <2>4 DEF OrderInv
    <3>2. Ahead = 2 + sent /\ Ahead = Taken + Len(stream) /\ mpc' = mpc /\ total' = total
      BY <2>1, <2>4, <2>5, <3>1 DEF CountInv, Ahead
    <3>3. mpc \in {"accept", "type"} => Taken = 0
      BY DEF Taken
    <3>4. mpc = "size" => Taken = 1
      BY DEF Taken
    <3>5. mpc \in {"accept", "type"} => Len(stream) >= 2 /\ stream'[1] = stream[1] /\ stream'[2] = stream[2]
      BY <2>1, <2>6, <3>2, <3>3 DEF Sends
    <3>6. mpc = "size" => Len(stream) >= 1 /\ stream'[1] = stream[1]
      BY <2>1, <2>6, <3>2, <3>4 DEF Sends
    <3>7. FirstKind' = FirstKind
      BY <2>6, <3>2, <3>5 DEF FirstKind, Sends
    <3>8. dpc' \in {"send", "read", "close"}
      BY <2>5
    <3> QED BY <2>1, <2>6, <3>1, <3>2, <3>5, <3>6, <3>7, <3>8 DEF OrderInv, Sends, FirstKind
  <2>11. InFlight'
    <3>1. Unit(sent + 1, out[1])
      BY <2>1 DEF ContentInv
    <3>2. mpc # "returned" => Ahead - 1 = sent + 1
      BY <2>1 DEF CountInv
    <3> QED BY <2>3, <2>4, <2>6, <3>1, <3>2, SendingKeepsInFlight
  <2>12. ContentInv'
    BY <2>1, <2>2, <2>4, <2>5 DEF ContentInv, Unit, hostVars, fileVars
  <2> QED BY <2>7, <2>8, <2>9, <2>10, <2>11, <2>12
<1>4. CASE SendError
  <2> DEFINE m == [kind |-> "ERROR", value |-> 0]
  <2>1. m \in Messages /\ m.kind = "ERROR" /\ m.value = 0
    BY DEF Messages, LoaderInv
  <2> HIDE DEF m
  <2>2. Send(m) /\ UNCHANGED <<hostVars, fileVars>> /\ UNCHANGED <<mpc, got, file, shrunk>>
    BY <1>4 DEF SendError, m, hostVars, fileVars
  <2>3. Sends(m)
    BY <2>1, <2>2, Sent DEF HostInv, CountInv
  <2>4. HostInv' /\ FileInv' /\ RefusalInv'
    BY <1>4, <2>2, <2>3 DEF SendError, HostInv, FileInv, RefusalInv, Sends, hostVars, fileVars, LoaderInv
  <2>5. LoaderInv'
    BY <1>4 DEF SendError, LoaderInv
  <2>6. CountInv'
    BY <1>4, <2>2, <2>3 DEF SendError, CountInv, Sends, LoaderInv
  <2>7. OrderInv'
    BY <1>4, <2>1, <2>2, <2>3 DEF SendError, OrderInv, CountInv, FirstKind, Sends, Ahead, Taken, HostInv, LoaderInv
  <2>8. InFlight'
    BY <1>4, <2>1, <2>2, <2>3, SendingKeepsInFlight DEF SendError, CountInv
  <2>9. ContentInv'
    BY <1>4, <2>2 DEF SendError, ContentInv, Unit, LoaderInv
  <2> QED BY <2>4, <2>5, <2>6, <2>7, <2>8, <2>9
<1>5. CASE SendMessage
  <2> DEFINE m == [kind |-> "message", value |-> 0]
  <2>1. m \in Messages /\ m.kind = "message" /\ m.value = 0
    BY DEF Messages, LoaderInv
  <2> HIDE DEF m
  <2>2. Send(m) /\ UNCHANGED <<hostVars, fileVars>> /\ UNCHANGED <<mpc, got, file, shrunk>>
    BY <1>5 DEF SendMessage, m, hostVars, fileVars
  <2>3. Sends(m)
    BY <2>1, <2>2, Sent DEF HostInv, CountInv
  <2>4. HostInv' /\ FileInv' /\ RefusalInv'
    BY <1>5, <2>2, <2>3 DEF SendMessage, HostInv, FileInv, RefusalInv, Sends, hostVars, fileVars, LoaderInv
  <2>5. LoaderInv'
    BY <1>5 DEF SendMessage, LoaderInv
  <2>6. CountInv'
    BY <1>5, <2>2, <2>3 DEF SendMessage, CountInv, Sends, LoaderInv
  <2>7. OrderInv'
    BY <1>5, <2>1, <2>2, <2>3 DEF SendMessage, OrderInv, CountInv, FirstKind, Sends, Ahead, Taken, HostInv, LoaderInv
  <2>8. InFlight'
    BY <1>5, <2>1, <2>2, <2>3, SendingKeepsInFlight DEF SendMessage, CountInv
  <2>9. ContentInv'
    BY <1>5, <2>2 DEF SendMessage, ContentInv, Unit, LoaderInv
  <2> QED BY <2>4, <2>5, <2>6, <2>7, <2>8, <2>9
<1> QED BY <1>1, <1>2, <1>3, <1>4, <1>5

\* The other steps of the fileloader add nothing to the stream.
LEMMA LoaderSteps ==
  ASSUME IInv, Open \/ ReadFile \/ Connect \/ CannotConnect \/ SendFails \/ Exit
  PROVE  IInv'
<1> USE DEF IInv
<1>1. CASE Open
  <2>0. /\ pos' = pos /\ out' = out /\ sent' = sent /\ stream' = stream /\ mpc' = mpc /\ got' = got
        /\ file' = file /\ shrunk' = shrunk /\ Taken' = Taken /\ Len(out) \in Nat /\ Len(file) \in Nat
    BY <1>1 DEF Open, Taken, LoaderInv, FileInv, Contents, hostVars, fileVars
  <2>1. HostInv' /\ LoaderInv' /\ FileInv' /\ RefusalInv'
    <3>1. HostInv'
      BY <1>1 DEF Open, HostInv, CountInv, Ahead, Taken, hostVars, fileVars, loaderVars
    <3>2. LoaderInv'
      <4>1. dpc = "open" /\ out = <<>>
        BY <1>1 DEF Open, LoaderInv
      <4>2. CASE dpc' = "announce" /\ total' = Len(file) /\ UNCHANGED fin
        BY <2>0, <4>1, <4>2 DEF LoaderInv
      <4>3. CASE dpc' = "error" /\ UNCHANGED <<total, fin>>
        BY <2>0, <4>1, <4>3 DEF LoaderInv
      <4>4. CASE dpc' = "gone" /\ fin' = TRUE /\ UNCHANGED total
        BY <2>0, <4>1, <4>4 DEF LoaderInv
      <4> QED BY <1>1, <4>2, <4>3, <4>4 DEF Open
    <3>3. FileInv'
      BY <1>1 DEF Open, FileInv, hostVars, fileVars, loaderVars
    <3>4. RefusalInv'
      BY <1>1 DEF Open, RefusalInv, hostVars, fileVars, loaderVars
    <3> QED BY <3>1, <3>2, <3>3, <3>4
  <2>2. CountInv' /\ OrderInv'
    BY <1>1 DEF Open, CountInv, OrderInv, FirstKind, Ahead, Taken, HostInv, hostVars
  <2>3. InFlight'
    BY <1>1, <2>0 DEF InFlight, Unit
  <2>4. ContentInv'
    BY <1>1, <2>0 DEF Open, ContentInv, Unit, LoaderInv
  <2> QED BY <2>1, <2>2, <2>3, <2>4
<1>2. CASE ReadFile
  <2>1. dpc = "read" /\ out = <<>> /\ Len(out) = 0 /\ sent = pos /\ pos \in Nat
    BY <1>2, EmptySeq DEF ReadFile, LoaderInv
  <2>2. UNCHANGED <<total, sent, fin, stream, fileVars, hostVars, link>>
    BY <1>2 DEF ReadFile
  <2>3. CASE dpc' = "close" /\ UNCHANGED <<out, pos>>
    <3>1. HostInv' /\ LoaderInv' /\ FileInv' /\ RefusalInv'
      BY <2>1, <2>2, <2>3 DEF HostInv, LoaderInv, FileInv, RefusalInv, hostVars, fileVars
    <3>2. CountInv' /\ OrderInv'
      BY <2>1, <2>2, <2>3 DEF CountInv, OrderInv, FirstKind, Ahead, Taken, hostVars
    <3>3. InFlight' /\ ContentInv'
      BY <2>1, <2>2, <2>3 DEF InFlight, ContentInv, Unit, Taken, hostVars, fileVars
    <3> QED BY <3>1, <3>2, <3>3
  <2>4. ASSUME NEW n \in 1..Buffer, pos + n <= Len(file), dpc' = "send",
               out' = SubSeq(file, pos + 1, pos + n), pos' = pos + n
        PROVE  IInv'
    <3>1. n \in Nat \ {0} /\ \A i \in (pos + 1)..(pos + n) : file[i] \in 0..(Size + 1)
      BY <2>1, <2>4 DEF FileInv, Contents
    <3>2. out' \in Contents /\ Len(out') = n /\ \A i \in 1..n : out'[i] = file[pos + i]
      BY <2>1, <2>4, <3>1, SubSeqProperties DEF Contents
    <3>3. out' # <<>>
      BY <3>1, <3>2, EmptySeq
    <3>4. HostInv' /\ LoaderInv' /\ FileInv' /\ RefusalInv'
      BY <2>1, <2>2, <2>4, <3>1, <3>2, <3>3 DEF HostInv, LoaderInv, FileInv, RefusalInv, hostVars, fileVars
    <3>5. CountInv' /\ OrderInv'
      BY <2>1, <2>2, <2>4 DEF CountInv, OrderInv, FirstKind, Ahead, Taken, hostVars
    <3>6. InFlight'
      BY <2>2 DEF InFlight, Unit, Taken, hostVars, fileVars
    <3>7. ContentInv'
      BY <2>1, <2>2, <2>4, <3>1, <3>2 DEF ContentInv, Unit, hostVars, fileVars
    <3> QED BY <3>4, <3>5, <3>6, <3>7
  <2> QED BY <1>2, <2>3, <2>4 DEF ReadFile
<1>3. CASE Connect \/ CannotConnect
  <2>0. /\ pos' = pos /\ out' = out /\ sent' = sent /\ stream' = stream /\ mpc' = mpc /\ got' = got
        /\ file' = file /\ shrunk' = shrunk /\ Taken' = Taken /\ Len(out) \in Nat /\ Len(file) \in Nat
    BY <1>3 DEF Connect, CannotConnect, Taken, LoaderInv, FileInv, Contents, hostVars, fileVars
  <2>1. HostInv' /\ LoaderInv' /\ FileInv' /\ RefusalInv'
    <3>1. HostInv'
      BY <1>3 DEF Connect, CannotConnect, HostInv, hostVars, fileVars, loaderVars
    <3>2. LoaderInv'
      BY <1>3, <2>0 DEF Connect, CannotConnect, LoaderInv
    <3>3. FileInv'
      BY <1>3 DEF Connect, CannotConnect, FileInv, hostVars, fileVars, loaderVars
    <3>4. RefusalInv'
      BY <1>3 DEF Connect, CannotConnect, RefusalInv, hostVars, fileVars, loaderVars
    <3> QED BY <3>1, <3>2, <3>3, <3>4
  <2>2. CountInv' /\ OrderInv'
    BY <1>3 DEF Connect, CannotConnect, CountInv, OrderInv, FirstKind, Ahead, Taken, hostVars
  <2>3. InFlight'
    BY <1>3, <2>0 DEF InFlight, Unit
  <2>4. ContentInv'
    BY <1>3, <2>0 DEF Connect, CannotConnect, ContentInv, Unit, LoaderInv
  <2> QED BY <2>1, <2>2, <2>3, <2>4
<1>4. CASE SendFails \/ Exit
  <2>0. /\ pos' = pos /\ out' = out /\ sent' = sent /\ stream' = stream /\ mpc' = mpc /\ got' = got
        /\ file' = file /\ shrunk' = shrunk /\ Taken' = Taken /\ Len(out) \in Nat /\ Len(file) \in Nat
    BY <1>4 DEF SendFails, Exit, Taken, LoaderInv, FileInv, Contents, hostVars, fileVars
  <2>1. HostInv' /\ LoaderInv' /\ FileInv' /\ RefusalInv'
    <3>1. HostInv'
      BY <1>4 DEF SendFails, Exit, HostInv, hostVars, fileVars, loaderVars
    <3>2. LoaderInv'
      BY <1>4, <2>0 DEF SendFails, Exit, LoaderInv
    <3>3. FileInv'
      BY <1>4 DEF SendFails, Exit, FileInv, hostVars, fileVars, loaderVars
    <3>4. RefusalInv'
      BY <1>4 DEF SendFails, Exit, RefusalInv, hostVars, fileVars, loaderVars
    <3> QED BY <3>1, <3>2, <3>3, <3>4
  <2>2. CountInv' /\ OrderInv'
    BY <1>4 DEF SendFails, Exit, CountInv, OrderInv, FirstKind, Ahead, Taken, hostVars
  <2>3. InFlight'
    BY <1>4, <2>0 DEF InFlight, Unit
  <2>4. ContentInv'
    BY <1>4, <2>0 DEF SendFails, Exit, ContentInv, Unit, LoaderInv
  <2> QED BY <2>1, <2>2, <2>3, <2>4
<1> QED BY <1>1, <1>2, <1>3, <1>4

\* The other programs and the network.
LEMMA OtherSteps ==
  ASSUME IInv, Grow \/ Shrink \/ LinkDown
  PROVE  IInv'
<1> USE DEF IInv
<1>1. CASE Grow
  <2>1. UNCHANGED <<shrunk, hostVars, loaderVars, stream, link>> /\ changes' \in 0..MaxChanges
    BY <1>1 DEF Grow, FileInv
  <2>2. file' \in Contents /\ Len(file') = Len(file) + 1 /\ Len(file) \in Nat
        /\ \A i \in 1..Len(file) : file'[i] = file[i]
    BY <1>1, AppendProperties DEF Grow, FileInv, Contents
  <2>3. HostInv' /\ LoaderInv' /\ FileInv' /\ RefusalInv'
    BY <2>1, <2>2 DEF HostInv, LoaderInv, FileInv, RefusalInv, hostVars, loaderVars
  <2>4. CountInv' /\ OrderInv'
    BY <2>1 DEF CountInv, OrderInv, FirstKind, Ahead, Taken, hostVars, loaderVars
  <2>5. \A n \in Nat \ {0} : \A v : Unit(n, v) => Unit(n, v)'
    BY <2>1, <2>2 DEF Unit
  <2>6. /\ got' = got /\ out' = out /\ stream' = stream /\ sent' = sent /\ Taken' = Taken
        /\ mpc' = mpc /\ dpc' = dpc /\ pos' = pos /\ total' = total /\ shrunk' = shrunk
    BY <2>1 DEF hostVars, loaderVars, Taken
  <2>7. sent \in Nat /\ Taken \in Nat /\ total \in Nat /\ pos \in Nat
    BY DEF HostInv, LoaderInv, Taken, Contents
  <2>8. InFlight'
    BY <2>5, <2>6, <2>7 DEF InFlight
  <2>9. ContentInv'
    <3>1. ~shrunk' => total' <= Len(file') /\ pos' <= Len(file')
      BY <2>2, <2>6, <2>7 DEF ContentInv
    <3>2. \A i \in 1..Len(got') : Unit(i, got[i])'
      BY <2>5, <2>6 DEF ContentInv
    <3>3. \A i \in 1..Len(out') : Unit(sent + i, out[i])'
      BY <2>5, <2>6, <2>7 DEF ContentInv
    <3> QED BY <3>1, <3>2, <3>3 DEF ContentInv
  <2> QED BY <2>3, <2>4, <2>8, <2>9
<1>2. CASE Shrink
  <2>1. UNCHANGED <<hostVars, loaderVars, stream, link>> /\ changes' \in 0..MaxChanges /\ shrunk'
    BY <1>2 DEF Shrink, FileInv
  <2>2. file' \in Contents
    <3>1. PICK n \in 0..(Len(file) - 1) : file' = SubSeq(file, 1, n)
      BY <1>2 DEF Shrink
    <3>2. n \in 0..Len(file)
      BY DEF FileInv, Contents
    <3> QED BY <3>1, <3>2, PrefixIsContents DEF FileInv
  <2>3. HostInv' /\ LoaderInv' /\ FileInv' /\ RefusalInv'
    BY <1>2, <2>1, <2>2 DEF Shrink, HostInv, LoaderInv, FileInv, RefusalInv, hostVars, loaderVars
  <2>4. CountInv' /\ OrderInv'
    BY <2>1 DEF CountInv, OrderInv, FirstKind, Ahead, Taken, hostVars, loaderVars
  <2>5. InFlight' /\ ContentInv'
    BY <2>1 DEF InFlight, ContentInv, Unit, Taken, hostVars, loaderVars
  <2> QED BY <2>3, <2>4, <2>5
<1>3. CASE LinkDown
  <2>1. HostInv' /\ LoaderInv' /\ FileInv' /\ RefusalInv'
    <3>1. HostInv'
      BY <1>3 DEF LinkDown, HostInv, hostVars, fileVars, loaderVars
    <3>2. LoaderInv'
      BY <1>3 DEF LinkDown, LoaderInv, hostVars, fileVars, loaderVars
    <3>3. FileInv'
      BY <1>3 DEF LinkDown, FileInv, hostVars, fileVars, loaderVars
    <3>4. RefusalInv'
      BY <1>3 DEF LinkDown, RefusalInv, hostVars, fileVars, loaderVars
    <3> QED BY <3>1, <3>2, <3>3, <3>4
  <2>2. CountInv' /\ OrderInv'
    BY <1>3 DEF LinkDown, CountInv, OrderInv, FirstKind, Ahead, Taken, hostVars, loaderVars
  <2>3. InFlight'
    BY <1>3 DEF LinkDown, InFlight, Unit, Taken, hostVars, fileVars, loaderVars
  <2>4. ContentInv'
    BY <1>3 DEF LinkDown, ContentInv, Unit, FileInv, LoaderInv, Contents, hostVars, fileVars, loaderVars
  <2> QED BY <2>1, <2>2, <2>3, <2>4
<1> QED BY <1>1, <1>2, <1>3

\* The workstation: what it takes is the next message of the reply.
LEMMA TakeSteps ==
  ASSUME IInv, ReadType \/ ReadMessage \/ ReadSize \/ ReadData
  PROVE  IInv'
<1> USE DEF IInv
<1>1. /\ Len(stream) \in Nat \ {0}
      /\ Head(stream) = stream[1] /\ stream[1] \in Messages
      /\ stream' \in Seq(Messages) /\ Len(stream') = Len(stream) - 1
      /\ \A i \in 1..Len(stream') : stream'[i] = stream[i + 1]
  BY Received DEF CountInv, ReadType, ReadMessage, ReadSize, ReadData
<1>2. Len(stream) <= Window /\ Len(got) \in Nat /\ Taken \in Nat /\ link
  BY DEF CountInv, HostInv, Contents, Taken, ReadType, ReadMessage, ReadSize, ReadData, Receives
<1>3. CASE ReadType
  <2>1. /\ mpc = "type" /\ UNCHANGED <<result, expected, got, local, hostgone, fileVars, loaderVars, link>>
        /\ mpc' = IF stream[1].kind = "PULL" THEN "size" ELSE "message"
    BY <1>1, <1>3 DEF ReadType
  <2>2. Taken = 0 /\ Taken' = 1 /\ Ahead' = Ahead /\ FirstKind = stream[1].kind
    BY <1>1, <1>2, <2>1 DEF Taken, Ahead, FirstKind
  <2>3. HostInv' /\ LoaderInv' /\ FileInv' /\ RefusalInv'
    BY <2>1 DEF HostInv, LoaderInv, FileInv, RefusalInv, fileVars, loaderVars
  <2>4. CountInv'
    BY <1>1, <1>2, <2>1, <2>2 DEF CountInv, fileVars, loaderVars
  <2>5. OrderInv'
    <3>1. stream[1].kind \in {"PULL", "DATA", "unit", "ERROR", "message"}
      BY <1>1 DEF Messages
    <3>2. dpc \in {"size", "read", "send", "close"} => mpc' = "size"
      BY <2>1, <2>2, <3>1 DEF OrderInv
    <3>3. dpc \in {"message", "refused"} => mpc' = "message"
      BY <2>1, <2>2, <3>1 DEF OrderInv
    <3>4. mpc' = "size" /\ Len(stream') > 0 => stream'[1].value = total
      <4>1. ASSUME mpc' = "size", Len(stream') > 0
            PROVE  FirstKind = "PULL" /\ Len(stream) > 1 /\ stream'[1] = stream[2]
        BY <1>1, <2>1, <2>2, <4>1
      <4> QED BY <2>1, <4>1 DEF OrderInv
    <3>5. FirstKind' = "none" /\ dpc' = dpc /\ total' = total /\ mpc' \in {"size", "message"}
      BY <2>1 DEF FirstKind, loaderVars
    <3> QED BY <3>2, <3>3, <3>4, <3>5 DEF OrderInv
  <2>6. InFlight'
    BY <1>3, <2>1, <2>2, TakingKeepsInFlight DEF ReadType, CountInv, fileVars
  <2>7. ContentInv'
    BY <2>1 DEF ContentInv, Unit, fileVars, loaderVars
  <2> QED BY <2>3, <2>4, <2>5, <2>6, <2>7
<1>4. CASE ReadMessage
  <2>1. /\ mpc = "message" /\ mpc' = "returned" /\ result' = "remote" /\ hostgone' = TRUE
        /\ UNCHANGED <<expected, got, local, fileVars, loaderVars, link>>
    BY <1>4 DEF ReadMessage, Fail
  <2>2. Taken = 1 /\ dpc \notin {"connect", "open", "announce", "error", "absent"}
    BY <1>1, <1>2, <2>1 DEF Taken, Ahead, CountInv
  <2>3. HostInv'
    BY <2>1 DEF HostInv, fileVars, loaderVars
  <2>4. LoaderInv' /\ FileInv' /\ RefusalInv'
    BY <2>1, <2>2 DEF LoaderInv, FileInv, RefusalInv, fileVars, loaderVars
  <2>5. CountInv' /\ OrderInv' /\ InFlight'
    BY <1>1, <1>2, <2>1 DEF CountInv, OrderInv, InFlight
  <2>6. ContentInv'
    BY <2>1 DEF ContentInv, Unit, fileVars, loaderVars
  <2> QED BY <2>3, <2>4, <2>5, <2>6
<1>5. CASE ReadSize
  <2>1. /\ mpc = "size" /\ UNCHANGED <<result, got, local, hostgone, fileVars, loaderVars, link>>
        /\ expected' = total /\ mpc' = IF total = 0 THEN "write" ELSE "data"
    BY <1>1, <1>5 DEF ReadSize, OrderInv
  <2>2. Taken = 1 /\ got = <<>> /\ Len(got) = 0 /\ total \in Nat
    BY <2>1, EmptySeq DEF Taken, HostInv, LoaderInv
  <2>3. Taken' = 2 /\ Ahead' = Ahead
    BY <1>1, <1>2, <2>1, <2>2 DEF Taken, Ahead
  <2>4. HostInv'
    BY <2>1, <2>2 DEF HostInv, fileVars, loaderVars
  <2>5. LoaderInv' /\ FileInv' /\ RefusalInv'
    BY <2>1 DEF LoaderInv, FileInv, RefusalInv, fileVars, loaderVars
  <2>6. CountInv'
    BY <1>1, <1>2, <2>1, <2>3 DEF CountInv, fileVars, loaderVars
  <2>7. OrderInv'
    <3>1. dpc \notin {"message", "refused"}
      BY <2>1 DEF OrderInv
    <3> QED BY <2>1, <3>1 DEF OrderInv, FirstKind, fileVars, loaderVars
  <2>8. InFlight'
    BY <1>5, <2>1, <2>2, <2>3, TakingKeepsInFlight DEF ReadSize, CountInv, fileVars
  <2>9. ContentInv'
    BY <2>1 DEF ContentInv, Unit, fileVars, loaderVars
  <2> QED BY <2>4, <2>5, <2>6, <2>7, <2>8, <2>9
<1>6. CASE ReadData
  <2>1. /\ mpc = "data" /\ UNCHANGED <<result, expected, local, hostgone, fileVars, loaderVars, link>>
        /\ got' = Append(got, stream[1].value)
        /\ mpc' = IF Len(got') = expected THEN "write" ELSE "data"
    BY <1>1, <1>6 DEF ReadData
  <2>2. Taken = 2 + Len(got) /\ Taken + 1 - 2 = Len(got) + 1
    BY <1>2, <2>1 DEF Taken
  <2>3. Unit(Len(got) + 1, stream[1].value)
    <3>1. 1 \in 1..Len(stream) /\ Taken + 1 > 2
      BY <1>1, <1>2, <2>2
    <3>2. Unit(Taken + 1 - 2, stream[1].value)
      BY <2>1, <3>1 DEF InFlight
    <3> QED BY <2>2, <3>2
  <2>4. /\ got' \in Contents /\ Len(got') = Len(got) + 1
        /\ \A i \in 1..Len(got) : got'[i] = got[i]
        /\ got'[Len(got) + 1] = stream[1].value
    BY <2>1, <2>3, AppendProperties DEF Unit, HostInv, Contents
  <2>5. Taken' = Taken + 1 /\ Ahead' = Ahead
    BY <1>1, <1>2, <2>1, <2>2, <2>4 DEF Taken, Ahead
  <2>6. HostInv'
    BY <1>2, <2>1, <2>4 DEF HostInv, fileVars, loaderVars
  <2>7. LoaderInv' /\ FileInv' /\ RefusalInv'
    BY <2>1 DEF LoaderInv, FileInv, RefusalInv, fileVars, loaderVars
  <2>8. CountInv'
    BY <1>1, <1>2, <2>1, <2>5 DEF CountInv, fileVars, loaderVars
  <2>9. OrderInv'
    BY <2>1 DEF OrderInv, FirstKind, fileVars, loaderVars
  <2>10. InFlight'
    BY <1>2, <1>6, <2>1, <2>5, TakingKeepsInFlight DEF ReadData, CountInv, fileVars
  <2>11. ContentInv'
    <3>1. \A i \in 1..Len(got') : Unit(i, got'[i])
      BY <1>2, <2>3, <2>4 DEF ContentInv
    <3> QED BY <2>1, <3>1 DEF ContentInv, Unit, fileVars, loaderVars
  <2> QED BY <2>6, <2>7, <2>8, <2>9, <2>10, <2>11
<1> QED BY <1>3, <1>4, <1>5, <1>6

\* The other steps of the workstation take nothing.
LEMMA HostSteps ==
  ASSUME IInv, Accept \/ AcceptTimesOut \/ ReadFails \/ WriteLocal \/ Return
  PROVE  IInv'
<1> USE DEF IInv
<1>1. LoaderInv' /\ FileInv' /\ UNCHANGED <<stream, fileVars, loaderVars, link, got, expected>>
  BY DEF Accept, AcceptTimesOut, ReadFails, WriteLocal, Return, Fail, LoaderInv, FileInv,
         fileVars, loaderVars
<1>2. ContentInv'
  BY <1>1 DEF ContentInv, Unit, fileVars, loaderVars
<1>3. CASE Accept
  <2>1. mpc = "accept" /\ mpc' = "type" /\ UNCHANGED <<result, local, hostgone>>
    BY <1>3 DEF Accept
  <2>2. Taken' = Taken /\ Ahead' = Ahead /\ FirstKind' = FirstKind
    BY <1>1, <2>1 DEF Taken, Ahead, FirstKind
  <2>3. HostInv' /\ RefusalInv'
    BY <1>1, <2>1 DEF HostInv, RefusalInv, fileVars, loaderVars
  <2>4. CountInv' /\ OrderInv'
    BY <1>1, <2>1, <2>2 DEF CountInv, OrderInv, loaderVars
  <2>5. InFlight'
    BY <1>1, <2>1, <2>2 DEF InFlight, Unit, fileVars
  <2> QED BY <1>1, <1>2, <2>3, <2>4, <2>5
<1>4. CASE AcceptTimesOut \/ ReadFails \/ Return
  <2>1. mpc' = "returned" /\ hostgone' = TRUE /\ UNCHANGED local
    BY <1>4 DEF AcceptTimesOut, ReadFails, Return, Fail
  <2>2. CountInv' /\ OrderInv' /\ InFlight'
    BY <1>1, <2>1 DEF CountInv, OrderInv, InFlight
  <2>3. HostInv'
    BY <1>1, <1>4, <2>1 DEF AcceptTimesOut, ReadFails, Return, Fail, HostInv, fileVars, loaderVars
  <2>4. RefusalInv'
    <3>1. CASE AcceptTimesOut
      BY <1>1, <3>1 DEF AcceptTimesOut, Fail, RefusalInv, loaderVars
    <3>2. CASE ReadFails
      <4>1. CASE link
        <5>1. fin /\ stream = <<>> /\ Len(stream) = 0 /\ mpc \in {"type", "size", "data", "message"}
          BY <3>2, <4>1, EmptySeq DEF ReadFails
        <5>2. dpc # "refused"
          BY <5>1 DEF CountInv, OrderInv, Ahead, Taken
        <5> QED BY <1>1, <5>1, <5>2 DEF RefusalInv, LoaderInv, loaderVars
      <4>2. CASE ~link
        BY <1>1, <4>2 DEF RefusalInv
      <4> QED BY <4>1, <4>2
    <3>3. CASE Return
      <4>1. mpc = "written" /\ Taken >= 2 /\ Ahead >= 2
        BY <3>3 DEF Return, Taken, Ahead, HostInv, CountInv, Contents
      <4>2. dpc \notin {"connect", "open", "announce", "error", "absent", "message", "refused"}
        BY <4>1 DEF CountInv, OrderInv
      <4> QED BY <1>1, <4>2 DEF RefusalInv, loaderVars
    <3> QED BY <1>4, <3>1, <3>2, <3>3
  <2> QED BY <1>1, <1>2, <2>2, <2>3, <2>4
<1>5. CASE WriteLocal
  <2>1. mpc = "write" /\ mpc' = "written" /\ UNCHANGED hostgone
    BY <1>5 DEF WriteLocal
  <2>2. Taken' = Taken /\ Ahead' = Ahead /\ FirstKind' = FirstKind
    BY <1>1, <2>1 DEF Taken, Ahead, FirstKind
  <2>3. Taken >= 2 /\ Ahead >= 2
    BY <2>1 DEF Taken, Ahead, HostInv, CountInv, Contents
  <2>4. HostInv'
    <3>1. dpc \notin {"connect", "open"}
      BY <2>1, <2>3 DEF CountInv
    <3>2. (result' = "ok" /\ local' = got) \/ (result' = "writeFile" /\ local' \in Contents)
      BY <1>5, PrefixIsContents DEF WriteLocal, HostInv
    <3> QED BY <1>1, <2>1, <3>1, <3>2 DEF HostInv, fileVars, loaderVars
  <2>5. RefusalInv'
    BY <2>1 DEF RefusalInv
  <2>6. CountInv' /\ OrderInv'
    BY <1>1, <2>1, <2>2 DEF CountInv, OrderInv, loaderVars
  <2>7. InFlight'
    BY <1>1, <2>1, <2>2 DEF InFlight, Unit, fileVars
  <2> QED BY <1>1, <1>2, <2>4, <2>5, <2>6, <2>7
<1> QED BY <1>3, <1>4, <1>5

LEMMA InitIInv == Init => IInv
<1> SUFFICES ASSUME Init
             PROVE  IInv
  OBVIOUS
<1>1. /\ mpc = "accept" /\ result = "none" /\ expected = 0 /\ got = <<>> /\ local = OldLocal
      /\ dpc = "connect" /\ changes = 0 /\ shrunk = FALSE /\ total = 0 /\ pos = 0 /\ out = <<>>
      /\ sent = 0 /\ stream = <<>> /\ fin = FALSE /\ hostgone = FALSE /\ link = TRUE
  BY DEF Init
<1>2. /\ got \in Contents /\ out \in Contents /\ stream \in Seq(Messages)
      /\ Len(got) = 0 /\ Len(out) = 0 /\ Len(stream) = 0
  BY <1>1, EmptySeq DEF Contents
<1>3. local \in Contents
  BY <1>1 DEF OldLocal, Contents
<1>4. file \in Contents /\ Len(file) = Size
  <2>1. file = [i \in 1..Size |-> i] /\ file \in [1..Size -> 0..(Size + 1)]
    BY DEF Init
  <2>2. file \in Contents
    BY <2>1, SeqDef DEF Contents
  <2> QED BY <2>1, <2>2, LenProperties DEF Contents
<1>5. shrunk \in BOOLEAN /\ fin \in BOOLEAN /\ hostgone \in BOOLEAN /\ link \in BOOLEAN
  BY <1>1
<1>6. ~fin
  BY <1>1
<1>7. HostInv
  BY <1>1, <1>2, <1>3, <1>5 DEF HostInv
<1>8. LoaderInv
  BY <1>1, <1>2, <1>5, <1>6 DEF LoaderInv
<1>9. FileInv
  BY <1>1, <1>4, <1>5 DEF FileInv
<1>10. CountInv /\ OrderInv /\ RefusalInv /\ InFlight
  BY <1>1, <1>2 DEF CountInv, OrderInv, FirstKind, RefusalInv, InFlight, Ahead, Taken
<1>11. ContentInv
  BY <1>1, <1>2, <1>4 DEF ContentInv
<1> QED BY <1>7, <1>8, <1>9, <1>10, <1>11 DEF IInv

LEMMA StepIInv == IInv /\ [Next]_vars => IInv'
<1> SUFFICES ASSUME IInv, [Next]_vars
             PROVE  IInv'
  OBVIOUS
<1>1. CASE UNCHANGED vars
  <2>1. HostInv' /\ LoaderInv' /\ FileInv' /\ RefusalInv'
    BY <1>1 DEF vars, IInv, HostInv, LoaderInv, FileInv, RefusalInv, hostVars, fileVars, loaderVars
  <2>2. CountInv' /\ OrderInv'
    BY <1>1 DEF vars, IInv, CountInv, OrderInv, FirstKind, Ahead, Taken, hostVars, loaderVars
  <2>3. InFlight' /\ ContentInv'
    BY <1>1 DEF vars, IInv, InFlight, ContentInv, Unit, Taken, hostVars, fileVars, loaderVars
  <2> QED BY <2>1, <2>2, <2>3 DEF IInv
<1>2. CASE HostStep
  BY <1>2, TakeSteps, HostSteps DEF HostStep
<1>3. CASE FileStep \/ SocketStep
  BY <1>3, SendSteps, LoaderSteps DEF FileStep, SocketStep
<1>4. CASE Grow \/ Shrink \/ LinkDown
  BY <1>4, OtherSteps
<1>5. CASE Done
  BY <1>1, <1>5 DEF Done
<1> QED BY <1>1, <1>2, <1>3, <1>4, <1>5 DEF Next

-----------------------------------------------------------------------------
(* The theorems *)

\* The inductive invariant holds in every state of every behaviour.
THEOREM FastPullInvariance == Spec => []IInv
<1>1. Init => IInv
  BY InitIInv
<1>2. IInv /\ [Next]_vars => IInv'
  BY StepIInv
<1> QED BY <1>1, <1>2, PTL DEF Spec

\* The variables stay in their types: the fileloader never sends a unit it has
\* not read, the workstation never takes one more than was announced.
THEOREM FastPullTypes == Spec => []TypeOK
<1>1. IInv => TypeOK
  <2> SUFFICES ASSUME IInv
               PROVE  TypeOK
    OBVIOUS
  <2>1. Len(out) \in Nat
    BY DEF IInv, LoaderInv, Contents
  <2>2. sent \in 0..pos
    BY <2>1 DEF IInv, LoaderInv
  <2>3. {got, local, file, out} \subseteq Contents
    BY DEF IInv, HostInv, LoaderInv, FileInv
  <2>4. {shrunk, fin, hostgone, link} \subseteq BOOLEAN
    BY DEF IInv, HostInv, LoaderInv, FileInv
  <2> QED BY <2>2, <2>3, <2>4 DEF TypeOK, IInv, HostInv, LoaderInv, FileInv, CountInv
<1> QED BY <1>1, FastPullInvariance, PTL

\* A download that succeeds has the size that was announced, whatever the other
\* programs have done to the file and the network to the connection.
THEOREM SuccessIsTheSize == Spec => []SuccessIsWhole
<1>1. IInv => SuccessIsWhole
  BY DEF IInv, HostInv, SuccessIsWhole
<1> QED BY <1>1, FastPullInvariance, PTL

\* As long as the file is not shortened, a download that succeeds is the first
\* units of the file, as many as there were when its size was found.
THEOREM GrowthIsHarmless == Spec => []GrownFileIsItsPrefix
<1>1. IInv => GrownFileIsItsPrefix
  <2> SUFFICES ASSUME IInv, result = "ok", ~shrunk
               PROVE  local = SubSeq(file, 1, total)
    BY DEF GrownFileIsItsPrefix
  <2>1. local = got /\ Len(got) = total /\ got \in Contents /\ file \in Contents /\ total \in Nat
    BY DEF IInv, HostInv, LoaderInv, FileInv
  <2>2. total <= Len(file) /\ \A i \in 1..total : got[i] = file[i]
    BY <2>1 DEF IInv, ContentInv, Unit
  <2>3. \A i \in 1..total : file[i] \in 0..(Size + 1)
    BY <2>1, <2>2 DEF Contents
  <2>4. /\ SubSeq(file, 1, total) \in Contents /\ Len(SubSeq(file, 1, total)) = total
        /\ \A i \in 1..total : SubSeq(file, 1, total)[i] = file[i]
    BY <2>1, <2>3, SubSeqProperties DEF Contents
  <2> QED BY <2>1, <2>2, <2>4, SeqEqual DEF Contents
<1> QED BY <1>1, FastPullInvariance, PTL

\* A refusal of the fileloader is what the user reads, unless the link or the
\* accept has failed.
THEOREM RefusalIsReported == Spec => []DiagnosticSurvives
<1>1. IInv => DiagnosticSurvives
  BY DEF IInv, RefusalInv, DiagnosticSurvives
<1> QED BY <1>1, FastPullInvariance, PTL

\* A pull is an upload to the local file: the file is not touched by one that is
\* refused, nor again once it has returned.
THEOREM FastPullImplementsUpload == Spec => ImplementsUpload
<1> USE DEF U!UploadNext, U!StartWriting, U!Write, U!ReportOK, U!ReportRefused, U!ReportBroken,
            U!WriteLate, U!uploadVars, outcome
<1>1. Init => U!UploadInit
  BY InitIInv DEF Init, U!UploadInit, IInv, HostInv
<1>2. IInv /\ IInv' /\ [Next]_vars => [U!UploadNext]_U!uploadVars
  <2> SUFFICES ASSUME IInv, IInv', [Next]_vars
               PROVE  [U!UploadNext]_U!uploadVars
    OBVIOUS
  <2>1. local \in Contents /\ local' \in Contents
    BY DEF IInv, HostInv
  <2>2. CASE UNCHANGED <<mpc, result, local>>
    BY <2>2
  <2>3. CASE AcceptTimesOut \/ ReadMessage \/ ReadFails
    BY <2>3 DEF AcceptTimesOut, ReadMessage, ReadFails, Fail
  <2>4. CASE Accept \/ ReadType
    BY <2>4 DEF Accept, ReadType
  <2>5. CASE ReadSize \/ ReadData
    BY <2>1, <2>5 DEF ReadSize, ReadData
  <2>6. CASE WriteLocal
    BY <2>1, <2>6 DEF WriteLocal
  <2>7. CASE Return
    BY <2>1, <2>7 DEF Return, IInv, HostInv
  <2>8. CASE FileStep \/ SocketStep \/ Grow \/ Shrink \/ LinkDown \/ Done
    BY <2>2, <2>8 DEF FileStep, Open, ReadFile, SocketStep, Connect, CannotConnect, SendFails, Announce,
       SendSize, SendData, SendError, SendMessage, Exit, Grow, Shrink, LinkDown, Done, vars, hostVars
  <2>9. CASE UNCHANGED vars
    BY <2>2, <2>9 DEF vars, hostVars
  <2> QED BY <2>3, <2>4, <2>5, <2>6, <2>7, <2>8, <2>9 DEF Next, HostStep
<1> QED BY <1>1, <1>2, FastPullInvariance, PTL DEF Spec, ImplementsUpload, U!UploadSpec
=============================================================================
