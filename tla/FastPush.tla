------------------------------ MODULE FastPush ------------------------------
(***************************************************************************)
(* One upload over reverse TCP: AcceptAndPush and pushConnection of        *)
(* internal/xfer/listener.go on the workstation, do_push of                *)
(* internal/helpers/src/fileloader.c on the device, and the connection     *)
(* between them.                                                           *)
(*                                                                         *)
(* On the workstation three goroutines share the connection: the writer    *)
(* sends the header and the data, the reader waits for the completion      *)
(* reply, and the caller selects whichever ends first.  A refusal may      *)
(* arrive while the writer is blocked; the last byte may be accepted just  *)
(* when the reply comes; either side may stop answering.                   *)
(*                                                                         *)
(* Data: unit 1 of the stream is the header, units 2 .. Size + 1 are the   *)
(* units 1 .. Size of the file.  0 is a unit of the old destination.  The  *)
(* kernel takes at most Window units the device has not read.  A deadline  *)
(* is a step that may be taken whenever it is armed.                       *)
(***************************************************************************)
EXTENDS Naturals, Sequences

CONSTANTS Size,      \* units in the file
          Window,    \* units the socket buffers hold
          OldSizes   \* sizes the destination may have before the push

ASSUME FastPushAssumption ==
         /\ Size \in Nat
         /\ Window \in Nat \ {0}
         /\ OldSizes \subseteq Nat

Total == Size + 1
Data  == [i \in 1..Size |-> i]

VARIABLES
  mpc,       \* the caller: AcceptAndPush, then the select of pushConnection
  result,    \* what AcceptAndPush returns
  wpc,       \* the writer goroutine: "off", "write", "ok", "failed"
  rpc,       \* the reader goroutine: "off", "type", "body" or its result
  armed,     \* the read deadline of the connection is set
  closed,    \* the workstation has closed the connection (or the listener)
  sent,      \* units the workstation's kernel has accepted
  dpc,       \* the fileloader
  consumed,  \* units the fileloader has read
  dest,      \* the destination file
  reply,     \* reply units sent and not yet read: "OK", "ERR", "BODY"
  fin,       \* the fileloader has shut its side down
  rst,       \* the connection is reset
  lost,      \* the reset has destroyed an unread reply
  link       \* packets still get through

hostVars == <<mpc, result, wpc, rpc, armed, closed, sent>>
loaderVars == <<dpc, consumed, dest>>
netVars  == <<reply, fin, rst, lost, link>>
vars     == <<hostVars, loaderVars, netVars>>

ReadResults == {"gotOK", "gotRemote", "gotIO", "gotTimeout"}

Init ==
  /\ mpc = "accept"
  /\ result = "none"
  /\ wpc = "off"
  /\ rpc = "off"
  /\ armed = FALSE
  /\ closed = FALSE
  /\ sent = 0
  /\ dpc = "connect"
  /\ consumed = 0
  /\ dest \in {[i \in 1..n |-> 0] : n \in OldSizes}
  /\ reply = <<>>
  /\ fin = FALSE
  /\ rst = FALSE
  /\ lost = FALSE
  /\ link = TRUE

-----------------------------------------------------------------------------
(* The caller *)

\* AcceptAndPush: the connection is accepted, the local file read, and
\* pushConnection starts the two goroutines.
Accept ==
  /\ mpc = "accept"
  /\ dpc \notin {"connect", "absent"}
  /\ mpc' = "select"
  /\ wpc' = "write"
  /\ rpc' = "type"
  /\ UNCHANGED <<result, armed, closed, sent, loaderVars, netVars>>

\* The local file cannot be read: the connection is closed.
ReadFileFails ==
  /\ mpc = "accept"
  /\ dpc \notin {"connect", "absent"}
  /\ mpc' = "returned"
  /\ result' = "readFile"
  /\ closed' = TRUE
  /\ UNCHANGED <<wpc, rpc, armed, sent, loaderVars, netVars>>

\* 15 seconds without a connection: a SetupError, and the caller closes the
\* listener.
AcceptTimesOut ==
  /\ mpc = "accept"
  /\ mpc' = "returned"
  /\ result' = "setup"
  /\ closed' = TRUE
  /\ UNCHANGED <<wpc, rpc, armed, sent, loaderVars, netVars>>

\* case replyErr := <-response: close, which also ends a blocked writer.
SelectResponse ==
  /\ mpc = "select"
  /\ rpc \in ReadResults
  /\ mpc' = "waitWriter"
  /\ closed' = TRUE
  /\ UNCHANGED <<result, wpc, rpc, armed, sent, loaderVars, netVars>>

\* Mutant: nothing bounds the wait for the reply.
SelectWriteDoneUnbounded ==
  /\ mpc = "select"
  /\ wpc \in {"ok", "failed"}
  /\ mpc' = "waitReply"
  /\ UNCHANGED <<result, wpc, rpc, armed, closed, sent, loaderVars, netVars>>

\* case writeErr := <-writeDone: the reply has 15 seconds from now.
SelectWriteDone ==
  /\ mpc = "select"
  /\ wpc \in {"ok", "failed"}
  /\ mpc' = "waitReply"
  /\ armed' = TRUE
  /\ UNCHANGED <<result, wpc, rpc, closed, sent, loaderVars, netVars>>

\* Mutant: the error of the write hides the reply.
WriteErrorFirst ==
  IF wpc = "failed" THEN "writeErr"
  ELSE IF rpc # "gotOK" THEN rpc
  ELSE "ok"

\* The error of the reply first, then the error of the write.
Verdict ==
  IF rpc # "gotOK" THEN rpc
  ELSE IF wpc = "failed" THEN "writeErr"
  ELSE "ok"

\* Mutant: the writer is not waited for.
ReturnAtOnce ==
  /\ mpc \in {"waitWriter", "waitReply"} /\ rpc \in ReadResults
  /\ mpc' = "returned"
  /\ result' = Verdict
  /\ closed' = TRUE
  /\ UNCHANGED <<wpc, rpc, armed, sent, loaderVars, netVars>>

\* Both goroutines have ended; the deferred Close closes the connection.
Return ==
  /\ \/ mpc = "waitWriter" /\ wpc \in {"ok", "failed"}
     \/ mpc = "waitReply" /\ rpc \in ReadResults
  /\ mpc' = "returned"
  /\ result' = Verdict
  /\ closed' = TRUE
  /\ UNCHANGED <<wpc, rpc, armed, sent, loaderVars, netVars>>

-----------------------------------------------------------------------------
(* The writer: deadlineWriter under io.Copy *)

Blocked == sent - consumed = Window

\* Mutant: the end of the data is not respected.
WriteBeyond ==
  /\ wpc = "write"
  /\ ~closed /\ ~rst
  /\ ~Blocked
  /\ sent' = sent + 1
  /\ UNCHANGED <<mpc, result, wpc, rpc, armed, closed, loaderVars, netVars>>

WriteUnit ==
  /\ wpc = "write"
  /\ ~closed /\ ~rst
  /\ sent < Total
  /\ ~Blocked
  /\ sent' = sent + 1
  /\ UNCHANGED <<mpc, result, wpc, rpc, armed, closed, loaderVars, netVars>>

\* writeDone <- nil: after the last unit nothing else can fail.
WriteEnds ==
  /\ wpc = "write"
  /\ sent = Total
  /\ wpc' = "ok"
  /\ UNCHANGED <<mpc, result, rpc, armed, closed, sent, loaderVars, netVars>>

\* Mutant: the writer uses the connection once more after the last unit.
WriteFailsLate ==
  /\ wpc = "write"
  /\ closed \/ rst \/ Blocked
  /\ wpc' = "failed"
  /\ UNCHANGED <<mpc, result, rpc, armed, closed, sent, loaderVars, netVars>>

\* The connection is closed or reset, or the write deadline passes.
WriteFails ==
  /\ wpc = "write"
  /\ sent < Total
  /\ closed \/ rst \/ Blocked
  /\ wpc' = "failed"
  /\ UNCHANGED <<mpc, result, rpc, armed, closed, sent, loaderVars, netVars>>

-----------------------------------------------------------------------------
(* The reader: readPushCompletion and readRemoteError *)

ReadType ==
  /\ rpc = "type"
  /\ link /\ reply # <<>>
  /\ reply' = Tail(reply)
  /\ \/ Head(reply) = "OK" /\ rpc' = "gotOK" /\ UNCHANGED armed
     \/ Head(reply) = "ERR" /\ rpc' = "body" /\ armed' = TRUE
  /\ UNCHANGED <<mpc, result, wpc, closed, sent, loaderVars, fin, rst, lost, link>>

ReadBody ==
  /\ rpc = "body"
  /\ link /\ reply # <<>>
  /\ reply' = Tail(reply)
  /\ rpc' = "gotRemote"
  /\ UNCHANGED <<mpc, result, wpc, armed, closed, sent, loaderVars, fin, rst, lost, link>>

\* End of file or a reset before the reply is complete.
ReadFails ==
  /\ rpc \in {"type", "body"}
  /\ reply = <<>>
  /\ rst \/ (fin /\ link)
  /\ rpc' = "gotIO"
  /\ UNCHANGED <<mpc, result, wpc, armed, closed, sent, loaderVars, netVars>>

\* The deadline passes, even if the answer has just arrived.
ReadTimesOut ==
  /\ rpc \in {"type", "body"}
  /\ armed
  /\ rpc' = "gotTimeout"
  /\ UNCHANGED <<mpc, result, wpc, armed, closed, sent, loaderVars, netVars>>

HostStep ==
  \/ AcceptTimesOut \/ Accept \/ ReadFileFails
  \/ SelectResponse \/ SelectWriteDone \/ Return

WriterStep == WriteUnit \/ WriteEnds \/ WriteFails
ReaderStep == ReadType \/ ReadBody \/ ReadFails \/ ReadTimesOut

-----------------------------------------------------------------------------
(* The fileloader: main and do_push *)

\* Mutant: the destination is opened before the request has been read.
OpenAtConnect ==
  /\ dpc = "connect"
  /\ ~closed /\ link
  /\ dest' = <<>>
  /\ dpc' = "header"
  /\ UNCHANGED <<consumed, hostVars, netVars>>

\* The listener accepts into its backlog as long as it is open.
Connect ==
  /\ dpc = "connect"
  /\ ~closed /\ link
  /\ dpc' = "header"
  /\ UNCHANGED <<consumed, dest, hostVars, netVars>>

CannotConnect ==
  /\ dpc = "connect"
  /\ dpc' = "absent"
  /\ UNCHANGED <<consumed, dest, hostVars, netVars>>

ReadUnit == link /\ ~rst /\ consumed < sent /\ consumed' = consumed + 1

\* Mutant: SO_RCVTIMEO is not set.
NothingToReadEver == (closed /\ consumed = sent) \/ rst

\* End of file after a close, a reset, or 30 seconds of silence.
NothingToRead == consumed = sent \/ rst \/ ~link

\* The type, the name and the size are read before anything is opened.
ReadHeader ==
  /\ dpc = "header"
  /\ \/ ReadUnit /\ dpc' = "open"
     \/ NothingToRead /\ dpc' = "error" /\ UNCHANGED consumed
  /\ UNCHANGED <<dest, hostVars, netVars>>

\* open(O_WRONLY | O_CREAT | O_TRUNC)
Open ==
  /\ dpc = "open"
  /\ \/ dest' = <<>> /\ dpc' = IF Size = 0 THEN "close" ELSE "data"
     \/ dpc' = "error" /\ UNCHANGED dest
  /\ UNCHANGED <<consumed, hostVars, netVars>>

\* One unit is read and written; both may fail.
CopyUnit ==
  /\ dpc = "data"
  /\ \/ /\ ReadUnit
        /\ dest' = Append(dest, consumed)
        /\ dpc' = IF consumed' = Total THEN "close" ELSE "data"
     \/ ReadUnit /\ dpc' = "error" /\ UNCHANGED dest
     \/ NothingToRead /\ dpc' = "error" /\ UNCHANGED <<consumed, dest>>
  /\ UNCHANGED <<hostVars, netVars>>

CloseOutput ==
  /\ dpc = "close"
  /\ dpc' \in {"ok", "error"}
  /\ UNCHANGED <<consumed, dest, hostVars, netVars>>

\* The completion reply; then the process exits and closes the socket.
SendOK ==
  /\ dpc = "ok"
  /\ reply' = Append(reply, "OK")
  /\ fin' = TRUE
  /\ dpc' = "gone"
  /\ UNCHANGED <<consumed, dest, hostVars, rst, lost, link>>

\* send_error: type and message, then finish_error_reply half-closes.
SendError ==
  /\ dpc = "error"
  /\ reply' = Append(reply, "ERR")
  /\ dpc' = "errorBody"
  /\ UNCHANGED <<consumed, dest, hostVars, fin, rst, lost, link>>

SendErrorBody ==
  /\ dpc = "errorBody"
  /\ reply' = Append(reply, "BODY")
  /\ fin' = TRUE
  /\ dpc' = "drain"
  /\ UNCHANGED <<consumed, dest, hostVars, rst, lost, link>>

\* Incoming data is discarded until the end of the stream or for two seconds.
Drain ==
  /\ dpc = "drain"
  /\ \/ ReadUnit /\ UNCHANGED dpc
     \/ dpc' = "drained" /\ UNCHANGED consumed
  /\ UNCHANGED <<dest, hostVars, netVars>>

LoaderStep ==
  \/ Connect \/ CannotConnect \/ ReadHeader \/ Open \/ CopyUnit \/ CloseOutput
  \/ SendOK \/ SendError \/ SendErrorBody \/ Drain

-----------------------------------------------------------------------------
(* The network *)

\* The fileloader has ended, after a diagnostic it has drained for or not.
Exited == dpc \in {"absent", "gone", "drained"}

\* A socket that is gone with input unread, or that gets more of it, resets
\* the connection; the reset may overtake an unread reply.  So does a close on
\* the workstation.
Reset ==
  /\ link /\ ~rst
  /\ (Exited /\ consumed < sent) \/ (closed /\ reply # <<>>)
  /\ rst' = TRUE
  /\ \/ UNCHANGED <<reply, lost>>
     \/ reply' = <<>> /\ lost' = (reply # <<>>)
  /\ UNCHANGED <<hostVars, loaderVars, fin, link>>

\* Power or cable: neither side hears from the other again.
LinkDown ==
  /\ link
  /\ link' = FALSE
  /\ UNCHANGED <<hostVars, loaderVars, reply, fin, rst, lost>>

Done == mpc = "returned" /\ Exited /\ UNCHANGED vars

Next == HostStep \/ WriterStep \/ ReaderStep \/ LoaderStep \/ Reset \/ LinkDown \/ Done

\* Goroutines are scheduled and deadlines expire; the fileloader runs and its
\* own timeouts expire.  Nothing is assumed of the network.
HostFairness == WF_vars(HostStep) /\ WF_vars(WriterStep) /\ WF_vars(ReaderStep)
LoaderFairness == WF_vars(LoaderStep)

Spec == Init /\ [][Next]_vars /\ HostFairness /\ LoaderFairness

-----------------------------------------------------------------------------
(* Properties *)

Results == {"none", "setup", "readFile", "ok", "writeErr"} \cup ReadResults

\* Types; the device never reads what was not sent.
TypeOK ==
  /\ mpc \in {"accept", "select", "waitWriter", "waitReply", "returned"}
  /\ result \in Results
  /\ wpc \in {"off", "write", "ok", "failed"}
  /\ rpc \in {"off", "type", "body"} \cup ReadResults
  /\ {armed, closed, fin, rst, lost, link} \subseteq BOOLEAN
  /\ sent \in 0..Total
  /\ consumed \in 0..sent
  /\ dpc \in {"connect", "header", "open", "data", "close", "ok",
              "error", "errorBody", "drain", "drained", "gone", "absent"}
  /\ dest \in Seq(0..Size)
  /\ reply \in Seq({"OK", "ERR", "BODY"})
  /\ Len(reply) <= 2

\* The promise of Upload for the fast path: the push has begun to write once
\* the header is on its way, and is refused when it ends before that.
outcome ==
  IF mpc = "returned"
  THEN IF result = "ok" THEN "ok" ELSE IF sent = 0 THEN "refused" ELSE "broken"
  ELSE IF sent = 0 THEN "idle" ELSE "writing"

U == INSTANCE Upload WITH Content  <- Seq(0..Size),
                          Complete <- {Data},
                          outcome  <- outcome

\* A success means that exactly the file's bytes are in the destination, which
\* this push does not touch any more; a SetupError or an unreadable local file
\* means that it never touches it, even if the fileloader is still running.
ImplementsUpload == U!UploadSpec

\* A diagnostic that the fileloader has sent completely is what the user gets,
\* unless a reset destroyed it or it missed its deadline: a concurrent write
\* error never hides it.
Diagnosed == dpc \in {"drain", "drained"}
DiagnosticSurvives ==
  mpc = "returned" /\ Diagnosed /\ wpc # "off" /\ ~lost
    => result \in {"gotRemote", "gotTimeout"}

\* An acknowledged upload is reported as one: closing the connection on the
\* reply cannot make the writer that has just sent the last byte fail.
AcknowledgedIsSuccess == mpc = "returned" /\ rpc = "gotOK" => result = "ok"

\* When AcceptAndPush returns, its goroutines have ended.
GoroutinesEnded ==
  mpc = "returned" => wpc # "write" /\ rpc \notin {"type", "body"}

\* AcceptAndPush returns, whatever the device and the network do.
PushReturns == <>(mpc = "returned")

\* The fileloader process ends, whatever the workstation and the network do.
LoaderEnds == <>Exited

=============================================================================
