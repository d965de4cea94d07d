------------------------------ MODULE FastPull ------------------------------
(***************************************************************************)
(* One download over reverse TCP: AcceptAndPull of                         *)
(* internal/xfer/listener.go on the workstation, do_pull of                *)
(* internal/helpers/src/fileloader.c on the device, the connection between *)
(* them, and the other programs of the device, which may change the file   *)
(* while it is being sent.                                                 *)
(*                                                                         *)
(* The fileloader announces the size it found with lseek and then sends    *)
(* what read returns until it has sent at least that much; the workstation *)
(* takes exactly the announced size and only then writes the local file.   *)
(*                                                                         *)
(* Data: the file starts as 1, 2, ..., Size; 0 is a unit appended later;   *)
(* OldLocal is what the local file held.  A message of the stream is a     *)
(* record; one data message is one unit.                                   *)
(***************************************************************************)
EXTENDS Naturals, Sequences

CONSTANTS Size,        \* units in the file at the start
          Buffer,      \* units that one read() may return
          Window,      \* messages the socket buffers hold
          MaxChanges   \* bound of the model: changes by other programs

ASSUME FastPullAssumption ==
         /\ Size \in Nat
         /\ Buffer \in Nat \ {0}
         /\ Window \in Nat \ {0}
         /\ MaxChanges \in Nat

OldLocal == <<Size + 1>>
Contents == Seq(0..(Size + 1))

VARIABLES
  mpc,       \* AcceptAndPull: what it waits for
  result,    \* what it returns
  expected,  \* filesize, as received
  got,       \* units received
  local,     \* the local file
  dpc,       \* the fileloader
  file,      \* the file on the device
  changes,   \* changes made to it
  shrunk,    \* one of them has shortened it
  total,     \* the size found by lseek
  pos,       \* the offset of the open file
  out,       \* units of the current buffer not yet written to the socket
  sent,      \* units sent before them
  stream,    \* messages in flight
  fin,       \* the fileloader has closed or shut down its side
  hostgone,  \* the workstation has closed the connection or the listener
  link       \* packets still get through

hostVars   == <<mpc, result, expected, got, local, hostgone>>
fileVars   == <<file, changes, shrunk>>
loaderVars == <<dpc, total, pos, out, sent, fin>>
vars == <<hostVars, fileVars, loaderVars, stream, link>>

Init ==
  /\ mpc = "accept"
  /\ result = "none"
  /\ expected = 0
  /\ got = <<>>
  /\ local = OldLocal
  /\ dpc = "connect"
  /\ file = [i \in 1..Size |-> i]
  /\ changes = 0
  /\ shrunk = FALSE
  /\ total = 0
  /\ pos = 0
  /\ out = <<>>
  /\ sent = 0
  /\ stream = <<>>
  /\ fin = FALSE
  /\ hostgone = FALSE
  /\ link = TRUE

-----------------------------------------------------------------------------
(* The workstation *)

Accept ==
  /\ mpc = "accept"
  /\ dpc \notin {"connect", "absent"}
  /\ mpc' = "type"
  /\ UNCHANGED <<result, expected, got, local, hostgone, fileVars, loaderVars, stream, link>>

Fail(r) ==
  /\ mpc' = "returned"
  /\ result' = r
  /\ hostgone' = TRUE
  /\ UNCHANGED <<expected, got, local, fileVars, loaderVars, link>>

\* 15 seconds without a connection: a SetupError.
AcceptTimesOut == mpc = "accept" /\ Fail("setup") /\ UNCHANGED stream

\* The next message of the stream, wherever the reads of the code split it.
Receives == link /\ stream # <<>> /\ stream' = Tail(stream)

\* Mutant: a refusal is taken for a violation of the protocol.
ErrorIsProtocol ==
  /\ mpc = "type"
  /\ Receives
  /\ \/ /\ Head(stream).kind = "PULL"
        /\ mpc' = "size"
        /\ UNCHANGED <<result, expected, got, local, hostgone, fileVars, loaderVars, link>>
     \/ Head(stream).kind = "ERROR" /\ Fail("protocol")

\* TYPE_PULL with the name, or TYPE_ERROR.
ReadType ==
  /\ mpc = "type"
  /\ Receives
  /\ mpc' = IF Head(stream).kind = "PULL" THEN "size" ELSE "message"
  /\ UNCHANGED <<result, expected, got, local, hostgone, fileVars, loaderVars, link>>

\* readRemoteError
ReadMessage == mpc = "message" /\ Receives /\ Fail("remote")

\* TYPE_DATA and the size; an empty file needs no more.
ReadSize ==
  /\ mpc = "size"
  /\ Receives
  /\ expected' = Head(stream).value
  /\ mpc' = IF expected' = 0 THEN "write" ELSE "data"
  /\ UNCHANGED <<result, got, local, hostgone, fileVars, loaderVars, link>>

\* Mutant: the local file is created before the data have arrived.
WriteAsReceived ==
  /\ mpc = "data"
  /\ Receives
  /\ got' = Append(got, Head(stream).value)
  /\ local' = got'
  /\ mpc' = IF Len(got') = expected THEN "write" ELSE "data"
  /\ UNCHANGED <<result, expected, hostgone, fileVars, loaderVars, link>>

\* Mutant: one unit more than announced is taken when there is one.
ReadOneMore ==
  /\ mpc = "data"
  /\ Receives
  /\ got' = Append(got, Head(stream).value)
  /\ mpc' = IF Len(got) = expected THEN "write" ELSE "data"
  /\ UNCHANGED <<result, expected, local, hostgone, fileVars, loaderVars, link>>

\* io.ReadFull
ReadData ==
  /\ mpc = "data"
  /\ Receives
  /\ got' = Append(got, Head(stream).value)
  /\ mpc' = IF Len(got') = expected THEN "write" ELSE "data"
  /\ UNCHANGED <<result, expected, local, hostgone, fileVars, loaderVars, link>>

\* Mutant: the data end where the stream ends.
EndOfFileIsEnd ==
  /\ mpc \in {"type", "size", "data", "message"}
  /\ stream = <<>> /\ link /\ fin
  /\ IF mpc = "data"
     THEN mpc' = "write" /\ UNCHANGED <<result, expected, got, local, hostgone, fileVars, loaderVars, link>>
     ELSE Fail("io")
  /\ UNCHANGED stream

\* End of file in the middle of what is read, or a dead peer that the
\* keep-alive probes of the socket have found.
ReadFails ==
  /\ mpc \in {"type", "size", "data", "message"}
  /\ (stream = <<>> /\ link /\ fin) \/ ~link
  /\ Fail("io")
  /\ UNCHANGED stream

\* os.WriteFile
WriteLocal ==
  /\ mpc = "write"
  /\ mpc' = "written"
  /\ \/ local' = got /\ result' = "ok"
     \/ result' = "writeFile" /\ local' \in {local} \cup {SubSeq(got, 1, n) : n \in 0..Len(got)}
  /\ UNCHANGED <<expected, got, hostgone, fileVars, loaderVars, stream, link>>

\* return, and the deferred Close
Return ==
  /\ mpc = "written"
  /\ mpc' = "returned"
  /\ hostgone' = TRUE
  /\ UNCHANGED <<result, expected, got, local, fileVars, loaderVars, stream, link>>

HostStep ==
  \/ Accept \/ AcceptTimesOut \/ ReadType \/ ReadMessage \/ ReadSize \/ ReadData
  \/ ReadFails \/ WriteLocal \/ Return

-----------------------------------------------------------------------------
(* The fileloader *)

Connect ==
  /\ dpc = "connect"
  /\ ~hostgone /\ link
  /\ dpc' = "open"
  /\ UNCHANGED <<total, pos, out, sent, fin, stream, fileVars, hostVars, link>>

CannotConnect ==
  /\ dpc = "connect"
  /\ dpc' = "absent"
  /\ UNCHANGED <<total, pos, out, sent, fin, stream, fileVars, hostVars, link>>

\* open(O_RDONLY) and lseek; nothing bounds the time an open may take.
Open ==
  /\ dpc = "open"
  /\ \/ dpc' = "announce" /\ total' = Len(file) /\ UNCHANGED fin
     \/ dpc' = "error" /\ UNCHANGED <<total, fin>>
     \/ dpc' = "gone" /\ fin' = TRUE /\ UNCHANGED total    \* lseek fails
  /\ UNCHANGED <<pos, out, sent, stream, fileVars, hostVars, link>>

CanSend == ~hostgone /\ Len(stream) < Window
Send(m) == CanSend /\ stream' = Append(stream, m)

\* The peer is gone, or 30 seconds pass with the buffers full.
SendFails ==
  /\ dpc \in {"announce", "size", "send", "error", "message"}
  /\ hostgone \/ Len(stream) = Window
  /\ dpc' = "gone"
  /\ fin' = TRUE
  /\ UNCHANGED <<total, pos, out, sent, stream, fileVars, hostVars, link>>

Announce ==
  /\ dpc = "announce"
  /\ Send([kind |-> "PULL", value |-> 0])
  /\ dpc' = "size"
  /\ UNCHANGED <<total, pos, out, sent, fin, fileVars, hostVars, link>>

SendSize ==
  /\ dpc = "size"
  /\ Send([kind |-> "DATA", value |-> total])
  /\ dpc' = IF total = 0 THEN "close" ELSE "read"
  /\ UNCHANGED <<total, pos, out, sent, fin, fileVars, hostVars, link>>

\* read: what the file holds at this moment, at most a buffer; at the end of
\* the file, or on an error, the loop is left.
ReadFile ==
  /\ dpc = "read"
  /\ \/ \E n \in 1..Buffer :
          /\ pos + n <= Len(file)
          /\ out' = SubSeq(file, pos + 1, pos + n)
          /\ pos' = pos + n
          /\ dpc' = "send"
     \/ dpc' = "close" /\ UNCHANGED <<out, pos>>
  /\ UNCHANGED <<total, sent, fin, stream, fileVars, hostVars, link>>

\* Mutant: a short write is repeated from the start of the buffer.
ResendBuffer ==
  /\ dpc = "send"
  /\ Send([kind |-> "unit", value |-> out[1]])
  /\ sent' = sent + 1
  /\ \/ UNCHANGED out /\ UNCHANGED dpc
     \/ /\ out' = Tail(out)
        /\ dpc' = IF out' # <<>> THEN "send" ELSE IF sent' < total THEN "read" ELSE "close"
  /\ UNCHANGED <<total, pos, fin, fileVars, hostVars, link>>

\* write_full of the buffer, then while (sent < filesize).
SendData ==
  /\ dpc = "send"
  /\ Send([kind |-> "unit", value |-> out[1]])
  /\ out' = Tail(out)
  /\ sent' = sent + 1
  /\ dpc' = IF out' # <<>> THEN "send" ELSE IF sent' < total THEN "read" ELSE "close"
  /\ UNCHANGED <<total, pos, fin, fileVars, hostVars, link>>

\* send_error: the type, then the message; finish_error_reply ends the stream.
SendError ==
  /\ dpc = "error"
  /\ Send([kind |-> "ERROR", value |-> 0])
  /\ dpc' = "message"
  /\ UNCHANGED <<total, pos, out, sent, fin, fileVars, hostVars, link>>

SendMessage ==
  /\ dpc = "message"
  /\ Send([kind |-> "message", value |-> 0])
  /\ dpc' = "refused"
  /\ fin' = TRUE
  /\ UNCHANGED <<total, pos, out, sent, fileVars, hostVars, link>>

\* Mutant: the socket is not closed.
ExitKeepsSocket ==
  /\ dpc = "close"
  /\ dpc' = "gone"
  /\ UNCHANGED <<total, pos, out, sent, fin, stream, fileVars, hostVars, link>>

\* return from do_pull, close(sock) in main.
Exit ==
  /\ dpc = "close"
  /\ dpc' = "gone"
  /\ fin' = TRUE
  /\ UNCHANGED <<total, pos, out, sent, stream, fileVars, hostVars, link>>

FileStep   == Open \/ ReadFile
SocketStep == Connect \/ CannotConnect \/ SendFails \/ Announce \/ SendSize
              \/ SendData \/ SendError \/ SendMessage \/ Exit

-----------------------------------------------------------------------------
(* Other programs of the device, and the network *)

Grow ==
  /\ changes < MaxChanges
  /\ changes' = changes + 1
  /\ file' = Append(file, 0)
  /\ UNCHANGED <<shrunk, hostVars, loaderVars, stream, link>>

Shrink ==
  /\ changes < MaxChanges
  /\ changes' = changes + 1
  /\ \E n \in 0..(Len(file) - 1) : file' = SubSeq(file, 1, n)
  /\ shrunk' = TRUE
  /\ UNCHANGED <<hostVars, loaderVars, stream, link>>

LinkDown ==
  /\ link
  /\ link' = FALSE
  /\ UNCHANGED <<hostVars, fileVars, loaderVars, stream>>

Done == mpc = "returned" /\ dpc \in {"absent", "gone", "refused"} /\ UNCHANGED vars

Next == HostStep \/ FileStep \/ SocketStep \/ Grow \/ Shrink \/ LinkDown \/ Done

\* The host runs and its keep-alive works; the socket operations of the
\* fileloader end in 30 seconds.  Nothing bounds its file operations.
Spec == Init /\ [][Next]_vars /\ WF_vars(HostStep) /\ WF_vars(SocketStep)

\* With file operations that all end.
ResponsiveSpec == Spec /\ WF_vars(FileStep)

-----------------------------------------------------------------------------
(* Properties *)

TypeOK ==
  /\ mpc \in {"accept", "type", "message", "size", "data", "write", "written", "returned"}
  /\ result \in {"none", "setup", "io", "remote", "protocol", "writeFile", "ok"}
  /\ expected \in Nat /\ total \in Nat /\ pos \in Nat
  /\ sent \in 0..pos
  /\ {got, local, file, out} \subseteq Contents
  /\ Len(got) <= expected
  /\ dpc \in {"connect", "open", "announce", "size", "read", "send", "close",
              "error", "message", "refused", "gone", "absent"}
  /\ changes \in 0..MaxChanges
  /\ {shrunk, fin, hostgone, link} \subseteq BOOLEAN
  /\ Len(stream) <= Window

\* A success means the announced number of units: a file that became shorter,
\* or could not be read to its end, is an error and never a short download.
SuccessIsWhole == result = "ok" => Len(local) = total

\* A file that at most grew while it was sent is downloaded as it was when its
\* size was found, however the reads and the growth interleave.
GrownFileIsItsPrefix ==
  result = "ok" /\ ~shrunk => local = SubSeq(file, 1, total)

\* A refusal the fileloader has sent completely reaches the user: nothing but a
\* dead link or a connection that was never accepted hides it.
DiagnosticSurvives ==
  mpc = "returned" /\ dpc = "refused" => result \in {"remote", "setup"} \/ ~link

\* AcceptAndPull as an upload to the local file: refused, and the local file as
\* it was, unless all the data have been received.
outcome ==
  IF mpc \in {"write", "written"} THEN "writing"
  ELSE IF mpc # "returned" THEN "idle"
  ELSE IF result = "ok" THEN "ok" ELSE IF result = "writeFile" THEN "broken" ELSE "refused"

U == INSTANCE Upload WITH dest     <- local,
                          Content  <- Contents,
                          Complete <- Contents,
                          outcome  <- outcome

\* The local file is not touched by a pull that ends before the last byte.
ImplementsUpload == U!UploadSpec

\* AcceptAndPull returns, whatever happens to the file and the connection, as
\* long as the file operations of the device end.
PullReturns == <>(mpc = "returned")

\* "Fast transfer bounds inactive socket operations to 30 seconds"
\* (README.md:142): a device that stops in the middle of the data, its
\* connection alive, does not keep the workstation waiting.
InactivityIsBounded == <>(mpc = "returned")
=============================================================================
