------------------------------ MODULE Transfer ------------------------------
(***************************************************************************)
(* One `busyscout push' or `pull' from the check of the destination and    *)
(* the choice of a method to its result: New and checkIsRemoteDirectory    *)
(* (internal/scout/remote_path.go), runTransfer (internal/scout/mode.go),  *)
(* pushFast, pullFast and fastClient (internal/scout/scout.go), Push and   *)
(* Pull (internal/xfer), startLoader, runLoader and the listener that owns *)
(* the loader directory (internal/xfer/loader.go).                         *)
(*                                                                         *)
(* Everything the fast path does on the device before it can accept a      *)
(* connection goes through one Telnet session, and any of its commands may *)
(* time out for the client and still be run later by the shell: the        *)
(* directory may appear, the fileloader may start, after the fast path has *)
(* been given up and the printf path has begun.                            *)
(*                                                                         *)
(* What happens on the accepted connection is the subject of FastPush and  *)
(* FastPull, what the printf path does that of PrintfPush: here they are   *)
(* steps that write the destination and end.                               *)
(***************************************************************************)
EXTENDS Naturals, Sequences

CONSTANTS LoaderLines,   \* printf commands that upload the fileloader
          MaxTimeouts    \* bound of the model: commands that time out

ASSUME TransferAssumption ==
         LoaderLines \in Nat \ {0} /\ MaxTimeouts \in Nat

Modes    == {"auto", "fast", "printf"}
Writers  == {"fast", "printf"}
Commands == {"mkdir", "line", "chmod", "launch", "rm"}
\* The kinds of a path of the device: "link" is a symbolic link, "special"
\* anything else that exists, "orphan" has no directory to be in.
Kinds    == {"file", "dir", "link", "special", "missing", "orphan"}
PCs == {"new", "inside", "start", "detect", "client", "select", "mkdir", "upload", "chmod",
        "listen", "launch", "accept", "serve", "close", "cleanup", "decide",
        "printf", "returned"}

VARIABLES
  mode,      \* --mode
  subnet,    \* IsSameSubnet(s.remote.Host)
  direction, \* "push" or "pull"
  kind,      \* on the device: the kind of the given path and of the path inside it
  target,    \* the destination: "given", or "inside" when that is a directory
  replaced,  \* another process has replaced one of them
  pc,        \* where the transfer is
  fast,      \* the result of the fast path: "none", "ok", "setup" (a SetupError), "broken"
  result,    \* the result of the transfer: also "subnet", the refusal of --mode=fast, and "path", that of New
  owned,     \* runLoader has made the directory and has to remove it
  rmFailed,  \* its removal has failed, an error the code discards
  listener,  \* "none", "open", "closed"
  made,      \* on the device: the loader directory
  lines,     \* on the device: lines of the fileloader in it
  exec,      \* on the device: the fileloader is executable
  loader,    \* on the device: "none", "running", "connected", "fed", "gone"
  wrote,     \* the paths that have written the destination
  mainq,     \* commands sent in the session that its shell has not run
  timeouts   \* commands that have timed out

pathVars   == <<kind, target, replaced>>
settings   == <<mode, subnet, direction, pathVars>>
hostVars   == <<pc, fast, result, owned, rmFailed, listener>>
deviceVars == <<made, lines, exec, loader>>
lateVars   == <<mainq, timeouts>>
vars       == <<settings, hostVars, deviceVars, wrote, lateVars>>

Init ==
  /\ mode \in Modes
  /\ subnet \in BOOLEAN
  /\ direction \in {"push", "pull"}
  /\ kind \in [{"given", "inside"} -> Kinds]
  /\ kind["given"] # "dir" => kind["inside"] = "orphan"
  /\ kind["given"] = "dir" => kind["inside"] # "orphan"
  /\ target = "given"
  /\ replaced = FALSE
  /\ pc = "new"
  /\ fast = "none"
  /\ result = "none"
  /\ owned = FALSE
  /\ rmFailed = FALSE
  /\ listener = "none"
  /\ made = FALSE
  /\ lines = 0
  /\ exec = FALSE
  /\ loader = "none"
  /\ wrote = {}
  /\ mainq = <<>>
  /\ timeouts = 0

-----------------------------------------------------------------------------
(* Commands of the session *)

\* What the shell does when it comes to a command.
Run(op) ==
  \/ /\ op = "mkdir"
     /\ made' = TRUE
     /\ UNCHANGED <<lines, exec, loader>>
  \/ /\ op = "line"
     /\ lines' = IF made THEN lines + 1 ELSE lines
     /\ UNCHANGED <<made, exec, loader>>
  \/ /\ op = "chmod"
     /\ exec' = (made /\ lines > 0)
     /\ UNCHANGED <<made, lines, loader>>
  \/ /\ op = "launch"
     /\ loader' = IF exec /\ lines = LoaderLines THEN "running" ELSE loader
     /\ UNCHANGED <<made, lines, exec>>
  \/ /\ op = "rm"
     /\ made' = FALSE
     /\ lines' = 0
     /\ exec' = FALSE
     /\ UNCHANGED loader

\* ExecuteChecked returns nil: what was sent before has been run as well.
Succeeds(op) == mainq = <<>> /\ Run(op) /\ UNCHANGED lateVars

\* It returns an error: the shell refuses the command, or no completion record
\* arrives in time and the shell still has the command.
Fails(op) ==
  /\ \/ UNCHANGED lateVars
     \/ timeouts < MaxTimeouts /\ timeouts' = timeouts + 1 /\ mainq' = Append(mainq, op)
  /\ UNCHANGED deviceVars

-----------------------------------------------------------------------------
(* New *)

NewKeeps == <<mode, subnet, direction, kind, replaced, fast, owned, rmFailed, listener,
              deviceVars, wrote, lateVars>>

\* Mutant: test -f, which follows links, before test -L.
ClassifyFollowing(k) ==
  CASE k = "dir"                         -> "directory"
    [] k \in {"file", "missing", "link"} -> "not a directory"
    [] OTHER                             -> "error"

\* checkIsRemoteDirectory: links are looked for before the tests that follow
\* them; a missing leaf must be in a directory that can be entered.
Classify(k) ==
  CASE k = "dir"                 -> "directory"
    [] k \in {"file", "missing"} -> "not a directory"
    [] OTHER                     -> "error"

Refuse == pc' = "returned" /\ result' = "path" /\ UNCHANGED target

\* The given path; NewPull checks nothing.  Every error refuses the transfer.
CheckGiven ==
  /\ pc = "new"
  /\ \/ direction = "pull" /\ pc' = "start" /\ UNCHANGED <<target, result>>
     \/ /\ direction = "push"
        /\ \/ Classify(kind["given"]) = "directory" /\ pc' = "inside" /\ target' = "inside"
              /\ UNCHANGED result
           \/ Classify(kind["given"]) = "not a directory" /\ pc' = "start"
              /\ UNCHANGED <<target, result>>
           \/ Refuse
  /\ UNCHANGED NewKeeps

\* The name of the source in that directory, in another session.
CheckInside ==
  /\ pc = "inside"
  /\ \/ Classify(kind["inside"]) = "not a directory" /\ pc' = "start" /\ UNCHANGED <<target, result>>
     \/ Refuse
  /\ UNCHANGED NewKeeps

\* Another process puts something else in the place of a path, at any time.
Replace ==
  /\ ~replaced
  /\ replaced' = TRUE
  /\ \E p \in {"given", "inside"}, k \in Kinds : kind[p] # k /\ kind' = [kind EXCEPT ![p] = k]
  /\ UNCHANGED <<mode, subnet, direction, target, hostVars, deviceVars, wrote, lateVars>>

\* open(2) with O_CREAT and O_TRUNC, or a redirection of the shell: neither
\* looks again at what the destination is.
OpenDestination ==
  /\ kind[target] \notin {"dir", "orphan"}
  /\ kind' = [kind EXCEPT ![target] = IF @ = "missing" THEN "file" ELSE @]
  /\ UNCHANGED <<mode, subnet, direction, target, replaced>>

-----------------------------------------------------------------------------
(* runTransfer, fastClient and startLoader *)

Choose ==
  /\ pc = "start"
  /\ \/ /\ mode = "printf" \/ (mode = "auto" /\ ~subnet)
        /\ pc' = "printf"
        /\ UNCHANGED result
     \/ mode = "fast" /\ ~subnet /\ pc' = "returned" /\ result' = "subnet"
     \/ mode # "printf" /\ subnet /\ pc' = "detect" /\ UNCHANGED result
  /\ UNCHANGED <<settings, fast, owned, rmFailed, listener, deviceVars, wrote, lateVars>>

\* The session opens, uname answers: otherwise a SetupError.
Detect ==
  /\ pc = "detect"
  /\ \/ pc' = "client" /\ UNCHANGED fast
     \/ pc' = "decide" /\ fast' = "setup"
  /\ UNCHANGED <<settings, result, owned, rmFailed, listener, deviceVars, wrote, lateVars>>

\* The error of this second newClient is not a SetupError.
OpenClient ==
  /\ pc = "client"
  /\ \/ pc' = "select" /\ UNCHANGED fast
     \/ pc' = "decide" /\ fast' = "broken"
  /\ UNCHANGED <<settings, result, owned, rmFailed, listener, deviceVars, wrote, lateVars>>

\* FileloaderForISA has a variant, the path can be passed to a shell.
SelectLoader ==
  /\ pc = "select"
  /\ \/ pc' = "mkdir" /\ UNCHANGED fast
     \/ pc' = "decide" /\ fast' = "setup"
  /\ UNCHANGED <<settings, result, owned, rmFailed, listener, deviceVars, wrote, lateVars>>

\* Without an answer the directory is not this transfer's to remove.
MakeDirectory ==
  /\ pc = "mkdir"
  /\ \/ Succeeds("mkdir") /\ pc' = "upload" /\ owned' = TRUE /\ UNCHANGED fast
     \/ Fails("mkdir") /\ pc' = "decide" /\ fast' = "setup" /\ UNCHANGED owned
  /\ UNCHANGED <<settings, result, rmFailed, listener, wrote>>

\* Mutant: an error in the middle of the upload returns without the cleanup.
UploadWithoutCleanup ==
  /\ pc = "upload"
  /\ \/ /\ Succeeds("line")
        /\ pc' = IF lines' = LoaderLines THEN "chmod" ELSE pc
        /\ UNCHANGED fast
     \/ Fails("line") /\ pc' = "decide" /\ fast' = "setup"
  /\ UNCHANGED <<settings, result, owned, rmFailed, listener, wrote>>

\* Mutant: the loop over the lines does not end.
UploadTooMuch ==
  /\ pc = "upload"
  /\ \/ Succeeds("line") /\ pc' \in {"upload", "chmod"} /\ UNCHANGED fast
     \/ Fails("line") /\ pc' = "cleanup" /\ fast' = "setup"
  /\ UNCHANGED <<settings, result, owned, rmFailed, listener, wrote>>

\* UploadData, one command.
UploadLine ==
  /\ pc = "upload"
  /\ \/ /\ Succeeds("line")
        /\ pc' = IF lines' = LoaderLines THEN "chmod" ELSE pc
        /\ UNCHANGED fast
     \/ Fails("line") /\ pc' = "cleanup" /\ fast' = "setup"
  /\ UNCHANGED <<settings, result, owned, rmFailed, listener, wrote>>

MakeExecutable ==
  /\ pc = "chmod"
  /\ \/ Succeeds("chmod") /\ pc' = "listen" /\ UNCHANGED fast
     \/ Fails("chmod") /\ pc' = "cleanup" /\ fast' = "setup"
  /\ UNCHANGED <<settings, result, owned, rmFailed, listener, wrote>>

Listen ==
  /\ pc = "listen"
  /\ \/ listener' = "open" /\ pc' = "launch" /\ UNCHANGED fast
     \/ pc' = "cleanup" /\ fast' = "setup" /\ UNCHANGED listener
  /\ UNCHANGED <<settings, result, owned, rmFailed, deviceVars, wrote, lateVars>>

\* Mutant: the listener stays open when the fileloader cannot be started.
LaunchKeepsListener ==
  /\ pc = "launch"
  /\ \/ Succeeds("launch") /\ loader' = "running" /\ pc' = "accept" /\ UNCHANGED fast
     \/ Fails("launch") /\ pc' = "cleanup" /\ fast' = "setup"
  /\ UNCHANGED <<settings, result, owned, rmFailed, listener, wrote>>

\* The command ends with status 0 once the fileloader has detached itself.
Launch ==
  /\ pc = "launch"
  /\ \/ /\ Succeeds("launch")
        /\ loader' = "running"
        /\ pc' = "accept"
        /\ UNCHANGED <<fast, listener>>
     \/ Fails("launch") /\ pc' = "cleanup" /\ fast' = "setup" /\ listener' = "closed"
  /\ UNCHANGED <<settings, result, owned, rmFailed, wrote>>

-----------------------------------------------------------------------------
(* AcceptAndPush and AcceptAndPull *)

\* The connection of the fileloader is accepted and served.
Accept ==
  /\ pc = "accept"
  /\ loader = "connected"
  /\ loader' = "fed"
  /\ pc' = "serve"
  /\ UNCHANGED <<settings, fast, result, owned, rmFailed, listener, made, lines, exec,
                 wrote, lateVars>>

\* The local file of a push cannot be read: nothing is sent.
ReadFileFails ==
  /\ pc = "accept"
  /\ direction = "push"
  /\ loader = "connected"
  /\ pc' = "close"
  /\ fast' = "broken"
  /\ UNCHANGED <<settings, result, owned, rmFailed, listener, deviceVars, wrote, lateVars>>

\* Mutant: no deadline on the listener.
AcceptWaits ==
  /\ pc = "accept"
  /\ listener = "closed"
  /\ pc' = "close"
  /\ fast' = "setup"
  /\ UNCHANGED <<settings, result, owned, rmFailed, listener, deviceVars, wrote, lateVars>>

\* 15 seconds without a connection.
AcceptTimesOut ==
  /\ pc = "accept"
  /\ pc' = "close"
  /\ fast' = "setup"
  /\ UNCHANGED <<settings, result, owned, rmFailed, listener, deviceVars, wrote, lateVars>>

\* The completion reply of a push, the local os.WriteFile of a pull.
ServeSucceeds ==
  /\ pc = "serve"
  /\ \/ direction = "push" /\ "fast" \in wrote /\ UNCHANGED wrote
     \/ direction = "pull" /\ wrote' = wrote \cup {"fast"}
  /\ loader' = "gone"
  /\ fast' = "ok"
  /\ pc' = "close"
  /\ UNCHANGED <<settings, result, owned, rmFailed, listener, made, lines, exec, lateVars>>

\* Mutant: a broken transfer counts as one that has not begun.
BrokenIsSetup ==
  /\ pc = "serve"
  /\ \/ direction = "pull" /\ wrote' = wrote \cup {"fast"}
     \/ UNCHANGED wrote
  /\ fast' = "setup"
  /\ pc' = "close"
  /\ UNCHANGED <<settings, result, owned, rmFailed, listener, deviceVars, lateVars>>

\* Any other end; a failing os.WriteFile may have written a part.
ServeFails ==
  /\ pc = "serve"
  /\ \/ direction = "pull" /\ wrote' = wrote \cup {"fast"}
     \/ UNCHANGED wrote
  /\ fast' = "broken"
  /\ pc' = "close"
  /\ UNCHANGED <<settings, result, owned, rmFailed, listener, deviceVars, lateVars>>

\* ownedLoaderListener.Close: first the listener, then the directory.
CloseListener ==
  /\ pc = "close"
  /\ listener' = "closed"
  /\ pc' = "cleanup"
  /\ UNCHANGED <<settings, fast, result, owned, rmFailed, deviceVars, wrote, lateVars>>

\* The error of the rm is discarded; the session is closed.
Cleanup ==
  /\ pc = "cleanup"
  /\ \/ Succeeds("rm") /\ UNCHANGED rmFailed
     \/ Fails("rm") /\ rmFailed' = TRUE
  /\ pc' = "decide"
  /\ UNCHANGED <<settings, fast, result, owned, listener, wrote>>

-----------------------------------------------------------------------------
(* The end of runTransfer, and the printf path *)

\* Mutant: every error of the fast path is retried.
RetryAnything ==
  /\ pc = "decide"
  /\ \/ mode = "auto" /\ fast # "ok" /\ pc' = "printf" /\ UNCHANGED result
     \/ ~(mode = "auto" /\ fast # "ok") /\ pc' = "returned" /\ result' = fast
  /\ UNCHANGED <<settings, fast, owned, rmFailed, listener, deviceVars, wrote, lateVars>>

\* errors.As(err, &setupErr)
Decide ==
  /\ pc = "decide"
  /\ \/ mode = "auto" /\ fast = "setup" /\ pc' = "printf" /\ UNCHANGED result
     \/ ~(mode = "auto" /\ fast = "setup") /\ pc' = "returned" /\ result' = fast
  /\ UNCHANGED <<settings, fast, owned, rmFailed, listener, deviceVars, wrote, lateVars>>

\* The printf path writes, and so may a command that it has given up.
PrintfWrites ==
  /\ \/ pc = "printf"
     \/ pc = "returned" /\ result = "broken" /\ "printf" \in wrote
  /\ wrote' = wrote \cup {"printf"}
  /\ IF direction = "push" THEN OpenDestination ELSE UNCHANGED settings
  /\ UNCHANGED <<hostVars, deviceVars, lateVars>>

PrintfReturns ==
  /\ pc = "printf"
  /\ \/ "printf" \in wrote /\ result' = "ok"
     \/ result' = "broken"
  /\ pc' = "returned"
  /\ UNCHANGED <<settings, fast, owned, rmFailed, listener, deviceVars, wrote, lateVars>>

HostStep ==
  \/ CheckGiven \/ CheckInside \/ Choose \/ Detect \/ OpenClient \/ SelectLoader \/ MakeDirectory \/ UploadLine
  \/ MakeExecutable \/ Listen \/ Launch \/ Accept \/ ReadFileFails \/ AcceptTimesOut
  \/ ServeSucceeds \/ ServeFails \/ CloseListener \/ Cleanup \/ Decide \/ PrintfReturns

-----------------------------------------------------------------------------
(* The device *)

\* The kernel completes the connection whether or not it is ever accepted.
Connect ==
  /\ loader = "running"
  /\ listener = "open"
  /\ loader' = "connected"
  /\ UNCHANGED <<settings, hostVars, made, lines, exec, wrote, lateVars>>

\* A fileloader that has its request opens and writes the destination.
LoaderWrites ==
  /\ loader = "fed"
  /\ direction = "push"
  /\ OpenDestination
  /\ wrote' = wrote \cup {"fast"}
  /\ UNCHANGED <<hostVars, deviceVars, lateVars>>

\* It is refused, reset, or ends on a timeout of its own.
LoaderGone ==
  /\ loader \in {"running", "connected", "fed"}
  /\ loader' = "gone"
  /\ UNCHANGED <<settings, hostVars, made, lines, exec, wrote, lateVars>>

\* The shell runs the oldest command it still has, or loses it.
LateCommand ==
  /\ mainq # <<>>
  /\ Run(Head(mainq)) \/ UNCHANGED deviceVars
  /\ mainq' = Tail(mainq)
  /\ UNCHANGED <<settings, hostVars, wrote, timeouts>>

Done == pc = "returned" /\ UNCHANGED vars

Next == HostStep \/ PrintfWrites \/ Connect \/ LoaderWrites \/ LoaderGone
        \/ LateCommand \/ Replace \/ Done

\* Every command and every wait of the host ends, except the wait for the data
\* of a pull, which has no deadline (FastPull); the device owes nothing.
WaitsForPull == direction = "pull" /\ pc = "serve"
Spec == Init /\ [][Next]_vars /\ WF_vars(HostStep /\ ~WaitsForPull)

-----------------------------------------------------------------------------
(* Properties *)

TypeOK ==
  /\ mode \in Modes /\ subnet \in BOOLEAN /\ direction \in {"push", "pull"}
  /\ kind \in [{"given", "inside"} -> Kinds] /\ target \in {"given", "inside"}
  /\ pc \in PCs
  /\ fast \in {"none", "ok", "setup", "broken"}
  /\ result \in {"none", "ok", "setup", "broken", "subnet", "path"}
  /\ {owned, rmFailed, made, exec, replaced} \subseteq BOOLEAN
  /\ listener \in {"none", "open", "closed"}
  /\ lines \in 0..LoaderLines
  /\ loader \in {"none", "running", "connected", "fed", "gone"}
  /\ wrote \subseteq Writers
  /\ mainq \in Seq(Commands)
  /\ timeouts \in 0..MaxTimeouts

\* A SetupError "happened before any file data was transferred" (loader.go:16),
\* and no fileloader that starts late writes the destination after it.
SetupMeansUntouched == fast = "setup" => "fast" \notin wrote

\* A destination is a regular file or a new one in a directory: unless another
\* process replaces it after its check, neither method, and no fileloader or
\* command that is late, ever writes through a link or into anything else.
OnlyRegularDestination ==
  direction = "push" /\ ~replaced /\ wrote # {} => kind[target] = "file"

\* The loader directory is gone when the fast path has been left, unless its
\* removal failed, and no late command of the session brings it back.
LoaderDirectoryGone ==
  pc \in {"decide", "printf", "returned"} /\ owned /\ ~rmFailed => ~made

\* No port is left open by the fast path, also when it ends in an error.
ListenerClosed == pc \in {"decide", "printf", "returned"} => listener # "open"

\* The transfer as an upload: begun when a connection is served or the printf
\* path runs, refused when it ends with a SetupError or for the subnet.
outcome ==
  IF pc # "returned"
  THEN IF fast \in {"none", "setup"} /\ pc \notin {"serve", "printf"} THEN "idle" ELSE "writing"
  ELSE IF result \in {"subnet", "setup", "path"} THEN "refused" ELSE IF result = "ok" THEN "ok" ELSE "broken"

U == INSTANCE Upload WITH dest     <- wrote,
                          Content  <- SUBSET Writers,
                          Complete <- {{"fast"}, {"printf"}},
                          outcome  <- outcome

\* The transfer as a whole keeps the promise of Upload: a success is the work
\* of exactly one of the two paths, neither writes any more after it, and a
\* refused transfer is never written by a fileloader that starts late.
ImplementsUpload == U!UploadSpec

\* push returns, whatever fails and times out; so does a pull unless it comes
\* to wait for the data.
TransferReturns == <>(pc = "returned" \/ WaitsForPull)
=============================================================================
