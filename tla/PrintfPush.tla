----------------------------- MODULE PrintfPush -----------------------------
(***************************************************************************)
(* The upload through the Telnet shell: Scout.pushPrintf and what it calls *)
(* (internal/scout/push_printf.go, internal/helpers/upload.go, and the     *)
(* outcome of TelnetClient.ExecuteChecked).                                *)
(*                                                                         *)
(* A pool of workers takes fragments from a closed job queue, writes each  *)
(* one line by line with `printf > f` and `printf >> f` in a session of    *)
(* its own, and compares its size; the main session makes the private      *)
(* directory, waits for the workers, truncates the destination, appends    *)
(* the fragments to it in batches, compares the final size and removes the *)
(* directory.                                                              *)
(*                                                                         *)
(* The hard part is the timeout.  A command whose completion record does   *)
(* not arrive in time is an error for the client, but its text has been    *)
(* delivered: the shell of the abandoned session may run it later, at any  *)
(* moment, or never.  Such commands are kept in `stale' (sessions the      *)
(* workers have closed) and in `mainq' (the main session, whose shell runs *)
(* what it was sent in order).                                             *)
(*                                                                         *)
(* Data: the unit is one printf line (helpers.lineSize bytes of the file); *)
(* the file is the sequence 1, 2, ..., FileSize of its units, and 0 is a   *)
(* unit of whatever the destination held before.                           *)
(***************************************************************************)
EXTENDS Naturals, Integers, Sequences, FiniteSets

CONSTANTS NumThreads,     \* `threads', the size of the worker pool
          Retries,        \* `retries', attempts per fragment and per mkdir
          ChunkSize,      \* `chunkSize' in units
          JoinBatchSize,  \* `joinBatchSize', fragments per cat command
          FileSize,       \* units in the local file
          OldSizes,       \* sizes the destination may have before the push
          MaxTimeouts     \* bound of the model: commands that time out

ASSUME ConstantsAssumption ==
         /\ NumThreads \in Nat \ {0}
         /\ Retries \in Nat \ {0}
         /\ ChunkSize \in Nat \ {0}
         /\ JoinBatchSize \in Nat \ {0}
         /\ FileSize \in Nat
         /\ OldSizes \subseteq Nat
         /\ MaxTimeouts \in Nat

Threads     == 1..NumThreads
TotalChunks == (FileSize + ChunkSize - 1) \div ChunkSize
Chunks      == 0..(TotalChunks - 1)
Units       == Nat
Data        == [i \in 1..FileSize |-> i]

\* The lines of fragment c: data[start:end] with end clipped to len(data).
LinesOf(c) == IF (c + 1) * ChunkSize > FileSize THEN FileSize - c * ChunkSize
                                                ELSE ChunkSize
Unit(c, l) == c * ChunkSize + l

\* workerCount: no more workers than fragments.
WorkerCount == IF TotalChunks < NumThreads THEN TotalChunks ELSE NumThreads

\* Mutant: room for a single error.
SingleResult == 1

\* The capacity of the `results' channel.
ResultsCap == NumThreads

MainPCs   == {"start", "mkdir", "work", "truncate", "cat", "verify",
              "rm", "rmdir", "returned"}
WorkerPCs == {"off", "idle", "attempt", "send", "check", "fail", "closing", "done"}
Errors    == {"start", "mkdir", "worker", "join", "size", "cleanup"}
MainCommands  == [op : {"mkdir"}, arg : 1..Retries]
                 \cup [op : {"truncate", "cat", "rm", "rmdir"}, arg : Nat]
StaleCommands == [chunk : Chunks, attempt : 0..(Retries - 1), line : Nat]

VARIABLES
  pc,        \* where pushPrintf is
  mk,        \* mkdir attempts already made by createChunkDirectory
  scratch,   \* the directory it returned (0: none yet); a directory is its attempt
  next,      \* the fragment at the head of the `jobs' channel
  stopped,   \* the `stopped' channel is closed
  results,   \* the `results' channel: the workers that reported an error
  err,       \* the errors joined into pushPrintf's result
  joined,    \* fragments that the cats of joinChunks are done with
  batch,     \* `start' of joinChunks: the first fragment of the running cat
  missed,    \* the running cat has missed a part of one of its fragments
  wpc, job, attempt, line,  \* per worker: place, fragment, attempt, line
  verified,  \* fragments whose size check passed (the progress bar's count)
  dirs,      \* on the device: the private directories of this transfer
  frag,      \* on the device: the fragment files of the directory `scratch'
  dest,      \* on the device: the destination
  mainq,     \* commands sent in the main session that its shell has not run
  stale,     \* commands of closed worker sessions that may still run
  timeouts,  \* commands that have timed out (bounded by MaxTimeouts)
  tainted    \* fragments a stale command has changed since their last rewrite

mainVars   == <<pc, mk, scratch, err, joined, batch, missed>>
poolVars   == <<next, stopped, results, wpc, job, attempt, line, verified>>
deviceVars == <<dirs, frag, dest, tainted>>
lateVars   == <<mainq, stale, timeouts>>
vars == <<mainVars, poolVars, deviceVars, lateVars>>

Init ==
  /\ pc = "start"
  /\ mk = 0
  /\ scratch = 0
  /\ next = 0
  /\ stopped = FALSE
  /\ results = <<>>
  /\ err = {}
  /\ joined = 0
  /\ batch = 0
  /\ missed = FALSE
  /\ wpc = [t \in Threads |-> "off"]
  /\ job = [t \in Threads |-> 0]
  /\ attempt = [t \in Threads |-> 0]
  /\ line = [t \in Threads |-> 1]
  /\ verified = {}
  /\ dirs = {}
  /\ frag = <<>>
  /\ dest \in {[i \in 1..n |-> 0] : n \in OldSizes}
  /\ mainq = <<>>
  /\ stale = {}
  /\ timeouts = 0
  /\ tainted = {}

-----------------------------------------------------------------------------
(* Files on the device *)

Present(c) == c \in DOMAIN frag
PutFile(c, s) == [d \in DOMAIN frag \cup {c} |-> IF d = c THEN s ELSE frag[d]]
DropFiles(S) == [d \in DOMAIN frag \ S |-> frag[d]]

\* `printf > f' for the first line of a fragment, `printf >> f' for the others.
WriteUnit(c, l) ==
  frag' = PutFile(c, IF l = 1 \/ ~Present(c) THEN <<Unit(c, l)>>
                                             ELSE Append(frag[c], Unit(c, l)))

-----------------------------------------------------------------------------
(* The workers *)

\* for job := range jobs
TakeJob(t) ==
  /\ wpc[t] = "idle"
  /\ next < TotalChunks
  /\ job' = [job EXCEPT ![t] = next]
  /\ attempt' = [attempt EXCEPT ![t] = 0]
  /\ next' = next + 1
  /\ wpc' = [wpc EXCEPT ![t] = "attempt"]
  /\ UNCHANGED <<stopped, results, line, verified, mainVars, deviceVars, lateVars>>

\* The queue is closed and empty.
NoMoreJobs(t) ==
  /\ wpc[t] = "idle"
  /\ next = TotalChunks
  /\ wpc' = [wpc EXCEPT ![t] = "done"]
  /\ UNCHANGED <<next, stopped, results, job, attempt, line, verified,
                 mainVars, deviceVars, lateVars>>

\* case <-stopped: return
SeeStopped(t) ==
  /\ wpc[t] = "attempt"
  /\ stopped
  /\ wpc' = [wpc EXCEPT ![t] = "done"]
  /\ UNCHANGED <<next, stopped, results, job, attempt, line, verified,
                 mainVars, deviceVars, lateVars>>

BeginAttempt(t) ==
  /\ wpc[t] = "attempt"
  /\ ~stopped
  /\ line' = [line EXCEPT ![t] = 1]
  /\ wpc' = [wpc EXCEPT ![t] = "send"]
  /\ UNCHANGED <<next, stopped, results, job, attempt, verified,
                 mainVars, deviceVars, lateVars>>

\* One command of UploadData runs and its zero status is read.
SendLine(t) ==
  /\ wpc[t] = "send"
  /\ scratch \in dirs
  /\ WriteUnit(job[t], line[t])
  /\ tainted' = IF line[t] = 1 THEN tainted \ {job[t]} ELSE tainted
  /\ line' = [line EXCEPT ![t] = @ + 1]
  /\ wpc' = IF line[t] < LinesOf(job[t]) THEN wpc ELSE [wpc EXCEPT ![t] = "check"]
  /\ UNCHANGED <<next, stopped, results, job, attempt, verified,
                 mainVars, dirs, dest, lateVars>>

\* Mutant: the attempt counter is compared after one attempt too many.
ExtraAttempt(t) ==
  IF attempt[t] < Retries
  THEN /\ attempt' = [attempt EXCEPT ![t] = @ + 1]
       /\ wpc' = [wpc EXCEPT ![t] = "attempt"]
  ELSE /\ wpc' = [wpc EXCEPT ![t] = "fail"]
       /\ UNCHANGED attempt

\* The attempt has failed: try again, or give the fragment up after Retries.
NextAttempt(t) ==
  IF attempt[t] + 1 < Retries
  THEN /\ attempt' = [attempt EXCEPT ![t] = @ + 1]
       /\ wpc' = [wpc EXCEPT ![t] = "attempt"]
  ELSE /\ wpc' = [wpc EXCEPT ![t] = "fail"]
       /\ UNCHANGED attempt

\* The session cannot be opened, or the command ends with a nonzero status;
\* a failed `printf > f' may have truncated the fragment.
SendFails(t) ==
  /\ wpc[t] = "send"
  /\ NextAttempt(t)
  /\ \/ UNCHANGED frag
     \/ line[t] = 1 /\ scratch \in dirs /\ frag' = PutFile(job[t], <<>>)
  /\ UNCHANGED <<next, stopped, results, job, line, verified,
                 mainVars, dirs, dest, tainted, lateVars>>

\* No completion record in time: the worker closes the session, whose shell
\* has the command.
SendTimesOut(t) ==
  /\ wpc[t] = "send"
  /\ timeouts < MaxTimeouts
  /\ timeouts' = timeouts + 1
  /\ stale' = stale \cup {[chunk |-> job[t], attempt |-> attempt[t], line |-> line[t]]}
  /\ NextAttempt(t)
  /\ UNCHANGED <<next, stopped, results, job, line, verified,
                 mainVars, deviceVars, mainq>>

SizeMatches(c) == Present(c) /\ Len(frag[c]) = LinesOf(c)

\* checkFileSize accepts the fragment: s.bar.Add and the next job.
CheckPasses(t) ==
  /\ wpc[t] = "check"
  /\ SizeMatches(job[t])
  /\ verified' = verified \cup {job[t]}
  /\ wpc' = [wpc EXCEPT ![t] = "idle"]
  /\ UNCHANGED <<next, stopped, results, job, attempt, line,
                 mainVars, deviceVars, lateVars>>

\* The size differs, or the check itself fails (session, wc, timeout).
CheckFails(t) ==
  /\ wpc[t] = "check"
  /\ NextAttempt(t)
  /\ UNCHANGED <<next, stopped, results, job, line, verified,
                 mainVars, deviceVars, lateVars>>

\* results <- err (blocks while the channel is full)
ReportFailure(t) ==
  /\ wpc[t] = "fail"
  /\ Len(results) < ResultsCap
  /\ results' = Append(results, t)
  /\ wpc' = [wpc EXCEPT ![t] = "closing"]
  /\ UNCHANGED <<next, stopped, job, attempt, line, verified,
                 mainVars, deviceVars, lateVars>>

\* stopOnce.Do(func() { close(stopped) })
CloseStopped(t) ==
  /\ wpc[t] = "closing"
  /\ stopped' = TRUE
  /\ wpc' = [wpc EXCEPT ![t] = "done"]
  /\ UNCHANGED <<next, results, job, attempt, line, verified,
                 mainVars, deviceVars, lateVars>>

WorkerStep(t) ==
  \/ TakeJob(t) \/ NoMoreJobs(t) \/ SeeStopped(t) \/ BeginAttempt(t)
  \/ SendLine(t) \/ SendFails(t) \/ SendTimesOut(t)
  \/ CheckPasses(t) \/ CheckFails(t) \/ ReportFailure(t) \/ CloseStopped(t)

-----------------------------------------------------------------------------
(* The main session *)

\* A command is answered only after its shell has run what was sent before.
Answered == mainq = <<>>

\* No completion record for command c: it stays in the session's input.
TimesOut(c) ==
  /\ timeouts < MaxTimeouts
  /\ timeouts' = timeouts + 1
  /\ mainq' = Append(mainq, c)
  /\ UNCHANGED stale

\* ValidateShellPath, os.ReadFile and newClient succeed.
Begin ==
  /\ pc = "start"
  /\ pc' = "mkdir"
  /\ UNCHANGED <<mk, scratch, err, joined, batch, missed, poolVars, deviceVars, lateVars>>

CannotBegin ==
  /\ pc = "start"
  /\ pc' = "returned"
  /\ err' = {"start"}
  /\ UNCHANGED <<mk, scratch, joined, batch, missed, poolVars, deviceVars, lateVars>>

\* mkdir succeeds; the workers are started.
MakeDirectory ==
  /\ pc = "mkdir"
  /\ Answered
  /\ mk' = mk + 1
  /\ dirs' = dirs \cup {mk + 1}
  /\ scratch' = mk + 1
  /\ pc' = "work"
  /\ wpc' = [t \in Threads |-> IF t <= WorkerCount THEN "idle" ELSE "off"]
  /\ UNCHANGED <<err, joined, batch, missed, next, stopped, results, job, attempt, line,
                 verified, frag, dest, tainted, lateVars>>

\* mkdir fails or times out: another attempt with a fresh name, or give up.
\* No cleanup is registered before createChunkDirectory has succeeded.
MakeDirectoryFails ==
  /\ pc = "mkdir"
  /\ mk' = mk + 1
  /\ \/ UNCHANGED lateVars
     \/ TimesOut([op |-> "mkdir", arg |-> mk + 1])
  /\ IF mk + 1 < Retries
     THEN UNCHANGED <<pc, err>>
     ELSE pc' = "returned" /\ err' = {"mkdir"}
  /\ UNCHANGED <<scratch, joined, batch, missed, poolVars, deviceVars>>

\* Mutant: the errors in `results' are not looked at.
JoinWithoutResults ==
  /\ pc = "work"
  /\ \A t \in Threads : wpc[t] \in {"off", "done"}
  /\ pc' = "truncate"
  /\ UNCHANGED <<mk, scratch, err, joined, batch, missed, poolVars, deviceVars, lateVars>>

\* Mutant: a failed upload returns without the deferred cleanup.
JoinWithoutCleanup ==
  /\ pc = "work"
  /\ \A t \in Threads : wpc[t] \in {"off", "done"}
  /\ IF results = <<>>
     THEN pc' = "truncate" /\ UNCHANGED err
     ELSE pc' = "returned" /\ err' = err \cup {"worker"}
  /\ UNCHANGED <<mk, scratch, joined, batch, missed, poolVars, deviceVars, lateVars>>

\* workers.Wait(), then the errors in `results' are joined.
JoinWorkers ==
  /\ pc = "work"
  /\ \A t \in Threads : wpc[t] \in {"off", "done"}
  /\ IF results = <<>>
     THEN pc' = "truncate" /\ UNCHANGED err
     ELSE pc' = "rm" /\ err' = err \cup {"worker"}
  /\ UNCHANGED <<mk, scratch, joined, batch, missed, poolVars, deviceVars, lateVars>>

\* Mutant: the first batch does not truncate the destination.
NoTruncate ==
  /\ pc = "truncate"
  /\ Answered
  /\ pc' = IF TotalChunks = 0 THEN "verify" ELSE "cat"
  /\ UNCHANGED <<mk, scratch, err, joined, batch, missed, poolVars, deviceVars, lateVars>>

\* : > target
Truncate ==
  /\ pc = "truncate"
  /\ Answered
  /\ dest' = <<>>
  /\ pc' = IF TotalChunks = 0 THEN "verify" ELSE "cat"
  /\ UNCHANGED <<mk, scratch, err, joined, batch, missed, poolVars, dirs, frag, tainted, lateVars>>

TruncateFails ==
  /\ pc = "truncate"
  /\ \/ UNCHANGED lateVars
     \/ TimesOut([op |-> "truncate", arg |-> 0])
  /\ pc' = "rm"
  /\ err' = err \cup {"join"}
  /\ UNCHANGED <<mk, scratch, joined, batch, missed, poolVars, deviceVars>>

\* Fragment c is the last operand of the running cat.
EndsBatch(c) == c + 1 = batch + JoinBatchSize \/ c + 1 = TotalChunks

\* Mutant: the status of a cat is not looked at.
IgnoreStatus(m) ==
  /\ joined' = joined + 1
  /\ missed' = FALSE
  /\ batch' = IF EndsBatch(joined) THEN joined + 1 ELSE batch
  /\ pc' = IF joined + 1 = TotalChunks THEN "verify" ELSE pc
  /\ UNCHANGED err

\* cat is done with a fragment, m if it has missed something in this batch: it
\* goes on with the next one, and its status tells after the last.
NextOperand(m) ==
  /\ joined' = joined + 1
  /\ missed' = m
  /\ \/ /\ ~EndsBatch(joined)
        /\ UNCHANGED <<pc, err, batch>>
     \/ /\ EndsBatch(joined)
        /\ ~m
        /\ batch' = joined + 1
        /\ pc' = IF joined + 1 = TotalChunks THEN "verify" ELSE pc
        /\ UNCHANGED err
     \/ /\ EndsBatch(joined)
        /\ m
        /\ pc' = "rm"
        /\ err' = err \cup {"join"}
        /\ UNCHANGED batch

\* What cat may append of fragment c: a beginning, or nothing, when the file is
\* not there, cannot be read to its end, or cannot be written.
AppendPart(c) ==
  LET s == IF Present(c) THEN frag[c] ELSE <<>>
  IN  \E n \in 0..Len(s) : dest' = dest \o SubSeq(s, 1, n)

\* Mutant: the fragment goes before what has been joined.
PrependFragment ==
  /\ pc = "cat"
  /\ Answered
  /\ Present(joined)
  /\ dest' = frag[joined] \o dest
  /\ NextOperand(missed)
  /\ UNCHANGED <<mk, scratch, poolVars, dirs, frag, tainted, lateVars>>

\* cat reads the fragments of a batch one after the other; the reply to the
\* batch is awaited before the next batch is sent.
AppendFragment ==
  /\ pc = "cat"
  /\ Answered
  /\ Present(joined)
  /\ dest' = dest \o frag[joined]
  /\ NextOperand(missed)
  /\ UNCHANGED <<mk, scratch, poolVars, dirs, frag, tainted, lateVars>>

\* cat cannot open, read or write a fragment as a whole: it reports that and
\* goes on with its next operand.
MissFragment ==
  /\ pc = "cat"
  /\ Answered
  /\ AppendPart(joined)
  /\ NextOperand(TRUE)
  /\ UNCHANGED <<mk, scratch, poolVars, dirs, frag, tainted, lateVars>>

\* cat ends before its next operand (the redirection fails, or it is killed), or
\* no completion record comes in time.
AppendFails ==
  /\ pc = "cat"
  /\ \/ UNCHANGED lateVars
     \/ TimesOut([op |-> "cat", arg |-> joined])
  /\ pc' = "rm"
  /\ err' = err \cup {"join"}
  /\ UNCHANGED <<mk, scratch, joined, batch, missed, poolVars, deviceVars>>

\* Mutant: the final size is not compared.
SkipVerify ==
  /\ pc = "verify"
  /\ pc' = "rm"
  /\ UNCHANGED <<mk, scratch, err, joined, batch, missed, poolVars, deviceVars, lateVars>>

\* The final checkFileSize; wc has no effect, so a late one is not kept.
VerifySize ==
  /\ pc = "verify"
  /\ \/ Answered /\ Len(dest) = FileSize /\ UNCHANGED err
     \/ err' = err \cup {"size"}
  /\ pc' = "rm"
  /\ UNCHANGED <<mk, scratch, joined, batch, missed, poolVars, deviceVars, lateVars>>

\* rm -r scratch removes the entries, then the directory, which fails when an
\* abandoned session has made a new entry in between.
RemoveEntries ==
  /\ pc = "rm"
  /\ Answered
  /\ frag' = <<>>
  /\ pc' = "rmdir"
  /\ UNCHANGED <<mk, scratch, err, joined, batch, missed, poolVars, dirs, dest, tainted, lateVars>>

RemoveDirectory ==
  /\ pc = "rmdir"
  /\ DOMAIN frag = {}
  /\ dirs' = dirs \ {scratch}
  /\ pc' = "returned"
  /\ UNCHANGED <<mk, scratch, err, joined, batch, missed, poolVars, frag, dest, tainted, lateVars>>

\* Cleanup fails; its error is joined to the one there may already be.
CleanupFails ==
  /\ pc \in {"rm", "rmdir"}
  /\ \/ UNCHANGED <<frag, lateVars>>
     \/ /\ pc = "rm" /\ Answered
        /\ \E S \in SUBSET DOMAIN frag : frag' = DropFiles(S)
        /\ UNCHANGED lateVars
     \/ TimesOut([op |-> pc, arg |-> 0]) /\ UNCHANGED frag
  /\ pc' = "returned"
  /\ err' = err \cup {"cleanup"}
  /\ UNCHANGED <<mk, scratch, joined, batch, missed, poolVars, dirs, dest, tainted>>

MainStep ==
  \/ Begin \/ CannotBegin \/ MakeDirectory \/ MakeDirectoryFails \/ JoinWorkers
  \/ Truncate \/ TruncateFails \/ AppendFragment \/ MissFragment \/ AppendFails
  \/ VerifySize \/ RemoveEntries \/ RemoveDirectory \/ CleanupFails

-----------------------------------------------------------------------------
(* Shells that run a command after the client has given up on it *)

\* A closed worker session runs its last command.  Without the directory the
\* redirection fails and nothing changes.
StaleWrite(s) ==
  /\ s \in stale
  /\ stale' = stale \ {s}
  /\ IF scratch \in dirs
     THEN /\ WriteUnit(s.chunk, s.line)
          /\ tainted' = IF s.chunk < joined THEN tainted ELSE tainted \cup {s.chunk}
     ELSE UNCHANGED <<frag, tainted>>
  /\ UNCHANGED <<mainVars, poolVars, dirs, dest, mainq, timeouts>>

\* What is left of a batch after fragment k, appended whole or not.
RestOfBatch(k) ==
  IF EndsBatch(k) THEN Tail(mainq)
                  ELSE <<[op |-> "cat", arg |-> k + 1]>> \o Tail(mainq)

\* The main session's shell runs the oldest command it still has.
LateMain ==
  /\ mainq # <<>>
  /\ LET c == Head(mainq) IN
       \/ /\ c.op = "mkdir"
          /\ dirs' = dirs \cup {c.arg}
          /\ mainq' = Tail(mainq)
          /\ UNCHANGED <<frag, dest>>
       \/ /\ c.op = "truncate"
          /\ dest' = <<>>
          /\ mainq' = Tail(mainq)
          /\ UNCHANGED <<dirs, frag>>
       \/ /\ c.op = "cat"
          /\ AppendPart(c.arg)
          /\ mainq' = RestOfBatch(c.arg)
          /\ UNCHANGED <<dirs, frag>>
       \/ /\ c.op = "rm"
          /\ frag' = <<>>
          /\ mainq' = <<[op |-> "rmdir", arg |-> 0]>> \o Tail(mainq)
          /\ UNCHANGED <<dirs, dest>>
       \/ /\ c.op = "rmdir"
          /\ dirs' = IF DOMAIN frag = {} THEN dirs \ {scratch} ELSE dirs
          /\ mainq' = Tail(mainq)
          /\ UNCHANGED <<frag, dest>>
       \/ mainq' = Tail(mainq) /\ UNCHANGED <<dirs, frag, dest>>  \* it fails
  /\ UNCHANGED <<mainVars, poolVars, stale, timeouts, tainted>>

Returned == pc = "returned" /\ UNCHANGED vars

Next ==
  \/ MainStep
  \/ \E t \in Threads : WorkerStep(t)
  \/ \E s \in stale : StaleWrite(s)
  \/ LateMain
  \/ Returned

\* Every command ends: it is answered, it fails, or its deadline passes.  An
\* abandoned shell owes nothing.
Fairness == WF_vars(MainStep) /\ \A t \in Threads : WF_vars(WorkerStep(t))

Spec == Init /\ [][Next]_vars /\ Fairness
-----------------------------------------------------------------------------
(* Properties *)

Success == pc = "returned" /\ err = {}

\* Types, part by part.  An attempt never reaches `retries', the files of the
\* device are those of this push.
MainType ==
  /\ pc \in MainPCs
  /\ mk \in 0..Retries
  /\ scratch \in 0..Retries
  /\ err \subseteq Errors
  /\ joined \in 0..TotalChunks
  /\ batch \in 0..TotalChunks
  /\ missed \in BOOLEAN

PoolType ==
  /\ next \in 0..TotalChunks
  /\ stopped \in BOOLEAN
  /\ results \in Seq(Threads)
  /\ wpc \in [Threads -> WorkerPCs]
  /\ job \in [Threads -> Nat]
  /\ attempt \in [Threads -> 0..(Retries - 1)]
  /\ line \in [Threads -> Nat]
  /\ verified \subseteq Chunks

FragType ==
  /\ frag = [c \in DOMAIN frag |-> frag[c]]
  /\ DOMAIN frag \subseteq Chunks
  /\ \A c \in DOMAIN frag : frag[c] \in Seq(Units)

DeviceType ==
  /\ dirs \subseteq 1..Retries
  /\ FragType
  /\ dest \in Seq(Units)
  /\ tainted \subseteq Chunks

LateType ==
  /\ mainq \in Seq(MainCommands)
  /\ stale \subseteq StaleCommands
  /\ timeouts \in 0..MaxTimeouts

TypeOK == MainType /\ PoolType /\ DeviceType /\ LateType

\* The destination is written only when every fragment of the file has passed
\* its size check: a failed, stopped or still running worker keeps pushPrintf,
\* and every command it leaves behind, away from the destination.
DestWrittenOnlyWhenVerified == [][dest' # dest => verified = Chunks]_vars

\* The units of the batches that cat has reported as appended, and the last unit
\* that the running batch can append.
Whole == IF batch * ChunkSize < FileSize THEN batch * ChunkSize ELSE FileSize
Reach == IF (batch + JoinBatchSize) * ChunkSize < FileSize
         THEN (batch + JoinBatchSize) * ChunkSize ELSE FileSize

\* An error or an interruption leaves the old contents, or empty or partial
\* ones (README.md:121-123).  Partial: every batch but the last one sent is
\* there, and of that one some units, in their order and none twice; a cat that
\* misses a fragment goes on, so there may be a hole among these.  The exception
\* is a fragment that an abandoned session rewrote behind its size check.
DestIsOldOrInOrder ==
  tainted = {} =>
    \/ \A i \in 1..Len(dest) : dest[i] = 0
    \/ /\ Whole <= Len(dest)
       /\ \A i \in 1..Len(dest) : dest[i] \in 1..Reach /\ (i <= Whole => dest[i] = i)
       /\ \A i, j \in 1..Len(dest) : i < j => dest[i] < dest[j]

\* pushPrintf reports success only for a destination with the file's contents,
\* as long as no abandoned command changed a fragment behind its size check.
ExactUnlessTainted == Success /\ tainted = {} => dest = Data

\* After a cleanup that reported no error the fragment directory is gone, and
\* no abandoned command brings it back.
ScratchGone ==
  pc = "returned" /\ scratch # 0 /\ "cleanup" \notin err => scratch \notin dirs

\* pushPrintf returns, whatever fails and times out: the workers all end, none
\* of them blocked on the `results' channel.
PushReturns == <>(pc = "returned")

\* The promise of Upload.  The push is still idle while it deals with fragments
\* only, and refused when it returns an error from that part.
FragmentErrors == {"start", "mkdir", "worker"}
outcome ==
  IF pc = "returned"
  THEN IF err = {} THEN "ok"
       ELSE IF err \cap FragmentErrors = {} THEN "broken" ELSE "refused"
  ELSE IF pc \in {"start", "mkdir", "work"} \/ "worker" \in err THEN "idle" ELSE "writing"

Sized == {s \in Seq(Units) : Len(s) = FileSize}

U == INSTANCE Upload WITH Content  <- Seq(Units),
                          Complete <- Sized,
                          outcome  <- outcome

\* pushPrintf implements Upload: untouched until the join, reported as complete
\* only with the right size, never written after success, never after a refusal.
ImplementsUpload == U!UploadSpec

\* "Each transfer owns an exclusively created private directory" (README.md:139)
\* and internal/scout/push_printf_test.go:88 expects that none of those a
\* transfer made survives it: after a success with nothing left to run in the
\* main session, no directory is left.
EveryScratchGone == Success /\ mainq = <<>> => dirs = {}
=============================================================================
