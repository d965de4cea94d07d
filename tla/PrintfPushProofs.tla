-------------------------- MODULE PrintfPushProofs --------------------------
(***************************************************************************)
(* Theorems about PrintfPush, for every number of threads, retries, units  *)
(* and timeouts.                                                           *)
(***************************************************************************)
EXTENDS PrintfPush, SequenceTheorems, TLAPS

USE ConstantsAssumption

-----------------------------------------------------------------------------
(* The inductive invariant *)

\* A worker that has a fragment it has neither finished nor given up.
Holding == {"attempt", "send", "check", "fail"}

\* The types, with the counters that are about to be incremented below their
\* limit and the fragments that workers hold taken from the queue.
MainInv ==
  /\ MainType
  /\ pc = "start" => mk = 0
  /\ pc = "mkdir" => mk < Retries
  /\ pc \in {"start", "mkdir", "work", "truncate"} => joined = 0
  /\ pc = "cat" => joined < TotalChunks

PoolInv ==
  /\ PoolType
  /\ \A t \in Threads : wpc[t] \in Holding => job[t] < next

TypeInv == MainInv /\ PoolInv /\ DeviceType /\ LateType

\* The workers are numbered from 1, and there is at least one slot.
LEMMA ThreadsArePositive == Threads \subseteq Nat \ {0} /\ 1 \in Threads
BY DEF Threads

\* totalChunks, rounded up, is a natural number.
LEMMA TotalChunksIsNat == TotalChunks \in Nat
BY DEF TotalChunks

\* The fragments are the indices below totalChunks.
LEMMA ChunksAreNats == Chunks \subseteq Nat /\ \A c \in Nat : c < TotalChunks <=> c \in Chunks
BY TotalChunksIsNat DEF Chunks

\* A line of a fragment is a unit of the file.
LEMMA UnitIsNat == ASSUME NEW c \in Nat, NEW l \in Nat PROVE Unit(c, l) \in Units
BY DEF Unit, Units

\* A fragment file that is written keeps the fragment files well formed.
LEMMA PutFileType ==
  ASSUME FragType, NEW c \in Chunks, NEW s \in Seq(Units), frag' = PutFile(c, s)
  PROVE  FragType'
BY DEF PutFile, FragType

\* So does one printf command, whichever redirection it uses.
LEMMA WriteUnitType ==
  ASSUME FragType, NEW c \in Chunks, NEW l \in Nat, WriteUnit(c, l)
  PROVE  FragType'
<1> DEFINE s == IF l = 1 \/ ~Present(c) THEN <<Unit(c, l)>>
                                        ELSE Append(frag[c], Unit(c, l))
<1>1. Unit(c, l) \in Units
  BY UnitIsNat, ChunksAreNats
<1>2. s \in Seq(Units)
  BY <1>1 DEF Present, FragType
<1>3. frag' = PutFile(c, s)
  BY DEF WriteUnit
<1> HIDE DEF s
<1> QED BY <1>2, <1>3, PutFileType

\* A part of the state that a step leaves alone stays well formed.
LEMMA Undisturbed ==
  ASSUME TypeInv
  PROVE  /\ UNCHANGED mainVars => MainInv'
         /\ UNCHANGED poolVars => PoolInv'
         /\ UNCHANGED deviceVars => DeviceType'
         /\ UNCHANGED frag => FragType'
         /\ UNCHANGED lateVars => LateType'
<1>1. UNCHANGED mainVars => MainInv'
  BY DEF TypeInv, MainInv, MainType, mainVars
<1>2. UNCHANGED poolVars => PoolInv'
  BY DEF TypeInv, PoolInv, PoolType, poolVars
<1>3. UNCHANGED frag => FragType'
  BY DEF TypeInv, DeviceType, FragType
<1>4. UNCHANGED deviceVars => DeviceType'
  BY <1>3 DEF TypeInv, DeviceType, deviceVars
<1>5. UNCHANGED lateVars => LateType'
  BY DEF TypeInv, LateType, lateVars
<1> QED BY <1>1, <1>2, <1>3, <1>4, <1>5

\* Before the push everything is well formed.
LEMMA InitTypeInv == Init => TypeInv
<1> SUFFICES ASSUME Init PROVE TypeInv
  OBVIOUS
<1>1. 0 \in 0..TotalChunks /\ 0 \in 0..(Retries - 1) /\ 0 \in 0..Retries
  BY TotalChunksIsNat
<1>2. MainInv
  BY <1>1 DEF Init, MainInv, MainType, MainPCs, Errors
<1>3. PoolInv
  <2>1. next \in 0..TotalChunks /\ results \in Seq(Threads)
    BY <1>1 DEF Init
  <2>2. /\ wpc \in [Threads -> WorkerPCs] /\ job \in [Threads -> Nat]
        /\ line \in [Threads -> Nat] /\ attempt \in [Threads -> 0..(Retries - 1)]
    BY <1>1 DEF Init, WorkerPCs
  <2>3. \A t \in Threads : wpc[t] \notin Holding
    BY DEF Init, Holding
  <2> QED BY <2>1, <2>2, <2>3 DEF Init, PoolInv, PoolType
<1>4. FragType
  BY DEF Init, FragType
<1>5. dest \in Seq(Units)
  BY DEF Init, Units
<1>6. DeviceType
  BY <1>4, <1>5 DEF Init, DeviceType
<1>7. LateType
  BY DEF Init, LateType
<1> QED BY <1>2, <1>3, <1>6, <1>7 DEF TypeInv

\* A fragment a worker holds is one of the file.
LEMMA HeldIsChunk ==
  ASSUME TypeInv, NEW t \in Threads, wpc[t] \in Holding
  PROVE  job[t] \in Chunks
BY ChunksAreNats, TotalChunksIsNat DEF TypeInv, PoolInv, PoolType

\* The two ways an attempt ends in failure.
LEMMA NextAttemptType ==
  ASSUME TypeInv, NEW t \in Threads, wpc[t] \in Holding, NextAttempt(t),
         UNCHANGED <<next, stopped, results, job, line, verified>>
  PROVE  PoolInv'
<1>1. /\ wpc' \in [Threads -> WorkerPCs]
      /\ attempt' \in [Threads -> 0..(Retries - 1)]
  <2>1. wpc \in [Threads -> WorkerPCs] /\ attempt \in [Threads -> 0..(Retries - 1)]
    BY DEF TypeInv, PoolInv, PoolType
  <2>2. CASE attempt[t] + 1 < Retries
    <3>1. attempt[t] + 1 \in 0..(Retries - 1)
      BY <2>1, <2>2
    <3> QED BY <2>1, <2>2, <3>1 DEF NextAttempt, WorkerPCs
  <2>3. CASE ~(attempt[t] + 1 < Retries)
    BY <2>1, <2>3 DEF NextAttempt, WorkerPCs
  <2> QED BY <2>2, <2>3
<1>2. \A u \in Threads : wpc'[u] \in Holding => job'[u] < next'
  BY DEF TypeInv, PoolInv, PoolType, Holding, NextAttempt
<1> QED BY <1>1, <1>2 DEF TypeInv, PoolInv, PoolType

\* No step of a worker breaks a type; an attempt stays below `retries'.
LEMMA WorkerTypeInv ==
  ASSUME TypeInv, NEW t \in Threads, WorkerStep(t)
  PROVE  TypeInv'
<1>1. CASE TakeJob(t)
  <2>1. PoolInv'
    <3>1. next' \in 0..TotalChunks
      BY <1>1, TotalChunksIsNat DEF TakeJob, TypeInv, PoolInv, PoolType
    <3>2. /\ wpc' \in [Threads -> WorkerPCs] /\ job' \in [Threads -> Nat]
          /\ attempt' \in [Threads -> 0..(Retries - 1)]
      BY <1>1, TotalChunksIsNat DEF TakeJob, TypeInv, PoolInv, PoolType, WorkerPCs
    <3>3. \A u \in Threads : wpc'[u] \in Holding => job'[u] < next'
      BY <1>1, TotalChunksIsNat DEF TakeJob, TypeInv, PoolInv, PoolType, Holding
    <3> QED BY <1>1, <3>1, <3>2, <3>3 DEF TakeJob, TypeInv, PoolInv, PoolType
  <2> QED BY <1>1, <2>1, Undisturbed DEF TakeJob, TypeInv
<1>2. CASE NoMoreJobs(t)
  <2>1. PoolInv'
    BY <1>2 DEF NoMoreJobs, TypeInv, PoolInv, PoolType, WorkerPCs, Holding
  <2> QED BY <1>2, <2>1, Undisturbed DEF NoMoreJobs, TypeInv
<1>3. CASE SeeStopped(t)
  <2>1. PoolInv'
    BY <1>3 DEF SeeStopped, TypeInv, PoolInv, PoolType, WorkerPCs, Holding
  <2> QED BY <1>3, <2>1, Undisturbed DEF SeeStopped, TypeInv
<1>4. CASE BeginAttempt(t)
  <2>1. PoolInv'
    BY <1>4 DEF BeginAttempt, TypeInv, PoolInv, PoolType, WorkerPCs, Holding
  <2> QED BY <1>4, <2>1, Undisturbed DEF BeginAttempt, TypeInv
<1>5. CASE SendLine(t)
  <2>1. PoolInv'
    BY <1>5 DEF SendLine, TypeInv, PoolInv, PoolType, WorkerPCs, Holding
  <2>2. job[t] \in Chunks /\ line[t] \in Nat
    BY <1>5, HeldIsChunk DEF SendLine, Holding, TypeInv, PoolInv, PoolType
  <2>3. FragType'
    BY <1>5, <2>2, WriteUnitType DEF SendLine, TypeInv, DeviceType
  <2>4. DeviceType'
    BY <1>5, <2>3 DEF SendLine, TypeInv, DeviceType
  <2> QED BY <1>5, <2>1, <2>4, Undisturbed DEF SendLine, TypeInv
<1>6. CASE SendFails(t)
  <2>1. PoolInv'
    BY <1>6, NextAttemptType DEF SendFails, Holding
  <2>2. job[t] \in Chunks /\ <<>> \in Seq(Units)
    BY <1>6, HeldIsChunk DEF SendFails, Holding
  <2>3. FragType'
    BY <1>6, <2>2, PutFileType, Undisturbed DEF SendFails, TypeInv, DeviceType
  <2>4. DeviceType'
    BY <1>6, <2>3 DEF SendFails, TypeInv, DeviceType
  <2> QED BY <1>6, <2>1, <2>4, Undisturbed DEF SendFails, TypeInv
<1>7. CASE SendTimesOut(t)
  <2>1. PoolInv'
    BY <1>7, NextAttemptType DEF SendTimesOut, Holding
  <2>2. [chunk |-> job[t], attempt |-> attempt[t], line |-> line[t]] \in StaleCommands
    BY <1>7, HeldIsChunk
    DEF SendTimesOut, Holding, TypeInv, PoolInv, PoolType, StaleCommands
  <2>3. LateType'
    BY <1>7, <2>2 DEF SendTimesOut, TypeInv, LateType
  <2> QED BY <1>7, <2>1, <2>3, Undisturbed DEF SendTimesOut, TypeInv
<1>8. CASE CheckPasses(t)
  <2>1. job[t] \in Chunks
    BY <1>8, HeldIsChunk DEF CheckPasses, Holding
  <2>2. PoolInv'
    BY <1>8, <2>1 DEF CheckPasses, TypeInv, PoolInv, PoolType, WorkerPCs, Holding
  <2> QED BY <1>8, <2>2, Undisturbed DEF CheckPasses, TypeInv
<1>9. CASE CheckFails(t)
  <2>1. PoolInv'
    BY <1>9, NextAttemptType DEF CheckFails, Holding
  <2> QED BY <1>9, <2>1, Undisturbed DEF CheckFails, TypeInv
<1>10. CASE ReportFailure(t)
  <2>1. PoolInv'
    BY <1>10 DEF ReportFailure, TypeInv, PoolInv, PoolType, WorkerPCs, Holding
  <2> QED BY <1>10, <2>1, Undisturbed DEF ReportFailure, TypeInv
<1>11. CASE CloseStopped(t)
  <2>1. PoolInv'
    BY <1>11 DEF CloseStopped, TypeInv, PoolInv, PoolType, WorkerPCs, Holding
  <2> QED BY <1>11, <2>1, Undisturbed DEF CloseStopped, TypeInv
<1> QED BY <1>1, <1>2, <1>3, <1>4, <1>5, <1>6, <1>7, <1>8, <1>9, <1>10, <1>11
        DEF WorkerStep

\* A command that times out in the main session is kept in its queue.
LEMMA TimesOutType ==
  ASSUME TypeInv, NEW c \in MainCommands, TimesOut(c)
  PROVE  LateType'
BY DEF TypeInv, LateType, TimesOut

\* What cat appends of a fragment are units.
LEMMA AppendPartDest ==
  ASSUME TypeInv, NEW c \in Nat, AppendPart(c)
  PROVE  dest' \in Seq(Units)
<1> DEFINE s == IF Present(c) THEN frag[c] ELSE <<>>
<1>1. dest \in Seq(Units)
  BY DEF TypeInv, DeviceType
<1>2. s \in Seq(Units)
  BY DEF Present, TypeInv, DeviceType, FragType
<1>3. PICK n \in 0..Len(s) : dest' = dest \o SubSeq(s, 1, n)
  BY DEF AppendPart
<1> HIDE DEF s
<1>4. SubSeq(s, 1, n) \in Seq(Units)
  BY <1>2, <1>3, SubSeqProperties
<1> QED BY <1>1, <1>3, <1>4, ConcatProperties

\* cat is done with one of its operands.
LEMMA NextOperandType ==
  ASSUME TypeInv, pc = "cat", NEW m \in BOOLEAN, NextOperand(m), UNCHANGED <<mk, scratch>>
  PROVE  MainInv'
<1>1. joined \in Nat /\ joined < TotalChunks /\ TotalChunks \in Nat
  BY TotalChunksIsNat DEF TypeInv, MainInv, MainType
<1>2. joined' = joined + 1 /\ joined + 1 \in 0..TotalChunks /\ missed' = m
  BY <1>1 DEF NextOperand
<1>3. pc' \in {"cat", "verify", "rm"} /\ batch' \in {batch, joined + 1} /\ err' \in {err, err \cup {"join"}}
  BY DEF NextOperand
<1>4. pc' = "cat" => joined' < TotalChunks
  <2>1. joined + 1 # TotalChunks => joined + 1 < TotalChunks
    BY <1>1
  <2>2. pc' = "cat" => joined + 1 # TotalChunks
    BY DEF NextOperand, EndsBatch
  <2> QED BY <1>2, <2>1, <2>2
<1> QED BY <1>2, <1>3, <1>4 DEF TypeInv, MainInv, MainType, MainPCs, Errors

\* Removing fragment files keeps the others well formed.
LEMMA DropFilesType ==
  ASSUME TypeInv, NEW S \in SUBSET DOMAIN frag, frag' = DropFiles(S)
  PROVE  FragType'
BY DEF TypeInv, DeviceType, FragType, DropFiles

\* No step of the main session breaks a type.
LEMMA MainTypeInv ==
  ASSUME TypeInv, MainStep
  PROVE  TypeInv'
<1> USE TotalChunksIsNat
<1>1. CASE Begin
  <2>1. MainInv'
    BY <1>1 DEF Begin, TypeInv, MainInv, MainType, MainPCs, Errors
  <2> QED BY <1>1, <2>1, Undisturbed DEF Begin, TypeInv
<1>2. CASE CannotBegin
  <2>1. MainInv'
    BY <1>2 DEF CannotBegin, TypeInv, MainInv, MainType, MainPCs, Errors
  <2> QED BY <1>2, <2>1, Undisturbed DEF CannotBegin, TypeInv
<1>3. CASE MakeDirectory
  <2>1. MainInv'
    BY <1>3 DEF MakeDirectory, TypeInv, MainInv, MainType, MainPCs, Errors
  <2>2. PoolInv'
    BY <1>3 DEF MakeDirectory, TypeInv, PoolInv, PoolType, WorkerPCs, Holding
  <2>3. dirs' \subseteq 1..Retries
    BY <1>3 DEF MakeDirectory, TypeInv, MainInv, MainType, DeviceType
  <2>4. DeviceType'
    BY <1>3, <2>3, Undisturbed DEF MakeDirectory, TypeInv, DeviceType
  <2> QED BY <1>3, <2>1, <2>2, <2>3, <2>4, Undisturbed DEF MakeDirectory, TypeInv
<1>4. CASE MakeDirectoryFails
  <2>1. MainInv'
    <3>1. mk \in Nat /\ mk < Retries
      BY <1>4 DEF MakeDirectoryFails, TypeInv, MainInv, MainType
    <3>2. CASE mk + 1 < Retries
      BY <1>4, <3>1, <3>2 DEF MakeDirectoryFails, TypeInv, MainInv, MainType
    <3>3. CASE ~(mk + 1 < Retries)
      <4>1. pc' = "returned" /\ err' = {"mkdir"} /\ mk' = mk + 1 /\ mk' \in 0..Retries
        BY <1>4, <3>1, <3>3 DEF MakeDirectoryFails
      <4>2. UNCHANGED <<scratch, joined, batch, missed>>
        BY <1>4 DEF MakeDirectoryFails
      <4> QED BY <4>1, <4>2 DEF TypeInv, MainInv, MainType, MainPCs, Errors
    <3> QED BY <3>2, <3>3
  <2>2. [op |-> "mkdir", arg |-> mk + 1] \in MainCommands
    BY <1>4 DEF MakeDirectoryFails, TypeInv, MainInv, MainType, MainCommands
  <2>3. LateType'
    BY <1>4, <2>2, TimesOutType, Undisturbed DEF MakeDirectoryFails
  <2> QED BY <1>4, <2>1, <2>2, <2>3, Undisturbed DEF MakeDirectoryFails, TypeInv
<1>5. CASE JoinWorkers
  <2>1. MainInv'
    BY <1>5 DEF JoinWorkers, TypeInv, MainInv, MainType, MainPCs, Errors
  <2> QED BY <1>5, <2>1, Undisturbed DEF JoinWorkers, TypeInv
<1>6. CASE Truncate
  <2>1. MainInv'
    BY <1>6 DEF Truncate, TypeInv, MainInv, MainType, MainPCs, Errors
  <2>2. DeviceType'
    BY <1>6, Undisturbed DEF Truncate, TypeInv, DeviceType
  <2> QED BY <1>6, <2>1, <2>2, Undisturbed DEF Truncate, TypeInv
<1>7. CASE TruncateFails
  <2>1. MainInv'
    BY <1>7 DEF TruncateFails, TypeInv, MainInv, MainType, MainPCs, Errors
  <2>2. [op |-> "truncate", arg |-> 0] \in MainCommands
    BY <1>7 DEF MainCommands
  <2>3. LateType'
    BY <1>7, <2>2, TimesOutType, Undisturbed DEF TruncateFails
  <2> QED BY <1>7, <2>1, <2>2, <2>3, Undisturbed DEF TruncateFails, TypeInv
<1>8. CASE AppendFragment
  <2>1. MainInv'
    BY <1>8, NextOperandType DEF AppendFragment, TypeInv, MainInv, MainType
  <2>2. frag[joined] \in Seq(Units) /\ dest \in Seq(Units)
    BY <1>8 DEF AppendFragment, Present, TypeInv, DeviceType, FragType
  <2>3. dest' \in Seq(Units)
    BY <1>8, <2>2, ConcatProperties DEF AppendFragment
  <2>4. DeviceType'
    BY <1>8, <2>3, Undisturbed DEF AppendFragment, TypeInv, DeviceType
  <2> QED BY <1>8, <2>1, <2>2, <2>3, <2>4, Undisturbed DEF AppendFragment, TypeInv
<1>9. CASE AppendFails
  <2>1. MainInv'
    BY <1>9 DEF AppendFails, TypeInv, MainInv, MainType, MainPCs, Errors
  <2>2. [op |-> "cat", arg |-> joined] \in MainCommands
    BY <1>9 DEF TypeInv, MainInv, MainType, MainCommands
  <2>3. LateType'
    BY <1>9, <2>2, TimesOutType, Undisturbed DEF AppendFails
  <2> QED BY <1>9, <2>1, <2>3, Undisturbed DEF AppendFails, TypeInv
<1>10. CASE VerifySize
  <2>1. MainInv'
    BY <1>10 DEF VerifySize, TypeInv, MainInv, MainType, MainPCs, Errors
  <2> QED BY <1>10, <2>1, Undisturbed DEF VerifySize, TypeInv
<1>11. CASE RemoveEntries
  <2>1. MainInv'
    BY <1>11 DEF RemoveEntries, TypeInv, MainInv, MainType, MainPCs, Errors
  <2>2. FragType'
    BY <1>11 DEF RemoveEntries, FragType
  <2>3. DeviceType'
    BY <1>11, <2>2 DEF RemoveEntries, TypeInv, DeviceType
  <2> QED BY <1>11, <2>1, <2>2, <2>3, Undisturbed DEF RemoveEntries, TypeInv
<1>12. CASE RemoveDirectory
  <2>1. MainInv'
    BY <1>12 DEF RemoveDirectory, TypeInv, MainInv, MainType, MainPCs, Errors
  <2>2. DeviceType'
    BY <1>12, Undisturbed DEF RemoveDirectory, TypeInv, DeviceType
  <2> QED BY <1>12, <2>1, <2>2, Undisturbed DEF RemoveDirectory, TypeInv
<1>13. CASE CleanupFails
  <2>1. MainInv'
    BY <1>13 DEF CleanupFails, TypeInv, MainInv, MainType, MainPCs, Errors
  <2>2. FragType'
    BY <1>13, DropFilesType, Undisturbed DEF CleanupFails
  <2>3. DeviceType'
    BY <1>13, <2>2 DEF CleanupFails, TypeInv, DeviceType
  <2>4. [op |-> pc, arg |-> 0] \in MainCommands
    BY <1>13 DEF CleanupFails, MainCommands
  <2>5. LateType'
    BY <1>13, <2>4, TimesOutType, Undisturbed DEF CleanupFails
  <2> QED BY <1>13, <2>1, <2>2, <2>3, <2>4, <2>5, Undisturbed DEF CleanupFails, TypeInv
<1>14. CASE MissFragment
  <2>1. MainInv'
    BY <1>14, NextOperandType DEF MissFragment
  <2>2. dest' \in Seq(Units)
    BY <1>14, AppendPartDest DEF MissFragment, TypeInv, MainInv, MainType
  <2>3. DeviceType'
    BY <1>14, <2>2, Undisturbed DEF MissFragment, TypeInv, DeviceType
  <2> QED BY <1>14, <2>1, <2>3, Undisturbed DEF MissFragment, TypeInv
<1> QED BY <1>1, <1>2, <1>3, <1>4, <1>5, <1>6, <1>7, <1>8, <1>9, <1>10, <1>11, <1>12, <1>13, <1>14 DEF MainStep

\* A late command of a closed worker session breaks no type.
LEMMA StaleTypeInv ==
  ASSUME TypeInv, NEW s \in stale, StaleWrite(s)
  PROVE  TypeInv'
<1>1. s.chunk \in Chunks /\ s.line \in Nat
  BY DEF TypeInv, LateType, StaleCommands
<1>2. FragType'
  BY <1>1, WriteUnitType, Undisturbed DEF StaleWrite, TypeInv, DeviceType
<1>3. DeviceType'
  BY <1>1, <1>2 DEF StaleWrite, TypeInv, DeviceType
<1>4. LateType'
  BY DEF StaleWrite, TypeInv, LateType
<1> QED BY <1>3, <1>4, Undisturbed DEF StaleWrite, TypeInv

\* A late command of the main session breaks no type.
LEMMA LateMainTypeInv ==
  ASSUME TypeInv, LateMain
  PROVE  TypeInv'
<1> DEFINE c == Head(mainq)
<1>1. c \in MainCommands /\ Tail(mainq) \in Seq(MainCommands)
  BY DEF LateMain, TypeInv, LateType
<1>2. c.arg \in Nat /\ (c.op = "mkdir" => c.arg \in 1..Retries)
  BY <1>1 DEF MainCommands
<1>3. /\ [op |-> "cat", arg |-> c.arg + 1] \in MainCommands
      /\ [op |-> "rmdir", arg |-> 0] \in MainCommands
  BY <1>2 DEF MainCommands
<1>4. mainq' \in Seq(MainCommands)
  <2>1. \A r \in MainCommands : <<r>> \o Tail(mainq) \in Seq(MainCommands)
    BY <1>1, ConcatProperties
  <2>2. RestOfBatch(c.arg) \in Seq(MainCommands)
    BY <1>1, <1>3, <2>1 DEF RestOfBatch
  <2> QED BY <1>1, <1>3, <2>1, <2>2 DEF LateMain
<1>5. LateType'
  BY <1>4 DEF LateMain, TypeInv, LateType
<1>6. FragType'
  <2>1. CASE UNCHANGED frag
    BY <2>1, Undisturbed
  <2>2. CASE frag' = <<>>
    BY <2>2 DEF FragType
  <2> QED BY <2>1, <2>2 DEF LateMain
<1>7. dest' \in Seq(Units)
  <2>1. AppendPart(c.arg) => dest' \in Seq(Units)
    BY <1>2, AppendPartDest
  <2>2. dest \in Seq(Units) /\ <<>> \in Seq(Units)
    BY DEF TypeInv, DeviceType
  <2>3. CASE UNCHANGED dest
    BY <2>2, <2>3
  <2>4. CASE dest' = <<>>
    BY <2>2, <2>4
  <2> QED BY <2>1, <2>3, <2>4 DEF LateMain
<1>8. dirs' \subseteq 1..Retries
  BY <1>2 DEF LateMain, TypeInv, DeviceType
<1>9. DeviceType'
  BY <1>6, <1>7, <1>8 DEF LateMain, TypeInv, DeviceType
<1> QED BY <1>5, <1>9, Undisturbed DEF LateMain, TypeInv

\* The types are an invariant of every step.
LEMMA StepTypeInv == TypeInv /\ [Next]_vars => TypeInv'
<1> SUFFICES ASSUME TypeInv, [Next]_vars PROVE TypeInv'
  OBVIOUS
<1>1. CASE UNCHANGED vars
  BY <1>1, Undisturbed DEF vars, TypeInv
<1>2. CASE Returned
  BY <1>1, <1>2 DEF Returned
<1> QED BY <1>1, <1>2, MainTypeInv, WorkerTypeInv, StaleTypeInv, LateMainTypeInv DEF Next

\* Every state pushPrintf reaches is well formed: no attempt beyond `retries',
\* no fragment, command or file outside this transfer's.
THEOREM TypeCorrect == Spec => []TypeOK
<1>1. TypeInv => TypeOK
  BY DEF TypeInv, MainInv, PoolInv, TypeOK
<1> QED BY <1>1, InitTypeInv, StepTypeInv, PTL DEF Spec

-----------------------------------------------------------------------------
(* The join begins with every fragment verified *)

\* Every fragment taken from the queue is verified, or still held by a worker,
\* or somebody's failure is in `results'.
Accounted ==
  \A c \in Chunks : c < next =>
     \/ c \in verified
     \/ results # <<>>
     \/ \E t \in Threads : wpc[t] \in Holding /\ job[t] = c

PoolAccount ==
  /\ pc \in {"start", "mkdir"} => next = 0 /\ \A t \in Threads : wpc[t] = "off"
  /\ pc = "work" => \A t \in Threads : t <= WorkerCount => wpc[t] # "off"
  /\ stopped => results # <<>>
  /\ \A t \in Threads : wpc[t] = "closing" => results # <<>>
  /\ \A t \in Threads : wpc[t] = "done" => next = TotalChunks \/ results # <<>>
  /\ Accounted
  /\ pc \in {"truncate", "cat", "verify"} => verified = Chunks

\* Before the push no fragment has been taken.
LEMMA InitPoolAccount == Init => PoolAccount
BY ChunksAreNats DEF Init, PoolAccount, Accounted

\* A worker that has ended early has left its error in `results', so the others
\* cannot be mistaken for a complete upload.
LEMMA WorkerPoolAccount ==
  ASSUME TypeInv, PoolAccount, NEW t \in Threads, WorkerStep(t)
  PROVE  PoolAccount'
<1>a. PoolType /\ PoolType'
  BY WorkerTypeInv DEF TypeInv, PoolInv
<1>b. UNCHANGED pc
  BY DEF WorkerStep, mainVars, TakeJob, NoMoreJobs, SeeStopped, BeginAttempt, SendLine, SendFails, SendTimesOut, CheckPasses, CheckFails, ReportFailure, CloseStopped
<1>c. wpc[t] # "off"
  BY DEF WorkerStep, TakeJob, NoMoreJobs, SeeStopped, BeginAttempt, SendLine, SendFails, SendTimesOut, CheckPasses, CheckFails, ReportFailure, CloseStopped
<1>d. verified \subseteq verified'
  BY DEF WorkerStep, TakeJob, NoMoreJobs, SeeStopped, BeginAttempt, SendLine, SendFails, SendTimesOut, CheckPasses, CheckFails, ReportFailure, CloseStopped
<1>e. pc \in {"truncate", "cat", "verify"} => verified' = Chunks
  BY <1>a, <1>d DEF PoolAccount, PoolType
<1>f. pc \notin {"start", "mkdir"}
  BY <1>c DEF PoolAccount
<1>1. CASE TakeJob(t)
  <2>1. Accounted'
    <3> SUFFICES ASSUME NEW c \in Chunks, c < next + 1
                 PROVE  \/ c \in verified
                        \/ results # <<>>
                        \/ \E u \in Threads : wpc'[u] \in Holding /\ job'[u] = c
      BY <1>1 DEF TakeJob, Accounted
    <3>1. c \in Nat /\ next \in Nat
      BY <1>a, ChunksAreNats, TotalChunksIsNat DEF PoolType
    <3>2. CASE c = next
      BY <1>1, <1>a, <3>2 DEF TakeJob, Holding, PoolType
    <3>3. CASE c < next
      <4>1. \A u \in Threads : wpc[u] \in Holding => u # t
        BY <1>1 DEF TakeJob, Holding
      <4>2. \A u \in Threads : u # t => wpc'[u] = wpc[u] /\ job'[u] = job[u]
        BY <1>1, <1>a DEF TakeJob, PoolType
      <4> QED BY <3>3, <4>1, <4>2 DEF PoolAccount, Accounted
    <3> QED BY <3>1, <3>2, <3>3
  <2> QED BY <1>1, <1>a, <1>b, <1>e, <1>f, <2>1 DEF TakeJob, PoolAccount, PoolType, WorkerPCs
<1>2. CASE NoMoreJobs(t)
  <2>1. Accounted'
    BY <1>2, <1>a DEF NoMoreJobs, PoolAccount, Accounted, Holding, PoolType
  <2> QED BY <1>2, <1>a, <1>b, <1>e, <1>f, <2>1 DEF NoMoreJobs, PoolAccount, PoolType, WorkerPCs
<1>3. CASE SeeStopped(t)
  <2>1. Accounted'
    BY <1>3, <1>a DEF SeeStopped, PoolAccount, Accounted, Holding, PoolType
  <2> QED BY <1>3, <1>a, <1>b, <1>e, <1>f, <2>1 DEF SeeStopped, PoolAccount, PoolType, WorkerPCs
<1>4. CASE BeginAttempt(t)
  <2>1. Accounted'
    BY <1>4, <1>a DEF BeginAttempt, PoolAccount, Accounted, Holding, PoolType
  <2> QED BY <1>4, <1>a, <1>b, <1>e, <1>f, <2>1 DEF BeginAttempt, PoolAccount, PoolType, WorkerPCs
<1>5. CASE SendLine(t)
  <2>1. Accounted'
    BY <1>5, <1>a DEF SendLine, PoolAccount, Accounted, Holding, PoolType
  <2> QED BY <1>5, <1>a, <1>b, <1>e, <1>f, <2>1 DEF SendLine, PoolAccount, PoolType, WorkerPCs
<1>6. CASE SendFails(t)
  <2>1. Accounted'
    BY <1>6, <1>a DEF SendFails, NextAttempt, PoolAccount, Accounted, Holding, PoolType
  <2> QED BY <1>6, <1>a, <1>b, <1>e, <1>f, <2>1 DEF SendFails, NextAttempt, PoolAccount, PoolType, WorkerPCs
<1>7. CASE SendTimesOut(t)
  <2>1. Accounted'
    BY <1>7, <1>a DEF SendTimesOut, NextAttempt, PoolAccount, Accounted, Holding, PoolType
  <2> QED BY <1>7, <1>a, <1>b, <1>e, <1>f, <2>1 DEF SendTimesOut, NextAttempt, PoolAccount, PoolType, WorkerPCs
<1>8. CASE CheckPasses(t)
  <2>1. Accounted'
    BY <1>8, <1>a DEF CheckPasses, PoolAccount, Accounted, Holding, PoolType
  <2> QED BY <1>8, <1>a, <1>b, <1>e, <1>f, <2>1 DEF CheckPasses, PoolAccount, PoolType, WorkerPCs
<1>9. CASE CheckFails(t)
  <2>1. Accounted'
    BY <1>9, <1>a DEF CheckFails, NextAttempt, PoolAccount, Accounted, Holding, PoolType
  <2> QED BY <1>9, <1>a, <1>b, <1>e, <1>f, <2>1 DEF CheckFails, NextAttempt, PoolAccount, PoolType, WorkerPCs
<1>10. CASE ReportFailure(t)
  <2>1. Accounted'
    BY <1>10, <1>a DEF ReportFailure, PoolAccount, Accounted, Holding, PoolType
  <2> QED BY <1>10, <1>a, <1>b, <1>e, <1>f, <2>1 DEF ReportFailure, PoolAccount, PoolType, WorkerPCs
<1>11. CASE CloseStopped(t)
  <2>1. Accounted'
    BY <1>11, <1>a DEF CloseStopped, PoolAccount, Accounted, Holding, PoolType
  <2> QED BY <1>11, <1>a, <1>b, <1>e, <1>f, <2>1 DEF CloseStopped, PoolAccount, PoolType, WorkerPCs
<1> QED BY <1>1, <1>2, <1>3, <1>4, <1>5, <1>6, <1>7, <1>8, <1>9, <1>10, <1>11 DEF WorkerStep

\* workers.Wait() has returned and no error was found: the file is complete.
LEMMA JoinMeansVerified ==
  ASSUME TypeInv, PoolAccount, JoinWorkers, results = <<>>
  PROVE  verified = Chunks
<1>1. PoolType
  BY DEF TypeInv, PoolInv
<1>2. \A t \in Threads : wpc[t] \notin Holding
  BY DEF JoinWorkers, Holding
<1>3. \A c \in Chunks : c < next => c \in verified
  BY <1>2 DEF PoolAccount, Accounted
<1>4. ASSUME TotalChunks # 0 PROVE next = TotalChunks
  <2>1. 1 <= WorkerCount /\ 1 \in Threads
    BY <1>4, TotalChunksIsNat, ThreadsArePositive DEF WorkerCount
  <2>2. wpc[1] = "done"
    BY <2>1 DEF JoinWorkers, PoolAccount
  <2> QED BY <2>1, <2>2 DEF PoolAccount
<1>5. \A c \in Chunks : TotalChunks # 0 /\ c < TotalChunks
  BY TotalChunksIsNat DEF Chunks
<1>6. Chunks \subseteq verified
  BY <1>3, <1>4, <1>5
<1> QED BY <1>1, <1>6 DEF PoolType

\* Every step keeps account of every fragment that was taken.
LEMMA StepPoolAccount ==
  ASSUME TypeInv, PoolAccount, [Next]_vars
  PROVE  PoolAccount'
<1>1. CASE UNCHANGED <<pc, poolVars>>
  BY <1>1 DEF PoolAccount, Accounted, poolVars
<1>2. ASSUME MainStep, UNCHANGED poolVars, pc' \notin {"start", "mkdir", "work"},
             pc' \in {"truncate", "cat", "verify"} => verified = Chunks
      PROVE  PoolAccount'
  BY <1>2 DEF PoolAccount, Accounted, poolVars
<1>3. CASE MainStep
  <2>1. CASE Begin
    BY <2>1 DEF Begin, PoolAccount, Accounted, poolVars
  <2>2. CASE MakeDirectory
    <3>1. Accounted'
      BY <2>2, ChunksAreNats DEF MakeDirectory, PoolAccount, Accounted
    <3>2. wpc' = [t \in Threads |-> IF t <= WorkerCount THEN "idle" ELSE "off"]
      BY <2>2 DEF MakeDirectory
    <3>3. pc = "mkdir" /\ pc' = "work" /\ UNCHANGED <<next, stopped, results, verified>>
      BY <2>2 DEF MakeDirectory
    <3> QED BY <3>1, <3>2, <3>3 DEF PoolAccount
  <2>3. CASE MakeDirectoryFails
    BY <2>3 DEF MakeDirectoryFails, PoolAccount, Accounted, poolVars
  <2>4. CASE JoinWorkers
    <3>1. CASE results = <<>>
      BY <1>2, <1>3, <2>4, <3>1, JoinMeansVerified DEF JoinWorkers
    <3>2. CASE results # <<>>
      BY <1>2, <1>3, <2>4, <3>2 DEF JoinWorkers
    <3> QED BY <3>1, <3>2
  <2>5. CASE CannotBegin
    BY <1>2, <1>3, <2>5 DEF CannotBegin
  <2>6. CASE Truncate
    BY <1>2, <1>3, <2>6 DEF Truncate, PoolAccount
  <2>7. CASE TruncateFails
    BY <1>2, <1>3, <2>7 DEF TruncateFails, PoolAccount
  <2>8. CASE AppendFragment \/ MissFragment
    <3>1. pc = "cat" /\ pc' \in {"cat", "verify", "rm"} /\ UNCHANGED poolVars
      BY <2>8 DEF AppendFragment, MissFragment, NextOperand
    <3> QED BY <1>2, <1>3, <3>1 DEF PoolAccount, poolVars
  <2>9. CASE AppendFails
    BY <1>2, <1>3, <2>9 DEF AppendFails, PoolAccount
  <2>10. CASE VerifySize
    BY <1>2, <1>3, <2>10 DEF VerifySize, PoolAccount
  <2>11. CASE RemoveEntries
    BY <1>2, <1>3, <2>11 DEF RemoveEntries, PoolAccount
  <2>12. CASE RemoveDirectory
    BY <1>2, <1>3, <2>12 DEF RemoveDirectory, PoolAccount
  <2>13. CASE CleanupFails
    BY <1>2, <1>3, <2>13 DEF CleanupFails, PoolAccount
  <2> QED BY <1>3, <2>1, <2>2, <2>3, <2>4, <2>5, <2>6, <2>7, <2>8, <2>9, <2>10, <2>11, <2>12, <2>13 DEF MainStep
<1>4. ASSUME NEW s \in stale, StaleWrite(s) PROVE PoolAccount'
  BY <1>1, <1>4 DEF StaleWrite, mainVars
<1>5. CASE LateMain
  BY <1>1, <1>5 DEF LateMain, mainVars
<1>6. CASE UNCHANGED vars
  BY <1>1, <1>6 DEF vars, mainVars
<1> QED BY <1>3, <1>4, <1>5, <1>6, WorkerPoolAccount DEF Next, Returned

-----------------------------------------------------------------------------
(* What the main session's queue may still do *)

\* No command of the queue q has its operation in ops.
Without(q, ops) == \A i \in 1..Len(q) : q[i].op \notin ops

\* Appending a command of another kind.
LEMMA WithoutAppend ==
  ASSUME NEW q \in Seq(MainCommands), NEW c \in MainCommands, NEW ops,
         Without(q, ops), c.op \notin ops
  PROVE  Without(Append(q, c), ops)
BY DEF Without

\* Removing the oldest command.
LEMMA WithoutTail ==
  ASSUME NEW q \in Seq(MainCommands), q # <<>>, NEW ops, Without(q, ops)
  PROVE  Head(q).op \notin ops /\ Without(Tail(q), ops)
<1>1. Head(q) = q[1] /\ Len(q) \in Nat \ {0}
  OBVIOUS
<1>2. \A i \in 1..Len(Tail(q)) : Tail(q)[i] = q[i + 1] /\ i + 1 \in 1..Len(q)
  OBVIOUS
<1> QED BY <1>1, <1>2 DEF Without

\* Putting a command of another kind in front.
LEMMA WithoutCons ==
  ASSUME NEW q \in Seq(MainCommands), NEW c \in MainCommands, NEW ops,
         Without(q, ops), c.op \notin ops
  PROVE  Without(<<c>> \o q, ops)
<1>1. <<c>> \in Seq(MainCommands) /\ Len(<<c>>) = 1 /\ <<c>>[1] = c
  OBVIOUS
<1>2. /\ Len(<<c>> \o q) = 1 + Len(q)
      /\ \A i \in 1..(1 + Len(q)) : (<<c>> \o q)[i] = IF i <= 1 THEN <<c>>[i] ELSE q[i - 1]
  BY <1>1, ConcatProperties
<1>3. \A i \in 2..(1 + Len(q)) : i - 1 \in 1..Len(q)
  OBVIOUS
<1> QED BY <1>1, <1>2, <1>3 DEF Without

\* The late execution of a command adds none of another kind to the queue.
LEMMA WithoutLate ==
  ASSUME TypeInv, LateMain, NEW ops, Without(mainq, ops),
         "rm" \in ops <=> "rmdir" \in ops
  PROVE  Head(mainq).op \notin ops /\ Without(mainq', ops)
<1> DEFINE c == Head(mainq)
<1>1. /\ mainq \in Seq(MainCommands) /\ mainq # <<>>
      /\ c \in MainCommands /\ Tail(mainq) \in Seq(MainCommands)
  BY DEF LateMain, TypeInv, LateType
<1>2. c.op \notin ops /\ Without(Tail(mainq), ops)
  BY <1>1, WithoutTail
<1>3. c.arg \in Nat
  BY <1>1 DEF MainCommands
<1>4. /\ [op |-> "cat", arg |-> c.arg + 1] \in MainCommands
      /\ [op |-> "rmdir", arg |-> 0] \in MainCommands
  BY <1>3 DEF MainCommands
<1>5. ASSUME c.op = "cat" PROVE Without(RestOfBatch(c.arg), ops)
  <2>1. Without(<<[op |-> "cat", arg |-> c.arg + 1]>> \o Tail(mainq), ops)
    BY <1>1, <1>2, <1>4, <1>5, WithoutCons
  <2> QED BY <1>2, <2>1 DEF RestOfBatch
<1>6. ASSUME c.op = "rm" PROVE Without(<<[op |-> "rmdir", arg |-> 0]>> \o Tail(mainq), ops)
  BY <1>1, <1>2, <1>4, <1>6, WithoutCons
<1> QED BY <1>2, <1>5, <1>6 DEF LateMain

DestOps == {"truncate", "cat"}

\* The destination is written by commands of the join only, and an abandoned one
\* is there only after the join has failed; success needs the final size.
QueueInv ==
  /\ pc \in {"start", "mkdir", "work", "truncate", "cat", "verify"} => err = {}
  /\ pc \in {"rm", "rmdir"} => err \in {{}, {"worker"}, {"join"}, {"size"}}
  /\ ~Without(mainq, DestOps) =>
        /\ verified = Chunks
        /\ "join" \in err
        /\ err \cap FragmentErrors = {}
  /\ pc \in {"rm", "rmdir", "returned"} /\ err = {} => Len(dest) = FileSize

\* Before the push the main session has nothing left to run.
LEMMA InitQueueInv == Init => QueueInv
BY DEF Init, QueueInv, Without

\* Every step keeps the commands left in the main session in line with what
\* pushPrintf will report.
LEMMA StepQueueInv ==
  ASSUME TypeInv, PoolAccount, QueueInv, [Next]_vars
  PROVE  QueueInv'
<1>0. /\ mainq \in Seq(MainCommands) /\ verified \subseteq Chunks
      /\ pc \in MainPCs /\ err \subseteq Errors
  BY DEF TypeInv, MainInv, MainType, PoolInv, PoolType, LateType
<1>1. ASSUME NEW t \in Threads, WorkerStep(t) PROVE QueueInv'
  <2>1. UNCHANGED <<mainVars, mainq, dest>> /\ verified \subseteq verified'
    BY <1>1 DEF WorkerStep, deviceVars, lateVars, TakeJob, NoMoreJobs, SeeStopped, BeginAttempt, SendLine, SendFails, SendTimesOut, CheckPasses, CheckFails, ReportFailure, CloseStopped
  <2>2. verified' \subseteq Chunks
    BY <1>1, WorkerTypeInv DEF TypeInv, PoolInv, PoolType
  <2> QED BY <1>0, <2>1, <2>2 DEF QueueInv, Without, mainVars
<1>2. ASSUME NEW s \in stale, StaleWrite(s) PROVE QueueInv'
  BY <1>2 DEF StaleWrite, QueueInv, Without, mainVars, poolVars
<1>3. CASE LateMain
  <2>1. CASE Without(mainq, DestOps)
    <3>1. Without(mainq', DestOps) /\ Head(mainq).op \notin DestOps
      BY <1>3, <2>1, WithoutLate DEF DestOps
    <3>2. UNCHANGED <<pc, err, dest, verified>>
      BY <1>3, <3>1 DEF LateMain, DestOps, mainVars, poolVars
    <3> QED BY <3>1, <3>2 DEF QueueInv
  <2>2. CASE ~Without(mainq, DestOps)
    <3>1. UNCHANGED <<pc, err, verified>>
      BY <1>3 DEF LateMain, mainVars, poolVars
    <3> QED BY <2>2, <3>1 DEF QueueInv
  <2> QED BY <2>1, <2>2
<1>4. CASE UNCHANGED vars
  BY <1>4 DEF vars, mainVars, poolVars, deviceVars, lateVars, QueueInv, Without
<1>5. CASE Begin
  BY <1>5 DEF Begin, QueueInv, mainVars, poolVars, deviceVars, lateVars, Without, Answered
<1>6. CASE CannotBegin
  BY <1>6 DEF CannotBegin, QueueInv, mainVars, poolVars, deviceVars, lateVars, Without, Answered
<1>7. CASE MakeDirectory
  BY <1>7 DEF MakeDirectory, QueueInv, mainVars, poolVars, deviceVars, lateVars, Without, Answered
<1>8. CASE MakeDirectoryFails
  <2>1. Without(mainq, DestOps)
    BY <1>8 DEF MakeDirectoryFails, QueueInv
  <2>2. [op |-> "mkdir", arg |-> mk + 1] \in MainCommands
    BY <1>8 DEF MakeDirectoryFails, TypeInv, MainInv, MainType, MainCommands
  <2>3. Without(mainq', DestOps)
    BY <1>0, <1>8, <2>1, <2>2, WithoutAppend DEF MakeDirectoryFails, TimesOut, lateVars, DestOps
  <2> QED BY <1>8, <2>3 DEF MakeDirectoryFails, QueueInv
<1>9. CASE JoinWorkers
  BY <1>9 DEF JoinWorkers, QueueInv, mainVars, poolVars, deviceVars, lateVars, Without, Answered
<1>10. CASE Truncate
  BY <1>10 DEF Truncate, QueueInv, mainVars, poolVars, deviceVars, lateVars, Without, Answered
<1>11. CASE TruncateFails
  BY <1>11 DEF TruncateFails, QueueInv, PoolAccount, FragmentErrors, poolVars
<1>12. CASE AppendFragment \/ MissFragment
  <2>1. /\ pc = "cat" /\ mainq' = <<>>
        /\ \/ pc' \in {"cat", "verify"} /\ err' = err
           \/ pc' = "rm" /\ err' = err \cup {"join"}
    BY <1>12 DEF AppendFragment, MissFragment, NextOperand, Answered, lateVars
  <2> QED BY <2>1 DEF QueueInv, Without
<1>13. CASE AppendFails
  BY <1>13 DEF AppendFails, QueueInv, PoolAccount, FragmentErrors, poolVars
<1>14. CASE VerifySize
  BY <1>14 DEF VerifySize, QueueInv, mainVars, poolVars, deviceVars, lateVars, Without, Answered
<1>15. CASE RemoveEntries
  BY <1>15 DEF RemoveEntries, QueueInv, mainVars, poolVars, deviceVars, lateVars, Without, Answered
<1>16. CASE RemoveDirectory
  BY <1>16 DEF RemoveDirectory, QueueInv, mainVars, poolVars, deviceVars, lateVars, Without, Answered
<1>17. CASE CleanupFails
  <2>1. pc' = "returned" /\ err' = err \cup {"cleanup"} /\ UNCHANGED verified
    BY <1>17 DEF CleanupFails, poolVars
  <2>2. [op |-> pc, arg |-> 0] \in MainCommands
    BY <1>17 DEF CleanupFails, MainCommands
  <2>3. Without(mainq, DestOps) => Without(mainq', DestOps)
    BY <1>0, <1>17, <2>2, WithoutAppend DEF CleanupFails, TimesOut, lateVars, DestOps
  <2> QED BY <1>17, <2>1, <2>3 DEF CleanupFails, QueueInv, FragmentErrors
<1> QED BY <1>1, <1>2, <1>3, <1>4, <1>5, <1>6, <1>7, <1>8, <1>9, <1>10, <1>11, <1>12, <1>13, <1>14, <1>15, <1>16, <1>17 DEF Next, MainStep, Returned

-----------------------------------------------------------------------------
(* The private directory *)

\* Once createChunkDirectory has returned, no mkdir is waiting, so nothing makes
\* the directory again after it has been removed.
ScratchInv ==
  /\ pc \in {"start", "mkdir"} => scratch = 0
  /\ scratch # 0 => Without(mainq, {"mkdir"})
  /\ ScratchGone

\* Before the push there is no directory.
LEMMA InitScratchInv == Init => ScratchInv
BY DEF Init, ScratchInv, ScratchGone

\* Every step keeps the directory's account: made once, removed once.
LEMMA StepScratchInv ==
  ASSUME TypeInv, ScratchInv, [Next]_vars
  PROVE  ScratchInv'
<1>0. mainq \in Seq(MainCommands) /\ scratch \in Nat
  BY DEF TypeInv, MainInv, MainType, LateType
<1>1. ASSUME NEW t \in Threads, WorkerStep(t) PROVE ScratchInv'
  <2>1. UNCHANGED <<mainVars, mainq, dirs>>
    BY <1>1 DEF WorkerStep, deviceVars, lateVars, TakeJob, NoMoreJobs, SeeStopped, BeginAttempt, SendLine, SendFails, SendTimesOut, CheckPasses, CheckFails, ReportFailure, CloseStopped
  <2> QED BY <2>1 DEF ScratchInv, ScratchGone, Without, mainVars
<1>2. ASSUME NEW s \in stale, StaleWrite(s) PROVE ScratchInv'
  BY <1>2 DEF StaleWrite, ScratchInv, ScratchGone, Without, mainVars
<1>3. CASE LateMain
  <2>1. UNCHANGED <<pc, scratch, err>>
    BY <1>3 DEF LateMain, mainVars
  <2>2. CASE scratch = 0
    BY <2>1, <2>2 DEF ScratchInv, ScratchGone
  <2>3. CASE scratch # 0
    <3>1. Head(mainq).op # "mkdir" /\ Without(mainq', {"mkdir"})
      BY <1>3, <2>3, WithoutLate DEF ScratchInv
    <3>2. dirs' \subseteq dirs
      BY <1>3, <3>1 DEF LateMain
    <3> QED BY <2>1, <3>1, <3>2 DEF ScratchInv, ScratchGone
  <2> QED BY <2>2, <2>3
<1>4. CASE UNCHANGED vars
  BY <1>4 DEF vars, mainVars, deviceVars, lateVars, ScratchInv, ScratchGone, Without
<1>5. CASE Begin
  BY <1>5 DEF Begin, ScratchInv, ScratchGone, Without, poolVars, deviceVars, lateVars
<1>6. CASE CannotBegin
  BY <1>6 DEF CannotBegin, ScratchInv, ScratchGone, Without, poolVars, deviceVars, lateVars
<1>7. CASE MakeDirectory
  BY <1>7 DEF MakeDirectory, ScratchInv, ScratchGone, Without, Answered, lateVars
<1>8. CASE MakeDirectoryFails
  BY <1>8 DEF MakeDirectoryFails, ScratchInv, ScratchGone, Without, poolVars, deviceVars, lateVars
<1>9. CASE JoinWorkers
  BY <1>9 DEF JoinWorkers, ScratchInv, ScratchGone, Without, poolVars, deviceVars, lateVars
<1>10. CASE Truncate
  BY <1>10 DEF Truncate, ScratchInv, ScratchGone, Without, poolVars, deviceVars, lateVars
<1>11. CASE TruncateFails
  <2>1. [op |-> "truncate", arg |-> 0] \in MainCommands
    BY <1>11 DEF TruncateFails, MainCommands, TypeInv, MainInv, MainType
  <2>2. Without(mainq, {"mkdir"}) => Without(mainq', {"mkdir"})
    BY <1>0, <1>11, <2>1, WithoutAppend DEF TruncateFails, TimesOut, lateVars, Without
  <2> QED BY <1>11, <2>2 DEF TruncateFails, ScratchInv, ScratchGone
<1>12. CASE AppendFragment \/ MissFragment
  <2>1. /\ pc = "cat" /\ pc' \in {"cat", "verify", "rm"}
        /\ UNCHANGED <<scratch, dirs, mainq>>
    BY <1>12 DEF AppendFragment, MissFragment, NextOperand, lateVars
  <2> QED BY <2>1 DEF ScratchInv, ScratchGone, Without
<1>13. CASE AppendFails
  <2>1. [op |-> "cat", arg |-> joined] \in MainCommands
    BY <1>13 DEF AppendFails, MainCommands, TypeInv, MainInv, MainType
  <2>2. Without(mainq, {"mkdir"}) => Without(mainq', {"mkdir"})
    BY <1>0, <1>13, <2>1, WithoutAppend DEF AppendFails, TimesOut, lateVars, Without
  <2> QED BY <1>13, <2>2 DEF AppendFails, ScratchInv, ScratchGone
<1>14. CASE VerifySize
  BY <1>14 DEF VerifySize, ScratchInv, ScratchGone, Without, poolVars, deviceVars, lateVars
<1>15. CASE RemoveEntries
  BY <1>15 DEF RemoveEntries, ScratchInv, ScratchGone, Without, poolVars, deviceVars, lateVars
<1>16. CASE RemoveDirectory
  BY <1>16 DEF RemoveDirectory, ScratchInv, ScratchGone, Without, poolVars, deviceVars, lateVars
<1>17. CASE CleanupFails
  <2>1. [op |-> pc, arg |-> 0] \in MainCommands
    BY <1>17 DEF CleanupFails, MainCommands, TypeInv, MainInv, MainType
  <2>2. Without(mainq, {"mkdir"}) => Without(mainq', {"mkdir"})
    BY <1>0, <1>17, <2>1, WithoutAppend DEF CleanupFails, TimesOut, lateVars, Without
  <2> QED BY <1>17, <2>2 DEF CleanupFails, ScratchInv, ScratchGone
<1> QED BY <1>1, <1>2, <1>3, <1>4, <1>5, <1>6, <1>7, <1>8, <1>9, <1>10, <1>11, <1>12, <1>13, <1>14, <1>15, <1>16, <1>17 DEF Next, MainStep, Returned

-----------------------------------------------------------------------------
(* The theorems *)

IInv == TypeInv /\ PoolAccount /\ QueueInv /\ ScratchInv

\* The inductive invariant holds before the push.
LEMMA InitIInv == Init => IInv
BY InitTypeInv, InitPoolAccount, InitQueueInv, InitScratchInv DEF IInv

\* Every step keeps the inductive invariant.
LEMMA StepIInv == IInv /\ [Next]_vars => IInv'
BY StepTypeInv, StepPoolAccount, StepQueueInv, StepScratchInv DEF IInv

\* The account of the fragments, of the commands left behind and of the
\* directory that the theorems below rest on.
THEOREM Invariance == Spec => []IInv
BY InitIInv, StepIInv, PTL DEF Spec

\* The fragment directory is gone for good after a cleanup without an error,
\* whatever the abandoned shells do.
THEOREM ScratchIsRemoved == Spec => []ScratchGone
BY Invariance, PTL DEF IInv, ScratchInv

\* The destination is written only when every fragment has been verified, by
\* the live commands of the join and by the ones it has abandoned.
THEOREM DestinationAfterVerification == Spec => DestWrittenOnlyWhenVerified
<1>1. IInv /\ [Next]_vars => [dest' # dest => verified = Chunks]_vars
  <2> SUFFICES ASSUME IInv, Next, dest' # dest PROVE verified = Chunks
    OBVIOUS
  <2>1. ASSUME NEW t \in Threads, WorkerStep(t) PROVE FALSE
    BY <2>1 DEF WorkerStep, deviceVars, TakeJob, NoMoreJobs, SeeStopped, BeginAttempt, SendLine, SendFails, SendTimesOut, CheckPasses, CheckFails, ReportFailure, CloseStopped
  <2>2. ASSUME NEW s \in stale, StaleWrite(s) PROVE FALSE
    BY <2>2 DEF StaleWrite
  <2>3. CASE LateMain
    <3>1. Head(mainq).op \in DestOps
      BY <2>3 DEF LateMain, DestOps
    <3>2. ~Without(mainq, DestOps)
      BY <2>3, <3>1, WithoutLate DEF DestOps, IInv
    <3> QED BY <3>2 DEF IInv, QueueInv
  <2>4. CASE MainStep
    <3>1. pc \in {"truncate", "cat"}
      BY <2>4 DEF MainStep, deviceVars, Begin, CannotBegin, MakeDirectory, MakeDirectoryFails, JoinWorkers, Truncate, TruncateFails, AppendFragment, MissFragment, AppendFails, VerifySize, RemoveEntries, RemoveDirectory, CleanupFails
    <3> QED BY <3>1 DEF IInv, PoolAccount
  <2> QED BY <2>1, <2>2, <2>3, <2>4 DEF Next, Returned, vars, deviceVars
<1> QED BY <1>1, Invariance, PTL DEF Spec, DestWrittenOnlyWhenVerified

\* Before the push it has promised nothing yet.
LEMMA InitImplements == Init => U!UploadInit
<1> SUFFICES ASSUME Init PROVE U!UploadInit
  OBVIOUS
<1>1. dest \in Seq(Units)
  BY InitTypeInv DEF TypeInv, DeviceType
<1>2. outcome = "idle"
  BY DEF Init, outcome
<1> QED BY <1>1, <1>2 DEF U!UploadInit

\* Every step of pushPrintf, live or late, is a step of the promise or none.
LEMMA StepImplements ==
  ASSUME IInv, IInv', Next
  PROVE  U!UploadNext \/ UNCHANGED <<dest, outcome>>
<1>0. dest \in Seq(Units) /\ dest' \in Seq(Units) /\ err \subseteq Errors /\ pc \in MainPCs
  BY DEF IInv, TypeInv, DeviceType, MainInv, MainType
<1> USE DEF FragmentErrors
<1>1. ASSUME NEW t \in Threads, WorkerStep(t) PROVE UNCHANGED <<dest, outcome>>
  <2>1. UNCHANGED <<mainVars, dest>>
    BY <1>1 DEF WorkerStep, deviceVars, TakeJob, NoMoreJobs, SeeStopped, BeginAttempt, SendLine, SendFails, SendTimesOut, CheckPasses, CheckFails, ReportFailure, CloseStopped
  <2> QED BY <2>1 DEF outcome, mainVars
<1>2. ASSUME NEW s \in stale, StaleWrite(s) PROVE UNCHANGED <<dest, outcome>>
  BY <1>2 DEF StaleWrite, outcome, mainVars
<1>3. CASE LateMain
  <2>1. UNCHANGED outcome
    BY <1>3 DEF LateMain, outcome, mainVars
  <2>2. CASE UNCHANGED dest
    BY <2>1, <2>2
  <2>3. CASE dest' # dest
    <3>1. Head(mainq).op \in DestOps
      BY <1>3, <2>3 DEF LateMain, DestOps
    <3>2. ~Without(mainq, DestOps)
      BY <1>3, <3>1, WithoutLate DEF DestOps, IInv
    <3>3. "join" \in err /\ err \cap FragmentErrors = {}
      BY <3>2 DEF IInv, QueueInv
    <3>4. pc \in {"rm", "rmdir", "returned"}
      BY <1>0, <3>3 DEF IInv, QueueInv, MainPCs
    <3>5. outcome \in {"writing", "broken"}
      BY <3>3, <3>4 DEF outcome
    <3>6. U!Write \/ U!WriteLate
      BY <1>0, <2>1, <3>5 DEF U!Write, U!WriteLate
    <3> QED BY <3>6 DEF U!UploadNext
  <2> QED BY <2>2, <2>3
<1>4. CASE Returned
  BY <1>4 DEF Returned, vars, mainVars, deviceVars, outcome
<1>5. CASE Begin
  <2>1. outcome = "idle" /\ outcome' = "idle" /\ UNCHANGED dest
    BY <1>5 DEF Begin, outcome, deviceVars, IInv, QueueInv
  <2> QED BY <2>1
<1>6. CASE CannotBegin
  <2>1. outcome = "idle" /\ outcome' = "refused" /\ UNCHANGED dest
    BY <1>6 DEF CannotBegin, outcome, deviceVars
  <2> QED BY <2>1 DEF U!UploadNext, U!ReportRefused
<1>7. CASE MakeDirectory
  <2>1. outcome = "idle" /\ outcome' = "idle" /\ UNCHANGED dest
    BY <1>7 DEF MakeDirectory, outcome, deviceVars, IInv, QueueInv
  <2> QED BY <2>1
<1>8. CASE MakeDirectoryFails
  <2>1. outcome = "idle" /\ outcome' \in {"idle", "refused"} /\ UNCHANGED dest
    BY <1>8 DEF MakeDirectoryFails, outcome, deviceVars
  <2> QED BY <2>1 DEF U!UploadNext, U!ReportRefused
<1>9. CASE JoinWorkers
  <2>1. outcome = "idle" /\ outcome' \in {"idle", "writing"} /\ UNCHANGED dest
    BY <1>9 DEF JoinWorkers, outcome, deviceVars, IInv, QueueInv
  <2> QED BY <1>0, <2>1 DEF U!UploadNext, U!StartWriting
<1>10. CASE Truncate
  <2>1. outcome = "writing" /\ outcome' = "writing"
    BY <1>10 DEF Truncate, outcome, IInv, QueueInv
  <2> QED BY <1>0, <2>1 DEF U!UploadNext, U!Write
<1>11. CASE TruncateFails
  <2>1. outcome = "writing" /\ outcome' = "writing"
    BY <1>11 DEF TruncateFails, outcome, IInv, QueueInv
  <2> QED BY <1>0, <2>1 DEF U!UploadNext, U!Write
<1>12. CASE AppendFragment \/ MissFragment
  <2>1. /\ pc = "cat" /\ err = {}
        /\ \/ pc' \in {"cat", "verify"} /\ err' = err
           \/ pc' = "rm" /\ err' = err \cup {"join"}
    BY <1>12 DEF AppendFragment, MissFragment, NextOperand, IInv, QueueInv
  <2>2. outcome = "writing" /\ outcome' = "writing"
    BY <2>1 DEF outcome
  <2> QED BY <1>0, <2>2 DEF U!UploadNext, U!Write
<1>13. CASE AppendFails
  <2>1. outcome = "writing" /\ outcome' = "writing"
    BY <1>13 DEF AppendFails, outcome, IInv, QueueInv
  <2> QED BY <1>0, <2>1 DEF U!UploadNext, U!Write
<1>14. CASE VerifySize
  <2>1. outcome = "writing" /\ outcome' = "writing"
    BY <1>14 DEF VerifySize, outcome, IInv, QueueInv
  <2> QED BY <1>0, <2>1 DEF U!UploadNext, U!Write
<1>15. CASE RemoveEntries
  <2>1. UNCHANGED <<dest, outcome>>
    BY <1>15 DEF RemoveEntries, outcome
  <2> QED BY <2>1
<1>16. CASE RemoveDirectory
  <2>1. pc \in {"rm", "rmdir"} /\ pc' = "returned" /\ UNCHANGED dest
    BY <1>16 DEF RemoveDirectory
  <2>2. err \in {{}, {"worker"}, {"join"}, {"size"}}
    BY <2>1 DEF IInv, QueueInv
  <2>3. CASE err = {"worker"}
    <3>1. outcome = "idle" /\ outcome' = "refused"
      BY <1>16, <2>1, <2>3 DEF RemoveDirectory, outcome
    <3> QED BY <2>1, <3>1 DEF U!UploadNext, U!ReportRefused
  <2>4. CASE err \in {{"join"}, {"size"}}
    <3>1. outcome = "writing" /\ outcome' = "broken"
      BY <1>16, <2>1, <2>4 DEF RemoveDirectory, outcome
    <3> QED BY <2>1, <3>1 DEF U!UploadNext, U!ReportBroken
  <2>5. CASE err = {}
    <3>1. outcome = "writing" /\ outcome' = "ok"
      BY <1>16, <2>1, <2>5 DEF RemoveDirectory, outcome
    <3>2. dest \in Sized
      BY <1>0, <2>1, <2>5 DEF IInv, QueueInv, Sized
    <3> QED BY <2>1, <3>1, <3>2 DEF U!UploadNext, U!ReportOK
  <2> QED BY <2>2, <2>3, <2>4, <2>5
<1>17. CASE CleanupFails
  <2>1. pc \in {"rm", "rmdir"} /\ pc' = "returned" /\ UNCHANGED dest
    BY <1>17 DEF CleanupFails
  <2>2. err \in {{}, {"worker"}, {"join"}, {"size"}}
    BY <2>1 DEF IInv, QueueInv
  <2>3. CASE err = {"worker"}
    <3>1. outcome = "idle" /\ outcome' = "refused"
      BY <1>17, <2>1, <2>3 DEF CleanupFails, outcome
    <3> QED BY <2>1, <3>1 DEF U!UploadNext, U!ReportRefused
  <2>4. CASE err \in {{"join"}, {"size"}}
    <3>1. outcome = "writing" /\ outcome' = "broken"
      BY <1>17, <2>1, <2>4 DEF CleanupFails, outcome
    <3> QED BY <2>1, <3>1 DEF U!UploadNext, U!ReportBroken
  <2>5. CASE err = {}
    <3>1. outcome = "writing" /\ outcome' = "broken"
      BY <1>17, <2>1, <2>5 DEF CleanupFails, outcome
    <3> QED BY <2>1, <3>1 DEF U!UploadNext, U!ReportBroken
  <2> QED BY <2>2, <2>3, <2>4, <2>5
<1> QED BY <1>1, <1>2, <1>3, <1>4, <1>5, <1>6, <1>7, <1>8, <1>9, <1>10, <1>11, <1>12, <1>13, <1>14, <1>15, <1>16, <1>17 DEF Next, MainStep

\* pushPrintf keeps the promise of Upload: the destination untouched until the
\* join and after a refusal, success only with the size of the file, and no
\* write of this push after success.
THEOREM PrintfPushImplementsUpload == Spec => ImplementsUpload
<1>1. IInv /\ IInv' /\ [Next]_vars => [U!UploadNext]_<<dest, outcome>>
  <2> SUFFICES ASSUME IInv, IInv', [Next]_vars
               PROVE  U!UploadNext \/ UNCHANGED <<dest, outcome>>
    OBVIOUS
  <2>1. CASE UNCHANGED vars
    BY <2>1 DEF vars, mainVars, deviceVars, outcome
  <2> QED BY <2>1, StepImplements
<1> QED BY <1>1, InitImplements, Invariance, PTL DEF Spec, ImplementsUpload, U!UploadSpec, U!uploadVars
=============================================================================
