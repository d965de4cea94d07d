------------------------ MODULE PrintfContentProofs ------------------------
(***************************************************************************)
(* Theorems about what PrintfPush writes: the units of the fragments, the  *)
(* units of the destination, and which of them an abandoned session can    *)
(* still change.                                                           *)
(***************************************************************************)
EXTENDS PrintfPushProofs

USE ConstantsAssumption

-----------------------------------------------------------------------------
(* The inductive invariant *)

\* A fragment belongs to one worker at a time, and to none once it is verified.
OwnerInv ==
  /\ pc # "work" => \A t \in Threads : wpc[t] \in {"off", "done"}
  /\ \A c \in verified : c < next
  /\ \A t \in Threads : wpc[t] \in Holding => job[t] \notin verified
  /\ \A t, u \in Threads :
        wpc[t] \in Holding /\ wpc[u] \in Holding /\ job[t] = job[u] => t = u

\* A batch of the join that was given up, and that the shell comes to next.
LateCat == mainq # <<>> /\ Head(mainq).op = "cat"

\* Fragment c is an operand of the cat that begins at `batch'.
InBatch(c) == c \in Chunks /\ batch <= c /\ c < batch + JoinBatchSize

\* Nothing is sent behind a command of the join that was given up but the
\* cleanup, and such a batch goes on where the join has stopped.
BatchInv ==
  /\ pc \in {"work", "truncate", "cat", "verify"} => mainq = <<>>
  /\ \A i \in 2..Len(mainq) : mainq[i].op \notin DestOps
  /\ LateCat => InBatch(Head(mainq).arg) /\ joined <= Head(mainq).arg

\* How far the join is.  A batch that has missed something is the last one.
JoinInv ==
  /\ pc \in {"start", "mkdir", "work", "truncate"} => batch = 0
  /\ pc = "cat" => InBatch(joined)
  /\ pc = "verify" => batch = TotalChunks
  /\ pc \in {"start", "mkdir", "work", "truncate", "verify"} => ~missed
  /\ pc \in {"rm", "rmdir", "returned"} /\ missed => err # {}

\* Among the files f, the one of fragment c is a beginning of the fragment.
Begins(f, c) == c \in DOMAIN f /\ \A i \in 1..Len(f[c]) : f[c][i] = Unit(c, i)

\* A worker in the middle of a fragment has written the lines before its own,
\* unless an abandoned session came between them.
LinesInv ==
  \A t \in Threads : wpc[t] \in {"send", "check"} =>
     /\ line[t] >= 1
     /\ wpc[t] = "check" => line[t] > 1
     /\ line[t] > 1 /\ job[t] \notin tainted =>
           Begins(frag, job[t]) /\ Len(frag[job[t]]) = line[t] - 1

\* As long as the join or an abandoned batch may read them, the verified
\* fragments are whole, but for those an abandoned session has rewritten.
FragmentsInv ==
  pc \in {"work", "truncate", "cat"} \/ LateCat =>
    \A c \in verified : joined <= c /\ c \notin tainted =>
       Begins(frag, c) /\ Len(frag[c]) = LinesOf(c)

\* The contents d of a destination are old ones, a beginning of the file, the
\* units up to n, or the units up to p and then some of those up to q in order.
Old(d) == \A i \in 1..Len(d) : d[i] = 0
Beginning(d) == \A i \in 1..Len(d) : d[i] = i
Upto(d, n) == Beginning(d) /\ Len(d) = n
InOrder(d, p, q) ==
  /\ p <= Len(d)
  /\ \A i \in 1..Len(d) : d[i] \in 1..q /\ (i <= p => d[i] = i)
  /\ \A i, j \in 1..Len(d) : i < j => d[i] < d[j]

DestInv ==
  /\ pc \in {"start", "mkdir", "work", "truncate"} => Old(dest)
  /\ tainted = {} =>
       /\ Old(dest) \/ InOrder(dest, Whole, Reach)
       /\ pc = "cat" => InOrder(dest, Whole, joined * ChunkSize)
       /\ pc = "cat" /\ ~missed => Upto(dest, joined * ChunkSize)
       /\ LateCat => InOrder(dest, Whole, Head(mainq).arg * ChunkSize)
       /\ pc = "verify" => Beginning(dest)
       /\ pc \in {"rm", "rmdir", "returned"} /\ err = {} => Beginning(dest)

ContentInv ==
  IInv /\ OwnerInv /\ BatchInv /\ JoinInv /\ LinesInv /\ FragmentsInv /\ DestInv

-----------------------------------------------------------------------------
(* Lemmas about fragments *)

\* A fragment of the file begins inside it.
LEMMA ChunkBegins ==
  ASSUME NEW c \in Chunks
  PROVE  /\ c * ChunkSize \in Nat
         /\ c * ChunkSize < FileSize
         /\ (c + 1) * ChunkSize = c * ChunkSize + ChunkSize
<1>1. c \in Nat /\ c + 1 <= TotalChunks
  BY TotalChunksIsNat DEF Chunks
<1>2. (c + 1) * ChunkSize = c * ChunkSize + ChunkSize /\ c * ChunkSize \in Nat
  BY <1>1
<1>3. TotalChunks * ChunkSize <= FileSize + ChunkSize - 1
  BY DEF TotalChunks
<1>4. (c + 1) * ChunkSize <= TotalChunks * ChunkSize
  BY <1>1, TotalChunksIsNat
<1> QED BY <1>2, <1>3, <1>4, TotalChunksIsNat, <1>1

\* Every fragment but the last is a whole one.
LEMMA WholeFragment ==
  ASSUME NEW c \in Chunks, c + 1 \in Chunks
  PROVE  LinesOf(c) = ChunkSize
BY ChunkBegins, ChunksAreNats DEF LinesOf

\* A command of a fragment changes the file of no other fragment.
LEMMA OtherFiles ==
  ASSUME FragType, NEW c \in Chunks, NEW s \in Seq(Units), frag' = PutFile(c, s)
  PROVE  /\ \A d \in DOMAIN frag : d # c => d \in DOMAIN frag' /\ frag'[d] = frag[d]
         /\ c \in DOMAIN frag' /\ frag'[c] = s
BY DEF PutFile

\* The file of a fragment after one printf command.
LEMMA WrittenUnit ==
  ASSUME FragType, NEW c \in Chunks, NEW l \in Nat, WriteUnit(c, l)
  PROVE  /\ \A d \in DOMAIN frag : d # c => d \in DOMAIN frag' /\ frag'[d] = frag[d]
         /\ l = 1 => Begins(frag', c) /\ Len(frag'[c]) = 1
         /\ l > 1 /\ Begins(frag, c) /\ Len(frag[c]) = l - 1 => Begins(frag', c) /\ Len(frag'[c]) = l
<1> DEFINE s == IF l = 1 \/ ~Present(c) THEN <<Unit(c, l)>>
                                        ELSE Append(frag[c], Unit(c, l))
<1>1. Unit(c, l) \in Units
  BY UnitIsNat, ChunksAreNats
<1>2. s \in Seq(Units)
  BY <1>1 DEF Present, FragType
<1>3. frag' = PutFile(c, s)
  BY DEF WriteUnit
<1>4. c \in DOMAIN frag' /\ frag'[c] = s /\ \A d \in DOMAIN frag : d # c => d \in DOMAIN frag' /\ frag'[d] = frag[d]
  <2> HIDE DEF s
  <2> QED BY <1>2, <1>3, OtherFiles
<1>5. ASSUME l = 1 PROVE Len(s) = 1 /\ s[1] = Unit(c, 1)
  BY <1>5
<1>6. ASSUME l > 1, Begins(frag, c), Len(frag[c]) = l - 1
      PROVE  Len(s) = l /\ \A i \in 1..l : s[i] = Unit(c, i)
  <2>1. frag[c] \in Seq(Units) /\ s = Append(frag[c], Unit(c, l))
    BY <1>6 DEF Begins, Present, FragType
  <2>2. Len(s) = l /\ s[l] = Unit(c, l) /\ \A i \in 1..(l - 1) : s[i] = frag[c][i]
    BY <1>1, <1>6, <2>1, AppendProperties
  <2> HIDE DEF s
  <2> QED BY <1>6, <2>2 DEF Begins
<1> HIDE DEF s
<1>7. l = 1 => Begins(frag', c) /\ Len(frag'[c]) = 1
  <2> SUFFICES ASSUME l = 1 PROVE Begins(frag', c) /\ Len(frag'[c]) = 1
    OBVIOUS
  <2>1. Len(frag'[c]) = 1 /\ frag'[c][1] = Unit(c, 1)
    BY <1>4, <1>5
  <2>2. \A i \in 1..1 : i = 1
    OBVIOUS
  <2> QED BY <1>4, <2>1, <2>2 DEF Begins
<1>8. l > 1 /\ Begins(frag, c) /\ Len(frag[c]) = l - 1 => Begins(frag', c) /\ Len(frag'[c]) = l
  BY <1>4, <1>6 DEF Begins
<1> QED BY <1>4, <1>7, <1>8

\* The contents stay in order when units above them are appended.
LEMMA AppendInOrder ==
  ASSUME NEW d \in Seq(Units), NEW s \in Seq(Units), NEW p \in Nat, NEW b \in Nat, NEW n \in Nat,
         InOrder(d, p, b), p <= b, Len(s) <= n, \A i \in 1..Len(s) : s[i] = b + i
  PROVE  InOrder(d \o s, p, b + n)
<1> DEFINE e == d \o s
<1>1. Len(d) \in Nat /\ Len(s) \in Nat /\ p <= Len(d) /\ Len(e) = Len(d) + Len(s)
  BY ConcatProperties DEF InOrder
<1>2. /\ \A i \in 1..Len(d) : e[i] = d[i] /\ d[i] \in 1..b /\ (i <= p => d[i] = i)
      /\ \A i, j \in 1..Len(d) : i < j => d[i] < d[j]
  BY <1>1, ConcatProperties DEF InOrder
<1>3. ASSUME NEW i \in 1..Len(e), i > Len(d) PROVE e[i] = b + (i - Len(d)) /\ i - Len(d) \in 1..Len(s)
  <2>1. i - Len(d) \in 1..Len(s)
    BY <1>1, <1>3
  <2>2. e[i] = s[i - Len(d)]
    BY <1>1, <1>3, ConcatProperties
  <2> QED BY <2>1, <2>2
<1> HIDE DEF e
<1>4. p <= Len(e)
  BY <1>1
<1>5. ASSUME NEW i \in 1..Len(e) PROVE e[i] \in 1..(b + n) /\ (i <= p => e[i] = i)
  <2>1. CASE i <= Len(d)
    BY <1>1, <1>2, <2>1
  <2>2. CASE i > Len(d)
    BY <1>1, <1>3, <2>2
  <2> QED BY <1>1, <2>1, <2>2
<1>6. ASSUME NEW i \in 1..Len(e), NEW j \in 1..Len(e), i < j PROVE e[i] < e[j]
  <2>1. CASE j <= Len(d)
    BY <1>1, <1>2, <1>6, <2>1
  <2>2. CASE i <= Len(d) /\ j > Len(d)
    <3>1. e[i] <= b /\ e[i] \in Nat
      BY <1>1, <1>2, <2>2
    <3>2. e[j] > b /\ e[j] \in Nat
      BY <1>1, <1>3, <2>2
    <3> QED BY <3>1, <3>2
  <2>3. CASE i > Len(d)
    BY <1>1, <1>3, <1>6, <2>3
  <2> QED BY <1>1, <1>6, <2>1, <2>2, <2>3
<1> QED BY <1>4, <1>5, <1>6 DEF InOrder, e

\* A beginning that is continued is a beginning.
LEMMA AppendUpto ==
  ASSUME NEW d \in Seq(Units), NEW s \in Seq(Units), NEW b \in Nat,
         Upto(d, b), \A i \in 1..Len(s) : s[i] = b + i
  PROVE  Upto(d \o s, b + Len(s))
<1>0. /\ Len(d \o s) = Len(d) + Len(s)
      /\ \A i \in 1..(Len(d) + Len(s)) : (d \o s)[i] = IF i <= Len(d) THEN d[i] ELSE s[i - Len(d)]
  BY ConcatProperties
<1>1. /\ Len(d) = b /\ Len(s) \in Nat /\ Len(d \o s) = b + Len(s)
      /\ \A i \in 1..(b + Len(s)) : (d \o s)[i] = IF i <= b THEN d[i] ELSE s[i - b]
  BY <1>0 DEF Upto
<1>2. ASSUME NEW i \in 1..Len(d \o s) PROVE (d \o s)[i] = i
  <2>1. CASE i <= b
    BY <1>1, <2>1 DEF Upto, Beginning
  <2>2. CASE i > b
    <3>1. i - b \in 1..Len(s)
      BY <1>1, <2>2
    <3> QED BY <1>1, <2>2, <3>1
  <2> QED BY <1>1, <2>1, <2>2
<1> QED BY <1>1, <1>2 DEF Upto, Beginning

\* Contents that are in order stay so when more is allowed, and a beginning is.
LEMMA InOrderLarger ==
  ASSUME NEW d \in Seq(Units), NEW p \in Nat, NEW q \in Nat, NEW r \in Nat, q <= r
  PROVE  /\ InOrder(d, p, q) => InOrder(d, p, r)
         /\ Upto(d, q) => InOrder(d, q, r)
BY DEF InOrder, Upto, Beginning

\* Where the fragments of a batch lie in the file.
LEMMA BatchBounds ==
  ASSUME batch \in Nat, NEW c, InBatch(c)
  PROVE  /\ c \in Nat /\ c * ChunkSize \in Nat /\ LinesOf(c) \in Nat
         /\ Whole = batch * ChunkSize /\ Whole \in Nat /\ Whole <= c * ChunkSize
         /\ Reach \in Nat /\ c * ChunkSize + LinesOf(c) <= Reach
         /\ c + 1 \in Chunks => c * ChunkSize + LinesOf(c) = (c + 1) * ChunkSize
         /\ c * ChunkSize + LinesOf(c) = IF (c + 1) * ChunkSize < FileSize THEN (c + 1) * ChunkSize ELSE FileSize
<1>1. /\ c \in Chunks /\ c \in Nat /\ batch <= c /\ c + 1 <= batch + JoinBatchSize
  BY ChunksAreNats DEF InBatch
<1>2. /\ c * ChunkSize \in Nat /\ c * ChunkSize < FileSize
      /\ (c + 1) * ChunkSize = c * ChunkSize + ChunkSize
  BY <1>1, ChunkBegins
<1>3. batch * ChunkSize <= c * ChunkSize /\ batch * ChunkSize \in Nat
  BY <1>1
<1>4. (c + 1) * ChunkSize <= (batch + JoinBatchSize) * ChunkSize /\ (batch + JoinBatchSize) * ChunkSize \in Nat
  BY <1>1
<1>5. c + 1 \in Chunks => LinesOf(c) = ChunkSize
  BY <1>1, WholeFragment
<1> DEFINE b == c * ChunkSize
           w == batch * ChunkSize
           r == (batch + JoinBatchSize) * ChunkSize
           n == (c + 1) * ChunkSize
<1>6. /\ LinesOf(c) = IF n > FileSize THEN FileSize - b ELSE ChunkSize
      /\ Whole = IF w < FileSize THEN w ELSE FileSize
      /\ Reach = IF r < FileSize THEN r ELSE FileSize
  BY DEF LinesOf, Whole, Reach
<1> HIDE DEF b, w, r, n
<1>7. b \in Nat /\ b < FileSize /\ n = b + ChunkSize /\ w <= b /\ w \in Nat /\ n <= r /\ r \in Nat
  BY <1>2, <1>3, <1>4 DEF b, w, r, n
<1>8. /\ LinesOf(c) \in Nat /\ Whole = w /\ Reach \in Nat /\ b + LinesOf(c) <= Reach
      /\ b + LinesOf(c) = IF n < FileSize THEN n ELSE FileSize
  BY <1>6, <1>7
<1> QED BY <1>1, <1>5, <1>7, <1>8 DEF b, w, r, n

\* What cat appends of a whole fragment is a beginning of it.
LEMMA AppendedPart ==
  ASSUME FragType, NEW c \in Nat, Begins(frag, c), AppendPart(c)
  PROVE  \E s \in Seq(Units) :
            /\ dest' = dest \o s
            /\ Len(s) <= Len(frag[c])
            /\ \A i \in 1..Len(s) : s[i] = Unit(c, i)
<1>1. frag[c] \in Seq(Units) /\ \A i \in 1..Len(frag[c]) : frag[c][i] = Unit(c, i)
  BY DEF Begins, FragType
<1>2. PICK n \in 0..Len(frag[c]) : dest' = dest \o SubSeq(frag[c], 1, n)
  BY DEF AppendPart, Begins, Present
<1> DEFINE s == SubSeq(frag[c], 1, n)
<1>3. s \in Seq(Units) /\ Len(s) = n /\ \A i \in 1..n : s[i] = frag[c][i]
  BY <1>1, <1>2, SubSeqProperties
<1>4. dest' = dest \o s
  BY <1>2
<1> HIDE DEF s
<1>5. Len(s) <= Len(frag[c]) /\ \A i \in 1..Len(s) : s[i] = Unit(c, i)
  BY <1>1, <1>3
<1> QED BY <1>3, <1>4, <1>5

-----------------------------------------------------------------------------
(* Every step keeps it *)

\* Only a worker that is at work takes a step, and then the main session waits.
LEMMA WorkersWork ==
  ASSUME OwnerInv, NEW t \in Threads, WorkerStep(t)
  PROVE  pc = "work" /\ UNCHANGED <<mainVars, dirs, dest, mainq>>
<1>1. wpc[t] \notin {"off", "done"} /\ UNCHANGED <<mainVars, dirs, dest, mainq>>
  BY DEF WorkerStep, deviceVars, lateVars, TakeJob, NoMoreJobs, SeeStopped, BeginAttempt, SendLine, SendFails, SendTimesOut, CheckPasses, CheckFails, ReportFailure, CloseStopped
<1> QED BY <1>1 DEF OwnerInv

\* A fragment is given to one worker, and leaves it for good when it is verified.
LEMMA WorkerOwnerInv ==
  ASSUME TypeInv, OwnerInv, NEW t \in Threads, WorkerStep(t)
  PROVE  OwnerInv'
<1>0. PoolType /\ next \in Nat /\ pc = "work" /\ pc' = "work"
  BY WorkersWork, TotalChunksIsNat DEF TypeInv, PoolInv, PoolType, mainVars
<1>1. CASE TakeJob(t)
  <2>1. /\ next' = next + 1 /\ verified' = verified
        /\ job' = [job EXCEPT ![t] = next] /\ wpc' = [wpc EXCEPT ![t] = "attempt"]
    BY <1>1 DEF TakeJob
  <2>2. \A c \in verified' : c < next' /\ c # next
    BY <1>0, <2>1, ChunksAreNats DEF PoolType, OwnerInv
  <2>3. \A u \in Threads : wpc'[u] \in Holding /\ u # t => wpc[u] \in Holding /\ job'[u] = job[u] /\ job[u] < next
    BY <1>0, <2>1 DEF PoolType, TypeInv, PoolInv
  <2>4. job'[t] = next
    BY <1>0, <2>1 DEF PoolType
  <2>5. \A u \in Threads : wpc'[u] \in Holding => job'[u] \notin verified'
    BY <2>1, <2>2, <2>3, <2>4 DEF OwnerInv
  <2>6. \A u \in Threads : wpc'[u] \in Holding /\ u # t => job'[u] # next
    BY <1>0, <2>3
  <2>7. \A u, v \in Threads : wpc'[u] \in Holding /\ wpc'[v] \in Holding /\ job'[u] = job'[v] => u = v
    BY <2>3, <2>4, <2>6 DEF OwnerInv
  <2> QED BY <1>0, <2>2, <2>5, <2>7 DEF OwnerInv
<1>2. CASE CheckPasses(t)
  <2>1. /\ next' = next /\ verified' = verified \cup {job[t]} /\ job' = job
        /\ wpc' = [wpc EXCEPT ![t] = "idle"] /\ wpc[t] \in Holding
    BY <1>2 DEF CheckPasses, Holding
  <2>2. job[t] < next
    BY <2>1 DEF TypeInv, PoolInv
  <2>3. \A u \in Threads : wpc'[u] \in Holding => u # t /\ wpc[u] \in Holding
    BY <1>0, <2>1 DEF PoolType, Holding
  <2> QED BY <1>0, <2>1, <2>2, <2>3 DEF OwnerInv
<1>3. CASE ~TakeJob(t) /\ ~CheckPasses(t)
  <2>1. UNCHANGED <<next, verified, job>>
    BY <1>3 DEF WorkerStep, NoMoreJobs, SeeStopped, BeginAttempt, SendLine, SendFails, SendTimesOut, CheckFails, ReportFailure, CloseStopped
  <2>2. \A u \in Threads : u # t => wpc'[u] = wpc[u]
    BY <1>0, <1>3 DEF PoolType, WorkerStep, NextAttempt, NoMoreJobs, SeeStopped, BeginAttempt, SendLine, SendFails, SendTimesOut, CheckFails, ReportFailure, CloseStopped
  <2>3. wpc'[t] \in Holding => wpc[t] \in Holding
    BY <1>0, <1>3 DEF Holding, PoolType, WorkerStep, NextAttempt, NoMoreJobs, SeeStopped, BeginAttempt, SendLine, SendFails, SendTimesOut, CheckFails, ReportFailure, CloseStopped
  <2> QED BY <1>0, <2>1, <2>2, <2>3 DEF OwnerInv
<1> QED BY <1>1, <1>2, <1>3

\* The other steps give no fragment away.
LEMMA StepOwnerInv ==
  ASSUME TypeInv, OwnerInv, [Next]_vars
  PROVE  OwnerInv'
<1>1. ASSUME NEW t \in Threads, WorkerStep(t) PROVE OwnerInv'
  BY <1>1, WorkerOwnerInv
<1>2. CASE UNCHANGED <<pc, poolVars>>
  BY <1>2 DEF OwnerInv, poolVars
<1>3. CASE MakeDirectory
  <2>1. /\ pc' = "work" /\ UNCHANGED <<next, verified, job>>
        /\ wpc' = [u \in Threads |-> IF u <= WorkerCount THEN "idle" ELSE "off"]
    BY <1>3 DEF MakeDirectory
  <2>2. \A u \in Threads : wpc'[u] \notin Holding
    BY <2>1 DEF Holding
  <2> QED BY <2>1, <2>2 DEF OwnerInv
<1>4. CASE MainStep /\ ~MakeDirectory
  <2>1. UNCHANGED poolVars /\ (pc' = "work" => pc = "work")
    BY <1>4 DEF NextOperand, MainStep, Begin, CannotBegin, MakeDirectoryFails, JoinWorkers, Truncate, TruncateFails, AppendFragment, MissFragment, AppendFails, VerifySize, RemoveEntries, RemoveDirectory, CleanupFails
  <2>2. pc' # "work" => \A t \in Threads : wpc[t] \in {"off", "done"}
    BY <1>4 DEF OwnerInv, MainStep, Begin, CannotBegin, MakeDirectoryFails, JoinWorkers, Truncate, TruncateFails, AppendFragment, MissFragment, AppendFails, VerifySize, RemoveEntries, RemoveDirectory, CleanupFails
  <2> QED BY <2>1, <2>2 DEF OwnerInv, poolVars
<1> QED BY <1>1, <1>2, <1>3, <1>4 DEF Next, StaleWrite, LateMain, Returned, vars, mainVars

\* Without a command of the join there is no late batch.
LEMMA NoBatch ==
  ASSUME mainq \in Seq(MainCommands), Without(mainq, DestOps)
  PROVE  ~LateCat /\ \A i \in 2..Len(mainq) : mainq[i].op \notin DestOps
<1>1. mainq # <<>> => Head(mainq) = mainq[1] /\ 1 \in 1..Len(mainq)
  OBVIOUS
<1>2. \A i \in 2..Len(mainq) : i \in 1..Len(mainq)
  OBVIOUS
<1> QED BY <1>1, <1>2 DEF LateCat, Without, DestOps

\* Any other command is sent behind all that are there.
LEMMA AppendedOther ==
  ASSUME NEW q \in Seq(MainCommands), NEW c \in MainCommands, c.op \notin DestOps,
         \A i \in 2..Len(q) : q[i].op \notin DestOps
  PROVE  /\ \A i \in 2..Len(Append(q, c)) : Append(q, c)[i].op \notin DestOps
         /\ Append(q, c) # <<>>
         /\ q = <<>> => Head(Append(q, c)) = c
         /\ q # <<>> => Head(Append(q, c)) = Head(q)
<1> DEFINE r == Append(q, c)
<1>1. /\ r \in Seq(MainCommands) /\ Len(r) = Len(q) + 1 /\ Len(q) \in Nat
      /\ r[Len(q) + 1] = c /\ \A i \in 1..Len(q) : r[i] = q[i]
  BY AppendProperties
<1>2. q = <<>> <=> Len(q) = 0
  BY EmptySeq
<1> HIDE DEF r
<1>3. r # <<>> /\ Head(r) = r[1]
  BY <1>1, EmptySeq
<1>4. q # <<>> => Head(q) = q[1] /\ 1 \in 1..Len(q)
  OBVIOUS
<1>5. \A i \in 2..Len(r) : r[i].op \notin DestOps
  BY <1>1
<1> USE DEF r
<1> QED BY <1>1, <1>2, <1>3, <1>4, <1>5

\* After an operand that is not the last comes another one of the same batch.
LEMMA NextInBatch ==
  ASSUME batch \in 0..TotalChunks, NEW c, InBatch(c), ~EndsBatch(c)
  PROVE  InBatch(c + 1)
<1>1. /\ TotalChunks \in Nat /\ batch \in Nat /\ c \in Nat /\ c < TotalChunks
      /\ batch <= c /\ c < batch + JoinBatchSize
  BY ChunksAreNats, TotalChunksIsNat DEF InBatch
<1>2. c + 1 # batch + JoinBatchSize /\ c + 1 # TotalChunks
  BY DEF EndsBatch
<1>3. c + 1 < TotalChunks /\ batch <= c + 1 /\ c + 1 < batch + JoinBatchSize
  BY <1>1, <1>2
<1> QED BY <1>1, <1>3, ChunksAreNats DEF InBatch

\* What the main session's shell does late to the destination: it empties it, or
\* appends a fragment of a batch that the join has given up, which may go on.
LEMMA LateStep ==
  ASSUME TypeInv, BatchInv, LateMain
  PROVE  /\ mainq' # <<>> => \A i \in 2..Len(mainq') : mainq'[i].op \notin DestOps
         /\ \/ ~LateCat' /\ dest' = dest
            \/ ~LateCat' /\ dest' = <<>> /\ Head(mainq).op = "truncate"
            \/ /\ LateCat /\ frag' = frag
               /\ AppendPart(Head(mainq).arg)
               /\ LateCat' => Head(mainq').arg = Head(mainq).arg + 1 /\ InBatch(Head(mainq').arg)
<1> DEFINE c == Head(mainq)
<1>1. /\ mainq \in Seq(MainCommands) /\ mainq # <<>> /\ mainq' \in Seq(MainCommands)
      /\ c \in MainCommands /\ Tail(mainq) \in Seq(MainCommands)
  BY StepTypeInv DEF LateMain, TypeInv, LateType, Next
<1>2. Without(Tail(mainq), DestOps)
  <2>1. \A i \in 1..Len(Tail(mainq)) : Tail(mainq)[i] = mainq[i + 1] /\ i + 1 \in 2..Len(mainq)
    BY <1>1
  <2> QED BY <2>1 DEF Without, BatchInv
<1>3. ASSUME mainq' = Tail(mainq)
      PROVE  ~LateCat' /\ \A i \in 2..Len(mainq') : mainq'[i].op \notin DestOps
  <2>1. Without(mainq', DestOps)
    BY <1>2, <1>3
  <2>2. mainq' # <<>> => Head(mainq') = mainq'[1] /\ 1 \in 1..Len(mainq')
    BY <1>1
  <2>3. \A i \in 2..Len(mainq') : i \in 1..Len(mainq')
    BY <1>1
  <2> QED BY <2>1, <2>2, <2>3 DEF LateCat, Without, DestOps
<1>4. ASSUME NEW d \in MainCommands, mainq' = <<d>> \o Tail(mainq)
      PROVE  /\ mainq' # <<>> /\ Head(mainq') = d
             /\ \A i \in 2..Len(mainq') : mainq'[i].op \notin DestOps
  <2>1. <<d>> \in Seq(MainCommands) /\ Len(<<d>>) = 1 /\ <<d>>[1] = d
    OBVIOUS
  <2>2. /\ Len(mainq') = 1 + Len(Tail(mainq)) /\ Len(Tail(mainq)) \in Nat
        /\ \A i \in 1..(1 + Len(Tail(mainq))) :
              mainq'[i] = IF i <= 1 THEN <<d>>[i] ELSE Tail(mainq)[i - 1]
    BY <1>1, <1>4, <2>1, ConcatProperties
  <2>3. mainq' # <<>> /\ Head(mainq') = mainq'[1]
    BY <1>1, <2>2, EmptySeq
  <2>4. \A i \in 2..Len(mainq') : mainq'[i] = Tail(mainq)[i - 1] /\ i - 1 \in 1..Len(Tail(mainq))
    BY <2>2
  <2> QED BY <1>2, <2>1, <2>2, <2>3, <2>4 DEF Without
<1>5. c.arg \in Nat
  BY <1>1 DEF MainCommands
<1>6. /\ [op |-> "cat", arg |-> c.arg + 1] \in MainCommands
      /\ [op |-> "rmdir", arg |-> 0] \in MainCommands
  BY <1>5 DEF MainCommands
<1>7. CASE c.op = "cat" /\ mainq' = RestOfBatch(c.arg) /\ frag' = frag /\ AppendPart(c.arg)
  <2>1. LateCat /\ InBatch(c.arg)
    BY <1>1, <1>7 DEF LateCat, BatchInv
  <2>2. CASE EndsBatch(c.arg)
    BY <1>3, <1>7, <2>1, <2>2 DEF RestOfBatch
  <2>3. CASE ~EndsBatch(c.arg)
    <3>1. mainq' = <<[op |-> "cat", arg |-> c.arg + 1]>> \o Tail(mainq)
      BY <1>7, <2>3 DEF RestOfBatch
    <3>2. InBatch(c.arg + 1)
      BY <1>5, <2>1, <2>3, NextInBatch DEF TypeInv, MainInv, MainType
    <3> QED BY <1>4, <1>6, <1>7, <2>1, <3>1, <3>2
  <2> QED BY <2>2, <2>3
<1>8. CASE mainq' = Tail(mainq) /\ (dest' = dest \/ (c.op = "truncate" /\ dest' = <<>>))
  BY <1>3, <1>8
<1>9. CASE c.op = "rm" /\ mainq' = <<[op |-> "rmdir", arg |-> 0]>> \o Tail(mainq) /\ dest' = dest
  BY <1>4, <1>6, <1>9 DEF LateCat
<1>10. \/ c.op = "cat" /\ mainq' = RestOfBatch(c.arg) /\ frag' = frag /\ AppendPart(c.arg)
       \/ mainq' = Tail(mainq) /\ (dest' = dest \/ (c.op = "truncate" /\ dest' = <<>>))
       \/ c.op = "rm" /\ mainq' = <<[op |-> "rmdir", arg |-> 0]>> \o Tail(mainq) /\ dest' = dest
  BY DEF LateMain
<1> QED BY <1>7, <1>8, <1>9, <1>10

\* A step of the main session leaves at most one command of the join behind.
LEMMA MainBatchInv ==
  ASSUME TypeInv, QueueInv, BatchInv, JoinInv, MainStep
  PROVE  BatchInv'
<1>0. mainq \in Seq(MainCommands) /\ mainq' \in Seq(MainCommands) /\ joined \in Nat /\ joined \in 0..TotalChunks
  BY StepTypeInv, TotalChunksIsNat DEF TypeInv, LateType, MainInv, MainType, Next
<1>1. CASE MakeDirectoryFails
  <2>1. Without(mainq, DestOps)
    BY <1>1 DEF MakeDirectoryFails, QueueInv
  <2>2. [op |-> "mkdir", arg |-> mk + 1] \in MainCommands
    BY <1>1 DEF MakeDirectoryFails, TypeInv, MainInv, MainType, MainCommands
  <2>3. Without(mainq', DestOps)
    BY <1>0, <1>1, <2>1, <2>2, WithoutAppend DEF MakeDirectoryFails, TimesOut, lateVars, DestOps
  <2>4. pc' \in {"mkdir", "returned"}
    BY <1>1 DEF MakeDirectoryFails
  <2>5. mainq' # <<>> => Head(mainq') = mainq'[1] /\ 1 \in 1..Len(mainq')
    BY <1>0
  <2>6. \A i \in 2..Len(mainq') : i \in 1..Len(mainq')
    BY <1>0
  <2> QED BY <2>3, <2>4, <2>5, <2>6 DEF BatchInv, LateCat, Without, DestOps
<1>2. ASSUME NEW c \in MainCommands, TruncateFails \/ AppendFails, mainq = <<>>, mainq' = Append(mainq, c),
             c.op = "cat" => InBatch(c.arg) /\ joined = c.arg
      PROVE  BatchInv'
  <2>1. Len(mainq') = 1 /\ mainq' # <<>> /\ Head(mainq') = c
    BY <1>0, <1>2
  <2>2. pc' = "rm" /\ joined' = joined /\ batch' = batch
    BY <1>2 DEF TruncateFails, AppendFails
  <2>3. \A i \in 2..Len(mainq') : FALSE
    BY <2>1
  <2> QED BY <1>0, <1>2, <2>1, <2>2, <2>3 DEF BatchInv, LateCat, InBatch
<1>3. CASE TruncateFails
  <2>1. mainq = <<>>
    BY <1>3 DEF TruncateFails, BatchInv
  <2>2. [op |-> "truncate", arg |-> 0] \in MainCommands
    BY DEF MainCommands
  <2>3. CASE mainq' = mainq
    BY <1>3, <2>1, <2>3, EmptySeq DEF TruncateFails, BatchInv, LateCat
  <2>4. CASE mainq' = Append(mainq, [op |-> "truncate", arg |-> 0])
    BY <1>2, <1>3, <2>1, <2>2, <2>4
  <2> QED BY <1>3, <2>3, <2>4 DEF TruncateFails, TimesOut, lateVars
<1>4. CASE AppendFails
  <2>1. mainq = <<>> /\ InBatch(joined)
    BY <1>4 DEF AppendFails, BatchInv, JoinInv
  <2>2. [op |-> "cat", arg |-> joined] \in MainCommands
    BY <1>0 DEF MainCommands
  <2>3. CASE mainq' = mainq
    BY <1>4, <2>1, <2>3, EmptySeq DEF AppendFails, BatchInv, LateCat
  <2>4. CASE mainq' = Append(mainq, [op |-> "cat", arg |-> joined])
    BY <1>2, <1>4, <2>1, <2>2, <2>4
  <2> QED BY <1>4, <2>3, <2>4 DEF AppendFails, TimesOut, lateVars
<1>5. CASE CleanupFails
  <2>1. pc' = "returned" /\ joined' = joined /\ batch' = batch
    BY <1>5 DEF CleanupFails
  <2>2. CASE mainq' = mainq
    BY <2>1, <2>2 DEF BatchInv, LateCat, InBatch
  <2>3. CASE mainq' = Append(mainq, [op |-> pc, arg |-> 0])
    <3>1. [op |-> pc, arg |-> 0] \in MainCommands /\ pc \notin {"truncate", "cat"}
      BY <1>5 DEF CleanupFails, MainCommands
    <3>2. /\ \A i \in 2..Len(mainq') : mainq'[i].op \notin DestOps
          /\ mainq = <<>> => Head(mainq') = [op |-> pc, arg |-> 0]
          /\ mainq # <<>> => Head(mainq') = Head(mainq)
      BY <1>0, <2>3, <3>1, AppendedOther DEF BatchInv, DestOps
    <3>3. LateCat' => LateCat /\ Head(mainq') = Head(mainq)
      BY <3>1, <3>2 DEF LateCat
    <3> QED BY <2>1, <3>2, <3>3 DEF BatchInv, InBatch
  <2> QED BY <1>5, <2>2, <2>3 DEF CleanupFails, TimesOut, lateVars
<1>6. CASE Begin \/ CannotBegin \/ MakeDirectory \/ JoinWorkers \/ Truncate \/ AppendFragment \/ MissFragment
           \/ VerifySize \/ RemoveEntries \/ RemoveDirectory
  <2>1. /\ mainq' = mainq /\ (pc' \in {"work", "truncate", "cat", "verify"} => mainq = <<>>)
        /\ UNCHANGED <<joined, batch>> \/ mainq = <<>>
    BY <1>6 DEF BatchInv, Answered, Begin, CannotBegin, MakeDirectory, JoinWorkers, Truncate, AppendFragment, MissFragment, VerifySize, RemoveEntries, RemoveDirectory, lateVars
  <2> QED BY <2>1 DEF BatchInv, LateCat, InBatch
<1> QED BY <1>1, <1>3, <1>4, <1>5, <1>6 DEF MainStep

\* Late commands and the workers add no command of the join.
LEMMA StepBatchInv ==
  ASSUME TypeInv, QueueInv, OwnerInv, BatchInv, JoinInv, [Next]_vars
  PROVE  BatchInv'
<1>1. ASSUME NEW t \in Threads, WorkerStep(t) PROVE BatchInv'
  BY <1>1, WorkersWork DEF BatchInv, LateCat, InBatch, mainVars
<1>2. CASE LateMain
  <2>1. mainq # <<>> /\ UNCHANGED <<pc, joined, batch>> /\ joined \in Nat
    BY <1>2, TotalChunksIsNat DEF LateMain, mainVars, TypeInv, MainInv, MainType
  <2>2. \A i \in 2..Len(mainq') : mainq'[i].op \notin DestOps
    BY <1>2, LateStep, EmptySeq
  <2>3. LateCat' => LateCat /\ Head(mainq').arg = Head(mainq).arg + 1 /\ InBatch(Head(mainq').arg)
    BY <1>2, LateStep
  <2>4. ASSUME LateCat' PROVE joined' <= Head(mainq').arg
    <3>1. joined <= Head(mainq).arg /\ Head(mainq).arg \in Nat /\ Head(mainq').arg = Head(mainq).arg + 1
      BY <2>3, <2>4, ChunksAreNats DEF BatchInv, InBatch
    <3> QED BY <2>1, <3>1
  <2> QED BY <2>1, <2>2, <2>3, <2>4 DEF BatchInv, InBatch
<1>3. CASE MainStep
  BY <1>3, MainBatchInv
<1>4. CASE UNCHANGED <<mainVars, mainq>>
  BY <1>4 DEF BatchInv, LateCat, InBatch, mainVars
<1> QED BY <1>1, <1>2, <1>3, <1>4 DEF Next, StaleWrite, Returned, vars, lateVars

\* The join takes its batches one after the other, and stops at one that has
\* missed something.
LEMMA StepJoinInv ==
  ASSUME TypeInv, QueueInv, OwnerInv, JoinInv, [Next]_vars
  PROVE  JoinInv'
<1>0. /\ TotalChunks \in Nat /\ batch \in 0..TotalChunks /\ joined \in 0..TotalChunks
      /\ pc \in {"start", "mkdir", "work", "truncate"} => joined = 0
  BY TotalChunksIsNat DEF TypeInv, MainInv, MainType
<1>1. CASE UNCHANGED mainVars
  BY <1>1 DEF JoinInv, InBatch, mainVars
<1>2. CASE AppendFragment \/ MissFragment
  <2>1. pc = "cat" /\ InBatch(joined)
    BY <1>2 DEF AppendFragment, MissFragment, JoinInv
  <2>2. PICK m \in BOOLEAN : NextOperand(m)
    BY <1>2 DEF AppendFragment, MissFragment, TypeInv, MainInv, MainType
  <2>3. CASE ~EndsBatch(joined)
    <3>1. pc' = "cat" /\ batch' = batch /\ joined' = joined + 1
      BY <2>1, <2>2, <2>3 DEF NextOperand
    <3>2. InBatch(joined + 1)
      BY <1>0, <2>1, <2>3, NextInBatch
    <3> QED BY <3>1, <3>2 DEF JoinInv, InBatch
  <2>4. CASE EndsBatch(joined) /\ ~m
    <3>1. /\ batch' = joined + 1 /\ joined' = joined + 1 /\ ~missed'
          /\ pc' = IF joined + 1 = TotalChunks THEN "verify" ELSE pc
      BY <2>2, <2>4 DEF NextOperand
    <3>2. joined + 1 # TotalChunks => joined + 1 \in Chunks
      BY <1>0, <2>1, ChunksAreNats DEF InBatch
    <3>3. CASE joined + 1 = TotalChunks
      BY <3>1, <3>3 DEF JoinInv
    <3>4. CASE joined + 1 # TotalChunks
      BY <1>0, <2>1, <3>1, <3>2, <3>4 DEF JoinInv, InBatch
    <3> QED BY <3>3, <3>4
  <2>5. CASE EndsBatch(joined) /\ m
    BY <2>2, <2>5 DEF NextOperand, JoinInv
  <2> QED BY <2>3, <2>4, <2>5
<1>3. CASE Truncate
  <2>1. /\ pc = "truncate" /\ pc' = IF TotalChunks = 0 THEN "verify" ELSE "cat"
        /\ UNCHANGED <<joined, batch, missed>>
    BY <1>3 DEF Truncate
  <2>2. joined = 0 /\ batch = 0 /\ ~missed
    BY <1>0, <2>1 DEF JoinInv
  <2>3. TotalChunks # 0 => 0 \in Chunks
    BY <1>0, ChunksAreNats
  <2> QED BY <2>1, <2>2, <2>3 DEF JoinInv, InBatch
<1>4. CASE MainStep /\ ~AppendFragment /\ ~MissFragment /\ ~Truncate
  <2>1. /\ UNCHANGED <<batch, missed>>
        /\ pc' \in {"start", "mkdir", "work", "truncate"} => pc \in {"start", "mkdir", "work", "truncate"}
        /\ pc' \notin {"cat", "verify"}
    BY <1>4 DEF MainStep, Begin, CannotBegin, MakeDirectory, MakeDirectoryFails, JoinWorkers, TruncateFails, AppendFails, VerifySize, RemoveEntries, RemoveDirectory, CleanupFails
  <2>2. pc' \in {"rm", "rmdir", "returned"} /\ missed => err' # {}
    BY <1>4 DEF JoinInv, MainStep, Begin, CannotBegin, MakeDirectory, MakeDirectoryFails, JoinWorkers, TruncateFails, AppendFails, VerifySize, RemoveEntries, RemoveDirectory, CleanupFails
  <2> QED BY <2>1, <2>2 DEF JoinInv
<1>5. ASSUME NEW t \in Threads, WorkerStep(t) PROVE JoinInv'
  BY <1>1, <1>5, WorkersWork
<1> QED BY <1>1, <1>2, <1>3, <1>4, <1>5 DEF Next, StaleWrite, LateMain, Returned, vars

\* An abandoned session that writes behind the back of the push taints what it
\* writes, as long as the join has not read it.
LEMMA StaleTaints ==
  ASSUME TypeInv, NEW s \in stale, StaleWrite(s)
  PROVE  /\ tainted \subseteq tainted'
         /\ \A d \in DOMAIN frag : joined <= d /\ d \notin tainted' => d \in DOMAIN frag' /\ frag'[d] = frag[d]
<1>1. s.chunk \in Chunks /\ s.line \in Nat /\ FragType /\ joined \in Nat
  BY TotalChunksIsNat DEF TypeInv, LateType, StaleCommands, DeviceType, MainInv, MainType
<1>2. CASE scratch \in dirs
  <2>1. WriteUnit(s.chunk, s.line) /\ tainted' = IF s.chunk < joined THEN tainted ELSE tainted \cup {s.chunk}
    BY <1>2 DEF StaleWrite
  <2>2. \A d \in DOMAIN frag : d # s.chunk => d \in DOMAIN frag' /\ frag'[d] = frag[d]
    BY <1>1, <2>1, WrittenUnit
  <2>3. ASSUME joined <= s.chunk PROVE s.chunk \in tainted'
    <3>1. s.chunk \in Nat
      BY <1>1, ChunksAreNats
    <3>2. ~(s.chunk < joined)
      BY <1>1, <2>3, <3>1
    <3> QED BY <2>1, <3>2
  <2> QED BY <2>1, <2>2, <2>3 DEF Present
<1>3. CASE scratch \notin dirs
  BY <1>3 DEF StaleWrite, Present
<1> QED BY <1>2, <1>3

\* What a worker has written of its fragment is there, line after line: only an
\* abandoned session can have changed it, and then the fragment is tainted.
LEMMA WorkerLinesInv ==
  ASSUME TypeInv, OwnerInv, LinesInv, NEW t \in Threads, WorkerStep(t)
  PROVE  LinesInv'
<1>0. PoolType /\ FragType
  BY DEF TypeInv, PoolInv, DeviceType
<1>1. \A u \in Threads : u # t => wpc'[u] = wpc[u] /\ job'[u] = job[u] /\ line'[u] = line[u]
  BY <1>0 DEF PoolType, WorkerStep, NextAttempt, TakeJob, NoMoreJobs, SeeStopped, BeginAttempt, SendLine, SendFails, SendTimesOut, CheckPasses, CheckFails, ReportFailure, CloseStopped
<1>2. CASE SendLine(t) \/ SendFails(t)
  <2> DEFINE c == job[t]
  <2>1. wpc[t] = "send" /\ c \in Chunks /\ line[t] \in Nat /\ line[t] >= 1
    BY <1>0, <1>2, HeldIsChunk DEF SendLine, SendFails, Holding, PoolType, LinesInv
  <2>2. \A d \in DOMAIN frag : d # c => d \in DOMAIN frag' /\ frag'[d] = frag[d]
    <3>1. CASE SendLine(t)
      BY <1>0, <2>1, <3>1, WrittenUnit DEF SendLine, Present
    <3>2. CASE SendFails(t)
      <4>1. <<>> \in Seq(Units) /\ (frag' = frag \/ frag' = PutFile(c, <<>>))
        BY <3>2 DEF SendFails
      <4> QED BY <1>0, <2>1, <4>1, OtherFiles
    <3> QED BY <1>2, <3>1, <3>2
  <2>3. \A d : d # c => (d \in tainted' <=> d \in tainted)
    BY <1>2 DEF SendLine, SendFails
  <2>4. ASSUME NEW u \in Threads, u # t, wpc'[u] \in {"send", "check"}
        PROVE  /\ line'[u] >= 1
               /\ wpc'[u] = "check" => line'[u] > 1
               /\ line'[u] > 1 /\ job'[u] \notin tainted' =>
                     Begins(frag', job'[u]) /\ Len(frag'[job'[u]]) = line'[u] - 1
    <3>1. wpc[u] \in Holding /\ wpc[t] \in Holding /\ job[u] # c
      BY <1>1, <2>1, <2>4 DEF Holding, OwnerInv
    <3>2. job[u] \notin tainted' => job[u] \notin tainted
      BY <2>3, <3>1
    <3>3. Begins(frag, job[u]) => Begins(frag', job[u]) /\ Len(frag'[job[u]]) = Len(frag[job[u]])
      <4> SUFFICES ASSUME Begins(frag, job[u]) PROVE Begins(frag', job[u]) /\ Len(frag'[job[u]]) = Len(frag[job[u]])
        OBVIOUS
      <4>1. job[u] \in DOMAIN frag
        BY DEF Begins, Present
      <4>2. job'[u] = job[u] /\ job[u] \in DOMAIN frag' /\ frag'[job[u]] = frag[job[u]]
        BY <1>1, <2>2, <2>4, <3>1, <4>1 DEF Present
      <4> QED BY <4>2 DEF Begins, Present
    <3>4. /\ line[u] >= 1
          /\ wpc[u] = "check" => line[u] > 1
          /\ line[u] > 1 /\ job[u] \notin tainted => Begins(frag, job[u]) /\ Len(frag[job[u]]) = line[u] - 1
      BY <1>1, <2>4 DEF LinesInv
    <3>5. job'[u] = job[u] /\ line'[u] = line[u] /\ wpc'[u] = wpc[u]
      BY <1>1, <2>4
    <3> QED BY <3>2, <3>3, <3>4, <3>5
  <2>5. ASSUME wpc'[t] \in {"send", "check"}
        PROVE  /\ line'[t] >= 1
               /\ wpc'[t] = "check" => line'[t] > 1
               /\ line'[t] > 1 /\ job'[t] \notin tainted' =>
                     Begins(frag', job'[t]) /\ Len(frag'[job'[t]]) = line'[t] - 1
    <3>1. SendLine(t)
      BY <1>0, <1>2, <2>5 DEF SendFails, NextAttempt, PoolType
    <3>2. line'[t] = line[t] + 1 /\ job'[t] = job[t] /\ WriteUnit(c, line[t])
      BY <1>0, <3>1 DEF SendLine, PoolType
    <3>3. c \notin tainted' => line[t] = 1 \/ (Begins(frag, c) /\ Len(frag[c]) = line[t] - 1)
      BY <2>1, <3>1 DEF SendLine, LinesInv
    <3>4. c \notin tainted' => Begins(frag', c) /\ Len(frag'[c]) = line[t]
      <4>1. CASE line[t] = 1
        BY <1>0, <2>1, <3>2, <4>1, WrittenUnit
      <4>2. CASE line[t] > 1
        BY <1>0, <2>1, <3>2, <3>3, <4>2, WrittenUnit
      <4> QED BY <2>1, <4>1, <4>2
    <3> QED BY <2>1, <3>2, <3>4
  <2>6. \A u \in Threads : wpc'[u] \in {"send", "check"} =>
          /\ line'[u] >= 1
          /\ wpc'[u] = "check" => line'[u] > 1
          /\ line'[u] > 1 /\ job'[u] \notin tainted' =>
                Begins(frag', job'[u]) /\ Len(frag'[job'[u]]) = line'[u] - 1
    BY <2>4, <2>5
  <2> QED BY <2>6 DEF LinesInv
<1>3. CASE ~SendLine(t) /\ ~SendFails(t)
  <2>1. UNCHANGED <<frag, tainted>>
    BY <1>3 DEF WorkerStep, deviceVars, TakeJob, NoMoreJobs, SeeStopped, BeginAttempt, SendTimesOut, CheckPasses, CheckFails, ReportFailure, CloseStopped
  <2>2. wpc'[t] \in {"send", "check"} => wpc'[t] = "send" /\ line'[t] = 1
    BY <1>0, <1>3 DEF PoolType, WorkerStep, NextAttempt, TakeJob, NoMoreJobs, SeeStopped, BeginAttempt, SendTimesOut, CheckPasses, CheckFails, ReportFailure, CloseStopped
  <2>3. \A u \in Threads : wpc'[u] \in {"send", "check"} =>
          (wpc'[u] = "send" /\ line'[u] = 1) \/ (wpc'[u] = wpc[u] /\ job'[u] = job[u] /\ line'[u] = line[u])
    BY <1>1, <2>2
  <2> QED BY <2>1, <2>3 DEF LinesInv
<1> QED BY <1>2, <1>3

\* The other steps touch no fragment that is being written, or taint it.
LEMMA StepLinesInv ==
  ASSUME TypeInv, OwnerInv, BatchInv, LinesInv, [Next]_vars
  PROVE  LinesInv'
<1>1. ASSUME NEW t \in Threads, WorkerStep(t) PROVE LinesInv'
  BY <1>1, WorkerLinesInv
<1>2. ASSUME NEW s \in stale, StaleWrite(s) PROVE LinesInv'
  <2>1. UNCHANGED <<wpc, job, line, pc, joined>>
    BY <1>2 DEF StaleWrite, poolVars, mainVars
  <2>2. ASSUME NEW t \in Threads, wpc[t] \in {"send", "check"} PROVE joined <= job[t]
    <3>1. joined = 0 /\ job[t] \in Nat
      BY <2>2 DEF OwnerInv, TypeInv, MainInv, PoolInv, PoolType
    <3> QED BY <3>1
  <2>3. tainted \subseteq tainted'
        /\ \A d \in DOMAIN frag : joined <= d /\ d \notin tainted' => d \in DOMAIN frag' /\ frag'[d] = frag[d]
    BY <1>2, StaleTaints
  <2> QED BY <2>1, <2>2, <2>3 DEF LinesInv, Begins
<1>3. CASE LateMain \/ MainStep
  <2>1. pc' # "work" \/ MakeDirectory
    BY <1>3 DEF NextOperand, LateMain, BatchInv, mainVars, MainStep, Begin, CannotBegin, MakeDirectoryFails, JoinWorkers, Truncate, TruncateFails, AppendFragment, MissFragment, AppendFails, VerifySize, RemoveEntries, RemoveDirectory, CleanupFails
  <2>2. CASE pc' # "work"
    <3>1. OwnerInv'
      BY StepOwnerInv
    <3> QED BY <2>2, <3>1 DEF OwnerInv, LinesInv
  <2>3. CASE MakeDirectory
    BY <2>3 DEF MakeDirectory, LinesInv
  <2> QED BY <2>1, <2>2, <2>3
<1>4. CASE UNCHANGED vars
  BY <1>4 DEF vars, poolVars, deviceVars, LinesInv
<1> QED BY <1>1, <1>2, <1>3, <1>4 DEF Next, Returned

\* A late batch was there before, or is the one that the join has just given up.
LEMMA MainBatch ==
  ASSUME TypeInv, QueueInv, BatchInv, MainStep, LateCat'
  PROVE  \/ AppendFails /\ mainq = <<>> /\ Head(mainq').arg = joined /\ dest' = dest
         \/ LateCat /\ Head(mainq') = Head(mainq)
<1>0. mainq \in Seq(MainCommands)
  BY DEF TypeInv, LateType
<1>1. CASE mainq' = mainq
  BY <1>1 DEF LateCat
<1>2. ASSUME NEW c \in MainCommands, c.op \notin DestOps, mainq' = Append(mainq, c)
      PROVE  LateCat /\ Head(mainq') = Head(mainq)
  <2>1. /\ mainq = <<>> => Head(mainq') = c
        /\ mainq # <<>> => Head(mainq') = Head(mainq)
    BY <1>0, <1>2, AppendedOther DEF BatchInv
  <2> QED BY <1>2, <2>1 DEF LateCat, DestOps
<1>3. CASE MakeDirectoryFails /\ mainq' # mainq
  <2>1. /\ mainq' = Append(mainq, [op |-> "mkdir", arg |-> mk + 1])
        /\ [op |-> "mkdir", arg |-> mk + 1] \in MainCommands
    BY <1>3 DEF MakeDirectoryFails, TimesOut, lateVars, TypeInv, MainInv, MainType, MainCommands
  <2> QED BY <1>2, <2>1 DEF DestOps
<1>4. CASE CleanupFails /\ mainq' # mainq
  <2>1. /\ mainq' = Append(mainq, [op |-> pc, arg |-> 0]) /\ pc \in {"rm", "rmdir"}
        /\ [op |-> pc, arg |-> 0] \in MainCommands
    BY <1>4 DEF CleanupFails, TimesOut, lateVars, MainCommands
  <2> QED BY <1>2, <2>1 DEF DestOps
<1>5. ASSUME NEW c \in MainCommands, mainq = <<>>, mainq' = Append(mainq, c)
      PROVE  Head(mainq') = c
  <2>1. Len(mainq') = 1 /\ mainq' \in Seq(MainCommands) /\ mainq'[1] = c
    BY <1>0, <1>5, AppendProperties
  <2> QED BY <2>1
<1>6. CASE TruncateFails /\ mainq' # mainq
  <2>1. mainq = <<>> /\ mainq' = Append(mainq, [op |-> "truncate", arg |-> 0])
    BY <1>6 DEF TruncateFails, TimesOut, lateVars, BatchInv
  <2>2. [op |-> "truncate", arg |-> 0] \in MainCommands
    BY DEF MainCommands
  <2>3. Head(mainq') = [op |-> "truncate", arg |-> 0]
    BY <1>5, <2>1, <2>2
  <2> QED BY <2>3 DEF LateCat
<1>7. CASE AppendFails /\ mainq' # mainq
  <2>1. mainq = <<>> /\ mainq' = Append(mainq, [op |-> "cat", arg |-> joined]) /\ dest' = dest
    BY <1>7 DEF AppendFails, TimesOut, lateVars, deviceVars, BatchInv
  <2>2. [op |-> "cat", arg |-> joined] \in MainCommands
    BY TotalChunksIsNat DEF MainCommands, TypeInv, MainInv, MainType
  <2>3. Head(mainq') = [op |-> "cat", arg |-> joined]
    BY <1>5, <2>1, <2>2
  <2> QED BY <1>7, <2>1, <2>3
<1>8. CASE ~MakeDirectoryFails /\ ~CleanupFails /\ ~TruncateFails /\ ~AppendFails
  BY <1>1, <1>8 DEF MainStep, lateVars, Begin, CannotBegin, MakeDirectory, JoinWorkers, Truncate, AppendFragment, MissFragment, VerifySize, RemoveEntries, RemoveDirectory
<1> QED BY <1>1, <1>3, <1>4, <1>6, <1>7, <1>8

\* A fragment that passes its size check is whole, unless it is tainted; nothing
\* but an abandoned session changes it before the join has read it.
LEMMA StepFragmentsInv ==
  ASSUME TypeInv, PoolAccount, QueueInv, OwnerInv, BatchInv, JoinInv, LinesInv, FragmentsInv, [Next]_vars
  PROVE  FragmentsInv'
<1>0. /\ PoolType /\ FragType /\ MainType /\ verified \subseteq Chunks
      /\ BatchInv' /\ joined \in Nat /\ joined' \in Nat
  <2>1. TypeInv'
    BY StepTypeInv
  <2>2. BatchInv'
    BY StepBatchInv
  <2> QED BY <2>1, <2>2, TotalChunksIsNat DEF TypeInv, PoolInv, PoolType, DeviceType, MainInv, MainType
<1> DEFINE Entire(f, c) == Begins(f, c) /\ Len(f[c]) = LinesOf(c)
           Read == pc \in {"work", "truncate", "cat"} \/ LateCat
<1>1. FragmentsInv <=> (Read => \A c \in verified : joined <= c /\ c \notin tainted => Entire(frag, c))
  BY DEF FragmentsInv
<1>2. FragmentsInv' <=> (Read' => \A c \in verified' : joined' <= c /\ c \notin tainted' => Entire(frag', c))
  BY DEF FragmentsInv
<1>3. \A c \in DOMAIN frag : c \in DOMAIN frag' /\ frag'[c] = frag[c] /\ Entire(frag, c) => Entire(frag', c)
  BY DEF Begins
<1> HIDE DEF Entire
<1>4. ASSUME NEW t \in Threads, WorkerStep(t) PROVE FragmentsInv'
  <2>1. pc = "work" /\ UNCHANGED joined
    BY <1>4, WorkersWork DEF mainVars
  <2>2. \A c \in verified : joined <= c /\ c \notin tainted => Entire(frag, c)
    BY <1>1, <2>1
  <2>3. CASE CheckPasses(t)
    <3>1. wpc[t] = "check" /\ SizeMatches(job[t]) /\ verified' = verified \cup {job[t]} /\ UNCHANGED <<frag, tainted>>
      BY <2>3 DEF CheckPasses, deviceVars
    <3>2. job[t] \notin tainted => Entire(frag, job[t])
      BY <3>1 DEF LinesInv, SizeMatches, Entire
    <3> QED BY <1>2, <2>1, <2>2, <3>1, <3>2
  <2>4. CASE SendLine(t) \/ SendFails(t)
    <3>1. wpc[t] \in Holding /\ verified' = verified
      BY <2>4 DEF SendLine, SendFails, Holding
    <3>2. job[t] \in Chunks /\ line[t] \in Nat /\ job[t] \notin verified
      BY <1>0, <3>1, HeldIsChunk DEF PoolType, OwnerInv
    <3>3. \A d \in DOMAIN frag : d # job[t] => d \in DOMAIN frag' /\ frag'[d] = frag[d]
      <4>1. CASE SendLine(t)
        BY <1>0, <3>2, <4>1, WrittenUnit DEF SendLine
      <4>2. CASE SendFails(t)
        <5>1. <<>> \in Seq(Units) /\ (frag' = frag \/ frag' = PutFile(job[t], <<>>))
          BY <4>2 DEF SendFails
        <5> QED BY <1>0, <3>2, <5>1, OtherFiles
      <4> QED BY <2>4, <4>1, <4>2
    <3>4. \A d : d # job[t] => (d \in tainted' <=> d \in tainted)
      BY <2>4 DEF SendLine, SendFails
    <3>5. \A c \in verified : joined <= c /\ c \notin tainted' => c \in DOMAIN frag /\ Entire(frag, c) /\ c # job[t]
      BY <2>2, <3>2, <3>4 DEF Entire, Begins
    <3> QED BY <1>2, <1>3, <2>1, <3>1, <3>3, <3>5
  <2>5. CASE ~CheckPasses(t) /\ ~SendLine(t) /\ ~SendFails(t)
    <3>1. UNCHANGED <<verified, frag, tainted>>
      BY <1>4, <2>5 DEF WorkerStep, deviceVars, TakeJob, NoMoreJobs, SeeStopped, BeginAttempt, SendTimesOut, CheckFails, ReportFailure, CloseStopped
    <3> QED BY <1>2, <2>1, <2>2, <3>1
  <2> QED BY <2>3, <2>4, <2>5
<1>5. ASSUME NEW s \in stale, StaleWrite(s) PROVE FragmentsInv'
  <2>1. Read' = Read /\ UNCHANGED <<verified, joined>>
    BY <1>5 DEF StaleWrite, mainVars, poolVars, LateCat
  <2>2. tainted \subseteq tainted'
        /\ \A d \in DOMAIN frag : joined <= d /\ d \notin tainted' => d \in DOMAIN frag' /\ frag'[d] = frag[d]
    BY <1>5, StaleTaints
  <2>3. \A c : Entire(frag, c) => c \in DOMAIN frag
    BY DEF Entire, Begins
  <2> HIDE DEF Read
  <2> QED BY <1>1, <1>2, <1>3, <2>1, <2>2, <2>3
<1>6. ASSUME UNCHANGED <<verified, tainted>>, joined <= joined', Read' => Read /\ frag' = frag
      PROVE  FragmentsInv'
  <2> HIDE DEF Read
  <2>1. ASSUME Read', NEW c \in verified', joined' <= c, c \notin tainted' PROVE Entire(frag', c)
    <3>1. c \in verified /\ c \in Nat
      BY <1>0, <1>6, <2>1, ChunksAreNats
    <3>2. joined <= c
      BY <1>0, <1>6, <2>1, <3>1
    <3> QED BY <1>1, <1>6, <2>1, <3>1, <3>2
  <2> QED BY <1>2, <2>1
<1>7. CASE LateMain
  <2>1. UNCHANGED <<pc, joined, verified, tainted>>
    BY <1>7 DEF LateMain, mainVars, poolVars
  <2>2. pc \notin {"work", "truncate", "cat"}
    BY <1>7 DEF LateMain, BatchInv
  <2>3. LateCat' => LateCat /\ frag' = frag
    BY <1>7, LateStep
  <2> QED BY <1>0, <1>6, <2>1, <2>2, <2>3
<1>8. CASE MakeDirectory
  <2>1. next = 0 /\ verified' = verified
    BY <1>8 DEF MakeDirectory, PoolAccount
  <2>2. \A c \in verified : FALSE
    BY <1>0, <2>1, ChunksAreNats DEF OwnerInv
  <2> QED BY <1>2, <2>1, <2>2
<1>9. CASE CleanupFails
  <2>1. pc' = "returned" /\ UNCHANGED <<verified, tainted, joined>>
    BY <1>9 DEF CleanupFails, poolVars
  <2>2. LateCat' => LateCat
    BY <1>9, MainBatch DEF CleanupFails, AppendFails, MainStep
  <2>3. CASE frag' = frag
    BY <1>0, <1>6, <2>1, <2>2, <2>3
  <2>4. CASE mainq = <<>> /\ mainq' = mainq
    BY <1>2, <2>1, <2>4 DEF LateCat
  <2> QED BY <1>9, <2>3, <2>4 DEF CleanupFails, Answered, TimesOut, lateVars
<1>10. CASE MainStep /\ ~MakeDirectory /\ ~CleanupFails
  <2>1. UNCHANGED <<verified, tainted>> /\ (joined' = joined \/ joined' = joined + 1)
    BY <1>10 DEF MainStep, NextOperand, deviceVars, poolVars, Begin, CannotBegin, MakeDirectoryFails, JoinWorkers, Truncate, TruncateFails, AppendFragment, MissFragment, AppendFails, VerifySize, RemoveEntries, RemoveDirectory
  <2>2. CASE RemoveEntries
    <3>1. pc' = "rmdir" /\ mainq' = <<>>
      BY <2>2 DEF RemoveEntries, Answered, lateVars
    <3> QED BY <1>2, <3>1 DEF LateCat
  <2>3. CASE ~RemoveEntries
    <3>1. frag' = frag
      BY <1>10, <2>3 DEF MainStep, deviceVars, Begin, CannotBegin, MakeDirectoryFails, JoinWorkers, Truncate, TruncateFails, AppendFragment, MissFragment, AppendFails, VerifySize, RemoveDirectory
    <3>2. CASE MakeDirectoryFails
      <4>1. LateCat' => LateCat
        BY <3>2, MainBatch DEF MakeDirectoryFails, AppendFails, MainStep
      <4>2. pc' \notin {"work", "truncate", "cat"}
        BY <3>2 DEF MakeDirectoryFails
      <4> QED BY <1>0, <1>6, <2>1, <3>1, <3>2, <4>1, <4>2 DEF MakeDirectoryFails
    <3>3. CASE TruncateFails \/ AppendFails
      <4>1. pc \in {"truncate", "cat"}
        BY <3>3 DEF TruncateFails, AppendFails
      <4> QED BY <1>0, <1>6, <2>1, <3>1, <4>1
    <3>4. CASE Begin \/ CannotBegin \/ JoinWorkers \/ Truncate \/ AppendFragment \/ MissFragment \/ VerifySize \/ RemoveDirectory
      <4>1. mainq' = mainq /\ (pc' \in {"work", "truncate", "cat"} => pc \in {"work", "truncate", "cat"})
        BY <3>4 DEF Begin, CannotBegin, JoinWorkers, Truncate, AppendFragment, MissFragment, VerifySize, RemoveDirectory, lateVars
      <4> QED BY <1>0, <1>6, <2>1, <3>1, <4>1 DEF LateCat
    <3> QED BY <1>10, <2>3, <3>2, <3>3, <3>4 DEF MainStep
  <2> QED BY <2>2, <2>3
<1>11. CASE UNCHANGED vars
  BY <1>11 DEF vars, mainVars, poolVars, deviceVars, lateVars, FragmentsInv, LateCat
<1> QED BY <1>4, <1>5, <1>7, <1>8, <1>9, <1>10, <1>11 DEF Next, Returned

\* What an operand of the running cat leaves in the destination, whole or not.
LEMMA OperandDest ==
  ASSUME TypeInv, DestInv, BatchInv, JoinInv, pc = "cat", tainted = {}, tainted' = {}, mainq' = mainq,
         err = {}, NEW m \in BOOLEAN, missed => m, NextOperand(m), NEW s \in Seq(Units), dest' = dest \o s,
         Len(s) <= LinesOf(joined), ~m => Len(s) = LinesOf(joined),
         \A i \in 1..Len(s) : s[i] = Unit(joined, i)
  PROVE  DestInv'
<1> DEFINE b == joined * ChunkSize
           n == LinesOf(joined)
<1>1. /\ dest \in Seq(Units) /\ batch \in Nat /\ joined \in Nat /\ InBatch(joined)
      /\ TotalChunks \in Nat /\ mainq' = <<>>
  BY TotalChunksIsNat DEF TypeInv, DeviceType, MainInv, MainType, JoinInv, BatchInv
<1>2. /\ b \in Nat /\ n \in Nat /\ Whole \in Nat /\ Whole <= b /\ Reach \in Nat /\ b + n <= Reach
      /\ joined + 1 \in Chunks => b + n = (joined + 1) * ChunkSize
      /\ b + n = IF (joined + 1) * ChunkSize < FileSize THEN (joined + 1) * ChunkSize ELSE FileSize
  BY <1>1, BatchBounds
<1>3. \A i \in 1..Len(s) : s[i] = b + i
  BY DEF Unit
<1>4. InOrder(dest, Whole, b) /\ (~m => Upto(dest, b))
  BY DEF DestInv
<1>5. joined' = joined + 1 /\ missed' = m /\ pc' \in {"cat", "verify", "rm"}
  BY DEF NextOperand
<1> HIDE DEF b, n
<1>6. dest' \in Seq(Units) /\ Len(s) \in Nat /\ b + n \in Nat
  BY <1>1, <1>2, ConcatProperties
<1>7. InOrder(dest', Whole, b + n)
  BY <1>1, <1>2, <1>3, <1>4, AppendInOrder DEF n
<1>8. ~m => Upto(dest', b + n)
  <2>1. ~m => Upto(dest', b + Len(s))
    BY <1>1, <1>2, <1>3, <1>4, AppendUpto
  <2> QED BY <2>1 DEF n
<1>9. InOrder(dest', Whole, Reach)
  BY <1>2, <1>6, <1>7, InOrderLarger
<1>10. CASE ~EndsBatch(joined)
  <2>1. pc' = "cat" /\ batch' = batch
    BY <1>10 DEF NextOperand
  <2>2. Whole' = Whole /\ Reach' = Reach
    BY <2>1 DEF Whole, Reach
  <2>3. joined + 1 \in Chunks
    BY <1>1, <1>10, NextInBatch DEF InBatch, TypeInv, MainInv, MainType
  <2>4. b + n = joined' * ChunkSize
    BY <1>2, <1>5, <2>3
  <2> QED BY <1>1, <1>5, <1>7, <1>8, <1>9, <2>1, <2>2, <2>4 DEF DestInv, LateCat
<1>11. CASE EndsBatch(joined) /\ m
  <2>1. pc' = "rm" /\ batch' = batch /\ err' # {}
    BY <1>11 DEF NextOperand
  <2>2. Whole' = Whole /\ Reach' = Reach
    BY <2>1 DEF Whole, Reach
  <2> QED BY <1>1, <1>9, <2>1, <2>2 DEF DestInv, LateCat
<1>12. CASE EndsBatch(joined) /\ ~m
  <2>1. batch' = joined + 1 /\ pc' = IF joined + 1 = TotalChunks THEN "verify" ELSE "cat"
    BY <1>12 DEF NextOperand
  <2>2. Whole' = b + n
    BY <1>2, <2>1 DEF Whole
  <2>3. Reach' \in Nat /\ Whole' <= Reach'
    <3>1. /\ (joined + 1) * ChunkSize \in Nat /\ (joined + 1 + JoinBatchSize) * ChunkSize \in Nat
          /\ (joined + 1) * ChunkSize <= (joined + 1 + JoinBatchSize) * ChunkSize
      BY <1>1
    <3> QED BY <2>1, <3>1 DEF Whole, Reach
  <2>4. InOrder(dest', Whole', Reach')
    BY <1>6, <1>8, <1>12, <2>2, <2>3, InOrderLarger
  <2>5. Beginning(dest')
    BY <1>8, <1>12 DEF Upto
  <2>6. pc' = "cat" => InOrder(dest', Whole', joined' * ChunkSize) /\ Upto(dest', joined' * ChunkSize)
    <3>1. joined + 1 # TotalChunks => joined + 1 \in Chunks
      BY <1>1, ChunksAreNats DEF InBatch
    <3>2. pc' = "cat" => b + n = joined' * ChunkSize
      BY <1>2, <1>5, <2>1, <3>1
    <3>3. InOrder(dest', b + n, b + n)
      <4>1. b + n <= b + n
        BY <1>6
      <4> QED BY <1>6, <1>8, <1>12, <4>1, InOrderLarger
    <3> QED BY <1>8, <1>12, <2>2, <3>2, <3>3
  <2> QED BY <1>1, <1>5, <2>1, <2>4, <2>5, <2>6 DEF DestInv, LateCat
<1> QED BY <1>10, <1>11, <1>12

\* What the join leaves in the destination.
LEMMA MainDestInv ==
  ASSUME TypeInv, PoolAccount, QueueInv, BatchInv, JoinInv, FragmentsInv, DestInv, MainStep
  PROVE  DestInv'
<1>0. /\ dest \in Seq(Units) /\ joined \in Nat /\ tainted' = tainted
      /\ LateCat' => (AppendFails /\ mainq = <<>> /\ Head(mainq').arg = joined /\ dest' = dest)
                     \/ (LateCat /\ Head(mainq') = Head(mainq))
  <2>1. tainted' = tainted
    BY DEF MainStep, deviceVars, Begin, CannotBegin, MakeDirectory, MakeDirectoryFails, JoinWorkers, Truncate, TruncateFails, AppendFragment, MissFragment, AppendFails, VerifySize, RemoveEntries, RemoveDirectory, CleanupFails
  <2> QED BY <2>1, MainBatch, TotalChunksIsNat DEF TypeInv, DeviceType, MainInv, MainType
<1>1. ASSUME pc = "cat", tainted = {}
      PROVE  /\ joined \in Chunks /\ err = {} /\ FragType
             /\ Begins(frag, joined) /\ Len(frag[joined]) = LinesOf(joined)
             /\ frag[joined] \in Seq(Units)
  <2>1. joined \in Chunks /\ verified = Chunks /\ err = {} /\ FragType
    BY <1>0, <1>1, ChunksAreNats DEF TypeInv, MainInv, PoolAccount, QueueInv, DeviceType
  <2>2. Begins(frag, joined) /\ Len(frag[joined]) = LinesOf(joined)
    BY <1>0, <1>1, <2>1 DEF FragmentsInv
  <2>3. frag[joined] \in Seq(Units)
    BY <2>1, <2>2 DEF FragType, Begins
  <2> QED BY <2>1, <2>2, <2>3
<1>2. CASE AppendFragment
  <2>1. pc = "cat" /\ mainq' = mainq /\ dest' = dest \o frag[joined] /\ NextOperand(missed)
    BY <1>2 DEF AppendFragment, lateVars
  <2>2. CASE tainted = {}
    <3> DEFINE s == frag[joined]
    <3>1. /\ s \in Seq(Units) /\ dest' = dest \o s /\ Len(s) = LinesOf(joined)
          /\ \A i \in 1..Len(s) : s[i] = Unit(joined, i)
      BY <1>1, <2>1, <2>2 DEF Begins
    <3>2. LinesOf(joined) <= LinesOf(joined) /\ missed \in BOOLEAN
      BY <1>1, <2>1, <2>2, <3>1 DEF TypeInv, MainInv, MainType
    <3> HIDE DEF s
    <3> QED BY <1>0, <1>1, <2>1, <2>2, <3>1, <3>2, OperandDest
  <2>3. CASE tainted # {}
    <3>1. pc' \in {"cat", "verify", "rm"}
      BY <2>1 DEF NextOperand
    <3> QED BY <1>0, <2>3, <3>1 DEF DestInv
  <2> QED BY <2>2, <2>3
<1>3. CASE MissFragment
  <2>1. pc = "cat" /\ mainq' = mainq /\ AppendPart(joined) /\ NextOperand(TRUE)
    BY <1>3 DEF MissFragment, lateVars
  <2>2. CASE tainted = {}
    <3>1. PICK s \in Seq(Units) : /\ dest' = dest \o s
                                 /\ Len(s) <= Len(frag[joined])
                                 /\ \A i \in 1..Len(s) : s[i] = Unit(joined, i)
      BY <1>0, <1>1, <2>1, <2>2, AppendedPart
    <3>2. Len(s) <= LinesOf(joined)
      BY <1>1, <2>1, <2>2, <3>1
    <3> QED BY <1>0, <1>1, <2>1, <2>2, <3>1, <3>2, OperandDest
  <2>3. CASE tainted # {}
    <3>1. pc' \in {"cat", "verify", "rm"}
      BY <2>1 DEF NextOperand
    <3> QED BY <1>0, <2>3, <3>1 DEF DestInv
  <2> QED BY <2>2, <2>3
<1>4. CASE AppendFails
  <2>1. /\ pc = "cat" /\ pc' = "rm" /\ err' # {} /\ dest' = dest /\ mainq = <<>>
        /\ UNCHANGED <<joined, batch>>
    BY <1>4 DEF AppendFails, deviceVars, BatchInv
  <2>2. Whole' = Whole /\ Reach' = Reach
    BY <2>1 DEF Whole, Reach
  <2>3. CASE tainted = {}
    <3>1. InOrder(dest, Whole, joined * ChunkSize) /\ (Old(dest) \/ InOrder(dest, Whole, Reach))
      BY <2>1, <2>3 DEF DestInv
    <3>2. LateCat' => Head(mainq').arg = joined
      BY <1>0, <2>1 DEF LateCat
    <3>3. (Old(dest) => Old(dest')) /\ (InOrder(dest, Whole, Reach) => InOrder(dest', Whole', Reach'))
      BY <2>1, <2>2
    <3>4. LateCat' => InOrder(dest', Whole', Head(mainq').arg * ChunkSize)
      BY <2>1, <2>2, <3>1, <3>2
    <3> QED BY <2>1, <3>1, <3>3, <3>4 DEF DestInv
  <2>4. CASE tainted # {}
    BY <1>0, <2>1, <2>4 DEF DestInv
  <2> QED BY <2>3, <2>4
<1>5. CASE Truncate
  <2>1. /\ dest' = <<>> /\ mainq' = <<>> /\ pc' \in {"cat", "verify"} /\ joined' = 0 /\ batch' = 0
    BY <1>5 DEF Truncate, Answered, lateVars, TypeInv, MainInv, JoinInv
  <2>2. Old(dest') /\ Beginning(dest') /\ Upto(dest', 0)
    BY <2>1, EmptySeq DEF Old, Beginning, Upto
  <2>3. joined' * ChunkSize = 0 /\ Whole' = 0
    <3>1. 0 * ChunkSize = 0
      OBVIOUS
    <3> QED BY <2>1, <3>1 DEF Whole
  <2>4. Upto(dest', joined' * ChunkSize) /\ InOrder(dest', Whole', joined' * ChunkSize)
    <3>1. dest' \in Seq(Units) /\ 0 \in Nat /\ 0 <= 0
      BY <2>1
    <3>2. InOrder(dest', 0, 0)
      BY <2>2, <3>1, InOrderLarger
    <3> QED BY <2>2, <2>3, <3>2
  <2> QED BY <2>1, <2>2, <2>4 DEF DestInv, LateCat
<1>6. CASE MainStep /\ ~AppendFragment /\ ~MissFragment /\ ~AppendFails /\ ~Truncate
  <2>1. dest' = dest /\ batch' = batch
    BY <1>6 DEF MainStep, deviceVars, Begin, CannotBegin, MakeDirectory, MakeDirectoryFails, JoinWorkers, TruncateFails, VerifySize, RemoveEntries, RemoveDirectory, CleanupFails
  <2>2. /\ pc' \in {"start", "mkdir", "work", "truncate"} => pc \in {"start", "mkdir", "work", "truncate"}
        /\ pc' \notin {"cat", "verify"}
    BY <1>6 DEF MainStep, Begin, CannotBegin, MakeDirectory, MakeDirectoryFails, JoinWorkers, TruncateFails, VerifySize, RemoveEntries, RemoveDirectory, CleanupFails
  <2>3. pc' \in {"rm", "rmdir", "returned"} /\ err' = {} => pc \in {"verify", "rm", "rmdir"} /\ err = {}
    BY <1>6 DEF QueueInv, MainStep, Begin, CannotBegin, MakeDirectory, MakeDirectoryFails, JoinWorkers, TruncateFails, VerifySize, RemoveEntries, RemoveDirectory, CleanupFails
  <2>4. LateCat' => LateCat /\ Head(mainq') = Head(mainq)
    BY <1>0, <1>6
  <2>5. Whole' = Whole /\ Reach' = Reach
    BY <2>1 DEF Whole, Reach
  <2>6. /\ Old(dest') <=> Old(dest)
        /\ Beginning(dest') <=> Beginning(dest)
        /\ InOrder(dest', Whole', Reach') <=> InOrder(dest, Whole, Reach)
        /\ LateCat' => (InOrder(dest', Whole', Head(mainq').arg * ChunkSize)
                          <=> InOrder(dest, Whole, Head(mainq).arg * ChunkSize))
    BY <2>1, <2>4, <2>5
  <2> QED BY <1>0, <2>2, <2>3, <2>4, <2>6 DEF DestInv
<1> QED BY <1>2, <1>3, <1>4, <1>5, <1>6

\* A batch that was given up goes on appending the fragments in their order.
LEMMA LateDestInv ==
  ASSUME TypeInv, QueueInv, BatchInv, JoinInv, FragmentsInv, DestInv, LateMain
  PROVE  DestInv'
<1>0. /\ UNCHANGED <<pc, joined, batch, err, verified, tainted>> /\ dest \in Seq(Units) /\ FragType
      /\ mainq \in Seq(MainCommands) /\ mainq # <<>> /\ batch \in Nat
      /\ Whole' = Whole /\ Reach' = Reach
  BY TotalChunksIsNat DEF LateMain, mainVars, poolVars, TypeInv, MainInv, MainType, DeviceType, LateType, Whole, Reach
<1>1. CASE ~LateCat' /\ dest' = dest
  <2>1. pc # "cat"
    BY DEF LateMain, BatchInv
  <2> QED BY <1>0, <1>1, <2>1 DEF DestInv
<1>2. ASSUME Head(mainq).op \in DestOps
      PROVE  pc \in {"rm", "rmdir", "returned"} /\ err # {} /\ verified = Chunks
  <2>1. ~Without(mainq, DestOps)
    BY <1>0, <1>2 DEF Without
  <2> QED BY <1>0, <2>1 DEF QueueInv, TypeInv, MainInv, MainType, MainPCs
<1>3. CASE ~LateCat' /\ dest' = <<>> /\ Head(mainq).op = "truncate"
  <2>1. Old(dest')
    BY <1>3, EmptySeq DEF Old
  <2> QED BY <1>0, <1>2, <1>3, <2>1 DEF DestInv, DestOps
<1>4. CASE /\ LateCat /\ frag' = frag
           /\ AppendPart(Head(mainq).arg)
           /\ LateCat' => Head(mainq').arg = Head(mainq).arg + 1 /\ InBatch(Head(mainq').arg)
  <2>1. PICK k : k = Head(mainq).arg
    OBVIOUS
  <2>2. pc \in {"rm", "rmdir", "returned"} /\ err # {} /\ verified = Chunks /\ InBatch(k) /\ joined <= k
    BY <1>2, <1>4, <2>1 DEF LateCat, DestOps, BatchInv
  <2> DEFINE b == k * ChunkSize
             n == LinesOf(k)
  <2>3. /\ k \in Nat /\ b \in Nat /\ n \in Nat /\ Whole \in Nat /\ Whole <= b
        /\ Reach \in Nat /\ b + n <= Reach
        /\ k + 1 \in Chunks => b + n = (k + 1) * ChunkSize
    BY <1>0, <2>2, BatchBounds
  <2>4. CASE tainted = {}
    <3>1. Begins(frag, k) /\ Len(frag[k]) = n
      BY <1>4, <2>2, <2>4 DEF FragmentsInv, InBatch
    <3>2. InOrder(dest, Whole, b)
      BY <1>4, <2>1, <2>4 DEF DestInv
    <3>3. PICK s \in Seq(Units) : /\ dest' = dest \o s
                                 /\ Len(s) <= Len(frag[k])
                                 /\ \A i \in 1..Len(s) : s[i] = Unit(k, i)
      BY <1>0, <1>4, <2>1, <2>3, <3>1, AppendedPart
    <3>4. \A i \in 1..Len(s) : s[i] = b + i
      BY <3>3 DEF Unit
    <3> HIDE DEF b, n
    <3>5. InOrder(dest', Whole, b + n)
      BY <1>0, <2>3, <3>1, <3>2, <3>3, <3>4, AppendInOrder
    <3>6. dest' \in Seq(Units) /\ b + n \in Nat
      BY <1>0, <2>3, <3>3, ConcatProperties
    <3>7. InOrder(dest', Whole, Reach)
      BY <2>3, <3>5, <3>6, InOrderLarger
    <3>8. LateCat' => b + n = Head(mainq').arg * ChunkSize
      BY <1>4, <2>1, <2>3 DEF InBatch
    <3> QED BY <1>0, <2>2, <3>5, <3>7, <3>8 DEF DestInv
  <2>5. CASE tainted # {}
    BY <1>0, <2>2, <2>5 DEF DestInv
  <2> QED BY <2>4, <2>5
<1> QED BY <1>1, <1>3, <1>4, LateStep

\* The destination is what it was, or holds units of the file in their order.
LEMMA StepDestInv ==
  ASSUME TypeInv, PoolAccount, QueueInv, OwnerInv, BatchInv, JoinInv, FragmentsInv, DestInv, [Next]_vars
  PROVE  DestInv'
<1>1. ASSUME NEW t \in Threads, WorkerStep(t) PROVE DestInv'
  <2>1. pc = "work" /\ pc' = "work" /\ dest' = dest /\ mainq' = <<>>
    BY <1>1, WorkersWork DEF BatchInv, mainVars
  <2>2. Old(dest')
    BY <2>1 DEF DestInv, Old
  <2> QED BY <2>1, <2>2 DEF DestInv, LateCat
<1>2. ASSUME NEW s \in stale, StaleWrite(s) PROVE DestInv'
  <2>1. UNCHANGED <<pc, err, joined, batch, missed, dest, mainq>> /\ (tainted' = {} => tainted = {})
    BY <1>2, StaleTaints DEF StaleWrite, mainVars
  <2> QED BY <2>1 DEF DestInv, LateCat, Whole, Reach
<1>3. CASE LateMain
  BY <1>3, LateDestInv
<1>4. CASE MainStep
  BY <1>4, MainDestInv
<1>5. CASE UNCHANGED vars
  BY <1>5 DEF vars, mainVars, deviceVars, lateVars, DestInv, LateCat, Whole, Reach
<1> QED BY <1>1, <1>2, <1>3, <1>4, <1>5 DEF Next, Returned

-----------------------------------------------------------------------------
(* The theorems *)

\* Before the push nothing has been written.
LEMMA InitContentInv == Init => ContentInv
<1> SUFFICES ASSUME Init PROVE ContentInv
  OBVIOUS
<1>1. OwnerInv /\ BatchInv /\ JoinInv /\ LinesInv /\ FragmentsInv
  BY DEF Init, OwnerInv, BatchInv, JoinInv, LinesInv, FragmentsInv, Holding, LateCat
<1>2. Old(dest)
  BY DEF Init, Old
<1>3. DestInv
  BY <1>2 DEF Init, DestInv, LateCat
<1> QED BY <1>1, <1>3, InitIInv DEF ContentInv

\* What is in the fragments and in the destination, at any time.
THEOREM ContentInvariance == Spec => []ContentInv
<1>1. Init => ContentInv
  BY InitContentInv
<1>2. ContentInv /\ [Next]_vars => ContentInv'
  BY StepIInv, StepOwnerInv, StepBatchInv, StepJoinInv, StepLinesInv, StepFragmentsInv, StepDestInv DEF ContentInv, IInv
<1> QED BY <1>1, <1>2, PTL DEF Spec

\* Whatever fails, times out or is run late, the destination is what it was, or
\* holds every batch that was reported as appended and, after these, some units
\* of the one batch that was not, in their order; unless an abandoned session has
\* rewritten a fragment that had passed its size check.
THEOREM DestinationIsInOrder == Spec => []DestIsOldOrInOrder
<1>1. ContentInv => DestIsOldOrInOrder
  BY DEF ContentInv, DestInv, Old, InOrder, DestIsOldOrInOrder
<1> QED BY <1>1, ContentInvariance, PTL

\* A push that reports success has written the file, with the same exception.
THEOREM SuccessIsExact == Spec => []ExactUnlessTainted
<1>1. ContentInv => ExactUnlessTainted
  <2> SUFFICES ASSUME ContentInv, Success, tainted = {} PROVE dest = Data
    BY DEF ExactUnlessTainted
  <2>1. Beginning(dest) /\ Len(dest) = FileSize /\ dest \in Seq(Units)
    BY DEF Success, ContentInv, DestInv, IInv, QueueInv, TypeInv, DeviceType
  <2>2. Data \in Seq(Units) /\ Len(Data) = FileSize /\ \A i \in 1..FileSize : Data[i] = i
    <3>1. Data \in [1..FileSize -> Units]
      BY DEF Data, Units
    <3> QED BY <3>1, SeqDef DEF Data
  <2> QED BY <2>1, <2>2, SeqEqual DEF Beginning
<1> QED BY <1>1, ContentInvariance, PTL

=============================================================================
