--------------------------- MODULE TransferProofs ---------------------------
(***************************************************************************)
(* Theorems about Transfer, for every size of the fileloader and every     *)
(* number of commands that time out.                                       *)
(***************************************************************************)
EXTENDS Transfer, SequenceTheorems, TLAPS

USE TransferAssumption

-----------------------------------------------------------------------------
(* The inductive invariant *)

\* Where the transfer is before the loader directory is made, while it is in
\* use, and after the fast path.
Before == {"new", "inside", "start", "detect", "client", "select", "mkdir"}
Using  == {"upload", "chmod", "listen", "launch", "accept", "serve"}
After  == {"decide", "printf", "returned"}

\* The kinds of the variables of the workstation and of the device.
HostType ==
  /\ mode \in Modes /\ subnet \in BOOLEAN /\ direction \in {"push", "pull"}
  /\ pc \in PCs
  /\ fast \in {"none", "ok", "setup", "broken"}
  /\ result \in {"none", "ok", "setup", "broken", "subnet", "path"}
  /\ owned \in BOOLEAN /\ rmFailed \in BOOLEAN
  /\ listener \in {"none", "open", "closed"}

\* The results: the fast path has one when it has been left, and the transfer
\* reports it unless the printf path has been taken.
ResultInv ==
  /\ pc \in Before \cup Using => fast = "none"
  /\ pc \in {"close", "cleanup", "decide"} => fast # "none"
  /\ pc = "printf" => fast \in {"none", "setup"}
  /\ pc = "returned" <=> result # "none"
  /\ pc = "returned" /\ fast \in {"ok", "broken"} => result = fast
  /\ result = "setup" => fast = "setup"
  /\ listener = "open" => pc \in {"launch", "accept", "serve", "close"}

\* The directory is owned from the mkdir to the rm.  A command is left behind
\* only by the step that ends the fast path, and the rm after it: nothing but
\* the rm can come second.
DirectoryInv ==
  /\ made \in BOOLEAN /\ exec \in BOOLEAN /\ lines \in 0..LoaderLines
  /\ mainq \in Seq(Commands) /\ timeouts \in 0..MaxTimeouts
  /\ pc \in Before => ~owned /\ ~rmFailed /\ lines = 0
  /\ pc \in Using \cup {"close", "cleanup"} => owned /\ ~rmFailed
  /\ pc \in Before \cup Using \cup {"close"} => Len(mainq) = 0
  /\ pc = "cleanup" => Len(mainq) <= 1
  /\ pc \in After => Len(mainq) <= 2
  /\ Len(mainq) = 2 => mainq[2] = "rm"
  /\ pc \in After /\ owned /\ ~rmFailed => Len(mainq) = 0 /\ ~made
  /\ pc = "upload" => lines < LoaderLines
  /\ Len(mainq) > 0 /\ mainq[1] = "line" => lines < LoaderLines

\* Only a fileloader whose connection was accepted has a request, and its result
\* is then never a SetupError.
WriterInv ==
  /\ loader \in {"none", "running", "connected", "fed", "gone"}
  /\ wrote \subseteq Writers
  /\ loader = "fed" => pc = "serve" \/ fast = "broken"
  /\ "fast" \in wrote => pc = "serve" \/ fast \in {"ok", "broken"}
  /\ "printf" \in wrote => pc \in {"printf", "returned"} /\ fast \in {"none", "setup"}
  /\ fast = "ok" => "fast" \in wrote
  /\ result = "ok" => wrote # {}

\* What New has accepted is a file or a place for one, as long as no other
\* process has replaced it, and it is a file once it has been written.
PathInv ==
  /\ kind \in [{"given", "inside"} -> Kinds] /\ target \in {"given", "inside"}
  /\ replaced \in BOOLEAN
  /\ pc = "new" => target = "given"
  /\ pc = "inside" => target = "inside"
  /\ pc \in {"new", "inside"} => wrote = {}
  /\ result = "path" => wrote = {} /\ fast = "none"
  /\ direction = "push" /\ ~replaced =>
       /\ pc \notin {"new", "inside"} /\ result # "path" => kind[target] \in {"file", "missing"}
       /\ wrote # {} => kind[target] = "file"

IInv == HostType /\ ResultInv /\ DirectoryInv /\ WriterInv /\ PathInv

-----------------------------------------------------------------------------
(* Lemmas about the commands *)

\* A command that succeeds is run after every earlier one.
LEMMA Succeeded ==
  ASSUME NEW op, Succeeds(op)
  PROVE  /\ Len(mainq) = 0 /\ mainq' = mainq /\ timeouts' = timeouts
         /\ op # "launch" => loader' = loader
         /\ loader' \in {loader, "running"}
BY EmptySeq DEF Succeeds, Run, lateVars

\* One that fails does nothing yet, and may be left behind.
LEMMA Failed ==
  ASSUME mainq \in Seq(Commands), timeouts \in 0..MaxTimeouts, NEW op \in Commands, Fails(op)
  PROVE  /\ UNCHANGED <<made, lines, exec, loader>>
         /\ timeouts' \in 0..MaxTimeouts /\ mainq' \in Seq(Commands)
         /\ Len(mainq) \in Nat /\ Len(mainq') \in Nat /\ Len(mainq') <= Len(mainq) + 1
         /\ Len(mainq) = 0 /\ Len(mainq') > 0 => mainq'[1] = op
         /\ Len(mainq) > 0 => mainq'[1] = mainq[1]
         /\ Len(mainq) <= 1 /\ Len(mainq') = 2 => mainq'[2] = op
<1>1. Len(mainq) \in Nat
  OBVIOUS
<1>2. CASE UNCHANGED lateVars
  BY <1>1, <1>2 DEF Fails, deviceVars, lateVars
<1>3. CASE timeouts < MaxTimeouts /\ timeouts' = timeouts + 1 /\ mainq' = Append(mainq, op)
  <2>1. /\ mainq' \in Seq(Commands) /\ Len(mainq') = Len(mainq) + 1 /\ mainq'[Len(mainq) + 1] = op
        /\ \A i \in 1..Len(mainq) : mainq'[i] = mainq[i]
    BY <1>3, AppendProperties
  <2>2. timeouts' \in 0..MaxTimeouts /\ UNCHANGED <<made, lines, exec, loader>>
    BY <1>3 DEF Fails, deviceVars
  <2> QED BY <1>1, <2>1, <2>2
<1> QED BY <1>2, <1>3 DEF Fails

\* The oldest command is the one that leaves the session.
LEMMA Dequeued ==
  ASSUME mainq \in Seq(Commands), LateCommand
  PROVE  /\ Len(mainq) \in Nat \ {0} /\ Head(mainq) = mainq[1] /\ mainq[1] \in Commands
         /\ mainq' \in Seq(Commands) /\ Len(mainq') = Len(mainq) - 1
         /\ \A i \in 1..Len(mainq') : mainq'[i] = mainq[i + 1]
<1>1. mainq # <<>> /\ mainq' = Tail(mainq)
  BY DEF LateCommand
<1>2. /\ Head(mainq) \in Commands /\ Tail(mainq) \in Seq(Commands)
      /\ Len(Tail(mainq)) = Len(mainq) - 1
      /\ \A i \in 1..Len(Tail(mainq)) : Tail(mainq)[i] = mainq[i + 1]
  BY <1>1, HeadTailProperties
<1>3. Head(mainq) = mainq[1]
  OBVIOUS
<1>4. Len(mainq) \in Nat \ {0}
  BY <1>1, EmptySeq
<1> QED BY <1>1, <1>2, <1>3, <1>4

\* The steps that neither run, send nor lose a command of the session.
Elsewhere ==
  \/ CheckGiven \/ CheckInside \/ Choose \/ Detect \/ OpenClient \/ SelectLoader \/ Listen
  \/ Accept \/ ReadFileFails \/ AcceptTimesOut \/ ServeSucceeds \/ ServeFails \/ CloseListener
  \/ Decide \/ PrintfReturns \/ PrintfWrites \/ Connect \/ LoaderWrites \/ LoaderGone \/ Replace
  \/ Done

-----------------------------------------------------------------------------
(* Every step keeps it *)

\* The directory, what is in it, and the commands that are late.
LEMMA DirectorySteps ==
  ASSUME IInv, Next
  PROVE  DirectoryInv'
<1>1. /\ mainq \in Seq(Commands) /\ timeouts \in 0..MaxTimeouts /\ Len(mainq) \in Nat
      /\ made \in BOOLEAN /\ exec \in BOOLEAN /\ lines \in 0..LoaderLines
  BY DEF IInv, DirectoryInv
<1>2. CASE Elsewhere
  <2>1. UNCHANGED <<made, lines, exec, owned, rmFailed, mainq, timeouts>>
    BY <1>2 DEF Elsewhere, CheckGiven, CheckInside, NewKeeps, Choose, Detect, OpenClient, SelectLoader,
       Listen, Accept, ReadFileFails, AcceptTimesOut, ServeSucceeds, ServeFails, CloseListener, Decide,
       PrintfReturns, PrintfWrites, Connect, LoaderWrites, LoaderGone, Replace, Done, vars, hostVars,
       deviceVars, lateVars
  <2>2. \/ pc' = pc
        \/ pc \in Before /\ pc' \in Before \cup After
        \/ pc \in Using /\ pc' \in {"launch", "serve", "close", "cleanup"}
        \/ pc = "close" /\ pc' = "cleanup"
        \/ pc \in After /\ pc' \in After
    BY <1>2 DEF Elsewhere, CheckGiven, CheckInside, Refuse, Choose, Detect, OpenClient, SelectLoader,
       Listen, Accept, ReadFileFails, AcceptTimesOut, ServeSucceeds, ServeFails, CloseListener, Decide,
       PrintfReturns, PrintfWrites, Connect, LoaderWrites, LoaderGone, Replace, Done, vars, hostVars,
       Before, Using, After
  <2> QED BY <1>1, <2>1, <2>2 DEF IInv, DirectoryInv, Before, Using, After
<1>3. CASE MakeDirectory
  <2>1. /\ UNCHANGED rmFailed /\ pc = "mkdir" /\ Len(mainq) = 0
        /\ lines = 0 /\ ~owned /\ ~rmFailed
    BY <1>3 DEF MakeDirectory, IInv, DirectoryInv, Before, Using
  <2>2. CASE Succeeds("mkdir") /\ pc' = "upload" /\ owned' = TRUE
    <3>1. mainq' = mainq /\ timeouts' = timeouts
      BY <2>2, Succeeded
    <3>2. made' \in BOOLEAN /\ UNCHANGED <<lines, exec>> /\ lines < LoaderLines
      BY <1>1, <1>3, <2>1, <2>2 DEF MakeDirectory, Succeeds, Run, IInv, DirectoryInv
    <3> QED BY <1>1, <2>1, <2>2, <3>1, <3>2 DEF DirectoryInv, Before, Using, After
  <2>3. CASE Fails("mkdir") /\ pc' = "decide" /\ UNCHANGED owned
    <3>1. /\ UNCHANGED <<made, lines, exec>>
          /\ timeouts' \in 0..MaxTimeouts /\ mainq' \in Seq(Commands) /\ Len(mainq') \in Nat /\ Len(mainq') <= 1
          /\ Len(mainq') > 0 => mainq'[1] = "mkdir"
      BY <1>1, <2>1, <2>3, Failed DEF Commands
    <3> QED BY <1>1, <2>1, <2>3, <3>1 DEF DirectoryInv, Before, Using, After
  <2> QED BY <1>3, <2>2, <2>3 DEF MakeDirectory
<1>4. CASE UploadLine
  <2>1. /\ UNCHANGED rmFailed /\ pc = "upload" /\ Len(mainq) = 0
        /\ owned /\ ~rmFailed /\ UNCHANGED owned /\ lines < LoaderLines
    BY <1>4 DEF UploadLine, IInv, DirectoryInv, Before, Using
  <2>2. CASE Succeeds("line") /\ pc' = IF lines' = LoaderLines THEN "chmod" ELSE pc
    <3>1. mainq' = mainq /\ timeouts' = timeouts
      BY <2>2, Succeeded
    <3>2. lines' \in 0..LoaderLines /\ UNCHANGED <<made, exec>>
      BY <1>1, <1>4, <2>1, <2>2 DEF UploadLine, Succeeds, Run, IInv, DirectoryInv
    <3> QED BY <1>1, <2>1, <2>2, <3>1, <3>2 DEF DirectoryInv, Before, Using, After
  <2>3. CASE Fails("line") /\ pc' = "cleanup"
    <3>1. /\ UNCHANGED <<made, lines, exec>>
          /\ timeouts' \in 0..MaxTimeouts /\ mainq' \in Seq(Commands) /\ Len(mainq') \in Nat /\ Len(mainq') <= 1
          /\ Len(mainq') > 0 => mainq'[1] = "line"
      BY <1>1, <2>1, <2>3, Failed DEF Commands
    <3> QED BY <1>1, <2>1, <2>3, <3>1 DEF DirectoryInv, Before, Using, After
  <2> QED BY <1>4, <2>2, <2>3 DEF UploadLine
<1>5. CASE MakeExecutable
  <2>1. /\ UNCHANGED rmFailed /\ pc = "chmod" /\ Len(mainq) = 0
        /\ owned /\ ~rmFailed /\ UNCHANGED owned
    BY <1>5 DEF MakeExecutable, IInv, DirectoryInv, Before, Using
  <2>2. CASE Succeeds("chmod") /\ pc' = "listen"
    <3>1. mainq' = mainq /\ timeouts' = timeouts
      BY <2>2, Succeeded
    <3>2. exec' \in BOOLEAN /\ UNCHANGED <<made, lines>>
      BY <1>1, <1>5, <2>1, <2>2 DEF MakeExecutable, Succeeds, Run, IInv, DirectoryInv
    <3> QED BY <1>1, <2>1, <2>2, <3>1, <3>2 DEF DirectoryInv, Before, Using, After
  <2>3. CASE Fails("chmod") /\ pc' = "cleanup"
    <3>1. /\ UNCHANGED <<made, lines, exec>>
          /\ timeouts' \in 0..MaxTimeouts /\ mainq' \in Seq(Commands) /\ Len(mainq') \in Nat /\ Len(mainq') <= 1
          /\ Len(mainq') > 0 => mainq'[1] = "chmod"
      BY <1>1, <2>1, <2>3, Failed DEF Commands
    <3> QED BY <1>1, <2>1, <2>3, <3>1 DEF DirectoryInv, Before, Using, After
  <2> QED BY <1>5, <2>2, <2>3 DEF MakeExecutable
<1>6. CASE Launch
  <2>1. /\ UNCHANGED rmFailed /\ pc = "launch" /\ Len(mainq) = 0
        /\ owned /\ ~rmFailed /\ UNCHANGED owned
    BY <1>6 DEF Launch, IInv, DirectoryInv, Before, Using
  <2>2. CASE Succeeds("launch") /\ pc' = "accept"
    <3>1. mainq' = mainq /\ timeouts' = timeouts
      BY <2>2, Succeeded
    <3>2. UNCHANGED <<made, lines, exec>>
      BY <1>1, <1>6, <2>1, <2>2 DEF Launch, Succeeds, Run, IInv, DirectoryInv
    <3> QED BY <1>1, <2>1, <2>2, <3>1, <3>2 DEF DirectoryInv, Before, Using, After
  <2>3. CASE Fails("launch") /\ pc' = "cleanup"
    <3>1. /\ UNCHANGED <<made, lines, exec>>
          /\ timeouts' \in 0..MaxTimeouts /\ mainq' \in Seq(Commands) /\ Len(mainq') \in Nat /\ Len(mainq') <= 1
          /\ Len(mainq') > 0 => mainq'[1] = "launch"
      BY <1>1, <2>1, <2>3, Failed DEF Commands
    <3> QED BY <1>1, <2>1, <2>3, <3>1 DEF DirectoryInv, Before, Using, After
  <2> QED BY <1>6, <2>2, <2>3 DEF Launch
<1>7. CASE Cleanup
  <2>1. /\ pc = "cleanup" /\ pc' = "decide" /\ Len(mainq) <= 1 /\ UNCHANGED owned
        /\ owned /\ ~rmFailed /\ (Len(mainq) > 0 /\ mainq[1] = "line" => lines < LoaderLines)
    BY <1>7 DEF Cleanup, IInv, DirectoryInv
  <2>2. CASE Succeeds("rm") /\ UNCHANGED rmFailed
    <3>1. Len(mainq) = 0 /\ mainq' = mainq /\ timeouts' = timeouts
      BY <2>2, Succeeded
    <3>2. made' \in BOOLEAN /\ ~made' /\ lines' = 0 /\ exec' \in BOOLEAN
      BY <2>2 DEF Succeeds, Run
    <3>3. lines' \in 0..LoaderLines
      BY <3>2
    <3> QED BY <1>1, <2>1, <2>2, <3>1, <3>2, <3>3 DEF DirectoryInv, Before, Using, After
  <2>3. CASE Fails("rm") /\ rmFailed' = TRUE
    <3>1. UNCHANGED <<made, lines, exec>> /\ timeouts' \in 0..MaxTimeouts
      BY <1>1, <2>3, Failed DEF Commands
    <3>2. mainq' \in Seq(Commands) /\ Len(mainq') \in Nat /\ Len(mainq') <= 2 /\ (Len(mainq') = 2 => mainq'[2] = "rm")
      BY <1>1, <2>1, <2>3, Failed DEF Commands
    <3>3. Len(mainq') > 0 => mainq'[1] = "rm" \/ (Len(mainq) > 0 /\ mainq'[1] = mainq[1])
      BY <1>1, <2>3, Failed DEF Commands
    <3> QED BY <1>1, <2>1, <2>3, <3>1, <3>2, <3>3 DEF DirectoryInv, Before, Using, After
  <2> QED BY <1>7, <2>2, <2>3 DEF Cleanup
<1>8. CASE LateCommand
  <2>1. /\ Len(mainq) \in Nat \ {0} /\ Head(mainq) = mainq[1] /\ mainq[1] \in Commands
        /\ mainq' \in Seq(Commands) /\ Len(mainq') = Len(mainq) - 1
        /\ \A i \in 1..Len(mainq') : mainq'[i] = mainq[i + 1]
    BY <1>1, <1>8, Dequeued
  <2>2. UNCHANGED <<pc, owned, rmFailed, timeouts>>
    BY <1>8 DEF LateCommand, hostVars
  <2>3. pc \in {"cleanup"} \cup After /\ Len(mainq) <= 2 /\ (pc = "cleanup" => Len(mainq) = 1)
    BY <2>1 DEF IInv, DirectoryInv, HostType, PCs, Before, Using, After
  <2>4. ~(pc \in After /\ owned /\ ~rmFailed)
    BY <2>1 DEF IInv, DirectoryInv
  <2>5. Len(mainq') > 0 => mainq'[1] = "rm"
    <3>1. Len(mainq') > 0 => Len(mainq) = 2 /\ Len(mainq') = 1 /\ mainq'[1] = mainq[2]
      BY <2>1, <2>3
    <3> QED BY <3>1 DEF IInv, DirectoryInv
  <2>6. made' \in BOOLEAN /\ exec' \in BOOLEAN /\ lines' \in 0..LoaderLines
    <3>1. CASE UNCHANGED deviceVars
      BY <1>1, <3>1 DEF deviceVars
    <3>2. CASE Run(mainq[1])
      <4>1. mainq[1] = "line" => lines < LoaderLines
        BY <2>1 DEF IInv, DirectoryInv
      <4>2. CASE mainq[1] = "line"
        <5>1. lines \in Nat /\ lines < LoaderLines /\ lines' \in {lines, lines + 1}
          BY <1>1, <3>2, <4>1, <4>2 DEF Run
        <5>2. lines' \in 0..LoaderLines
          BY <5>1
        <5> QED BY <1>1, <3>2, <4>2, <5>2 DEF Run
      <4>3. CASE mainq[1] # "line"
        <5>1. made' \in BOOLEAN /\ exec' \in BOOLEAN /\ (UNCHANGED lines \/ lines' = 0)
          BY <1>1, <3>2, <4>3 DEF Run
        <5> QED BY <1>1, <5>1
      <4> QED BY <4>2, <4>3
    <3> QED BY <1>8, <2>1, <3>1, <3>2 DEF LateCommand
  <2>7. mainq' \in Seq(Commands) /\ Len(mainq') \in Nat /\ Len(mainq') <= 1
    BY <2>1, <2>3
  <2>8. pc' \in {"cleanup", "decide", "printf", "returned"} /\ (pc' = "cleanup" => owned' /\ ~rmFailed')
    BY <2>2, <2>3 DEF IInv, DirectoryInv, After
  <2>9. timeouts' \in 0..MaxTimeouts /\ ~(pc' \in After /\ owned' /\ ~rmFailed')
    BY <1>1, <2>2, <2>4
  <2> QED BY <2>5, <2>6, <2>7, <2>8, <2>9 DEF DirectoryInv, Before, Using, After
<1> QED BY <1>2, <1>3, <1>4, <1>5, <1>6, <1>7, <1>8 DEF Next, HostStep, Elsewhere

\* The results.
LEMMA ResultSteps ==
  ASSUME IInv, Next
  PROVE  HostType' /\ ResultInv'
<1> USE DEF IInv, HostType, ResultInv, Before, Using, After, PCs, Modes, settings, hostVars, pathVars, deviceVars
<1>1. CASE CheckGiven
  BY <1>1 DEF CheckGiven, NewKeeps, Refuse
<1>2. CASE CheckInside
  BY <1>2 DEF CheckInside, NewKeeps, Refuse
<1>3. CASE Choose
  BY <1>3 DEF Choose
<1>4. CASE Detect
  BY <1>4 DEF Detect
<1>5. CASE OpenClient
  BY <1>5 DEF OpenClient
<1>6. CASE SelectLoader
  BY <1>6 DEF SelectLoader
<1>7. CASE MakeDirectory
  BY <1>7 DEF MakeDirectory
<1>8. CASE UploadLine
  BY <1>8 DEF UploadLine
<1>9. CASE MakeExecutable
  BY <1>9 DEF MakeExecutable
<1>10. CASE Listen
  BY <1>10 DEF Listen
<1>11. CASE Launch
  BY <1>11 DEF Launch
<1>12. CASE Accept
  BY <1>12 DEF Accept
<1>13. CASE ReadFileFails
  BY <1>13 DEF ReadFileFails
<1>14. CASE AcceptTimesOut
  BY <1>14 DEF AcceptTimesOut
<1>15. CASE ServeSucceeds
  BY <1>15 DEF ServeSucceeds
<1>16. CASE ServeFails
  BY <1>16 DEF ServeFails
<1>17. CASE CloseListener
  BY <1>17 DEF CloseListener
<1>18. CASE Cleanup
  BY <1>18 DEF Cleanup
<1>19. CASE Decide
  BY <1>19 DEF Decide
<1>20. CASE PrintfReturns
  BY <1>20 DEF PrintfReturns
<1>21. CASE PrintfWrites
  BY <1>21 DEF PrintfWrites, OpenDestination
<1>22. CASE Connect
  BY <1>22 DEF Connect
<1>23. CASE LoaderWrites
  BY <1>23 DEF LoaderWrites, OpenDestination
<1>24. CASE LoaderGone
  BY <1>24 DEF LoaderGone
<1>25. CASE LateCommand
  BY <1>25 DEF LateCommand
<1>26. CASE Replace
  BY <1>26 DEF Replace
<1>27. CASE Done
  BY <1>27 DEF Done, vars
<1> QED BY <1>1, <1>2, <1>3, <1>4, <1>5, <1>6, <1>7, <1>8, <1>9, <1>10, <1>11, <1>12, <1>13, <1>14, <1>15, <1>16, <1>17, <1>18, <1>19, <1>20, <1>21, <1>22, <1>23, <1>24, <1>25, <1>26, <1>27 DEF Next, HostStep

\* The fileloader and the destination: a late launch only starts a fileloader that
\* nobody will serve.
LEMMA WriterSteps ==
  ASSUME IInv, Next
  PROVE  WriterInv'
<1> USE DEF IInv, WriterInv, ResultInv, Before, Using, After, Writers
<1>1. CASE CheckGiven
  BY <1>1 DEF CheckGiven, NewKeeps, Refuse, settings, pathVars, hostVars, deviceVars
<1>2. CASE CheckInside
  BY <1>2 DEF CheckInside, NewKeeps, Refuse, settings, pathVars, hostVars, deviceVars
<1>3. CASE Choose
  BY <1>3 DEF Choose, settings, pathVars, hostVars, deviceVars
<1>4. CASE Detect
  BY <1>4 DEF Detect, settings, pathVars, hostVars, deviceVars
<1>5. CASE OpenClient
  BY <1>5 DEF OpenClient, settings, pathVars, hostVars, deviceVars
<1>6. CASE SelectLoader
  BY <1>6 DEF SelectLoader, settings, pathVars, hostVars, deviceVars
<1>7. CASE MakeDirectory
  <2>1. loader' \in {loader, "running"}
    BY <1>7, Succeeded, Failed DEF MakeDirectory, DirectoryInv, Commands
  <2> QED BY <1>7, <2>1 DEF MakeDirectory
<1>8. CASE UploadLine
  <2>1. loader' \in {loader, "running"}
    BY <1>8, Succeeded, Failed DEF UploadLine, DirectoryInv, Commands
  <2> QED BY <1>8, <2>1 DEF UploadLine
<1>9. CASE MakeExecutable
  <2>1. loader' \in {loader, "running"}
    BY <1>9, Succeeded, Failed DEF MakeExecutable, DirectoryInv, Commands
  <2> QED BY <1>9, <2>1 DEF MakeExecutable
<1>10. CASE Listen
  BY <1>10 DEF Listen, settings, pathVars, hostVars, deviceVars
<1>11. CASE Launch
  <2>1. loader' \in {loader, "running"}
    BY <1>11, Succeeded, Failed DEF Launch, DirectoryInv, Commands
  <2> QED BY <1>11, <2>1 DEF Launch
<1>12. CASE Accept
  BY <1>12 DEF Accept, settings, pathVars, hostVars, deviceVars
<1>13. CASE ReadFileFails
  BY <1>13 DEF ReadFileFails, settings, pathVars, hostVars, deviceVars
<1>14. CASE AcceptTimesOut
  BY <1>14 DEF AcceptTimesOut, settings, pathVars, hostVars, deviceVars
<1>15. CASE ServeSucceeds
  BY <1>15 DEF ServeSucceeds, settings, pathVars, hostVars, deviceVars
<1>16. CASE ServeFails
  BY <1>16 DEF ServeFails, settings, pathVars, hostVars, deviceVars
<1>17. CASE CloseListener
  BY <1>17 DEF CloseListener, settings, pathVars, hostVars, deviceVars
<1>18. CASE Cleanup
  <2>1. loader' \in {loader, "running"}
    BY <1>18, Succeeded, Failed DEF Cleanup, DirectoryInv, Commands
  <2> QED BY <1>18, <2>1 DEF Cleanup
<1>19. CASE Decide
  BY <1>19 DEF Decide, settings, pathVars, hostVars, deviceVars
<1>20. CASE PrintfReturns
  BY <1>20 DEF PrintfReturns, settings, pathVars, hostVars, deviceVars
<1>21. CASE PrintfWrites
  BY <1>21 DEF PrintfWrites, OpenDestination, settings, pathVars, hostVars, deviceVars
<1>22. CASE Connect
  BY <1>22 DEF Connect, settings, pathVars, hostVars, deviceVars
<1>23. CASE LoaderWrites
  BY <1>23 DEF LoaderWrites, OpenDestination, settings, pathVars, hostVars, deviceVars
<1>24. CASE LoaderGone
  BY <1>24 DEF LoaderGone, settings, pathVars, hostVars, deviceVars
<1>25. CASE LateCommand
  <2>1. loader' \in {loader, "running"}
    BY <1>25 DEF LateCommand, Run, deviceVars
  <2> QED BY <1>25, <2>1 DEF LateCommand, hostVars
<1>26. CASE Replace
  BY <1>26 DEF Replace, settings, pathVars, hostVars, deviceVars
<1>27. CASE Done
  BY <1>27 DEF Done, vars, settings, pathVars, hostVars, deviceVars
<1> QED BY <1>1, <1>2, <1>3, <1>4, <1>5, <1>6, <1>7, <1>8, <1>9, <1>10, <1>11, <1>12, <1>13, <1>14, <1>15, <1>16, <1>17, <1>18, <1>19, <1>20, <1>21, <1>22, <1>23, <1>24, <1>25, <1>26, <1>27 DEF Next, HostStep

\* What New accepts.
LEMMA Classified ==
  ASSUME NEW k \in Kinds, Classify(k) = "not a directory"
  PROVE  k \in {"file", "missing"}
BY Zenon DEF Classify, Kinds

\* The destination: only the two writers and the other process change its kind.
LEMMA PathSteps ==
  ASSUME IInv, Next
  PROVE  PathInv'
<1> USE DEF IInv, PathInv, ResultInv, WriterInv, Before, Using, After, Kinds
<1>1. CASE CheckGiven
  <2>1. /\ UNCHANGED <<direction, kind, replaced, wrote, fast>> /\ pc = "new" /\ wrote = {}
        /\ target = "given" /\ result = "none" /\ fast = "none" /\ kind["given"] \in Kinds
    BY <1>1 DEF CheckGiven, NewKeeps
  <2>2. CASE direction = "pull" /\ pc' = "start" /\ UNCHANGED <<target, result>>
    BY <2>1, <2>2
  <2>3. CASE direction = "push" /\ pc' = "inside" /\ target' = "inside" /\ UNCHANGED result
    BY <2>1, <2>3
  <2>4. CASE /\ direction = "push" /\ Classify(kind["given"]) = "not a directory"
             /\ pc' = "start" /\ UNCHANGED <<target, result>>
    <3>1. kind["given"] \in {"file", "missing"}
      BY <2>1, <2>4, Classified
    <3> QED BY <2>1, <2>4, <3>1
  <2>5. CASE Refuse
    BY <2>1, <2>5 DEF Refuse
  <2> QED BY <1>1, <2>2, <2>3, <2>4, <2>5 DEF CheckGiven
<1>2. CASE CheckInside
  <2>1. /\ UNCHANGED <<direction, kind, replaced, wrote, fast>> /\ pc = "inside" /\ wrote = {}
        /\ target = "inside" /\ result = "none" /\ fast = "none" /\ kind["inside"] \in Kinds
    BY <1>2 DEF CheckInside, NewKeeps
  <2>2. CASE Classify(kind["inside"]) = "not a directory" /\ pc' = "start" /\ UNCHANGED <<target, result>>
    <3>1. kind["inside"] \in {"file", "missing"}
      BY <2>1, <2>2, Classified
    <3> QED BY <2>1, <2>2, <3>1
  <2>3. CASE Refuse
    BY <2>1, <2>3 DEF Refuse
  <2> QED BY <1>2, <2>2, <2>3 DEF CheckInside
<1>3. CASE Choose
  BY <1>3 DEF Choose, settings, pathVars, hostVars, deviceVars
<1>4. CASE Detect
  BY <1>4 DEF Detect, settings, pathVars, hostVars, deviceVars
<1>5. CASE OpenClient
  BY <1>5 DEF OpenClient, settings, pathVars, hostVars, deviceVars
<1>6. CASE SelectLoader
  BY <1>6 DEF SelectLoader, settings, pathVars, hostVars, deviceVars
<1>7. CASE MakeDirectory
  BY <1>7 DEF MakeDirectory, settings, pathVars, hostVars, deviceVars
<1>8. CASE UploadLine
  BY <1>8 DEF UploadLine, settings, pathVars, hostVars, deviceVars
<1>9. CASE MakeExecutable
  BY <1>9 DEF MakeExecutable, settings, pathVars, hostVars, deviceVars
<1>10. CASE Listen
  BY <1>10 DEF Listen, settings, pathVars, hostVars, deviceVars
<1>11. CASE Launch
  BY <1>11 DEF Launch, settings, pathVars, hostVars, deviceVars
<1>12. CASE Accept
  BY <1>12 DEF Accept, settings, pathVars, hostVars, deviceVars
<1>13. CASE ReadFileFails
  BY <1>13 DEF ReadFileFails, settings, pathVars, hostVars, deviceVars
<1>14. CASE AcceptTimesOut
  BY <1>14 DEF AcceptTimesOut, settings, pathVars, hostVars, deviceVars
<1>15. CASE ServeSucceeds
  BY <1>15 DEF ServeSucceeds, settings, pathVars, hostVars, deviceVars
<1>16. CASE ServeFails
  BY <1>16 DEF ServeFails, settings, pathVars, hostVars, deviceVars
<1>17. CASE CloseListener
  BY <1>17 DEF CloseListener, settings, pathVars, hostVars, deviceVars
<1>18. CASE Cleanup
  BY <1>18 DEF Cleanup, settings, pathVars, hostVars, deviceVars
<1>19. CASE Decide
  BY <1>19 DEF Decide, HostType, settings, pathVars, hostVars, deviceVars
<1>20. CASE PrintfReturns
  BY <1>20 DEF PrintfReturns, settings, pathVars, hostVars, deviceVars
<1>21. CASE PrintfWrites
  BY <1>21 DEF PrintfWrites, OpenDestination, settings, pathVars, hostVars, deviceVars
<1>22. CASE Connect
  BY <1>22 DEF Connect, settings, pathVars, hostVars, deviceVars
<1>23. CASE LoaderWrites
  BY <1>23 DEF LoaderWrites, OpenDestination, settings, pathVars, hostVars, deviceVars
<1>24. CASE LoaderGone
  BY <1>24 DEF LoaderGone, settings, pathVars, hostVars, deviceVars
<1>25. CASE LateCommand
  BY <1>25 DEF LateCommand, settings, pathVars, hostVars, deviceVars
<1>26. CASE Replace
  BY <1>26 DEF Replace, settings, pathVars, hostVars, deviceVars
<1>27. CASE Done
  BY <1>27 DEF Done, vars, settings, pathVars, hostVars, deviceVars
<1> QED BY <1>1, <1>2, <1>3, <1>4, <1>5, <1>6, <1>7, <1>8, <1>9, <1>10, <1>11, <1>12, <1>13, <1>14, <1>15, <1>16, <1>17, <1>18, <1>19, <1>20, <1>21, <1>22, <1>23, <1>24, <1>25, <1>26, <1>27 DEF Next, HostStep

LEMMA InitIInv == Init => IInv
<1> SUFFICES ASSUME Init
             PROVE  IInv
  OBVIOUS
<1> USE DEF Init
<1>1. HostType /\ ResultInv
  BY DEF HostType, ResultInv, Before, Using, PCs
<1>2. DirectoryInv
  <2>1. mainq \in Seq(Commands) /\ Len(mainq) = 0
    BY EmptySeq
  <2>2. timeouts \in 0..MaxTimeouts /\ lines \in 0..LoaderLines
    OBVIOUS
  <2>3. made \in BOOLEAN /\ exec \in BOOLEAN /\ ~owned /\ ~rmFailed /\ pc = "new" /\ lines = 0
    OBVIOUS
  <2> QED BY <2>1, <2>2, <2>3 DEF DirectoryInv, Before, Using, After
<1>3. WriterInv
  BY DEF WriterInv, Writers
<1>4. PathInv
  BY DEF PathInv
<1> QED BY <1>1, <1>2, <1>3, <1>4 DEF IInv

LEMMA StepIInv == IInv /\ [Next]_vars => IInv'
<1> SUFFICES ASSUME IInv, [Next]_vars
             PROVE  IInv'
  OBVIOUS
<1>1. CASE Next
  BY <1>1, ResultSteps, DirectorySteps, WriterSteps, PathSteps DEF IInv
<1>2. CASE UNCHANGED vars
  <2> USE DEF vars, settings, pathVars, hostVars, deviceVars, lateVars, IInv
  <2>1. HostType' /\ ResultInv'
    BY <1>2 DEF HostType, ResultInv
  <2>2. DirectoryInv'
    BY <1>2 DEF DirectoryInv
  <2>3. WriterInv' /\ PathInv'
    BY <1>2 DEF WriterInv, PathInv
  <2> QED BY <2>1, <2>2, <2>3
<1> QED BY <1>1, <1>2

-----------------------------------------------------------------------------
(* The theorems *)

\* The inductive invariant holds in every state of every behaviour.
THEOREM TransferInvariance == Spec => []IInv
<1>1. Init => IInv
  BY InitIInv
<1>2. IInv /\ [Next]_vars => IInv'
  BY StepIInv
<1> QED BY <1>1, <1>2, PTL DEF Spec

\* The variables stay in their types: no line of the fileloader is run twice,
\* however late the shell runs the commands it has been sent.
THEOREM TransferTypes == Spec => []TypeOK
<1>1. IInv => TypeOK
  <2> SUFFICES ASSUME IInv
               PROVE  TypeOK
    OBVIOUS
  <2>1. {owned, rmFailed, made, exec, replaced} \subseteq BOOLEAN
    BY DEF IInv, HostType, DirectoryInv, PathInv
  <2> QED BY <2>1 DEF TypeOK, IInv, HostType, DirectoryInv, WriterInv, PathInv
<1> QED BY <1>1, TransferInvariance, PTL

\* A SetupError is never about a transfer that has written, or will.
THEOREM SetupErrorsAreClean == Spec => []SetupMeansUntouched
<1>1. IInv => SetupMeansUntouched
  BY DEF IInv, ResultInv, WriterInv, Using, SetupMeansUntouched
<1> QED BY <1>1, TransferInvariance, PTL

\* What a push writes is a regular file, unless another process has replaced it.
THEOREM OnlyFilesAreWritten == Spec => []OnlyRegularDestination
<1>1. IInv => OnlyRegularDestination
  BY DEF IInv, PathInv, OnlyRegularDestination
<1> QED BY <1>1, TransferInvariance, PTL

\* The loader directory is removed, and no late command makes it again.
THEOREM DirectoryIsRemoved == Spec => []LoaderDirectoryGone
<1>1. IInv => LoaderDirectoryGone
  BY DEF IInv, DirectoryInv, After, LoaderDirectoryGone
<1> QED BY <1>1, TransferInvariance, PTL

\* The listener is closed on every way out of the fast path.
THEOREM ListenerIsClosed == Spec => []ListenerClosed
<1>1. IInv => ListenerClosed
  BY DEF IInv, ResultInv, ListenerClosed
<1> QED BY <1>1, TransferInvariance, PTL

\* A transfer as a whole is an upload: each step of it is one of Upload or
\* leaves what Upload sees as it was.
THEOREM TransferImplementsUpload == Spec => ImplementsUpload
<1> USE DEF U!UploadNext, U!StartWriting, U!Write, U!ReportOK, U!ReportRefused, U!ReportBroken,
            U!WriteLate, U!uploadVars, outcome, Before, Using, After
<1>1. Init => U!UploadInit
  BY DEF Init, U!UploadInit
<1>2. IInv /\ IInv' /\ [Next]_vars => [U!UploadNext]_U!uploadVars
  <2> SUFFICES ASSUME IInv, IInv', [Next]_vars
               PROVE  [U!UploadNext]_U!uploadVars
    OBVIOUS
  <2> USE DEF IInv, HostType, ResultInv, WriterInv, hostVars
  <2>1. wrote \in SUBSET Writers /\ wrote' \in SUBSET Writers
    OBVIOUS
  <2>2. CASE UNCHANGED <<pc, fast, result, wrote>>
    BY <2>2
  <2>3. CASE CheckGiven \/ CheckInside
    BY <2>3 DEF CheckGiven, CheckInside, Refuse, NewKeeps
  <2>4. CASE Choose
    BY <2>1, <2>4 DEF Choose
  <2>5. CASE Detect \/ OpenClient \/ SelectLoader
    BY <2>1, <2>5 DEF Detect, OpenClient, SelectLoader
  <2>6. CASE MakeDirectory \/ UploadLine \/ MakeExecutable \/ Listen \/ Launch
    BY <2>6 DEF MakeDirectory, UploadLine, MakeExecutable, Listen, Launch
  <2>7. CASE Accept \/ ReadFileFails \/ AcceptTimesOut
    BY <2>1, <2>7 DEF Accept, ReadFileFails, AcceptTimesOut
  <2>8. CASE ServeSucceeds \/ ServeFails
    BY <2>1, <2>8 DEF ServeSucceeds, ServeFails
  <2>9. CASE CloseListener \/ Cleanup
    BY <2>9 DEF CloseListener, Cleanup
  <2>10. CASE Decide
    <3>1. fast = "ok" => wrote = {"fast"}
      BY DEF Writers
    <3> QED BY <2>1, <2>10, <3>1 DEF Decide
  <2>11. CASE PrintfReturns
    <3>1. "printf" \in wrote => wrote = {"printf"}
      BY <2>11 DEF PrintfReturns, Writers
    <3> QED BY <2>1, <2>11, <3>1 DEF PrintfReturns
  <2>12. CASE PrintfWrites
    BY <2>1, <2>12 DEF PrintfWrites
  <2>13. CASE LoaderWrites
    BY <2>1, <2>13 DEF LoaderWrites
  <2>14. CASE Connect \/ LoaderGone \/ LateCommand \/ Replace \/ Done \/ UNCHANGED vars
    BY <2>2, <2>14 DEF Connect, LoaderGone, LateCommand, Replace, Done, vars
  <2> QED BY <2>3, <2>4, <2>5, <2>6, <2>7, <2>8, <2>9, <2>10, <2>11, <2>12, <2>13, <2>14
          DEF Next, HostStep
<1> QED BY <1>1, <1>2, TransferInvariance, PTL DEF Spec, ImplementsUpload, U!UploadSpec
=============================================================================
