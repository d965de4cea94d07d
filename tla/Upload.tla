------------------------------- MODULE Upload -------------------------------
(***************************************************************************)
(* What a push promises about its destination, whichever path carries the  *)
(* bytes: nothing is written before the transfer has begun to write; a     *)
(* push that is refused never touches the destination; success is reported *)
(* only for contents the path accepts, and a destination reported as       *)
(* complete is not written again by that push.  A push that fails while    *)
(* writing promises nothing (README.md, "Overwriting files and             *)
(* completion": an error can leave empty or partial contents).             *)
(*                                                                         *)
(* The contract of Scout.Push for both of its methods, pushPrintf          *)
(* (internal/scout/push_printf.go) and AcceptAndPush with the fileloader   *)
(* (internal/xfer/listener.go, internal/helpers/src/fileloader.c).         *)
(***************************************************************************)
CONSTANTS Content,   \* what the destination may hold
          Complete   \* those of them with which success may be reported

VARIABLES dest,      \* what the destination holds
          outcome    \* what the push has done and reported

Outcomes == {"idle", "writing", "ok", "refused", "broken"}

uploadVars == <<dest, outcome>>

UploadInit == dest \in Content /\ outcome = "idle"

\* The push begins to write.
StartWriting ==
  /\ outcome = "idle"
  /\ outcome' = "writing"
  /\ dest' \in Content

Write ==
  /\ outcome = "writing"
  /\ dest' \in Content
  /\ UNCHANGED outcome

ReportOK ==
  /\ outcome = "writing"
  /\ dest \in Complete
  /\ outcome' = "ok"
  /\ UNCHANGED dest

ReportRefused ==
  /\ outcome = "idle"
  /\ outcome' = "refused"
  /\ UNCHANGED dest

ReportBroken ==
  /\ outcome = "writing"
  /\ outcome' = "broken"
  /\ UNCHANGED dest

\* A command or a helper the failed push has left behind still writes.
WriteLate ==
  /\ outcome = "broken"
  /\ dest' \in Content
  /\ UNCHANGED outcome

UploadNext == \/ StartWriting \/ Write \/ ReportOK
              \/ ReportRefused \/ ReportBroken \/ WriteLate

UploadSpec == UploadInit /\ [][UploadNext]_uploadVars
=============================================================================
