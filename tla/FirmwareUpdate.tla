---------------------------- MODULE FirmwareUpdate ----------------------------
(***************************************************************************)
(* The update of the CardMind image: ota_update.cpp downloads a newer      *)
(* release to the card and stages it in the NVS, the MicroPython           *)
(* supervisor writes it over the cardmind partition, which it boots last.  *)
(*                                                                         *)
(* A reset may come between any two calls; what is running then is lost    *)
(* and the selected partition is started.  Trouble is a card that fails    *)
(* while the partition is half written, or that is not the one the update  *)
(* was staged on.  A release is its version, its digest is the version.    *)
(***************************************************************************)
EXTENDS Integers

CONSTANTS
  Version,     \* releases, the one that is installed at first the least
  Size,        \* their sizes
  MaxResets, MaxFaults

NoFile == 0
Half == 0      \* in a partition
Cut == -1      \* a part of a release

VARIABLES
  image,     \* what the cardmind partition holds
  boot,      \* the selected partition
  bin, tmp,  \* update.bin and update.tmp
  nvs,       \* upd_sha, upd_size, upd_pending
  info,      \* the release the user is asked about
  pc,        \* the next call
  trouble,   \* history: the card failed the supervisor
  leftover,  \* history: the staged request is not one that was handed over
  left

vars == <<image, boot, bin, tmp, nvs, info, pc, trouble, leftover, left>>

NoRelease == 0
NothingStaged == [sha |-> NoRelease, size |-> 0, pending |-> FALSE]

TypeOK ==
  /\ image \in Version \cup {Half}
  /\ boot \in {"cardmind", "python"}
  /\ bin \in Version \cup {NoFile} /\ tmp \in Version \cup {NoFile, Cut}
  /\ nvs.sha \in Version \cup {NoRelease} /\ nvs.size \in Nat /\ nvs.pending \in BOOLEAN
  /\ info \in Version \cup {NoRelease}
  /\ {trouble, leftover} \subseteq BOOLEAN
  /\ left \in [resets : 0..MaxResets, faults : 0..MaxFaults]

First == CHOOSE v \in Version : \A w \in Version : v <= w

Init ==
  /\ image = First /\ boot = "cardmind"
  /\ bin = NoFile /\ tmp = NoFile /\ nvs = NothingStaged
  /\ info = NoRelease /\ pc = "cardmind"
  /\ trouble = FALSE /\ leftover = FALSE
  /\ left = [resets |-> MaxResets, faults |-> MaxFaults]

Goto(step) == pc' = step /\ UNCHANGED left
\* A call that the card, the NVS or the network refuses.
Refused(step) == left.faults > 0 /\ left' = [left EXCEPT !.faults = @ - 1] /\ pc' = step
card == <<bin, tmp>>
flash == <<image, boot>>
history == <<trouble, leftover>>

-----------------------------------------------------------------------------
(* CardMind.                                                               *)

\* checkLatestFirmwareUpdate finds a newer release and the user is asked.
Check(v) ==
  /\ pc = "cardmind" /\ v > image
  /\ info' = v /\ Goto("confirm")
  /\ UNCHANGED <<flash, card, nvs, history>>

Decline ==
  /\ pc = "confirm"
  /\ info' = NoRelease /\ Goto("cardmind")
  /\ UNCHANGED <<flash, card, nvs, history>>

\* downloadFirmwareUpdate first removes what an earlier one left.
Discard ==
  /\ pc = "confirm"
  /\ \/ tmp' = NoFile /\ bin' = NoFile /\ Goto("download")
     \/ tmp' = NoFile /\ UNCHANGED bin /\ Refused("cardmind")
     \/ tmp # NoFile /\ UNCHANGED card /\ Refused("cardmind")
  /\ UNCHANGED <<flash, nvs, info, history>>

Download ==
  /\ pc = "download"
  /\ \/ tmp' = Cut /\ Goto("stream")
     \/ UNCHANGED tmp /\ Goto("cardmind")
  /\ UNCHANGED <<flash, bin, nvs, info, history>>

\* The digest is made while the release is streamed.
Streamed ==
  /\ pc = "stream" /\ tmp' = info
  /\ Goto("publish")
  /\ UNCHANGED <<flash, bin, nvs, info, history>>

\* Canceled, cut off, or not the digest of the release; the removal of the
\* part may be refused.
StreamStopped ==
  /\ pc = "stream"
  /\ \/ tmp' = NoFile /\ Goto("cardmind")
     \/ UNCHANGED tmp /\ Refused("cardmind")
  /\ UNCHANGED <<flash, bin, nvs, info, history>>

Publish ==
  /\ pc = "publish" /\ tmp' = NoFile
  /\ \/ bin' = tmp /\ Goto("verify")
     \/ UNCHANGED bin /\ Refused("cardmind")
  /\ UNCHANGED <<flash, nvs, info, history>>

\* installDownloadedFirmware reads the file again; the user may cancel.
Verify ==
  /\ pc = "verify" /\ bin = info
  /\ Goto("sha")
  /\ UNCHANGED <<flash, card, nvs, info, history>>

VerifyStopped ==
  /\ pc = "verify"
  /\ Goto("cardmind") /\ leftover' = nvs.pending
  /\ UNCHANGED <<flash, card, nvs, info, trouble>>

\* stageCardMindUpdateForPython; what was written before a refusal stays.
Stage(step, next, new) ==
  /\ pc = step
  /\ \/ nvs' = new /\ Goto(next) /\ UNCHANGED leftover
     \/ UNCHANGED nvs /\ Refused("cardmind") /\ leftover' = nvs.pending
  /\ UNCHANGED <<flash, card, info, trouble>>

StageSha == Stage("sha", "size", [nvs EXCEPT !.sha = info])
StageSize == Stage("size", "pending", [nvs EXCEPT !.size = Size[info]])
StagePending == Stage("pending", "error", [nvs EXCEPT !.pending = TRUE])
StageError == Stage("error", "activate", nvs)

\* activatePythonMode; the device restarts.
Activate ==
  /\ pc = "activate"
  /\ boot' = "python" /\ Goto("off") /\ leftover' = FALSE
  /\ UNCHANGED <<image, card, nvs, info, trouble>>

\* clearCardMindUpdateRequest, which may stop at any key.
ActivateRefused ==
  /\ pc = "activate"
  /\ \E new \in {nvs, [nvs EXCEPT !.pending = FALSE], NothingStaged} :
       nvs' = new /\ leftover' = new.pending
  /\ Refused("cardmind")
  /\ UNCHANGED <<flash, card, info, trouble>>

\* The Python workspace is chosen.
EnterPython ==
  /\ pc = "cardmind"
  /\ boot' = "python" /\ Goto("off")
  /\ UNCHANGED <<image, card, nvs, info, history>>

-----------------------------------------------------------------------------
(* Reset and the supervisor.                                               *)

Reset ==
  /\ pc # "off" /\ left.resets > 0
  /\ left' = [left EXCEPT !.resets = @ - 1] /\ pc' = "off"
  /\ UNCHANGED <<flash, card, nvs, info, history>>

\* What is half written does not run: see BootIsWhole.
Start ==
  /\ pc = "off" /\ (boot = "cardmind" => image # Half)
  /\ info' = NoRelease
  /\ leftover' = (leftover \/ (boot = "cardmind" /\ nvs.pending))
  /\ Goto(IF boot = "cardmind" THEN "cardmind" ELSE "mount")
  /\ UNCHANGED <<flash, card, nvs, trouble>>

\* boot.py: whatever the supervisor does not handle selects CardMind.
Recover ==
  /\ boot' = "cardmind" /\ UNCHANGED image

MountCard ==
  /\ pc = "mount"
  /\ \/ Goto("update") /\ UNCHANGED <<flash, trouble>>
     \/ Refused("off") /\ Recover /\ trouble' = TRUE
  /\ UNCHANGED <<card, nvs, info, leftover>>

\* Mutant: the request is cleared as soon as it has been read.
Begin_Clears ==
  /\ pc = "update"
  /\ IF ~nvs.pending THEN Goto("workspace")
     ELSE Goto(IF bin # NoFile /\ Size[bin] = nvs.size THEN "write" ELSE "workspace")
  /\ nvs' = [nvs EXCEPT !.pending = FALSE]
  /\ UNCHANGED <<flash, card, info, history>>

\* _apply_pending_update compares the size before it writes anything.
Begin ==
  /\ pc = "update"
  /\ IF ~nvs.pending THEN Goto("workspace")
     ELSE Goto(IF bin # NoFile /\ Size[bin] = nvs.size THEN "write" ELSE "workspace")
  /\ UNCHANGED <<flash, card, nvs, info, history>>

Write ==
  /\ pc = "write" /\ image' = Half
  /\ Goto("written")
  /\ UNCHANGED <<boot, card, nvs, info, history>>

\* All of the file is in the partition, and its digest is compared with the
\* staged one, as is that of what can be read back.
Written ==
  /\ pc = "written" /\ image' = bin
  /\ Goto(IF bin = nvs.sha THEN "clear" ELSE "workspace")
  /\ UNCHANGED <<boot, card, nvs, info, history>>

\* _remember_update_error: the request stays and the workspace opens.
WriteFailed ==
  /\ pc = "written"
  /\ Refused("workspace") /\ trouble' = TRUE
  /\ UNCHANGED <<flash, card, nvs, info, leftover>>

ClearPending ==
  /\ pc = "clear" /\ nvs' = [nvs EXCEPT !.pending = FALSE]
  /\ Goto("forget")
  /\ UNCHANGED <<flash, card, info, history>>

Forget ==
  /\ pc = "forget" /\ nvs' = NothingStaged
  /\ Goto("remove")
  /\ UNCHANGED <<flash, card, info, history>>

Remove ==
  /\ pc = "remove"
  /\ \/ bin' = NoFile /\ Goto("select")
     \/ UNCHANGED bin /\ Refused("workspace")
  /\ UNCHANGED <<flash, tmp, nvs, info, history>>

Select ==
  /\ pc = "select"
  /\ boot' = "cardmind" /\ Goto("off")
  /\ UNCHANGED <<image, card, nvs, info, history>>

\* The user returns to CardMind, or the workspace does not open (no password,
\* no Wi-Fi) and boot.py does.
Return ==
  /\ pc = "workspace"
  /\ Recover /\ Goto("off")
  /\ UNCHANGED <<card, nvs, info, history>>

Next ==
  \/ \E v \in Version : Check(v)
  \/ Decline \/ Discard \/ Download \/ Streamed \/ StreamStopped \/ Publish
  \/ Verify \/ VerifyStopped \/ StageSha \/ StageSize \/ StagePending \/ StageError
  \/ Activate \/ ActivateRefused \/ EnterPython
  \/ Reset \/ Start \/ MountCard \/ Begin \/ Write \/ Written \/ WriteFailed
  \/ ClearPending \/ Forget \/ Remove \/ Select \/ Return

Spec == Init /\ [][Next]_vars

-----------------------------------------------------------------------------
\* The release under update.bin is whole, whenever a download was stopped.
PublishedIsWhole == bin # Cut /\ (pc = "sha" => bin = info)

\* A partition that is half written is written again from the start, however
\* often the device is reset: the supervisor stays selected, the request is
\* still there and so is its file.
HalfIsResumable ==
  image = Half /\ ~trouble =>
    boot = "python" /\ nvs.pending /\ nvs.size = Size[bin]

\* CardMind is started only from a whole image, unless the card failed the
\* supervisor halfway.
BootIsWhole == boot = "cardmind" /\ ~trouble => image # Half

\* What is installed is what the digest in the NVS was staged for, unless that
\* request was left over from an update that failed or was cut off before.
InstalledIsVerified ==
  [][image' # image /\ image' # Half => image' = nvs.sha \/ leftover]_vars

\* All of it: an update that is interrupted anywhere leaves an image that runs
\* or a supervisor that goes on, and installs what was verified.
UpdateIsSafe ==
  /\ [](TypeOK /\ PublishedIsWhole /\ HalfIsResumable /\ BootIsWhole)
  /\ InstalledIsVerified
=============================================================================
