--------------------------- MODULE AtomicRegister ---------------------------
(***************************************************************************)
(* What a caller of sd_storage.cpp is promised about one file: it is a     *)
(* register.  A request replaces the content (or removes the file) at one  *)
(* instant or not at all, and a request reported successful did take       *)
(* effect.  A request that fails, or that the power interrupts, may have   *)
(* taken effect or not, but never leaves a third content.                  *)
(***************************************************************************)
CONSTANTS Content,  \* the complete documents a caller may store
          Missing,  \* the file does not exist
          NoRequest \* no operation is in progress

VARIABLES register, \* the content the next reader is given
          request,  \* the content asked for, Missing for a removal
          reported  \* what the caller of the last operation was told

rvars == <<register, request, reported>>

RegisterInit ==
  /\ register = Missing
  /\ request = NoRequest
  /\ reported = "none"

Ask(goal) ==
  /\ request = NoRequest
  /\ request' = goal
  /\ reported' = "none"
  /\ UNCHANGED register

TakeEffect ==
  /\ request # NoRequest
  /\ register' = request
  /\ UNCHANGED <<request, reported>>

Succeed ==
  /\ request # NoRequest
  /\ register = request
  /\ request' = NoRequest
  /\ reported' = "ok"
  /\ UNCHANGED register

\* The operation returned an error, or the power went; nobody is told "ok".
GiveUp ==
  /\ request # NoRequest
  /\ request' = NoRequest
  /\ reported' \in {"error", "none"}
  /\ UNCHANGED register

\* A power loss while no operation runs forgets only what was reported.
Forget ==
  /\ reported' = "none"
  /\ UNCHANGED <<register, request>>

RegisterNext ==
  \/ \E goal \in Content \cup {Missing} : Ask(goal)
  \/ TakeEffect
  \/ Succeed
  \/ GiveUp
  \/ Forget

RegisterSpec == RegisterInit /\ [][RegisterNext]_rvars
=============================================================================
