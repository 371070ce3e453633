------------------------------ MODULE ChatLog ------------------------------
(***************************************************************************)
(* What project_chat_storage.cpp promises about one chat: an append adds   *)
(* all of its messages at the end or none of them, a clear removes all or  *)
(* none, nothing else changes the log, and a request reported successful   *)
(* took effect exactly once.  A request that fails may have taken effect:  *)
(* the caller who repeats it may store a message twice.                    *)
(***************************************************************************)
EXTENDS Sequences

CONSTANTS Request,  \* records [kind, batch]; a batch is a sequence of messages
          NoRequest \* no operation is in progress

VARIABLES log,      \* the messages of the chat
          request,  \* the operation in progress
          done,     \* it has taken effect
          reported  \* what the caller of the last operation was told

lvars == <<log, request, done, reported>>

Changes(r) == r.kind \in {"append", "clear"}

Applied(r) == IF r.kind = "append" THEN log \o r.batch ELSE << >>

LogInit ==
  /\ log = << >>
  /\ request = NoRequest
  /\ done = FALSE
  /\ reported = "none"

Ask(r) ==
  /\ request = NoRequest
  /\ request' = r
  /\ done' = FALSE
  /\ reported' = "none"
  /\ UNCHANGED log

TakeEffect ==
  /\ request # NoRequest /\ Changes(request) /\ ~done
  /\ log' = Applied(request)
  /\ done' = TRUE
  /\ UNCHANGED <<request, reported>>

Succeed ==
  /\ request # NoRequest
  /\ Changes(request) => done
  /\ request' = NoRequest
  /\ done' = FALSE
  /\ reported' = "ok"
  /\ UNCHANGED log

\* An error, or a reset: nobody is told "ok".
GiveUp ==
  /\ request # NoRequest
  /\ request' = NoRequest
  /\ done' = FALSE
  /\ reported' \in {"error", "none"}
  /\ \/ UNCHANGED log
     \/ Changes(request) /\ ~done /\ log' = Applied(request)

LogNext ==
  \/ \E r \in Request : Ask(r)
  \/ TakeEffect
  \/ Succeed
  \/ GiveUp

LogSpec == LogInit /\ [][LogNext]_lvars
=============================================================================
