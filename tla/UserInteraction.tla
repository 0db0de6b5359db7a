--------------------------- MODULE UserInteraction ---------------------------
(***************************************************************************)
(* UserInteraction: a thread asks the user a question and waits for the    *)
(* answer, which the user interface gives from a thread of its own; the    *)
(* application may abort the question and wait until its end is            *)
(* acknowledged.                                                           *)
(*                                                                         *)
(* UIQuirks names what the code does not exclude:                          *)
(*   "atOnce"       an answer comes before __waitResult resets the result  *)
(*   "lateAnswer"   a dialog is still answered after its question was      *)
(*                  aborted                                                *)
(*   "ackedAtOnce"  abort() is acknowledged before it resets the flag      *)
(***************************************************************************)
EXTENDS Integers, FiniteSets

CONSTANTS UIQuirks, MaxAborts

VARIABLES result,
          asking,     \* the thread in confirm(), alert() or confirmLicense()
          dialogs,    \* the questions the user interface still shows
          aborted, abortHandledFlag,
          aborter,    \* the thread in abort()
          aborts,
          acknowledged,   \* ghost: the application acknowledged the current abort
          meant       \* ghost: the answer the user gave to the last question

uiVars == <<result, asking, dialogs, aborted, abortHandledFlag, aborter, aborts, acknowledged, meant>>

Pending == -1
UNDEFINED == 0
OK == 1
CANCEL == 2
NotAsking == [at |-> "no", kind |-> "none"]

UIInit ==
    /\ result = UNDEFINED /\ asking = NotAsking /\ dialogs = {}
    /\ aborted = FALSE /\ abortHandledFlag = FALSE /\ aborter = "no" /\ aborts = 0 /\ acknowledged = FALSE
    /\ meant = UNDEFINED

\* confirm, alert, confirmLicense, confirmLicenseURL: without a handler the answer
\* is UI_UNDEFINED.
Ask(kind) ==
    /\ asking = NotAsking
    /\ result' = Pending
    /\ asking' = [at |-> "called", kind |-> kind]
    /\ dialogs' = dialogs \cup {kind}
    /\ meant' = UNDEFINED
    /\ UNCHANGED <<aborted, abortHandledFlag, aborter, aborts, acknowledged>>

\* __waitResult resets the result once more, now that the handler was called.
WaitResult ==
    /\ asking.at = "called"
    /\ result' = Pending
    /\ asking' = [asking EXCEPT !.at = "waiting"]
    /\ UNCHANGED <<dialogs, aborted, abortHandledFlag, aborter, aborts, meant, acknowledged>>

\* Deviation: a result below zero is passed on.
GivenRaw(r) == r

Given(r) == IF r < 0 THEN UNDEFINED ELSE r

\* Whose answer it is: the only question pending, where no dialog outlives its own.
SameQuestion(kind) == asking.kind = kind \/ "lateAnswer" \in UIQuirks

Answer(kind) ==
    /\ kind \in dialogs /\ SameQuestion(kind)
    /\ asking.at = "waiting" \/ "atOnce" \in UIQuirks
    /\ \E r \in {Pending, OK, CANCEL} :
         /\ result' = Given(r)
         /\ meant' = IF asking.kind = kind THEN Given(r) ELSE meant
    /\ dialogs' = dialogs \ {kind}
    /\ UNCHANGED <<asking, aborted, abortHandledFlag, aborter, aborts, acknowledged>>

\* The end of __waitResult: the answer stays in result.
Answered(kind) == asking.kind = kind /\ asking.at = "waiting" /\ result >= 0
EndQuestion ==
    /\ asking' = NotAsking
    /\ dialogs' = IF "lateAnswer" \in UIQuirks THEN dialogs ELSE dialogs \ {asking.kind}
    /\ UNCHANGED <<result, aborted, abortHandledFlag, aborter, aborts, meant, acknowledged>>

\* abort() returns at once where no question is pending; the test and what follows are
\* not one step.
Abort(wait) ==
    /\ aborter = "no" /\ aborts < MaxAborts /\ aborts' = aborts + 1
    /\ result = Pending
    /\ aborter' = IF wait THEN "cancelsAndWaits" ELSE "cancels"
    /\ UNCHANGED <<result, asking, dialogs, aborted, abortHandledFlag, meant, acknowledged>>

AbortCancels ==
    /\ aborter \in {"cancels", "cancelsAndWaits"}
    /\ aborted' = TRUE /\ result' = CANCEL
    /\ aborter' = IF aborter = "cancels" THEN "marks" ELSE "resets"
    /\ acknowledged' = FALSE
    /\ UNCHANGED <<asking, dialogs, abortHandledFlag, aborts, meant>>

\* Deviation: abort() resets nothing before it waits.
AbortFlagKeeps ==
    /\ aborter \in {"resets", "marks"}
    /\ abortHandledFlag' = (abortHandledFlag \/ aborter = "marks")
    /\ aborter' = IF aborter = "resets" THEN "waits" ELSE "no"
    /\ UNCHANGED <<result, asking, dialogs, aborted, aborts, meant, acknowledged>>

AbortFlag ==
    /\ aborter \in {"resets", "marks"}
    /\ abortHandledFlag' = (aborter = "marks")
    /\ aborter' = IF aborter = "resets" THEN "waits" ELSE "no"
    /\ UNCHANGED <<result, asking, dialogs, aborted, aborts, meant, acknowledged>>

AbortReturns ==
    /\ aborter = "waits" /\ abortHandledFlag
    /\ aborter' = "no"
    /\ UNCHANGED <<result, asking, dialogs, aborted, abortHandledFlag, aborts, meant, acknowledged>>

\* The application acknowledges, once what was aborted has ended.
AbortHandled ==
    /\ aborter = "waits" \/ (aborter = "resets" /\ "ackedAtOnce" \in UIQuirks)
    /\ ~abortHandledFlag /\ asking = NotAsking
    /\ abortHandledFlag' = TRUE /\ acknowledged' = TRUE
    /\ UNCHANGED <<result, asking, dialogs, aborted, aborter, aborts, meant>>
=============================================================================
