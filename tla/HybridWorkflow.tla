--------------------------- MODULE HybridWorkflow ---------------------------
(***************************************************************************)
(* hybridWorkflow(), a Temporal workflow: three actions in order, two       *)
(* compensations when one of them fails, then signals from outside.        *)
(*                                                                         *)
(* An activity is attempted again, without limit, when it throws or does   *)
(* not answer within startToCloseTimeout; an attempt that timed out may    *)
(* still take effect.  It fails at once with an error that must not be     *)
(* retried, and when the workflow is cancelled.  What an action does in    *)
(* the outside world is its effect, which its compensation undoes;         *)
(* activities.ts only has placeholders for both.                           *)
(***************************************************************************)
EXTENDS Naturals

CONSTANT MaxAttempts  \* bound: attempts of one activity

ASSUME WorkflowAssumption == MaxAttempts \in Nat \ {0}

VARIABLES
  stage,      \* the await the workflow is at, or how it ended
  attempt,    \* attempts of the activity it awaits
  answered,   \* actions that answered ok
  progress,   \* action1Done, action2Done and action3Done
  cancelled,  \* a cancellation was requested
  effects,    \* actions that are in effect outside
  lateOnes,   \* actions an attempt of which may still take effect
  excused     \* history: actions whose compensation was refused or came too early

workflowVars ==
  <<stage, attempt, answered, progress, cancelled, effects, lateOnes, excused>>

Actions == {"action1", "action2", "action3"}
Reactions == {"reaction1", "reaction2"}
Undoes == [reaction1 |-> "action1", reaction2 |-> "action2"]
Activities == Actions \cup Reactions
After == [action1 |-> "action2", action2 |-> "action3", action3 |-> "WAITING",
          reaction1 |-> "reaction2", reaction2 |-> "FAILED"]
Ended == {"SUCCESS", "FAILED", "CANCELLED"}

WorkflowInit ==
  /\ stage = "action1" /\ attempt = 1
  /\ answered = {} /\ progress = {}
  /\ cancelled = FALSE
  /\ effects = {} /\ lateOnes = {} /\ excused = {}

Awaits(a) == stage = a /\ ~cancelled
Proceed(next) == stage' = next /\ attempt' = 1

-----------------------------------------------------------------------------
(* The signal handler.                                                     *)

Signal(a) ==
  /\ stage \notin Ended
  /\ progress' = progress \cup {a}
  /\ UNCHANGED <<stage, attempt, answered, cancelled, effects, lateOnes, excused>>

-----------------------------------------------------------------------------
(* The activities.                                                         *)

\* An action answers ok, and its effect is there.
ActionDone(a) ==
  /\ Awaits(a)
  /\ effects' = effects \cup {a}
  /\ answered' = answered \cup {a}
  /\ Proceed(After[a])
  /\ UNCHANGED <<progress, cancelled, lateOnes, excused>>

\* Mutant of Compensate: only what has answered is undone.
CompensateAnswered ==
  Proceed(IF "action1" \in answered THEN "reaction1"
          ELSE IF "action2" \in answered THEN "reaction2" ELSE "FAILED")

\* The catch block runs both compensations, whichever action failed.
Compensate == Proceed("reaction1")

\* An action answers that it is not ok, or throws what must not be retried.
ActionFails(a) ==
  /\ Awaits(a)
  /\ Compensate
  /\ UNCHANGED <<answered, progress, cancelled, effects, lateOnes, excused>>

\* The attempt throws, with or without its effect, or does not answer in time.
Again(a) ==
  /\ Awaits(a) /\ attempt < MaxAttempts
  /\ attempt' = attempt + 1
  /\ \/ /\ effects' \in {effects, effects \cup {a}}
        /\ UNCHANGED lateOnes
     \/ lateOnes' = lateOnes \cup {a} /\ UNCHANGED effects
  /\ UNCHANGED <<stage, answered, progress, cancelled, excused>>

\* An attempt that timed out takes effect after all.
TakesEffectLate(a) ==
  /\ a \in lateOnes
  /\ lateOnes' = lateOnes \ {a}
  /\ effects' = effects \cup {a}
  /\ excused' = IF \/ stage = "FAILED" \/ (a = "action1" /\ stage = "reaction2")
                  THEN excused \cup {a} ELSE excused
  /\ UNCHANGED <<stage, attempt, answered, progress, cancelled>>

\* A compensation: what it answers is not looked at, what it throws is dropped.
React(r) ==
  /\ Awaits(r)
  /\ Proceed(After[r])
  /\ \/ effects' = effects \ {Undoes[r]} /\ UNCHANGED excused
     \/ excused' = excused \cup {Undoes[r]} /\ UNCHANGED effects
  /\ UNCHANGED <<answered, progress, cancelled, lateOnes>>

ReactAgain(r) ==
  /\ Awaits(r) /\ attempt < MaxAttempts
  /\ attempt' = attempt + 1
  /\ effects' \in {effects, effects \ {Undoes[r]}}
  /\ UNCHANGED <<stage, answered, progress, cancelled, lateOnes, excused>>

-----------------------------------------------------------------------------
(* The end.                                                                *)

\* condition() holds.
Confirmed ==
  /\ stage = "WAITING" /\ ~cancelled
  /\ progress = Actions
  /\ Proceed("SUCCESS")
  /\ UNCHANGED <<answered, progress, cancelled, effects, lateOnes, excused>>

\* Ten minutes have passed: condition() answers false, and is not looked at.
Overdue ==
  /\ stage = "WAITING" /\ ~cancelled
  /\ Proceed("SUCCESS")
  /\ UNCHANGED <<answered, progress, cancelled, effects, lateOnes, excused>>

RequestCancel ==
  /\ stage \notin Ended /\ ~cancelled
  /\ cancelled' = TRUE
  /\ UNCHANGED <<stage, attempt, answered, progress, effects, lateOnes, excused>>

\* What is awaited rejects: an action leads to the catch block, whose activities
\* reject in turn; condition() ends the workflow.  The attempt may go on outside.
CancelTakes ==
  /\ cancelled /\ stage \notin Ended
  /\ Proceed(IF stage = "WAITING" THEN "CANCELLED" ELSE "FAILED")
  /\ lateOnes' \in {lateOnes, lateOnes \cup ({stage} \cap Actions)}
  /\ UNCHANGED <<answered, progress, cancelled, effects, excused>>

WorkflowNext ==
  \/ \E a \in Actions : Signal(a) \/ ActionDone(a) \/ ActionFails(a)
                                \/ Again(a) \/ TakesEffectLate(a)
  \/ \E r \in Reactions : React(r) \/ ReactAgain(r)
  \/ Confirmed \/ Overdue \/ RequestCancel \/ CancelTakes

WorkflowSpec == WorkflowInit /\ [][WorkflowNext]_workflowVars

-----------------------------------------------------------------------------
(* Properties.                                                             *)

\* Every variable keeps its type.
WorkflowTypeOK ==
  /\ stage \in Activities \cup Ended \cup {"WAITING"}
  /\ attempt \in 1..MaxAttempts
  /\ answered \subseteq Actions /\ progress \subseteq Actions
  /\ effects \subseteq Actions /\ lateOnes \subseteq Actions
  /\ excused \subseteq Actions
  /\ cancelled \in BOOLEAN

\* SUCCESS means that the three actions are in effect.  FAILED, without a
\* cancellation, means that the first two are not, whichever failed and whatever
\* their attempts did without saying so, unless a compensation was refused or an
\* attempt took effect after it.  (The third has no compensation.)
OutcomeMatchesEffects ==
  /\ stage = "SUCCESS" => effects = Actions
  /\ stage = "FAILED" /\ ~cancelled =>
       effects \cap {"action1", "action2"} \subseteq excused
=============================================================================
