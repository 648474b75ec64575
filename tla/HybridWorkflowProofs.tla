------------------------ MODULE HybridWorkflowProofs ------------------------
(***************************************************************************)
(* HybridWorkflow for any number of attempts: its types, and what the      *)
(* outcome says of the effects.                                            *)
(***************************************************************************)
EXTENDS HybridWorkflow, TLAPS

\* The order of the activities, spelled out for the provers.
LEMMA Successors ==
  /\ After["action1"] = "action2" /\ After["action2"] = "action3"
  /\ After["action3"] = "WAITING"
  /\ After["reaction1"] = "reaction2" /\ After["reaction2"] = "FAILED"
  /\ Undoes["reaction1"] = "action1" /\ Undoes["reaction2"] = "action2"
BY DEF After, Undoes

-----------------------------------------------------------------------------
Stages == Activities \cup Ended \cup {"WAITING"}

LEMMA WorkflowTypeNext == WorkflowTypeOK /\ [WorkflowNext]_workflowVars => WorkflowTypeOK'
<1> SUFFICES ASSUME WorkflowTypeOK, [WorkflowNext]_workflowVars PROVE WorkflowTypeOK'
  OBVIOUS
<1> USE WorkflowAssumption
<1>1. stage' \in Stages /\ attempt' \in 1..MaxAttempts
  <2> USE DEF WorkflowTypeOK, Stages, Activities, Actions, Reactions, Ended, Awaits, Proceed
  <2>1. ASSUME NEW a \in Actions, ActionDone(a) \/ ActionFails(a)
        PROVE  stage' \in Stages /\ attempt' \in 1..MaxAttempts
    BY <2>1, Successors DEF ActionDone, ActionFails, Compensate
  <2>2. ASSUME NEW a \in Actions, Signal(a) \/ Again(a) \/ TakesEffectLate(a)
        PROVE  stage' \in Stages /\ attempt' \in 1..MaxAttempts
    BY <2>2 DEF Signal, Again, TakesEffectLate
  <2>3. ASSUME NEW r \in Reactions, React(r) \/ ReactAgain(r)
        PROVE  stage' \in Stages /\ attempt' \in 1..MaxAttempts
    BY <2>3, Successors DEF React, ReactAgain
  <2>4. CASE Confirmed \/ Overdue \/ RequestCancel \/ CancelTakes
    BY <2>4 DEF Confirmed, Overdue, RequestCancel, CancelTakes
  <2>5. CASE UNCHANGED workflowVars
    BY <2>5 DEF workflowVars
  <2> QED
    BY <2>1, <2>2, <2>3, <2>4, <2>5 DEF WorkflowNext
<1>2. /\ answered' \subseteq Actions /\ progress' \subseteq Actions
      /\ effects' \subseteq Actions /\ lateOnes' \subseteq Actions
      /\ excused' \subseteq Actions
  BY Successors
  DEF WorkflowTypeOK, WorkflowNext, workflowVars, Actions, Reactions, Signal, ActionDone,
      ActionFails, Again, TakesEffectLate, React, ReactAgain, Confirmed, Overdue,
      RequestCancel, CancelTakes
<1>3. cancelled' \in BOOLEAN
  BY Zenon
  DEF WorkflowTypeOK, WorkflowNext, workflowVars, Signal, ActionDone,
      ActionFails, Again, TakesEffectLate, React, ReactAgain, Confirmed, Overdue,
      RequestCancel, CancelTakes
<1> QED
  BY <1>1, <1>2, <1>3, Zenon DEF WorkflowTypeOK, Stages

\* The variables of HybridWorkflow keep their types.
THEOREM WorkflowTypeCorrect == WorkflowSpec => []WorkflowTypeOK
<1>1. WorkflowInit => WorkflowTypeOK
  <2>1. WorkflowInit => stage \in Stages /\ attempt \in 1..MaxAttempts
    BY WorkflowAssumption DEF WorkflowInit, Stages, Activities, Actions
  <2>2. WorkflowInit => /\ answered \subseteq Actions /\ progress \subseteq Actions
                        /\ effects \subseteq Actions /\ lateOnes \subseteq Actions
                        /\ excused \subseteq Actions
    BY DEF WorkflowInit
  <2>3. WorkflowInit => cancelled \in BOOLEAN
    BY Zenon DEF WorkflowInit
  <2> QED
    BY <2>1, <2>2, <2>3, Zenon DEF WorkflowTypeOK, Stages
<1> QED
  BY <1>1, WorkflowTypeNext, PTL DEF WorkflowSpec

-----------------------------------------------------------------------------
(* How far the effects have come, stage by stage.  An action that was      *)
(* passed is in effect until the catch block runs; a compensation that was *)
(* passed leaves its action in effect only if it is excused.               *)

Reached ==
  /\ stage \in {"action2", "action3", "WAITING", "SUCCESS"} => "action1" \in effects
  /\ stage \in {"action3", "WAITING", "SUCCESS"} => "action2" \in effects
  /\ stage \in {"WAITING", "SUCCESS"} => "action3" \in effects

Undone ==
  ~cancelled =>
    /\ stage \in {"reaction2", "FAILED"} => {"action1"} \cap effects \subseteq excused
    /\ stage = "FAILED" => {"action2"} \cap effects \subseteq excused

LEMMA StagesNext ==
  WorkflowTypeOK /\ Reached /\ Undone /\ [WorkflowNext]_workflowVars => (Reached /\ Undone)'
<1> SUFFICES ASSUME WorkflowTypeOK, Reached, Undone, [WorkflowNext]_workflowVars
             PROVE  (Reached /\ Undone)'
  OBVIOUS
<1> USE DEF Reached, Undone, Actions, Reactions, Awaits, Proceed
<1>1. ASSUME NEW a \in Actions, Signal(a) PROVE (Reached /\ Undone)'
  BY <1>1 DEF Signal
<1>2. ASSUME NEW a \in Actions, ActionDone(a) PROVE (Reached /\ Undone)'
  BY <1>2, Successors DEF ActionDone
<1>3. ASSUME NEW a \in Actions, ActionFails(a) PROVE (Reached /\ Undone)'
  BY <1>3 DEF ActionFails, Compensate
<1>4. ASSUME NEW a \in Actions, Again(a) PROVE (Reached /\ Undone)'
  BY <1>4 DEF Again
<1>5. ASSUME NEW a \in Actions, TakesEffectLate(a) PROVE (Reached /\ Undone)'
  BY <1>5 DEF TakesEffectLate
<1>6. ASSUME NEW r \in Reactions, React(r) PROVE (Reached /\ Undone)'
  BY <1>6, Successors DEF React
<1>7. ASSUME NEW r \in Reactions, ReactAgain(r) PROVE (Reached /\ Undone)'
  BY <1>7, Successors DEF ReactAgain
<1>8. CASE Confirmed \/ Overdue \/ RequestCancel
  BY <1>8 DEF Confirmed, Overdue, RequestCancel, Ended
<1>9. CASE CancelTakes
  BY <1>9 DEF CancelTakes, Ended
<1>10. CASE UNCHANGED workflowVars
  BY <1>10 DEF workflowVars
<1> QED
  BY <1>1, <1>2, <1>3, <1>4, <1>5, <1>6, <1>7, <1>8, <1>9, <1>10 DEF WorkflowNext

\* SUCCESS means that the three actions are in effect, FAILED that the first two
\* are not, whatever was retried, timed out or took effect late.
THEOREM OutcomeMatchesEffectsCorrect == WorkflowSpec => []OutcomeMatchesEffects
<1>1. WorkflowInit => Reached /\ Undone
  BY DEF WorkflowInit, Reached, Undone
<1>2. WorkflowTypeOK /\ Reached /\ Undone => OutcomeMatchesEffects
  BY DEF WorkflowTypeOK, Reached, Undone, OutcomeMatchesEffects, Actions
<1> QED
  BY <1>1, <1>2, StagesNext, WorkflowTypeCorrect, PTL DEF WorkflowSpec
=============================================================================
