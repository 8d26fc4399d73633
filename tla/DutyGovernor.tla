---------------------------- MODULE DutyGovernor ----------------------------
(***************************************************************************)
(* What the adaptive controller promises, without its goroutines, errors,  *)
(* averages and thresholds: a planned duty cycle is moved in small steps   *)
(* or dropped to the fallback, and the duty cycle in force is the plan     *)
(* unless the governor is held, when it is zero.  Letting go restores the  *)
(* plan as it then stands.                                                 *)
(***************************************************************************)
EXTENDS Integers

CONSTANTS Lowest, Highest,      \* bounds of the plan
          Up, Down,             \* largest moves of one replanning
          Safe                  \* the fallback duty cycle

VARIABLES plan, held, duty

govVars == <<plan, held, duty>>

Init ==
  /\ plan = Safe
  /\ held = FALSE
  /\ duty = plan

Replan ==
  /\ plan' \in Lowest .. Highest
  /\ plan' = Safe \/ (plan - Down <= plan' /\ plan' <= plan + Up)
  /\ held' = held
  /\ duty' = IF held THEN 0 ELSE plan'

Hold ==
  /\ held' = TRUE
  /\ duty' = 0
  /\ UNCHANGED plan

Release ==
  /\ held
  /\ held' = FALSE
  /\ duty' = plan
  /\ UNCHANGED plan

Next == Replan \/ Hold \/ Release

Spec == Init /\ [][Next]_govVars
=============================================================================
