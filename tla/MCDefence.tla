----------------------------- MODULE MCDefence -----------------------------
(***************************************************************************)
(* The lockdown manager and the intrusion detector side by side.  They     *)
(* share no state, so nothing is lost when one of them moves only while    *)
(* the other is in its initial state: the states are those of either one.  *)
(* The detector does not care about the manager's callback, so one choice  *)
(* of that is enough.                                                      *)
(***************************************************************************)
EXTENDS Lockdown, IntrusionDetector

DefenceInit == Init /\ DetectorInit

DefenceNext ==
  \/ DetectorInit /\ Next /\ UNCHANGED detectorVars
  \/ Init /\ hook = "none" /\ DetectorNext /\ UNCHANGED vars

\* With the fairness of Lockdown.
DefenceSpec ==
  /\ DefenceInit /\ [][DefenceNext]_<<vars, detectorVars>>
  /\ \A c \in Callers : WF_vars(TriggerHardHook(c))

=============================================================================
