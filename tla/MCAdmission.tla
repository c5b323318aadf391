---------------------------- MODULE MCAdmission ----------------------------
(***************************************************************************)
(* What stands between a request and the vault: the rate limiter and the   *)
(* validator, side by side.  They share no state, so nothing is lost when  *)
(* one of them moves only while the other is in its initial state: the     *)
(* states are those of either one.                                         *)
(***************************************************************************)
EXTENDS RateLimiter, MCGqlValidator

\* One of the initial states of a request.
NoRequest == pc = "compose" /\ changes = 0 /\ session = Locked /\ sent = Base(Read)

AdmissionInit == Init /\ RequestInit

AdmissionNext ==
  \/ NoRequest /\ Next /\ UNCHANGED requestVars
  \/ Init /\ RequestNext /\ UNCHANGED vars

AdmissionSpec == AdmissionInit /\ [][AdmissionNext]_<<vars, requestVars>>

=============================================================================
