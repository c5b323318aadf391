----------------------------- MODULE BoundedLog -----------------------------
(***************************************************************************)
(* What the audit log promises (AuditLog of engine/security/audit.go): a   *)
(* first-in first-out log of at most Capacity events that forgets only its *)
(* oldest event, and only to make room.                                    *)
(***************************************************************************)
EXTENDS Naturals, Sequences

CONSTANTS Events, Capacity

VARIABLES
  log,      \* what is kept, oldest first
  drained   \* what Drain has handed out, oldest first

Init == log = <<>> /\ drained = <<>>

Add(e) ==
  /\ log' = Append(IF Len(log) < Capacity THEN log ELSE Tail(log), e)
  /\ UNCHANGED drained

Drain ==
  /\ drained' = drained \o log
  /\ log' = <<>>

Next == Drain \/ \E e \in Events : Add(e)

Spec == Init /\ [][Next]_<<log, drained>>

=============================================================================
