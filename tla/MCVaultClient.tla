---------------------------- MODULE MCVaultClient ----------------------------
(* Two overlapping clients of one vault.                                   *)
EXTENDS VaultClient, TLC

CONSTANTS p1, p2

MCClients == {p1, p2}

\* The clients are interchangeable, and no liveness is checked.
MCSymmetry == Permutations(MCClients)

=============================================================================
