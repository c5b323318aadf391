\* Two calls, so that a replay can follow or overlap the first attempt on a
\* challenge; a second challenge to swap proofs with; both can expire.
SPECIFICATION Spec
CONSTANTS
  Challenges = {c1, c2}
  Calls = {v1, v2}
  Keys = {right, wrong}
  StoredKey = right
  TTL = 1
  MaxTime = 4
CHECK_DEADLOCK FALSE
INVARIANTS VerifiedOnce ActiveKept
PROPERTY NothingPiles
