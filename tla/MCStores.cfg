\* KeyStores: two goroutines meet in every pair of operations on two handles and
\* two tokens; two secrets tell a mixed-up buffer from a right one.
\* WriteTransaction: two transactions that touch the same two blocks, and one
\* block twice.
SPECIFICATION StoresSpec

CONSTANTS
  Goroutines = {g1, g2}
  Handles = {h1, h2}
  Tokens = {t1, t2}
  Keys = {k1, k2}
  Buffers = {b1, b2, b3, b4}
  Fresh = fresh
  Torn = torn
  Zero = zero
  Txs = {x1, x2}
  Ids = {i1, i2}
  MaxStaged = 3

INVARIANTS
  NoResidue
  SliceShowsOwnKey
  SecretTakenOnce
  PlayedInOrder
  CommitIsDurable

\* Buffers run out, and transactions end.
CHECK_DEADLOCK FALSE
