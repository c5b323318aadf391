\* One transaction of two operations.
SPECIFICATION TxSpec
CONSTANTS
  Txs = {t1}
  Ids = {i1, i2}
  MaxStaged = 2
CHECK_DEADLOCK FALSE
INVARIANT StoreUnchangedOnError
