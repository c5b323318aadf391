------------------------------ MODULE MCStores ------------------------------
(***************************************************************************)
(* The key stores and write transactions side by side.  They share no      *)
(* state, so nothing is lost when one of them moves only while the other   *)
(* is in its initial state: the states are those of either one.            *)
(***************************************************************************)
EXTENDS KeyStores, WriteTransaction

StoresInit == Init /\ TxInit

StoresNext ==
  \/ TxInit /\ Next /\ UNCHANGED allTxVars
  \/ Init /\ TxNext /\ UNCHANGED vars

StoresSpec == StoresInit /\ [][StoresNext]_<<vars, allTxVars>>

=============================================================================
