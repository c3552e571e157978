---------------------------- MODULE MCReceipts ----------------------------
(***************************************************************************)
(* Receipts behind an EntityService, for TLC: a receipt of two kinds of    *)
(* item, on which only this service's executions act, and two commands     *)
(* that the service has to turn down: a negative price and a path without  *)
(* a handler.                                                              *)
(***************************************************************************)
EXTENDS EntityService, TLC

CONSTANTS x1, x2, x3, x4, x5, tea, pie, Names, Prices

R == INSTANCE Receipts

Malformed == [path |-> "add-item", name |-> tea, price |-> -1]
Unheard   == [path |-> "refund"]

MCCommands ==
  R!AddItem \cup R!RemoveItem \cup R!Finalize \cup R!VoidReceipt \cup {Malformed, Unheard}

MCStart         == R!ReceiptLoader.init
MCReduces(e)    == R!ReceiptReduces(e)
MCReduce(s, e)  == R!ReceiptReduce(s, e)
MCValid(c)      == R!ReceiptValid(c)
MCDecide(s, c)  == R!ReceiptDecide(s, c)
Never(e)        == FALSE
NoCommand(c)    == FALSE
NoFirst(e)      == Absent

ExecutionSymmetry == Permutations(Executions)

\* "Items can only be added/removed when status is open" (Receipts).
ClosedIsFinal == R!ClosedIsFinal
=============================================================================
