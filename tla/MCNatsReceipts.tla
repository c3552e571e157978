--------------------------- MODULE MCNatsReceipts ---------------------------
(***************************************************************************)
(* NatsReceipts for TLC, over a MemoryStore that nobody else writes to.    *)
(***************************************************************************)
EXTENDS NatsReceipts, TLC

CONSTANTS t1, t2, t3, t4, tea, pie

Malformed == [path |-> "add-item", name |-> tea, price |-> -1]

\* Each kind of item has its price.
Price == (tea :> 1) @@ (pie :> 2)

MCCommands ==
  {c \in R!AddItem : c.price = Price[c.name]}
    \cup {c \in R!RemoveItem : c.name = tea} \cup R!Finalize \cup R!VoidReceipt \cup {Malformed}

MCStartState   == R!ReceiptLoader.init
MCReduces(e)   == R!ReceiptReduces(e)
MCReduce(s, e) == R!ReceiptReduce(s, e)
MCValid(c)     == R!ReceiptValid(c)
MCDecide(s, c) == R!ReceiptDecide(s, c)
Never(e)       == FALSE
NoCommand(c)   == FALSE
NoFirst(e)     == Absent

TaskSymmetry == Permutations(Tasks)

\* The substitutions above, tried on some receipts and events.
ASSUME ReceiptAssumption ==
  ReceiptDomain(
    {[R!NewReceipt EXCEPT !.items = items] :
       items \in {<<>>, <<[name |-> tea, price |-> 1], [name |-> pie, price |-> 2]>>}},
    R!ItemAdded \cup R!ItemRemoved)
=============================================================================
