------------------------------ MODULE Receipts ------------------------------
(***************************************************************************)
(* The sample of samples/receipts/core, a receipt that is filled, then     *)
(* closed or voided, as a domain for EntityService described with the      *)
(* builders of Descriptions. No handler passes expectedRevision to publish.*)
(* A price stands for price times quantity.                                *)
(***************************************************************************)
EXTENDS Naturals, Sequences, Descriptions, SequencesExt

CONSTANTS
  Names,     \* names of items
  Prices,    \* line totals of items; the schema's minimum is 0
  Rejected   \* a handler's decision to throw, as in EntityService

VARIABLE log \* the recorded events of the receipt, as in EntityService

\* The schemas of the commands and of the events.
AddItem     == [path : {"add-item"}, name : Names, price : Prices]
RemoveItem  == [path : {"remove-item"}, name : Names]
Finalize    == [path : {"finalize"}]
VoidReceipt == [path : {"void-receipt"}]

ItemAdded        == [type : {"item-added"}, name : Names, price : Prices]
ItemRemoved      == [type : {"item-removed"}, name : Names, refundAmount : Prices]
ReceiptFinalized == [type : {"receipt-finalized"}, finalTotal : Nat, itemCount : Nat]
ReceiptVoided    == [type : {"receipt-voided"}, voidedTotal : Nat]

ReceiptItem == [name : Names, price : Prices]

Receipt == [status : {"open", "closed", "voided"}, items : Seq(ReceiptItem), total : Nat]

\* Receipt.create
NewReceipt == [status |-> "open", items |-> <<>>, total |-> 0]

calculateTotal(items) == FoldLeft(LAMBDA total, item : total + item.price, 0, items)

\* items.filter(item => item.name !== name)
Without(items, name) ==
  FoldLeft(LAMBDA kept, item : IF item.name = name THEN kept ELSE Append(kept, item), <<>>, items)

-----------------------------------------------------------------------------
(***************************************************************************)
(* The command handlers.                                                   *)
(***************************************************************************)

\* ensureReceiptIsOpen throws for any status but "open".
IfOpen(receipt, event) == IF receipt.status = "open" THEN event ELSE Rejected

\* Mutant of addItemHandler: the status of the receipt is not looked at.
addItemAnyway(receipt, c) ==
  [type |-> "item-added", name |-> c.name, price |-> c.price]

addItemHandler(receipt, c) ==
  IfOpen(receipt, [type |-> "item-added", name |-> c.name, price |-> c.price])

\* The refund is the price of the first item of the name.
removeItemHandler(receipt, c) ==
  LET first == SelectInSeq(receipt.items, LAMBDA item : item.name = c.name)
  IN  IfOpen(receipt, IF first = 0 THEN Rejected
                      ELSE [type |-> "item-removed", name |-> c.name,
                            refundAmount |-> receipt.items[first].price])

finalizeHandler(receipt) ==
  IfOpen(receipt, IF receipt.items = <<>> THEN Rejected
                  ELSE [type |-> "receipt-finalized", finalTotal |-> receipt.total,
                        itemCount |-> Len(receipt.items)])

\* A closed receipt may still be voided.
voidReceiptHandler(receipt) ==
  IF receipt.status = "voided" THEN Rejected
  ELSE [type |-> "receipt-voided", voidedTotal |-> receipt.total]

ReceiptDispatcher ==
  LET adding   == handler(create, "add-item", AddItem,
                    [receipt \in Receipt |-> [c \in AddItem |-> addItemHandler(receipt, c)]])
      removing == handler(adding, "remove-item", RemoveItem,
                    [receipt \in Receipt |-> [c \in RemoveItem |-> removeItemHandler(receipt, c)]])
      closing  == handler(removing, "finalize", Finalize,
                    [receipt \in Receipt |-> [c \in Finalize |-> finalizeHandler(receipt)]])
  IN  handler(closing, "void-receipt", VoidReceipt,
        [receipt \in Receipt |-> [c \in VoidReceipt |-> voidReceiptHandler(receipt)]])

ReceiptValid(c) == accepts(ReceiptDispatcher, c.path, c)

ReceiptDecide(receipt, c) == dispatch(ReceiptDispatcher, c.path, receipt, c)

-----------------------------------------------------------------------------
(***************************************************************************)
(* The reducers.                                                           *)
(***************************************************************************)
itemAddedReducer(receipt, e) ==
  LET items == Append(receipt.items, [name |-> e.name, price |-> e.price])
  IN  [receipt EXCEPT !.items = items, !.total = calculateTotal(items)]

\* Mutant of itemRemovedReducer: the total is left as it was.
itemRemovedOnly(receipt, e) ==
  [receipt EXCEPT !.items = Without(@, e.name)]

\* Every item of the name goes.
itemRemovedReducer(receipt, e) ==
  LET items == Without(receipt.items, e.name)
  IN  [receipt EXCEPT !.items = items, !.total = calculateTotal(items)]

receiptFinalizedReducer(receipt) == [receipt EXCEPT !.status = "closed"]

receiptVoidedReducer(receipt) == [receipt EXCEPT !.status = "voided"]

ReceiptLoader ==
  LET adding   == reducer(fromInitFunction(NewReceipt), "item-added",
                    [receipt \in Receipt |-> [e \in ItemAdded |-> itemAddedReducer(receipt, e)]])
      removing == reducer(adding, "item-removed",
                    [receipt \in Receipt |-> [e \in ItemRemoved |-> itemRemovedReducer(receipt, e)]])
      closing  == reducer(removing, "receipt-finalized",
                    [receipt \in Receipt |-> [e \in ReceiptFinalized |-> receiptFinalizedReducer(receipt)]])
  IN  reducer(closing, "receipt-voided",
        [receipt \in Receipt |-> [e \in ReceiptVoided |-> receiptVoidedReducer(receipt)]])

ReceiptReduces(e) == e.type \in eventsOf(ReceiptLoader)

ReceiptReduce(receipt, e) == ReceiptLoader.reducers[e.type][receipt][e]

-----------------------------------------------------------------------------
Types(is) == {i \in DOMAIN log : log[i].event.type \in is}

\* "Items can only be added/removed when status is open" (the sample's README):
\* no item event follows the end of the receipt, nothing at all a void one. The
\* handlers see to it only when each execution ends before the next begins.
ClosedIsFinal ==
  /\ \A i \in Types({"receipt-finalized", "receipt-voided"}) :
       \A j \in Types({"item-added", "item-removed"}) : j < i
  /\ \A i \in Types({"receipt-voided"}) : i = Len(log)

\* Item j is still on the receipt at event i: its name was not removed between.
Remains(j, i) ==
  \A k \in Types({"item-removed"}) :
    j < k /\ k < i => log[k].event.name # log[j].event.name

\* The final total of a receipt is the sum of the items on it when it closed,
\* computed here from the events and not by the reducers, and there is one.
FinalTotalIsSum ==
  \A i \in Types({"receipt-finalized"}) :
    LET onIt == {j \in Types({"item-added"}) : j < i /\ Remains(j, i)}
    IN  /\ onIt # {}
        /\ log[i].event.finalTotal = MapThenSumSet(LAMBDA j : log[j].event.price, onIt)
=============================================================================
