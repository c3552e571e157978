---------------------------- MODULE NatsReceipts ----------------------------
(***************************************************************************)
(* The receipts sample as samples/receipts/nats/server.ts serves it: the   *)
(* commands of Receipts behind a NatsService.                              *)
(***************************************************************************)
EXTENDS NatsEntityService

CONSTANTS Names, Prices     \* as in Receipts

R == INSTANCE Receipts

ASSUME PricesAssumption == Prices \subseteq Nat

\* The domain of the entity service is the sample's, as far as the given receipts
\* and events go.
ReceiptDomain(receipts, events) ==
  /\ StartState = R!ReceiptLoader.init /\ Absent \notin receipts
  /\ \A e \in events :
       Reduces(e) /\ \A receipt \in receipts : Reduce(receipt, e) = R!ReceiptReduce(receipt, e)
  /\ \A c \in Commands : Valid(c) =>
       /\ R!ReceiptValid(c)
       /\ \A receipt \in receipts : Decide(receipt, c) = R!ReceiptDecide(receipt, c)

\* "Items can only be added/removed when status is open": one NatsService keeps to
\* it although its handlers do not guard their publishes (Receipts).
ClosedIsFinal == R!ClosedIsFinal

\* The final total of a receipt is the sum of the items on it (Receipts).
FinalTotalIsSum == R!FinalTotalIsSum

\* The entity a command is answered with has its event in it (EntityService).
ReadsItsWrite == E!ReadsItsWrite
=============================================================================
