------------------------------ MODULE Account ------------------------------
(***************************************************************************)
(* The sample of effects/src/service/sample/receipts.ts, a running total   *)
(* that deductions must not take below zero, as a domain for EntityService *)
(* described with the builders of Descriptions.                            *)
(***************************************************************************)
EXTENDS EntityService, Descriptions

CONSTANT Amounts     \* amounts a command may name, zero included

ASSUME AmountsAssumption == Amounts \subseteq Int

AccountCommands == [path : {"add", "deduct", "audit"}, amount : Amounts]

\* The schemas of Add and Deduct ask for an amount of at least 1.
Amount == {a \in Amounts : a >= 1}

-----------------------------------------------------------------------------
\* The loader, and the same reducers on another one.
withReducers(loader) ==
  reducer(
    reducer(loader, "added", [total \in Int |-> [amount \in Int |-> total + amount]]),
    "deducted", [total \in Int |-> [amount \in Int |-> total - amount]])

AccountLoader == withReducers(fromInitFunction(0))

Knows(loader, e) == e.type \in DOMAIN loader.reducers

Changed(loader, total, e) == loader.reducers[e.type][total][e.amount]

-----------------------------------------------------------------------------
addHandler == [total \in Int |-> [amount \in Amount |-> [type |-> "added", amount |-> amount]]]

\* Mutant of deductHandler: the balance is not looked at.
deductHandlerUnchecked ==
  [total \in Int |-> [amount \in Amount |-> [type |-> "deducted", amount |-> amount]]]

\* InsufficientBalanceError is a rejection.
deductHandler ==
  [total \in Int |-> [amount \in Amount |->
     IF total - amount < 0 THEN Rejected ELSE [type |-> "deducted", amount |-> amount]]]

\* "audit" has no handler.
AccountDispatcher ==
  handler(handler(create, "add", Amount, addHandler), "deduct", Amount, deductHandler)

AccountValid(c) == accepts(AccountDispatcher, c.path, c.amount)

AccountDecide(total, c) == dispatch(AccountDispatcher, c.path, total, c.amount)

\* deductHandler passes entity.revision, addHandler does not.
AccountGuards(c) == c.path = "deduct"

\* The domain of the EntityService is the sample's, as far as an account with a
\* total among Totals goes. Other programs may open the account, and publish events
\* the sample does not know; handlers may be added that publish nothing.
AccountEvents == [type : {"added", "deducted"}, amount : Amount]

AccountDomain(Totals) ==
  /\ Absent \notin Totals /\ Start \in Totals \cup {Absent}
  /\ \A e \in Foreign : /\ ~Reduces(e) /\ ~Knows(AccountLoader, e)
                        /\ Initializes(e) => FirstState(e) \in Totals
  /\ \A e \in AccountEvents :
       /\ ~Initializes(e)
       /\ Reduces(e) /\ \A total \in Totals : Reduce(total, e) = Changed(AccountLoader, total, e)
  /\ \A c \in Commands : Valid(c) =>
       \/ \A total \in Totals : Decide(total, c) = Nothing
       \/ /\ AccountValid(c) /\ (Guards(c) <=> AccountGuards(c))
          /\ \A total \in Totals : Decide(total, c) = AccountDecide(total, c)

\* The total, which the sample's schema asks to be at least zero, never drops
\* below it at any point of the history: additions are not guarded, but a
\* deduction is recorded only right after the history it was decided on.
BalanceNeverNegative ==
  \A n \in 0..Len(log) :
    LET total == State(SubSeq(log, 1, n)) IN total = Absent \/ total >= 0
=============================================================================
