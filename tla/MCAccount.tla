----------------------------- MODULE MCAccount -----------------------------
(***************************************************************************)
(* An instance of Account for TLC, in which another program opens the      *)
(* account, with an event that has an initializer, and leaves notes, with  *)
(* events that have no reducer. The handler of "touch" publishes nothing,  *)
(* as those of core's tests do for an amount of zero.                      *)
(***************************************************************************)
EXTENDS Account, TLC

CONSTANTS x1, x2, x3

Opened == [type |-> "opened", amount |-> 0]
Noted  == [type |-> "noted", amount |-> 0]

MCForeign == {Opened, Noted}

MCLoader == withReducers(fromInitializer(Absent, "opened", [amount \in Int |-> amount]))

MCStart           == MCLoader.init
MCInitializes(e)  == e.type \in DOMAIN MCLoader.initializers
MCFirstState(e)   == MCLoader.initializers[e.type][e.amount]
MCReduces(e)      == Knows(MCLoader, e)
MCReduce(total, e) == Changed(MCLoader, total, e)

MCDispatcher ==
  handler(AccountDispatcher, "touch", {0}, [total \in Int |-> [amount \in {0} |-> Nothing]])

Touch == [path |-> "touch", amount |-> 0]

MCCommands         == AccountCommands \cup {Touch}
MCValid(c)         == accepts(MCDispatcher, c.path, c.amount)
MCDecide(total, c) == dispatch(MCDispatcher, c.path, total, c.amount)

Amounts01 == {0, 1}

ASSUME AccountAssumption == AccountDomain(0..3)

ExecutionSymmetry == Permutations(Executions)
=============================================================================
