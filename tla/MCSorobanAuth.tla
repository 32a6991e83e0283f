---------------------------- MODULE MCSorobanAuth ----------------------------
EXTENDS SorobanAuth

Entry(type, address) == [type |-> type, address |-> address]

Delegate(address, signs, under, at) ==
  [address |-> address, signs |-> signs, under |-> under, at |-> at]

Wallet == 1
Contract == 3

\* Two entries of one contract account, or one of them with the wallet's or
\* the source account's.
MCSimulated ==
  {<<Entry("ADDRESS", Contract), Entry("ADDRESS_V2", Contract)>>,
   <<Entry("ADDRESS_V2", Contract), Entry("ADDRESS", Wallet)>>,
   <<Entry("SOURCE_ACCOUNT", 0), Entry("ADDRESS", Contract)>>}

\* Delegates in the caller's order, one of them at two levels; and a delegate
\* twice at one level, which is refused.
MCTrees ==
  {<<Delegate(2, TRUE, 0, 1), Delegate(1, FALSE, 1, 1), Delegate(1, FALSE, 0, 2)>>,
   <<Delegate(2, TRUE, 0, 1), Delegate(1, FALSE, 0, 2), Delegate(2, FALSE, 0, 3)>>}
=============================================================================
