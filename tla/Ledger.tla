------------------------------- MODULE Ledger -------------------------------
(***************************************************************************)
(* What the tamper-evident audit ledger promises its users, with nothing   *)
(* of how it keeps the promise: a single growing chain to which a request  *)
(* or a background task adds all of its entries in one indivisible block,  *)
(* at most once, and from which nothing is ever taken away.                *)
(***************************************************************************)
EXTENDS Naturals, Sequences

CONSTANTS
  Txn,         \* the transactions (API requests and worker tasks)
  MaxAppends   \* MaxAppends[t]: how many entries t may want to append

VARIABLE chain \* the bodies of the committed records, oldest first

\* The n entries of one transaction, in the order it made them.
Block(t, n) == [k \in 1..n |-> <<t, k>>]

Init == chain = <<>>

\* t commits: its whole block lands at the end of the chain, once.
AppendBlock(t) ==
  /\ \A i \in DOMAIN chain : chain[i][1] # t
  /\ \E n \in 1..MaxAppends[t] : chain' = chain \o Block(t, n)

Next == \E t \in Txn : AppendBlock(t)

Spec == Init /\ [][Next]_chain
=============================================================================
