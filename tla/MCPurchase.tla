------------------------------ MODULE MCPurchase ------------------------------
(***************************************************************************)
(* An invoice and a credit note under two numbers, five calls, two of      *)
(* which can carry the same idempotency key.                               *)
(***************************************************************************)
EXTENDS Purchase, TLC

MCContents == {[kind |-> "invoice", total |-> 2], [kind |-> "credit_note", total |-> 1]}

MCSymmetry == Permutations(Requests) \union Permutations(Keys) \union
    Permutations(Invoices) \union Permutations(Numbers)
=============================================================================
