---------------------------- MODULE MCBankMatching ----------------------------
(***************************************************************************)
(* Two confirmations in flight over two lines and two invoices.  The lines *)
(* look the same, a 2 each, and the invoices are of 2 and 1: either can be *)
(* settled by either line, or in two parts.                                *)
(***************************************************************************)
EXTENDS BankMatching, TLC

CONSTANTS l1, l2, d1, d2, transfer

MCAvailable == (l1 :> 2) @@ (l2 :> 2)
MCLooks == (l1 :> transfer) @@ (l2 :> transfer)
MCTotal == (d1 :> 2) @@ (d2 :> 1)

MCSymmetry == Permutations(Requests) \union Permutations(Keys) \union Permutations(Lines)
=============================================================================
