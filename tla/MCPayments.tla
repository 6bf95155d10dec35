----------------------------- MODULE MCPayments -----------------------------
(***************************************************************************)
(* Two requests in flight over one batch that two people work on, with     *)
(* payments that were typed in; or over two batches of one person, with a  *)
(* supplier that sent an invoice and a credit note, and a stranger without *)
(* an IBAN that sent a bill.                                               *)
(***************************************************************************)
EXTENDS Payments, TLC

CONSTANTS supplier, stranger, invoice, credit, bill

MCTotal == (invoice :> 2) @@ (credit :> 1) @@ (bill :> 1)
MCSupplierOf == (invoice :> supplier) @@ (credit :> supplier) @@ (bill :> stranger)

\* A batch of typed payments: no documents.
MCNothing == << >>

MCSymmetry ==
    Permutations(Requests) \union Permutations(Batches) \union Permutations(Humans)
    \union Permutations(References)
=============================================================================
