------------------------------- MODULE MCSales -------------------------------
(***************************************************************************)
(* An invoice of 2, one of 1 and a credit note of 1 for the first; two     *)
(* reminders.                                                              *)
(***************************************************************************)
EXTENDS Sales, TLC

CONSTANTS d1, d2

MCContents ==
    {[kind |-> "invoice", credits |-> NoDocument, amount |-> 1],
     [kind |-> "invoice", credits |-> NoDocument, amount |-> 2],
     [kind |-> "credit_note", credits |-> d1, amount |-> 1]}

MCSymmetry == Permutations(Requests) \union Permutations(Keys)
=============================================================================
