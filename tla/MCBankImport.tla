----------------------------- MODULE MCBankImport -----------------------------
(***************************************************************************)
(* Two imports in flight.  The bank issues four statements: the first has  *)
(* two coffees that look alike, the second and the fourth a payment with a *)
(* reference, the third two pages.  There is a CAMT of the second, of      *)
(* another id; a CSV export delivers the fourth again, without its         *)
(* reference, and a card payment.  The files overlap and one was cut off.  *)
(***************************************************************************)
EXTENDS BankImport, TLC

CONSTANTS coffee1, coffee2, salary, fee, toll, transfer, card, coffee, other

MCAmount == (coffee1 :> -3) @@ (coffee2 :> -3) @@ (salary :> 50) @@ (fee :> -1)
            @@ (toll :> -2) @@ (transfer :> 20) @@ (card :> -3)

MCEntry(payment, reference, looks) ==
    [payment |-> payment, reference |-> reference, looks |-> looks]

MCPlain(payment, looks) == MCEntry(payment, Undeclared, looks)

MCStatement(id, number, entries, movement) ==
    [id |-> id, number |-> number, entries |-> entries, movement |-> movement]

MCFirst  == MCStatement(1, 1, <<MCPlain(coffee1, coffee), MCPlain(coffee2, coffee)>>, -6)
MCSecond == MCStatement(2, 2, <<MCEntry(salary, salary, other)>>, 50)
MCCamt   == MCStatement(20, 2, <<MCEntry(salary, salary, other)>>, 50)
MCPage1  == MCStatement(3, 3, <<MCPlain(fee, other)>>, -1)
MCPage2  == MCStatement(3, 3, <<MCPlain(toll, coffee)>>, -2)
MCFourth == MCStatement(4, 4, <<MCEntry(transfer, transfer, other)>>, 20)
MCExport == MCStatement(Undeclared, Undeclared,
                        <<MCPlain(card, coffee), MCPlain(transfer, other)>>, 17)
MCTruncated == MCStatement(1, 1, <<MCPlain(coffee2, coffee)>>, -6)

MCFiles ==
    {{MCFirst}, {MCSecond}, {MCFourth}, {MCFirst, MCPage1, MCPage2},
     {MCCamt, MCPage1, MCPage2}, {MCExport}, {MCTruncated, MCFourth}}

MCSymmetry == Permutations(Imports)
=============================================================================
