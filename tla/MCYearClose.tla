----------------------------- MODULE MCYearClose -----------------------------
(***************************************************************************)
(* A small administration for YearClose: two years, a bank account, equity *)
(* for the result, one revenue and one expense account.  Sales and costs   *)
(* of the same amount make years with a profit, a loss and neither.        *)
(***************************************************************************)
EXTENDS YearClose, TLC

CONSTANTS bank, equity, revenue, costs

MCEntry(debit, credit) ==
    [a \in {bank, equity, revenue, costs} |->
        IF a = debit THEN 1 ELSE IF a = credit THEN -1 ELSE 0]

MCPostings == {MCEntry(bank, revenue), MCEntry(costs, bank)}

MCSymmetry == Permutations(Closers)
=============================================================================
