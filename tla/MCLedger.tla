------------------------------ MODULE MCLedger ------------------------------
(***************************************************************************)
(* Small instances of Ledger for TLC: three requests under two keys,       *)
(* periods in two fiscal years, an entry whose reversal may fall in either *)
(* and an audit file before and after it got longer; and two requests with *)
(* entries that balance only in functional amounts, that name a reversal   *)
(* target themselves and that are refused.                                 *)
(***************************************************************************)
EXTENDS Ledger, TLC

CONSTANTS p1, p2, y1, y2, memo, bank, sales, EUR, USD

MCYearOf == (p1 :> y1) @@ (p2 :> y2)

\* One fiscal year with one period, for the runs about time and currencies.
MCOneYear == p1 :> y1

MCLine(account, currency, amount, functional) ==
    [account |-> account, currency |-> currency,
     amount |-> amount, functional |-> functional]

MCCommand(period, reverses, lines) ==
    [journal |-> memo, period |-> period, reverses |-> reverses, lines |-> lines]

\* A sale of 5 received on the bank account.
MCSale == {MCLine(bank, EUR, 5, 5), MCLine(sales, EUR, -5, -5)}

\* A correction of 2 that the caller presents as a reversal.
MCCorrection == {MCLine(bank, EUR, -2, -2), MCLine(sales, EUR, 2, 2)}

\* A sale of USD 4 received as EUR 3.
MCForeignSale == {MCLine(bank, EUR, 3, 3), MCLine(sales, USD, -4, -3)}

MCLopsided == {MCLine(bank, EUR, 5, 5), MCLine(sales, EUR, -4, -4)}

\* Posting, reversing and numbering, in functional currency.
MCCommands == {MCCommand(p1, NoEntry, MCSale)}

\* An audit file of two sales in the first year, and what was there of it last week.
MCFiles ==
    {<<MCCommand(p1, NoEntry, MCSale)>>,
     <<MCCommand(p1, NoEntry, MCSale), MCCommand(p1, NoEntry, MCSale)>>}

\* Entries of two currencies, one that does not balance, one without a period, and
\* corrections of entries that are there, are not yet or never will be.
MCForeignCommands ==
    {MCCommand(p1, NoEntry, MCForeignSale), MCCommand(p1, NoEntry, MCLopsided),
     MCCommand(NoPeriod, NoEntry, MCForeignSale)}
    \union {MCCommand(p1, <<t, 1>>, MCCorrection) : t \in Txns}

\* An audit file, and one whose second entry is outside every period.
MCForeignFiles ==
    {<<MCCommand(p1, NoEntry, MCForeignSale), MCCommand(p1, NoEntry, MCForeignSale)>>,
     <<MCCommand(p1, NoEntry, MCForeignSale), MCCommand(NoPeriod, NoEntry, MCForeignSale)>>}

MCSymmetry == Permutations(Txns) \union Permutations(Keys)
=============================================================================
