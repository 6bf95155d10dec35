------------------------------ MODULE YearClose ------------------------------
(***************************************************************************)
(* Closing a fiscal year (handleCloseYear, planYearClose): the result of   *)
(* the year is appropriated to equity by an entry on its last day, and the *)
(* balances are carried into the next year by an entry on its first.       *)
(*                                                                         *)
(* withYearClose runs a close in one READ COMMITTED transaction: the trial *)
(* balance is read without a lock, other callers post until the close      *)
(* takes the chain lock with its first entry, and everything it wrote      *)
(* appears at its commit.  A post or a reversal by anyone else is one step *)
(* here, its commit: Ledger!ImplementsJournal is what allows that.  Trial  *)
(* balances add up the journal, by Ledger!BalancesAreTheJournal.  What is  *)
(* read before the first lock is read in one step, and each close has an   *)
(* idempotency key of its own.                                             *)
(*                                                                         *)
(* A year has one period, amounts are in the functional currency, and an   *)
(* entry is a function from accounts to amounts, debits positive.          *)
(***************************************************************************)
EXTENDS Integers, Sequences, FiniteSets, Functions

CONSTANTS
    Closers,        \* requests to close a year
    LastYear,       \* fiscal years are 1 .. LastYear; what follows has no period
    BalanceSheet,   \* asset, liability and equity accounts
    ProfitAndLoss,  \* revenue and expense accounts
    Result,         \* the equity account the result is appropriated to
    Postings,       \* what callers post: balanced functions from accounts to amounts
    MaxOrdinary,    \* bound on the posts and reversals of others
    Nobody          \* the holder of a free chain lock

Accounts == BalanceSheet \union ProfitAndLoss
Years == 1 .. LastYear
Amounts == [Accounts -> Int]

ASSUME YearCloseConstants ==
    /\ LastYear \in Nat
    /\ IsFiniteSet(Accounts)
    /\ Result \in BalanceSheet
    /\ BalanceSheet \intersect ProfitAndLoss = {}
    /\ Postings \subseteq Amounts
    /\ Nobody \notin Closers

VARIABLES
    journal,     \* the committed entries by chain position: [year, kind, of, amounts]
    closes,      \* year_closes: [year, appropriation, opening], entries by position
    hardClosed,  \* the years whose period is hard-closed
    chainLock,   \* the close that holds the row lock of the chain
    pc,          \* where each close is
    plan         \* what it read and planned

vars == <<journal, closes, hardClosed, chainLock, pc, plan>>

-----------------------------------------------------------------------------
(* Trial balances *)

Total(amounts) == SumFunctionOnSet(amounts, Accounts)

\* postJournalEntry refuses an entry that does not balance.
ASSUME PostingsBalance == \A amounts \in Postings : Total(amounts) = 0

SumOver(positions, a) ==
    SumFunctionOnSet([i \in positions |-> journal[i].amounts[a]], positions)

\* trialBalanceRows: all periods before the year, and the periods of the year.
OpeningBalance(year, a) == SumOver({i \in DOMAIN journal : journal[i].year < year}, a)
Movement(year, a) == SumOver({i \in DOMAIN journal : journal[i].year = year}, a)
ClosingBalance(year, a) == OpeningBalance(year, a) + Movement(year, a)

ReversalOf(i) == {j \in DOMAIN journal : journal[j].kind = "reversal" /\ journal[j].of = i}

(* The plan: what planYearClose makes of the rows of a trial balance. *)

YearResult(year) ==
    - SumFunctionOnSet([a \in ProfitAndLoss |-> Movement(year, a)], ProfitAndLoss)

\* Mutant of Appropriation: a P&L account's opening balance is appropriated too.
AppropriationOfBalance(year) ==
    [a \in Accounts |-> IF a \in ProfitAndLoss THEN - ClosingBalance(year, a)
                        ELSE IF a = Result
                        THEN SumFunctionOnSet([b \in ProfitAndLoss |-> ClosingBalance(year, b)],
                                              ProfitAndLoss)
                        ELSE 0]

\* Every P&L account is written back to zero against the result account.
Appropriation(year) ==
    [a \in Accounts |-> IF a \in ProfitAndLoss THEN - Movement(year, a)
                        ELSE IF a = Result THEN - YearResult(year) ELSE 0]

\* Every balance sheet account as it stands after the appropriation.
Beginbalans(year) ==
    [a \in Accounts |-> IF a \in ProfitAndLoss THEN 0
                        ELSE IF a = Result THEN ClosingBalance(year, a) - YearResult(year)
                        ELSE ClosingBalance(year, a)]

HasLines(amounts) == \E a \in Accounts : amounts[a] # 0

\* The appropriation is null when no P&L account moved; its line on the result
\* account is there even when its amount is zero.
Traded(year) == \E a \in ProfitAndLoss : Movement(year, a) # 0

-----------------------------------------------------------------------------
NoPlan == [year |-> 0]

Init ==
    /\ journal = << >>
    /\ closes = {}
    /\ hardClosed = {}
    /\ chainLock = Nobody
    /\ pc = [c \in Closers |-> "idle"]
    /\ plan = [c \in Closers |-> NoPlan]

FindOpenClose(year) == {r \in closes : r.year = year}

Goto(c, where) == pc' = [pc EXCEPT ![c] = where]

\* The transaction rolls back, or had nothing to write.
End(c, how) ==
    /\ Goto(c, how)
    /\ plan' = [plan EXCEPT ![c] = NoPlan]
    /\ chainLock' = IF chainLock = c THEN Nobody ELSE chainLock
    /\ UNCHANGED <<journal, closes, hardClosed>>

\* Mutant of HasNextYear: the period of the opening balance is not looked for.
HasNextYearUnchecked(year) == TRUE

\* periodContaining the day after the year ends.
HasNextYear(year) == year < LastYear

\* The close looks for an earlier close of the year and for the period of the
\* opening balance, reads the trial balance and plans its entries.
BeginClose(c, year, carryForward, dryRun) ==
    /\ pc[c] = "idle"
    /\ LET mayClose == /\ FindOpenClose(year) = {}
                       /\ carryForward => HasNextYear(year)
       IN  \/ /\ ~ mayClose
              /\ End(c, "refused")
           \/ /\ mayClose /\ dryRun
              /\ End(c, "previewed")
           \/ /\ mayClose /\ ~ dryRun
              /\ plan' = [plan EXCEPT ![c] =
                    [year          |-> year,
                     traded        |-> Traded(year),
                     appropriation |-> Appropriation(year),
                     carryForward  |-> carryForward,
                     opening       |-> Beginbalans(year),
                     seen          |-> Len(journal)]]
              /\ Goto(c, "planned")
              /\ UNCHANGED <<journal, closes, hardClosed, chainLock>>

\* validateCommandShape: the line on the result account has an amount.
ResultLineHasAmount(p) == p.appropriation[Result] # 0

\* Mutant of Balances: postJournalEntry does not check that the entry balances.
BalancesUnchecked(amounts) == TRUE

Balances(amounts) == Total(amounts) = 0

\* The lock is free or held by this close; the lock, once taken, is kept.
TakeLock(c) ==
    /\ chainLock \in {Nobody, c}
    /\ chainLock' = c

\* postJournalEntry for the appropriation, unless there is nothing to appropriate.
PostAppropriation(c) ==
    /\ pc[c] = "planned"
    /\ LET p == plan[c]
           accepted == ResultLineHasAmount(p) /\ p.year \notin hardClosed
       IN  \/ /\ ~ p.traded
              /\ Goto(c, "appropriated")
              /\ UNCHANGED <<journal, closes, hardClosed, chainLock, plan>>
           \/ /\ p.traded /\ accepted
              /\ TakeLock(c)
              /\ Goto(c, "appropriated")
              /\ UNCHANGED <<journal, closes, hardClosed, plan>>
           \/ /\ p.traded /\ ~ accepted
              /\ End(c, "failed")

Carries(p) == p.carryForward /\ HasLines(p.opening)

\* postJournalEntry for the opening balance, unless there is nothing to carry.
PostOpening(c) ==
    /\ pc[c] = "appropriated"
    /\ LET p == plan[c]
           accepted == Balances(p.opening) /\ p.year + 1 \notin hardClosed
       IN  \/ /\ ~ Carries(p)
              /\ Goto(c, "carried")
              /\ UNCHANGED <<journal, closes, hardClosed, chainLock, plan>>
           \/ /\ Carries(p) /\ accepted
              /\ TakeLock(c)
              /\ Goto(c, "carried")
              /\ UNCHANGED <<journal, closes, hardClosed, plan>>
           \/ /\ Carries(p) /\ ~ accepted
              /\ End(c, "failed")

\* Mutant of OneOpenClose: without the unique index on year_closes.
OneOpenCloseUnchecked(year) == TRUE

\* The index year_closes_one_open_per_year, checked by the insert of the record.
OneOpenClose(year) == FindOpenClose(year) = {}

Entry(year, kind, of, amounts) ==
    [year |-> year, kind |-> kind, of |-> of, amounts |-> amounts]

\* Mutant of ClosingEntries: the opening balance is lost on the way.
AppropriationOnly(p) ==
    IF p.traded THEN <<Entry(p.year, "appropriation", p.year, p.appropriation)>> ELSE << >>

\* What the close has inserted: its appropriation, its opening balance, or less.
ClosingEntries(p) ==
    (IF p.traded THEN <<Entry(p.year, "appropriation", p.year, p.appropriation)>> ELSE << >>)
    \o (IF Carries(p) THEN <<Entry(p.year + 1, "opening", p.year, p.opening)>> ELSE << >>)

\* recordYearClose, the event, and the commit of all of it.
RecordYearClose(c) ==
    /\ pc[c] = "carried"
    /\ LET p == plan[c]
           first == Len(journal) + 1
       IN  \/ /\ OneOpenClose(p.year)
              /\ journal' = journal \o ClosingEntries(p)
              /\ closes' = closes \union
                    {[year          |-> p.year,
                      appropriation |-> IF p.traded THEN first ELSE 0,
                      opening       |-> IF ~ Carries(p) THEN 0
                                        ELSE IF p.traded THEN first + 1 ELSE first]}
              /\ Goto(c, "closed")
              /\ chainLock' = IF chainLock = c THEN Nobody ELSE chainLock
              /\ UNCHANGED <<hardClosed, plan>>
           \/ /\ ~ OneOpenClose(p.year)
              /\ End(c, "failed")

\* The process or its connection dies.
Rollback(c) ==
    /\ pc[c] \in {"planned", "appropriated", "carried"}
    /\ End(c, "failed")

-----------------------------------------------------------------------------
(* Everybody else.  A close that holds the chain lock keeps them waiting. *)

Ordinary == {i \in DOMAIN journal : journal[i].kind \in {"ordinary", "reversal"}}

MayPost(year) ==
    /\ chainLock = Nobody
    /\ year \notin hardClosed
    /\ Cardinality(Ordinary) < MaxOrdinary

\* A post by any handler, in any year: a closed year is not locked.
PostEntry(year, amounts) ==
    /\ MayPost(year)
    /\ journal' = Append(journal, Entry(year, "ordinary", 0, amounts))
    /\ UNCHANGED <<closes, hardClosed, chainLock, pc, plan>>

\* The reversal of any entry, those of a close included: it undoes the entry and
\* leaves the record of the close alone.
ReverseEntry(i, year) ==
    /\ MayPost(year)
    /\ ReversalOf(i) = {}
    /\ journal' = Append(journal, Entry(year, "reversal", i,
                                        [a \in Accounts |-> - journal[i].amounts[a]]))
    /\ UNCHANGED <<closes, hardClosed, chainLock, pc, plan>>

\* An operator hard-closes the period of a year in the database.
HardClose(year) ==
    /\ year \notin hardClosed
    /\ hardClosed' = hardClosed \union {year}
    /\ UNCHANGED <<journal, closes, chainLock, pc, plan>>

Ended == {"closed", "refused", "previewed", "failed"}

\* Every close has been answered: the model may stop here, and only here.
AllAnswered ==
    /\ \A c \in Closers : pc[c] \in Ended
    /\ UNCHANGED vars

Next ==
    \/ \E c \in Closers :
        \/ \E year \in Years, carryForward \in BOOLEAN, dryRun \in BOOLEAN :
                BeginClose(c, year, carryForward, dryRun)
        \/ PostAppropriation(c)
        \/ PostOpening(c)
        \/ RecordYearClose(c)
        \/ Rollback(c)
    \/ \E year \in Years :
        \/ \E amounts \in Postings : PostEntry(year, amounts)
        \/ \E i \in DOMAIN journal : ReverseEntry(i, year)
        \/ HardClose(year)
    \/ AllAnswered

Spec == Init /\ [][Next]_vars
-----------------------------------------------------------------------------
(* Properties *)

Kinds == {"ordinary", "reversal", "appropriation", "opening"}

\* Every variable has its type.
TypeOK ==
    /\ journal \in Seq([year : Years, kind : Kinds, of : Nat, amounts : Amounts])
    /\ closes \subseteq [year : Years, appropriation : Nat, opening : Nat]
    /\ hardClosed \subseteq Years
    /\ chainLock \in Closers \union {Nobody}
    /\ pc \in [Closers -> Ended \union {"idle", "planned", "appropriated", "carried"}]
    /\ plan \in [Closers ->
            {NoPlan} \union
            [year : Years, traded : BOOLEAN, appropriation : Amounts,
             carryForward : BOOLEAN, opening : Amounts, seen : Nat]]

\* Two closes of a year that both found it open do not both close it.
ClosedOnce == \A r, s \in closes : r.year = s.year => r = s

\* "Half a close is worse than none" (withYearClose): an appropriation or an
\* opening balance is in the journal exactly when the record of its close names
\* it, and it is in the year it belongs to.
CloseIsWhole ==
    /\ \A i \in DOMAIN journal : journal[i].kind \in {"appropriation", "opening"} =>
        \E r \in closes :
            /\ r.year = journal[i].of
            /\ i = IF journal[i].kind = "opening" THEN r.opening ELSE r.appropriation
    /\ \A r \in closes :
        /\ r.appropriation # 0 =>
            /\ r.appropriation \in DOMAIN journal
            /\ journal[r.appropriation].kind = "appropriation"
            /\ journal[r.appropriation].year = r.year
        /\ r.opening # 0 =>
            /\ r.opening \in DOMAIN journal
            /\ journal[r.opening].kind = "opening"
            /\ journal[r.opening].year = r.year + 1

\* Every entry a close posts balances, so the balance sheet of every year does.
SheetsBalance ==
    \A year \in Years :
        Total([a \in Accounts |-> ClosingBalance(year, a)]) = 0

\* A close that nobody's posting overtook leaves the profit and loss of its year
\* flat, and its opening balance is the balance sheet the year then ends with.
CloseAppliesItsPlan ==
    [][\A c \in Closers :
        pc[c] = "carried" /\ pc'[c] = "closed" /\ plan[c].seen = Len(journal) =>
            /\ \A a \in ProfitAndLoss : Movement(plan[c].year, a)' = 0
            /\ Carries(plan[c]) => \A a \in BalanceSheet :
                    plan[c].opening[a] = ClosingBalance(plan[c].year, a)']_vars

=============================================================================
