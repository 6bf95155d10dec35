SPECIFICATION FairSpec
CONSTANTS
    Txns = {t1, t2}
    Keys = {k1, k2}
    Journals = {memo}
    Periods = {p1}
    Years = {y1}
    YearOf <- MCOneYear
    Accounts = {bank, sales}
    Currencies = {EUR, USD}
    Functional = EUR
    Commands <- MCForeignCommands
    Files <- MCForeignFiles
    NoEntry = NoEntry
    NoPeriod = NoPeriod
    p1 = p1
    p2 = p2
    y1 = y1
    y2 = y2
    memo = memo
    bank = bank
    sales = sales
    EUR = EUR
    USD = USD
PROPERTY
    EveryRequestAnswered
INVARIANT
    BalancesAreTheJournal
