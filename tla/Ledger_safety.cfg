SPECIFICATION Spec
CONSTANTS
    Txns = {t1, t2, t3}
    Keys = {k1, k2}
    Journals = {memo}
    Periods = {p1, p2}
    Years = {y1, y2}
    YearOf <- MCYearOf
    Accounts = {bank, sales}
    Currencies = {EUR}
    Functional = EUR
    Commands <- MCCommands
    Files <- MCFiles
    NoEntry = NoEntry
    NoPeriod = NoPeriod
    p1 = p1
    p2 = p2
    y1 = y1
    y2 = y2
    memo = memo
    bank = bank
    sales = sales
    EUR = EUR
    USD = USD
SYMMETRY MCSymmetry
INVARIANTS
    ChainIntact
    NumbersGapless
    ExactlyOnce
    HardCloseOvertakenByOne
PROPERTY
    ImplementsJournal
