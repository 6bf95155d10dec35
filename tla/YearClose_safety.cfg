SPECIFICATION Spec
CONSTANTS
    Closers = {c1, c2}
    LastYear = 3
    BalanceSheet = {bank, equity}
    ProfitAndLoss = {revenue, costs}
    Result = equity
    Postings <- MCPostings
    MaxOrdinary = 2
    Nobody = Nobody
    bank = bank
    equity = equity
    revenue = revenue
    costs = costs
SYMMETRY MCSymmetry
INVARIANTS
    TypeOK
    ClosedOnce
    CloseIsWhole
    SheetsBalance
PROPERTY
    CloseAppliesItsPlan
