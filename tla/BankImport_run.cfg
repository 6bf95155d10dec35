SPECIFICATION ImportSpec
CONSTANTS
    Imports = {r1, r2}
    Payments = {coffee1, coffee2, salary, fee, toll, transfer, card}
    Amount <- MCAmount
    Files <- MCFiles
    Undeclared = Undeclared
    NoPlan = NoPlan
    MaxImports = 6
    coffee1 = coffee1
    coffee2 = coffee2
    salary = salary
    fee = fee
    toll = toll
    transfer = transfer
    card = card
    coffee = coffee
    other = other
SYMMETRY MCSymmetry
INVARIANTS
    ImportTypeOK
    BalanceIsTheBanksUnlessUnrecognisable
    GapsAreReportedInOrder
PROPERTY
    ReimportAddsNothing
CHECK_DEADLOCK FALSE
