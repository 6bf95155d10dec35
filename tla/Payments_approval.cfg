SPECIFICATION PaymentsSpec
CONSTANTS
    Requests = {r1, r2}
    Batches = {b1}
    Humans = {alice, bob}
    Scripts = {bot}
    Nobody = Nobody
    Documents = {}
    CreditNotes = {}
    Total <- MCNothing
    Suppliers = {}
    SupplierOf <- MCNothing
    NoIban = {}
    References = {ref1, ref2}
    NoFile = NoFile
    MaxExports = 2
    supplier = supplier
    stranger = stranger
    invoice = invoice
    credit = credit
    bill = bill
SYMMETRY MCSymmetry
INVARIANTS
    ApprovedByAnother
    SentWasSeenUnlessRaced
    ExportedOnceUnlessRaced
