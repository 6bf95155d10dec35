SPECIFICATION PaymentsSpec
CONSTANTS
    Requests = {r1, r2}
    Batches = {b1, b2}
    Humans = {alice}
    Scripts = {}
    Nobody = Nobody
    Documents = {invoice, credit, bill}
    CreditNotes = {credit}
    Total <- MCTotal
    Suppliers = {supplier, stranger}
    SupplierOf <- MCSupplierOf
    NoIban = {stranger}
    References = {}
    NoFile = NoFile
    MaxExports = 2
    supplier = supplier
    stranger = stranger
    invoice = invoice
    credit = credit
    bill = bill
SYMMETRY MCSymmetry
INVARIANTS
    PaymentsTypeOK
    SettledOnceInABatch
    ScheduledOnce
