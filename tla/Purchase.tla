------------------------------- MODULE Purchase -------------------------------
(***************************************************************************)
(* Purchase invoices from capture to approval, and the creditors control   *)
(* account they must add up to: apps/web/src/api/handlers/purchase.ts,     *)
(* packages/db/src/repositories/purchase.ts and packages/core/src/         *)
(* purchase/model.ts.  What is then paid is module Payments.               *)
(*                                                                         *)
(* Every handler is a READ COMMITTED transaction that reads the invoice,   *)
(* asks nextPurchaseStatus and updates the row by id, whatever it has      *)
(* become.  Booking posts before that, under the chain lock of Ledger.     *)
(* The invoices are those of one supplier, and each request is made once.  *)
(***************************************************************************)
EXTENDS Callers, Integers, Sequences, FiniteSets, Functions

CONSTANTS
    Invoices,  \* ids of purchase_invoices
    Numbers,   \* the supplier's own invoice numbers
    Contents,  \* what a document says: [kind, total]
    Keys,      \* idempotency keys
    NoOne,     \* a null approvedBy
    NoWork     \* a request that does nothing

Transitions == {"approve", "dispute", "resolve", "cancel"}

\* What a booking says: the command of its entry, without the lines.
Commands == [number : Numbers, content : Contents]

\* What a request under way holds.
CaptureWork == [op : {"capture"}, invoice : Invoices, number : Numbers, content : Contents]
BookWork == [op : {"book"}, invoice : Invoices, key : Keys, command : Commands]
TransitionWork == [op : Transitions, invoice : Invoices, actor : Actors]
Works == CaptureWork \union BookWork \union TransitionWork

ASSUME PurchaseConstants ==
    /\ Contents \subseteq [kind : {"invoice", "credit_note"}, total : Nat]
    /\ NoOne \notin Actors
    /\ NoWork \notin Works

VARIABLES
    invoices,   \* purchase_invoices: [status, number, content, entry, approvedBy],
                \* the entry 0 for null
    entries,    \* the entries of bookings, in order: [key, invoice, command]
    reversed,   \* those that have a reversal entry
    pc,         \* where each request is
    work,       \* what it was asked, and what it has read
    disturbed,  \* history: requests whose invoice changed while they were under way
    muddled     \* history: invoices written by a disturbed request

vars == <<invoices, entries, reversed, pc, work, disturbed, muddled>>

-----------------------------------------------------------------------------
Absent == [status |-> "absent"]
Captured == {d \in Invoices : invoices[d] # Absent}

\* Mutant of AllowedFrom: a booked invoice can be cancelled.
AllowedFromLoosely(action) ==
    CASE action = "book" -> {"draft"}
      [] action = "approve" -> {"booked"}
      [] action = "dispute" -> {"booked", "approved"}
      [] action = "resolve" -> {"disputed"}
      [] action = "cancel" -> {"draft", "booked"}

\* ALLOWED
AllowedFrom(action) ==
    CASE action = "book" -> {"draft"}
      [] action = "approve" -> {"booked"}
      [] action = "dispute" -> {"booked", "approved"}
      [] action = "resolve" -> {"disputed"}
      [] action = "cancel" -> {"draft"}

\* RESULT
ResultOf(action) ==
    CASE action \in {"book", "resolve"} -> "booked"
      [] action = "approve" -> "approved"
      [] action = "dispute" -> "disputed"
      [] action = "cancel" -> "cancelled"

\* nextPurchaseStatus: a script approves nothing.
Allowed(action, status, actor) ==
    status \in AllowedFrom(action) /\ (action = "approve" => actor \in Humans)

\* The other requests under way for an invoice that a step changes.
Disturbs(q, d) ==
    disturbed' = disturbed \union
        {r \in Requests \ {q} : pc[r] \notin {"idle", "done"} /\ work[r].invoice = d}

Muddles(q, d) == muddled' = IF q \in disturbed THEN muddled \union {d} ELSE muddled

Goes(q, step) == pc' = [pc EXCEPT ![q] = step]
Ends(q) == Goes(q, "done") /\ work' = [work EXCEPT ![q] = NoWork]

-----------------------------------------------------------------------------
Init ==
    /\ invoices = [d \in Invoices |-> Absent]
    /\ entries = <<>>
    /\ reversed = {}
    /\ pc = [q \in Requests |-> "idle"]
    /\ work = [q \in Requests |-> NoWork]
    /\ disturbed = {}
    /\ muddled = {}

\* isDuplicate: a cancelled draft does not count ...
IsDuplicate(number, except) ==
    \E d \in Captured \ {except} :
        invoices[d].number = number /\ invoices[d].status # "cancelled"

\* ... but purchase_invoices_supplier_number counts it.
NumberTaken(number) == \E d \in Captured : invoices[d].number = number

\* The duplicates are looked for before the row is written.
HandleCapturePurchaseInvoice(q) ==
    /\ pc[q] = "idle"
    /\ \E d \in Invoices \ Captured, number \in Numbers, content \in Contents :
        /\ ~ IsDuplicate(number, d)
        /\ work' = [work EXCEPT ![q] =
                        [op |-> "capture", invoice |-> d, number |-> number, content |-> content]]
    /\ Goes(q, "capturing")
    /\ UNCHANGED <<invoices, entries, reversed, disturbed, muddled>>

CommitCapture(q) ==
    /\ pc[q] = "capturing"
    /\ invoices[work[q].invoice] = Absent
    /\ ~ NumberTaken(work[q].number)
    /\ invoices' = [invoices EXCEPT ![work[q].invoice] =
            [status |-> "draft", number |-> work[q].number, content |-> work[q].content,
             entry |-> 0, approvedBy |-> NoOne]]
    /\ Ends(q)
    /\ UNCHANGED <<entries, reversed, disturbed, muddled>>

\* The invoice as captured, its state, and whether it can be booked.
HandleBookPurchaseInvoice(q) ==
    /\ pc[q] = "idle"
    /\ \E d \in Captured, key \in Keys, actor \in Actors :
        /\ Allowed("book", invoices[d].status, actor)
        /\ ~ IsDuplicate(invoices[d].number, d)
        /\ invoices[d].content.total # 0
        /\ work' = [work EXCEPT ![q] =
                [op |-> "book", invoice |-> d, key |-> key,
                 command |-> [number |-> invoices[d].number, content |-> invoices[d].content]]]
    /\ Goes(q, "booking")
    /\ UNCHANGED <<invoices, entries, reversed, disturbed, muddled>>

PostedUnder(key) == {i \in DOMAIN entries : entries[i].key = key}

\* markBooked: by id; whoever approved stays.
Booked(d, entry) == [invoices EXCEPT ![d].status = "booked", ![d].entry = entry]

\* A key that was used returns the entry it posted, if the command is the same.
CommitBooking(q) ==
    LET d == work[q].invoice
        earlier == PostedUnder(work[q].key)
    IN  /\ pc[q] = "booking"
        /\ \A i \in earlier : entries[i].command = work[q].command
        /\ IF earlier = {}
           THEN /\ entries' = Append(entries, [key |-> work[q].key, invoice |-> d,
                                               command |-> work[q].command])
                /\ invoices' = Booked(d, Len(entries) + 1)
           ELSE /\ UNCHANGED entries
                /\ \E i \in earlier : invoices' = Booked(d, i)
        /\ Disturbs(q, d)
        /\ Muddles(q, d)
        /\ Ends(q)
        /\ UNCHANGED reversed

HandleTransitionPurchaseInvoice(q) ==
    /\ pc[q] = "idle"
    /\ \E d \in Captured, action \in Transitions, actor \in Actors :
        /\ Allowed(action, invoices[d].status, actor)
        /\ work' = [work EXCEPT ![q] =
                        [op |-> action, invoice |-> d, actor |-> actor]]
    /\ Goes(q, "transition")
    /\ UNCHANGED <<invoices, entries, reversed, disturbed, muddled>>

\* Mutant of Moved: an authorisation lingers next to a disputed invoice.
MovedKeepsApproval(d, to, actor) ==
    [invoices EXCEPT ![d].status = to,
                     ![d].approvedBy = IF to = "approved" THEN actor ELSE @]

\* transition: by id, and the approval goes unless this is one.
Moved(d, to, actor) ==
    [invoices EXCEPT ![d].status = to,
                     ![d].approvedBy = IF to = "approved" THEN actor ELSE NoOne]

\* purchase_invoices_booked_is_complete refuses the row without an entry.
CommitTransition(q) ==
    LET d == work[q].invoice
        to == ResultOf(work[q].op)
    IN  /\ pc[q] = "transition"
        /\ to # "cancelled" => invoices[d].entry # 0
        /\ invoices' = Moved(d, to, work[q].actor)
        /\ Disturbs(q, d)
        /\ Muddles(q, d)
        /\ Ends(q)
        /\ UNCHANGED <<entries, reversed>>

\* A refusal by an index or a check, another command under the key, a crash.
Abandon(q) ==
    /\ pc[q] \in {"capturing", "booking", "transition"}
    /\ Ends(q)
    /\ UNCHANGED <<invoices, entries, reversed, disturbed, muddled>>

\* handleReverseJournalEntry, of the entry of a booking: an entry is reversed
\* once, and the invoice hears nothing of it.
ReverseEntry(i) ==
    /\ i \notin reversed
    /\ reversed' = reversed \union {i}
    /\ UNCHANGED <<invoices, entries, pc, work, disturbed, muddled>>

Next ==
    \/ \E q \in Requests :
        \/ HandleCapturePurchaseInvoice(q) \/ CommitCapture(q)
        \/ HandleBookPurchaseInvoice(q) \/ CommitBooking(q)
        \/ HandleTransitionPurchaseInvoice(q) \/ CommitTransition(q)
        \/ Abandon(q)
    \/ \E i \in DOMAIN entries : ReverseEntry(i)

Spec == Init /\ [][Next]_vars

-----------------------------------------------------------------------------
\* Mutant of Signed: a credit note adds to what is owed.
SignedAlike(content) == content.total

\* signedOutstanding: a credit note reduces what is owed.
Signed(content) == IF content.kind = "credit_note" THEN - content.total ELSE content.total

\* buildPurchaseEntry: what an entry puts on the control account.
Posted(command) ==
    IF command.content.kind = "credit_note"
    THEN - command.content.total
    ELSE command.content.total

\* list with openOnly: what is neither a draft nor cancelled.
OpenItems == {d \in Captured : invoices[d].status \notin {"draft", "cancelled"}}

\* The two sides of reconcileToControlAccount, over the given invoices.
Subledger(chosen) ==
    LET items == OpenItems \intersect chosen
    IN  SumFunctionOnSet([d \in items |-> Signed(invoices[d].content)], items)
Control(chosen) ==
    LET booked == {i \in DOMAIN entries \ reversed : entries[i].invoice \in chosen}
    IN  SumFunctionOnSet([i \in booked |-> Posted(entries[i].command)], booked)

Rows ==
    [status : {"draft", "booked", "approved", "disputed", "cancelled"}, number : Numbers,
     content : Contents, entry : Nat, approvedBy : Actors \union {NoOne}]

Withdrawn == {entries[i].invoice : i \in reversed}

\* With purchase_invoices_booked_is_complete and the unique supplier number.
TypeOK ==
    /\ invoices \in [Invoices -> {Absent} \union Rows]
    /\ \A d \in OpenItems : invoices[d].entry \in DOMAIN entries
    /\ \A d, e \in Captured : invoices[d].number = invoices[e].number => d = e
    /\ entries \in Seq([key : Keys, invoice : Invoices, command : Commands])
    /\ reversed \subseteq DOMAIN entries
    /\ pc \in [Requests -> {"idle", "capturing", "booking", "transition", "done"}]
    /\ work \in [Requests -> Works \union {NoWork}]
    /\ \A q \in Requests : pc[q] \in {"idle", "done"} <=> work[q] = NoWork
    /\ disturbed \subseteq Requests
    /\ muddled \subseteq Invoices

\* The open items add up to the control account (reconcileToControlAccount, "spec
\* 9.2 wants this as a scheduled check with an alert on drift"), over invoices that
\* no two requests wrote at once and whose entry was not reversed: a reversal
\* leaves the invoice open.
SubledgerReconcilesUnlessMuddled ==
    LET chosen == Invoices \ (muddled \union Withdrawn)
    IN  Subledger(chosen) = Control(chosen)

\* An approval stands next to an approved invoice and no other ("an authorisation
\* that no longer applies must not linger"), it is a human's, and what it
\* authorises is booked for what was captured, unless two requests wrote at once.
ApprovalIsCurrentUnlessMuddled ==
    \A d \in Captured \ muddled :
        /\ invoices[d].status = "approved" <=> invoices[d].approvedBy # NoOne
        /\ invoices[d].status = "approved" =>
            /\ invoices[d].approvedBy \in Humans
            /\ entries[invoices[d].entry].command =
                   [number |-> invoices[d].number, content |-> invoices[d].content]

=============================================================================
