-------------------------------- MODULE Sales --------------------------------
(***************************************************************************)
(* Sales documents from draft to reminder: apps/web/src/api/handlers/      *)
(* sales.ts, packages/db/src/repositories/sales.ts and                     *)
(* packages/core/src/sales/dunning.ts.                                     *)
(*                                                                         *)
(* Drafting, replacing and issuing are READ COMMITTED transactions that    *)
(* read the document, then its lines, and write by id.  Issuing locks the  *)
(* counter of the numbers and then the chain of Ledger until it commits:   *)
(* from there on it is one step.  A reminder is three transactions and a   *)
(* message: it decides, sends, and records what it sent afterwards.        *)
(*                                                                         *)
(* One year, and one series of numbers: a credit note has a prefix of its  *)
(* own, but draws from the same counter.                                   *)
(***************************************************************************)
EXTENDS Integers, Sequences, FiniteSets, FiniteSetsExt, Functions

CONSTANTS
    Requests,   \* calls of the API, each made once
    Documents,  \* ids of sales_invoices
    Contents,   \* what a caller can put in a draft: [kind, credits, amount]
    Keys,       \* idempotency keys
    Stages,     \* reminders in the schedule
    Foreign,    \* numbers that look like ours on documents of another system
    NoDocument, \* a null creditsInvoiceId
    NoWork      \* a request that does nothing

\* What can be read of a draft, its row and its lines at different moments.
Readings == [kind : {"invoice", "credit_note"}, credits : Documents \union {NoDocument},
             amount : Nat \ {0}]

\* What a request under way holds.
IssueWork == [op : {"issue"}, document : Documents, key : Keys, content : Readings]
ReplaceWork == [op : {"replace"}, document : Documents, content : Contents]
RemindWork == [op : {"remind"}, document : Documents, due : 1 .. Stages]
Works == IssueWork \union ReplaceWork \union RemindWork

ASSUME SalesConstants ==
    /\ Contents \subseteq Readings
    /\ Stages \in Nat
    /\ Foreign \subseteq Nat \ {0}
    /\ NoDocument \notin Documents
    /\ NoWork \notin Works \union Requests
    /\ IsFiniteSet(Documents)

VARIABLES
    documents,  \* sales_invoices: [status, content, number, imported], the
                \* number 0 for null
    counter,    \* number_sequences of 'sales_invoice'
    entries,    \* the entries of issues: [document, key, number, content]
    allocated,  \* what bank lines have settled of each document
    deliveries, \* invoice_deliveries that are reminders: {[document, stage]}
    letters,    \* the reminders that went out, in order: [document, stage]
    pc,         \* where each request is
    work,       \* what it was asked, and what it has read
    disturbed,  \* history: requests whose document changed, or was reminded
                \* of, while they were under way
    muddled     \* history: documents issued by a disturbed request, or with a
                \* reminder that was sent and not recorded

vars == <<documents, counter, entries, allocated, deliveries, letters, pc, work,
          disturbed, muddled>>

-----------------------------------------------------------------------------
Row(status, content, number, imported) ==
    [status |-> status, content |-> content, number |-> number, imported |-> imported]
Absent == [status |-> "absent"]

Issued(d) == documents[d].status = "issued"

\* creditsPerInvoice: issued credit notes for this document.
Credited(d) ==
    LET credits == {c \in Documents : /\ Issued(c)
                                      /\ documents[c].content.kind = "credit_note"
                                      /\ documents[c].content.credits = d}
    IN  SumFunctionOnSet([c \in credits |-> documents[c].content.amount], credits)

\* Mutant of Outstanding: credit notes are not subtracted.
OutstandingUncredited(d) == documents[d].content.amount - allocated[d]

\* invoiceOutstandingMinor, of an issued invoice; at most zero is nothing.
Outstanding(d) == documents[d].content.amount - allocated[d] - Credited(d)

\* dunnable
Dunnable(d) ==
    /\ Issued(d)
    /\ documents[d].content.kind = "invoice"
    /\ Outstanding(d) > 0

\* Mutant of HighestSent: only how many were sent is looked at.
HighestSentCounted(d) == Cardinality({s \in deliveries : s.document = d})

HighestSent(d) == Max({0} \union {s.stage : s \in {t \in deliveries : t.document = d}})

\* planDunning: the highest stage that has come due, if none as high was sent.
IsDue(d, stage) == stage > HighestSent(d)

\* The other requests under way for documents that a step changes.
Disturbs(q, changed) ==
    disturbed' = disturbed \union
        {r \in Requests \ {q} : pc[r] \notin {"idle", "done"} /\ work[r].document \in changed}

-----------------------------------------------------------------------------
Init ==
    /\ documents = [d \in Documents |-> Absent]
    /\ counter = 0
    /\ entries = <<>>
    /\ allocated = [d \in Documents |-> 0]
    /\ deliveries = {}
    /\ letters = <<>>
    /\ pc = [q \in Requests |-> "idle"]
    /\ work = [q \in Requests |-> NoWork]
    /\ disturbed = {}
    /\ muddled = {}

HandleDraftInvoice(d) ==
    /\ documents[d] = Absent
    /\ \E content \in Contents :
        documents' = [documents EXCEPT ![d] = Row("draft", content, 0, FALSE)]
    /\ UNCHANGED <<counter, entries, allocated, deliveries, letters, pc, work, disturbed, muddled>>

Numbers == {documents[d].number : d \in {e \in Documents : Issued(e)}}

\* createImportedInvoice: an open item of another system, issued under the number
\* it had there.  The counter is left alone, and the entry is the opening balance.
ImportInvoice(d) ==
    /\ documents[d] = Absent
    /\ \E content \in Contents, number \in Foreign \ Numbers :
        /\ content.credits = NoDocument
        /\ documents' = [documents EXCEPT ![d] = Row("issued", content, number, TRUE)]
    /\ UNCHANGED <<counter, entries, allocated, deliveries, letters, pc, work, disturbed, muddled>>

Goes(q, step) == pc' = [pc EXCEPT ![q] = step]
Ends(q) == Goes(q, "done") /\ work' = [work EXCEPT ![q] = NoWork]

IsDraft(d) == documents[d].status = "draft"

\* findInvoice reads the row: a document that is not a draft is refused.
HandleIssueInvoice(q) ==
    /\ pc[q] = "idle"
    /\ \E d \in {e \in Documents : IsDraft(e)}, key \in Keys :
        work' = [work EXCEPT ![q] =
                    [op |-> "issue", document |-> d, key |-> key, content |-> documents[d].content]]
    /\ Goes(q, "issuing")
    /\ UNCHANGED <<documents, counter, entries, allocated, deliveries, letters, disturbed, muddled>>

\* ... and then its lines, which are priced again.
ReadLines(q) ==
    /\ pc[q] = "issuing"
    /\ Goes(q, "priced")
    /\ work' = [work EXCEPT ![q].content.amount = documents[work[q].document].content.amount]
    /\ UNCHANGED <<documents, counter, entries, allocated, deliveries, letters, disturbed, muddled>>

\* allocateInvoiceNumber
Allocated == counter + 1

\* Mutant of Refused: the number of an import is given out again.
RefusedByKey(q) == \E i \in DOMAIN entries : entries[i].key = work[q].key

\* sales_invoices_entity_number, and the idempotency of posting: the number is
\* in the command, so a key that was used before has another command.
Refused(q) ==
    \/ Allocated \in Numbers
    \/ \E i \in DOMAIN entries : entries[i].key = work[q].key

\* markIssued: by id, whatever the row has become; lines and totals stay.
Marked(q) ==
    [documents EXCEPT ![work[q].document].status = "issued",
                      ![work[q].document].number = Allocated]

\* Number, entry, row and event commit together; the entry has what was read.
CommitIssue(q) ==
    LET d == work[q].document
    IN  /\ pc[q] = "priced"
        /\ ~ Refused(q)
        /\ counter' = counter + 1
        /\ entries' = Append(entries, [document |-> d, key |-> work[q].key,
                                       number |-> Allocated, content |-> work[q].content])
        /\ documents' = Marked(q)
        /\ muddled' = IF q \in disturbed THEN muddled \union {d} ELSE muddled
        /\ Disturbs(q, {d, documents[d].content.credits})
        /\ Ends(q)
        /\ UNCHANGED <<allocated, deliveries, letters>>

HandleReplaceDraftInvoice(q) ==
    /\ pc[q] = "idle"
    /\ \E d \in {e \in Documents : IsDraft(e)}, content \in Contents :
        work' = [work EXCEPT ![q] = [op |-> "replace", document |-> d, content |-> content]]
    /\ Goes(q, "replacing")
    /\ UNCHANGED <<documents, counter, entries, allocated, deliveries, letters, disturbed, muddled>>

\* Mutant of Replaceable: the UPDATE is by id only.
ReplaceableAnyway(d) == documents[d] # Absent

\* replaceDraft repeats the status in its UPDATE.
Replaceable(d) == documents[d].status = "draft"

CommitReplace(q) ==
    LET d == work[q].document
    IN  /\ pc[q] = "replacing"
        /\ Replaceable(d)
        /\ documents' = [documents EXCEPT ![d].content = work[q].content]
        /\ Disturbs(q, {d})
        /\ Ends(q)
        /\ UNCHANGED <<counter, entries, allocated, deliveries, letters, muddled>>

\* Mutant of Abandon: a number that was drawn is lost.
AbandonWithNumber(q) ==
    /\ pc[q] \in {"issuing", "priced", "replacing"}
    /\ counter' = IF pc[q] = "priced" THEN counter + 1 ELSE counter
    /\ Ends(q)
    /\ UNCHANGED <<documents, entries, allocated, deliveries, letters, disturbed, muddled>>

\* The number is taken, the key is taken, the draft is gone, or the server is.
Abandon(q) ==
    /\ pc[q] \in {"issuing", "priced", "replacing"}
    /\ Ends(q)
    /\ UNCHANGED <<documents, counter, entries, allocated, deliveries, letters, disturbed, muddled>>

-----------------------------------------------------------------------------
\* The bank matches a line: what a document is settled for is at most its total,
\* and a credit note for it does not count.
Allocate(d) ==
    /\ Issued(d)
    /\ \E amount \in 1 .. documents[d].content.amount - allocated[d] :
        allocated' = [allocated EXCEPT ![d] = @ + amount]
    /\ Disturbs(NoWork, {d})
    /\ UNCHANGED <<documents, counter, entries, deliveries, letters, pc, work, muddled>>

\* The caller names the day and with it the highest stage that has come due.
HandleSendDunningReminder(q) ==
    /\ pc[q] = "idle"
    /\ \E d \in Documents, due \in 1 .. Stages :
        /\ Dunnable(d)
        /\ IsDue(d, due)
        /\ work' = [work EXCEPT ![q] = [op |-> "remind", document |-> d, due |-> due]]
        /\ disturbed' = IF \E r \in Requests : pc[r] = "sent" /\ work[r].document = d
                         THEN disturbed \union {q}
                         ELSE disturbed
    /\ Goes(q, "planned")
    /\ UNCHANGED <<documents, counter, entries, allocated, deliveries, letters, muddled>>

Letter(q) == [document |-> work[q].document, stage |-> work[q].due]

\* The transport has the letter, whatever it makes of it.
SendLetter(q) ==
    /\ pc[q] = "planned"
    /\ letters' = Append(letters, Letter(q))
    /\ Goes(q, "sent")
    /\ Disturbs(q, {work[q].document})
    /\ UNCHANGED <<documents, counter, entries, allocated, deliveries, work, muddled>>

\* recordDelivery, for a letter that failed as well: the stage is closed.
RecordDelivery(q) ==
    /\ pc[q] = "sent"
    /\ deliveries' = deliveries \union {Letter(q)}
    /\ Disturbs(q, {work[q].document})
    /\ Ends(q)
    /\ UNCHANGED <<documents, counter, entries, allocated, letters, muddled>>

\* The server stops, before the letter or after it.
ReminderCutShort(q) ==
    /\ pc[q] \in {"planned", "sent"}
    /\ muddled' = IF pc[q] = "sent" THEN muddled \union {work[q].document} ELSE muddled
    /\ Ends(q)
    /\ UNCHANGED <<documents, counter, entries, allocated, deliveries, letters, disturbed>>

Next ==
    \/ \E d \in Documents : HandleDraftInvoice(d) \/ ImportInvoice(d) \/ Allocate(d)
    \/ \E q \in Requests :
        \/ HandleIssueInvoice(q) \/ ReadLines(q) \/ CommitIssue(q)
        \/ HandleReplaceDraftInvoice(q) \/ CommitReplace(q) \/ Abandon(q)
        \/ HandleSendDunningReminder(q) \/ SendLetter(q) \/ RecordDelivery(q)
        \/ ReminderCutShort(q)

Spec == Init /\ [][Next]_vars

-----------------------------------------------------------------------------
Rows == [status : {"draft", "issued"}, content : Contents, number : Nat, imported : BOOLEAN]

\* With sales_invoices_issued_is_complete: an issued document has a number, and
\* only an issued one.
TypeOK ==
    /\ documents \in [Documents -> {Absent} \union Rows]
    /\ \A d \in Documents : documents[d] # Absent => (Issued(d) <=> documents[d].number # 0)
    /\ counter \in Nat
    /\ entries \in Seq([document : Documents, key : Keys, number : Nat, content : Readings])
    /\ allocated \in [Documents -> Nat]
    /\ deliveries \subseteq [document : Documents, stage : 1 .. Stages]
    /\ letters \in Seq([document : Documents, stage : 1 .. Stages])
    /\ pc \in [Requests -> {"idle", "issuing", "priced", "replacing", "planned", "sent", "done"}]
    /\ work \in [Requests -> Works \union {NoWork}]
    /\ \A q \in Requests : pc[q] \in {"idle", "done"} <=> work[q] = NoWork
    /\ disturbed \subseteq Requests
    /\ muddled \subseteq Documents

\* "This is a legal requirement for invoices" (allocateInvoiceNumber): the numbers
\* on documents are 1 up to the counter, each once, unless two issues of one
\* document overlapped: the first number is then overwritten by the second.  An
\* imported document keeps its number to itself: the series stops before it.
GaplessUnlessMuddled ==
    LET ours == {d \in Documents : Issued(d) /\ ~ documents[d].imported}
    IN  /\ \A d, e \in Documents :
            Issued(d) /\ Issued(e) /\ documents[d].number = documents[e].number => d = e
        /\ muddled \intersect ours = {} =>
            {documents[d].number : d \in ours} = 1 .. counter

\* An issued document has one entry, with its number, its kind and its amount,
\* unless it was replaced or issued again between the reading and the posting of
\* its issue: "the invoice that goes out must be the one that gets posted".
IssuedAsPostedUnlessMuddled ==
    \A d \in Documents \ muddled :
        LET posted == {i \in DOMAIN entries : entries[i].document = d}
        IN  IF Issued(d)
            THEN documents[d].imported \/ \E i \in posted :
                    /\ posted = {i}
                    /\ entries[i].number = documents[d].number
                    /\ entries[i].content = documents[d].content
            ELSE posted = {}

\* "One reminder per stage, ever", and none below one that went out, unless two
\* requests overlapped or one was cut short between the letter and its record.
RemindersRiseUnlessMuddled ==
    [][\A q \in Requests :
        pc[q] = "planned" /\ pc'[q] = "sent"
            => \/ q \in disturbed
               \/ work[q].document \in muddled
               \/ \A i \in DOMAIN letters :
                    letters[i].document = work[q].document => letters[i].stage < work[q].due]_vars

\* Whoever has paid, or was credited, is not reminded, unless that happened while
\* the reminder was under way.
OnlyOwedIsChased ==
    [][\A q \in Requests :
        pc[q] = "planned" /\ pc'[q] = "sent"
            => \/ q \in disturbed
               \/ LET d == work[q].document
                  IN  documents[d].content.amount > allocated[d] + Credited(d)]_vars

=============================================================================
