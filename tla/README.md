# klopt: a verification development

klopt is a Dutch bookkeeping system: a double-entry journal with a hash chain,
and around it purchase and sales invoices, bank statements, payment batches, VAT
returns, year closes and an event stream. Everything lives in one PostgreSQL
database. Web requests, background jobs and the CLI reach it through
transactions that run concurrently, so what is hard about this program is what
two transactions do to each other, and what is left when one of them stops
halfway.

This directory holds TLA+ modules of that behaviour, TLC configurations that
check them on small instances, and TLAPS proofs for every value of the
constants. `PROJECT.json` ties every definition to the lines it models.

| file | what it is |
| --- | --- |
| `Journal.tla` | what the posting API promises, without a database |
| `Ledger.tla`, `LedgerProofs.tla` | the posting path as concurrent transactions, and its theorems, the refinement of `Journal` included |
| `YearClose.tla`, `YearCloseProofs.tla` | closing fiscal years over the journal |
| `Payments.tla` | payment batches, payment runs, approval, export |
| `Purchase.tla` | purchase invoices against the creditors control account |
| `Callers.tla` | the actors and requests that both tell apart |
| `CreditorsProofs.tla` | the theorems of `Purchase` and `Payments` |
| `Sales.tla`, `SalesProofs.tla` | sales invoices: numbering, issuing, replacing, importing, reminding |
| `BankImport.tla` | importing statements |
| `BankMatching.tla` | confirming, ignoring, reversing and retrying the match of a bank line |
| `BankProofs.tla` | the theorems of `BankMatching` and `BankImport` |
| `Webhooks.tla`, `WebhooksProofs.tla` | the outbox and its delivery to a subscriber |
| `Members.tla`, `MembersProofs.tla` | members, invitations and the claim at sign-in |
| `SumTheorems.tla` | the lemmas about sums over finite sets that the proofs share |
| `MC*.tla`, `*.cfg` | the instances TLC checks |

## The system

Every write runs in one transaction opened by a `with...` function of
`packages/db/src/unit-of-work.ts`, at READ COMMITTED: each statement sees what is
committed when it starts. Reads of reports are REPEATABLE READ; only
`withMembers` is SERIALIZABLE. No statement is a `SELECT ... FOR UPDATE`. What
serialises writers is therefore only what PostgreSQL does by itself: the row lock
of an upsert, unique indexes, check constraints and triggers.

| component | state | operations | what makes it correct |
| --- | --- | --- | --- |
| Journal posting (`core/ledger/posting.ts`, `db/repositories/ledger.ts`, migration 0001) | `journal_entries` and lines, `number_sequences`, `idempotency_keys`, `account_period_balances`, `periods.status` | post, bulk post, reverse, import an audit file, dry run, replay | an unforked dense hash chain, gapless entry numbers, one entry per key, one reversal per entry, balances that equal the journal |
| Trial balance and reports (`db/repositories/reporting.ts`) | none: reads the balances | trial balance, balance sheet, profit and loss | the sheets balance, opening plus movement is closing |
| Year close (`core/ledger/year-close.ts`, `handlers/compliance.ts`) | `year_closes` | close, preview | a year is closed once and as a whole, and as it was when it was closed |
| Payment batches (`core/payments`, `handlers/payments.ts`) | `payment_batches`, `payment_instructions`, `payment_allocations` | create, add, remove, payment run, submit, approve, reject, reopen, download | approved by another human, the file is what was approved, no document is paid twice |
| Purchase invoices (`core/purchase`, `handlers/purchase.ts`) | `purchase_invoices` | capture, book, approve, dispute, resolve, cancel | open items equal the control account, an approval is current and a human's |
| Sales (`core/sales`, `handlers/sales.ts`) | `sales_invoices`, `invoice_deliveries`, the invoice number | draft, replace, issue, import, credit, remind | invoice numbers without gaps, what is issued is what is posted, one reminder per stage and only to who owes |
| Bank (`core/bank`, `handlers/bank.ts`) | statements, transactions, allocations | import, confirm, ignore, release on reversal | a line is imported once, is in the books once, and settles what the books say it settles |
| Outbox and webhooks (`db/outbox.ts`, `db/webhooks`) | `outbox`, endpoint cursors and counts | enqueue, deliver, retry, switch off, replay | every committed event is delivered, in order, at least once |
| Members (`handlers/members.ts`, `db/auth.ts`) | `entity_members`, `entity_invitations` | invite, accept at sign-in, set role, remove, revoke | there is always an owner; who was put out stays out |
| VAT (`core/vat`, `handlers/vat.ts`) | VAT returns, period locks | build, file, poll, correct | a return says what the journal says of its period |
| Snapshots and retention (`core/snapshot`, `core/retention`) | seals | seal, verify, purge | a chain of seals that nothing breaks |
| Inbound documents, imports from Exact and Moneybird | queues, cursors | poll, import | a document is taken once |
| OAuth, tokens; UBL, pain.001, camt, XAF; adapters; UI, CLI, MCP | | | protocols, conversions, I/O and clients |

How they interact: invoices, bank matching, VAT filing and year closes post
through the same posting path, inside their own transaction; all of them append
an event to the outbox in that transaction, and the delivery job reads the outbox
afterwards. Payment runs read the status and the allocations of purchase invoices.
Bank matching settles sales documents, and dunning reads what it settled. A VAT
filing soft-closes periods, which posting reads. A reversal releases the bank
match of the entry it reverses, and no other document hears of it.

What is hard here, line by line, is the list "hazards" of `PROJECT.json`.

How the modules fit together: `Ledger` implements `Journal`, and every other
module that posts (`YearClose`, `BankMatching`, `Purchase`, `Sales`) uses that
promise: a post is one step, the commit of its request, it is answered by an earlier entry if its
key was used for the same command, and it is refused if the key was used for
another. What those modules add is what their own transaction read before it
waited for the chain lock, and nothing of what the lock protects.

A convention of the newer modules. The code often decides on a row it read and
updates that row by id, whatever it has become, so many a promise holds only as
long as two requests do not overlap on the same row. Such a module keeps history
variables that record exactly the overlap (`disturbed`, `muddled`, `contended`,
`raced`, `outdated`). They guard nothing: every interleaving is in the model. A
property named `...UnlessMuddled` and the like says what is true of everything the
overlap did not touch, which is much more than that it is true without
concurrency: the other rows, requests and documents go on overlapping.

## Ledger: the posting path

`Ledger` models one administration; each row of the ledger is keyed by its entity,
so administrations do not meet. A request `t` is one transaction. It has one item,
a key and a command, or the items of an audit file, which `handleImportXaf` posts
one after the other under keys it derives from the caller's (`ItemsOf`). Its control
state `pc[t]` is the last statement group another transaction can fall behind:

| action | code | what it does |
| --- | --- | --- |
| `HandlePostJournalEntry`, `HandleReverseJournalEntry` | the endpoints, a bulk item, or a post by another handler | builds the command, then `Arrive` |
| `HandleImportXaf` | `handleImportXaf` | begins with the first entry of the file |
| `ReplayCheck`, in the actions above and in `NextItem` | the replay check of `postJournalEntry` | a recorded key answers with its entry, or refuses another command; a dry run skips it |
| `LoadContext` | `loadPostingContext`, validation, the reversal target | reads without locks, and refuses, previews or goes on |
| `AllocateChainPosition` | `allocate_number` on `__chain`, then on the journal and year | waits for the row lock, reads the end of the chain |
| `InsertEntry` | inserts with `check_period_open`, the reversal index, the key's primary key | writes the entry, its key, counters and balances into `own`, or the transaction aborts |
| `NextItem` | the loop of `handleImportXaf` | the replay check of the next entry, with the lock held |
| `Commit` | the commit | what is in `own` becomes visible, the lock is released |
| `Rollback` | a crash or lost connection | nothing is left |
| `SoftClose` | `lockPeriods` of a VAT filing | |
| `HardClose` | an operator in the database: no endpoint does it | |

What is committed is `tables` (journal entries, idempotency records, counters and
balances) and `status`. Who holds the chain lock is the only one who has written
anything, so one copy `own`, the tables as the holder sees them (`Seen`), is all
that has not been committed. `draft` is the entry between its number and its
insert, `answer` the entries that the items of a request were answered with. The
n-th entry that request `t` posts has the id `<<t, n>>`, which stands for its hash:
the hash covers the id. A command's lines are a set; a line has an account, a
currency and its amount in that currency and in the functional one. Sums that
decide (an entry balances in functional amounts, and in its currency when it has
only one) are computed. Chart-of-accounts, tax and dimension checks are refusals by
the same branch and are abstracted. `LoadContext` takes the reads of the period and
of the reversal target as one: the triggers and indexes check both again. The
release of a bank match by a reversal is an action of `BankMatching`.

`Journal` is the promise: a growing set of facts and one answer for each request,
an entry for each thing it asked, posted by itself or before it under the key, or
a refusal without a trace. What a request posts is added all at once (`Answer`), each
key once and each reversal once. `Ledger!ImplementsJournal` maps committed entries
to facts and control states to outcomes; a request takes effect at its commit.

## YearClose: closing fiscal years

A close reads the trial balance and plans its two entries without a lock
(`BeginClose`), posts the appropriation and the opening balance with the chain
lock held (`PostAppropriation`, `PostOpening`), and records the close
(`RecordYearClose`), all in one transaction. Meanwhile others post, reverse
entries (those of a close included) and hard-close years. A post by others is one
step, its commit, which `Ledger!ImplementsJournal` justifies (the entries of an audit
file, which commit together, are several such steps in a row), and trial balances
add up the journal, which `Ledger!BalancesAreTheJournal` justifies. A year has one
period and amounts are functional. Everything that is read before the first lock
is read in one step; each close has its own idempotency key.

## Payments: batches, runs, approval and export

A request is one transaction whose first step reads the batch and whose last is
its commit. Between the two others commit, and nothing repeats what was read: an
insert does not look at the batch's state, and the UPDATE of a transition is by id
alone. What holds regardless are the unique index on end-to-end ids and the
constraint that the approver is not the submitter, and those are guards of the
commit. `HandleTransitionBatch` and `HandleGetBatchPain001` read, `Decide` is the
second read in `transition` with `nextState`, `CommitBatchTransition` the UPDATE
and, for a download, the file. A payment run (`Payable`, `Allocations`, `Net`,
`PaymentRun`) is the pure planning of `run.ts`; that two end-to-end ids may agree in
the 35 characters that are kept of them (`run.ts:129`) is left out. The status of a
document changes in one step (`MoveInvoice`), as another handler's transaction.

The history variables are `raced` (batches two requests worked on at once),
`rivals` (two runs were prepared at once) and `seen` (what the approver's request
read).

## Purchase: capture to approval

A call is a read and a commit. `HandleCapturePurchaseInvoice` looks for a duplicate
number, `CommitCapture` meets the unique index, which counts cancelled invoices
though the search does not. `HandleBookPurchaseInvoice` reads a draft, `CommitBooking`
posts under the caller's key and marks the row booked by id; under a used key it
links the entry that is there. `HandleTransitionPurchaseInvoice` and
`CommitTransition` are approve, dispute, resolve and cancel with `ALLOWED`. A
reversal (`ReverseEntry`) leaves the invoice as it is. What a document says is its
kind and its total: its lines, tax and dates decide on refusals only. The invoices
are those of one supplier, since numbers are unique per supplier.

## Sales: draft to reminder

Issuing reads the row (`HandleIssueInvoice`), then the lines (`ReadLines`), then
draws the number, posts, marks the row and commits (`CommitIssue`, one step: the
counter's row lock and then the chain lock are held until the commit).
`HandleReplaceDraftInvoice` reads and `CommitReplace` repeats the status in its
UPDATE. `ImportInvoice` brings an open item with a number of another system. A
reminder decides (`HandleSendDunningReminder`), hands over a letter (`SendLetter`)
and only then records it (`RecordDelivery`); `ReminderCutShort` is a server that
stops in between. `Allocate` is the effect of bank matching on a document. The
model has one year and one series, which invoices and credit notes share as the
code's counter does. Prices, tax, contacts and the rendered document are the
amount.

## BankImport: importing statements

`HandleImportStatement` reads the last number of the account and plans: balances
that do not add up are refused, missing numbers are listed, every line gets its
key. `ApplyImport` is all that is written, each key under a unique index that
ignores conflicts, and the commit. A payment is what happened at the bank; an entry
of a file is a payment as this file shows it, with or without the bank's reference,
and what can be seen of it (`looks`), in which two payments may be alike.
`DedupeKey` decides as the code does: the reference if this file gives it, else the
id and number of the statement, the position in it and what is seen. The same
payment may therefore have several keys: a CSV has neither references nor ids nor
numbers (it may have a column of balances), MT940 and CAMT give one statement
different ids, and the pages of an MT940 statement share id and number.
`Recognisable` are the payments that the files at hand tell apart: those that have
their reference in every file, and those that are delivered in one place only.

## BankMatching: what a line settles

A confirmation reads the line (`HandleConfirmMatch`), then what is open of the
documents (`BuildMatch`), then posts, links and allocates (`CommitMatch`), under a
key that may have been used before. The command it posts does not name the line: it
has what the line looks like and what it settles (`Command`), so the same
confirmation of a look-alike line is, under the same key, a replay. Nothing is
posted then, and the line is linked to the other one's entry.
`HandleIgnoreTransaction` repeats its condition in the UPDATE and is one step.
`HandleReverseJournalEntry` releases one line that points at the reversed entry, any
of them if two do; `HandlePostJournalEntry` with a reversal target of its own is a
reversal that releases nothing. A line is what it can settle; its account, date and
direction do not decide. `muddled` are lines two requests confirmed at once, lines
that were linked to an entry whose reversal did not release them, and lines that
were linked to one entry with another (`MuddledBy`); `contended` are documents whose
open amount changed under a confirmation that had read it.

## Webhooks: outbox and delivery

An event is its id, which is drawn inside the transaction that makes the change,
so events commit in any order of ids (`EnqueueDomainEvent`). A round of the job
reads the endpoint (`Due`), reads a batch after the cursor it read
(`ReadPending`), and then makes an attempt (`Attempt`) and records it (`Record`)
event by event, each in a transaction of its own. Nothing keeps two rounds apart:
a second worker process, or a job the queue gives to another worker when it
expires. A subscriber may take an event without being heard. `Crash` ends a round
anywhere; `HandleReplayWebhook` rewinds the cursor, forwards too, and switches the
endpoint on; `RecordFails` is the foreign key of an endpoint that was deleted.
There is one endpoint, and others are there as what they do to it. A round takes at
most 50 endpoints of all administrations, in the order of their next attempt, which
has ties, and an endpoint with nothing to deliver is due all the same
(`db/repositories/webhooks.ts:117`). While `crowded` holds so many others are due
before it or level with it that a round may leave it out; `OthersComeAndGo` changes
that at any time. History variables: what was `taken`, which events committed `late`,
what a replay left out (`skipped`) or `asked` for again, the failures `inARow`, and
whether a round counted from an `outdated` reading (`miscounted`).

## Members: who may see an administration

The caller's role is read with the context of the request (`Authorize`), before
its SERIALIZABLE transaction takes its snapshot (`Open`). It commits
(`InviteAccount`, `InviteAddress`, `SetRole`, `RemoveMember`, `RevokeInvitation`) or
is refused (`Reject`), which includes a serialization failure when another write
overtook what it read. PostgreSQL may let such a transaction commit as if it had
come first: there is a behaviour of the model in which it does come first. A
sign-in is not a transaction: `SignIn`, `ReadInvitations`, `Join`, `Accept` and
`SignedIn` are its statements, and `SignInFails` an error between two of them, which
the code swallows. Invitations expire in any order. The founder is a member from
the start and no invitation waits for that address, so the founder's sign-ins
change nothing and are left out; a person signs in once at a time.

## Runs

| run | question | instance | distinct states |
| --- | --- | --- | --- |
| `ledger_safety` | is posting atomic, unforked, gapless, exactly-once? | three requests, two keys, two periods in two years, a sale and its reversals, an audit file before and after it grew to two entries | 0.7 million, symmetric in requests and keys |
| `ledger_liveness` | is every request answered, and are balances right per currency? | two requests, entries of two currencies, one that does not balance, one without a period, corrections that name a reversal target themselves, two audit files of which one fails | 37 thousand, no symmetry |
| `yearclose_safety` | is a year closed once, as a whole and as planned? | two closes, three years, two ordinary entries | 0.9 million, symmetric in closes |
| `payments_run` | is a document scheduled once? | two batches, two requests, an invoice and a credit note of one supplier, a bill of one without IBAN | 1.3 million |
| `payments_approval` | is the file what another human approved, exported once? | two people, a script, one batch, two typed payments | 0.4 million |
| `purchase` | do the open items add up to the ledger, and is an approval current? | five calls, two documents (an invoice of 2, a credit note of 1), two numbers, two keys, a human and a script | 24 thousand, symmetric |
| `sales` | are numbers gapless, is what is issued what is posted, who is reminded? | four calls, two documents, two keys, two stages, the foreign number 2 | 1.7 million |
| `bank_import` | is every line stored once and every gap reported? | two imports at a time, seven files: four statements, one of them in pages and one in two formats, an export and a truncated one; payments that look alike, in one file and in several | 1.4 million, symmetric |
| `bank_matching` | is a line in the books once, and does it settle what the books say? | two confirmations at a time, two lines of 2 that look alike, documents of 2 and 1, two keys, three entries | 2.6 million, symmetric |
| `webhooks_delivery` | is nothing skipped or reordered, and is everything taken in the end? | two rounds, two events in one batch, three failures, one crash or replay, others that crowd it out | 1.3 million |
| `webhooks_gaps` | is every committed event delivered? | one round, two events | counterexample |
| `members` | is there always an owner, and does who is put out stay out? | the founder and one other, four requests, two invitations | 1.1 million |

Why these bounds are enough to mean something.

* Three posting requests are the fewest in which one holds the lock, one waits
  behind it and one has committed: a retry, an original and a reversal fit. Two keys
  are enough for all three requests to have met one of them, and a file brings a key
  for each of its entries besides: two reversals of its entry meet under keys of their
  own. A file of two entries is the smallest that a close
  or a crash can fall into the middle of, and the shorter one makes its import again a
  replay in part; two years give two number sequences behind one chain. Two requests
  that name a reversal target themselves are in `ledger_liveness`; its invariant and
  its liveness need no third.
* Two closes race, three years let a close carry into a year that is itself closed
  and leave one without a successor; `MaxOrdinary` bounds what others post and is
  the only bound of that module.
* The files of `BankImport` repeat, overlap, skip a number, fill it, come with and
  without references and with another id. The two lines of `BankMatching` look alike, so
  that a key used for one is a replay for the other, and their documents can be
  settled by either or in two parts.
* In `Payments`, `BankImport` and `BankMatching` a request is a slot that is
  reused: a behaviour is any sequence of requests, two at a time. `MaxExports`
  stops a third export of the same batch from beginning. `MaxImports` (6) allows
  files that overlap, a gap, a file that fills it, and repetitions of each. `MaxEntries` (3) allows a
  match, its reversal and two more under either key.
* In `Purchase`, `Sales` and `Members` a request is made once, so their number is
  the length of the story: capture, book, approve, dispute, resolve is five;
  two issues of two documents, a replacement and a reminder, or two reminders
  behind two issues, are four; two owners who remove each other and two more
  requests about either are four. Reversals, payments, sign-ins and expiries come
  on top and are not counted.
* Two events in a batch of two have a first, a second and a rest of a batch; three
  failures leave room for a count that is out of date by one and is still below
  the limit; `MaxUpsets` lets one crash or one replay happen anywhere. The theorems
  of `WebhooksProofs` have none of these bounds.

Deadlock is checked in `Ledger`, `YearClose` and `Payments`, where the place to stop
is known; in the other modules requests that are made once, or `MaxImports` and
`MaxEntries`, let a behaviour end, and their runs say so.

Fairness is used by two runs. In `Ledger`, `FairSpec` asks weak fairness of each
request's own statements: a statement that can run does, and PostgreSQL grants a
row lock to a waiter once it is free. Arrivals, crashes and closes are owed nothing.
Weak fairness is enough, since each request acquires the lock once and there are
finitely many of them. In `Webhooks`, `FairSpec` asks that a round takes the endpoint
while it is due and not crowded out (the job is scheduled every minute and takes what
is due up to its limit), that a round goes on (an attempt has a
timeout, a record is one short transaction) and that a back-off ends (time passes).
The subscriber is owed nothing: it may answer nothing for ever. Crashes are not
fair and at most `MaxUpsets` happen, since a worker that always dies delivers
nothing. The crowd may stay as well: `EventuallyTakenUnlessCrowded` promises something
only if it is gone for good at some time, as it is for every installation of at most
50 enabled endpoints.

## What the runs found

One run is a counterexample to what the repository says of itself, and
`PROJECT.json` lists it: `webhooks_gaps`. The id of an event is drawn before its
transaction commits, and the cursor moves past it when a larger one commits first;
the event is never delivered, and a poll of `/events` by cursor misses it the same
way (migration `0028_webhooks.sql:16`: "ordered, at-least-once, and resumable").

The other divergences that were met while the code was modelled. The modules have
the behaviour, as the source has it; the properties next to it say what holds all
the same.

* *Posting.* `soft_closed` keeps nobody out who read the period before the filing
  committed. A hard close ("posting into a closed period is impossible",
  migration `0001_ledger_guards.sql:205`) is overtaken by the transaction that held
  the chain lock and had inserted its entries: by one, or by all that an audit file
  posts into the period (`handlers/compliance.ts:513`). It is overtaken by no second
  transaction (`HardCloseOvertakenByOne`, proved). A trial balance of an
  administration with entries in two currencies does not balance: balances are kept
  in the currency of the line and the report selects the functional currency's rows
  (`db/repositories/reporting.ts:104`); the balances themselves are right
  (`BalancesAreTheJournal`).
* *Year close.* A year that traded and broke even cannot be closed: its
  appropriation has a line without an amount (`core/ledger/year-close.ts:137`),
  which posting refuses. After a close that carries forward, the next year's trial
  balance counts every carried balance twice (`reporting.ts:65`). "Reverse the close
  first" (`handlers/compliance.ts:562`) does not reopen a year.
* *Payments.* An instruction can be added to a batch after its approval by a request
  that read it as a draft, and is sent (`handlers/payments.ts:140`). A document that
  is disputed after it was scheduled is still paid.
* *Purchase.* `isDuplicate` leaves out cancelled invoices and the unique index does
  not, so the number of a cancelled draft cannot be captured again. A reversal of a
  booking leaves the invoice open, and a booking that overtakes another posts twice.
  `recordBankPayment` (`db/repositories/purchase.ts:828`) is called by the demo data and
  tests only: no endpoint settles a purchase invoice from a bank line.
* *Sales.* Two issues of one draft both succeed, and the second number overwrites the
  first: a hole in a series that must have none. An imported number in the format of
  the series stops the series when it gets there, for ever: the issue is refused and
  the counter rolls back with it. "One reminder per stage, ever" is broken by two
  requests at once and by a stop between the letter and its record.
* *Bank.* Confirming again under the key of an entry that was reversed links the line
  to the reversed entry. Confirming a line that looks like another under the key of the
  other's confirmation posts nothing: both lines are matched to one entry and the
  document is settled twice (`handlers/bank.ts:497`: neither key nor command has the
  line), and a reversal then releases one of them. Reversing through `handlePostJournalEntry` releases nothing.
  Two partial confirmations at once can settle a document in full and announce
  nothing, or overpay it. `matchCandidates` does not subtract credit notes, dunning
  does. The last statement number may go backwards, and gaps are then reported
  wrongly or not at all. A payment with a reference that also comes in a CSV, which
  never has it (`core/bank/csv.ts:327`), is stored twice; so is one without a reference
  that comes in MT940 and in CAMT, whose statement ids differ. Of lines that look alike
  at the same position of two CSV files, or of two pages of an MT940 statement, the
  second is taken for the first and lost.
* *Webhooks.* One failure after a success in the same batch goes on counting where
  the round found the endpoint, and switches it off early. A replay during a round is
  undone by the round's next record. Among more than 50 enabled endpoints, of whatever
  administrations, one may never be served: idle ones stay due, and nothing orders
  those that are level (`db/repositories/webhooks.ts:130`).
* *Members.* The last owner can be invited again under a lesser role, and nobody is
  owner (`db/repositories/members.ts:211` against `core/auth/membership.ts:10`). A
  claim that is cut short between the membership and the mark on the invitation lets
  the person in again after a removal.

## What is proved

Every invariant and every action property that the runs check is a theorem, and so
is the refinement of `Journal`: it holds for every value of the constants, for all
finite or infinite sets of requests, keys, batches, lines, actors and people, and
whatever the bounds are. Only what a sum ranges over is finite: the lines of a
command, the accounts, the documents of `Payments` and `Sales`, the statements of
a file; events are finitely many too.

The assumptions are those of the modules, which TLC evaluates on every instance:
`LedgerConstants`, `CommandsAreRaw`, `YearCloseConstants`, `CallersConstants`,
`PaymentsConstants`, `PurchaseConstants`, `SalesConstants`, `BankMatchingConstants`,
`BankImportConstants`, `WebhooksConstants` and `MembersConstants` say that null
values are not values and that constants have their types. Two say more.
`PostingsBalance`: what others post into `YearClose` balances, which is a guard in
`Ledger` (`Balanced`). `BankReferences`: a statement lists a payment once, and the
reference a bank gives is of one payment (it is
"unique within the account and survives a re-export", `core/bank/import.ts:13`). It is about the bank, not about the code, and only
`StoredIsTheBanks` uses it; the files of users may overlap, repeat, be cut short, leave
references out and number statements as they like.

*Sums* (`SumTheorems`). Balances, allocations and open items are sums over finite
sets, `SumFunctionOnSet`, and the library has no theorem about them. The module
proves what all the others cite: one element more or less (`SumWith`,
`SumWithout`), disjoint unions (`SumOfUnion`), sums of sums (`SumOfSum`), zeros,
opposites, monotonicity, parts, and a change of indices (`SumRenamed`). A sum is a
fold by a recursive function that takes the elements in the order of `CHOOSE`. That such a function
exists, and that the order does not matter, are inductions on the size of the set.
Induction principles with an operator as parameter cannot be instantiated by the
provers, so `SubsetInduction` and `FiniteInduction` are stated with a *set* of
sets `Good` in its place, and are proved from `WFMin` of the library.

*LedgerProofs*. None of the safety invariants is inductive: `ChainIntact` does not
say that the draft of the lock holder still is the next in line. `LedgerInv` says of
both copies of the tables, the committed one and `own`, that they are a chain,
gapless and reversed once (`Whole`), and adds what a transaction may rely on: it
alone holds the lock and only it has written (`LockHeld`), what it allocated is still
next (`DraftIsNext`), what it checked was a posting into a period (`Checked`), an
entry is the answer to one item of one request and a key has one entry
(`EntriesOwned`, `KeysUnique`, `KeysRecorded`, `Answers`), and nothing
uncommitted is of a period whose close was overtaken (`Overtaken`). From it: `TypeCorrect`, `ChainIsIntact`, `NumbersAreGapless`,
`PostsExactlyOnce`, `ReversesOnce`, `HardCloseIsOvertakenByOne`, and
`LedgerImplementsJournal`, that every behaviour of the posting path is one of
`Journal`: `Commit` maps to `Answer` with all entries of the request at once, what ends
without an entry to `Decline`, all else stutters. `BalancesAddUpTheJournal`: an insert
adds to each balance of `own` what it adds to the sum of its lines, which needs that
the entry is new; a commit shows both.

*YearCloseProofs*. `ClosedOnce` rests on the unique index and `CloseIsWhole` on the
fact that the entries and their record appear in one step at the positions the
record names. The two and "the journal is a sequence" are inductive together; the
work is in what a concatenation does to positions. `YearInv` adds that every entry
balances (`Balanced`) and that a plan stays what it was made of (`PlansHold`): it is
sound, whatever was posted since (`PlanIsSound`), and current as long as nobody has
overtaken it (`PlanIsCurrent`). `BalanceSheetsBalance` then exchanges two sums, over
entries and over accounts; `ClosesApplyTheirPlans` computes the trial balance after
the two entries from the one before them.

*CreditorsProofs*, purchase invoices. A transition decides on a state it read:
`UndisturbedIsDraft` says that a booking nobody disturbed still finds the draft it
read, and `WorkIsSound` and `LinksAreSound` tie the command in hand and the entry an
invoice points at to what was captured (`TypeCorrect`, `ApprovalIsCurrent`).
`SubledgerReconciles` needs more than any of them: `BookedOnce`, that of an invoice
nobody muddled there is one entry exactly when it is open and none otherwise, with
`EntriesSayInvoices` (an entry says what its invoice says) and
`UndisturbedIsAllowed` (what an undisturbed request is about to do is still
allowed). The sum over entries is then that over invoices, renamed.

*CreditorsProofs*, payments. `ApprovalIsByAnother` holds though `nextState` decides
on a submitter that may have changed since: the proof uses the check constraint
and, of the decision, only that an approver is human. `DocumentIsSettledOnceInABatch`
needs that an instruction that settles documents carries the end-to-end id of their
supplier, in the table and in what any request is about to insert (`Sound`); then
the unique index does the rest, whatever two runs have read. The other three are
promises for requests that do not overlap. `Steady` says that without rivals all
instructions, and those one run is about to insert, are `Covered`: each settles its
documents whole (`Whole`) and no two the same one (`OneEach`); so what is
scheduled of a document is nothing or all of it (`DocumentsAreScheduledOnce`), and
a run finds as unscheduled only what nobody settles. `Unraced` says that a batch no
two requests worked on has at most one of them in flight (`Alone`), whose reading
is current (`Fits`), and a row whose file, approval and count of exports belong
together (`RowIsClean`): `SentWasSeen`, `ExportedOnce`.

*SalesProofs*. `UndisturbedIsCurrent` says that what an issue has read is still what
the row says if nobody disturbed it; `LettersAreAccountedFor`, that every letter is
recorded, about to be, or of a document that is muddled; `PlannedIsAbove`, that the
stage a request is about to send is above all letters unless it was disturbed.
`WhoIsChasedOwes` needs `PlannedIsOwed`, which every other step must leave alone: what
is open of a document depends on the credit notes of other documents, so the proof
shows for each step that it changes the outstanding amount only of documents whose
reminders it disturbs. That the maximum of a finite set is at least its elements is
proved along the way.

*BankProofs*, matching. `LineIsBookedOnce` from `OnePerLine` (of the lines that are
not muddled, at most one confirmation is under way and it found the line without an
entry) and `LinksAreSound` (such a line shares the entry it points at with no other line). A reversal may find
several lines at an entry and releases one; `OneIsReleased` and `ReversalFrees` say
that for a line that is not muddled it is that one.
`SettledIsBooked` adds that the allocations of a line are those of the entry it
points at (`AllocatedAsBooked`), a correspondence of sets, of which the equality of
sums follows. `NothingIsOverpaid` and `PaidIsAnnounced` rest on `OpenIsCurrent`: a
confirmation that nobody contended is the only one on its documents and what it
read as open is still open.

*BankProofs*, imports. `ImportInv` says that every key of every imported file is
stored and that every row is an entry of a file that was imported
(`RowsAreImported`); a repeated file therefore adds nothing (`ReimportsAddNothing`).
`StoredIsTheBanks` maps each place of a statement to the row with its key, whoever
brought it. For a statement of recognisable payments the map is one to one and onto
the rows of its payments (`KeysTellApart`, `RecognisedByKey`, `EveryEntryHasItsRow`),
so both sums are the same, and `balance_walk_mismatch` has compared one of them with
the bank's. For
`GapsAreReported`, `InOrder` says that while imports are in order the last number is
the highest, and that a plan was made from it.

*WebhooksProofs*. `Behind` says that the cursor has passed nothing the subscriber is
still owed, and that what a round has passed over was taken; it survives the cursor
moving backwards and other rounds' records, and gives `NothingIsSkipped` and, as
action properties, `CausesComeFirst`; with what was asked for again it gives
`ReplaysAreHonoured`. `Counts` relates the failures a round read to those in a row,
and gives `GivesUpLate`.

*MembersProofs*. `LastOwnerStays` is the essence of SERIALIZABLE: a removal that
commits has seen the owners there are. `PutOutStaysOut` and
`ClaimIsComplete` follow what a claim still has in hand (`SignInsAreSound`,
`ClaimsAreComplete`) and that nothing waits for who is out (`OutIsOut`).

Only model-checked: liveness (`EveryRequestAnswered`, `EventuallyTakenUnlessCrowded`), since
fairness and ENABLED are out of the prover's reach. `NoGaps` is the property that a
run refutes.

## Not modelled

* *VAT returns and filing* (`handlers/vat.ts`), beyond the soft close in `Ledger`. A
  filing adds up a period and locks it in one transaction while entries that have
  read the period as open are on their way: the race is the one `Ledger` shows for a
  soft close. The life cycle of a submitted return is next in the plan.
* *Snapshots and retention*: a chain of seals over what is already an append-only
  chain; it adds state of its own and is in the plan.
* *Inbound documents*: a queue that is polled, with a back-off; in the plan.
* *Imports from Exact and Moneybird*: mappings of foreign records, which post through
  the modelled path.
* *Suggestions, learned rules, opening an account, CSV mappings*: they propose, or are
  plain inserts; parsing a statement file is a conversion.
* *Contacts, tax codes, the text and sending of an invoice, the layout of reports,
  XAF and RGS, UBL, pain.001, camt*: conversions between records and documents.
* *OAuth, sessions and tokens*: a permission is a condition on who makes a request
  (the seniority of a posting, the kind of an actor, the role of a member).
* *The audit log*: a row that is written after the transaction of the handler, and
  whose failure is swallowed.
* *Adapters, the web interface, the CLI and the MCP server*: I/O and clients of the
  same endpoints, without state the ledger depends on. They are the larger part of
  the repository's lines, which is why the share of lines the modules cover is small.

## The plan

1. `Vat`: the sum that is filed against what is posted while it is filed, and the
   life cycle of a submission that is polled and corrected.
2. `Snapshots` and the inbound queue, as far as they add state of their own.
3. Proofs: what holds of every row without the exceptions of the overlap, where the
   code's own locks allow it, and the theorems of the modules above.

The modules are written so that they can be proved about too: no recursive
operators, one action for each operation, named conjuncts.
