----------------------------- MODULE BankMatching -----------------------------
(***************************************************************************)
(* Matching bank lines with sales documents: handleConfirmMatch and        *)
(* handleIgnoreTransaction (apps/web/src/api/handlers/bank.ts), the        *)
(* release of a match when its entry is reversed (handlers/ledger.ts), the *)
(* repository packages/db/src/repositories/bank.ts and the entry of        *)
(* packages/core/src/bank/posting.ts.                                      *)
(*                                                                         *)
(* A confirmation is one READ COMMITTED transaction.  It reads the line,   *)
(* then the open documents, and writes with what it read: no row is locked *)
(* and the UPDATE does not repeat the status that was read.  Posting takes *)
(* the chain lock of Ledger and keeps it until the commit, so what is      *)
(* written from there on is one step.  The documents are issued; matching  *)
(* does not look at the direction of a line, so a line is what it can      *)
(* settle.                                                                 *)
(*                                                                         *)
(* The entry that is posted does not say which line it is for, so the same *)
(* request for a line that looks the same is, under the same key, a retry. *)
(***************************************************************************)
EXTENDS Integers, Sequences, FiniteSets, Functions

CONSTANTS
    Requests,   \* confirmations in flight
    Lines,      \* bank_transactions, none of them zero
    Available,  \* what each line can settle: its amount, unsigned, and the
                \* charges the bank kept
    Looks,      \* what an entry shows of each: dates, amount, counterparty, bank account
    Documents,  \* issued sales invoices and credit notes
    Total,      \* the total of each document
    Keys,       \* idempotency keys
    NoEntry,    \* a null journalEntryId
    NoWork,     \* a request that does nothing
    MaxEntries  \* bound: match entries that are ever posted

ASSUME BankMatchingConstants ==
    /\ Available \in [Lines -> Nat \ {0}]
    /\ Total \in [Documents -> Nat \ {0}]
    /\ MaxEntries \in Nat
    /\ NoEntry \notin Nat

VARIABLES
    lines,       \* bank_transactions: [status, entry]
    allocations, \* bank_transaction_allocations: {[line, document, amount]}
    entries,     \* the match entries in the journal, in order: [key, command, line],
                 \* of which the line it was posted for is history
    reversed,    \* those that have a reversal entry
    paid,        \* outbox: how often each document was announced as paid
    pc,          \* where each request is
    work,        \* what it has read and decided
    muddled,     \* history: lines confirmed by two requests at once, linked to an
                 \* entry whose reversal did not release them, or to one entry
    contended    \* history: documents whose outstanding amount changed under a
                 \* confirmation that had read it

vars == <<lines, allocations, entries, reversed, paid, pc, work, muddled, contended>>

-----------------------------------------------------------------------------
SumAmounts(rows) == SumFunctionOnSet([a \in rows |-> a.amount], rows)

AllocationsOf(l) == {a \in allocations : a.line = l}
Allocated(d) == SumAmounts({a \in allocations : a.document = d})

\* Mutant of Outstanding: allocations are not subtracted.
OutstandingInvoiced(d) == Total[d]

\* matchCandidates: what is still open of a document.
Outstanding(d) == Total[d] - Allocated(d)

\* What a confirmation may settle: open documents, each once and at most for what
\* is open, which is kept as `open`.
Settlements ==
    {s \in SUBSET UNION {[document : {d}, amount : 1 .. Outstanding(d), open : {Outstanding(d)}] :
                            d \in Documents} :
        \A a, b \in s : a.document = b.document => a = b}

\* buildBankMatchEntry: the allocations are covered by the line and the charges,
\* and the remainder has an account.
Fits(l, s) == SumAmounts(s) <= Available[l]

\* Mutant of Closes: the invoice must be overpaid to count as paid.
ClosesWhenOverpaid(a) == a.amount > a.open

\* The allocation covers what was open when it was read.
Closes(a) == a.amount >= a.open

\* What hashCommand sees of a confirmation: not the line, but what it looks like.
Command(w) ==
    [looks |-> Looks[w.line],
     settles |-> {[document |-> a.document, amount |-> a.amount] : a \in w.settles}]

-----------------------------------------------------------------------------
Init ==
    /\ lines = [l \in Lines |-> [status |-> "unmatched", entry |-> NoEntry]]
    /\ allocations = {}
    /\ entries = << >>
    /\ reversed = {}
    /\ paid = [d \in Documents |-> 0]
    /\ pc = [r \in Requests |-> "idle"]
    /\ work = [r \in Requests |-> NoWork]
    /\ muddled = {}
    /\ contended = {}

\* The transaction ends, and the slot is free for another request.
End(r) ==
    /\ pc' = [pc EXCEPT ![r] = "idle"]
    /\ work' = [work EXCEPT ![r] = NoWork]

\* Mutant of Confirmable: a booked line can be booked again.
ConfirmableAgain(status) == TRUE

\* An ignored line can be confirmed, a booked one cannot.
Confirmable(status) == status # "matched"

At(l) == {q \in Requests : pc[q] # "idle" /\ work[q].line = l}

\* findTransaction has read the line.
HandleConfirmMatch(r, l) ==
    /\ pc[r] = "idle"
    /\ Confirmable(lines[l].status)
    /\ pc' = [pc EXCEPT ![r] = "found"]
    /\ \E k \in Keys : work' = [work EXCEPT ![r] = [line |-> l, key |-> k]]
    /\ muddled' = IF At(l) = {} THEN muddled ELSE muddled \union {l}
    /\ UNCHANGED <<lines, allocations, entries, reversed, paid, contended>>

\* The documents that requests other than r are about to settle.
BeingSettled(r) ==
    {d \in Documents : \E q \in Requests \ {r} :
        pc[q] = "built" /\ \E a \in work[q].settles : a.document = d}

\* matchCandidates and buildBankMatchEntry.
BuildMatch(r) ==
    /\ pc[r] = "found"
    /\ \E s \in Settlements :
        /\ Fits(work[r].line, s)
        /\ work' = [work EXCEPT ![r] = [line |-> work[r].line, key |-> work[r].key,
                                        settles |-> s]]
        /\ contended' = contended \union {d \in BeingSettled(r) : \E a \in s : a.document = d}
    /\ pc' = [pc EXCEPT ![r] = "built"]
    /\ UNCHANGED <<lines, allocations, entries, reversed, paid, muddled>>

\* findIdempotencyRecord: the entries that were posted under key k.
PostedUnder(k) == {n \in DOMAIN entries : entries[n].key = k}

\* The index bank_allocations_unique.
AllocationFree(l, s) ==
    \A a \in s, b \in allocations : <<l, a.document>> # <<b.line, b.document>>

\* recordMatch, which writes over whatever the line has become.
Matched(n) == [status |-> "matched", entry |-> n]

\* The lines that point at entry n.
LinkedTo(n) == {l \in Lines : lines[l] = Matched(n)}

\* The lines that are muddled when line l is linked to entry n: l if n is reversed
\* already, and all that share n if it was posted for another line.
MuddledBy(l, n) ==
    {m \in Lines :
        \/ m = l /\ n \in reversed
        \/ m \in {l} \union LinkedTo(n) /\ n \in DOMAIN entries /\ entries[n].line # l}

\* postJournalEntry, recordMatch, the events and the commit.  Under a key that was
\* used for the same command nothing is posted, and that entry is linked, also when
\* it was posted for a line that looks the same.
CommitMatch(r) ==
    /\ pc[r] = "built"
    /\ LET w == work[r]
           used == PostedUnder(w.key)
           n == IF used = {} THEN Len(entries) + 1 ELSE CHOOSE m \in used : TRUE
       IN  /\ used = {} => n <= MaxEntries
           /\ used # {} => entries[n].command = Command(w)
           /\ AllocationFree(w.line, w.settles)
           /\ entries' = IF used # {} THEN entries
                         ELSE Append(entries, [key |-> w.key, command |-> Command(w),
                                               line |-> w.line])
           /\ lines' = [lines EXCEPT ![w.line] = Matched(n)]
           /\ allocations' = allocations \union
                {[line |-> w.line, document |-> a.document, amount |-> a.amount] : a \in w.settles}
           /\ paid' = [d \in Documents |->
                IF \E a \in w.settles : a.document = d /\ Closes(a) THEN paid[d] + 1 ELSE paid[d]]
           /\ muddled' = muddled \union MuddledBy(w.line, n)
    /\ End(r)
    /\ UNCHANGED <<reversed, contended>>

\* A refusal after the first read, a failed constraint, a crash: a rollback.
Abandon(r) ==
    /\ pc[r] # "idle"
    /\ End(r)
    /\ UNCHANGED <<lines, allocations, entries, reversed, paid, muddled, contended>>

\* ignoreTransaction: the UPDATE repeats its condition.
HandleIgnoreTransaction(l) ==
    /\ lines[l].status = "unmatched"
    /\ lines' = [lines EXCEPT ![l].status = "ignored"]
    /\ UNCHANGED <<allocations, entries, reversed, paid, pc, work, muddled, contended>>

\* Mutant of Released: the allocations of the line stay.
ReleasedKeepsAllocations(l) == {}

\* releaseMatchForReversedEntry deletes every allocation of the line.
Released(l) == AllocationsOf(l)

\* A line that waits to be booked.
Unlocked(row) == [row EXCEPT !.status = "unmatched", !.entry = NoEntry]

\* The reversal is posted, and a line that still points at the entry is unlocked:
\* one of them, if several do.
HandleReverseJournalEntry(n) ==
    /\ n \in DOMAIN entries \ reversed
    /\ reversed' = reversed \union {n}
    /\ \E released \in SUBSET LinkedTo(n) :
        LET rows == UNION {Released(l) : l \in released}
        IN  /\ Cardinality(released) = IF LinkedTo(n) = {} THEN 0 ELSE 1
            /\ lines' = [l \in Lines |-> IF l \in released THEN Unlocked(lines[l]) ELSE lines[l]]
            /\ allocations' = allocations \ rows
            /\ contended' = contended \union
                 {d \in Documents : /\ \E a \in rows : a.document = d
                                    /\ \E q \in Requests : pc[q] = "built"
                                         /\ \E a \in work[q].settles : a.document = d}
    /\ UNCHANGED <<entries, paid, pc, work, muddled>>

\* handlePostJournalEntry takes an entry that names the entry it reverses.  That is
\* a reversal too, and it releases nothing.
HandlePostJournalEntry(n) ==
    /\ n \in DOMAIN entries \ reversed
    /\ reversed' = reversed \union {n}
    /\ muddled' = muddled \union {entries[n].line}
    /\ UNCHANGED <<lines, allocations, entries, paid, pc, work, contended>>

Next ==
    \/ \E r \in Requests, l \in Lines : HandleConfirmMatch(r, l)
    \/ \E r \in Requests : BuildMatch(r) \/ CommitMatch(r) \/ Abandon(r)
    \/ \E l \in Lines : HandleIgnoreTransaction(l)
    \/ \E n \in 1 .. MaxEntries : HandleReverseJournalEntry(n) \/ HandlePostJournalEntry(n)

Spec == Init /\ [][Next]_vars
-----------------------------------------------------------------------------
(* Properties *)

Commands ==
    [looks : {Looks[l] : l \in Lines}, settles : SUBSET [document : Documents, amount : Nat \ {0}]]

\* Every variable has its type, and a line points at an entry while it is booked.
TypeOK ==
    /\ lines \in [Lines -> [status : {"unmatched", "ignored", "matched"}, entry : Nat \union {NoEntry}]]
    /\ \A l \in Lines :
        lines[l].entry \in IF lines[l].status = "matched" THEN DOMAIN entries ELSE {NoEntry}
    /\ allocations \subseteq [line : Lines, document : Documents, amount : Nat \ {0}]
    /\ entries \in Seq([key : Keys, command : Commands, line : Lines])
    /\ Len(entries) <= MaxEntries
    /\ reversed \subseteq DOMAIN entries
    /\ paid \in [Documents -> Nat]
    /\ pc \in [Requests -> {"idle", "found", "built"}]
    /\ \A r \in Requests : pc[r] = "idle" => work[r] = NoWork
    /\ muddled \subseteq Lines
    /\ contended \subseteq Documents

\* The entries that were posted for line l and have not been reversed.
InForce(l) == {n \in DOMAIN entries \ reversed : entries[n].line = l}

\* A line is in the books once while it is matched and not at all while it is not,
\* however often it is ignored, confirmed, reversed and retried, unless it is muddled.
BookedOnceUnlessMuddled ==
    \A l \in Lines \ muddled :
        InForce(l) = IF lines[l].status = "matched" THEN {lines[l].entry} ELSE {}

\* What entry n credits to document d.
Credited(n, d) == SumAmounts({a \in entries[n].command.settles : a.document = d})

\* What the journal says was received on document d through the lines of `some`.
Received(d, some) ==
    LET inForce == UNION {InForce(l) : l \in some}
    IN  SumFunctionOnSet([n \in inForce |-> Credited(n, d)], inForce)

\* The subledger is the ledger: what a document counts as settled is what the
\* entries in force credited to it.  Otherwise there is "an invoice that the books
\* say is paid and the dunning list says is not", or the other way round.
SettledIsBookedUnlessMuddled ==
    \A d \in Documents :
        SumAmounts({a \in allocations : a.document = d /\ a.line \notin muddled})
            = Received(d, Lines \ muddled)

\* A document never has more allocated to it than its total, unless two
\* confirmations worked from the same outstanding amount.
NotOverpaidUnlessContended == \A d \in Documents \ contended : Allocated(d) <= Total[d]

\* "Invoice 2026-0042 is paid" is announced with the step that settles the invoice
\* in full, and with no other, unless the amount that was read had changed.
PaidIsAnnouncedUnlessContended ==
    [][\A d \in Documents : d \notin contended' =>
        (paid'[d] > paid[d] <=> Outstanding(d) > 0 /\ Outstanding(d)' = 0)]_vars

=============================================================================
