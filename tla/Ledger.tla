------------------------------- MODULE Ledger -------------------------------
(***************************************************************************)
(* Posting to the journal (packages/core/src/ledger/posting.ts) over the   *)
(* Drizzle repository (packages/db/src/repositories/ledger.ts) and the     *)
(* triggers of packages/db/migrations/0001_ledger_guards.sql.              *)
(*                                                                         *)
(* withLedger runs a request in one READ COMMITTED transaction: every      *)
(* statement reads what is committed when it starts and what its own       *)
(* transaction wrote, and that shows to others at its commit.  A request   *)
(* is a process whose steps are the statements another transaction can     *)
(* fall between: the replay check, the context reads, the row lock of the  *)
(* chain allocator, the inserts with their triggers, the commit.  It posts *)
(* one entry, or all entries of an audit file, one after the other.  One   *)
(* administration is modelled: every row is keyed by its entity.           *)
(*                                                                         *)
(* Whoever has the chain lock is the only one who has written anything, so *)
(* `own`, the tables as that transaction sees them, is all that has not    *)
(* been committed.  The hash of an entry covers its id, so the id stands   *)
(* for the hash.                                                           *)
(***************************************************************************)
EXTENDS Integers, Sequences, FiniteSets, Functions

CONSTANTS
    Txns,         \* requests; each runs one transaction
    Keys,         \* idempotency keys
    Journals,     \* dagboeken
    Periods,      \* booking periods
    Years,        \* fiscal years
    YearOf,       \* the fiscal year of each period
    Accounts,     \* the accounts a line may be posted to
    Currencies,   \* currencies a line may be in
    Functional,   \* the entity's functional currency
    Commands,     \* what callers of the posting endpoints send
    Files,        \* the audit files that may be imported: the commands of each
    NoEntry,      \* null entry id, and nobody
    NoPeriod      \* a booking date outside every period

\* The entry a request posts for its n-th command.
EntryId == Txns \X (Nat \ {0})

\* A key of its own, or what the import makes of it for the n-th entry of its file.
ItemKey == Keys \X Nat

ASSUME LedgerConstants ==
    /\ NoEntry \notin Txns \union EntryId
    /\ NoPeriod \notin Periods
    /\ YearOf \in [Periods -> Years]
    /\ Functional \in Currencies
    /\ "__chain" \notin Journals

\* A line carries its amount in its own currency and the functional amount that
\* convertToFunctional gave it, debits positive.
Line == [account : Accounts, currency : Currencies, amount : Int, functional : Int]

\* What arrives, and what is posted: a booking date may lie outside every period.
RawCommand == [journal : Journals, period : Periods \union {NoPeriod},
               reverses : EntryId \union {NoEntry}, lines : SUBSET Line]
Command == {cmd \in RawCommand : cmd.period \in Periods}

ASSUME CommandsAreRaw ==
    /\ Commands \subseteq RawCommand
    /\ \A cmd \in Commands : IsFiniteSet(cmd.lines)
    /\ \A file \in Files : file \in Seq(Commands) /\ file # << >>

VARIABLES
    pc,           \* where each request is
    req,          \* what each request asks: [items, senior, dryRun], an item [key, cmd]
    draft,        \* the entry a transaction has built and not inserted
    answer,       \* the entries found or posted for the items of a request so far
    tables,       \* what is committed: journal_entries with their lines,
                  \* idempotency_keys [key, cmd, id], number_sequences by scope and
                  \* account_period_balances
    own,          \* the same, with what the holder of the chain lock has written
    status,       \* periods.status
    chainLock,    \* the transaction holding the row lock of scope "__chain"
    stragglers    \* history: entries committed into a hard-closed period

vars == <<pc, req, draft, answer, tables, own, status, chainLock, stragglers>>

-----------------------------------------------------------------------------
(* Commands, entries and what they add up to. *)

\* number_sequences scopes: one for the chain, one per journal and fiscal year.
ChainScope == <<"__chain", "">>
NumberScope(cmd) == <<cmd.journal, YearOf[cmd.period]>>
Scopes == {ChainScope} \union (Journals \X Years)

SumAmounts(lines) == SumFunctionOnSet([l \in lines |-> l.amount], lines)
SumFunctional(lines) == SumFunctionOnSet([l \in lines |-> l.functional], lines)

\* balanceByCurrency and the functional residual: a single-currency entry
\* balances in its currency, and every entry balances in functional amounts.
Balanced(lines) ==
    /\ SumFunctional(lines) = 0
    /\ Cardinality({l.currency : l \in lines}) = 1
        => SumAmounts(lines) = 0

\* validateCommandShape, resolveLine and the residual of convertToFunctional.
WellFormed(cmd) ==
    /\ Cardinality(cmd.lines) >= 2
    /\ \A l \in cmd.lines : l.amount # 0
    /\ Balanced(cmd.lines)

SwapSides(l) == [account |-> l.account, currency |-> l.currency,
                 amount |-> -l.amount, functional |-> -l.functional]

\* The same lines with debit and credit swapped, naming the entry they reverse.
BuildReversal(entry, period) ==
    [journal  |-> entry.cmd.journal,
     period   |-> period,
     reverses |-> entry.id,
     lines    |-> {SwapSides(l) : l \in entry.cmd.lines}]

FindReversalOf(id, entries) == {e \in entries : e.cmd.reverses = id}

\* Mutant of Movement: sums the functional amounts, which are not the currency's.
MovementInFunctional(cmd, account, currency) ==
    SumFunctional({l \in cmd.lines : l.account = account /\ l.currency = currency})

\* What an entry adds to the running balance of an account and currency:
\* applyPeriodBalances sums the lines in their own currency.
Movement(cmd, account, currency) ==
    SumAmounts({l \in cmd.lines : l.account = account /\ l.currency = currency})

\* ON CONFLICT DO UPDATE adds to the balance that is there.
AddToBalance(balance, movement) == balance + movement

NoRequest == [items |-> << >>, senior |-> FALSE, dryRun |-> FALSE]
NoDraft == [id |-> NoEntry]

-----------------------------------------------------------------------------
\* What a scope without a row gives out first (allocate_number).
FirstValue == 1

Init ==
    /\ pc = [t \in Txns |-> "idle"]
    /\ req = [t \in Txns |-> NoRequest]
    /\ draft = [t \in Txns |-> NoDraft]
    /\ answer = [t \in Txns |-> << >>]
    /\ tables = [entries |-> {}, idempotency |-> {},
                 nextValue |-> [s \in Scopes |-> FirstValue],
                 balances |-> [b \in Periods \X Accounts \X Currencies |-> 0]]
    /\ own = tables
    /\ status = [p \in Periods |-> "open"]
    /\ chainLock = NoEntry
    /\ stragglers = {}

Goto(t, where) == pc' = [pc EXCEPT ![t] = where]

\* The tables as transaction t reads them.
Seen(t) == IF chainLock = t THEN own ELSE tables

\* The request is forgotten, and what was found for it.
Forget(t) ==
    /\ draft' = [draft EXCEPT ![t] = NoDraft]
    /\ req' = [req EXCEPT ![t] = NoRequest]
    /\ answer' = [answer EXCEPT ![t] = << >>]

\* Mutant of Decline: the number is drawn from a sequence that does not roll back.
DeclineBurnsNumber(t) ==
    /\ Goto(t, "declined")
    /\ Forget(t)
    /\ chainLock' = IF chainLock = t THEN NoEntry ELSE chainLock
    /\ tables' = IF pc[t] = "numbered"
                 THEN [tables EXCEPT !.nextValue[NumberScope(draft[t].cmd)] = @ + 1]
                 ELSE tables
    /\ own' = IF chainLock = t THEN tables' ELSE own
    /\ UNCHANGED <<status, stragglers>>

\* Mutant of Decline: the connection goes back to the pool without a rollback.
DeclineKeepsLock(t) ==
    /\ Goto(t, "declined")
    /\ Forget(t)
    /\ own' = IF chainLock = t THEN tables ELSE own
    /\ UNCHANGED <<tables, status, chainLock, stragglers>>

\* The request is refused, previewed or fails: it ends without having written
\* anything another transaction sees.
Decline(t) ==
    /\ Goto(t, "declined")
    /\ Forget(t)
    /\ chainLock' = IF chainLock = t THEN NoEntry ELSE chainLock
    /\ own' = IF chainLock = t THEN tables ELSE own
    /\ UNCHANGED <<tables, status, stragglers>>

\* The item that request r is at, when so many have been dealt with.
ItemAt(r, dealt) == r.items[Len(dealt) + 1]

\* The replay check of the next item of request r.  A key that is recorded answers
\* with the recorded entry, or is refused when it was used for another command; a
\* dry run skips the check.
ReplayCheck(t, r) ==
    LET item == ItemAt(r, answer[t])
        prior == {record \in Seen(t).idempotency : record.key = item.key}
    IN  \/ /\ r.dryRun \/ prior = {}
           /\ Goto(t, "fresh")
           /\ req' = [req EXCEPT ![t] = r]
           /\ UNCHANGED <<draft, answer, tables, own, status, chainLock, stragglers>>
        \/ /\ ~ r.dryRun
           /\ \E record \in prior :
                 /\ record.cmd = item.cmd
                 /\ answer' = [answer EXCEPT ![t] = Append(@, record.id)]
           /\ Goto(t, "dealt")
           /\ req' = [req EXCEPT ![t] = r]
           /\ UNCHANGED <<draft, tables, own, status, chainLock, stragglers>>
        \/ /\ ~ r.dryRun
           /\ \E record \in prior : record.cmd # item.cmd
           /\ Decline(t)

\* A request for one entry arrives.
Arrive(t, cmd) ==
    /\ pc[t] = "idle"
    /\ \E key \in Keys, senior \in BOOLEAN, dryRun \in BOOLEAN :
        ReplayCheck(t, [items |-> <<[key |-> <<key, 0>>, cmd |-> cmd]>>,
                        senior |-> senior, dryRun |-> dryRun])

\* POST /journal-entries, one item of a bulk post, or a post made by another
\* handler.
HandlePostJournalEntry(t) == \E cmd \in Commands : Arrive(t, cmd)

\* POST /journal-entries/{id}/reverse: the command is built from the entry.
HandleReverseJournalEntry(t) ==
    \E e \in tables.entries, period \in Periods : Arrive(t, BuildReversal(e, period))

\* The items of an audit file, each under a key of its own.
ItemsOf(file, key) == [n \in DOMAIN file |-> [key |-> <<key, n>>, cmd |-> file[n]]]

\* POST /xaf/import posts all entries of its file in one transaction.
HandleImportXaf(t) ==
    /\ pc[t] = "idle"
    /\ \E file \in Files, key \in Keys, senior \in BOOLEAN :
        ReplayCheck(t, [items |-> ItemsOf(file, key), senior |-> senior, dryRun |-> FALSE])

\* What LoadContext refuses: an ill-formed command, no period or one this
\* caller may not post to, a target that is missing or already reversed.
Acceptable(cmd, senior, entries) ==
    /\ WellFormed(cmd)
    /\ cmd.period # NoPeriod
    /\ status[cmd.period] # "hard_closed"
    /\ status[cmd.period] = "soft_closed" => senior
    /\ cmd.reverses # NoEntry =>
        /\ \E e \in entries : e.id = cmd.reverses
        /\ FindReversalOf(cmd.reverses, entries) = {}

\* The period, the journal, the accounts and the reversal target are read
\* without a lock; a dry run stops here.  They are several statements, taken as
\* one: what they decide is checked again by the triggers and the indexes.
LoadContext(t) ==
    /\ pc[t] = "fresh"
    /\ LET cmd == ItemAt(req[t], answer[t]).cmd
           accepted == Acceptable(cmd, req[t].senior, Seen(t).entries)
       IN  \/ /\ ~ accepted \/ req[t].dryRun
              /\ Decline(t)
           \/ /\ accepted /\ ~ req[t].dryRun
              /\ Goto(t, "validated")
              /\ UNCHANGED <<req, draft, answer, tables, own, status, chainLock, stragglers>>

\* The entry at the end of the chain: the last one a lock holder sees.
PreviousHash(sequence, entries) ==
    IF sequence = 1 THEN NoEntry
    ELSE (CHOOSE e \in entries : e.sequence = sequence - 1).id

\* Mutant of ChainRowFree: the counter is read without its row lock.
ChainRowUnlocked(t) == TRUE

\* Nobody else holds the row lock of scope "__chain".
ChainRowFree(t) == chainLock \in {NoEntry, t}

\* allocate_number on "__chain" blocks on the row lock until its holder ends;
\* the entry number is allocated behind it.
AllocateChainPosition(t) ==
    /\ pc[t] = "validated"
    /\ ChainRowFree(t)
    /\ chainLock' = t
    /\ LET cmd == ItemAt(req[t], answer[t]).cmd
           next == Seen(t).nextValue
       IN  draft' = [draft EXCEPT ![t] =
                       [id           |-> <<t, Len(answer[t]) + 1>>,
                        cmd          |-> cmd,
                        sequence     |-> next[ChainScope],
                        number       |-> next[NumberScope(cmd)],
                        previousHash |-> PreviousHash(next[ChainScope], Seen(t).entries)]]
    /\ Goto(t, "numbered")
    /\ UNCHANGED <<req, answer, tables, own, status, stragglers>>

\* Mutant of Insertable: without check_period_open.
InsertableWhenClosed(entry, key) ==
    /\ entry.cmd.reverses # NoEntry => FindReversalOf(entry.cmd.reverses, own.entries) = {}
    /\ ~ \E record \in own.idempotency : record.key = key

\* Mutant of Insertable: without the index on reverses_entry_id.
InsertableReversedTwice(entry, key) ==
    /\ status[entry.cmd.period] # "hard_closed"
    /\ ~ \E record \in own.idempotency : record.key = key

\* Mutant of Insertable: without the primary key of idempotency_keys.
InsertableKeyTwice(entry, key) ==
    /\ status[entry.cmd.period] # "hard_closed"
    /\ entry.cmd.reverses # NoEntry => FindReversalOf(entry.cmd.reverses, own.entries) = {}

\* check_period_open, the one_reversal index and the idempotency primary key.
Insertable(entry, key) ==
    /\ status[entry.cmd.period] # "hard_closed"
    /\ entry.cmd.reverses # NoEntry => FindReversalOf(entry.cmd.reverses, own.entries) = {}
    /\ ~ \E record \in own.idempotency : record.key = key

\* The tables with an entry, its counters, its balances and its idempotency record.
WithEntry(book, entry, key) ==
    [entries     |-> book.entries \union {entry},
     idempotency |-> book.idempotency \union {[key |-> key, cmd |-> entry.cmd, id |-> entry.id]},
     nextValue   |-> [book.nextValue EXCEPT
                        ![ChainScope] = entry.sequence + 1,
                        ![NumberScope(entry.cmd)] = entry.number + 1],
     balances    |-> [b \in DOMAIN book.balances |->
                        IF b[1] = entry.cmd.period
                        THEN AddToBalance(book.balances[b], Movement(entry.cmd, b[2], b[3]))
                        ELSE book.balances[b]]]

\* The inserts of the entry, its balances, its idempotency record and, in the
\* same transaction, the audit row and the outbox event that name the entry.  A
\* trigger or an index that objects aborts the whole transaction.
InsertEntry(t) ==
    /\ pc[t] = "numbered"
    /\ LET key == ItemAt(req[t], answer[t]).key
       IN  \/ /\ Insertable(draft[t], key)
              /\ own' = WithEntry(own, draft[t], key)
              /\ answer' = [answer EXCEPT ![t] = Append(@, draft[t].id)]
              /\ draft' = [draft EXCEPT ![t] = NoDraft]
              /\ Goto(t, "dealt")
              /\ UNCHANGED <<req, tables, status, chainLock, stragglers>>
           \/ /\ ~ Insertable(draft[t], key)
              /\ Decline(t)

\* An item has been dealt with, and the next one begins.
NextItem(t) ==
    /\ pc[t] = "dealt"
    /\ Len(answer[t]) < Len(req[t].items)
    /\ ReplayCheck(t, req[t])

\* Everything the transaction wrote becomes visible and its locks are released.
Commit(t) ==
    /\ pc[t] = "dealt"
    /\ Len(answer[t]) = Len(req[t].items)
    /\ tables' = Seen(t)
    /\ chainLock' = IF chainLock = t THEN NoEntry ELSE chainLock
    /\ stragglers' = stragglers \union
          {e.id : e \in {f \in Seen(t).entries \ tables.entries :
                            status[f.cmd.period] = "hard_closed"}}
    /\ Goto(t, "answered")
    /\ UNCHANGED <<req, draft, answer, own, status>>

\* The process or its connection dies: PostgreSQL rolls the transaction back.
Rollback(t) ==
    /\ pc[t] \in {"fresh", "validated", "numbered", "dealt"}
    /\ Decline(t)

\* lockPeriods, run by the filing of a VAT return: a soft close of an open period.
SoftClose(p) ==
    /\ status[p] = "open"
    /\ status' = [status EXCEPT ![p] = "soft_closed"]
    /\ UNCHANGED <<pc, req, draft, answer, tables, own, chainLock, stragglers>>

\* An operator hard-closes a period in the database: no endpoint does it.
HardClose(p) ==
    /\ status[p] # "hard_closed"
    /\ status' = [status EXCEPT ![p] = "hard_closed"]
    /\ UNCHANGED <<pc, req, draft, answer, tables, own, chainLock, stragglers>>

Ended == {"answered", "declined"}

\* Every request has been answered: the model stops here, and only here.
AllAnswered ==
    /\ \A t \in Txns : pc[t] \in Ended
    /\ \A p \in Periods : status[p] = "hard_closed"
    /\ UNCHANGED vars

Run(t) ==
    \/ LoadContext(t)
    \/ AllocateChainPosition(t)
    \/ InsertEntry(t)
    \/ NextItem(t)
    \/ Commit(t)

Next ==
    \/ \E t \in Txns : \/ HandlePostJournalEntry(t)
                       \/ HandleReverseJournalEntry(t)
                       \/ HandleImportXaf(t)
    \/ \E t \in Txns : Run(t) \/ Rollback(t)
    \/ \E p \in Periods : SoftClose(p) \/ HardClose(p)
    \/ AllAnswered

Spec == Init /\ [][Next]_vars

\* A statement that can run does: PostgreSQL grants the row lock to a waiter
\* once it is free, and neither closes nor crashes are owed.
FairSpec == Spec /\ \A t \in Txns : WF_vars(Run(t))
-----------------------------------------------------------------------------
(* Properties *)

Item == [key : ItemKey, cmd : RawCommand]

Request == [items : Seq(Item) \ {<< >>}, senior : BOOLEAN, dryRun : BOOLEAN]

Entry == [id : EntryId, cmd : Command, sequence : Nat \ {0}, number : Nat \ {0},
          previousHash : EntryId \union {NoEntry}]

\* The tables of the ledger; an entry that is stored has a period.
BookOK(book) ==
    /\ DOMAIN book = {"entries", "idempotency", "nextValue", "balances"}
    /\ book.entries \subseteq Entry
    /\ book.idempotency \subseteq [key : ItemKey, cmd : Command, id : EntryId]
    /\ book.nextValue \in [Scopes -> Nat \ {0}]
    /\ DOMAIN book.balances = Periods \X Accounts \X Currencies

\* Every variable has its type.
TypeOK ==
    /\ pc \in [Txns -> Ended \union {"idle", "fresh", "validated", "numbered", "dealt"}]
    /\ req \in [Txns -> Request \union {NoRequest}]
    /\ draft \in [Txns -> Entry \union {NoDraft}]
    /\ answer \in [Txns -> Seq(EntryId)]
    /\ BookOK(tables)
    /\ BookOK(own)
    /\ status \in [Periods -> {"open", "soft_closed", "hard_closed"}]
    /\ chainLock \in Txns \union {NoEntry}
    /\ stragglers \subseteq EntryId

\* The chain of a journal: its sequence is dense from 1, no position is taken
\* twice, and every entry names the hash of the entry before it.
Chained(entries, next) ==
    /\ \A e \in entries : e.sequence < next
    /\ \A n \in 1 .. (next - 1) : \E e \in entries : e.sequence = n
    /\ \A e, f \in entries : e.sequence = f.sequence => e = f
    /\ \A e \in entries :
        IF e.sequence = 1 THEN e.previousHash = NoEntry
        ELSE \E f \in entries : /\ f.sequence = e.sequence - 1
                                /\ f.id = e.previousHash

\* The hash chain is whole whatever interleaves and whatever rolls back.  This is
\* what verifyHashChain checks.
ChainIntact == Chained(tables.entries, tables.nextValue[ChainScope])

\* The entries of a journal in a fiscal year are numbered from 1 without gaps or
\* doubles.
Numbered(entries, j, y, next) ==
    LET Booked(e) == e.cmd.journal = j /\ YearOf[e.cmd.period] = y
    IN  /\ \A e \in entries : Booked(e) => e.number < next
        /\ \A n \in 1 .. (next - 1) : \E e \in entries : Booked(e) /\ e.number = n
        /\ \A e, f \in entries : Booked(e) /\ Booked(f) /\ e.number = f.number => e = f

\* Entry numbers of a journal and fiscal year have neither gaps nor doubles: a
\* rolled-back transaction returns its numbers (allocate_number).
NumbersGapless ==
    \A j \in Journals, y \in Years :
        Numbered(tables.entries, j, y, tables.nextValue[<<j, y>>])

\* The requests that have been answered with entries.
Answered == {t \in Txns : pc[t] = "answered"}

\* Retries, concurrent or not, post once: whatever is asked under one key is
\* answered with the same entry, it is in the journal, and it is what was asked for.
ExactlyOnce ==
    /\ \A t, u \in Answered :
        \A m \in DOMAIN req[t].items, n \in DOMAIN req[u].items :
            req[t].items[m].key = req[u].items[n].key => answer[t][m] = answer[u][n]
    /\ \A t \in Answered :
        \A n \in DOMAIN req[t].items :
            \E e \in tables.entries : e.id = answer[t][n] /\ e.cmd = req[t].items[n].cmd

\* A reversal is the only one of the entry it reverses, and comes after it.
Reversals(entries) ==
    \A e \in entries : e.cmd.reverses # NoEntry =>
        /\ FindReversalOf(e.cmd.reverses, entries) = {e}
        /\ \E f \in entries : f.id = e.cmd.reverses /\ f.sequence < e.sequence

\* No entry is reversed twice, though two requests may both have read that it
\* was not reversed yet.
ReversedOnce == Reversals(tables.entries)

\* The lines of period p on an account, in a currency, added up.
Journalled(entries, p, account, currency) ==
    LET booked == {e \in entries : e.cmd.period = p}
        Lines(e) == {l \in e.cmd.lines : l.account = account /\ l.currency = currency}
    IN  SumFunctionOnSet([e \in booked |-> SumAmounts(Lines(e))], booked)

\* The running balances of a journal are the sums of its lines.
Totalled(book) ==
    \A b \in DOMAIN book.balances :
        book.balances[b] = Journalled(book.entries, b[1], b[2], b[3])

\* The running balances the reports read are, after every commit, the sums of
\* the committed lines (applyPeriodBalances never loses or doubles an entry).
BalancesAreTheJournal == Totalled(tables)

\* The trigger reads the period's status under the chain lock and not under a
\* lock of the period, so a hard close can be overtaken, but by one transaction per
\* period at most: the one that held the chain lock at the close.  It may have
\* posted one entry into the period, or most of a file.
HardCloseOvertakenByOne ==
    \A p \in Periods :
        \A e, f \in tables.entries :
            /\ e.cmd.period = p /\ f.cmd.period = p
            /\ {e.id, f.id} \subseteq stragglers
            => e.id[1] = f.id[1]

\* The refinement mapping: what an entry says, what became of a request, and the
\* entries it was told about.
KeyOf(e) == req[e.id[1]].items[e.id[2]].key

Facts == {[id |-> e.id, key |-> KeyOf(e), reverses |-> e.cmd.reverses] : e \in tables.entries}

OutcomeAt(where) == IF where \in Ended THEN where ELSE "pending"

Outcome == [t \in Txns |-> OutcomeAt(pc[t])]

Told == [t \in Txns |-> IF pc[t] = "answered" THEN answer[t] ELSE << >>]

Abstract == INSTANCE Journal WITH journal <- Facts, outcome <- Outcome, answer <- Told

\* The transactional posting path implements the abstract journal: a request takes
\* effect at one instant, its commit, and everything else leaves no trace.
ImplementsJournal == Abstract!Spec

\* Every request that arrives is answered: the chain lock is always released.
EveryRequestAnswered ==
    \A t \in Txns : pc[t] # "idle" ~> pc[t] \in Ended

=============================================================================
