------------------------------ MODULE BankImport ------------------------------
(***************************************************************************)
(* Importing bank statements without importing anything twice:             *)
(* packages/core/src/bank/import.ts, handleImportStatement                 *)
(* (apps/web/src/api/handlers/bank.ts) and applyImport of                  *)
(* packages/db/src/repositories/bank.ts, for one bank account.             *)
(*                                                                         *)
(* An import is one READ COMMITTED transaction.  The last number of the    *)
(* account is read first and written last, from what the file says, while  *)
(* other imports go on.  Every key is inserted under a unique index that   *)
(* ignores a conflict, so all of applyImport is one step, its commit.      *)
(*                                                                         *)
(* A payment is what happened at the bank.  The same one may be delivered   *)
(* by several files, with the bank's reference or (a CSV export, always)   *)
(* without it, and two payments may look alike.                            *)
(***************************************************************************)
EXTENDS Integers, Sequences, FiniteSets, FiniteSetsExt, Functions

CONSTANTS
    Imports,     \* imports in flight
    Payments,    \* the entries of the account, as the bank knows them
    Amount,      \* the amount of each, signed
    Files,       \* the files users import: sets of statements
    Undeclared,  \* what a file does not give: a reference, an id, a number, balances
    NoPlan,      \* an import that does nothing
    MaxImports   \* bound: no import begins after this many

\* A statement of a file: its id and number, its closing balance less its opening
\* balance, and its entries.  Pages of an MT940 statement share an id and a number;
\* MT940 and CAMT give one statement different ids; a CSV export has neither, but
\* may have a column of balances.  An entry is a payment as the file shows it: the
\* reference, and the dates, amount, counterparty and text that it looks like.
Statements == UNION Files

Numbered(s) == s.number # Undeclared

ASSUME BankImportConstants ==
    /\ Amount \in [Payments -> Int]
    /\ Undeclared \notin Int
    /\ NoPlan \notin [file : Files, missing : SUBSET Nat]
    /\ MaxImports \in Nat
    /\ \A file \in Files : IsFiniteSet(file)
    /\ \A s \in Statements :
        /\ s.number \in Nat \union {Undeclared}
        /\ s.movement \in Int \union {Undeclared}
        /\ DOMAIN s.entries = 1 .. Len(s.entries) /\ Len(s.entries) \in Nat
        /\ \A i \in DOMAIN s.entries : s.entries[i].payment \in Payments

\* A statement lists a payment once, and "a reference the bank supplies is unique
\* within the account and survives a re-export".
ASSUME BankReferences ==
    \A s, u \in Statements : \A i \in DOMAIN s.entries, j \in DOMAIN u.entries :
        LET e == s.entries[i]
            f == u.entries[j]
        IN  /\ s = u /\ e.payment = f.payment => i = j
            /\ e.reference # Undeclared /\ f.reference # Undeclared =>
                (e.reference = f.reference <=> e.payment = f.payment)

VARIABLES
    statements,   \* bank_statements: the files that were imported, in order
    transactions, \* bank_transactions: {[key, payment, import]}
    last,         \* bank_accounts.last_sequence_number
    stage,        \* where each import is
    plan,         \* what it has planned
    missed,       \* history: the numbers reported missing to a user
    disordered    \* history: a number went back, or two imports overlapped

importVars == <<statements, transactions, last, stage, plan, missed, disordered>>

-----------------------------------------------------------------------------
(* planImport *)

SumOf(s) ==
    SumFunctionOnSet([i \in DOMAIN s.entries |-> Amount[s.entries[i].payment]],
                     DOMAIN s.entries)

\* balance_walk_mismatch, the error that refuses a truncated statement.
BalanceWalks(s) == s.movement # Undeclared => SumOf(s) = s.movement

\* Mutant of DedupeKey: look-alikes of one statement share a key.
DedupeKeyWithoutPosition(s, i) ==
    LET e == s.entries[i] IN
    IF e.reference # Undeclared THEN [reference |-> e.reference]
    ELSE [id |-> s.id, number |-> s.number, looks |-> e.looks]

\* dedupeKey: the bank's reference if the file gives it, else the statement, the
\* position in it and everything that can be seen.
DedupeKey(s, i) ==
    LET e == s.entries[i] IN
    IF e.reference # Undeclared THEN [reference |-> e.reference]
    ELSE [id |-> s.id, number |-> s.number, position |-> i, looks |-> e.looks]

\* The entries of a file with their keys, as the n-th import would store them.
Planned(file, n) ==
    UNION {{[key |-> DedupeKey(s, i), payment |-> s.entries[i].payment, import |-> n] :
                i \in DOMAIN s.entries} : s \in file}

NumbersOf(file) == {s.number : s \in {s \in file : Numbered(s)}}

\* The number before n when the file is walked in order, from what was read.
Previous(file, n, lastRead) ==
    LET lower == {m \in NumbersOf(file) : m < n}
    IN  IF lower = {} THEN lastRead ELSE Max(lower)

\* Mutant of Gap: off by one.
GapOfTwo(previous, n) ==
    IF previous = Undeclared THEN {} ELSE previous + 2 .. n - 1

\* sequence_gap: the numbers between two statements.  None before the first one.
Gap(previous, n) == IF previous = Undeclared THEN {} ELSE previous + 1 .. n - 1

Missing(file, lastRead) ==
    UNION {Gap(Previous(file, n, lastRead), n) : n \in NumbersOf(file)}

-----------------------------------------------------------------------------
ImportInit ==
    /\ statements = << >>
    /\ transactions = {}
    /\ last = Undeclared
    /\ stage = [r \in Imports |-> "idle"]
    /\ plan = [r \in Imports |-> NoPlan]
    /\ missed = {}
    /\ disordered = FALSE

EndImport(r) ==
    /\ stage' = [stage EXCEPT ![r] = "idle"]
    /\ plan' = [plan EXCEPT ![r] = NoPlan]

\* findAccount has read the last number, and the file has no errors.
HandleImportStatement(r, file) ==
    /\ stage[r] = "idle"
    /\ Len(statements) < MaxImports
    /\ \A s \in file : BalanceWalks(s)
    /\ stage' = [stage EXCEPT ![r] = "planned"]
    /\ plan' = [plan EXCEPT ![r] = [file |-> file, missing |-> Missing(file, last)]]
    /\ disordered' = (disordered \/ \E q \in Imports : stage[q] = "planned")
    /\ UNCHANGED <<statements, transactions, last, missed>>

KeysOf(rows) == {t.key : t \in rows}

\* Mutant of NewRows: the index does not hold.
NewRowsUnchecked(rows) == rows

\* onConflictDoNothing: one row for every key that is not there yet.
NewRows(rows) ==
    {CHOOSE t \in rows : t.key = k : k \in KeysOf(rows) \ KeysOf(transactions)}

\* applyImport and the commit.  The last number becomes the highest of this file,
\* also when the account was further.
ApplyImport(r) ==
    /\ stage[r] = "planned"
    /\ LET file == plan[r].file
           numbers == NumbersOf(file)
       IN  /\ transactions' = transactions \union NewRows(Planned(file, Len(statements) + 1))
           /\ last' = IF numbers = {} THEN last ELSE Max(numbers)
           /\ statements' = Append(statements, file)
           /\ missed' = missed \union plan[r].missing
           /\ disordered' = (disordered \/ (numbers # {} /\ last # Undeclared
                                                /\ Min(numbers) < last))
    /\ EndImport(r)

\* A crash, a deadlock with another import: a rollback.
AbandonImport(r) ==
    /\ stage[r] = "planned"
    /\ EndImport(r)
    /\ UNCHANGED <<statements, transactions, last, missed, disordered>>

ImportNext ==
    \E r \in Imports :
        \/ \E file \in Files : HandleImportStatement(r, file)
        \/ ApplyImport(r)
        \/ AbandonImport(r)

ImportSpec == ImportInit /\ [][ImportNext]_importVars
-----------------------------------------------------------------------------
(* Properties *)

\* Every variable has its type, and no two rows have one key.
ImportTypeOK ==
    /\ statements \in Seq(Files)
    /\ \A t \in transactions : t.payment \in Payments /\ t.import \in DOMAIN statements
    /\ \A t, u \in transactions : t.key = u.key => t = u
    /\ last \in Nat \union {Undeclared}
    /\ stage \in [Imports -> {"idle", "planned"}]
    /\ \A r \in Imports : (plan[r] = NoPlan) <=> (stage[r] = "idle")
    /\ missed \subseteq Nat
    /\ disordered \in BOOLEAN

\* The statements from which nothing was cut off.
Whole == {s \in Statements : s.movement # Undeclared => SumOf(s) = s.movement}

\* Nowhere else is there that payment, or an entry that looks like it at the same
\* position of a page with the same id and number.
OnlyPlace(s, i) ==
    \A u \in Whole : \A j \in DOMAIN u.entries :
        \/ u.entries[j].payment = s.entries[i].payment
        \/ /\ <<u.id, u.number, j>> = <<s.id, s.number, i>>
           /\ u.entries[j].looks = s.entries[i].looks
        => u = s /\ j = i

\* The payments that the files tell apart: those that have their reference in every
\* file, and those that are delivered in one place.  A payment that comes with its
\* reference and in a CSV export is not one, nor is one without a reference that
\* comes in an MT940 and a CAMT statement, or in two exports.
Recognisable ==
    {p \in Payments :
        \/ \A s \in Whole : \A i \in DOMAIN s.entries :
            s.entries[i].payment = p => s.entries[i].reference # Undeclared
        \/ \E s \in Whole : \E i \in DOMAIN s.entries :
            s.entries[i].payment = p /\ OnlyPlace(s, i)}

Imported == UNION Range(statements)

\* The stored lines of an imported statement add up to what the bank says the
\* balance did over it, whatever files overlap, repeat or race: none of its payments
\* is stored twice and none is lost, also not one of two that look alike.  That
\* holds as long as they are recognisable from what the files give.
BalanceIsTheBanksUnlessUnrecognisable ==
    \A s \in Imported :
        LET listed == {s.entries[i].payment : i \in DOMAIN s.entries}
            stored == {t \in transactions : t.payment \in listed}
        IN  s.movement # Undeclared /\ listed \subseteq Recognisable =>
                SumFunctionOnSet([t \in stored |-> Amount[t.payment]], stored) = s.movement

\* A number between two imported ones that was never imported has been reported
\* to a user ("a missing statement is a silently wrong balance"), as long as files
\* come in one at a time and never go back.
GapsAreReportedInOrder ==
    ~ disordered =>
        \A m, n \in NumbersOf(Imported) :
            m + 1 .. n - 1 \subseteq missed \union NumbersOf(Imported)

\* A file that is imported again adds nothing, with numbers or without.
ReimportAddsNothing ==
    [][\A r \in Imports :
        stage[r] = "planned" /\ stage'[r] = "idle" /\ plan[r].file \in Range(statements)
            => transactions' = transactions]_importVars

=============================================================================
