---------------------------- MODULE LedgerProofs ----------------------------
(***************************************************************************)
(* Theorems about module Ledger for every set of requests, keys, periods,  *)
(* commands and files.  The inductive invariant LedgerInv says what holds  *)
(* of the tables, committed and as the holder of the chain lock sees them, *)
(* and what a transaction that holds the lock may rely on: what it read    *)
(* under the lock is still so when it inserts.                             *)
(***************************************************************************)
EXTENDS Ledger, SumTheorems

Busy == {"fresh", "validated", "numbered", "dealt"}

\* What request t is at.
Current(t) == ItemAt(req[t], answer[t])

\* A request under way has an item to deal with, and past its checks that is a real
\* posting into a real period, and the entry it reverses is there.
CheckedAt(t) ==
    /\ pc[t] \in Busy \union {"answered"} => req[t] \in Request
    /\ pc[t] \in {"fresh", "validated", "numbered"} => Len(answer[t]) < Len(req[t].items)
    /\ pc[t] = "answered" => Len(answer[t]) = Len(req[t].items)
    /\ pc[t] \in {"idle", "declined"} => answer[t] = << >>
    /\ pc[t] \in {"validated", "numbered"} =>
        /\ Current(t).cmd \in Command
        /\ Current(t).cmd.reverses # NoEntry =>
            \E f \in Seen(t).entries : f.id = Current(t).cmd.reverses

Checked == \A t \in Txns : CheckedAt(t)

\* From its first number to its end a transaction holds the chain lock, and only
\* the holder has written anything.
LockHeld ==
    /\ \A t \in Txns : /\ pc[t] = "numbered" => chainLock = t
                       /\ chainLock = t => pc[t] \in Busy
    /\ chainLock = NoEntry => own = tables
    /\ tables.entries \subseteq own.entries
    /\ \A e \in tables.entries : pc[e.id[1]] = "answered"
    /\ \A e \in own.entries \ tables.entries : e.id[1] = chainLock

\* What the lock holder has allocated is still next in line.
NextInLine(t) ==
    /\ draft[t] \in Entry
    /\ draft[t].id = <<t, Len(answer[t]) + 1>>
    /\ draft[t].cmd = Current(t).cmd
    /\ draft[t].sequence = own.nextValue[ChainScope]
    /\ draft[t].number = own.nextValue[NumberScope(draft[t].cmd)]
    /\ IF draft[t].sequence = 1 THEN draft[t].previousHash = NoEntry
       ELSE \E f \in own.entries : /\ f.sequence = draft[t].sequence - 1
                                   /\ f.id = draft[t].previousHash

DraftIsNext == \A t \in Txns : pc[t] = "numbered" => NextInLine(t)

\* An entry is the answer to an item of the request that posted it.
EntriesOwned ==
    \A e \in own.entries :
        LET t == e.id[1]
            n == e.id[2]
        IN  /\ n \in DOMAIN answer[t] /\ answer[t][n] = e.id
            /\ n \in DOMAIN req[t].items /\ req[t].items[n].cmd = e.cmd

\* A key belongs to one entry.
KeysUnique == \A e, f \in own.entries : KeyOf(e) = KeyOf(f) => e = f

KeysRecorded(book) ==
    /\ \A r \in book.idempotency : \E e \in book.entries :
        r.key = KeyOf(e) /\ r.cmd = e.cmd /\ r.id = e.id
    /\ \A e \in book.entries : \E r \in book.idempotency :
        r.key = KeyOf(e) /\ r.cmd = e.cmd /\ r.id = e.id

\* What a request has been given so far is what it asked for.
AnsweredAt(t) ==
    \A n \in DOMAIN answer[t] :
        /\ n \in DOMAIN req[t].items
        /\ \E e \in Seen(t).entries : /\ e.id = answer[t][n]
                                      /\ e.cmd = req[t].items[n].cmd
                                      /\ KeyOf(e) = req[t].items[n].key

Answers == \A t \in Txns : AnsweredAt(t)

Whole(book) ==
    /\ Chained(book.entries, book.nextValue[ChainScope])
    /\ \A j \in Journals, y \in Years : Numbered(book.entries, j, y, book.nextValue[<<j, y>>])
    /\ Reversals(book.entries)

\* Nobody has an entry in hand for a period that a hard close overtook.
Overtaken ==
    /\ \A id \in stragglers : pc[id[1]] = "answered"
    /\ \A e \in tables.entries : e.id \in stragglers =>
        /\ status[e.cmd.period] = "hard_closed"
        /\ \A f \in own.entries \ tables.entries : f.cmd.period # e.cmd.period

LedgerInv ==
    /\ TypeOK
    /\ Checked
    /\ LockHeld
    /\ DraftIsNext
    /\ EntriesOwned
    /\ KeysUnique
    /\ KeysRecorded(tables) /\ KeysRecorded(own)
    /\ Answers
    /\ Whole(tables) /\ Whole(own)
    /\ Overtaken
    /\ HardCloseOvertakenByOne
-----------------------------------------------------------------------------
\* The chain counter and the counters of the journals are different rows.
LEMMA ScopesDiffer ==
    /\ ChainScope \in Scopes
    /\ \A j \in Journals, y \in Years : <<j, y>> \in Scopes /\ <<j, y>> # ChainScope
    /\ \A cmd \in Command : /\ NumberScope(cmd) = <<cmd.journal, YearOf[cmd.period]>>
                           /\ cmd.journal \in Journals
                           /\ YearOf[cmd.period] \in Years
<1>1. ChainScope \in Scopes
  BY DEF Scopes
<1>2. \A j \in Journals, y \in Years : <<j, y>> \in Journals \X Years
  OBVIOUS
<1>3. \A j \in Journals, y \in Years : <<j, y>> \in Scopes /\ <<j, y>> # ChainScope
  BY <1>2, LedgerConstants DEF Scopes, ChainScope
<1>4. \A cmd \in Command : cmd.journal \in Journals /\ cmd.period \in Periods
  BY DEF Command, RawCommand
<1> QED
  BY <1>1, <1>3, <1>4, LedgerConstants DEF NumberScope

LEMMA RowOf == ASSUME NEW S, NEW rows \in Seq(S), NEW n \in DOMAIN rows PROVE rows[n] \in S
OBVIOUS

\* The next item of a request is one.
LEMMA ItemIsTyped ==
    ASSUME NEW r \in Request, NEW dealt \in Seq(EntryId), Len(dealt) < Len(r.items)
    PROVE  Len(dealt) + 1 \in DOMAIN r.items /\ ItemAt(r, dealt) \in Item
<1>1. r.items \in Seq(Item)
  BY DEF Request
<1>2. Len(dealt) + 1 \in DOMAIN r.items
  BY <1>1
<1>3. r.items[Len(dealt) + 1] \in Item
  BY <1>1, <1>2, RowOf
<1> QED
  BY <1>2, <1>3 DEF ItemAt

\* What the stored entries are.
LEMMA EntriesTyped ==
    ASSUME LedgerInv, NEW e \in own.entries
    PROVE  /\ e \in Entry /\ e.id \in EntryId /\ e.cmd \in Command
           /\ e.id[1] \in Txns /\ e.id[2] \in Nat \ {0}
           /\ e.id = <<e.id[1], e.id[2]>>
<1>1. e \in Entry
  BY DEF LedgerInv, TypeOK, BookOK
<1>2. e.id \in EntryId /\ e.cmd \in Command
  BY <1>1 DEF Entry
<1> QED
  BY <1>1, <1>2 DEF EntryId

LEMMA InitEstablishesInv == Init => LedgerInv
<1> SUFFICES ASSUME Init PROVE LedgerInv
  OBVIOUS
<1> USE LedgerConstants DEF Init, FirstValue
<1>1. /\ tables.entries = {} /\ own.entries = {}
      /\ tables.idempotency = {} /\ own.idempotency = {}
      /\ own = tables /\ chainLock = NoEntry /\ stragglers = {}
      /\ \A t \in Txns : pc[t] = "idle" /\ answer[t] = << >>
  OBVIOUS
<1>2. tables.nextValue = [s \in Scopes |-> 1]
  OBVIOUS
<1>3. BookOK(tables) /\ BookOK(own)
  BY <1>2 DEF BookOK
<1>4. TypeOK
  <2>1. answer \in [Txns -> Seq(EntryId)]
    OBVIOUS
  <2> QED
    BY <1>3, <2>1 DEF TypeOK
<1>5. Checked /\ LockHeld /\ DraftIsNext /\ Overtaken
  BY <1>1 DEF Checked, CheckedAt, LockHeld, DraftIsNext, Overtaken, Busy
<1>6. EntriesOwned /\ KeysUnique /\ HardCloseOvertakenByOne
  BY <1>1 DEF EntriesOwned, KeysUnique, HardCloseOvertakenByOne
<1>7. KeysRecorded(tables) /\ KeysRecorded(own)
  BY <1>1 DEF KeysRecorded
<1>8. Answers
  BY <1>1 DEF Answers, AnsweredAt
<1>9. Whole(tables)
  <2>1. tables.nextValue[ChainScope] = 1
    BY <1>2, ScopesDiffer
  <2>2. \A j \in Journals, y \in Years : tables.nextValue[<<j, y>>] = 1
    BY <1>2, ScopesDiffer
  <2>3. Chained(tables.entries, 1)
    BY <1>1 DEF Chained
  <2>4. \A j \in Journals, y \in Years : Numbered(tables.entries, j, y, 1)
    BY <1>1 DEF Numbered
  <2>5. Reversals(tables.entries)
    BY <1>1 DEF Reversals
  <2> QED
    BY <2>1, <2>2, <2>3, <2>4, <2>5 DEF Whole
<1> QED
  BY <1>1, <1>4, <1>5, <1>6, <1>7, <1>8, <1>9 DEF LedgerInv

-----------------------------------------------------------------------------
(* Steps that write nothing. *)

\* A step of one request that writes nothing: only its own record changes, and what
\* it has been given stays.
OwnStep(t) ==
    /\ UNCHANGED <<tables, own, status, stragglers>>
    /\ \A u \in Txns \ {t} : /\ pc'[u] = pc[u]
                             /\ req'[u] = req[u]
                             /\ draft'[u] = draft[u]
                             /\ answer'[u] = answer[u]
    /\ \A n \in DOMAIN answer[t] : n \in DOMAIN answer'[t] /\ answer'[t][n] = answer[t][n]
    /\ answer[t] # << >> => req'[t] = req[t]

\* The request of an entry still says so after such a step.
LEMMA OwnStepKeepsEntries ==
    ASSUME LedgerInv, NEW t \in Txns, OwnStep(t), NEW e \in own.entries
    PROVE  /\ req'[e.id[1]] = req[e.id[1]]
           /\ e.id[2] \in DOMAIN answer'[e.id[1]]
           /\ answer'[e.id[1]][e.id[2]] = answer[e.id[1]][e.id[2]]
           /\ KeyOf(e)' = KeyOf(e)
<1>1. e.id[1] \in Txns /\ e.id[2] \in DOMAIN answer[e.id[1]]
  BY EntriesTyped DEF LedgerInv, EntriesOwned
<1>2. req'[e.id[1]] = req[e.id[1]]
  <2>1. CASE e.id[1] = t
    <3>1. answer[t] # << >>
      BY <1>1, <2>1
    <3> QED
      BY <2>1, <3>1 DEF OwnStep
  <2>2. CASE e.id[1] # t
    BY <1>1, <2>2 DEF OwnStep
  <2> QED
    BY <2>1, <2>2
<1>3. /\ e.id[2] \in DOMAIN answer'[e.id[1]]
      /\ answer'[e.id[1]][e.id[2]] = answer[e.id[1]][e.id[2]]
  BY <1>1 DEF OwnStep
<1> QED
  BY <1>2, <1>3 DEF KeyOf

\* So what the tables satisfy survives.
LEMMA OwnStepKeepsTables ==
    ASSUME LedgerInv, NEW t \in Txns, pc[t] # "answered", OwnStep(t)
    PROVE  /\ EntriesOwned' /\ KeysUnique' /\ KeysRecorded(tables)' /\ KeysRecorded(own)'
           /\ Whole(tables)' /\ Whole(own)' /\ Overtaken' /\ HardCloseOvertakenByOne'
           /\ \A e \in tables.entries : pc'[e.id[1]] = "answered"
<1>1. tables' = tables /\ own' = own /\ status' = status /\ stragglers' = stragglers
  BY DEF OwnStep
<1>2. \A e \in own.entries : /\ req'[e.id[1]] = req[e.id[1]]
                             /\ e.id[2] \in DOMAIN answer'[e.id[1]]
                             /\ answer'[e.id[1]][e.id[2]] = answer[e.id[1]][e.id[2]]
                             /\ KeyOf(e)' = KeyOf(e)
  BY OwnStepKeepsEntries
<1>3. tables.entries \subseteq own.entries
  BY DEF LedgerInv, LockHeld
<1>4. EntriesOwned' /\ KeysUnique'
  BY <1>1, <1>2 DEF LedgerInv, EntriesOwned, KeysUnique
<1>5. KeysRecorded(tables)' /\ KeysRecorded(own)'
  <2>1. KeysRecorded(tables) /\ KeysRecorded(own)
    BY DEF LedgerInv
  <2>2. \A e \in own.entries : KeyOf(e)' = KeyOf(e)
    BY <1>2
  <2>3. \A e \in tables.entries : KeyOf(e)' = KeyOf(e)
    BY <1>3, <2>2
  <2>4. KeysRecorded(tables)'
    BY <1>1, <2>1, <2>3 DEF KeysRecorded
  <2>5. KeysRecorded(own)'
    BY <1>1, <2>1, <2>2 DEF KeysRecorded
  <2> QED
    BY <2>4, <2>5
<1>6. Whole(tables)' /\ Whole(own)' /\ HardCloseOvertakenByOne'
  BY <1>1 DEF LedgerInv, Whole, HardCloseOvertakenByOne
<1>7. \A u \in Txns : pc[u] = "answered" => pc'[u] = "answered"
  BY DEF OwnStep
<1>8. \A id \in stragglers : id[1] \in Txns
  BY DEF LedgerInv, TypeOK, EntryId
<1>9. Overtaken'
  BY <1>1, <1>7, <1>8 DEF LedgerInv, Overtaken
<1>10. \A e \in tables.entries : pc'[e.id[1]] = "answered"
  BY <1>3, <1>7, EntriesTyped DEF LedgerInv, LockHeld
<1> QED
  BY <1>4, <1>5, <1>6, <1>9, <1>10

-----------------------------------------------------------------------------
(* A request that ends without a commit. *)

\* What it had written goes; nothing that stays was its own.
LEMMA DeclineLeaves ==
    ASSUME LedgerInv, NEW t \in Txns, pc[t] \in Busy \union {"idle"}, Decline(t)
    PROVE  /\ tables' = tables /\ status' = status /\ stragglers' = stragglers
           /\ pc'[t] = "declined" /\ req'[t] = NoRequest /\ answer'[t] = << >>
           /\ chainLock' # t
           /\ \A u \in Txns \ {t} : /\ pc'[u] = pc[u] /\ req'[u] = req[u]
                                    /\ draft'[u] = draft[u] /\ answer'[u] = answer[u]
                                    /\ chainLock' = u <=> chainLock = u
                                    /\ Seen(u)' = Seen(u)
                                    /\ Seen(u).entries \subseteq own'.entries
           /\ \/ chainLock # t /\ own' = own /\ chainLock' = chainLock
              \/ chainLock = t /\ own' = tables /\ chainLock' = NoEntry
           /\ tables.entries \subseteq own'.entries /\ own'.entries \subseteq own.entries
           /\ \A e \in own'.entries : e.id[1] \in Txns \ {t} /\ KeyOf(e)' = KeyOf(e)
<1>1. /\ tables' = tables /\ status' = status /\ stragglers' = stragglers
      /\ pc'[t] = "declined" /\ req'[t] = NoRequest /\ answer'[t] = << >>
      /\ \A u \in Txns \ {t} : /\ pc'[u] = pc[u] /\ req'[u] = req[u]
                               /\ draft'[u] = draft[u] /\ answer'[u] = answer[u]
  BY DEF LedgerInv, TypeOK, Decline, Goto, Forget
<1>2. \/ chainLock # t /\ own' = own /\ chainLock' = chainLock
      \/ chainLock = t /\ own' = tables /\ chainLock' = NoEntry
  BY DEF Decline
<1>3. tables.entries \subseteq own'.entries /\ own'.entries \subseteq own.entries
  BY <1>2 DEF LedgerInv, LockHeld
<1>4. \A e \in own'.entries : e.id[1] \in Txns \ {t}
  <2> SUFFICES ASSUME NEW e \in own'.entries PROVE e.id[1] \in Txns \ {t}
    OBVIOUS
  <2>1. e \in own.entries /\ e.id[1] \in Txns
    BY <1>3, EntriesTyped
  <2>2. CASE e \in tables.entries
    BY <2>1, <2>2 DEF LedgerInv, LockHeld, Busy
  <2>3. CASE e \notin tables.entries
    BY <1>2, <2>1, <2>3 DEF LedgerInv, LockHeld
  <2> QED
    BY <2>2, <2>3
<1>5. \A e \in own'.entries : KeyOf(e)' = KeyOf(e)
  BY <1>1, <1>4 DEF KeyOf
<1>6. ASSUME NEW u \in Txns \ {t}
      PROVE  /\ chainLock' = u <=> chainLock = u
             /\ Seen(u)' = Seen(u) /\ Seen(u).entries \subseteq own'.entries
  <2>1. chainLock' = u <=> chainLock = u
    BY <1>2, LedgerConstants
  <2>2. Seen(u)' = Seen(u)
    BY <1>1, <1>2, <2>1 DEF Seen
  <2>3. Seen(u).entries \subseteq own'.entries
    BY <1>2, <1>3 DEF Seen
  <2> QED
    BY <2>1, <2>2, <2>3
<1>7. chainLock' # t
  BY <1>2, LedgerConstants
<1> QED
  BY <1>1, <1>2, <1>3, <1>4, <1>5, <1>6, <1>7

LEMMA DeclineKeepsInv ==
    ASSUME LedgerInv, NEW t \in Txns, pc[t] \in Busy \union {"idle"}, Decline(t)
    PROVE  LedgerInv'
<1>1. /\ tables' = tables /\ status' = status /\ stragglers' = stragglers
      /\ pc'[t] = "declined" /\ req'[t] = NoRequest /\ answer'[t] = << >>
      /\ chainLock' # t
  BY DeclineLeaves
<1>2. ASSUME NEW u \in Txns \ {t}
      PROVE  /\ pc'[u] = pc[u] /\ req'[u] = req[u]
             /\ draft'[u] = draft[u] /\ answer'[u] = answer[u]
             /\ chainLock' = u <=> chainLock = u
             /\ Seen(u)' = Seen(u) /\ Seen(u).entries \subseteq own'.entries
  BY DeclineLeaves
<1>3. \/ chainLock # t /\ own' = own /\ chainLock' = chainLock
      \/ chainLock = t /\ own' = tables /\ chainLock' = NoEntry
  BY DeclineLeaves
<1>4. tables.entries \subseteq own'.entries /\ own'.entries \subseteq own.entries
  BY DeclineLeaves
<1>5. \A e \in own'.entries : e.id[1] \in Txns \ {t} /\ KeyOf(e)' = KeyOf(e)
  BY DeclineLeaves
<1>6. TypeOK'
  <2>1. << >> \in Seq(EntryId)
    OBVIOUS
  <2>2. answer' \in [Txns -> Seq(EntryId)]
    BY <2>1 DEF LedgerInv, TypeOK, Decline, Forget
  <2>3. BookOK(tables)' /\ BookOK(own)'
    BY <1>1, <1>3 DEF LedgerInv, TypeOK, BookOK
  <2> QED
    BY <2>2, <2>3 DEF LedgerInv, TypeOK, Decline, Goto, Forget, Ended
<1>7. Checked'
  <2> SUFFICES ASSUME NEW u \in Txns PROVE CheckedAt(u)'
    BY DEF Checked
  <2>1. CASE u = t
    BY <1>1, <2>1 DEF CheckedAt, Busy
  <2>2. CASE u # t
    <3>1. Current(u)' = Current(u)
      BY <1>2, <2>2 DEF Current, ItemAt
    <3> QED
      BY <1>2, <2>2, <3>1 DEF LedgerInv, Checked, CheckedAt
  <2> QED
    BY <2>1, <2>2
<1>8. LockHeld'
  <2>1. \A u \in Txns : /\ pc'[u] = "numbered" => chainLock' = u
                        /\ chainLock' = u => pc'[u] \in Busy
    BY <1>1, <1>2 DEF LedgerInv, LockHeld
  <2>2. chainLock' = NoEntry => own' = tables'
    BY <1>1, <1>3 DEF LedgerInv, LockHeld
  <2>3. \A e \in tables.entries : pc'[e.id[1]] = "answered"
    BY <1>2, <1>4, <1>5 DEF LedgerInv, LockHeld
  <2>4. \A e \in own'.entries \ tables'.entries : e.id[1] = chainLock'
    BY <1>1, <1>3 DEF LedgerInv, LockHeld
  <2> QED
    BY <1>1, <1>4, <2>1, <2>2, <2>3, <2>4 DEF LockHeld
<1>9. DraftIsNext'
  <2> SUFFICES ASSUME NEW u \in Txns, pc'[u] = "numbered" PROVE NextInLine(u)'
    BY DEF DraftIsNext
  <2>1. u # t /\ pc[u] = "numbered" /\ chainLock = u
    BY <1>1, <1>2 DEF LedgerInv, LockHeld
  <2>2. own' = own /\ Current(u)' = Current(u)
    BY <1>2, <1>3, <2>1 DEF Current, ItemAt
  <2> QED
    BY <1>2, <2>1, <2>2 DEF LedgerInv, DraftIsNext, NextInLine, NumberScope
<1>10. EntriesOwned' /\ KeysUnique'
  <2>1. \A e \in own'.entries : /\ e \in own.entries
                                /\ answer'[e.id[1]] = answer[e.id[1]]
                                /\ req'[e.id[1]] = req[e.id[1]]
    BY <1>2, <1>4, <1>5
  <2>2. EntriesOwned'
    BY <2>1 DEF LedgerInv, EntriesOwned
  <2>3. KeysUnique'
    BY <1>4, <1>5 DEF LedgerInv, KeysUnique
  <2> QED
    BY <2>2, <2>3
<1>11. KeysRecorded(tables)' /\ KeysRecorded(own)'
  <2>1. KeysRecorded(tables)'
    BY <1>1, <1>4, <1>5 DEF LedgerInv, KeysRecorded
  <2>2. KeysRecorded(own)'
    BY <1>3, <1>5 DEF LedgerInv, KeysRecorded
  <2> QED
    BY <2>1, <2>2
<1>12. Answers'
  <2> SUFFICES ASSUME NEW u \in Txns PROVE AnsweredAt(u)'
    BY DEF Answers
  <2>1. CASE u = t
    BY <1>1, <2>1 DEF AnsweredAt
  <2>2. CASE u # t
    BY <1>2, <1>5, <2>2 DEF LedgerInv, Answers, AnsweredAt
  <2> QED
    BY <2>1, <2>2
<1>13. Whole(tables)' /\ Whole(own)'
  BY <1>1, <1>3 DEF LedgerInv, Whole
<1>14. Overtaken' /\ HardCloseOvertakenByOne'
  <2>1. \A id \in stragglers : id[1] \in Txns /\ id[1] # t
    BY DEF LedgerInv, TypeOK, EntryId, Overtaken, Busy
  <2>2. \A id \in stragglers : pc'[id[1]] = "answered"
    BY <1>2, <2>1 DEF LedgerInv, Overtaken
  <2> QED
    BY <1>1, <1>4, <2>2 DEF LedgerInv, Overtaken, HardCloseOvertakenByOne
<1> QED
  BY <1>6, <1>7, <1>8, <1>9, <1>10, <1>11, <1>12, <1>13, <1>14 DEF LedgerInv



-----------------------------------------------------------------------------
(* Steps that write nothing and go on. *)

\* Such a step keeps the invariant when the request it leaves behind is in order;
\* it may take the chain lock when that is free.
LEMMA QuietStepKeepsInv ==
    ASSUME LedgerInv, TypeOK', NEW t \in Txns, pc[t] \in Busy \union {"idle"}, OwnStep(t),
           pc'[t] \in Busy, pc'[t] = "numbered" => chainLock' = t,
           chainLock' = chainLock \/ (chainLock = NoEntry /\ chainLock' = t),
           CheckedAt(t)', pc'[t] = "numbered" => NextInLine(t)', AnsweredAt(t)'
    PROVE  LedgerInv'
<1>1. /\ EntriesOwned' /\ KeysUnique' /\ KeysRecorded(tables)' /\ KeysRecorded(own)'
      /\ Whole(tables)' /\ Whole(own)' /\ Overtaken' /\ HardCloseOvertakenByOne'
      /\ \A e \in tables.entries : pc'[e.id[1]] = "answered"
  BY OwnStepKeepsTables DEF Busy
<1>2. tables' = tables /\ own' = own
  BY DEF OwnStep
<1>3. ASSUME NEW u \in Txns \ {t}
      PROVE  /\ pc'[u] = pc[u] /\ req'[u] = req[u]
             /\ draft'[u] = draft[u] /\ answer'[u] = answer[u]
             /\ Current(u)' = Current(u) /\ Seen(u)' = Seen(u)
  <2>1. Seen(u)' = Seen(u)
    BY <1>2, LedgerConstants DEF LedgerInv, LockHeld, Seen
  <2> QED
    BY <2>1 DEF OwnStep, Current, ItemAt
<1>4. Checked'
  BY <1>3 DEF LedgerInv, Checked, CheckedAt
<1>5. LockHeld'
  <2>1. \A u \in Txns : /\ pc'[u] = "numbered" => chainLock' = u
                        /\ chainLock' = u => pc'[u] \in Busy
    BY <1>3, LedgerConstants DEF LedgerInv, LockHeld
  <2>2. chainLock' = NoEntry => own' = tables'
    BY <1>2, LedgerConstants DEF LedgerInv, LockHeld
  <2>3. \A e \in own.entries \ tables.entries : e.id[1] = chainLock'
    BY DEF LedgerInv, LockHeld
  <2> QED
    BY <1>1, <1>2, <2>1, <2>2, <2>3 DEF LedgerInv, LockHeld
<1>6. DraftIsNext'
  <2> SUFFICES ASSUME NEW u \in Txns, pc'[u] = "numbered" PROVE NextInLine(u)'
    BY DEF DraftIsNext
  <2> QED
    BY <1>2, <1>3 DEF LedgerInv, DraftIsNext, NextInLine, NumberScope
<1>7. Answers'
  <2> SUFFICES ASSUME NEW u \in Txns \ {t} PROVE AnsweredAt(u)'
    BY DEF Answers
  <2>1. \A e \in own.entries : KeyOf(e)' = KeyOf(e)
    BY OwnStepKeepsEntries
  <2>2. Seen(u).entries \subseteq own.entries
    BY DEF LedgerInv, LockHeld, Seen
  <2> QED
    BY <1>3, <2>1, <2>2 DEF LedgerInv, Answers, AnsweredAt
<1> QED
  BY <1>1, <1>4, <1>5, <1>6, <1>7 DEF LedgerInv

\* What a request has been given stays what it asked for when nothing is added.
LEMMA QuietStepKeepsAnswers ==
    ASSUME LedgerInv, NEW t \in Txns, OwnStep(t), answer'[t] = answer[t], Seen(t)' = Seen(t)
    PROVE  AnsweredAt(t)'
<1>1. \A e \in Seen(t).entries : KeyOf(e)' = KeyOf(e)
  BY OwnStepKeepsEntries DEF LedgerInv, LockHeld, Seen
<1>2. answer[t] # << >> => req'[t] = req[t]
  BY DEF OwnStep
<1>3. \A n \in DOMAIN answer[t] : answer[t] # << >>
  OBVIOUS
<1> QED
  BY <1>1, <1>2, <1>3 DEF LedgerInv, Answers, AnsweredAt

\* The replay check: the item is new, is answered with what its key posted, or is
\* refused.
LEMMA ReplayCheckKeepsInv ==
    ASSUME LedgerInv, NEW t \in Txns, NEW r \in Request, ReplayCheck(t, r),
           \/ pc[t] = "idle"
           \/ pc[t] = "dealt" /\ r = req[t] /\ Len(answer[t]) < Len(r.items)
    PROVE  LedgerInv'
<1> DEFINE item == ItemAt(r, answer[t])
<1>1. /\ pc[t] \in Busy \union {"idle"} /\ answer[t] \in Seq(EntryId)
      /\ pc[t] = "idle" => answer[t] = << >>
      /\ answer[t] # << >> => r = req[t]
  BY DEF LedgerInv, TypeOK, Checked, CheckedAt, Busy
<1>2. r.items \in Seq(Item) /\ r.items # << >>
  BY DEF Request
<1>3. Len(answer[t]) < Len(r.items)
  BY <1>1, <1>2
<1>4. item = r.items[Len(answer[t]) + 1] /\ Len(answer[t]) + 1 \in DOMAIN r.items
  BY <1>1, <1>2, <1>3 DEF ItemAt
<1>5. ASSUME Goto(t, "fresh"), req' = [req EXCEPT ![t] = r],
             UNCHANGED <<draft, answer, tables, own, status, chainLock, stragglers>>
      PROVE  LedgerInv'
  <2>1. TypeOK' /\ OwnStep(t)
    BY <1>1, <1>5 DEF LedgerInv, TypeOK, BookOK, Goto, OwnStep
  <2>2. pc'[t] = "fresh" /\ req'[t] = r /\ answer'[t] = answer[t] /\ chainLock' = chainLock
    BY <1>5 DEF LedgerInv, TypeOK, Goto
  <2>3. Seen(t)' = Seen(t)
    BY <1>5 DEF Seen
  <2>4. CheckedAt(t)'
    BY <1>3, <2>2 DEF CheckedAt, Busy
  <2>5. AnsweredAt(t)'
    BY <2>1, <2>2, <2>3, QuietStepKeepsAnswers
  <2> QED
    BY <1>1, <2>1, <2>2, <2>4, <2>5, QuietStepKeepsInv DEF Busy
<1>6. ASSUME NEW record \in Seen(t).idempotency,
             record.key = item.key, record.cmd = item.cmd,
             answer' = [answer EXCEPT ![t] = Append(@, record.id)],
             Goto(t, "dealt"), req' = [req EXCEPT ![t] = r],
             UNCHANGED <<draft, tables, own, status, chainLock, stragglers>>
      PROVE  LedgerInv'
  <2>1. PICK e \in Seen(t).entries :
            KeyOf(e) = item.key /\ e.cmd = item.cmd /\ e.id = record.id
    BY <1>6 DEF LedgerInv, KeysRecorded, Seen
  <2>2. e \in own.entries /\ record.id \in EntryId
    BY <2>1, EntriesTyped DEF LedgerInv, LockHeld, Seen
  <2>3. /\ pc'[t] = "dealt" /\ req'[t] = r /\ chainLock' = chainLock
        /\ answer'[t] = Append(answer[t], record.id)
    BY <1>6 DEF LedgerInv, TypeOK, Goto
  <2>4. /\ answer'[t] \in Seq(EntryId)
        /\ DOMAIN answer'[t] = DOMAIN answer[t] \union {Len(answer[t]) + 1}
        /\ answer'[t][Len(answer[t]) + 1] = record.id
        /\ \A n \in DOMAIN answer[t] : answer'[t][n] = answer[t][n]
    BY <1>1, <2>2, <2>3
  <2>5. TypeOK'
    <3>1. answer' \in [Txns -> Seq(EntryId)]
      BY <1>6, <2>3, <2>4 DEF LedgerInv, TypeOK
    <3> QED
      BY <1>6, <3>1 DEF LedgerInv, TypeOK, BookOK, Goto
  <2>6. OwnStep(t)
    BY <1>1, <1>6, <2>3, <2>4 DEF LedgerInv, TypeOK, Goto, OwnStep
  <2>7. CheckedAt(t)'
    BY <2>3 DEF CheckedAt, Busy
  <2>8. AnsweredAt(t)'
    <3> SUFFICES ASSUME NEW n \in DOMAIN answer'[t]
                 PROVE  /\ n \in DOMAIN req'[t].items
                        /\ \E f \in Seen(t)'.entries : /\ f.id = answer'[t][n]
                                                       /\ f.cmd = req'[t].items[n].cmd
                                                       /\ KeyOf(f)' = req'[t].items[n].key
      BY DEF AnsweredAt
    <3>1. Seen(t)' = Seen(t) /\ Seen(t).entries \subseteq own.entries
      BY <1>6 DEF LedgerInv, LockHeld, Seen
    <3>2. \A f \in own.entries : KeyOf(f)' = KeyOf(f)
      BY <2>6, OwnStepKeepsEntries
    <3>3. CASE n = Len(answer[t]) + 1
      BY <1>4, <2>1, <2>3, <2>4, <3>1, <3>2, <3>3
    <3>4. CASE n # Len(answer[t]) + 1
      <4>1. n \in DOMAIN answer[t] /\ r = req[t]
        BY <1>1, <2>4, <3>4
      <4> QED
        BY <2>3, <2>4, <3>1, <3>2, <4>1 DEF LedgerInv, Answers, AnsweredAt
    <3> QED
      BY <3>3, <3>4
  <2> QED
    BY <1>1, <2>3, <2>5, <2>6, <2>7, <2>8, QuietStepKeepsInv DEF Busy
<1> HIDE DEF item
<1>7. CASE Decline(t)
  BY <1>1, <1>7, DeclineKeepsInv
<1> QED
  BY <1>5, <1>6, <1>7 DEF ReplayCheck, item


\* A request for one entry arrives.
LEMMA ArriveKeepsInv ==
    ASSUME LedgerInv, NEW t \in Txns, NEW cmd \in RawCommand, Arrive(t, cmd)
    PROVE  LedgerInv'
<1>1. PICK key \in Keys, senior \in BOOLEAN, dryRun \in BOOLEAN :
        ReplayCheck(t, [items |-> <<[key |-> <<key, 0>>, cmd |-> cmd]>>,
                        senior |-> senior, dryRun |-> dryRun])
  BY DEF Arrive
<1> DEFINE r == [items |-> <<[key |-> <<key, 0>>, cmd |-> cmd]>>,
                 senior |-> senior, dryRun |-> dryRun]
<1>2. [key |-> <<key, 0>>, cmd |-> cmd] \in Item
  BY DEF Item, ItemKey
<1>3. r \in Request
  BY <1>2 DEF Request
<1> HIDE DEF r
<1>4. pc[t] = "idle" /\ ReplayCheck(t, r)
  BY <1>1 DEF Arrive, r
<1> QED
  BY <1>3, <1>4, ReplayCheckKeepsInv

\* A reversal says what its entry says.
LEMMA ReversalIsTyped ==
    ASSUME LedgerInv, NEW e \in tables.entries, NEW period \in Periods
    PROVE  BuildReversal(e, period) \in RawCommand
<1>1. e.id \in EntryId /\ e.cmd \in Command
  BY EntriesTyped DEF LedgerInv, LockHeld
<1>2. e.cmd.journal \in Journals /\ e.cmd.lines \subseteq Line
  BY <1>1 DEF Command, RawCommand
<1>3. ASSUME NEW l \in e.cmd.lines PROVE SwapSides(l) \in Line
  BY <1>2 DEF Line, SwapSides
<1>4. {SwapSides(l) : l \in e.cmd.lines} \subseteq Line
  BY <1>3
<1> QED
  BY <1>1, <1>2, <1>4 DEF BuildReversal, RawCommand

\* The items of an audit file make up a request.
LEMMA FileIsTyped ==
    ASSUME NEW file \in Files, NEW key \in Keys, NEW senior \in BOOLEAN
    PROVE  [items |-> ItemsOf(file, key), senior |-> senior, dryRun |-> FALSE] \in Request
<1>1. file \in Seq(RawCommand) /\ file # << >>
  BY CommandsAreRaw
<1>2. DOMAIN file = 1 .. Len(file) /\ Len(file) \in Nat \ {0}
  BY <1>1
<1>3. ASSUME NEW n \in DOMAIN file PROVE [key |-> <<key, n>>, cmd |-> file[n]] \in Item
  <2>1. file[n] \in RawCommand
    BY <1>1
  <2>2. <<key, n>> \in ItemKey
    BY <1>2 DEF ItemKey
  <2> QED
    BY <2>1, <2>2 DEF Item
<1>4. ItemsOf(file, key) \in [1 .. Len(file) -> Item]
  BY <1>2, <1>3 DEF ItemsOf
<1>5. ItemsOf(file, key) \in Seq(Item) \ {<< >>}
  <2> DEFINE items == ItemsOf(file, key)
  <2>1. items \in Seq(Item)
    BY <1>2, <1>4
  <2>2. DOMAIN items = 1 .. Len(file)
    BY <1>4
  <2> HIDE DEF items
  <2>3. items # << >>
    BY <1>2, <2>2
  <2> QED
    BY <2>1, <2>3 DEF items
<1> QED
  BY <1>5 DEF Request

LEMMA ImportKeepsInv ==
    ASSUME LedgerInv, NEW t \in Txns, HandleImportXaf(t)
    PROVE  LedgerInv'
<1>1. PICK file \in Files, key \in Keys, senior \in BOOLEAN :
        ReplayCheck(t, [items |-> ItemsOf(file, key), senior |-> senior, dryRun |-> FALSE])
  BY DEF HandleImportXaf
<1> DEFINE r == [items |-> ItemsOf(file, key), senior |-> senior, dryRun |-> FALSE]
<1>2. r \in Request
  BY FileIsTyped
<1>3. pc[t] = "idle" /\ ReplayCheck(t, r)
  BY <1>1 DEF HandleImportXaf
<1> HIDE DEF r
<1> QED
  BY <1>2, <1>3, ReplayCheckKeepsInv

LEMMA NextItemKeepsInv ==
    ASSUME LedgerInv, NEW t \in Txns, NextItem(t)
    PROVE  LedgerInv'
<1>1. req[t] \in Request
  BY DEF LedgerInv, Checked, CheckedAt, NextItem, Busy
<1> QED
  BY <1>1, ReplayCheckKeepsInv DEF NextItem

\* A request reads its context: it is refused, previewed or goes on.
LEMMA LoadContextKeepsInv ==
    ASSUME LedgerInv, NEW t \in Txns, LoadContext(t)
    PROVE  LedgerInv'
<1>1. CASE Decline(t)
  BY <1>1, DeclineKeepsInv DEF LoadContext, Busy
<1>2. ASSUME Acceptable(Current(t).cmd, req[t].senior, Seen(t).entries), Goto(t, "validated"),
             UNCHANGED <<req, draft, answer, tables, own, status, chainLock, stragglers>>
      PROVE  LedgerInv'
  <2>1. TypeOK' /\ OwnStep(t)
    BY <1>2 DEF LedgerInv, TypeOK, BookOK, Goto, OwnStep
  <2>2. /\ pc[t] = "fresh" /\ pc'[t] = "validated" /\ req' = req /\ answer' = answer
        /\ chainLock' = chainLock /\ Seen(t)' = Seen(t) /\ Current(t)' = Current(t)
    BY <1>2 DEF LedgerInv, TypeOK, Goto, LoadContext, Seen, Current, ItemAt
  <2>3. req[t] \in Request /\ Len(answer[t]) < Len(req[t].items)
    BY <2>2 DEF LedgerInv, Checked, CheckedAt, Busy
  <2>4. Current(t) \in Item
    BY <2>3, ItemIsTyped DEF LedgerInv, TypeOK, Current
  <2>5. /\ Current(t).cmd \in Command
        /\ Current(t).cmd.reverses # NoEntry =>
              \E f \in Seen(t).entries : f.id = Current(t).cmd.reverses
    BY <1>2, <2>4 DEF Acceptable, Item, Command, RawCommand
  <2>6. CheckedAt(t)'
    BY <2>2, <2>3, <2>5 DEF CheckedAt, Busy
  <2>7. AnsweredAt(t)'
    BY <2>1, <2>2, QuietStepKeepsAnswers
  <2> QED
    BY <2>1, <2>2, <2>6, <2>7, QuietStepKeepsInv DEF Busy
<1> QED
  BY <1>1, <1>2 DEF LoadContext, Current

\* Allocating takes the row lock, or has it already.
LEMMA AllocateKeepsInv ==
    ASSUME LedgerInv, NEW t \in Txns, AllocateChainPosition(t)
    PROVE  LedgerInv'
<1> DEFINE cmd == Current(t).cmd
           next == own.nextValue
           previous == PreviousHash(next[ChainScope], own.entries)
<1>1. /\ pc[t] = "validated" /\ pc'[t] = "numbered" /\ req' = req /\ answer' = answer
      /\ chainLock \in {NoEntry, t} /\ chainLock' = t
      /\ Current(t)' = Current(t)
  BY DEF LedgerInv, TypeOK, AllocateChainPosition, ChainRowFree, Goto, Current, ItemAt
<1>2. Seen(t) = own /\ Seen(t)' = own /\ own' = own
  BY <1>1 DEF LedgerInv, LockHeld, Seen, AllocateChainPosition
<1>3. cmd \in Command /\ Len(answer[t]) < Len(req[t].items) /\ req[t] \in Request
  BY <1>1 DEF LedgerInv, Checked, CheckedAt, Busy
<1>4. /\ next[ChainScope] \in Nat \ {0} /\ next[NumberScope(cmd)] \in Nat \ {0}
      /\ own.entries \subseteq Entry
  BY <1>3, ScopesDiffer DEF LedgerInv, TypeOK, BookOK
<1>5. IF next[ChainScope] = 1 THEN previous = NoEntry
      ELSE \E f \in own.entries : f.sequence = next[ChainScope] - 1 /\ f.id = previous
  <2>1. CASE next[ChainScope] = 1
    BY <2>1 DEF PreviousHash
  <2>2. CASE next[ChainScope] # 1
    <3>1. \E f \in own.entries : f.sequence = next[ChainScope] - 1
      BY <1>4, <2>2 DEF LedgerInv, Whole, Chained
    <3> QED
      BY <2>2, <3>1 DEF PreviousHash
  <2> QED
    BY <2>1, <2>2
<1>6. previous \in EntryId \union {NoEntry}
  BY <1>4, <1>5 DEF Entry
<1>7. draft' = [draft EXCEPT ![t] =
                 [id |-> <<t, Len(answer[t]) + 1>>, cmd |-> cmd,
                  sequence |-> next[ChainScope], number |-> next[NumberScope(cmd)],
                  previousHash |-> previous]]
  BY <1>2 DEF AllocateChainPosition, Current
<1>8. <<t, Len(answer[t]) + 1>> \in EntryId
  BY DEF LedgerInv, TypeOK, EntryId
<1>9. [id |-> <<t, Len(answer[t]) + 1>>, cmd |-> cmd,
       sequence |-> next[ChainScope], number |-> next[NumberScope(cmd)],
       previousHash |-> previous] \in Entry
  BY <1>3, <1>4, <1>6, <1>8 DEF Entry
<1>10. /\ draft'[t] \in Entry /\ draft'[t].id = <<t, Len(answer[t]) + 1>>
       /\ draft'[t].cmd = cmd /\ draft'[t].sequence = next[ChainScope]
       /\ draft'[t].number = next[NumberScope(cmd)] /\ draft'[t].previousHash = previous
       /\ draft' \in [Txns -> Entry \union {NoDraft}]
       /\ \A u \in Txns \ {t} : draft'[u] = draft[u]
  BY <1>7, <1>9 DEF LedgerInv, TypeOK
<1> HIDE DEF cmd, next, previous
<1>11. TypeOK' /\ OwnStep(t)
  BY <1>10 DEF LedgerInv, TypeOK, BookOK, AllocateChainPosition, Goto, OwnStep
<1>12. NextInLine(t)'
  BY <1>1, <1>2, <1>5, <1>10 DEF NextInLine, NumberScope, cmd, next
<1>13. CheckedAt(t)'
  BY <1>1, <1>2, <1>3 DEF LedgerInv, Checked, CheckedAt, Busy
<1>14. AnsweredAt(t)'
  BY <1>1, <1>2, <1>11, QuietStepKeepsAnswers
<1> QED
  BY <1>1, <1>11, <1>12, <1>13, <1>14, QuietStepKeepsInv DEF Busy

\* Closing a period moves nothing but its status.  A period that gets its hard
\* close has no straggler yet.
LEMMA CloseKeepsInv ==
    ASSUME LedgerInv, NEW p \in Periods, SoftClose(p) \/ HardClose(p)
    PROVE  LedgerInv'
<1>1. UNCHANGED <<pc, req, draft, answer, tables, own, chainLock, stragglers>>
  BY DEF SoftClose, HardClose
<1>2. /\ status' \in [Periods -> {"open", "soft_closed", "hard_closed"}]
      /\ \A q \in Periods : status[q] = "hard_closed" => status'[q] = "hard_closed"
  BY DEF LedgerInv, TypeOK, SoftClose, HardClose
<1>3. TypeOK'
  BY <1>1, <1>2 DEF LedgerInv, TypeOK, BookOK
<1>4. \A u \in Txns : Current(u)' = Current(u) /\ Seen(u)' = Seen(u)
  BY <1>1 DEF Current, ItemAt, Seen
<1>5. Checked' /\ LockHeld' /\ DraftIsNext' /\ EntriesOwned'
  BY <1>1, <1>4 DEF LedgerInv, Checked, CheckedAt, LockHeld, DraftIsNext, NextInLine,
                    NumberScope, EntriesOwned
<1>6. KeysUnique' /\ KeysRecorded(tables)' /\ KeysRecorded(own)' /\ Answers'
  <2>1. \A e : KeyOf(e)' = KeyOf(e)
    BY <1>1 DEF KeyOf
  <2>2. KeysUnique /\ KeysRecorded(tables) /\ KeysRecorded(own) /\ Answers
    BY DEF LedgerInv
  <2>3. KeysUnique'
    BY <1>1, <2>1, <2>2 DEF KeysUnique
  <2>4. KeysRecorded(tables)' /\ KeysRecorded(own)'
    BY <1>1, <2>1, <2>2 DEF KeysRecorded
  <2>5. Answers'
    BY <1>1, <1>4, <2>1, <2>2 DEF Answers, AnsweredAt
  <2> QED
    BY <2>3, <2>4, <2>5
<1>7. Whole(tables)' /\ Whole(own)'
  BY <1>1 DEF LedgerInv, Whole
<1>8. Overtaken' /\ HardCloseOvertakenByOne'
  <2>1. \A e \in tables.entries : e.cmd.period \in Periods
    BY EntriesTyped DEF LedgerInv, LockHeld, Command
  <2> QED
    BY <1>1, <1>2, <2>1 DEF LedgerInv, Overtaken, HardCloseOvertakenByOne
<1> QED
  BY <1>3, <1>5, <1>6, <1>7, <1>8 DEF LedgerInv


-----------------------------------------------------------------------------
(* Commits. *)

LEMMA CommitKeepsInv ==
    ASSUME LedgerInv, NEW t \in Txns, Commit(t)
    PROVE  LedgerInv'
<1>1. /\ pc[t] = "dealt" /\ pc'[t] = "answered" /\ Len(answer[t]) = Len(req[t].items)
      /\ req' = req /\ draft' = draft /\ answer' = answer /\ own' = own /\ status' = status
      /\ \A u \in Txns \ {t} : pc'[u] = pc[u]
  BY DEF LedgerInv, TypeOK, Commit, Goto
<1>2. \/ chainLock = t /\ tables' = own /\ chainLock' = NoEntry
      \/ chainLock # t /\ tables' = tables /\ chainLock' = chainLock
  BY DEF Commit, Seen
<1>3. /\ chainLock # t => stragglers' = stragglers
      /\ stragglers' = stragglers \union
            {e.id : e \in {f \in tables'.entries \ tables.entries :
                              status[f.cmd.period] = "hard_closed"}}
  BY <1>2 DEF Commit, Seen
<1>4. /\ tables.entries \subseteq tables'.entries /\ tables'.entries \subseteq own.entries
      /\ \A e \in tables'.entries \ tables.entries : e.id[1] = t
      /\ \A e \in tables.entries : e.id[1] # t /\ e.id[1] \in Txns /\ pc[e.id[1]] = "answered"
  <2>1. \A e \in tables.entries : e.id[1] \in Txns /\ pc[e.id[1]] = "answered"
    BY EntriesTyped DEF LedgerInv, LockHeld
  <2> QED
    BY <1>1, <1>2, <2>1 DEF LedgerInv, LockHeld
<1>5. \A u \in Txns : Seen(u).entries \subseteq Seen(u)'.entries
  <2> SUFFICES ASSUME NEW u \in Txns PROVE Seen(u).entries \subseteq Seen(u)'.entries
    OBVIOUS
  <2>1. Seen(u)' = IF chainLock' = u THEN own ELSE tables'
    BY <1>1 DEF Seen
  <2> QED
    BY <1>2, <1>4, <2>1, LedgerConstants DEF Seen
<1>6. TypeOK'
  <2>1. \A e \in tables'.entries : e.id \in EntryId
    BY <1>4, EntriesTyped
  <2>2. stragglers' \subseteq EntryId
    BY <1>3, <2>1 DEF LedgerInv, TypeOK
  <2>3. BookOK(tables)' /\ BookOK(own)'
    BY <1>1, <1>2 DEF LedgerInv, TypeOK, BookOK
  <2> QED
    BY <1>1, <2>2, <2>3 DEF LedgerInv, TypeOK, Commit, Goto, Ended
<1>7. Checked'
  <2> SUFFICES ASSUME NEW u \in Txns PROVE CheckedAt(u)'
    BY DEF Checked
  <2>1. Current(u)' = Current(u)
    BY <1>1 DEF Current, ItemAt
  <2>2. CASE u = t
    BY <1>1, <2>2 DEF LedgerInv, Checked, CheckedAt, Busy
  <2>3. CASE u # t
    BY <1>1, <1>5, <2>1, <2>3 DEF LedgerInv, Checked, CheckedAt
  <2> QED
    BY <2>2, <2>3
<1>8. LockHeld'
  <2>1. \A u \in Txns : /\ pc'[u] = "numbered" => chainLock' = u
                        /\ chainLock' = u => pc'[u] \in Busy
    BY <1>1, <1>2, LedgerConstants DEF LedgerInv, LockHeld
  <2>2. chainLock' = NoEntry => own' = tables'
    BY <1>1, <1>2 DEF LedgerInv, LockHeld
  <2>3. \A e \in tables'.entries : pc'[e.id[1]] = "answered"
    BY <1>1, <1>4
  <2>4. \A e \in own'.entries \ tables'.entries : e.id[1] = chainLock'
    BY <1>1, <1>2 DEF LedgerInv, LockHeld
  <2> QED
    BY <1>1, <1>4, <2>1, <2>2, <2>3, <2>4 DEF LockHeld
<1>9. DraftIsNext'
  <2> SUFFICES ASSUME NEW u \in Txns, pc'[u] = "numbered" PROVE NextInLine(u)'
    BY DEF DraftIsNext
  <2>1. pc[u] = "numbered" /\ Current(u)' = Current(u)
    BY <1>1 DEF Current, ItemAt
  <2> QED
    BY <1>1, <2>1 DEF LedgerInv, DraftIsNext, NextInLine, NumberScope
<1>10. EntriesOwned' /\ KeysUnique'
  BY <1>1 DEF LedgerInv, EntriesOwned, KeysUnique, KeyOf
<1>11. KeysRecorded(tables)' /\ KeysRecorded(own)'
  <2>1. \A e : KeyOf(e)' = KeyOf(e)
    BY <1>1 DEF KeyOf
  <2>2. KeysRecorded(own)
    BY DEF LedgerInv
  <2>3. KeysRecorded(own)'
    BY <1>1, <1>2, <2>1, <2>2 DEF KeysRecorded
  <2>4. KeysRecorded(tables)'
    BY <1>1, <1>2, <2>1, <2>2 DEF KeysRecorded, LedgerInv
  <2> QED
    BY <2>3, <2>4
<1>12. Answers'
  BY <1>1, <1>5 DEF LedgerInv, Answers, AnsweredAt, KeyOf
<1>13. Whole(tables)' /\ Whole(own)'
  BY <1>1, <1>2 DEF LedgerInv, Whole
<1>14. \A e \in tables.entries : e.id \in stragglers' => e.id \in stragglers
  BY <1>3, <1>4
<1>15. Overtaken'
  <2>1. \A id \in stragglers' : pc'[id[1]] = "answered"
    <3>1. \A id \in stragglers : id[1] \in Txns /\ pc[id[1]] = "answered"
      BY DEF LedgerInv, TypeOK, EntryId, Overtaken
    <3> QED
      BY <1>1, <1>3, <1>4, <3>1
  <2>2. ASSUME NEW e \in tables'.entries, e.id \in stragglers'
        PROVE  status[e.cmd.period] = "hard_closed"
    <3>1. CASE e \in tables.entries
      BY <1>14, <2>2, <3>1 DEF LedgerInv, Overtaken
    <3>2. CASE e \notin tables.entries
      <4>1. e.id \notin stragglers
        BY <1>1, <1>4, <3>2 DEF LedgerInv, Overtaken
      <4>2. PICK f \in tables'.entries :
                f.id = e.id /\ status[f.cmd.period] = "hard_closed"
        BY <1>3, <2>2, <4>1
      <4>3. f.cmd = e.cmd
        BY <1>4, <4>2 DEF LedgerInv, EntriesOwned
      <4> QED
        BY <4>2, <4>3
    <3> QED
      BY <3>1, <3>2
  <2>3. ASSUME NEW e \in tables'.entries, e.id \in stragglers',
               NEW f \in own'.entries \ tables'.entries
        PROVE  f.cmd.period # e.cmd.period
    BY <1>1, <1>2, <1>14, <2>3 DEF LedgerInv, Overtaken
  <2> QED
    BY <1>1, <2>1, <2>2, <2>3 DEF Overtaken
<1>16. HardCloseOvertakenByOne'
  <2> SUFFICES ASSUME NEW e \in tables'.entries, NEW f \in tables'.entries,
                      e.cmd.period = f.cmd.period,
                      e.id \in stragglers', f.id \in stragglers'
               PROVE  e.id[1] = f.id[1]
    BY DEF HardCloseOvertakenByOne
  <2>1. CASE e \in tables.entries /\ f \in tables.entries
    <3>1. e.cmd.period \in Periods
      BY <1>4, EntriesTyped DEF Command
    <3> QED
      BY <1>14, <2>1, <3>1 DEF LedgerInv, HardCloseOvertakenByOne
  <2>2. CASE e \in tables.entries /\ f \notin tables.entries
    BY <1>4, <1>14, <2>2 DEF LedgerInv, Overtaken
  <2>3. CASE e \notin tables.entries /\ f \in tables.entries
    BY <1>4, <1>14, <2>3 DEF LedgerInv, Overtaken
  <2>4. CASE e \notin tables.entries /\ f \notin tables.entries
    BY <1>4, <2>4
  <2> QED
    BY <2>1, <2>2, <2>3, <2>4
<1> QED
  BY <1>6, <1>7, <1>8, <1>9, <1>10, <1>11, <1>12, <1>13, <1>15, <1>16 DEF LedgerInv


-----------------------------------------------------------------------------
(* Inserts. *)

\* The counters after an insert: two rows moved.
LEMMA CountersAfterInsert ==
    ASSUME LedgerInv, NEW entry \in Entry, NEW key,
           entry.sequence = own.nextValue[ChainScope],
           entry.number = own.nextValue[NumberScope(entry.cmd)]
    PROVE  LET scope == NumberScope(entry.cmd)
               next == WithEntry(own, entry, key).nextValue
           IN  /\ scope = <<entry.cmd.journal, YearOf[entry.cmd.period]>>
               /\ next[ChainScope] = entry.sequence + 1
               /\ next[scope] = entry.number + 1
               /\ \A s \in Scopes \ {scope, ChainScope} : next[s] = own.nextValue[s]
               /\ next \in [Scopes -> Nat \ {0}]
<1> DEFINE scope == NumberScope(entry.cmd)
           next == WithEntry(own, entry, key).nextValue
<1>1. entry.cmd \in Command /\ entry.sequence \in Nat \ {0} /\ entry.number \in Nat \ {0}
  BY DEF Entry
<1>2. /\ scope \in Scopes /\ scope # ChainScope /\ ChainScope \in Scopes
      /\ scope = <<entry.cmd.journal, YearOf[entry.cmd.period]>>
  BY <1>1, ScopesDiffer
<1>3. own.nextValue \in [Scopes -> Nat \ {0}]
  BY DEF LedgerInv, TypeOK, BookOK
<1>4. next = [own.nextValue EXCEPT ![ChainScope] = entry.sequence + 1,
                                   ![scope] = entry.number + 1]
  BY DEF WithEntry
<1> HIDE DEF scope, next
<1>5. /\ next[ChainScope] = entry.sequence + 1 /\ next[scope] = entry.number + 1
      /\ \A s \in Scopes \ {scope, ChainScope} : next[s] = own.nextValue[s]
      /\ next \in [Scopes -> Nat \ {0}]
  BY <1>1, <1>2, <1>3, <1>4
<1> QED
  BY <1>2, <1>5 DEF scope, next

\* An entry that is next in line extends the journal.
LEMMA EntryExtendsTheJournal ==
    ASSUME LedgerInv, NEW t \in Txns, pc[t] = "numbered",
           Insertable(draft[t], Current(t).key), own' = WithEntry(own, draft[t], Current(t).key)
    PROVE  Whole(own)'
<1>1. PICK entry : entry = draft[t]
  OBVIOUS
<1>2. NextInLine(t) /\ CheckedAt(t) /\ Seen(t) = own
  BY DEF LedgerInv, DraftIsNext, Checked, LockHeld, Seen
<1>3. /\ entry \in Entry /\ entry.cmd = Current(t).cmd /\ entry.cmd \in Command
      /\ entry.sequence = own.nextValue[ChainScope]
      /\ entry.number = own.nextValue[NumberScope(entry.cmd)]
      /\ IF entry.sequence = 1 THEN entry.previousHash = NoEntry
         ELSE \E f \in own.entries : /\ f.sequence = entry.sequence - 1
                                     /\ f.id = entry.previousHash
      /\ entry.cmd.reverses # NoEntry => \E f \in own.entries : f.id = entry.cmd.reverses
  BY <1>1, <1>2 DEF NextInLine, CheckedAt
<1>4. entry.cmd.reverses # NoEntry => FindReversalOf(entry.cmd.reverses, own.entries) = {}
  BY <1>1 DEF Insertable
<1>5. own'.entries = own.entries \union {entry}
  BY <1>1 DEF WithEntry
<1>6. /\ own'.nextValue[ChainScope] = entry.sequence + 1
      /\ own'.nextValue[NumberScope(entry.cmd)] = entry.number + 1
      /\ \A s \in Scopes \ {NumberScope(entry.cmd), ChainScope} :
            own'.nextValue[s] = own.nextValue[s]
      /\ NumberScope(entry.cmd) = <<entry.cmd.journal, YearOf[entry.cmd.period]>>
  BY <1>1, <1>3, CountersAfterInsert
<1>7. own.entries \subseteq Entry /\ entry.sequence \in Nat \ {0} /\ entry.number \in Nat \ {0}
  BY <1>3 DEF LedgerInv, TypeOK, BookOK, Entry
<1>8. Chained(own'.entries, own'.nextValue[ChainScope])
  <2>1. Chained(own.entries, entry.sequence)
    BY <1>3 DEF LedgerInv, Whole
  <2>2. /\ \A e \in own'.entries : e.sequence < entry.sequence + 1
        /\ \A e, f \in own'.entries : e.sequence = f.sequence => e = f
    BY <1>5, <1>7, <2>1 DEF Chained, Entry
  <2>3. \A n \in 1 .. entry.sequence : \E e \in own'.entries : e.sequence = n
    BY <1>5, <1>7, <2>1 DEF Chained
  <2>4. \A e \in own'.entries :
            IF e.sequence = 1 THEN e.previousHash = NoEntry
            ELSE \E f \in own'.entries : f.sequence = e.sequence - 1 /\ f.id = e.previousHash
    BY <1>3, <1>5, <2>1 DEF Chained
  <2>5. (entry.sequence + 1) - 1 = entry.sequence
    BY <1>7
  <2> QED
    BY <1>6, <2>2, <2>3, <2>4, <2>5 DEF Chained
<1>9. ASSUME NEW j \in Journals, NEW y \in Years
      PROVE  Numbered(own'.entries, j, y, own'.nextValue[<<j, y>>])
  <2>1. /\ <<j, y>> \in Scopes /\ <<j, y>> # ChainScope
        /\ own.nextValue[<<j, y>>] \in Nat \ {0}
        /\ Numbered(own.entries, j, y, own.nextValue[<<j, y>>])
    BY ScopesDiffer DEF LedgerInv, TypeOK, BookOK, Whole
  <2>2. CASE entry.cmd.journal = j /\ YearOf[entry.cmd.period] = y
    <3>1. NumberScope(entry.cmd) = <<j, y>>
      BY <1>6, <2>2
    <3> QED
      BY <1>3, <1>5, <1>6, <1>7, <2>1, <2>2, <3>1 DEF Numbered, Entry
  <2>3. CASE ~ (entry.cmd.journal = j /\ YearOf[entry.cmd.period] = y)
    <3>1. NumberScope(entry.cmd) # <<j, y>>
      BY <1>6, <2>3
    <3>2. own'.nextValue[<<j, y>>] = own.nextValue[<<j, y>>]
      BY <1>6, <2>1, <3>1
    <3> QED
      BY <1>5, <2>1, <2>3, <3>2 DEF Numbered
  <2> QED
    BY <2>2, <2>3
<1>10. Reversals(own'.entries)
  <2>1. \A f \in own.entries : f.sequence < entry.sequence
    BY <1>3 DEF LedgerInv, Whole, Chained
  <2>2. \A e \in own'.entries : e.cmd.reverses # NoEntry =>
            \E f \in own'.entries : f.id = e.cmd.reverses /\ f.sequence < e.sequence
    BY <1>3, <1>5, <2>1 DEF LedgerInv, Whole, Reversals
  <2>3. \A e, f \in own'.entries :
            e.cmd.reverses # NoEntry /\ f.cmd.reverses = e.cmd.reverses => e = f
    BY <1>4, <1>5 DEF LedgerInv, Whole, Reversals, FindReversalOf
  <2> QED
    BY <2>2, <2>3 DEF Reversals, FindReversalOf
<1> QED
  BY <1>8, <1>9, <1>10 DEF Whole

LEMMA InsertKeepsInv ==
    ASSUME LedgerInv, NEW t \in Txns, InsertEntry(t)
    PROVE  LedgerInv'
<1>1. CASE Decline(t)
  BY <1>1, DeclineKeepsInv DEF InsertEntry, Busy
<1>2. ASSUME Insertable(draft[t], Current(t).key),
             own' = WithEntry(own, draft[t], Current(t).key),
             answer' = [answer EXCEPT ![t] = Append(@, draft[t].id)],
             draft' = [draft EXCEPT ![t] = NoDraft], Goto(t, "dealt"),
             UNCHANGED <<req, tables, status, chainLock, stragglers>>
      PROVE  LedgerInv'
  <2>1. PICK entry, key : entry = draft[t] /\ key = Current(t).key
    OBVIOUS
  <2>2. pc[t] = "numbered" /\ chainLock = t /\ NextInLine(t) /\ CheckedAt(t) /\ Seen(t) = own
    BY DEF InsertEntry, LedgerInv, DraftIsNext, Checked, LockHeld, Seen
  <2>3. /\ entry \in Entry /\ entry.id = <<t, Len(answer[t]) + 1>> /\ entry.id \in EntryId
        /\ entry.cmd = Current(t).cmd /\ entry.cmd \in Command
        /\ entry.sequence = own.nextValue[ChainScope]
        /\ entry.number = own.nextValue[NumberScope(entry.cmd)]
    BY <2>1, <2>2 DEF NextInLine, Entry
  <2>4. /\ req[t] \in Request /\ answer[t] \in Seq(EntryId)
        /\ Len(answer[t]) < Len(req[t].items)
    BY <2>2 DEF CheckedAt, Busy, LedgerInv, TypeOK
  <2>5. /\ Len(answer[t]) + 1 \in DOMAIN req[t].items
        /\ Current(t) = req[t].items[Len(answer[t]) + 1] /\ Current(t) \in Item
    BY <2>4, ItemIsTyped DEF Current, ItemAt
  <2>6. /\ pc'[t] = "dealt" /\ req' = req /\ tables' = tables /\ status' = status
        /\ chainLock' = chainLock /\ stragglers' = stragglers
        /\ answer'[t] = Append(answer[t], entry.id)
        /\ \A u \in Txns \ {t} : /\ pc'[u] = pc[u] /\ draft'[u] = draft[u]
                                 /\ answer'[u] = answer[u]
    BY <1>2, <2>1 DEF LedgerInv, TypeOK, Goto
  <2>7. /\ answer'[t] \in Seq(EntryId)
        /\ DOMAIN answer'[t] = DOMAIN answer[t] \union {Len(answer[t]) + 1}
        /\ Len(answer[t]) + 1 \notin DOMAIN answer[t]
        /\ answer'[t][Len(answer[t]) + 1] = entry.id
        /\ \A n \in DOMAIN answer[t] : answer'[t][n] = answer[t][n]
    BY <2>3, <2>4, <2>6
  <2>8. /\ own'.entries = own.entries \union {entry}
        /\ own'.idempotency = own.idempotency \union
              {[key |-> key, cmd |-> entry.cmd, id |-> entry.id]}
        /\ own'.nextValue \in [Scopes -> Nat \ {0}]
        /\ DOMAIN own' = {"entries", "idempotency", "nextValue", "balances"}
        /\ DOMAIN own'.balances = DOMAIN own.balances
    BY <1>2, <2>1, <2>3, CountersAfterInsert DEF WithEntry
  <2>9. \A e \in own.entries : /\ e.id[1] \in Txns /\ e.id[2] \in DOMAIN answer[e.id[1]]
                               /\ KeyOf(e)' = KeyOf(e)
    BY <2>6, EntriesTyped DEF LedgerInv, EntriesOwned, KeyOf
  <2>10. KeyOf(entry)' = key
    BY <2>1, <2>3, <2>5, <2>6 DEF KeyOf
  <2>11. entry \notin own.entries
    BY <2>3, <2>7, <2>9
  <2>12. TypeOK'
    <3>1. answer' \in [Txns -> Seq(EntryId)]
      BY <1>2, <2>1, <2>6, <2>7 DEF LedgerInv, TypeOK
    <3>2. draft' \in [Txns -> Entry \union {NoDraft}]
      BY <1>2 DEF LedgerInv, TypeOK
    <3>3. [key |-> key, cmd |-> entry.cmd, id |-> entry.id] \in
              [key : ItemKey, cmd : Command, id : EntryId]
      BY <2>1, <2>3, <2>5 DEF Item
    <3>4. BookOK(own)'
      BY <2>3, <2>8, <3>3 DEF LedgerInv, TypeOK, BookOK
    <3>5. BookOK(tables)'
      BY <2>6 DEF LedgerInv, TypeOK, BookOK
    <3> QED
      BY <1>2, <2>6, <3>1, <3>2, <3>4, <3>5 DEF LedgerInv, TypeOK, Goto
  <2>13. ASSUME NEW u \in Txns \ {t}
         PROVE  Current(u)' = Current(u) /\ Seen(u)' = Seen(u) /\ chainLock # u
    BY <2>2, <2>6 DEF Current, ItemAt, Seen
  <2>14. Seen(t)' = own'
    BY <2>2, <2>6 DEF Seen
  <2>15. Checked'
    <3>1. CheckedAt(t)'
      BY <2>4, <2>6 DEF CheckedAt
    <3>2. \A u \in Txns \ {t} : CheckedAt(u)'
      BY <2>6, <2>13 DEF LedgerInv, Checked, CheckedAt
    <3> QED
      BY <3>1, <3>2 DEF Checked
  <2>16. LockHeld'
    <3>1. \A u \in Txns : /\ pc'[u] = "numbered" => chainLock' = u
                          /\ chainLock' = u => pc'[u] \in Busy
      BY <2>2, <2>6 DEF LedgerInv, LockHeld, Busy
    <3>2. chainLock' # NoEntry
      BY <2>2, <2>6, LedgerConstants
    <3>3. \A e \in tables.entries : pc'[e.id[1]] = "answered"
      BY <2>2, <2>6, <2>9 DEF LedgerInv, LockHeld
    <3>4. \A e \in own'.entries \ tables'.entries : e.id[1] = chainLock'
      BY <2>2, <2>3, <2>6, <2>8 DEF LedgerInv, LockHeld
    <3>5. tables'.entries \subseteq own'.entries
      BY <2>6, <2>8 DEF LedgerInv, LockHeld
    <3> QED
      BY <2>6, <3>1, <3>2, <3>3, <3>4, <3>5 DEF LockHeld
  <2>17. DraftIsNext'
    BY <2>2, <2>6, <2>13 DEF LedgerInv, LockHeld, DraftIsNext
  <2>18. EntriesOwned'
    <3> SUFFICES ASSUME NEW e \in own'.entries
                 PROVE  /\ e.id[2] \in DOMAIN answer'[e.id[1]]
                        /\ answer'[e.id[1]][e.id[2]] = e.id
                        /\ e.id[2] \in DOMAIN req'[e.id[1]].items
                        /\ req'[e.id[1]].items[e.id[2]].cmd = e.cmd
      BY DEF EntriesOwned
    <3>1. CASE e = entry
      <4>1. e.id[1] = t /\ e.id[2] = Len(answer[t]) + 1 /\ e.id = entry.id
        BY <2>3, <3>1
      <4>2. e.cmd = req[t].items[Len(answer[t]) + 1].cmd
        BY <2>3, <2>5, <3>1
      <4>3. req' = req
        BY <2>6
      <4> QED
        BY <2>5, <2>7, <4>1, <4>2, <4>3
    <3>2. CASE e # entry
      <4>1. e \in own.entries
        BY <2>8, <3>2
      <4>2. /\ e.id[2] \in DOMAIN answer[e.id[1]] /\ answer[e.id[1]][e.id[2]] = e.id
            /\ e.id[2] \in DOMAIN req[e.id[1]].items /\ req[e.id[1]].items[e.id[2]].cmd = e.cmd
        BY <4>1 DEF LedgerInv, EntriesOwned
      <4>3. /\ e.id[2] \in DOMAIN answer'[e.id[1]]
            /\ answer'[e.id[1]][e.id[2]] = answer[e.id[1]][e.id[2]]
        <5>1. CASE e.id[1] = t
          BY <2>7, <4>2, <5>1
        <5>2. CASE e.id[1] # t
          BY <2>6, <2>9, <4>1, <4>2, <5>2
        <5> QED
          BY <5>1, <5>2
      <4>4. req' = req
        BY <2>6
      <4> QED
        BY <4>2, <4>3, <4>4
    <3> QED
      BY <3>1, <3>2
  <2>19. KeysUnique'
    <3>1. \A e \in own.entries : KeyOf(e) # key
      <4>1. KeysRecorded(own)
        BY DEF LedgerInv
      <4> QED
        BY <1>2, <2>1, <4>1 DEF KeysRecorded, Insertable
    <3>2. KeysUnique
      BY DEF LedgerInv
    <3> QED
      BY <2>8, <2>9, <2>10, <3>1, <3>2 DEF KeysUnique
  <2>20. KeysRecorded(tables)'
    <3>1. \A e : KeyOf(e)' = KeyOf(e)
      BY <2>6 DEF KeyOf
    <3>2. KeysRecorded(tables)
      BY DEF LedgerInv
    <3> QED
      BY <2>6, <3>1, <3>2 DEF KeysRecorded
  <2>21. KeysRecorded(own)'
    <3>1. PICK record : record = [key |-> key, cmd |-> entry.cmd, id |-> entry.id]
      OBVIOUS
    <3>2. /\ record.key = KeyOf(entry)' /\ record.cmd = entry.cmd /\ record.id = entry.id
          /\ record \in own'.idempotency /\ entry \in own'.entries
      BY <2>8, <2>10, <3>1
    <3>3. \A r \in own'.idempotency : \E e \in own'.entries :
              r.key = KeyOf(e)' /\ r.cmd = e.cmd /\ r.id = e.id
      BY <2>8, <2>9, <3>1, <3>2 DEF LedgerInv, KeysRecorded
    <3>4. \A e \in own'.entries : \E r \in own'.idempotency :
              r.key = KeyOf(e)' /\ r.cmd = e.cmd /\ r.id = e.id
      BY <2>8, <2>9, <3>2 DEF LedgerInv, KeysRecorded
    <3> QED
      BY <3>3, <3>4 DEF KeysRecorded
  <2>22. Answers'
    <3>1. ASSUME NEW u \in Txns \ {t} PROVE AnsweredAt(u)'
      <4>1. Seen(u).entries \subseteq own.entries
        BY DEF LedgerInv, LockHeld, Seen
      <4> QED
        BY <2>6, <2>9, <2>13, <4>1 DEF LedgerInv, Answers, AnsweredAt
    <3>2. ASSUME NEW n \in DOMAIN answer'[t]
          PROVE  /\ n \in DOMAIN req[t].items
                 /\ \E e \in own'.entries : /\ e.id = answer'[t][n]
                                            /\ e.cmd = req[t].items[n].cmd
                                            /\ KeyOf(e)' = req[t].items[n].key
      <4>1. CASE n = Len(answer[t]) + 1
        BY <2>1, <2>3, <2>5, <2>7, <2>8, <2>10, <4>1
      <4>2. CASE n # Len(answer[t]) + 1
        <5>1. n \in DOMAIN answer[t]
          BY <2>7, <4>2
        <5>2. /\ n \in DOMAIN req[t].items
              /\ \E e \in own.entries : /\ e.id = answer[t][n]
                                        /\ e.cmd = req[t].items[n].cmd
                                        /\ KeyOf(e) = req[t].items[n].key
          BY <2>2, <5>1 DEF LedgerInv, Answers, AnsweredAt
        <5> QED
          BY <2>7, <2>8, <2>9, <5>1, <5>2
      <4> QED
        BY <4>1, <4>2
    <3>3. AnsweredAt(t)'
      BY <2>6, <2>14, <3>2 DEF AnsweredAt
    <3> QED
      BY <3>1, <3>3 DEF Answers
  <2>23. Whole(tables)' /\ Whole(own)'
    BY <1>2, <2>2, <2>6, EntryExtendsTheJournal DEF LedgerInv, Whole
  <2>24. Overtaken'
    <3>1. \A id \in stragglers : id[1] \in Txns /\ id[1] # t
      BY <2>2 DEF LedgerInv, TypeOK, EntryId, Overtaken
    <3>2. \A id \in stragglers' : pc'[id[1]] = "answered"
      BY <2>6, <3>1 DEF LedgerInv, Overtaken
    <3>3. status[entry.cmd.period] # "hard_closed"
      BY <1>2, <2>1 DEF Insertable
    <3> QED
      BY <2>6, <2>8, <3>2, <3>3 DEF LedgerInv, Overtaken
  <2>25. HardCloseOvertakenByOne'
    BY <2>6 DEF LedgerInv, HardCloseOvertakenByOne
  <2> QED
    BY <2>12, <2>15, <2>16, <2>17, <2>18, <2>19, <2>20, <2>21, <2>22, <2>23, <2>24, <2>25
       DEF LedgerInv
<1> QED
  BY <1>1, <1>2 DEF InsertEntry, Current


LEMMA StepKeepsInv == LedgerInv /\ [Next]_vars => LedgerInv'
<1> SUFFICES ASSUME LedgerInv, [Next]_vars PROVE LedgerInv'
  OBVIOUS
<1>1. ASSUME NEW t \in Txns, HandlePostJournalEntry(t) PROVE LedgerInv'
  BY <1>1, CommandsAreRaw, ArriveKeepsInv DEF HandlePostJournalEntry
<1>2. ASSUME NEW t \in Txns, HandleReverseJournalEntry(t) PROVE LedgerInv'
  BY <1>2, ReversalIsTyped, ArriveKeepsInv DEF HandleReverseJournalEntry
<1>3. ASSUME NEW t \in Txns, HandleImportXaf(t) PROVE LedgerInv'
  BY <1>3, ImportKeepsInv
<1>4. ASSUME NEW t \in Txns, Run(t) PROVE LedgerInv'
  BY <1>4, LoadContextKeepsInv, AllocateKeepsInv, InsertKeepsInv, NextItemKeepsInv,
     CommitKeepsInv DEF Run
<1>5. ASSUME NEW t \in Txns, Rollback(t) PROVE LedgerInv'
  BY <1>5, DeclineKeepsInv DEF Rollback, Busy
<1>6. ASSUME NEW p \in Periods, SoftClose(p) \/ HardClose(p) PROVE LedgerInv'
  BY <1>6, CloseKeepsInv
<1>7. CASE AllAnswered \/ UNCHANGED vars
  <2>1. UNCHANGED vars
    BY <1>7 DEF AllAnswered
  <2>2. \A u \in Txns : Current(u)' = Current(u) /\ Seen(u)' = Seen(u)
    BY <2>1 DEF vars, Current, ItemAt, Seen
  <2>3. TypeOK'
    BY <2>1 DEF vars, LedgerInv, TypeOK, BookOK
  <2>4. Checked' /\ LockHeld' /\ DraftIsNext' /\ EntriesOwned'
    BY <2>1, <2>2 DEF vars, LedgerInv, Checked, CheckedAt, LockHeld, DraftIsNext,
                      NextInLine, NumberScope, EntriesOwned
  <2>5. KeysUnique' /\ KeysRecorded(tables)' /\ KeysRecorded(own)' /\ Answers'
    <3>1. \A e : KeyOf(e)' = KeyOf(e)
      BY <2>1 DEF vars, KeyOf
    <3>2. KeysUnique /\ KeysRecorded(tables) /\ KeysRecorded(own) /\ Answers
      BY DEF LedgerInv
    <3>3. KeysUnique'
      BY <2>1, <3>1, <3>2 DEF vars, KeysUnique
    <3>4. KeysRecorded(tables)' /\ KeysRecorded(own)'
      BY <2>1, <3>1, <3>2 DEF vars, KeysRecorded
    <3>5. Answers'
      BY <2>1, <2>2, <3>1, <3>2 DEF vars, Answers, AnsweredAt
    <3> QED
      BY <3>3, <3>4, <3>5
  <2>6. Whole(tables)' /\ Whole(own)' /\ Overtaken' /\ HardCloseOvertakenByOne'
    BY <2>1 DEF vars, LedgerInv, Whole, Overtaken, HardCloseOvertakenByOne
  <2> QED
    BY <2>3, <2>4, <2>5, <2>6 DEF LedgerInv
<1> QED
  BY <1>1, <1>2, <1>3, <1>4, <1>5, <1>6, <1>7 DEF Next

-----------------------------------------------------------------------------
\* The invariant holds in every state the ledger reaches.
THEOREM LedgerInvariant == Spec => []LedgerInv
BY InitEstablishesInv, StepKeepsInv, PTL DEF Spec

\* Every variable keeps its type (postJournalEntry and the tables it writes).
THEOREM TypeCorrect == Spec => []TypeOK
<1>1. LedgerInv => TypeOK
  BY DEF LedgerInv
<1> QED
  BY <1>1, LedgerInvariant, PTL

\* The hash chain is dense, unforked and linked, whatever interleaves and however
\* many entries a transaction posts (allocateChainPosition under the row lock of its
\* sequence).
THEOREM ChainIsIntact == Spec => []ChainIntact
<1>1. LedgerInv => ChainIntact
  BY DEF LedgerInv, Whole, ChainIntact
<1> QED
  BY <1>1, LedgerInvariant, PTL

\* Entry numbers have neither gaps nor doubles (allocate_number).
THEOREM NumbersAreGapless == Spec => []NumbersGapless
<1>1. LedgerInv => NumbersGapless
  BY DEF LedgerInv, Whole, NumbersGapless
<1> QED
  BY <1>1, LedgerInvariant, PTL

\* What an answered request was told is in the journal.
LEMMA AnswersAreThere ==
    ASSUME LedgerInv, NEW t \in Answered, NEW n \in DOMAIN req[t].items
    PROVE  \E e \in tables.entries : /\ e.id = answer[t][n]
                                     /\ e.cmd = req[t].items[n].cmd
                                     /\ KeyOf(e) = req[t].items[n].key
<1>1. /\ t \in Txns /\ answer[t] \in Seq(EntryId) /\ req[t] \in Request
      /\ Len(answer[t]) = Len(req[t].items)
  BY DEF Answered, LedgerInv, TypeOK, Checked, CheckedAt
<1>2. req[t].items \in Seq(Item)
  BY <1>1 DEF Request
<1>3. n \in DOMAIN answer[t]
  BY <1>1, <1>2
<1>4. Seen(t) = tables
  BY <1>1 DEF Answered, LedgerInv, LockHeld, Seen, Busy
<1> QED
  BY <1>1, <1>3, <1>4 DEF LedgerInv, Answers, AnsweredAt

\* A key posts once and every caller who is given an entry under it is given that
\* one (the replay check and the primary key of idempotency_keys).
THEOREM PostsExactlyOnce == Spec => []ExactlyOnce
<1>1. LedgerInv => ExactlyOnce
  <2> SUFFICES ASSUME LedgerInv PROVE ExactlyOnce
    OBVIOUS
  <2>1. \A e, f \in tables.entries : KeyOf(e) = KeyOf(f) => e = f
    BY DEF LedgerInv, LockHeld, KeysUnique
  <2>2. ASSUME NEW t \in Answered, NEW u \in Answered,
               NEW m \in DOMAIN req[t].items, NEW n \in DOMAIN req[u].items,
               req[t].items[m].key = req[u].items[n].key
        PROVE  answer[t][m] = answer[u][n]
    <3>1. PICK e \in tables.entries :
              e.id = answer[t][m] /\ KeyOf(e) = req[t].items[m].key
      BY AnswersAreThere
    <3>2. PICK f \in tables.entries :
              f.id = answer[u][n] /\ KeyOf(f) = req[u].items[n].key
      BY AnswersAreThere
    <3> QED
      BY <2>1, <2>2, <3>1, <3>2
  <2>3. ASSUME NEW t \in Answered, NEW n \in DOMAIN req[t].items
        PROVE  \E e \in tables.entries : e.id = answer[t][n] /\ e.cmd = req[t].items[n].cmd
    BY AnswersAreThere
  <2> QED
    BY <2>2, <2>3 DEF ExactlyOnce
<1> QED
  BY <1>1, LedgerInvariant, PTL

\* An entry is reversed at most once, and after it was posted (the one_reversal
\* index).
THEOREM ReversesOnce == Spec => []ReversedOnce
<1>1. LedgerInv => ReversedOnce
  BY DEF LedgerInv, Whole, ReversedOnce
<1> QED
  BY <1>1, LedgerInvariant, PTL

\* Whatever gets into a hard-closed period is of one transaction, however many
\* entries that posts (check_period_open under the chain lock).
THEOREM HardCloseIsOvertakenByOne == Spec => []HardCloseOvertakenByOne
<1>1. LedgerInv => HardCloseOvertakenByOne
  BY DEF LedgerInv
<1> QED
  BY <1>1, LedgerInvariant, PTL


-----------------------------------------------------------------------------
(* The running balances are the sums of the lines. *)

\* There are finitely many lines in a command.
FiniteLines(r) == \A n \in DOMAIN r.items : IsFiniteSet(r.items[n].cmd.lines)

\* And finitely many entries in the journal.
LinesAreFinite ==
    /\ \A t \in Txns : FiniteLines(req[t])
    /\ \A e \in own.entries : IsFiniteSet(e.cmd.lines)
    /\ IsFiniteSet(own.entries)

BooksInv == LedgerInv /\ LinesAreFinite /\ Totalled(tables) /\ Totalled(own)

\* What an entry adds to a balance is an integer.
LEMMA MovementIsInt ==
    ASSUME NEW cmd \in RawCommand, IsFiniteSet(cmd.lines), NEW account, NEW currency
    PROVE  Movement(cmd, account, currency) \in Int
<1> DEFINE lines == {l \in cmd.lines : l.account = account /\ l.currency = currency}
<1>1. IsFiniteSet(lines)
  BY FS_Subset
<1>2. \A l \in lines : l.amount \in Int
  BY DEF RawCommand, Line
<1>3. \A l \in lines : [x \in lines |-> x.amount][l] \in Int
  BY <1>2
<1> HIDE DEF lines
<1>4. SumAmounts(lines) \in Int
  BY <1>1, <1>3, SumIsInt DEF SumAmounts
<1> QED
  BY <1>4 DEF Movement, lines

LEMMA JournalledIsMovement ==
    ASSUME NEW entries, NEW p, NEW account, NEW currency
    PROVE  Journalled(entries, p, account, currency) =
               SumFunctionOnSet([e \in {e \in entries : e.cmd.period = p} |->
                                    Movement(e.cmd, account, currency)],
                                {e \in entries : e.cmd.period = p})
  BY DEF Journalled, Movement

\* One entry more adds its movement to the sum of its period.
LEMMA EntryAddsItsMovement ==
    ASSUME NEW entries, IsFiniteSet(entries), NEW entry, entry \notin entries,
           \A e \in entries \union {entry} : e.cmd \in RawCommand /\ IsFiniteSet(e.cmd.lines),
           NEW p, NEW account, NEW currency
    PROVE  Journalled(entries \union {entry}, p, account, currency) =
               IF p = entry.cmd.period
               THEN Journalled(entries, p, account, currency)
                        + Movement(entry.cmd, account, currency)
               ELSE Journalled(entries, p, account, currency)
<1> DEFINE Booked == {e \in entries : e.cmd.period = p}
           After == {e \in entries \union {entry} : e.cmd.period = p}
           f == [e \in After |-> Movement(e.cmd, account, currency)]
           g == [e \in Booked |-> Movement(e.cmd, account, currency)]
<1>1. /\ Journalled(entries \union {entry}, p, account, currency) = SumFunctionOnSet(f, After)
      /\ Journalled(entries, p, account, currency) = SumFunctionOnSet(g, Booked)
  BY JournalledIsMovement
<1>2. IsFiniteSet(Booked) /\ entry \notin Booked
  BY FS_Subset
<1>3. CASE p = entry.cmd.period
  <2>1. After = Booked \union {entry}
    BY <1>3
  <2>2. \A e \in Booked \union {entry} : f[e] \in Int
    BY <2>1, MovementIsInt
  <2>3. f[entry] = Movement(entry.cmd, account, currency) /\ f[entry] \in Int
    BY <2>1, <2>2
  <2>4. \A e \in Booked : f[e] = g[e] /\ g[e] \in Int
    BY <2>1, <2>2
  <2> HIDE DEF f, g, Booked, After
  <2>5. SumFunctionOnSet(f, Booked \union {entry}) = f[entry] + SumFunctionOnSet(f, Booked)
    BY <1>2, <2>2, SumWith
  <2>6. SumFunctionOnSet(f, Booked) = SumFunctionOnSet(g, Booked)
    BY <1>2, <2>4, SumOfEqual
  <2>7. SumFunctionOnSet(g, Booked) \in Int
    BY <1>2, <2>4, SumIsInt
  <2> QED
    BY <1>1, <1>3, <2>1, <2>3, <2>5, <2>6, <2>7
<1>4. CASE p # entry.cmd.period
  <2>1. After = Booked
    BY <1>4
  <2> QED
    BY <1>1, <1>4, <2>1
<1> QED
  BY <1>3, <1>4

\* An insert adds the lines of one entry to the balances of its period.
LEMMA InsertKeepsBooks ==
    ASSUME BooksInv, NEW t \in Txns, pc[t] = "numbered",
           own' = WithEntry(own, draft[t], Current(t).key),
           UNCHANGED <<req, tables>>
    PROVE  LinesAreFinite' /\ Totalled(tables)' /\ Totalled(own)'
<1>1. PICK entry : entry = draft[t]
  OBVIOUS
<1>2. NextInLine(t) /\ CheckedAt(t)
  BY DEF BooksInv, LedgerInv, DraftIsNext, Checked
<1>3. entry \in Entry /\ entry.cmd = Current(t).cmd /\ entry.id = <<t, Len(answer[t]) + 1>>
  BY <1>1, <1>2 DEF NextInLine
<1>4. entry \notin own.entries
  <2>1. answer[t] \in Seq(EntryId) /\ Len(answer[t]) + 1 \notin DOMAIN answer[t]
    BY DEF BooksInv, LedgerInv, TypeOK
  <2> QED
    BY <1>3, <2>1 DEF BooksInv, LedgerInv, EntriesOwned
<1>5. IsFiniteSet(entry.cmd.lines)
  <2>1. /\ req[t] \in Request /\ answer[t] \in Seq(EntryId)
        /\ Len(answer[t]) < Len(req[t].items)
    BY <1>2 DEF CheckedAt, Busy, BooksInv, LedgerInv, TypeOK
  <2>2. Len(answer[t]) + 1 \in DOMAIN req[t].items
    BY <2>1, ItemIsTyped
  <2> QED
    BY <1>3, <2>2 DEF BooksInv, LinesAreFinite, FiniteLines, Current, ItemAt
<1>6. own'.entries = own.entries \union {entry}
  BY <1>1 DEF WithEntry
<1>7. LinesAreFinite'
  <2>1. IsFiniteSet(own'.entries)
    BY <1>6, FS_AddElement DEF BooksInv, LinesAreFinite
  <2> QED
    BY <1>5, <1>6, <2>1 DEF BooksInv, LinesAreFinite
<1>8. \A e \in own.entries \union {entry} : e.cmd \in RawCommand /\ IsFiniteSet(e.cmd.lines)
  BY <1>3, <1>5, EntriesTyped DEF BooksInv, LinesAreFinite, Entry, Command
<1>9. ASSUME NEW b \in DOMAIN own'.balances
      PROVE  own'.balances[b] = Journalled(own'.entries, b[1], b[2], b[3])
  <2>1. b \in DOMAIN own.balances
    BY DEF WithEntry
  <2>2. own'.balances[b] = IF b[1] = entry.cmd.period
                           THEN own.balances[b] + Movement(entry.cmd, b[2], b[3])
                           ELSE own.balances[b]
    BY <1>1, <2>1 DEF WithEntry, AddToBalance
  <2>3. own.balances[b] = Journalled(own.entries, b[1], b[2], b[3])
    BY <2>1 DEF BooksInv, Totalled
  <2>4. Journalled(own'.entries, b[1], b[2], b[3]) =
            IF b[1] = entry.cmd.period
            THEN Journalled(own.entries, b[1], b[2], b[3]) + Movement(entry.cmd, b[2], b[3])
            ELSE Journalled(own.entries, b[1], b[2], b[3])
    BY <1>4, <1>6, <1>8, EntryAddsItsMovement DEF BooksInv, LinesAreFinite
  <2> QED
    BY <2>2, <2>3, <2>4
<1>10. Totalled(own)'
  BY <1>9 DEF Totalled
<1>11. Totalled(tables)'
  BY DEF BooksInv, Totalled
<1> QED
  BY <1>7, <1>10, <1>11

\* Whatever inserts nothing leaves the books alone, or gives them up for those of
\* the others, or shows them to the others.
LEMMA OthersKeepBooks ==
    ASSUME BooksInv, tables' \in {tables, own}, own' \in {tables, own},
           \A t \in Txns : req'[t] = req[t] \/ FiniteLines(req'[t])
    PROVE  LinesAreFinite' /\ Totalled(tables)' /\ Totalled(own)'
<1>1. own'.entries \subseteq own.entries
  BY DEF BooksInv, LedgerInv, LockHeld
<1>2. \A t \in Txns : FiniteLines(req'[t])
  BY DEF BooksInv, LinesAreFinite
<1>3. IsFiniteSet(own'.entries)
  BY <1>1, FS_Subset DEF BooksInv, LinesAreFinite
<1>4. LinesAreFinite'
  BY <1>1, <1>2, <1>3 DEF BooksInv, LinesAreFinite, FiniteLines
<1>5. Totalled(tables)' /\ Totalled(own)'
  BY DEF BooksInv, Totalled
<1> QED
  BY <1>4, <1>5

LEMMA ReplayCheckKeepsBooks ==
    ASSUME BooksInv, NEW t \in Txns, NEW r, FiniteLines(r), ReplayCheck(t, r)
    PROVE  LinesAreFinite' /\ Totalled(tables)' /\ Totalled(own)'
<1>1. tables' = tables /\ own' \in {tables, own}
  BY DEF ReplayCheck, Decline
<1>2. req' = [req EXCEPT ![t] = r] \/ req' = [req EXCEPT ![t] = NoRequest]
  BY DEF ReplayCheck, Decline, Forget
<1>3. FiniteLines(NoRequest)
  BY DEF FiniteLines, NoRequest
<1>4. \A u \in Txns : req'[u] = req[u] \/ FiniteLines(req'[u])
  BY <1>2, <1>3 DEF BooksInv, LedgerInv, TypeOK
<1> QED
  BY <1>1, <1>4, OthersKeepBooks

LEMMA ArriveKeepsBooks ==
    ASSUME BooksInv, NEW t \in Txns, NEW cmd, IsFiniteSet(cmd.lines), Arrive(t, cmd)
    PROVE  LinesAreFinite' /\ Totalled(tables)' /\ Totalled(own)'
<1>1. PICK key \in Keys, senior \in BOOLEAN, dryRun \in BOOLEAN :
        ReplayCheck(t, [items |-> <<[key |-> <<key, 0>>, cmd |-> cmd]>>,
                        senior |-> senior, dryRun |-> dryRun])
  BY DEF Arrive
<1> DEFINE r == [items |-> <<[key |-> <<key, 0>>, cmd |-> cmd]>>,
                 senior |-> senior, dryRun |-> dryRun]
<1>2. FiniteLines(r)
  BY DEF FiniteLines
<1>3. ReplayCheck(t, r)
  BY <1>1
<1> HIDE DEF r
<1> QED
  BY <1>2, <1>3, ReplayCheckKeepsBooks

LEMMA StepKeepsBooks ==
    BooksInv /\ [Next]_vars => LinesAreFinite' /\ Totalled(tables)' /\ Totalled(own)'
<1> SUFFICES ASSUME BooksInv, [Next]_vars
             PROVE  LinesAreFinite' /\ Totalled(tables)' /\ Totalled(own)'
  OBVIOUS
<1>1. ASSUME NEW t \in Txns, HandlePostJournalEntry(t)
      PROVE  LinesAreFinite' /\ Totalled(tables)' /\ Totalled(own)'
  BY <1>1, CommandsAreRaw, ArriveKeepsBooks DEF HandlePostJournalEntry
<1>2. ASSUME NEW t \in Txns, HandleReverseJournalEntry(t)
      PROVE  LinesAreFinite' /\ Totalled(tables)' /\ Totalled(own)'
  <2>1. PICK e \in tables.entries :
            \E period \in Periods : Arrive(t, BuildReversal(e, period))
    BY <1>2 DEF HandleReverseJournalEntry
  <2>2. PICK period \in Periods : Arrive(t, BuildReversal(e, period))
    BY <2>1
  <2>3. IsFiniteSet(e.cmd.lines)
    BY DEF BooksInv, LinesAreFinite, LedgerInv, LockHeld
  <2>4. IsFiniteSet({SwapSides(l) : l \in e.cmd.lines})
    <3> DEFINE f == [l \in e.cmd.lines |-> SwapSides(l)]
    <3>1. IsFiniteSet({f[l] : l \in e.cmd.lines})
      BY <2>3, ImageIsFinite
    <3> QED
      BY <3>1
  <2>5. IsFiniteSet(BuildReversal(e, period).lines)
    BY <2>4 DEF BuildReversal
  <2> QED
    BY <2>2, <2>5, ArriveKeepsBooks
<1>3. ASSUME NEW t \in Txns, HandleImportXaf(t)
      PROVE  LinesAreFinite' /\ Totalled(tables)' /\ Totalled(own)'
  <2>1. PICK file \in Files, key \in Keys, senior \in BOOLEAN :
          ReplayCheck(t, [items |-> ItemsOf(file, key), senior |-> senior, dryRun |-> FALSE])
    BY <1>3 DEF HandleImportXaf
  <2> DEFINE r == [items |-> ItemsOf(file, key), senior |-> senior, dryRun |-> FALSE]
  <2>2. FiniteLines(r)
    <3>1. file \in Seq(Commands) /\ \A cmd \in Commands : IsFiniteSet(cmd.lines)
      BY CommandsAreRaw
    <3> QED
      BY <3>1 DEF FiniteLines, ItemsOf
  <2>3. ReplayCheck(t, r)
    BY <2>1
  <2> HIDE DEF r
  <2> QED
    BY <2>2, <2>3, ReplayCheckKeepsBooks
<1>4. ASSUME NEW t \in Txns, Decline(t)
      PROVE  LinesAreFinite' /\ Totalled(tables)' /\ Totalled(own)'
  <2>1. /\ tables' = tables /\ own' \in {tables, own}
        /\ req' = [req EXCEPT ![t] = NoRequest]
    BY <1>4 DEF Decline, Forget
  <2>2. FiniteLines(NoRequest)
    BY DEF FiniteLines, NoRequest
  <2>3. \A u \in Txns : req'[u] = req[u] \/ FiniteLines(req'[u])
    BY <2>1, <2>2 DEF BooksInv, LedgerInv, TypeOK
  <2> QED
    BY <2>1, <2>3, OthersKeepBooks
<1>5. ASSUME NEW t \in Txns, Run(t) \/ Rollback(t)
      PROVE  LinesAreFinite' /\ Totalled(tables)' /\ Totalled(own)'
  <2>1. CASE Decline(t)
    BY <1>4, <2>1
  <2>2. CASE UNCHANGED <<req, tables, own>>
    BY <2>2, OthersKeepBooks
  <2>3. CASE /\ pc[t] = "numbered"
             /\ own' = WithEntry(own, draft[t], Current(t).key)
             /\ UNCHANGED <<req, tables>>
    BY <2>3, InsertKeepsBooks
  <2>4. CASE NextItem(t)
    BY <2>4, ReplayCheckKeepsBooks DEF NextItem, BooksInv, LinesAreFinite
  <2>5. CASE Commit(t)
    BY <2>5, OthersKeepBooks DEF Commit, Seen
  <2> QED
    BY <1>5, <2>1, <2>2, <2>3, <2>4, <2>5
       DEF Run, Rollback, LoadContext, AllocateChainPosition, InsertEntry, Current
<1>6. ASSUME NEW p \in Periods, SoftClose(p) \/ HardClose(p)
      PROVE  LinesAreFinite' /\ Totalled(tables)' /\ Totalled(own)'
  BY <1>6, OthersKeepBooks DEF SoftClose, HardClose
<1>7. CASE AllAnswered \/ UNCHANGED vars
  BY <1>7, OthersKeepBooks DEF AllAnswered, vars
<1> QED
  BY <1>1, <1>2, <1>3, <1>5, <1>6, <1>7 DEF Next

\* The running balances the reports read are the sums of the committed lines, after
\* every commit and whatever overlaps (applyPeriodBalances).
THEOREM BalancesAddUpTheJournal == Spec => []BalancesAreTheJournal
<1>1. Init => BooksInv
  <2> SUFFICES ASSUME Init PROVE LinesAreFinite /\ Totalled(tables) /\ Totalled(own)
    BY InitEstablishesInv DEF BooksInv
  <2>1. /\ tables.entries = {} /\ own = tables
        /\ \A b \in DOMAIN tables.balances : tables.balances[b] = 0
        /\ \A t \in Txns : req[t] = NoRequest
    BY DEF Init
  <2>2. LinesAreFinite
    <3>1. FiniteLines(NoRequest)
      BY DEF FiniteLines, NoRequest
    <3>2. own.entries = {}
      BY <2>1
    <3>3. IsFiniteSet(own.entries)
      BY <3>2, FS_EmptySet
    <3> QED
      BY <2>1, <3>1, <3>2, <3>3 DEF LinesAreFinite
  <2>3. \A b \in DOMAIN tables.balances : Journalled({}, b[1], b[2], b[3]) = 0
    BY SumOfNone DEF Journalled
  <2>4. Totalled(tables)
    BY <2>1, <2>3 DEF Totalled
  <2> QED
    BY <2>1, <2>2, <2>4
<1>2. BooksInv /\ [Next]_vars => BooksInv'
  BY StepKeepsInv, StepKeepsBooks DEF BooksInv
<1>3. BooksInv => BalancesAreTheJournal
  BY DEF BooksInv, BalancesAreTheJournal
<1> QED
  BY <1>1, <1>2, <1>3, PTL DEF Spec


-----------------------------------------------------------------------------
(* The refinement of module Journal: a commit is its Answer, every other end of *)
(* a request its Decline, and the rest stutters.                                *)

\* The fact an entry stands for.
FactOf(e) == [id |-> e.id, key |-> KeyOf(e), reverses |-> e.cmd.reverses]

\* The step of one request that commits nothing changes that request's outcome alone.
LEMMA UncommittedStep ==
    ASSUME LedgerInv, TypeOK', NEW t \in Txns, pc[t] \in Busy \union {"idle"},
           pc'[t] \in Busy \union {"declined"}, tables' = tables,
           \A u \in Txns \ {t} : /\ pc'[u] = pc[u] /\ req'[u] = req[u]
                                 /\ answer'[u] = answer[u]
    PROVE  /\ Facts' = Facts /\ Told' = Told
           /\ Outcome[t] = "pending"
           /\ Outcome' = [Outcome EXCEPT ![t] = OutcomeAt(pc'[t])]
<1>1. \A e \in tables.entries : KeyOf(e)' = KeyOf(e)
  <2>1. \A e \in tables.entries : e.id[1] \in Txns \ {t}
    BY EntriesTyped DEF LedgerInv, LockHeld, Busy
  <2> QED
    BY <2>1 DEF KeyOf
<1>2. Facts' = Facts
  BY <1>1 DEF Facts
<1>3. Told' = Told
  BY DEF Told, Busy
<1>4. Outcome[t] = "pending"
  BY DEF Outcome, OutcomeAt, Busy, Ended
<1>5. Outcome' = [Outcome EXCEPT ![t] = OutcomeAt(pc'[t])]
  BY DEF Outcome, OutcomeAt
<1> QED
  BY <1>2, <1>3, <1>4, <1>5

LEMMA InitImplements == Init => Abstract!Init
BY DEF Init, Abstract!Init, Facts, Outcome, OutcomeAt, Told, Ended

\* A request that is refused, previewed or rolled back declines.
LEMMA DeclineImplements ==
    ASSUME LedgerInv, LedgerInv', NEW t \in Txns, pc[t] \in Busy \union {"idle"}, Decline(t)
    PROVE  [Abstract!Next]_Abstract!vars
<1>1. /\ tables' = tables /\ pc'[t] = "declined"
      /\ \A u \in Txns \ {t} : /\ pc'[u] = pc[u] /\ req'[u] = req[u]
                               /\ answer'[u] = answer[u]
  BY DeclineLeaves
<1>2. /\ Facts' = Facts /\ Told' = Told /\ Outcome[t] = "pending"
      /\ Outcome' = [Outcome EXCEPT ![t] = OutcomeAt(pc'[t])]
  BY <1>1, UncommittedStep DEF LedgerInv
<1>3. OutcomeAt(pc'[t]) = "declined"
  BY <1>1 DEF OutcomeAt, Ended
<1>4. Abstract!Decline(t)
  BY <1>2, <1>3 DEF Abstract!Decline
<1> QED
  BY <1>4 DEF Abstract!Next

\* A step between two statements is invisible.
LEMMA QuietStepStutters ==
    ASSUME LedgerInv, LedgerInv', NEW t \in Txns, pc[t] \in Busy \union {"idle"},
           pc'[t] \in Busy, tables' = tables,
           \A u \in Txns \ {t} : /\ pc'[u] = pc[u] /\ req'[u] = req[u]
                                 /\ answer'[u] = answer[u]
    PROVE  UNCHANGED Abstract!vars
<1>1. /\ Facts' = Facts /\ Told' = Told /\ Outcome[t] = "pending"
      /\ Outcome' = [Outcome EXCEPT ![t] = OutcomeAt(pc'[t])]
  BY UncommittedStep DEF LedgerInv
<1>2. OutcomeAt(pc'[t]) = "pending"
  BY DEF OutcomeAt, Busy, Ended
<1>3. Outcome' = Outcome
  BY <1>1, <1>2 DEF Outcome
<1> QED
  BY <1>1, <1>3 DEF Abstract!vars

\* The replay check stutters or declines.
LEMMA ReplayCheckImplements ==
    ASSUME LedgerInv, LedgerInv', NEW t \in Txns, NEW r, pc[t] \in {"idle", "dealt"},
           ReplayCheck(t, r)
    PROVE  [Abstract!Next]_Abstract!vars
<1>1. CASE Decline(t)
  BY <1>1, DeclineImplements DEF Busy
<1>2. CASE /\ tables' = tables /\ pc'[t] \in {"fresh", "dealt"}
           /\ \A u \in Txns \ {t} : /\ pc'[u] = pc[u] /\ req'[u] = req[u]
                                    /\ answer'[u] = answer[u]
  BY <1>2, QuietStepStutters DEF Busy
<1> QED
  BY <1>1, <1>2 DEF ReplayCheck, Goto, LedgerInv, TypeOK

\* The commit answers: its keys are fresh and what it reverses is reversible.
LEMMA CommitImplements ==
    ASSUME LedgerInv, LedgerInv', NEW t \in Txns, Commit(t)
    PROVE  Abstract!Next
<1>1. /\ pc[t] = "dealt" /\ pc'[t] = "answered" /\ req' = req /\ answer' = answer
      /\ own' = own /\ tables' = Seen(t) /\ Len(answer[t]) = Len(req[t].items)
      /\ \A u \in Txns \ {t} : pc'[u] = pc[u]
  BY DEF LedgerInv, TypeOK, Commit, Goto
<1>2. req[t] \in Request /\ answer[t] \in Seq(EntryId)
  BY <1>1 DEF LedgerInv, TypeOK, Checked, CheckedAt, Busy
<1>3. /\ tables.entries \subseteq tables'.entries /\ tables'.entries \subseteq own.entries
      /\ \A e \in tables'.entries \ tables.entries : e.id[1] = t
  BY <1>1 DEF LedgerInv, LockHeld, Seen
<1>4. \A e \in own.entries : FactOf(e)' = FactOf(e)
  BY <1>1 DEF FactOf, KeyOf
<1>5. /\ Facts = {FactOf(e) : e \in tables.entries}
      /\ Facts' = {FactOf(e) : e \in tables'.entries}
  BY <1>3, <1>4 DEF Facts, FactOf
<1>6. \A e, f \in own.entries : FactOf(e).key = FactOf(f).key => e = f
  BY DEF LedgerInv, KeysUnique, FactOf
<1>7. ASSUME NEW fact \in Facts' \ Facts
      PROVE  \E e \in tables'.entries \ tables.entries : fact = FactOf(e)
  BY <1>5, <1>7
<1>8. Facts \subseteq Facts'
  BY <1>3, <1>5
<1>9. ASSUME NEW fact \in Facts' \ Facts
      PROVE  /\ fact.id[1] = t /\ fact.key[1] \in Keys
             /\ \E n \in DOMAIN answer[t] : answer[t][n] = fact.id
  <2>1. PICK e \in tables'.entries \ tables.entries : fact = FactOf(e)
    BY <1>7
  <2>2. e \in own.entries /\ e.id[1] = t
    BY <1>3
  <2>3. e.id[2] \in DOMAIN answer[t] /\ answer[t][e.id[2]] = e.id /\ e.id[2] \in DOMAIN req[t].items
    BY <2>2 DEF LedgerInv, EntriesOwned
  <2>4. req[t].items[e.id[2]] \in Item
    BY <1>2, <2>3, RowOf DEF Request
  <2>5. FactOf(e).key[1] \in Keys
    BY <2>2, <2>4 DEF FactOf, KeyOf, Item, ItemKey
  <2> QED
    BY <2>1, <2>2, <2>3, <2>5 DEF FactOf
<1>10. Abstract!MayAdd(Facts' \ Facts)
  <2>1. ASSUME NEW fact \in Facts' \ Facts, NEW other \in Facts', fact.key = other.key
        PROVE  fact = other
    <3>1. PICK e \in tables'.entries : fact = FactOf(e)
      BY <1>5
    <3>2. PICK f \in tables'.entries : other = FactOf(f)
      BY <1>5
    <3> QED
      BY <1>3, <1>6, <2>1, <3>1, <3>2
  <2>2. ASSUME NEW fact \in Facts', fact.reverses # NoEntry
        PROVE  /\ \E target \in Facts' : target.id = fact.reverses
               /\ \A other \in Facts' : other.reverses = fact.reverses => other = fact
    <3>1. PICK e \in tables'.entries : fact = FactOf(e)
      BY <1>5
    <3>2. /\ e.cmd.reverses # NoEntry
          /\ FindReversalOf(e.cmd.reverses, tables'.entries) = {e}
      BY <2>2, <3>1 DEF LedgerInv, Whole, Reversals, FactOf
    <3>3. PICK f \in tables'.entries : f.id = e.cmd.reverses
      BY <3>2 DEF LedgerInv, Whole, Reversals
    <3>4. FactOf(f) \in Facts' /\ FactOf(f).id = fact.reverses
      BY <1>5, <3>1, <3>3 DEF FactOf
    <3>5. ASSUME NEW other \in Facts', other.reverses = fact.reverses PROVE other = fact
      <4>1. PICK g \in tables'.entries : other = FactOf(g)
        BY <1>5
      <4>2. g \in FindReversalOf(e.cmd.reverses, tables'.entries)
        BY <3>1, <3>5, <4>1 DEF FindReversalOf, FactOf
      <4> QED
        BY <3>1, <3>2, <4>1, <4>2
    <3> QED
      BY <3>4, <3>5
  <2>3. Facts \union (Facts' \ Facts) = Facts'
    BY <1>8
  <2> QED
    BY <1>8, <2>1, <2>2, <2>3 DEF Abstract!MayAdd
<1>11. /\ Outcome[t] = "pending"
       /\ Outcome' = [Outcome EXCEPT ![t] = "answered"]
  BY <1>1 DEF Outcome, OutcomeAt, Ended
<1>12. Told'[t] = answer[t] /\ Told' = [Told EXCEPT ![t] = answer[t]]
  BY <1>1 DEF Told
<1>13. answer[t] # << >>
  BY <1>1, <1>2 DEF Request
<1>14. ASSUME NEW n \in DOMAIN answer[t]
       PROVE  \E fact \in Facts' : fact.id = answer[t][n]
  <2>1. PICK e \in tables'.entries : e.id = answer[t][n]
    BY <1>1 DEF LedgerInv, Answers, AnsweredAt
  <2>2. FactOf(e) \in Facts' /\ FactOf(e).id = e.id
    BY <1>5 DEF FactOf
  <2> QED
    BY <2>1, <2>2
<1>15. Abstract!Answer(t)
  BY <1>8, <1>9, <1>10, <1>11, <1>12, <1>13, <1>14 DEF Abstract!Answer
<1> QED
  BY <1>15 DEF Abstract!Next

LEMMA StepImplements ==
    LedgerInv /\ LedgerInv' /\ [Next]_vars => [Abstract!Next]_Abstract!vars
<1> SUFFICES ASSUME LedgerInv, LedgerInv', [Next]_vars
             PROVE  [Abstract!Next]_Abstract!vars
  OBVIOUS
<1>1. ASSUME NEW t \in Txns,
             \/ HandlePostJournalEntry(t) \/ HandleReverseJournalEntry(t)
             \/ HandleImportXaf(t) \/ NextItem(t)
      PROVE  [Abstract!Next]_Abstract!vars
  <2>1. PICK r : ReplayCheck(t, r) /\ pc[t] \in {"idle", "dealt"}
    BY <1>1 DEF HandlePostJournalEntry, HandleReverseJournalEntry, HandleImportXaf,
                NextItem, Arrive
  <2> QED
    BY <2>1, ReplayCheckImplements
<1>2. ASSUME NEW t \in Txns, pc[t] \in Busy, Decline(t)
      PROVE  [Abstract!Next]_Abstract!vars
  BY <1>2, DeclineImplements
<1>3. ASSUME NEW t \in Txns, pc[t] \in Busy, pc'[t] \in Busy, tables' = tables,
             \A u \in Txns \ {t} : /\ pc'[u] = pc[u] /\ req'[u] = req[u]
                                   /\ answer'[u] = answer[u]
      PROVE  [Abstract!Next]_Abstract!vars
  BY <1>3, QuietStepStutters
<1>4. ASSUME NEW t \in Txns, LoadContext(t) PROVE [Abstract!Next]_Abstract!vars
  <2>1. pc[t] \in Busy
    BY <1>4 DEF LoadContext, Busy
  <2>2. CASE Goto(t, "validated") /\ UNCHANGED <<req, answer, tables>>
    <3>1. pc'[t] \in Busy /\ \A u \in Txns \ {t} : pc'[u] = pc[u]
      BY <2>2 DEF LedgerInv, TypeOK, Goto, Busy
    <3> QED
      BY <1>3, <2>1, <2>2, <3>1
  <2> QED
    BY <1>2, <1>4, <2>1, <2>2 DEF LoadContext
<1>5. ASSUME NEW t \in Txns, AllocateChainPosition(t) PROVE [Abstract!Next]_Abstract!vars
  <2>1. /\ pc[t] \in Busy /\ pc'[t] \in Busy /\ \A u \in Txns \ {t} : pc'[u] = pc[u]
        /\ UNCHANGED <<req, answer, tables>>
    BY <1>5 DEF AllocateChainPosition, LedgerInv, TypeOK, Goto, Busy
  <2> QED
    BY <1>3, <2>1
<1>6. ASSUME NEW t \in Txns, InsertEntry(t) PROVE [Abstract!Next]_Abstract!vars
  <2>1. pc[t] \in Busy
    BY <1>6 DEF InsertEntry, Busy
  <2>2. CASE /\ Goto(t, "dealt") /\ UNCHANGED <<req, tables>>
             /\ answer' = [answer EXCEPT ![t] = Append(@, draft[t].id)]
    <3>1. /\ pc'[t] \in Busy
          /\ \A u \in Txns \ {t} : pc'[u] = pc[u] /\ answer'[u] = answer[u]
      BY <2>2 DEF LedgerInv, TypeOK, Goto, Busy
    <3> QED
      BY <1>3, <2>1, <2>2, <3>1
  <2> QED
    BY <1>2, <1>6, <2>1, <2>2 DEF InsertEntry
<1>7. ASSUME NEW t \in Txns, Commit(t) PROVE [Abstract!Next]_Abstract!vars
  BY <1>7, CommitImplements
<1>8. ASSUME NEW t \in Txns, Rollback(t) PROVE [Abstract!Next]_Abstract!vars
  BY <1>2, <1>8 DEF Rollback, Busy
<1>9. CASE UNCHANGED <<pc, req, answer, tables>>
  BY <1>9 DEF Abstract!vars, Facts, KeyOf, Outcome, Told
<1>10. ASSUME NEW p \in Periods, SoftClose(p) \/ HardClose(p)
       PROVE  [Abstract!Next]_Abstract!vars
  BY <1>9, <1>10 DEF SoftClose, HardClose
<1>11. CASE AllAnswered \/ UNCHANGED vars
  BY <1>9, <1>11 DEF AllAnswered, vars
<1> QED
  BY <1>1, <1>4, <1>5, <1>6, <1>7, <1>8, <1>10, <1>11 DEF Next, Run

\* Posting implements the abstract journal: the entries of a request appear at one
\* instant, its commit, under fresh keys, and whatever else happens to a request
\* leaves no trace (postJournalEntry in the transaction of withLedger).
THEOREM LedgerImplementsJournal == Spec => ImplementsJournal
<1>1. Abstract!Init /\ [][Abstract!Next]_Abstract!vars => ImplementsJournal
  BY DEF ImplementsJournal, Abstract!Spec
<1> QED
  BY <1>1, LedgerInvariant, InitImplements, StepImplements, PTL DEF Spec
=============================================================================
