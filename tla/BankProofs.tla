------------------------------- MODULE BankProofs -------------------------------
(***************************************************************************)
(* Theorems about the bank: BankMatching, where lines settle documents,    *)
(* and BankImport, where the lines come from, for any number of requests,  *)
(* lines, documents, statements and files.                                 *)
(***************************************************************************)
EXTENDS BankMatching, BankImport, SumTheorems

-----------------------------------------------------------------------------
(* Matching *)

\* What a confirmation holds is what it asked for and may settle.
WorkIsSound ==
    \A r \in Requests :
        /\ pc[r] # "idle" => work[r].line \in Lines /\ work[r].key \in Keys
        /\ pc[r] = "built" =>
            \A a \in work[r].settles : a.document \in Documents /\ a.amount \in Nat \ {0}

\* Nobody shares the entry of a line that is not muddled.
LinksAreSound ==
    \A l \in Lines \ muddled : \A m \in Lines \ {l} :
        lines[l].status = "matched" /\ lines[m].status = "matched" => lines[m].entry # lines[l].entry

\* Nobody else is confirming the line that a request confirms, and it is not booked.
OnePerLine ==
    \A r \in Requests : pc[r] # "idle" /\ work[r].line \notin muddled =>
        /\ lines[work[r].line].status # "matched"
        /\ \A q \in Requests : pc[q] # "idle" /\ work[q].line = work[r].line => q = r

MatchingInv ==
    /\ TypeOK
    /\ work = [r \in Requests |-> work[r]]
    /\ WorkIsSound
    /\ LinksAreSound
    /\ OnePerLine
    /\ BookedOnceUnlessMuddled

LEMMA InitHolds == Init => MatchingInv
  <1> SUFFICES ASSUME Init PROVE MatchingInv
    OBVIOUS
  <1> USE BankMatchingConstants DEF Init
  <1>1. TypeOK
    BY DEF TypeOK
  <1>2. \A l \in Lines : InForce(l) = {}
    BY DEF InForce
  <1> QED
    BY <1>1, <1>2 DEF MatchingInv, WorkIsSound, LinksAreSound, OnePerLine,
       BookedOnceUnlessMuddled

\* The end of a transaction touches no other.
LEMMA EndIsAlone ==
    ASSUME MatchingInv, NEW r \in Requests, End(r)
    PROVE  /\ pc' \in [Requests -> {"idle", "found", "built"}]
           /\ work' = [q \in Requests |-> work'[q]]
           /\ \A q \in Requests : pc'[q] = "idle" => work'[q] = NoWork
           /\ pc'[r] = "idle"
           /\ \A q \in Requests \ {r} : pc'[q] = pc[q] /\ work'[q] = work[q]
  <1>1. /\ pc'[r] = "idle" /\ work'[r] = NoWork
        /\ \A q \in Requests \ {r} : pc'[q] = pc[q] /\ work'[q] = work[q]
        /\ pc' \in [Requests -> {"idle", "found", "built"}]
    BY DEF MatchingInv, TypeOK, End
  <1>2. work' = [q \in Requests |-> work'[q]]
    BY DEF MatchingInv, End
  <1> QED
    BY <1>1, <1>2 DEF MatchingInv, TypeOK

LEMMA ConfirmationHolds ==
    ASSUME MatchingInv, NEW r \in Requests, NEW l \in Lines, HandleConfirmMatch(r, l)
    PROVE  MatchingInv'
  <1> USE DEF MatchingInv
  <1>1. PICK k \in Keys : work' = [work EXCEPT ![r] = [line |-> l, key |-> k]]
    BY DEF HandleConfirmMatch
  <1>2. /\ UNCHANGED <<lines, allocations, entries, reversed, paid, contended>>
        /\ pc' = [pc EXCEPT ![r] = "found"]
        /\ pc[r] = "idle" /\ lines[l].status # "matched"
        /\ muddled' = IF At(l) = {} THEN muddled ELSE muddled \union {l}
    BY DEF HandleConfirmMatch, Confirmable
  <1>3. /\ pc'[r] = "found" /\ work'[r] = [line |-> l, key |-> k]
        /\ pc' \in [Requests -> {"idle", "found", "built"}]
        /\ \A q \in Requests \ {r} : pc'[q] = pc[q] /\ work'[q] = work[q]
    BY <1>1, <1>2 DEF TypeOK
  <1>4. work' = [q \in Requests |-> work'[q]]
    BY <1>1
  <1>6. muddled \subseteq muddled' /\ muddled' \subseteq Lines
    BY <1>2 DEF TypeOK
  <1>7. TypeOK'
    BY <1>2, <1>3, <1>6 DEF TypeOK
  <1>8. WorkIsSound'
    BY <1>3 DEF WorkIsSound
  <1>9. LinksAreSound' /\ BookedOnceUnlessMuddled'
    BY <1>2, <1>6 DEF LinksAreSound, BookedOnceUnlessMuddled, InForce
  <1>10. OnePerLine'
    <2>1. ASSUME l \notin muddled', NEW q \in Requests, pc[q] # "idle" PROVE work[q].line # l
      BY <1>2, <2>1 DEF At
    <2> SUFFICES ASSUME NEW p \in Requests, pc'[p] # "idle", work'[p].line \notin muddled'
                 PROVE  /\ lines[work'[p].line].status # "matched"
                        /\ \A q \in Requests : pc'[q] # "idle" /\ work'[q].line = work'[p].line
                            => q = p
      BY <1>2 DEF OnePerLine
    <2>2. CASE p = r
      BY <1>2, <1>3, <2>1, <2>2
    <2>3. CASE p # r
      BY <1>3, <1>6, <2>1, <2>3 DEF OnePerLine
    <2> QED
      BY <2>2, <2>3
  <1> QED
    BY <1>4, <1>7, <1>8, <1>9, <1>10

LEMMA SettlementsAreTyped ==
    ASSUME NEW s \in Settlements, NEW a \in s
    PROVE  a.document \in Documents /\ a.amount \in Nat \ {0}
  <1>1. PICK d \in Documents :
            a \in [document : {d}, amount : 1 .. Outstanding(d), open : {Outstanding(d)}]
    BY DEF Settlements
  <1>2. a.document = d /\ a.amount \in 1 .. Outstanding(d)
    BY <1>1
  <1> QED
    BY <1>2

LEMMA BuildHolds ==
    ASSUME MatchingInv, NEW r \in Requests, BuildMatch(r)
    PROVE  MatchingInv'
  <1> USE DEF MatchingInv
  <1>1. PICK s \in Settlements :
            /\ work' = [work EXCEPT ![r] = [line |-> work[r].line, key |-> work[r].key,
                                            settles |-> s]]
            /\ contended' = contended \union {d \in BeingSettled(r) : \E a \in s : a.document = d}
    BY DEF BuildMatch
  <1>2. /\ UNCHANGED <<lines, allocations, entries, reversed, paid, muddled>>
        /\ pc' = [pc EXCEPT ![r] = "built"] /\ pc[r] = "found"
    BY DEF BuildMatch
  <1>3. /\ pc'[r] = "built"
        /\ work'[r] = [line |-> work[r].line, key |-> work[r].key, settles |-> s]
        /\ pc' \in [Requests -> {"idle", "found", "built"}]
        /\ \A q \in Requests \ {r} : pc'[q] = pc[q] /\ work'[q] = work[q]
    BY <1>1, <1>2 DEF TypeOK
  <1>4. work' = [q \in Requests |-> work'[q]]
    BY <1>1
  <1>6. contended' \subseteq Documents
    BY <1>1 DEF TypeOK, BeingSettled
  <1>7. TypeOK'
    BY <1>2, <1>3, <1>6 DEF TypeOK
  <1>8. WorkIsSound'
    BY <1>2, <1>3, SettlementsAreTyped DEF WorkIsSound
  <1>9. LinksAreSound' /\ BookedOnceUnlessMuddled'
    BY <1>2 DEF LinksAreSound, BookedOnceUnlessMuddled, InForce
  <1>10. OnePerLine'
    BY <1>2, <1>3 DEF OnePerLine
  <1> QED
    BY <1>4, <1>7, <1>8, <1>9, <1>10


\* A commit links the line to one entry with its command, which it posts for this
\* line or which was there under its key.
LEMMA CommitLinks ==
    ASSUME MatchingInv, NEW r \in Requests, CommitMatch(r), work[r].line \in Lines,
           work[r].key \in Keys, Command(work[r]) \in Commands
    PROVE  \E n \in Nat :
            /\ lines' = [lines EXCEPT ![work[r].line] = Matched(n)]
            /\ muddled' = muddled \union MuddledBy(work[r].line, n)
            /\ entries' \in Seq([key : Keys, command : Commands, line : Lines])
            /\ Len(entries') <= MaxEntries
            /\ \A i \in DOMAIN entries : i \in DOMAIN entries' /\ entries'[i] = entries[i]
            /\ \A i \in DOMAIN entries' : i \notin DOMAIN entries => i = n
            /\ n \in DOMAIN entries' /\ entries'[n].command = Command(work[r])
            /\ n \notin DOMAIN entries => entries'[n].line = work[r].line
  <1> SUFFICES ASSUME NEW w, w = work[r], NEW l \in Lines, l = work[r].line,
                      NEW command, command = Command(work[r])
               PROVE  \E n \in Nat :
                        /\ lines' = [lines EXCEPT ![l] = Matched(n)]
                        /\ muddled' = muddled \union MuddledBy(l, n)
                        /\ entries' \in Seq([key : Keys, command : Commands, line : Lines])
                        /\ Len(entries') <= MaxEntries
                        /\ \A i \in DOMAIN entries : i \in DOMAIN entries' /\ entries'[i] = entries[i]
                        /\ \A i \in DOMAIN entries' : i \notin DOMAIN entries => i = n
                        /\ n \in DOMAIN entries' /\ entries'[n].command = command
                        /\ n \notin DOMAIN entries => entries'[n].line = l
    OBVIOUS
  <1> USE DEF MatchingInv
  <1>1. CASE PostedUnder(w.key) = {}
    <2>1. PICK n : n = Len(entries) + 1
      OBVIOUS
    <2>2. /\ n <= MaxEntries /\ n \in Nat /\ n \notin DOMAIN entries
          /\ entries' = Append(entries, [key |-> w.key, command |-> command, line |-> l])
          /\ lines' = [lines EXCEPT ![l] = Matched(n)]
          /\ muddled' = muddled \union MuddledBy(l, n)
      BY <1>1, <2>1 DEF CommitMatch, TypeOK
    <2>3. PICK entry : entry = [key |-> w.key, command |-> command, line |-> l]
      OBVIOUS
    <2>4. /\ entries' \in Seq([key : Keys, command : Commands, line : Lines])
          /\ Len(entries') <= MaxEntries
          /\ \A i \in DOMAIN entries : i \in DOMAIN entries' /\ entries'[i] = entries[i]
          /\ \A i \in DOMAIN entries' : i \notin DOMAIN entries => i = n
          /\ n \in DOMAIN entries' /\ entries'[n].command = command /\ entries'[n].line = l
      <3>1. /\ entry \in [key : Keys, command : Commands, line : Lines]
            /\ entry.command = command /\ entry.line = l
        BY <2>3
      <3>2. entries' = Append(entries, entry)
        BY <2>2, <2>3
      <3> QED
        BY <2>1, <2>2, <3>1, <3>2 DEF TypeOK
    <2> QED
      BY <2>2, <2>4
  <1>2. CASE PostedUnder(w.key) # {}
    <2>1. PICK n : n = CHOOSE m \in PostedUnder(w.key) : TRUE
      OBVIOUS
    <2>2. n \in DOMAIN entries /\ n \in Nat
      BY <1>2, <2>1 DEF PostedUnder, TypeOK
    <2>3. /\ entries' = entries /\ entries[n].command = command
          /\ lines' = [lines EXCEPT ![l] = Matched(n)]
          /\ muddled' = muddled \union MuddledBy(l, n)
      BY <1>2, <2>1 DEF CommitMatch
    <2> QED
      BY <2>2, <2>3 DEF TypeOK
  <1> QED
    BY <1>1, <1>2

LEMMA CommitHolds ==
    ASSUME MatchingInv, NEW r \in Requests, CommitMatch(r)
    PROVE  MatchingInv'
  <1> USE DEF MatchingInv
  <1>1. PICK w, l, command : w = work[r] /\ l = work[r].line /\ command = Command(w)
    OBVIOUS
  <1>2. /\ l \in Lines /\ w.key \in Keys
        /\ \A a \in w.settles : a.document \in Documents /\ a.amount \in Nat \ {0}
        /\ pc[r] = "built"
    BY <1>1 DEF CommitMatch, WorkIsSound
  <1>3. command \in Commands
    BY <1>1, <1>2 DEF Command, Commands
  <1>4. PICK n \in Nat :
            /\ lines' = [lines EXCEPT ![l] = Matched(n)]
            /\ muddled' = muddled \union MuddledBy(l, n)
            /\ entries' \in Seq([key : Keys, command : Commands, line : Lines])
            /\ Len(entries') <= MaxEntries
            /\ \A i \in DOMAIN entries : i \in DOMAIN entries' /\ entries'[i] = entries[i]
            /\ \A i \in DOMAIN entries' : i \notin DOMAIN entries => i = n
            /\ n \in DOMAIN entries' /\ entries'[n].command = command
            /\ n \notin DOMAIN entries => entries'[n].line = l
    <2>1. work[r].key \in Keys /\ Command(work[r]) \in Commands /\ work[r].line \in Lines
      BY <1>1, <1>2, <1>3
    <2> HIDE DEF MatchingInv
    <2> QED
      BY <1>1, <2>1, CommitLinks
  <1>5. /\ \A i \in DOMAIN entries : i \in DOMAIN entries' /\ entries'[i] = entries[i]
        /\ \A i \in DOMAIN entries' : i \notin DOMAIN entries => i = n
        /\ n \in DOMAIN entries' /\ entries'[n].command = command
        /\ n \notin DOMAIN entries => entries'[n].line = l
    BY <1>4
  <1>6. /\ lines' \in [Lines -> [status : {"unmatched", "ignored", "matched"},
                                 entry : Nat \union {NoEntry}]]
        /\ lines'[l] = Matched(n)
        /\ \A k \in Lines \ {l} : lines'[k] = lines[k]
    BY <1>2, <1>4 DEF TypeOK, Matched
  <1>7. lines'[l].status = "matched" /\ lines'[l].entry = n
    BY <1>6 DEF Matched
  <1>8. /\ pc' \in [Requests -> {"idle", "found", "built"}]
        /\ work' = [q \in Requests |-> work'[q]]
        /\ \A q \in Requests : pc'[q] = "idle" => work'[q] = NoWork
        /\ pc'[r] = "idle"
        /\ \A q \in Requests \ {r} : pc'[q] = pc[q] /\ work'[q] = work[q]
    BY EndIsAlone DEF CommitMatch
  <1>9. reversed' = reversed /\ contended' = contended
    BY DEF CommitMatch
  <1>10. TypeOK'
    <2>1. \A k \in Lines :
            lines'[k].entry \in IF lines'[k].status = "matched" THEN DOMAIN entries' ELSE {NoEntry}
      BY <1>5, <1>6, <1>7 DEF TypeOK
    <2>2. allocations' \subseteq [line : Lines, document : Documents, amount : Nat \ {0}]
      <3>1. allocations' = allocations \union
                {[line |-> l, document |-> a.document, amount |-> a.amount] : a \in w.settles}
        BY <1>1 DEF CommitMatch
      <3> QED
        BY <1>2, <3>1 DEF TypeOK
    <2>3. paid' \in [Documents -> Nat]
      <3>1. paid' = [d \in Documents |->
                IF \E a \in w.settles : a.document = d /\ Closes(a) THEN paid[d] + 1 ELSE paid[d]]
        BY <1>1 DEF CommitMatch
      <3> QED
        BY <3>1 DEF TypeOK
    <2>4. muddled' \subseteq Lines /\ reversed' \subseteq DOMAIN entries'
      BY <1>2, <1>4, <1>5, <1>9 DEF TypeOK, MuddledBy
    <2> QED
      BY <1>4, <1>6, <1>8, <1>9, <2>1, <2>2, <2>3, <2>4 DEF TypeOK
  <1>11. WorkIsSound'
    BY <1>8 DEF WorkIsSound
  <1>12. muddled \subseteq muddled'
    BY <1>4
  <1>13. l \notin muddled => lines[l].status # "matched"
    BY <1>1, <1>2 DEF OnePerLine
  \* The entry is new, or all who point at it are muddled.
  <1>14. ASSUME n \in DOMAIN entries, entries[n].line # l
         PROVE  l \in muddled' /\ \A k \in Lines : lines[k] = Matched(n) => k \in muddled'
    BY <1>2, <1>4, <1>14 DEF MuddledBy, LinkedTo
  <1>15. ASSUME n \in DOMAIN entries, entries[n].line = l
         PROVE  l \in muddled'
    <2>1. CASE n \in reversed
      BY <1>2, <1>4, <2>1 DEF MuddledBy
    <2>2. CASE n \notin reversed
      <3>1. n \in InForce(l)
        BY <1>15, <2>2 DEF InForce
      <3> QED
        BY <1>2, <1>12, <1>13, <3>1 DEF BookedOnceUnlessMuddled
    <2> QED
      BY <2>1, <2>2
  <1>16. l \notin muddled' => n \notin DOMAIN entries
    BY <1>14, <1>15
  <1>17. ASSUME NEW k \in Lines \ {l}, k \notin muddled', lines[k].status = "matched"
         PROVE  lines[k].entry # n
    <2> SUFFICES ASSUME lines[k].entry = n PROVE FALSE
      OBVIOUS
    <2>1. n \in DOMAIN entries /\ lines[k] = Matched(n)
      BY <1>17 DEF TypeOK, Matched
    <2>2. InForce(k) = {n}
      BY <1>12, <1>17 DEF BookedOnceUnlessMuddled
    <2>3. entries[n].line = k
      BY <2>2 DEF InForce
    <2> QED
      BY <1>14, <1>17, <2>1, <2>3
  <1>18. LinksAreSound'
    <2> SUFFICES ASSUME NEW k \in Lines \ muddled', NEW m \in Lines \ {k},
                        lines'[k].status = "matched", lines'[m].status = "matched"
                 PROVE  lines'[m].entry # lines'[k].entry
      BY DEF LinksAreSound
    <2>1. CASE k = l
      <3>1. lines[m].entry \in DOMAIN entries /\ lines'[m] = lines[m]
        BY <1>6, <2>1 DEF TypeOK
      <3> QED
        BY <1>7, <1>16, <2>1, <3>1
    <2>2. CASE m = l
      BY <1>6, <1>7, <1>17, <2>2
    <2>3. CASE k # l /\ m # l
      BY <1>6, <1>12, <2>3 DEF LinksAreSound
    <2> QED
      BY <2>1, <2>2, <2>3
  <1>19. \A k \in Lines \ {l} : InForce(k)' = InForce(k)
    BY <1>5, <1>9 DEF InForce
  <1>20. OnePerLine'
    <2>1. \A q \in Requests \ {r} : pc[q] # "idle" /\ work[q].line = l => l \in muddled
      BY <1>1, <1>2 DEF OnePerLine
    <2> QED
      BY <1>6, <1>8, <1>12, <2>1 DEF OnePerLine, WorkIsSound
  <1>21. ASSUME l \notin muddled' PROVE InForce(l)' = {n}
    <2>1. InForce(l) = {}
      BY <1>2, <1>12, <1>13, <1>21 DEF BookedOnceUnlessMuddled
    <2>2. n \notin reversed
      BY <1>16, <1>21 DEF TypeOK
    <2> QED
      BY <1>5, <1>9, <1>16, <1>21, <2>1, <2>2 DEF InForce
  <1>22. BookedOnceUnlessMuddled'
    BY <1>6, <1>7, <1>12, <1>19, <1>21 DEF BookedOnceUnlessMuddled
  <1> QED
    BY <1>8, <1>10, <1>11, <1>18, <1>20, <1>22

LEMMA AbandonHolds ==
    ASSUME MatchingInv, NEW r \in Requests, Abandon(r)
    PROVE  MatchingInv'
  <1> USE DEF MatchingInv
  <1>1. UNCHANGED <<lines, allocations, entries, reversed, paid, muddled, contended>>
    BY DEF Abandon
  <1>2. /\ pc' \in [Requests -> {"idle", "found", "built"}]
        /\ work' = [q \in Requests |-> work'[q]]
        /\ \A q \in Requests : pc'[q] = "idle" => work'[q] = NoWork
        /\ pc'[r] = "idle"
        /\ \A q \in Requests \ {r} : pc'[q] = pc[q] /\ work'[q] = work[q]
    BY EndIsAlone DEF Abandon
  <1>3. TypeOK'
    BY <1>1, <1>2 DEF TypeOK
  <1>4. WorkIsSound' /\ OnePerLine'
    BY <1>1, <1>2 DEF WorkIsSound, OnePerLine
  <1>5. LinksAreSound' /\ BookedOnceUnlessMuddled'
    BY <1>1 DEF LinksAreSound, BookedOnceUnlessMuddled, InForce
  <1> QED
    BY <1>2, <1>3, <1>4, <1>5

LEMMA IgnoreHolds ==
    ASSUME MatchingInv, NEW l \in Lines, HandleIgnoreTransaction(l)
    PROVE  MatchingInv'
  <1> USE DEF MatchingInv
  <1>1. /\ UNCHANGED <<allocations, entries, reversed, paid, pc, work, muddled, contended>>
        /\ lines' = [lines EXCEPT ![l].status = "ignored"]
        /\ lines[l].status = "unmatched"
    BY DEF HandleIgnoreTransaction
  <1>2. /\ lines' \in [Lines -> [status : {"unmatched", "ignored", "matched"},
                                 entry : Nat \union {NoEntry}]]
        /\ \A k \in Lines : /\ lines'[k].entry = lines[k].entry
                            /\ lines'[k].status = "matched" <=> lines[k].status = "matched"
    BY <1>1 DEF TypeOK
  <1>3. TypeOK'
    BY <1>1, <1>2 DEF TypeOK
  <1>4. WorkIsSound' /\ OnePerLine'
    BY <1>1, <1>2 DEF WorkIsSound, OnePerLine
  <1>5. LinksAreSound' /\ BookedOnceUnlessMuddled'
    BY <1>1, <1>2 DEF LinksAreSound, BookedOnceUnlessMuddled, InForce
  <1> QED
    BY <1>1, <1>3, <1>4, <1>5

\* Of the lines that point at an entry, its reversal releases one.
LEMMA OneIsReleased ==
    ASSUME NEW linked, NEW released \in SUBSET linked,
           Cardinality(released) = IF linked = {} THEN 0 ELSE 1, NEW l, linked \subseteq {l}
    PROVE  released = linked
  <1>1. CASE linked = {}
    BY <1>1
  <1>2. CASE linked # {}
    <2>1. released # {}
      BY <1>2, FS_EmptySet
    <2> QED
      BY <1>2, <2>1
  <1> QED
    BY <1>1, <1>2

\* What a reversal releases, and a line that is not muddled is released with its entry.
LEMMA ReversalFrees ==
    ASSUME MatchingInv, NEW n \in 1 .. MaxEntries, HandleReverseJournalEntry(n)
    PROVE  \E released \in SUBSET LinkedTo(n) :
            /\ lines' = [l \in Lines |-> IF l \in released THEN Unlocked(lines[l]) ELSE lines[l]]
            /\ allocations' = allocations \ UNION {Released(l) : l \in released}
            /\ contended' \subseteq Documents
            /\ \A l \in LinkedTo(n) \ muddled : l \in released
  <1> USE DEF MatchingInv
  <1>1. PICK released \in SUBSET LinkedTo(n) :
            /\ Cardinality(released) = IF LinkedTo(n) = {} THEN 0 ELSE 1
            /\ lines' = [l \in Lines |-> IF l \in released THEN Unlocked(lines[l]) ELSE lines[l]]
            /\ allocations' = allocations \ UNION {Released(l) : l \in released}
            /\ contended' \subseteq Documents
    BY DEF HandleReverseJournalEntry, TypeOK
  <1>2. ASSUME NEW l \in LinkedTo(n) \ muddled PROVE l \in released
    <2>1. l \in Lines /\ lines[l].status = "matched" /\ lines[l].entry = n
      BY <1>2 DEF LinkedTo, Matched
    <2>2. \A m \in LinkedTo(n) : m \in Lines /\ lines[m].status = "matched" /\ lines[m].entry = n
      BY DEF LinkedTo, Matched
    <2>3. LinkedTo(n) \subseteq {l}
      BY <1>2, <2>1, <2>2 DEF LinksAreSound
    <2>4. released = LinkedTo(n)
      BY <1>1, <2>3, OneIsReleased
    <2> QED
      BY <1>2, <2>4
  <1> QED
    BY <1>1, <1>2

LEMMA ReversalHolds ==
    ASSUME MatchingInv, NEW n \in 1 .. MaxEntries, HandleReverseJournalEntry(n)
    PROVE  MatchingInv'
  <1>0. PICK released \in SUBSET LinkedTo(n) :
            /\ lines' = [l \in Lines |-> IF l \in released THEN Unlocked(lines[l]) ELSE lines[l]]
            /\ allocations' = allocations \ UNION {Released(l) : l \in released}
            /\ contended' \subseteq Documents
            /\ \A l \in LinkedTo(n) \ muddled : l \in released
    BY ReversalFrees
  <1> USE DEF MatchingInv
  <1>1. /\ UNCHANGED <<entries, paid, pc, work, muddled>>
        /\ n \in DOMAIN entries \ reversed
        /\ reversed' = reversed \union {n}
    BY DEF HandleReverseJournalEntry
  <1>2. allocations' \subseteq allocations
    BY <1>0
  <1>3. \A l \in released : l \in Lines /\ lines[l].status = "matched" /\ lines[l].entry = n
    BY DEF LinkedTo, Matched
  <1>4. \A l \in Lines :
            /\ l \in released => lines'[l].status = "unmatched" /\ lines'[l].entry = NoEntry
            /\ l \notin released => lines'[l] = lines[l]
    BY <1>0 DEF TypeOK, Unlocked
  <1>5. lines' \in [Lines -> [status : {"unmatched", "ignored", "matched"},
                              entry : Nat \union {NoEntry}]]
    <2> DEFINE Row == [status : {"unmatched", "ignored", "matched"}, entry : Nat \union {NoEntry}]
    <2>1. ASSUME NEW l \in Lines PROVE Unlocked(lines[l]) \in Row /\ lines[l] \in Row
      BY DEF TypeOK, Unlocked
    <2> HIDE DEF Row
    <2>2. lines' \in [Lines -> Row]
      BY <1>0, <2>1
    <2> QED
      BY <2>2 DEF Row
  <1>6. TypeOK'
    <2>1. reversed' \subseteq DOMAIN entries'
      BY <1>1 DEF TypeOK
    <2>2. \A l \in Lines :
            lines'[l].entry \in IF lines'[l].status = "matched" THEN DOMAIN entries' ELSE {NoEntry}
      BY <1>1, <1>4 DEF TypeOK
    <2>3. allocations' \subseteq [line : Lines, document : Documents, amount : Nat \ {0}]
      BY <1>2 DEF TypeOK
    <2> QED
      BY <1>0, <1>1, <1>5, <2>1, <2>2, <2>3 DEF TypeOK
  <1>7. WorkIsSound' /\ OnePerLine'
    BY <1>1, <1>4 DEF WorkIsSound, OnePerLine
  <1>8. LinksAreSound'
    BY <1>1, <1>4 DEF LinksAreSound
  <1>9. \A l \in Lines : InForce(l)' = InForce(l) \ {n}
    BY <1>1 DEF InForce
  <1>10. BookedOnceUnlessMuddled'
    <2> SUFFICES ASSUME NEW l \in Lines \ muddled
                 PROVE  InForce(l)' = IF lines'[l].status = "matched" THEN {lines'[l].entry} ELSE {}
      BY <1>1 DEF BookedOnceUnlessMuddled
    <2>1. CASE l \in released
      BY <1>3, <1>4, <1>9, <2>1 DEF BookedOnceUnlessMuddled
    <2>2. CASE l \notin released
      <3>1. lines[l] # Matched(n)
        BY <1>0, <2>2 DEF LinkedTo
      <3>2. lines[l].status = "matched" => lines[l].entry # n
        BY <3>1 DEF TypeOK, Matched
      <3> QED
        BY <1>4, <1>9, <2>2, <3>2 DEF BookedOnceUnlessMuddled
    <2> QED
      BY <2>1, <2>2
  <1> QED
    BY <1>1, <1>6, <1>7, <1>8, <1>10

LEMMA RowOf == ASSUME NEW S, NEW rows \in Seq(S), NEW i \in DOMAIN rows PROVE rows[i] \in S
  OBVIOUS

LEMMA PostedReversalHolds ==
    ASSUME MatchingInv, NEW n \in 1 .. MaxEntries, HandlePostJournalEntry(n)
    PROVE  MatchingInv'
  <1> USE DEF MatchingInv
  <1>1. /\ UNCHANGED <<lines, allocations, entries, paid, pc, work, contended>>
        /\ n \in DOMAIN entries \ reversed
        /\ reversed' = reversed \union {n}
        /\ muddled' = muddled \union {entries[n].line}
    BY DEF HandlePostJournalEntry
  <1>2. entries[n].line \in Lines
    <2>1. entries[n] \in [key : Keys, command : Commands, line : Lines]
      <3>1. entries \in Seq([key : Keys, command : Commands, line : Lines])
        BY DEF TypeOK
      <3>2. n \in DOMAIN entries
        BY <1>1
      <3> QED
        BY <3>1, <3>2, RowOf
    <2> QED
      BY <2>1 DEF Commands
  <1>3. TypeOK'
    BY <1>1, <1>2 DEF TypeOK
  <1>4. WorkIsSound' /\ OnePerLine' /\ LinksAreSound'
    BY <1>1 DEF WorkIsSound, OnePerLine, LinksAreSound
  <1>5. BookedOnceUnlessMuddled'
    BY <1>1 DEF BookedOnceUnlessMuddled, InForce
  <1> QED
    BY <1>1, <1>3, <1>4, <1>5

LEMMA NextHolds == MatchingInv /\ [Next]_vars => MatchingInv'
  <1> SUFFICES ASSUME MatchingInv, [Next]_vars PROVE MatchingInv'
    OBVIOUS
  <1>1. CASE UNCHANGED vars
    BY <1>1 DEF vars, MatchingInv, TypeOK, WorkIsSound, LinksAreSound, OnePerLine,
       BookedOnceUnlessMuddled, InForce
  <1>2. CASE Next
    BY <1>2, ConfirmationHolds, BuildHolds, CommitHolds, AbandonHolds, IgnoreHolds,
       ReversalHolds, PostedReversalHolds DEF Next
  <1> QED
    BY <1>1, <1>2

LEMMA InvIsInvariant == Spec => []MatchingInv
  BY InitHolds, NextHolds, PTL DEF Spec

\* The tables of bank lines keep their types, and a line points at an entry exactly
\* while it is matched (recordMatch, releaseMatchForReversedEntry).
THEOREM TypeCorrect == Spec => []TypeOK
  <1>1. MatchingInv => TypeOK
    BY DEF MatchingInv
  <1> QED
    BY <1>1, InvIsInvariant, PTL

\* A line is in the books once while it is matched and not at all while it is not
\* (handleConfirmMatch, handleReverseJournalEntry), unless two requests confirmed it
\* at once, it was linked to an entry whose reversal released nothing, or it shares
\* its entry with a line that looks the same.
THEOREM LineIsBookedOnce == Spec => []BookedOnceUnlessMuddled
  <1>1. MatchingInv => BookedOnceUnlessMuddled
    BY DEF MatchingInv
  <1> QED
    BY <1>1, InvIsInvariant, PTL

-----------------------------------------------------------------------------
(* The subledger.  A line that is not muddled has the allocations of the entry    *)
(* that books it, and an entry has one for each document; so the two sums over a  *)
(* document have the same terms.                                                  *)

\* A confirmation settles each document once, and so does an entry.
OneEach ==
    /\ \A r \in Requests : pc[r] = "built" =>
        \A a, b \in work[r].settles : a.document = b.document => a = b
    /\ \A n \in DOMAIN entries :
        \A a, b \in entries[n].command.settles : a.document = b.document => a = b

\* What an entry allocates to the line it books.
AllocationsBy(n, l) ==
    {[line |-> l, document |-> a.document, amount |-> a.amount] : a \in entries[n].command.settles}

\* The allocations of a line are those of the entry that books it.
AllocatedAsBooked ==
    \A l \in Lines \ muddled :
        AllocationsOf(l) =
            IF lines[l].status = "matched" THEN AllocationsBy(lines[l].entry, l) ELSE {}

SubledgerInv == MatchingInv /\ OneEach /\ AllocatedAsBooked

\* A step that books nothing and releases nothing.
LEMMA NothingBooked ==
    ASSUME SubledgerInv, UNCHANGED <<allocations, entries>>, muddled \subseteq muddled',
           \A l \in Lines : \/ lines'[l] = lines[l]
                            \/ lines[l].status # "matched" /\ lines'[l].status # "matched"
    PROVE  AllocatedAsBooked'
  <1> SUFFICES ASSUME NEW l \in Lines \ muddled'
               PROVE  AllocationsOf(l)' = IF lines'[l].status = "matched"
                                          THEN {[line |-> l, document |-> a.document, amount |-> a.amount] :
                                                    a \in entries[lines'[l].entry].command.settles}
                                          ELSE {}
    BY DEF AllocatedAsBooked, AllocationsBy
  <1>1. AllocationsOf(l)' = AllocationsOf(l)
    BY DEF AllocationsOf
  <1> QED
    BY <1>1 DEF SubledgerInv, AllocatedAsBooked, AllocationsBy

LEMMA ConfirmationLeavesSubledger ==
    ASSUME SubledgerInv, NEW r \in Requests, NEW l \in Lines, HandleConfirmMatch(r, l)
    PROVE  OneEach' /\ AllocatedAsBooked'
  <1>1. /\ UNCHANGED <<lines, allocations, entries>> /\ muddled \subseteq muddled'
        /\ \A q \in Requests : pc'[q] = "built" => pc[q] = "built" /\ work'[q] = work[q]
    BY DEF HandleConfirmMatch, SubledgerInv, MatchingInv, TypeOK
  <1> QED
    BY <1>1, NothingBooked DEF SubledgerInv, OneEach

LEMMA BuildLeavesSubledger ==
    ASSUME SubledgerInv, NEW r \in Requests, BuildMatch(r)
    PROVE  OneEach' /\ AllocatedAsBooked'
  <1>1. PICK s \in Settlements :
            work' = [work EXCEPT ![r] = [line |-> work[r].line, key |-> work[r].key,
                                         settles |-> s]]
    BY DEF BuildMatch
  <1>2. /\ UNCHANGED <<lines, allocations, entries, muddled>>
        /\ work'[r].settles = s
        /\ \A q \in Requests \ {r} : pc'[q] = pc[q] /\ work'[q] = work[q]
    BY <1>1 DEF BuildMatch, SubledgerInv, MatchingInv, TypeOK
  <1>3. \A a, b \in s : a.document = b.document => a = b
    BY DEF Settlements
  <1>4. OneEach'
    BY <1>2, <1>3 DEF SubledgerInv, OneEach
  <1> QED
    BY <1>2, <1>4, NothingBooked

\* The entry allocates what the confirmation settled, to a line that had nothing.
LEMMA CommitBooks ==
    ASSUME SubledgerInv, NEW r \in Requests, CommitMatch(r)
    PROVE  OneEach' /\ AllocatedAsBooked'
  <1> USE DEF SubledgerInv
  <1>1. PICK w, l, rows : /\ w = work[r] /\ l = work[r].line
                          /\ rows = {[line |-> l, document |-> a.document, amount |-> a.amount] :
                                        a \in w.settles}
    OBVIOUS
  <1>2. /\ l \in Lines /\ pc[r] = "built"
        /\ work[r].key \in Keys
        /\ \A a \in w.settles : a.document \in Documents /\ a.amount \in Nat \ {0}
    BY <1>1 DEF CommitMatch, MatchingInv, WorkIsSound
  <1>3. /\ Command(w) \in Commands
        /\ Command(w).settles = {[document |-> a.document, amount |-> a.amount] : a \in w.settles}
    BY <1>1, <1>2 DEF Command, Commands
  <1>4. PICK n \in Nat :
            /\ lines' = [lines EXCEPT ![l] = Matched(n)]
            /\ muddled' = muddled \union MuddledBy(l, n)
            /\ \A i \in DOMAIN entries : i \in DOMAIN entries' /\ entries'[i] = entries[i]
            /\ \A i \in DOMAIN entries' : i \notin DOMAIN entries => i = n
            /\ n \in DOMAIN entries' /\ entries'[n].command = Command(w)
    <2> HIDE DEF SubledgerInv
    <2>1. MatchingInv /\ Command(work[r]) \in Commands /\ work[r].line \in Lines
      BY <1>1, <1>2, <1>3 DEF SubledgerInv
    <2> QED
      BY <1>1, <1>2, <2>1, CommitLinks
  <1>5. allocations' = allocations \union rows
    BY <1>1 DEF CommitMatch
  <1>6. \A q \in Requests : pc'[q] = "built" => pc[q] = "built" /\ work'[q] = work[q]
    <2>1. End(r)
      BY DEF CommitMatch
    <2> QED
      BY <2>1, EndIsAlone
  <1>7. /\ lines'[l].status = "matched" /\ lines'[l].entry = n
        /\ \A k \in Lines \ {l} : lines'[k] = lines[k]
    BY <1>2, <1>4 DEF MatchingInv, TypeOK, Matched
  <1>8. OneEach'
    <2>1. \A a, b \in entries'[n].command.settles : a.document = b.document => a = b
      BY <1>1, <1>2, <1>3, <1>4 DEF OneEach
    <2> QED
      BY <1>4, <1>6, <2>1 DEF OneEach
  <1>9. AllocatedAsBooked'
    <2> SUFFICES ASSUME NEW k \in Lines \ muddled'
                 PROVE  AllocationsOf(k)' =
                            IF lines'[k].status = "matched"
                            THEN {[line |-> k, document |-> a.document, amount |-> a.amount] :
                                    a \in entries'[lines'[k].entry].command.settles}
                            ELSE {}
      BY DEF AllocatedAsBooked, AllocationsBy
    <2>1. k \notin muddled /\ \A a \in rows : a.line = l
      BY <1>1, <1>4
    <2>2. CASE k = l
      <3>1. lines[l].status # "matched"
        BY <1>1, <1>2, <2>1, <2>2 DEF MatchingInv, OnePerLine
      <3>2. AllocationsOf(l) = {}
        BY <1>2, <2>1, <2>2, <3>1 DEF AllocatedAsBooked
      <3>3. AllocationsOf(k)' = rows
        BY <1>5, <2>1, <2>2, <3>2 DEF AllocationsOf
      <3>4. rows = {[line |-> k, document |-> a.document, amount |-> a.amount] :
                        a \in Command(w).settles}
        <4>1. PICK settles : settles = Command(w).settles
          OBVIOUS
        <4>2. ASSUME NEW a \in w.settles
              PROVE  \E b \in settles : b.document = a.document /\ b.amount = a.amount
          <5>1. [document |-> a.document, amount |-> a.amount] \in settles
            BY <1>3, <4>1
          <5> QED
            BY <5>1
        <4>3. ASSUME NEW b \in settles
              PROVE  \E a \in w.settles : b.document = a.document /\ b.amount = a.amount
          BY <1>3, <4>1
        <4>4. \A x : x \in rows <=> \E a \in w.settles :
                    x = [line |-> k, document |-> a.document, amount |-> a.amount]
          BY <1>1, <2>2
        <4>5. \A x : x \in rows <=> \E b \in settles :
                    x = [line |-> k, document |-> b.document, amount |-> b.amount]
          BY <4>2, <4>3, <4>4
        <4> QED
          BY ONLY <4>1, <4>5
      <3> QED
        BY <1>4, <1>7, <2>2, <3>3, <3>4
    <2>3. CASE k # l
      <3>1. AllocationsOf(k)' = AllocationsOf(k)
        BY <1>5, <2>1, <2>3 DEF AllocationsOf
      <3>2. lines[k].status = "matched" => lines[k].entry \in DOMAIN entries
        BY DEF MatchingInv, TypeOK
      <3>3. /\ lines'[k] = lines[k]
            /\ lines[k].status = "matched" => entries'[lines[k].entry] = entries[lines[k].entry]
        BY <1>4, <1>7, <2>3, <3>2
      <3>4. AllocationsOf(k) =
                IF lines[k].status = "matched"
                THEN {[line |-> k, document |-> a.document, amount |-> a.amount] :
                        a \in entries[lines[k].entry].command.settles}
                ELSE {}
        BY <2>1 DEF AllocatedAsBooked, AllocationsBy
      <3> QED
        BY <3>1, <3>3, <3>4
    <2> QED
      BY <2>2, <2>3
  <1> QED
    BY <1>8, <1>9

\* The lines that are released lose what they had, and no other does.
LEMMA ReversalUnbooks ==
    ASSUME SubledgerInv, NEW n \in 1 .. MaxEntries, HandleReverseJournalEntry(n)
    PROVE  OneEach' /\ AllocatedAsBooked'
  <1> USE DEF SubledgerInv
  <1>0. PICK released \in SUBSET LinkedTo(n) :
            /\ lines' = [l \in Lines |-> IF l \in released THEN Unlocked(lines[l]) ELSE lines[l]]
            /\ allocations' = allocations \ UNION {Released(l) : l \in released}
            /\ \A l \in LinkedTo(n) \ muddled : l \in released
    BY ReversalFrees
  <1>1. PICK rows :
            /\ rows = UNION {AllocationsOf(l) : l \in released}
            /\ lines' = [l \in Lines |-> IF l \in released THEN Unlocked(lines[l]) ELSE lines[l]]
            /\ allocations' = allocations \ rows
    BY <1>0 DEF Released
  <1>2. UNCHANGED <<entries, pc, work, muddled>>
    BY DEF HandleReverseJournalEntry
  <1>3. OneEach'
    BY <1>2 DEF OneEach
  <1>4. AllocatedAsBooked'
    <2> SUFFICES ASSUME NEW l \in Lines \ muddled
                 PROVE  AllocationsOf(l)' =
                            IF lines'[l].status = "matched"
                            THEN {[line |-> l, document |-> a.document, amount |-> a.amount] :
                                    a \in entries[lines'[l].entry].command.settles}
                            ELSE {}
      BY <1>2 DEF AllocatedAsBooked, AllocationsBy
    <2>1. CASE l \in released
      <3>1. lines'[l].status = "unmatched"
        BY <1>1, <2>1 DEF Unlocked, MatchingInv, TypeOK
      <3>2. AllocationsOf(l)' = {}
        BY <1>1, <2>1 DEF AllocationsOf
      <3> QED
        BY <3>1, <3>2
    <2>2. CASE l \notin released
      <3>1. lines'[l] = lines[l]
        BY <1>1, <2>2
      <3>2. AllocationsOf(l)' = AllocationsOf(l)
        BY <1>1, <2>2 DEF AllocationsOf
      <3> QED
        BY <3>1, <3>2 DEF AllocatedAsBooked, AllocationsBy
    <2> QED
      BY <2>1, <2>2
  <1> QED
    BY <1>3, <1>4

LEMMA SubledgerHolds == SubledgerInv /\ [Next]_vars => SubledgerInv'
  <1> SUFFICES ASSUME SubledgerInv, [Next]_vars PROVE SubledgerInv'
    OBVIOUS
  <1>1. MatchingInv'
    BY NextHolds DEF SubledgerInv
  <1>2. CASE UNCHANGED vars
    <2>1. OneEach'
      BY <1>2 DEF vars, SubledgerInv, OneEach
    <2> QED
      BY <1>1, <1>2, <2>1, NothingBooked DEF vars, SubledgerInv
  <1>3. ASSUME NEW r \in Requests, Abandon(r) PROVE OneEach' /\ AllocatedAsBooked'
    <2>1. /\ UNCHANGED <<lines, allocations, entries, muddled>>
          /\ \A q \in Requests : pc'[q] = "built" => pc[q] = "built" /\ work'[q] = work[q]
      BY <1>3, EndIsAlone DEF Abandon, SubledgerInv
    <2> QED
      BY <2>1, NothingBooked DEF SubledgerInv, OneEach
  <1>4. ASSUME NEW l \in Lines, HandleIgnoreTransaction(l) PROVE OneEach' /\ AllocatedAsBooked'
    <2>1. /\ UNCHANGED <<allocations, entries, pc, work, muddled>>
          /\ lines[l].status # "matched" /\ lines'[l].status # "matched"
          /\ \A k \in Lines \ {l} : lines'[k] = lines[k]
      BY <1>4 DEF HandleIgnoreTransaction, SubledgerInv, MatchingInv, TypeOK
    <2> QED
      BY <2>1, NothingBooked DEF SubledgerInv, OneEach
  <1>5. ASSUME NEW n \in 1 .. MaxEntries, HandlePostJournalEntry(n)
        PROVE  OneEach' /\ AllocatedAsBooked'
    BY <1>5, NothingBooked DEF HandlePostJournalEntry, SubledgerInv, OneEach
  <1>6. CASE Next
    BY <1>1, <1>3, <1>4, <1>5, <1>6, ConfirmationLeavesSubledger, BuildLeavesSubledger, CommitBooks,
       ReversalUnbooks DEF Next, SubledgerInv
  <1> QED
    BY <1>2, <1>6

LEMMA SubledgerIsInvariant == Spec => []SubledgerInv
  <1>1. Init => SubledgerInv
    BY InitHolds DEF Init, SubledgerInv, OneEach, AllocatedAsBooked, AllocationsOf
  <1> QED
    BY <1>1, SubledgerHolds, PTL DEF Spec

\* What an entry credits to a document is one amount, or nothing.
LEMMA CreditedIsOne ==
    ASSUME SubledgerInv, NEW n \in DOMAIN entries, NEW d
    PROVE  /\ \A a \in entries[n].command.settles : a.document = d => Credited(n, d) = a.amount
           /\ (\A a \in entries[n].command.settles : a.document # d) => Credited(n, d) = 0
           /\ entries[n].command \in Commands
  <1> DEFINE credits == {a \in entries[n].command.settles : a.document = d}
             amounts == [a \in credits |-> a.amount]
  <1>1. Credited(n, d) = SumFunctionOnSet(amounts, credits)
    BY DEF Credited, SumAmounts
  <1>2. entries[n].command \in Commands
    <2>1. entries \in Seq([key : Keys, command : Commands, line : Lines])
      BY DEF SubledgerInv, MatchingInv, TypeOK
    <2>2. entries[n] \in [key : Keys, command : Commands, line : Lines]
      BY <2>1, RowOf
    <2> QED
      BY <2>2
  <1>3. ASSUME NEW a \in entries[n].command.settles, a.document = d PROVE Credited(n, d) = a.amount
    <2>1. credits = {a}
      BY <1>3 DEF SubledgerInv, OneEach
    <2>2. amounts[a] = a.amount /\ a.amount \in Int
      BY <1>2, <1>3 DEF Commands
    <2> HIDE DEF amounts, credits
    <2> QED
      BY <1>1, <2>1, <2>2, SumOfOne
  <1>4. ASSUME \A a \in entries[n].command.settles : a.document # d PROVE Credited(n, d) = 0
    <2>1. credits = {}
      BY <1>4
    <2> HIDE DEF amounts, credits
    <2> QED
      BY <1>1, <2>1, SumOfNone
  <1> QED
    BY <1>2, <1>3, <1>4

LEMMA SubledgerAddsUp ==
    ASSUME SubledgerInv, NEW d \in Documents
    PROVE  SumAmounts({a \in allocations : a.document = d /\ a.line \notin muddled})
               = Received(d, Lines \ muddled)
  <1> USE DEF SubledgerInv
  <1> DEFINE inForce == UNION {InForce(l) : l \in Lines \ muddled}
             paying == {n \in inForce : \E a \in entries[n].command.settles : a.document = d}
             rows == {a \in allocations : a.document = d /\ a.line \notin muddled}
             credited == [n \in inForce |-> Credited(n, d)]
             amounts == [a \in rows |-> a.amount]
             to == [n \in inForce |-> [line |-> entries[n].line, document |-> d,
                                       amount |-> Credited(n, d)]]
  <1>1. ASSUME NEW n \in inForce
        PROVE  /\ n \in DOMAIN entries
               /\ entries[n].line \in Lines \ muddled
               /\ lines[entries[n].line].status = "matched"
               /\ lines[entries[n].line].entry = n
    <2>1. PICK l \in Lines \ muddled : n \in InForce(l)
      OBVIOUS
    <2>2. n \in DOMAIN entries /\ entries[n].line = l
      BY <2>1 DEF InForce
    <2>3. lines[l].status = "matched" /\ lines[l].entry = n
      BY <2>1 DEF MatchingInv, BookedOnceUnlessMuddled
    <2> QED
      BY <2>2, <2>3
  <1>2. IsFiniteSet(inForce) /\ IsFiniteSet(paying)
    <2>1. DOMAIN entries = 1 .. Len(entries) /\ Len(entries) \in Nat
      BY DEF MatchingInv, TypeOK
    <2>2. IsFiniteSet(1 .. Len(entries))
      BY <2>1, FS_Interval
    <2>3. inForce \subseteq 1 .. Len(entries) /\ paying \subseteq inForce
      BY <1>1, <2>1
    <2> HIDE DEF inForce, paying
    <2>4. IsFiniteSet(inForce)
      BY <2>2, <2>3, FS_Subset
    <2> QED
      BY <2>3, <2>4, FS_Subset
  <1>3. ASSUME NEW n \in inForce
        PROVE  /\ credited[n] \in Int
               /\ n \notin paying => credited[n] = 0
    <2>1. n \in DOMAIN entries /\ credited[n] = Credited(n, d)
      BY <1>1
    <2>2. n \notin paying => Credited(n, d) = 0
      BY <2>1, CreditedIsOne
    <2>3. n \in paying => Credited(n, d) \in Int
      BY <2>1, CreditedIsOne DEF Commands
    <2> HIDE DEF credited, paying
    <2> QED
      BY <2>1, <2>2, <2>3
  <1>4. ASSUME NEW n \in paying
        PROVE  /\ to[n] \in rows /\ amounts[to[n]] = credited[n]
               /\ to[n].line = entries[n].line
    <2>1. PICK a \in entries[n].command.settles : a.document = d
      OBVIOUS
    <2>2. PICK l \in Lines \ muddled : l = entries[n].line
      BY <1>1
    <2>3. Credited(n, d) = a.amount
      BY <1>1, <2>1, CreditedIsOne
    <2>4. [line |-> l, document |-> a.document, amount |-> a.amount] \in AllocationsOf(l)
      <3>1. AllocationsOf(l) = AllocationsBy(n, l)
        BY <1>1, <2>2 DEF AllocatedAsBooked
      <3> QED
        BY <2>1, <3>1 DEF AllocationsBy
    <2>5. to[n] = [line |-> l, document |-> d, amount |-> a.amount]
      BY <2>2, <2>3
    <2>6. to[n] \in rows /\ to[n].amount = a.amount /\ to[n].line = l
      BY <2>1, <2>2, <2>4, <2>5 DEF AllocationsOf
    <2>7. credited[n] = a.amount
      BY <2>3
    <2>8. amounts[to[n]] = to[n].amount
      <3> HIDE DEF to, rows
      <3> QED
        BY <2>6
    <2> QED
      BY <2>2, <2>6, <2>7, <2>8
  <1>5. ASSUME NEW x \in rows PROVE \E n \in paying : x = to[n]
    <2>1. x \in [line : Lines, document : Documents, amount : Nat \ {0}]
      BY DEF MatchingInv, TypeOK
    <2>2. PICK l \in Lines \ muddled : l = x.line
      BY <2>1
    <2>3. x \in AllocationsOf(l)
      BY <2>2 DEF AllocationsOf
    <2>4. lines[l].status = "matched" /\ x \in AllocationsBy(lines[l].entry, l)
      BY <2>3 DEF AllocatedAsBooked
    <2>5. PICK n : n = lines[l].entry
      OBVIOUS
    <2>6. n \in InForce(l)
      BY <2>4, <2>5 DEF MatchingInv, BookedOnceUnlessMuddled
    <2>7. PICK a \in entries[n].command.settles :
              x = [line |-> l, document |-> a.document, amount |-> a.amount]
      BY <2>4, <2>5 DEF AllocationsBy
    <2>8. a.document = d
      BY <2>7
    <2>9. n \in inForce /\ n \in paying
      BY <2>6, <2>8
    <2>10. n \in DOMAIN entries /\ entries[n].line = l
      BY <2>6 DEF InForce
    <2>11. Credited(n, d) = a.amount
      BY <2>8, <2>10, CreditedIsOne
    <2>12. to[n] = x
      BY <2>7, <2>8, <2>9, <2>10, <2>11
    <2> HIDE DEF to, paying
    <2> QED
      BY <2>9, <2>12
  <1>6. ASSUME NEW m \in paying, NEW n \in paying, to[m] = to[n] PROVE m = n
    <2>1. entries[m].line = entries[n].line
      BY <1>4, <1>6
    <2> QED
      BY <1>1, <2>1
  <1>7. {to[n] : n \in paying} = rows
    <2>1. \A n \in paying : to[n] \in rows
      BY <1>4
    <2> HIDE DEF to, paying, rows
    <2> QED
      BY <1>5, <2>1
  <1>8. /\ Received(d, Lines \ muddled) = SumFunctionOnSet(credited, inForce)
        /\ SumAmounts(rows) = SumFunctionOnSet(amounts, rows)
    BY DEF Received, SumAmounts
  <1>9. paying \subseteq inForce
    OBVIOUS
  <1> HIDE DEF inForce, paying, rows, credited, amounts, to
  <1>10. SumFunctionOnSet(credited, inForce) = SumFunctionOnSet(credited, paying)
    BY <1>2, <1>3, <1>9, SumOfZeros
  <1>11. SumFunctionOnSet(credited, paying) = SumFunctionOnSet(amounts, {to[n] : n \in paying})
    BY <1>2, <1>3, <1>4, <1>6, <1>9, SumRenamed
  <1> QED
    BY <1>7, <1>8, <1>10, <1>11 DEF rows

\* The subledger is the ledger: what the bank lines allocate to a document is what the
\* entries in force credit to it (recordMatch, releaseMatchForReversedEntry), over all
\* lines that were not muddled.
THEOREM SettledIsBooked == Spec => []SettledIsBookedUnlessMuddled
  <1>1. SubledgerInv => SettledIsBookedUnlessMuddled
    BY SubledgerAddsUp DEF SettledIsBookedUnlessMuddled
  <1> QED
    BY <1>1, SubledgerIsInvariant, PTL

-----------------------------------------------------------------------------
(* Outstanding amounts.  Until somebody else settles or releases the document, a  *)
(* confirmation still knows what is open of it, and settles no more than that.    *)

AllocationsTo(d) == {a \in allocations : a.document = d}

FinitelyAllocated == \A d \in Documents : IsFiniteSet(AllocationsTo(d))

\* What a confirmation read as open still is, and nobody else settles it.
OpenIsCurrent ==
    \A r \in Requests : pc[r] = "built" =>
        \A a \in work[r].settles :
            /\ a.amount <= a.open
            /\ a.document \notin contended =>
                /\ a.open = Outstanding(a.document)
                /\ \A q \in Requests :
                    pc[q] = "built" /\ (\E b \in work[q].settles : b.document = a.document)
                        => q = r

OutstandingInv ==
    SubledgerInv /\ FinitelyAllocated /\ OpenIsCurrent /\ NotOverpaidUnlessContended

LEMMA AllocatedIsNat ==
    ASSUME SubledgerInv, FinitelyAllocated, NEW d \in Documents
    PROVE  Allocated(d) \in Nat /\ Total[d] \in Nat /\ Outstanding(d) \in Int
  <1> DEFINE amounts == [a \in AllocationsTo(d) |-> a.amount]
  <1>1. Allocated(d) = SumFunctionOnSet(amounts, AllocationsTo(d))
    BY DEF Allocated, SumAmounts, AllocationsTo
  <1>2. \A a \in AllocationsTo(d) : amounts[a] \in Nat
    BY DEF AllocationsTo, SubledgerInv, MatchingInv, TypeOK
  <1> HIDE DEF amounts
  <1>3. Allocated(d) \in Nat
    BY <1>1, <1>2, SumOfPart DEF FinitelyAllocated
  <1> QED
    BY <1>3, BankMatchingConstants DEF Outstanding

\* The same allocations leave the same to be settled.
LEMMA OutstandingStays ==
    ASSUME NEW d, AllocationsTo(d)' = AllocationsTo(d)
    PROVE  Allocated(d)' = Allocated(d) /\ Outstanding(d)' = Outstanding(d)
  BY DEF Allocated, SumAmounts, AllocationsTo, Outstanding

\* A commit allocates to each document it settles what it settles of it.
LEMMA CommitAllocates ==
    ASSUME SubledgerInv, FinitelyAllocated, NEW r \in Requests, CommitMatch(r), NEW d \in Documents
    PROVE  /\ IsFiniteSet(AllocationsTo(d)')
           /\ (\A a \in work[r].settles : a.document # d) => Allocated(d)' = Allocated(d)
           /\ \A a \in work[r].settles :
                a.document = d => Allocated(d)' = Allocated(d) + a.amount
  <1> USE DEF SubledgerInv
  <1>1. PICK l, settles :
            /\ l = work[r].line /\ settles = work[r].settles
            /\ allocations' = allocations \union
                {[line |-> l, document |-> a.document, amount |-> a.amount] : a \in settles}
    BY DEF CommitMatch
  <1>2. /\ l \in Lines
        /\ \A a \in settles : a.document \in Documents /\ a.amount \in Nat \ {0}
        /\ \A a, b \in settles : a.document = b.document => a = b
    BY <1>1 DEF CommitMatch, MatchingInv, WorkIsSound, OneEach
  <1>3. ASSUME \A a \in settles : a.document # d
        PROVE  AllocationsTo(d)' = AllocationsTo(d)
    BY <1>1, <1>3 DEF AllocationsTo
  <1>4. ASSUME NEW a \in settles, a.document = d
        PROVE  IsFiniteSet(AllocationsTo(d)') /\ Allocated(d)' = Allocated(d) + a.amount
    <2>1. PICK row : row = [line |-> l, document |-> d, amount |-> a.amount]
      OBVIOUS
    <2>2. row.line = l /\ row.document = d /\ row.amount = a.amount
      BY <2>1
    <2>3. AllocationsTo(d)' = AllocationsTo(d) \union {row}
      <3>1. \A b \in settles : b.document = d => b = a
        BY <1>2, <1>4
      <3>2. AllocationsTo(d)' = AllocationsTo(d) \union
                {b \in {[line |-> l, document |-> c.document, amount |-> c.amount] : c \in settles} :
                    b.document = d}
        BY <1>1 DEF AllocationsTo
      <3> QED
        BY <1>4, <2>1, <3>1, <3>2
    <2>4. row \notin AllocationsTo(d)
      <3>1. AllocationFree(l, settles)
        BY <1>1 DEF CommitMatch
      <3>2. \A b \in allocations : ~ (b.line = l /\ b.document = a.document)
        BY <3>1 DEF AllocationFree
      <3> QED
        BY <1>4, <2>2, <3>2 DEF AllocationsTo
    <2>5. IsFiniteSet(AllocationsTo(d)) /\ IsFiniteSet(AllocationsTo(d)')
      BY <2>3, FS_AddElement DEF FinitelyAllocated
    <2>6. Allocated(d)' = a.amount + Allocated(d)
      <3> DEFINE old == [b \in AllocationsTo(d) |-> b.amount]
                 new == [b \in AllocationsTo(d) \union {row} |-> b.amount]
      <3>1. Allocated(d) = SumFunctionOnSet(old, AllocationsTo(d))
        BY DEF Allocated, SumAmounts, AllocationsTo
      <3>2. Allocated(d)' = SumFunctionOnSet(new, AllocationsTo(d) \union {row})
        BY <2>3 DEF Allocated, SumAmounts, AllocationsTo
      <3>3. /\ \A b \in AllocationsTo(d) : old[b] = new[b] /\ new[b] \in Int
            /\ new[row] = a.amount /\ a.amount \in Int
        BY <1>2, <2>2 DEF AllocationsTo, MatchingInv, TypeOK
      <3> HIDE DEF old, new
      <3>4. SumFunctionOnSet(new, AllocationsTo(d) \union {row})
                = new[row] + SumFunctionOnSet(new, AllocationsTo(d))
        BY <2>4, <2>5, <3>3, SumWith
      <3>5. SumFunctionOnSet(old, AllocationsTo(d)) = SumFunctionOnSet(new, AllocationsTo(d))
        BY <2>5, <3>3, SumOfEqual
      <3> QED
        BY <3>1, <3>2, <3>3, <3>4, <3>5
    <2>7. Allocated(d) \in Nat /\ a.amount \in Nat
      BY <1>2, AllocatedIsNat
    <2> QED
      BY <2>5, <2>6, <2>7
  <1>5. CASE \A a \in settles : a.document # d
    BY <1>1, <1>3, <1>5, OutstandingStays DEF FinitelyAllocated
  <1>6. CASE \E a \in settles : a.document = d
    BY <1>1, <1>4, <1>6
  <1> QED
    BY <1>5, <1>6

\* A reversal leaves more to be settled of what it releases, and contends it if
\* somebody is about to settle it.
LEMMA ReversalReleases ==
    ASSUME SubledgerInv, FinitelyAllocated, NEW n \in 1 .. MaxEntries,
           HandleReverseJournalEntry(n), NEW d \in Documents
    PROVE  /\ IsFiniteSet(AllocationsTo(d)')
           /\ Allocated(d)' \in Nat /\ Allocated(d)' <= Allocated(d)
           /\ \A r \in Requests :
                pc[r] = "built" /\ (\E a \in work[r].settles : a.document = d) /\ d \notin contended'
                    => Outstanding(d)' = Outstanding(d)
  <1>0. PICK released \in SUBSET LinkedTo(n) :
            /\ allocations' = allocations \ UNION {Released(l) : l \in released}
            /\ contended' = contended \union
                {e \in Documents : /\ \E a \in UNION {Released(l) : l \in released} : a.document = e
                                   /\ \E q \in Requests : pc[q] = "built"
                                        /\ \E a \in work[q].settles : a.document = e}
    BY DEF HandleReverseJournalEntry
  <1>1. PICK rows :
            /\ allocations' = allocations \ rows
            /\ contended' = contended \union
                {e \in Documents : /\ \E a \in rows : a.document = e
                                   /\ \E q \in Requests : pc[q] = "built"
                                        /\ \E a \in work[q].settles : a.document = e}
    BY <1>0
  <1>2. AllocationsTo(d)' \subseteq AllocationsTo(d)
    BY <1>1 DEF AllocationsTo
  <1>3. IsFiniteSet(AllocationsTo(d)) /\ IsFiniteSet(AllocationsTo(d)')
    BY <1>2, FS_Subset DEF FinitelyAllocated
  <1>4. Allocated(d)' \in Nat /\ Allocated(d)' <= Allocated(d)
    <2> DEFINE old == [b \in AllocationsTo(d) |-> b.amount]
               new == [b \in AllocationsTo(d)' |-> b.amount]
    <2>1. /\ Allocated(d) = SumFunctionOnSet(old, AllocationsTo(d))
          /\ Allocated(d)' = SumFunctionOnSet(new, AllocationsTo(d)')
      BY DEF Allocated, SumAmounts, AllocationsTo
    <2>2. /\ \A b \in AllocationsTo(d) : old[b] \in Nat
          /\ \A b \in AllocationsTo(d)' : old[b] = new[b]
      BY <1>2 DEF AllocationsTo, SubledgerInv, MatchingInv, TypeOK
    <2> HIDE DEF old, new
    <2>3. SumFunctionOnSet(old, AllocationsTo(d)') = SumFunctionOnSet(new, AllocationsTo(d)')
      BY <1>3, <2>2, SumOfEqual
    <2>4. /\ SumFunctionOnSet(old, AllocationsTo(d)') \in Nat
          /\ SumFunctionOnSet(old, AllocationsTo(d)') <= SumFunctionOnSet(old, AllocationsTo(d))
      BY <1>2, <1>3, <2>2, SumOfPart
    <2> QED
      BY <2>1, <2>3, <2>4
  <1>5. ASSUME NEW r \in Requests, pc[r] = "built", \E a \in work[r].settles : a.document = d,
               d \notin contended'
        PROVE  Outstanding(d)' = Outstanding(d)
    <2>1. \A a \in rows : a.document # d
      BY <1>1, <1>5
    <2>2. AllocationsTo(d)' = AllocationsTo(d)
      BY <1>1, <2>1 DEF AllocationsTo
    <2> QED
      BY <2>2, OutstandingStays
  <1> QED
    BY <1>3, <1>4, <1>5

\* A step that allocates nothing and starts no settlement.
LEMMA NothingSettled ==
    ASSUME OutstandingInv, UNCHANGED <<allocations, contended>>,
           \A r \in Requests : pc'[r] = "built" => pc[r] = "built" /\ work'[r] = work[r]
    PROVE  FinitelyAllocated' /\ OpenIsCurrent' /\ NotOverpaidUnlessContended'
  <1>1. \A d : AllocationsTo(d)' = AllocationsTo(d)
    BY DEF AllocationsTo
  <1>2. \A d : Allocated(d)' = Allocated(d) /\ Outstanding(d)' = Outstanding(d)
    BY <1>1, OutstandingStays
  <1>3. FinitelyAllocated'
    BY <1>1 DEF OutstandingInv, FinitelyAllocated
  <1>4. NotOverpaidUnlessContended'
    BY <1>2 DEF OutstandingInv, NotOverpaidUnlessContended
  <1>5. OpenIsCurrent'
    <2> SUFFICES ASSUME NEW r \in Requests, pc'[r] = "built", NEW a \in work'[r].settles
                 PROVE  /\ a.amount <= a.open
                        /\ a.document \notin contended =>
                            /\ a.open = Outstanding(a.document)'
                            /\ \A q \in Requests :
                                pc'[q] = "built" /\ (\E b \in work'[q].settles : b.document = a.document)
                                    => q = r
      BY DEF OpenIsCurrent
    <2> QED
      BY <1>2 DEF OutstandingInv, OpenIsCurrent
  <1> QED
    BY <1>3, <1>4, <1>5

LEMMA BuildReadsOpen ==
    ASSUME OutstandingInv, NEW r \in Requests, BuildMatch(r)
    PROVE  FinitelyAllocated' /\ OpenIsCurrent' /\ NotOverpaidUnlessContended'
  <1>1. PICK s \in Settlements :
            /\ work' = [work EXCEPT ![r] = [line |-> work[r].line, key |-> work[r].key,
                                            settles |-> s]]
            /\ contended' = contended \union {d \in BeingSettled(r) : \E a \in s : a.document = d}
    BY DEF BuildMatch
  <1>2. /\ UNCHANGED allocations
        /\ pc'[r] = "built" /\ work'[r].settles = s
        /\ \A q \in Requests \ {r} : pc'[q] = pc[q] /\ work'[q] = work[q]
    BY <1>1 DEF BuildMatch, OutstandingInv, SubledgerInv, MatchingInv, TypeOK
  <1>3. \A d : AllocationsTo(d)' = AllocationsTo(d)
    BY <1>2 DEF AllocationsTo
  <1>4. \A d : Allocated(d)' = Allocated(d) /\ Outstanding(d)' = Outstanding(d)
    BY <1>3, OutstandingStays
  <1>5. FinitelyAllocated' /\ NotOverpaidUnlessContended'
    BY <1>1, <1>3, <1>4 DEF OutstandingInv, FinitelyAllocated, NotOverpaidUnlessContended
  <1>6. ASSUME NEW a \in s
        PROVE  a.document \in Documents /\ a.open = Outstanding(a.document) /\ a.amount <= a.open
    <2>1. PICK d \in Documents :
              a \in [document : {d}, amount : 1 .. Outstanding(d), open : {Outstanding(d)}]
      BY DEF Settlements
    <2>2. a.document = d /\ a.amount \in 1 .. Outstanding(d) /\ a.open = Outstanding(d)
      BY <2>1
    <2>3. Outstanding(d) \in Int
      BY AllocatedIsNat DEF OutstandingInv
    <2> QED
      BY <2>2, <2>3
  <1>7. OpenIsCurrent'
    <2> SUFFICES ASSUME NEW p \in Requests, pc'[p] = "built", NEW a \in work'[p].settles,
                        NEW d, d = a.document
                 PROVE  /\ a.amount <= a.open
                        /\ d \notin contended' =>
                            /\ a.open = Outstanding(d)'
                            /\ \A q \in Requests :
                                pc'[q] = "built" /\ (\E b \in work'[q].settles : b.document = d)
                                    => q = p
      BY DEF OpenIsCurrent
    <2>1. ASSUME NEW q \in Requests \ {r}, pc[q] = "built",
                 \E b \in work[q].settles : b.document = d, \E b \in s : b.document = d
          PROVE  d \in contended'
      BY <1>1, <1>6, <2>1 DEF BeingSettled
    <2>2. CASE p = r
      BY <1>2, <1>4, <1>6, <2>1, <2>2
    <2>3. CASE p # r
      <3>1. pc[p] = "built" /\ a \in work[p].settles
        BY <1>2, <2>3
      <3>2. a.amount <= a.open /\ (d \notin contended => a.open = Outstanding(d))
        BY <3>1 DEF OutstandingInv, OpenIsCurrent
      <3>3. d \notin contended => \A q \in Requests :
                pc[q] = "built" /\ (\E b \in work[q].settles : b.document = d) => q = p
        BY <3>1 DEF OutstandingInv, OpenIsCurrent
      <3>4. d \notin contended' => d \notin contended /\ \A b \in s : b.document # d
        BY <1>1, <2>1, <2>3, <3>1
      <3> QED
        BY <1>2, <1>4, <3>2, <3>3, <3>4
    <2> QED
      BY <2>2, <2>3
  <1> QED
    BY <1>5, <1>7

LEMMA CommitSettlesWhatIsOpen ==
    ASSUME OutstandingInv, NEW r \in Requests, CommitMatch(r)
    PROVE  FinitelyAllocated' /\ OpenIsCurrent' /\ NotOverpaidUnlessContended'
  <1>1. /\ UNCHANGED contended /\ pc[r] = "built"
        /\ \A q \in Requests : pc'[q] = "built" => q # r /\ pc[q] = "built" /\ work'[q] = work[q]
    BY EndIsAlone DEF CommitMatch, OutstandingInv, SubledgerInv
  <1>2. FinitelyAllocated'
    BY CommitAllocates DEF OutstandingInv, FinitelyAllocated
  <1>3. OpenIsCurrent'
    <2> SUFFICES ASSUME NEW p \in Requests \ {r}, pc[p] = "built", NEW a \in work[p].settles,
                        NEW d, d = a.document
                 PROVE  /\ a.amount <= a.open
                        /\ d \notin contended =>
                            /\ a.open = Outstanding(d)'
                            /\ \A q \in Requests \ {r} :
                                pc[q] = "built" /\ (\E b \in work[q].settles : b.document = d)
                                    => q = p
      BY <1>1 DEF OpenIsCurrent
    <2>1. a.amount <= a.open
      BY DEF OutstandingInv, OpenIsCurrent
    <2>2. d \in Documents
      BY DEF OutstandingInv, SubledgerInv, MatchingInv, WorkIsSound
    <2>3. ASSUME d \notin contended
          PROVE  /\ a.open = Outstanding(d)
                 /\ \A q \in Requests :
                        pc[q] = "built" /\ (\E b \in work[q].settles : b.document = d) => q = p
      BY <2>3 DEF OutstandingInv, OpenIsCurrent
    <2>4. d \notin contended => Outstanding(d)' = Outstanding(d)
      <3>1. d \notin contended => \A b \in work[r].settles : b.document # d
        BY <1>1, <2>3
      <3>2. d \notin contended => Allocated(d)' = Allocated(d)
        BY <2>2, <3>1, CommitAllocates DEF OutstandingInv
      <3> QED
        BY <3>2 DEF Outstanding
    <2> QED
      BY <2>1, <2>3, <2>4
  <1>4. NotOverpaidUnlessContended'
    <2> SUFFICES ASSUME NEW d \in Documents \ contended PROVE Allocated(d)' <= Total[d]
      BY <1>1 DEF NotOverpaidUnlessContended
    <2>1. Allocated(d) <= Total[d] /\ Allocated(d) \in Nat /\ Total[d] \in Nat
      BY AllocatedIsNat DEF OutstandingInv, NotOverpaidUnlessContended
    <2>2. ASSUME NEW a \in work[r].settles, a.document = d PROVE Allocated(d)' <= Total[d]
      <3>1. a.amount <= a.open /\ a.open = Outstanding(d) /\ a.amount \in Nat
        BY <1>1, <2>2 DEF OutstandingInv, OpenIsCurrent, SubledgerInv, MatchingInv, WorkIsSound
      <3>2. Allocated(d)' = Allocated(d) + a.amount
        BY <2>2, CommitAllocates DEF OutstandingInv
      <3> QED
        BY <2>1, <3>1, <3>2 DEF Outstanding
    <2>3. CASE \A a \in work[r].settles : a.document # d
      BY <2>1, <2>3, CommitAllocates DEF OutstandingInv
    <2> QED
      BY <2>2, <2>3
  <1> QED
    BY <1>2, <1>3, <1>4

LEMMA ReversalOpens ==
    ASSUME OutstandingInv, NEW n \in 1 .. MaxEntries, HandleReverseJournalEntry(n)
    PROVE  FinitelyAllocated' /\ OpenIsCurrent' /\ NotOverpaidUnlessContended'
  <1>1. UNCHANGED <<pc, work>> /\ contended \subseteq contended'
    BY DEF HandleReverseJournalEntry
  <1>2. FinitelyAllocated'
    BY ReversalReleases DEF OutstandingInv, FinitelyAllocated
  <1>3. NotOverpaidUnlessContended'
    <2> SUFFICES ASSUME NEW d \in Documents \ contended PROVE Allocated(d)' <= Total[d]
      BY <1>1 DEF NotOverpaidUnlessContended
    <2>1. Allocated(d) <= Total[d] /\ Allocated(d) \in Nat /\ Total[d] \in Nat
      BY AllocatedIsNat DEF OutstandingInv, NotOverpaidUnlessContended
    <2>2. Allocated(d)' \in Nat /\ Allocated(d)' <= Allocated(d)
      BY ReversalReleases DEF OutstandingInv
    <2> QED
      BY <2>1, <2>2
  <1>4. OpenIsCurrent'
    <2> SUFFICES ASSUME NEW r \in Requests, pc[r] = "built", NEW a \in work[r].settles,
                        NEW d, d = a.document
                 PROVE  /\ a.amount <= a.open
                        /\ d \notin contended' =>
                            /\ a.open = Outstanding(d)'
                            /\ \A q \in Requests :
                                pc[q] = "built" /\ (\E b \in work[q].settles : b.document = d)
                                    => q = r
      BY <1>1 DEF OpenIsCurrent
    <2>1. d \in Documents
      BY DEF OutstandingInv, SubledgerInv, MatchingInv, WorkIsSound
    <2>2. /\ a.amount <= a.open
          /\ d \notin contended =>
                /\ a.open = Outstanding(d)
                /\ \A q \in Requests :
                    pc[q] = "built" /\ (\E b \in work[q].settles : b.document = d) => q = r
      BY DEF OutstandingInv, OpenIsCurrent
    <2>3. d \notin contended' => Outstanding(d)' = Outstanding(d)
      BY <2>1, ReversalReleases DEF OutstandingInv
    <2> QED
      BY <1>1, <2>2, <2>3
  <1> QED
    BY <1>2, <1>3, <1>4

LEMMA OutstandingHolds == OutstandingInv /\ [Next]_vars => OutstandingInv'
  <1> SUFFICES ASSUME OutstandingInv, [Next]_vars PROVE OutstandingInv'
    OBVIOUS
  <1>1. SubledgerInv'
    BY SubledgerHolds DEF OutstandingInv
  <1>2. CASE UNCHANGED vars
    <2>1. FinitelyAllocated' /\ OpenIsCurrent' /\ NotOverpaidUnlessContended'
      BY <1>2, NothingSettled DEF vars
    <2> QED
      BY <1>1, <2>1 DEF OutstandingInv
  <1>3. ASSUME NEW r \in Requests, NEW l \in Lines, HandleConfirmMatch(r, l) PROVE OutstandingInv'
    <2>1. /\ UNCHANGED <<allocations, contended>>
          /\ \A q \in Requests : pc'[q] = "built" => pc[q] = "built" /\ work'[q] = work[q]
      BY <1>3 DEF HandleConfirmMatch, OutstandingInv, SubledgerInv, MatchingInv, TypeOK
    <2> QED
      BY <1>1, <2>1, NothingSettled DEF OutstandingInv
  <1>4. ASSUME NEW r \in Requests, Abandon(r) PROVE OutstandingInv'
    <2>1. /\ UNCHANGED <<allocations, contended>>
          /\ \A q \in Requests : pc'[q] = "built" => pc[q] = "built" /\ work'[q] = work[q]
      BY <1>4, EndIsAlone DEF Abandon, OutstandingInv, SubledgerInv
    <2> QED
      BY <1>1, <2>1, NothingSettled DEF OutstandingInv
  <1>5. ASSUME NEW l \in Lines, HandleIgnoreTransaction(l) PROVE OutstandingInv'
    BY <1>1, <1>5, NothingSettled DEF HandleIgnoreTransaction, OutstandingInv
  <1>6. ASSUME NEW n \in 1 .. MaxEntries, HandlePostJournalEntry(n) PROVE OutstandingInv'
    BY <1>1, <1>6, NothingSettled DEF HandlePostJournalEntry, OutstandingInv
  <1>7. ASSUME NEW r \in Requests, BuildMatch(r) \/ CommitMatch(r) PROVE OutstandingInv'
    BY <1>1, <1>7, BuildReadsOpen, CommitSettlesWhatIsOpen DEF OutstandingInv
  <1>8. ASSUME NEW n \in 1 .. MaxEntries, HandleReverseJournalEntry(n) PROVE OutstandingInv'
    BY <1>1, <1>8, ReversalOpens DEF OutstandingInv
  <1> QED
    BY <1>2, <1>3, <1>4, <1>5, <1>6, <1>7, <1>8 DEF Next

LEMMA OutstandingIsInvariant == Spec => []OutstandingInv
  <1>1. SubledgerInv /\ allocations = {} /\ pc = [r \in Requests |-> "idle"] => OutstandingInv
    <2> SUFFICES ASSUME SubledgerInv, allocations = {}, pc = [r \in Requests |-> "idle"]
                 PROVE  OutstandingInv
      OBVIOUS
    <2>1. FinitelyAllocated
      BY FS_EmptySet DEF FinitelyAllocated, AllocationsTo
    <2>2. ASSUME NEW d \in Documents PROVE Allocated(d) = 0
      <3> DEFINE amounts == [a \in {} |-> a.amount]
      <3>1. Allocated(d) = SumFunctionOnSet(amounts, {})
        BY DEF Allocated, SumAmounts
      <3> HIDE DEF amounts
      <3> QED
        BY <3>1, SumOfNone
    <2>3. NotOverpaidUnlessContended
      BY <2>2, BankMatchingConstants DEF NotOverpaidUnlessContended
    <2> QED
      BY <2>1, <2>3 DEF OutstandingInv, OpenIsCurrent
  <1>2. Init => SubledgerInv
    BY InitHolds DEF Init, SubledgerInv, OneEach, AllocatedAsBooked, AllocationsOf
  <1>3. Init => OutstandingInv
    BY <1>1, <1>2 DEF Init
  <1> QED
    BY <1>3, OutstandingHolds, PTL DEF Spec

\* A document is never settled for more than its total (matchCandidates,
\* buildBankMatchEntry), though no row is locked between the reading of what is open
\* and the commit, unless that changed in between.
THEOREM NothingIsOverpaid == Spec => []NotOverpaidUnlessContended
  <1>1. OutstandingInv => NotOverpaidUnlessContended
    BY DEF OutstandingInv
  <1> QED
    BY <1>1, OutstandingIsInvariant, PTL

LEMMA CommitAnnounces ==
    ASSUME OutstandingInv, NEW r \in Requests, CommitMatch(r), NEW d \in Documents \ contended
    PROVE  paid'[d] > paid[d] <=> Outstanding(d) > 0 /\ Outstanding(d)' = 0
  <1> USE DEF OutstandingInv
  <1>1. /\ pc[r] = "built" /\ paid[d] \in Nat
        /\ paid'[d] = IF \E a \in work[r].settles : a.document = d /\ Closes(a)
                      THEN paid[d] + 1 ELSE paid[d]
    BY DEF CommitMatch, SubledgerInv, MatchingInv, TypeOK
  <1>2. Allocated(d) \in Nat /\ Total[d] \in Nat /\ Outstanding(d)' = Total[d] - Allocated(d)'
    BY AllocatedIsNat DEF Outstanding
  <1>3. CASE \A a \in work[r].settles : a.document # d
    <2>1. Allocated(d)' = Allocated(d)
      BY <1>3, CommitAllocates
    <2> QED
      BY <1>1, <1>2, <1>3, <2>1 DEF Outstanding
  <1>4. ASSUME NEW a \in work[r].settles, a.document = d
        PROVE  paid'[d] > paid[d] <=> Outstanding(d) > 0 /\ Outstanding(d)' = 0
    <2>1. a.amount <= a.open /\ a.open = Outstanding(d)
      BY <1>1, <1>4 DEF OpenIsCurrent
    <2>2. a.amount \in Nat \ {0}
      BY <1>1 DEF SubledgerInv, MatchingInv, WorkIsSound
    <2>3. Allocated(d)' = Allocated(d) + a.amount
      BY <1>4, CommitAllocates
    <2>4. \A b \in work[r].settles : b.document = d => b = a
      BY <1>1, <1>4 DEF SubledgerInv, OneEach
    <2>5. paid'[d] > paid[d] <=> Closes(a)
      BY <1>1, <1>4, <2>4
    <2>6. Closes(a) <=> a.amount = Outstanding(d)
      BY <1>2, <2>1, <2>2 DEF Closes, Outstanding
    <2>7. Outstanding(d)' = Outstanding(d) - a.amount
      BY <1>2, <2>2, <2>3 DEF Outstanding
    <2>8. Outstanding(d) \in Int
      BY AllocatedIsNat
    <2> QED
      BY <2>1, <2>2, <2>5, <2>6, <2>7, <2>8
  <1> QED
    BY <1>3, <1>4

\* "Invoice 2026-0042 is paid" is announced with the commit that settles the invoice
\* in full and with no other (handleConfirmMatch), though the confirmation goes by
\* what it read, unless somebody else settled or released the invoice meanwhile.
THEOREM PaidIsAnnounced == Spec => PaidIsAnnouncedUnlessContended
  <1> DEFINE A == \A d \in Documents : d \notin contended' =>
                    (paid'[d] > paid[d] <=> Outstanding(d) > 0 /\ Outstanding(d)' = 0)
  <1>1. ASSUME OutstandingInv, Next PROVE A
    <2> SUFFICES ASSUME NEW d \in Documents \ contended'
                 PROVE  paid'[d] > paid[d] <=> Outstanding(d) > 0 /\ Outstanding(d)' = 0
      OBVIOUS
    <2>1. /\ paid[d] \in Nat /\ Allocated(d) \in Nat /\ Total[d] \in Nat
          /\ Outstanding(d)' = Total[d] - Allocated(d)'
      BY <1>1, AllocatedIsNat DEF OutstandingInv, SubledgerInv, MatchingInv, TypeOK, Outstanding
    <2>2. CASE \/ \E r \in Requests, l \in Lines : HandleConfirmMatch(r, l)
               \/ \E r \in Requests : BuildMatch(r) \/ Abandon(r)
               \/ \E l \in Lines : HandleIgnoreTransaction(l)
               \/ \E n \in 1 .. MaxEntries : HandlePostJournalEntry(n)
      <3>1. UNCHANGED <<allocations, paid>>
        BY <2>2 DEF HandleConfirmMatch, BuildMatch, Abandon, HandleIgnoreTransaction,
           HandlePostJournalEntry
      <3>2. AllocationsTo(d)' = AllocationsTo(d)
        BY <3>1 DEF AllocationsTo
      <3>3. Allocated(d)' = Allocated(d)
        BY <3>2, OutstandingStays
      <3> QED
        BY <2>1, <3>1, <3>3 DEF Outstanding
    <2>3. ASSUME NEW r \in Requests, CommitMatch(r)
          PROVE  paid'[d] > paid[d] <=> Outstanding(d) > 0 /\ Outstanding(d)' = 0
      <3>1. d \notin contended
        BY <2>3 DEF CommitMatch
      <3> QED
        BY <1>1, <2>3, <3>1, CommitAnnounces
    <2>4. ASSUME NEW n \in 1 .. MaxEntries, HandleReverseJournalEntry(n)
          PROVE  paid'[d] > paid[d] <=> Outstanding(d) > 0 /\ Outstanding(d)' = 0
      <3>1. UNCHANGED paid
        BY <2>4 DEF HandleReverseJournalEntry
      <3>2. Allocated(d)' \in Nat /\ Allocated(d)' <= Allocated(d)
        BY <1>1, <2>4, ReversalReleases DEF OutstandingInv
      <3> QED
        BY <2>1, <3>1, <3>2 DEF Outstanding
    <2> QED
      BY <1>1, <2>2, <2>3, <2>4 DEF Next
  <1>2. OutstandingInv /\ [Next]_vars => [A]_vars
    BY <1>1
  <1> HIDE DEF A
  <1>3. Spec => [][A]_vars
    BY <1>2, OutstandingIsInvariant, PTL DEF Spec
  <1> QED
    BY <1>3 DEF A, PaidIsAnnouncedUnlessContended

-----------------------------------------------------------------------------
(* Imports.  Every key of an imported file is stored, and every row comes from a  *)
(* file that was imported.                                                        *)

PlansAreSound ==
    /\ plan = [r \in Imports |-> plan[r]]
    /\ \A r \in Imports : stage[r] = "planned" =>
        /\ plan[r].file \in Files
        /\ \A s \in plan[r].file : BalanceWalks(s)
        /\ plan[r].missing \subseteq Nat

RowsAreImported ==
    /\ \A n \in DOMAIN statements :
        /\ \A s \in statements[n] : BalanceWalks(s)
        /\ \A row \in Planned(statements[n], n) : row.key \in KeysOf(transactions)
    /\ \A t \in transactions : t \in Planned(statements[t.import], t.import)

ImportInv == ImportTypeOK /\ PlansAreSound /\ RowsAreImported

LEMMA PlannedRows ==
    ASSUME NEW file, NEW n, NEW t
    PROVE  t \in Planned(file, n) <=>
                \E s \in file : \E i \in DOMAIN s.entries :
                    t = [key |-> DedupeKey(s, i), payment |-> s.entries[i].payment, import |-> n]
  BY DEF Planned

LEMMA PlannedRowsAreTyped ==
    ASSUME NEW file \in Files, NEW n, NEW t \in Planned(file, n)
    PROVE  t.payment \in Payments /\ t.import = n
  <1>0. PICK s \in file : \E i \in DOMAIN s.entries :
            t = [key |-> DedupeKey(s, i), payment |-> s.entries[i].payment, import |-> n]
    BY PlannedRows
  <1>1. PICK i \in DOMAIN s.entries :
            t = [key |-> DedupeKey(s, i), payment |-> s.entries[i].payment, import |-> n]
    BY <1>0
  <1>2. s.entries[i].payment \in Payments
    BY BankImportConstants DEF Statements
  <1> QED
    BY <1>1, <1>2

\* One new row for each new key.
LEMMA NewRowsAreNew ==
    ASSUME NEW rows
    PROVE  /\ NewRows(rows) \subseteq rows
           /\ \A t \in NewRows(rows) : t.key \notin KeysOf(transactions)
           /\ \A t, u \in NewRows(rows) : t.key = u.key => t = u
           /\ \A t \in rows : t.key \in KeysOf(transactions) \union KeysOf(NewRows(rows))
  <1> DEFINE Chosen(k) == CHOOSE t \in rows : t.key = k
             keys == KeysOf(rows) \ KeysOf(transactions)
  <1>1. \A k \in keys : Chosen(k) \in rows /\ Chosen(k).key = k
    BY DEF KeysOf
  <1>2. NewRows(rows) = {Chosen(k) : k \in keys}
    BY DEF NewRows
  <1>3. \A t \in rows : t.key \in keys \union KeysOf(transactions)
    BY DEF KeysOf
  <1> HIDE DEF Chosen, keys
  <1>4. \A k \in keys : k \in KeysOf(NewRows(rows))
    BY <1>1, <1>2 DEF KeysOf
  <1>5. \A t \in NewRows(rows) : t.key \notin KeysOf(transactions)
    BY <1>1, <1>2 DEF keys
  <1> QED
    BY <1>1, <1>2, <1>3, <1>4, <1>5

\* A finite set of numbers has a highest, which Max chooses, and a lowest.
LEMMA FiniteHasMax ==
    ASSUME NEW S \in SUBSET Int, IsFiniteSet(S), S # {}
    PROVE  Max(S) \in S /\ \A n \in S : n <= Max(S)
  <1> DEFINE Good == {T \in SUBSET S : T = {} \/ \E m \in T : \A n \in T : n <= m}
  <1>1. ASSUME NEW T \in SUBSET S, NEW x \in S \ T, T \in Good PROVE T \union {x} \in Good
    <2>1. CASE T = {}
      <3>1. x \in Int /\ x <= x
        OBVIOUS
      <3> QED
        BY <2>1, <3>1
    <2>2. CASE T # {}
      <3>1. PICK m \in T : \A n \in T : n <= m
        BY <1>1, <2>2
      <3>2. x \in Int /\ m \in Int /\ \A n \in T : n \in Int
        OBVIOUS
      <3>3. CASE x <= m
        BY <3>1, <3>3
      <3>4. CASE ~ (x <= m)
        <4>1. \A n \in T \union {x} : n <= x
          BY <3>1, <3>2, <3>4
        <4> QED
          BY <4>1
      <3> QED
        BY <3>3, <3>4
    <2> QED
      BY <2>1, <2>2
  <1>2. S \in Good
    <2>1. {} \in Good
      OBVIOUS
    <2> HIDE DEF Good
    <2> QED
      BY <1>1, <2>1, FiniteInduction
  <1>3. \E m \in S : \A n \in S : m >= n
    BY <1>2
  <1> QED
    BY <1>3 DEF Max

LEMMA FiniteHasMin ==
    ASSUME NEW S \in SUBSET Int, IsFiniteSet(S), S # {}
    PROVE  Min(S) \in S /\ \A n \in S : Min(S) <= n
  <1> DEFINE opposite == [n \in S |-> 0 - n]
             T == {opposite[n] : n \in S}
  <1>1. T \in SUBSET Int /\ T # {}
    <2>1. \A n \in S : opposite[n] \in Int
      OBVIOUS
    <2> HIDE DEF opposite
    <2> QED
      BY <2>1
  <1>2. IsFiniteSet(T)
    <2> HIDE DEF opposite
    <2> QED
      BY ImageIsFinite
  <1> HIDE DEF T
  <1>3. Max(T) \in T /\ \A n \in T : n <= Max(T)
    BY <1>1, <1>2, FiniteHasMax
  <1>4. PICK m \in S : Max(T) = 0 - m
    BY <1>3 DEF T
  <1>5. ASSUME NEW n \in S PROVE m <= n
    <2>1. 0 - n <= Max(T)
      BY <1>3 DEF T
    <2>2. n \in Int /\ m \in Int
      OBVIOUS
    <2> QED
      BY <1>4, <2>1, <2>2
  <1>6. \E k \in S : \A n \in S : k <= n
    BY <1>5
  <1> QED
    BY <1>6 DEF Min

LEMMA NumbersAreFinite ==
    ASSUME NEW file \in Files
    PROVE  NumbersOf(file) \in SUBSET Nat /\ IsFiniteSet(NumbersOf(file))
  <1> DEFINE some == {s \in file : Numbered(s)}
             number == [s \in some |-> s.number]
  <1>1. \A n \in NumbersOf(file) : n \in Nat
    BY BankImportConstants DEF NumbersOf, Statements, Numbered
  <1>2. IsFiniteSet(some)
    BY BankImportConstants, FS_Subset
  <1>3. NumbersOf(file) = {number[s] : s \in some}
    BY DEF NumbersOf
  <1> HIDE DEF some, number
  <1>4. IsFiniteSet(NumbersOf(file))
    BY <1>2, <1>3, ImageIsFinite
  <1> QED
    BY <1>1, <1>4

\* The number before n is the nearest in the file, or what was read.
LEMMA PreviousIsNearest ==
    ASSUME NEW file \in Files, NEW n \in NumbersOf(file), NEW lastRead
    PROVE  \/ /\ Previous(file, n, lastRead) = lastRead
              /\ \A m \in NumbersOf(file) : n <= m
           \/ /\ Previous(file, n, lastRead) \in NumbersOf(file)
              /\ Previous(file, n, lastRead) < n
              /\ \A m \in NumbersOf(file) : m < n => m <= Previous(file, n, lastRead)
  <1> DEFINE lower == {m \in NumbersOf(file) : m < n}
  <1>1. \A m \in NumbersOf(file) : m \in Nat
    BY NumbersAreFinite
  <1>2. Previous(file, n, lastRead) = IF lower = {} THEN lastRead ELSE Max(lower)
    BY DEF Previous
  <1>3. CASE lower = {}
    BY <1>1, <1>2, <1>3
  <1>4. CASE lower # {}
    <2>1. lower \in SUBSET Int /\ IsFiniteSet(lower)
      BY <1>1, NumbersAreFinite, FS_Subset
    <2>2. Max(lower) \in lower /\ \A m \in lower : m <= Max(lower)
      <3> HIDE DEF lower
      <3> QED
        BY <1>4, <2>1, FiniteHasMax
    <2> QED
      BY <1>2, <1>4, <2>2
  <1> QED
    BY <1>3, <1>4

LEMMA GapsAreNumbers ==
    ASSUME NEW file \in Files, NEW lastRead \in Nat \union {Undeclared}
    PROVE  Missing(file, lastRead) \subseteq Nat
  <1>1. ASSUME NEW n \in NumbersOf(file), NEW m \in Gap(Previous(file, n, lastRead), n)
        PROVE  m \in Nat
    <2>1. PICK previous : previous = Previous(file, n, lastRead)
      OBVIOUS
    <2>2. previous \in Nat \union {Undeclared} /\ n \in Nat
      BY <2>1, PreviousIsNearest, NumbersAreFinite
    <2> QED
      BY <1>1, <2>1, <2>2 DEF Gap
  <1> QED
    BY <1>1 DEF Missing

LEMMA EndIsTyped ==
    ASSUME ImportInv, NEW r \in Imports, EndImport(r)
    PROVE  /\ stage' \in [Imports -> {"idle", "planned"}]
           /\ plan' = [q \in Imports |-> plan'[q]]
           /\ \A q \in Imports : (plan'[q] = NoPlan) <=> (stage'[q] = "idle")
           /\ \A q \in Imports : stage'[q] = "planned" =>
                q # r /\ stage[q] = "planned" /\ plan'[q] = plan[q]
  BY DEF ImportInv, ImportTypeOK, PlansAreSound, EndImport

LEMMA ImportBegins ==
    ASSUME ImportInv, NEW r \in Imports, NEW file \in Files, HandleImportStatement(r, file)
    PROVE  ImportInv'
  <1> USE DEF ImportInv
  <1>1. PICK p : p = [file |-> file, missing |-> Missing(file, last)]
    OBVIOUS
  <1>2. /\ stage[r] = "idle" /\ \A s \in file : BalanceWalks(s)
        /\ stage' = [stage EXCEPT ![r] = "planned"]
        /\ plan' = [plan EXCEPT ![r] = p]
        /\ disordered' \in BOOLEAN
        /\ UNCHANGED <<statements, transactions, last, missed>>
    BY <1>1 DEF HandleImportStatement, ImportTypeOK
  <1>3. p.file = file /\ p.missing \subseteq Nat /\ p # NoPlan
    <2>1. last \in Nat \union {Undeclared}
      BY DEF ImportTypeOK
    <2>2. p.file = file /\ p.missing = Missing(file, last)
      BY <1>1
    <2>3. p \in [file : Files, missing : SUBSET Nat]
      BY <1>1, <2>1, GapsAreNumbers
    <2> QED
      BY <2>2, <2>3, BankImportConstants
  <1>4. /\ stage' \in [Imports -> {"idle", "planned"}]
        /\ plan' = [q \in Imports |-> plan'[q]]
        /\ stage'[r] = "planned" /\ plan'[r] = p
        /\ \A q \in Imports \ {r} : stage'[q] = stage[q] /\ plan'[q] = plan[q]
    BY <1>2 DEF ImportTypeOK, PlansAreSound
  <1>5. ImportTypeOK'
    BY <1>2, <1>3, <1>4 DEF ImportTypeOK
  <1>6. PlansAreSound'
    BY <1>2, <1>3, <1>4 DEF PlansAreSound
  <1>7. RowsAreImported'
    BY <1>2 DEF RowsAreImported, KeysOf
  <1> QED
    BY <1>5, <1>6, <1>7

\* The commit of an import stores every key of the file, and each row once.
LEMMA ImportCommits ==
    ASSUME ImportInv, NEW r \in Imports, ApplyImport(r)
    PROVE  ImportInv'
  <1> USE DEF ImportInv
  <1>1. PICK file, n, new : /\ file = plan[r].file /\ n = Len(statements) + 1
                            /\ new = NewRows(Planned(file, n))
    OBVIOUS
  <1>2. /\ stage[r] = "planned"
        /\ transactions' = transactions \union new
        /\ last' = IF NumbersOf(file) = {} THEN last ELSE Max(NumbersOf(file))
        /\ statements' = Append(statements, file)
        /\ missed' = missed \union plan[r].missing
        /\ disordered' \in BOOLEAN
        /\ EndImport(r)
    BY <1>1 DEF ApplyImport, ImportTypeOK
  <1>3. /\ file \in Files /\ plan[r].missing \subseteq Nat
        /\ \A s \in file : BalanceWalks(s)
    BY <1>1, <1>2 DEF PlansAreSound
  <1>4. /\ statements' \in Seq(Files)
        /\ DOMAIN statements' = DOMAIN statements \union {n} /\ n \notin DOMAIN statements
        /\ statements'[n] = file
        /\ \A m \in DOMAIN statements : statements'[m] = statements[m]
    BY <1>1, <1>2, <1>3 DEF ImportTypeOK
  <1>5. /\ new \subseteq Planned(file, n)
        /\ \A t \in new : t.key \notin KeysOf(transactions)
        /\ \A t, u \in new : t.key = u.key => t = u
        /\ \A t \in Planned(file, n) : t.key \in KeysOf(transactions) \union KeysOf(new)
    BY <1>1, NewRowsAreNew
  <1>6. KeysOf(transactions') = KeysOf(transactions) \union KeysOf(new)
    BY <1>2 DEF KeysOf
  <1>7. /\ stage' \in [Imports -> {"idle", "planned"}]
        /\ plan' = [q \in Imports |-> plan'[q]]
        /\ \A q \in Imports : (plan'[q] = NoPlan) <=> (stage'[q] = "idle")
        /\ \A q \in Imports : stage'[q] = "planned" =>
                q # r /\ stage[q] = "planned" /\ plan'[q] = plan[q]
    BY <1>2, EndIsTyped
  <1>8. ImportTypeOK'
    <2>1. \A t \in transactions' : t.payment \in Payments /\ t.import \in DOMAIN statements'
      BY <1>2, <1>3, <1>4, <1>5, PlannedRowsAreTyped DEF ImportTypeOK
    <2>2. \A t, u \in transactions' : t.key = u.key => t = u
      BY <1>2, <1>5 DEF ImportTypeOK, KeysOf
    <2>3. last' \in Nat \union {Undeclared}
      <3>1. NumbersOf(file) # {} => Max(NumbersOf(file)) \in NumbersOf(file)
        BY <1>3, NumbersAreFinite, FiniteHasMax
      <3> QED
        BY <1>2, <1>3, <3>1, NumbersAreFinite DEF ImportTypeOK
    <2> QED
      BY <1>2, <1>3, <1>4, <1>7, <2>1, <2>2, <2>3 DEF ImportTypeOK
  <1>9. PlansAreSound'
    BY <1>7 DEF PlansAreSound
  <1>10. RowsAreImported'
    <2>1. ASSUME NEW m \in DOMAIN statements'
          PROVE  /\ \A s \in statements'[m] : BalanceWalks(s)
                 /\ \A row \in Planned(statements'[m], m) : row.key \in KeysOf(transactions')
      BY <1>3, <1>4, <1>5, <1>6 DEF RowsAreImported
    <2>2. ASSUME NEW t \in transactions' PROVE t \in Planned(statements'[t.import], t.import)
      <3>1. CASE t \in transactions
        BY <1>4, <3>1 DEF RowsAreImported, ImportTypeOK
      <3>2. CASE t \in new
        <4>1. t \in Planned(file, n) /\ t.import = n
          BY <1>3, <1>5, <3>2, PlannedRowsAreTyped
        <4> QED
          BY <1>4, <4>1
      <3> QED
        BY <1>2, <3>1, <3>2
    <2> QED
      BY <2>1, <2>2 DEF RowsAreImported
  <1> QED
    BY <1>8, <1>9, <1>10

LEMMA ImportNextHolds == ImportInv /\ [ImportNext]_importVars => ImportInv'
  <1> SUFFICES ASSUME ImportInv, [ImportNext]_importVars PROVE ImportInv'
    OBVIOUS
  <1>1. ASSUME NEW r \in Imports, AbandonImport(r) PROVE ImportInv'
    <2>1. UNCHANGED <<statements, transactions, last, missed, disordered>> /\ EndImport(r)
      BY <1>1 DEF AbandonImport
    <2>2. ImportTypeOK' /\ PlansAreSound'
      BY <2>1, EndIsTyped DEF ImportInv, ImportTypeOK, PlansAreSound
    <2>3. RowsAreImported'
      BY <2>1 DEF ImportInv, RowsAreImported, KeysOf
    <2> QED
      BY <2>2, <2>3 DEF ImportInv
  <1>2. CASE UNCHANGED importVars
    BY <1>2 DEF importVars, ImportInv, ImportTypeOK, PlansAreSound, RowsAreImported, KeysOf
  <1> QED
    BY <1>1, <1>2, ImportBegins, ImportCommits DEF ImportNext

LEMMA ImportInvIsInvariant == ImportSpec => []ImportInv
  <1>1. ImportInit => ImportInv
    <2> SUFFICES ASSUME ImportInit PROVE ImportInv
      OBVIOUS
    <2>1. /\ statements = << >> /\ transactions = {} /\ last = Undeclared /\ missed = {}
          /\ stage = [r \in Imports |-> "idle"] /\ plan = [r \in Imports |-> NoPlan]
          /\ disordered = FALSE
      BY DEF ImportInit
    <2>2. statements \in Seq(Files) /\ DOMAIN statements = {}
      BY <2>1
    <2>3. ImportTypeOK
      BY <2>1, <2>2 DEF ImportTypeOK
    <2>4. PlansAreSound /\ RowsAreImported
      BY <2>1, <2>2 DEF PlansAreSound, RowsAreImported
    <2> QED
      BY <2>3, <2>4 DEF ImportInv
  <1> QED
    BY <1>1, ImportNextHolds, PTL DEF ImportSpec

\* The tables of imports keep their types: no key is stored twice
\* (bank_transactions_dedupe), and each row names the import that brought it.
THEOREM ImportTypes == ImportSpec => []ImportTypeOK
  <1>1. ImportInv => ImportTypeOK
    BY DEF ImportInv
  <1> QED
    BY <1>1, ImportInvIsInvariant, PTL

\* A file that was imported before adds nothing (dedupeKey, onConflictDoNothing),
\* whatever was imported in between or is under way.
THEOREM ReimportsAddNothing == ImportSpec => ReimportAddsNothing
  <1> DEFINE A == \A r \in Imports :
                    stage[r] = "planned" /\ stage'[r] = "idle" /\ plan[r].file \in Range(statements)
                        => transactions' = transactions
  <1>1. ASSUME ImportInv, ImportNext, NEW r \in Imports,
               stage[r] = "planned", stage'[r] = "idle", plan[r].file \in Range(statements)
        PROVE  transactions' = transactions
    <2>1. CASE \E q \in Imports : \/ \E file \in Files : HandleImportStatement(q, file)
                                  \/ AbandonImport(q)
      BY <2>1 DEF HandleImportStatement, AbandonImport
    <2>2. ASSUME NEW q \in Imports, ApplyImport(q) PROVE transactions' = transactions
      <3>1. q = r
        BY <1>1, <2>2 DEF ApplyImport, EndImport, ImportInv, ImportTypeOK
      <3>2. PICK file, n : file = plan[r].file /\ n = Len(statements) + 1
        OBVIOUS
      <3>3. transactions' = transactions \union NewRows(Planned(file, n))
        BY <2>2, <3>1, <3>2 DEF ApplyImport
      <3>4. PICK m \in DOMAIN statements : statements[m] = file
        BY <1>1, <3>2 DEF Range
      <3>5. ASSUME NEW t \in Planned(file, n) PROVE t.key \in KeysOf(transactions)
        <4>1. PICK s \in file : \E i \in DOMAIN s.entries :
                t = [key |-> DedupeKey(s, i), payment |-> s.entries[i].payment, import |-> n]
          BY PlannedRows
        <4>2. PICK i \in DOMAIN s.entries :
                t = [key |-> DedupeKey(s, i), payment |-> s.entries[i].payment, import |-> n]
          BY <4>1
        <4>3. PICK row : row = [key |-> DedupeKey(s, i), payment |-> s.entries[i].payment, import |-> m]
          OBVIOUS
        <4>4. row \in Planned(file, m)
          BY <4>3, PlannedRows
        <4>5. row.key \in KeysOf(transactions)
          BY <1>1, <3>4, <4>4 DEF ImportInv, RowsAreImported
        <4> QED
          BY <4>2, <4>3, <4>5
      <3>6. NewRows(Planned(file, n)) = {}
        BY <3>5, NewRowsAreNew
      <3> QED
        BY <3>3, <3>6
    <2> QED
      BY <1>1, <2>1, <2>2 DEF ImportNext
  <1>2. ImportInv /\ [ImportNext]_importVars => [A]_importVars
    BY <1>1
  <1> HIDE DEF A
  <1>3. ImportSpec => [][A]_importVars
    BY <1>2, ImportInvIsInvariant, PTL DEF ImportSpec
  <1> QED
    BY <1>3 DEF A, ReimportAddsNothing

\* Two entries with one key have one reference, or neither has one and they look
\* alike and stand at one position of one id and number.
LEMMA KeysTellApart ==
    ASSUME NEW s, NEW i, NEW u, NEW j, DedupeKey(s, i) = DedupeKey(u, j)
    PROVE  \/ /\ s.entries[i].reference # Undeclared
              /\ s.entries[i].reference = u.entries[j].reference
           \/ /\ s.entries[i].reference = Undeclared
              /\ s.id = u.id /\ s.number = u.number /\ i = j
              /\ s.entries[i].looks = u.entries[j].looks
  <1> DEFINE ByReference(v, k) == [reference |-> v.entries[k].reference]
             ByPlace(v, k) == [id |-> v.id, number |-> v.number, position |-> k,
                               looks |-> v.entries[k].looks]
  <1>1. \A v, k : DedupeKey(v, k) = IF v.entries[k].reference # Undeclared
                                    THEN ByReference(v, k) ELSE ByPlace(v, k)
    BY DEF DedupeKey
  <1>2. "reference" \in DOMAIN ByReference(s, i) /\ "reference" \in DOMAIN ByReference(u, j)
    OBVIOUS
  <1>3. "reference" \notin DOMAIN ByPlace(s, i) /\ "reference" \notin DOMAIN ByPlace(u, j)
    OBVIOUS
  <1>4. /\ ByReference(s, i).reference = s.entries[i].reference
        /\ ByReference(u, j).reference = u.entries[j].reference
    OBVIOUS
  <1>5. /\ ByPlace(s, i).id = s.id /\ ByPlace(u, j).id = u.id
        /\ ByPlace(s, i).number = s.number /\ ByPlace(u, j).number = u.number
        /\ ByPlace(s, i).position = i /\ ByPlace(u, j).position = j
        /\ ByPlace(s, i).looks = s.entries[i].looks /\ ByPlace(u, j).looks = u.entries[j].looks
    OBVIOUS
  <1> HIDE DEF ByReference, ByPlace
  <1> QED
    BY <1>1, <1>2, <1>3, <1>4, <1>5

\* What was imported adds up, if it says to what.
LEMMA ImportedIsWhole ==
    ASSUME ImportInv, NEW s \in Imported
    PROVE  /\ s \in Whole /\ s \in Statements
           /\ \E n \in DOMAIN statements : s \in statements[n]
  <1>1. PICK n \in DOMAIN statements : s \in statements[n]
    BY DEF Imported, Range
  <1>2. statements[n] \in Files
    BY DEF ImportInv, ImportTypeOK
  <1>3. s \in Statements /\ BalanceWalks(s)
    BY <1>1, <1>2 DEF ImportInv, RowsAreImported, Statements
  <1> QED
    BY <1>1, <1>3 DEF BalanceWalks, Whole

\* Each row is an entry of a statement that was imported.
LEMMA RowsHaveStatements ==
    ASSUME ImportInv, NEW t \in transactions
    PROVE  \E u \in Imported : \E j \in DOMAIN u.entries :
               t.key = DedupeKey(u, j) /\ t.payment = u.entries[j].payment
  <1>1. /\ t.import \in DOMAIN statements /\ t \in Planned(statements[t.import], t.import)
        /\ statements[t.import] \in Files
    BY DEF ImportInv, ImportTypeOK, RowsAreImported
  <1>2. PICK u \in statements[t.import] : \E j \in DOMAIN u.entries :
            t = [key |-> DedupeKey(u, j), payment |-> u.entries[j].payment, import |-> t.import]
    BY <1>1, PlannedRows
  <1>3. PICK j \in DOMAIN u.entries :
            t = [key |-> DedupeKey(u, j), payment |-> u.entries[j].payment, import |-> t.import]
    BY <1>2
  <1>4. t.key = DedupeKey(u, j) /\ t.payment = u.entries[j].payment
    BY <1>3
  <1>5. u \in Imported
    BY <1>1 DEF Imported, Range
  <1> QED
    BY <1>4, <1>5

\* A recognisable payment has one key in all statements, and shares it with none.
LEMMA RecognisedByKey ==
    ASSUME NEW s \in Whole, NEW i \in DOMAIN s.entries, NEW u \in Whole, NEW j \in DOMAIN u.entries,
           s.entries[i].payment \in Recognisable
    PROVE  DedupeKey(s, i) = DedupeKey(u, j) <=> s.entries[i].payment = u.entries[j].payment
  <1>1. s \in Statements /\ u \in Statements
    BY DEF Whole
  <1>2. /\ s.entries[i].reference # Undeclared /\ u.entries[j].reference # Undeclared =>
            (s.entries[i].reference = u.entries[j].reference
                <=> s.entries[i].payment = u.entries[j].payment)
        /\ \A k \in DOMAIN s.entries : s.entries[i].payment = s.entries[k].payment => i = k
    BY <1>1, BankReferences
  <1>3. CASE s.entries[i].payment = u.entries[j].payment
    <2>1. CASE \A v \in Whole : \A k \in DOMAIN v.entries :
                  v.entries[k].payment = s.entries[i].payment => v.entries[k].reference # Undeclared
      <3>1. s.entries[i].reference # Undeclared /\ u.entries[j].reference # Undeclared
        BY <1>3, <2>1
      <3> QED
        BY <1>2, <1>3, <3>1 DEF DedupeKey
    <2>2. ASSUME NEW v \in Whole, NEW k \in DOMAIN v.entries,
                 v.entries[k].payment = s.entries[i].payment, OnlyPlace(v, k)
          PROVE  DedupeKey(s, i) = DedupeKey(u, j)
      <3>1. s = v /\ i = k /\ u = v /\ j = k
        BY <1>3, <2>2 DEF OnlyPlace
      <3> QED
        BY <3>1
    <2> QED
      BY <1>3, <2>1, <2>2 DEF Recognisable
  <1>4. CASE DedupeKey(s, i) = DedupeKey(u, j)
    <2>1. CASE s.entries[i].reference # Undeclared /\ s.entries[i].reference = u.entries[j].reference
      BY <1>2, <1>4, <2>1
    <2>2. CASE /\ s.entries[i].reference = Undeclared
               /\ s.id = u.id /\ s.number = u.number /\ i = j
               /\ s.entries[i].looks = u.entries[j].looks
      <3>1. PICK v \in Whole : \E k \in DOMAIN v.entries :
                v.entries[k].payment = s.entries[i].payment /\ OnlyPlace(v, k)
        BY <2>2 DEF Recognisable
      <3>2. PICK k \in DOMAIN v.entries :
                v.entries[k].payment = s.entries[i].payment /\ OnlyPlace(v, k)
        BY <3>1
      <3>3. s = v /\ i = k
        BY <3>2 DEF OnlyPlace
      <3>4. u = s /\ j = i
        BY <2>2, <3>2, <3>3 DEF OnlyPlace
      <3> QED
        BY <3>4
    <2>3. \/ s.entries[i].reference # Undeclared /\ s.entries[i].reference = u.entries[j].reference
          \/ /\ s.entries[i].reference = Undeclared
             /\ s.id = u.id /\ s.number = u.number /\ i = j
             /\ s.entries[i].looks = u.entries[j].looks
      BY ONLY <1>4, KeysTellApart
    <2> QED
      BY <2>1, <2>2, <2>3
  <1> QED
    BY <1>3, <1>4

\* Every entry of a statement that was imported has its row, whoever brought it, and
\* the rows of a recognisable payment are that one.
LEMMA EveryEntryHasItsRow ==
    ASSUME ImportInv, NEW s \in Imported, NEW i \in DOMAIN s.entries,
           s.entries[i].payment \in Recognisable
    PROVE  /\ \E t \in transactions : t.key = DedupeKey(s, i)
           /\ \A t \in transactions :
                 t.key = DedupeKey(s, i) <=> t.payment = s.entries[i].payment
  <1>1. \E t \in transactions : t.key = DedupeKey(s, i)
    <2>1. PICK n \in DOMAIN statements : s \in statements[n]
      BY ImportedIsWhole
    <2>2. PICK row : row = [key |-> DedupeKey(s, i), payment |-> s.entries[i].payment, import |-> n]
      OBVIOUS
    <2>3. row \in Planned(statements[n], n) /\ row.key = DedupeKey(s, i)
      BY <2>1, <2>2, PlannedRows
    <2>4. DedupeKey(s, i) \in KeysOf(transactions)
      BY <2>1, <2>3 DEF ImportInv, RowsAreImported
    <2> QED
      BY <2>4 DEF KeysOf
  <1>2. ASSUME NEW t \in transactions
        PROVE  t.key = DedupeKey(s, i) <=> t.payment = s.entries[i].payment
    <2>1. PICK u \in Imported : \E j \in DOMAIN u.entries :
              t.key = DedupeKey(u, j) /\ t.payment = u.entries[j].payment
      BY RowsHaveStatements
    <2>2. PICK j \in DOMAIN u.entries :
              t.key = DedupeKey(u, j) /\ t.payment = u.entries[j].payment
      BY <2>1
    <2>3. s \in Whole /\ u \in Whole
      BY ImportedIsWhole
    <2>4. DedupeKey(s, i) = DedupeKey(u, j) <=> s.entries[i].payment = u.entries[j].payment
      BY <2>3, RecognisedByKey
    <2> QED
      BY <2>2, <2>4
  <1> QED
    BY <1>1, <1>2

\* The lines of an imported statement add up to what the bank says its balance did,
\* if its payments are recognisable: none is stored twice and none is lost, whatever
\* other files brought them before, after or meanwhile (dedupeKey,
\* balance_walk_mismatch).
THEOREM StoredIsTheBanks == ImportSpec => []BalanceIsTheBanksUnlessUnrecognisable
  <1>1. ASSUME ImportInv, NEW s \in Imported, s.movement # Undeclared,
               NEW listed, listed = {s.entries[i].payment : i \in DOMAIN s.entries},
               listed \subseteq Recognisable,
               NEW stored, stored = {t \in transactions : t.payment \in listed}
        PROVE  SumFunctionOnSet([t \in stored |-> Amount[t.payment]], stored) = s.movement
    <2> DEFINE places == DOMAIN s.entries
               f == [i \in places |-> Amount[s.entries[i].payment]]
               g == [t \in stored |-> Amount[t.payment]]
               to == [i \in places |-> CHOOSE t \in transactions : t.key = DedupeKey(s, i)]
    <2>1. s \in Statements /\ SumOf(s) = s.movement
      BY <1>1, ImportedIsWhole DEF Whole
    <2>2. IsFiniteSet(places) /\ \A i \in places : s.entries[i].payment \in Payments
      <3>1. places = 1 .. Len(s.entries) /\ Len(s.entries) \in Nat
        BY <2>1, BankImportConstants
      <3> HIDE DEF places
      <3>2. IsFiniteSet(1 .. Len(s.entries))
        BY <3>1, FS_Interval
      <3> QED
        BY <2>1, <3>1, <3>2, BankImportConstants DEF places
    <2>3. ASSUME NEW i \in places
          PROVE  /\ to[i] \in transactions /\ to[i].key = DedupeKey(s, i)
                 /\ to[i].payment = s.entries[i].payment
                 /\ s.entries[i].payment \in listed /\ s.entries[i].payment \in Recognisable
      <3>1. s.entries[i].payment \in listed /\ s.entries[i].payment \in Recognisable
        BY <1>1
      <3> QED
        BY <1>1, <3>1, EveryEntryHasItsRow
    <2>4. ASSUME NEW t \in stored PROVE \E i \in places : t = to[i]
      <3>1. PICK i \in places : t.payment = s.entries[i].payment
        BY <1>1
      <3>2. t.key = to[i].key
        BY <1>1, <2>3, <3>1, EveryEntryHasItsRow
      <3>3. t = to[i]
        BY <1>1, <2>3, <3>2 DEF ImportInv, ImportTypeOK
      <3> QED
        BY <3>3
    <2>5. \A i \in places : to[i] \in stored
      <3> HIDE DEF to, places
      <3> QED
        BY <1>1, <2>3
    <2>6. \A i, j \in places : to[i] = to[j] => i = j
      <3>1. ASSUME NEW i \in places, NEW j \in places,
                   s.entries[i].payment = s.entries[j].payment
            PROVE  i = j
        BY <2>1, <3>1, BankReferences
      <3> HIDE DEF to
      <3> QED
        BY <2>3, <3>1
    <2>7. \A i \in places : f[i] \in Int
      BY <2>2, BankImportConstants
    <2>8. \A i \in places : g[to[i]] = f[i]
      <3> HIDE DEF to
      <3> QED
        BY <2>3, <2>5
    <2>9. SumOf(s) = SumFunctionOnSet(f, places)
      BY DEF SumOf
    <2> HIDE DEF f, g, to, places
    <2>10. {to[i] : i \in places} = stored
      BY <2>4, <2>5
    <2>11. SumFunctionOnSet(f, places) = SumFunctionOnSet(g, {to[i] : i \in places})
      BY <2>2, <2>6, <2>7, <2>8, SumRenamed
    <2> QED
      BY <2>1, <2>9, <2>10, <2>11 DEF g
  <1>2. ImportInv => BalanceIsTheBanksUnlessUnrecognisable
    BY <1>1 DEF BalanceIsTheBanksUnlessUnrecognisable
  <1> QED
    BY <1>2, ImportInvIsInvariant, PTL

-----------------------------------------------------------------------------
(* Missing statements.  While imports come one at a time and never go back, the    *)
(* last number is the highest, and a plan was made from it.                        *)

\* The numbers that were imported.
Seen == NumbersOf(Imported)

InOrder ==
    ~ disordered =>
        /\ \A r \in Imports : stage[r] = "planned" =>
            /\ plan[r].missing = Missing(plan[r].file, last)
            /\ \A q \in Imports : stage[q] = "planned" => q = r
        /\ last = Undeclared => Seen = {}
        /\ last # Undeclared => last \in Seen /\ \A n \in Seen : n <= last
        /\ \A a, b \in Seen : a + 1 .. b - 1 \subseteq missed \union Seen

LEMMA SeenAreNumbers == ASSUME ImportInv PROVE Seen \subseteq Nat
  <1>1. ASSUME NEW s \in Imported PROVE s \in Statements
    BY <1>1, ImportedIsWhole
  <1> QED
    BY <1>1, BankImportConstants DEF Seen, NumbersOf, Numbered

\* An import adds the numbers of its file.
LEMMA SeenGrows ==
    ASSUME ImportInv, NEW file, statements' = Append(statements, file)
    PROVE  Seen' = Seen \union NumbersOf(file)
  <1>1. UNION Range(statements') = (UNION Range(statements)) \union file
    <2>1. /\ DOMAIN statements' = DOMAIN statements \union {Len(statements) + 1}
          /\ statements'[Len(statements) + 1] = file
          /\ \A n \in DOMAIN statements : statements'[n] = statements[n]
      BY DEF ImportInv, ImportTypeOK
    <2>2. Range(statements') = Range(statements) \union {file}
      BY <2>1 DEF Range
    <2> QED
      BY <2>2
  <1>2. Imported' = Imported \union file
    BY <1>1 DEF Imported
  <1> QED
    BY <1>2 DEF Seen, NumbersOf

\* Between two numbers of a file, and between the last and the first of them, there
\* are only numbers of the file and numbers that are missing.
LEMMA GapsAreFilled ==
    ASSUME NEW file \in Files, NEW lastRead \in Nat \union {Undeclared},
           NEW b \in NumbersOf(file), NEW x \in Nat, x < b, x \notin NumbersOf(file),
           \/ lastRead # Undeclared /\ lastRead < x
           \/ \E a \in NumbersOf(file) : a < x
    PROVE  x \in Missing(file, lastRead)
  <1> DEFINE above == {y \in NumbersOf(file) : x < y}
  <1>1. above \in SUBSET Int /\ IsFiniteSet(above) /\ above # {}
    BY NumbersAreFinite, FS_Subset
  <1>2. PICK m \in above : \A y \in above : m <= y
    <2> HIDE DEF above
    <2> QED
      BY <1>1, FiniteHasMin
  <1>3. m \in NumbersOf(file) /\ m \in Nat /\ x < m
    BY NumbersAreFinite
  <1>4. PICK p : p = Previous(file, m, lastRead)
    OBVIOUS
  <1>5. p # Undeclared /\ p \in Nat /\ p < x
    <2>1. CASE p = lastRead /\ \A k \in NumbersOf(file) : m <= k
      <3>1. \A a \in NumbersOf(file) : a \in Nat /\ ~ (a < x)
        BY <1>3, <2>1, NumbersAreFinite
      <3> QED
        BY <2>1, <3>1
    <2>2. CASE p \in NumbersOf(file) /\ p < m
      <3>1. p \in Nat /\ p # Undeclared
        BY <2>2, NumbersAreFinite, BankImportConstants
      <3>2. ~ (x < p)
        BY <1>2, <1>3, <2>2, <3>1
      <3> QED
        BY <2>2, <3>1, <3>2
    <2> QED
      BY <1>3, <1>4, <2>1, <2>2, PreviousIsNearest
  <1>6. x \in Gap(p, m)
    BY <1>3, <1>5 DEF Gap
  <1> QED
    BY <1>3, <1>4, <1>6 DEF Missing

\* A commit that goes forward leaves the numbers in order.
LEMMA CommitStaysInOrder ==
    ASSUME ImportInv, InOrder, NEW r \in Imports, ApplyImport(r)
    PROVE  InOrder'
  <1> SUFFICES ASSUME ~ disordered' PROVE InOrder'
    BY DEF InOrder
  <1>1. PICK file, numbers : file = plan[r].file /\ numbers = NumbersOf(file)
    OBVIOUS
  <1>2. /\ stage[r] = "planned"
        /\ last' = IF numbers = {} THEN last ELSE Max(numbers)
        /\ statements' = Append(statements, file)
        /\ missed' = missed \union plan[r].missing
        /\ disordered' = (disordered \/ (numbers # {} /\ last # Undeclared
                                                /\ Min(numbers) < last))
        /\ EndImport(r)
    BY <1>1 DEF ApplyImport
  <1>3. /\ ~ disordered
        /\ numbers # {} /\ last # Undeclared => ~ (Min(numbers) < last)
    BY <1>2
  <1>4. /\ plan[r].missing = Missing(file, last)
        /\ \A q \in Imports : stage[q] = "planned" => q = r
        /\ last = Undeclared => Seen = {}
        /\ last # Undeclared => last \in Seen /\ \A n \in Seen : n <= last
        /\ \A a, b \in Seen : a + 1 .. b - 1 \subseteq missed \union Seen
    BY <1>1, <1>2, <1>3 DEF InOrder
  <1>5. file \in Files /\ last \in Nat \union {Undeclared}
    BY <1>1, <1>2 DEF ImportInv, PlansAreSound, ImportTypeOK
  <1>6. numbers \in SUBSET Nat /\ IsFiniteSet(numbers) /\ Seen \subseteq Nat
    BY <1>1, <1>5, NumbersAreFinite, SeenAreNumbers
  <1>7. Seen' = Seen \union numbers
    BY <1>1, <1>2, SeenGrows
  <1>8. \A q \in Imports : stage'[q] # "planned"
    BY <1>2, <1>4, EndIsTyped
  <1>9. ASSUME last # Undeclared, NEW n \in numbers PROVE last <= n
    <2>1. Min(numbers) \in numbers /\ Min(numbers) <= n
      BY <1>6, FiniteHasMin
    <2>2. ~ (Min(numbers) < last)
      BY <1>3, <1>9
    <2>3. Min(numbers) \in Nat /\ last \in Nat /\ n \in Nat
      BY <1>5, <1>6, <1>9, <2>1
    <2> QED
      BY <2>1, <2>2, <2>3
  <1>10. /\ last' = Undeclared => Seen' = {}
         /\ last' # Undeclared => last' \in Seen' /\ \A n \in Seen' : n <= last'
    <2>1. CASE numbers = {}
      BY <1>2, <1>4, <1>7, <2>1
    <2>2. CASE numbers # {}
      <3>1. Max(numbers) \in numbers /\ \A n \in numbers : n <= Max(numbers)
        BY <1>6, <2>2, FiniteHasMax
      <3>2. PICK top \in numbers : top = last' /\ \A n \in numbers : n <= top
        BY <1>2, <2>2, <3>1
      <3>3. top \in Nat /\ top # Undeclared
        BY <1>6, BankImportConstants
      <3>4. ASSUME NEW n \in Seen PROVE n <= top
        <4>1. last # Undeclared /\ n <= last /\ last <= top
          BY <1>4, <1>9
        <4>2. n \in Nat /\ last \in Nat
          BY <1>5, <1>6, <4>1
        <4> QED
          BY <3>3, <4>1, <4>2
      <3> QED
        BY <1>7, <3>2, <3>3, <3>4
    <2> QED
      BY <2>1, <2>2
  <1>11. ASSUME NEW a \in Seen', NEW b \in Seen', NEW x \in a + 1 .. b - 1
         PROVE  x \in missed' \union Seen'
    <2>1. a \in Nat /\ b \in Nat /\ x \in Nat /\ a < x /\ x < b
      <3>1. a \in Nat /\ b \in Nat
        BY <1>6, <1>7
      <3> QED
        BY <3>1
    <2>2. CASE a \in Seen /\ b \in Seen
      BY <1>2, <1>4, <1>7, <2>2
    <2>3. CASE a \in numbers /\ b \in Seen
      <3>1. last # Undeclared /\ last <= a /\ b <= last
        BY <1>4, <1>9, <2>3
      <3>2. last \in Nat
        BY <1>5, <3>1
      <3> QED
        BY <2>1, <3>1, <3>2
    <2>4. CASE b \in numbers
      <3> SUFFICES ASSUME x \notin Seen, x \notin numbers PROVE x \in missed'
        BY <1>7
      <3>1. CASE last # Undeclared /\ x < last
        <4>1. last \in Nat
          BY <1>5, <3>1
        <4>2. a \in Seen /\ last \in Seen
          BY <1>4, <1>7, <1>9, <2>1, <3>1, <4>1
        <4>3. x \in a + 1 .. last - 1
          BY <2>1, <3>1, <4>1
        <4> QED
          BY <1>2, <1>4, <4>2, <4>3
      <3>2. CASE last # Undeclared /\ ~ (x < last)
        <4>1. last \in Nat /\ last \in Seen
          BY <1>4, <1>5, <3>2
        <4>2. last < x
          BY <2>1, <3>2, <4>1
        <4>3. x \in Missing(file, last)
          BY <1>1, <1>5, <2>1, <2>4, <3>2, <4>2, GapsAreFilled
        <4> QED
          BY <1>2, <1>4, <4>3
      <3>3. CASE last = Undeclared
        <4>1. a \in numbers
          BY <1>4, <1>7, <3>3
        <4>2. x \in Missing(file, last)
          BY <1>1, <1>5, <2>1, <2>4, <4>1, GapsAreFilled
        <4> QED
          BY <1>2, <1>4, <4>2
      <3> QED
        BY <3>1, <3>2, <3>3
    <2> QED
      BY <1>7, <2>2, <2>3, <2>4
  <1> QED
    BY <1>8, <1>10, <1>11 DEF InOrder

LEMMA NextStaysInOrder == ImportInv /\ InOrder /\ [ImportNext]_importVars => InOrder'
  <1> SUFFICES ASSUME ImportInv, InOrder, [ImportNext]_importVars PROVE InOrder'
    OBVIOUS
  <1>1. ASSUME NEW r \in Imports, NEW file \in Files, HandleImportStatement(r, file)
        PROVE  InOrder'
    <2> SUFFICES ASSUME ~ disordered' PROVE InOrder'
      BY DEF InOrder
    <2>1. PICK p : p = [file |-> file, missing |-> Missing(file, last)]
      OBVIOUS
    <2>2. /\ ~ disordered /\ \A q \in Imports : stage[q] # "planned"
          /\ stage' = [stage EXCEPT ![r] = "planned"]
          /\ plan' = [plan EXCEPT ![r] = p]
          /\ UNCHANGED <<statements, transactions, last, missed>>
      BY <1>1, <2>1 DEF HandleImportStatement
    <2>3. Seen' = Seen
      BY <2>2 DEF Seen, Imported
    <2>4. /\ \A q \in Imports : stage'[q] = "planned" => q = r
          /\ plan'[r] = p
      BY <2>2 DEF ImportInv, ImportTypeOK, PlansAreSound
    <2>5. p.file = file /\ p.missing = Missing(file, last)
      BY <2>1
    <2>6. plan'[r].missing = Missing(plan'[r].file, last')
      BY <2>2, <2>4, <2>5
    <2> QED
      BY <2>2, <2>3, <2>4, <2>6 DEF InOrder
  <1>2. ASSUME NEW r \in Imports, AbandonImport(r) PROVE InOrder'
    <2>1. UNCHANGED <<statements, transactions, last, missed, disordered>> /\ EndImport(r)
      BY <1>2 DEF AbandonImport
    <2>2. Seen' = Seen
      BY <2>1 DEF Seen, Imported
    <2> QED
      BY <2>1, <2>2, EndIsTyped DEF InOrder
  <1>3. CASE UNCHANGED importVars
    BY <1>3 DEF importVars, InOrder, Seen, Imported
  <1> QED
    BY <1>1, <1>2, <1>3, CommitStaysInOrder DEF ImportNext

\* A missing statement is reported: while imports come one at a time and never go
\* back, every number between two imported ones was imported or reported
\* (sequence_gap, last_sequence_number).
THEOREM GapsAreReported == ImportSpec => []GapsAreReportedInOrder
  <1>1. ImportInit => InOrder
    <2> SUFFICES ASSUME ImportInit PROVE InOrder
      OBVIOUS
    <2>1. statements = << >> /\ last = Undeclared /\ stage = [r \in Imports |-> "idle"]
      BY DEF ImportInit
    <2>2. Range(statements) = {}
      BY <2>1 DEF Range
    <2>3. Seen = {}
      BY <2>2 DEF Seen, Imported, NumbersOf
    <2> QED
      BY <2>1, <2>3 DEF InOrder
  <1>2. ImportInv /\ InOrder => GapsAreReportedInOrder
    BY DEF InOrder, Seen, GapsAreReportedInOrder
  <1> QED
    BY <1>1, <1>2, ImportInvIsInvariant, NextStaysInOrder, PTL DEF ImportSpec

=============================================================================
