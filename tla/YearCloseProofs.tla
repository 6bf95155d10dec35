--------------------------- MODULE YearCloseProofs ---------------------------
(***************************************************************************)
(* For any number of closers, years, accounts and postings: a year is      *)
(* closed once and as a whole (IInv, which asks of the journal only that   *)
(* it is a sequence); every balance sheet balances, and a close that was   *)
(* not overtaken does what it planned (YearInv, which also asks that every *)
(* entry balances and that every plan is of the journal as it was read).   *)
(***************************************************************************)
EXTENDS YearClose, SequenceTheorems, SumTheorems

IsSequence == \E S : journal \in Seq(S)

IInv == IsSequence /\ ClosedOnce /\ CloseIsWhole

ClosingKinds == {"appropriation", "opening"}

-----------------------------------------------------------------------------
\* Appending to a sequence keeps what is there and puts the new element last.
LEMMA AppendKeeps ==
    ASSUME NEW S, NEW s \in Seq(S), NEW e
    PROVE  /\ Append(s, e) \in Seq(S \union {e})
           /\ Len(s) \in Nat
           /\ DOMAIN s = 1 .. Len(s)
           /\ DOMAIN Append(s, e) = 1 .. (Len(s) + 1)
           /\ \A i \in DOMAIN s : Append(s, e)[i] = s[i]
           /\ Append(s, e)[Len(s) + 1] = e
  <1> DEFINE T == S \union {e}
  <1>1. s \in Seq(T)
    BY SeqDef
  <1>2. Append(s, e) \in Seq(T)
    BY <1>1, AppendProperties
  <1>3. /\ Len(s) \in Nat
        /\ DOMAIN s = 1 .. Len(s)
    BY LenProperties
  <1>4. /\ Len(Append(s, e)) = Len(s) + 1
        /\ \A i \in 1 .. Len(s) : Append(s, e)[i] = s[i]
        /\ Append(s, e)[Len(s) + 1] = e
    BY <1>1, AppendProperties
  <1>5. DOMAIN Append(s, e) = 1 .. (Len(s) + 1)
    BY <1>2, <1>4, LenProperties
  <1> QED
    BY <1>2, <1>3, <1>4, <1>5

\* A pair is its first element with the second appended.
LEMMA PairAppends ==
    ASSUME NEW a, NEW o
    PROVE  Append(<<a>>, o) = <<a, o>>
  <1> DEFINE T == {a, o}
             l == Append(<<a>>, o)
             r == <<a, o>>
  <1>1. <<a>> \in Seq(T) /\ r \in Seq(T) /\ Len(<<a>>) = 1 /\ Len(r) = 2
    BY SMT
  <1>2. /\ l \in Seq(T) /\ Len(l) = 2
        /\ l[1] = a /\ l[2] = o
    <2>1. /\ l \in Seq(T) /\ Len(l) = Len(<<a>>) + 1
          /\ \A i \in 1 .. Len(<<a>>) : l[i] = <<a>>[i]
          /\ l[Len(<<a>>) + 1] = o
      BY <1>1, AppendProperties
    <2>2. l[1] = <<a>>[1] /\ <<a>>[1] = a
      BY <1>1, <2>1
    <2> QED
      BY <1>1, <2>1, <2>2
  <1>3. r[1] = a /\ r[2] = o
    OBVIOUS
  <1>4. \A i \in 1 .. Len(l) : l[i] = r[i]
    <2> HIDE DEF l, r
    <2> QED
      BY <1>2, <1>3
  <1> HIDE DEF l, r
  <1>5. l = r
    BY <1>1, <1>2, <1>4, SeqEqual
  <1> QED
    BY <1>5 DEF l, r

\* Concatenating one or two elements appends them.
LEMMA ConcatAppends ==
    ASSUME NEW S, NEW s \in Seq(S), NEW a, NEW o
    PROVE  /\ s \o << >> = s
           /\ s \o <<a>> = Append(s, a)
           /\ s \o <<a, o>> = Append(Append(s, a), o)
  <1> DEFINE T == S \union {a, o}
  <1>1. /\ s \in Seq(T)
        /\ <<a>> \in Seq(T) /\ <<o>> \in Seq(T)
    BY SeqDef
  <1>2. s \o << >> = s
    BY ConcatEmptySeq
  <1>3. s \o <<a>> = Append(s, a) /\ Append(s, a) \in Seq(T)
    BY <1>1, AppendIsConcat, AppendProperties
  <1>4. Append(Append(s, a), o) = Append(s, a) \o <<o>>
    BY <1>3, AppendIsConcat
  <1>5. (s \o <<a>>) \o <<o>> = s \o (<<a>> \o <<o>>)
    BY <1>1, ConcatAssociative
  <1>6. <<a>> \o <<o>> = <<a, o>>
    <2>1. Append(<<a>>, o) = <<a>> \o <<o>>
      BY <1>1, AppendIsConcat
    <2>2. Append(<<a>>, o) = <<a, o>>
      BY PairAppends
    <2> QED
      BY <2>1, <2>2
  <1> QED
    BY <1>2, <1>3, <1>4, <1>5, <1>6

\* What a close has inserted is its appropriation, its opening balance or both.
LEMMA ClosingEntriesAre ==
    ASSUME NEW p
    PROVE  LET a == Entry(p.year, "appropriation", p.year, p.appropriation)
               o == Entry(p.year + 1, "opening", p.year, p.opening)
           IN  /\ p.traded /\ Carries(p) => ClosingEntries(p) = <<a, o>>
               /\ p.traded /\ ~ Carries(p) => ClosingEntries(p) = <<a>>
               /\ ~ p.traded /\ Carries(p) => ClosingEntries(p) = <<o>>
               /\ ~ p.traded /\ ~ Carries(p) => ClosingEntries(p) = << >>
  <1> DEFINE a == Entry(p.year, "appropriation", p.year, p.appropriation)
             o == Entry(p.year + 1, "opening", p.year, p.opening)
  <1> HIDE DEF a, o
  <1>1. /\ <<a>> \o <<o>> = <<a, o>>
        /\ <<a>> \o << >> = <<a>>
        /\ << >> \o <<o>> = <<o>>
        /\ << >> \o << >> = << >>
    <2> DEFINE T == {a, o}
    <2>1. << >> \in Seq(T) /\ <<a>> \in Seq(T) /\ <<o>> \in Seq(T)
      OBVIOUS
    <2>2. /\ <<a>> \o << >> = <<a>>
          /\ << >> \o <<o>> = <<o>>
          /\ << >> \o << >> = << >>
      BY <2>1, ConcatEmptySeq
    <2>3. Append(<<a>>, o) = <<a>> \o <<o>>
      BY <2>1, AppendIsConcat
    <2>4. Append(<<a>>, o) = <<a, o>>
      BY PairAppends
    <2> QED
      BY <2>2, <2>3, <2>4
  <1>2. ClosingEntries(p) = (IF p.traded THEN <<a>> ELSE << >>)
                            \o (IF Carries(p) THEN <<o>> ELSE << >>)
    BY DEF ClosingEntries, a, o
  <1> QED
    BY <1>1, <1>2 DEF a, o

-----------------------------------------------------------------------------
\* The administration starts with an empty journal and no closes.
LEMMA InitIInv == Init => IInv
  <1> SUFFICES ASSUME Init PROVE IInv
    OBVIOUS
  <1>1. IsSequence
    <2>1. << >> \in Seq({})
      OBVIOUS
    <2> QED
      BY <2>1 DEF Init, IsSequence
  <1>2. ClosedOnce /\ CloseIsWhole
    BY DEF Init, ClosedOnce, CloseIsWhole
  <1> QED
    BY <1>1, <1>2 DEF IInv

\* A step that leaves journal and closes alone.
LEMMA QuietIInv == IInv /\ UNCHANGED <<journal, closes>> => IInv'
  BY DEF IInv, IsSequence, ClosedOnce, CloseIsWhole

\* Somebody else's entry is neither an appropriation nor an opening balance.
LEMMA OrdinaryIInv ==
    ASSUME IInv, NEW e, journal' = Append(journal, e), UNCHANGED closes,
           e.kind \notin ClosingKinds
    PROVE  IInv'
  <1>1. PICK S : journal \in Seq(S)
    BY DEF IInv, IsSequence
  <1>2. /\ journal' \in Seq(S \union {e})
        /\ Len(journal) \in Nat
        /\ DOMAIN journal = 1 .. Len(journal)
        /\ DOMAIN journal' = 1 .. (Len(journal) + 1)
        /\ \A i \in DOMAIN journal : journal'[i] = journal[i]
        /\ journal'[Len(journal) + 1] = e
    <2>1. /\ Append(journal, e) \in Seq(S \union {e})
          /\ Len(journal) \in Nat
          /\ DOMAIN journal = 1 .. Len(journal)
          /\ DOMAIN Append(journal, e) = 1 .. (Len(journal) + 1)
          /\ \A i \in DOMAIN journal : Append(journal, e)[i] = journal[i]
          /\ Append(journal, e)[Len(journal) + 1] = e
      BY <1>1, AppendKeeps
    <2> QED
      BY <2>1
  <1>3. ClosedOnce'
    BY DEF IInv, ClosedOnce
  <1>4. ASSUME NEW i \in DOMAIN journal', journal'[i].kind \in ClosingKinds
        PROVE  i \in DOMAIN journal
    BY <1>2, <1>4
  <1>5. CloseIsWhole'
    BY <1>2, <1>4 DEF IInv, CloseIsWhole, ClosingKinds
  <1> QED
    BY <1>2, <1>3, <1>5 DEF IInv, IsSequence

\* A close that is recorded inserts what its record names.
LEMMA RecordIInv ==
    ASSUME IInv, NEW c \in Closers, RecordYearClose(c)
    PROVE  IInv'
  <1> DEFINE p == plan[c]
             first == Len(journal) + 1
             r == [year          |-> p.year,
                   appropriation |-> IF p.traded THEN first ELSE 0,
                   opening       |-> IF ~ Carries(p) THEN 0
                                     ELSE IF p.traded THEN first + 1 ELSE first]
             a == Entry(p.year, "appropriation", p.year, p.appropriation)
             o == Entry(p.year + 1, "opening", p.year, p.opening)
  <1>1. CASE ~ OneOpenClose(p.year)
    BY <1>1, QuietIInv DEF RecordYearClose, End
  <1>2. CASE OneOpenClose(p.year)
    <2>1. /\ journal' = journal \o ClosingEntries(p)
          /\ closes' = closes \union {r}
      BY <1>2 DEF RecordYearClose
    <2>2. ClosedOnce'
      BY <1>2, <2>1 DEF IInv, ClosedOnce, OneOpenClose, FindOpenClose
    <2>3. PICK S : journal \in Seq(S)
      BY DEF IInv, IsSequence
    <2>4. /\ a.kind = "appropriation" /\ a.of = p.year /\ a.year = p.year
          /\ o.kind = "opening" /\ o.of = p.year /\ o.year = p.year + 1
      BY DEF Entry
    <2>5. CASE ~ p.traded /\ ~ Carries(p)
      <3>1. journal' = journal
        BY <2>1, <2>3, <2>5, ClosingEntriesAre, ConcatAppends
      <3>2. r.year = p.year /\ r.appropriation = 0 /\ r.opening = 0
        BY <2>5
      <3>3. CloseIsWhole'
        BY <2>1, <3>1, <3>2 DEF IInv, CloseIsWhole
      <3> QED
        BY <2>2, <3>1, <3>3 DEF IInv, IsSequence
    <2>6. CASE p.traded /\ ~ Carries(p)
      <3>1. journal' = Append(journal, a)
        <4>1. ClosingEntries(p) = <<a>>
          BY <2>6, ClosingEntriesAre
        <4> HIDE DEF a, o
        <4>2. journal \o <<a>> = Append(journal, a)
          BY <2>3, ConcatAppends
        <4> QED
          BY <2>1, <4>1, <4>2
      <3>2. /\ journal' \in Seq(S \union {a})
            /\ Len(journal) \in Nat
            /\ DOMAIN journal = 1 .. Len(journal)
            /\ DOMAIN journal' = 1 .. first
            /\ \A i \in DOMAIN journal : journal'[i] = journal[i]
            /\ journal'[first] = a
        <4> HIDE DEF a
        <4>1. /\ Append(journal, a) \in Seq(S \union {a})
              /\ Len(journal) \in Nat
              /\ DOMAIN journal = 1 .. Len(journal)
              /\ DOMAIN Append(journal, a) = 1 .. (Len(journal) + 1)
              /\ \A i \in DOMAIN journal : Append(journal, a)[i] = journal[i]
              /\ Append(journal, a)[Len(journal) + 1] = a
          BY <2>3, AppendKeeps
        <4> QED
          BY <3>1, <4>1
      <3>3. r.year = p.year /\ r.appropriation = first /\ r.opening = 0
        BY <2>6
      <3> HIDE DEF r, a, o, p, first
      <3>4. CloseIsWhole'
        BY <2>1, <2>4, <3>2, <3>3 DEF IInv, CloseIsWhole, first
      <3> QED
        BY <2>2, <3>2, <3>4 DEF IInv, IsSequence
    <2>7. CASE ~ p.traded /\ Carries(p)
      <3>1. journal' = Append(journal, o)
        <4>1. ClosingEntries(p) = <<o>>
          BY <2>7, ClosingEntriesAre
        <4> HIDE DEF a, o
        <4>2. journal \o <<o>> = Append(journal, o)
          BY <2>3, ConcatAppends
        <4> QED
          BY <2>1, <4>1, <4>2
      <3>2. /\ journal' \in Seq(S \union {o})
            /\ Len(journal) \in Nat
            /\ DOMAIN journal = 1 .. Len(journal)
            /\ DOMAIN journal' = 1 .. first
            /\ \A i \in DOMAIN journal : journal'[i] = journal[i]
            /\ journal'[first] = o
        <4> HIDE DEF o
        <4>1. /\ Append(journal, o) \in Seq(S \union {o})
              /\ Len(journal) \in Nat
              /\ DOMAIN journal = 1 .. Len(journal)
              /\ DOMAIN Append(journal, o) = 1 .. (Len(journal) + 1)
              /\ \A i \in DOMAIN journal : Append(journal, o)[i] = journal[i]
              /\ Append(journal, o)[Len(journal) + 1] = o
          BY <2>3, AppendKeeps
        <4> QED
          BY <3>1, <4>1
      <3>3. r.year = p.year /\ r.appropriation = 0 /\ r.opening = first
        BY <2>7
      <3> HIDE DEF r, a, o, p, first
      <3>4. CloseIsWhole'
        BY <2>1, <2>4, <3>2, <3>3 DEF IInv, CloseIsWhole, first
      <3> QED
        BY <2>2, <3>2, <3>4 DEF IInv, IsSequence
    <2>8. CASE p.traded /\ Carries(p)
      <3> DEFINE half == Append(journal, a)
      <3>1. journal' = Append(half, o)
        <4>1. ClosingEntries(p) = <<a, o>>
          BY <2>8, ClosingEntriesAre
        <4> HIDE DEF a, o
        <4>2. journal \o <<a, o>> = Append(Append(journal, a), o)
          BY <2>3, ConcatAppends
        <4> QED
          BY <2>1, <4>1, <4>2
      <3>2. /\ half \in Seq(S \union {a})
            /\ Len(journal) \in Nat
            /\ DOMAIN journal = 1 .. Len(journal)
            /\ DOMAIN half = 1 .. first
            /\ \A i \in DOMAIN journal : half[i] = journal[i]
            /\ half[first] = a
        <4> HIDE DEF a
        <4>1. /\ Append(journal, a) \in Seq(S \union {a})
              /\ Len(journal) \in Nat
              /\ DOMAIN journal = 1 .. Len(journal)
              /\ DOMAIN Append(journal, a) = 1 .. (Len(journal) + 1)
              /\ \A i \in DOMAIN journal : Append(journal, a)[i] = journal[i]
              /\ Append(journal, a)[Len(journal) + 1] = a
          BY <2>3, AppendKeeps
        <4> QED
          BY <4>1
      <3> HIDE DEF half
      <3>4. Len(half) = first
        <4>1. DOMAIN half = 1 .. Len(half) /\ Len(half) \in Nat
          BY <3>2, LenProperties
        <4> QED
          BY <3>2, <4>1
      <3>5. /\ journal' \in Seq((S \union {a}) \union {o})
            /\ DOMAIN journal' = 1 .. (first + 1)
            /\ \A i \in DOMAIN half : journal'[i] = half[i]
            /\ journal'[first + 1] = o
        <4> HIDE DEF a, o
        <4>1. /\ Append(half, o) \in Seq((S \union {a}) \union {o})
              /\ DOMAIN Append(half, o) = 1 .. (Len(half) + 1)
              /\ \A i \in DOMAIN half : Append(half, o)[i] = half[i]
              /\ Append(half, o)[Len(half) + 1] = o
          BY <3>2, AppendKeeps
        <4> QED
          BY <3>1, <3>4, <4>1
      <3>6. /\ \A i \in DOMAIN journal : journal'[i] = journal[i]
            /\ journal'[first] = a
        BY <3>2, <3>5
      <3>7. r.year = p.year /\ r.appropriation = first /\ r.opening = first + 1
        BY <2>8
      <3> HIDE DEF r, a, o, p, first
      <3>8. CloseIsWhole'
        BY <2>1, <2>4, <3>2, <3>5, <3>6, <3>7 DEF IInv, CloseIsWhole, first
      <3> QED
        BY <2>2, <3>5, <3>8 DEF IInv, IsSequence
    <2> QED
      BY <2>5, <2>6, <2>7, <2>8
  <1> QED
    BY <1>1, <1>2

\* Every step keeps the invariant.
LEMMA StepIInv == IInv /\ [Next]_vars => IInv'
  <1> SUFFICES ASSUME IInv, [Next]_vars PROVE IInv'
    OBVIOUS
  <1>1. ASSUME NEW c \in Closers, NEW year \in Years,
               NEW carryForward \in BOOLEAN, NEW dryRun \in BOOLEAN,
               BeginClose(c, year, carryForward, dryRun)
        PROVE  IInv'
    BY <1>1, QuietIInv DEF BeginClose, End
  <1>2. ASSUME NEW c \in Closers, PostAppropriation(c) PROVE IInv'
    BY <1>2, QuietIInv DEF PostAppropriation, End
  <1>3. ASSUME NEW c \in Closers, PostOpening(c) PROVE IInv'
    BY <1>3, QuietIInv DEF PostOpening, End
  <1>4. ASSUME NEW c \in Closers, RecordYearClose(c) PROVE IInv'
    BY <1>4, RecordIInv
  <1>5. ASSUME NEW c \in Closers, Rollback(c) PROVE IInv'
    BY <1>5, QuietIInv DEF Rollback, End
  <1>6. ASSUME NEW year \in Years, NEW amounts \in Postings, PostEntry(year, amounts)
        PROVE  IInv'
    <2> DEFINE e == Entry(year, "ordinary", 0, amounts)
    <2>1. e.kind \notin ClosingKinds
      BY DEF Entry, ClosingKinds
    <2> QED
      BY <1>6, <2>1, OrdinaryIInv DEF PostEntry
  <1>7. ASSUME NEW year \in Years, NEW i \in DOMAIN journal, ReverseEntry(i, year)
        PROVE  IInv'
    <2> DEFINE e == Entry(year, "reversal", i, [a \in Accounts |-> - journal[i].amounts[a]])
    <2>1. e.kind \notin ClosingKinds
      BY DEF Entry, ClosingKinds
    <2> QED
      BY <1>7, <2>1, OrdinaryIInv DEF ReverseEntry
  <1>8. ASSUME NEW year \in Years, HardClose(year) PROVE IInv'
    BY <1>8, QuietIInv DEF HardClose
  <1>9. CASE AllAnswered \/ UNCHANGED vars
    BY <1>9, QuietIInv DEF AllAnswered, vars
  <1> QED
    BY <1>1, <1>2, <1>3, <1>4, <1>5, <1>6, <1>7, <1>8, <1>9 DEF Next

\* The invariant holds of every behaviour.
THEOREM YearCloseInvariant == Spec => []IInv
  <1>1. Init => IInv
    BY InitIInv
  <1>2. IInv /\ [Next]_vars => IInv'
    BY StepIInv
  <1> QED
    BY <1>1, <1>2, PTL DEF Spec

\* Two closes of a year that both found it open do not both close it.
THEOREM YearIsClosedOnce == Spec => []ClosedOnce
  <1>1. IInv => ClosedOnce
    BY DEF IInv
  <1> QED
    BY <1>1, YearCloseInvariant, PTL

\* An appropriation or an opening balance is in the journal exactly when the
\* record of its close names it: there is no half a close.
THEOREM ClosesAreWhole == Spec => []CloseIsWhole
  <1>1. IInv => CloseIsWhole
    BY DEF IInv
  <1> QED
    BY <1>1, YearCloseInvariant, PTL
-----------------------------------------------------------------------------
(* What the entries add up to.  A journal is an argument here, so that the one    *)
(* after a step can be compared with the one before.                              *)

Entries == [year : Years, kind : Kinds, of : Nat, amounts : Amounts]

PositionsIn(j, year) == {i \in DOMAIN j : j[i].year = year}
PositionsBefore(j, year) == {i \in DOMAIN j : j[i].year < year}

SumAt(j, positions, a) == SumFunctionOnSet([i \in positions |-> j[i].amounts[a]], positions)

LEMMA BalancesAreSums ==
    /\ \A year, a : Movement(year, a) = SumAt(journal, PositionsIn(journal, year), a)
    /\ \A year, a : OpeningBalance(year, a) = SumAt(journal, PositionsBefore(journal, year), a)
  BY DEF Movement, OpeningBalance, SumOver, SumAt, PositionsIn, PositionsBefore

LEMMA PositionsAreFinite ==
    ASSUME NEW S, NEW j \in Seq(S), NEW P \in SUBSET DOMAIN j
    PROVE  IsFiniteSet(P)
  <1>1. IsFiniteSet(1 .. Len(j)) /\ DOMAIN j = 1 .. Len(j)
    BY LenProperties, FS_Interval
  <1> QED
    BY <1>1, FS_Subset

LEMMA AmountIsInt ==
    ASSUME NEW j \in Seq(Entries), NEW i \in DOMAIN j, NEW a \in Accounts
    PROVE  j[i] \in Entries /\ j[i].amounts[a] \in Int
  <1>1. j[i] \in Entries
    BY LenProperties, ElementOfSeq
  <1> QED
    BY <1>1 DEF Entries, Amounts

LEMMA SumAtIsInt ==
    ASSUME NEW j \in Seq(Entries), NEW P \in SUBSET DOMAIN j, NEW a \in Accounts
    PROVE  SumAt(j, P, a) \in Int
  <1> DEFINE f == [i \in P |-> j[i].amounts[a]]
  <1>1. \A i \in P : f[i] \in Int
    BY AmountIsInt
  <1>2. IsFiniteSet(P)
    BY PositionsAreFinite
  <1> HIDE DEF f
  <1>3. SumFunctionOnSet(f, P) \in Int
    BY <1>1, <1>2, SumIsInt
  <1> QED
    BY <1>3 DEF SumAt, f

\* One entry more changes the sums it is part of.
LEMMA SumAtAppend ==
    ASSUME NEW j \in Seq(Entries), NEW e \in Entries, NEW P \in SUBSET DOMAIN j, NEW a \in Accounts
    PROVE  /\ SumAt(Append(j, e), P, a) = SumAt(j, P, a)
           /\ SumAt(Append(j, e), P \union {Len(j) + 1}, a) = SumAt(j, P, a) + e.amounts[a]
  <1> DEFINE n == Len(j) + 1
             k == Append(j, e)
             f == [i \in P |-> j[i].amounts[a]]
             g == [i \in P \union {n} |-> k[i].amounts[a]]
             h == [i \in P |-> k[i].amounts[a]]
  <1>1. /\ n \notin P /\ IsFiniteSet(P)
        /\ \A i \in P : k[i] = j[i]
        /\ k[n] = e
    BY AppendKeeps, PositionsAreFinite
  <1>2. \A i \in P : f[i] \in Int
    BY AmountIsInt
  <1>3. \A i \in P : h[i] = f[i] /\ g[i] = f[i]
    BY <1>1
  <1>4. g[n] = e.amounts[a] /\ g[n] \in Int
    BY <1>1 DEF Entries, Amounts
  <1> HIDE DEF f, g, h, n, k
  <1>5. SumFunctionOnSet(h, P) = SumFunctionOnSet(f, P)
    BY <1>1, <1>3, SumOfEqual
  <1>6. SumFunctionOnSet(g, P) = SumFunctionOnSet(f, P) /\ SumFunctionOnSet(f, P) \in Int
    BY <1>1, <1>2, <1>3, SumOfEqual, SumIsInt
  <1>7. SumFunctionOnSet(g, P \union {n}) = g[n] + SumFunctionOnSet(g, P)
    BY <1>1, <1>2, <1>3, <1>4, SumWith
  <1>8. SumFunctionOnSet(g, P \union {n}) = SumFunctionOnSet(f, P) + e.amounts[a]
    BY <1>4, <1>6, <1>7
  <1> QED
    BY <1>5, <1>8 DEF SumAt, f, g, h, n, k

\* What an entry does to the balances of a year.
LEMMA BalancesAfterAppend ==
    ASSUME NEW j \in Seq(Entries), NEW e \in Entries, NEW year \in Years, NEW a \in Accounts
    PROVE  LET k == Append(j, e)
           IN  /\ SumAt(k, PositionsIn(k, year), a) =
                    SumAt(j, PositionsIn(j, year), a) + IF e.year = year THEN e.amounts[a] ELSE 0
               /\ SumAt(k, PositionsBefore(k, year), a) =
                    SumAt(j, PositionsBefore(j, year), a) + IF e.year < year THEN e.amounts[a] ELSE 0
  <1> DEFINE k == Append(j, e)
             n == Len(j) + 1
  <1>1. /\ DOMAIN k = DOMAIN j \union {n}
        /\ \A i \in DOMAIN j : k[i] = j[i]
        /\ k[n] = e /\ n \notin DOMAIN j
    BY AppendKeeps
  <1>2. e.year \in Int /\ year \in Int
    BY YearCloseConstants DEF Entries, Years
  <1>3. PositionsIn(k, year) = IF e.year = year THEN PositionsIn(j, year) \union {n}
                                                ELSE PositionsIn(j, year)
    BY <1>1 DEF PositionsIn
  <1>4. PositionsBefore(k, year) = IF e.year < year THEN PositionsBefore(j, year) \union {n}
                                                    ELSE PositionsBefore(j, year)
    BY <1>1 DEF PositionsBefore
  <1>5. PositionsIn(j, year) \in SUBSET DOMAIN j /\ PositionsBefore(j, year) \in SUBSET DOMAIN j
    BY DEF PositionsIn, PositionsBefore
  <1>6. /\ SumAt(j, PositionsIn(j, year), a) \in Int
        /\ SumAt(j, PositionsBefore(j, year), a) \in Int
    BY <1>5, SumAtIsInt
  <1>7. ASSUME NEW P \in SUBSET DOMAIN j
        PROVE  /\ SumAt(k, P, a) = SumAt(j, P, a)
               /\ SumAt(k, P \union {n}, a) = SumAt(j, P, a) + e.amounts[a]
    BY SumAtAppend
  <1> HIDE DEF k, n
  <1>8. SumAt(k, PositionsIn(k, year), a) =
            SumAt(j, PositionsIn(j, year), a) + IF e.year = year THEN e.amounts[a] ELSE 0
    <2>1. CASE e.year = year
      BY <1>3, <1>5, <1>7, <2>1
    <2>2. CASE e.year # year
      <3>1. PositionsIn(k, year) = PositionsIn(j, year)
        BY <1>3, <2>2
      <3>2. SumAt(k, PositionsIn(j, year), a) = SumAt(j, PositionsIn(j, year), a)
        BY <1>5, <1>7
      <3> QED
        BY <1>6, <2>2, <3>1, <3>2
    <2> QED
      BY <2>1, <2>2
  <1>9. SumAt(k, PositionsBefore(k, year), a) =
            SumAt(j, PositionsBefore(j, year), a) + IF e.year < year THEN e.amounts[a] ELSE 0
    <2>1. CASE e.year < year
      BY <1>4, <1>5, <1>7, <2>1
    <2>2. CASE ~ (e.year < year)
      <3>1. PositionsBefore(k, year) = PositionsBefore(j, year)
        BY <1>4, <2>2
      <3>2. SumAt(k, PositionsBefore(j, year), a) = SumAt(j, PositionsBefore(j, year), a)
        BY <1>5, <1>7
      <3> QED
        BY <1>6, <2>2, <3>1, <3>2
    <2> QED
      BY <2>1, <2>2
  <1> QED
    BY <1>8, <1>9 DEF k

\* Entries that balance add up to a balance sheet that does.
LEMMA BalancedEntriesBalance ==
    ASSUME NEW j \in Seq(Entries), NEW P \in SUBSET DOMAIN j,
           \A i \in P : Total(j[i].amounts) = 0
    PROVE  Total([a \in Accounts |-> SumAt(j, P, a)]) = 0
  <1> DEFINE Sums(s) == [a \in Accounts |-> SumAt(j, s, a)]
             Good == {s \in SUBSET P : Total(Sums(s)) = 0}
  <1>1. IsFiniteSet(P) /\ IsFiniteSet(Accounts)
    BY PositionsAreFinite, YearCloseConstants
  <1>2. {} \in Good
    <2>1. \A a \in Accounts : Sums({})[a] = 0
      BY SumOfNone DEF SumAt
    <2>2. Total(Sums({})) = 0
      <3> HIDE DEF Sums
      <3> QED
        BY <1>1, <2>1, SumOfZeros, SumOfNone DEF Total
    <2> QED
      BY <2>2
  <1>3. ASSUME NEW s \in SUBSET P, NEW i \in P \ s, s \in Good PROVE s \union {i} \in Good
    <2> DEFINE f == Sums(s)
               g == j[i].amounts
               h == Sums(s \union {i})
    <2>1. ASSUME NEW a \in Accounts
          PROVE  f[a] \in Int /\ g[a] \in Int /\ h[a] = f[a] + g[a]
      <3> DEFINE v == [x \in s \union {i} |-> j[x].amounts[a]]
                 w == [x \in s |-> j[x].amounts[a]]
      <3>1. \A x \in s \union {i} : v[x] \in Int
        BY AmountIsInt
      <3>2. \A x \in s : v[x] = w[x]
        OBVIOUS
      <3>3. IsFiniteSet(s)
        BY <1>1, FS_Subset
      <3>4. v[i] = g[a]
        OBVIOUS
      <3>5. f[a] = SumFunctionOnSet(w, s) /\ h[a] = SumFunctionOnSet(v, s \union {i})
        BY DEF SumAt
      <3> HIDE DEF v, w, f, g, h
      <3>6. SumFunctionOnSet(v, s \union {i}) = v[i] + SumFunctionOnSet(v, s)
        BY <3>1, <3>3, SumWith
      <3>7. SumFunctionOnSet(v, s) = SumFunctionOnSet(w, s) /\ SumFunctionOnSet(v, s) \in Int
        BY <3>1, <3>2, <3>3, SumOfEqual, SumIsInt
      <3> QED
        BY <3>1, <3>4, <3>5, <3>6, <3>7
    <2>2. Total(f) = 0 /\ Total(g) = 0
      BY <1>3
    <2> HIDE DEF f, g, h
    <2>3. Total(h) = Total(f) + Total(g)
      BY <1>1, <2>1, SumOfSum DEF Total
    <2>4. Total(h) = 0
      BY <2>2, <2>3
    <2> QED
      BY <2>4 DEF h
  <1>4. P \in Good
    <2> HIDE DEF Good
    <2> QED
      BY <1>1, <1>2, <1>3, FiniteInduction
  <1> QED
    BY <1>4

-----------------------------------------------------------------------------
(* What a close plans balances, and is what it inserts as long as the journal is *)
(* what it was when the close read it.                                           *)

Plans == [year : Years, traded : BOOLEAN, appropriation : Amounts,
          carryForward : BOOLEAN, opening : Amounts, seen : Nat]

Balanced(j) == \A i \in DOMAIN j : Total(j[i].amounts) = 0

UnderWay == {"planned", "appropriated", "carried"}

\* A close under way has a plan that its year allows and that balances.
PlanIsSound(c) ==
    /\ plan[c] \in Plans
    /\ plan[c].carryForward => HasNextYear(plan[c].year)
    /\ Total(plan[c].appropriation) = 0
    /\ pc[c] = "carried" /\ Carries(plan[c]) => Balances(plan[c].opening)

\* The plan is that of the journal as it is, unless the journal has grown.
PlanIsCurrent(c) ==
    /\ plan[c].seen <= Len(journal)
    /\ plan[c].seen = Len(journal) =>
        /\ plan[c].traded = Traded(plan[c].year)
        /\ plan[c].appropriation = Appropriation(plan[c].year)
        /\ plan[c].opening = Beginbalans(plan[c].year)

PlansHold == \A c \in Closers : pc[c] \in UnderWay => PlanIsSound(c) /\ PlanIsCurrent(c)

YearInv == IInv /\ TypeOK /\ Balanced(journal) /\ PlansHold

LEMMA BalancesAreInt ==
    ASSUME TypeOK, NEW year \in Years, NEW a \in Accounts
    PROVE  /\ Movement(year, a) \in Int
           /\ OpeningBalance(year, a) \in Int
           /\ ClosingBalance(year, a) \in Int
  <1>1. journal \in Seq(Entries)
    BY DEF TypeOK, Entries
  <1>2. /\ PositionsIn(journal, year) \in SUBSET DOMAIN journal
        /\ PositionsBefore(journal, year) \in SUBSET DOMAIN journal
    BY DEF PositionsIn, PositionsBefore
  <1>3. Movement(year, a) \in Int /\ OpeningBalance(year, a) \in Int
    BY <1>1, <1>2, SumAtIsInt, BalancesAreSums
  <1> QED
    BY <1>3 DEF ClosingBalance

\* The appropriation of a year balances, whatever was posted in it.
LEMMA AppropriationBalances ==
    ASSUME TypeOK, NEW year \in Years
    PROVE  /\ YearResult(year) \in Int
           /\ Appropriation(year) \in Amounts
           /\ Total(Appropriation(year)) = 0
           /\ Beginbalans(year) \in Amounts
  <1> DEFINE f == Appropriation(year)
             m == [a \in ProfitAndLoss |-> Movement(year, a)]
  <1>1. /\ IsFiniteSet(BalanceSheet) /\ IsFiniteSet(ProfitAndLoss)
        /\ Accounts = BalanceSheet \union ProfitAndLoss
        /\ BalanceSheet \intersect ProfitAndLoss = {}
        /\ Result \in BalanceSheet
    BY YearCloseConstants, FS_Subset DEF Accounts
  <1>2. \A a \in ProfitAndLoss : m[a] \in Int
    BY <1>1, BalancesAreInt
  <1>3. YearResult(year) = - SumFunctionOnSet(m, ProfitAndLoss)
    BY DEF YearResult
  <1>4. SumFunctionOnSet(m, ProfitAndLoss) \in Int
    <2> HIDE DEF m
    <2> QED
      BY <1>1, <1>2, SumIsInt
  <1>5. YearResult(year) \in Int
    BY <1>3, <1>4
  <1>6. /\ \A a \in ProfitAndLoss : f[a] = - m[a]
        /\ f[Result] = - YearResult(year)
        /\ \A a \in BalanceSheet \ {Result} : f[a] = 0
    BY <1>1 DEF Appropriation
  <1>7. f \in Amounts
    <2>1. \A a \in Accounts : f[a] \in Int
      BY <1>1, <1>2, <1>5, <1>6
    <2> QED
      BY <2>1 DEF Appropriation, Amounts
  <1>8. Beginbalans(year) \in Amounts
    <2>1. \A a \in Accounts : ClosingBalance(year, a) \in Int
      BY BalancesAreInt
    <2> QED
      BY <1>5, <2>1 DEF Beginbalans, Amounts
  <1>9. Total(f) = 0
    <2>1. \A a \in Accounts : f[a] \in Int
      BY <1>7 DEF Amounts
    <2> HIDE DEF f, m
    <2>2. SumFunctionOnSet(f, ProfitAndLoss) = - SumFunctionOnSet(m, ProfitAndLoss)
      BY <1>1, <1>2, <1>6, SumOfOpposites
    <2>3. SumFunctionOnSet(f, BalanceSheet) = SumFunctionOnSet(f, {Result})
      BY <1>1, <1>6, <2>1, SumOfZeros
    <2>4. SumFunctionOnSet(f, {Result}) = - YearResult(year)
      BY <1>1, <1>6, <2>1, SumOfOne
    <2>5. Total(f) = SumFunctionOnSet(f, BalanceSheet) + SumFunctionOnSet(f, ProfitAndLoss)
      BY <1>1, <2>1, SumOfUnion DEF Total
    <2> QED
      BY <1>3, <1>4, <2>2, <2>3, <2>4, <2>5
  <1> QED
    BY <1>5, <1>7, <1>8, <1>9

LEMMA AppendIsBalanced ==
    ASSUME NEW j \in Seq(Entries), Balanced(j), NEW e \in Entries, Total(e.amounts) = 0
    PROVE  /\ Append(j, e) \in Seq(Entries)
           /\ Len(Append(j, e)) = Len(j) + 1 /\ Len(j) \in Nat
           /\ Balanced(Append(j, e))
  <1>1. /\ Append(j, e) \in Seq(Entries)
        /\ Len(Append(j, e)) = Len(j) + 1 /\ Len(j) \in Nat
    BY AppendProperties, LenProperties
  <1> QED
    BY <1>1, AppendKeeps DEF Balanced

\* What a recorded close appends to the journal.
LEMMA RecordAppends ==
    ASSUME YearInv, NEW c \in Closers, RecordYearClose(c), OneOpenClose(plan[c].year)
    PROVE  LET p == plan[c]
               a == Entry(p.year, "appropriation", p.year, p.appropriation)
               o == Entry(p.year + 1, "opening", p.year, p.opening)
           IN  /\ p \in Plans /\ PlanIsSound(c) /\ PlanIsCurrent(c)
               /\ a \in Entries /\ Total(a.amounts) = 0
               /\ Carries(p) => o \in Entries /\ Total(o.amounts) = 0
               /\ ~ p.traded /\ ~ Carries(p) => journal' = journal
               /\ p.traded /\ ~ Carries(p) => journal' = Append(journal, a)
               /\ ~ p.traded /\ Carries(p) => journal' = Append(journal, o)
               /\ p.traded /\ Carries(p) => journal' = Append(Append(journal, a), o)
  <1> DEFINE p == plan[c]
             a == Entry(p.year, "appropriation", p.year, p.appropriation)
             o == Entry(p.year + 1, "opening", p.year, p.opening)
  <1>1. p \in Plans /\ pc[c] = "carried" /\ PlanIsSound(c) /\ PlanIsCurrent(c)
    BY DEF YearInv, PlansHold, UnderWay, PlanIsSound, RecordYearClose
  <1>2. p.year \in Years /\ p.year \in Nat
    BY <1>1, YearCloseConstants DEF Plans, Years
  <1>3. a \in Entries /\ Total(a.amounts) = 0
    BY <1>1, <1>2 DEF Plans, Entries, Entry, Kinds, PlanIsSound
  <1>4. ASSUME Carries(p) PROVE o \in Entries /\ Total(o.amounts) = 0
    <2>1. p.year + 1 \in Years
      BY <1>1, <1>2, <1>4, YearCloseConstants DEF PlanIsSound, Carries, HasNextYear, Years
    <2> QED
      BY <1>1, <1>2, <1>4, <2>1 DEF Plans, Entries, Entry, Kinds, PlanIsSound, Balances
  <1>5. journal' = journal \o ClosingEntries(p)
    BY DEF RecordYearClose
  <1>6. journal \in Seq(Entries)
    BY DEF YearInv, TypeOK, Entries
  <1>7. /\ p.traded /\ Carries(p) => ClosingEntries(p) = <<a, o>>
        /\ p.traded /\ ~ Carries(p) => ClosingEntries(p) = <<a>>
        /\ ~ p.traded /\ Carries(p) => ClosingEntries(p) = <<o>>
        /\ ~ p.traded /\ ~ Carries(p) => ClosingEntries(p) = << >>
    BY ClosingEntriesAre
  <1> HIDE DEF a, o, p
  <1>8. /\ journal \o << >> = journal
        /\ journal \o <<a>> = Append(journal, a)
        /\ journal \o <<o>> = Append(journal, o)
        /\ journal \o <<a, o>> = Append(Append(journal, a), o)
    BY <1>6, ConcatAppends
  <1>9. /\ ~ p.traded /\ ~ Carries(p) => journal' = journal
        /\ p.traded /\ ~ Carries(p) => journal' = Append(journal, a)
        /\ ~ p.traded /\ Carries(p) => journal' = Append(journal, o)
        /\ p.traded /\ Carries(p) => journal' = Append(Append(journal, a), o)
    BY <1>5, <1>7, <1>8
  <1> QED
    BY <1>1, <1>3, <1>4, <1>9 DEF a, o, p

\* The balances of a year are those of the journal, and nothing else's.
LEMMA BalancesAreKept ==
    ASSUME journal' = journal
    PROVE  \A y : /\ Traded(y)' = Traded(y)
                  /\ Appropriation(y)' = Appropriation(y)
                  /\ Beginbalans(y)' = Beginbalans(y)
  <1>1. \A y, a : Movement(y, a)' = Movement(y, a)
    BY DEF Movement, SumOver
  <1>2. \A y, a : OpeningBalance(y, a)' = OpeningBalance(y, a)
    BY DEF OpeningBalance, SumOver
  <1>3. \A y, a : ClosingBalance(y, a)' = ClosingBalance(y, a)
    BY <1>1, <1>2 DEF ClosingBalance
  <1>4. \A y : YearResult(y)' = YearResult(y)
    BY <1>1 DEF YearResult
  <1>5. \A y : Traded(y)' = Traded(y)
    BY <1>1 DEF Traded
  <1>6. \A y : Appropriation(y)' = Appropriation(y)
    BY <1>1, <1>4 DEF Appropriation
  <1>7. \A y : Beginbalans(y)' = Beginbalans(y)
    BY <1>3, <1>4 DEF Beginbalans
  <1> QED
    BY <1>5, <1>6, <1>7

\* A plan is as good as it was while nobody touches it, its request or the journal.
LEMMA PlanIsKept ==
    ASSUME journal' = journal, NEW d \in Closers, plan'[d] = plan[d], pc'[d] = pc[d],
           PlanIsSound(d), PlanIsCurrent(d)
    PROVE  PlanIsSound(d)' /\ PlanIsCurrent(d)'
  <1>1. PlanIsSound(d)'
    BY DEF PlanIsSound, Balances, Total, Carries, HasLines, HasNextYear
  <1>2. PlanIsCurrent(d)'
    BY BalancesAreKept DEF PlanIsCurrent
  <1> QED
    BY <1>1, <1>2

\* Nothing happens to the plans or to the journal.
LEMMA StillHolds ==
    ASSUME YearInv, UNCHANGED <<journal, pc, plan>>
    PROVE  Balanced(journal)' /\ PlansHold'
  <1>1. ASSUME NEW d \in Closers, pc'[d] \in UnderWay PROVE PlanIsSound(d)' /\ PlanIsCurrent(d)'
    <2>1. PlanIsSound(d) /\ PlanIsCurrent(d)
      BY <1>1 DEF YearInv, PlansHold
    <2> QED
      BY <2>1, PlanIsKept
  <1> QED
    BY <1>1 DEF YearInv, Balanced, PlansHold

\* A request that ends leaves no plan behind.
LEMMA EndHolds ==
    ASSUME YearInv, NEW c \in Closers, NEW how \in Ended, End(c, how)
    PROVE  TypeOK' /\ Balanced(journal)' /\ PlansHold'
  <1>1. /\ UNCHANGED <<journal, closes, hardClosed>>
        /\ pc'[c] = how
        /\ \A d \in Closers \ {c} : pc'[d] = pc[d] /\ plan'[d] = plan[d]
    BY DEF YearInv, TypeOK, End, Goto
  <1>2. TypeOK'
    BY DEF YearInv, TypeOK, End, Goto
  <1>3. Balanced(journal)'
    BY <1>1 DEF YearInv, Balanced
  <1>4. ASSUME NEW d \in Closers, pc'[d] \in UnderWay PROVE PlanIsSound(d)' /\ PlanIsCurrent(d)'
    <2>1. d # c
      BY <1>1, <1>4 DEF UnderWay, Ended
    <2>2. PlanIsSound(d) /\ PlanIsCurrent(d)
      BY <1>1, <1>4, <2>1 DEF YearInv, PlansHold
    <2> QED
      BY <1>1, <2>1, <2>2, PlanIsKept
  <1> QED
    BY <1>2, <1>3, <1>4 DEF PlansHold

\* A close that goes on with its plan.
LEMMA MoveHolds ==
    ASSUME YearInv, NEW c \in Closers, pc[c] \in UnderWay,
           NEW where \in {"appropriated", "carried"}, Goto(c, where),
           UNCHANGED <<journal, closes, hardClosed, plan>>,
           chainLock' \in {chainLock, c},
           where = "carried" /\ Carries(plan[c]) => Balances(plan[c].opening)
    PROVE  TypeOK' /\ Balanced(journal)' /\ PlansHold'
  <1>1. pc'[c] = where /\ \A d \in Closers \ {c} : pc'[d] = pc[d]
    BY DEF YearInv, TypeOK, Goto
  <1>2. TypeOK'
    BY DEF YearInv, TypeOK, Goto
  <1>3. Balanced(journal)'
    BY DEF YearInv, Balanced
  <1>4. ASSUME NEW d \in Closers, pc'[d] \in UnderWay PROVE PlanIsSound(d)' /\ PlanIsCurrent(d)'
    <2>1. CASE d # c
      <3>1. PlanIsSound(d) /\ PlanIsCurrent(d)
        BY <1>1, <1>4, <2>1 DEF YearInv, PlansHold
      <3> QED
        BY <1>1, <2>1, <3>1, PlanIsKept
    <2>2. CASE d = c
      <3>1. PlanIsSound(c) /\ PlanIsCurrent(c)
        BY DEF YearInv, PlansHold
      <3>2. PlanIsSound(c)'
        BY <1>1, <3>1 DEF PlanIsSound, Balances, Total, Carries, HasLines, HasNextYear
      <3>3. PlanIsCurrent(c)'
        BY <3>1, BalancesAreKept DEF PlanIsCurrent
      <3> QED
        BY <2>2, <3>2, <3>3
    <2> QED
      BY <2>1, <2>2
  <1> QED
    BY <1>2, <1>3, <1>4 DEF PlansHold

LEMMA BeginHolds ==
    ASSUME YearInv, NEW c \in Closers, NEW year \in Years,
           NEW carryForward \in BOOLEAN, NEW dryRun \in BOOLEAN,
           BeginClose(c, year, carryForward, dryRun)
    PROVE  TypeOK' /\ Balanced(journal)' /\ PlansHold'
  <1> DEFINE p == [year |-> year, traded |-> Traded(year), appropriation |-> Appropriation(year),
                   carryForward |-> carryForward, opening |-> Beginbalans(year),
                   seen |-> Len(journal)]
  <1>1. CASE End(c, "refused") \/ End(c, "previewed")
    BY <1>1, EndHolds DEF Ended
  <1>2. CASE /\ carryForward => HasNextYear(year)
             /\ plan' = [plan EXCEPT ![c] = p]
             /\ Goto(c, "planned")
             /\ UNCHANGED <<journal, closes, hardClosed, chainLock>>
    <2>1. TypeOK /\ Len(journal) \in Nat
      BY LenProperties DEF YearInv, TypeOK
    <2>2. Traded(year) \in BOOLEAN
      BY DEF Traded
    <2>3. p \in Plans
      BY <2>1, <2>2, AppropriationBalances DEF Plans
    <2>4. /\ pc'[c] = "planned" /\ plan'[c] = p
          /\ \A d \in Closers \ {c} : pc'[d] = pc[d] /\ plan'[d] = plan[d]
      BY <1>2, <2>1 DEF TypeOK, Goto
    <2>5. TypeOK'
      BY <1>2, <2>1, <2>3 DEF TypeOK, Goto, Plans
    <2>6. Balanced(journal)'
      BY <1>2 DEF YearInv, Balanced
    <2>7. ASSUME NEW d \in Closers, pc'[d] \in UnderWay
          PROVE  PlanIsSound(d)' /\ PlanIsCurrent(d)'
      <3>1. CASE d = c
        <4>1. PlanIsSound(c)'
          <5>1. Total(p.appropriation) = 0
            BY <2>1, AppropriationBalances
          <5> HIDE DEF p
          <5>2. (Total(plan[c].appropriation) = 0)'
            BY <2>4, <5>1 DEF Total
          <5>3. (plan[c].carryForward => HasNextYear(plan[c].year))'
            BY <1>2, <2>4 DEF HasNextYear, p
          <5> QED
            BY <2>3, <2>4, <5>2, <5>3 DEF PlanIsSound
        <4>2. PlanIsCurrent(c)'
          BY <1>2, <2>1, <2>4, BalancesAreKept DEF PlanIsCurrent
        <4> QED
          BY <3>1, <4>1, <4>2
      <3>2. CASE d # c
        <4>1. PlanIsSound(d) /\ PlanIsCurrent(d)
          BY <2>4, <2>7, <3>2 DEF YearInv, PlansHold
        <4> QED
          BY <1>2, <2>4, <3>2, <4>1, PlanIsKept
      <3> QED
        BY <3>1, <3>2
    <2> QED
      BY <2>5, <2>6, <2>7 DEF PlansHold
  <1> QED
    BY <1>1, <1>2 DEF BeginClose

\* The journal grows: what others have planned is no longer what it says.
LEMMA GrowthHolds ==
    ASSUME YearInv, NEW c, journal' \in Seq(Entries), Balanced(journal'),
           journal' = journal \/ Len(journal') > Len(journal), Len(journal') \in Nat,
           plan' = plan, \A d \in Closers \ {c} : pc'[d] = pc[d],
           c \in Closers => pc'[c] \notin UnderWay
    PROVE  Balanced(journal)' /\ PlansHold'
  <1>1. ASSUME NEW d \in Closers, pc'[d] \in UnderWay PROVE PlanIsSound(d)' /\ PlanIsCurrent(d)'
    <2>1. pc'[d] = pc[d] /\ PlanIsSound(d) /\ PlanIsCurrent(d)
      BY <1>1 DEF YearInv, PlansHold
    <2>2. PlanIsSound(d)'
      BY <2>1 DEF PlanIsSound, Balances, Total, Carries, HasLines, HasNextYear
    <2>3. CASE journal' = journal
      BY <2>1, <2>3, PlanIsKept
    <2>4. CASE Len(journal') > Len(journal)
      <3>1. plan[d].seen \in Nat /\ Len(journal) \in Nat
        BY <2>1, LenProperties DEF PlanIsSound, Plans, YearInv, TypeOK
      <3>2. plan'[d].seen < Len(journal')
        BY <2>1, <2>4, <3>1 DEF PlanIsCurrent
      <3> QED
        BY <2>2, <3>1, <3>2 DEF PlanIsCurrent
    <2> QED
      BY <2>2, <2>3, <2>4
  <1> QED
    BY <1>1 DEF PlansHold, Balanced

LEMMA PostHolds ==
    ASSUME YearInv, NEW e \in Entries, Total(e.amounts) = 0, journal' = Append(journal, e),
           UNCHANGED <<closes, hardClosed, chainLock, pc, plan>>
    PROVE  TypeOK' /\ Balanced(journal)' /\ PlansHold'
  <1>1. journal \in Seq(Entries) /\ Balanced(journal)
    BY DEF YearInv, TypeOK, Entries
  <1>2. /\ journal' \in Seq(Entries) /\ Balanced(journal')
        /\ Len(journal') = Len(journal) + 1 /\ Len(journal) \in Nat
    BY <1>1, AppendIsBalanced
  <1>3. TypeOK'
    BY <1>2 DEF YearInv, TypeOK, Entries
  <1>4. Len(journal') > Len(journal) /\ Len(journal') \in Nat
    BY <1>2
  <1> DEFINE nobody == CHOOSE x : x \notin Closers
  <1>5. nobody \notin Closers
    BY NoSetContainsEverything
  <1> HIDE DEF nobody
  <1> QED
    BY <1>2, <1>3, <1>4, <1>5, GrowthHolds

LEMMA RecordHolds ==
    ASSUME YearInv, NEW c \in Closers, RecordYearClose(c)
    PROVE  TypeOK' /\ Balanced(journal)' /\ PlansHold'
  <1>1. CASE ~ OneOpenClose(plan[c].year)
    BY <1>1, EndHolds DEF RecordYearClose, Ended
  <1>2. CASE OneOpenClose(plan[c].year)
    <2> DEFINE p == plan[c]
               a == Entry(p.year, "appropriation", p.year, p.appropriation)
               o == Entry(p.year + 1, "opening", p.year, p.opening)
    <2>1. /\ p \in Plans
          /\ a \in Entries /\ Total(a.amounts) = 0
          /\ Carries(p) => o \in Entries /\ Total(o.amounts) = 0
          /\ \/ journal' = journal
             \/ journal' = Append(journal, a)
             \/ Carries(p) /\ journal' = Append(journal, o)
             \/ Carries(p) /\ journal' = Append(Append(journal, a), o)
      BY <1>2, RecordAppends
    <2>2. journal \in Seq(Entries) /\ Balanced(journal) /\ Len(journal) \in Nat
      BY LenProperties DEF YearInv, TypeOK, Entries
    <2> HIDE DEF a, o
    <2>3. /\ journal' \in Seq(Entries) /\ Balanced(journal')
          /\ journal' = journal \/ Len(journal') > Len(journal)
          /\ Len(journal') \in Nat
      <3>1. ASSUME NEW j \in Seq(Entries), Balanced(j), NEW e \in Entries, Total(e.amounts) = 0
            PROVE  /\ Append(j, e) \in Seq(Entries) /\ Balanced(Append(j, e))
                   /\ Len(Append(j, e)) = Len(j) + 1 /\ Len(j) \in Nat
        BY <3>1, AppendIsBalanced
      <3> DEFINE half == Append(journal, a)
      <3>2. /\ half \in Seq(Entries) /\ Balanced(half)
            /\ Len(half) = Len(journal) + 1
        BY <2>1, <2>2, <3>1
      <3> HIDE DEF half
      <3>3. CASE journal' = journal
        BY <2>2, <3>3
      <3>4. CASE journal' = half
        BY <2>2, <3>2, <3>4
      <3>5. CASE Carries(p) /\ journal' = Append(journal, o)
        BY <2>1, <2>2, <3>1, <3>5
      <3>6. CASE Carries(p) /\ journal' = Append(half, o)
        <4>1. /\ journal' \in Seq(Entries) /\ Balanced(journal')
              /\ Len(journal') = Len(half) + 1
          BY <2>1, <3>1, <3>2, <3>6
        <4> QED
          BY <2>2, <3>2, <4>1
      <3> QED
        BY <2>1, <3>3, <3>4, <3>5, <3>6 DEF half
    <2>4. /\ plan' = plan /\ UNCHANGED hardClosed
          /\ Goto(c, "closed")
          /\ chainLock' \in {chainLock, Nobody}
          /\ closes' = closes \union
                    {[year          |-> p.year,
                      appropriation |-> IF p.traded THEN Len(journal) + 1 ELSE 0,
                      opening       |-> IF ~ Carries(p) THEN 0
                                        ELSE IF p.traded THEN Len(journal) + 1 + 1
                                        ELSE Len(journal) + 1]}
      BY <1>2 DEF RecordYearClose
    <2>5. TypeOK'
      <3>1. closes' \subseteq [year : Years, appropriation : Nat, opening : Nat]
        BY <2>1, <2>2, <2>4 DEF YearInv, TypeOK, Plans
      <3> QED
        BY <2>3, <2>4, <3>1 DEF YearInv, TypeOK, Entries, Goto, Ended
    <2>6. pc'[c] = "closed" /\ \A d \in Closers \ {c} : pc'[d] = pc[d]
      BY <2>4 DEF YearInv, TypeOK, Goto
    <2>7. Balanced(journal)' /\ PlansHold'
      BY <2>3, <2>4, <2>6, GrowthHolds DEF UnderWay
    <2> QED
      BY <2>5, <2>7
  <1> QED
    BY <1>1, <1>2

\* Every step keeps the types, the balance of the entries and the plans.
LEMMA StepYearInv == YearInv /\ [Next]_vars => YearInv'
  <1> SUFFICES ASSUME YearInv, [Next]_vars PROVE YearInv'
    OBVIOUS
  <1> DEFINE Holds == TypeOK' /\ Balanced(journal)' /\ PlansHold'
  <1>1. ASSUME NEW c \in Closers, NEW year \in Years,
               NEW carryForward \in BOOLEAN, NEW dryRun \in BOOLEAN,
               BeginClose(c, year, carryForward, dryRun)
        PROVE  Holds
    BY <1>1, BeginHolds
  <1>2. ASSUME NEW c \in Closers, PostAppropriation(c) PROVE Holds
    <2>1. CASE End(c, "failed")
      BY <2>1, EndHolds DEF Ended
    <2>2. CASE /\ Goto(c, "appropriated")
               /\ UNCHANGED <<journal, closes, hardClosed, plan>>
               /\ chainLock' \in {chainLock, c}
      <3>1. pc[c] \in UnderWay
        BY <1>2 DEF PostAppropriation, UnderWay
      <3> QED
        BY <2>2, <3>1, MoveHolds
    <2> QED
      BY <1>2, <2>1, <2>2 DEF PostAppropriation, TakeLock
  <1>3. ASSUME NEW c \in Closers, PostOpening(c) PROVE Holds
    <2>1. CASE End(c, "failed")
      BY <2>1, EndHolds DEF Ended
    <2>2. CASE /\ Goto(c, "carried")
               /\ UNCHANGED <<journal, closes, hardClosed, plan>>
               /\ chainLock' \in {chainLock, c}
               /\ Carries(plan[c]) => Balances(plan[c].opening)
      <3>1. pc[c] \in UnderWay
        BY <1>3 DEF PostOpening, UnderWay
      <3> QED
        BY <2>2, <3>1, MoveHolds
    <2> QED
      BY <1>3, <2>1, <2>2 DEF PostOpening, TakeLock
  <1>4. ASSUME NEW c \in Closers, RecordYearClose(c) PROVE Holds
    BY <1>4, RecordHolds
  <1>5. ASSUME NEW c \in Closers, Rollback(c) PROVE Holds
    BY <1>5, EndHolds DEF Rollback, Ended
  <1>6. ASSUME NEW year \in Years, NEW amounts \in Postings, PostEntry(year, amounts)
        PROVE  Holds
    <2> DEFINE e == Entry(year, "ordinary", 0, amounts)
    <2>1. e \in Entries /\ Total(e.amounts) = 0
      BY YearCloseConstants, PostingsBalance DEF Entry, Entries, Kinds
    <2> QED
      BY <1>6, <2>1, PostHolds DEF PostEntry
  <1>7. ASSUME NEW year \in Years, NEW i \in DOMAIN journal, ReverseEntry(i, year)
        PROVE  Holds
    <2> DEFINE f == journal[i].amounts
               g == [a \in Accounts |-> - journal[i].amounts[a]]
               e == Entry(year, "reversal", i, g)
    <2>1. journal \in Seq(Entries) /\ Total(f) = 0
      BY DEF YearInv, TypeOK, Entries, Balanced
    <2>2. \A a \in Accounts : f[a] \in Int /\ g[a] = - f[a]
      BY <2>1, AmountIsInt
    <2>3. g \in Amounts
      BY <2>2 DEF Amounts
    <2>4. Total(g) = - Total(f)
      <3> HIDE DEF f, g
      <3> QED
        BY <2>2, YearCloseConstants, SumOfOpposites DEF Total
    <2>5. i \in Nat
      BY <2>1, LenProperties
    <2>6. e \in Entries /\ Total(e.amounts) = 0
      <3> DEFINE before == Total(f)
                 after == Total(g)
      <3>1. after = 0
        <4>1. \A x, y \in Int : y = - x => x + y = 0
          OBVIOUS
        <4>2. before \in Int /\ after \in Int
          BY <2>2, YearCloseConstants, SumIsInt DEF Total
        <4>3. before = 0
          BY <2>1
        <4>4. after = - before
          BY <2>4
        <4> HIDE DEF before, after
        <4>5. before + after = 0
          BY <4>1, <4>2, <4>4
        <4> QED
          BY <4>2, <4>3, <4>5
      <3>2. e \in Entries /\ e.amounts = g
        BY <2>3, <2>5 DEF Entry, Entries, Kinds
      <3> QED
        BY <3>1, <3>2
    <2> QED
      BY <1>7, <2>6, PostHolds DEF ReverseEntry
  <1>8. ASSUME NEW year \in Years, HardClose(year) PROVE Holds
    <2>1. TypeOK'
      BY <1>8 DEF YearInv, TypeOK, HardClose
    <2>2. Balanced(journal)' /\ PlansHold'
      BY <1>8, StillHolds DEF HardClose
    <2> QED
      BY <2>1, <2>2
  <1>9. ASSUME AllAnswered \/ UNCHANGED vars PROVE Holds
    <2>1. TypeOK'
      BY <1>9 DEF YearInv, TypeOK, AllAnswered, vars
    <2>2. UNCHANGED <<journal, pc, plan>>
      BY <1>9 DEF AllAnswered, vars
    <2>3. Balanced(journal)' /\ PlansHold'
      BY <2>2, StillHolds
    <2> QED
      BY <2>1, <2>3
  <1>10. IInv'
    BY StepIInv DEF YearInv
  <1>11. Holds
    BY <1>1, <1>2, <1>3, <1>4, <1>5, <1>6, <1>7, <1>8, <1>9 DEF Next
  <1> QED
    BY <1>10, <1>11 DEF YearInv

LEMMA InitYearInv == Init => YearInv
  <1> SUFFICES ASSUME Init PROVE YearInv
    OBVIOUS
  <1>1. TypeOK
    BY YearCloseConstants DEF Init, TypeOK
  <1>2. Balanced(journal) /\ PlansHold
    BY DEF Init, Balanced, PlansHold, UnderWay
  <1> QED
    BY <1>1, <1>2, InitIInv DEF YearInv

\* A plan is current or overtaken, and every entry balances, in every behaviour.
THEOREM YearInvariant == Spec => []YearInv
  <1>1. Init => YearInv
    BY InitYearInv
  <1>2. YearInv /\ [Next]_vars => YearInv'
    BY StepYearInv
  <1> QED
    BY <1>1, <1>2, PTL DEF Spec

\* The variables keep their types.
THEOREM YearCloseTypes == Spec => []TypeOK
  <1>1. YearInv => TypeOK
    BY DEF YearInv
  <1> QED
    BY <1>1, YearInvariant, PTL

\* The balance sheet balances at the end of every year, whatever was posted,
\* reversed, appropriated and carried forward, and by whatever plans.
THEOREM BalanceSheetsBalance == Spec => []SheetsBalance
  <1>1. ASSUME YearInv, NEW year \in Years
        PROVE  Total([a \in Accounts |-> ClosingBalance(year, a)]) = 0
    <2> DEFINE o == [a \in Accounts |-> OpeningBalance(year, a)]
               m == [a \in Accounts |-> Movement(year, a)]
               s == [a \in Accounts |-> ClosingBalance(year, a)]
               before == PositionsBefore(journal, year)
               in == PositionsIn(journal, year)
    <2>1. \A a \in Accounts : o[a] \in Int /\ m[a] \in Int /\ s[a] = o[a] + m[a]
      BY <1>1, BalancesAreInt DEF YearInv, ClosingBalance
    <2>2. journal \in Seq(Entries) /\ Balanced(journal)
      BY <1>1 DEF YearInv, TypeOK, Entries
    <2>3. before \in SUBSET DOMAIN journal /\ in \in SUBSET DOMAIN journal
      BY DEF PositionsBefore, PositionsIn
    <2>4. o = [a \in Accounts |-> SumAt(journal, before, a)]
      BY BalancesAreSums
    <2>5. m = [a \in Accounts |-> SumAt(journal, in, a)]
      BY BalancesAreSums
    <2> HIDE DEF o, m, s, before, in
    <2>6. Total(o) = 0 /\ Total(m) = 0
      BY <2>2, <2>3, <2>4, <2>5, BalancedEntriesBalance DEF Balanced
    <2>7. Total(s) = Total(o) + Total(m)
      BY <2>1, YearCloseConstants, SumOfSum DEF Total
    <2>8. Total(s) = 0
      BY <2>6, <2>7
    <2> QED
      BY <2>8 DEF s
  <1>2. YearInv => SheetsBalance
    BY <1>1 DEF SheetsBalance
  <1> QED
    BY <1>2, YearInvariant, PTL

-----------------------------------------------------------------------------
(* What a close does to the balances of its year. *)

LEMMA NewBalancesAreSums ==
    \A year, a :
        /\ Movement(year, a)' = SumAt(journal', PositionsIn(journal', year), a)
        /\ OpeningBalance(year, a)' = SumAt(journal', PositionsBefore(journal', year), a)
  BY DEF Movement, OpeningBalance, SumOver, SumAt, PositionsIn, PositionsBefore

\* Only the appropriation is an entry of the year itself.
LEMMA BalancesAfterRecord ==
    ASSUME YearInv, NEW c \in Closers, RecordYearClose(c), OneOpenClose(plan[c].year),
           NEW b \in Accounts
    PROVE  LET p == plan[c]
           IN  /\ p.appropriation[b] \in Int
               /\ SumAt(journal', PositionsIn(journal', p.year), b) =
                    Movement(p.year, b) + IF p.traded THEN p.appropriation[b] ELSE 0
               /\ SumAt(journal', PositionsBefore(journal', p.year), b) =
                    OpeningBalance(p.year, b)
  <1> DEFINE p == plan[c]
             a == Entry(p.year, "appropriation", p.year, p.appropriation)
             o == Entry(p.year + 1, "opening", p.year, p.opening)
             In(k) == SumAt(k, PositionsIn(k, p.year), b)
             Before(k) == SumAt(k, PositionsBefore(k, p.year), b)
  <1>1. /\ p \in Plans
        /\ a \in Entries
        /\ Carries(p) => o \in Entries
        /\ ~ p.traded /\ ~ Carries(p) => journal' = journal
        /\ p.traded /\ ~ Carries(p) => journal' = Append(journal, a)
        /\ ~ p.traded /\ Carries(p) => journal' = Append(journal, o)
        /\ p.traded /\ Carries(p) => journal' = Append(Append(journal, a), o)
    BY RecordAppends
  <1>2. /\ p.year \in Years /\ p.year \in Int /\ p.traded \in BOOLEAN
        /\ p.appropriation[b] \in Int
    BY <1>1, YearCloseConstants DEF Plans, Years, Amounts
  <1>3. journal \in Seq(Entries)
    BY DEF YearInv, TypeOK, Entries
  <1>4. ASSUME NEW j \in Seq(Entries)
        PROVE  /\ Append(j, a) \in Seq(Entries)
               /\ In(j) \in Int /\ Before(j) \in Int
               /\ In(Append(j, a)) = In(j) + p.appropriation[b]
               /\ Before(Append(j, a)) = Before(j)
    <2>1. a.year = p.year /\ a.amounts = p.appropriation
      BY DEF Entry
    <2>2. In(j) \in Int /\ Before(j) \in Int
      BY SumAtIsInt DEF PositionsIn, PositionsBefore
    <2> HIDE DEF a
    <2>3. /\ In(Append(j, a)) = In(j) + IF a.year = p.year THEN a.amounts[b] ELSE 0
          /\ Before(Append(j, a)) = Before(j) + IF a.year < p.year THEN a.amounts[b] ELSE 0
      BY <1>1, <1>2, BalancesAfterAppend
    <2> HIDE DEF In, Before, p
    <2> QED
      BY <1>1, <1>2, <2>1, <2>2, <2>3, AppendProperties
  <1>5. ASSUME NEW j \in Seq(Entries), Carries(p)
        PROVE  /\ In(Append(j, o)) = In(j)
               /\ Before(Append(j, o)) = Before(j)
    <2>1. o.year = p.year + 1
      BY DEF Entry
    <2>2. In(j) \in Int /\ Before(j) \in Int
      BY SumAtIsInt DEF PositionsIn, PositionsBefore
    <2> HIDE DEF o
    <2>3. /\ In(Append(j, o)) = In(j) + IF o.year = p.year THEN o.amounts[b] ELSE 0
          /\ Before(Append(j, o)) = Before(j) + IF o.year < p.year THEN o.amounts[b] ELSE 0
      BY <1>1, <1>2, <1>5, BalancesAfterAppend
    <2> HIDE DEF In, Before, p
    <2> QED
      BY <1>2, <2>1, <2>2, <2>3
  <1>6. In(journal) = Movement(p.year, b) /\ Before(journal) = OpeningBalance(p.year, b)
    BY BalancesAreSums
  <1> HIDE DEF a, o, p, In, Before
  <1>7. /\ In(journal') = In(journal) + IF p.traded THEN p.appropriation[b] ELSE 0
        /\ Before(journal') = Before(journal)
    <2>1. CASE p.traded
      <3> DEFINE half == Append(journal, a)
      <3>1. /\ half \in Seq(Entries)
            /\ In(half) = In(journal) + p.appropriation[b]
            /\ Before(half) = Before(journal)
        BY <1>3, <1>4
      <3>2. journal' = half \/ (Carries(p) /\ journal' = Append(half, o))
        BY <1>1, <2>1
      <3> HIDE DEF half
      <3>3. In(journal') = In(half) /\ Before(journal') = Before(half)
        BY <1>5, <3>1, <3>2
      <3> QED
        BY <2>1, <3>1, <3>3
    <2>2. CASE ~ p.traded
      <3>1. In(journal') = In(journal) /\ Before(journal') = Before(journal)
        BY <1>1, <1>3, <1>5, <2>2
      <3>2. In(journal) \in Int
        BY <1>3, <1>4
      <3> QED
        BY <2>2, <3>1, <3>2
    <2> QED
      BY <1>2, <2>1, <2>2
  <1>8. /\ In(journal') = Movement(p.year, b) + IF p.traded THEN p.appropriation[b] ELSE 0
        /\ Before(journal') = OpeningBalance(p.year, b)
    BY <1>6, <1>7
  <1> QED
    BY <1>2, <1>8 DEF p, In, Before

\* A year in which no profit and loss account moved has no result.
LEMMA NoTradeNoResult ==
    ASSUME NEW year, ~ Traded(year) PROVE YearResult(year) = 0
  <1> DEFINE m == [a \in ProfitAndLoss |-> Movement(year, a)]
  <1>1. \A a \in ProfitAndLoss \ {} : m[a] = 0
    BY DEF Traded
  <1>2. IsFiniteSet(ProfitAndLoss)
    BY YearCloseConstants, FS_Subset DEF Accounts
  <1> HIDE DEF m
  <1>3. SumFunctionOnSet(m, ProfitAndLoss) = 0
    <2>1. SumFunctionOnSet(m, ProfitAndLoss) = SumFunctionOnSet(m, {})
      BY <1>1, <1>2, SumOfZeros
    <2> QED
      BY <2>1, SumOfNone
  <1> DEFINE s == SumFunctionOnSet(m, ProfitAndLoss)
             r == YearResult(year)
  <1>4. s \in Int /\ r = - s
    BY <1>3 DEF YearResult, m
  <1>5. s = 0
    BY <1>3
  <1> HIDE DEF s, r
  <1>6. r \in Int /\ r + s = 0
    BY <1>4
  <1>7. r = 0
    BY <1>5, <1>6
  <1> QED
    BY <1>7 DEF r

\* The profit and loss of the year is flat afterwards, and what was planned as
\* the opening balance is the balance sheet.
LEMMA RecordApplies ==
    ASSUME YearInv, NEW c \in Closers, RecordYearClose(c), OneOpenClose(plan[c].year),
           plan[c].seen = Len(journal)
    PROVE  /\ \A b \in ProfitAndLoss : Movement(plan[c].year, b)' = 0
           /\ \A b \in BalanceSheet : plan[c].opening[b] = ClosingBalance(plan[c].year, b)'
  <1> DEFINE p == plan[c]
             y == p.year
  <1>1. /\ p \in Plans /\ PlanIsCurrent(c)
        /\ plan' = plan
    BY RecordAppends DEF RecordYearClose
  <1>2. /\ p.traded = Traded(y)
        /\ p.appropriation = Appropriation(y)
        /\ p.opening = Beginbalans(y)
        /\ y \in Years
    BY <1>1 DEF PlanIsCurrent, Plans
  <1>3. \A b \in Accounts :
            /\ Movement(y, b) \in Int /\ OpeningBalance(y, b) \in Int
            /\ ClosingBalance(y, b) = OpeningBalance(y, b) + Movement(y, b)
            /\ p.appropriation[b] \in Int
            /\ Movement(y, b)' = Movement(y, b) + IF p.traded THEN p.appropriation[b] ELSE 0
            /\ OpeningBalance(y, b)' = OpeningBalance(y, b)
    <2>1. TypeOK
      BY DEF YearInv
    <2> SUFFICES ASSUME NEW b \in Accounts
                 PROVE  /\ Movement(y, b) \in Int /\ OpeningBalance(y, b) \in Int
                        /\ ClosingBalance(y, b) = OpeningBalance(y, b) + Movement(y, b)
                        /\ p.appropriation[b] \in Int
                        /\ Movement(y, b)' = Movement(y, b) + IF p.traded THEN p.appropriation[b]
                                                                          ELSE 0
                        /\ OpeningBalance(y, b)' = OpeningBalance(y, b)
      OBVIOUS
    <2>2. /\ Movement(y, b) \in Int /\ OpeningBalance(y, b) \in Int
          /\ ClosingBalance(y, b) = OpeningBalance(y, b) + Movement(y, b)
      BY <1>2, <2>1, BalancesAreInt DEF ClosingBalance
    <2>3. y' = y
      BY <1>1
    <2> QED
      BY <2>2, <2>3, BalancesAfterRecord, NewBalancesAreSums
  <1>4. /\ Accounts = BalanceSheet \union ProfitAndLoss
        /\ BalanceSheet \intersect ProfitAndLoss = {}
        /\ Result \in BalanceSheet
    BY YearCloseConstants DEF Accounts
  <1>5. YearResult(y) \in Int
    BY <1>2, AppropriationBalances DEF YearInv
  <1>6. ~ p.traded => /\ \A b \in ProfitAndLoss : Movement(y, b) = 0
                      /\ YearResult(y) = 0
    BY <1>2, NoTradeNoResult DEF Traded
  <1>7. p.traded \in BOOLEAN
    BY <1>2 DEF Traded
  <1>8. ASSUME NEW b \in ProfitAndLoss PROVE Movement(plan[c].year, b)' = 0
    <2>1. p.appropriation[b] = - Movement(y, b)
      BY <1>2, <1>4 DEF Appropriation
    <2> DEFINE old == Movement(y, b)
               new == Movement(y, b)'
    <2>2. old \in Int /\ new = old + IF p.traded THEN - old ELSE 0
      BY <1>3, <1>4, <2>1
    <2>3. ~ p.traded => old = 0
      BY <1>6
    <2> HIDE DEF old, new
    <2>4. new = 0
      BY <1>7, <2>2, <2>3
    <2> QED
      BY <2>4 DEF new
  <1>9. ASSUME NEW b \in BalanceSheet PROVE plan[c].opening[b] = ClosingBalance(plan[c].year, b)'
    <2>1. /\ p.appropriation[b] = IF b = Result THEN - YearResult(y) ELSE 0
          /\ p.opening[b] = IF b = Result THEN ClosingBalance(y, b) - YearResult(y)
                                          ELSE ClosingBalance(y, b)
      BY <1>2, <1>4 DEF Appropriation, Beginbalans
    <2>2. ClosingBalance(y, b)' = OpeningBalance(y, b)' + Movement(y, b)'
      BY DEF ClosingBalance
    <2> DEFINE m == Movement(y, b)
               o == OpeningBalance(y, b)
               r == YearResult(y)
               x == p.opening[b]
               new == ClosingBalance(y, b)'
    <2>3. /\ m \in Int /\ o \in Int /\ r \in Int
          /\ ~ p.traded => r = 0
          /\ x = IF b = Result THEN (o + m) - r ELSE o + m
          /\ new = o + (m + IF p.traded THEN IF b = Result THEN - r ELSE 0 ELSE 0)
      BY <1>3, <1>4, <1>5, <1>6, <2>1, <2>2
    <2> HIDE DEF m, o, r, x, new
    <2>4. x = new
      BY <1>7, <2>3
    <2> QED
      BY <2>4 DEF x, new
  <1> QED
    BY <1>8, <1>9

\* A request reaches its end as closed by recording its close.
LEMMA OnlyRecordCloses ==
    ASSUME YearInv, [Next]_vars, NEW c \in Closers, pc[c] = "carried", pc'[c] = "closed"
    PROVE  RecordYearClose(c) /\ OneOpenClose(plan[c].year)
  <1>1. TypeOK
    BY DEF YearInv
  <1>2. ASSUME NEW d \in Closers, NEW how, Goto(d, how)
        PROVE  c = d /\ how = "closed"
    BY <1>1, <1>2 DEF TypeOK, Goto
  <1>3. ASSUME NEW d \in Closers, NEW how, End(d, how), how # "closed" PROVE FALSE
    BY <1>2, <1>3 DEF End
  <1>4. ASSUME NEW d \in Closers, NEW year \in Years,
               NEW carryForward \in BOOLEAN, NEW dryRun \in BOOLEAN,
               BeginClose(d, year, carryForward, dryRun)
        PROVE  FALSE
    BY <1>2, <1>3, <1>4 DEF BeginClose
  <1>5. ASSUME NEW d \in Closers, PostAppropriation(d) \/ PostOpening(d) \/ Rollback(d)
        PROVE  FALSE
    BY <1>2, <1>3, <1>5 DEF PostAppropriation, PostOpening, Rollback
  <1>6. ASSUME NEW d \in Closers, RecordYearClose(d)
        PROVE  d = c /\ OneOpenClose(plan[c].year)
    BY <1>2, <1>3, <1>6 DEF RecordYearClose
  <1>7. ASSUME UNCHANGED pc PROVE FALSE
    BY <1>7
  <1> QED
    BY <1>4, <1>5, <1>6, <1>7 DEF Next, PostEntry, ReverseEntry, HardClose, AllAnswered, vars

\* A close that nobody's posting overtook leaves the profit and loss of its year
\* flat and opens the next year with the balance sheet it ends with, for any
\* accounts and any entries.
THEOREM ClosesApplyTheirPlans == Spec => CloseAppliesItsPlan
  <1>1. YearInv /\ [Next]_vars =>
            \A c \in Closers :
                pc[c] = "carried" /\ pc'[c] = "closed" /\ plan[c].seen = Len(journal) =>
                    /\ \A a \in ProfitAndLoss : Movement(plan[c].year, a)' = 0
                    /\ Carries(plan[c]) => \A a \in BalanceSheet :
                            plan[c].opening[a] = ClosingBalance(plan[c].year, a)'
    BY OnlyRecordCloses, RecordApplies
  <1>2. YearInv /\ [Next]_vars =>
            [\A c \in Closers :
                pc[c] = "carried" /\ pc'[c] = "closed" /\ plan[c].seen = Len(journal) =>
                    /\ \A a \in ProfitAndLoss : Movement(plan[c].year, a)' = 0
                    /\ Carries(plan[c]) => \A a \in BalanceSheet :
                            plan[c].opening[a] = ClosingBalance(plan[c].year, a)']_vars
    BY <1>1
  <1> QED
    BY <1>2, YearInvariant, PTL DEF Spec, CloseAppliesItsPlan

=============================================================================
