----------------------------- MODULE SalesProofs -----------------------------
(***************************************************************************)
(* Theorems about Sales: invoice numbers are gapless, what is issued is    *)
(* what is posted, and reminders only rise, for any number of requests,    *)
(* documents, keys and stages.                                             *)
(***************************************************************************)
EXTENDS Sales, SumTheorems

Ours == {d \in Documents : Issued(d) /\ ~ documents[d].imported}

\* What a request holds is what it asked for, of a document that is there and, for
\* an issue, that we made.
WorkIsSound ==
    \A q \in Requests :
        /\ pc[q] \in {"issuing", "priced"} =>
            /\ work[q] \in IssueWork
            /\ documents[work[q].document] # Absent
            /\ ~ documents[work[q].document].imported
        /\ pc[q] = "replacing" => work[q] \in ReplaceWork /\ documents[work[q].document] # Absent
        /\ pc[q] \in {"planned", "sent"} => work[q] \in RemindWork

\* An undisturbed issue goes on holding the draft as it is.
UndisturbedIsCurrent ==
    \A q \in Requests \ disturbed : pc[q] \in {"issuing", "priced"} =>
        /\ documents[work[q].document].status = "draft"
        /\ work[q].content = documents[work[q].document].content

\* Entries are about documents that are there, numbers of ours were drawn, and what
\* was imported was issued.
NothingFromNowhere ==
    /\ \A i \in DOMAIN entries : documents[entries[i].document] # Absent
    /\ \A d \in Ours : documents[d].number \in 1 .. counter
    /\ \A d \in Documents : documents[d] # Absent /\ documents[d].imported => Issued(d)

\* A letter is recorded, or is about to be, or its record was lost.
LettersAreAccountedFor ==
    \A i \in DOMAIN letters :
        \/ letters[i].document \in muddled
        \/ letters[i] \in deliveries
        \/ \E r \in Requests : pc[r] = "sent" /\ Letter(r) = letters[i]

\* Nothing as high as an undisturbed plan went out.
PlannedIsAbove ==
    \A q \in Requests \ disturbed :
        pc[q] = "planned" /\ work[q].document \notin muddled =>
            \A i \in DOMAIN letters :
                letters[i].document = work[q].document => letters[i].stage < work[q].due

SalesInv ==
    /\ TypeOK
    /\ WorkIsSound
    /\ UndisturbedIsCurrent
    /\ NothingFromNowhere
    /\ GaplessUnlessMuddled
    /\ IssuedAsPostedUnlessMuddled
    /\ LettersAreAccountedFor
    /\ PlannedIsAbove

LEMMA InitHolds == Init => SalesInv
  <1> SUFFICES ASSUME Init PROVE SalesInv
    OBVIOUS
  <1> USE DEF Init
  <1>1. \A d \in Documents : ~ Issued(d) /\ documents[d] = Absent
    BY DEF Issued, Absent
  <1>2. TypeOK
    BY <1>1 DEF TypeOK
  <1>3. NothingFromNowhere /\ GaplessUnlessMuddled /\ IssuedAsPostedUnlessMuddled
    BY <1>1 DEF NothingFromNowhere, GaplessUnlessMuddled, IssuedAsPostedUnlessMuddled, Ours
  <1> QED
    BY <1>2, <1>3 DEF SalesInv, WorkIsSound, UndisturbedIsCurrent, LettersAreAccountedFor,
       PlannedIsAbove

LEMMA RowOf == ASSUME NEW S, NEW rows \in Seq(S), NEW i \in DOMAIN rows PROVE rows[i] \in S
  OBVIOUS

LEMMA EntriesAreTyped ==
    ASSUME TypeOK, NEW i \in DOMAIN entries
    PROVE  entries[i].document \in Documents
  <1>1. entries \in Seq([document : Documents, key : Keys, number : Nat, content : Readings])
    BY DEF TypeOK
  <1>2. entries[i] \in [document : Documents, key : Keys, number : Nat, content : Readings]
    BY <1>1, RowOf
  <1> QED
    BY <1>2

-----------------------------------------------------------------------------
(* What a request does to the others *)

RequestsTyped ==
    /\ pc \in [Requests -> {"idle", "issuing", "priced", "replacing", "planned", "sent", "done"}]
    /\ work \in [Requests -> Works \union {NoWork}]
    /\ \A q \in Requests : pc[q] \in {"idle", "done"} <=> work[q] = NoWork

LEMMA StepIsTyped ==
    ASSUME TypeOK, NEW q \in Requests, NEW w \in Works, work' = [work EXCEPT ![q] = w],
           NEW step \in {"issuing", "priced", "replacing", "planned", "sent"}, Goes(q, step)
    PROVE  /\ RequestsTyped'
           /\ pc'[q] = step /\ work'[q] = w
           /\ \A r \in Requests \ {q} : pc'[r] = pc[r] /\ work'[r] = work[r]
  BY SalesConstants DEF TypeOK, RequestsTyped, Goes

LEMMA EndIsTyped ==
    ASSUME TypeOK, NEW q \in Requests, Ends(q)
    PROVE  /\ RequestsTyped'
           /\ pc'[q] = "done"
           /\ \A r \in Requests \ {q} : pc'[r] = pc[r] /\ work'[r] = work[r]
  BY DEF TypeOK, Ends, Goes, RequestsTyped

LEMMA TypeStays ==
    ASSUME TypeOK, RequestsTyped', disturbed' \subseteq Requests,
           UNCHANGED <<documents, counter, entries, allocated, deliveries, letters, muddled>>
    PROVE  TypeOK'
  <1>1. \A d \in Documents : documents'[d] # Absent => (Issued(d)' <=> documents'[d].number # 0)
    BY DEF TypeOK, Issued
  <1> QED
    BY <1>1 DEF TypeOK, RequestsTyped

LEMMA TypedRequests == TypeOK => disturbed \subseteq Requests /\ muddled \subseteq Documents
  BY DEF TypeOK

\* The others with a document that changed are disturbed.
LEMMA OthersAreDisturbed ==
    ASSUME TypeOK, NEW q, NEW changed, Disturbs(q, changed), NEW r \in Requests, r # q,
           pc[r] \notin {"idle", "done"}, work[r].document \in changed
    PROVE  r \in disturbed'
  BY DEF Disturbs

\* What is left to show of a step that changes no document, no entry and no number.
LEMMA BooksStay ==
    ASSUME SalesInv, UNCHANGED <<documents, counter, entries>>, muddled \subseteq muddled'
    PROVE  NothingFromNowhere' /\ GaplessUnlessMuddled' /\ IssuedAsPostedUnlessMuddled'
  <1>1. \A d \in Documents : Issued(d)' = Issued(d)
    BY DEF Issued
  <1>2. Ours' = Ours
    BY <1>1 DEF Ours
  <1>3. NothingFromNowhere'
    BY <1>1, <1>2 DEF SalesInv, NothingFromNowhere, Ours
  <1>4. GaplessUnlessMuddled'
    BY <1>1, <1>2 DEF SalesInv, GaplessUnlessMuddled, Ours
  <1>5. IssuedAsPostedUnlessMuddled'
    BY <1>1 DEF SalesInv, IssuedAsPostedUnlessMuddled
  <1> QED
    BY <1>3, <1>4, <1>5

\* What is left to show of a step that has nothing to do with reminders.
LEMMA LettersStay ==
    ASSUME SalesInv, UNCHANGED <<deliveries, letters>>, disturbed \subseteq disturbed',
           muddled \subseteq muddled',
           \A r \in Requests :
            /\ pc'[r] = "planned" => pc[r] = "planned" /\ work'[r] = work[r]
            /\ pc[r] = "sent" => pc'[r] = "sent" /\ work'[r] = work[r]
    PROVE  LettersAreAccountedFor' /\ PlannedIsAbove'
  <1>1. LettersAreAccountedFor'
    BY DEF SalesInv, LettersAreAccountedFor, Letter
  <1>2. PlannedIsAbove'
    BY DEF SalesInv, PlannedIsAbove
  <1> QED
    BY <1>1, <1>2

-----------------------------------------------------------------------------
(* One lemma per action *)

LEMMA DraftHolds ==
    ASSUME SalesInv, NEW d \in Documents, HandleDraftInvoice(d) \/ ImportInvoice(d)
    PROVE  SalesInv'
  <1> USE DEF SalesInv
  <1>1. /\ documents[d] = Absent
        /\ UNCHANGED <<counter, entries, allocated, deliveries, letters, pc, work, disturbed, muddled>>
    BY DEF HandleDraftInvoice, ImportInvoice
  <1>2. PICK row \in Rows :
            /\ documents' = [documents EXCEPT ![d] = row]
            /\ \/ row.status = "draft" /\ row.number = 0 /\ ~ row.imported
               \/ row.status = "issued" /\ row.number \in Nat \ {0} /\ row.number \notin Numbers
                  /\ row.imported
    <2>1. CASE HandleDraftInvoice(d)
      <3>1. PICK content \in Contents : documents' = [documents EXCEPT ![d] = Row("draft", content, 0, FALSE)]
        BY <2>1 DEF HandleDraftInvoice
      <3> DEFINE row == Row("draft", content, 0, FALSE)
      <3>2. row \in Rows /\ row.status = "draft" /\ row.number = 0 /\ ~ row.imported
        BY DEF Row, Rows
      <3> HIDE DEF row
      <3> QED
        BY <3>1, <3>2 DEF row
    <2>2. CASE ImportInvoice(d)
      <3>1. PICK content \in Contents, number \in Foreign \ Numbers :
                documents' = [documents EXCEPT ![d] = Row("issued", content, number, TRUE)]
        BY <2>2 DEF ImportInvoice
      <3>2. number \in Nat \ {0}
        BY SalesConstants
      <3> DEFINE row == Row("issued", content, number, TRUE)
      <3>3. row \in Rows /\ row.status = "issued" /\ row.number = number /\ row.imported
        BY <3>2 DEF Row, Rows
      <3> HIDE DEF row
      <3> QED
        BY <3>1, <3>2, <3>3 DEF row
    <2> QED
      BY <2>1, <2>2
  <1>3. /\ documents' \in [Documents -> {Absent} \union Rows]
        /\ documents'[d] = row
        /\ \A e \in Documents \ {d} : documents'[e] = documents[e]
        /\ row # Absent
    BY <1>2 DEF TypeOK, Rows, Absent
  <1>4. ~ Issued(d) /\ \A e \in Documents \ {d} : Issued(e)' = Issued(e)
    BY <1>1, <1>3 DEF Issued, Absent
  <1>5. /\ Ours' = Ours /\ d \notin Ours
        /\ Issued(d)' => row.imported /\ row.number \notin Numbers
        /\ Issued(d)' <=> row.number # 0
    BY <1>2, <1>3, <1>4 DEF Ours, Issued, Rows
  <1>6. TypeOK'
    <2>1. \A e \in Documents : documents'[e] # Absent => (Issued(e)' <=> documents'[e].number # 0)
      BY <1>3, <1>4, <1>5 DEF TypeOK
    <2> QED
      BY <1>1, <1>3, <2>1 DEF TypeOK
  <1>7. \A q \in Requests : pc[q] \in {"issuing", "priced", "replacing"} => work[q].document \in Documents \ {d}
    BY <1>1 DEF WorkIsSound, IssueWork, ReplaceWork
  <1>8. WorkIsSound' /\ UndisturbedIsCurrent'
    BY <1>1, <1>3, <1>7 DEF WorkIsSound, UndisturbedIsCurrent
  <1>9. \A i \in DOMAIN entries : entries[i].document \in Documents \ {d}
    BY <1>1, EntriesAreTyped DEF NothingFromNowhere
  <1>10. NothingFromNowhere'
    BY <1>1, <1>2, <1>3, <1>4, <1>5, <1>9 DEF NothingFromNowhere, Ours, Issued
  <1>11. GaplessUnlessMuddled'
    <2>1. \A e, f \in Documents :
            Issued(e)' /\ Issued(f)' /\ documents'[e].number = documents'[f].number => e = f
      BY <1>3, <1>4, <1>5 DEF GaplessUnlessMuddled, Numbers
    <2>2. {documents'[e].number : e \in Ours'} = {documents[e].number : e \in Ours}
      BY <1>3, <1>5 DEF Ours
    <2> QED
      BY <1>1, <1>5, <2>1, <2>2 DEF GaplessUnlessMuddled, Ours
  <1>12. IssuedAsPostedUnlessMuddled'
    BY <1>1, <1>3, <1>4, <1>5, <1>9 DEF IssuedAsPostedUnlessMuddled
  <1>13. LettersAreAccountedFor' /\ PlannedIsAbove'
    BY <1>1, LettersStay
  <1> QED
    BY <1>6, <1>8, <1>10, <1>11, <1>12, <1>13


\* A request begins to issue or to replace a draft.
LEMMA EditingBegins ==
    ASSUME SalesInv, NEW q \in Requests, HandleIssueInvoice(q) \/ HandleReplaceDraftInvoice(q)
    PROVE  SalesInv'
  <1> USE DEF SalesInv
  <1>1. /\ UNCHANGED <<documents, counter, entries, allocated, deliveries, letters, disturbed, muddled>>
        /\ pc[q] = "idle"
    BY DEF HandleIssueInvoice, HandleReplaceDraftInvoice
  <1>2. PICK d \in Documents, w \in Works :
            /\ documents[d].status = "draft" /\ w.document = d
            /\ work' = [work EXCEPT ![q] = w]
            /\ \/ w \in IssueWork /\ w.content = documents[d].content /\ Goes(q, "issuing")
               \/ w \in ReplaceWork /\ Goes(q, "replacing")
    <2>1. CASE HandleIssueInvoice(q)
      <3>1. PICK d \in {e \in Documents : IsDraft(e)}, key \in Keys :
                work' = [work EXCEPT ![q] = [op |-> "issue", document |-> d, key |-> key,
                                             content |-> documents[d].content]]
        BY <2>1 DEF HandleIssueInvoice
      <3>2. documents[d].content \in Readings
        BY <3>1, SalesConstants DEF TypeOK, IsDraft, Absent, Rows
      <3> DEFINE w == [op |-> "issue", document |-> d, key |-> key, content |-> documents[d].content]
      <3>3. w \in IssueWork /\ w.document = d /\ w.content = documents[d].content
        BY <3>1, <3>2 DEF IssueWork
      <3> HIDE DEF w
      <3> QED
        BY <2>1, <3>1, <3>3 DEF w, HandleIssueInvoice, IsDraft, Works
    <2>2. CASE HandleReplaceDraftInvoice(q)
      <3>1. PICK d \in {e \in Documents : IsDraft(e)}, content \in Contents :
                work' = [work EXCEPT ![q] = [op |-> "replace", document |-> d, content |-> content]]
        BY <2>2 DEF HandleReplaceDraftInvoice
      <3> DEFINE w == [op |-> "replace", document |-> d, content |-> content]
      <3>2. w \in ReplaceWork /\ w.document = d
        BY DEF ReplaceWork
      <3> HIDE DEF w
      <3> QED
        BY <2>2, <3>1, <3>2 DEF w, HandleReplaceDraftInvoice, IsDraft, Works
    <2> QED
      BY <2>1, <2>2
  <1>3. /\ RequestsTyped' /\ work'[q] = w
        /\ \A r \in Requests \ {q} : pc'[r] = pc[r] /\ work'[r] = work[r]
        /\ \/ w \in IssueWork /\ w.content = documents[d].content /\ pc'[q] = "issuing"
           \/ w \in ReplaceWork /\ pc'[q] = "replacing"
    BY <1>2, StepIsTyped
  <1>4. documents[d] # Absent /\ ~ documents[d].imported
    <2>1. documents[d] # Absent
      BY <1>2 DEF Absent
    <2>2. ~ Issued(d)
      BY <1>2 DEF Issued
    <2> QED
      BY <2>1, <2>2 DEF NothingFromNowhere
  <1>5. TypeOK'
    BY <1>1, <1>3, TypeStays, TypedRequests
  <1>6. WorkIsSound' /\ UndisturbedIsCurrent'
    BY <1>1, <1>2, <1>3, <1>4 DEF WorkIsSound, UndisturbedIsCurrent
  <1>7. NothingFromNowhere' /\ GaplessUnlessMuddled' /\ IssuedAsPostedUnlessMuddled'
    BY <1>1, BooksStay
  <1>8. LettersAreAccountedFor' /\ PlannedIsAbove'
    BY <1>1, <1>3, LettersStay
  <1> QED
    BY <1>5, <1>6, <1>7, <1>8

LEMMA ReadLinesHolds ==
    ASSUME SalesInv, NEW q \in Requests, ReadLines(q)
    PROVE  SalesInv'
  <1> USE DEF SalesInv
  <1>1. PICK d, w : d = work[q].document
                    /\ w = [work[q] EXCEPT !.content.amount = documents[d].content.amount]
    OBVIOUS
  <1>2. /\ UNCHANGED <<documents, counter, entries, allocated, deliveries, letters, disturbed, muddled>>
        /\ pc[q] = "issuing" /\ Goes(q, "priced")
        /\ work' = [work EXCEPT ![q] = w]
    BY <1>1 DEF ReadLines
  <1>3. /\ work[q] \in IssueWork /\ d \in Documents /\ documents[d] \in Rows
        /\ documents[d].content \in Readings
    <2>1. work[q] \in IssueWork /\ d \in Documents /\ documents[d] \in Rows
      BY <1>1, <1>2 DEF WorkIsSound, IssueWork, TypeOK
    <2> QED
      BY <2>1, SalesConstants DEF Rows
  <1>4. w \in IssueWork /\ w.document = d
        /\ (work[q].content = documents[d].content => w.content = documents[d].content)
    <2> DEFINE c == [work[q].content EXCEPT !.amount = documents[d].content.amount]
    <2>1. work[q].content \in Readings
      BY <1>3 DEF IssueWork
    <2>2. c \in Readings /\ (work[q].content = documents[d].content => c = documents[d].content)
      BY <1>3, <2>1 DEF Readings
    <2>3. w = [work[q] EXCEPT !.content = c]
      BY <1>1
    <2> HIDE DEF c
    <2> QED
      BY <1>1, <1>3, <2>2, <2>3 DEF IssueWork
  <1>5. /\ RequestsTyped' /\ pc'[q] = "priced" /\ work'[q] = w
        /\ \A r \in Requests \ {q} : pc'[r] = pc[r] /\ work'[r] = work[r]
    BY <1>2, <1>4, StepIsTyped DEF Works
  <1>6. TypeOK'
    BY <1>2, <1>5, TypeStays, TypedRequests
  <1>7. WorkIsSound' /\ UndisturbedIsCurrent'
    <2>1. documents' = documents /\ disturbed' = disturbed
      BY <1>2
    <2>2. documents[d] # Absent /\ ~ documents[d].imported
      BY <1>1, <1>2 DEF WorkIsSound
    <2>3. q \notin disturbed =>
            documents[d].status = "draft" /\ w.content = documents[d].content
      BY <1>1, <1>2, <1>4 DEF UndisturbedIsCurrent
    <2>4. WorkIsSound'
      BY <1>4, <1>5, <2>1, <2>2 DEF WorkIsSound
    <2>5. UndisturbedIsCurrent'
      BY <1>4, <1>5, <2>1, <2>3 DEF UndisturbedIsCurrent
    <2> QED
      BY <2>4, <2>5
  <1>8. NothingFromNowhere' /\ GaplessUnlessMuddled' /\ IssuedAsPostedUnlessMuddled'
    BY <1>2, BooksStay
  <1>9. LettersAreAccountedFor' /\ PlannedIsAbove'
    BY <1>2, <1>5, LettersStay
  <1> QED
    BY <1>6, <1>7, <1>8, <1>9


LEMMA IssueCommits ==
    ASSUME SalesInv, NEW q \in Requests, CommitIssue(q)
    PROVE  SalesInv'
  <1> USE DEF SalesInv
  <1>1. PICK d, row, entry :
            /\ d = work[q].document
            /\ row = [documents[d] EXCEPT !.status = "issued", !.number = counter + 1]
            /\ entry = [document |-> d, key |-> work[q].key,
                        number |-> counter + 1, content |-> work[q].content]
    OBVIOUS
  <1>2. /\ work[q] \in IssueWork /\ d \in Documents
        /\ documents[d] # Absent /\ documents[d] \in Rows /\ ~ documents[d].imported
        /\ pc[q] = "priced" /\ counter \in Nat
    BY <1>1 DEF CommitIssue, WorkIsSound, IssueWork, TypeOK
  <1>3. /\ row \in Rows /\ row # Absent
        /\ row.status = "issued" /\ row.number = counter + 1
        /\ row.content = documents[d].content /\ row.imported = documents[d].imported
        /\ row.number # 0
    <2>1. PICK old, number : old = documents[d] /\ number = counter + 1
      OBVIOUS
    <2>2. old \in Rows /\ number \in Nat /\ number # 0
      BY <1>2, <2>1
    <2>3. row = [old EXCEPT !.status = "issued", !.number = number]
      BY <1>1, <2>1
    <2>4. /\ row \in Rows
          /\ row.status = "issued" /\ row.number = number
          /\ row.content = old.content /\ row.imported = old.imported
      BY <2>2, <2>3 DEF Rows
    <2>5. row # Absent
      BY <2>4 DEF Absent
    <2> QED
      BY <2>1, <2>2, <2>4, <2>5
  <1>4. /\ entry \in [document : Documents, key : Keys, number : Nat, content : Readings]
        /\ entry.document = d /\ entry.number = counter + 1 /\ entry.content = work[q].content
    BY <1>1, <1>2 DEF IssueWork
  <1>5. /\ counter' = counter + 1
        /\ counter + 1 \notin Numbers
        /\ entries' = Append(entries, entry)
        /\ documents' = [documents EXCEPT ![d] = row]
        /\ muddled' = IF q \in disturbed THEN muddled \union {d} ELSE muddled
        /\ Disturbs(q, {d, documents[d].content.credits})
        /\ UNCHANGED <<allocated, deliveries, letters>>
    BY <1>1 DEF CommitIssue, Refused, Marked, Allocated
  <1>6. /\ RequestsTyped' /\ pc'[q] = "done"
        /\ \A r \in Requests \ {q} : pc'[r] = pc[r] /\ work'[r] = work[r]
    BY EndIsTyped DEF CommitIssue
  <1>7. /\ documents' \in [Documents -> {Absent} \union Rows]
        /\ documents'[d] = row
        /\ \A e \in Documents \ {d} : documents'[e] = documents[e]
    BY <1>2, <1>3, <1>5 DEF TypeOK
  <1>8. Issued(d)' /\ \A e \in Documents \ {d} : Issued(e)' = Issued(e)
    BY <1>3, <1>7 DEF Issued
  <1>9. Ours' = Ours \union {d}
    BY <1>2, <1>3, <1>7, <1>8 DEF Ours
  <1>10. /\ entries' \in Seq([document : Documents, key : Keys, number : Nat, content : Readings])
         /\ DOMAIN entries' = DOMAIN entries \union {Len(entries) + 1}
         /\ Len(entries) + 1 \notin DOMAIN entries
         /\ entries'[Len(entries) + 1] = entry
         /\ \A i \in DOMAIN entries : entries'[i] = entries[i]
    BY <1>4, <1>5 DEF TypeOK
  <1>11. /\ disturbed \subseteq disturbed' /\ disturbed' \subseteq Requests
         /\ muddled \subseteq muddled' /\ muddled' \subseteq Documents
    BY <1>2, <1>5 DEF Disturbs, TypeOK
  <1>12. \A r \in Requests \ disturbed' :
            pc'[r] \in {"issuing", "priced"} => r # q /\ work[r].document \in Documents \ {d}
    BY <1>5, <1>6, <1>11, OthersAreDisturbed DEF WorkIsSound, IssueWork
  <1>13. TypeOK'
    <2>1. \A e \in Documents : documents'[e] # Absent => (Issued(e)' <=> documents'[e].number # 0)
      <3>1. ASSUME NEW e \in Documents \ {d}, documents'[e] # Absent
            PROVE  Issued(e)' <=> documents'[e].number # 0
        BY <1>7, <1>8, <3>1 DEF TypeOK
      <3> QED
        BY <1>3, <1>7, <1>8, <3>1
    <2>2. counter' \in Nat
      BY <1>2, <1>5
    <2> QED
      BY <1>5, <1>6, <1>7, <1>10, <1>11, <2>1, <2>2 DEF TypeOK, RequestsTyped
  <1>14. WorkIsSound'
    <2>1. \A e \in Documents : /\ documents'[e] = Absent <=> documents[e] = Absent
                               /\ documents[e] # Absent => documents'[e].imported = documents[e].imported
      BY <1>2, <1>3, <1>7
    <2> QED
      BY <1>6, <2>1 DEF WorkIsSound, IssueWork, ReplaceWork
  <1>15. UndisturbedIsCurrent'
    BY <1>6, <1>7, <1>11, <1>12 DEF UndisturbedIsCurrent
  <1>16. NothingFromNowhere'
    <2>1. \A i \in DOMAIN entries' : documents'[entries'[i].document] # Absent
      <3>1. \A e \in Documents : documents[e] # Absent => documents'[e] # Absent
        BY <1>3, <1>7
      <3>2. documents'[entry.document] # Absent
        BY <1>3, <1>4, <1>7
      <3>3. \A i \in DOMAIN entries : documents'[entries[i].document] # Absent
        BY <3>1, EntriesAreTyped DEF NothingFromNowhere
      <3> QED
        BY <1>10, <3>2, <3>3
    <2>2. \A e \in Ours' : documents'[e].number \in 1 .. counter'
      <3>1. counter \in Nat /\ counter' = counter + 1
        BY <1>5 DEF TypeOK
      <3>2. documents'[d].number = counter + 1
        BY <1>1, <1>3, <1>7
      <3>3. ASSUME NEW e \in Ours, e # d PROVE documents'[e].number \in 1 .. counter
        BY <1>7, <3>3 DEF NothingFromNowhere, Ours
      <3> QED
        BY <1>9, <3>1, <3>2, <3>3
    <2>3. ASSUME NEW e \in Documents, documents'[e] # Absent, documents'[e].imported
          PROVE  Issued(e)'
      <3>1. CASE e = d
        BY <1>8, <3>1
      <3>2. CASE e # d
        BY <1>7, <1>8, <2>3, <3>2 DEF NothingFromNowhere
      <3> QED
        BY <3>1, <3>2
    <2> QED
      BY <2>1, <2>2, <2>3 DEF NothingFromNowhere
  <1>17. GaplessUnlessMuddled'
    <2>1. \A e, f \in Documents :
            Issued(e)' /\ Issued(f)' /\ documents'[e].number = documents'[f].number => e = f
      <3>1. \A e \in Documents \ {d} : Issued(e)' => documents'[e].number # counter + 1
        BY <1>5, <1>7, <1>8 DEF Numbers
      <3> QED
        BY <1>3, <1>7, <1>8, <3>1 DEF GaplessUnlessMuddled
    <2>2. ASSUME muddled' \intersect Ours' = {}
          PROVE  {documents'[e].number : e \in Ours'} = 1 .. counter'
      <3>1. q \notin disturbed
        BY <1>5, <1>9, <2>2
      <3>2. d \notin Ours
        BY <1>1, <1>2, <3>1 DEF UndisturbedIsCurrent, Ours, Issued
      <3>3. {documents[e].number : e \in Ours} = 1 .. counter
        BY <1>9, <1>11, <2>2 DEF GaplessUnlessMuddled, Ours
      <3>4. {documents'[e].number : e \in Ours'} = {documents[e].number : e \in Ours} \union {counter + 1}
        BY <1>3, <1>7, <1>9, <3>2 DEF Ours
      <3>5. 1 .. (counter + 1) = (1 .. counter) \union {counter + 1}
        BY <1>2
      <3> QED
        BY <1>5, <3>3, <3>4, <3>5
    <2> QED
      BY <2>1, <2>2 DEF GaplessUnlessMuddled, Ours
  <1>18. IssuedAsPostedUnlessMuddled'
    <2> SUFFICES ASSUME NEW e \in Documents \ muddled'
                 PROVE  LET posted == {i \in DOMAIN entries' : entries'[i].document = e}
                        IN  IF Issued(e)'
                            THEN documents'[e].imported \/ \E i \in posted :
                                    /\ posted = {i}
                                    /\ entries'[i].number = documents'[e].number
                                    /\ entries'[i].content = documents'[e].content
                            ELSE posted = {}
      BY DEF IssuedAsPostedUnlessMuddled
    <2>1. CASE e = d
      <3>1. q \notin disturbed /\ d \notin muddled
        BY <1>5, <1>11, <2>1
      <3>2. work[q].content = documents[d].content /\ ~ Issued(d)
        BY <1>1, <1>2, <3>1 DEF UndisturbedIsCurrent, Issued
      <3>3. {i \in DOMAIN entries : entries[i].document = d} = {}
        BY <1>2, <3>1, <3>2 DEF IssuedAsPostedUnlessMuddled
      <3>4. {i \in DOMAIN entries' : entries'[i].document = d} = {Len(entries) + 1}
        BY <1>4, <1>10, <3>3
      <3> QED
        BY <1>3, <1>4, <1>7, <1>8, <1>10, <2>1, <3>2, <3>4
    <2>2. CASE e # d
      <3>1. {i \in DOMAIN entries' : entries'[i].document = e}
                = {i \in DOMAIN entries : entries[i].document = e}
        BY <1>4, <1>10, <2>2
      <3> QED
        BY <1>7, <1>8, <1>10, <1>11, <2>2, <3>1 DEF IssuedAsPostedUnlessMuddled
    <2> QED
      BY <2>1, <2>2
  <1>19. LettersAreAccountedFor' /\ PlannedIsAbove'
    BY <1>2, <1>5, <1>6, <1>11, LettersStay
  <1> QED
    BY <1>13, <1>14, <1>15, <1>16, <1>17, <1>18, <1>19


LEMMA ReplaceCommits ==
    ASSUME SalesInv, NEW q \in Requests, CommitReplace(q)
    PROVE  SalesInv'
  <1> USE DEF SalesInv
  <1>1. PICK d, row : /\ d = work[q].document
                      /\ row = [documents[d] EXCEPT !.content = work[q].content]
    OBVIOUS
  <1>2. /\ work[q] \in ReplaceWork /\ d \in Documents /\ work[q].content \in Contents
        /\ documents[d] # Absent /\ documents[d] \in Rows /\ documents[d].status = "draft"
        /\ pc[q] = "replacing"
    BY <1>1 DEF CommitReplace, Replaceable, WorkIsSound, ReplaceWork, TypeOK
  <1>3. /\ row \in Rows /\ row # Absent
        /\ row.status = "draft" /\ row.number = documents[d].number
        /\ row.imported = documents[d].imported
    <2>1. PICK old, content : old = documents[d] /\ content = work[q].content
      OBVIOUS
    <2>2. /\ row \in Rows /\ row.status = old.status
          /\ row.number = old.number /\ row.imported = old.imported
      BY <1>1, <1>2, <2>1 DEF Rows
    <2> QED
      BY <1>2, <2>1, <2>2 DEF Absent
  <1>4. /\ documents' = [documents EXCEPT ![d] = row]
        /\ Disturbs(q, {d})
        /\ UNCHANGED <<counter, entries, allocated, deliveries, letters, muddled>>
    BY <1>1 DEF CommitReplace
  <1>5. /\ RequestsTyped' /\ pc'[q] = "done"
        /\ \A r \in Requests \ {q} : pc'[r] = pc[r] /\ work'[r] = work[r]
    BY EndIsTyped DEF CommitReplace
  <1>6. /\ documents' \in [Documents -> {Absent} \union Rows]
        /\ documents'[d] = row
        /\ \A e \in Documents \ {d} : documents'[e] = documents[e]
    BY <1>2, <1>3, <1>4 DEF TypeOK
  <1>7. ~ Issued(d) /\ \A e \in Documents : Issued(e)' = Issued(e)
    BY <1>2, <1>3, <1>6 DEF Issued
  <1>8. Ours' = Ours /\ d \notin Ours
    BY <1>6, <1>7 DEF Ours
  <1>9. disturbed \subseteq disturbed' /\ disturbed' \subseteq Requests
    BY <1>4 DEF Disturbs, TypeOK
  <1>10. \A r \in Requests \ disturbed' :
            pc'[r] \in {"issuing", "priced"} => r # q /\ work[r].document \in Documents \ {d}
    BY <1>4, <1>5, <1>9, OthersAreDisturbed DEF WorkIsSound, IssueWork
  <1>11. \A e \in Documents : /\ documents'[e] = Absent <=> documents[e] = Absent
                              /\ documents[e] # Absent => documents'[e].imported = documents[e].imported
    BY <1>2, <1>3, <1>6
  <1>12. TypeOK'
    <2>1. \A e \in Documents : documents'[e].number = documents[e].number
      BY <1>3, <1>6
    <2>2. \A e \in Documents : documents'[e] # Absent => (Issued(e)' <=> documents'[e].number # 0)
      BY <1>7, <1>11, <2>1 DEF TypeOK
    <2> QED
      BY <1>4, <1>5, <1>6, <1>9, <2>2 DEF TypeOK, RequestsTyped
  <1>13. WorkIsSound'
    BY <1>5, <1>11 DEF WorkIsSound, IssueWork, ReplaceWork
  <1>14. UndisturbedIsCurrent'
    BY <1>5, <1>6, <1>9, <1>10 DEF UndisturbedIsCurrent
  <1>15. NothingFromNowhere'
    <2>1. \A i \in DOMAIN entries : documents'[entries[i].document] # Absent
      BY <1>11, EntriesAreTyped DEF NothingFromNowhere
    <2>2. \A e \in Ours : documents'[e].number \in 1 .. counter
      BY <1>6, <1>8 DEF NothingFromNowhere, Ours
    <2>3. \A e \in Documents : documents'[e] # Absent /\ documents'[e].imported => Issued(e)'
      BY <1>7, <1>11 DEF NothingFromNowhere
    <2> QED
      BY <1>4, <1>8, <2>1, <2>2, <2>3 DEF NothingFromNowhere
  <1>16. GaplessUnlessMuddled'
    <2>1. \A e, f \in Documents :
            Issued(e)' /\ Issued(f)' /\ documents'[e].number = documents'[f].number => e = f
      BY <1>6, <1>7 DEF GaplessUnlessMuddled
    <2>2. {documents'[e].number : e \in Ours'} = {documents[e].number : e \in Ours}
      BY <1>6, <1>8 DEF Ours
    <2> QED
      BY <1>4, <1>8, <2>1, <2>2 DEF GaplessUnlessMuddled, Ours
  <1>17. IssuedAsPostedUnlessMuddled'
    BY <1>4, <1>6, <1>7 DEF IssuedAsPostedUnlessMuddled
  <1>18. LettersAreAccountedFor' /\ PlannedIsAbove'
    BY <1>2, <1>4, <1>5, <1>9, LettersStay
  <1> QED
    BY <1>12, <1>13, <1>14, <1>15, <1>16, <1>17, <1>18

LEMMA AbandonHolds ==
    ASSUME SalesInv, NEW q \in Requests, Abandon(q)
    PROVE  SalesInv'
  <1> USE DEF SalesInv
  <1>1. /\ UNCHANGED <<documents, counter, entries, allocated, deliveries, letters, disturbed, muddled>>
        /\ pc[q] \in {"issuing", "priced", "replacing"}
    BY DEF Abandon
  <1>3. /\ RequestsTyped' /\ pc'[q] = "done"
        /\ \A r \in Requests \ {q} : pc'[r] = pc[r] /\ work'[r] = work[r]
    BY EndIsTyped DEF Abandon
  <1>5. TypeOK'
    BY <1>1, <1>3, TypeStays, TypedRequests
  <1>6. WorkIsSound' /\ UndisturbedIsCurrent'
    BY <1>1, <1>3 DEF WorkIsSound, UndisturbedIsCurrent
  <1>7. NothingFromNowhere' /\ GaplessUnlessMuddled' /\ IssuedAsPostedUnlessMuddled'
    BY <1>1, BooksStay
  <1>8. LettersAreAccountedFor' /\ PlannedIsAbove'
    BY <1>1, <1>3, LettersStay
  <1> QED
    BY <1>5, <1>6, <1>7, <1>8

LEMMA AllocationHolds ==
    ASSUME SalesInv, NEW d \in Documents, Allocate(d)
    PROVE  SalesInv'
  <1> USE DEF SalesInv
  <1>1. PICK amount \in 1 .. documents[d].content.amount - allocated[d] :
            allocated' = [allocated EXCEPT ![d] = @ + amount]
    BY DEF Allocate
  <1>2. UNCHANGED <<documents, counter, entries, deliveries, letters, pc, work, muddled>>
    BY DEF Allocate
  <1>3. disturbed \subseteq disturbed' /\ disturbed' \subseteq Requests
    BY DEF Allocate, Disturbs, TypeOK
  <1>4. TypeOK'
    <2>1. allocated' \in [Documents -> Nat]
      <3>1. amount \in Nat
        OBVIOUS
      <3> QED
        BY <1>1, <3>1 DEF TypeOK
    <2>2. \A e \in Documents : Issued(e)' = Issued(e)
      BY <1>2 DEF Issued
    <2> QED
      BY <1>2, <1>3, <2>1, <2>2 DEF TypeOK
  <1>5. WorkIsSound' /\ UndisturbedIsCurrent'
    BY <1>2, <1>3 DEF WorkIsSound, UndisturbedIsCurrent
  <1>6. NothingFromNowhere' /\ GaplessUnlessMuddled' /\ IssuedAsPostedUnlessMuddled'
    BY <1>2, BooksStay
  <1>7. LettersAreAccountedFor' /\ PlannedIsAbove'
    BY <1>2, <1>3, LettersStay
  <1> QED
    BY <1>4, <1>5, <1>6, <1>7


\* Among the numbers up to a bound there is a highest, which is what Max chooses.
LEMMA MaxIsHighest ==
    ASSUME NEW bound \in Nat, NEW S \in SUBSET (0 .. bound), S # {}
    PROVE  Max(S) \in S /\ \A n \in S : n <= Max(S)
  <1> DEFINE Less == {ss \in Nat \X Nat : ss[1] < ss[2]}
             T == {bound - n : n \in S}
  <1>0. \A n \in S : bound - n \in Nat
    OBVIOUS
  <1>1. T \subseteq Nat /\ T # {}
    BY <1>0
  <1>2. IsWellFoundedOn(Less, Nat)
    BY NatLessThanWellFounded DEF OpToRel
  <1> HIDE DEF Less, T
  <1>3. PICK x \in T : \A y \in T : <<y, x>> \notin Less
    BY <1>1, <1>2, WFMin
  <1>4. \A y \in T : x <= y
    <2> SUFFICES ASSUME NEW y \in T, y < x PROVE FALSE
      BY <1>1
    <2>1. <<y, x>> \in Less
      BY <1>1 DEF Less
    <2> QED
      BY <1>3, <2>1
  <1>5. PICK n \in S : x = bound - n
    BY DEF T
  <1>6. \A m \in S : m <= n
    <2> SUFFICES ASSUME NEW m \in S PROVE m <= n
      OBVIOUS
    <2>1. x <= bound - m
      BY <1>4 DEF T
    <2>2. m \in 0 .. bound /\ n \in 0 .. bound
      OBVIOUS
    <2> QED
      BY <1>5, <2>1, <2>2
  <1>7. \E z \in S : \A y \in S : y <= z
    BY <1>6
  <1> QED
    BY <1>7 DEF Max

LEMMA HighestSentIsHighest ==
    ASSUME TypeOK, NEW d
    PROVE  /\ HighestSent(d) \in Nat
           /\ \A s \in deliveries : s.document = d => s.stage <= HighestSent(d)
  <1> DEFINE S == {0} \union {t.stage : t \in {u \in deliveries : u.document = d}}
  <1>1. \A t \in deliveries : t.stage \in 0 .. Stages
    BY SalesConstants DEF TypeOK
  <1>2. S \in SUBSET (0 .. Stages) /\ S # {}
    BY <1>1, SalesConstants
  <1>3. HighestSent(d) = Max(S)
    BY DEF HighestSent
  <1>4. \A s \in deliveries : s.document = d => s.stage \in S
    OBVIOUS
  <1> HIDE DEF S
  <1>5. Max(S) \in S /\ \A n \in S : n <= Max(S)
    BY <1>2, MaxIsHighest, SalesConstants
  <1>6. \A n \in S : n \in Nat
    BY <1>2
  <1> QED
    BY <1>3, <1>4, <1>5, <1>6

LEMMA ReminderBegins ==
    ASSUME SalesInv, NEW q \in Requests, HandleSendDunningReminder(q)
    PROVE  SalesInv'
  <1> USE DEF SalesInv
  <1>1. PICK d \in Documents, due \in 1 .. Stages :
            /\ IsDue(d, due)
            /\ work' = [work EXCEPT ![q] = [op |-> "remind", document |-> d, due |-> due]]
            /\ disturbed' = IF \E r \in Requests : pc[r] = "sent" /\ work[r].document = d
                            THEN disturbed \union {q} ELSE disturbed
    BY DEF HandleSendDunningReminder
  <1>2. PICK w : w = [op |-> "remind", document |-> d, due |-> due]
    OBVIOUS
  <1>3. w \in RemindWork /\ w.document = d /\ w.due = due
    BY <1>2 DEF RemindWork
  <1>4. /\ UNCHANGED <<documents, counter, entries, allocated, deliveries, letters, muddled>>
        /\ pc[q] = "idle" /\ Goes(q, "planned")
    BY DEF HandleSendDunningReminder
  <1>5. /\ RequestsTyped' /\ pc'[q] = "planned" /\ work'[q] = w
        /\ \A r \in Requests \ {q} : pc'[r] = pc[r] /\ work'[r] = work[r]
    BY <1>1, <1>2, <1>3, <1>4, StepIsTyped DEF Works
  <1>6. disturbed \subseteq disturbed' /\ disturbed' \subseteq Requests
    BY <1>1 DEF TypeOK
  <1>7. TypeOK'
    BY <1>4, <1>5, <1>6, TypeStays
  <1>8. WorkIsSound' /\ UndisturbedIsCurrent'
    BY <1>3, <1>4, <1>5, <1>6 DEF WorkIsSound, UndisturbedIsCurrent
  <1>9. NothingFromNowhere' /\ GaplessUnlessMuddled' /\ IssuedAsPostedUnlessMuddled'
    BY <1>4, BooksStay
  <1>10. LettersAreAccountedFor'
    BY <1>4, <1>5 DEF LettersAreAccountedFor, Letter
  <1>11. PlannedIsAbove'
    <2>1. ASSUME q \notin disturbed', d \notin muddled,
                 NEW i \in DOMAIN letters, letters[i].document = d
          PROVE  letters[i].stage < due
      <3>1. ~ \E r \in Requests : pc[r] = "sent" /\ work[r].document = d
        BY <1>1, <2>1
      <3>2. ~ \E r \in Requests : pc[r] = "sent" /\ Letter(r) = letters[i]
        BY <2>1, <3>1 DEF Letter
      <3>3. letters[i] \in deliveries
        BY <2>1, <3>2 DEF LettersAreAccountedFor
      <3>4. letters[i].stage <= HighestSent(d)
        BY <2>1, <3>3, HighestSentIsHighest
      <3>5. HighestSent(d) < due
        BY <1>1 DEF IsDue
      <3>6. letters[i].stage \in Nat
        BY <3>3 DEF TypeOK
      <3>7. HighestSent(d) \in Nat
        BY HighestSentIsHighest
      <3> QED
        BY <3>4, <3>5, <3>6, <3>7
    <2> SUFFICES ASSUME NEW r \in Requests \ disturbed', pc'[r] = "planned",
                        work'[r].document \notin muddled,
                        NEW i \in DOMAIN letters, letters[i].document = work'[r].document
                 PROVE  letters[i].stage < work'[r].due
      BY <1>4 DEF PlannedIsAbove
    <2>2. CASE r = q
      BY <1>3, <1>5, <2>1, <2>2
    <2>3. CASE r # q
      BY <1>5, <1>6, <2>3 DEF PlannedIsAbove
    <2> QED
      BY <2>2, <2>3
  <1> QED
    BY <1>7, <1>8, <1>9, <1>10, <1>11

LEMMA LetterIsTyped ==
    ASSUME SalesInv, NEW q \in Requests, pc[q] \in {"planned", "sent"}
    PROVE  /\ work[q] \in RemindWork
           /\ Letter(q) \in [document : Documents, stage : 1 .. Stages]
           /\ Letter(q).document = work[q].document /\ work[q].document \in Documents
  BY DEF SalesInv, WorkIsSound, RemindWork, Letter

LEMMA SendHolds ==
    ASSUME SalesInv, NEW q \in Requests, SendLetter(q)
    PROVE  SalesInv'
  <1> USE DEF SalesInv
  <1>1. PICK letter : letter = Letter(q)
    OBVIOUS
  <1>2. /\ UNCHANGED <<documents, counter, entries, allocated, deliveries, work, muddled>>
        /\ pc[q] = "planned" /\ pc' = [pc EXCEPT ![q] = "sent"]
        /\ letters' = Append(letters, letter)
        /\ Disturbs(q, {work[q].document})
    BY <1>1 DEF SendLetter, Goes
  <1>3. /\ letter \in [document : Documents, stage : 1 .. Stages]
        /\ letter.document = work[q].document
        /\ work[q] \in RemindWork
    BY <1>1, <1>2, LetterIsTyped
  <1>4. /\ letters' \in Seq([document : Documents, stage : 1 .. Stages])
        /\ DOMAIN letters' = DOMAIN letters \union {Len(letters) + 1}
        /\ letters'[Len(letters) + 1] = letter
        /\ \A i \in DOMAIN letters : letters'[i] = letters[i]
    BY <1>2, <1>3 DEF TypeOK
  <1>5. /\ RequestsTyped' /\ pc'[q] = "sent"
        /\ \A r \in Requests \ {q} : pc'[r] = pc[r]
    BY <1>2 DEF TypeOK, RequestsTyped
  <1>6. disturbed \subseteq disturbed' /\ disturbed' \subseteq Requests
    BY <1>2 DEF Disturbs, TypeOK
  <1>7. TypeOK'
    <2>1. \A e \in Documents : Issued(e)' = Issued(e)
      BY <1>2 DEF Issued
    <2> QED
      BY <1>2, <1>4, <1>5, <1>6, <2>1 DEF TypeOK, RequestsTyped
  <1>8. WorkIsSound' /\ UndisturbedIsCurrent'
    BY <1>2, <1>3, <1>5, <1>6 DEF WorkIsSound, UndisturbedIsCurrent
  <1>9. NothingFromNowhere' /\ GaplessUnlessMuddled' /\ IssuedAsPostedUnlessMuddled'
    BY <1>2, BooksStay
  <1>10. LettersAreAccountedFor'
    <2>1. \A r \in Requests : Letter(r)' = Letter(r)
      BY <1>2 DEF Letter
    <2>2. \A r \in Requests : pc[r] = "sent" => pc'[r] = "sent"
      BY <1>5
    <2> QED
      BY <1>1, <1>2, <1>4, <1>5, <2>1, <2>2 DEF LettersAreAccountedFor
  <1>11. PlannedIsAbove'
    <2> SUFFICES ASSUME NEW r \in Requests \ disturbed', pc'[r] = "planned",
                        work[r].document \notin muddled,
                        NEW i \in DOMAIN letters', letters'[i].document = work[r].document
                 PROVE  letters'[i].stage < work[r].due
      BY <1>2 DEF PlannedIsAbove
    <2>1. r # q /\ pc[r] = "planned"
      BY <1>5
    <2>2. work[r].document # work[q].document
      BY <1>2, <2>1, OthersAreDisturbed
    <2>3. i \in DOMAIN letters /\ letters'[i] = letters[i]
      BY <1>3, <1>4, <2>2
    <2> QED
      BY <1>6, <2>1, <2>3 DEF PlannedIsAbove
  <1> QED
    BY <1>7, <1>8, <1>9, <1>10, <1>11

\* A reminder ends, recorded or cut short.
LEMMA ReminderEnds ==
    ASSUME SalesInv, NEW q \in Requests, RecordDelivery(q) \/ ReminderCutShort(q)
    PROVE  SalesInv'
  <1> USE DEF SalesInv
  <1>1. /\ UNCHANGED <<documents, counter, entries, allocated, letters>>
        /\ pc[q] \in {"planned", "sent"}
        /\ deliveries \subseteq deliveries' /\ deliveries' \subseteq deliveries \union {Letter(q)}
        /\ muddled \subseteq muddled' /\ muddled' \subseteq muddled \union {work[q].document}
        /\ pc[q] = "sent" => Letter(q) \in deliveries' \/ work[q].document \in muddled'
        /\ disturbed \subseteq disturbed' /\ disturbed' \subseteq Requests
    BY DEF RecordDelivery, ReminderCutShort, Disturbs, TypeOK
  <1>2. /\ Letter(q) \in [document : Documents, stage : 1 .. Stages]
        /\ Letter(q).document = work[q].document /\ work[q].document \in Documents
    BY <1>1, LetterIsTyped
  <1>3. /\ RequestsTyped' /\ pc'[q] = "done"
        /\ \A r \in Requests \ {q} : pc'[r] = pc[r] /\ work'[r] = work[r]
    BY EndIsTyped DEF RecordDelivery, ReminderCutShort
  <1>4. TypeOK'
    <2>1. \A e \in Documents : Issued(e)' = Issued(e)
      BY <1>1 DEF Issued
    <2>2. /\ deliveries' \subseteq [document : Documents, stage : 1 .. Stages]
          /\ muddled' \subseteq Documents
      BY <1>1, <1>2 DEF TypeOK
    <2> QED
      BY <1>1, <1>3, <2>1, <2>2 DEF TypeOK, RequestsTyped
  <1>5. WorkIsSound' /\ UndisturbedIsCurrent'
    BY <1>1, <1>3 DEF WorkIsSound, UndisturbedIsCurrent
  <1>6. NothingFromNowhere' /\ GaplessUnlessMuddled' /\ IssuedAsPostedUnlessMuddled'
    BY <1>1, BooksStay
  <1>7. LettersAreAccountedFor'
    <2>1. \A r \in Requests \ {q} : Letter(r)' = Letter(r)
      BY <1>3 DEF Letter
    <2> QED
      BY <1>1, <1>2, <1>3, <2>1 DEF LettersAreAccountedFor
  <1>8. PlannedIsAbove'
    BY <1>1, <1>3 DEF PlannedIsAbove
  <1> QED
    BY <1>4, <1>5, <1>6, <1>7, <1>8

LEMMA NextHolds == SalesInv /\ [Next]_vars => SalesInv'
  <1> SUFFICES ASSUME SalesInv, [Next]_vars PROVE SalesInv'
    OBVIOUS
  <1>1. CASE UNCHANGED vars
    <2>1. UNCHANGED <<documents, counter, entries, allocated, deliveries, letters, pc, work,
                      disturbed, muddled>>
      BY <1>1 DEF vars
    <2>2. RequestsTyped'
      BY <2>1 DEF SalesInv, TypeOK, RequestsTyped
    <2>3. TypeOK'
      BY <2>1, <2>2, TypeStays, TypedRequests DEF SalesInv
    <2>4. NothingFromNowhere' /\ GaplessUnlessMuddled' /\ IssuedAsPostedUnlessMuddled'
      BY <2>1, BooksStay
    <2>5. LettersAreAccountedFor' /\ PlannedIsAbove'
      BY <2>1, LettersStay
    <2> QED
      BY <2>1, <2>3, <2>4, <2>5 DEF SalesInv, WorkIsSound, UndisturbedIsCurrent
  <1>2. CASE Next
    BY <1>2, DraftHolds, EditingBegins, ReadLinesHolds, IssueCommits, ReplaceCommits,
       AbandonHolds, AllocationHolds, ReminderBegins, SendHolds, ReminderEnds DEF Next
  <1> QED
    BY <1>1, <1>2

LEMMA InvIsInvariant == Spec => []SalesInv
  BY InitHolds, NextHolds, PTL DEF Spec

\* The tables of sales documents keep their types, and a document has a number
\* exactly when it is issued (sales_invoices_issued_is_complete).
THEOREM TypeCorrect == Spec => []TypeOK
  <1>1. SalesInv => TypeOK
    BY DEF SalesInv
  <1> QED
    BY <1>1, InvIsInvariant, PTL

\* Invoice numbers are 1 up to the counter, each once (allocateInvoiceNumber), unless
\* two issues of one document overlapped.
THEOREM NumbersAreGapless == Spec => []GaplessUnlessMuddled
  <1>1. SalesInv => GaplessUnlessMuddled
    BY DEF SalesInv
  <1> QED
    BY <1>1, InvIsInvariant, PTL

\* What is issued is what is posted, once (handleIssueInvoice, markIssued), unless the
\* document changed while it was being issued.
THEOREM IssuedIsPosted == Spec => []IssuedAsPostedUnlessMuddled
  <1>1. SalesInv => IssuedAsPostedUnlessMuddled
    BY DEF SalesInv
  <1> QED
    BY <1>1, InvIsInvariant, PTL

\* An undisturbed reminder is higher than all that went out before (planDunning,
\* handleSendDunningReminder), whoever sent those.
THEOREM RemindersRise == Spec => RemindersRiseUnlessMuddled
  <1> DEFINE A == \A q \in Requests :
                    pc[q] = "planned" /\ pc'[q] = "sent"
                        => \/ q \in disturbed
                           \/ work[q].document \in muddled
                           \/ \A i \in DOMAIN letters :
                                letters[i].document = work[q].document => letters[i].stage < work[q].due
  <1>1. SalesInv => A
    BY DEF SalesInv, PlannedIsAbove
  <1>2. SalesInv /\ [Next]_vars => [A]_vars
    BY <1>1
  <1> HIDE DEF A
  <1>3. Spec => [][A]_vars
    BY <1>2, InvIsInvariant, PTL DEF Spec
  <1> QED
    BY <1>3 DEF A, RemindersRiseUnlessMuddled

-----------------------------------------------------------------------------
(* Who is chased owes.  What is open of an issued document depends on its own     *)
(* row, on what was settled of it and on the credit notes for it; each step that  *)
(* changes one of these disturbs the reminders that are planned.                  *)

\* An undisturbed plan is about an issued document of which something is open.
PlannedIsOwed ==
    \A q \in Requests \ disturbed :
        pc[q] = "planned" => Issued(work[q].document) /\ Outstanding(work[q].document) > 0

CreditsOf(d) ==
    {c \in Documents : /\ Issued(c)
                       /\ documents[c].content.kind = "credit_note"
                       /\ documents[c].content.credits = d}

\* The same credit notes of the same amounts leave the same to be paid.
LEMMA OutstandingStays ==
    ASSUME NEW d, CreditsOf(d)' = CreditsOf(d),
           \A c \in CreditsOf(d) \union {d} : documents'[c].content = documents[c].content,
           allocated'[d] = allocated[d]
    PROVE  Outstanding(d)' = Outstanding(d)
  <1>1. Credited(d)' = Credited(d)
    BY DEF Credited, CreditsOf
  <1>2. documents'[d].content = documents[d].content
    OBVIOUS
  <1> QED
    BY <1>1, <1>2 DEF Outstanding

\* A step that leaves the issued documents and the settlements alone.
LEMMA IssuedStay ==
    ASSUME SalesInv, PlannedIsOwed, UNCHANGED allocated, disturbed \subseteq disturbed',
           \A d \in Documents : Issued(d)' = Issued(d),
           \A d \in Documents : Issued(d) => documents'[d].content = documents[d].content,
           \A q \in Requests : pc'[q] = "planned" => pc[q] = "planned" /\ work'[q] = work[q]
    PROVE  PlannedIsOwed'
  <1> SUFFICES ASSUME NEW q \in Requests \ disturbed', pc'[q] = "planned", NEW d,
                      d = work[q].document
               PROVE  Issued(d)' /\ Outstanding(d)' > 0
    BY DEF PlannedIsOwed
  <1>1. Issued(d) /\ Outstanding(d) > 0 /\ d \in Documents
    BY DEF PlannedIsOwed, SalesInv, WorkIsSound, RemindWork
  <1>2. CreditsOf(d)' = CreditsOf(d)
    BY DEF CreditsOf
  <1>3. \A c \in CreditsOf(d) \union {d} : documents'[c].content = documents[c].content
    BY <1>1 DEF CreditsOf
  <1> QED
    BY <1>1, <1>2, <1>3, OutstandingStays

\* An import credits nothing.
LEMMA DraftLeavesPlans ==
    ASSUME SalesInv, PlannedIsOwed, NEW d \in Documents, HandleDraftInvoice(d) \/ ImportInvoice(d)
    PROVE  PlannedIsOwed'
  <1> USE DEF SalesInv
  <1>1. /\ documents[d] = Absent /\ ~ Issued(d)
        /\ UNCHANGED <<allocated, pc, work, disturbed>>
        /\ \A e \in Documents \ {d} : documents'[e] = documents[e] /\ Issued(e)' = Issued(e)
    <2>1. PICK row : documents' = [documents EXCEPT ![d] = row]
      BY DEF HandleDraftInvoice, ImportInvoice
    <2>2. \A e \in Documents \ {d} : documents'[e] = documents[e]
      BY <2>1 DEF TypeOK
    <2>3. documents[d] = Absent /\ UNCHANGED <<allocated, pc, work, disturbed>>
      BY DEF HandleDraftInvoice, ImportInvoice
    <2> QED
      BY <2>2, <2>3 DEF Issued, Absent
  <1>2. Issued(d)' => documents'[d].content.credits = NoDocument
    BY DEF HandleDraftInvoice, ImportInvoice, TypeOK, Issued, Row
  <1> SUFFICES ASSUME NEW q \in Requests \ disturbed, pc[q] = "planned", NEW e,
                      e = work[q].document
               PROVE  Issued(e)' /\ Outstanding(e)' > 0
    BY <1>1 DEF PlannedIsOwed
  <1>3. Issued(e) /\ Outstanding(e) > 0 /\ e \in Documents \ {d}
    BY <1>1 DEF PlannedIsOwed, WorkIsSound, RemindWork
  <1>4. CreditsOf(e)' = CreditsOf(e)
    BY <1>1, <1>2, <1>3, SalesConstants DEF CreditsOf
  <1>5. \A c \in CreditsOf(e) \union {e} : documents'[c].content = documents[c].content
    BY <1>1, <1>3 DEF CreditsOf
  <1> QED
    BY <1>1, <1>3, <1>4, <1>5, OutstandingStays

\* A document that is issued may be a credit note: who is planned for the one it
\* credits is disturbed.
LEMMA IssueLeavesPlans ==
    ASSUME SalesInv, PlannedIsOwed, NEW p \in Requests, CommitIssue(p)
    PROVE  PlannedIsOwed'
  <1> USE DEF SalesInv
  <1>1. PICK d : d = work[p].document
    OBVIOUS
  <1>2. /\ d \in Documents /\ documents[d] \in Rows /\ pc[p] = "priced"
        /\ Disturbs(p, {d, documents[d].content.credits})
        /\ UNCHANGED allocated
    BY <1>1 DEF CommitIssue, WorkIsSound, IssueWork, TypeOK
  <1>3. /\ \A e \in Documents : documents'[e].content = documents[e].content
        /\ \A e \in Documents \ {d} : Issued(e)' = Issued(e)
        /\ \A e \in Documents : Issued(e) => Issued(e)'
    BY <1>1, <1>2 DEF CommitIssue, Marked, TypeOK, Issued, Rows
  <1>4. \A r \in Requests : pc'[r] = "planned" => pc[r] = "planned" /\ work'[r] = work[r] /\ r # p
    BY EndIsTyped DEF CommitIssue
  <1> SUFFICES ASSUME NEW q \in Requests \ disturbed', pc'[q] = "planned", NEW e,
                      e = work[q].document
               PROVE  Issued(e)' /\ Outstanding(e)' > 0
    BY <1>4 DEF PlannedIsOwed
  <1>5. e \in Documents \ {d} /\ e # documents[d].content.credits
    BY <1>2, <1>4, OthersAreDisturbed DEF WorkIsSound, RemindWork
  <1>6. Issued(e) /\ Outstanding(e) > 0
    BY <1>2, <1>4 DEF PlannedIsOwed, Disturbs
  <1>7. CreditsOf(e)' = CreditsOf(e)
    BY <1>3, <1>5 DEF CreditsOf
  <1>8. \A c \in CreditsOf(e) \union {e} : documents'[c].content = documents[c].content
    BY <1>3, <1>5 DEF CreditsOf
  <1> QED
    BY <1>2, <1>3, <1>5, <1>6, <1>7, <1>8, OutstandingStays

LEMMA AllocationLeavesPlans ==
    ASSUME SalesInv, PlannedIsOwed, NEW d \in Documents, Allocate(d)
    PROVE  PlannedIsOwed'
  <1> USE DEF SalesInv
  <1>1. /\ UNCHANGED <<documents, pc, work>> /\ Disturbs(NoWork, {d})
        /\ \A e \in Documents \ {d} : allocated'[e] = allocated[e]
    BY DEF Allocate, TypeOK
  <1> SUFFICES ASSUME NEW q \in Requests \ disturbed', pc[q] = "planned", NEW e,
                      e = work[q].document
               PROVE  Issued(e)' /\ Outstanding(e)' > 0
    BY <1>1 DEF PlannedIsOwed
  <1>2. e \in Documents \ {d}
    BY <1>1, OthersAreDisturbed, SalesConstants DEF WorkIsSound, RemindWork
  <1>3. Issued(e) /\ Outstanding(e) > 0
    BY <1>1 DEF PlannedIsOwed, Disturbs
  <1>4. CreditsOf(e)' = CreditsOf(e) /\ Issued(e)' = Issued(e)
    BY <1>1 DEF CreditsOf, Issued
  <1> QED
    BY <1>1, <1>2, <1>3, <1>4, OutstandingStays

LEMMA ReminderPlansAreOwed ==
    ASSUME SalesInv, PlannedIsOwed, NEW p \in Requests, HandleSendDunningReminder(p)
    PROVE  PlannedIsOwed'
  <1> USE DEF SalesInv
  <1>1. PICK d, w :
            /\ d \in Documents /\ Dunnable(d) /\ w.document = d
            /\ work' = [work EXCEPT ![p] = w]
    BY DEF HandleSendDunningReminder
  <1>2. /\ UNCHANGED <<documents, allocated>> /\ disturbed \subseteq disturbed'
        /\ \A r \in Requests \ {p} : pc'[r] = pc[r]
    BY DEF HandleSendDunningReminder, Goes, TypeOK
  <1>3. work'[p] = w /\ \A r \in Requests \ {p} : work'[r] = work[r]
    BY <1>1 DEF TypeOK
  <1> SUFFICES ASSUME NEW q \in Requests \ disturbed', pc'[q] = "planned", NEW e,
                      e = work'[q].document
               PROVE  Issued(e)' /\ Outstanding(e)' > 0
    BY DEF PlannedIsOwed
  <1>4. Issued(e) /\ Outstanding(e) > 0 /\ e \in Documents
    <2>1. CASE q = p
      BY <1>1, <1>3, <2>1 DEF Dunnable
    <2>2. CASE q # p
      BY <1>2, <1>3, <2>2 DEF PlannedIsOwed, WorkIsSound, RemindWork
    <2> QED
      BY <2>1, <2>2
  <1>5. CreditsOf(e)' = CreditsOf(e) /\ Issued(e)' = Issued(e)
    BY <1>2 DEF CreditsOf, Issued
  <1> QED
    BY <1>2, <1>4, <1>5, OutstandingStays

LEMMA PlansStayOwed == SalesInv /\ PlannedIsOwed /\ [Next]_vars => PlannedIsOwed'
  <1> SUFFICES ASSUME SalesInv, PlannedIsOwed, [Next]_vars PROVE PlannedIsOwed'
    OBVIOUS
  <1> USE DEF SalesInv
  <1>1. CASE UNCHANGED vars
    BY <1>1, IssuedStay DEF vars, Issued
  <1>2. ASSUME NEW q \in Requests, CommitReplace(q) PROVE PlannedIsOwed'
    <2>1. PICK d, content : d = work[q].document /\ content = work[q].content
      OBVIOUS
    <2>2. /\ documents[d].status = "draft" /\ Disturbs(q, {d}) /\ UNCHANGED allocated
          /\ documents' = [documents EXCEPT ![d].content = content]
      BY <1>2, <2>1 DEF CommitReplace, Replaceable
    <2>3. \A e \in Documents : /\ Issued(e)' = Issued(e)
                               /\ Issued(e) => documents'[e].content = documents[e].content
      <3>1. d \in Documents /\ documents[d] \in Rows
        BY <1>2, <2>1 DEF CommitReplace, WorkIsSound, ReplaceWork, TypeOK
      <3>2. documents'[d].status = "draft" /\ \A e \in Documents \ {d} : documents'[e] = documents[e]
        BY <2>2, <3>1 DEF TypeOK, Rows
      <3> QED
        BY <2>2, <3>2 DEF Issued
    <2>4. \A r \in Requests : pc'[r] = "planned" => pc[r] = "planned" /\ work'[r] = work[r]
      BY <1>2, EndIsTyped DEF CommitReplace
    <2> QED
      BY <2>2, <2>3, <2>4, IssuedStay DEF Disturbs
  <1>3. ASSUME NEW q \in Requests,
               \/ HandleIssueInvoice(q) \/ ReadLines(q) \/ HandleReplaceDraftInvoice(q)
               \/ Abandon(q) \/ SendLetter(q) \/ RecordDelivery(q) \/ ReminderCutShort(q)
        PROVE  PlannedIsOwed'
    <2>1. UNCHANGED <<documents, allocated>>
      BY <1>3 DEF HandleIssueInvoice, ReadLines, HandleReplaceDraftInvoice, Abandon, SendLetter,
         RecordDelivery, ReminderCutShort
    <2>2. disturbed \subseteq disturbed'
      BY <1>3 DEF HandleIssueInvoice, ReadLines, HandleReplaceDraftInvoice, Abandon, SendLetter,
         RecordDelivery, ReminderCutShort, Disturbs
    <2>3. \A r \in Requests : pc'[r] = "planned" => pc[r] = "planned" /\ r # q
      BY <1>3 DEF HandleIssueInvoice, ReadLines, HandleReplaceDraftInvoice, Abandon, SendLetter,
         RecordDelivery, ReminderCutShort, Ends, Goes, TypeOK
    <2>4. \A r \in Requests \ {q} : work'[r] = work[r]
      BY <1>3 DEF HandleIssueInvoice, ReadLines, HandleReplaceDraftInvoice, Abandon, SendLetter,
         RecordDelivery, ReminderCutShort, Ends, TypeOK
    <2> QED
      BY <2>1, <2>2, <2>3, <2>4, IssuedStay DEF Issued
  <1>4. CASE Next
    BY <1>2, <1>3, <1>4, DraftLeavesPlans, IssueLeavesPlans, AllocationLeavesPlans,
       ReminderPlansAreOwed DEF Next
  <1> QED
    BY <1>1, <1>4

\* What was credited is a number of cents.
LEMMA OpenIsOwed ==
    ASSUME TypeOK, NEW d \in Documents, Issued(d), Outstanding(d) > 0
    PROVE  documents[d].content.amount > allocated[d] + Credited(d)
  <1>1. \A c \in Documents : Issued(c) => documents[c] \in Rows
    BY DEF TypeOK, Issued, Absent
  <1>2. \A c \in Documents : Issued(c) => documents[c].content.amount \in Nat
    BY <1>1, SalesConstants DEF Rows, Readings
  <1>3. Credited(d) \in Int
    <2>1. IsFiniteSet(CreditsOf(d)) /\ \A c \in CreditsOf(d) : documents[c].content.amount \in Int
      BY <1>2, SalesConstants, FS_Subset DEF CreditsOf
    <2> DEFINE amounts == [c \in CreditsOf(d) |-> documents[c].content.amount]
    <2>2. Credited(d) = SumFunctionOnSet(amounts, CreditsOf(d))
      BY DEF Credited, CreditsOf
    <2>3. \A c \in CreditsOf(d) : amounts[c] \in Int
      BY <2>1
    <2> HIDE DEF amounts
    <2> QED
      BY <2>1, <2>2, <2>3, SumIsInt
  <1>4. allocated[d] \in Nat
    BY DEF TypeOK
  <1> QED
    BY <1>2, <1>3, <1>4 DEF Outstanding

\* A reminder that was not disturbed goes out for an invoice of which the bank lines
\* and the credit notes leave something to pay (dunnable, invoiceOutstandingMinor),
\* though it was planned, and the invoice read, in an earlier transaction.
THEOREM WhoIsChasedOwes == Spec => OnlyOwedIsChased
  <1> DEFINE A == \A q \in Requests :
                    pc[q] = "planned" /\ pc'[q] = "sent"
                        => \/ q \in disturbed
                           \/ LET d == work[q].document
                              IN  documents[d].content.amount > allocated[d] + Credited(d)
  <1>1. Init => PlannedIsOwed
    BY DEF Init, PlannedIsOwed
  <1>2. Spec => []PlannedIsOwed
    BY <1>1, PlansStayOwed, InvIsInvariant, PTL DEF Spec
  <1>3. SalesInv /\ PlannedIsOwed => A
    <2> SUFFICES ASSUME SalesInv, NEW q \in Requests, pc[q] = "planned",
                        NEW d, d = work[q].document, Issued(d), Outstanding(d) > 0
                 PROVE  documents[d].content.amount > allocated[d] + Credited(d)
      BY DEF PlannedIsOwed
    <2>1. d \in Documents
      BY DEF SalesInv, WorkIsSound, RemindWork
    <2> QED
      BY <2>1, OpenIsOwed DEF SalesInv
  <1>4. SalesInv /\ PlannedIsOwed /\ [Next]_vars => [A]_vars
    BY <1>3
  <1> HIDE DEF A
  <1>5. Spec => [][A]_vars
    BY <1>2, <1>4, InvIsInvariant, PTL DEF Spec
  <1> QED
    BY <1>5 DEF A, OnlyOwedIsChased

=============================================================================
