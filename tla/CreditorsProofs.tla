---------------------------- MODULE CreditorsProofs ----------------------------
(***************************************************************************)
(* Theorems about the creditors' side: Purchase, where invoices are        *)
(* captured, booked and approved, and Payments, where approved ones are    *)
(* paid, for any number of requests, invoices, batches, keys and actors.   *)
(***************************************************************************)
EXTENDS Purchase, Payments, SumTheorems

-----------------------------------------------------------------------------
(* Purchase *)

\* What invoice d was captured with, and is booked for.
Says(d) == [number |-> invoices[d].number, content |-> invoices[d].content]

\* What a request holds is what it asked for, of an invoice that was captured and
\* still says what it said; a script approves nothing.
WorkIsSound ==
    \A q \in Requests :
        /\ pc[q] = "capturing" => work[q] \in CaptureWork
        /\ pc[q] = "booking" =>
            /\ work[q] \in BookWork
            /\ invoices[work[q].invoice] # Absent
            /\ work[q].command = Says(work[q].invoice)
        /\ pc[q] = "transition" =>
            /\ work[q] \in TransitionWork
            /\ invoices[work[q].invoice] # Absent
            /\ work[q].op = "approve" => work[q].actor \in Humans

\* An entry an invoice points at is in the journal and says what the invoice says.
LinksAreSound ==
    \A d \in Captured : invoices[d].entry # 0 =>
        /\ invoices[d].entry \in DOMAIN entries
        /\ entries[invoices[d].entry].command = Says(d)

\* What a booking read still holds, unless the invoice changed under it.
UndisturbedIsDraft ==
    \A q \in Requests \ disturbed :
        pc[q] = "booking" => invoices[work[q].invoice].status = "draft"

\* Only an approved invoice has an approval, and it is a human's.
ApprovalsAreHuman ==
    \A d \in Captured \ muddled :
        invoices[d].approvedBy \in IF invoices[d].status = "approved" THEN Humans ELSE {NoOne}

PurchaseInv ==
    TypeOK /\ WorkIsSound /\ LinksAreSound /\ UndisturbedIsDraft /\ ApprovalsAreHuman

LEMMA InitHolds == Init => PurchaseInv
  <1> SUFFICES ASSUME Init PROVE PurchaseInv
    OBVIOUS
  <1> USE DEF Init
  <1>1. Captured = {} /\ OpenItems = {}
    BY DEF Captured, OpenItems, Absent
  <1>2. TypeOK
    BY <1>1 DEF TypeOK
  <1> QED
    BY <1>1, <1>2 DEF PurchaseInv, WorkIsSound, LinksAreSound, UndisturbedIsDraft,
       ApprovalsAreHuman


\* What TypeOK says of the requests.
RequestsTyped ==
    /\ work \in [Requests -> Works \union {NoWork}]
    /\ pc \in [Requests -> {"idle", "capturing", "booking", "transition", "done"}]
    /\ \A q \in Requests : pc[q] \in {"idle", "done"} <=> work[q] = NoWork

LEMMA BeginIsTyped ==
    ASSUME TypeOK, NEW q \in Requests,
           UNCHANGED <<invoices, entries, reversed, disturbed, muddled>>,
           work' = [work EXCEPT ![q] = work'[q]], work'[q] \in Works,
           NEW step \in {"capturing", "booking", "transition"}, Goes(q, step)
    PROVE  TypeOK'
  <1>1. RequestsTyped'
    BY PurchaseConstants DEF TypeOK, RequestsTyped, Goes
  <1> QED
    BY <1>1 DEF TypeOK, RequestsTyped, OpenItems, Captured

LEMMA EndIsTyped ==
    ASSUME TypeOK, NEW q \in Requests, Ends(q)
    PROVE  RequestsTyped'
  BY DEF TypeOK, Ends, Goes, RequestsTyped

LEMMA CaptureBegins ==
    ASSUME PurchaseInv, NEW q \in Requests, HandleCapturePurchaseInvoice(q)
    PROVE  PurchaseInv'
  <1> USE DEF PurchaseInv, HandleCapturePurchaseInvoice
  <1>1. PICK d \in Invoices \ Captured, number \in Numbers, content \in Contents :
            work' = [work EXCEPT ![q] =
                [op |-> "capture", invoice |-> d, number |-> number, content |-> content]]
    OBVIOUS
  <1>a. work'[q] \in CaptureWork /\ pc'[q] = "capturing"
    BY <1>1 DEF Goes, TypeOK, CaptureWork
  <1>2. TypeOK'
    BY <1>1, <1>a, BeginIsTyped DEF Works, TypeOK
  <1>3. WorkIsSound'
    BY <1>1, <1>a DEF Goes, TypeOK, WorkIsSound, Says
  <1>4. LinksAreSound' /\ UndisturbedIsDraft' /\ ApprovalsAreHuman'
    BY <1>1 DEF Goes, TypeOK, LinksAreSound, UndisturbedIsDraft, ApprovalsAreHuman, Says, Captured
  <1> QED
    BY <1>2, <1>3, <1>4

LEMMA BookingBegins ==
    ASSUME PurchaseInv, NEW q \in Requests, HandleBookPurchaseInvoice(q)
    PROVE  PurchaseInv'
  <1> USE DEF PurchaseInv, HandleBookPurchaseInvoice
  <1>1. PICK d \in Captured, key \in Keys, actor \in Actors :
            /\ Allowed("book", invoices[d].status, actor)
            /\ work' = [work EXCEPT ![q] =
                [op |-> "book", invoice |-> d, key |-> key,
                 command |-> [number |-> invoices[d].number, content |-> invoices[d].content]]]
    OBVIOUS
  <1>2. invoices[d].status = "draft" /\ invoices[d] \in Rows
    BY <1>1 DEF Allowed, AllowedFrom, TypeOK, Captured
  <1>a. work'[q] = [op |-> "book", invoice |-> d, key |-> key, command |-> Says(d)]
    BY <1>1 DEF TypeOK, Says
  <1>b. Says(d) \in Commands /\ d \in Invoices
    BY <1>2 DEF Says, Commands, Rows, Captured
  <1>3. work'[q] \in BookWork /\ pc'[q] = "booking"
    BY <1>a, <1>b DEF Goes, BookWork, TypeOK
  <1>4. TypeOK'
    BY <1>1, <1>3, BeginIsTyped DEF Works, TypeOK
  <1>5. WorkIsSound'
    BY <1>1, <1>a, <1>3 DEF Goes, TypeOK, WorkIsSound, Says, Captured
  <1>6. UndisturbedIsDraft'
    BY <1>1, <1>2 DEF Goes, TypeOK, UndisturbedIsDraft
  <1>7. LinksAreSound' /\ ApprovalsAreHuman'
    BY <1>1 DEF LinksAreSound, ApprovalsAreHuman, Says, Captured
  <1> QED
    BY <1>4, <1>5, <1>6, <1>7

LEMMA TransitionBegins ==
    ASSUME PurchaseInv, NEW q \in Requests, HandleTransitionPurchaseInvoice(q)
    PROVE  PurchaseInv'
  <1> USE DEF PurchaseInv, HandleTransitionPurchaseInvoice
  <1>1. PICK d \in Captured, action \in Transitions, actor \in Actors :
            /\ Allowed(action, invoices[d].status, actor)
            /\ work' = [work EXCEPT ![q] = [op |-> action, invoice |-> d, actor |-> actor]]
    OBVIOUS
  <1>2. work'[q] \in TransitionWork /\ pc'[q] = "transition"
    BY <1>1 DEF Goes, TransitionWork, TypeOK, Captured
  <1>3. TypeOK'
    BY <1>1, <1>2, BeginIsTyped DEF Works, TypeOK
  <1>4. WorkIsSound'
    BY <1>1, <1>2 DEF Goes, TypeOK, WorkIsSound, Says, Captured, Allowed
  <1>5. LinksAreSound' /\ UndisturbedIsDraft' /\ ApprovalsAreHuman'
    BY <1>1 DEF Goes, TypeOK, LinksAreSound, UndisturbedIsDraft, ApprovalsAreHuman, Says, Captured
  <1> QED
    BY <1>3, <1>4, <1>5

LEMMA CaptureCommits ==
    ASSUME PurchaseInv, NEW q \in Requests, CommitCapture(q)
    PROVE  PurchaseInv'
  <1> USE DEF PurchaseInv, CommitCapture
  <1>0. RequestsTyped'
    BY EndIsTyped
  <1> DEFINE d == work[q].invoice
             row == [status |-> "draft", number |-> work[q].number, content |-> work[q].content,
                     entry |-> 0, approvedBy |-> NoOne]
  <1>1. work[q] \in CaptureWork /\ d \in Invoices /\ invoices[d] = Absent
    BY DEF WorkIsSound, CaptureWork
  <1>2. row \in Rows /\ row # Absent
    BY <1>1 DEF Rows, CaptureWork, Absent
  <1>3. invoices' = [invoices EXCEPT ![d] = row]
    OBVIOUS
  <1> HIDE DEF row
  <1>4. /\ invoices' \in [Invoices -> {Absent} \union Rows]
        /\ invoices'[d] = row
        /\ \A e \in Invoices \ {d} : invoices'[e] = invoices[e]
        /\ Captured' = Captured \union {d}
    BY <1>1, <1>2, <1>3 DEF TypeOK, Captured
  <1>5. row.status = "draft" /\ row.entry = 0 /\ row.approvedBy = NoOne /\ row.number = work[q].number
    BY DEF row
  <1>6. OpenItems' = OpenItems
    BY <1>1, <1>4, <1>5 DEF OpenItems, Captured
  <1>7. \A e, f \in Captured' : invoices'[e].number = invoices'[f].number => e = f
    BY <1>1, <1>4, <1>5 DEF TypeOK, NumberTaken, Captured
  <1>8. TypeOK'
    <2>1. \A e \in OpenItems' : invoices'[e].entry \in DOMAIN entries'
      BY <1>1, <1>4, <1>6 DEF TypeOK, OpenItems, Captured
    <2> QED
      BY <1>0, <1>4, <1>7, <2>1 DEF TypeOK, RequestsTyped
  <1>9. WorkIsSound'
    <2>1. \A r \in Requests : pc[r] \in {"booking", "transition"} => work[r].invoice \in Invoices \ {d}
      BY <1>1 DEF WorkIsSound, BookWork, TransitionWork
    <2>2. \A e \in Invoices \ {d} : Says(e)' = Says(e)
      BY <1>4 DEF Says
    <2>3. pc'[q] = "done" /\ \A r \in Requests \ {q} : pc'[r] = pc[r] /\ work'[r] = work[r]
      BY DEF Ends, Goes, TypeOK
    <2> QED
      BY <1>4, <2>1, <2>2, <2>3 DEF WorkIsSound
  <1>10. LinksAreSound' /\ ApprovalsAreHuman'
    BY <1>1, <1>4, <1>5 DEF LinksAreSound, ApprovalsAreHuman, Says, Captured
  <1>11. UndisturbedIsDraft'
    BY <1>1, <1>4, <1>5 DEF Ends, Goes, TypeOK, UndisturbedIsDraft, WorkIsSound, BookWork
  <1> QED
    BY <1>8, <1>9, <1>10, <1>11


\* What the step of one request on an invoice does to the other requests.
LEMMA OthersAreDisturbed ==
    ASSUME TypeOK, NEW q \in Requests, NEW d, Disturbs(q, d), Ends(q),
           NEW r \in Requests \ {q}, pc'[r] \in {"capturing", "booking", "transition"}
    PROVE  /\ pc'[r] = pc[r] /\ work'[r] = work[r]
           /\ work[r].invoice = d => r \in disturbed'
  BY DEF TypeOK, Disturbs, Ends, Goes

LEMMA BookingCommits ==
    ASSUME PurchaseInv, NEW q \in Requests, CommitBooking(q)
    PROVE  PurchaseInv'
  <1> USE DEF PurchaseInv
  <1> DEFINE d == work[q].invoice
             fresh == [key |-> work[q].key, invoice |-> d, command |-> work[q].command]
  <1>1. /\ work[q] \in BookWork /\ d \in Invoices /\ invoices[d] # Absent
        /\ work[q].command = Says(d) /\ work[q].command \in Commands
        /\ pc[q] = "booking"
    BY DEF CommitBooking, WorkIsSound, BookWork
  <1>2. fresh \in [key : Keys, invoice : Invoices, command : Commands]
    BY <1>1 DEF BookWork
  <1>3. PICK n \in Nat \ {0} :
            /\ entries' = entries \/ entries' = Append(entries, fresh)
            /\ n \in DOMAIN entries' /\ entries'[n].command = Says(d)
            /\ invoices' = [invoices EXCEPT ![d].status = "booked", ![d].entry = n]
    <2>1. CASE PostedUnder(work[q].key) = {}
      <3>1. entries' = Append(entries, fresh) /\ invoices' = Booked(d, Len(entries) + 1)
        BY <2>1 DEF CommitBooking
      <3>2. /\ Len(entries) + 1 \in DOMAIN entries'
            /\ entries'[Len(entries) + 1].command = Says(d)
        BY <1>1, <1>2, <3>1 DEF TypeOK
      <3>3. Len(entries) + 1 \in Nat \ {0}
        BY DEF TypeOK
      <3> QED
        BY <3>1, <3>2, <3>3 DEF Booked
    <2>2. CASE PostedUnder(work[q].key) # {}
      <3>1. PICK i \in PostedUnder(work[q].key) : invoices' = Booked(d, i)
        BY <2>2 DEF CommitBooking
      <3>2. entries' = entries /\ entries[i].command = work[q].command
        BY <2>2 DEF CommitBooking
      <3>3. i \in DOMAIN entries /\ i \in Nat \ {0}
        BY DEF PostedUnder, TypeOK
      <3> QED
        BY <1>1, <3>1, <3>2, <3>3 DEF Booked
    <2> QED
      BY <2>1, <2>2
  <1> HIDE DEF fresh
  <1>4. /\ entries' \in Seq([key : Keys, invoice : Invoices, command : Commands])
        /\ \A i \in DOMAIN entries : i \in DOMAIN entries' /\ entries'[i] = entries[i]
    <2>1. CASE entries' = entries
      BY <2>1 DEF TypeOK
    <2>2. CASE entries' = Append(entries, fresh)
      BY <1>2, <2>2 DEF TypeOK
    <2> QED
      BY <1>3, <2>1, <2>2
  <1>5. invoices[d] \in Rows
    BY <1>1 DEF TypeOK
  <1>6. /\ invoices' \in [Invoices -> {Absent} \union Rows]
        /\ \A e \in Invoices \ {d} : invoices'[e] = invoices[e]
        /\ invoices'[d] = [invoices[d] EXCEPT !.status = "booked", !.entry = n]
        /\ invoices'[d] \in Rows
    BY <1>1, <1>3, <1>5 DEF TypeOK, Rows
  <1>7. /\ invoices'[d].status = "booked" /\ invoices'[d].entry = n
        /\ invoices'[d].approvedBy = invoices[d].approvedBy
        /\ invoices'[d].number = invoices[d].number /\ invoices'[d].content = invoices[d].content
        /\ invoices'[d] # Absent
    BY <1>1, <1>5, <1>6 DEF Rows, Absent
  <1>8. /\ \A e \in Invoices : Says(e)' = Says(e) /\ (invoices'[e] = Absent <=> invoices[e] = Absent)
        /\ Captured' = Captured
    <2>1. \A e \in Invoices : /\ invoices'[e].number = invoices[e].number
                              /\ invoices'[e].content = invoices[e].content
                              /\ invoices'[e] = Absent <=> invoices[e] = Absent
      BY <1>1, <1>6, <1>7
    <2> QED
      BY <2>1 DEF Says, Captured
  <1>9. TypeOK'
    <2>1. RequestsTyped'
      BY EndIsTyped DEF CommitBooking
    <2>2. \A e \in OpenItems' : invoices'[e].entry \in DOMAIN entries'
      <3> SUFFICES ASSUME NEW e \in OpenItems' PROVE invoices'[e].entry \in DOMAIN entries'
        OBVIOUS
      <3>1. CASE e = d
        BY <1>3, <1>7, <3>1
      <3>2. CASE e # d
        <4>1. e \in Captured /\ e \in Invoices /\ invoices'[e] = invoices[e]
          BY <1>6, <1>8, <3>2 DEF OpenItems, Captured
        <4>2. e \in OpenItems
          BY <4>1 DEF OpenItems
        <4> QED
          BY <1>4, <4>1, <4>2 DEF TypeOK
      <3> QED
        BY <3>1, <3>2
    <2>3. \A e, f \in Captured' : invoices'[e].number = invoices'[f].number => e = f
      <3>1. \A e \in Invoices : invoices'[e].number = invoices[e].number
        BY <1>8 DEF Says
      <3> QED
        BY <1>8, <3>1 DEF TypeOK, Captured
    <2>4. reversed' \subseteq DOMAIN entries'
      BY <1>4 DEF TypeOK, CommitBooking
    <2>5. disturbed' \subseteq Requests /\ muddled' \subseteq Invoices
      BY <1>1 DEF TypeOK, CommitBooking, Disturbs, Muddles
    <2> QED
      BY <1>4, <1>6, <2>1, <2>2, <2>3, <2>4, <2>5 DEF TypeOK, RequestsTyped
  <1>10. WorkIsSound'
    BY <1>8, OthersAreDisturbed DEF WorkIsSound, CommitBooking, Ends, Goes, TypeOK, BookWork, TransitionWork
  <1>11. LinksAreSound'
    <2> SUFFICES ASSUME NEW e \in Captured', invoices'[e].entry # 0
                 PROVE  /\ invoices'[e].entry \in DOMAIN entries'
                        /\ entries'[invoices'[e].entry].command = Says(e)'
      BY DEF LinksAreSound
    <2>1. e \in Captured /\ e \in Invoices /\ Says(e)' = Says(e)
      BY <1>8 DEF Captured
    <2>2. CASE e = d
      BY <1>3, <1>7, <2>1, <2>2
    <2>3. CASE e # d
      <3>1. invoices'[e] = invoices[e]
        BY <1>6, <2>1, <2>3
      <3> QED
        BY <1>4, <2>1, <3>1 DEF LinksAreSound
    <2> QED
      BY <2>2, <2>3
  <1>12. UndisturbedIsDraft'
    BY <1>6, OthersAreDisturbed DEF UndisturbedIsDraft, CommitBooking, Ends, Goes, TypeOK, WorkIsSound, BookWork, Disturbs
  <1>13. ApprovalsAreHuman'
    <2>1. d \notin muddled' => invoices[d].status = "draft"
      BY <1>1 DEF UndisturbedIsDraft, CommitBooking, Muddles
    <2>2. muddled \subseteq muddled'
      BY DEF CommitBooking, Muddles
    <2>3. d \notin muddled' => invoices'[d].approvedBy = NoOne
      BY <1>1, <1>7, <2>1, <2>2 DEF ApprovalsAreHuman, Captured
    <2> QED
      BY <1>6, <1>7, <1>8, <2>2, <2>3 DEF ApprovalsAreHuman, Captured
  <1> QED
    BY <1>9, <1>10, <1>11, <1>12, <1>13


LEMMA TransitionCommits ==
    ASSUME PurchaseInv, NEW q \in Requests, CommitTransition(q)
    PROVE  PurchaseInv'
  <1> USE DEF PurchaseInv
  <1> DEFINE d == work[q].invoice
             to == ResultOf(work[q].op)
             approval == IF to = "approved" THEN work[q].actor ELSE NoOne
  <1>1. /\ work[q] \in TransitionWork /\ d \in Invoices /\ invoices[d] # Absent
        /\ invoices[d] \in Rows /\ work[q].actor \in Actors
        /\ work[q].op = "approve" => work[q].actor \in Humans
        /\ to # "cancelled" => invoices[d].entry # 0
    BY DEF CommitTransition, WorkIsSound, TransitionWork, TypeOK
  <1>2. /\ to \in {"booked", "approved", "disputed", "cancelled"}
        /\ to = "approved" <=> work[q].op = "approve"
        /\ approval \in Actors \union {NoOne}
        /\ approval \in IF to = "approved" THEN Humans ELSE {NoOne}
    BY <1>1 DEF ResultOf, TransitionWork, Transitions
  <1>3. invoices' = [invoices EXCEPT ![d].status = to, ![d].approvedBy = approval]
    BY DEF CommitTransition, Moved
  <1> HIDE DEF to, approval
  <1>4. /\ invoices' \in [Invoices -> {Absent} \union Rows]
        /\ \A e \in Invoices \ {d} : invoices'[e] = invoices[e]
        /\ invoices'[d] = [invoices[d] EXCEPT !.status = to, !.approvedBy = approval]
        /\ invoices'[d] \in Rows
    BY <1>1, <1>2, <1>3 DEF TypeOK, Rows
  <1>5. /\ invoices'[d].status = to /\ invoices'[d].approvedBy = approval
        /\ invoices'[d] # Absent
        /\ invoices'[d].entry = invoices[d].entry
        /\ invoices'[d].number = invoices[d].number /\ invoices'[d].content = invoices[d].content
    BY <1>1, <1>2, <1>4 DEF Rows, Absent
  <1>6. \A e \in Invoices : /\ invoices'[e].number = invoices[e].number
                            /\ invoices'[e].content = invoices[e].content
                            /\ invoices'[e].entry = invoices[e].entry
                            /\ invoices'[e] = Absent <=> invoices[e] = Absent
    BY <1>1, <1>4, <1>5
  <1>7. /\ \A e \in Invoices : Says(e)' = Says(e)
        /\ Captured' = Captured
        /\ entries' = entries /\ reversed' = reversed
    BY <1>6 DEF Says, Captured, CommitTransition
  <1>8. TypeOK'
    <2>1. RequestsTyped'
      BY EndIsTyped DEF CommitTransition
    <2>2. \A e \in OpenItems' : invoices'[e].entry \in DOMAIN entries'
      BY <1>1, <1>4, <1>5, <1>6, <1>7 DEF TypeOK, OpenItems, LinksAreSound, Captured
    <2>3. \A e, f \in Captured' : invoices'[e].number = invoices'[f].number => e = f
      BY <1>6, <1>7 DEF TypeOK, Captured
    <2>4. disturbed' \subseteq Requests /\ muddled' \subseteq Invoices
      BY <1>1 DEF TypeOK, CommitTransition, Disturbs, Muddles
    <2> QED
      BY <1>4, <1>7, <2>1, <2>2, <2>3, <2>4 DEF TypeOK, RequestsTyped
  <1>9. WorkIsSound'
    BY <1>6, <1>7, OthersAreDisturbed DEF WorkIsSound, CommitTransition, Ends, Goes, TypeOK, BookWork, TransitionWork
  <1>10. LinksAreSound'
    BY <1>6, <1>7 DEF LinksAreSound, Captured
  <1>11. UndisturbedIsDraft'
    BY <1>4, OthersAreDisturbed DEF UndisturbedIsDraft, CommitTransition, Ends, Goes, TypeOK, WorkIsSound, BookWork, Disturbs
  <1>12. ApprovalsAreHuman'
    <2>1. muddled \subseteq muddled'
      BY DEF CommitTransition, Muddles
    <2> QED
      BY <1>2, <1>4, <1>5, <1>7, <2>1 DEF ApprovalsAreHuman, Captured
  <1> QED
    BY <1>8, <1>9, <1>10, <1>11, <1>12

LEMMA AbandonHolds ==
    ASSUME PurchaseInv, NEW q \in Requests, Abandon(q)
    PROVE  PurchaseInv'
  <1> USE DEF PurchaseInv, Abandon
  <1>1. RequestsTyped'
    BY EndIsTyped
  <1>2. TypeOK'
    BY <1>1 DEF TypeOK, RequestsTyped, OpenItems, Captured
  <1>3. \A r \in Requests : pc'[r] \in {"capturing", "booking", "transition"}
            => pc'[r] = pc[r] /\ work'[r] = work[r]
    BY DEF Ends, Goes, TypeOK
  <1>4. WorkIsSound' /\ UndisturbedIsDraft'
    BY <1>3 DEF WorkIsSound, UndisturbedIsDraft, Says
  <1>5. LinksAreSound' /\ ApprovalsAreHuman'
    BY DEF LinksAreSound, ApprovalsAreHuman, Captured, Says
  <1> QED
    BY <1>2, <1>4, <1>5

LEMMA ReversalHolds ==
    ASSUME PurchaseInv, NEW i \in DOMAIN entries, ReverseEntry(i)
    PROVE  PurchaseInv'
  <1> USE DEF PurchaseInv, ReverseEntry
  <1>1. TypeOK'
    BY DEF TypeOK, OpenItems, Captured
  <1>2. WorkIsSound' /\ UndisturbedIsDraft' /\ LinksAreSound' /\ ApprovalsAreHuman'
    BY DEF WorkIsSound, UndisturbedIsDraft, LinksAreSound, ApprovalsAreHuman, Captured, Says
  <1> QED
    BY <1>1, <1>2

LEMMA NextHolds == PurchaseInv /\ [Next]_vars => PurchaseInv'
  <1> SUFFICES ASSUME PurchaseInv, [Next]_vars PROVE PurchaseInv'
    OBVIOUS
  <1>1. CASE UNCHANGED vars
    BY <1>1 DEF vars, PurchaseInv, TypeOK, WorkIsSound, UndisturbedIsDraft, LinksAreSound,
       ApprovalsAreHuman, OpenItems, Captured, Says
  <1>2. CASE Next
    BY <1>2, CaptureBegins, CaptureCommits, BookingBegins, BookingCommits, TransitionBegins,
       TransitionCommits, AbandonHolds, ReversalHolds DEF Next
  <1> QED
    BY <1>1, <1>2

LEMMA InvIsInvariant == Spec => []PurchaseInv
  BY InitHolds, NextHolds, PTL DEF Spec

\* The tables of purchase invoices keep their types and their constraints: a number
\* of the supplier is there once, and what is open points at an entry.
THEOREM TypeCorrect == Spec => []TypeOK
  <1>1. PurchaseInv => TypeOK
    BY DEF PurchaseInv
  <1> QED
    BY <1>1, InvIsInvariant, PTL

\* An approval stands next to an approved invoice and no other, is a human's and
\* authorises what was captured (nextPurchaseStatus, transition), however many
\* requests overlap, on every invoice that was not written by two at once.
THEOREM ApprovalIsCurrent == Spec => []ApprovalIsCurrentUnlessMuddled
  <1>1. PurchaseInv => ApprovalIsCurrentUnlessMuddled
    <2> SUFFICES ASSUME PurchaseInv, NEW d \in Captured \ muddled
                 PROVE  /\ invoices[d].status = "approved" <=> invoices[d].approvedBy # NoOne
                        /\ invoices[d].status = "approved" =>
                            /\ invoices[d].approvedBy \in Humans
                            /\ entries[invoices[d].entry].command = Says(d)
      BY DEF ApprovalIsCurrentUnlessMuddled, Says
    <2>1. /\ invoices[d].status = "approved" => invoices[d].approvedBy \in Humans
          /\ invoices[d].status # "approved" => invoices[d].approvedBy = NoOne
      BY DEF PurchaseInv, ApprovalsAreHuman
    <2>2. invoices[d].status = "approved" => invoices[d].entry \in Nat \ {0}
      BY DEF PurchaseInv, TypeOK, OpenItems, Captured
    <2> QED
      BY <2>1, <2>2, PurchaseConstants DEF PurchaseInv, LinksAreSound, Actors
  <1> QED
    BY <1>1, InvIsInvariant, PTL

-----------------------------------------------------------------------------
(* The subledger.  The content of an invoice never changes once it is captured,   *)
(* so an entry found again under its key is of the same invoice; what remains is  *)
(* that an invoice that no two requests wrote is booked once or not at all.       *)

EntriesOf(d) == {i \in DOMAIN entries : entries[i].invoice = d}

\* An entry is of an invoice that was captured, and says what it says.
EntriesSayInvoices ==
    \A i \in DOMAIN entries :
        /\ entries[i].invoice \in Captured
        /\ entries[i].command = Says(entries[i].invoice)

\* What a transition read still allows it, unless the invoice changed under it.
UndisturbedIsAllowed ==
    \A q \in Requests \ disturbed :
        pc[q] = "transition" => invoices[work[q].invoice].status \in AllowedFrom(work[q].op)

\* An open invoice has one entry, and any other has none.
BookedOnce ==
    \A d \in Invoices \ muddled :
        EntriesOf(d) = IF d \in OpenItems THEN {invoices[d].entry} ELSE {}

ReconcileInv == PurchaseInv /\ EntriesSayInvoices /\ UndisturbedIsAllowed /\ BookedOnce

\* Nothing is written, and the transitions under way are those that were.
LEMMA NothingWritten ==
    ASSUME ReconcileInv, UNCHANGED <<invoices, entries, disturbed, muddled>>,
           \A q \in Requests : pc'[q] = "transition" /\ q \notin disturbed =>
                invoices[work'[q].invoice].status \in AllowedFrom(work'[q].op)
    PROVE  EntriesSayInvoices' /\ UndisturbedIsAllowed' /\ BookedOnce'
  <1>1. \A d : Says(d)' = Says(d)
    BY DEF Says
  <1>2. Captured' = Captured /\ OpenItems' = OpenItems
    BY DEF Captured, OpenItems
  <1>3. \A d : EntriesOf(d)' = EntriesOf(d)
    BY DEF EntriesOf
  <1>4. EntriesSayInvoices'
    BY <1>1, <1>2 DEF ReconcileInv, EntriesSayInvoices
  <1>5. UndisturbedIsAllowed'
    BY DEF UndisturbedIsAllowed
  <1>6. BookedOnce'
    BY <1>2, <1>3 DEF ReconcileInv, BookedOnce
  <1> QED
    BY <1>4, <1>5, <1>6

LEMMA ReadsReconcile ==
    ASSUME ReconcileInv, NEW q \in Requests,
           \/ HandleCapturePurchaseInvoice(q)
           \/ HandleBookPurchaseInvoice(q)
           \/ HandleTransitionPurchaseInvoice(q)
           \/ Abandon(q)
    PROVE  EntriesSayInvoices' /\ UndisturbedIsAllowed' /\ BookedOnce'
  <1>1. UNCHANGED <<invoices, entries, disturbed, muddled>>
    BY DEF HandleCapturePurchaseInvoice, HandleBookPurchaseInvoice,
       HandleTransitionPurchaseInvoice, Abandon
  <1>2. \A r \in Requests \ {q} : pc'[r] = pc[r] /\ work'[r] = work[r]
    BY DEF HandleCapturePurchaseInvoice, HandleBookPurchaseInvoice,
       HandleTransitionPurchaseInvoice, Abandon, Ends, Goes, ReconcileInv, PurchaseInv, TypeOK
  <1>3. pc'[q] = "transition" => invoices[work'[q].invoice].status \in AllowedFrom(work'[q].op)
    <2>1. CASE HandleTransitionPurchaseInvoice(q)
      BY <2>1 DEF HandleTransitionPurchaseInvoice, Allowed, ReconcileInv, PurchaseInv, TypeOK
    <2>2. CASE \/ HandleCapturePurchaseInvoice(q)
               \/ HandleBookPurchaseInvoice(q)
               \/ Abandon(q)
      BY <2>2 DEF HandleCapturePurchaseInvoice, HandleBookPurchaseInvoice, Abandon, Ends, Goes,
         ReconcileInv, PurchaseInv, TypeOK
    <2> QED
      BY <2>1, <2>2
  <1>4. \A r \in Requests : pc'[r] = "transition" /\ r \notin disturbed =>
            invoices[work'[r].invoice].status \in AllowedFrom(work'[r].op)
    BY <1>2, <1>3 DEF ReconcileInv, UndisturbedIsAllowed
  <1> QED
    BY <1>1, <1>4, NothingWritten

\* A captured invoice has no entry yet.
LEMMA CaptureReconciles ==
    ASSUME ReconcileInv, NEW q \in Requests, CommitCapture(q)
    PROVE  EntriesSayInvoices' /\ UndisturbedIsAllowed' /\ BookedOnce'
  <1> USE DEF ReconcileInv, PurchaseInv
  <1> DEFINE d == work[q].invoice
  <1>1. /\ d \in Invoices /\ invoices[d] = Absent
        /\ UNCHANGED <<entries, disturbed, muddled>>
    BY DEF CommitCapture, WorkIsSound, CaptureWork
  <1>2. /\ \A e \in Invoices \ {d} : invoices'[e] = invoices[e]
        /\ invoices'[d].status = "draft" /\ invoices'[d] # Absent
    BY <1>1 DEF CommitCapture, TypeOK, Absent
  <1>3. Captured' = Captured \union {d} /\ OpenItems' = OpenItems /\ d \notin Captured
    BY <1>1, <1>2 DEF Captured, OpenItems
  <1>4. \A e \in Captured : Says(e)' = Says(e) /\ invoices'[e] = invoices[e]
    BY <1>2, <1>3 DEF Says, Captured
  <1>5. EntriesSayInvoices'
    BY <1>1, <1>3, <1>4 DEF EntriesSayInvoices
  <1>6. BookedOnce'
    <2>1. \A e : EntriesOf(e)' = EntriesOf(e)
      BY <1>1 DEF EntriesOf
    <2>2. \A e \in OpenItems : invoices'[e] = invoices[e]
      BY <1>4 DEF OpenItems
    <2> QED
      BY <1>1, <1>3, <2>1, <2>2 DEF BookedOnce
  <1>7. UndisturbedIsAllowed'
    <2> SUFFICES ASSUME NEW r \in Requests \ disturbed, pc'[r] = "transition"
                 PROVE  invoices'[work'[r].invoice].status \in AllowedFrom(work'[r].op)
      BY <1>1 DEF UndisturbedIsAllowed
    <2>1. r # q /\ pc[r] = "transition" /\ work'[r] = work[r]
      BY DEF CommitCapture, Ends, Goes, TypeOK
    <2>2. work[r].invoice \in Captured
      BY <2>1 DEF WorkIsSound, TransitionWork, Captured
    <2> QED
      BY <1>4, <2>1, <2>2 DEF UndisturbedIsAllowed
  <1> QED
    BY <1>5, <1>6, <1>7

\* What another request's step on invoice d leaves of the transitions under way.
LEMMA OthersStayAllowed ==
    ASSUME ReconcileInv, NEW q \in Requests, NEW d, Disturbs(q, d), Ends(q),
           \A e \in Invoices \ {d} : invoices'[e] = invoices[e]
    PROVE  UndisturbedIsAllowed'
  <1> SUFFICES ASSUME NEW r \in Requests \ disturbed', pc'[r] = "transition"
               PROVE  invoices'[work'[r].invoice].status \in AllowedFrom(work'[r].op)
    BY DEF UndisturbedIsAllowed
  <1> USE DEF ReconcileInv, PurchaseInv
  <1>1. r # q
    BY DEF Ends, Goes, TypeOK
  <1>2. pc[r] = "transition" /\ work'[r] = work[r] /\ work[r].invoice # d
    BY <1>1, OthersAreDisturbed
  <1>3. r \notin disturbed
    BY DEF Disturbs
  <1>4. work[r].invoice \in Invoices
    BY <1>2 DEF WorkIsSound, TransitionWork
  <1> QED
    BY <1>2, <1>3, <1>4 DEF UndisturbedIsAllowed

\* A booking that was not disturbed posts the first entry of its invoice.
LEMMA BookingReconciles ==
    ASSUME ReconcileInv, NEW q \in Requests, CommitBooking(q)
    PROVE  EntriesSayInvoices' /\ UndisturbedIsAllowed' /\ BookedOnce'
  <1> USE DEF ReconcileInv, PurchaseInv
  <1> DEFINE d == work[q].invoice
             earlier == PostedUnder(work[q].key)
             fresh == [key |-> work[q].key, invoice |-> d, command |-> work[q].command]
             n == Len(entries) + 1
  <1>1. /\ work[q] \in BookWork /\ d \in Invoices /\ invoices[d] # Absent
        /\ work[q].command = Says(d)
        /\ pc[q] = "booking"
    BY DEF CommitBooking, WorkIsSound, BookWork
  <1>2. invoices[d] \in Rows /\ d \in Captured
    BY <1>1 DEF TypeOK, Captured
  <1>3. PICK k : invoices' = Booked(d, k)
    BY DEF CommitBooking
  <1>4. /\ \A e \in Invoices \ {d} : invoices'[e] = invoices[e]
        /\ invoices'[d] = [invoices[d] EXCEPT !.status = "booked", !.entry = k]
    BY <1>1, <1>3 DEF Booked, TypeOK
  <1>5. /\ invoices'[d].status = "booked" /\ invoices'[d] # Absent
        /\ invoices'[d].entry = k
        /\ invoices'[d].number = invoices[d].number /\ invoices'[d].content = invoices[d].content
    BY <1>2, <1>4 DEF Rows, Absent
  <1>6. Captured' = Captured /\ \A e \in Captured : Says(e)' = Says(e)
    BY <1>1, <1>4, <1>5 DEF Captured, Says
  <1>7. /\ OpenItems' = OpenItems \union {d}
        /\ \A e \in OpenItems \ {d} : invoices'[e] = invoices[e]
    BY <1>1, <1>4, <1>5, <1>6 DEF OpenItems, Captured
  <1>8. /\ Len(entries) \in Nat /\ DOMAIN entries = 1 .. Len(entries)
        /\ muddled \subseteq muddled'
    BY DEF TypeOK, CommitBooking, Muddles
  <1>9. UndisturbedIsAllowed'
    BY <1>4, OthersStayAllowed DEF CommitBooking
  <1>10. CASE earlier = {}
    <2>1. entries' = Append(entries, fresh) /\ invoices' = Booked(d, n)
      BY <1>10 DEF CommitBooking
    <2>2. fresh \in [key : Keys, invoice : Invoices, command : Commands]
      BY <1>1 DEF BookWork
    <2>3. /\ DOMAIN entries' = DOMAIN entries \union {n} /\ n \notin DOMAIN entries
          /\ \A i \in DOMAIN entries : entries'[i] = entries[i]
          /\ entries'[n] = fresh
      <3> HIDE DEF fresh
      <3> QED
        BY <1>8, <2>1, <2>2 DEF TypeOK
    <2>4. fresh.invoice = d /\ fresh.command = Says(d)
      BY <1>1
    <2>5. invoices'[d].entry = n
      BY <1>1, <1>2, <2>1 DEF Booked, TypeOK, Rows
    <2> HIDE DEF fresh, n
    <2>6. EntriesSayInvoices'
      BY <1>2, <1>6, <2>3, <2>4 DEF EntriesSayInvoices
    <2>7. /\ \A e \in Invoices \ {d} : EntriesOf(e)' = EntriesOf(e)
          /\ \A e \in {d} : EntriesOf(e)' = EntriesOf(e) \union {n}
      <3>1. \A e : EntriesOf(e)' = {i \in DOMAIN entries \union {n} : entries'[i].invoice = e}
        BY <2>3 DEF EntriesOf
      <3>2. \A i \in DOMAIN entries : entries'[i].invoice = entries[i].invoice
        BY <2>3
      <3>3. entries'[n].invoice = d
        BY <2>3, <2>4
      <3>4. \A e : EntriesOf(e)' = EntriesOf(e) \union {i \in {n} : entries'[i].invoice = e}
        BY <3>1, <3>2 DEF EntriesOf
      <3> HIDE DEF d
      <3>5. ASSUME NEW e \in {d} PROVE EntriesOf(e)' = EntriesOf(e) \union {n}
        BY <3>3, <3>4
      <3>6. ASSUME NEW e \in Invoices \ {d} PROVE EntriesOf(e)' = EntriesOf(e)
        BY <3>3, <3>4
      <3> QED
        BY <3>5, <3>6
    <2>8. d \notin muddled' => EntriesOf(d) = {}
      <3>1. d \notin muddled' => q \notin disturbed
        BY DEF CommitBooking, Muddles
      <3>2. d \notin muddled' => invoices[d].status = "draft"
        BY <1>1, <3>1 DEF UndisturbedIsDraft
      <3> QED
        BY <1>1, <1>8, <3>2 DEF BookedOnce, OpenItems
    <2>9. BookedOnce'
      <3> SUFFICES ASSUME NEW e \in Invoices, e \notin muddled'
                   PROVE  EntriesOf(e)' = IF e \in OpenItems' THEN {invoices'[e].entry} ELSE {}
        BY DEF BookedOnce
      <3>1. CASE e = d
        <4>1. EntriesOf(e) = {}
          BY <2>8, <3>1
        <4>2. EntriesOf(e)' = {n}
          BY <2>7, <3>1, <4>1
        <4>3. e \in OpenItems' /\ invoices'[e].entry = n
          BY <1>7, <2>5, <3>1
        <4> HIDE DEF d
        <4> QED
          BY <4>2, <4>3
      <3>2. CASE e # d
        <4>1. EntriesOf(e) = IF e \in OpenItems THEN {invoices[e].entry} ELSE {}
          BY <1>8 DEF BookedOnce
        <4> QED
          BY <1>7, <2>7, <3>2, <4>1
      <3> QED
        BY <3>1, <3>2
    <2> QED
      BY <1>9, <2>6, <2>9
  <1>11. CASE earlier # {}
    <2>1. PICK i \in earlier : invoices' = Booked(d, i)
      BY <1>11 DEF CommitBooking
    <2>2. /\ entries' = entries
          /\ i \in DOMAIN entries /\ entries[i].command = Says(d)
      BY <1>1, <1>11 DEF CommitBooking, PostedUnder
    <2>3. entries[i].invoice = d
      <3>1. entries[i].invoice \in Captured /\ Says(entries[i].invoice) = Says(d)
        BY <2>2 DEF EntriesSayInvoices
      <3>2. invoices[entries[i].invoice].number = invoices[d].number
        BY <3>1 DEF Says
      <3> QED
        BY <1>2, <3>1, <3>2 DEF TypeOK
    <2>4. d \in muddled'
      <3>1. EntriesOf(d) # {}
        BY <2>2, <2>3 DEF EntriesOf
      <3>2. d \in muddled \/ d \in OpenItems
        BY <1>1, <3>1 DEF BookedOnce
      <3>3. d \in OpenItems => q \in disturbed
        BY <1>1 DEF OpenItems, UndisturbedIsDraft
      <3> QED
        BY <1>8, <3>2, <3>3 DEF CommitBooking, Muddles
    <2>5. EntriesSayInvoices'
      BY <1>6, <2>2 DEF EntriesSayInvoices
    <2>6. \A e : EntriesOf(e)' = EntriesOf(e)
      BY <2>2 DEF EntriesOf
    <2>7. BookedOnce'
      BY <1>7, <1>8, <2>4, <2>6 DEF BookedOnce
    <2> QED
      BY <1>9, <2>5, <2>7
  <1> QED
    BY <1>10, <1>11

\* A transition that was not disturbed keeps an open invoice open.
LEMMA TransitionReconciles ==
    ASSUME ReconcileInv, NEW q \in Requests, CommitTransition(q)
    PROVE  EntriesSayInvoices' /\ UndisturbedIsAllowed' /\ BookedOnce'
  <1> USE DEF ReconcileInv, PurchaseInv
  <1> DEFINE d == work[q].invoice
             to == ResultOf(work[q].op)
  <1>1. /\ work[q] \in TransitionWork /\ d \in Invoices /\ invoices[d] # Absent
        /\ work[q].op \in Transitions
        /\ pc[q] = "transition" /\ UNCHANGED entries
    BY DEF CommitTransition, WorkIsSound, TransitionWork
  <1>2. invoices[d] \in Rows /\ d \in Captured
    BY <1>1 DEF TypeOK, Captured
  <1>3. PICK who : invoices' = [invoices EXCEPT ![d].status = to, ![d].approvedBy = who]
    BY DEF CommitTransition, Moved
  <1>4. /\ \A e \in Invoices \ {d} : invoices'[e] = invoices[e]
        /\ invoices'[d] = [invoices[d] EXCEPT !.status = to, !.approvedBy = who]
    BY <1>1, <1>3 DEF TypeOK
  <1>5. /\ invoices'[d].status = to /\ invoices'[d] # Absent
        /\ invoices'[d].entry = invoices[d].entry
        /\ invoices'[d].number = invoices[d].number /\ invoices'[d].content = invoices[d].content
    BY <1>2, <1>4 DEF Rows, Absent
  <1>6. Captured' = Captured /\ \A e \in Captured : Says(e)' = Says(e)
    BY <1>1, <1>4, <1>5 DEF Captured, Says
  <1>7. EntriesSayInvoices' /\ \A e : EntriesOf(e)' = EntriesOf(e)
    BY <1>1, <1>6 DEF EntriesSayInvoices, EntriesOf
  <1>8. UndisturbedIsAllowed'
    BY <1>4, OthersStayAllowed DEF CommitTransition
  <1>9. /\ muddled \subseteq muddled'
        /\ d \notin muddled' => q \notin disturbed
    BY DEF CommitTransition, Muddles
  <1>10. d \notin muddled' => (d \in OpenItems' <=> d \in OpenItems)
    <2>1. d \notin muddled' => invoices[d].status \in AllowedFrom(work[q].op)
      BY <1>1, <1>9 DEF UndisturbedIsAllowed
    <2>2. to = "cancelled" <=> work[q].op = "cancel"
      BY <1>1 DEF ResultOf, Transitions
    <2>3. to \in {"booked", "approved", "disputed", "cancelled"}
      BY <1>1 DEF ResultOf, Transitions
    <2>4. d \notin muddled' =>
            (invoices[d].status \in {"draft", "cancelled"} <=> work[q].op = "cancel")
      BY <1>1, <2>1 DEF AllowedFrom, Transitions
    <2> QED
      BY <1>2, <1>5, <1>6, <2>2, <2>3, <2>4 DEF OpenItems
  <1>11. \A e \in Invoices \ {d} : e \in OpenItems' <=> e \in OpenItems
    BY <1>4, <1>6 DEF OpenItems
  <1>12. BookedOnce'
    <2> SUFFICES ASSUME NEW e \in Invoices, e \notin muddled'
                 PROVE  EntriesOf(e)' = IF e \in OpenItems' THEN {invoices'[e].entry} ELSE {}
      BY DEF BookedOnce
    <2>1. EntriesOf(e) = IF e \in OpenItems THEN {invoices[e].entry} ELSE {}
      BY <1>9 DEF BookedOnce
    <2>2. invoices'[e].entry = invoices[e].entry
      BY <1>4, <1>5
    <2> QED
      BY <1>7, <1>10, <1>11, <2>1, <2>2
  <1> QED
    BY <1>7, <1>8, <1>12

LEMMA StepReconciles == ReconcileInv /\ [Next]_vars => ReconcileInv'
  <1> SUFFICES ASSUME ReconcileInv, [Next]_vars PROVE ReconcileInv'
    OBVIOUS
  <1> DEFINE Holds == EntriesSayInvoices' /\ UndisturbedIsAllowed' /\ BookedOnce'
  <1>1. ASSUME NEW q \in Requests,
               \/ HandleCapturePurchaseInvoice(q) \/ HandleBookPurchaseInvoice(q)
               \/ HandleTransitionPurchaseInvoice(q) \/ Abandon(q)
        PROVE  Holds
    BY <1>1, ReadsReconcile
  <1>2. ASSUME NEW q \in Requests, CommitCapture(q) PROVE Holds
    BY <1>2, CaptureReconciles
  <1>3. ASSUME NEW q \in Requests, CommitBooking(q) PROVE Holds
    BY <1>3, BookingReconciles
  <1>4. ASSUME NEW q \in Requests, CommitTransition(q) PROVE Holds
    BY <1>4, TransitionReconciles
  <1>5. ASSUME UNCHANGED <<invoices, entries, pc, work, disturbed, muddled>> PROVE Holds
    BY <1>5, NothingWritten DEF ReconcileInv, UndisturbedIsAllowed
  <1>6. PurchaseInv'
    BY NextHolds DEF ReconcileInv
  <1>7. Holds
    BY <1>1, <1>2, <1>3, <1>4, <1>5 DEF Next, ReverseEntry, vars
  <1> QED
    BY <1>6, <1>7 DEF ReconcileInv

\* An invoice that no two requests wrote at once is booked once or not at all.
THEOREM InvoicesAreBookedOnce == Spec => []ReconcileInv
  <1>1. Init => ReconcileInv
    <2> SUFFICES ASSUME Init PROVE ReconcileInv
      OBVIOUS
    <2>1. PurchaseInv
      BY InitHolds
    <2>2. EntriesSayInvoices /\ UndisturbedIsAllowed
      BY DEF Init, EntriesSayInvoices, UndisturbedIsAllowed
    <2>3. BookedOnce
      BY DEF Init, BookedOnce, EntriesOf, OpenItems, Captured
    <2> QED
      BY <2>1, <2>2, <2>3 DEF ReconcileInv
  <1>2. ReconcileInv /\ [Next]_vars => ReconcileInv'
    BY StepReconciles
  <1> QED
    BY <1>1, <1>2, PTL DEF Spec

\* The open items add up to the control account (reconcileToControlAccount), over
\* the invoices that no two requests wrote at once and whose entry stands, for
\* any number of invoices, keys and requests.
THEOREM SubledgerReconciles == Spec => []SubledgerReconcilesUnlessMuddled
  <1>1. ASSUME ReconcileInv
        PROVE  LET chosen == Invoices \ (muddled \union Withdrawn)
               IN  Subledger(chosen) = Control(chosen)
    <2> DEFINE chosen == Invoices \ (muddled \union Withdrawn)
               items == OpenItems \intersect chosen
               booked == {i \in DOMAIN entries \ reversed : entries[i].invoice \in chosen}
               f == [i \in booked |-> Posted(entries[i].command)]
               g == [d \in items |-> Signed(invoices[d].content)]
               to == [i \in booked |-> entries[i].invoice]
    <2> USE <1>1 DEF ReconcileInv, PurchaseInv
    <2>1. IsFiniteSet(booked)
      <3>1. DOMAIN entries = 1 .. Len(entries) /\ Len(entries) \in Nat
        BY DEF TypeOK
      <3>2. IsFiniteSet(DOMAIN entries)
        BY <3>1, FS_Interval
      <3>3. booked \in SUBSET DOMAIN entries
        OBVIOUS
      <3> HIDE DEF booked
      <3> QED
        BY <3>2, <3>3, FS_Subset
    <2>2. ASSUME NEW i \in booked
          PROVE  to[i] \in items /\ g[to[i]] = f[i] /\ f[i] \in Int
                 /\ EntriesOf(to[i]) = {i}
      <3>1. to[i] \in chosen /\ to[i] \in Captured /\ entries[i].command = Says(to[i])
        BY DEF EntriesSayInvoices
      <3>2. i \in EntriesOf(to[i])
        BY DEF EntriesOf
      <3>3. to[i] \in OpenItems /\ EntriesOf(to[i]) = {invoices[to[i]].entry}
        BY <3>1, <3>2 DEF BookedOnce
      <3>4. Posted(entries[i].command) = Signed(invoices[to[i]].content)
        BY <3>1 DEF Posted, Signed, Says
      <3>5. invoices[to[i]].content \in Contents
        BY <3>1 DEF TypeOK, Captured, Rows
      <3>6. Signed(invoices[to[i]].content) \in Int
        BY <3>5, PurchaseConstants DEF Signed
      <3> QED
        BY <3>1, <3>2, <3>3, <3>4, <3>6
    <2>3. ASSUME NEW d \in items PROVE \E i \in booked : to[i] = d
      <3>1. EntriesOf(d) = {invoices[d].entry}
        BY DEF BookedOnce
      <3>2. invoices[d].entry \in DOMAIN entries /\ entries[invoices[d].entry].invoice = d
        BY <3>1 DEF EntriesOf
      <3>3. invoices[d].entry \notin reversed
        BY <3>2 DEF Withdrawn
      <3> QED
        BY <3>2, <3>3
    <2>4. items = {to[i] : i \in booked}
      <3> HIDE DEF items, to, booked
      <3> QED
        BY <2>2, <2>3
    <2>5. \A i, j \in booked : to[i] = to[j] => i = j
      BY <2>2
    <2>6. Subledger(chosen) = SumFunctionOnSet(g, items)
          /\ Control(chosen) = SumFunctionOnSet(f, booked)
      BY DEF Subledger, Control
    <2> HIDE DEF f, g, to, booked, items, chosen
    <2>7. SumFunctionOnSet(f, booked) = SumFunctionOnSet(g, {to[i] : i \in booked})
      BY <2>1, <2>2, <2>5, SumRenamed
    <2>8. Subledger(chosen) = Control(chosen)
      BY <2>4, <2>6, <2>7
    <2> QED
      BY <2>8 DEF chosen
  <1>2. ReconcileInv => SubledgerReconcilesUnlessMuddled
    BY <1>1 DEF SubledgerReconcilesUnlessMuddled
  <1> QED
    BY <1>2, InvoicesAreBookedOnce, PTL

-----------------------------------------------------------------------------
(* Payments: the first theorem rests on the check constraint alone, not on what  *)
(* nextState has read; the second on the unique index and on the fact that the   *)
(* end-to-end id of an instruction names the supplier of what it settles.        *)

States == {"draft", "submitted", "approved", "exported", "rejected"}
Actions == {"submit", "approve", "reject", "reopen", "export"}

\* A batch's columns, its file left open.
Columns(files) ==
    [state : States, submittedBy : Actors \union {Nobody},
     approvedBy : Humans \union {Nobody}, file : files, exports : Nat]

Shape ==
    /\ \E files : batch \in [Batches -> Columns(files)]
    /\ stage \in [Requests -> {"idle", "editing", "loaded", "decided"}]
    /\ \E works : task \in [Requests -> works]

\* What a request that is past its first read wants, and who may want it.
Wants(where, w) ==
    /\ where \in {"loaded", "decided"} => w.batch \in Batches /\ w.actor \in Actors
    /\ where = "loaded" => w.action \in Actions
    /\ where = "decided" =>
        /\ w.action \in Actions \union {"download"}
        /\ w.action = "approve" => w.actor \in Humans

\* An instruction that settles documents is named after their supplier.
NamesItsSupplier(i) == \A a \in i.settles : i.endToEndId = SupplierOf[a.document]

Distinct(set) ==
    \A i, j \in set : i.batch = j.batch /\ i.endToEndId = j.endToEndId => i = j

\* Instructions that are there, or that a request is about to insert.
Sound(set) == (\A i \in set : NamesItsSupplier(i)) /\ Distinct(set)

Adds(where, w) == where = "editing" => Sound(w.adds)

IInv ==
    /\ Shape
    /\ \A r \in Requests : Wants(stage[r], task[r]) /\ Adds(stage[r], task[r])
    /\ Sound(instructions)
    /\ ApprovedByAnother

-----------------------------------------------------------------------------
\* A payment run makes one instruction for a supplier, of its own documents.
LEMMA PaymentRunIsSound == ASSUME NEW b \in Batches PROVE Sound(PaymentRun(b))
  <1>1. ASSUME NEW i \in PaymentRun(b) PROVE NamesItsSupplier(i)
    <2>1. PICK s \in Suppliers :
            /\ i.endToEndId = s
            /\ i.settles = Allocations(s)
      BY <1>1 DEF PaymentRun
    <2>2. ASSUME NEW a \in Allocations(s) PROVE SupplierOf[a.document] = s
      BY <2>2 DEF Allocations, Payable
    <2> QED
      BY <2>1, <2>2 DEF NamesItsSupplier
  <1>2. Distinct(PaymentRun(b))
    BY DEF Distinct, PaymentRun
  <1> QED
    BY <1>1, <1>2 DEF Sound

\* Ending a request leaves the others as they are.
LEMMA EndKeepsRequests ==
    ASSUME IInv, NEW r \in Requests, End(r)
    PROVE  /\ stage' \in [Requests -> {"idle", "editing", "loaded", "decided"}]
           /\ \E works : task' \in [Requests -> works]
           /\ \A q \in Requests : Wants(stage'[q], task'[q]) /\ Adds(stage'[q], task'[q])
  <1>1. PICK works : task \in [Requests -> works]
    BY DEF IInv, Shape
  <1>2. stage' \in [Requests -> {"idle", "editing", "loaded", "decided"}]
    BY DEF IInv, Shape, End
  <1>3. task' \in [Requests -> works \union {NoTask}]
    BY <1>1 DEF End
  <1>4. ASSUME NEW q \in Requests
        PROVE  Wants(stage'[q], task'[q]) /\ Adds(stage'[q], task'[q])
    <2>1. CASE q = r
      <3>1. stage'[q] = "idle"
        BY <2>1 DEF IInv, Shape, End
      <3> QED
        BY <3>1 DEF Wants, Adds
    <2>2. CASE q # r
      <3>1. stage'[q] = stage[q] /\ task'[q] = task[q]
        BY <1>1, <2>2 DEF IInv, Shape, End
      <3> QED
        BY <3>1 DEF IInv
    <2> QED
      BY <2>1, <2>2
  <1> QED
    BY <1>2, <1>3, <1>4

\* A request that begins soundly keeps the invariant.
LEMMA BeginIInv ==
    ASSUME IInv, NEW r \in Requests, NEW where \in {"editing", "loaded", "decided"},
           NEW b \in Batches, NEW what, Begin(r, where, b, what),
           Wants(where, what), Adds(where, what)
    PROVE  IInv'
  <1>1. PICK works : task \in [Requests -> works]
    BY DEF IInv, Shape
  <1>2. /\ stage' \in [Requests -> {"idle", "editing", "loaded", "decided"}]
        /\ task' \in [Requests -> works \union {what}]
    BY <1>1 DEF IInv, Shape, Begin
  <1>3. Shape'
    BY <1>2 DEF IInv, Shape, Begin
  <1>4. ASSUME NEW q \in Requests
        PROVE  Wants(stage'[q], task'[q]) /\ Adds(stage'[q], task'[q])
    <2>1. CASE q = r
      <3>1. stage'[q] = where /\ task'[q] = what
        BY <1>1, <2>1 DEF IInv, Shape, Begin
      <3> QED
        BY <3>1
    <2>2. CASE q # r
      <3>1. stage'[q] = stage[q] /\ task'[q] = task[q]
        BY <1>1, <2>2 DEF IInv, Shape, Begin
      <3> QED
        BY <3>1 DEF IInv
    <2> QED
      BY <2>1, <2>2
  <1>5. Sound(instructions)' /\ ApprovedByAnother'
    BY DEF IInv, Begin, Sound, Distinct, NamesItsSupplier, ApprovedByAnother
  <1> QED
    BY <1>3, <1>4, <1>5 DEF IInv

\* Nothing is written: the batches and the instructions stay.
LEMMA AbandonIInv == ASSUME IInv, NEW r \in Requests, AbandonBatchRequest(r) PROVE IInv'
  <1>1. End(r) /\ UNCHANGED <<batch, instructions>>
    BY DEF AbandonBatchRequest
  <1>2. /\ stage' \in [Requests -> {"idle", "editing", "loaded", "decided"}]
        /\ \E works : task' \in [Requests -> works]
        /\ \A q \in Requests : Wants(stage'[q], task'[q]) /\ Adds(stage'[q], task'[q])
    BY <1>1, EndKeepsRequests
  <1>3. Shape'
    BY <1>1, <1>2 DEF IInv, Shape
  <1>4. Sound(instructions)' /\ ApprovedByAnother'
    BY <1>1 DEF IInv, Sound, Distinct, NamesItsSupplier, ApprovedByAnother
  <1> QED
    BY <1>2, <1>3, <1>4 DEF IInv

\* An edit that commits inserts soundly, or the index refuses it.
LEMMA CommitEditIInv == ASSUME IInv, NEW r \in Requests, CommitEdit(r) PROVE IInv'
  <1>1. End(r) /\ UNCHANGED batch
    BY DEF CommitEdit
  <1>2. /\ stage' \in [Requests -> {"idle", "editing", "loaded", "decided"}]
        /\ \E works : task' \in [Requests -> works]
        /\ \A q \in Requests : Wants(stage'[q], task'[q]) /\ Adds(stage'[q], task'[q])
    BY <1>1, EndKeepsRequests
  <1>3. Shape'
    BY <1>1, <1>2 DEF IInv, Shape
  <1>4. Sound(task[r].adds) /\ EndToEndFree(task[r].adds)
    BY DEF CommitEdit, IInv, Adds
  <1>5. \A i \in instructions' : i \in instructions \/ i \in task[r].adds
    BY DEF CommitEdit
  <1>6. \A i \in instructions' : NamesItsSupplier(i)
    BY <1>4, <1>5 DEF IInv, Sound
  <1>7. Distinct(instructions')
    <2> SUFFICES ASSUME NEW i \in instructions', NEW j \in instructions',
                        i.batch = j.batch, i.endToEndId = j.endToEndId
                 PROVE  i = j
      BY DEF Distinct
    <2>1. CASE i \in instructions /\ j \in instructions
      BY <2>1 DEF IInv, Sound, Distinct
    <2>2. CASE i \in task[r].adds /\ j \in task[r].adds
      BY <1>4, <2>2 DEF Sound, Distinct
    <2>3. CASE i \in instructions /\ j \in task[r].adds
      BY <1>4, <2>3 DEF EndToEndFree
    <2>4. CASE i \in task[r].adds /\ j \in instructions
      BY <1>4, <2>4 DEF EndToEndFree
    <2> QED
      BY <1>5, <2>1, <2>2, <2>3, <2>4
  <1>8. Sound(instructions)'
    BY <1>6, <1>7 DEF Sound, Distinct, NamesItsSupplier
  <1>9. ApprovedByAnother'
    BY <1>1 DEF IInv, ApprovedByAnother
  <1> QED
    BY <1>2, <1>3, <1>8, <1>9 DEF IInv

\* Only a human's approval is decided upon.
LEMMA DecideIInv == ASSUME IInv, NEW r \in Requests, Decide(r) PROVE IInv'
  <1>1. /\ stage' \in [Requests -> {"idle", "editing", "loaded", "decided"}]
        /\ stage'[r] = "decided"
        /\ \A q \in Requests \ {r} : stage'[q] = stage[q]
    BY DEF Decide, IInv, Shape
  <1>2. Shape'
    BY <1>1 DEF Decide, IInv, Shape
  <1>3. /\ task[r].batch \in Batches /\ task[r].actor \in Actors
        /\ task[r].action \in Actions
        /\ task[r].action = "approve" => task[r].actor \in Humans
    BY DEF Decide, IInv, Wants, BatchAllowed
  <1>4. ASSUME NEW q \in Requests
        PROVE  Wants(stage'[q], task'[q]) /\ Adds(stage'[q], task'[q])
    <2>1. task'[q] = task[q]
      BY DEF Decide
    <2>2. CASE q = r
      BY <1>1, <1>3, <2>1, <2>2 DEF Wants, Adds
    <2>3. CASE q # r
      BY <1>1, <2>1, <2>3 DEF IInv
    <2> QED
      BY <2>2, <2>3
  <1>5. Sound(instructions)' /\ ApprovedByAnother'
    BY DEF Decide, IInv, Sound, Distinct, NamesItsSupplier, ApprovedByAnother
  <1> QED
    BY <1>2, <1>4, <1>5 DEF IInv

\* What a request writes to a batch is a batch, approved as the constraint wants it.
LEMMA PatchKeepsColumns ==
    ASSUME NEW files, NEW row \in Columns(files),
           row.approvedBy # Nobody => row.approvedBy # row.submittedBy,
           NEW action \in Actions, NEW actor \in Actors,
           action = "approve" => actor \in Humans,
           TwoPerson(Patch(action, row, actor))
    PROVE  LET patched == Patch(action, row, actor)
           IN  /\ patched \in Columns(files)
               /\ patched.approvedBy # Nobody => patched.approvedBy # patched.submittedBy
  <1> DEFINE patched == Patch(action, row, actor)
  <1>1. patched \in Columns(files)
    <2>1. CASE action = "submit"
      BY <2>1 DEF Patch, Columns, States
    <2>2. CASE action = "approve"
      BY <2>2 DEF Patch, Columns, States
    <2>3. CASE action = "reject"
      BY <2>3 DEF Patch, Columns, States
    <2>4. CASE action = "reopen"
      BY <2>4 DEF Patch, Columns, States
    <2>5. CASE action = "export"
      <3>1. patched = [row EXCEPT !.state = "exported", !.exports = @ + 1]
        BY <2>5 DEF Patch
      <3>2. row.exports \in Nat
        BY DEF Columns
      <3>3. row.exports + 1 \in Nat
        BY <3>2
      <3> DEFINE n == row.exports + 1
      <3>4. n \in Nat => [row EXCEPT !.state = "exported", !.exports = n] \in Columns(files)
        <4> HIDE DEF n
        <4> QED
          BY DEF Columns, States
      <3> QED
        BY <3>1, <3>3, <3>4
    <2> QED
      BY <2>1, <2>2, <2>3, <2>4, <2>5 DEF Actions
  <1>2. patched.approvedBy # Nobody => patched.approvedBy # patched.submittedBy
    <2>1. Nobody = patched.submittedBy \/ Nobody = patched.approvedBy
            \/ patched.submittedBy # patched.approvedBy
      BY DEF TwoPerson
    <2> HIDE DEF patched
    <2> QED
      BY <2>1
  <1> QED
    BY <1>1, <1>2

\* A transition that commits keeps the batch approved by another.
LEMMA CommitTransitionIInv ==
    ASSUME IInv, NEW r \in Requests, CommitBatchTransition(r)
    PROVE  IInv'
  <1> DEFINE w == task[r]
             row == batch[w.batch]
             patched == IF w.action = "download" THEN row
                        ELSE Patch(w.action, row, w.actor)
             new == IF w.file = NoFile THEN patched ELSE [patched EXCEPT !.file = w.file]
  <1>1. End(r) /\ UNCHANGED instructions
    BY DEF CommitBatchTransition
  <1>2. /\ stage' \in [Requests -> {"idle", "editing", "loaded", "decided"}]
        /\ \E works : task' \in [Requests -> works]
        /\ \A q \in Requests : Wants(stage'[q], task'[q]) /\ Adds(stage'[q], task'[q])
    BY <1>1, EndKeepsRequests
  <1>3. /\ TwoPerson(patched)
        /\ batch' = [batch EXCEPT ![w.batch] = new]
    BY DEF CommitBatchTransition
  <1>4. /\ w.batch \in Batches /\ w.actor \in Actors
        /\ w.action \in Actions \union {"download"}
        /\ w.action = "approve" => w.actor \in Humans
    BY DEF CommitBatchTransition, IInv, Wants
  <1>5. PICK files : batch \in [Batches -> Columns(files)]
    BY DEF IInv, Shape
  <1>6. row \in Columns(files)
    BY <1>4, <1>5
  <1>7. row.approvedBy # Nobody => row.approvedBy # row.submittedBy
    BY <1>4 DEF IInv, ApprovedByAnother
  <1>8. /\ patched \in Columns(files)
        /\ patched.approvedBy # Nobody => patched.approvedBy # patched.submittedBy
    <2>1. CASE w.action = "download"
      BY <1>6, <1>7, <2>1
    <2>2. CASE w.action # "download"
      <3>1. patched = Patch(w.action, row, w.actor) /\ w.action \in Actions
        BY <1>4, <2>2
      <3> HIDE DEF w, row, patched
      <3> QED
        BY <1>3, <1>4, <1>6, <1>7, <3>1, PatchKeepsColumns
    <2> QED
      BY <2>1, <2>2
  <1> HIDE DEF patched
  <1>9. /\ new \in Columns(files \union {w.file})
        /\ new.approvedBy = patched.approvedBy /\ new.submittedBy = patched.submittedBy
    BY <1>8 DEF Columns
  <1> HIDE DEF new, w
  <1>10. batch' \in [Batches -> Columns(files \union {w.file})]
    <2>1. \A b \in Batches : batch[b] \in Columns(files \union {w.file})
      BY <1>5 DEF Columns
    <2> QED
      BY <1>3, <1>5, <1>9, <2>1
  <1>11. Shape'
    BY <1>2, <1>10 DEF Shape
  <1>12. ApprovedByAnother'
    <2> SUFFICES ASSUME NEW b \in Batches, batch'[b].approvedBy # Nobody
                 PROVE  /\ batch'[b].approvedBy \in Humans
                        /\ batch'[b].approvedBy # batch'[b].submittedBy
      BY DEF ApprovedByAnother
    <2>1. batch'[b].approvedBy \in Humans
      BY <1>10 DEF Columns
    <2>2. CASE b = w.batch
      <3>1. batch'[b] = new
        BY <1>3, <1>5, <2>2
      <3> QED
        BY <1>8, <1>9, <2>1, <3>1
    <2>3. CASE b # w.batch
      <3>1. batch'[b] = batch[b]
        BY <1>3, <1>5, <2>3
      <3> QED
        BY <2>1, <3>1 DEF IInv, ApprovedByAnother
    <2> QED
      BY <2>1, <2>2, <2>3
  <1>13. Sound(instructions)'
    BY <1>1 DEF IInv, Sound, Distinct, NamesItsSupplier
  <1> QED
    BY <1>2, <1>11, <1>12, <1>13 DEF IInv

-----------------------------------------------------------------------------
\* There is nothing to approve or to pay at the start.
LEMMA InitIInv == PaymentsInit => IInv
  <1> SUFFICES ASSUME PaymentsInit PROVE IInv
    OBVIOUS
  <1>1. Draft \in Columns({NoFile})
    BY DEF Draft, Columns, States
  <1>2. Shape
    <2>1. batch \in [Batches -> Columns({NoFile})]
      BY <1>1 DEF PaymentsInit
    <2>2. stage \in [Requests -> {"idle", "editing", "loaded", "decided"}]
      BY DEF PaymentsInit
    <2>3. task \in [Requests -> {NoTask}]
      BY DEF PaymentsInit
    <2> QED
      BY <2>1, <2>2, <2>3 DEF Shape
  <1>3. \A r \in Requests : Wants(stage[r], task[r]) /\ Adds(stage[r], task[r])
    BY DEF PaymentsInit, Wants, Adds
  <1>4. Sound(instructions) /\ ApprovedByAnother
    BY DEF PaymentsInit, Sound, Distinct, ApprovedByAnother, Draft
  <1> QED
    BY <1>2, <1>3, <1>4 DEF IInv

\* Every step keeps the invariant.
LEMMA StepIInv == IInv /\ [PaymentsNext]_paymentsVars => IInv'
  <1> SUFFICES ASSUME IInv, [PaymentsNext]_paymentsVars PROVE IInv'
    OBVIOUS
  <1>1. ASSUME NEW r \in Requests, NEW b \in Batches, HandleAddInstruction(r, b)
        PROVE  IInv'
    <2>1. PICK ref \in References :
            Begin(r, "editing", b,
                  Edit(b, FALSE, {[batch |-> b, endToEndId |-> ref, amount |-> 1,
                                   settles |-> {}]}, {}))
      BY <1>1 DEF HandleAddInstruction
    <2> DEFINE i == [batch |-> b, endToEndId |-> ref, amount |-> 1, settles |-> {}]
               what == Edit(b, FALSE, {i}, {})
    <2>2. what.adds = {i} /\ i.settles = {}
      BY DEF Edit
    <2>3. Wants("editing", what) /\ Adds("editing", what)
      BY <2>2 DEF Wants, Adds, Sound, NamesItsSupplier, Distinct
    <2> QED
      BY <2>1, <2>3, BeginIInv
  <1>2. ASSUME NEW r \in Requests, NEW b \in Batches, HandleAddApprovedInvoices(r, b)
        PROVE  IInv'
    <2> DEFINE what == Edit(b, TRUE, PaymentRun(b), {})
    <2>1. Begin(r, "editing", b, what)
      BY <1>2 DEF HandleAddApprovedInvoices
    <2>2. Wants("editing", what) /\ Adds("editing", what)
      BY PaymentRunIsSound DEF Edit, Wants, Adds
    <2> QED
      BY <2>1, <2>2, BeginIInv
  <1>3. ASSUME NEW r \in Requests, NEW b \in Batches, HandleRemoveInstruction(r, b)
        PROVE  IInv'
    <2>1. PICK i \in InstructionsOf(b) : Begin(r, "editing", b, Edit(b, FALSE, {}, {i}))
      BY <1>3 DEF HandleRemoveInstruction
    <2>2. Wants("editing", Edit(b, FALSE, {}, {i})) /\ Adds("editing", Edit(b, FALSE, {}, {i}))
      BY DEF Edit, Wants, Adds, Sound, Distinct
    <2> QED
      BY <2>1, <2>2, BeginIInv
  <1>4. ASSUME NEW r \in Requests, NEW b \in Batches, HandleTransitionBatch(r, b)
        PROVE  IInv'
    <2>1. PICK action \in {"submit", "approve", "reject", "reopen"}, actor \in Actors :
            Begin(r, "loaded", b, [batch |-> b, action |-> action, actor |-> actor,
                                   view |-> InstructionsOf(b), file |-> NoFile])
      BY <1>4 DEF HandleTransitionBatch
    <2> DEFINE what == [batch |-> b, action |-> action, actor |-> actor,
                        view |-> InstructionsOf(b), file |-> NoFile]
    <2>2. Wants("loaded", what) /\ Adds("loaded", what)
      BY DEF Wants, Adds, Actions
    <2> QED
      BY <2>1, <2>2, BeginIInv
  <1>5. ASSUME NEW r \in Requests, NEW b \in Batches, HandleGetBatchPain001(r, b)
        PROVE  IInv'
    <2> DEFINE where == IF Exporting(batch[b]) THEN "loaded" ELSE "decided"
               action == IF Exporting(batch[b]) THEN "export" ELSE "download"
    <2>1. PICK actor \in Actors :
            Begin(r, where, b, [batch |-> b, action |-> action, actor |-> actor,
                                view |-> InstructionsOf(b), file |-> InstructionsOf(b)])
      BY <1>5 DEF HandleGetBatchPain001
    <2> DEFINE what == [batch |-> b, action |-> action, actor |-> actor,
                        view |-> InstructionsOf(b), file |-> InstructionsOf(b)]
    <2>2. Wants(where, what) /\ Adds(where, what)
      BY DEF Wants, Adds, Actions
    <2> QED
      BY <2>1, <2>2, BeginIInv
  <1>6. ASSUME NEW r \in Requests, CommitEdit(r) PROVE IInv'
    BY <1>6, CommitEditIInv
  <1>7. ASSUME NEW r \in Requests, Decide(r) PROVE IInv'
    BY <1>7, DecideIInv
  <1>8. ASSUME NEW r \in Requests, CommitBatchTransition(r) PROVE IInv'
    BY <1>8, CommitTransitionIInv
  <1>9. ASSUME NEW r \in Requests, AbandonBatchRequest(r) PROVE IInv'
    BY <1>9, AbandonIInv
  <1>10. CASE \/ \E d \in Documents : MoveInvoice(d)
              \/ UNCHANGED paymentsVars
    <2>1. UNCHANGED <<batch, instructions, stage, task>>
      BY <1>10 DEF MoveInvoice, paymentsVars
    <2> QED
      BY <2>1 DEF IInv, Shape, Wants, Adds, Sound, Distinct, NamesItsSupplier, ApprovedByAnother
  <1> QED
    BY <1>1, <1>2, <1>3, <1>4, <1>5, <1>6, <1>7, <1>8, <1>9, <1>10 DEF PaymentsNext

\* The invariant holds of every behaviour.
THEOREM PaymentsInvariant == PaymentsSpec => []IInv
  <1>1. PaymentsInit => IInv
    BY InitIInv
  <1>2. IInv /\ [PaymentsNext]_paymentsVars => IInv'
    BY StepIInv
  <1> QED
    BY <1>1, <1>2, PTL DEF PaymentsSpec

\* Whatever requests overlap, a batch is approved by a human who did not submit it.
THEOREM ApprovalIsByAnother == PaymentsSpec => []ApprovedByAnother
  <1>1. IInv => ApprovedByAnother
    BY DEF IInv
  <1> QED
    BY <1>1, PaymentsInvariant, PTL

\* Two runs that prepare one batch at once do not pay a document twice in it.
THEOREM DocumentIsSettledOnceInABatch == PaymentsSpec => []SettledOnceInABatch
  <1>1. IInv => SettledOnceInABatch
    BY DEF IInv, Sound, Distinct, NamesItsSupplier, SettledOnceInABatch
  <1> QED
    BY <1>1, PaymentsInvariant, PTL

-----------------------------------------------------------------------------
(* What payment runs add up to.  A run settles an approved document for what is   *)
(* not scheduled of it, which is a number because everything there is finite.     *)

Allocation == [document : Documents, amount : Nat \ {0}]

\* Instructions that are there, or that a request is about to insert.
ArePayments(set) ==
    /\ IsFiniteSet(set)
    /\ \A i \in set : i \in Instruction /\ IsFiniteSet(i.settles)

LEMMA SettledIsInt ==
    ASSUME NEW i \in Instruction, IsFiniteSet(i.settles), NEW d
    PROVE  Settled(i, d) \in Int
  <1> DEFINE rows == {a \in i.settles : a.document = d}
             f == [a \in rows |-> a.amount]
  <1>1. IsFiniteSet(rows)
    BY FS_Subset
  <1>2. \A a \in rows : f[a] \in Int
    BY DEF Instruction
  <1> HIDE DEF rows, f
  <1>3. SumFunctionOnSet(f, rows) \in Int
    BY <1>1, <1>2, SumIsInt
  <1> QED
    BY <1>3 DEF Settled, rows, f

LEMMA UnscheduledIsInt ==
    ASSUME ArePayments(instructions), NEW d \in Documents
    PROVE  Scheduled(d) \in Int /\ Unscheduled(d) \in Int
  <1> DEFINE f == [i \in instructions |-> Settled(i, d)]
  <1>1. \A i \in instructions : f[i] \in Int
    BY SettledIsInt DEF ArePayments
  <1>2. IsFiniteSet(instructions)
    BY DEF ArePayments
  <1> HIDE DEF f
  <1>3. SumFunctionOnSet(f, instructions) \in Int
    BY <1>1, <1>2, SumIsInt
  <1>4. Scheduled(d) \in Int
    BY <1>3 DEF Scheduled, f
  <1> QED
    BY <1>4, PaymentsConstants DEF Unscheduled

\* What a run allocates to the documents of a supplier, and what it pays him.
LEMMA AllocationsAre ==
    ASSUME ArePayments(instructions), NEW s
    PROVE  /\ IsFiniteSet(Allocations(s))
           /\ Allocations(s) \subseteq Allocation
           /\ Net(s) \in Int
           /\ Allocations(s) = {} => Net(s) = 0
  <1> DEFINE to == [d \in Payable(s) |->
                        [document |-> d, amount |-> IF Unscheduled(d) < 0 THEN - Unscheduled(d)
                                                    ELSE Unscheduled(d)]]
             A == Allocations(s)
             f == [a \in A |-> IF a.document \in CreditNotes THEN - a.amount ELSE a.amount]
  <1>1. IsFiniteSet(Payable(s)) /\ Payable(s) \subseteq Documents
    BY PaymentsConstants, FS_Subset DEF Payable
  <1>2. IsFiniteSet({to[d] : d \in Payable(s)})
    <2> HIDE DEF to
    <2> QED
      BY <1>1, ImageIsFinite
  <1>3. A = {to[d] : d \in Payable(s)}
    BY DEF Allocations
  <1>4. ASSUME NEW d \in Payable(s) PROVE to[d] \in Allocation
    <2> DEFINE u == Unscheduled(d)
    <2>1. u \in Int /\ u # 0 /\ d \in Documents
      BY <1>1, UnscheduledIsInt DEF Payable
    <2>2. to[d] = [document |-> d, amount |-> IF u < 0 THEN - u ELSE u]
      OBVIOUS
    <2> HIDE DEF u, to
    <2> QED
      BY <2>1, <2>2 DEF Allocation
  <1>5. A \subseteq Allocation /\ IsFiniteSet(A)
    BY <1>2, <1>3, <1>4
  <1>6. \A a \in A : f[a] \in Int
    BY <1>5 DEF Allocation
  <1>7. Net(s) = SumFunctionOnSet(f, A)
    BY DEF Net
  <1> HIDE DEF f, A
  <1>8. Net(s) \in Int /\ (A = {} => Net(s) = 0)
    BY <1>5, <1>6, <1>7, SumIsInt, SumOfNone
  <1> QED
    BY <1>5, <1>8 DEF A

\* Every instruction of a run pays something to one of finitely many suppliers.
LEMMA RunIsTyped ==
    ASSUME ArePayments(instructions), NEW b \in Batches
    PROVE  ArePayments(PaymentRun(b)) /\ \A i \in PaymentRun(b) : i.batch = b
  <1> DEFINE S == {s \in Suppliers : IsOwed(s)}
             to == [s \in S |-> [batch |-> b, endToEndId |-> s, amount |-> Net(s),
                                 settles |-> Allocations(s)]]
             of == [d \in Documents |-> SupplierOf[d]]
  <1>1. PaymentRun(b) = {to[s] : s \in S}
    BY DEF PaymentRun
  <1>2. IsFiniteSet(S)
    <2>1. IsFiniteSet({of[d] : d \in Documents})
      <3> HIDE DEF of
      <3> QED
        BY PaymentsConstants, ImageIsFinite
    <2>2. ASSUME NEW s \in S PROVE s \in {of[d] : d \in Documents}
      <3>1. Allocations(s) # {}
        BY AllocationsAre DEF IsOwed
      <3>2. PICK d \in Payable(s) : TRUE
        BY <3>1 DEF Allocations
      <3>3. d \in Documents /\ of[d] = s
        BY <3>2 DEF Payable
      <3> QED
        BY <3>3
    <2> QED
      BY <2>1, <2>2, FS_Subset
  <1>3. ASSUME NEW s \in S
        PROVE  /\ to[s] \in Instruction /\ IsFiniteSet(to[s].settles)
               /\ to[s].batch = b
    <2>1. /\ Net(s) \in Nat \ {0} /\ s \in Suppliers
          /\ IsFiniteSet(Allocations(s)) /\ Allocations(s) \in SUBSET Allocation
      BY AllocationsAre DEF IsOwed
    <2> QED
      BY <2>1 DEF Instruction, Allocation
  <1>4. IsFiniteSet({to[s] : s \in S})
    <2> HIDE DEF to, S
    <2> QED
      BY <1>2, ImageIsFinite
  <1> QED
    BY <1>1, <1>3, <1>4 DEF ArePayments

-----------------------------------------------------------------------------
(* The requests and the batches, with the documents and amounts they hold. *)

\* What a request holds at each of its stages.
TaskIsTyped(where, w) ==
    /\ where = "idle" => w = NoTask
    /\ where = "editing" =>
        /\ w.batch \in Batches /\ w.run \in BOOLEAN
        /\ ArePayments(w.adds)
        /\ \A i \in w.adds \union w.removes : i.batch = w.batch
        /\ w.run \/ \A i \in w.adds : i.settles = {}
    /\ where \in {"loaded", "decided"} =>
        /\ w.batch \in Batches
        /\ w.view \subseteq Instruction
        /\ w.file = NoFile \/ w.file \subseteq Instruction

PayTypes ==
    /\ ArePayments(instructions)
    /\ \A r \in Requests : TaskIsTyped(stage[r], task[r])
    /\ \A b \in Batches : batch[b].file = NoFile \/ batch[b].file \subseteq Instruction
    /\ status \in [Documents -> {"booked", "approved", "disputed"}]
    /\ seen \in [Batches -> SUBSET Instruction]
    /\ raced \subseteq Batches
    /\ rivals \in BOOLEAN

\* At most one run is being prepared.
OneRun ==
    \A q, r \in Requests :
        stage[q] = "editing" /\ stage[r] = "editing" /\ task[q].run /\ task[r].run => q = r

Settles(i, d) == \E a \in i.settles : a.document = d

\* Every document is settled in full, and by one instruction.
Whole(set) == \A i \in set : \A a \in i.settles : a.amount = Total[a.document]
OneEach(set) == \A i, j \in set, d \in Documents : Settles(i, d) /\ Settles(j, d) => i = j

Covered(set) == Whole(set) /\ OneEach(set)

\* What is scheduled, with what a run is about to schedule.
Steady ==
    ~ rivals =>
        /\ OneRun
        /\ Covered(instructions)
        /\ \A r \in Requests : stage[r] = "editing" /\ task[r].run =>
                Covered(instructions \union task[r].adds)

\* The file of an unraced batch, its exports, and what its approver's request read.
RowIsClean(b) ==
    /\ batch[b].state = "exported" =>
        batch[b].exports = 1 /\ batch[b].file = InstructionsOf(b)
    /\ batch[b].state # "exported" => batch[b].exports = 0 /\ batch[b].file = NoFile
    /\ batch[b].state \in {"approved", "exported"} => seen[b] = InstructionsOf(b)

\* What the only request on batch b has read is still so.
Fits(where, w, b) ==
    /\ where = "editing" => batch[b].state = "draft"
    /\ where \in {"loaded", "decided"} =>
        /\ w.view = InstructionsOf(b)
        /\ w.file = IF w.action \in {"export", "download"} THEN InstructionsOf(b) ELSE NoFile
        /\ w.action = "download" => where = "decided" /\ batch[b].state = "exported"
        /\ where = "decided" /\ w.action # "download" =>
            batch[b].state = BatchAllowedFrom(w.action)

Alone(b) ==
    \A q, r \in Requests : task[q].batch = b /\ task[r].batch = b => q = r

Unraced ==
    \A b \in Batches \ raced :
        /\ RowIsClean(b)
        /\ Alone(b)
        /\ \A r \in Requests : task[r].batch = b => Fits(stage[r], task[r], b)

PayInv == IInv /\ PayTypes /\ Steady /\ Unraced

-----------------------------------------------------------------------------
(* While every document is settled in full by one instruction, what is scheduled  *)
(* of it is all or nothing, and a new run covers what is left.                    *)

LEMMA SettledIs ==
    ASSUME NEW i \in Instruction, \A a \in i.settles : a.amount = Total[a.document],
           NEW d \in Documents
    PROVE  Settled(i, d) = IF Settles(i, d) THEN Total[d] ELSE 0
  <1> DEFINE rows == {a \in i.settles : a.document = d}
             f == [a \in rows |-> a.amount]
  <1>1. Total[d] \in Int
    BY PaymentsConstants
  <1>2. CASE Settles(i, d)
    <2>1. PICK a \in i.settles : a.document = d
      BY <1>2 DEF Settles
    <2>2. \A c \in rows : c = a
      BY <2>1 DEF Instruction
    <2>3. rows = {a} /\ f[a] = Total[d]
      BY <2>1, <2>2
    <2> HIDE DEF f, rows
    <2>4. SumFunctionOnSet(f, {a}) = Total[d]
      BY <1>1, <2>3, SumOfOne
    <2> QED
      BY <1>2, <2>3, <2>4 DEF Settled, f, rows
  <1>3. CASE ~ Settles(i, d)
    <2>1. rows = {}
      BY <1>3 DEF Settles
    <2> HIDE DEF f, rows
    <2>2. SumFunctionOnSet(f, rows) = 0
      BY <2>1, SumOfNone
    <2> QED
      BY <1>3, <2>2 DEF Settled, f, rows
  <1> QED
    BY <1>2, <1>3

LEMMA ScheduledIs ==
    ASSUME ArePayments(instructions), Covered(instructions), NEW d \in Documents
    PROVE  Scheduled(d) = IF \E i \in instructions : Settles(i, d) THEN Total[d] ELSE 0
  <1> DEFINE f == [i \in instructions |-> Settled(i, d)]
             I == instructions
  <1>1. \A i \in I : f[i] = IF Settles(i, d) THEN Total[d] ELSE 0
    BY SettledIs DEF ArePayments, Covered, Whole
  <1>2. Total[d] \in Int /\ IsFiniteSet(I)
    BY PaymentsConstants DEF ArePayments
  <1>3. CASE \E i \in I : Settles(i, d)
    <2>1. PICK i \in I : Settles(i, d)
      BY <1>3
    <2>2. \A j \in I \ {i} : f[j] = 0
      BY <1>1, <2>1 DEF Covered, OneEach
    <2>3. {i} \in SUBSET I /\ f[i] = Total[d]
      BY <1>1, <2>1
    <2> HIDE DEF f, I
    <2>4. SumFunctionOnSet(f, I) = SumFunctionOnSet(f, {i})
      BY <1>2, <2>2, <2>3, SumOfZeros
    <2>5. SumFunctionOnSet(f, {i}) = Total[d]
      BY <1>2, <2>3, SumOfOne
    <2> QED
      BY <1>3, <2>4, <2>5 DEF Scheduled, f, I
  <1>4. CASE ~ \E i \in I : Settles(i, d)
    <2>1. \A j \in I \ {} : f[j] = 0
      BY <1>1, <1>4
    <2> HIDE DEF f
    <2>2. SumFunctionOnSet(f, I) = SumFunctionOnSet(f, {})
      <3> HIDE DEF I
      <3> QED
        BY <1>2, <2>1, SumOfZeros
    <2>3. SumFunctionOnSet(f, {}) = 0
      BY SumOfNone
    <2> QED
      BY <1>4, <2>2, <2>3 DEF Scheduled, f
  <1> QED
    BY <1>3, <1>4

LEMMA RunIsCovered ==
    ASSUME ArePayments(instructions), Covered(instructions), NEW b \in Batches
    PROVE  Covered(instructions \union PaymentRun(b))
  <1>1. ASSUME NEW i \in PaymentRun(b), NEW a \in i.settles
        PROVE  /\ a.document \in Documents
               /\ a.amount = Total[a.document]
               /\ i.endToEndId = SupplierOf[a.document]
               /\ \A j \in instructions : ~ Settles(j, a.document)
    <2>1. PICK s \in Suppliers : i.endToEndId = s /\ i.settles = Allocations(s)
      BY DEF PaymentRun
    <2>2. PICK d \in Payable(s) :
            a = [document |-> d, amount |-> IF Unscheduled(d) < 0 THEN - Unscheduled(d)
                                            ELSE Unscheduled(d)]
      BY <2>1 DEF Allocations
    <2>3. d \in Documents /\ SupplierOf[d] = s /\ Unscheduled(d) # 0
      BY <2>2 DEF Payable
    <2>4. Total[d] \in Nat \ {0}
      BY <2>3, PaymentsConstants
    <2>5. Scheduled(d) = IF \E j \in instructions : Settles(j, d) THEN Total[d] ELSE 0
      BY <2>3, ScheduledIs
    <2>6. ~ \E j \in instructions : Settles(j, d)
      BY <2>3, <2>4, <2>5 DEF Unscheduled
    <2>7. Unscheduled(d) = Total[d]
      BY <2>4, <2>5, <2>6 DEF Unscheduled
    <2>8. a.document = d /\ a.amount = Total[d]
      BY <2>2, <2>4, <2>7
    <2> QED
      BY <2>1, <2>3, <2>6, <2>8
  <1>2. Whole(instructions \union PaymentRun(b))
    BY <1>1 DEF Covered, Whole
  <1>3. ASSUME NEW i \in instructions \union PaymentRun(b),
               NEW j \in instructions \union PaymentRun(b),
               NEW d \in Documents, Settles(i, d), Settles(j, d)
        PROVE  i = j
    <2>1. CASE i \in instructions /\ j \in instructions
      BY <1>3, <2>1 DEF Covered, OneEach
    <2>2. CASE i \in PaymentRun(b) /\ j \in PaymentRun(b)
      <3>1. i.endToEndId = SupplierOf[d] /\ j.endToEndId = SupplierOf[d]
        BY <1>1, <1>3, <2>2 DEF Settles
      <3>2. i.batch = j.batch
        BY <2>2 DEF PaymentRun
      <3> QED
        BY <2>2, <3>1, <3>2, PaymentRunIsSound DEF Sound, Distinct
    <2>3. CASE i \in PaymentRun(b) /\ j \in instructions
      BY <1>1, <1>3, <2>3 DEF Settles
    <2>4. CASE i \in instructions /\ j \in PaymentRun(b)
      BY <1>1, <1>3, <2>4 DEF Settles
    <2> QED
      BY <1>3, <2>1, <2>2, <2>3, <2>4
  <1> QED
    BY <1>2, <1>3 DEF Covered, OneEach

\* What covers a set covers its parts, and payments that settle nothing may join.
LEMMA CoveredLess ==
    ASSUME NEW set, Covered(set), NEW part, NEW free, part \subseteq set \union free,
           \A i \in free : i.settles = {}
    PROVE  Covered(part)
  <1>1. Whole(part)
    BY DEF Covered, Whole
  <1>2. OneEach(part)
    BY DEF Covered, OneEach, Settles
  <1> QED
    BY <1>1, <1>2 DEF Covered

-----------------------------------------------------------------------------
(* The steps. *)

LEMMA EndEnds ==
    ASSUME IInv, NEW r \in Requests, End(r)
    PROVE  /\ stage'[r] = "idle" /\ task'[r] = NoTask
           /\ \A q \in Requests \ {r} : stage'[q] = stage[q] /\ task'[q] = task[q]
  <1>1. PICK works : task \in [Requests -> works]
    BY DEF IInv, Shape
  <1> QED
    BY <1>1 DEF IInv, Shape, End

\* The stages and tasks of a step at whose end request r holds nothing.
LEMMA EndKeepsTasks ==
    ASSUME PayInv, NEW r \in Requests, End(r)
    PROVE  /\ \A q \in Requests : TaskIsTyped(stage'[q], task'[q])
           /\ OneRun => OneRun'
           /\ \A b \in Batches : Alone(b) => Alone(b)'
           /\ \A b \in Batches, q \in Requests :
                task'[q].batch = b => q # r /\ task[q].batch = b
  <1>1. /\ stage'[r] = "idle" /\ task'[r] = NoTask
        /\ \A q \in Requests \ {r} : stage'[q] = stage[q] /\ task'[q] = task[q]
    BY EndEnds DEF PayInv
  <1>2. \A q \in Requests : TaskIsTyped(stage'[q], task'[q])
    <2>1. TaskIsTyped("idle", NoTask)
      BY DEF TaskIsTyped
    <2> QED
      BY <1>1, <2>1 DEF PayInv, PayTypes
  <1>3. OneRun => OneRun'
    BY <1>1 DEF OneRun
  <1>4. \A b \in Batches, q \in Requests : task'[q].batch = b => q # r /\ task[q].batch = b
    BY <1>1, PaymentsConstants DEF NoTask
  <1>5. ASSUME NEW b \in Batches, Alone(b) PROVE Alone(b)'
    BY <1>4, <1>5 DEF Alone
  <1> QED
    BY <1>2, <1>3, <1>4, <1>5

\* A request that begins with a task of the right type, that fits what it read.
LEMMA BeginPays ==
    ASSUME PayInv, NEW r \in Requests, NEW where \in {"editing", "loaded", "decided"},
           NEW b \in Batches, NEW what, Begin(r, where, b, what), what.batch = b,
           TaskIsTyped(where, what), Fits(where, what, b), rivals' \in BOOLEAN,
           where = "editing" /\ what.run /\ ~ rivals' =>
                /\ ~ rivals
                /\ \A q \in Requests : ~ (stage[q] = "editing" /\ task[q].run)
                /\ Covered(instructions \union what.adds),
           (where = "editing" /\ what.run) \/ rivals' = rivals
    PROVE  PayTypes' /\ Steady' /\ Unraced'
  <1>1. PICK works : task \in [Requests -> works]
    BY DEF PayInv, IInv, Shape
  <1>2. /\ stage'[r] = where /\ task'[r] = what
        /\ \A q \in Requests \ {r} : stage'[q] = stage[q] /\ task'[q] = task[q]
        /\ stage[r] = "idle"
        /\ UNCHANGED <<batch, instructions, status, seen>>
        /\ raced' = IF \E q \in Requests : task[q].batch = b THEN raced \union {b} ELSE raced
    BY <1>1 DEF PayInv, IInv, Shape, Begin
  <1>3. PayTypes'
    <2>1. \A q \in Requests : TaskIsTyped(stage'[q], task'[q])
      BY <1>2 DEF PayInv, PayTypes
    <2>2. raced' \subseteq Batches
      BY <1>2 DEF PayInv, PayTypes
    <2> QED
      BY <1>2, <2>1, <2>2 DEF PayInv, PayTypes, ArePayments
  <1>4. Steady'
    <2> SUFFICES ASSUME ~ rivals'
                 PROVE  /\ OneRun'
                        /\ Covered(instructions')
                        /\ \A q \in Requests : stage'[q] = "editing" /\ task'[q].run =>
                                Covered(instructions' \union task'[q].adds)
      BY DEF Steady, Covered, Whole, OneEach
    <2>1. ~ rivals
      OBVIOUS
    <2>2. /\ OneRun /\ Covered(instructions)
          /\ \A q \in Requests : stage[q] = "editing" /\ task[q].run =>
                Covered(instructions \union task[q].adds)
      BY <2>1 DEF PayInv, Steady
    <2>3. OneRun'
      BY <1>2, <2>2 DEF OneRun
    <2>4. ASSUME NEW q \in Requests, stage'[q] = "editing", task'[q].run
          PROVE  Covered(instructions' \union task'[q].adds)
      BY <1>2, <2>2, <2>4
    <2> QED
      BY <1>2, <2>2, <2>3, <2>4
  <1>5. Unraced'
    <2> SUFFICES ASSUME NEW d \in Batches, d \notin raced'
                 PROVE  /\ RowIsClean(d)'
                        /\ Alone(d)'
                        /\ \A q \in Requests : task'[q].batch = d => Fits(stage[q], task[q], d)'
      BY DEF Unraced
    <2>1. d \notin raced
      BY <1>2
    <2>2. /\ RowIsClean(d) /\ Alone(d)
          /\ \A q \in Requests : task[q].batch = d => Fits(stage[q], task[q], d)
      BY <2>1 DEF PayInv, Unraced
    <2>3. RowIsClean(d)'
      BY <1>2, <2>2 DEF RowIsClean, InstructionsOf
    <2>4. task[r].batch # d
      BY <1>2, PaymentsConstants DEF PayInv, PayTypes, TaskIsTyped, NoTask
    <2>5. d = b => \A q \in Requests : task[q].batch # d
      BY <1>2
    <2>6. Alone(d)'
      BY <1>2, <2>2, <2>4, <2>5 DEF Alone
    <2>7. ASSUME NEW q \in Requests, task'[q].batch = d
          PROVE  Fits(stage[q], task[q], d)'
      <3>1. CASE q = r
        BY <1>2, <2>7, <3>1 DEF Fits, InstructionsOf
      <3>2. CASE q # r
        <4>1. Fits(stage[q], task[q], d) /\ stage'[q] = stage[q] /\ task'[q] = task[q]
          BY <1>2, <2>2, <2>7, <3>2
        <4> QED
          BY <1>2, <4>1 DEF Fits, InstructionsOf
      <3> QED
        BY <3>1, <3>2
    <2> QED
      BY <2>3, <2>6, <2>7
  <1> QED
    BY <1>3, <1>4, <1>5

\* An edit commits while its batch is still a draft, or the batch is raced.
LEMMA EditPays ==
    ASSUME PayInv, NEW r \in Requests, CommitEdit(r)
    PROVE  PayTypes' /\ Steady' /\ Unraced'
  <1> DEFINE b == task[r].batch
             adds == task[r].adds
             removes == task[r].removes
  <1>1. /\ End(r) /\ stage[r] = "editing"
        /\ instructions' = (instructions \ removes) \union adds
        /\ UNCHANGED <<batch, status, seen, raced, rivals>>
    BY DEF CommitEdit
  <1>2. /\ \A q \in Requests : TaskIsTyped(stage'[q], task'[q])
        /\ OneRun => OneRun'
        /\ \A d \in Batches : Alone(d) => Alone(d)'
        /\ \A d \in Batches, q \in Requests : task'[q].batch = d => q # r /\ task[q].batch = d
        /\ \A q \in Requests \ {r} : stage'[q] = stage[q] /\ task'[q] = task[q]
        /\ stage'[r] = "idle"
    BY <1>1, EndKeepsTasks, EndEnds DEF PayInv
  <1>3. /\ b \in Batches /\ task[r].run \in BOOLEAN
        /\ ArePayments(adds)
        /\ \A i \in adds \union removes : i.batch = b
        /\ task[r].run \/ \A i \in adds : i.settles = {}
    BY <1>1 DEF PayInv, PayTypes, TaskIsTyped
  <1>4. ArePayments(instructions')
    <2>1. IsFiniteSet(instructions) /\ IsFiniteSet(adds)
      BY <1>3 DEF PayInv, PayTypes, ArePayments
    <2>2. IsFiniteSet((instructions \ removes) \union adds)
      BY <2>1, FS_Difference, FS_Union
    <2> QED
      BY <1>1, <1>3, <2>2 DEF PayInv, PayTypes, ArePayments
  <1>5. PayTypes'
    BY <1>1, <1>2, <1>4 DEF PayInv, PayTypes, ArePayments
  <1>6. Steady'
    <2> SUFFICES ASSUME ~ rivals
                 PROVE  /\ OneRun'
                        /\ Covered(instructions')
                        /\ \A q \in Requests : stage'[q] = "editing" /\ task'[q].run =>
                                Covered(instructions' \union task'[q].adds)
      BY <1>1 DEF Steady, Covered, Whole, OneEach
    <2>1. /\ OneRun /\ Covered(instructions)
          /\ \A q \in Requests : stage[q] = "editing" /\ task[q].run =>
                Covered(instructions \union task[q].adds)
      BY DEF PayInv, Steady
    <2>2. CASE task[r].run
      <3>1. Covered(instructions \union adds)
        BY <1>1, <2>1, <2>2
      <3> DEFINE none == {}
      <3>2. /\ instructions' \subseteq (instructions \union adds) \union none
            /\ \A i \in none : i.settles = {}
        BY <1>1
      <3>3. Covered(instructions')
        <4> HIDE DEF adds, none
        <4> QED
          BY <3>1, <3>2, CoveredLess
      <3>4. \A q \in Requests : ~ (stage'[q] = "editing" /\ task'[q].run)
        BY <1>1, <1>2, <2>1, <2>2 DEF OneRun
      <3> QED
        BY <1>2, <2>1, <3>3, <3>4
    <2>3. CASE ~ task[r].run
      <3>1. \A i \in adds : i.settles = {}
        BY <1>3, <2>3
      <3>2. instructions' \subseteq instructions \union adds
        BY <1>1
      <3>3. Covered(instructions')
        <4> HIDE DEF adds
        <4> QED
          BY <2>1, <3>1, <3>2, CoveredLess
      <3>4. ASSUME NEW q \in Requests, stage'[q] = "editing", task'[q].run
            PROVE  Covered(instructions' \union task'[q].adds)
        <4>1. q # r /\ task'[q] = task[q] /\ stage[q] = "editing"
          BY <1>2, <3>4
        <4>2. Covered(instructions \union task[q].adds)
          BY <2>1, <3>4, <4>1
        <4>3. instructions' \union task'[q].adds
                \subseteq (instructions \union task[q].adds) \union adds
          BY <3>2, <4>1
        <4> HIDE DEF adds
        <4> QED
          BY <3>1, <4>2, <4>3, CoveredLess
      <3> QED
        BY <1>2, <2>1, <3>3, <3>4
    <2> QED
      BY <1>3, <2>2, <2>3
  <1>7. Unraced'
    <2> SUFFICES ASSUME NEW d \in Batches, d \notin raced
                 PROVE  /\ RowIsClean(d)'
                        /\ Alone(d)'
                        /\ \A q \in Requests : task'[q].batch = d => Fits(stage[q], task[q], d)'
      BY <1>1 DEF Unraced
    <2>1. /\ RowIsClean(d) /\ Alone(d)
          /\ \A q \in Requests : task[q].batch = d => Fits(stage[q], task[q], d)
      BY DEF PayInv, Unraced
    <2>2. CASE d = b
      <3>1. batch[d].state = "draft"
        BY <1>1, <2>1, <2>2 DEF Fits
      <3>2. RowIsClean(d)'
        BY <1>1, <2>1, <3>1 DEF RowIsClean
      <3>3. \A q \in Requests : task'[q].batch # d
        BY <1>2, <2>1, <2>2 DEF Alone
      <3> QED
        BY <1>2, <2>1, <3>2, <3>3
    <2>3. CASE d # b
      <3>1. InstructionsOf(d)' = InstructionsOf(d)
        BY <1>1, <1>3, <2>3 DEF InstructionsOf
      <3>2. RowIsClean(d)'
        BY <1>1, <2>1, <3>1 DEF RowIsClean
      <3>3. ASSUME NEW q \in Requests, task'[q].batch = d PROVE Fits(stage[q], task[q], d)'
        <4>1. stage'[q] = stage[q] /\ task'[q] = task[q] /\ Fits(stage[q], task[q], d)
          BY <1>2, <2>1, <3>3
        <4> QED
          BY <1>1, <3>1, <4>1 DEF Fits
      <3> QED
        BY <1>2, <2>1, <3>2, <3>3
    <2> QED
      BY <2>2, <2>3
  <1> QED
    BY <1>5, <1>6, <1>7

\* A decision finds an unraced batch in the state that its request read.
LEMMA DecidePays ==
    ASSUME PayInv, NEW r \in Requests, Decide(r)
    PROVE  PayTypes' /\ Steady' /\ Unraced'
  <1>1. /\ stage[r] = "loaded" /\ stage'[r] = "decided"
        /\ \A q \in Requests \ {r} : stage'[q] = stage[q]
        /\ BatchAllowed(task[r].action, batch[task[r].batch], task[r].actor)
        /\ UNCHANGED <<batch, instructions, status, task, seen, raced, rivals>>
    BY DEF Decide, PayInv, IInv, Shape
  <1>2. \A q \in Requests : stage'[q] = "editing" => stage[q] = "editing"
    BY <1>1
  <1>3. PayTypes'
    <2>1. ASSUME NEW q \in Requests PROVE TaskIsTyped(stage'[q], task'[q])
      <3>1. TaskIsTyped(stage[q], task[q])
        BY DEF PayInv, PayTypes
      <3>2. CASE q = r
        BY <1>1, <3>1, <3>2 DEF TaskIsTyped
      <3>3. CASE q # r
        BY <1>1, <3>1, <3>3
      <3> QED
        BY <3>2, <3>3
    <2> QED
      BY <1>1, <2>1 DEF PayInv, PayTypes, ArePayments
  <1>4. Steady'
    <2> SUFFICES ASSUME ~ rivals
                 PROVE  /\ OneRun'
                        /\ Covered(instructions)
                        /\ \A q \in Requests : stage'[q] = "editing" /\ task[q].run =>
                                Covered(instructions \union task[q].adds)
      BY <1>1 DEF Steady, Covered, Whole, OneEach
    <2> QED
      BY <1>1, <1>2 DEF PayInv, Steady, OneRun
  <1>5. Unraced'
    <2> SUFFICES ASSUME NEW d \in Batches, d \notin raced
                 PROVE  /\ RowIsClean(d)'
                        /\ Alone(d)'
                        /\ \A q \in Requests : task[q].batch = d => Fits(stage[q], task[q], d)'
      BY <1>1 DEF Unraced
    <2>1. /\ RowIsClean(d) /\ Alone(d)
          /\ \A q \in Requests : task[q].batch = d => Fits(stage[q], task[q], d)
      BY DEF PayInv, Unraced
    <2>2. RowIsClean(d)' /\ Alone(d)'
      BY <1>1, <2>1 DEF RowIsClean, InstructionsOf, Alone
    <2>3. ASSUME NEW q \in Requests, task[q].batch = d PROVE Fits(stage[q], task[q], d)'
      <3>1. Fits(stage[q], task[q], d)
        BY <2>1, <2>3
      <3>2. CASE q = r
        <4>1. task[q].action # "download"
          BY <1>1, <3>1, <3>2 DEF Fits
        <4>2. batch[d].state = BatchAllowedFrom(task[q].action)
          BY <1>1, <2>3, <3>2 DEF BatchAllowed
        <4> QED
          BY <1>1, <3>1, <3>2, <4>1, <4>2 DEF Fits, InstructionsOf
      <3>3. CASE q # r
        BY <1>1, <3>1, <3>3 DEF Fits, InstructionsOf
      <3> QED
        BY <3>2, <3>3
    <2> QED
      BY <2>2, <2>3
  <1> QED
    BY <1>3, <1>4, <1>5

\* What does not touch the batches or the instructions disturbs nothing.
LEMMA QuietPays ==
    ASSUME PayInv, UNCHANGED <<batch, instructions, seen, raced, rivals>>,
           status' \in [Documents -> {"booked", "approved", "disputed"}],
           UNCHANGED <<stage, task>> \/ \E r \in Requests : End(r)
    PROVE  PayTypes' /\ Steady' /\ Unraced'
  <1>1. /\ \A q \in Requests : TaskIsTyped(stage'[q], task'[q])
        /\ OneRun => OneRun'
        /\ \A d \in Batches : Alone(d) => Alone(d)'
        /\ \A d \in Batches, q \in Requests : task'[q].batch = d =>
                task[q].batch = d /\ task'[q] = task[q] /\ stage'[q] = stage[q]
        /\ \A q \in Requests : stage'[q] = "editing" =>
                task'[q] = task[q] /\ stage'[q] = stage[q]
    <2>1. CASE UNCHANGED <<stage, task>>
      BY <2>1 DEF PayInv, PayTypes, OneRun, Alone
    <2>2. CASE \E r \in Requests : End(r)
      <3>1. PICK r \in Requests : End(r)
        BY <2>2
      <3> QED
        BY <3>1, EndKeepsTasks, EndEnds DEF PayInv
    <2> QED
      BY <2>1, <2>2
  <1>2. PayTypes'
    BY <1>1 DEF PayInv, PayTypes, ArePayments
  <1>3. Steady'
    <2> SUFFICES ASSUME ~ rivals
                 PROVE  /\ OneRun'
                        /\ Covered(instructions)
                        /\ \A q \in Requests : stage'[q] = "editing" /\ task'[q].run =>
                                Covered(instructions \union task'[q].adds)
      BY DEF Steady, Covered, Whole, OneEach
    <2> QED
      BY <1>1 DEF PayInv, Steady
  <1>4. Unraced'
    <2> SUFFICES ASSUME NEW d \in Batches, d \notin raced
                 PROVE  /\ RowIsClean(d)'
                        /\ Alone(d)'
                        /\ \A q \in Requests : task'[q].batch = d => Fits(stage[q], task[q], d)'
      BY DEF Unraced
    <2>1. /\ RowIsClean(d) /\ Alone(d)
          /\ \A q \in Requests : task[q].batch = d => Fits(stage[q], task[q], d)
      BY DEF PayInv, Unraced
    <2>2. RowIsClean(d)' /\ Alone(d)'
      BY <1>1, <2>1 DEF RowIsClean, InstructionsOf
    <2>3. ASSUME NEW q \in Requests, task'[q].batch = d PROVE Fits(stage[q], task[q], d)'
      <3>1. stage'[q] = stage[q] /\ task'[q] = task[q] /\ Fits(stage[q], task[q], d)
        BY <1>1, <2>1, <2>3
      <3> QED
        BY <3>1 DEF Fits, InstructionsOf
    <2> QED
      BY <2>2, <2>3
  <1> QED
    BY <1>2, <1>3, <1>4

\* What a transition writes to an unraced batch, and what its approver has read.
LEMMA TransitionPays ==
    ASSUME PayInv, NEW r \in Requests, CommitBatchTransition(r)
    PROVE  PayTypes' /\ Steady' /\ Unraced'
  <1> DEFINE w == task[r]
             b == w.batch
             row == batch[b]
             patched == IF w.action = "download" THEN row ELSE Patch(w.action, row, w.actor)
             new == IF w.file = NoFile THEN patched ELSE [patched EXCEPT !.file = w.file]
  <1>1. /\ stage[r] = "decided" /\ End(r)
        /\ batch' = [batch EXCEPT ![b] = new]
        /\ seen' = IF w.action = "approve" THEN [seen EXCEPT ![b] = w.view] ELSE seen
        /\ UNCHANGED <<instructions, status, raced, rivals>>
    BY DEF CommitBatchTransition
  <1>2. /\ \A q \in Requests : TaskIsTyped(stage'[q], task'[q])
        /\ OneRun => OneRun'
        /\ \A d \in Batches : Alone(d) => Alone(d)'
        /\ \A d \in Batches, q \in Requests : task'[q].batch = d => q # r /\ task[q].batch = d
        /\ \A q \in Requests \ {r} : stage'[q] = stage[q] /\ task'[q] = task[q]
        /\ stage'[r] = "idle"
    BY <1>1, EndKeepsTasks, EndEnds DEF PayInv
  <1>3. /\ b \in Batches
        /\ w.view \subseteq Instruction
        /\ w.file = NoFile \/ w.file \subseteq Instruction
        /\ w.action \in Actions \union {"download"}
    BY <1>1 DEF PayInv, PayTypes, TaskIsTyped, IInv, Wants
  <1>4. PICK files : batch \in [Batches -> Columns(files)]
    BY DEF PayInv, IInv, Shape
  <1>5. row \in Columns(files)
    BY <1>3, <1>4
  <1>6. /\ batch'[b] = new
        /\ \A d \in Batches \ {b} : batch'[d] = batch[d] /\ seen'[d] = seen[d]
    BY <1>1, <1>3, <1>4 DEF PayInv, PayTypes
  <1>7. /\ patched.file = row.file
        /\ patched.exports = IF w.action = "export" THEN row.exports + 1 ELSE row.exports
        /\ patched.state = CASE w.action = "submit"   -> "submitted"
                             [] w.action = "approve"  -> "approved"
                             [] w.action = "reject"   -> "rejected"
                             [] w.action = "reopen"   -> "draft"
                             [] w.action = "export"   -> "exported"
                             [] w.action = "download" -> row.state
    <2> HIDE DEF w, row
    <2> QED
      BY <1>3, <1>5 DEF Patch, Columns, Actions
  <1>8. /\ new.file = IF w.file = NoFile THEN row.file ELSE w.file
        /\ new.state = patched.state /\ new.exports = patched.exports
    <2>1. patched \in [state : {patched.state}, submittedBy : {patched.submittedBy},
                       approvedBy : {patched.approvedBy}, file : {patched.file},
                       exports : {patched.exports}]
      <3> HIDE DEF w, row
      <3> QED
        BY <1>3, <1>5 DEF Patch, Columns, Actions
    <2> HIDE DEF patched, row, w
    <2> QED
      BY <1>7, <2>1
  <1>9. PayTypes'
    <2>1. ASSUME NEW d \in Batches
          PROVE  batch'[d].file = NoFile \/ batch'[d].file \subseteq Instruction
      <3>1. batch[d].file = NoFile \/ batch[d].file \subseteq Instruction
        BY DEF PayInv, PayTypes
      <3> HIDE DEF new, w
      <3> QED
        BY <1>3, <1>6, <1>8, <3>1
    <2>2. seen' \in [Batches -> SUBSET Instruction]
      BY <1>1, <1>3 DEF PayInv, PayTypes
    <2> QED
      BY <1>1, <1>2, <2>1, <2>2 DEF PayInv, PayTypes, ArePayments
  <1>10. Steady'
    <2> SUFFICES ASSUME ~ rivals
                 PROVE  /\ OneRun'
                        /\ Covered(instructions)
                        /\ \A q \in Requests : stage'[q] = "editing" /\ task'[q].run =>
                                Covered(instructions \union task'[q].adds)
      BY <1>1 DEF Steady, Covered, Whole, OneEach
    <2> QED
      BY <1>2 DEF PayInv, Steady
  <1>11. Unraced'
    <2> SUFFICES ASSUME NEW d \in Batches, d \notin raced
                 PROVE  /\ RowIsClean(d)'
                        /\ Alone(d)'
                        /\ \A q \in Requests : task'[q].batch = d => Fits(stage[q], task[q], d)'
      BY <1>1 DEF Unraced
    <2>1. /\ RowIsClean(d) /\ Alone(d)
          /\ \A q \in Requests : task[q].batch = d => Fits(stage[q], task[q], d)
      BY DEF PayInv, Unraced
    <2>2. InstructionsOf(d)' = InstructionsOf(d)
      BY <1>1 DEF InstructionsOf
    <2>3. CASE d = b
      <3>1. \A q \in Requests : task'[q].batch # d
        BY <1>2, <2>1, <2>3 DEF Alone
      <3>2. /\ w.view = InstructionsOf(d)
            /\ w.file = IF w.action \in {"export", "download"} THEN InstructionsOf(d) ELSE NoFile
            /\ w.action = "download" => row.state = "exported"
            /\ w.action # "download" => row.state = BatchAllowedFrom(w.action)
        BY <1>1, <2>1, <2>3 DEF Fits
      <3>3. /\ row.state = "exported" => row.exports = 1 /\ row.file = InstructionsOf(d)
            /\ row.state # "exported" => row.exports = 0 /\ row.file = NoFile
            /\ row.state \in {"approved", "exported"} => seen[d] = InstructionsOf(d)
        BY <2>1, <2>3 DEF RowIsClean
      <3>4. seen'[d] = IF w.action = "approve" THEN InstructionsOf(d) ELSE seen[d]
        BY <1>1, <1>3, <2>3, <3>2 DEF PayInv, PayTypes
      <3> HIDE DEF new, patched, row, w
      <3>5. /\ new.state = "exported" => new.exports = 1 /\ new.file = InstructionsOf(d)
            /\ new.state # "exported" => new.exports = 0 /\ new.file = NoFile
            /\ new.state \in {"approved", "exported"} => seen'[d] = InstructionsOf(d)
        BY <1>3, <1>7, <1>8, <3>2, <3>3, <3>4 DEF Actions, BatchAllowedFrom
      <3>6. RowIsClean(d)'
        BY <1>6, <2>2, <2>3, <3>5 DEF RowIsClean
      <3> QED
        BY <1>2, <2>1, <3>1, <3>6
    <2>4. CASE d # b
      <3>1. RowIsClean(d)'
        BY <1>6, <2>1, <2>2, <2>4 DEF RowIsClean
      <3>2. ASSUME NEW q \in Requests, task'[q].batch = d PROVE Fits(stage[q], task[q], d)'
        <4>1. stage'[q] = stage[q] /\ task'[q] = task[q] /\ Fits(stage[q], task[q], d)
          BY <1>2, <2>1, <3>2
        <4> QED
          BY <1>6, <2>2, <2>4, <4>1 DEF Fits
      <3> QED
        BY <1>2, <2>1, <3>1, <3>2
    <2> QED
      BY <2>3, <2>4
  <1> QED
    BY <1>9, <1>10, <1>11

LEMMA InitPays == PaymentsInit => PayInv
  <1> SUFFICES ASSUME PaymentsInit PROVE PayInv
    OBVIOUS
  <1>1. IInv
    BY InitIInv
  <1>2. PayTypes
    BY FS_EmptySet DEF PaymentsInit, PayTypes, ArePayments, TaskIsTyped, Draft
  <1>3. Steady
    BY DEF PaymentsInit, Steady, OneRun, Covered, Whole, OneEach
  <1>4. Unraced
    BY PaymentsConstants
       DEF PaymentsInit, Unraced, RowIsClean, Alone, Fits, InstructionsOf, NoTask, Draft
  <1> QED
    BY <1>1, <1>2, <1>3, <1>4 DEF PayInv

\* A request that begins an edit by hand: one instruction more, or one less.
LEMMA EditBegins ==
    ASSUME PayInv, NEW r \in Requests, NEW b \in Batches, NEW adds, NEW removes,
           IsEditable(batch[b].state), Begin(r, "editing", b, Edit(b, FALSE, adds, removes)),
           ArePayments(adds), \A i \in adds : i.settles = {},
           \A i \in adds \union removes : i.batch = b,
           UNCHANGED rivals
    PROVE  PayTypes' /\ Steady' /\ Unraced'
  <1> DEFINE what == Edit(b, FALSE, adds, removes)
  <1>1. /\ what.batch = b /\ what.run = FALSE
        /\ what.adds = adds /\ what.removes = removes
    BY DEF Edit
  <1> HIDE DEF what
  <1>2. TaskIsTyped("editing", what)
    BY <1>1 DEF TaskIsTyped
  <1>3. Fits("editing", what, b)
    BY DEF Fits, IsEditable
  <1>4. rivals' \in BOOLEAN
    BY DEF PayInv, PayTypes
  <1>5. Begin(r, "editing", b, what)
    BY DEF what
  <1> QED
    BY <1>1, <1>2, <1>3, <1>4, <1>5, BeginPays

\* Every step keeps the types, what covers the documents and what is unraced.
LEMMA StepPays == PayInv /\ [PaymentsNext]_paymentsVars => PayInv'
  <1> SUFFICES ASSUME PayInv, [PaymentsNext]_paymentsVars PROVE PayInv'
    OBVIOUS
  <1> DEFINE Holds == PayTypes' /\ Steady' /\ Unraced'
  <1>1. ASSUME NEW r \in Requests, NEW b \in Batches, HandleAddInstruction(r, b) PROVE Holds
    <2>1. PICK ref \in References :
            Begin(r, "editing", b,
                  Edit(b, FALSE, {[batch |-> b, endToEndId |-> ref, amount |-> 1,
                                   settles |-> {}]}, {}))
      BY <1>1 DEF HandleAddInstruction
    <2> DEFINE i == [batch |-> b, endToEndId |-> ref, amount |-> 1, settles |-> {}]
    <2>2. i \in Instruction /\ i.settles = {} /\ i.batch = b
      BY DEF Instruction
    <2>3. ArePayments({i})
      BY <2>2, FS_Singleton, FS_EmptySet DEF ArePayments
    <2>4. IsEditable(batch[b].state) /\ UNCHANGED rivals
      BY <1>1 DEF HandleAddInstruction
    <2>5. Begin(r, "editing", b, Edit(b, FALSE, {i}, {}))
      BY <2>1
    <2> HIDE DEF i
    <2>6. (\A j \in {i} : j.settles = {}) /\ \A j \in {i} \union {} : j.batch = b
      BY <2>2
    <2> QED
      BY <2>3, <2>4, <2>5, <2>6, EditBegins
  <1>2. ASSUME NEW r \in Requests, NEW b \in Batches, HandleAddApprovedInvoices(r, b)
        PROVE  Holds
    <2> DEFINE what == Edit(b, TRUE, PaymentRun(b), {})
    <2>1. /\ Begin(r, "editing", b, what)
          /\ rivals' = (rivals \/ \E q \in Requests : stage[q] = "editing" /\ task[q].run)
          /\ IsEditable(batch[b].state)
      BY <1>2 DEF HandleAddApprovedInvoices
    <2>2. /\ what.batch = b /\ what.run = TRUE
          /\ what.adds = PaymentRun(b) /\ what.removes = {}
      BY DEF Edit
    <2> HIDE DEF what
    <2>3. ArePayments(instructions)
      BY DEF PayInv, PayTypes
    <2>4. TaskIsTyped("editing", what)
      BY <2>2, <2>3, RunIsTyped DEF TaskIsTyped
    <2>5. Fits("editing", what, b)
      BY <2>1 DEF Fits, IsEditable
    <2>6. rivals' \in BOOLEAN
      BY <2>1
    <2>7. ASSUME ~ rivals'
          PROVE  /\ ~ rivals
                 /\ \A q \in Requests : ~ (stage[q] = "editing" /\ task[q].run)
                 /\ Covered(instructions \union what.adds)
      <3>1. /\ ~ rivals
            /\ \A q \in Requests : ~ (stage[q] = "editing" /\ task[q].run)
        BY <2>1, <2>7
      <3>2. Covered(instructions)
        BY <3>1 DEF PayInv, Steady
      <3> QED
        BY <2>2, <2>3, <3>1, <3>2, RunIsCovered
    <2> QED
      BY <2>1, <2>2, <2>4, <2>5, <2>6, <2>7, BeginPays
  <1>3. ASSUME NEW r \in Requests, NEW b \in Batches, HandleRemoveInstruction(r, b) PROVE Holds
    <2>1. PICK i \in InstructionsOf(b) : Begin(r, "editing", b, Edit(b, FALSE, {}, {i}))
      BY <1>3 DEF HandleRemoveInstruction
    <2>2. i.batch = b
      BY DEF InstructionsOf
    <2>3. IsEditable(batch[b].state) /\ UNCHANGED rivals
      BY <1>3 DEF HandleRemoveInstruction
    <2> DEFINE none == {}
    <2>4. /\ Begin(r, "editing", b, Edit(b, FALSE, none, {i}))
          /\ ArePayments(none) /\ \A j \in none : j.settles = {}
          /\ \A j \in none \union {i} : j.batch = b
      BY <2>1, <2>2, FS_EmptySet DEF ArePayments
    <2> HIDE DEF none
    <2> QED
      BY <2>3, <2>4, EditBegins
  <1>4. ASSUME NEW r \in Requests, NEW b \in Batches, HandleTransitionBatch(r, b) PROVE Holds
    <2>1. PICK action \in {"submit", "approve", "reject", "reopen"}, actor \in Actors :
            Begin(r, "loaded", b, [batch |-> b, action |-> action, actor |-> actor,
                                   view |-> InstructionsOf(b), file |-> NoFile])
      BY <1>4 DEF HandleTransitionBatch
    <2> DEFINE what == [batch |-> b, action |-> action, actor |-> actor,
                        view |-> InstructionsOf(b), file |-> NoFile]
    <2>2. TaskIsTyped("loaded", what)
      BY DEF TaskIsTyped, InstructionsOf, PayInv, PayTypes, ArePayments
    <2>3. Fits("loaded", what, b)
      BY DEF Fits
    <2>4. rivals' = rivals /\ rivals \in BOOLEAN
      BY <1>4 DEF HandleTransitionBatch, PayInv, PayTypes
    <2>5. what.batch = b /\ Begin(r, "loaded", b, what)
      BY <2>1
    <2> HIDE DEF what
    <2> QED
      BY <2>2, <2>3, <2>4, <2>5, BeginPays
  <1>5. ASSUME NEW r \in Requests, NEW b \in Batches, HandleGetBatchPain001(r, b) PROVE Holds
    <2> DEFINE where == IF Exporting(batch[b]) THEN "loaded" ELSE "decided"
               action == IF Exporting(batch[b]) THEN "export" ELSE "download"
    <2>1. PICK actor \in Actors :
            Begin(r, where, b, [batch |-> b, action |-> action, actor |-> actor,
                                view |-> InstructionsOf(b), file |-> InstructionsOf(b)])
      BY <1>5 DEF HandleGetBatchPain001
    <2> DEFINE what == [batch |-> b, action |-> action, actor |-> actor,
                        view |-> InstructionsOf(b), file |-> InstructionsOf(b)]
    <2>2. where \in {"loaded", "decided"}
      OBVIOUS
    <2>3. TaskIsTyped(where, what)
      BY <2>2 DEF TaskIsTyped, InstructionsOf, PayInv, PayTypes, ArePayments
    <2>4. batch[b].state \in {"approved", "exported"}
      BY <1>5 DEF HandleGetBatchPain001
    <2>5. Fits(where, what, b)
      BY <2>4 DEF Fits, Exporting
    <2>6. rivals' = rivals /\ rivals \in BOOLEAN
      BY <1>5 DEF HandleGetBatchPain001, PayInv, PayTypes
    <2>7. what.batch = b /\ Begin(r, where, b, what)
      BY <2>1
    <2> HIDE DEF what, where
    <2> QED
      BY <2>2, <2>3, <2>5, <2>6, <2>7, BeginPays
  <1>6. ASSUME NEW r \in Requests, CommitEdit(r) PROVE Holds
    BY <1>6, EditPays
  <1>7. ASSUME NEW r \in Requests, Decide(r) PROVE Holds
    BY <1>7, DecidePays
  <1>8. ASSUME NEW r \in Requests, CommitBatchTransition(r) PROVE Holds
    BY <1>8, TransitionPays
  <1>9. ASSUME NEW r \in Requests, AbandonBatchRequest(r) PROVE Holds
    <2>1. status \in [Documents -> {"booked", "approved", "disputed"}]
      BY DEF PayInv, PayTypes
    <2> QED
      BY <1>9, <2>1, QuietPays DEF AbandonBatchRequest
  <1>10. ASSUME NEW d \in Documents, MoveInvoice(d) PROVE Holds
    <2>1. status' \in [Documents -> {"booked", "approved", "disputed"}]
      BY <1>10 DEF MoveInvoice, PayInv, PayTypes
    <2> QED
      BY <1>10, <2>1, QuietPays DEF MoveInvoice
  <1>11. ASSUME UNCHANGED paymentsVars PROVE Holds
    <2>1. status' \in [Documents -> {"booked", "approved", "disputed"}]
      BY <1>11 DEF paymentsVars, PayInv, PayTypes
    <2> QED
      BY <1>11, <2>1, QuietPays DEF paymentsVars
  <1>12. IInv'
    BY StepIInv DEF PayInv
  <1>13. Holds
    BY <1>1, <1>2, <1>3, <1>4, <1>5, <1>6, <1>7, <1>8, <1>9, <1>10, <1>11 DEF PaymentsNext
  <1> QED
    BY <1>12, <1>13 DEF PayInv

\* Types, coverage and unraced batches hold of every behaviour.
THEOREM PaymentsStayInOrder == PaymentsSpec => []PayInv
  <1>1. PaymentsInit => PayInv
    BY InitPays
  <1>2. PayInv /\ [PaymentsNext]_paymentsVars => PayInv'
    BY StepPays
  <1> QED
    BY <1>1, <1>2, PTL DEF PaymentsSpec

\* The variables keep their types: whatever is scheduled, no instruction pays
\* nothing or less.
THEOREM PaymentsTypes == PaymentsSpec => []PaymentsTypeOK
  <1>1. ASSUME PayInv PROVE PaymentsTypeOK
    <2>1. PICK files : batch \in [Batches -> Columns(files)]
      BY <1>1 DEF PayInv, IInv, Shape
    <2>2. \A b \in Batches :
            /\ batch[b].state \in {"draft", "submitted", "approved", "exported", "rejected"}
            /\ batch[b].submittedBy \in Actors \union {Nobody}
            /\ batch[b].approvedBy \in Humans \union {Nobody}
            /\ batch[b].file = NoFile \/ batch[b].file \subseteq Instruction
            /\ batch[b].exports \in Nat
      BY <1>1, <2>1 DEF PayInv, PayTypes, Columns, States
    <2>3. instructions \subseteq Instruction
      BY <1>1 DEF PayInv, PayTypes, ArePayments
    <2>4. stage \in [Requests -> {"idle", "editing", "loaded", "decided"}]
      BY <1>1 DEF PayInv, IInv, Shape
    <2>5. \A r \in Requests : task[r].batch \in Batches \union {Nobody}
      <3> SUFFICES ASSUME NEW r \in Requests PROVE task[r].batch \in Batches \union {Nobody}
        OBVIOUS
      <3>1. TaskIsTyped(stage[r], task[r])
        BY <1>1 DEF PayInv, PayTypes
      <3>2. stage[r] \in {"idle", "editing", "loaded", "decided"}
        BY <2>4
      <3>3. NoTask.batch = Nobody
        BY DEF NoTask
      <3> QED
        BY <3>1, <3>2, <3>3 DEF TaskIsTyped
    <2> QED
      BY <1>1, <2>2, <2>3, <2>4, <2>5 DEF PayInv, PayTypes, PaymentsTypeOK
  <1>2. PayInv => PaymentsTypeOK
    BY <1>1
  <1> QED
    BY <1>2, PaymentsStayInOrder, PTL

\* As long as no two runs are prepared at once, a document is settled in full or
\* not at all, for any documents, totals and suppliers.
THEOREM DocumentsAreScheduledOnce == PaymentsSpec => []ScheduledOnce
  <1>1. ASSUME PayInv, ~ rivals, NEW d \in Documents PROVE Scheduled(d) \in {0, Total[d]}
    BY <1>1, ScheduledIs DEF PayInv, PayTypes, Steady
  <1>2. PayInv => ScheduledOnce
    BY <1>1 DEF ScheduledOnce
  <1> QED
    BY <1>2, PaymentsStayInOrder, PTL

\* As long as requests on a batch do not overlap, the file is what its approver's
\* request read, and what the batch holds.
THEOREM SentWasSeen == PaymentsSpec => []SentWasSeenUnlessRaced
  <1>1. ASSUME PayInv, NEW b \in Batches \ raced, batch[b].file # NoFile
        PROVE  batch[b].file = seen[b] /\ batch[b].file = InstructionsOf(b)
    BY <1>1 DEF PayInv, Unraced, RowIsClean
  <1>2. PayInv => SentWasSeenUnlessRaced
    BY <1>1 DEF SentWasSeenUnlessRaced
  <1> QED
    BY <1>2, PaymentsStayInOrder, PTL

\* As long as requests on a batch do not overlap, it is exported once.
THEOREM ExportedOnce == PaymentsSpec => []ExportedOnceUnlessRaced
  <1>1. ASSUME PayInv, NEW b \in Batches \ raced PROVE batch[b].exports <= 1
    BY <1>1 DEF PayInv, Unraced, RowIsClean
  <1>2. PayInv => ExportedOnceUnlessRaced
    BY <1>1 DEF ExportedOnceUnlessRaced
  <1> QED
    BY <1>2, PaymentsStayInOrder, PTL

=============================================================================
