---------------------------- MODULE WebhooksProofs ----------------------------
(***************************************************************************)
(* No event that commits in order is passed over, and none is taken before *)
(* one that precedes it, for any number of overlapping rounds, events and  *)
(* replays; and what a replay asks for is sent before the cursor passes it.*)
(*                                                                         *)
(* An event the subscriber still has to hear of (Unheard) lies ahead of    *)
(* the cursor, ahead of what each round remembers of it, and in the batch  *)
(* of a round that is about to send something later.                       *)
(***************************************************************************)
EXTENDS Webhooks, TLAPS, FiniteSetTheorems, WellFoundedInduction

Unheard == (Owed \ taken) \union asked

CursorBehind == \A e \in Unheard : e > endpoint.cursor

RoundBehind(r) ==
    /\ pc[r] = "due" => \A e \in Unheard : e > job[r].cursor
    /\ \A b \in job[r].batch : \A e \in Unheard : e < b => e \in job[r].batch
    /\ pc[r] = "sent" /\ job[r].outcome = "delivered" => First(job[r].batch) \notin Unheard

\* What a round read is what is there, or the round is outdated.
Counts ==
    /\ \A r \in Running \ outdated : job[r].failures = endpoint.failures
    /\ ~ miscounted => endpoint.failures <= inARow

-----------------------------------------------------------------------------
\* The first event of a batch is in it, and no other comes before it.
LEMMA FirstIsFirst ==
    ASSUME NEW batch \in SUBSET Nat, batch # {}
    PROVE  First(batch) \in batch /\ \A b \in batch : First(batch) <= b
  <1> DEFINE Less == {ss \in Nat \X Nat : ss[1] < ss[2]}
  <1>0. IsWellFoundedOn(Less, Nat)
    BY NatLessThanWellFounded DEF OpToRel
  <1> HIDE DEF Less
  <1>1. PICK x \in batch : \A y \in batch : <<y, x>> \notin Less
    BY <1>0, WFMin
  <1>2. \A y \in batch : x <= y
    <2> SUFFICES ASSUME NEW y \in batch, y < x PROVE FALSE
      OBVIOUS
    <2>1. <<y, x>> \in Less
      BY DEF Less
    <2> QED
      BY <1>1, <2>1
  <1>3. \E z \in batch : \A y \in batch : z <= y
    BY <1>2
  <1> QED
    BY <1>3 DEF First, Min

\* A batch leaves out no event before one that it holds.
LEMMA PendingIsPrefix ==
    ASSUME published \subseteq Nat, IsFiniteSet(published), NEW cursor \in Nat,
           NEW b \in Pending(cursor), NEW e \in Ahead(cursor), e < b
    PROVE  e \in Pending(cursor)
  <1> DEFINE Before(x) == {f \in Ahead(cursor) : f < x}
  <1>1. Before(b) \subseteq published /\ Before(e) \subseteq Before(b)
    <2>1. b \in Nat /\ e \in Nat /\ Ahead(cursor) \subseteq Nat
      BY DEF Ahead, Pending
    <2> QED
      BY <2>1 DEF Ahead
  <1>2. IsFiniteSet(Before(b))
    BY <1>1, FS_Subset
  <1>3. Cardinality(Before(e)) <= Cardinality(Before(b))
    BY <1>1, <1>2, FS_Subset
  <1>4. Cardinality(Before(e)) \in Nat /\ Cardinality(Before(b)) \in Nat
    BY <1>1, <1>2, FS_Subset, FS_CardinalityType
  <1>5. Cardinality(Before(b)) < BatchSize
    BY DEF Pending
  <1>6. Cardinality(Before(e)) < BatchSize
    BY <1>3, <1>4, <1>5, WebhooksConstants
  <1> QED
    BY <1>6 DEF Pending

\* What a step leaves to be heard of, and leaves alone, stays ahead.
LEMMA RoundStaysBehind ==
    ASSUME NEW r \in Rounds, RoundBehind(r), Unheard' \subseteq Unheard,
           pc'[r] = pc[r], job'[r] = job[r]
    PROVE  RoundBehind(r)'
  BY DEF RoundBehind, First

\* Events published, and cursors, are numbers; what has committed is finite.
LEMMA Numbers ==
    ASSUME TypeOK
    PROVE  /\ published \subseteq Nat \ {0}
           /\ IsFiniteSet(published)
           /\ Unheard \subseteq published
           /\ endpoint.cursor \in Nat
           /\ \A r \in Rounds : job[r].cursor \in Nat /\ job[r].batch \subseteq published
  <1>1. published \subseteq Nat \ {0} /\ Unheard \subseteq published
    BY WebhooksConstants DEF TypeOK, Unheard, Owed
  <1>2. IsFiniteSet(published)
    BY WebhooksConstants, FS_Subset DEF TypeOK
  <1> DEFINE Cursors == {Start} \union published
  <1>0. Cursors \subseteq Nat
    BY <1>1 DEF Start
  <1>3. endpoint.cursor \in Nat
    <2>1. endpoint.cursor \in Cursors
      BY DEF TypeOK
    <2> QED
      BY <1>0, <2>1
  <1>4. ASSUME NEW r \in Rounds
        PROVE  job[r].cursor \in Nat /\ job[r].batch \subseteq published
    <2>1. job[r].cursor \in Cursors /\ job[r].batch \in SUBSET published
      BY DEF TypeOK
    <2>2. job[r].batch \subseteq published
      BY <2>1
    <2> HIDE DEF Cursors
    <2> QED
      BY <1>0, <2>1, <2>2
  <1> QED
    BY <1>1, <1>2, <1>3, <1>4

-----------------------------------------------------------------------------
(* Types *)

Jobs(events) ==
    [cursor : {Start} \union events, failures : Nat, batch : SUBSET events,
     outcome : Outcomes \union {"none"}]

LEMMA NoJobIsAJob == \A events : NoJob \in Jobs(events)
  BY DEF NoJob, Jobs, Outcomes

\* A round's step keeps its record well-formed.
LEMMA TypeStep == TypeOK /\ [Next]_vars => TypeOK'
  <1> SUFFICES ASSUME TypeOK, [Next]_vars PROVE TypeOK'
    OBVIOUS
  <1> USE DEF TypeOK
  <1>1. CASE UNCHANGED vars
    BY <1>1 DEF vars
  <1>2. ASSUME NEW e \in Events, EnqueueDomainEvent(e) PROVE TypeOK'
    BY <1>2 DEF EnqueueDomainEvent
  <1>3. CASE HandleCreateWebhook
    BY <1>3 DEF HandleCreateWebhook
  <1>4. CASE HandleDeleteWebhook
    BY <1>4 DEF HandleDeleteWebhook
  <1>5. CASE HandleReplayWebhook
    <2>1. PICK to \in {Start} \union published :
            /\ endpoint' = Rewound(to)
            /\ skipped' = skipped \union {e \in Ahead(endpoint.cursor) : e <= to}
            /\ asked' = IF Running = {} THEN Ahead(to) ELSE {}
      BY <1>5 DEF HandleReplayWebhook
    <2>2. endpoint' \in [enabled : BOOLEAN, cursor : {Start} \union published,
                         failures : Nat, waiting : BOOLEAN]
      BY <2>1 DEF Rewound, Fresh
    <2>3. skipped' \subseteq published /\ asked' \subseteq published
      BY <2>1 DEF Ahead
    <2>4. upsets' \in Nat /\ outdated' \subseteq Rounds
      BY <1>5, WebhooksConstants DEF HandleReplayWebhook, Running
    <2> QED
      BY <1>5, <2>2, <2>3, <2>4 DEF HandleReplayWebhook
  <1>6. CASE BackoffElapses
    BY <1>6 DEF BackoffElapses
  <1>14. CASE OthersComeAndGo
    BY <1>14 DEF OthersComeAndGo
  <1>7. ASSUME NEW r \in Rounds, Due(r) PROVE TypeOK'
    <2>1. [NoJob EXCEPT !.cursor = endpoint.cursor, !.failures = endpoint.failures]
            \in Jobs(published)
      BY DEF NoJob, Jobs, Outcomes
    <2>2. job' \in [Rounds -> Jobs(published)] /\ pc' \in [Rounds -> {"idle", "due", "sending", "sent"}]
      BY <1>7, <2>1 DEF Due, Go, Jobs
    <2>3. \A q \in Rounds : /\ job'[q].batch # {} <=> pc'[q] \in {"sending", "sent"}
                            /\ pc'[q] = "sent" <=> job'[q].outcome # "none"
      BY <1>7 DEF Due, Go, NoJob
    <2> QED
      BY <1>7, <2>2, <2>3 DEF Due, Jobs
  <1>8. ASSUME NEW r \in Rounds, DisableWithoutSecret(r) PROVE TypeOK'
    BY <1>8, NoJobIsAJob DEF DisableWithoutSecret, Go, Jobs, NoJob, Running
  <1>9. ASSUME NEW r \in Rounds, ReadPending(r) PROVE TypeOK'
    <2>1. Pending(job[r].cursor) \subseteq published
      BY DEF Pending, Ahead
    <2>2. CASE Pending(job[r].cursor) = {}
      BY <1>9, <2>2, NoJobIsAJob DEF ReadPending, Go, Jobs, NoJob
    <2>3. CASE Pending(job[r].cursor) # {}
      <3>1. [job[r] EXCEPT !.batch = Pending(job[r].cursor)] \in Jobs(published)
        BY <2>1 DEF Jobs
      <3>2. Go(r, "sending", [job[r] EXCEPT !.batch = Pending(job[r].cursor)])
        BY <1>9, <2>3 DEF ReadPending
      <3>3. /\ job' \in [Rounds -> Jobs(published)]
            /\ pc' \in [Rounds -> {"idle", "due", "sending", "sent"}]
        BY <3>1, <3>2 DEF Go, Jobs
      <3>4. \A q \in Rounds : /\ job'[q].batch # {} <=> pc'[q] \in {"sending", "sent"}
                              /\ pc'[q] = "sent" <=> job'[q].outcome # "none"
        BY <1>9, <2>3, <3>2 DEF ReadPending, Go
      <3> QED
        BY <1>9, <3>3, <3>4 DEF ReadPending, Jobs
    <2> QED
      BY <2>2, <2>3
  <1>10. ASSUME NEW r \in Rounds, Attempt(r) PROVE TypeOK'
    <2>1. PICK outcome \in Outcomes :
            Go(r, "sent", [job[r] EXCEPT !.outcome = outcome])
      BY <1>10 DEF Attempt
    <2>2. job[r].batch # {} /\ job[r].batch \subseteq published
      BY <1>10 DEF Attempt
    <2>3. First(job[r].batch) \in published
      BY <2>2, Numbers, FirstIsFirst
    <2>4. taken' \subseteq published /\ asked' \subseteq published
      BY <1>10, <2>3 DEF Attempt
    <2>5. [job[r] EXCEPT !.outcome = outcome] \in Jobs(published)
      BY DEF Jobs
    <2> QED
      BY <1>10, <2>1, <2>4, <2>5 DEF Attempt, Go, Jobs, Outcomes
  <1>11. ASSUME NEW r \in Rounds, Record(r) PROVE TypeOK'
    <2> DEFINE e == First(job[r].batch)
               rest == job[r].batch \ {e}
               step == NextStep(job[r].failures, job[r].outcome)
    <2>1. job[r].batch # {} /\ job[r].batch \subseteq published /\ job[r].outcome \in Outcomes
      BY <1>11 DEF Record, Outcomes
    <2>2. e \in published
      BY <2>1, Numbers, FirstIsFirst
    <2>3. step \in {"advance", "retry", "disable"}
      BY <2>1 DEF NextStep, Outcomes
    <2> HIDE DEF e, step
    <2>4. endpoint' \in [enabled : BOOLEAN, cursor : {Start} \union published,
                         failures : Nat, waiting : BOOLEAN]
      <3>1. CASE step = "advance"
        <4>1. endpoint' = Advanced(e)
          BY <1>11, <3>1 DEF Record, e, step
        <4> QED
          BY <2>2, <4>1 DEF Advanced
      <3>2. CASE step = "retry"
        <4>1. endpoint' = [endpoint EXCEPT !.failures = job[r].failures + 1, !.waiting = TRUE]
          BY <1>11, <3>2 DEF Record, step
        <4>2. job[r].failures + 1 \in Nat
          OBVIOUS
        <4> QED
          BY <4>1, <4>2
      <3>3. CASE step = "disable"
        <4>1. endpoint' = [endpoint EXCEPT !.enabled = FALSE, !.waiting = FALSE]
          BY <1>11, <3>3 DEF Record, step
        <4> QED
          BY <4>1
      <3> QED
        BY <2>3, <3>1, <3>2, <3>3
    <2>5. /\ inARow' \in Nat
          /\ outdated' \subseteq Rounds
          /\ miscounted' \in BOOLEAN
      BY <1>11 DEF Record, Running
    <2>6. CASE Continues(step) /\ rest # {}
      <3>1. [job[r] EXCEPT !.batch = rest, !.outcome = "none"] \in Jobs(published)
        <4>1. job[r] \in Jobs(published) /\ rest \subseteq published
          BY <2>1 DEF Jobs
        <4> HIDE DEF rest
        <4> QED
          BY <4>1 DEF Jobs, Outcomes
      <3>2. Go(r, "sending", [job[r] EXCEPT !.batch = rest, !.outcome = "none"])
        BY <1>11, <2>6 DEF Record, step, e
      <3> QED
        BY <1>11, <2>4, <2>5, <2>6, <3>1, <3>2 DEF Record, Go, Jobs
    <2>7. CASE ~ (Continues(step) /\ rest # {})
      <3>1. Go(r, "idle", NoJob)
        BY <1>11, <2>7 DEF Record, step, e
      <3> QED
        BY <1>11, <2>4, <2>5, <3>1, NoJobIsAJob DEF Record, Go, Jobs, NoJob
    <2> QED
      BY <2>6, <2>7
  <1>12. ASSUME NEW r \in Rounds, RecordFails(r) PROVE TypeOK'
    BY <1>12, NoJobIsAJob DEF RecordFails, Go, Jobs, NoJob
  <1>13. ASSUME NEW r \in Rounds, Crash(r) PROVE TypeOK'
    BY <1>13, NoJobIsAJob, WebhooksConstants DEF Crash, Go, Jobs, NoJob
  <1> QED
    BY <1>1, <1>2, <1>3, <1>4, <1>5, <1>6, <1>7, <1>8, <1>9, <1>10, <1>11, <1>12, <1>13, <1>14
    DEF Next

-----------------------------------------------------------------------------
(* Nothing is passed over *)

Behind == CursorBehind /\ \A r \in Rounds : RoundBehind(r)

\* A step that adds nothing to be heard of, and moves neither the cursor nor a round.
LEMMA BehindStays ==
    ASSUME Behind, Unheard' \subseteq Unheard, endpoint'.cursor = endpoint.cursor, NEW q,
           CursorBehind' => RoundBehind(q)',
           \A r \in Rounds \ {q} : pc'[r] = pc[r] /\ job'[r] = job[r]
    PROVE  Behind'
  <1>1. CursorBehind'
    BY DEF Behind, CursorBehind
  <1> QED
    BY <1>1, RoundStaysBehind DEF Behind

\* A round that is over has nothing to fall behind with.
LEMMA IdleIsBehind ==
    ASSUME NEW r \in Rounds, pc'[r] = "idle", job'[r] = NoJob
    PROVE  RoundBehind(r)'
  BY DEF RoundBehind, NoJob

LEMMA EnqueueStaysBehind ==
    ASSUME TypeOK, TypeOK', Behind, NEW e \in Events, EnqueueDomainEvent(e) PROVE Behind'
  <1>1. Unheard' \subseteq Unheard \union {e}
    BY DEF EnqueueDomainEvent, Unheard, Owed
  <1>2. CASE \E f \in published : f > e
    <2>1. Unheard' \subseteq Unheard
      BY <1>2 DEF EnqueueDomainEvent, Unheard, Owed
    <2>2. UNCHANGED <<endpoint, pc, job>>
      BY DEF EnqueueDomainEvent
    <2>3. CursorBehind'
      BY <2>1, <2>2 DEF Behind, CursorBehind
    <2> QED
      BY <2>1, <2>2, <2>3, RoundStaysBehind DEF Behind
  <1>3. CASE ~ \E f \in published : f > e
    <2>1. e \in Nat \ {0} /\ published \subseteq Nat
      BY Numbers, WebhooksConstants
    <2>2. \A f \in {Start} \union published : e > f
      BY <1>3, <2>1 DEF EnqueueDomainEvent, Start
    <2> HIDE DEF Start
    <2>3. e > endpoint.cursor /\ \A r \in Rounds : e > job[r].cursor
      <3>1. endpoint.cursor \in {Start} \union published
        BY DEF TypeOK
      <3>2. \A r \in Rounds : job[r].cursor \in {Start} \union published
        BY DEF TypeOK
      <3> QED
        BY <2>2, <3>1, <3>2
    <2>4. ASSUME NEW r \in Rounds, NEW b \in job[r].batch PROVE ~ (e < b)
      <3>1. b \in published
        BY Numbers
      <3>2. e > b /\ b \in Nat
        BY <2>1, <2>2, <3>1
      <3> QED
        BY <2>1, <3>2
    <2>5. UNCHANGED <<endpoint, pc, job>>
      BY DEF EnqueueDomainEvent
    <2>6. CursorBehind'
      BY <1>1, <2>3, <2>5 DEF Behind, CursorBehind
    <2>7. ASSUME NEW r \in Rounds PROVE RoundBehind(r)'
      <3>1. pc[r] = "sent" => First(job[r].batch) # e
        BY <2>1, <2>5, Numbers, FirstIsFirst DEF TypeOK, EnqueueDomainEvent
      <3> QED
        BY <1>1, <2>3, <2>4, <2>5, <3>1 DEF Behind, RoundBehind, First
    <2> QED
      BY <2>6, <2>7 DEF Behind
  <1> QED
    BY <1>2, <1>3

\* A replay moves the cursor past nothing but what it leaves out.
LEMMA ReplayStaysBehind ==
    ASSUME TypeOK, Behind, HandleReplayWebhook PROVE Behind'
  <1>1. PICK to \in {Start} \union published :
          /\ endpoint' = Rewound(to)
          /\ skipped' = skipped \union {e \in Ahead(endpoint.cursor) : e <= to}
          /\ asked' = IF Running = {} THEN Ahead(to) ELSE {}
    BY DEF HandleReplayWebhook
  <1>2. endpoint'.cursor = to /\ UNCHANGED <<published, pc, job, taken, late>>
    BY <1>1 DEF HandleReplayWebhook, Rewound, Fresh
  <1>3. published \subseteq Nat /\ to \in Nat
    BY Numbers DEF Start
  <1>4. Owed' \subseteq Owed
    BY <1>1, <1>2 DEF Owed
  <1>5. CursorBehind'
    <2> SUFFICES ASSUME NEW e \in Unheard' PROVE e > to
      BY <1>2 DEF CursorBehind
    <2>1. CASE e \in asked'
      BY <1>1, <2>1 DEF Ahead
    <2>2. CASE e \in (Owed \ taken)'
      <3>1. e > endpoint.cursor /\ e \in published
        BY <1>2, <1>4, <2>2 DEF Behind, CursorBehind, Unheard, Owed
      <3>2. ~ (e <= to)
        BY <1>1, <2>2, <3>1 DEF Ahead, Owed
      <3> QED
        BY <1>3, <3>1, <3>2
    <2> QED
      BY <2>1, <2>2 DEF Unheard
  <1>6. CASE Running = {}
    <2>1. \A r \in Rounds : pc[r] = "idle" /\ job[r].batch = {}
      BY <1>6 DEF Running, TypeOK
    <2> QED
      BY <1>2, <1>5, <2>1 DEF Behind, RoundBehind
  <1>7. CASE Running # {}
    <2>1. Unheard' \subseteq Unheard
      BY <1>1, <1>2, <1>4, <1>7 DEF Unheard
    <2> QED
      BY <1>2, <1>5, <2>1, RoundStaysBehind DEF Behind
  <1> QED
    BY <1>6, <1>7

LEMMA ReadPendingStaysBehind ==
    ASSUME TypeOK, Behind, NEW r \in Rounds, ReadPending(r) PROVE Behind'
  <1>1. UNCHANGED <<endpoint, published, taken, late, skipped, asked>>
    BY DEF ReadPending
  <1>2. Unheard' = Unheard /\ CursorBehind'
    BY <1>1 DEF Unheard, Owed, Behind, CursorBehind
  <1>3. RoundBehind(r)'
    <2> DEFINE batch == Pending(job[r].cursor)
    <2>1. CASE batch = {}
      BY <2>1, IdleIsBehind DEF ReadPending, Go, TypeOK
    <2>2. CASE batch # {}
      <3>1. pc'[r] = "sending" /\ job'[r].batch = batch
        BY <2>2 DEF ReadPending, Go, TypeOK
      <3>2. \A e \in Unheard : e \in Ahead(job[r].cursor)
        BY Numbers DEF ReadPending, Behind, RoundBehind, Ahead
      <3>3. ASSUME NEW b \in batch, NEW e \in Unheard, e < b PROVE e \in batch
        BY <3>2, <3>3, Numbers, PendingIsPrefix
      <3> HIDE DEF batch
      <3> QED
        BY <1>2, <3>1, <3>3 DEF RoundBehind
    <2> QED
      BY <2>1, <2>2
  <1>4. \A q \in Rounds \ {r} : pc'[q] = pc[q] /\ job'[q] = job[q]
    BY DEF ReadPending, Go, TypeOK
  <1> QED
    BY <1>1, <1>2, <1>3, <1>4, BehindStays

LEMMA AttemptStaysBehind ==
    ASSUME TypeOK, Behind, NEW r \in Rounds, Attempt(r) PROVE Behind'
  <1> DEFINE e == First(job[r].batch)
  <1>1. PICK outcome \in Outcomes :
          /\ Go(r, "sent", [job[r] EXCEPT !.outcome = outcome])
          /\ \/ taken' = taken \union {e} /\ asked' = asked \ {e}
             \/ outcome # "delivered" /\ UNCHANGED <<taken, asked>>
    BY DEF Attempt
  <1>2. UNCHANGED <<endpoint, published, late, skipped>>
    BY DEF Attempt
  <1>3. Unheard' \subseteq Unheard
    BY <1>1, <1>2 DEF Unheard, Owed
  <1>4. /\ pc'[r] = "sent"
        /\ job'[r].batch = job[r].batch
        /\ job'[r].outcome = outcome
    BY <1>1 DEF Go, TypeOK
  <1>5. outcome = "delivered" => e \notin Unheard'
    BY <1>1 DEF Unheard
  <1>6. RoundBehind(r)'
    BY <1>3, <1>4, <1>5 DEF RoundBehind, Behind, First
  <1>7. \A q \in Rounds \ {r} : pc'[q] = pc[q] /\ job'[q] = job[q]
    BY <1>1 DEF Go, TypeOK
  <1> QED
    BY <1>2, <1>3, <1>6, <1>7, BehindStays

LEMMA RecordStaysBehind ==
    ASSUME TypeOK, Behind, NEW r \in Rounds, Record(r) PROVE Behind'
  <1> DEFINE e == First(job[r].batch)
             rest == job[r].batch \ {e}
             step == NextStep(job[r].failures, job[r].outcome)
  <1>1. /\ job[r].batch # {}
        /\ job[r].outcome \in Outcomes
        /\ pc[r] = "sent"
        /\ UNCHANGED <<published, taken, late, skipped, asked>>
    BY DEF Record, TypeOK, Outcomes
  <1>2. Unheard' = Unheard
    BY <1>1 DEF Unheard, Owed
  <1>3. e \in job[r].batch /\ \A b \in job[r].batch : e <= b
    BY <1>1, Numbers, FirstIsFirst
  <1>4. job[r].batch \subseteq Nat /\ Unheard \subseteq Nat
    BY Numbers
  <1>5. \A f \in Unheard : ~ (f < e)
    BY <1>1, <1>3, <1>4 DEF Behind, RoundBehind
  <1>6. step = "advance" => e \notin Unheard
    BY <1>1 DEF NextStep, Behind, RoundBehind, Outcomes
  <1>7. CursorBehind'
    <2>1. CASE step = "advance"
      <3>1. endpoint'.cursor = e
        <4>1. endpoint' = Advanced(e)
          BY <2>1 DEF Record
        <4> QED
          BY <4>1 DEF Advanced, TypeOK
      <3>2. ASSUME NEW f \in Unheard PROVE f > e
        <4>1. f \in Nat /\ e \in Nat
          BY <1>3, <1>4
        <4>2. f # e /\ ~ (f < e)
          BY <1>5, <1>6, <2>1
        <4> HIDE DEF e
        <4> QED
          BY <4>1, <4>2
      <3> QED
        BY <1>2, <3>1, <3>2 DEF CursorBehind
    <2>2. CASE step # "advance"
      <3>1. step \in {"retry", "disable"}
        BY <1>1, <2>2 DEF NextStep, Outcomes
      <3>2. endpoint'.cursor = endpoint.cursor
        <4>1. CASE step = "retry"
          <5>1. endpoint' = [endpoint EXCEPT !.failures = job[r].failures + 1, !.waiting = TRUE]
            BY <4>1 DEF Record
          <5> QED
            BY <5>1 DEF TypeOK
        <4>2. CASE step = "disable"
          <5>1. endpoint' = [endpoint EXCEPT !.enabled = FALSE, !.waiting = FALSE]
            BY <4>2 DEF Record
          <5> QED
            BY <5>1 DEF TypeOK
        <4> QED
          BY <3>1, <4>1, <4>2
      <3> QED
        BY <1>2, <3>2 DEF CursorBehind, Behind
    <2> QED
      BY <2>1, <2>2
  <1>8. RoundBehind(r)'
    <2>1. CASE Continues(step) /\ rest # {}
      <3>1. pc'[r] = "sending" /\ job'[r].batch = rest
        <4>1. Go(r, "sending", [job[r] EXCEPT !.batch = rest, !.outcome = "none"])
          BY <2>1 DEF Record
        <4> QED
          BY <4>1 DEF Go, TypeOK
      <3>2. ASSUME NEW b \in rest, NEW f \in Unheard, f < b PROVE f \in rest
        BY <1>6, <2>1, <3>2 DEF Behind, RoundBehind, Continues
      <3> HIDE DEF rest, e
      <3> QED
        BY <1>2, <3>1, <3>2 DEF RoundBehind
    <2>2. CASE ~ (Continues(step) /\ rest # {})
      BY <2>2, IdleIsBehind DEF Record, Go, TypeOK
    <2> QED
      BY <2>1, <2>2
  <1>9. \A q \in Rounds \ {r} : pc'[q] = pc[q] /\ job'[q] = job[q]
    BY DEF Record, Go, TypeOK
  <1> QED
    BY <1>2, <1>7, <1>8, <1>9, RoundStaysBehind DEF Behind

LEMMA BehindStep ==
    ASSUME TypeOK, TypeOK', Behind, [Next]_vars PROVE Behind'
  <1>1. CASE UNCHANGED vars
    BY <1>1, RoundStaysBehind DEF vars, Behind, CursorBehind, Unheard, Owed
  <1>2. ASSUME NEW e \in Events, EnqueueDomainEvent(e) PROVE Behind'
    BY <1>2, EnqueueStaysBehind
  <1>3. CASE HandleCreateWebhook \/ HandleDeleteWebhook \/ OthersComeAndGo
    <2>1. UNCHANGED <<published, endpoint, pc, job, taken, late, skipped, asked>>
      BY <1>3 DEF HandleCreateWebhook, HandleDeleteWebhook, OthersComeAndGo
    <2>2. Unheard' = Unheard /\ CursorBehind'
      BY <2>1 DEF Unheard, Owed, Behind, CursorBehind
    <2> QED
      BY <2>1, <2>2, RoundStaysBehind DEF Behind
  <1>4. CASE HandleReplayWebhook
    BY <1>4, ReplayStaysBehind
  <1>5. CASE BackoffElapses
    <2>1. UNCHANGED <<published, pc, job, taken, late, skipped, asked>>
      BY <1>5 DEF BackoffElapses
    <2>2. endpoint'.cursor = endpoint.cursor
      BY <1>5 DEF BackoffElapses, TypeOK
    <2>3. Unheard' = Unheard /\ CursorBehind'
      BY <2>1, <2>2 DEF Unheard, Owed, Behind, CursorBehind
    <2> QED
      BY <2>1, <2>3, RoundStaysBehind DEF Behind
  <1>6. ASSUME NEW r \in Rounds, Due(r) PROVE Behind'
    <2>1. UNCHANGED <<endpoint, published, taken, late, skipped, asked>>
      BY <1>6 DEF Due
    <2>2. Unheard' = Unheard /\ CursorBehind'
      BY <2>1 DEF Unheard, Owed, Behind, CursorBehind
    <2>3. pc'[r] = "due" /\ job'[r].cursor = endpoint.cursor /\ job'[r].batch = {}
      BY <1>6 DEF Due, Go, NoJob, TypeOK
    <2>4. RoundBehind(r)'
      BY <2>2, <2>3 DEF RoundBehind, Behind, CursorBehind
    <2>5. \A q \in Rounds \ {r} : pc'[q] = pc[q] /\ job'[q] = job[q]
      BY <1>6 DEF Due, Go, TypeOK
    <2> QED
      BY <2>2, <2>4, <2>5, RoundStaysBehind DEF Behind
  <1>7. ASSUME NEW r \in Rounds, DisableWithoutSecret(r) \/ RecordFails(r) \/ Crash(r)
        PROVE  Behind'
    <2>1. UNCHANGED <<published, taken, late, skipped, asked>>
      BY <1>7 DEF DisableWithoutSecret, RecordFails, Crash
    <2>2. Go(r, "idle", NoJob)
      BY <1>7 DEF DisableWithoutSecret, RecordFails, Crash
    <2>3. endpoint'.cursor = endpoint.cursor
      <3>1. CASE DisableWithoutSecret(r)
        <4>1. endpoint' = [endpoint EXCEPT !.enabled = FALSE, !.waiting = FALSE]
          BY <3>1 DEF DisableWithoutSecret
        <4> QED
          BY <4>1 DEF TypeOK
      <3>2. CASE RecordFails(r) \/ Crash(r)
        BY <3>2 DEF RecordFails, Crash
      <3> QED
        BY <1>7, <3>1, <3>2
    <2>4. Unheard' = Unheard /\ CursorBehind'
      BY <2>1, <2>3 DEF Unheard, Owed, Behind, CursorBehind
    <2>5. RoundBehind(r)'
      BY <2>2, IdleIsBehind DEF Go, TypeOK
    <2>6. \A q \in Rounds \ {r} : pc'[q] = pc[q] /\ job'[q] = job[q]
      BY <2>2 DEF Go, TypeOK
    <2> QED
      BY <2>4, <2>5, <2>6, RoundStaysBehind DEF Behind
  <1>8. ASSUME NEW r \in Rounds, ReadPending(r) PROVE Behind'
    BY <1>8, ReadPendingStaysBehind
  <1>9. ASSUME NEW r \in Rounds, Attempt(r) PROVE Behind'
    BY <1>9, AttemptStaysBehind
  <1>10. ASSUME NEW r \in Rounds, Record(r) PROVE Behind'
    BY <1>10, RecordStaysBehind
  <1> QED
    BY <1>1, <1>2, <1>3, <1>4, <1>5, <1>6, <1>7, <1>8, <1>9, <1>10 DEF Next

-----------------------------------------------------------------------------
(* The count of failures *)

LEMMA CountsStep == ASSUME TypeOK, Counts, [Next]_vars PROVE Counts'
  <1>1. CASE UNCHANGED vars
    BY <1>1 DEF vars, Counts, Running
  <1>2. CASE \/ \E e \in Events : EnqueueDomainEvent(e)
             \/ HandleCreateWebhook
             \/ HandleDeleteWebhook
             \/ OthersComeAndGo
    BY <1>2 DEF EnqueueDomainEvent, HandleCreateWebhook, HandleDeleteWebhook, OthersComeAndGo,
                Counts, Running
  <1>3. CASE HandleReplayWebhook
    <2>1. endpoint'.failures = 0 /\ inARow' = 0 /\ (Running \ outdated)' = {}
      BY <1>3 DEF HandleReplayWebhook, Rewound, Fresh, Running
    <2> QED
      BY <2>1 DEF Counts
  <1>4. CASE BackoffElapses
    <2>1. endpoint'.failures = endpoint.failures
      BY <1>4 DEF BackoffElapses, TypeOK
    <2> QED
      BY <1>4, <2>1 DEF BackoffElapses, Counts, Running
  <1>5. ASSUME NEW r \in Rounds, Due(r) PROVE Counts'
    <2>1. job'[r].failures = endpoint.failures
      BY <1>5 DEF Due, Go, NoJob, TypeOK
    <2>2. \A q \in Rounds \ {r} : pc'[q] = pc[q] /\ job'[q] = job[q]
      BY <1>5 DEF Due, Go, TypeOK
    <2> QED
      BY <1>5, <2>1, <2>2 DEF Due, Counts, Running
  <1>6. ASSUME NEW r \in Rounds, DisableWithoutSecret(r) PROVE Counts'
    <2>1. endpoint' = [endpoint EXCEPT !.enabled = FALSE, !.waiting = FALSE]
      BY <1>6 DEF DisableWithoutSecret
    <2>2. endpoint'.failures = endpoint.failures
      BY <2>1 DEF TypeOK
    <2>3. (Running \ outdated)' = {}
      BY <1>6 DEF DisableWithoutSecret, Go, Running, TypeOK
    <2> QED
      BY <1>6, <2>2, <2>3 DEF DisableWithoutSecret, Counts
  <1>7. ASSUME NEW r \in Rounds, ReadPending(r) \/ Attempt(r) \/ RecordFails(r) \/ Crash(r)
        PROVE  Counts'
    <2>1. UNCHANGED <<endpoint, inARow, outdated, miscounted>>
      BY <1>7 DEF ReadPending, Attempt, RecordFails, Crash
    <2>2. PICK where, what : Go(r, where, what) /\ (where = "idle" \/ what.failures = job[r].failures)
      <3>1. CASE ReadPending(r)
        BY <3>1 DEF ReadPending, TypeOK
      <3>2. CASE Attempt(r)
        BY <3>2 DEF Attempt, TypeOK
      <3>3. CASE RecordFails(r) \/ Crash(r)
        BY <3>3 DEF RecordFails, Crash
      <3> QED
        BY <1>7, <3>1, <3>2, <3>3
    <2>3. pc[r] # "idle"
      BY <1>7 DEF ReadPending, Attempt, RecordFails, Crash
    <2>4. /\ Running' \subseteq Running
          /\ \A q \in Running' : job'[q].failures = job[q].failures
      BY <2>2, <2>3 DEF Go, Running, TypeOK
    <2> QED
      BY <2>1, <2>4 DEF Counts
  <1>8. ASSUME NEW r \in Rounds, Record(r) PROVE Counts'
    <2> DEFINE step == NextStep(job[r].failures, job[r].outcome)
    <2>1. (Running \ outdated)' = {}
      BY <1>8 DEF Record, Go, Running, TypeOK
    <2>2. r \in Running /\ job[r].outcome \in Outcomes
      BY <1>8 DEF Record, Running, TypeOK, Outcomes
    <2>3. CASE step = "advance"
      <3>1. endpoint' = Advanced(First(job[r].batch)) /\ inARow' = 0
        BY <1>8, <2>3 DEF Record
      <3>2. endpoint'.failures = 0
        BY <3>1 DEF Advanced, TypeOK
      <3> QED
        BY <2>1, <3>1, <3>2 DEF Counts
    <2>4. CASE step # "advance"
      <3>1. inARow' = inARow + 1 /\ (~ miscounted' => ~ miscounted /\ r \notin outdated)
        BY <1>8, <2>4 DEF Record
      <3>2. ~ miscounted' => job[r].failures = endpoint.failures /\ endpoint.failures <= inARow
        BY <2>2, <3>1 DEF Counts
      <3>3. endpoint'.failures \in {endpoint.failures, job[r].failures + 1}
        <4>1. CASE step = "retry"
          <5>1. endpoint' = [endpoint EXCEPT !.failures = job[r].failures + 1, !.waiting = TRUE]
            BY <1>8, <4>1 DEF Record
          <5> QED
            BY <5>1 DEF TypeOK
        <4>2. CASE step = "disable"
          <5>1. endpoint' = [endpoint EXCEPT !.enabled = FALSE, !.waiting = FALSE]
            BY <1>8, <4>2 DEF Record
          <5> QED
            BY <5>1 DEF TypeOK
        <4> QED
          BY <2>2, <2>4, <4>1, <4>2 DEF NextStep, Outcomes
      <3>4. endpoint.failures \in Nat /\ inARow \in Nat
        BY DEF TypeOK
      <3>5. ~ miscounted' => endpoint'.failures <= inARow'
        BY <3>1, <3>2, <3>3, <3>4
      <3> QED
        BY <2>1, <3>5 DEF Counts
    <2> QED
      BY <2>3, <2>4
  <1> QED
    BY <1>1, <1>2, <1>3, <1>4, <1>5, <1>6, <1>7, <1>8 DEF Next

-----------------------------------------------------------------------------
(* Theorems *)

LEMMA InvInit == Init => TypeOK /\ Behind /\ Counts
  <1> SUFFICES ASSUME Init PROVE TypeOK /\ Behind /\ Counts
    OBVIOUS
  <1>1. TypeOK
    BY NoJobIsAJob, WebhooksConstants DEF Init, TypeOK, Fresh, NoJob, Outcomes, Start
  <1>2. Behind
    BY DEF Init, Behind, CursorBehind, RoundBehind, Unheard, Owed, NoJob
  <1>3. Counts
    BY DEF Init, Counts, Running, Fresh
  <1> QED
    BY <1>1, <1>2, <1>3

LEMMA Inductive == Spec => [](TypeOK /\ Behind /\ Counts)
  <1>1. TypeOK /\ Behind /\ Counts /\ [Next]_vars => (TypeOK /\ Behind /\ Counts)'
    BY TypeStep, BehindStep, CountsStep
  <1> QED
    BY InvInit, <1>1, PTL DEF Spec

\* The variables have their types, and a round has events left while it sends.
THEOREM TypeCorrect == Spec => []TypeOK
  BY Inductive, PTL

\* No event that commits in order is passed over: the cursor only passes what the
\* subscriber took, through any overlap, crash, write-back of the cursor or replay.
THEOREM NothingIsSkipped == Spec => []NothingSkipped
  <1>1. TypeOK /\ Behind => NothingSkipped
    <2> SUFFICES ASSUME TypeOK, Behind, NEW e \in Owed, e <= endpoint.cursor, e \notin taken
                 PROVE  FALSE
      BY DEF NothingSkipped
    <2>1. e \in Unheard
      BY DEF Unheard
    <2>2. e > endpoint.cursor /\ e \in Nat /\ endpoint.cursor \in Nat
      BY <2>1, Numbers DEF Behind, CursorBehind
    <2> QED
      BY <2>2
  <1> QED
    BY Inductive, <1>1, PTL

\* What a replay asked for while no round was under way is still ahead of the
\* cursor until it has been taken again.
THEOREM ReplaysAreHonoured == Spec => []ReplayIsHonoured
  <1>1. Behind => ReplayIsHonoured
    BY DEF Behind, CursorBehind, Unheard, ReplayIsHonoured
  <1> QED
    BY Inductive, <1>1, PTL

\* An event is first taken after those that precede it.
THEOREM CausesComeFirst == Spec => CausesPrecedeEffects
  <1> DEFINE Ordered == \A e \in taken' \ taken : \A f \in Owed : f < e => f \in taken
  <1>1. TypeOK /\ Behind /\ [Next]_vars => [Ordered]_vars
    <2> SUFFICES ASSUME TypeOK, Behind, Next,
                        NEW e \in taken' \ taken, NEW f \in Owed, f < e, f \notin taken
                 PROVE  FALSE
      OBVIOUS
    <2>1. PICK r \in Rounds : Attempt(r)
      BY DEF Next, EnqueueDomainEvent, HandleCreateWebhook, HandleDeleteWebhook,
             HandleReplayWebhook, BackoffElapses, OthersComeAndGo, Due, DisableWithoutSecret,
             ReadPending, Record, RecordFails, Crash
    <2>2. e = First(job[r].batch) /\ job[r].batch # {}
      BY <2>1 DEF Attempt, TypeOK
    <2>3. job[r].batch \subseteq Nat
      BY Numbers
    <2>4. e \in job[r].batch /\ \A b \in job[r].batch : e <= b
      BY <2>2, <2>3, FirstIsFirst
    <2>5. f \in job[r].batch
      BY <2>4 DEF Behind, RoundBehind, Unheard
    <2> QED
      BY <2>3, <2>4, <2>5
  <1> QED
    BY Inductive, <1>1, PTL DEF Spec, CausesPrecedeEffects

\* An endpoint whose failures were all counted by rounds that were up to date is
\* switched off for not answering after MaxFailures failures in a row, not before.
THEOREM GivesUpLate == Spec => GivesUpAfterEnoughInARow
  <1> DEFINE GivesUp(r) ==
        /\ pc[r] = "sent"
        /\ pc'[r] = "idle"
        /\ job[r].outcome = "unanswered"
        /\ endpoint.enabled /\ ~ endpoint'.enabled
        /\ ~ miscounted'
      Late == \A r \in Rounds : GivesUp(r) => inARow' >= MaxFailures
  <1>1. TypeOK /\ Counts /\ [Next]_vars => [Late]_vars
    <2> SUFFICES ASSUME TypeOK, Counts, Next, NEW r \in Rounds, GivesUp(r)
                 PROVE  inARow' >= MaxFailures
      OBVIOUS
    <2>1. Record(r)
      <3>1. ~ \E e \in Events : EnqueueDomainEvent(e)
        BY DEF EnqueueDomainEvent
      <3>2. ~ (HandleCreateWebhook \/ HandleDeleteWebhook \/ OthersComeAndGo)
        BY DEF HandleCreateWebhook, HandleDeleteWebhook, OthersComeAndGo
      <3>3. ~ (HandleReplayWebhook \/ BackoffElapses)
        BY DEF HandleReplayWebhook, BackoffElapses, TypeOK
      <3>4. PICK q \in Rounds : \/ Due(q) \/ DisableWithoutSecret(q) \/ ReadPending(q)
                                \/ Attempt(q) \/ Record(q) \/ RecordFails(q) \/ Crash(q)
        BY <3>1, <3>2, <3>3 DEF Next
      <3>5. Record(q) \/ DisableWithoutSecret(q)
        BY <3>4 DEF Due, ReadPending, Attempt, RecordFails, Crash
      <3>6. q = r
        <4>1. q # r => pc'[r] = pc[r]
          BY <3>5 DEF Record, DisableWithoutSecret, Go, TypeOK
        <4> QED
          BY <4>1
      <3> QED
        BY <3>5, <3>6 DEF DisableWithoutSecret
    <2> DEFINE step == NextStep(job[r].failures, job[r].outcome)
    <2>2. step = "disable"
      <3>1. CASE step = "retry"
        <4>1. endpoint' = [endpoint EXCEPT !.failures = job[r].failures + 1, !.waiting = TRUE]
          BY <2>1, <3>1 DEF Record
        <4> QED
          BY <4>1 DEF TypeOK
      <3> QED
        BY <3>1 DEF NextStep
    <2>3. job[r].failures + 1 >= MaxFailures
      BY <2>2 DEF NextStep
    <2>4. inARow' = inARow + 1 /\ ~ miscounted /\ r \notin outdated
      BY <2>1, <2>2 DEF Record
    <2>5. job[r].failures = endpoint.failures /\ endpoint.failures <= inARow
      BY <2>4 DEF Counts, Running
    <2> QED
      BY <2>3, <2>4, <2>5, WebhooksConstants DEF TypeOK
  <1> QED
    BY Inductive, <1>1, PTL DEF Spec, GivesUpAfterEnoughInARow
=============================================================================
