------------------------------- MODULE Webhooks -------------------------------
(***************************************************************************)
(* The outbox and the delivery of its events to one subscriber:            *)
(* packages/db/src/outbox.ts, packages/db/src/webhooks/deliver.ts,         *)
(* packages/db/src/repositories/webhooks.ts, packages/core/src/events/     *)
(* delivery.ts and apps/web/src/api/handlers/webhooks.ts.                  *)
(*                                                                         *)
(* An event is its id, and ids are ordered.  The id is drawn inside the    *)
(* transaction that makes the change, so events commit in any order of     *)
(* their ids.  There is one endpoint, and Events are those of the types it  *)
(* asks for.  All it has to do with others is that a round takes no more   *)
(* than `limit` endpoints, of whatever administration, so that it can be   *)
(* left out.                                                               *)
(*                                                                         *)
(* A round of the delivery job holds no transaction open: it reads the     *)
(* endpoint, reads a batch, and then sends and records one event after     *)
(* another with what it read.  Rounds overlap when there is a second       *)
(* worker process or when a round outlives the queue's expiry.             *)
(***************************************************************************)
EXTENDS Integers, FiniteSets, FiniteSetsExt

CONSTANTS
    Rounds,      \* rounds of the delivery job that can run at once
    Events,      \* ids of events
    BatchSize,   \* events a round reads of an endpoint
    MaxFailures, \* MAX_CONSECUTIVE_FAILURES
    MaxUpsets    \* bound: rounds that are cut off and replays together

Start == 0  \* the null cursor, before every id

ASSUME WebhooksConstants ==
    /\ Events \subseteq Nat \ {0}
    /\ IsFiniteSet(Events)
    /\ BatchSize \in Nat \ {0}
    /\ MaxFailures \in Nat \ {0}
    /\ MaxUpsets \in Nat

VARIABLES
    published, \* outbox: the events that have committed
    life,      \* webhook_endpoints: whether the row is there
    endpoint,  \* and its columns: [enabled, cursor, failures, waiting]
    crowded,   \* whether a round may leave it out: it takes `limit` endpoints, and
               \* that many others are due and sort before it or level with it
    pc,        \* where each round is
    job,       \* what it read of the endpoint, the events it has left, the last outcome
    upsets,    \* how many there were
    taken,     \* history: events the subscriber took, whether its answer arrived or not
    late,      \* history: events that committed after a larger id
    skipped,   \* history: events a replay from further on told the endpoint to leave out
    asked,     \* history: events a replay asked for again that have not been taken since
    inARow,    \* history: failed attempts recorded since a success or a replay
    outdated,  \* history: rounds whose endpoint was written since they read it
    miscounted \* history: a failure since then was counted by such a round

vars == <<published, life, endpoint, crowded, pc, job, upsets,
          taken, late, skipped, asked, inARow, outdated, miscounted>>

\* A new endpoint's columns; enable sets all of them but the cursor to these.
Fresh == [enabled |-> TRUE, cursor |-> Start, failures |-> 0, waiting |-> FALSE]

NoJob == [cursor |-> Start, failures |-> 0, batch |-> {}, outcome |-> "none"]

Running == {r \in Rounds : pc[r] # "idle"}

\* What the subscriber answers: 2xx; nothing in time, a redirect, a 5xx, 408 or
\* 429; another 4xx.
Outcomes == {"delivered", "unanswered", "refused"}

-----------------------------------------------------------------------------
(* Pure policy *)

Ahead(cursor) == {e \in published : e > cursor}

\* pending: the first BatchSize events after the cursor.
Pending(cursor) ==
    {e \in Ahead(cursor) : Cardinality({f \in Ahead(cursor) : f < e}) < BatchSize}

\* Mutant of First: newest first.
FirstIsNewest(batch) == Max(batch)

\* Events are sent in the order of their ids.
First(batch) == Min(batch)

\* nextStep, from the failures the round read with the endpoint.
NextStep(failures, outcome) ==
    CASE outcome = "delivered" -> "advance"
      [] outcome = "refused" -> "disable"
      [] outcome = "unanswered" -> IF failures + 1 >= MaxFailures THEN "disable" ELSE "retry"

-----------------------------------------------------------------------------
Init ==
    /\ published = {}
    /\ life = "absent"
    /\ endpoint = Fresh
    /\ crowded = FALSE
    /\ pc = [r \in Rounds |-> "idle"]
    /\ job = [r \in Rounds |-> NoJob]
    /\ upsets = 0
    /\ taken = {}
    /\ late = {}
    /\ skipped = {}
    /\ asked = {}
    /\ inARow = 0
    /\ outdated = {}
    /\ miscounted = FALSE

\* A business transaction commits with its event.
EnqueueDomainEvent(e) ==
    /\ e \notin published
    /\ published' = published \union {e}
    /\ late' = IF \E f \in published : f > e THEN late \union {e} ELSE late
    /\ UNCHANGED <<crowded, life, endpoint, pc, job, upsets,
                   taken, skipped, asked, inARow, outdated, miscounted>>

HandleCreateWebhook ==
    /\ life = "absent"
    /\ life' = "there"
    /\ UNCHANGED <<crowded, published, endpoint, pc, job, upsets,
                   taken, late, skipped, asked, inARow, outdated, miscounted>>

HandleDeleteWebhook ==
    /\ life = "there"
    /\ life' = "deleted"
    /\ UNCHANGED <<crowded, published, endpoint, pc, job, upsets,
                   taken, late, skipped, asked, inARow, outdated, miscounted>>

\* Mutant of Rewound: the cursor is left where it is.
RewoundNowhere(to) == [Fresh EXCEPT !.cursor = endpoint.cursor]

\* rewind and enable.
Rewound(to) == [Fresh EXCEPT !.cursor = to]

\* Replay from any event, or from the start; the cursor may move either way.
HandleReplayWebhook ==
    /\ life = "there"
    /\ upsets < MaxUpsets
    /\ \E to \in {Start} \union published :
        /\ endpoint' = Rewound(to)
        /\ skipped' = skipped \union {e \in Ahead(endpoint.cursor) : e <= to}
        /\ asked' = IF Running = {} THEN Ahead(to) ELSE {}
    /\ upsets' = upsets + 1
    /\ inARow' = 0
    /\ outdated' = Running
    /\ miscounted' = FALSE
    /\ UNCHANGED <<crowded, published, life, pc, job, taken, late>>

\* The time until the next attempt has passed.
BackoffElapses ==
    /\ endpoint.waiting
    /\ endpoint' = [endpoint EXCEPT !.waiting = FALSE]
    /\ UNCHANGED <<crowded, published, life, pc, job, upsets,
                   taken, late, skipped, asked, inARow, outdated, miscounted>>

Go(r, where, what) ==
    /\ pc' = [pc EXCEPT ![r] = where]
    /\ job' = [job EXCEPT ![r] = what]

\* Endpoints of any administration become due and are served, or not: those with
\* nothing to deliver are due all the time.
OthersComeAndGo ==
    /\ crowded' = ~ crowded
    /\ UNCHANGED <<published, life, endpoint, pc, job, upsets,
                   taken, late, skipped, asked, inARow, outdated, miscounted>>

\* A round begins: due reads the endpoint.  While it is crowded a round may as well
\* leave it out, and do nothing here.
Due(r) ==
    /\ pc[r] = "idle"
    /\ life = "there"
    /\ endpoint.enabled
    /\ ~ endpoint.waiting
    /\ Go(r, "due", [NoJob EXCEPT !.cursor = endpoint.cursor, !.failures = endpoint.failures])
    /\ outdated' = outdated \ {r}
    /\ UNCHANGED <<crowded, published, life, endpoint, upsets,
                   taken, late, skipped, asked, inARow, miscounted>>

\* The secret cannot be decrypted any more: the endpoint is switched off.
DisableWithoutSecret(r) ==
    /\ pc[r] = "due"
    /\ Go(r, "idle", NoJob)
    /\ endpoint' = [endpoint EXCEPT !.enabled = FALSE, !.waiting = FALSE]
    /\ outdated' = outdated \union Running
    /\ UNCHANGED <<crowded, published, life, upsets, taken, late, skipped, asked, inARow, miscounted>>

\* The batch is read after the cursor the round remembers.
ReadPending(r) ==
    /\ pc[r] = "due"
    /\ LET batch == Pending(job[r].cursor) IN
        IF batch = {} THEN Go(r, "idle", NoJob)
                      ELSE Go(r, "sending", [job[r] EXCEPT !.batch = batch])
    /\ UNCHANGED <<crowded, published, life, endpoint, upsets,
                   taken, late, skipped, asked, inARow, outdated, miscounted>>

\* One HTTP attempt.  A subscriber that took the event may still not be heard.
Attempt(r) ==
    /\ pc[r] = "sending"
    /\ \E outcome \in Outcomes :
        /\ Go(r, "sent", [job[r] EXCEPT !.outcome = outcome])
        /\ \/ /\ outcome # "refused"
              /\ taken' = taken \union {First(job[r].batch)}
              /\ asked' = asked \ {First(job[r].batch)}
           \/ /\ outcome # "delivered"
              /\ UNCHANGED <<taken, asked>>
    /\ UNCHANGED <<crowded, published, life, endpoint, upsets,
                   late, skipped, inARow, outdated, miscounted>>

\* Mutant of Advanced: a success leaves the count of failures.
AdvancedKeepsCount(e) == [endpoint EXCEPT !.cursor = e, !.waiting = FALSE]

\* Mutant of Advanced: the cursor stays.
AdvancedNowhere(e) == [endpoint EXCEPT !.failures = 0, !.waiting = FALSE]

\* advance: the cursor is set, whatever it is by now.
Advanced(e) == [endpoint EXCEPT !.cursor = e, !.failures = 0, !.waiting = FALSE]

\* Mutant of Continues: the round goes on past a failure.
ContinuesAnyway(step) == TRUE

\* "Stop at the first failure rather than skipping past it."
Continues(step) == step = "advance"

\* The attempt is recorded, and the endpoint moved on, put off or switched off.
Record(r) ==
    /\ pc[r] = "sent"
    /\ life = "there"
    /\ LET e == First(job[r].batch)
           rest == job[r].batch \ {e}
           step == NextStep(job[r].failures, job[r].outcome)
       IN  /\ endpoint' =
                CASE step = "advance" -> Advanced(e)
                  [] step = "retry" -> [endpoint EXCEPT !.failures = job[r].failures + 1,
                                                        !.waiting = TRUE]
                  [] step = "disable" -> [endpoint EXCEPT !.enabled = FALSE, !.waiting = FALSE]
           /\ inARow' = IF step = "advance" THEN 0 ELSE inARow + 1
           /\ miscounted' = (step # "advance" /\ (miscounted \/ r \in outdated))
           /\ IF Continues(step) /\ rest # {}
              THEN Go(r, "sending", [job[r] EXCEPT !.batch = rest, !.outcome = "none"])
              ELSE Go(r, "idle", NoJob)
    /\ outdated' = outdated \union Running
    /\ UNCHANGED <<crowded, published, life, upsets, taken, late, skipped, asked>>

\* The row of the attempt refers to an endpoint that is gone: the round ends in an error.
RecordFails(r) ==
    /\ pc[r] = "sent"
    /\ life = "deleted"
    /\ Go(r, "idle", NoJob)
    /\ UNCHANGED <<crowded, published, life, endpoint, upsets,
                   taken, late, skipped, asked, inARow, outdated, miscounted>>

\* The worker dies, or the database does not answer: nothing more of the round happens.
Crash(r) ==
    /\ pc[r] # "idle"
    /\ upsets < MaxUpsets
    /\ upsets' = upsets + 1
    /\ Go(r, "idle", NoJob)
    /\ UNCHANGED <<crowded, published, life, endpoint,
                   taken, late, skipped, asked, inARow, outdated, miscounted>>

Progress(r) == ReadPending(r) \/ Attempt(r) \/ Record(r) \/ RecordFails(r)

Next ==
    \/ \E e \in Events : EnqueueDomainEvent(e)
    \/ HandleCreateWebhook
    \/ HandleDeleteWebhook
    \/ HandleReplayWebhook
    \/ BackoffElapses
    \/ OthersComeAndGo
    \/ \E r \in Rounds :
        \/ Due(r)
        \/ DisableWithoutSecret(r)
        \/ ReadPending(r)
        \/ Attempt(r)
        \/ Record(r)
        \/ RecordFails(r)
        \/ Crash(r)

Spec == Init /\ [][Next]_vars

\* The job is scheduled every minute and takes every due endpoint for which there is
\* room; an attempt ends within its timeout; time passes.
FairSpec ==
    /\ Spec
    /\ WF_vars(BackoffElapses)
    /\ \A r \in Rounds : WF_vars(~ crowded /\ Due(r)) /\ WF_vars(Progress(r))

-----------------------------------------------------------------------------
(* Properties *)

\* Every variable has its type, and a round has events left exactly while it sends.
TypeOK ==
    /\ published \subseteq Events
    /\ life \in {"absent", "there", "deleted"}
    /\ endpoint \in [enabled : BOOLEAN, cursor : {Start} \union published,
                     failures : Nat, waiting : BOOLEAN]
    /\ crowded \in BOOLEAN
    /\ pc \in [Rounds -> {"idle", "due", "sending", "sent"}]
    /\ job \in [Rounds -> [cursor : {Start} \union published, failures : Nat,
                           batch : SUBSET published, outcome : Outcomes \union {"none"}]]
    /\ \A r \in Rounds :
        /\ job[r].batch # {} <=> pc[r] \in {"sending", "sent"}
        /\ pc[r] = "sent" <=> job[r].outcome # "none"
    /\ upsets \in Nat
    /\ taken \subseteq published
    /\ late \subseteq published
    /\ skipped \subseteq published
    /\ asked \subseteq published
    /\ inARow \in Nat
    /\ outdated \subseteq Rounds
    /\ miscounted \in BOOLEAN

\* Events the subscriber is owed, in order: those that committed before any larger
\* id and that no replay told it to leave out.
Owed == published \ (late \union skipped)

\* The cursor never passes an event of that kind that the subscriber did not take,
\* however rounds overlap, crash, are replayed under and write the cursor back
\* ("the cursor moves only after a 2xx").
NothingSkipped == \A e \in Owed : e <= endpoint.cursor => e \in taken

\* A subscriber never takes such an event before it took the ones before it ("an
\* integration that hears sent before issued has to model a world where effects
\* precede causes"), over all rounds at once.
CausesPrecedeEffects ==
    [][\A e \in taken' \ taken : \A f \in Owed : f < e => f \in taken]_vars

\* What an operator asks for again, while no round is under way, is sent again
\* before the cursor passes it, events that were late the first time included.
ReplayIsHonoured == \A e \in asked : e > endpoint.cursor

\* The endpoint is switched off for not answering only after MaxFailures attempts
\* failed in a row, if each of them was counted by a round that found the endpoint
\* as it had read it.  A success in the same batch, or another round, makes what a
\* round read out of date, and its next failure goes on from the old count.
GivesUpAfterEnoughInARow ==
    [][\A r \in Rounds :
        /\ pc[r] = "sent"
        /\ pc'[r] = "idle"
        /\ job[r].outcome = "unanswered"
        /\ endpoint.enabled /\ ~ endpoint'.enabled
        /\ ~ miscounted'
        => inARow' >= MaxFailures]_vars

\* An event that commits in order while there is an enabled endpoint, or that is
\* there when one is created, is taken, unless the endpoint is switched off or
\* deleted first, or an operator says to leave it out.  It takes rounds that do not
\* leave the endpoint out: among more endpoints than a round takes, one with nothing
\* against it may wait for ever.
EventuallyTakenUnlessCrowded ==
    <>[] ~ crowded => \A e \in Events :
        e \in Owed /\ life = "there"
            ~> e \in taken \/ e \in skipped \/ ~ endpoint.enabled \/ life = "deleted"

\* Every committed event reaches the subscriber before the cursor passes it
\* ("at-least-once", migration 0028), in whatever order events commit.
NoGaps == \A e \in published \ skipped : e <= endpoint.cursor => e \in taken
=============================================================================
