------------------------------- MODULE Payments -------------------------------
(***************************************************************************)
(* Payment batches: packages/core/src/payments (approval.ts, run.ts,       *)
(* model.ts) behind apps/web/src/api/handlers/payments.ts and the          *)
(* repositories payments.ts and purchase.ts.                               *)
(*                                                                         *)
(* A request is one READ COMMITTED transaction.  What it read is kept in   *)
(* `task` and used after others have committed: no row is locked, and no   *)
(* UPDATE, INSERT or DELETE repeats the condition that was read.  What the *)
(* statements of one request write is one step, its commit; so are reads   *)
(* that follow each other with nothing decided between them.  A request    *)
(* that is refused has changed nothing and is not a step.                  *)
(*                                                                         *)
(* An instruction carries the documents it settles: its allocation rows    *)
(* are inserted with it and deleted with it (ON DELETE CASCADE).  Nothing  *)
(* is ever marked as paid: no handler calls recordBankPayment.             *)
(***************************************************************************)
EXTENDS Callers, Integers, FiniteSets, Functions

CONSTANTS
    Batches,     \* payment batches, all created as drafts
    Nobody,      \* null actor
    Documents,   \* booked purchase invoices and credit notes
    CreditNotes, \* those of them that are credit notes
    Total,       \* the total of each document
    Suppliers,
    SupplierOf,  \* the supplier of each document
    NoIban,      \* suppliers without a valid IBAN
    References,  \* end-to-end ids a user types
    NoFile,      \* the hash of a batch that was never exported
    MaxExports   \* bound: no export begins once a batch was exported this often

ASSUME PaymentsConstants ==
    /\ Nobody \notin Actors \union Batches
    /\ IsFiniteSet(Documents)
    /\ CreditNotes \subseteq Documents
    /\ Total \in [Documents -> Nat \ {0}]
    /\ SupplierOf \in [Documents -> Suppliers]
    /\ NoIban \subseteq Suppliers
    /\ Suppliers \intersect References = {}
    /\ MaxExports \in Nat

VARIABLES
    batch,         \* payment_batches: [state, submittedBy, approvedBy, file, exports]
    instructions,  \* payment_instructions with what they settle
    status,        \* purchase_invoices.status
    stage,         \* where each request is
    task,          \* what it is about to write, from what it has read
    seen,          \* history: the instructions the last approver's request read
    raced,         \* history: batches two requests worked on at once
    rivals         \* history: two payment runs were prepared at once

paymentsVars == <<batch, instructions, status, stage, task, seen, raced, rivals>>

InstructionsOf(b) == {i \in instructions : i.batch = b}

-----------------------------------------------------------------------------
(* The payment run (allocatedFor, settlement, payableSuppliers, planPaymentRun) *)

\* What instruction i settles of document d.
Settled(i, d) ==
    LET rows == {a \in i.settles : a.document = d}
    IN  SumFunctionOnSet([a \in rows |-> a.amount], rows)

\* allocatedFor: what instructions settle of a document, in any batch.
Scheduled(d) == SumFunctionOnSet([i \in instructions |-> Settled(i, d)], instructions)

\* Mutant of Unscheduled: what is scheduled is still picked up.
UnscheduledIgnored(d) == Total[d]

\* settlement: what a run may still pick up.  Negative once too much is scheduled.
Unscheduled(d) == Total[d] - Scheduled(d)

\* payableSuppliers: approved documents with something unscheduled, unsigned.
Payable(s) ==
    {d \in Documents : SupplierOf[d] = s /\ status[d] = "approved" /\ Unscheduled(d) # 0}

Allocations(s) ==
    {[document |-> d, amount |-> IF Unscheduled(d) < 0 THEN - Unscheduled(d)
                                 ELSE Unscheduled(d)] : d \in Payable(s)}

Net(s) ==
    SumFunctionOnSet([a \in Allocations(s) |->
                          IF a.document \in CreditNotes THEN - a.amount ELSE a.amount],
                     Allocations(s))

\* Mutant of IsOwed: a supplier that owes us gets a payment too.
IsOwedEither(s) == Net(s) # 0

\* nothing_owed and credit_exceeds_invoices: such a supplier is left out.
IsOwed(s) == Net(s) > 0

\* One instruction for each supplier, which settles all of its documents in full.
PaymentRun(b) ==
    {[batch |-> b, endToEndId |-> s, amount |-> Net(s), settles |-> Allocations(s)] :
        s \in {s \in Suppliers : IsOwed(s)}}

\* assertRunnable: one supplier that is owed and has no IBAN refuses the run.
Runnable == \A s \in Suppliers : IsOwed(s) => s \notin NoIban

-----------------------------------------------------------------------------
(* approval.ts *)

Draft == [state |-> "draft", submittedBy |-> Nobody, approvedBy |-> Nobody,
          file |-> NoFile, exports |-> 0]

\* Mutant of IsEditable: a batch can be edited as long as it has not been sent.
IsEditableUntilExported(state) == state # "exported"

IsEditable(state) == state = "draft"

BatchAllowedFrom(action) ==
    CASE action = "submit"  -> "draft"
      [] action = "approve" -> "submitted"
      [] action = "reject"  -> "submitted"
      [] action = "reopen"  -> "rejected"
      [] action = "export"  -> "approved"

\* nextState: the state allows the action, and an approval is another person's.
BatchAllowed(action, row, actor) ==
    /\ row.state = BatchAllowedFrom(action)
    /\ action = "approve" =>
        /\ actor \in Humans
        /\ row.submittedBy # actor

\* Mutant of Patch: an export forgets to move the batch on.
PatchLeavesApproved(action, row, actor) ==
    CASE action = "submit"  -> [row EXCEPT !.state = "submitted", !.submittedBy = actor]
      [] action = "approve" -> [row EXCEPT !.state = "approved", !.approvedBy = actor]
      [] action = "reject"  -> [row EXCEPT !.state = "rejected"]
      [] action = "reopen"  -> [row EXCEPT !.state = "draft", !.submittedBy = Nobody,
                                           !.approvedBy = Nobody]
      [] action = "export"  -> [row EXCEPT !.exports = @ + 1]

\* What the UPDATE sets; the columns it does not set keep what is in the row now.
Patch(action, row, actor) ==
    CASE action = "submit"  -> [row EXCEPT !.state = "submitted", !.submittedBy = actor]
      [] action = "approve" -> [row EXCEPT !.state = "approved", !.approvedBy = actor]
      [] action = "reject"  -> [row EXCEPT !.state = "rejected"]
      [] action = "reopen"  -> [row EXCEPT !.state = "draft", !.submittedBy = Nobody,
                                           !.approvedBy = Nobody]
      [] action = "export"  -> [row EXCEPT !.state = "exported", !.exports = @ + 1]

\* Mutant of TwoPerson: without the constraint.
TwoPersonUnchecked(row) == TRUE

\* The constraint payment_batches_two_person, which a null satisfies.
TwoPerson(row) == Nobody \in {row.submittedBy, row.approvedBy} \/ row.submittedBy # row.approvedBy

-----------------------------------------------------------------------------
NoTask == [batch |-> Nobody]

PaymentsInit ==
    /\ batch = [b \in Batches |-> Draft]
    /\ instructions = {}
    /\ status = [d \in Documents |-> "booked"]
    /\ stage = [r \in Requests |-> "idle"]
    /\ task = [r \in Requests |-> NoTask]
    /\ seen = [b \in Batches |-> {}]
    /\ raced = {}
    /\ rivals = FALSE

\* The transaction ends, and the slot is free for another request.
End(r) ==
    /\ stage' = [stage EXCEPT ![r] = "idle"]
    /\ task' = [task EXCEPT ![r] = NoTask]

\* findBatch has read batch b, and the request knows what it wants.
Begin(r, where, b, what) ==
    /\ stage[r] = "idle"
    /\ stage' = [stage EXCEPT ![r] = where]
    /\ task' = [task EXCEPT ![r] = what]
    /\ raced' = IF \E q \in Requests : task[q].batch = b THEN raced \union {b} ELSE raced
    /\ UNCHANGED <<batch, instructions, status, seen>>

Edit(b, run, adds, removes) == [batch |-> b, run |-> run, adds |-> adds, removes |-> removes]

HandleAddInstruction(r, b) ==
    /\ IsEditable(batch[b].state)
    /\ \E ref \in References :
        Begin(r, "editing", b,
              Edit(b, FALSE, {[batch |-> b, endToEndId |-> ref, amount |-> 1, settles |-> {}]}, {}))
    /\ UNCHANGED rivals

HandleAddApprovedInvoices(r, b) ==
    /\ IsEditable(batch[b].state)
    /\ Runnable
    /\ PaymentRun(b) # {}
    /\ Begin(r, "editing", b, Edit(b, TRUE, PaymentRun(b), {}))
    /\ rivals' = (rivals \/ \E q \in Requests : stage[q] = "editing" /\ task[q].run)

HandleRemoveInstruction(r, b) ==
    /\ IsEditable(batch[b].state)
    /\ \E i \in InstructionsOf(b) : Begin(r, "editing", b, Edit(b, FALSE, {}, {i}))
    /\ UNCHANGED rivals

\* Mutant of EndToEndFree: without the unique index.
EndToEndFreeUnchecked(adds) == TRUE

\* The index payment_instructions_end_to_end.
EndToEndFree(adds) ==
    \A i \in adds, j \in instructions : <<i.batch, i.endToEndId>> # <<j.batch, j.endToEndId>>

\* The inserts or the delete commit, whatever the batch has become; they fail on
\* an end-to-end id that is taken, and an instruction that is gone is not found.
CommitEdit(r) ==
    /\ stage[r] = "editing"
    /\ EndToEndFree(task[r].adds)
    /\ task[r].removes \subseteq instructions
    /\ instructions' = (instructions \ task[r].removes) \union task[r].adds
    /\ End(r)
    /\ UNCHANGED <<batch, status, seen, raced, rivals>>

\* submit and approve refuse an empty batch (validatePaymentBatch).
HandleTransitionBatch(r, b) ==
    /\ \E action \in {"submit", "approve", "reject", "reopen"}, actor \in Actors :
        /\ action \in {"submit", "approve"} => InstructionsOf(b) # {}
        /\ Begin(r, "loaded", b, [batch |-> b, action |-> action, actor |-> actor,
                                  view |-> InstructionsOf(b), file |-> NoFile])
    /\ UNCHANGED rivals

\* The first download of an approved batch is its export.
Exporting(row) == row.state = "approved"

\* GET pain001: the file is built from the instructions that were read with the state.
HandleGetBatchPain001(r, b) ==
    /\ batch[b].state \in {"approved", "exported"}
    /\ InstructionsOf(b) # {}
    /\ Exporting(batch[b]) => batch[b].exports < MaxExports
    /\ \E actor \in Actors :
        Begin(r, IF Exporting(batch[b]) THEN "loaded" ELSE "decided", b,
              [batch |-> b, action |-> IF Exporting(batch[b]) THEN "export" ELSE "download",
               actor |-> actor, view |-> InstructionsOf(b), file |-> InstructionsOf(b)])
    /\ UNCHANGED rivals

\* transition reads the row again and asks nextState.
Decide(r) ==
    /\ stage[r] = "loaded"
    /\ BatchAllowed(task[r].action, batch[task[r].batch], task[r].actor)
    /\ stage' = [stage EXCEPT ![r] = "decided"]
    /\ UNCHANGED <<batch, instructions, status, task, seen, raced, rivals>>

\* The UPDATE by id, recordExport for a file, and the commit.
CommitBatchTransition(r) ==
    /\ stage[r] = "decided"
    /\ LET w == task[r]
           row == batch[w.batch]
           patched == IF w.action = "download" THEN row ELSE Patch(w.action, row, w.actor)
       IN  /\ TwoPerson(patched)
           /\ batch' = [batch EXCEPT ![w.batch] =
                           IF w.file = NoFile THEN patched ELSE [patched EXCEPT !.file = w.file]]
           /\ seen' = IF w.action = "approve" THEN [seen EXCEPT ![w.batch] = w.view] ELSE seen
    /\ End(r)
    /\ UNCHANGED <<instructions, status, raced, rivals>>

\* A refusal after the first read, a failed constraint, a crash: a rollback.
AbandonBatchRequest(r) ==
    /\ stage[r] # "idle"
    /\ End(r)
    /\ UNCHANGED <<batch, instructions, status, seen, raced, rivals>>

\* POST /purchase-invoices/{id}/transition of a booked document, its read and its
\* write in one step.  The batches that hold the document are not looked at.
MoveInvoice(d) ==
    /\ \E edge \in {<<"booked", "approved">>, <<"booked", "disputed">>,
                    <<"approved", "disputed">>, <<"disputed", "booked">>} :
        /\ status[d] = edge[1]
        /\ status' = [status EXCEPT ![d] = edge[2]]
    /\ UNCHANGED <<batch, instructions, stage, task, seen, raced, rivals>>

PaymentsNext ==
    \/ \E r \in Requests, b \in Batches :
        \/ HandleAddInstruction(r, b)
        \/ HandleAddApprovedInvoices(r, b)
        \/ HandleRemoveInstruction(r, b)
        \/ HandleTransitionBatch(r, b)
        \/ HandleGetBatchPain001(r, b)
    \/ \E r \in Requests :
        \/ CommitEdit(r)
        \/ Decide(r)
        \/ CommitBatchTransition(r)
        \/ AbandonBatchRequest(r)
    \/ \E d \in Documents : MoveInvoice(d)

PaymentsSpec == PaymentsInit /\ [][PaymentsNext]_paymentsVars
-----------------------------------------------------------------------------
(* Properties *)

Instruction == [batch : Batches, endToEndId : Suppliers \union References,
                amount : Nat \ {0}, settles : SUBSET [document : Documents, amount : Nat \ {0}]]

\* Every variable has its type; what is paid is positive and an approver is human.
PaymentsTypeOK ==
    /\ \A b \in Batches :
        /\ batch[b].state \in {"draft", "submitted", "approved", "exported", "rejected"}
        /\ batch[b].submittedBy \in Actors \union {Nobody}
        /\ batch[b].approvedBy \in Humans \union {Nobody}
        /\ batch[b].file = NoFile \/ batch[b].file \subseteq Instruction
        /\ batch[b].exports \in Nat
    /\ instructions \subseteq Instruction
    /\ status \in [Documents -> {"booked", "approved", "disputed"}]
    /\ stage \in [Requests -> {"idle", "editing", "loaded", "decided"}]
    /\ \A r \in Requests : task[r].batch \in Batches \union {Nobody}
    /\ \A b \in Batches : seen[b] \subseteq Instruction
    /\ raced \subseteq Batches
    /\ rivals \in BOOLEAN

\* "The approver must not be the submitter", nor a script: whatever requests
\* overlap, the row never names one actor twice.  nextState compares with a
\* submitter that may have changed by the time the approval is written, and it is
\* the constraint that holds.
ApprovedByAnother ==
    \A b \in Batches : batch[b].approvedBy # Nobody =>
        /\ batch[b].approvedBy \in Humans
        /\ batch[b].approvedBy # batch[b].submittedBy

\* Two runs that prepare the same batch at once do not pay a document twice in it:
\* both give a supplier the same end-to-end id.
SettledOnceInABatch ==
    \A i, j \in instructions :
        /\ i.batch = j.batch
        /\ \E a \in i.settles, c \in j.settles : a.document = c.document
        => i = j

\* As long as no two runs are prepared at once, a document is settled in full by
\* one instruction or not at all, in whatever batch and however often a batch is
\* edited ("the next payment run must not pick it up a second time").
ScheduledOnce == ~ rivals => \A d \in Documents : Scheduled(d) \in {0, Total[d]}

\* As long as requests on a batch do not overlap, the file is what its approver's
\* request read, and it is what the batch holds ("an approval has to mean the
\* approver saw what will be sent").
SentWasSeenUnlessRaced ==
    \A b \in Batches \ raced :
        batch[b].file # NoFile => batch[b].file = seen[b] /\ batch[b].file = InstructionsOf(b)

\* As long as requests on a batch do not overlap, it is exported, and announced
\* as exported, once, however often it is downloaded.
ExportedOnceUnlessRaced == \A b \in Batches \ raced : batch[b].exports <= 1

=============================================================================
