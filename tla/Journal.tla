------------------------------ MODULE Journal ------------------------------
(***************************************************************************)
(* What the posting API promises, without transactions, locks or triggers. *)
(*                                                                         *)
(* The journal is a growing set of facts "this entry was posted under this *)
(* key, reversing that entry or none".  Every request is answered once:    *)
(* with an entry for everything it asks, posted by itself under a key that *)
(* was free or posted before under the key, or with a refusal that leaves  *)
(* no trace.  A key posts once and an entry is reversed once.  Module      *)
(* Ledger implements this specification (Ledger!ImplementsJournal).        *)
(***************************************************************************)
EXTENDS Naturals, Sequences

CONSTANTS
    Txns,      \* requests; the entries a request posts carry its id and a number
    Keys,      \* idempotency keys
    NoEntry    \* the target of an entry that reverses none

VARIABLES
    journal,   \* the facts: records [id, key, reverses]
    outcome,   \* what became of each request
    answer     \* the entries each request was told about

vars == <<journal, outcome, answer>>

Init ==
    /\ journal = {}
    /\ outcome = [t \in Txns |-> "pending"]
    /\ answer = [t \in Txns |-> << >>]

\* The facts may be added together: keys that are free, and entries to reverse that
\* are there, or are added with them, and that nothing reverses yet.
MayAdd(new) ==
    /\ \A fact \in new : ~ \E old \in journal : old.key = fact.key
    /\ \A fact, other \in new : fact.key = other.key => fact = other
    /\ \A fact \in new : fact.reverses # NoEntry =>
        /\ \E target \in journal \union new : target.id = fact.reverses
        /\ \A other \in journal \union new : other.reverses = fact.reverses => other = fact

\* A request adds its facts, all at once, and is told about them and about what
\* was there under its other keys.
Answer(t) ==
    LET new == journal' \ journal
        told == answer'[t]
    IN  /\ outcome[t] = "pending"
        /\ outcome' = [outcome EXCEPT ![t] = "answered"]
        /\ journal \subseteq journal'
        /\ MayAdd(new)
        /\ \A fact \in new :
            fact.id[1] = t /\ fact.key[1] \in Keys /\ \E n \in DOMAIN told : told[n] = fact.id
        /\ told # << >>
        /\ \A n \in DOMAIN told : \E fact \in journal' : fact.id = told[n]
        /\ answer' = [answer EXCEPT ![t] = told]

\* Refused, failed or only previewed: nothing is left behind.
Decline(t) ==
    /\ outcome[t] = "pending"
    /\ outcome' = [outcome EXCEPT ![t] = "declined"]
    /\ UNCHANGED <<journal, answer>>

Next == \E t \in Txns : Answer(t) \/ Decline(t)

Spec == Init /\ [][Next]_vars
=============================================================================
