------------------------------- MODULE Members -------------------------------
(***************************************************************************)
(* Who may see an administration: the members and invitations of one       *)
(* entity (packages/db/src/repositories/members.ts), the handlers of       *)
(* apps/web/src/api/handlers/members.ts and the claim of an invitation at  *)
(* sign-in (packages/db/src/auth.ts).                                      *)
(*                                                                         *)
(* A request reads the caller's role when its context is built, then works *)
(* in one SERIALIZABLE transaction (withMembers): it decides on the        *)
(* snapshot it opened with and fails if another write overtook what it     *)
(* read.  PostgreSQL lets some overtaken transactions commit as if they    *)
(* had come first; here they commit first.  A sign-in is not a transaction *)
(* at all: each of its statements commits by itself, and an error ends it  *)
(* silently.  A person is an address; the account is the same name.        *)
(***************************************************************************)
EXTENDS Naturals, Sequences, FiniteSets, SequencesExt

CONSTANTS
    Requests,       \* requests of the members API, each made once
    People,         \* addresses, and the users they belong to
    Founder,        \* the user who provisioned the administration; the account
                    \* is there from the start, so no invitation waits for it
    Roles,          \* the roles, of which one is Owner
    Owner,
    NotMember,      \* no row in entity_members
    NoWork,         \* a request that does nothing
    MaxInvitations  \* bound: rows in entity_invitations

Members == [People -> Roles \union {NotMember}]

\* What a transaction was asked, and the snapshot it works on.
Works ==
    [job : [op : {"invite", "setRole"}, subject : People, role : Roles] \union
           [op : {"remove"}, subject : People] \union
           [op : {"revoke"}, subject : People, invitation : 1 .. MaxInvitations],
     seen : [members : Members, account : BOOLEAN, pending : SUBSET (1 .. MaxInvitations)]]

ASSUME MembersConstants ==
    /\ Founder \in People
    /\ Owner \in Roles
    /\ NotMember \notin Roles
    /\ MaxInvitations \in Nat
    /\ NoWork \notin Works

VARIABLES
    role,         \* entity_members: the role of each person, or NotMember
    accounts,     \* users: the people with an account
    invitations,  \* entity_invitations, in order:
                  \* [email, role, expired, revoked, accepted]
    pc,           \* where each request is
    work,         \* what it was asked, and its snapshot once it is open
    signin,       \* where each person's sign-in is
    claiming,     \* the invitations their claim has still to honour
    out,          \* history: people put out and not invited since
    muddled       \* history: people whose sign-in was cut short, or ran into a
                  \* request about them

vars == <<role, accounts, invitations, pc, work, signin, claiming, out, muddled>>

-----------------------------------------------------------------------------
Jobs ==
    [op : {"invite", "setRole"}, subject : People, role : Roles] \union
    [op : {"remove"}, subject : People] \union
    {[op |-> "revoke", subject |-> invitations[i].email, invitation |-> i] :
        i \in DOMAIN invitations}

Invitation(p, r) ==
    [email |-> p, role |-> r, expired |-> FALSE, revoked |-> FALSE, accepted |-> FALSE]

\* accepted_at is null and revoked_at is null
Pending(i) == ~ invitations[i].accepted /\ ~ invitations[i].revoked

PendingOf(p) == {i \in DOMAIN invitations : invitations[i].email = p /\ Pending(i)}

\* What a transaction on person p reads.
Snapshot(p) ==
    [members |-> role, account |-> p \in accounts, pending |-> PendingOf(p)]

\* Another write overtook what request q read.  Nothing in a sign-in is
\* serializable: the account it makes is not seen as a conflict.
Overtaken(q) ==
    \/ role # work[q].seen.members
    \/ PendingOf(work[q].job.subject) # work[q].seen.pending

Owners(members) == {p \in People : members[p] = Owner}

\* Mutant of WouldOrphan: giving up the role oneself is let through.
WouldOrphanByRemoval(members, p, next) == Owners(members) = {p} /\ next = NotMember

\* wouldOrphanEntity
WouldOrphan(members, p, next) == Owners(members) = {p} /\ next # Owner

-----------------------------------------------------------------------------
Init ==
    /\ role = [p \in People |-> IF p = Founder THEN Owner ELSE NotMember]
    /\ accounts = {Founder}
    /\ invitations = <<>>
    /\ pc = [q \in Requests |-> "idle"]
    /\ work = [q \in Requests |-> NoWork]
    /\ signin = [p \in People |-> "idle"]
    /\ claiming = [p \in People |-> {}]
    /\ out = {}
    /\ muddled = {}

\* requireOwner: the role of the caller is read with the context, before the
\* transaction, and not again.
Authorize(q) ==
    /\ pc[q] = "idle"
    /\ Owners(role) # {}
    /\ pc' = [pc EXCEPT ![q] = "authorized"]
    /\ UNCHANGED <<role, work, accounts, invitations, signin, claiming, out, muddled>>

\* The first statement of the transaction fixes its snapshot.
Open(q) ==
    /\ pc[q] = "authorized"
    /\ \E job \in Jobs :
        work' = [work EXCEPT ![q] = [job |-> job, seen |-> Snapshot(job.subject)]]
    /\ pc' = [pc EXCEPT ![q] = "open"]
    /\ UNCHANGED <<role, accounts, invitations, signin, claiming, out, muddled>>

End(q) ==
    /\ pc' = [pc EXCEPT ![q] = "done"]
    /\ work' = [work EXCEPT ![q] = NoWork]

\* Mutant of Rejected: a transaction goes through on what it read.
RejectedWithoutConflict(q) ==
    LET job == work[q].job
        seen == work[q].seen
    IN  \/ job.op = "setRole" /\ seen.members[job.subject] = NotMember
        \/ job.op = "setRole" /\ WouldOrphan(seen.members, job.subject, job.role)
        \/ job.op = "remove" /\ seen.members[job.subject] = NotMember
        \/ job.op = "remove" /\ WouldOrphan(seen.members, job.subject, NotMember)
        \/ job.op = "revoke" /\ job.invitation \notin seen.pending

\* A serialization failure, unknown_member, or assertKeepsAnOwner.
Rejected(q) ==
    LET job == work[q].job
        seen == work[q].seen
    IN  \/ Overtaken(q)
        \/ job.op = "setRole" /\ seen.members[job.subject] = NotMember
        \/ job.op = "setRole" /\ WouldOrphan(seen.members, job.subject, job.role)
        \/ job.op = "remove" /\ seen.members[job.subject] = NotMember
        \/ job.op = "remove" /\ WouldOrphan(seen.members, job.subject, NotMember)
        \/ job.op = "revoke" /\ job.invitation \notin seen.pending

Reject(q) ==
    /\ pc[q] = "open"
    /\ Rejected(q)
    /\ End(q)
    /\ UNCHANGED <<role, accounts, invitations, signin, claiming, out, muddled>>

\* A request about somebody who is signing in.
Muddles(p) == muddled' = IF signin[p] = "idle" THEN muddled ELSE muddled \union {p}

Commits(q, op) ==
    /\ pc[q] = "open"
    /\ work[q].job.op = op
    /\ ~ Rejected(q)
    /\ End(q)
    /\ Muddles(work[q].job.subject)
    /\ UNCHANGED <<accounts, signin, claiming>>

\* The address has an account: it is a member from now on, or has another role.
InviteAccount(q) ==
    /\ pc[q] = "open"
    /\ work[q].seen.account
    /\ Commits(q, "invite")
    /\ role' = [role EXCEPT ![work[q].job.subject] = work[q].job.role]
    /\ out' = out \ {work[q].job.subject}
    /\ UNCHANGED invitations

\* No account yet: the invitation waits, or the one that waits is refreshed.
InviteAddress(q) ==
    LET job == work[q].job
        seen == work[q].seen
    IN  /\ pc[q] = "open"
        /\ ~ seen.account
        /\ Commits(q, "invite")
        /\ IF seen.pending = {}
           THEN /\ Len(invitations) < MaxInvitations
                /\ invitations' = Append(invitations, Invitation(job.subject, job.role))
           ELSE invitations' = [i \in DOMAIN invitations |->
                                   IF i \in seen.pending
                                   THEN Invitation(job.subject, job.role)
                                   ELSE invitations[i]]
        /\ out' = out \ {job.subject}
        /\ UNCHANGED role

SetRole(q) ==
    /\ Commits(q, "setRole")
    /\ role' = [role EXCEPT ![work[q].job.subject] = work[q].job.role]
    /\ UNCHANGED <<invitations, out>>

\* handleRemoveMember with the id of a member ...
RemoveMember(q) ==
    /\ Commits(q, "remove")
    /\ role' = [role EXCEPT ![work[q].job.subject] = NotMember]
    /\ out' = out \union {work[q].job.subject}
    /\ UNCHANGED invitations

\* ... and with that of an invitation nobody used: the row is kept.
RevokeInvitation(q) ==
    LET job == work[q].job
    IN  /\ Commits(q, "revoke")
        /\ invitations' = [invitations EXCEPT ![job.invitation].revoked = TRUE]
        /\ out' = IF role[job.subject] = NotMember THEN out \union {job.subject} ELSE out
        /\ UNCHANGED role

\* Fourteen days go by.
Expire(i) ==
    /\ ~ invitations[i].expired
    /\ Pending(i)
    /\ invitations' = [invitations EXCEPT ![i].expired = TRUE]
    /\ UNCHANGED <<role, accounts, pc, work, signin, claiming, out, muddled>>

-----------------------------------------------------------------------------
\* A code that arrived at the address opens a session, and an account if there
\* is none.
SignIn(p) ==
    /\ p # Founder
    /\ signin[p] = "idle"
    /\ accounts' = accounts \union {p}
    /\ signin' = [signin EXCEPT ![p] = "session"]
    /\ muddled' = IF \E q \in Requests : pc[q] = "open" /\ work[q].job.subject = p
                  THEN muddled \union {p} ELSE muddled
    /\ UNCHANGED <<role, invitations, pc, work, claiming, out>>

\* Mutant of Claimable: an invitation that was withdrawn is honoured as well.
ClaimableThoughRevoked(p) ==
    {i \in DOMAIN invitations :
        invitations[i].email = p /\ ~ invitations[i].accepted /\ ~ invitations[i].expired}

\* What claimInvitations goes through.
Claimable(p) == {i \in PendingOf(p) : ~ invitations[i].expired}

ReadInvitations(p) ==
    /\ signin[p] = "session"
    /\ claiming' = [claiming EXCEPT ![p] =
                        {[id |-> i, role |-> invitations[i].role] : i \in Claimable(p)}]
    /\ signin' = [signin EXCEPT ![p] = "claiming"]
    /\ UNCHANGED <<role, accounts, invitations, pc, work, out, muddled>>

\* insert ... on conflict do nothing, with the role as it was read.
Join(p) ==
    /\ signin[p] = "claiming"
    /\ \E c \in claiming[p] :
        role' = [role EXCEPT ![p] = IF @ = NotMember THEN c.role ELSE @]
    /\ signin' = [signin EXCEPT ![p] = "joined"]
    /\ UNCHANGED <<accounts, invitations, pc, work, claiming, out, muddled>>

\* Mutant of Accepted: the invitation is not marked.
AcceptedNowhere(i) == invitations

\* set accepted_at where id = ..., whatever became of the row.
Accepted(i) == [invitations EXCEPT ![i].accepted = TRUE]

Accept(p) ==
    /\ signin[p] = "joined"
    /\ \E c \in claiming[p] :
        /\ invitations' = Accepted(c.id)
        /\ claiming' = [claiming EXCEPT ![p] = @ \ {c}]
    /\ signin' = [signin EXCEPT ![p] = "claiming"]
    /\ UNCHANGED <<role, accounts, pc, work, out, muddled>>

SignedIn(p) ==
    /\ signin[p] = "claiming"
    /\ claiming[p] = {}
    /\ signin' = [signin EXCEPT ![p] = "idle"]
    /\ UNCHANGED <<role, accounts, invitations, pc, work, claiming, out, muddled>>

\* An error or a crash between two statements; the person is signed in anyway.
SignInFails(p) ==
    /\ signin[p] # "idle"
    /\ signin' = [signin EXCEPT ![p] = "idle"]
    /\ claiming' = [claiming EXCEPT ![p] = {}]
    /\ muddled' = muddled \union {p}
    /\ UNCHANGED <<role, accounts, invitations, pc, work, out>>

Next ==
    \/ \E q \in Requests :
        \/ Authorize(q) \/ Open(q) \/ Reject(q)
        \/ InviteAccount(q) \/ InviteAddress(q) \/ SetRole(q)
        \/ RemoveMember(q) \/ RevokeInvitation(q)
    \/ \E p \in People :
        \/ SignIn(p) \/ ReadInvitations(p) \/ Join(p) \/ Accept(p)
        \/ SignedIn(p) \/ SignInFails(p)
    \/ \E i \in DOMAIN invitations : Expire(i)

Spec == Init /\ [][Next]_vars

-----------------------------------------------------------------------------
InvitationRows ==
    [email : People, role : Roles, expired : BOOLEAN, revoked : BOOLEAN, accepted : BOOLEAN]

\* One row per member; one pending invitation per address, which the partial
\* index entity_invitations_pending asks for and invite must not run into.
TypeOK ==
    /\ role \in Members
    /\ accounts \subseteq People
    /\ invitations \in Seq(InvitationRows) /\ Len(invitations) <= MaxInvitations
    /\ \A p \in People : \A i, j \in PendingOf(p) : i = j
    /\ pc \in [Requests -> {"idle", "authorized", "open", "done"}]
    /\ work \in [Requests -> Works \union {NoWork}]
    /\ \A q \in Requests : pc[q] # "open" <=> work[q] = NoWork
    /\ signin \in [People -> {"idle", "session", "claiming", "joined"}]
    /\ claiming \in [People -> SUBSET [id : DOMAIN invitations, role : Roles]]
    /\ out \subseteq People
    /\ muddled \subseteq People

\* "An administration always has at least one owner" (membership.ts): whatever
\* overlaps, the last owner is lost by no removal, no new role and no sign-in.
\* An invitation of the owner's own address under a lesser role does it: invite
\* writes the role of an account without asking assertKeepsAnOwner.
LastOwnerIsOnlyReinvited ==
    [][Owners(role) # {} /\ Owners(role') = {}
        => \E q \in Requests :
                pc[q] = "open" /\ pc'[q] = "done" /\ work[q].job.op = "invite"]_vars

\* Who was removed, or whose invitation was withdrawn, has no access until the
\* address is invited again, unless a sign-in of theirs was cut short or ran
\* into a request about them: a claim that stops between the membership and the
\* mark on the invitation leaves one that lets the person in again.
AccessTakenAwayStaysAway == \A p \in out \ muddled : role[p] = NotMember

\* A sign-in that ran to its end undisturbed has claimed whatever waited for the
\* address: nobody with an account is left with an invitation that still counts.
NothingLeftUnclaimed ==
    \A p \in accounts \ muddled :
        signin[p] = "idle" => \A i \in PendingOf(p) : invitations[i].expired

=============================================================================
