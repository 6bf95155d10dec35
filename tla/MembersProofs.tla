---------------------------- MODULE MembersProofs ----------------------------
(***************************************************************************)
(* Theorems about Members: who may lose the last owner, that access taken  *)
(* away stays away, and that no undisturbed sign-in leaves an invitation   *)
(* unclaimed, for any number of requests, people and roles.                *)
(***************************************************************************)
EXTENDS Members, TLAPS

\* What an open transaction read about the account of its subject, and the
\* invitation it is about; a sign-in of an undisturbed person hides nothing.
SeenIsSound ==
    \A q \in Requests : pc[q] = "open" =>
        /\ work[q].job.op = "revoke" =>
            /\ work[q].job.invitation \in DOMAIN invitations
            /\ invitations[work[q].job.invitation].email = work[q].job.subject
        /\ work[q].seen.account => work[q].job.subject \in accounts
        /\ work[q].job.subject \in accounts \ muddled => work[q].seen.account

\* Members and people who sign in have an account; only a claim has something
\* left to honour.
SignInsAreSound ==
    \A p \in People :
        /\ signin[p] # "idle" => p \in accounts
        /\ role[p] # NotMember => p \in accounts
        /\ signin[p] \in {"idle", "session"} => claiming[p] = {}

\* Who was put out has nothing that could let them in again.
OutIsOut ==
    \A p \in out \ muddled :
        /\ role[p] = NotMember
        /\ claiming[p] = {}
        /\ \A i \in PendingOf(p) : invitations[i].expired

\* An invitation that counts is among those a running claim has still to honour.
ClaimsAreComplete ==
    \A p \in accounts \ muddled : \A i \in PendingOf(p) :
        /\ signin[p] = "idle" => invitations[i].expired
        /\ signin[p] \in {"claiming", "joined"} =>
            invitations[i].expired \/ \E c \in claiming[p] : c.id = i

MembersInv == TypeOK /\ SeenIsSound /\ SignInsAreSound /\ OutIsOut /\ ClaimsAreComplete

LEMMA InitHolds == Init => MembersInv
  <1> SUFFICES ASSUME Init PROVE MembersInv
    OBVIOUS
  <1> USE MembersConstants DEF Init
  <1>1. \A p \in People : PendingOf(p) = {}
    BY DEF PendingOf
  <1>2. TypeOK
    BY <1>1 DEF TypeOK, Members
  <1> QED
    BY <1>1, <1>2 DEF MembersInv, SeenIsSound, SignInsAreSound, OutIsOut, ClaimsAreComplete

-----------------------------------------------------------------------------
\* What TypeOK says of the requests.
RequestsTyped ==
    /\ pc \in [Requests -> {"idle", "authorized", "open", "done"}]
    /\ work \in [Requests -> Works \union {NoWork}]
    /\ \A q \in Requests : pc[q] # "open" <=> work[q] = NoWork

LEMMA EndIsTyped ==
    ASSUME TypeOK, NEW q \in Requests, End(q)
    PROVE  /\ RequestsTyped'
           /\ pc'[q] = "done"
           /\ \A r \in Requests : pc'[r] = "open" => pc[r] = "open" /\ work'[r] = work[r]
  BY DEF TypeOK, End, RequestsTyped

\* What an open request holds, by what it was asked.
LEMMA WorkIsTyped ==
    ASSUME TypeOK, NEW q \in Requests, pc[q] = "open"
    PROVE  /\ work[q] \in Works
           /\ work[q].job.subject \in People
           /\ work[q].job.op \in {"invite", "setRole"} => work[q].job.role \in Roles
           /\ work[q].seen.members \in Members
           /\ work[q].seen.account \in BOOLEAN
  BY DEF TypeOK, Works

\* An invitation that only loses: marked or expired, it is still the same one.
Withers ==
    /\ invitations' \in Seq(InvitationRows)
    /\ Len(invitations') = Len(invitations)
    /\ DOMAIN invitations' = DOMAIN invitations
    /\ \A i \in DOMAIN invitations :
        /\ invitations'[i].email = invitations[i].email
        /\ invitations[i].expired => invitations'[i].expired
        /\ Pending(i)' => Pending(i)

LEMMA NewRowWithers ==
    ASSUME TypeOK, NEW i \in DOMAIN invitations, NEW row \in InvitationRows,
           invitations' = [invitations EXCEPT ![i] = row],
           row.email = invitations[i].email,
           invitations[i].expired => row.expired,
           ~ row.accepted /\ ~ row.revoked => Pending(i)
    PROVE  Withers /\ invitations'[i] = row
  <1>1. /\ invitations' \in Seq(InvitationRows)
        /\ Len(invitations') = Len(invitations)
        /\ DOMAIN invitations' = DOMAIN invitations
        /\ invitations'[i] = row
        /\ \A j \in DOMAIN invitations \ {i} : invitations'[j] = invitations[j]
    BY DEF TypeOK
  <1>2. \A j \in DOMAIN invitations : Pending(j)' => Pending(j)
    BY <1>1 DEF Pending
  <1> QED
    BY <1>1, <1>2 DEF Withers

LEMMA MarkWithers ==
    ASSUME TypeOK, NEW i \in DOMAIN invitations,
           \/ invitations' = [invitations EXCEPT ![i].accepted = TRUE]
           \/ invitations' = [invitations EXCEPT ![i].revoked = TRUE]
    PROVE  Withers /\ ~ Pending(i)'
  <1> DEFINE accepted == [invitations[i] EXCEPT !.accepted = TRUE]
             revoked == [invitations[i] EXCEPT !.revoked = TRUE]
  <1>1. invitations[i] \in InvitationRows
    BY DEF TypeOK
  <1>2. /\ accepted \in InvitationRows /\ accepted.email = invitations[i].email
        /\ accepted.expired = invitations[i].expired /\ accepted.accepted
    BY <1>1 DEF InvitationRows
  <1>3. /\ revoked \in InvitationRows /\ revoked.email = invitations[i].email
        /\ revoked.expired = invitations[i].expired /\ revoked.revoked
    BY <1>1 DEF InvitationRows
  <1>4. \/ invitations' = [invitations EXCEPT ![i] = accepted]
        \/ invitations' = [invitations EXCEPT ![i] = revoked]
    OBVIOUS
  <1> HIDE DEF accepted, revoked
  <1>5. CASE invitations' = [invitations EXCEPT ![i] = accepted]
    BY <1>2, <1>5, NewRowWithers DEF Pending
  <1>6. CASE invitations' = [invitations EXCEPT ![i] = revoked]
    BY <1>3, <1>6, NewRowWithers DEF Pending
  <1> QED
    BY <1>4, <1>5, <1>6

LEMMA ExpiryWithers ==
    ASSUME TypeOK, NEW i \in DOMAIN invitations,
           invitations' = [invitations EXCEPT ![i].expired = TRUE]
    PROVE  Withers
  <1> DEFINE expired == [invitations[i] EXCEPT !.expired = TRUE]
  <1>1. invitations[i] \in InvitationRows
    BY DEF TypeOK
  <1>2. /\ expired \in InvitationRows /\ expired.email = invitations[i].email
        /\ expired.expired /\ expired.accepted = invitations[i].accepted
        /\ expired.revoked = invitations[i].revoked
    BY <1>1 DEF InvitationRows
  <1>3. invitations' = [invitations EXCEPT ![i] = expired]
    OBVIOUS
  <1> HIDE DEF expired
  <1> QED
    BY <1>2, <1>3, NewRowWithers DEF Pending

LEMMA FewerPending ==
    ASSUME TypeOK, Withers
    PROVE  \A p \in People :
            /\ PendingOf(p)' \subseteq PendingOf(p)
            /\ \A i \in PendingOf(p)' : invitations[i].expired => invitations'[i].expired
  BY DEF Withers, PendingOf


-----------------------------------------------------------------------------
LEMMA AuthorizeHolds ==
    ASSUME MembersInv, NEW q \in Requests, Authorize(q) \/ Reject(q)
    PROVE  MembersInv'
  <1> USE DEF MembersInv
  <1>0. UNCHANGED <<role, accounts, invitations, signin, claiming, out, muddled>>
    BY DEF Authorize, Reject
  <1>1. /\ RequestsTyped'
        /\ \A r \in Requests : pc'[r] = "open" => pc[r] = "open" /\ work'[r] = work[r]
    <2>1. CASE Authorize(q)
      BY <2>1 DEF Authorize, TypeOK, RequestsTyped
    <2>2. CASE Reject(q)
      BY <2>2, EndIsTyped DEF Reject
    <2> QED
      BY <2>1, <2>2
  <1>2. TypeOK'
    BY <1>0, <1>1 DEF TypeOK, RequestsTyped, PendingOf, Pending
  <1>3. SeenIsSound'
    BY <1>0, <1>1 DEF SeenIsSound
  <1>4. SignInsAreSound' /\ OutIsOut' /\ ClaimsAreComplete'
    BY <1>0 DEF SignInsAreSound, OutIsOut, ClaimsAreComplete, PendingOf, Pending
  <1> QED
    BY <1>2, <1>3, <1>4

LEMMA IdsAreBounded == TypeOK => DOMAIN invitations \subseteq 1 .. MaxInvitations
  <1> SUFFICES ASSUME TypeOK, NEW i \in DOMAIN invitations PROVE i \in 1 .. MaxInvitations
    OBVIOUS
  <1>1. DOMAIN invitations = 1 .. Len(invitations) /\ Len(invitations) \in Nat
    BY DEF TypeOK
  <1>2. Len(invitations) <= MaxInvitations
    BY DEF TypeOK
  <1> QED
    BY <1>1, <1>2, MembersConstants

LEMMA OpenHolds ==
    ASSUME MembersInv, NEW q \in Requests, Open(q)
    PROVE  MembersInv'
  <1> USE DEF MembersInv
  <1>0. UNCHANGED <<role, accounts, invitations, signin, claiming, out, muddled>>
    BY DEF Open
  <1>1. PICK j \in Jobs : work' = [work EXCEPT ![q] = [job |-> j, seen |-> Snapshot(j.subject)]]
    BY DEF Open
  <1>2. /\ j \in [op : {"invite", "setRole"}, subject : People, role : Roles] \union
                 [op : {"remove"}, subject : People] \union
                 [op : {"revoke"}, subject : People, invitation : 1 .. MaxInvitations]
        /\ j.subject \in People
        /\ j.op = "revoke" => j.invitation \in DOMAIN invitations
                              /\ invitations[j.invitation].email = j.subject
    <2>1. CASE j \in [op : {"invite", "setRole"}, subject : People, role : Roles]
      BY <2>1
    <2>2. CASE j \in [op : {"remove"}, subject : People]
      BY <2>2
    <2>3. ASSUME NEW i \in DOMAIN invitations,
                 j = [op |-> "revoke", subject |-> invitations[i].email, invitation |-> i]
          PROVE  j \in [op : {"revoke"}, subject : People, invitation : 1 .. MaxInvitations]
                 /\ j.subject \in People /\ j.invitation = i /\ j.subject = invitations[i].email
      <3>1. invitations[i].email \in People
        <4>1. invitations[i] \in InvitationRows
          BY DEF TypeOK
        <4> QED
          BY <4>1 DEF InvitationRows
      <3>2. i \in 1 .. MaxInvitations
        BY IdsAreBounded
      <3> QED
        BY <2>3, <3>1, <3>2
    <2> QED
      BY <2>1, <2>2, <2>3 DEF Jobs
  <1>3. Snapshot(j.subject) \in
            [members : Members, account : BOOLEAN, pending : SUBSET (1 .. MaxInvitations)]
    <2>1. DOMAIN invitations \subseteq 1 .. MaxInvitations
      BY IdsAreBounded
    <2>2. PendingOf(j.subject) \subseteq DOMAIN invitations
      BY DEF PendingOf
    <2> QED
      BY <2>1, <2>2 DEF Snapshot, TypeOK
  <1>4. [job |-> j, seen |-> Snapshot(j.subject)] \in Works
    BY <1>2, <1>3 DEF Works
  <1>5. RequestsTyped'
    BY <1>1, <1>4, MembersConstants DEF Open, TypeOK, RequestsTyped
  <1>6. TypeOK'
    BY <1>0, <1>5 DEF TypeOK, RequestsTyped, PendingOf, Pending
  <1>a. Snapshot(j.subject).account <=> j.subject \in accounts
    BY DEF Snapshot
  <1>7. /\ work'[q].job = j
        /\ work'[q].seen.account <=> j.subject \in accounts
        /\ \A r \in Requests \ {q} : pc'[r] = pc[r] /\ work'[r] = work[r]
    BY <1>1, <1>a DEF Open, TypeOK
  <1>8. SeenIsSound'
    <2> SUFFICES ASSUME NEW r \in Requests, pc'[r] = "open"
                 PROVE  /\ work'[r].job.op = "revoke" =>
                            /\ work'[r].job.invitation \in DOMAIN invitations
                            /\ invitations[work'[r].job.invitation].email = work'[r].job.subject
                        /\ work'[r].seen.account => work'[r].job.subject \in accounts
                        /\ work'[r].job.subject \in accounts \ muddled => work'[r].seen.account
      BY <1>0 DEF SeenIsSound
    <2>1. CASE r = q
      BY <1>2, <1>7, <2>1
    <2>2. CASE r # q
      BY <1>7, <2>2 DEF SeenIsSound
    <2> QED
      BY <2>1, <2>2
  <1>9. SignInsAreSound' /\ OutIsOut' /\ ClaimsAreComplete'
    BY <1>0 DEF SignInsAreSound, OutIsOut, ClaimsAreComplete, PendingOf, Pending
  <1> QED
    BY <1>6, <1>8, <1>9

\* What a transaction that commits found: nothing overtook it, and who is signing in
\* is muddled from now on.
LEMMA CommitIsSound ==
    ASSUME MembersInv, NEW q \in Requests, NEW op, Commits(q, op)
    PROVE  LET p == work[q].job.subject IN
           /\ RequestsTyped'
           /\ \A r \in Requests : pc'[r] = "open" => pc[r] = "open" /\ work'[r] = work[r]
           /\ p \in People
           /\ work[q].seen.members = role /\ work[q].seen.pending = PendingOf(p)
           /\ muddled' \subseteq People /\ muddled \subseteq muddled'
           /\ p \notin muddled' => signin[p] = "idle" /\ claiming[p] = {}
           /\ op \in {"setRole", "remove"} => role[p] # NotMember
  <1> USE DEF MembersInv
  <1>1. work[q].job.subject \in People
    BY WorkIsTyped DEF Commits
  <1>2. RequestsTyped' /\ \A r \in Requests : pc'[r] = "open" => pc[r] = "open" /\ work'[r] = work[r]
    BY EndIsTyped DEF Commits
  <1>3. work[q].seen.members = role /\ work[q].seen.pending = PendingOf(work[q].job.subject)
    BY DEF Commits, Rejected, Overtaken
  <1>4. op \in {"setRole", "remove"} => role[work[q].job.subject] # NotMember
    BY <1>3 DEF Commits, Rejected
  <1>5. /\ muddled' \subseteq People /\ muddled \subseteq muddled'
        /\ work[q].job.subject \notin muddled' =>
                signin[work[q].job.subject] = "idle" /\ claiming[work[q].job.subject] = {}
    BY <1>1 DEF Commits, Muddles, TypeOK, SignInsAreSound
  <1> QED
    BY <1>1, <1>2, <1>3, <1>4, <1>5

\* A commit that leaves the invitations and the accounts alone reads well.
LEMMA SeenStays ==
    ASSUME SeenIsSound, accounts' = accounts, muddled \subseteq muddled',
           DOMAIN invitations \subseteq DOMAIN invitations',
           \A i \in DOMAIN invitations : invitations'[i].email = invitations[i].email,
           \A r \in Requests : pc'[r] = "open" => pc[r] = "open" /\ work'[r] = work[r]
    PROVE  SeenIsSound'
  BY DEF SeenIsSound


LEMMA SamePending ==
    ASSUME invitations' = invitations
    PROVE  \A p \in People : PendingOf(p)' = PendingOf(p)
  BY DEF PendingOf, Pending

LEMMA ClaimsStay ==
    ASSUME TypeOK, ClaimsAreComplete, muddled \subseteq muddled',
           UNCHANGED <<accounts, signin, claiming>>, invitations' = invitations \/ Withers
    PROVE  ClaimsAreComplete'
  <1>1. \A p \in People : \A i \in PendingOf(p)' :
            i \in PendingOf(p) /\ (invitations[i].expired => invitations'[i].expired)
    BY SamePending, FewerPending
  <1> QED
    BY <1>1 DEF TypeOK, ClaimsAreComplete

\* A new role for somebody: nothing else about the person changes.
LEMMA RoleChangeHolds ==
    ASSUME MembersInv, NEW q \in Requests, InviteAccount(q) \/ SetRole(q) \/ RemoveMember(q)
    PROVE  MembersInv'
  <1> USE DEF MembersInv
  <1> DEFINE p == work[q].job.subject
  <1>1. PICK op \in {"invite", "setRole", "remove"} : Commits(q, op)
    BY DEF InviteAccount, SetRole, RemoveMember
  <1>2. /\ UNCHANGED <<accounts, invitations, signin, claiming>>
        /\ RequestsTyped' /\ p \in People
        /\ \A r \in Requests : pc'[r] = "open" => pc[r] = "open" /\ work'[r] = work[r]
        /\ muddled' \subseteq People /\ muddled \subseteq muddled'
        /\ p \notin muddled' => signin[p] = "idle" /\ claiming[p] = {}
    <2>1. UNCHANGED <<accounts, signin, claiming>>
      BY <1>1 DEF Commits
    <2>2. invitations' = invitations
      BY DEF InviteAccount, SetRole, RemoveMember
    <2> QED
      BY <1>1, <2>1, <2>2, CommitIsSound
  <1>3. p \in accounts
    <2>1. CASE InviteAccount(q)
      BY <2>1 DEF InviteAccount, SeenIsSound
    <2>2. CASE SetRole(q) \/ RemoveMember(q)
      <3>1. role[p] # NotMember
        BY <2>2, CommitIsSound DEF SetRole, RemoveMember
      <3> QED
        BY <1>2, <3>1 DEF SignInsAreSound
    <2> QED
      BY <2>1, <2>2
  <1>4. PICK next \in Roles \union {NotMember} :
            /\ role' = [role EXCEPT ![p] = next]
            /\ \/ out' \subseteq out \ {p}
               \/ next # NotMember /\ out' = out /\ role[p] # NotMember
               \/ next = NotMember /\ out' = out \union {p}
    <2>1. CASE InviteAccount(q)
      <3>1. work[q].job.role \in Roles
        BY <2>1, WorkIsTyped DEF InviteAccount, Commits
      <3> QED
        BY <2>1, <3>1 DEF InviteAccount
    <2>2. CASE SetRole(q)
      <3>1. work[q].job.role \in Roles /\ role[p] # NotMember
        BY <2>2, WorkIsTyped, CommitIsSound DEF SetRole, Commits
      <3> QED
        BY <2>2, <3>1, MembersConstants DEF SetRole
    <2>3. CASE RemoveMember(q)
      BY <2>3 DEF RemoveMember
    <2> QED
      BY <2>1, <2>2, <2>3
  <1>5. /\ role' \in Members /\ role'[p] = next
        /\ \A o \in People \ {p} : role'[o] = role[o]
        /\ out' \subseteq People
    BY <1>2, <1>4 DEF TypeOK, Members
  <1> HIDE DEF p
  <1>6. \A o \in People : PendingOf(o)' = PendingOf(o)
    BY <1>2, SamePending
  <1>7. TypeOK'
    BY <1>2, <1>5, <1>6 DEF TypeOK, RequestsTyped
  <1>8. SeenIsSound'
    BY <1>2, SeenStays
  <1>9. SignInsAreSound'
    BY <1>2, <1>3, <1>5 DEF SignInsAreSound
  <1>10. ClaimsAreComplete'
    BY <1>2, ClaimsStay
  <1>11. OutIsOut'
    <2> SUFFICES ASSUME NEW o \in out' \ muddled'
                 PROVE  /\ role'[o] = NotMember
                        /\ claiming[o] = {}
                        /\ \A i \in PendingOf(o) : invitations[i].expired
      BY <1>2, <1>5, <1>6 DEF OutIsOut
    <2>1. CASE o = p
      <3>1. next = NotMember
        BY <1>2, <1>4, <2>1 DEF OutIsOut
      <3> QED
        BY <1>2, <1>3, <1>5, <2>1, <3>1 DEF ClaimsAreComplete
    <2>2. CASE o # p
      BY <1>2, <1>4, <1>5, <2>2 DEF OutIsOut
    <2> QED
      BY <2>1, <2>2
  <1> QED
    BY <1>7, <1>8, <1>9, <1>10, <1>11

LEMMA RevocationHolds ==
    ASSUME MembersInv, NEW q \in Requests, RevokeInvitation(q)
    PROVE  MembersInv'
  <1> USE DEF MembersInv
  <1>0. PICK p, i : p = work[q].job.subject /\ i = work[q].job.invitation
    OBVIOUS
  <1>1. /\ UNCHANGED <<role, accounts, signin, claiming>>
        /\ invitations' = [invitations EXCEPT ![i].revoked = TRUE]
        /\ out' = IF role[p] = NotMember THEN out \union {p} ELSE out
    BY <1>0 DEF RevokeInvitation, Commits
  <1>2. /\ RequestsTyped' /\ p \in People
        /\ \A r \in Requests : pc'[r] = "open" => pc[r] = "open" /\ work'[r] = work[r]
        /\ muddled' \subseteq People /\ muddled \subseteq muddled'
        /\ p \notin muddled' => signin[p] = "idle" /\ claiming[p] = {}
        /\ work[q].seen.pending = PendingOf(p)
    BY <1>0, CommitIsSound DEF RevokeInvitation
  <1>3. i \in PendingOf(p)
    BY <1>0, <1>2 DEF RevokeInvitation, Commits, Rejected
  <1>4. Withers /\ ~ Pending(i)'
    BY <1>1, <1>3, MarkWithers DEF PendingOf
  <1>5. /\ \A o \in People : PendingOf(o)' \subseteq PendingOf(o)
        /\ \A o \in People : \A j \in PendingOf(o)' : invitations[j].expired => invitations'[j].expired
    BY <1>4, FewerPending
  <1>6. PendingOf(p)' = {}
    <2>1. i \notin PendingOf(p)'
      BY <1>4 DEF PendingOf
    <2>2. \A j \in PendingOf(p) : j = i
      BY <1>2, <1>3 DEF TypeOK
    <2> QED
      BY <1>2, <1>5, <2>1, <2>2
  <1>7. TypeOK'
    BY <1>1, <1>2, <1>4, <1>5 DEF TypeOK, RequestsTyped, Withers
  <1>8. SeenIsSound'
    BY <1>1, <1>2, <1>4, SeenStays DEF Withers
  <1>9. SignInsAreSound'
    BY <1>1 DEF SignInsAreSound
  <1>10. ClaimsAreComplete'
    BY <1>1, <1>2, <1>4, ClaimsStay
  <1>11. OutIsOut'
    <2> SUFFICES ASSUME NEW o \in out' \ muddled'
                 PROVE  /\ role[o] = NotMember
                        /\ claiming[o] = {}
                        /\ \A j \in PendingOf(o)' : invitations'[j].expired
      BY <1>1 DEF OutIsOut
    <2>1. CASE o = p /\ role[p] = NotMember
      BY <1>2, <1>6, <2>1
    <2>2. CASE o \in out
      BY <1>2, <1>5, <2>2 DEF OutIsOut, TypeOK
    <2> QED
      BY <1>1, <2>1, <2>2
  <1> QED
    BY <1>7, <1>8, <1>9, <1>10, <1>11


LEMMA InvitationRow ==
    \A p \in People, r \in Roles : Invitation(p, r) \in InvitationRows /\ Invitation(p, r).email = p
  BY DEF Invitation, InvitationRows

LEMMA InvitationHolds ==
    ASSUME MembersInv, NEW q \in Requests, InviteAddress(q)
    PROVE  MembersInv'
  <1> USE DEF MembersInv
  <1>0. PICK p, r : p = work[q].job.subject /\ r = work[q].job.role
    OBVIOUS
  <1>1. /\ UNCHANGED <<role, accounts, signin, claiming>>
        /\ out' = out \ {p}
        /\ r \in Roles
        /\ ~ work[q].seen.account
    BY <1>0, WorkIsTyped DEF InviteAddress, Commits
  <1>2. /\ RequestsTyped' /\ p \in People
        /\ \A o \in Requests : pc'[o] = "open" => pc[o] = "open" /\ work'[o] = work[o]
        /\ muddled' \subseteq People /\ muddled \subseteq muddled'
        /\ p \notin muddled' => signin[p] = "idle" /\ claiming[p] = {}
        /\ work[q].seen.pending = PendingOf(p)
    BY <1>0, CommitIsSound DEF InviteAddress
  <1>3. p \notin accounts \ muddled'
    BY <1>0, <1>1, <1>2 DEF SeenIsSound, InviteAddress
  <1>4. PICK new : new = Invitation(p, r)
    OBVIOUS
  <1>5. new \in InvitationRows /\ new.email = p
    BY <1>1, <1>2, <1>4, InvitationRow
  <1>6. /\ invitations' \in Seq(InvitationRows) /\ Len(invitations') <= MaxInvitations
        /\ DOMAIN invitations \subseteq DOMAIN invitations'
        /\ \A i \in DOMAIN invitations' :
            \/ i \in DOMAIN invitations /\ i \notin PendingOf(p) /\ invitations'[i] = invitations[i]
            \/ /\ invitations'[i] = new
               /\ PendingOf(p) = {} => i = Len(invitations) + 1 /\ i \notin DOMAIN invitations
               /\ PendingOf(p) # {} => i \in PendingOf(p)
    <2>1. CASE PendingOf(p) = {}
      <3>1. invitations' = Append(invitations, new) /\ Len(invitations) < MaxInvitations
        BY <1>0, <1>2, <1>4, <2>1 DEF InviteAddress
      <3>2. invitations \in Seq(InvitationRows) /\ Len(invitations) \in Nat
        BY DEF TypeOK
      <3>3. /\ invitations' \in Seq(InvitationRows)
            /\ Len(invitations') = Len(invitations) + 1
            /\ \A i \in 1 .. Len(invitations) : invitations'[i] = invitations[i]
            /\ invitations'[Len(invitations) + 1] = new
        BY <1>5, <3>1, <3>2
      <3>4. /\ DOMAIN invitations = 1 .. Len(invitations)
            /\ DOMAIN invitations' = 1 .. (Len(invitations) + 1)
        BY <3>2, <3>3
      <3> QED
        BY <2>1, <3>1, <3>2, <3>3, <3>4, MembersConstants
    <2>2. CASE PendingOf(p) # {}
      <3>1. invitations' = [i \in DOMAIN invitations |->
                                IF i \in PendingOf(p) THEN new ELSE invitations[i]]
        BY <1>0, <1>2, <1>4, <2>2 DEF InviteAddress
      <3>2. /\ DOMAIN invitations' = DOMAIN invitations
            /\ \A i \in DOMAIN invitations :
                invitations'[i] = IF i \in PendingOf(p) THEN new ELSE invitations[i]
        BY <3>1
      <3>3. invitations' \in Seq(InvitationRows) /\ Len(invitations') = Len(invitations)
        <4>1. /\ DOMAIN invitations = 1 .. Len(invitations) /\ Len(invitations) \in Nat
              /\ \A i \in 1 .. Len(invitations) : invitations[i] \in InvitationRows
          BY DEF TypeOK
        <4>2. invitations' \in [1 .. Len(invitations) -> InvitationRows]
          BY <1>5, <3>1, <4>1
        <4> QED
          BY <4>1, <4>2
      <3> QED
        BY <2>2, <3>2, <3>3 DEF TypeOK
    <2> QED
      BY <2>1, <2>2
  <1>7. \A i \in DOMAIN invitations : invitations'[i].email = invitations[i].email
    BY <1>5, <1>6 DEF PendingOf
  <1>8. \A o \in People \ {p} : \A i \in PendingOf(o)' :
            i \in PendingOf(o) /\ invitations'[i] = invitations[i]
    BY <1>5, <1>6 DEF PendingOf, Pending
  <1>9. \A i, j \in PendingOf(p)' : i = j
    <2>1. ASSUME NEW i \in PendingOf(p)'
          PROVE  /\ PendingOf(p) = {} => i = Len(invitations) + 1
                 /\ PendingOf(p) # {} => i \in PendingOf(p)
      BY <1>6 DEF PendingOf, Pending
    <2>2. \A i, j \in PendingOf(p) : i = j
      BY <1>2 DEF TypeOK
    <2> QED
      BY <2>1, <2>2
  <1>10. TypeOK'
    <2>1. \A o \in People : \A i, j \in PendingOf(o)' : i = j
      BY <1>8, <1>9 DEF TypeOK
    <2>2. claiming' \in [People -> SUBSET [id : DOMAIN invitations', role : Roles]]
      BY <1>1, <1>6 DEF TypeOK
    <2> QED
      BY <1>1, <1>2, <1>6, <2>1, <2>2 DEF TypeOK, RequestsTyped
  <1>11. SeenIsSound'
    BY <1>1, <1>2, <1>6, <1>7, SeenStays
  <1>12. SignInsAreSound'
    BY <1>1 DEF SignInsAreSound
  <1>13. OutIsOut'
    BY <1>1, <1>2, <1>8 DEF OutIsOut, TypeOK
  <1>14. ClaimsAreComplete'
    BY <1>1, <1>2, <1>3, <1>8 DEF ClaimsAreComplete, TypeOK
  <1> QED
    BY <1>10, <1>11, <1>12, <1>13, <1>14

LEMMA ExpiryHolds ==
    ASSUME MembersInv, NEW i \in DOMAIN invitations, Expire(i)
    PROVE  MembersInv'
  <1> USE DEF MembersInv
  <1>1. UNCHANGED <<role, accounts, pc, work, signin, claiming, out, muddled>> /\ Withers
    BY ExpiryWithers DEF Expire
  <1>2. /\ \A o \in People : PendingOf(o)' \subseteq PendingOf(o)
        /\ \A o \in People : \A j \in PendingOf(o)' : invitations[j].expired => invitations'[j].expired
    BY <1>1, FewerPending
  <1>3. TypeOK'
    BY <1>1, <1>2 DEF TypeOK, Withers
  <1>4. SeenIsSound'
    BY <1>1, SeenStays DEF Withers
  <1>5. SignInsAreSound' /\ OutIsOut'
    BY <1>1, <1>2 DEF SignInsAreSound, OutIsOut, TypeOK
  <1>6. ClaimsAreComplete'
    BY <1>1, ClaimsStay
  <1> QED
    BY <1>3, <1>4, <1>5, <1>6


-----------------------------------------------------------------------------
LEMMA SignInHolds ==
    ASSUME MembersInv, NEW p \in People, SignIn(p)
    PROVE  MembersInv'
  <1> USE DEF MembersInv
  <1>1. /\ UNCHANGED <<role, invitations, pc, work, claiming, out>>
        /\ accounts' = accounts \union {p}
        /\ signin' = [signin EXCEPT ![p] = "session"]
        /\ signin[p] = "idle"
        /\ muddled \subseteq muddled' /\ muddled' \subseteq People
        /\ \A q \in Requests : pc[q] = "open" /\ work[q].job.subject = p => p \in muddled'
    BY DEF SignIn, TypeOK
  <1>2. signin'[p] = "session" /\ \A o \in People \ {p} : signin'[o] = signin[o]
    BY <1>1 DEF TypeOK
  <1>3. \A o \in People : PendingOf(o)' = PendingOf(o)
    BY <1>1, SamePending
  <1>4. TypeOK'
    BY <1>1, <1>3 DEF TypeOK
  <1>5. SeenIsSound'
    BY <1>1 DEF SeenIsSound
  <1>6. SignInsAreSound'
    BY <1>1, <1>2 DEF SignInsAreSound
  <1>7. OutIsOut'
    BY <1>1, <1>3 DEF OutIsOut, TypeOK
  <1>8. ClaimsAreComplete'
    BY <1>1, <1>2, <1>3 DEF ClaimsAreComplete, TypeOK
  <1> QED
    BY <1>4, <1>5, <1>6, <1>7, <1>8

LEMMA ReadHolds ==
    ASSUME MembersInv, NEW p \in People, ReadInvitations(p)
    PROVE  MembersInv'
  <1> USE DEF MembersInv
  <1> DEFINE claims == {[id |-> i, role |-> invitations[i].role] : i \in Claimable(p)}
  <1>1. /\ UNCHANGED <<role, accounts, invitations, pc, work, out, muddled>>
        /\ claiming' = [claiming EXCEPT ![p] = claims]
        /\ signin' = [signin EXCEPT ![p] = "claiming"]
        /\ signin[p] = "session"
    BY DEF ReadInvitations
  <1>2. claims \in SUBSET [id : DOMAIN invitations, role : Roles]
    <2>1. \A i \in DOMAIN invitations : invitations[i].role \in Roles
      <3>1. \A i \in DOMAIN invitations : invitations[i] \in InvitationRows
        BY DEF TypeOK
      <3> QED
        BY <3>1 DEF InvitationRows
    <2> QED
      BY <2>1 DEF Claimable, PendingOf
  <1>3. ASSUME NEW i \in PendingOf(p), ~ invitations[i].expired
        PROVE  \E c \in claims : c.id = i
    <2>1. [id |-> i, role |-> invitations[i].role] \in claims
      BY <1>3 DEF Claimable
    <2> QED
      BY <2>1
  <1>4. p \in out \ muddled => claims = {}
    BY DEF Claimable, OutIsOut
  <1> HIDE DEF claims
  <1>5. /\ signin'[p] = "claiming" /\ claiming'[p] = claims
        /\ \A o \in People \ {p} : signin'[o] = signin[o] /\ claiming'[o] = claiming[o]
    BY <1>1 DEF TypeOK
  <1>6. \A o \in People : PendingOf(o)' = PendingOf(o)
    BY <1>1, SamePending
  <1>7. TypeOK'
    BY <1>1, <1>2, <1>6 DEF TypeOK
  <1>8. SeenIsSound'
    BY <1>1 DEF SeenIsSound
  <1>9. SignInsAreSound'
    BY <1>1, <1>5 DEF SignInsAreSound
  <1>10. OutIsOut'
    BY <1>1, <1>4, <1>5, <1>6 DEF OutIsOut, TypeOK
  <1>11. ClaimsAreComplete'
    BY <1>1, <1>3, <1>5, <1>6 DEF ClaimsAreComplete, TypeOK
  <1> QED
    BY <1>7, <1>8, <1>9, <1>10, <1>11

LEMMA JoinHolds ==
    ASSUME MembersInv, NEW p \in People, Join(p)
    PROVE  MembersInv'
  <1> USE DEF MembersInv
  <1>1. PICK c \in claiming[p] : role' = [role EXCEPT ![p] = IF @ = NotMember THEN c.role ELSE @]
    BY DEF Join
  <1>2. c.role \in Roles
    BY DEF TypeOK
  <1>3. /\ UNCHANGED <<accounts, invitations, pc, work, claiming, out, muddled>>
        /\ signin' = [signin EXCEPT ![p] = "joined"]
        /\ signin[p] = "claiming"
    BY DEF Join
  <1>4. /\ role' \in Members
        /\ \A o \in People \ {p} : role'[o] = role[o] /\ signin'[o] = signin[o]
        /\ signin'[p] = "joined"
    BY <1>1, <1>2, <1>3 DEF TypeOK, Members
  <1>5. \A o \in People : PendingOf(o)' = PendingOf(o)
    BY <1>3, SamePending
  <1>6. TypeOK'
    BY <1>3, <1>4, <1>5 DEF TypeOK
  <1>7. SeenIsSound'
    BY <1>3 DEF SeenIsSound
  <1>8. SignInsAreSound'
    BY <1>3, <1>4 DEF SignInsAreSound
  <1>9. OutIsOut'
    BY <1>1, <1>3, <1>4, <1>5 DEF OutIsOut, TypeOK
  <1>10. ClaimsAreComplete'
    BY <1>3, <1>4, <1>5 DEF ClaimsAreComplete, TypeOK
  <1> QED
    BY <1>6, <1>7, <1>8, <1>9, <1>10

LEMMA AcceptHolds ==
    ASSUME MembersInv, NEW p \in People, Accept(p)
    PROVE  MembersInv'
  <1> USE DEF MembersInv
  <1>1. PICK c \in claiming[p] :
            /\ invitations' = [invitations EXCEPT ![c.id].accepted = TRUE]
            /\ claiming' = [claiming EXCEPT ![p] = @ \ {c}]
    BY DEF Accept, Accepted
  <1>2. c.id \in DOMAIN invitations
    BY DEF TypeOK
  <1>3. Withers /\ ~ Pending(c.id)'
    BY <1>1, <1>2, MarkWithers
  <1>4. /\ UNCHANGED <<role, accounts, pc, work, out, muddled>>
        /\ signin' = [signin EXCEPT ![p] = "claiming"]
        /\ signin[p] = "joined"
    BY DEF Accept
  <1>5. /\ signin'[p] = "claiming" /\ claiming'[p] = claiming[p] \ {c}
        /\ \A o \in People \ {p} : signin'[o] = signin[o] /\ claiming'[o] = claiming[o]
        /\ claiming' \in [People -> SUBSET [id : DOMAIN invitations, role : Roles]]
    BY <1>1, <1>4 DEF TypeOK
  <1>6. /\ \A o \in People : PendingOf(o)' \subseteq PendingOf(o)
        /\ \A o \in People : \A j \in PendingOf(o)' : invitations[j].expired => invitations'[j].expired
    BY <1>3, FewerPending
  <1>7. c.id \notin PendingOf(p)'
    BY <1>3 DEF PendingOf
  <1>8. TypeOK'
    <2>1. /\ invitations' \in Seq(InvitationRows) /\ Len(invitations') <= MaxInvitations
          /\ claiming' \in [People -> SUBSET [id : DOMAIN invitations', role : Roles]]
      BY <1>3, <1>5 DEF TypeOK, Withers
    <2>2. signin' \in [People -> {"idle", "session", "claiming", "joined"}]
      BY <1>4 DEF TypeOK
    <2>3. \A o \in People : \A i, j \in PendingOf(o)' : i = j
      BY <1>6 DEF TypeOK
    <2> QED
      BY <1>4, <2>1, <2>2, <2>3 DEF TypeOK
  <1>9. SeenIsSound'
    BY <1>3, <1>4, SeenStays DEF Withers
  <1>10. SignInsAreSound'
    BY <1>4, <1>5 DEF SignInsAreSound
  <1>11. OutIsOut'
    BY <1>4, <1>5, <1>6 DEF OutIsOut, TypeOK
  <1>12. ClaimsAreComplete'
    <2> SUFFICES ASSUME NEW o \in accounts \ muddled, NEW j \in PendingOf(o)'
                 PROVE  /\ signin'[o] = "idle" => invitations'[j].expired
                        /\ signin'[o] \in {"claiming", "joined"} =>
                            invitations'[j].expired \/ \E d \in claiming'[o] : d.id = j
      BY <1>4 DEF ClaimsAreComplete
    <2>1. CASE o = p
      BY <1>4, <1>5, <1>6, <1>7, <2>1 DEF ClaimsAreComplete
    <2>2. CASE o # p
      BY <1>5, <1>6, <2>2 DEF ClaimsAreComplete, TypeOK
    <2> QED
      BY <2>1, <2>2
  <1> QED
    BY <1>8, <1>9, <1>10, <1>11, <1>12

\* A sign-in ends, with everything claimed or cut short.
LEMMA SignInEnds ==
    ASSUME MembersInv, NEW p \in People, SignedIn(p) \/ SignInFails(p)
    PROVE  MembersInv'
  <1> USE DEF MembersInv
  <1>1. /\ UNCHANGED <<role, accounts, invitations, pc, work, out>>
        /\ muddled \subseteq muddled' /\ muddled' \subseteq People
        /\ p \notin muddled' => signin[p] = "claiming" /\ claiming[p] = {}
    <2>1. CASE SignedIn(p)
      BY <2>1 DEF SignedIn, TypeOK
    <2>2. CASE SignInFails(p)
      BY <2>2 DEF SignInFails, TypeOK
    <2> QED
      BY <2>1, <2>2
  <1>2. /\ signin'[p] = "idle" /\ claiming'[p] = {}
        /\ \A o \in People \ {p} : signin'[o] = signin[o] /\ claiming'[o] = claiming[o]
        /\ signin' \in [People -> {"idle", "session", "claiming", "joined"}]
        /\ claiming' \in [People -> SUBSET [id : DOMAIN invitations, role : Roles]]
    BY DEF SignedIn, SignInFails, TypeOK
  <1>3. \A o \in People : PendingOf(o)' = PendingOf(o)
    BY <1>1, SamePending
  <1>4. TypeOK'
    BY <1>1, <1>2, <1>3 DEF TypeOK
  <1>5. SeenIsSound'
    BY <1>1 DEF SeenIsSound
  <1>6. SignInsAreSound'
    BY <1>1, <1>2 DEF SignInsAreSound
  <1>7. OutIsOut'
    BY <1>1, <1>2, <1>3 DEF OutIsOut, TypeOK
  <1>8. ClaimsAreComplete'
    BY <1>1, <1>2, <1>3 DEF ClaimsAreComplete, TypeOK
  <1> QED
    BY <1>4, <1>5, <1>6, <1>7, <1>8

LEMMA NextHolds == MembersInv /\ [Next]_vars => MembersInv'
  <1> SUFFICES ASSUME MembersInv, [Next]_vars PROVE MembersInv'
    OBVIOUS
  <1>1. CASE UNCHANGED vars
    BY <1>1 DEF vars, MembersInv, TypeOK, SeenIsSound, SignInsAreSound, OutIsOut,
       ClaimsAreComplete, PendingOf, Pending
  <1>2. CASE Next
    BY <1>2, AuthorizeHolds, OpenHolds, RoleChangeHolds, InvitationHolds, RevocationHolds,
       ExpiryHolds, SignInHolds, ReadHolds, JoinHolds, AcceptHolds, SignInEnds DEF Next
  <1> QED
    BY <1>1, <1>2

LEMMA InvIsInvariant == Spec => []MembersInv
  BY InitHolds, NextHolds, PTL DEF Spec

\* The tables of members and invitations keep their types and the partial index of
\* invitations that wait (entity_invitations_pending), whatever overlaps.
THEOREM TypeCorrect == Spec => []TypeOK
  <1>1. MembersInv => TypeOK
    BY DEF MembersInv
  <1> QED
    BY <1>1, InvIsInvariant, PTL

\* Who was put out stays out (handleRemoveMember, claimInvitations), as long as no
\* sign-in of theirs is cut short or runs into a request about them.
THEOREM PutOutStaysOut == Spec => []AccessTakenAwayStaysAway
  <1>1. MembersInv => AccessTakenAwayStaysAway
    BY DEF MembersInv, OutIsOut, AccessTakenAwayStaysAway
  <1> QED
    BY <1>1, InvIsInvariant, PTL

\* A sign-in that ran undisturbed honoured every invitation that counts
\* (claimInvitations), whatever was sent and withdrawn before.
THEOREM ClaimIsComplete == Spec => []NothingLeftUnclaimed
  <1>1. MembersInv => NothingLeftUnclaimed
    BY DEF MembersInv, ClaimsAreComplete, NothingLeftUnclaimed
  <1> QED
    BY <1>1, InvIsInvariant, PTL

\* No step but an invitation of the owner's own address takes the last owner away
\* (wouldOrphanEntity, asked in a serializable transaction).
THEOREM LastOwnerStays == Spec => LastOwnerIsOnlyReinvited
  <1> DEFINE A == Owners(role) # {} /\ Owners(role') = {}
                    => \E q \in Requests :
                        pc[q] = "open" /\ pc'[q] = "done" /\ work[q].job.op = "invite"
  <1>1. ASSUME MembersInv, [Next]_vars PROVE [A]_vars
    <2> SUFFICES ASSUME MembersInv, [Next]_vars,
                        NEW p \in People, role[p] = Owner, Owners(role') = {}
                 PROVE  \E q \in Requests :
                            pc[q] = "open" /\ pc'[q] = "done" /\ work[q].job.op = "invite"
      BY <1>1 DEF Owners
    <2> USE DEF MembersInv
    <2>1. \A o \in People : role'[o] # Owner
      BY DEF Owners
    <2>2. role' # role
      BY <2>1
    <2>3. ASSUME NEW q \in Requests, InviteAccount(q)
          PROVE  pc[q] = "open" /\ pc'[q] = "done" /\ work[q].job.op = "invite"
      BY <2>3, EndIsTyped DEF InviteAccount, Commits
    <2>4. ASSUME NEW q \in Requests, SetRole(q) \/ RemoveMember(q) PROVE FALSE
      <3>1. PICK op \in {"setRole", "remove"} : Commits(q, op)
        BY <2>4 DEF SetRole, RemoveMember
      <3>2. PICK o, next : /\ o = work[q].job.subject
                           /\ role' = [role EXCEPT ![o] = next]
                           /\ ~ WouldOrphan(work[q].seen.members, o, next)
        <4>1. CASE SetRole(q)
          BY <4>1 DEF SetRole, Commits, Rejected
        <4>2. CASE RemoveMember(q)
          BY <4>2 DEF RemoveMember, Commits, Rejected
        <4> QED
          BY <2>4, <4>1, <4>2
      <3>3. o \in People /\ work[q].seen.members = role
        BY <3>1, <3>2, CommitIsSound
      <3>4. role \in [People -> Roles \union {NotMember}]
        BY DEF TypeOK, Members
      <3>5. next # Owner /\ Owners(role) = {o}
        BY <2>1, <3>2, <3>3, <3>4 DEF Owners
      <3> QED
        BY <3>2, <3>3, <3>5 DEF WouldOrphan
    <2>5. ASSUME NEW o \in People, Join(o) PROVE FALSE
      BY <2>1, <2>5, MembersConstants DEF Join, TypeOK, Members
    <2>6. Next
      BY <2>2 DEF vars
    <2> QED
      BY <2>2, <2>3, <2>4, <2>5, <2>6 DEF Next, Authorize, Open, Reject, InviteAddress,
         RevokeInvitation, Expire, SignIn, ReadInvitations, Accept, SignedIn, SignInFails
  <1> QED
    BY <1>1, InvIsInvariant, PTL DEF Spec, LastOwnerIsOnlyReinvited

=============================================================================
