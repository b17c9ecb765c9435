----------------------------- MODULE Invitations -----------------------------
(***************************************************************************)
(* The invitations of one e-mail address to one tenant: invite, accept,    *)
(* attach directly, purge and expiry, by units of work that overlap at     *)
(* READ COMMITTED.  The token is mailed inside the unit of work that       *)
(* stores its hash.  What keeps two units of work apart are row locks and  *)
(* the unique indexes on the pending invitation and on the membership.     *)
(***************************************************************************)
EXTENDS Integers, FiniteSets

CONSTANTS
    Invitation,     \* ids, each with the raw token of its mail
    Nobody,         \* no id
    Role,           \* roles of the tenant that may be assigned
    Unit,           \* units of work that run at the same time
    TTL,            \* INVITATION_TTL_MS, in ticks
    MaxNow,         \* bound: the last tick
    MaxFaults       \* bound: units of work that fail

IdAssumption == Nobody \notin Invitation
TimeAssumption == TTL \in Nat \ {0} /\ MaxNow \in Nat /\ MaxFaults \in Nat

VARIABLES
    invitation,     \* [Invitation -> [status, expiresAt, roles]], committed
    member,         \* role ids of the membership, {} without one
    roles,          \* roles that exist
    unit,           \* [Unit -> [pc, op, id, roles, at, old]]
    now, faults,
    mails,          \* tokens that were mailed
    issued,         \* history: invitations that were committed
    joins,          \* history: committed acceptances
    late,           \* history: one of an invitation ended or expired before
    overlapped      \* history: two units of work (a purge and a
                    \* deletion of a role are such) were open at once

history == <<issued, joins, late, overlapped>>
vars == <<invitation, member, roles, unit, now, faults, mails, history>>

NoRow == [status |-> "none", expiresAt |-> 0, roles |-> {}]
Idle == [pc |-> "idle", op |-> "invite", id |-> Nobody, roles |-> {}, at |-> 0, old |-> Nobody]
Pending(i) == invitation[i].status = "pending"

TypeOK ==
    /\ invitation \in [Invitation -> [status : {"none", "pending", "consumed"},
                                      expiresAt : 0..MaxNow + TTL, roles : SUBSET Role]]
    /\ \A i \in Invitation : Pending(i) => invitation[i].roles # {}
    /\ member \in SUBSET Role /\ roles \in SUBSET Role
    /\ unit \in [Unit -> [pc : {"idle", "begin", "find", "save", "mail", "consume", "commit"},
                          op : {"invite", "accept", "attach"}, id : Invitation \union {Nobody},
                          roles : SUBSET Role, at : 0..MaxNow, old : Invitation \union {Nobody}]]
    /\ now \in 0..MaxNow /\ faults \in 0..MaxFaults
    /\ mails \subseteq Invitation /\ issued \subseteq Invitation
    /\ joins \in Nat /\ late \in BOOLEAN /\ overlapped \in BOOLEAN

Init ==
    /\ invitation = [i \in Invitation |-> NoRow]
    /\ member = {} /\ roles = Role
    /\ unit = [p \in Unit |-> Idle]
    /\ now = 0 /\ faults = MaxFaults
    /\ mails = {} /\ issued = {} /\ joins = 0
    /\ late = FALSE /\ overlapped = FALSE

Busy == \E q \in Unit : unit[q].pc # "idle"
Reject(p) == unit' = [unit EXCEPT ![p] = Idle]
Goto(p, pc) == unit' = [unit EXCEPT ![p].pc = pc]

Start(p, c) ==
    /\ unit[p].pc = "idle"
    /\ unit' = [unit EXCEPT ![p] = c]
    /\ overlapped' = (overlapped \/ Busy)
    /\ UNCHANGED <<invitation, member, roles, now, faults, mails, issued, joins, late>>

\* OwnerRole.assertAssignable, then the membership of the address.
Check(p) ==
    /\ unit[p].pc = "begin"
    /\ IF unit[p].roles \subseteq roles /\ member = {}
       THEN Goto(p, IF unit[p].op = "invite" THEN "find" ELSE "save")
       ELSE Reject(p)
    /\ UNCHANGED <<invitation, member, roles, now, faults, mails, history>>

-----------------------------------------------------------------------------
(* InviteMember                                                             *)

Unused == {i \in Invitation \ issued : i \notin mails /\ \A q \in Unit : unit[q].id # i}
Invite(p) ==
    \E i \in Unused, rs \in (SUBSET Role) \ {{}} :
        Start(p, [Idle EXCEPT !.pc = "begin", !.id = i, !.roles = rs, !.at = now])

IsActiveForever(i, at) == Pending(i)
IsActive(i, at) == Pending(i) /\ invitation[i].expiresAt > at

\* InvitationAlreadyPendingError, or the expired one is to be superseded.
FindPending(p) ==
    LET c == unit[p]
        pending == {i \in Invitation : Pending(i)} IN
    /\ c.pc = "find" /\ c.op = "invite"
    /\ IF \E i \in pending : IsActive(i, c.at) THEN Reject(p)
       ELSE unit' = [unit EXCEPT ![p].pc = "save",
                                 ![p].old = IF pending = {} THEN Nobody
                                            ELSE CHOOSE i \in pending : TRUE]
    /\ UNCHANGED <<invitation, member, roles, now, faults, mails, history>>

\* Invitation rows a unit of work has written and not yet committed.
Holds(q) == CASE unit[q].op = "invite" /\ unit[q].pc \in {"mail", "commit"} -> {unit[q].id, unit[q].old}
              [] unit[q].op = "accept" /\ unit[q].pc = "commit" -> {unit[q].id}
              [] OTHER -> {}

\* The unique index on (tenant, email) WHERE consumed_at IS NULL.
OnlyPending(p) == \A i \in Invitation : Pending(i) => i = unit[p].old

\* The old row is marked consumed and the new one inserted; another unit of
\* work's uncommitted row of the address makes this one wait.
SaveInvitation(p) ==
    /\ unit[p].pc = "save" /\ unit[p].op = "invite"
    /\ \A q \in Unit \ {p} : Holds(q) = {}
    /\ IF OnlyPending(p) THEN Goto(p, "mail") ELSE Reject(p)
    /\ UNCHANGED <<invitation, member, roles, now, faults, mails, history>>

Mail(p) ==
    /\ unit[p].pc = "mail"
    /\ mails' = mails \union {unit[p].id}
    /\ Goto(p, "commit")
    /\ UNCHANGED <<invitation, member, roles, now, faults, history>>

\* The other columns of a consumed row are not read again.
Consumed(row) == [row EXCEPT !.status = "consumed"]

CommitInvite(p) ==
    LET c == unit[p] IN
    /\ c.pc = "commit" /\ c.op = "invite"
    /\ invitation' = [i \in Invitation |->
          IF i = c.id THEN [status |-> "pending", expiresAt |-> c.at + TTL, roles |-> c.roles]
          ELSE IF i = c.old THEN Consumed(invitation[i]) ELSE invitation[i]]
    /\ issued' = issued \union {c.id}
    /\ Reject(p)
    /\ UNCHANGED <<member, roles, now, faults, mails, joins, late, overlapped>>

-----------------------------------------------------------------------------
(* AcceptInvitation and AttachMember                                        *)

\* The holder of a mailed token presents it.
Accept(p) ==
    \E i \in mails : Start(p, [Idle EXCEPT !.pc = "find", !.op = "accept", !.id = i, !.at = now])

\* findByTokenHash, the user and a membership; the roles are the ones of the
\* invitation, not looked up.  A new user without name or password is refused,
\* which changes nothing.
FindByToken(p) ==
    LET c == unit[p] IN
    /\ c.pc = "find" /\ c.op = "accept"
    /\ IF IsActive(c.id, c.at) /\ member = {}
       THEN unit' = [unit EXCEPT ![p].pc = "save", ![p].roles = invitation[c.id].roles]
       ELSE Reject(p)
    /\ UNCHANGED <<invitation, member, roles, now, faults, mails, history>>

\* AttachMember adds the address's user without an invitation.
Attach(p) ==
    \E rs \in (SUBSET Role) \ {{}} :
        Start(p, [Idle EXCEPT !.pc = "begin", !.op = "attach", !.roles = rs, !.at = now])

Joining(q) == unit[q].op # "invite" /\ unit[q].pc \in {"consume", "commit"}

\* The user, if there is none, and the membership are inserted: both have a
\* unique index, so another unit of work's uncommitted insert is waited for.
OnlyMember == member = {}

SaveMembership(p) ==
    /\ unit[p].pc = "save" /\ unit[p].op # "invite"
    /\ \A q \in Unit \ {p} : ~Joining(q)
    /\ IF OnlyMember THEN Goto(p, IF unit[p].op = "accept" THEN "consume" ELSE "commit")
       ELSE Reject(p)
    /\ UNCHANGED <<invitation, member, roles, now, faults, mails, history>>

\* The invitation is locked and saved as consumed, whatever it is by now: a
\* row that was superseded stays consumed, one that was purged is inserted.
Consume(p) ==
    /\ unit[p].pc = "consume"
    /\ \A q \in Unit \ {p} : unit[p].id \notin Holds(q)
    /\ Goto(p, "commit")
    /\ UNCHANGED <<invitation, member, roles, now, faults, mails, history>>

CommitMember(p) ==
    LET c == unit[p] IN
    /\ c.pc = "commit" /\ c.op # "invite"
    /\ member' = c.roles
    /\ invitation' = [i \in Invitation |->
          IF i = c.id THEN Consumed(invitation[i]) ELSE invitation[i]]
    /\ joins' = joins + (IF c.op = "accept" THEN 1 ELSE 0)
    /\ late' = (late \/ (c.op = "accept" /\ ~(Pending(c.id) /\ c.at < invitation[c.id].expiresAt)))
    /\ Reject(p)
    /\ UNCHANGED <<roles, now, faults, mails, issued, overlapped>>

-----------------------------------------------------------------------------
(* The environment                                                          *)

Fails(p) ==
    /\ unit[p].pc # "idle" /\ faults > 0
    /\ faults' = faults - 1
    /\ Reject(p)
    /\ UNCHANGED <<invitation, member, roles, now, mails, history>>

Stale(i) == invitation[i].status = "consumed" \/ (Pending(i) /\ invitation[i].expiresAt < now)

\* PurgeStaleInvitations: one statement, which waits for rows that are locked.
Purge ==
    LET stale == {i \in Invitation : Stale(i)} IN
    /\ stale # {} /\ \A q \in Unit : Holds(q) \cap stale = {}
    /\ invitation' = [i \in Invitation |-> IF i \in stale THEN NoRow ELSE invitation[i]]
    /\ overlapped' = (overlapped \/ Busy)
    /\ UNCHANGED <<member, roles, unit, now, faults, mails, issued, joins, late>>

\* DeleteCustomRole: no membership holds the role.
DeleteRole ==
    /\ \E r \in roles \ member : roles' = roles \ {r}
    /\ overlapped' = (overlapped \/ Busy)
    /\ UNCHANGED <<invitation, member, unit, now, faults, mails, issued, joins, late>>

Tick ==
    /\ now < MaxNow
    /\ now' = now + 1
    /\ UNCHANGED <<invitation, member, roles, unit, faults, mails, history>>

Next ==
    \/ \E p \in Unit :
          \/ Invite(p) \/ Check(p) \/ FindPending(p) \/ SaveInvitation(p) \/ Mail(p) \/ CommitInvite(p)
          \/ Accept(p) \/ FindByToken(p) \/ Attach(p) \/ SaveMembership(p) \/ Consume(p)
          \/ CommitMember(p) \/ Fails(p)
    \/ Purge \/ DeleteRole \/ Tick

Spec == Init /\ [][Next]_vars

-----------------------------------------------------------------------------
(* Properties.                                                              *)

\* However invites overlap, the address has one pending invitation.
OnePending == Cardinality({i \in Invitation : Pending(i)}) <= 1

\* However often and at whatever moment the tokens are presented, the address
\* joins the tenant once.
JoinsOnce == joins <= 1

\* A token that has expired, was superseded, consumed or purged lets nobody in,
\* unless its acceptance overlapped the unit of work that ended it.
LateNeedsOverlap == late => overlapped

InFlight == {unit[q].id : q \in {r \in Unit : unit[r].op = "invite" /\ unit[r].pc = "commit"}}

\* Mail leaves before COMMIT, but after everything that can refuse the
\* invitation: a mailed token that never existed needs a failure.
DeadMailNeedsFault == mails \subseteq issued \union InFlight \/ faults < MaxFaults

\* "Deletes an unused custom role": nobody joins with a role that is gone, not
\* even when units of work run one after the other.
JoinedRolesExist == ~overlapped => member \subseteq roles
=============================================================================
