--------------------------- MODULE RefreshSessions ---------------------------
(***************************************************************************)
(* The refresh tokens of one user: login, rotation with reuse detection,   *)
(* logout, change of the password and the purge, each in one transaction   *)
(* over refresh_sessions at READ COMMITTED.  Statements of one transaction *)
(* see what others committed before them and wait for their row locks;     *)
(* its writes become visible when it commits.                              *)
(***************************************************************************)
EXTENDS Integers, FiniteSets

CONSTANTS
    Proc,           \* requests served at a time
    MaxToken,       \* bound: tokens issued
    MaxChanges,     \* bound: password changes
    BatchSize,      \* PURGE_BATCH_SIZE
    MaxFaults       \* bound: failed transactions and lost responses

ASSUME BoundAssumption ==
    /\ MaxToken \in Nat /\ MaxChanges \in Nat /\ MaxFaults \in Nat
    /\ BatchSize \in Nat \ {0}

ASSUME ProcAssumption == IsFiniteSet(Proc)

\* Tokens in the order of their issue, which is the order of their expiry.
Token == 1..MaxToken
NoToken == 0

VARIABLES
    row,        \* [Token -> state of the committed row of refresh_sessions]
    issued,     \* number of tokens issued
    parent,     \* [Token -> the token it was rotated from]
    family,     \* [Token -> first token of its family]
    expired,    \* tokens past their expiresAt
    known,      \* tokens some client received
    password,   \* version of the committed password hash
    loginWith,  \* [Token -> version the family's login verified]
    op,         \* [Proc -> the transaction in progress]
    faults,     \* faults still to come
    ended,      \* history: families revoked by a logout or a detected reuse
    reused,     \* history: families a rotated token was presented for again
    survivors   \* history: tokens that overlapped the end of their family

rows == <<row, issued, parent, family, known, loginWith>>
history == <<ended, reused, survivors>>
vars == <<rows, expired, password, op, faults, history>>

\* late: the family was ended while this transaction was open.
\* upto: the tokens issued when its UPDATE of the sessions started.
NoOp == [pc |-> "idle", kind |-> "none", token |-> NoToken, verified |-> 0,
         reinsert |-> FALSE, upto |-> 0, seen |-> {}, revokes |-> {}, late |-> FALSE]

Operation ==
    [pc : {"idle", "saving", "writing", "changing", "revoking", "updating", "committing"},
     kind : {"none", "login", "rotate", "reuse", "logout", "change"},
     token : Token \union {NoToken},
     verified : 0..MaxChanges,
     reinsert : BOOLEAN,
     upto : 0..MaxToken,
     seen : SUBSET Token,
     revokes : SUBSET Token,
     late : BOOLEAN]

TypeOK ==
    /\ row \in [Token -> {"none", "active", "revoked"}]
    /\ issued \in 0..MaxToken
    /\ parent \in [Token -> Token \union {NoToken}]
    /\ family \in [Token -> Token \union {NoToken}]
    /\ expired \subseteq Token
    /\ known \subseteq Token
    /\ password \in 0..MaxChanges
    /\ loginWith \in [Token -> 0..MaxChanges]
    /\ op \in [Proc -> Operation]
    /\ faults \in 0..MaxFaults
    /\ ended \subseteq Token /\ reused \subseteq Token /\ survivors \subseteq Token

Init ==
    /\ row = [t \in Token |-> "none"]
    /\ issued = 0
    /\ parent = [t \in Token |-> NoToken]
    /\ family = [t \in Token |-> NoToken]
    /\ expired = {}
    /\ known = {}
    /\ password = 0
    /\ loginWith = [t \in Token |-> 0]
    /\ op = [p \in Proc |-> NoOp]
    /\ faults = MaxFaults
    /\ ended = {} /\ reused = {} /\ survivors = {}

Fault == faults > 0 /\ faults' = faults - 1

Begin(p, o) == op[p].pc = "idle" /\ op' = [op EXCEPT ![p] = o]
Step(p, from, to) == op[p].pc = from /\ op' = [op EXCEPT ![p].pc = to]
End(p) == op' = [op EXCEPT ![p] = NoOp]

\* What keeps the number of tokens within MaxToken.
Issuing == {p \in Proc : op[p].kind \in {"login", "rotate"}}
Room == issued + Cardinality(Issuing) < MaxToken

\* Rows an uncommitted UPDATE or INSERT of another transaction has locked.
LockedFor(p) == UNION {op[q].revokes : q \in Proc \ {p}}

-----------------------------------------------------------------------------
\* The password is verified; the INSERT is invisible until the commit.
LoginReads(p) ==
    /\ Room
    /\ Begin(p, [NoOp EXCEPT !.pc = "committing", !.kind = "login", !.verified = password])
    /\ UNCHANGED <<rows, expired, password, faults, history>>

\* findByTokenHash finds an active session.
RotateReads(p, t) ==
    /\ row[t] = "active" /\ t \notin expired
    /\ Room
    /\ Begin(p, [NoOp EXCEPT !.pc = "saving", !.kind = "rotate", !.token = t])
    /\ UNCHANGED <<rows, expired, password, faults, history>>

RotateReadsRevoked(p, t) ==
    /\ row[t] = "revoked"
    /\ Begin(p, [NoOp EXCEPT !.pc = "revoking", !.kind = "reuse", !.token = t])
    /\ UNCHANGED <<rows, expired, password, faults, history>>

\* InvalidRefreshTokenError: no such row.  A token that was rotated and then
\* purged is no longer known for a reused one.
RotateRefuses(p, t) ==
    /\ op[p].pc = "idle"
    /\ row[t] = "none"
    /\ reused' = reused \union {family[s] : s \in {u \in 1..issued : parent[u] = t}}
    /\ UNCHANGED <<rows, expired, password, op, faults, ended, survivors>>

\* save() looks the row up again: UPDATE if it is there, INSERT if not.
SaveReloads(p) ==
    /\ op[p].pc = "saving"
    /\ op' = [op EXCEPT ![p].pc = "writing", ![p].reinsert = row[op[p].token] = "none"]
    /\ UNCHANGED <<rows, expired, password, faults, history>>

\* The UPDATE waits for the row's lock and matches nothing if it was purged.
SaveForgetsRevoke(p) ==
    /\ op[p].token \notin LockedFor(p)
    /\ Step(p, "writing", "committing")
    /\ UNCHANGED <<rows, expired, password, faults, history>>

SaveWrites(p) ==
    LET t == op[p].token IN
    /\ op[p].pc = "writing"
    /\ t \notin LockedFor(p)
    /\ ~ (op[p].reinsert /\ row[t] # "none")
    /\ op' = [op EXCEPT ![p].pc = "committing",
                        ![p].revokes = IF op[p].reinsert \/ row[t] # "none" THEN {t} ELSE {}]
    /\ UNCHANGED <<rows, expired, password, faults, history>>

\* Two rotations insert a purged row again: the second violates its key.
SaveConflicts(p) ==
    /\ op[p].pc = "writing"
    /\ op[p].token \notin LockedFor(p)
    /\ op[p].reinsert /\ row[op[p].token] # "none"
    /\ End(p)
    /\ UNCHANGED <<rows, expired, password, faults, history>>

LogoutReads(p, t) ==
    /\ row[t] # "none"
    /\ Begin(p, [NoOp EXCEPT !.pc = "revoking", !.kind = "logout", !.token = t])
    /\ UNCHANGED <<rows, expired, password, faults, history>>

ChangeReads(p) ==
    /\ password + Cardinality({q \in Proc : op[q].kind = "change"}) < MaxChanges
    /\ Begin(p, [NoOp EXCEPT !.pc = "changing", !.kind = "change", !.verified = password])
    /\ UNCHANGED <<rows, expired, password, faults, history>>

\* save(credential) waits for another change to end, and then overwrites it.
ChangeWrites(p) ==
    /\ \A q \in Proc : op[q].kind = "change" => op[q].pc = "changing"
    /\ Step(p, "changing", "revoking")
    /\ UNCHANGED <<rows, expired, password, faults, history>>

-----------------------------------------------------------------------------
\* Whose sessions the transaction ends: one family's, or all of the user.
Ends(p, t) == op[p].kind = "change" \/ family[t] = family[op[p].token]

\* revokeFamily, revokeAllForUser: the WHERE clause over the rows visible
\* when the UPDATE starts.
VisibleOfToken(p) == {t \in 1..issued : row[t] = "active" /\ t = op[p].token}
Visible(p) == {t \in 1..issued : row[t] = "active" /\ Ends(p, t)}

UpdateStarts(p) ==
    /\ op[p].pc = "revoking"
    /\ op' = [op EXCEPT ![p].pc = "updating", ![p].seen = Visible(p),
                        ![p].upto = issued]
    /\ UNCHANGED <<rows, expired, password, faults, history>>

\* It waits for the rows other transactions locked and skips those that are
\* no longer active; rows inserted meanwhile are not seen.
UpdateWrites(p) ==
    /\ op[p].pc = "updating"
    /\ op[p].seen \intersect LockedFor(p) = {}
    /\ op' = [op EXCEPT ![p].pc = "committing",
                        ![p].revokes = {t \in op[p].seen : row[t] = "active"}]
    /\ UNCHANGED <<rows, expired, password, faults, history>>

-----------------------------------------------------------------------------
\* The committed rows once p's writes are among them.
SavedAsDeleted(p) == [t \in Token |-> IF t \in op[p].revokes THEN "deleted" ELSE row[t]]
SavedBeforeRevoke(p) ==
    [t \in Token |->
        IF t \in op[p].revokes
        THEN IF row[t] = "none" THEN "active" ELSE "revoked"
        ELSE row[t]]
Saved(p) == [t \in Token |-> IF t \in op[p].revokes THEN "revoked" ELSE row[t]]

\* A login starts a family, a rotation continues one.
Issues(p) ==
    LET new == issued + 1
        old == op[p].token
        rotated == op[p].kind = "rotate" IN
    /\ op[p].kind \in {"login", "rotate"}
    /\ issued' = new
    /\ row' = [Saved(p) EXCEPT ![new] = "active"]
    /\ parent' = [parent EXCEPT ![new] = old]
    /\ family' = [family EXCEPT ![new] = IF rotated THEN family[old] ELSE new]
    /\ loginWith' = [loginWith EXCEPT ![new] = IF rotated THEN loginWith[old] ELSE op[p].verified]
    /\ survivors' = survivors \union {t \in {new} : op[p].late \/ old \in survivors}
    /\ End(p)
    /\ UNCHANGED <<expired, password, ended, reused>>

IssueCommits(p) ==
    /\ op[p].pc = "committing"
    /\ Issues(p)
    /\ known' = known \union {issued'}
    /\ UNCHANGED faults

\* The commit takes effect; the response with the new token is lost.
IssueUnanswered(p) ==
    /\ op[p].pc = "committing"
    /\ Fault
    /\ Issues(p)
    /\ UNCHANGED known

\* Logout, detected reuse or password change.
RevokeCommits(p) ==
    LET families == {family[t] : t \in {op[p].token} \ {NoToken}}
        started == {q \in Issuing : op[p].kind = "change" \/
                                      (op[q].kind = "rotate" /\ Ends(p, op[q].token))} IN
    /\ op[p].pc = "committing"
    /\ op[p].kind \in {"logout", "reuse", "change"}
    /\ row' = Saved(p)
    /\ password' = IF op[p].kind = "change" THEN password + 1 ELSE password
    /\ ended' = ended \union families
    /\ reused' = IF op[p].kind = "reuse" THEN reused \union families ELSE reused
    /\ survivors' = survivors \union
                      {t \in 1..issued : Ends(p, t) /\ row'[t] = "active" /\ t > op[p].upto}
    /\ op' = [q \in Proc |-> CASE q = p -> NoOp
                               [] q \in started -> [op[q] EXCEPT !.late = TRUE]
                               [] OTHER -> op[q]]
    /\ UNCHANGED <<issued, parent, family, known, loginWith, expired, faults>>

\* A statement or COMMIT fails, or the process dies: nothing is written.
Fails(p) ==
    /\ op[p].pc # "idle"
    /\ Fault
    /\ End(p)
    /\ UNCHANGED <<rows, expired, password, history>>

-----------------------------------------------------------------------------
Expire(t) ==
    /\ t <= issued /\ t \notin expired
    /\ \A s \in Token : s < t => s \in expired
    /\ expired' = expired \union {t}
    /\ UNCHANGED <<rows, password, op, faults, history>>

\* deleteExpiredOrRevoked: the oldest batch, once nobody holds their locks.
Stale == {t \in 1..issued : row[t] = "revoked" \/ (row[t] = "active" /\ t \in expired)}
Purged == {t \in Stale : Cardinality({s \in Stale : s < t}) < BatchSize}

Purge ==
    /\ Purged # {}
    /\ \A p \in Proc : op[p].revokes \intersect Purged = {}
    /\ row' = [t \in Token |-> IF t \in Purged THEN "none" ELSE row[t]]
    /\ UNCHANGED <<issued, parent, family, known, loginWith, expired, password, op, faults, history>>

Next ==
    \/ Purge
    \/ \E t \in Token : Expire(t)
    \/ \E p \in Proc :
          \/ LoginReads(p) \/ SaveReloads(p) \/ SaveWrites(p) \/ SaveConflicts(p)
          \/ ChangeReads(p) \/ ChangeWrites(p) \/ UpdateStarts(p) \/ UpdateWrites(p)
          \/ IssueCommits(p) \/ IssueUnanswered(p) \/ RevokeCommits(p) \/ Fails(p)
          \/ \E t \in known : RotateReads(p, t) \/ RotateReadsRevoked(p, t)
                                \/ RotateRefuses(p, t) \/ LogoutReads(p, t)

Spec == Init /\ [][Next]_vars

-----------------------------------------------------------------------------
(* Properties.                                                              *)

\* A session that is revoked or purged is never usable again, although a
\* rotation may write back what it read long before, or insert it again.
NoResurrection ==
    [][\A t \in 1..issued : row[t] # "active" => row'[t] # "active"]_vars

\* A token and its successor are never both usable: the old one goes in the
\* transaction that brings the new one, whatever fails or overlaps.
LineageExclusive ==
    \A t \in 1..issued : row[t] = "active" /\ parent[t] # NoToken =>
        row[parent[t]] # "active"

\* The family was logged out or caught in a reuse, or the password its login
\* verified was changed since.
Ended(t) == family[t] \in ended \/ loginWith[t] < password

\* What logout, reuse detection and password change still guarantee when
\* they race: a session that outlives them was issued by a transaction that
\* was open at that moment, or descends from such a one.
SurvivorsOverlapped ==
    \A t \in 1..issued : row[t] = "active" /\ Ended(t) => t \in survivors

\* "Revokes the refresh family": none of its sessions is usable afterwards.
EndedIsDead == \A t \in 1..issued : row[t] = "active" => ~ Ended(t)

\* A family is one rotating token: there is at most one to use.
OneActivePerFamily ==
    \A s, t \in 1..issued :
        row[s] = "active" /\ row[t] = "active" /\ family[s] = family[t] => s = t

\* "Reuse of a revoked token revokes the whole family."
ReuseEndsFamily ==
    \A t \in 1..issued : row[t] = "active" => family[t] \notin reused
==============================================================================
