----------------------------- MODULE MCIdentity -----------------------------
(* Small instances of the components of the identity, tenancy and            *)
(* authorization contexts for TLC.  In the models they share no state, so    *)
(* they are explored side by side: the component "part" names takes steps    *)
(* and the others rest in their initial states.                              *)
EXTENDS PermissionCache, TLC

CONSTANTS
    Unit,               \* units of work of every component but the cache
    Caller,             \* requests with an API key
    Person, Founder, CustomRole, RoleName, MaxRoleUnits,
    KeyPermission, TouchWindow, LastKeyTick, MaxKeyUnits,
    Invitation, Nobody, TokenTTL, LastTick,
    MaxResets, MaxPasswords

VARIABLES
    role, member, roleUnit, roleStarted, roleOverlapped, lost,
    key, expiresAt, keyUnit, request, keyNow, keyStarted, revocations, revived, keyLost, lastTouch,
    retouched, keyOverlapped, usedMeanwhile,
    invitation, joined, roles, mailUnit, mailNow, mailFaults, mails, issued, joins, late, mailOverlapped,
    token, password, resetUnit, requests, passwords, resetNow, resetFaults, resetMails, latest, uses, blind,
    stored, resetOverlapped, resetRaced,
    part        \* the component that takes steps

rolesVars == <<role, member, roleUnit, roleStarted, roleOverlapped, lost>>
keysVars == <<key, expiresAt, keyUnit, request, keyNow, keyStarted, revocations, revived, keyLost, lastTouch,
              retouched, keyOverlapped, usedMeanwhile>>
invitationVars == <<invitation, joined, roles, mailUnit, mailNow, mailFaults, mails, issued, joins, late,
                    mailOverlapped>>
resetVars == <<token, password, resetUnit, requests, passwords, resetNow, resetFaults, resetMails, latest, uses,
               blind, stored, resetOverlapped, resetRaced>>

\* Two changes that concern one user; checks of an API key, and writes that
\* mint, change or revoke it.
UserCache == INSTANCE PermissionCache WITH User <- {"u1"}, MaxWrites <- 2

KeyCache == INSTANCE PermissionCache WITH
    User <- {}, Role <- {}, Permission <- {"p"}, ApiKey <- {"k1"}, Reader <- Caller, MaxWrites <- 3

Own == INSTANCE Roles WITH
    User <- Person, Owner <- Founder, Name <- RoleName, MaxUnits <- MaxRoleUnits,
    unit <- roleUnit, started <- roleStarted, overlapped <- roleOverlapped

Keys == INSTANCE ApiKeys WITH
    Permission <- KeyPermission, Request <- Caller, MaxNow <- LastKeyTick, MaxUnits <- MaxKeyUnits,
    unit <- keyUnit, now <- keyNow, started <- keyStarted, lost <- keyLost, overlapped <- keyOverlapped

Invites == INSTANCE Invitations WITH
    TTL <- TokenTTL, MaxNow <- LastTick,
    member <- joined, unit <- mailUnit, now <- mailNow, faults <- mailFaults, overlapped <- mailOverlapped

Resets == INSTANCE PasswordReset WITH
    TTL <- TokenTTL, MaxRequests <- MaxResets, MaxNow <- LastTick,
    unit <- resetUnit, now <- resetNow, faults <- resetFaults, mails <- resetMails,
    overlapped <- resetOverlapped, raced <- resetRaced

ASSUME CacheAssumption == UserCache!SubjectAssumption /\ KeyCache!SubjectAssumption
ASSUME RolesAssumption == Own!OwnerAssumption /\ Own!RoleAssumption
ASSUME KeysAssumption == Keys!TimeAssumption
ASSUME InvitesAssumption == Invites!IdAssumption /\ Invites!TimeAssumption
ASSUME ResetsAssumption == Resets!BoundAssumption

IdentityInit ==
    /\ part \in {"cache", "userCache", "keyCache", "roles", "keys", "uses", "invitations", "resets"}
    /\ CASE part = "userCache" -> UserCache!Init
         [] part = "keyCache" -> KeyCache!Init
         [] OTHER -> Init
    /\ Own!Init /\ Keys!Init /\ Invites!Init /\ Resets!Init
    /\ part \notin {"cache", "userCache", "keyCache"} => (roleIds = [u \in User |-> {}] /\ grants = [r \in Role |-> {}])
    /\ part # "resets" => password = 0

Cache ==
    /\ \/ part = "cache" /\ Next
       \/ part = "userCache" /\ UserCache!Next
       \/ part = "keyCache" /\ KeyCache!Next
    /\ UNCHANGED <<part, rolesVars, keysVars, invitationVars, resetVars>>

CustomRoles ==
    /\ part = "roles" /\ Own!Next
    /\ UNCHANGED <<part, vars, keysVars, invitationVars, resetVars>>

\* Changes that overlap, in a short time.
KeysChange ==
    /\ part = "keys" /\ Keys!Next /\ keyNow' <= 2
    /\ UNCHANGED <<part, vars, rolesVars, invitationVars, resetVars>>

\* The same key over a longer time, with one change of it.
KeyIsUsed ==
    /\ part = "uses" /\ Keys!Next /\ keyStarted' <= 1
    /\ UNCHANGED <<part, vars, rolesVars, invitationVars, resetVars>>

Inviting ==
    /\ part = "invitations" /\ Invites!Next
    /\ UNCHANGED <<part, vars, rolesVars, keysVars, resetVars>>

Resetting ==
    /\ part = "resets" /\ Resets!Next
    /\ UNCHANGED <<part, vars, rolesVars, keysVars, invitationVars>>

IdentityNext == Cache \/ CustomRoles \/ KeysChange \/ KeyIsUsed \/ Inviting \/ Resetting

IdentitySpec == IdentityInit /\ [][IdentityNext]_<<part, vars, rolesVars, keysVars, invitationVars, resetVars>>

IdentitySymmetry == Permutations(Unit) \union Permutations(Caller) \union Permutations(KeyPermission)

-----------------------------------------------------------------------------
(* Properties.                                                              *)

\* What PermissionCache promises of users and of keys: a check grants a
\* permission the tables do not at most for the time an entry lives after its
\* tables were read, and not at all after an invalidation nothing overlapped.
GrantsAreFresh ==
    /\ part = "cache" => TypeOK /\ StaleGrantBounded /\ ImmediateUnlessRaced
    /\ part = "userCache" => UserCache!TypeOK /\ UserCache!StaleGrantBounded /\ UserCache!ImmediateUnlessRaced
    /\ part = "keyCache" => KeyCache!TypeOK /\ KeyCache!StaleGrantBounded

\* What Roles promises: a tenant keeps an Owner with every permission, names
\* stay unique, and only units of work that overlap leave a dangling role or
\* lose an update.
RolesStaySound ==
    part = "roles" => Own!TypeOK /\ Own!OwnerKeepsControl /\ Own!NamesUnique /\ Own!DamageNeedsOverlap

\* What ApiKeys promises: revocation and permissions of a key are damaged by
\* overlapping changes only, and requests record its last use at most once
\* per window and never backwards.
KeysStaySound ==
    part \in {"keys", "uses"} =>
        /\ Keys!TypeOK /\ Keys!DamageNeedsOverlap
        /\ Keys!WriteAmplificationBounded /\ Keys!LastUseIsLatest

\* What Invitations promises: one pending invitation per address, one joining
\* per invitation, none after its end, and a mail whose token leads nowhere
\* only after a failure, but for units of work that overlap.
InvitationsStaySound ==
    part = "invitations" =>
        /\ Invites!TypeOK /\ Invites!OnePending /\ Invites!JoinsOnce
        /\ Invites!LateNeedsOverlap /\ Invites!DeadMailNeedsFault

\* What PasswordReset promises: a token is used once and a password replaced
\* knowingly but for units of work that overlap, the latest committed token
\* works, and only a failure leaves a mailed token without a row.
ResetsStaySound ==
    part = "resets" => Resets!TypeOK /\ Resets!DamageNeedsOverlap /\ Resets!LatestTokenWorks /\ Resets!DeadMailNeedsFault

\* "revoke records ApiKeyRevoked and is not usable": a key whose revocation has
\* committed never becomes usable again.
RevokedStaysRevoked == part = "keys" => Keys!RevokedStaysRevoked
=============================================================================
