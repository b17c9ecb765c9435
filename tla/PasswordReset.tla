---------------------------- MODULE PasswordReset ----------------------------
(***************************************************************************)
(* The password of one user and the user's one password_reset_tokens row:  *)
(* requests and uses of a reset, and setting or changing the password, in  *)
(* units of work that overlap at READ COMMITTED.  TypeORM's save reads the *)
(* row again and writes the columns that differ from the aggregate, so a   *)
(* decision taken on the first read can be overtaken twice.                *)
(***************************************************************************)
EXTENDS Integers

CONSTANTS
    Unit,           \* units of work that run at the same time
    TTL,            \* PASSWORD_RESET_TTL_MS, in ticks
    MaxRequests,    \* bound: requested resets, each with a token of its own
    MaxPasswords,   \* bound: passwords chosen
    MaxNow,         \* bound: the last tick
    MaxFaults       \* bound: units of work that fail

BoundAssumption == {TTL, MaxPasswords} \subseteq Nat \ {0} /\ {MaxRequests, MaxNow, MaxFaults} \subseteq Nat

Token == 1..MaxRequests
Time == 0..MaxNow + TTL
Row == [hash : {0} \union Token, expiresAt : Time, consumed : BOOLEAN]
NoRow == [hash |-> 0, expiresAt |-> 0, consumed |-> FALSE]

VARIABLES
    token,      \* the committed row, NoRow without one
    password,   \* the committed hash, 0 without one
    unit,       \* [Unit -> [pc, op, chosen, loaded, at, entity, changed, insert]]
    requests, passwords,    \* tokens and passwords handed out
    now, faults,
    mails,      \* tokens mailed
    latest,     \* history: the row the last committed request is to leave
    uses,       \* history: [Token -> committed resets]
    blind,      \* history: a set or change replaced a password it had not read
    stored,     \* history: tokens a committed request wrote
    overlapped, \* history: two units of work were open at once
    raced       \* history: one was open when the purge deleted the row

history == <<latest, uses, blind, stored, overlapped, raced>>
counters == <<requests, passwords>>
vars == <<token, password, unit, counters, now, faults, mails, history>>

Idle == [pc |-> "idle", op |-> "request", chosen |-> 0, loaded |-> 0, at |-> 0,
         entity |-> NoRow, changed |-> {}, insert |-> FALSE]

TypeOK ==
    /\ token \in Row /\ (token.hash = 0 => token = NoRow)
    /\ password \in 0..MaxPasswords
    /\ unit \in [Unit ->
          [pc : {"idle", "find", "compareToken", "writeToken", "mail",
                 "comparePassword", "writePassword", "commit"},
           op : {"request", "reset", "set", "change"}, chosen : 0..MaxPasswords,
           loaded : 0..MaxPasswords, at : 0..MaxNow, entity : Row,
           changed : SUBSET DOMAIN NoRow, insert : BOOLEAN]]
    /\ requests \in 0..MaxRequests /\ passwords \in 0..MaxPasswords
    /\ now \in 0..MaxNow /\ faults \in 0..MaxFaults
    /\ mails \subseteq Token /\ latest \in Row
    /\ uses \in [Token -> Nat] /\ stored \subseteq Token
    /\ {blind, overlapped, raced} \subseteq BOOLEAN

Init ==
    /\ token = NoRow
    /\ password \in {0, 1} /\ passwords = password
    /\ unit = [p \in Unit |-> Idle]
    /\ requests = 0 /\ now = 0 /\ faults = MaxFaults
    /\ mails = {} /\ latest = NoRow
    /\ uses = [t \in Token |-> 0] /\ stored = {}
    /\ blind = FALSE /\ overlapped = FALSE /\ raced = FALSE

Busy == \E q \in Unit : unit[q].pc # "idle"
Reject(p) == unit' = [unit EXCEPT ![p] = Idle]
Goto(p, pc) == unit' = [unit EXCEPT ![p].pc = pc]

Start(p, c) ==
    /\ unit[p].pc = "idle"
    /\ unit' = [unit EXCEPT ![p] = [c EXCEPT !.at = now]]
    /\ overlapped' = (overlapped \/ Busy)
    /\ UNCHANGED <<token, password, now, faults, mails, latest, uses, blind, stored, raced>>

\* The token as its aggregate has it: fresh, or found and consumed.
Fresh(t) == [hash |-> t, expiresAt |-> now + TTL, consumed |-> FALSE]
Consumed(row) == [row EXCEPT !.consumed = TRUE]

\* RequestPasswordReset for the address of the user; for another it does nothing.
Request(p) ==
    /\ requests < MaxRequests
    /\ requests' = requests + 1
    /\ Start(p, [Idle EXCEPT !.pc = "compareToken", !.entity = Fresh(requests + 1)])
    /\ UNCHANGED passwords

\* ResetPassword with a token from a mail.
Reset(p) ==
    /\ passwords < MaxPasswords
    /\ passwords' = passwords + 1
    /\ \E t \in mails : Start(p, [Idle EXCEPT !.pc = "find", !.op = "reset", !.entity.hash = t,
                                              !.chosen = passwords + 1])
    /\ UNCHANGED requests

\* SetOrChangePassword, without (0) or with a current password.
SetOrChange(p) ==
    /\ passwords < MaxPasswords
    /\ passwords' = passwords + 1
    /\ \E current \in 0..passwords :
          Start(p, [Idle EXCEPT !.pc = "find", !.op = IF current = 0 THEN "set" ELSE "change",
                                !.loaded = current, !.chosen = passwords + 1])
    /\ UNCHANGED requests

-----------------------------------------------------------------------------
IsActive(t, at) == token.hash = t /\ ~token.consumed /\ token.expiresAt > at

\* findByTokenHash and findByUserId: InvalidResetTokenError.
FindReset(p) ==
    LET c == unit[p] IN
    /\ c.pc = "find" /\ c.op = "reset"
    /\ IF IsActive(c.entity.hash, c.at) /\ password # 0
       THEN unit' = [unit EXCEPT ![p].pc = "compareToken", ![p].loaded = password,
                                 ![p].entity = Consumed(token)]
       ELSE Reject(p)
    /\ UNCHANGED <<token, password, counters, now, faults, mails, history>>

\* Nothing to set over, or the current password matches the loaded hash.
Matches(current) == current = password

FindPassword(p) ==
    /\ unit[p].pc = "find" /\ unit[p].op \in {"set", "change"}
    /\ IF Matches(unit[p].loaded) THEN Goto(p, "comparePassword") ELSE Reject(p)
    /\ UNCHANGED <<token, password, counters, now, faults, mails, history>>

\* save reads the user's row: INSERT without one, UPDATE of what differs.
CompareToken(p) ==
    /\ unit[p].pc = "compareToken"
    /\ unit' = [unit EXCEPT ![p].pc = "writeToken", ![p].insert = token = NoRow,
                            ![p].changed = {f \in DOMAIN token : token[f] # unit[p].entity[f]}]
    /\ UNCHANGED <<token, password, counters, now, faults, mails, history>>

HasToken(q) == /\ unit[q].op \in {"request", "reset"} /\ unit[q].changed # {}
               /\ unit[q].pc \in {"mail", "comparePassword", "writePassword", "commit"}

\* The statement waits for an uncommitted one of the row.  An INSERT that meets
\* a row violates the primary key; an UPDATE of a purged row matches nothing.
WriteToken(p) ==
    LET c == unit[p] IN
    /\ c.pc = "writeToken" /\ \A q \in Unit \ {p} : ~HasToken(q)
    /\ IF c.insert /\ token # NoRow THEN Reject(p)
       ELSE unit' = [unit EXCEPT
              ![p].pc = IF c.op = "request" THEN "mail" ELSE "comparePassword",
              ![p].changed = IF ~c.insert /\ token = NoRow THEN {} ELSE @]
    /\ UNCHANGED <<token, password, counters, now, faults, mails, history>>

MailFirst(p) ==
    /\ unit[p].pc \in {"compareToken", "mail"} /\ unit[p].op = "request"
    /\ mails' = mails \union {unit[p].entity.hash}
    /\ unit' = IF unit[p].pc = "mail" THEN [unit EXCEPT ![p].pc = "commit"] ELSE unit
    /\ UNCHANGED <<token, password, counters, now, faults, history>>
Mail(p) ==
    /\ unit[p].pc = "mail"
    /\ mails' = mails \union {unit[p].entity.hash}
    /\ Goto(p, "commit")
    /\ UNCHANGED <<token, password, counters, now, faults, history>>

ComparePassword(p) ==
    /\ unit[p].pc = "comparePassword"
    /\ unit' = [unit EXCEPT ![p].pc = "writePassword", ![p].insert = password = 0]
    /\ UNCHANGED <<token, password, counters, now, faults, mails, history>>

WritePassword(p) ==
    /\ unit[p].pc = "writePassword"
    /\ \A q \in Unit \ {p} : unit[q].pc # "commit" \/ unit[q].op = "request"
    /\ IF unit[p].insert /\ password # 0 THEN Reject(p) ELSE Goto(p, "commit")
    /\ UNCHANGED <<token, password, counters, now, faults, mails, history>>

\* COMMIT; a reset and a change also revoke the user's refresh sessions.
Commit(p) ==
    LET c == unit[p] IN
    /\ c.pc = "commit"
    /\ token' = [f \in DOMAIN token |-> IF f \in c.changed THEN c.entity[f] ELSE token[f]]
    /\ password' = IF c.op = "request" THEN password ELSE c.chosen
    /\ latest' = IF c.op = "request" THEN [c.entity EXCEPT !.consumed = FALSE] ELSE latest
    /\ stored' = IF c.op = "request" /\ c.changed # {} THEN stored \union {c.entity.hash} ELSE stored
    /\ uses' = IF c.op = "reset" THEN [uses EXCEPT ![c.entity.hash] = @ + 1] ELSE uses
    /\ blind' = (blind \/ (c.op \in {"set", "change"} /\ c.loaded # password))
    /\ Reject(p)
    /\ UNCHANGED <<counters, now, faults, mails, overlapped, raced>>

Fails(p) ==
    /\ unit[p].pc # "idle" /\ faults > 0
    /\ faults' = faults - 1
    /\ Reject(p)
    /\ UNCHANGED <<token, password, counters, now, mails, history>>

\* PurgePasswordResetTokens: one statement, which waits for a locked row.
Purge ==
    /\ token # NoRow /\ (token.consumed \/ token.expiresAt < now)
    /\ \A q \in Unit : ~HasToken(q)
    /\ token' = NoRow
    /\ raced' = (raced \/ Busy)
    /\ UNCHANGED <<password, unit, counters, now, faults, mails, latest, uses, blind, stored, overlapped>>

Tick ==
    /\ now < MaxNow
    /\ now' = now + 1
    /\ UNCHANGED <<token, password, unit, counters, faults, mails, history>>

Next ==
    \/ \E p \in Unit :
          \/ Request(p) \/ Reset(p) \/ SetOrChange(p) \/ FindReset(p) \/ FindPassword(p)
          \/ CompareToken(p) \/ WriteToken(p) \/ Mail(p)
          \/ ComparePassword(p) \/ WritePassword(p) \/ Commit(p) \/ Fails(p)
    \/ Purge \/ Tick

Spec == Init /\ [][Next]_vars

-----------------------------------------------------------------------------
(* Properties.                                                              *)

\* A token resets the password twice, or a password is replaced by someone who
\* proved to know another one, only if units of work overlap.
DamageNeedsOverlap == blind \/ (\E t \in Token : uses[t] > 1) => overlapped

\* The token of the last committed request is the user's outstanding token
\* until it is used or expires, unless its unit of work overlapped another or a purge:
\* then a save may consume or replace it although it was never used.
LatestTokenWorks ==
    ~overlapped /\ ~raced /\ latest # NoRow /\ uses[latest.hash] = 0 /\ latest.expiresAt > now
        => token = latest

InFlight == {unit[q].entity.hash : q \in {r \in Unit : unit[r].op = "request" /\ unit[r].pc = "commit"}}

\* Mail leaves before COMMIT but after the row is written: a mailed token that
\* was never stored needs a failure, or a purge within its unit of work.
DeadMailNeedsFault == mails \subseteq stored \union InFlight \/ faults < MaxFaults \/ raced

\* RequestPasswordReset "Always succeeds. Persists a hashed token and sends the
\* raw value": as long as nothing fails, every mailed token was stored.
MailedIsPersisted == faults = MaxFaults => mails \subseteq stored \union InFlight

\* InvalidResetTokenError is "Thrown when a password-reset token is missing,
\* expired, or already used": a token resets the password once.
TokenUsedOnce == \A t \in Token : uses[t] <= 1

\* SetOrChangePassword "Sets a local password when missing, or replaces it when
\* currentPassword matches" the password it replaces.
ReplacedByItsOwner == ~blind
=============================================================================
