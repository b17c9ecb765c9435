------------------------- MODULE PermissionCacheProofs -------------------------
(***************************************************************************)
(* Proofs about PermissionCache, for any users, keys, roles, writers,      *)
(* checks and lifetimes.  Two chains of facts make IInv inductive.  One    *)
(* follows a permission from the tables into the cache: what a check has   *)
(* read held at most as long ago as the check runs, what an entry grants   *)
(* at most as long ago as a fill and the part of its TTL that has passed.  *)
(* The other holds as long as no check overlapped a unit of work: entries  *)
(* are what the tables say, and whoever a unit of work concerns has no     *)
(* entry any more, or one that it is still to delete.                      *)
(***************************************************************************)
EXTENDS PermissionCache, TLAPS

Entry == [perms : SUBSET Permission, left : 0..TTL]
Check == [pc : {"idle", "roleIds", "grants", "key", "set"},
          subject : Subject, roles : SUBSET Role,
          perms : SUBSET Permission, age : 0..MaxFill]
WriteUnit == [pc : {"idle", "written", "deleting"}, target : Target,
         value : (SUBSET Role) \union (SUBSET Permission), todo : SUBSET Subject]

\* s held p at most n ticks ago, for ages g of the facts.
HeldWithin(g, s, p, n) ==
    IF s \in ApiKey THEN g[<<s, p>>] <= n
    ELSE \E r \in Role : g[<<s, r>>] <= n /\ g[<<r, p>>] <= n

FactsInv == \A f \in CurrentFacts : gone[f] = 0

FillInv(r) ==
    /\ fill[r].pc \in {"roleIds", "grants"} => fill[r].subject \in User
    /\ fill[r].pc = "key" => fill[r].subject \in ApiKey
    /\ fill[r].pc = "grants" =>
          \A role \in fill[r].roles : gone[<<fill[r].subject, role>>] <= fill[r].age
    /\ fill[r].pc = "set" =>
          \A p \in fill[r].perms : HeldWithin(gone, fill[r].subject, p, fill[r].age)

EntryInv(s) == \A p \in cache[s].perms : HeldWithin(gone, s, p, Bound - cache[s].left)

WriteInv(w) ==
    tx[w].pc # "idle" =>
        tx[w].value \in IF tx[w].target \in User THEN SUBSET Role ELSE SUBSET Permission

\* As long as no check overlapped a unit of work.
EntryCurrent(s) == s \notin expired /\ cache[s].left > 0 => cache[s].perms = Effective(s)

FillCurrent(r) ==
    /\ fill[r].pc = "grants" => fill[r].roles = roleIds[fill[r].subject]
    /\ \A s \in Subject \ expired :
          fill[r].pc = "set" /\ fill[r].subject = s => fill[r].perms = Effective(s)

WriteCovers(w) ==
    tx[w].pc = "deleting" =>
        \A s \in Affected(tx[w].target) : s \in tx[w].todo \/ cache[s].left = 0

UnracedInv ==
    ~raced =>
        /\ ~(Writing /\ Filling)
        /\ \A s \in Subject : EntryCurrent(s)
        /\ \A r \in Reader : FillCurrent(r)
        /\ \A w \in Writer : WriteCovers(w)

IInv ==
    /\ TypeOK /\ FactsInv
    /\ \A r \in Reader : FillInv(r)
    /\ \A s \in Subject : EntryInv(s)
    /\ \A w \in Writer : WriteInv(w)
    /\ UnracedInv

-----------------------------------------------------------------------------
(* Lemmas about the facts of the tables.                                    *)

\* Times are numbers.
LEMMA Times ==
  /\ TTL \in Nat /\ TTL > 0 /\ MaxFill \in Nat
  /\ Bound \in Nat /\ Bound = TTL + MaxFill
  BY TimeAssumption DEF Bound

\* No subject is a role, no user an API key.
LEMMA Kinds ==
  /\ Subject = User \union ApiKey /\ Target = User \union Role \union ApiKey
  /\ \A u \in User : u \in Subject /\ u \notin ApiKey /\ u \notin Role
  /\ \A k \in ApiKey : k \in Subject /\ k \notin User /\ k \notin Role
  /\ \A t \in Role : t \notin User /\ t \notin ApiKey
  BY SubjectAssumption DEF Subject, Target

\* What was held within n ticks by the ages g is within m by the ages h, if
\* every fact is.
LEMMA HeldLonger ==
  ASSUME NEW g, NEW h, NEW n, NEW m, \A f \in Fact : g[f] <= n => h[f] <= m,
         NEW s \in Subject, NEW p \in Permission, HeldWithin(g, s, p, n)
  PROVE  HeldWithin(h, s, p, m)
<1>1. CASE s \in ApiKey
  <2>1. <<s, p>> \in Fact
    BY <1>1 DEF Fact
  <2> QED
    BY <1>1, <2>1 DEF HeldWithin
<1>2. CASE s \notin ApiKey
  <2>1. PICK r \in Role : g[<<s, r>>] <= n /\ g[<<r, p>>] <= n
    BY <1>2 DEF HeldWithin
  <2>2. <<s, r>> \in Fact /\ <<r, p>> \in Fact
    BY <1>2, Kinds DEF Fact
  <2>3. h[<<s, r>>] <= m /\ h[<<r, p>>] <= m
    BY <2>1, <2>2
  <2> QED
    BY <1>2, <2>3 DEF HeldWithin
<1> QED
  BY <1>1, <1>2

\* What the tables say of users, roles and keys is among the facts.
LEMMA FactsAreThere ==
  ASSUME TypeOK
  PROVE  /\ CurrentFacts \subseteq Fact
         /\ \A u \in User : \A r \in roleIds[u] : <<u, r>> \in CurrentFacts
         /\ \A r \in Role : \A p \in grants[r] : <<r, p>> \in CurrentFacts
         /\ \A k \in ApiKey : \A p \in Effective(k) : <<k, p>> \in CurrentFacts
<1>1. CurrentFacts \subseteq Fact
  BY DEF CurrentFacts, Facts
<1>2. \A u \in User : \A r \in roleIds[u] : <<u, r>> \in CurrentFacts
  BY DEF CurrentFacts, Facts, Fact, TypeOK
<1>3. \A r \in Role : \A p \in grants[r] : <<r, p>> \in CurrentFacts
  BY DEF CurrentFacts, Facts, Fact, TypeOK
<1>4. ASSUME NEW k \in ApiKey, NEW p \in Effective(k)
      PROVE  <<k, p>> \in CurrentFacts
  <2>1. p \in Usable(minted, expired)[k]
    BY <1>4, Kinds DEF Effective
  <2>2. p \in Permission
    BY <2>1 DEF Usable, TypeOK
  <2> QED
    BY <2>1, <2>2 DEF CurrentFacts, Facts, Fact
<1> QED
  BY <1>1, <1>2, <1>3, <1>4

\* Permissions are permissions.
LEMMA EffectiveType ==
  ASSUME TypeOK, NEW s \in Subject
  PROVE  Effective(s) \in SUBSET Permission
<1>1. CASE s \in User
  BY <1>1 DEF Effective, TypeOK
<1>2. CASE s \notin User
  BY <1>2 DEF Effective, Usable, TypeOK, Subject
<1> QED
  BY <1>1, <1>2

\* The same tables give the same permissions.
LEMMA SameEffective ==
  ASSUME UNCHANGED <<roleIds, grants, minted, expired>>, NEW s
  PROVE  Effective(s)' = Effective(s)
  BY DEF Effective, Usable

\* The types of the records in use.
LEMMA RecordTypes ==
  ASSUME TypeOK
  PROVE  /\ NoEntry \in Entry
         /\ \A s \in Subject : NoFill(s) \in Check
         /\ \A t \in Target : NoTx(t) \in WriteUnit
         /\ cache \in [Subject -> Entry] /\ fill \in [Reader -> Check] /\ tx \in [Writer -> WriteUnit]
  BY Times DEF TypeOK, NoEntry, NoFill, NoTx, Entry, Check, WriteUnit

-----------------------------------------------------------------------------
(* Every step keeps IInv.                                                   *)

\* At first nothing is cached and nobody at work.
LEMMA InitIInv == Init => IInv
<1> SUFFICES ASSUME Init PROVE IInv
  OBVIOUS
<1>0. Subject # {} /\ Target # {}
  BY SubjectAssumption DEF Subject, Target
<1>1. TypeOK
  <2>1. (CHOOSE t \in Target : TRUE) \in Target /\ (CHOOSE s \in Subject : TRUE) \in Subject
    BY <1>0
  <2>2. \A s \in Subject : s \in Subject /\ {} \in SUBSET Role /\ {} \in SUBSET Permission
    OBVIOUS
  <2>3. cache \in [Subject -> [perms : SUBSET Permission, left : 0..TTL]]
    BY Times DEF Init, NoEntry
  <2>4. tx \in [Writer -> [pc : {"idle", "written", "deleting"}, target : Target,
                          value : (SUBSET Role) \union (SUBSET Permission),
                          todo : SUBSET Subject]]
    BY <2>1 DEF Init, NoTx
  <2>5. fill \in [Reader -> [pc : {"idle", "roleIds", "grants", "key", "set"},
                            subject : Subject, roles : SUBSET Role,
                            perms : SUBSET Permission, age : 0..MaxFill]]
    BY <2>1, Times DEF Init, NoFill
  <2>6. gone \in [Fact -> 0..(Bound + 1)]
    BY Times DEF Init
  <2>7. effective \subseteq Subject \X Permission /\ raced \in BOOLEAN
    BY DEF Init
  <2>8. /\ roleIds \in [User -> SUBSET Role] /\ grants \in [Role -> SUBSET Permission]
        /\ minted \in [ApiKey -> SUBSET Permission] /\ expired \subseteq ApiKey
        /\ writes \in 0..MaxWrites /\ faults \in 0..MaxFaults
    BY BoundAssumption DEF Init
  <2> QED
    BY <2>3, <2>4, <2>5, <2>6, <2>7, <2>8 DEF TypeOK
<1>2. FactsInv
  BY <1>1, FactsAreThere DEF Init, FactsInv
<1>3. \A r \in Reader : fill[r].pc = "idle" /\ FillInv(r) /\ FillCurrent(r)
  BY DEF Init, FillInv, FillCurrent, NoFill
<1>4. \A s \in Subject : EntryInv(s) /\ EntryCurrent(s)
  BY DEF Init, EntryInv, EntryCurrent, NoEntry
<1>5. \A w \in Writer : tx[w].pc = "idle" /\ WriteInv(w) /\ WriteCovers(w)
  BY DEF Init, WriteInv, WriteCovers, NoTx
<1> QED
  BY <1>1, <1>2, <1>3, <1>4, <1>5 DEF IInv, UnracedInv, Writing, Filling

\* A step of a check that caches nothing yet: its own part of the invariant is
\* all it can disturb.
LEMMA FillStepKeeps ==
  ASSUME IInv, NEW r \in Reader, NEW o \in Check, fill' = [fill EXCEPT ![r] = o],
         UNCHANGED <<tables, cache, tx, stale, writes>>,
         faults' \in 0..MaxFaults, raced' \in BOOLEAN,
         FillInv(r)',
         ~raced' => ~raced /\ FillCurrent(r)' /\ (o.pc # "idle" => ~Writing)
  PROVE  IInv'
<1>1. /\ UNCHANGED <<roleIds, grants, minted, expired, cache, tx, gone, effective, writes>>
      /\ fill'[r] = o /\ \A q \in Reader \ {r} : fill'[q] = fill[q]
      /\ fill' \in [Reader -> Check]
  BY RecordTypes DEF IInv, tables, stale
<1>2. TypeOK'
  BY <1>1 DEF IInv, TypeOK, Check
<1>3. FactsInv'
  BY <1>1 DEF IInv, FactsInv, CurrentFacts
<1>4. \A q \in Reader : FillInv(q)'
  BY <1>1 DEF IInv, FillInv
<1>5. \A s \in Subject : EntryInv(s)'
  BY <1>1 DEF IInv, EntryInv
<1>6. \A w \in Writer : WriteInv(w)'
  BY <1>1 DEF IInv, WriteInv
<1>7. UnracedInv'
  <2> SUFFICES ASSUME ~raced'
               PROVE  /\ ~(Writing' /\ Filling')
                      /\ \A s \in Subject : EntryCurrent(s)'
                      /\ \A q \in Reader : FillCurrent(q)'
                      /\ \A w \in Writer : WriteCovers(w)'
    BY DEF UnracedInv
  <2>1. ~(Writing' /\ Filling')
    BY <1>1 DEF IInv, UnracedInv, Writing, Filling
  <2>2. \A s \in Subject : EntryCurrent(s)'
    BY <1>1, SameEffective DEF IInv, UnracedInv, EntryCurrent
  <2>3. \A q \in Reader : FillCurrent(q)'
    BY <1>1, SameEffective DEF IInv, UnracedInv, FillCurrent
  <2>4. \A w \in Writer : WriteCovers(w)'
    BY <1>1 DEF IInv, UnracedInv, WriteCovers, Affected
  <2> QED
    BY <2>1, <2>2, <2>3, <2>4
<1> QED
  BY <1>2, <1>3, <1>4, <1>5, <1>6, <1>7 DEF IInv

\* A step of a unit of work before its COMMIT, or a loss of entries.
LEMMA WriteStepKeeps ==
  ASSUME IInv, UNCHANGED <<tables, fill, stale>>,
         tx' \in [Writer -> WriteUnit], cache' \in [Subject -> Entry],
         \A s \in Subject : cache'[s] = cache[s] \/ cache'[s] = NoEntry,
         writes' \in 0..MaxWrites, faults' \in 0..MaxFaults, raced' \in BOOLEAN,
         \A w \in Writer : WriteInv(w)',
         ~raced' => /\ ~raced
                    /\ \A w \in Writer : WriteCovers(w)'
                    /\ ~Filling \/ \A w \in Writer : tx'[w].pc # "idle" => tx[w].pc # "idle"
  PROVE  IInv'
<1>1. UNCHANGED <<roleIds, grants, minted, expired, fill, gone, effective>>
  BY DEF tables, stale
<1>2. TypeOK'
  BY <1>1 DEF IInv, TypeOK, WriteUnit, Entry
<1>3. FactsInv'
  BY <1>1 DEF IInv, FactsInv, CurrentFacts
<1>4. \A q \in Reader : FillInv(q)'
  BY <1>1 DEF IInv, FillInv
<1>5. \A s \in Subject : EntryInv(s)'
  BY <1>1 DEF IInv, EntryInv, NoEntry
<1>6. UnracedInv'
  <2> SUFFICES ASSUME ~raced'
               PROVE  /\ ~(Writing' /\ Filling')
                      /\ \A s \in Subject : EntryCurrent(s)'
                      /\ \A q \in Reader : FillCurrent(q)'
    BY DEF UnracedInv
  <2>1. ~(Writing' /\ Filling')
    BY <1>1 DEF IInv, UnracedInv, Writing, Filling
  <2>2. \A s \in Subject : EntryCurrent(s)'
    BY <1>1, SameEffective DEF IInv, UnracedInv, EntryCurrent, NoEntry
  <2>3. \A q \in Reader : FillCurrent(q)'
    BY <1>1, SameEffective DEF IInv, UnracedInv, FillCurrent
  <2> QED
    BY <2>1, <2>2, <2>3
<1> QED
  BY <1>2, <1>3, <1>4, <1>5, <1>6 DEF IInv

\* How long a check runs is a number.
LEMMA CheckAge ==
  ASSUME NEW c \in Check
  PROVE  c.age \in 0..MaxFill /\ c.age \in Nat /\ c.age \in Int
<1>1. c.age \in 0..MaxFill
  BY DEF Check
<1> QED
  BY <1>1, Times

\* So are the ages of the facts.
LEMMA FactAge ==
  ASSUME TypeOK
  PROVE  gone \in [Fact -> 0..(Bound + 1)] /\ gone \in [Fact -> Int]
<1>1. gone \in [Fact -> 0..(Bound + 1)]
  BY DEF TypeOK
<1>2. 0..(Bound + 1) \subseteq Int
  BY Times
<1> QED
  BY <1>1, <1>2

\* What a check has read so far is kept with it.
LEMMA CheckGoesOn ==
  ASSUME NEW c \in Check, NEW found \in SUBSET Role, NEW perms \in SUBSET Permission
  PROVE  /\ [c EXCEPT !.pc = "grants", !.roles = found] \in Check
         /\ [c EXCEPT !.pc = "set", !.perms = perms] \in Check
<1>1. [c EXCEPT !.pc = "grants", !.roles = found] \in Check
  BY DEF Check
<1>2. [c EXCEPT !.pc = "set", !.perms = perms] \in Check
  BY DEF Check
<1> QED
  BY <1>1, <1>2

\* AuthorizationService misses, reads, or fails.
LEMMA CheckKeepsIInv ==
  ASSUME IInv, NEW r \in Reader,
         \/ ReadRoleIds(r) \/ ReadGrants(r) \/ ReadKey(r) \/ FillFails(r)
         \/ \E s \in Subject : Miss(r, s)
  PROVE  IInv'
<1>0. /\ TypeOK /\ fill[r] \in Check /\ FillInv(r) /\ fill \in [Reader -> Check]
      /\ raced \in BOOLEAN /\ faults \in 0..MaxFaults
  BY RecordTypes DEF IInv, TypeOK
<1>1. CASE ReadRoleIds(r)
  <2> DEFINE u == fill[r].subject
             o == [fill[r] EXCEPT !.pc = "grants", !.roles = roleIds[u]]
  <2>1. u \in User /\ roleIds[u] \subseteq Role
    BY <1>0, <1>1 DEF ReadRoleIds, FillInv, TypeOK
  <2>2. /\ o \in Check /\ o.pc = "grants" /\ o.subject = u /\ o.roles = roleIds[u]
        /\ o.age = fill[r].age /\ fill[r].age \in Nat
    BY <1>0, <2>1, CheckGoesOn, CheckAge DEF Check
  <2>3. fill' = [fill EXCEPT ![r] = o]
    BY <1>1 DEF ReadRoleIds
  <2> HIDE DEF o
  <2>4. UNCHANGED <<tables, cache, tx, stale, writes, faults, raced>>
    BY <1>1 DEF ReadRoleIds, history
  <2>5. fill'[r] = o /\ gone' = gone /\ roleIds' = roleIds
    BY <1>0, <2>3, <2>4 DEF tables, stale
  <2>6. \A role \in roleIds[u] : gone[<<u, role>>] <= o.age
    BY <1>0, <2>1, <2>2, FactsAreThere DEF IInv, FactsInv
  <2>7. FillInv(r)'
    BY <2>1, <2>2, <2>5, <2>6 DEF FillInv
  <2>8. FillCurrent(r)'
    BY <2>2, <2>5 DEF FillCurrent
  <2>9. ~raced => ~Writing
    BY <1>1 DEF ReadRoleIds, IInv, UnracedInv, Filling
  <2> QED
    BY <1>0, <2>2, <2>3, <2>4, <2>7, <2>8, <2>9, FillStepKeeps
<1>2. CASE ReadGrants(r)
  <2> DEFINE u == fill[r].subject
             found == UNION {grants[role] : role \in fill[r].roles}
             o == [fill[r] EXCEPT !.pc = "set", !.perms = found]
  <2>1. u \in User /\ fill[r].roles \subseteq Role /\ found \subseteq Permission
    BY <1>0, <1>2 DEF ReadGrants, FillInv, TypeOK, Check
  <2>2. /\ o \in Check /\ o.pc = "set" /\ o.subject = u /\ o.perms = found
        /\ o.age = fill[r].age /\ fill[r].age \in Nat
    BY <1>0, <2>1, CheckGoesOn, CheckAge DEF Check
  <2>3. fill' = [fill EXCEPT ![r] = o]
    BY <1>2 DEF ReadGrants
  <2>4. ASSUME NEW p \in found
        PROVE  HeldWithin(gone, u, p, fill[r].age)
    <3>1. PICK role \in fill[r].roles : p \in grants[role]
      BY <2>4
    <3>2. gone[<<u, role>>] <= fill[r].age
      BY <1>0, <1>2, <3>1 DEF ReadGrants, FillInv
    <3>3. gone[<<role, p>>] <= fill[r].age
      BY <1>0, <2>1, <2>2, <3>1, FactsAreThere DEF IInv, FactsInv
    <3> QED
      BY <2>1, <3>1, <3>2, <3>3, Kinds DEF HeldWithin
  <2>5. ~raced => \A s \in Subject : u = s => found = Effective(s)
    <3>1. ~raced => fill[r].roles = roleIds[u]
      BY <1>2 DEF ReadGrants, IInv, UnracedInv, FillCurrent
    <3> QED
      BY <2>1, <3>1 DEF Effective
  <2> HIDE DEF o, found
  <2>6. UNCHANGED <<tables, cache, tx, stale, writes, faults, raced>>
    BY <1>2 DEF ReadGrants, history
  <2>7. /\ fill'[r] = o /\ gone' = gone
        /\ UNCHANGED <<roleIds, grants, minted, expired>>
    BY <1>0, <2>3, <2>6 DEF tables, stale
  <2>8. FillInv(r)'
    BY <2>1, <2>2, <2>4, <2>7 DEF FillInv
  <2>9. ~raced => FillCurrent(r)'
    BY <2>2, <2>5, <2>7, SameEffective DEF FillCurrent
  <2>10. ~raced => ~Writing
    BY <1>2 DEF ReadGrants, IInv, UnracedInv, Filling
  <2> QED
    BY <1>0, <2>2, <2>3, <2>6, <2>8, <2>9, <2>10, FillStepKeeps
<1>3. CASE ReadKey(r)
  <2> DEFINE k == fill[r].subject
             o == [fill[r] EXCEPT !.pc = "set", !.perms = Effective(k)]
  <2>1. k \in ApiKey /\ k \in Subject /\ Effective(k) \in SUBSET Permission
    BY <1>0, <1>3, EffectiveType DEF ReadKey, FillInv, Check
  <2>2. /\ o \in Check /\ o.pc = "set" /\ o.subject = k /\ o.perms = Effective(k)
        /\ o.age = fill[r].age /\ fill[r].age \in Nat
    BY <1>0, <2>1, CheckGoesOn, CheckAge DEF Check
  <2>3. fill' = [fill EXCEPT ![r] = o]
    BY <1>3 DEF ReadKey
  <2> HIDE DEF o
  <2>4. ASSUME NEW p \in Effective(k)
        PROVE  HeldWithin(gone, k, p, fill[r].age)
    BY <1>0, <2>1, <2>2, <2>4, FactsAreThere DEF IInv, FactsInv, HeldWithin
  <2>5. UNCHANGED <<tables, cache, tx, stale, writes, faults, raced>>
    BY <1>3 DEF ReadKey, history
  <2>6. /\ fill'[r] = o /\ gone' = gone
        /\ UNCHANGED <<roleIds, grants, minted, expired>>
    BY <1>0, <2>3, <2>5 DEF tables, stale
  <2>7. FillInv(r)'
    BY <2>1, <2>2, <2>4, <2>6 DEF FillInv
  <2>8. FillCurrent(r)'
    BY <2>2, <2>6, SameEffective DEF FillCurrent
  <2>9. ~raced => ~Writing
    BY <1>3 DEF ReadKey, IInv, UnracedInv, Filling
  <2> QED
    BY <1>0, <2>2, <2>3, <2>5, <2>7, <2>8, <2>9, FillStepKeeps
<1>4. CASE FillFails(r)
  <2> DEFINE o == NoFill(fill[r].subject)
  <2>1. o \in Check /\ o.pc = "idle" /\ fill' = [fill EXCEPT ![r] = o]
    BY <1>0, <1>4, RecordTypes DEF FillFails, NoFill, Check
  <2> HIDE DEF o
  <2>2. UNCHANGED <<tables, cache, tx, stale, writes, raced>> /\ faults' \in 0..MaxFaults
    BY <1>0, <1>4, BoundAssumption DEF FillFails, Fault, history
  <2>3. fill'[r] = o
    BY <1>0, <2>1
  <2>4. FillInv(r)' /\ FillCurrent(r)'
    BY <2>1, <2>3 DEF FillInv, FillCurrent
  <2> QED
    BY <1>0, <2>1, <2>2, <2>4, FillStepKeeps
<1>5. ASSUME NEW s \in Subject, Miss(r, s)
      PROVE  IInv'
  <2> DEFINE o == [NoFill(s) EXCEPT !.pc = IF s \in User THEN "roleIds" ELSE "key"]
  <2>1. /\ o \in Check /\ o.subject = s
        /\ o.pc = IF s \in User THEN "roleIds" ELSE "key"
    BY <1>0, RecordTypes DEF NoFill, Check
  <2>2. fill' = [fill EXCEPT ![r] = o]
    BY <1>5 DEF Miss
  <2> HIDE DEF o
  <2>3. fill'[r] = o
    BY <1>0, <2>2
  <2>4. FillInv(r)' /\ FillCurrent(r)'
    BY <2>1, <2>3, Kinds DEF FillInv, FillCurrent
  <2>5. /\ UNCHANGED <<tables, cache, tx, stale, writes, faults>>
        /\ raced' = (raced \/ Writing)
    BY <1>5 DEF Miss
  <2>6. raced' \in BOOLEAN
    BY <1>0, <2>5 DEF Writing
  <2> QED
    BY <1>0, <2>1, <2>2, <2>4, <2>5, <2>6, FillStepKeeps
<1> QED
  BY <1>1, <1>2, <1>3, <1>4, <1>5

\* cache.set, with what was read, however long ago.
LEMMA SetKeepsIInv ==
  ASSUME IInv, NEW r \in Reader, Set(r)
  PROVE  IInv'
<1> DEFINE s == fill[r].subject
           e == [perms |-> fill[r].perms, left |-> TTL]
           o == NoFill(s)
<1>1. /\ TypeOK /\ fill[r] \in Check /\ FillInv(r) /\ fill \in [Reader -> Check]
      /\ cache \in [Subject -> Entry] /\ s \in Subject /\ fill[r].age \in 0..MaxFill
      /\ gone \in [Fact -> Int]
  <2>1. /\ TypeOK /\ fill[r] \in Check /\ FillInv(r) /\ fill \in [Reader -> Check]
        /\ cache \in [Subject -> Entry]
    BY RecordTypes DEF IInv
  <2> QED
    BY <2>1, FactAge, CheckAge DEF Check
<1>2. e \in Entry /\ e.left = TTL /\ e.perms = fill[r].perms
  BY <1>1, Times DEF Entry, Check
<1>3. o \in Check /\ o.pc = "idle"
  BY <1>1, RecordTypes DEF NoFill
<1>4. /\ UNCHANGED <<roleIds, grants, minted, expired, tx, gone, effective, raced, writes, faults>>
      /\ cache' = [cache EXCEPT ![s] = e] /\ fill' = [fill EXCEPT ![r] = o]
      /\ fill[r].pc = "set"
  BY DEF Set, tables, history, stale
<1> HIDE DEF s, e, o
<1>5. /\ cache'[s] = e /\ \A q \in Subject \ {s} : cache'[q] = cache[q]
      /\ fill'[r] = o /\ \A q \in Reader \ {r} : fill'[q] = fill[q]
      /\ cache' \in [Subject -> Entry] /\ fill' \in [Reader -> Check]
  BY <1>1, <1>2, <1>3, <1>4
<1>6. TypeOK'
  BY <1>4, <1>5 DEF IInv, TypeOK, Check, Entry
<1>7. FactsInv' /\ \A w \in Writer : WriteInv(w)'
  BY <1>4 DEF IInv, FactsInv, CurrentFacts, WriteInv
<1>8. \A q \in Reader : FillInv(q)'
  BY <1>3, <1>4, <1>5 DEF IInv, FillInv
<1>9. \A q \in Subject : EntryInv(q)'
  <2>1. ASSUME NEW p \in e.perms
        PROVE  HeldWithin(gone, s, p, Bound - TTL)
    <3>1. HeldWithin(gone, s, p, fill[r].age) /\ p \in Permission
      BY <1>1, <1>2, <1>4, <2>1 DEF FillInv, Check, s
    <3>2. \A f \in Fact : gone[f] <= fill[r].age => gone[f] <= Bound - TTL
      BY <1>1, Times
    <3> QED
      BY <1>1, <3>1, <3>2, HeldLonger
  <2> QED
    BY <1>2, <1>4, <1>5, <2>1 DEF IInv, EntryInv
<1>10. UnracedInv'
  <2> SUFFICES ASSUME ~raced
               PROVE  /\ ~(Writing' /\ Filling')
                      /\ \A q \in Subject : EntryCurrent(q)'
                      /\ \A q \in Reader : FillCurrent(q)'
                      /\ \A w \in Writer : WriteCovers(w)'
    BY <1>4 DEF UnracedInv
  <2>1. ~Writing
    BY <1>4 DEF IInv, UnracedInv, Filling
  <2>2. ~Writing' /\ \A w \in Writer : WriteCovers(w)'
    BY <1>4, <2>1 DEF Writing, WriteCovers
  <2>3. \A q \in Subject : EntryCurrent(q)'
    <3>1. s \notin expired => e.perms = Effective(s)
      BY <1>1, <1>2, <1>4 DEF IInv, UnracedInv, FillCurrent, s
    <3>2. ASSUME NEW q \in Subject
          PROVE  EntryCurrent(q)'
      <4>1. CASE q = s
        BY <1>4, <1>5, <3>1, <4>1, SameEffective DEF EntryCurrent
      <4>2. CASE q # s
        BY <1>4, <1>5, <4>2, SameEffective DEF IInv, UnracedInv, EntryCurrent
      <4> QED
        BY <4>1, <4>2
    <3> QED
      BY <3>2
  <2>4. \A q \in Reader : FillCurrent(q)'
    BY <1>3, <1>4, <1>5, SameEffective DEF IInv, UnracedInv, FillCurrent
  <2> QED
    BY <2>2, <2>3, <2>4
<1> QED
  BY <1>6, <1>7, <1>8, <1>9, <1>10 DEF IInv

\* A unit of work writes, invalidates or fails; Redis forgets.
LEMMA WriteKeepsIInv ==
  ASSUME IInv,
         \/ CacheLost
         \/ \E w \in Writer :
               \/ Invalidate(w) \/ Rollback(w)
               \/ (\E t \in Target : Write(w, t)) \/ \E s \in Subject : DeleteEntry(w, s)
  PROVE  IInv'
<1>0. /\ TypeOK /\ raced \in BOOLEAN /\ faults \in 0..MaxFaults /\ writes \in 0..MaxWrites
      /\ cache \in [Subject -> Entry] /\ tx \in [Writer -> WriteUnit] /\ NoEntry \in Entry
      /\ \A w \in Writer : WriteInv(w)
  BY RecordTypes DEF IInv, TypeOK
<1>1. CASE CacheLost
  <2>1. /\ UNCHANGED <<tables, fill, stale, tx, raced, writes>> /\ faults' \in 0..MaxFaults
        /\ cache' = [s \in Subject |-> NoEntry]
    BY <1>0, <1>1, BoundAssumption DEF CacheLost, Fault, history
  <2>2. \A w \in Writer : WriteInv(w)'
    BY <1>0, <2>1 DEF WriteInv
  <2>3. ~raced => \A w \in Writer : WriteCovers(w)'
    <3>1. \A w \in Writer : tx[w].pc = "deleting" => Affected(tx[w].target) \subseteq Subject
      <4>1. \A w \in Writer : tx[w].target \in Target
        BY <1>0 DEF WriteUnit
      <4> QED
        BY <4>1, Kinds DEF Affected
    <3>2. roleIds' = roleIds
      BY <2>1 DEF tables
    <3> QED
      BY <2>1, <3>1, <3>2 DEF WriteCovers, Affected, NoEntry
  <2> QED
    BY <1>0, <2>1, <2>2, <2>3, WriteStepKeeps
<1>2. ASSUME NEW w \in Writer, NEW o \in WriteUnit, tx' = [tx EXCEPT ![w] = o],
             UNCHANGED <<tables, fill, stale>>, cache' \in [Subject -> Entry],
             \A s \in Subject : cache'[s] = cache[s] \/ cache'[s] = NoEntry,
             writes' \in 0..MaxWrites, faults' \in 0..MaxFaults, raced' \in BOOLEAN,
             o.pc # "idle" =>
                o.value \in IF o.target \in User THEN SUBSET Role ELSE SUBSET Permission,
             ~raced' => ~raced /\ (o.pc # "idle" => tx[w].pc # "idle" \/ ~Filling),
             o.pc = "deleting" /\ ~raced =>
                \A s \in Affected(o.target) : s \in o.todo \/ cache'[s].left = 0
      PROVE  IInv'
  <2>1. /\ tx'[w] = o /\ \A v \in Writer \ {w} : tx'[v] = tx[v]
        /\ tx' \in [Writer -> WriteUnit] /\ roleIds' = roleIds
    BY <1>0, <1>2 DEF tables
  <2>2. \A v \in Writer : WriteInv(v)'
    BY <1>0, <1>2, <2>1 DEF WriteInv
  <2>3. ASSUME ~raced'
        PROVE  \A v \in Writer : WriteCovers(v)'
    <3>1. WriteCovers(w)'
      BY <1>2, <2>1, <2>3 DEF WriteCovers, Affected
    <3>2. ASSUME NEW v \in Writer \ {w}
          PROVE  WriteCovers(v)'
      <4>1. WriteCovers(v) /\ tx'[v] = tx[v] /\ tx[v].target \in Target
        BY <1>0, <1>2, <2>1, <2>3 DEF IInv, UnracedInv, WriteUnit
      <4>2. \A s \in Affected(tx[v].target) : s \in Subject /\ (cache[s].left = 0 => cache'[s].left = 0)
        BY <1>2, <4>1, Kinds DEF Affected, NoEntry
      <4> QED
        BY <2>1, <4>1, <4>2 DEF WriteCovers, Affected
    <3> QED
      BY <3>1, <3>2
  <2>4. ASSUME ~raced'
        PROVE  ~Filling \/ \A v \in Writer : tx'[v].pc # "idle" => tx[v].pc # "idle"
    BY <1>2, <2>1, <2>4
  <2> QED
    BY <1>2, <2>1, <2>2, <2>3, <2>4, WriteStepKeeps
<1>3. ASSUME NEW w \in Writer, Invalidate(w)
      PROVE  IInv'
  <2> DEFINE t == tx[w].target
             o == [tx[w] EXCEPT !.pc = "deleting", !.todo = Affected(t)]
  <2>1. tx[w] \in WriteUnit /\ Affected(t) \in SUBSET Subject /\ tx[w].pc = "written"
    <3>1. tx[w] \in WriteUnit /\ t \in Target
      BY <1>0 DEF WriteUnit
    <3> QED
      BY <1>3, <3>1, Kinds DEF Affected, Invalidate
  <2>2. /\ o \in WriteUnit /\ o.pc = "deleting" /\ o.todo = Affected(t) /\ o.target = t
        /\ o.value = tx[w].value
    BY <2>1 DEF WriteUnit
  <2>3. tx' = [tx EXCEPT ![w] = o]
    BY <1>3 DEF Invalidate
  <2>4. UNCHANGED <<tables, fill, stale, cache, raced, writes, faults>>
    BY <1>3 DEF Invalidate, history
  <2>5. o.value \in IF o.target \in User THEN SUBSET Role ELSE SUBSET Permission
    BY <1>0, <2>1, <2>2 DEF WriteInv
  <2> HIDE DEF o
  <2> QED
    BY <1>0, <1>2, <2>1, <2>2, <2>3, <2>4, <2>5
<1>4. ASSUME NEW w \in Writer, Rollback(w)
      PROVE  IInv'
  <2> DEFINE o == NoTx(tx[w].target)
  <2>1. o \in WriteUnit /\ o.pc = "idle"
    <3>1. tx[w].target \in Target
      BY <1>0 DEF WriteUnit
    <3> QED
      BY <1>0, <3>1, RecordTypes DEF NoTx
  <2>2. tx' = [tx EXCEPT ![w] = o]
    BY <1>4 DEF Rollback
  <2>3. UNCHANGED <<tables, fill, stale, cache, raced, writes>> /\ faults' \in 0..MaxFaults
    BY <1>0, <1>4, BoundAssumption DEF Rollback, Fault, history
  <2> HIDE DEF o
  <2> QED
    BY <1>0, <1>2, <2>1, <2>2, <2>3
<1>5. ASSUME NEW w \in Writer, NEW t \in Target, Write(w, t)
      PROVE  IInv'
  <2>1. PICK value \in IF t \in User THEN (SUBSET Role) \ {{}} ELSE SUBSET Permission :
            tx' = [tx EXCEPT ![w] = [pc |-> "written", target |-> t, value |-> value, todo |-> {}]]
    BY <1>5 DEF Write
  <2> DEFINE o == [pc |-> "written", target |-> t, value |-> value, todo |-> {}]
  <2>2. /\ o \in WriteUnit /\ o.pc = "written" /\ o.target = t
        /\ o.value \in IF t \in User THEN SUBSET Role ELSE SUBSET Permission
    <3>1. value \in IF t \in User THEN SUBSET Role ELSE SUBSET Permission
      BY <2>1
    <3>2. value \in (SUBSET Role) \union (SUBSET Permission)
      BY <3>1
    <3> QED
      BY <3>1, <3>2 DEF WriteUnit
  <2>3. tx' = [tx EXCEPT ![w] = o]
    BY <2>1
  <2>4. /\ UNCHANGED <<tables, fill, stale, cache, faults>>
        /\ writes' \in 0..MaxWrites /\ raced' = (raced \/ Filling)
    BY <1>0, <1>5, BoundAssumption DEF Write
  <2>5. raced' \in BOOLEAN
    BY <1>0, <2>4 DEF Filling
  <2> HIDE DEF o
  <2> QED
    BY <1>0, <1>2, <2>2, <2>3, <2>4, <2>5
<1>6. ASSUME NEW w \in Writer, NEW s \in Subject, DeleteEntry(w, s)
      PROVE  IInv'
  <2> DEFINE o == [tx[w] EXCEPT !.todo = @ \ {s}]
  <2>1. tx[w] \in WriteUnit /\ tx[w].pc = "deleting"
    BY <1>0, <1>6 DEF DeleteEntry
  <2>2. /\ o \in WriteUnit /\ o.pc = "deleting" /\ o.todo = tx[w].todo \ {s}
        /\ o.target = tx[w].target /\ o.value = tx[w].value
    BY <2>1 DEF WriteUnit
  <2>3. tx' = [tx EXCEPT ![w] = o] /\ cache' = [cache EXCEPT ![s] = NoEntry]
    BY <1>6 DEF DeleteEntry
  <2>4. UNCHANGED <<tables, fill, stale, raced, writes, faults>>
    BY <1>6 DEF DeleteEntry, history
  <2>5. o.value \in IF o.target \in User THEN SUBSET Role ELSE SUBSET Permission
    BY <1>0, <2>1, <2>2 DEF WriteInv
  <2>6. /\ cache' \in [Subject -> Entry] /\ cache'[s].left = 0
        /\ \A q \in Subject : cache'[q] = cache[q] \/ cache'[q] = NoEntry
    BY <1>0, <2>3 DEF NoEntry
  <2>7. ~raced => \A q \in Affected(o.target) : q \in o.todo \/ cache'[q].left = 0
    <3>1. ~raced => \A q \in Affected(o.target) : q \in tx[w].todo \/ cache[q].left = 0
      BY <2>1, <2>2 DEF IInv, UnracedInv, WriteCovers
    <3>2. \A q \in Affected(o.target) : q \in Subject
      <4>1. o.target \in Target
        BY <2>2 DEF WriteUnit
      <4> QED
        BY <4>1, Kinds DEF Affected
    <3> QED
      BY <2>2, <2>6, <3>1, <3>2 DEF NoEntry
  <2> HIDE DEF o
  <2> QED
    BY <1>0, <1>2, <2>1, <2>2, <2>3, <2>4, <2>5, <2>6, <2>7
<1> QED
  BY <1>1, <1>3, <1>4, <1>5, <1>6

\* The facts age by k at most while checks and entries age by k.
FactsAge(k) == gone' \in [Fact -> Int] /\ \A f \in Fact : gone'[f] <= gone[f] + k
SameCheck(r) ==
    /\ fill'[r].pc = fill[r].pc /\ fill'[r].subject = fill[r].subject
    /\ fill'[r].roles = fill[r].roles /\ fill'[r].perms = fill[r].perms
ChecksAge(k) ==
    /\ fill' \in [Reader -> Check]
    /\ \A r \in Reader : SameCheck(r)
    /\ \A r \in Reader : fill[r].pc # "idle" => fill'[r].age = fill[r].age + k
EntriesAge(k) ==
    /\ cache' \in [Subject -> Entry]
    /\ \A s \in Subject :
          \/ cache'[s] = NoEntry
          \/ cache'[s].perms = cache[s].perms /\ cache'[s].left = cache[s].left - k

\* What checks and entries know of the facts then stays true.
LEMMA AgesKept ==
  ASSUME IInv, NEW k \in {0, 1}, FactsAge(k), ChecksAge(k), EntriesAge(k)
  PROVE  /\ \A r \in Reader : FillInv(r)'
         /\ \A s \in Subject : EntryInv(s)'
<1>0. /\ gone \in [Fact -> Int] /\ fill \in [Reader -> Check] /\ cache \in [Subject -> Entry]
      /\ k \in Int
      /\ gone' \in [Fact -> Int] /\ \A f \in Fact : gone'[f] <= gone[f] + k
      /\ fill' \in [Reader -> Check] /\ cache' \in [Subject -> Entry]
  BY RecordTypes, FactAge DEF IInv, FactsAge, ChecksAge, EntriesAge
<1>1. ASSUME NEW r \in Reader
      PROVE  FillInv(r)'
  <2>1. /\ FillInv(r) /\ fill[r] \in Check /\ fill'[r] \in Check
        /\ fill[r].subject \in Subject /\ fill[r].roles \subseteq Role
        /\ fill[r].perms \subseteq Permission
        /\ fill'[r].pc = fill[r].pc /\ fill'[r].subject = fill[r].subject
        /\ fill'[r].roles = fill[r].roles /\ fill'[r].perms = fill[r].perms
        /\ fill[r].pc # "idle" => fill'[r].age = fill[r].age + k
    <3>1. FillInv(r) /\ fill[r] \in Check /\ fill'[r] \in Check
      BY <1>0 DEF IInv
    <3> QED
      BY <3>1 DEF Check, ChecksAge, SameCheck
  <2>2. fill[r].age \in Int /\ fill'[r].age \in Int
    BY <2>1, CheckAge
  <2>3. ASSUME fill[r].pc = "grants", NEW role \in fill[r].roles
        PROVE  gone'[<<fill[r].subject, role>>] <= fill[r].age + k
    <3>1. <<fill[r].subject, role>> \in Fact /\ gone[<<fill[r].subject, role>>] <= fill[r].age
      BY <2>1, <2>3 DEF FillInv, Fact
    <3> QED
      BY <1>0, <2>2, <3>1
  <2>4. ASSUME fill[r].pc = "set", NEW p \in fill[r].perms
        PROVE  HeldWithin(gone', fill[r].subject, p, fill[r].age + k)
    <3>1. HeldWithin(gone, fill[r].subject, p, fill[r].age)
      BY <2>1, <2>4 DEF FillInv
    <3>2. \A f \in Fact : gone[f] <= fill[r].age => gone'[f] <= fill[r].age + k
      BY <1>0, <2>2
    <3> QED
      BY <2>1, <3>1, <3>2, HeldLonger
  <2> QED
    BY <2>1, <2>3, <2>4 DEF FillInv
<1>2. ASSUME NEW s \in Subject
      PROVE  EntryInv(s)'
  <2>1. CASE cache'[s] = NoEntry
    BY <2>1 DEF EntryInv, NoEntry
  <2>2. CASE cache'[s].perms = cache[s].perms /\ cache'[s].left = cache[s].left - k
    <3>1. cache[s].left \in Int /\ cache[s].perms \subseteq Permission /\ Bound \in Int
      BY <1>0, Times DEF Entry
    <3>2. \A f \in Fact : gone[f] <= Bound - cache[s].left => gone'[f] <= Bound - cache'[s].left
      BY <1>0, <2>2, <3>1
    <3>3. ASSUME NEW p \in cache[s].perms
          PROVE  HeldWithin(gone', s, p, Bound - cache'[s].left)
      <4>1. HeldWithin(gone, s, p, Bound - cache[s].left) /\ p \in Permission
        BY <3>1, <3>3 DEF IInv, EntryInv
      <4> QED
        BY <3>2, <4>1, HeldLonger
    <3> QED
      BY <2>2, <3>3 DEF EntryInv
  <2> QED
    BY <2>1, <2>2 DEF EntriesAge
<1> QED
  BY <1>1, <1>2

\* expiresAt passes: what the key's entry still grants it lost just now.
LEMMA ExpireKeepsIInv ==
  ASSUME IInv, NEW k \in ApiKey, Expire(k)
  PROVE  IInv'
<1>1. /\ UNCHANGED <<roleIds, grants, minted, cache, tx, fill, gone, effective, raced, writes, faults>>
      /\ expired' = expired \union {k}
  BY DEF Expire, history, stale
<1>2. TypeOK'
  BY <1>1 DEF IInv, TypeOK
<1>3. FactsInv'
  <2>1. \A q \in ApiKey : Usable(minted, expired')[q] \subseteq Usable(minted, expired)[q]
    BY <1>1 DEF Usable
  <2>2. CurrentFacts' \subseteq CurrentFacts
    BY <1>1, <2>1 DEF CurrentFacts, Facts
  <2> QED
    BY <1>1, <2>2 DEF IInv, FactsInv
<1>4. /\ \A r \in Reader : FillInv(r)'
      /\ \A s \in Subject : EntryInv(s)'
      /\ \A w \in Writer : WriteInv(w)'
  BY <1>1 DEF IInv, FillInv, EntryInv, WriteInv
<1>5. ASSUME NEW s \in Subject \ expired'
      PROVE  Effective(s)' = Effective(s)
  BY <1>1, <1>5 DEF Effective, Usable, Subject
<1>6. UnracedInv'
  BY <1>1, <1>5
  DEF IInv, UnracedInv, Writing, Filling, EntryCurrent, FillCurrent, WriteCovers, Affected
<1> QED
  BY <1>2, <1>3, <1>4, <1>6 DEF IInv

\* Time passes: facts, checks and entries age together.
LEMMA TickKeepsIInv ==
  ASSUME IInv, Tick
  PROVE  IInv'
<1>1. /\ UNCHANGED <<roleIds, grants, minted, expired, tx, effective, raced, writes, faults>>
      /\ CurrentFacts' = CurrentFacts
  BY DEF Tick, tables, CurrentFacts
<1>2. /\ gone \in [Fact -> 0..(Bound + 1)] /\ fill \in [Reader -> Check]
      /\ cache \in [Subject -> Entry]
  BY RecordTypes, FactAge DEF IInv
<1>3. /\ gone' \in [Fact -> 0..(Bound + 1)]
      /\ \A f \in Fact : gone'[f] <= gone[f] + 1
      /\ \A f \in CurrentFacts : f \in Fact => gone'[f] = 0
  BY <1>2, Times DEF Tick
<1>4. ChecksAge(1)
  <2>1. fill' = [r \in Reader |-> IF fill[r].pc = "idle" THEN fill[r]
                                  ELSE [fill[r] EXCEPT !.age = @ + 1]]
    BY DEF Tick
  <2>2. ASSUME NEW r \in Reader
        PROVE  /\ fill'[r] \in Check /\ SameCheck(r)
               /\ fill[r].pc # "idle" => fill'[r].age = fill[r].age + 1
    <3>1. CASE fill[r].pc = "idle"
      BY <1>2, <2>1, <3>1 DEF SameCheck
    <3>2. CASE fill[r].pc # "idle"
      <4>1. fill'[r] = [fill[r] EXCEPT !.age = fill[r].age + 1]
        BY <2>1, <3>2
      <4>2. fill[r] \in Check /\ fill[r].age < MaxFill
        BY <1>2, <3>2 DEF Tick
      <4>3. fill[r].age + 1 \in 0..MaxFill
        BY <4>2, CheckAge, Times
      <4> QED
        BY <4>1, <4>2, <4>3 DEF Check, SameCheck
    <3> QED
      BY <3>1, <3>2
  <2> QED
    BY <2>1, <2>2 DEF ChecksAge
<1>5. /\ cache' \in [Subject -> Entry]
      /\ \A s \in Subject : \/ cache'[s] = NoEntry
                            \/ /\ cache'[s].perms = cache[s].perms /\ cache[s].left > 0
                               /\ cache'[s].left = cache[s].left - 1
  <2>1. cache' = [s \in Subject |-> Aged(cache[s])]
    BY DEF Tick
  <2>2. ASSUME NEW s \in Subject
        PROVE  /\ cache'[s] \in Entry
               /\ \/ cache'[s] = NoEntry
                  \/ /\ cache'[s].perms = cache[s].perms /\ cache[s].left > 0
                     /\ cache'[s].left = cache[s].left - 1
    <3>1. cache[s] \in Entry /\ cache[s].left \in 0..TTL /\ NoEntry \in Entry
      BY <1>2, RecordTypes DEF IInv, Entry
    <3>2. CASE cache[s].left <= 1
      BY <2>1, <3>1, <3>2 DEF Aged
    <3>3. CASE ~(cache[s].left <= 1)
      <4>1. cache'[s] = [cache[s] EXCEPT !.left = cache[s].left - 1]
        BY <2>1, <3>3 DEF Aged
      <4>2. cache[s].left - 1 \in 0..TTL /\ cache[s].left > 0
        BY <3>1, <3>3, Times
      <4> QED
        BY <3>1, <4>1, <4>2 DEF Entry
    <3> QED
      BY <3>2, <3>3
  <2> QED
    BY <2>1, <2>2
<1>6. TypeOK'
  BY <1>1, <1>3, <1>4, <1>5 DEF ChecksAge, IInv, TypeOK, Check, Entry
<1>7. FactsInv'
  <2>1. CurrentFacts \subseteq Fact
    BY FactsAreThere DEF IInv
  <2> QED
    BY <1>1, <1>3, <2>1 DEF FactsInv
<1>8. (\A r \in Reader : FillInv(r)') /\ (\A s \in Subject : EntryInv(s)')
  <2>1. FactsAge(1)
    BY <1>3, Times DEF FactsAge
  <2>2. EntriesAge(1)
    BY <1>5 DEF EntriesAge
  <2> QED
    BY <1>4, <2>1, <2>2, AgesKept
<1>9. \A w \in Writer : WriteInv(w)'
  BY <1>1 DEF IInv, WriteInv
<1>10. UnracedInv'
  <2> SUFFICES ASSUME ~raced
               PROVE  /\ ~(Writing' /\ Filling')
                      /\ \A q \in Subject : EntryCurrent(q)'
                      /\ \A q \in Reader : FillCurrent(q)'
                      /\ \A w \in Writer : WriteCovers(w)'
    BY <1>1 DEF UnracedInv
  <2>0. \A r \in Reader : /\ fill'[r].pc = fill[r].pc /\ fill'[r].subject = fill[r].subject
                          /\ fill'[r].roles = fill[r].roles /\ fill'[r].perms = fill[r].perms
    BY <1>4 DEF ChecksAge, SameCheck
  <2>1. ~(Writing' /\ Filling')
    BY <1>1, <2>0 DEF IInv, UnracedInv, Writing, Filling
  <2>2. \A q \in Subject : EntryCurrent(q)'
    BY <1>1, <1>5, SameEffective DEF IInv, UnracedInv, EntryCurrent, NoEntry
  <2>3. \A q \in Reader : FillCurrent(q)'
    BY <1>1, <2>0, SameEffective DEF IInv, UnracedInv, FillCurrent
  <2>4. ASSUME NEW w \in Writer
        PROVE  WriteCovers(w)'
    <3>1. tx[w].target \in Target /\ WriteCovers(w)
      BY RecordTypes DEF IInv, UnracedInv, WriteUnit
    <3>2. \A s \in Affected(tx[w].target) : s \in Subject
      BY <3>1, Kinds DEF Affected
    <3>3. \A s \in Subject : cache[s].left = 0 => cache'[s].left = 0
      BY <1>5 DEF NoEntry
    <3> QED
      BY <1>1, <3>1, <3>2, <3>3 DEF WriteCovers, Affected
  <2> QED
    BY <2>1, <2>2, <2>3, <2>4
<1> QED
  BY <1>6, <1>7, <1>8, <1>9, <1>10 DEF IInv

\* COMMIT changes the permissions of those it concerns, and of nobody else.
LEMMA OnlyAffectedChange ==
  ASSUME TypeOK, NEW w \in Writer, Commit(w), NEW s \in Subject,
         s \notin Affected(tx[w].target)
  PROVE  Effective(s)' = Effective(s)
<1> DEFINE t == tx[w].target
<1>1. t \in Target
  BY RecordTypes DEF WriteUnit
<1>2. /\ expired' = expired
      /\ roleIds' = IF t \in User THEN [roleIds EXCEPT ![t] = tx[w].value] ELSE roleIds
      /\ grants' = IF t \in Role THEN [grants EXCEPT ![t] = tx[w].value] ELSE grants
      /\ minted' = IF t \in ApiKey THEN [minted EXCEPT ![t] = tx[w].value] ELSE minted
  BY DEF Commit
<1>3. CASE s \in User
  <2>1. roleIds'[s] = roleIds[s]
    BY <1>1, <1>2, <1>3, Kinds DEF Affected, TypeOK
  <2>2. \A r \in roleIds[s] : grants'[r] = grants[r]
    BY <1>1, <1>2, <1>3, Kinds DEF Affected, TypeOK
  <2> QED
    BY <1>3, <2>1, <2>2 DEF Effective
<1>4. CASE s \in ApiKey
  <2>1. minted'[s] = minted[s]
    BY <1>1, <1>2, <1>4, Kinds DEF Affected, TypeOK
  <2> QED
    BY <1>2, <1>4, <2>1, Kinds DEF Effective, Usable
<1> QED
  BY <1>3, <1>4, Kinds

\* COMMIT: the tables change, the entries of everyone concerned are gone.
LEMMA CommitKeepsIInv ==
  ASSUME IInv, NEW w \in Writer, Commit(w)
  PROVE  IInv'
<1> DEFINE t == tx[w].target
<1>1. /\ UNCHANGED <<expired, cache, fill, raced, writes, faults>>
      /\ tx[w].pc = "deleting" /\ tx[w].todo = {}
      /\ roleIds' = IF t \in User THEN [roleIds EXCEPT ![t] = tx[w].value] ELSE roleIds
      /\ gone' = [f \in Fact |-> IF f \in CurrentFacts' THEN 0 ELSE gone[f]]
      /\ tx' = [tx EXCEPT ![w] = NoTx(t)]
  BY DEF Commit
<1>2. /\ tx \in [Writer -> WriteUnit] /\ tx[w] \in WriteUnit /\ t \in Target /\ NoTx(t) \in WriteUnit
      /\ gone \in [Fact -> 0..(Bound + 1)]
      /\ tx[w].value \in IF t \in User THEN SUBSET Role ELSE SUBSET Permission
  <2>1. tx \in [Writer -> WriteUnit] /\ gone \in [Fact -> 0..(Bound + 1)]
    BY RecordTypes, FactAge DEF IInv
  <2>2. tx[w] \in WriteUnit
    BY <2>1
  <2>3. t \in Target
    BY <2>2 DEF WriteUnit
  <2> QED
    BY <1>1, <2>1, <2>2, <2>3, RecordTypes DEF IInv, WriteInv
<1>3. /\ tx' \in [Writer -> WriteUnit] /\ tx'[w].pc = "idle"
      /\ \A v \in Writer \ {w} : tx'[v] = tx[v]
  BY <1>1, <1>2 DEF NoTx
<1>4. gone' \in [Fact -> 0..(Bound + 1)] /\ \A f \in Fact : gone'[f] <= gone[f] + 0
  BY <1>1, <1>2, Times
<1>5. TypeOK'
  <2>1. roleIds' \in [User -> SUBSET Role]
    BY <1>1, <1>2 DEF IInv, TypeOK
  <2>2. grants' \in [Role -> SUBSET Permission]
    BY <1>2, Kinds DEF IInv, TypeOK, Commit
  <2>3. minted' \in [ApiKey -> SUBSET Permission]
    BY <1>2, Kinds DEF IInv, TypeOK, Commit
  <2>4. effective' \subseteq Subject \X Permission
    BY DEF IInv, TypeOK, Commit
  <2> QED
    BY <1>1, <1>3, <1>4, <2>1, <2>2, <2>3, <2>4 DEF IInv, TypeOK, WriteUnit
<1>6. FactsInv'
  <2>1. CurrentFacts' \subseteq Fact
    BY DEF CurrentFacts, Facts
  <2> QED
    BY <1>1, <2>1 DEF FactsInv
<1>7. (\A r \in Reader : FillInv(r)') /\ (\A s \in Subject : EntryInv(s)')
  <2>1. FactsAge(0)
    BY <1>4, Times DEF FactsAge
  <2>2. fill \in [Reader -> Check] /\ cache \in [Subject -> Entry]
    BY RecordTypes DEF IInv
  <2>3. ChecksAge(0)
    <3>1. \A r \in Reader : fill[r].age \in Int
      BY <2>2, CheckAge
    <3> QED
      BY <1>1, <2>2, <3>1 DEF ChecksAge, SameCheck
  <2>4. EntriesAge(0)
    <3>1. \A s \in Subject : cache[s].left \in Int
      BY <2>2, Times DEF Entry
    <3> QED
      BY <1>1, <2>2, <3>1 DEF EntriesAge
  <2> QED
    BY <2>1, <2>3, <2>4, AgesKept
<1>8. \A v \in Writer : WriteInv(v)'
  BY <1>3 DEF IInv, WriteInv
<1>9. UnracedInv'
  <2> SUFFICES ASSUME ~raced
               PROVE  /\ ~(Writing' /\ Filling')
                      /\ \A q \in Subject : EntryCurrent(q)'
                      /\ \A q \in Reader : FillCurrent(q)'
                      /\ \A v \in Writer : WriteCovers(v)'
    BY <1>1 DEF UnracedInv
  <2>1. /\ \A r \in Reader : fill[r].pc = "idle"
        /\ \A s \in Subject : EntryCurrent(s)
        /\ \A v \in Writer : WriteCovers(v)
    BY <1>1 DEF IInv, UnracedInv, Writing, Filling
  <2>2. \A s \in Affected(t) : cache[s].left = 0
    BY <1>1, <2>1 DEF WriteCovers
  <2>3. ASSUME NEW s \in Subject
        PROVE  EntryCurrent(s)'
    <3>1. CASE s \in Affected(t)
      BY <1>1, <2>2, <3>1 DEF EntryCurrent
    <3>2. CASE s \notin Affected(t)
      <4>1. Effective(s)' = Effective(s)
        BY <3>2, OnlyAffectedChange DEF IInv
      <4> QED
        BY <1>1, <2>1, <4>1 DEF EntryCurrent
    <3> QED
      BY <3>1, <3>2
  <2>4. \A q \in Reader : FillCurrent(q)'
    BY <1>1, <2>1 DEF FillCurrent
  <2>5. ASSUME NEW v \in Writer
        PROVE  WriteCovers(v)'
    <3>1. CASE v = w
      BY <1>3, <3>1 DEF WriteCovers
    <3>2. CASE v # w
      <4> DEFINE a == tx[v].target
      <4>1. tx'[v] = tx[v] /\ WriteCovers(v)
        BY <1>3, <2>1, <3>2
      <4>2. ASSUME NEW s, s \in Affected(a)', tx[v].pc = "deleting"
            PROVE  s \in tx[v].todo \/ cache[s].left = 0
        <5>1. CASE s \in Affected(a)
          BY <4>1, <4>2, <5>1 DEF WriteCovers
        <5>2. CASE s \notin Affected(a)
          <6>1. s = t /\ t \in User
            BY <1>1, <1>2, <4>1, <4>2, <5>2 DEF Affected, IInv, TypeOK
          <6> QED
            BY <2>2, <6>1, Kinds DEF Affected
        <5> QED
          BY <5>1, <5>2
      <4> QED
        BY <1>1, <4>1, <4>2 DEF WriteCovers, Affected
    <3> QED
      BY <3>1, <3>2
  <2>6. ~(Writing' /\ Filling')
    BY <1>1, <2>1 DEF Filling
  <2> QED
    BY <2>3, <2>4, <2>5, <2>6
<1> QED
  BY <1>5, <1>6, <1>7, <1>8, <1>9 DEF IInv

-----------------------------------------------------------------------------
(* The theorems.                                                            *)

\* Whatever step is taken.
LEMMA NextIInv == IInv /\ [Next]_vars => IInv'
<1> SUFFICES ASSUME IInv, [Next]_vars PROVE IInv'
  OBVIOUS
<1>1. ASSUME NEW r \in Reader, FillStep(r) \/ FillFails(r) \/ \E s \in Subject : Miss(r, s)
      PROVE  IInv'
  BY <1>1, CheckKeepsIInv, SetKeepsIInv DEF FillStep
<1>2. ASSUME NEW w \in Writer, WriteStep(w) \/ Rollback(w) \/ \E t \in Target : Write(w, t)
      PROVE  IInv'
  BY <1>2, WriteKeepsIInv, CommitKeepsIInv DEF WriteStep
<1>3. ASSUME NEW k \in ApiKey, Expire(k)
      PROVE  IInv'
  BY <1>3, ExpireKeepsIInv
<1>4. ASSUME UNCHANGED vars
      PROVE  IInv'
  <2>1. UNCHANGED <<roleIds, grants, minted, expired, cache, tx, fill, gone, effective,
                    raced, writes, faults>>
    BY <1>4 DEF vars, tables, history, stale
  <2>2. TypeOK' /\ FactsInv'
    BY <2>1 DEF IInv, TypeOK, FactsInv, CurrentFacts
  <2>4. UnracedInv'
    <3>1. \A s : Effective(s)' = Effective(s)
      BY <2>1, SameEffective
    <3>2. \A s \in Subject : EntryCurrent(s)' = EntryCurrent(s)
      BY <2>1, <3>1 DEF EntryCurrent
    <3>3. \A r \in Reader : FillCurrent(r)' = FillCurrent(r)
      BY <2>1, <3>1 DEF FillCurrent
    <3>4. \A w \in Writer : WriteCovers(w)' = WriteCovers(w)
      BY <2>1 DEF WriteCovers, Affected
    <3>5. Writing' = Writing /\ Filling' = Filling
      BY <2>1 DEF Writing, Filling
    <3> QED
      BY <2>1, <3>2, <3>3, <3>4, <3>5 DEF IInv, UnracedInv
  <2>3. /\ \A r \in Reader : FillInv(r)'
        /\ \A s \in Subject : EntryInv(s)'
        /\ \A w \in Writer : WriteInv(w)'
    BY <2>1 DEF IInv, FillInv, EntryInv, WriteInv
  <2> QED
    BY <2>2, <2>3, <2>4 DEF IInv
<1> QED
  BY <1>1, <1>2, <1>3, <1>4, TickKeepsIInv, WriteKeepsIInv DEF Next

\* So it holds in every behaviour.
LEMMA Invariance == Spec => []IInv
BY InitIInv, NextIInv, PTL DEF Spec

\* IInv says what it is for.
LEMMA IInvImplies == IInv => TypeOK /\ StaleGrantBounded /\ ImmediateUnlessRaced
<1>1. IInv => TypeOK
  BY DEF IInv
<1>2. IInv => StaleGrantBounded
  <2> SUFFICES ASSUME IInv, NEW s \in Subject, NEW p \in cache[s].perms
               PROVE  HeldLately(s, p)
    BY DEF StaleGrantBounded
  <2>1. /\ HeldWithin(gone, s, p, Bound - cache[s].left)
        /\ p \in Permission /\ cache[s].left \in 0..TTL
    BY RecordTypes DEF IInv, EntryInv, Entry
  <2>2. \A f \in Fact : gone[f] <= Bound - cache[s].left => gone[f] <= Bound
    BY <2>1, FactAge, Times DEF IInv
  <2>3. HeldWithin(gone, s, p, Bound)
    BY <2>1, <2>2, HeldLonger
  <2> QED
    BY <2>3 DEF HeldWithin, HeldLately
<1>3. IInv => ImmediateUnlessRaced
  BY DEF IInv, UnracedInv, EntryCurrent, ImmediateUnlessRaced
<1> QED
  BY <1>1, <1>2, <1>3

\* Every variable keeps its type.
THEOREM TypeCorrect == Spec => []TypeOK
BY Invariance, IInvImplies, PTL

\* AuthorizationService: what a check is granted from the cache was a
\* permission of the subject at most TTL and the length of a fill ago, however
\* checks, invalidations and commits interleave and whatever fails.
THEOREM StaleGrantsAreBounded == Spec => []StaleGrantBounded
BY Invariance, IInvImplies, PTL

\* AuthorizationService.invalidate before the COMMIT is enough as long as no
\* check overlaps a unit of work: every entry then says what the tables say.
THEOREM RevocationIsImmediate == Spec => []ImmediateUnlessRaced
BY Invariance, IInvImplies, PTL
=============================================================================
