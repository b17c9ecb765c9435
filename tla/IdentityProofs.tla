------------------------------ MODULE IdentityProofs ------------------------------
(***************************************************************************)
(* The components of MCIdentity proved side by side, for any number of     *)
(* units of work, rows, tokens and ticks.  The instances of                *)
(* PermissionCache keep the inductive invariant of PermissionCacheProofs;  *)
(* API keys, roles, invitations and password resets have one of their own. *)
(* Each of those has the same shape: what holds of every unit of work by   *)
(* its place in its operation, what locks and unique indexes keep apart,   *)
(* and what a unit of work still knows as long as it has run alone.        *)
(***************************************************************************)
EXTENDS MCIdentity, PermissionCacheProofs, FiniteSetTheorems

UserProofs == INSTANCE PermissionCacheProofs WITH User <- {"u1"}, MaxWrites <- 2

KeyProofs == INSTANCE PermissionCacheProofs WITH
    User <- {}, Role <- {}, Permission <- {"p"}, ApiKey <- {"k1"}, Reader <- Caller, MaxWrites <- 3

\* What holds of the permission cache in the instance that takes steps.
CacheInv ==
    /\ part = "cache" => IInv
    /\ part = "userCache" => UserProofs!IInv
    /\ part = "keyCache" => KeyProofs!IInv

-----------------------------------------------------------------------------
(* The instances of PermissionCache and of its proofs are the same.         *)

\* The instance with one user.
LEMMA UserCacheIsItself ==
  /\ UserCache!Init = UserProofs!Init
  /\ UserCache!Next = UserProofs!Next
  /\ UserCache!TypeOK = UserProofs!TypeOK
  /\ UserCache!StaleGrantBounded = UserProofs!StaleGrantBounded
  /\ UserCache!ImmediateUnlessRaced = UserProofs!ImmediateUnlessRaced
<1>1. UserCache!Init = UserProofs!Init
  BY DEF
      UserCache!Init, UserProofs!Init, UserCache!Subject, UserProofs!Subject,
      UserCache!Bound, UserProofs!Bound, UserCache!Fact, UserProofs!Fact, UserCache!Facts,
      UserProofs!Facts, UserCache!Usable, UserProofs!Usable, UserCache!CurrentFacts,
      UserProofs!CurrentFacts, UserCache!Effective, UserProofs!Effective,
      UserCache!NoEntry, UserProofs!NoEntry, UserCache!NoTx, UserProofs!NoTx,
      UserCache!NoFill, UserProofs!NoFill, UserCache!Target, UserProofs!Target
<1>2. UserCache!Next = UserProofs!Next
  BY DEF
      UserCache!Next, UserProofs!Next, UserCache!FillStep, UserProofs!FillStep,
      UserCache!FillFails, UserProofs!FillFails, UserCache!Miss, UserProofs!Miss,
      UserCache!ReadRoleIds, UserProofs!ReadRoleIds, UserCache!ReadGrants,
      UserProofs!ReadGrants, UserCache!ReadKey, UserProofs!ReadKey, UserCache!Set,
      UserProofs!Set, UserCache!WriteStep, UserProofs!WriteStep, UserCache!Rollback,
      UserProofs!Rollback, UserCache!Write, UserProofs!Write, UserCache!Invalidate,
      UserProofs!Invalidate, UserCache!DeleteEntry, UserProofs!DeleteEntry,
      UserCache!Commit, UserProofs!Commit, UserCache!Expire, UserProofs!Expire,
      UserCache!CacheLost, UserProofs!CacheLost, UserCache!Tick, UserProofs!Tick,
      UserCache!Subject, UserProofs!Subject, UserCache!Bound, UserProofs!Bound,
      UserCache!Fact, UserProofs!Fact, UserCache!Facts, UserProofs!Facts, UserCache!Usable,
      UserProofs!Usable, UserCache!CurrentFacts, UserProofs!CurrentFacts,
      UserCache!Effective, UserProofs!Effective, UserCache!NoEntry, UserProofs!NoEntry,
      UserCache!NoTx, UserProofs!NoTx, UserCache!NoFill, UserProofs!NoFill,
      UserCache!Target, UserProofs!Target, UserCache!tables, UserProofs!tables,
      UserCache!stale, UserProofs!stale, UserCache!history, UserProofs!history,
      UserCache!Writing, UserProofs!Writing, UserCache!Filling, UserProofs!Filling,
      UserCache!Fault, UserProofs!Fault, UserCache!Locked, UserProofs!Locked,
      UserCache!Affected, UserProofs!Affected, UserCache!Aged, UserProofs!Aged
<1>3. UserCache!TypeOK = UserProofs!TypeOK
  BY DEF
      UserCache!TypeOK, UserProofs!TypeOK, UserCache!Subject, UserProofs!Subject,
      UserCache!Bound, UserProofs!Bound, UserCache!Fact, UserProofs!Fact, UserCache!Target,
      UserProofs!Target
<1>4. UserCache!StaleGrantBounded = UserProofs!StaleGrantBounded
  BY DEF
      UserCache!StaleGrantBounded, UserProofs!StaleGrantBounded, UserCache!HeldLately,
      UserProofs!HeldLately, UserCache!Subject, UserProofs!Subject, UserCache!Bound,
      UserProofs!Bound
<1>5. UserCache!ImmediateUnlessRaced = UserProofs!ImmediateUnlessRaced
  BY DEF
      UserCache!ImmediateUnlessRaced, UserProofs!ImmediateUnlessRaced, UserCache!Writing,
      UserProofs!Writing, UserCache!Subject, UserProofs!Subject, UserCache!Effective,
      UserProofs!Effective, UserCache!Usable, UserProofs!Usable
<1> QED
  BY <1>1, <1>2, <1>3, <1>4, <1>5

\* The instance with one key.
LEMMA KeyCacheIsItself ==
  /\ KeyCache!Init = KeyProofs!Init
  /\ KeyCache!Next = KeyProofs!Next
  /\ KeyCache!TypeOK = KeyProofs!TypeOK
  /\ KeyCache!StaleGrantBounded = KeyProofs!StaleGrantBounded
  /\ KeyCache!ImmediateUnlessRaced = KeyProofs!ImmediateUnlessRaced
<1>1. KeyCache!Init = KeyProofs!Init
  BY DEF
      KeyCache!Init, KeyProofs!Init, KeyCache!Subject, KeyProofs!Subject, KeyCache!Bound,
      KeyProofs!Bound, KeyCache!Fact, KeyProofs!Fact, KeyCache!Facts, KeyProofs!Facts,
      KeyCache!Usable, KeyProofs!Usable, KeyCache!CurrentFacts, KeyProofs!CurrentFacts,
      KeyCache!Effective, KeyProofs!Effective, KeyCache!NoEntry, KeyProofs!NoEntry,
      KeyCache!NoTx, KeyProofs!NoTx, KeyCache!NoFill, KeyProofs!NoFill, KeyCache!Target,
      KeyProofs!Target
<1>2. KeyCache!Next = KeyProofs!Next
  BY DEF
      KeyCache!Next, KeyProofs!Next, KeyCache!FillStep, KeyProofs!FillStep,
      KeyCache!FillFails, KeyProofs!FillFails, KeyCache!Miss, KeyProofs!Miss,
      KeyCache!ReadRoleIds, KeyProofs!ReadRoleIds, KeyCache!ReadGrants,
      KeyProofs!ReadGrants, KeyCache!ReadKey, KeyProofs!ReadKey, KeyCache!Set,
      KeyProofs!Set, KeyCache!WriteStep, KeyProofs!WriteStep, KeyCache!Rollback,
      KeyProofs!Rollback, KeyCache!Write, KeyProofs!Write, KeyCache!Invalidate,
      KeyProofs!Invalidate, KeyCache!DeleteEntry, KeyProofs!DeleteEntry, KeyCache!Commit,
      KeyProofs!Commit, KeyCache!Expire, KeyProofs!Expire, KeyCache!CacheLost,
      KeyProofs!CacheLost, KeyCache!Tick, KeyProofs!Tick, KeyCache!Subject,
      KeyProofs!Subject, KeyCache!Bound, KeyProofs!Bound, KeyCache!Fact, KeyProofs!Fact,
      KeyCache!Facts, KeyProofs!Facts, KeyCache!Usable, KeyProofs!Usable,
      KeyCache!CurrentFacts, KeyProofs!CurrentFacts, KeyCache!Effective,
      KeyProofs!Effective, KeyCache!NoEntry, KeyProofs!NoEntry, KeyCache!NoTx,
      KeyProofs!NoTx, KeyCache!NoFill, KeyProofs!NoFill, KeyCache!Target, KeyProofs!Target,
      KeyCache!tables, KeyProofs!tables, KeyCache!stale, KeyProofs!stale, KeyCache!history,
      KeyProofs!history, KeyCache!Writing, KeyProofs!Writing, KeyCache!Filling,
      KeyProofs!Filling, KeyCache!Fault, KeyProofs!Fault, KeyCache!Locked,
      KeyProofs!Locked, KeyCache!Affected, KeyProofs!Affected, KeyCache!Aged,
      KeyProofs!Aged
<1>3. KeyCache!TypeOK = KeyProofs!TypeOK
  BY DEF
      KeyCache!TypeOK, KeyProofs!TypeOK, KeyCache!Subject, KeyProofs!Subject,
      KeyCache!Bound, KeyProofs!Bound, KeyCache!Fact, KeyProofs!Fact, KeyCache!Target,
      KeyProofs!Target
<1>4. KeyCache!StaleGrantBounded = KeyProofs!StaleGrantBounded
  BY DEF
      KeyCache!StaleGrantBounded, KeyProofs!StaleGrantBounded, KeyCache!HeldLately,
      KeyProofs!HeldLately, KeyCache!Subject, KeyProofs!Subject, KeyCache!Bound,
      KeyProofs!Bound
<1>5. KeyCache!ImmediateUnlessRaced = KeyProofs!ImmediateUnlessRaced
  BY DEF
      KeyCache!ImmediateUnlessRaced, KeyProofs!ImmediateUnlessRaced, KeyCache!Writing,
      KeyProofs!Writing, KeyCache!Subject, KeyProofs!Subject, KeyCache!Effective,
      KeyProofs!Effective, KeyCache!Usable, KeyProofs!Usable
<1> QED
  BY <1>1, <1>2, <1>3, <1>4, <1>5

\* Constants of the instances are what PermissionCache assumes of them.
LEMMA CacheConstants ==
  /\ UserProofs!SubjectAssumption /\ UserProofs!TimeAssumption /\ UserProofs!BoundAssumption
  /\ KeyProofs!SubjectAssumption /\ KeyProofs!TimeAssumption /\ KeyProofs!BoundAssumption
BY CacheAssumption, TimeAssumption, BoundAssumption
DEF UserCache!SubjectAssumption, UserProofs!SubjectAssumption, UserCache!Subject, UserProofs!Subject,
    KeyCache!SubjectAssumption, KeyProofs!SubjectAssumption, KeyCache!Subject, KeyProofs!Subject,
    UserProofs!TimeAssumption, UserProofs!BoundAssumption,
    KeyProofs!TimeAssumption, KeyProofs!BoundAssumption

-----------------------------------------------------------------------------
(* The permission cache.                                                    *)

\* The instances start in their initial states.
LEMMA InitCacheInv == IdentityInit => CacheInv
<1> SUFFICES ASSUME IdentityInit PROVE CacheInv
  OBVIOUS
<1>1. part = "cache" => Init
  BY DEF IdentityInit
<1>2. part = "userCache" => UserCache!Init
  BY DEF IdentityInit
<1>3. part = "keyCache" => KeyCache!Init
  BY DEF IdentityInit
<1>4. UserCache!Init => UserProofs!IInv
  BY UserCacheIsItself, UserProofs!InitIInv, CacheConstants
<1>5. KeyCache!Init => KeyProofs!IInv
  BY KeyCacheIsItself, KeyProofs!InitIInv, CacheConstants
<1> QED
  BY <1>1, <1>2, <1>3, <1>4, <1>5, InitIInv DEF CacheInv

\* A step of one instance keeps its invariant, a step of another component
\* changes nothing of it.
LEMMA NextCacheInv ==
  CacheInv /\ [IdentityNext]_<<part, vars, rolesVars, keysVars, invitationVars, resetVars>>
    => CacheInv'
<1> SUFFICES ASSUME CacheInv,
                    [IdentityNext]_<<part, vars, rolesVars, keysVars, invitationVars, resetVars>>
             PROVE  CacheInv'
  OBVIOUS
<1>1. /\ part' = part
      /\ part = "cache" => [Next]_vars
      /\ part = "userCache" => [UserProofs!Next]_vars
      /\ part = "keyCache" => [KeyProofs!Next]_vars
  BY UserCacheIsItself, KeyCacheIsItself
  DEF IdentityNext, Cache, CustomRoles, KeysChange, KeyIsUsed, Inviting, Resetting
<1>2. UNCHANGED vars => UNCHANGED UserProofs!vars /\ UNCHANGED KeyProofs!vars
  BY DEF vars, tables, stale, history,
         UserProofs!vars, UserProofs!tables, UserProofs!stale, UserProofs!history,
         KeyProofs!vars, KeyProofs!tables, KeyProofs!stale, KeyProofs!history
<1>3. CASE part = "cache"
  BY <1>1, <1>3, NextIInv DEF CacheInv
<1>4. CASE part = "userCache"
  <2>1. UserProofs!IInv /\ [UserProofs!Next]_UserProofs!vars
    BY <1>1, <1>2, <1>4 DEF CacheInv
  <2>2. UserProofs!IInv'
    BY <2>1, UserProofs!NextIInv, CacheConstants
  <2> QED
    BY <1>1, <1>4, <2>2 DEF CacheInv
<1>5. CASE part = "keyCache"
  <2>1. KeyProofs!IInv /\ [KeyProofs!Next]_KeyProofs!vars
    BY <1>1, <1>2, <1>5 DEF CacheInv
  <2>2. KeyProofs!IInv'
    BY <2>1, KeyProofs!NextIInv, CacheConstants
  <2> QED
    BY <1>1, <1>5, <2>2 DEF CacheInv
<1>6. CASE part \notin {"cache", "userCache", "keyCache"}
  BY <1>1, <1>6 DEF CacheInv
<1> QED
  BY <1>3, <1>4, <1>5, <1>6

-----------------------------------------------------------------------------
(* API keys.                                                                *)

\* A unit of work.
KeyUnitType ==
    [pc : {"idle", "load", "save", "write", "commit"},
     op : {"rename", "replace", "revoke"}, perms : SUBSET KeyPermission,
     at : Keys!Time, loaded : Keys!Row, changed : SUBSET {"perms", "revokedAt", "lastUsedAt"}]

\* One that has read the key.
KeyLoaded(p) == keyUnit[p].pc \in {"save", "write", "commit"}

\* Units of work are counted when they begin; they and the requests that have
\* been accepted concern a key that exists.
KeyUnitsInv ==
    /\ IsFiniteSet(Keys!Open) /\ revocations + Cardinality(Keys!Open) <= keyStarted
    /\ \A p \in Unit : (keyUnit[p].op = "replace") <=> (keyUnit[p].perms # {})
    /\ \A p \in Keys!Open : key.perms # {}
    /\ \A r \in Caller : request[r].pc = "touch" => key.perms # {}

\* What a unit of work has loaded was a key in force.
KeyLoadedInv ==
    \A p \in Unit : KeyLoaded(p) =>
        /\ keyUnit[p].at # 0
        /\ keyUnit[p].loaded.perms # {}
        /\ keyUnit[p].loaded.revokedAt = 0

\* A unit of work that runs alone still knows the permissions of the key and
\* that it is not revoked, and writes what it was asked to change.
KeyKnown(p) ==
    /\ keyUnit[p].loaded.perms = key.perms /\ key.revokedAt = 0
    /\ keyUnit[p].pc # "save" =>
          /\ "perms" \in keyUnit[p].changed => keyUnit[p].op = "replace"
          /\ "revokedAt" \in keyUnit[p].changed <=> keyUnit[p].op = "revoke"

KeySerialInv ==
    ~keyOverlapped =>
        /\ \A p, q \in Keys!Open : p = q
        /\ ~revived /\ ~keyLost
        /\ revocations <= 1 /\ (revocations > 0 => key.revokedAt # 0)
        /\ \A p \in Unit : KeyLoaded(p) => KeyKnown(p)

\* Without a use recorded meanwhile a unit of work knows the last one, too.
KeyUseKnown(p) ==
    /\ keyUnit[p].loaded.lastUsedAt = key.lastUsedAt
    /\ keyUnit[p].pc # "save" => "lastUsedAt" \notin keyUnit[p].changed

KeyUseInv ==
    ~usedMeanwhile =>
        /\ key.lastUsedAt = lastTouch /\ ~retouched
        /\ \A p \in Unit : KeyLoaded(p) => KeyUseKnown(p)

KeysInv == Keys!TypeOK /\ KeyUnitsInv /\ KeyLoadedInv /\ KeySerialInv /\ KeyUseInv

-----------------------------------------------------------------------------
\* The row as a unit of work commits it: the columns that changed are its own.
LEMMA KeyCommitRow ==
  ASSUME KeysInv, NEW p \in Unit, Keys!Commit(p)
  PROVE  /\ key' \in Keys!Row
         /\ key'.perms = IF "perms" \in keyUnit[p].changed
                           THEN IF keyUnit[p].op = "replace" THEN keyUnit[p].perms ELSE keyUnit[p].loaded.perms
                           ELSE key.perms
         /\ key'.revokedAt = IF "revokedAt" \in keyUnit[p].changed
                               THEN IF keyUnit[p].op = "revoke" THEN keyUnit[p].at ELSE keyUnit[p].loaded.revokedAt
                               ELSE key.revokedAt
         /\ key'.lastUsedAt = IF "lastUsedAt" \in keyUnit[p].changed
                                THEN keyUnit[p].loaded.lastUsedAt ELSE key.lastUsedAt
<1> DEFINE c == keyUnit[p]
           entity == Keys!ToEntity(c)
<1>1. /\ key \in Keys!Row /\ c.loaded \in Keys!Row
      /\ c.perms \in SUBSET KeyPermission /\ c.at \in Keys!Time
  BY DEF KeysInv, Keys!TypeOK
<1>2. /\ entity.perms = (IF c.op = "replace" THEN c.perms ELSE c.loaded.perms)
      /\ entity.revokedAt = (IF c.op = "revoke" THEN c.at ELSE c.loaded.revokedAt)
      /\ entity.lastUsedAt = c.loaded.lastUsedAt
  <2>1. DOMAIN c.loaded = {"perms", "revokedAt", "lastUsedAt"}
    BY <1>1 DEF Keys!Row
  <2> QED
    BY <2>1 DEF Keys!ToEntity
<1>3. DOMAIN key = {"perms", "revokedAt", "lastUsedAt"}
  BY <1>1 DEF Keys!Row
<1>4. key' = [f \in DOMAIN key |-> IF f \in c.changed THEN entity[f] ELSE key[f]]
  BY DEF Keys!Commit
<1>5. key' = [perms |-> IF "perms" \in c.changed THEN entity.perms ELSE key.perms,
              revokedAt |-> IF "revokedAt" \in c.changed THEN entity.revokedAt ELSE key.revokedAt,
              lastUsedAt |-> IF "lastUsedAt" \in c.changed THEN entity.lastUsedAt ELSE key.lastUsedAt]
  BY <1>3, <1>4
<1> HIDE DEF entity
<1>6. key' \in Keys!Row
  BY <1>1, <1>2, <1>5 DEF Keys!Row
<1> QED
  BY <1>2, <1>5, <1>6

\* What a step does to the units of work that are open.
LEMMA KeyOpenAdds ==
  ASSUME KeysInv, NEW p \in Unit, p \notin Keys!Open,
         revocations' = revocations, keyStarted' = keyStarted + 1,
         Keys!Open' = Keys!Open \union {p}
  PROVE  IsFiniteSet(Keys!Open') /\ revocations' + Cardinality(Keys!Open') <= keyStarted'
<1>1. /\ IsFiniteSet(Keys!Open) /\ revocations + Cardinality(Keys!Open) <= keyStarted
      /\ revocations \in Nat /\ keyStarted \in Nat
  BY KeysAssumption DEF KeysInv, KeyUnitsInv, Keys!TypeOK, Keys!TimeAssumption
<1>2. IsFiniteSet(Keys!Open') /\ Cardinality(Keys!Open') = Cardinality(Keys!Open) + 1
  BY <1>1, FS_AddElement
<1>3. Cardinality(Keys!Open) \in Nat
  BY <1>1, FS_CardinalityType
<1> QED
  BY <1>1, <1>2, <1>3

\* A unit of work that ends leaves one open unit fewer.
LEMMA KeyOpenRemoves ==
  ASSUME KeysInv, NEW p \in Keys!Open, NEW n \in {0, 1},
         revocations' = revocations + n, keyStarted' = keyStarted,
         Keys!Open' = Keys!Open \ {p}
  PROVE  IsFiniteSet(Keys!Open') /\ revocations' + Cardinality(Keys!Open') <= keyStarted'
<1>1. /\ IsFiniteSet(Keys!Open) /\ revocations + Cardinality(Keys!Open) <= keyStarted
      /\ revocations \in Nat /\ keyStarted \in Nat
  BY KeysAssumption DEF KeysInv, KeyUnitsInv, Keys!TypeOK, Keys!TimeAssumption
<1>2. IsFiniteSet(Keys!Open') /\ Cardinality(Keys!Open') = Cardinality(Keys!Open) - 1
  BY <1>1, FS_RemoveElement
<1>3. Cardinality(Keys!Open) \in Nat
  BY <1>1, FS_CardinalityType
<1> QED
  BY <1>1, <1>2, <1>3

\* The rest state of a unit of work.
LEMMA KeyIdle ==
  /\ Keys!NoKey \in Keys!Row /\ 0 \in Keys!Time
  /\ Keys!Idle \in KeyUnitType
  /\ Keys!Idle.pc = "idle" /\ Keys!Idle.op = "rename" /\ Keys!Idle.perms = {}
<1>1. 0 \in Keys!Time
  BY KeysAssumption DEF Keys!Time, Keys!TimeAssumption
<1>2. Keys!NoKey \in Keys!Row
  BY <1>1 DEF Keys!NoKey, Keys!Row
<1> QED
  BY <1>1, <1>2 DEF Keys!Idle, KeyUnitType

\* Before the first command.
LEMMA KeysInitInv == Keys!Init => KeysInv
<1> SUFFICES ASSUME Keys!Init PROVE KeysInv
  OBVIOUS
<1> USE KeysAssumption DEF Keys!TimeAssumption
<1>1. Keys!Open = {}
  BY DEF Keys!Init, Keys!Open, Keys!Idle
<1>2. Keys!TypeOK
  <2>1. key \in Keys!Row /\ (key.perms = {} => key = Keys!NoKey)
    BY DEF Keys!Init, Keys!NoKey, Keys!Row, Keys!Time
  <2>2. Keys!Idle.loaded \in Keys!Row /\ Keys!Idle.at \in Keys!Time
    BY DEF Keys!Idle, Keys!NoKey, Keys!Row, Keys!Time
  <2>3. keyUnit \in [Unit -> KeyUnitType]
    BY <2>2 DEF Keys!Init, Keys!Idle, KeyUnitType
  <2>4. request \in [Caller -> [pc : {"idle", "touch"}, at : Keys!Time]]
    BY DEF Keys!Init, Keys!Waiting, Keys!Time
  <2>5. /\ expiresAt \in Keys!Time /\ lastTouch \in Keys!Time
        /\ keyNow \in 1..LastKeyTick /\ keyStarted \in 0..MaxKeyUnits /\ revocations \in 0..MaxKeyUnits
    BY DEF Keys!Init, Keys!Time
  <2>6. {revived, keyLost, retouched, keyOverlapped, usedMeanwhile} \subseteq BOOLEAN
    BY DEF Keys!Init
  <2> QED
    BY <2>1, <2>3, <2>4, <2>5, <2>6 DEF Keys!TypeOK, KeyUnitType
<1>3. KeyUnitsInv
  BY <1>1, FS_EmptySet DEF KeyUnitsInv, Keys!Init, Keys!Idle, Keys!Waiting
<1>4. KeyLoadedInv /\ KeySerialInv /\ KeyUseInv
  BY <1>1 DEF Keys!Init, Keys!Idle, Keys!NoKey, KeyLoaded, KeyLoadedInv, KeySerialInv, KeyUseInv
<1> QED
  BY <1>2, <1>3, <1>4 DEF KeysInv

\* A command on the key arrives.
LEMMA KeyBeginInv ==
  ASSUME KeysInv, NEW p \in Unit, Keys!Begin(p)
  PROVE  KeysInv'
<1> USE KeysAssumption DEF Keys!TimeAssumption
<1> PICK op \in {"rename", "replace", "revoke"}, perms \in SUBSET KeyPermission :
        /\ (op = "replace") <=> (perms # {})
        /\ keyUnit' = [keyUnit EXCEPT ![p] =
              [Keys!Idle EXCEPT !.pc = "load", !.op = op, !.perms = perms]]
  BY DEF Keys!Begin
<1>a. /\ keyUnit[p].pc = "idle" /\ key.perms # {} /\ keyStarted < MaxKeyUnits
      /\ keyStarted' = keyStarted + 1
      /\ keyOverlapped' = (keyOverlapped \/ Keys!Open # {})
      /\ UNCHANGED <<key, expiresAt, request, keyNow, revocations, revived, keyLost,
                     lastTouch, retouched, usedMeanwhile>>
  BY DEF Keys!Begin, Keys!Exists
<1>b. keyUnit \in [Unit -> KeyUnitType]
  BY DEF KeysInv, Keys!TypeOK, KeyUnitType
<1>c. keyUnit'[p] = [pc |-> "load", op |-> op, perms |-> perms, at |-> 0,
                     loaded |-> Keys!NoKey, changed |-> {}]
  BY <1>b DEF Keys!Idle
<1>d. \A q \in Unit \ {p} : keyUnit'[q] = keyUnit[q]
  BY <1>b
<1>e. p \notin Keys!Open /\ Keys!Open' = Keys!Open \union {p}
  BY <1>a, <1>c, <1>d DEF Keys!Open
<1>f. \A q \in Unit : KeyLoaded(q)' => KeyLoaded(q) /\ keyUnit'[q] = keyUnit[q]
  BY <1>c, <1>d DEF KeyLoaded
<1>1. Keys!TypeOK'
  <2>1. keyUnit'[p] \in KeyUnitType
    BY <1>c, KeyIdle DEF KeyUnitType
  <2>2. keyUnit' \in [Unit -> KeyUnitType]
    BY <1>b, <2>1, <1>c
  <2>3. keyStarted' \in 0..MaxKeyUnits
    BY <1>a DEF KeysInv, Keys!TypeOK
  <2>4. {revived', keyLost', retouched', keyOverlapped', usedMeanwhile'} \subseteq BOOLEAN
    BY <1>a DEF KeysInv, Keys!TypeOK
  <2> QED
    BY <1>a, <2>2, <2>3, <2>4 DEF KeysInv, Keys!TypeOK, KeyUnitType
<1>2. KeyUnitsInv'
  <2>1. IsFiniteSet(Keys!Open') /\ revocations' + Cardinality(Keys!Open') <= keyStarted'
    BY <1>a, <1>e, KeyOpenAdds
  <2> QED
    BY <1>a, <1>c, <1>d, <2>1 DEF KeysInv, KeyUnitsInv
<1>3. KeyLoadedInv'
  BY <1>f DEF KeysInv, KeyLoadedInv
<1>4. KeySerialInv'
  BY <1>a, <1>e, <1>f DEF KeysInv, KeySerialInv, KeyKnown
<1>5. KeyUseInv'
  BY <1>a, <1>f DEF KeysInv, KeyUseInv, KeyUseKnown
<1> QED
  BY <1>1, <1>2, <1>3, <1>4, <1>5 DEF KeysInv

\* A unit of work that goes on without writing.
KeyMoves(p) ==
    /\ UNCHANGED <<key, expiresAt, request, keyNow, keyStarted, revocations, revived, keyLost,
                   lastTouch, retouched, keyOverlapped, usedMeanwhile>>
    /\ keyUnit[p].pc # "idle"
    /\ keyUnit' \in [Unit -> KeyUnitType]
    /\ \A q \in Unit \ {p} : keyUnit'[q] = keyUnit[q]
    /\ keyUnit'[p].op = "replace" <=> keyUnit'[p].perms # {}

\* What it knows then is what the invariant says of it.
LEMMA KeyMovesInv ==
  ASSUME KeysInv, NEW p \in Unit, KeyMoves(p),
         KeyLoaded(p)' => /\ keyUnit'[p].at # 0
                          /\ keyUnit'[p].loaded.perms # {}
                          /\ keyUnit'[p].loaded.revokedAt = 0,
         KeyLoaded(p)' /\ ~keyOverlapped => KeyKnown(p)',
         KeyLoaded(p)' /\ ~usedMeanwhile => KeyUseKnown(p)'
  PROVE  KeysInv'
<1>a. Keys!Open' = IF keyUnit'[p].pc = "idle" THEN Keys!Open \ {p} ELSE Keys!Open
  BY DEF Keys!Open, KeyMoves
<1>b. p \in Keys!Open
  BY DEF Keys!Open, KeyMoves
<1>c. \A q \in Unit \ {p} : (KeyLoaded(q)' <=> KeyLoaded(q)) /\ keyUnit'[q] = keyUnit[q]
  BY DEF KeyLoaded, KeyMoves
<1>1. Keys!TypeOK'
  BY DEF KeysInv, Keys!TypeOK, KeyMoves, KeyUnitType
<1>2. KeyUnitsInv'
  <2>1. IsFiniteSet(Keys!Open') /\ revocations' + Cardinality(Keys!Open') <= keyStarted'
    <3>1. CASE keyUnit'[p].pc = "idle"
      <4>1. revocations' = revocations + 0 /\ keyStarted' = keyStarted
        BY KeysAssumption DEF KeyMoves, KeysInv, Keys!TypeOK, Keys!TimeAssumption
      <4> QED
        BY <1>a, <1>b, <3>1, <4>1, KeyOpenRemoves
    <3>2. CASE keyUnit'[p].pc # "idle"
      BY <1>a, <3>2 DEF KeyMoves, KeysInv, KeyUnitsInv
    <3> QED
      BY <3>1, <3>2
  <2>2. \A q \in Unit : keyUnit'[q].op = "replace" <=> keyUnit'[q].perms # {}
    BY DEF KeyMoves, KeysInv, KeyUnitsInv
  <2> QED
    BY <1>a, <2>1, <2>2 DEF KeyMoves, KeysInv, KeyUnitsInv
<1>3. KeyLoadedInv'
  BY <1>c DEF KeysInv, KeyLoadedInv
<1>4. KeySerialInv'
  <2> SUFFICES ASSUME ~keyOverlapped' PROVE KeySerialInv'
    BY DEF KeySerialInv
  <2>1. \A q \in Unit : KeyLoaded(q)' => KeyKnown(q)'
    BY <1>c DEF KeyMoves, KeysInv, KeySerialInv, KeyKnown
  <2> QED
    BY <1>a, <2>1 DEF KeyMoves, KeysInv, KeySerialInv
<1>5. KeyUseInv'
  <2> SUFFICES ASSUME ~usedMeanwhile' PROVE KeyUseInv'
    BY DEF KeyUseInv
  <2>1. \A q \in Unit : KeyLoaded(q)' => KeyUseKnown(q)'
    BY <1>c DEF KeyMoves, KeysInv, KeyUseInv, KeyUseKnown
  <2> QED
    BY <2>1 DEF KeyMoves, KeysInv, KeyUseInv
<1> QED
  BY <1>1, <1>2, <1>3, <1>4, <1>5 DEF KeysInv

\* The key is loaded, or the command refused.
LEMMA KeyLoadInv ==
  ASSUME KeysInv, NEW p \in Unit, Keys!Load(p)
  PROVE  KeysInv'
<1>a. keyUnit \in [Unit -> KeyUnitType] /\ key \in Keys!Row /\ keyNow \in 1..LastKeyTick
  BY DEF KeysInv, Keys!TypeOK, KeyUnitType
<1>c. key.perms # {}
  BY DEF KeysInv, KeyUnitsInv, Keys!Open, Keys!Load
<1>d. \A q \in Unit \ {p} : keyUnit'[q] = keyUnit[q]
  BY <1>a DEF Keys!Load
<1>1. CASE Keys!Active(key)
  <2> DEFINE c == [keyUnit[p] EXCEPT !.pc = "save", !.loaded = key, !.at = keyNow]
  <2>1. keyUnit'[p] = c
    BY <1>1, <1>a DEF Keys!Load
  <2>2. /\ c.pc = "save" /\ c.loaded = key /\ c.at = keyNow
        /\ c.op = keyUnit[p].op /\ c.perms = keyUnit[p].perms /\ c \in KeyUnitType
    <3>1. keyNow \in Keys!Time /\ keyUnit[p] \in KeyUnitType
      BY <1>a DEF Keys!Time
    <3> QED
      BY <1>a, <3>1 DEF KeyUnitType
  <2> HIDE DEF c
  <2>3. KeyMoves(p)
    BY <2>1, <2>2, <1>a, <1>d DEF KeyMoves, Keys!Load, Keys!history, KeysInv, KeyUnitsInv
  <2>4. keyUnit'[p].at # 0 /\ keyUnit'[p].loaded.perms # {} /\ keyUnit'[p].loaded.revokedAt = 0
    BY <1>1, <1>a, <1>c, <2>1, <2>2 DEF Keys!Active
  <2>5. KeyKnown(p)' /\ KeyUseKnown(p)'
    BY <1>1, <2>1, <2>2, <2>3 DEF KeyKnown, KeyUseKnown, KeyMoves, Keys!Active
  <2> QED
    BY <2>3, <2>4, <2>5, KeyMovesInv
<1>2. CASE ~Keys!Active(key)
  <2>1. keyUnit'[p] = Keys!Idle
    BY <1>2, <1>a DEF Keys!Load
  <2>2. KeyMoves(p)
    BY <2>1, <1>a, <1>d, KeyIdle DEF KeyMoves, Keys!Load, Keys!history
  <2> QED
    BY <2>1, <2>2, KeyIdle, KeyMovesInv DEF KeyLoaded
<1> QED
  BY <1>1, <1>2

\* save reads the row again and decides which columns differ.
LEMMA KeyCompareInv ==
  ASSUME KeysInv, NEW p \in Unit, Keys!Compare(p)
  PROVE  KeysInv'
<1> DEFINE changed == {f \in DOMAIN key : Keys!ToEntity(keyUnit[p])[f] # key[f]}
<1>a. keyUnit \in [Unit -> KeyUnitType] /\ key \in Keys!Row /\ keyUnit[p] \in KeyUnitType
  BY DEF KeysInv, Keys!TypeOK, KeyUnitType
<1>b. DOMAIN key = {"perms", "revokedAt", "lastUsedAt"} /\ DOMAIN keyUnit[p].loaded = DOMAIN key
  BY <1>a DEF Keys!Row, KeyUnitType
<1>c. /\ keyUnit'[p] = [keyUnit[p] EXCEPT !.pc = "write", !.changed = changed]
      /\ \A q \in Unit \ {p} : keyUnit'[q] = keyUnit[q]
  BY <1>a DEF Keys!Compare
<1>d. /\ "perms" \in changed <=>
           (IF keyUnit[p].op = "replace" THEN keyUnit[p].perms ELSE keyUnit[p].loaded.perms) # key.perms
      /\ "revokedAt" \in changed <=>
           (IF keyUnit[p].op = "revoke" THEN keyUnit[p].at ELSE keyUnit[p].loaded.revokedAt) # key.revokedAt
      /\ "lastUsedAt" \in changed <=> keyUnit[p].loaded.lastUsedAt # key.lastUsedAt
  BY <1>b DEF Keys!ToEntity
<1>e. changed \subseteq {"perms", "revokedAt", "lastUsedAt"}
  BY <1>b
<1> HIDE DEF changed
<1>1. /\ keyUnit'[p].pc = "write" /\ keyUnit'[p].changed = changed /\ keyUnit'[p].op = keyUnit[p].op
      /\ keyUnit'[p].perms = keyUnit[p].perms /\ keyUnit'[p].at = keyUnit[p].at
      /\ keyUnit'[p].loaded = keyUnit[p].loaded /\ keyUnit'[p] \in KeyUnitType
  BY <1>a, <1>c, <1>e DEF KeyUnitType
<1>2. KeyMoves(p)
  <2>1. keyUnit' \in [Unit -> KeyUnitType]
    BY <1>1, <1>a DEF Keys!Compare
  <2> QED
    BY <1>1, <1>c, <2>1 DEF KeyMoves, Keys!Compare, Keys!history, KeysInv, KeyUnitsInv
<1>3. KeyLoaded(p) /\ keyUnit[p].at # 0 /\ keyUnit[p].loaded.perms # {} /\ keyUnit[p].loaded.revokedAt = 0
  BY DEF Keys!Compare, KeyLoaded, KeysInv, KeyLoadedInv
<1>4. ~keyOverlapped => KeyKnown(p)'
  BY <1>1, <1>2, <1>3, <1>d DEF KeysInv, KeySerialInv, KeyKnown, KeyMoves
<1>5. ~usedMeanwhile => KeyUseKnown(p)'
  BY <1>1, <1>2, <1>3, <1>d DEF KeysInv, KeyUseInv, KeyUseKnown, KeyMoves
<1> QED
  BY <1>1, <1>2, <1>3, <1>4, <1>5, KeyMovesInv

\* The columns are written.
LEMMA KeyWriteInv ==
  ASSUME KeysInv, NEW p \in Unit, Keys!Write(p)
  PROVE  KeysInv'
<1>a. keyUnit \in [Unit -> KeyUnitType] /\ keyUnit[p] \in KeyUnitType
  BY DEF KeysInv, Keys!TypeOK, KeyUnitType
<1>1. /\ keyUnit'[p].pc = "commit" /\ keyUnit'[p].changed = keyUnit[p].changed
      /\ keyUnit'[p].op = keyUnit[p].op /\ keyUnit'[p].perms = keyUnit[p].perms
      /\ keyUnit'[p].at = keyUnit[p].at /\ keyUnit'[p].loaded = keyUnit[p].loaded
      /\ keyUnit' \in [Unit -> KeyUnitType]
  BY <1>a DEF Keys!Write, KeyUnitType
<1>2. KeyMoves(p)
  BY <1>1, <1>a DEF KeyMoves, Keys!Write, Keys!history, KeysInv, KeyUnitsInv
<1>3. KeyLoaded(p) /\ keyUnit[p].at # 0 /\ keyUnit[p].loaded.perms # {} /\ keyUnit[p].loaded.revokedAt = 0
  BY DEF Keys!Write, KeyLoaded, KeysInv, KeyLoadedInv
<1>4. ~keyOverlapped => KeyKnown(p)'
  BY <1>1, <1>2, <1>3 DEF Keys!Write, KeysInv, KeySerialInv, KeyKnown, KeyMoves
<1>5. ~usedMeanwhile => KeyUseKnown(p)'
  BY <1>1, <1>2, <1>3 DEF Keys!Write, KeysInv, KeyUseInv, KeyUseKnown, KeyMoves
<1> QED
  BY <1>1, <1>2, <1>3, <1>4, <1>5, KeyMovesInv

\* A unit of work is rolled back.
LEMMA KeyRollbackInv ==
  ASSUME KeysInv, NEW p \in Unit, Keys!Rollback(p)
  PROVE  KeysInv'
<1>a. keyUnit \in [Unit -> KeyUnitType]
  BY DEF KeysInv, Keys!TypeOK, KeyUnitType
<1>1. keyUnit'[p] = Keys!Idle
  BY <1>a DEF Keys!Rollback
<1>2. KeyMoves(p)
  BY <1>1, <1>a, KeyIdle DEF KeyMoves, Keys!Rollback, Keys!history
<1> QED
  BY <1>1, <1>2, KeyIdle, KeyMovesInv DEF KeyLoaded

\* COMMIT of the columns that changed.
LEMMA KeyCommitInv ==
  ASSUME KeysInv, NEW p \in Unit, Keys!Commit(p)
  PROVE  KeysInv'
<1> DEFINE c == keyUnit[p]
<1>a. /\ keyUnit \in [Unit -> KeyUnitType] /\ key \in Keys!Row /\ c \in KeyUnitType
      /\ revocations \in Nat /\ keyStarted \in Nat /\ keyStarted <= MaxKeyUnits
  BY KeysAssumption DEF KeysInv, Keys!TypeOK, KeyUnitType, Keys!TimeAssumption
<1>b. /\ c.pc = "commit" /\ keyUnit'[p] = Keys!Idle
      /\ \A q \in Unit \ {p} : keyUnit'[q] = keyUnit[q]
      /\ keyUnit' \in [Unit -> KeyUnitType]
  BY <1>a, KeyIdle DEF Keys!Commit
<1>c. /\ revocations' = revocations + (IF c.op = "revoke" THEN 1 ELSE 0)
      /\ revived' = (revived \/ (key.revokedAt # 0 /\ key'.revokedAt = 0))
      /\ keyLost' = (keyLost \/ (c.op # "replace" /\ key'.perms # key.perms))
      /\ UNCHANGED <<expiresAt, request, keyNow, keyStarted, lastTouch, retouched, keyOverlapped, usedMeanwhile>>
  BY DEF Keys!Commit
<1>d. KeyLoaded(p) /\ c.at # 0 /\ c.loaded.perms # {} /\ c.loaded.revokedAt = 0 /\ p \in Keys!Open
  BY <1>b DEF KeyLoaded, KeysInv, KeyLoadedInv, Keys!Open
<1>e. /\ key.perms # {} /\ (c.op = "replace" <=> c.perms # {})
      /\ key' \in Keys!Row
      /\ key'.perms = IF "perms" \in c.changed
                        THEN IF c.op = "replace" THEN c.perms ELSE c.loaded.perms ELSE key.perms
      /\ key'.revokedAt = IF "revokedAt" \in c.changed
                            THEN IF c.op = "revoke" THEN c.at ELSE c.loaded.revokedAt ELSE key.revokedAt
      /\ key'.lastUsedAt = IF "lastUsedAt" \in c.changed THEN c.loaded.lastUsedAt ELSE key.lastUsedAt
  BY <1>d, KeyCommitRow DEF KeysInv, KeyUnitsInv
<1>f. key'.perms # {}
  BY <1>d, <1>e
<1>g. Keys!Open' = Keys!Open \ {p}
  BY <1>b, KeyIdle DEF Keys!Open
<1>h. \A q \in Unit : KeyLoaded(q)' => q # p /\ KeyLoaded(q) /\ keyUnit'[q] = keyUnit[q] /\ q \in Keys!Open
  BY <1>b, KeyIdle DEF KeyLoaded, Keys!Open
<1> HIDE DEF c
<1>u. IsFiniteSet(Keys!Open') /\ revocations' + Cardinality(Keys!Open') <= keyStarted'
  BY <1>c, <1>d, <1>g, KeyOpenRemoves
<1>1. Keys!TypeOK'
  <2>1. revocations' \in 0..MaxKeyUnits
    <3>1. Cardinality(Keys!Open') \in Nat /\ revocations' \in Nat
      BY <1>a, <1>c, <1>u, FS_CardinalityType
    <3> QED
      BY <1>a, <1>c, <1>u, <3>1, KeysAssumption DEF Keys!TimeAssumption
  <2>2. {revived', keyLost', retouched', keyOverlapped', usedMeanwhile'} \subseteq BOOLEAN
    BY <1>c DEF KeysInv, Keys!TypeOK
  <2> QED
    BY <1>b, <1>c, <1>e, <1>f, <2>1, <2>2 DEF KeysInv, Keys!TypeOK, KeyUnitType
<1>2. KeyUnitsInv'
  BY <1>b, <1>c, <1>f, <1>u, KeyIdle DEF KeysInv, KeyUnitsInv
<1>3. KeyLoadedInv'
  BY <1>h DEF KeysInv, KeyLoadedInv
<1>4. KeySerialInv'
  <2> SUFFICES ASSUME ~keyOverlapped' PROVE KeySerialInv'
    BY DEF KeySerialInv
  <2>1. /\ \A q, r \in Keys!Open : q = r
        /\ ~revived /\ ~keyLost /\ revocations <= 1 /\ (revocations > 0 => key.revokedAt # 0)
        /\ KeyKnown(p)
    BY <1>c, <1>d DEF KeysInv, KeySerialInv
  <2>2. Keys!Open' = {} /\ \A q \in Unit : ~KeyLoaded(q)'
    BY <1>d, <1>g, <1>h, <2>1
  <2>3. /\ key.revokedAt = 0 /\ c.loaded.perms = key.perms
        /\ "perms" \in c.changed => c.op = "replace"
        /\ "revokedAt" \in c.changed <=> c.op = "revoke"
    BY <1>b, <2>1 DEF KeyKnown, c
  <2>4. ~revived' /\ ~keyLost'
    BY <1>c, <1>e, <2>1, <2>3
  <2>5. revocations' <= 1 /\ (revocations' > 0 => key'.revokedAt # 0)
    BY <1>a, <1>c, <1>d, <1>e, <2>1, <2>3
  <2> QED
    BY <2>2, <2>4, <2>5 DEF KeySerialInv
<1>5. KeyUseInv'
  <2> SUFFICES ASSUME ~usedMeanwhile' PROVE KeyUseInv'
    BY DEF KeyUseInv
  <2>1. key.lastUsedAt = lastTouch /\ ~retouched /\ KeyUseKnown(p)
    BY <1>c, <1>d DEF KeysInv, KeyUseInv
  <2>2. key'.lastUsedAt = key.lastUsedAt
    BY <1>e, <2>1 DEF KeyUseKnown, c
  <2> QED
    BY <1>c, <1>h, <2>1, <2>2 DEF KeysInv, KeyUseInv, KeyUseKnown
<1> QED
  BY <1>1, <1>2, <1>3, <1>4, <1>5 DEF KeysInv

\* CreateApiKey, the clock and a request that is accepted concern no unit of work.
LEMMA KeyOthersInv ==
  ASSUME KeysInv,
         Keys!CreateApiKey \/ Keys!Tick \/ \E r \in Caller : Keys!Resolve(r)
  PROVE  KeysInv'
<1> USE KeysAssumption DEF Keys!TimeAssumption
<1>a. /\ UNCHANGED <<keyUnit, keyStarted, revocations, revived, keyLost, lastTouch,
                     retouched, keyOverlapped, usedMeanwhile>>
      /\ Keys!Open' = Keys!Open
      /\ \A p \in Unit : KeyLoaded(p)' <=> KeyLoaded(p)
  BY DEF Keys!CreateApiKey, Keys!Tick, Keys!Resolve, Keys!history, Keys!Open, KeyLoaded
<1>b. \A p \in Unit : KeyLoaded(p) => p \in Keys!Open
  BY DEF KeyLoaded, Keys!Open
<1>c. /\ key' = key \/ (Keys!Open = {} /\ key = Keys!NoKey /\ key'.perms # {})
      /\ key'.revokedAt = key.revokedAt /\ key'.lastUsedAt = key.lastUsedAt
      /\ key' \in Keys!Row /\ (key'.perms = {} => key' = Keys!NoKey)
  <2>1. CASE Keys!CreateApiKey
    <3>1. PICK perms \in (SUBSET KeyPermission) \ {{}} : key' = [Keys!NoKey EXCEPT !.perms = perms]
      BY <2>1 DEF Keys!CreateApiKey
    <3>2. key' = [perms |-> perms, revokedAt |-> 0, lastUsedAt |-> 0]
      BY <3>1 DEF Keys!NoKey
    <3>3. key.perms = {} /\ key = Keys!NoKey
      BY <2>1 DEF Keys!CreateApiKey, Keys!Exists, KeysInv, Keys!TypeOK
    <3>4. Keys!Open = {}
      BY <3>3 DEF KeysInv, KeyUnitsInv
    <3> QED
      BY <3>2, <3>3, <3>4, KeyIdle DEF Keys!NoKey, Keys!Row
  <2>2. CASE ~Keys!CreateApiKey
    BY <2>2 DEF Keys!Tick, Keys!Resolve, KeysInv, Keys!TypeOK
  <2> QED
    BY <2>1, <2>2
<1>1. Keys!TypeOK'
  <2>1. expiresAt' \in Keys!Time
    BY DEF Keys!CreateApiKey, Keys!Tick, Keys!Resolve, KeysInv, Keys!TypeOK, Keys!Time
  <2>2. request' \in [Caller -> [pc : {"idle", "touch"}, at : Keys!Time]]
    BY DEF Keys!CreateApiKey, Keys!Tick, Keys!Resolve, KeysInv, Keys!TypeOK, Keys!Time
  <2>3. keyNow' \in 1..LastKeyTick
    BY DEF Keys!CreateApiKey, Keys!Tick, Keys!Resolve, KeysInv, Keys!TypeOK
  <2> QED
    BY <1>a, <1>c, <2>1, <2>2, <2>3 DEF KeysInv, Keys!TypeOK
<1>2. KeyUnitsInv'
  <2>1. \A r \in Caller : request'[r].pc = "touch" => request[r].pc = "touch" \/ key.perms # {}
    BY DEF Keys!CreateApiKey, Keys!Tick, Keys!Resolve, Keys!IsUsable, Keys!Exists, KeysInv, Keys!TypeOK
  <2> QED
    BY <1>a, <1>c, <2>1 DEF KeysInv, KeyUnitsInv
<1>3. KeyLoadedInv'
  BY <1>a DEF KeysInv, KeyLoadedInv
<1>4. KeySerialInv'
  BY <1>a, <1>b, <1>c DEF KeysInv, KeySerialInv, KeyKnown
<1>5. KeyUseInv'
  BY <1>a, <1>b, <1>c DEF KeysInv, KeyUseInv, KeyUseKnown
<1> QED
  BY <1>1, <1>2, <1>3, <1>4, <1>5 DEF KeysInv

\* A request records the last use, outside any unit of work.
LEMMA KeyTouchInv ==
  ASSUME KeysInv, NEW r \in Caller, Keys!TouchLastUsed(r)
  PROVE  KeysInv'
<1> USE KeysAssumption DEF Keys!TimeAssumption
<1> DEFINE at == request[r].at
<1>a. /\ key \in Keys!Row /\ at \in Keys!Time /\ at \in Nat /\ lastTouch \in Keys!Time /\ lastTouch \in Nat
      /\ request \in [Caller -> [pc : {"idle", "touch"}, at : Keys!Time]]
  BY DEF KeysInv, Keys!TypeOK, Keys!Time
<1>b. /\ UNCHANGED <<expiresAt, keyUnit, keyNow, keyStarted, revocations, revived, keyLost, keyOverlapped>>
      /\ request' = [request EXCEPT ![r] = Keys!Waiting]
      /\ \/ /\ Keys!Due(at)
            /\ key' = [key EXCEPT !.lastUsedAt = at]
            /\ lastTouch' = (IF at > lastTouch THEN at ELSE lastTouch)
            /\ retouched' = (retouched \/ (lastTouch # 0 /\ at <= lastTouch + TouchWindow))
            /\ usedMeanwhile' = (usedMeanwhile \/ Keys!Open # {})
         \/ UNCHANGED <<key, lastTouch, retouched, usedMeanwhile>>
  BY DEF Keys!TouchLastUsed
<1>c. /\ Keys!Open' = Keys!Open
      /\ \A p \in Unit : KeyLoaded(p)' <=> KeyLoaded(p)
      /\ \A p \in Unit : KeyLoaded(p) => p \in Keys!Open
  BY <1>b DEF KeyLoaded, Keys!Open
<1>d. /\ key' \in Keys!Row /\ key'.perms = key.perms /\ key'.revokedAt = key.revokedAt
      /\ key'.lastUsedAt \in {key.lastUsedAt, at}
  BY <1>a, <1>b DEF Keys!Row
<1>e. key.perms # {} /\ request[r].pc = "touch"
  BY DEF Keys!TouchLastUsed, KeysInv, KeyUnitsInv
<1>f. /\ request' \in [Caller -> [pc : {"idle", "touch"}, at : Keys!Time]]
      /\ \A q \in Caller : request'[q].pc = "touch" => request[q].pc = "touch"
  BY <1>a, <1>b, KeyIdle DEF Keys!Waiting
<1> HIDE DEF at
<1>1. Keys!TypeOK'
  <2>1. lastTouch' \in Keys!Time
    BY <1>a, <1>b
  <2>2. {revived', keyLost', retouched', keyOverlapped', usedMeanwhile'} \subseteq BOOLEAN
    BY <1>b DEF KeysInv, Keys!TypeOK
  <2> QED
    BY <1>b, <1>d, <1>e, <1>f, <2>1, <2>2 DEF KeysInv, Keys!TypeOK
<1>2. KeyUnitsInv'
  BY <1>b, <1>c, <1>d, <1>e DEF KeysInv, KeyUnitsInv
<1>3. KeyLoadedInv'
  BY <1>b, <1>c DEF KeysInv, KeyLoadedInv
<1>4. KeySerialInv'
  BY <1>b, <1>c, <1>d DEF KeysInv, KeySerialInv, KeyKnown
<1>5. KeyUseInv'
  <2> SUFFICES ASSUME ~usedMeanwhile' PROVE KeyUseInv'
    BY DEF KeyUseInv
  <2>1. CASE UNCHANGED <<key, lastTouch, retouched, usedMeanwhile>>
    BY <1>b, <1>c, <2>1 DEF KeysInv, KeyUseInv, KeyUseKnown
  <2>2. CASE /\ Keys!Due(at)
             /\ key' = [key EXCEPT !.lastUsedAt = at]
             /\ lastTouch' = (IF at > lastTouch THEN at ELSE lastTouch)
             /\ retouched' = (retouched \/ (lastTouch # 0 /\ at <= lastTouch + TouchWindow))
             /\ usedMeanwhile' = (usedMeanwhile \/ Keys!Open # {})
    <3>1. key.lastUsedAt = lastTouch /\ ~retouched /\ Keys!Open = {}
      BY <2>2 DEF KeysInv, KeyUseInv
    <3>2. lastTouch = 0 \/ lastTouch < at - TouchWindow
      BY <2>2, <3>1 DEF Keys!Due
    <3>3. lastTouch' = at /\ ~retouched'
      <4>1. at >= lastTouch /\ ~(lastTouch # 0 /\ at <= lastTouch + TouchWindow)
        BY <1>a, <3>2
      <4>2. lastTouch' = at
        BY <1>a, <2>2, <4>1
      <4> QED
        BY <2>2, <3>1, <4>1, <4>2
    <3>4. key'.lastUsedAt = at
      BY <1>a, <2>2 DEF Keys!Row
    <3> QED
      BY <1>c, <3>1, <3>3, <3>4 DEF KeyUseInv
  <2> QED
    BY <1>b, <2>1, <2>2
<1> QED
  BY <1>1, <1>2, <1>3, <1>4, <1>5 DEF KeysInv

\* Every step of the API-key module keeps the invariant.
LEMMA KeysNextInv == KeysInv /\ [Keys!Next]_Keys!vars => KeysInv'
<1> SUFFICES ASSUME KeysInv, [Keys!Next]_Keys!vars PROVE KeysInv'
  OBVIOUS
<1>1. CASE Keys!CreateApiKey \/ Keys!Tick
  BY <1>1, KeyOthersInv
<1>2. ASSUME NEW p \in Unit,
             \/ Keys!Begin(p) \/ Keys!Load(p) \/ Keys!Compare(p)
             \/ Keys!Write(p) \/ Keys!Commit(p) \/ Keys!Rollback(p)
      PROVE  KeysInv'
  BY <1>2, KeyBeginInv, KeyLoadInv, KeyCompareInv, KeyWriteInv, KeyCommitInv, KeyRollbackInv
<1>3. ASSUME NEW r \in Caller, Keys!Resolve(r) \/ Keys!TouchLastUsed(r)
      PROVE  KeysInv'
  BY <1>3, KeyOthersInv, KeyTouchInv
<1>4. CASE UNCHANGED Keys!vars
  BY <1>4 DEF Keys!vars, Keys!history, KeysInv, Keys!TypeOK, KeyUnitsInv, KeyLoadedInv, KeySerialInv, KeyUseInv,
              KeyLoaded, KeyKnown, KeyUseKnown, Keys!Open
<1> QED
  BY <1>1, <1>2, <1>3, <1>4 DEF Keys!Next

\* The invariant is enough.
LEMMA KeysInvImplies ==
  KeysInv => /\ Keys!TypeOK /\ Keys!DamageNeedsOverlap
             /\ Keys!WriteAmplificationBounded /\ Keys!LastUseIsLatest
<1> SUFFICES ASSUME KeysInv
             PROVE  /\ Keys!TypeOK /\ Keys!DamageNeedsOverlap
                    /\ Keys!WriteAmplificationBounded /\ Keys!LastUseIsLatest
  OBVIOUS
<1>1. revocations \in Nat
  BY KeysAssumption DEF KeysInv, Keys!TypeOK, Keys!TimeAssumption
<1>2. Keys!DamageNeedsOverlap
  BY <1>1 DEF KeysInv, KeySerialInv, Keys!DamageNeedsOverlap
<1>3. Keys!WriteAmplificationBounded /\ Keys!LastUseIsLatest
  BY DEF KeysInv, KeyUseInv, Keys!WriteAmplificationBounded, Keys!LastUseIsLatest
<1> QED
  BY <1>2, <1>3 DEF KeysInv

\* ApiKey under overlapping units of work, for every number of them: a
\* revocation is undone, permissions are lost or a key is revoked twice only
\* if two overlapped; the last use is recorded once per window and forwards
\* unless a unit of work was open meanwhile.
THEOREM KeyIsSound ==
  Keys!Spec => [](/\ Keys!TypeOK /\ Keys!DamageNeedsOverlap
                  /\ Keys!WriteAmplificationBounded /\ Keys!LastUseIsLatest)
BY KeysInitInv, KeysNextInv, KeysInvImplies, PTL DEF Keys!Spec

-----------------------------------------------------------------------------
(* Roles and memberships of one tenant.                                     *)

\* A unit of work.
RoleUnitType ==
    [pc : {"idle", "load", "check", "save", "commit"}, op : Own!Op, id : Own!RoleId,
     user : Person, name : RoleName \union {"Owner", "Member"} \union {"none"},
     perms : SUBSET Permission, roles : SUBSET Own!RoleId,
     loaded : Own!RoleRow, held : SUBSET Own!RoleId]

RoleOpen(p) == roleUnit[p].pc # "idle"
\* It has checked all it is to check.
Decided(p) == roleUnit[p].pc \in {"save", "commit"}

\* Before the tenant is created nothing runs; then its system roles and who
\* holds Owner stay as they are.
RoleTenantInv ==
    IF Own!Created
    THEN /\ role["Owner"] = [name |-> "Owner", perms |-> Permission]
         /\ role["Member"] = [name |-> "Member", perms |-> {}]
         /\ member[Founder] = {"Owner"}
         /\ \A u \in Person \ {Founder} : "Owner" \notin member[u]
    ELSE /\ \A r \in Own!RoleId : ~Own!Exists(r)
         /\ \A u \in Person : member[u] = {}
         /\ \A p \in Unit : ~RoleOpen(p)

\* A command on a role: a new role and a deleted one are custom roles, an update
\* of a system role is to write the row that is there.
RoleWrites(p) ==
    LET c == roleUnit[p] IN
    /\ c.op = "create" /\ RoleOpen(p) => c.id \in CustomRole /\ c.name \in RoleName /\ c.perms # {}
    /\ c.op = "delete" => c.name = "none"
    /\ c.op = "delete" /\ c.pc \in {"check", "save", "commit"} => c.id \in CustomRole
    /\ c.op = "update" /\ c.pc \in {"load", "check"} => c.name \in RoleName \union {"none"}
    /\ c.op = "update" /\ c.pc = "check" =>
          IF c.id \in CustomRole THEN c.loaded.name \in RoleName /\ c.loaded.perms # {}
                                 ELSE c.loaded = role[c.id]
    /\ c.op = "update" /\ Decided(p) =>
          IF c.id \in CustomRole THEN c.name \in RoleName /\ c.perms # {}
                                 ELSE c.name = role[c.id].name /\ c.perms = role[c.id].perms

\* A command on a membership: never to make another Owner or to unmake the first.
RoleAssigns(p) ==
    LET c == roleUnit[p] IN
    /\ c.op \in {"attach", "replace"} /\ c.pc = "check" /\ c.user = Founder => c.held = {"Owner"}
    /\ c.op \in {"attach", "replace"} /\ Decided(p) => c.user # Founder /\ "Owner" \notin c.roles

\* A name that is saved and not committed is no other role's.
RoleReserves(p) ==
    Own!Saved(p) /\ roleUnit[p].op \in {"create", "update"} =>
        \A r \in Own!RoleId \ {roleUnit[p].id} : role[r].name # roleUnit[p].name

RoleApart(p, q) ==
    Own!Saved(p) /\ Own!Saved(q) /\ Own!AboutRole(p) /\ Own!AboutRole(q) =>
        /\ roleUnit[p].id # roleUnit[q].id
        /\ roleUnit[p].name = roleUnit[q].name => roleUnit[p].name = "none"

RoleNamesInv ==
    /\ Own!NamesUnique
    /\ \A p \in Unit : RoleReserves(p)
    /\ \A p, q \in Unit : p # q => RoleApart(p, q)

\* A unit of work that runs alone: what it has checked still holds.
RoleAlone(p) ==
    LET c == roleUnit[p] IN
    /\ c.op = "update" /\ c.pc \in {"check", "save"} => c.loaded = role[c.id]
    /\ c.op = "delete" /\ Decided(p) => \A u \in Person : c.id \notin member[u]
    /\ c.op \in {"attach", "replace"} /\ Decided(p) => \A r \in c.roles : Own!Exists(r)

RoleSerialInv ==
    ~roleOverlapped =>
        /\ \A p, q \in Unit : RoleOpen(p) /\ RoleOpen(q) => p = q
        /\ ~lost /\ ~Own!Dangling
        /\ \A p \in Unit : RoleAlone(p)

RolesInv ==
    /\ Own!TypeOK /\ RoleTenantInv
    /\ \A p \in Unit : RoleWrites(p) /\ RoleAssigns(p)
    /\ RoleNamesInv /\ RoleSerialInv

-----------------------------------------------------------------------------
\* What is assumed of the constants.
LEMMA RoleConstants ==
  /\ Founder \in Person
  /\ {"Owner", "Member", "none"} \cap (CustomRole \union RoleName) = {}
  /\ MaxRoleUnits \in Nat
  /\ Own!RoleId = {"Owner", "Member"} \union CustomRole
BY RolesAssumption DEF Own!OwnerAssumption, Own!RoleAssumption, Own!SystemRole, Own!RoleId

\* No unit of work and no row.
LEMMA RoleIdle ==
  /\ Own!Idle \in RoleUnitType
  /\ Own!Idle.pc = "idle" /\ Own!Idle.op = "create" /\ Own!Idle.name = "none"
  /\ Own!NoRole \in Own!RoleRow /\ Own!NoRole.name = "none" /\ Own!NoRole.perms = {}
<1>1. Own!NoRole \in Own!RoleRow /\ Own!NoRole.name = "none" /\ Own!NoRole.perms = {}
  BY DEF Own!NoRole, Own!RoleRow
<1> QED
  BY <1>1, RoleConstants DEF Own!Idle, RoleUnitType, Own!Op

\* The rows are where the types say; only a row that is there has a name.
LEMMA RoleTypes ==
  ASSUME RolesInv
  PROVE  /\ roleUnit \in [Unit -> RoleUnitType]
         /\ role \in [Own!RoleId -> Own!RoleRow] /\ member \in [Person -> SUBSET Own!RoleId]
         /\ roleStarted \in 0..MaxRoleUnits /\ roleOverlapped \in BOOLEAN /\ lost \in BOOLEAN
         /\ \A r \in CustomRole : Own!Exists(r) => role[r].name \in RoleName /\ role[r].perms # {}
         /\ \A r \in Own!RoleId : Own!Exists(r) <=> role[r].name # "none"
<1>1. /\ roleUnit \in [Unit -> RoleUnitType]
      /\ role \in [Own!RoleId -> Own!RoleRow] /\ member \in [Person -> SUBSET Own!RoleId]
      /\ roleStarted \in 0..MaxRoleUnits /\ roleOverlapped \in BOOLEAN /\ lost \in BOOLEAN
      /\ \A r \in CustomRole : Own!Exists(r) => role[r].name \in RoleName /\ role[r].perms # {}
  BY DEF RolesInv, Own!TypeOK, RoleUnitType, Own!SystemRole
<1>2. ASSUME NEW r \in Own!RoleId PROVE Own!Exists(r) <=> role[r].name # "none"
  <2>1. ~Own!Exists(r) => role[r].name = "none"
    BY RoleIdle DEF Own!Exists
  <2>2. r \in CustomRole /\ Own!Exists(r) => role[r].name # "none"
    BY <1>1, RoleConstants
  <2>3. r \notin CustomRole /\ Own!Exists(r) => role[r].name # "none"
    BY RoleConstants DEF RolesInv, RoleTenantInv
  <2> QED
    BY <2>1, <2>2, <2>3
<1> QED
  BY <1>1, <1>2

\* The unit of work p takes a step, and nothing is committed.
RoleMoves(p) ==
    /\ UNCHANGED <<role, member>>
    /\ roleUnit' \in [Unit -> RoleUnitType]
    /\ \A q \in Unit \ {p} : roleUnit'[q] = roleUnit[q]
    /\ roleStarted' \in 0..MaxRoleUnits
    /\ roleOverlapped' \in BOOLEAN /\ (roleOverlapped => roleOverlapped')
    /\ lost' \in BOOLEAN

\* What must be shown of p then.
LEMMA RoleMovesInv ==
  ASSUME RolesInv, NEW p \in Unit, Own!Created, RoleMoves(p),
         RoleWrites(p)', RoleAssigns(p)', RoleReserves(p)',
         \A q \in Unit \ {p} : RoleApart(p, q)',
         ~roleOverlapped' => RoleAlone(p)' /\ ~lost',
         ~roleOverlapped' /\ RoleOpen(p)' => \A q \in Unit \ {p} : ~RoleOpen(q)
  PROVE  RolesInv'
<1>a. \A q \in Unit \ {p} :
        /\ RoleOpen(q)' <=> RoleOpen(q)
        /\ RoleWrites(q)' <=> RoleWrites(q)
        /\ RoleAssigns(q)' <=> RoleAssigns(q)
        /\ RoleReserves(q)' <=> RoleReserves(q)
        /\ RoleAlone(q)' <=> RoleAlone(q)
        /\ \A r \in Unit \ {p} : RoleApart(q, r)' <=> RoleApart(q, r)
        /\ RoleApart(q, p)' <=> RoleApart(p, q)'
  BY DEF RoleMoves, RoleOpen, RoleWrites, RoleAssigns, RoleReserves, RoleAlone, RoleApart, Decided,
         Own!Saved, Own!AboutRole, Own!Exists
<1>1. Own!TypeOK'
  BY DEF RolesInv, Own!TypeOK, RoleMoves, RoleUnitType, Own!SystemRole, Own!Exists
<1>2. RoleTenantInv'
  BY DEF RolesInv, RoleTenantInv, RoleMoves, Own!Created, Own!Exists
<1>3. \A q \in Unit : RoleWrites(q)' /\ RoleAssigns(q)'
  BY <1>a DEF RolesInv
<1>4. RoleNamesInv'
  <2>1. Own!NamesUnique'
    BY DEF RolesInv, RoleNamesInv, Own!NamesUnique, RoleMoves, Own!Exists
  <2>2. \A q \in Unit : RoleReserves(q)'
    BY <1>a DEF RolesInv, RoleNamesInv
  <2>3. \A q, r \in Unit : q # r => RoleApart(q, r)'
    BY <1>a DEF RolesInv, RoleNamesInv
  <2> QED
    BY <2>1, <2>2, <2>3 DEF RoleNamesInv
<1>5. RoleSerialInv'
  <2> SUFFICES ASSUME ~roleOverlapped' PROVE RoleSerialInv'
    BY DEF RoleSerialInv
  <2>1. ~roleOverlapped
    BY DEF RoleMoves
  <2>2. \A q \in Unit : RoleAlone(q)'
    BY <1>a, <2>1 DEF RolesInv, RoleSerialInv
  <2>3. ~Own!Dangling'
    BY <2>1 DEF RolesInv, RoleSerialInv, Own!Dangling, Own!Exists, RoleMoves
  <2>4. \A q, r \in Unit : RoleOpen(q)' /\ RoleOpen(r)' => q = r
    BY <1>a, <2>1 DEF RolesInv, RoleSerialInv
  <2> QED
    BY <2>2, <2>3, <2>4 DEF RoleSerialInv
<1> QED
  BY <1>1, <1>2, <1>3, <1>4, <1>5 DEF RolesInv

\* Nothing is promised of a unit of work that has ended or not begun.
LEMMA RoleIdleKept ==
  ASSUME NEW p \in Unit, roleUnit'[p] = Own!Idle
  PROVE  /\ ~RoleOpen(p)' /\ RoleWrites(p)' /\ RoleAssigns(p)' /\ RoleReserves(p)' /\ RoleAlone(p)'
         /\ \A q \in Unit : RoleApart(p, q)' /\ RoleApart(q, p)'
BY RoleIdle DEF RoleOpen, RoleWrites, RoleAssigns, RoleReserves, RoleApart, RoleAlone, Decided, Own!Saved

\* A unit of work that is refused or fails.
LEMMA RoleRejectInv ==
  ASSUME RolesInv, NEW p \in Unit, RoleOpen(p), Own!Reject(p),
         UNCHANGED <<role, member, roleStarted, roleOverlapped>>,
         lost' \in BOOLEAN, ~roleOverlapped => ~lost'
  PROVE  RolesInv'
<1>a. roleUnit \in [Unit -> RoleUnitType]
  BY RoleTypes
<1>b. roleUnit'[p] = Own!Idle /\ \A q \in Unit \ {p} : roleUnit'[q] = roleUnit[q]
  BY <1>a DEF Own!Reject
<1>1. RoleMoves(p)
  <2>1. roleUnit' \in [Unit -> RoleUnitType]
    BY <1>a, RoleIdle DEF Own!Reject
  <2> QED
    BY <1>b, <2>1, RoleTypes DEF RoleMoves
<1>2. /\ ~RoleOpen(p)' /\ RoleWrites(p)' /\ RoleAssigns(p)' /\ RoleReserves(p)' /\ RoleAlone(p)'
      /\ \A q \in Unit : RoleApart(p, q)' /\ RoleApart(q, p)'
  BY <1>b, RoleIdleKept
<1>3. Own!Created
  BY DEF RolesInv, RoleTenantInv
<1> QED
  BY <1>1, <1>2, <1>3, RoleMovesInv

\* Before the first tenant.
LEMMA RolesInitInv == Own!Init => RolesInv
<1> SUFFICES ASSUME Own!Init PROVE RolesInv
  OBVIOUS
<1>1. \A p \in Unit : roleUnit[p] = Own!Idle
  BY DEF Own!Init
<1>2. /\ \A r \in Own!RoleId : role[r] = Own!NoRole /\ ~Own!Exists(r)
      /\ \A u \in Person : member[u] = {}
  BY DEF Own!Init, Own!Exists
<1>3. Own!TypeOK
  <2>1. roleUnit \in [Unit -> RoleUnitType]
    BY RoleIdle DEF Own!Init
  <2>2. role \in [Own!RoleId -> Own!RoleRow] /\ member \in [Person -> SUBSET Own!RoleId]
    BY RoleIdle DEF Own!Init
  <2>3. roleStarted \in 0..MaxRoleUnits /\ roleOverlapped \in BOOLEAN /\ lost \in BOOLEAN
    <3>1. MaxRoleUnits \in Nat => 0 \in 0..MaxRoleUnits
      OBVIOUS
    <3> QED
      BY <3>1, RoleConstants DEF Own!Init
  <2>4. \A r \in CustomRole : ~Own!Exists(r)
    BY <1>2, RoleConstants
  <2> QED
    BY <2>1, <2>2, <2>3, <2>4 DEF Own!TypeOK, RoleUnitType, Own!SystemRole
<1>4. \A p \in Unit : ~RoleOpen(p) /\ ~Decided(p) /\ ~Own!Saved(p) /\ roleUnit[p].pc = "idle" /\ roleUnit[p].op = "create"
  BY <1>1, RoleIdle DEF RoleOpen, Decided, Own!Saved
<1>5. RoleTenantInv
  BY <1>2, <1>4, RoleConstants DEF RoleTenantInv, Own!Created
<1>6. \A p \in Unit : RoleWrites(p) /\ RoleAssigns(p)
  BY <1>4 DEF RoleWrites, RoleAssigns
<1>7. RoleNamesInv
  BY <1>2, <1>4 DEF RoleNamesInv, Own!NamesUnique, RoleReserves, RoleApart
<1>8. RoleSerialInv
  BY <1>2, <1>4 DEF RoleSerialInv, RoleAlone, Own!Dangling, Own!Init
<1> QED
  BY <1>3, <1>5, <1>6, <1>7, <1>8 DEF RolesInv

\* The tenant begins with its system roles and its Owner.
LEMMA RoleCreateTenantInv == RolesInv /\ Own!CreateTenant => RolesInv'
<1> SUFFICES ASSUME RolesInv, Own!CreateTenant PROVE RolesInv'
  OBVIOUS
<1>a. /\ \A r \in Own!RoleId : ~Own!Exists(r)
      /\ \A u \in Person : member[u] = {}
      /\ \A p \in Unit : ~RoleOpen(p)
  BY DEF RolesInv, RoleTenantInv, Own!CreateTenant
<1>b. /\ UNCHANGED <<roleUnit, roleStarted, roleOverlapped, lost>>
      /\ role' = [r \in Own!RoleId |->
                  CASE r = "Owner" -> [name |-> r, perms |-> Permission]
                    [] r = "Member" -> [name |-> r, perms |-> {}]
                    [] OTHER -> Own!NoRole]
      /\ member' = [member EXCEPT ![Founder] = {"Owner"}]
  BY DEF Own!CreateTenant
<1>c. /\ role'["Owner"] = [name |-> "Owner", perms |-> Permission]
      /\ role'["Member"] = [name |-> "Member", perms |-> {}]
      /\ \A r \in CustomRole : role'[r] = Own!NoRole
  BY <1>b, RoleConstants
<1>d. member'[Founder] = {"Owner"} /\ \A u \in Person \ {Founder} : member'[u] = {}
  BY <1>a, <1>b, RoleTypes, RoleConstants
<1>e. role'["Owner"].name = "Owner" /\ role'["Member"].name = "Member"
  BY <1>c
<1>f. Own!Exists("Owner")' /\ Own!Exists("Member")' /\ \A r \in CustomRole : ~Own!Exists(r)'
  BY <1>c, <1>e, RoleIdle DEF Own!Exists, Own!NoRole
<1>g. \A p \in Unit : ~RoleOpen(p)' /\ roleUnit'[p].pc = "idle"
  BY <1>a, <1>b DEF RoleOpen
<1>1. Own!TypeOK'
  <2>1. role' \in [Own!RoleId -> Own!RoleRow]
    <3>1. role'["Owner"] \in Own!RoleRow /\ role'["Member"] \in Own!RoleRow
      BY <1>c DEF Own!RoleRow, Own!SystemRole
    <3>2. \A r \in Own!RoleId : role'[r] \in Own!RoleRow
      BY <1>c, <3>1, RoleIdle, RoleConstants
    <3>3. role' = [r \in Own!RoleId |-> role'[r]]
      BY <1>b
    <3> QED
      BY <3>2, <3>3
  <2>2. member' \in [Person -> SUBSET Own!RoleId]
    BY <1>b, RoleTypes, RoleConstants
  <2> QED
    BY <1>b, <1>f, <2>1, <2>2 DEF RolesInv, Own!TypeOK
<1>2. RoleTenantInv'
  BY <1>c, <1>d, <1>f DEF RoleTenantInv, Own!Created
<1>3. \A p \in Unit : RoleWrites(p)' /\ RoleAssigns(p)'
  <2>1. \A p \in Unit : roleUnit[p].op = "delete" => roleUnit[p].name = "none"
    BY DEF RolesInv, RoleWrites
  <2> QED
    BY <1>b, <1>g, <2>1 DEF RoleWrites, RoleAssigns, RoleOpen, Decided
<1>4. RoleNamesInv'
  <2>1. \A p, q \in Unit : RoleReserves(p)' /\ RoleApart(p, q)'
    BY <1>g DEF RoleReserves, RoleApart, Own!Saved
  <2>2. \A r, s \in Own!RoleId : Own!Exists(r)' /\ role'[r].name = role'[s].name => r = s
    <3>1. \A r \in CustomRole : role'[r].name = "none"
      BY <1>c, RoleIdle
    <3> QED
      BY <1>e, <1>f, <3>1, RoleConstants
  <2> QED
    BY <2>1, <2>2 DEF RoleNamesInv, Own!NamesUnique
<1>5. RoleSerialInv'
  <2>1. ~Own!Dangling'
    BY <1>d, <1>f DEF Own!Dangling
  <2>2. \A p \in Unit : RoleAlone(p)'
    BY <1>g DEF RoleAlone, Decided
  <2> QED
    BY <1>b, <1>g, <2>1, <2>2 DEF RolesInv, RoleSerialInv
<1> QED
  BY <1>1, <1>2, <1>3, <1>4, <1>5 DEF RolesInv

\* What a unit of work begins with.
LEMMA RoleStartInv ==
  ASSUME RolesInv, NEW p \in Unit, NEW c \in RoleUnitType, Own!Created, roleUnit[p].pc = "idle",
         c.pc = "load",
         c.op = "create" => c.id \in CustomRole /\ c.name \in RoleName /\ c.perms # {},
         c.op = "delete" => c.name = "none",
         c.op = "update" => c.name \in RoleName \union {"none"},
         roleUnit' = [roleUnit EXCEPT ![p] = c],
         roleStarted < MaxRoleUnits, roleStarted' = roleStarted + 1,
         roleOverlapped' = (roleOverlapped \/ \E q \in Unit : roleUnit[q].pc # "idle"),
         UNCHANGED <<role, member, lost>>
  PROVE  RolesInv'
<1>b. roleUnit'[p] = c /\ \A q \in Unit \ {p} : roleUnit'[q] = roleUnit[q]
  BY RoleTypes
<1>1. RoleMoves(p)
  <2>1. roleUnit' \in [Unit -> RoleUnitType]
    BY RoleTypes
  <2>2. roleStarted' \in 0..MaxRoleUnits
    BY RoleTypes, RoleConstants
  <2> QED
    BY <1>b, <2>1, <2>2, RoleTypes DEF RoleMoves
<1>2. RoleWrites(p)' /\ RoleAssigns(p)'
  BY <1>b DEF RoleWrites, RoleAssigns, Decided
<1>3. RoleReserves(p)' /\ RoleAlone(p)' /\ \A q \in Unit \ {p} : RoleApart(p, q)'
  BY <1>b DEF RoleReserves, RoleAlone, RoleApart, Own!Saved, Decided
<1>4. ~roleOverlapped' => ~lost'
  BY DEF RolesInv, RoleSerialInv
<1>5. ~roleOverlapped' /\ RoleOpen(p)' => \A q \in Unit \ {p} : ~RoleOpen(q)
  BY DEF RoleOpen
<1> QED
  BY <1>1, <1>2, <1>3, <1>4, <1>5, RoleMovesInv

\* A command arrives.
LEMMA RoleBeginInv ==
  ASSUME RolesInv, NEW p \in Unit, Own!Begin(p) \/ Own!BeginMembership(p)
  PROVE  RolesInv'
<1>a. /\ Own!Created /\ roleUnit[p].pc = "idle"
      /\ roleStarted < MaxRoleUnits /\ roleStarted' = roleStarted + 1
      /\ roleOverlapped' = (roleOverlapped \/ \E q \in Unit : roleUnit[q].pc # "idle")
      /\ UNCHANGED <<role, member, lost>>
  BY DEF Own!Begin, Own!BeginMembership
<1>1. CASE Own!Begin(p)
  <2>1. PICK op \in {"create", "update", "delete"}, id \in Own!RoleId,
             name \in RoleName \union {"none"}, perms \in SUBSET Permission :
          /\ op = "create" => id \in CustomRole /\ ~Own!Exists(id) /\ name # "none" /\ perms # {}
          /\ op = "delete" => name = "none" /\ perms = {}
          /\ roleUnit' = [roleUnit EXCEPT ![p] = [Own!Idle EXCEPT !.pc = "load", !.op = op, !.id = id,
                                                      !.name = name, !.perms = perms]]
    BY <1>1 DEF Own!Begin
  <2> DEFINE c == [Own!Idle EXCEPT !.pc = "load", !.op = op, !.id = id, !.name = name, !.perms = perms]
  <2>2. c \in RoleUnitType /\ c.pc = "load" /\ c.op = op /\ c.id = id /\ c.name = name /\ c.perms = perms
    BY RoleIdle DEF RoleUnitType, Own!Op
  <2>3. roleUnit' = [roleUnit EXCEPT ![p] = c]
    BY <2>1
  <2> HIDE DEF c
  <2> QED
    BY <1>a, <2>1, <2>2, <2>3, RoleStartInv
<1>2. CASE Own!BeginMembership(p)
  <2>1. PICK op \in {"attach", "replace"}, u \in Person, rs \in (SUBSET Own!RoleId) \ {{}} :
          roleUnit' = [roleUnit EXCEPT ![p] = [Own!Idle EXCEPT !.pc = "load", !.op = op,
                                                   !.user = u, !.roles = rs]]
    BY <1>2 DEF Own!BeginMembership
  <2> DEFINE c == [Own!Idle EXCEPT !.pc = "load", !.op = op, !.user = u, !.roles = rs]
  <2>2. c \in RoleUnitType /\ c.pc = "load" /\ c.op = op
    BY RoleIdle DEF RoleUnitType, Own!Op
  <2>3. roleUnit' = [roleUnit EXCEPT ![p] = c]
    BY <2>1
  <2> HIDE DEF c
  <2> QED
    BY <1>a, <2>2, <2>3, RoleStartInv
<1> QED
  BY <1>1, <1>2

\* The unit of work p goes on to c.
LEMMA RoleGoesOnInv ==
  ASSUME RolesInv, NEW p \in Unit, NEW c \in RoleUnitType, RoleOpen(p), c.pc # "idle",
         roleUnit' = [roleUnit EXCEPT ![p] = c],
         UNCHANGED <<role, member, roleStarted, roleOverlapped>>,
         lost' \in BOOLEAN, ~roleOverlapped => ~lost',
         RoleWrites(p)', RoleAssigns(p)', RoleReserves(p)',
         \A q \in Unit \ {p} : RoleApart(p, q)',
         ~roleOverlapped => RoleAlone(p)'
  PROVE  RolesInv'
<1>b. roleUnit'[p] = c /\ \A q \in Unit \ {p} : roleUnit'[q] = roleUnit[q]
  BY RoleTypes
<1>1. RoleMoves(p)
  <2>1. roleUnit' \in [Unit -> RoleUnitType]
    BY RoleTypes
  <2> QED
    BY <1>b, <2>1, RoleTypes DEF RoleMoves
<1>2. Own!Created
  BY DEF RolesInv, RoleTenantInv
<1>3. ~roleOverlapped' /\ RoleOpen(p)' => \A q \in Unit \ {p} : ~RoleOpen(q)
  BY DEF RolesInv, RoleSerialInv
<1> QED
  BY <1>1, <1>2, <1>3, RoleMovesInv

\* The aggregate is loaded.
LEMMA RoleLoadInv ==
  ASSUME RolesInv, NEW p \in Unit, Own!LoadRole(p) \/ Own!LoadMembership(p)
  PROVE  RolesInv'
<1> DEFINE u == roleUnit[p]
<1>a. /\ u.pc = "load" /\ RoleOpen(p) /\ u \in RoleUnitType
      /\ UNCHANGED <<role, member, roleStarted, roleOverlapped, lost>>
      /\ Own!Created
  <2>1. u.pc = "load" /\ UNCHANGED <<role, member, roleStarted, roleOverlapped, lost>>
    BY DEF Own!LoadRole, Own!LoadMembership
  <2> QED
    BY <2>1, RoleTypes DEF RoleOpen, RolesInv, RoleTenantInv
<1>b. lost' \in BOOLEAN /\ (~roleOverlapped => ~lost')
  BY <1>a, RoleTypes DEF RolesInv, RoleSerialInv
<1>c. ASSUME Own!Reject(p) PROVE RolesInv'
  BY <1>a, <1>b, <1>c, RoleRejectInv
<1>d. RoleWrites(p) /\ RoleAssigns(p)
  BY DEF RolesInv
<1>1. CASE Own!LoadRole(p)
  <2> DEFINE c == [u EXCEPT !.pc = "check", !.loaded = role[u.id]]
  <2>1. CASE \/ u.op # "create" /\ ~Own!Exists(u.id)
             \/ u.op = "delete" /\ ~Own!Mutable(u.id)
    BY <1>1, <1>c, <2>1 DEF Own!LoadRole
  <2>2. CASE ~(\/ u.op # "create" /\ ~Own!Exists(u.id)
               \/ u.op = "delete" /\ ~Own!Mutable(u.id))
    <3>1. roleUnit' = [roleUnit EXCEPT ![p] = c] /\ u.op \in {"create", "update", "delete"}
      BY <1>1, <2>2 DEF Own!LoadRole
    <3>2. /\ c \in RoleUnitType /\ c.pc = "check" /\ c.loaded = role[u.id] /\ c.op = u.op /\ c.id = u.id
          /\ c.name = u.name /\ c.perms = u.perms
      BY <1>a, RoleTypes DEF RoleUnitType
    <3> HIDE DEF c
    <3>3. roleUnit'[p] = c
      BY <3>1, RoleTypes
    <3>4. RoleWrites(p)'
      <4>1. u.op = "delete" => u.id \in CustomRole
        BY <1>a, <2>2, RoleConstants DEF Own!Mutable, Own!SystemRole, RoleUnitType
      <4>2. u.op = "update" /\ u.id \in CustomRole => role[u.id].name \in RoleName /\ role[u.id].perms # {}
        BY <2>2, RoleTypes
      <4> QED
        BY <1>a, <1>d, <3>1, <3>2, <3>3, <4>1, <4>2 DEF RoleWrites, RoleOpen, Decided
    <3>5. RoleAssigns(p)' /\ RoleReserves(p)' /\ \A q \in Unit \ {p} : RoleApart(p, q)'
      BY <3>1, <3>2, <3>3 DEF RoleAssigns, RoleReserves, RoleApart, Own!Saved, Decided
    <3>6. RoleAlone(p)'
      BY <1>a, <3>1, <3>2, <3>3 DEF RoleAlone, Decided
    <3> QED
      BY <1>a, <1>b, <3>1, <3>2, <3>4, <3>5, <3>6, RoleGoesOnInv
  <2> QED
    BY <2>1, <2>2
<1>2. CASE Own!LoadMembership(p)
  <2> DEFINE c == [u EXCEPT !.pc = "check", !.held = member[u.user]]
  <2>1. CASE (u.op = "attach") # (member[u.user] = {})
    BY <1>2, <1>c, <2>1 DEF Own!LoadMembership
  <2>2. CASE ~((u.op = "attach") # (member[u.user] = {}))
    <3>1. roleUnit' = [roleUnit EXCEPT ![p] = c] /\ u.op \in {"attach", "replace"}
      BY <1>2, <2>2 DEF Own!LoadMembership
    <3>2. /\ c \in RoleUnitType /\ c.pc = "check" /\ c.held = member[u.user] /\ c.op = u.op /\ c.user = u.user
      BY <1>a, RoleTypes DEF RoleUnitType
    <3> HIDE DEF c
    <3>3. roleUnit'[p] = c
      BY <3>1, RoleTypes
    <3>4. RoleAssigns(p)'
      BY <1>a, <3>2, <3>3 DEF RoleAssigns, Decided, RolesInv, RoleTenantInv
    <3>5. RoleWrites(p)' /\ RoleReserves(p)' /\ RoleAlone(p)' /\ \A q \in Unit \ {p} : RoleApart(p, q)'
      BY <3>1, <3>2, <3>3 DEF RoleWrites, RoleReserves, RoleApart, RoleAlone, Own!Saved, Decided, RoleOpen
    <3> QED
      BY <1>a, <1>b, <3>1, <3>2, <3>4, <3>5, RoleGoesOnInv
  <2> QED
    BY <2>1, <2>2
<1> QED
  BY <1>1, <1>2

\* The aggregate is checked against other rows.
LEMMA RoleCheckInv ==
  ASSUME RolesInv, NEW p \in Unit,
         Own!CheckRole(p) \/ Own!CheckHolders(p) \/ Own!CheckAssignment(p)
  PROVE  RolesInv'
<1> DEFINE u == roleUnit[p]
<1>a. /\ u.pc = "check" /\ RoleOpen(p) /\ u \in RoleUnitType
      /\ UNCHANGED <<role, member, roleStarted, roleOverlapped, lost>>
      /\ Own!Created
  <2>1. u.pc = "check" /\ UNCHANGED <<role, member, roleStarted, roleOverlapped, lost>>
    BY DEF Own!CheckRole, Own!CheckHolders, Own!CheckAssignment
  <2> QED
    BY <2>1, RoleTypes DEF RoleOpen, RolesInv, RoleTenantInv
<1>b. lost' \in BOOLEAN /\ (~roleOverlapped => ~lost')
  BY <1>a, RoleTypes DEF RolesInv, RoleSerialInv
<1>c. ASSUME Own!Reject(p) PROVE RolesInv'
  BY <1>a, <1>b, <1>c, RoleRejectInv
<1>d. RoleWrites(p) /\ RoleAssigns(p) /\ (~roleOverlapped => RoleAlone(p))
  BY DEF RolesInv, RoleSerialInv
<1>1. CASE Own!CheckRole(p)
  <2> DEFINE n == IF u.name = "none" THEN u.loaded.name ELSE u.name
             s == IF u.perms = {} THEN u.loaded.perms ELSE u.perms
             c == [u EXCEPT !.pc = "save", !.name = n, !.perms = s]
  <2>1. CASE \/ u.name # "none" /\ Own!NameTaken(u)
             \/ (u.name # "none" \/ u.perms # {}) /\ ~Own!Mutable(u.id)
    BY <1>1, <1>c, <2>1 DEF Own!CheckRole
  <2>2. CASE ~(\/ u.name # "none" /\ Own!NameTaken(u)
               \/ (u.name # "none" \/ u.perms # {}) /\ ~Own!Mutable(u.id))
    <3>1. roleUnit' = [roleUnit EXCEPT ![p] = c] /\ u.op \in {"create", "update"}
      BY <1>1, <2>2 DEF Own!CheckRole, Own!Changed
    <3>2. n \in RoleName \union {"Owner", "Member"} \union {"none"} /\ s \in SUBSET Permission
      BY <1>a DEF RoleUnitType, Own!RoleRow, Own!SystemRole
    <3>3. u.op = "create" => u.id \in CustomRole /\ n \in RoleName /\ s # {}
      <4>1. u.op = "create" => u.id \in CustomRole /\ u.name \in RoleName /\ u.perms # {}
        BY <1>a, <1>d DEF RoleWrites
      <4> QED
        BY <4>1, RoleConstants
    <3>4. u.op = "update" /\ u.id \in CustomRole => n \in RoleName /\ s # {}
      BY <1>a, <1>d DEF RoleWrites
    <3>5. u.op = "update" /\ u.id \notin CustomRole => n = role[u.id].name /\ s = role[u.id].perms
      <4> SUFFICES ASSUME u.op = "update", u.id \notin CustomRole
                   PROVE  n = role[u.id].name /\ s = role[u.id].perms
        OBVIOUS
      <4>1. u.loaded = role[u.id]
        BY <1>a, <1>d DEF RoleWrites
      <4>2. u.name = "none" /\ u.perms = {}
        BY <1>a, <2>2, RoleConstants DEF Own!Mutable, Own!SystemRole, RoleUnitType
      <4> QED
        BY <4>1, <4>2
    <3> HIDE DEF n, s
    <3>6. /\ c \in RoleUnitType /\ c.pc = "save" /\ c.op = u.op /\ c.id = u.id /\ c.name = n /\ c.perms = s
          /\ c.loaded = u.loaded
      BY <1>a, <3>2 DEF RoleUnitType
    <3> HIDE DEF c
    <3>7. roleUnit'[p] = c
      BY <3>1, RoleTypes
    <3>8. RoleWrites(p)'
      BY <1>a, <3>1, <3>3, <3>4, <3>5, <3>6, <3>7 DEF RoleWrites, Decided
    <3>9. RoleAssigns(p)' /\ RoleReserves(p)' /\ \A q \in Unit \ {p} : RoleApart(p, q)'
      BY <3>1, <3>6, <3>7 DEF RoleAssigns, RoleReserves, RoleApart, Own!Saved, Decided
    <3>10. ~roleOverlapped => RoleAlone(p)'
      BY <1>a, <1>d, <3>1, <3>6, <3>7 DEF RoleAlone, Decided
    <3> QED
      BY <1>a, <1>b, <3>1, <3>6, <3>8, <3>9, <3>10, RoleGoesOnInv
  <2> QED
    BY <2>1, <2>2
<1>2. CASE Own!CheckHolders(p)
  <2> DEFINE c == [u EXCEPT !.pc = "save"]
  <2>1. CASE Own!Holders(u.id) # {}
    BY <1>2, <1>c, <2>1 DEF Own!CheckHolders
  <2>2. CASE Own!Holders(u.id) = {}
    <3>1. roleUnit' = [roleUnit EXCEPT ![p] = c] /\ u.op = "delete"
      BY <1>2, <2>2 DEF Own!CheckHolders, Own!Goto
    <3>2. c \in RoleUnitType /\ c.pc = "save" /\ c.op = u.op /\ c.id = u.id /\ c.name = u.name
      BY <1>a DEF RoleUnitType
    <3> HIDE DEF c
    <3>3. roleUnit'[p] = c
      BY <3>1, RoleTypes
    <3>4. RoleWrites(p)'
      BY <1>a, <1>d, <3>1, <3>2, <3>3 DEF RoleWrites, Decided, RoleOpen
    <3>5. RoleAssigns(p)' /\ RoleReserves(p)' /\ \A q \in Unit \ {p} : RoleApart(p, q)'
      BY <3>1, <3>2, <3>3 DEF RoleAssigns, RoleReserves, RoleApart, Own!Saved, Decided
    <3>6. RoleAlone(p)'
      BY <1>a, <2>2, <3>1, <3>2, <3>3 DEF RoleAlone, Decided, Own!Holders
    <3> QED
      BY <1>a, <1>b, <3>1, <3>2, <3>4, <3>5, <3>6, RoleGoesOnInv
  <2> QED
    BY <2>1, <2>2
<1>3. CASE Own!CheckAssignment(p)
  <2> DEFINE c == [u EXCEPT !.pc = "save"]
  <2>1. CASE ~(Own!Assignable(u.roles) /\ ("Owner" \in u.held => Own!OtherOwner(u.user)))
    BY <1>3, <1>c, <2>1 DEF Own!CheckAssignment
  <2>2. CASE Own!Assignable(u.roles) /\ ("Owner" \in u.held => Own!OtherOwner(u.user))
    <3>1. roleUnit' = [roleUnit EXCEPT ![p] = c] /\ u.op \in {"attach", "replace"}
      BY <1>3, <2>2 DEF Own!CheckAssignment, Own!Goto
    <3>2. c \in RoleUnitType /\ c.pc = "save" /\ c.op = u.op /\ c.user = u.user /\ c.roles = u.roles
      BY <1>a DEF RoleUnitType
    <3> HIDE DEF c
    <3>3. roleUnit'[p] = c
      BY <3>1, RoleTypes
    <3>4. u.user # Founder
      <4>1. ~Own!OtherOwner(Founder)
        BY <1>a DEF Own!OtherOwner, Own!Holders, RolesInv, RoleTenantInv
      <4> QED
        BY <1>a, <1>d, <2>2, <3>1, <4>1 DEF RoleAssigns
    <3>5. RoleAssigns(p)'
      BY <2>2, <3>2, <3>3, <3>4 DEF RoleAssigns, Own!Assignable
    <3>6. RoleWrites(p)' /\ RoleReserves(p)' /\ \A q \in Unit \ {p} : RoleApart(p, q)'
      BY <3>1, <3>2, <3>3 DEF RoleWrites, RoleReserves, RoleApart, Own!Saved, Decided
    <3>7. RoleAlone(p)'
      BY <1>a, <2>2, <3>1, <3>2, <3>3 DEF RoleAlone, Decided, Own!Assignable, Own!Exists
    <3> QED
      BY <1>a, <1>b, <3>1, <3>2, <3>5, <3>6, <3>7, RoleGoesOnInv
  <2> QED
    BY <2>1, <2>2
<1> QED
  BY <1>1, <1>2, <1>3

\* The row is written: what is uncommitted or committed of the same name or
\* user stops it.
LEMMA RoleSaveInv ==
  ASSUME RolesInv, NEW p \in Unit, Own!Save(p)
  PROVE  RolesInv'
<1> DEFINE u == roleUnit[p]
           c == [u EXCEPT !.pc = "commit"]
<1>a. /\ u.pc = "save" /\ RoleOpen(p) /\ u \in RoleUnitType /\ ~Own!Waits(p)
      /\ UNCHANGED <<role, member, roleStarted, roleOverlapped>>
      /\ lost' = (lost \/ (u.op = "update" /\ Own!Unique(p) /\ role[u.id] # u.loaded))
  BY RoleTypes DEF Own!Save, RoleOpen
<1>d. RoleWrites(p) /\ RoleAssigns(p) /\ (~roleOverlapped => RoleAlone(p))
  BY DEF RolesInv, RoleSerialInv
<1>b. lost' \in BOOLEAN /\ (~roleOverlapped => ~lost')
  <2>1. lost' \in BOOLEAN
    BY <1>a
  <2>2. ~roleOverlapped => ~lost
    BY DEF RolesInv, RoleSerialInv
  <2>3. ~roleOverlapped /\ u.op = "update" => u.loaded = role[u.id]
    BY <1>a, <1>d DEF RoleAlone
  <2> QED
    BY <1>a, <2>1, <2>2, <2>3
<1>1. CASE ~Own!Unique(p)
  <2>1. Own!Reject(p)
    BY <1>1 DEF Own!Save
  <2> QED
    BY <1>a, <1>b, <2>1, RoleRejectInv
<1>2. CASE Own!Unique(p)
  <2>1. roleUnit' = [roleUnit EXCEPT ![p] = c]
    BY <1>2 DEF Own!Save, Own!Goto
  <2>2. /\ c \in RoleUnitType /\ c.pc = "commit" /\ c.op = u.op /\ c.id = u.id /\ c.name = u.name
        /\ c.perms = u.perms /\ c.user = u.user /\ c.roles = u.roles
    BY <1>a DEF RoleUnitType
  <2> HIDE DEF c
  <2>3. roleUnit'[p] = c /\ \A q \in Unit \ {p} : roleUnit'[q] = roleUnit[q]
    BY <2>1, RoleTypes
  <2>4. RoleWrites(p)' /\ RoleAssigns(p)'
    BY <1>a, <1>d, <2>2, <2>3 DEF RoleWrites, RoleAssigns, RoleOpen, Decided
  <2>5. RoleReserves(p)'
    BY <1>a, <1>2, <2>2, <2>3 DEF RoleReserves, Own!Unique, Own!NameTaken
  <2>6. ASSUME NEW q \in Unit \ {p} PROVE RoleApart(p, q)'
    <3>1. ~(/\ Own!Saved(q) /\ Own!AboutRole(p) = Own!AboutRole(q)
            /\ Own!AboutRole(p)
            /\ \/ roleUnit[q].id = u.id
               \/ u.name # "none" /\ u.name \in {roleUnit[q].name, role[roleUnit[q].id].name})
      BY <1>a DEF Own!Waits
    <3>2. Own!AboutRole(p)' <=> Own!AboutRole(p)
      BY <2>2, <2>3 DEF Own!AboutRole
    <3>3. (Own!AboutRole(q)' <=> Own!AboutRole(q)) /\ (Own!Saved(q)' <=> Own!Saved(q))
      BY <2>3 DEF Own!AboutRole, Own!Saved
    <3>4. Own!AboutRole(p) \in BOOLEAN /\ Own!AboutRole(q) \in BOOLEAN
      BY DEF Own!AboutRole
    <3> QED
      BY <2>2, <2>3, <3>1, <3>2, <3>3, <3>4 DEF RoleApart
  <2>7. ~roleOverlapped => RoleAlone(p)'
    BY <1>a, <1>d, <2>2, <2>3 DEF RoleAlone, Decided, Own!Exists
  <2>8. c.pc # "idle" /\ UNCHANGED <<role, member, roleStarted, roleOverlapped>>
    BY <1>a, <2>2
  <2> QED
    BY <1>a, <1>b, <2>1, <2>2, <2>4, <2>5, <2>6, <2>7, <2>8, RoleGoesOnInv
<1> QED
  BY <1>1, <1>2

\* What COMMIT leaves: the rows of the system roles and the Owner's membership
\* as they were, and of the others what the unit of work had decided.
LEMMA RoleCommitRows ==
  ASSUME RolesInv, NEW p \in Unit, Own!Commit(p)
  PROVE  /\ role' \in [Own!RoleId -> Own!RoleRow] /\ member' \in [Person -> SUBSET Own!RoleId]
         /\ \A r \in {"Owner", "Member"} : role'[r] = role[r]
         /\ \A r \in Own!RoleId : ~(Own!AboutRole(p) /\ r = roleUnit[p].id) => role'[r] = role[r]
         /\ roleUnit[p].op \in {"create", "update"} =>
              /\ role'[roleUnit[p].id] = [name |-> roleUnit[p].name, perms |-> roleUnit[p].perms]
              /\ roleUnit[p].name # "none"
              /\ roleUnit[p].id \in CustomRole => roleUnit[p].name \in RoleName /\ roleUnit[p].perms # {}
         /\ roleUnit[p].op = "delete" =>
              roleUnit[p].id \in CustomRole /\ role'[roleUnit[p].id] = Own!NoRole
         /\ Own!AboutRole(p) => member' = member
         /\ ~Own!AboutRole(p) =>
              /\ role' = role /\ member'[roleUnit[p].user] = roleUnit[p].roles
              /\ \A u \in Person \ {roleUnit[p].user} : member'[u] = member[u]
              /\ roleUnit[p].user # Founder /\ "Owner" \notin roleUnit[p].roles
<1> DEFINE u == roleUnit[p]
<1>a. /\ u.pc = "commit" /\ u \in RoleUnitType /\ Decided(p) /\ RoleOpen(p)
      /\ role' = (CASE u.op \in {"create", "update"} ->
                        [role EXCEPT ![u.id] = [name |-> u.name, perms |-> u.perms]]
                    [] u.op = "delete" -> [role EXCEPT ![u.id] = Own!NoRole]
                    [] OTHER -> role)
      /\ member' = (IF Own!AboutRole(p) THEN member ELSE [member EXCEPT ![u.user] = u.roles])
  BY RoleTypes DEF Own!Commit, Decided, RoleOpen
<1>b. /\ u.op \in {"create", "update", "delete", "attach", "replace"} /\ u.id \in Own!RoleId
      /\ u.user \in Person /\ u.roles \in SUBSET Own!RoleId
      /\ u.name \in RoleName \union {"Owner", "Member"} \union {"none"} /\ u.perms \in SUBSET Permission
  BY <1>a DEF RoleUnitType, Own!Op
<1>c. RoleWrites(p) /\ RoleAssigns(p) /\ Own!Created
  BY <1>a DEF RolesInv, RoleTenantInv
<1>d. role["Owner"].name = "Owner" /\ role["Member"].name = "Member"
  BY <1>c DEF RolesInv, RoleTenantInv
<1>e. Own!AboutRole(p) <=> u.op \in {"create", "update", "delete"}
  BY DEF Own!AboutRole
<1>1. CASE u.op \in {"create", "update"}
  <2>1. role' = [role EXCEPT ![u.id] = [name |-> u.name, perms |-> u.perms]] /\ member' = member
    BY <1>a, <1>e, <1>1
  <2>2. u.id \in CustomRole => u.name \in RoleName /\ u.perms # {}
    BY <1>a, <1>c, <1>1 DEF RoleWrites
  <2>3. u.id \notin CustomRole => u.name = role[u.id].name /\ u.perms = role[u.id].perms
    BY <1>a, <1>c, <1>1 DEF RoleWrites
  <2>4. u.name # "none"
    BY <1>b, <1>d, <2>2, <2>3, RoleConstants
  <2>5. [name |-> u.name, perms |-> u.perms] \in Own!RoleRow
    BY <1>b DEF Own!RoleRow, Own!SystemRole
  <2>6. role' \in [Own!RoleId -> Own!RoleRow]
    BY <2>1, <2>5, RoleTypes
  <2>7. role'[u.id] = [name |-> u.name, perms |-> u.perms]
        /\ \A r \in Own!RoleId : r # u.id => role'[r] = role[r]
    BY <1>b, <2>1, RoleTypes
  <2>8. ASSUME NEW r \in {"Owner", "Member"} PROVE role'[r] = role[r]
    <3>1. CASE r = u.id
      <4>1. u.name = role[r].name /\ u.perms = role[r].perms
        BY <2>3, <3>1, RoleConstants
      <4>2. role[r] \in Own!RoleRow
        BY RoleTypes, RoleConstants
      <4>3. role[r] = [name |-> role[r].name, perms |-> role[r].perms]
        BY <4>2 DEF Own!RoleRow
      <4> QED
        BY <2>7, <3>1, <4>1, <4>3
    <3>2. CASE r # u.id
      BY <2>7, <3>2, RoleConstants
    <3> QED
      BY <3>1, <3>2
  <2> QED
    BY <1>e, <1>1, <2>1, <2>2, <2>4, <2>6, <2>7, <2>8, RoleTypes
<1>2. CASE u.op = "delete"
  <2>1. role' = [role EXCEPT ![u.id] = Own!NoRole] /\ member' = member
    BY <1>a, <1>e, <1>2
  <2>2. u.id \in CustomRole
    BY <1>a, <1>c, <1>2 DEF RoleWrites
  <2>3. role' \in [Own!RoleId -> Own!RoleRow]
    BY <2>1, RoleIdle, RoleTypes
  <2>4. role'[u.id] = Own!NoRole /\ \A r \in Own!RoleId : r # u.id => role'[r] = role[r]
    BY <1>b, <2>1, RoleTypes
  <2>5. \A r \in {"Owner", "Member"} : role'[r] = role[r]
    BY <2>2, <2>4, RoleConstants
  <2> QED
    BY <1>e, <1>2, <2>1, <2>2, <2>3, <2>4, <2>5, RoleTypes
<1>3. CASE u.op \in {"attach", "replace"}
  <2>1. role' = role /\ member' = [member EXCEPT ![u.user] = u.roles]
    BY <1>a, <1>e, <1>3
  <2>2. u.user # Founder /\ "Owner" \notin u.roles
    BY <1>a, <1>c, <1>3 DEF RoleAssigns
  <2>3. member' \in [Person -> SUBSET Own!RoleId]
    BY <1>b, <2>1, RoleTypes
  <2>4. member'[u.user] = u.roles /\ \A w \in Person \ {u.user} : member'[w] = member[w]
    BY <1>b, <2>1, RoleTypes
  <2> QED
    BY <1>e, <1>3, <2>1, <2>2, <2>3, <2>4, RoleTypes
<1> QED
  BY <1>b, <1>1, <1>2, <1>3

\* COMMIT.
LEMMA RoleCommitInv ==
  ASSUME RolesInv, NEW p \in Unit, Own!Commit(p)
  PROVE  RolesInv'
<1> DEFINE u == roleUnit[p]
<1>a. /\ u.pc = "commit" /\ u \in RoleUnitType /\ Decided(p) /\ RoleOpen(p) /\ Own!Saved(p)
      /\ roleUnit' = [roleUnit EXCEPT ![p] = Own!Idle]
      /\ UNCHANGED <<roleStarted, roleOverlapped, lost>>
  BY RoleTypes DEF Own!Commit, Own!Reject, Decided, RoleOpen, Own!Saved
<1>b. /\ roleUnit'[p] = Own!Idle /\ \A q \in Unit \ {p} : roleUnit'[q] = roleUnit[q]
      /\ roleUnit' \in [Unit -> RoleUnitType]
  BY <1>a, RoleIdle, RoleTypes
<1>c. /\ role' \in [Own!RoleId -> Own!RoleRow] /\ member' \in [Person -> SUBSET Own!RoleId]
      /\ \A r \in {"Owner", "Member"} : role'[r] = role[r]
      /\ \A r \in Own!RoleId : ~(Own!AboutRole(p) /\ r = u.id) => role'[r] = role[r]
      /\ u.op \in {"create", "update"} =>
           /\ role'[u.id] = [name |-> u.name, perms |-> u.perms]
           /\ u.name # "none"
           /\ u.id \in CustomRole => u.name \in RoleName /\ u.perms # {}
      /\ u.op = "delete" => u.id \in CustomRole /\ role'[u.id] = Own!NoRole
      /\ Own!AboutRole(p) => member' = member
      /\ ~Own!AboutRole(p) =>
           /\ role' = role /\ member'[u.user] = u.roles
           /\ \A w \in Person \ {u.user} : member'[w] = member[w]
           /\ u.user # Founder /\ "Owner" \notin u.roles
  BY RoleCommitRows
<1>d. /\ Own!AboutRole(p) <=> u.op \in {"create", "update", "delete"}
      /\ u.op \in {"create", "update", "delete", "attach", "replace"} /\ u.id \in Own!RoleId /\ u.user \in Person
  BY <1>a DEF Own!AboutRole, RoleUnitType, Own!Op
<1>e. /\ ~RoleOpen(p)' /\ RoleWrites(p)' /\ RoleAssigns(p)' /\ RoleReserves(p)' /\ RoleAlone(p)'
      /\ \A q \in Unit : RoleApart(p, q)' /\ RoleApart(q, p)'
  BY <1>b, RoleIdleKept
<1>f. Own!Created /\ Own!Created'
  BY <1>a, <1>c DEF RolesInv, RoleTenantInv, Own!Created, Own!Exists, Own!NoRole
<1>g. \A q \in Unit \ {p} :
        /\ RoleOpen(q)' <=> RoleOpen(q)
        /\ RoleAssigns(q)' <=> RoleAssigns(q)
        /\ \A r \in Unit \ {p} : RoleApart(q, r)' <=> RoleApart(q, r)
  BY <1>b DEF RoleOpen, RoleAssigns, RoleApart, Decided, Own!Saved, Own!AboutRole
<1>h. role' # role => Own!AboutRole(p) /\ role'[u.id].name = u.name
  <2>1. u.op = "delete" => u.name = "none"
    BY DEF RolesInv, RoleWrites
  <2> QED
    BY <1>c, <1>d, <2>1, RoleIdle
<1> HIDE DEF u
<1>1. Own!TypeOK'
  <2>1. ASSUME NEW r \in CustomRole, Own!Exists(r)' PROVE role'[r].name \in RoleName /\ role'[r].perms # {}
    <3>1. CASE Own!AboutRole(p) /\ r = u.id
      <4>1. u.op # "delete"
        BY <1>c, <2>1, <3>1 DEF Own!Exists, Own!NoRole
      <4> QED
        BY <1>c, <1>d, <3>1, <4>1
    <3>2. CASE ~(Own!AboutRole(p) /\ r = u.id)
      <4>1. role'[r] = role[r] /\ Own!Exists(r)
        BY <1>c, <2>1, <3>2, RoleConstants DEF Own!Exists, Own!NoRole
      <4> QED
        BY <4>1, RoleTypes
    <3> QED
      BY <3>1, <3>2
  <2>2. roleStarted' \in 0..MaxRoleUnits /\ roleOverlapped' \in BOOLEAN /\ lost' \in BOOLEAN
    BY <1>a, RoleTypes
  <2> QED
    BY <1>b, <1>c, <2>1, <2>2 DEF Own!TypeOK, RoleUnitType, Own!SystemRole
<1>2. RoleTenantInv'
  <2>1. member'[Founder] = {"Owner"}
    BY <1>c, <1>f, RoleConstants DEF RolesInv, RoleTenantInv
  <2>2. \A w \in Person \ {Founder} : "Owner" \notin member'[w]
    BY <1>c, <1>f DEF RolesInv, RoleTenantInv
  <2> QED
    BY <1>c, <1>f, <2>1, <2>2 DEF RolesInv, RoleTenantInv
<1>3. ASSUME NEW q \in Unit PROVE RoleWrites(q)' /\ RoleAssigns(q)'
  <2>1. CASE q = p
    BY <1>e, <2>1
  <2>2. CASE q # p
    <3>1. RoleAssigns(q)' /\ RoleWrites(q) /\ roleUnit'[q] = roleUnit[q]
      BY <1>b, <1>g, <2>2 DEF RolesInv
    <3>2. roleUnit[q].id \notin CustomRole => role'[roleUnit[q].id] = role[roleUnit[q].id]
      <4>1. roleUnit[q].id \in Own!RoleId
        BY RoleTypes DEF RoleUnitType
      <4> QED
        BY <1>c, <4>1, RoleConstants
    <3> QED
      BY <3>1, <3>2 DEF RoleWrites, RoleOpen, Decided
  <2> QED
    BY <2>1, <2>2
<1>4. RoleNamesInv'
  <2>1. Own!NamesUnique'
    <3> SUFFICES ASSUME NEW r \in Own!RoleId, NEW s \in Own!RoleId, Own!Exists(r)',
                        role'[r].name = role'[s].name, r # s
                 PROVE  FALSE
      BY DEF Own!NamesUnique
    <3>1. CASE Own!AboutRole(p) /\ u.op = "delete" /\ u.id \in {r, s}
      <4>1. role'[u.id].name = "none" /\ u.id # r
        BY <1>c, <3>1, RoleIdle DEF Own!Exists, Own!NoRole
      <4>2. role'[r] = role[r] /\ Own!Exists(r)
        BY <1>c, <4>1 DEF Own!Exists, Own!NoRole
      <4> QED
        BY <3>1, <4>1, <4>2, RoleTypes
    <3>2. CASE u.op \in {"create", "update"} /\ u.id \in {r, s}
      <4>1. role'[u.id].name = u.name
        BY <1>c, <3>2
      <4>2. \A x \in Own!RoleId \ {u.id} : role'[x] = role[x]
        BY <1>c
      <4>3. \A x \in Own!RoleId \ {u.id} : role[x].name # u.name
        BY <1>a, <3>2 DEF RolesInv, RoleNamesInv, RoleReserves, u
      <4> QED
        BY <3>2, <4>1, <4>2, <4>3
    <3>3. CASE ~(Own!AboutRole(p) /\ u.id \in {r, s})
      <4>1. role'[r] = role[r] /\ role'[s] = role[s]
        BY <1>c, <3>3
      <4>2. Own!Exists(r)
        BY <4>1 DEF Own!Exists, Own!NoRole
      <4> QED
        BY <4>1, <4>2 DEF RolesInv, RoleNamesInv, Own!NamesUnique
    <3> QED
      BY <1>d, <3>1, <3>2, <3>3
  <2>2. ASSUME NEW q \in Unit PROVE RoleReserves(q)'
    <3>1. CASE q = p
      BY <1>e, <3>1
    <3>2. CASE q # p
      <4> SUFFICES ASSUME Own!Saved(q), roleUnit[q].op \in {"create", "update"},
                          NEW r \in Own!RoleId \ {roleUnit[q].id}
                   PROVE  role'[r].name # roleUnit[q].name
        BY <1>b, <3>2 DEF RoleReserves, Own!Saved
      <4>1. role[r].name # roleUnit[q].name
        BY DEF RolesInv, RoleNamesInv, RoleReserves
      <4>2. CASE role'[r] = role[r]
        BY <4>1, <4>2
      <4>3. CASE role'[r] # role[r]
        <5>1. Own!AboutRole(p) /\ r = u.id /\ role'[r].name = u.name
          BY <1>c, <1>h, <4>3
        <5>2. Own!AboutRole(q)
          BY DEF Own!AboutRole
        <5>3. u.name = roleUnit[q].name => u.name = "none"
          BY <1>a, <3>2, <5>1, <5>2 DEF RolesInv, RoleNamesInv, RoleApart, u
        <5>4. roleUnit[q].name # "none"
          <6>1. RoleWrites(q) /\ Decided(q) /\ RoleOpen(q)
            BY DEF RolesInv, Own!Saved, Decided, RoleOpen
          <6>2. roleUnit[q].id \in Own!RoleId
            BY RoleTypes DEF RoleUnitType
          <6>3. roleUnit[q].name \in RoleName \/ roleUnit[q].name \in {"Owner", "Member"}
            <7>1. roleUnit[q].id \in CustomRole => roleUnit[q].name \in RoleName
              BY <6>1 DEF RoleWrites
            <7>2. roleUnit[q].id \notin CustomRole =>
                    /\ roleUnit[q].id \in {"Owner", "Member"}
                    /\ roleUnit[q].name = role[roleUnit[q].id].name
              BY <6>1, <6>2, RoleConstants DEF RoleWrites
            <7>3. role["Owner"].name = "Owner" /\ role["Member"].name = "Member"
              BY <1>f DEF RolesInv, RoleTenantInv
            <7> QED
              BY <7>1, <7>2, <7>3
          <6> QED
            BY <6>3, RoleConstants
        <5> QED
          BY <5>1, <5>3, <5>4
      <4> QED
        BY <4>2, <4>3
    <3> QED
      BY <3>1, <3>2
  <2>3. \A q, r \in Unit : q # r => RoleApart(q, r)'
    BY <1>e, <1>g DEF RolesInv, RoleNamesInv
  <2> QED
    BY <2>1, <2>2, <2>3 DEF RoleNamesInv
<1>5. RoleSerialInv'
  <2> SUFFICES ASSUME ~roleOverlapped PROVE RoleSerialInv'
    BY <1>a DEF RoleSerialInv
  <2>1. \A q \in Unit : ~RoleOpen(q)'
    BY <1>a, <1>e, <1>g DEF RolesInv, RoleSerialInv
  <2>2. \A q \in Unit : RoleAlone(q)'
    BY <2>1 DEF RoleAlone, RoleOpen, Decided
  <2>3. ~lost'
    BY <1>a DEF RolesInv, RoleSerialInv
  <2>4. ASSUME NEW w \in Person, NEW r \in member'[w] PROVE Own!Exists(r)'
    <3>a. RoleAlone(p) /\ ~Own!Dangling
      BY DEF RolesInv, RoleSerialInv
    <3>1. CASE Own!AboutRole(p)
      <4>1. member' = member /\ Own!Exists(r) /\ r \in Own!RoleId
        BY <1>c, <2>4, <3>1, <3>a, RoleTypes DEF Own!Dangling
      <4>2. CASE u.op = "delete"
        <5>1. r # u.id
          BY <1>a, <2>4, <3>a, <4>1, <4>2 DEF RoleAlone, u
        <5> QED
          BY <1>c, <4>1, <5>1 DEF Own!Exists, Own!NoRole
      <4>3. CASE u.op \in {"create", "update"} /\ r = u.id
        <5>1. role'[r].name # "none"
          BY <1>c, <4>3
        <5> QED
          BY <5>1, RoleIdle DEF Own!Exists, Own!NoRole
      <4>4. CASE r # u.id
        BY <1>c, <4>1, <4>4 DEF Own!Exists, Own!NoRole
      <4> QED
        BY <1>d, <3>1, <4>2, <4>3, <4>4
    <3>2. CASE ~Own!AboutRole(p)
      <4>1. \A x \in u.roles : Own!Exists(x)
        BY <1>a, <1>d, <3>2, <3>a DEF RoleAlone, u
      <4>2. Own!Exists(r)
        BY <1>c, <2>4, <3>2, <3>a, <4>1 DEF Own!Dangling
      <4> QED
        BY <1>c, <3>2, <4>2 DEF Own!Exists, Own!NoRole
    <3> QED
      BY <3>1, <3>2
  <2> QED
    BY <2>1, <2>2, <2>3, <2>4 DEF RoleSerialInv, Own!Dangling
<1> QED
  BY <1>1, <1>2, <1>3, <1>4, <1>5 DEF RolesInv

\* Every step of the role module keeps the invariant.
LEMMA RolesNextInv == RolesInv /\ [Own!Next]_Own!vars => RolesInv'
<1> SUFFICES ASSUME RolesInv, [Own!Next]_Own!vars PROVE RolesInv'
  OBVIOUS
<1>1. ASSUME NEW p \in Unit, Own!Fails(p) PROVE RolesInv'
  <2>1. /\ RoleOpen(p) /\ Own!Reject(p)
        /\ UNCHANGED <<role, member, roleStarted, roleOverlapped, lost>>
    BY <1>1 DEF Own!Fails, RoleOpen
  <2>2. lost' \in BOOLEAN /\ (~roleOverlapped => ~lost')
    BY <2>1, RoleTypes DEF RolesInv, RoleSerialInv
  <2> QED
    BY <2>1, <2>2, RoleRejectInv
<1>2. ASSUME UNCHANGED Own!vars PROVE RolesInv'
  BY <1>2 DEF Own!vars, RolesInv, Own!TypeOK, RoleTenantInv, RoleWrites, RoleAssigns, RoleNamesInv,
              Own!NamesUnique, RoleReserves, RoleApart, RoleSerialInv, RoleAlone, RoleOpen, Decided,
              Own!Saved, Own!AboutRole, Own!Exists, Own!NoRole, Own!Created, Own!Dangling
<1> QED
  BY <1>1, <1>2, RoleCreateTenantInv, RoleBeginInv, RoleLoadInv, RoleCheckInv, RoleSaveInv, RoleCommitInv
  DEF Own!Next

\* The invariant is enough.
LEMMA RolesInvImplies ==
  RolesInv => /\ Own!TypeOK /\ Own!OwnerKeepsControl
              /\ Own!NamesUnique /\ Own!DamageNeedsOverlap
<1> SUFFICES ASSUME RolesInv PROVE Own!OwnerKeepsControl /\ Own!DamageNeedsOverlap
  BY DEF RolesInv, RoleNamesInv
<1>1. Own!OwnerKeepsControl
  <2> SUFFICES ASSUME Own!Created
               PROVE  /\ Own!Holders("Owner") = {Founder}
                      /\ role["Owner"] = [name |-> "Owner", perms |-> Permission]
                      /\ Own!Exists("Member")
    BY DEF Own!OwnerKeepsControl
  <2>1. Own!Holders("Owner") = {Founder}
    BY RoleConstants DEF RolesInv, RoleTenantInv, Own!Holders
  <2>2. role["Member"].name = "Member"
    BY DEF RolesInv, RoleTenantInv
  <2> QED
    BY <2>1, <2>2, RoleIdle DEF RolesInv, RoleTenantInv, Own!Exists
<1>2. Own!DamageNeedsOverlap
  BY DEF RolesInv, RoleSerialInv, Own!DamageNeedsOverlap
<1> QED
  BY <1>1, <1>2

\* On its own, for any tenant, roles, names and number of units of work: the
\* creator alone holds Owner, which keeps every permission, names are unique,
\* and only units of work that overlap leave a dangling role or lose an update.
THEOREM RolesAreSound ==
  Own!Spec => [](/\ Own!TypeOK /\ Own!OwnerKeepsControl
                 /\ Own!NamesUnique /\ Own!DamageNeedsOverlap)
<1>1. Own!Init => RolesInv
  BY RolesInitInv
<1>2. RolesInv /\ [Own!Next]_Own!vars => RolesInv'
  BY RolesNextInv
<1> QED
  BY <1>1, <1>2, RolesInvImplies, PTL DEF Own!Spec

-----------------------------------------------------------------------------
(* Invitations of one address.                                              *)

\* A unit of work.
InviteUnitType ==
    [pc : {"idle", "begin", "find", "save", "mail", "consume", "commit"},
     op : {"invite", "accept", "attach"}, id : Invitation \union {Nobody},
     roles : SUBSET Role, at : 0..LastTick, old : Invitation \union {Nobody}]

InviteOpen(p) == mailUnit[p].pc # "idle"
\* An invite that has written its rows, an acceptance that has found its token.
HasInvited(p) == mailUnit[p].op = "invite" /\ mailUnit[p].pc \in {"mail", "commit"}
HasAccepted(p) == mailUnit[p].op = "accept" /\ mailUnit[p].pc \in {"save", "consume", "commit"}

\* Each operation has its own way, its id and its roles.
InvitePath(p) ==
    LET c == mailUnit[p] IN
    /\ c.pc = "begin" => c.op # "accept"
    /\ c.pc = "mail" => c.op = "invite"
    /\ c.pc = "consume" => c.op = "accept"
    /\ InviteOpen(p) /\ c.op \in {"invite", "accept"} => c.id \in Invitation
    /\ c.op = "attach" => c.id = Nobody
    /\ InviteOpen(p) /\ c.op \in {"invite", "attach"} => c.roles # {}
    /\ HasAccepted(p) => c.roles # {}

\* Who has written the invitation's rows has them for itself, and the address
\* has no pending one but the one that is superseded.
InvitePendingInv ==
    /\ \A i, j \in Invitation : Invites!Pending(i) /\ Invites!Pending(j) => i = j
    /\ \A p \in Unit : HasInvited(p) =>
          \A i \in Invitation : Invites!Pending(i) => i = mailUnit[p].old
    /\ \A p, q \in Unit : HasInvited(p) /\ HasInvited(q) => p = q

\* Who has written the membership has it for itself, and there is none yet.
InviteJoinInv ==
    /\ joins <= 1 /\ (joins = 1 => joined # {})
    /\ \A p \in Unit : Invites!Joining(p) => joined = {}
    /\ \A p, q \in Unit : Invites!Joining(p) /\ Invites!Joining(q) => p = q

InviteMailInv == mailFaults = MaxFaults => mails \subseteq issued \union Invites!InFlight

\* A unit of work that runs alone: the token it has found is still good.
InviteSerialInv ==
    ~mailOverlapped =>
        /\ \A p, q \in Unit : InviteOpen(p) /\ InviteOpen(q) => p = q
        /\ ~late
        /\ \A p \in Unit : HasAccepted(p) => Invites!IsActive(mailUnit[p].id, mailUnit[p].at)

InvitesInv ==
    /\ Invites!TypeOK /\ (\A p \in Unit : InvitePath(p))
    /\ InvitePendingInv /\ InviteJoinInv /\ InviteMailInv /\ InviteSerialInv

-----------------------------------------------------------------------------
\* What is assumed of the constants.
LEMMA InviteConstants ==
  Nobody \notin Invitation /\ TokenTTL \in Nat \ {0} /\ LastTick \in Nat /\ MaxFaults \in Nat
BY InvitesAssumption DEF Invites!IdAssumption, Invites!TimeAssumption

\* No unit of work and no row.
LEMMA InviteIdle ==
  /\ Invites!Idle \in InviteUnitType
  /\ Invites!Idle.pc = "idle" /\ Invites!Idle.op = "invite"
  /\ Invites!NoRow \in [status : {"none", "pending", "consumed"}, expiresAt : 0..LastTick + TokenTTL,
                        roles : SUBSET Role]
  /\ Invites!NoRow.status = "none"
<1>1. 0 \in 0..LastTick /\ 0 \in 0..LastTick + TokenTTL
  BY InviteConstants
<1> QED
  BY <1>1 DEF Invites!Idle, InviteUnitType, Invites!NoRow

\* Where the variables are.
LEMMA InviteTypes ==
  ASSUME InvitesInv
  PROVE  /\ invitation \in [Invitation -> [status : {"none", "pending", "consumed"},
                                           expiresAt : 0..LastTick + TokenTTL, roles : SUBSET Role]]
         /\ \A i \in Invitation : Invites!Pending(i) => invitation[i].roles # {}
         /\ joined \in SUBSET Role /\ roles \in SUBSET Role
         /\ mailUnit \in [Unit -> InviteUnitType]
         /\ mailNow \in 0..LastTick /\ mailFaults \in 0..MaxFaults
         /\ mails \subseteq Invitation /\ issued \subseteq Invitation
         /\ joins \in Nat /\ late \in BOOLEAN /\ mailOverlapped \in BOOLEAN
BY DEF InvitesInv, Invites!TypeOK, InviteUnitType

\* The unit of work p takes a step, and nothing is committed.
InviteMoves(p) ==
    /\ UNCHANGED <<invitation, joined, roles, mailNow, issued, joins, late>>
    /\ mailUnit' \in [Unit -> InviteUnitType]
    /\ \A q \in Unit \ {p} : mailUnit'[q] = mailUnit[q]
    /\ mailFaults' \in 0..MaxFaults
    /\ mails' \subseteq Invitation
    /\ mailOverlapped' \in BOOLEAN /\ (mailOverlapped => mailOverlapped')

\* What must be shown of p then.
LEMMA InviteMovesInv ==
  ASSUME InvitesInv, NEW p \in Unit, InviteMoves(p), InvitePath(p)', InviteMailInv',
         HasInvited(p)' => /\ \A i \in Invitation : Invites!Pending(i) => i = mailUnit'[p].old
                           /\ \A q \in Unit \ {p} : ~HasInvited(q),
         Invites!Joining(p)' => joined = {} /\ \A q \in Unit \ {p} : ~Invites!Joining(q),
         ~mailOverlapped' /\ HasAccepted(p)' => Invites!IsActive(mailUnit'[p].id, mailUnit'[p].at),
         ~mailOverlapped' /\ InviteOpen(p)' => \A q \in Unit \ {p} : ~InviteOpen(q)
  PROVE  InvitesInv'
<1>a. \A q \in Unit \ {p} :
        /\ InviteOpen(q)' <=> InviteOpen(q)
        /\ InvitePath(q)' <=> InvitePath(q)
        /\ HasInvited(q)' <=> HasInvited(q)
        /\ HasAccepted(q)' <=> HasAccepted(q)
        /\ Invites!Joining(q)' <=> Invites!Joining(q)
        /\ mailUnit'[q] = mailUnit[q]
  BY DEF InviteMoves, InviteOpen, InvitePath, HasInvited, HasAccepted, Invites!Joining
<1>b. invitation' = invitation /\ joined' = joined /\ joins' = joins /\ late' = late
  BY DEF InviteMoves
<1>1. Invites!TypeOK'
  BY InviteTypes DEF Invites!TypeOK, InviteMoves, InviteUnitType, Invites!Pending
<1>2. \A q \in Unit : InvitePath(q)'
  BY <1>a DEF InvitesInv
<1>3. InvitePendingInv'
  BY <1>a, <1>b DEF InvitesInv, InvitePendingInv, Invites!Pending
<1>4. InviteJoinInv'
  BY <1>a, <1>b DEF InvitesInv, InviteJoinInv
<1>5. InviteSerialInv'
  <2> SUFFICES ASSUME ~mailOverlapped' PROVE InviteSerialInv'
    BY DEF InviteSerialInv
  <2>1. ~mailOverlapped
    BY DEF InviteMoves
  <2>2. ASSUME NEW q \in Unit, HasAccepted(q)'
        PROVE  Invites!IsActive(mailUnit'[q].id, mailUnit'[q].at)
    BY <1>a, <2>1, <2>2 DEF InvitesInv, InviteSerialInv
  <2>3. \A q, r \in Unit : InviteOpen(q)' /\ InviteOpen(r)' => q = r
    BY <1>a, <2>1 DEF InvitesInv, InviteSerialInv
  <2> QED
    BY <1>b, <2>1, <2>2, <2>3 DEF InvitesInv, InviteSerialInv, Invites!IsActive, Invites!Pending
<1> QED
  BY <1>1, <1>2, <1>3, <1>4, <1>5 DEF InvitesInv

\* Nothing is promised of a unit of work that has ended or not begun.
LEMMA InviteIdleKept ==
  ASSUME NEW p \in Unit, mailUnit'[p] = Invites!Idle
  PROVE  /\ ~InviteOpen(p)' /\ InvitePath(p)' /\ ~HasInvited(p)' /\ ~HasAccepted(p)'
         /\ ~Invites!Joining(p)'
BY InviteIdle DEF InviteOpen, InvitePath, HasInvited, HasAccepted, Invites!Joining

\* A unit of work that is refused or fails.
LEMMA InviteRejectInv ==
  ASSUME InvitesInv, NEW p \in Unit, Invites!Reject(p),
         UNCHANGED <<invitation, joined, roles, mailNow, mails, issued, joins, late, mailOverlapped>>,
         \/ mailFaults' \in 0..MaxFaults /\ mailFaults' < MaxFaults
         \/ mailFaults' = mailFaults /\ ~(mailUnit[p].op = "invite" /\ mailUnit[p].pc = "commit")
  PROVE  InvitesInv'
<1>b. mailUnit'[p] = Invites!Idle /\ \A q \in Unit \ {p} : mailUnit'[q] = mailUnit[q]
  BY InviteTypes DEF Invites!Reject
<1>1. InviteMoves(p)
  <2>1. mailUnit' \in [Unit -> InviteUnitType]
    BY InviteTypes, InviteIdle DEF Invites!Reject
  <2> QED
    BY <1>b, <2>1, InviteTypes DEF InviteMoves
<1>2. /\ ~InviteOpen(p)' /\ InvitePath(p)' /\ ~HasInvited(p)' /\ ~HasAccepted(p)'
      /\ ~Invites!Joining(p)'
  BY <1>b, InviteIdleKept
<1>3. InviteMailInv'
  <2>1. CASE mailFaults' \in 0..MaxFaults /\ mailFaults' < MaxFaults
    BY <2>1, InviteConstants DEF InviteMailInv
  <2>2. CASE mailFaults' = mailFaults /\ ~(mailUnit[p].op = "invite" /\ mailUnit[p].pc = "commit")
    <3>1. Invites!InFlight \subseteq Invites!InFlight'
      BY <1>b, <2>2 DEF Invites!InFlight
    <3> QED
      BY <2>2, <3>1 DEF InvitesInv, InviteMailInv
  <2> QED
    BY <2>1, <2>2
<1> QED
  BY <1>1, <1>2, <1>3, InviteMovesInv

\* Before the first invitation.
LEMMA InvitesInitInv == Invites!Init => InvitesInv
<1> SUFFICES ASSUME Invites!Init PROVE InvitesInv
  OBVIOUS
<1>1. \A p \in Unit : mailUnit[p] = Invites!Idle
  BY DEF Invites!Init
<1>2. \A p \in Unit : /\ ~InviteOpen(p) /\ InvitePath(p) /\ ~HasInvited(p) /\ ~HasAccepted(p)
                      /\ ~Invites!Joining(p)
  BY <1>1, InviteIdle DEF InviteOpen, InvitePath, HasInvited, HasAccepted, Invites!Joining
<1>3. \A i \in Invitation : ~Invites!Pending(i)
  BY InviteIdle DEF Invites!Init, Invites!Pending
<1>4. Invites!TypeOK
  <2>1. mailUnit \in [Unit -> InviteUnitType]
    BY InviteIdle DEF Invites!Init
  <2>2. invitation \in [Invitation -> [status : {"none", "pending", "consumed"},
                                       expiresAt : 0..LastTick + TokenTTL, roles : SUBSET Role]]
    BY InviteIdle DEF Invites!Init
  <2>3. mailNow \in 0..LastTick /\ mailFaults \in 0..MaxFaults /\ joins \in Nat
    BY InviteConstants DEF Invites!Init
  <2>4. late \in BOOLEAN /\ mailOverlapped \in BOOLEAN
    BY DEF Invites!Init
  <2>5. /\ joined \in SUBSET Role /\ roles \in SUBSET Role
        /\ mails \subseteq Invitation /\ issued \subseteq Invitation
    BY DEF Invites!Init
  <2> QED
    BY <1>3, <2>1, <2>2, <2>3, <2>4, <2>5 DEF Invites!TypeOK, InviteUnitType
<1>5. InvitePendingInv /\ InviteMailInv /\ InviteSerialInv
  BY <1>2, <1>3 DEF InvitePendingInv, InviteMailInv, InviteSerialInv, Invites!Init
<1>6. InviteJoinInv
  <2>1. joins = 0
    BY DEF Invites!Init
  <2> QED
    BY <1>2, <2>1 DEF InviteJoinInv
<1> QED
  BY <1>2, <1>4, <1>5, <1>6 DEF InvitesInv

\* What a unit of work begins with.
LEMMA InviteStartInv ==
  ASSUME InvitesInv, NEW p \in Unit, NEW c \in InviteUnitType, Invites!Start(p, c),
         \/ c.pc = "begin" /\ c.op = "invite" /\ c.id \in Invitation /\ c.roles # {}
         \/ c.pc = "find" /\ c.op = "accept" /\ c.id \in Invitation
         \/ c.pc = "begin" /\ c.op = "attach" /\ c.id = Nobody /\ c.roles # {}
  PROVE  InvitesInv'
<1>a. /\ mailUnit' = [mailUnit EXCEPT ![p] = c] /\ mailUnit[p].pc = "idle"
      /\ mailOverlapped' = (mailOverlapped \/ Invites!Busy)
      /\ UNCHANGED <<invitation, joined, roles, mailNow, mailFaults, mails, issued, joins, late>>
  BY DEF Invites!Start
<1>b. mailUnit'[p] = c /\ \A q \in Unit \ {p} : mailUnit'[q] = mailUnit[q]
  BY <1>a, InviteTypes
<1>1. InviteMoves(p)
  <2>1. mailUnit' \in [Unit -> InviteUnitType]
    BY <1>a, InviteTypes
  <2>2. mailOverlapped' \in BOOLEAN
    BY <1>a
  <2> QED
    BY <1>a, <1>b, <2>1, <2>2, InviteTypes DEF InviteMoves
<1>2. InvitePath(p)' /\ ~HasInvited(p)' /\ ~HasAccepted(p)' /\ ~Invites!Joining(p)'
  BY <1>b DEF InvitePath, HasInvited, HasAccepted, Invites!Joining
<1>3. InviteMailInv'
  <2>1. Invites!InFlight \subseteq Invites!InFlight'
    BY <1>a, <1>b DEF Invites!InFlight
  <2> QED
    BY <1>a, <2>1 DEF InvitesInv, InviteMailInv
<1>4. ~mailOverlapped' => \A q \in Unit \ {p} : ~InviteOpen(q)
  BY <1>a DEF Invites!Busy, InviteOpen
<1> QED
  BY <1>1, <1>2, <1>3, <1>4, InviteMovesInv

\* An invitation, a token or a direct attachment arrives.
LEMMA InviteBeginsInv ==
  ASSUME InvitesInv, NEW p \in Unit, Invites!Invite(p) \/ Invites!Accept(p) \/ Invites!Attach(p)
  PROVE  InvitesInv'
<1>1. CASE Invites!Invite(p)
  <2>1. PICK i \in Invites!Unused, rs \in (SUBSET Role) \ {{}} :
          Invites!Start(p, [Invites!Idle EXCEPT !.pc = "begin", !.id = i, !.roles = rs, !.at = mailNow])
    BY <1>1 DEF Invites!Invite
  <2> DEFINE c == [Invites!Idle EXCEPT !.pc = "begin", !.id = i, !.roles = rs, !.at = mailNow]
  <2>2. c \in InviteUnitType /\ c.pc = "begin" /\ c.op = "invite" /\ c.id \in Invitation /\ c.roles # {}
    BY InviteIdle, InviteTypes DEF InviteUnitType, Invites!Unused
  <2>3. Invites!Start(p, c)
    BY <2>1
  <2> HIDE DEF c
  <2> QED
    BY <2>2, <2>3, InviteStartInv
<1>2. CASE Invites!Accept(p)
  <2>1. PICK i \in mails :
          Invites!Start(p, [Invites!Idle EXCEPT !.pc = "find", !.op = "accept", !.id = i, !.at = mailNow])
    BY <1>2 DEF Invites!Accept
  <2> DEFINE c == [Invites!Idle EXCEPT !.pc = "find", !.op = "accept", !.id = i, !.at = mailNow]
  <2>2. c \in InviteUnitType /\ c.pc = "find" /\ c.op = "accept" /\ c.id \in Invitation
    BY InviteIdle, InviteTypes DEF InviteUnitType
  <2>3. Invites!Start(p, c)
    BY <2>1
  <2> HIDE DEF c
  <2> QED
    BY <2>2, <2>3, InviteStartInv
<1>3. CASE Invites!Attach(p)
  <2>1. PICK rs \in (SUBSET Role) \ {{}} :
          Invites!Start(p, [Invites!Idle EXCEPT !.pc = "begin", !.op = "attach", !.roles = rs, !.at = mailNow])
    BY <1>3 DEF Invites!Attach
  <2> DEFINE c == [Invites!Idle EXCEPT !.pc = "begin", !.op = "attach", !.roles = rs, !.at = mailNow]
  <2>2. c \in InviteUnitType /\ c.pc = "begin" /\ c.op = "attach" /\ c.id = Nobody /\ c.roles # {}
    <3>1. Invites!Idle.id = Nobody
      BY DEF Invites!Idle
    <3> QED
      BY <3>1, InviteIdle, InviteTypes DEF InviteUnitType
  <2>3. Invites!Start(p, c)
    BY <2>1
  <2> HIDE DEF c
  <2> QED
    BY <2>2, <2>3, InviteStartInv
<1> QED
  BY <1>1, <1>2, <1>3

\* The unit of work p goes on to c.
LEMMA InviteGoesOnInv ==
  ASSUME InvitesInv, NEW p \in Unit, NEW c \in InviteUnitType, InviteOpen(p), mailUnit[p].pc # "commit",
         mailUnit' = [mailUnit EXCEPT ![p] = c],
         UNCHANGED <<invitation, joined, roles, mailNow, mailFaults, issued, joins, late, mailOverlapped>>,
         \/ mails' = mails
         \/ mails' = mails \union {c.id} /\ c.op = "invite" /\ c.pc = "commit" /\ c.id \in Invitation,
         InvitePath(p)',
         HasInvited(p)' => /\ \A i \in Invitation : Invites!Pending(i) => i = c.old
                           /\ \A q \in Unit \ {p} : ~HasInvited(q),
         Invites!Joining(p)' => joined = {} /\ \A q \in Unit \ {p} : ~Invites!Joining(q),
         ~mailOverlapped /\ HasAccepted(p)' => Invites!IsActive(c.id, c.at)
  PROVE  InvitesInv'
<1>b. mailUnit'[p] = c /\ \A q \in Unit \ {p} : mailUnit'[q] = mailUnit[q]
  BY InviteTypes
<1>1. InviteMoves(p)
  <2>1. mailUnit' \in [Unit -> InviteUnitType]
    BY InviteTypes
  <2> QED
    BY <1>b, <2>1, InviteTypes DEF InviteMoves
<1>2. InviteMailInv'
  <2>1. Invites!InFlight \subseteq Invites!InFlight'
    BY <1>b DEF Invites!InFlight
  <2>2. c.op = "invite" /\ c.pc = "commit" => c.id \in Invites!InFlight'
    BY <1>b DEF Invites!InFlight
  <2> QED
    BY <2>1, <2>2 DEF InvitesInv, InviteMailInv
<1>3. ~mailOverlapped' => \A q \in Unit \ {p} : ~InviteOpen(q)
  BY DEF InvitesInv, InviteSerialInv
<1> QED
  BY <1>1, <1>2, <1>3, <1>b, InviteMovesInv

\* Checks and searches, which may refuse.
LEMMA InviteFindsInv ==
  ASSUME InvitesInv, NEW p \in Unit,
         Invites!Check(p) \/ Invites!FindPending(p) \/ Invites!FindByToken(p)
  PROVE  InvitesInv'
<1> DEFINE u == mailUnit[p]
<1>a. /\ u.pc \in {"begin", "find"} /\ InviteOpen(p) /\ u \in InviteUnitType
      /\ UNCHANGED <<invitation, joined, roles, mailNow, mailFaults, mails, issued, joins, late, mailOverlapped>>
  BY InviteTypes
  DEF Invites!Check, Invites!FindPending, Invites!FindByToken, Invites!history, InviteOpen
<1>b. InvitePath(p)
  BY DEF InvitesInv
<1>c. ASSUME Invites!Reject(p) PROVE InvitesInv'
  BY <1>a, <1>c, InviteRejectInv
<1>1. CASE Invites!Check(p)
  <2> DEFINE c == [u EXCEPT !.pc = IF u.op = "invite" THEN "find" ELSE "save"]
  <2>1. CASE ~(u.roles \subseteq roles /\ joined = {})
    BY <1>1, <1>c, <2>1 DEF Invites!Check
  <2>2. CASE u.roles \subseteq roles /\ joined = {}
    <3>1. mailUnit' = [mailUnit EXCEPT ![p] = c] /\ u.pc = "begin"
      BY <1>1, <2>2 DEF Invites!Check, Invites!Goto
    <3>2. /\ c \in InviteUnitType /\ c.op = u.op /\ c.id = u.id /\ c.roles = u.roles
          /\ c.pc = (IF u.op = "invite" THEN "find" ELSE "save")
      BY <1>a DEF InviteUnitType
    <3> HIDE DEF c
    <3>3. mailUnit'[p] = c
      BY <3>1, InviteTypes
    <3>4. InvitePath(p)' /\ ~HasInvited(p)' /\ ~HasAccepted(p)' /\ ~Invites!Joining(p)'
      BY <1>a, <1>b, <3>1, <3>2, <3>3
      DEF InvitePath, HasInvited, HasAccepted, Invites!Joining, InviteOpen
    <3> QED
      BY <1>a, <3>1, <3>2, <3>4, InviteGoesOnInv
  <2> QED
    BY <2>1, <2>2
<1>2. CASE Invites!FindPending(p)
  <2> DEFINE pending == {i \in Invitation : Invites!Pending(i)}
             o == IF pending = {} THEN Nobody ELSE CHOOSE i \in pending : TRUE
             c == [u EXCEPT !.pc = "save", !.old = o]
  <2>1. CASE \E i \in pending : Invites!IsActive(i, u.at)
    BY <1>2, <1>c, <2>1 DEF Invites!FindPending
  <2>2. CASE ~(\E i \in pending : Invites!IsActive(i, u.at))
    <3>1. mailUnit' = [mailUnit EXCEPT ![p] = c] /\ u.op = "invite"
      BY <1>2, <2>2 DEF Invites!FindPending
    <3>2. o \in Invitation \union {Nobody}
      OBVIOUS
    <3> HIDE DEF o
    <3>3. c \in InviteUnitType /\ c.op = u.op /\ c.id = u.id /\ c.roles = u.roles /\ c.pc = "save"
      BY <1>a, <3>2 DEF InviteUnitType
    <3> HIDE DEF c
    <3>4. mailUnit'[p] = c
      BY <3>1, InviteTypes
    <3>5. InvitePath(p)' /\ ~HasInvited(p)' /\ ~HasAccepted(p)' /\ ~Invites!Joining(p)'
      BY <1>a, <1>b, <3>1, <3>3, <3>4
      DEF InvitePath, HasInvited, HasAccepted, Invites!Joining, InviteOpen
    <3> QED
      BY <1>a, <3>1, <3>3, <3>5, InviteGoesOnInv
  <2> QED
    BY <2>1, <2>2
<1>3. CASE Invites!FindByToken(p)
  <2> DEFINE c == [u EXCEPT !.pc = "save", !.roles = invitation[u.id].roles]
  <2>1. CASE ~(Invites!IsActive(u.id, u.at) /\ joined = {})
    BY <1>3, <1>c, <2>1 DEF Invites!FindByToken
  <2>2. CASE Invites!IsActive(u.id, u.at) /\ joined = {}
    <3>1. mailUnit' = [mailUnit EXCEPT ![p] = c] /\ u.op = "accept"
      BY <1>3, <2>2 DEF Invites!FindByToken
    <3>2. u.id \in Invitation /\ invitation[u.id].roles # {} /\ invitation[u.id].roles \in SUBSET Role
      BY <1>a, <1>b, <2>2, <3>1, InviteTypes DEF InvitePath, Invites!IsActive
    <3>3. /\ c \in InviteUnitType /\ c.op = u.op /\ c.id = u.id /\ c.roles # {} /\ c.pc = "save" /\ c.at = u.at
      BY <1>a, <3>2 DEF InviteUnitType
    <3> HIDE DEF c
    <3>4. mailUnit'[p] = c
      BY <3>1, InviteTypes
    <3>5. InvitePath(p)' /\ ~HasInvited(p)' /\ ~Invites!Joining(p)'
      BY <1>a, <1>b, <3>1, <3>2, <3>3, <3>4
      DEF InvitePath, HasInvited, HasAccepted, Invites!Joining, InviteOpen
    <3>6. Invites!IsActive(c.id, c.at)
      BY <2>2, <3>3
    <3> QED
      BY <1>a, <3>1, <3>3, <3>5, <3>6, InviteGoesOnInv
  <2> QED
    BY <2>1, <2>2
<1> QED
  BY <1>1, <1>2, <1>3

\* The rows are written: the invitation's when no other unit of work has written
\* one of the address, the membership's likewise.
LEMMA InviteSavesInv ==
  ASSUME InvitesInv, NEW p \in Unit,
         Invites!SaveInvitation(p) \/ Invites!SaveMembership(p) \/ Invites!Consume(p)
  PROVE  InvitesInv'
<1> DEFINE u == mailUnit[p]
<1>a. /\ u.pc \in {"save", "consume"} /\ InviteOpen(p) /\ u \in InviteUnitType
      /\ UNCHANGED <<invitation, joined, roles, mailNow, mailFaults, mails, issued, joins, late, mailOverlapped>>
  BY InviteTypes
  DEF Invites!SaveInvitation, Invites!SaveMembership, Invites!Consume, Invites!history, InviteOpen
<1>b. InvitePath(p) /\ (~mailOverlapped /\ HasAccepted(p) => Invites!IsActive(u.id, u.at))
  BY DEF InvitesInv, InviteSerialInv
<1>c. ASSUME Invites!Reject(p) PROVE InvitesInv'
  BY <1>a, <1>c, InviteRejectInv
<1>1. CASE Invites!SaveInvitation(p)
  <2> DEFINE c == [u EXCEPT !.pc = "mail"]
  <2>1. CASE ~Invites!OnlyPending(p)
    BY <1>1, <1>c, <2>1 DEF Invites!SaveInvitation
  <2>2. CASE Invites!OnlyPending(p)
    <3>1. mailUnit' = [mailUnit EXCEPT ![p] = c] /\ u.op = "invite" /\ u.pc = "save"
      BY <1>1, <2>2 DEF Invites!SaveInvitation, Invites!Goto
    <3>2. c \in InviteUnitType /\ c.op = u.op /\ c.id = u.id /\ c.roles = u.roles /\ c.pc = "mail" /\ c.old = u.old
      BY <1>a DEF InviteUnitType
    <3> HIDE DEF c
    <3>3. mailUnit'[p] = c
      BY <3>1, InviteTypes
    <3>4. InvitePath(p)' /\ ~HasAccepted(p)' /\ ~Invites!Joining(p)'
      BY <1>a, <1>b, <3>1, <3>2, <3>3
      DEF InvitePath, HasAccepted, Invites!Joining, InviteOpen
    <3>5. \A q \in Unit \ {p} : ~HasInvited(q)
      BY <1>1 DEF Invites!SaveInvitation, Invites!Holds, HasInvited
    <3>6. \A i \in Invitation : Invites!Pending(i) => i = c.old
      BY <2>2, <3>2 DEF Invites!OnlyPending
    <3> QED
      BY <1>a, <3>1, <3>2, <3>4, <3>5, <3>6, InviteGoesOnInv
  <2> QED
    BY <2>1, <2>2
<1>2. CASE Invites!SaveMembership(p)
  <2> DEFINE c == [u EXCEPT !.pc = IF u.op = "accept" THEN "consume" ELSE "commit"]
  <2>1. CASE ~Invites!OnlyMember
    BY <1>2, <1>c, <2>1 DEF Invites!SaveMembership
  <2>2. CASE Invites!OnlyMember
    <3>1. mailUnit' = [mailUnit EXCEPT ![p] = c] /\ u.op # "invite" /\ u.pc = "save"
      BY <1>2, <2>2 DEF Invites!SaveMembership, Invites!Goto
    <3>2. /\ c \in InviteUnitType /\ c.op = u.op /\ c.id = u.id /\ c.roles = u.roles /\ c.at = u.at
          /\ c.pc = (IF u.op = "accept" THEN "consume" ELSE "commit")
      BY <1>a DEF InviteUnitType
    <3> HIDE DEF c
    <3>3. mailUnit'[p] = c
      BY <3>1, InviteTypes
    <3>4. InvitePath(p)' /\ ~HasInvited(p)'
      BY <1>a, <1>b, <3>1, <3>2, <3>3 DEF InvitePath, HasInvited, HasAccepted, InviteOpen
    <3>5. joined = {} /\ \A q \in Unit \ {p} : ~Invites!Joining(q)
      BY <1>2, <2>2 DEF Invites!SaveMembership, Invites!OnlyMember
    <3>6. ~mailOverlapped /\ HasAccepted(p)' => Invites!IsActive(c.id, c.at)
      BY <1>b, <3>1, <3>2, <3>3 DEF HasAccepted
    <3> QED
      BY <1>a, <3>1, <3>2, <3>4, <3>5, <3>6, InviteGoesOnInv
  <2> QED
    BY <2>1, <2>2
<1>3. CASE Invites!Consume(p)
  <2> DEFINE c == [u EXCEPT !.pc = "commit"]
  <2>1. mailUnit' = [mailUnit EXCEPT ![p] = c] /\ u.pc = "consume" /\ u.op = "accept"
    BY <1>3, <1>b DEF Invites!Consume, Invites!Goto, InvitePath
  <2>2. c \in InviteUnitType /\ c.op = u.op /\ c.id = u.id /\ c.roles = u.roles /\ c.at = u.at /\ c.pc = "commit"
    BY <1>a DEF InviteUnitType
  <2> HIDE DEF c
  <2>3. mailUnit'[p] = c
    BY <2>1, InviteTypes
  <2>4. InvitePath(p)' /\ ~HasInvited(p)'
    BY <1>a, <1>b, <2>1, <2>2, <2>3 DEF InvitePath, HasInvited, HasAccepted, InviteOpen
  <2>5. joined = {} /\ \A q \in Unit \ {p} : ~Invites!Joining(q)
    BY <2>1 DEF InvitesInv, InviteJoinInv, Invites!Joining
  <2>6. ~mailOverlapped => Invites!IsActive(c.id, c.at)
    BY <1>b, <2>1, <2>2 DEF HasAccepted
  <2> QED
    BY <1>a, <2>1, <2>2, <2>4, <2>5, <2>6, InviteGoesOnInv
<1> QED
  BY <1>1, <1>2, <1>3

\* The mail leaves before COMMIT.
LEMMA InviteMailsInv ==
  ASSUME InvitesInv, NEW p \in Unit, Invites!Mail(p)
  PROVE  InvitesInv'
<1> DEFINE u == mailUnit[p]
           c == [u EXCEPT !.pc = "commit"]
<1>a. /\ u.pc = "mail" /\ InviteOpen(p) /\ u \in InviteUnitType
      /\ UNCHANGED <<invitation, joined, roles, mailNow, mailFaults, issued, joins, late, mailOverlapped>>
      /\ mailUnit' = [mailUnit EXCEPT ![p] = c] /\ mails' = mails \union {u.id}
  BY InviteTypes DEF Invites!Mail, Invites!Goto, Invites!history, InviteOpen
<1>b. InvitePath(p) /\ u.op = "invite" /\ u.id \in Invitation
  BY <1>a DEF InvitesInv, InvitePath
<1>1. c \in InviteUnitType /\ c.op = u.op /\ c.id = u.id /\ c.roles = u.roles /\ c.pc = "commit" /\ c.old = u.old
  BY <1>a DEF InviteUnitType
<1> HIDE DEF c
<1>2. mailUnit'[p] = c
  BY <1>a, InviteTypes
<1>3. InvitePath(p)' /\ ~HasAccepted(p)' /\ ~Invites!Joining(p)'
  BY <1>a, <1>b, <1>1, <1>2 DEF InvitePath, HasAccepted, Invites!Joining, InviteOpen
<1>4. /\ \A i \in Invitation : Invites!Pending(i) => i = c.old
      /\ \A q \in Unit \ {p} : ~HasInvited(q)
  BY <1>a, <1>b, <1>1 DEF InvitesInv, InvitePendingInv, HasInvited
<1> QED
  BY <1>a, <1>b, <1>1, <1>3, <1>4, InviteGoesOnInv

\* A row keeps its shape when it is marked consumed.
LEMMA InviteRow ==
  ASSUME NEW r \in [status : {"none", "pending", "consumed"},
                    expiresAt : 0..LastTick + TokenTTL, roles : SUBSET Role]
  PROVE  /\ Invites!Consumed(r) \in [status : {"none", "pending", "consumed"},
                                     expiresAt : 0..LastTick + TokenTTL, roles : SUBSET Role]
         /\ Invites!Consumed(r).status = "consumed"
BY DEF Invites!Consumed

\* COMMIT of an invitation: it is the pending one.
LEMMA InviteCommitInv ==
  ASSUME InvitesInv, NEW p \in Unit, Invites!CommitInvite(p)
  PROVE  InvitesInv'
<1> DEFINE u == mailUnit[p]
<1>a. /\ u.pc = "commit" /\ u.op = "invite" /\ u \in InviteUnitType /\ InviteOpen(p) /\ HasInvited(p)
      /\ invitation' = [i \in Invitation |->
            IF i = u.id THEN [status |-> "pending", expiresAt |-> u.at + TokenTTL, roles |-> u.roles]
            ELSE IF i = u.old THEN Invites!Consumed(invitation[i]) ELSE invitation[i]]
      /\ issued' = issued \union {u.id}
      /\ mailUnit' = [mailUnit EXCEPT ![p] = Invites!Idle]
      /\ UNCHANGED <<joined, roles, mailNow, mailFaults, mails, joins, late, mailOverlapped>>
  BY InviteTypes DEF Invites!CommitInvite, Invites!Reject, InviteOpen, HasInvited
<1>b. /\ mailUnit'[p] = Invites!Idle /\ \A q \in Unit \ {p} : mailUnit'[q] = mailUnit[q]
      /\ mailUnit' \in [Unit -> InviteUnitType]
  BY <1>a, InviteIdle, InviteTypes
<1>c. u.id \in Invitation /\ u.roles # {} /\ u.roles \in SUBSET Role /\ u.at \in 0..LastTick
  BY <1>a DEF InvitesInv, InvitePath, InviteUnitType
<1>d. /\ ~InviteOpen(p)' /\ InvitePath(p)' /\ ~HasInvited(p)' /\ ~HasAccepted(p)' /\ ~Invites!Joining(p)'
  BY <1>b, InviteIdleKept
<1>e. \A q \in Unit \ {p} :
        /\ InviteOpen(q)' <=> InviteOpen(q)
        /\ InvitePath(q)' <=> InvitePath(q)
        /\ HasInvited(q)' <=> HasInvited(q)
        /\ HasAccepted(q)' <=> HasAccepted(q)
        /\ Invites!Joining(q)' <=> Invites!Joining(q)
  BY <1>b DEF InviteOpen, InvitePath, HasInvited, HasAccepted, Invites!Joining
<1> HIDE DEF u
<1>f. /\ invitation'[u.id] = [status |-> "pending", expiresAt |-> u.at + TokenTTL, roles |-> u.roles]
      /\ \A i \in Invitation \ {u.id} :
           invitation'[i] = (IF i = u.old THEN Invites!Consumed(invitation[i]) ELSE invitation[i])
  BY <1>a, <1>c
<1>g. \A i \in Invitation : Invites!Pending(i) => i = u.old
  BY <1>a DEF InvitesInv, InvitePendingInv, u
<1>h. \A i \in Invitation : Invites!Pending(i)' => i = u.id
  BY <1>f, <1>g, InviteRow, InviteTypes DEF Invites!Pending
<1>1. Invites!TypeOK'
  <2>1. u.at + TokenTTL \in 0..LastTick + TokenTTL
    BY <1>c, InviteConstants
  <2>2. ASSUME NEW i \in Invitation
        PROVE  invitation'[i] \in [status : {"none", "pending", "consumed"},
                                   expiresAt : 0..LastTick + TokenTTL, roles : SUBSET Role]
    <3>1. CASE i = u.id
      BY <1>c, <1>f, <2>1, <3>1
    <3>2. CASE i # u.id
      BY <1>f, <3>2, InviteRow, InviteTypes
    <3> QED
      BY <3>1, <3>2
  <2>3. invitation' = [i \in Invitation |-> invitation'[i]]
    BY <1>a
  <2>4. \A i \in Invitation : Invites!Pending(i)' => invitation'[i].roles # {}
    BY <1>c, <1>f, <1>h
  <2> QED
    BY <1>a, <1>b, <1>c, <2>2, <2>3, <2>4, InviteTypes DEF Invites!TypeOK, InviteUnitType
<1>2. \A q \in Unit : InvitePath(q)'
  BY <1>d, <1>e DEF InvitesInv
<1>3. InvitePendingInv'
  <2>1. \A q \in Unit : ~HasInvited(q)'
    BY <1>a, <1>d, <1>e DEF InvitesInv, InvitePendingInv
  <2> QED
    BY <1>h, <2>1 DEF InvitePendingInv
<1>4. InviteJoinInv'
  BY <1>a, <1>d, <1>e DEF InvitesInv, InviteJoinInv
<1>5. InviteMailInv'
  <2>1. Invites!InFlight \subseteq Invites!InFlight' \union {u.id}
    BY <1>b DEF Invites!InFlight, u
  <2> QED
    BY <1>a, <2>1 DEF InvitesInv, InviteMailInv
<1>6. InviteSerialInv'
  BY <1>a, <1>d, <1>e DEF InvitesInv, InviteSerialInv, InviteOpen, HasAccepted
<1> QED
  BY <1>1, <1>2, <1>3, <1>4, <1>5, <1>6 DEF InvitesInv

\* COMMIT of a membership: the first, and by a token that is still good unless
\* units of work overlapped.
LEMMA InviteJoinsInv ==
  ASSUME InvitesInv, NEW p \in Unit, Invites!CommitMember(p)
  PROVE  InvitesInv'
<1> DEFINE u == mailUnit[p]
<1>a. /\ u.pc = "commit" /\ u.op # "invite" /\ u \in InviteUnitType /\ InviteOpen(p) /\ Invites!Joining(p)
      /\ joined' = u.roles
      /\ invitation' = [i \in Invitation |->
            IF i = u.id THEN Invites!Consumed(invitation[i]) ELSE invitation[i]]
      /\ joins' = joins + (IF u.op = "accept" THEN 1 ELSE 0)
      /\ late' = (late \/ (u.op = "accept" /\ ~(Invites!Pending(u.id) /\ u.at < invitation[u.id].expiresAt)))
      /\ mailUnit' = [mailUnit EXCEPT ![p] = Invites!Idle]
      /\ UNCHANGED <<roles, mailNow, mailFaults, mails, issued, mailOverlapped>>
  BY InviteTypes DEF Invites!CommitMember, Invites!Reject, InviteOpen, Invites!Joining
<1>b. /\ mailUnit'[p] = Invites!Idle /\ \A q \in Unit \ {p} : mailUnit'[q] = mailUnit[q]
      /\ mailUnit' \in [Unit -> InviteUnitType]
  BY <1>a, InviteIdle, InviteTypes
<1>c. u.roles # {} /\ u.roles \in SUBSET Role /\ u.at \in 0..LastTick /\ (u.op = "accept" => u.id \in Invitation)
  BY <1>a DEF InvitesInv, InvitePath, InviteUnitType, HasAccepted
<1>d. /\ ~InviteOpen(p)' /\ InvitePath(p)' /\ ~HasInvited(p)' /\ ~HasAccepted(p)' /\ ~Invites!Joining(p)'
  BY <1>b, InviteIdleKept
<1>e. \A q \in Unit \ {p} :
        /\ InviteOpen(q)' <=> InviteOpen(q)
        /\ InvitePath(q)' <=> InvitePath(q)
        /\ HasInvited(q)' <=> HasInvited(q)
        /\ HasAccepted(q)' <=> HasAccepted(q)
        /\ Invites!Joining(q)' <=> Invites!Joining(q)
  BY <1>b DEF InviteOpen, InvitePath, HasInvited, HasAccepted, Invites!Joining
<1>f. HasAccepted(p) <=> u.op = "accept"
  BY <1>a DEF HasAccepted
<1> HIDE DEF u
<1>g. \A i \in Invitation :
        invitation'[i] = (IF i = u.id THEN Invites!Consumed(invitation[i]) ELSE invitation[i])
  BY <1>a
<1>h. \A i \in Invitation : Invites!Pending(i)' => Invites!Pending(i) /\ invitation'[i] = invitation[i]
  BY <1>g, InviteRow, InviteTypes DEF Invites!Pending
<1>1. Invites!TypeOK'
  <2>1. \A i \in Invitation :
          invitation'[i] \in [status : {"none", "pending", "consumed"},
                              expiresAt : 0..LastTick + TokenTTL, roles : SUBSET Role]
    BY <1>g, InviteRow, InviteTypes
  <2>2. invitation' = [i \in Invitation |-> invitation'[i]]
    BY <1>a
  <2>3. \A i \in Invitation : Invites!Pending(i)' => invitation'[i].roles # {}
    BY <1>h, InviteTypes
  <2>4. joins' \in Nat
    BY <1>a, InviteTypes
  <2>5. late' \in BOOLEAN
    BY <1>a
  <2> QED
    BY <1>a, <1>b, <1>c, <2>1, <2>2, <2>3, <2>4, <2>5, InviteTypes DEF Invites!TypeOK, InviteUnitType
<1>2. \A q \in Unit : InvitePath(q)'
  BY <1>d, <1>e DEF InvitesInv
<1>3. InvitePendingInv'
  <2>1. \A i \in Invitation, q \in Unit : HasInvited(q)' /\ Invites!Pending(i)' => i = mailUnit'[q].old
    BY <1>b, <1>d, <1>e, <1>h DEF InvitesInv, InvitePendingInv
  <2> QED
    BY <1>d, <1>e, <1>h, <2>1 DEF InvitesInv, InvitePendingInv
<1>4. InviteJoinInv'
  <2>1. \A q \in Unit : ~Invites!Joining(q)'
    BY <1>a, <1>d, <1>e DEF InvitesInv, InviteJoinInv
  <2>2. joined = {} /\ joins = 0
    BY <1>a, InviteTypes DEF InvitesInv, InviteJoinInv
  <2> QED
    BY <1>a, <1>c, <2>1, <2>2 DEF InviteJoinInv
<1>5. InviteMailInv'
  <2>1. Invites!InFlight \subseteq Invites!InFlight'
    BY <1>a, <1>b DEF Invites!InFlight, u
  <2> QED
    BY <1>a, <2>1 DEF InvitesInv, InviteMailInv
<1>6. InviteSerialInv'
  <2> SUFFICES ASSUME ~mailOverlapped PROVE InviteSerialInv'
    BY <1>a DEF InviteSerialInv
  <2>1. \A q \in Unit : ~InviteOpen(q)'
    BY <1>a, <1>d, <1>e DEF InvitesInv, InviteSerialInv
  <2>2. ~late'
    <3>1. u.op = "accept" => Invites!IsActive(u.id, u.at)
      BY <1>f DEF InvitesInv, InviteSerialInv, u
    <3>2. u.op = "accept" => Invites!Pending(u.id) /\ u.at < invitation[u.id].expiresAt
      BY <1>c, <3>1, InviteTypes, InviteConstants DEF Invites!IsActive
    <3>3. ~late
      BY DEF InvitesInv, InviteSerialInv
    <3> QED
      BY <1>a, <3>2, <3>3
  <2> QED
    BY <2>1, <2>2 DEF InviteSerialInv, InviteOpen, HasAccepted
<1> QED
  BY <1>1, <1>2, <1>3, <1>4, <1>5, <1>6 DEF InvitesInv

\* The purge takes rows, and never makes one pending.
LEMMA InvitePurgeInv == InvitesInv /\ Invites!Purge => InvitesInv'
<1> SUFFICES ASSUME InvitesInv, Invites!Purge PROVE InvitesInv'
  OBVIOUS
<1> DEFINE ended == {i \in Invitation : Invites!Stale(i)}
<1>a. /\ invitation' = [i \in Invitation |-> IF i \in ended THEN Invites!NoRow ELSE invitation[i]]
      /\ mailOverlapped' = (mailOverlapped \/ Invites!Busy)
      /\ UNCHANGED <<joined, roles, mailUnit, mailNow, mailFaults, mails, issued, joins, late>>
  BY DEF Invites!Purge
<1> HIDE DEF ended
<1>b. \A i \in Invitation : Invites!Pending(i)' => Invites!Pending(i) /\ invitation'[i] = invitation[i]
  BY <1>a, InviteIdle DEF Invites!Pending
<1>1. Invites!TypeOK'
  <2>1. invitation' \in [Invitation -> [status : {"none", "pending", "consumed"},
                                        expiresAt : 0..LastTick + TokenTTL, roles : SUBSET Role]]
    BY <1>a, InviteIdle, InviteTypes
  <2>2. \A i \in Invitation : Invites!Pending(i)' => invitation'[i].roles # {}
    BY <1>b, InviteTypes
  <2>3. mailOverlapped' \in BOOLEAN
    BY <1>a
  <2> QED
    BY <1>a, <2>1, <2>2, <2>3, InviteTypes DEF Invites!TypeOK, InviteUnitType
<1>2. (\A q \in Unit : InvitePath(q)') /\ InviteJoinInv' /\ InviteMailInv'
  BY <1>a DEF InvitesInv, InvitePath, InviteOpen, HasAccepted, InviteJoinInv, Invites!Joining,
              InviteMailInv, Invites!InFlight
<1>3. InvitePendingInv'
  BY <1>a, <1>b DEF InvitesInv, InvitePendingInv, HasInvited
<1>4. InviteSerialInv'
  <2> SUFFICES ASSUME ~mailOverlapped' PROVE InviteSerialInv'
    BY DEF InviteSerialInv
  <2>1. ~mailOverlapped /\ \A q \in Unit : ~InviteOpen(q)' /\ ~HasAccepted(q)'
    BY <1>a DEF Invites!Busy, InviteOpen, HasAccepted
  <2> QED
    BY <1>a, <2>1 DEF InvitesInv, InviteSerialInv
<1> QED
  BY <1>1, <1>2, <1>3, <1>4 DEF InvitesInv

\* A role goes, or time passes.
LEMMA InviteOthersInv == InvitesInv /\ (Invites!DeleteRole \/ Invites!Tick) => InvitesInv'
<1> SUFFICES ASSUME InvitesInv, Invites!DeleteRole \/ Invites!Tick PROVE InvitesInv'
  OBVIOUS
<1>a. UNCHANGED <<invitation, joined, mailUnit, mailFaults, mails, issued, joins, late>>
  BY DEF Invites!DeleteRole, Invites!Tick, Invites!history
<1>b. /\ roles' \in SUBSET Role
      /\ mailOverlapped' \in BOOLEAN /\ (mailOverlapped => mailOverlapped')
  <2>1. CASE Invites!DeleteRole
    <3>1. roles' \in SUBSET Role
      BY <2>1, InviteTypes DEF Invites!DeleteRole
    <3> QED
      BY <2>1, <3>1 DEF Invites!DeleteRole
  <2>2. CASE Invites!Tick
    BY <2>2, InviteTypes DEF Invites!Tick, Invites!history
  <2> QED
    BY <2>1, <2>2
<1>c. mailNow' \in 0..LastTick
  BY InviteTypes, InviteConstants DEF Invites!DeleteRole, Invites!Tick
<1>1. Invites!TypeOK'
  BY <1>a, <1>b, <1>c, InviteTypes DEF Invites!TypeOK, InviteUnitType, Invites!Pending
<1>2. /\ \A q \in Unit : InvitePath(q)'
      /\ InvitePendingInv' /\ InviteJoinInv' /\ InviteMailInv'
  BY <1>a DEF InvitesInv, InvitePath, InviteOpen, HasAccepted, HasInvited, InvitePendingInv, Invites!Pending,
              InviteJoinInv, Invites!Joining, InviteMailInv, Invites!InFlight
<1>3. InviteSerialInv'
  BY <1>a, <1>b DEF InvitesInv, InviteSerialInv, InviteOpen, HasAccepted, Invites!IsActive, Invites!Pending
<1> QED
  BY <1>1, <1>2, <1>3 DEF InvitesInv

\* Every step of the invitation module keeps the invariant.
LEMMA InvitesNextInv == InvitesInv /\ [Invites!Next]_Invites!vars => InvitesInv'
<1> SUFFICES ASSUME InvitesInv, [Invites!Next]_Invites!vars PROVE InvitesInv'
  OBVIOUS
<1>1. ASSUME NEW p \in Unit, Invites!Fails(p) PROVE InvitesInv'
  <2>1. mailFaults' \in 0..MaxFaults /\ mailFaults' < MaxFaults
    BY <1>1, InviteTypes, InviteConstants DEF Invites!Fails
  <2> QED
    BY <1>1, <2>1, InviteRejectInv DEF Invites!Fails, Invites!history
<1>2. ASSUME UNCHANGED Invites!vars PROVE InvitesInv'
  BY <1>2 DEF Invites!vars, Invites!history, InvitesInv, Invites!TypeOK, InvitePath, InviteOpen, HasAccepted,
              HasInvited, InvitePendingInv, Invites!Pending, InviteJoinInv, Invites!Joining, InviteMailInv,
              Invites!InFlight, InviteSerialInv, Invites!IsActive
<1> QED
  BY <1>1, <1>2, InviteBeginsInv, InviteFindsInv, InviteSavesInv, InviteMailsInv, InviteCommitInv,
     InviteJoinsInv, InvitePurgeInv, InviteOthersInv DEF Invites!Next

\* The invariant is enough.
LEMMA InvitesInvImplies ==
  InvitesInv => /\ Invites!TypeOK /\ Invites!OnePending /\ Invites!JoinsOnce
                /\ Invites!LateNeedsOverlap /\ Invites!DeadMailNeedsFault
<1> SUFFICES ASSUME InvitesInv
             PROVE  /\ Invites!OnePending /\ Invites!JoinsOnce
                    /\ Invites!LateNeedsOverlap /\ Invites!DeadMailNeedsFault
  BY DEF InvitesInv
<1>1. Invites!OnePending
  <2> DEFINE pending == {i \in Invitation : Invites!Pending(i)}
  <2>a. Invites!Cardinality(pending) = Cardinality(pending)
    BY DEF Invites!Cardinality, Cardinality, Invites!IsFiniteSet, IsFiniteSet
  <2>1. CASE pending = {}
    <3>1. Cardinality(pending) = 0
      BY <2>1, FS_EmptySet
    <3> QED
      BY <2>a, <3>1 DEF Invites!OnePending
  <2>2. CASE pending # {}
    <3>1. PICK i \in pending : TRUE
      BY <2>2
    <3>2. \A j \in pending : j = i
      BY <3>1 DEF InvitesInv, InvitePendingInv
    <3> HIDE DEF pending
    <3>3. pending = {i}
      BY <3>1, <3>2
    <3>4. Cardinality(pending) = 1
      BY <3>3, FS_Singleton
    <3> USE DEF pending
    <3> QED
      BY <2>a, <3>4 DEF Invites!OnePending
  <2> QED
    BY <2>1, <2>2
<1>2. Invites!JoinsOnce
  BY DEF InvitesInv, InviteJoinInv, Invites!JoinsOnce
<1>3. Invites!LateNeedsOverlap
  BY DEF InvitesInv, InviteSerialInv, Invites!LateNeedsOverlap
<1>4. Invites!DeadMailNeedsFault
  BY InviteTypes, InviteConstants DEF InvitesInv, InviteMailInv, Invites!DeadMailNeedsFault
<1> QED
  BY <1>1, <1>2, <1>3, <1>4

\* On its own, for any number of invitations and units of work: one pending
\* invitation per address, one joining, none by a dead token unless units of work
\* overlapped, and no dead mail without a failure.
THEOREM InvitationsAreSound ==
  Invites!Spec => [](/\ Invites!TypeOK /\ Invites!OnePending /\ Invites!JoinsOnce
                     /\ Invites!LateNeedsOverlap /\ Invites!DeadMailNeedsFault)
<1>1. Invites!Init => InvitesInv
  BY InvitesInitInv
<1>2. InvitesInv /\ [Invites!Next]_Invites!vars => InvitesInv'
  BY InvitesNextInv
<1> QED
  BY <1>1, <1>2, InvitesInvImplies, PTL DEF Invites!Spec

-----------------------------------------------------------------------------
(* Password resets.                                                         *)

\* A unit of work.
ResetUnitType ==
    [pc : {"idle", "find", "compareToken", "writeToken", "mail",
           "comparePassword", "writePassword", "commit"},
     op : {"request", "reset", "set", "change"}, chosen : 0..MaxPasswords,
     loaded : 0..MaxPasswords, at : 0..LastTick, entity : Resets!Row,
     changed : SUBSET {"hash", "expiresAt", "consumed"}, insert : BOOLEAN]

ResetOpen(p) == resetUnit[p].pc # "idle"
Requesting(p) == ResetOpen(p) /\ resetUnit[p].op = "request"
\* A reset that has found its token.
HasFound(p) == resetUnit[p].op = "reset" /\ resetUnit[p].pc \notin {"idle", "find"}
\* Either has sent its INSERT or UPDATE of the row.
HasWritten(p) ==
    \/ resetUnit[p].op = "request" /\ resetUnit[p].pc \in {"mail", "commit"}
    \/ resetUnit[p].op = "reset" /\ resetUnit[p].pc \in {"comparePassword", "writePassword", "commit"}

\* Each operation has its own way through a unit of work.
ResetPath(p) ==
    /\ resetUnit[p].pc = "mail" => resetUnit[p].op = "request"
    /\ resetUnit[p].pc \in {"find", "comparePassword", "writePassword"} => resetUnit[p].op # "request"
    /\ resetUnit[p].pc \in {"compareToken", "writeToken"} => resetUnit[p].op \in {"request", "reset"}
    /\ resetUnit[p].op \in {"set", "change"} => resetUnit[p].changed = {}

\* Its token: a request's is new, a reset's was stored.
ResetToken(p) ==
    /\ ResetOpen(p) /\ resetUnit[p].op \in {"request", "reset"} =>
          resetUnit[p].entity.hash \in Resets!Token /\ resetUnit[p].entity.hash <= requests
    /\ Requesting(p) => resetUnit[p].entity.hash \notin stored /\ ~resetUnit[p].entity.consumed
    /\ HasFound(p) => resetUnit[p].entity.hash \in stored /\ resetUnit[p].entity.consumed

ResetTokensInv ==
    /\ \A t \in resetMails \union stored : t <= requests
    /\ \A t \in Resets!Token : uses[t] > 0 => t <= requests
    /\ token.hash \in {0} \union stored
    /\ latest = Resets!NoRow \/ (latest.hash \in Resets!Token /\ ~latest.consumed)
    /\ \A p \in Unit : ResetPath(p) /\ ResetToken(p)
    /\ \A p, q \in Unit : Requesting(p) /\ Requesting(q) /\ p # q =>
          resetUnit[p].entity.hash # resetUnit[q].entity.hash

\* What a unit of work is to write of the row.
ResetWrites(p) ==
    /\ resetUnit[p].pc = "writeToken" =>
          /\ IF resetUnit[p].insert THEN "hash" \in resetUnit[p].changed
                                    ELSE token # Resets!NoRow \/ resetRaced
          /\ resetUnit[p].op = "request" => "hash" \in resetUnit[p].changed
    /\ Resets!HasToken(p) => token # Resets!NoRow \/ "hash" \in resetUnit[p].changed
    /\ resetUnit[p].op = "request" /\ HasWritten(p) => "hash" \in resetUnit[p].changed \/ resetRaced

ResetWritesInv ==
    /\ \A p \in Unit : ResetWrites(p)
    /\ \A p, q \in Unit : Resets!HasToken(p) /\ Resets!HasToken(q) => p = q

ResetMailInv == resetFaults = MaxFaults /\ ~resetRaced => resetMails \subseteq stored \union Resets!InFlight

\* A unit of work that runs alone: what it is to write and what it leaves alone
\* make the row it knows, unless the row was purged meanwhile.
Agrees(p) ==
    \A f \in {"hash", "expiresAt", "consumed"} :
        f \notin resetUnit[p].changed => token[f] = resetUnit[p].entity[f]

ResetAlone(p) ==
    /\ resetUnit[p].op \in {"set", "change"} /\ resetUnit[p].pc \in {"comparePassword", "writePassword", "commit"} =>
          resetUnit[p].loaded = password
    /\ Requesting(p) \/ HasFound(p) => uses[resetUnit[p].entity.hash] = 0
    /\ resetUnit[p].pc = "writeToken" =>
          \/ Agrees(p) /\ (resetUnit[p].insert <=> token = Resets!NoRow)
          \/ token = Resets!NoRow /\ ~resetUnit[p].insert
    /\ HasWritten(p) => Agrees(p) \/ (resetUnit[p].changed = {} /\ token = Resets!NoRow)

ResetUnraced(p) ==
    /\ resetUnit[p].pc = "writeToken" \/ HasWritten(p) => Agrees(p)
    /\ HasFound(p) => token.hash = resetUnit[p].entity.hash

ResetSerialInv ==
    ~resetOverlapped =>
        /\ \A p, q \in Unit : ResetOpen(p) /\ ResetOpen(q) => p = q
        /\ ~blind
        /\ \A t \in Resets!Token : uses[t] <= 1 /\ (uses[t] = 1 => token.hash # t \/ token.consumed)
        /\ \A p \in Unit : ResetAlone(p)

ResetLatestInv ==
    ~resetOverlapped /\ ~resetRaced =>
        /\ latest # Resets!NoRow /\ uses[latest.hash] = 0 /\ latest.expiresAt > resetNow => token = latest
        /\ \A p \in Unit : ResetUnraced(p)

ResetsInv ==
    /\ Resets!TypeOK /\ ResetTokensInv /\ ResetWritesInv
    /\ ResetMailInv /\ ResetSerialInv /\ ResetLatestInv

-----------------------------------------------------------------------------
\* Constants of the instance.
LEMMA ResetConstants ==
  /\ TokenTTL \in Nat \ {0} /\ MaxPasswords \in Nat \ {0}
  /\ MaxResets \in Nat /\ LastTick \in Nat /\ MaxFaults \in Nat
BY ResetsAssumption DEF Resets!BoundAssumption

\* No unit of work and no row.
LEMMA ResetIdle ==
  /\ Resets!NoRow \in Resets!Row
  /\ Resets!NoRow.hash = 0 /\ Resets!NoRow.expiresAt = 0 /\ ~Resets!NoRow.consumed
  /\ Resets!Idle \in ResetUnitType
  /\ Resets!Idle.pc = "idle" /\ Resets!Idle.op = "request" /\ Resets!Idle.changed = {}
<1>1. /\ Resets!NoRow \in Resets!Row
      /\ Resets!NoRow.hash = 0 /\ Resets!NoRow.expiresAt = 0 /\ ~Resets!NoRow.consumed
  BY ResetConstants DEF Resets!NoRow, Resets!Row, Resets!Time
<1> QED
  BY <1>1, ResetConstants DEF Resets!Idle, ResetUnitType

\* The unit of work p takes a step, and nothing is committed.
ResetMoves(p) ==
    /\ UNCHANGED <<token, password, latest, uses, blind, stored, resetRaced, resetNow>>
    /\ resetUnit' \in [Unit -> ResetUnitType]
    /\ \A q \in Unit \ {p} : resetUnit'[q] = resetUnit[q]
    /\ requests' \in 0..MaxResets /\ requests <= requests'
    /\ passwords' \in 0..MaxPasswords
    /\ resetFaults' \in 0..MaxFaults
    /\ resetMails' \subseteq Resets!Token /\ \A t \in resetMails' : t <= requests'
    /\ resetOverlapped' \in BOOLEAN /\ (resetOverlapped => resetOverlapped')

\* What must be shown of p then.
LEMMA ResetMovesInv ==
  ASSUME ResetsInv, NEW p \in Unit, ResetMoves(p),
         ResetPath(p)', ResetToken(p)', ResetWrites(p)',
         Requesting(p)' => \A q \in Unit \ {p} :
            Requesting(q) => resetUnit'[p].entity.hash # resetUnit[q].entity.hash,
         Resets!HasToken(p)' => \A q \in Unit \ {p} : ~Resets!HasToken(q),
         ResetMailInv',
         ~resetOverlapped' => ResetAlone(p)',
         ~resetOverlapped' /\ ResetOpen(p)' => \A q \in Unit \ {p} : ~ResetOpen(q),
         ~resetOverlapped' /\ ~resetRaced => ResetUnraced(p)'
  PROVE  ResetsInv'
<1>a. \A q \in Unit \ {p} :
        /\ ResetOpen(q)' <=> ResetOpen(q)
        /\ Requesting(q)' <=> Requesting(q)
        /\ HasFound(q)' <=> HasFound(q)
        /\ HasWritten(q)' <=> HasWritten(q)
        /\ Resets!HasToken(q)' <=> Resets!HasToken(q)
        /\ ResetPath(q)' <=> ResetPath(q)
  BY DEF ResetMoves, ResetOpen, Requesting, HasFound, HasWritten, Resets!HasToken, ResetPath
<1>b. requests \in Nat /\ requests' \in Nat /\ requests <= requests'
  BY ResetConstants DEF ResetsInv, Resets!TypeOK, ResetMoves
<1>1. Resets!TypeOK'
  BY DEF ResetsInv, Resets!TypeOK, ResetMoves, ResetUnitType, Resets!NoRow
<1>2. ResetTokensInv'
  <2>1. \A t \in resetMails' \union stored' : t <= requests'
    <3>1. \A t \in stored : t \in Nat /\ t <= requests
      BY ResetConstants DEF ResetsInv, ResetTokensInv, Resets!TypeOK, Resets!Token
    <3> QED
      BY <1>b, <3>1 DEF ResetMoves
  <2>2. \A t \in Resets!Token : uses'[t] > 0 => t <= requests'
    <3>1. \A t \in Resets!Token : t \in Nat
      BY ResetConstants DEF Resets!Token
    <3> QED
      BY <1>b, <3>1 DEF ResetsInv, ResetTokensInv, ResetMoves
  <2>3. \A q \in Unit : ResetPath(q)'
    BY <1>a DEF ResetsInv, ResetTokensInv
  <2>4. \A q \in Unit \ {p} : ResetToken(q)'
    <3>1. \A t \in Resets!Token : t \in Nat
      BY ResetConstants DEF Resets!Token
    <3> QED
      BY <1>a, <1>b, <3>1 DEF ResetsInv, ResetTokensInv, ResetToken, ResetMoves
  <2>5. \A q, r \in Unit : Requesting(q)' /\ Requesting(r)' /\ q # r =>
            resetUnit'[q].entity.hash # resetUnit'[r].entity.hash
    BY <1>a DEF ResetsInv, ResetTokensInv, ResetMoves
  <2> QED
    BY <2>1, <2>2, <2>3, <2>4, <2>5 DEF ResetsInv, ResetTokensInv, ResetMoves, Resets!NoRow
<1>3. ResetWritesInv'
  <2>1. \A q \in Unit \ {p} : ResetWrites(q)'
    BY <1>a DEF ResetsInv, ResetWritesInv, ResetWrites, ResetMoves, Resets!NoRow
  <2>2. \A q, r \in Unit : Resets!HasToken(q)' /\ Resets!HasToken(r)' => q = r
    BY <1>a DEF ResetsInv, ResetWritesInv
  <2> QED
    BY <2>1, <2>2 DEF ResetWritesInv
<1>4. ResetSerialInv'
  <2> SUFFICES ASSUME ~resetOverlapped' PROVE ResetSerialInv'
    BY DEF ResetSerialInv
  <2>1. \A q \in Unit \ {p} : ResetAlone(q)'
    BY <1>a DEF ResetsInv, ResetSerialInv, ResetAlone, Agrees, ResetMoves, Resets!NoRow
  <2>2. \A q, r \in Unit : ResetOpen(q)' /\ ResetOpen(r)' => q = r
    BY <1>a DEF ResetsInv, ResetSerialInv, ResetMoves
  <2> QED
    BY <2>1, <2>2 DEF ResetsInv, ResetSerialInv, ResetMoves
<1>5. ResetLatestInv'
  <2> SUFFICES ASSUME ~resetOverlapped', ~resetRaced' PROVE ResetLatestInv'
    BY DEF ResetLatestInv
  <2>1. ~resetRaced
    BY DEF ResetMoves
  <2>2. \A q \in Unit \ {p} : ResetUnraced(q)'
    BY <1>a, <2>1 DEF ResetsInv, ResetLatestInv, ResetUnraced, Agrees, ResetMoves
  <2> QED
    BY <2>1, <2>2 DEF ResetsInv, ResetLatestInv, ResetMoves, Resets!NoRow
<1> QED
  BY <1>1, <1>2, <1>3, <1>4, <1>5 DEF ResetsInv

\* A unit of work that is refused or fails.
LEMMA ResetRejectInv ==
  ASSUME ResetsInv, NEW p \in Unit, resetUnit' = [resetUnit EXCEPT ![p] = Resets!Idle],
         UNCHANGED <<token, password, latest, uses, blind, stored, resetRaced, resetNow,
                     requests, passwords, resetMails, resetOverlapped>>,
         \/ resetFaults' \in 0..MaxFaults /\ resetFaults' < MaxFaults
         \/ resetFaults' = resetFaults /\ ~(resetUnit[p].op = "request" /\ resetUnit[p].pc = "commit")
  PROVE  ResetsInv'
<1>a. resetUnit \in [Unit -> ResetUnitType]
  BY DEF ResetsInv, Resets!TypeOK, ResetUnitType, Resets!NoRow
<1>b. resetUnit'[p] = Resets!Idle /\ \A q \in Unit \ {p} : resetUnit'[q] = resetUnit[q]
  BY <1>a
<1>1. ResetMoves(p)
  <2>1. resetUnit' \in [Unit -> ResetUnitType]
    BY <1>a, ResetIdle
  <2> QED
    BY <1>b, <2>1, ResetConstants DEF ResetMoves, ResetsInv, Resets!TypeOK, ResetTokensInv
<1>2. ~ResetOpen(p)' /\ ~Requesting(p)' /\ ~HasFound(p)' /\ ~HasWritten(p)' /\ ~Resets!HasToken(p)'
  BY <1>b, ResetIdle DEF ResetOpen, Requesting, HasFound, HasWritten, Resets!HasToken
<1>3. ResetPath(p)' /\ ResetToken(p)' /\ ResetWrites(p)' /\ ResetAlone(p)' /\ ResetUnraced(p)'
  BY <1>2, <1>b, ResetIdle DEF ResetPath, ResetToken, ResetWrites, ResetAlone, ResetUnraced, ResetOpen
<1>4. ResetMailInv'
  <2>1. CASE resetFaults' \in 0..MaxFaults /\ resetFaults' < MaxFaults
    BY <2>1, ResetConstants DEF ResetMailInv
  <2>2. CASE resetFaults' = resetFaults /\ ~(resetUnit[p].op = "request" /\ resetUnit[p].pc = "commit")
    <3>1. Resets!InFlight \subseteq Resets!InFlight'
      BY <1>b, <2>2 DEF Resets!InFlight
    <3> QED
      BY <2>2, <3>1 DEF ResetsInv, ResetMailInv
  <2> QED
    BY <2>1, <2>2
<1> QED
  BY <1>1, <1>2, <1>3, <1>4, ResetMovesInv

\* Before the first request.
LEMMA ResetsInitInv == Resets!Init => ResetsInv
<1> SUFFICES ASSUME Resets!Init PROVE ResetsInv
  OBVIOUS
<1> USE ResetConstants
<1>1. \A p \in Unit : /\ resetUnit[p] = Resets!Idle
                      /\ ~ResetOpen(p) /\ ~Requesting(p) /\ ~HasFound(p) /\ ~HasWritten(p) /\ ~Resets!HasToken(p)
  BY ResetIdle DEF Resets!Init, ResetOpen, Requesting, HasFound, HasWritten, Resets!HasToken
<1>2. Resets!TypeOK
  <2>1. resetUnit \in [Unit -> ResetUnitType]
    BY ResetIdle DEF Resets!Init
  <2>2. /\ password \in 0..MaxPasswords /\ passwords \in 0..MaxPasswords
        /\ requests \in 0..MaxResets /\ resetNow \in 0..LastTick /\ resetFaults \in 0..MaxFaults
    BY DEF Resets!Init
  <2>3. uses \in [Resets!Token -> Nat] /\ stored = {} /\ resetMails = {}
    BY DEF Resets!Init
  <2>4. {blind, resetOverlapped, resetRaced} \subseteq BOOLEAN
    BY DEF Resets!Init
  <2>5. token = Resets!NoRow /\ latest = Resets!NoRow
    BY DEF Resets!Init
  <2> QED
    BY <2>1, <2>2, <2>3, <2>4, <2>5, ResetIdle DEF Resets!TypeOK, ResetUnitType, Resets!NoRow
<1>3. ResetTokensInv
  BY <1>1, ResetIdle DEF ResetTokensInv, ResetPath, ResetToken, Resets!Init
<1>4. ResetWritesInv /\ ResetMailInv
  BY <1>1, ResetIdle DEF ResetWritesInv, ResetWrites, ResetMailInv, Resets!Init
<1>5. ResetSerialInv /\ ResetLatestInv
  BY <1>1, ResetIdle
  DEF ResetSerialInv, ResetLatestInv, ResetAlone, ResetUnraced, ResetOpen, Resets!Init
<1> QED
  BY <1>2, <1>3, <1>4, <1>5 DEF ResetsInv

\* What a unit of work begins with.
LEMMA ResetStartInv ==
  ASSUME ResetsInv, NEW p \in Unit, NEW c \in ResetUnitType, resetUnit[p].pc = "idle",
         c.changed = {},
         \/ c.pc = "compareToken" /\ c.op = "request"
         \/ c.pc = "find" /\ c.op # "request",
         c.op \in {"request", "reset"} => c.entity.hash \in Resets!Token /\ c.entity.hash <= requests',
         c.op = "request" => ~c.entity.consumed /\ requests < c.entity.hash,
         resetUnit' = [resetUnit EXCEPT ![p] = c],
         requests' \in 0..MaxResets, requests <= requests', passwords' \in 0..MaxPasswords,
         resetOverlapped' = (resetOverlapped \/ Resets!Busy),
         UNCHANGED <<token, password, resetNow, resetFaults, resetMails, latest, uses, blind, stored, resetRaced>>
  PROVE  ResetsInv'
<1>a. resetUnit \in [Unit -> ResetUnitType] /\ requests \in Nat /\ requests' \in Nat
  BY ResetConstants DEF ResetsInv, Resets!TypeOK, ResetUnitType, Resets!NoRow
<1>b. resetUnit'[p] = c /\ \A q \in Unit \ {p} : resetUnit'[q] = resetUnit[q]
  BY <1>a
<1>c. \A t \in Resets!Token : t \in Nat
  BY ResetConstants DEF Resets!Token
<1>d. \A t \in resetMails \union stored : t \in Resets!Token /\ t <= requests
  BY DEF ResetsInv, ResetTokensInv, Resets!TypeOK
<1>1. ResetMoves(p)
  <2>1. resetUnit' \in [Unit -> ResetUnitType]
    BY <1>a
  <2>2. \A t \in resetMails' : t <= requests'
    BY <1>a, <1>c, <1>d
  <2> QED
    BY <1>b, <2>1, <2>2 DEF ResetMoves, ResetsInv, Resets!TypeOK
<1>2. ~HasFound(p)' /\ ~HasWritten(p)' /\ ~Resets!HasToken(p)' /\ (Requesting(p)' <=> c.op = "request")
  BY <1>b DEF HasFound, HasWritten, Resets!HasToken, Requesting, ResetOpen
<1>3. ResetPath(p)' /\ ResetWrites(p)'
  BY <1>b, <1>2 DEF ResetPath, ResetWrites
<1>4. ResetToken(p)'
  BY <1>a, <1>b, <1>c, <1>d, <1>2 DEF ResetToken
<1>5. Requesting(p)' => \A q \in Unit \ {p} :
            Requesting(q) => resetUnit'[p].entity.hash # resetUnit[q].entity.hash
  BY <1>a, <1>b, <1>c, <1>2 DEF ResetsInv, ResetTokensInv, ResetToken, Requesting
<1>6. ResetMailInv'
  <2>1. Resets!InFlight \subseteq Resets!InFlight'
    BY <1>b DEF Resets!InFlight
  <2> QED
    BY <2>1 DEF ResetsInv, ResetMailInv
<1>7. ResetAlone(p)' /\ ResetUnraced(p)'
  <2>1. c.op = "request" => uses[c.entity.hash] = 0
    BY <1>a, <1>c DEF ResetsInv, ResetTokensInv, Resets!TypeOK
  <2> QED
    BY <1>b, <1>2, <2>1 DEF ResetAlone, ResetUnraced
<1>8. ~resetOverlapped' => \A q \in Unit \ {p} : ~ResetOpen(q)
  BY DEF Resets!Busy, ResetOpen
<1> QED
  BY <1>1, <1>2, <1>3, <1>4, <1>5, <1>6, <1>7, <1>8, ResetMovesInv

\* A command arrives.
LEMMA ResetBeginsInv ==
  ASSUME ResetsInv, NEW p \in Unit, Resets!Request(p) \/ Resets!Reset(p) \/ Resets!SetOrChange(p)
  PROVE  ResetsInv'
<1> USE ResetConstants
<1>a. /\ requests \in 0..MaxResets /\ passwords \in 0..MaxPasswords
      /\ resetNow \in 0..LastTick
  BY DEF ResetsInv, Resets!TypeOK
<1>1. CASE Resets!Request(p)
  <2> DEFINE e == Resets!Fresh(requests + 1)
             b == [Resets!Idle EXCEPT !.pc = "compareToken", !.entity = e]
             c == [b EXCEPT !.at = resetNow]
  <2>1. /\ e.hash = requests + 1 /\ ~e.consumed
        /\ e \in Resets!Row /\ requests + 1 \in Resets!Token
    BY <1>a, <1>1 DEF Resets!Request, Resets!Fresh, Resets!Row, Resets!Token, Resets!Time
  <2>2. Resets!Start(p, b) /\ requests' = requests + 1 /\ UNCHANGED passwords /\ requests < MaxResets
    BY <1>1 DEF Resets!Request
  <2> HIDE DEF e
  <2>3. b \in ResetUnitType /\ b.pc = "compareToken" /\ b.op = "request" /\ b.changed = {} /\ b.entity = e
    BY <2>1, ResetIdle DEF ResetUnitType
  <2> HIDE DEF b
  <2>4. c \in ResetUnitType /\ c.pc = b.pc /\ c.op = b.op /\ c.changed = b.changed /\ c.entity = b.entity
    BY <1>a, <2>3 DEF ResetUnitType
  <2>5. resetUnit' = [resetUnit EXCEPT ![p] = c]
    BY <2>2 DEF Resets!Start
  <2> HIDE DEF c
  <2>6. /\ resetUnit[p].pc = "idle" /\ resetOverlapped' = (resetOverlapped \/ Resets!Busy)
        /\ UNCHANGED <<token, password, resetNow, resetFaults, resetMails, latest, uses, blind, stored, resetRaced>>
    BY <2>2 DEF Resets!Start
  <2>7. /\ requests' \in 0..MaxResets /\ requests <= requests' /\ requests < e.hash /\ e.hash <= requests'
        /\ passwords' \in 0..MaxPasswords
    BY <1>a, <2>1, <2>2
  <2> QED
    BY <2>1, <2>2, <2>3, <2>4, <2>5, <2>6, <2>7, ResetStartInv
<1>2. CASE Resets!Reset(p)
  <2>1. PICK t \in resetMails :
          Resets!Start(p, [Resets!Idle EXCEPT !.pc = "find", !.op = "reset", !.entity.hash = t,
                                              !.chosen = passwords + 1])
    BY <1>2 DEF Resets!Reset
  <2> DEFINE e == [Resets!NoRow EXCEPT !.hash = t]
             b == [Resets!Idle EXCEPT !.pc = "find", !.op = "reset", !.entity.hash = t,
                                      !.chosen = passwords + 1]
             c == [b EXCEPT !.at = resetNow]
  <2>2. t \in Resets!Token /\ t <= requests
    BY DEF ResetsInv, ResetTokensInv, Resets!TypeOK
  <2>3. e \in Resets!Row /\ e.hash = t
    BY <2>2, ResetIdle DEF Resets!Row
  <2>4. requests' = requests /\ passwords' = passwords + 1 /\ passwords < MaxPasswords
    BY <1>2, Zenon DEF Resets!Reset
  <2>5. passwords + 1 \in 0..MaxPasswords
    BY <1>a, <2>4
  <2>6. Resets!Idle.entity = Resets!NoRow
    BY DEF Resets!Idle
  <2>7. b \in ResetUnitType /\ b.pc = "find" /\ b.op = "reset" /\ b.changed = {} /\ b.entity = e
    <3>1. b = [Resets!Idle EXCEPT !.pc = "find", !.op = "reset", !.entity = e, !.chosen = passwords + 1]
      BY <2>6
    <3> HIDE DEF b, e
    <3> QED
      BY <2>3, <2>5, <3>1, ResetIdle DEF ResetUnitType
  <2> HIDE DEF b, e
  <2>8. c \in ResetUnitType /\ c.pc = b.pc /\ c.op = b.op /\ c.changed = b.changed /\ c.entity = b.entity
    BY <1>a, <2>7 DEF ResetUnitType
  <2>9. resetUnit' = [resetUnit EXCEPT ![p] = c]
    BY <2>1 DEF Resets!Start, b
  <2> HIDE DEF c
  <2>10. /\ resetUnit[p].pc = "idle" /\ resetOverlapped' = (resetOverlapped \/ Resets!Busy)
         /\ UNCHANGED <<token, password, resetNow, resetFaults, resetMails, latest, uses, blind, stored, resetRaced>>
         /\ requests <= requests'
    BY <1>a, <2>1, <2>4 DEF Resets!Start
  <2> QED
    BY <1>a, <2>2, <2>3, <2>4, <2>5, <2>7, <2>8, <2>9, <2>10, ResetStartInv
<1>3. CASE Resets!SetOrChange(p)
  <2>1. PICK current \in 0..passwords :
          Resets!Start(p, [Resets!Idle EXCEPT !.pc = "find", !.op = IF current = 0 THEN "set" ELSE "change",
                                              !.loaded = current, !.chosen = passwords + 1])
    BY <1>3 DEF Resets!SetOrChange
  <2> DEFINE op == IF current = 0 THEN "set" ELSE "change"
             b == [Resets!Idle EXCEPT !.pc = "find", !.op = op, !.loaded = current, !.chosen = passwords + 1]
             c == [b EXCEPT !.at = resetNow]
  <2>2. requests' = requests /\ passwords' = passwords + 1 /\ passwords < MaxPasswords
    BY <1>3, Zenon DEF Resets!SetOrChange
  <2>3. passwords + 1 \in 0..MaxPasswords /\ current \in 0..MaxPasswords /\ op \in {"set", "change"}
    BY <1>a, <2>2
  <2>4. Resets!Start(p, b)
    BY <2>1
  <2> HIDE DEF op
  <2>5. b \in ResetUnitType /\ b.pc = "find" /\ b.op = op /\ b.changed = {}
    BY <2>3, ResetIdle DEF ResetUnitType
  <2> HIDE DEF b
  <2>6. c \in ResetUnitType /\ c.pc = b.pc /\ c.op = b.op /\ c.changed = b.changed
    BY <1>a, <2>5 DEF ResetUnitType
  <2>7. resetUnit' = [resetUnit EXCEPT ![p] = c]
    BY <2>4 DEF Resets!Start
  <2> HIDE DEF c
  <2>8. /\ resetUnit[p].pc = "idle" /\ resetOverlapped' = (resetOverlapped \/ Resets!Busy)
        /\ UNCHANGED <<token, password, resetNow, resetFaults, resetMails, latest, uses, blind, stored, resetRaced>>
        /\ requests <= requests'
    BY <1>a, <2>2, <2>4 DEF Resets!Start
  <2> QED
    BY <1>a, <2>2, <2>3, <2>5, <2>6, <2>7, <2>8, ResetStartInv
<1> QED
  BY <1>1, <1>2, <1>3

\* A unit of work that takes a step of its own.
LEMMA ResetStepMoves ==
  ASSUME ResetsInv, NEW p \in Unit, NEW c \in ResetUnitType,
         resetUnit' = [resetUnit EXCEPT ![p] = c],
         UNCHANGED <<token, password, latest, uses, blind, stored, resetRaced, resetNow,
                     requests, passwords, resetFaults, resetOverlapped>>,
         resetMails' = resetMails \/ (resetMails' = resetMails \union {c.entity.hash} /\ ResetToken(p)'
                                      /\ Requesting(p)')
  PROVE  ResetMoves(p) /\ resetUnit'[p] = c
<1>1. resetUnit \in [Unit -> ResetUnitType] /\ requests \in 0..MaxResets
  BY DEF ResetsInv, Resets!TypeOK, ResetUnitType, Resets!NoRow
<1>2. /\ resetUnit' \in [Unit -> ResetUnitType] /\ resetUnit'[p] = c
      /\ \A q \in Unit \ {p} : resetUnit'[q] = resetUnit[q]
  BY <1>1
<1>3. resetMails' \subseteq Resets!Token /\ \A t \in resetMails' : t <= requests'
  BY <1>2 DEF ResetsInv, ResetTokensInv, Resets!TypeOK, ResetToken, Requesting
<1> QED
  BY <1>1, <1>2, <1>3 DEF ResetMoves, ResetsInv, Resets!TypeOK

\* A step neither adds mails nor takes one away from what is in flight.
LEMMA ResetMailKept ==
  ASSUME ResetsInv, NEW p \in Unit, ResetMoves(p), resetMails' = resetMails, resetFaults' = resetFaults,
         ~(resetUnit[p].op = "request" /\ resetUnit[p].pc = "commit")
  PROVE  ResetMailInv'
<1>1. Resets!InFlight \subseteq Resets!InFlight'
  BY DEF Resets!InFlight, ResetMoves
<1> QED
  BY <1>1 DEF ResetsInv, ResetMailInv, ResetMoves

\* A reset finds the row of its token, or is refused.
LEMMA ResetFindsInv ==
  ASSUME ResetsInv, NEW p \in Unit, Resets!FindReset(p)
  PROVE  ResetsInv'
<1> DEFINE row == Resets!Consumed(token)
           c == [resetUnit[p] EXCEPT !.pc = "compareToken", !.loaded = password, !.entity = row]
<1>a. /\ resetUnit \in [Unit -> ResetUnitType] /\ resetUnit[p] \in ResetUnitType
      /\ token \in Resets!Row /\ password \in 0..MaxPasswords
      /\ resetUnit[p].pc = "find" /\ resetUnit[p].op = "reset"
      /\ UNCHANGED <<token, password, latest, uses, blind, stored, resetRaced, resetNow,
                     requests, passwords, resetFaults, resetMails, resetOverlapped>>
  BY DEF Resets!FindReset, Resets!history, Resets!counters, ResetsInv, Resets!TypeOK, ResetUnitType, Resets!NoRow
<1>1. CASE Resets!IsActive(resetUnit[p].entity.hash, resetUnit[p].at) /\ password # 0
  <2>1. row \in Resets!Row /\ row.hash = token.hash /\ row.consumed
    BY <1>a DEF Resets!Row, Resets!Consumed
  <2> HIDE DEF row
  <2>2. /\ c \in ResetUnitType /\ c.pc = "compareToken" /\ c.op = "reset" /\ c.entity = row
        /\ c.changed = resetUnit[p].changed
    BY <1>a, <2>1 DEF ResetUnitType
  <2>3. resetUnit' = [resetUnit EXCEPT ![p] = c]
    BY <1>1 DEF Resets!FindReset, row
  <2> HIDE DEF c
  <2>4. ResetMoves(p) /\ resetUnit'[p] = c
    BY <1>a, <2>2, <2>3, ResetStepMoves
  <2>5. token.hash \in Resets!Token /\ token.hash \in stored /\ token.hash <= requests
    <3>1. token.hash \in Resets!Token /\ token.hash <= requests
      BY <1>1, <1>a DEF Resets!IsActive, ResetsInv, ResetTokensInv, ResetToken, ResetOpen
    <3> QED
      BY <3>1, ResetConstants DEF Resets!Token, ResetsInv, ResetTokensInv
  <2>6. /\ ~Requesting(p)' /\ ~HasWritten(p)' /\ ~Resets!HasToken(p)' /\ HasFound(p)'
        /\ ResetPath(p)' /\ ResetWrites(p)' /\ ResetToken(p)' /\ ResetUnraced(p)'
    BY <1>a, <2>1, <2>2, <2>4, <2>5
    DEF Requesting, HasWritten, Resets!HasToken, HasFound, ResetPath, ResetWrites, ResetToken, ResetUnraced
  <2>7. ~resetOverlapped' => ResetAlone(p)'
    <3>1. ~resetOverlapped => uses[token.hash] = 0
      BY <1>1, <2>5, ResetConstants DEF Resets!IsActive, ResetsInv, ResetSerialInv, Resets!TypeOK
    <3> QED
      BY <1>a, <2>1, <2>2, <2>4, <2>6, <3>1 DEF ResetAlone
  <2>8. ~resetOverlapped' => \A q \in Unit \ {p} : ~ResetOpen(q)
    BY <1>a DEF ResetsInv, ResetSerialInv, ResetOpen
  <2>9. ResetMailInv'
    BY <1>a, <2>4, ResetMailKept
  <2> QED
    BY <2>4, <2>6, <2>7, <2>8, <2>9, ResetMovesInv
<1>2. CASE ~(Resets!IsActive(resetUnit[p].entity.hash, resetUnit[p].at) /\ password # 0)
  <2>1. resetUnit' = [resetUnit EXCEPT ![p] = Resets!Idle]
    BY <1>2 DEF Resets!FindReset, Resets!Reject
  <2> QED
    BY <1>a, <2>1, ResetRejectInv
<1> QED
  BY <1>1, <1>2

\* save reads the row again and decides which columns differ.
LEMMA ResetComparesInv ==
  ASSUME ResetsInv, NEW p \in Unit, Resets!CompareToken(p)
  PROVE  ResetsInv'
<1> DEFINE changed == {f \in DOMAIN token : token[f] # resetUnit[p].entity[f]}
           c == [resetUnit[p] EXCEPT !.pc = "writeToken", !.insert = token = Resets!NoRow, !.changed = changed]
<1>a. /\ resetUnit \in [Unit -> ResetUnitType] /\ resetUnit[p] \in ResetUnitType
      /\ token \in Resets!Row
      /\ resetUnit[p].pc = "compareToken" /\ resetUnit[p].op \in {"request", "reset"}
      /\ UNCHANGED <<token, password, latest, uses, blind, stored, resetRaced, resetNow,
                     requests, passwords, resetFaults, resetMails, resetOverlapped>>
  BY DEF Resets!CompareToken, Resets!history, Resets!counters, ResetsInv, ResetTokensInv, ResetPath,
         Resets!TypeOK, ResetUnitType, Resets!NoRow
<1>b. DOMAIN token = {"hash", "expiresAt", "consumed"}
  BY <1>a DEF Resets!Row
<1>1. /\ changed \subseteq {"hash", "expiresAt", "consumed"}
      /\ \A f \in {"hash", "expiresAt", "consumed"} : f \notin changed <=> token[f] = resetUnit[p].entity[f]
  BY <1>b
<1> HIDE DEF changed
<1>2. /\ c \in ResetUnitType /\ c.pc = "writeToken" /\ c.op = resetUnit[p].op /\ c.entity = resetUnit[p].entity
      /\ c.changed = changed /\ (c.insert <=> token = Resets!NoRow)
  BY <1>a, <1>1 DEF ResetUnitType
<1>3. resetUnit' = [resetUnit EXCEPT ![p] = c]
  BY <1>a DEF Resets!CompareToken, changed
<1> HIDE DEF c
<1>4. ResetMoves(p) /\ resetUnit'[p] = c
  BY <1>a, <1>2, <1>3, ResetStepMoves
<1>5. /\ ~HasWritten(p)' /\ ~Resets!HasToken(p)'
      /\ HasFound(p)' <=> HasFound(p)
      /\ Requesting(p)' <=> Requesting(p)
  BY <1>a, <1>2, <1>4 DEF HasWritten, Resets!HasToken, HasFound, Requesting, ResetOpen
<1>6. /\ resetUnit[p].entity.hash \in Resets!Token
      /\ resetUnit[p].op = "request" => resetUnit[p].entity.hash \notin stored
      /\ token.hash \in {0} \union stored
      /\ ResetToken(p)
  BY <1>a DEF ResetsInv, ResetTokensInv, ResetToken, ResetOpen, Requesting
<1>7. ResetPath(p)' /\ ResetToken(p)'
  BY <1>a, <1>2, <1>4, <1>5, <1>6 DEF ResetPath, ResetToken, ResetOpen
<1>8. ResetWrites(p)'
  <2>1. resetUnit[p].entity.hash # 0
    BY <1>6, ResetConstants DEF Resets!Token
  <2>2. token = Resets!NoRow \/ resetUnit[p].op = "request" => "hash" \in changed
    BY <1>1, <1>6, <2>1, ResetIdle
  <2> QED
    BY <1>a, <1>2, <1>4, <1>5, <2>2 DEF ResetWrites
<1>9. Requesting(p)' => \A q \in Unit \ {p} :
            Requesting(q) => resetUnit'[p].entity.hash # resetUnit[q].entity.hash
  BY <1>2, <1>4, <1>5 DEF ResetsInv, ResetTokensInv
<1>10. ~resetOverlapped' => ResetAlone(p)'
  BY <1>a, <1>1, <1>2, <1>4, <1>5 DEF ResetsInv, ResetSerialInv, ResetAlone, Agrees
<1>11. ~resetOverlapped' /\ ~resetRaced => ResetUnraced(p)'
  BY <1>a, <1>1, <1>2, <1>4, <1>5 DEF ResetsInv, ResetLatestInv, ResetUnraced, Agrees
<1>12. ~resetOverlapped' => \A q \in Unit \ {p} : ~ResetOpen(q)
  BY <1>a DEF ResetsInv, ResetSerialInv, ResetOpen
<1>13. ResetMailInv'
  BY <1>a, <1>4, ResetMailKept
<1> QED
  BY <1>4, <1>5, <1>7, <1>8, <1>9, <1>10, <1>11, <1>12, <1>13, ResetMovesInv

\* The row is written, when no other unit of work has written it.
LEMMA ResetWriteTokenInv ==
  ASSUME ResetsInv, NEW p \in Unit, Resets!WriteToken(p)
  PROVE  ResetsInv'
<1> DEFINE u == resetUnit[p]
           purged == ~u.insert /\ token = Resets!NoRow
           c == [u EXCEPT !.pc = IF u.op = "request" THEN "mail" ELSE "comparePassword",
                          !.changed = IF purged THEN {} ELSE @]
<1>a. /\ resetUnit \in [Unit -> ResetUnitType] /\ u \in ResetUnitType /\ token \in Resets!Row
      /\ u.pc = "writeToken" /\ u.op \in {"request", "reset"}
      /\ \A q \in Unit \ {p} : ~Resets!HasToken(q)
      /\ UNCHANGED <<token, password, latest, uses, blind, stored, resetRaced, resetNow,
                     requests, passwords, resetFaults, resetMails, resetOverlapped>>
  BY DEF Resets!WriteToken, Resets!history, Resets!counters, ResetsInv, ResetTokensInv, ResetPath,
         Resets!TypeOK, ResetUnitType, Resets!NoRow
<1>1. CASE u.insert /\ token # Resets!NoRow
  <2>1. resetUnit' = [resetUnit EXCEPT ![p] = Resets!Idle]
    BY <1>1 DEF Resets!WriteToken, Resets!Reject
  <2> QED
    BY <1>a, <2>1, ResetRejectInv
<1>2. CASE ~(u.insert /\ token # Resets!NoRow)
  <2>1. /\ c \in ResetUnitType /\ c.op = u.op /\ c.entity = u.entity
        /\ c.pc = (IF u.op = "request" THEN "mail" ELSE "comparePassword")
        /\ c.changed = IF purged THEN {} ELSE u.changed
    BY <1>a DEF ResetUnitType
  <2>2. resetUnit' = [resetUnit EXCEPT ![p] = c]
    BY <1>a, <1>2 DEF Resets!WriteToken, ResetUnitType
  <2> HIDE DEF c
  <2>3. ResetMoves(p) /\ resetUnit'[p] = c
    BY <1>a, <2>1, <2>2, ResetStepMoves
  <2>4. /\ HasWritten(p)'
        /\ HasFound(p)' <=> HasFound(p)
        /\ Requesting(p)' <=> Requesting(p)
    BY <1>a, <2>1, <2>3 DEF HasWritten, HasFound, Requesting, ResetOpen
  <2>5. /\ ResetToken(p)
        /\ u.insert => "hash" \in u.changed
        /\ u.op = "request" => "hash" \in u.changed
        /\ purged => resetRaced
    BY <1>a DEF ResetsInv, ResetTokensInv, ResetWritesInv, ResetWrites
  <2>6. ResetPath(p)' /\ ResetToken(p)'
    BY <1>a, <2>1, <2>3, <2>4, <2>5 DEF ResetPath, ResetToken, ResetOpen
  <2>7. ResetWrites(p)'
    BY <1>a, <2>1, <2>3, <2>5 DEF ResetWrites, Resets!HasToken
  <2>8. Requesting(p)' => \A q \in Unit \ {p} :
            Requesting(q) => resetUnit'[p].entity.hash # resetUnit[q].entity.hash
    BY <2>1, <2>3, <2>4 DEF ResetsInv, ResetTokensInv
  <2>9. ~resetOverlapped' => ResetAlone(p)'
    <3> SUFFICES ASSUME ~resetOverlapped PROVE ResetAlone(p)'
      BY <1>a
    <3>1. /\ Requesting(p) \/ HasFound(p) => uses[u.entity.hash] = 0
          /\ Agrees(p) \/ purged
      BY <1>a DEF ResetsInv, ResetSerialInv, ResetAlone
    <3>2. Agrees(p)' \/ (c.changed = {} /\ token = Resets!NoRow)
      BY <1>a, <2>1, <2>3, <3>1 DEF Agrees
    <3> QED
      BY <1>a, <2>1, <2>3, <2>4, <3>1, <3>2 DEF ResetAlone, Resets!NoRow
  <2>10. ~resetOverlapped' /\ ~resetRaced => ResetUnraced(p)'
    BY <1>a, <2>1, <2>3, <2>4, <2>5 DEF ResetsInv, ResetLatestInv, ResetUnraced, Agrees
  <2>11. ~resetOverlapped' => \A q \in Unit \ {p} : ~ResetOpen(q)
    BY <1>a DEF ResetsInv, ResetSerialInv, ResetOpen
  <2>12. ResetMailInv'
    BY <1>a, <2>3, ResetMailKept
  <2> QED
    BY <1>a, <2>3, <2>6, <2>7, <2>8, <2>9, <2>10, <2>11, <2>12, ResetMovesInv
<1> QED
  BY <1>1, <1>2

\* Having written its token a unit of work goes on with what it has written.
LEMMA ResetGoesOnInv ==
  ASSUME ResetsInv, NEW p \in Unit, ResetMoves(p), ResetMailInv',
         UNCHANGED <<requests, passwords, resetOverlapped>>,
         resetUnit'[p].op = resetUnit[p].op, resetUnit'[p].entity = resetUnit[p].entity,
         resetUnit'[p].changed = resetUnit[p].changed,
         resetUnit[p].pc \in {"find", "mail", "comparePassword", "writePassword"},
         resetUnit[p].pc = "find" => resetUnit[p].op \in {"set", "change"},
         IF resetUnit[p].op = "request"
           THEN resetUnit'[p].pc = "commit"
           ELSE resetUnit'[p].pc \in {"comparePassword", "writePassword", "commit"},
         resetUnit[p].op \in {"set", "change"} /\ ~resetOverlapped => resetUnit'[p].loaded = password
  PROVE  ResetsInv'
<1>a. resetUnit \in [Unit -> ResetUnitType] /\ resetUnit[p] \in ResetUnitType
  BY DEF ResetsInv, Resets!TypeOK, ResetUnitType, Resets!NoRow
<1>b. resetUnit[p].op = "reset" => resetUnit[p].pc \in {"comparePassword", "writePassword"}
  BY DEF ResetsInv, ResetTokensInv, ResetPath
<1>c. resetUnit[p].op = "request" => resetUnit[p].pc = "mail"
  BY DEF ResetsInv, ResetTokensInv, ResetPath
<1>1. /\ HasWritten(p)' <=> HasWritten(p)
      /\ HasFound(p)' <=> HasFound(p)
      /\ Requesting(p)' <=> Requesting(p)
      /\ Resets!HasToken(p)' <=> Resets!HasToken(p)
      /\ ResetOpen(p) /\ ResetOpen(p)'
  BY <1>a, <1>b, <1>c DEF HasWritten, HasFound, Requesting, ResetOpen, Resets!HasToken, ResetUnitType
<1>2. ResetPath(p)' /\ ResetToken(p)' /\ ResetWrites(p)'
  <2>1. ResetPath(p) /\ ResetToken(p) /\ ResetWrites(p)
    BY DEF ResetsInv, ResetTokensInv, ResetWritesInv
  <2> QED
    BY <1>a, <1>b, <1>c, <1>1, <2>1 DEF ResetPath, ResetToken, ResetWrites, ResetMoves, Resets!NoRow
<1>3. Requesting(p)' => \A q \in Unit \ {p} :
            Requesting(q) => resetUnit'[p].entity.hash # resetUnit[q].entity.hash
  BY <1>1 DEF ResetsInv, ResetTokensInv
<1>4. Resets!HasToken(p)' => \A q \in Unit \ {p} : ~Resets!HasToken(q)
  BY <1>1 DEF ResetsInv, ResetWritesInv
<1>5. ~resetOverlapped' => ResetAlone(p)'
  <2> SUFFICES ASSUME ~resetOverlapped PROVE ResetAlone(p)'
    OBVIOUS
  <2>1. ResetAlone(p)
    BY DEF ResetsInv, ResetSerialInv
  <2>2. Agrees(p)' <=> Agrees(p)
    BY DEF Agrees, ResetMoves
  <2> QED
    BY <1>1, <2>1, <2>2 DEF ResetAlone, ResetMoves, Resets!NoRow
<1>6. ~resetOverlapped' /\ ~resetRaced => ResetUnraced(p)'
  <2>1. Agrees(p)' <=> Agrees(p)
    BY DEF Agrees, ResetMoves
  <2> QED
    BY <1>1, <2>1 DEF ResetsInv, ResetLatestInv, ResetUnraced, ResetMoves
<1>7. ~resetOverlapped' => \A q \in Unit \ {p} : ~ResetOpen(q)
  BY <1>1 DEF ResetsInv, ResetSerialInv
<1> QED
  BY <1>2, <1>3, <1>4, <1>5, <1>6, <1>7, ResetMovesInv

\* The mail leaves before COMMIT.
LEMMA ResetMailsInv ==
  ASSUME ResetsInv, NEW p \in Unit, Resets!Mail(p)
  PROVE  ResetsInv'
<1> DEFINE u == resetUnit[p]
           c == [u EXCEPT !.pc = "commit"]
<1>a. /\ resetUnit \in [Unit -> ResetUnitType] /\ u \in ResetUnitType
      /\ u.pc = "mail" /\ u.op = "request" /\ ResetToken(p)
      /\ resetMails' = resetMails \union {u.entity.hash}
      /\ UNCHANGED <<token, password, latest, uses, blind, stored, resetRaced, resetNow,
                     requests, passwords, resetFaults, resetOverlapped>>
  BY DEF Resets!Mail, Resets!history, Resets!counters, ResetsInv, ResetTokensInv, ResetPath,
         Resets!TypeOK, ResetUnitType, Resets!NoRow
<1>1. /\ c \in ResetUnitType /\ c.op = u.op /\ c.entity = u.entity /\ c.pc = "commit" /\ c.changed = u.changed
      /\ resetUnit' = [resetUnit EXCEPT ![p] = c]
  BY <1>a DEF Resets!Mail, Resets!Goto, ResetUnitType
<1> HIDE DEF c
<1>2. resetUnit'[p] = c /\ \A q \in Unit \ {p} : resetUnit'[q] = resetUnit[q]
  BY <1>a, <1>1
<1>3. ResetToken(p)' /\ Requesting(p)'
  BY <1>a, <1>1, <1>2 DEF ResetToken, Requesting, ResetOpen, HasFound
<1>4. ResetMoves(p)
  BY <1>a, <1>1, <1>3, ResetStepMoves
<1>5. ResetMailInv'
  <2>1. Resets!InFlight' = Resets!InFlight \union {u.entity.hash}
    BY <1>a, <1>1, <1>2 DEF Resets!InFlight
  <2> QED
    BY <1>a, <2>1 DEF ResetsInv, ResetMailInv
<1> QED
  BY <1>a, <1>1, <1>2, <1>4, <1>5, ResetGoesOnInv

\* The password is checked, compared and written.
LEMMA ResetPasswordInv ==
  ASSUME ResetsInv, NEW p \in Unit,
         Resets!FindPassword(p) \/ Resets!ComparePassword(p) \/ Resets!WritePassword(p)
  PROVE  ResetsInv'
<1> DEFINE u == resetUnit[p]
<1>a. /\ resetUnit \in [Unit -> ResetUnitType] /\ u \in ResetUnitType
      /\ u.pc \in {"find", "comparePassword", "writePassword"} /\ u.op # "request"
      /\ u.pc = "find" => u.op \in {"set", "change"}
      /\ UNCHANGED <<token, password, latest, uses, blind, stored, resetRaced, resetNow,
                     requests, passwords, resetFaults, resetMails, resetOverlapped>>
  BY DEF Resets!FindPassword, Resets!ComparePassword, Resets!WritePassword, Resets!history, Resets!counters,
         ResetsInv, ResetTokensInv, ResetPath, Resets!TypeOK, ResetUnitType, Resets!NoRow
<1>1. CASE resetUnit' = [resetUnit EXCEPT ![p] = Resets!Idle]
  BY <1>a, <1>1, ResetRejectInv
<1>2. ASSUME NEW c \in ResetUnitType, resetUnit' = [resetUnit EXCEPT ![p] = c],
             c.op = u.op, c.entity = u.entity, c.changed = u.changed, c.loaded = u.loaded,
             c.pc \in {"comparePassword", "writePassword", "commit"},
             u.op \in {"set", "change"} /\ u.pc = "find" => u.loaded = password
      PROVE  ResetsInv'
  <2>1. ResetMoves(p) /\ resetUnit'[p] = c
    BY <1>a, <1>2, ResetStepMoves
  <2>2. ResetMailInv'
    BY <1>a, <2>1, ResetMailKept
  <2>3. u.op \in {"set", "change"} /\ ~resetOverlapped => u.loaded = password
    BY <1>a, <1>2 DEF ResetsInv, ResetSerialInv, ResetAlone
  <2> QED
    BY <1>a, <1>2, <2>1, <2>2, <2>3, ResetGoesOnInv
<1>3. CASE Resets!FindPassword(p)
  <2> DEFINE c == [u EXCEPT !.pc = "comparePassword"]
  <2>1. CASE Resets!Matches(u.loaded)
    <3>1. resetUnit' = [resetUnit EXCEPT ![p] = c] /\ u.loaded = password
      BY <1>3, <2>1 DEF Resets!FindPassword, Resets!Goto, Resets!Matches
    <3>2. /\ c \in ResetUnitType /\ c.op = u.op /\ c.entity = u.entity /\ c.changed = u.changed
          /\ c.loaded = u.loaded /\ c.pc = "comparePassword"
      BY <1>a DEF ResetUnitType
    <3> HIDE DEF c
    <3> QED
      BY <1>2, <3>1, <3>2
  <2>2. CASE ~Resets!Matches(u.loaded)
    BY <1>1, <1>3, <2>2 DEF Resets!FindPassword, Resets!Reject
  <2> QED
    BY <2>1, <2>2
<1>4. CASE Resets!ComparePassword(p)
  <2> DEFINE c == [u EXCEPT !.pc = "writePassword", !.insert = password = 0]
  <2>1. resetUnit' = [resetUnit EXCEPT ![p] = c] /\ u.pc = "comparePassword"
    BY <1>4 DEF Resets!ComparePassword
  <2>2. /\ c \in ResetUnitType /\ c.op = u.op /\ c.entity = u.entity /\ c.changed = u.changed
        /\ c.loaded = u.loaded /\ c.pc = "writePassword"
    BY <1>a DEF ResetUnitType
  <2> HIDE DEF c
  <2> QED
    BY <1>2, <2>1, <2>2
<1>5. CASE Resets!WritePassword(p)
  <2> DEFINE c == [u EXCEPT !.pc = "commit"]
  <2>1. CASE u.insert /\ password # 0
    BY <1>1, <1>5, <2>1 DEF Resets!WritePassword, Resets!Reject
  <2>2. CASE ~(u.insert /\ password # 0)
    <3>1. resetUnit' = [resetUnit EXCEPT ![p] = c] /\ u.pc = "writePassword"
      BY <1>5, <2>2 DEF Resets!WritePassword, Resets!Goto
    <3>2. /\ c \in ResetUnitType /\ c.op = u.op /\ c.entity = u.entity /\ c.changed = u.changed
          /\ c.loaded = u.loaded /\ c.pc = "commit"
      BY <1>a DEF ResetUnitType
    <3> HIDE DEF c
    <3> QED
      BY <1>2, <3>1, <3>2
  <2> QED
    BY <2>1, <2>2
<1> QED
  BY <1>3, <1>4, <1>5

\* The row as a unit of work leaves it: the columns that changed are its own.
LEMMA ResetCommitRow ==
  ASSUME ResetsInv, NEW p \in Unit, Resets!Commit(p)
  PROVE  /\ token' \in Resets!Row
         /\ \A f \in {"hash", "expiresAt", "consumed"} :
              token'[f] = IF f \in resetUnit[p].changed THEN resetUnit[p].entity[f] ELSE token[f]
         /\ resetUnit[p].changed = {} => token' = token
         /\ Agrees(p) => token' = resetUnit[p].entity
         /\ token # Resets!NoRow => token'.hash # 0
         /\ token'.hash = 0 => token' = Resets!NoRow
<1> DEFINE u == resetUnit[p]
<1>1. /\ token \in Resets!Row /\ u \in ResetUnitType /\ u.entity \in Resets!Row
      /\ token.hash = 0 => token = Resets!NoRow
  BY DEF ResetsInv, Resets!TypeOK, ResetUnitType, Resets!NoRow
<1>2. DOMAIN token = {"hash", "expiresAt", "consumed"}
  BY <1>1 DEF Resets!Row
<1>3. token' = [f \in {"hash", "expiresAt", "consumed"} |-> IF f \in u.changed THEN u.entity[f] ELSE token[f]]
  BY <1>2 DEF Resets!Commit
<1>4. /\ token = [hash |-> token.hash, expiresAt |-> token.expiresAt, consumed |-> token.consumed]
      /\ u.entity = [hash |-> u.entity.hash, expiresAt |-> u.entity.expiresAt, consumed |-> u.entity.consumed]
  BY <1>1 DEF Resets!Row
<1>5. token' = [hash |-> IF "hash" \in u.changed THEN u.entity.hash ELSE token.hash,
                expiresAt |-> IF "expiresAt" \in u.changed THEN u.entity.expiresAt ELSE token.expiresAt,
                consumed |-> IF "consumed" \in u.changed THEN u.entity.consumed ELSE token.consumed]
  BY <1>3
<1>6. token' \in Resets!Row
  BY <1>1, <1>5 DEF Resets!Row
<1>7. \A f \in {"hash", "expiresAt", "consumed"} :
        token'[f] = IF f \in u.changed THEN u.entity[f] ELSE token[f]
  BY <1>3
<1>8. u.changed = {} => token' = token
  BY <1>4, <1>5
<1>9. Agrees(p) => token' = u.entity
  BY <1>4, <1>5 DEF Agrees
<1>10. "hash" \in u.changed => u.entity.hash # 0
  <2>1. u.op \in {"request", "reset"} /\ ResetOpen(p) => u.entity.hash \in Resets!Token
    BY DEF ResetsInv, ResetTokensInv, ResetToken
  <2>2. u.op \in {"set", "change"} => u.changed = {}
    BY DEF ResetsInv, ResetTokensInv, ResetPath
  <2>3. ResetOpen(p)
    BY DEF Resets!Commit, ResetOpen
  <2> QED
    BY <1>1, <2>1, <2>2, <2>3, ResetConstants DEF Resets!Token, ResetUnitType
<1>11. token # Resets!NoRow => token'.hash # 0
  BY <1>1, <1>5, <1>10
<1>12. token'.hash = 0 => token' = Resets!NoRow
  <2> SUFFICES ASSUME token'.hash = 0 PROVE u.changed = {}
    BY <1>8, <1>11
  <2>1. token = Resets!NoRow /\ "hash" \notin u.changed
    BY <1>7, <1>10, <1>11
  <2>2. ~Resets!HasToken(p)
    BY <2>1 DEF ResetsInv, ResetWritesInv, ResetWrites
  <2> QED
    BY <1>1, <2>2 DEF Resets!HasToken, Resets!Commit, ResetsInv, ResetTokensInv, ResetPath, ResetUnitType
<1> QED
  BY <1>6, <1>7, <1>8, <1>9, <1>11, <1>12

\* COMMIT of the row, the password and what they leave behind.
LEMMA ResetCommitInv ==
  ASSUME ResetsInv, NEW p \in Unit, Resets!Commit(p)
  PROVE  ResetsInv'
<1> DEFINE u == resetUnit[p]
<1>a. /\ resetUnit \in [Unit -> ResetUnitType] /\ u \in ResetUnitType
      /\ u.entity \in Resets!Row /\ requests \in 0..MaxResets /\ u.pc = "commit" /\ ResetOpen(p)
  BY DEF Resets!Commit, ResetOpen, ResetsInv, Resets!TypeOK, ResetUnitType, Resets!NoRow
<1>b. /\ resetUnit'[p] = Resets!Idle
      /\ \A q \in Unit \ {p} : resetUnit'[q] = resetUnit[q]
      /\ resetUnit' \in [Unit -> ResetUnitType]
  BY <1>a, ResetIdle DEF Resets!Commit, Resets!Reject
<1>c. /\ password' = (IF u.op = "request" THEN password ELSE u.chosen)
      /\ latest' = (IF u.op = "request" THEN [u.entity EXCEPT !.consumed = FALSE] ELSE latest)
      /\ stored' = (IF u.op = "request" /\ u.changed # {} THEN stored \union {u.entity.hash} ELSE stored)
      /\ uses' = (IF u.op = "reset" THEN [uses EXCEPT ![u.entity.hash] = @ + 1] ELSE uses)
      /\ blind' = (blind \/ (u.op \in {"set", "change"} /\ u.loaded # password))
      /\ UNCHANGED <<requests, passwords, resetNow, resetFaults, resetMails, resetOverlapped, resetRaced>>
  BY DEF Resets!Commit, Resets!counters
<1>d. /\ token' \in Resets!Row
      /\ \A f \in {"hash", "expiresAt", "consumed"} :
              token'[f] = IF f \in u.changed THEN u.entity[f] ELSE token[f]
      /\ u.changed = {} => token' = token
      /\ Agrees(p) => token' = u.entity
      /\ token # Resets!NoRow => token'.hash # 0
      /\ token'.hash = 0 => token' = Resets!NoRow
  BY ResetCommitRow
<1>e. /\ u.op \in {"request", "reset"} => u.entity.hash \in Resets!Token /\ u.entity.hash <= requests
      /\ u.op = "request" => u.entity.hash \notin stored /\ ~u.entity.consumed
      /\ u.op = "reset" => u.entity.hash \in stored /\ u.entity.consumed
      /\ u.op \in {"set", "change"} => u.changed = {}
      /\ u.op \in {"request", "reset"} => HasWritten(p)
      /\ u.op = "request" => Requesting(p) /\ ("hash" \in u.changed \/ resetRaced)
      /\ u.op = "reset" => HasFound(p)
  BY <1>a DEF ResetsInv, ResetTokensInv, ResetPath, ResetToken, ResetWritesInv, ResetWrites,
              HasWritten, HasFound, Requesting, ResetOpen
<1>f. /\ \A q \in Unit \ {p} : /\ ResetOpen(q)' <=> ResetOpen(q)
                               /\ Requesting(q)' <=> Requesting(q)
                               /\ HasFound(q)' <=> HasFound(q)
                               /\ HasWritten(q)' <=> HasWritten(q)
                               /\ Resets!HasToken(q)' <=> Resets!HasToken(q)
                               /\ ResetPath(q)' <=> ResetPath(q)
      /\ ~ResetOpen(p)' /\ ~Requesting(p)' /\ ~HasFound(p)' /\ ~HasWritten(p)' /\ ~Resets!HasToken(p)'
      /\ ResetPath(p)'
  BY <1>b, ResetIdle DEF ResetOpen, Requesting, HasFound, HasWritten, Resets!HasToken, ResetPath
<1>g. \A t \in Resets!Token : t \in Nat /\ t # 0 /\ uses[t] \in Nat
  BY ResetConstants DEF Resets!Token, ResetsInv, Resets!TypeOK
<1> HIDE DEF u
<1>1. Resets!TypeOK'
  <2>1. password' \in 0..MaxPasswords
    BY <1>a, <1>c DEF ResetsInv, Resets!TypeOK, ResetUnitType
  <2>2. latest' \in Resets!Row
    BY <1>a, <1>c DEF ResetsInv, Resets!TypeOK, Resets!Row
  <2>3. uses' \in [Resets!Token -> Nat]
    BY <1>c, <1>e, <1>g DEF ResetsInv, Resets!TypeOK
  <2>4. stored' \subseteq Resets!Token
    BY <1>c, <1>e DEF ResetsInv, Resets!TypeOK
  <2>5. {blind', resetOverlapped', resetRaced'} \subseteq BOOLEAN
    BY <1>c DEF ResetsInv, Resets!TypeOK
  <2> QED
    BY <1>b, <1>c, <1>d, <2>1, <2>2, <2>3, <2>4, <2>5 DEF ResetsInv, Resets!TypeOK, ResetUnitType, Resets!NoRow
<1>2. ResetTokensInv'
  <2>1. \A t \in resetMails' \union stored' : t <= requests'
    BY <1>c, <1>e DEF ResetsInv, ResetTokensInv
  <2>2. \A t \in Resets!Token : uses'[t] > 0 => t <= requests'
    BY <1>c, <1>e, <1>g DEF ResetsInv, ResetTokensInv, Resets!TypeOK
  <2>3. token'.hash \in {0} \union stored'
    <3>1. CASE "hash" \in u.changed
      <4>1. token'.hash = u.entity.hash
        BY <1>d, <3>1
      <4> QED
        BY <1>a, <1>c, <1>e, <3>1, <4>1 DEF ResetUnitType
    <3>2. CASE "hash" \notin u.changed
      <4>1. token'.hash = token.hash
        BY <1>d, <3>2
      <4> QED
        BY <1>c, <4>1 DEF ResetsInv, ResetTokensInv
    <3> QED
      BY <3>1, <3>2
  <2>4. latest' = Resets!NoRow \/ (latest'.hash \in Resets!Token /\ ~latest'.consumed)
    <3>1. u.op = "request" => latest'.hash = u.entity.hash /\ ~latest'.consumed
      BY <1>a, <1>c DEF Resets!Row
    <3> QED
      BY <1>c, <1>e, <3>1 DEF ResetsInv, ResetTokensInv
  <2>5. \A q \in Unit : ResetPath(q)'
    BY <1>f DEF ResetsInv, ResetTokensInv
  <2>6. \A q \in Unit : ResetToken(q)'
    <3>1. \A q \in Unit \ {p} : ResetToken(q)'
      BY <1>b, <1>c, <1>e, <1>f DEF ResetsInv, ResetTokensInv, ResetToken, u
    <3> QED
      BY <1>f, <3>1 DEF ResetToken
  <2>7. \A q, r \in Unit : Requesting(q)' /\ Requesting(r)' /\ q # r =>
            resetUnit'[q].entity.hash # resetUnit'[r].entity.hash
    BY <1>b, <1>f DEF ResetsInv, ResetTokensInv
  <2> QED
    BY <2>1, <2>2, <2>3, <2>4, <2>5, <2>6, <2>7 DEF ResetTokensInv, Resets!NoRow
<1>3. ResetWritesInv'
  <2>1. token # Resets!NoRow => token' # Resets!NoRow
    BY <1>d, ResetIdle
  <2>2. \A q \in Unit : ResetWrites(q)'
    BY <1>b, <1>c, <1>f, <2>1, ResetIdle DEF ResetsInv, ResetWritesInv, ResetWrites, Resets!NoRow
  <2>3. \A q, r \in Unit : Resets!HasToken(q)' /\ Resets!HasToken(r)' => q = r
    BY <1>f DEF ResetsInv, ResetWritesInv
  <2> QED
    BY <2>2, <2>3 DEF ResetWritesInv
<1>4. ResetMailInv'
  <2> SUFFICES ASSUME resetFaults' = MaxFaults, ~resetRaced' PROVE ResetMailInv'
    BY DEF ResetMailInv
  <2>1. resetMails \subseteq stored \union Resets!InFlight
    BY <1>c DEF ResetsInv, ResetMailInv
  <2>2. Resets!InFlight \subseteq Resets!InFlight' \union (IF u.op = "request" THEN {u.entity.hash} ELSE {})
    BY <1>b DEF Resets!InFlight, u
  <2>3. u.op = "request" => stored' = stored \union {u.entity.hash}
    BY <1>c, <1>e
  <2> QED
    BY <1>c, <2>1, <2>2, <2>3 DEF ResetMailInv
<1>5. ASSUME ~resetOverlapped PROVE \A q \in Unit : ~ResetOpen(q)'
  BY <1>a, <1>5, <1>f DEF ResetsInv, ResetSerialInv
<1>6. ResetSerialInv'
  <2> SUFFICES ASSUME ~resetOverlapped PROVE ResetSerialInv'
    BY <1>c DEF ResetSerialInv
  <2>1. /\ u.op \in {"set", "change"} => u.loaded = password
        /\ u.op \in {"request", "reset"} => uses[u.entity.hash] = 0
        /\ u.op \in {"request", "reset"} => Agrees(p) \/ (u.changed = {} /\ token = Resets!NoRow)
        /\ ~blind
        /\ \A t \in Resets!Token : uses[t] <= 1 /\ (uses[t] = 1 => token.hash # t \/ token.consumed)
    BY <1>a, <1>e DEF ResetsInv, ResetSerialInv, ResetAlone, u
  <2>2. \A q \in Unit : ResetAlone(q)'
    BY <1>5 DEF ResetAlone, ResetOpen, Requesting, HasFound, HasWritten
  <2>3. ~blind'
    BY <1>c, <2>1
  <2>4. ASSUME NEW t \in Resets!Token
        PROVE  uses'[t] <= 1 /\ (uses'[t] = 1 => token'.hash # t \/ token'.consumed)
    <3>1. CASE u.op \in {"request", "reset"} /\ Agrees(p)
      <4>1. token' = u.entity
        BY <1>d, <3>1
      <4>2. CASE u.op = "request"
        BY <1>c, <1>e, <2>1, <4>1, <4>2
      <4>3. CASE u.op = "reset"
        <5>1. uses' = [uses EXCEPT ![u.entity.hash] = @ + 1] /\ uses \in [Resets!Token -> Nat]
          BY <1>c, <4>3 DEF ResetsInv, Resets!TypeOK
        <5> QED
          BY <1>e, <1>g, <2>1, <4>1, <4>3, <5>1
      <4> QED
        BY <3>1, <4>2, <4>3
    <3>2. CASE u.op \in {"request", "reset"} /\ ~Agrees(p)
      <4>1. token' = token /\ token.hash = 0
        BY <1>d, <2>1, <3>2, ResetIdle
      <4>2. uses'[t] <= 1
        <5>1. uses \in [Resets!Token -> Nat]
          BY DEF ResetsInv, Resets!TypeOK
        <5> QED
          BY <1>c, <1>e, <1>g, <2>1, <3>2, <5>1
      <4> QED
        BY <1>g, <4>1, <4>2
    <3>3. CASE u.op \notin {"request", "reset"}
      <4>1. u.op \in {"set", "change"}
        BY <1>a, <3>3 DEF ResetUnitType
      <4> QED
        BY <1>c, <1>d, <1>e, <2>1, <4>1
    <3> QED
      BY <3>1, <3>2, <3>3
  <2> QED
    BY <1>5, <2>2, <2>3, <2>4 DEF ResetSerialInv
<1>7. ResetLatestInv'
  <2> SUFFICES ASSUME ~resetOverlapped, ~resetRaced PROVE ResetLatestInv'
    BY <1>c DEF ResetLatestInv
  <2>1. \A q \in Unit : ResetUnraced(q)'
    BY <1>5 DEF ResetUnraced, ResetOpen, HasFound, HasWritten
  <2>2. /\ latest # Resets!NoRow /\ uses[latest.hash] = 0 /\ latest.expiresAt > resetNow => token = latest
        /\ u.op \in {"request", "reset"} => Agrees(p)
        /\ u.op = "reset" => token.hash = u.entity.hash
    BY <1>e DEF ResetsInv, ResetLatestInv, ResetUnraced, u
  <2>3. ASSUME latest' # Resets!NoRow, uses'[latest'.hash] = 0, latest'.expiresAt > resetNow'
        PROVE  token' = latest'
    <3>1. CASE u.op = "request"
      <4>1. u.entity \in [hash : {0} \union Resets!Token, expiresAt : Resets!Time, consumed : BOOLEAN]
        BY <1>a DEF Resets!Row
      <4>a. u.entity.consumed = FALSE
        BY <1>e, <3>1, <4>1
      <4>2. [u.entity EXCEPT !.consumed = FALSE] = u.entity
        BY <4>1, <4>a, Zenon
      <4> QED
        BY <1>c, <1>d, <2>2, <3>1, <4>2
    <3>2. CASE u.op = "reset"
      <4>1. latest' = latest /\ latest.hash \in Resets!Token
        BY <1>c, <2>3, <3>2 DEF ResetsInv, ResetTokensInv
      <4>2. uses' = [uses EXCEPT ![u.entity.hash] = @ + 1] /\ uses \in [Resets!Token -> Nat]
        BY <1>c, <3>2 DEF ResetsInv, Resets!TypeOK
      <4>3. latest.hash # u.entity.hash /\ uses[latest.hash] = 0
        BY <1>e, <1>g, <2>3, <3>2, <4>1, <4>2
      <4> QED
        BY <1>c, <2>2, <2>3, <3>2, <4>1, <4>3
    <3>3. CASE u.op \in {"set", "change"}
      BY <1>c, <1>d, <1>e, <2>2, <2>3, <3>3
    <3> QED
      BY <1>a, <3>1, <3>2, <3>3 DEF ResetUnitType
  <2> QED
    BY <2>1, <2>3 DEF ResetLatestInv, Resets!NoRow
<1> QED
  BY <1>1, <1>2, <1>3, <1>4, <1>6, <1>7 DEF ResetsInv

\* The purge takes a row no unit of work has written; one that has read it is raced.
LEMMA ResetPurgeInv == ResetsInv /\ Resets!Purge => ResetsInv'
<1> SUFFICES ASSUME ResetsInv, Resets!Purge PROVE ResetsInv'
  OBVIOUS
<1>a. /\ token # Resets!NoRow /\ (token.consumed \/ token.expiresAt < resetNow)
      /\ \A q \in Unit : ~Resets!HasToken(q)
      /\ token' = Resets!NoRow /\ resetRaced' = (resetRaced \/ Resets!Busy)
      /\ UNCHANGED <<password, resetUnit, requests, passwords, resetNow, resetFaults,
                     resetMails, latest, uses, blind, stored, resetOverlapped>>
  BY DEF Resets!Purge, Resets!counters
<1>b. \A q \in Unit : /\ ResetOpen(q)' <=> ResetOpen(q)
                      /\ Requesting(q)' <=> Requesting(q)
                      /\ HasFound(q)' <=> HasFound(q)
                      /\ HasWritten(q)' <=> HasWritten(q)
                      /\ ~Resets!HasToken(q)'
                      /\ ResetPath(q)' <=> ResetPath(q)
                      /\ ResetToken(q)' <=> ResetToken(q)
  BY <1>a DEF ResetOpen, Requesting, HasFound, HasWritten, Resets!HasToken, ResetPath, ResetToken
<1>c. resetUnit \in [Unit -> ResetUnitType]
  BY DEF ResetsInv, Resets!TypeOK, ResetUnitType, Resets!NoRow
<1>d. \A q \in Unit : HasWritten(q) => resetUnit[q].changed = {}
  BY <1>a DEF HasWritten, Resets!HasToken
<1>e. \A q \in Unit : ResetOpen(q) => resetRaced'
  BY <1>a DEF Resets!Busy, ResetOpen
<1>1. Resets!TypeOK'
  BY <1>a, ResetIdle DEF ResetsInv, Resets!TypeOK, Resets!NoRow, Resets!Busy
<1>2. ResetTokensInv'
  <2>1. token'.hash \in {0} \union stored'
    BY <1>a, ResetIdle
  <2>2. \A q, r \in Unit : Requesting(q)' /\ Requesting(r)' /\ q # r =>
            resetUnit'[q].entity.hash # resetUnit'[r].entity.hash
    BY <1>a, <1>b DEF ResetsInv, ResetTokensInv
  <2>3. \A q \in Unit : ResetPath(q)' /\ ResetToken(q)'
    BY <1>b DEF ResetsInv, ResetTokensInv
  <2> QED
    BY <1>a, <2>1, <2>2, <2>3 DEF ResetsInv, ResetTokensInv, Resets!NoRow
<1>3. ResetWritesInv'
  BY <1>a, <1>b, <1>e DEF ResetsInv, ResetWritesInv, ResetWrites, ResetOpen, Resets!NoRow
<1>4. ResetMailInv'
  BY <1>a DEF ResetsInv, ResetMailInv, Resets!InFlight
<1>5. ResetSerialInv'
  <2> SUFFICES ASSUME ~resetOverlapped PROVE ResetSerialInv'
    BY <1>a DEF ResetSerialInv
  <2>1. ASSUME NEW q \in Unit PROVE ResetAlone(q)'
    <3>1. ResetAlone(q)
      BY DEF ResetsInv, ResetSerialInv
    <3>2. resetUnit[q].pc = "writeToken" => ~resetUnit[q].insert
      BY <1>a, <3>1 DEF ResetAlone
    <3>3. token' = Resets!NoRow'
      BY <1>a DEF Resets!NoRow
    <3> QED
      BY <1>a, <1>b, <1>d, <3>1, <3>2, <3>3 DEF ResetAlone
  <2>2. \A t \in Resets!Token : t # 0
    BY ResetConstants DEF Resets!Token
  <2>3. \A t \in Resets!Token : uses'[t] <= 1 /\ (uses'[t] = 1 => token'.hash # t \/ token'.consumed)
    BY <1>a, <2>2, ResetIdle DEF ResetsInv, ResetSerialInv
  <2> QED
    BY <1>a, <1>b, <2>1, <2>3 DEF ResetsInv, ResetSerialInv
<1>6. ResetLatestInv'
  <2> SUFFICES ASSUME ~resetOverlapped, ~resetRaced' PROVE ResetLatestInv'
    BY <1>a DEF ResetLatestInv
  <2>1. \A q \in Unit : ~ResetOpen(q)
    BY <1>e
  <2>2. \A q \in Unit : ResetUnraced(q)'
    BY <1>b, <2>1, <1>a DEF ResetUnraced, ResetOpen, HasFound, HasWritten
  <2>3. latest # Resets!NoRow /\ uses[latest.hash] = 0 /\ latest.expiresAt > resetNow => token = latest
    BY <1>a DEF ResetsInv, ResetLatestInv
  <2>4. ~(latest # Resets!NoRow /\ uses[latest.hash] = 0 /\ latest.expiresAt > resetNow)
    <3>1. latest # Resets!NoRow => ~latest.consumed
      BY DEF ResetsInv, ResetTokensInv
    <3>2. token.expiresAt \in Nat /\ resetNow \in Nat
      BY ResetConstants DEF ResetsInv, Resets!TypeOK, Resets!Row, Resets!Time
    <3> QED
      BY <1>a, <2>3, <3>1, <3>2
  <2> QED
    BY <1>a, <2>2, <2>4 DEF ResetLatestInv, Resets!NoRow
<1> QED
  BY <1>1, <1>2, <1>3, <1>4, <1>5, <1>6 DEF ResetsInv

\* Time passes: what was live may expire.
LEMMA ResetTickInv == ResetsInv /\ Resets!Tick => ResetsInv'
<1> SUFFICES ASSUME ResetsInv, Resets!Tick PROVE ResetsInv'
  OBVIOUS
<1>a. /\ resetNow' = resetNow + 1 /\ resetNow < LastTick /\ resetNow \in 0..LastTick
      /\ UNCHANGED <<token, password, resetUnit, requests, passwords, resetFaults, resetMails,
                     latest, uses, blind, stored, resetOverlapped, resetRaced>>
  BY DEF Resets!Tick, Resets!counters, Resets!history, ResetsInv, Resets!TypeOK
<1>b. resetNow' \in 0..LastTick
  BY <1>a, ResetConstants
<1>1. Resets!TypeOK'
  BY <1>a, <1>b DEF ResetsInv, Resets!TypeOK, Resets!NoRow
<1>2. ResetTokensInv' /\ ResetWritesInv' /\ ResetMailInv' /\ ResetSerialInv'
  BY <1>a DEF ResetsInv, ResetTokensInv, ResetPath, ResetToken, Requesting, ResetOpen, HasFound,
              HasWritten, ResetWritesInv, ResetWrites, ResetMailInv, ResetSerialInv, ResetAlone, Agrees,
              Resets!HasToken, Resets!InFlight, Resets!NoRow
<1>3. ResetLatestInv'
  <2>1. latest.expiresAt \in Nat /\ resetNow \in Nat
    BY ResetConstants DEF ResetsInv, Resets!TypeOK, Resets!Row, Resets!Time
  <2>2. latest.expiresAt > resetNow' => latest.expiresAt > resetNow
    BY <1>a, <2>1
  <2> QED
    BY <1>a, <2>2 DEF ResetsInv, ResetLatestInv, ResetUnraced, Agrees, HasWritten, HasFound, Resets!NoRow
<1> QED
  BY <1>1, <1>2, <1>3 DEF ResetsInv

\* Every step of the reset module keeps the invariant.
LEMMA ResetsNextInv == ResetsInv /\ [Resets!Next]_Resets!vars => ResetsInv'
<1> SUFFICES ASSUME ResetsInv, [Resets!Next]_Resets!vars PROVE ResetsInv'
  OBVIOUS
<1>1. ASSUME NEW p \in Unit, Resets!Fails(p) PROVE ResetsInv'
  <2>1. resetFaults' \in 0..MaxFaults /\ resetFaults' < MaxFaults
    BY <1>1, ResetConstants DEF Resets!Fails, ResetsInv, Resets!TypeOK
  <2> QED
    BY <1>1, <2>1, ResetRejectInv DEF Resets!Fails, Resets!Reject, Resets!counters, Resets!history
<1>2. ASSUME UNCHANGED Resets!vars PROVE ResetsInv'
  BY <1>2 DEF Resets!vars, Resets!history, Resets!counters, ResetsInv, Resets!TypeOK, ResetTokensInv,
              ResetPath, ResetToken, Requesting, ResetOpen, HasFound, HasWritten, ResetWritesInv,
              ResetWrites, ResetMailInv, ResetSerialInv, ResetAlone, ResetLatestInv, ResetUnraced, Agrees,
              Resets!HasToken, Resets!InFlight, Resets!NoRow
<1> QED
  BY <1>1, <1>2, ResetBeginsInv, ResetFindsInv, ResetPasswordInv, ResetComparesInv, ResetWriteTokenInv,
     ResetMailsInv, ResetCommitInv, ResetPurgeInv, ResetTickInv DEF Resets!Next

\* The invariant is enough.
LEMMA ResetsInvImplies ==
  ResetsInv => /\ Resets!TypeOK /\ Resets!DamageNeedsOverlap
               /\ Resets!LatestTokenWorks /\ Resets!DeadMailNeedsFault
<1> SUFFICES ASSUME ResetsInv
             PROVE  Resets!DamageNeedsOverlap /\ Resets!LatestTokenWorks /\ Resets!DeadMailNeedsFault
  BY DEF ResetsInv
<1>1. Resets!DamageNeedsOverlap
  <2>1. \A t \in Resets!Token : uses[t] \in Nat
    BY DEF ResetsInv, Resets!TypeOK
  <2> QED
    BY <2>1 DEF ResetsInv, ResetSerialInv, Resets!DamageNeedsOverlap
<1>2. Resets!LatestTokenWorks
  BY DEF ResetsInv, ResetLatestInv, Resets!LatestTokenWorks
<1>3. Resets!DeadMailNeedsFault
  BY ResetConstants DEF ResetsInv, ResetMailInv, Resets!DeadMailNeedsFault, Resets!TypeOK
<1> QED
  BY <1>1, <1>2, <1>3

\* On its own, for any number of units of work, tokens, passwords and faults: the
\* damage a reset can do needs overlapping units of work, the latest token works
\* unless one overlapped or a purge came within one, and a mail with a token that
\* was never stored needs a failure or such a purge.
THEOREM ResetsAreSound ==
  Resets!Spec => [](/\ Resets!TypeOK /\ Resets!DamageNeedsOverlap
                    /\ Resets!LatestTokenWorks /\ Resets!DeadMailNeedsFault)
<1>1. Resets!Init => ResetsInv
  BY ResetsInitInv
<1>2. ResetsInv /\ [Resets!Next]_Resets!vars => ResetsInv'
  BY ResetsNextInv
<1> QED
  BY <1>1, <1>2, ResetsInvImplies, PTL DEF Resets!Spec

-----------------------------------------------------------------------------
(* The theorems.                                                            *)

\* AuthorizationService in every instance of the run: what a check is granted
\* from the cache was a permission of the subject at most TTL and a fill ago,
\* and is one now if no check overlapped a unit of work.
THEOREM GrantsStayFresh == IdentitySpec => []GrantsAreFresh
<1>1. IInv => TypeOK /\ StaleGrantBounded /\ ImmediateUnlessRaced
  BY IInvImplies
<1>2. UserProofs!IInv =>
        UserProofs!TypeOK /\ UserProofs!StaleGrantBounded /\ UserProofs!ImmediateUnlessRaced
  BY UserProofs!IInvImplies, CacheConstants
<1>3. KeyProofs!IInv =>
        KeyProofs!TypeOK /\ KeyProofs!StaleGrantBounded /\ KeyProofs!ImmediateUnlessRaced
  BY KeyProofs!IInvImplies, CacheConstants
<1>4. CacheInv => GrantsAreFresh
  BY <1>1, <1>2, <1>3, UserCacheIsItself, KeyCacheIsItself DEF CacheInv, GrantsAreFresh
<1> QED
  BY InitCacheInv, NextCacheInv, <1>4, PTL DEF IdentitySpec

\* A step of the run is a step of one component, the others rest.
LEMMA IdentitySteps ==
  ASSUME [IdentityNext]_<<part, vars, rolesVars, keysVars, invitationVars, resetVars>>
  PROVE  /\ part' = part
         /\ [Own!Next]_Own!vars /\ [Keys!Next]_Keys!vars
         /\ [Invites!Next]_Invites!vars /\ [Resets!Next]_Resets!vars
<1>1. /\ UNCHANGED rolesVars => UNCHANGED Own!vars
      /\ UNCHANGED keysVars => UNCHANGED Keys!vars
      /\ UNCHANGED invitationVars => UNCHANGED Invites!vars
      /\ UNCHANGED resetVars => UNCHANGED Resets!vars
  BY DEF rolesVars, keysVars, invitationVars, resetVars, Own!vars, Keys!vars, Keys!history, Invites!vars,
         Invites!history, Resets!vars, Resets!history, Resets!counters
<1>2. CASE UNCHANGED <<part, vars, rolesVars, keysVars, invitationVars, resetVars>>
  BY <1>1, <1>2
<1>3. CASE Cache
  BY <1>1, <1>3 DEF Cache
<1>4. CASE CustomRoles
  BY <1>1, <1>4 DEF CustomRoles
<1>5. CASE KeysChange \/ KeyIsUsed
  BY <1>1, <1>5 DEF KeysChange, KeyIsUsed
<1>6. CASE Inviting
  BY <1>1, <1>6 DEF Inviting
<1>7. CASE Resetting
  BY <1>1, <1>7 DEF Resetting
<1> QED
  BY <1>2, <1>3, <1>4, <1>5, <1>6, <1>7 DEF IdentityNext

\* Roles and memberships in the run: the creator alone holds Owner, names are
\* unique, and damage needs units of work that overlap.
THEOREM RolesStaySoundInRun == IdentitySpec => []RolesStaySound
<1>1. IdentityInit => RolesInv
  BY RolesInitInv DEF IdentityInit
<1>2. RolesInv /\ [IdentityNext]_<<part, vars, rolesVars, keysVars, invitationVars, resetVars>> => RolesInv'
  BY IdentitySteps, RolesNextInv
<1>3. RolesInv => RolesStaySound
  BY RolesInvImplies DEF RolesStaySound
<1> QED
  BY <1>1, <1>2, <1>3, PTL DEF IdentitySpec

\* API keys in the run, in a short time and in a long one: damage to a key needs
\* changes that overlap, and its last use is recorded at most once per window
\* and never backwards.
THEOREM KeysStaySoundInRun == IdentitySpec => []KeysStaySound
<1>1. IdentityInit => KeysInv
  BY KeysInitInv DEF IdentityInit
<1>2. KeysInv /\ [IdentityNext]_<<part, vars, rolesVars, keysVars, invitationVars, resetVars>> => KeysInv'
  BY IdentitySteps, KeysNextInv
<1>3. KeysInv => KeysStaySound
  BY KeysInvImplies DEF KeysStaySound
<1> QED
  BY <1>1, <1>2, <1>3, PTL DEF IdentitySpec

\* Invitations in the run: one pending, one joining, none by a dead token but
\* for overlapping units of work, and no dead mail without a failure.
THEOREM InvitationsStaySoundInRun == IdentitySpec => []InvitationsStaySound
<1>1. IdentityInit => InvitesInv
  BY InvitesInitInv DEF IdentityInit
<1>2. InvitesInv /\ [IdentityNext]_<<part, vars, rolesVars, keysVars, invitationVars, resetVars>> => InvitesInv'
  BY IdentitySteps, InvitesNextInv
<1>3. InvitesInv => InvitationsStaySound
  BY InvitesInvImplies DEF InvitationsStaySound
<1> QED
  BY <1>1, <1>2, <1>3, PTL DEF IdentitySpec

\* Password resets in the run: a token is used once and a password replaced
\* knowingly but for overlapping units of work, the latest token works, and only
\* a failure or a purge leaves a mailed token without a row.
THEOREM ResetsStaySoundInRun == IdentitySpec => []ResetsStaySound
<1>1. IdentityInit => ResetsInv
  BY ResetsInitInv DEF IdentityInit
<1>2. ResetsInv /\ [IdentityNext]_<<part, vars, rolesVars, keysVars, invitationVars, resetVars>> => ResetsInv'
  BY IdentitySteps, ResetsNextInv
<1>3. ResetsInv => ResetsStaySound
  BY ResetsInvImplies DEF ResetsStaySound
<1> QED
  BY <1>1, <1>2, <1>3, PTL DEF IdentitySpec
=============================================================================
