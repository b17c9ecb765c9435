-------------------------------- MODULE Roles --------------------------------
(***************************************************************************)
(* Roles and memberships of one tenant: CreateTenant seeds the system      *)
(* roles and the Owner's membership, then units of work create, update and *)
(* delete custom roles, attach members and replace their roles, at the     *)
(* same time, at READ COMMITTED.  A unit of work loads its aggregate,      *)
(* checks it against other rows, saves it under a row lock and commits.    *)
(***************************************************************************)
EXTENDS Integers, FiniteSets

CONSTANTS
    User, Owner,        \* users; the one who creates the tenant
    CustomRole,         \* ids of custom roles
    Name,               \* names of custom roles
    Permission,         \* PermissionCatalog.all
    Unit,               \* units of work that run at the same time
    MaxUnits            \* bound: units of work in a behaviour

SystemRole == {"Owner", "Member"}       \* Admin is one more like Member
RoleId == SystemRole \union CustomRole

OwnerAssumption == Owner \in User
RoleAssumption ==
    /\ (SystemRole \union {"none"}) \cap (CustomRole \union Name) = {}
    /\ Permission # {}
    /\ MaxUnits \in Nat

VARIABLES
    role,       \* [RoleId -> its committed row]
    member,     \* [User -> role ids of the membership, {} without one]
    unit,       \* [Unit -> [pc, op, id, user, name, perms, roles, loaded]]
    started,    \* units of work begun
    overlapped, \* history: two units of work were open at the same time
    lost        \* history: a save wrote over a version it had not loaded

vars == <<role, member, unit, started, overlapped, lost>>

NoRole == [name |-> "none", perms |-> {}]
Exists(r) == role[r] # NoRole
RoleRow == [name : SystemRole \union Name \union {"none"}, perms : SUBSET Permission]
Op == {"create", "update", "delete", "attach", "replace"}
Idle == [pc |-> "idle", op |-> "create", id |-> "Owner", user |-> Owner,
         name |-> "none", perms |-> {}, roles |-> {}, loaded |-> NoRole, held |-> {}]

TypeOK ==
    /\ role \in [RoleId -> RoleRow]
    /\ \A r \in CustomRole : Exists(r) => role[r].name \in Name /\ role[r].perms # {}
    /\ member \in [User -> SUBSET RoleId]
    /\ unit \in [Unit ->
          [pc : {"idle", "load", "check", "save", "commit"}, op : Op, id : RoleId,
           user : User, name : Name \union SystemRole \union {"none"},
           perms : SUBSET Permission, roles : SUBSET RoleId,
           loaded : RoleRow, held : SUBSET RoleId]]
    /\ started \in 0..MaxUnits
    /\ overlapped \in BOOLEAN /\ lost \in BOOLEAN

Init ==
    /\ role = [r \in RoleId |-> NoRole]
    /\ member = [u \in User |-> {}]
    /\ unit = [p \in Unit |-> Idle]
    /\ started = 0
    /\ overlapped = FALSE /\ lost = FALSE

Created == Exists("Owner")
Goto(p, pc) == unit' = [unit EXCEPT ![p].pc = pc]
\* The use case throws, the unit of work rolls back.
Reject(p) == unit' = [unit EXCEPT ![p] = Idle]

\* The tenant, its system roles and the Owner's membership become visible at
\* once; the Owner role has every permission of the catalog.
CreateTenant ==
    /\ ~Created
    /\ role' = [r \in RoleId |->
                  CASE r = "Owner" -> [name |-> r, perms |-> Permission]
                    [] r = "Member" -> [name |-> r, perms |-> {}]
                    [] OTHER -> NoRole]
    /\ member' = [member EXCEPT ![Owner] = {"Owner"}]
    /\ UNCHANGED <<unit, started, overlapped, lost>>

\* A command arrives; "none" and {} are fields the update leaves out.
Begin(p) ==
    /\ Created /\ unit[p].pc = "idle" /\ started < MaxUnits
    /\ started' = started + 1
    /\ overlapped' = (overlapped \/ \E q \in Unit : unit[q].pc # "idle")
    /\ \E op \in {"create", "update", "delete"}, id \in RoleId,
          name \in Name \union {"none"}, perms \in SUBSET Permission :
          /\ op = "create" => id \in CustomRole /\ ~Exists(id) /\ name # "none" /\ perms # {}
          /\ op = "create" => \A q \in Unit : unit[q].op = "create" => unit[q].id # id
          /\ op = "delete" => name = "none" /\ perms = {}
          /\ unit' = [unit EXCEPT ![p] = [Idle EXCEPT !.pc = "load", !.op = op, !.id = id,
                                                      !.name = name, !.perms = perms]]
    /\ UNCHANGED <<role, member, lost>>

BeginMembership(p) ==
    /\ Created /\ unit[p].pc = "idle" /\ started < MaxUnits
    /\ started' = started + 1
    /\ overlapped' = (overlapped \/ \E q \in Unit : unit[q].pc # "idle")
    /\ \E op \in {"attach", "replace"}, u \in User, roles \in (SUBSET RoleId) \ {{}} :
          unit' = [unit EXCEPT ![p] = [Idle EXCEPT !.pc = "load", !.op = op,
                                                   !.user = u, !.roles = roles]]
    /\ UNCHANGED <<role, member, lost>>

-----------------------------------------------------------------------------
\* findById and the aggregate's own checks (assertMutable); a new role has
\* nothing to load.  Fields left out keep the values loaded here.
Mutable(r) == r \notin SystemRole

LoadRole(p) ==
    LET c == unit[p] IN
    /\ c.pc = "load" /\ c.op \in {"create", "update", "delete"}
    /\ IF \/ c.op # "create" /\ ~Exists(c.id)
          \/ c.op = "delete" /\ ~Mutable(c.id)
       THEN Reject(p)
       ELSE unit' = [unit EXCEPT ![p].pc = "check", ![p].loaded = role[c.id]]
    /\ UNCHANGED <<role, member, started, overlapped, lost>>

\* findByUserAndTenant: attach wants no membership, replace wants one.
LoadMembership(p) ==
    LET c == unit[p] IN
    /\ c.pc = "load" /\ c.op \in {"attach", "replace"}
    /\ IF (c.op = "attach") # (member[c.user] = {})
       THEN Reject(p)
       ELSE unit' = [unit EXCEPT ![p].pc = "check", ![p].held = member[c.user]]
    /\ UNCHANGED <<role, member, started, overlapped, lost>>

NameTaken(c) == \E r \in RoleId \ {c.id} : role[r].name = c.name

\* The aggregate after rename and replacePermissions, for the fields given.
Changed(c) ==
    [c EXCEPT !.pc = "save",
              !.name = IF c.name = "none" THEN c.loaded.name ELSE c.name,
              !.perms = IF c.perms = {} THEN c.loaded.perms ELSE c.perms]

\* The other roles' names; rename and replacePermissions refuse system roles.
CheckRole(p) ==
    LET c == unit[p] IN
    /\ c.pc = "check" /\ c.op \in {"create", "update"}
    /\ IF \/ c.name # "none" /\ NameTaken(c)
          \/ (c.name # "none" \/ c.perms # {}) /\ ~Mutable(c.id)
       THEN Reject(p)
       ELSE unit' = [unit EXCEPT ![p] = Changed(c)]
    /\ UNCHANGED <<role, member, started, overlapped, lost>>

HoldersNever(r) == {}
Holders(r) == {u \in User : r \in member[u]}

\* DeleteCustomRole looks for holders: RoleInUseError.
CheckHolders(p) ==
    LET c == unit[p] IN
    /\ c.pc = "check" /\ c.op = "delete"
    /\ IF Holders(c.id) # {} THEN Reject(p) ELSE Goto(p, "save")
    /\ UNCHANGED <<role, member, started, overlapped, lost>>

\* OwnerRole.assertAssignable: roles of the tenant, never its Owner role.
Assignable(roles) == "Owner" \notin roles /\ \A r \in roles : Exists(r)

\* LastOwnerRequiredError: another active Owner must remain.
OtherOwner(u) == Holders("Owner") \ {u} # {}

CheckAssignment(p) ==
    LET c == unit[p] IN
    /\ c.pc = "check" /\ c.op \in {"attach", "replace"}
    /\ IF Assignable(c.roles) /\ ("Owner" \in c.held => OtherOwner(c.user))
       THEN Goto(p, "save") ELSE Reject(p)
    /\ UNCHANGED <<role, member, started, overlapped, lost>>

-----------------------------------------------------------------------------
Saved(q) == unit[q].pc = "commit"
AboutRole(q) == unit[q].op \in {"create", "update", "delete"}

\* SELECT ... FOR UPDATE, and an INSERT or UPDATE that meets an uncommitted
\* row of the unique index on (tenant, name) or (tenant, user), wait.
Waits(p) == \E q \in Unit \ {p} :
    /\ Saved(q) /\ AboutRole(p) = AboutRole(q)
    /\ \/ AboutRole(p) /\ (\/ unit[q].id = unit[p].id
                          \/ /\ unit[p].name # "none"
                             /\ unit[p].name \in {unit[q].name, role[unit[q].id].name})
       \/ ~AboutRole(p) /\ unit[q].user = unit[p].user

\* The unique indexes.
Unique(p) ==
    LET c == unit[p] IN
    CASE c.op \in {"create", "update"} -> ~NameTaken(c)
      [] c.op = "attach" -> member[c.user] = {}
      [] OTHER -> TRUE

\* The lock is taken and the row is written as this unit of work knows it: the
\* version column is copied from the locked row, so it never mismatches.  The
\* delete of a role that is gone does nothing.
Save(p) ==
    LET c == unit[p] IN
    /\ c.pc = "save" /\ ~Waits(p)
    /\ IF Unique(p) THEN Goto(p, "commit") ELSE Reject(p)
    /\ lost' = (lost \/ (c.op = "update" /\ Unique(p) /\ role[c.id] # c.loaded))
    /\ UNCHANGED <<role, member, started, overlapped>>

Commit(p) ==
    LET c == unit[p] IN
    /\ c.pc = "commit"
    /\ role' = CASE c.op \in {"create", "update"} ->
                      [role EXCEPT ![c.id] = [name |-> c.name, perms |-> c.perms]]
                 [] c.op = "delete" -> [role EXCEPT ![c.id] = NoRole]
                 [] OTHER -> role
    /\ member' = IF AboutRole(p) THEN member ELSE [member EXCEPT ![c.user] = c.roles]
    /\ Reject(p)
    /\ UNCHANGED <<started, overlapped, lost>>

\* A statement or the COMMIT fails: nothing was written.
Fails(p) ==
    /\ unit[p].pc # "idle"
    /\ Reject(p)
    /\ UNCHANGED <<role, member, started, overlapped, lost>>

Next ==
    \/ CreateTenant
    \/ \E p \in Unit :
          \/ Begin(p) \/ BeginMembership(p)
          \/ LoadRole(p) \/ LoadMembership(p)
          \/ CheckRole(p) \/ CheckHolders(p) \/ CheckAssignment(p)
          \/ Save(p) \/ Commit(p) \/ Fails(p)

Spec == Init /\ [][Next]_vars

-----------------------------------------------------------------------------
(* Properties.                                                              *)

\* "A tenant must always have at least one owner": whatever runs at the same
\* time, the creator alone holds Owner, and Owner keeps every permission.
OwnerKeepsControl ==
    Created =>
        /\ Holders("Owner") = {Owner}
        /\ role["Owner"] = [name |-> "Owner", perms |-> Permission]
        /\ Exists("Member")

\* Concurrent creations and renames leave every name to one role.
NamesUnique ==
    \A r, s \in RoleId : Exists(r) /\ role[r].name = role[s].name => r = s

Dangling == \E u \in User : \E r \in member[u] : ~Exists(r)

\* As long as units of work run one after the other, no member holds a deleted
\* role and no save writes over a version it has not loaded.
DamageNeedsOverlap == Dangling \/ lost => overlapped

\* "Deletes an unused custom role": no member holds a role that is gone.
HeldRolesExist == ~Dangling

\* "A version mismatch surfaces as OptimisticConcurrencyError": no unit of
\* work commits over another one's change that it has not seen.
NoLostUpdate == ~lost
=============================================================================
