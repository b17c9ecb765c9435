------------------------------ MODULE Accounts ------------------------------
(***************************************************************************)
(* What goes in and what comes out of the API: a body parsed by its schema, *)
(* turned into a command by its mapper, executed by the use case under the  *)
(* guards of the domain, stored, read back by the queries and serialized by *)
(* the output schema.  Users and their passwords, and the roles, members    *)
(* and API keys of one tenant whose caller may do everything.               *)
(*                                                                         *)
(* A user is created in two steps: findByEmail, then the INSERT; other      *)
(* commands take one.                                                       *)
(***************************************************************************)
EXTENDS Contracts

CONSTANTS
    Persons,        \* whom an email address belongs to
    Secrets,        \* passwords of at least eight characters
    Lexicon,        \* the lexical classes of addresses requests use
    Slots,          \* requests and booting replicas that may be half done
    Dev,            \* the person of dev@example.com
    MaxUsers,       \* bound: rows of users
    MaxRoles,       \* bound: custom roles
    MaxKeys         \* bound: API keys

AccountsAssumption == Dev \in Persons /\ {MaxUsers, MaxRoles, MaxKeys} \subseteq Nat

VARIABLES
    users,      \* rows of users: [id, email, name]
    secrets,    \* rows of user_local_passwords: <<user, password>>
    members,    \* memberships of the tenant: <<user, role ids>>
    roles,      \* roles of the tenant: [id, name, permissions, system]
    keys,       \* API keys: [id, name, permissions, dates]
    invited,    \* pending invitations: email addresses
    slot,       \* slot |-> the command that found its address free, or Free
    chosen,     \* history: person |-> the password last accepted for them
    refused,    \* history: input errors of the domain
    lost,       \* history: operations whose answer the output schema refused
    raced       \* history: commands whose INSERT met the unique key

vars == <<users, secrets, members, roles, keys, invited, slot, chosen,
          refused, lost, raced>>

Free == [op |-> "free"]
None == V("none", "none")

-----------------------------------------------------------------------------
(* The domain's own rules *)

DomainCatalog == PermissionName
PermissionCatalog == DomainCatalog

\* Mutant: the address is stored as it is written.
NormalizeNothing(v) == v
\* trim, lower case, and local@domain.tld with any tld.
NormalizeEmail(v) == IF Lex(v) \in {"EMAIL", "padded email"} THEN V("email", Of(v)) ELSE v

EmailRefused(v) == Lex(v) \notin {"email", "EMAIL", "padded email", "tldless"}
Blank(v) == Lex(v) \in {"blank", "empty"}
Trim(v) == IF Lex(v) = "padded" THEN V("word", Of(v)) ELSE v

UserErrors(cmd) ==
    {e \in {"INVALID_USER_EMAIL"} : EmailRefused(cmd.email)}
      \cup {e \in {"INVALID_USER_DISPLAY_NAME"} : Blank(cmd.displayName)}

\* MIN_PASSWORD_LENGTH
PasswordErrors(v) == {e \in {"INVALID_PASSWORD"} : Lex(v) # "long"}

RoleErrors(name, permissions) ==
    {e \in {"INVALID_ROLE_NAME"} : Blank(name)}
      \cup {e \in {"EMPTY_ROLE_PERMISSIONS"} : permissions = {}}
      \cup {e \in {"UNKNOWN_PERMISSION"} : ~(permissions \subseteq PermissionCatalog)}

-----------------------------------------------------------------------------
(* Mappers *)

PermissionsOf(list) == {Of(list[i]) : i \in DOMAIN list}

\* A set of permissions or ids as the list a mapper makes of it.
AsList(set) ==
    LET list[s \in SUBSET set] ==
          IF s = {} THEN <<>> ELSE LET x == CHOOSE x \in s : TRUE IN Append(list[s \ {x}], x)
    IN list[set]

RegisterUserMapper(in) ==
    [email |-> in.email, displayName |-> in.displayName, password |-> in.password]
CreateUserMapper(in) == [email |-> in.email, displayName |-> in.displayName]
AcceptInvitationMapper(in) ==
    [f \in {"token", "displayName", "password"} \cap DOMAIN in |-> in[f]]

IdValue(n) == V("uuid", n)

UserIdOutput(u) == [id |-> IdValue(u)]

RolesMapper(r) ==
    [id |-> IdValue(r.id), name |-> r.name, isSystem |-> V("flag", r.system),
     permissions |-> AsList({permissionSchema(p) : p \in r.permissions})]

\* The dates of the row that are not null.
ApiKeysMapper(k) ==
    [f \in {"id", "name", "prefix", "permissions"} \cup k.dates |->
       CASE f = "id" -> IdValue(k.id)
         [] f = "name" -> k.name
         [] f = "prefix" -> V("word", k.id)
         [] f = "permissions" -> AsList({permissionSchema(p) : p \in k.permissions})
         [] OTHER -> V("instant", f)]

UserOf(id) == CHOOSE u \in users : u.id = id

TenantMembersMapper(m, pii) ==
    [f \in {"membershipId", "userId", "roleIds", "status"}
             \cup (IF pii THEN {"user_email", "user_displayName"} ELSE {}) |->
       CASE f \in {"membershipId", "userId"} -> IdValue(m[1])
         [] f = "roleIds" -> AsList({IdValue(r) : r \in m[2]})
         [] f = "status" -> V("active", "status")
         [] f = "user_email" -> UserOf(m[1]).email
         [] OTHER -> UserOf(m[1]).name]

EffectivePermissions(id) ==
    UNION {r.permissions : r \in {x \in roles : \E m \in members : m[1] = id /\ x.id \in m[2]}}

MeMapper(id) ==
    LET own == {m \in members : m[1] = id}
        user == [user_id |-> IdValue(id), user_email |-> UserOf(id).email,
                 user_displayName |-> UserOf(id).name, user_status |-> V("active", "status"),
                 effectivePermissions |-> AsList({permissionSchema(p) : p \in EffectivePermissions(id)})]
        membership == {"membership_membershipId", "membership_tenantId",
                       "membership_roleIds", "membership_status"}
    IN [f \in (DOMAIN user) \cup (IF own = {} THEN {} ELSE membership) |->
          CASE f \in DOMAIN user -> user[f]
            [] f = "membership_roleIds" ->
                 AsList({IdValue(r) : r \in UNION {m[2] : m \in own}})
            [] f = "membership_status" -> V("active", "status")
            [] OTHER -> IdValue(id)]

\* ApiSerializerInterceptor: an answer its schema refuses is a 500.
Serialize(op, conforms) == lost' = IF conforms THEN lost ELSE lost \cup {op}

-----------------------------------------------------------------------------
Init ==
    /\ users = {}
    /\ secrets = {}
    /\ members = {}
    /\ roles = {}
    /\ keys = {}
    /\ invited = {}
    /\ slot = [s \in Slots |-> Free]
    /\ chosen = [p \in Persons |-> None]
    /\ refused = {}
    /\ lost = {}
    /\ raced = {}

tenant == <<members, roles, keys>>
histories == <<chosen, refused, lost, raced>>

Emails == {V(l, p) : l \in Lexicon, p \in Persons}
DisplayNames == {V("word", "n"), V("padded", "n"), V("blank", "n")}
Passwords == {V("long", s) : s \in Secrets} \cup {V("short", "s")}

FindByEmail(email) == {u \in users : u.email = NormalizeEmail(email)}

\* CreateUserUseCase: its address is free.
CreateUser(s) ==
    /\ slot[s] = Free
    /\ \E email \in Emails, name \in DisplayNames :
         LET body == [email |-> email, displayName |-> name]
             cmd == CreateUserMapper(Parsed(createUserInputSchema, body))
         IN /\ Valid(createUserInputSchema, body)
            /\ FindByEmail(cmd.email) = {}
            /\ slot' = [slot EXCEPT ![s] = [op |-> "createUser", cmd |-> cmd]]
    /\ UNCHANGED <<users, secrets, invited, tenant, histories>>

\* RegisterUserUseCase.
Register(s) ==
    /\ slot[s] = Free
    /\ \E email \in Emails, name \in DisplayNames, password \in Passwords :
         LET body == [email |-> email, displayName |-> name, password |-> password]
             cmd == RegisterUserMapper(Parsed(registerUserInputSchema, body))
         IN /\ Valid(registerUserInputSchema, body)
            /\ refused' = refused \cup PasswordErrors(cmd.password)
            /\ IF PasswordErrors(cmd.password) # {}
               THEN UNCHANGED slot
               ELSE /\ FindByEmail(cmd.email) = {}
                    /\ slot' = [slot EXCEPT ![s] = [op |-> "register", cmd |-> cmd]]
    /\ UNCHANGED <<users, secrets, invited, tenant, chosen, lost, raced>>

\* DevSeeder.onModuleInit: USER_EMAIL_TAKEN is caught.
Seed(s) ==
    /\ slot[s] = Free
    /\ FindByEmail(V("email", Dev)) = {}
    /\ slot' = [slot EXCEPT ![s] = [op |-> "seed", cmd |-> [email |-> V("email", Dev),
                                                             displayName |-> V("word", "Dev")]]]
    /\ UNCHANGED <<users, secrets, invited, tenant, histories>>

NewUser(cmd) ==
    [id |-> Cardinality(users) + 1, email |-> NormalizeEmail(cmd.email),
     name |-> Trim(cmd.displayName)]

\* The password a command sets becomes the one of its person.
Chooses(of, password) == chosen' = [chosen EXCEPT ![of] = password]

\* The rest of the unit of work of a creation.
Save(s) ==
    /\ slot[s] # Free
    /\ Cardinality(users) < MaxUsers
    /\ slot' = [slot EXCEPT ![s] = Free]
    /\ LET cmd == slot[s].cmd
           row == NewUser(cmd)
       IN IF UserErrors(cmd) # {}
          THEN /\ refused' = refused \cup UserErrors(cmd)
               /\ UNCHANGED <<users, secrets, chosen, lost, raced>>
          ELSE IF \E u \in users : u.email = row.email
          THEN /\ raced' = raced \cup {slot[s].op}
               /\ UNCHANGED <<users, secrets, chosen, lost, refused>>
          ELSE /\ users' = users \cup {row}
               /\ IF slot[s].op = "register"
                  THEN /\ secrets' = secrets \cup {<<row.id, cmd.password>>}
                       /\ Chooses(Of(cmd.email), cmd.password)
                  ELSE UNCHANGED <<secrets, chosen>>
               /\ Serialize("createUser", Valid(createUserOutputSchema, UserIdOutput(row.id)))
               /\ UNCHANGED <<refused, raced>>
    /\ UNCHANGED <<invited, tenant>>

\* LoginUseCase: whether these credentials open a session.
LoginSucceeds(email, password) ==
    /\ Valid(loginInputSchema, [email |-> email, password |-> password])
    /\ \E u \in FindByEmail(email) : <<u.id, password>> \in secrets

\* SetOrChangePasswordUseCase by the user themselves.
SetPassword(u) ==
    /\ \E password \in Passwords, current \in Passwords \cup {None} :
         LET body == [f \in {"password"} \cup {g \in {"currentPassword"} : current # None} |->
                        IF f = "password" THEN password ELSE current]
             own == {x \in secrets : x[1] = u.id}
         IN /\ Valid(setOrChangePasswordInputSchema, body)
            /\ refused' = refused \cup PasswordErrors(password)
            /\ IF PasswordErrors(password) # {}
               THEN UNCHANGED <<secrets, chosen>>
               ELSE /\ IF own = {} THEN current = None ELSE <<u.id, current>> \in own
                    /\ secrets' = (secrets \ own) \cup {<<u.id, password>>}
                    /\ Chooses(Of(u.email), password)
    /\ UNCHANGED <<users, invited, slot, tenant, lost, raced>>

\* InviteMemberUseCase: the pending invitation of an address.
Invite ==
    /\ members # {}
    /\ \E email \in Emails :
         LET body == [email |-> email, roleIds |-> <<IdValue(1)>>]
         IN /\ Valid(inviteMemberInputSchema, body)
            /\ NormalizeEmail(email) \notin invited
            /\ invited' = invited \cup {NormalizeEmail(email)}
    /\ UNCHANGED <<users, secrets, slot, tenant, histories>>

\* AcceptInvitationUseCase: the holder of a token, with what new users must send.
Accept ==
    /\ \E email \in invited, name \in DisplayNames \cup {None}, password \in Passwords \cup {None} :
         LET body == [f \in {"token"} \cup {g \in {"displayName"} : name # None}
                                      \cup {g \in {"password"} : password # None} |->
                        CASE f = "token" -> V("word", "t")
                          [] f = "displayName" -> name
                          [] OTHER -> password]
             cmd == AcceptInvitationMapper(Parsed(acceptInvitationInputSchema, body))
             held == FindByEmail(email)
         IN /\ Valid(acceptInvitationInputSchema, body)
            /\ IF held = {}
               THEN /\ Cardinality(users) < MaxUsers
                    /\ {"displayName", "password"} \subseteq DOMAIN cmd
                    /\ LET row == NewUser([email |-> email, displayName |-> cmd.displayName])
                       IN /\ users' = users \cup {row}
                          /\ secrets' = secrets \cup {<<row.id, cmd.password>>}
                          /\ members' = members \cup {<<row.id, {1}>>}
                    /\ Chooses(Of(email), password)
               ELSE \E u \in held :
                       /\ \A m \in members : m[1] # u.id
                       /\ members' = members \cup {<<u.id, {1}>>}
                       /\ UNCHANGED <<users, secrets, chosen>>
            /\ invited' = invited \ {email}
    /\ Serialize("accept", Valid(acceptInvitationOutputSchema,
                                 [userId |-> IdValue(1), membershipId |-> IdValue(1), tenantId |-> IdValue(1)]))
    /\ UNCHANGED <<slot, roles, keys, refused, raced>>

\* GetMyProfileQuery.
Me(u) ==
    /\ Serialize("me", Valid(meOutputSchema, MeMapper(u.id)))
    /\ UNCHANGED <<users, secrets, invited, slot, tenant, chosen, refused, raced>>

-----------------------------------------------------------------------------
(* The tenant *)

Bundles ==
    <<[id |-> 1, name |-> V("word", "Member"), system |-> TRUE,
       permissions |-> {"tenancy.tenant.read"}],
      [id |-> 2, name |-> V("word", "Owner"), system |-> TRUE,
       permissions |-> PermissionCatalog]>>

SeededRoles == {Bundles[1], Bundles[2]}

\* CreateTenantUseCase seeds the system roles and the owner's membership.
CreateTenant(u) ==
    /\ members = {}
    /\ \E name \in DisplayNames : Valid(createTenantInputSchema, [name |-> name])
    /\ roles' = SeededRoles
    /\ members' = {<<u.id, {2}>>}
    /\ Serialize("createTenant",
                 Valid(createTenantOutputSchema,
                       [id |-> IdValue(1), ownerMembershipId |-> IdValue(u.id), roleIds_owner |-> IdValue(2),
                        roleIds_admin |-> IdValue(3), roleIds_member |-> IdValue(1)]))
    /\ UNCHANGED <<users, secrets, invited, slot, keys, chosen, refused, raced>>

\* AttachMemberUseCase; the owner role is not assignable.
AttachMember(u) ==
    /\ members # {}
    /\ \A m \in members : m[1] # u.id
    /\ \E ids \in {<<IdValue(1)>>, <<IdValue(1), IdValue(1)>>, <<>>} :
         LET body == [userId |-> IdValue(u.id), roleIds |-> ids]
         IN /\ Valid(attachMemberInputSchema, body)
            /\ members' = members \cup {<<u.id, PermissionsOf(ids)>>}
    /\ Serialize("attach", Valid(attachMemberOutputSchema, UserIdOutput(u.id)))
    /\ UNCHANGED <<users, secrets, invited, slot, roles, keys, chosen, refused, raced>>

\* ListTenantMembersQuery, by an actor with or without identity.users.read.
ListMembers(pii) ==
    /\ members # {}
    /\ Serialize("listMembers",
                 tenantMembersOutputSchema({TenantMembersMapper(m, pii) : m \in members}))
    /\ UNCHANGED <<users, secrets, invited, slot, tenant, chosen, refused, raced>>

Lists == {<<>>} \cup {<<permissionSchema(p)>> : p \in {"tenancy.tenant.read", "identity.api_keys.manage",
                                                      "billing.invoices.read"}}

Named == {V("word", "a"), V("padded", "a"), V("blank", "a")}

\* What a role or key command says, by the create or the update schema.
RoleBodies(schema) ==
    {b \in {[name |-> n, permissions |-> l] : n \in Named, l \in Lists} : Valid(schema, b)}

UpdateBodies(schema) ==
    {b \in RoleBodies(schema) \cup {[name |-> n] : n \in Named} \cup {[permissions |-> l] : l \in Lists} :
        Valid(schema, b) /\ Refined(b)}

\* CreateCustomRoleUseCase.
CreateRole ==
    /\ roles # {}
    /\ Cardinality(roles) < MaxRoles + 2
    /\ \E body \in RoleBodies(createRoleInputSchema) :
         LET in == Parsed(createRoleInputSchema, body)
             name == Trim(in.name)
             ps == PermissionsOf(in.permissions)
             row == [id |-> Cardinality(roles) + 1, name |-> name, system |-> FALSE, permissions |-> ps]
         IN /\ \A r \in roles : r.name # name
            /\ refused' = refused \cup RoleErrors(name, ps)
            /\ IF RoleErrors(name, ps) # {}
               THEN UNCHANGED <<roles, lost>>
               ELSE /\ roles' = roles \cup {row}
                    /\ Serialize("createRole", Valid(roleOutputSchema, RolesMapper(row)))
    /\ UNCHANGED <<users, secrets, invited, slot, members, keys, chosen, raced>>

\* UpdateCustomRoleUseCase: the new name, the new permissions, or both.
UpdateRole(r) ==
    /\ ~r.system
    /\ \E body \in UpdateBodies(updateRoleInputSchema) :
         LET in == Parsed(updateRoleInputSchema, body)
             name == IF "name" \in DOMAIN in THEN Trim(in.name) ELSE r.name
             ps == IF "permissions" \in DOMAIN in THEN PermissionsOf(in.permissions) ELSE r.permissions
             row == [r EXCEPT !.name = name, !.permissions = ps]
         IN /\ \A x \in roles \ {r} : x.name # name
            /\ refused' = refused \cup RoleErrors(name, ps)
            /\ IF RoleErrors(name, ps) # {}
               THEN UNCHANGED <<roles, lost>>
               ELSE /\ roles' = (roles \ {r}) \cup {row}
                    /\ Serialize("updateRole", Valid(roleOutputSchema, RolesMapper(row)))
    /\ UNCHANGED <<users, secrets, invited, slot, members, keys, chosen, raced>>

\* ListRolesQuery.
ListRoles ==
    /\ roles # {}
    /\ Serialize("listRoles", tenantRolesOutputSchema({RolesMapper(r) : r \in roles}))
    /\ UNCHANGED <<users, secrets, invited, slot, tenant, chosen, refused, raced>>

KeyErrors(name, permissions) ==
    {e \in {"INVALID_API_KEY_NAME"} : Blank(name)}
      \cup {e \in {"EMPTY_API_KEY_PERMISSIONS"} : permissions = {}}

\* The domain refuses identity.api_keys.manage on a key: not an input error.
KeyAdmitted(ps) == "identity.api_keys.manage" \notin ps

\* CreateApiKeyUseCase.
CreateKey ==
    /\ roles # {}
    /\ Cardinality(keys) < MaxKeys
    /\ \E body \in RoleBodies(createApiKeyInputSchema), dates \in {{}, {"expiresAt"}} :
         LET in == Parsed(createApiKeyInputSchema, body)
             name == Trim(in.name)
             ps == PermissionsOf(in.permissions)
         IN /\ KeyAdmitted(ps)
            /\ refused' = refused \cup KeyErrors(name, ps)
            /\ keys' = IF KeyErrors(name, ps) # {} THEN keys
                       ELSE keys \cup {[id |-> Cardinality(keys) + 1, name |-> name, permissions |-> ps, dates |-> dates]}
    /\ Serialize("createKey", Valid(createApiKeyOutputSchema, [id |-> IdValue(1), token |-> V("word", "bsk")]))
    /\ UNCHANGED <<users, secrets, invited, slot, members, roles, chosen, raced>>

\* UpdateApiKeyUseCase, of a key that is not revoked.
UpdateKey(k) ==
    /\ "revokedAt" \notin k.dates
    /\ \E body \in UpdateBodies(updateApiKeyInputSchema) :
         LET in == Parsed(updateApiKeyInputSchema, body)
             name == IF "name" \in DOMAIN in THEN Trim(in.name) ELSE k.name
             ps == IF "permissions" \in DOMAIN in THEN PermissionsOf(in.permissions) ELSE k.permissions
             row == [k EXCEPT !.name = name, !.permissions = ps]
         IN /\ KeyAdmitted(ps)
            /\ refused' = refused \cup KeyErrors(name, ps)
            /\ IF KeyErrors(name, ps) # {}
               THEN UNCHANGED <<keys, lost>>
               ELSE /\ keys' = (keys \ {k}) \cup {row}
                    /\ Serialize("updateKey", Valid(apiKeyOutputSchema, ApiKeysMapper(row)))
    /\ UNCHANGED <<users, secrets, invited, slot, members, roles, chosen, raced>>

\* A key is used, or revoked.
DateKey(k, f) ==
    /\ "revokedAt" \notin k.dates
    /\ keys' = (keys \ {k}) \cup {[k EXCEPT !.dates = @ \cup {f}]}
    /\ UNCHANGED <<users, secrets, invited, slot, members, roles, histories>>

\* ListApiKeysQuery.
ListKeys ==
    /\ roles # {}
    /\ Serialize("listKeys", tenantApiKeysOutputSchema({ApiKeysMapper(k) : k \in keys}))
    /\ UNCHANGED <<users, secrets, invited, slot, tenant, chosen, refused, raced>>

People ==
    \/ \E s \in Slots : CreateUser(s) \/ Register(s) \/ Seed(s) \/ Save(s)
    \/ \E u \in users : SetPassword(u) \/ Me(u) \/ CreateTenant(u) \/ AttachMember(u)
    \/ Invite \/ Accept
    \/ \E pii \in BOOLEAN : ListMembers(pii)

TenantObjects ==
    \/ CreateRole \/ ListRoles \/ CreateKey \/ ListKeys
    \/ \E r \in roles : UpdateRole(r)
    \/ \E k \in keys : UpdateKey(k) \/ (\E f \in {"lastUsedAt", "revokedAt"} : DateKey(k, f))

Next == People \/ TenantObjects

Spec == Init /\ [][Next]_vars

-----------------------------------------------------------------------------
(* Properties *)

\* Type correctness of the rows.
TypeOK ==
    /\ \A u \in users : u.id \in 1..MaxUsers /\ Of(u.email) \in Persons
    /\ \A x \in secrets : \E u \in users : u.id = x[1]
    /\ \A m \in members : (\E u \in users : u.id = m[1]) /\ m[2] \subseteq {r.id : r \in roles}
    /\ \A k \in keys : k.dates \subseteq {"expiresAt", "revokedAt", "lastUsedAt"}

\* User.create: "Email is trimmed and lowercased".  However an address is written
\* and whichever of the ways in is taken, a person has one account.
OneAccountPerPerson ==
    \A u, v \in users : Of(u.email) = Of(v.email) => u = v

\* LoginUseCase: a login succeeds with the password last accepted for the person,
\* and only with it, however the address is written.
LoginKnowsThePassword ==
    \A email \in {e \in Emails : Valid(forgotPasswordInputSchema, [email |-> e])}, password \in Passwords :
       LoginSucceeds(email, password) <=> chosen[Of(email)] = password

\* What the contract admits the domain's input rules admit: a caller who passed
\* validation never gets one of their errors.
ContractGuardsDomain == refused = {}

\* ApiSerializerInterceptor runs when the unit of work has committed: whatever was
\* accepted and stored, every answer conforms to its schema and none turns into
\* a 500.
NoAnswerIsLost == lost = {}

\* DevSeeder: "Idempotent local user for `nx serve api`."  Two replicas that boot
\* together both find the address free, and one dies of the unique key.
SeederIsIdempotent == "seed" \notin raced
=============================================================================
