------------------------------ MODULE Contracts ------------------------------
(***************************************************************************)
(* The zod schemas of packages/shared/contracts that stand before and after *)
(* the operations of Accounts: what a request body may hold before a use    *)
(* case sees it and what a response body must hold before it leaves.        *)
(*                                                                         *)
(* A scalar is a pair of its lexical class and of what it stands for; a     *)
(* list is a sequence, an object a function from the names of the fields it *)
(* has, and a nested object is written with dotted names.                   *)
(***************************************************************************)
EXTENDS Naturals, Sequences, FiniteSets

V(lex, of) == <<lex, of>>

Lex(v) == v[1]
Of(v) == v[2]

\* The lexical classes a scalar type of zod admits.  Every branded id is z.uuid().
\* "tldless" is an address like a@b.c, which z.email() refuses.
Strings == {"uuid", "email", "EMAIL", "padded email", "tldless", "noat",
            "word", "padded", "blank", "empty", "short", "long",
            "permission", "namespaced", "instant"}

Lexes == [ id         |-> {"uuid"},
           email      |-> {"email", "EMAIL"},
           name       |-> Strings \ {"blank", "empty"},
           string     |-> Strings,
           secret1    |-> Strings \ {"empty"},
           secret8    |-> {"long"},
           permission |-> {"permission"},
           datetime   |-> {"instant"},
           status     |-> {"active", "suspended"},
           membership |-> {"active", "suspended", "invited"},
           boolean    |-> {"flag"},
           positive   |-> {"count"},
           ok         |-> {"true"} ]

\* z.string().trim()
Trimmed(type, v) == IF type = "name" /\ Lex(v) = "padded" THEN V("word", Of(v)) ELSE v

One(t) == [type |-> t, list |-> FALSE, min |-> 0, opt |-> FALSE]
Opt(t) == [One(t) EXCEPT !.opt = TRUE]
Many(t) == [One(t) EXCEPT !.list = TRUE]
Some(t) == [Many(t) EXCEPT !.min = 1]
Perhaps(t) == [Some(t) EXCEPT !.opt = TRUE]

Admits(f, v) ==
    IF f.list THEN Len(v) >= f.min /\ \A i \in DOMAIN v : Lex(v[i]) \in Lexes[f.type]
    ELSE Lex(v) \in Lexes[f.type]

\* safeParse succeeds: every field there is admitted, none is missing.
Valid(schema, o) ==
    \A f \in DOMAIN schema : IF f \in DOMAIN o THEN Admits(schema[f], o[f]) ELSE schema[f].opt

\* z.object strips what the schema does not name.
Parsed(schema, o) ==
    [f \in (DOMAIN schema) \cap (DOMAIN o) |->
       IF schema[f].list THEN o[f] ELSE Trimmed(schema[f].type, o[f])]

-----------------------------------------------------------------------------
(* permission.ts *)

PermissionName ==
    {"tenancy.members.read", "tenancy.members.invite", "tenancy.members.manage",
     "tenancy.tenant.read", "authorization.roles.read", "authorization.roles.manage",
     "identity.users.read", "identity.api_keys.manage"}

\* A permission name as it is on the wire: of the contract's enum, or only
\* shaped like one.
permissionSchema(p) == IF p \in PermissionName THEN V("permission", p) ELSE V("namespaced", p)

-----------------------------------------------------------------------------
(* Identity *)

createUserInputSchema == [email |-> One("email"), displayName |-> One("name")]
createUserOutputSchema == [id |-> One("id")]

registerUserInputSchema ==
    [email |-> One("email"), displayName |-> One("name"), password |-> One("secret8")]

loginInputSchema == [email |-> One("email"), password |-> One("secret1")]
forgotPasswordInputSchema == [email |-> One("email")]
setOrChangePasswordInputSchema ==
    [password |-> One("secret8"), currentPassword |-> Opt("secret1")]

\* membership is null, or every field of it is there.
meOutputSchema ==
    [user_id |-> One("id"), user_email |-> One("email"), user_displayName |-> One("string"),
     user_status |-> One("status"),
     membership_membershipId |-> Opt("id"), membership_tenantId |-> Opt("id"),
     membership_roleIds |-> [Many("id") EXCEPT !.opt = TRUE],
     membership_status |-> Opt("membership"),
     effectivePermissions |-> Many("permission")]

createApiKeyInputSchema ==
    [name |-> One("name"), permissions |-> Some("permission"), expiresAt |-> Opt("datetime")]
createApiKeyOutputSchema == [id |-> One("id"), token |-> One("string")]
\* .refine: name or permissions is required.
updateApiKeyInputSchema == [name |-> Opt("name"), permissions |-> Perhaps("permission")]
apiKeyOutputSchema ==
    [id |-> One("id"), name |-> One("string"), prefix |-> One("string"),
     permissions |-> Many("permission"), expiresAt |-> Opt("datetime"),
     revokedAt |-> Opt("datetime"), lastUsedAt |-> Opt("datetime")]
\* {apiKeys: z.array(apiKeyOutputSchema)}
tenantApiKeysOutputSchema(keys) == \A k \in keys : Valid(apiKeyOutputSchema, k)

-----------------------------------------------------------------------------
(* Authorization *)

createRoleInputSchema == [name |-> One("name"), permissions |-> Some("permission")]
\* .refine: Provide name and/or permissions
updateRoleInputSchema == [name |-> Opt("name"), permissions |-> Perhaps("permission")]
roleOutputSchema ==
    [id |-> One("id"), name |-> One("string"), permissions |-> Many("permission"),
     isSystem |-> One("boolean")]
tenantRolesOutputSchema(roles) == \A r \in roles : Valid(roleOutputSchema, r)

-----------------------------------------------------------------------------
(* Tenancy *)

createTenantInputSchema == [name |-> One("name")]
createTenantOutputSchema ==
    [id |-> One("id"), ownerMembershipId |-> One("id"), roleIds_owner |-> One("id"),
     roleIds_admin |-> One("id"), roleIds_member |-> One("id")]
attachMemberInputSchema == [userId |-> One("id"), roleIds |-> Some("id")]
attachMemberOutputSchema == [id |-> One("id")]
inviteMemberInputSchema == [email |-> One("email"), roleIds |-> Some("id")]
\* New users must send displayName and password.
acceptInvitationInputSchema ==
    [token |-> One("secret1"), displayName |-> Opt("name"), password |-> Opt("secret8")]
acceptInvitationOutputSchema ==
    [userId |-> One("id"), membershipId |-> One("id"), tenantId |-> One("id")]
\* The user is left out for an actor without identity.users.read.
tenantMemberSchema ==
    [membershipId |-> One("id"), userId |-> One("id"), roleIds |-> Many("id"),
     status |-> One("membership"), user_email |-> Opt("email"),
     user_displayName |-> Opt("string")]
tenantMembersOutputSchema(members) == \A x \in members : Valid(tenantMemberSchema, x)

\* The refinement of the two update schemas.
Refined(o) == {"name", "permissions"} \cap DOMAIN o # {}
=============================================================================
