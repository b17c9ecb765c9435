----------------------------- MODULE ApiRoutes -----------------------------
(* The routes of the API with the metadata their decorators set, the errors    *)
(* their use cases raise, the status ApiExceptionFilter gives each error, and  *)
(* order of the interceptors.                                                  *)
EXTENDS Naturals, Sequences

(* The entries of both; the left one's where both have one. *)
f ++ g == [x \in DOMAIN f \union DOMAIN g |-> IF x \in DOMAIN f THEN f[x] ELSE g[x]]

(* Routes.  access: whose request is let through; tenant: where the route      *)
(* names a tenant; ok: its status; declared: the errors of its OpenAPI         *)
(* document.  PublicRoute, UserRoute and TenantRoute are the combinations of   *)
(* decorators the controllers use.                                             *)
PublicRoute(limited, ok, declared) ==
    [access |-> "public", limited |-> limited, permission |-> FALSE, idempotent |-> FALSE,
     userOnly |-> FALSE, tenant |-> "none", foreign |-> "none", ok |-> ok, declared |-> declared]

UserRoute(idempotent, tenant, ok, declared) ==
    [access |-> "user", limited |-> FALSE, permission |-> FALSE, idempotent |-> idempotent,
     userOnly |-> TRUE, tenant |-> tenant, foreign |-> "none", ok |-> ok, declared |-> declared]

(* foreign: what the repositories make of another tenant's id in the path. *)
TenantRoute(limited, idempotent, foreign, ok, declared) ==
    [access |-> "tenant", limited |-> limited, permission |-> TRUE, idempotent |-> idempotent,
     userOnly |-> FALSE, tenant |-> "path", foreign |-> foreign, ok |-> ok, declared |-> declared]

Mismatch == "TENANT_CONTEXT_MISMATCH"

SessionRoutes ==
    LET login == PublicRoute(TRUE, 200, {400, 401, 403, 429})
        logout == PublicRoute(TRUE, 200, {429})
    IN [register |-> PublicRoute(TRUE, 201, {400, 409, 429}),
        login |-> login, webLogin |-> login,
        refresh |-> PublicRoute(TRUE, 200, {400, 401, 429}),
        webRefresh |-> PublicRoute(TRUE, 200, {401, 429}),
        logout |-> logout, webLogout |-> logout]

PasswordRoutes ==
    [selectTenant |-> UserRoute(FALSE, "body", 200, {400, 401, 403}),
     forgotPassword |-> PublicRoute(TRUE, 200, {400, 429}),
     resetPassword |-> PublicRoute(TRUE, 200, {400, 401, 429}),
     setOrChangePassword |-> UserRoute(FALSE, "none", 200, {400, 401, 404, 409})]

ApiKeysRoutes ==
    [createApiKey |-> TenantRoute(TRUE, TRUE, Mismatch, 201, {400, 401, 403, 409, 429}),
     listApiKeys |-> TenantRoute(TRUE, FALSE, Mismatch, 200, {400, 401, 403, 429}),
     updateApiKey |-> TenantRoute(FALSE, FALSE, "API_KEY_NOT_FOUND", 200, {400, 401, 403, 404}),
     revokeApiKey |-> TenantRoute(TRUE, FALSE, "API_KEY_NOT_FOUND", 204, {400, 401, 403, 404, 409, 429})]

RolesRoutes ==
    [listRoles |-> TenantRoute(FALSE, FALSE, Mismatch, 200, {400, 401, 403}),
     createCustomRole |-> TenantRoute(FALSE, TRUE, Mismatch, 201, {400, 401, 403, 409}),
     updateCustomRole |-> TenantRoute(FALSE, FALSE, "ROLE_NOT_FOUND", 200, {400, 401, 403, 404, 409}),
     deleteCustomRole |-> TenantRoute(FALSE, FALSE, "ROLE_NOT_FOUND", 204, {400, 401, 403, 404, 409})]

MembersRoutes ==
    [listTenantMembers |-> TenantRoute(FALSE, FALSE, Mismatch, 200, {400, 401, 403}),
     attachMember |-> TenantRoute(FALSE, TRUE, Mismatch, 201, {400, 401, 403, 404, 409}),
     replaceMembershipRoles |-> TenantRoute(FALSE, FALSE, "MEMBERSHIP_NOT_FOUND", 200, {400, 401, 403, 404, 409})]

InvitationsRoutes ==
    [inviteMember |-> TenantRoute(FALSE, TRUE, Mismatch, 201, {400, 401, 403, 409}),
     acceptInvitation |-> PublicRoute(FALSE, 201, {400, 409})]

TenantsRoutes ==
    [createTenant |-> UserRoute(TRUE, "none", 201, {400, 401, 404, 409}),
     getTenant |-> TenantRoute(FALSE, FALSE, "TENANT_NOT_FOUND", 200, {400, 401, 403, 404})]

UsersRoutes == [createUser |-> PublicRoute(FALSE, 201, {400, 409})]

(* GET /me needs a tenant and a user, and no permission. *)
MeRoutes == [getMe |-> [UserRoute(FALSE, "none", 200, {401, 403, 404}) EXCEPT !.access = "tenant"]]

Routes ==
    SessionRoutes ++ PasswordRoutes ++ ApiKeysRoutes ++ RolesRoutes ++ MembersRoutes
    ++ InvitationsRoutes ++ TenantsRoutes ++ UsersRoutes ++ MeRoutes

(* The codes the services' use cases raise once they are entered. *)
AuthErrors ==
    [register |-> {"INVALID_PASSWORD", "USER_EMAIL_TAKEN"},
     login |-> {"INVALID_CREDENTIALS", "USER_SUSPENDED"}, webLogin |-> {"INVALID_CREDENTIALS", "USER_SUSPENDED"},
     refresh |-> {"INVALID_REFRESH_TOKEN"}, webRefresh |-> {"INVALID_REFRESH_TOKEN"},
     resetPassword |-> {"INVALID_PASSWORD", "INVALID_RESET_TOKEN"},
     setOrChangePassword |-> {"INVALID_PASSWORD", "INVALID_CREDENTIALS", "USER_NOT_FOUND", "PASSWORD_ALREADY_SET"}]

ApiKeysErrors ==
    [createApiKey |-> {"INSUFFICIENT_PERMISSION", "API_KEY_CANNOT_MANAGE_KEYS"},
     updateApiKey |->
        {"INSUFFICIENT_PERMISSION", "API_KEY_NOT_FOUND", "API_KEY_ALREADY_REVOKED", "API_KEY_CANNOT_MANAGE_KEYS"},
     revokeApiKey |-> {"API_KEY_NOT_FOUND", "API_KEY_ALREADY_REVOKED"}]

RolesErrors ==
    [createCustomRole |-> {"ROLE_NAME_TAKEN", "RESERVED_ROLE_NAME"},
     updateCustomRole |-> {"ROLE_NOT_FOUND", "ROLE_NAME_TAKEN", "RESERVED_ROLE_NAME", "SYSTEM_ROLE_IMMUTABLE"},
     deleteCustomRole |-> {"ROLE_NOT_FOUND", "SYSTEM_ROLE_IMMUTABLE", "ROLE_IN_USE"}]

MembersErrors ==
    [attachMember |-> {"USER_NOT_FOUND", "MEMBERSHIP_ALREADY_EXISTS", "CANNOT_ASSIGN_OWNER_ROLE", "ROLE_NOT_FOUND"},
     replaceMembershipRoles |->
        {"MEMBERSHIP_NOT_FOUND", "CANNOT_ASSIGN_OWNER_ROLE", "ROLE_NOT_FOUND", "LAST_OWNER_REQUIRED"}]

InvitationsErrors ==
    [inviteMember |->
        {"CANNOT_ASSIGN_OWNER_ROLE", "ROLE_NOT_FOUND", "MEMBERSHIP_ALREADY_EXISTS", "INVITATION_ALREADY_PENDING"},
     acceptInvitation |->
        {"INVALID_INVITATION_TOKEN", "INVITATION_REGISTRATION_REQUIRED", "INVALID_PASSWORD", "MEMBERSHIP_ALREADY_EXISTS"}]

TenantsErrors == [createTenant |-> {"OWNER_USER_NOT_FOUND"}, getTenant |-> {"TENANT_NOT_FOUND"}]

MeErrors == [getMe |-> {"USER_NOT_FOUND"}]

Errors ==
    AuthErrors ++ ApiKeysErrors ++ RolesErrors ++ MembersErrors ++ InvitationsErrors ++ TenantsErrors ++ MeErrors
    ++ [createUser |-> {"USER_EMAIL_TAKEN"}] ++ [r \in DOMAIN Routes |-> {}]

----------------------------------------------------------------------------
(* codedErrorHttpStatuses *)
CodedStatus ==
    [INSUFFICIENT_PERMISSION |-> 403, USER_NOT_FOUND |-> 404, OWNER_USER_NOT_FOUND |-> 404,
     USER_EMAIL_TAKEN |-> 409, INVALID_CREDENTIALS |-> 401, USER_SUSPENDED |-> 403, INVALID_PASSWORD |-> 400,
     PASSWORD_ALREADY_SET |-> 409, INVALID_REFRESH_TOKEN |-> 401, INVALID_RESET_TOKEN |-> 400,
     RATE_LIMIT_EXCEEDED |-> 429, ACTIVE_MEMBERSHIP_REQUIRED |-> 403, CANNOT_ASSIGN_OWNER_ROLE |-> 403,
     LAST_OWNER_REQUIRED |-> 409, INVITATION_ALREADY_PENDING |-> 409, MEMBERSHIP_ALREADY_EXISTS |-> 409,
     INVALID_INVITATION_TOKEN |-> 400, INVITATION_REGISTRATION_REQUIRED |-> 400, MEMBERSHIP_NOT_FOUND |-> 404,
     TENANT_NOT_FOUND |-> 404, ROLE_NOT_FOUND |-> 404, API_KEY_NOT_FOUND |-> 404, API_KEY_ALREADY_REVOKED |-> 409,
     API_KEY_CANNOT_MANAGE_KEYS |-> 400, API_KEY_INVALID_NAME |-> 400,
     API_KEY_EMPTY_PERMISSIONS |-> 400, ROLE_NAME_TAKEN |-> 409, ROLE_IN_USE |-> 409,
     SYSTEM_ROLE_IMMUTABLE |-> 403, RESERVED_ROLE_NAME |-> 409, IDEMPOTENCY_KEY_REQUIRED |-> 400,
     IDEMPOTENCY_SCOPE_UNAVAILABLE |-> 400,     IDEMPOTENCY_IN_PROGRESS |-> 409, IDEMPOTENCY_KEY_REUSED |-> 409]

(* What the filter knows without the map: the exceptions of Nest and nestjs-zod. *)
HttpStatus == [VALIDATION_ERROR |-> 400, UNAUTHORIZED |-> 401, FORBIDDEN |-> 403]

(* A failure of the infrastructure.  The drivers' errors carry a code of their *)
(* own (an SQLSTATE, ECONNREFUSED); an Error without one is "plain".           *)
Failure == {"driver", "plain"}

(* ApiExceptionFilter.catch *)
StatusOf(code) ==
    IF code = "plain" THEN 500
    ELSE IF code \in DOMAIN HttpStatus THEN HttpStatus[code]
    ELSE IF code \in DOMAIN CodedStatus THEN CodedStatus[code]
    ELSE 409

(* CommonModule: the interceptors, outermost first, then pipe and controller. *)
Stages == <<"limit", "principal", "permission", "claim", "validate", "invoke">>

Answered == Len(Stages) + 1
=============================================================================
