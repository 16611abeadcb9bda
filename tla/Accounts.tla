------------------------------ MODULE Accounts ------------------------------
(***************************************************************************)
(* User accounts, their Casbin role rules and their tokens: the handlers   *)
(* of /api/v1/auth, repositories/users.py and the guards of core/auth.py.  *)
(*                                                                         *)
(* A user's domain is the tenant of the account ("own") or every domain    *)
(* ("*").  Tokens are stateless: they are valid until they expire or their *)
(* secret is rotated out, whether or not the account still is active.      *)
(* delete_user_route reads and counts in one transaction and writes in      *)
(* another and is followed through both.                                    *)
(***************************************************************************)
EXTENDS Integers, FiniteSets

CONSTANTS
  Names,       \* usernames
  Admins,      \* the accounts that exist at first, all administrators
  Superadmin,  \* settings.superadmin_subject, one of the names
  InitAdmin,   \* settings.init_admin_username, one of the names
  MaxKeys,     \* bound: values that the signing secret takes
  MaxOps       \* bound: changes of accounts and rules

Roles == {"user", "manager", "admin"}
Domains == {"own", "*"}

VARIABLES
  account,     \* name -> "none", "active" or "inactive"
  rules,       \* g-rules <<name, role, domain>>
  access,      \* unexpired access tokens <<name, key>>
  renewal,     \* unexpired refresh tokens <<name, key>>
  current,     \* the secret that signs, as a number
  previous,    \* the secrets of the rotation window
  deleting,    \* targets of the deletions that passed their checks
  reply,       \* status of the latest answer
  ops,
  overlapped,  \* history: two deletions were under way at the same time
  deactivated  \* history: an account was deactivated by PATCH

secretVars == <<current, previous>>
vars == <<account, rules, access, renewal, secretVars, deleting, reply, ops, overlapped,
          deactivated>>

Active == {n \in Names : account[n] = "active"}
MayChange == ops < MaxOps /\ ops' = ops + 1

-----------------------------------------------------------------------------
(* Verification of a token that is signed with key, 0 for one that cannot   *)
(* be decoded: the loop over the secrets of the rotation window.            *)

VerificationSecrets == {current} \cup previous

VerifyToken(key, expired) ==
  CASE key = 0 -> "invalid format"
    [] key # 0 /\ key \notin VerificationSecrets -> "invalid signature"
    [] key \in VerificationSecrets /\ expired -> "expired"
    [] OTHER -> "accepted"

VerifyRefreshToken(key, expired, kind) ==
  IF VerifyToken(key, expired) = "accepted" /\ kind # "refresh"
  THEN "not a refresh token" ELSE VerifyToken(key, expired)

\* A caller has an access token that is accepted, or a refresh token.
Authenticated(n) == \E t \in access : t[1] = n /\ VerifyToken(t[2], FALSE) = "accepted"
Renewable(n) ==
  \E t \in renewal : t[1] = n /\ VerifyRefreshToken(t[2], FALSE, "refresh") = "accepted"

-----------------------------------------------------------------------------
(* Roles.                                                                   *)

\* Roles of a user in the account's domain; rules of "*" match every domain.
RolesInDomain(n) == {r \in Roles : \E d \in Domains : <<n, r, d>> \in rules}

Priority == [admin |-> 3, manager |-> 2, user |-> 1]

\* The strongest role, and "user" without any.
ResolveEffectiveRole(rs) ==
  IF rs = {} THEN "user" ELSE CHOOSE r \in rs : \A q \in rs : Priority[q] <= Priority[r]

IsSuperuser(sub) == sub = Superadmin

\* The matcher with the seeded policies, which grant every object to each of
\* the three roles.
Enforce(sub) == IsSuperuser(sub) \/ RolesInDomain(sub) # {}

\* casbin_guard after verify_jwt_token: the status that ends the request, or
\* "pass".
Guard(caller) == CASE ~Authenticated(caller) -> "401"
                   [] Authenticated(caller) /\ ~Enforce(caller) -> "403"
                   [] OTHER -> "pass"

Refused(caller) == /\ Guard(caller) # "pass"
                   /\ reply' = Guard(caller)
                   /\ UNCHANGED <<account, rules, access, renewal, secretVars, deleting, ops, overlapped,
                                  deactivated>>

\* Mutant: the account under deletion is counted too.
CountActiveAdmins_All(exclude) == Cardinality({n \in Active : "admin" \in RolesInDomain(n)})

\* count_active_admins: active accounts with an admin rule in any domain.
CountActiveAdmins(exclude) ==
  Cardinality({n \in Active \ {exclude} : "admin" \in RolesInDomain(n)})

-----------------------------------------------------------------------------
(* Accounts.                                                                *)

\* create_user: usernames and tenant names are unique over inactive accounts
\* too; the rule is written only after the row could be inserted.
CreateUser(n, role) ==
  \/ /\ account[n] # "none"
     /\ reply' = "409"
     /\ UNCHANGED <<account, rules, ops>>
  \/ /\ account[n] = "none"
     /\ MayChange
     /\ account' = [account EXCEPT ![n] = "active"]
     /\ rules' = rules \cup {<<n, role, "own">>}
     /\ reply' = "201"

Register(n) == /\ CreateUser(n, "user")
               /\ UNCHANGED <<access, renewal, secretVars, deleting, overlapped, deactivated>>

CreateAdmin(caller, n) ==
  \/ Refused(caller)
  \/ /\ Guard(caller) = "pass"
     /\ CreateUser(n, "admin")
     /\ UNCHANGED <<access, renewal, secretVars, deleting, overlapped, deactivated>>

\* assign_role: the rule is written for every domain before the account is
\* looked up.
AssignUserRole(n, role) == rules' = rules \cup {<<n, role, "*">>}

AssignRole(caller, n, role) ==
  \/ Refused(caller)
  \/ /\ Guard(caller) = "pass"
     /\ MayChange
     /\ AssignUserRole(n, role)
     /\ reply' = IF n \in Active THEN "200" ELSE "404"
     /\ UNCHANGED <<account, access, renewal, secretVars, deleting, overlapped, deactivated>>

HasRoleInDomain(n, role) == role \in RolesInDomain(n)

\* delete_user_route up to delete_user: nobody deletes itself, and an
\* administrator only while another active one is counted.
DeleteChecks(caller, n) ==
  CASE n \notin Active -> "404"
    [] n \in Active /\ n = caller -> "403"
    [] n \in Active /\ n # caller /\ HasRoleInDomain(n, "admin")
       /\ CountActiveAdmins(n) = 0 -> "409"
    [] OTHER -> "pass"

DeleteUserRoute(caller, n) ==
  \/ Refused(caller)
  \/ /\ Guard(caller) = "pass" /\ DeleteChecks(caller, n) # "pass"
     /\ reply' = DeleteChecks(caller, n)
     /\ UNCHANGED <<account, rules, access, renewal, secretVars, deleting, ops, overlapped, deactivated>>
  \/ /\ Guard(caller) = "pass" /\ DeleteChecks(caller, n) = "pass"
     /\ n \notin deleting
     /\ deleting' = deleting \cup {n}
     /\ overlapped' = (overlapped \/ deleting # {})
     /\ UNCHANGED <<account, rules, access, renewal, secretVars, reply, ops, deactivated>>

\* delete_user reads the row again and marks it.
DeleteUser(n) ==
  /\ n \in deleting
  /\ MayChange
  /\ account' = [account EXCEPT ![n] = IF @ = "active" THEN "inactive" ELSE @]
  /\ deleting' = deleting \ {n}
  /\ reply' = "204"
  /\ UNCHANGED <<rules, access, renewal, secretVars, overlapped, deactivated>>

\* update_user: the account that the route found is read again.
UpdateUser(n, deactivate) ==
  account' = IF deactivate THEN [account EXCEPT ![n] = "inactive"] ELSE account

\* update_user_route: only active accounts are found, so that deactivation is
\* final; a taken e-mail address is a conflict.
UpdateUserRoute(caller, n, deactivate, emailTaken) ==
  \/ Refused(caller)
  \/ /\ Guard(caller) = "pass" /\ n \notin Active
     /\ reply' = "404"
     /\ UNCHANGED <<account, rules, access, renewal, secretVars, deleting, ops, overlapped, deactivated>>
  \/ /\ Guard(caller) = "pass" /\ n \in Active /\ emailTaken
     /\ reply' = "409"
     /\ UNCHANGED <<account, rules, access, renewal, secretVars, deleting, ops, overlapped, deactivated>>
  \/ /\ Guard(caller) = "pass" /\ n \in Active /\ ~emailTaken
     /\ MayChange
     /\ UpdateUser(n, deactivate)
     /\ deactivated' = (deactivated \/ deactivate)
     /\ reply' = "200"
     /\ UNCHANGED <<rules, access, renewal, secretVars, deleting, overlapped>>

\* list_users: the accounts of a page, and how many there are.
UsersPage(n) == [users |-> CHOOSE page \in SUBSET Active :
                             Cardinality(page) = IF Cardinality(Active) < n
                                                 THEN Cardinality(Active) ELSE n,
                 total |-> Cardinality(Active)]

ListUsers(caller) ==
  \/ Refused(caller)
  \/ /\ Guard(caller) = "pass"
     /\ reply' = [n \in UsersPage(2).users |-> ResolveEffectiveRole(RolesInDomain(n))]
     /\ UNCHANGED <<account, rules, access, renewal, secretVars, deleting, ops, overlapped, deactivated>>

\* The seeding script.  The name of a deleted account is not free, so that a
\* lost administrator of that name is not replaced.
BootstrapInitialAdmin ==
  /\ CountActiveAdmins("nobody") = 0 /\ account[InitAdmin] = "none"
  /\ CreateUser(InitAdmin, "admin")
  /\ UNCHANGED <<access, renewal, secretVars, deleting, overlapped, deactivated>>

EnsureSuperadmin ==
  /\ account[Superadmin] = "none"
  /\ MayChange
  /\ account' = [account EXCEPT ![Superadmin] = "active"]
  /\ UNCHANGED <<rules, access, renewal, secretVars, deleting, reply, overlapped, deactivated>>

-----------------------------------------------------------------------------
(* Tokens.                                                                  *)

Login(n, passwordOk) ==
  /\ \/ /\ n \in Active /\ passwordOk
        /\ access' = access \cup {<<n, current>>} /\ renewal' = renewal \cup {<<n, current>>}
        /\ reply' = "200"
     \/ /\ n \notin Active \/ ~passwordOk
        /\ reply' = "401"
        /\ UNCHANGED <<access, renewal>>
  /\ UNCHANGED <<account, rules, secretVars, deleting, ops, overlapped, deactivated>>

\* refresh: the old token is not revoked, so it can be used again.
Refresh(n) ==
  /\ \/ /\ Renewable(n) /\ n \in Active
        /\ access' = access \cup {<<n, current>>}
        /\ reply' = "200"
     \/ /\ ~Renewable(n) \/ n \notin Active
        /\ reply' = "401"
        /\ UNCHANGED access
  /\ UNCHANGED <<account, rules, renewal, secretVars, deleting, ops, overlapped, deactivated>>

Me(n) ==
  /\ reply' = IF Authenticated(n) /\ n \in Active THEN "200" ELSE "401"
  /\ UNCHANGED <<account, rules, access, renewal, secretVars, deleting, ops, overlapped, deactivated>>

\* logout: revocation and session deletion are stateless no-ops.
Logout ==
  /\ reply' = "204"
  /\ UNCHANGED <<account, rules, access, renewal, secretVars, deleting, ops, overlapped, deactivated>>

\* An access token expires before the refresh token of the same login.
TokensExpire(t) ==
  /\ t \in access \cup renewal
  /\ access' = access \ {t}
  /\ renewal' \in {renewal, renewal \ {t}}
  /\ UNCHANGED <<account, rules, secretVars, deleting, reply, ops, overlapped, deactivated>>

\* A restart with a new jwt_secret; the old one is kept in
\* jwt_previous_secrets or not.
RotateSecret(keep) ==
  /\ current < MaxKeys
  /\ current' = current + 1
  /\ previous' = IF keep THEN previous \cup {current} ELSE {}
  /\ deleting' = {}
  /\ UNCHANGED <<account, rules, access, renewal, reply, ops, overlapped, deactivated>>

-----------------------------------------------------------------------------
(* Guards that keep no state.                                               *)

\* require_internal_auth: header, scheme, token, then the proxy's certificate
\* headers when mTLS is enabled.
RequireMtls(enabled, allowed, verified, subject) ==
  CASE ~enabled -> "pass"
    [] enabled /\ allowed = {} -> "503"
    [] enabled /\ allowed # {} /\ (~verified \/ subject = "") -> "401"
    [] enabled /\ allowed # {} /\ verified /\ subject \notin allowed \cup {""} -> "403"
    [] OTHER -> "pass"

\* _verification_secrets: services have a rotation window of their own.
InternalSecrets == {"current", "previous"}

VerifyInternalToken(secret, expired, issuerOk) ==
  CASE secret \notin InternalSecrets -> "invalid"
    [] secret \in InternalSecrets /\ expired -> "expired"
    [] secret \in InternalSecrets /\ ~expired /\ ~issuerOk -> "invalid issuer"
    [] OTHER -> "accepted"

RequireInternalAuth(header, token, mtls) ==
  CASE header # "bearer" -> "401"
    [] header = "bearer" /\ token # "accepted" -> "401"
    [] OTHER -> mtls

\* _token_ttl_seconds: parsed is -1 for a value that is not a number.
TokenTtlSeconds(set, parsed) ==
  CASE ~set \/ parsed = -1 -> 300
    [] set /\ parsed # -1 /\ parsed < 30 -> 30
    [] set /\ parsed > 300 -> 300
    [] OTHER -> parsed

\* A call between services with a token that is age seconds old.
InternalCall(header, secret, ttl, age, issuerOk, mtls) ==
  /\ LET expired == age >= TokenTtlSeconds(TRUE, ttl)
     IN reply' = RequireInternalAuth(header, VerifyInternalToken(secret, expired, issuerOk), mtls)
  /\ UNCHANGED <<account, rules, access, renewal, secretVars, deleting, ops, overlapped,
                 deactivated>>

\* TenantMiddleware: the tenant and role of a request, from a bearer token or
\* from the header of an unauthenticated one.  Only the superadmin's account
\* has no tenant; tokens carry no role claim.
TenantOf(n) == IF n = Superadmin THEN "none" ELSE n

ResolveTenantFromJwt(n) ==
  CASE IsSuperuser(n) -> <<TenantOf(n), "admin">>
    [] ~IsSuperuser(n) /\ RolesInDomain(n) # {} ->
         <<TenantOf(n), ResolveEffectiveRole(RolesInDomain(n))>>
    [] OTHER -> <<TenantOf(n), "none">>

RequestContext(n, bearer, tenantHeader) ==
  CASE bearer /\ Authenticated(n) -> ResolveTenantFromJwt(n)
    [] bearer /\ ~Authenticated(n) -> <<"none", "none">>
    [] OTHER -> <<tenantHeader, "none">>

TenantMiddleware(n, bearer, tenantHeader) ==
  /\ reply' = RequestContext(n, bearer, tenantHeader)
  /\ UNCHANGED <<account, rules, access, renewal, secretVars, deleting, ops, overlapped,
                 deactivated>>

-----------------------------------------------------------------------------
Init ==
  /\ account = [n \in Names |-> IF n \in Admins THEN "active" ELSE "none"]
  /\ rules = {<<n, "admin", "own">> : n \in Admins}
  /\ access = {<<n, 1>> : n \in Admins} /\ renewal = {<<n, 1>> : n \in Admins}
  /\ current = 1 /\ previous = {}
  /\ deleting = {} /\ reply = "none" /\ ops = 0
  /\ overlapped = FALSE /\ deactivated = FALSE

AccountStep ==
  \/ BootstrapInitialAdmin \/ EnsureSuperadmin
  \/ \E n \in Names : Register(n) \/ DeleteUser(n)
  \/ \E c, n \in Names : CreateAdmin(c, n) \/ DeleteUserRoute(c, n)
  \/ \E c, n \in Names, r \in {"user", "admin"} : AssignRole(c, n, r)
  \/ \E c, n \in Names, off, taken \in BOOLEAN : UpdateUserRoute(c, n, off, taken)
  \/ \E c \in Names : ListUsers(c)

TokenStep ==
  \/ \E n \in Names, ok \in BOOLEAN : Login(n, ok)
  \/ \E n \in Names : Refresh(n) \/ Me(n)
  \/ Logout
  \/ \E t \in access \cup renewal : TokensExpire(t)

RotationStep == \E keep \in BOOLEAN : RotateSecret(keep)

MtlsAnswers == {RequireMtls(on, allowed, verified, subject) :
                  on, verified \in BOOLEAN, allowed \in {{}, {"peer"}},
                  subject \in {"", "peer", "other"}}

RequestStep ==
  \/ \E n \in Names, bearer \in BOOLEAN : TenantMiddleware(n, bearer, "demo")
  \/ \E header \in {"bearer", "none"}, secret \in InternalSecrets \cup {"other"},
       ttl \in {-1, 0, 900}, issuerOk \in BOOLEAN, mtls \in MtlsAnswers :
        InternalCall(header, secret, ttl, 299, issuerOk, mtls)

Next == AccountStep \/ TokenStep \/ RotationStep \/ RequestStep

Spec == Init /\ [][Next]_vars

-----------------------------------------------------------------------------
TypeOK ==
  /\ account \in [Names -> {"none", "active", "inactive"}]
  /\ rules \subseteq Names \X Roles \X Domains
  /\ access \cup renewal \subseteq Names \X (1..MaxKeys) /\ previous \subseteq 1..MaxKeys
  /\ deleting \subseteq Names

\* There is always an active administrator, unless two deletions were checked
\* before either was carried out or an account was deactivated by PATCH, which
\* does not count administrators (delete_user_route "protects the last active
\* admin"; a deleted administrator's token stays valid and may still be used
\* against the others).
AdminRemains ==
  \/ \E n \in Active : "admin" \in RolesInDomain(n)
  \/ overlapped \/ deactivated
=============================================================================
