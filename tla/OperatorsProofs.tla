-------------------------- MODULE OperatorsProofs --------------------------
(***************************************************************************)
(* Proofs about the parts of Operators: accounts, agent runs, security     *)
(* events, rate limits, the dashboard and contract baselines, each for     *)
(* every value of its constants, and about all of them side by side.       *)
(***************************************************************************)
EXTENDS Operators, FiniteSetTheorems, SequenceTheorems, WellFoundedInduction, TLAPS

-----------------------------------------------------------------------------
(* Accounts: an active administrator who is not being deleted.              *)

\* Accounts counts with the Cardinality of its own copy of FiniteSets.
LEMMA AccountsCardinality == \A S : AC!Cardinality(S) = Cardinality(S)
  BY DEF AC!Cardinality, Cardinality

IsAdmin(n) == n \in AC!Active /\ "admin" \in AC!RolesInDomain(n)

\* As long as deletions did not overlap, at most one is under way, and an
\* administrator remains whom it does not concern.
AccountsInv ==
  /\ AC!TypeOK
  /\ acCurrent \in 1..MaxKeys
  /\ acOverlapped \in BOOLEAN /\ acDeactivated \in BOOLEAN
  /\ ~acOverlapped => \A m, n \in acDeleting : m = n
  /\ ~acOverlapped /\ ~acDeactivated => \E n \in Names \ acDeleting : IsAdmin(n)

\* No active administrator but one is found exactly if there is none.
LEMMA CountsOthers ==
  ASSUME NEW n
  PROVE  AC!CountActiveAdmins(n) = 0 <=> ~\E m \in Names \ {n} : IsAdmin(m)
  <1> DEFINE S == {m \in AC!Active \ {n} : "admin" \in AC!RolesInDomain(m)}
  <1>1. S \subseteq Names
    BY DEF AC!Active
  <1>2. IsFiniteSet(S)
    BY <1>1, AccountsAssumption, FS_Subset
  <1>3. Cardinality(S) = 0 <=> S = {}
    BY <1>2, FS_EmptySet
  <1>4. AC!CountActiveAdmins(n) = Cardinality(S)
    BY AccountsCardinality DEF AC!CountActiveAdmins
  <1>5. S = {} <=> ~\E m \in Names \ {n} : IsAdmin(m)
    BY DEF IsAdmin, AC!Active
  <1> QED
    BY <1>3, <1>4, <1>5

\* The first accounts are administrators.
LEMMA AccountsInit == AC!Init => AccountsInv
  <1> SUFFICES ASSUME AC!Init PROVE AccountsInv
    OBVIOUS
  <1> USE AccountsAssumption DEF AC!Init
  <1>1. acAccount \in [Names -> {"none", "active", "inactive"}]
    OBVIOUS
  <1>2. acRules \subseteq Names \X AC!Roles \X AC!Domains
    BY DEF AC!Roles, AC!Domains
  <1>3. acCurrent \in 1..MaxKeys
    OBVIOUS
  <1>4. acAccess \cup acRenewal \subseteq Names \X (1..MaxKeys)
    BY <1>3
  <1>5. AC!TypeOK
    BY <1>1, <1>2, <1>4 DEF AC!TypeOK
  <1>6. PICK n \in Admins : TRUE
    OBVIOUS
  <1>7. IsAdmin(n) /\ n \in Names \ acDeleting
    <2>1. <<n, "admin", "own">> \in acRules
      OBVIOUS
    <2>2. n \in AC!Active
      BY DEF AC!Active
    <2> QED
      BY <2>1, <2>2 DEF IsAdmin, AC!RolesInDomain, AC!Roles, AC!Domains
  <1> QED
    BY <1>3, <1>5, <1>7 DEF AccountsInv

\* An account that stays active and keeps its rules keeps its roles.
LEMMA AdminStays ==
  ASSUME acRules \subseteq acRules', NEW n, IsAdmin(n), acAccount'[n] = acAccount[n]
  PROVE  IsAdmin(n)'
  BY DEF IsAdmin, AC!Active, AC!RolesInDomain

\* A step that takes nothing from an active account, and deletes nothing new.
LEMMA GrowingStep ==
  ASSUME AccountsInv,
         acAccount' \in [Names -> {"none", "active", "inactive"}],
         \A n \in AC!Active : acAccount'[n] = acAccount[n],
         acRules \subseteq acRules', acRules' \subseteq Names \X AC!Roles \X AC!Domains,
         UNCHANGED <<acAccess, acRenewal, AC!secretVars, acOverlapped>>,
         acDeactivated' = acDeactivated \/ acDeactivated' = TRUE,
         acDeleting' \subseteq acDeleting
  PROVE  AccountsInv'
  <1>1. AC!TypeOK'
    BY DEF AccountsInv, AC!TypeOK, AC!secretVars
  <1>2. ~acOverlapped' => \A m, n \in acDeleting' : m = n
    BY DEF AccountsInv
  <1>3. ASSUME ~acOverlapped', ~acDeactivated' PROVE \E n \in Names \ acDeleting' : IsAdmin(n)'
    <2>1. PICK n \in Names \ acDeleting : IsAdmin(n)
      BY <1>3 DEF AccountsInv
    <2>2. acAccount'[n] = acAccount[n]
      BY <2>1 DEF IsAdmin
    <2>3. IsAdmin(n)'
      BY <2>1, <2>2, AdminStays
    <2> QED
      BY <2>1, <2>3
  <1>4. acOverlapped' \in BOOLEAN /\ acDeactivated' \in BOOLEAN
    BY DEF AccountsInv
  <1> QED
    BY <1>1, <1>2, <1>3, <1>4 DEF AccountsInv, AC!secretVars

\* Tokens come and go without effect on the accounts.
LEMMA TokensOnly ==
  ASSUME AccountsInv, UNCHANGED <<acAccount, acRules, AC!secretVars, acDeleting, acOverlapped, acDeactivated>>,
         acAccess' \cup acRenewal' \subseteq Names \X (1..MaxKeys)
  PROVE  AccountsInv'
  <1>1. AC!TypeOK'
    BY DEF AccountsInv, AC!TypeOK, AC!secretVars
  <1>2. \A n : IsAdmin(n)' <=> IsAdmin(n)
    BY DEF IsAdmin, AC!Active, AC!RolesInDomain
  <1> QED
    BY <1>1, <1>2 DEF AccountsInv, AC!secretVars

\* A refused request changes nothing.
LEMMA RefusedStep ==
  ASSUME AccountsInv, NEW c, AC!Refused(c)
  PROVE  AccountsInv'
  <1>1. acAccess' \cup acRenewal' \subseteq Names \X (1..MaxKeys)
    BY DEF AccountsInv, AC!TypeOK, AC!Refused
  <1> QED
    BY <1>1, TokensOnly DEF AC!Refused

\* create_user only takes free names.
LEMMA CreateUserStep ==
  ASSUME AccountsInv, NEW n \in Names, NEW role \in AC!Roles, AC!CreateUser(n, role),
         UNCHANGED <<acAccess, acRenewal, AC!secretVars, acDeleting, acOverlapped, acDeactivated>>
  PROVE  AccountsInv'
  <1>1. acAccount' \in [Names -> {"none", "active", "inactive"}]
    BY DEF AccountsInv, AC!TypeOK, AC!CreateUser
  <1>2. \A m \in AC!Active : acAccount'[m] = acAccount[m]
    BY DEF AC!CreateUser, AC!Active, AccountsInv, AC!TypeOK
  <1>3. acRules \subseteq acRules' /\ acRules' \subseteq Names \X AC!Roles \X AC!Domains
    BY DEF AccountsInv, AC!TypeOK, AC!CreateUser, AC!Domains
  <1> QED
    BY <1>1, <1>2, <1>3, GrowingStep

\* delete_user_route: whoever passes the checks leaves another administrator.
LEMMA DeleteRouteStep ==
  ASSUME AccountsInv, NEW c \in Names, NEW n \in Names, AC!DeleteUserRoute(c, n)
  PROVE  AccountsInv'
  <1>1. CASE AC!Refused(c)
    BY <1>1, RefusedStep
  <1>2. CASE AC!Guard(c) = "pass" /\ AC!DeleteChecks(c, n) # "pass" /\
             UNCHANGED <<acAccount, acRules, acAccess, acRenewal, AC!secretVars, acDeleting, acOps, acOverlapped, acDeactivated>>
    <2>1. acAccess' \cup acRenewal' \subseteq Names \X (1..MaxKeys)
      BY <1>2 DEF AccountsInv, AC!TypeOK
    <2> QED
      BY <1>2, <2>1, TokensOnly
  <1>3. CASE /\ AC!Guard(c) = "pass" /\ AC!DeleteChecks(c, n) = "pass"
             /\ acDeleting' = acDeleting \cup {n}
             /\ acOverlapped' = (acOverlapped \/ acDeleting # {})
             /\ UNCHANGED <<acAccount, acRules, acAccess, acRenewal, AC!secretVars, acReply, acOps, acDeactivated>>
    <2>1. AC!TypeOK'
      BY <1>3 DEF AccountsInv, AC!TypeOK, AC!secretVars
    <2>2. \A m : IsAdmin(m)' <=> IsAdmin(m)
      BY <1>3 DEF IsAdmin, AC!Active, AC!RolesInDomain
    <2>3. ~acOverlapped' => acDeleting' = {n}
      BY <1>3
    <2>4. ASSUME ~acOverlapped', ~acDeactivated' PROVE \E m \in Names \ {n} : IsAdmin(m)
      <3>1. ~acOverlapped /\ ~acDeactivated
        BY <1>3, <2>4 DEF AccountsInv
      <3>2. PICK m \in Names : IsAdmin(m)
        BY <3>1 DEF AccountsInv
      <3>3. n \in AC!Active
        BY <1>3 DEF AC!DeleteChecks
      <3>4. CASE m # n
        BY <3>2, <3>4
      <3>5. CASE m = n
        <4>1. AC!HasRoleInDomain(n, "admin")
          BY <3>2, <3>5 DEF IsAdmin, AC!HasRoleInDomain
        <4>2. n # c
          BY <1>3, <3>3 DEF AC!DeleteChecks
        <4>3. AC!CountActiveAdmins(n) # 0
          BY <1>3, <3>3, <4>1, <4>2 DEF AC!DeleteChecks
        <4> QED
          BY <4>3, CountsOthers
      <3> QED
        BY <3>4, <3>5
    <2>5. acOverlapped' \in BOOLEAN /\ acDeactivated' \in BOOLEAN
      BY <1>3 DEF AccountsInv
    <2>6. acCurrent' \in 1..MaxKeys
      BY <1>3 DEF AccountsInv, AC!secretVars
    <2> QED
      BY <2>1, <2>2, <2>3, <2>4, <2>5, <2>6 DEF AccountsInv
  <1> QED
    BY <1>1, <1>2, <1>3 DEF AC!DeleteUserRoute

\* delete_user: the deletion under way does not concern the administrator who remains.
LEMMA DeleteUserStep ==
  ASSUME AccountsInv, NEW n \in Names, AC!DeleteUser(n)
  PROVE  AccountsInv'
  <1> USE DEF AC!DeleteUser
  <1>1. AC!TypeOK'
    BY DEF AccountsInv, AC!TypeOK, AC!secretVars
  <1>2. ASSUME ~acOverlapped', ~acDeactivated' PROVE \E m \in Names \ acDeleting' : IsAdmin(m)'
    <2>1. PICK m \in Names \ acDeleting : IsAdmin(m)
      BY <1>2 DEF AccountsInv
    <2>2. acAccount'[m] = acAccount[m]
      BY <2>1 DEF AccountsInv, AC!TypeOK
    <2>3. IsAdmin(m)'
      BY <2>1, <2>2, AdminStays
    <2> QED
      BY <2>1, <2>3
  <1>3. acOverlapped' \in BOOLEAN /\ acDeactivated' \in BOOLEAN
    BY DEF AccountsInv
  <1>4. ~acOverlapped' => \A i, j \in acDeleting' : i = j
    BY DEF AccountsInv
  <1> QED
    BY <1>1, <1>2, <1>3, <1>4 DEF AccountsInv, AC!secretVars

\* update_user_route: a deactivation is recorded.
LEMMA UpdateUserStep ==
  ASSUME AccountsInv, NEW c \in Names, NEW n \in Names, NEW off \in BOOLEAN, NEW taken \in BOOLEAN,
         AC!UpdateUserRoute(c, n, off, taken)
  PROVE  AccountsInv'
  <1>1. CASE AC!Refused(c)
    BY <1>1, RefusedStep
  <1>2. CASE UNCHANGED <<acAccount, acRules, acAccess, acRenewal, AC!secretVars, acDeleting, acOps, acOverlapped, acDeactivated>>
    <2>1. acAccess' \cup acRenewal' \subseteq Names \X (1..MaxKeys)
      BY <1>2 DEF AccountsInv, AC!TypeOK
    <2> QED
      BY <1>2, <2>1, TokensOnly
  <1>3. CASE /\ AC!UpdateUser(n, off)
             /\ acDeactivated' = (acDeactivated \/ off)
             /\ UNCHANGED <<acRules, acAccess, acRenewal, AC!secretVars, acDeleting, acOverlapped>>
    <2>1. AC!TypeOK'
      BY <1>3 DEF AccountsInv, AC!TypeOK, AC!secretVars, AC!UpdateUser
    <2>2. ASSUME ~acOverlapped', ~acDeactivated' PROVE \E m \in Names \ acDeleting' : IsAdmin(m)'
      <3>1. ~off /\ ~acDeactivated
        BY <1>3, <2>2
      <3>2. acAccount' = acAccount
        BY <1>3, <3>1 DEF AC!UpdateUser
      <3>3. PICK m \in Names \ acDeleting : IsAdmin(m)
        BY <1>3, <2>2, <3>1 DEF AccountsInv
      <3>4. IsAdmin(m)'
        BY <1>3, <3>2, <3>3, AdminStays
      <3> QED
        BY <1>3, <3>3, <3>4
    <2>3. acOverlapped' \in BOOLEAN /\ acDeactivated' \in BOOLEAN
      BY <1>3 DEF AccountsInv
    <2> QED
      BY <1>3, <2>1, <2>2, <2>3 DEF AccountsInv, AC!secretVars
  <1> QED
    BY <1>1, <1>2, <1>3 DEF AC!UpdateUserRoute

\* Steps on accounts and their rules keep the invariant.
LEMMA AccountStepKeeps ==
  ASSUME AccountsInv, AC!AccountStep
  PROVE  AccountsInv'
  <1>1. CASE AC!BootstrapInitialAdmin
    BY <1>1, AccountsAssumption, CreateUserStep DEF AC!BootstrapInitialAdmin, AC!Roles
  <1>2. CASE AC!EnsureSuperadmin
    <2>1. acAccount' \in [Names -> {"none", "active", "inactive"}]
      BY <1>2 DEF AccountsInv, AC!TypeOK, AC!EnsureSuperadmin
    <2>2. \A m \in AC!Active : acAccount'[m] = acAccount[m]
      BY <1>2 DEF AC!EnsureSuperadmin, AC!Active, AccountsInv, AC!TypeOK
    <2>3. acRules \subseteq acRules' /\ acRules' \subseteq Names \X AC!Roles \X AC!Domains
      BY <1>2 DEF AccountsInv, AC!TypeOK, AC!EnsureSuperadmin
    <2> QED
      BY <1>2, <2>1, <2>2, <2>3, GrowingStep DEF AC!EnsureSuperadmin
  <1>3. ASSUME NEW n \in Names, AC!Register(n) PROVE AccountsInv'
    BY <1>3, CreateUserStep DEF AC!Register, AC!Roles
  <1>4. ASSUME NEW n \in Names, AC!DeleteUser(n) PROVE AccountsInv'
    BY <1>4, DeleteUserStep
  <1>5. ASSUME NEW c \in Names, NEW n \in Names, AC!CreateAdmin(c, n) PROVE AccountsInv'
    BY <1>5, CreateUserStep, RefusedStep DEF AC!CreateAdmin, AC!Roles
  <1>6. ASSUME NEW c \in Names, NEW n \in Names, AC!DeleteUserRoute(c, n) PROVE AccountsInv'
    BY <1>6, DeleteRouteStep
  <1>7. ASSUME NEW c \in Names, NEW n \in Names, NEW r \in {"user", "admin"}, AC!AssignRole(c, n, r)
        PROVE  AccountsInv'
    <2>1. CASE AC!Refused(c)
      BY <2>1, RefusedStep
    <2>2. CASE ~AC!Refused(c)
      <3>1. acAccount' \in [Names -> {"none", "active", "inactive"}]
        BY <1>7, <2>2 DEF AccountsInv, AC!TypeOK, AC!AssignRole
      <3>2. acRules \subseteq acRules' /\ acRules' \subseteq Names \X AC!Roles \X AC!Domains
        BY <1>7, <2>2 DEF AccountsInv, AC!TypeOK, AC!AssignRole, AC!AssignUserRole, AC!Roles, AC!Domains
      <3> QED
        BY <1>7, <2>2, <3>1, <3>2, GrowingStep DEF AC!AssignRole
    <2> QED
      BY <2>1, <2>2
  <1>8. ASSUME NEW c \in Names, NEW n \in Names, NEW off \in BOOLEAN, NEW taken \in BOOLEAN,
               AC!UpdateUserRoute(c, n, off, taken)
        PROVE  AccountsInv'
    BY <1>8, UpdateUserStep
  <1>9. ASSUME NEW c \in Names, AC!ListUsers(c) PROVE AccountsInv'
    <2>1. acAccess' \cup acRenewal' \subseteq Names \X (1..MaxKeys)
      BY <1>9 DEF AccountsInv, AC!TypeOK, AC!ListUsers, AC!Refused
    <2> QED
      BY <1>9, <2>1, TokensOnly DEF AC!ListUsers, AC!Refused
  <1> QED
    BY <1>1, <1>2, <1>3, <1>4, <1>5, <1>6, <1>7, <1>8, <1>9 DEF AC!AccountStep

\* Logins, refreshes and expiry keep the invariant.
LEMMA TokenStepKeeps ==
  ASSUME AccountsInv, AC!TokenStep
  PROVE  AccountsInv'
  <1>1. UNCHANGED <<acAccount, acRules, AC!secretVars, acDeleting, acOverlapped, acDeactivated>>
    BY DEF AC!TokenStep, AC!Login, AC!Refresh, AC!Me, AC!Logout, AC!TokensExpire
  <1>2. acAccess \cup acRenewal \subseteq Names \X (1..MaxKeys) /\ acCurrent \in 1..MaxKeys
    BY DEF AccountsInv, AC!TypeOK
  <1>3. acAccess' \cup acRenewal' \subseteq Names \X (1..MaxKeys)
    <2>1. ASSUME NEW n \in Names, NEW ok \in BOOLEAN, AC!Login(n, ok)
          PROVE  acAccess' \cup acRenewal' \subseteq Names \X (1..MaxKeys)
      BY <1>2, <2>1 DEF AC!Login
    <2>2. ASSUME NEW n \in Names, AC!Refresh(n)
          PROVE  acAccess' \cup acRenewal' \subseteq Names \X (1..MaxKeys)
      BY <1>2, <2>2 DEF AC!Refresh
    <2>3. ASSUME NEW t \in acAccess \cup acRenewal, AC!TokensExpire(t)
          PROVE  acAccess' \cup acRenewal' \subseteq Names \X (1..MaxKeys)
      BY <1>2, <2>3 DEF AC!TokensExpire
    <2> QED
      BY <1>2, <2>1, <2>2, <2>3 DEF AC!TokenStep, AC!Me, AC!Logout
  <1> QED
    BY <1>1, <1>3, TokensOnly

\* So do rotations of the secret, which end the deletions under way, and requests.
LEMMA RequestStepKeeps ==
  ASSUME AccountsInv, AC!RotationStep \/ AC!RequestStep
  PROVE  AccountsInv'
  <1>1. CASE AC!RotationStep
    <2>1. AC!TypeOK' /\ acCurrent' \in 1..MaxKeys
      BY <1>1, AccountsAssumption DEF AC!RotationStep, AC!RotateSecret, AccountsInv, AC!TypeOK
    <2>2. \A n : IsAdmin(n)' <=> IsAdmin(n)
      BY <1>1 DEF AC!RotationStep, AC!RotateSecret, IsAdmin, AC!Active, AC!RolesInDomain
    <2>3. acDeleting' = {} /\ UNCHANGED <<acOverlapped, acDeactivated>>
      BY <1>1 DEF AC!RotationStep, AC!RotateSecret
    <2> QED
      BY <2>1, <2>2, <2>3 DEF AccountsInv
  <1>2. CASE AC!RequestStep
    <2>1. UNCHANGED <<acAccount, acRules, acAccess, acRenewal, AC!secretVars, acDeleting, acOverlapped, acDeactivated>>
      <3>1. CASE \E n \in Names, bearer \in BOOLEAN : AC!TenantMiddleware(n, bearer, "demo")
        BY <3>1 DEF AC!TenantMiddleware
      <3>2. CASE \E header \in {"bearer", "none"}, secret \in AC!InternalSecrets \cup {"other"},
                   ttl \in {-1, 0, 900}, issuerOk \in BOOLEAN, mtls \in AC!MtlsAnswers :
                   AC!InternalCall(header, secret, ttl, 299, issuerOk, mtls)
        BY <3>2 DEF AC!InternalCall
      <3> QED
        BY <1>2, <3>1, <3>2 DEF AC!RequestStep
    <2>2. acAccess' \cup acRenewal' \subseteq Names \X (1..MaxKeys)
      BY <2>1 DEF AccountsInv, AC!TypeOK
    <2> QED
      BY <2>1, <2>2, TokensOnly
  <1> QED
    BY <1>1, <1>2

\* Every step keeps the invariant.
LEMMA AccountsNext ==
  ASSUME AccountsInv, [AC!Next]_(AC!vars)
  PROVE  AccountsInv'
  <1>1. CASE UNCHANGED AC!vars
    <2>1. acAccess' \cup acRenewal' \subseteq Names \X (1..MaxKeys)
      BY <1>1 DEF AccountsInv, AC!TypeOK, AC!vars
    <2> QED
      BY <1>1, <2>1, TokensOnly DEF AC!vars
  <1> QED
    BY <1>1, AccountStepKeeps, TokenStepKeeps, RequestStepKeeps DEF AC!Next

\* The invariant is what is promised.
LEMMA AccountsImply == AccountsInv => AC!TypeOK /\ AC!AdminRemains
  BY DEF AccountsInv, AC!AdminRemains, IsAdmin

\* For any accounts and any number of administrators, an
\* active administrator remains, unless two deletions overlapped or an account
\* was deactivated by PATCH (delete_user_route).
THEOREM AdminsRemain == AC!Spec => []AC!AdminRemains
  <1>1. AC!Spec => []AccountsInv
    BY AccountsInit, AccountsNext, PTL DEF AC!Spec
  <1> QED
    BY <1>1, AccountsImply, PTL

-----------------------------------------------------------------------------
(* Agent runs: the calls under way and what they have done.                 *)

Busy(v) == agReview[v].pc # "idle"

\* Where a run is before its review, and from then on.
EarlyNodes == {"classify_severity", "retrieve_similar_incidents", "draft_analysis",
               "human_review"}
LateNodes == {"human_review", "notify", "end"}

\* A run whose event was handed over and tried on every channel it goes to.
Done(r) == agDispatches[r] > 0 /\ agAttempted[r].sent \cup agAttempted[r].failed = AG!Targets

\* A call of the resume endpoint has its place in the graph; its run is past the
\* part of the task, and has been dispatched if the call says so.
CallOk(v) ==
  LET call == agReview[v] IN
  /\ call.pc = "idle" => call = AG!Idle
  /\ call.pc = "checked" => call.next = "end" /\ call.decision = "none"
  /\ Busy(v) => /\ agStatus[call.run] \notin {"absent", "pending", "running"}
                /\ agThread[call.run].next \in LateNodes
  /\ call.pc \in {"invoking", "failing"} =>
       call.next \in {"human_review", "notify", "written", "end"}
  /\ call.decision = "approve" /\ call.next \in {"written", "end"} => Done(call.run)

\* A run whose task still works on it is before its review; one that finished as
\* approved was dispatched.
RunOk(r) ==
  /\ agAttempted[r].sent \subseteq AG!Targets /\ agAttempted[r].failed \subseteq AG!Targets
  /\ agTask[r] # "none" => agStatus[r] \in {"pending", "running"}
  /\ agTask[r] # "none" \/ agStatus[r] = "absent" => agThread[r].next \in EarlyNodes
  /\ agStatus[r] \in {"pending", "running"} /\ agTask[r] = "none" => agCauses[r] # {}
  /\ agStatus[r] = "awaiting_review" => agThread[r].next \in LateNodes
  /\ agThread[r].next = "end" /\ agThread[r].decision = "approve" => Done(r)
  /\ agStatus[r] = "approved" => Done(r)

\* Two calls for one run are recorded as an overlap.
OverlapsRecorded ==
  \A v, w \in RunReviewers :
    v # w /\ Busy(v) /\ Busy(w) /\ agReview[v].run = agReview[w].run => agReview[v].run \in agRaced

\* The only call for a run knows what its thread says, and the row awaits it.
LoneCall(v) ==
  LET call == agReview[v]
      saved == agThread[call.run]
  IN Busy(v) /\ call.run \notin agRaced =>
       /\ agStatus[call.run] = "awaiting_review"
       /\ call.pc # "checked" =>
            IF call.next = "human_review" THEN saved.next = "human_review"
            ELSE /\ saved.decision = call.decision
                 /\ saved.next = IF call.next = "end" THEN "end" ELSE "notify"

\* Without overlap the thread of a run that was dispatched says so.
LoneRun(r) ==
  r \notin agRaced =>
    /\ agDispatches[r] > 0 => /\ agThread[r].decision = "approve"
                              /\ agThread[r].next \in {"notify", "end"}
    /\ agStatus[r] = "rejected" => agDispatches[r] = 0

\* Without overlap and fault it is dispatched once: a thread that has not recorded
\* the dispatch is in the hands of the call that made it.
DispatchedOnce(r) ==
  r \notin agRaced /\ agFaults = 0 =>
    /\ agDispatches[r] <= 1
    /\ agDispatches[r] > 0 /\ agThread[r].next = "notify" /\ agStatus[r] = "awaiting_review" =>
         \E v \in RunReviewers : Busy(v) /\ agReview[v].run = r /\ agReview[v].next = "written"

AgentsInv ==
  /\ AG!TypeOK
  /\ \A v \in RunReviewers : CallOk(v)
  /\ \A r \in Runs : RunOk(r)
  /\ OverlapsRecorded
  /\ \A v \in RunReviewers : LoneCall(v)
  /\ \A r \in Runs : LoneRun(r)
  /\ \A r \in Runs : DispatchedOnce(r)

\* Nothing has been started.
LEMMA AgentsInit == AG!Init => AgentsInv
  <1> SUFFICES ASSUME AG!Init PROVE AgentsInv
    OBVIOUS
  <1>1. AG!Idle.run \in Runs
    BY AgentsAssumption DEF AG!Idle
  <1>2. AG!TypeOK
    BY <1>1, AgentsAssumption DEF AG!Init, AG!TypeOK, AG!Statuses, AG!Start, AG!Nodes, AG!Decisions, AG!Idle, AG!Causes
  <1>3. \A v \in RunReviewers : ~Busy(v)
    BY DEF AG!Init, Busy, AG!Idle
  <1>4. \A v \in RunReviewers : CallOk(v) /\ LoneCall(v)
    BY <1>1, <1>3 DEF AG!Init, CallOk, LoneCall, Busy, AG!Idle
  <1>5. \A r \in Runs : RunOk(r) /\ LoneRun(r) /\ DispatchedOnce(r)
    BY DEF AG!Init, RunOk, LoneRun, DispatchedOnce, AG!Start, EarlyNodes
  <1> QED
    BY <1>2, <1>3, <1>4, <1>5 DEF AgentsInv, OverlapsRecorded


\* The records of calls.
Calls == [pc : {"idle", "checked", "invoking", "failing"}, run : Runs, wish : AG!Decisions,
          next : AG!Nodes \cup {"written"}, decision : AG!Decisions]

\* A call that is not under way satisfies everything.
LEMMA IdleOk ==
  ASSUME NEW v \in RunReviewers, agReview'[v] = AG!Idle
  PROVE  CallOk(v)' /\ LoneCall(v)' /\ ~Busy(v)'
  BY DEF CallOk, LoneCall, Busy, AG!Idle

\* A step of the task of a run, whom no call serves, is seen by that run alone.
LEMMA TaskFrame ==
  ASSUME AgentsInv, agEnabled' = agEnabled, AG!Targets' = AG!Targets,
         AG!TypeOK', NEW r \in Runs,
         agStatus[r] = "absent" \/ agTask[r] # "none",
         \A s \in Runs \ {r} : /\ agStatus'[s] = agStatus[s] /\ agThread'[s] = agThread[s]
                               /\ agTask'[s] = agTask[s] /\ agCauses'[s] = agCauses[s],
         UNCHANGED <<agReview, agDispatches, agAttempted, agRaced>>,
         agFaults' = agFaults \/ agFaults' > 0,
         RunOk(r)'
  PROVE  AgentsInv'
  <1>0. /\ AG!TypeOK /\ \A u \in RunReviewers : CallOk(u) /\ LoneCall(u)
        /\ \A s \in Runs : RunOk(s) /\ LoneRun(s) /\ DispatchedOnce(s)
    BY DEF AgentsInv
  <1>1. \A u \in RunReviewers : Busy(u) => agReview[u].run # r
    BY <1>0 DEF CallOk, RunOk, AG!TypeOK
  <1>2. ASSUME NEW u \in RunReviewers PROVE CallOk(u)' /\ LoneCall(u)'
    <2>1. agReview'[u] = agReview[u] /\ agReview[u].run \in Runs /\ agReview[u].pc \in {"idle", "checked", "invoking", "failing"}
      BY <1>0 DEF AG!TypeOK
    <2>2. CASE Busy(u)
      <3>1. agReview[u].run # r
        BY <1>1, <2>2
      <3>2. CallOk(u) /\ LoneCall(u)
        BY <1>0
      <3> QED
        BY <2>1, <3>1, <3>2 DEF CallOk, LoneCall, Busy, Done
    <2>3. CASE ~Busy(u)
      BY <1>0, <2>1, <2>3, IdleOk DEF CallOk, Busy
    <2> QED
      BY <2>2, <2>3
  <1>3. ASSUME NEW s \in Runs PROVE RunOk(s)' /\ LoneRun(s)' /\ DispatchedOnce(s)'
    <2>1. CASE s # r
      <3>1. RunOk(s)'
        BY <1>0, <2>1 DEF RunOk, Done
      <3>2. LoneRun(s)'
        BY <1>0, <2>1 DEF LoneRun
      <3>3. DispatchedOnce(s)'
        BY <1>0, <2>1 DEF DispatchedOnce, AG!TypeOK, Busy
      <3> QED
        BY <3>1, <3>2, <3>3
    <2>2. CASE s = r
      <3>1. r \notin agRaced => agDispatches[r] = 0
        <4>1. r \notin agRaced /\ agDispatches[r] > 0 => agThread[r].next \in {"notify", "end"}
          BY <1>0 DEF LoneRun
        <4>2. agDispatches[r] \in Nat
          BY <1>0 DEF AG!TypeOK
        <4>3. agThread[r].next \in EarlyNodes
          BY <1>0 DEF RunOk
        <4> QED
          BY <4>1, <4>2, <4>3 DEF EarlyNodes
      <3> QED
        BY <2>2, <3>1 DEF LoneRun, DispatchedOnce
    <2> QED
      BY <2>1, <2>2
  <1>4. OverlapsRecorded'
    BY DEF AgentsInv, OverlapsRecorded, Busy
  <1> QED
    BY <1>2, <1>3, <1>4 DEF AgentsInv


\* A step of a call is seen by its run, and by other calls for that run, which
\* overlap with it.
LEMMA CallFrame ==
  ASSUME AgentsInv, agEnabled' = agEnabled, AG!Targets' = AG!Targets,
         AG!TypeOK', NEW v \in RunReviewers, Busy(v), NEW r \in Runs, agReview[v].run = r,
         \A u \in RunReviewers \ {v} : agReview'[u] = agReview[u],
         agReview'[v] = AG!Idle \/ agReview'[v].run = r,
         \A s \in Runs \ {r} : /\ agStatus'[s] = agStatus[s] /\ agThread'[s] = agThread[s]
                               /\ agDispatches'[s] = agDispatches[s]
                               /\ agAttempted'[s] = agAttempted[s],
         UNCHANGED <<agTask, agCauses, agRaced>>,
         agFaults' = agFaults \/ agFaults' > 0,
         agStatus'[r] \notin {"absent", "pending", "running"},
         agThread'[r].next \in LateNodes,
         Done(r) => Done(r)',
         CallOk(v)', LoneCall(v)', RunOk(r)', LoneRun(r)', DispatchedOnce(r)'
  PROVE  AgentsInv'
  <1>0. /\ AG!TypeOK /\ \A u \in RunReviewers : CallOk(u) /\ LoneCall(u)
        /\ \A s \in Runs : RunOk(s) /\ LoneRun(s) /\ DispatchedOnce(s)
        /\ OverlapsRecorded
    BY DEF AgentsInv
  <1>1. ASSUME NEW u \in RunReviewers \ {v} PROVE CallOk(u)' /\ LoneCall(u)'
    <2>1. agReview'[u] = agReview[u] /\ agReview[u].run \in Runs
          /\ agReview[u].pc \in {"idle", "checked", "invoking", "failing"}
      BY <1>0 DEF AG!TypeOK
    <2>2. CallOk(u) /\ LoneCall(u)
      BY <1>0
    <2>3. CASE ~Busy(u)
      BY <2>1, <2>2, <2>3, IdleOk DEF CallOk, Busy
    <2>4. CASE Busy(u) /\ agReview[u].run # r
      BY <2>1, <2>2, <2>4 DEF CallOk, LoneCall, Busy, Done
    <2>5. CASE Busy(u) /\ agReview[u].run = r
      <3>1. r \in agRaced
        BY <1>0, <2>5 DEF OverlapsRecorded
      <3>2. LoneCall(u)'
        BY <2>1, <2>5, <3>1 DEF LoneCall
      <3>3. CallOk(u)'
        BY <2>1, <2>2, <2>5 DEF CallOk, Busy
      <3> QED
        BY <3>2, <3>3
    <2> QED
      BY <2>3, <2>4, <2>5
  <1>2. ASSUME NEW s \in Runs \ {r} PROVE RunOk(s)' /\ LoneRun(s)' /\ DispatchedOnce(s)'
    <2>1. RunOk(s)'
      BY <1>0 DEF RunOk, Done
    <2>2. LoneRun(s)'
      BY <1>0 DEF LoneRun
    <2>3. DispatchedOnce(s)'
      <3>1. s \notin agRaced /\ agFaults' = 0 => agFaults = 0
        BY <1>0 DEF AG!TypeOK
      <3>2. ASSUME NEW u \in RunReviewers, Busy(u), agReview[u].run = s, agReview[u].next = "written"
            PROVE  Busy(u)' /\ agReview'[u].run = s /\ agReview'[u].next = "written"
        BY <3>2 DEF Busy
      <3> QED
        BY <1>0, <3>1, <3>2 DEF DispatchedOnce
    <2> QED
      BY <2>1, <2>2, <2>3
  <1>3. OverlapsRecorded'
    <2>1. \A u \in RunReviewers : Busy(u)' => Busy(u) /\ agReview'[u].run = agReview[u].run
      BY <1>0, IdleOk DEF Busy
    <2> QED
      BY <1>0, <2>1 DEF OverlapsRecorded
  <1> QED
    BY <1>1, <1>2, <1>3 DEF AgentsInv

\* The row and its task.
LEMMA CreateRunKeeps ==
  ASSUME AgentsInv, agEnabled' = agEnabled, AG!Targets' = AG!Targets,
         NEW r \in Runs, AG!CreateRun(r)
  PROVE  AgentsInv'
  <1> USE DEF AG!CreateRun
  <1>0. AG!TypeOK /\ RunOk(r) /\ agGraph \in BOOLEAN
    BY DEF AgentsInv, AG!TypeOK
  <1>1. agStatus' \in [Runs -> AG!Statuses]
    BY <1>0 DEF AG!TypeOK, AG!Statuses
  <1>2. agTask' \in [Runs -> {"none", "committed", "scheduled", "building", "marking",
                       "invoking", "failing"}]
    BY <1>0 DEF AG!TypeOK
  <1>3. AG!TypeOK'
    BY <1>0, <1>1, <1>2 DEF AG!TypeOK
  <1>4. RunOk(r)'
    BY <1>0 DEF AG!TypeOK, RunOk, Done, EarlyNodes, LateNodes
  <1>5. \A s \in Runs \ {r} : /\ agStatus'[s] = agStatus[s] /\ agThread'[s] = agThread[s]
                              /\ agTask'[s] = agTask[s] /\ agCauses'[s] = agCauses[s]
    BY <1>0 DEF AG!TypeOK
  <1>6. agFaults' = agFaults \/ agFaults' > 0
    BY <1>0 DEF AG!TypeOK
  <1> QED
    BY <1>0, <1>3, <1>4, <1>5, <1>6, TaskFrame

\* The task is scheduled.
LEMMA TriggerAgentRunKeeps ==
  ASSUME AgentsInv, agEnabled' = agEnabled, AG!Targets' = AG!Targets,
         NEW r \in Runs, AG!TriggerAgentRun(r)
  PROVE  AgentsInv'
  <1> USE DEF AG!TriggerAgentRun
  <1>0. AG!TypeOK /\ RunOk(r) /\ agGraph \in BOOLEAN
    BY DEF AgentsInv, AG!TypeOK
  <1>1. agTask' \in [Runs -> {"none", "committed", "scheduled", "building", "marking",
                       "invoking", "failing"}]
    BY <1>0 DEF AG!TypeOK
  <1>2. AG!TypeOK'
    BY <1>0, <1>1 DEF AG!TypeOK
  <1>3. RunOk(r)'
    BY <1>0 DEF AG!TypeOK, RunOk, Done, EarlyNodes, LateNodes
  <1>4. \A s \in Runs \ {r} : /\ agStatus'[s] = agStatus[s] /\ agThread'[s] = agThread[s]
                              /\ agTask'[s] = agTask[s] /\ agCauses'[s] = agCauses[s]
    BY <1>0 DEF AG!TypeOK
  <1>5. agFaults' = agFaults \/ agFaults' > 0
    BY <1>0 DEF AG!TypeOK
  <1> QED
    BY <1>0, <1>2, <1>3, <1>4, <1>5, TaskFrame

\* A disabled agent is a cause.
LEMMA RunAgentForObservationKeeps ==
  ASSUME AgentsInv, agEnabled' = agEnabled, AG!Targets' = AG!Targets,
         NEW r \in Runs, AG!RunAgentForObservation(r)
  PROVE  AgentsInv'
  <1> USE DEF AG!RunAgentForObservation, AG!Skip
  <1>0. AG!TypeOK /\ RunOk(r) /\ agGraph \in BOOLEAN
    BY DEF AgentsInv, AG!TypeOK
  <1>1. agTask' \in [Runs -> {"none", "committed", "scheduled", "building", "marking",
                       "invoking", "failing"}]
    BY <1>0 DEF AG!TypeOK
  <1>2. agCauses' \in [Runs -> SUBSET AG!Causes]
    BY <1>0 DEF AG!TypeOK, AG!Causes
  <1>3. AG!TypeOK'
    BY <1>0, <1>1, <1>2 DEF AG!TypeOK
  <1>4. RunOk(r)'
    <2>1. /\ agThread'[r] = agThread[r] /\ agStatus'[r] = agStatus[r] /\ agAttempted'[r] = agAttempted[r]
          /\ agDispatches'[r] = agDispatches[r]
      BY <1>0
    <2>2. agTask[r] # "none" /\ (agTask'[r] = "none" => agCauses'[r] # {})
      <3>1. agTask[r] # "none" /\ r \in DOMAIN agTask /\ r \in DOMAIN agCauses
        BY <1>0 DEF AG!TypeOK
      <3>2. agTask'[r] # "none" \/ agCauses' = [agCauses EXCEPT ![r] = @ \cup {"disabled"}]
        BY <3>1
      <3>3. ASSUME agCauses' = [agCauses EXCEPT ![r] = @ \cup {"disabled"}] PROVE agCauses'[r] # {}
        <4>1. agCauses'[r] = agCauses[r] \cup {"disabled"}
          BY <3>1, <3>3
        <4> QED
          BY <4>1
      <3> QED
        BY <3>1, <3>2, <3>3
    <2> QED
      BY <1>0, <2>1, <2>2 DEF RunOk, Done
  <1>5. \A s \in Runs \ {r} : /\ agStatus'[s] = agStatus[s] /\ agThread'[s] = agThread[s]
                              /\ agTask'[s] = agTask[s] /\ agCauses'[s] = agCauses[s]
    BY <1>0 DEF AG!TypeOK
  <1>6. agFaults' = agFaults \/ agFaults' > 0
    BY <1>0 DEF AG!TypeOK
  <1> QED
    BY <1>0, <1>3, <1>4, <1>5, <1>6, TaskFrame

\* A missing observation is a cause.
LEMMA BuildInitialStateKeeps ==
  ASSUME AgentsInv, agEnabled' = agEnabled, AG!Targets' = AG!Targets,
         NEW r \in Runs, AG!BuildInitialState(r)
  PROVE  AgentsInv'
  <1> USE DEF AG!BuildInitialState, AG!Skip
  <1>0. AG!TypeOK /\ RunOk(r) /\ agGraph \in BOOLEAN
    BY DEF AgentsInv, AG!TypeOK
  <1>1. agTask' \in [Runs -> {"none", "committed", "scheduled", "building", "marking",
                       "invoking", "failing"}]
    BY <1>0 DEF AG!TypeOK
  <1>2. agCauses' \in [Runs -> SUBSET AG!Causes]
    BY <1>0 DEF AG!TypeOK, AG!Causes
  <1>3. AG!TypeOK'
    BY <1>0, <1>1, <1>2 DEF AG!TypeOK
  <1>4. RunOk(r)'
    <2>1. /\ agThread'[r] = agThread[r] /\ agStatus'[r] = agStatus[r] /\ agAttempted'[r] = agAttempted[r]
          /\ agDispatches'[r] = agDispatches[r]
      BY <1>0
    <2>2. agTask[r] # "none" /\ (agTask'[r] = "none" => agCauses'[r] # {})
      <3>1. agTask[r] # "none" /\ r \in DOMAIN agTask /\ r \in DOMAIN agCauses
        BY <1>0 DEF AG!TypeOK
      <3>2. agTask'[r] # "none" \/ agCauses' = [agCauses EXCEPT ![r] = @ \cup {"missing"}]
        BY <3>1
      <3>3. ASSUME agCauses' = [agCauses EXCEPT ![r] = @ \cup {"missing"}] PROVE agCauses'[r] # {}
        <4>1. agCauses'[r] = agCauses[r] \cup {"missing"}
          BY <3>1, <3>3
        <4> QED
          BY <4>1
      <3> QED
        BY <3>1, <3>2, <3>3
    <2> QED
      BY <1>0, <2>1, <2>2 DEF RunOk, Done
  <1>5. \A s \in Runs \ {r} : /\ agStatus'[s] = agStatus[s] /\ agThread'[s] = agThread[s]
                              /\ agTask'[s] = agTask[s] /\ agCauses'[s] = agCauses[s]
    BY <1>0 DEF AG!TypeOK
  <1>6. agFaults' = agFaults \/ agFaults' > 0
    BY <1>0 DEF AG!TypeOK
  <1> QED
    BY <1>0, <1>3, <1>4, <1>5, <1>6, TaskFrame

\* The row is marked, or the failure handler has its turn.
LEMMA MarkRunningKeeps ==
  ASSUME AgentsInv, agEnabled' = agEnabled, AG!Targets' = AG!Targets,
         NEW r \in Runs, AG!MarkRunning(r)
  PROVE  AgentsInv'
  <1> USE DEF AG!MarkRunning, AG!RunFails, AG!DatabaseError
  <1>0. AG!TypeOK /\ RunOk(r) /\ agGraph \in BOOLEAN
    BY DEF AgentsInv, AG!TypeOK
  <1>1. agStatus' \in [Runs -> AG!Statuses]
    BY <1>0 DEF AG!TypeOK, AG!Statuses
  <1>2. agTask' \in [Runs -> {"none", "committed", "scheduled", "building", "marking",
                       "invoking", "failing"}]
    BY <1>0 DEF AG!TypeOK
  <1>3. agFaults' \in 0..MaxAgentFaults
    BY <1>0, AgentsAssumption DEF AG!TypeOK
  <1>4. AG!TypeOK'
    BY <1>0, <1>1, <1>2, <1>3 DEF AG!TypeOK
  <1>5. RunOk(r)'
    BY <1>0 DEF AG!TypeOK, RunOk, Done, EarlyNodes, LateNodes
  <1>6. \A s \in Runs \ {r} : /\ agStatus'[s] = agStatus[s] /\ agThread'[s] = agThread[s]
                              /\ agTask'[s] = agTask[s] /\ agCauses'[s] = agCauses[s]
    BY <1>0 DEF AG!TypeOK
  <1>7. agFaults' = agFaults \/ agFaults' > 0
    BY <1>0 DEF AG!TypeOK
  <1> QED
    BY <1>0, <1>4, <1>5, <1>6, <1>7, TaskFrame

\* A node before the review.
LEMMA InvokeNodeKeeps ==
  ASSUME AgentsInv, agEnabled' = agEnabled, AG!Targets' = AG!Targets,
         NEW r \in Runs, AG!InvokeNode(r)
  PROVE  AgentsInv'
  <1> USE DEF AG!InvokeNode, AG!RunFails, AG!build_graph
  <1>0. AG!TypeOK /\ RunOk(r) /\ agGraph \in BOOLEAN
    BY DEF AgentsInv, AG!TypeOK
  <1>1. agThread' \in [Runs -> [next : AG!Nodes, decision : AG!Decisions]]
    <2>1. agThread[r].next \in EarlyNodes \ {"human_review"}
      BY <1>0 DEF RunOk
    <2>2. AG!build_graph[agThread[r].next] \in AG!Nodes
      BY <2>1 DEF EarlyNodes, AG!Nodes
    <2>3. agThread \in [Runs -> [next : AG!Nodes, decision : AG!Decisions]]
      BY <1>0 DEF AG!TypeOK
    <2>4. [agThread[r] EXCEPT !.next = AG!build_graph[agThread[r].next]] \in [next : AG!Nodes, decision : AG!Decisions]
      BY <2>2, <2>3
    <2>5. agThread' = agThread \/ agThread' = [agThread EXCEPT ![r].next = AG!build_graph[agThread[r].next]]
      OBVIOUS
    <2> QED
      BY <2>3, <2>4, <2>5
  <1>2. agTask' \in [Runs -> {"none", "committed", "scheduled", "building", "marking",
                       "invoking", "failing"}]
    BY <1>0 DEF AG!TypeOK
  <1>3. AG!TypeOK'
    BY <1>0, <1>1, <1>2 DEF AG!TypeOK
  <1>4. RunOk(r)'
    BY <1>0 DEF AG!TypeOK, RunOk, Done, EarlyNodes, LateNodes
  <1>5. \A s \in Runs \ {r} : /\ agStatus'[s] = agStatus[s] /\ agThread'[s] = agThread[s]
                              /\ agTask'[s] = agTask[s] /\ agCauses'[s] = agCauses[s]
    BY <1>0 DEF AG!TypeOK
  <1>6. agFaults' = agFaults \/ agFaults' > 0
    BY <1>0 DEF AG!TypeOK
  <1> QED
    BY <1>0, <1>3, <1>4, <1>5, <1>6, TaskFrame

\* The row awaits its review.
LEMMA SyncInterruptedKeeps ==
  ASSUME AgentsInv, agEnabled' = agEnabled, AG!Targets' = AG!Targets,
         NEW r \in Runs, AG!SyncInterrupted(r)
  PROVE  AgentsInv'
  <1> USE DEF AG!SyncInterrupted, AG!RunFails, AG!DatabaseError
  <1>0. AG!TypeOK /\ RunOk(r) /\ agGraph \in BOOLEAN
    BY DEF AgentsInv, AG!TypeOK
  <1>1. agStatus' \in [Runs -> AG!Statuses]
    BY <1>0 DEF AG!TypeOK, AG!Statuses
  <1>2. agTask' \in [Runs -> {"none", "committed", "scheduled", "building", "marking",
                       "invoking", "failing"}]
    BY <1>0 DEF AG!TypeOK
  <1>3. agFaults' \in 0..MaxAgentFaults
    BY <1>0, AgentsAssumption DEF AG!TypeOK
  <1>4. AG!TypeOK'
    BY <1>0, <1>1, <1>2, <1>3 DEF AG!TypeOK
  <1>5. RunOk(r)'
    BY <1>0 DEF AG!TypeOK, RunOk, Done, EarlyNodes, LateNodes
  <1>6. \A s \in Runs \ {r} : /\ agStatus'[s] = agStatus[s] /\ agThread'[s] = agThread[s]
                              /\ agTask'[s] = agTask[s] /\ agCauses'[s] = agCauses[s]
    BY <1>0 DEF AG!TypeOK
  <1>7. agFaults' = agFaults \/ agFaults' > 0
    BY <1>0 DEF AG!TypeOK
  <1> QED
    BY <1>0, <1>4, <1>5, <1>6, <1>7, TaskFrame

\* The failure is recorded, or has a cause.
LEMMA RecordFailureKeeps ==
  ASSUME AgentsInv, agEnabled' = agEnabled, AG!Targets' = AG!Targets,
         NEW r \in Runs, AG!RecordFailure(r)
  PROVE  AgentsInv'
  <1> USE DEF AG!RecordFailure, AG!DatabaseError
  <1>0. AG!TypeOK /\ RunOk(r) /\ agGraph \in BOOLEAN
    BY DEF AgentsInv, AG!TypeOK
  <1>1. agStatus' \in [Runs -> AG!Statuses]
    BY <1>0 DEF AG!TypeOK, AG!Statuses
  <1>2. agTask' \in [Runs -> {"none", "committed", "scheduled", "building", "marking",
                       "invoking", "failing"}]
    BY <1>0 DEF AG!TypeOK
  <1>3. agCauses' \in [Runs -> SUBSET AG!Causes]
    BY <1>0 DEF AG!TypeOK, AG!Causes
  <1>4. agFaults' \in 0..MaxAgentFaults
    BY <1>0, AgentsAssumption DEF AG!TypeOK
  <1>5. AG!TypeOK'
    BY <1>0, <1>1, <1>2, <1>3, <1>4 DEF AG!TypeOK
  <1>6. RunOk(r)'
    <2>1. /\ agTask[r] = "failing" /\ agTask'[r] = "none"
          /\ UNCHANGED <<agThread, agAttempted, agDispatches>>
      BY <1>0 DEF AG!TypeOK
    <2>2. /\ agStatus[r] \in {"pending", "running"} /\ agThread[r].next \in EarlyNodes
          /\ agAttempted[r].sent \subseteq AG!Targets /\ agAttempted[r].failed \subseteq AG!Targets
          /\ agThread[r].next = "end" /\ agThread[r].decision = "approve" => Done(r)
      BY <1>0, <2>1 DEF RunOk
    <2>3. Done(r)' <=> Done(r)
      BY <2>1 DEF Done
    <2>4. CASE agStatus' = [agStatus EXCEPT ![r] = "failed"]
      <3>1. agStatus'[r] = "failed"
        BY <1>0, <2>4 DEF AG!TypeOK
      <3> QED
        BY <2>1, <2>2, <2>3, <3>1 DEF RunOk
    <2>5. CASE agCauses' = [agCauses EXCEPT ![r] = @ \cup {"database"}] /\ agStatus' = agStatus
      <3>1. agCauses'[r] # {}
        BY <1>0, <2>5 DEF AG!TypeOK
      <3> QED
        BY <2>1, <2>2, <2>3, <2>5, <3>1 DEF RunOk
    <2> QED
      BY <2>4, <2>5
  <1>7. \A s \in Runs \ {r} : /\ agStatus'[s] = agStatus[s] /\ agThread'[s] = agThread[s]
                              /\ agTask'[s] = agTask[s] /\ agCauses'[s] = agCauses[s]
    BY <1>0 DEF AG!TypeOK
  <1>8. agFaults' = agFaults \/ agFaults' > 0
    BY <1>0 DEF AG!TypeOK
  <1> QED
    BY <1>0, <1>5, <1>6, <1>7, <1>8, TaskFrame


\* The graph alone changes when the pool is opened or closed.
LEMMA GraphOnly ==
  ASSUME AgentsInv, agEnabled' = agEnabled, AG!Targets' = AG!Targets,
         agGraph' \in BOOLEAN,
         UNCHANGED <<agStatus, agThread, agTask, agReview, agDispatches, agAttempted, agCauses, agRaced, agFaults>>
  PROVE  AgentsInv'
  <1>1. AG!TypeOK'
    BY DEF AgentsInv, AG!TypeOK
  <1>2. \A v \in RunReviewers : CallOk(v)' /\ LoneCall(v)'
    BY DEF AgentsInv, CallOk, LoneCall, Busy, Done
  <1>3. \A r \in Runs : RunOk(r)' /\ LoneRun(r)' /\ DispatchedOnce(r)'
    BY DEF AgentsInv, RunOk, LoneRun, DispatchedOnce, Done, Busy
  <1>4. OverlapsRecorded'
    BY DEF AgentsInv, OverlapsRecorded, Busy
  <1> QED
    BY <1>1, <1>2, <1>3, <1>4 DEF AgentsInv

\* A crash ends every task and call, leaves a cause and counts as a fault.
LEMMA CrashKeeps ==
  ASSUME AgentsInv, agEnabled' = agEnabled, AG!Targets' = AG!Targets,
         AG!Crash
  PROVE  AgentsInv'
  <1> USE DEF AG!Crash
  <1>0. AG!TypeOK /\ \A r \in Runs : RunOk(r) /\ LoneRun(r)
    BY DEF AgentsInv
  <1>1. AG!Idle.run \in Runs
    BY AgentsAssumption DEF AG!Idle
  <1>2. agReview' \in [RunReviewers -> [pc : {"idle", "checked", "invoking", "failing"},
                                   run : Runs, wish : AG!Decisions,
                                   next : AG!Nodes \cup {"written"}, decision : AG!Decisions]]
    BY <1>1 DEF AG!Idle, AG!Nodes, AG!Decisions
  <1>3. agCauses' \in [Runs -> SUBSET AG!Causes]
    BY <1>0 DEF AG!TypeOK, AG!Causes
  <1>4. agFaults' \in 0..MaxAgentFaults /\ agFaults' > 0
    BY <1>0, AgentsAssumption DEF AG!TypeOK
  <1>5. AG!TypeOK'
    BY <1>0, <1>2, <1>3, <1>4 DEF AG!TypeOK
  <1>6. \A v \in RunReviewers : CallOk(v)' /\ LoneCall(v)' /\ ~Busy(v)'
    BY IdleOk
  <1>7. ASSUME NEW r \in Runs PROVE RunOk(r)'
    <2>1. /\ agStatus'[r] = agStatus[r] /\ agThread'[r] = agThread[r] /\ agDispatches'[r] = agDispatches[r]
          /\ agAttempted'[r] = agAttempted[r] /\ agTask'[r] = "none"
      OBVIOUS
    <2>2. agCauses[r] \subseteq agCauses'[r] /\ (agTask[r] # "none" => "crash" \in agCauses'[r])
      OBVIOUS
    <2> QED
      BY <1>0, <2>1, <2>2 DEF RunOk, Done
  <1>8. \A r \in Runs : LoneRun(r)'
    BY <1>0 DEF LoneRun
  <1>9. \A r \in Runs : DispatchedOnce(r)'
    BY <1>4 DEF DispatchedOnce
  <1>10. OverlapsRecorded'
    BY <1>6 DEF OverlapsRecorded
  <1> QED
    BY <1>5, <1>6, <1>7, <1>8, <1>9, <1>10 DEF AgentsInv

\* A call begins for a row that awaits its review; if there is another call for the
\* run, the overlap is recorded.
LEMMA ResumeReadKeeps ==
  ASSUME AgentsInv, agEnabled' = agEnabled, AG!Targets' = AG!Targets,
         NEW v \in RunReviewers, NEW r \in Runs, NEW wish \in {"approve", "reject"},
         AG!ResumeRead(v, r, wish)
  PROVE  AgentsInv'
  <1>0. /\ AG!TypeOK /\ \A u \in RunReviewers : CallOk(u) /\ LoneCall(u)
        /\ \A s \in Runs : RunOk(s) /\ LoneRun(s) /\ DispatchedOnce(s)
        /\ OverlapsRecorded
    BY DEF AgentsInv
  <1>1. agReview[v] = AG!Idle /\ ~Busy(v) /\ agStatus[r] = "awaiting_review"
    BY DEF AG!ResumeRead, AG!AwaitsReview, Busy, AG!Idle
  <1> DEFINE new == [pc |-> "checked", run |-> r, wish |-> wish, next |-> "end", decision |-> "none"]
  <1>2. /\ agReview' \in [RunReviewers -> [pc : {"idle", "checked", "invoking", "failing"},
                                      run : Runs, wish : AG!Decisions,
                                      next : AG!Nodes \cup {"written"}, decision : AG!Decisions]]
        /\ agReview'[v] = new
        /\ \A u \in RunReviewers \ {v} : agReview'[u] = agReview[u]
    BY <1>0 DEF AG!ResumeRead, AG!TypeOK, AG!Nodes, AG!Decisions
  <1>3. /\ agRaced \subseteq agRaced' /\ agRaced' \subseteq agRaced \cup {r}
        /\ (\E u \in RunReviewers : agReview[u] # AG!Idle /\ agReview[u].run = r) => r \in agRaced'
    BY DEF AG!ResumeRead
  <1>4. UNCHANGED <<agGraph, agStatus, agThread, agTask, agDispatches, agAttempted, agCauses, agFaults>>
    BY DEF AG!ResumeRead
  <1> HIDE DEF new
  <1>5. AG!TypeOK'
    BY <1>0, <1>2, <1>3, <1>4 DEF AG!TypeOK
  <1>6. new.pc = "checked" /\ new.run = r /\ new.next = "end" /\ new.decision = "none"
    BY DEF new
  <1>7. CallOk(v)' /\ LoneCall(v)'
    <2>1. agThread[r].next \in LateNodes
      BY <1>0, <1>1 DEF RunOk
    <2> QED
      BY <1>1, <1>2, <1>4, <1>6, <2>1 DEF CallOk, LoneCall, Busy, LateNodes
  <1>8. ASSUME NEW u \in RunReviewers \ {v} PROVE CallOk(u)' /\ LoneCall(u)'
    BY <1>0, <1>2, <1>3, <1>4 DEF CallOk, LoneCall, Busy, Done
  <1>9. ASSUME NEW s \in Runs PROVE RunOk(s)' /\ LoneRun(s)' /\ DispatchedOnce(s)'
    <2>1. RunOk(s)'
      BY <1>0, <1>4 DEF RunOk, Done
    <2>2. LoneRun(s)'
      BY <1>0, <1>3, <1>4 DEF LoneRun
    <2>3. DispatchedOnce(s)'
      <3>1. ASSUME NEW u \in RunReviewers, Busy(u), agReview[u].run = s, agReview[u].next = "written"
            PROVE  Busy(u)' /\ agReview'[u].run = s /\ agReview'[u].next = "written"
        BY <1>1, <1>2, <3>1 DEF Busy
      <3> QED
        BY <1>0, <1>3, <1>4, <3>1 DEF DispatchedOnce
    <2> QED
      BY <2>1, <2>2, <2>3
  <1>10. OverlapsRecorded'
    <2>1. \A u \in RunReviewers \ {v} : Busy(u)' => Busy(u) /\ agReview[u] # AG!Idle
      BY <1>2 DEF Busy, AG!Idle
    <2>2. ASSUME NEW u \in RunReviewers \ {v}, Busy(u)', agReview'[u].run = r PROVE r \in agRaced'
      BY <1>2, <1>3, <2>1, <2>2
    <2> QED
      BY <1>0, <1>2, <1>3, <1>6, <2>1, <2>2 DEF OverlapsRecorded
  <1> QED
    BY <1>5, <1>7, <1>8, <1>9, <1>10 DEF AgentsInv


\* What is known of a call under way, and of its run.
LEMMA CallFacts ==
  ASSUME AgentsInv, NEW v \in RunReviewers, Busy(v)
  PROVE  /\ AG!TypeOK /\ agReview[v].run \in Runs
         /\ CallOk(v) /\ LoneCall(v)
         /\ RunOk(agReview[v].run) /\ LoneRun(agReview[v].run) /\ DispatchedOnce(agReview[v].run)
  BY DEF AgentsInv, AG!TypeOK

\* The record of no call is one.
LEMMA IdleIsCall == AG!Idle \in Calls
  BY AgentsAssumption DEF AG!Idle, Calls, AG!Nodes, AG!Decisions

\* The call finds what the thread says.
LEMMA ResumeAgentRunKeeps ==
  ASSUME AgentsInv, agEnabled' = agEnabled, AG!Targets' = AG!Targets,
         NEW v \in RunReviewers, AG!ResumeAgentRun(v)
  PROVE  AgentsInv'
  <1>0. Busy(v) /\ agReview[v].pc = "checked"
    BY DEF AG!ResumeAgentRun, Busy
  <1>r. PICK r \in Runs : r = agReview[v].run
    BY <1>0, CallFacts
  <1>1. /\ AG!TypeOK /\ CallOk(v) /\ LoneCall(v)
        /\ RunOk(r) /\ LoneRun(r) /\ DispatchedOnce(r)
    BY <1>0, <1>r, CallFacts
  <1>2. /\ agReview' \in [RunReviewers -> Calls]
        /\ \A u \in RunReviewers \ {v} : agReview'[u] = agReview[u]
    <2>1. agReview \in [RunReviewers -> Calls] /\ agThread \in [Runs -> [next : AG!Nodes, decision : AG!Decisions]]
      BY <1>1 DEF AG!TypeOK, Calls
    <2>2. [agReview[v] EXCEPT !.pc = "invoking", !.next = agThread[r].next,
                          !.decision = agThread[r].decision] \in Calls
      BY <1>r, <2>1, IdleIsCall DEF Calls, AG!Nodes
    <2>3. agReview' = [agReview EXCEPT ![v] = AG!Idle]
          \/ agReview' = [agReview EXCEPT ![v] = [agReview[v] EXCEPT !.pc = "invoking",
                          !.next = agThread[r].next, !.decision = agThread[r].decision]]
      BY <1>r, <2>1 DEF AG!ResumeAgentRun, Calls
    <2> QED
      BY <2>1, <2>2, <2>3, IdleIsCall
  <1>3. /\ agStatus' = agStatus /\ agThread' = agThread /\ agDispatches' = agDispatches
        /\ agAttempted' = agAttempted /\ agGraph' = agGraph
        /\ agReview'[v] = AG!Idle \/ (/\ agReview'[v].pc = "invoking" /\ agReview'[v].run = r
                                      /\ agReview'[v].next = agThread[r].next
                                      /\ agReview'[v].decision = agThread[r].decision)
    BY <1>r, <1>1 DEF AG!ResumeAgentRun, AG!TypeOK, AG!Idle
  <1>4. /\ UNCHANGED <<agTask, agCauses, agRaced>>
        /\ \A s \in Runs \ {r} : /\ agStatus'[s] = agStatus[s] /\ agThread'[s] = agThread[s]
                                 /\ agDispatches'[s] = agDispatches[s]
                                 /\ agAttempted'[s] = agAttempted[s]
    BY <1>r, <1>1 DEF AG!ResumeAgentRun, AG!TypeOK
  <1>5. agFaults' \in 0..MaxAgentFaults /\ (agFaults' = agFaults \/ agFaults' > 0)
    BY <1>1, AgentsAssumption DEF AG!ResumeAgentRun, AG!TypeOK
  <1>6. AG!TypeOK'
    <2>1. agGraph' \in BOOLEAN
      BY <1>1, <1>3 DEF AG!TypeOK
    <2> QED
      BY <1>1, <1>2, <1>3, <1>4, <1>5, <2>1 DEF AG!TypeOK, Calls
  <1>7. agStatus'[r] \notin {"absent", "pending", "running"} /\ agThread'[r].next \in LateNodes
    BY <1>0, <1>r, <1>1, <1>3 DEF CallOk, LateNodes
  <1>8. Done(r) => Done(r)'
    BY <1>1, <1>3 DEF Done, AG!TypeOK
  <1>9. CallOk(v)'
    BY <1>0, <1>r, <1>1, <1>3, <1>7 DEF CallOk, Busy, Done, RunOk, LateNodes, AG!Idle
  <1>10. LoneCall(v)'
    BY <1>0, <1>r, <1>1, <1>3, <1>4 DEF LoneCall, CallOk, Busy, LateNodes, AG!Idle
  <1>11. RunOk(r)'
    BY <1>0, <1>r, <1>1, <1>3, <1>4 DEF RunOk, CallOk, Done, EarlyNodes, LateNodes, Busy
  <1>12. LoneRun(r)'
    BY <1>0, <1>r, <1>1, <1>3, <1>4 DEF LoneRun, LoneCall, Busy, AG!TypeOK
  <1>13. DispatchedOnce(r)'
    <2>1. agReview[v].next # "written"
      BY <1>0, <1>1 DEF CallOk
    <2>2. ASSUME NEW u \in RunReviewers, Busy(u), agReview[u].run = r, agReview[u].next = "written"
          PROVE  Busy(u)' /\ agReview'[u].run = r /\ agReview'[u].next = "written"
      BY <1>2, <2>1, <2>2 DEF Busy
    <2>3. agFaults' = agFaults /\ agRaced' = agRaced
      BY DEF AG!ResumeAgentRun
    <2> QED
      BY <1>1, <1>3, <2>2, <2>3 DEF DispatchedOnce
  <1>14. agReview'[v] = AG!Idle \/ agReview'[v].run = r
    BY <1>3
  <1> QED
    BY <1>0, <1>r, <1>2, <1>4, <1>5, <1>6, <1>7, <1>8, <1>9, <1>10, <1>11, <1>12, <1>13, <1>14,
       CallFrame

\* The decision is written.
LEMMA HumanReviewKeeps ==
  ASSUME AgentsInv, agEnabled' = agEnabled, AG!Targets' = AG!Targets,
         NEW v \in RunReviewers, AG!HumanReview(v)
  PROVE  AgentsInv'
  <1>0. Busy(v) /\ agReview[v].pc = "invoking"
    BY DEF AG!HumanReview, Busy
  <1>r. PICK r \in Runs : r = agReview[v].run
    BY <1>0, CallFacts
  <1>1. /\ AG!TypeOK /\ CallOk(v) /\ LoneCall(v)
        /\ RunOk(r) /\ LoneRun(r) /\ DispatchedOnce(r)
    BY <1>0, <1>r, CallFacts
  <1>2. /\ agReview' \in [RunReviewers -> Calls]
        /\ \A u \in RunReviewers \ {v} : agReview'[u] = agReview[u]
    <2>1. agReview \in [RunReviewers -> Calls] /\ agThread \in [Runs -> [next : AG!Nodes, decision : AG!Decisions]]
      BY <1>1 DEF AG!TypeOK, Calls
    <2>2. [agReview[v] EXCEPT !.next = "notify", !.decision = agReview[v].wish] \in Calls
      BY <1>r, <2>1, IdleIsCall DEF Calls, AG!Nodes
    <2>3. agReview' = [agReview EXCEPT ![v] = [agReview[v] EXCEPT !.next = "notify", !.decision = agReview[v].wish]]
      BY <1>r, <2>1 DEF AG!HumanReview, AG!build_graph, Calls
    <2> QED
      BY <2>1, <2>2, <2>3
  <1>3. /\ agStatus' = agStatus /\ agDispatches' = agDispatches /\ agAttempted' = agAttempted /\ agGraph' = agGraph
        /\ agReview[v].next = "human_review"
        /\ agThread'[r].next = "notify" /\ agThread'[r].decision = agReview[v].wish
        /\ agReview'[v].pc = "invoking" /\ agReview'[v].run = r
        /\ agReview'[v].next = "notify" /\ agReview'[v].decision = agReview[v].wish
    BY <1>r, <1>1 DEF AG!HumanReview, AG!build_graph, AG!TypeOK, AG!Idle
  <1>4. /\ UNCHANGED <<agTask, agCauses, agRaced>>
        /\ \A s \in Runs \ {r} : /\ agStatus'[s] = agStatus[s] /\ agThread'[s] = agThread[s]
                                 /\ agDispatches'[s] = agDispatches[s]
                                 /\ agAttempted'[s] = agAttempted[s]
    BY <1>r, <1>1 DEF AG!HumanReview, AG!build_graph, AG!TypeOK
  <1>5. agFaults' \in 0..MaxAgentFaults /\ (agFaults' = agFaults \/ agFaults' > 0)
    BY <1>1, AgentsAssumption DEF AG!HumanReview, AG!build_graph, AG!TypeOK
  <1>6. AG!TypeOK'
    <2>1. agThread' \in [Runs -> [next : AG!Nodes, decision : AG!Decisions]]
      BY <1>r, <1>1 DEF AG!HumanReview, AG!build_graph, AG!TypeOK, AG!Nodes
    <2> QED
      BY <1>1, <1>2, <1>3, <1>4, <1>5, <2>1 DEF AG!TypeOK, Calls
  <1>7. agStatus'[r] \notin {"absent", "pending", "running"} /\ agThread'[r].next \in LateNodes
    BY <1>0, <1>r, <1>1, <1>3 DEF CallOk, LateNodes
  <1>8. Done(r) => Done(r)'
    BY <1>1, <1>3 DEF Done, AG!TypeOK
  <1>9. CallOk(v)'
    BY <1>0, <1>r, <1>1, <1>3, <1>7 DEF CallOk, Busy, Done, RunOk, LateNodes, AG!Idle
  <1>10. LoneCall(v)'
    BY <1>0, <1>r, <1>1, <1>3, <1>4 DEF LoneCall, CallOk, Busy, LateNodes, AG!Idle
  <1>11. RunOk(r)'
    BY <1>0, <1>r, <1>1, <1>3, <1>4 DEF RunOk, CallOk, Done, EarlyNodes, LateNodes, Busy
  <1>12. LoneRun(r)'
    BY <1>0, <1>r, <1>1, <1>3, <1>4 DEF LoneRun, LoneCall, Busy, AG!TypeOK
  <1>13. DispatchedOnce(r)'
    BY <1>0, <1>r, <1>1, <1>2, <1>3, <1>4, <1>5 DEF DispatchedOnce, LoneCall, LoneRun, Busy, AG!TypeOK
  <1>14. agReview'[v] = AG!Idle \/ agReview'[v].run = r
    BY <1>3
  <1> QED
    BY <1>0, <1>r, <1>2, <1>4, <1>5, <1>6, <1>7, <1>8, <1>9, <1>10, <1>11, <1>12, <1>13, <1>14,
       CallFrame

\* The event of an approval is tried on every channel it goes to.
LEMMA NotifyKeeps ==
  ASSUME AgentsInv, agEnabled' = agEnabled, AG!Targets' = AG!Targets,
         NEW v \in RunReviewers, AG!Notify(v)
  PROVE  AgentsInv'
  <1>0. Busy(v) /\ agReview[v].pc = "invoking"
    BY DEF AG!Notify, Busy
  <1>r. PICK r \in Runs : r = agReview[v].run
    BY <1>0, CallFacts
  <1>1. /\ AG!TypeOK /\ CallOk(v) /\ LoneCall(v)
        /\ RunOk(r) /\ LoneRun(r) /\ DispatchedOnce(r)
    BY <1>0, <1>r, CallFacts
  <1>2. /\ agReview' \in [RunReviewers -> Calls]
        /\ \A u \in RunReviewers \ {v} : agReview'[u] = agReview[u]
    <2>1. agReview \in [RunReviewers -> Calls] /\ agThread \in [Runs -> [next : AG!Nodes, decision : AG!Decisions]]
      BY <1>1 DEF AG!TypeOK, Calls
    <2>2. [agReview[v] EXCEPT !.next = "written"] \in Calls
      BY <1>r, <2>1, IdleIsCall DEF Calls, AG!Nodes
    <2>3. agReview' = [agReview EXCEPT ![v] = [agReview[v] EXCEPT !.next = "written"]]
      BY <1>r, <2>1 DEF AG!Notify, Calls
    <2> QED
      BY <2>1, <2>2, <2>3
  <1>3. /\ agStatus' = agStatus /\ agThread' = agThread /\ agGraph' = agGraph
        /\ agReview[v].next = "notify"
        /\ agReview'[v].pc = "invoking" /\ agReview'[v].run = r
        /\ agReview'[v].next = "written" /\ agReview'[v].decision = agReview[v].decision
        /\ IF agReview[v].decision = "approve"
           THEN /\ agDispatches'[r] = agDispatches[r] + 1
                /\ agAttempted'[r].sent \cup agAttempted'[r].failed = AG!Targets
                /\ agAttempted'[r].sent \subseteq AG!Targets /\ agAttempted'[r].failed \subseteq AG!Targets
           ELSE agDispatches' = agDispatches /\ agAttempted' = agAttempted
    <2>1. /\ agStatus' = agStatus /\ agThread' = agThread /\ agGraph' = agGraph
          /\ agReview[v].next = "notify"
          /\ agReview'[v].pc = "invoking" /\ agReview'[v].run = r
          /\ agReview'[v].next = "written" /\ agReview'[v].decision = agReview[v].decision
      BY <1>r, <1>1 DEF AG!Notify, AG!TypeOK
    <2>2. CASE agReview[v].decision # "approve"
      BY <2>1, <2>2 DEF AG!Notify, AG!Dispatches
    <2>3. CASE agReview[v].decision = "approve"
      <3>1. PICK ok \in SUBSET {c \in AG!Targets : AG!DispatchToChannel(c)} :
              LET rep == AG!DispatchNotificationEvent(ok) IN
              agAttempted' = [agAttempted EXCEPT
                 ![r] = [sent   |-> @.sent \cup rep.sent,
                         failed |-> @.failed \cup rep.failed]]
        BY <1>r, <2>3 DEF AG!Notify, AG!Dispatches
      <3>2. agAttempted'[r] = [sent |-> agAttempted[r].sent \cup ok,
                             failed |-> agAttempted[r].failed \cup (AG!Targets \ ok)]
        BY <1>1, <3>1 DEF AG!TypeOK, AG!DispatchNotificationEvent
      <3>3. agAttempted[r].sent \subseteq AG!Targets /\ agAttempted[r].failed \subseteq AG!Targets
        BY <1>1 DEF RunOk
      <3>4. ok \subseteq AG!Targets
        OBVIOUS
      <3>5. /\ agAttempted'[r].sent \cup agAttempted'[r].failed = AG!Targets
            /\ agAttempted'[r].sent \subseteq AG!Targets /\ agAttempted'[r].failed \subseteq AG!Targets
        BY <3>2, <3>3, <3>4
      <3>6. agDispatches'[r] = agDispatches[r] + 1
        BY <1>r, <1>1, <2>3 DEF AG!Notify, AG!Dispatches, AG!TypeOK
      <3> QED
        BY <2>1, <2>3, <3>5, <3>6
    <2> QED
      BY <2>2, <2>3
  <1>4. /\ UNCHANGED <<agTask, agCauses, agRaced>>
        /\ \A s \in Runs \ {r} : /\ agStatus'[s] = agStatus[s] /\ agThread'[s] = agThread[s]
                                 /\ agDispatches'[s] = agDispatches[s]
                                 /\ agAttempted'[s] = agAttempted[s]
    BY <1>r, <1>1 DEF AG!Notify, AG!TypeOK
  <1>5. agFaults' \in 0..MaxAgentFaults /\ (agFaults' = agFaults \/ agFaults' > 0)
    BY <1>1, AgentsAssumption DEF AG!Notify, AG!TypeOK
  <1>6. AG!TypeOK'
    <2>1. /\ agDispatches' \in [Runs -> Nat]
          /\ agAttempted' \in [Runs -> [sent : SUBSET DefaultChannels, failed : SUBSET DefaultChannels]]
      <3>1. /\ agDispatches \in [Runs -> Nat]
            /\ agAttempted \in [Runs -> [sent : SUBSET DefaultChannels, failed : SUBSET DefaultChannels]]
        BY <1>1 DEF AG!TypeOK
      <3>2. agDispatches' \in [Runs -> Nat]
        BY <1>r, <3>1 DEF AG!Notify
      <3>3. CASE AG!Dispatches(agReview[v].decision)
        <4>1. PICK ok \in SUBSET {c \in AG!Targets : AG!DispatchToChannel(c)} :
                LET rep == AG!DispatchNotificationEvent(ok) IN
                agAttempted' = [agAttempted EXCEPT
                   ![r] = [sent   |-> @.sent \cup rep.sent,
                           failed |-> @.failed \cup rep.failed]]
          BY <1>r, <3>3 DEF AG!Notify
        <4>2. agAttempted' = [agAttempted EXCEPT
                   ![r] = [sent   |-> agAttempted[r].sent \cup ok,
                           failed |-> agAttempted[r].failed \cup (AG!Targets \ ok)]]
          BY <3>1, <4>1 DEF AG!DispatchNotificationEvent
        <4>3. [sent |-> agAttempted[r].sent \cup ok, failed |-> agAttempted[r].failed \cup (AG!Targets \ ok)]
                \in [sent : SUBSET DefaultChannels, failed : SUBSET DefaultChannels]
          BY <3>1 DEF AG!Targets, AG!Selected
        <4> QED
          BY <3>1, <3>2, <4>2, <4>3
      <3>4. CASE ~AG!Dispatches(agReview[v].decision)
        BY <3>1, <3>2, <3>4 DEF AG!Notify
      <3> QED
        BY <3>3, <3>4
    <2> QED
      BY <1>1, <1>2, <1>3, <1>4, <1>5, <2>1 DEF AG!TypeOK, Calls
  <1>7. agStatus'[r] \notin {"absent", "pending", "running"} /\ agThread'[r].next \in LateNodes
    BY <1>0, <1>r, <1>1, <1>3 DEF CallOk, LateNodes
  <1>8. Done(r) => Done(r)'
    BY <1>1, <1>3 DEF Done, AG!TypeOK
  <1>9. CallOk(v)'
    BY <1>0, <1>r, <1>1, <1>3, <1>7 DEF CallOk, Busy, Done, RunOk, LateNodes, AG!Idle, AG!TypeOK
  <1>10. LoneCall(v)'
    BY <1>0, <1>r, <1>1, <1>3, <1>4 DEF LoneCall, CallOk, Busy, LateNodes, AG!Idle
  <1>11. RunOk(r)'
    BY <1>0, <1>r, <1>1, <1>3, <1>4 DEF RunOk, CallOk, Done, EarlyNodes, LateNodes, Busy, AG!TypeOK
  <1>12. LoneRun(r)'
    BY <1>0, <1>r, <1>1, <1>3, <1>4 DEF LoneRun, LoneCall, Busy, AG!TypeOK
  <1>13. DispatchedOnce(r)'
    <2>1. ASSUME r \notin agRaced, agFaults = 0 PROVE agDispatches[r] = 0
      <3>1. agStatus[r] = "awaiting_review" /\ agThread[r].next = "notify"
        BY <1>0, <1>r, <1>1, <1>3, <2>1 DEF LoneCall
      <3>2. \A u \in RunReviewers : Busy(u) /\ agReview[u].run = r => u = v
        BY <1>0, <1>r, <2>1 DEF AgentsInv, OverlapsRecorded
      <3>3. agDispatches[r] \in Nat
        BY <1>1 DEF AG!TypeOK
      <3> QED
        BY <1>1, <1>3, <2>1, <3>1, <3>2, <3>3 DEF DispatchedOnce
    <2>2. Busy(v)' /\ agReview'[v].run = r /\ agReview'[v].next = "written"
      BY <1>3 DEF Busy
    <2>3. agDispatches'[r] = agDispatches[r] \/ agDispatches'[r] = agDispatches[r] + 1
      BY <1>3
    <2>4. agFaults' = agFaults /\ agRaced' = agRaced
      BY DEF AG!Notify
    <2> QED
      BY <2>1, <2>2, <2>3, <2>4 DEF DispatchedOnce
  <1>14. agReview'[v] = AG!Idle \/ agReview'[v].run = r
    BY <1>3
  <1> QED
    BY <1>0, <1>r, <1>2, <1>4, <1>5, <1>6, <1>7, <1>8, <1>9, <1>10, <1>11, <1>12, <1>13, <1>14,
       CallFrame

\* The dispatch is recorded.
LEMMA FinishThreadKeeps ==
  ASSUME AgentsInv, agEnabled' = agEnabled, AG!Targets' = AG!Targets,
         NEW v \in RunReviewers, AG!FinishThread(v)
  PROVE  AgentsInv'
  <1>0. Busy(v) /\ agReview[v].pc = "invoking"
    BY DEF AG!FinishThread, Busy
  <1>r. PICK r \in Runs : r = agReview[v].run
    BY <1>0, CallFacts
  <1>1. /\ AG!TypeOK /\ CallOk(v) /\ LoneCall(v)
        /\ RunOk(r) /\ LoneRun(r) /\ DispatchedOnce(r)
    BY <1>0, <1>r, CallFacts
  <1>2. /\ agReview' \in [RunReviewers -> Calls]
        /\ \A u \in RunReviewers \ {v} : agReview'[u] = agReview[u]
    <2>1. agReview \in [RunReviewers -> Calls] /\ agThread \in [Runs -> [next : AG!Nodes, decision : AG!Decisions]]
      BY <1>1 DEF AG!TypeOK, Calls
    <2>2. [agReview[v] EXCEPT !.next = "end"] \in Calls
      BY <1>r, <2>1, IdleIsCall DEF Calls, AG!Nodes
    <2>3. agReview' = [agReview EXCEPT ![v] = [agReview[v] EXCEPT !.next = "end"]]
      BY <1>r, <2>1 DEF AG!FinishThread, Calls
    <2> QED
      BY <2>1, <2>2, <2>3
  <1>3. /\ agStatus' = agStatus /\ agDispatches' = agDispatches /\ agAttempted' = agAttempted /\ agGraph' = agGraph
        /\ agReview[v].next = "written"
        /\ agThread'[r].next = "end" /\ agThread'[r].decision = agReview[v].decision
        /\ agReview'[v].pc = "invoking" /\ agReview'[v].run = r
        /\ agReview'[v].next = "end" /\ agReview'[v].decision = agReview[v].decision
    BY <1>r, <1>1 DEF AG!FinishThread, AG!TypeOK, AG!Idle
  <1>4. /\ UNCHANGED <<agTask, agCauses, agRaced>>
        /\ \A s \in Runs \ {r} : /\ agStatus'[s] = agStatus[s] /\ agThread'[s] = agThread[s]
                                 /\ agDispatches'[s] = agDispatches[s]
                                 /\ agAttempted'[s] = agAttempted[s]
    BY <1>r, <1>1 DEF AG!FinishThread, AG!TypeOK
  <1>5. agFaults' \in 0..MaxAgentFaults /\ (agFaults' = agFaults \/ agFaults' > 0)
    BY <1>1, AgentsAssumption DEF AG!FinishThread, AG!TypeOK
  <1>6. AG!TypeOK'
    <2>1. agThread' \in [Runs -> [next : AG!Nodes, decision : AG!Decisions]]
      BY <1>r, <1>1 DEF AG!FinishThread, AG!TypeOK, AG!Nodes
    <2> QED
      BY <1>1, <1>2, <1>3, <1>4, <1>5, <2>1 DEF AG!TypeOK, Calls
  <1>7. agStatus'[r] \notin {"absent", "pending", "running"} /\ agThread'[r].next \in LateNodes
    BY <1>0, <1>r, <1>1, <1>3 DEF CallOk, LateNodes
  <1>8. Done(r) => Done(r)'
    BY <1>1, <1>3 DEF Done, AG!TypeOK
  <1>9. CallOk(v)'
    BY <1>0, <1>r, <1>1, <1>3, <1>7 DEF CallOk, Busy, Done, RunOk, LateNodes, AG!Idle
  <1>10. LoneCall(v)'
    BY <1>0, <1>r, <1>1, <1>3, <1>4 DEF LoneCall, CallOk, Busy, LateNodes, AG!Idle
  <1>11. RunOk(r)'
    BY <1>0, <1>r, <1>1, <1>3, <1>4 DEF RunOk, CallOk, Done, EarlyNodes, LateNodes, Busy
  <1>12. LoneRun(r)'
    BY <1>0, <1>r, <1>1, <1>3, <1>4 DEF LoneRun, LoneCall, Busy, AG!TypeOK
  <1>13. DispatchedOnce(r)'
    BY <1>0, <1>r, <1>1, <1>2, <1>3, <1>4, <1>5 DEF DispatchedOnce, LoneCall, LoneRun, Busy, AG!TypeOK
  <1>14. agReview'[v] = AG!Idle \/ agReview'[v].run = r
    BY <1>3
  <1> QED
    BY <1>0, <1>r, <1>2, <1>4, <1>5, <1>6, <1>7, <1>8, <1>9, <1>10, <1>11, <1>12, <1>13, <1>14,
       CallFrame

\* The call fails.
LEMMA ResumeFailsKeeps ==
  ASSUME AgentsInv, agEnabled' = agEnabled, AG!Targets' = AG!Targets,
         NEW v \in RunReviewers, AG!ResumeFails(v)
  PROVE  AgentsInv'
  <1>0. Busy(v) /\ agReview[v].pc = "invoking"
    BY DEF AG!ResumeFails, Busy
  <1>r. PICK r \in Runs : r = agReview[v].run
    BY <1>0, CallFacts
  <1>1. /\ AG!TypeOK /\ CallOk(v) /\ LoneCall(v)
        /\ RunOk(r) /\ LoneRun(r) /\ DispatchedOnce(r)
    BY <1>0, <1>r, CallFacts
  <1>2. /\ agReview' \in [RunReviewers -> Calls]
        /\ \A u \in RunReviewers \ {v} : agReview'[u] = agReview[u]
    <2>1. agReview \in [RunReviewers -> Calls] /\ agThread \in [Runs -> [next : AG!Nodes, decision : AG!Decisions]]
      BY <1>1 DEF AG!TypeOK, Calls
    <2>2. [agReview[v] EXCEPT !.pc = "failing"] \in Calls
      BY <1>r, <2>1, IdleIsCall DEF Calls, AG!Nodes
    <2>3. agReview' = [agReview EXCEPT ![v] = [agReview[v] EXCEPT !.pc = "failing"]]
      BY <1>r, <2>1 DEF AG!ResumeFails, AG!DatabaseError, Calls
    <2> QED
      BY <2>1, <2>2, <2>3
  <1>3. /\ agStatus' = agStatus /\ agThread' = agThread /\ agDispatches' = agDispatches
        /\ agAttempted' = agAttempted /\ agGraph' = agGraph
        /\ agReview'[v].pc = "failing" /\ agReview'[v].run = r
        /\ agReview'[v].next = agReview[v].next /\ agReview'[v].decision = agReview[v].decision
    BY <1>r, <1>1 DEF AG!ResumeFails, AG!DatabaseError, AG!TypeOK, AG!Idle
  <1>4. /\ UNCHANGED <<agTask, agCauses, agRaced>>
        /\ \A s \in Runs \ {r} : /\ agStatus'[s] = agStatus[s] /\ agThread'[s] = agThread[s]
                                 /\ agDispatches'[s] = agDispatches[s]
                                 /\ agAttempted'[s] = agAttempted[s]
    BY <1>r, <1>1 DEF AG!ResumeFails, AG!DatabaseError, AG!TypeOK
  <1>5. agFaults' \in 0..MaxAgentFaults /\ (agFaults' = agFaults \/ agFaults' > 0)
    BY <1>1, AgentsAssumption DEF AG!ResumeFails, AG!DatabaseError, AG!TypeOK
  <1>6. AG!TypeOK'
    <2>1. agGraph' \in BOOLEAN
      BY <1>1, <1>3 DEF AG!TypeOK
    <2> QED
      BY <1>1, <1>2, <1>3, <1>4, <1>5, <2>1 DEF AG!TypeOK, Calls
  <1>7. agStatus'[r] \notin {"absent", "pending", "running"} /\ agThread'[r].next \in LateNodes
    BY <1>0, <1>r, <1>1, <1>3 DEF CallOk, LateNodes
  <1>8. Done(r) => Done(r)'
    BY <1>1, <1>3 DEF Done, AG!TypeOK
  <1>9. CallOk(v)'
    BY <1>0, <1>r, <1>1, <1>3, <1>7 DEF CallOk, Busy, Done, RunOk, LateNodes, AG!Idle
  <1>10. LoneCall(v)'
    BY <1>0, <1>r, <1>1, <1>3, <1>4 DEF LoneCall, CallOk, Busy, LateNodes, AG!Idle
  <1>11. RunOk(r)'
    BY <1>0, <1>r, <1>1, <1>3, <1>4 DEF RunOk, CallOk, Done, EarlyNodes, LateNodes, Busy
  <1>12. LoneRun(r)'
    BY <1>0, <1>r, <1>1, <1>3, <1>4 DEF LoneRun, LoneCall, Busy, AG!TypeOK
  <1>13. DispatchedOnce(r)'
    <2>1. agFaults \in Nat
      BY <1>1 DEF AG!TypeOK
    <2>2. CASE agFaults' > 0
      BY <1>5, <2>2 DEF DispatchedOnce
    <2>3. CASE agFaults' = agFaults
      <3> SUFFICES ASSUME r \notin agRaced, agFaults = 0
                   PROVE  /\ agDispatches[r] <= 1
                          /\ agDispatches[r] > 0 /\ agThread[r].next = "notify" /\ agStatus[r] = "awaiting_review" =>
                               \E u \in RunReviewers : Busy(u)' /\ agReview'[u].run = r /\ agReview'[u].next = "written"
        BY <1>3, <1>4, <2>3 DEF DispatchedOnce
      <3>1. \A u \in RunReviewers : Busy(u) /\ agReview[u].run = r => /\ Busy(u)' /\ agReview'[u].run = r
                                                                      /\ agReview'[u].next = agReview[u].next
        BY <1>2, <1>3 DEF Busy
      <3> QED
        BY <1>1, <3>1 DEF DispatchedOnce
    <2> QED
      BY <1>5, <2>2, <2>3
  <1>14. agReview'[v] = AG!Idle \/ agReview'[v].run = r
    BY <1>3
  <1> QED
    BY <1>0, <1>r, <1>2, <1>4, <1>5, <1>6, <1>7, <1>8, <1>9, <1>10, <1>11, <1>12, <1>13, <1>14,
       CallFrame

\* The failure is recorded.
LEMMA RecordResumeFailureKeeps ==
  ASSUME AgentsInv, agEnabled' = agEnabled, AG!Targets' = AG!Targets,
         NEW v \in RunReviewers, AG!RecordResumeFailure(v)
  PROVE  AgentsInv'
  <1>0. Busy(v) /\ agReview[v].pc = "failing"
    BY DEF AG!RecordResumeFailure, Busy
  <1>r. PICK r \in Runs : r = agReview[v].run
    BY <1>0, CallFacts
  <1>1. /\ AG!TypeOK /\ CallOk(v) /\ LoneCall(v)
        /\ RunOk(r) /\ LoneRun(r) /\ DispatchedOnce(r)
    BY <1>0, <1>r, CallFacts
  <1>2. /\ agReview' \in [RunReviewers -> Calls]
        /\ \A u \in RunReviewers \ {v} : agReview'[u] = agReview[u]
    <2>1. agReview \in [RunReviewers -> Calls] /\ agThread \in [Runs -> [next : AG!Nodes, decision : AG!Decisions]]
      BY <1>1 DEF AG!TypeOK, Calls
    <2>2. AG!Idle \in Calls
      BY <1>r, <2>1, IdleIsCall DEF Calls, AG!Nodes
    <2>3. agReview' = [agReview EXCEPT ![v] = AG!Idle]
      BY <1>r, <2>1 DEF AG!RecordResumeFailure, AG!DatabaseError, Calls
    <2> QED
      BY <2>1, <2>2, <2>3
  <1>3. /\ agThread' = agThread /\ agDispatches' = agDispatches /\ agAttempted' = agAttempted /\ agGraph' = agGraph
        /\ agReview'[v] = AG!Idle
        /\ agStatus'[r] = "failed" \/ (agStatus' = agStatus /\ agFaults' > 0)
    BY <1>r, <1>1 DEF AG!RecordResumeFailure, AG!DatabaseError, AG!TypeOK, AG!Idle
  <1>4. /\ UNCHANGED <<agTask, agCauses, agRaced>>
        /\ \A s \in Runs \ {r} : /\ agStatus'[s] = agStatus[s] /\ agThread'[s] = agThread[s]
                                 /\ agDispatches'[s] = agDispatches[s]
                                 /\ agAttempted'[s] = agAttempted[s]
    BY <1>r, <1>1 DEF AG!RecordResumeFailure, AG!DatabaseError, AG!TypeOK
  <1>5. agFaults' \in 0..MaxAgentFaults /\ (agFaults' = agFaults \/ agFaults' > 0)
    BY <1>1, AgentsAssumption DEF AG!RecordResumeFailure, AG!DatabaseError, AG!TypeOK
  <1>6. AG!TypeOK'
    <2>1. agStatus' \in [Runs -> AG!Statuses]
      BY <1>r, <1>1 DEF AG!RecordResumeFailure, AG!TypeOK, AG!Statuses
    <2> QED
      BY <1>1, <1>2, <1>3, <1>4, <1>5, <2>1 DEF AG!TypeOK, Calls
  <1>7. agStatus'[r] \notin {"absent", "pending", "running"} /\ agThread'[r].next \in LateNodes
    BY <1>0, <1>r, <1>1, <1>3 DEF CallOk, LateNodes
  <1>8. Done(r) => Done(r)'
    BY <1>1, <1>3 DEF Done, AG!TypeOK
  <1>9. CallOk(v)'
    BY <1>0, <1>r, <1>1, <1>3, <1>7 DEF CallOk, Busy, Done, RunOk, LateNodes, AG!Idle
  <1>10. LoneCall(v)'
    BY <1>0, <1>r, <1>1, <1>3, <1>4 DEF LoneCall, CallOk, Busy, LateNodes, AG!Idle
  <1>11. RunOk(r)'
    BY <1>0, <1>r, <1>1, <1>3, <1>4 DEF RunOk, CallOk, Done, EarlyNodes, LateNodes, Busy
  <1>12. LoneRun(r)'
    BY <1>0, <1>r, <1>1, <1>3, <1>4 DEF LoneRun, LoneCall, Busy, AG!TypeOK
  <1>13. DispatchedOnce(r)'
    BY <1>0, <1>r, <1>1, <1>2, <1>3, <1>4, <1>5 DEF DispatchedOnce, LoneCall, LoneRun, Busy, AG!TypeOK
  <1>14. agReview'[v] = AG!Idle \/ agReview'[v].run = r
    BY <1>3
  <1> QED
    BY <1>0, <1>r, <1>2, <1>4, <1>5, <1>6, <1>7, <1>8, <1>9, <1>10, <1>11, <1>12, <1>13, <1>14,
       CallFrame

\* The verdict is recorded.
LEMMA SyncResumedKeeps ==
  ASSUME AgentsInv, agEnabled' = agEnabled, AG!Targets' = AG!Targets,
         NEW v \in RunReviewers, AG!SyncResumed(v)
  PROVE  AgentsInv'
  <1>0. Busy(v) /\ agReview[v].pc = "invoking"
    BY DEF AG!SyncResumed, Busy
  <1>r. PICK r \in Runs : r = agReview[v].run
    BY <1>0, CallFacts
  <1>1. /\ AG!TypeOK /\ CallOk(v) /\ LoneCall(v)
        /\ RunOk(r) /\ LoneRun(r) /\ DispatchedOnce(r)
    BY <1>0, <1>r, CallFacts
  <1>2. /\ agReview' \in [RunReviewers -> Calls]
        /\ \A u \in RunReviewers \ {v} : agReview'[u] = agReview[u]
    <2>1. agReview \in [RunReviewers -> Calls] /\ agThread \in [Runs -> [next : AG!Nodes, decision : AG!Decisions]]
      BY <1>1 DEF AG!TypeOK, Calls
    <2>2. AG!Idle \in Calls
      BY <1>r, <2>1, IdleIsCall DEF Calls, AG!Nodes
    <2>3. agReview' = [agReview EXCEPT ![v] = AG!Idle]
      BY <1>r, <2>1 DEF AG!SyncResumed, AG!Verdict, AG!DatabaseError, Calls
    <2> QED
      BY <2>1, <2>2, <2>3
  <1>3. /\ agThread' = agThread /\ agDispatches' = agDispatches /\ agAttempted' = agAttempted /\ agGraph' = agGraph
        /\ agReview'[v] = AG!Idle /\ agReview[v].next = "end"
        /\ \/ agStatus'[r] = "approved" /\ agReview[v].decision = "approve"
           \/ agStatus'[r] = "rejected" /\ agReview[v].decision # "approve"
           \/ agStatus' = agStatus /\ agFaults' > 0
    BY <1>r, <1>1 DEF AG!SyncResumed, AG!Verdict, AG!DatabaseError, AG!TypeOK, AG!Idle
  <1>4. /\ UNCHANGED <<agTask, agCauses, agRaced>>
        /\ \A s \in Runs \ {r} : /\ agStatus'[s] = agStatus[s] /\ agThread'[s] = agThread[s]
                                 /\ agDispatches'[s] = agDispatches[s]
                                 /\ agAttempted'[s] = agAttempted[s]
    BY <1>r, <1>1 DEF AG!SyncResumed, AG!Verdict, AG!DatabaseError, AG!TypeOK
  <1>5. agFaults' \in 0..MaxAgentFaults /\ (agFaults' = agFaults \/ agFaults' > 0)
    BY <1>1, AgentsAssumption DEF AG!SyncResumed, AG!Verdict, AG!DatabaseError, AG!TypeOK
  <1>6. AG!TypeOK'
    <2>1. agStatus' \in [Runs -> AG!Statuses]
      BY <1>r, <1>1 DEF AG!SyncResumed, AG!Verdict, AG!TypeOK, AG!Statuses
    <2> QED
      BY <1>1, <1>2, <1>3, <1>4, <1>5, <2>1 DEF AG!TypeOK, Calls
  <1>7. agStatus'[r] \notin {"absent", "pending", "running"} /\ agThread'[r].next \in LateNodes
    BY <1>0, <1>r, <1>1, <1>3 DEF CallOk, LateNodes
  <1>8. Done(r) => Done(r)'
    BY <1>1, <1>3 DEF Done, AG!TypeOK
  <1>9. CallOk(v)'
    BY <1>0, <1>r, <1>1, <1>3, <1>7 DEF CallOk, Busy, Done, RunOk, LateNodes, AG!Idle
  <1>10. LoneCall(v)'
    BY <1>0, <1>r, <1>1, <1>3, <1>4 DEF LoneCall, CallOk, Busy, LateNodes, AG!Idle
  <1>11. RunOk(r)'
    BY <1>0, <1>r, <1>1, <1>3, <1>4 DEF RunOk, CallOk, Done, EarlyNodes, LateNodes, Busy
  <1>12. LoneRun(r)'
    BY <1>0, <1>r, <1>1, <1>3, <1>4 DEF LoneRun, LoneCall, Busy, AG!TypeOK
  <1>13. DispatchedOnce(r)'
    BY <1>0, <1>r, <1>1, <1>2, <1>3, <1>4, <1>5 DEF DispatchedOnce, LoneCall, LoneRun, Busy, AG!TypeOK
  <1>14. agReview'[v] = AG!Idle \/ agReview'[v].run = r
    BY <1>3
  <1> QED
    BY <1>0, <1>r, <1>2, <1>4, <1>5, <1>6, <1>7, <1>8, <1>9, <1>10, <1>11, <1>12, <1>13, <1>14,
       CallFrame

\* Every step keeps the invariant.
LEMMA AgentsNext ==
  ASSUME AgentsInv, [AG!Next]_(AG!agentVars)
  PROVE  AgentsInv'
  <1>0. agEnabled' = agEnabled /\ AG!Targets' = AG!Targets
    BY DEF AG!Next, AG!agentVars, AG!Targets, AG!Selected
  <1>1. CASE UNCHANGED AG!agentVars
    BY <1>0, <1>1, GraphOnly DEF AG!agentVars, AgentsInv, AG!TypeOK
  <1>2. CASE AG!StartAgentCheckpointer \/ AG!StopAgentCheckpointer
    BY <1>0, <1>2, GraphOnly DEF AG!StartAgentCheckpointer, AG!StopAgentCheckpointer
  <1>3. ASSUME NEW r \in Runs, AG!TaskStep(r) PROVE AgentsInv'
    BY <1>0, <1>3, CreateRunKeeps, TriggerAgentRunKeeps, RunAgentForObservationKeeps,
       BuildInitialStateKeeps, MarkRunningKeeps, InvokeNodeKeeps, SyncInterruptedKeeps,
       RecordFailureKeeps DEF AG!TaskStep
  <1>4. ASSUME NEW v \in RunReviewers, AG!ReviewStep(v) PROVE AgentsInv'
    BY <1>0, <1>4, ResumeReadKeeps, ResumeAgentRunKeeps, HumanReviewKeeps, NotifyKeeps,
       FinishThreadKeeps, ResumeFailsKeeps, RecordResumeFailureKeeps, SyncResumedKeeps
       DEF AG!ReviewStep
  <1> QED
    BY <1>0, <1>1, <1>2, <1>3, <1>4, CrashKeeps DEF AG!Next

\* The invariant is what is promised.
LEMMA AgentsImply == AgentsInv => AG!TypeOK /\ AG!VerdictIsWhatWasDone /\ AG!StalledHasCause
  <1> SUFFICES ASSUME AgentsInv PROVE AG!TypeOK /\ AG!VerdictIsWhatWasDone /\ AG!StalledHasCause
    OBVIOUS
  <1>1. AG!TypeOK /\ \A r \in Runs : RunOk(r) /\ LoneRun(r) /\ DispatchedOnce(r)
    BY DEF AgentsInv
  <1>2. AG!VerdictIsWhatWasDone
    BY <1>1 DEF AG!VerdictIsWhatWasDone, RunOk, LoneRun, DispatchedOnce, Done, AG!Targets, AG!TypeOK
  <1>3. AG!StalledHasCause
    BY <1>1 DEF AG!StalledHasCause, RunOk
  <1> QED
    BY <1>1, <1>2, <1>3

\* For any runs, any number of overlapping reviewers and any number of crashes, with
\* notifications enabled or not, the verdict on a run is what was done about it, and
\* a run is left pending or running only for a known cause (agent/runner.py).
THEOREM VerdictsHold == AG!Spec => [](AG!VerdictIsWhatWasDone /\ AG!StalledHasCause)
  <1>1. AG!Spec => []AgentsInv
    BY AgentsInit, AgentsNext, PTL DEF AG!Spec
  <1> QED
    BY <1>1, AgentsImply, PTL

-----------------------------------------------------------------------------
(* Security events: who resolves a signal, and the chain of audit rows.     *)

\* What a severity can be.
Severities ==
  {"low", "medium", "high", "critical"} \cup
    {SE!EvaluateKeySuspicion(f, n, p, t) : f \in {4, 5, 20}, n \in {4, 10}, p \in {49, 90}, t \in {0, 1}}

SignalRows ==
  [severity : Severities, evidence : {<<>>} \cup {<<c, w, q>> : c \in Nat, w \in Nat, q \in Nat},
   action : {"alerted", "logged"}, tenant : Tenants \cup {SE!None}, by : Resolvers \cup {SE!None}]

\* A resolver has read its signal as open; if that is no longer so, or another one
\* has read it too, the overlap is recorded.
ResolversOk ==
  /\ \A r \in Resolvers : seResolver[r] # 0 =>
       /\ seResolver[r] \in DOMAIN seSignals
       /\ seSignals[seResolver[r]].by = SE!None \/ seResolver[r] \in seRaced
  /\ \A r, q \in Resolvers :
       r # q /\ seResolver[r] # 0 /\ seResolver[r] = seResolver[q] => seResolver[r] \in seRaced

\* What an emitter can be doing.
Appends == [step : {"idle", "read", "inserted"}, last : 0..MaxEvents, id : 0..MaxEvents]

\* The committed rows before id i.
Before(i) == {j \in DOMAIN seTrail : j < i}

\* No row that is not yet committed will come before id i, and the last one is known.
Settled(i, last) ==
  /\ SE!Newest(last, Before(i))
  /\ \A f \in Emitters : seEmitter[f].step = "inserted" => seEmitter[f].id >= i

\* An emitter that has read knows the newest row, unless it was overtaken.
ReadersOk ==
  \A e \in Emitters : seEmitter[e].step = "read" =>
    /\ seEmitter[e].last <= seLastId
    /\ e \notin seOvertaken => SE!Newest(seEmitter[e].last, DOMAIN seTrail)

\* A row that is not yet committed has an id of its own.
InsertsOk ==
  /\ \A e \in Emitters : seEmitter[e].step = "inserted" =>
       /\ seEmitter[e].id \in (1..seLastId) \ DOMAIN seTrail
       /\ seEmitter[e].last < seEmitter[e].id
       /\ seEmitter[e].id \notin seForked => Settled(seEmitter[e].id, seEmitter[e].last)
  /\ \A e, f \in Emitters :
       e # f /\ seEmitter[e].step = "inserted" /\ seEmitter[f].step = "inserted" => seEmitter[e].id # seEmitter[f].id

RowsOk ==
  \A i \in DOMAIN seTrail :
    /\ seTrail[i] \in 0..(i - 1)
    /\ i \notin seForked => Settled(i, seTrail[i])

SignalsInv ==
  /\ seSignals \in Seq(SignalRows)
  /\ seResolver \in [Resolvers -> 0..MaxSignals]
  /\ ResolversOk
  /\ SE!SeverityIsWorst

TrailInv ==
  /\ seLastId \in 0..MaxEvents /\ DOMAIN seTrail \subseteq 1..seLastId
  /\ seEmitter \in [Emitters -> Appends]
  /\ ReadersOk /\ InsertsOk /\ RowsOk

SecurityInv == SignalsInv /\ TrailInv

\* Nothing has been written.
LEMMA SecurityInit == SE!Init => SecurityInv
  <1> SUFFICES ASSUME SE!Init PROVE SecurityInv
    OBVIOUS
  <1> USE SecurityAssumption DEF SE!Init
  <1>1. SignalsInv
    BY DEF SignalsInv, ResolversOk, SE!SeverityIsWorst
  <1>2. TrailInv
    BY DEF TrailInv, ReadersOk, InsertsOk, RowsOk, Appends, SE!Idle
  <1> QED
    BY <1>1, <1>2 DEF SecurityInv

\* A larger multiple of the budget is reached only if a smaller one is.
LEMMA NoiseGrows ==
  ASSUME NEW c \in Nat, NEW w \in {0, 60}, NEW q \in {SE!NoQuota, 60}
  PROVE  /\ SE!NoiseReaches(c, w, q, 10) => SE!NoiseReaches(c, w, q, 5)
         /\ SE!NoiseReaches(c, w, q, 5) => SE!NoiseReaches(c, w, q, 2)
  <1> DEFINE quota == IF q = SE!NoQuota THEN SE!DefaultQuota ELSE q
  <1>1. quota = 60
    BY DEF SE!NoQuota, SE!DefaultQuota
  <1>2. \A m \in Nat : SE!NoiseReaches(c, w, q, m) <=> c * 60 >= m * 60 * w
    BY <1>1 DEF SE!NoiseReaches
  <1>3. CASE w = 0
    BY <1>2, <1>3
  <1>4. CASE w = 60
    BY <1>2, <1>4
  <1> QED
    BY <1>3, <1>4

\* A row of the table: its severity is the worst that its evidence reaches.
RowIsWorst(row) ==
  row.evidence # <<>> =>
    LET e == row.evidence
        Reached(s) == SE!NoiseReaches(e[1], e[2], e[3],
                                   CASE s = "medium" -> 2 [] s = "high" -> 5 [] OTHER -> 10)
        worst == {s \in {"medium", "high", "critical"} : Reached(s)}
    IN /\ row.severity \in worst
       /\ \A s \in worst : SE!SeverityRank[s] <= SE!SeverityRank[row.severity]

\* The detector finds the worst severity.
LEMMA NoiseIsWorst ==
  ASSUME NEW c \in Nat, NEW w \in {0, 60}, NEW q \in {SE!NoQuota, 60},
         SE!EvaluateSourceNoise(c, w, q) # SE!None,
         NEW row, row.severity = SE!EvaluateSourceNoise(c, w, q), row.evidence = <<c, w, q>>
  PROVE  RowIsWorst(row) /\ row.severity \in Severities
  <1>1. /\ SE!NoiseReaches(c, w, q, 10) => SE!NoiseReaches(c, w, q, 5)
        /\ SE!NoiseReaches(c, w, q, 5) => SE!NoiseReaches(c, w, q, 2)
    BY NoiseGrows
  <1>2. \/ row.severity = "critical" /\ SE!NoiseReaches(c, w, q, 10)
        \/ row.severity = "high" /\ SE!NoiseReaches(c, w, q, 5) /\ ~SE!NoiseReaches(c, w, q, 10)
        \/ row.severity = "medium" /\ SE!NoiseReaches(c, w, q, 2) /\ ~SE!NoiseReaches(c, w, q, 5)
    BY DEF SE!EvaluateSourceNoise, SE!None
  <1>3. <<c, w, q>>[1] = c /\ <<c, w, q>>[2] = w /\ <<c, w, q>>[3] = q
    OBVIOUS
  <1>4. RowIsWorst(row)
    BY <1>1, <1>2, <1>3 DEF RowIsWorst, SE!SeverityRank
  <1> QED
    BY <1>2, <1>4 DEF Severities

\* Severities are the worst when every row's is.
LEMMA WorstByRow == SE!SeverityIsWorst <=> \A i \in DOMAIN seSignals : RowIsWorst(seSignals[i])
  BY DEF SE!SeverityIsWorst, RowIsWorst

\* The same of the next state.
LEMMA WorstByRowNext == SE!SeverityIsWorst' <=> \A i \in DOMAIN seSignals' : RowIsWorst(seSignals'[i])
  BY DEF SE!SeverityIsWorst, RowIsWorst

\* A new row leaves the old ones and their resolvers alone.
LEMMA NewSignal ==
  ASSUME SignalsInv, NEW row \in SignalRows, RowIsWorst(row), row.by = SE!None,
         seSignals' = Append(seSignals, row), UNCHANGED <<seResolver, seRaced>>
  PROVE  SignalsInv'
  <1>1. /\ seSignals' \in Seq(SignalRows) /\ Len(seSignals') = Len(seSignals) + 1
        /\ seSignals'[Len(seSignals) + 1] = row
        /\ \A i \in 1..Len(seSignals) : seSignals'[i] = seSignals[i]
    BY DEF SignalsInv
  <1>2. DOMAIN seSignals = 1..Len(seSignals) /\ DOMAIN seSignals' = 1..(Len(seSignals) + 1) /\ Len(seSignals) \in Nat
    BY <1>1 DEF SignalsInv
  <1>3. SE!SeverityIsWorst'
    BY <1>1, <1>2, WorstByRow, WorstByRowNext DEF SignalsInv
  <1>4. ResolversOk'
    BY <1>1, <1>2 DEF SignalsInv, ResolversOk
  <1> QED
    BY <1>1, <1>3, <1>4 DEF SignalsInv

\* Reads leave the table alone.
LEMMA SignalsSame ==
  ASSUME SignalsInv, UNCHANGED <<seSignals, seResolver, seRaced>>
  PROVE  SignalsInv'
  BY WorstByRow, WorstByRowNext DEF SignalsInv, ResolversOk

\* Steps on signals keep their part.
LEMMA SignalStepKeeps ==
  ASSUME SignalsInv, SE!SignalStep
  PROVE  SignalsInv'
  <1>1. ASSUME NEW s \in {"low", "critical"}, NEW tn \in Tenants \cup {SE!None},
               SE!CreateSignalByHand(s, tn)
        PROVE  SignalsInv'
    <2> DEFINE row == [severity |-> s, evidence |-> <<>>, action |-> SE!ActionTaken(s),
                       tenant |-> tn, by |-> SE!None]
    <2>1. row \in SignalRows
      BY DEF SignalRows, Severities, SE!ActionTaken
    <2>2. RowIsWorst(row) /\ row.by = SE!None
      BY DEF RowIsWorst
    <2>3. seSignals' = Append(seSignals, row) /\ UNCHANGED <<seResolver, seRaced>>
      BY <1>1 DEF SE!CreateSignalByHand, SE!CreateSignal
    <2> HIDE DEF row
    <2> QED
      BY <2>1, <2>2, <2>3, NewSignal
  <1>2. ASSUME NEW c \in {119, 120, 300, 600}, NEW w \in {0, 60}, NEW q \in {SE!NoQuota, 60},
               SE!ObservationSourceNoise(c, w, q)
        PROVE  SignalsInv'
    <2> DEFINE sev == SE!EvaluateSourceNoise(c, w, q)
               row == [severity |-> sev, evidence |-> <<c, w, q>>, action |-> SE!ActionTaken(sev),
                       tenant |-> SE!None, by |-> SE!None]
    <2>1. CASE seSignals' = seSignals
      BY <1>2, <2>1, SignalsSame DEF SE!ObservationSourceNoise, SE!CreateSignal
    <2>2. CASE seSignals' # seSignals
      <3>1. sev # SE!None /\ seSignals' = Append(seSignals, row) /\ UNCHANGED <<seResolver, seRaced>>
        BY <1>2, <2>2 DEF SE!ObservationSourceNoise, SE!CreateSignal
      <3>2. row.severity = sev /\ row.evidence = <<c, w, q>> /\ row.by = SE!None
        OBVIOUS
      <3>3. RowIsWorst(row) /\ row.severity \in Severities
        <4> HIDE DEF row
        <4> QED
          BY <3>1, <3>2, NoiseIsWorst
      <3>4. SE!ActionTaken(sev) \in {"alerted", "logged"}
        BY DEF SE!ActionTaken
      <3>5. <<c, w, q>> \in {<<a, b, d>> : a \in Nat, b \in Nat, d \in Nat}
        BY DEF SE!NoQuota
      <3> HIDE DEF sev
      <3>6. row \in SignalRows
        BY <3>2, <3>3, <3>4, <3>5 DEF SignalRows
      <3> HIDE DEF row
      <3> QED
        BY <3>1, <3>2, <3>3, <3>6, NewSignal
    <2> QED
      BY <2>1, <2>2
  <1>3. ASSUME NEW f \in {4, 5, 20}, NEW n \in {4, 10}, NEW p \in {49, 90}, NEW t \in {0, 1},
               SE!ObservationKeySuspicion(f, n, p, t)
        PROVE  SignalsInv'
    <2> DEFINE sev == SE!EvaluateKeySuspicion(f, n, p, t)
               row == [severity |-> sev, evidence |-> <<>>, action |-> SE!ActionTaken(sev),
                       tenant |-> SE!None, by |-> SE!None]
    <2>1. CASE seSignals' = seSignals
      BY <1>3, <2>1, SignalsSame DEF SE!ObservationKeySuspicion, SE!CreateSignal
    <2>2. CASE seSignals' # seSignals
      <3>1. seSignals' = Append(seSignals, row) /\ UNCHANGED <<seResolver, seRaced>>
        BY <1>3, <2>2 DEF SE!ObservationKeySuspicion, SE!CreateSignal
      <3>2. RowIsWorst(row) /\ row.by = SE!None
        BY DEF RowIsWorst
      <3>3. SE!ActionTaken(sev) \in {"alerted", "logged"}
        BY DEF SE!ActionTaken
      <3>4. sev \in Severities
        BY DEF Severities
      <3> HIDE DEF sev
      <3>5. row \in SignalRows
        BY <3>3, <3>4 DEF SignalRows
      <3> HIDE DEF row
      <3> QED
        BY <3>1, <3>2, <3>5, NewSignal
    <2> QED
      BY <2>1, <2>2
  <1>4. ASSUME NEW r \in Resolvers, NEW i \in SE!Ids, SE!ResolveSignalRead(r, i)
        PROVE  SignalsInv'
    <2>1. CASE ~SE!ReadAsOpen(i)
      BY <1>4, <2>1, SignalsSame DEF SE!ResolveSignalRead
    <2>2. CASE SE!ReadAsOpen(i)
      <3>1. /\ seResolver[r] = 0 /\ seResolver' = [seResolver EXCEPT ![r] = i]
            /\ seRaced' = IF \E q \in Resolvers : seResolver[q] = i THEN seRaced \cup {i} ELSE seRaced
            /\ seSignals' = seSignals
        BY <1>4, <2>2 DEF SE!ResolveSignalRead
      <3>2. i \in DOMAIN seSignals /\ seSignals[i].by = SE!None /\ i \in 1..MaxSignals
        BY <2>2 DEF SE!ReadAsOpen, SE!Open, SE!Exists, SE!Ids
      <3>3. /\ seResolver'[r] = i /\ \A q \in Resolvers \ {r} : seResolver'[q] = seResolver[q]
            /\ seResolver' \in [Resolvers -> 0..MaxSignals]
        BY <3>1, <3>2, SecurityAssumption DEF SignalsInv
      <3>4. ResolversOk'
        BY <3>1, <3>2, <3>3 DEF SignalsInv, ResolversOk
      <3>5. SE!SeverityIsWorst'
        BY <3>1, WorstByRow, WorstByRowNext DEF SignalsInv
      <3> QED
        BY <3>1, <3>3, <3>4, <3>5 DEF SignalsInv
    <2> QED
      BY <2>1, <2>2
  <1>5. ASSUME NEW r \in Resolvers, SE!ResolveSignalCommit(r)
        PROVE  SignalsInv'
    <2> DEFINE i == seResolver[r]
               row == [seSignals[i] EXCEPT !.by = r]
    <2>1. /\ i # 0 /\ seSignals' = [seSignals EXCEPT ![i].by = r]
          /\ seResolver' = [seResolver EXCEPT ![r] = 0] /\ seRaced' = seRaced
      BY <1>5 DEF SE!ResolveSignalCommit
    <2>2. i \in DOMAIN seSignals /\ seSignals \in Seq(SignalRows) /\ seResolver \in [Resolvers -> 0..MaxSignals]
      BY <2>1 DEF SignalsInv, ResolversOk
    <2>3. seSignals[i] \in SignalRows
      BY <2>2
    <2>4. row \in SignalRows /\ row.severity = seSignals[i].severity /\ row.evidence = seSignals[i].evidence
      BY <2>3 DEF SignalRows
    <2>5. /\ seSignals' \in Seq(SignalRows) /\ DOMAIN seSignals' = DOMAIN seSignals
          /\ seSignals'[i] = row /\ \A j \in DOMAIN seSignals \ {i} : seSignals'[j] = seSignals[j]
      <3> HIDE DEF i
      <3>1. seSignals' = [seSignals EXCEPT ![i] = row]
        BY <2>1, <2>2
      <3> HIDE DEF row
      <3> QED
        BY <2>2, <2>4, <3>1
    <2>6. /\ seResolver'[r] = 0 /\ \A q \in Resolvers \ {r} : seResolver'[q] = seResolver[q]
          /\ seResolver' \in [Resolvers -> 0..MaxSignals]
      BY <2>1, <2>2, SecurityAssumption
    <2>7. ResolversOk'
      BY <2>1, <2>2, <2>5, <2>6 DEF SignalsInv, ResolversOk
    <2>8. RowIsWorst(row)
      <3>1. RowIsWorst(seSignals[i])
        BY <2>2, WorstByRow DEF SignalsInv
      <3> HIDE DEF i, row
      <3> QED
        BY <2>4, <3>1 DEF RowIsWorst
    <2>9. SE!SeverityIsWorst'
      <3> HIDE DEF i, row
      <3> QED
        BY <2>5, <2>8, WorstByRow, WorstByRowNext DEF SignalsInv
    <2> QED
      BY <2>5, <2>6, <2>7, <2>9 DEF SignalsInv
  <1>6. CASE UNCHANGED <<seSignals, seResolver, seRaced>>
    BY <1>6, SignalsSame
  <1> QED
    BY <1>1, <1>2, <1>3, <1>4, <1>5, <1>6 DEF SE!SignalStep, SE!GetSignal, SE!ReadSignals

\* What the invariant says of one emitter, and of numbers.
LEMMA TrailFacts ==
  ASSUME TrailInv
  PROVE  /\ MaxEvents \in Nat /\ seLastId \in Nat /\ seLastId <= MaxEvents
         /\ DOMAIN seTrail \subseteq 1..seLastId /\ \A i \in DOMAIN seTrail : i \in Nat /\ i <= seLastId
         /\ \A e \in Emitters : /\ seEmitter[e] \in Appends /\ seEmitter[e].last \in 0..MaxEvents
                                 /\ seEmitter[e].id \in 0..MaxEvents
         /\ ReadersOk /\ InsertsOk /\ RowsOk
  BY SecurityAssumption DEF TrailInv, Appends

\* One emitter changes, and the others go on.
LEMMA EmitterTurns ==
  ASSUME TrailInv, NEW e \in Emitters, NEW call \in Appends, seEmitter' = [seEmitter EXCEPT ![e] = call]
  PROVE  /\ seEmitter' \in [Emitters -> Appends] /\ seEmitter'[e] = call
         /\ \A f \in Emitters : f # e => seEmitter'[f] = seEmitter[f]
  BY DEF TrailInv

\* The read sees every committed row.
LEMMA AppendReadKeeps ==
  ASSUME TrailInv, NEW e \in Emitters, SE!AppendRead(e)
  PROVE  TrailInv'
  <1>0. UNCHANGED <<seTrail, seLastId, seOvertaken, seForked>> /\ seEmitter[e].step = "idle"
    BY DEF SE!AppendRead
  <1>1. PICK last \in DOMAIN seTrail \cup {0} :
          SE!Newest(last, DOMAIN seTrail) /\ seEmitter' = [seEmitter EXCEPT ![e] = [step |-> "read", last |-> last, id |-> 0]]
    BY DEF SE!AppendRead, SE!LastHash
  <1>2. PICK call : call = [step |-> "read", last |-> last, id |-> 0]
    OBVIOUS
  <1>3. last <= seLastId /\ last \in 0..MaxEvents /\ 0 \in 0..MaxEvents
    BY TrailFacts
  <1>4. call \in Appends /\ call.step = "read" /\ call.last = last
    BY <1>2, <1>3 DEF Appends
  <1>5. /\ seEmitter' \in [Emitters -> Appends] /\ seEmitter'[e] = call
        /\ \A f \in Emitters : f # e => seEmitter'[f] = seEmitter[f]
    BY <1>1, <1>2, <1>4, EmitterTurns
  <1>6. \A f \in Emitters : seEmitter'[f].step = "inserted" => f # e /\ seEmitter'[f] = seEmitter[f]
    BY <1>4, <1>5
  <1>7. ASSUME NEW i, NEW k, Settled(i, k) PROVE Settled(i, k)'
    BY <1>0, <1>6, <1>7 DEF Settled, Before, SE!Newest
  <1>8. ReadersOk'
    BY <1>0, <1>1, <1>3, <1>4, <1>5, TrailFacts DEF ReadersOk, SE!Newest
  <1>9. InsertsOk'
    BY <1>0, <1>6, <1>7, TrailFacts DEF InsertsOk
  <1>10. RowsOk'
    BY <1>0, <1>7, TrailFacts DEF RowsOk
  <1> QED
    BY <1>0, <1>5, <1>8, <1>9, <1>10 DEF TrailInv

\* The id is larger than all others; if nothing was committed since the read and
\* nothing is about to be, the row follows the newest one.
LEMMA AppendInsertKeeps ==
  ASSUME TrailInv, NEW e \in Emitters, SE!AppendInsert(e)
  PROVE  TrailInv'
  <1>0. /\ seTrail' = seTrail /\ seEmitter[e].step = "read" /\ seLastId' = seLastId + 1 /\ seLastId < MaxEvents
        /\ seForked' = IF e \in seOvertaken \/ SE!Inserted # {} THEN seForked \cup {seLastId + 1} ELSE seForked
        /\ seOvertaken' = seOvertaken \ {e}
    BY DEF SE!AppendInsert
  <1>1. PICK n : n = seLastId + 1
    OBVIOUS
  <1>2. PICK call : call = [seEmitter[e] EXCEPT !.step = "inserted", !.id = n]
    OBVIOUS
  <1>3. n \in 0..MaxEvents /\ n \in Nat /\ n > seLastId /\ seLastId' = n /\ n \notin DOMAIN seTrail
    BY <1>0, <1>1, TrailFacts
  <1>4. call \in Appends /\ call.step = "inserted" /\ call.id = n /\ call.last = seEmitter[e].last
    BY <1>2, <1>3, TrailFacts DEF Appends
  <1>5. seEmitter' = [seEmitter EXCEPT ![e] = call]
    BY <1>1, <1>2 DEF SE!AppendInsert, TrailInv
  <1>6. /\ seEmitter' \in [Emitters -> Appends] /\ seEmitter'[e] = call
        /\ \A f \in Emitters : f # e => seEmitter'[f] = seEmitter[f]
    BY <1>4, <1>5, EmitterTurns
  <1>7. \A f \in Emitters : f # e /\ seEmitter[f].step = "inserted" => seEmitter[f].id \in Nat /\ seEmitter[f].id < n
    BY <1>3, TrailFacts DEF InsertsOk
  <1>8. ASSUME NEW i \in Nat, NEW k, i <= seLastId, Settled(i, k) PROVE Settled(i, k)'
    <2>1. ASSUME NEW f \in Emitters, seEmitter'[f].step = "inserted" PROVE seEmitter'[f].id >= i
      <3>1. CASE f = e
        BY <1>3, <1>4, <1>6, <1>8, <3>1, TrailFacts
      <3>2. CASE f # e
        BY <1>6, <1>8, <2>1, <3>2 DEF Settled
      <3> QED
        BY <3>1, <3>2
    <2> QED
      BY <1>0, <1>8, <2>1 DEF Settled, Before, SE!Newest
  <1>9. n \notin seForked' => Settled(n, call.last)'
    <2> SUFFICES ASSUME n \notin seForked' PROVE Settled(n, call.last)'
      OBVIOUS
    <2>1. e \notin seOvertaken /\ \A f \in Emitters : seEmitter[f].step # "inserted"
      BY <1>0, <1>1 DEF SE!Inserted
    <2>2. SE!Newest(call.last, DOMAIN seTrail)
      BY <1>0, <1>4, <2>1, TrailFacts DEF ReadersOk
    <2>3. Before(n)' = DOMAIN seTrail
      <3>1. \A j \in DOMAIN seTrail : j < n
        BY <1>3, TrailFacts
      <3> QED
        BY <1>0, <3>1 DEF Before
    <2>4. \A f \in Emitters : seEmitter'[f].step = "inserted" => seEmitter'[f].id >= n
      BY <1>3, <1>4, <1>6, <2>1
    <2> QED
      BY <2>2, <2>3, <2>4 DEF Settled, SE!Newest
  <1>10. \A i \in Nat : i <= seLastId /\ i \notin seForked' => i \notin seForked
    BY <1>0
  <1>11. ReadersOk'
    <2> SUFFICES ASSUME NEW f \in Emitters, seEmitter'[f].step = "read"
                 PROVE  seEmitter'[f].last <= seLastId' /\ (f \notin seOvertaken' => SE!Newest(seEmitter'[f].last, DOMAIN seTrail'))
      BY DEF ReadersOk, SE!Newest
    <2>1. f # e /\ seEmitter'[f] = seEmitter[f]
      BY <1>4, <1>6
    <2>2. seEmitter[f].last <= seLastId /\ seEmitter[f].last \in Nat
      BY <2>1, TrailFacts DEF ReadersOk
    <2> QED
      BY <1>0, <1>3, <2>1, <2>2, TrailFacts DEF ReadersOk
  <1>12. InsertsOk'
    <2>1. ASSUME NEW f \in Emitters, seEmitter'[f].step = "inserted"
          PROVE  /\ seEmitter'[f].id \in (1..seLastId') \ DOMAIN seTrail'
                 /\ seEmitter'[f].last < seEmitter'[f].id
                 /\ seEmitter'[f].id \notin seForked' => (Settled(seEmitter[f].id, seEmitter[f].last))'
      <3>1. CASE f = e
        <4>1. call.last < n
          BY <1>0, <1>3, <1>4, TrailFacts DEF ReadersOk
        <4> QED
          BY <1>0, <1>3, <1>4, <1>6, <1>9, <3>1, <4>1, TrailFacts DEF Settled, Before, SE!Newest
      <3>2. CASE f # e
        <4>1. /\ seEmitter'[f] = seEmitter[f] /\ seEmitter[f].id \in (1..seLastId) \ DOMAIN seTrail
              /\ seEmitter[f].last < seEmitter[f].id
              /\ seEmitter[f].id \notin seForked => Settled(seEmitter[f].id, seEmitter[f].last)
          BY <1>6, <2>1, <3>2, TrailFacts DEF InsertsOk
        <4>2. seEmitter[f].id \in Nat /\ seEmitter[f].id <= seLastId
          BY <4>1, TrailFacts
        <4>3. seEmitter[f].id \notin seForked' => Settled(seEmitter[f].id, seEmitter[f].last)'
          BY <1>8, <1>10, <4>1, <4>2
        <4> QED
          BY <1>0, <1>3, <4>1, <4>2, <4>3, TrailFacts DEF Settled, Before, SE!Newest
      <3> QED
        BY <3>1, <3>2
    <2>2. ASSUME NEW f \in Emitters, NEW g \in Emitters, f # g, seEmitter'[f].step = "inserted", seEmitter'[g].step = "inserted"
          PROVE  seEmitter'[f].id # seEmitter'[g].id
      <3>1. CASE f = e \/ g = e
        BY <1>3, <1>4, <1>6, <1>7, <2>2, <3>1
      <3>2. CASE f # e /\ g # e
        BY <1>6, <2>2, <3>2, TrailFacts DEF InsertsOk
      <3> QED
        BY <3>1, <3>2
    <2> QED
      BY <2>1, <2>2 DEF InsertsOk
  <1>13. RowsOk'
    BY <1>0, <1>8, <1>10, TrailFacts DEF RowsOk
  <1>14. seLastId' \in 0..MaxEvents /\ DOMAIN seTrail' \subseteq 1..seLastId'
    BY <1>0, <1>3, TrailFacts
  <1> QED
    BY <1>6, <1>11, <1>12, <1>13, <1>14 DEF TrailInv

\* The commit comes before no settled row, and overtakes whoever has read.
LEMMA AppendCommitKeeps ==
  ASSUME TrailInv, NEW e \in Emitters, SE!AppendCommit(e)
  PROVE  TrailInv'
  <1>0. /\ seEmitter[e].step = "inserted" /\ seEmitter' = [seEmitter EXCEPT ![e] = SE!Idle]
        /\ seTrail' = [i \in DOMAIN seTrail \cup {seEmitter[e].id} |->
                        IF i = seEmitter[e].id THEN seEmitter[e].last ELSE seTrail[i]]
        /\ seOvertaken' = seOvertaken \cup {f \in Emitters : seEmitter[f].step = "read"}
        /\ seLastId' = seLastId /\ seForked' = seForked
    BY DEF SE!AppendCommit
  <1>1. PICK n, last : n = seEmitter[e].id /\ last = seEmitter[e].last
    OBVIOUS
  <1>2. /\ n \in (1..seLastId) \ DOMAIN seTrail /\ last < n /\ last \in Nat /\ n \in Nat
        /\ n \notin seForked => Settled(n, last)
    BY <1>0, <1>1, TrailFacts DEF InsertsOk
  <1>3. /\ DOMAIN seTrail' = DOMAIN seTrail \cup {n} /\ seTrail'[n] = last
        /\ \A i \in DOMAIN seTrail : seTrail'[i] = seTrail[i]
    BY <1>0, <1>1, <1>2
  <1>4. SE!Idle \in Appends /\ SE!Idle.step = "idle"
    BY SecurityAssumption DEF SE!Idle, Appends
  <1>5. /\ seEmitter' \in [Emitters -> Appends] /\ seEmitter'[e] = SE!Idle
        /\ \A f \in Emitters : f # e => seEmitter'[f] = seEmitter[f]
    BY <1>0, <1>4, EmitterTurns
  <1>6. \A f \in Emitters : seEmitter'[f].step \in {"read", "inserted"} => f # e /\ seEmitter'[f] = seEmitter[f]
    BY <1>4, <1>5
  <1>7. ASSUME NEW i \in Nat, NEW k, Settled(i, k) PROVE Settled(i, k)'
    <2>1. n >= i
      BY <1>0, <1>1, <1>7 DEF Settled
    <2>2. Before(i)' = Before(i)
      BY <1>2, <1>3, <2>1 DEF Before
    <2> QED
      BY <1>6, <1>7, <2>2 DEF Settled, SE!Newest
  <1>8. ReadersOk'
    BY <1>0, <1>6, TrailFacts DEF ReadersOk
  <1>9. InsertsOk'
    <2>1. ASSUME NEW f \in Emitters, seEmitter'[f].step = "inserted"
          PROVE  /\ seEmitter'[f].id \in (1..seLastId') \ DOMAIN seTrail'
                 /\ seEmitter'[f].last < seEmitter'[f].id
                 /\ seEmitter'[f].id \notin seForked' => (Settled(seEmitter[f].id, seEmitter[f].last))'
      <3>1. f # e /\ seEmitter'[f] = seEmitter[f]
        BY <1>6, <2>1
      <3>2. /\ seEmitter[f].id \in (1..seLastId) \ DOMAIN seTrail /\ seEmitter[f].id # n
            /\ seEmitter[f].last < seEmitter[f].id
            /\ seEmitter[f].id \notin seForked => Settled(seEmitter[f].id, seEmitter[f].last)
        BY <1>0, <1>1, <2>1, <3>1, TrailFacts DEF InsertsOk
      <3>3. seEmitter[f].id \notin seForked => Settled(seEmitter[f].id, seEmitter[f].last)'
        BY <1>7, <3>1, <3>2, TrailFacts
      <3> QED
        BY <1>0, <1>3, <3>1, <3>2, <3>3 DEF Settled, Before, SE!Newest
    <2>2. \A f, g \in Emitters :
            f # g /\ seEmitter'[f].step = "inserted" /\ seEmitter'[g].step = "inserted" => seEmitter'[f].id # seEmitter'[g].id
      BY <1>6, TrailFacts DEF InsertsOk
    <2> QED
      BY <2>1, <2>2 DEF InsertsOk
  <1>10. RowsOk'
    <2> SUFFICES ASSUME NEW i \in DOMAIN seTrail'
                 PROVE  seTrail'[i] \in 0..(i - 1) /\ (i \notin seForked' => (Settled(i, seTrail[i]))')
      BY DEF RowsOk
    <2>1. CASE i = n
      <3>1. last \in 0..(n - 1)
        BY <1>2
      <3>2. n \notin seForked => Settled(n, last)'
        BY <1>2, <1>7
      <3> QED
        BY <1>0, <1>3, <2>1, <3>1, <3>2 DEF Settled, Before, SE!Newest
    <2>2. CASE i # n
      <3>1. i \in DOMAIN seTrail /\ i \in Nat /\ seTrail'[i] = seTrail[i]
        BY <1>3, <2>2, TrailFacts
      <3>2. seTrail[i] \in 0..(i - 1) /\ (i \notin seForked => Settled(i, seTrail[i]))
        BY <3>1, TrailFacts DEF RowsOk
      <3>3. i \notin seForked => Settled(i, seTrail[i])'
        BY <1>7, <3>1, <3>2
      <3> QED
        BY <1>0, <3>1, <3>2, <3>3 DEF Settled, Before, SE!Newest
    <2> QED
      BY <2>1, <2>2
  <1>11. seLastId' \in 0..MaxEvents /\ DOMAIN seTrail' \subseteq 1..seLastId'
    BY <1>0, <1>2, <1>3, TrailFacts
  <1> QED
    BY <1>5, <1>8, <1>9, <1>10, <1>11 DEF TrailInv

\* An append that fails leaves nothing behind.
LEMMA EmitFailsKeeps ==
  ASSUME TrailInv, NEW e \in Emitters, SE!EmitFails(e)
  PROVE  TrailInv'
  <1>0. /\ UNCHANGED <<seTrail, seLastId, seForked>> /\ seEmitter' = [seEmitter EXCEPT ![e] = SE!Idle]
        /\ seOvertaken' = seOvertaken \ {e}
    BY DEF SE!EmitFails
  <1>1. SE!Idle \in Appends /\ SE!Idle.step = "idle"
    BY SecurityAssumption DEF SE!Idle, Appends
  <1>2. /\ seEmitter' \in [Emitters -> Appends] /\ seEmitter'[e] = SE!Idle
        /\ \A f \in Emitters : f # e => seEmitter'[f] = seEmitter[f]
    BY <1>0, <1>1, EmitterTurns
  <1>3. \A f \in Emitters : seEmitter'[f].step \in {"read", "inserted"} => f # e /\ seEmitter'[f] = seEmitter[f]
    BY <1>1, <1>2
  <1>4. ASSUME NEW i, NEW k, Settled(i, k) PROVE Settled(i, k)'
    BY <1>0, <1>3, <1>4 DEF Settled, Before, SE!Newest
  <1>5. ReadersOk'
    BY <1>0, <1>3, TrailFacts DEF ReadersOk
  <1>6. InsertsOk'
    BY <1>0, <1>3, <1>4, TrailFacts DEF InsertsOk
  <1>7. RowsOk'
    BY <1>0, <1>4, TrailFacts DEF RowsOk
  <1> QED
    BY <1>0, <1>2, <1>5, <1>6, <1>7 DEF TrailInv

\* Steps on the audit trail keep its part.
LEMMA AuditStepKeeps ==
  ASSUME TrailInv, SE!AuditStep
  PROVE  TrailInv'
  BY AppendReadKeeps, AppendInsertKeeps, AppendCommitKeeps, EmitFailsKeeps DEF SE!AuditStep

\* A step leaves the trail or the signals alone.
LEMMA TrailSame ==
  ASSUME TrailInv, UNCHANGED SE!auditVars
  PROVE  TrailInv'
  BY DEF TrailInv, SE!auditVars, ReadersOk, InsertsOk, RowsOk, Settled, Before, SE!Newest

\* Signals and trail do not touch each other.
LEMMA StepsAreApart ==
  /\ SE!SignalStep => UNCHANGED SE!auditVars
  /\ SE!AuditStep => UNCHANGED <<seSignals, seResolver, seRaced>>
  <1>1. SE!SignalStep => UNCHANGED SE!auditVars
    BY DEF SE!SignalStep, SE!CreateSignalByHand, SE!CreateSignal, SE!ObservationSourceNoise,
           SE!ObservationKeySuspicion, SE!GetSignal, SE!ReadSignals, SE!ResolveSignalRead,
           SE!ResolveSignalCommit
  <1>2. SE!AuditStep => UNCHANGED <<seSignals, seResolver, seRaced>>
    BY DEF SE!AuditStep, SE!AppendRead, SE!AppendInsert, SE!AppendCommit, SE!EmitFails
  <1> QED
    BY <1>1, <1>2

\* Every step keeps the invariant.
LEMMA SecurityNext ==
  ASSUME SecurityInv, [SE!Next]_(SE!vars)
  PROVE  SecurityInv'
  <1>1. CASE SE!SignalStep
    BY <1>1, SignalStepKeeps, TrailSame, StepsAreApart DEF SecurityInv
  <1>2. CASE SE!AuditStep
    BY <1>2, AuditStepKeeps, SignalsSame, StepsAreApart DEF SecurityInv
  <1>3. CASE UNCHANGED SE!vars
    BY <1>3, TrailSame, SignalsSame DEF SecurityInv, SE!vars, SE!auditVars
  <1> QED
    BY <1>1, <1>2, <1>3 DEF SE!Next

\* The invariant is what is promised.
LEMMA SecurityImplies == SecurityInv => SE!TypeOK /\ SE!TrailIsChain /\ SE!SeverityIsWorst
  <1> SUFFICES ASSUME SecurityInv PROVE SE!TypeOK /\ SE!TrailIsChain /\ SE!SeverityIsWorst
    OBVIOUS
  <1>1. \A i \in DOMAIN seSignals : seSignals[i].by \in Resolvers \cup {SE!None}
    <2>1. \A i \in DOMAIN seSignals : seSignals[i] \in SignalRows
      BY DEF SecurityInv, SignalsInv
    <2> QED
      BY <2>1 DEF SignalRows
  <1>2. SE!TrailIsChain
    BY DEF SecurityInv, TrailInv, RowsOk, Settled, Before, SE!TrailIsChain
  <1> QED
    BY <1>1, <1>2 DEF SecurityInv, SignalsInv, TrailInv, Appends, SE!TypeOK

\* A step that replaces a resolution is one of an overlap.
LEMMA ReplacesRaced ==
  ASSUME SecurityInv, [SE!Next]_(SE!vars), NEW i \in DOMAIN seSignals,
         seSignals[i].by # SE!None, seSignals'[i].by # seSignals[i].by
  PROVE  i \in seRaced
  <1>0. seSignals \in Seq(SignalRows)
    BY DEF SecurityInv, SignalsInv
  <1>1. \A row : i \in 1..Len(seSignals) => Append(seSignals, row)[i] = seSignals[i]
    BY <1>0
  <1>2. ~UNCHANGED seSignals /\ ~\E row : seSignals' = Append(seSignals, row)
    BY <1>0, <1>1
  <1>3. PICK r \in Resolvers : SE!ResolveSignalCommit(r)
    <2>1. \A s, e, t : ~SE!CreateSignal(s, e, t)
      BY <1>2 DEF SE!CreateSignal
    <2>2. SE!SignalStep
      BY <1>2, StepsAreApart DEF SE!Next, SE!vars
    <2>3. \A s, t : ~SE!CreateSignalByHand(s, t)
      BY <2>1 DEF SE!CreateSignalByHand
    <2>4. \A c, w, q : ~SE!ObservationSourceNoise(c, w, q)
      BY <1>2, <2>1 DEF SE!ObservationSourceNoise
    <2>5. \A f, n, p, t : ~SE!ObservationKeySuspicion(f, n, p, t)
      BY <1>2, <2>1 DEF SE!ObservationKeySuspicion
    <2>6. /\ \A j, t : ~SE!GetSignal(j, t)
          /\ \A answer : ~SE!ReadSignals(answer)
          /\ \A q, j : ~SE!ResolveSignalRead(q, j)
      BY <1>2 DEF SE!GetSignal, SE!ReadSignals, SE!ResolveSignalRead
    <2> QED
      BY <2>2, <2>3, <2>4, <2>5, <2>6 DEF SE!SignalStep
  <1>4. seResolver[r] # 0 /\ seSignals' = [seSignals EXCEPT ![seResolver[r]].by = r]
    BY <1>3 DEF SE!ResolveSignalCommit
  <1>5. seResolver[r] = i
    BY <1>0, <1>4
  <1> QED
    BY <1>4, <1>5 DEF SecurityInv, SignalsInv, ResolversOk

\* For any number of resolvers and emitters, the audit trail is
\* one chain but for appends that overlapped, and a noise signal has the worst
\* severity that its count reaches.
THEOREM RecordsHold == SE!Spec => [](SE!TrailIsChain /\ SE!SeverityIsWorst)
  <1>1. SE!Spec => []SecurityInv
    BY SecurityInit, SecurityNext, PTL DEF SE!Spec
  <1> QED
    BY <1>1, SecurityImplies, PTL

\* A resolution is replaced only by one that had read the
\* signal as open too (resolve_signal).
THEOREM ResolvedByOne == SE!Spec => SE!ResolvedOnce
  <1>1. ASSUME SecurityInv, [SE!Next]_(SE!vars)
        PROVE  [\A i \in DOMAIN seSignals : seSignals[i].by # SE!None /\ seSignals'[i].by # seSignals[i].by
                   => i \in seRaced]_(SE!vars)
    BY <1>1, ReplacesRaced
  <1> QED
    BY <1>1, SecurityInit, SecurityNext, PTL DEF SE!Spec, SE!ResolvedOnce

-----------------------------------------------------------------------------
(* Rate limits: the account of a bucket and the deque of the window.        *)

\* RateLimits counts with the Cardinality of its own copy of FiniteSets.
LEMMA LimitsCardinality == \A S : RL!Cardinality(S) = Cardinality(S)
  BY DEF RL!Cardinality, Cardinality

\* What a bucket holds and what it admitted since any of its admissions does not
\* exceed a full bucket and the refill since then.
BucketOk(s) ==
  /\ rlBucket[s] \in [units : 0..RL!Full, last : {RL!None} \cup (0..rlClock)]
  /\ rlAdmitted[s] \in Seq(Nat)
  /\ rlBucket[s].last = RL!None => rlAdmitted[s] = <<>> /\ rlPromise[s] = RL!None
  /\ \A i \in 1..Len(rlAdmitted[s]) :
       rlBucket[s].units + (Len(rlAdmitted[s]) - i + 1) * Unit
         <= RL!Full + Rate * (rlBucket[s].last - rlAdmitted[s][i])
  /\ \A j \in 1..Len(rlAdmitted[s]) : \A i \in 1..j :
       (j - i + 1) * Unit <= RL!Full + Rate * (rlAdmitted[s][j] - rlAdmitted[s][i])
  /\ rlPromise[s] # RL!None => /\ rlBucket[s].units < Unit
                               /\ rlPromise[s] = rlBucket[s].last + RL!RetryAfter(rlBucket[s].units)

BucketsInv ==
  /\ rlClock \in 0..MaxClock
  /\ rlBucket = [s \in RL!Stores |-> rlBucket[s]]
  /\ rlAdmitted = [s \in RL!Stores |-> rlAdmitted[s]]
  /\ rlPromise = [s \in RL!Stores |-> rlPromise[s]]
  /\ \A s \in RL!Stores : BucketOk(s)

\* The deque is the end of what was admitted; the rest is outdated.
WindowInv ==
  /\ rlClock \in 0..MaxClock
  /\ rlWindow \in Seq(Nat) /\ Len(rlWindow) <= Limit
  /\ rlPassed \in Seq(Nat) /\ Len(rlWindow) <= Len(rlPassed)
  /\ \A i \in 1..Len(rlWindow) : rlWindow[i] = rlPassed[Len(rlPassed) - Len(rlWindow) + i]
  /\ \A i \in 1..(Len(rlPassed) - Len(rlWindow)) : RL!Outdated(rlPassed[i])
  /\ RL!SlidingIsExact

LimitsInv == BucketsInv /\ WindowInv

\* A full bucket holds a token.
LEMMA FullHasToken == RL!Full \in Nat /\ RL!Full >= Unit
  <1>1. PICK c \in Nat : Capacity = c + 1
    <2>1. Capacity - 1 \in Nat /\ Capacity = (Capacity - 1) + 1
      BY LimitsAssumption
    <2> QED
      BY <2>1
  <1>2. RL!Full = c * Unit + Unit
    BY <1>1, LimitsAssumption DEF RL!Full
  <1>3. c * Unit \in Nat
    BY LimitsAssumption
  <1> QED
    BY <1>2, <1>3, LimitsAssumption

\* Division rounded up suffices.
LEMMA CeilSuffices ==
  ASSUME NEW a \in Nat, NEW b \in Nat \ {0}
  PROVE  RL!CeilDiv(a, b) \in Nat /\ b * RL!CeilDiv(a, b) >= a
  BY DEF RL!CeilDiv

\* The time after which a Redis bucket is forgotten fills it.
LEMMA TtlFills == RL!Ttl \in Nat /\ Rate * RL!Ttl >= RL!Full
  <1> DEFINE t == RL!CeilDiv(RL!Full * 2, Rate)
  <1>1. t \in Nat /\ Rate * t >= RL!Full * 2
    BY FullHasToken, LimitsAssumption, CeilSuffices
  <1>2. RL!Ttl = t \/ (RL!Ttl = 1 /\ t < 1)
    BY DEF RL!Ttl
  <1>3. CASE RL!Ttl = t
    <2> HIDE DEF t
    <2>1. Rate * t \in Nat /\ RL!Full * 2 >= RL!Full
      BY <1>1, FullHasToken, LimitsAssumption
    <2> QED
      BY <1>1, <1>3, <2>1, FullHasToken
  <1>4. CASE RL!Ttl = 1 /\ t < 1
    <2>1. t = 0
      BY <1>1, <1>4
    <2>2. RL!Full = 0
      BY <1>1, <2>1, FullHasToken, LimitsAssumption
    <2> QED
      BY <1>4, <2>2, LimitsAssumption
  <1> HIDE DEF t
  <1> QED
    BY <1>2, <1>3, <1>4

\* A product with a larger number is larger.
LEMMA TimesGrows ==
  ASSUME NEW k \in Nat, NEW a \in Int, NEW b \in Int, a <= b
  PROVE  k * a <= k * b
  <1>1. k * (b - a) >= 0
    BY LimitsAssumption
  <1>2. k * (b - a) = k * b - k * a
    OBVIOUS
  <1> QED
    BY <1>1, <1>2

\* A refill is at most what was left and the refill of the time that passed, also
\* when the bucket was forgotten meanwhile.
LEMMA RefilledBounds ==
  ASSUME BucketsInv, NEW s \in RL!Stores
  PROVE  /\ RL!Refilled(s) \in 0..RL!Full
         /\ rlBucket[s].last # RL!None =>
              RL!Refilled(s) <= rlBucket[s].units + Rate * (rlClock - rlBucket[s].last)
  <1>1. /\ rlBucket[s].units \in 0..RL!Full /\ rlBucket[s].last \in {RL!None} \cup (0..rlClock)
        /\ rlClock \in Nat
    BY LimitsAssumption DEF BucketsInv, BucketOk
  <1>2. CASE rlBucket[s].last = RL!None
    BY <1>2, FullHasToken DEF RL!Refilled, RL!Fresh
  <1>3. CASE rlBucket[s].last # RL!None
    <2>1. rlBucket[s].last \in 0..rlClock /\ rlClock - rlBucket[s].last \in Nat
      BY <1>1, <1>3
    <2>2. Rate * (rlClock - rlBucket[s].last) \in Nat
      BY <2>1, LimitsAssumption
    <2>3. CASE RL!Fresh(s)
      <3>1. rlClock - rlBucket[s].last >= RL!Ttl
        BY <1>1, <1>3, <2>1, <2>3, TtlFills DEF RL!Fresh
      <3>2. Rate * RL!Ttl <= Rate * (rlClock - rlBucket[s].last)
        BY <2>1, <3>1, TimesGrows, TtlFills, LimitsAssumption
      <3>3. Rate * RL!Ttl \in Nat
        BY TtlFills, LimitsAssumption
      <3>4. RL!Full <= Rate * (rlClock - rlBucket[s].last)
        BY <2>2, <3>2, <3>3, TtlFills, FullHasToken
      <3> QED
        BY <1>1, <2>2, <2>3, <3>4, FullHasToken DEF RL!Refilled
    <2>4. CASE ~RL!Fresh(s)
      <3>1. (rlClock - rlBucket[s].last) * Rate = Rate * (rlClock - rlBucket[s].last)
        BY <2>1, LimitsAssumption
      <3>2. RL!Refilled(s) = RL!Least(RL!Full, rlBucket[s].units + Rate * (rlClock - rlBucket[s].last))
        BY <2>4, <3>1 DEF RL!Refilled
      <3> QED
        BY <1>1, <2>2, <3>2, FullHasToken DEF RL!Least
    <2> QED
      BY <2>3, <2>4
  <1> QED
    BY <1>2, <1>3

\* The arithmetic of one consumption: refilled at time c, of what was left at time l,
\* with n tokens spent since time a.
LEMMA AccountGoesOn ==
  ASSUME NEW u \in Nat, NEW v \in Nat, NEW n \in Int, NEW a \in Int, NEW l \in Int, NEW c \in Int,
         u + n * Unit <= RL!Full + Rate * (l - a),
         v <= u + Rate * (c - l)
  PROVE  v + n * Unit <= RL!Full + Rate * (c - a)
  <1>1. Rate * (l - a) + Rate * (c - l) = Rate * (c - a)
    BY LimitsAssumption
  <1>2. /\ Rate * (l - a) \in Int /\ Rate * (c - l) \in Int /\ Rate * (c - a) \in Int
        /\ n * Unit \in Int
    BY LimitsAssumption
  <1> DEFINE x == Rate * (l - a)
             y == Rate * (c - l)
             z == Rate * (c - a)
             w == n * Unit
  <1>3. x \in Int /\ y \in Int /\ z \in Int /\ w \in Int /\ x + y = z /\ u + w <= RL!Full + x /\ v <= u + y
    BY <1>1, <1>2
  <1> HIDE DEF x, y, z, w
  <1>4. v + w <= RL!Full + z
    BY <1>3, FullHasToken
  <1> QED
    BY <1>4 DEF w, z

\* A consumption keeps the account of its bucket.
LEMMA ConsumeKeeps ==
  ASSUME BucketsInv, NEW s \in RL!Stores, RL!ConsumeFrom(s), UNCHANGED rlClock
  PROVE  BucketsInv'
  <1> DEFINE units == RL!Refilled(s)
             old == rlBucket[s]
             adm == rlAdmitted[s]
             n == Len(adm)
  <1>0. /\ rlClock \in 0..MaxClock /\ rlClock \in Nat
        /\ old \in [units : 0..RL!Full, last : {RL!None} \cup (0..rlClock)]
        /\ adm \in Seq(Nat) /\ n \in Nat
        /\ old.last = RL!None => adm = <<>> /\ rlPromise[s] = RL!None
    BY LimitsAssumption DEF BucketsInv, BucketOk
  <1>1. /\ units \in 0..RL!Full
        /\ old.last # RL!None => units <= old.units + Rate * (rlClock - old.last)
    BY RefilledBounds
  <1>2. /\ \A i \in 1..n : old.units + (n - i + 1) * Unit <= RL!Full + Rate * (old.last - adm[i])
        /\ \A j \in 1..n : \A i \in 1..j : (j - i + 1) * Unit <= RL!Full + Rate * (adm[j] - adm[i])
    BY DEF BucketsInv, BucketOk
  <1>3. ASSUME NEW i \in 1..n
        PROVE  units + (n - i + 1) * Unit <= RL!Full + Rate * (rlClock - adm[i])
    <2>1. adm[i] \in Nat /\ old.last # RL!None
      BY <1>0
    <2>2. old.last \in Int /\ old.units \in Nat /\ units \in Nat /\ n - i + 1 \in Int /\ adm[i] \in Int
      BY <1>0, <1>1, <2>1, FullHasToken
    <2>3. old.units + (n - i + 1) * Unit <= RL!Full + Rate * (old.last - adm[i])
      BY <1>2
    <2>4. units <= old.units + Rate * (rlClock - old.last)
      BY <1>1, <2>1
    <2> HIDE DEF units, n, adm, old
    <2> QED
      BY <1>0, <2>2, <2>3, <2>4, AccountGoesOn
  <1>4. \A t \in RL!Stores \ {s} : /\ rlBucket'[t] = rlBucket[t] /\ rlAdmitted'[t] = rlAdmitted[t]
                                   /\ rlPromise'[t] = rlPromise[t]
    BY DEF RL!ConsumeFrom, BucketsInv
  <1>5. /\ rlBucket' = [t \in RL!Stores |-> rlBucket'[t]]
        /\ rlAdmitted' = [t \in RL!Stores |-> rlAdmitted'[t]]
        /\ rlPromise' = [t \in RL!Stores |-> rlPromise'[t]]
    BY DEF RL!ConsumeFrom, BucketsInv
  <1>6. ASSUME units >= Unit PROVE BucketOk(s)'
    <2>1. /\ rlBucket'[s] = [units |-> units - Unit, last |-> rlClock]
          /\ rlAdmitted'[s] = Append(adm, rlClock) /\ rlPromise'[s] = RL!None
      BY <1>6 DEF RL!ConsumeFrom, BucketsInv
    <2>2. rlBucket'[s] \in [units : 0..RL!Full, last : {RL!None} \cup (0..rlClock)]
      BY <1>0, <1>1, <1>6, <2>1, FullHasToken, LimitsAssumption
    <2>3. /\ rlAdmitted'[s] \in Seq(Nat) /\ Len(rlAdmitted'[s]) = n + 1
          /\ rlAdmitted'[s][n + 1] = rlClock /\ \A i \in 1..n : rlAdmitted'[s][i] = adm[i]
      BY <1>0, <2>1
    <2>4. rlBucket'[s].units = units - Unit /\ rlBucket'[s].last = rlClock
      BY <2>1
    <2>5. ASSUME NEW i \in 1..(n + 1)
          PROVE  units - Unit + (n + 1 - i + 1) * Unit <= RL!Full + Rate * (rlClock - rlAdmitted'[s][i])
      <3>1. CASE i \in 1..n
        <4>1. units + (n - i + 1) * Unit <= RL!Full + Rate * (rlClock - rlAdmitted'[s][i])
          BY <1>3, <2>3, <3>1
        <4>2. (n + 1 - i + 1) * Unit = (n - i + 1) * Unit + Unit
          BY <1>0, LimitsAssumption
        <4>3. (n - i + 1) * Unit \in Int
          BY <1>0, LimitsAssumption
        <4>4. units - Unit + (n + 1 - i + 1) * Unit = units + (n - i + 1) * Unit
          BY <1>1, <4>2, <4>3, LimitsAssumption, FullHasToken
        <4> QED
          BY <4>1, <4>4
      <3>2. CASE i = n + 1
        <4>1. rlClock - rlAdmitted'[s][i] = 0 /\ n + 1 - i + 1 = 1
          BY <1>0, <2>3, <3>2
        <4>2. Rate * (rlClock - rlAdmitted'[s][i]) = 0 /\ (n + 1 - i + 1) * Unit = Unit
          <5>1. Rate * 0 = 0 /\ 1 * Unit = Unit
            BY LimitsAssumption
          <5> QED
            BY <4>1, <5>1
        <4>3. units - Unit + Unit <= RL!Full + 0
          BY <1>1, FullHasToken, LimitsAssumption
        <4> HIDE DEF units, n
        <4> QED
          BY <4>2, <4>3
      <3> QED
        BY <1>0, <3>1, <3>2
    <2>6. ASSUME NEW j \in 1..(n + 1), NEW i \in 1..j
          PROVE  (j - i + 1) * Unit <= RL!Full + Rate * (rlAdmitted'[s][j] - rlAdmitted'[s][i])
      <3>1. CASE j \in 1..n
        <4>1. i \in 1..n
          BY <1>0, <3>1
        <4> QED
          BY <1>2, <2>3, <3>1, <4>1
      <3>2. CASE j = n + 1
        <4>1. units - Unit + (n + 1 - i + 1) * Unit <= RL!Full + Rate * (rlClock - rlAdmitted'[s][i])
          BY <2>5, <3>2
        <4>2. (n + 1 - i + 1) * Unit \in Int /\ Rate * (rlClock - rlAdmitted'[s][i]) \in Int
          <5>1. rlAdmitted'[s][i] \in Nat
            <6>1. i \in 1..Len(rlAdmitted'[s])
              BY <1>0, <2>3, <3>2
            <6> QED
              BY <2>3, <6>1
          <5> QED
            BY <1>0, <5>1, LimitsAssumption
        <4>3. units - Unit >= 0 /\ units - Unit \in Int
          BY <1>1, <1>6, LimitsAssumption, FullHasToken
        <4> DEFINE x == (n + 1 - i + 1) * Unit
                   y == Rate * (rlClock - rlAdmitted'[s][i])
                   d == units - Unit
        <4>4. d + x <= RL!Full + y /\ x \in Int /\ y \in Int /\ d \in Int /\ d >= 0
          BY <4>1, <4>2, <4>3
        <4>5. rlAdmitted'[s][j] = rlClock /\ j - i + 1 = n + 1 - i + 1
          BY <2>3, <3>2
        <4> HIDE DEF x, y, d
        <4>6. x <= RL!Full + y
          BY <4>4, FullHasToken
        <4> QED
          BY <4>5, <4>6 DEF x, y
      <3> QED
        BY <1>0, <3>1, <3>2
    <2>7. BucketOk(s)'
      <3>1. rlBucket'[s].last # RL!None /\ rlPromise'[s] = RL!None
        BY <1>0, <2>1, <2>4 DEF RL!None
      <3>2. \A i \in 1..Len(rlAdmitted'[s]) :
              rlBucket'[s].units + (Len(rlAdmitted'[s]) - i + 1) * Unit
                <= RL!Full + Rate * (rlBucket'[s].last - rlAdmitted'[s][i])
        <4> HIDE DEF units, n
        <4> SUFFICES ASSUME NEW i \in 1..Len(rlAdmitted'[s])
                     PROVE  rlBucket'[s].units + (Len(rlAdmitted'[s]) - i + 1) * Unit
                              <= RL!Full + Rate * (rlBucket'[s].last - rlAdmitted'[s][i])
          OBVIOUS
        <4>0. i \in 1..(n + 1) /\ Len(rlAdmitted'[s]) = n + 1
          BY <2>3
        <4>1. units - Unit + (n + 1 - i + 1) * Unit <= RL!Full + Rate * (rlClock - rlAdmitted'[s][i])
          BY <2>5, <4>0
        <4>2. rlBucket'[s].units + (Len(rlAdmitted'[s]) - i + 1) * Unit
                = units - Unit + (n + 1 - i + 1) * Unit
          <5>1. Len(rlAdmitted'[s]) = n + 1
            BY <4>0
          <5>2. rlBucket'[s].units = units - Unit
            BY <2>4
          <5>3. n \in Nat /\ units \in Nat /\ i \in Nat
            BY <1>0, <1>1, <4>0, FullHasToken
          <5> QED
            BY <5>1, <5>2, <5>3, LimitsAssumption
        <4>3. RL!Full + Rate * (rlBucket'[s].last - rlAdmitted'[s][i])
                = RL!Full + Rate * (rlClock - rlAdmitted'[s][i])
          BY <2>4, Zenon
        <4> QED
          BY <4>1, <4>2, <4>3, Zenon
      <3>3. \A j \in 1..Len(rlAdmitted'[s]) : \A i \in 1..j :
              (j - i + 1) * Unit <= RL!Full + Rate * (rlAdmitted'[s][j] - rlAdmitted'[s][i])
        <4> HIDE DEF units, n
        <4> QED
          BY <2>3, <2>6
      <3> QED
        BY <2>2, <2>3, <3>1, <3>2, <3>3 DEF BucketOk
    <2> QED
      BY <2>7
  <1>7. ASSUME ~(units >= Unit) PROVE BucketOk(s)'
    <2>1. /\ rlBucket'[s] = [units |-> units, last |-> rlClock]
          /\ rlAdmitted'[s] = adm /\ rlPromise'[s] = rlClock + RL!RetryAfter(units)
      BY <1>7 DEF RL!ConsumeFrom, BucketsInv
    <2>2. rlBucket'[s] \in [units : 0..RL!Full, last : {RL!None} \cup (0..rlClock)]
      BY <1>0, <1>1, <2>1
    <2>3. rlBucket'[s].units = units /\ rlBucket'[s].last = rlClock /\ units < Unit
      BY <1>1, <1>7, <2>1, LimitsAssumption, FullHasToken
    <2>4. BucketOk(s)'
      <3>1. rlBucket'[s].last # RL!None
        BY <1>0, <2>3 DEF RL!None
      <3>2. ASSUME NEW i \in 1..Len(rlAdmitted'[s])
            PROVE  rlBucket'[s].units + (Len(rlAdmitted'[s]) - i + 1) * Unit
                     <= RL!Full + Rate * (rlBucket'[s].last - rlAdmitted'[s][i])
        <4> HIDE DEF units
        <4>1. units + (n - i + 1) * Unit <= RL!Full + Rate * (rlClock - adm[i])
          BY <1>3, <2>1
        <4> QED
          BY <2>1, <2>3, <4>1, Zenon
      <3>3. /\ rlAdmitted'[s] \in Seq(Nat)
            /\ \A j \in 1..Len(rlAdmitted'[s]) : \A i \in 1..j :
                 (j - i + 1) * Unit <= RL!Full + Rate * (rlAdmitted'[s][j] - rlAdmitted'[s][i])
        BY <1>0, <1>2, <2>1
      <3>4. rlPromise'[s] # RL!None => /\ rlBucket'[s].units < Unit
                                       /\ rlPromise'[s] = rlBucket'[s].last + RL!RetryAfter(rlBucket'[s].units)
        BY <2>1, <2>3
      <3> HIDE DEF units, n
      <3> QED
        BY <2>2, <3>1, <3>2, <3>3, <3>4 DEF BucketOk, RL!RetryAfter
    <2> QED
      BY <2>4
  <1>8. ASSUME NEW t \in RL!Stores \ {s} PROVE BucketOk(t)'
    BY <1>4 DEF BucketsInv, BucketOk, RL!RetryAfter
  <1> HIDE DEF units
  <1> QED
    BY <1>0, <1>5, <1>6, <1>7, <1>8 DEF BucketsInv

\* A tick keeps every account, and leaves the outdated outdated.
LEMMA TickKeeps ==
  ASSUME LimitsInv, RL!Tick
  PROVE  LimitsInv'
  <1>0. rlClock \in Nat /\ rlClock' = rlClock + 1 /\ rlClock' \in 0..MaxClock
    BY LimitsAssumption DEF LimitsInv, BucketsInv, RL!Tick
  <1>1. UNCHANGED <<rlBucket, rlWindow, rlAdmitted, rlPassed, rlPromise>>
    BY DEF RL!Tick
  <1>2. ASSUME NEW s \in RL!Stores PROVE BucketOk(s)'
    <2>1. BucketOk(s)
      BY DEF LimitsInv, BucketsInv
    <2>2. 0..rlClock \subseteq 0..rlClock'
      BY <1>0
    <2>4. rlBucket[s] \in [units : 0..RL!Full, last : {RL!None} \cup (0..rlClock')]
      BY <2>1, <2>2 DEF BucketOk
    <2> QED
      BY <1>1, <2>1, <2>4 DEF BucketOk, RL!RetryAfter
  <1>3. BucketsInv'
    BY <1>0, <1>1, <1>2 DEF LimitsInv, BucketsInv
  <1>4. WindowInv'
    <2>1. \A i \in 1..(Len(rlPassed) - Len(rlWindow)) : RL!Outdated(rlPassed[i])'
      <3>1. ASSUME NEW i \in 1..(Len(rlPassed) - Len(rlWindow)) PROVE RL!Outdated(rlPassed[i])'
        <4>1. RL!Outdated(rlPassed[i]) /\ rlPassed[i] \in Nat
          BY DEF LimitsInv, WindowInv
        <4> QED
          BY <1>0, <1>1, <4>1, LimitsAssumption DEF RL!Outdated
      <3> QED
        BY <3>1
    <2> QED
      BY <1>0, <1>1, <2>1 DEF LimitsInv, WindowInv, RL!SlidingIsExact
  <1> QED
    BY <1>3, <1>4 DEF LimitsInv

\* What the loop of is_allowed drops is outdated.
LEMMA KeptIsSuffix ==
  ASSUME rlWindow \in Seq(Nat)
  PROVE  \E n \in 0..Len(rlWindow) :
           /\ \A i \in 1..n : RL!Outdated(rlWindow[i])
           /\ RL!Kept = SubSeq(rlWindow, n + 1, Len(rlWindow))
  <1> DEFINE stop == {n \in 0..Len(rlWindow) : n < Len(rlWindow) => ~RL!Outdated(rlWindow[n + 1])}
  <1>0. Len(rlWindow) \in Nat
    OBVIOUS
  <1>1. stop \subseteq Nat /\ Len(rlWindow) \in stop
    BY <1>0
  <1>2. PICK m \in stop : \A n \in stop : <<n, m>> \notin OpToRel(<, Nat)
    <2> HIDE DEF stop
    <2> QED
      BY <1>1, NatLessThanWellFounded, WFMin
  <1>3. \A n \in stop : ~(n < m)
    BY <1>1, <1>2 DEF OpToRel
  <1>4. \A i \in 1..m : RL!Outdated(rlWindow[i])
    <2>1. ASSUME NEW i \in 1..m PROVE RL!Outdated(rlWindow[i])
      <3>1. i - 1 \in 0..Len(rlWindow) /\ i - 1 < m /\ i - 1 + 1 = i /\ i - 1 < Len(rlWindow)
        BY <1>0
      <3> QED
        BY <1>3, <3>1
    <2> QED
      BY <2>1
  <1> DEFINE P(n) == /\ \A i \in 1..n : RL!Outdated(rlWindow[i])
                     /\ n < Len(rlWindow) => ~RL!Outdated(rlWindow[n + 1])
             c == CHOOSE n \in 0..Len(rlWindow) : P(n)
  <1>5. m \in 0..Len(rlWindow) /\ P(m)
    BY <1>4
  <1> HIDE DEF P
  <1>6. c \in 0..Len(rlWindow) /\ P(c)
    BY <1>5
  <1>7. RL!Kept = SubSeq(rlWindow, c + 1, Len(rlWindow))
    BY DEF RL!Kept, P
  <1> HIDE DEF c
  <1> QED
    BY <1>6, <1>7 DEF P

\* What a request leaves of the deque.
LEMMA KeptFacts ==
  ASSUME WindowInv
  PROVE  /\ RL!Kept \in Seq(Nat) /\ Len(RL!Kept) <= Limit /\ Len(RL!Kept) <= Len(rlPassed)
         /\ \A i \in 1..Len(RL!Kept) : RL!Kept[i] = rlPassed[Len(rlPassed) - Len(RL!Kept) + i]
         /\ \A i \in 1..(Len(rlPassed) - Len(RL!Kept)) : RL!Outdated(rlPassed[i])
  <1>0. /\ rlWindow \in Seq(Nat) /\ Len(rlWindow) \in Nat /\ Len(rlWindow) <= Limit
        /\ rlPassed \in Seq(Nat) /\ Len(rlPassed) \in Nat /\ Len(rlWindow) <= Len(rlPassed)
        /\ \A i \in 1..Len(rlWindow) : rlWindow[i] = rlPassed[Len(rlPassed) - Len(rlWindow) + i]
        /\ \A i \in 1..(Len(rlPassed) - Len(rlWindow)) : RL!Outdated(rlPassed[i])
    BY DEF WindowInv
  <1>1. PICK n \in 0..Len(rlWindow) : /\ \A i \in 1..n : RL!Outdated(rlWindow[i])
                                      /\ RL!Kept = SubSeq(rlWindow, n + 1, Len(rlWindow))
    BY <1>0, KeptIsSuffix
  <1>2. /\ RL!Kept \in Seq(Nat) /\ Len(RL!Kept) = Len(rlWindow) - n
        /\ \A i \in 1..(Len(rlWindow) - n) : RL!Kept[i] = rlWindow[n + i]
    <2> DEFINE l == Len(rlWindow)
    <2>1. n + 1 \in Int /\ l \in Int /\ \A i \in (n + 1)..l : rlWindow[i] \in Nat
      BY <1>0
    <2>2. /\ RL!Kept \in Seq(Nat) /\ Len(RL!Kept) = IF n + 1 <= l THEN l - (n + 1) + 1 ELSE 0
          /\ \A i \in 1..(l - (n + 1) + 1) : RL!Kept[i] = rlWindow[(n + 1) + i - 1]
      <3> HIDE DEF l
      <3> QED
        BY <1>1, <2>1, SubSeqProperties DEF l
    <2>3. l - (n + 1) + 1 = l - n /\ \A i \in 1..(l - n) : (n + 1) + i - 1 = n + i
      BY <1>0
    <2>4. Len(RL!Kept) = l - n
      <3>1. l \in Nat /\ n \in 0..l
        BY <1>0
      <3>2. Len(RL!Kept) = IF n + 1 <= l THEN l - (n + 1) + 1 ELSE 0
        BY <2>2
      <3> HIDE DEF l
      <3> QED
        BY <3>1, <3>2
    <2>5. ASSUME NEW i \in 1..(l - n) PROVE RL!Kept[i] = rlWindow[n + i]
      BY <2>2, <2>3
    <2> QED
      BY <2>2, <2>4, <2>5
  <1>3. Len(RL!Kept) <= Limit /\ Len(RL!Kept) <= Len(rlPassed)
    BY <1>0, <1>2, LimitsAssumption
  <1>4. ASSUME NEW i \in 1..Len(RL!Kept) PROVE RL!Kept[i] = rlPassed[Len(rlPassed) - Len(RL!Kept) + i]
    <2>1. n + i \in 1..Len(rlWindow) /\ Len(rlPassed) - Len(rlWindow) + (n + i) = Len(rlPassed) - Len(RL!Kept) + i
      BY <1>0, <1>2
    <2>2. rlWindow[n + i] = rlPassed[Len(rlPassed) - Len(rlWindow) + (n + i)]
      BY <1>0, <2>1
    <2> QED
      BY <1>2, <2>1, <2>2
  <1>5. ASSUME NEW i \in 1..(Len(rlPassed) - Len(RL!Kept)) PROVE RL!Outdated(rlPassed[i])
    <2>1. CASE i <= Len(rlPassed) - Len(rlWindow)
      BY <1>0, <2>1
    <2>2. CASE ~(i <= Len(rlPassed) - Len(rlWindow))
      <3>1. /\ i - (Len(rlPassed) - Len(rlWindow)) \in 1..n
            /\ i - (Len(rlPassed) - Len(rlWindow)) \in 1..Len(rlWindow)
            /\ Len(rlPassed) - Len(rlWindow) + (i - (Len(rlPassed) - Len(rlWindow))) = i
        <4> DEFINE p == Len(rlPassed)
                   w == Len(rlWindow)
        <4>1. p \in Nat /\ w \in Nat /\ n \in 0..w /\ i \in 1..(p - (w - n)) /\ ~(i <= p - w)
          BY <1>0, <1>2, <2>2
        <4> HIDE DEF p, w
        <4>2. i - (p - w) \in 1..n /\ i - (p - w) \in 1..w /\ p - w + (i - (p - w)) = i
          BY <4>1
        <4> QED
          BY <4>2 DEF p, w
      <3> QED
        BY <1>0, <1>1, <3>1
    <2> QED
      BY <2>1, <2>2
  <1> QED
    BY <1>2, <1>3, <1>4, <1>5

\* A request that is admitted is the newest of at most Limit in its window.
LEMMA SlidingKeeps ==
  ASSUME WindowInv, RL!CreateObservationSlidingWindow
  PROVE  WindowInv'
  <1>0. /\ rlClock \in 0..MaxClock /\ rlClock \in Nat /\ rlClock' = rlClock
        /\ rlPassed \in Seq(Nat) /\ Len(rlPassed) \in Nat
    BY LimitsAssumption DEF WindowInv, RL!CreateObservationSlidingWindow
  <1>1. /\ RL!Kept \in Seq(Nat) /\ Len(RL!Kept) <= Limit /\ Len(RL!Kept) <= Len(rlPassed)
        /\ \A i \in 1..Len(RL!Kept) : RL!Kept[i] = rlPassed[Len(rlPassed) - Len(RL!Kept) + i]
        /\ \A i \in 1..(Len(rlPassed) - Len(RL!Kept)) : RL!Outdated(rlPassed[i])
        /\ Len(RL!Kept) \in Nat
    BY KeptFacts
  <1>2. CASE ~RL!IsAllowed
    <2>1. rlWindow' = RL!Kept /\ rlPassed' = rlPassed
      BY <1>2 DEF RL!CreateObservationSlidingWindow
    <2>2. \A t : RL!Outdated(t)' <=> RL!Outdated(t)
      BY <1>0 DEF RL!Outdated
    <2> QED
      BY <1>0, <1>1, <2>1, <2>2 DEF WindowInv, RL!SlidingIsExact
  <1>3. CASE RL!IsAllowed
    <2> DEFINE k == RL!Kept
               n == Len(rlPassed)
    <2>1. rlWindow' = Append(k, rlClock) /\ rlPassed' = Append(rlPassed, rlClock) /\ Len(k) < Limit
      BY <1>3 DEF RL!CreateObservationSlidingWindow, RL!IsAllowed
    <2> HIDE DEF k
    <2>2. /\ rlPassed' \in Seq(Nat) /\ Len(rlPassed') = n + 1 /\ rlPassed'[n + 1] = rlClock
          /\ \A i \in 1..n : rlPassed'[i] = rlPassed[i]
          /\ DOMAIN rlPassed' = 1..(n + 1) /\ DOMAIN rlPassed = 1..n
      BY <1>0, <2>1
    <2>3. /\ rlWindow' \in Seq(Nat) /\ Len(rlWindow') = Len(k) + 1
          /\ rlWindow'[Len(k) + 1] = rlClock /\ \A i \in 1..Len(k) : rlWindow'[i] = k[i]
      BY <1>0, <1>1, <2>1 DEF k
    <2>4. Len(rlWindow') <= Limit /\ Len(rlWindow') <= Len(rlPassed')
      BY <1>0, <1>1, <2>1, <2>2, <2>3, LimitsAssumption DEF k
    <2>5. ASSUME NEW i \in 1..Len(rlWindow')
          PROVE  rlWindow'[i] = rlPassed'[Len(rlPassed') - Len(rlWindow') + i]
      <3>1. Len(rlPassed') - Len(rlWindow') + i = n - Len(k) + i
        BY <1>0, <1>1, <2>2, <2>3 DEF k
      <3>2. CASE i \in 1..Len(k)
        <4>1. n - Len(k) + i \in 1..n
          BY <1>0, <1>1, <3>2 DEF k
        <4> QED
          BY <1>1, <2>2, <2>3, <3>1, <3>2, <4>1 DEF k
      <3>3. CASE i = Len(k) + 1
        <4>1. n - Len(k) + i = n + 1
          BY <1>0, <1>1, <3>3 DEF k
        <4> QED
          BY <2>2, <2>3, <3>1, <3>3, <4>1
      <3>4. i \in 1..Len(k) \/ i = Len(k) + 1
        BY <1>1, <2>3 DEF k
      <3> QED
        BY <3>2, <3>3, <3>4
    <2>6. ASSUME NEW i \in 1..(Len(rlPassed') - Len(rlWindow'))
          PROVE  rlPassed'[i] < rlClock' - Window
      <3>1. i \in 1..(n - Len(k)) /\ i \in 1..n
        <4>1. Len(k) \in Nat /\ n \in Nat /\ Len(rlPassed') = n + 1 /\ Len(rlWindow') = Len(k) + 1
          BY <1>0, <1>1, <2>2, <2>3 DEF k
        <4>2. i \in 1..((n + 1) - (Len(k) + 1))
          BY <4>1
        <4> HIDE DEF n
        <4> QED
          BY <4>1, <4>2
      <3>2. rlPassed'[i] = rlPassed[i] /\ RL!Outdated(rlPassed[i])
        BY <1>1, <2>2, <3>1 DEF k
      <3> QED
        BY <1>0, <3>2 DEF RL!Outdated
    <2>7. ASSUME NEW j \in DOMAIN rlPassed'
          PROVE  Cardinality({i \in 1..j : rlPassed'[i] >= rlPassed'[j] - Window}) <= Limit
      <3>1. CASE j \in 1..n
        <4>1. \A i \in 1..j : rlPassed'[i] = rlPassed[i]
          BY <1>0, <2>2, <3>1
        <4>2. {i \in 1..j : rlPassed'[i] >= rlPassed'[j] - Window} = {i \in 1..j : rlPassed[i] >= rlPassed[j] - Window}
          BY <2>2, <3>1, <4>1
        <4>3. Cardinality({i \in 1..j : rlPassed[i] >= rlPassed[j] - Window}) <= Limit
          BY <2>2, <3>1, LimitsCardinality DEF WindowInv, RL!SlidingIsExact
        <4> QED
          BY <4>2, <4>3
      <3>2. CASE j = n + 1
        <4> DEFINE S == {i \in 1..j : rlPassed'[i] >= rlPassed'[j] - Window}
                   a == n - Len(k) + 1
        <4>1. a \in Nat /\ n + 1 \in Nat /\ a <= n + 1 /\ n + 1 - a + 1 = Len(k) + 1
          BY <1>0, <1>1 DEF k
        <4>2. S \subseteq a..(n + 1)
          <5>1. ASSUME NEW i \in 1..(n + 1), i < a PROVE i \notin S
            <6>1. i \in 1..(n - Len(k)) /\ i \in 1..n
              BY <1>0, <1>1, <5>1 DEF k
            <6>2. RL!Outdated(rlPassed[i]) /\ rlPassed'[i] = rlPassed[i] /\ rlPassed[i] \in Nat
              <7>1. RL!Outdated(rlPassed[i])
                BY <1>1, <6>1 DEF k
              <7>2. rlPassed'[i] = rlPassed[i]
                BY <2>2, <6>1
              <7>3. rlPassed[i] \in Nat
                BY <1>0, <6>1
              <7> QED
                BY <7>1, <7>2, <7>3
            <6>3. rlPassed'[j] = rlClock
              BY <2>2, <3>2
            <6> QED
              BY <1>0, <6>2, <6>3, LimitsAssumption DEF RL!Outdated
          <5> QED
            BY <3>2, <4>1, <5>1
        <4> HIDE DEF S, a
        <4>3. IsFiniteSet(a..(n + 1)) /\ Cardinality(a..(n + 1)) = n + 1 - a + 1
          BY <4>1, FS_Interval
        <4>4. Cardinality(S) <= Len(k) + 1
          <5>1. Cardinality(S) <= Cardinality(a..(n + 1))
            BY <4>2, <4>3, FS_Subset
          <5> QED
            BY <4>1, <4>3, <5>1
        <4>5. Cardinality(S) \in Nat
          BY <4>2, <4>3, FS_Subset, FS_CardinalityType
        <4>6. Cardinality(S) <= Limit
          BY <1>1, <2>1, <4>4, <4>5, LimitsAssumption DEF k
        <4> QED
          BY <4>6 DEF S
      <3> QED
        BY <1>0, <2>2, <3>1, <3>2
    <2>8. RL!SlidingIsExact'
      BY <2>7, LimitsCardinality DEF RL!SlidingIsExact
    <2> QED
      BY <1>0, <2>2, <2>3, <2>4, <2>5, <2>6, <2>8 DEF WindowInv, RL!Outdated
  <1> QED
    BY <1>2, <1>3

\* Steps that leave a part alone keep it.
LEMMA WindowSame ==
  ASSUME WindowInv, UNCHANGED <<rlClock, rlWindow, rlPassed>>
  PROVE  WindowInv'
  BY DEF WindowInv, RL!SlidingIsExact, RL!Outdated

\* The same of the buckets.
LEMMA BucketsSame ==
  ASSUME BucketsInv, UNCHANGED <<rlClock, rlBucket, rlAdmitted, rlPromise>>
  PROVE  BucketsInv'
  BY DEF BucketsInv, BucketOk, RL!RetryAfter

\* Nothing has been asked for.
LEMMA LimitsInit == RL!Init => LimitsInv
  <1> SUFFICES ASSUME RL!Init PROVE LimitsInv
    OBVIOUS
  <1>1. ASSUME NEW s \in RL!Stores PROVE BucketOk(s)
    BY FullHasToken, LimitsAssumption DEF RL!Init, BucketOk
  <1>2. BucketsInv
    BY <1>1, LimitsAssumption DEF RL!Init, BucketsInv
  <1>3. WindowInv
    BY LimitsAssumption DEF RL!Init, WindowInv, RL!SlidingIsExact
  <1> QED
    BY <1>2, <1>3 DEF LimitsInv

\* Every step keeps the invariant.
LEMMA LimitsNext ==
  ASSUME LimitsInv, [RL!Next]_(RL!vars)
  PROVE  LimitsInv'
  <1>0. BucketsInv /\ WindowInv
    BY DEF LimitsInv
  <1>1. CASE RL!Tick
    BY <1>1, TickKeeps
  <1>2. CASE RL!CreateObservationSlidingWindow
    BY <1>0, <1>2, SlidingKeeps, BucketsSame DEF LimitsInv, RL!CreateObservationSlidingWindow
  <1>3. CASE RL!Consume
    <2>1. UNCHANGED <<rlClock, rlWindow, rlPassed>>
      BY <1>3 DEF RL!Consume
    <2>2. BucketsInv'
      <3>1. \/ \E s \in RL!Stores : RL!ConsumeFrom(s)
            \/ UNCHANGED <<rlBucket, rlAdmitted, rlPromise>>
        BY <1>3 DEF RL!Consume, RL!Stores
      <3> QED
        BY <1>0, <2>1, <3>1, ConsumeKeeps, BucketsSame
    <2> QED
      BY <1>0, <2>1, <2>2, WindowSame DEF LimitsInv
  <1>4. CASE RL!CreateObservationTokenBucket
    BY <1>0, <1>4, ConsumeKeeps, WindowSame DEF RL!CreateObservationTokenBucket, LimitsInv, RL!Stores
  <1>5. CASE RL!ClientComesOrGoes \/ UNCHANGED RL!vars
    BY <1>0, <1>5, WindowSame, BucketsSame DEF RL!ClientComesOrGoes, LimitsInv, RL!vars
  <1> QED
    BY <1>1, <1>2, <1>3, <1>4, <1>5 DEF RL!Next, RL!BucketStep

\* A bucket that refused a request holds a token when Retry-After is over.
LEMMA PromiseIsKept ==
  ASSUME LimitsInv, NEW s \in RL!Stores, rlPromise[s] # RL!None, rlClock >= rlPromise[s]
  PROVE  RL!Refilled(s) >= Unit
  <1>1. BucketOk(s) /\ rlBucket[s].last # RL!None /\ rlClock \in Nat
    <2>1. BucketOk(s) /\ rlClock \in 0..MaxClock
      BY DEF LimitsInv, BucketsInv
    <2> QED
      BY <2>1, LimitsAssumption DEF BucketOk
  <1> DEFINE u == rlBucket[s].units
             l == rlBucket[s].last
             r == RL!RetryAfter(u)
  <1>2. /\ u \in Nat /\ u < Unit /\ rlPromise[s] = l + r /\ l \in 0..rlClock
    BY <1>1, FullHasToken DEF BucketOk
  <1>3. Unit - u \in Nat
    BY <1>2, LimitsAssumption
  <1>4. r \in Nat /\ Rate * r >= Unit - u
    BY <1>3, CeilSuffices, LimitsAssumption DEF RL!RetryAfter
  <1> HIDE DEF r, u, l
  <1>5. r <= rlClock - l /\ rlClock - l \in Nat
    BY <1>1, <1>2, <1>4
  <1>6. Rate * r <= Rate * (rlClock - l)
    BY <1>4, <1>5, TimesGrows, LimitsAssumption
  <1>7. Rate * (rlClock - l) \in Nat /\ Rate * r \in Nat
    BY <1>4, <1>5, LimitsAssumption
  <1>8. Rate * (rlClock - l) = (rlClock - l) * Rate
    BY <1>5, LimitsAssumption
  <1>9. u + (rlClock - l) * Rate >= Unit
    BY <1>2, <1>3, <1>4, <1>6, <1>7, <1>8, LimitsAssumption
  <1>10. u + (rlClock - l) * Rate \in Nat
    BY <1>2, <1>7, <1>8
  <1>11. RL!Refilled(s) = RL!Full \/ RL!Refilled(s) = u + (rlClock - l) * Rate
    BY DEF RL!Refilled, RL!Least, u, l
  <1> QED
    BY <1>9, <1>10, <1>11, FullHasToken, LimitsAssumption

\* The invariant is what is promised.
LEMMA LimitsImply == LimitsInv => RL!TypeOK /\ RL!LimitsHold
  <1> SUFFICES ASSUME LimitsInv PROVE RL!TypeOK /\ RL!LimitsHold
    OBVIOUS
  <1>1. RL!TypeOK
    <2>1. rlClock \in 0..MaxClock /\ Len(rlWindow) <= Limit
      BY DEF LimitsInv, BucketsInv, WindowInv
    <2>2. \A s \in RL!Stores : rlBucket[s] \in [units : 0..RL!Full, last : {RL!None} \cup (0..rlClock)]
      BY DEF LimitsInv, BucketsInv, BucketOk
    <2> QED
      BY <2>1, <2>2, LimitsAssumption DEF RL!TypeOK, RL!None
  <1>2. RL!BurstIsBounded
    <2>1. \A s \in RL!Stores : rlAdmitted[s] \in Seq(Nat) /\ DOMAIN rlAdmitted[s] = 1..Len(rlAdmitted[s])
      BY DEF LimitsInv, BucketsInv, BucketOk
    <2> QED
      BY <2>1 DEF LimitsInv, BucketsInv, BucketOk, RL!BurstIsBounded
  <1>3. RL!RetryAfterSuffices
    BY PromiseIsKept DEF RL!RetryAfterSuffices
  <1> QED
    BY <1>1, <1>2, <1>3 DEF LimitsInv, WindowInv, RL!LimitsHold

\* For any capacity, refill rate, limit and window, bursts are
\* bounded, Retry-After suffices and the sliding window is exact.
THEOREM LimitsAreKept == RL!Spec => []RL!LimitsHold
  <1>1. RL!Spec => []LimitsInv
    BY LimitsInit, LimitsNext, PTL DEF RL!Spec
  <1> QED
    BY <1>1, LimitsImply, PTL

-----------------------------------------------------------------------------
(* The dashboard: the threads of a session and the list that it shows.      *)

\* Dashboard counts with the Cardinality of its own copy of FiniteSets.
LEMMA DashboardCardinality == \A S : DA!Cardinality(S) = Cardinality(S)
  BY DEF DA!Cardinality, Cardinality

StreamRows == [of : Sessions, no : Nat]
ThreadRows == [of : Sessions, state : {"opening", "open", "got", "failing", "dead"}]

DashboardTypes ==
  /\ daHandle \in [Sessions -> Nat]
  /\ daBox \in [Sessions -> {"shared", "own"}]
  /\ daPage \in [Sessions -> {"idle", "drain", "end"}]
  /\ daReceived \in 0..MaxMessages
  /\ daBuf \in [Sessions -> Seq(StreamRows)]
  /\ daHanded \in [Sessions -> Seq(StreamRows)]
  /\ daOwn \in [Sessions -> Seq(StreamRows)]
  /\ daShared \in Seq(StreamRows)

\* Threads are numbered; the one that lives is the one the session knows.
ThreadsOk ==
  /\ \E k \in Nat : daThread \in [1..k -> ThreadRows]
  /\ \A s \in Sessions : daHandle[s] \in DA!Threads \cup {0}
  /\ \A n \in DA!Threads : daThread[n].state # "dead" => daHandle[daThread[n].of] = n

\* What is in the queue is the end of what was handed over, all of it numbered.
QueueRows(b, h, s) ==
  /\ Len(b) <= Len(h)
  /\ \A k \in 1..Len(h) : h[k] = [of |-> s, no |-> k]
  /\ \A i \in 1..Len(b) : b[i] = h[Len(h) - Len(b) + i]

QueueOk(s) == QueueRows(daBuf[s], daHanded[s], s)

Drained(s) == Len(daHanded[s]) - Len(daBuf[s])

\* A list shows messages of a session in order and without a gap up to the d-th.
Shows(list, s, d) ==
  /\ \A i \in 1..Len(list) : list[i].of = s => list[i].no \in 1..d
  /\ \A i, j \in 1..Len(list) : list[i].of = s /\ list[j].of = s /\ i < j => list[i].no < list[j].no
  /\ \A i \in 1..Len(list), k \in 1..d :
       list[i].of = s /\ list[i].no <= k => \E j \in 1..Len(list) : list[j].of = s /\ list[j].no = k

\* A session that pressed Clear has a list of its own.
ClearedOk(s) ==
  s \in daCleared => daBox[s] = "own" /\ \A i \in 1..Len(daOwn[s]) : daOwn[s][i].of = s

ListsOk == \A s \in Sessions : Shows(DA!Messages(s), s, Drained(s)) /\ ClearedOk(s)

DashboardInv ==
  /\ DashboardTypes
  /\ ThreadsOk
  /\ \A s \in Sessions : QueueOk(s)
  /\ ListsOk

\* No session has a message.
LEMMA DashboardInit == DA!Init => DashboardInv
  <1> SUFFICES ASSUME DA!Init PROVE DashboardInv
    OBVIOUS
  <1>1. DashboardTypes
    BY DashboardAssumption DEF DA!Init, DashboardTypes
  <1>2. ThreadsOk
    <2>1. daThread \in [1..0 -> ThreadRows] /\ DA!Threads = {}
      BY DEF DA!Init, DA!Threads
    <2> QED
      BY <2>1 DEF DA!Init, ThreadsOk
  <1>3. \A s \in Sessions : QueueOk(s)
    BY DEF DA!Init, QueueOk, QueueRows
  <1>4. ListsOk
    BY DEF DA!Init, ListsOk, Shows, DA!Messages, ClearedOk
  <1> QED
    BY <1>1, <1>2, <1>3, <1>4 DEF DashboardInv

\* A list of messages is extended by those of the queue.
LEMMA ShowsAppended ==
  ASSUME NEW s \in Sessions, NEW list \in Seq(StreamRows), NEW q \in Seq(StreamRows),
         NEW d \in Nat, Shows(list, s, d),
         \A i \in 1..Len(q) : q[i].of = s /\ q[i].no = d + i
  PROVE  Shows(list \o q, s, d + Len(q))
  <1> DEFINE m == Len(list)
             n == Len(q)
             all == list \o q
  <1>1. /\ m \in Nat /\ n \in Nat /\ Len(all) = m + n
        /\ \A i \in 1..m : all[i] = list[i]
        /\ \A i \in 1..n : all[m + i] = q[i]
    OBVIOUS
  <1>2. ASSUME NEW i \in 1..m PROVE list[i].no \in Nat
    <2>1. list[i] \in StreamRows
      OBVIOUS
    <2> QED
      BY <2>1 DEF StreamRows
  <1>3. \A i \in 1..(m + n) : i \in 1..m \/ (i - m \in 1..n /\ m + (i - m) = i)
    BY <1>1
  <1> HIDE DEF m, n, all
  <1>4. ASSUME NEW i \in 1..(m + n), i \notin 1..m PROVE all[i].of = s /\ all[i].no = d + (i - m) /\ i - m \in 1..n
    <2>1. i - m \in 1..n /\ m + (i - m) = i
      BY <1>3, <1>4
    <2>2. all[i] = q[i - m]
      BY <1>1, <2>1
    <2> QED
      BY <2>1, <2>2 DEF n
  <1>5. ASSUME NEW i \in 1..m PROVE all[i] = list[i] /\ all[i].no \in Nat /\ (all[i].of = s => all[i].no \in 1..d)
    BY <1>1, <1>2 DEF Shows, m
  <1>6. ASSUME NEW i \in 1..(m + n), all[i].of = s PROVE all[i].no \in 1..(d + n)
    BY <1>1, <1>4, <1>5, <1>6
  <1>7. ASSUME NEW i \in 1..(m + n), NEW j \in 1..(m + n), all[i].of = s, all[j].of = s, i < j
        PROVE  all[i].no < all[j].no
    <2>1. CASE j \in 1..m
      <3>1. i \in 1..m
        BY <1>1, <1>7, <2>1
      <3> QED
        BY <1>5, <1>7, <2>1, <3>1 DEF Shows, m
    <2>2. CASE j \notin 1..m /\ i \in 1..m
      BY <1>1, <1>4, <1>5, <1>7, <2>2
    <2>3. CASE j \notin 1..m /\ i \notin 1..m
      <3>1. all[i].no = d + (i - m) /\ all[j].no = d + (j - m)
        BY <1>4, <2>3
      <3> QED
        BY <1>1, <1>7, <3>1
    <2> QED
      BY <2>1, <2>2, <2>3
  <1>8. ASSUME NEW i \in 1..(m + n), NEW k \in 1..(d + n), all[i].of = s, all[i].no <= k
        PROVE  \E j \in 1..(m + n) : all[j].of = s /\ all[j].no = k
    <2>1. CASE k \in 1..d
      <3>1. i \in 1..m
        <4>1. ASSUME i \notin 1..m PROVE FALSE
          BY <1>1, <1>4, <1>8, <2>1, <4>1
        <4> QED
          BY <4>1
      <3>2. PICK j \in 1..m : list[j].of = s /\ list[j].no = k
        BY <1>5, <1>8, <2>1, <3>1 DEF Shows, m
      <3>3. j \in 1..(m + n)
        BY <1>1
      <3> QED
        BY <1>5, <3>2, <3>3
    <2>2. CASE k \notin 1..d
      <3>1. m + (k - d) \in 1..(m + n) /\ m + (k - d) \notin 1..m /\ d + (m + (k - d) - m) = k
        BY <1>1, <2>2
      <3>2. PICK j \in 1..(m + n) : j = m + (k - d)
        BY <3>1
      <3>3. j \notin 1..m /\ d + (j - m) = k
        BY <1>1, <3>1, <3>2
      <3> QED
        BY <1>4, <3>3
    <2> QED
      BY <2>1, <2>2
  <1> QED
    BY <1>1, <1>6, <1>7, <1>8 DEF Shows, all, n

\* Messages of other sessions in between do not matter.
LEMMA ShowsAmong ==
  ASSUME NEW s \in Sessions, NEW list \in Seq(StreamRows), NEW q \in Seq(StreamRows),
         NEW d \in Nat, Shows(list, s, d), \A i \in 1..Len(q) : q[i].of # s
  PROVE  Shows(list \o q, s, d)
  <1> DEFINE m == Len(list)
             n == Len(q)
             all == list \o q
  <1>1. /\ m \in Nat /\ n \in Nat /\ Len(all) = m + n
        /\ \A i \in 1..m : all[i] = list[i]
        /\ \A i \in 1..n : all[m + i] = q[i]
    OBVIOUS
  <1>2. \A i \in 1..(m + n) : i \in 1..m \/ (i - m \in 1..n /\ m + (i - m) = i)
    BY <1>1
  <1> HIDE DEF m, n, all
  <1>3. ASSUME NEW i \in 1..(m + n), all[i].of = s PROVE i \in 1..m /\ all[i] = list[i]
    <2>1. ASSUME i \notin 1..m PROVE FALSE
      <3>1. i - m \in 1..n /\ all[i] = q[i - m]
        BY <1>1, <1>2, <2>1
      <3> QED
        BY <1>3, <3>1 DEF n
    <2> QED
      BY <1>1, <2>1
  <1>4. \A i \in 1..m : i \in 1..(m + n) /\ all[i] = list[i]
    BY <1>1
  <1> QED
    BY <1>1, <1>3, <1>4 DEF Shows, m, all

\* So does the end of a list.
LEMMA ShowsNewest ==
  ASSUME NEW s \in Sessions, NEW list \in Seq(StreamRows), NEW n \in Nat, n <= Len(list),
         NEW d \in Nat, Shows(list, s, d)
  PROVE  /\ Shows(DA!Newest(list, n), s, d) /\ DA!Newest(list, n) \in Seq(StreamRows)
         /\ Len(DA!Newest(list, n)) = n
         /\ \A i \in 1..n : DA!Newest(list, n)[i] = list[Len(list) - n + i]
  <1> DEFINE l == Len(list)
             new == DA!Newest(list, n)
             a == l - n
  <1>0. l \in Nat /\ a \in Nat /\ \A i \in 1..l : list[i] \in StreamRows
    OBVIOUS
  <1>1. a + 1 \in Int /\ l \in Int /\ \A i \in (a + 1)..l : list[i] \in StreamRows
    BY <1>0
  <1>2. new = SubSeq(list, a + 1, l)
    BY DEF DA!Newest
  <1>3. /\ new \in Seq(StreamRows) /\ Len(new) = IF a + 1 <= l THEN l - (a + 1) + 1 ELSE 0
        /\ \A i \in 1..(l - (a + 1) + 1) : new[i] = list[(a + 1) + i - 1]
    <2> HIDE DEF l, a, new
    <2> QED
      BY <1>1, <1>2, SubSeqProperties
  <1>4. l - (a + 1) + 1 = n /\ (~(a + 1 <= l) => n = 0)
    BY <1>0
  <1>5. Len(new) = n
    BY <1>3, <1>4
  <1>6. ASSUME NEW i \in 1..n PROVE new[i] = list[a + i] /\ a + i \in 1..l
    <2>1. (a + 1) + i - 1 = a + i /\ a + i \in 1..l
      BY <1>0
    <2> QED
      BY <1>3, <1>4, <2>1
  <1>7. ASSUME NEW i \in 1..l PROVE list[i].no \in Nat
    <2>1. list[i] \in StreamRows
      BY <1>0
    <2> QED
      BY <2>1 DEF StreamRows
  <1> HIDE DEF l, a, new
  <1>8. ASSUME NEW i \in 1..n, NEW k \in 1..d, new[i].of = s, new[i].no <= k
        PROVE  \E j \in 1..n : new[j].of = s /\ new[j].no = k
    <2>1. PICK j \in 1..l : list[j].of = s /\ list[j].no = k
      BY <1>6, <1>8 DEF Shows, l
    <2>2. ~(j < a + i)
      <3>1. PICK b \in 1..l : b = a + i
        BY <1>6
      <3>2. new[i] = list[b] /\ list[b].of = s /\ list[b].no <= k /\ list[b].no \in Nat
        BY <1>6, <1>7, <1>8, <3>1
      <3>3. ASSUME j < b PROVE FALSE
        <4>1. list[j].no < list[b].no
          BY <2>1, <3>2, <3>3 DEF Shows, l
        <4> QED
          BY <2>1, <3>2, <4>1
      <3> QED
        BY <3>1, <3>3
    <2>3. j - a \in 1..n /\ a + (j - a) = j
      <3>1. l = a + n
        BY <1>0 DEF a
      <3> QED
        BY <1>0, <2>2, <3>1
    <2> QED
      BY <1>6, <2>1, <2>3
  <1>9. ASSUME NEW i \in 1..n, NEW j \in 1..n, new[i].of = s, new[j].of = s, i < j
        PROVE  new[i].no < new[j].no
    <2>1. a + i < a + j
      BY <1>0, <1>9
    <2>2. PICK b \in 1..l : b = a + i
      BY <1>6
    <2>3. PICK c \in 1..l : c = a + j
      BY <1>6
    <2>4. new[i] = list[b] /\ new[j] = list[c] /\ b < c
      BY <1>6, <2>1, <2>2, <2>3
    <2> QED
      BY <1>9, <2>4 DEF Shows, l
  <1>10. Shows(new, s, d)
    BY <1>5, <1>6, <1>8, <1>9 DEF Shows, l
  <1> QED
    BY <1>3, <1>5, <1>6, <1>10 DEF new, a, l

\* Lists and the counts of what was drained stay as they are.
LEMMA ListsKept ==
  ASSUME ListsOk, UNCHANGED DA!lists, \A s \in Sessions : Drained(s)' = Drained(s)
  PROVE  ListsOk'
  <1> SUFFICES ASSUME NEW s \in Sessions PROVE Shows(DA!Messages(s), s, Drained(s))' /\ ClearedOk(s)'
    BY DEF ListsOk
  <1>1. DA!Messages(s)' = DA!Messages(s) /\ Drained(s)' = Drained(s)
    BY DEF DA!lists, DA!Messages
  <1>2. Shows(DA!Messages(s), s, Drained(s))'
    BY <1>1 DEF ListsOk, Shows
  <1> QED
    BY <1>2 DEF ListsOk, ClearedOk, DA!lists

\* Logging in and out, and the end of a page.
LEMMA PageFrame ==
  ASSUME DashboardInv, daPage' \in [Sessions -> {"idle", "drain", "end"}],
         UNCHANGED <<daHandle, daThread, daBuf, DA!lists, daReceived, daHanded>>
  PROVE  DashboardInv'
  <1>1. DashboardTypes'
    BY DEF DashboardInv, DashboardTypes, DA!lists
  <1>2. ThreadsOk'
    BY DEF DashboardInv, ThreadsOk, DA!Threads
  <1>3. \A s \in Sessions : QueueOk(s)'
    BY DEF DashboardInv, QueueOk
  <1>4. ListsOk'
    BY ListsKept DEF DashboardInv, Drained
  <1> QED
    BY <1>1, <1>2, <1>3, <1>4 DEF DashboardInv

\* A thread that lives goes on or dies.
LEMMA ThreadTurns ==
  ASSUME ThreadsOk, NEW n \in DA!Threads, UNCHANGED daHandle,
         NEW to \in {"opening", "open", "got", "failing", "dead"},
         daThread[n].state # "dead", daThread' = [daThread EXCEPT ![n].state = to]
  PROVE  ThreadsOk' /\ daThread[n].of \in Sessions
  <1>1. PICK k \in Nat : daThread \in [1..k -> ThreadRows]
    BY DEF ThreadsOk
  <1>2. n \in 1..k /\ daThread[n] \in ThreadRows /\ daThread[n].of \in Sessions
    BY <1>1 DEF DA!Threads, ThreadRows
  <1>3. [daThread[n] EXCEPT !.state = to] \in ThreadRows
    BY <1>2 DEF ThreadRows
  <1>4. daThread' \in [1..k -> ThreadRows] /\ DA!Threads' = DA!Threads
    BY <1>1, <1>2, <1>3 DEF DA!Threads
  <1>5. ASSUME NEW i \in DA!Threads PROVE daThread'[i].of = daThread[i].of /\ (daThread'[i].state # "dead" => daThread[i].state # "dead")
    BY <1>1, <1>2 DEF DA!Threads, ThreadRows
  <1> QED
    BY <1>2, <1>4, <1>5 DEF ThreadsOk

\* A listener's step that hands nothing over.
LEMMA TurnsKeep ==
  ASSUME DashboardInv, NEW n \in DA!Threads, NEW states, "dead" \notin states,
         NEW to \in {"opening", "open", "got", "failing", "dead"},
         DA!Turns(n, states, to), daReceived' \in 0..MaxMessages, UNCHANGED <<daBuf, daHanded>>
  PROVE  DashboardInv'
  <1>1. daThread[n].state # "dead" /\ daThread' = [daThread EXCEPT ![n].state = to] /\ UNCHANGED <<DA!session, DA!lists>>
    BY DEF DA!Turns
  <1>2. ThreadsOk'
    BY <1>1, ThreadTurns DEF DashboardInv, DA!session
  <1>3. DashboardTypes'
    BY <1>1 DEF DashboardInv, DashboardTypes, DA!session, DA!lists
  <1>4. \A s \in Sessions : QueueOk(s)'
    BY DEF DashboardInv, QueueOk
  <1>5. ListsOk'
    BY <1>1, ListsKept DEF DashboardInv, Drained
  <1> QED
    BY <1>2, <1>3, <1>4, <1>5 DEF DashboardInv

\* A listener's step that hands a message over, numbered by its place.
LEMMA PutKeeps ==
  ASSUME DashboardInv, NEW n \in DA!Threads, NEW states, "dead" \notin states,
         NEW to \in {"opening", "open", "got", "failing", "dead"},
         DA!Turns(n, states, to), UNCHANGED daReceived,
         DA!PutNowait(n, DA!Message(n, Len(daHanded[daThread[n].of]) + 1))
  PROVE  DashboardInv'
  <1>1. daThread[n].state # "dead" /\ daThread' = [daThread EXCEPT ![n].state = to] /\ UNCHANGED <<DA!session, DA!lists>>
    BY DEF DA!Turns
  <1>2. ThreadsOk' /\ daThread[n].of \in Sessions
    BY <1>1, ThreadTurns DEF DashboardInv, DA!session
  <1>3. PICK s \in Sessions : s = daThread[n].of
    BY <1>2
  <1>4. PICK b \in Seq(StreamRows) : b = daBuf[s]
    BY DEF DashboardInv, DashboardTypes
  <1>5. PICK h \in Seq(StreamRows) : h = daHanded[s]
    BY DEF DashboardInv, DashboardTypes
  <1>6. PICK m : m = [of |-> s, no |-> Len(h) + 1]
    OBVIOUS
  <1>7. m \in StreamRows
    BY <1>6 DEF StreamRows
  <1>8. daBuf' = [daBuf EXCEPT ![s] = Append(b, m)] /\ daHanded' = [daHanded EXCEPT ![s] = Append(h, m)]
    BY <1>3, <1>4, <1>5, <1>6 DEF DA!PutNowait, DA!Message
  <1>9. Append(b, m) \in Seq(StreamRows) /\ Append(h, m) \in Seq(StreamRows)
    BY <1>7
  <1>10. DashboardTypes'
    BY <1>1, <1>8, <1>9 DEF DashboardInv, DashboardTypes, DA!session, DA!lists
  <1>11. /\ daBuf'[s] = Append(b, m) /\ daHanded'[s] = Append(h, m)
         /\ \A t \in Sessions \ {s} : daBuf'[t] = daBuf[t] /\ daHanded'[t] = daHanded[t]
    BY <1>8 DEF DashboardInv, DashboardTypes
  <1>12. /\ Len(b) \in Nat /\ Len(h) \in Nat /\ Len(b) <= Len(h)
         /\ \A k \in 1..Len(h) : h[k] = [of |-> s, no |-> k]
         /\ \A i \in 1..Len(b) : b[i] = h[Len(h) - Len(b) + i]
    <2>1. QueueOk(s)
      BY DEF DashboardInv
    <2>2. QueueRows(b, h, s)
      BY <1>4, <1>5, <2>1 DEF QueueOk
    <2> QED
      BY <2>2 DEF QueueRows
  <1>13. /\ Len(Append(b, m)) = Len(b) + 1 /\ Len(Append(h, m)) = Len(h) + 1
         /\ \A i \in 1..Len(b) : Append(b, m)[i] = b[i]
         /\ \A i \in 1..Len(h) : Append(h, m)[i] = h[i]
         /\ Append(b, m)[Len(b) + 1] = m /\ Append(h, m)[Len(h) + 1] = m
    BY <1>7
  <1>14. QueueOk(s)'
    <2>1. Len(daBuf'[s]) = Len(b) + 1 /\ Len(daHanded'[s]) = Len(h) + 1
      BY <1>11, <1>13
    <2>2. ASSUME NEW k \in 1..(Len(h) + 1) PROVE daHanded'[s][k] = [of |-> s, no |-> k]
      <3>1. k \in 1..Len(h) \/ k = Len(h) + 1
        BY <1>12
      <3> QED
        BY <1>6, <1>11, <1>12, <1>13, <3>1
    <2>3. ASSUME NEW i \in 1..(Len(b) + 1) PROVE daBuf'[s][i] = daHanded'[s][(Len(h) + 1) - (Len(b) + 1) + i]
      <3>1. CASE i \in 1..Len(b)
        <4>1. (Len(h) + 1) - (Len(b) + 1) + i = Len(h) - Len(b) + i /\ Len(h) - Len(b) + i \in 1..Len(h)
          BY <1>12, <3>1
        <4> QED
          BY <1>11, <1>12, <1>13, <3>1, <4>1
      <3>2. CASE i = Len(b) + 1
        <4>1. (Len(h) + 1) - (Len(b) + 1) + i = Len(h) + 1
          BY <1>12, <3>2
        <4> QED
          BY <1>11, <1>13, <3>2, <4>1
      <3> QED
        BY <1>12, <3>1, <3>2
    <2>4. QueueRows(daBuf'[s], daHanded'[s], s)
      BY <1>12, <2>1, <2>2, <2>3 DEF QueueRows
    <2> QED
      BY <2>4 DEF QueueOk
  <1>15. \A t \in Sessions : QueueOk(t)'
    <2>1. ASSUME NEW t \in Sessions \ {s} PROVE QueueOk(t)'
      <3>1. QueueOk(t) /\ daBuf'[t] = daBuf[t] /\ daHanded'[t] = daHanded[t]
        BY <1>11 DEF DashboardInv
      <3> QED
        BY <3>1 DEF QueueOk
    <2> QED
      BY <1>14, <2>1
  <1>16. \A t \in Sessions : Drained(t)' = Drained(t)
    <2>1. Drained(s)' = Drained(s)
      BY <1>4, <1>5, <1>11, <1>12, <1>13 DEF Drained
    <2> QED
      BY <1>11, <2>1 DEF Drained
  <1>17. ListsOk'
    BY <1>1, <1>16, ListsKept DEF DashboardInv
  <1> QED
    BY <1>2, <1>10, <1>15, <1>17 DEF DashboardInv

\* The listener's steps.
LEMMA ListenerKeeps ==
  ASSUME DashboardInv, NEW n \in DA!Threads, DA!ListenerStep(n) PROVE DashboardInv'
  <1>0. daReceived \in 0..MaxMessages /\ MaxMessages \in Nat
    BY DashboardAssumption DEF DashboardInv, DashboardTypes
  <1>1. CASE DA!Connects(n)
    BY <1>0, <1>1, TurnsKeep DEF DA!Connects
  <1>2. CASE DA!Receives(n)
    <2>1. daReceived' \in 0..MaxMessages /\ UNCHANGED <<daBuf, daHanded>>
      BY <1>0, <1>2 DEF DA!Receives
    <2>2. DA!Turns(n, {"open"}, "dead") \/ DA!Turns(n, {"open"}, "got")
      BY <1>2 DEF DA!Receives
    <2> QED
      BY <2>1, <2>2, TurnsKeep
  <1>3. CASE DA!Puts(n)
    BY <1>3, PutKeeps DEF DA!Puts
  <1>4. CASE DA!Closes(n)
    BY <1>0, <1>4, TurnsKeep DEF DA!Closes
  <1>5. CASE DA!Fails(n)
    BY <1>5, PutKeeps DEF DA!Fails
  <1>6. CASE DA!Gone(n)
    BY <1>0, <1>6, TurnsKeep DEF DA!Gone
  <1> QED
    BY <1>1, <1>2, <1>3, <1>4, <1>5, <1>6 DEF DA!ListenerStep

\* A new listener is the only one of its session that lives.
LEMMA ThreadStarts ==
  ASSUME ThreadsOk, NEW s \in Sessions, NEW new, new = Cardinality(DA!Threads) + 1, ~DA!IsAlive(daHandle[s]),
         daHandle \in [Sessions -> Nat], daHandle' = [daHandle EXCEPT ![s] = new],
         daThread' = [n \in DA!Threads \cup {new} |->
                      IF n = new THEN [of |-> s, state |-> "opening"] ELSE daThread[n]]
  PROVE  ThreadsOk' /\ daHandle' \in [Sessions -> Nat]
  <1>1. PICK k \in Nat : daThread \in [1..k -> ThreadRows]
    BY DEF ThreadsOk
  <1>2. DA!Threads = 1..k
    BY <1>1 DEF DA!Threads
  <1>3. new = k + 1
    <2>1. 1 \in Int /\ k \in Int
      OBVIOUS
    <2>2. Cardinality(1..k) = IF 1 > k THEN 0 ELSE k - 1 + 1
      BY <2>1, FS_Interval
    <2>3. Cardinality(1..k) = k
      BY <2>2
    <2> QED
      BY <1>2, <2>3
  <1>4. DA!Threads \cup {new} = 1..(k + 1) /\ DA!Threads' = 1..(k + 1)
    BY <1>2, <1>3 DEF DA!Threads
  <1>5. [of |-> s, state |-> "opening"] \in ThreadRows
    BY DEF ThreadRows
  <1>6. daThread' \in [1..(k + 1) -> ThreadRows]
    BY <1>1, <1>2, <1>4, <1>5
  <1>7. daThread'[new] = [of |-> s, state |-> "opening"] /\ \A n \in DA!Threads : daThread'[n] = daThread[n] /\ n # new
    BY <1>2, <1>3, <1>4
  <1>8. daHandle'[s] = new /\ (\A t \in Sessions \ {s} : daHandle'[t] = daHandle[t]) /\ daHandle' \in [Sessions -> Nat]
    BY <1>3
  <1>9. ASSUME NEW t \in Sessions PROVE daHandle'[t] \in DA!Threads' \cup {0}
    <2>1. daHandle[t] \in DA!Threads \cup {0}
      BY DEF ThreadsOk
    <2> QED
      BY <1>2, <1>3, <1>4, <1>8, <2>1
  <1>10. ASSUME NEW n \in DA!Threads', daThread'[n].state # "dead" PROVE daHandle'[daThread'[n].of] = n
    <2>1. CASE n = new
      BY <1>7, <1>8, <2>1
    <2>2. CASE n # new
      <3>1. n \in DA!Threads /\ daThread'[n] = daThread[n] /\ n # 0
        <4>1. n \in 1..k
          BY <1>3, <1>4, <1>10, <2>2
        <4> QED
          <5>1. n \in DA!Threads /\ n # 0
            BY <1>2, <4>1
          <5> QED
            BY <1>7, <5>1
      <3>2. daHandle[daThread[n].of] = n /\ daThread[n] \in ThreadRows /\ daThread[n].of \in Sessions
        BY <1>1, <1>2, <1>10, <3>1 DEF ThreadsOk, ThreadRows
      <3>3. daThread[n].of # s
        BY <1>10, <3>1, <3>2 DEF DA!IsAlive
      <3> QED
        BY <1>8, <3>1, <3>2, <3>3
    <2> QED
      BY <2>1, <2>2
  <1>11. k + 1 \in Nat
    OBVIOUS
  <1> QED
    BY <1>6, <1>8, <1>9, <1>10, <1>11 DEF ThreadsOk

\* The page up to the drain.
LEMMA RenderKeeps ==
  ASSUME DashboardInv, NEW s \in Sessions, NEW toggle \in BOOLEAN, NEW clear \in BOOLEAN,
         DA!RenderLiveStream(s, toggle, clear)
  PROVE  DashboardInv'
  <1>1. /\ daPage' \in [Sessions -> {"idle", "drain", "end"}]
        /\ UNCHANGED <<daBuf, daReceived, daHanded>>
        /\ IF clear THEN DA!ClearMessages(s) ELSE UNCHANGED DA!lists
    BY DEF DA!RenderLiveStream, DashboardInv, DashboardTypes
  <1>2. ThreadsOk' /\ daHandle' \in [Sessions -> Nat]
    <2> DEFINE starts == (daConnected[s] # toggle) /\ DA!NeedsListener(s)
    <2>0. daHandle \in [Sessions -> Nat] /\ ThreadsOk
      BY DEF DashboardInv, DashboardTypes
    <2>1. CASE starts
      <3>1. PICK new : new = Cardinality(DA!Threads) + 1
        OBVIOUS
      <3>2. /\ daHandle' = [daHandle EXCEPT ![s] = new]
            /\ daThread' = [n \in DA!Threads \cup {new} |->
                            IF n = new THEN [of |-> s, state |-> "opening"] ELSE daThread[n]]
        BY <2>1, <3>1, DashboardCardinality DEF DA!RenderLiveStream
      <3> QED
        BY <2>0, <2>1, <3>1, <3>2, ThreadStarts DEF DA!NeedsListener
    <2>2. CASE ~starts
      <3>1. daThread' = daThread /\ daHandle' = [daHandle EXCEPT ![s] = daHandle[s]]
        BY <2>2 DEF DA!RenderLiveStream
      <3>2. daHandle' = daHandle
        BY <2>0, <3>1
      <3> QED
        BY <2>0, <3>1, <3>2 DEF ThreadsOk, DA!Threads
    <2> QED
      BY <2>1, <2>2
  <1>3. \A t \in Sessions : QueueOk(t)'
    BY <1>1 DEF DashboardInv, QueueOk
  <1>4. \A t \in Sessions : Drained(t)' = Drained(t)
    BY <1>1 DEF Drained
  <1>5. ListsOk' /\ daBox' \in [Sessions -> {"shared", "own"}] /\ daOwn' \in [Sessions -> Seq(StreamRows)] /\ daShared' \in Seq(StreamRows)
    <2>1. CASE ~clear
      BY <1>1, <1>4, <2>1, ListsKept DEF DashboardInv, DashboardTypes, DA!lists
    <2>2. CASE clear
      <3>1. /\ daBox' = [daBox EXCEPT ![s] = "own"] /\ daOwn' = [daOwn EXCEPT ![s] = <<>>]
            /\ daCleared' = daCleared \cup {s} /\ daShared' = daShared
        BY <1>1, <2>2 DEF DA!ClearMessages
      <3>2. /\ daBox' \in [Sessions -> {"shared", "own"}] /\ daOwn' \in [Sessions -> Seq(StreamRows)] /\ daShared' \in Seq(StreamRows)
            /\ daBox'[s] = "own" /\ daOwn'[s] = <<>>
            /\ \A t \in Sessions \ {s} : daBox'[t] = daBox[t] /\ daOwn'[t] = daOwn[t]
        BY <3>1 DEF DashboardInv, DashboardTypes
      <3>3. Shows(DA!Messages(s), s, Drained(s))' /\ ClearedOk(s)'
        <4>1. DA!Messages(s)' = <<>>
          BY <3>2 DEF DA!Messages
        <4> QED
          BY <3>2, <4>1 DEF Shows, ClearedOk
      <3>4. ASSUME NEW t \in Sessions \ {s} PROVE Shows(DA!Messages(t), t, Drained(t))' /\ ClearedOk(t)'
        <4>1. DA!Messages(t)' = DA!Messages(t) /\ Drained(t)' = Drained(t) /\ (t \in daCleared' => t \in daCleared)
          BY <1>4, <3>1, <3>2 DEF DA!Messages
        <4>2. Shows(DA!Messages(t), t, Drained(t)) /\ ClearedOk(t)
          BY DEF DashboardInv, ListsOk
        <4>3. Shows(DA!Messages(t), t, Drained(t))'
          BY <4>1, <4>2 DEF Shows
        <4> QED
          BY <3>2, <4>1, <4>2, <4>3 DEF ClearedOk
      <3> QED
        BY <3>2, <3>3, <3>4 DEF ListsOk
    <2> QED
      BY <2>1, <2>2
  <1>6. DashboardTypes'
    BY <1>1, <1>2, <1>5 DEF DashboardInv, DashboardTypes
  <1> QED
    BY <1>2, <1>3, <1>5, <1>6 DEF DashboardInv

\* What was queued is shown: for the session behind what it shows already, for
\* sessions that share its list among their own.
LEMMA DrainKeeps ==
  ASSUME DashboardInv, NEW s \in Sessions, DA!Drain(s) PROVE DashboardInv'
  <1>1. PICK q \in Seq(StreamRows) : q = daBuf[s]
    BY DEF DashboardInv, DashboardTypes
  <1>2. PICK list \in Seq(StreamRows) : list = DA!Messages(s)
    BY DEF DashboardInv, DashboardTypes, DA!Messages
  <1>3. PICK all \in Seq(StreamRows) : all = list \o q
    <2>1. list \o q \in Seq(StreamRows)
      OBVIOUS
    <2> QED
      BY <2>1
  <1>4. PICK d \in Nat : d = Drained(s) /\ d + Len(q) = Len(daHanded[s])
    <2>1. daHanded[s] \in Seq(StreamRows) /\ QueueOk(s)
      BY DEF DashboardInv, DashboardTypes
    <2>2. Len(daHanded[s]) \in Nat /\ Len(q) \in Nat /\ Len(q) <= Len(daHanded[s])
      BY <1>1, <2>1 DEF QueueOk, QueueRows
    <2>3. Len(daHanded[s]) - Len(q) \in Nat /\ (Len(daHanded[s]) - Len(q)) + Len(q) = Len(daHanded[s])
      BY <2>2
    <2> QED
      BY <1>1, <2>3 DEF Drained
  <1>5. \A i \in 1..Len(q) : q[i].of = s /\ q[i].no = d + i
    <2> SUFFICES ASSUME NEW i \in 1..Len(q) PROVE q[i].of = s /\ q[i].no = d + i
      OBVIOUS
    <2>1. PICK h \in Seq(StreamRows) : h = daHanded[s]
      BY DEF DashboardInv, DashboardTypes
    <2>2. QueueRows(q, h, s)
      BY <1>1, <2>1 DEF DashboardInv, QueueOk
    <2>3. Len(h) - Len(q) = d /\ d + i \in 1..Len(h)
      <3>1. Len(h) \in Nat /\ Len(q) \in Nat /\ d + Len(q) = Len(h)
        BY <1>4, <2>1
      <3> QED
        BY <3>1
    <2>4. q[i] = h[d + i] /\ h[d + i] = [of |-> s, no |-> d + i]
      BY <2>2, <2>3 DEF QueueRows
    <2> QED
      BY <2>4
  <1>6. Shows(list, s, d) /\ Shows(all, s, d + Len(q))
    <2>1. Shows(list, s, d)
      BY <1>2, <1>4 DEF DashboardInv, ListsOk
    <2> QED
      BY <1>3, <1>5, <2>1, ShowsAppended
  <1>7. /\ daBuf' = [daBuf EXCEPT ![s] = <<>>]
        /\ daShared' = IF daBox[s] = "shared" THEN all ELSE daShared
        /\ daOwn' = [daOwn EXCEPT ![s] = IF Len(all) > 2 * MaxStream THEN DA!Newest(all, MaxStream)
                                     ELSE IF daBox[s] = "own" THEN all ELSE daOwn[s]]
        /\ daBox' = [daBox EXCEPT ![s] = IF Len(all) > 2 * MaxStream THEN "own" ELSE daBox[s]]
        /\ daPage' = [daPage EXCEPT ![s] = "end"]
        /\ UNCHANGED <<daLogged, daConnected, daStop, daHandle, daThread, daReceived, daHanded, daCleared>>
    BY <1>1, <1>2, <1>3 DEF DA!Drain, DashboardInv, DashboardTypes
  <1>8. ASSUME Len(all) > 2 * MaxStream
        PROVE  /\ Shows(DA!Newest(all, MaxStream), s, d + Len(q)) /\ DA!Newest(all, MaxStream) \in Seq(StreamRows)
               /\ Len(DA!Newest(all, MaxStream)) = MaxStream
               /\ \A i \in 1..MaxStream : DA!Newest(all, MaxStream)[i] = all[Len(all) - MaxStream + i]
                                          /\ Len(all) - MaxStream + i \in 1..Len(all)
    <2>1. MaxStream \in Nat /\ MaxStream <= Len(all) /\ d + Len(q) \in Nat
      BY <1>8, DashboardAssumption
    <2>2. \A i \in 1..MaxStream : Len(all) - MaxStream + i \in 1..Len(all)
      BY <2>1
    <2> QED
      BY <1>6, <2>1, <2>2, ShowsNewest
  <1>9. /\ daBuf' \in [Sessions -> Seq(StreamRows)] /\ daShared' \in Seq(StreamRows)
        /\ daOwn' \in [Sessions -> Seq(StreamRows)] /\ daBox' \in [Sessions -> {"shared", "own"}]
        /\ daPage' \in [Sessions -> {"idle", "drain", "end"}]
    <2>1. (IF Len(all) > 2 * MaxStream THEN DA!Newest(all, MaxStream)
           ELSE IF daBox[s] = "own" THEN all ELSE daOwn[s]) \in Seq(StreamRows)
      BY <1>8 DEF DashboardInv, DashboardTypes
    <2>2. daOwn' \in [Sessions -> Seq(StreamRows)]
      BY <1>7, <2>1 DEF DashboardInv, DashboardTypes
    <2> QED
      BY <1>7, <2>2 DEF DashboardInv, DashboardTypes
  <1>10. DashboardTypes'
    BY <1>7, <1>9 DEF DashboardInv, DashboardTypes
  <1>11. ThreadsOk'
    BY <1>7 DEF DashboardInv, ThreadsOk, DA!Threads
  <1>12. /\ daBuf'[s] = <<>> /\ \A t \in Sessions \ {s} : daBuf'[t] = daBuf[t] /\ daOwn'[t] = daOwn[t] /\ daBox'[t] = daBox[t]
         /\ daOwn'[s] = IF Len(all) > 2 * MaxStream THEN DA!Newest(all, MaxStream)
                      ELSE IF daBox[s] = "own" THEN all ELSE daOwn[s]
         /\ daBox'[s] = IF Len(all) > 2 * MaxStream THEN "own" ELSE daBox[s]
    BY <1>7 DEF DashboardInv, DashboardTypes
  <1>13. Drained(s)' = d + Len(q) /\ \A t \in Sessions \ {s} : Drained(t)' = Drained(t)
    <2>1. daHanded[s] \in Seq(StreamRows)
      BY DEF DashboardInv, DashboardTypes
    <2>2. Len(daHanded[s]) - 0 = Len(daHanded[s])
      BY <2>1
    <2> QED
      BY <1>4, <1>7, <1>12, <2>2 DEF Drained
  <1>14. ASSUME NEW t \in Sessions PROVE QueueOk(t)'
    <2>1. QueueOk(t) /\ daHanded[t] \in Seq(StreamRows)
      BY DEF DashboardInv, DashboardTypes
    <2>2. CASE t = s
      <3>1. QueueRows(<<>>, daHanded[s], s)
        BY <2>1, <2>2 DEF QueueOk, QueueRows
      <3> QED
        BY <1>7, <1>12, <2>2, <3>1 DEF QueueOk
    <2>3. CASE t # s
      BY <1>7, <1>12, <2>1, <2>3 DEF QueueOk
    <2> QED
      BY <2>2, <2>3
  <1>15. Shows(DA!Messages(s), s, Drained(s))'
    <2>1. DA!Messages(s)' = IF Len(all) > 2 * MaxStream THEN DA!Newest(all, MaxStream) ELSE all
      BY <1>7, <1>12 DEF DA!Messages, DashboardInv, DashboardTypes
    <2>2. Shows(DA!Messages(s)', s, Drained(s)')
      BY <1>6, <1>8, <1>13, <2>1
    <2> QED
      BY <2>2 DEF Shows
  <1>16. ClearedOk(s)'
    <2> SUFFICES ASSUME s \in daCleared PROVE daBox'[s] = "own" /\ \A i \in 1..Len(daOwn'[s]) : daOwn'[s][i].of = s
      BY <1>7 DEF ClearedOk
    <2>1. daBox[s] = "own" /\ list = daOwn[s] /\ \A i \in 1..Len(list) : list[i].of = s
      BY <1>2 DEF DashboardInv, ListsOk, ClearedOk, DA!Messages
    <2>2. ASSUME NEW i \in 1..Len(all) PROVE all[i].of = s
      <3>1. i \in 1..Len(list) \/ i - Len(list) \in 1..Len(q)
        BY <1>3
      <3>2. CASE i \in 1..Len(list)
        BY <1>3, <2>1, <3>2
      <3>3. CASE i \notin 1..Len(list) /\ i - Len(list) \in 1..Len(q)
        <4>1. all[i] = q[i - Len(list)]
          BY <1>3, <3>3
        <4> QED
          BY <1>5, <3>3, <4>1
      <3> QED
        BY <3>1, <3>2, <3>3
    <2>3. CASE Len(all) > 2 * MaxStream
      <3>1. daOwn'[s] = DA!Newest(all, MaxStream) /\ daBox'[s] = "own" /\ Len(daOwn'[s]) = MaxStream
        BY <1>8, <1>12, <2>3
      <3> QED
        BY <1>8, <2>2, <2>3, <3>1
    <2>4. CASE ~(Len(all) > 2 * MaxStream)
      BY <1>12, <2>1, <2>2, <2>4
    <2> QED
      BY <2>3, <2>4
  <1>17. ASSUME NEW t \in Sessions \ {s} PROVE Shows(DA!Messages(t), t, Drained(t))' /\ ClearedOk(t)'
    <2>1. Shows(DA!Messages(t), t, Drained(t)) /\ ClearedOk(t) /\ DA!Messages(t) \in Seq(StreamRows) /\ Drained(t) \in Nat
      <3>1. daHanded[t] \in Seq(StreamRows) /\ daBuf[t] \in Seq(StreamRows) /\ QueueOk(t)
        BY DEF DashboardInv, DashboardTypes
      <3>2. Len(daHanded[t]) \in Nat /\ Len(daBuf[t]) \in Nat /\ Len(daBuf[t]) <= Len(daHanded[t])
        BY <3>1 DEF QueueOk, QueueRows
      <3>3. Drained(t) \in Nat
        BY <3>2 DEF Drained
      <3> QED
        BY <3>3 DEF DashboardInv, ListsOk, DashboardTypes, DA!Messages
    <2>2. ClearedOk(t)'
      BY <1>7, <1>12, <2>1 DEF ClearedOk
    <2>3. Shows(DA!Messages(t)', t, Drained(t)')
      <3>1. CASE daBox[t] = "shared" /\ daBox[s] = "shared"
        <4>1. DA!Messages(t) = list /\ DA!Messages(t)' = all
          BY <1>2, <1>7, <1>12, <3>1 DEF DA!Messages
        <4>2. \A i \in 1..Len(q) : q[i].of # t
          BY <1>5
        <4> QED
          BY <1>3, <1>13, <2>1, <4>1, <4>2, ShowsAmong
      <3>2. CASE ~(daBox[t] = "shared" /\ daBox[s] = "shared")
        <4>1. DA!Messages(t)' = DA!Messages(t)
          BY <1>7, <1>12, <3>2 DEF DA!Messages
        <4> QED
          BY <1>13, <2>1, <4>1
      <3> QED
        BY <3>1, <3>2
    <2> QED
      BY <2>2, <2>3 DEF Shows
  <1>18. ListsOk'
    BY <1>15, <1>16, <1>17 DEF ListsOk
  <1> QED
    BY <1>10, <1>11, <1>14, <1>18 DEF DashboardInv

\* Every step of the dashboard keeps its invariant.
LEMMA DashboardNext == ASSUME DashboardInv, [DA!Next]_(DA!vars) PROVE DashboardInv'
  <1>1. CASE UNCHANGED DA!vars
    <2>1. daPage' \in [Sessions -> {"idle", "drain", "end"}]
      BY <1>1 DEF DA!vars, DashboardInv, DashboardTypes
    <2> QED
      BY <1>1, <2>1, PageFrame DEF DA!vars, DA!lists
  <1>2. CASE DA!Next
    <2>1. CASE \E n \in DA!Threads : DA!ListenerStep(n)
      BY <2>1, ListenerKeeps
    <2>2. CASE \E s \in Sessions : DA!PageStep(s)
      <3>1. PICK s \in Sessions : DA!PageStep(s)
        BY <2>2
      <3>2. CASE (\E ok \in BOOLEAN : DA!DoLogin(s, ok)) \/ DA!Logout(s) \/ DA!EndOfPage(s)
        <4>1. daPage' \in [Sessions -> {"idle", "drain", "end"}]
          BY <3>2 DEF DashboardInv, DashboardTypes, DA!DoLogin, DA!Logout, DA!EndOfPage
        <4>2. UNCHANGED <<daHandle, daThread, daBuf, DA!lists, daReceived, daHanded>>
          BY <3>2 DEF DA!DoLogin, DA!Logout, DA!EndOfPage
        <4> QED
          BY <4>1, <4>2, PageFrame
      <3>3. CASE DA!Drain(s)
        BY <3>3, DrainKeeps
      <3>4. CASE \E toggle, clear \in BOOLEAN : DA!RenderLiveStream(s, toggle, clear)
        BY <3>4, RenderKeeps
      <3> QED
        BY <3>1, <3>2, <3>3, <3>4 DEF DA!PageStep
    <2> QED
      BY <1>2, <2>1, <2>2 DEF DA!Next
  <1> QED
    BY <1>1, <1>2

\* The invariant implies what is asked for.
LEMMA DashboardImplies == ASSUME DashboardInv PROVE DA!TypeOK /\ DA!ShowsOwnStream
  <1>1. DA!TypeOK
    BY DashboardAssumption DEF DashboardInv, DashboardTypes, ThreadsOk, DA!TypeOK
  <1>2. ASSUME NEW s \in Sessions
        PROVE  LET list == DA!Messages(s)
                   drained == Len(daHanded[s]) - Len(daBuf[s])
               IN /\ Cardinality(DA!Listeners(s)) <= 1
                  /\ daBuf[s] = SubSeq(daHanded[s], drained + 1, Len(daHanded[s]))
                  /\ \A i \in DA!Mine(s) : list[i].no \in 1..drained /\ list[i] = daHanded[s][list[i].no]
                  /\ \A i, j \in DA!Mine(s) : i < j => list[i].no < list[j].no
                  /\ \A i \in DA!Mine(s), k \in 1..drained :
                       list[i].no <= k => \E j \in DA!Mine(s) : list[j].no = k
                  /\ s \in daCleared => DA!Mine(s) = DOMAIN list
    <2>1. PICK list \in Seq(StreamRows) : list = DA!Messages(s)
      BY DEF DashboardInv, DashboardTypes, DA!Messages
    <2>2. PICK h \in Seq(StreamRows) : h = daHanded[s]
      BY DEF DashboardInv, DashboardTypes
    <2>3. PICK b \in Seq(StreamRows) : b = daBuf[s]
      BY DEF DashboardInv, DashboardTypes
    <2>4. /\ Len(b) \in Nat /\ Len(h) \in Nat /\ Len(b) <= Len(h)
          /\ \A k \in 1..Len(h) : h[k] = [of |-> s, no |-> k]
          /\ \A i \in 1..Len(b) : b[i] = h[Len(h) - Len(b) + i]
      <3>1. QueueOk(s)
        BY DEF DashboardInv
      <3>2. QueueRows(b, h, s)
        BY <2>2, <2>3, <3>1 DEF QueueOk
      <3> QED
        BY <3>2 DEF QueueRows
    <2>5. PICK d \in Nat : d = Len(h) - Len(b)
      <3>1. Len(h) - Len(b) \in Nat
        BY <2>4
      <3> QED
        BY <3>1
    <2>6. Shows(list, s, d) /\ ClearedOk(s)
      BY <2>1, <2>2, <2>3, <2>5 DEF DashboardInv, ListsOk, Drained
    <2>7. Cardinality(DA!Listeners(s)) <= 1
      <3>1. DA!Listeners(s) \subseteq {daHandle[s]}
        BY DEF DashboardInv, ThreadsOk, DA!Listeners, DA!IsAlive
      <3>2. IsFiniteSet({daHandle[s]}) /\ Cardinality({daHandle[s]}) = 1
        BY FS_Singleton
      <3>3. Cardinality(DA!Listeners(s)) <= Cardinality({daHandle[s]})
        BY <3>1, <3>2, FS_Subset
      <3> QED
        BY <3>2, <3>3
    <2>8. b = SubSeq(h, d + 1, Len(h))
      <3>1. d + 1 \in Int /\ Len(h) \in Int /\ \A i \in (d + 1)..Len(h) : h[i] \in StreamRows
        BY <2>4
      <3>2. PICK n \in Nat : n = Len(h)
        BY <2>4
      <3>3. PICK c : c = SubSeq(h, d + 1, n)
        OBVIOUS
      <3>4. /\ c \in Seq(StreamRows) /\ Len(c) = IF d + 1 <= n THEN n - (d + 1) + 1 ELSE 0
            /\ \A i \in 1..(n - (d + 1) + 1) : c[i] = h[(d + 1) + i - 1]
        BY <3>1, <3>2, <3>3, SubSeqProperties
      <3>5. n - (d + 1) + 1 = Len(b) /\ (~(d + 1 <= n) => Len(b) = 0) /\ Len(c) = Len(b)
        BY <2>4, <2>5, <3>2, <3>4
      <3>6. ASSUME NEW i \in 1..Len(b) PROVE c[i] = b[i]
        <4>1. (d + 1) + i - 1 = Len(h) - Len(b) + i
          BY <2>4, <2>5
        <4> QED
          BY <2>4, <3>4, <3>5, <4>1
      <3> QED
        BY <3>2, <3>3, <3>4, <3>5, <3>6, SeqEqual
    <2>9. DA!Mine(s) = {i \in 1..Len(list) : list[i].of = s}
      BY <2>1 DEF DA!Mine
    <2>10. ASSUME NEW i \in DA!Mine(s) PROVE list[i].no \in 1..d /\ list[i] = h[list[i].no]
      <3>1. list[i] \in StreamRows /\ list[i].of = s /\ list[i].no \in 1..d
        BY <2>6, <2>9 DEF Shows
      <3>2. list[i].no \in 1..Len(h)
        BY <2>4, <2>5, <3>1
      <3>3. list[i] = [of |-> s, no |-> list[i].no]
        BY <3>1 DEF StreamRows
      <3> QED
        BY <2>4, <3>1, <3>2, <3>3
    <2>11. \A i, j \in DA!Mine(s) : i < j => list[i].no < list[j].no
      BY <2>6, <2>9 DEF Shows
    <2>12. \A i \in DA!Mine(s), k \in 1..d : list[i].no <= k => \E j \in DA!Mine(s) : list[j].no = k
      BY <2>6, <2>9 DEF Shows
    <2>13. s \in daCleared => DA!Mine(s) = DOMAIN list
      BY <2>1, <2>6, <2>9 DEF ClearedOk, DA!Messages
    <2> QED
      BY <2>1, <2>2, <2>3, <2>5, <2>7, <2>8, <2>10, <2>11, <2>12, <2>13
  <1> QED
    BY <1>1, <1>2, DashboardCardinality DEF DA!ShowsOwnStream

\* For any number of sessions, messages and any length of the list: a session has
\* one listener at most, shows its own messages in the order they were handed
\* over and without a gap, and after a Clear only its own (panels/live_stream.py).
THEOREM StreamsAreShown == DA!Spec => []DA!ShowsOwnStream
  <1>1. DashboardInv /\ [DA!Next]_(DA!vars) => DashboardInv'
    BY DashboardNext
  <1>2. DashboardInv => DA!ShowsOwnStream
    BY DashboardImplies
  <1> QED
    BY DashboardInit, <1>1, <1>2, PTL DEF DA!Spec

-----------------------------------------------------------------------------
(* Contract baselines and drift.                                            *)

USE StructuresAssumption, BoundsAssumption

-----------------------------------------------------------------------------
(* The inductive invariant *)

Ingesting(s) == pc[s] \in {"baseline", "first"}

\* The source row is locked by the session between its begin and its commit.
Locks ==
  /\ \A s \in Sessions : Ingesting(s) => sourceLock = {s}
  /\ \A s \in sourceLock : Ingesting(s)

\* What sessions and reviewers carry from their first step to their last.
InHand ==
  /\ \A s \in Sessions :
       Ingesting(s) => snapId[s] = lastId /\ streak < lastId /\ seen[s] \in Structures
  /\ \A s \in Sessions : pc[s] = "baseline" => found[s] \in Versions
  /\ \A s \in Sessions : pc[s] = "trigger" => snapId[s] \in responses
  /\ \A r \in Reviewers : rpc[r] = "accept" => rfound[r] \in Versions
  /\ streak <= lastId

\* The candidate is the structure observed last, counted since it was first observed
\* against this baseline, and it has an event when it is confirmed.
CandidateIsCurrent ==
  IF candidate = NoStructure THEN candSnapshot = 0 /\ candCount = 0 /\ candEvent = 0
  ELSE /\ Found # 0 /\ candidate = observed
       /\ <<baseline[Found], candidate>> \in Drifts
       /\ candSnapshot # 0 /\ candCount = streak
       /\ candEvent # 0 <=> candCount >= CONTRACT_BASELINE_CONFIRMATION_POLLS

\* A drifted structure is the candidate as soon as it is observed.
DriftIsCandidate ==
  /\ Found # 0
  /\ observed # NoStructure
  /\ <<baseline[Found], observed>> \in Drifts
  => candidate = observed

Inv == TypeOK /\ OneActiveBaseline /\ Locks /\ InHand /\ CandidateIsCurrent /\ DriftIsCandidate

\* The active version is the only one, and Found finds it.
LEMMA FoundActive ==
  ASSUME TypeOK, OneActiveBaseline
  PROVE  /\ Found \in 0..MaxVersions
         /\ Found # 0 => Found \in Versions /\ status[Found] = "active"
         /\ \A v \in Versions : status[v] = "active" => Found = v
         /\ Found = 0 <=> ActiveVersions = {}
  <1>1. ActiveVersions \subseteq Versions
    BY DEF ActiveVersions
  <1>2. CASE ActiveVersions = {}
    BY <1>2 DEF Found, ActiveVersions
  <1>3. CASE ActiveVersions # {}
    <2> DEFINE f == CHOOSE v \in ActiveVersions : TRUE
    <2>1. f \in ActiveVersions
      BY <1>3
    <2>2. Found = f
      BY <1>3 DEF Found
    <2> HIDE DEF f
    <2>3. f \in Versions /\ status[f] = "active"
      BY <2>1 DEF ActiveVersions
    <2>4. ASSUME NEW v \in Versions, status[v] = "active"
          PROVE  v = f
      <3>1. ~(v > f) /\ ~(f > v)
        BY <2>3, <2>4 DEF OneActiveBaseline
      <3> QED
        BY <2>3, <3>1 DEF Versions
    <2>5. f \in 0..MaxVersions /\ f # 0
      BY <2>3 DEF Versions
    <2> QED
      BY <1>3, <2>2, <2>3, <2>4, <2>5
  <1> QED
    BY <1>2, <1>3

\* The variables of a session that EndSession resets.
LEMMA Ended ==
  ASSUME TypeOK, NEW s \in Sessions, EndSession(s)
  PROVE  /\ pc'[s] = "idle"
         /\ \A x \in Sessions : x # s => /\ pc'[x] = pc[x] /\ seen'[x] = seen[x]
                                         /\ found'[x] = found[x] /\ snapId'[x] = snapId[x]
         /\ pc' \in [Sessions -> {"idle", "baseline", "first", "trigger"}]
         /\ seen' \in [Sessions -> Structures \cup {NoStructure}]
         /\ found' \in [Sessions -> 0..MaxVersions]
         /\ snapId' \in [Sessions -> 0..MaxSnapshots]
         /\ sourceLock' \in SUBSET Sessions
  <1>1. /\ pc' \in [Sessions -> {"idle", "baseline", "first", "trigger"}]
        /\ pc'[s] = "idle" /\ \A x \in Sessions : x # s => pc'[x] = pc[x]
    BY DEF EndSession, TypeOK
  <1>2. /\ seen' \in [Sessions -> Structures \cup {NoStructure}]
        /\ \A x \in Sessions : x # s => seen'[x] = seen[x]
    BY DEF EndSession, TypeOK
  <1>3. /\ found' \in [Sessions -> 0..MaxVersions] /\ snapId' \in [Sessions -> 0..MaxSnapshots]
        /\ \A x \in Sessions : x # s => found'[x] = found[x] /\ snapId'[x] = snapId[x]
    BY DEF EndSession, TypeOK
  <1>4. sourceLock' \in SUBSET Sessions
    BY DEF EndSession, TypeOK
  <1> QED
    BY <1>1, <1>2, <1>3, <1>4

\* Ending a session releases its lock and no other one.
LEMMA EndedLocks ==
  ASSUME TypeOK, Locks, NEW s \in Sessions, EndSession(s)
  PROVE  Locks'
  <1>1. pc'[s] = "idle" /\ \A x \in Sessions : x # s => pc'[x] = pc[x]
    BY Ended
  <1>2. sourceLock' = sourceLock \ {s} /\ sourceLock \subseteq Sessions
    BY DEF EndSession, TypeOK
  <1>3. ASSUME NEW x \in Sessions, Ingesting(x)'
        PROVE  sourceLock' = {x}
    <2>1. x # s /\ Ingesting(x)
      BY <1>1, <1>3 DEF Ingesting
    <2> QED
      BY <1>2, <2>1 DEF Locks
  <1>4. ASSUME NEW x \in sourceLock'
        PROVE  Ingesting(x)'
    <2>1. x \in sourceLock /\ x # s /\ x \in Sessions
      BY <1>2, <1>4
    <2>2. Ingesting(x) /\ pc'[x] = pc[x]
      BY <1>1, <2>1 DEF Locks
    <2> QED
      BY <2>2 DEF Ingesting
  <1> QED
    BY <1>3, <1>4 DEF Locks

\* Ending a session leaves what the others have in hand, while nobody else has the
\* lock or the streak and the ids stay.
LEMMA EndedInHand ==
  ASSUME TypeOK, Locks, InHand, NEW s \in Sessions, EndSession(s), lastId' = lastId,
         responses \subseteq responses', rpc' = rpc, rfound' = rfound,
         streak' = streak \/ (Ingesting(s) /\ streak' <= lastId)
  PROVE  InHand'
  <1>1. /\ pc'[s] = "idle"
        /\ \A x \in Sessions : x # s => /\ pc'[x] = pc[x] /\ seen'[x] = seen[x]
                                        /\ found'[x] = found[x] /\ snapId'[x] = snapId[x]
    BY Ended
  <1>2. ASSUME NEW x \in Sessions, Ingesting(x)'
        PROVE  snapId'[x] = lastId' /\ streak' < lastId' /\ seen'[x] \in Structures
    <2>1. x # s /\ Ingesting(x)
      BY <1>1, <1>2 DEF Ingesting
    <2>2. ~Ingesting(s)
      BY <2>1 DEF Locks
    <2> QED
      BY <1>1, <2>1, <2>2 DEF InHand
  <1>3. \A x \in Sessions : pc'[x] = "baseline" => found'[x] \in Versions
    BY <1>1 DEF InHand
  <1>4. \A x \in Sessions : pc'[x] = "trigger" => snapId'[x] \in responses'
    BY <1>1 DEF InHand
  <1>5. streak' <= lastId'
    BY DEF InHand
  <1> QED
    BY <1>2, <1>3, <1>4, <1>5 DEF InHand

\* The candidate and the versions of a step that does not touch them.
LEMMA TablesKept ==
  ASSUME OneActiveBaseline, CandidateIsCurrent, DriftIsCandidate,
         UNCHANGED <<baseline, status, candidate, candSnapshot, candCount, candEvent,
                     observed, streak>>
  PROVE  OneActiveBaseline' /\ CandidateIsCurrent' /\ DriftIsCandidate' /\ Found' = Found
  <1>1. Found' = Found
    BY DEF Found, ActiveVersions
  <1>2. OneActiveBaseline'
    BY DEF OneActiveBaseline
  <1>3. CandidateIsCurrent'
    BY <1>1 DEF CandidateIsCurrent
  <1>4. DriftIsCandidate'
    BY <1>1 DEF DriftIsCandidate
  <1> QED
    BY <1>1, <1>2, <1>3, <1>4

-----------------------------------------------------------------------------
(* One lemma per action *)

\* BeginSnapshot takes the free source lock and an id above every streak.
LEMMA BeginSnapshotStep ==
  ASSUME Inv, NEW s \in Sessions, NEW x \in Structures, BeginSnapshot(s, x)
  PROVE  Inv'
  <1>1. TypeOK /\ OneActiveBaseline /\ Locks /\ InHand /\ CandidateIsCurrent /\ DriftIsCandidate
    BY DEF Inv
  <1>2. /\ pc[s] = "idle" /\ sourceLock = {} /\ lastId < MaxSnapshots
        /\ sourceLock' = {s} /\ lastId' = lastId + 1
        /\ snapId' = [snapId EXCEPT ![s] = lastId + 1]
        /\ seen' = [seen EXCEPT ![s] = x]
        /\ found' = [found EXCEPT ![s] = Found]
        /\ pc' = [pc EXCEPT ![s] = IF Found = 0 THEN "first" ELSE "baseline"]
        /\ UNCHANGED <<baseline, status, candidate, candSnapshot, candCount, candEvent, events,
                       responses, triggered, rpc, rfound, named, observed, streak, faults>>
    BY DEF BeginSnapshot, tableVars, candVars, reviewVars, historyVars
  <1>3. Found \in 0..MaxVersions /\ (Found # 0 => Found \in Versions)
    BY <1>1, FoundActive
  <1>4. lastId' \in 0..MaxSnapshots /\ lastId \in Nat /\ streak \in Nat
    BY <1>1, <1>2 DEF TypeOK
  <1>5. TypeOK'
    <2>1. snapId' \in [Sessions -> 0..MaxSnapshots]
      BY <1>1, <1>2, <1>4 DEF TypeOK
    <2>2. seen' \in [Sessions -> Structures \cup {NoStructure}]
      BY <1>1, <1>2 DEF TypeOK
    <2>3. found' \in [Sessions -> 0..MaxVersions]
      BY <1>1, <1>2, <1>3 DEF TypeOK
    <2>4. pc' \in [Sessions -> {"idle", "baseline", "first", "trigger"}]
      BY <1>1, <1>2 DEF TypeOK
    <2>5. sourceLock' \in SUBSET Sessions
      BY <1>2
    <2> QED
      BY <1>1, <1>2, <1>4, <2>1, <2>2, <2>3, <2>4, <2>5 DEF TypeOK
  <1>6. /\ pc'[s] \in {"first", "baseline"} /\ (pc'[s] = "baseline" => Found # 0)
        /\ snapId'[s] = lastId' /\ seen'[s] = x /\ found'[s] = Found
        /\ \A y \in Sessions : y # s => /\ pc'[y] = pc[y] /\ seen'[y] = seen[y]
                                        /\ found'[y] = found[y] /\ snapId'[y] = snapId[y]
    BY <1>1, <1>2 DEF TypeOK
  <1>7. \A y \in Sessions : ~Ingesting(y)
    BY <1>1, <1>2 DEF Locks
  <1>8. \A y \in Sessions : Ingesting(y)' => y = s
    BY <1>6, <1>7 DEF Ingesting
  <1>9. Ingesting(s)'
    BY <1>6 DEF Ingesting
  <1>10. Locks'
    BY <1>2, <1>8, <1>9 DEF Locks
  <1>11. InHand'
    <2>1. streak' < lastId' /\ streak' <= lastId'
      BY <1>1, <1>2, <1>4 DEF InHand
    <2>2. \A y \in Sessions : Ingesting(y)' =>
            snapId'[y] = lastId' /\ streak' < lastId' /\ seen'[y] \in Structures
      BY <1>6, <1>8, <2>1
    <2>3. \A y \in Sessions : pc'[y] = "baseline" => found'[y] \in Versions
      BY <1>1, <1>3, <1>6 DEF InHand
    <2>4. \A y \in Sessions : pc'[y] = "trigger" => snapId'[y] \in responses'
      BY <1>1, <1>2, <1>6 DEF InHand
    <2>5. \A r \in Reviewers : rpc'[r] = "accept" => rfound'[r] \in Versions
      BY <1>1, <1>2 DEF InHand
    <2> QED
      BY <2>1, <2>2, <2>3, <2>4, <2>5 DEF InHand
  <1> QED
    BY <1>1, <1>2, <1>5, <1>10, <1>11, TablesKept DEF Inv

\* BaselineVanished keeps the source lock.
LEMMA VanishedStep ==
  ASSUME Inv, NEW s \in Sessions, BaselineVanished(s)
  PROVE  Inv'
  <1>1. TypeOK /\ OneActiveBaseline /\ Locks /\ InHand /\ CandidateIsCurrent /\ DriftIsCandidate
    BY DEF Inv
  <1>2. /\ pc[s] = "baseline" /\ pc' = [pc EXCEPT ![s] = "first"]
        /\ UNCHANGED <<baseline, status, candidate, candSnapshot, candCount, candEvent, events,
                       responses, triggered, rpc, rfound, named, observed, streak, faults,
                       lastId, sourceLock, seen, found, snapId>>
    BY DEF BaselineVanished, tableVars, candVars, reviewVars, historyVars
  <1>3. TypeOK'
    BY <1>1, <1>2 DEF TypeOK
  <1>4. pc'[s] = "first" /\ \A y \in Sessions : y # s => pc'[y] = pc[y]
    BY <1>1, <1>2 DEF TypeOK
  <1>5. \A y \in Sessions : Ingesting(y)' <=> Ingesting(y)
    BY <1>2, <1>4 DEF Ingesting
  <1>6. sourceLock \subseteq Sessions
    BY <1>1 DEF TypeOK
  <1>7. Locks'
    BY <1>1, <1>2, <1>5, <1>6 DEF Locks
  <1>8. InHand'
    BY <1>1, <1>2, <1>4, <1>5 DEF InHand
  <1> QED
    BY <1>1, <1>2, <1>3, <1>7, <1>8, TablesKept DEF Inv

\* A first baseline does not differ from the snapshot it is made of.
LEMMA FirstStep ==
  ASSUME Inv, NEW s \in Sessions, FirstObservation(s)
  PROVE  Inv'
  <1>1. TypeOK /\ OneActiveBaseline /\ Locks /\ InHand /\ CandidateIsCurrent /\ DriftIsCandidate
    BY DEF Inv
  <1>2. /\ pc[s] = "first" /\ EndSession(s)
        /\ UNCHANGED <<candidate, candSnapshot, candCount, candEvent, events, responses,
                       triggered, rpc, rfound, named, faults, lastId>>
    BY DEF FirstObservation, candVars, reviewVars
  <1>3. Ingesting(s) /\ seen[s] \in Structures /\ streak < lastId /\ streak \in Nat
        /\ lastId \in 0..MaxSnapshots
    BY <1>1, <1>2 DEF Ingesting, InHand, TypeOK
  <1>4. Locks'
    BY <1>1, <1>2, EndedLocks
  <1>5. CASE ActiveVersions # {}
    <2>1. UNCHANGED <<baseline, status, observed, streak>>
      BY <1>5 DEF FirstObservation, historyVars
    <2>2. InHand'
      BY <1>1, <1>2, <2>1, EndedInHand
    <2>3. TypeOK'
      BY <1>1, <1>2, <2>1, Ended DEF TypeOK
    <2> QED
      BY <1>1, <1>2, <1>4, <2>1, <2>2, <2>3, TablesKept DEF Inv
  <1>6. CASE ActiveVersions = {}
    <2>1. /\ baseline' = [baseline EXCEPT ![1] = seen[s]]
          /\ status' = [status EXCEPT ![1] = "active"]
          /\ observed' = seen[s]
          /\ streak' = IF observed = seen[s] THEN streak + 1 ELSE 1
      BY <1>6 DEF FirstObservation, Observe
    <2>2. streak' \in 0..MaxSnapshots /\ streak' <= lastId
      BY <1>3, <2>1
    <2>3. InHand'
      BY <1>1, <1>2, <1>3, <2>2, EndedInHand
    <2>4. TypeOK'
      <3>1. baseline' \in [Versions -> Structures \cup {NoStructure}]
        BY <1>1, <1>3, <2>1 DEF TypeOK
      <3>2. status' \in [Versions -> {"absent", "active", "superseded"}]
        BY <1>1, <2>1 DEF TypeOK
      <3>3. observed' \in Structures \cup {NoStructure}
        BY <1>3, <2>1
      <3> QED
        BY <1>1, <1>2, <2>2, <3>1, <3>2, <3>3, Ended DEF TypeOK
    <2>5. \A v \in Versions : status[v] = "absent"
      <3>1. \A v \in Versions : status[v] # "active"
        BY <1>6 DEF ActiveVersions
      <3> QED
        BY <1>1, <3>1 DEF OneActiveBaseline, TypeOK
    <2>6. \A v \in Versions : status'[v] = IF v = 1 THEN "active" ELSE "absent"
      BY <1>1, <2>1, <2>5 DEF TypeOK
    <2>7. OneActiveBaseline'
      BY <2>6 DEF OneActiveBaseline, Versions
    <2>8. candidate = NoStructure
      <3>1. Found = 0
        BY <1>6 DEF Found
      <3> QED
        BY <1>1, <3>1 DEF CandidateIsCurrent
    <2>9. CandidateIsCurrent'
      BY <1>1, <1>2, <2>8 DEF CandidateIsCurrent
    <2>10. DriftIsCandidate'
      <3> SUFFICES ASSUME Found' # 0 PROVE <<baseline'[Found'], observed'>> \notin Drifts
        BY DEF DriftIsCandidate
      <3>1. Found' \in Versions /\ status'[Found'] = "active"
        BY DEF Found, ActiveVersions
      <3>2. Found' = 1
        BY <2>6, <3>1
      <3>3. baseline'[1] = seen[s]
        BY <1>1, <2>1, <3>1, <3>2 DEF TypeOK
      <3> QED
        BY <1>3, <2>1, <3>2, <3>3
    <2> QED
      BY <1>4, <2>3, <2>4, <2>7, <2>9, <2>10 DEF Inv
  <1> QED
    BY <1>5, <1>6

\* The effect of CommitSnapshot on the candidate: what it observes is counted as often
\* as it was observed in a row, and the event comes with the confirming observation.
LEMMA CommitCandidate ==
  ASSUME Inv, NEW s \in Sessions, CommitSnapshot(s)
  PROVE  /\ CandidateIsCurrent' /\ DriftIsCandidate'
         /\ candidate' \in Structures \cup {NoStructure}
         /\ candSnapshot' \in 0..MaxSnapshots /\ candCount' \in 0..MaxSnapshots
         /\ candEvent' \in 0..MaxSnapshots
         /\ streak' \in 0..MaxSnapshots /\ streak' <= lastId /\ observed' \in Structures
         /\ events' # events => streak' = CONTRACT_BASELINE_CONFIRMATION_POLLS
         /\ Found' = Found
  <1>1. TypeOK /\ OneActiveBaseline /\ Locks /\ InHand /\ CandidateIsCurrent /\ DriftIsCandidate
    BY DEF Inv
  <1> DEFINE x == seen[s]
             b == baseline[found[s]]
  <1>2. /\ pc[s] = "baseline" /\ status[found[s]] = "active"
        /\ UNCHANGED <<baseline, status, lastId>>
        /\ observed' = x /\ streak' = IF observed = x THEN streak + 1 ELSE 1
    BY DEF CommitSnapshot, Observe
  <1>3. /\ found[s] \in Versions /\ x \in Structures /\ snapId[s] = lastId
        /\ streak < lastId /\ streak \in Nat /\ lastId \in 0..MaxSnapshots
    BY <1>1, <1>2 DEF Ingesting, InHand, TypeOK
  <1>4. Found = found[s] /\ Found # 0
    BY <1>1, <1>2, <1>3, FoundActive DEF Versions
  <1>5. Found' = Found
    BY <1>2 DEF Found, ActiveVersions
  <1>6. streak' \in 0..MaxSnapshots /\ streak' <= lastId /\ streak' # 0
        /\ lastId \in 1..MaxSnapshots
    BY <1>2, <1>3
  <1>7. candCount \in Nat /\ candEvent \in 0..MaxSnapshots /\ x # NoStructure
    BY <1>1, <1>3 DEF TypeOK
  <1>8. CASE <<b, x>> \notin Drifts
    <2>1. /\ candidate' = NoStructure /\ candSnapshot' = 0 /\ candCount' = 0 /\ candEvent' = 0
          /\ events' = events
      BY <1>8 DEF CommitSnapshot, ClearCandidate
    <2>2. CandidateIsCurrent'
      BY <2>1 DEF CandidateIsCurrent
    <2>3. DriftIsCandidate'
      BY <1>2, <1>4, <1>5, <1>8 DEF DriftIsCandidate
    <2> QED
      BY <1>2, <1>3, <1>5, <1>6, <2>1, <2>2, <2>3
  <1>9. CASE <<b, x>> \in Drifts
    <2>1. /\ candidate' = x /\ candCount' = CandidateCount(x) /\ candSnapshot' = snapId[s]
          /\ IF EmitsEvent(x)
             THEN events' = events \cup {snapId[s]} /\ candEvent' = snapId[s]
             ELSE /\ candEvent' = IF candidate = x THEN candEvent ELSE 0
                  /\ events' = events
      BY <1>9 DEF CommitSnapshot
    <2>2. candCount' = streak'
      <3>1. CASE candidate = x
        BY <1>1, <1>2, <1>7, <2>1, <3>1 DEF CandidateIsCurrent, CandidateCount
      <3>2. CASE candidate # x
        <4>1. observed # x
          BY <1>1, <1>4, <1>7, <1>9, <3>2 DEF DriftIsCandidate
        <4> QED
          BY <1>2, <2>1, <3>2, <4>1 DEF CandidateCount
      <3> QED
        BY <3>1, <3>2
    <2>3. EmitsEvent(x) => candCount' = CONTRACT_BASELINE_CONFIRMATION_POLLS
      BY <1>1, <1>7, <2>1 DEF EmitsEvent, CandidateCount, CandidateIsCurrent,
                              CONTRACT_BASELINE_CONFIRMATION_POLLS
    <2>4. candEvent' # 0 <=> candCount' >= CONTRACT_BASELINE_CONFIRMATION_POLLS
      <3>1. CASE EmitsEvent(x)
        BY <1>3, <1>6, <2>1, <2>3, <3>1 DEF CONTRACT_BASELINE_CONFIRMATION_POLLS
      <3>2. CASE ~EmitsEvent(x) /\ candidate = x
        BY <1>1, <1>7, <2>1, <3>2 DEF EmitsEvent, CandidateCount, CandidateIsCurrent,
                                      CONTRACT_BASELINE_CONFIRMATION_POLLS
      <3>3. CASE ~EmitsEvent(x) /\ candidate # x
        BY <2>1, <3>3 DEF CandidateCount, CONTRACT_BASELINE_CONFIRMATION_POLLS
      <3> QED
        BY <3>1, <3>2, <3>3
    <2>5. CandidateIsCurrent'
      BY <1>2, <1>3, <1>4, <1>5, <1>6, <1>7, <1>9, <2>1, <2>2, <2>4 DEF CandidateIsCurrent
    <2>6. DriftIsCandidate'
      BY <1>2, <2>1 DEF DriftIsCandidate
    <2>7. candSnapshot' \in 0..MaxSnapshots /\ candEvent' \in 0..MaxSnapshots
      BY <1>3, <1>7, <2>1
    <2>8. events' # events => streak' = CONTRACT_BASELINE_CONFIRMATION_POLLS
      BY <2>1, <2>2, <2>3
    <2> QED
      BY <1>2, <1>3, <1>5, <1>6, <2>1, <2>2, <2>5, <2>6, <2>7, <2>8
  <1> QED
    BY <1>8, <1>9

\* CommitSnapshot writes its events together and releases the source lock.
LEMMA CommitStep ==
  ASSUME Inv, NEW s \in Sessions, CommitSnapshot(s)
  PROVE  Inv'
  <1>1. TypeOK /\ OneActiveBaseline /\ Locks /\ InHand /\ CandidateIsCurrent /\ DriftIsCandidate
    BY DEF Inv
  <1> DEFINE x == seen[s]
             b == baseline[found[s]]
  <1>2. /\ pc[s] = "baseline" /\ Ingesting(s)
        /\ UNCHANGED <<baseline, status, lastId, triggered, rpc, rfound, named, faults>>
    BY DEF CommitSnapshot, Ingesting, reviewVars
  <1>3. /\ CandidateIsCurrent' /\ DriftIsCandidate'
        /\ candidate' \in Structures \cup {NoStructure}
        /\ candSnapshot' \in 0..MaxSnapshots /\ candCount' \in 0..MaxSnapshots
        /\ candEvent' \in 0..MaxSnapshots
        /\ streak' \in 0..MaxSnapshots /\ streak' <= lastId /\ observed' \in Structures
    BY CommitCandidate
  <1>4. snapId[s] = lastId /\ streak < lastId /\ streak \in Nat /\ lastId \in 0..MaxSnapshots
    BY <1>1, <1>2 DEF InHand, TypeOK
  <1>5. snapId[s] \in Ids
    BY <1>4 DEF Ids
  <1>6. events \subseteq events' /\ events' \in SUBSET Ids
    <2>1. CASE <<b, x>> \notin Drifts
      BY <1>1, <2>1 DEF CommitSnapshot, TypeOK
    <2>2. CASE <<b, x>> \in Drifts
      <3>1. events' = events \/ events' = events \cup {snapId[s]}
        BY <2>2 DEF CommitSnapshot
      <3> QED
        BY <1>1, <1>5, <3>1 DEF TypeOK
    <2> QED
      BY <2>1, <2>2
  <1>7. OneActiveBaseline'
    BY <1>1, <1>2 DEF OneActiveBaseline
  <1>8. CASE Responds(<<b, x>>, x)
    <2>1. /\ responses' = responses \cup {snapId[s]}
          /\ pc' = [pc EXCEPT ![s] = "trigger"] /\ sourceLock' = {}
          /\ UNCHANGED <<seen, found, snapId>>
      BY <1>8 DEF CommitSnapshot
    <2>2. snapId[s] \in events'
      BY <1>8 DEF CommitSnapshot, Responds
    <2>3. /\ pc' \in [Sessions -> {"idle", "baseline", "first", "trigger"}]
          /\ pc'[s] = "trigger" /\ \A y \in Sessions : y # s => pc'[y] = pc[y]
      BY <1>1, <2>1 DEF TypeOK
    <2>4. responses' \in SUBSET events' /\ triggered' \in SUBSET responses'
      BY <1>1, <1>2, <1>6, <2>1, <2>2 DEF TypeOK
    <2>5. TypeOK'
      BY <1>1, <1>2, <1>3, <1>6, <2>1, <2>3, <2>4 DEF TypeOK
    <2>6. \A y \in Sessions : ~Ingesting(y)'
      BY <1>1, <1>2, <2>3 DEF Ingesting, Locks
    <2>7. Locks'
      BY <2>1, <2>6 DEF Locks
    <2>8. InHand'
      <3>1. \A y \in Sessions : pc'[y] = "baseline" => found'[y] \in Versions
        BY <1>1, <2>1, <2>3 DEF InHand
      <3>2. \A y \in Sessions : pc'[y] = "trigger" => snapId'[y] \in responses'
        BY <1>1, <2>1, <2>3 DEF InHand
      <3>3. \A r \in Reviewers : rpc'[r] = "accept" => rfound'[r] \in Versions
        BY <1>1, <1>2 DEF InHand
      <3> QED
        BY <1>2, <1>3, <2>6, <3>1, <3>2, <3>3 DEF InHand
    <2> QED
      BY <1>3, <1>7, <2>5, <2>7, <2>8 DEF Inv
  <1>9. CASE ~Responds(<<b, x>>, x)
    <2>1. EndSession(s) /\ responses' = responses
      BY <1>9 DEF CommitSnapshot
    <2>2. Locks'
      BY <1>1, <2>1, EndedLocks
    <2>3. InHand'
      BY <1>1, <1>2, <1>3, <2>1, EndedInHand
    <2>4. responses' \in SUBSET events' /\ triggered' \in SUBSET responses'
      BY <1>1, <1>2, <1>6, <2>1 DEF TypeOK
    <2>5. TypeOK'
      BY <1>1, <1>2, <1>3, <1>6, <2>1, <2>4, Ended DEF TypeOK
    <2> QED
      BY <1>3, <1>7, <2>2, <2>3, <2>5 DEF Inv
  <1> QED
    BY <1>8, <1>9

\* TriggerAgentRun and Crash end a session and leave the tables.
LEMMA EndStep ==
  ASSUME Inv, NEW s \in Sessions, TriggerAgentRun(s) \/ Crash(s)
  PROVE  Inv'
  <1>1. TypeOK /\ OneActiveBaseline /\ Locks /\ InHand /\ CandidateIsCurrent /\ DriftIsCandidate
    BY DEF Inv
  <1>2. /\ EndSession(s)
        /\ UNCHANGED <<baseline, status, candidate, candSnapshot, candCount, candEvent, events,
                       responses, rpc, rfound, named, observed, streak, lastId>>
    BY DEF TriggerAgentRun, Crash, tableVars, candVars, reviewVars, historyVars
  <1>3. triggered' \in SUBSET responses'
    <2>1. CASE TriggerAgentRun(s)
      BY <1>1, <1>2, <2>1 DEF TriggerAgentRun, InHand, TypeOK
    <2>2. CASE Crash(s)
      BY <1>1, <1>2, <2>2 DEF Crash, TypeOK
    <2> QED
      BY <2>1, <2>2
  <1>4. faults' \in 0..MaxFaults
    BY <1>1 DEF TriggerAgentRun, Crash, TypeOK
  <1>5. Locks'
    BY <1>1, <1>2, EndedLocks
  <1>6. InHand'
    BY <1>1, <1>2, EndedInHand
  <1>7. TypeOK'
    BY <1>1, <1>2, <1>3, <1>4, Ended DEF TypeOK
  <1> QED
    BY <1>1, <1>2, <1>5, <1>6, <1>7, TablesKept DEF Inv

\* BeginAccept remembers an active version.
LEMMA BeginAcceptStep ==
  ASSUME Inv, NEW r \in Reviewers, NEW n \in 0..lastId, BeginAccept(r, n)
  PROVE  Inv'
  <1>1. TypeOK /\ OneActiveBaseline /\ Locks /\ InHand /\ CandidateIsCurrent /\ DriftIsCandidate
    BY DEF Inv
  <1>2. /\ Found # 0
        /\ rpc' = [rpc EXCEPT ![r] = "accept"]
        /\ rfound' = [rfound EXCEPT ![r] = Found]
        /\ named' = [named EXCEPT ![r] = n]
        /\ UNCHANGED <<baseline, status, candidate, candSnapshot, candCount, candEvent, events,
                       responses, triggered, observed, streak, faults, lastId, sourceLock,
                       pc, seen, found, snapId>>
    BY DEF BeginAccept, tableVars, candVars, sessionVars, historyVars
  <1>3. Found \in Versions /\ Found \in 0..MaxVersions /\ n \in 0..MaxSnapshots
    BY <1>1, <1>2, FoundActive DEF TypeOK
  <1>4. /\ rpc' \in [Reviewers -> {"idle", "accept"}]
        /\ rfound' \in [Reviewers -> 0..MaxVersions] /\ named' \in [Reviewers -> 0..MaxSnapshots]
    BY <1>1, <1>2, <1>3 DEF TypeOK
  <1>5. TypeOK'
    BY <1>1, <1>2, <1>4 DEF TypeOK
  <1>6. Locks'
    BY <1>1, <1>2 DEF Locks, Ingesting
  <1>7. InHand'
    <2>1. \A q \in Reviewers : rpc'[q] = "accept" => rfound'[q] \in Versions
      BY <1>1, <1>2, <1>3 DEF InHand, TypeOK
    <2> QED
      BY <1>1, <1>2, <2>1 DEF InHand, Ingesting
  <1> QED
    BY <1>1, <1>2, <1>5, <1>6, <1>7, TablesKept DEF Inv

\* The version an acceptance makes is the one found afterwards.
LEMMA FoundNext ==
  ASSUME NEW v \in Versions, status'[v] = "active",
         \A u \in Versions : u # v => status'[u] # "active"
  PROVE  Found' = v
  <1>1. ActiveVersions' = {v}
    BY DEF ActiveVersions
  <1> QED
    BY <1>1 DEF Found

\* What an acceptance promotes is what the source answered last.
LEMMA Promotes ==
  ASSUME Inv, NEW r \in Reviewers, EndAccept(r), status[rfound[r]] = "active", Acceptable(r)
  PROVE  /\ OneActiveBaseline' /\ status' # status
         /\ status' \in [Versions -> {"absent", "active", "superseded"}]
         /\ baseline' \in [Versions -> Structures \cup {NoStructure}]
         /\ Found' \in Versions /\ baseline'[Found'] = observed
         /\ candidate' = NoStructure /\ candSnapshot' = 0 /\ candCount' = 0 /\ candEvent' = 0
  <1>1. TypeOK /\ OneActiveBaseline /\ InHand /\ CandidateIsCurrent
    BY DEF Inv
  <1> DEFINE v == Found
  <1>2. /\ v < MaxVersions
        /\ status' = [status EXCEPT ![v] = "superseded", ![v + 1] = "active"]
        /\ baseline' = [baseline EXCEPT ![v + 1] = candidate]
        /\ candidate' = NoStructure /\ candSnapshot' = 0 /\ candCount' = 0 /\ candEvent' = 0
        /\ rpc[r] = "accept"
    BY DEF EndAccept, PromoteCandidate, ClearCandidate
  <1>3. rfound[r] \in Versions /\ v = rfound[r] /\ status[v] = "active" /\ v \in Versions
    BY <1>1, <1>2, FoundActive DEF InHand
  <1>4. \A u \in Versions : status[u] = "active" => u = v
    BY <1>1, FoundActive
  <1> HIDE DEF v
  <1>5. v + 1 \in Versions /\ v + 1 # v /\ v + 1 > v /\ v \in Nat
    BY <1>2, <1>3 DEF Versions
  <1>6. /\ status \in [Versions -> {"absent", "active", "superseded"}]
        /\ baseline \in [Versions -> Structures \cup {NoStructure}]
        /\ candidate \in Structures \cup {NoStructure}
    BY <1>1 DEF TypeOK
  <1>7. /\ status'[v] = "superseded" /\ status'[v + 1] = "active"
        /\ \A u \in Versions : u # v /\ u # v + 1 => status'[u] = status[u]
        /\ status' \in [Versions -> {"absent", "active", "superseded"}]
        /\ baseline'[v + 1] = candidate
        /\ baseline' \in [Versions -> Structures \cup {NoStructure}]
    BY <1>2, <1>3, <1>5, <1>6
  <1>8. \A u \in Versions : u # v + 1 => status'[u] # "active"
    BY <1>4, <1>7
  <1>9. Found' = v + 1
    BY <1>5, <1>7, <1>8, FoundNext
  <1>10. candidate = observed
    BY <1>1 DEF Acceptable, CandidateIsCurrent
  <1>11. OneActiveBaseline'
    <2>1. ASSUME NEW w \in Versions, status'[w] = "active", NEW u \in Versions, u > w
          PROVE  status'[u] = "absent"
      <3>1. w = v + 1
        BY <1>8, <2>1
      <3>2. u > v /\ u # v /\ u # v + 1
        BY <1>5, <2>1, <3>1 DEF Versions
      <3>3. status[u] = "absent"
        BY <1>1, <1>3, <3>2 DEF OneActiveBaseline
      <3> QED
        BY <1>7, <3>2, <3>3
    <2>2. ASSUME NEW w \in Versions, status'[w] = "superseded"
          PROVE  \E u \in Versions : u > w /\ status'[u] = "active"
      <3>1. v + 1 > w
        <4>1. CASE w = v
          BY <1>5, <4>1
        <4>2. CASE w # v
          <5>1. w # v + 1
            BY <1>7, <2>2
          <5>2. status[w] = "superseded"
            BY <1>7, <2>2, <4>2, <5>1
          <5>3. PICK u \in Versions : u > w /\ status[u] = "active"
            BY <1>1, <5>2 DEF OneActiveBaseline
          <5>4. v > w
            BY <1>4, <5>3
          <5> QED
            BY <1>5, <5>4 DEF Versions
        <4> QED
          BY <4>1, <4>2
      <3> QED
        BY <1>5, <1>7, <3>1
    <2> QED
      BY <2>1, <2>2 DEF OneActiveBaseline
  <1>12. status' # status
    BY <1>3, <1>7
  <1> QED
    BY <1>2, <1>5, <1>7, <1>9, <1>10, <1>11, <1>12

\* The end of a reviewer's request.
LEMMA EndAcceptStep ==
  ASSUME Inv, NEW r \in Reviewers, EndAccept(r)
  PROVE  Inv'
  <1>1. TypeOK /\ OneActiveBaseline /\ Locks /\ InHand /\ CandidateIsCurrent /\ DriftIsCandidate
    BY DEF Inv
  <1>2. /\ rpc' = [rpc EXCEPT ![r] = "idle"] /\ rfound' = [rfound EXCEPT ![r] = 0]
        /\ named' = [named EXCEPT ![r] = 0]
        /\ streak' = IF status' # status THEN 0 ELSE streak
        /\ observed' = IF status' # status THEN NoStructure ELSE observed
        /\ UNCHANGED <<events, responses, triggered, faults, lastId, sourceLock,
                       pc, seen, found, snapId>>
    BY DEF EndAccept, sessionVars
  <1>3. /\ rpc' \in [Reviewers -> {"idle", "accept"}]
        /\ rfound' \in [Reviewers -> 0..MaxVersions] /\ named' \in [Reviewers -> 0..MaxSnapshots]
    BY <1>1, <1>2 DEF TypeOK
  <1>4. /\ streak' \in 0..MaxSnapshots /\ streak' <= streak /\ streak \in Nat /\ lastId \in Nat
        /\ observed' \in Structures \cup {NoStructure}
    BY <1>1, <1>2 DEF TypeOK
  <1>5. Locks'
    BY <1>1, <1>2 DEF Locks, Ingesting
  <1>6. InHand'
    <2>1. \A q \in Reviewers : rpc'[q] = "accept" => rfound'[q] \in Versions
      BY <1>1, <1>2 DEF InHand, TypeOK
    <2>2. ASSUME NEW s \in Sessions, Ingesting(s)'
          PROVE  snapId'[s] = lastId' /\ streak' < lastId' /\ seen'[s] \in Structures
      <3>1. snapId[s] = lastId /\ streak < lastId /\ seen[s] \in Structures
        BY <1>1, <1>2, <2>2 DEF InHand, Ingesting
      <3> QED
        BY <1>2, <1>4, <3>1
    <2>3. streak' <= lastId'
      BY <1>1, <1>2, <1>4 DEF InHand
    <2> QED
      BY <1>1, <1>2, <2>1, <2>2, <2>3 DEF InHand
  <1>7. CASE status[rfound[r]] = "active" /\ Acceptable(r)
    <2>1. /\ OneActiveBaseline' /\ status' # status
          /\ status' \in [Versions -> {"absent", "active", "superseded"}]
          /\ baseline' \in [Versions -> Structures \cup {NoStructure}]
          /\ candidate' = NoStructure /\ candSnapshot' = 0 /\ candCount' = 0 /\ candEvent' = 0
      BY <1>7, Promotes
    <2>2. TypeOK'
      BY <1>1, <1>2, <1>3, <1>4, <2>1 DEF TypeOK
    <2>3. CandidateIsCurrent'
      BY <2>1 DEF CandidateIsCurrent
    <2>4. DriftIsCandidate'
      BY <1>2, <2>1 DEF DriftIsCandidate
    <2> QED
      BY <1>5, <1>6, <2>1, <2>2, <2>3, <2>4 DEF Inv
  <1>8. CASE ~(status[rfound[r]] = "active" /\ Acceptable(r))
    <2>1. UNCHANGED <<baseline, status, candidate, candSnapshot, candCount, candEvent>>
      BY <1>8 DEF EndAccept, candVars
    <2>2. UNCHANGED <<observed, streak>>
      BY <1>2, <2>1
    <2>3. TypeOK'
      BY <1>1, <1>2, <1>3, <2>1, <2>2 DEF TypeOK
    <2> QED
      BY <1>1, <1>5, <1>6, <2>1, <2>2, <2>3, TablesKept DEF Inv
  <1> QED
    BY <1>7, <1>8

\* A step that changes nothing but the latest answer to a reader.
LEMMA ReadStep ==
  ASSUME Inv, UNCHANGED <<tableVars, lastId, triggered, sourceLock, sessionVars, reviewVars,
                          historyVars, faults>>
  PROVE  Inv'
  <1>1. TypeOK /\ OneActiveBaseline /\ Locks /\ InHand /\ CandidateIsCurrent /\ DriftIsCandidate
    BY DEF Inv
  <1>2. UNCHANGED <<baseline, status, candidate, candSnapshot, candCount, candEvent, events,
                    responses, triggered, observed, streak, faults, lastId, sourceLock,
                    pc, seen, found, snapId, rpc, rfound, named>>
    BY DEF tableVars, candVars, sessionVars, reviewVars, historyVars
  <1>3. TypeOK'
    BY <1>1, <1>2 DEF TypeOK
  <1>4. Locks'
    BY <1>1, <1>2 DEF Locks, Ingesting
  <1>5. InHand'
    BY <1>1, <1>2 DEF InHand, Ingesting
  <1> QED
    BY <1>1, <1>2, <1>3, <1>4, <1>5, TablesKept DEF Inv

\* Every step keeps the invariant.
LEMMA InvStep ==
  ASSUME Inv, [Next]_vars
  PROVE  Inv'
  <1>1. CASE \E known \in BOOLEAN : Read(known)
    BY <1>1, ReadStep DEF Read
  <1>2. CASE UNCHANGED vars
    BY <1>2, ReadStep DEF vars
  <1> QED
    BY <1>1, <1>2, BeginSnapshotStep, VanishedStep, FirstStep, CommitStep, EndStep,
       BeginAcceptStep, EndAcceptStep DEF Next, ChangeStep

\* The initial state satisfies the invariant.
LEMMA InvInit == Init => Inv
  <1> SUFFICES ASSUME Init PROVE Inv
    OBVIOUS
  <1>1. TypeOK
    BY DEF Init, TypeOK
  <1>2. OneActiveBaseline
    BY DEF Init, OneActiveBaseline
  <1>3. Locks /\ InHand
    BY DEF Init, Locks, InHand, Ingesting
  <1>4. CandidateIsCurrent
    BY DEF Init, CandidateIsCurrent
  <1>5. DriftIsCandidate
    BY DEF Init, DriftIsCandidate
  <1> QED
    BY <1>1, <1>2, <1>3, <1>4, <1>5 DEF Inv

-----------------------------------------------------------------------------
(* The results *)

\* The invariant behind them holds for every instance.
THEOREM Invariance == Spec => []Inv
  BY InvInit, InvStep, PTL DEF Spec

\* Types: in particular every agent run belongs to a response, and every response to
\* a drift event.
THEOREM TypeCorrect == Spec => []TypeOK
  <1>1. Inv => TypeOK
    BY DEF Inv
  <1> QED
    BY <1>1, Invariance, PTL

\* Whatever snapshots and acceptances overlap, one baseline is active, it is the
\* newest, and the older ones are kept as superseded history.
THEOREM OneBaseline == Spec => []OneActiveBaseline
  <1>1. Inv => OneActiveBaseline
    BY DEF Inv
  <1> QED
    BY <1>1, Invariance, PTL

\* No confirmed drift goes unreported.
THEOREM DriftIsReported == Spec => []NoMissedDrift
  <1>1. Inv => NoMissedDrift
    <2> SUFFICES ASSUME Inv, Found # 0, observed # NoStructure,
                        <<baseline[Found], observed>> \in Drifts,
                        streak >= CONTRACT_BASELINE_CONFIRMATION_POLLS
                 PROVE  candEvent # 0
      BY DEF NoMissedDrift
    <2>1. candidate = observed
      BY DEF Inv, DriftIsCandidate
    <2> QED
      BY <2>1 DEF Inv, CandidateIsCurrent
  <1> QED
    BY <1>1, Invariance, PTL

\* A drift event is emitted by the observation that confirms the candidate, neither
\* earlier nor a second time.
THEOREM EventsAreConfirmed == Spec => DriftIsConfirmedOnce
  <1>1. ASSUME Inv, [Next]_vars
        PROVE  [events' # events => streak' = CONTRACT_BASELINE_CONFIRMATION_POLLS]_vars
    <2>1. ASSUME NEW s \in Sessions, CommitSnapshot(s)
          PROVE  events' # events => streak' = CONTRACT_BASELINE_CONFIRMATION_POLLS
      BY <1>1, <2>1, CommitCandidate
    <2>2. CASE UNCHANGED tableVars
      BY <2>2 DEF tableVars
    <2>3. CASE UNCHANGED vars
      BY <2>3
    <2>4. ASSUME NEW s \in Sessions, FirstObservation(s)
          PROVE  events' = events
      BY <2>4 DEF FirstObservation
    <2>5. ASSUME NEW r \in Reviewers, EndAccept(r)
          PROVE  events' = events
      BY <2>5 DEF EndAccept
    <2> QED
      BY <1>1, <2>1, <2>2, <2>3, <2>4, <2>5
      DEF Next, ChangeStep, BeginSnapshot, BaselineVanished, TriggerAgentRun, Crash, BeginAccept, Read
  <1> QED
    BY <1>1, Invariance, PTL DEF Spec, DriftIsConfirmedOnce

\* An accepted baseline is what the source answered last, and the snapshot the request
\* named, whatever replaced the candidate between the review and the request.
THEOREM AcceptsReviewed == Spec => AcceptsReviewedCandidate
  <1> DEFINE A == \A r \in Reviewers :
                    rpc[r] = "accept" /\ rpc'[r] = "idle" /\ baseline' # baseline =>
                      /\ named[r] \in {0, candSnapshot}
                      /\ baseline'[Found'] = observed
  <1>1. ASSUME Inv, [Next]_vars
        PROVE  [A]_vars
    <2>1. TypeOK
      BY <1>1 DEF Inv
    <2>2. ASSUME NEW r \in Reviewers, EndAccept(r), baseline' # baseline,
                 NEW q \in Reviewers, rpc[q] = "accept", rpc'[q] = "idle"
          PROVE  named[q] \in {0, candSnapshot} /\ baseline'[Found'] = observed
      <3>1. q = r
        BY <2>1, <2>2 DEF EndAccept, TypeOK
      <3>2. status[rfound[r]] = "active" /\ Acceptable(r)
        BY <2>2 DEF EndAccept
      <3>3. named[q] \in {0, candSnapshot}
        BY <3>1, <3>2 DEF Acceptable
      <3> QED
        BY <1>1, <2>2, <3>2, <3>3, Promotes
    <2>3. CASE UNCHANGED baseline
      BY <2>3
    <2>4. CASE UNCHANGED rpc
      BY <2>4
    <2>5. CASE \E r \in Reviewers : EndAccept(r)
      BY <2>2, <2>5
    <2>6. UNCHANGED vars \/ UNCHANGED baseline \/ UNCHANGED rpc \/ \E r \in Reviewers : EndAccept(r)
      BY <1>1 DEF Next, ChangeStep, BeginSnapshot, BaselineVanished, FirstObservation,
                  CommitSnapshot, TriggerAgentRun, Crash, BeginAccept, Read, tableVars, reviewVars
    <2> QED
      BY <2>3, <2>4, <2>5, <2>6
  <1> QED
    BY <1>1, Invariance, PTL DEF Spec, AcceptsReviewedCandidate

-----------------------------------------------------------------------------
(* All parts side by side.                                                  *)

\* A step of one part is a step of each component or leaves it alone.
LEMMA StepsBeside ==
  ASSUME [MCNext]_allVars
  PROVE  /\ [Next]_vars /\ [AG!Next]_(AG!agentVars) /\ [AC!Next]_(AC!vars)
         /\ [RL!Next]_(RL!vars) /\ [SE!Next]_(SE!vars) /\ [DA!Next]_(DA!vars)
         /\ part' = part
  <1>1. [Next]_vars /\ part' = part
    BY DEF MCNext, allVars, Next
  <1>2. [AG!Next]_(AG!agentVars)
    BY DEF MCNext, allVars, agentVars, AG!agentVars
  <1>3. [AC!Next]_(AC!vars)
    BY DEF MCNext, allVars, accountVars, AC!vars, AC!secretVars, AC!Next
  <1>4. [RL!Next]_(RL!vars)
    BY DEF MCNext, allVars, limitVars, RL!vars, RL!Next
  <1>5. [SE!Next]_(SE!vars)
    BY DEF MCNext, allVars, eventVars, SE!vars, SE!Next
  <1>6. [DA!Next]_(DA!vars)
    BY DEF MCNext, allVars, dashboardVars, DA!vars
  <1> QED
    BY <1>1, <1>2, <1>3, <1>4, <1>5, <1>6

\* The invariants of all parts.
PartsInv ==
  /\ part \in Parts
  /\ Inv /\ AgentsInv /\ AccountsInv /\ LimitsInv /\ SecurityInv /\ DashboardInv

\* Every part keeps its invariant while the others take their steps.
LEMMA PartsKeepInv == MCSpec => []PartsInv
  <1>1. MCInit => PartsInv
    BY InvInit, AgentsInit, AccountsInit, LimitsInit, SecurityInit, DashboardInit
    DEF MCInit, PartsInv
  <1>2. PartsInv /\ [MCNext]_allVars => PartsInv'
    BY StepsBeside, InvStep, AgentsNext, AccountsNext, LimitsNext, SecurityNext, DashboardNext
    DEF PartsInv
  <1> QED
    BY <1>1, <1>2, PTL DEF MCSpec

\* The part that is followed is well formed, and a source has one active baseline.
THEOREM PartsAreWellFormed == MCSpec => []WellFormed
  <1>1. PartsInv => WellFormed
    <2> SUFFICES ASSUME PartsInv PROVE WellFormed
      OBVIOUS
    <2>1. /\ TypeOK /\ OneActiveBaseline /\ AG!TypeOK /\ AC!TypeOK /\ RL!TypeOK /\ SE!TypeOK
          /\ DA!TypeOK
      BY AgentsImply, AccountsImply, LimitsImply, SecurityImplies, DashboardImplies
      DEF PartsInv, Inv
    <2> QED
      BY <2>1 DEF WellFormed
  <1> QED
    BY <1>1, PartsKeepInv, PTL

\* The verdict on an agent run is what was done about it (VerdictsHold).
THEOREM VerdictsHoldBeside == MCSpec => []RunsAreAccountedFor
  <1>1. PartsInv => RunsAreAccountedFor
    BY AgentsImply DEF PartsInv, RunsAreAccountedFor
  <1> QED
    BY <1>1, PartsKeepInv, PTL

\* An active administrator remains (AdminsRemain, delete_user_route).
THEOREM AdminsRemainBeside == MCSpec => []AdminRemains
  <1>1. PartsInv => AdminRemains
    BY AccountsImply DEF PartsInv, AdminRemains
  <1> QED
    BY <1>1, PartsKeepInv, PTL

\* The limits of callers hold (LimitsAreKept, rate_limiting_token_bucket.py).
THEOREM LimitsAreKeptBeside == MCSpec => []LimitsHold
  <1>1. PartsInv => LimitsHold
    BY LimitsImply DEF PartsInv, LimitsHold
  <1> QED
    BY <1>1, PartsKeepInv, PTL

\* Sessions of the dashboard show their own streams (StreamsAreShown).
THEOREM StreamsAreShownBeside == MCSpec => []ShowsOwnStream
  <1>1. PartsInv => ShowsOwnStream
    BY DashboardImplies DEF PartsInv, ShowsOwnStream
  <1> QED
    BY <1>1, PartsKeepInv, PTL

\* The audit trail, the severities and the resolutions (RecordsHold, ResolvedByOne).
THEOREM RecordsHoldBeside == MCSpec => SecurityRecordsHold
  <1>1. PartsInv => (part = "audit" => SE!TrailIsChain) /\ (part = "signal" => SE!SeverityIsWorst)
    BY SecurityImplies DEF PartsInv
  <1>2. PartsInv /\ [MCNext]_allVars =>
          [\A i \in DOMAIN seSignals : seSignals[i].by # SE!None /\ seSignals'[i].by # seSignals[i].by
              => i \in seRaced]_(SE!vars)
    BY StepsBeside, ReplacesRaced DEF PartsInv
  <1>3. MCSpec => SE!ResolvedOnce
    BY <1>2, PartsKeepInv, PTL DEF MCSpec, SE!ResolvedOnce
  <1> QED
    BY <1>1, <1>3, PartsKeepInv, PTL DEF SecurityRecordsHold
=============================================================================
