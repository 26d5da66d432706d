------------------------------- MODULE Accounts -------------------------------
(***************************************************************************)
(* Users, their invitations and their memberships: AuthService (register,  *)
(* login, acceptInvite), UsersService and TenantsService, with the guards  *)
(* on the routes.  A user row is read first and written by id later.       *)
(***************************************************************************)
EXTENDS Naturals, Requests

CONSTANTS
  AccountCalls,
  Users,         \* e-mail addresses
  Tenants,
  NoUser,
  NoInvitation,
  MaxAttempts    \* PASSWORD_MAX_FAILED_ATTEMPTS

ASSUME AccountAssumption ==
  /\ AccountCalls \subseteq Calls
  /\ NoUser \notin Users
  /\ NoInvitation \notin AccountCalls \cup Users
  /\ MaxAttempts \in Nat \ {0}

UserStatuses == {"None", "Active", "Invited", "Disabled"}
TenantUserStatuses == {"None", "Active", "Invited"}

\* One permission for each way in which the four templates differ.
Permissions == {"auth.users.manage", "accounting.journal.reverse",
                "accounting.journal.post", "accounting.journal.read",
                "admin.tenant.manage"}
DefaultRoles ==
  [Owner |-> Permissions,
   Admin |-> Permissions \ {"accounting.journal.reverse", "admin.tenant.manage"},
   Accountant |-> {p \in Permissions : p \notin {"auth.users.manage",
                                                 "admin.tenant.manage"}},
   Viewer |-> {"accounting.journal.read"}]
RoleNames == DOMAIN DefaultRoles

VARIABLES
  status,      \* of each user
  attempts,    \* failedLoginAttempts
  lock,        \* lockedUntil: none, in the future, in the past
  invitation,  \* whose hash the user has: named after the call that sent it, or
               \* after the user if it was sent before the calls of the instance
  expired,     \* invitations that are more than seven days old
  member,      \* TenantUser rows
  roles,       \* of each tenant: its roles with their permissions
  about,       \* the user a call is about
  at,          \* the tenant a call is about
  seen,        \* failedLoginAttempts as a login read it
  streak,      \* history: wrong passwords since the last right one
  miscounted,  \* history: users with a failure counted from a stale read
  newest,      \* history: the invitation that a user was sent last
  accepted     \* history: acceptances by calls that were not stale

accountTables == <<status, attempts, lock, invitation, expired, member, roles>>
accountCalls == <<about, at, seen>>
accountHistory == <<streak, miscounted, newest, accepted>>
accountVars == <<accountTables, accountCalls, accountHistory>>

NoMember == [status |-> "None", role |-> "Viewer"]
NoRoles == [r \in RoleNames |-> {}]

\* What a tenant has after its transaction: the default roles and an owner.
Founded(t, u) ==
  /\ roles' = [roles EXCEPT ![t] = DefaultRoles]
  /\ member' = [member EXCEPT ![t][u] = [status |-> "Active", role |-> "Owner"]]

\* Nobody is known, or one user has founded the tenants and invited the others.
Unknown ==
  /\ status = [u \in Users |-> "None"]
  /\ invitation = [u \in Users |-> NoInvitation]
  /\ member = [t \in Tenants |-> [u \in Users |-> NoMember]]
  /\ roles = [t \in Tenants |-> NoRoles]
InvitedBy(v) ==
  /\ status = [u \in Users |-> IF u = v THEN "Active" ELSE "Invited"]
  /\ invitation = [u \in Users |-> IF u = v THEN NoInvitation ELSE u]
  /\ member = [t \in Tenants |-> [u \in Users |->
       IF u = v THEN [status |-> "Active", role |-> "Owner"]
                ELSE [status |-> "Invited", role |-> "Viewer"]]]
  /\ roles = [t \in Tenants |-> DefaultRoles]

AccountInit ==
  /\ RequestsInit
  /\ Unknown \/ InvitedBy(CHOOSE u \in Users : TRUE)
  /\ attempts = [u \in Users |-> 0]
  /\ lock = [u \in Users |-> "none"]
  /\ expired = {}
  /\ about = [c \in AccountCalls |-> NoUser]
  /\ at = [c \in AccountCalls |-> CHOOSE t \in Tenants : TRUE]
  /\ seen = [c \in AccountCalls |-> 0]
  /\ streak = [u \in Users |-> 0]
  /\ miscounted = {}
  /\ newest = invitation
  /\ accepted = [u \in Users |-> 0]

\* A call has read the row of u, and goes on at l.
Read(c, u, l) ==
  /\ pc[c] = "idle"
  /\ about' = [about EXCEPT ![c] = u]
  /\ Goto(c, l)
  /\ UNCHANGED stale

\* c writes the row of u.
Writes(c, u) == Outdate(c, {d \in AccountCalls : about[d] = u})

Refuse(c) ==
  /\ pc[c] = "idle"
  /\ Goto(c, "failed")
  /\ UNCHANGED <<accountVars, stale>>

LockedOut(u) == status[u] = "Disabled" \/ lock[u] = "future"

\* TenantGuard: an active member of the tenant that the request names.
IsMember(u, t) == member[t][u].status = "Active"

\* JwtStrategy, TenantGuard and PermissionsGuard, in front of a handler.
Allowed(u, t, p) ==
  /\ status[u] = "Active" /\ ~LockedOut(u)
  /\ IsMember(u, t)
  /\ p \in roles[t][member[t][u].role]

\* register and acceptInvite: a password that the policy does not accept.
RefusePassword(c) == Refuse(c)

Register(c, u) ==
  IF status[u] # "None" THEN Refuse(c)
  ELSE Read(c, u, "create") /\ UNCHANGED <<accountTables, at, seen, accountHistory>>

\* The e-mail address is unique.
CreateUser(c) ==
  LET u == about[c] IN
  /\ pc[c] = "create"
  /\ IF status[u] # "None"
     THEN Goto(c, "failed") /\ UNCHANGED <<status, stale>>
     ELSE /\ status' = [status EXCEPT ![u] = "Active"]
          /\ Goto(c, "done") /\ Writes(c, u)
  /\ UNCHANGED <<attempts, lock, invitation, expired, member, roles, accountCalls,
                 accountHistory>>

\* A likely mistake: a lock that has run out starts the count anew.
ForgetLock(c, u) ==
  IF status[u] \in {"None", "Invited"} \/ LockedOut(u) THEN Refuse(c)
  ELSE /\ \E l \in {"reset", "fail"} : Read(c, u, l)
       /\ seen' = [seen EXCEPT ![c] = IF lock[u] = "past" THEN 0 ELSE attempts[u]]
       /\ UNCHANGED <<accountTables, at, accountHistory>>

\* login up to the password: right or wrong.
ReadLogin(c, u) ==
  IF status[u] \in {"None", "Invited"} \/ LockedOut(u) THEN Refuse(c)
  ELSE /\ \E l \in {"reset", "fail"} : Read(c, u, l)
       /\ seen' = [seen EXCEPT ![c] = attempts[u]]
       /\ UNCHANGED <<accountTables, at, accountHistory>>

ResetAttempts(c) ==
  LET u == about[c] IN
  /\ pc[c] = "reset"
  /\ attempts' = [attempts EXCEPT ![u] = 0]
  /\ lock' = [lock EXCEPT ![u] = "none"]
  /\ streak' = [streak EXCEPT ![u] = 0]
  /\ miscounted' = miscounted \ {u}
  /\ Goto(c, "done") /\ Writes(c, u)
  /\ UNCHANGED <<status, invitation, expired, member, roles, accountCalls, newest,
                 accepted>>

\* handleFailedLogin: one more than the count read at the start of the login.
\* A count that is too low takes a lock away.
CountFailure(c) ==
  LET u == about[c]
      n == seen[c] + 1
  IN /\ pc[c] = "fail"
     /\ attempts' = [attempts EXCEPT ![u] = n]
     /\ lock' = [lock EXCEPT ![u] = IF n >= MaxAttempts THEN "future" ELSE "none"]
     /\ streak' = [streak EXCEPT ![u] = @ + 1]
     /\ miscounted' = IF c \in stale THEN miscounted \cup {u} ELSE miscounted
     /\ Goto(c, "failed") /\ Writes(c, u)
     /\ UNCHANGED <<status, invitation, expired, member, roles, accountCalls, newest,
                 accepted>>

LockRunsOut(u) ==
  /\ lock[u] = "future"
  /\ lock' = [lock EXCEPT ![u] = "past"]
  /\ UNCHANGED <<status, attempts, invitation, expired, member, roles, accountCalls,
                 accountHistory, pc, stale>>

\* inviteUser, by a member v of the tenant t.
ReadInvited(c, v, u, t) ==
  /\ Allowed(v, t, "auth.users.manage")
  /\ Read(c, u, IF status[u] = "None" THEN "create invited" ELSE "invite")
  /\ at' = [at EXCEPT ![c] = t]
  /\ UNCHANGED <<accountTables, seen, accountHistory>>

\* The hash of a new invitation takes the place of the one before.
Invites(c, u) ==
  /\ invitation' = [invitation EXCEPT ![u] = c]
  /\ newest' = [newest EXCEPT ![u] = c]

CreateInvited(c) ==
  LET u == about[c] IN
  /\ pc[c] = "create invited"
  /\ IF status[u] # "None"
     THEN Goto(c, "failed") /\ UNCHANGED <<status, invitation, newest, stale>>
     ELSE /\ status' = [status EXCEPT ![u] = "Invited"]
          /\ Invites(c, u)
          /\ Goto(c, "enrol") /\ Writes(c, u)
  /\ UNCHANGED <<attempts, lock, expired, member, roles, accountCalls, streak,
                 miscounted, accepted>>

\* A likely mistake: an invitation makes the user one that is invited.
InviteAnew(c) ==
  LET u == about[c] IN
  /\ pc[c] = "invite"
  /\ Invites(c, u)
  /\ status' = [status EXCEPT ![u] = "Invited"]
  /\ Goto(c, "enrol") /\ Writes(c, u)
  /\ UNCHANGED <<attempts, lock, expired, member, roles, accountCalls, streak,
                 miscounted, accepted>>

\* An existing user gets the hash too, whatever the status.
InviteAgain(c) ==
  LET u == about[c] IN
  /\ pc[c] = "invite"
  /\ Invites(c, u)
  /\ Goto(c, "enrol") /\ Writes(c, u)
  /\ UNCHANGED <<status, attempts, lock, expired, member, roles, accountCalls, streak,
                 miscounted, accepted>>

\* Upsert of the membership: an Active member becomes an Invited one.
Enrol(c) ==
  /\ pc[c] = "enrol"
  /\ \E r \in RoleNames :
       member' = [member EXCEPT ![at[c]][about[c]] = [status |-> "Invited", role |-> r]]
  /\ Goto(c, "done")
  /\ UNCHANGED <<status, attempts, lock, invitation, expired, roles, accountCalls,
                 accountHistory, stale>>

\* acceptInvite: only for a user that is Invited, and before the end of the week.
ReadInvitation(c, u) ==
  IF status[u] # "Invited" \/ invitation[u] \in expired THEN Refuse(c)
  ELSE Read(c, u, "accept") /\ UNCHANGED <<accountTables, at, seen, accountHistory>>

AcceptInvite(c) ==
  LET u == about[c] IN
  /\ pc[c] = "accept"
  /\ status' = [status EXCEPT ![u] = "Active"]
  /\ invitation' = [invitation EXCEPT ![u] = NoInvitation]
  /\ accepted' = IF c \in stale THEN accepted ELSE [accepted EXCEPT ![u] = @ + 1]
  /\ Goto(c, "done") /\ Writes(c, u)
  /\ UNCHANGED <<attempts, lock, expired, member, roles, accountCalls, streak,
                 miscounted, newest>>

InvitationExpires(u) ==
  /\ invitation[u] # NoInvitation
  /\ expired' = expired \cup {invitation[u]}
  /\ UNCHANGED <<status, attempts, lock, invitation, member, roles, accountCalls,
                 accountHistory, pc, stale>>

\* createTenant: all of it in one transaction, or nothing.
CreateTenant(c, u, t) ==
  /\ pc[c] = "idle" /\ status[u] = "Active" /\ ~LockedOut(u)
  /\ roles[t] = NoRoles
  /\ Founded(t, u)
  /\ Goto(c, "done")
  /\ UNCHANGED <<status, attempts, lock, invitation, expired, accountCalls,
                 accountHistory, stale>>

\* No code disables an account; whoever does it writes to the database.
DisableUser(u) ==
  /\ status[u] = "Active"
  /\ status' = [status EXCEPT ![u] = "Disabled"]
  /\ UNCHANGED <<attempts, lock, invitation, expired, member, roles, accountCalls,
                 accountHistory, pc, stale>>

AbortAccount(c) ==
  /\ InFlight(c)
  /\ Goto(c, "failed")
  /\ UNCHANGED <<accountVars, stale>>

AccountStep(c) ==
  \/ CreateUser(c) \/ ResetAttempts(c) \/ CountFailure(c)
  \/ CreateInvited(c) \/ InviteAgain(c) \/ Enrol(c) \/ AcceptInvite(c)

AccountNext ==
  \/ \E c \in AccountCalls :
       \/ \E u \in Users :
            \/ Register(c, u) \/ ReadLogin(c, u) \/ ReadInvitation(c, u)
            \/ \E t \in Tenants : CreateTenant(c, u, t)
            \/ \E v \in Users, t \in Tenants : ReadInvited(c, v, u, t)
       \/ RefusePassword(c) \/ AccountStep(c) \/ AbortAccount(c)
  \/ \E u \in Users : LockRunsOut(u) \/ InvitationExpires(u) \/ DisableUser(u)

AccountSpec == AccountInit /\ [][AccountNext]_<<accountVars, pc, stale>>

AccountTypeOK ==
  /\ status \in [Users -> UserStatuses]
  /\ attempts \in [Users -> Nat]
  /\ lock \in [Users -> {"none", "future", "past"}]
  /\ invitation \in [Users -> AccountCalls \cup Users \cup {NoInvitation}]
  /\ expired \subseteq AccountCalls \cup Users
  /\ member \in [Tenants -> [Users -> [status : TenantUserStatuses, role : RoleNames]]]
  /\ about \in [AccountCalls -> Users \cup {NoUser}]
  /\ accepted \in [Users -> Nat]

\* The count of a user is the number of wrong passwords in a row and the lock
\* follows the count, unless one of the logins counted from a row that another
\* call had written since.
LockoutCounts ==
  \A u \in Users \ miscounted :
    /\ attempts[u] = streak[u]
    /\ attempts[u] >= MaxAttempts <=> lock[u] # "none"

\* Whatever invitations a user was sent and in whatever order they are opened:
\* the user sets a first password once, unless two acceptances overlap, and
\* until then acceptInvite knows the invitation that was sent last.  It accepts
\* that one for a week; after it the user has to be invited again.
InvitationAcceptedOnce ==
  \A u \in Users :
    /\ accepted[u] <= 1
    /\ status[u] = "Invited" =>
         invitation[u] = newest[u] /\ newest[u] # NoInvitation
=============================================================================
