----------------------------- MODULE Directory ------------------------------
(***************************************************************************)
(* The rows of the Local IAM catalog that decide who may log in: tenants,  *)
(* users, memberships with their `disabled' columns, and password          *)
(* credentials.  Every operation is one SQLite transaction on a connection *)
(* of its own and therefore one action; the admin pages, the /v1/iam API   *)
(* and the command line call the same operations, the latter from another  *)
(* process, so they need no running server.                                *)
(*                                                                         *)
(* No operation deletes a row.  An operation whose statement violates a    *)
(* foreign key, or whose password is too short, is rolled back: here it is *)
(* simply not enabled.                                                     *)
(***************************************************************************)
EXTENDS Naturals, FiniteSets

CONSTANTS
  User,          \* user ids
  Tenant,        \* tenant ids
  Password,      \* passwords, short ones included
  ShortPassword, \* those below password_policy.min_length
  NoPassword,
  SeedTenants,   \* the tenants of the configuration file
  SeedMembers,   \* its users, each with the tenant the entry names
  SeedPassword   \* their passwords; NoPassword: none, and no dev password

ASSUME SeedAssumption ==
  /\ ShortPassword \subseteq Password
  /\ NoPassword \notin Password
  /\ SeedTenants \subseteq Tenant /\ IsFiniteSet(SeedTenants)
  /\ SeedMembers \subseteq User \X Tenant /\ IsFiniteSet(SeedMembers)
  /\ SeedPassword \in [User -> Password \cup {NoPassword}]

VARIABLES
  tenants,     \* status of each tenant's row
  users,       \* status of each user's row
  members,     \* status of each (user, tenant) membership row
  credentials  \* the password behind each user's hash

directoryVars == <<tenants, users, members, credentials>>

Status == {"absent", "active", "disabled"}

Identity == User \X Tenant

\* A session or a login sees an identity only when all three rows are there
\* and none of them is disabled.
Active(id) ==
  /\ users[id[1]] = "active"
  /\ tenants[id[2]] = "active"
  /\ members[id] = "active"

DirectoryInit ==
  /\ tenants = [t \in Tenant |-> "absent"]
  /\ users = [u \in User |-> "absent"]
  /\ members = [id \in Identity |-> "absent"]
  /\ credentials = [u \in User |-> NoPassword]

-----------------------------------------------------------------------------
(* Upserts insert an active row and leave the disabled flag of a row that  *)
(* is already there.                                                       *)

UpsertActivates(status) == "active"

Upsert(status) == IF status = "absent" THEN "active" ELSE status

\* UPDATE ... WHERE: a row that is not there is not changed.
SetFlag(status, flag) == IF status = "absent" THEN "absent" ELSE flag

CreateTenant(t) ==
  /\ tenants' = [tenants EXCEPT ![t] = Upsert(@)]
  /\ UNCHANGED <<users, members, credentials>>

DisableTenant(t) ==
  /\ tenants' = [tenants EXCEPT ![t] = SetFlag(@, "disabled")]
  /\ UNCHANGED <<users, members, credentials>>

EnableTenant(t) ==
  /\ tenants' = [tenants EXCEPT ![t] = SetFlag(@, "active")]
  /\ UNCHANGED <<users, members, credentials>>

\* The password is optional; one that is given is set in the same transaction.
CreateUser(u, p) ==
  /\ p \notin ShortPassword
  /\ users' = [users EXCEPT ![u] = Upsert(@)]
  /\ credentials' = [credentials EXCEPT ![u] = IF p = NoPassword THEN @ ELSE p]
  /\ UNCHANGED <<tenants, members>>

DisableUser(u) ==
  /\ users' = [users EXCEPT ![u] = SetFlag(@, "disabled")]
  /\ UNCHANGED <<tenants, members, credentials>>

EnableUser(u) ==
  /\ users' = [users EXCEPT ![u] = SetFlag(@, "active")]
  /\ UNCHANGED <<tenants, members, credentials>>

\* user_credentials.user_id REFERENCES users.
SetPassword(u, p) ==
  /\ p \notin ShortPassword
  /\ users[u] # "absent"
  /\ credentials' = [credentials EXCEPT ![u] = p]
  /\ UNCHANGED <<tenants, users, members>>

\* memberships REFERENCES users and tenants; unlike the other upserts this one
\* clears the disabled flag.
AddMembership(u, t) ==
  /\ users[u] # "absent"
  /\ tenants[t] # "absent"
  /\ members' = [members EXCEPT ![<<u, t>>] = "active"]
  /\ UNCHANGED <<tenants, users, credentials>>

RemoveMembership(u, t) ==
  /\ members' = [members EXCEPT ![<<u, t>>] = SetFlag(@, "disabled")]
  /\ UNCHANGED <<tenants, users, credentials>>

\* seed_from_config: all of the configuration's tenants and users in one
\* transaction.  It raises, and nothing is written, when a password of the
\* file is too short or a user's tenant is unknown.  (Also when a tenant key is
\* taken, which depends on the keys: SeedCatalog of Catalog.)
SeedUsers == {id[1] : id \in SeedMembers}

SeedAccepted ==
  /\ \A u \in SeedUsers : SeedPassword[u] \notin ShortPassword
  /\ \A id \in SeedMembers : id[2] \in SeedTenants \/ tenants[id[2]] # "absent"

Seed ==
  /\ SeedAccepted
  /\ tenants' = [t \in Tenant |-> IF t \in SeedTenants THEN Upsert(tenants[t]) ELSE tenants[t]]
  /\ users' = [u \in User |-> IF u \in SeedUsers THEN Upsert(users[u]) ELSE users[u]]
  /\ credentials' = [u \in User |->
       IF u \in SeedUsers /\ SeedPassword[u] # NoPassword
         THEN SeedPassword[u] ELSE credentials[u]]
  /\ members' = [id \in Identity |-> IF id \in SeedMembers THEN "active" ELSE members[id]]

DirectoryNext ==
  \/ \E t \in Tenant : CreateTenant(t) \/ DisableTenant(t) \/ EnableTenant(t)
  \/ \E u \in User :
       \/ \E p \in Password \cup {NoPassword} : CreateUser(u, p)
       \/ DisableUser(u)
       \/ EnableUser(u)
       \/ \E p \in Password : SetPassword(u, p)
       \/ \E t \in Tenant : AddMembership(u, t) \/ RemoveMembership(u, t)
  \/ Seed

DirectorySpec == DirectoryInit /\ [][DirectoryNext]_directoryVars

-----------------------------------------------------------------------------

DirectoryTypeOK ==
  /\ tenants \in [Tenant -> Status]
  /\ users \in [User -> Status]
  /\ members \in [Identity -> Status]
  /\ credentials \in [User -> Password \cup {NoPassword}]

=============================================================================
