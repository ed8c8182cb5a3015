# A TLA+ model of AuthNode

AuthNode is a small identity broker: it logs a person in (against its own
SQLite catalog, against Keycloak, or against a JSON file), hands the browser a
short-lived login code, exchanges the code for a JWT, and lets downstream
services (PSKA, FastReAct) trust the result. It runs one thread per HTTP
request (`ThreadingHTTPServer`), opens a SQLite connection per catalog call,
and keeps codes, OIDC states, admin sessions and the OIDC cache in the memory
of the process. What can go wrong is therefore mostly *between* the calls of a
handler, and that is what most of these modules are about; the others are about
the many ways in which the names in a request and in a configuration file can
coincide.

## 1. The parts of the system

| part | source | state | operations | what makes it correct |
| --- | --- | --- | --- | --- |
| rate limit of logins | `catalog.py:284-312, 407-420` | `login.failure` rows of `audit_events` | count, then verify, then write a row | failures per window are bounded; a lockout ends |
| catalog: who may log in | `catalog.py:80-242, 461-483` | tenants, users, memberships, credentials | upsert, disable, enable, set password, add and remove membership, seed | what was disabled stays disabled |
| catalog: administration | `catalog.py:57-446, 519-536, 566-661` | the above, tenant keys, roles, groups, provider links, audit trail | the same, role and group grants, provider links | rows refer to rows that exist; the trail explains the rows |
| browser login, `local_iam` | `server.py:58-91, 380-418, 490-655`, `catalog.py:284-405` | sessions (database), login codes (memory) | `POST /login`, `GET /login`, `/v1/auth/exchange`, `/logout` | credentials only after a login; a code serves once; logout is final |
| browser login, Keycloak | `server.py:119-154, 380-407, 558-601`, `oidc.py` | OIDC states (memory), JWKS and discovery cache | `GET /login`, `/oidc/callback` | who is logged in is who signed in for that state; a state serves once |
| browser login, `local` | `server.py:419-489, 529-556` | login codes (memory) | `POST /login`, `/v1/auth/exchange` | the token is about the user whose password was compared |
| admin pages | `server.py:93-117, 249-351` | admin sessions (memory) | login, logout, actions | actions only in a session whose login is recorded; sessions end |
| admin API, command line | `server.py:690-843`, `cli.py:185-292` | none of its own | call the catalog; the command line from another process | as the catalog |
| identity resolution, claims, headers | `config.py`, `identity.py`, `server.py:353-378, 657-688, 903-910` | none | `tenant_for`, `user_for`, `claims_for_user`, `trusted_headers_for_user` | tenant and user agree; strict mode refuses unknown ones; a disabled identity is refused |
| proxy | `server.py:845-900, 1126-1138` | none | forward with identity headers | headers of the caller never pass for identity |
| JWT | `jwt.py`, `identity.py:14-50` | none | claims, decode | counts for the services it was asked for, and for as long |
| contract checker | `contract.py` | none | compares claims and headers, calls services | |
| launcher | `start.sh` | PID file, configuration file | start, stop, status | the PID file leads to the server; the secrets stay |
| HTML | `server.py` | none | | |

How they interact. A handler thread calls the catalog, whose every call is a
transaction of its own, and locks one of three dictionaries for single
operations. Administrators (pages, API, command line) change catalog rows at
any moment, also while no server runs. A starting server seeds the catalog
from the configuration file before it serves. Sessions and audit rows survive
a restart; codes, OIDC states, admin sessions and the JWKS cache do not. The
endpoints that are given a name instead of a login (`/v1/token`, `/v1/headers`,
the proxy) ask the catalog first and the file after it. The launcher writes the
configuration file that servers and the command line read.

What is hard. The rate limit is check-then-act with a slow Argon2
verification in between. `authenticate` reads its facts in three snapshots.
A login is three commits (success row, session, code) and the answer. Codes
and states are popped under a lock and judged after it. The OIDC callback waits
for Keycloak for up to 15 seconds with its state already gone. The JWKS cache
is refreshed by every thread without a lock. Re-seeding at every start meets
rows that administrators have changed since. An admin session is in its
dictionary before its login is recorded. A `local` login is looked up twice, by
different values. Scripts of the launcher take no lock. `PROJECT.json` lists
these hazards line by line with the properties that watch them.

## 2. The modules

    Directory ------+---> LoginFlow ---> LoginWitness -----> LoginFlowProofs
                    |        refines OneTimeTicket, SessionLease, LoginLimiter
                    +---> Catalog ---------------------+---> DirectoryProofs
                    +---> IdentityGateway -------------+
    ConfigIdentity -+--------^
                    +---> LocalLogin ----------------------> LocalLoginProofs
    OneTimeTicket, LoginLimiter ---------------------------> LoginPromisesProofs
    AdminSessions (refines SessionLease) ------------------> AdminSessionsProofs
    OidcLogin (refines OneTimeTicket) ---------------------> OidcLoginProofs
    Launcher ------> LauncherAlone ------------------------> LauncherProofs
    IdentityToken -----------------------------------------> IdentityTokenProofs
    MC<module>       the instances TLC checks

### What stores promise

**OneTimeTicket** is the abstract specification that login codes and OIDC states
implement: issued once for a subject, answered at most once with that subject
before the lifetime ends, never after it was given up. Nothing in it knows of
threads, locks or dictionaries.

**SessionLease** is the one that login sessions and admin sessions implement:
opened once, by the request that creates it; taken up only while it is open and
in time; not prolonged by use; and once closed, by logout, expiry or a crash,
taken up by nobody. Requests that took it up before may finish.

**LoginLimiter** is `is_rate_limited` and what `authenticate` does around it,
alone. `Submit` is the arrival of a request, `Refuse` and `Pass` are the two
outcomes of the count (289, 290), `Fail` commits the `login.failure` row and
`Succeed` does not, `Abort` ends requests on an unexpected error or a dying
process. The rows are not kept one by one: an attempt has at most one row, and
the variable `age` holds how old it is. A row past the window is never counted
again (`created_at >= ?`), so its attempt identity is free for another request;
this makes the state finite with no bound on the number of attempts over time.
The limit counts the pair *as typed*: `alice` and `pska:alice` are different
keys that name one identity, which `LoginFlow` models with `IdentityOf`. It is
a component of its own and the abstract view of the login at once.

### Logins

**Directory** holds the rows that decide who may log in. A row is `absent`,
`active` or `disabled`; `Active` is the join of `_identity_row`. Upserts keep
the disabled flag of an existing row, `AddMembership` clears it, nothing is
deleted. `Seed` is `seed_from_config` as the one transaction it is.

**LoginFlow** composes Directory with the request threads of the `local_iam`
login. Each read, transaction or locked section is an action:

| action | code |
| --- | --- |
| `SubmitLogin` | `POST /login` up to the call of `authenticate` |
| `RefuseLimited`, `PassLimit` | `is_rate_limited`, on its own connection |
| `LookupIdentity`, `ReadCredential` | the two SELECTs, two snapshots |
| `RecordFailure`, `RecordSuccess` | password comparison and the commit of the audit row |
| `CreateSession` | `create_session` |
| `IssueCode` | `issue_auth_code` and the redirect with the cookie |
| `ContinueSession` | `GET /login` with a cookie: `session_for_token` |
| `PopCode` | the locked `pop` of `consume_auth_code` |
| `GrantToken`, `RejectCode` | expiry and target checks after the lock, and the answer |
| `Logout` | `revoke_session` |
| `Abort`, `Crash`, `Start` | an error in a handler; the process ends; it starts and seeds |
| `Administer` | any catalog operation, from anywhere |
| `Tick` | time passes for failure rows, sessions and codes |

Expiry times are kept as the ticks left until them. A thread's local variables
are the record `local[r]`: what it has read and will act on later.

**LoginWitness** adds the history variable `seen` to LoginFlow: which facts
have been true at some moment since a request arrived.

**OidcLogin** is the Keycloak login: states, callbacks and the JWKS cache as
threads of steps, with Keycloak as an external party that lets people sign in,
exchanges a grant once for a token signed with its current key, and rotates and
withdraws keys. The nonce and the PKCE verifier live and die with their state,
so the state stands for them. That Keycloak refuses a grant whose verifier does
not match is deliberately not assumed: the nonce check of AuthNode has to
suffice. `FetchKeys` and `StoreKeys` are two actions because other threads
store between the answer of Keycloak and the assignment to `cache.jwks`.

### Administration

**AdminSessions** is the dictionary `admin_sessions` and the handlers around it.

| action | code |
| --- | --- |
| `IssueSession` | the locked store of `issue_admin_session` |
| `RecordLogin`, `SendCookie` | the `admin.login` row; the redirect with the cookie |
| `Admit`, `DropExpired` | `admin_session_valid`, locked: the session is good; it is over |
| `Act` | the catalog operation and the answer |
| `Revoke`, `RecordLogout` | the locked removal; the `admin.logout` row and the redirect |
| `Abort`, `Crash`, `Start`, `Tick` | a row that cannot be written; the process ends and starts; time |

**Catalog** is what an administrator does then: Directory's rows, and with
each operation the tenant key, labels (roles and groups, kept by the same
functions), provider links and audit rows of its transaction. An operation whose
first statement fails does nothing. Three can fail after they have written
something: a user with a short password (`RefuseUser`), a role for a membership
that is not there (`RefuseLabel`), a seed (`RefuseSeed`); `Closed` says what the
connection leaves of such writes when it is closed without a commit: nothing.
The audit rows of a seed are kept
by kind, and those of a kind in some order: the file has the rows of one user
together, but no property compares the rows of two of them.

### Identities named in a request

**ConfigIdentity** is the configuration file as pure operators: `Load` (tenants
and users with what an entry leaves out filled in), `TenantFor` and `UserFor`
(`tenant_for`, `user_for`), `Claims`, `HeadersFor`, and `ContractPasses`, the
offline part of `check_contract`. An identity's profile (name, e-mail, roles,
groups) is the place of its entry in the file. `Consistent` says what a file
has to be like for its identities to be told apart, and `KeysApart` what its keys
have to be like; section 3 says why.

**LocalLogin** is the login against that file. `Login` and `RefuseLogin` are
`POST /login`; `Exchange` looks user and tenant up again, by what the code says.
Its initial states are all files of the instance.

**IdentityGateway** is `/v1/token`, `/v1/headers` and the proxy with `local_iam`,
over Directory *and* the file. `StartServer` seeds the catalog before any request
is served, `StopServer` ends the process, at any moment; the catalog outlives it
and administrators change it on the command line meanwhile. `Begin` is a request's arrival, `Resolve`,
`PassBy` and `Refuse` the lookup in the catalog (only when user and tenant are
both named), `RefuseUnknown`, `Answer` and `Forward` what is made of it, with
the file where the catalog was not asked and for the headers of `service_token`
mode. `Administer` is any catalog operation in between; `actives` remembers who
was active during the request. Header fields are kept by family and spelling.
The keys of tenants (`TenantKey`) are constants here, apart from all ids, though
an upsert may change a key and even make it another tenant's id
(`catalog.py:90-93`); what a lookup finds then is the question of Catalog's
`LookupUnambiguous`.

**IdentityToken** is the claims that limit where and when a token counts, and
`decode_hs256`. Time is in parts of a second, since `iat` is rounded and the
verifier's clock is another one.

### The launcher

**Launcher** is `start.sh`, command by command: making the configuration file and
its secrets, looking the PID up and probing it, launching and recording,
signalling and waiting, with several terminals at once; and the processes it
starts, which read the file, bind the port, crash, or do not react to a signal.
The kernel gives a pid out again once its process has ended, to a server or to a
program that has nothing to do with AuthNode (`LaunchOther`). `Alive` is what
`kill` and `kill -0` find there; `Running` is `is_running` of the script, which
can only ask the same of the number it has read.
**LauncherAlone** adds the history variable `alone`: no two scripts have run at
the same time so far.

## 3. What the runs check

| run | bounds | checks |
| --- | --- | --- |
| `limiter` | 4 attempts, 2 open at once, 2 keys, limit 2, window 1 | types, `OvershootBounded`, `LockoutEnds` |
| `flow_core` | 2 requests, 1 user, tenant, session and code, 2 passwords, limit 1, window 1, sessions live 2 ticks, codes 1 | types, `Grounded`, `DisabledStays`, and the refinements `CodesAreTickets`, `SessionsAreLeases`, `LoginIsLimited` |
| `witness` | as `flow_core` | `Witnessed` |
| `flow_stale` | as `flow_core` | a divergence of section 6: a login outdated |
| `oidc` | 2 requests, 2 states, 2 accounts, 2 targets, 2 keys, states live 1 tick | types, `LoginsMatch`, `KeyFound`, and the refinement `StatesAreTickets` |
| `admin` | 3 requests, 2 sessions that live 2 ticks | types, `NoUnrecordedAdmin`, `SessionsEnd`, and the refinement `AdminSessionsAreLeases` |
| `catalog` | 1 user, 2 tenants, 1 role, 1 account, 3 tenant names, 5 audit rows | types, `Referential`, `AuditReplays`, `LabelsExplained`, `LookupUnambiguous` |
| `local` | files of at most 2 users and 2 tenants over two names; 2 tenants, one with a key of its own | `SubjectKept`, `StrictIsClosed`, `IdentityKept`, `TenantIsTheEntrys`, `OneIdentityForBoth` |
| `token` | 3 audiences, 4 lifetimes, clocks up to 7 seconds apart, in half seconds | `AudienceSeparated`, `FreshIsAccepted`, `DiesOnTime` |
| `gateway` | 1 user, 2 tenants, 3 targets, every header field | `FailClosed`, `SameInEveryMode`, `CallerStripped` |
| `gateway_unnamed` | as `gateway` | a divergence of section 6: names left out |
| `launcher` | 2 terminals, one only for `--daemon`, 2 processes at once, 2 generated secrets | types, `DaemonFound`, `StopStops`, `SecretAgreement`, `ComesBack` |

- `OvershootBounded`: the limit can be exceeded, because requests count before
  others have written their rows; but failures of a window plus the attempts
  past the check stay below `MaxAttempts + Concurrency`. Four attempts are one
  more than can fail in a window of this instance, so the bound is reached.
- `LockoutEnds` (liveness): a refused attempt writes `login.rate_limited`, which
  is not counted, so a user who never stops trying gets in again.
- `Grounded`: sessions, codes and tokens exist only for identities with a
  recorded successful login, across crashes and partial failures.
- `DisabledStays`: only an enable brings back a disabled row; a removed
  membership also returns with a re-seed when the file lists it, and the
  property says exactly that.
- `Witnessed`: `authenticate` reads its facts at three moments while they
  change. Each fact was true at some moment while the request was open. They
  need not have been true together, and the property does not claim it.
- `CodesAreTickets`, `StatesAreTickets`, `SessionsAreLeases`,
  `AdminSessionsAreLeases`, `LoginIsLimited` are refinements: the abstract
  specification is checked as a property under the mapping at the end of the
  module. For sessions it says that a logout or an expiry is final, that a
  restart with its re-seed does not bring a session back, and that neither use
  nor a restart prolongs one.
- `LoginsMatch`: a browser may bring any state with any authorization code, in
  any order, twice, or after a restart; whoever is logged in through a state
  signed in for that state's authorization request, and at most one login comes
  of it.
- `KeyFound`: a login fails for want of a signing key only if Keycloak has
  withdrawn that key, however threads overwrite each other's JWKS.
- `NoUnrecordedAdmin`: the session is in its dictionary before the
  `admin.login` row is written and stays there when that fails; still nobody
  has its cookie, or works with it, unrecorded. `SessionsEnd` (liveness): a
  browser that never stops using a session does not keep it.
- `AuditReplays`, `LabelsExplained`: the audit trail alone gives the status of
  every row (inserted, and not disabled since it was last enabled), and every role
  or group was granted, or came with its membership, after it was last revoked.
  Operations that fail half way have left no row without its audit row. A
  re-seed does bring back a revoked role that the file lists, since it adds the
  membership again; the property asks that the trail shows it, not that it cannot
  be. `LookupUnambiguous`: a login names a tenant by id or by key, and the first
  row is taken; two rows match only where one tenant's key is another tenant's id.
- `SubjectKept`: the token is about the user whose password was compared, for
  *every* file whose keys stand for nobody else (`KeysApart`), consistent or not,
  although the exchange looks the user up again by other values. An entry may
  have a `user_key` without the prefix. If that is the id of an earlier entry, the
  second lookup finds that one; if the file allows unknown users, it may make up
  another one of that name. `KeysApart` excludes these two and nothing else.
  `StrictIsClosed`: a file that allows neither unknown users nor unknown tenants
  vouches for nobody else, whatever is left out of the request.
- `IdentityKept`, `TenantIsTheEntrys`, `OneIdentityForBoth` add the tenant and the
  profile, and the two services, for a `Consistent` file. It asks for three
  things, and without any one of them the properties fail: no name belongs to
  two tenants (`Unambiguous`); what an entry says of its tenant is one tenant of
  the list or a name the list does not have (`Agreeing`); a user's key is its id
  with the prefix (`KeyedById`). For `Agreeing`, for example: the list says that
  tenant `a` has the key `b`, and a user's entry names `a` as both its id and its
  key. A login that names the tenant `b` finds no such user, is admitted with the
  shared password as an unknown one (if the file allows these) and given a code for tenant `a`; the
  exchange finds the entry. Each condition is reasonable to ask of a file, but
  no document asks it, loading does not check it, and the contract checker may
  pass without it: it compares tokens and headers with each other.
- `AudienceSeparated`: a token asked for one service is refused by the other.
  `FreshIsAccepted`: rounding and the five seconds of `nbf` suffice for a
  verifier that is up to five seconds late. `DiesOnTime`: nor does a token count
  longer than asked, negative lifetimes included.
- `FailClosed`: in every mode of every endpoint, whoever a request names with a
  tenant is answered for only if the catalog had them active during the request.
  `SameInEveryMode`: so named, the answer names one of them as the catalog does.
  The headers of `service_token` come from the file; of these it says so when the
  file agrees with the catalog (`FileAgrees`), as that of the instance does
  (section 6 says what happens otherwise).
  `CallerStripped`: the identity fields sent on are AuthNode's, also where it has
  no value to put in the place of the caller's.
- `DaemonFound`, `StopStops`, `SecretAgreement`: while scripts do not overlap,
  the PID file leads to the server that listens, a stop leaves none behind, and
  the secret in the file stays the one servers run with. Without that
  condition they fail (section 6). All of them hold with pids given out again: a
  stop that takes another process for the server still leaves no server behind.
  `ComesBack` (liveness) holds of overlapping scripts too: a start that began when nothing ran
  gets a server up, or the number it read was an unrelated program's by then.

**Why the bounds are enough.** The hazards are pairwise: one request between
two steps of another. Two requests, an administrator, a crash and the clock
produce every such pair; `admin` has a third request because a session needs one
to be created, one to be ended and one to use it. `flow_core` has one session
and one code since its questions concern one of each; the proofs of section 4
cover any number. Lifetimes are one or two ticks: "before", "at" and "after"
expiry all occur. Two OIDC keys are one rotation, and with a withdrawal they
give every order of fetch, rotation and store. The catalog's history is bounded
by `MaxAudit`; the properties compare the history with the rows, and five rows
fit a grant, its revocation, the removal of the membership and its return, or a
seed and what follows it. In `local`, lookups compare a name with ids and keys:
two names suffice for every way in which those of two tenants coincide, and a
third tenant would only be another one that does not match. Of two users of a
file one has an id and at most a tenant id, and both policies are on or off
together; one user alone takes every form, and LocalLoginProofs covers every file. `gateway` has one
request because requests share nothing but the catalog, which administrators
change. Seven seconds lie on both sides of the five of `nbf`. Two processes at
once are two servers, or a server and a program with a number the PID file once
had; there is no bound on how many follow one another. The second terminal makes
every overlap of a start with another command. Symmetry is used for sets of
interchangeable values only, and never with a liveness property. Where deadlock
is checked, it is that of the model's clock or its administrators: one of these
steps is always possible.

**Fairness.** `limiter`: `WF(Tick)`, time passes; and for each attempt `WF` of its
next step, since each request has a thread that the operating system runs and
neither the count nor Argon2 blocks for ever. Nothing is assumed about arrivals
or errors. `admin`: `WF(Tick)` alone, so sessions end also when no request does
anything. `launcher`: a script that was begun goes on, and a server starts
up and ends when it is signalled; nobody has to begin a script, and no other
program has to end. The other specifications
state safety only.

**Mutants.** Beside a definition some modules keep its mutated form (named after
the mistake: `LimitedOffByOne`, `PeekCode`, `AdmitRenewing`, ...), each a bug
the code could have had. No specification uses them; substituted for the
definition, each makes TLC refute the property it is listed with.

## 4. What is proved

Every safety property that a passing run checks is a theorem, every refinement
among them. All proofs hold for every value of the constants under the named
`ASSUME`s of the modules: limits and lifetimes are naturals, and positive where
the code makes no sense otherwise; the `No...` values are outside their sets; the
sets of attempts, requests and scripts are finite, and so is what the
configuration seeds, which is within the catalog's sets. `NameAssumption` says
that no name is empty and no bare one begins with the prefix; `FileAssumption`
that a file is a list of tenants and one of users, of any length;
`GatewayAssumption` that no name belongs to two of the catalog's tenants.

Components that share a base have their proofs in one module.

**LoginPromisesProofs**
- `TicketsAnsweredOnce`: what the two refinements to OneTimeTicket are worth: at
  most one answer per ticket, with the subject it was issued for.
- `LimiterTypeCorrect`, `OvershootIsBounded`. The bound is not inductive alone: a
  failing attempt moves from `Passed` to `Counted`, so their sum must be bounded
  over *disjoint* sets, and a passing attempt must leave room. `LimiterInv` adds
  that at most `Concurrency` attempts are open, and `OpenOrCounted`: an attempt
  has a key exactly while it is open or its row counts, never both. Then `Pass`
  happens at a count below `MaxAttempts` with at most `Concurrency` attempts
  open, and everything else keeps or lowers the sum.

**LoginFlowProofs**
- `FlowTypeCorrect`. `FlowInv` adds to the types what the steps rely on: what a
  request holds in each phase (`RequestInv`), when it still has a row to leave
  (`FailureInv`), and that a held or stored code has a payload (`CodeInv`).
- `GroundedHolds`. `Grounded` alone is not inductive: a session is created in a
  later step than its success row, from a local variable. `GroundedInv` says it
  of every row a thread holds past the verification, and of every session read.
- `DisabledHolds`, from one lemma about every operation on the directory.
- `WitnessedHolds`. `WitnessInv` follows each fact from the read that found it,
  through what the thread keeps of it in its locals, to the step that relies on it.

  The other three say that the login implements its abstract specifications:
  initial states map to initial states, and each step to a step or a stutter.
- `CodesImplementTickets`. From `FlowInv` alone.
- `SessionsImplementLeases`. `LeaseInv` adds that a thread has the cookie of a
  session that exists exactly while it makes its code (`CookieInv`), and that only
  sessions that exist were handed out or revoked.
- `LoginImplementsLimiter`. `AskInv` adds that what was typed is kept exactly
  while the login goes on or its row counts. With `OvershootIsBounded`, the bound
  on failures holds of the whole login, with crashes and administrators.

**OidcLoginProofs**
- `OidcTypeCorrect`, `LoginsAreSignIns`, `KeysAreFound`, from one invariant: a state
  that is stored is held by nobody and nobody holds one twice (`StateInv`, which
  is why there is at most one login), a token held is of somebody who signed in
  for its nonce (`TokenInv`), and it is signed with a key that is or was published
  (`KeyInv`).
- `StatesImplementTickets`. `AcceptInv` adds that a state a callback went on with
  is not live any more.

**AdminSessionsProofs**
- `AdminTypeCorrect`, `NobodyUnrecorded`: `AdminInv` says for each phase that its
  session was issued, and from when on its login is recorded.
- `AdminSessionsLease`: the refinement.

**DirectoryProofs**, the gateway
- `ClosedWhenDisabled`, `CallersAreStripped`. `GatewayInv` says that everybody active
  now is among those active during the request, and that from the lookup on one of
  those it names was.
- `ModesAgree`. `AnswerInv` follows the claims from the lookup to the answer; for
  what comes from the file, `FileNames` shows that a file that agrees with the
  catalog finds, by whichever of the names, the tenant and a user of that name.

**DirectoryProofs**, the catalog
- `ReferencesHold`, `CatalogTypeCorrect`: `Referential` is inductive together with the
  types of the rows (`RowTypes`).
- `AuditIsFaithful`, `LabelsAreExplained`, from `AuditInv`, which holds of trails of
  any length. The argument is one for all operations: `Told` says what rows a
  transaction may write for what it does to a status (nothing; insert rows among
  others; a single row that disables or enables), `ToldStatus` that the longer
  trail then says what the row is, and `Transaction` that a transaction all of
  whose changes are told keeps `AuditInv`. Each action is then shown to tell what
  it does; a seed, which writes rows for all the file at once, by `SeedTells`.
- `LookupsAreUnambiguous`: `KeysDistinct`, no key belongs to two tenants, is what the
  unique column keeps; of two seeded tenants the later one was compared with
  the earlier.

**LocalLoginProofs**
- `SubjectsAreKept`, `IdentitiesAreKept`: `LocalInv` says that what was verified is
  what the file says of some user value and tenant name (`Vouched`), and the
  code has its subject and tenant id. The rest is about the file alone:
  `SubjectFound` and `ClaimsFoundAgain` say that looking the subject up again, in
  that tenant, finds the same key, and in a consistent file the same claims.
- `StrictFilesAreClosed`, `EntriesKeepTheirTenant`, `OneIdentityInBothServices` are
  about the file alone too (`StrictKnows`, `EntryGoesWithTenant`, `ContractIsMet`).
  All rest on `KnownUserIs` and `TenantForIs`, which say what the first match in a
  list of any length is, and on `LoadedFiles`: loading fills in every name.

**IdentityTokenProofs**
- `AudiencesAreSeparated`, `FreshAreAccepted`, `TokensDieOnTime`: `TokenInv` relates the
  claims of a token to what was asked and when; `RoundedDown` bounds the
  rounding of the verifier's clock and of `iat`.

**LauncherProofs**
- `LauncherTypeCorrect`, for any number of scripts at once. `ProcessInv` adds the
  places a script of each command can be at.
- `DaemonsAreFound`, `StopsStop`, `SecretsAgree`. `AloneInv`: as long as no two scripts
  have overlapped, what the one at work has seen of the file, the PID file and
  the processes still holds (`ConfigInv`, `LookInv`), a background server is in the
  PID file or was launched just now (`DaemonInv`), and no server runs without a
  generated secret in the file (`SecretInv`). None of it needs that a pid is given
  out once. `OthersIdle` is where the absence of
  other scripts is used.

The step lemmas have one case per action, and operations that change only
directory rows are dealt with once.

**Model-checked only.** `LockoutEnds`, `SessionsEnd`, `ComesBack`: liveness under
fairness is out of the prover's reach. So is what a recursive definition computes
(induction over data): no property rests on one any more. `StatusAfter` says
directly what a trail says instead of folding over it, and the proofs use of the
library's `SelectInSeq`, `SelectLastInSeq` and `SetToSeq` what their definitions
say: a least index, a greatest one, some enumeration.

## 5. What is not modelled

- Roles and groups with a comma in their names. They are joined with commas by
  `GROUP_CONCAT` and split again; labels are atoms in Catalog.
- `AUTHNODE_CONFIG` set to another file for the launcher, scripts interrupted half
  way, and the configuration file torn by an end in the middle of a write.
- User values with other prefixes than `pska:` in the file's lookups.
- Keycloak's logout URL, the discovery document (constant once fetched; failing
  to fetch it is `Abort`), and `verify_token` for `/v1/auth/headers`.
- The bearer check of `/v1/iam`, lists, and what the command line prints: they
  change nothing. The operations they reach are actions of Catalog.
- The checker's requests to live services, and what they answer.
- Bodies, paths and query strings of proxied requests, and upstream's answers.
- Cryptography (Argon2, PKCE, HMAC, signatures): a password matches itself, a
  token carries the key that signed it, random tokens never repeat.
- HTML, logging, display names, e-mail addresses, timestamps.
- The dictionaries of codes, states and admin sessions have no limit in the code
  and entries that are never presented again stay; there is no bound to check.

### Plan

What remains, in the order of what it would add: `verify_token` and the discovery
cache in OidcLogin; a theorem that the promises of OneTimeTicket and LoginLimiter,
read through the refinements, hold of codes, states and logins in their own
words; labels as sequences of names with commas, once the code or a document says
what is meant.

## 6. Where documents and code differ

- `contracts/authnode-fastreact-pska.md:31-33` says that disabled users, disabled
  tenants and missing memberships "fail closed before downstream credentials are
  issued". The code exchange (`server.py:617-655`) makes the token from the
  identity that was stored with the code and does not look at the catalog, so a
  user disabled after the login and before the exchange, at most 300 seconds
  later, still gets a token. Run `flow_stale` checks `TokenOnlyWhileActive` and
  TLC answers with such a history.
- The same document says at line 31 that in Local IAM mode "tenant identity must
  come from an active membership in the catalog". `_catalog_identity`
  (`server.py:903`) asks the catalog only when a request names a user *and* a
  tenant; one that leaves either out is answered from the configuration file. The
  seed of the start has put that identity into the catalog, but the answer stays
  when it is disabled or removed there. Run `gateway_unnamed` checks
  `FromMembership`: in TLC's history the server seeds, tenant `a` is disabled, and
  a request for a user without a tenant is answered in `a`.

Met while modelling, and described here only:

- Scripts of the launcher take no lock. Two starts at once both launch a server,
  and the PID file keeps one of them; a stop that found nothing running removes
  the PID file that a start has written since (218), and the server that listens
  is then called one that was not started with `--daemon` (206-209, 219-222); two
  starts both replace the placeholder secret. `LauncherAlone` therefore says what
  it says of scripts that run one after the other.
- `stop_daemon` signals whatever process of the user has the number in the PID file
  (`start.sh:229`); `is_running` asks only whether there is one (145-147). The file
  outlives its server and the kernel gives the number out again, to a foreground
  server or to an unrelated program, which the stop then ends; the usage text (30)
  speaks of the process started with `--daemon`. Launcher has these histories, and
  no property claims that only background servers are signalled. A start finds
  such a number running too and launches nothing; `ComesBack` allows exactly that.
- In `service_token` mode the user and the tenant of the trusted headers come from
  the file, although the catalog was asked (`server.py:892-900`). For a tenant
  that only the catalog has, its id stands there for its key as well.

## 7. Running it

    tlc -workers 2 -config LoginFlow_core.cfg MCLoginFlow
    tlapm LoginFlowProofs.tla

`PROJECT.json` names every run with its module and configuration, the source
lines of every definition (`map`), the mutants, the hazards and the theorems.
