-------------------------------- MODULE Accounts --------------------------------
(***************************************************************************)
(* The users table: registration and login (services/auth.py and its       *)
(* endpoints) against the seeding that every instance of the service runs  *)
(* when it starts (main.py).                                               *)
(*                                                                         *)
(* Both look an address up and insert it when it is free, in two           *)
(* statements; only the unique index on users.email decides a race, and    *)
(* its IntegrityError is caught by neither: a registration then answers    *)
(* 500, a start fails.  (An INSERT that meets an uncommitted one of the    *)
(* same address waits for its end, so INSERT and COMMIT are one step.)     *)
(*                                                                         *)
(* A password is named after who knows it; an address is what EmailStr     *)
(* leaves of it, which keeps the case of the part before the @.            *)
(***************************************************************************)
EXTENDS Naturals, Sequences

CONSTANTS
  Addresses,    \* e-mail addresses
  Lower,        \* str.strip().lower() on them
  Clients,      \* people who register and log in
  Operator,     \* who set ADMIN_PASSWORD and AGENT_PASSWORD
  Settings,     \* what the calls of _seed_user that are enabled may be given
  Instances,    \* the processes of the service
  Slots,        \* requests that can be served at the same time
  MaxRequests,  \* bound on the requests of a behaviour
  MaxStarts     \* bound on the starts of a behaviour

Roles == {"ADMIN", "AGENT", "USER"}

ASSUME ParametersAssumption ==
  /\ Lower \in [Addresses -> Addresses]
  /\ \A a \in Addresses : Lower[Lower[a]] = Lower[a]
  /\ Operator \notin Clients /\ "none" \notin Clients \cup {Operator}
  /\ Settings \subseteq Seq([role : Roles, email : Addresses, update : BOOLEAN]) \ {<<>>}
  /\ MaxRequests \in Nat /\ MaxStarts \in Nat

VARIABLES
  seeds,     \* the settings of the deployment
  migrated,  \* whether alembic has created the tables
  users,     \* the users table, by its unique index on email
  inst,      \* each instance: its stage, the seed it is at, the row it has loaded,
             \* and whether its last start passed over a seed
  starts,    \* counts the starts
  clock,     \* counts the requests begun
  pc,        \* the stage of the request in each slot
  req,       \* its operation, its address and who sent it
  res,       \* the answer to the last request of the slot
  granted    \* the registrations answered 200: address and client

requests == <<clock, pc, req, res, granted>>
vars == <<seeds, migrated, users, inst, starts, requests>>

NoUser == [role |-> "USER", active |-> FALSE, password |-> "none"]
User == [role : Roles, active : BOOLEAN, password : Clients \cup {Operator}]

Taken(a) == users[a] # NoUser

Starting == {"look", "select", "insert", "update"}
NoRequest == [op |-> "none", email |-> "none", client |-> "none"]
Requests == [op : {"register", "login"}, email : Addresses, client : Clients \cup {Operator}]

--------------------------------------------------------------------------------

Init ==
  /\ seeds \in Settings
  /\ migrated = FALSE
  /\ users = [a \in Addresses |-> NoUser]
  /\ inst = [i \in Instances |-> [stage |-> "off", seed |-> 1, loaded |-> NoUser, skipped |-> FALSE]]
  /\ starts = 0
  /\ clock = 0
  /\ pc = [r \in Slots |-> "idle"]
  /\ req = [r \in Slots |-> NoRequest]
  /\ res = [r \in Slots |-> "none"]
  /\ granted = {}

--------------------------------------------------------------------------------
\* Requests.

Respond(r, a) ==
  /\ pc' = [pc EXCEPT ![r] = "idle"]
  /\ req' = [req EXCEPT ![r] = NoRequest]
  /\ res' = [res EXCEPT ![r] = a]

Handles(r, op, stage) == pc[r] = stage /\ req[r].op = op

\* Some instance has finished its lifespan start-up and takes requests.
Begin(r) ==
  /\ pc[r] = "idle"
  /\ clock < MaxRequests
  /\ \E i \in Instances : inst[i].stage = "up"
  /\ \E q \in Requests :
       /\ q.op = "register" => q.client \in Clients
       /\ req' = [req EXCEPT ![r] = q]
  /\ clock' = clock + 1
  /\ pc' = [pc EXCEPT ![r] = "begun"]
  /\ res' = [res EXCEPT ![r] = "none"]
  /\ UNCHANGED <<seeds, migrated, users, inst, starts, granted>>

\* register_user looks the address up, as it is written.
CheckFree(r) ==
  /\ Handles(r, "register", "begun")
  /\ migrated
  /\ \/ /\ Taken(req[r].email)
        /\ Respond(r, "email_taken")
     \/ /\ ~Taken(req[r].email)
        /\ pc' = [pc EXCEPT ![r] = "free"]
        /\ UNCHANGED <<req, res>>
  /\ UNCHANGED <<seeds, migrated, users, inst, starts, clock, granted>>

NewUser(role, password) == [role |-> role, active |-> TRUE, password |-> password]

\* Mutant: nothing but the look-up keeps addresses apart.
InsertUserUnindexed(r) ==
  /\ Handles(r, "register", "free")
  /\ users' = [users EXCEPT ![req[r].email] = NewUser("USER", req[r].client)]
  /\ pc' = [pc EXCEPT ![r] = "inserted"]
  /\ UNCHANGED <<seeds, migrated, inst, starts, clock, req, res, granted>>

\* ... and inserts it, unless the unique index knows it by now.
InsertUser(r) ==
  /\ Handles(r, "register", "free")
  /\ \/ /\ Taken(req[r].email)
        /\ Respond(r, "internal_error")
        /\ UNCHANGED users
     \/ /\ ~Taken(req[r].email)
        /\ users' = [users EXCEPT ![req[r].email] = NewUser("USER", req[r].client)]
        /\ pc' = [pc EXCEPT ![r] = "inserted"]
        /\ UNCHANGED <<req, res>>
  /\ UNCHANGED <<seeds, migrated, inst, starts, clock, granted>>

\* db.refresh and the answer.
RefreshUser(r) ==
  /\ Handles(r, "register", "inserted")
  /\ Respond(r, "ok")
  /\ granted' = granted \cup {<<req[r].email, req[r].client>>}
  /\ UNCHANGED <<seeds, migrated, users, inst, starts, clock>>

\* authenticate_user: one SELECT, by the address as it is written, and the check of
\* the row it returns.  (RefreshTokens has what a login issues.)
AuthenticateUser(r) ==
  LET u == users[req[r].email] IN
  /\ Handles(r, "login", "begun")
  /\ migrated
  /\ Respond(r, IF u.active /\ u.password = req[r].client THEN "ok" ELSE "invalid_credentials")
  /\ UNCHANGED <<seeds, migrated, users, inst, starts, clock, granted>>

\* A statement, a connection or the process fails; what is committed stays.
Fail(r) ==
  /\ pc[r] # "idle"
  /\ Respond(r, "internal_error")
  /\ UNCHANGED <<seeds, migrated, users, inst, starts, clock, granted>>

--------------------------------------------------------------------------------
\* The start of an instance: _seed_user for every seed, then the requests.

Seed(i) == seeds[inst[i].seed]

SeedAddress(s) == Lower[s.email]

Goto(i, stage) == inst' = [inst EXCEPT ![i].stage = stage, ![i].loaded = NoUser]

\* Done with a seed, whose session is closed: on to the next, or to the requests.
Advance(i, skip) ==
  inst' = [inst EXCEPT ![i] =
    [stage   |-> IF inst[i].seed = Len(seeds) THEN "up" ELSE "look",
     seed    |-> IF inst[i].seed = Len(seeds) THEN 1 ELSE inst[i].seed + 1,
     loaded  |-> NoUser,
     skipped |-> inst[i].skipped \/ skip]]

Start(i) ==
  /\ inst[i].stage \in {"off", "failed"}
  /\ starts < MaxStarts
  /\ starts' = starts + 1
  /\ inst' = [inst EXCEPT ![i] = [stage |-> "look", seed |-> 1, loaded |-> NoUser, skipped |-> FALSE]]
  /\ UNCHANGED <<seeds, migrated, users, requests>>

\* to_regclass: a table that is missing, and an SQLAlchemyError, pass over the seed.
LookForTable(i) ==
  /\ inst[i].stage = "look"
  /\ \/ migrated /\ Goto(i, "select")
     \/ Advance(i, TRUE)
  /\ UNCHANGED <<seeds, migrated, users, starts, requests>>

\* The account is looked up; one that is there is only touched with update_existing.
SelectExisting(i) ==
  LET found == users[SeedAddress(Seed(i))] IN
  /\ inst[i].stage = "select"
  /\ \/ /\ found = NoUser
        /\ Goto(i, "insert")
     \/ /\ found # NoUser /\ ~Seed(i).update
        /\ Advance(i, FALSE)
     \/ /\ found # NoUser /\ Seed(i).update
        /\ inst' = [inst EXCEPT ![i].stage = "update", ![i].loaded = found]
  /\ UNCHANGED <<seeds, migrated, users, starts, requests>>

\* Mutant: every column is written, changed or not.
UpdateWholeUser(i) ==
  /\ inst[i].stage = "update"
  /\ users' = [users EXCEPT ![SeedAddress(Seed(i))] = NewUser(Seed(i).role, Operator)]
  /\ Advance(i, FALSE)
  /\ UNCHANGED <<seeds, migrated, starts, requests>>

\* password, role and is_active are assigned to the loaded row, and the commit writes
\* those that differ from it: the hash always does.
UpdateExisting(i) ==
  LET a == SeedAddress(Seed(i)) IN
  /\ inst[i].stage = "update"
  /\ users' = [users EXCEPT
       ![a].password = Operator,
       ![a].role     = IF inst[i].loaded.role = Seed(i).role THEN users[a].role ELSE Seed(i).role,
       ![a].active   = users[a].active \/ ~inst[i].loaded.active]
  /\ Advance(i, FALSE)
  /\ UNCHANGED <<seeds, migrated, starts, requests>>

\* Mutant: the IntegrityError of the insert is swallowed, as if the seed were there.
InsertSeedForgiving(i) ==
  LET a == SeedAddress(Seed(i)) IN
  /\ inst[i].stage = "insert"
  /\ users' = IF Taken(a) THEN users ELSE [users EXCEPT ![a] = NewUser(Seed(i).role, Operator)]
  /\ Advance(i, FALSE)
  /\ UNCHANGED <<seeds, migrated, starts, requests>>

\* An address taken since it was looked up fails the insert, and the start with it.
InsertSeed(i) ==
  LET a == SeedAddress(Seed(i)) IN
  /\ inst[i].stage = "insert"
  /\ \/ /\ Taken(a)
        /\ Goto(i, "failed")
        /\ UNCHANGED users
     \/ /\ ~Taken(a)
        /\ users' = [users EXCEPT ![a] = NewUser(Seed(i).role, Operator)]
        /\ Advance(i, FALSE)
  /\ UNCHANGED <<seeds, migrated, starts, requests>>

\* Any other statement fails during the start.
FailStart(i) ==
  /\ inst[i].stage \in Starting \ {"look"}
  /\ Goto(i, "failed")
  /\ UNCHANGED <<seeds, migrated, users, starts, requests>>

Stop(i) ==
  /\ inst[i].stage = "up"
  /\ Goto(i, "off")
  /\ UNCHANGED <<seeds, migrated, users, starts, requests>>

--------------------------------------------------------------------------------
\* The operator.

\* alembic upgrade head, which the README runs when the service is already up.
Migrate ==
  /\ ~migrated
  /\ migrated' = TRUE
  /\ UNCHANGED <<seeds, users, inst, starts, requests>>

\* An UPDATE of is_active by hand; no endpoint makes one.
Deactivate(a) ==
  /\ users[a].active
  /\ users' = [users EXCEPT ![a].active = FALSE]
  /\ UNCHANGED <<seeds, migrated, inst, starts, requests>>

Serve(r) ==
  \/ CheckFree(r) \/ InsertUser(r) \/ RefreshUser(r) \/ AuthenticateUser(r)

SeedStep(i) ==
  \/ LookForTable(i) \/ SelectExisting(i) \/ UpdateExisting(i) \/ InsertSeed(i)

Next ==
  \/ \E r \in Slots : Begin(r) \/ Serve(r) \/ Fail(r)
  \/ \E i \in Instances : Start(i) \/ SeedStep(i) \/ FailStart(i) \/ Stop(i)
  \/ Migrate
  \/ \E a \in Addresses : Deactivate(a)

Spec == Init /\ [][Next]_vars

--------------------------------------------------------------------------------

TypeOK ==
  /\ seeds \in Settings
  /\ migrated \in BOOLEAN
  /\ users \in [Addresses -> User \cup {NoUser}]
  /\ inst \in [Instances -> [stage   : Starting \cup {"off", "up", "failed"},
                             seed    : Nat \ {0},
                             loaded  : User \cup {NoUser},
                             skipped : BOOLEAN]]
  /\ \A i \in Instances : inst[i].stage = "update" <=> inst[i].loaded # NoUser
  /\ starts \in 0 .. MaxStarts
  /\ clock \in 0 .. MaxRequests
  /\ pc \in [Slots -> {"idle", "begun", "free", "inserted"}]
  /\ req \in [Slots -> Requests \cup {NoRequest}]
  /\ res \in [Slots -> {"none", "ok", "email_taken", "invalid_credentials", "internal_error"}]
  /\ granted \subseteq Addresses \X Clients

--------------------------------------------------------------------------------

\* The seeds after whose update an address is known to carry their role.
LastOfItsAddress(k) ==
  \A j \in DOMAIN seeds : j > k => SeedAddress(seeds[j]) # SeedAddress(seeds[k])

\* No start is under way, and none has ended half-way.
Settled == \A i \in Instances : inst[i].stage \in {"off", "up"} /\ ~inst[i].skipped

\* A registration that was answered 200 keeps its account: nobody else gets the
\* address, whichever registrations and seedings raced for it.  Only a seeding of that
\* very address, with update_existing, takes it over.
RegistrationsHold ==
  \A g \in granted :
    \/ users[g[1]].password = g[2]
    \/ /\ users[g[1]].password = Operator
       /\ \E k \in DOMAIN seeds : seeds[k].update /\ Lower[seeds[k].email] = g[1]

\* What a complete start promises.  Every seeded address has an account.  With
\* update_existing it has the seed's role and password as well, once no instance is
\* half-way: it does not matter how the starts of several instances, the columns they
\* find unchanged, and the registrations of the same address interleave.
SeedsHold ==
  \A i \in Instances :
    inst[i].stage = "up" /\ ~inst[i].skipped =>
      \A k \in DOMAIN seeds :
        LET u == users[Lower[seeds[k].email]] IN
        /\ u # NoUser
        /\ Settled /\ seeds[k].update /\ LastOfItsAddress(k) =>
             u.role = seeds[k].role /\ u.password = Operator

\* A seeding re-activates an account only if it was inactive when the seeding read
\* it: a deactivation in between survives.
DeactivationSurvives ==
  [][\A a \in Addresses :
       Taken(a) /\ ~users[a].active /\ users'[a].active =>
         \E i \in Instances :
           /\ inst[i].stage = "update"
           /\ SeedAddress(Seed(i)) = a
           /\ ~inst[i].loaded.active]_vars
================================================================================
