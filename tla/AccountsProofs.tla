----------------------------- MODULE AccountsProofs -----------------------------
(***************************************************************************)
(* Proofs about Accounts, for any addresses, clients, instances and seeds:  *)
(* who holds an address that registrations and seedings race for, and that  *)
(* the role of a seeded account is right once no start is half-way.  The     *)
(* second part is about the schema that a start finds, Migrations.         *)
(***************************************************************************)
EXTENDS Accounts, Migrations, TLAPS

--------------------------------------------------------------------------------
\* Type correctness.  A busy slot holds a request, and an instance is at a seed there
\* is; at the update it is at one whose account it updates.

SessionsTyped ==
  /\ \A r \in Slots : pc[r] # "idle" => req[r] \in Requests
  /\ \A r \in Slots : pc[r] # "idle" /\ req[r].op = "register" => req[r].client \in Clients
  /\ \A r \in Slots : pc[r] \in {"free", "inserted"} => req[r].op = "register"
  /\ \A i \in Instances : inst[i].seed \in 1 .. Len(seeds)
  /\ \A i \in Instances : inst[i].stage = "update" => Seed(i).update

TypeInv == TypeOK /\ SessionsTyped

LEMMA Elements ==
  ASSUME NEW S, NEW q \in Seq(S)
  PROVE  Len(q) \in Nat /\ DOMAIN q = 1 .. Len(q) /\ \A i \in 1 .. Len(q) : q[i] \in S
  OBVIOUS

LEMMA SeedTypes ==
  ASSUME seeds \in Settings
  PROVE  /\ seeds \in Seq([role : Roles, email : Addresses, update : BOOLEAN])
         /\ Len(seeds) \in Nat /\ Len(seeds) >= 1 /\ DOMAIN seeds = 1 .. Len(seeds)
         /\ \A k \in 1 .. Len(seeds) : /\ seeds[k].role \in Roles /\ seeds[k].email \in Addresses
                                      /\ seeds[k].update \in BOOLEAN
                                      /\ Lower[seeds[k].email] \in Addresses
  <1>1. seeds \in Seq([role : Roles, email : Addresses, update : BOOLEAN]) /\ seeds # <<>>
    BY ParametersAssumption
  <1>2. Len(seeds) \in Nat /\ Len(seeds) >= 1 /\ DOMAIN seeds = 1 .. Len(seeds)
    BY <1>1
  <1>3. \A k \in 1 .. Len(seeds) : seeds[k] \in [role : Roles, email : Addresses, update : BOOLEAN]
    BY <1>1, Elements
  <1> QED BY <1>1, <1>2, <1>3, ParametersAssumption

LEMMA TypeInit == Init => TypeInv
  <1> SUFFICES ASSUME Init PROVE TypeInv
    OBVIOUS
  <1>1. seeds \in Settings /\ \A i \in Instances : inst[i].seed \in 1 .. Len(seeds)
    BY SeedTypes DEF Init
  <1>2. /\ users \in [Addresses -> User \cup {NoUser}]
        /\ migrated \in BOOLEAN /\ starts \in 0 .. MaxStarts /\ clock \in 0 .. MaxRequests
        /\ pc \in [Slots -> {"idle", "begun", "free", "inserted"}]
        /\ req \in [Slots -> Requests \cup {NoRequest}]
        /\ res \in [Slots -> {"none", "ok", "email_taken", "invalid_credentials", "internal_error"}]
        /\ granted \subseteq Addresses \X Clients
    <2>1. users \in [Addresses -> User \cup {NoUser}]
      BY DEF Init
    <2>2. starts \in 0 .. MaxStarts /\ clock \in 0 .. MaxRequests
      BY ParametersAssumption DEF Init
    <2> QED BY <2>1, <2>2 DEF Init
  <1>3. /\ inst \in [Instances -> [stage   : Starting \cup {"off", "up", "failed"},
                                  seed    : Nat \ {0},
                                  loaded  : User \cup {NoUser},
                                  skipped : BOOLEAN]]
        /\ \A i \in Instances : inst[i].stage = "update" <=> inst[i].loaded # NoUser
    BY DEF Init
  <1>4. SessionsTyped
    BY <1>1 DEF Init, SessionsTyped
  <1> QED BY <1>1, <1>2, <1>3, <1>4 DEF TypeInv, TypeOK

\* The types of the users table and the requests, and those of the instances.
RequestsTyped ==
  /\ migrated \in BOOLEAN
  /\ users \in [Addresses -> User \cup {NoUser}]
  /\ clock \in 0 .. MaxRequests
  /\ pc \in [Slots -> {"idle", "begun", "free", "inserted"}]
  /\ req \in [Slots -> Requests \cup {NoRequest}]
  /\ res \in [Slots -> {"none", "ok", "email_taken", "invalid_credentials", "internal_error"}]
  /\ granted \subseteq Addresses \X Clients
  /\ \A r \in Slots : pc[r] # "idle" => req[r] \in Requests
  /\ \A r \in Slots : pc[r] # "idle" /\ req[r].op = "register" => req[r].client \in Clients
  /\ \A r \in Slots : pc[r] \in {"free", "inserted"} => req[r].op = "register"

InstanceTyped(i) ==
  /\ inst[i] \in [stage   : Starting \cup {"off", "up", "failed"},
                  seed    : Nat \ {0},
                  loaded  : User \cup {NoUser},
                  skipped : BOOLEAN]
  /\ inst[i].seed \in 1 .. Len(seeds)
  /\ inst[i].stage = "update" <=> inst[i].loaded # NoUser
  /\ inst[i].stage = "update" => Seed(i).update

LEMMA TypeParts ==
  TypeInv <=> /\ seeds \in Settings /\ starts \in 0 .. MaxStarts
              /\ RequestsTyped
              /\ DOMAIN inst = Instances /\ inst = [i \in Instances |-> inst[i]]
              /\ \A i \in Instances : InstanceTyped(i)
  BY DEF TypeInv, TypeOK, SessionsTyped, RequestsTyped, InstanceTyped

LEMMA TypePartsNext ==
  TypeInv' <=> /\ seeds' \in Settings /\ starts' \in 0 .. MaxStarts
               /\ RequestsTyped'
               /\ DOMAIN inst' = Instances /\ inst' = [i \in Instances |-> inst'[i]]
               /\ \A i \in Instances : InstanceTyped(i)'
  BY DEF TypeInv, TypeOK, SessionsTyped, RequestsTyped, InstanceTyped

\* A request leaves the instances alone.
LEMMA RequestStepTyped ==
  ASSUME TypeInv, UNCHANGED <<seeds, inst, starts>>, RequestsTyped'
  PROVE  TypeInv'
  <1>1. \A i \in Instances : InstanceTyped(i)'
    BY TypeParts DEF InstanceTyped, Seed
  <1> QED BY <1>1, TypeParts, TypePartsNext

LEMMA RequestTyped ==
  ASSUME TypeInv, NEW r \in Slots, Begin(r) \/ Serve(r) \/ Fail(r)
  PROVE  TypeInv'
  <1>1. RequestsTyped /\ UNCHANGED <<seeds, inst, starts>>
    BY TypeParts DEF Begin, Serve, CheckFree, InsertUser, RefreshUser, AuthenticateUser, Fail
  <1>2. ASSUME NEW a \in {"ok", "email_taken", "invalid_credentials", "internal_error"}, Respond(r, a),
               UNCHANGED <<migrated, users, clock>>, granted' \subseteq Addresses \X Clients
        PROVE  RequestsTyped'
    BY <1>1, <1>2 DEF RequestsTyped, Respond
  <1>3. CASE Begin(r)
    <2>1. PICK q \in Requests : /\ q.op = "register" => q.client \in Clients
                               /\ req' = [req EXCEPT ![r] = q]
      BY <1>3 DEF Begin
    <2>2. clock' \in 0 .. MaxRequests
      BY <1>1, <1>3, ParametersAssumption DEF Begin, RequestsTyped
    <2> QED BY <1>1, <1>3, <2>1, <2>2, RequestStepTyped DEF Begin, RequestsTyped
  <1>4. CASE CheckFree(r)
    <2>1. CASE Respond(r, "email_taken")
      BY <1>1, <1>2, <1>4, <2>1, RequestStepTyped DEF CheckFree, RequestsTyped
    <2>2. CASE pc' = [pc EXCEPT ![r] = "free"] /\ UNCHANGED <<req, res>>
      BY <1>1, <1>4, <2>2, RequestStepTyped DEF CheckFree, Handles, RequestsTyped
    <2> QED BY <1>4, <2>1, <2>2 DEF CheckFree
  <1>5. CASE InsertUser(r)
    <2>1. CASE Respond(r, "internal_error") /\ UNCHANGED users
      BY <1>1, <1>2, <1>5, <2>1, RequestStepTyped DEF InsertUser, RequestsTyped
    <2>2. CASE /\ users' = [users EXCEPT ![req[r].email] = NewUser("USER", req[r].client)]
               /\ pc' = [pc EXCEPT ![r] = "inserted"]
               /\ UNCHANGED <<req, res>>
      <3>1. NewUser("USER", req[r].client) \in User /\ req[r].client \in Clients
        BY <1>1, <1>5 DEF InsertUser, Handles, NewUser, User, Roles, RequestsTyped
      <3> QED BY <1>1, <1>5, <2>2, <3>1, RequestStepTyped DEF InsertUser, Handles, RequestsTyped
    <2> QED BY <1>5, <2>1, <2>2 DEF InsertUser
  <1>6. CASE RefreshUser(r)
    <2>1. granted' \subseteq Addresses \X Clients
      BY <1>1, <1>6 DEF RefreshUser, Handles, RequestsTyped, Requests
    <2> QED BY <1>1, <1>2, <1>6, <2>1, RequestStepTyped DEF RefreshUser
  <1>7. CASE AuthenticateUser(r)
    BY <1>1, <1>2, <1>7, RequestStepTyped DEF AuthenticateUser, RequestsTyped
  <1>8. CASE Fail(r)
    BY <1>1, <1>2, <1>8, RequestStepTyped DEF Fail, RequestsTyped
  <1> QED BY <1>3, <1>4, <1>5, <1>6, <1>7, <1>8 DEF Serve

\* A step of an instance, which may write its account.
LEMMA InstanceStepTyped ==
  ASSUME TypeInv, NEW i \in Instances, NEW to, inst' = [inst EXCEPT ![i] = to],
         UNCHANGED <<seeds, migrated, requests>>,
         users' \in [Addresses -> User \cup {NoUser}], starts' \in 0 .. MaxStarts,
         to \in [stage   : Starting \cup {"off", "up", "failed"},
                seed    : Nat \ {0},
                loaded  : User \cup {NoUser},
                skipped : BOOLEAN],
         to.seed \in 1 .. Len(seeds),
         to.stage = "update" <=> to.loaded # NoUser,
         to.stage = "update" => seeds[to.seed].update
  PROVE  TypeInv'
  <1>1. inst'[i] = to /\ \A j \in Instances \ {i} : inst'[j] = inst[j]
    BY TypeParts
  <1>2. \A j \in Instances : InstanceTyped(j)'
    BY <1>1, TypeParts DEF InstanceTyped, Seed
  <1>3. RequestsTyped'
    BY TypeParts DEF RequestsTyped, requests
  <1>4. DOMAIN inst' = Instances /\ inst' = [j \in Instances |-> inst'[j]]
    BY TypeParts
  <1> QED BY <1>2, <1>3, <1>4, TypeParts, TypePartsNext

LEMMA AdvanceStep ==
  ASSUME TypeInv, NEW i \in Instances, inst[i].stage \in Starting, NEW skip \in BOOLEAN, Advance(i, skip),
         UNCHANGED <<seeds, migrated, starts, requests>>, users' \in [Addresses -> User \cup {NoUser}]
  PROVE  /\ TypeInv'
         /\ \A j \in Instances \ {i} : inst'[j] = inst[j]
         /\ inst'[i].skipped = (inst[i].skipped \/ skip)
         /\ \/ inst[i].seed = Len(seeds) /\ inst'[i].stage = "up"
            \/ /\ inst[i].seed < Len(seeds) /\ inst'[i].stage = "look"
               /\ inst'[i].seed = inst[i].seed + 1
  <1> DEFINE last == inst[i].seed = Len(seeds)
             to == [stage   |-> IF last THEN "up" ELSE "look",
                    seed    |-> IF last THEN 1 ELSE inst[i].seed + 1,
                    loaded  |-> NoUser,
                    skipped |-> inst[i].skipped \/ skip]
  <1>1. inst' = [inst EXCEPT ![i] = to]
    BY DEF Advance
  <1>2. /\ InstanceTyped(i) /\ seeds \in Settings /\ starts \in 0 .. MaxStarts
        /\ Len(seeds) \in Nat /\ Len(seeds) >= 1
    BY TypeParts, SeedTypes
  <1>3. /\ to.seed \in 1 .. Len(seeds) /\ to.stage \in {"up", "look"} /\ to.loaded = NoUser
        /\ to.skipped = (inst[i].skipped \/ skip)
        /\ \/ inst[i].seed = Len(seeds) /\ to.stage = "up"
           \/ /\ inst[i].seed < Len(seeds) /\ to.stage = "look"
              /\ to.seed = inst[i].seed + 1
    BY <1>2 DEF InstanceTyped
  <1>4. to \in [stage   : Starting \cup {"off", "up", "failed"},
               seed    : Nat \ {0},
               loaded  : User \cup {NoUser},
               skipped : BOOLEAN]
    BY <1>2, <1>3 DEF InstanceTyped, Starting
  <1> HIDE DEF to
  <1>5. TypeInv'
    BY <1>1, <1>2, <1>3, <1>4, InstanceStepTyped
  <1>6. inst'[i] = to /\ \A j \in Instances \ {i} : inst'[j] = inst[j]
    BY <1>1, TypeParts
  <1> QED BY <1>3, <1>5, <1>6

LEMMA GotoStep ==
  ASSUME TypeInv, NEW i \in Instances, NEW next \in {"select", "insert", "failed", "off"}, Goto(i, next),
         UNCHANGED <<seeds, migrated, users, starts, requests>>
  PROVE  /\ TypeInv'
         /\ \A j \in Instances \ {i} : inst'[j] = inst[j]
         /\ inst'[i].stage = next /\ inst'[i].seed = inst[i].seed
         /\ inst'[i].skipped = inst[i].skipped
  <1> DEFINE to == [inst[i] EXCEPT !.stage = next, !.loaded = NoUser]
  <1>1. inst' = [inst EXCEPT ![i] = to]
    BY TypeParts DEF Goto, InstanceTyped
  <1>2. InstanceTyped(i) /\ RequestsTyped /\ starts \in 0 .. MaxStarts
    BY TypeParts
  <1>3. /\ to.seed = inst[i].seed /\ to.skipped = inst[i].skipped
        /\ to.stage = next /\ to.loaded = NoUser
        /\ to \in [stage   : Starting \cup {"off", "up", "failed"},
                  seed    : Nat \ {0},
                  loaded  : User \cup {NoUser},
                  skipped : BOOLEAN]
    BY <1>2 DEF InstanceTyped, Starting
  <1> HIDE DEF to
  <1>4. TypeInv'
    BY <1>1, <1>2, <1>3, InstanceStepTyped DEF InstanceTyped, RequestsTyped
  <1>5. inst'[i] = to /\ \A j \in Instances \ {i} : inst'[j] = inst[j]
    BY <1>1, TypeParts
  <1> QED BY <1>3, <1>4, <1>5

LEMMA StartStep ==
  ASSUME TypeInv, NEW i \in Instances, Start(i)
  PROVE  /\ TypeInv'
         /\ \A j \in Instances \ {i} : inst'[j] = inst[j]
         /\ inst'[i].stage = "look" /\ inst'[i].seed = 1 /\ ~inst'[i].skipped
  <1> DEFINE to == [stage |-> "look", seed |-> 1, loaded |-> NoUser, skipped |-> FALSE]
  <1>1. /\ inst' = [inst EXCEPT ![i] = to] /\ UNCHANGED <<seeds, migrated, users, requests>>
        /\ Len(seeds) \in Nat /\ Len(seeds) >= 1
        /\ users \in [Addresses -> User \cup {NoUser}]
    BY TypeParts, SeedTypes DEF Start, RequestsTyped
  <1>2. starts' \in 0 .. MaxStarts
    BY TypeParts, ParametersAssumption DEF Start
  <1>3. /\ to.stage = "look" /\ to.seed = 1 /\ to.loaded = NoUser /\ ~to.skipped
        /\ to \in [stage   : Starting \cup {"off", "up", "failed"},
                  seed    : Nat \ {0},
                  loaded  : User \cup {NoUser},
                  skipped : BOOLEAN]
    BY DEF Starting
  <1> HIDE DEF to
  <1>4. TypeInv'
    <2>1. /\ UNCHANGED <<seeds, migrated, requests>> /\ users' \in [Addresses -> User \cup {NoUser}]
          /\ to.seed \in 1 .. Len(seeds) /\ to.stage # "update" /\ to.loaded = NoUser
      BY <1>1, <1>3
    <2> QED BY <1>1, <1>2, <1>3, <2>1, InstanceStepTyped
  <1>5. inst'[i] = to /\ \A j \in Instances \ {i} : inst'[j] = inst[j]
    BY <1>1, TypeParts
  <1> QED BY <1>3, <1>4, <1>5

\* An account is loaded for its update.
LEMMA LoadStep ==
  ASSUME TypeInv, NEW i \in Instances, inst[i].stage = "select", Seed(i).update,
         NEW found \in User, found # NoUser,
         inst' = [inst EXCEPT ![i].stage = "update", ![i].loaded = found],
         UNCHANGED <<seeds, migrated, users, starts, requests>>
  PROVE  /\ TypeInv'
         /\ \A j \in Instances \ {i} : inst'[j] = inst[j]
         /\ inst'[i].stage = "update" /\ inst'[i].seed = inst[i].seed
         /\ inst'[i].loaded = found /\ inst'[i].skipped = inst[i].skipped
  <1> DEFINE to == [inst[i] EXCEPT !.stage = "update", !.loaded = found]
  <1>1. inst' = [inst EXCEPT ![i] = to]
    BY TypeParts DEF InstanceTyped
  <1>2. InstanceTyped(i) /\ RequestsTyped /\ starts \in 0 .. MaxStarts
    BY TypeParts
  <1>3. /\ to.seed = inst[i].seed /\ to.skipped = inst[i].skipped
        /\ to.stage = "update" /\ to.loaded = found
        /\ to \in [stage   : Starting \cup {"off", "up", "failed"},
                  seed    : Nat \ {0},
                  loaded  : User \cup {NoUser},
                  skipped : BOOLEAN]
    BY <1>2 DEF InstanceTyped, Starting
  <1> HIDE DEF to
  <1>4. TypeInv'
    <2>1. /\ UNCHANGED <<seeds, migrated, requests>> /\ users' \in [Addresses -> User \cup {NoUser}]
          /\ starts' \in 0 .. MaxStarts
          /\ to.seed \in 1 .. Len(seeds) /\ to.loaded # NoUser /\ seeds[to.seed].update
      BY <1>2, <1>3 DEF InstanceTyped, RequestsTyped, Seed
    <2> QED BY <1>1, <1>3, <2>1, InstanceStepTyped
  <1>5. inst'[i] = to /\ \A j \in Instances \ {i} : inst'[j] = inst[j]
    BY <1>1, TypeParts
  <1> QED BY <1>3, <1>4, <1>5

LEMMA SeedAtHand ==
  ASSUME TypeInv, NEW i \in Instances
  PROVE  /\ inst[i].seed \in 1 .. Len(seeds) /\ Len(seeds) \in Nat /\ DOMAIN seeds = 1 .. Len(seeds)
         /\ SeedAddress(Seed(i)) \in Addresses /\ Seed(i).role \in Roles
         /\ users[SeedAddress(Seed(i))] \in User \cup {NoUser}
  BY TypeParts, SeedTypes DEF InstanceTyped, RequestsTyped, Seed, SeedAddress

\* What the two writes of a seeding make of its account.
LEMMA Written ==
  ASSUME TypeInv, NEW i \in Instances,
         \/ UpdateExisting(i)
         \/ InsertSeed(i) /\ ~Taken(SeedAddress(Seed(i)))
  PROVE  LET a == SeedAddress(Seed(i)) IN
         /\ Advance(i, FALSE) /\ UNCHANGED <<seeds, migrated, starts, requests>>
         /\ users' \in [Addresses -> User \cup {NoUser}]
         /\ \A b \in Addresses \ {a} : users'[b] = users[b]
         /\ users'[a] \in User /\ users'[a].password = Operator
         /\ \/ users'[a].role = Seed(i).role
            \/ /\ inst[i].stage = "update" /\ inst[i].loaded.role = Seed(i).role
               /\ users'[a].role = users[a].role
         /\ \/ inst[i].stage = "insert" /\ users[a] = NoUser
            \/ inst[i].stage = "update" /\ Seed(i).update
         /\ inst[i].stage = "update" => users'[a].active = (users[a].active \/ ~inst[i].loaded.active)
  <1> DEFINE a == SeedAddress(Seed(i))
  <1>1. /\ a \in Addresses /\ Seed(i).role \in Roles /\ users[a] \in User \cup {NoUser}
        /\ users \in [Addresses -> User \cup {NoUser}] /\ InstanceTyped(i)
    BY SeedAtHand, TypeParts DEF RequestsTyped
  <1>2. CASE UpdateExisting(i)
    <2> DEFINE row == [users[a] EXCEPT
                        !.password = Operator,
                        !.role     = IF inst[i].loaded.role = Seed(i).role THEN users[a].role
                                     ELSE Seed(i).role,
                        !.active   = users[a].active \/ ~inst[i].loaded.active]
    <2>1. users' = [users EXCEPT ![a] = row]
      BY <1>1, <1>2 DEF UpdateExisting, NoUser, User
    <2>2. /\ row.password = Operator /\ row.active = (users[a].active \/ ~inst[i].loaded.active)
          /\ row.role = IF inst[i].loaded.role = Seed(i).role THEN users[a].role ELSE Seed(i).role
          /\ row \in User
      <3>1. NoUser \in [role : Roles, active : BOOLEAN, password : Clients \cup {Operator, "none"}]
        BY DEF NoUser, Roles
      <3>2. ASSUME users[a] \in User
            PROVE  users[a] \in [role : Roles, active : BOOLEAN, password : Clients \cup {Operator, "none"}]
        BY <3>2 DEF User
      <3>3. users[a] \in [role : Roles, active : BOOLEAN, password : Clients \cup {Operator, "none"}]
        BY <1>1, <3>1, <3>2
      <3> QED BY <1>1, <3>3 DEF User
    <2> HIDE DEF row
    <2>3. users'[a] = row /\ \A b \in Addresses \ {a} : users'[b] = users[b]
      BY <1>1, <2>1
    <2>4. users' \in [Addresses -> User \cup {NoUser}]
      BY <1>1, <2>1, <2>2
    <2> QED BY <1>1, <1>2, <2>2, <2>3, <2>4 DEF UpdateExisting, InstanceTyped
  <1>3. CASE InsertSeed(i) /\ ~Taken(a)
    <2>1. NewUser(Seed(i).role, Operator) \in User /\ users' = [users EXCEPT ![a] = NewUser(Seed(i).role, Operator)]
      BY <1>1, <1>3 DEF InsertSeed, NewUser, User
    <2>2. /\ NewUser(Seed(i).role, Operator).password = Operator
          /\ NewUser(Seed(i).role, Operator).role = Seed(i).role
      BY DEF NewUser
    <2>3. /\ users'[a] = NewUser(Seed(i).role, Operator)
          /\ \A b \in Addresses \ {a} : users'[b] = users[b]
          /\ users' \in [Addresses -> User \cup {NoUser}]
      BY <1>1, <2>1
    <2>4. /\ inst[i].stage = "insert" /\ users[a] = NoUser
          /\ Advance(i, FALSE) /\ UNCHANGED <<seeds, migrated, starts, requests>>
      BY <1>3 DEF InsertSeed, Taken
    <2>5. users'[a] \in User /\ users'[a].password = Operator /\ users'[a].role = Seed(i).role
      BY <2>1, <2>2, <2>3
    <2>6. inst[i].stage # "update"
      BY <2>4
    <2> QED BY <2>3, <2>4, <2>5, <2>6
  <1> QED BY <1>2, <1>3

LEMMA OperatorTyped ==
  ASSUME TypeInv, Migrate \/ \E a \in Addresses : Deactivate(a)
  PROVE  TypeInv'
  <1>1. CASE Migrate
    BY <1>1, TypeParts, RequestStepTyped DEF Migrate, RequestsTyped, requests
  <1>2. ASSUME NEW a \in Addresses, Deactivate(a) PROVE TypeInv'
    <2>1. users[a] \in User /\ users \in [Addresses -> User \cup {NoUser}]
      BY <1>2, TypeParts DEF RequestsTyped, Deactivate, NoUser
    <2>2. users' \in [Addresses -> User \cup {NoUser}]
      BY <1>2, <2>1 DEF Deactivate, User
    <2> QED BY <1>2, <2>2, TypeParts, RequestStepTyped DEF Deactivate, RequestsTyped, requests
  <1> QED BY <1>1, <1>2

LEMMA TypeStep ==
  ASSUME TypeInv, [Next]_vars
  PROVE  TypeInv'
  <1>1. users \in [Addresses -> User \cup {NoUser}]
    BY TypeParts DEF RequestsTyped
  <1>2. ASSUME NEW r \in Slots, Begin(r) \/ Serve(r) \/ Fail(r) PROVE TypeInv'
    BY <1>2, RequestTyped
  <1>3. ASSUME NEW i \in Instances, Start(i) PROVE TypeInv'
    BY <1>3, StartStep
  <1>4. ASSUME NEW i \in Instances, LookForTable(i) PROVE TypeInv'
    <2>1. CASE Goto(i, "select")
      BY <1>4, <2>1, GotoStep DEF LookForTable
    <2>2. CASE Advance(i, TRUE)
      BY <1>1, <1>4, <2>2, AdvanceStep DEF LookForTable, Starting
    <2> QED BY <1>4, <2>1, <2>2 DEF LookForTable
  <1>5. ASSUME NEW i \in Instances, SelectExisting(i) PROVE TypeInv'
    <2> DEFINE found == users[SeedAddress(Seed(i))]
    <2>1. CASE Goto(i, "insert")
      BY <1>5, <2>1, GotoStep DEF SelectExisting
    <2>2. CASE Advance(i, FALSE)
      BY <1>1, <1>5, <2>2, AdvanceStep DEF SelectExisting, Starting
    <2>3. CASE /\ found # NoUser /\ Seed(i).update
               /\ inst' = [inst EXCEPT ![i].stage = "update", ![i].loaded = found]
      <3>1. found \in User
        BY <2>3, SeedAtHand
      <3> HIDE DEF found
      <3> QED BY <1>5, <2>3, <3>1, LoadStep DEF SelectExisting
    <2> QED BY <1>5, <2>1, <2>2, <2>3 DEF SelectExisting
  <1>6. ASSUME NEW i \in Instances,
               \/ UpdateExisting(i)
               \/ InsertSeed(i) /\ ~Taken(SeedAddress(Seed(i)))
        PROVE  TypeInv'
    <2>1. inst[i].stage \in Starting
      BY <1>6 DEF UpdateExisting, InsertSeed, Starting
    <2> QED BY <1>6, <2>1, Written, AdvanceStep
  <1>7. ASSUME NEW i \in Instances, InsertSeed(i), Taken(SeedAddress(Seed(i))) PROVE TypeInv'
    BY <1>7, GotoStep DEF InsertSeed
  <1>8. ASSUME NEW i \in Instances, FailStart(i) \/ Stop(i) PROVE TypeInv'
    BY <1>8, GotoStep DEF FailStart, Stop
  <1>9. CASE UNCHANGED vars
    BY <1>9, TypeParts, RequestStepTyped DEF vars, requests, RequestsTyped
  <1> QED BY <1>2, <1>3, <1>4, <1>5, <1>6, <1>7, <1>8, <1>9, OperatorTyped DEF Next, SeedStep

--------------------------------------------------------------------------------
\* Accounts and who made them.

Taker(k) == Lower[seeds[k].email]

\* a belongs to who registered it, or to the operator who seeds it with updates.
HeldBy(a, c) ==
  \/ users[a].password = c
  \/ /\ users[a].password = Operator
     /\ \E k \in DOMAIN seeds : seeds[k].update /\ Taker(k) = a

Registered ==
  /\ \A r \in Slots : pc[r] = "inserted" => HeldBy(req[r].email, req[r].client)
  /\ \A g \in granted : HeldBy(g[1], g[2])

--------------------------------------------------------------------------------
\* Seeds.  SeedsHold is far from inductive: a start that passes over the columns it
\* finds right may be followed by the write of another, still at an earlier seed of the
\* same address.  That one is bound to come to the last seed itself, and to find the
\* role wrong, or to end half-way.

\* The start of i has left seed k behind.
Past(i, k) ==
  /\ ~inst[i].skipped
  /\ inst[i].stage = "up" \/ (inst[i].stage \in Starting /\ inst[i].seed > k)

AtUpdate(i, k) == inst[i].stage = "update" /\ inst[i].seed = k

\* i has found, or will have left, the role as seed k has it.
Right(i, k) == Past(i, k) \/ (AtUpdate(i, k) /\ inst[i].loaded.role = seeds[k].role)

\* i has not ended well, or is yet to write the role of seed k where it is wrong.
Unsettled(i, k) ==
  \/ inst[i].skipped \/ inst[i].stage = "failed"
  \/ inst[i].stage \in Starting /\ inst[i].seed < k
  \/ inst[i].stage \in {"look", "select", "insert"} /\ inst[i].seed = k
  \/ AtUpdate(i, k) /\ inst[i].loaded.role # seeds[k].role

Seeded(i) ==
  /\ \A k \in DOMAIN seeds : Past(i, k) => users[Taker(k)] # NoUser
  /\ \A k \in DOMAIN seeds : Past(i, k) /\ seeds[k].update => users[Taker(k)].password = Operator
  /\ inst[i].stage = "update" => users[SeedAddress(Seed(i))] # NoUser

RoleSettles ==
  \A k \in DOMAIN seeds :
    /\ seeds[k].update /\ LastOfItsAddress(k) /\ users[Taker(k)].role # seeds[k].role
    /\ \E i \in Instances : Right(i, k)
    => \E j \in Instances : Unsettled(j, k)

IInv == TypeInv /\ Registered /\ (\A i \in Instances : Seeded(i)) /\ RoleSettles

LEMMA InvInit == Init => IInv
  <1> SUFFICES ASSUME Init PROVE IInv
    OBVIOUS
  <1>1. \A i \in Instances : inst[i].stage = "off"
    BY DEF Init
  <1>2. Registered
    BY DEF Init, Registered
  <1>3. \A i \in Instances : Seeded(i)
    BY <1>1 DEF Seeded, Past, Starting
  <1>4. RoleSettles
    BY <1>1 DEF RoleSettles, Right, Past, AtUpdate, Starting
  <1> QED BY <1>2, <1>3, <1>4, TypeInit DEF IInv

\* An account that is there keeps its role and its password.
AccountsKept ==
  \A b \in Addresses :
    users[b] # NoUser => /\ users'[b] # NoUser
                         /\ users'[b].role = users[b].role
                         /\ users'[b].password = users[b].password

LEMMA HeldIsTaken ==
  ASSUME NEW a, NEW c \in Clients, HeldBy(a, c)
  PROVE  users[a] # NoUser
  BY ParametersAssumption DEF HeldBy, NoUser

LEMMA HeldStays ==
  ASSUME NEW a \in Addresses, NEW c \in Clients, HeldBy(a, c), AccountsKept, seeds' = seeds
  PROVE  HeldBy(a, c)'
  <1>1. users'[a].password = users[a].password
    BY HeldIsTaken DEF AccountsKept
  <1> QED BY <1>1 DEF HeldBy, Taker

\* Whatever leaves the instances and the accounts alone, leaves the seeds as they hold.
LEMMA SeedsStay ==
  ASSUME TypeInv, \A i \in Instances : Seeded(i), RoleSettles,
         UNCHANGED <<seeds, inst>>, AccountsKept
  PROVE  (\A i \in Instances : Seeded(i)') /\ RoleSettles'
  <1>1. /\ DOMAIN seeds = 1 .. Len(seeds)
        /\ \A k \in DOMAIN seeds : Taker(k) \in Addresses
        /\ \A i \in Instances : SeedAddress(Seed(i)) \in Addresses /\ inst[i].seed \in DOMAIN seeds
    BY SeedTypes, SeedAtHand, TypeParts DEF Taker
  <1>2. ASSUME NEW i \in Instances PROVE Seeded(i)'
    BY <1>1 DEF Seeded, Past, Taker, AccountsKept, Seed, SeedAddress
  <1>3. ASSUME NEW k \in DOMAIN seeds, seeds[k].update, LastOfItsAddress(k),
               users'[Taker(k)].role # seeds[k].role,
               NEW i \in Instances, Right(i, k)
        PROVE  \E j \in Instances : Unsettled(j, k)
    <2>1. users[Taker(k)] # NoUser
      BY <1>3 DEF Right, AtUpdate, Seeded, Seed, SeedAddress, Taker
    <2>2. users[Taker(k)].role # seeds[k].role
      BY <1>1, <1>3, <2>1 DEF AccountsKept
    <2> QED BY <1>3, <2>2 DEF RoleSettles
  <1>4. RoleSettles'
    <2> SUFFICES ASSUME NEW k \in DOMAIN seeds, seeds[k].update, LastOfItsAddress(k)',
                        users'[Taker(k)'].role # seeds[k].role,
                        NEW i \in Instances, Right(i, k)'
                 PROVE  \E j \in Instances : Unsettled(j, k)'
      BY DEF RoleSettles
    <2>1. /\ Taker(k)' = Taker(k) /\ LastOfItsAddress(k) /\ Right(i, k)
          /\ \A j \in Instances : Unsettled(j, k)' = Unsettled(j, k)
      BY DEF Taker, LastOfItsAddress, SeedAddress, Right, Past, AtUpdate, Unsettled
    <2> QED BY <1>3, <2>1
  <1> QED BY <1>2, <1>4

LEMMA RequestKeeps ==
  ASSUME IInv, NEW r \in Slots, Begin(r) \/ Serve(r) \/ Fail(r)
  PROVE  Registered' /\ (\A i \in Instances : Seeded(i)') /\ RoleSettles'
  <1>1. /\ TypeInv /\ RequestsTyped /\ Registered /\ UNCHANGED <<seeds, inst>>
        /\ \A i \in Instances : Seeded(i)
        /\ RoleSettles
    BY TypeParts DEF IInv, Begin, Serve, CheckFree, InsertUser, RefreshUser, AuthenticateUser, Fail
  <1>2. AccountsKept
    <2>1. CASE InsertUser(r) /\ ~Taken(req[r].email)
      BY <1>1, <2>1 DEF InsertUser, Taken, AccountsKept, Handles, RequestsTyped
    <2>2. CASE UNCHANGED users
      BY <2>2 DEF AccountsKept
    <2> QED BY <2>1, <2>2 DEF Begin, Serve, CheckFree, InsertUser, RefreshUser, AuthenticateUser, Fail
  <1>3. ASSUME NEW a \in Addresses, NEW c \in Clients, HeldBy(a, c) PROVE HeldBy(a, c)'
    BY <1>1, <1>2, <1>3, HeldStays
  <1>4. ASSUME NEW q \in Slots, pc'[q] = "inserted" PROVE HeldBy(req[q].email, req[q].client)' /\ req'[q] = req[q]
    <2>1. CASE InsertUser(r) /\ q = r /\ pc[q] # "inserted"
      <3>1. /\ req[r].email \in Addresses /\ req'[r] = req[r]
            /\ users'[req[r].email].password = req[r].client
        BY <1>1, <1>4, <2>1 DEF InsertUser, Respond, Handles, NewUser, RequestsTyped, Requests
      <3> QED BY <2>1, <3>1 DEF HeldBy
    <2>2. CASE pc[q] = "inserted" /\ req'[q] = req[q]
      <3>1. req[q].email \in Addresses /\ req[q].client \in Clients
        BY <1>1, <2>2 DEF RequestsTyped, Requests
      <3>2. HeldBy(req[q].email, req[q].client)
        BY <1>1, <2>2 DEF Registered
      <3> QED BY <1>3, <2>2, <3>1, <3>2
    <2>3. \/ InsertUser(r) /\ q = r /\ pc[q] # "inserted"
          \/ pc[q] = "inserted" /\ req'[q] = req[q]
      BY <1>1, <1>4 DEF Begin, Serve, CheckFree, InsertUser, RefreshUser, AuthenticateUser, Fail,
                        Respond, Handles, RequestsTyped
    <2> QED BY <2>1, <2>2, <2>3
  <1>5. ASSUME NEW g \in granted' PROVE HeldBy(g[1], g[2])'
    <2>1. HeldBy(g[1], g[2]) /\ g[1] \in Addresses /\ g[2] \in Clients
      <3>1. CASE RefreshUser(r) /\ g = <<req[r].email, req[r].client>>
        BY <1>1, <3>1 DEF RefreshUser, Handles, Registered, RequestsTyped, Requests
      <3>2. CASE g \in granted
        BY <1>1, <3>2 DEF Registered, RequestsTyped
      <3> QED BY <3>1, <3>2 DEF Begin, Serve, CheckFree, InsertUser, RefreshUser, AuthenticateUser, Fail
    <2> QED BY <1>3, <2>1
  <1>6. Registered'
    BY <1>4, <1>5 DEF Registered
  <1> QED BY <1>1, <1>2, <1>6, SeedsStay

LEMMA OperatorKeeps ==
  ASSUME IInv, Migrate \/ (\E a \in Addresses : Deactivate(a)) \/ UNCHANGED vars
  PROVE  Registered' /\ (\A i \in Instances : Seeded(i)') /\ RoleSettles'
  <1>1. /\ TypeInv /\ RequestsTyped /\ Registered /\ RoleSettles
        /\ \A i \in Instances : Seeded(i)
        /\ UNCHANGED <<seeds, inst, pc, req, granted>>
    BY TypeParts DEF IInv, Migrate, Deactivate, vars, requests
  <1>2. AccountsKept
    <2>1. ASSUME NEW a \in Addresses, Deactivate(a) PROVE AccountsKept
      <3>1. users[a] \in User /\ users' = [users EXCEPT ![a] = [users[a] EXCEPT !.active = FALSE]]
        BY <1>1, <2>1 DEF RequestsTyped, Deactivate, NoUser
      <3>2. /\ users'[a].role = users[a].role /\ users'[a].password = users[a].password
            /\ users[a].password # "none"
            /\ \A b \in Addresses \ {a} : users'[b] = users[b]
        BY <1>1, <3>1, ParametersAssumption DEF RequestsTyped, User
      <3>3. users'[a] # NoUser
        BY <3>2 DEF NoUser
      <3> QED BY <3>2, <3>3 DEF AccountsKept
    <2>2. CASE UNCHANGED users
      BY <2>2 DEF AccountsKept
    <2> QED BY <2>1, <2>2 DEF Migrate, vars
  <1>3. ASSUME NEW a \in Addresses, NEW c \in Clients, HeldBy(a, c) PROVE HeldBy(a, c)'
    BY <1>1, <1>2, <1>3, HeldStays
  <1>4. Registered'
    <2>1. ASSUME NEW q \in Slots, pc'[q] = "inserted" PROVE HeldBy(req[q].email, req[q].client)'
      BY <1>1, <1>3, <2>1 DEF Registered, RequestsTyped, Requests
    <2>2. ASSUME NEW g \in granted' PROVE HeldBy(g[1], g[2])'
      BY <1>1, <1>3, <2>2 DEF Registered, RequestsTyped
    <2> QED BY <1>1, <2>1, <2>2 DEF Registered
  <1> QED BY <1>1, <1>2, <1>4, SeedsStay

\* What a step of instance i that writes no account may change about the seeds.
MovesOn(i) ==
  /\ \A k \in DOMAIN seeds :
       Past(i, k)' => Past(i, k) \/ (users[Taker(k)] # NoUser /\ ~seeds[k].update)
  /\ inst'[i].stage = "update" => users[SeedAddress(seeds[inst'[i].seed])] # NoUser
  /\ \A k \in DOMAIN seeds :
       seeds[k].update /\ users[Taker(k)].role # seeds[k].role =>
         \/ Unsettled(i, k)'
         \/ ~Unsettled(i, k) /\ (Right(i, k)' => Right(i, k))

LEMMA MoveKeeps ==
  ASSUME IInv, NEW i \in Instances, MovesOn(i),
         UNCHANGED <<seeds, users, requests>>, \A j \in Instances \ {i} : inst'[j] = inst[j]
  PROVE  Registered' /\ (\A j \in Instances : Seeded(j)') /\ RoleSettles'
  <1>1. Registered'
    BY DEF IInv, Registered, HeldBy, Taker, requests
  <1>2. ASSUME NEW j \in Instances PROVE Seeded(j)'
    <2>1. CASE j = i
      BY <2>1 DEF IInv, MovesOn, Seeded, Taker, Seed, SeedAddress
    <2>2. CASE j # i
      BY <2>2 DEF IInv, Seeded, Past, Taker, Seed, SeedAddress
    <2> QED BY <2>1, <2>2
  <1>3. RoleSettles'
    <2> SUFFICES ASSUME NEW k \in DOMAIN seeds, seeds[k].update, LastOfItsAddress(k)',
                        users'[Taker(k)'].role # seeds[k].role,
                        NEW j \in Instances, Right(j, k)'
                 PROVE  \E m \in Instances : Unsettled(m, k)'
      BY DEF RoleSettles
    <2>1. LastOfItsAddress(k) /\ users[Taker(k)].role # seeds[k].role
      BY DEF Taker, LastOfItsAddress, SeedAddress
    <2>2. \A m \in Instances \ {i} : (Right(m, k)' = Right(m, k)) /\ (Unsettled(m, k)' = Unsettled(m, k))
      BY DEF Right, Past, AtUpdate, Unsettled
    <2>3. Unsettled(i, k)' \/ (~Unsettled(i, k) /\ (Right(i, k)' => Right(i, k)))
      BY <2>1 DEF MovesOn
    <2>4. CASE ~Unsettled(i, k) /\ (Right(i, k)' => Right(i, k))
      <3>1. Right(j, k)
        BY <2>2, <2>4
      <3>2. PICK m \in Instances : Unsettled(m, k)
        BY <2>1, <3>1 DEF IInv, RoleSettles
      <3> QED BY <2>2, <2>4, <3>2
    <2> QED BY <2>3, <2>4
  <1> QED BY <1>1, <1>2, <1>3

LEMMA InstanceMoves ==
  ASSUME IInv, NEW i \in Instances,
         \/ Start(i) \/ LookForTable(i) \/ SelectExisting(i) \/ FailStart(i) \/ Stop(i)
         \/ InsertSeed(i) /\ Taken(SeedAddress(Seed(i)))
  PROVE  /\ MovesOn(i) /\ UNCHANGED <<seeds, users, requests>>
         /\ \A j \in Instances \ {i} : inst'[j] = inst[j]
  <1>1. /\ TypeInv /\ RequestsTyped /\ InstanceTyped(i) /\ Seeded(i)
        /\ UNCHANGED <<seeds, users, requests>>
        /\ Len(seeds) \in Nat /\ DOMAIN seeds = 1 .. Len(seeds)
    BY TypeParts, SeedTypes DEF IInv, Start, LookForTable, SelectExisting, FailStart, Stop, InsertSeed
  <1>2. CASE Start(i)
    <2>1. /\ inst'[i].stage = "look" /\ inst'[i].seed = 1 /\ ~inst'[i].skipped
          /\ \A j \in Instances \ {i} : inst'[j] = inst[j]
      BY <1>1, <1>2, StartStep
    <2> QED BY <1>1, <2>1 DEF MovesOn, Past, Unsettled, Starting
  <1>3. ASSUME Goto(i, "failed"), inst[i].stage \in Starting, UNCHANGED <<migrated, starts>>
        PROVE  MovesOn(i) /\ \A j \in Instances \ {i} : inst'[j] = inst[j]
    <2>1. /\ inst'[i].stage = "failed" /\ \A j \in Instances \ {i} : inst'[j] = inst[j]
      BY <1>1, <1>3, GotoStep
    <2> QED BY <1>1, <2>1 DEF MovesOn, Past, Unsettled, Starting
  <1>4. CASE LookForTable(i)
    <2>1. CASE Goto(i, "select")
      <3>1. /\ inst'[i].stage = "select" /\ inst'[i].seed = inst[i].seed
            /\ inst'[i].skipped = inst[i].skipped
            /\ \A j \in Instances \ {i} : inst'[j] = inst[j]
        BY <1>1, <1>4, <2>1, GotoStep DEF LookForTable
      <3> QED BY <1>1, <1>4, <3>1
              DEF LookForTable, MovesOn, Past, Unsettled, Right, AtUpdate, InstanceTyped, Starting
    <2>2. CASE Advance(i, TRUE)
      <3>1. inst'[i].skipped /\ \A j \in Instances \ {i} : inst'[j] = inst[j]
        BY <1>1, <1>4, <2>2, AdvanceStep DEF LookForTable, Starting, RequestsTyped
      <3>2. inst'[i].stage # "update"
        BY <1>1, <1>4, <2>2, AdvanceStep DEF LookForTable, Starting, RequestsTyped
      <3> QED BY <1>1, <3>1, <3>2 DEF MovesOn, Past, Unsettled
    <2> QED BY <1>4, <2>1, <2>2 DEF LookForTable
  <1>5. CASE SelectExisting(i)
    <2> DEFINE found == users[SeedAddress(Seed(i))]
    <2>1. CASE Goto(i, "insert")
      <3>1. /\ inst'[i].stage = "insert" /\ inst'[i].seed = inst[i].seed
            /\ inst'[i].skipped = inst[i].skipped
            /\ \A j \in Instances \ {i} : inst'[j] = inst[j]
        BY <1>1, <1>5, <2>1, GotoStep DEF SelectExisting
      <3> QED BY <1>1, <1>5, <3>1
              DEF SelectExisting, MovesOn, Past, Unsettled, Right, AtUpdate, InstanceTyped, Starting
    <2>2. CASE found # NoUser /\ ~Seed(i).update /\ Advance(i, FALSE)
      <3>1. /\ inst'[i].skipped = inst[i].skipped
            /\ \A j \in Instances \ {i} : inst'[j] = inst[j]
            /\ \/ inst[i].seed = Len(seeds) /\ inst'[i].stage = "up"
               \/ /\ inst[i].seed < Len(seeds) /\ inst'[i].stage = "look"
                  /\ inst'[i].seed = inst[i].seed + 1
        BY <1>1, <1>5, <2>2, AdvanceStep DEF SelectExisting, Starting, RequestsTyped, InstanceTyped
      <3>2. inst[i].stage = "select" /\ inst[i].seed \in 1 .. Len(seeds)
        BY <1>1, <1>5 DEF SelectExisting, InstanceTyped
      <3>3. ASSUME NEW k \in DOMAIN seeds, Past(i, k)'
            PROVE  Past(i, k) \/ (users[Taker(k)] # NoUser /\ ~seeds[k].update)
        <4>1. k <= inst[i].seed /\ ~inst[i].skipped
          BY <1>1, <3>1, <3>2, <3>3 DEF Past, Starting
        <4>2. CASE k = inst[i].seed
          BY <2>2, <4>2 DEF Taker, Seed, SeedAddress
        <4> QED BY <1>1, <3>2, <4>1, <4>2 DEF Past, Starting
      <3>4. ASSUME NEW k \in DOMAIN seeds, seeds[k].update
            PROVE  Unsettled(i, k)' \/ (~Unsettled(i, k) /\ (Right(i, k)' => Right(i, k)))
        <4>1. CASE inst[i].seed < k \/ inst[i].skipped
          BY <1>1, <3>1, <3>2, <4>1 DEF Unsettled, Starting
        <4>2. CASE inst[i].seed > k /\ ~inst[i].skipped
          BY <1>1, <3>1, <3>2, <4>2 DEF Unsettled, Right, Past, AtUpdate, Starting
        <4>3. inst[i].seed # k
          BY <2>2, <3>4 DEF Seed
        <4> QED BY <1>1, <3>2, <4>1, <4>2, <4>3
      <3>5. inst'[i].stage # "update"
        BY <3>1
      <3> QED BY <1>1, <3>1, <3>3, <3>4, <3>5 DEF MovesOn
    <2>3. CASE /\ found # NoUser /\ Seed(i).update
               /\ inst' = [inst EXCEPT ![i].stage = "update", ![i].loaded = found]
      <3>1. found \in User /\ inst[i].stage = "select" /\ inst[i].seed \in 1 .. Len(seeds)
        BY <1>1, <1>5, <2>3, SeedAtHand DEF SelectExisting
      <3>2. found # NoUser /\ found = users[SeedAddress(Seed(i))]
        BY <2>3
      <3> HIDE DEF found
      <3>3. /\ inst'[i].stage = "update" /\ inst'[i].seed = inst[i].seed
            /\ inst'[i].loaded = found /\ inst'[i].skipped = inst[i].skipped
            /\ \A j \in Instances \ {i} : inst'[j] = inst[j]
        BY <1>1, <1>5, <2>3, <3>1, LoadStep DEF SelectExisting
      <3>4. \A k \in DOMAIN seeds : Past(i, k)' => Past(i, k)
        BY <1>1, <3>1, <3>3 DEF Past, Starting
      <3>5. users[SeedAddress(seeds[inst'[i].seed])] # NoUser
        BY <3>2, <3>3 DEF Seed
      <3>6. ASSUME NEW k \in DOMAIN seeds, users[Taker(k)].role # seeds[k].role
            PROVE  Unsettled(i, k)' \/ (~Unsettled(i, k) /\ (Right(i, k)' => Right(i, k)))
        <4>1. CASE inst[i].seed = k
          <5>1. found.role # seeds[k].role
            BY <3>2, <3>6, <4>1 DEF Seed, SeedAddress, Taker
          <5> QED BY <1>1, <3>3, <4>1, <5>1 DEF Unsettled, AtUpdate
        <4>2. CASE inst[i].seed # k
          BY <1>1, <3>1, <3>3, <4>2 DEF Unsettled, Right, Past, AtUpdate, Starting
        <4> QED BY <4>1, <4>2
      <3> QED BY <1>1, <3>3, <3>4, <3>5, <3>6 DEF MovesOn
    <2> QED BY <1>5, <2>1, <2>2, <2>3 DEF SelectExisting
  <1>6. CASE FailStart(i)
    BY <1>3, <1>6 DEF FailStart
  <1>7. CASE InsertSeed(i) /\ Taken(SeedAddress(Seed(i)))
    BY <1>3, <1>7 DEF InsertSeed, Starting
  <1>8. CASE Stop(i)
    <2>1. /\ inst'[i].stage = "off" /\ inst'[i].skipped = inst[i].skipped
          /\ \A j \in Instances \ {i} : inst'[j] = inst[j]
      BY <1>1, <1>8, GotoStep DEF Stop
    <2> QED BY <1>1, <1>8, <2>1 DEF Stop, MovesOn, Past, Unsettled, Right, AtUpdate, Starting
  <1> QED BY <1>1, <1>2, <1>4, <1>5, <1>6, <1>7, <1>8

LEMMA WriteKeeps ==
  ASSUME IInv, NEW i \in Instances,
         \/ UpdateExisting(i)
         \/ InsertSeed(i) /\ ~Taken(SeedAddress(Seed(i)))
  PROVE  Registered' /\ (\A j \in Instances : Seeded(j)') /\ RoleSettles'
  <1> DEFINE n == inst[i].seed
             a == SeedAddress(Seed(i))
  <1>1. /\ TypeInv /\ RequestsTyped /\ InstanceTyped(i) /\ Registered /\ RoleSettles
        /\ \A j \in Instances : Seeded(j)
        /\ n \in 1 .. Len(seeds) /\ Len(seeds) \in Nat /\ DOMAIN seeds = 1 .. Len(seeds)
        /\ a = Taker(n) /\ Seed(i) = seeds[n]
    BY TypeParts, SeedAtHand DEF IInv, Taker, SeedAddress, Seed
  <1>2. /\ inst[i].stage \in {"insert", "update"} /\ Advance(i, FALSE)
        /\ UNCHANGED <<seeds, migrated, starts, requests>>
        /\ users' \in [Addresses -> User \cup {NoUser}]
        /\ \A b \in Addresses \ {a} : users'[b] = users[b]
        /\ users'[a] \in User /\ users'[a].password = Operator
    BY <1>1, Written
  <1>3. /\ \/ users'[a].role = seeds[n].role
           \/ /\ inst[i].stage = "update" /\ inst[i].loaded.role = seeds[n].role
              /\ users'[a].role = users[a].role
        /\ \/ inst[i].stage = "insert" /\ users[a] = NoUser
           \/ inst[i].stage = "update" /\ seeds[n].update
    BY <1>1, Written
  <1>4. /\ \A j \in Instances \ {i} : inst'[j] = inst[j]
        /\ inst'[i].skipped = inst[i].skipped
        /\ \/ n = Len(seeds) /\ inst'[i].stage = "up"
           \/ n < Len(seeds) /\ inst'[i].stage = "look" /\ inst'[i].seed = n + 1
    BY <1>1, <1>2, AdvanceStep DEF Starting, InstanceTyped
  <1>5. /\ users'[a] # NoUser
        /\ \A b \in Addresses : users[b] # NoUser => users'[b] # NoUser
        /\ \A b \in Addresses : users[b].password = Operator => users'[b].password = Operator
    <2>1. users'[a] # NoUser
      BY <1>2, ParametersAssumption DEF NoUser
    <2> QED BY <1>2, <2>1
  <1>6. /\ \A k \in DOMAIN seeds : Taker(k) \in Addresses /\ Taker(k)' = Taker(k)
        /\ \A j \in Instances : SeedAddress(Seed(j)) \in Addresses
    BY <1>1, <1>2, SeedTypes, SeedAtHand, TypeParts DEF Taker
  <1> HIDE DEF n, a
  <1>7. ASSUME NEW b \in Addresses, NEW c \in Clients, HeldBy(b, c) PROVE HeldBy(b, c)'
    <2>1. users[b] # NoUser
      BY <1>7, HeldIsTaken
    <2>2. CASE b = a
      BY <1>1, <1>2, <1>3, <1>6, <2>1, <2>2 DEF HeldBy
    <2>3. CASE b # a
      BY <1>2, <1>6, <1>7, <2>3 DEF HeldBy
    <2> QED BY <2>2, <2>3
  <1>8. Registered'
    <2>1. UNCHANGED <<pc, req, granted>>
      BY <1>2 DEF requests
    <2>2. ASSUME NEW q \in Slots, pc'[q] = "inserted" PROVE HeldBy(req[q].email, req[q].client)'
      BY <1>1, <1>7, <2>1, <2>2 DEF Registered, RequestsTyped, Requests
    <2>3. ASSUME NEW g \in granted' PROVE HeldBy(g[1], g[2])'
      BY <1>1, <1>7, <2>1, <2>3 DEF Registered, RequestsTyped
    <2> QED BY <2>1, <2>2, <2>3 DEF Registered
  <1>9. ASSUME NEW j \in Instances PROVE Seeded(j)'
    <2>1. CASE j # i
      <3>1. inst'[j] = inst[j]
        BY <1>4, <2>1
      <3>2. /\ \A k \in DOMAIN seeds : Past(j, k)' = Past(j, k)
            /\ SeedAddress(Seed(j))' = SeedAddress(Seed(j))
        BY <1>2, <3>1 DEF Past, SeedAddress, Seed
      <3> QED BY <1>1, <1>2, <1>5, <1>6, <3>1, <3>2 DEF Seeded
    <2>2. CASE j = i
      <3>1. ASSUME NEW k \in DOMAIN seeds, Past(i, k)'
            PROVE  k = n \/ Past(i, k)
        BY <1>1, <1>2, <1>4, <3>1 DEF Past, Starting, n
      <3>2. inst'[i].stage # "update"
        BY <1>4
      <3>3. ASSUME NEW k \in DOMAIN seeds, Past(i, k)'
            PROVE  users'[Taker(k)] # NoUser /\ (seeds[k].update => users'[Taker(k)].password = Operator)
        BY <1>1, <1>2, <1>5, <1>6, <3>1, <3>3 DEF Seeded
      <3> QED BY <1>2, <1>6, <2>2, <3>2, <3>3 DEF Seeded
    <2> QED BY <2>1, <2>2
  <1>10. RoleSettles'
    <2> SUFFICES ASSUME NEW k \in DOMAIN seeds, seeds[k].update, LastOfItsAddress(k)',
                        users'[Taker(k)'].role # seeds[k].role,
                        NEW j \in Instances, Right(j, k)'
                 PROVE  \E m \in Instances : Unsettled(m, k)'
      BY <1>2 DEF RoleSettles
    <2>1. LastOfItsAddress(k) /\ users'[Taker(k)].role # seeds[k].role
      BY <1>2, <1>6 DEF LastOfItsAddress, SeedAddress
    <2>2. \A m \in Instances \ {i} : (Right(m, k)' = Right(m, k)) /\ (Unsettled(m, k)' = Unsettled(m, k))
      BY <1>2, <1>4 DEF Right, Past, AtUpdate, Unsettled
    <2>3. CASE inst[i].skipped \/ n < k
      <3>1. Unsettled(i, k)'
        <4>1. CASE inst[i].skipped
          BY <1>4, <4>1 DEF Unsettled
        <4>2. CASE n < k
          <5>1. inst'[i].stage = "look" /\ inst'[i].seed \in Nat /\ inst'[i].seed <= k
            BY <1>1, <1>4, <4>2
          <5> QED BY <1>1, <5>1 DEF Unsettled, Starting
        <4> QED BY <2>3, <4>1, <4>2
      <3> QED BY <3>1
    <2>4. CASE ~inst[i].skipped /\ n = k
      <3>1. /\ inst[i].stage = "update" /\ inst[i].loaded.role = seeds[k].role
            /\ users[Taker(k)].role # seeds[k].role
        BY <1>1, <1>3, <2>1, <2>4
      <3>2. Right(i, k) /\ ~Unsettled(i, k)
        BY <1>1, <2>4, <3>1 DEF Right, AtUpdate, Unsettled, n
      <3>3. PICK m \in Instances : Unsettled(m, k)
        BY <1>1, <2>1, <3>1, <3>2 DEF RoleSettles
      <3> QED BY <2>2, <3>2, <3>3
    <2>5. CASE ~inst[i].skipped /\ n > k
      <3>1. Taker(k) # a
        BY <1>1, <2>1, <2>5 DEF LastOfItsAddress, SeedAddress, Taker
      <3>2. users[Taker(k)].role # seeds[k].role
        BY <1>2, <1>6, <2>1, <3>1
      <3>3. Past(i, k) /\ ~Unsettled(i, k)
        BY <1>1, <1>2, <2>5 DEF Past, Unsettled, AtUpdate, Starting, n
      <3>4. PICK m \in Instances : Unsettled(m, k)
        BY <1>1, <2>1, <3>2, <3>3 DEF RoleSettles, Right
      <3> QED BY <2>2, <3>3, <3>4
    <2> QED BY <1>1, <2>3, <2>4, <2>5
  <1> QED BY <1>8, <1>9, <1>10

LEMMA InvStep ==
  ASSUME IInv, [Next]_vars
  PROVE  IInv'
  <1>1. TypeInv'
    BY TypeStep DEF IInv
  <1> DEFINE Kept == Registered' /\ (\A j \in Instances : Seeded(j)') /\ RoleSettles'
  <1>2. ASSUME NEW r \in Slots, Begin(r) \/ Serve(r) \/ Fail(r) PROVE Kept
    BY <1>2, RequestKeeps
  <1>3. ASSUME NEW i \in Instances, Start(i) \/ SeedStep(i) \/ FailStart(i) \/ Stop(i) PROVE Kept
    <2>1. CASE UpdateExisting(i) \/ (InsertSeed(i) /\ ~Taken(SeedAddress(Seed(i))))
      BY <2>1, WriteKeeps
    <2>2. CASE \/ Start(i) \/ LookForTable(i) \/ SelectExisting(i) \/ FailStart(i) \/ Stop(i)
               \/ InsertSeed(i) /\ Taken(SeedAddress(Seed(i)))
      BY <2>2, InstanceMoves, MoveKeeps
    <2> QED BY <1>3, <2>1, <2>2 DEF SeedStep
  <1>4. ASSUME Migrate \/ (\E a \in Addresses : Deactivate(a)) \/ UNCHANGED vars PROVE Kept
    BY <1>4, OperatorKeeps
  <1>5. Kept
    BY <1>2, <1>3, <1>4 DEF Next
  <1> QED BY <1>1, <1>5 DEF IInv

LEMMA Invariance == Spec => []IInv
  <1>1. IInv /\ [Next]_vars => IInv'
    BY InvStep
  <1> QED BY <1>1, InvInit, PTL DEF Spec

--------------------------------------------------------------------------------

\* Every variable stays in its type, and an instance has a row loaded exactly while it
\* updates it: the users table, register_user and the start of main.py.
THEOREM TypeCorrect == Spec => []TypeOK
  <1>1. IInv => TypeOK
    BY DEF IInv, TypeInv
  <1> QED BY <1>1, Invariance, PTL

\* A registration that was answered keeps its address, whichever registrations and
\* starts of the service race for it: from register_user and _seed_user.
THEOREM AccountsStayTheirs == Spec => []RegistrationsHold
  <1>1. IInv => RegistrationsHold
    BY DEF IInv, Registered, HeldBy, Taker, RegistrationsHold
  <1> QED BY <1>1, Invariance, PTL

\* A complete start leaves an account at every seeded address, and once none is half-way
\* the role and the password of an updated seed: main.py's _seed_user, run by any number
\* of instances, at any overlap.
THEOREM StartsSeed == Spec => []SeedsHold
  <1>1. ASSUME IInv PROVE SeedsHold
    <2> SUFFICES ASSUME NEW i \in Instances, inst[i].stage = "up", ~inst[i].skipped,
                        NEW k \in DOMAIN seeds
                 PROVE  /\ users[Taker(k)] # NoUser
                        /\ Settled /\ seeds[k].update /\ LastOfItsAddress(k) =>
                             /\ users[Taker(k)].role = seeds[k].role
                             /\ users[Taker(k)].password = Operator
      BY DEF SeedsHold, Taker
    <2>1. Past(i, k) /\ Right(i, k)
      BY DEF Past, Right
    <2>2. /\ users[Taker(k)] # NoUser
          /\ seeds[k].update => users[Taker(k)].password = Operator
      BY <1>1, <2>1 DEF IInv, Seeded
    <2>3. ASSUME Settled PROVE ~ \E j \in Instances : Unsettled(j, k)
      BY <2>3 DEF Settled, Unsettled, AtUpdate, Starting
    <2> QED BY <1>1, <2>1, <2>2, <2>3 DEF IInv, RoleSettles
  <1> QED BY <1>1, Invariance, PTL

\* A deactivation that comes between the SELECT and the UPDATE of a seeding is not
\* undone by it: _seed_user, and the columns the ORM finds changed.
THEOREM DeactivationsHold == Spec => DeactivationSurvives
  <1>1. ASSUME TypeInv, [Next]_vars
        PROVE  [\A a \in Addresses :
                  Taken(a) /\ ~users[a].active /\ users'[a].active =>
                    \E i \in Instances :
                      /\ inst[i].stage = "update"
                      /\ SeedAddress(Seed(i)) = a
                      /\ ~inst[i].loaded.active]_vars
    <2> SUFFICES ASSUME NEW a \in Addresses, Taken(a), ~users[a].active, users'[a].active
                 PROVE  \E i \in Instances :
                          /\ inst[i].stage = "update"
                          /\ SeedAddress(Seed(i)) = a
                          /\ ~inst[i].loaded.active
      OBVIOUS
    <2>1. users \in [Addresses -> User \cup {NoUser}] /\ users'[a] # users[a]
      BY <1>1, TypeParts DEF RequestsTyped
    <2>2. PICK i \in Instances : UpdateExisting(i) \/ (InsertSeed(i) /\ ~Taken(SeedAddress(Seed(i))))
      <3>1. ASSUME NEW r \in Slots, InsertUser(r) PROVE FALSE
        BY <2>1, <3>1 DEF InsertUser, Taken
      <3>2. ASSUME NEW b \in Addresses, Deactivate(b) PROVE FALSE
        BY <2>1, <3>2 DEF Deactivate, User, NoUser
      <3> QED BY <1>1, <2>1, <3>1, <3>2
              DEF Next, vars, requests, Begin, Serve, CheckFree, RefreshUser, AuthenticateUser, Fail,
                  Start, SeedStep, LookForTable, SelectExisting, InsertSeed, FailStart, Stop, Migrate
    <2>3. /\ \A b \in Addresses \ {SeedAddress(Seed(i))} : users'[b] = users[b]
          /\ \/ inst[i].stage = "insert" /\ users[SeedAddress(Seed(i))] = NoUser
             \/ inst[i].stage = "update" /\ Seed(i).update
          /\ inst[i].stage = "update" =>
               users'[SeedAddress(Seed(i))].active =
                 (users[SeedAddress(Seed(i))].active \/ ~inst[i].loaded.active)
      BY <1>1, <2>2, Written
    <2>4. SeedAddress(Seed(i)) = a /\ inst[i].stage = "update"
      BY <2>1, <2>3 DEF Taken
    <2> QED BY <2>3, <2>4
  <1> QED BY <1>1, Invariance, PTL DEF IInv, Spec, DeactivationSurvives

--------------------------------------------------------------------------------
(***************************************************************************)
(* Proofs about Migrations, the schema that the seedings above find, for   *)
(* any runs and any number of them.                                        *)
(*                                                                         *)
(* Every run reads a revision k before it has a lock.  What it does then   *)
(* is right for a database at k, whatever else there is (PlanLeads), and   *)
(* the first statement that touches alembic_version finds no row to change *)
(* unless the database is still at k (PlanOpens, CourseOn); from then on   *)
(* nobody else can change it.  So the run either commits what k becomes or *)
(* is refused.                                                             *)
(***************************************************************************)

\* What a statement makes of what is there, and when it is possible.
Apply(V, s) == (V \ Dropped(s)) \cup s.on

Can(V, s) ==
  /\ s.off \subseteq V
  /\ \A x \in V \ Dropped(s) : References(x) \cap s.off = {}
  /\ s.on \cap V = {}
  /\ \A x \in s.on : References(x) \subseteq V

\* The statements s make W of V, and each is possible in its turn if clean.
Leads(V, s, W, clean) ==
  \E v : /\ v[0] = V /\ v[Len(s)] = W
         /\ \A i \in 1 .. Len(s) : /\ v[i] = Apply(v[i - 1], s[i])
                                   /\ clean => Can(v[i - 1], s[i])

LEMMA LeadsNowhere ==
  ASSUME NEW V, NEW W, NEW clean, NEW s, s = <<>>
  PROVE  Leads(V, s, W, clean) <=> W = V
  <1>1. Leads(V, s, W, clean) => W = V
    BY DEF Leads
  <1>2. ASSUME W = V PROVE Leads(V, s, W, clean)
    <2> DEFINE v == [i \in {0} |-> V]
    <2>1. v[0] = V /\ Len(s) = 0
      OBVIOUS
    <2> HIDE DEF v
    <2> QED BY <1>2, <2>1 DEF Leads
  <1> QED BY <1>1, <1>2

\* The first statement and the rest.
LEMMA LeadsOn ==
  ASSUME NEW S, NEW s \in Seq(S), s # <<>>, NEW V, NEW W, NEW clean, Leads(V, s, W, clean)
  PROVE  /\ clean => Can(V, Head(s))
         /\ Leads(Apply(V, Head(s)), Tail(s), W, clean)
  <1> PICK v : /\ v[0] = V /\ v[Len(s)] = W
               /\ \A i \in 1 .. Len(s) : /\ v[i] = Apply(v[i - 1], s[i])
                                         /\ clean => Can(v[i - 1], s[i])
    BY DEF Leads
  <1> DEFINE w == [i \in 0 .. Len(s) - 1 |-> v[i + 1]]
             r == Tail(s)
  <1>1. /\ Len(s) \in Nat /\ Len(s) >= 1 /\ Head(s) = s[1] /\ Len(r) = Len(s) - 1
        /\ \A i \in 1 .. Len(r) : r[i] = s[i + 1]
    OBVIOUS
  <1>2. v[1] = Apply(V, s[1]) /\ (clean => Can(V, s[1]))
    <2>1. 1 \in 1 .. Len(s) /\ 1 - 1 = 0
      BY <1>1
    <2> QED BY <2>1
  <1>3. \A i \in 0 .. Len(r) : w[i] = v[i + 1]
    BY <1>1
  <1> HIDE DEF w, r
  <1>4. ASSUME NEW i \in 1 .. Len(r)
        PROVE  w[i] = Apply(w[i - 1], r[i]) /\ (clean => Can(w[i - 1], r[i]))
    <2>1. /\ i + 1 \in 1 .. Len(s)
          /\ (i + 1) - 1 = i /\ (i - 1) + 1 = i
          /\ i - 1 \in 0 .. Len(r) /\ i \in 0 .. Len(r)
      BY <1>1
    <2> QED BY <1>1, <1>3, <2>1
  <1>5. w[0] = v[1] /\ w[Len(r)] = W
    BY <1>1, <1>3
  <1>6. Leads(Apply(V, Head(s)), r, W, clean)
    BY <1>1, <1>2, <1>4, <1>5 DEF Leads
  <1> QED BY <1>1, <1>2, <1>6 DEF r

\* One script after another.
LEMMA LeadsThrough ==
  ASSUME NEW S, NEW s \in Seq(S), NEW r \in Seq(S), NEW U, NEW V, NEW W, NEW clean,
         Leads(U, s, V, clean), Leads(V, r, W, clean)
  PROVE  Leads(U, s \o r, W, clean)
  <1> PICK v : /\ v[0] = U /\ v[Len(s)] = V
               /\ \A i \in 1 .. Len(s) : /\ v[i] = Apply(v[i - 1], s[i])
                                         /\ clean => Can(v[i - 1], s[i])
    BY DEF Leads
  <1> PICK w : /\ w[0] = V /\ w[Len(r)] = W
               /\ \A i \in 1 .. Len(r) : /\ w[i] = Apply(w[i - 1], r[i])
                                         /\ clean => Can(w[i - 1], r[i])
    BY DEF Leads
  <1> DEFINE n == Len(s)
             m == Len(r)
             x == [i \in 0 .. n + m |-> IF i <= n THEN v[i] ELSE w[i - n]]
             t == s \o r
  <1>1. /\ n \in Nat /\ m \in Nat /\ Len(t) = n + m
        /\ \A i \in 1 .. n : t[i] = s[i]
        /\ \A i \in n + 1 .. n + m : t[i] = r[i - n]
    OBVIOUS
  <1>2. /\ \A i \in 0 .. n : x[i] = v[i]
        /\ \A i \in n .. n + m : x[i] = w[i - n]
    <2>1. \A i \in 0 .. n : x[i] = v[i]
      BY <1>1
    <2>2. ASSUME NEW i \in n .. n + m PROVE x[i] = w[i - n]
      <3>1. CASE i = n
        <4>1. n - n = 0 /\ i \in 0 .. n
          BY <1>1, <3>1
        <4> QED BY <2>1, <3>1, <4>1
      <3>2. CASE i > n
        BY <1>1, <3>2
      <3> QED BY <1>1, <3>1, <3>2
    <2> QED BY <2>1, <2>2
  <1> HIDE DEF x, t
  <1>3. ASSUME NEW i \in 1 .. Len(t)
        PROVE  x[i] = Apply(x[i - 1], t[i]) /\ (clean => Can(x[i - 1], t[i]))
    <2>1. CASE i <= n
      <3>1. i \in 1 .. n /\ i \in 0 .. n /\ i - 1 \in 0 .. n
        BY <1>1, <2>1
      <3> QED BY <1>1, <1>2, <3>1
    <2>2. CASE i > n
      <3>1. /\ i \in n .. n + m /\ i - 1 \in n .. n + m /\ i \in n + 1 .. n + m
            /\ i - n \in 1 .. m /\ (i - 1) - n = (i - n) - 1
        BY <1>1, <2>2
      <3> QED BY <1>1, <1>2, <3>1
    <2> QED BY <1>1, <2>1, <2>2
  <1>4. x[0] = U /\ x[Len(t)] = W
    <2>1. 0 \in 0 .. n /\ n + m \in n .. n + m /\ (n + m) - n = m
      BY <1>1
    <2> QED BY <1>1, <1>2, <2>1
  <1>5. Leads(U, t, W, clean)
    BY <1>3, <1>4 DEF Leads
  <1> QED BY <1>5 DEF t

--------------------------------------------------------------------------------
\* Scripts.

\* The first i names of a list.
First(names, i) == {names[j] : j \in 1 .. i}

\* What goes when the things in N are dropped.
Falls(N) == N \cup (IF "tickets" \in N THEN {"tags"} ELSE {})

LEMMA CreatingIsScript ==
  ASSUME NEW names \in Seq(Things)
  PROVE  /\ Creating(names) \in Seq(Statements)
         /\ Len(Creating(names)) = Len(names)
         /\ \A i \in 1 .. Len(names) : Creating(names)[i] = Create(names[i])
  <1>1. DOMAIN names = 1 .. Len(names) /\ Len(names) \in Nat
    OBVIOUS
  <1>2. \A i \in 1 .. Len(names) : Create(names[i]) \in Statements
    BY DEF Create, Statements
  <1> QED BY <1>1, <1>2 DEF Creating

LEMMA DroppingIsScript ==
  ASSUME NEW names \in Seq(Things)
  PROVE  /\ Dropping(names) \in Seq(Statements)
         /\ Len(Dropping(names)) = Len(names)
         /\ \A i \in 1 .. Len(names) : Dropping(names)[i] = Drop(names[i])
  <1>1. DOMAIN names = 1 .. Len(names) /\ Len(names) \in Nat
    OBVIOUS
  <1>2. \A i \in 1 .. Len(names) : Drop(names[i]) \in Statements
    BY DEF Drop, Statements
  <1> QED BY <1>1, <1>2 DEF Dropping

LEMMA FirstOn ==
  ASSUME NEW names, NEW n \in Nat, NEW i \in 1 .. n
  PROVE  First(names, i) = First(names, i - 1) \cup {names[i]}
  BY DEF First

\* Creating what is not there, each thing after what it stands on.
LEMMA LeadsCreating ==
  ASSUME NEW names \in Seq(Things), NEW V, NEW clean,
         clean => \A i \in 1 .. Len(names) :
                    /\ names[i] \notin V \cup First(names, i - 1)
                    /\ References(names[i]) \subseteq V \cup First(names, i - 1)
  PROVE  Leads(V, Creating(names), V \cup First(names, Len(names)), clean)
  <1> DEFINE n == Len(names)
             s == Creating(names)
             v == [i \in 0 .. n |-> V \cup First(names, i)]
  <1>1. n \in Nat /\ Len(s) = n /\ \A i \in 1 .. n : s[i] = Create(names[i])
    BY CreatingIsScript
  <1>2. v[0] = V /\ v[n] = V \cup First(names, n)
    <2>1. First(names, 0) = {}
      BY DEF First
    <2> QED BY <1>1, <2>1
  <1>3. ASSUME NEW i \in 1 .. n
        PROVE  /\ v[i] = Apply(v[i - 1], s[i])
               /\ clean => Can(v[i - 1], s[i])
    <2>1. i \in 0 .. n /\ i - 1 \in 0 .. n
      BY <1>1
    <2>2. v[i] = V \cup First(names, i) /\ v[i - 1] = V \cup First(names, i - 1)
      BY <2>1
    <2>3. First(names, i) = First(names, i - 1) \cup {names[i]}
      BY <1>1, FirstOn
    <2> HIDE DEF v, s
    <2>4. s[i] = Create(names[i])
      BY <1>1
    <2>5. s[i].on = {names[i]} /\ s[i].off = {} /\ Dropped(s[i]) = {}
      BY <2>4 DEF Create, Dropped
    <2>6. v[i] = Apply(v[i - 1], s[i])
      BY <2>2, <2>3, <2>5 DEF Apply
    <2>7. clean => Can(v[i - 1], s[i])
      BY <2>2, <2>5 DEF Can
    <2> QED BY <2>6, <2>7
  <1> HIDE DEF v, s
  <1>4. Leads(V, s, V \cup First(names, n), clean)
    BY <1>1, <1>2, <1>3 DEF Leads
  <1> QED BY <1>4 DEF s

\* Dropping what is there, each thing after what stands on it.
LEMMA LeadsDropping ==
  ASSUME NEW names \in Seq(Things), NEW V, NEW clean,
         clean => \A i \in 1 .. Len(names) :
                    /\ names[i] \in V \ Falls(First(names, i - 1))
                    /\ \A x \in V \ Falls(First(names, i)) : names[i] \notin References(x)
  PROVE  Leads(V, Dropping(names), V \ Falls(First(names, Len(names))), clean)
  <1> DEFINE n == Len(names)
             s == Dropping(names)
             v == [i \in 0 .. n |-> V \ Falls(First(names, i))]
  <1>1. n \in Nat /\ Len(s) = n /\ \A i \in 1 .. n : s[i] = Drop(names[i])
    BY DroppingIsScript
  <1>2. v[0] = V /\ v[n] = V \ Falls(First(names, n))
    <2>1. Falls(First(names, 0)) = {}
      BY DEF First, Falls
    <2> QED BY <1>1, <2>1
  <1>3. ASSUME NEW i \in 1 .. n
        PROVE  /\ v[i] = Apply(v[i - 1], s[i])
               /\ clean => Can(v[i - 1], s[i])
    <2>1. i \in 0 .. n /\ i - 1 \in 0 .. n
      BY <1>1
    <2>2. v[i] = V \ Falls(First(names, i)) /\ v[i - 1] = V \ Falls(First(names, i - 1))
      BY <2>1
    <2>3. First(names, i) = First(names, i - 1) \cup {names[i]}
      BY <1>1, FirstOn
    <2> HIDE DEF v, s
    <2>4. s[i] = Drop(names[i])
      BY <1>1
    <2>5. s[i].on = {} /\ s[i].off = {names[i]} /\ Dropped(s[i]) = Falls({names[i]})
      BY <2>4 DEF Drop, Dropped, Falls
    <2>6. Falls(First(names, i)) = Falls(First(names, i - 1)) \cup Falls({names[i]})
      BY <2>3 DEF Falls
    <2>7. v[i] = Apply(v[i - 1], s[i])
      BY <2>2, <2>5, <2>6 DEF Apply
    <2>8. clean => Can(v[i - 1], s[i])
      <3>1. v[i - 1] \ Dropped(s[i]) = V \ Falls(First(names, i))
        BY <2>2, <2>5, <2>6
      <3>2. SUFFICES ASSUME clean PROVE Can(v[i - 1], s[i])
        OBVIOUS
      <3>3. /\ names[i] \in v[i - 1]
            /\ \A x \in v[i - 1] \ Dropped(s[i]) : names[i] \notin References(x)
        BY <2>2, <3>1, <3>2
      <3> QED BY <2>5, <3>3 DEF Can
    <2> QED BY <2>7, <2>8
  <1> HIDE DEF v, s
  <1>4. Leads(V, s, V \ Falls(First(names, n)), clean)
    BY <1>1, <1>2, <1>3 DEF Leads
  <1> QED BY <1>4 DEF s

LEMMA LeadsOne ==
  ASSUME NEW V, NEW s, NEW clean, clean => Can(V, s)
  PROVE  Leads(V, <<s>>, Apply(V, s), clean)
  <1> DEFINE v == [i \in 0 .. 1 |-> IF i = 0 THEN V ELSE Apply(V, s)]
             r == <<s>>
  <1>1. v[0] = V /\ v[1] = Apply(V, s) /\ Len(r) = 1 /\ r[1] = s
    OBVIOUS
  <1> HIDE DEF v, r
  <1>2. \A i \in 1 .. Len(r) : v[i] = Apply(v[i - 1], r[i]) /\ (clean => Can(v[i - 1], r[i]))
    BY <1>1
  <1>3. Leads(V, r, Apply(V, s), clean)
    BY <1>1, <1>2 DEF Leads
  <1> QED BY <1>3 DEF r

--------------------------------------------------------------------------------
\* The revisions, one by one.

Mark(k) == IF k = 0 THEN {} ELSE {Revisions[k]}

\* X has the mark of revision k, its tables and its types.
Fits(X, k) ==
  /\ X \cap Versions = Mark(k)
  /\ X \cap Mapped = Schema(k)
  /\ k > 0 => Types \subseteq X

InitTypes == <<"user_role", "users", "ticket_status", "ticket_priority", "tickets",
               "ticket_comments", "ticket_events">>
InitTables == <<"ticket_events", "ticket_comments", "tickets", "users">>

LEMMA RevisionFacts ==
  /\ Revisions[1] = "d5e3d822f9c2" /\ Revisions[2] = "743810191430"
  /\ Revisions[3] = "53820a15a21c"
  /\ Versions = {"d5e3d822f9c2", "743810191430", "53820a15a21c"}
  <1>1. 1 .. 3 = {1, 2, 3}
    OBVIOUS
  <1>2. /\ Revisions[1] = "d5e3d822f9c2" /\ Revisions[2] = "743810191430"
        /\ Revisions[3] = "53820a15a21c"
    BY DEF Revisions
  <1> QED BY <1>1, <1>2 DEF Versions, Latest

\* What each thing stands on.
LEMMA ReferenceFacts ==
  /\ References("users") = {"user_role"}
  /\ References("tickets") = {"users", "ticket_status", "ticket_priority"}
  /\ References("ticket_comments") = {"tickets", "users"}
  /\ References("ticket_events") = {"tickets", "users"}
  /\ References("refresh_tokens") = {"users"}
  /\ References("tags") = {"tickets"}
  /\ \A x \in Versions : References(x) = {"alembic_version"}
  /\ \A x \in Types : References(x) = {}
  /\ References("alembic_version") = {}
  BY RevisionFacts DEF References, Types

LEMMA MigrationFacts ==
  /\ Migration[1].upgrade = Creating(InitTypes)
  /\ Migration[1].downgrade = Dropping(InitTables)
  /\ Migration[2].upgrade = Creating(<<"refresh_tokens">>)
  /\ Migration[2].downgrade = Dropping(<<"refresh_tokens">>)
  /\ Migration[3].upgrade = Creating(<<"tags">>)
  /\ Migration[3].downgrade = Dropping(<<"tags">>)
  BY DEF Migration, InitModels, RefreshTokens, TicketTags, InitTypes, InitTables

LEMMA ListFacts ==
  /\ InitTypes \in Seq(Things) /\ Len(InitTypes) = 7
  /\ InitTables \in Seq(Things) /\ Len(InitTables) = 4
  /\ <<"refresh_tokens">> \in Seq(Things) /\ <<"tags">> \in Seq(Things)
  /\ First(InitTypes, 0) = {} /\ First(InitTables, 0) = {}
  /\ First(InitTypes, 7) = Types \cup {"users", "tickets", "ticket_comments", "ticket_events"}
  /\ First(InitTables, 4) = {"users", "tickets", "ticket_comments", "ticket_events"}
  <1>1. /\ InitTypes \in Seq(Things) /\ Len(InitTypes) = 7
        /\ InitTables \in Seq(Things) /\ Len(InitTables) = 4
        /\ <<"refresh_tokens">> \in Seq(Things) /\ <<"tags">> \in Seq(Things)
    BY DEF InitTypes, InitTables, Things, Types, Tables
  <1>2. First(InitTypes, 0) = {} /\ First(InitTables, 0) = {}
    BY DEF First
  <1>3. First(InitTypes, 7) = Types \cup {"users", "tickets", "ticket_comments", "ticket_events"}
    <2>1. 1 .. 7 = {1, 2, 3, 4, 5, 6, 7}
      OBVIOUS
    <2>2. First(InitTypes, 7) = {InitTypes[j] : j \in {1, 2, 3, 4, 5, 6, 7}}
      BY <2>1 DEF First
    <2>3. /\ InitTypes[1] = "user_role" /\ InitTypes[2] = "users" /\ InitTypes[3] = "ticket_status"
          /\ InitTypes[4] = "ticket_priority" /\ InitTypes[5] = "tickets"
          /\ InitTypes[6] = "ticket_comments" /\ InitTypes[7] = "ticket_events"
      BY DEF InitTypes
    <2> QED BY <2>2, <2>3 DEF Types
  <1>4. First(InitTables, 4) = {"users", "tickets", "ticket_comments", "ticket_events"}
    <2>1. 1 .. 4 = {1, 2, 3, 4}
      OBVIOUS
    <2>2. First(InitTables, 4) = {InitTables[j] : j \in {1, 2, 3, 4}}
      BY <2>1 DEF First
    <2>3. /\ InitTables[1] = "ticket_events" /\ InitTables[2] = "ticket_comments"
          /\ InitTables[3] = "tickets" /\ InitTables[4] = "users"
      BY DEF InitTables
    <2> QED BY <2>2, <2>3
  <1> QED BY <1>1, <1>2, <1>3, <1>4

\* The first revision creates each thing after what it refers to ...
LEMMA InitTypesInOrder ==
  ASSUME NEW X, X \cap (Mapped \cup Types) = {}, NEW i \in 1 .. 7
  PROVE  /\ InitTypes[i] \notin X \cup First(InitTypes, i - 1)
         /\ References(InitTypes[i]) \subseteq X \cup First(InitTypes, i - 1)
  <1>1. /\ InitTypes[1] = "user_role" /\ InitTypes[2] = "users" /\ InitTypes[3] = "ticket_status"
        /\ InitTypes[4] = "ticket_priority" /\ InitTypes[5] = "tickets"
        /\ InitTypes[6] = "ticket_comments" /\ InitTypes[7] = "ticket_events"
    BY DEF InitTypes
  <1>2. InitTypes[i] \in Mapped \cup Types
    BY <1>1 DEF Mapped, Tables, Types
  <1>3. \A j \in 1 .. i - 1 : InitTypes[j] # InitTypes[i]
    BY <1>1
  <1>4. References(InitTypes[i]) \subseteq First(InitTypes, i - 1)
    <2>1. CASE i \in {1, 3, 4}
      BY <1>1, <2>1, RevisionFacts DEF References
    <2>2. CASE i = 2
      <3>1. References(InitTypes[i]) = {"user_role"} /\ 1 \in 1 .. i - 1
        BY <1>1, <2>2, ReferenceFacts
      <3> QED BY <1>1, <3>1 DEF First
    <2>3. CASE i = 5
      <3>1. /\ References(InitTypes[i]) = {"users", "ticket_status", "ticket_priority"}
            /\ 2 \in 1 .. i - 1 /\ 3 \in 1 .. i - 1 /\ 4 \in 1 .. i - 1
        BY <1>1, <2>3, ReferenceFacts
      <3> QED BY <1>1, <3>1 DEF First
    <2>4. CASE i \in {6, 7}
      <3>1. References(InitTypes[i]) = {"users", "tickets"} /\ 2 \in 1 .. i - 1 /\ 5 \in 1 .. i - 1
        BY <1>1, <2>4, ReferenceFacts
      <3> QED BY <1>1, <3>1 DEF First
    <2> QED BY <2>1, <2>2, <2>3, <2>4
  <1> QED BY <1>2, <1>3, <1>4 DEF First

\* ... and drops each table after those that refer to it.
LEMMA InitTablesInOrder ==
  ASSUME NEW X, X \cap Mapped = Schema(1), NEW i \in 1 .. 4
  PROVE  /\ InitTables[i] \in X \ Falls(First(InitTables, i - 1))
         /\ \A x \in X \ Falls(First(InitTables, i)) : InitTables[i] \notin References(x)
  <1>1. /\ InitTables[1] = "ticket_events" /\ InitTables[2] = "ticket_comments"
        /\ InitTables[3] = "tickets" /\ InitTables[4] = "users"
    BY DEF InitTables
  <1>2. InitTables[i] \in Schema(1) /\ InitTables[i] # "tags"
    BY <1>1 DEF Schema
  <1>3. \A j \in 1 .. i - 1 : InitTables[j] # InitTables[i]
    BY <1>1
  <1>4. X \cap Mapped = {"users", "tickets", "ticket_comments", "ticket_events"}
    BY DEF Schema
  <1>5. ASSUME NEW x \in X \ Falls(First(InitTables, i)), InitTables[i] \in References(x)
        PROVE  FALSE
    <2>1. /\ x \in Mapped => x \in {"users", "tickets", "ticket_comments", "ticket_events"}
          /\ \A j \in 1 .. i : x # InitTables[j]
      BY <1>4, <1>5 DEF First, Falls
    <2>2. CASE i \in {1, 2}
      BY <1>1, <1>5, <2>2, RevisionFacts DEF References
    <2>3. CASE i = 3
      <3>1. x \in {"ticket_comments", "ticket_events", "tags"}
        BY <1>1, <1>5, <2>3, RevisionFacts DEF References
      <3> QED BY <1>1, <2>1, <2>3, <3>1 DEF Mapped, Tables
    <2>4. CASE i = 4
      <3>1. x \in {"tickets", "ticket_comments", "ticket_events", "refresh_tokens"}
        BY <1>1, <1>5, <2>4, RevisionFacts DEF References
      <3> QED BY <1>1, <2>1, <2>4, <3>1 DEF Mapped, Tables
    <2> QED BY <2>2, <2>3, <2>4
  <1> QED BY <1>2, <1>3, <1>4, <1>5 DEF First, Falls, Schema

LEMMA MarkFacts ==
  /\ \A k \in 0 .. Latest : Mark(k) \subseteq Versions
  /\ \A j, k \in 0 .. Latest : Mark(j) = Mark(k) => j = k
  /\ Versions \cap (Mapped \cup Types \cup {"alembic_version"}) = {}
  /\ Mapped \cap (Types \cup {"alembic_version"}) = {} /\ "alembic_version" \notin Types
  BY RevisionFacts DEF Mark, Latest, Mapped, Tables, Types

LEMMA MoveFacts ==
  ASSUME NEW j \in 0 .. Latest, NEW k \in 0 .. Latest
  PROVE  /\ Move(j, k) = <<[off |-> Mark(j), on |-> Mark(k)]>>
         /\ Move(j, k) \in Seq(Statements) /\ Len(Move(j, k)) = 1
         /\ Move(j, k)[1].off = Mark(j) /\ Move(j, k)[1].on = Mark(k)
  <1>1. Move(j, k) = <<[off |-> Mark(j), on |-> Mark(k)]>>
    BY DEF Move, Mark
  <1>2. [off |-> Mark(j), on |-> Mark(k)] \in Statements
    BY MarkFacts DEF Statements, Things
  <1> QED BY <1>1, <1>2

\* The change of alembic_version between two revisions.
LEMMA LeadsMoving ==
  ASSUME NEW X, NEW clean, NEW j \in 0 .. Latest, NEW k \in 0 .. Latest, j # k,
         X \cap Versions = Mark(j), clean => "alembic_version" \in X
  PROVE  Leads(X, Move(j, k), (X \ Versions) \cup Mark(k), clean)
  <1> DEFINE s == [off |-> Mark(j), on |-> Mark(k)]
  <1>1. s.off = Mark(j) /\ s.on = Mark(k)
    OBVIOUS
  <1> HIDE DEF s
  <1>2. "tickets" \notin Mark(j) /\ Mark(k) \cap Mark(j) = {}
    BY MarkFacts, RevisionFacts DEF Mark, Latest, Mapped, Tables
  <1>3. Dropped(s) = Mark(j)
    BY <1>1, <1>2 DEF Dropped
  <1>4. Apply(X, s) = (X \ Versions) \cup Mark(k)
    BY <1>1, <1>3, MarkFacts DEF Apply
  <1>5. ASSUME clean PROVE Can(X, s)
    <2>1. \A x : References(x) \cap Mark(j) = {}
      BY MarkFacts, RevisionFacts DEF References, Mark, Mapped, Tables, Types
    <2>2. \A x \in Mark(k) : References(x) \subseteq X
      BY <1>5, MarkFacts, ReferenceFacts
    <2> QED BY <1>1, <1>2, <2>1, <2>2, MarkFacts DEF Can
  <1>6. Leads(X, <<s>>, Apply(X, s), clean)
    BY <1>5, LeadsOne
  <1> QED BY <1>4, <1>6, MoveFacts DEF s

\* What the upgrade to revision j makes of the one before.
Script(j, X, Y, s, clean) ==
  /\ Leads(X, s, Y, clean) /\ Fits(Y, j)
  /\ "alembic_version" \in X => "alembic_version" \in Y

LEMMA UpgradeScript ==
  ASSUME NEW j \in 1 .. Latest, NEW X, NEW clean, Fits(X, j - 1),
         clean => "alembic_version" \in X /\ (j = 1 => X \cap Types = {})
  PROVE  \E Y : Script(j, X, Y, Migration[j].upgrade \o Move(j - 1, j), clean)
  <1>1. ASSUME NEW names \in Seq(Things), NEW Y, Migration[j].upgrade = Creating(names),
               Y = X \cup First(names, Len(names)),
               First(names, Len(names)) \subseteq Mapped \cup Types,
               Y \cap Mapped = Schema(j), Types \subseteq Y,
               clean => \A i \in 1 .. Len(names) :
                          /\ names[i] \notin X \cup First(names, i - 1)
                          /\ References(names[i]) \subseteq X \cup First(names, i - 1)
        PROVE  Script(j, X, (Y \ Versions) \cup Mark(j),
                      Migration[j].upgrade \o Move(j - 1, j), clean)
    <2>1. Leads(X, Migration[j].upgrade, Y, clean)
      BY <1>1, LeadsCreating
    <2>2. Y \cap Versions = Mark(j - 1)
      BY <1>1, MarkFacts DEF Fits
    <2>3. j \in 0 .. Latest /\ j - 1 \in 0 .. Latest /\ j # j - 1
      BY DEF Latest
    <2>4. Leads(Y, Move(j - 1, j), (Y \ Versions) \cup Mark(j), clean)
      BY <1>1, <2>2, <2>3, LeadsMoving
    <2>5. Leads(X, Migration[j].upgrade \o Move(j - 1, j), (Y \ Versions) \cup Mark(j), clean)
      BY <1>1, <2>1, <2>3, <2>4, CreatingIsScript, MoveFacts, LeadsThrough
    <2>6. Fits((Y \ Versions) \cup Mark(j), j)
      BY <1>1, <2>3, MarkFacts DEF Fits
    <2> QED BY <1>1, <2>5, <2>6, MarkFacts DEF Script
  <1>2. CASE j = 1
    <2> DEFINE Y == X \cup First(InitTypes, Len(InitTypes))
    <2>1. X \cap Mapped = {}
      BY <1>2 DEF Fits, Schema
    <2>2. Y = X \cup Types \cup {"users", "tickets", "ticket_comments", "ticket_events"}
      BY ListFacts
    <2>3. Y \cap Mapped = Schema(1)
      BY <2>1, <2>2, MarkFacts DEF Schema, Mapped, Tables
    <2>4. First(InitTypes, Len(InitTypes)) \subseteq Mapped \cup Types
      BY ListFacts DEF Mapped, Tables
    <2>5. ASSUME clean, NEW i \in 1 .. Len(InitTypes)
          PROVE  /\ InitTypes[i] \notin X \cup First(InitTypes, i - 1)
                 /\ References(InitTypes[i]) \subseteq X \cup First(InitTypes, i - 1)
      <3>1. X \cap (Mapped \cup Types) = {} /\ i \in 1 .. 7
        BY <1>2, <2>1, <2>5, ListFacts
      <3> QED BY <3>1, InitTypesInOrder
    <2> HIDE DEF Y
    <2>6. Migration[j].upgrade = Creating(InitTypes) /\ Types \subseteq Y
      BY <1>2, <2>2, MigrationFacts
    <2> QED BY <1>1, <1>2, <2>3, <2>4, <2>5, <2>6, ListFacts DEF Y
  <1>3. ASSUME NEW x \in {"refresh_tokens", "tags"}, j = IF x = "tags" THEN 3 ELSE 2
        PROVE  \E Y : Script(j, X, Y, Migration[j].upgrade \o Move(j - 1, j), clean)
    <2> DEFINE names == <<x>>
               Y == X \cup {x}
    <2>1. names \in Seq(Things) /\ Len(names) = 1 /\ names[1] = x
      BY DEF Things, Tables
    <2> HIDE DEF names
    <2>2. First(names, 1) = {x} /\ First(names, 0) = {}
      BY <2>1 DEF First
    <2>3. Migration[j].upgrade = Creating(names)
      BY <1>3, MigrationFacts DEF names
    <2>4. X \cap Mapped = Schema(j - 1) /\ Types \subseteq X
      BY <1>3 DEF Fits
    <2>5. x \notin X /\ References(x) \subseteq X
      BY <1>3, <2>4, ReferenceFacts DEF Schema, Mapped, Tables
    <2>6. Y \cap Mapped = Schema(j)
      BY <1>3, <2>4 DEF Schema, Mapped, Tables
    <2>7. \A i \in 1 .. Len(names) :
            /\ names[i] \notin X \cup First(names, i - 1)
            /\ References(names[i]) \subseteq X \cup First(names, i - 1)
      BY <2>1, <2>2, <2>5
    <2>8. /\ Y = X \cup First(names, Len(names))
          /\ First(names, Len(names)) \subseteq Mapped \cup Types
      BY <2>1, <2>2 DEF Mapped, Tables
    <2>9. Types \subseteq Y
      BY <2>4
    <2> HIDE DEF Y
    <2> QED BY <1>1, <2>1, <2>3, <2>6, <2>7, <2>8, <2>9
  <1>4. CASE j = 2
    BY <1>3, <1>4
  <1>5. CASE j = 3
    BY <1>3, <1>5
  <1> QED BY <1>2, <1>4, <1>5 DEF Latest

\* ... and its downgrade of it.
LEMMA DowngradeScript ==
  ASSUME NEW j \in 1 .. Latest, NEW X, NEW clean, Fits(X, j), clean => "alembic_version" \in X
  PROVE  \E Y : Script(j - 1, X, Y, Migration[j].downgrade \o Move(j, j - 1), clean)
  <1>1. ASSUME NEW names \in Seq(Things), NEW Y, Migration[j].downgrade = Dropping(names),
               Y = X \ Falls(First(names, Len(names))), First(names, Len(names)) \subseteq Mapped,
               Y \cap Mapped = Schema(j - 1),
               clean => \A i \in 1 .. Len(names) :
                          /\ names[i] \in X \ Falls(First(names, i - 1))
                          /\ \A x \in X \ Falls(First(names, i)) : names[i] \notin References(x)
        PROVE  Script(j - 1, X, (Y \ Versions) \cup Mark(j - 1),
                      Migration[j].downgrade \o Move(j, j - 1), clean)
    <2>1. Leads(X, Migration[j].downgrade, Y, clean)
      BY <1>1, LeadsDropping
    <2>2. Falls(First(names, Len(names))) \subseteq Mapped
      BY <1>1 DEF Falls, Mapped
    <2>3. Y \cap Versions = Mark(j) /\ Types \subseteq Y /\ (clean => "alembic_version" \in Y)
      BY <1>1, <2>2, MarkFacts DEF Fits
    <2>4. j \in 0 .. Latest /\ j - 1 \in 0 .. Latest /\ j # j - 1
      BY DEF Latest
    <2>5. Leads(Y, Move(j, j - 1), (Y \ Versions) \cup Mark(j - 1), clean)
      BY <2>3, <2>4, LeadsMoving
    <2>6. Leads(X, Migration[j].downgrade \o Move(j, j - 1),
                (Y \ Versions) \cup Mark(j - 1), clean)
      BY <1>1, <2>1, <2>4, <2>5, DroppingIsScript, MoveFacts, LeadsThrough
    <2>7. Fits((Y \ Versions) \cup Mark(j - 1), j - 1)
      BY <1>1, <2>3, <2>4, MarkFacts DEF Fits
    <2> QED BY <1>1, <2>2, <2>6, <2>7, MarkFacts DEF Script
  <1>2. CASE j = 1
    <2> DEFINE Y == X \ Falls(First(InitTables, Len(InitTables)))
    <2>1. X \cap Mapped = Schema(1)
      BY <1>2 DEF Fits
    <2>2. Falls(First(InitTables, Len(InitTables)))
            = {"users", "tickets", "ticket_comments", "ticket_events", "tags"}
      BY ListFacts DEF Falls
    <2>3. Y \cap Mapped = Schema(0)
      BY <2>1, <2>2 DEF Schema
    <2>4. First(InitTables, Len(InitTables)) \subseteq Mapped
      BY ListFacts DEF Mapped, Tables
    <2>5. \A i \in 1 .. Len(InitTables) :
            /\ InitTables[i] \in X \ Falls(First(InitTables, i - 1))
            /\ \A x \in X \ Falls(First(InitTables, i)) : InitTables[i] \notin References(x)
      BY <2>1, ListFacts, InitTablesInOrder
    <2> HIDE DEF Y
    <2>6. Migration[j].downgrade = Dropping(InitTables) /\ j - 1 = 0
      BY <1>2, MigrationFacts
    <2> QED BY <1>1, <1>2, <2>3, <2>4, <2>5, <2>6, ListFacts DEF Y
  <1>3. ASSUME NEW y \in {"refresh_tokens", "tags"}, j = IF y = "tags" THEN 3 ELSE 2
        PROVE  \E Y : Script(j - 1, X, Y, Migration[j].downgrade \o Move(j, j - 1), clean)
    <2> DEFINE names == <<y>>
               Y == X \ {y}
    <2>1. names \in Seq(Things) /\ Len(names) = 1 /\ names[1] = y
      BY DEF Things, Tables
    <2> HIDE DEF names
    <2>2. First(names, 1) = {y} /\ First(names, 0) = {}
      BY <2>1 DEF First
    <2>3. Migration[j].downgrade = Dropping(names)
      BY <1>3, MigrationFacts DEF names
    <2>4. X \cap Mapped = Schema(j)
      BY DEF Fits
    <2>5. y \in X /\ \A x : y \notin References(x)
      <3>1. y \in X
        BY <1>3, <2>4 DEF Schema
      <3>2. \A x : y \notin References(x)
        BY DEF References
      <3> QED BY <3>1, <3>2
    <2>6. Y \cap Mapped = Schema(j - 1)
      BY <1>3, <2>4 DEF Schema
    <2>7. \A i \in 1 .. Len(names) :
            /\ names[i] \in X \ Falls(First(names, i - 1))
            /\ \A x \in X \ Falls(First(names, i)) : names[i] \notin References(x)
      BY <2>1, <2>2, <2>5 DEF Falls
    <2>8. Y = X \ Falls(First(names, Len(names))) /\ First(names, Len(names)) \subseteq Mapped
      BY <2>1, <2>2 DEF Mapped, Tables, Falls
    <2> HIDE DEF Y
    <2> QED BY <1>1, <2>1, <2>3, <2>6, <2>7, <2>8
  <1>4. CASE j = 2
    BY <1>3, <1>4
  <1>5. CASE j = 3
    BY <1>3, <1>5
  <1> QED BY <1>2, <1>4, <1>5 DEF Latest

--------------------------------------------------------------------------------
\* The plan of a run.

Opener == IF "alembic_version" \in db THEN <<>> ELSE <<Create("alembic_version")>>

\* The revision after the upgrades up to the j-th, and after the downgrades down to it.
Climbed(k, t, j) == IF k < t /\ k < j THEN (IF j <= t THEN j ELSE t) ELSE k
Descended(k, t, j) == IF t < k /\ t < j THEN (IF j <= k THEN j - 1 ELSE k) ELSE t

LEMMA MigrationIsScript ==
  ASSUME NEW j \in 1 .. Latest
  PROVE  /\ Migration[j].upgrade \in Seq(Statements)
         /\ Migration[j].downgrade \in Seq(Statements)
  <1>1. CASE j = 1
    BY <1>1, MigrationFacts, ListFacts, CreatingIsScript, DroppingIsScript
  <1>2. CASE j = 2
    BY <1>2, MigrationFacts, ListFacts, CreatingIsScript, DroppingIsScript
  <1>3. CASE j = 3
    BY <1>3, MigrationFacts, ListFacts, CreatingIsScript, DroppingIsScript
  <1> QED BY <1>1, <1>2, <1>3 DEF Latest

LEMMA PiecesAreScripts ==
  ASSUME NEW k \in 0 .. Latest, NEW t \in 0 .. Latest
  PROVE  /\ Opener \in Seq(Statements)
         /\ \A j \in 1 .. Latest :
              Up(k, t, j) \in Seq(Statements) /\ Down(k, t, j) \in Seq(Statements)
  <1>1. Opener \in Seq(Statements)
    <2>1. Create("alembic_version") \in Statements
      BY DEF Create, Statements, Things, Tables
    <2>2. <<>> \in Seq(Statements) /\ <<Create("alembic_version")>> \in Seq(Statements)
      BY <2>1
    <2> QED BY <2>2 DEF Opener
  <1>2. ASSUME NEW j \in 1 .. Latest
        PROVE  Up(k, t, j) \in Seq(Statements) /\ Down(k, t, j) \in Seq(Statements)
    <2>1. j \in 0 .. Latest /\ j - 1 \in 0 .. Latest
      BY DEF Latest
    <2>2. /\ Migration[j].upgrade \o Move(j - 1, j) \in Seq(Statements)
          /\ Migration[j].downgrade \o Move(j, j - 1) \in Seq(Statements)
      <3>1. \A s, r \in Seq(Statements) : s \o r \in Seq(Statements)
        OBVIOUS
      <3> QED BY <2>1, <3>1, MigrationIsScript, MoveFacts
    <2> QED BY <2>2 DEF Up, Down
  <1> QED BY <1>1, <1>2

LEMMA ScriptNowhere ==
  ASSUME NEW k, NEW X, NEW clean, Fits(X, k)
  PROVE  Script(k, X, X, <<>>, clean)
  <1>1. Leads(X, <<>>, X, clean)
    BY LeadsNowhere
  <1> QED BY <1>1 DEF Script

LEMMA ScriptThrough ==
  ASSUME NEW j, NEW k, NEW X, NEW Y, NEW Z, NEW clean,
         NEW s \in Seq(Statements), NEW r \in Seq(Statements),
         Script(j, X, Y, s, clean), Script(k, Y, Z, r, clean)
  PROVE  Script(k, X, Z, s \o r, clean)
  <1>1. Leads(X, s, Y, clean) /\ Leads(Y, r, Z, clean)
    BY DEF Script
  <1>2. Leads(X, s \o r, Z, clean)
    BY <1>1, LeadsThrough
  <1> QED BY <1>2 DEF Script

LEMMA UpPiece ==
  ASSUME NEW k \in 0 .. Latest, NEW t \in 0 .. Latest, NEW j \in 1 .. Latest,
         NEW X, NEW clean, Fits(X, Climbed(k, t, j - 1)),
         clean => /\ "alembic_version" \in X
                  /\ j = 1 /\ k = 0 /\ t > 0 => X \cap Types = {}
  PROVE  \E Y : Script(Climbed(k, t, j), X, Y, Up(k, t, j), clean)
  <1>1. CASE k < j /\ j <= t
    <2>1. Climbed(k, t, j) = j /\ Climbed(k, t, j - 1) = j - 1 /\ (j = 1 => k = 0 /\ t > 0)
      BY <1>1 DEF Climbed, Latest
    <2> QED BY <1>1, <2>1, UpgradeScript DEF Up
  <1>2. CASE ~(k < j /\ j <= t)
    <2>1. Climbed(k, t, j) = Climbed(k, t, j - 1)
      BY <1>2 DEF Climbed, Latest
    <2> QED BY <1>2, <2>1, ScriptNowhere DEF Up
  <1> QED BY <1>1, <1>2

LEMMA DownPiece ==
  ASSUME NEW k \in 0 .. Latest, NEW t \in 0 .. Latest, NEW j \in 1 .. Latest,
         NEW X, NEW clean, Fits(X, Descended(k, t, j + 1)), clean => "alembic_version" \in X
  PROVE  \E Y : Script(Descended(k, t, j), X, Y, Down(k, t, j), clean)
  <1>1. CASE t < j /\ j <= k
    <2>1. Descended(k, t, j) = j - 1 /\ Descended(k, t, j + 1) = j
      BY <1>1 DEF Descended, Latest
    <2> QED BY <1>1, <2>1, DowngradeScript DEF Down
  <1>2. CASE ~(t < j /\ j <= k)
    <2>1. Descended(k, t, j) = Descended(k, t, j + 1)
      BY <1>2 DEF Descended, Latest
    <2> QED BY <1>2, <2>1, ScriptNowhere DEF Down
  <1> QED BY <1>1, <1>2

LEMMA OpenerPiece ==
  ASSUME NEW k \in 0 .. Latest, NEW X, NEW clean, Fits(X, k), clean => X = db
  PROVE  Script(k, X, X \cup (IF "alembic_version" \in db THEN {} ELSE {"alembic_version"}),
                Opener, clean)
  <1>1. CASE "alembic_version" \in db
    BY <1>1, ScriptNowhere DEF Opener
  <1>2. CASE "alembic_version" \notin db
    <2> DEFINE s == Create("alembic_version")
    <2>1. s.off = {} /\ s.on = {"alembic_version"}
      BY DEF Create
    <2> HIDE DEF s
    <2>2. Apply(X, s) = X \cup {"alembic_version"} /\ (clean => Can(X, s))
      BY <1>2, <2>1, ReferenceFacts DEF Apply, Can, Dropped
    <2>3. Leads(X, <<s>>, Apply(X, s), clean)
      BY <2>2, LeadsOne
    <2>4. Fits(X \cup {"alembic_version"}, k)
      BY MarkFacts DEF Fits
    <2> QED BY <1>2, <2>2, <2>3, <2>4 DEF Opener, Script, s
  <1> QED BY <1>1, <1>2

\* Whatever of revision k it is executed on, a plan from k to t makes revision t of it; on the
\* database that it was made for, every statement is possible, but for types left behind.
LEMMA PlanLeads ==
  ASSUME NEW k \in 0 .. Latest, NEW t \in 0 .. Latest, NEW X, NEW clean, Fits(X, k),
         clean => X = db /\ (k = 0 /\ t > 0 => X \cap Types = {})
  PROVE  \E Y : Leads(X, Plan(k, t), Y, clean) /\ Fits(Y, t)
  <1>1. /\ Climbed(k, t, 0) = k /\ Climbed(k, t, 3) = Descended(k, t, 4) /\ Descended(k, t, 1) = t
        /\ 1 \in 1 .. Latest /\ 2 \in 1 .. Latest /\ 3 \in 1 .. Latest /\ 1 - 1 = 0 /\ 2 - 1 = 1
        /\ 3 - 1 = 2 /\ 3 + 1 = 4 /\ 2 + 1 = 3 /\ 1 + 1 = 2
    BY DEF Climbed, Descended, Latest
  <1> DEFINE X0 == X \cup (IF "alembic_version" \in db THEN {} ELSE {"alembic_version"})
  <1>2. /\ Script(k, X, X0, Opener, clean)
        /\ clean => "alembic_version" \in X0 /\ (k = 0 /\ t > 0 => X0 \cap Types = {})
    BY OpenerPiece, MarkFacts
  <1> HIDE DEF X0
  <1>3. PICK X1 : Script(Climbed(k, t, 1), X0, X1, Up(k, t, 1), clean)
    BY <1>1, <1>2, UpPiece DEF Script
  <1>4. PICK X2 : Script(Climbed(k, t, 2), X1, X2, Up(k, t, 2), clean)
    <2>1. Fits(X1, Climbed(k, t, 2 - 1)) /\ (clean => "alembic_version" \in X1) /\ 2 # 1
      BY <1>1, <1>2, <1>3 DEF Script
    <2> QED BY <1>1, <2>1, UpPiece
  <1>5. PICK X3 : Script(Climbed(k, t, 3), X2, X3, Up(k, t, 3), clean)
    <2>1. Fits(X2, Climbed(k, t, 3 - 1)) /\ (clean => "alembic_version" \in X2) /\ 3 # 1
      BY <1>1, <1>2, <1>3, <1>4 DEF Script
    <2> QED BY <1>1, <2>1, UpPiece
  <1>6. PICK X4 : Script(Descended(k, t, 3), X3, X4, Down(k, t, 3), clean)
    <2>1. Fits(X3, Descended(k, t, 3 + 1)) /\ (clean => "alembic_version" \in X3)
      BY <1>1, <1>2, <1>3, <1>4, <1>5 DEF Script
    <2> QED BY <1>1, <2>1, DownPiece
  <1>7. PICK X5 : Script(Descended(k, t, 2), X4, X5, Down(k, t, 2), clean)
    <2>1. Fits(X4, Descended(k, t, 2 + 1)) /\ (clean => "alembic_version" \in X4)
      BY <1>1, <1>2, <1>3, <1>4, <1>5, <1>6 DEF Script
    <2> QED BY <1>1, <2>1, DownPiece
  <1>8. PICK X6 : Script(t, X5, X6, Down(k, t, 1), clean)
    <2>1. Fits(X5, Descended(k, t, 1 + 1)) /\ (clean => "alembic_version" \in X5)
      BY <1>1, <1>2, <1>3, <1>4, <1>5, <1>6, <1>7 DEF Script
    <2> QED BY <1>1, <2>1, DownPiece
  <1> DEFINE u23 == Up(k, t, 2) \o Up(k, t, 3)
             u == Up(k, t, 1) \o u23
             d21 == Down(k, t, 2) \o Down(k, t, 1)
             d == Down(k, t, 3) \o d21
  <1>9. /\ Opener \in Seq(Statements)
        /\ \A j \in 1 .. Latest :
              Up(k, t, j) \in Seq(Statements) /\ Down(k, t, j) \in Seq(Statements)
    BY PiecesAreScripts
  <1>10. /\ Up(k, t, 1) \in Seq(Statements) /\ Up(k, t, 2) \in Seq(Statements)
         /\ Up(k, t, 3) \in Seq(Statements) /\ Down(k, t, 1) \in Seq(Statements)
         /\ Down(k, t, 2) \in Seq(Statements) /\ Down(k, t, 3) \in Seq(Statements)
    BY <1>1, <1>9
  <1>11. /\ u23 \in Seq(Statements) /\ u \in Seq(Statements)
         /\ d21 \in Seq(Statements) /\ d \in Seq(Statements) /\ Opener \o u \in Seq(Statements)
    <2>1. \A s, r \in Seq(Statements) : s \o r \in Seq(Statements)
      OBVIOUS
    <2> QED BY <1>9, <1>10, <2>1
  <1>12. Script(Climbed(k, t, 3), X1, X3, u23, clean)
    BY <1>4, <1>5, <1>10, ScriptThrough
  <1>13. Script(t, X4, X6, d21, clean)
    BY <1>7, <1>8, <1>10, ScriptThrough
  <1> HIDE DEF u23, d21
  <1>14. Script(Climbed(k, t, 3), X0, X3, u, clean)
    BY <1>3, <1>10, <1>11, <1>12, ScriptThrough
  <1>15. Script(t, X3, X6, d, clean)
    BY <1>6, <1>10, <1>11, <1>13, ScriptThrough
  <1> HIDE DEF u, d
  <1>16. Script(Climbed(k, t, 3), X, X3, Opener \o u, clean)
    BY <1>2, <1>9, <1>11, <1>14, ScriptThrough
  <1>17. Script(t, X, X6, (Opener \o u) \o d, clean)
    BY <1>11, <1>15, <1>16, ScriptThrough
  <1>18. Plan(k, t) = (Opener \o u) \o d
    BY DEF Plan, Opener, u, u23, d, d21
  <1> QED BY <1>17, <1>18 DEF Script

--------------------------------------------------------------------------------
\* The first statement of a plan that changes the mark takes away the one that was read.

Touched(e) == e.off \cup e.on

\* The statements of the revisions: none drops a type.
Tame == {e \in Statements : e.off \cap Types = {}}

Quiet(s) == \A i \in 1 .. Len(s) : Touched(s[i]) \cap Versions = {}

\* ... and the one that finds no mark follows the creation of a type, by s or before, where
\* had is what the run has created.
Decides(s, k, had) ==
  \E n \in 1 .. Len(s) :
    /\ \A i \in 1 .. n - 1 : Touched(s[i]) \cap Versions = {}
    /\ s[n].off \cap Versions = Mark(k)
    /\ k = 0 => /\ s[n].on = {Revisions[1]}
                /\ "user_role" \in had \/ \E i \in 1 .. n - 1 : "user_role" \in s[i].on

\* How a run goes on that has made had and touched all when it has read k to go to t.
Opening(s, k, t, had, all) ==
  IF k = t THEN /\ \A i \in 1 .. Len(s) : Touched(s[i]) \subseteq {"alembic_version"}
                /\ all \subseteq {"alembic_version"}
  ELSE Decides(s, k, had)

LEMMA ConcatFacts ==
  ASSUME NEW S, NEW s \in Seq(S), NEW r \in Seq(S)
  PROVE  /\ s \o r \in Seq(S) /\ Len(s \o r) = Len(s) + Len(r) /\ Len(s) \in Nat /\ Len(r) \in Nat
         /\ \A i \in 1 .. Len(s) : (s \o r)[i] = s[i]
         /\ \A i \in 1 .. Len(r) : (s \o r)[i + Len(s)] = r[i]
  OBVIOUS

LEMMA TailFacts ==
  ASSUME NEW S, NEW s \in Seq(S), s # <<>>
  PROVE  /\ Head(s) = s[1] /\ Head(s) \in S /\ Tail(s) \in Seq(S) /\ Len(Tail(s)) = Len(s) - 1
         /\ Len(s) \in Nat \ {0} /\ \A i \in 1 .. Len(s) - 1 : Tail(s)[i] = s[i + 1]
  OBVIOUS

LEMMA DecidesAfter ==
  ASSUME NEW s \in Seq(Tame), NEW r \in Seq(Tame), NEW k, NEW had, Decides(s, k, had)
  PROVE  Decides(s \o r, k, had)
  <1> DEFINE x == s \o r
  <1>1. Len(x) = Len(s) + Len(r) /\ Len(s) \in Nat /\ Len(r) \in Nat /\ \A i \in 1 .. Len(s) : x[i] = s[i]
    BY ConcatFacts
  <1> HIDE DEF x
  <1>2. PICK n \in 1 .. Len(s) :
          /\ \A i \in 1 .. n - 1 : Touched(s[i]) \cap Versions = {}
          /\ s[n].off \cap Versions = Mark(k)
          /\ k = 0 => /\ s[n].on = {Revisions[1]}
                      /\ "user_role" \in had \/ \E i \in 1 .. n - 1 : "user_role" \in s[i].on
    BY DEF Decides
  <1>3. n \in 1 .. Len(x) /\ x[n] = s[n] /\ \A i \in 1 .. n - 1 : x[i] = s[i]
    BY <1>1
  <1>4. Decides(x, k, had)
    BY <1>2, <1>3 DEF Decides
  <1> QED BY <1>4 DEF x

LEMMA DecidesBefore ==
  ASSUME NEW s \in Seq(Tame), NEW r \in Seq(Tame), NEW k, NEW had, Quiet(s), Decides(r, k, had)
  PROVE  Decides(s \o r, k, had)
  <1> DEFINE x == s \o r
             m == Len(s)
  <1>1. /\ Len(x) = m + Len(r) /\ m \in Nat /\ Len(r) \in Nat
        /\ \A i \in 1 .. m : x[i] = s[i]
        /\ \A i \in 1 .. Len(r) : x[i + m] = r[i]
    BY ConcatFacts
  <1>2. \A i \in 1 .. m : Touched(s[i]) \cap Versions = {}
    BY DEF Quiet
  <1> HIDE DEF x, m
  <1>3. PICK n \in 1 .. Len(r) :
          /\ \A i \in 1 .. n - 1 : Touched(r[i]) \cap Versions = {}
          /\ r[n].off \cap Versions = Mark(k)
          /\ k = 0 => /\ r[n].on = {Revisions[1]}
                      /\ "user_role" \in had \/ \E i \in 1 .. n - 1 : "user_role" \in r[i].on
    BY DEF Decides
  <1>0. PICK l \in 1 .. Len(x) : l = n + m
    BY <1>1
  <1>4. x[l] = r[n]
    BY <1>0, <1>1
  <1>5. ASSUME NEW i \in 1 .. l - 1 PROVE Touched(x[i]) \cap Versions = {}
    <2>1. CASE i <= m
      BY <1>1, <1>2, <2>1
    <2>2. CASE i > m
      <3>1. i - m \in 1 .. n - 1 /\ i - m \in 1 .. Len(r) /\ (i - m) + m = i
        BY <1>0, <1>1, <2>2
      <3>2. x[i] = r[i - m]
        BY <1>1, <3>1
      <3> QED BY <1>3, <3>1, <3>2
    <2> QED BY <1>0, <1>1, <2>1, <2>2
  <1>6. ASSUME NEW i \in 1 .. n - 1, "user_role" \in r[i].on
        PROVE  \E j \in 1 .. l - 1 : "user_role" \in x[j].on
    <2>1. i + m \in 1 .. l - 1 /\ x[i + m] = r[i]
      BY <1>0, <1>1
    <2> QED BY <1>6, <2>1
  <1>7. k = 0 => /\ x[l].on = {Revisions[1]}
                 /\ "user_role" \in had \/ \E j \in 1 .. l - 1 : "user_role" \in x[j].on
    BY <1>3, <1>4, <1>6
  <1>8. x[l].off \cap Versions = Mark(k)
    BY <1>3, <1>4
  <1>9. Decides(x, k, had)
    BY <1>5, <1>7, <1>8 DEF Decides
  <1> QED BY <1>9 DEF x

\* After a statement, the rest still decides; the one that changes the mark removes k.
LEMMA DecidesOn ==
  ASSUME NEW s \in Seq(Tame), s # <<>>, NEW k \in 0 .. Latest, NEW had, Decides(s, k, had)
  PROVE  IF Touched(Head(s)) \cap Versions = {}
         THEN Decides(Tail(s), k, (had \ Dropped(Head(s))) \cup Head(s).on)
         ELSE /\ Head(s).off \cap Versions = Mark(k)
              /\ k = 0 => Head(s).on = {Revisions[1]} /\ "user_role" \in had
  <1> DEFINE r == Tail(s)
             e == Head(s)
             had2 == (had \ Dropped(e)) \cup e.on
  <1>1. /\ e = s[1] /\ e \in Tame /\ Len(r) = Len(s) - 1 /\ Len(s) \in Nat \ {0}
        /\ \A i \in 1 .. Len(s) - 1 : r[i] = s[i + 1]
    BY TailFacts
  <1>2. "user_role" \in had => "user_role" \in had2
    BY <1>1 DEF Dropped, Tame, Types
  <1>3. e.on \subseteq had2
    OBVIOUS
  <1> HIDE DEF r, e, had2
  <1>4. PICK n \in 1 .. Len(s) :
          /\ \A i \in 1 .. n - 1 : Touched(s[i]) \cap Versions = {}
          /\ s[n].off \cap Versions = Mark(k)
          /\ k = 0 => /\ s[n].on = {Revisions[1]}
                      /\ "user_role" \in had \/ \E i \in 1 .. n - 1 : "user_role" \in s[i].on
    BY DEF Decides
  <1>5. CASE n = 1
    <2>1. Touched(e) \cap Versions # {}
      <3>1. CASE k = 0
        <4>1. Revisions[1] \in Touched(e) /\ Revisions[1] \in Versions
          BY <1>1, <1>4, <1>5, <3>1, RevisionFacts DEF Touched
        <4> QED BY <4>1
      <3>2. CASE k # 0
        <4>1. Mark(k) # {}
          BY <3>2 DEF Mark
        <4> QED BY <1>1, <1>4, <1>5, <4>1 DEF Touched
      <3> QED BY <3>1, <3>2
    <2>2. 1 .. n - 1 = {}
      BY <1>5
    <2> QED BY <1>1, <1>4, <1>5, <2>1, <2>2 DEF e
  <1>6. CASE n > 1
    <2>1. 1 \in 1 .. n - 1 /\ n - 1 \in 1 .. Len(r) /\ r[n - 1] = s[n]
      BY <1>1, <1>6
    <2>2. Touched(e) \cap Versions = {}
      BY <1>1, <1>4, <2>1
    <2>3. \A i \in 1 .. (n - 1) - 1 : i + 1 \in 1 .. n - 1 /\ r[i] = s[i + 1]
      BY <1>1, <1>6
    <2>4. ASSUME "user_role" \in had \/ \E i \in 1 .. n - 1 : "user_role" \in s[i].on
          PROVE  "user_role" \in had2 \/ \E i \in 1 .. (n - 1) - 1 : "user_role" \in r[i].on
      <3>1. SUFFICES ASSUME NEW i \in 1 .. n - 1, "user_role" \in s[i].on
                     PROVE  "user_role" \in had2 \/ \E j \in 1 .. (n - 1) - 1 : "user_role" \in r[j].on
        BY <1>2, <2>4
      <3>2. CASE i = 1
        BY <1>1, <1>3, <3>1, <3>2
      <3>3. CASE i > 1
        <4>1. i - 1 \in 1 .. (n - 1) - 1 /\ r[i - 1] = s[i]
          BY <1>1, <3>3
        <4> QED BY <3>1, <4>1
      <3> QED BY <3>2, <3>3
    <2>5. Decides(r, k, had2)
      BY <1>4, <2>1, <2>3, <2>4 DEF Decides
    <2> QED BY <2>2, <2>5 DEF r, e, had2
  <1> QED BY <1>1, <1>5, <1>6

LEMMA QuietConcat ==
  ASSUME NEW s \in Seq(Tame), NEW r \in Seq(Tame), Quiet(s), Quiet(r)
  PROVE  Quiet(s \o r)
  <1> DEFINE x == s \o r
             m == Len(s)
  <1>1. /\ Len(x) = m + Len(r) /\ m \in Nat /\ Len(r) \in Nat
        /\ \A i \in 1 .. m : x[i] = s[i]
        /\ \A i \in 1 .. Len(r) : x[i + m] = r[i]
    BY ConcatFacts
  <1>2. \A i \in 1 .. m : Touched(s[i]) \cap Versions = {}
    BY DEF Quiet
  <1> HIDE DEF x, m
  <1>3. ASSUME NEW i \in 1 .. m + Len(r) PROVE Touched(x[i]) \cap Versions = {}
    <2>1. CASE i <= m
      BY <1>1, <1>2, <2>1
    <2>2. CASE i > m
      <3>1. i - m \in 1 .. Len(r) /\ (i - m) + m = i
        BY <1>1, <2>2
      <3>2. x[i] = r[i - m]
        BY <1>1, <3>1
      <3> QED BY <3>1, <3>2 DEF Quiet
    <2> QED BY <1>1, <2>1, <2>2
  <1>4. Quiet(x)
    BY <1>1, <1>3 DEF Quiet
  <1> QED BY <1>4 DEF x

LEMMA CreatingIsQuiet ==
  ASSUME NEW names \in Seq(Things), First(names, Len(names)) \cap Versions = {}
  PROVE  Creating(names) \in Seq(Tame) /\ Quiet(Creating(names))
  <1> DEFINE s == Creating(names)
  <1>1. /\ s \in Seq(Statements) /\ Len(s) = Len(names)
        /\ \A i \in 1 .. Len(names) : s[i] = Create(names[i])
    BY CreatingIsScript
  <1> HIDE DEF s
  <1>2. \A i \in 1 .. Len(s) : s[i].off = {} /\ s[i].on = {names[i]}
    <2> SUFFICES ASSUME NEW i \in 1 .. Len(s) PROVE s[i].off = {} /\ s[i].on = {names[i]}
      OBVIOUS
    <2>1. s[i] = Create(names[i])
      BY <1>1
    <2> QED BY <2>1 DEF Create
  <1>3. \A i \in 1 .. Len(s) : s[i] \in Tame
    BY <1>1, <1>2 DEF Tame
  <1>4. s \in Seq(Tame)
    BY <1>1, <1>3
  <1>5. Quiet(s)
    BY <1>1, <1>2 DEF Quiet, Touched, First
  <1> QED BY <1>4, <1>5 DEF s

LEMMA DroppingIsQuiet ==
  ASSUME NEW names \in Seq(Things), First(names, Len(names)) \cap (Versions \cup Types) = {}
  PROVE  Dropping(names) \in Seq(Tame) /\ Quiet(Dropping(names))
  <1> DEFINE s == Dropping(names)
  <1>1. /\ s \in Seq(Statements) /\ Len(s) = Len(names)
        /\ \A i \in 1 .. Len(names) : s[i] = Drop(names[i])
    BY DroppingIsScript
  <1> HIDE DEF s
  <1>2. \A i \in 1 .. Len(s) : s[i].off = {names[i]} /\ s[i].on = {}
    <2> SUFFICES ASSUME NEW i \in 1 .. Len(s) PROVE s[i].off = {names[i]} /\ s[i].on = {}
      OBVIOUS
    <2>1. s[i] = Drop(names[i])
      BY <1>1
    <2> QED BY <2>1 DEF Drop
  <1>3. \A i \in 1 .. Len(s) : s[i] \in Tame
    BY <1>1, <1>2 DEF Tame, First
  <1>4. s \in Seq(Tame)
    BY <1>1, <1>3
  <1>5. Quiet(s)
    BY <1>1, <1>2 DEF Quiet, Touched, First
  <1> QED BY <1>4, <1>5 DEF s

LEMMA MigrationIsQuiet ==
  ASSUME NEW j \in 1 .. Latest
  PROVE  /\ Migration[j].upgrade \in Seq(Tame) /\ Quiet(Migration[j].upgrade)
         /\ Migration[j].downgrade \in Seq(Tame) /\ Quiet(Migration[j].downgrade)
  <1>1. First(<<"refresh_tokens">>, 1) = {"refresh_tokens"} /\ First(<<"tags">>, 1) = {"tags"}
    <2>1. \A x : <<x>>[1] = x /\ 1 .. 1 = {1}
      OBVIOUS
    <2> QED BY <2>1 DEF First
  <1>2. Len(<<"refresh_tokens">>) = 1 /\ Len(<<"tags">>) = 1
    OBVIOUS
  <1>3. CASE j = 1
    <2>1. /\ First(InitTypes, Len(InitTypes)) \cap Versions = {}
          /\ First(InitTables, Len(InitTables)) \cap (Versions \cup Types) = {}
      BY ListFacts, MarkFacts DEF Mapped, Tables
    <2> QED BY <1>3, <2>1, MigrationFacts, ListFacts, CreatingIsQuiet, DroppingIsQuiet
  <1>4. CASE j = 2
    <2> DEFINE names == <<"refresh_tokens">>
    <2>1. names \in Seq(Things) /\ First(names, Len(names)) = {"refresh_tokens"}
      BY <1>1, <1>2, ListFacts
    <2>2. Migration[j].upgrade = Creating(names) /\ Migration[j].downgrade = Dropping(names)
      BY <1>4, MigrationFacts
    <2> HIDE DEF names
    <2>3. "refresh_tokens" \notin Versions \cup Types
      BY MarkFacts DEF Mapped, Tables
    <2>4. First(names, Len(names)) \cap (Versions \cup Types) = {}
      BY <2>1, <2>3
    <2> QED BY <2>1, <2>2, <2>4, CreatingIsQuiet, DroppingIsQuiet
  <1>5. CASE j = 3
    <2> DEFINE names == <<"tags">>
    <2>1. names \in Seq(Things) /\ First(names, Len(names)) = {"tags"}
      BY <1>1, <1>2, ListFacts
    <2>2. Migration[j].upgrade = Creating(names) /\ Migration[j].downgrade = Dropping(names)
      BY <1>5, MigrationFacts
    <2> HIDE DEF names
    <2>3. "tags" \notin Versions \cup Types
      BY MarkFacts DEF Mapped, Tables
    <2>4. First(names, Len(names)) \cap (Versions \cup Types) = {}
      BY <2>1, <2>3
    <2> QED BY <2>1, <2>2, <2>4, CreatingIsQuiet, DroppingIsQuiet
  <1> QED BY <1>3, <1>4, <1>5 DEF Latest

LEMMA MoveIsTame ==
  ASSUME NEW j \in 0 .. Latest, NEW k \in 0 .. Latest
  PROVE  Move(j, k) \in Seq(Tame)
  <1> DEFINE e == [off |-> Mark(j), on |-> Mark(k)]
  <1>1. e.off = Mark(j) /\ e.on = Mark(k) /\ e \in Statements
    BY MarkFacts DEF Statements, Things
  <1> HIDE DEF e
  <1>2. e \in Tame
    BY <1>1, MarkFacts DEF Tame
  <1>3. <<e>> \in Seq(Tame)
    BY <1>2
  <1> QED BY <1>3, MoveFacts DEF e

\* A quiet script and the change of mark after it.
LEMMA MoveDecides ==
  ASSUME NEW s \in Seq(Tame), Quiet(s), NEW j \in 0 .. Latest, NEW k \in 0 .. Latest, NEW had,
         j = 0 => k = 1 /\ ("user_role" \in had \/ \E i \in 1 .. Len(s) : "user_role" \in s[i].on)
  PROVE  s \o Move(j, k) \in Seq(Tame) /\ Decides(s \o Move(j, k), j, had)
  <1> DEFINE m == Move(j, k)
             x == s \o m
  <1>1. m \in Seq(Tame) /\ Len(m) = 1 /\ m[1].off = Mark(j) /\ m[1].on = Mark(k)
    BY MoveFacts, MoveIsTame
  <1> HIDE DEF m
  <1>2. /\ x \in Seq(Tame) /\ Len(x) = Len(s) + 1 /\ Len(s) \in Nat
        /\ \A i \in 1 .. Len(s) : x[i] = s[i]
        /\ \A i \in 1 .. 1 : x[i + Len(s)] = m[i]
    BY <1>1, ConcatFacts
  <1> HIDE DEF x
  <1> DEFINE n == Len(s) + 1
  <1>3. x[n] = m[1]
    <2>1. 1 \in 1 .. 1 /\ 1 + Len(s) = n
      BY <1>2
    <2> QED BY <1>2, <2>1
  <1>4. n \in 1 .. Len(x) /\ 1 .. n - 1 = 1 .. Len(s)
    BY <1>2
  <1> HIDE DEF n
  <1>5. \A i \in 1 .. n - 1 : Touched(x[i]) \cap Versions = {}
    BY <1>2, <1>4 DEF Quiet
  <1>6. x[n].off \cap Versions = Mark(j)
    BY <1>1, <1>3, MarkFacts
  <1>7. j = 0 => /\ x[n].on = {Revisions[1]}
                 /\ "user_role" \in had \/ \E i \in 1 .. n - 1 : "user_role" \in x[i].on
    BY <1>1, <1>2, <1>3, <1>4 DEF Mark
  <1>8. Decides(x, j, had)
    BY <1>4, <1>5, <1>6, <1>7 DEF Decides
  <1> QED BY <1>2, <1>8 DEF x, m

LEMMA UpgradeDecides ==
  ASSUME NEW j \in 1 .. Latest
  PROVE  /\ Migration[j].upgrade \o Move(j - 1, j) \in Seq(Tame)
         /\ Decides(Migration[j].upgrade \o Move(j - 1, j), j - 1, {})
  <1> DEFINE s == Migration[j].upgrade
  <1>1. s \in Seq(Tame) /\ Quiet(s) /\ j - 1 \in 0 .. Latest /\ j \in 0 .. Latest
    BY MigrationIsQuiet DEF Latest
  <1>2. ASSUME j - 1 = 0 PROVE j = 1 /\ \E i \in 1 .. Len(s) : "user_role" \in s[i].on
    <2>1. j = 1 /\ s = Creating(InitTypes)
      BY <1>2, MigrationFacts
    <2>2. InitTypes[1] = "user_role" /\ 1 \in 1 .. Len(InitTypes)
      BY ListFacts DEF InitTypes
    <2>3. s[1] = Create("user_role") /\ Len(s) = Len(InitTypes)
      BY <2>1, <2>2, ListFacts, CreatingIsScript
    <2> QED BY <2>1, <2>2, <2>3 DEF Create
  <1> HIDE DEF s
  <1>3. s \o Move(j - 1, j) \in Seq(Tame) /\ Decides(s \o Move(j - 1, j), j - 1, {})
    BY <1>1, <1>2, MoveDecides
  <1> QED BY <1>3 DEF s

LEMMA DowngradeDecides ==
  ASSUME NEW j \in 1 .. Latest
  PROVE  /\ Migration[j].downgrade \o Move(j, j - 1) \in Seq(Tame)
         /\ Decides(Migration[j].downgrade \o Move(j, j - 1), j, {})
  <1>1. /\ Migration[j].downgrade \in Seq(Tame) /\ Quiet(Migration[j].downgrade)
        /\ j - 1 \in 0 .. Latest /\ j \in 0 .. Latest /\ j # 0
    BY MigrationIsQuiet DEF Latest
  <1> QED BY <1>1, MoveDecides

LEMMA PiecesDecide ==
  ASSUME NEW k \in 0 .. Latest, NEW t \in 0 .. Latest, NEW j \in 1 .. Latest
  PROVE  /\ Up(k, t, j) \in Seq(Tame) /\ Down(k, t, j) \in Seq(Tame)
         /\ j <= k \/ t < j => Up(k, t, j) = <<>>
         /\ j <= t \/ k < j => Down(k, t, j) = <<>>
         /\ k < t /\ j = k + 1 => Decides(Up(k, t, j), k, {})
         /\ t < k /\ j = k => Decides(Down(k, t, j), k, {})
  <1>1. <<>> \in Seq(Tame)
    OBVIOUS
  <1>2. Up(k, t, j) \in Seq(Tame) /\ Down(k, t, j) \in Seq(Tame)
    BY <1>1, UpgradeDecides, DowngradeDecides DEF Up, Down
  <1>3. j <= k \/ t < j => Up(k, t, j) = <<>>
    BY DEF Up, Latest
  <1>4. j <= t \/ k < j => Down(k, t, j) = <<>>
    BY DEF Down, Latest
  <1>5. ASSUME k < t /\ j = k + 1 PROVE Decides(Up(k, t, j), k, {})
    <2>1. k < j /\ j <= t /\ j - 1 = k
      BY <1>5 DEF Latest
    <2> QED BY <2>1, UpgradeDecides DEF Up
  <1>6. ASSUME t < k /\ j = k PROVE Decides(Down(k, t, j), k, {})
    BY <1>6, DowngradeDecides DEF Down
  <1> QED BY <1>2, <1>3, <1>4, <1>5, <1>6

LEMMA OpenerIsQuiet ==
  /\ Opener \in Seq(Tame) /\ Quiet(Opener)
  /\ \A i \in 1 .. Len(Opener) : Touched(Opener[i]) \subseteq {"alembic_version"}
  <1> DEFINE e == Create("alembic_version")
  <1>1. e.off = {} /\ e.on = {"alembic_version"} /\ e \in Statements
    BY DEF Create, Statements, Things, Tables
  <1> HIDE DEF e
  <1>2. e \in Tame /\ Touched(e) = {"alembic_version"} /\ Touched(e) \cap Versions = {}
    BY <1>1, MarkFacts DEF Tame, Touched
  <1>3. \A s \in {<<>>, <<e>>} :
          /\ s \in Seq(Tame)
          /\ \A i \in 1 .. Len(s) : s[i] = e
    <2> SUFFICES ASSUME NEW s \in {<<>>, <<e>>}
                 PROVE  s \in Seq(Tame) /\ \A i \in 1 .. Len(s) : s[i] = e
      OBVIOUS
    <2>1. CASE s = <<>>
      BY <2>1
    <2>2. CASE s = <<e>>
      BY <1>2, <2>2
    <2> QED BY <2>1, <2>2
  <1>4. Opener \in {<<>>, <<e>>}
    BY DEF Opener, e
  <1>5. /\ Opener \in Seq(Tame)
        /\ \A i \in 1 .. Len(Opener) : Opener[i] = e
    BY <1>3, <1>4
  <1> QED BY <1>2, <1>5 DEF Quiet

LEMMA DecidesEither ==
  ASSUME NEW s \in Seq(Tame), NEW r \in Seq(Tame), NEW k, NEW had,
         Decides(s, k, had) \/ (s = <<>> /\ Decides(r, k, had))
  PROVE  s \o r \in Seq(Tame) /\ Decides(s \o r, k, had)
  <1>1. s \o r \in Seq(Tame)
    OBVIOUS
  <1>2. CASE Decides(s, k, had)
    BY <1>1, <1>2, DecidesAfter
  <1>3. CASE s = <<>> /\ Decides(r, k, had)
    <2>1. s \o r = r
      BY <1>3
    <2> QED BY <1>1, <1>3, <2>1
  <1> QED BY <1>2, <1>3

\* Every plan begins as it should.
LEMMA PlanOpens ==
  ASSUME NEW k \in 0 .. Latest, NEW t \in 0 .. Latest
  PROVE  Plan(k, t) \in Seq(Tame) /\ Opening(Plan(k, t), k, t, {}, {})
  <1>1. /\ 1 \in 1 .. Latest /\ 2 \in 1 .. Latest /\ 3 \in 1 .. Latest
        /\ 0 .. Latest = {0, 1, 2, 3}
    BY DEF Latest
  <1> DEFINE D(s) == Decides(s, k, {})
             u1 == Up(k, t, 1)
             u2 == Up(k, t, 2)
             u3 == Up(k, t, 3)
             d1 == Down(k, t, 1)
             d2 == Down(k, t, 2)
             d3 == Down(k, t, 3)
  <1>2. /\ u1 \in Seq(Tame) /\ u2 \in Seq(Tame) /\ u3 \in Seq(Tame)
        /\ d1 \in Seq(Tame) /\ d2 \in Seq(Tame) /\ d3 \in Seq(Tame)
        /\ Opener \in Seq(Tame) /\ Quiet(Opener)
    BY <1>1, PiecesDecide, OpenerIsQuiet
  <1>3. \/ k < t /\ (D(u1) \/ (u1 = <<>> /\ D(u2)) \/ (u1 = <<>> /\ u2 = <<>> /\ D(u3)))
        \/ /\ t < k /\ u1 = <<>> /\ u2 = <<>> /\ u3 = <<>>
           /\ D(d3) \/ (d3 = <<>> /\ D(d2)) \/ (d3 = <<>> /\ d2 = <<>> /\ D(d1))
        \/ /\ k = t /\ u1 = <<>> /\ u2 = <<>> /\ u3 = <<>>
           /\ d1 = <<>> /\ d2 = <<>> /\ d3 = <<>>
    <2> DEFINE P(j, u, d) == /\ j <= k \/ t < j => u = <<>>
                             /\ j <= t \/ k < j => d = <<>>
                             /\ k < t /\ j = k + 1 => D(u)
                             /\ t < k /\ j = k => D(d)
    <2>1. P(1, u1, d1) /\ P(2, u2, d2) /\ P(3, u3, d3)
      BY <1>1, PiecesDecide
    <2> HIDE DEF u1, u2, u3, d1, d2, d3, D
    <2> QED BY <1>1, <2>1
  <1>4. Plan(k, t) = (Opener \o (u1 \o (u2 \o u3))) \o (d3 \o (d2 \o d1))
    BY DEF Plan, Opener
  <1> HIDE DEF u1, u2, u3, d1, d2, d3
  <1>5. \A s, r \in Seq(Tame) :
          /\ s \o r \in Seq(Tame) /\ (s = <<>> => s \o r = r) /\ (r = <<>> => s \o r = s)
    OBVIOUS
  <1> DEFINE u23 == u2 \o u3
             u == u1 \o u23
             ou == Opener \o u
             d21 == d2 \o d1
             d == d3 \o d21
  <1>6. /\ u23 \in Seq(Tame) /\ (u2 = <<>> => u23 = u3)
        /\ d21 \in Seq(Tame) /\ (d2 = <<>> => d21 = d1)
    BY <1>2, <1>5
  <1>7. /\ D(u2) \/ (u2 = <<>> /\ D(u3)) => D(u23)
        /\ D(d2) \/ (d2 = <<>> /\ D(d1)) => D(d21)
    BY <1>2, DecidesEither
  <1> HIDE DEF u23, d21
  <1>8. /\ u \in Seq(Tame) /\ (u1 = <<>> => u = u23)
        /\ d \in Seq(Tame) /\ (d3 = <<>> => d = d21)
    BY <1>2, <1>5, <1>6
  <1>9. /\ D(u1) \/ (u1 = <<>> /\ D(u23)) => D(u)
        /\ D(d3) \/ (d3 = <<>> /\ D(d21)) => D(d)
    BY <1>2, <1>6, DecidesEither
  <1>10. Plan(k, t) = ou \o d
    BY <1>4 DEF u23, d21
  <1> HIDE DEF u, d
  <1>11. ou \in Seq(Tame) /\ (D(u) => D(ou)) /\ (u = <<>> => ou = Opener)
    BY <1>2, <1>5, <1>8, DecidesBefore
  <1> HIDE DEF ou
  <1>12. Plan(k, t) \in Seq(Tame)
    BY <1>5, <1>8, <1>10, <1>11
  <1>13. D(ou) => D(Plan(k, t))
    BY <1>8, <1>10, <1>11, DecidesAfter
  <1>14. ou = Opener /\ D(d) => D(Plan(k, t))
    BY <1>2, <1>8, <1>10, <1>11, DecidesBefore
  <1>15. CASE k < t
    <2>1. D(u)
      BY <1>3, <1>7, <1>9, <1>15
    <2> QED BY <1>11, <1>12, <1>13, <1>15, <2>1 DEF Opening
  <1>16. CASE t < k
    <2>1. ou = Opener
      BY <1>3, <1>6, <1>8, <1>11, <1>16
    <2>2. D(d)
      BY <1>3, <1>7, <1>9, <1>16
    <2> QED BY <1>12, <1>14, <1>16, <2>1, <2>2 DEF Opening
  <1>17. CASE k = t
    <2>1. ou = Opener /\ d = <<>>
      BY <1>3, <1>6, <1>8, <1>11, <1>17
    <2>2. Plan(k, t) = Opener
      BY <1>2, <1>5, <1>8, <1>10, <2>1
    <2> QED BY <1>12, <1>17, <2>2, OpenerIsQuiet DEF Opening
  <1> QED BY <1>15, <1>16, <1>17

--------------------------------------------------------------------------------
\* The inductive invariant.

\* The row of alembic_version that a run has locked when it has taken away the mark of k.
Key(k) == IF k = 0 THEN Revisions[1] ELSE Revisions[k]

\* Whatever of revision k the run has found, with what it has made and without what is gone
\* the rest of its statements makes revision t of it.
Aims(s, M, G, k, t) ==
  \A X : Fits(X, k) => \E Y : Leads((X \ G) \cup M, s, Y, FALSE) /\ Fits(Y, t)

\* Run p has read some revision; it holds the row and the database is still there, or the
\* statement that will find out is ahead.  (d is the database, o the locks.)
OnCourse(p, d, s, M, G, o) ==
  \E k, t \in 0 .. Latest :
    /\ Aims(s, M, G, k, t)
    /\ IF (M \cup G) \cap Versions # {}
       THEN d \cap Versions = Mark(k) /\ o[Key(k)] = {p}
       ELSE Opening(s, k, t, M, M \cup G)

\* The type whose creation tells that the database was without a mark.
NewType(d, M, G) ==
  /\ G \cap Types = {}
  /\ "user_role" \in M => "user_role" \notin d

Courses ==
  \A p \in Runs : Running(p) =>
    /\ OnCourse(p, db, todo[p], made[p], gone[p], owner)
    /\ NewType(db, made[p], gone[p])

\* Every statement of an undisturbed run will be possible, but for types left behind.
Clear(d, s, M, G) ==
  \/ d \cap Versions = Mark(0) /\ d \cap Types # {}
  \/ \E W : Leads((d \ G) \cup M, s, W, TRUE)

Undisturbed ==
  \A p \in Runs : Running(p) /\ alone[p] =>
    /\ \A q \in Runs : Running(q) => q = p
    /\ Clear(db, todo[p], made[p], gone[p])

RunsTyped ==
  /\ todo \in [Runs -> Seq(Tame)]
  /\ made \in [Runs -> SUBSET Things]
  /\ gone \in [Runs -> SUBSET Things]
  /\ \A p \in Runs : ~Running(p) => made[p] = {} /\ gone[p] = {}

SchemaInv == MTypeOK /\ RunsTyped /\ SchemaMatchesRevision /\ Courses /\ Undisturbed

LEMMA FitsSchema ==
  SchemaMatchesRevision <=> \E k \in 0 .. Latest : Fits(db, k)
  BY DEF SchemaMatchesRevision, At, Fits, Mark

LEMMA KeyFacts ==
  ASSUME NEW k \in 0 .. Latest
  PROVE  Key(k) \in Versions /\ Key(k) \in Things
  BY RevisionFacts DEF Key, Latest, Things

LEMMA LockFacts ==
  ASSUME NEW e \in Tame
  PROVE  /\ Touched(e) \subseteq Locks(e) /\ Locks(e) \subseteq Things
         /\ Dropped(e) \subseteq e.off \cup {"tags"} /\ e.off \subseteq Dropped(e)
         /\ Dropped(e) \subseteq Things /\ e.on \subseteq Things
         /\ Dropped(e) \cap Types = {} /\ Dropped(e) \cap Versions = e.off \cap Versions
  <1>1. e.off \subseteq Things /\ e.on \subseteq Things /\ e.off \cap Types = {}
    BY DEF Tame, Statements
  <1>2. /\ "tags" \in Things /\ Tables \subseteq Things
        /\ "tags" \notin Types \cup Versions
    BY MarkFacts DEF Things, Mapped
  <1> QED BY <1>1, <1>2 DEF Touched, Locks, Dropped

LEMMA AimsOn ==
  ASSUME NEW s \in Seq(Tame), s # <<>>, NEW M, NEW G, NEW k, NEW t, Aims(s, M, G, k, t)
  PROVE  Aims(Tail(s), (M \ Dropped(Head(s))) \cup Head(s).on,
              (G \cup Dropped(Head(s))) \ Head(s).on, k, t)
  <1> DEFINE e == Head(s)
             M2 == (M \ Dropped(e)) \cup e.on
             G2 == (G \cup Dropped(e)) \ e.on
  <1> SUFFICES ASSUME NEW X, Fits(X, k)
               PROVE  \E Y : Leads((X \ G2) \cup M2, Tail(s), Y, FALSE) /\ Fits(Y, t)
    BY DEF Aims
  <1>1. PICK Y : Leads((X \ G) \cup M, s, Y, FALSE) /\ Fits(Y, t)
    BY DEF Aims
  <1>2. Leads(Apply((X \ G) \cup M, e), Tail(s), Y, FALSE)
    BY <1>1, LeadsOn
  <1>3. Apply((X \ G) \cup M, e) = (X \ G2) \cup M2
    BY DEF Apply
  <1> QED BY <1>1, <1>2, <1>3

LEMMA ClearOn ==
  ASSUME NEW d, NEW s \in Seq(Tame), s # <<>>, NEW M, NEW G, Clear(d, s, M, G)
  PROVE  /\ Clear(d, Tail(s), (M \ Dropped(Head(s))) \cup Head(s).on,
                  (G \cup Dropped(Head(s))) \ Head(s).on)
         /\ (d \cap Versions = Mark(0) /\ d \cap Types # {}) \/ Can((d \ G) \cup M, Head(s))
  <1> DEFINE e == Head(s)
             M2 == (M \ Dropped(e)) \cup e.on
             G2 == (G \cup Dropped(e)) \ e.on
  <1>1. CASE d \cap Versions = Mark(0) /\ d \cap Types # {}
    BY <1>1 DEF Clear
  <1>2. CASE \E W : Leads((d \ G) \cup M, s, W, TRUE)
    <2>1. PICK W : Leads((d \ G) \cup M, s, W, TRUE)
      BY <1>2
    <2>2. Leads(Apply((d \ G) \cup M, e), Tail(s), W, TRUE) /\ Can((d \ G) \cup M, e)
      BY <2>1, LeadsOn
    <2>3. Apply((d \ G) \cup M, e) = (d \ G2) \cup M2
      BY DEF Apply
    <2> QED BY <2>2, <2>3 DEF Clear
  <1> QED BY <1>1, <1>2 DEF Clear

\* What the first of the statements s makes of what a run has made and dropped, and of the locks.
Executed(p, d, s, M, G, o, M2, G2, o2) ==
  /\ s # <<>>
  /\ Head(s).off \subseteq (d \ G) \cup M /\ Head(s).on \cap ((d \ G) \cup M) = {}
  /\ M2 = (M \ Dropped(Head(s))) \cup Head(s).on
  /\ G2 = (G \cup Dropped(Head(s))) \ Head(s).on
  /\ \A x \in Things : o2[x] = IF x \in Locks(Head(s)) THEN {p} ELSE o[x]

LEMMA CourseOn ==
  ASSUME NEW p, NEW d, NEW s \in Seq(Tame), NEW M, NEW G, NEW o, NEW M2, NEW G2, NEW o2,
         Executed(p, d, s, M, G, o, M2, G2, o2), OnCourse(p, d, s, M, G, o), NewType(d, M, G),
         \E k2 \in 0 .. Latest : Fits(d, k2)
  PROVE  OnCourse(p, d, Tail(s), M2, G2, o2) /\ NewType(d, M2, G2)
  <1> SUFFICES ASSUME s # <<>>,
                      Head(s).off \subseteq (d \ G) \cup M, Head(s).on \cap ((d \ G) \cup M) = {},
                      M2 = (M \ Dropped(Head(s))) \cup Head(s).on,
                      G2 = (G \cup Dropped(Head(s))) \ Head(s).on,
                      \A x \in Things : o2[x] = IF x \in Locks(Head(s)) THEN {p} ELSE o[x]
               PROVE  OnCourse(p, d, Tail(s), M2, G2, o2) /\ NewType(d, M2, G2)
    BY DEF Executed
  <1> PICK k2 \in 0 .. Latest : Fits(d, k2)
    OBVIOUS
  <1> DEFINE e == Head(s)
  <1>1. e \in Tame /\ Len(s) \in Nat \ {0} /\ s[1] = e
    BY TailFacts
  <1>2. /\ Touched(e) \subseteq Locks(e) /\ Dropped(e) \cap Types = {}
        /\ Dropped(e) \cap Versions = e.off \cap Versions
        /\ Dropped(e) \subseteq e.off \cup {"tags"}
        /\ e.off \subseteq Dropped(e)
    BY <1>1, LockFacts
  <1>3. M2 \cup G2 = (M \cup G) \cup Dropped(e) \cup e.on
    OBVIOUS
  <1>4. NewType(d, M2, G2)
    <2>1. "user_role" \in Types
      BY DEF Types
    <2> QED BY <1>2, <2>1 DEF NewType
  <1>5. PICK k \in 0 .. Latest, t \in 0 .. Latest :
          /\ Aims(s, M, G, k, t)
          /\ IF (M \cup G) \cap Versions # {}
             THEN d \cap Versions = Mark(k) /\ o[Key(k)] = {p}
             ELSE Opening(s, k, t, M, M \cup G)
    BY DEF OnCourse
  <1>6. Aims(Tail(s), M2, G2, k, t)
    BY <1>5, AimsOn
  <1>7. CASE (M \cup G) \cap Versions # {}
    <2>1. (M2 \cup G2) \cap Versions # {}
      BY <1>3, <1>7
    <2>2. o2[Key(k)] = {p}
      BY <1>5, <1>7, KeyFacts
    <2> QED BY <1>4, <1>5, <1>6, <1>7, <2>1, <2>2 DEF OnCourse
  <1>8. CASE (M \cup G) \cap Versions = {} /\ k = t
    <2>1. Touched(e) \subseteq {"alembic_version"} /\ M \cup G \subseteq {"alembic_version"}
      <3>1. /\ \A i \in 1 .. Len(s) : Touched(s[i]) \subseteq {"alembic_version"}
            /\ M \cup G \subseteq {"alembic_version"}
        BY <1>5, <1>8 DEF Opening
      <3>2. 1 \in 1 .. Len(s)
        BY <1>1
      <3> HIDE DEF e
      <3> QED BY <1>1, <3>1, <3>2
    <2>2. Dropped(e) = e.off
      BY <2>1 DEF Dropped, Touched
    <2>3. M2 \cup G2 \subseteq {"alembic_version"} /\ (M2 \cup G2) \cap Versions = {}
      BY <1>3, <2>1, <2>2, MarkFacts DEF Touched
    <2>4. \A i \in 1 .. Len(Tail(s)) : Touched(Tail(s)[i]) \subseteq {"alembic_version"}
      <3>1. \A i \in 1 .. Len(s) : Touched(s[i]) \subseteq {"alembic_version"}
        BY <1>5, <1>8 DEF Opening
      <3> DEFINE r == Tail(s)
      <3>2. Len(r) = Len(s) - 1 /\ \A i \in 1 .. Len(s) - 1 : r[i] = s[i + 1]
        BY TailFacts
      <3> HIDE DEF r
      <3>3. \A i \in 1 .. Len(r) : Touched(r[i]) \subseteq {"alembic_version"}
        <4> SUFFICES ASSUME NEW i \in 1 .. Len(r) PROVE Touched(r[i]) \subseteq {"alembic_version"}
          OBVIOUS
        <4>1. i \in 1 .. Len(s) - 1 /\ i + 1 \in 1 .. Len(s)
          BY <1>1, <3>2
        <4> QED BY <3>1, <3>2, <4>1
      <3> QED BY <3>3 DEF r
    <2>5. Opening(Tail(s), k, t, M2, M2 \cup G2)
      BY <1>8, <2>3, <2>4 DEF Opening
    <2> QED BY <1>4, <1>6, <2>3, <2>5 DEF OnCourse
  <1>9. CASE (M \cup G) \cap Versions = {} /\ k # t
    <2>1. Decides(s, k, M)
      BY <1>5, <1>9 DEF Opening
    <2>2. CASE Touched(e) \cap Versions = {}
      <3>1. Decides(Tail(s), k, M2)
        BY <2>1, <2>2, DecidesOn
      <3>2. (M2 \cup G2) \cap Versions = {}
        BY <1>2, <1>3, <1>9, <2>2 DEF Touched
      <3>3. Opening(Tail(s), k, t, M2, M2 \cup G2)
        BY <1>9, <3>1 DEF Opening
      <3> QED BY <1>4, <1>6, <3>2, <3>3 DEF OnCourse
    <2>3. CASE Touched(e) \cap Versions # {}
      <3>1. e.off \cap Versions = Mark(k) /\ (k = 0 => e.on = {Revisions[1]} /\ "user_role" \in M)
        BY <2>1, <2>3, DecidesOn
      <3>2. (M2 \cup G2) \cap Versions # {}
        BY <1>2, <1>3, <2>3 DEF Touched
      <3>3. Key(k) \in Touched(e) /\ Key(k) \in Things
        BY <3>1, KeyFacts DEF Key, Mark, Touched
      <3>4. o2[Key(k)] = {p}
        BY <1>2, <3>3
      <3>5. d \cap Versions = Mark(k)
        <4>1. CASE k = 0
          <5>1. "user_role" \notin d /\ "user_role" \in Types
            BY <3>1, <4>1 DEF NewType, Types
          <5>2. k2 = 0
            BY <5>1 DEF Fits, Latest
          <5> QED BY <4>1, <5>2 DEF Fits
        <4>2. CASE k # 0
          <5>1. Revisions[k] \in e.off /\ Revisions[k] \in Versions
            BY <3>1, <4>2 DEF Mark
          <5>2. Revisions[k] \in d
            BY <1>9, <5>1
          <5>3. Mark(k) = {Revisions[k]} /\ d \cap Versions = Mark(k2)
            BY <4>2 DEF Mark, Fits
          <5>4. k2 # 0 /\ Revisions[k] = Revisions[k2]
            BY <5>1, <5>2, <5>3 DEF Mark
          <5>5. Mark(k2) = {Revisions[k2]}
            BY <5>4 DEF Mark
          <5> QED BY <5>3, <5>4, <5>5
        <4> QED BY <4>1, <4>2
      <3> QED BY <1>4, <1>6, <3>2, <3>4, <3>5 DEF OnCourse
    <2> QED BY <2>2, <2>3
  <1> QED BY <1>7, <1>8, <1>9

LEMMA SchemaInit ==
  ASSUME MInit
  PROVE  SchemaInv
  <1>1. MTypeOK /\ RunsTyped
    <2>1. <<>> \in Seq(Tame) /\ DOMAIN <<>> = {}
      OBVIOUS
    <2>2. todo \in [Runs -> Seq(Tame)] /\ \A p \in Runs : DOMAIN todo[p] = {}
      BY <2>1 DEF MInit
    <2>3. RunsTyped
      BY <2>2 DEF MInit, RunsTyped
    <2>4. /\ stage \in [Runs -> {"off", "running", "done", "refused", "killed"}]
          /\ owner \in [Things -> {{}} \cup {{q} : q \in Runs}]
          /\ alone \in [Runs -> BOOLEAN]
          /\ \A x \in Things : owner[x] = {}
      BY DEF MInit
    <2>5. runs \in 0 .. MaxRuns
      BY MaxRunsAssumption DEF MInit
    <2> QED BY <2>2, <2>3, <2>4, <2>5 DEF MTypeOK, MInit
  <1>2. Fits(db, 0) /\ 0 \in 0 .. Latest
    BY DEF MInit, Fits, Schema, Mark, Latest
  <1>3. SchemaMatchesRevision
    BY <1>2, FitsSchema
  <1>4. \A p \in Runs : ~Running(p)
    BY DEF MInit, Running
  <1> QED BY <1>1, <1>3, <1>4 DEF SchemaInv, Courses, Undisturbed

\* What a run may start with.
LEMMA CourseBegins ==
  ASSUME NEW p, NEW o, NEW k \in 0 .. Latest, NEW t \in 0 .. Latest, Fits(db, k)
  PROVE  /\ OnCourse(p, db, Plan(k, t), {}, {}, o) /\ NewType(db, {}, {})
         /\ Clear(db, Plan(k, t), {}, {})
  <1>1. Aims(Plan(k, t), {}, {}, k, t)
    <2> SUFFICES ASSUME NEW X, Fits(X, k)
                 PROVE  \E Y : Leads((X \ {}) \cup {}, Plan(k, t), Y, FALSE) /\ Fits(Y, t)
      BY DEF Aims
    <2>1. (X \ {}) \cup {} = X
      OBVIOUS
    <2> QED BY <2>1, PlanLeads
  <1>2. OnCourse(p, db, Plan(k, t), {}, {}, o)
    <2>1. {} \cup {} = {} /\ {} \cap Versions = {}
      OBVIOUS
    <2> QED BY <1>1, <2>1, PlanOpens DEF OnCourse
  <1>3. CASE k = 0 /\ t > 0 => db \cap Types = {}
    <2>1. \E W : Leads(db, Plan(k, t), W, TRUE)
      BY <1>3, PlanLeads
    <2>2. (db \ {}) \cup {} = db
      OBVIOUS
    <2> QED BY <1>2, <2>1, <2>2 DEF Clear, NewType
  <1>4. CASE k = 0 /\ db \cap Types # {}
    BY <1>2, <1>4 DEF Clear, NewType, Fits
  <1> QED BY <1>3, <1>4

LEMMA BeginStep ==
  ASSUME SchemaInv, NEW p \in Runs, BeginRun(p)
  PROVE  SchemaInv'
  <1>0. PICK k \in 0 .. Latest, t \in 0 .. Latest :
          At(k) /\ todo' = [todo EXCEPT ![p] = Plan(k, t)]
    BY DEF BeginRun
  <1>1. /\ ~Running(p) /\ runs < MaxRuns /\ runs' = runs + 1
        /\ stage' = [stage EXCEPT ![p] = "running"]
        /\ alone' = [q \in Runs |-> IF q = p THEN \A r \in Runs : ~Running(r)
                                    ELSE alone[q] /\ ~Running(q)]
        /\ UNCHANGED <<db, made, gone, owner, admin, service>>
    BY DEF BeginRun
  <1>2. Fits(db, k)
    <2>1. PICK j \in 0 .. Latest : Fits(db, j)
      BY FitsSchema DEF SchemaInv
    <2>2. Mark(j) = Mark(k)
      BY <1>0, <2>1 DEF Fits, At, Mark
    <2> QED BY <2>1, <2>2, MarkFacts
  <1>3. Plan(k, t) \in Seq(Tame)
    BY PlanOpens
  <1> DEFINE s == Plan(k, t)
  <1> HIDE DEF s
  <1>4. todo' = [todo EXCEPT ![p] = s] /\ s \in Seq(Tame)
    BY <1>0, <1>3 DEF s
  <1>5. \A q \in Runs : Running(q)' <=> (q = p \/ Running(q))
    BY <1>1 DEF Running, SchemaInv, MTypeOK
  <1>6. RunsTyped'
    BY <1>1, <1>4, <1>5 DEF SchemaInv, RunsTyped
  <1>7. MTypeOK'
    <2>1. \A q \in Runs : \A i \in DOMAIN todo'[q] : todo'[q][i] \in Statements
      <3>1. \A q \in Runs : todo'[q] \in Seq(Tame)
        BY <1>6 DEF RunsTyped
      <3>2. \A r \in Seq(Tame) : \A i \in DOMAIN r : r[i] \in Statements
        BY DEF Tame
      <3> QED BY <3>1, <3>2
    <2>2. \A q \in Runs :
            /\ made'[q] \subseteq Things /\ gone'[q] \subseteq Things
            /\ made'[q] \cap gone'[q] = {}
            /\ made'[q] \cup gone'[q] \subseteq {x \in Things : owner'[x] = {q}} \cup {"tags"}
      BY <1>1 DEF SchemaInv, MTypeOK
    <2>3. stage' \in [Runs -> {"off", "running", "done", "refused", "killed"}]
      BY <1>1 DEF SchemaInv, MTypeOK
    <2>4. alone' \in [Runs -> BOOLEAN]
      BY <1>1, Zenon DEF SchemaInv, MTypeOK
    <2>5. runs' \in 0 .. MaxRuns
      BY <1>1, MaxRunsAssumption DEF SchemaInv, MTypeOK
    <2>6. /\ db' \subseteq Things /\ owner' \in [Things -> {{}} \cup {{q} : q \in Runs}]
          /\ admin' \in BOOLEAN /\ service' \in {"off", "found", "up", "failed"}
      BY <1>1 DEF SchemaInv, MTypeOK
    <2>7. \A x \in Things : \A q \in owner'[x] : Running(q)'
      <3>1. \A x \in Things : owner[x] \subseteq Runs /\ \A q \in owner[x] : Running(q)
        BY DEF SchemaInv, MTypeOK
      <3> QED BY <1>1, <1>5, <3>1
    <2> QED BY <2>1, <2>2, <2>3, <2>4, <2>5, <2>6, <2>7 DEF MTypeOK
  <1>8. SchemaMatchesRevision'
    BY <1>1 DEF SchemaInv, SchemaMatchesRevision, At
  <1>9. made[p] = {} /\ gone[p] = {}
    BY <1>1 DEF SchemaInv, RunsTyped
  <1>10. OnCourse(p, db, s, {}, {}, owner) /\ NewType(db, {}, {}) /\ Clear(db, s, {}, {})
    BY <1>2, CourseBegins DEF s
  <1>11. /\ todo'[p] = s /\ made'[p] = {} /\ gone'[p] = {} /\ db' = db /\ owner' = owner
         /\ \A q \in Runs : q # p => /\ todo'[q] = todo[q] /\ made'[q] = made[q] /\ gone'[q] = gone[q]
    BY <1>1, <1>4, <1>9 DEF SchemaInv, RunsTyped
  <1>12. Courses'
    <2> SUFFICES ASSUME NEW q \in Runs, Running(q)'
                 PROVE  /\ OnCourse(q, db', todo'[q], made'[q], gone'[q], owner')
                        /\ NewType(db', made'[q], gone'[q])
      BY DEF Courses
    <2>1. CASE q = p
      BY <1>10, <1>11, <2>1
    <2>2. CASE q # p
      BY <1>5, <1>11, <2>2 DEF SchemaInv, Courses
    <2> QED BY <2>1, <2>2
  <1>13. Undisturbed'
    <2> SUFFICES ASSUME NEW q \in Runs, Running(q)', alone'[q]
                 PROVE  /\ \A r \in Runs : Running(r)' => r = q
                        /\ Clear(db', todo'[q], made'[q], gone'[q])
      BY DEF Undisturbed
    <2>1. q = p /\ \A r \in Runs : ~Running(r)
      BY <1>1, <1>5
    <2> QED BY <1>5, <1>10, <1>11, <2>1
  <1> QED BY <1>6, <1>7, <1>8, <1>12, <1>13 DEF SchemaInv

LEMMA BlockersMeans ==
  ASSUME NEW p
  PROVE  /\ ~Pending(p) => Blockers(p) = {}
         /\ Pending(p) =>
              \A q : q \in Blockers(p) <=> q # p /\ \E x \in Locks(Head(todo[p])) : q \in owner[x]
  <1> DEFINE L == Locks(Head(todo[p]))
  <1>1. ~Pending(p) => Blockers(p) = {}
    BY DEF Blockers
  <1>2. Pending(p) => Blockers(p) = (UNION {owner[x] : x \in L}) \ {p}
    BY DEF Blockers
  <1> HIDE DEF L
  <1>3. PICK U : /\ Pending(p) => Blockers(p) = U \ {p}
                 /\ \A q : q \in U <=> \E x \in L : q \in owner[x]
    <2> DEFINE U == UNION {owner[x] : x \in L}
    <2>1. Pending(p) => Blockers(p) = U \ {p}
      BY <1>2
    <2>2. \A q : q \in U <=> \E x \in L : q \in owner[x]
      OBVIOUS
    <2> HIDE DEF U
    <2> QED BY <2>1, <2>2
  <1>4. Pending(p) => \A q : q \in Blockers(p) <=> q # p /\ \E x \in L : q \in owner[x]
    BY <1>3
  <1> QED BY <1>1, <1>4 DEF L

LEMMA ExecuteStep ==
  ASSUME SchemaInv, NEW p \in Runs, Execute(p)
  PROVE  SchemaInv'
  <1> DEFINE e == Head(todo[p])
             r == Tail(todo[p])
             M2 == (made[p] \ Dropped(e)) \cup e.on
             G2 == (gone[p] \cup Dropped(e)) \ e.on
  <1>1. /\ Running(p) /\ todo[p] # <<>> /\ Blockers(p) = {} /\ Possible(p, e)
        /\ made' = [made EXCEPT ![p] = M2] /\ gone' = [gone EXCEPT ![p] = G2]
        /\ owner' = [x \in Things |-> IF x \in Locks(e) THEN {p} ELSE owner[x]]
        /\ todo' = [todo EXCEPT ![p] = r]
        /\ UNCHANGED <<db, stage, alone, runs, admin, service>>
    BY DEF Execute, Pending
  <1>2. /\ todo[p] \in Seq(Tame)
        /\ made \in [Runs -> SUBSET Things] /\ gone \in [Runs -> SUBSET Things]
        /\ todo \in [Runs -> Seq(Tame)]
    BY DEF SchemaInv, RunsTyped
  <1>3. e \in Tame /\ r \in Seq(Tame)
    BY <1>1, <1>2, TailFacts
  <1>4. /\ Touched(e) \subseteq Locks(e) /\ Locks(e) \subseteq Things
        /\ Dropped(e) \subseteq e.off \cup {"tags"}
        /\ Dropped(e) \subseteq Things /\ e.on \subseteq Things
    BY <1>3, LockFacts
  <1>5. \A x \in Locks(e) : owner[x] \subseteq {p}
    BY <1>1, BlockersMeans DEF Pending
  <1>6. e.off \subseteq (db \ gone[p]) \cup made[p] /\ e.on \cap ((db \ gone[p]) \cup made[p]) = {}
    BY <1>1 DEF Possible, Visible
  <1>7. PICK k2 \in 0 .. Latest : Fits(db, k2)
    BY FitsSchema DEF SchemaInv
  <1>8. OnCourse(p, db, todo[p], made[p], gone[p], owner) /\ NewType(db, made[p], gone[p])
    BY <1>1 DEF SchemaInv, Courses
  <1>9. \A x \in Things : owner'[x] = IF x \in Locks(e) THEN {p} ELSE owner[x]
    BY <1>1
  <1>10. M2 \subseteq Things /\ G2 \subseteq Things
    BY <1>2, <1>4
  <1>11. OnCourse(p, db, r, M2, G2, owner') /\ NewType(db, M2, G2)
    <2>1. Executed(p, db, todo[p], made[p], gone[p], owner, M2, G2, owner')
      BY <1>1, <1>6, <1>9 DEF Executed
    <2> QED BY <1>2, <1>7, <1>8, <2>1, CourseOn
  <1>12. M2 \cap G2 = {} /\ M2 \cup G2 \subseteq made[p] \cup gone[p] \cup Touched(e) \cup {"tags"}
    <2>1. made[p] \cap gone[p] = {}
      BY DEF SchemaInv, MTypeOK
    <2> QED BY <1>4, <2>1 DEF Touched
  <1>13. alone[p] => Clear(db, r, M2, G2)
    BY <1>1, <1>2, ClearOn DEF SchemaInv, Undisturbed
  <1> HIDE DEF e, r, M2, G2
  <1>14. /\ todo'[p] = r /\ made'[p] = M2 /\ gone'[p] = G2 /\ db' = db
         /\ \A q \in Runs : q # p => /\ todo'[q] = todo[q] /\ made'[q] = made[q] /\ gone'[q] = gone[q]
         /\ \A q \in Runs : Running(q)' <=> Running(q)
    BY <1>1, <1>2 DEF Running
  <1>15. RunsTyped'
    BY <1>1, <1>2, <1>3, <1>10, <1>14 DEF SchemaInv, RunsTyped
  <1>16. MTypeOK'
    <2>1. \A q \in Runs : \A i \in DOMAIN todo'[q] : todo'[q][i] \in Statements
      <3>1. \A q \in Runs : todo'[q] \in Seq(Tame)
        BY <1>15 DEF RunsTyped
      <3>2. \A w \in Seq(Tame) : \A i \in DOMAIN w : w[i] \in Statements
        BY DEF Tame
      <3> QED BY <3>1, <3>2
    <2>2. ASSUME NEW q \in Runs
          PROVE  /\ made'[q] \subseteq Things /\ gone'[q] \subseteq Things
                 /\ made'[q] \cap gone'[q] = {}
                 /\ made'[q] \cup gone'[q] \subseteq {x \in Things : owner'[x] = {q}} \cup {"tags"}
      <3>1. made[q] \cup gone[q] \subseteq {x \in Things : owner[x] = {q}} \cup {"tags"}
        BY DEF SchemaInv, MTypeOK
      <3>2. CASE q = p
        <4>1. \A x \in Things : owner[x] = {p} \/ x \in Locks(e) => owner'[x] = {p}
          BY <1>9
        <4> QED BY <1>4, <1>10, <1>12, <1>14, <3>1, <3>2, <4>1
      <3>3. CASE q # p
        <4>1. \A x \in Things : owner[x] = {q} => owner'[x] = {q}
          BY <1>5, <1>9, <3>3
        <4>2. made[q] \subseteq Things /\ gone[q] \subseteq Things /\ made[q] \cap gone[q] = {}
          BY DEF SchemaInv, MTypeOK
        <4> QED BY <1>14, <3>1, <3>3, <4>1, <4>2
      <3> QED BY <3>2, <3>3
    <2>3. owner' \in [Things -> {{}} \cup {{q} : q \in Runs}]
      <3>1. \A x \in Things : owner[x] \in {{}} \cup {{q} : q \in Runs}
        BY DEF SchemaInv, MTypeOK
      <3> QED BY <1>1, <3>1
    <2>4. \A x \in Things : \A q \in owner'[x] : Running(q)'
      <3>1. \A x \in Things : owner[x] \subseteq Runs /\ \A q \in owner[x] : Running(q)
        BY DEF SchemaInv, MTypeOK
      <3> QED BY <1>1, <1>9, <1>14, <3>1
    <2>5. /\ db' \subseteq Things
          /\ stage' \in [Runs -> {"off", "running", "done", "refused", "killed"}]
          /\ alone' \in [Runs -> BOOLEAN] /\ runs' \in 0 .. MaxRuns
          /\ admin' \in BOOLEAN /\ service' \in {"off", "found", "up", "failed"}
      BY <1>1 DEF SchemaInv, MTypeOK
    <2> QED BY <2>1, <2>2, <2>3, <2>4, <2>5 DEF MTypeOK
  <1>17. SchemaMatchesRevision'
    BY <1>1 DEF SchemaInv, SchemaMatchesRevision, At
  <1>18. Courses'
    <2> SUFFICES ASSUME NEW q \in Runs, Running(q)'
                 PROVE  /\ OnCourse(q, db', todo'[q], made'[q], gone'[q], owner')
                        /\ NewType(db', made'[q], gone'[q])
      BY DEF Courses
    <2>1. CASE q = p
      BY <1>11, <1>14, <2>1
    <2>2. CASE q # p
      <3>1. OnCourse(q, db, todo[q], made[q], gone[q], owner) /\ NewType(db, made[q], gone[q])
        BY <1>14 DEF SchemaInv, Courses
      <3>2. \A x \in Things : owner[x] = {q} => owner'[x] = {q}
        BY <1>5, <1>9, <2>2
      <3>3. \A k \in 0 .. Latest : owner[Key(k)] = {q} => owner'[Key(k)] = {q}
        BY <3>2, KeyFacts
      <3>4. OnCourse(q, db, todo[q], made[q], gone[q], owner')
        BY <3>1, <3>3 DEF OnCourse
      <3> QED BY <1>14, <2>2, <3>1, <3>4
    <2> QED BY <2>1, <2>2
  <1>19. Undisturbed'
    <2> SUFFICES ASSUME NEW q \in Runs, Running(q)', alone'[q]
                 PROVE  /\ \A w \in Runs : Running(w)' => w = q
                        /\ Clear(db', todo'[q], made'[q], gone'[q])
      BY DEF Undisturbed
    <2>1. alone[q] /\ Running(q) /\ \A w \in Runs : Running(w) => w = q
      BY <1>1, <1>14 DEF SchemaInv, Undisturbed
    <2>2. q = p
      BY <1>1, <2>1
    <2> QED BY <1>13, <1>14, <2>1, <2>2
  <1> QED BY <1>15, <1>16, <1>17, <1>18, <1>19 DEF SchemaInv

\* What the end of a run's transaction leaves of the tables.
LEMMA EndTables ==
  ASSUME SchemaInv, NEW p \in Runs, Running(p), NEW outcome \in {"done", "refused", "killed"},
         End(p, outcome)
  PROVE  /\ RunsTyped' /\ stage' \in [Runs -> {"off", "running", "done", "refused", "killed"}]
         /\ \A q \in Runs : Running(q)' <=> (q # p /\ Running(q))
         /\ \A q \in Runs : q # p => /\ todo'[q] = todo[q] /\ made'[q] = made[q] /\ gone'[q] = gone[q]
         /\ \A x \in Things : owner'[x] = owner[x] \ {p}
         /\ owner' \in [Things -> {{}} \cup {{q} : q \in Runs}]
         /\ \A x \in Things : \A q \in owner'[x] : Running(q)'
         /\ \A q \in Runs :
              /\ \A i \in DOMAIN todo'[q] : todo'[q][i] \in Statements
              /\ made'[q] \subseteq Things /\ gone'[q] \subseteq Things
              /\ made'[q] \cap gone'[q] = {}
              /\ made'[q] \cup gone'[q] \subseteq {x \in Things : owner'[x] = {q}} \cup {"tags"}
  <1>1. /\ stage' = [stage EXCEPT ![p] = outcome] /\ todo' = [todo EXCEPT ![p] = <<>>]
        /\ made' = [made EXCEPT ![p] = {}] /\ gone' = [gone EXCEPT ![p] = {}]
        /\ owner' = [x \in Things |-> owner[x] \ {p}]
    BY DEF End
  <1>2. /\ todo \in [Runs -> Seq(Tame)] /\ made \in [Runs -> SUBSET Things]
        /\ gone \in [Runs -> SUBSET Things]
        /\ stage \in [Runs -> {"off", "running", "done", "refused", "killed"}]
        /\ \A q \in Runs : ~Running(q) => made[q] = {} /\ gone[q] = {}
    BY DEF SchemaInv, RunsTyped, MTypeOK
  <1>3. /\ \A q \in Runs : Running(q)' <=> (q # p /\ Running(q))
        /\ stage' \in [Runs -> {"off", "running", "done", "refused", "killed"}]
    BY <1>1, <1>2 DEF Running
  <1>4. /\ todo'[p] = <<>> /\ made'[p] = {} /\ gone'[p] = {}
        /\ \A q \in Runs : q # p => /\ todo'[q] = todo[q] /\ made'[q] = made[q] /\ gone'[q] = gone[q]
        /\ \A x \in Things : owner'[x] = owner[x] \ {p}
    BY <1>1, <1>2
  <1>5. RunsTyped'
    <2>1. todo' \in [Runs -> Seq(Tame)]
      <3>1. <<>> \in Seq(Tame)
        OBVIOUS
      <3> QED BY <1>1, <1>2, <3>1
    <2> QED BY <1>1, <1>2, <1>3, <1>4, <2>1 DEF RunsTyped
  <1>6. /\ \A x \in Things : owner[x] \in {{}} \cup {{q} : q \in Runs}
        /\ \A x \in Things : owner[x] \subseteq Runs /\ \A q \in owner[x] : Running(q)
    BY DEF SchemaInv, MTypeOK
  <1>7. owner' \in [Things -> {{}} \cup {{q} : q \in Runs}]
    <2>1. \A x \in Things : owner[x] \ {p} \in {{}} \cup {{q} : q \in Runs}
      BY <1>6
    <2> QED BY <1>1, <2>1
  <1>8. \A x \in Things : \A q \in owner'[x] : Running(q)'
    BY <1>3, <1>4, <1>6
  <1>9. ASSUME NEW q \in Runs
        PROVE  /\ \A i \in DOMAIN todo'[q] : todo'[q][i] \in Statements
               /\ made'[q] \subseteq Things /\ gone'[q] \subseteq Things
               /\ made'[q] \cap gone'[q] = {}
               /\ made'[q] \cup gone'[q] \subseteq {x \in Things : owner'[x] = {q}} \cup {"tags"}
    <2>1. \A i \in DOMAIN todo'[q] : todo'[q][i] \in Statements
      <3>1. todo'[q] \in Seq(Tame)
        BY <1>5 DEF RunsTyped
      <3>2. \A w \in Seq(Tame) : \A i \in DOMAIN w : w[i] \in Statements
        BY DEF Tame
      <3> QED BY <3>1, <3>2
    <2>2. CASE q = p
      BY <1>4, <2>1, <2>2
    <2>3. CASE q # p
      <3>1. /\ made[q] \subseteq Things /\ gone[q] \subseteq Things /\ made[q] \cap gone[q] = {}
            /\ made[q] \cup gone[q] \subseteq {x \in Things : owner[x] = {q}} \cup {"tags"}
        BY DEF SchemaInv, MTypeOK
      <3>2. \A x \in Things : owner[x] = {q} => owner'[x] = {q}
        BY <1>4, <2>3
      <3> QED BY <1>4, <2>1, <2>3, <3>1, <3>2
    <2> QED BY <2>2, <2>3
  <1> QED BY <1>3, <1>4, <1>5, <1>7, <1>8, <1>9

LEMMA RollbackStep ==
  ASSUME SchemaInv, NEW p \in Runs, Running(p), NEW outcome \in {"refused", "killed"},
         Rollback(p, outcome)
  PROVE  SchemaInv'
  <1>1. End(p, outcome) /\ UNCHANGED <<db, alone, runs, admin, service>>
    BY DEF Rollback
  <1>2. /\ \A q \in Runs : Running(q)' <=> (q # p /\ Running(q))
        /\ \A q \in Runs : q # p => /\ todo'[q] = todo[q] /\ made'[q] = made[q] /\ gone'[q] = gone[q]
        /\ \A x \in Things : owner'[x] = owner[x] \ {p}
    BY <1>1, EndTables
  <1>3. RunsTyped'
    BY <1>1, EndTables
  <1>4. MTypeOK'
    <2>1. /\ db' \subseteq Things /\ alone' \in [Runs -> BOOLEAN] /\ runs' \in 0 .. MaxRuns
          /\ admin' \in BOOLEAN /\ service' \in {"off", "found", "up", "failed"}
      BY <1>1 DEF SchemaInv, MTypeOK
    <2> QED BY <1>1, <2>1, EndTables DEF MTypeOK
  <1>5. SchemaMatchesRevision'
    BY <1>1 DEF SchemaInv, SchemaMatchesRevision, At
  <1>6. Courses'
    <2> SUFFICES ASSUME NEW q \in Runs, Running(q)'
                 PROVE  /\ OnCourse(q, db', todo'[q], made'[q], gone'[q], owner')
                        /\ NewType(db', made'[q], gone'[q])
      BY DEF Courses
    <2>1. q # p /\ OnCourse(q, db, todo[q], made[q], gone[q], owner) /\ NewType(db, made[q], gone[q])
      BY <1>2 DEF SchemaInv, Courses
    <2>2. \A k \in 0 .. Latest : owner[Key(k)] = {q} => owner'[Key(k)] = {q}
      BY <1>2, <2>1, KeyFacts
    <2>3. OnCourse(q, db, todo[q], made[q], gone[q], owner')
      BY <2>1, <2>2 DEF OnCourse
    <2> QED BY <1>1, <1>2, <2>1, <2>3
  <1>7. Undisturbed'
    <2> SUFFICES ASSUME NEW q \in Runs, Running(q)', alone'[q] PROVE FALSE
      BY DEF Undisturbed
    <2> QED BY <1>1, <1>2 DEF SchemaInv, Undisturbed
  <1> QED BY <1>3, <1>4, <1>5, <1>6, <1>7 DEF SchemaInv

\* A run that has no statement left has either done what it set out for, on the revision it
\* has read, or nothing that matters.
LEMMA CommitMeans ==
  ASSUME NEW p, NEW d, NEW M, NEW G, NEW o, OnCourse(p, d, <<>>, M, G, o),
         NEW k2 \in 0 .. Latest, Fits(d, k2)
  PROVE  \/ /\ o[Key(k2)] = {p}
            /\ \E t \in 0 .. Latest : Fits((d \ G) \cup M, t)
         \/ /\ ((d \ G) \cup M) \cap Versions = d \cap Versions
            /\ Fits((d \ G) \cup M, k2)
  <1>1. PICK k \in 0 .. Latest, t \in 0 .. Latest :
          /\ Aims(<<>>, M, G, k, t)
          /\ IF (M \cup G) \cap Versions # {}
             THEN d \cap Versions = Mark(k) /\ o[Key(k)] = {p}
             ELSE Opening(<<>>, k, t, M, M \cup G)
    BY DEF OnCourse
  <1>2. CASE (M \cup G) \cap Versions # {}
    <2>1. k = k2
      BY <1>1, <1>2, MarkFacts DEF Fits
    <2>2. PICK Y : Leads((d \ G) \cup M, <<>>, Y, FALSE) /\ Fits(Y, t)
      BY <1>1, <2>1 DEF Aims
    <2>3. Y = (d \ G) \cup M
      BY <2>2, LeadsNowhere
    <2> QED BY <1>1, <1>2, <2>1, <2>2, <2>3
  <1>3. CASE (M \cup G) \cap Versions = {}
    <2>1. ~Decides(<<>>, k, M)
      BY DEF Decides
    <2>2. M \cup G \subseteq {"alembic_version"}
      BY <1>1, <1>3, <2>1 DEF Opening
    <2>3. /\ ((d \ G) \cup M) \cap Versions = d \cap Versions
          /\ ((d \ G) \cup M) \cap Mapped = d \cap Mapped
          /\ Types \subseteq d => Types \subseteq (d \ G) \cup M
      BY <2>2, MarkFacts
    <2> QED BY <2>3 DEF Fits
  <1> QED BY <1>2, <1>3

LEMMA CommitStep ==
  ASSUME SchemaInv, NEW p \in Runs, Commit(p)
  PROVE  SchemaInv'
  <1>1. /\ Running(p) /\ todo[p] = <<>> /\ db' = (db \ gone[p]) \cup made[p]
        /\ admin' = (admin /\ "users" \notin gone[p])
        /\ End(p, "done") /\ UNCHANGED <<alone, runs, service>>
    BY DEF Commit, Visible
  <1>2. /\ \A q \in Runs : Running(q)' <=> (q # p /\ Running(q))
        /\ \A q \in Runs : q # p => /\ todo'[q] = todo[q] /\ made'[q] = made[q] /\ gone'[q] = gone[q]
        /\ \A x \in Things : owner'[x] = owner[x] \ {p}
    BY <1>1, EndTables
  <1>3. RunsTyped'
    BY <1>1, EndTables
  <1>4. MTypeOK'
    <2>1. db' \subseteq Things
      BY <1>1 DEF SchemaInv, MTypeOK
    <2>2. admin' \in BOOLEAN
      BY <1>1, Zenon
    <2>3. /\ alone' \in [Runs -> BOOLEAN] /\ runs' \in 0 .. MaxRuns
          /\ service' \in {"off", "found", "up", "failed"}
      BY <1>1 DEF SchemaInv, MTypeOK
    <2> QED BY <1>1, <2>1, <2>2, <2>3, EndTables DEF MTypeOK
  <1>5. PICK k2 \in 0 .. Latest : Fits(db, k2)
    BY FitsSchema DEF SchemaInv
  <1>6. \/ /\ owner[Key(k2)] = {p}
           /\ \E t \in 0 .. Latest : Fits(db', t)
        \/ /\ db' \cap Versions = db \cap Versions
           /\ Fits(db', k2)
    <2>1. OnCourse(p, db, <<>>, made[p], gone[p], owner)
      BY <1>1 DEF SchemaInv, Courses
    <2> DEFINE d2 == (db \ gone[p]) \cup made[p]
    <2>2. \/ owner[Key(k2)] = {p} /\ \E t \in 0 .. Latest : Fits(d2, t)
          \/ d2 \cap Versions = db \cap Versions /\ Fits(d2, k2)
      BY <1>5, <2>1, CommitMeans
    <2>3. db' = d2
      BY <1>1
    <2> HIDE DEF d2
    <2> QED BY <2>2, <2>3
  <1>7. SchemaMatchesRevision'
    <2>1. \E k \in 0 .. Latest : Fits(db', k)
      BY <1>6
    <2> QED BY <2>1 DEF SchemaMatchesRevision, At, Fits, Mark
  <1>8. Courses'
    <2> SUFFICES ASSUME NEW q \in Runs, Running(q)'
                 PROVE  /\ OnCourse(q, db', todo'[q], made'[q], gone'[q], owner')
                        /\ NewType(db', made'[q], gone'[q])
      BY DEF Courses
    <2>1. q # p /\ OnCourse(q, db, todo[q], made[q], gone[q], owner) /\ NewType(db, made[q], gone[q])
      BY <1>2 DEF SchemaInv, Courses
    <2>2. PICK k \in 0 .. Latest, t \in 0 .. Latest :
            /\ Aims(todo[q], made[q], gone[q], k, t)
            /\ IF (made[q] \cup gone[q]) \cap Versions # {}
               THEN db \cap Versions = Mark(k) /\ owner[Key(k)] = {q}
               ELSE Opening(todo[q], k, t, made[q], made[q] \cup gone[q])
      BY <2>1 DEF OnCourse
    <2>3. ASSUME (made[q] \cup gone[q]) \cap Versions # {}
          PROVE  db' \cap Versions = Mark(k) /\ owner'[Key(k)] = {q}
      <3>1. k = k2
        BY <1>5, <2>2, <2>3, MarkFacts DEF Fits
      <3>2. owner[Key(k2)] # {p}
        BY <2>1, <2>2, <2>3, <3>1
      <3>3. owner'[Key(k)] = {q}
        BY <1>2, <2>1, <2>2, <2>3, KeyFacts
      <3> QED BY <1>6, <2>2, <2>3, <3>2, <3>3
    <2>4. OnCourse(q, db', todo[q], made[q], gone[q], owner')
      BY <2>2, <2>3 DEF OnCourse
    <2>5. NewType(db', made[q], gone[q])
      <3>1. SUFFICES ASSUME "user_role" \in made[q] PROVE "user_role" \notin db'
        BY <2>1 DEF NewType
      <3>2. "user_role" \notin db
        BY <2>1, <3>1 DEF NewType
      <3>3. \A r \in Runs : made[r] \subseteq {x \in Things : owner[x] = {r}} \cup {"tags"}
        BY DEF SchemaInv, MTypeOK
      <3>4. "user_role" \notin made[p]
        <4>1. "user_role" # "tags" /\ {p} # {q}
          BY <2>1
        <4> QED BY <3>1, <3>3, <4>1
      <3> QED BY <1>1, <3>2, <3>4
    <2> QED BY <1>2, <2>1, <2>4, <2>5
  <1>9. Undisturbed'
    <2> SUFFICES ASSUME NEW q \in Runs, Running(q)', alone'[q] PROVE FALSE
      BY DEF Undisturbed
    <2> QED BY <1>1, <1>2 DEF SchemaInv, Undisturbed
  <1> QED BY <1>3, <1>4, <1>7, <1>8, <1>9 DEF SchemaInv

LEMMA ServiceStep ==
  ASSUME SchemaInv, LookForUsers \/ SeedAdmin \/ StopService
  PROVE  SchemaInv'
  <1>1. /\ UNCHANGED <<db, transaction, alone, runs>>
        /\ service' \in {"off", "found", "up", "failed"} /\ admin' \in BOOLEAN
    BY DEF LookForUsers, SeedAdmin, StopService, SchemaInv, MTypeOK
  <1>2. MTypeOK'
    BY <1>1 DEF SchemaInv, MTypeOK, transaction, Running
  <1>3. RunsTyped' /\ SchemaMatchesRevision'
    BY <1>1 DEF SchemaInv, RunsTyped, SchemaMatchesRevision, At, transaction, Running
  <1>4. Courses' /\ Undisturbed'
    BY <1>1 DEF SchemaInv, Courses, Undisturbed, transaction, Running
  <1> QED BY <1>2, <1>3, <1>4 DEF SchemaInv

\* Who is refused, is killed or falls victim was under way.
LEMMA StopsRunning ==
  ASSUME NEW p \in Runs, Refuse(p) \/ Victim(p) \/ Kill(p)
  PROVE  Running(p) /\ \E outcome \in {"refused", "killed"} : Rollback(p, outcome)
  <1>1. CASE Victim(p)
    <2>1. Blockers(p) # {}
      BY <1>1 DEF Victim
    <2> QED BY <1>1, <2>1 DEF Victim, Blockers, Pending
  <1> QED BY <1>1 DEF Refuse, Kill, Pending

LEMMA SchemaNext ==
  ASSUME SchemaInv, [MNext]_mvars
  PROVE  SchemaInv'
  <1>1. ASSUME NEW p \in Runs, BeginRun(p) PROVE SchemaInv'
    BY <1>1, BeginStep
  <1>2. ASSUME NEW p \in Runs, Execute(p) PROVE SchemaInv'
    BY <1>2, ExecuteStep
  <1>3. ASSUME NEW p \in Runs, Refuse(p) \/ Victim(p) \/ Kill(p) PROVE SchemaInv'
    BY <1>3, StopsRunning, RollbackStep
  <1>4. ASSUME NEW p \in Runs, Commit(p) PROVE SchemaInv'
    BY <1>4, CommitStep
  <1>5. ASSUME LookForUsers \/ SeedAdmin \/ StopService PROVE SchemaInv'
    BY <1>5, ServiceStep
  <1>6. CASE UNCHANGED mvars
    <2>1. MTypeOK' /\ RunsTyped' /\ SchemaMatchesRevision'
      BY <1>6 DEF SchemaInv, MTypeOK, RunsTyped, SchemaMatchesRevision, At,
                  mvars, transaction, Running
    <2>2. Courses' /\ Undisturbed'
      BY <1>6 DEF SchemaInv, Courses, Undisturbed, mvars, transaction, Running
    <2> QED BY <2>1, <2>2 DEF SchemaInv
  <1> QED BY <1>1, <1>2, <1>3, <1>4, <1>5, <1>6 DEF MNext, Progress

LEMMA SchemaInvariance ==
  MSpec => []SchemaInv
  <1>1. MInit => SchemaInv
    BY SchemaInit
  <1>2. SchemaInv /\ [MNext]_mvars => SchemaInv'
    BY SchemaNext
  <1> QED BY <1>1, <1>2, PTL DEF MSpec

\* Types: in particular a thing is locked by one run at most, which is under way, and what a
\* transaction has created or dropped is locked by it, but for the tags column.
THEOREM SchemaTypeCorrect ==
  MSpec => []MTypeOK
  <1>1. SchemaInv => MTypeOK
    BY DEF SchemaInv
  <1> QED BY <1>1, SchemaInvariance, PTL

\* However many runs overlap, the database has the tables of exactly the revision in its
\* alembic_version and misses no type: a run that has come too late is refused at the row
\* that it would change, and no two runs change the row at once.
THEOREM SchemaKeepsToRevision ==
  MSpec => []SchemaMatchesRevision
  <1>1. SchemaInv => SchemaMatchesRevision
    BY DEF SchemaInv
  <1> QED BY <1>1, SchemaInvariance, PTL

\* A run that has been alone is refused only if an earlier downgrade has left its types:
\* every statement of every plan is possible on the schema of its revision.
THEOREM RefusalNeedsLeftovers ==
  MSpec => RefusedOnlyByLeftovers
  <1>1. ASSUME SchemaInv, [MNext]_mvars,
               NEW p \in Runs, Running(p), stage'[p] = "refused", alone[p]
        PROVE  At(0) /\ db \cap Types # {}
    <2>0. stage \in [Runs -> {"off", "running", "done", "refused", "killed"}]
      BY <1>1 DEF SchemaInv, MTypeOK
    <2>1. /\ \A q \in Runs : Running(q) => q = p
          /\ Clear(db, todo[p], made[p], gone[p])
      BY <1>1 DEF SchemaInv, Undisturbed
    <2>2. Blockers(p) = {}
      <3>1. SUFFICES ASSUME Pending(p), NEW q \in Blockers(p) PROVE FALSE
        BY BlockersMeans
      <3>2. PICK x \in Locks(Head(todo[p])) : q \in owner[x] /\ q # p
        BY <3>1, BlockersMeans
      <3>3. x \in Things
        <4>1. todo[p] \in Seq(Tame) /\ todo[p] # <<>>
          BY <1>1, <3>1 DEF SchemaInv, RunsTyped, Pending
        <4> QED BY <3>2, <4>1, TailFacts, LockFacts
      <3>4. q \in Runs /\ Running(q)
        BY <1>1, <3>2, <3>3 DEF SchemaInv, MTypeOK
      <3> QED BY <2>1, <3>2, <3>4
    <2>3. ASSUME NEW q \in Runs, q # p,
                 BeginRun(q) \/ Progress(q) \/ Kill(q)
          PROVE  FALSE
      <3>1. stage'[p] = stage[p]
        BY <2>0, <2>3 DEF BeginRun, Progress, Kill, Execute, Refuse, Victim,
                            Commit, Rollback, End
      <3> QED BY <1>1, <3>1 DEF Running
    <2>4. Refuse(p)
      <3>1. stage[p] = "running"
        BY <1>1 DEF Running
      <3>2. ~BeginRun(p)
        BY <1>1 DEF BeginRun
      <3>3. ~Execute(p)
        BY <1>1, <3>1 DEF Execute
      <3>4. ~Victim(p)
        BY <2>2 DEF Victim
      <3>5. ~Commit(p)
        BY <1>1, <2>0 DEF Commit, End
      <3>6. ~Kill(p)
        BY <1>1, <2>0 DEF Kill, Rollback, End
      <3>7. ~(LookForUsers \/ SeedAdmin \/ StopService) /\ ~UNCHANGED mvars
        BY <1>1, <3>1 DEF LookForUsers, SeedAdmin, StopService, mvars, transaction
      <3> QED BY <1>1, <2>3, <3>2, <3>3, <3>4, <3>5, <3>6, <3>7 DEF MNext, Progress
    <2>5. todo[p] # <<>> /\ todo[p] \in Seq(Tame)
      BY <1>1, <2>4 DEF Refuse, Pending, SchemaInv, RunsTyped
    <2>6. ~Can((db \ gone[p]) \cup made[p], Head(todo[p]))
      BY <2>4 DEF Refuse, Possible, Can, Visible
    <2>7. db \cap Versions = Mark(0) /\ db \cap Types # {}
      BY <2>1, <2>5, <2>6, ClearOn
    <2> QED BY <2>7 DEF At, Mark
  <1>2. SchemaInv /\ [MNext]_mvars =>
          [\A p \in Runs : Running(p) /\ stage'[p] = "refused" /\ alone[p] =>
             At(0) /\ db \cap Types # {}]_mvars
    BY <1>1
  <1> QED BY <1>2, SchemaInvariance, PTL DEF MSpec, RefusedOnlyByLeftovers

\* The start of the service fails for its schema only before the latest revision: at it,
\* every table and column that the models select is there.
THEOREM StartsFailBehind ==
  MSpec => StartFailsOnlyBehind
  <1>1. ASSUME SchemaInv, [MNext]_mvars, service = "found", service' = "failed"
        PROVE  ~At(Latest)
    <2>1. SeedAdmin
      BY <1>1 DEF MNext, BeginRun, Progress, Kill, Execute, Refuse, Victim,
                  Commit, Rollback, LookForUsers, StopService, mvars
    <2>2. ~(Mapped \subseteq db) \/ "users" \notin db
      BY <1>1, <2>1 DEF SeedAdmin
    <2>3. "users" \in Mapped
      BY DEF Mapped, Tables
    <2>4. PICK k \in 0 .. Latest : Fits(db, k)
      BY <1>1, FitsSchema DEF SchemaInv
    <2>5. ASSUME At(Latest) PROVE k = Latest
      <3>1. Mark(k) = Mark(Latest) /\ Latest \in 0 .. Latest
        BY <2>4, <2>5 DEF Fits, At, Mark, Latest
      <3> QED BY <3>1, MarkFacts
    <2>6. Schema(Latest) = Mapped
      BY DEF Schema, Mapped, Tables, Latest
    <2> QED BY <2>2, <2>3, <2>4, <2>5, <2>6 DEF Fits
  <1>2. SchemaInv /\ [MNext]_mvars =>
          [service = "found" /\ service' = "failed" => ~At(Latest)]_mvars
    BY <1>1
  <1> QED BY <1>2, SchemaInvariance, PTL DEF MSpec, StartFailsOnlyBehind
================================================================================
