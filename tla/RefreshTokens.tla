------------------------------ MODULE RefreshTokens ------------------------------
(***************************************************************************)
(* The refresh tokens (services/auth.py and the login, refresh and logout   *)
(* endpoints): what becomes of the rows of refresh_tokens when requests     *)
(* that present the same token interleave.                                  *)
(*                                                                         *)
(* A refresh is two transactions: the token is read, checked and revoked in *)
(* the first, a new one is inserted in the second.  The rows carry no       *)
(* version, so an UPDATE of revoked_at never notices another.  A token is   *)
(* its place in the sequence of the rows; its JWT is abstracted to it, the  *)
(* signature and claims being checked before any state is read.             *)
(***************************************************************************)
EXTENDS Naturals, Sequences

CONSTANTS
  Users,        \* rows of the users table
  None,         \* no user
  Slots,        \* requests that can be served at the same time
  MaxRequests   \* bound on the requests of a behaviour

ASSUME ParametersAssumption ==
  /\ None \notin Users
  /\ MaxRequests \in Nat

VARIABLES
  tokens,     \* refresh_tokens: the user, whether revoked_at is set, whether expires_at
              \* is past, the token it replaced (0 at a login), and the times it was
              \* asked for and was first revoked
  active,     \* the users whose is_active is set
  leftAt,     \* when each user was last deactivated, 0 if never
  clock,      \* counts the requests begun
  pc,         \* the stage of the request in each slot
  req,        \* its operation, user, token and when it began
  res         \* the answer to the last request of the slot

db == <<tokens, active, leftAt>>
vars == <<db, clock, pc, req, res>>

Operations == {"login", "refresh", "logout"}
Stages == {"idle", "begun", "found", "valid", "issuing"}
Answers == {"none", "ok", "unauthorized", "internal_error"}

Requests == [op : Operations, user : Users, token : Nat, began : Nat]
NoRequest == [op |-> "none", user |-> None, token |-> 0, began |-> 0]

Token == [user    : Users,
          revoked : BOOLEAN,
          expired : BOOLEAN,
          parent  : Nat,
          asked   : Nat,
          spentAt : Nat]

\* The row the request presents.
Presented(r) == tokens[req[r].token]

--------------------------------------------------------------------------------

Init ==
  /\ tokens = <<>>
  /\ active = Users
  /\ leftAt = [u \in Users |-> 0]
  /\ clock = 0
  /\ pc = [r \in Slots |-> "idle"]
  /\ req = [r \in Slots |-> NoRequest]
  /\ res = [r \in Slots |-> "none"]

Goto(r, stage) ==
  /\ pc' = [pc EXCEPT ![r] = stage]
  /\ UNCHANGED <<req, res>>

Respond(r, a) ==
  /\ pc' = [pc EXCEPT ![r] = "idle"]
  /\ req' = [req EXCEPT ![r] = NoRequest]
  /\ res' = [res EXCEPT ![r] = a]

Handles(r, op, stage) == pc[r] = stage /\ req[r].op = op

\* A client presents a token it was given, or one it has kept a copy of.
Begin(r) ==
  /\ pc[r] = "idle"
  /\ clock < MaxRequests
  /\ \/ \E u \in Users :
          req' = [req EXCEPT ![r] = [op |-> "login", user |-> u, token |-> 0,
                                     began |-> clock + 1]]
     \/ \E op \in {"refresh", "logout"}, i \in DOMAIN tokens :
          req' = [req EXCEPT ![r] = [op |-> op, user |-> tokens[i].user, token |-> i,
                                     began |-> clock + 1]]
  /\ clock' = clock + 1
  /\ pc' = [pc EXCEPT ![r] = "begun"]
  /\ res' = [res EXCEPT ![r] = "none"]
  /\ UNCHANGED db

--------------------------------------------------------------------------------
\* Login.

\* authenticate_user: a wrong password, or an inactive user, is refused.
Authenticate(r) ==
  /\ Handles(r, "login", "begun")
  /\ \/ Respond(r, "unauthorized")
     \/ /\ req[r].user \in active
        /\ Goto(r, "issuing")
  /\ UNCHANGED <<db, clock>>

\* The row issue_tokens inserts for the request.
Issued(r) ==
  [user |-> req[r].user, revoked |-> FALSE, expired |-> FALSE,
   parent |-> req[r].token, asked |-> req[r].began, spentAt |-> 0]

\* Mutant: a refresh inserts the new token before it has revoked the old one.
IssueBeforeRevoking(r) ==
  /\ Handles(r, "login", "issuing") \/ Handles(r, "refresh", "valid")
  /\ tokens' = Append(tokens, Issued(r))
  /\ Respond(r, "ok")
  /\ UNCHANGED <<active, leftAt, clock>>

\* Mutant: the row is inserted without its user.
IssueForNobody(r) ==
  /\ pc[r] = "issuing"
  /\ tokens' = Append(tokens, [Issued(r) EXCEPT !.user = None])
  /\ Respond(r, "ok")
  /\ UNCHANGED <<active, leftAt, clock>>

\* issue_tokens, the end of a login and of a refresh: the row of a new token.
IssueTokens(r) ==
  /\ pc[r] = "issuing"
  /\ tokens' = Append(tokens, Issued(r))
  /\ Respond(r, "ok")
  /\ UNCHANGED <<active, leftAt, clock>>

--------------------------------------------------------------------------------
\* Refresh and logout.

\* Mutant: a revoked token is not refused.
FindTokenThoughRevoked(r) ==
  /\ Handles(r, "refresh", "begun")
  /\ \/ /\ Presented(r).expired
        /\ Respond(r, "unauthorized")
     \/ /\ ~Presented(r).expired
        /\ Goto(r, "found")
  /\ UNCHANGED <<db, clock>>

\* The SELECT of the token's row, and the checks on it.
FindToken(r) ==
  /\ Handles(r, "refresh", "begun")
  /\ \/ /\ Presented(r).revoked \/ Presented(r).expired
        /\ Respond(r, "unauthorized")
     \/ /\ ~Presented(r).revoked /\ ~Presented(r).expired
        /\ Goto(r, "found")
  /\ UNCHANGED <<db, clock>>

\* Mutant: the refresh trusts the user of a valid token.
CheckNoUser(r) ==
  /\ Handles(r, "refresh", "found")
  /\ Goto(r, "valid")
  /\ UNCHANGED <<db, clock>>

\* The SELECT of its user, and the check on it.
CheckUser(r) ==
  /\ Handles(r, "refresh", "found")
  /\ \/ /\ req[r].user \notin active
        /\ Respond(r, "unauthorized")
     \/ /\ req[r].user \in active
        /\ Goto(r, "valid")
  /\ UNCHANGED <<db, clock>>

\* revoked_at is set, over whatever another request has set it to.
SetRevoked(i) ==
  tokens' = [tokens EXCEPT ![i].revoked = TRUE,
                           ![i].spentAt = IF tokens[i].revoked THEN tokens[i].spentAt ELSE clock]

\* The first commit of a refresh.
Spend(r) ==
  /\ Handles(r, "refresh", "valid")
  /\ SetRevoked(req[r].token)
  /\ Goto(r, "issuing")
  /\ UNCHANGED <<active, leftAt, clock>>

\* revoke_refresh_token reads the row.  The JWT of an expired token no longer
\* decodes, and the endpoint answers as if it had worked; in the second in which the
\* row expires it still may.
LogoutFind(r) ==
  /\ Handles(r, "logout", "begun")
  /\ \/ /\ Presented(r).revoked \/ Presented(r).expired
        /\ Respond(r, "ok")
     \/ /\ ~Presented(r).revoked
        /\ Goto(r, "valid")
  /\ UNCHANGED <<db, clock>>

\* ... and revokes it.
LogoutRevoke(r) ==
  /\ Handles(r, "logout", "valid")
  /\ SetRevoked(req[r].token)
  /\ Respond(r, "ok")
  /\ UNCHANGED <<active, leftAt, clock>>

--------------------------------------------------------------------------------
\* The environment.

\* The process or a connection dies; the commits made so far stay.
Fail(r) ==
  /\ pc[r] # "idle"
  /\ Respond(r, "internal_error")
  /\ UNCHANGED <<db, clock>>

\* JWT_REFRESH_TTL_DAYS have passed since token i was issued.
ExpireToken(i) ==
  /\ ~tokens[i].expired
  /\ tokens' = [tokens EXCEPT ![i].expired = TRUE]
  /\ UNCHANGED <<active, leftAt, clock, pc, req, res>>

\* An operator clears is_active; no endpoint does.
Deactivate(u) ==
  /\ u \in active
  /\ active' = active \ {u}
  /\ leftAt' = [leftAt EXCEPT ![u] = clock]
  /\ UNCHANGED <<tokens, clock, pc, req, res>>

\* _seed_user with update_existing, when an instance starts, sets it again.
SeedActivates(u) ==
  /\ u \notin active
  /\ active' = active \cup {u}
  /\ UNCHANGED <<tokens, leftAt, clock, pc, req, res>>

Serve(r) ==
  \/ Authenticate(r) \/ FindToken(r) \/ CheckUser(r) \/ Spend(r) \/ IssueTokens(r)
  \/ LogoutFind(r) \/ LogoutRevoke(r)

Next ==
  \/ \E r \in Slots : Begin(r) \/ Serve(r) \/ Fail(r)
  \/ \E i \in DOMAIN tokens : ExpireToken(i)
  \/ \E u \in Users : Deactivate(u) \/ SeedActivates(u)

Spec == Init /\ [][Next]_vars

--------------------------------------------------------------------------------

TypeOK ==
  /\ tokens \in Seq(Token)
  /\ active \subseteq Users
  /\ leftAt \in [Users -> Nat]
  /\ clock \in 0 .. MaxRequests
  /\ pc \in [Slots -> Stages]
  /\ req \in [Slots -> Requests \cup {NoRequest}]
  /\ res \in [Slots -> Answers]
  /\ \A i \in DOMAIN tokens : tokens[i].parent < i

--------------------------------------------------------------------------------

\* A token that replaces another exists only once the other is revoked, and belongs
\* to the same user: the two commits of a refresh come in that order, and nothing
\* revives the spent token, however many requests present it.
RotationSpends ==
  \A i \in DOMAIN tokens :
    tokens[i].parent # 0 =>
      /\ tokens[tokens[i].parent].revoked
      /\ tokens[tokens[i].parent].user = tokens[i].user

\* A refresh that begins after its token was revoked, by a refresh or a logout, gets
\* nothing: all the tokens that replace one come from requests that were already
\* there when it was first revoked.
SpentTokensRefused ==
  \A i \in DOMAIN tokens :
    tokens[i].parent # 0 => tokens[i].asked <= tokens[tokens[i].parent].spentAt

\* A user who was inactive when the request began is issued nothing.
InactiveGetNothing ==
  \A i \in DOMAIN tokens :
    tokens[i].user \notin active => tokens[i].asked <= leftAt[tokens[i].user]

\* Rotation: a refresh token is exchanged at most once.
ExchangedOnce ==
  \A i, j \in DOMAIN tokens :
    tokens[i].parent # 0 /\ tokens[i].parent = tokens[j].parent => i = j
================================================================================
