-------------------------- MODULE RefreshTokensProofs --------------------------
(***************************************************************************)
(* Proofs about RefreshTokens, for any users, slots and number of requests: *)
(* type correctness, and what rotation, revocation and deactivation        *)
(* guarantee.                                                              *)
(***************************************************************************)
EXTENDS RefreshTokens, TLAPS

--------------------------------------------------------------------------------
\* The inductive invariant.

Busy(r) == pc[r] # "idle"

\* What is in a slot is a request, at a stage of its operation, and a token it presents
\* is one of its user.
RequestIsReal(r) ==
  /\ req[r] \in Requests
  /\ req[r].began <= clock
  /\ req[r].op = "login"   => pc[r] \in {"begun", "issuing"} /\ req[r].token = 0
  /\ req[r].op = "refresh" => pc[r] \in {"begun", "found", "valid", "issuing"}
  /\ req[r].op = "logout"  => pc[r] \in {"begun", "valid"}
  /\ req[r].op # "login"   =>
       /\ req[r].token \in DOMAIN tokens
       /\ Presented(r).user = req[r].user

\* A refresh past the first check has begun no later than its token was spent.
CameInTime(r) ==
  req[r].op = "refresh" /\ pc[r] # "begun" =>
    /\ Presented(r).revoked => req[r].began <= Presented(r).spentAt
    /\ pc[r] = "issuing" => Presented(r).revoked

\* A request past the check of its user has begun no later than he was deactivated.
UserWasActive(r) ==
  /\ pc[r] = "issuing" \/ (req[r].op = "refresh" /\ pc[r] = "valid")
  /\ req[r].user \notin active
  => req[r].began <= leftAt[req[r].user]

SlotInv(r) == Busy(r) => RequestIsReal(r) /\ CameInTime(r) /\ UserWasActive(r)

\* What holds of each row of refresh_tokens.
TokenInv(i) ==
  /\ tokens[i].asked <= clock
  /\ tokens[i].user \notin active => tokens[i].asked <= leftAt[tokens[i].user]
  /\ tokens[i].parent # 0 =>
       /\ tokens[tokens[i].parent].revoked
       /\ tokens[tokens[i].parent].user = tokens[i].user
       /\ tokens[i].asked <= tokens[tokens[i].parent].spentAt

Inv ==
  /\ TypeOK
  /\ \A r \in Slots : SlotInv(r)
  /\ \A i \in DOMAIN tokens : TokenInv(i)

LEMMA InitInv == Init => Inv
  <1> SUFFICES ASSUME Init PROVE Inv
    OBVIOUS
  <1>1. DOMAIN tokens = {} /\ tokens \in Seq(Token)
    BY DEF Init
  <1>2. TypeOK
    BY <1>1, ParametersAssumption DEF Init, TypeOK, Stages, Answers
  <1>3. \A r \in Slots : ~Busy(r)
    BY DEF Init, Busy
  <1> QED BY <1>1, <1>2, <1>3 DEF Inv, SlotInv

--------------------------------------------------------------------------------
\* Types of the parts.

LEMMA TokenType ==
  ASSUME TypeOK, NEW i \in DOMAIN tokens
  PROVE  /\ tokens[i] \in Token
         /\ i \in Nat /\ i >= 1 /\ i <= Len(tokens)
         /\ tokens[i].user \in Users /\ tokens[i].revoked \in BOOLEAN
         /\ tokens[i].expired \in BOOLEAN /\ tokens[i].parent \in Nat
         /\ tokens[i].asked \in Nat /\ tokens[i].spentAt \in Nat
         /\ tokens[i].parent < i
         /\ tokens[i].parent # 0 => tokens[i].parent \in DOMAIN tokens
  <1>1. tokens[i] \in Token /\ i \in 1 .. Len(tokens) /\ Len(tokens) \in Nat
    BY DEF TypeOK
  <1>2. tokens[i].parent \in Nat /\ tokens[i].parent < i
    BY <1>1 DEF TypeOK, Token
  <1>3. DOMAIN tokens = 1 .. Len(tokens)
    BY DEF TypeOK
  <1>4. tokens[i].parent # 0 => tokens[i].parent \in DOMAIN tokens
    BY <1>1, <1>2, <1>3
  <1> QED BY <1>1, <1>2, <1>4 DEF Token

LEMMA RequestType ==
  ASSUME Inv, NEW r \in Slots, Busy(r)
  PROVE  /\ RequestIsReal(r) /\ CameInTime(r) /\ UserWasActive(r)
         /\ req[r] \in Requests
         /\ req[r].user \in Users /\ req[r].began \in Nat /\ req[r].token \in Nat
         /\ req[r].op \in Operations
  <1>1. RequestIsReal(r) /\ CameInTime(r) /\ UserWasActive(r)
    BY DEF Inv, SlotInv
  <1> QED BY <1>1 DEF RequestIsReal, Requests

--------------------------------------------------------------------------------
\* Steps that move a request and leave the rows alone.

\* A request that has ended leaves its slot empty.
LEMMA RespondKeeps ==
  ASSUME Inv, NEW r \in Slots, NEW a \in Answers, Respond(r, a), UNCHANGED <<db, clock>>
  PROVE  Inv'
  <1>1. TypeOK'
    BY DEF Inv, TypeOK, Respond, db, Stages, Token
  <1>2. \A q \in Slots : q # r => pc'[q] = pc[q] /\ req'[q] = req[q]
    BY DEF Inv, TypeOK, Respond
  <1>3. ~Busy(r)'
    BY DEF Inv, TypeOK, Respond, Busy
  <1>4. \A q \in Slots : SlotInv(q)'
    BY <1>2, <1>3 DEF Inv, SlotInv, Busy, RequestIsReal, CameInTime, UserWasActive, Presented, db
  <1>5. \A i \in DOMAIN tokens' : TokenInv(i)'
    BY DEF Inv, TokenInv, db
  <1> QED BY <1>1, <1>4, <1>5 DEF Inv

\* A request goes to a stage that its operation has and its checks allow.
LEMMA GotoKeeps ==
  ASSUME Inv, NEW r \in Slots, NEW stage \in Stages \ {"idle"}, Busy(r),
         Goto(r, stage), UNCHANGED <<db, clock>>,
         SlotInv(r)'
  PROVE  Inv'
  <1>1. TypeOK'
    BY DEF Inv, TypeOK, Goto, db, Stages, Token
  <1>2. \A q \in Slots : q # r => pc'[q] = pc[q] /\ req'[q] = req[q]
    BY DEF Inv, TypeOK, Goto
  <1>3. \A q \in Slots : SlotInv(q)'
    BY <1>2 DEF Inv, SlotInv, Busy, RequestIsReal, CameInTime, UserWasActive, Presented, db
  <1>4. \A i \in DOMAIN tokens' : TokenInv(i)'
    BY DEF Inv, TokenInv, db
  <1> QED BY <1>1, <1>3, <1>4 DEF Inv

--------------------------------------------------------------------------------
\* The actions.

\* A login, or a request that presents a token of its user.
RequestBegins(r) ==
  \E q \in Requests :
    /\ req' = [req EXCEPT ![r] = q]
    /\ q.began = clock + 1
    /\ q.op = "login" => q.token = 0
    /\ q.op # "login" => q.token \in DOMAIN tokens /\ tokens[q.token].user = q.user

LEMMA BeginKeeps ==
  ASSUME Inv, NEW r \in Slots, Begin(r)
  PROVE  Inv'
  <1>1. clock \in Nat /\ clock' = clock + 1 /\ clock' \in 0 .. MaxRequests
    BY ParametersAssumption DEF Begin, Inv, TypeOK
  <1>2. PICK q \in Requests :
          /\ req' = [req EXCEPT ![r] = q]
          /\ q.began = clock + 1
          /\ q.op = "login" => q.token = 0
          /\ q.op # "login" => q.token \in DOMAIN tokens /\ tokens[q.token].user = q.user
    <2>1. ASSUME NEW op \in Operations, NEW u \in Users, NEW t \in Nat,
                 req' = [req EXCEPT ![r] = [op |-> op, user |-> u, token |-> t,
                                            began |-> clock + 1]],
                 op = "login" => t = 0,
                 op # "login" => t \in DOMAIN tokens /\ tokens[t].user = u
          PROVE  RequestBegins(r)
      <3> DEFINE q == [op |-> op, user |-> u, token |-> t, began |-> clock + 1]
      <3>1. q \in Requests
        BY <1>1 DEF Requests
      <3>2. q.op = op /\ q.user = u /\ q.token = t /\ q.began = clock + 1
        OBVIOUS
      <3>3. req' = [req EXCEPT ![r] = q]
        BY <2>1
      <3> HIDE DEF q
      <3> QED BY <2>1, <3>1, <3>2, <3>3 DEF RequestBegins
    <2>2. ASSUME NEW u \in Users,
                 req' = [req EXCEPT ![r] = [op |-> "login", user |-> u, token |-> 0,
                                            began |-> clock + 1]]
          PROVE  RequestBegins(r)
      <3>1. "login" \in Operations /\ 0 \in Nat
        BY DEF Operations
      <3> QED BY <2>1, <2>2, <3>1
    <2>3. ASSUME NEW op \in {"refresh", "logout"}, NEW i \in DOMAIN tokens,
                 req' = [req EXCEPT ![r] = [op |-> op, user |-> tokens[i].user, token |-> i,
                                            began |-> clock + 1]]
          PROVE  RequestBegins(r)
      <3>1. tokens[i].user \in Users /\ i \in Nat
        BY TokenType DEF Inv
      <3>2. op \in Operations /\ op # "login"
        BY DEF Operations
      <3> QED BY <2>1, <2>3, <3>1, <3>2
    <2>4. RequestBegins(r)
      BY <2>2, <2>3, Zenon DEF Begin
    <2> QED BY <2>4 DEF RequestBegins
  <1>3. req' \in [Slots -> Requests \cup {NoRequest}] /\ req'[r] = q
    BY <1>2 DEF Inv, TypeOK
  <1>4. pc' \in [Slots -> Stages] /\ pc'[r] = "begun" /\ res' \in [Slots -> Answers]
    BY DEF Begin, Inv, TypeOK, Stages, Answers
  <1>5. UNCHANGED <<tokens, active, leftAt>>
    BY DEF Begin, db
  <1>6. TypeOK'
    BY <1>1, <1>3, <1>4, <1>5 DEF Inv, TypeOK
  <1>7. ASSUME NEW p \in Slots, p # r
        PROVE  SlotInv(p)'
    <2>1. pc'[p] = pc[p] /\ req'[p] = req[p]
      BY <1>2, <1>7 DEF Begin, Inv, TypeOK
    <2>2. Busy(p) => req[p].began \in Nat
      BY RequestType
    <2>3. Busy(p) /\ req[p].began <= clock => req[p].began <= clock'
      BY <1>1, <2>2
    <2> QED BY <1>5, <2>1, <2>3
      DEF Inv, SlotInv, Busy, RequestIsReal, CameInTime, UserWasActive, Presented
  <1>8. SlotInv(r)'
    <2>1. q.began <= clock'
      BY <1>1, <1>2
    <2>2. q.op \in Operations
      BY DEF Requests
    <2> QED BY <1>2, <1>3, <1>4, <1>5, <2>1, <2>2
      DEF SlotInv, RequestIsReal, CameInTime, UserWasActive, Presented
  <1>9. ASSUME NEW i \in DOMAIN tokens
        PROVE  TokenInv(i)'
    <2>1. TokenInv(i) /\ tokens[i].asked \in Nat
      BY TokenType DEF Inv
    <2>2. tokens[i].asked <= clock'
      BY <1>1, <2>1 DEF TokenInv
    <2> QED BY <1>5, <2>1, <2>2 DEF TokenInv
  <1> QED BY <1>5, <1>6, <1>7, <1>8, <1>9 DEF Inv

LEMMA AuthenticateKeeps ==
  ASSUME Inv, NEW r \in Slots, Authenticate(r)
  PROVE  Inv'
  <1>1. Busy(r) /\ req[r].op = "login" /\ UNCHANGED <<db, clock>>
    BY DEF Authenticate, Handles, Busy
  <1>2. CASE Respond(r, "unauthorized")
    BY <1>1, <1>2, RespondKeeps DEF Answers
  <1>3. CASE req[r].user \in active /\ Goto(r, "issuing")
    <2>1. pc'[r] = "issuing" /\ req' = req
      BY <1>3 DEF Goto, Inv, TypeOK
    <2>2. SlotInv(r)'
      BY <1>1, <1>3, <2>1, RequestType
      DEF SlotInv, RequestIsReal, CameInTime, UserWasActive, Presented, db
    <2> QED BY <1>1, <1>3, <2>2, GotoKeeps DEF Stages
  <1> QED BY <1>2, <1>3 DEF Authenticate

LEMMA FindTokenKeeps ==
  ASSUME Inv, NEW r \in Slots, FindToken(r)
  PROVE  Inv'
  <1>1. Busy(r) /\ req[r].op = "refresh" /\ UNCHANGED <<db, clock>>
    BY DEF FindToken, Handles, Busy
  <1>2. CASE Respond(r, "unauthorized")
    BY <1>1, <1>2, RespondKeeps DEF Answers
  <1>3. CASE ~Presented(r).revoked /\ Goto(r, "found")
    <2>1. pc'[r] = "found" /\ req' = req
      BY <1>3 DEF Goto, Inv, TypeOK
    <2>2. SlotInv(r)'
      BY <1>1, <1>3, <2>1, RequestType
      DEF SlotInv, RequestIsReal, CameInTime, UserWasActive, Presented, db
    <2> QED BY <1>1, <1>3, <2>2, GotoKeeps DEF Stages
  <1> QED BY <1>2, <1>3 DEF FindToken

LEMMA CheckUserKeeps ==
  ASSUME Inv, NEW r \in Slots, CheckUser(r)
  PROVE  Inv'
  <1>1. Busy(r) /\ pc[r] = "found" /\ req[r].op = "refresh" /\ UNCHANGED <<db, clock>>
    BY DEF CheckUser, Handles, Busy
  <1>2. CASE Respond(r, "unauthorized")
    BY <1>1, <1>2, RespondKeeps DEF Answers
  <1>3. CASE req[r].user \in active /\ Goto(r, "valid")
    <2>1. pc'[r] = "valid" /\ req' = req
      BY <1>3 DEF Goto, Inv, TypeOK
    <2>2. SlotInv(r)'
      BY <1>1, <1>3, <2>1, RequestType
      DEF SlotInv, RequestIsReal, CameInTime, UserWasActive, Presented, db
    <2> QED BY <1>1, <1>3, <2>2, GotoKeeps DEF Stages
  <1> QED BY <1>2, <1>3 DEF CheckUser

LEMMA LogoutFindKeeps ==
  ASSUME Inv, NEW r \in Slots, LogoutFind(r)
  PROVE  Inv'
  <1>1. Busy(r) /\ req[r].op = "logout" /\ UNCHANGED <<db, clock>>
    BY DEF LogoutFind, Handles, Busy
  <1>2. CASE Respond(r, "ok")
    BY <1>1, <1>2, RespondKeeps DEF Answers
  <1>3. CASE Goto(r, "valid")
    <2>1. pc'[r] = "valid" /\ req' = req
      BY <1>3 DEF Goto, Inv, TypeOK
    <2>2. SlotInv(r)'
      BY <1>1, <1>3, <2>1, RequestType
      DEF SlotInv, RequestIsReal, CameInTime, UserWasActive, Presented, db
    <2> QED BY <1>1, <1>3, <2>2, GotoKeeps DEF Stages
  <1> QED BY <1>2, <1>3 DEF LogoutFind

LEMMA FailKeeps ==
  ASSUME Inv, NEW r \in Slots, Fail(r)
  PROVE  Inv'
  BY RespondKeeps DEF Fail, Answers

\* The row issue_tokens inserts.
LEMMA IssueTokensKeeps ==
  ASSUME Inv, NEW r \in Slots, IssueTokens(r)
  PROVE  Inv'
  <1> DEFINE n == Len(tokens)
             t == Issued(r)
  <1>1. Busy(r) /\ pc[r] = "issuing" /\ UNCHANGED <<active, leftAt, clock>>
    BY DEF IssueTokens, Busy
  <1>2. /\ RequestIsReal(r) /\ CameInTime(r) /\ UserWasActive(r) /\ req[r] \in Requests
        /\ req[r].user \in Users /\ req[r].began \in Nat /\ req[r].token \in Nat
        /\ req[r].op \in Operations
    BY <1>1, RequestType
  <1>3. t \in Token
    BY <1>2 DEF Issued, Token
  <1>4. /\ t.user = req[r].user /\ t.parent = req[r].token /\ t.asked = req[r].began
    BY DEF Issued
  <1>5. tokens \in Seq(Token) /\ n \in Nat /\ DOMAIN tokens = 1 .. n
    BY DEF Inv, TypeOK
  <1> HIDE DEF t
  <1>6. tokens' = Append(tokens, t)
    BY DEF IssueTokens, t
  <1>7. /\ tokens' \in Seq(Token) /\ DOMAIN tokens' = 1 .. n + 1
        /\ \A i \in 1 .. n : tokens'[i] = tokens[i]
        /\ tokens'[n + 1] = t
    BY <1>3, <1>5, <1>6
  <1>8. t.parent # 0 =>
          /\ t.parent \in DOMAIN tokens
          /\ req[r].op = "refresh"
          /\ tokens[t.parent].revoked
          /\ tokens[t.parent].user = t.user
          /\ t.asked <= tokens[t.parent].spentAt
    BY <1>1, <1>2, <1>4 DEF RequestIsReal, CameInTime, Presented, Operations
  <1>9. TypeOK'
    <2>1. \A i \in DOMAIN tokens' : tokens'[i].parent < i
      <3>1. \A i \in DOMAIN tokens : tokens[i].parent < i
        BY DEF Inv, TypeOK
      <3>2. t.parent < n + 1
        BY <1>2, <1>4, <1>5, <1>8
      <3> QED BY <1>5, <1>7, <3>1, <3>2
    <2>2. req' \in [Slots -> Requests \cup {NoRequest}] /\ pc' \in [Slots -> Stages]
          /\ res' \in [Slots -> Answers]
      BY DEF Inv, TypeOK, IssueTokens, Respond, Stages, Answers
    <2> QED BY <1>1, <1>7, <2>1, <2>2 DEF Inv, TypeOK
  <1>10. ASSUME NEW q \in Slots
         PROVE  SlotInv(q)'
    <2>1. CASE q = r
      BY <2>1 DEF Inv, TypeOK, IssueTokens, Respond, SlotInv, Busy
    <2>2. CASE q # r
      <3>1. pc'[q] = pc[q] /\ req'[q] = req[q]
        BY <2>2 DEF Inv, TypeOK, IssueTokens, Respond
      <3>2. SlotInv(q)
        BY DEF Inv
      <3>3. req[q].token \in DOMAIN tokens => Presented(q)' = Presented(q)
        BY <1>5, <1>7, <3>1 DEF Presented
      <3>4. req[q].token \in DOMAIN tokens => req[q].token \in DOMAIN tokens'
        BY <1>5, <1>7
      <3> QED BY <1>1, <3>1, <3>2, <3>3, <3>4
            DEF SlotInv, Busy, RequestIsReal, CameInTime, UserWasActive
    <2> QED BY <2>1, <2>2
  <1>11. ASSUME NEW i \in DOMAIN tokens'
         PROVE  TokenInv(i)'
    <2>1. CASE i \in DOMAIN tokens
      <3>1. TokenInv(i) /\ tokens'[i] = tokens[i]
        BY <1>5, <1>7, <2>1 DEF Inv
      <3>2. tokens[i].parent # 0 => tokens'[tokens[i].parent] = tokens[tokens[i].parent]
        BY <1>5, <1>7, <2>1, TokenType DEF Inv
      <3> QED BY <1>1, <3>1, <3>2 DEF TokenInv
    <2>2. CASE i = n + 1
      <3>1. tokens'[i] = t
        BY <1>7, <2>2
      <3>2. t.asked <= clock /\ (t.user \notin active => t.asked <= leftAt[t.user])
        BY <1>1, <1>2, <1>4 DEF RequestIsReal, UserWasActive
      <3>3. t.parent # 0 => tokens'[t.parent] = tokens[t.parent]
        BY <1>5, <1>7, <1>8
      <3> QED BY <1>1, <1>8, <3>1, <3>2, <3>3 DEF TokenInv
    <2> QED BY <1>5, <1>7, <2>1, <2>2
  <1> QED BY <1>9, <1>10, <1>11 DEF Inv

--------------------------------------------------------------------------------
\* The steps that change rows.

\* Rows may be revoked, now, and may expire; nothing else becomes of them.
RowsAge ==
  /\ tokens' \in Seq(Token) /\ DOMAIN tokens' = DOMAIN tokens
  /\ \A i \in DOMAIN tokens :
       /\ tokens'[i].user = tokens[i].user
       /\ tokens'[i].parent = tokens[i].parent
       /\ tokens'[i].asked = tokens[i].asked
       /\ tokens[i].revoked => tokens'[i].revoked /\ tokens'[i].spentAt = tokens[i].spentAt
       /\ tokens'[i].revoked /\ ~tokens[i].revoked => tokens'[i].spentAt = clock
  /\ UNCHANGED <<active, leftAt, clock>>

LEMMA AgeKeepsRows ==
  ASSUME Inv, RowsAge
  PROVE  /\ \A i \in DOMAIN tokens' : TokenInv(i)'
         /\ \A i \in DOMAIN tokens' : tokens'[i].parent < i
  <1>1. ASSUME NEW i \in DOMAIN tokens
        PROVE  TokenInv(i)' /\ tokens'[i].parent < i
    <2>1. tokens[i].parent # 0 => tokens[i].parent \in DOMAIN tokens
      BY TokenType DEF Inv
    <2>2. TokenInv(i) /\ tokens[i].parent < i
      BY DEF Inv, TypeOK
    <2> QED BY <2>1, <2>2 DEF RowsAge, TokenInv
  <1> QED BY <1>1 DEF RowsAge

LEMMA AgeKeepsSlots ==
  ASSUME Inv, RowsAge, NEW q \in Slots, pc'[q] = pc[q], req'[q] = req[q]
  PROVE  SlotInv(q)'
  <1> SUFFICES ASSUME Busy(q) PROVE SlotInv(q)'
    BY DEF SlotInv, Busy
  <1>1. RequestIsReal(q) /\ CameInTime(q) /\ UserWasActive(q)
    BY RequestType
  <1>2. RequestIsReal(q)'
    BY <1>1 DEF RequestIsReal, RowsAge, Presented
  <1>3. UserWasActive(q)'
    BY <1>1 DEF UserWasActive, RowsAge
  <1>4. CameInTime(q)'
    <2>1. req[q].op = "refresh" => req[q].token \in DOMAIN tokens /\ req[q].began <= clock
      BY <1>1 DEF RequestIsReal
    <2>2. tokens[req[q].token].revoked \in BOOLEAN \/ req[q].op # "refresh"
      BY <2>1, TokenType DEF Inv
    <2> QED BY <1>1, <2>1, <2>2 DEF CameInTime, RowsAge, Presented
  <1> QED BY <1>2, <1>3, <1>4 DEF SlotInv

LEMMA RevokeAges ==
  ASSUME Inv, NEW i \in DOMAIN tokens, SetRevoked(i), UNCHANGED <<active, leftAt, clock>>
  PROVE  RowsAge /\ tokens'[i].revoked
  <1> DEFINE t == [tokens[i] EXCEPT !.revoked = TRUE,
                     !.spentAt = IF tokens[i].revoked THEN tokens[i].spentAt ELSE clock]
  <1>1. tokens \in Seq(Token) /\ tokens[i] \in Token /\ clock \in Nat
    BY TokenType, ParametersAssumption DEF Inv, TypeOK
  <1>2. tokens[i].spentAt \in Nat
    BY TokenType DEF Inv
  <1>3. /\ t \in Token /\ t.revoked
        /\ t.user = tokens[i].user /\ t.parent = tokens[i].parent /\ t.asked = tokens[i].asked
        /\ t.spentAt = IF tokens[i].revoked THEN tokens[i].spentAt ELSE clock
    BY <1>1, <1>2 DEF Token
  <1>4. tokens' = [tokens EXCEPT ![i] = t]
    BY DEF SetRevoked
  <1> HIDE DEF t
  <1>5. /\ tokens' \in Seq(Token) /\ DOMAIN tokens' = DOMAIN tokens
        /\ \A j \in DOMAIN tokens : tokens'[j] = IF j = i THEN t ELSE tokens[j]
    BY <1>1, <1>3, <1>4
  <1> QED BY <1>3, <1>5 DEF RowsAge

LEMMA SpendKeeps ==
  ASSUME Inv, NEW r \in Slots, Spend(r)
  PROVE  Inv'
  <1>1. /\ Busy(r) /\ pc[r] = "valid" /\ req[r].op = "refresh"
        /\ UNCHANGED <<active, leftAt, clock>>
    BY DEF Spend, Handles, Busy
  <1>2. RequestIsReal(r) /\ CameInTime(r) /\ UserWasActive(r)
    BY <1>1, RequestType
  <1>3. req[r].token \in DOMAIN tokens
    BY <1>1, <1>2 DEF RequestIsReal
  <1>4. RowsAge /\ tokens'[req[r].token].revoked
    BY <1>1, <1>3, RevokeAges DEF Spend
  <1>5. /\ pc' \in [Slots -> Stages] /\ pc'[r] = "issuing"
        /\ \A q \in Slots : q # r => pc'[q] = pc[q]
        /\ req' = req /\ res' = res
    BY DEF Spend, Goto, Inv, TypeOK, Stages
  <1>6. SlotInv(r)'
    <2>1. RequestIsReal(r)'
      BY <1>1, <1>2, <1>4, <1>5 DEF RequestIsReal, RowsAge, Presented
    <2>2. UserWasActive(r)'
      BY <1>1, <1>2, <1>4, <1>5 DEF UserWasActive, RowsAge
    <2>3. CameInTime(r)'
      <3>1. req[r].began <= clock
        BY <1>2 DEF RequestIsReal
      <3>2. tokens[req[r].token].revoked \in BOOLEAN
        BY <1>3, TokenType DEF Inv
      <3> QED BY <1>1, <1>2, <1>3, <1>4, <1>5, <3>1, <3>2 DEF CameInTime, RowsAge, Presented
    <2> QED BY <2>1, <2>2, <2>3 DEF SlotInv
  <1>7. \A q \in Slots : SlotInv(q)'
    BY <1>4, <1>5, <1>6, AgeKeepsSlots
  <1>8. /\ \A i \in DOMAIN tokens' : TokenInv(i)'
        /\ \A i \in DOMAIN tokens' : tokens'[i].parent < i
    BY <1>4, AgeKeepsRows
  <1>9. TypeOK'
    BY <1>4, <1>5, <1>8 DEF Inv, TypeOK, RowsAge
  <1> QED BY <1>7, <1>8, <1>9 DEF Inv

LEMMA LogoutRevokeKeeps ==
  ASSUME Inv, NEW r \in Slots, LogoutRevoke(r)
  PROVE  Inv'
  <1>1. /\ Busy(r) /\ req[r].op = "logout" /\ UNCHANGED <<active, leftAt, clock>>
    BY DEF LogoutRevoke, Handles, Busy
  <1>2. req[r].token \in DOMAIN tokens
    BY <1>1, RequestType DEF RequestIsReal
  <1>3. RowsAge
    BY <1>1, <1>2, RevokeAges DEF LogoutRevoke
  <1>4. /\ pc' \in [Slots -> Stages] /\ req' \in [Slots -> Requests \cup {NoRequest}]
        /\ res' \in [Slots -> Answers] /\ pc'[r] = "idle"
        /\ \A q \in Slots : q # r => pc'[q] = pc[q] /\ req'[q] = req[q]
    BY DEF LogoutRevoke, Respond, Inv, TypeOK, Stages, Answers
  <1>5. \A q \in Slots : SlotInv(q)'
    BY <1>3, <1>4, AgeKeepsSlots DEF SlotInv, Busy
  <1>6. /\ \A i \in DOMAIN tokens' : TokenInv(i)'
        /\ \A i \in DOMAIN tokens' : tokens'[i].parent < i
    BY <1>3, AgeKeepsRows
  <1>7. TypeOK'
    BY <1>3, <1>4, <1>6 DEF Inv, TypeOK, RowsAge
  <1> QED BY <1>5, <1>6, <1>7 DEF Inv

LEMMA ExpireTokenKeeps ==
  ASSUME Inv, NEW i \in DOMAIN tokens, ExpireToken(i)
  PROVE  Inv'
  <1> DEFINE t == [tokens[i] EXCEPT !.expired = TRUE]
  <1>1. tokens \in Seq(Token) /\ tokens[i] \in Token
    BY TokenType DEF Inv, TypeOK
  <1>2. /\ t \in Token /\ t.revoked = tokens[i].revoked /\ t.spentAt = tokens[i].spentAt
        /\ t.user = tokens[i].user /\ t.parent = tokens[i].parent /\ t.asked = tokens[i].asked
    BY <1>1 DEF Token
  <1>3. tokens' = [tokens EXCEPT ![i] = t] /\ UNCHANGED <<active, leftAt, clock, pc, req, res>>
    BY DEF ExpireToken
  <1> HIDE DEF t
  <1>4. /\ tokens' \in Seq(Token) /\ DOMAIN tokens' = DOMAIN tokens
        /\ \A j \in DOMAIN tokens : tokens'[j] = IF j = i THEN t ELSE tokens[j]
    BY <1>1, <1>2, <1>3
  <1>5. RowsAge
    BY <1>2, <1>3, <1>4 DEF RowsAge
  <1>6. \A q \in Slots : SlotInv(q)'
    BY <1>3, <1>5, AgeKeepsSlots
  <1>7. /\ \A j \in DOMAIN tokens' : TokenInv(j)'
        /\ \A j \in DOMAIN tokens' : tokens'[j].parent < j
    BY <1>5, AgeKeepsRows
  <1>8. TypeOK'
    BY <1>3, <1>4, <1>7 DEF Inv, TypeOK
  <1> QED BY <1>6, <1>7, <1>8 DEF Inv

--------------------------------------------------------------------------------
\* The steps that change users.

LEMMA DeactivateKeeps ==
  ASSUME Inv, NEW u \in Users, Deactivate(u)
  PROVE  Inv'
  <1>1. /\ active' = active \ {u} /\ leftAt' \in [Users -> Nat]
        /\ leftAt'[u] = clock /\ \A v \in Users \ {u} : leftAt'[v] = leftAt[v]
        /\ UNCHANGED <<tokens, clock, pc, req, res>>
    BY ParametersAssumption DEF Deactivate, Inv, TypeOK
  <1>2. TypeOK'
    BY <1>1 DEF Inv, TypeOK, Token
  <1>3. ASSUME NEW r \in Slots, Busy(r)
        PROVE  SlotInv(r)'
    <2>1. /\ RequestIsReal(r) /\ CameInTime(r) /\ UserWasActive(r)
          /\ req[r].user \in Users
      BY <1>3, RequestType
    <2>2. req[r].began <= clock
      BY <2>1 DEF RequestIsReal
    <2>3. UserWasActive(r)'
      BY <1>1, <2>1, <2>2 DEF UserWasActive
    <2> QED BY <1>1, <2>1, <2>3 DEF SlotInv, RequestIsReal, CameInTime, Presented
  <1>4. ASSUME NEW i \in DOMAIN tokens
        PROVE  TokenInv(i)'
    <2>1. TokenInv(i) /\ tokens[i].user \in Users
      BY TokenType DEF Inv
    <2> QED BY <1>1, <2>1 DEF TokenInv
  <1> QED BY <1>1, <1>2, <1>3, <1>4 DEF Inv, SlotInv, Busy

LEMMA SeedActivatesKeeps ==
  ASSUME Inv, NEW u \in Users, SeedActivates(u)
  PROVE  Inv'
  <1>1. active' = active \cup {u} /\ UNCHANGED <<tokens, leftAt, clock, pc, req, res>>
    BY DEF SeedActivates
  <1>2. TypeOK'
    BY <1>1 DEF Inv, TypeOK, Token
  <1>3. \A r \in Slots : SlotInv(r)'
    BY <1>1 DEF Inv, SlotInv, Busy, RequestIsReal, CameInTime, UserWasActive, Presented
  <1>4. \A i \in DOMAIN tokens' : TokenInv(i)'
    BY <1>1 DEF Inv, TokenInv
  <1> QED BY <1>2, <1>3, <1>4 DEF Inv

--------------------------------------------------------------------------------

LEMMA NextInv == Inv /\ [Next]_vars => Inv'
  <1> SUFFICES ASSUME Inv, [Next]_vars PROVE Inv'
    OBVIOUS
  <1>1. ASSUME NEW r \in Slots, Begin(r) PROVE Inv'
    BY <1>1, BeginKeeps
  <1>2. ASSUME NEW r \in Slots, Serve(r) PROVE Inv'
    BY <1>2, AuthenticateKeeps, FindTokenKeeps, CheckUserKeeps, SpendKeeps, IssueTokensKeeps,
       LogoutFindKeeps, LogoutRevokeKeeps DEF Serve
  <1>3. ASSUME NEW r \in Slots, Fail(r) PROVE Inv'
    BY <1>3, FailKeeps
  <1>4. ASSUME NEW i \in DOMAIN tokens, ExpireToken(i) PROVE Inv'
    BY <1>4, ExpireTokenKeeps
  <1>5. ASSUME NEW u \in Users, Deactivate(u) PROVE Inv'
    BY <1>5, DeactivateKeeps
  <1>6. ASSUME NEW u \in Users, SeedActivates(u) PROVE Inv'
    BY <1>6, SeedActivatesKeeps
  <1>7. CASE UNCHANGED vars
    BY <1>7 DEF vars, db, Inv, TypeOK, Token, SlotInv, Busy, RequestIsReal, CameInTime,
       UserWasActive, Presented, TokenInv
  <1> QED BY <1>1, <1>2, <1>3, <1>4, <1>5, <1>6, <1>7 DEF Next

\* The rows, the users and the slots keep their types, and no token replaces a later one.
THEOREM TypeCorrect == Spec => []TypeOK
  <1>1. Inv => TypeOK
    BY DEF Inv
  <1> QED BY <1>1, InitInv, NextInv, PTL DEF Spec

\* A token that replaces another is its user's, and the other is revoked.
THEOREM RotationsSpend == Spec => []RotationSpends
  <1>1. Inv => RotationSpends
    BY DEF Inv, TokenInv, RotationSpends
  <1> QED BY <1>1, InitInv, NextInv, PTL DEF Spec

\* Nobody who comes after a token was revoked gets anything for it.
THEOREM SpentTokensStayRefused == Spec => []SpentTokensRefused
  <1>1. Inv => SpentTokensRefused
    BY DEF Inv, TokenInv, SpentTokensRefused
  <1> QED BY <1>1, InitInv, NextInv, PTL DEF Spec

\* Nobody who comes after he was deactivated is issued a token.
THEOREM InactiveUsersGetNothing == Spec => []InactiveGetNothing
  <1>1. Inv => InactiveGetNothing
    BY DEF Inv, TokenInv, InactiveGetNothing
  <1> QED BY <1>1, InitInv, NextInv, PTL DEF Spec
================================================================================
