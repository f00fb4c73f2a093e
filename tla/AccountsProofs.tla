----------------------------- MODULE AccountsProofs ----------------------------
(***************************************************************************)
(* Theorems about Accounts: whoever the people are and however their       *)
(* requests interleave, a session goes only to the person its account      *)
(* belongs to, a code is tried no more often than the cap, and a Google    *)
(* identity is linked only to an address that was proved.                  *)
(***************************************************************************)
EXTENDS Accounts, TLAPS

-------------------------------------------------------------------------------
(* Types.                                                                  *)

LEMMA Values ==
    /\ NONE \notin People /\ NONE \notin Addresses /\ NONE \notin Subjects /\ NONE \notin Codes
    /\ 0 \in 0..MaxAttempts /\ 0 \in 0..Retries /\ MaxAttempts \in Nat /\ Retries \in Nat
  BY AccountsAssumption

LEMMA BeginIsRequest ==
    ASSUME NEW step \in {"idle", "login", "google"}, NEW p \in People \cup {NONE},
           NEW g \in Subjects \cup {NONE}, NEW a \in Addresses \cup {NONE},
           NEW status \in {"none", "pending", "active"}
    PROVE  Begin(step, p, g, a, status) \in Request
  BY Values DEF Begin, Request

LEMMA IdleIsRequest == Idle \in Request
  BY BeginIsRequest DEF Idle

\* A request moves on, or starts over.
LEMMA RequestMoves ==
    ASSUME TypeOK, NEW r \in Requests,
           \/ \E x \in Request : request' = [request EXCEPT ![r] = x]
           \/ \E step \in {"unlinked", "vacant", "taken", "conflict"} :
                 request' = [request EXCEPT ![r].step = step]
           \/ Retry(r)
    PROVE  request' \in [Requests -> Request]
<1>0. request \in [Requests -> Request] /\ request[r] \in Request
  BY DEF TypeOK
<1>1. ASSUME request[r].retried < Retries,
             request' = [request EXCEPT ![r].step = "google",
                                        ![r].retried = request[r].retried + 1]
      PROVE  request' \in [Requests -> Request]
  <2>1. request[r].retried + 1 \in 0..Retries
    BY <1>0, <1>1, Values DEF Request
  <2>2. [request[r] EXCEPT !.step = "google", !.retried = request[r].retried + 1] \in Request
    BY <1>0, <2>1 DEF Request
  <2> QED
    BY <1>0, <1>1, <2>2
<1>2. ASSUME NEW step \in {"unlinked", "vacant", "taken", "conflict"},
             request' = [request EXCEPT ![r].step = step]
      PROVE  request' \in [Requests -> Request]
  <2>1. [request[r] EXCEPT !.step = step] \in Request
    BY <1>0 DEF Request
  <2> QED
    BY <1>0, <1>2, <2>1
<1> QED
  BY <1>0, <1>1, <1>2 DEF Retry

\* What issuing and handing out a code do to the rows of codes.
LEMMA IssueTypes ==
    ASSUME TypeOK, NEW a \in Addresses, NEW p \in People \cup {NONE}, NEW k \in Codes,
           IssueCode(a, p, k)
    PROVE  /\ verification' \in [Addresses -> Verification]
           /\ verification'[a].holder = p /\ verification'[a].code = k
           /\ verification'[a].attempts = 0
           /\ \A b \in Addresses \ {a} : verification'[b] = verification[b]
           /\ tried' \in [Codes -> Nat] /\ tried' = [tried EXCEPT ![k] = 0]
           /\ mail' \subseteq Addresses \X Codes /\ recent' \subseteq Addresses
           /\ UNCHANGED inbox
<1>0. /\ verification \in [Addresses -> Verification] /\ tried \in [Codes -> Nat]
      /\ mail \subseteq Addresses \X Codes /\ recent \subseteq Addresses
  BY DEF TypeOK
<1> DEFINE row == [holder |-> p, code |-> k, attempts |-> 0, lapsed |-> FALSE,
                   cooling |-> Outstanding(a) => verification[a].cooling]
<1>1. verification' = [verification EXCEPT ![a] = row]
  BY DEF IssueCode, Replace
<1>2. row \in Verification /\ row.holder = p /\ row.code = k /\ row.attempts = 0
  BY Values DEF Verification
<1> HIDE DEF row
<1>3. /\ verification' \in [Addresses -> Verification] /\ verification'[a] = row
      /\ \A b \in Addresses \ {a} : verification'[b] = verification[b]
  BY <1>0, <1>1, <1>2
<1>4. /\ tried' = [tried EXCEPT ![k] = 0] /\ mail' = mail \cup {<<a, k>>}
      /\ recent' = recent \cup {a} /\ UNCHANGED inbox
  BY DEF IssueCode
<1> QED
  BY <1>0, <1>2, <1>3, <1>4

LEMMA ReissueTypes ==
    ASSUME TypeOK, NEW a \in Addresses, NEW p \in People \cup {NONE}, ReissueCode(a, p)
    PROVE  /\ verification' \in [Addresses -> Verification]
           /\ verification'[a].holder = p /\ verification'[a].code = verification[a].code
           /\ verification'[a].attempts = verification[a].attempts
           /\ \A b \in Addresses \ {a} : verification'[b] = verification[b]
           /\ UNCHANGED <<mail, inbox, tried, recent>>
<1>0. verification \in [Addresses -> Verification] /\ verification[a] \in Verification
  BY DEF TypeOK
<1> DEFINE row == [holder |-> p, code |-> verification[a].code,
                   attempts |-> verification[a].attempts, lapsed |-> FALSE,
                   cooling |-> Outstanding(a) => verification[a].cooling]
<1>1. verification' = [verification EXCEPT ![a] = row] /\ UNCHANGED <<mail, inbox, tried, recent>>
  BY DEF ReissueCode, Replace
<1>2. /\ row \in Verification /\ row.holder = p /\ row.code = verification[a].code
      /\ row.attempts = verification[a].attempts
  BY <1>0 DEF Verification
<1> HIDE DEF row
<1> QED
  BY <1>0, <1>1, <1>2

\* A sign-in that finds its account pending hands out the code or issues one.
LEMMA ReissueMoves ==
    ASSUME TypeOK, NEW r \in Requests, NEW k \in Codes, LoginReissues(r, k),
           request[r].address \in Addresses
    PROVE  /\ request[r].who \in People \cup {NONE}
           /\ \/ IssueCode(request[r].address, request[r].who, k)
              \/ Outstanding(request[r].address) /\ ReissueCode(request[r].address, request[r].who)
  BY DEF LoginReissues, TypeOK, Request

LEMMA TypeOKInit == Init => TypeOK
<1> SUFFICES ASSUME Init PROVE TypeOK
  OBVIOUS
<1>1. account \in [Addresses -> Account]
  BY AccountsAssumption DEF Init, Account, NoAccount
<1>2. verification \in [Addresses -> Verification]
  BY Values DEF Init, Verification, NoVerification
<1>3. request \in [Requests -> Request]
  BY IdleIsRequest DEF Init
<1> QED
  BY <1>1, <1>2, <1>3 DEF Init, TypeOK

LEMMA TypeOKSignUp ==
    ASSUME TypeOK, NEW p \in People, NEW a \in Addresses,
           \/ \E k \in Codes : Register(p, a, k) \/ ResendVerification(p, a, k)
           \/ TryWrongCode(p, a) \/ VerifyEmail(p, a)
    PROVE  TypeOK'
<1>0. /\ account \in [Addresses -> Account] /\ verification \in [Addresses -> Verification]
      /\ tried \in [Codes -> Nat] /\ verification[a] \in Verification /\ account[a] \in Account
  BY DEF TypeOK
<1>1. ASSUME NEW k \in Codes, Register(p, a, k) PROVE TypeOK'
  <2>1. account' \in [Addresses -> Account]
    BY <1>0, <1>1 DEF Register, Account
  <2>2. IssueCode(a, p, k)
    BY <1>1 DEF Register
  <2> QED
    BY <1>1, <2>1, <2>2, IssueTypes DEF Register, TypeOK
<1>2. ASSUME NEW k \in Codes, ResendVerification(p, a, k) PROVE TypeOK'
  <2>1. IssueCode(a, p, k)
    BY <1>2 DEF ResendVerification
  <2> QED
    BY <1>2, <2>1, IssueTypes DEF ResendVerification, TypeOK
<1>3. CASE TryWrongCode(p, a)
  <2>1. verification[a].attempts + 1 \in 0..MaxAttempts
    BY <1>0, <1>3, Values DEF TryWrongCode, MayTry, Verification
  <2>2. [verification[a] EXCEPT !.attempts = verification[a].attempts + 1] \in Verification
    BY <1>0, <2>1 DEF Verification
  <2>3. verification' = [verification EXCEPT ![a].attempts = verification[a].attempts + 1]
    BY <1>3 DEF TryWrongCode
  <2>4. verification' \in [Addresses -> Verification]
    BY <1>0, <2>2, <2>3
  <2>5. tried' \in [Codes -> Nat]
    <3>1. tried' = [c \in Codes |-> IF c = verification[a].code THEN tried[c] + 1 ELSE tried[c]]
      BY <1>3 DEF TryWrongCode
    <3> QED
      BY <1>0, <3>1
  <2> QED
    BY <1>3, <2>4, <2>5 DEF TryWrongCode, TypeOK
<1>4. CASE VerifyEmail(p, a)
  <2>1. account' \in [Addresses -> Account]
    BY <1>0, <1>4 DEF VerifyEmail, Account
  <2>2. verification' \in [Addresses -> Verification]
    BY <1>0, <1>4, Values DEF VerifyEmail, Verification, NoVerification
  <2> QED
    BY <1>4, <2>1, <2>2 DEF VerifyEmail, OpenSession, TypeOK
<1> QED
  BY <1>1, <1>2, <1>3, <1>4

\* A sign-in in flight knows whose account it is about: whoever proved a
\* password, or whose mailbox Google vouched for.
Earned(r) ==
    /\ request[r].step # "idle" => request[r].address \in Addresses
    /\ request[r].step = "login" =>
          /\ request[r].who \in People
          /\ account[request[r].address].status # "none"
          /\ request[r].read = "active" => request[r].who = Entitled(request[r].address)
          /\ account[request[r].address].status = "pending" =>
                request[r].who = account[request[r].address].password
    /\ request[r].step \notin {"idle", "login"} =>
          request[r].subject \in Subjects /\ <<request[r].subject, request[r].address>> \in Asserts
AllEarned == \A r \in Requests : Earned(r)

LEMMA TypeOKSignIn ==
    ASSUME TypeOK, NEW r \in Requests, Earned(r),
           \/ \E p \in People, a \in Addresses : Login(r, p, a)
           \/ LoginOpens(r)
           \/ \E k \in Codes : LoginReissues(r, k)
    PROVE  TypeOK'
<1>0. request \in [Requests -> Request] /\ request[r] \in Request
  BY DEF TypeOK
<1>1. ASSUME NEW p \in People, NEW a \in Addresses, Login(r, p, a) PROVE TypeOK'
  <2>1. Begin("login", p, NONE, a, account[a].status) \in Request
    BY <1>1, BeginIsRequest DEF Login
  <2>2. request' \in [Requests -> Request]
    BY <1>1, <2>1, RequestMoves DEF Login
  <2> QED
    BY <1>1, <2>2 DEF Login, TypeOK
<1>2. CASE LoginOpens(r)
  <2>1. request' \in [Requests -> Request]
    BY <1>2, IdleIsRequest, RequestMoves DEF LoginOpens
  <2>2. request[r].address \in Addresses /\ request[r].who \in People
    BY <1>2 DEF Earned, LoginOpens
  <2> QED
    BY <1>2, <2>1, <2>2 DEF LoginOpens, TypeOK, OpenSession
<1>3. ASSUME NEW k \in Codes, LoginReissues(r, k) PROVE TypeOK'
  <2>1. request' \in [Requests -> Request]
    BY <1>3, IdleIsRequest, RequestMoves DEF LoginReissues
  <2>2. /\ verification' \in [Addresses -> Verification] /\ tried' \in [Codes -> Nat]
        /\ mail' \subseteq Addresses \X Codes /\ recent' \subseteq Addresses
        /\ UNCHANGED inbox
    <3>1. request[r].who \in People /\ request[r].address \in Addresses
      BY <1>3 DEF Earned, LoginReissues
    <3>2. CASE IssueCode(request[r].address, request[r].who, k)
      BY <3>1, <3>2, IssueTypes
    <3>3. CASE ReissueCode(request[r].address, request[r].who)
      BY <3>1, <3>3, ReissueTypes DEF TypeOK
    <3> QED
      BY <1>3, <3>2, <3>3 DEF LoginReissues
  <2> QED
    BY <1>3, <2>1, <2>2 DEF LoginReissues, TypeOK
<1> QED
  BY <1>1, <1>2, <1>3

LEMMA TypeOKFederated ==
    ASSUME TypeOK, NEW r \in Requests, Earned(r),
           \/ \E g \in Subjects, a \in Addresses : GoogleSignIn(r, g, a)
           \/ GoogleReturns(r) \/ GoogleFindsNoLink(r) \/ GoogleFindsNobody(r)
           \/ GoogleCreates(r) \/ GoogleLinks(r)
           \/ GoogleRefusesLinked(r) \/ GoogleRefusesUnproved(r) \/ AnswerFailure(r)
    PROVE  TypeOK'
<1>0. /\ account \in [Addresses -> Account] /\ verification \in [Addresses -> Verification]
      /\ link \in [Subjects -> Addresses \cup {NONE}] /\ sessions \subseteq Addresses \X People
      /\ PersonOf \in [Subjects -> People]
  BY AccountsAssumption DEF TypeOK
<1>1. ASSUME UNCHANGED <<account, verification, link, mail, inbox, sessions, tried, recent>>,
             \/ \E x \in Request : request' = [request EXCEPT ![r] = x]
             \/ \E step \in {"unlinked", "vacant", "taken", "conflict"} :
                   request' = [request EXCEPT ![r].step = step]
             \/ Retry(r)
      PROVE  TypeOK'
  BY <1>1, RequestMoves DEF TypeOK
<1>2. ASSUME NEW g \in Subjects, NEW a \in Addresses, GoogleSignIn(r, g, a) PROVE TypeOK'
  <2>1. Begin("google", NONE, g, a, "none") \in Request
    BY BeginIsRequest
  <2> QED
    BY <1>1, <1>2, <2>1 DEF GoogleSignIn
<1>3. CASE GoogleReturns(r)
  <2>1. request' \in [Requests -> Request]
    BY <1>3, IdleIsRequest, RequestMoves DEF GoogleReturns
  <2>2. request[r].subject \in Subjects
    BY <1>3 DEF Earned, GoogleReturns
  <2>3. sessions' \subseteq Addresses \X People
    BY <1>0, <1>3, <2>2 DEF GoogleReturns, OpenSession
  <2> QED
    BY <1>3, <2>1, <2>3 DEF GoogleReturns, TypeOK
<1>4. CASE GoogleFindsNoLink(r) \/ GoogleFindsNobody(r) \/ GoogleRefusesLinked(r)
  BY <1>1, <1>4 DEF GoogleFindsNoLink, GoogleFindsNobody, GoogleRefusesLinked
<1>5. CASE GoogleRefusesUnproved(r) \/ AnswerFailure(r)
  BY <1>1, <1>5, IdleIsRequest DEF GoogleRefusesUnproved, AnswerFailure
<1>6. CASE Retry(r)
  BY <1>1, <1>6 DEF Retry
<1> DEFINE a == request[r].address
           g == request[r].subject
<1>7. CASE GoogleCreates(r) /\ ~Retry(r)
  <2>1. a \in Addresses /\ g \in Subjects
    BY <1>7 DEF Earned, GoogleCreates
  <2>2. /\ account' = [account EXCEPT ![a] = [status |-> "active", password |-> NONE, verified |-> TRUE]]
        /\ link' = [link EXCEPT ![g] = a] /\ OpenSession(a, PersonOf[g])
        /\ request' = [request EXCEPT ![r] = Idle]
        /\ UNCHANGED <<verification, mail, inbox, tried, recent>>
    BY <1>7 DEF GoogleCreates
  <2>3. request' \in [Requests -> Request]
    BY <2>2, IdleIsRequest, RequestMoves
  <2>4. account' \in [Addresses -> Account]
    BY <1>0, <2>1, <2>2 DEF Account
  <2>5. link' \in [Subjects -> Addresses \cup {NONE}] /\ sessions' \subseteq Addresses \X People
    BY <1>0, <2>1, <2>2 DEF OpenSession
  <2> QED
    BY <2>2, <2>3, <2>4, <2>5 DEF TypeOK
<1>8. CASE GoogleLinks(r) /\ ~Retry(r)
  <2>1. a \in Addresses /\ g \in Subjects
    BY <1>8 DEF Earned, GoogleLinks
  <2>2. /\ link' = [link EXCEPT ![g] = a] /\ OpenSession(a, PersonOf[g])
        /\ request' = [request EXCEPT ![r] = Idle]
        /\ UNCHANGED <<mail, inbox, tried, recent>>
        /\ \/ /\ account' = [account EXCEPT ![a] = Vouched(a)]
              /\ verification' = [verification EXCEPT ![a] = NoVerification]
           \/ UNCHANGED <<account, verification>>
    BY <1>8 DEF GoogleLinks
  <2>3. request' \in [Requests -> Request]
    BY <2>2, IdleIsRequest, RequestMoves
  <2>a. Vouched(a) \in Account /\ NoVerification \in Verification
    BY Values DEF Account, Vouched, Verification, NoVerification
  <2> HIDE DEF a, g
  <2>4. account' \in [Addresses -> Account]
    BY <1>0, <2>1, <2>2, <2>a
  <2>5. verification' \in [Addresses -> Verification]
    BY <1>0, <2>1, <2>2, <2>a
  <2>6. link' \in [Subjects -> Addresses \cup {NONE}] /\ sessions' \subseteq Addresses \X People
    BY <1>0, <2>1, <2>2 DEF OpenSession
  <2> QED
    BY <2>2, <2>3, <2>4, <2>5, <2>6 DEF TypeOK
<1> QED
  BY <1>2, <1>3, <1>4, <1>5, <1>6, <1>7, <1>8

LEMMA TypeOKEnvironment == TypeOK /\ Environment => TypeOK'
<1> SUFFICES ASSUME TypeOK, Environment PROVE TypeOK'
  OBVIOUS
<1>0. account \in [Addresses -> Account] /\ verification \in [Addresses -> Verification]
  BY DEF TypeOK
<1>1. ASSUME NEW m \in mail, SendCode(m) PROVE TypeOK'
  BY <1>1 DEF SendCode, TypeOK
<1>2. ASSUME NEW a \in Addresses, CooldownEnds(a) PROVE TypeOK'
  <2>1. UNCHANGED verification \/ verification' = [verification EXCEPT ![a].cooling = FALSE]
    BY <1>2 DEF CooldownEnds
  <2>2. [verification[a] EXCEPT !.cooling = FALSE] \in Verification
    BY <1>0 DEF Verification
  <2>3. verification' \in [Addresses -> Verification]
    BY <1>0, <2>1, <2>2
  <2> QED
    BY <1>2, <2>3 DEF CooldownEnds, TypeOK
<1>3. ASSUME NEW a \in Addresses, LapseVerification(a) PROVE TypeOK'
  <2>1. verification' \in [Addresses -> Verification]
    BY <1>0, <1>3 DEF LapseVerification, Verification
  <2> QED
    BY <1>3, <2>1 DEF LapseVerification, TypeOK
<1>4. ASSUME NEW a \in Addresses, DisableAccount(a) PROVE TypeOK'
  <2>1. account' \in [Addresses -> Account]
    BY <1>0, <1>4 DEF DisableAccount, Account
  <2> QED
    BY <1>4, <2>1 DEF DisableAccount, TypeOK
<1> QED
  BY <1>1, <1>2, <1>3, <1>4 DEF Environment

LEMMA TypeOKStep == TypeOK /\ AllEarned /\ [Next]_vars => TypeOK'
<1>1. TypeOK /\ UNCHANGED vars => TypeOK'
  BY DEF TypeOK, vars
<1>2. TypeOK /\ AllEarned /\ Federated => TypeOK'
  BY TypeOKFederated DEF Federated, AllEarned
<1>3. TypeOK /\ AllEarned /\ SignIn => TypeOK'
  BY TypeOKSignIn DEF SignIn, AllEarned
<1>4. TypeOK /\ SignUp => TypeOK'
  BY TypeOKSignUp DEF SignUp
<1> QED
  BY <1>1, <1>2, <1>3, <1>4, TypeOKEnvironment DEF Next

-------------------------------------------------------------------------------
(* The steps that change what the theorems are about.                      *)

Still == UNCHANGED <<account, verification, link, sessions, tried>>

LEMMA Steps ==
    ASSUME [Next]_vars
    PROVE  \/ Still
           \/ \E p \in People, a \in Addresses :
                 \/ \E k \in Codes : Register(p, a, k) \/ ResendVerification(p, a, k)
                 \/ TryWrongCode(p, a) \/ VerifyEmail(p, a)
           \/ \E r \in Requests : \/ LoginOpens(r) \/ \E k \in Codes : LoginReissues(r, k)
                                  \/ GoogleReturns(r)
                                  \/ GoogleCreates(r) /\ ~Retry(r)
                                  \/ GoogleLinks(r) /\ ~Retry(r)
           \/ \E a \in Addresses : CooldownEnds(a) \/ LapseVerification(a) \/ DisableAccount(a)
<1>1. UNCHANGED vars => Still
  BY DEF vars, Still
<1>2. ASSUME NEW r \in Requests, Retry(r) PROVE Still
  BY <1>2 DEF Retry, Still
<1>3. ASSUME NEW r \in Requests PROVE \A p \in People, a \in Addresses : Login(r, p, a) => Still
  BY DEF Login, Still
<1>4. ASSUME NEW r \in Requests PROVE \A g \in Subjects, a \in Addresses : GoogleSignIn(r, g, a) => Still
  BY DEF GoogleSignIn, Still
<1>5. ASSUME NEW r \in Requests,
             GoogleFindsNoLink(r) \/ GoogleFindsNobody(r) \/ GoogleRefusesLinked(r)
             \/ GoogleRefusesUnproved(r) \/ AnswerFailure(r)
      PROVE  Still
  BY <1>5 DEF GoogleFindsNoLink, GoogleFindsNobody, GoogleRefusesLinked, GoogleRefusesUnproved,
              AnswerFailure, Still
<1>6. ASSUME NEW m \in mail, SendCode(m) PROVE Still
  BY <1>6 DEF SendCode, Still
<1> QED
  BY <1>1, <1>2, <1>3, <1>4, <1>5, <1>6 DEF Next, SignUp, SignIn, Federated, Environment

\* What the two steps of Google that change accounts do.
LEMMA CreatesDoes ==
    ASSUME TypeOK, AllEarned, NEW r \in Requests, GoogleCreates(r), ~Retry(r),
           NEW a, a = request[r].address, NEW g, g = request[r].subject
    PROVE  /\ a \in Addresses /\ g \in Subjects /\ <<g, a>> \in Asserts
           /\ account[a].status = "none" /\ link[g] = NONE
           /\ account' = [account EXCEPT ![a] = [status |-> "active", password |-> NONE,
                                                 verified |-> TRUE]]
           /\ link' = [link EXCEPT ![g] = a] /\ sessions' = sessions \cup {<<a, PersonOf[g]>>}
           /\ request' = [request EXCEPT ![r] = Idle] /\ UNCHANGED <<verification, tried>>
  BY DEF GoogleCreates, OpenSession, AllEarned, Earned

LEMMA LinksDoes ==
    ASSUME TypeOK, AllEarned, NEW r \in Requests, GoogleLinks(r), ~Retry(r),
           NEW a, a = request[r].address, NEW g, g = request[r].subject
    PROVE  /\ a \in Addresses /\ g \in Subjects /\ <<g, a>> \in Asserts
           /\ Linkable(a) /\ ~AlreadyLinked(a) /\ link[g] = NONE
           /\ link' = [link EXCEPT ![g] = a] /\ sessions' = sessions \cup {<<a, PersonOf[g]>>}
           /\ request' = [request EXCEPT ![r] = Idle] /\ UNCHANGED tried
           /\ \/ /\ account[a].status = "pending"
                 /\ account' = [account EXCEPT ![a] = Vouched(a)]
                 /\ verification' = [verification EXCEPT ![a] = NoVerification]
              \/ account[a].status = "active" /\ UNCHANGED <<account, verification>>
  BY DEF GoogleLinks, OpenSession, AllEarned, Earned

-------------------------------------------------------------------------------
(* Codes.                                                                  *)

\* A code's tries are counted by its row, and no two rows share a code.
CodesCounted ==
    /\ \A a \in Addresses : Outstanding(a) =>
          /\ verification[a].code \in Codes
          /\ tried[verification[a].code] <= verification[a].attempts
    /\ \A a, b \in Addresses : a # b /\ Outstanding(a) /\ Outstanding(b) =>
          verification[a].code # verification[b].code

LEMMA IssueCounts ==
    ASSUME TypeOK, CodesCounted, TriesCapped, NEW a \in Addresses, NEW p \in People,
           NEW k \in Codes, IssueCode(a, p, k)
    PROVE  CodesCounted' /\ TriesCapped'
<1>0. tried \in [Codes -> Nat] /\ verification \in [Addresses -> Verification]
  BY DEF TypeOK
<1>1. \A b \in Addresses : verification[b].code # k
  BY DEF IssueCode, Drawn
<1>2. /\ verification'[a].code = k /\ verification'[a].attempts = 0
      /\ \A b \in Addresses \ {a} : verification'[b] = verification[b]
      /\ tried' = [tried EXCEPT ![k] = 0]
  BY IssueTypes
<1>3. tried'[k] = 0 /\ \A c \in Codes \ {k} : tried'[c] = tried[c]
  BY <1>0, <1>2
<1>4. \A b \in Addresses \ {a} : Outstanding(b)' => /\ Outstanding(b)
                                                   /\ verification'[b].code \in Codes \ {k}
                                                   /\ tried'[verification'[b].code] <= verification'[b].attempts
  BY <1>1, <1>2, <1>3 DEF Outstanding, CodesCounted
<1>5. CodesCounted'
  BY <1>1, <1>2, <1>3, <1>4 DEF Outstanding, CodesCounted
<1>6. TriesCapped'
  BY <1>3, Values DEF TriesCapped
<1> QED
  BY <1>5, <1>6

LEMMA ReissueCounts ==
    ASSUME TypeOK, CodesCounted, TriesCapped, NEW a \in Addresses, NEW p \in People,
           Outstanding(a), ReissueCode(a, p)
    PROVE  CodesCounted' /\ TriesCapped'
<1>1. /\ verification'[a].code = verification[a].code
      /\ verification'[a].attempts = verification[a].attempts
      /\ \A b \in Addresses \ {a} : verification'[b] = verification[b]
      /\ UNCHANGED tried
  BY ReissueTypes
<1> QED
  BY <1>1 DEF Outstanding, CodesCounted, TriesCapped

\* Rows may lose a code, or keep it with its tries.
LEMMA KeepsCounts ==
    ASSUME CodesCounted, TriesCapped, UNCHANGED tried,
           \A a \in Addresses : \/ verification'[a].holder = NONE
                                \/ /\ verification'[a].code = verification[a].code
                                   /\ verification'[a].attempts = verification[a].attempts
                                   /\ verification'[a].holder = verification[a].holder
    PROVE  CodesCounted' /\ TriesCapped'
  BY DEF Outstanding, CodesCounted, TriesCapped

LEMMA TriesStep ==
    ASSUME TypeOK, AllEarned, CodesCounted, TriesCapped, [Next]_vars
    PROVE  CodesCounted' /\ TriesCapped'
<1> DEFINE Goal == CodesCounted' /\ TriesCapped'
<1>0. /\ verification \in [Addresses -> Verification] /\ tried \in [Codes -> Nat]
      /\ \A a \in Addresses : verification[a] \in Verification
  BY DEF TypeOK
<1>1. UNCHANGED <<verification, tried>> => Goal
  BY KeepsCounts
<1>n. NoVerification.holder = NONE
  BY DEF NoVerification
<1>2. ASSUME NEW p \in People, NEW a \in Addresses, NEW k \in Codes,
             Register(p, a, k) \/ ResendVerification(p, a, k)
      PROVE  Goal
  BY <1>2, IssueCounts DEF Register, ResendVerification
<1>3. ASSUME NEW p \in People, NEW a \in Addresses, TryWrongCode(p, a) PROVE Goal
  <2> DEFINE c == verification[a].code
             n == verification[a].attempts
  <2>1. /\ verification' = [verification EXCEPT ![a].attempts = n + 1]
        /\ tried' = [k \in Codes |-> IF k = c THEN tried[k] + 1 ELSE tried[k]]
        /\ Outstanding(a) /\ n < MaxAttempts
    BY <1>3, Values DEF TryWrongCode, MayTry, Outstanding
  <2>2. c \in Codes /\ tried[c] <= n /\ n \in Nat /\ tried[c] \in Nat
    BY <1>0, <2>1 DEF CodesCounted, Verification
  <2>3. /\ verification'[a].attempts = n + 1 /\ verification'[a].code = c
        /\ verification'[a].holder = verification[a].holder
        /\ \A b \in Addresses \ {a} : verification'[b] = verification[b]
    BY <1>0, <2>1 DEF Verification
  <2>4. tried'[c] = tried[c] + 1 /\ \A k \in Codes \ {c} : tried'[k] = tried[k]
    BY <2>1, <2>2
  <2> HIDE DEF c, n
  <2>5. tried[c] + 1 <= n + 1 /\ tried[c] + 1 <= MaxAttempts
    BY <2>1, <2>2, Values
  <2>6. TriesCapped'
    BY <2>4, <2>5 DEF TriesCapped
  <2>7. \A b \in Addresses \ {a} : Outstanding(b)' => /\ Outstanding(b)
                                                     /\ verification'[b].code \in Codes \ {c}
    BY <2>1, <2>3 DEF Outstanding, CodesCounted, c
  <2>8. CodesCounted'
    BY <2>1, <2>2, <2>3, <2>4, <2>5, <2>7 DEF Outstanding, CodesCounted
  <2> QED
    BY <2>6, <2>8
<1>4. ASSUME NEW p \in People, NEW a \in Addresses, VerifyEmail(p, a) PROVE Goal
  BY <1>0, <1>4, <1>n, KeepsCounts DEF VerifyEmail
<1>5. ASSUME NEW r \in Requests, NEW k \in Codes, LoginReissues(r, k) PROVE Goal
  <2>1. request[r].address \in Addresses /\ request[r].who \in People
    BY <1>5 DEF LoginReissues, AllEarned, Earned
  <2> QED
    BY <1>5, <2>1, ReissueMoves, IssueCounts, ReissueCounts
<1>6. ASSUME NEW r \in Requests, GoogleLinks(r), ~Retry(r) PROVE Goal
  <2>1. UNCHANGED tried /\ request[r].address \in Addresses
        /\ \/ verification' = [verification EXCEPT ![request[r].address] = NoVerification]
           \/ UNCHANGED verification
    BY <1>6, LinksDoes
  <2> QED
    BY <1>0, <1>n, <2>1, KeepsCounts
<1>7. ASSUME NEW r \in Requests, GoogleCreates(r), ~Retry(r) PROVE Goal
  BY <1>1, <1>7, CreatesDoes
<1>8. ASSUME NEW r \in Requests, LoginOpens(r) \/ GoogleReturns(r) PROVE Goal
  BY <1>1, <1>8 DEF LoginOpens, GoogleReturns
<1>9. ASSUME NEW a \in Addresses, CooldownEnds(a) \/ LapseVerification(a) \/ DisableAccount(a)
      PROVE  Goal
  <2>1. UNCHANGED tried /\ \/ UNCHANGED verification
                           \/ verification' = [verification EXCEPT ![a].cooling = FALSE]
                           \/ verification' = [verification EXCEPT ![a].lapsed = TRUE]
    BY <1>9 DEF CooldownEnds, LapseVerification, DisableAccount
  <2> QED
    BY <1>0, <2>1, KeepsCounts DEF Verification
<1> HIDE DEF Goal
<1>10. Goal
  BY <1>1, <1>2, <1>3, <1>4, <1>5, <1>6, <1>7, <1>8, <1>9, Steps DEF Still
<1> QED
  BY <1>10 DEF Goal
-------------------------------------------------------------------------------
(* Accounts.                                                               *)

\* What a step may do to the account of an address and to its ticket.
Untouched(a) ==
    /\ account'[a] = account[a]
    /\ account[a].status = "pending" =>
          verification'[a].holder \in {NONE, verification[a].holder, account[a].password}
Registered(a) == \E p \in People :
    /\ account[a].status = "none" /\ verification'[a].holder = p
    /\ account'[a].status = "pending" /\ account'[a].password = p /\ account'[a].verified = FALSE
Proved(a) ==
    /\ account[a].status = "pending" /\ verification[a].holder = Owner[a]
    /\ account'[a].status = "active" /\ account'[a].verified = TRUE
    /\ account'[a].password = account[a].password
Federates(a) == account[a].status \in {"none", "pending"} /\ account'[a] = Vouched(a)
Disabled(a) ==
    /\ account[a].status \in {"pending", "active"} /\ account'[a].status = "disabled"
    /\ account'[a].password = account[a].password /\ account'[a].verified = account[a].verified

RowMoves(a) == Untouched(a) \/ Registered(a) \/ Proved(a) \/ Federates(a) \/ Disabled(a)

LEMMA RowsMove ==
    ASSUME TypeOK, AllEarned, [Next]_vars, NEW b \in Addresses
    PROVE  RowMoves(b)
<1>0. /\ account \in [Addresses -> Account] /\ verification \in [Addresses -> Verification]
      /\ account[b] \in Account /\ verification[b] \in Verification
  BY DEF TypeOK
<1>n. NoVerification.holder = NONE
  BY DEF NoVerification
<1>1. UNCHANGED account /\ verification'[b].holder \in {NONE, verification[b].holder} => Untouched(b)
  BY DEF Untouched
<1>2. ASSUME NEW p \in People, NEW a \in Addresses, NEW k \in Codes, Register(p, a, k)
      PROVE  RowMoves(b)
  <2>1. /\ account[a].status = "none"
        /\ account' = [account EXCEPT ![a] = [status |-> "pending", password |-> p, verified |-> FALSE]]
        /\ verification'[a].holder = p
        /\ \A c \in Addresses \ {a} : verification'[c] = verification[c]
    BY <1>2, IssueTypes DEF Register
  <2>2. CASE a = b
    BY <1>0, <2>1, <2>2 DEF Registered, RowMoves
  <2>3. CASE a # b
    BY <1>0, <2>1, <2>3 DEF Untouched, RowMoves
  <2> QED
    BY <2>2, <2>3
<1>3. ASSUME NEW p \in People, NEW a \in Addresses, NEW k \in Codes, ResendVerification(p, a, k)
      PROVE  RowMoves(b)
  <2>1. /\ UNCHANGED account /\ verification'[a].holder = verification[a].holder
        /\ \A c \in Addresses \ {a} : verification'[c] = verification[c]
    BY <1>3, IssueTypes DEF ResendVerification
  <2> QED
    BY <1>1, <2>1 DEF RowMoves
<1>4. ASSUME NEW p \in People, NEW a \in Addresses, TryWrongCode(p, a) PROVE RowMoves(b)
  <2>1. UNCHANGED account
        /\ verification' = [verification EXCEPT ![a].attempts = verification[a].attempts + 1]
    BY <1>4 DEF TryWrongCode
  <2>2. verification'[b].holder = verification[b].holder
    BY <1>0, <2>1 DEF Verification
  <2> QED
    BY <1>1, <2>1, <2>2 DEF RowMoves
<1>5. ASSUME NEW p \in People, NEW a \in Addresses, VerifyEmail(p, a) PROVE RowMoves(b)
  <2>1. /\ account[a].status = "pending" /\ verification[a].holder = p /\ p = Owner[a]
        /\ account' = [account EXCEPT ![a] = [account[a] EXCEPT !.status = "active", !.verified = TRUE]]
        /\ verification' = [verification EXCEPT ![a] = NoVerification]
    BY <1>5 DEF VerifyEmail, MayTry
  <2>2. CASE a = b
    BY <1>0, <2>1, <2>2 DEF Proved, RowMoves, Account
  <2>3. CASE a # b
    BY <1>0, <2>1, <2>3 DEF Untouched, RowMoves
  <2> QED
    BY <2>2, <2>3
<1>6. ASSUME NEW r \in Requests, NEW k \in Codes, LoginReissues(r, k) PROVE RowMoves(b)
  <2> DEFINE a == request[r].address
             p == request[r].who
  <2>1. /\ a \in Addresses /\ p \in People /\ UNCHANGED account
        /\ account[a].status = "pending" => p = account[a].password
    BY <1>6 DEF LoginReissues, AllEarned, Earned
  <2>2. /\ verification'[a].holder = p
        /\ \A c \in Addresses \ {a} : verification'[c] = verification[c]
    BY <1>6, <2>1, ReissueMoves, IssueTypes, ReissueTypes
  <2> QED
    BY <2>1, <2>2 DEF Untouched, RowMoves
<1>7. ASSUME NEW r \in Requests, GoogleCreates(r), ~Retry(r) PROVE RowMoves(b)
  <2> DEFINE a == request[r].address
  <2>1. /\ a \in Addresses /\ account[a].status = "none" /\ UNCHANGED verification
        /\ account' = [account EXCEPT ![a] = Vouched(a)]
    BY <1>7, CreatesDoes DEF Vouched
  <2> HIDE DEF a
  <2>2. CASE a = b
    BY <1>0, <2>1, <2>2 DEF Federates, RowMoves
  <2>3. CASE a # b
    BY <1>0, <2>1, <2>3 DEF Untouched, RowMoves
  <2> QED
    BY <2>2, <2>3
<1>8. ASSUME NEW r \in Requests, GoogleLinks(r), ~Retry(r) PROVE RowMoves(b)
  <2> DEFINE a == request[r].address
  <2>1. /\ a \in Addresses
        /\ \/ /\ account[a].status = "pending"
              /\ account' = [account EXCEPT ![a] = Vouched(a)]
              /\ verification' = [verification EXCEPT ![a] = NoVerification]
           \/ UNCHANGED <<account, verification>>
    BY <1>8, LinksDoes
  <2> HIDE DEF a
  <2>2. CASE a = b
    BY <1>0, <2>1, <2>2 DEF Federates, Untouched, RowMoves
  <2>3. CASE a # b
    BY <1>0, <2>1, <2>3 DEF Untouched, RowMoves
  <2> QED
    BY <2>2, <2>3
<1>9. ASSUME NEW r \in Requests, LoginOpens(r) \/ GoogleReturns(r) PROVE RowMoves(b)
  BY <1>1, <1>9 DEF LoginOpens, GoogleReturns, RowMoves
<1>10. ASSUME NEW a \in Addresses, CooldownEnds(a) \/ LapseVerification(a) PROVE RowMoves(b)
  <2>1. UNCHANGED account /\ \/ UNCHANGED verification
                             \/ verification' = [verification EXCEPT ![a].cooling = FALSE]
                             \/ verification' = [verification EXCEPT ![a].lapsed = TRUE]
    BY <1>10 DEF CooldownEnds, LapseVerification
  <2>2. verification'[b].holder = verification[b].holder
    BY <1>0, <2>1 DEF Verification
  <2> QED
    BY <1>1, <2>1, <2>2 DEF RowMoves
<1>11. ASSUME NEW a \in Addresses, DisableAccount(a) PROVE RowMoves(b)
  <2>1. /\ account[a].status \in {"pending", "active"} /\ UNCHANGED verification
        /\ account' = [account EXCEPT ![a].status = "disabled"]
    BY <1>11 DEF DisableAccount
  <2>2. CASE a = b
    BY <1>0, <2>1, <2>2 DEF Disabled, RowMoves, Account
  <2>3. CASE a # b
    BY <1>0, <2>1, <2>3 DEF Untouched, RowMoves
  <2> QED
    BY <2>2, <2>3
<1>12. Still => RowMoves(b)
  BY <1>1 DEF Still, RowMoves
<1> QED
  BY <1>2, <1>3, <1>4, <1>5, <1>6, <1>7, <1>8, <1>9, <1>10, <1>11, <1>12, Steps

\* An account is proved before it is used: a pending one only hands its ticket
\* to whoever registered it, and an active one has no password but its owner's.
Row(a) ==
    /\ account[a].verified => account[a].status \in {"active", "disabled"} /\ a \notin Legacy
    /\ a \in Legacy => /\ account[a].status \in {"active", "disabled"}
                       /\ account[a].password = LegacyHolder[a]
    /\ account[a].status = "pending" /\ Outstanding(a) =>
          verification[a].holder = account[a].password
    /\ account[a].status = "active" /\ a \notin Legacy /\ account[a].password # NONE =>
          account[a].password = Owner[a]
Rows == \A a \in Addresses : Row(a)

LEMMA RowStep ==
    ASSUME NEW a \in Addresses, Row(a), RowMoves(a)
    PROVE  Row(a)'
<1>0. Owner[a] \in People /\ NONE \notin People
  BY AccountsAssumption
<1>1. CASE Untouched(a)
  BY <1>1 DEF Untouched, Row, Outstanding
<1>2. CASE Registered(a)
  BY <1>2 DEF Registered, Row, Outstanding
<1>3. CASE Proved(a)
  BY <1>0, <1>3 DEF Proved, Row, Outstanding
<1>4. CASE Federates(a)
  <2>1. account'[a].status = "active" /\ account'[a].password = NONE /\ a \notin Legacy
    BY <1>4 DEF Federates, Vouched, Row
  <2> QED
    BY <2>1 DEF Row
<1>5. CASE Disabled(a)
  BY <1>5 DEF Disabled, Row
<1> QED
  BY <1>1, <1>2, <1>3, <1>4, <1>5 DEF RowMoves

\* Accounts do not go away, are not registered twice and stay verified.
LEMMA RowAges ==
    ASSUME NEW a \in Addresses, account[a].status # "none", RowMoves(a)
    PROVE  /\ account'[a].status # "none"
           /\ account'[a].status = "pending" => account'[a] = account[a]
           /\ account[a].verified => account'[a].verified
<1>1. Vouched(a).status = "active" /\ Vouched(a).verified
  BY DEF Vouched
<1> QED
  BY <1>1 DEF RowMoves, Untouched, Registered, Proved, Federates, Disabled
-------------------------------------------------------------------------------
(* Sign-ins.                                                               *)

\* What a step may do to a sign-in.
Begins(r) ==
    \/ \E p \in People, a \in Addresses :
          /\ UNCHANGED account
          /\ account[a].password = p /\ account[a].status \in {"pending", "active"}
          /\ request'[r] = Begin("login", p, NONE, a, account[a].status)
    \/ \E g \in Subjects, a \in Addresses :
          <<g, a>> \in Asserts /\ request'[r] = Begin("google", NONE, g, a, "none")
Advances(r) ==
    /\ request[r].step \notin {"idle", "login"} /\ request'[r].step \notin {"idle", "login"}
    /\ request'[r].subject = request[r].subject /\ request'[r].address = request[r].address
RequestStep(r) ==
    request'[r] = request[r] \/ request'[r] = Idle \/ Begins(r) \/ Advances(r)

LEMMA RequestsMove ==
    ASSUME TypeOK, [Next]_vars, NEW s \in Requests
    PROVE  RequestStep(s)
<1>0. request \in [Requests -> Request] /\ \A r \in Requests : request[r] \in Request
  BY DEF TypeOK
<1>1. UNCHANGED request => RequestStep(s)
  BY DEF RequestStep
<1>2. ASSUME NEW r \in Requests, request' = [request EXCEPT ![r] = Idle] PROVE RequestStep(s)
  BY <1>0, <1>2 DEF RequestStep
<1>3. ASSUME NEW r \in Requests, request[r].step \notin {"idle", "login"},
             NEW step \in {"unlinked", "vacant", "taken", "conflict"},
             request' = [request EXCEPT ![r].step = step]
      PROVE  RequestStep(s)
  <2>1. CASE r = s
    <3>1. request'[s] = [request[s] EXCEPT !.step = step]
      BY <1>0, <1>3, <2>1
    <3> QED
      BY <1>0, <1>3, <2>1, <3>1 DEF RequestStep, Advances, Request
  <2>2. CASE r # s
    BY <1>0, <1>3, <2>2 DEF RequestStep
  <2> QED
    BY <2>1, <2>2
<1>4. ASSUME NEW r \in Requests, request[r].step \notin {"idle", "login"}, Retry(r)
      PROVE  RequestStep(s)
  <2>1. CASE request' = [request EXCEPT ![r].step = "conflict"]
    BY <1>3, <1>4, <2>1
  <2>2. CASE request' = [request EXCEPT ![r].step = "google",
                                        ![r].retried = request[r].retried + 1]
    <3>1. CASE r = s
      <4>1. request'[s] = [request[s] EXCEPT !.step = "google", !.retried = request[r].retried + 1]
        BY <1>0, <2>2, <3>1
      <4> QED
        BY <1>0, <1>4, <3>1, <4>1 DEF RequestStep, Advances, Request
    <3>2. CASE r # s
      BY <1>0, <2>2, <3>2 DEF RequestStep
    <3> QED
      BY <3>1, <3>2
  <2> QED
    BY <1>4, <2>1, <2>2 DEF Retry
<1>5. ASSUME NEW r \in Requests, NEW p \in People, NEW a \in Addresses, Login(r, p, a)
      PROVE  RequestStep(s)
  BY <1>0, <1>5 DEF Login, RequestStep, Begins
<1>6. ASSUME NEW r \in Requests, NEW g \in Subjects, NEW a \in Addresses, GoogleSignIn(r, g, a)
      PROVE  RequestStep(s)
  BY <1>0, <1>6 DEF GoogleSignIn, RequestStep, Begins
<1>7. ASSUME NEW r \in Requests, LoginOpens(r) \/ \E k \in Codes : LoginReissues(r, k)
      PROVE  RequestStep(s)
  BY <1>2, <1>7 DEF LoginOpens, LoginReissues
<1>8. ASSUME NEW r \in Requests, GoogleReturns(r) \/ GoogleRefusesUnproved(r) \/ AnswerFailure(r)
      PROVE  RequestStep(s)
  BY <1>2, <1>8 DEF GoogleReturns, GoogleRefusesUnproved, AnswerFailure
<1>9. ASSUME NEW r \in Requests, GoogleFindsNoLink(r) \/ GoogleFindsNobody(r) \/ GoogleRefusesLinked(r)
      PROVE  RequestStep(s)
  <2>1. /\ request[r].step \notin {"idle", "login"}
        /\ \E step \in {"unlinked", "vacant", "taken", "conflict"} :
              request' = [request EXCEPT ![r].step = step]
    BY <1>9 DEF GoogleFindsNoLink, GoogleFindsNobody, GoogleRefusesLinked
  <2> QED
    BY <1>3, <2>1
<1>10. ASSUME NEW r \in Requests, GoogleCreates(r) PROVE RequestStep(s)
  BY <1>2, <1>4, <1>10 DEF GoogleCreates
<1>11. ASSUME NEW r \in Requests, GoogleLinks(r) PROVE RequestStep(s)
  BY <1>2, <1>4, <1>11 DEF GoogleLinks
<1>12. ASSUME NEW p \in People, NEW a \in Addresses, NEW k \in Codes,
              Register(p, a, k) \/ ResendVerification(p, a, k)
       PROVE  RequestStep(s)
  BY <1>1, <1>12 DEF Register, ResendVerification
<1>13. ASSUME NEW p \in People, NEW a \in Addresses, TryWrongCode(p, a) \/ VerifyEmail(p, a)
       PROVE  RequestStep(s)
  BY <1>1, <1>13 DEF TryWrongCode, VerifyEmail
<1>14. ASSUME Environment PROVE RequestStep(s)
  BY <1>1, <1>14 DEF Environment, SendCode, CooldownEnds, LapseVerification, DisableAccount
<1>15. UNCHANGED vars => RequestStep(s)
  BY <1>1 DEF vars
<1> QED
  BY <1>5, <1>6, <1>7, <1>8, <1>9, <1>10, <1>11, <1>12, <1>13, <1>14, <1>15
  DEF Next, SignUp, SignIn, Federated

LEMMA EarnedStep ==
    ASSUME TypeOK, AllEarned, Rows, [Next]_vars
    PROVE  AllEarned'
<1> SUFFICES ASSUME NEW r \in Requests PROVE Earned(r)'
  BY DEF AllEarned
<1>0. Earned(r)
  BY DEF AllEarned
<1>1. CASE request'[r] = request[r]
  <2>1. ASSUME request[r].step = "login"
        PROVE  /\ account'[request[r].address].status # "none"
               /\ account'[request[r].address].status = "pending" =>
                     account'[request[r].address] = account[request[r].address]
    BY <1>0, <2>1, RowsMove, RowAges DEF Earned
  <2> QED
    BY <1>0, <1>1, <2>1 DEF Earned, Entitled
<1>2. CASE request'[r] = Idle
  <2>1. request'[r].step = "idle"
    BY <1>2 DEF Idle, Begin
  <2> QED
    BY <2>1 DEF Earned
<1>3. ASSUME NEW p \in People, NEW a \in Addresses, UNCHANGED account,
             account[a].password = p, account[a].status \in {"pending", "active"},
             request'[r] = Begin("login", p, NONE, a, account[a].status)
      PROVE  Earned(r)'
  <2>1. /\ request'[r].step = "login" /\ request'[r].who = p /\ request'[r].address = a
        /\ request'[r].read = account[a].status
    BY <1>3 DEF Begin
  <2>2. account[a].status = "active" => p = Entitled(a)
    BY <1>3, Values DEF Rows, Row, Entitled
  <2> QED
    BY <1>3, <2>1, <2>2 DEF Earned, Entitled
<1>4. ASSUME NEW g \in Subjects, NEW a \in Addresses, <<g, a>> \in Asserts,
             request'[r] = Begin("google", NONE, g, a, "none")
      PROVE  Earned(r)'
  <2>1. request'[r].step = "google" /\ request'[r].subject = g /\ request'[r].address = a
    BY <1>4 DEF Begin
  <2> QED
    BY <1>4, <2>1 DEF Earned
<1>5. CASE Advances(r)
  BY <1>0, <1>5 DEF Advances, Earned
<1> QED
  BY <1>1, <1>2, <1>3, <1>4, <1>5, RequestsMove DEF RequestStep, Begins

-------------------------------------------------------------------------------
(* Links and sessions.                                                     *)

LEMMA LinksStep ==
    ASSUME TypeOK, AllEarned, Rows, LinksNeedProof, [Next]_vars
    PROVE  LinksNeedProof'
<1>0. link \in [Subjects -> Addresses \cup {NONE}] /\ account \in [Addresses -> Account]
  BY DEF TypeOK
<1>1. \A a \in Addresses : account[a].verified => account[a].status # "none" /\ account'[a].verified
  BY RowsMove, RowAges DEF Rows, Row
<1>2. ASSUME UNCHANGED link PROVE LinksNeedProof'
  BY <1>0, <1>1, <1>2 DEF LinksNeedProof
<1>3. ASSUME NEW g \in Subjects, NEW a \in Addresses, <<g, a>> \in Asserts, ~AlreadyLinked(a),
             account'[a].verified, link' = [link EXCEPT ![g] = a]
      PROVE  LinksNeedProof'
  <2>1. PersonOf[g] = Owner[a]
    <3>1. \A e \in Asserts : PersonOf[e[1]] = Owner[e[2]]
      BY AccountsAssumption
    <3> QED
      BY <1>3, <3>1
  <2>2. link'[g] = a /\ \A h \in Subjects \ {g} : link'[h] = link[h] /\ link[h] # a
    BY <1>0, <1>3 DEF AlreadyLinked
  <2> SUFFICES ASSUME NEW h \in Subjects, link'[h] # NONE
               PROVE  /\ account'[link'[h]].verified
                      /\ PersonOf[h] = Owner[link'[h]]
                      /\ \A i \in Subjects : link'[i] = link'[h] => i = h
    BY DEF LinksNeedProof
  <2>3. CASE h = g
    BY <1>3, <2>1, <2>2, <2>3
  <2>4. CASE h # g
    <3>1. link'[h] = link[h] /\ link[h] \in Addresses /\ link[h] # a
      BY <1>0, <2>2, <2>4
    <3> QED
      BY <1>1, <2>2, <3>1 DEF LinksNeedProof
  <2> QED
    BY <2>3, <2>4
<1>4. ASSUME NEW r \in Requests, GoogleCreates(r), ~Retry(r) PROVE LinksNeedProof'
  <2> DEFINE a == request[r].address
             g == request[r].subject
  <2>0. account' = [account EXCEPT ![a] = [status |-> "active", password |-> NONE, verified |-> TRUE]]
    BY <1>4, CreatesDoes
  <2>1. /\ a \in Addresses /\ g \in Subjects /\ <<g, a>> \in Asserts /\ account[a].status = "none"
        /\ link' = [link EXCEPT ![g] = a]
    BY <1>4, CreatesDoes
  <2> HIDE DEF a, g
  <2>2. account'[a].verified
    BY <1>0, <2>0, <2>1
  <2>3. ~AlreadyLinked(a)
    BY <1>1, <2>1, Values DEF AlreadyLinked, LinksNeedProof
  <2> QED
    BY <1>3, <2>1, <2>2, <2>3
<1>5. ASSUME NEW r \in Requests, GoogleLinks(r), ~Retry(r) PROVE LinksNeedProof'
  <2> DEFINE a == request[r].address
             g == request[r].subject
  <2>1. /\ a \in Addresses /\ g \in Subjects /\ <<g, a>> \in Asserts
        /\ Linkable(a) /\ ~AlreadyLinked(a) /\ link' = [link EXCEPT ![g] = a]
        /\ \/ account' = [account EXCEPT ![a] = Vouched(a)]
           \/ account[a].status = "active" /\ UNCHANGED account
    BY <1>5, LinksDoes
  <2> HIDE DEF a, g
  <2>2. account'[a].verified
    BY <1>0, <2>1 DEF Vouched, Linkable
  <2> QED
    BY <1>3, <2>1, <2>2
<1>6. ASSUME NEW p \in People, NEW a \in Addresses, NEW k \in Codes,
             Register(p, a, k) \/ ResendVerification(p, a, k)
      PROVE  UNCHANGED link
  BY <1>6 DEF Register, ResendVerification
<1>7. ASSUME NEW p \in People, NEW a \in Addresses, TryWrongCode(p, a) \/ VerifyEmail(p, a)
      PROVE  UNCHANGED link
  BY <1>7 DEF TryWrongCode, VerifyEmail
<1>8. ASSUME NEW r \in Requests,
             LoginOpens(r) \/ GoogleReturns(r) \/ \E k \in Codes : LoginReissues(r, k)
      PROVE  UNCHANGED link
  BY <1>8 DEF LoginOpens, GoogleReturns, LoginReissues
<1>9. ASSUME NEW a \in Addresses, CooldownEnds(a) \/ LapseVerification(a) \/ DisableAccount(a)
      PROVE  UNCHANGED link
  BY <1>9 DEF CooldownEnds, LapseVerification, DisableAccount
<1>10. Still => UNCHANGED link
  BY DEF Still
<1> QED
  BY <1>2, <1>4, <1>5, <1>6, <1>7, <1>8, <1>9, <1>10, Steps

LEMMA SessionsStep ==
    ASSUME TypeOK, AllEarned, Rows, LinksNeedProof, SessionsBelong, [Next]_vars
    PROVE  SessionsBelong'
<1>0. link \in [Subjects -> Addresses \cup {NONE}]
  BY DEF TypeOK
<1>1. ASSUME UNCHANGED sessions PROVE SessionsBelong'
  BY <1>1 DEF SessionsBelong, Entitled
<1>2. ASSUME NEW a \in Addresses, NEW p, p = Entitled(a), sessions' = sessions \cup {<<a, p>>}
      PROVE  SessionsBelong'
  BY <1>2 DEF SessionsBelong, Entitled
<1>3. ASSUME NEW g \in Subjects, NEW a \in Addresses, <<g, a>> \in Asserts, a \notin Legacy
      PROVE  PersonOf[g] = Entitled(a)
  <2>1. \A e \in Asserts : PersonOf[e[1]] = Owner[e[2]]
    BY AccountsAssumption
  <2> QED
    BY <1>3, <2>1 DEF Entitled
<1>4. ASSUME NEW r \in Requests, GoogleCreates(r), ~Retry(r) PROVE SessionsBelong'
  <2> DEFINE a == request[r].address
             g == request[r].subject
  <2>1. /\ a \in Addresses /\ g \in Subjects /\ <<g, a>> \in Asserts /\ account[a].status = "none"
        /\ sessions' = sessions \cup {<<a, PersonOf[g]>>}
    BY <1>4, CreatesDoes
  <2> HIDE DEF a, g
  <2>2. a \notin Legacy
    BY <2>1 DEF Rows, Row
  <2> QED
    BY <1>2, <1>3, <2>1, <2>2
<1>5. ASSUME NEW r \in Requests, GoogleLinks(r), ~Retry(r) PROVE SessionsBelong'
  <2> DEFINE a == request[r].address
             g == request[r].subject
  <2>1. /\ a \in Addresses /\ g \in Subjects /\ <<g, a>> \in Asserts /\ Linkable(a)
        /\ sessions' = sessions \cup {<<a, PersonOf[g]>>}
    BY <1>5, LinksDoes
  <2> HIDE DEF a, g
  <2>2. a \notin Legacy
    BY <2>1 DEF Rows, Row, Linkable
  <2> QED
    BY <1>2, <1>3, <2>1, <2>2
<1>6. ASSUME NEW p \in People, NEW a \in Addresses, NEW k \in Codes,
             Register(p, a, k) \/ ResendVerification(p, a, k)
      PROVE  UNCHANGED sessions
  BY <1>6 DEF Register, ResendVerification
<1>7. ASSUME NEW p \in People, NEW a \in Addresses, TryWrongCode(p, a) PROVE UNCHANGED sessions
  BY <1>7 DEF TryWrongCode
<1>8. ASSUME NEW p \in People, NEW a \in Addresses, VerifyEmail(p, a) PROVE SessionsBelong'
  <2>1. p = Owner[a] /\ account[a].status = "pending" /\ sessions' = sessions \cup {<<a, p>>}
    BY <1>8 DEF VerifyEmail, OpenSession
  <2>2. p = Entitled(a)
    BY <2>1 DEF Entitled, Rows, Row
  <2> QED
    BY <1>2, <2>1, <2>2
<1>9. ASSUME NEW r \in Requests, LoginOpens(r) PROVE SessionsBelong'
  <2>1. /\ request[r].address \in Addresses /\ request[r].who = Entitled(request[r].address)
        /\ sessions' = sessions \cup {<<request[r].address, request[r].who>>}
    BY <1>9 DEF LoginOpens, OpenSession, AllEarned, Earned
  <2> QED
    BY <1>2, <2>1
<1>10. ASSUME NEW r \in Requests, NEW k \in Codes, LoginReissues(r, k) PROVE UNCHANGED sessions
  BY <1>10 DEF LoginReissues
<1>11. ASSUME NEW r \in Requests, GoogleReturns(r) PROVE SessionsBelong'
  <2> DEFINE g == request[r].subject
  <2>1. /\ g \in Subjects /\ link[g] # NONE
        /\ sessions' = sessions \cup {<<link[g], PersonOf[g]>>} \/ UNCHANGED sessions
    BY <1>11 DEF GoogleReturns, OpenSession, AllEarned, Earned
  <2> HIDE DEF g
  <2>2. link[g] \in Addresses /\ PersonOf[g] = Owner[link[g]] /\ account[link[g]].verified
    BY <1>0, <2>1 DEF LinksNeedProof
  <2>3. PersonOf[g] = Entitled(link[g])
    BY <2>2 DEF Rows, Row, Entitled
  <2> QED
    BY <1>1, <1>2, <2>1, <2>2, <2>3
<1>12. ASSUME NEW a \in Addresses, CooldownEnds(a) \/ LapseVerification(a) \/ DisableAccount(a)
       PROVE  UNCHANGED sessions
  BY <1>12 DEF CooldownEnds, LapseVerification, DisableAccount
<1>13. Still => UNCHANGED sessions
  BY DEF Still
<1> QED
  BY <1>1, <1>4, <1>5, <1>6, <1>7, <1>8, <1>9, <1>10, <1>11, <1>12, <1>13, Steps

-------------------------------------------------------------------------------
(* The inductive invariant and the theorems.                               *)

AccountsInv ==
    TypeOK /\ AllEarned /\ Rows /\ CodesCounted /\ TriesCapped /\ LinksNeedProof /\ SessionsBelong

LEMMA InvInit == Init => AccountsInv
<1> SUFFICES ASSUME Init PROVE AccountsInv
  OBVIOUS
<1>1. AllEarned
  <2>1. \A r \in Requests : request[r].step = "idle"
    BY DEF Init, Idle, Begin
  <2> QED
    BY <2>1 DEF AllEarned, Earned
<1>2. \A a \in Addresses : ~Outstanding(a)
  BY DEF Init, NoVerification, Outstanding
<1>3. Rows
  BY <1>2, AccountsAssumption DEF Init, NoAccount, Rows, Row
<1>4. CodesCounted
  BY <1>2 DEF CodesCounted
<1>5. TriesCapped
  BY Values DEF Init, TriesCapped
<1>6. LinksNeedProof /\ SessionsBelong
  BY DEF Init, LinksNeedProof, SessionsBelong
<1> QED
  BY <1>1, <1>3, <1>4, <1>5, <1>6, TypeOKInit DEF AccountsInv

LEMMA InvNext == AccountsInv /\ [Next]_vars => AccountsInv'
<1> SUFFICES ASSUME AccountsInv, [Next]_vars PROVE AccountsInv'
  OBVIOUS
<1>0. TypeOK /\ AllEarned /\ Rows /\ CodesCounted /\ TriesCapped /\ LinksNeedProof /\ SessionsBelong
  BY DEF AccountsInv
<1>1. TypeOK'
  BY <1>0, TypeOKStep
<1>2. AllEarned'
  BY <1>0, EarnedStep
<1>3. Rows'
  <2>1. ASSUME NEW a \in Addresses PROVE Row(a)'
    <3>1. Row(a)
      BY <1>0 DEF Rows
    <3>2. RowMoves(a)
      BY <1>0, RowsMove
    <3> QED
      BY <3>1, <3>2, RowStep
  <2> QED
    BY <2>1 DEF Rows
<1>4. CodesCounted' /\ TriesCapped'
  BY <1>0, TriesStep
<1>5. LinksNeedProof'
  BY <1>0, LinksStep
<1>6. SessionsBelong'
  BY <1>0, SessionsStep
<1> QED
  BY <1>1, <1>2, <1>3, <1>4, <1>5, <1>6 DEF AccountsInv

\* The invariant holds of every behaviour: of the sign-ins in flight
\* (AllEarned), the accounts (Rows) and the codes (CodesCounted) at once.
THEOREM Invariant == Spec => []AccountsInv
  BY InvInit, InvNext, PTL DEF Spec

\* Rows, codes and sign-ins in flight always have their types.
THEOREM TypeCorrect == Spec => []TypeOK
<1>1. AccountsInv => TypeOK
  BY DEF AccountsInv
<1> QED
  BY Invariant, <1>1, PTL

\* Whoever registers an address first, signs in to it meanwhile or asks Google
\* about it, only the person the account belongs to is given a session of it
\* (Login, VerifyEmail and GoogleSignIn of the identity service).
THEOREM Belong == Spec => []SessionsBelong
<1>1. AccountsInv => SessionsBelong
  BY DEF AccountsInv
<1> QED
  BY Invariant, <1>1, PTL

\* No code is tried more often than maxVerificationAttempts, however often
\* sign-ins hand it out again under a new ticket (reissueVerification).
THEOREM Capped == Spec => []TriesCapped
<1>1. AccountsInv => TriesCapped
  BY DEF AccountsInv
<1> QED
  BY Invariant, <1>1, PTL

\* A Google identity is linked only to a proved address of the same person, and
\* an account has one at most, whichever sign-ins race (google.go).
THEOREM Linked == Spec => []LinksNeedProof
<1>1. AccountsInv => LinksNeedProof
  BY DEF AccountsInv
<1> QED
  BY Invariant, <1>1, PTL

-------------------------------------------------------------------------------
(* Sign-ins that race.                                                     *)

\* A link is made to an address Google vouched for, and never undone.
Asserted == \A g \in Subjects : link[g] # NONE => <<g, link[g]>> \in Asserts

LEMMA LinkMoves ==
    ASSUME TypeOK, AllEarned, [Next]_vars
    PROVE  \/ UNCHANGED link
           \/ \E g \in Subjects, a \in Addresses :
                 /\ <<g, a>> \in Asserts /\ link[g] = NONE
                 /\ link' = [link EXCEPT ![g] = a]
<1>1. ASSUME NEW r \in Requests, GoogleCreates(r), ~Retry(r)
      PROVE  \E g \in Subjects, a \in Addresses :
                /\ <<g, a>> \in Asserts /\ link[g] = NONE /\ link' = [link EXCEPT ![g] = a]
  <2> DEFINE b == request[r].address
             h == request[r].subject
  <2>1. b \in Addresses /\ h \in Subjects /\ <<h, b>> \in Asserts /\ link[h] = NONE
        /\ link' = [link EXCEPT ![h] = b]
    BY <1>1, CreatesDoes
  <2> HIDE DEF b, h
  <2> QED
    BY <2>1
<1>2. ASSUME NEW r \in Requests, GoogleLinks(r), ~Retry(r)
      PROVE  \E g \in Subjects, a \in Addresses :
                /\ <<g, a>> \in Asserts /\ link[g] = NONE /\ link' = [link EXCEPT ![g] = a]
  <2> DEFINE b == request[r].address
             h == request[r].subject
  <2>1. b \in Addresses /\ h \in Subjects /\ <<h, b>> \in Asserts /\ link[h] = NONE
        /\ link' = [link EXCEPT ![h] = b]
    BY <1>2, LinksDoes
  <2> HIDE DEF b, h
  <2> QED
    BY <2>1
<1>3. ASSUME NEW p \in People, NEW a \in Addresses, NEW k \in Codes,
             Register(p, a, k) \/ ResendVerification(p, a, k)
      PROVE  UNCHANGED link
  BY <1>3 DEF Register, ResendVerification
<1>4. ASSUME NEW p \in People, NEW a \in Addresses, TryWrongCode(p, a) \/ VerifyEmail(p, a)
      PROVE  UNCHANGED link
  BY <1>4 DEF TryWrongCode, VerifyEmail
<1>5. ASSUME NEW r \in Requests,
             LoginOpens(r) \/ GoogleReturns(r) \/ \E k \in Codes : LoginReissues(r, k)
      PROVE  UNCHANGED link
  BY <1>5 DEF LoginOpens, GoogleReturns, LoginReissues
<1>6. ASSUME NEW a \in Addresses, CooldownEnds(a) \/ LapseVerification(a) \/ DisableAccount(a)
      PROVE  UNCHANGED link
  BY <1>6 DEF CooldownEnds, LapseVerification, DisableAccount
<1>7. Still => UNCHANGED link
  BY DEF Still
<1> QED
  BY <1>1, <1>2, <1>3, <1>4, <1>5, <1>6, <1>7, Steps

LEMMA AssertedStep ==
    ASSUME TypeOK, AllEarned, Asserted, [Next]_vars
    PROVE  Asserted' /\ \A g \in Subjects : link[g] # NONE => link'[g] # NONE
<1>0. link \in [Subjects -> Addresses \cup {NONE}]
  BY DEF TypeOK
<1>1. UNCHANGED link => Asserted' /\ \A g \in Subjects : link[g] # NONE => link'[g] # NONE
  BY DEF Asserted
<1>2. ASSUME NEW g \in Subjects, NEW a \in Addresses, <<g, a>> \in Asserts, link[g] = NONE,
             link' = [link EXCEPT ![g] = a]
      PROVE  Asserted' /\ \A h \in Subjects : link[h] # NONE => link'[h] # NONE
  <2>1. link'[g] = a /\ \A h \in Subjects \ {g} : link'[h] = link[h]
    BY <1>0, <1>2
  <2> QED
    BY <1>2, <2>1 DEF Asserted
<1> QED
  BY <1>1, <1>2, LinkMoves

\* Where a sign-in of Google may go, and its count of conflicts.
Hits(r, step) == request[r].step = step /\ Retry(r)

LEMMA RaceMoves ==
    ASSUME TypeOK, [Next]_vars, NEW s \in Requests
    PROVE  \/ request'[s] = request[s]
           \/ request'[s].step \in {"idle", "login", "taken"}
           \/ request'[s].step = "google" /\ request'[s].retried = 0
           \/ GoogleFindsNoLink(s) \/ GoogleFindsNobody(s)
           \/ /\ Hits(s, "vacant")
              /\ \/ account[request[s].address].status # "none"
                 \/ link[request[s].subject] # NONE
           \/ /\ Hits(s, "unlinked") /\ account[request[s].address].status # "none"
              /\ link[request[s].subject] # NONE /\ ~AlreadyLinked(request[s].address)
<1> DEFINE Moves ==
           \/ request'[s] = request[s]
           \/ request'[s].step \in {"idle", "login", "taken"}
           \/ request'[s].step = "google" /\ request'[s].retried = 0
           \/ GoogleFindsNoLink(s) \/ GoogleFindsNobody(s)
           \/ /\ Hits(s, "vacant")
              /\ \/ account[request[s].address].status # "none"
                 \/ link[request[s].subject] # NONE
           \/ /\ Hits(s, "unlinked") /\ account[request[s].address].status # "none"
              /\ link[request[s].subject] # NONE /\ ~AlreadyLinked(request[s].address)
<1>0. request \in [Requests -> Request] /\ \A r \in Requests : request[r] \in Request
  BY DEF TypeOK
<1>1. UNCHANGED request => Moves
  OBVIOUS
<1>2. ASSUME NEW r \in Requests, NEW v, request' = [request EXCEPT ![r] = v],
             v.step \in {"idle", "login", "taken"} \/ (v.step = "google" /\ v.retried = 0)
      PROVE  Moves
  <2>1. request'[s] = IF s = r THEN v ELSE request[s]
    BY <1>0, <1>2
  <2> QED
    BY <1>2, <2>1
<1>3. ASSUME NEW r \in Requests, NEW v, request' = [request EXCEPT ![r] = v], r # s PROVE Moves
  BY <1>0, <1>3
<1>i. Idle.step = "idle"
  BY DEF Idle, Begin
<1>4. ASSUME NEW r \in Requests, NEW p \in People, NEW a \in Addresses, Login(r, p, a) PROVE Moves
  <2>1. Begin("login", p, NONE, a, account[a].status).step = "login"
    BY DEF Begin
  <2> HIDE DEF Moves
  <2> QED
    BY <1>2, <1>4, <2>1 DEF Login
<1>5. ASSUME NEW r \in Requests, NEW g \in Subjects, NEW a \in Addresses, GoogleSignIn(r, g, a)
      PROVE  Moves
  <2>1. /\ Begin("google", NONE, g, a, "none").step = "google"
        /\ Begin("google", NONE, g, a, "none").retried = 0
    BY DEF Begin
  <2> HIDE DEF Moves
  <2> QED
    BY <1>2, <1>5, <2>1 DEF GoogleSignIn
<1>6. ASSUME NEW r \in Requests, request' = [request EXCEPT ![r] = Idle] PROVE Moves
  BY <1>2, <1>6, <1>i
<1>7. ASSUME NEW r \in Requests, LoginOpens(r) \/ \E k \in Codes : LoginReissues(r, k) PROVE Moves
  BY <1>6, <1>7 DEF LoginOpens, LoginReissues
<1>8. ASSUME NEW r \in Requests, GoogleReturns(r) \/ GoogleRefusesUnproved(r) \/ AnswerFailure(r)
      PROVE  Moves
  BY <1>6, <1>8 DEF GoogleReturns, GoogleRefusesUnproved, AnswerFailure
<1>9. ASSUME NEW r \in Requests, GoogleRefusesLinked(r) PROVE Moves
  <2>1. request'[s] = IF s = r THEN [request[r] EXCEPT !.step = "taken"] ELSE request[s]
    BY <1>0, <1>9 DEF GoogleRefusesLinked
  <2>2. [request[r] EXCEPT !.step = "taken"].step = "taken"
    BY <1>0 DEF Request
  <2> QED
    BY <2>1, <2>2
<1>10. ASSUME NEW r \in Requests, GoogleFindsNoLink(r) \/ GoogleFindsNobody(r) PROVE Moves
  <2>1. CASE r = s
    BY <1>10, <2>1
  <2>2. CASE r # s
    BY <1>0, <1>10, <2>2 DEF GoogleFindsNoLink, GoogleFindsNobody
  <2> QED
    BY <2>1, <2>2
<1>11. ASSUME NEW r \in Requests, r # s, Retry(r) PROVE Moves
  BY <1>0, <1>11 DEF Retry
<1>12. ASSUME NEW r \in Requests, GoogleCreates(r) PROVE Moves
  <2>1. CASE request' = [request EXCEPT ![r] = Idle]
    BY <1>6, <2>1
  <2>2. CASE Retry(r) /\ ~(account[request[r].address].status = "none" /\ link[request[r].subject] = NONE)
    BY <1>11, <1>12, <2>2 DEF GoogleCreates, Hits
  <2> QED
    BY <1>12, <2>1, <2>2 DEF GoogleCreates
<1>13. ASSUME NEW r \in Requests, GoogleLinks(r) PROVE Moves
  <2>1. CASE request' = [request EXCEPT ![r] = Idle]
    BY <1>6, <2>1
  <2>2. CASE Retry(r) /\ link[request[r].subject] # NONE
    BY <1>11, <1>13, <2>2 DEF GoogleLinks, Hits
  <2> QED
    BY <1>13, <2>1, <2>2 DEF GoogleLinks
<1>14. ASSUME NEW p \in People, NEW a \in Addresses, NEW k \in Codes,
              Register(p, a, k) \/ ResendVerification(p, a, k)
       PROVE  UNCHANGED request
  BY <1>14 DEF Register, ResendVerification
<1>15. ASSUME NEW p \in People, NEW a \in Addresses, TryWrongCode(p, a) \/ VerifyEmail(p, a)
       PROVE  UNCHANGED request
  BY <1>15 DEF TryWrongCode, VerifyEmail
<1>16. Environment => UNCHANGED request
  BY DEF Environment, SendCode, CooldownEnds, LapseVerification, DisableAccount
<1>17. UNCHANGED vars => UNCHANGED request
  BY DEF vars
<1> HIDE DEF Moves
<1>18. SignUp => Moves
  BY <1>1, <1>14, <1>15 DEF SignUp
<1>19. SignIn => Moves
  BY <1>4, <1>7 DEF SignIn
<1>20. Federated => Moves
  BY <1>5, <1>8, <1>9, <1>10, <1>12, <1>13 DEF Federated
<1>21. Moves
  BY <1>1, <1>16, <1>17, <1>18, <1>19, <1>20 DEF Next
<1> QED
  BY <1>21 DEF Moves

\* What a conflict taught a sign-in stays so when it starts over: there is an
\* account at its address now or a link of its subject.  Only a link found
\* twice lets it conflict twice, and a link found at once signs it in.
Raced(r) ==
    LET a == request[r].address
        g == request[r].subject
        n == request[r].retried
    IN  /\ request[r].step = "google" =>
              /\ n >= 1 => account[a].status # "none" \/ link[g] # NONE
              /\ n >= 2 => link[g] # NONE
        /\ request[r].step = "unlinked" => n <= 1 /\ (n = 1 => account[a].status # "none")
        /\ request[r].step = "vacant" => n = 0
        /\ request[r].step # "conflict"
AllRaced == \A r \in Requests : Raced(r)

\* A Google account vouches for one address at a time.
OneAddressEach == \A e, f \in Asserts : e[1] = f[1] => e[2] = f[2]

LEMMA RacedStep ==
    ASSUME Retries >= 2 \/ (Retries >= 1 /\ OneAddressEach),
           AccountsInv, Asserted, AllRaced, [Next]_vars, NEW s \in Requests
    PROVE  Raced(s)'
<1> DEFINE a == request[s].address
           g == request[s].subject
           n == request[s].retried
           step == request[s].step
<1>0. /\ TypeOK /\ AllEarned /\ Rows /\ Raced(s) /\ Earned(s) /\ Retries \in Nat
      /\ request[s] \in Request /\ n \in 0 .. Retries
  BY AccountsAssumption DEF AccountsInv, AllRaced, AllEarned, TypeOK, Request
<1>1. ASSUME step \notin {"idle", "login"}
      PROVE  /\ a \in Addresses /\ g \in Subjects /\ <<g, a>> \in Asserts
             /\ account[a].status # "none" => account'[a].status # "none"
             /\ link[g] # NONE => link'[g] # NONE
  <2>1. a \in Addresses /\ g \in Subjects /\ <<g, a>> \in Asserts
    BY <1>0, <1>1 DEF Earned
  <2> QED
    BY <1>0, <2>1, RowsMove, RowAges, AssertedStep
<1>2. CASE request'[s] = request[s]
  BY <1>0, <1>1, <1>2 DEF Raced
<1>3. CASE request'[s].step \in {"idle", "login", "taken"}
  BY <1>3 DEF Raced
<1>4. CASE request'[s].step = "google" /\ request'[s].retried = 0
  BY <1>4 DEF Raced
<1>5. CASE GoogleFindsNoLink(s)
  <2>1. step = "google" /\ link[g] = NONE /\ request' = [request EXCEPT ![s].step = "unlinked"]
        /\ UNCHANGED account
    BY <1>5 DEF GoogleFindsNoLink
  <2>2. /\ request'[s].step = "unlinked" /\ request'[s].retried = n
        /\ request'[s].address = a /\ request'[s].subject = g
    BY <1>0, <2>1 DEF TypeOK, Request
  <2>3. n <= 1 /\ (n = 1 => account[a].status # "none")
    BY <1>0, <2>1 DEF Raced
  <2> QED
    BY <2>1, <2>2, <2>3 DEF Raced
<1>6. CASE GoogleFindsNobody(s)
  <2>1. step = "unlinked" /\ account[a].status = "none"
        /\ request' = [request EXCEPT ![s].step = "vacant"]
    BY <1>6 DEF GoogleFindsNobody
  <2>2. request'[s].step = "vacant" /\ request'[s].retried = n
    BY <1>0, <2>1 DEF TypeOK, Request
  <2>3. n = 0
    BY <1>0, <2>1 DEF Raced
  <2> QED
    BY <2>2, <2>3 DEF Raced
<1>7. ASSUME Retry(s), n < Retries, account[a].status # "none" \/ link[g] # NONE,
             n = 0 \/ link[g] # NONE, step \notin {"idle", "login"}
      PROVE  Raced(s)'
  <2>1. /\ request' = [request EXCEPT ![s].step = "google", ![s].retried = n + 1]
        /\ UNCHANGED <<account, link>>
    BY <1>0, <1>7 DEF Retry
  <2>2. /\ request'[s].step = "google" /\ request'[s].retried = n + 1
        /\ request'[s].address = a /\ request'[s].subject = g
    BY <1>0, <2>1 DEF TypeOK, Request
  <2> QED
    BY <1>0, <1>7, <2>1, <2>2 DEF Raced
<1>8. CASE Hits(s, "vacant") /\ (account[a].status # "none" \/ link[g] # NONE)
  <2>1. n = 0 /\ Retry(s) /\ step = "vacant"
    BY <1>0, <1>8 DEF Raced, Hits
  <2> QED
    BY <1>0, <1>7, <1>8, <2>1
<1>9. CASE Hits(s, "unlinked") /\ link[g] # NONE /\ ~AlreadyLinked(a)
  <2>1. n <= 1 /\ Retry(s) /\ step = "unlinked"
    BY <1>0, <1>9 DEF Raced, Hits
  <2>2. link[g] # a
    BY <1>1, <1>9, <2>1 DEF AlreadyLinked
  <2>3. <<g, link[g]>> \in Asserts /\ <<g, a>> \in Asserts
    BY <1>1, <1>9, <2>1 DEF Asserted
  <2>4. ~OneAddressEach
    <3>1. <<g, link[g]>>[1] = <<g, a>>[1] /\ <<g, link[g]>>[2] # <<g, a>>[2]
      BY <2>2
    <3> QED
      BY <2>3, <3>1 DEF OneAddressEach
  <2> QED
    BY <1>0, <1>7, <1>9, <2>1, <2>4
<1> QED
  BY <1>0, <1>2, <1>3, <1>4, <1>5, <1>6, <1>8, <1>9, RaceMoves

\* Among sign-ins with Google that race each other and a registration, none
\* hits a unique index twice: one retry is enough while a Google account
\* vouches for one address, and two are enough whatever it vouches for
\* (googleConflictRetries; AuthenticateWithGoogle starts over).
THEOREM RetryEnough ==
    ASSUME Retries >= 2 \/ (Retries >= 1 /\ OneAddressEach)
    PROVE  Spec => []RetrySuffices
<1> DEFINE Inv == AccountsInv /\ Asserted /\ AllRaced
<1>1. Init => Inv
  <2> SUFFICES ASSUME Init PROVE Inv
    OBVIOUS
  <2>1. Asserted
    BY DEF Init, Asserted
  <2>2. \A r \in Requests : request[r].step = "idle"
    BY DEF Init, Idle, Begin
  <2>3. AllRaced
    BY <2>2 DEF AllRaced, Raced
  <2> QED
    BY <2>1, <2>3, InvInit
<1>2. Inv /\ [Next]_vars => Inv'
  <2> SUFFICES ASSUME Inv, [Next]_vars PROVE Inv'
    OBVIOUS
  <2>1. AccountsInv'
    BY InvNext
  <2>2. Asserted'
    BY AssertedStep DEF AccountsInv
  <2>3. AllRaced'
    BY RacedStep DEF AllRaced
  <2> QED
    BY <2>1, <2>2, <2>3
<1>3. Inv => RetrySuffices
  BY DEF AllRaced, Raced, RetrySuffices
<1> HIDE DEF Inv
<1> QED
  BY <1>1, <1>2, <1>3, PTL DEF Spec
===============================================================================
