------------------------------- MODULE Sessions -------------------------------
(***************************************************************************)
(* The account sessions of the identity service: opening, refreshing,      *)
(* logging out, and the announcement of a session's end to the relay       *)
(* (src/internal/identity/service.go and its store).                       *)
(*                                                                         *)
(* A session holds one access token at a time and a family of refresh      *)
(* credentials.  The two tokens a client is given together are one "pair"; *)
(* a session stores the access token of its latest pair, and the table of  *)
(* refresh credentials has a row for every pair ever given.                *)
(*                                                                         *)
(* A refresh runs in one transaction that locks the credential and then    *)
(* its session, so it is one action; any pair ever handed out may be       *)
(* presented at any time, which covers retries after a lost answer, two    *)
(* tabs, and copies.  Expiries are flags raised by the environment.        *)
(***************************************************************************)
EXTENDS Naturals, FiniteSets

CONSTANTS
    Users,     \* accounts
    Sessions,  \* sessions that may be opened
    Pairs,     \* pairs of tokens that may be drawn
    NONE       \* an absent row

ASSUME SessionsAssumption ==
    /\ NONE \notin Users \cup Sessions \cup Pairs
    /\ Users \cap Sessions = {}

VARIABLES
    session,  \* rows of auth_sessions
    refresh,  \* rows of refresh_credentials
    owed,     \* revocations committed and not announced yet, with what they cover
    told,     \* sockets the relay was told to close: of a session, or of an account
    active    \* accounts that are active

vars == <<session, refresh, owed, told, active>>

Session == [user         : Users \cup {NONE},
            current      : Pairs \cup {NONE},  \* the pair of the stored access token
            accessLapsed : BOOLEAN,
            lapsed       : BOOLEAN,            \* RefreshExpiresAt, fixed when it opens
            revoked      : BOOLEAN]

Refresh == [session : Sessions \cup {NONE}, used : BOOLEAN]

NoSession == [user |-> NONE, current |-> NONE, accessLapsed |-> FALSE,
              lapsed |-> FALSE, revoked |-> FALSE]

Init ==
    /\ session = [s \in Sessions |-> NoSession]
    /\ refresh = [x \in Pairs |-> [session |-> NONE, used |-> FALSE]]
    /\ owed = {}
    /\ told = {}
    /\ active = Users

Fresh(y) == refresh[y].session = NONE
-------------------------------------------------------------------------------
\* A sign-in opens a session with its first pair.  The sign-in read the
\* account's status before, so the account may have been disabled since.
OpenSession(u, s, y) ==
    /\ session[s].user = NONE
    /\ Fresh(y)
    /\ session' = [session EXCEPT ![s] = [NoSession EXCEPT !.user = u, !.current = y]]
    /\ refresh' = [refresh EXCEPT ![y].session = s]
    /\ UNCHANGED <<owed, told, active>>

\* The session's row is marked revoked, and its end is announced after the
\* commit: to the sockets of the session, or of the whole account.  (The
\* mutant, here and below, is a mistake the properties must notice.)
MutantRevokeQuietly(s, scope) ==
    /\ session' = [session EXCEPT ![s].revoked = TRUE]
    /\ UNCHANGED owed

MutantRevokeNameless(s, scope) ==
    /\ session' = [session EXCEPT ![s].revoked = TRUE]
    /\ owed' = owed \cup {<<s, NONE>>}

Revoke(s, scope) ==
    /\ session' = [session EXCEPT ![s].revoked = TRUE]
    /\ owed' = owed \cup {<<s, scope>>}

\* A credential that was traded before is presented again: a lost answer
\* retried, or a copy.  The session ends either way.
RefreshReused(x) ==
    LET s == refresh[x].session IN
    /\ s # NONE
    /\ refresh[x].used
    /\ ~session[s].revoked
    /\ Revoke(s, s)
    /\ UNCHANGED <<refresh, told, active>>

\* An unused credential is presented when its session has reached its end.
RefreshLapsed(x) ==
    LET s == refresh[x].session IN
    /\ s # NONE
    /\ ~refresh[x].used
    /\ ~session[s].revoked
    /\ session[s].lapsed
    /\ Revoke(s, s)
    /\ UNCHANGED <<refresh, told, active>>

\* An unused credential is presented for an account that is not active.
RefreshInactive(x) ==
    LET s == refresh[x].session IN
    /\ s # NONE
    /\ ~refresh[x].used
    /\ ~session[s].revoked /\ ~session[s].lapsed
    /\ session[s].user \notin active
    /\ Revoke(s, session[s].user)
    /\ UNCHANGED <<refresh, told, active>>

\* The presented credential is marked used and its successor inserted.
MutantTradeKeepsOld(x, y) == refresh' = [refresh EXCEPT ![y].session = refresh[x].session]

Trade(x, y) ==
    refresh' = [refresh EXCEPT ![x].used = TRUE,
                               ![y].session = refresh[x].session]

MutantRotateRevoked(x, y) ==
    LET s == refresh[x].session IN
    /\ s # NONE
    /\ ~refresh[x].used
    /\ ~session[s].lapsed
    /\ session[s].user \in active
    /\ Fresh(y)
    /\ Trade(x, y)
    /\ session' = [session EXCEPT ![s] = [@ EXCEPT !.current = y, !.accessLapsed = FALSE]]
    /\ UNCHANGED <<owed, told, active>>

\* An unused credential is traded for a new pair.
RefreshRotates(x, y) ==
    LET s == refresh[x].session IN
    /\ s # NONE
    /\ ~refresh[x].used
    /\ ~session[s].revoked /\ ~session[s].lapsed
    /\ session[s].user \in active
    /\ Fresh(y)
    /\ Trade(x, y)
    /\ session' = [session EXCEPT ![s] = [@ EXCEPT !.current = y, !.accessLapsed = FALSE]]
    /\ UNCHANGED <<owed, told, active>>

\* Whoever holds a credential of the session, used or not, ends it.
Logout(x) ==
    LET s == refresh[x].session IN
    /\ s # NONE
    /\ ~session[s].revoked
    /\ Revoke(s, s)
    /\ UNCHANGED <<refresh, told, active>>

\* The call that revoked session s tells the relay.
Announce(s, scope) ==
    /\ <<s, scope>> \in owed
    /\ owed' = owed \ {<<s, scope>>}
    /\ told' = told \cup {scope}
    /\ UNCHANGED <<session, refresh, active>>
-------------------------------------------------------------------------------
(* Time, and the operator of the database.                                 *)

LapseAccess(s) ==
    /\ session[s].user # NONE
    /\ ~session[s].accessLapsed
    /\ session' = [session EXCEPT ![s].accessLapsed = TRUE]
    /\ UNCHANGED <<refresh, owed, told, active>>

LapseSession(s) ==
    /\ session[s].user # NONE
    /\ ~session[s].lapsed
    /\ session' = [session EXCEPT ![s].lapsed = TRUE]
    /\ UNCHANGED <<refresh, owed, told, active>>

DisableAccount(u) ==
    /\ u \in active
    /\ active' = active \ {u}
    /\ UNCHANGED <<session, refresh, owed, told>>
-------------------------------------------------------------------------------
Presentation(x) ==
    \/ RefreshReused(x)
    \/ RefreshLapsed(x)
    \/ RefreshInactive(x)
    \/ \E y \in Pairs : RefreshRotates(x, y)
    \/ Logout(x)

Announcement == \E s \in Sessions, scope \in Sessions \cup Users : Announce(s, scope)

Next ==
    \/ \E u \in Users, s \in Sessions, y \in Pairs : OpenSession(u, s, y)
    \/ \E x \in Pairs : Presentation(x)
    \/ Announcement
    \/ \E s \in Sessions : LapseAccess(s) \/ LapseSession(s)
    \/ \E u \in Users : DisableAccount(u)

Spec == Init /\ [][Next]_vars
-------------------------------------------------------------------------------
(* Whom the rest of the server serves.                                     *)

\* AuthenticateAccess: the access token of pair x is accepted.
Authenticates(x) ==
    \E s \in Sessions : /\ session[s].current = x
                        /\ ~session[s].accessLapsed
                        /\ ~session[s].revoked
                        /\ session[s].user \in active

\* AuthorizeSession: what the connectors service asks of a session.
Authorized(s) ==
    /\ session[s].user \in active
    /\ ~session[s].accessLapsed
    /\ ~session[s].revoked

\* The refresh credentials of a session that can still be traded.
Tradable(s) == {x \in Pairs : refresh[x].session = s /\ ~refresh[x].used}
-------------------------------------------------------------------------------
(* Properties.                                                             *)

TypeOK ==
    /\ session \in [Sessions -> Session]
    /\ refresh \in [Pairs -> Refresh]
    /\ owed \subseteq Sessions \X (Sessions \cup Users)
    /\ told \subseteq Sessions \cup Users
    /\ active \subseteq Users

\* The two tables agree: a session has exactly one refresh credential that can
\* be traded, the one given with the access token it stores, so two of its
\* clients can never go on side by side.
OneTradableCredential ==
    \A s \in Sessions : session[s].user # NONE => Tradable(s) = {session[s].current}

\* No session ends quietly: of every revocation that committed, the relay was
\* told, or the call that made it is about to tell.  Nor is the relay told of
\* one that did not.
NoSilentEnd ==
    \A s \in Sessions :
        /\ session[s].revoked => \/ {s, session[s].user} \cap told # {}
                                 \/ \E scope \in {s, session[s].user} : <<s, scope>> \in owed
        /\ s \in told => session[s].revoked

\* A session's tokens form a chain: seen through the table of credentials
\* alone, each was handed out once, traded at most once and only while it was
\* the last one, and none is good once the session has ended.
Tip == [s \in Sessions |-> IF session[s].user = NONE THEN NONE
                           ELSE CHOOSE x \in Pairs : x \in Tradable(s)]
Spent == {x \in Pairs : ~Fresh(x)}
Ended == {s \in Sessions : session[s].revoked}

Chain == INSTANCE TokenChain WITH tip <- Tip, spent <- Spent, ended <- Ended

ChainSpec == Chain!Spec
===============================================================================
