---------------------------- MODULE SessionsProofs -----------------------------
(***************************************************************************)
(* Proofs about the account sessions, for any number of accounts, sessions *)
(* and pairs of tokens: the tables agree, no session ends quietly, and     *)
(* Sessions implements TokenChain.                                         *)
(***************************************************************************)
EXTENDS Sessions, TLAPS

-------------------------------------------------------------------------------
(* The inductive invariant.  That one credential can be traded survives a   *)
(* sign-in only because a session that has not opened has none at all, and  *)
(* a trade only because a pair not handed out yet is not marked used.       *)

Unopened == \A s \in Sessions : session[s].user = NONE =>
               /\ ~session[s].revoked
               /\ session[s].current = NONE
               /\ \A x \in Pairs : refresh[x].session # s

Opened == \A s \in Sessions : session[s].user # NONE =>
             /\ session[s].current \in Pairs
             /\ \A x \in Pairs : (refresh[x].session = s /\ ~refresh[x].used)
                                    <=> x = session[s].current

FreshUnused == \A x \in Pairs : Fresh(x) => ~refresh[x].used

\* What is owed to the relay is the end of a session that has ended.
OwedTruly == \A s \in Sessions, scope \in Sessions \cup Users : <<s, scope>> \in owed =>
                /\ session[s].revoked
                /\ scope \in {s, session[s].user}

IInv == TypeOK /\ Unopened /\ Opened /\ FreshUnused /\ OwedTruly /\ NoSilentEnd

\* No session has opened and no pair was handed out, so the invariant holds.
LEMMA IInvInit == Init => IInv
  BY SessionsAssumption
  DEF Init, IInv, TypeOK, Unopened, Opened, FreshUnused, OwedTruly, NoSilentEnd, Fresh,
      NoSession, Session, Refresh

\* What the operations do to a session's row leaves it a session's row.
LEMMA SessionEdits ==
    ASSUME NEW r \in Session
    PROVE  /\ [r EXCEPT !.revoked = TRUE] \in Session
           /\ [r EXCEPT !.accessLapsed = TRUE] \in Session
           /\ [r EXCEPT !.lapsed = TRUE] \in Session
           /\ \A y \in Pairs : [r EXCEPT !.current = y, !.accessLapsed = FALSE] \in Session
           /\ \A u \in Users, y \in Pairs :
                 [NoSession EXCEPT !.user = u, !.current = y] \in Session
  BY DEF Session, NoSession

\* A sign-in keeps the invariant: the session it opens had no credential.
LEMMA OpenStep ==
    ASSUME IInv, NEW u \in Users, NEW s \in Sessions, NEW y \in Pairs, OpenSession(u, s, y)
    PROVE  IInv'
<1> USE DEF IInv, OpenSession
<1>0. /\ session \in [Sessions -> Session] /\ refresh \in [Pairs -> Refresh]
      /\ NONE \notin Users /\ NONE \notin Sessions /\ u # NONE
  BY SessionsAssumption DEF TypeOK
<1>1. /\ session' = [session EXCEPT ![s] = [NoSession EXCEPT !.user = u, !.current = y]]
      /\ refresh' = [refresh EXCEPT ![y].session = s]
      /\ refresh[y].session = NONE /\ ~refresh[y].used
      /\ session[s].user = NONE
  BY DEF FreshUnused, Fresh
<1>2. TypeOK'
  <2>0. [NoSession EXCEPT !.user = u, !.current = y] \in Session
    BY DEF Session, NoSession
  <2>1. session' \in [Sessions -> Session]
    BY <1>0, <1>1, <2>0
  <2>2. refresh' \in [Pairs -> Refresh]
    <3>1. [refresh[y] EXCEPT !.session = s] \in Refresh
      BY <1>0 DEF Refresh
    <3>2. refresh' = [refresh EXCEPT ![y] = [refresh[y] EXCEPT !.session = s]]
      BY <1>0, <1>1
    <3> QED
      BY <1>0, <3>1, <3>2
  <2> QED
    BY <2>1, <2>2 DEF TypeOK
<1>3. Unopened'
  BY <1>0, <1>1 DEF Unopened, NoSession, Refresh
<1>4. Opened'
  <2> SUFFICES ASSUME NEW t \in Sessions, session'[t].user # NONE
               PROVE  /\ session'[t].current \in Pairs
                      /\ \A x \in Pairs : (refresh'[x].session = t /\ ~refresh'[x].used)
                                             <=> x = session'[t].current
    BY DEF Opened
  <2>1. CASE t = s
    BY <1>0, <1>1, <2>1 DEF Unopened, NoSession, Refresh
  <2>2. CASE t # s
    BY <1>0, <1>1, <2>2 DEF Opened, Refresh
  <2> QED
    BY <2>1, <2>2
<1>5. FreshUnused'
  BY <1>0, <1>1 DEF FreshUnused, Fresh, Refresh
<1>6. ~session[s].revoked
  BY <1>1 DEF Unopened
<1>7. OwedTruly'
  BY <1>0, <1>1, <1>6 DEF OwedTruly
<1>8. NoSilentEnd'
  <2>1. s \notin told
    BY <1>6 DEF NoSilentEnd
  <2>2. ~session'[s].revoked
    BY <1>0, <1>1 DEF NoSession
  <2>3. \A t \in Sessions \ {s} : session'[t] = session[t]
    BY <1>0, <1>1
  <2>4. UNCHANGED <<owed, told>>
    OBVIOUS
  <2> QED
    BY <2>1, <2>2, <2>3, <2>4 DEF NoSilentEnd
<1> QED
  BY <1>2, <1>3, <1>4, <1>5, <1>7, <1>8

\* Ending a session that opened keeps the invariant, whichever way it ends.
LEMMA RevokeStep ==
    ASSUME IInv, NEW s \in Sessions, NEW scope \in {s, session[s].user}, Revoke(s, scope),
           session[s].user # NONE, UNCHANGED <<refresh, told, active>>
    PROVE  IInv'
<1> USE DEF IInv, Revoke
<1>0. session \in [Sessions -> Session] /\ session[s] \in Session /\ session[s].user \in Users
  BY DEF TypeOK, Session
<1>1. /\ \A t \in Sessions : /\ session'[t].user = session[t].user
                             /\ session'[t].current = session[t].current
                             /\ t # s => session'[t] = session[t]
      /\ session'[s].revoked
  BY <1>0 DEF Session
<1>2. TypeOK'
  <2>1. [session[s] EXCEPT !.revoked = TRUE] \in Session
    BY <1>0, SessionEdits
  <2>2. session' \in [Sessions -> Session]
    BY <1>0, <2>1
  <2>3. owed' \subseteq Sessions \X (Sessions \cup Users)
    BY <1>0 DEF TypeOK
  <2> QED
    BY <2>2, <2>3 DEF TypeOK
<1>3. Unopened' /\ Opened' /\ FreshUnused'
  BY <1>1 DEF Unopened, Opened, FreshUnused, Fresh
<1>4. OwedTruly'
  BY <1>1 DEF OwedTruly
<1>5. NoSilentEnd'
  <2> SUFFICES ASSUME NEW t \in Sessions
               PROVE  /\ session'[t].revoked =>
                            \/ {t, session'[t].user} \cap told' # {}
                            \/ \E a \in {t, session'[t].user} : <<t, a>> \in owed'
                      /\ t \in told' => session'[t].revoked
    BY DEF NoSilentEnd
  <2>1. CASE t = s
    BY <1>1, <2>1
  <2>2. CASE t # s
    BY <1>1, <2>2 DEF NoSilentEnd
  <2> QED
    BY <2>1, <2>2
<1> QED
  BY <1>2, <1>3, <1>4, <1>5

\* A credential is presented that belongs to a session, so the session opened.
LEMMA PresentedOpened ==
    ASSUME IInv, NEW x \in Pairs, refresh[x].session # NONE
    PROVE  /\ refresh[x].session \in Sessions
           /\ session[refresh[x].session].user \in Users
           /\ session[refresh[x].session].user # NONE
<1>1. refresh[x] \in Refresh /\ refresh[x].session \in Sessions
  BY DEF IInv, TypeOK, Refresh
<1>2. session[refresh[x].session] \in Session
  BY <1>1 DEF IInv, TypeOK
<1>3. session[refresh[x].session].user # NONE
  BY <1>1 DEF IInv, Unopened
<1> QED
  BY <1>1, <1>2, <1>3 DEF Session

\* A trade keeps the invariant: the traded credential was the session's last.
LEMMA TradeStep ==
    ASSUME IInv, NEW x \in Pairs, NEW y \in Pairs, RefreshRotates(x, y)
    PROVE  IInv'
<1> DEFINE s == refresh[x].session
<1>0. /\ s \in Sessions /\ session[s].user # NONE
      /\ session \in [Sessions -> Session] /\ refresh \in [Pairs -> Refresh]
      /\ session[s] \in Session
  BY PresentedOpened DEF RefreshRotates, IInv, TypeOK
<1>1. /\ ~refresh[x].used
      /\ refresh[y].session = NONE /\ ~refresh[y].used
      /\ refresh' = [refresh EXCEPT ![x].used = TRUE, ![y].session = s]
      /\ session' = [session EXCEPT ![s] = [session[s] EXCEPT !.current = y,
                                                             !.accessLapsed = FALSE]]
      /\ UNCHANGED <<owed, told, active>>
  BY <1>0 DEF RefreshRotates, Trade, Fresh, IInv, FreshUnused
<1>2. x # y /\ s # NONE
  BY <1>0, <1>1, SessionsAssumption DEF RefreshRotates
<1> HIDE DEF s
<1>3. /\ \A t \in Sessions : /\ session'[t].user = session[t].user
                             /\ session'[t].revoked = session[t].revoked
                             /\ t # s => session'[t] = session[t]
      /\ session'[s].current = y
  BY <1>0, <1>1 DEF Session
<1>4. /\ refresh'[x].session = s /\ refresh'[x].used
      /\ refresh'[y].session = s /\ ~refresh'[y].used
      /\ \A z \in Pairs \ {x, y} : refresh'[z] = refresh[z]
  BY <1>0, <1>1, <1>2 DEF Refresh, s
<1>5. TypeOK'
  <2>1. [session[s] EXCEPT !.current = y, !.accessLapsed = FALSE] \in Session
    BY <1>0, SessionEdits
  <2>2. session' \in [Sessions -> Session]
    BY <1>0, <1>1, <2>1
  <2>3. refresh' \in [Pairs -> Refresh]
    <3> DEFINE f == [refresh EXCEPT ![x] = [refresh[x] EXCEPT !.used = TRUE]]
    <3>1. [refresh[x] EXCEPT !.used = TRUE] \in Refresh
      BY <1>0 DEF Refresh
    <3>2. f \in [Pairs -> Refresh]
      BY <1>0, <3>1
    <3>3. refresh' = [f EXCEPT ![y] = [f[y] EXCEPT !.session = s]]
      BY <1>0, <1>1
    <3> HIDE DEF f
    <3>4. [f[y] EXCEPT !.session = s] \in Refresh
      BY <1>0, <3>2 DEF Refresh
    <3> QED
      BY <3>2, <3>3, <3>4
  <2> QED
    BY <1>1, <2>2, <2>3 DEF IInv, TypeOK
<1>6. Unopened'
  <2> SUFFICES ASSUME NEW t \in Sessions, session'[t].user = NONE
               PROVE  /\ ~session'[t].revoked
                      /\ session'[t].current = NONE
                      /\ \A z \in Pairs : refresh'[z].session # t
    BY DEF Unopened
  <2> QED
    BY <1>0, <1>3, <1>4 DEF IInv, Unopened
<1>7. Opened'
  <2> SUFFICES ASSUME NEW t \in Sessions, session'[t].user # NONE
               PROVE  /\ session'[t].current \in Pairs
                      /\ \A z \in Pairs : (refresh'[z].session = t /\ ~refresh'[z].used)
                                             <=> z = session'[t].current
    BY DEF Opened
  <2>0. session[t].user # NONE
    BY <1>3
  <2>1. CASE t = s
    <3>1. session[s].current = x
      BY <1>0, <1>1 DEF IInv, Opened, s
    <3> QED
      BY <1>0, <1>3, <1>4, <2>1, <3>1 DEF IInv, Opened
  <2>2. CASE t # s
    <3>1. session[t].current \notin {x, y}
      BY <1>0, <1>1, <2>0, <2>2, SessionsAssumption DEF IInv, Opened, s
    <3> QED
      BY <1>3, <1>4, <2>0, <2>2, <3>1 DEF IInv, Opened
  <2> QED
    BY <2>1, <2>2
<1>8. FreshUnused'
  BY <1>2, <1>4 DEF IInv, FreshUnused, Fresh
<1>9. OwedTruly'
  BY <1>1, <1>3 DEF IInv, OwedTruly
<1>10. NoSilentEnd'
  <2> SUFFICES ASSUME NEW t \in Sessions
               PROVE  /\ session'[t].revoked =>
                            \/ {t, session'[t].user} \cap told' # {}
                            \/ \E a \in {t, session'[t].user} : <<t, a>> \in owed'
                      /\ t \in told' => session'[t].revoked
    BY DEF NoSilentEnd
  <2>1. /\ session'[t].user = session[t].user /\ session'[t].revoked = session[t].revoked
        /\ owed' = owed /\ told' = told
    BY <1>1, <1>3
  <2> QED
    BY <2>1 DEF IInv, NoSilentEnd
<1> QED
  BY <1>5, <1>6, <1>7, <1>8, <1>9, <1>10 DEF IInv

\* An announcement keeps the invariant: what was owed is told.
LEMMA AnnounceStep ==
    ASSUME IInv, NEW s \in Sessions, NEW scope \in Sessions \cup Users, Announce(s, scope)
    PROVE  IInv'
<1>1. session[s].revoked /\ scope \in {s, session[s].user}
  BY DEF Announce, IInv, OwedTruly
<1>2. session[s].user \in Users \cup {NONE}
  BY DEF IInv, TypeOK, Session
<1>3. TypeOK'
  BY DEF Announce, IInv, TypeOK
<1>4. Unopened' /\ Opened' /\ FreshUnused' /\ OwedTruly'
  BY DEF Announce, IInv, Unopened, Opened, FreshUnused, Fresh, OwedTruly
<1>5. NoSilentEnd'
  <2> SUFFICES ASSUME NEW t \in Sessions
               PROVE  /\ session[t].revoked =>
                            \/ {t, session[t].user} \cap told' # {}
                            \/ \E a \in {t, session[t].user} : <<t, a>> \in owed'
                      /\ t \in told' => session[t].revoked
    BY DEF NoSilentEnd, Announce
  <2>1. CASE t = s
    BY <1>1, <2>1 DEF Announce
  <2>2. CASE t # s
    <3>1. t \notin {s, session[s].user}
      BY <1>2, <2>2, SessionsAssumption
    <3>2. \A a \in {t, session[t].user} : <<t, a>> \in owed => <<t, a>> \in owed'
      BY <2>2 DEF Announce
    <3> QED
      BY <1>1, <3>1, <3>2 DEF Announce, IInv, NoSilentEnd
  <2> QED
    BY <2>1, <2>2
<1> QED
  BY <1>3, <1>4, <1>5 DEF IInv

\* A flag raised by the clock, or an account disabled, keeps the invariant.
LEMMA TimeStep ==
    ASSUME IInv, NEW s \in Sessions, LapseAccess(s) \/ LapseSession(s)
    PROVE  IInv'
<1>0. session \in [Sessions -> Session] /\ session[s] \in Session
  BY DEF IInv, TypeOK
<1>1. /\ \A t \in Sessions : /\ session'[t].user = session[t].user
                             /\ session'[t].current = session[t].current
                             /\ session'[t].revoked = session[t].revoked
      /\ UNCHANGED <<refresh, owed, told, active>>
  BY <1>0 DEF LapseAccess, LapseSession, Session
<1>2. session' \in [Sessions -> Session]
  <2>1. /\ [session[s] EXCEPT !.accessLapsed = TRUE] \in Session
        /\ [session[s] EXCEPT !.lapsed = TRUE] \in Session
    BY <1>0, SessionEdits
  <2> QED
    BY <1>0, <2>1 DEF LapseAccess, LapseSession
<1>3. TypeOK' /\ Unopened' /\ Opened' /\ FreshUnused'
  BY <1>1, <1>2 DEF IInv, TypeOK, Unopened, Opened, FreshUnused, Fresh
<1>4. OwedTruly' /\ NoSilentEnd'
  BY <1>1 DEF IInv, OwedTruly, NoSilentEnd
<1> QED
  BY <1>3, <1>4 DEF IInv

\* The ways a session ends are all Revoke.
LEMMA Endings ==
    ASSUME IInv, NEW x \in Pairs,
           RefreshReused(x) \/ RefreshLapsed(x) \/ RefreshInactive(x) \/ Logout(x)
    PROVE  \E s \in Sessions : /\ session[s].user # NONE
                               /\ \E scope \in {s, session[s].user} : Revoke(s, scope)
                               /\ UNCHANGED <<refresh, told, active>>
<1>1. refresh[x].session # NONE
  BY DEF RefreshReused, RefreshLapsed, RefreshInactive, Logout
<1>2. /\ refresh[x].session \in Sessions
      /\ session[refresh[x].session].user # NONE
  BY <1>1, PresentedOpened
<1> QED
  BY <1>2 DEF RefreshReused, RefreshLapsed, RefreshInactive, Logout

\* Every step keeps the invariant.
LEMMA IInvStep == IInv /\ [Next]_vars => IInv'
<1> SUFFICES ASSUME IInv, [Next]_vars PROVE IInv'
  OBVIOUS
<1>1. ASSUME NEW u \in Users, NEW s \in Sessions, NEW y \in Pairs, OpenSession(u, s, y)
      PROVE  IInv'
  BY <1>1, OpenStep
<1>2. ASSUME NEW x \in Pairs, Presentation(x) PROVE IInv'
  <2>1. CASE \E y \in Pairs : RefreshRotates(x, y)
    BY <2>1, TradeStep
  <2>2. CASE RefreshReused(x) \/ RefreshLapsed(x) \/ RefreshInactive(x) \/ Logout(x)
    BY <2>2, Endings, RevokeStep
  <2> QED
    BY <1>2, <2>1, <2>2 DEF Presentation
<1>3. CASE Announcement
  BY <1>3, AnnounceStep DEF Announcement
<1>4. ASSUME NEW s \in Sessions, LapseAccess(s) \/ LapseSession(s) PROVE IInv'
  BY <1>4, TimeStep
<1>5. ASSUME NEW u \in Users, DisableAccount(u) PROVE IInv'
  BY <1>5 DEF DisableAccount, IInv, TypeOK, Unopened, Opened, FreshUnused, Fresh,
              OwedTruly, NoSilentEnd
<1>6. CASE UNCHANGED vars
  BY <1>6 DEF vars, IInv, TypeOK, Unopened, Opened, FreshUnused, Fresh, OwedTruly, NoSilentEnd
<1> QED
  BY <1>1, <1>2, <1>3, <1>4, <1>5, <1>6 DEF Next

\* In every behaviour of the sessions the invariant holds throughout.
LEMMA Invariance == Spec => []IInv
  BY IInvInit, IInvStep, PTL DEF Spec
-------------------------------------------------------------------------------
(* Safety.                                                                 *)

\* Every row the refreshes, sign-ins and logouts leave behind is well formed.
THEOREM SessionsTyped == Spec => []TypeOK
<1>1. IInv => TypeOK
  BY DEF IInv
<1> QED
  BY <1>1, Invariance, PTL

\* However refreshes of one session are interleaved, retried or replayed, one
\* refresh credential of it can be traded: the one beside its access token.
THEOREM OneCredential == Spec => []OneTradableCredential
<1>1. IInv => OneTradableCredential
  BY DEF IInv, Opened, OneTradableCredential, Tradable
<1> QED
  BY <1>1, Invariance, PTL

\* Whatever ends a session, the relay has been told or is about to be.
THEOREM NothingSilent == Spec => []NoSilentEnd
<1>1. IInv => NoSilentEnd
  BY DEF IInv
<1> QED
  BY <1>1, Invariance, PTL
-------------------------------------------------------------------------------
(* Sessions implements TokenChain.                                         *)

\* The tip of a session, which the table of credentials determines, is the
\* pair whose access token the session stores.
LEMMA TipIsCurrent == IInv => Tip = [s \in Sessions |-> session[s].current]
<1> SUFFICES ASSUME IInv, NEW s \in Sessions
             PROVE  (IF session[s].user = NONE THEN NONE
                     ELSE CHOOSE x \in Pairs : x \in Tradable(s)) = session[s].current
  BY DEF Tip
<1>1. CASE session[s].user = NONE
  BY <1>1 DEF IInv, Unopened
<1>2. CASE session[s].user # NONE
  <2>1. session[s].current \in Pairs /\ Tradable(s) = {session[s].current}
    BY <1>2 DEF IInv, Opened, Tradable
  <2> QED
    BY <1>2, <2>1
<1> QED
  BY <1>1, <1>2

\* The same of the state after a step.
LEMMA NextTipIsCurrent == IInv' => Tip' = [s \in Sessions |-> session'[s].current]
<1>1. (IInv => Tip = [s \in Sessions |-> session[s].current])'
  BY TipIsCurrent, PTL
<1> QED
  BY <1>1

\* A sign-in or a trade hands out a pair, whatever ends a session ends it in
\* TokenChain, and no other step shows there.
LEMMA ChainStep == IInv /\ IInv' /\ [Next]_vars => [Chain!Next]_(Chain!chainVars)
<1> SUFFICES ASSUME IInv, IInv', [Next]_vars
             PROVE  Chain!Next \/ UNCHANGED <<Tip, Spent, Ended>>
  BY DEF Chain!chainVars
<1>0. /\ Tip = [s \in Sessions |-> session[s].current]
      /\ Tip' = [s \in Sessions |-> session'[s].current]
      /\ session \in [Sessions -> Session] /\ session' \in [Sessions -> Session]
      /\ refresh \in [Pairs -> Refresh]
  BY TipIsCurrent, NextTipIsCurrent DEF IInv, TypeOK
<1>1. ASSUME NEW u \in Users, NEW s \in Sessions, NEW y \in Pairs, OpenSession(u, s, y)
      PROVE  Chain!HandOut(s, y)
  <2>1. s \notin Ended /\ y \notin Spent
    BY <1>1 DEF OpenSession, Ended, Spent, IInv, Unopened
  <2>2. Tip' = [Tip EXCEPT ![s] = y]
    BY <1>0, <1>1 DEF OpenSession, NoSession
  <2>3. Spent' = Spent \cup {y}
    BY <1>0, <1>1, SessionsAssumption DEF OpenSession, Spent, Fresh, Refresh
  <2>4. Ended' = Ended
    BY <1>0, <1>1, <2>1 DEF OpenSession, Ended, NoSession
  <2> QED
    BY <2>1, <2>2, <2>3, <2>4 DEF Chain!HandOut
<1>2. ASSUME NEW x \in Pairs, NEW y \in Pairs, RefreshRotates(x, y)
      PROVE  Chain!HandOut(refresh[x].session, y)
  <2> DEFINE s == refresh[x].session
  <2>0. s \in Sessions /\ s # NONE /\ session[s] \in Session
    BY <1>0, <1>2, PresentedOpened DEF RefreshRotates
  <2>1. s \notin Ended /\ y \notin Spent
    BY <1>2 DEF RefreshRotates, Ended, Spent
  <2>2. /\ refresh' = [refresh EXCEPT ![x].used = TRUE, ![y].session = s]
        /\ session' = [session EXCEPT ![s] = [session[s] EXCEPT !.current = y,
                                                               !.accessLapsed = FALSE]]
    BY <1>0, <1>2, <2>0 DEF RefreshRotates, Trade
  <2> HIDE DEF s
  <2>3. Tip' = [Tip EXCEPT ![s] = y]
    <3>1. \A t \in Sessions : session'[t].current = IF t = s THEN y ELSE session[t].current
      BY <1>0, <2>0, <2>2 DEF Session
    <3> QED
      BY <1>0, <3>1
  <2>4. Spent' = Spent \cup {y}
    <3>1. \A z \in Pairs : refresh'[z].session = IF z = y THEN s ELSE refresh[z].session
      BY <1>0, <2>2 DEF Refresh
    <3> QED
      BY <2>0, <3>1 DEF Spent, Fresh
  <2>5. Ended' = Ended
    <3>1. \A t \in Sessions : session'[t].revoked = session[t].revoked
      BY <1>0, <2>0, <2>2 DEF Session
    <3> QED
      BY <3>1 DEF Ended
  <2> QED
    BY <2>1, <2>3, <2>4, <2>5 DEF Chain!HandOut, s
<1>3. ASSUME NEW x \in Pairs,
             RefreshReused(x) \/ RefreshLapsed(x) \/ RefreshInactive(x) \/ Logout(x)
      PROVE  \E s \in Sessions : Chain!End(s)
  <2>1. PICK s \in Sessions : /\ session[s].user # NONE
                             /\ \E scope \in {s, session[s].user} : Revoke(s, scope)
                             /\ UNCHANGED <<refresh, told, active>>
    BY <1>3, Endings
  <2>2. Tip[s] # NONE
    BY <1>0, <2>1, SessionsAssumption DEF IInv, Opened
  <2>3. \A t \in Sessions : /\ session'[t].current = session[t].current
                           /\ session'[t].revoked = (session[t].revoked \/ t = s)
    <3>1. session' = [session EXCEPT ![s].revoked = TRUE] /\ session[s] \in Session
      BY <1>0, <2>1 DEF Revoke
    <3> QED
      BY <1>0, <3>1 DEF Session
  <2>4. Tip' = Tip /\ Ended' = Ended \cup {s} /\ Spent' = Spent
    BY <1>0, <2>1, <2>3 DEF Ended, Spent, Fresh
  <2> QED
    BY <2>2, <2>4 DEF Chain!End
<1>4. ASSUME NEW s \in Sessions, LapseAccess(s) \/ LapseSession(s)
      PROVE  UNCHANGED <<Tip, Spent, Ended>>
  <2>1. \A t \in Sessions : /\ session'[t].current = session[t].current
                           /\ session'[t].revoked = session[t].revoked
    BY <1>0, <1>4 DEF LapseAccess, LapseSession, Session
  <2>2. refresh' = refresh
    BY <1>4 DEF LapseAccess, LapseSession
  <2> QED
    BY <1>0, <2>1, <2>2 DEF Ended, Spent, Fresh
<1>5. UNCHANGED <<session, refresh>> => UNCHANGED <<Tip, Spent, Ended>>
  BY <1>0 DEF Ended, Spent, Fresh
<1>6. CASE Announcement \/ (\E u \in Users : DisableAccount(u)) \/ UNCHANGED vars
  BY <1>5, <1>6 DEF Announcement, Announce, DisableAccount, vars
<1>7. ASSUME NEW x \in Pairs, Presentation(x) PROVE Chain!Next
  <2>1. \A y \in Pairs : RefreshRotates(x, y) => refresh[x].session \in Sessions
    BY PresentedOpened DEF RefreshRotates
  <2> QED
    BY <1>2, <1>3, <1>7, <2>1 DEF Presentation, Chain!Next
<1>8. CASE Next
  BY <1>1, <1>4, <1>6, <1>7, <1>8 DEF Next, Chain!Next
<1> QED
  BY <1>6, <1>8

\* No session has opened, none has a tip.
LEMMA ChainInit == Init => Chain!Init
<1> SUFFICES ASSUME Init PROVE Chain!Init
  OBVIOUS
<1>1. Tip = [s \in Sessions |-> NONE] /\ Spent = {} /\ Ended = {}
  BY DEF Init, NoSession, Tip, Spent, Ended, Fresh
<1> QED
  BY <1>1 DEF Chain!Init

\* The sessions promise what TokenChain says: read off the table of refresh
\* credentials, the pairs of a session form one chain of which only the tip is
\* good, and the chain of a session that has ended grows no more.
THEOREM Refinement == Spec => ChainSpec
<1>1. IInv /\ IInv' /\ [Next]_vars => [Chain!Next]_(Chain!chainVars)
  BY ChainStep
<1> QED
  BY <1>1, ChainInit, Invariance, PTL DEF Spec, ChainSpec, Chain!Spec
===============================================================================
