---------------------------- MODULE SessionProofs ----------------------------
(* Theorems of Session, for any tabs and users and any bounds. *)
EXTENDS Session, TLAPS

-----------------------------------------------------------------------------
(* The inductive invariant *)

\* What was accepted had a token; and the call that asks for the profile has the
\* token that was just answered, unless another was stored.
CallsKnown == \A c \in calls : /\ c.valid => c.token \in Tokens
                               /\ c.kind = "me" /\ ~mixed => c.token = c.about

\* As ActsAsShown, of the login page as well.
InStep == \A t \in Tabs :
  tab[t].page # "closed" /\ t \notin foreign => tab[t].auth = storage

IInv == TypeOK /\ CallsKnown /\ OwnProfile /\ InStep

\* What Own, the types and the calls are about is only ever added to.
LEMMA IssuedGrows ==
  ASSUME TypeOK, NEW c \in calls, LoginAccepted(c)
  PROVE  /\ c.about \in Users /\ issued' \in Seq(Users)
         /\ Tokens' = Tokens \cup {Len(issued) + 1} /\ Len(issued) + 1 \notin Tokens
         /\ \A k \in Tokens : issued'[k] = issued[k]
         /\ None \notin Tokens'
<1>1. c.kind = "login"
  BY DEF LoginAccepted
<1>2. c.about \in Users
  BY <1>1 DEF TypeOK, CallsOf
<1>3. issued' = Append(issued, c.about)
  BY DEF LoginAccepted
<1> QED
  BY <1>2, <1>3, NoneAssumption DEF TypeOK, Tokens

\* A call is sent with a token that is known, and is about what it says.
LEMMA CallType ==
  ASSUME TypeOK, NEW t \in Tabs, NEW kind, NEW A, NEW about \in A,
         NEW token \in Tokens \cup {None}
  PROVE  /\ Call(t, kind, about, token, live) \in CallsOf(kind, A)
         /\ Call(t, kind, about, token, live).valid => token \in Tokens
         /\ Call(t, kind, about, token, live).kind = kind
<1> DEFINE valid == token \in live
<1>1. valid \in BOOLEAN
  OBVIOUS
<1>2. ASSUME NEW v \in BOOLEAN
      PROVE  [tab |-> t, kind |-> kind, about |-> about, token |-> token, valid |-> v]
               \in [tab : Tabs, kind : {kind}, about : A, token : Tokens \cup {None}, valid : BOOLEAN]
  OBVIOUS
<1>3. token \in live => token \in Tokens
  BY DEF TypeOK
<1> QED
  BY <1>1, <1>2, <1>3, Zenon DEF Call, CallsOf

\* Nobody has called or stored anything at first.
LEMMA InitIInv == Init => IInv
<1> SUFFICES ASSUME Init PROVE IInv
  OBVIOUS
<1>1. SignedOut \in Auths
  BY DEF SignedOut, Auths
<1>2. issued \in Seq(Users) /\ live \subseteq Tokens
  BY DEF Init
<1>3. tab \in [Tabs -> [page : {"closed", "login", "app"}, auth : Auths]]
  BY <1>1 DEF Init
<1>4. TypeOK
  BY <1>1, <1>2, <1>3 DEF Init, TypeOK
<1>5. CallsKnown /\ OwnProfile /\ InStep
  BY DEF Init, CallsKnown, OwnProfile, InStep, Own, SignedOut
<1> QED
  BY <1>4, <1>5 DEF IInv

\* One step of a tab, of the API or of the clock keeps the invariant.
LEMMA StepIInv == IInv /\ [Next]_vars => IInv'
<1> SUFFICES ASSUME IInv, [Next]_vars PROVE IInv'
  OBVIOUS
<1> USE DEF IInv
<1>0. /\ storage \in Auths /\ SignedOut \in Auths /\ None \notin Tokens
      /\ storage.token \in Tokens \cup {None} /\ Own(SignedOut)
  BY NoneAssumption DEF TypeOK, Auths, SignedOut, Own, Tokens
<1>1. ASSUME NEW t \in Tabs, NEW page \in {"login", "app"}, Load(t, page)
      PROVE  IInv'
  <2> DEFINE new == Call(t, "query", None, storage.token, live)
  <2>0. /\ new \in CallsOf("query", {None}) /\ (new.valid => new.token \in Tokens)
        /\ new.kind = "query"
    <3>1. new.token = storage.token
      BY DEF Call
    <3>2. storage.token \in Tokens \cup {None}
      BY <1>0
    <3> QED
      BY <3>1, <3>2, CallType, Zenon
  <2> HIDE DEF new
  <2>1. UNCHANGED <<issued, live, storage, mixed>>
    BY <1>1 DEF Load
  <2>2. tab' = [tab EXCEPT ![t] = [page |-> page, auth |-> storage]] /\ foreign' = foreign \ {t}
    BY <1>1 DEF Load
  <2>3. \A c \in calls' : c \in calls \/ c = new
    BY <1>1 DEF Load, Others, new
  <2>4. TypeOK'
    <3>1. tab' \in [Tabs -> [page : {"closed", "login", "app"}, auth : Auths]]
      BY <1>0, <2>2 DEF TypeOK
    <3>2. calls' \subseteq CallsOf("query", {None}) \cup CallsOf("login", Users) \cup CallsOf("me", Tokens)
      BY <2>0, <2>3 DEF TypeOK
    <3> QED
      BY <2>1, <2>2, <3>1, <3>2 DEF TypeOK, Auths, CallsOf, Tokens
  <2>5. CallsKnown'
    BY <2>0, <2>1, <2>3 DEF CallsKnown, Tokens
  <2>6. OwnProfile'
    BY <2>1, <2>2 DEF OwnProfile, Own, TypeOK
  <2>7. InStep'
    BY <2>1, <2>2 DEF InStep, TypeOK
  <2> QED
    BY <2>4, <2>5, <2>6, <2>7
<1>2. ASSUME NEW t \in Tabs, Navigate(t)
      PROVE  IInv'
  <2>1. UNCHANGED <<issued, live, storage, calls, mixed, foreign>>
    BY <1>2 DEF Navigate
  <2>2. tab' = [tab EXCEPT ![t].page = IF @ = "app" THEN "login" ELSE "app"] /\ tab[t].page # "closed"
    BY <1>2 DEF Navigate
  <2>3. \A s \in Tabs : tab'[s].auth = tab[s].auth /\ (tab'[s].page = "closed" <=> tab[s].page = "closed")
    BY <2>2 DEF TypeOK
  <2>4. TypeOK'
    BY <2>1, <2>2 DEF TypeOK, Auths, CallsOf, Tokens
  <2> QED
    BY <2>1, <2>3, <2>4 DEF CallsKnown, OwnProfile, Own, InStep, Tokens
<1>3. ASSUME NEW t \in Tabs, Query(t)
      PROVE  IInv'
  <2>1. UNCHANGED <<issued, live, storage, tab, mixed, foreign>>
    BY <1>3 DEF Query
  <2> DEFINE new == Call(t, "query", None, Header(t, None), live)
  <2>2. calls' = calls \cup {new}
    BY <1>3 DEF Query
  <2>3. Header(t, None) \in Tokens \cup {None}
    BY <1>0 DEF Header
  <2>4. /\ new \in CallsOf("query", {None}) /\ (new.valid => new.token \in Tokens)
        /\ new.kind = "query"
    <3>1. new.token = Header(t, None)
      BY DEF Call
    <3> QED
      BY <2>3, <3>1, CallType, Zenon
  <2> HIDE DEF new
  <2>5. TypeOK'
    BY <2>1, <2>2, <2>4 DEF TypeOK, Auths, CallsOf, Tokens
  <2>6. CallsKnown'
    BY <2>1, <2>2, <2>4 DEF CallsKnown, Tokens
  <2> QED
    BY <2>1, <2>5, <2>6 DEF OwnProfile, Own, InStep
<1>4. ASSUME NEW t \in Tabs, NEW auth \in Auths, Written(t, auth),
             UNCHANGED <<issued, live, mixed>>, calls' \subseteq calls,
             NEW page \in {"login", "app"},
             tab' = [tab EXCEPT ![t] = [page |-> page, auth |-> auth]],
             ~mixed => Own(auth)
      PROVE  IInv'
  <2>1. TypeOK'
    BY <1>4 DEF TypeOK, Auths, CallsOf, Tokens, Written
  <2>2. CallsKnown'
    BY <1>4 DEF CallsKnown, Tokens
  <2>3. OwnProfile'
    BY <1>4 DEF OwnProfile, Own, Written, TypeOK
  <2>4. InStep'
    BY <1>4 DEF InStep, Written, TypeOK
  <2> QED
    BY <2>1, <2>2, <2>3, <2>4
<1>5. ASSUME NEW t \in Tabs, Logout(t)
      PROVE  IInv'
  BY <1>0, <1>4, <1>5 DEF Logout
<1>6. ASSUME NEW t \in Tabs, NEW u \in Users, Submit(t, u)
      PROVE  IInv'
  <2>1. UNCHANGED <<issued, live, storage, tab, mixed, foreign>>
    BY <1>6 DEF Submit
  <2> DEFINE new == Call(t, "login", u, Header(t, None), live)
  <2>2. calls' = calls \cup {new}
    BY <1>6 DEF Submit
  <2>3. Header(t, None) \in Tokens \cup {None}
    BY <1>0 DEF Header
  <2>4. /\ new \in CallsOf("login", Users) /\ (new.valid => new.token \in Tokens)
        /\ new.kind = "login"
    <3>1. new.token = Header(t, None)
      BY DEF Call
    <3> QED
      BY <2>3, <3>1, CallType, Zenon
  <2> HIDE DEF new
  <2>5. TypeOK'
    BY <2>1, <2>2, <2>4 DEF TypeOK, Auths, CallsOf, Tokens
  <2>6. CallsKnown'
    BY <2>1, <2>2, <2>4 DEF CallsKnown, Tokens
  <2> QED
    BY <2>1, <2>5, <2>6 DEF OwnProfile, Own, InStep
<1>7. ASSUME NEW c \in calls, LoginAccepted(c)
      PROVE  IInv'
  <2> DEFINE k == Len(issued) + 1
             new == Call(c.tab, "me", k, Header(c.tab, k), live')
  <2>1. /\ c.about \in Users /\ issued' \in Seq(Users) /\ c.tab \in Tabs
        /\ Tokens' = Tokens \cup {k} /\ k \notin Tokens /\ None \notin Tokens'
        /\ \A i \in Tokens : issued'[i] = issued[i]
    BY <1>7, IssuedGrows DEF TypeOK, CallsOf
  <2>2. /\ live' = live \cup {k} /\ UNCHANGED <<storage, tab, foreign>>
        /\ calls' = (calls \ {c}) \cup {new}
        /\ mixed' = (mixed \/ storage.token # None)
    BY <1>7 DEF LoginAccepted
  <2>3. /\ new.kind = "me" /\ new.token = Header(c.tab, k) /\ new.about = k
        /\ new.valid = (Header(c.tab, k) \in live')
        /\ Header(c.tab, k) \in Tokens'
    BY <1>0, <2>1 DEF Call, Header
  <2>4. new \in [tab : Tabs, kind : {"me"}, about : Tokens', token : Tokens' \cup {None}, valid : BOOLEAN]
    <3>1. ASSUME NEW h \in Tokens', NEW v \in BOOLEAN
          PROVE  [tab |-> c.tab, kind |-> "me", about |-> k, token |-> h, valid |-> v]
                   \in [tab : Tabs, kind : {"me"}, about : Tokens', token : Tokens' \cup {None}, valid : BOOLEAN]
      BY <2>1
    <3> DEFINE valid == Header(c.tab, k) \in live'
    <3>2. valid \in BOOLEAN
      OBVIOUS
    <3> QED
      BY <2>3, <3>1, <3>2, Zenon DEF Call
  <2> HIDE DEF new
  <2>5. TypeOK'
    <3>1. storage' \in Auths' /\ tab' \in [Tabs -> [page : {"closed", "login", "app"}, auth : Auths']]
      BY <2>1, <2>2 DEF TypeOK, Auths
    <3>2. calls' \subseteq CallsOf("query", {None})' \cup CallsOf("login", Users)' \cup CallsOf("me", Tokens)'
      BY <2>1, <2>2, <2>4 DEF TypeOK, CallsOf
    <3>3. mixed' \in BOOLEAN
      BY <2>2
    <3> QED
      BY <2>1, <2>2, <3>1, <3>2, <3>3 DEF TypeOK
  <2>6. CallsKnown'
    <3>1. ASSUME NEW d \in calls', ~mixed', d.kind = "me" PROVE d.token = d.about
      <4>1. ~mixed /\ storage.token = None
        BY <2>2, <3>1
      <4>2. Header(c.tab, k) = k
        BY <4>1 DEF Header
      <4> QED
        BY <2>2, <2>3, <3>1, <4>1, <4>2 DEF CallsKnown
    <3>2. ASSUME NEW d \in calls', d.valid PROVE d.token \in Tokens'
      BY <2>1, <2>2, <2>3, <3>2 DEF CallsKnown
    <3> QED
      BY <3>1, <3>2 DEF CallsKnown
  <2>7. OwnProfile'
    BY <2>1, <2>2 DEF OwnProfile, Own, TypeOK, Auths
  <2>8. InStep'
    BY <2>2 DEF InStep
  <2> QED
    BY <2>5, <2>6, <2>7, <2>8
<1>8. ASSUME NEW c \in calls, Profile(c)
      PROVE  IInv'
  <2> DEFINE auth == [token |-> c.about, user |-> issued[c.token]]
  <2>1. c.tab \in Tabs /\ c.about \in Tokens /\ c.token \in Tokens /\ (~mixed => c.token = c.about)
    BY <1>8 DEF Profile, TypeOK, CallsOf, CallsKnown
  <2>2. auth \in Auths /\ (~mixed => Own(auth))
    BY <1>0, <2>1 DEF Auths, Own, TypeOK, Tokens
  <2>3. /\ Written(c.tab, auth) /\ calls' \subseteq calls /\ UNCHANGED <<issued, live, mixed>>
        /\ tab' = [tab EXCEPT ![c.tab] = [page |-> "app", auth |-> auth]]
    BY <1>8 DEF Profile
  <2> QED
    BY <1>4, <2>1, <2>2, <2>3
<1>9. ASSUME NEW c \in calls, Answered(c)
      PROVE  IInv'
  BY <1>9 DEF Answered, TypeOK, CallsKnown, OwnProfile, InStep, Own, Auths, CallsOf, Tokens
<1>10. ASSUME NEW c \in calls, Refused(c)
       PROVE  IInv'
  <2>1. c.tab \in Tabs
    BY DEF TypeOK, CallsOf
  <2> QED
    BY <1>0, <1>4, <1>10, <2>1 DEF Refused, Expel, Others
<1>11. ASSUME NEW k \in live, Expire(k)
       PROVE  IInv'
  BY <1>11 DEF Expire, TypeOK, CallsKnown, OwnProfile, InStep, Own, Auths, CallsOf, Tokens
<1>12. CASE UNCHANGED vars
  BY <1>12 DEF vars, TypeOK, CallsKnown, OwnProfile, InStep, Own, Auths, CallsOf, Tokens
<1> QED
  BY <1>1, <1>2, <1>3, <1>5, <1>6, <1>7, <1>8, <1>9, <1>10, <1>11, <1>12 DEF Next, Answer
-----------------------------------------------------------------------------
(* Theorems *)

\* What holds of the browser's tabs, over any logins, reloads and answers.
THEOREM Invariance == Spec => []IInv
  BY InitIInv, StepIInv, PTL DEF Spec

\* Tokens, stores and calls keep their types.
THEOREM TypeCorrect == Spec => []TypeOK
<1>1. IInv => TypeOK
  BY DEF IInv
<1> QED
  BY <1>1, Invariance, PTL

\* As long as no login is answered while a token is stored, no tab keeps
\* another's profile with a token.
THEOREM ProfilesOwn == Spec => []OwnProfile
<1>1. IInv => OwnProfile
  BY DEF IInv
<1> QED
  BY <1>1, Invariance, PTL

\* A tab whose page is not older than another tab's last login or logout asks the
\* API as the user it shows.
THEOREM TabsInStep == Spec => []ActsAsShown
<1>1. IInv => ActsAsShown
  BY DEF IInv, InStep, ActsAsShown
<1> QED
  BY <1>1, Invariance, PTL

\* A 401 ends a live session only if it answers a failed login or a call that had
\* another token.
THEOREM KeptWhileLive == Spec => SessionKept
<1> DEFINE Kept == storage.token \in live /\ storage'.token = None =>
              \/ \E t \in Tabs : Logout(t)
              \/ \E c \in calls : Refused(c) /\ (c.kind = "login" \/ c.token # storage.token)
<1>1. IInv /\ [Next]_vars => [Kept]_vars
  <2> SUFFICES ASSUME IInv, Next, storage.token \in live, storage'.token = None
               PROVE  Kept
    BY DEF Kept
  <2>1. storage.token # None /\ None \notin Tokens
    BY NoneAssumption DEF IInv, TypeOK, Tokens
  <2>2. storage' # storage
    BY <2>1
  <2>3. ASSUME NEW c \in calls, Profile(c) PROVE FALSE
    BY <2>1, <2>3 DEF Profile, Written, IInv, TypeOK, CallsOf
  <2>4. ASSUME NEW c \in calls, Refused(c)
        PROVE  c.kind = "login" \/ c.token # storage.token
    BY <2>4 DEF Refused
  <2> QED
    BY <2>2, <2>3, <2>4 DEF Next, Load, Navigate, Query, Submit, Answer, LoginAccepted,
       Answered, Expire
<1> QED
  BY <1>1, Invariance, PTL DEF Spec, SessionKept, Kept
=============================================================================
