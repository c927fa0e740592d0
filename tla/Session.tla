------------------------------ MODULE Session -------------------------------
(* The session in the browser: the token and the profile that all tabs share *)
(* in localStorage, the copy that each tab's store took of them, and the API *)
(* calls in flight, of which a 401 ends the session whatever token they had. *)
EXTENDS Naturals, Sequences, FiniteSets

CONSTANTS Tabs, Users,
          MaxLogins,    \* bound: tokens ever issued
          MaxCalls,     \* bound: calls in flight at a time
          None

ASSUME NoneAssumption == None \notin Users \cup Nat
ASSUME BoundsAssumption == MaxLogins \in Nat /\ MaxCalls \in Nat

VARIABLES issued,       \* whose each token is, in the order they were issued
          live,         \* tokens not expired, of accounts that are active
          storage,      \* localStorage: vcm_token and vcm_user
          tab,          \* of each tab: the page it shows and its store
          calls,        \* API calls not answered yet
          mixed,        \* a login was answered while a token was stored (ghost)
          foreign       \* tabs whose page is older than another tab's last
                        \* change of localStorage (ghost)

vars == <<issued, live, storage, tab, calls, mixed, foreign>>

Tokens    == DOMAIN issued
SignedOut == [token |-> None, user |-> None]

HeaderOfStore(t, explicit) ==    \* mutant: the token of the tab's store
  IF tab[t].auth.token = None THEN explicit ELSE tab[t].auth.token

\* The interceptor puts the stored token, if there is one, over whatever header
\* the caller has set.
Header(t, explicit) == IF storage.token = None THEN explicit ELSE storage.token

\* A call as it is sent; one whose token was live then may be accepted later.
Call(t, kind, about, token, known) ==
  [tab |-> t, kind |-> kind, about |-> about, token |-> token, valid |-> token \in known]

Others(t) == {c \in calls : c.tab # t}

\* Tab t has written localStorage.
Written(t, auth) ==
  /\ storage' = auth
  /\ foreign' = {s \in Tabs \ {t} : tab[s].page # "closed"}

Init ==
  /\ issued = <<>> /\ live = {} /\ storage = SignedOut /\ calls = {}
  /\ tab = [t \in Tabs |-> [page |-> "closed", auth |-> SignedOut]]
  /\ mixed = FALSE /\ foreign = {}
-----------------------------------------------------------------------------
(* Pages *)

\* A tab opens or reloads a page: its calls are gone, its store is read from
\* localStorage, and a page behind ProtectedRoute, which asks for a token and no
\* more, fetches what it shows.
Load(t, page) ==
  /\ page = "app" => storage.token # None
  /\ tab' = [tab EXCEPT ![t] = [page |-> page, auth |-> storage]]
  /\ calls' = Others(t) \cup {c \in {Call(t, "query", None, storage.token, live)} : page = "app"}
  /\ foreign' = foreign \ {t}
  /\ UNCHANGED <<issued, live, storage, mixed>>

\* Back and forward between the login page and the others, without a reload.
Navigate(t) ==
  /\ tab[t].page = "app" \/ (tab[t].page = "login" /\ tab[t].auth.token # None)
  /\ tab' = [tab EXCEPT ![t].page = IF @ = "app" THEN "login" ELSE "app"]
  /\ UNCHANGED <<issued, live, storage, calls, mixed, foreign>>

\* Whatever a page asks of the API.
Query(t) ==
  /\ tab[t].page = "app"
  /\ Cardinality(calls) < MaxCalls
  /\ calls' = calls \cup {Call(t, "query", None, Header(t, None), live)}
  /\ UNCHANGED <<issued, live, storage, tab, mixed, foreign>>

\* logout and navigate('/login'): the token is forgotten and not revoked, the
\* calls in flight go on.
Logout(t) ==
  /\ tab[t].page = "app"
  /\ tab' = [tab EXCEPT ![t] = [page |-> "login", auth |-> SignedOut]]
  /\ Written(t, SignedOut)
  /\ UNCHANGED <<issued, live, calls, mixed>>
-----------------------------------------------------------------------------
(* Login *)

Submit(t, u) ==
  /\ tab[t].page = "login"
  /\ Cardinality(calls) < MaxCalls
  /\ calls' = calls \cup {Call(t, "login", u, Header(t, None), live)}
  /\ UNCHANGED <<issued, live, storage, tab, mixed, foreign>>

\* A new token is answered, and the page asks whose profile goes with it.
LoginAccepted(c) ==
  /\ c.kind = "login" /\ Len(issued) < MaxLogins
  /\ LET k == Len(issued) + 1
     IN /\ issued' = Append(issued, c.about)
        /\ live' = live \cup {k}
        /\ calls' = (calls \ {c}) \cup {Call(c.tab, "me", k, Header(c.tab, k), live')}
  /\ mixed' = (mixed \/ storage.token # None)
  /\ UNCHANGED <<storage, tab, foreign>>

\* setAuth with the new token and the profile of whoever the call was from, and
\* navigate('/dashboard').
Profile(c) ==
  /\ c.kind = "me" /\ c.valid
  /\ LET auth == [token |-> c.about, user |-> issued[c.token]]
     IN /\ Written(c.tab, auth)
        /\ tab' = [tab EXCEPT ![c.tab] = [page |-> "app", auth |-> auth]]
  /\ calls' = calls \ {c}
  /\ UNCHANGED <<issued, live, mixed>>
-----------------------------------------------------------------------------
(* Answers *)

\* A query is answered, with 403 if it has no token or the role does not do.
Answered(c) ==
  /\ c.kind = "query" /\ (c.valid \/ c.token = None)
  /\ calls' = calls \ {c}
  /\ UNCHANGED <<issued, live, storage, tab, mixed, foreign>>

ExpelInPlace(t) ==              \* mutant: navigate for window.location
  /\ Written(t, SignedOut)
  /\ tab' = [tab EXCEPT ![t].page = "login"]
  /\ UNCHANGED <<issued, live, calls, mixed>>

\* The response interceptor on a 401: localStorage is cleared and the login page
\* loaded, which ends the other calls of the tab.
Expel(t) ==
  /\ Written(t, SignedOut)
  /\ tab' = [tab EXCEPT ![t] = [page |-> "login", auth |-> SignedOut]]
  /\ calls' = Others(t)
  /\ UNCHANGED <<issued, live, mixed>>

RefusedForbidden(c) ==          \* mutant: 403 as 401
  /\ c.kind = "login" \/ c.token \notin live \/ c.kind = "query"
  /\ Expel(c.tab)

RefusedUnheard(c) ==            \* mutant: no interceptor for a 401
  /\ c.kind = "login" \/ (c.token # None /\ c.token \notin live)
  /\ calls' = calls \ {c}
  /\ UNCHANGED <<issued, live, storage, tab, mixed, foreign>>

\* 401: a wrong password, or a token that is dead.  Whose, and how old the call
\* is, is not looked at.
Refused(c) ==
  /\ c.kind = "login" \/ (c.token # None /\ c.token \notin live)
  /\ Expel(c.tab)

Answer(c) == LoginAccepted(c) \/ Profile(c) \/ Answered(c) \/ Refused(c)

\* A token expires, or its account is deactivated.
Expire(k) ==
  /\ k \in live
  /\ live' = live \ {k}
  /\ UNCHANGED <<issued, storage, tab, calls, mixed, foreign>>

Next ==
  \/ \E t \in Tabs : \/ \E page \in {"login", "app"} : Load(t, page)
                     \/ Navigate(t) \/ Query(t) \/ Logout(t)
                     \/ \E u \in Users : Submit(t, u)
  \/ \E c \in calls : Answer(c)
  \/ \E k \in live : Expire(k)

Spec == Init /\ [][Next]_vars

\* Calls are answered.  Of a tab's, the ones that cannot be accepted are meant;
\* users, reloads and expiry owe nothing.
FairSpec ==
  Spec /\ \A t \in Tabs : WF_vars(\E c \in calls : c.tab = t /\ ~c.valid /\ Answer(c))
-----------------------------------------------------------------------------
(* Properties *)

Auths == [token : Tokens \cup {None}, user : Users \cup {None}]

CallsOf(kind, about) == [tab : Tabs, kind : {kind}, about : about,
                         token : Tokens \cup {None}, valid : BOOLEAN]

TypeOK ==
  /\ issued \in Seq(Users) /\ live \subseteq Tokens
  /\ storage \in Auths
  /\ tab \in [Tabs -> [page : {"closed", "login", "app"}, auth : Auths]]
  /\ calls \subseteq CallsOf("query", {None}) \cup CallsOf("login", Users) \cup CallsOf("me", Tokens)
  /\ mixed \in BOOLEAN /\ foreign \subseteq Tabs

\* The profile kept with a token is its owner's, in localStorage and in every
\* tab, as long as nobody has logged in over a session that was stored: logging
\* out and in again, in any tabs, is safe.
Own(auth) == IF auth.token = None THEN auth.user = None ELSE auth.user = issued[auth.token]
OwnProfile == ~mixed => Own(storage) /\ \A t \in Tabs : Own(tab[t].auth)

\* A page acts as the user it shows, unless another tab has logged in or out
\* since it was loaded or logged in itself.
ActsAsShown == \A t \in Tabs :
  tab[t].page = "app" /\ t \notin foreign => tab[t].auth = storage

\* A session whose token is live is forgotten on a logout, a failed login or
\* the refusal of a call that had an earlier token, and on nothing else.
SessionKept == [][
  storage.token \in live /\ storage'.token = None =>
    \/ \E t \in Tabs : Logout(t)
    \/ \E c \in calls : Refused(c) /\ (c.kind = "login" \/ c.token # storage.token)]_vars

\* A page that asks with a token that is dead ends at the login page, unless
\* another session has replaced the dead one by then.
DeadSessionLeaves == \A t \in Tabs, k \in 1 .. MaxLogins :
  (tab[t].page = "app" /\ \E c \in calls : c.tab = t /\ c.token = k /\ ~c.valid)
    ~> (tab[t].page # "app" \/ storage.token # k)
=============================================================================
