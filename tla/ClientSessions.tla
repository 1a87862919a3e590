---------------------------- MODULE ClientSessions ----------------------------
(***************************************************************************)
(* Signing in and out.  A browser has one cookie and several tabs; a tab   *)
(* remembers who it signed in (AuthContext.tsx), keeps a query cache whose *)
(* keys do not name the user, and learns nothing of the other tabs.  The   *)
(* server takes the user of every request from its cookie, and refuses a   *)
(* user who is no longer active: one of the ways a request fails.          *)
(*                                                                         *)
(* The list of claims stands for all pages behind the sign-in: each role   *)
(* has its own (MyClaimsPage, AssignedClaimsPage, AllClaimsPage), a user   *)
(* is always sent to one of their role, and all share the list's key.      *)
(***************************************************************************)
EXTENDS ClaimStateMachine, FiniteSets

CONSTANTS
  BrowserTabs,
  Slots,        \* for the sign-ins and sign-outs a tab may have under way at a time
  Readers,      \* bound: the tabs that fetch the list; no tab reads that of another
  MaxSignIns    \* bound: MaxSignIns[t] sign-ins and sign-outs of tab t from load to load

ASSUME SignInsAssumption == MaxSignIns \in [BrowserTabs -> Nat]
ASSUME SlotsAssumption   == None \notin Slots

VARIABLES
  cookie,       \* whose token the browser's cookie holds, None if there is no cookie
  tab,          \* tab[t]: the state of a tab
  apart         \* (history) apart[t][k]: the cookie was given to somebody else since it
                \* was of the user Named(tab[t], k)

sessionVars == <<cookie, tab, apart>>

\* path    "login", or "claims": a list of claims
\* boot    the answer to me() is awaited, and bootAs is the user of its cookie then
\* list    whose claims are cached, the sign-in they were asked for in, and whether the
\*         tab and the cookie were apart at the time
\* fetch   likewise, of the request under way
\* job     the logins and logouts under way: "sent", or "head" when the header of the
\*         answer has arrived; `here` as long as the page of the button is shown
NoList == [as |-> None, signIn |-> 0, apart |-> FALSE]

NoFetch == [sent |-> FALSE, as |-> None, signIn |-> 0, apart |-> FALSE]

NoJob == [kind |-> "none", who |-> None, pc |-> "sent", here |-> FALSE]

\* A tab opened or reloaded at path p.
NewTab(p) ==
  [user |-> None, boot |-> TRUE, bootAs |-> cookie, path |-> p, signIns |-> 0,
   list |-> NoList, fetch |-> NoFetch, job |-> [i \in Slots |-> NoJob]]

\* ProtectedRoute and RootRedirect; /login is open to everybody.  The page that shows a
\* button goes when the path changes.
Routed(s, p) ==
  LET path == IF s.user = None THEN "login" ELSE p IN
  [s EXCEPT !.path = path,
            !.job = [i \in Slots |-> [s.job[i] EXCEPT !.here = @ /\ path = s.path]]]

\* Mutant: an account switch keeps what is cached.
ClearedNot(s) == s

\* Mutant: requests under way survive an account switch.
ClearedDataOnly(s) == [s EXCEPT !.list = NoList]

\* queryClient.clear(), which drops requests under way too.
Cleared(s) == [s EXCEPT !.list = NoList, !.fetch = NoFetch]

\* Who is signed in for a tab, and who will be with the answer in slot k.
Named(s, k) ==
  IF k = None THEN IF s.boot THEN s.bootAs ELSE s.user
              ELSE IF s.job[k].pc = "head" THEN s.job[k].who ELSE None

SwitchedTo(s, u) == [Cleared(s) EXCEPT !.user = u, !.signIns = @ + 1]

-----------------------------------------------------------------------------
Load(t, p) ==
  /\ tab' = [tab EXCEPT ![t] = NewTab(p)]
  /\ apart' = [apart EXCEPT ![t] = [k \in Slots \cup {None} |-> FALSE]]
  /\ UNCHANGED cookie

\* The answer to me(), or its failure.
Boot(t) ==
  /\ tab[t].boot
  /\ \E u \in {None, tab[t].bootAs} :
       tab' = [tab EXCEPT ![t] = Routed([@ EXCEPT !.boot = FALSE, !.bootAs = None, !.user = u],
                                              tab[t].path)]
  /\ UNCHANGED <<cookie, apart>>

\* Back and Forward, between pages the tab has visited since it was loaded.
Navigate(t, p) ==
  /\ ~tab[t].boot /\ tab[t].path # p
  /\ tab' = [tab EXCEPT ![t] = Routed(tab[t], p)]
  /\ UNCHANGED <<cookie, apart>>

\* A list is fetched when it is opened, stale, retried or invalidated.
FetchList(t) ==
  /\ ~tab[t].boot /\ tab[t].path # "login" /\ ~tab[t].fetch.sent /\ t \in Readers
  /\ tab' = [tab EXCEPT ![t].fetch =
       [sent |-> TRUE, as |-> cookie, signIn |-> tab[t].signIns, apart |-> apart[t][None]]]
  /\ UNCHANGED <<cookie, apart>>

ListArrives(t) ==
  LET f == tab[t].fetch IN
  /\ f.sent /\ f.as # None
  /\ tab' = [tab EXCEPT ![t].list = [as |-> f.as, signIn |-> f.signIn, apart |-> f.apart],
                        ![t].fetch = NoFetch]
  /\ UNCHANGED <<cookie, apart>>

\* Refused or lost: the cached list stays, and so does the user.
ListFails(t) ==
  /\ tab[t].fetch.sent
  /\ tab' = [tab EXCEPT ![t].fetch = NoFetch]
  /\ UNCHANGED <<cookie, apart>>

Send(t, i, kind, u) ==
  /\ ~tab[t].boot /\ tab[t].job[i] = NoJob
  /\ tab[t].signIns + Cardinality({k \in Slots : tab[t].job[k] # NoJob}) < MaxSignIns[t]
  /\ tab' = [tab EXCEPT ![t].job[i] =
       [kind |-> kind, who |-> u, pc |-> "sent", here |-> kind = "login"]]
  /\ UNCHANGED <<cookie, apart>>

\* onSubmit() of the login page, whose button is disabled while it waits.
Login(t, i, u) ==
  /\ tab[t].path = "login" /\ \A k \in Slots : ~tab[t].job[k].here
  /\ Send(t, i, "login", u)

Logout(t, i) == tab[t].path # "login" /\ Send(t, i, "logout", None)

\* The server accepts, and the header of its answer sets or clears the cookie.
HeadArrives(t, i) ==
  LET job == tab[t].job[i] IN
  /\ job.kind # "none" /\ job.pc = "sent"
  /\ cookie' = job.who
  /\ apart' = [s \in BrowserTabs |-> [k \in Slots \cup {None} |->
       apart[s][k] \/ (job.who \notin {cookie, None} /\ Named(tab[s], k) # None)]]
  /\ tab' = [tab EXCEPT ![t].job[i].pc = "head"]

\* login() and logout() resume with the body of the answer, whatever page is shown by
\* now, and onSubmit() goes on to a page of the user.
BodyArrives(t, i) ==
  LET job == tab[t].job[i]
      s   == SwitchedTo([tab[t] EXCEPT !.job[i] = NoJob], job.who)
  IN
  /\ job.pc = "head"
  /\ tab' = [tab EXCEPT ![t] = Routed(s, IF job.kind = "login" THEN "claims" ELSE s.path)]
  /\ apart' = [apart EXCEPT ![t][None] = apart[t][i], ![t][i] = FALSE]
  /\ UNCHANGED cookie

\* Refused, or the request, its answer or the body of the answer is lost.
JobFails(t, i) ==
  /\ tab[t].job[i].kind # "none"
  /\ tab' = [tab EXCEPT ![t].job[i] = NoJob]
  /\ apart' = [apart EXCEPT ![t][i] = FALSE]
  /\ UNCHANGED cookie

\* The cookie and its token expire together.
Expire ==
  /\ cookie # None
  /\ cookie' = None
  /\ UNCHANGED <<tab, apart>>

-----------------------------------------------------------------------------
SessionInit ==
  /\ cookie \in {None} \cup Users
  /\ tab = [t \in BrowserTabs |-> NewTab("login")]
  /\ apart = [t \in BrowserTabs |-> [k \in Slots \cup {None} |-> FALSE]]

TabStep(t) ==
  \/ \E p \in {"login", "claims"} : Load(t, p) \/ Navigate(t, p)
  \/ Boot(t)
  \/ FetchList(t) \/ ListArrives(t) \/ ListFails(t)
  \/ \E i \in Slots :
       \/ \E u \in Users : Login(t, i, u)
       \/ Logout(t, i)
       \/ HeadArrives(t, i) \/ BodyArrives(t, i) \/ JobFails(t, i)

SessionNext ==
  \/ \E t \in BrowserTabs : TabStep(t)
  \/ Expire

SessionSpec == SessionInit /\ [][SessionNext]_sessionVars

-----------------------------------------------------------------------------
(* Properties.                                                             *)

(* What a tab has cached was asked for since its last sign-in or sign-out: *)
(* "clear it on every account switch within the same tab"                  *)
(* (AuthContext.tsx:33-36), whatever request was under way meanwhile.      *)
CacheIsOfThisSignIn ==
  \A t \in BrowserTabs : tab[t].list.as # None => tab[t].list.signIn = tab[t].signIns

(* The claims in a tab are those of the user it names, unless the tab      *)
(* asked for them while the cookie was somebody else's: because another    *)
(* tab had signed in, or because a login of its own had been accepted, its *)
(* answer had not arrived, or never would, and the user went back from the *)
(* login page to the claims.  An expired cookie, a late answer or a lost   *)
(* one alone never mixes them up (authenticate.ts:9, AuthContext.tsx).     *)
OwnAnswersOnly ==
  \A t \in BrowserTabs :
    tab[t].list.as # None => tab[t].list.as = tab[t].user \/ tab[t].list.apart
=============================================================================
