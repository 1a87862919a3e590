----------------------------- MODULE ClientProofs -----------------------------
(***************************************************************************)
(* Proofs about the web client, for any number of tabs, users and          *)
(* handlers.                                                               *)
(*                                                                         *)
(* Sessions: what a tab shows was asked for under its last sign-in, and by *)
(* the user it names unless the cookie was somebody else's then.  A tab    *)
(* with no user holds no data; otherwise its user is whom the cookie       *)
(* stands for, or the cookie has expired, or it was given to somebody      *)
(* else, and likewise for the user of an answer whose body is awaited.     *)
(*                                                                         *)
(* The pages of a claim: what they offer is what the server accepts, with  *)
(* two exceptions, and they show every change their own user was told had  *)
(* succeeded, unless an answer served before the change outran the mark of *)
(* a page that had been left.  Any other answer on its way is of after the *)
(* last such change, and so is a cached claim that is not marked stale;    *)
(* the page of a claim that is stale, or not there, is fetching it or      *)
(* shows an error.                                                         *)
(***************************************************************************)
EXTENDS ClientSessions, ClientRequests, SequenceTheorems, TLAPS

Somebody == Users \cup {None}

Paths == {"login", "claims"}

ListRows  == [as : Somebody, signIn : Nat, apart : BOOLEAN]
FetchRows == [sent : BOOLEAN, as : Somebody, signIn : Nat, apart : BOOLEAN]
JobRows   == [kind : {"none", "login", "logout"}, who : Somebody, pc : {"sent", "head"},
              here : BOOLEAN]

TabRows ==
  [user : Somebody, boot : BOOLEAN, bootAs : Somebody, path : Paths, signIns : Nat,
   list : ListRows, fetch : FetchRows, job : [Slots -> JobRows]]

ApartRows == [Slots \cup {None} -> BOOLEAN]

SessionTypeInv ==
  /\ cookie \in Somebody
  /\ apart \in [BrowserTabs -> ApartRows]
  /\ tab \in [BrowserTabs -> TabRows]

(* The cookie c is that of u, or gone, unless o: it was given to another.  *)
Agrees(c, u, o) == c \in {u, None} \/ o

(* What holds of a login or logout j, with cookie c, when o.               *)
SignInInv(j, c, o) ==
  /\ j.kind = "login" => j.who # None /\ (j.pc = "head" => Agrees(c, j.who, o))
  /\ j.kind = "logout" => j.who = None
  /\ j.kind = "none" => j.pc = "sent"

(* What holds of a tab in state s, with cookie c and history h.            *)
TabInv(s, c, h) ==
  /\ s.boot \/ s.user = None => s.list.as = None /\ ~s.fetch.sent
  /\ s.boot /\ s.bootAs # None => Agrees(c, s.bootAs, h[None])
  /\ ~s.boot /\ s.user # None => Agrees(c, s.user, h[None])
  /\ ~s.boot /\ s.user = None => s.path = "login"
  /\ \A i \in Slots : SignInInv(s.job[i], c, h[i]) /\ (s.boot => s.job[i].kind = "none")
  /\ s.list.as # None => s.list.signIn = s.signIns /\ (s.list.as = s.user \/ s.list.apart)
  /\ s.fetch.sent => s.fetch.signIn = s.signIns /\ Agrees(s.fetch.as, s.user, s.fetch.apart)

SessionInv == SessionTypeInv /\ \A t \in BrowserTabs : TabInv(tab[t], cookie, apart[t])

-----------------------------------------------------------------------------
(* The empty values have their types.                                      *)
LEMMA EmptyTypes == NoList \in ListRows /\ NoFetch \in FetchRows /\ NoJob \in JobRows
BY DEF NoList, NoFetch, NoJob, ListRows, FetchRows, JobRows, Somebody

(* A tab that is loading satisfies its part of the invariant.              *)
LEMMA NewTabFits ==
  ASSUME cookie \in Somebody, NEW p \in Paths
  PROVE  /\ NewTab(p) \in TabRows
         /\ [k \in Slots \cup {None} |-> FALSE] \in ApartRows
         /\ TabInv(NewTab(p), cookie, [k \in Slots \cup {None} |-> FALSE])
<1>1. NewTab(p) \in TabRows
  BY EmptyTypes DEF NewTab, TabRows, Somebody
<1>2. [k \in Slots \cup {None} |-> FALSE] \in ApartRows
  BY DEF ApartRows
<1>3. TabInv(NewTab(p), cookie, [k \in Slots \cup {None} |-> FALSE])
  BY DEF TabInv, SignInInv, Agrees, NewTab, NoList, NoFetch, NoJob
<1> QED BY <1>1, <1>2, <1>3

LEMMA SessionInitInv == SessionInit => SessionInv
<1> SUFFICES ASSUME SessionInit PROVE SessionInv
  OBVIOUS
<1>1. cookie \in Somebody
  BY DEF SessionInit, Somebody
<1>2. "login" \in Paths
  BY DEF Paths
<1> QED BY <1>1, <1>2, NewTabFits DEF SessionInit, SessionInv, SessionTypeInv

(* A step that only changes tab t, into a state that fits the cookie.      *)
LEMMA TabStepInv ==
  ASSUME SessionInv, NEW t \in BrowserTabs, NEW s \in TabRows, NEW h \in ApartRows,
         tab' = [tab EXCEPT ![t] = s], apart' = [apart EXCEPT ![t] = h],
         UNCHANGED cookie, TabInv(s, cookie, h)
  PROVE  SessionInv'
<1>1. /\ tab'[t] = s /\ \A r \in BrowserTabs \ {t} : tab'[r] = tab[r]
      /\ apart'[t] = h /\ \A r \in BrowserTabs \ {t} : apart'[r] = apart[r]
  BY DEF SessionInv, SessionTypeInv
<1>2. SessionTypeInv'
  BY DEF SessionInv, SessionTypeInv
<1>3. ASSUME NEW r \in BrowserTabs PROVE TabInv(tab'[r], cookie', apart'[r])
  BY <1>1 DEF SessionInv
<1> QED BY <1>2, <1>3 DEF SessionInv

(* The same when the history of the tab stays as it is.                    *)
LEMMA QuietTabStepInv ==
  ASSUME SessionInv, NEW t \in BrowserTabs, NEW s \in TabRows,
         tab' = [tab EXCEPT ![t] = s], UNCHANGED <<cookie, apart>>,
         TabInv(s, cookie, apart[t])
  PROVE  SessionInv'
<1>1. apart[t] \in ApartRows /\ apart' = [apart EXCEPT ![t] = apart[t]]
  BY DEF SessionInv, SessionTypeInv
<1> QED BY <1>1, TabStepInv

(* Loading or reloading a page keeps the invariant.                        *)
LEMMA LoadInv ==
  ASSUME SessionInv, NEW t \in BrowserTabs, NEW p \in Paths, Load(t, p)
  PROVE  SessionInv'
BY NewTabFits, TabStepInv DEF Load, SessionInv, SessionTypeInv

(* A tab that is routed to a page.                                         *)
LEMMA RoutedFits ==
  ASSUME NEW s \in TabRows, NEW p \in Paths, NEW c, NEW h \in ApartRows, ~s.boot,
         s.user = None => s.list.as = None /\ ~s.fetch.sent,
         s.user # None => Agrees(c, s.user, h[None]),
         \A i \in Slots : SignInInv(s.job[i], c, h[i]),
         s.list.as # None => s.list.signIn = s.signIns /\ (s.list.as = s.user \/ s.list.apart),
         s.fetch.sent => s.fetch.signIn = s.signIns /\ Agrees(s.fetch.as, s.user, s.fetch.apart)
  PROVE  Routed(s, p) \in TabRows /\ TabInv(Routed(s, p), c, h)
<1>1. PICK path : path = IF s.user = None THEN "login" ELSE p
  OBVIOUS
<1>2. PICK jobOf : jobOf = [i \in Slots |-> [s.job[i] EXCEPT !.here = @ /\ path = s.path]]
  OBVIOUS
<1>3. path \in Paths
  BY <1>1 DEF Paths
<1>4. ASSUME NEW i \in Slots
      PROVE  /\ jobOf[i] \in JobRows
             /\ jobOf[i].kind = s.job[i].kind /\ jobOf[i].who = s.job[i].who
             /\ jobOf[i].pc = s.job[i].pc
  <2>1. s.job[i] \in JobRows
    BY DEF TabRows
  <2>2. jobOf[i] = [s.job[i] EXCEPT !.here = s.job[i].here /\ path = s.path]
    BY <1>2
  <2>3. PICK b \in BOOLEAN : b = (s.job[i].here /\ path = s.path)
    OBVIOUS
  <2>4. jobOf[i] = [s.job[i] EXCEPT !.here = b]
    BY <2>2, <2>3
  <2> QED BY <2>1, <2>4 DEF JobRows
<1>5. jobOf \in [Slots -> JobRows]
  BY <1>2, <1>4
<1>6. Routed(s, p) = [s EXCEPT !.path = path, !.job = jobOf]
  BY <1>1, <1>2 DEF Routed
<1>7. PICK r : r = [s EXCEPT !.path = path, !.job = jobOf]
  OBVIOUS
<1>8. r \in TabRows
  BY <1>3, <1>5, <1>7 DEF TabRows
<1>9. /\ r.user = s.user /\ ~r.boot /\ r.path = path /\ r.job = jobOf
      /\ r.signIns = s.signIns /\ r.list = s.list /\ r.fetch = s.fetch
  BY <1>7 DEF TabRows
<1>10. \A i \in Slots : SignInInv(r.job[i], c, h[i])
  BY <1>4, <1>9 DEF SignInInv
<1>11. TabInv(r, c, h)
  BY <1>1, <1>9, <1>10 DEF TabInv
<1> QED BY <1>6, <1>7, <1>8, <1>11

(* The answer to me() keeps the invariant.                                 *)
LEMMA BootInv ==
  ASSUME SessionInv, NEW t \in BrowserTabs, Boot(t)
  PROVE  SessionInv'
<1> USE DEF SessionInv, SessionTypeInv
<1>1. PICK u \in {None, tab[t].bootAs} :
        tab' = [tab EXCEPT ![t] = Routed([@ EXCEPT !.boot = FALSE, !.bootAs = None, !.user = u],
                                         tab[t].path)]
  BY DEF Boot
<1>2. PICK s : s = [tab[t] EXCEPT !.boot = FALSE, !.bootAs = None, !.user = u]
  OBVIOUS
<1>3. tab[t] \in TabRows /\ tab[t].path \in Paths /\ u \in Somebody
  BY DEF TabRows, Somebody
<1>4. s \in TabRows
  BY <1>2, <1>3 DEF TabRows, Somebody
<1>5. /\ ~s.boot /\ s.user = u /\ s.list = tab[t].list /\ s.fetch = tab[t].fetch
      /\ s.job = tab[t].job
  BY <1>2, <1>3 DEF TabRows
<1>6. s.list.as = None /\ ~s.fetch.sent /\ \A i \in Slots : SignInInv(s.job[i], cookie, apart[t][i])
  BY <1>5 DEF Boot, TabInv
<1>7. s.user # None => Agrees(cookie, s.user, apart[t][None])
  BY <1>1, <1>5 DEF Boot, TabInv
<1>8. apart[t] \in ApartRows
  OBVIOUS
<1>9. Routed(s, tab[t].path) \in TabRows /\ TabInv(Routed(s, tab[t].path), cookie, apart[t])
  BY <1>3, <1>4, <1>5, <1>6, <1>7, <1>8, RoutedFits
<1>10. tab' = [tab EXCEPT ![t] = Routed(s, tab[t].path)]
  BY <1>1, <1>2
<1> QED BY <1>9, <1>10, QuietTabStepInv DEF Boot

(* Going back or forward keeps the invariant.                              *)
LEMMA NavigateInv ==
  ASSUME SessionInv, NEW t \in BrowserTabs, NEW p \in Paths, Navigate(t, p)
  PROVE  SessionInv'
<1> USE DEF SessionInv, SessionTypeInv
<1>1. tab[t] \in TabRows /\ apart[t] \in ApartRows /\ ~tab[t].boot
  BY DEF Navigate
<1>2. Routed(tab[t], p) \in TabRows /\ TabInv(Routed(tab[t], p), cookie, apart[t])
  BY <1>1, RoutedFits DEF TabInv
<1> QED BY <1>2, QuietTabStepInv DEF Navigate

(* Fetching the list, its answer, and the failure of the fetch keep the    *)
(* invariant.                                                              *)
LEMMA FetchInv ==
  ASSUME SessionInv, NEW t \in BrowserTabs, FetchList(t) \/ ListArrives(t) \/ ListFails(t)
  PROVE  SessionInv'
<1> USE DEF SessionInv, SessionTypeInv
<1>1. CASE FetchList(t)
  <2>1. PICK f : f = [sent |-> TRUE, as |-> cookie, signIn |-> tab[t].signIns,
                      apart |-> apart[t][None]]
    OBVIOUS
  <2>2. f \in FetchRows
    BY <2>1 DEF TabRows, FetchRows, ApartRows
  <2>3. PICK s : s = [tab[t] EXCEPT !.fetch = f]
    OBVIOUS
  <2>4. s \in TabRows
    BY <2>2, <2>3 DEF TabRows
  <2>5. TabInv(s, cookie, apart[t])
    <3>1. tab[t].user # None
      BY <1>1 DEF FetchList, TabInv
    <3>2. Agrees(f.as, tab[t].user, f.apart) /\ f.signIn = tab[t].signIns
      BY <1>1, <2>1, <3>1 DEF FetchList, TabInv, Agrees
    <3> QED BY <1>1, <2>3, <3>1, <3>2 DEF FetchList, TabInv, TabRows
  <2>6. tab' = [tab EXCEPT ![t] = s]
    BY <1>1, <2>1, <2>3 DEF FetchList
  <2> QED BY <1>1, <2>4, <2>5, <2>6, QuietTabStepInv DEF FetchList
<1>2. CASE ListArrives(t)
  <2>1. PICK l : l = [as |-> tab[t].fetch.as, signIn |-> tab[t].fetch.signIn,
                      apart |-> tab[t].fetch.apart]
    OBVIOUS
  <2>2. l \in ListRows
    BY <2>1 DEF TabRows, FetchRows, ListRows
  <2>3. PICK s : s = [tab[t] EXCEPT !.list = l, !.fetch = NoFetch]
    OBVIOUS
  <2>4. s \in TabRows
    BY <2>2, <2>3, EmptyTypes DEF TabRows
  <2>5. TabInv(s, cookie, apart[t])
    BY <1>2, <2>1, <2>3 DEF ListArrives, TabInv, TabRows, NoFetch, Agrees
  <2>6. tab' = [tab EXCEPT ![t] = s]
    BY <1>2, <2>1, <2>3 DEF ListArrives
  <2> QED BY <1>2, <2>4, <2>5, <2>6, QuietTabStepInv DEF ListArrives
<1>3. CASE ListFails(t)
  <2>1. PICK s : s = [tab[t] EXCEPT !.fetch = NoFetch]
    OBVIOUS
  <2>2. s \in TabRows
    BY <2>1, EmptyTypes DEF TabRows
  <2>3. TabInv(s, cookie, apart[t])
    BY <2>1 DEF TabInv, TabRows, NoFetch
  <2>4. tab' = [tab EXCEPT ![t] = s]
    BY <1>3, <2>1 DEF ListFails
  <2> QED BY <1>3, <2>2, <2>3, <2>4, QuietTabStepInv DEF ListFails
<1> QED BY <1>1, <1>2, <1>3

(* State r of a tab is s with job i changed to j.                          *)
JobChanged(r, s, i, j) == r = [s EXCEPT !.job[i] = j]

(* Such a change leaves a state of its type, and all else as it was.       *)
LEMMA JobSet ==
  ASSUME NEW s \in TabRows, NEW i \in Slots, NEW j \in JobRows, NEW r,
         JobChanged(r, s, i, j)
  PROVE  /\ r \in TabRows
         /\ r.job[i] = j /\ \A k \in Slots \ {i} : r.job[k] = s.job[k]
         /\ r.user = s.user /\ r.boot = s.boot /\ r.bootAs = s.bootAs /\ r.path = s.path
         /\ r.signIns = s.signIns /\ r.list = s.list /\ r.fetch = s.fetch
<1>1. PICK jobOf : jobOf = [s.job EXCEPT ![i] = j]
  OBVIOUS
<1>2. jobOf \in [Slots -> JobRows] /\ jobOf[i] = j /\ \A k \in Slots \ {i} : jobOf[k] = s.job[k]
  BY <1>1 DEF TabRows
<1>3. r = [s EXCEPT !.job = jobOf]
  BY <1>1 DEF JobChanged
<1> QED BY <1>2, <1>3 DEF TabRows

(* Sending a login or logout, and its failure, keep the invariant.         *)
LEMMA JobInv ==
  ASSUME SessionInv, NEW t \in BrowserTabs, NEW i \in Slots, NEW j \in JobRows,
         NEW h \in ApartRows, JobChanged(tab'[t], tab[t], i, j),
         tab' = [tab EXCEPT ![t] = tab'[t]],
         apart' = [apart EXCEPT ![t] = h], \A k \in (Slots \cup {None}) \ {i} : h[k] = apart[t][k],
         j.pc = "sent", j.kind = "login" => j.who # None, j.kind = "logout" => j.who = None,
         j.kind = "none" \/ ~tab[t].boot, UNCHANGED cookie
  PROVE  SessionInv'
<1> USE DEF SessionInv, SessionTypeInv
<1>1. PICK s : s = tab'[t]
  OBVIOUS
<1>2. /\ s \in TabRows
      /\ s.job[i] = j /\ \A k \in Slots \ {i} : s.job[k] = tab[t].job[k]
      /\ s.user = tab[t].user /\ s.boot = tab[t].boot /\ s.bootAs = tab[t].bootAs
      /\ s.path = tab[t].path /\ s.signIns = tab[t].signIns /\ s.list = tab[t].list
      /\ s.fetch = tab[t].fetch
  BY <1>1, JobSet
<1>3. None \in (Slots \cup {None}) \ {i}
  BY SlotsAssumption
<1>4. \A k \in Slots : SignInInv(s.job[k], cookie, h[k]) /\ (s.boot => s.job[k].kind = "none")
  BY <1>2 DEF TabInv, SignInInv
<1>5. TabInv(s, cookie, h)
  BY <1>2, <1>3, <1>4 DEF TabInv
<1>6. tab' = [tab EXCEPT ![t] = s]
  BY <1>1
<1> QED BY <1>2, <1>5, <1>6, TabStepInv

LEMMA SendInv ==
  ASSUME SessionInv, NEW t \in BrowserTabs, NEW i \in Slots,
         Logout(t, i) \/ \E u \in Users : Login(t, i, u)
  PROVE  SessionInv'
<1>1. PICK kind, u : /\ Send(t, i, kind, u)
                     /\ \/ kind = "logout" /\ u = None
                        \/ kind = "login" /\ u \in Users
  BY DEF Logout, Login
<1>2. PICK j : j = [kind |-> kind, who |-> u, pc |-> "sent", here |-> kind = "login"]
  OBVIOUS
<1>3. j \in JobRows
  BY <1>1, <1>2 DEF JobRows, Somebody
<1>4. /\ j.pc = "sent" /\ (j.kind = "login" => j.who # None)
      /\ (j.kind = "logout" => j.who = None)
  BY <1>1, <1>2, NoneAssumption
<1>5. /\ JobChanged(tab'[t], tab[t], i, j) /\ tab' = [tab EXCEPT ![t] = tab'[t]]
      /\ apart[t] \in ApartRows /\ apart' = [apart EXCEPT ![t] = apart[t]]
  BY <1>1, <1>2 DEF JobChanged, Send, SessionInv, SessionTypeInv
<1>6. /\ \A k \in (Slots \cup {None}) \ {i} : apart[t][k] = apart[t][k]
      /\ ~tab[t].boot /\ UNCHANGED cookie
  BY <1>1 DEF Send
<1> QED BY <1>3, <1>4, <1>5, <1>6, JobInv

LEMMA JobFailsInv ==
  ASSUME SessionInv, NEW t \in BrowserTabs, NEW i \in Slots, JobFails(t, i)
  PROVE  SessionInv'
<1>1. PICK h : h = [apart[t] EXCEPT ![i] = FALSE]
  OBVIOUS
<1>2. h \in ApartRows /\ \A k \in (Slots \cup {None}) \ {i} : h[k] = apart[t][k]
  BY <1>1 DEF ApartRows, SessionInv, SessionTypeInv
<1>3. apart' = [apart EXCEPT ![t] = h]
  BY <1>1 DEF JobFails, SessionInv, SessionTypeInv
<1>4. JobChanged(tab'[t], tab[t], i, NoJob) /\ tab' = [tab EXCEPT ![t] = tab'[t]]
  BY DEF JobChanged, JobFails, SessionInv, SessionTypeInv
<1>5. NoJob.pc = "sent" /\ NoJob.kind = "none"
  BY DEF NoJob
<1>6. PICK j : j = NoJob
  OBVIOUS
<1>7. j \in JobRows /\ JobChanged(tab'[t], tab[t], i, j) /\ j.pc = "sent" /\ j.kind = "none"
  BY <1>4, <1>5, <1>6, EmptyTypes
<1>8. UNCHANGED cookie /\ tab' = [tab EXCEPT ![t] = tab'[t]]
  BY <1>4 DEF JobFails
<1> QED BY <1>2, <1>3, <1>7, <1>8, JobInv

(* A new cookie leaves the tabs that know of another user apart from it.   *)
LEMMA CookieFits ==
  ASSUME NEW s \in TabRows, NEW c, NEW d, NEW h \in ApartRows, NEW g \in ApartRows,
         TabInv(s, c, h),
         \A k \in Slots \cup {None} : g[k] = (h[k] \/ (d \notin {c, None} /\ Named(s, k) # None))
  PROVE  TabInv(s, d, g)
<1>1. \A i \in Slots : SignInInv(s.job[i], d, g[i])
  BY SlotsAssumption DEF TabInv, SignInInv, Agrees, Named
<1>2. s.boot /\ s.bootAs # None => Agrees(d, s.bootAs, g[None])
  BY DEF TabInv, Agrees, Named
<1>3. ~s.boot /\ s.user # None => Agrees(d, s.user, g[None])
  BY DEF TabInv, Agrees, Named
<1> QED BY <1>1, <1>2, <1>3 DEF TabInv

(* The header of an answer, which changes the cookie, keeps the invariant. *)
LEMMA HeadArrivesInv ==
  ASSUME SessionInv, NEW t \in BrowserTabs, NEW i \in Slots, HeadArrives(t, i)
  PROVE  SessionInv'
<1> USE DEF SessionInv, SessionTypeInv
<1>1. PICK job : job = tab[t].job[i]
  OBVIOUS
<1>2. job \in JobRows /\ job.kind # "none" /\ job.pc = "sent"
  BY <1>1 DEF TabRows, HeadArrives
<1>3. PICK d : d = job.who
  OBVIOUS
<1>4. PICK j : j = [job EXCEPT !.pc = "head"]
  OBVIOUS
<1>5. j \in JobRows /\ j.kind = job.kind /\ j.who = d /\ j.pc = "head"
  BY <1>2, <1>3, <1>4 DEF JobRows
<1>6. PICK s : JobChanged(s, tab[t], i, j)
  BY DEF JobChanged
<1>7. /\ s \in TabRows
      /\ s.job[i] = j /\ \A k \in Slots \ {i} : s.job[k] = tab[t].job[k]
      /\ s.user = tab[t].user /\ s.boot = tab[t].boot /\ s.bootAs = tab[t].bootAs
      /\ s.path = tab[t].path /\ s.signIns = tab[t].signIns /\ s.list = tab[t].list
      /\ s.fetch = tab[t].fetch
  BY <1>5, <1>6, JobSet
<1>8. cookie' = d /\ d \in Somebody /\ tab' = [tab EXCEPT ![t] = s]
  BY <1>1, <1>2, <1>3, <1>4, <1>6 DEF JobChanged, HeadArrives, JobRows
<1>9. \A r \in BrowserTabs, k \in Slots \cup {None} :
        apart'[r][k] = (apart[r][k] \/ (d \notin {cookie, None} /\ Named(tab[r], k) # None))
  BY <1>1, <1>3 DEF HeadArrives
<1>10. apart' \in [BrowserTabs -> ApartRows]
  <2>1. ASSUME NEW r \in BrowserTabs PROVE apart'[r] \in ApartRows
    <3>1. DOMAIN apart'[r] = Slots \cup {None}
      BY DEF HeadArrives
    <3>2. apart'[r] = [k \in Slots \cup {None} |-> apart'[r][k]]
      BY DEF HeadArrives
    <3>3. \A k \in Slots \cup {None} : apart'[r][k] \in BOOLEAN
      BY <1>9 DEF ApartRows
    <3> QED BY <3>2, <3>3 DEF ApartRows
  <2>2. apart' = [r \in BrowserTabs |-> apart'[r]]
    BY DEF HeadArrives
  <2> QED BY <2>1, <2>2
<1>11. ASSUME NEW r \in BrowserTabs PROVE TabInv(tab[r], d, apart'[r])
  BY <1>9, <1>10, CookieFits
<1>12. TabInv(s, d, apart'[t])
  <2>1. SignInInv(j, d, apart'[t][i])
    BY <1>1, <1>2, <1>3, <1>5 DEF SignInInv, Agrees, TabInv
  <2>2. ~tab[t].boot
    BY <1>1, <1>2 DEF TabInv
  <2>3. \A k \in Slots : SignInInv(s.job[k], d, apart'[t][k])
    BY <1>7, <1>11, <2>1 DEF TabInv
  <2> QED BY <1>7, <1>11, <2>2, <2>3 DEF TabInv
<1>13. SessionTypeInv'
  BY <1>7, <1>8, <1>10
<1>14. ASSUME NEW r \in BrowserTabs PROVE TabInv(tab'[r], d, apart'[r])
  <2>1. tab'[r] = IF r = t THEN s ELSE tab[r]
    BY <1>8
  <2> QED BY <1>11, <1>12, <2>1
<1> QED BY <1>8, <1>13, <1>14

(* An account switch leaves a state of its type, with nothing cached.      *)
LEMMA SwitchedFits ==
  ASSUME NEW s \in TabRows, NEW u \in Somebody, NEW r, r = SwitchedTo(s, u)
  PROVE  /\ r \in TabRows
         /\ r.user = u /\ r.boot = s.boot /\ r.path = s.path /\ r.job = s.job
         /\ r.list.as = None /\ ~r.fetch.sent
<1>1. PICK cleared : cleared = Cleared(s)
  OBVIOUS
<1>2. /\ cleared \in TabRows
      /\ cleared.boot = s.boot /\ cleared.path = s.path /\ cleared.job = s.job
      /\ cleared.list = NoList /\ cleared.fetch = NoFetch
  BY <1>1, EmptyTypes DEF Cleared, TabRows
<1>3. PICK n : n = cleared.signIns + 1
  OBVIOUS
<1>4. n \in Nat
  BY <1>2, <1>3 DEF TabRows
<1>5. r = [cleared EXCEPT !.user = u, !.signIns = n]
  BY <1>1, <1>3 DEF SwitchedTo
<1>6. /\ r \in TabRows
      /\ r.user = u /\ r.boot = s.boot /\ r.path = s.path /\ r.job = s.job
      /\ r.list = NoList /\ r.fetch = NoFetch
  BY <1>2, <1>4, <1>5 DEF TabRows
<1> QED BY <1>6 DEF NoList, NoFetch

(* The body of an answer, with which the tab's user changes, keeps the     *)
(* invariant: whatever was under way is dropped with the cache.            *)
LEMMA BodyArrivesInv ==
  ASSUME SessionInv, NEW t \in BrowserTabs, NEW i \in Slots, BodyArrives(t, i)
  PROVE  SessionInv'
<1> USE DEF SessionInv, SessionTypeInv
<1>1. PICK job : job = tab[t].job[i]
  OBVIOUS
<1>2. job \in JobRows /\ job.pc = "head" /\ job.kind # "none"
  <2>1. job \in JobRows
    BY <1>1 DEF TabRows
  <2> QED BY <1>1, <2>1 DEF BodyArrives, TabInv, SignInInv
<1>3. PICK u : u = job.who
  OBVIOUS
<1>4. u \in Somebody
  BY <1>2, <1>3 DEF JobRows
<1>5. PICK s0 : JobChanged(s0, tab[t], i, NoJob)
  BY DEF JobChanged
<1>6. /\ s0 \in TabRows
      /\ s0.job[i] = NoJob /\ \A k \in Slots \ {i} : s0.job[k] = tab[t].job[k]
      /\ s0.boot = tab[t].boot /\ s0.path = tab[t].path
  BY <1>5, EmptyTypes, JobSet
<1>7. PICK s : s = SwitchedTo(s0, u)
  OBVIOUS
<1>8. /\ s \in TabRows
      /\ s.user = u /\ s.boot = s0.boot /\ s.path = s0.path /\ s.job = s0.job
      /\ s.list.as = None /\ ~s.fetch.sent
  BY <1>4, <1>6, <1>7, SwitchedFits
<1>9. PICK p : p = IF job.kind = "login" THEN "claims" ELSE s.path
  OBVIOUS
<1>10. p \in Paths
  BY <1>8, <1>9 DEF Paths, TabRows
<1>11. PICK h : h = [apart[t] EXCEPT ![None] = apart[t][i], ![i] = FALSE]
  OBVIOUS
<1>12. /\ h \in ApartRows /\ h[None] = apart[t][i] /\ h[i] = FALSE
       /\ \A k \in Slots \ {i} : h[k] = apart[t][k]
  BY <1>11, SlotsAssumption DEF ApartRows
<1>13. ~s.boot
  BY <1>1, <1>2, <1>6, <1>8 DEF TabInv
<1>14. s.user # None => Agrees(cookie, s.user, h[None])
  BY <1>1, <1>2, <1>3, <1>8, <1>12 DEF TabInv, SignInInv, JobRows
<1>15. \A k \in Slots : SignInInv(s.job[k], cookie, h[k])
  <2>1. SignInInv(NoJob, cookie, h[i])
    BY DEF SignInInv, NoJob
  <2> QED BY <1>6, <1>8, <1>12, <2>1 DEF TabInv
<1>16. Routed(s, p) \in TabRows /\ TabInv(Routed(s, p), cookie, h)
  BY <1>8, <1>10, <1>12, <1>13, <1>14, <1>15, RoutedFits
<1>17. tab' = [tab EXCEPT ![t] = Routed(s, p)]
  BY <1>1, <1>3, <1>5, <1>7, <1>9 DEF JobChanged, BodyArrives
<1>18. apart' = [apart EXCEPT ![t] = h]
  BY <1>11 DEF BodyArrives
<1> QED BY <1>12, <1>16, <1>17, <1>18, TabStepInv DEF BodyArrives

(* The expiry of the cookie keeps the invariant.                           *)
LEMMA ExpireInv == ASSUME SessionInv, Expire PROVE SessionInv'
<1>1. ASSUME NEW t \in BrowserTabs PROVE TabInv(tab[t], None, apart[t])
  BY DEF SessionInv, TabInv, SignInInv, Agrees
<1> QED BY <1>1 DEF SessionInv, SessionTypeInv, Somebody, Expire

LEMMA SessionNextInv == SessionInv /\ [SessionNext]_sessionVars => SessionInv'
<1> SUFFICES ASSUME SessionInv, [SessionNext]_sessionVars PROVE SessionInv'
  OBVIOUS
<1>1. ASSUME NEW t \in BrowserTabs, TabStep(t) PROVE SessionInv'
  BY <1>1, LoadInv, NavigateInv, BootInv, FetchInv, SendInv, HeadArrivesInv, BodyArrivesInv,
     JobFailsInv
     DEF TabStep, Paths
<1>2. CASE UNCHANGED sessionVars
  BY <1>2 DEF sessionVars, SessionInv, SessionTypeInv
<1> QED BY <1>1, <1>2, ExpireInv DEF SessionNext

(* Every reachable state satisfies the invariant.                          *)
LEMMA SessionInvariance == SessionSpec => []SessionInv
<1> QED BY SessionInitInv, SessionNextInv, PTL DEF SessionSpec

-----------------------------------------------------------------------------
(* clear() on every account switch within a tab (AuthContext.tsx:37) is    *)
(* enough, with any number of tabs and whatever is under way: what a tab   *)
(* has cached was asked for since its last sign-in or sign-out.            *)
THEOREM CacheFollowsSignIn == SessionSpec => []CacheIsOfThisSignIn
<1>1. SessionInv => CacheIsOfThisSignIn
  BY DEF SessionInv, TabInv, CacheIsOfThisSignIn
<1> QED BY <1>1, SessionInvariance, PTL

(* The claims in a tab are those of the user it names, unless the tab      *)
(* asked for them while the cookie was somebody else's: after another tab  *)
(* had signed in, or when the tab's user went back to the claims while a   *)
(* login accepted by the server was not answered yet, or its answer lost.  *)
THEOREM AnswersAreOwn == SessionSpec => []OwnAnswersOnly
<1>1. SessionInv => OwnAnswersOnly
  BY DEF SessionInv, TabInv, OwnAnswersOnly
<1> QED BY <1>1, SessionInvariance, PTL

-----------------------------------------------------------------------------
(* The pages of a claim.                                                   *)

QueryRow(q) ==
  /\ q \in [data : {q.data}, stale : BOOLEAN, failed : BOOLEAN,
             fetch : {"none", "sent", "back"}, reply : {q.reply}, outrun : BOOLEAN]
  /\ q.data.version \in Int /\ q.reply.version \in Int

JobRow(j) ==
  /\ j \in [pc : {"idle", "sent", "served"}, tab : Tabs \cup {None}, clicked : {j.clicked},
             kind : {j.kind}, item : {j.item}, file : {j.file}, seen : {j.seen},
             click : ItemNumbers, answer : {j.answer}]
  /\ j.pc # "idle" => j.tab \in Tabs

ServerOK ==
  /\ user \in [Tabs -> Users] /\ claim \in ClaimRows /\ items \in Seq(ItemNumbers)
  /\ version \in Nat

PagesOK ==
  /\ query = [t \in Tabs |-> query[t]] /\ \A t \in Tabs : QueryRow(query[t])
  /\ jobs = [h \in Handlers |-> jobs[h]] /\ \A h \in Handlers : JobRow(jobs[h])
  /\ open \subseteq Tabs /\ acked \in [Tabs -> Nat] /\ clicks \in Nat

(* What a tab with query q, open or not, knows of a change acknowledged    *)
(* when the server was at version a: an answer on its way shows it, and so *)
(* does a claim that passes for valid, which the page of an open tab shows *)
(* unless it fetches it or shows an error.  The answer may have been       *)
(* outrun by the acknowledgement.                                          *)
QueryInv(q, isOpen, a) ==
  /\ q.fetch = "back" => q.reply # NoDetail /\ (q.reply.version >= a \/ q.outrun)
  /\ q.fetch = "none" /\ ~q.failed /\ ~q.stale /\ q.data # NoDetail =>
       q.data.version >= a \/ q.outrun
  /\ isOpen /\ q.fetch = "none" /\ ~q.failed => ~q.stale /\ q.data # NoDetail

AckedInv ==
  \A t \in Tabs : acked[t] <= version /\ QueryInv(query[t], t \in open, acked[t])

RequestsInv == ServerOK /\ PagesOK /\ AckedInv

-----------------------------------------------------------------------------
(* Inserting into a list and removing from it.                             *)

LEMMA InsertionFacts ==
  ASSUME NEW S, NEW s \in Seq(S), NEW p \in 1..(Len(s) + 1), NEW e \in S
  PROVE  InsertAt(s, p, e) \in Seq(S)
<1>1. Len(s) \in Nat /\ \A i \in 1..Len(s) : s[i] \in S
  BY LenProperties, ElementOfSeq
<1>2. SubSeq(s, 1, p - 1) \in Seq(S)
  BY <1>1, SubSeqProperties
<1>3. SubSeq(s, p, Len(s)) \in Seq(S)
  BY <1>1, SubSeqProperties
<1>4. <<e>> \in Seq(S)
  OBVIOUS
<1>5. SubSeq(s, 1, p - 1) \o <<e>> \in Seq(S)
  BY <1>2, <1>4, ConcatProperties
<1> QED BY <1>3, <1>5, ConcatProperties DEF InsertAt

LEMMA RemovalFacts ==
  ASSUME NEW S, NEW s \in Seq(S), NEW p \in 1..Len(s)
  PROVE  RemoveAt(s, p) \in Seq(S) /\ Len(RemoveAt(s, p)) = Len(s) - 1
<1>1. Len(s) \in Nat /\ \A i \in 1..Len(s) : s[i] \in S
  BY LenProperties, ElementOfSeq
<1>2. SubSeq(s, 1, p - 1) \in Seq(S) /\ Len(SubSeq(s, 1, p - 1)) = p - 1
  <2>1. \A i \in 1..(p - 1) : s[i] \in S
    BY <1>1
  <2>2. 1 \in Int /\ p - 1 \in Int /\ (IF 1 <= p - 1 THEN (p - 1) - 1 + 1 ELSE 0) = p - 1
    BY <1>1
  <2> QED BY <2>1, <2>2, SubSeqProperties
<1>3. SubSeq(s, p + 1, Len(s)) \in Seq(S) /\ Len(SubSeq(s, p + 1, Len(s))) = Len(s) - p
  <2>1. \A i \in (p + 1)..Len(s) : s[i] \in S
    BY <1>1
  <2>2. /\ p + 1 \in Int /\ Len(s) \in Int
        /\ (IF p + 1 <= Len(s) THEN Len(s) - (p + 1) + 1 ELSE 0) = Len(s) - p
    BY <1>1
  <2> QED BY <2>1, <2>2, SubSeqProperties
<1>4. PICK a, b \in Seq(S) :
        /\ a = SubSeq(s, 1, p - 1) /\ Len(a) = p - 1
        /\ b = SubSeq(s, p + 1, Len(s)) /\ Len(b) = Len(s) - p
  BY <1>2, <1>3, Zenon
<1>5. RemoveAt(s, p) = a \o b
  BY <1>4, Zenon DEF RemoveAt
<1>6. a \o b \in Seq(S) /\ Len(a \o b) = Len(a) + Len(b)
  BY ConcatProperties, Zenon
<1>7. (p - 1) + (Len(s) - p) = Len(s) - 1
  BY <1>1
<1>8. Len(a) + Len(b) = (p - 1) + (Len(s) - p)
  BY <1>4, Zenon
<1> QED BY <1>5, <1>6, <1>7, <1>8, Zenon

-----------------------------------------------------------------------------
LEMMA ItemsKept ==
  ASSUME ServerOK, NEW u, NEW j, Accepts(u, j.kind, j.item), j.click \in ItemNumbers,
         NEW its \in NextItems(j)
  PROVE  its \in Seq(ItemNumbers)
<1>0. items \in Seq(ItemNumbers) /\ Len(items) \in Nat /\ DOMAIN items = 1..Len(items)
  BY LenProperties DEF ServerOK
<1>1. ASSUME j.kind \in {"edit", "delete"}
      PROVE  /\ j.item \in ItemNumbers
             /\ Without(j.item) \in Seq(ItemNumbers) /\ Len(Without(j.item)) = Len(items) - 1
  <2>1. j.item \in ToSet(items)
    BY <1>1 DEF Accepts
  <2>2. PICK q \in 1..Len(items) : q = CHOOSE p \in DOMAIN items : items[p] = j.item
    BY <1>0, <2>1 DEF ToSet
  <2>3. j.item \in ItemNumbers
    BY <1>0, <2>1, ElementOfSeq DEF ToSet
  <2> QED BY <1>0, <2>2, <2>3, RemovalFacts DEF Without
<1>2. CASE j.kind = "add"
  <2>1. PICK p \in 1..(Len(items) + 1) : its = InsertAt(items, p, j.click)
    BY <1>2 DEF NextItems
  <2> QED BY <1>0, <2>1, InsertionFacts
<1>3. CASE j.kind = "edit"
  <2>1. PICK p \in 1..Len(items) : its = InsertAt(Without(j.item), p, j.item)
    BY <1>3 DEF NextItems
  <2>2. p \in 1..(Len(Without(j.item)) + 1)
    BY <1>0, <1>1, <1>3
  <2> QED BY <1>1, <1>3, <2>1, <2>2, InsertionFacts
<1>4. CASE j.kind = "delete"
  BY <1>1, <1>4 DEF NextItems
<1>5. CASE j.kind \notin {"add", "edit", "delete"}
  BY <1>0, <1>5 DEF NextItems
<1> QED BY <1>2, <1>3, <1>4, <1>5

LEMMA ClaimKept ==
  ASSUME ServerOK, NEW u \in Users, NEW kind, NEW row \in NextClaims(u, kind)
  PROVE  row \in ClaimRows
<1>0. claim \in ClaimRows
  BY DEF ServerOK
<1>1. CASE kind = "submit"
  <2>1. PICK a \in IF claim.status = "REJECTED" THEN {claim.assignedApprover} ELSE Approvers :
          row = [claim EXCEPT !.status = "PENDING_APPROVAL", !.approverApprovedBy = None,
                              !.decidedBy = None, !.assignedApprover = a]
    BY <1>1 DEF NextClaims
  <2>2. a \in Approvers \cup {None}
    BY <1>0, <2>1 DEF ClaimRows
  <2> QED BY <1>0, <2>1, <2>2 DEF ClaimRows, Statuses
<1>2. CASE kind = "cancel"
  BY <1>0, <1>2 DEF NextClaims, ClaimRows, Statuses
<1>3. CASE kind = "respond"
  BY <1>0, <1>3 DEF NextClaims, ClaimRows, Statuses
<1>4. CASE kind = "approve"
  BY <1>0, <1>4 DEF NextClaims, ClaimRows, Statuses
<1>5. CASE kind = "reject"
  BY <1>0, <1>5 DEF NextClaims, ClaimRows, Statuses
<1>6. CASE kind = "ask"
  BY <1>0, <1>6 DEF NextClaims, ClaimRows, Statuses
<1>7. CASE kind = "reassign"
  <2>1. PICK a \in Approvers : row = [claim EXCEPT !.assignedApprover = a]
    BY <1>7 DEF NextClaims
  <2> QED BY <1>0, <2>1 DEF ClaimRows
<1>8. CASE kind \notin {"submit", "cancel", "respond", "approve", "reject", "ask", "reassign"}
  BY <1>0, <1>8 DEF NextClaims
<1> QED BY <1>1, <1>2, <1>3, <1>4, <1>5, <1>6, <1>7, <1>8

LEMMA ExecuteKeepsServer ==
  ASSUME ServerOK, NEW u \in Users, NEW j, j.click \in ItemNumbers, Execute(u, j)
  PROVE  ServerOK' /\ version' = version + 1
<1>1. /\ Accepts(u, j.kind, j.item) /\ claim' \in NextClaims(u, j.kind) /\ items' \in NextItems(j)
      /\ version' = version + 1 /\ user' = user
  BY DEF Execute, AcceptsRequest
<1>2. claim' \in ClaimRows
  BY <1>1, ClaimKept
<1>3. items' \in Seq(ItemNumbers)
  BY <1>1, ItemsKept
<1> QED BY <1>1, <1>2, <1>3 DEF ServerOK

-----------------------------------------------------------------------------
LEMMA EmptyRows ==
  JobRow(IdleJob) /\ QueryRow(NoQuery) /\ NoDetail.version = -1
BY ClicksAssumption DEF JobRow, IdleJob, QueryRow, NoQuery, NoDetail, ItemNumbers

(* A tab that fetches knows nothing yet that could be wrong.               *)
LEMMA RefetchFacts ==
  ASSUME NEW q, QueryRow(q)
  PROVE  /\ QueryRow(Refetch(q)) /\ Refetch(q).fetch = "sent"
         /\ \A isOpen, a : QueryInv(Refetch(q), isOpen, a)
<1>1. Refetch(q) \in [data : {q.data}, stale : BOOLEAN, failed : BOOLEAN, fetch : {"sent"},
                      reply : {NoDetail}, outrun : {FALSE}]
  BY DEF QueryRow, Refetch
<1>2. QueryRow(Refetch(q))
  <2>1. PICK r : r = Refetch(q)
    OBVIOUS
  <2>2. r.data = q.data /\ r.reply = NoDetail
    BY <1>1, <2>1
  <2>3. r \in [data : {r.data}, stale : BOOLEAN, failed : BOOLEAN,
               fetch : {"none", "sent", "back"}, reply : {r.reply}, outrun : BOOLEAN]
    BY <1>1, <2>1, <2>2
  <2>4. r.data.version \in Int /\ r.reply.version \in Int
    BY <2>2, EmptyRows DEF QueryRow
  <2>5. QueryRow(r)
    BY <2>3, <2>4, Zenon DEF QueryRow
  <2> QED BY <2>1, <2>5
<1>3. Refetch(q).fetch = "sent"
  BY <1>1
<1> QED BY <1>2, <1>3 DEF QueryInv

(* A step that changes what one tab knows, and nothing else.               *)
LEMMA PutQuery ==
  ASSUME RequestsInv, NEW t \in Tabs, NEW q, QueryRow(q), query' = [query EXCEPT ![t] = q],
         UNCHANGED <<server, jobs, clicks, acked>>, open' \subseteq Tabs,
         \A s \in Tabs \ {t} : s \in open' <=> s \in open,
         QueryInv(q, t \in open', acked[t])
  PROVE  RequestsInv'
<1>1. UNCHANGED <<user, claim, items, receipts, version, jobs, clicks, acked>>
  BY DEF server
<1>2. query' = [s \in Tabs |-> query'[s]]
      /\ \A s \in Tabs : query'[s] = IF s = t THEN q ELSE query[s]
  BY DEF RequestsInv, PagesOK
<1>3. ServerOK' /\ PagesOK'
  <2>1. ServerOK'
    BY <1>1 DEF RequestsInv, ServerOK
  <2>2. \A s \in Tabs : QueryRow(query'[s])
    BY <1>2 DEF RequestsInv, PagesOK
  <2> QED BY <1>1, <1>2, <2>1, <2>2 DEF RequestsInv, PagesOK
<1>4. AckedInv'
  <2> SUFFICES ASSUME NEW s \in Tabs
               PROVE  acked[s] <= version /\ QueryInv(query'[s], s \in open', acked[s])
    BY <1>1 DEF AckedInv
  <2>1. acked[s] <= version /\ QueryInv(query[s], s \in open, acked[s])
    BY DEF RequestsInv, AckedInv
  <2>2. CASE s = t
    BY <1>2, <2>1, <2>2
  <2>3. CASE s # t
    <3>1. query'[s] = query[s] /\ (s \in open' <=> s \in open)
      BY <1>2, <2>3
    <3> QED BY <2>1, <3>1 DEF QueryInv
  <2> QED BY <2>2, <2>3
<1> QED BY <1>3, <1>4 DEF RequestsInv

(* A step that changes a handler, and of the server at most its version.   *)
LEMMA PutJob ==
  ASSUME RequestsInv, NEW h \in Handlers, NEW j, JobRow(j), SetJob(h, j),
         ServerOK', version' >= version, clicks' \in Nat, UNCHANGED <<query, open, acked>>
  PROVE  RequestsInv'
<1>1. jobs' = [g \in Handlers |-> jobs'[g]]
      /\ \A g \in Handlers : jobs'[g] = IF g = h THEN j ELSE jobs[g]
  BY DEF SetJob, RequestsInv, PagesOK
<1>2. \A g \in Handlers : JobRow(jobs'[g])
  BY <1>1 DEF RequestsInv, PagesOK
<1>3. PagesOK'
  BY <1>1, <1>2 DEF RequestsInv, PagesOK
<1>4. AckedInv'
  <2>1. \A t \in Tabs : acked[t] \in Nat /\ version \in Nat /\ version' \in Nat
    BY DEF RequestsInv, PagesOK, ServerOK
  <2> QED BY <2>1 DEF RequestsInv, AckedInv
<1> QED BY <1>3, <1>4 DEF RequestsInv

-----------------------------------------------------------------------------
(* A tab, its page and its fetch.                                          *)

LEMMA OpenPageKeeps ==
  ASSUME RequestsInv, NEW t \in Tabs, OpenPage(t)
  PROVE  RequestsInv'
<1>1. QueryRow(query[t]) /\ QueryInv(query[t], FALSE, acked[t]) /\ t \notin open
      /\ query = [s \in Tabs |-> query[s]]
  BY DEF OpenPage, RequestsInv, PagesOK, AckedInv, QueryInv
<1>2. PICK aged \in BOOLEAN :
        query' = [query EXCEPT ![t] =
          IF query[t].fetch = "none" /\ (query[t].data = NoDetail \/ query[t].stale \/ aged)
          THEN Refetch(query[t]) ELSE query[t]]
  BY <1>1 DEF OpenPage
<1>3. PICK q : q = IF query[t].fetch = "none"
                      /\ (query[t].data = NoDetail \/ query[t].stale \/ aged)
                   THEN Refetch(query[t]) ELSE query[t]
  OBVIOUS
<1>4. QueryRow(q) /\ QueryInv(q, TRUE, acked[t])
  <2>1. CASE q = Refetch(query[t])
    BY <1>1, <2>1, RefetchFacts
  <2>2. CASE q # Refetch(query[t])
    <3>1. /\ q = query[t]
          /\ query[t].fetch = "none" => query[t].data # NoDetail /\ ~query[t].stale
      BY <1>3, <2>2, Zenon
    <3> QED BY <1>1, <3>1, Zenon DEF QueryInv
  <2> QED BY <2>1, <2>2
<1>5. /\ UNCHANGED <<server, jobs, clicks, acked>> /\ open' = open \cup {t}
      /\ open \subseteq Tabs
  BY DEF OpenPage, RequestsInv, PagesOK
<1>6. query' = [query EXCEPT ![t] = q]
  BY <1>2, <1>3, Zenon
<1>7. QueryInv(q, t \in open', acked[t])
  BY <1>4, <1>5 DEF QueryInv
<1> QED BY <1>4, <1>5, <1>6, <1>7, PutQuery

LEMMA LeavePageKeeps ==
  ASSUME RequestsInv, NEW t \in Tabs, LeavePage(t)
  PROVE  RequestsInv'
<1>1. QueryRow(query[t]) /\ QueryInv(query[t], t \in open', acked[t])
      /\ query = [s \in Tabs |-> query[s]]
  BY DEF LeavePage, RequestsInv, PagesOK, AckedInv, QueryInv
<1>2. query' = [query EXCEPT ![t] = query[t]]
  BY <1>1 DEF LeavePage
<1>3. UNCHANGED <<server, jobs, clicks, acked>> /\ open' = open \ {t} /\ open \subseteq Tabs
  BY DEF LeavePage, RequestsInv, PagesOK
<1> QED BY <1>1, <1>2, <1>3, PutQuery

LEMMA ServeFetchKeeps ==
  ASSUME RequestsInv, NEW t \in Tabs, ServeFetch(t)
  PROVE  RequestsInv'
<1>1. QueryRow(query[t]) /\ query = [s \in Tabs |-> query[s]]
      /\ acked[t] <= version /\ version \in Nat
  BY DEF RequestsInv, PagesOK, ServerOK, AckedInv
<1>2. PICK d : d = Detail
  OBVIOUS
<1>3. d.version = version
  BY <1>2 DEF Detail
<1>4. PICK q : q = [query[t] EXCEPT !.fetch = "back", !.reply = d]
  OBVIOUS
<1>5. q \in [data : {query[t].data}, stale : BOOLEAN, failed : BOOLEAN, fetch : {"back"},
             reply : {d}, outrun : BOOLEAN]
  BY <1>1, <1>4 DEF QueryRow
<1>6. QueryRow(q) /\ QueryInv(q, t \in open', acked[t])
  BY <1>1, <1>3, <1>5, EmptyRows DEF QueryRow, QueryInv
<1>7. query' = [query EXCEPT ![t] = q]
  BY <1>1, <1>2, <1>4 DEF ServeFetch
<1>8. UNCHANGED <<server, jobs, clicks, acked>> /\ open' = open /\ open \subseteq Tabs
  BY DEF ServeFetch, RequestsInv, PagesOK
<1> QED BY <1>6, <1>7, <1>8, PutQuery

(* The answer is of after every change the tab has heard of.               *)
LEMMA FetchArrivesKeeps ==
  ASSUME RequestsInv, NEW t \in Tabs, FetchArrives(t)
  PROVE  RequestsInv'
<1>1. PICK r : r = query[t].reply
  OBVIOUS
<1>2. PICK o \in BOOLEAN : o = query[t].outrun
  BY DEF RequestsInv, PagesOK, QueryRow
<1>3. r.version \in Int /\ r # NoDetail /\ (r.version >= acked[t] \/ o)
  BY <1>1, <1>2 DEF FetchArrives, RequestsInv, PagesOK, QueryRow, AckedInv, QueryInv
<1>4. PICK q : q = [NoQuery EXCEPT !.data = r, !.outrun = o]
  OBVIOUS
<1>5. q \in [data : {r}, stale : {FALSE}, failed : {FALSE}, fetch : {"none"},
             reply : {NoDetail}, outrun : {o}]
  BY <1>4 DEF NoQuery
<1>6. QueryRow(q)
  <2>1. q.reply = NoDetail /\ q.data = r
    BY <1>5
  <2>2. q.data.version \in Int /\ q.reply.version \in Int
    BY <1>3, <2>1, EmptyRows
  <2>3. q \in [data : {q.data}, stale : BOOLEAN, failed : BOOLEAN,
               fetch : {"none", "sent", "back"}, reply : {q.reply}, outrun : BOOLEAN]
    BY <1>5
  <2> QED BY <2>2, <2>3, Zenon DEF QueryRow
<1>7. QueryInv(q, t \in open', acked[t])
  BY <1>3, <1>5 DEF QueryInv
<1>8. query' = [query EXCEPT ![t] = q]
  BY <1>1, <1>2, <1>4 DEF FetchArrives
<1>9. UNCHANGED <<server, jobs, clicks, acked>> /\ open' = open /\ open \subseteq Tabs
  BY DEF FetchArrives, RequestsInv, PagesOK
<1> QED BY <1>6, <1>7, <1>8, <1>9, PutQuery

LEMMA FetchFailsKeeps ==
  ASSUME RequestsInv, NEW t \in Tabs, FetchFails(t)
  PROVE  RequestsInv'
<1>1. PICK d : d = query[t].data
  OBVIOUS
<1>2. d.version \in Int
  BY <1>1 DEF RequestsInv, PagesOK, QueryRow
<1>3. PICK q : q = [NoQuery EXCEPT !.data = d, !.stale = TRUE, !.failed = TRUE]
  OBVIOUS
<1>4. q \in [data : {d}, stale : {TRUE}, failed : {TRUE}, fetch : {"none"},
             reply : {NoDetail}, outrun : {FALSE}]
  BY <1>3 DEF NoQuery
<1>5. QueryRow(q) /\ QueryInv(q, t \in open', acked[t])
  <2>1. q.reply = NoDetail /\ q.data = d /\ q.failed /\ q.fetch = "none"
    BY <1>4
  <2>2. q.data.version \in Int /\ q.reply.version \in Int
    BY <1>2, <2>1, EmptyRows
  <2>3. q \in [data : {q.data}, stale : BOOLEAN, failed : BOOLEAN,
               fetch : {"none", "sent", "back"}, reply : {q.reply}, outrun : BOOLEAN]
    BY <1>4
  <2>4. QueryRow(q)
    BY <2>2, <2>3, Zenon DEF QueryRow
  <2> QED BY <2>1, <2>4 DEF QueryInv
<1>6. query' = [query EXCEPT ![t] = q]
  BY <1>1, <1>3 DEF FetchFails
<1>7. UNCHANGED <<server, jobs, clicks, acked>> /\ open' = open /\ open \subseteq Tabs
  BY DEF FetchFails, RequestsInv, PagesOK
<1> QED BY <1>5, <1>6, <1>7, PutQuery

LEMMA RetryKeeps ==
  ASSUME RequestsInv, NEW t \in Tabs, Retry(t)
  PROVE  RequestsInv'
<1>1. QueryRow(query[t])
  BY DEF RequestsInv, PagesOK
<1>2. PICK q : q = Refetch(query[t])
  OBVIOUS
<1>3. QueryRow(q) /\ QueryInv(q, t \in open', acked[t])
  BY <1>1, <1>2, RefetchFacts
<1>4. query' = [query EXCEPT ![t] = q]
  BY <1>2 DEF Retry
<1>5. UNCHANGED <<server, jobs, clicks, acked>> /\ open' = open /\ open \subseteq Tabs
  BY DEF Retry, RequestsInv, PagesOK
<1> QED BY <1>3, <1>4, <1>5, PutQuery

-----------------------------------------------------------------------------
(* A handler, and a request from somewhere else.                           *)

(* What a step of a handler finds.                                         *)
LEMMA HandlerFacts ==
  ASSUME RequestsInv, NEW h \in Handlers
  PROVE  /\ JobRow(jobs[h]) /\ ServerOK /\ version \in Nat /\ clicks \in Nat
         /\ jobs[h].click \in ItemNumbers
         /\ jobs[h].pc # "idle" => jobs[h].tab \in Tabs /\ user[jobs[h].tab] \in Users
BY DEF RequestsInv, PagesOK, ServerOK, JobRow

LEMMA ServerStays ==
  ASSUME RequestsInv, UNCHANGED server
  PROVE  ServerOK' /\ version' >= version
BY DEF RequestsInv, server, ServerOK

LEMMA SendClickKeeps ==
  ASSUME RequestsInv, NEW h \in Handlers, NEW t \in Tabs, NEW k \in Clicks, SendClick(h, t, k)
  PROVE  RequestsInv'
<1>1. clicks \in Nat /\ clicks < MaxClicks /\ clicks' = clicks + 1
  BY DEF SendClick, RequestsInv, PagesOK
<1>2. PICK n \in ItemNumbers : n = clicks + 1
  BY <1>1, ClicksAssumption DEF ItemNumbers
<1>3. PICK j : j = [pc |-> "sent", tab |-> t, clicked |-> k.kind, kind |-> k.kind,
                    item |-> k.item, file |-> k.file, seen |-> query[t].data.items,
                    click |-> n, answer |-> None]
  OBVIOUS
<1>4. JobRow(j)
  BY <1>3 DEF JobRow
<1>5. SetJob(h, j)
  BY <1>2, <1>3 DEF SendClick
<1>6. UNCHANGED <<server, query, open, acked>> /\ clicks' \in Nat
  BY <1>1 DEF SendClick
<1> QED BY <1>4, <1>5, <1>6, ServerStays, PutJob

LEMMA ServeKeeps ==
  ASSUME RequestsInv, NEW h \in Handlers, Serve(h)
  PROVE  RequestsInv'
<1>1. /\ jobs[h].pc = "sent" /\ Execute(user[jobs[h].tab], jobs[h])
      /\ SetJob(h, [jobs[h] EXCEPT !.pc = "served"])
      /\ UNCHANGED <<query, open, clicks, acked>>
  BY DEF Serve
<1>2. JobRow([jobs[h] EXCEPT !.pc = "served"])
  BY <1>1, HandlerFacts DEF JobRow
<1>3. ServerOK' /\ version' >= version
  BY <1>1, HandlerFacts, ExecuteKeepsServer
<1> QED BY <1>1, <1>2, <1>3, HandlerFacts, PutJob

LEMMA ElsewhereKeeps ==
  ASSUME RequestsInv, NEW u \in Users, NEW k \in Clicks, Elsewhere(u, k)
  PROVE  RequestsInv'
<1>1. clicks \in Nat /\ clicks < MaxClicks /\ clicks' = clicks + 1 /\ ServerOK /\ version \in Nat
  BY DEF Elsewhere, RequestsInv, PagesOK, ServerOK
<1>2. PICK n \in ItemNumbers : n = clicks + 1
  BY <1>1, ClicksAssumption DEF ItemNumbers
<1>3. PICK j : j = [IdleJob EXCEPT !.clicked = k.kind, !.kind = k.kind, !.item = k.item,
                                   !.click = n]
  OBVIOUS
<1>4. j.click = n
  BY <1>3 DEF IdleJob
<1>5. Execute(u, j) /\ UNCHANGED <<query, open, jobs, acked>>
  BY <1>2, <1>3 DEF Elsewhere
<1>6. ServerOK' /\ version' = version + 1
  BY <1>1, <1>4, <1>5, ExecuteKeepsServer
<1>7. PagesOK'
  BY <1>1, <1>5 DEF RequestsInv, PagesOK
<1>8. AckedInv'
  BY <1>1, <1>5, <1>6 DEF RequestsInv, PagesOK, AckedInv
<1> QED BY <1>6, <1>7, <1>8 DEF RequestsInv

LEMMA DropKeeps ==
  ASSUME RequestsInv, NEW h \in Handlers, Refuse(h) \/ Lose(h)
  PROVE  RequestsInv'
<1>1. SetJob(h, IdleJob) /\ UNCHANGED <<server, query, open, clicks, acked>>
  BY DEF Refuse, Lose
<1> QED BY <1>1, EmptyRows, HandlerFacts, ServerStays, PutJob

LEMMA PostAnswerKeeps ==
  ASSUME RequestsInv, NEW h \in Handlers, PostAnswer(h)
  PROVE  RequestsInv'
<1>1. PICK r : /\ SetJob(h, [jobs[h] EXCEPT !.pc = "sent", !.kind = "respond", !.answer = r])
               /\ jobs[h].pc = "served" /\ UNCHANGED <<server, query, open, clicks, acked>>
  BY DEF PostAnswer
<1>2. JobRow([jobs[h] EXCEPT !.pc = "sent", !.kind = "respond", !.answer = r])
  BY <1>1, HandlerFacts DEF JobRow
<1> QED BY <1>1, <1>2, HandlerFacts, ServerStays, PutJob

LEMMA AcknowledgeKeeps ==
  ASSUME RequestsInv, NEW h \in Handlers, Acknowledge(h)
  PROVE  RequestsInv'
<1> DEFINE t == jobs[h].tab
<1>1. /\ jobs[h].pc = "served" /\ t \in Tabs /\ JobRow(jobs[h])
      /\ UNCHANGED <<server, clicks>> /\ SetJob(h, AfterSave(jobs[h]))
  BY HandlerFacts DEF Acknowledge
<1>2. JobRow(AfterSave(jobs[h]))
  <2>1. CASE AfterSave(jobs[h]) = IdleJob
    BY <2>1, EmptyRows
  <2>2. CASE AfterSave(jobs[h]) = [jobs[h] EXCEPT !.pc = "sent", !.kind = "upload"]
    BY <1>1, <2>2 DEF JobRow
  <2>3. CASE \E i : AfterSave(jobs[h]) =
                    [jobs[h] EXCEPT !.pc = "sent", !.kind = "upload", !.item = i]
    BY <1>1, <2>3 DEF JobRow
  <2> QED BY <2>1, <2>2, <2>3, Zenon DEF AfterSave
<1>3. jobs' = [g \in Handlers |-> jobs'[g]] /\ \A g \in Handlers : JobRow(jobs'[g])
  BY <1>1, <1>2 DEF RequestsInv, PagesOK, SetJob
<1>4. PICK q : /\ query' = [query EXCEPT ![t] = q] /\ QueryRow(q) /\ q.stale
               /\ t \in open => q.fetch = "sent"
               /\ t \notin open => /\ q.fetch = query[t].fetch /\ q.reply = query[t].reply
                                  /\ q.outrun = (q.fetch = "back")
  <2>1. QueryRow(query[t])
    BY <1>1 DEF RequestsInv, PagesOK
  <2>2. PICK r : r = [query[t] EXCEPT !.stale = TRUE]
    OBVIOUS
  <2>3. QueryRow(r) /\ r.stale /\ r.fetch = query[t].fetch /\ r.reply = query[t].reply
    BY <2>1, <2>2 DEF QueryRow
  <2>4. PICK o \in BOOLEAN : o = (r.fetch = "back")
    OBVIOUS
  <2>5. PICK q : q = IF t \in open THEN Refetch(r) ELSE [r EXCEPT !.outrun = o]
    OBVIOUS
  <2>6. query' = [query EXCEPT ![t] = q]
    BY <2>2, <2>4, <2>5 DEF Acknowledge, Invalidated
  <2>7. CASE t \in open
    <3>1. q = Refetch(r)
      BY <2>5, <2>7
    <3>2. q.stale
      BY <2>3, <3>1 DEF Refetch, QueryRow
    <3> QED BY <2>3, <2>6, <2>7, <3>1, <3>2, RefetchFacts
  <2>8. CASE t \notin open
    <3>1. q = [r EXCEPT !.outrun = o]
      BY <2>5, <2>8
    <3>2. /\ QueryRow(q) /\ q.stale /\ q.fetch = r.fetch /\ q.reply = r.reply
          /\ q.outrun = o
      BY <2>3, <3>1 DEF QueryRow
    <3> QED BY <2>3, <2>4, <2>6, <2>8, <3>2
  <2> QED BY <2>7, <2>8
<1>5. query' = [s \in Tabs |-> query'[s]]
      /\ \A s \in Tabs : query'[s] = IF s = t THEN q ELSE query[s]
  BY <1>1, <1>4 DEF RequestsInv, PagesOK
<1>6. /\ open' \subseteq open /\ \A s \in Tabs \ {t} : s \in open' <=> s \in open
      /\ open \subseteq Tabs
  BY DEF Acknowledge, RequestsInv, PagesOK
<1>7. /\ acked' \in [Tabs -> Nat] /\ version' = version /\ version \in Nat
      /\ \A s \in Tabs : acked'[s] = IF s = t THEN version ELSE acked[s]
  <2>1. acked \in [Tabs -> Nat] /\ version \in Nat /\ version' = version
    BY DEF RequestsInv, PagesOK, ServerOK, Acknowledge, server
  <2>2. acked' = [acked EXCEPT ![t] = version]
    BY DEF Acknowledge
  <2> QED BY <1>1, <2>1, <2>2
<1>8. ServerOK'
  BY <1>1, ServerStays
<1>9. PagesOK'
  <2>1. \A s \in Tabs : QueryRow(query'[s])
    BY <1>4, <1>5 DEF RequestsInv, PagesOK
  <2>2. clicks' \in Nat
    BY <1>1 DEF RequestsInv, PagesOK
  <2> QED BY <1>3, <1>5, <1>6, <1>7, <2>1, <2>2 DEF PagesOK
<1>10. AckedInv'
  <2> SUFFICES ASSUME NEW s \in Tabs
               PROVE  acked'[s] <= version' /\ QueryInv(query'[s], s \in open', acked'[s])
    BY DEF AckedInv
  <2>1. acked[s] <= version /\ QueryInv(query[s], s \in open, acked[s])
    BY DEF RequestsInv, AckedInv
  <2>2. acked'[s] <= version'
    BY <1>7, <2>1
  <2>3. CASE s # t
    <3>1. query'[s] = query[s] /\ (s \in open' <=> s \in open) /\ acked'[s] = acked[s]
      BY <1>5, <1>6, <1>7, <2>3
    <3> QED BY <2>1, <2>2, <3>1 DEF QueryInv
  <2>4. CASE s = t /\ t \in open
    <3>1. query'[s].fetch = "sent"
      BY <1>4, <1>5, <2>4
    <3> QED BY <2>2, <3>1 DEF QueryInv
  <2>5. CASE s = t /\ t \notin open
    <3>1. /\ query'[s] = q /\ q.stale /\ q.fetch = query[s].fetch /\ q.reply = query[s].reply
          /\ q.outrun = (q.fetch = "back") /\ s \notin open'
      BY <1>4, <1>5, <1>6, <2>5
    <3> QED BY <2>1, <2>2, <3>1 DEF QueryInv
  <2> QED BY <2>3, <2>4, <2>5
<1> QED BY <1>8, <1>9, <1>10 DEF RequestsInv

-----------------------------------------------------------------------------
LEMMA RequestsInitInv == Init => RequestsInv
<1> SUFFICES ASSUME Init
             PROVE  RequestsInv
  OBVIOUS
<1>1. PICK s \in Starts : claim = s.claim /\ items = s.items
  BY DEF Init
<1>2. claim \in ClaimRows /\ items \in Seq(ItemNumbers)
  BY <1>1, StartsAssumption
<1>3. ServerOK
  BY <1>2 DEF Init, ServerOK
<1>4. PagesOK
  BY EmptyRows DEF Init, PagesOK
<1>5. AckedInv
  <2>1. QueryInv(NoQuery, FALSE, 0)
    BY DEF QueryInv, NoQuery, NoDetail
  <2>2. /\ version = 0 /\ open = {}
        /\ \A t \in Tabs : query[t] = NoQuery /\ acked[t] = 0
    BY DEF Init
  <2>3. \A t \in Tabs : acked[t] <= version
    BY <2>2
  <2>4. \A t \in Tabs : QueryInv(query[t], t \in open, acked[t])
    BY <2>1, <2>2 DEF QueryInv
  <2> QED BY <2>3, <2>4 DEF AckedInv
<1> QED BY <1>3, <1>4, <1>5 DEF RequestsInv

LEMMA RequestsNextInv == RequestsInv /\ [Next]_vars => RequestsInv'
<1> SUFFICES ASSUME RequestsInv, [Next]_vars
             PROVE  RequestsInv'
  OBVIOUS
<1>1. ASSUME NEW t \in Tabs,
             \/ OpenPage(t) \/ LeavePage(t)
             \/ ServeFetch(t) \/ FetchArrives(t) \/ FetchFails(t) \/ Retry(t)
      PROVE  RequestsInv'
  BY <1>1, OpenPageKeeps, LeavePageKeeps, ServeFetchKeeps, FetchArrivesKeeps, FetchFailsKeeps,
     RetryKeeps
<1>2. ASSUME NEW u \in Users, NEW k \in Clicks, Elsewhere(u, k)
      PROVE  RequestsInv'
  BY <1>2, ElsewhereKeeps
<1>3. ASSUME NEW h \in Handlers,
             \/ \E t \in Tabs, k \in Clicks : SendClick(h, t, k)
             \/ Serve(h) \/ Refuse(h) \/ Lose(h) \/ PostAnswer(h) \/ Acknowledge(h)
      PROVE  RequestsInv'
  BY <1>3, SendClickKeeps, ServeKeeps, DropKeeps, PostAnswerKeeps, AcknowledgeKeeps
<1>4. CASE UNCHANGED vars
  BY <1>4 DEF vars, RequestsInv, ServerOK, PagesOK, AckedInv
<1> QED BY <1>1, <1>2, <1>3, <1>4 DEF Next

\* The server's columns keep their types whatever the tabs send, a tab has heard of no
\* version the server has not reached, and what a tab takes for valid, or is about to
\* show, is of after every change of its own that it was told had succeeded.
THEOREM RequestsInvariance == Spec => []RequestsInv
BY RequestsInitInv, RequestsNextInv, PTL DEF Spec

-----------------------------------------------------------------------------
(* What a page offers beside what the server accepts, kind by kind.        *)

LEMMA EditPageOffersAccepted ==
  ASSUME ServerOK, NEW u \in Users, NEW k \in Clicks, claim.claimant = u,
         EditPageOffers(Detail, k)
  PROVE  \/ Accepts(u, k.kind, k.item)
         \/ k.kind = "delete" /\ claim.status = "PENDING_APPROVAL" /\ Len(items) = 1
<1>1. Detail.claim = claim /\ Detail.items = items
  BY DEF Detail
<1>2. claim.status \in {"DRAFT", "REJECTED", "PENDING_APPROVAL"}
  BY <1>1 DEF EditPageOffers, ClientIsEditableStatus
<1>3. IsEditableStatus(claim.status) /\ \A i : ReceiptChangeAllowed(i)
  BY <1>2 DEF IsEditableStatus, ReceiptChangeAllowed
<1>4. CASE k.kind \in {"add", "edit"}
  BY <1>1, <1>3, <1>4 DEF EditPageOffers, Accepts
<1>5. CASE k.kind = "delete"
  <2>1. k.item \in ToSet(items)
    BY <1>1, <1>5 DEF EditPageOffers
  <2>2. Len(items) \in Nat /\ DOMAIN items = 1..Len(items)
    BY LenProperties DEF ServerOK
  <2>3. \E i \in 1..Len(items) : TRUE
    BY <2>1, <2>2 DEF ToSet
  <2>4. Len(items) > 1 \/ Len(items) = 1
    BY <2>2, <2>3
  <2> QED BY <1>3, <1>5, <2>1, <2>4 DEF Accepts
<1>6. CASE k.kind \in {"upload", "remove"}
  BY <1>1, <1>3, <1>6 DEF EditPageOffers, Accepts
<1>7. CASE k.kind \in {"submit", "cancel"}
  BY <1>1, <1>2, <1>7 DEF EditPageOffers, Accepts, IsSubmittableStatus, IsCancellable
<1> QED BY <1>4, <1>5, <1>6, <1>7 DEF EditPageOffers

LEMMA DetailPageOffersAccepted ==
  ASSUME ServerOK, NEW u \in Users, NEW k \in Clicks, DetailPageOffers(Detail, u, k)
  PROVE  \/ Accepts(u, k.kind, k.item)
         \/ k.kind = "attach" /\ claim.status = "PENDING_FINANCE_APPROVAL"
<1>1. Detail.claim = claim /\ Detail.items = items
  BY DEF Detail
<1>2. claim.assignedApprover = u => Role[u] = "APPROVER"
  BY NoneAssumption DEF ServerOK, ClaimRows, Approvers
<1>3. CASE claim.claimant = u
  <2>1. ClientIsInReview(claim.status) /\ k.kind \in {"attach", "respond"} /\ k.item = None
    BY <1>1, <1>3 DEF DetailPageOffers
  <2>2. CASE k.kind = "attach"
    BY <1>3, <2>1, <2>2
       DEF Accepts, ClientIsInReview, ReceiptChangeAllowed, IsEditableStatus
  <2>3. CASE k.kind = "respond"
    BY <1>3, <2>1, <2>3 DEF Accepts, ClientIsInReview, IsRespondableBy, IsInReview
  <2> QED BY <2>1, <2>2, <2>3
<1>4. CASE claim.claimant # u
  <2>1. \/ k.kind \in {"approve", "reject", "ask"} /\ ClientCanDecide(claim, u)
        \/ k.kind = "reassign" /\ ClientCanReassign(claim, u)
    BY <1>1, <1>4 DEF DetailPageOffers
  <2>2. CASE k.kind \in {"approve", "reject", "ask"}
    BY <1>2, <1>4, <2>1, <2>2
       DEF Accepts, ClientCanDecide, ClientIsInReview, ClientIsAtFinanceStage, IsDecisionMaker,
           IsDecidableBy, IsInReview, IsAtFinanceStage
  <2>3. CASE k.kind = "reassign"
    BY <1>2, <1>4, <2>1, <2>3
       DEF Accepts, ClientCanReassign, IsDecisionMaker, IsReassignableBy, IsReassignable
  <2> QED BY <2>1, <2>2, <2>3
<1> QED BY <1>3, <1>4

\* With what the server has in its cache, a tab offers nothing the server refuses, but
\* for the two exceptions: for every assignment of roles, every claim the tabs may
\* find, and every number of tabs, handlers and clicks.
THEOREM PagesOfferWhatIsAccepted == Spec => []OfferedIsAccepted
<1>1. RequestsInv => OfferedIsAccepted
  <2> SUFFICES ASSUME RequestsInv, NEW t \in Tabs, query[t].data = Detail, NEW k \in Clicks,
                      Offers(Detail, user[t], k)
               PROVE  \/ Accepts(user[t], k.kind, k.item)
                      \/ /\ k.kind = "delete" /\ claim.status = "PENDING_APPROVAL"
                         /\ Len(items) = 1
                      \/ k.kind = "attach" /\ claim.status = "PENDING_FINANCE_APPROVAL"
    BY DEF OfferedIsAccepted
  <2>1. ServerOK /\ user[t] \in Users /\ Detail.claim = claim
    BY DEF RequestsInv, ServerOK, Detail
  <2> QED BY <2>1, EditPageOffersAccepted, DetailPageOffersAccepted DEF Offers
<1> QED BY <1>1, RequestsInvariance, PTL

\* A page that neither fetches nor shows an error shows every change its own user was
\* told had succeeded, on this page or another, whatever was under way, lost or refused
\* meanwhile; unless it shows an answer the user was told after, having left the page.
THEOREM PagesShowTheirOwnChanges == Spec => []OwnChangesShown
<1>1. RequestsInv => OwnChangesShown
  <2> SUFFICES ASSUME RequestsInv, NEW t \in open, query[t].fetch = "none", ~query[t].failed
               PROVE  query[t].data.version >= acked[t] \/ query[t].outrun
    BY DEF OwnChangesShown
  <2>1. t \in Tabs /\ QueryInv(query[t], TRUE, acked[t])
    BY DEF RequestsInv, PagesOK, AckedInv, QueryInv
  <2> QED BY <2>1 DEF QueryInv
<1> QED BY <1>1, RequestsInvariance, PTL
=============================================================================
