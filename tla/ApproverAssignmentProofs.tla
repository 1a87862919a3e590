----------------------- MODULE ApproverAssignmentProofs -----------------------
(***************************************************************************)
(* Proofs that dealing keeps loads level and turns in order, for any       *)
(* number of approvers and claims.                                         *)
(*                                                                         *)
(* A submission waiting to commit was counted when its approver was least  *)
(* loaded; what commits meanwhile enters the bound as it changes the       *)
(* loads.  And an approver none of whose claims has moved still has the    *)
(* claim he was last given, with the time it was given.                    *)
(***************************************************************************)
EXTENDS ApproverAssignment, FiniteSetTheorems, TLAPS

\* a has at most n more open claims than undealt changes explain.
IsLevel(a, n) ==
  \A b \in Approvers \ away : Load(a) <= Load(b) + n + came[a] + gone[b]

DealInv ==
  /\ Approvers \ active \subseteq away
  /\ deal # None => IsSubmittable(deal.claim) /\ IsLevel(deal.to, 0)

ClockInv == now # 0 /\ \A c \in Claims : claim[c].submittedAt <= now

RecencyInv == \A a \in Approvers \ shuffled :
  /\ \A c \in SubmittedTo(a) : claim[c].submittedAt <= assigned[a]
  /\ assigned[a] # 0 => \E c \in SubmittedTo(a) : claim[c].submittedAt = assigned[a]

IInv == TypeOK /\ DealInv /\ LoadsStayLevel /\ ClockInv /\ RecencyInv

-----------------------------------------------------------------------------
(* What a change of one claim makes of the loads.                          *)

LEMMA LoadType == \A a : IsFiniteSet(OpenOf(a)) /\ Load(a) \in Nat
<1>1. ASSUME NEW a PROVE IsFiniteSet(OpenOf(a))
  BY ClaimsAssumption, FS_Subset DEF OpenOf
<1> QED BY <1>1, FS_CardinalityType DEF Load

\* The claim c is among a's open ones, or not.
Has(a, c) == claim[c].approver = a /\ claim[c].stage = "approver"

LEMMA LoadAfter ==
  ASSUME NEW c \in Claims, NEW a,
         \A d \in Claims \ {c} : claim'[d] = claim[d]
  PROVE  /\ Load(a) \in Nat /\ Load(a)' \in Nat
         /\ (Has(a, c)' <=> Has(a, c)) => Load(a)' = Load(a)
         /\ Has(a, c)' /\ ~Has(a, c) => Load(a)' = Load(a) + 1
         /\ ~Has(a, c)' /\ Has(a, c) => Load(a) = Load(a)' + 1
<1>1. OpenOf(a)' = IF Has(a, c)' THEN OpenOf(a) \cup {c} ELSE OpenOf(a) \ {c}
  BY DEF OpenOf, Has
<1>2. c \in OpenOf(a) <=> Has(a, c)
  BY DEF OpenOf, Has
<1>3. IsFiniteSet(OpenOf(a)) /\ Load(a) \in Nat
  BY LoadType
<1>4. /\ IsFiniteSet(OpenOf(a)')
      /\ Load(a)' = IF Has(a, c)' THEN (IF c \in OpenOf(a) THEN Load(a) ELSE Load(a) + 1)
                    ELSE (IF c \in OpenOf(a) THEN Load(a) - 1 ELSE Load(a))
  BY <1>1, <1>3, FS_AddElement, FS_RemoveElement DEF Load
<1>5. Load(a)' \in Nat
  BY <1>4, FS_CardinalityType DEF Load
<1> QED BY <1>2, <1>3, <1>4, <1>5

LEMMA InitIInv == Init => IInv
<1> SUFFICES ASSUME Init PROVE IInv
  OBVIOUS
<1>1. TypeOK
  BY ApproversAssumption, LeaversAssumption DEF Init, TypeOK, Stages
<1>2. \A a \in Approvers : OpenOf(a) = {} /\ SubmittedTo(a) = {}
  BY DEF Init, OpenOf, SubmittedTo
<1>3. \A a \in Approvers : Load(a) = 0
  BY <1>2, FS_EmptySet DEF Load
<1>4. LoadsStayLevel
  BY <1>3 DEF Init, LoadsStayLevel
<1>5. DealInv /\ ClockInv
  BY DEF Init, DealInv, ClockInv
<1>6. RecencyInv
  BY <1>2 DEF Init, RecencyInv
<1> QED BY <1>1, <1>4, <1>5, <1>6 DEF IInv

-----------------------------------------------------------------------------
LEMMA PickInv ==
  ASSUME IInv, NEW c \in Claims, NEW isResubmit \in BOOLEAN, Pick(c, isResubmit)
  PROVE  IInv'
<1> USE DEF IInv
<1>1. PICK a \in active : /\ \A b \in active : RanksBefore(a, b)
                          /\ deal' = [claim |-> c, to |-> a]
  BY DEF Pick
<1>2. UNCHANGED <<active, claim, now, away, assigned, shuffled, came, gone>>
  BY DEF Pick, History
<1>3. a \in Approvers
  BY DEF TypeOK
<1>4. \A b : Load(b)' = Load(b) /\ OpenOf(b)' = OpenOf(b) /\ SubmittedTo(b)' = SubmittedTo(b)
  BY <1>2 DEF Load, OpenOf, SubmittedTo
<1>5. TypeOK'
  BY <1>1, <1>2, <1>3 DEF TypeOK
<1>6. IsLevel(a, 0)'
  <2> SUFFICES ASSUME NEW b \in Approvers \ away
               PROVE  Load(a) <= Load(b) + 0 + came[a] + gone[b]
    BY <1>2, <1>4 DEF IsLevel
  <2>1. b \in active
    BY DEF DealInv
  <2>2. Load(a) <= Load(b)
    BY <1>1, <2>1, LoadType DEF RanksBefore
  <2>3. came[a] \in Nat /\ gone[b] \in Nat
    BY <1>3 DEF TypeOK
  <2> QED BY <2>2, <2>3, LoadType
<1>7. DealInv'
  BY <1>1, <1>2, <1>6 DEF DealInv, Pick, IsSubmittable
<1>8. LoadsStayLevel'
  BY <1>2, <1>4 DEF LoadsStayLevel
<1>9. ClockInv' /\ RecencyInv'
  BY <1>2, <1>4 DEF ClockInv, RecencyInv
<1> QED BY <1>5, <1>7, <1>8, <1>9

(* A claim is submitted to a: what it makes of loads and recency.          *)
LEMMA SubmitFacts ==
  ASSUME IInv, NEW c \in Claims, IsSubmittable(c), NEW a \in Approvers,
         NEW t \in Times, now' = t, Submit(c, a, t)
  PROVE  /\ t \in Nat /\ now <= t
         /\ Load(a)' = Load(a) + 1
         /\ \A b \in Approvers \ {a} : Load(b)' = Load(b)
         /\ ClockInv'
         /\ \A b \in Approvers \ {a} : b # claim[c].approver =>
              /\ SubmittedTo(b)' = SubmittedTo(b)
              /\ \A d \in SubmittedTo(b) : claim'[d] = claim[d]
         /\ \A d \in SubmittedTo(a)' : claim'[d].submittedAt <= t
         /\ c \in SubmittedTo(a)' /\ claim'[c].submittedAt = t /\ t # 0
<1> USE DEF IInv
<1>1. t \in Nat /\ now <= t /\ t # 0
  BY DEF Times, TypeOK, ClockInv
<1>2. /\ claim'[c] = [stage |-> "approver", approver |-> a, submittedAt |-> t]
      /\ \A d \in Claims \ {c} : claim'[d] = claim[d]
  BY DEF Submit, TypeOK
<1>3. \A b : ~Has(b, c)
  BY DEF IsSubmittable, Has
<1>4. \A b \in Approvers : Has(b, c)' <=> b = a
  BY <1>2 DEF Has
<1>5. Load(a)' = Load(a) + 1
  BY <1>2, <1>3, <1>4, LoadAfter
<1>6. \A b \in Approvers \ {a} : Load(b)' = Load(b)
  BY <1>2, <1>3, <1>4, LoadAfter
<1>7. ASSUME NEW d \in Claims PROVE claim'[d].submittedAt <= t
  BY <1>1, <1>2 DEF ClockInv, TypeOK
<1>8. ClockInv'
  BY <1>1, <1>7 DEF ClockInv
<1>9. ASSUME NEW b \in Approvers \ {a}, b # claim[c].approver
      PROVE  /\ SubmittedTo(b)' = SubmittedTo(b)
             /\ \A d \in SubmittedTo(b) : claim'[d] = claim[d]
  BY <1>2, <1>9 DEF SubmittedTo
<1>10. c \in SubmittedTo(a)' /\ claim'[c].submittedAt = t
  BY <1>1, <1>2 DEF SubmittedTo
<1>11. \A d \in SubmittedTo(a)' : claim'[d].submittedAt <= t
  BY <1>7 DEF SubmittedTo
<1> QED BY <1>1, <1>5, <1>6, <1>8, <1>9, <1>10, <1>11

LEMMA SubmitType ==
  ASSUME TypeOK, NEW c \in Claims, NEW a \in Approvers, NEW t \in Nat, Submit(c, a, t)
  PROVE  /\ claim' \in [Claims -> [stage : Stages, approver : Approvers \cup {None},
                                   submittedAt : Nat]]
         /\ \A d \in Claims : claim'[d].stage = "approver" => claim'[d].approver # None
BY ApproversAssumption DEF TypeOK, Submit, Stages

(* The claims of everyone else, and so their recency, are as before.       *)
LEMMA SubmitKeepsRecency ==
  ASSUME IInv, NEW c \in Claims, IsSubmittable(c), NEW a \in Approvers,
         NEW t \in Times, now' = t, Submit(c, a, t),
         assigned' = [assigned EXCEPT ![a] = t],
         \A b \in Approvers \ shuffled' :
           b = a \/ (b \notin shuffled /\ b # claim[c].approver)
  PROVE  RecencyInv'
<1>1. SUFFICES ASSUME NEW b \in Approvers, b \notin shuffled'
      PROVE  /\ \A d \in SubmittedTo(b)' : claim'[d].submittedAt <= assigned'[b]
             /\ assigned'[b] # 0 =>
                  \E d \in SubmittedTo(b)' : claim'[d].submittedAt = assigned'[b]
  BY DEF RecencyInv
<1>2. assigned'[b] = IF b = a THEN t ELSE assigned[b]
  BY DEF IInv, TypeOK
<1>3. CASE b = a
  BY <1>2, <1>3, SubmitFacts
<1>4. CASE b # a
  <2>1. b \notin shuffled /\ b # claim[c].approver
    BY <1>1, <1>4
  <2>2. /\ SubmittedTo(b)' = SubmittedTo(b)
        /\ \A d \in SubmittedTo(b) : claim'[d] = claim[d]
    BY <1>4, <2>1, SubmitFacts
  <2> QED BY <1>2, <1>4, <2>1, <2>2 DEF IInv, RecencyInv
<1> QED BY <1>3, <1>4

LEMMA DealKeepsInv == ASSUME IInv, Deal PROVE IInv'
<1> USE DEF IInv
<1>1. PICK c \in Claims, a \in Approvers :
        deal # None /\ c = deal.claim /\ a = deal.to /\ IsSubmittable(c)
  BY DEF Deal, TypeOK, DealInv
<1>2. PICK t \in Times : /\ now' = t
                         /\ Submit(c, a, t)
                         /\ assigned' = [assigned EXCEPT ![a] = t]
  BY <1>1 DEF Deal
<1>3. /\ shuffled' = (shuffled \cup ({claim[c].approver} \ {None})) \ {a}
      /\ deal' = None
      /\ UNCHANGED <<active, came, gone, away>>
  BY <1>1 DEF Deal
<1>4. /\ t \in Nat
      /\ Load(a)' = Load(a) + 1
      /\ \A b \in Approvers \ {a} : Load(b)' = Load(b)
      /\ ClockInv'
  BY <1>1, <1>2, SubmitFacts
<1>5. TypeOK'
  <2>1. claim[c].approver \in Approvers \cup {None}
    BY <1>1 DEF TypeOK
  <2> QED BY <1>1, <1>2, <1>3, <1>4, <2>1, SubmitType DEF TypeOK
<1>6. DealInv'
  BY <1>3 DEF DealInv
<1>7. LoadsStayLevel'
  <2> SUFFICES ASSUME NEW d \in Approvers, NEW b \in Approvers \ away
               PROVE  Load(d)' <= Load(b)' + 1 + came[d] + gone[b]
    BY <1>3 DEF LoadsStayLevel
  <2>1. /\ Load(d) \in Nat /\ Load(b) \in Nat
        /\ came[d] \in Nat /\ gone[b] \in Nat
    BY LoadType DEF TypeOK
  <2>2. Load(d) <= Load(b) + 1 + came[d] + gone[b]
    BY DEF LoadsStayLevel
  <2>3. d = a => Load(d) <= Load(b) + 0 + came[d] + gone[b]
    BY <1>1 DEF DealInv, IsLevel
  <2> QED BY <1>1, <1>4, <2>1, <2>2, <2>3
<1>8. RecencyInv'
  <2>1. ASSUME NEW b \in Approvers \ shuffled'
        PROVE  b = a \/ (b \notin shuffled /\ b # claim[c].approver)
    BY <1>3, ApproversAssumption
  <2> QED BY <1>1, <1>2, <2>1, SubmitKeepsRecency
<1> QED BY <1>4, <1>5, <1>6, <1>7, <1>8

LEMMA ResubmitInv == ASSUME IInv, NEW c \in Claims, Resubmit(c) PROVE IInv'
<1> USE DEF IInv
<1>1. PICK a \in Approvers :
        a = claim[c].approver /\ IsSubmittable(c) /\ IsUnlocked(c)
  BY DEF Resubmit, StaysWith, TypeOK
<1>2. PICK t \in Times : /\ now' = t
                         /\ Submit(c, a, t)
                         /\ assigned' = [assigned EXCEPT ![a] = t]
  BY <1>1 DEF Resubmit
<1>3. /\ shuffled' = shuffled \ {a}
      /\ came' = [came EXCEPT ![a] = @ + 1]
      /\ UNCHANGED <<active, deal, gone, away>>
  BY <1>1 DEF Resubmit
<1>4. /\ t \in Nat
      /\ Load(a)' = Load(a) + 1
      /\ \A b \in Approvers \ {a} : Load(b)' = Load(b)
      /\ ClockInv'
  BY <1>1, <1>2, SubmitFacts
<1>5. TypeOK'
  BY <1>1, <1>2, <1>3, <1>4, SubmitType DEF TypeOK
<1>6. ASSUME NEW d \in Approvers, NEW b \in Approvers, NEW n \in Nat,
             Load(d) <= Load(b) + n + came[d] + gone[b]
      PROVE  Load(d)' <= Load(b)' + n + came'[d] + gone'[b]
  <2>1. /\ Load(d) \in Nat /\ Load(b) \in Nat
        /\ came[d] \in Nat /\ gone[b] \in Nat
    BY LoadType DEF TypeOK
  <2>2. came'[d] = IF d = a THEN came[d] + 1 ELSE came[d]
    BY <1>3 DEF TypeOK
  <2> QED BY <1>1, <1>3, <1>4, <1>6, <2>1, <2>2
<1>7. LoadsStayLevel'
  BY <1>3, <1>6 DEF LoadsStayLevel
<1>8. DealInv'
  <2>1. deal # None => deal.to \in Approvers /\ deal.claim \in Claims \ {c}
    BY <1>1 DEF TypeOK, IsUnlocked
  <2>2. deal # None => IsLevel(deal.to, 0)'
    BY <1>3, <1>6, <2>1 DEF DealInv, IsLevel
  <2>3. deal # None => IsSubmittable(deal.claim)'
    BY <1>2, <1>3, <2>1 DEF DealInv, IsSubmittable, Submit, TypeOK
  <2> QED BY <1>3, <2>2, <2>3 DEF DealInv
<1>9. RecencyInv'
  <2>1. ASSUME NEW b \in Approvers \ shuffled'
        PROVE  b = a \/ (b \notin shuffled /\ b # claim[c].approver)
    BY <1>1, <1>3
  <2> QED BY <1>1, <1>2, <2>1, SubmitKeepsRecency
<1> QED BY <1>4, <1>5, <1>7, <1>8, <1>9

-----------------------------------------------------------------------------
(* Steps that change the stage of a claim, or its approver, and leave when *)
(* it was submitted.                                                       *)
LEMMA StageKeepsRest ==
  ASSUME IInv, NEW c \in Claims, NEW stage \in Stages, stage # "approver",
         claim' = [claim EXCEPT ![c].stage = stage],
         UNCHANGED <<now, assigned, shuffled>>
  PROVE  /\ ClockInv' /\ RecencyInv'
         /\ claim' \in [Claims -> [stage : Stages, approver : Approvers \cup {None},
                                   submittedAt : Nat]]
         /\ \A d \in Claims : claim'[d].stage = "approver" => claim'[d].approver # None
<1> USE DEF IInv
<1>1. \A d \in Claims : /\ claim'[d].approver = claim[d].approver
                        /\ claim'[d].submittedAt = claim[d].submittedAt
                        /\ claim'[d].stage = IF d = c THEN stage ELSE claim[d].stage
  BY DEF TypeOK
<1>2. \A a : SubmittedTo(a)' = SubmittedTo(a)
  BY <1>1 DEF SubmittedTo
<1>3. ClockInv'
  BY <1>1 DEF ClockInv
<1>4. RecencyInv'
  <2>1. \A a : \A d \in SubmittedTo(a) : claim'[d].submittedAt = claim[d].submittedAt
    BY <1>1 DEF SubmittedTo
  <2> QED BY <1>2, <2>1 DEF RecencyInv
<1>5. claim' \in [Claims -> [stage : Stages, approver : Approvers \cup {None},
                             submittedAt : Nat]]
  BY DEF TypeOK
<1> QED BY <1>1, <1>3, <1>4, <1>5 DEF TypeOK

LEMMA LeaveInv ==
  ASSUME IInv, NEW c \in Claims, NEW stage \in {"finance", "returned", "closed"},
         Leave(c, stage)
  PROVE  IInv'
<1> USE DEF IInv
<1>1. PICK a \in Approvers :
      /\ claim[c].stage = "approver" /\ a = claim[c].approver
      /\ claim' = [claim EXCEPT ![c].stage = stage]
      /\ gone' = [gone EXCEPT ![a] = @ + 1]
      /\ UNCHANGED <<active, deal, now, assigned, shuffled, came, away>>
  BY DEF Leave, TypeOK
<1>2. stage \in Stages /\ stage # "approver"
  BY DEF Stages
<1>3. /\ ClockInv' /\ RecencyInv'
      /\ claim' \in [Claims -> [stage : Stages, approver : Approvers \cup {None},
                                submittedAt : Nat]]
      /\ \A d \in Claims : claim'[d].stage = "approver" => claim'[d].approver # None
  BY <1>1, <1>2, StageKeepsRest
<1>4. TypeOK'
  BY <1>1, <1>3 DEF TypeOK
<1>5. /\ \A d \in Claims \ {c} : claim'[d] = claim[d]
      /\ claim'[c].stage = stage
  BY <1>1 DEF TypeOK
<1>6. ~Has(a, c)' /\ Has(a, c) /\ \A b \in Approvers \ {a} : ~Has(b, c) /\ ~Has(b, c)'
  BY <1>1, <1>2, <1>5 DEF Has
<1>7. /\ Load(a) = Load(a)' + 1 /\ Load(a)' \in Nat
      /\ \A b \in Approvers \ {a} : Load(b)' = Load(b)
  BY <1>5, <1>6, LoadAfter
<1>8. ASSUME NEW d \in Approvers, NEW b \in Approvers, NEW n \in Nat,
             Load(d) <= Load(b) + n + came[d] + gone[b]
      PROVE  Load(d)' <= Load(b)' + n + came'[d] + gone'[b]
  <2>1. /\ Load(d) \in Nat /\ Load(b) \in Nat
        /\ came[d] \in Nat /\ gone[b] \in Nat
    BY LoadType DEF TypeOK
  <2>2. gone'[b] = IF b = a THEN gone[b] + 1 ELSE gone[b]
    BY <1>1 DEF TypeOK
  <2> QED BY <1>1, <1>7, <1>8, <2>1, <2>2
<1>9. LoadsStayLevel'
  BY <1>1, <1>8 DEF LoadsStayLevel
<1>10. DealInv'
  <2>1. deal # None => deal.to \in Approvers /\ deal.claim \in Claims \ {c}
    BY <1>1 DEF TypeOK, DealInv, IsSubmittable
  <2>2. deal # None => IsLevel(deal.to, 0)'
    BY <1>1, <1>8, <2>1 DEF DealInv, IsLevel
  <2>3. deal # None => IsSubmittable(deal.claim)'
    BY <1>1, <1>5, <2>1 DEF DealInv, IsSubmittable
  <2> QED BY <1>1, <2>2, <2>3 DEF DealInv
<1> QED BY <1>3, <1>4, <1>9, <1>10

LEMMA CloseInv ==
  ASSUME IInv, NEW c \in Claims, NEW stage \in Stages, Close(c, stage)
  PROVE  IInv'
<1> USE DEF IInv
<1>1. /\ IsUnlocked(c) /\ claim[c].stage # "approver" /\ stage # "approver"
      /\ claim' = [claim EXCEPT ![c].stage = stage]
      /\ UNCHANGED <<active, deal, now, assigned, shuffled, came, gone, away>>
  BY DEF Close, History
<1>2. /\ ClockInv' /\ RecencyInv'
      /\ claim' \in [Claims -> [stage : Stages, approver : Approvers \cup {None},
                                submittedAt : Nat]]
      /\ \A d \in Claims : claim'[d].stage = "approver" => claim'[d].approver # None
  BY <1>1, StageKeepsRest
<1>3. TypeOK'
  BY <1>1, <1>2 DEF TypeOK
<1>4. /\ \A d \in Claims \ {c} : claim'[d] = claim[d]
      /\ claim'[c].stage = stage
  BY <1>1 DEF TypeOK
<1>5. \A b : Load(b)' = Load(b)
  BY <1>1, <1>4, LoadAfter DEF Has
<1>6. LoadsStayLevel'
  BY <1>1, <1>5 DEF LoadsStayLevel
<1>7. DealInv'
  <2>1. deal # None => IsLevel(deal.to, 0)'
    BY <1>1, <1>5 DEF DealInv, IsLevel
  <2>2. deal # None => IsSubmittable(deal.claim)'
    BY <1>1, <1>4 DEF DealInv, IsSubmittable, IsUnlocked, TypeOK
  <2> QED BY <1>1, <2>1, <2>2 DEF DealInv
<1> QED BY <1>2, <1>3, <1>6, <1>7

LEMMA ReassignInv ==
  ASSUME IInv, NEW c \in Claims, NEW to \in Approvers, Reassign(c, to)
  PROVE  IInv'
<1> USE DEF IInv
<1>1. PICK from \in Approvers :
      /\ claim[c].stage = "approver" /\ from = claim[c].approver /\ to # from
      /\ claim' = [claim EXCEPT ![c].approver = to]
      /\ shuffled' = shuffled \cup {from, to}
      /\ came' = [came EXCEPT ![to] = @ + 1]
      /\ gone' = [gone EXCEPT ![from] = @ + 1]
      /\ UNCHANGED <<active, deal, away>>
  BY DEF Reassign, TypeOK
<1>2. PICK t \in Times : now' = t /\ assigned' = [assigned EXCEPT ![to] = t]
  BY DEF Reassign
<1>3. t \in Nat /\ now <= t /\ t # 0
  BY DEF Times, TypeOK, ClockInv
<1>4. /\ \A d \in Claims \ {c} : claim'[d] = claim[d]
      /\ claim'[c].approver = to /\ claim'[c].stage = "approver"
      /\ claim'[c].submittedAt = claim[c].submittedAt
  BY <1>1 DEF TypeOK
<1>5. Has(from, c) /\ ~Has(from, c)' /\ Has(to, c)' /\ ~Has(to, c)
  BY <1>1, <1>4 DEF Has
<1>6. \A b \in Approvers \ {from, to} : ~Has(b, c) /\ ~Has(b, c)'
  BY <1>1, <1>4 DEF Has
<1>7. /\ Load(from) = Load(from)' + 1 /\ Load(from)' \in Nat
      /\ Load(to)' = Load(to) + 1
      /\ \A b \in Approvers \ {from, to} : Load(b)' = Load(b)
  BY <1>4, <1>5, <1>6, LoadAfter
<1>8. TypeOK'
  BY <1>1, <1>2, <1>3, ApproversAssumption DEF TypeOK
<1>9. ASSUME NEW d \in Approvers, NEW b \in Approvers, NEW n \in Nat,
             Load(d) <= Load(b) + n + came[d] + gone[b]
      PROVE  Load(d)' <= Load(b)' + n + came'[d] + gone'[b]
  <2>1. /\ Load(d) \in Nat /\ Load(b) \in Nat
        /\ came[d] \in Nat /\ gone[b] \in Nat
    BY LoadType DEF TypeOK
  <2>2. /\ gone'[b] = IF b = from THEN gone[b] + 1 ELSE gone[b]
        /\ came'[d] = IF d = to THEN came[d] + 1 ELSE came[d]
    BY <1>1 DEF TypeOK
  <2> QED BY <1>1, <1>7, <1>9, <2>1, <2>2
<1>10. LoadsStayLevel'
  BY <1>1, <1>9 DEF LoadsStayLevel
<1>11. DealInv'
  <2>1. deal # None => deal.to \in Approvers /\ deal.claim \in Claims \ {c}
    BY <1>1 DEF TypeOK, DealInv, IsSubmittable
  <2>2. deal # None => IsLevel(deal.to, 0)'
    BY <1>1, <1>9, <2>1 DEF DealInv, IsLevel
  <2>3. deal # None => IsSubmittable(deal.claim)'
    BY <1>1, <1>4, <2>1 DEF DealInv, IsSubmittable
  <2> QED BY <1>1, <2>2, <2>3 DEF DealInv
<1>12. ClockInv'
  BY <1>2, <1>3, <1>4 DEF ClockInv, TypeOK
<1>13. RecencyInv'
  <2>1. SUFFICES ASSUME NEW b \in Approvers, b \notin shuffled'
        PROVE  /\ \A d \in SubmittedTo(b)' : claim'[d].submittedAt <= assigned'[b]
               /\ assigned'[b] # 0 =>
                    \E d \in SubmittedTo(b)' : claim'[d].submittedAt = assigned'[b]
    BY DEF RecencyInv
  <2>2. b \notin shuffled /\ b # from /\ b # to
    BY <1>1, <2>1
  <2>3. assigned'[b] = assigned[b]
    BY <1>2, <2>2 DEF TypeOK
  <2>4. /\ SubmittedTo(b)' = SubmittedTo(b)
        /\ \A d \in SubmittedTo(b) : claim'[d] = claim[d]
    BY <1>1, <1>4, <2>2 DEF SubmittedTo
  <2> QED BY <2>2, <2>3, <2>4 DEF RecencyInv
<1> QED BY <1>8, <1>10, <1>11, <1>12, <1>13

-----------------------------------------------------------------------------
LEMMA SameClaims ==
  ASSUME UNCHANGED claim
  PROVE  \A a : Load(a)' = Load(a) /\ SubmittedTo(a)' = SubmittedTo(a)
BY DEF Load, OpenOf, SubmittedTo

LEMMA AbortInv == ASSUME IInv, Abort PROVE IInv'
<1> USE DEF IInv
<1>1. deal' = None /\ UNCHANGED <<active, claim, now, away, assigned, shuffled, came, gone>>
  BY DEF Abort, History
<1>2. TypeOK' /\ DealInv'
  BY <1>1 DEF TypeOK, DealInv
<1>3. LoadsStayLevel' /\ ClockInv' /\ RecencyInv'
  BY <1>1, SameClaims DEF LoadsStayLevel, ClockInv, RecencyInv
<1> QED BY <1>2, <1>3

LEMMA SetActiveInv == ASSUME IInv, NEW a \in Approvers, SetActive(a) PROVE IInv'
<1> USE DEF IInv
<1>1. /\ active' = IF a \in active THEN active \ {a} ELSE active \cup {a}
      /\ away' = away \cup {a}
      /\ UNCHANGED <<claim, deal, now, assigned, shuffled, came, gone>>
  BY DEF SetActive, History
<1>2. TypeOK'
  BY <1>1 DEF TypeOK
<1>3. DealInv'
  BY <1>1, SameClaims DEF DealInv, IsLevel, IsSubmittable
<1>4. LoadsStayLevel' /\ ClockInv' /\ RecencyInv'
  BY <1>1, SameClaims DEF LoadsStayLevel, ClockInv, RecencyInv
<1> QED BY <1>2, <1>3, <1>4

LEMMA StepKeepsIInv == IInv /\ [Next]_vars => IInv'
<1> SUFFICES ASSUME IInv, [Next]_vars PROVE IInv'
  OBVIOUS
<1>1. CASE UNCHANGED vars
  <2>1. UNCHANGED <<active, claim, deal, now, assigned, shuffled, came, gone, away>>
    BY <1>1 DEF vars
  <2>2. TypeOK' /\ DealInv'
    BY <2>1, SameClaims DEF IInv, TypeOK, DealInv, IsLevel, IsSubmittable
  <2>3. LoadsStayLevel' /\ ClockInv' /\ RecencyInv'
    BY <2>1, SameClaims DEF IInv, LoadsStayLevel, ClockInv, RecencyInv
  <2> QED BY <2>2, <2>3 DEF IInv
<1>2. CASE \E c \in Claims, isResubmit \in BOOLEAN : Pick(c, isResubmit)
  BY <1>2, PickInv
<1>3. CASE Deal
  BY <1>3, DealKeepsInv
<1>4. CASE Abort
  BY <1>4, AbortInv
<1>5. CASE \E c \in Claims : Resubmit(c)
  BY <1>5, ResubmitInv
<1>6. CASE \E c \in Claims, stage \in {"finance", "returned", "closed"} : Leave(c, stage)
  BY <1>6, LeaveInv
<1>7. CASE \E c \in Claims, stage \in Stages : Close(c, stage)
  BY <1>7, CloseInv
<1>8. CASE \E c \in Claims, to \in Approvers : Reassign(c, to)
  BY <1>8, ReassignInv
<1>9. CASE \E a \in Approvers : SetActive(a)
  BY <1>9, SetActiveInv
<1> QED BY <1>1, <1>2, <1>3, <1>4, <1>5, <1>6, <1>7, <1>8, <1>9 DEF Next

(* The inductive invariant holds in every behaviour of the model.          *)
THEOREM Invariance == Spec => []IInv
<1> QED BY InitIInv, StepKeepsIInv, PTL DEF Spec

(* Every claim under an approver's review has an approver, and the rest of *)
(* the state has the shape the services read (runSubmission).              *)
THEOREM TypesHold == Spec => []TypeOK
<1>1. IInv => TypeOK
  BY DEF IInv
<1> QED BY <1>1, Invariance, PTL

(* Dealing keeps loads level: differences above one come from claims that  *)
(* changed loads in another way (pickLeastLoadedApprover).                 *)
THEOREM LoadsAreLevel == Spec => []LoadsStayLevel
<1>1. IInv => LoadsStayLevel
  BY DEF IInv
<1> QED BY <1>1, Invariance, PTL

LEMMA StepTakesTurns ==
  ASSUME IInv, [Next]_vars, NEW b \in Approvers \ shuffled,
         TakesTurnOf(b), deal'.to \notin shuffled
  PROVE  assigned[deal'.to] <= assigned[b]
<1> USE DEF IInv
<1>1. deal = None /\ deal' # None /\ b \in active /\ Load(b) = Load(deal'.to)
  BY DEF TakesTurnOf
<1>2. \E c \in Claims, isResubmit \in BOOLEAN : Pick(c, isResubmit)
  BY <1>1 DEF Next, vars, Deal, Abort, Resubmit, Leave, Close, Reassign, SetActive
<1>3. PICK a \in active : deal'.to = a /\ RanksBefore(a, b)
  BY <1>1, <1>2 DEF Pick
<1>4. NotLater(a, b)
  BY <1>1, <1>3, LoadType DEF RanksBefore
<1>5. a \in Approvers \ shuffled /\ assigned[a] \in Nat /\ assigned[b] \in Nat
  BY <1>3 DEF TypeOK
<1>6. CASE assigned[a] = 0
  BY <1>3, <1>5, <1>6
<1>7. CASE assigned[a] # 0
  <2>1. PICK c \in SubmittedTo(a) : claim[c].submittedAt = assigned[a]
    BY <1>5, <1>7 DEF RecencyInv
  <2>2. PICK d \in SubmittedTo(b) : claim[c].submittedAt <= claim[d].submittedAt
    BY <1>4 DEF NotLater
  <2>3. claim[d].submittedAt <= assigned[b] /\ claim[d].submittedAt \in Nat
    BY DEF RecencyInv, SubmittedTo, TypeOK
  <2> QED BY <1>3, <1>5, <2>1, <2>2, <2>3
<1> QED BY <1>6, <1>7

(* Turns rotate among approvers whose claims have not changed hands since  *)
(* they were last submitted to (the ranking in pickLeastLoadedApprover).   *)
THEOREM TurnsAreKept == Spec => TurnsRotate
<1>1. IInv /\ [Next]_vars =>
        [\A b \in Approvers \ shuffled :
           TakesTurnOf(b) /\ deal'.to \notin shuffled =>
             assigned[deal'.to] <= assigned[b]]_vars
  BY StepTakesTurns
<1> QED BY <1>1, Invariance, PTL DEF Spec, TurnsRotate
=============================================================================
