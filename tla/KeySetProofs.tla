---------------------------- MODULE KeySetProofs ----------------------------
(***************************************************************************)
(* The safety of KeySet for any number of requests and rotations and every *)
(* setting of the three durations.                                         *)
(*                                                                         *)
(* Order ties the cache to the answers still under way, Withdrawal ties    *)
(* the age of the set to how long its key has been withdrawn, Spacing the  *)
(* age of the set to that of the last attempt.                             *)
(***************************************************************************)
EXTENDS KeySet, TLAPS

ReqStep(r) == Begin(r) \/ Looks(r) \/ FetchEnds(r) \/ Return(r)

LEMMA Constants ==
  /\ Ttl \in Nat /\ MinRefresh \in Nat /\ MaxFetch \in Nat /\ MaxRotations \in Nat
  /\ MinRefresh <= Ttl /\ "nobody" \notin Requests
  /\ Cap \in Nat /\ Cap >= MinRefresh /\ Cap >= MaxFetch /\ (Cap = MinRefresh \/ Cap = MaxFetch)
  /\ Overdue \in Nat /\ Overdue = Ttl + MaxFetch + 1
  /\ Keys = 1..(MaxRotations + 1)
BY KeySetAssumption DEF Cap, Overdue, Keys

LEMMA Aging ==
  ASSUME NEW cap \in Nat, NEW age \in 0..cap
  PROVE  /\ Older(age, cap) \in 0..cap
         /\ Older(age, cap) >= age
         /\ Older(age, cap) = age + 1 \/ (Older(age, cap) = cap /\ age = cap)
BY DEF Older

-----------------------------------------------------------------------------
(* Type correctness *)

LEMMA NewRequestType == NewRequest \in Request
BY Constants DEF NewRequest, Request

LEMMA InitType == Init => TypeOK
<1> SUFFICES ASSUME Init PROVE TypeOK
  OBVIOUS
<1>1. published \in Keys /\ retired \in [Keys -> 0..Overdue] /\ set \in Keys \cup {0}
      /\ fetched \in 0..(Ttl + 1) /\ attempt \in 0..Cap
  BY Constants DEF Init
<1>2. faulty \in BOOLEAN /\ broke \in BOOLEAN /\ lock = "nobody"
  BY DEF Init
<1>3. req \in [Requests -> Request] /\ \A r \in Requests : req[r].at # "get"
  BY NewRequestType DEF Init, NewRequest
<1> QED BY <1>1, <1>2, <1>3, Constants DEF TypeOK

\* What a step of request r may do to the requests: only r's own entry changes.
LEMMA Replaced ==
  ASSUME NEW r \in Requests, NEW e \in Request, req \in [Requests -> Request],
         req' = [req EXCEPT ![r] = e]
  PROVE  /\ req' \in [Requests -> Request]
         /\ req'[r] = e
         /\ \A q \in Requests \ {r} : req'[q] = req[q]
OBVIOUS

\* What is left of a request whose Key has returned.
LEMMA Finished ==
  ASSUME req \in [Requests -> Request], NEW r \in Requests,
         NEW as \in {"served", "misfit", "refused"}, Finish(r, as)
  PROVE  /\ req'[r].at = as /\ req'[r].got = 0 /\ req'[r].floor = 0
         /\ req'[r].kid = req[r].kid /\ req'[r].late = FALSE /\ req'[r].failed = FALSE
         /\ \A q \in Requests \ {r} : req'[q] = req[q]
<1> DEFINE e == [NewRequest EXCEPT !.at = as, !.kid = req[r].kid]
<1>1. req' = [req EXCEPT ![r] = e]
  BY DEF Finish
<1>2. /\ e.at = as /\ e.got = 0 /\ e.floor = 0
      /\ e.kid = req[r].kid /\ e.late = FALSE /\ e.failed = FALSE
  BY DEF NewRequest
<1>3. req'[r] = e /\ \A q \in Requests \ {r} : req'[q] = req[q]
  BY <1>1
<1> QED BY <1>2, <1>3

\* What a request knows when Key begins.
LEMMA Begun ==
  ASSUME req \in [Requests -> Request], NEW r \in Requests, Begin(r)
  PROVE  /\ req'[r].at = "lookup" /\ req'[r].got = 0 /\ req'[r].floor = set
         /\ req'[r].kid \in Keys /\ req'[r].failed = FALSE
         /\ req'[r].late = (req'[r].kid < published /\ retired[req'[r].kid] = Overdue)
         /\ \A q \in Requests \ {r} : req'[q] = req[q]
<1>1. PICK k \in Keys : req' = [req EXCEPT ![r] =
        [NewRequest EXCEPT !.at = "lookup", !.kid = k, !.floor = set,
           !.late = k < published /\ retired[k] = Overdue]]
  BY DEF Begin
<1> DEFINE e == [NewRequest EXCEPT !.at = "lookup", !.kid = k, !.floor = set,
           !.late = k < published /\ retired[k] = Overdue]
<1>2. /\ e.at = "lookup" /\ e.got = 0 /\ e.floor = set /\ e.kid = k /\ e.failed = FALSE
      /\ e.late = (k < published /\ retired[k] = Overdue)
  BY DEF NewRequest
<1>3. req'[r] = e /\ \A q \in Requests \ {r} : req'[q] = req[q]
  BY <1>1
<1> QED BY <1>2, <1>3

\* Every step of a request gives it a well-formed new entry.
LEMMA Entry ==
  ASSUME TypeOK, NEW r \in Requests, ReqStep(r)
  PROVE  \E e \in Request : req' = [req EXCEPT ![r] = e]
<1>0. req[r] \in Request /\ req \in [Requests -> Request] /\ set \in Keys \cup {0} /\ published \in Keys
  BY DEF TypeOK
<1>1. ASSUME NEW as \in {"served", "misfit", "refused"}, Finish(r, as)
      PROVE  \E e \in Request : req' = [req EXCEPT ![r] = e]
  <2> DEFINE e == [NewRequest EXCEPT !.at = as, !.kid = req[r].kid]
  <2>1. e \in Request
    BY <1>0, NewRequestType DEF Request, NewRequest
  <2> QED BY <1>1, <2>1 DEF Finish
<1>2. CASE Begin(r)
  <2>1. PICK k \in Keys : req' = [req EXCEPT ![r] =
          [NewRequest EXCEPT !.at = "lookup", !.kid = k, !.floor = set,
             !.late = k < published /\ retired[k] = Overdue]]
    BY <1>2 DEF Begin
  <2> DEFINE e == [NewRequest EXCEPT !.at = "lookup", !.kid = k, !.floor = set,
             !.late = k < published /\ retired[k] = Overdue]
  <2>2. (k < published /\ retired[k] = Overdue) \in BOOLEAN
    OBVIOUS
  <2>3. e \in Request
    BY <1>0, <2>2, NewRequestType DEF Request, NewRequest
  <2> QED BY <2>1, <2>3
<1>3. CASE Lookup(r)
  <2> DEFINE e == [req[r] EXCEPT !.found = (set = req[r].kid),
                        !.at = IF set = req[r].kid THEN "stale" ELSE "refresh"]
  <2>1. (set = req[r].kid) \in BOOLEAN
    OBVIOUS
  <2>2. e \in Request
    BY <1>0, <2>1 DEF Request
  <2>3. req' = [req EXCEPT ![r] = e]
    BY <1>0, <1>3 DEF Lookup
  <2> QED BY <2>2, <2>3
<1>4. CASE IsStale(r)
  <2>1. CASE fetched > Ttl
    <3> DEFINE e == [req[r] EXCEPT !.at = "refresh"]
    <3>1. e \in Request
      BY <1>0 DEF Request
    <3> QED BY <1>0, <1>4, <2>1, <3>1 DEF IsStale
  <2>2. CASE ~(fetched > Ttl)
    BY <1>1, <1>4, <2>2 DEF IsStale, Found
  <2> QED BY <2>1, <2>2
<1>5. CASE Refresh(r)
  <2> DEFINE e == [req[r] EXCEPT !.at = IF Limited THEN "again" ELSE "get"]
  <2>1. e \in Request
    BY <1>0 DEF Request
  <2> QED BY <1>0, <1>5, <2>1 DEF Refresh
<1>6. CASE LookupAgain(r)
  BY <1>1, <1>6 DEF LookupAgain, Found
<1>7. CASE HandleJWKS(r)
  <2> DEFINE e == [req[r] EXCEPT !.got = published]
  <2>1. e \in Request
    BY <1>0 DEF Request
  <2> QED BY <1>0, <1>7, <2>1 DEF HandleJWKS
<1>8. CASE Store(r)
  <2> DEFINE e == [req[r] EXCEPT !.at = "again", !.got = 0]
  <2>1. e \in Request
    BY <1>0 DEF Request
  <2> QED BY <1>0, <1>8, <2>1 DEF Store
<1>9. CASE FetchFails(r)
  <2> DEFINE e == [req[r] EXCEPT !.at = "again", !.got = 0, !.failed = TRUE]
  <2>1. e \in Request
    BY <1>0 DEF Request
  <2>2. CASE req[r].found
    BY <1>0, <1>9, <2>1, <2>2 DEF FetchFails
  <2>3. CASE ~req[r].found
    BY <1>1, <1>9, <2>3 DEF FetchFails
  <2> QED BY <2>2, <2>3
<1>10. CASE Return(r)
  BY <1>10, NewRequestType DEF Return
<1> QED BY <1>2, <1>3, <1>4, <1>5, <1>6, <1>7, <1>8, <1>9, <1>10 DEF ReqStep, Looks, FetchEnds

LEMMA NextType == TypeOK /\ [Next]_vars => TypeOK'
<1> SUFFICES ASSUME TypeOK, [Next]_vars PROVE TypeOK'
  OBVIOUS
<1> USE Constants
<1>1. ASSUME NEW r \in Requests, ReqStep(r) PROVE TypeOK'
  <2>1. /\ req' \in [Requests -> Request]
        /\ \A q \in Requests \ {r} : req'[q] = req[q]
    BY <1>1, Entry, Replaced DEF TypeOK
  <2>2. /\ published' = published /\ retired' = retired /\ faulty' = faulty
        /\ set' \in Keys \cup {0} /\ fetched' \in 0..(Ttl + 1) /\ attempt' \in 0..Cap
    <3>1. req[r] \in Request
      BY DEF TypeOK
    <3>2. req[r].got \in Keys \cup {0}
      BY <3>1 DEF Request
    <3>3. CASE Refresh(r)
      BY <3>3 DEF Refresh, TypeOK
    <3>4. CASE Store(r)
      BY <3>2, <3>4 DEF Store, TypeOK
    <3>5. CASE FetchFails(r)
      BY <3>5 DEF FetchFails, TypeOK
    <3>6. CASE Begin(r) \/ Lookup(r) \/ IsStale(r) \/ LookupAgain(r) \/ HandleJWKS(r) \/ Return(r)
      <4>1. UNCHANGED <<published, retired, faulty, set, fetched, attempt>>
        BY <3>6 DEF Begin, Lookup, IsStale, LookupAgain, HandleJWKS, Return, keyVars
      <4> QED BY <4>1 DEF TypeOK
    <3> QED BY <1>1, <3>3, <3>4, <3>5, <3>6 DEF ReqStep, Looks, FetchEnds
  <2>3. broke' \in BOOLEAN
    BY <1>1 DEF ReqStep, Looks, FetchEnds, Begin, Lookup, IsStale, Refresh, LookupAgain,
              HandleJWKS, Store, FetchFails, Return, keyVars, TypeOK
  <2>4. /\ lock' \in Requests \cup {"nobody"}
        /\ \A q \in Requests : req'[q].at = "get" <=> lock' = q
    <3>0. req \in [Requests -> Request] /\ req[r] \in Request /\ lock \in Requests \cup {"nobody"}
          /\ \A q \in Requests : req[q].at = "get" <=> lock = q
      BY DEF TypeOK
    <3>1. ASSUME lock' = lock, req'[r].at # "get", req[r].at # "get"
          PROVE  <2>4!1 /\ <2>4!2
      BY <2>1, <3>0, <3>1
    <3>2. CASE Begin(r) \/ Lookup(r) \/ IsStale(r) \/ LookupAgain(r) \/ Return(r)
      <4>1. lock' = lock /\ req[r].at # "get"
        BY <3>2 DEF Begin, Lookup, IsStale, LookupAgain, Return, keyVars
      <4>2. ASSUME NEW as \in {"served", "misfit", "refused"}, Finish(r, as)
            PROVE  req'[r].at # "get"
        BY <3>0, <4>2, Finished
      <4>3. CASE Begin(r)
        BY <3>0, <3>1, <4>1, <4>3, Begun
      <4>4. CASE Lookup(r)
        <5>1. req'[r].at # "get"
          BY <3>0, <4>4 DEF Lookup, Request
        <5> QED BY <3>1, <4>1, <5>1
      <4>5. CASE IsStale(r)
        <5>1. CASE fetched > Ttl
          <6>1. req'[r].at # "get"
            BY <3>0, <4>5, <5>1 DEF IsStale, Request
          <6> QED BY <3>1, <4>1, <6>1
        <5>2. CASE ~(fetched > Ttl)
          BY <3>1, <4>1, <4>2, <4>5, <5>2 DEF IsStale, Found
        <5> QED BY <5>1, <5>2
      <4>6. CASE LookupAgain(r)
        BY <3>1, <4>1, <4>2, <4>6 DEF LookupAgain, Found
      <4>7. CASE Return(r)
        <5>1. req'[r].at # "get"
          BY <3>0, <4>7 DEF Return, NewRequest
        <5> QED BY <3>1, <4>1, <5>1
      <4> QED BY <3>2, <4>3, <4>4, <4>5, <4>6, <4>7
    <3>3. CASE Refresh(r)
      <4>1. req'[r].at = IF Limited THEN "again" ELSE "get"
        BY <3>0, <3>3 DEF Refresh, Request
      <4> QED BY <2>1, <3>0, <3>3, <4>1 DEF Refresh
    <3>4. CASE HandleJWKS(r)
      <4>1. req'[r].at = req[r].at /\ lock' = lock
        BY <3>0, <3>4 DEF HandleJWKS, keyVars, Request
      <4> QED BY <2>1, <3>0, <4>1
    <3>5. CASE Store(r) \/ FetchFails(r)
      <4>1. req[r].at = "get" /\ lock' = "nobody"
        BY <3>5 DEF Store, FetchFails
      <4>2. req'[r].at # "get"
        <5>1. CASE Store(r) \/ req[r].found
          BY <3>0, <3>5, <5>1 DEF Store, FetchFails, Request
        <5>2. CASE FetchFails(r) /\ ~req[r].found
          BY <3>0, <5>2, Finished DEF FetchFails
        <5> QED BY <3>5, <5>1, <5>2
      <4> QED BY <2>1, <3>0, <4>1, <4>2
    <3> QED BY <1>1, <3>2, <3>3, <3>4, <3>5 DEF ReqStep, Looks, FetchEnds
  <2> QED BY <2>1, <2>2, <2>3, <2>4 DEF TypeOK
<1>2. CASE Tick
  <2>1. /\ Older(fetched, Ttl + 1) \in 0..(Ttl + 1) /\ Older(attempt, Cap) \in 0..Cap
        /\ \A k \in Keys : Older(retired[k], Overdue) \in 0..Overdue
    <3>1. Ttl + 1 \in Nat /\ Cap \in Nat /\ Overdue \in Nat
      OBVIOUS
    <3>2. /\ fetched \in 0..(Ttl + 1) /\ attempt \in 0..Cap
          /\ \A k \in Keys : retired[k] \in 0..Overdue
      BY DEF TypeOK
    <3> QED BY <3>1, <3>2, Aging
  <2>2. retired' \in [Keys -> 0..Overdue]
    BY <1>2, <2>1 DEF Tick
  <2> QED BY <1>2, <2>1, <2>2 DEF Tick, TypeOK
<1>3. CASE Rotate
  <2>1. published' \in Keys
    BY <1>3 DEF Rotate, TypeOK
  <2> QED BY <1>3, <2>1 DEF Rotate, TypeOK, keyVars
<1>4. CASE Fault
  BY <1>4 DEF Fault, TypeOK, keyVars
<1>5. CASE UNCHANGED vars
  BY <1>5 DEF vars, keyVars, TypeOK
<1> QED BY <1>1, <1>2, <1>3, <1>4, <1>5 DEF Next, ReqStep

\* The cache's state is well formed, and mu is held exactly by the request that
\* fetches: refresh (jwks.go:73-104) locks and unlocks on every path.
THEOREM TypeCorrect == Spec => []TypeOK
BY InitType, NextType, PTL DEF Spec

-----------------------------------------------------------------------------
(* The order of the keys *)

OrderOf(r) ==
  /\ req[r].got <= published
  /\ req[r].got # 0 => req[r].at = "get" /\ set <= req[r].got
  /\ req[r].floor <= set
  /\ req[r].at = "stale" => req[r].kid >= req[r].floor

Order == set <= published /\ \A r \in Requests : OrderOf(r)

LEMMA InitOrder == Init => Order
BY Constants DEF Init, Order, OrderOf, NewRequest

\* A finished request has nothing left to say about the order.
LEMMA FinishOrder ==
  ASSUME TypeOK, Order, NEW r \in Requests, NEW as \in {"served", "misfit", "refused"},
         Finish(r, as), set' = set, published' = published
  PROVE  Order'
<1>1. /\ req'[r].at = as /\ req'[r].got = 0 /\ req'[r].floor = 0
      /\ \A q \in Requests \ {r} : req'[q] = req[q]
  BY Finished DEF TypeOK
<1>2. set \in Nat /\ published \in Nat
  BY Constants DEF TypeOK
<1>3. OrderOf(r)'
  <2>1. req'[r].at # "stale"
    BY <1>1
  <2>2. req'[r].got = 0 /\ req'[r].floor = 0 /\ 0 <= set' /\ 0 <= published'
    BY <1>1, <1>2
  <2> QED BY <2>1, <2>2 DEF OrderOf
<1>4. \A q \in Requests \ {r} : OrderOf(q)'
  BY <1>1 DEF Order, OrderOf
<1> QED BY <1>3, <1>4 DEF Order

LEMMA NextOrder == TypeOK /\ Order /\ [Next]_vars => Order'
<1> SUFFICES ASSUME TypeOK, Order, [Next]_vars PROVE Order'
  OBVIOUS
<1>0. /\ req \in [Requests -> Request] /\ set \in Nat /\ published \in Nat /\ set <= published
      /\ \A q \in Requests : OrderOf(q) /\ req[q].got \in Nat /\ req[q].floor \in Nat /\ req[q].kid \in Nat
  <2>1. \A q \in Requests : req[q] \in Request
    BY DEF TypeOK
  <2> QED BY <2>1, Constants DEF TypeOK, Order, Request
<1>1. ASSUME NEW r \in Requests, ReqStep(r) PROVE Order'
  <2>0. /\ req[r] \in Request
        /\ \A q \in Requests \ {r} : req'[q] = req[q]
    BY <1>0, <1>1, Entry, Replaced
  <2>1. ASSUME set' = set, published' = published, OrderOf(r)' PROVE Order'
    <3>1. \A q \in Requests \ {r} : OrderOf(q)'
      BY <1>0, <2>0, <2>1 DEF OrderOf
    <3> QED BY <1>0, <2>1, <3>1 DEF Order
  <2>2. CASE Begin(r)
    <3>2. req'[r].got = 0 /\ req'[r].floor = set /\ req'[r].at = "lookup"
      BY <1>0, <2>2, Begun
    <3>3. set' = set /\ published' = published
      BY <2>2 DEF Begin, keyVars
    <3> QED BY <1>0, <2>1, <3>2, <3>3 DEF OrderOf
  <2>3. CASE Lookup(r)
    <3>1. /\ req'[r].got = req[r].got /\ req'[r].floor = req[r].floor /\ req'[r].kid = req[r].kid
          /\ req[r].at = "lookup"
          /\ req'[r].at = "stale" => set = req[r].kid
      BY <1>0, <2>0, <2>3 DEF Lookup, Request
    <3>2. set' = set /\ published' = published
      BY <2>3 DEF Lookup, keyVars
    <3> QED BY <1>0, <2>1, <3>1, <3>2 DEF OrderOf
  <2>4. CASE IsStale(r)
    <3>1. set' = set /\ published' = published
      BY <2>4 DEF IsStale, keyVars
    <3>2. CASE fetched > Ttl
      <4>1. /\ req'[r].got = req[r].got /\ req'[r].floor = req[r].floor /\ req'[r].at = "refresh"
            /\ req[r].at = "stale"
        BY <1>0, <2>0, <2>4, <3>2 DEF IsStale, Request
      <4> QED BY <1>0, <2>1, <3>1, <4>1 DEF OrderOf
    <3>3. CASE ~(fetched > Ttl)
      BY <2>4, <3>1, <3>3, FinishOrder DEF IsStale, Found
    <3> QED BY <3>2, <3>3
  <2>5. CASE Refresh(r)
    <3>1. /\ req'[r].got = req[r].got /\ req'[r].floor = req[r].floor
          /\ req[r].at = "refresh" /\ req'[r].at \in {"again", "get"}
      BY <1>0, <2>0, <2>5 DEF Refresh, Request
    <3>2. set' = set /\ published' = published
      BY <2>5 DEF Refresh
    <3> QED BY <1>0, <2>1, <3>1, <3>2 DEF OrderOf
  <2>6. CASE LookupAgain(r)
    <3>1. set' = set /\ published' = published
      BY <2>6 DEF LookupAgain, keyVars
    <3> QED BY <2>6, <3>1, FinishOrder DEF LookupAgain, Found
  <2>7. CASE HandleJWKS(r)
    <3>1. req'[r].got = published /\ req'[r].floor = req[r].floor
          /\ req[r].at = "get" /\ req'[r].at = "get"
      BY <1>0, <2>0, <2>7 DEF HandleJWKS, Request
    <3>2. set' = set /\ published' = published
      BY <2>7 DEF HandleJWKS, keyVars
    <3> QED BY <1>0, <2>1, <3>1, <3>2 DEF OrderOf
  <2>8. CASE Store(r)
    <3>1. /\ req'[r].got = 0 /\ req'[r].floor = req[r].floor /\ req'[r].at = "again"
          /\ req[r].at = "get" /\ req[r].got # 0
          /\ set' = req[r].got /\ published' = published
      BY <1>0, <2>0, <2>8 DEF Store, Request
    <3>2. set <= set' /\ set' <= published /\ set' \in Nat
      BY <1>0, <3>1 DEF OrderOf
    <3>3. OrderOf(r)'
      BY <1>0, <3>1, <3>2 DEF OrderOf
    <3>4. ASSUME NEW q \in Requests \ {r} PROVE OrderOf(q)'
      <4>1. req[q].at # "get"
        BY <3>1 DEF TypeOK
      <4>2. req[q].got = 0
        BY <1>0, <4>1 DEF OrderOf
      <4> QED BY <1>0, <2>0, <3>1, <3>2, <4>2 DEF OrderOf
    <3> QED BY <3>1, <3>2, <3>3, <3>4 DEF Order
  <2>9. CASE FetchFails(r)
    <3>1. set' = set /\ published' = published
      BY <2>9 DEF FetchFails
    <3>2. CASE req[r].found
      <4>1. req'[r].got = 0 /\ req'[r].floor = req[r].floor /\ req'[r].at = "again"
        BY <1>0, <2>0, <2>9, <3>2 DEF FetchFails, Request
      <4> QED BY <1>0, <2>1, <3>1, <4>1 DEF OrderOf
    <3>3. CASE ~req[r].found
      BY <2>9, <3>1, <3>3, FinishOrder DEF FetchFails
    <3> QED BY <3>2, <3>3
  <2>10. CASE Return(r)
    <3>1. req'[r] = NewRequest /\ set' = set /\ published' = published
      BY <1>0, <2>10 DEF Return, keyVars
    <3>2. OrderOf(r)'
      BY <1>0, <3>1 DEF OrderOf, NewRequest
    <3> QED BY <2>1, <3>1, <3>2
  <2> QED BY <1>1, <2>2, <2>3, <2>4, <2>5, <2>6, <2>7, <2>8, <2>9, <2>10 DEF ReqStep, Looks, FetchEnds
<1>2. CASE Tick \/ Fault \/ UNCHANGED vars
  BY <1>2 DEF Tick, Fault, vars, keyVars, Order, OrderOf
<1>3. CASE Rotate
  <2>1. req' = req /\ set' = set /\ published' = published + 1
    BY <1>3 DEF Rotate, keyVars
  <2>2. \A q \in Requests : OrderOf(q)'
    BY <1>0, <2>1 DEF OrderOf
  <2> QED BY <1>0, <2>1, <2>2 DEF Order
<1> QED BY <1>1, <1>2, <1>3 DEF Next, ReqStep

\* A key is only ever handed out by the two lookups that end Key.
LEMMA ServedBy ==
  ASSUME TypeOK, [Next]_vars, NEW r \in Requests, Served(r)
  PROVE  \/ IsStale(r) /\ req[r].at = "stale" /\ fetched <= Ttl
         \/ LookupAgain(r) /\ req[r].at = "again" /\ set = req[r].kid
<1>0. req \in [Requests -> Request] /\ req[r] \in Request /\ fetched \in Nat /\ Ttl \in Nat
  BY Constants DEF TypeOK
<1>1. ASSUME NEW q \in Requests, ReqStep(q) PROVE q = r
  BY <1>0, <1>1, Entry, Replaced DEF Served
<1>2. ~(Tick \/ Rotate \/ Fault \/ UNCHANGED vars)
  BY DEF Tick, Rotate, Fault, vars, keyVars, Served
<1>3. ReqStep(r)
  BY <1>1, <1>2 DEF Next, ReqStep
<1>4. ~(Begin(r) \/ Lookup(r) \/ Refresh(r) \/ HandleJWKS(r) \/ Store(r) \/ FetchFails(r) \/ Return(r))
  <2>1. ~Begin(r)
    BY <1>0, Begun DEF Served
  <2>2. ~(Lookup(r) \/ Refresh(r) \/ HandleJWKS(r) \/ Store(r))
    BY <1>0 DEF Served, Lookup, Refresh, HandleJWKS, Store, Request
  <2>3. ~FetchFails(r)
    <3>1. CASE req[r].found
      BY <1>0, <3>1 DEF Served, FetchFails, Request
    <3>2. CASE ~req[r].found
      BY <1>0, <3>2, Finished DEF Served, FetchFails
    <3> QED BY <3>1, <3>2
  <2>4. ~Return(r)
    BY <1>0 DEF Served, Return, NewRequest
  <2> QED BY <2>1, <2>2, <2>3, <2>4
<1>5. CASE IsStale(r)
  <2>1. ~(fetched > Ttl)
    BY <1>0, <1>5 DEF IsStale, Served, Request
  <2> QED BY <1>0, <1>5, <2>1 DEF IsStale
<1>6. CASE LookupAgain(r)
  <2>1. set = req[r].kid
    BY <1>0, <1>6 DEF LookupAgain, Finish, Served, Request, NewRequest
  <2> QED BY <1>6, <2>1 DEF LookupAgain
<1> QED BY <1>3, <1>4, <1>5, <1>6 DEF ReqStep, Looks, FetchEnds

\* Answers are stored in the order they were given, and no request is served a key
\* that was dropped before it began (mu is held from the fetch to the store).
THEOREM KeysNeverReturn == Spec => NeverBack
<1> DEFINE A == /\ set <= set'
                /\ \A r \in Requests : Served(r) => req[r].kid >= req[r].floor
<1>1. TypeOK /\ Order /\ [Next]_vars => [A]_vars
  <2> SUFFICES ASSUME TypeOK, Order, [Next]_vars PROVE A
    OBVIOUS
  <2>1. set <= set'
    <3>0. set \in Nat /\ req \in [Requests -> Request]
      BY Constants DEF TypeOK
    <3>1. ASSUME NEW r \in Requests, Store(r) PROVE set <= set'
      BY <3>1 DEF Store, Order, OrderOf
    <3>2. ASSUME NEW r \in Requests, ReqStep(r), ~Store(r) PROVE set' = set
      BY <3>2 DEF ReqStep, Looks, FetchEnds, Begin, Lookup, IsStale, Refresh, LookupAgain,
              HandleJWKS, FetchFails, Return, keyVars
    <3>3. CASE Tick \/ Rotate \/ Fault \/ UNCHANGED vars
      BY <3>0, <3>3 DEF Tick, Rotate, Fault, vars, keyVars
    <3> QED BY <3>0, <3>1, <3>2, <3>3 DEF Next, ReqStep
  <2>2. ASSUME NEW r \in Requests, Served(r) PROVE req[r].kid >= req[r].floor
    <3>1. CASE req[r].at = "stale"
      BY <3>1 DEF Order, OrderOf
    <3>2. CASE set = req[r].kid
      <4>1. req[r] \in Request /\ set \in Nat
        BY Constants DEF TypeOK
      <4>2. req[r].floor \in Nat /\ req[r].floor <= set
        BY <4>1, Constants DEF Request, Order, OrderOf
      <4> QED BY <3>2, <4>1, <4>2
    <3> QED BY <2>2, <3>1, <3>2, ServedBy
  <2> QED BY <2>1, <2>2
<1>2. Spec => [](TypeOK /\ Order)
  BY InitType, NextType, InitOrder, NextOrder, PTL DEF Spec
<1> QED BY <1>1, <1>2, PTL DEF Spec, NeverBack

-----------------------------------------------------------------------------
(* How long keys have been withdrawn *)

\* A fetched answer has been out of date for no longer than the attempt that got it,
\* and a request that came too late for its key is not about to find it.
WithdrawalOf(r) ==
  /\ req[r].at = "get" /\ req[r].got # 0 => retired[req[r].got] <= attempt
  /\ req[r].late => retired[req[r].kid] = Overdue
  /\ req[r].at = "again" /\ req[r].late /\ ~req[r].failed => set # req[r].kid

Withdrawal ==
  /\ \A k \in Keys : k >= published => retired[k] = 0
  /\ set # 0 => fetched > Ttl \/ retired[set] <= fetched + MaxFetch
  /\ lock # "nobody" => attempt <= MaxFetch
  /\ \A r \in Requests : WithdrawalOf(r)

LEMMA InitWithdrawal == Init => Withdrawal
BY Constants DEF Init, Withdrawal, WithdrawalOf, NewRequest

\* The types, with the fields of the requests spelt out.
LEMMA Types ==
  ASSUME TypeOK
  PROVE  /\ req \in [Requests -> Request] /\ \A q \in Requests : req[q] \in Request
         /\ \A q \in Requests : req[q].got \in Keys \cup {0} /\ req[q].kid \in Keys
         /\ set \in Keys \cup {0} /\ published \in Keys /\ published \in Nat
         /\ \A k \in Keys : retired[k] \in Nat /\ k \in Nat
         /\ fetched \in Nat /\ attempt \in Nat
         /\ \A q \in Requests : req[q].at = "get" <=> lock = q
<1>1. req \in [Requests -> Request] /\ \A q \in Requests : req[q] \in Request
  BY DEF TypeOK
<1>2. \A q \in Requests : req[q].got \in Keys \cup {0} /\ req[q].kid \in Keys
  BY <1>1 DEF Request
<1> QED BY <1>1, <1>2, Constants DEF TypeOK

\* A step that leaves the ages and the cache alone disturbs no other request.
LEMMA OthersWithdrawal ==
  ASSUME TypeOK, Withdrawal, NEW r \in Requests,
         \A q \in Requests \ {r} : req'[q] = req[q],
         UNCHANGED <<published, retired, set, fetched, attempt>>,
         lock' # "nobody" => lock # "nobody", WithdrawalOf(r)'
  PROVE  Withdrawal'
<1>1. \A q \in Requests \ {r} : WithdrawalOf(q)'
  BY DEF Withdrawal, WithdrawalOf
<1> QED BY <1>1 DEF Withdrawal

LEMMA FinishWithdrawal ==
  ASSUME TypeOK, Withdrawal, NEW r \in Requests, NEW as \in {"served", "misfit", "refused"},
         Finish(r, as), UNCHANGED <<published, retired, set, fetched, attempt>>,
         lock' # "nobody" => lock # "nobody"
  PROVE  Withdrawal'
<1>1. /\ req'[r].at = as /\ req'[r].late = FALSE
      /\ \A q \in Requests \ {r} : req'[q] = req[q]
  BY Types, Finished
<1>2. WithdrawalOf(r)'
  BY <1>1 DEF WithdrawalOf
<1> QED BY <1>1, <1>2, OthersWithdrawal

\* A fresh set never lists a key that some request comes too late for.
LEMMA FreshNotLate ==
  ASSUME TypeOK, Withdrawal, NEW r \in Requests, fetched <= Ttl, req[r].late
  PROVE  set # req[r].kid
<1>1. retired[req[r].kid] = Overdue /\ req[r].kid \in Keys
  BY Types DEF Withdrawal, WithdrawalOf
<1>2. req[r].kid # 0
  BY <1>1, Constants
<1>3. set # 0 => retired[set] <= fetched + MaxFetch
  BY Types, Constants DEF Withdrawal
<1> QED BY <1>1, <1>2, <1>3, Types, Constants

LEMMA TickWithdrawal == TypeOK /\ Withdrawal /\ Tick => Withdrawal'
<1> SUFFICES ASSUME TypeOK, Withdrawal, Tick PROVE Withdrawal'
  OBVIOUS
<1>1. /\ published' = published /\ set' = set /\ lock' = lock /\ req' = req
      /\ lock # "nobody" => attempt < MaxFetch
      /\ fetched' = Older(fetched, Ttl + 1) /\ attempt' = Older(attempt, Cap)
      /\ \A k \in Keys : retired'[k] = IF k < published THEN Older(retired[k], Overdue) ELSE 0
  BY DEF Tick
<1>2. \A k \in Keys : retired'[k] \in Nat /\ retired'[k] <= retired[k] + 1
  BY <1>1, Types, Constants DEF Older
<1>3. \A k \in Keys : k >= published => retired'[k] = 0
  BY <1>1, Types
<1>4. fetched' > Ttl \/ fetched' = fetched + 1
  BY <1>1, Types, Constants DEF Older, TypeOK
<1>5. lock # "nobody" => attempt' = attempt + 1
  BY <1>1, Types, Constants DEF Older
<1>6. set' # 0 => fetched' > Ttl \/ retired'[set'] <= fetched' + MaxFetch
  <2> SUFFICES ASSUME set # 0, ~(fetched' > Ttl) PROVE retired'[set] <= fetched' + MaxFetch
    BY <1>1
  <2>1. fetched' = fetched + 1 /\ set \in Keys
    BY <1>4, Types
  <2>2. fetched' \in Nat /\ fetched <= Ttl
    BY <2>1, Types, Constants
  <2>3. retired[set] <= fetched + MaxFetch
    BY <2>2, Types, Constants DEF Withdrawal
  <2> QED BY <1>2, <2>1, <2>3, Types, Constants
<1>7. lock' # "nobody" => attempt' <= MaxFetch
  BY <1>1, <1>5, Types, Constants
<1>8. ASSUME NEW r \in Requests PROVE WithdrawalOf(r)'
  <2>1. ASSUME req[r].at = "get", req[r].got # 0 PROVE retired'[req[r].got] <= attempt'
    <3>1. req[r].got \in Keys /\ lock = r /\ lock # "nobody"
      BY <2>1, Types, Constants
    <3>2. retired[req[r].got] <= attempt
      BY <2>1 DEF Withdrawal, WithdrawalOf
    <3> QED BY <1>2, <1>5, <3>1, <3>2, Types
  <2>2. ASSUME req[r].late PROVE retired'[req[r].kid] = Overdue
    <3>1. retired[req[r].kid] = Overdue /\ req[r].kid \in Keys
      BY <2>2, Types DEF Withdrawal, WithdrawalOf
    <3>2. req[r].kid < published
      BY <3>1, Types, Constants DEF Withdrawal
    <3> QED BY <1>1, <3>1, <3>2, Constants DEF Older
  <2>3. req[r].at = "again" /\ req[r].late /\ ~req[r].failed => set # req[r].kid
    BY DEF Withdrawal, WithdrawalOf
  <2> QED BY <1>1, <2>1, <2>2, <2>3 DEF WithdrawalOf
<1> QED BY <1>1, <1>3, <1>6, <1>7, <1>8 DEF Withdrawal

LEMMA StoreWithdrawal ==
  ASSUME TypeOK, Withdrawal, NEW r \in Requests, Store(r)
  PROVE  Withdrawal'
<1>1. /\ req[r].at = "get" /\ req[r].got # 0 /\ req[r].got \in Keys /\ lock = r /\ lock # "nobody"
      /\ set' = req[r].got /\ fetched' = 0 /\ lock' = "nobody" /\ attempt' = attempt
      /\ published' = published /\ retired' = retired
  BY Types, Constants DEF Store
<1>2. /\ req'[r].at = "again" /\ req'[r].kid = req[r].kid /\ req'[r].late = req[r].late
      /\ \A q \in Requests \ {r} : req'[q] = req[q]
  BY Types DEF Store, Request
<1>3. retired[set'] <= MaxFetch
  BY <1>1, Types, Constants DEF Withdrawal, WithdrawalOf
<1>4. ASSUME NEW q \in Requests PROVE WithdrawalOf(q)'
  <2>1. req'[q].kid = req[q].kid /\ req'[q].late = req[q].late
    BY <1>2
  <2>2. req'[q].at # "get"
    BY <1>1, <1>2, Types
  <2>3. req[q].late => retired[req[q].kid] = Overdue
    BY DEF Withdrawal, WithdrawalOf
  <2>4. req[q].late => set' # req[q].kid
    BY <1>3, <2>3, Types, Constants
  <2> QED BY <1>1, <2>1, <2>2, <2>3, <2>4 DEF WithdrawalOf
<1> QED BY <1>1, <1>3, <1>4, Types, Constants DEF Withdrawal

LEMMA NextWithdrawal == TypeOK /\ Order /\ Withdrawal /\ [Next]_vars => Withdrawal'
<1> SUFFICES ASSUME TypeOK, Order, Withdrawal, [Next]_vars PROVE Withdrawal'
  OBVIOUS
<1>1. ASSUME NEW r \in Requests, ReqStep(r) PROVE Withdrawal'
  <2>0. /\ \A q \in Requests \ {r} : req'[q] = req[q]
        /\ req[r] \in Request /\ req \in [Requests -> Request]
    BY <1>1, Entry, Replaced, Types
  <2>w. WithdrawalOf(r)
    BY DEF Withdrawal
  <2>1. CASE Begin(r)
    <3>1. UNCHANGED <<published, retired, set, fetched, attempt, lock>>
      BY <2>1 DEF Begin, keyVars
    <3>2. /\ req'[r].at = "lookup"
          /\ req'[r].late = (req'[r].kid < published /\ retired[req'[r].kid] = Overdue)
      BY <2>0, <2>1, Begun
    <3>3. WithdrawalOf(r)'
      BY <3>1, <3>2 DEF WithdrawalOf
    <3> QED BY <2>0, <3>1, <3>3, OthersWithdrawal
  <2>2. CASE Lookup(r)
    <3>1. UNCHANGED <<published, retired, set, fetched, attempt, lock>>
      BY <2>2 DEF Lookup, keyVars
    <3>2. /\ req'[r].at \notin {"get", "again"}
          /\ req'[r].late = req[r].late /\ req'[r].kid = req[r].kid
      BY <2>0, <2>2 DEF Lookup, Request
    <3>3. WithdrawalOf(r)'
      BY <2>w, <3>1, <3>2 DEF WithdrawalOf
    <3> QED BY <2>0, <3>1, <3>3, OthersWithdrawal
  <2>3. CASE IsStale(r)
    <3>1. UNCHANGED <<published, retired, set, fetched, attempt, lock>>
      BY <2>3 DEF IsStale, keyVars
    <3>2. CASE fetched > Ttl
      <4>1. /\ req'[r].at = "refresh"
            /\ req'[r].late = req[r].late /\ req'[r].kid = req[r].kid
        BY <2>0, <2>3, <3>2 DEF IsStale, Request
      <4>2. WithdrawalOf(r)'
        BY <2>w, <3>1, <4>1 DEF WithdrawalOf
      <4> QED BY <2>0, <3>1, <4>2, OthersWithdrawal
    <3>3. CASE ~(fetched > Ttl)
      BY <2>3, <3>1, <3>3, FinishWithdrawal DEF IsStale, Found
    <3> QED BY <3>2, <3>3
  <2>4. CASE Refresh(r) /\ Limited
    <3>1. UNCHANGED <<published, retired, set, fetched, attempt, lock>> /\ fetched <= Ttl
      BY <2>4 DEF Refresh, Limited
    <3>2. /\ req'[r].at = "again"
          /\ req'[r].late = req[r].late /\ req'[r].kid = req[r].kid
      BY <2>0, <2>4 DEF Refresh, Request
    <3>3. req[r].late => set # req[r].kid
      BY <3>1, FreshNotLate
    <3>4. WithdrawalOf(r)'
      BY <2>w, <3>1, <3>2, <3>3 DEF WithdrawalOf
    <3> QED BY <2>0, <3>1, <3>4, OthersWithdrawal
  <2>5. CASE Refresh(r) /\ ~Limited
    <3>1. /\ UNCHANGED <<published, retired, set, fetched>> /\ attempt' = 0
          /\ req[r].at = "refresh" /\ lock = "nobody"
      BY <2>5 DEF Refresh
    <3>2. /\ req'[r].at = "get" /\ req'[r].got = req[r].got
          /\ req'[r].late = req[r].late /\ req'[r].kid = req[r].kid
      BY <2>0, <2>5 DEF Refresh, Request
    <3>3. req[r].got = 0
      BY <3>1 DEF Order, OrderOf
    <3>4. WithdrawalOf(r)'
      BY <2>w, <3>1, <3>2, <3>3 DEF WithdrawalOf
    <3>5. ASSUME NEW q \in Requests \ {r} PROVE WithdrawalOf(q)'
      <4>1. req[q].at # "get"
        BY <3>1, Types, Constants
      <4> QED BY <2>0, <3>1, <4>1 DEF Withdrawal, WithdrawalOf
    <3> QED BY <3>1, <3>4, <3>5, Constants DEF Withdrawal
  <2>6. CASE LookupAgain(r)
    <3>1. UNCHANGED <<published, retired, set, fetched, attempt, lock>>
      BY <2>6 DEF LookupAgain, keyVars
    <3> QED BY <2>6, <3>1, FinishWithdrawal DEF LookupAgain, Found
  <2>7. CASE HandleJWKS(r)
    <3>1. UNCHANGED <<published, retired, set, fetched, attempt, lock>> /\ req[r].at = "get"
      BY <2>7 DEF HandleJWKS, keyVars
    <3>2. /\ req'[r].at = req[r].at /\ req'[r].got = published
          /\ req'[r].late = req[r].late /\ req'[r].kid = req[r].kid
      BY <2>0, <2>7 DEF HandleJWKS, Request
    <3>3. retired[published] = 0 /\ attempt >= 0
      BY Types DEF Withdrawal
    <3>4. WithdrawalOf(r)'
      BY <2>w, <3>1, <3>2, <3>3 DEF WithdrawalOf
    <3> QED BY <2>0, <3>1, <3>4, OthersWithdrawal
  <2>8. CASE Store(r)
    BY <2>8, StoreWithdrawal
  <2>9. CASE FetchFails(r)
    <3>1. UNCHANGED <<published, retired, set, fetched, attempt>> /\ lock' = "nobody"
      BY <2>9 DEF FetchFails
    <3>2. CASE req[r].found
      <4>1. /\ req'[r].at = "again" /\ req'[r].failed = TRUE
            /\ req'[r].late = req[r].late /\ req'[r].kid = req[r].kid
        BY <2>0, <2>9, <3>2 DEF FetchFails, Request
      <4>2. WithdrawalOf(r)'
        BY <2>w, <3>1, <4>1 DEF WithdrawalOf
      <4> QED BY <2>0, <3>1, <4>2, OthersWithdrawal
    <3>3. CASE ~req[r].found
      BY <2>9, <3>1, <3>3, FinishWithdrawal DEF FetchFails
    <3> QED BY <3>2, <3>3
  <2>10. CASE Return(r)
    <3>1. UNCHANGED <<published, retired, set, fetched, attempt, lock>>
      BY <2>10 DEF Return, keyVars
    <3>2. req'[r].at = "idle" /\ req'[r].late = FALSE
      BY <2>0, <2>10 DEF Return, NewRequest
    <3>3. WithdrawalOf(r)'
      BY <3>1, <3>2 DEF WithdrawalOf
    <3> QED BY <2>0, <3>1, <3>3, OthersWithdrawal
  <2> QED BY <1>1, <2>1, <2>2, <2>3, <2>4, <2>5, <2>6, <2>7, <2>8, <2>9, <2>10
          DEF ReqStep, Looks, FetchEnds
<1>2. CASE Tick
  BY <1>2, TickWithdrawal
<1>3. CASE Rotate
  <2>1. UNCHANGED <<retired, set, fetched, attempt, lock, req>> /\ published' = published + 1
    BY <1>3 DEF Rotate, keyVars
  <2>2. \A k \in Keys : k >= published' => retired'[k] = 0
    BY <2>1, Types DEF Withdrawal
  <2>3. \A r \in Requests : WithdrawalOf(r)'
    BY <2>1 DEF Withdrawal, WithdrawalOf
  <2> QED BY <2>1, <2>2, <2>3 DEF Withdrawal
<1>4. CASE Fault \/ UNCHANGED vars
  BY <1>4 DEF Fault, vars, keyVars, Withdrawal, WithdrawalOf
<1> QED BY <1>1, <1>2, <1>3, <1>4 DEF Next, ReqStep

\* A request that begins longer than Ttl and one fetch after its key was withdrawn is
\* served that key, while the set lists it, only if its own refresh failed.
THEOREM WithdrawnKeysRefused == Spec => WithdrawnOnlyIfUnreachable
<1> DEFINE A == \A r \in Requests :
                  Served(r) /\ set = req[r].kid /\ req[r].late => req[r].failed
<1>1. TypeOK /\ Withdrawal /\ [Next]_vars => [A]_vars
  <2> SUFFICES ASSUME TypeOK, Withdrawal, [Next]_vars,
                      NEW r \in Requests, Served(r), set = req[r].kid, req[r].late
               PROVE  req[r].failed
    OBVIOUS
  <2>1. CASE fetched <= Ttl
    BY <2>1, FreshNotLate
  <2>2. CASE req[r].at = "again"
    BY <2>2 DEF Withdrawal, WithdrawalOf
  <2> QED BY <2>1, <2>2, ServedBy
<1>2. Spec => [](TypeOK /\ Withdrawal)
  BY InitType, NextType, InitOrder, NextOrder, InitWithdrawal, NextWithdrawal, PTL DEF Spec
<1> QED BY <1>1, <1>2, PTL DEF Spec, WithdrawnOnlyIfUnreachable

-----------------------------------------------------------------------------
(* How far fetches are apart *)

\* Unless the last attempt failed, the set was stored no earlier than it was asked for.
Spacing == ~broke /\ lock = "nobody" => attempt = Cap \/ attempt >= fetched

LEMMA NextSpacing == TypeOK /\ Spacing /\ [Next]_vars => Spacing'
<1> SUFFICES ASSUME TypeOK, Spacing, [Next]_vars PROVE Spacing'
  OBVIOUS
<1>1. ASSUME NEW r \in Requests, Refresh(r) PROVE Spacing'
  BY <1>1, Constants DEF Refresh, Spacing
<1>2. ASSUME NEW r \in Requests, Store(r) PROVE Spacing'
  BY <1>2, Types DEF Store, Spacing
<1>3. ASSUME NEW r \in Requests, FetchFails(r) PROVE Spacing'
  BY <1>3 DEF FetchFails, Spacing
<1>4. ASSUME NEW r \in Requests,
             Begin(r) \/ Lookup(r) \/ IsStale(r) \/ LookupAgain(r) \/ HandleJWKS(r) \/ Return(r)
      PROVE  Spacing'
  BY <1>4 DEF Begin, Lookup, IsStale, LookupAgain, HandleJWKS, Return, keyVars, Spacing
<1>5. CASE Tick
  <2>1. UNCHANGED <<broke, lock>>
    BY <1>5 DEF Tick
  <2>2. ASSUME attempt = Cap \/ attempt >= fetched
        PROVE  attempt' = Cap \/ attempt' >= fetched'
    BY <1>5, <2>2, Types, Constants DEF Tick, Older, TypeOK
  <2> QED BY <2>1, <2>2 DEF Spacing
<1>6. CASE Rotate \/ Fault \/ UNCHANGED vars
  BY <1>6 DEF Rotate, Fault, vars, keyVars, Spacing
<1> QED BY <1>1, <1>2, <1>3, <1>4, <1>5, <1>6 DEF Next, Looks, FetchEnds

\* Whatever the tokens name, two fetches are MinRefresh apart unless the first failed.
THEOREM FetchesApart == Spec => FetchesSpaced
<1> DEFINE A == lock = "nobody" /\ lock' # "nobody" => attempt >= MinRefresh \/ broke
<1>1. TypeOK /\ Spacing /\ [Next]_vars => [A]_vars
  <2> SUFFICES ASSUME TypeOK, Spacing, [Next]_vars, lock = "nobody", lock' # "nobody", ~broke
               PROVE  attempt >= MinRefresh
    OBVIOUS
  <2>1. PICK r \in Requests : Refresh(r)
    BY DEF Next, Looks, FetchEnds, Begin, Lookup, IsStale, LookupAgain, HandleJWKS, Store,
           FetchFails, Return, Tick, Rotate, Fault, vars, keyVars
  <2>2. ~Limited
    BY <2>1 DEF Refresh
  <2>3. attempt >= MinRefresh \/ fetched > Ttl
    BY <2>2, Types, Constants DEF Limited
  <2>4. attempt = Cap \/ attempt >= fetched
    BY DEF Spacing
  <2> QED BY <2>3, <2>4, Types, Constants
<1>2. Init => Spacing
  BY DEF Init, Spacing
<1> QED BY <1>1, <1>2, InitType, NextType, NextSpacing, PTL DEF Spec, FetchesSpaced

=============================================================================
