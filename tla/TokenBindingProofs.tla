------------------------- MODULE TokenBindingProofs -------------------------
(***************************************************************************)
(* The safety of TokenBinding for any number of callers and rotations,     *)
(* with and without the post-quantum plane.                                *)
(*                                                                         *)
(* Holding says what base.mu protects: while a renewal is planned or under *)
(* way nobody talks to an issuer.  Exchanges says whose connection each    *)
(* one is; from the two follows that the classical pools only ever hold    *)
(* connections that present the certificate in force.                      *)
(***************************************************************************)
EXTENDS TokenBinding, SequenceTheorems, TLAPS

Exchange == [at : {"none", "wanted", "open"}, pool : Pools \cup {"none"},
             cert : Versions \cup {0}]

\* The state of the transports is well formed, and an open connection presents a
\* certificate.
Connected ==
  /\ ex \in [Actors -> Exchange]
  /\ idle \in [Pools -> Seq(Versions)]
  /\ closeIdle \in [1..Active -> BOOLEAN]
  /\ \A a \in Actors : ex[a].at # "none" => ex[a].pool \in Pools
  /\ \A a \in Actors : ex[a].at = "open" => ex[a].cert \in Versions

\* base.mu covers renewals and issuance alike, so they exclude each other.
Holding ==
  /\ dropping => plan # <<>>
  /\ \A c \in Callers : pc[c] \in {"as", "shim"} => plan = <<>>
  /\ \A c \in Callers : pc[c] = "shim" => PQ

\* An exchange is with the server that its caller is waiting for.
Exchanges ==
  /\ \A c \in Callers :
       ex[c].at # "none" => ex[c].pool = pc[c] /\ pc[c] \in {"as", "shim", "rs"}
  /\ ex["fetch"].at # "none" => ex["fetch"].pool = JwksPool

Inv == TypeOK /\ Connected /\ Holding /\ Exchanges

\* The certificates that the idle connections of a pool present.
Shown(h) == {idle[h][i] : i \in 1..Len(idle[h])}

LEMMA Constants ==
  /\ PQ \in BOOLEAN /\ MaxRotations \in Nat
  /\ "maintain" \notin Callers /\ "nobody" \notin Callers /\ "fetch" \notin Callers
  /\ Versions \subseteq Nat \ {0} /\ 1 \in Versions
BY BindingAssumption DEF Versions

LEMMA PlaneFacts ==
  /\ Active \in {1, 2} /\ (PQ => Active = 2) /\ (~PQ => Active = 1)
  /\ Planes \in Seq(1..Active) /\ Planes # <<>>
  /\ \A p \in 1..Active : <<p>> \in Seq(1..Active) /\ <<p>> # <<>>
<1>1. CASE PQ
  BY <1>1 DEF Active, Planes
<1>2. CASE ~PQ
  BY <1>2 DEF Active, Planes
<1> QED BY <1>1, <1>2

LEMMA PoolFacts ==
  /\ "as" \in Pools /\ "rs" \in Pools /\ (PQ => "shim" \in Pools) /\ JwksPool \in Pools
  /\ (PQ => JwksPool = "jwks") /\ "none" \notin Pools
  /\ \A h : TransportOf(h) \in 1..Active
<1>1. \A h : TransportOf(h) \in 1..Active
  BY PlaneFacts DEF TransportOf
<1> QED BY <1>1 DEF Pools, JwksPool

-----------------------------------------------------------------------------
(* http.Transport *)

\* What every step on the exchange of actor a leaves alone.
LEMMA WantConnStep ==
  ASSUME Connected, NEW a \in Actors, NEW h \in Pools, WantConn(a, h)
  PROVE  /\ Connected'
         /\ ex'[a].pool = h /\ (ex'[a].at = "open" => ex'[a].cert \in Shown(h))
         /\ \A b \in Actors \ {a} : ex'[b] = ex[b]
         /\ \A g \in Pools : Shown(g)' \subseteq Shown(g)
<1>1. closeIdle' \in [1..Active -> BOOLEAN]
  BY PoolFacts DEF WantConn, Connected
<1>2. CASE idle[h] = <<>>
  <2> DEFINE e == [at |-> "wanted", pool |-> h, cert |-> 0]
  <2>1. e \in Exchange /\ e.at = "wanted" /\ e.pool = h
    BY DEF Exchange
  <2>2. ex' = [ex EXCEPT ![a] = e] /\ idle' = idle
    BY <1>2 DEF WantConn
  <2> HIDE DEF e
  <2>3. ex' \in [Actors -> Exchange] /\ ex'[a] = e /\ \A b \in Actors \ {a} : ex'[b] = ex[b]
    BY <2>1, <2>2 DEF Connected
  <2> QED BY <1>1, <2>1, <2>2, <2>3 DEF Connected, Shown
<1>3. CASE idle[h] # <<>>
  <2> DEFINE v == idle[h][Len(idle[h])]
             e == [at |-> "open", pool |-> h, cert |-> v]
             s == SubSeq(idle[h], 1, Len(idle[h]) - 1)
  <2>0. idle[h] \in Seq(Versions) /\ Len(idle[h]) \in Nat /\ Len(idle[h]) # 0
    BY <1>3, EmptySeq DEF Connected
  <2>1. v \in Versions /\ v \in Shown(h)
    BY <2>0, ElementOfSeq DEF Shown
  <2>2. e \in Exchange /\ e.at = "open" /\ e.pool = h /\ e.cert = v
    BY <2>1 DEF Exchange
  <2>3. s \in Seq(Versions)
    <3>1. \A i \in 1..(Len(idle[h]) - 1) : idle[h][i] \in Versions
      BY <2>0, ElementOfSeq
    <3> QED BY <2>0, <3>1, SubSeqProperties
  <2>s. Len(s) = Len(idle[h]) - 1 /\ \A i \in 1..Len(s) : s[i] = idle[h][i]
    BY <2>0
  <2>4. ex' = [ex EXCEPT ![a] = e] /\ idle' = [idle EXCEPT ![h] = s]
    BY <1>3 DEF WantConn
  <2> HIDE DEF v, e, s
  <2>5. ex' \in [Actors -> Exchange] /\ ex'[a] = e /\ \A b \in Actors \ {a} : ex'[b] = ex[b]
    BY <2>2, <2>4 DEF Connected
  <2>6. idle' \in [Pools -> Seq(Versions)]
    BY <2>3, <2>4 DEF Connected
  <2>7. ASSUME NEW g \in Pools PROVE Shown(g)' \subseteq Shown(g)
    <3>1. CASE g = h
      <4>1. idle'[g] = s
        BY <2>4, <3>1 DEF Connected
      <4>2. \A i \in 1..Len(s) : i \in 1..Len(idle[h])
        BY <2>0, <2>s
      <4> QED BY <2>s, <3>1, <4>1, <4>2 DEF Shown
    <3>2. CASE g # h
      BY <2>4, <3>2 DEF Connected, Shown
    <3> QED BY <3>1, <3>2
  <2> QED BY <1>1, <2>1, <2>2, <2>5, <2>6, <2>7 DEF Connected
<1> QED BY <1>2, <1>3

\* No exchange changes its pool, and none begins.
Kept(b) == ex'[b].at # "none" => ex[b].at # "none" /\ ex'[b].pool = ex[b].pool

LEMMA PresentStep ==
  ASSUME Connected, cert \in [1..Active -> Versions], NEW a \in Actors, Present(a)
  PROVE  Connected' /\ \A b \in Actors : Kept(b)
<1>1. ex' = [ex EXCEPT ![a].at = "open", ![a].cert = cert[TransportOf(ex[a].pool)]]
      /\ idle' = idle /\ closeIdle' = closeIdle /\ ex[a].at = "wanted" /\ ex[a] \in Exchange
  BY DEF Present, Connected
<1>2. cert[TransportOf(ex[a].pool)] \in Versions
  BY PoolFacts
<1>3. /\ ex'[a].at = "open" /\ ex'[a].pool = ex[a].pool /\ ex'[a].cert \in Versions
      /\ ex'[a] \in Exchange /\ ex' \in [Actors -> Exchange]
      /\ \A b \in Actors \ {a} : ex'[b] = ex[b]
  BY <1>1, <1>2 DEF Connected, Exchange
<1> QED BY <1>1, <1>3 DEF Connected, Kept

LEMMA ReleaseStep ==
  ASSUME Connected, NEW a \in Actors, ex[a].at = "open", Release(a)
  PROVE  /\ Connected' /\ ex'[a].at = "none" /\ \A b \in Actors : Kept(b)
         /\ \A b \in Actors \ {a} : ex'[b] = ex[b] \/ ex'[b] = ex[a]
         /\ \A g \in Pools : Shown(g)' \subseteq
              Shown(g) \cup (IF g = ex[a].pool THEN {ex[a].cert} ELSE {})
<1> DEFINE Goal ==
             /\ Connected' /\ ex'[a].at = "none" /\ \A b \in Actors : Kept(b)
             /\ \A b \in Actors \ {a} : ex'[b] = ex[b] \/ ex'[b] = ex[a]
             /\ \A g \in Pools : Shown(g)' \subseteq
                  Shown(g) \cup (IF g = ex[a].pool THEN {ex[a].cert} ELSE {})
<1> DEFINE waiting == {b \in Actors : ex[b].at = "wanted" /\ ex[b].pool = ex[a].pool}
<1>1. closeIdle' = closeIdle
  BY DEF Release
<1>2. NoExchange \in Exchange /\ NoExchange.at = "none"
  BY DEF NoExchange, Exchange
<1>3. ex[a] \in Exchange /\ ex[a].pool \in Pools /\ ex[a].cert \in Versions
  BY DEF Connected
<1>4. ASSUME NEW b \in waiting, ex' = [ex EXCEPT ![a] = NoExchange, ![b] = ex[a]], idle' = idle
      PROVE  Goal
  <2>1. a # b /\ b \in Actors /\ ex[b].pool = ex[a].pool /\ ex[b].at = "wanted"
    OBVIOUS
  <2>2. /\ ex'[a] = NoExchange /\ ex'[b] = ex[a] /\ ex' \in [Actors -> Exchange]
        /\ \A d \in Actors \ {a, b} : ex'[d] = ex[d]
    BY <1>2, <1>3, <1>4, <2>1 DEF Connected
  <2>3. Connected'
    BY <1>1, <1>2, <1>3, <1>4, <2>1, <2>2 DEF Connected
  <2>4. \A d \in Actors : Kept(d)
    BY <1>2, <2>1, <2>2 DEF Kept
  <2>5. \A g \in Pools : Shown(g)' = Shown(g)
    BY <1>4 DEF Shown
  <2> QED BY <1>2, <2>2, <2>3, <2>4, <2>5
<1>5. ASSUME ex' = [ex EXCEPT ![a] = NoExchange],
             idle' = IF closeIdle[TransportOf(ex[a].pool)] THEN idle
                     ELSE [idle EXCEPT ![ex[a].pool] = Append(@, ex[a].cert)]
      PROVE  Goal
  <2>1. Append(idle[ex[a].pool], ex[a].cert) \in Seq(Versions)
    BY <1>3, AppendProperties DEF Connected
  <2>2. idle' \in [Pools -> Seq(Versions)]
    BY <1>3, <1>5, <2>1 DEF Connected
  <2>3. /\ ex'[a] = NoExchange /\ ex' \in [Actors -> Exchange]
        /\ \A d \in Actors \ {a} : ex'[d] = ex[d]
    BY <1>2, <1>5 DEF Connected
  <2>4. Connected'
    BY <1>1, <1>2, <2>2, <2>3 DEF Connected
  <2>5. ASSUME NEW g \in Pools
        PROVE  Shown(g)' \subseteq Shown(g) \cup (IF g = ex[a].pool THEN {ex[a].cert} ELSE {})
    <3>1. CASE idle'[g] = idle[g]
      BY <3>1 DEF Shown
    <3>2. CASE idle'[g] # idle[g]
      <4> DEFINE t == Append(idle[g], ex[a].cert)
      <4>1. g = ex[a].pool /\ idle'[g] = t
        BY <1>3, <1>5, <3>2 DEF Connected
      <4>2. Len(t) = Len(idle[g]) + 1 /\ Len(idle[g]) \in Nat
            /\ t[Len(idle[g]) + 1] = ex[a].cert
            /\ \A i \in 1..Len(idle[g]) : t[i] = idle[g][i]
        BY <1>3, AppendProperties, LenProperties DEF Connected
      <4> HIDE DEF t
      <4>3. \A i \in 1..Len(t) : i \in 1..Len(idle[g]) \/ i = Len(idle[g]) + 1
        BY <4>2
      <4> QED BY <4>1, <4>2, <4>3 DEF Shown
    <3> QED BY <3>1, <3>2
  <2> QED BY <1>2, <2>3, <2>4, <2>5 DEF Kept
<1> QED BY <1>4, <1>5 DEF Release

LEMMA AbortStep ==
  ASSUME Connected, NEW a \in Actors, Abort(a)
  PROVE  /\ Connected' /\ ex'[a].at = "none" /\ \A b \in Actors : Kept(b)
         /\ \A b \in Actors \ {a} : ex'[b] = ex[b]
<1>1. NoExchange \in Exchange /\ NoExchange.at = "none"
  BY DEF NoExchange, Exchange
<1>2. /\ ex'[a] = NoExchange /\ ex' \in [Actors -> Exchange]
      /\ \A d \in Actors \ {a} : ex'[d] = ex[d]
  BY <1>1 DEF Abort, Connected
<1> QED BY <1>1, <1>2 DEF Abort, Connected, Kept

-----------------------------------------------------------------------------
(* base.mu *)

\* Who holds base.mu, and what is done under it.
Mutex ==
  /\ mu \in Callers \cup {"maintain", "nobody"}
  /\ plan \in Seq(1..Active) /\ dropping \in BOOLEAN
  /\ pc \in [Callers -> {"idle", "lock", "locked", "as", "shim", "rs"}]
  /\ \A c \in Callers : mu = c <=> pc[c] \in {"locked", "as", "shim"}
  /\ mu = "nobody" => plan = <<>> /\ ~dropping
  /\ Holding

LEMMA MutexType == TypeOK /\ Holding => Mutex
BY DEF TypeOK, Mutex

\* A caller that gives up, whether it holds base.mu or not.
LEMMA ErrorReturnMutex ==
  ASSUME Mutex, NEW c \in Callers, ErrorReturn(c), UNCHANGED <<plan, dropping>>,
         mu = c => plan = <<>>
  PROVE  Mutex'
<1>1. pc'[c] = "idle" /\ \A d \in Callers \ {c} : pc'[d] = pc[d]
  BY DEF ErrorReturn, Mutex
<1>2. pc' \in [Callers -> {"idle", "lock", "locked", "as", "shim", "rs"}]
  BY DEF ErrorReturn, Mutex
<1>3. Holding'
  BY <1>1 DEF Mutex, Holding
<1>4. CASE mu = c
  <2>1. mu' = "nobody" /\ ~dropping
    BY <1>4 DEF ErrorReturn, Mutex, Holding
  <2>2. \A d \in Callers : pc'[d] \notin {"locked", "as", "shim"}
    BY <1>1, <1>4 DEF Mutex
  <2> QED BY <1>2, <1>3, <1>4, <2>1, <2>2, Constants DEF Mutex
<1>5. CASE mu # c
  <2>1. mu' = mu
    BY <1>5 DEF ErrorReturn
  <2> QED BY <1>1, <1>2, <1>3, <1>5, <2>1 DEF Mutex
<1> QED BY <1>4, <1>5

\* Token returns to Do.
LEMMA ReturnMutex ==
  ASSUME Mutex, NEW c \in Callers, NEW t, Return(c, t), UNCHANGED <<plan, dropping>>,
         mu = c, plan = <<>>
  PROVE  Mutex'
<1>1. pc'[c] = "rs" /\ mu' = "nobody" /\ \A d \in Callers \ {c} : pc'[d] = pc[d]
  BY DEF Return, Mutex
<1>2. pc' \in [Callers -> {"idle", "lock", "locked", "as", "shim", "rs"}]
  BY DEF Return, Mutex
<1>3. Holding' /\ ~dropping
  BY <1>1 DEF Mutex, Holding
<1>4. \A d \in Callers : pc'[d] \notin {"locked", "as", "shim"}
  BY <1>1 DEF Mutex
<1> QED BY <1>1, <1>2, <1>3, <1>4, Constants DEF Mutex

\* A caller that goes on without touching base.mu.
LEMMA MoveMutex ==
  ASSUME Mutex, NEW c \in Callers, NEW to \in {"idle", "lock", "locked", "as", "shim", "rs"},
         pc' = [pc EXCEPT ![c] = to], UNCHANGED <<mu, plan, dropping>>,
         pc[c] \in {"locked", "as", "shim"} <=> to \in {"locked", "as", "shim"},
         to \in {"as", "shim"} => plan = <<>>, to = "shim" => PQ
  PROVE  Mutex'
<1>1. pc'[c] = to /\ \A d \in Callers \ {c} : pc'[d] = pc[d]
  BY DEF Mutex
<1>2. pc' \in [Callers -> {"idle", "lock", "locked", "as", "shim", "rs"}]
  BY DEF Mutex
<1>3. Holding'
  BY <1>1 DEF Mutex, Holding
<1> QED BY <1>1, <1>2, <1>3 DEF Mutex

LEMMA CallerMutex ==
  ASSUME Mutex, Exchanges, NEW c \in Callers, Begin(c) \/ Lock(c) \/ CallerSteps(c)
  PROVE  Mutex'
<1>0. pc[c] \in {"locked", "as", "shim"} <=> mu = c
  BY DEF Mutex
<1>h. pc[c] \in {"as", "shim"} => plan = <<>>
  BY DEF Mutex, Holding
<1>1. CASE Begin(c)
  BY <1>1, MoveMutex DEF Begin
<1>2. CASE Lock(c)
  <2>1. /\ mu = "nobody" /\ mu' = c /\ plan' \in {<<>>, Planes} /\ dropping' = dropping
        /\ pc'[c] = "locked" /\ \A d \in Callers \ {c} : pc'[d] = pc[d]
        /\ pc' \in [Callers -> {"idle", "lock", "locked", "as", "shim", "rs"}]
    BY <1>2 DEF Lock, Mutex
  <2>2. plan' \in Seq(1..Active) /\ ~dropping
    BY <2>1, PlaneFacts, EmptySeq DEF Mutex
  <2>3. \A d \in Callers : pc[d] \notin {"locked", "as", "shim"}
    BY <2>1, Constants DEF Mutex
  <2>4. Holding'
    BY <2>1, <2>2, <2>3 DEF Holding
  <2> QED BY <2>1, <2>2, <2>3, <2>4, Constants DEF Mutex
<1>3. CASE UseCached(c)
  BY <1>0, <1>3, ReturnMutex DEF UseCached
<1>4. CASE Issue(c)
  BY <1>4, MoveMutex DEF Issue
<1>5. CASE Send(c) \/ Present(c)
  <2>1. UNCHANGED <<mu, plan, dropping, pc>>
    BY <1>5 DEF Send, Present
  <2> QED BY <2>1 DEF Mutex, Holding
<1>6. CASE TokenAnswer(c)
  <2>1. UNCHANGED <<plan, dropping>> /\ pc[c] = "as" /\ mu = c /\ plan = <<>>
    BY <1>0, <1>h, <1>6 DEF TokenAnswer
  <2>2. CASE ErrorReturn(c)
    BY <2>1, <2>2, ErrorReturnMutex
  <2>3. CASE PQ /\ pc' = [pc EXCEPT ![c] = "shim"] /\ mu' = mu
    BY <2>1, <2>3, MoveMutex
  <2>4. CASE Return(c, ex[c].cert)
    BY <2>1, <2>4, ReturnMutex
  <2> QED BY <1>6, <2>2, <2>3, <2>4 DEF TokenAnswer
<1>7. CASE UpgradeAnswer(c)
  <2>1. UNCHANGED <<plan, dropping>> /\ pc[c] = "shim" /\ mu = c /\ plan = <<>>
    BY <1>0, <1>h, <1>7 DEF UpgradeAnswer
  <2>2. CASE ErrorReturn(c)
    BY <2>1, <2>2, ErrorReturnMutex
  <2>3. CASE Return(c, cert[2])
    BY <2>1, <2>3, ReturnMutex
  <2> QED BY <1>7, <2>2, <2>3 DEF UpgradeAnswer
<1>8. CASE ResourceAnswer(c)
  BY <1>8, MoveMutex DEF ResourceAnswer
<1>9. CASE Fail(c)
  <2>1. ex[c].at # "none" /\ ErrorReturn(c) /\ UNCHANGED <<plan, dropping>>
    BY <1>9 DEF Fail, Abort, Refused
  <2>2. pc[c] \in {"as", "shim", "rs"}
    BY <2>1 DEF Exchanges
  <2> QED BY <1>0, <1>h, <2>1, <2>2, ErrorReturnMutex
<1> QED BY <1>1, <1>2, <1>3, <1>4, <1>5, <1>6, <1>7, <1>8, <1>9 DEF CallerSteps

\* Renewals hold base.mu from the first plane to the last.
LEMMA RenewalMutex ==
  ASSUME Mutex, Renewal \/ MaintainLocks \/ MaintainUnlocks
  PROVE  Mutex'
<1>1. CASE SetIdentity
  BY <1>1 DEF SetIdentity, Mutex, Holding
<1>2. CASE DropOld
  <2>1. plan # <<>> /\ plan' = Tail(plan) /\ dropping' = FALSE /\ UNCHANGED <<mu, pc>>
    BY <1>2 DEF DropOld, Mutex, Holding
  <2>2. plan' \in Seq(1..Active) /\ mu # "nobody"
    BY <2>1, HeadTailProperties DEF Mutex
  <2>3. \A c \in Callers : pc[c] \notin {"as", "shim"}
    BY <2>1 DEF Mutex, Holding
  <2> QED BY <2>1, <2>2, <2>3 DEF Mutex, Holding
<1>3. CASE RenewFails /\ mu = "maintain"
  <2>1. plan # <<>> /\ plan' = Tail(plan) /\ ~dropping /\ UNCHANGED <<mu, pc, dropping>>
    BY <1>3 DEF RenewFails
  <2>2. plan' \in Seq(1..Active)
    BY <2>1, HeadTailProperties DEF Mutex
  <2>3. \A c \in Callers : pc[c] \notin {"as", "shim"}
    BY <2>1 DEF Mutex, Holding
  <2> QED BY <1>3, <2>1, <2>2, <2>3, Constants DEF Mutex, Holding
<1>4. CASE RenewFails /\ mu # "maintain"
  <2>1. /\ plan # <<>> /\ plan' = <<>> /\ ~dropping /\ dropping' = dropping
        /\ mu' = "nobody" /\ mu \in Callers /\ pc' = [pc EXCEPT ![mu] = "idle"]
    BY <1>4 DEF RenewFails, Mutex
  <2>2. /\ pc' \in [Callers -> {"idle", "lock", "locked", "as", "shim", "rs"}]
        /\ \A d \in Callers : pc'[d] = IF d = mu THEN "idle" ELSE pc[d]
    BY <2>1 DEF Mutex
  <2>3. \A d \in Callers : pc'[d] \notin {"locked", "as", "shim"}
    BY <2>1, <2>2 DEF Mutex
  <2>4. <<>> \in Seq(1..Active)
    BY EmptySeq
  <2> QED BY <2>1, <2>2, <2>3, <2>4, Constants DEF Mutex, Holding
<1>5. CASE MaintainLocks
  <2>1. mu = "nobody" /\ mu' = "maintain" /\ UNCHANGED <<dropping, pc>> /\ ~dropping
    BY <1>5 DEF MaintainLocks, Mutex
  <2>2. plan' \in Seq(1..Active)
    BY <1>5, PlaneFacts DEF MaintainLocks
  <2>3. \A c \in Callers : pc[c] \notin {"locked", "as", "shim"}
    BY <2>1, Constants DEF Mutex
  <2> QED BY <2>1, <2>2, <2>3, Constants DEF Mutex, Holding
<1>6. CASE MaintainUnlocks
  <2>1. mu = "maintain" /\ mu' = "nobody" /\ UNCHANGED <<plan, dropping, pc>> /\ plan = <<>>
    BY <1>6 DEF MaintainUnlocks
  <2>2. ~dropping
    BY <2>1 DEF Mutex, Holding
  <2> QED BY <2>1, <2>2, Constants DEF Mutex, Holding
<1> QED BY <1>1, <1>2, <1>3, <1>4, <1>5, <1>6 DEF Renewal
-----------------------------------------------------------------------------
(* The invariant *)

LEMMA InitInv == Init => Inv
<1> SUFFICES ASSUME Init PROVE Inv
  OBVIOUS
<1> USE DEF Init
<1>1. NoExchange \in Exchange /\ NoExchange.at = "none" /\ <<>> \in Seq(Versions) /\ <<>> \in Seq(1..Active)
  BY EmptySeq DEF NoExchange, Exchange
<1>2. ex \in [Actors -> Exchange] /\ \A a \in Actors : ex[a].at = "none"
  BY <1>1
<1>3. idle \in [Pools -> Seq(Versions)] /\ closeIdle \in [1..Active -> BOOLEAN]
  BY <1>1
<1>4. \A c \in Callers : pc[c] = "idle" /\ mu # c
  BY Constants
<1>5. cert \in [1..Active -> Versions]
  BY Constants
<1>6. TypeOK
  BY <1>1, <1>2, <1>3, <1>4, <1>5 DEF TypeOK, Exchange
<1>7. Connected
  BY <1>2, <1>3 DEF Connected
<1>8. Holding /\ Exchanges
  BY <1>2, <1>4 DEF Holding, Exchanges, Actors
<1> QED BY <1>6, <1>7, <1>8 DEF Inv

\* An exchange stays with the server its caller waits for, if a's ends or a waits still.
LEMMA ExchangesStep ==
  ASSUME Exchanges, NEW a \in Actors, \A b \in Actors : Kept(b),
         \A d \in Callers \ {a} : pc'[d] = pc[d],
         ex'[a].at = "none" \/ pc' = pc
  PROVE  Exchanges'
<1>1. ASSUME NEW d \in Callers, ex'[d].at # "none" 
        PROVE  ex'[d].pool = pc'[d] /\ pc'[d] \in {"as", "shim", "rs"}
  <2>1. Kept(d)
    BY DEF Actors
  <2> QED BY <1>1, <2>1 DEF Kept, Exchanges
<1>2. Kept("fetch")
  BY DEF Actors
<1> QED BY <1>1, <1>2 DEF Exchanges, Kept

\* The steps that touch no connection.
Offline ==
  \/ \E c \in Callers : Begin(c) \/ Lock(c) \/ UseCached(c) \/ Issue(c)
  \/ SetIdentity \/ DropOld \/ RenewFails \/ MaintainLocks \/ MaintainUnlocks

\* Only a caller with no exchange under way moves on without one.
LEMMA OfflineExchanges ==
  ASSUME Mutex, Exchanges, Offline
  PROVE  ex' = ex /\ Exchanges'
<1>1. ASSUME NEW c \in Callers, Begin(c) \/ Lock(c) \/ UseCached(c) \/ Issue(c)
      PROVE  ex' = ex /\ Exchanges'
  <2>1. ex' = ex /\ \A d \in Callers \ {c} : pc'[d] = pc[d]
    BY <1>1 DEF Begin, Lock, UseCached, Issue, Return, Mutex
  <2>2. pc[c] \in {"idle", "lock", "locked"}
    BY <1>1 DEF Begin, Lock, UseCached, Issue
  <2>3. ex[c].at = "none"
    BY <1>1, <2>2 DEF Exchanges
  <2> QED BY <2>1, <2>3 DEF Exchanges
<1>2. CASE RenewFails /\ mu # "maintain"
  <2>1. mu \in Callers /\ plan # <<>> /\ ex' = ex /\ pc' = [pc EXCEPT ![mu] = "idle"]
    BY <1>2 DEF RenewFails, Mutex
  <2>2. pc[mu] = "locked"
    BY <2>1 DEF Mutex, Holding
  <2>3. ex[mu].at = "none"
    BY <2>1, <2>2 DEF Exchanges
  <2> QED BY <2>1, <2>3 DEF Exchanges, Mutex
<1>3. CASE SetIdentity \/ DropOld \/ (RenewFails /\ mu = "maintain") \/ MaintainLocks \/ MaintainUnlocks
  <2>1. ex' = ex /\ pc' = pc
    BY <1>3 DEF SetIdentity, DropOld, RenewFails, MaintainLocks, MaintainUnlocks
  <2> QED BY <2>1 DEF Exchanges
<1> QED BY <1>1, <1>2, <1>3 DEF Offline

\* The steps on a connection, by what they do to it.
Asking == (\E c \in Callers : Send(c)) \/ Fetch
Presenting == \E a \in Actors : Present(a)
Releasing == \/ \E c \in Callers : \/ TokenAnswer(c) \/ UpgradeAnswer(c) \/ ResourceAnswer(c)
                                   \/ Fail(c) /\ Refused(c)
             \/ FetchEnds /\ Release("fetch")
Aborting == (\E c \in Callers : Fail(c) /\ Abort(c)) \/ (FetchEnds /\ Abort("fetch"))

LEMMA NextKinds == Next => Offline \/ Asking \/ Presenting \/ Releasing \/ Aborting
<1> SUFFICES ASSUME Next PROVE Offline \/ Asking \/ Presenting \/ Releasing \/ Aborting
  OBVIOUS
<1>1. ASSUME NEW c \in Callers, Begin(c) \/ Lock(c) \/ CallerSteps(c)
      PROVE  Offline \/ Asking \/ Presenting \/ Releasing \/ Aborting
  BY <1>1 DEF CallerSteps, Fail, Offline, Asking, Presenting, Releasing, Aborting, Actors
<1>2. CASE Renewal \/ MaintainLocks \/ MaintainUnlocks
  BY <1>2 DEF Renewal, Offline
<1>3. CASE Fetch \/ Present("fetch")
  BY <1>3 DEF Asking, Presenting, Actors
<1>4. CASE FetchEnds
  BY <1>4 DEF FetchEnds, Releasing, Aborting
<1> QED BY <1>1, <1>2, <1>3, <1>4 DEF Next

LEMMA NextMutex == Inv /\ [Next]_vars => Mutex'
<1> SUFFICES ASSUME Inv, [Next]_vars PROVE Mutex'
  OBVIOUS
<1>0. Mutex /\ Exchanges
  BY MutexType DEF Inv
<1>1. ASSUME NEW c \in Callers, Begin(c) \/ Lock(c) \/ CallerSteps(c) PROVE Mutex'
  BY <1>0, <1>1, CallerMutex
<1>2. CASE Renewal \/ MaintainLocks \/ MaintainUnlocks
  BY <1>0, <1>2, RenewalMutex
<1>3. CASE Fetch \/ Present("fetch") \/ FetchEnds \/ UNCHANGED vars
  <2>1. UNCHANGED <<mu, plan, dropping, pc>>
    BY <1>3 DEF Fetch, Present, FetchEnds, vars
  <2> QED BY <1>0, <2>1 DEF Mutex, Holding
<1> QED BY <1>1, <1>2, <1>3 DEF Next

\* What the releasing and the aborting steps do to the exchange of their actor.
LEMMA ReleasingStep ==
  ASSUME Mutex, Releasing
  PROVE  \E a \in Actors : /\ ex[a].at = "open" /\ Release(a)
                           /\ \A d \in Callers \ {a} : pc'[d] = pc[d]
<1>1. ASSUME NEW c \in Callers,
             TokenAnswer(c) \/ UpgradeAnswer(c) \/ ResourceAnswer(c) \/ (Fail(c) /\ Refused(c))
      PROVE  ex[c].at = "open" /\ Release(c) /\ \A d \in Callers \ {c} : pc'[d] = pc[d]
  <2>1. CASE TokenAnswer(c)
    BY <2>1 DEF TokenAnswer, ErrorReturn, Return, Mutex
  <2>2. CASE UpgradeAnswer(c)
    BY <2>2 DEF UpgradeAnswer, ErrorReturn, Return, Mutex
  <2>3. CASE ResourceAnswer(c)
    BY <2>3 DEF ResourceAnswer, Mutex
  <2>4. CASE Fail(c) /\ Refused(c)
    BY <2>4 DEF Fail, Refused, ErrorReturn, Mutex
  <2> QED BY <1>1, <2>1, <2>2, <2>3, <2>4
<1>2. CASE FetchEnds /\ Release("fetch")
  BY <1>2 DEF FetchEnds, Actors
<1> QED BY <1>1, <1>2 DEF Releasing, Actors

LEMMA AbortingStep ==
  ASSUME Mutex, Aborting
  PROVE  \E a \in Actors : Abort(a) /\ \A d \in Callers \ {a} : pc'[d] = pc[d]
<1>1. ASSUME NEW c \in Callers, Fail(c), Abort(c)
      PROVE  Abort(c) /\ \A d \in Callers \ {c} : pc'[d] = pc[d]
  BY <1>1 DEF Fail, ErrorReturn, Mutex
<1>2. CASE FetchEnds /\ Abort("fetch")
  BY <1>2 DEF FetchEnds, Actors
<1> QED BY <1>1, <1>2 DEF Aborting, Actors

LEMMA AskingStep ==
  ASSUME Mutex, Exchanges, Asking
  PROVE  /\ pc' = pc
         /\ \/ \E c \in Callers : /\ WantConn(c, pc[c]) /\ pc[c] \in Pools
                                  /\ pc[c] \in {"as", "shim", "rs"}
            \/ WantConn("fetch", JwksPool)
<1>1. ASSUME NEW c \in Callers, Send(c)
      PROVE  /\ pc' = pc /\ WantConn(c, pc[c]) /\ pc[c] \in Pools
             /\ pc[c] \in {"as", "shim", "rs"}
  BY <1>1, PoolFacts DEF Send, Mutex, Holding
<1>2. CASE Fetch
  BY <1>2 DEF Fetch
<1> QED BY <1>1, <1>2 DEF Asking

LEMMA NextConnected == Inv /\ [Next]_vars => Connected' /\ Exchanges'
<1> SUFFICES ASSUME Inv, [Next]_vars PROVE Connected' /\ Exchanges'
  OBVIOUS
<1>0. Mutex /\ Exchanges /\ Connected /\ cert \in [1..Active -> Versions]
  BY MutexType DEF Inv, TypeOK
<1>1. CASE Offline
  <2>1. ex' = ex /\ Exchanges'
    BY <1>0, <1>1, OfflineExchanges
  <2>2. CASE DropOld
    <3>1. idle' \in [Pools -> Seq(Versions)] /\ closeIdle' \in [1..Active -> BOOLEAN]
      BY <2>2, EmptySeq DEF DropOld
    <3> QED BY <1>0, <2>1, <3>1 DEF Connected
  <2>3. CASE ~DropOld
    <3>1. UNCHANGED <<idle, closeIdle>>
      BY <1>1, <2>3 DEF Offline, Begin, Lock, UseCached, Issue, SetIdentity, RenewFails,
                       MaintainLocks, MaintainUnlocks
    <3> QED BY <1>0, <2>1, <3>1 DEF Connected
  <2> QED BY <2>2, <2>3
<1>2. CASE Asking
  <2>0. pc' = pc
    BY <1>0, <1>2, AskingStep
  <2>1. ASSUME NEW c \in Callers, WantConn(c, pc[c]), pc[c] \in Pools,
               pc[c] \in {"as", "shim", "rs"}
        PROVE  Connected' /\ Exchanges'
    <3>1. /\ Connected' /\ ex'[c].pool = pc[c]
          /\ \A b \in Actors \ {c} : ex'[b] = ex[b]
      BY <1>0, <2>1, WantConnStep DEF Actors
    <3> QED BY <1>0, <2>0, <2>1, <3>1, Constants DEF Exchanges, Actors
  <2>2. CASE WantConn("fetch", JwksPool)
    <3>1. /\ Connected' /\ ex'["fetch"].pool = JwksPool
          /\ \A b \in Actors \ {"fetch"} : ex'[b] = ex[b]
      BY <1>0, <2>2, WantConnStep, PoolFacts DEF Actors
    <3> QED BY <1>0, <2>0, <3>1, Constants DEF Exchanges, Actors
  <2> QED BY <1>0, <1>2, <2>1, <2>2, AskingStep
<1>3. CASE Presenting
  <2>1. PICK a \in Actors : Present(a)
    BY <1>3 DEF Presenting
  <2>2. Connected' /\ pc' = pc /\ \A b \in Actors : Kept(b)
    BY <1>0, <2>1, PresentStep DEF Present
  <2> QED BY <1>0, <2>2, ExchangesStep
<1>4. CASE Releasing
  <2>1. PICK a \in Actors : /\ ex[a].at = "open" /\ Release(a)
                            /\ \A d \in Callers \ {a} : pc'[d] = pc[d]
    BY <1>0, <1>4, ReleasingStep
  <2>2. Connected' /\ ex'[a].at = "none" /\ \A b \in Actors : Kept(b)
    BY <1>0, <2>1, ReleaseStep
  <2> QED BY <1>0, <2>1, <2>2, ExchangesStep
<1>5. CASE Aborting
  <2>1. PICK a \in Actors : Abort(a) /\ \A d \in Callers \ {a} : pc'[d] = pc[d]
    BY <1>0, <1>5, AbortingStep
  <2>2. Connected' /\ ex'[a].at = "none" /\ \A b \in Actors : Kept(b)
    BY <1>0, <2>1, AbortStep
  <2> QED BY <1>0, <2>1, <2>2, ExchangesStep
<1>6. CASE UNCHANGED vars
  BY <1>0, <1>6 DEF vars, Connected, Exchanges
<1> QED BY <1>1, <1>2, <1>3, <1>4, <1>5, <1>6, NextKinds

\* The certificates, the cached token and the tokens in use.
Tokens ==
  /\ cert \in [1..Active -> Versions]
  /\ cached \in Versions \cup {0}
  /\ tok \in [Callers -> Versions \cup {0}]

LEMMA NextTokens == Inv /\ [Next]_vars => Tokens'
<1> SUFFICES ASSUME Inv, [Next]_vars PROVE Tokens'
  OBVIOUS
<1>0. Tokens /\ Mutex /\ Connected
  BY MutexType DEF Inv, TypeOK, Tokens
<1>1. CASE SetIdentity
  <2>1. Head(plan) \in 1..Active
    BY <1>0, <1>1, HeadTailProperties DEF SetIdentity, Mutex
  <2>2. cert[Head(plan)] + 1 \in Versions
    BY <1>0, <1>1, <2>1, Constants DEF SetIdentity, Tokens, Versions
  <2> QED BY <1>0, <1>1, <2>1, <2>2 DEF SetIdentity, Tokens
<1>2. ASSUME NEW c \in Callers, Begin(c) PROVE Tokens'
  BY <1>0, <1>2 DEF Begin, Tokens
<1>3. ASSUME NEW c \in Callers, UseCached(c) PROVE Tokens'
  BY <1>0, <1>3 DEF UseCached, Return, Tokens
<1>4. ASSUME NEW c \in Callers, TokenAnswer(c) PROVE Tokens'
  <2>1. ex[c].cert \in Versions /\ cert' = cert
    BY <1>0, <1>4 DEF TokenAnswer, Connected, Actors
  <2>2. CASE UNCHANGED <<tok, cached>>
    BY <1>0, <2>1, <2>2 DEF Tokens
  <2>3. CASE tok' = [tok EXCEPT ![c] = ex[c].cert] /\ UNCHANGED cached
    BY <1>0, <2>1, <2>3 DEF Tokens
  <2>4. CASE cached' = ex[c].cert /\ Return(c, ex[c].cert)
    BY <1>0, <2>1, <2>4 DEF Return, Tokens
  <2> QED BY <1>4, <2>2, <2>3, <2>4 DEF TokenAnswer
<1>5. ASSUME NEW c \in Callers, UpgradeAnswer(c) PROVE Tokens'
  <2>1. cert' = cert /\ pc[c] = "shim"
    BY <1>5 DEF UpgradeAnswer
  <2>2. cert[2] \in Versions
    BY <1>0, <2>1, PlaneFacts DEF Tokens, Mutex, Holding
  <2>3. CASE UNCHANGED <<tok, cached>>
    BY <1>0, <2>1, <2>3 DEF Tokens
  <2>4. CASE cached' = cert[2] /\ Return(c, cert[2])
    BY <1>0, <2>1, <2>2, <2>4 DEF Return, Tokens
  <2> QED BY <1>5, <2>3, <2>4 DEF UpgradeAnswer
<1>6. CASE DropOld
  BY <1>0, <1>6 DEF DropOld, Tokens
<1>7. ASSUME NEW c \in Callers,
             Lock(c) \/ Issue(c) \/ Send(c) \/ Present(c) \/ ResourceAnswer(c) \/ Fail(c)
      PROVE  Tokens'
  BY <1>0, <1>7 DEF Lock, Issue, Send, Present, ResourceAnswer, Fail, Tokens
<1>8. CASE RenewFails \/ MaintainLocks \/ MaintainUnlocks \/ Fetch \/ Present("fetch")
           \/ FetchEnds \/ UNCHANGED vars
  BY <1>0, <1>8 DEF RenewFails, MaintainLocks, MaintainUnlocks, Fetch, Present, FetchEnds,
                    vars, Tokens
<1> QED BY <1>1, <1>2, <1>3, <1>4, <1>5, <1>6, <1>7, <1>8 DEF Next, CallerSteps, Renewal

LEMMA NextInv == Inv /\ [Next]_vars => Inv'
<1> SUFFICES ASSUME Inv, [Next]_vars PROVE Inv'
  OBVIOUS
<1>1. Mutex' /\ Connected' /\ Exchanges' /\ Tokens'
  BY NextMutex, NextConnected, NextTokens
<1>2. TypeOK'
  BY <1>1 DEF TypeOK, Mutex, Connected, Tokens, Exchange
<1> QED BY <1>1, <1>2 DEF Inv, Mutex

\* The state stays well formed and base.mu is held exactly by the caller between
\* Token's Lock and its return (certbound.go:109-131).
THEOREM TypeCorrect == Spec => []TypeOK
<1>1. Inv => TypeOK
  BY DEF Inv
<1> QED BY <1>1, InitInv, NextInv, PTL DEF Spec

-----------------------------------------------------------------------------
(* What the tokens are bound to *)

LEMMA NextCached == Inv /\ CachedBoundToIdentity /\ [Next]_vars => CachedBoundToIdentity'
<1> SUFFICES ASSUME Inv, CachedBoundToIdentity, [Next]_vars PROVE CachedBoundToIdentity'
  OBVIOUS
<1> USE DEF CachedBoundToIdentity
<1>1. CASE SetIdentity
  BY <1>1 DEF SetIdentity
<1>2. CASE DropOld
  BY <1>2 DEF DropOld
<1>3. ASSUME NEW c \in Callers, TokenAnswer(c) PROVE CachedBoundToIdentity'
  <2>1. UNCHANGED <<cert, dropping>>
    BY <1>3 DEF TokenAnswer
  <2>2. cached' = cached \/ (~PQ /\ cached' = cert[1])
    BY <1>3 DEF TokenAnswer
  <2> QED BY <2>1, <2>2, PlaneFacts
<1>4. ASSUME NEW c \in Callers, UpgradeAnswer(c) PROVE CachedBoundToIdentity'
  <2>1. UNCHANGED <<cert, dropping>> /\ PQ
    BY <1>4 DEF UpgradeAnswer, Inv, Holding
  <2>2. cached' = cached \/ cached' = cert[2]
    BY <1>4 DEF UpgradeAnswer
  <2> QED BY <2>1, <2>2, PlaneFacts
<1>5. ASSUME NEW c \in Callers,
             \/ Begin(c) \/ Lock(c) \/ UseCached(c) \/ Issue(c) \/ Send(c) \/ Present(c)
             \/ ResourceAnswer(c) \/ Fail(c)
      PROVE  CachedBoundToIdentity'
  BY <1>5 DEF Begin, Lock, UseCached, Issue, Send, Present, ResourceAnswer, Fail
<1>6. CASE RenewFails \/ MaintainLocks \/ MaintainUnlocks \/ Fetch \/ Present("fetch")
           \/ FetchEnds \/ UNCHANGED vars
  BY <1>6 DEF RenewFails, MaintainLocks, MaintainUnlocks, Fetch, Present, FetchEnds, vars
<1> QED BY <1>1, <1>2, <1>3, <1>4, <1>5, <1>6 DEF Next, CallerSteps, Renewal

\* Whatever renewals fail or interleave, the cached token is bound to the certificate in
\* force: enrollLocked drops it, issueLocked checks and stores it.
THEOREM CachedIsBound == Spec => []CachedBoundToIdentity
<1>1. Init => CachedBoundToIdentity
  BY DEF Init, CachedBoundToIdentity
<1> QED BY <1>1, InitInv, NextInv, NextCached, PTL DEF Spec

\* With PQ the transport to Keycloak and the shim holds no connection that would
\* present a retired certificate, except between id.set and CloseIdleConnections.
Classical ==
  PQ => /\ \A a \in Actors :
             ex[a].at = "open" /\ ex[a].pool \in {"as", "shim"} => ex[a].cert = cert[1]
        /\ ~dropping => \A h \in {"as", "shim"} : Shown(h) \subseteq {cert[1]}

\* While a renewal is planned or under way no connection to an issuer is in use.
LEMMA RenewingAlone ==
  ASSUME Inv, PQ, plan # <<>>, NEW a \in Actors, ex[a].at # "none"
  PROVE  ex[a].pool \notin {"as", "shim"}
<1>1. CASE a = "fetch"
  BY <1>1, PoolFacts DEF Inv, Exchanges
<1>2. CASE a # "fetch"
  BY <1>2 DEF Inv, Exchanges, Holding, Actors
<1> QED BY <1>1, <1>2

LEMMA NextClassical == Inv /\ Classical /\ [Next]_vars => Classical'
<1> SUFFICES ASSUME Inv, Classical, [Next]_vars, PQ PROVE Classical'
  BY DEF Classical
<1>0. Mutex /\ Exchanges /\ Connected /\ cert \in [1..Active -> Versions]
  BY MutexType DEF Inv, TypeOK
<1>p. {"as", "shim"} \subseteq Pools /\ Active = 2
  BY PoolFacts, PlaneFacts
<1>1. CASE SetIdentity \/ DropOld
  <2>1. ex' = ex /\ plan # <<>>
    BY <1>1 DEF SetIdentity, DropOld, Inv, Holding
  <2>2. \A a \in Actors : ex'[a].at = "open" => ex'[a].pool \notin {"as", "shim"}
    BY <2>1, RenewingAlone
  <2>3. CASE SetIdentity
    BY <2>2, <2>3 DEF SetIdentity, Classical
  <2>4. CASE DropOld
    <3>1. \A h \in {"as", "shim"} : idle'[h] = <<>>
      BY <1>p, <2>4 DEF DropOld
    <3>2. Len(<<>>) = 0
      BY EmptySeq
    <3>3. \A h \in {"as", "shim"} : Shown(h)' = {}
      BY <3>1, <3>2 DEF Shown
    <3> QED BY <2>2, <3>3 DEF Classical
  <2> QED BY <1>1, <2>3, <2>4
<1>2. CASE Offline /\ ~(SetIdentity \/ DropOld)
  <2>1. UNCHANGED <<ex, idle, cert>> /\ (dropping => dropping')
    BY <1>2 DEF Offline, Begin, Lock, UseCached, Issue, RenewFails,
               MaintainLocks, MaintainUnlocks
  <2> QED BY <2>1 DEF Classical, Shown
<1>3. CASE Asking
  <2>0. UNCHANGED <<cert, dropping>>
    BY <1>3 DEF Asking, Send, Fetch
  <2>1. ASSUME NEW a \in Actors, NEW h \in Pools, WantConn(a, h),
               h \in {"as", "shim"} => ~dropping
        PROVE  Classical'
    <3>1. /\ ex'[a].pool = h /\ (ex'[a].at = "open" => ex'[a].cert \in Shown(h))
          /\ \A b \in Actors \ {a} : ex'[b] = ex[b]
          /\ \A g \in Pools : Shown(g)' \subseteq Shown(g)
      BY <1>0, <2>1, WantConnStep
    <3>2. h \in {"as", "shim"} => Shown(h) \subseteq {cert[1]}
      BY <2>1 DEF Classical
    <3> QED BY <1>p, <2>0, <3>1, <3>2 DEF Classical
  <2>2. ASSUME NEW c \in Callers, WantConn(c, pc[c]), pc[c] \in Pools
        PROVE  Classical'
    <3>1. pc[c] \in {"as", "shim"} => ~dropping
      BY DEF Inv, Holding
    <3> QED BY <2>1, <2>2, <3>1 DEF Actors
  <2>3. CASE WantConn("fetch", JwksPool)
    BY <2>1, <2>3, PoolFacts DEF Actors
  <2> QED BY <1>0, <1>3, <2>2, <2>3, AskingStep
<1>4. CASE Presenting
  <2>1. PICK a \in Actors : Present(a)
    BY <1>4 DEF Presenting
  <2>2. /\ UNCHANGED <<cert, dropping, idle>> /\ ex'[a].pool = ex[a].pool
        /\ ex'[a].cert = cert[TransportOf(ex[a].pool)]
        /\ \A b \in Actors \ {a} : ex'[b] = ex[b]
    BY <1>0, <2>1 DEF Present, Connected, Exchange
  <2>3. ex[a].pool \in {"as", "shim"} => TransportOf(ex[a].pool) = 1
    BY DEF TransportOf
  <2> QED BY <2>2, <2>3 DEF Classical, Shown
<1>5. CASE Releasing
  <2>0. UNCHANGED <<cert, dropping>>
    BY <1>5 DEF Releasing, TokenAnswer, UpgradeAnswer, ResourceAnswer, Fail, FetchEnds
  <2>1. PICK a \in Actors : ex[a].at = "open" /\ Release(a)
    BY <1>0, <1>5, ReleasingStep
  <2>2. /\ ex'[a].at = "none" /\ \A b \in Actors : Kept(b)
        /\ \A b \in Actors \ {a} : ex'[b] = ex[b] \/ ex'[b] = ex[a]
        /\ \A g \in Pools : Shown(g)' \subseteq
             Shown(g) \cup (IF g = ex[a].pool THEN {ex[a].cert} ELSE {})
    BY <1>0, <2>1, ReleaseStep
  <2>3. ex[a].pool \in {"as", "shim"} => ex[a].cert = cert[1]
    BY <2>1 DEF Classical
  <2>4. \A b \in Actors :
          ex'[b].at = "open" /\ ex'[b].pool \in {"as", "shim"} => ex'[b].cert = cert[1]
    BY <2>1, <2>2, <2>3 DEF Classical
  <2>5. ~dropping => \A h \in {"as", "shim"} : Shown(h)' \subseteq {cert[1]}
    BY <1>p, <2>2, <2>3 DEF Classical
  <2> QED BY <2>0, <2>4, <2>5 DEF Classical
<1>6. CASE Aborting
  <2>0. UNCHANGED <<cert, dropping, idle>>
    BY <1>6 DEF Aborting, Fail, FetchEnds, Abort
  <2>1. PICK a \in Actors : Abort(a)
    BY <1>0, <1>6, AbortingStep
  <2>2. ex'[a].at = "none" /\ \A b \in Actors \ {a} : ex'[b] = ex[b]
    BY <1>0, <2>1, AbortStep
  <2> QED BY <2>0, <2>2 DEF Classical, Shown
<1>7. CASE UNCHANGED vars
  BY <1>7 DEF vars, Classical, Shown
<1> QED BY <1>1, <1>2, <1>3, <1>4, <1>5, <1>6, <1>7, NextKinds

\* With the post-quantum plane, a token is only ever asked for and upgraded over a
\* connection that presents the classical certificate in force.
THEOREM IssuanceIsBound ==
  ASSUME PQ
  PROVE  Spec => []IssuanceBindsCurrent
<1>1. Init => Classical
  <2>1. Len(<<>>) = 0
    BY EmptySeq
  <2>2. ASSUME Init, NEW a \in Actors PROVE ex[a].at = "none"
    BY <2>2 DEF Init, NoExchange
  <2>3. ASSUME Init, NEW h \in Pools PROVE Shown(h) = {}
    BY <2>1, <2>3 DEF Init, Shown
  <2> QED BY <2>2, <2>3, PoolFacts DEF Classical
<1>2. Inv /\ Classical => IssuanceBindsCurrent
  BY DEF Inv, Exchanges, Classical, IssuanceBindsCurrent, Actors
<1>3. Spec => [](Inv /\ Classical)
  BY <1>1, InitInv, NextInv, NextClassical, PTL DEF Spec
<1> QED BY <1>2, <1>3, PTL

=============================================================================
