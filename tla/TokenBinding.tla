--------------------------- MODULE TokenBinding ---------------------------
(***************************************************************************)
(* How a certificate-bound client (Methods A and B) keeps three things in  *)
(* step while its certificate rotates: the certificate in force, the token *)
(* it caches, and the TLS connections its HTTP transports pool.  A TLS     *)
(* connection presents, for its whole life, the certificate that           *)
(* GetClientCertificate returned during its handshake; Keycloak binds a    *)
(* token to it, and the shim and resource servers compare it with cnf.     *)
(*                                                                         *)
(* Certificates of a plane are numbered as they are issued.  A token is    *)
(* the number of the certificate it is bound to.  Without PQ there is one  *)
(* plane and one transport; with PQ, plane 1 is classical (Keycloak and    *)
(* the shim's upgrade) and plane 2 post-quantum (resource servers, JWKS).  *)
(*                                                                         *)
(* Callers are goroutines in Do; "fetch" is the validator of the same      *)
(* process, which fetches the JWKS (or introspects) with the same client.  *)
(* Idle connections that a server or a timer closes only empty the pools   *)
(* and are left out.  So are dials nobody waits for any more: they present *)
(* the certificate in force, and CloseIdleConnections cancels them.        *)
(***************************************************************************)
EXTENDS Naturals, Sequences

CONSTANTS
  PQ,            \* cfg.PQEnabled, with PQ_ISSUER=shim
  Callers,       \* goroutines that call Do
  MaxRotations   \* bound on the certificates of a plane after the first

ASSUME BindingAssumption ==
  /\ PQ \in BOOLEAN /\ MaxRotations \in Nat
  /\ {"maintain", "nobody", "fetch"} \cap Callers = {}

Planes == IF PQ THEN <<1, 2>> ELSE <<1>>
Active == Len(Planes)            \* activeIdentity: what resource servers see

\* Connection pools: of b.transport to Keycloak and the shim, of the active
\* transport to the resource server and, with PQ, to the shim's /v1/jwks.
Pools == IF PQ THEN {"as", "shim", "rs", "jwks"} ELSE {"as", "rs"}
TransportOf(h) == IF h \in {"as", "shim"} THEN 1 ELSE Active
JwksPool == IF PQ THEN "jwks" ELSE "as"

Actors == Callers \cup {"fetch"}

VARIABLES
  cert,       \* the certificate in force on each plane (Identity.cert)
  mu,         \* who holds base.mu: a caller, "maintain" or "nobody"
  plan,       \* planes the holder has still to renew
  dropping,   \* between id.set and CloseIdleConnections in enrollLocked
  cached,     \* base.cached: what it is bound to, 0 for nil
  pc,         \* where each caller is in Do
  tok,        \* the token each caller works with
  ex,         \* the HTTP exchange each actor has under way
  idle,       \* idle connections of each pool, by certificate presented
  closeIdle   \* Transport.closeIdle of each transport

vars == <<cert, mu, plan, dropping, cached, pc, tok, ex, idle, closeIdle>>

Versions == 1..(MaxRotations + 1)
NoExchange == [at |-> "none", pool |-> "none", cert |-> 0]

\* The state is well formed, and base.mu is held by exactly the caller that is
\* between Token's Lock and its return.
TypeOK ==
  /\ cert \in [1..Active -> Versions]
  /\ mu \in Callers \cup {"maintain", "nobody"}
  /\ plan \in Seq(1..Active) /\ dropping \in BOOLEAN
  /\ cached \in Versions \cup {0}
  /\ pc \in [Callers -> {"idle", "lock", "locked", "as", "shim", "rs"}]
  /\ \A c \in Callers : mu = c <=> pc[c] \in {"locked", "as", "shim"}
  /\ mu = "nobody" => plan = <<>> /\ ~dropping
  /\ tok \in [Callers -> Versions \cup {0}]
  /\ ex \in [Actors -> [at : {"none", "wanted", "open"}, pool : Pools \cup {"none"},
                        cert : Versions \cup {0}]]
  /\ idle \in [Pools -> Seq(Versions)]
  /\ closeIdle \in [1..Active -> BOOLEAN]

Init ==
  /\ cert = [p \in 1..Active |-> 1]
  /\ mu = "nobody" /\ plan = <<>> /\ dropping = FALSE
  /\ cached = 0
  /\ pc = [c \in Callers |-> "idle"]
  /\ tok = [c \in Callers |-> 0]
  /\ ex = [a \in Actors |-> NoExchange]
  /\ idle = [h \in Pools |-> <<>>]
  /\ closeIdle = [p \in 1..Active |-> FALSE]

-----------------------------------------------------------------------------
(* http.Transport *)

\* getConn: the most recently used idle connection, or a dial.
WantConn(a, h) ==
  /\ ex[a] = NoExchange
  /\ closeIdle' = [closeIdle EXCEPT ![TransportOf(h)] = FALSE]
  /\ IF idle[h] = <<>>
     THEN /\ ex' = [ex EXCEPT ![a] = [at |-> "wanted", pool |-> h, cert |-> 0]]
          /\ UNCHANGED idle
     ELSE /\ ex' = [ex EXCEPT ![a] = [at |-> "open", pool |-> h, cert |-> idle[h][Len(idle[h])]]]
          /\ idle' = [idle EXCEPT ![h] = SubSeq(@, 1, Len(@) - 1)]

\* The handshake of a dial calls GetClientCertificate (clientTLS).
Present(a) ==
  /\ ex[a].at = "wanted"
  /\ ex' = [ex EXCEPT ![a].at = "open", ![a].cert = cert[TransportOf(ex[a].pool)]]
  /\ UNCHANGED <<cert, mu, plan, dropping, cached, pc, tok, idle, closeIdle>>

\* The body was read to its end: the connection goes to someone waiting for one,
\* else it is closed or pooled.
Release(a) ==
  LET h == ex[a].pool
      waiting == {b \in Actors : ex[b].at = "wanted" /\ ex[b].pool = h}
  IN  /\ \/ \E b \in waiting :
              /\ ex' = [ex EXCEPT ![a] = NoExchange, ![b] = ex[a]]
              /\ UNCHANGED idle
         \/ /\ waiting = {}
            /\ ex' = [ex EXCEPT ![a] = NoExchange]
            /\ idle' = IF closeIdle[TransportOf(h)] THEN idle
                       ELSE [idle EXCEPT ![h] = Append(@, ex[a].cert)]
      /\ UNCHANGED closeIdle

\* A timeout, a broken connection or an unread body: the connection is closed.
Abort(a) ==
  /\ ex[a].at # "none"
  /\ ex' = [ex EXCEPT ![a] = NoExchange]
  /\ UNCHANGED <<idle, closeIdle>>

-----------------------------------------------------------------------------
(* Renewal, under base.mu *)

\* Mutant: the cached token survives a renewal.
DropConnectionsOnly ==
  /\ dropping /\ dropping' = FALSE
  /\ plan' = Tail(plan)
  /\ idle' = [h \in Pools |-> <<>>]
  /\ closeIdle' = [p \in 1..Active |-> TRUE]
  /\ UNCHANGED <<cert, mu, cached, pc, tok, ex>>

\* Mutant: only the transport of the active identity is told.
DropActiveOnly ==
  /\ dropping /\ dropping' = FALSE
  /\ plan' = Tail(plan)
  /\ cached' = 0
  /\ idle' = [h \in Pools |-> IF TransportOf(h) = Active THEN <<>> ELSE idle[h]]
  /\ closeIdle' = [closeIdle EXCEPT ![Active] = TRUE]
  /\ UNCHANGED <<cert, mu, pc, tok, ex>>

\* enrollLocked: the CA issued a certificate, and it is in force from here on.
SetIdentity ==
  /\ plan # <<>> /\ ~dropping
  /\ cert[Head(plan)] <= MaxRotations
  /\ cert' = [cert EXCEPT ![Head(plan)] = @ + 1]
  /\ dropping' = TRUE
  /\ UNCHANGED <<mu, plan, cached, pc, tok, ex, idle, closeIdle>>

\* enrollLocked, after the files are written: the token and the pools are dropped.
DropOld ==
  /\ dropping /\ dropping' = FALSE
  /\ plan' = Tail(plan)
  /\ cached' = 0
  /\ idle' = [h \in Pools |-> <<>>]
  /\ closeIdle' = [p \in 1..Active |-> TRUE]
  /\ UNCHANGED <<cert, mu, pc, tok, ex>>

\* The CA cannot be reached or refuses: Maintain logs it and goes to the next
\* plane, Token gives up.
RenewFails ==
  /\ plan # <<>> /\ ~dropping
  /\ IF mu = "maintain"
     THEN plan' = Tail(plan) /\ UNCHANGED <<mu, pc>>
     ELSE /\ plan' = <<>>
          /\ mu' = "nobody"
          /\ pc' = [pc EXCEPT ![mu] = "idle"]
  /\ UNCHANGED <<cert, dropping, cached, tok, ex, idle, closeIdle>>

\* A tick of Maintain, or Rotate, with some planes due.
MaintainLocks ==
  /\ mu = "nobody"
  /\ mu' = "maintain"
  /\ plan' \in {<<p>> : p \in 1..Active} \cup {Planes}
  /\ UNCHANGED <<cert, dropping, cached, pc, tok, ex, idle, closeIdle>>

MaintainUnlocks ==
  /\ mu = "maintain" /\ plan = <<>>
  /\ mu' = "nobody"
  /\ UNCHANGED <<cert, plan, dropping, cached, pc, tok, ex, idle, closeIdle>>

-----------------------------------------------------------------------------
(* certBound.Do *)

Begin(c) ==
  /\ pc[c] = "idle"
  /\ pc' = [pc EXCEPT ![c] = "lock"]
  /\ tok' = [tok EXCEPT ![c] = 0]
  /\ UNCHANGED <<cert, mu, plan, dropping, cached, ex, idle, closeIdle>>

\* Token: lock, and renew every plane if one is due (or under RotateEveryToken).
Lock(c) ==
  /\ pc[c] = "lock" /\ mu = "nobody"
  /\ mu' = c
  /\ pc' = [pc EXCEPT ![c] = "locked"]
  /\ plan' \in {<<>>, Planes}
  /\ UNCHANGED <<cert, dropping, cached, tok, ex, idle, closeIdle>>

\* Token returns t, and Do goes on without the lock.
Return(c, t) ==
  /\ tok' = [tok EXCEPT ![c] = t]
  /\ pc' = [pc EXCEPT ![c] = "rs"]
  /\ mu' = "nobody"

UseCached(c) ==
  /\ pc[c] = "locked" /\ plan = <<>>
  /\ cached # 0
  /\ Return(c, cached)
  /\ UNCHANGED <<cert, plan, dropping, cached, ex, idle, closeIdle>>

\* No cached token, or one about to expire: issueLocked.
Issue(c) ==
  /\ pc[c] = "locked" /\ plan = <<>>
  /\ pc' = [pc EXCEPT ![c] = "as"]
  /\ UNCHANGED <<cert, mu, plan, dropping, cached, tok, ex, idle, closeIdle>>

\* The request of the leg the caller is in.
Send(c) ==
  /\ pc[c] \in {"as", "shim", "rs"}
  /\ WantConn(c, pc[c])
  /\ UNCHANGED <<cert, mu, plan, dropping, cached, pc, tok>>

ErrorReturn(c) ==
  /\ pc' = [pc EXCEPT ![c] = "idle"]
  /\ mu' = IF mu = c THEN "nobody" ELSE mu

\* Keycloak binds the token to the certificate of the connection; issueLocked
\* compares that with its own and, with PQ, takes the token to the shim.
TokenAnswer(c) ==
  /\ pc[c] = "as" /\ ex[c].at = "open"
  /\ Release(c)
  /\ IF ex[c].cert # cert[1] THEN ErrorReturn(c) /\ UNCHANGED <<tok, cached>>
     ELSE IF PQ THEN /\ tok' = [tok EXCEPT ![c] = ex[c].cert]
                     /\ pc' = [pc EXCEPT ![c] = "shim"]
                     /\ UNCHANGED <<mu, cached>>
     ELSE cached' = ex[c].cert /\ Return(c, ex[c].cert)
  /\ UNCHANGED <<cert, plan, dropping>>

\* The shim checks the classical token against the connection, and answers with
\* one bound to the post-quantum certificate that signed the proof.
UpgradeAnswer(c) ==
  /\ pc[c] = "shim" /\ ex[c].at = "open"
  /\ Release(c)
  /\ IF ex[c].cert # tok[c] THEN ErrorReturn(c) /\ UNCHANGED <<tok, cached>>
     ELSE cached' = cert[2] /\ Return(c, cert[2])
  /\ UNCHANGED <<cert, plan, dropping>>

\* The resource server answers, 200 or x5t_mismatch.
ResourceAnswer(c) ==
  /\ pc[c] = "rs" /\ ex[c].at = "open"
  /\ Release(c)
  /\ pc' = [pc EXCEPT ![c] = "idle"]
  /\ UNCHANGED <<cert, mu, plan, dropping, cached, tok>>

\* A server answers with a status other than 200: the body is read and the
\* connection stays with the transport.
Refused(c) == ex[c].at = "open" /\ Release(c)

\* Mutant: the error path of issueLocked leaves base.mu locked.
FailLocked(c) ==
  /\ Abort(c) \/ Refused(c)
  /\ pc' = [pc EXCEPT ![c] = "idle"]
  /\ UNCHANGED <<cert, mu, plan, dropping, cached, tok>>

\* A request fails: Do returns the error, and the deferred Unlock runs.
Fail(c) ==
  /\ Abort(c) \/ Refused(c)
  /\ ErrorReturn(c)
  /\ UNCHANGED <<cert, plan, dropping, cached, tok>>

\* KeySet.refresh or Introspect of the validator in the same process.
Fetch ==
  /\ WantConn("fetch", JwksPool)
  /\ UNCHANGED <<cert, mu, plan, dropping, cached, pc, tok>>

FetchEnds ==
  /\ ex["fetch"].at = "open"
  /\ Release("fetch") \/ Abort("fetch")
  /\ UNCHANGED <<cert, mu, plan, dropping, cached, pc, tok>>

-----------------------------------------------------------------------------

\* The steps of a caller after it got base.mu, and the renewals it does under it.
CallerSteps(c) ==
  \/ UseCached(c) \/ Issue(c) \/ Send(c) \/ Present(c)
  \/ TokenAnswer(c) \/ UpgradeAnswer(c) \/ ResourceAnswer(c) \/ Fail(c)

Renewal == SetIdentity \/ DropOld \/ RenewFails

Next ==
  \/ \E c \in Callers : Begin(c) \/ Lock(c) \/ CallerSteps(c)
  \/ Renewal \/ MaintainLocks \/ MaintainUnlocks
  \/ Fetch \/ Present("fetch") \/ FetchEnds

\* Goroutines run; every request is answered or times out (http.Client.Timeout); a
\* sync.Mutex in starvation mode is handed to the longest waiter.
Fairness ==
  /\ \A c \in Callers : WF_vars(CallerSteps(c)) /\ SF_vars(Lock(c))
  /\ WF_vars(Renewal) /\ WF_vars(MaintainUnlocks)

Spec == Init /\ [][Next]_vars /\ Fairness

-----------------------------------------------------------------------------
(***************************************************************************)
(* Properties                                                              *)
(***************************************************************************)

\* Whatever renewals fail or interleave, base.cached is nil or bound to the active
\* certificate in force (enrollLocked drops it, issueLocked checks and stores it).
CachedBoundToIdentity == ~dropping => cached \in {0, cert[Active]}

\* A token is never asked for, nor upgraded, over a connection that presents a
\* retired certificate: so neither ErrBindingMismatch in issueLocked nor
\* x5t_mismatch at the shim can follow a renewal.  Holds with PQ, where the
\* classical transport is only ever used under base.mu.
IssuanceBindsCurrent ==
  \A c \in Callers :
    pc[c] \in {"as", "shim"} /\ ex[c].at = "open" => ex[c].cert = cert[1]

\* What client.go and the documentation say of a renewal: it leaves no pooled
\* connection that would still present the old certificate.
PoolsPresentCurrent ==
  ~dropping => \A h \in Pools : \A i \in 1..Len(idle[h]) : idle[h][i] = cert[TransportOf(h)]

\* Do always returns: neither a failed request nor a failed renewal leaves base.mu
\* locked, and a caller that waits for it gets it although it is held across calls.
DoReturns == \A c \in Callers : pc[c] = "lock" ~> pc[c] = "idle"

=============================================================================
