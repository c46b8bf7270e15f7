------------------------------ MODULE Upgrade ------------------------------
(***************************************************************************)
(* From Keycloak to a granted request in post-quantum mode: the client     *)
(* gets a classical token, has the pq-shim exchange it for one bound to    *)
(* its post-quantum credential, and presents that to a resource server.    *)
(* Three clocks, requests that are lost or late, handlers that outlive     *)
(* their client's patience, and a shim that forgets its signing key and    *)
(* its replay caches when it restarts.                                     *)
(*                                                                         *)
(* Time is kept relative to the clock of Keycloak and the shim: of a token *)
(* what is left of it, of a proof its age.  Neither grows or falls past    *)
(* what a comparison can tell apart, so there is no last moment.  The      *)
(* client's own token, certificates and lock are in TokenBinding; the key  *)
(* set of the resource server, here the one key it knows, in KeySet.       *)
(***************************************************************************)
EXTENDS Integers

CONSTANTS
  Settings,      \* configurations and clocks looked at
  Slots,         \* upgrade requests that exist at the same time
  KcLifetime,    \* lifetime of Keycloak's tokens
  Lifetime,      \* PQ_TOKEN_LIFETIME
  Window,        \* DPOP_PROOF_WINDOW
  Skew,          \* CLOCK_SKEW of shim and resource server
  Drift,         \* bound on what two clocks really differ by
  ExpirySkew,    \* expirySkew of the client
  Timeout,       \* HTTP_TIMEOUT of the client
  MaxRestarts    \* bound on the restarts of the shim

\* Clocks: how far the client's, and the resource server's, is ahead of the shim's.
Configurations == {c \in [binding : {"x5t", "jkt"}, mode : {"local", "introspection"},
                          nonces : BOOLEAN, own : -Drift..Drift, rs : -Drift..Drift] :
                     /\ c.own - c.rs \in -Drift..Drift
                     /\ c.nonces => c.binding = "jkt"}

\* The inequalities are not enforced by the code; its defaults leave clocks 20 seconds.
ASSUME UpgradeAssumption ==
  /\ {KcLifetime, Lifetime, Window, Skew, Drift, ExpirySkew, Timeout, MaxRestarts} \subseteq Nat
  /\ Slots \subseteq Nat \ {0}
  /\ Settings \subseteq Configurations
  /\ Drift <= Skew
  /\ Timeout + Drift <= ExpirySkew + Skew
  /\ Timeout + Drift <= Window + Skew
  /\ 2 * Timeout + Drift <= Lifetime + Skew
  /\ 3 * Timeout + Drift <= KcLifetime + Skew

Kids == 1..(MaxRestarts + 1)
Longest == IF KcLifetime > Lifetime THEN KcLifetime ELSE Lifetime
Never == Skew + Drift + 1               \* past this a token is expired for everyone
AgeCap == Window + Skew + Drift + 1     \* past this a proof is too old for everyone
Left == -Never..Longest
Spend(left) == IF left > -Never THEN left - 1 ELSE left
Older(age) == IF age < AgeCap THEN age + 1 ELSE age

Token == [kid : Kids \cup {0}, left : Left]
NoToken == [kid |-> 0, left |-> -Never]

\* Of an upgrade: where its handler is, the classical token, and the proofs' age.
Handler == [at : {"free", "sent", "authorized", "proved", "minted", "refused", "lost"},
            kc : Left, age : 0..AgeCap, tok : Token]
Free == [at |-> "free", kc |-> -Never, age |-> 0, tok |-> NoToken]

Ended == {"minted", "refused", "lost"}

VARIABLES
  conf,      \* binding, mode of the resource server, nonces, and the two other clocks
  client,    \* where the client is in Do: its step, attempt, slot, and how long
  nonceOk,   \* the nonce it keeps for Keycloak is good
  cached,    \* the token it keeps
  using,     \* the token it works with; its kid is 0 while it is Keycloak's
  up,        \* the upgrades
  seenC, seenP,  \* slots whose classical, post-quantum proof the shim has stored
  kid,       \* the shim's signing key
  known,     \* the key the resource server holds
  call,      \* where the resource server is with the client's request
  faulty,    \* something is unreachable, or slower than Timeout
  idleFor    \* history: how long ago Keycloak last issued a token

shimVars == <<up, seenC, seenP, kid>>
resourceVars == <<known, call>>
clientVars == <<client, nonceOk, cached, using>>
vars == <<conf, clientVars, shimVars, resourceVars, faulty, idleFor>>

Quiet == KcLifetime + Never             \* longer than any use of a classical token

\* The state is well formed, and the client waits for a slot exactly in the upgrade leg.
TypeOK ==
  /\ conf \in Settings
  /\ client \in [at : {"idle", "as", "issued", "upgrade", "call"}, attempt : {0, 1},
                 slot : Slots \cup {0}, wait : 0..Timeout]
  /\ client.at = "upgrade" <=> client.slot # 0
  /\ nonceOk \in BOOLEAN
  /\ {cached, using} \subseteq Token
  /\ up \in [Slots -> Handler] /\ seenC \subseteq Slots /\ seenP \subseteq Slots
  /\ kid \in Kids /\ known \in Kids \cup {0}
  /\ call \in {"none", "sent", "valid", "granted", "key", "inactive", "expired", "proof"}
  /\ faulty \in BOOLEAN /\ idleFor \in 0..Quiet

AtRest == [at |-> "idle", attempt |-> 0, slot |-> 0, wait |-> 0]

Init ==
  /\ conf \in Settings
  /\ client = AtRest /\ nonceOk = FALSE
  /\ cached = NoToken /\ using = NoToken
  /\ up = [s \in Slots |-> Free] /\ seenC = {} /\ seenP = {}
  /\ kid = 1 /\ known = 0 /\ call = "none"
  /\ faulty = FALSE /\ idleFor = Quiet

-----------------------------------------------------------------------------
(* The client: Do, Token, issueLocked, upgradeToPQ *)

Idle == client' = AtRest /\ using' = NoToken /\ call' = "none"
Goto(at) == client' = [AtRest EXCEPT !.at = at]

\* Authorize signs a proof for the request, and it is sent.
SendCall(tok) == Goto("call") /\ using' = tok /\ call' = "sent"

\* Mutant: a token is used to its last second.
UsableToTheEnd(tok) == tok.kid # 0 /\ tok.left >= conf.own

\* usable, on the client's clock.
Usable(tok) == tok.kid # 0 /\ tok.left - conf.own >= ExpirySkew

Begin ==
  /\ client.at = "idle"
  /\ IF Usable(cached) THEN SendCall(cached)
     ELSE Goto("as") /\ using' = NoToken /\ UNCHANGED call
  /\ UNCHANGED <<conf, nonceOk, cached, shimVars, known, faulty, idleFor>>

\* Mutant: every challenge is answered.
ChallengeAlways ==
  /\ client.at = "as" /\ conf.nonces /\ ~nonceOk
  /\ client' = [client EXCEPT !.attempt = @ + 1] /\ nonceOk' = TRUE
  /\ UNCHANGED <<conf, cached, using, shimVars, resourceVars, faulty, idleFor>>

\* Keycloak wants a nonce: taken and answered once, else an error (issueLocked).
Challenge ==
  /\ client.at = "as" /\ conf.nonces /\ ~nonceOk
  /\ IF client.attempt = 0
     THEN client' = [client EXCEPT !.attempt = 1] /\ nonceOk' = TRUE
     ELSE client' = AtRest /\ UNCHANGED nonceOk
  /\ UNCHANGED <<conf, cached, using, shimVars, resourceVars, faulty, idleFor>>

KeycloakIssues ==
  /\ client.at = "as" /\ (conf.nonces => nonceOk)
  /\ client' = [client EXCEPT !.at = "issued"]
  /\ using' = [kid |-> 0, left |-> KcLifetime]
  /\ idleFor' = 0
  /\ UNCHANGED <<conf, nonceOk, cached, shimVars, resourceVars, faulty>>

\* Mutant: the proofs of an attempt are kept for the next one.
UpgradeToPQAgain ==
  /\ client.at = "issued"
  /\ \E s \in Slots :
       /\ up[s].at = "free" /\ \A t \in Slots : t < s => up[t].at # "free"
       /\ client' = [AtRest EXCEPT !.at = "upgrade", !.slot = s] /\ using' = NoToken
       /\ up' = [up EXCEPT ![s] = [Free EXCEPT !.at = "sent", !.kc = using.left]]
  /\ UNCHANGED <<conf, nonceOk, cached, seenC, seenP, kid, resourceVars, faulty, idleFor>>

\* The token arrives; both proofs are made anew (fresh jti) and the upgrade is sent.
UpgradeToPQ ==
  /\ client.at = "issued"
  /\ \E s \in Slots :
       /\ up[s].at = "free" /\ \A t \in Slots : t < s => up[t].at # "free"
       /\ client' = [AtRest EXCEPT !.at = "upgrade", !.slot = s] /\ using' = NoToken
       /\ up' = [up EXCEPT ![s] = [Free EXCEPT !.at = "sent", !.kc = using.left]]
       /\ seenC' = seenC \ {s} /\ seenP' = seenP \ {s}
  /\ UNCHANGED <<conf, nonceOk, cached, kid, resourceVars, faulty, idleFor>>

\* The upgraded token is bound to the credential held (see TokenBinding): it is
\* cached, and used whatever is left of it.
Upgraded ==
  /\ client.at = "upgrade" /\ up[client.slot].at = "minted"
  /\ cached' = up[client.slot].tok
  /\ SendCall(up[client.slot].tok)
  /\ up' = [up EXCEPT ![client.slot] = Free]
  /\ UNCHANGED <<conf, nonceOk, seenC, seenP, kid, known, faulty, idleFor>>

UpgradeFails ==
  /\ client.at = "upgrade" /\ up[client.slot].at \in {"refused", "lost"}
  /\ Idle
  /\ up' = [up EXCEPT ![client.slot] = Free]
  /\ UNCHANGED <<conf, nonceOk, cached, seenC, seenP, kid, known, faulty, idleFor>>

\* A request that fails or takes too long; its handler, if it has one, goes on.
GiveUp ==
  /\ client.at # "idle" /\ faulty
  /\ Idle
  /\ up' = [s \in Slots |-> IF s = client.slot /\ up[s].at \in Ended THEN Free ELSE up[s]]
  /\ UNCHANGED <<conf, nonceOk, cached, seenC, seenP, kid, known, faulty, idleFor>>

\* Do returns the response, whatever it says: the cached token stays.
Answered ==
  /\ client.at = "call" /\ call \notin {"sent", "valid"}
  /\ Idle
  /\ UNCHANGED <<conf, nonceOk, cached, shimVars, known, faulty, idleFor>>

-----------------------------------------------------------------------------
(* The shim: handleUpgrade *)

\* iat against the clock of a server that is ahead of the shim by d.
Recent(age, d) == age + d - conf.own \in -Skew..(Window + Skew)

\* The handler of s goes on as h; if that is its answer and nobody waits, it ends.
Continue(s, h) ==
  up' = [up EXCEPT ![s] = IF client.slot # s /\ h.at \in Ended
                          THEN Free ELSE h]
Refused == [Free EXCEPT !.at = "refused"]

\* Authorize: the classical token and its binding; a DPoP proof is used up here,
\* whatever comes of the other one.  The test of nbf is left out: clocks that are at
\* most Drift <= Skew apart never fail it.
Authorize(s) ==
  /\ up[s].at = "sent"
  /\ LET ok == /\ up[s].kc >= -Skew
               /\ conf.binding = "jkt" => Recent(up[s].age, 0) /\ s \notin seenC
     IN  /\ Continue(s, IF ok THEN [up[s] EXCEPT !.at = "authorized"] ELSE Refused)
         /\ seenC' = IF ok /\ conf.binding = "jkt" THEN seenC \cup {s} ELSE seenC
  /\ UNCHANGED <<conf, clientVars, seenP, kid, resourceVars, faulty, idleFor>>

\* ath, htm and htu are right, as the client made the proof for this request.
ProofClaimsHold(s) == Recent(up[s].age, 0) /\ s \notin seenP

\* verifyPQProof: the credential is the caller's own, and the proof is used up.
VerifyPQProof(s) ==
  /\ up[s].at = "authorized"
  /\ LET ok == ProofClaimsHold(s)
     IN  /\ Continue(s, IF ok THEN [up[s] EXCEPT !.at = "proved", !.age = 0] ELSE Refused)
         /\ seenP' = IF ok THEN seenP \cup {s} ELSE seenP
  /\ UNCHANGED <<conf, clientVars, seenC, kid, resourceVars, faulty, idleFor>>

\* Mutant: the new token has the full lifetime.
MintedUncapped(kc) == [kid |-> kid, left |-> Lifetime]

\* issue: never longer than what is left of the token it came from.
Minted(kc) == [kid |-> kid, left |-> IF kc < Lifetime THEN kc ELSE Lifetime]

Issue(s) ==
  /\ up[s].at = "proved"
  /\ Continue(s, [Free EXCEPT !.at = "minted", !.tok = Minted(up[s].kc)])
  /\ UNCHANGED <<conf, clientVars, seenC, seenP, kid, resourceVars, faulty, idleFor>>

\* Keycloak's keys cannot be had, or the answer does not get through.
Lose(s) ==
  /\ up[s].at \in {"sent", "minted"} /\ faulty
  /\ Continue(s, [Free EXCEPT !.at = "lost"])
  /\ UNCHANGED <<conf, clientVars, seenC, seenP, kid, resourceVars, faulty, idleFor>>

\* The shim restarts, with a new key and empty replay caches; requests under way fail.
Restart ==
  /\ kid <= MaxRestarts
  /\ kid' = kid + 1
  /\ seenC' = {} /\ seenP' = {}
  /\ up' = [s \in Slots |-> IF client.slot = s THEN [Free EXCEPT !.at = "lost"] ELSE Free]
  /\ UNCHANGED <<conf, clientVars, resourceVars, faulty, idleFor>>

-----------------------------------------------------------------------------
(* The resource server: Authorize *)

\* Mutant: only an empty key set is fetched.
RefetchOnce ==
  /\ call = "sent" /\ conf.mode = "local" /\ known = 0
  /\ known' = kid
  /\ UNCHANGED <<conf, clientVars, shimVars, call, faulty, idleFor>>

\* keys.Key fetches the shim's key set for a kid it does not hold (see KeySet).
RefetchKeys ==
  /\ call = "sent" /\ conf.mode = "local" /\ known # kid
  /\ known' = kid
  /\ UNCHANGED <<conf, clientVars, shimVars, call, faulty, idleFor>>

ValidateLocally ==
  IF using.kid # known THEN "key"
  ELSE IF using.left - conf.rs < -Skew THEN "expired" ELSE "valid"

\* The shim's handleIntrospect: is the token active?
Active == using.kid = kid /\ using.left >= 0

Introspect == IF Active THEN "valid" ELSE "inactive"

Verdict == IF conf.mode = "local" THEN ValidateLocally ELSE Introspect

Validate ==
  /\ call = "sent"
  /\ call' = Verdict
  /\ UNCHANGED <<conf, clientVars, shimVars, known, faulty, idleFor>>

\* checkCertificateBinding or checkDPoPBinding, with the proof made for this call.
CheckBinding ==
  /\ call = "valid"
  /\ call' = IF conf.binding = "jkt" /\ ~Recent(client.wait, conf.rs) THEN "proof" ELSE "granted"
  /\ UNCHANGED <<conf, clientVars, shimVars, known, faulty, idleFor>>

-----------------------------------------------------------------------------

\* What a moment does to an upgrade: its proofs age until they are looked at.
Aged(h) ==
  [h EXCEPT !.kc = Spend(@), !.tok.left = Spend(@),
            !.age = IF h.at \in {"sent", "authorized"} THEN Older(@) ELSE @]

\* Time passes: nobody waits longer than Timeout.  A cached token that the client's
\* clock says is over is as good as none.
Tick ==
  /\ client.at # "idle" => client.wait < Timeout
  /\ client' = IF client.at = "idle" THEN client ELSE [client EXCEPT !.wait = @ + 1]
  /\ cached' = IF cached.left <= conf.own THEN NoToken ELSE [cached EXCEPT !.left = Spend(@)]
  /\ using' = [using EXCEPT !.left = Spend(@)]
  /\ up' = [s \in Slots |-> Aged(up[s])]
  /\ idleFor' = IF idleFor < Quiet THEN idleFor + 1 ELSE idleFor
  /\ UNCHANGED <<conf, nonceOk, seenC, seenP, kid, resourceVars, faulty>>

\* The network, a server, or the nonce kept for Keycloak fails.
Fault ==
  /\ faulty' = ~faulty
  /\ nonceOk' \in {nonceOk, FALSE}
  /\ UNCHANGED <<conf, client, cached, using, shimVars, resourceVars, idleFor>>

ClientSteps ==
  \/ Begin \/ Challenge \/ KeycloakIssues \/ UpgradeToPQ
  \/ Upgraded \/ UpgradeFails \/ Answered
Handles(s) == Authorize(s) \/ VerifyPQProof(s) \/ Issue(s)

Next ==
  \/ ClientSteps \/ GiveUp
  \/ \E s \in Slots : Handles(s) \/ Lose(s)
  \/ Restart \/ RefetchKeys \/ Validate \/ CheckBinding
  \/ Tick \/ Fault

\* Processes run and time passes; a client goes on making calls; the resource server
\* is not refused the shim's keys for ever (RotationHeard of KeySet).
Fairness ==
  /\ WF_vars(ClientSteps) /\ WF_vars(Validate) /\ WF_vars(CheckBinding)
  /\ SF_vars(RefetchKeys) /\ WF_vars(Tick)
  /\ \A s \in Slots : WF_vars(Handles(s))

Spec == Init /\ [][Next]_vars /\ Fairness

-----------------------------------------------------------------------------
(***************************************************************************)
(* Properties                                                              *)
(***************************************************************************)

\* No clock, delay or lost answer makes the shim refuse an upgrade its client still
\* waits for: its proofs are never too old, too new or used, nor its token expired
\* (the client makes both proofs anew for every attempt).
WaitingNotRefused == client.slot # 0 => up[client.slot].at # "refused"

\* A resource server that validates locally never finds a token expired that the
\* client took for usable or has just got, nor the proof of a call out of its window.
UsableNotExpired == call \notin {"expired", "proof"}

\* Access ends with Keycloak's consent: no token is good, through cache, upgrade and
\* clocks, longer after the last one Keycloak issued than that one's lifetime and the
\* skew allowed.
AccessEnds ==
  [][call = "sent" /\ call' = "valid" => idleFor <= KcLifetime + Skew + Drift]_vars

\* After any restart of the shim or spell of faults, a client that goes on calling is
\* granted again: nothing refused is kept for ever, although a 401 does not make the
\* client drop its token.
Recovers == <>[]~faulty => []<>(call = "granted")

=============================================================================
