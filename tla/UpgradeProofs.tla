--------------------------- MODULE UpgradeProofs ---------------------------
(***************************************************************************)
(* The upgrade and its use, for all lifetimes, windows, skews and timeouts *)
(* that satisfy UpgradeAssumption.                                         *)
(*                                                                         *)
(* What is left of a token is followed from Keycloak to the resource       *)
(* server in two directions.  From below, through the client's patience:   *)
(* each leg takes at most Timeout, so a token that is presented has not    *)
(* expired.  From above, through Keycloak's silence: nothing lasts longer  *)
(* than what it was made from.                                             *)
(***************************************************************************)
EXTENDS Upgrade, TLAPS

\* The parameters, as far as the proofs read them.
LEMMA Parameters ==
  /\ KcLifetime \in Nat /\ Lifetime \in Nat /\ Window \in Nat /\ Skew \in Nat /\ Drift \in Nat
  /\ ExpirySkew \in Nat /\ Timeout \in Nat /\ MaxRestarts \in Nat
  /\ Never = Skew + Drift + 1 /\ Never \in Nat /\ AgeCap \in Nat
  /\ Longest \in Nat /\ KcLifetime <= Longest /\ Lifetime <= Longest
  /\ Quiet = KcLifetime + Never /\ Quiet \in Nat
  /\ 0 \notin Slots
BY UpgradeAssumption DEF Never, AgeCap, Longest, Quiet

LEMMA Clocks ==
  ASSUME conf \in Settings
  PROVE  /\ conf.own \in Int /\ conf.rs \in Int
         /\ -Drift <= conf.own /\ conf.own <= Drift /\ -Drift <= conf.rs /\ conf.rs <= Drift
         /\ -Drift <= conf.own - conf.rs /\ conf.own - conf.rs <= Drift
<1>1. conf \in Configurations
  BY UpgradeAssumption
<1>2. /\ conf.own \in -Drift..Drift /\ conf.rs \in -Drift..Drift /\ conf.own - conf.rs \in -Drift..Drift
  BY <1>1 DEF Configurations
<1> QED BY <1>2, Parameters

LEMMA LeftTypes == /\ Left \subseteq Int /\ -Never \in Left /\ KcLifetime \in Left /\ Lifetime \in Left
                   /\ \A l \in Left : -Never <= l /\ l <= Longest
                   /\ \A l \in Int : -Never <= l /\ l <= Longest => l \in Left
BY Parameters DEF Left

LEMMA SpendTypes ==
  ASSUME NEW l \in Left
  PROVE  /\ Spend(l) \in Left /\ Spend(l) <= l /\ Spend(l) >= l - 1
         /\ Spend(l) = l - 1 \/ Spend(l) = -Never
BY LeftTypes, Parameters DEF Spend

LEMMA OlderTypes ==
  ASSUME NEW age \in 0..AgeCap
  PROVE  Older(age) \in 0..AgeCap /\ Older(age) <= age + 1
BY Parameters DEF Older

LEMMA TokenTypes ==
  /\ NoToken \in Token /\ NoToken.left = -Never /\ NoToken.kid = 0
  /\ \A k \in Kids, l \in Left : [kid |-> k, left |-> l] \in Token
  /\ [kid |-> 0, left |-> KcLifetime] \in Token
BY LeftTypes DEF NoToken, Token

LEMMA HandlerTypes ==
  /\ Free \in Handler /\ Free.at = "free" /\ Free.kc = -Never /\ Free.tok = NoToken
  /\ Refused \in Handler /\ Refused.at = "refused" /\ Refused.kc = -Never /\ Refused.tok = NoToken
  /\ [Free EXCEPT !.at = "lost"] \in Handler
BY LeftTypes, TokenTypes, Parameters DEF Free, Refused, Handler

LEMMA AgedTypes ==
  ASSUME NEW h \in Handler
  PROVE  /\ Aged(h) \in Handler /\ Aged(h).at = h.at
         /\ Aged(h).kc = Spend(h.kc) /\ Aged(h).tok.left = Spend(h.tok.left)
         /\ Aged(h).age <= h.age + 1
<1>1. h.tok \in Token /\ h.kc \in Left /\ h.age \in 0..AgeCap
  BY DEF Handler
<1>2. /\ Spend(h.kc) \in Left /\ Spend(h.tok.left) \in Left
      /\ Older(h.age) \in 0..AgeCap /\ Older(h.age) <= h.age + 1
  BY <1>1, SpendTypes, OlderTypes DEF Token
<1> DEFINE t == [h.tok EXCEPT !.left = Spend(h.tok.left)]
           a == IF h.at \in {"sent", "authorized"} THEN Older(h.age) ELSE h.age
<1>3. t \in Token /\ t.left = Spend(h.tok.left)
  BY <1>1, <1>2 DEF Token
<1>4. a \in 0..AgeCap /\ a <= h.age + 1
  BY <1>1, <1>2, Parameters
<1>5. Aged(h) = [h EXCEPT !.kc = Spend(h.kc), !.tok = t, !.age = a]
  BY DEF Aged, Handler
<1> HIDE DEF t, a
<1>6. /\ Aged(h) \in Handler /\ Aged(h).at = h.at /\ Aged(h).kc = Spend(h.kc)
      /\ Aged(h).tok = t /\ Aged(h).age = a
  BY <1>2, <1>3, <1>4, <1>5 DEF Handler
<1> QED BY <1>3, <1>4, <1>6

-----------------------------------------------------------------------------
(* The invariant *)

\* An upgrade its client waits for: its proofs are unused and as old as the wait, and
\* its token has lost at most the two legs so far.
Waiting ==
  client.slot # 0 =>
    LET h == up[client.slot]
    IN  /\ h.at # "refused"
        /\ h.at = "sent" => client.slot \notin seenC
        /\ h.at \in {"sent", "authorized"} => client.slot \notin seenP /\ h.age <= client.wait
        /\ h.at \in {"sent", "authorized", "proved"} => h.kc + client.wait >= KcLifetime - Timeout
        /\ h.at = "minted" => \/ h.tok.left + client.wait >= KcLifetime - Timeout
                              \/ h.tok.left + client.wait >= Lifetime

\* A token in the client's hands has lost what the client waited, and one that is
\* presented will last for as long as the client waits.
Carrying ==
  /\ client.at = "issued" => using.left + client.wait >= KcLifetime
  /\ client.at = "call" => using.left - conf.rs + client.wait >= Timeout - Skew

\* A resource server works exactly while the client waits for it, and finds no
\* token expired and no proof out of its window.
Answering == (call # "none" <=> client.at = "call") /\ call \notin {"expired", "proof"}

\* Nothing outlives the last token Keycloak issued.
Bounded ==
  /\ cached.left + idleFor <= KcLifetime
  /\ using.left + idleFor <= KcLifetime
  /\ \A s \in Slots : up[s].kc + idleFor <= KcLifetime /\ up[s].tok.left + idleFor <= KcLifetime

IInv == TypeOK /\ Waiting /\ Carrying /\ Answering /\ Bounded

-----------------------------------------------------------------------------
(* The client *)

\* What the invariant says of the state, in the form the steps use.
LEMMA State ==
  ASSUME IInv
  PROVE  /\ conf \in Settings /\ client.wait \in 0..Timeout /\ client.attempt \in {0, 1}
         /\ cached \in Token /\ using \in Token /\ cached.left \in Left /\ using.left \in Left
         /\ idleFor \in 0..Quiet /\ Timeout \in Nat
         /\ client.slot # 0 => client.slot \in Slots
         /\ client.at = "upgrade" <=> client.slot # 0
         /\ \A s \in Slots : /\ up[s] \in Handler /\ up[s].kc \in Left /\ up[s].tok \in Token
                             /\ up[s].tok.left \in Left /\ up[s].age \in 0..AgeCap
BY Parameters DEF IInv, TypeOK, Token, Handler

LEMMA Numbers ==
  ASSUME IInv
  PROVE  /\ cached.left \in Int /\ using.left \in Int /\ idleFor \in Nat /\ client.wait \in Nat
         /\ \A s \in Slots : up[s].kc \in Int /\ up[s].tok.left \in Int /\ up[s].age \in Nat
<1>1. \A i \in 0..Quiet : i \in Nat
  BY Parameters
<1>2. \A i \in 0..Timeout : i \in Nat
  BY Parameters
<1>3. \A i \in 0..AgeCap : i \in Nat
  BY Parameters
<1>4. \A l \in Left : l \in Int
  BY LeftTypes
<1> QED BY <1>1, <1>2, <1>3, <1>4, State

LEMMA RestTypes ==
  /\ AtRest \in [at : {"idle", "as", "issued", "upgrade", "call"}, attempt : {0, 1},
                 slot : Slots \cup {0}, wait : 0..Timeout]
  /\ AtRest.at = "idle" /\ AtRest.slot = 0 /\ AtRest.wait = 0
  /\ \A at \in {"as", "call"} :
       LET c == [AtRest EXCEPT !.at = at]
       IN  /\ c \in [at : {"idle", "as", "issued", "upgrade", "call"}, attempt : {0, 1},
                     slot : Slots \cup {0}, wait : 0..Timeout]
           /\ c.at = at /\ c.slot = 0 /\ c.wait = 0
BY Parameters DEF AtRest

\* The client is in no upgrade and carries no token.
LEMMA Rested ==
  ASSUME IInv, client' = AtRest, using' = NoToken, call' = "none",
         cached' = cached, idleFor' = idleFor, TypeOK',
         \A s \in Slots : up'[s].kc <= up[s].kc /\ up'[s].tok.left <= up[s].tok.left
  PROVE  IInv'
<1>1. Waiting' /\ Carrying' /\ Answering'
  BY RestTypes DEF Waiting, Carrying, Answering
<1>2. Bounded'
  <2>1. -Never + idleFor <= KcLifetime
    BY State, Parameters
  <2>2. \A s \in Slots : /\ up'[s].kc + idleFor <= KcLifetime
                         /\ up'[s].tok.left + idleFor <= KcLifetime
    <3> TAKE s \in Slots
    <3>1. up[s].kc + idleFor <= KcLifetime /\ up[s].tok.left + idleFor <= KcLifetime
      BY DEF IInv, Bounded
    <3>2. up[s].kc \in Int /\ up[s].tok.left \in Int /\ up'[s].kc \in Int /\ up'[s].tok.left \in Int
      BY LeftTypes, State DEF TypeOK, Handler, Token
    <3> QED BY <3>1, <3>2, State, Parameters
  <2> QED BY <2>1, <2>2, TokenTypes DEF IInv, Bounded
<1> QED BY <1>1, <1>2 DEF IInv

LEMMA BeginStep == IInv /\ Begin => IInv'
<1> SUFFICES ASSUME IInv, Begin PROVE IInv'
  OBVIOUS
<1>0. /\ client.at = "idle" /\ client.slot = 0 /\ call = "none"
      /\ UNCHANGED <<conf, nonceOk, cached, up, seenC, seenP, kid, known, faulty, idleFor>>
  BY DEF Begin, shimVars, IInv, TypeOK, Answering
<1>1. CASE Usable(cached)
  <2>1. /\ client' = [AtRest EXCEPT !.at = "call"] /\ using' = cached /\ call' = "sent"
    BY <1>1 DEF Begin, SendCall, Goto
  <2>2. client'.at = "call" /\ client'.slot = 0 /\ client'.wait = 0
    BY <2>1, RestTypes
  <2>3. TypeOK'
    BY <1>0, <2>1, RestTypes DEF IInv, TypeOK
  <2>4. Waiting' /\ Answering'
    BY <2>1, <2>2 DEF Waiting, Answering
  <2>5. Carrying'
    <3>1. cached.left - conf.own >= ExpirySkew
      BY <1>1 DEF Usable
    <3>2. cached.left \in Int /\ conf \in Settings
      BY State, LeftTypes
    <3>3. cached.left - conf.rs >= Timeout - Skew
      BY <3>1, <3>2, Clocks, Parameters, UpgradeAssumption
    <3> QED BY <1>0, <2>1, <2>2, <3>2, <3>3, Clocks, Parameters DEF Carrying
  <2>6. Bounded'
    BY <1>0, <2>1 DEF IInv, Bounded
  <2> QED BY <2>3, <2>4, <2>5, <2>6 DEF IInv
<1>2. CASE ~Usable(cached)
  <2>1. client' = [AtRest EXCEPT !.at = "as"] /\ using' = NoToken /\ call' = call
    BY <1>2 DEF Begin, Goto
  <2>2. client'.at = "as" /\ client'.slot = 0 /\ client'.wait = 0
    BY <2>1, RestTypes
  <2>3. TypeOK'
    BY <1>0, <2>1, RestTypes, TokenTypes DEF IInv, TypeOK
  <2>4. Waiting' /\ Answering' /\ Carrying'
    BY <1>0, <2>1, <2>2 DEF Waiting, Answering, Carrying
  <2>5. Bounded'
    <3>1. -Never + idleFor <= KcLifetime
      BY State, Parameters
    <3> QED BY <1>0, <2>1, <3>1, TokenTypes DEF IInv, Bounded
  <2> QED BY <2>3, <2>4, <2>5 DEF IInv
<1> QED BY <1>1, <1>2

LEMMA ChallengeStep == IInv /\ Challenge => IInv'
<1> SUFFICES ASSUME IInv, Challenge PROVE IInv'
  OBVIOUS
<1>0. /\ client.at = "as" /\ client.slot = 0 /\ call = "none" /\ nonceOk' \in BOOLEAN
      /\ UNCHANGED <<conf, cached, using, up, seenC, seenP, kid, known, call, faulty, idleFor>>
  BY DEF Challenge, shimVars, resourceVars, IInv, TypeOK, Answering
<1>1. /\ client' \in [at : {"idle", "as", "issued", "upgrade", "call"}, attempt : {0, 1},
                      slot : Slots \cup {0}, wait : 0..Timeout]
      /\ client'.at \in {"idle", "as"} /\ client'.slot = 0
  BY <1>0, RestTypes DEF Challenge, IInv, TypeOK
<1>2. TypeOK'
  BY <1>0, <1>1 DEF IInv, TypeOK
<1>3. Waiting' /\ Answering' /\ Carrying' /\ Bounded'
  BY <1>0, <1>1 DEF Waiting, Answering, Carrying, IInv, Bounded
<1> QED BY <1>2, <1>3 DEF IInv

LEMMA KeycloakIssuesStep == IInv /\ KeycloakIssues => IInv'
<1> SUFFICES ASSUME IInv, KeycloakIssues PROVE IInv'
  OBVIOUS
<1>0. /\ client.at = "as" /\ client.slot = 0 /\ call = "none" /\ idleFor' = 0
      /\ UNCHANGED <<conf, nonceOk, cached, up, seenC, seenP, kid, known, call, faulty>>
      /\ using' = [kid |-> 0, left |-> KcLifetime]
  BY DEF KeycloakIssues, shimVars, resourceVars, IInv, TypeOK, Answering
<1>1. /\ client' \in [at : {"idle", "as", "issued", "upgrade", "call"}, attempt : {0, 1},
                      slot : Slots \cup {0}, wait : 0..Timeout]
      /\ client'.at = "issued" /\ client'.slot = 0 /\ client'.wait = client.wait
  BY <1>0 DEF KeycloakIssues, IInv, TypeOK
<1>2. using' \in Token /\ using'.left = KcLifetime
  BY <1>0, TokenTypes
<1>3. TypeOK'
  BY <1>0, <1>1, <1>2, Parameters DEF IInv, TypeOK
<1>4. Waiting' /\ Answering'
  BY <1>0, <1>1 DEF Waiting, Answering
<1>5. Carrying'
  BY <1>1, <1>2, State, Parameters DEF Carrying
<1>6. Bounded'
  <2>1. cached.left \in Int /\ cached.left <= KcLifetime
    BY Numbers, Parameters DEF IInv, Bounded
  <2>2. \A s \in Slots : /\ up[s].kc \in Int /\ up[s].kc <= KcLifetime
                         /\ up[s].tok.left \in Int /\ up[s].tok.left <= KcLifetime
    <3> TAKE s \in Slots
    <3>1. up[s].kc \in Int /\ up[s].tok.left \in Int /\ idleFor \in Nat
      BY Numbers
    <3>2. up[s].kc + idleFor <= KcLifetime /\ up[s].tok.left + idleFor <= KcLifetime
      BY DEF IInv, Bounded
    <3> QED BY <3>1, <3>2, Parameters
  <2> QED BY <1>0, <1>2, <2>1, <2>2, Parameters DEF Bounded
<1> QED BY <1>3, <1>4, <1>5, <1>6 DEF IInv

LEMMA UpgradeToPQStep == IInv /\ UpgradeToPQ => IInv'
<1> SUFFICES ASSUME IInv, UpgradeToPQ PROVE IInv'
  OBVIOUS
<1> DEFINE h == [Free EXCEPT !.at = "sent", !.kc = using.left]
<1>0. /\ client.at = "issued" /\ call = "none"
      /\ UNCHANGED <<conf, nonceOk, cached, kid, known, call, faulty, idleFor>>
  BY DEF UpgradeToPQ, resourceVars, IInv, TypeOK, Answering
<1>1. PICK s \in Slots :
        /\ client' = [AtRest EXCEPT !.at = "upgrade", !.slot = s] /\ using' = NoToken
        /\ up' = [up EXCEPT ![s] = h]
        /\ seenC' = seenC \ {s} /\ seenP' = seenP \ {s}
  BY DEF UpgradeToPQ
<1>2. h \in Handler /\ h.at = "sent" /\ h.kc = using.left /\ h.age = 0 /\ h.tok = NoToken
  BY State, HandlerTypes DEF Free, Handler
<1> HIDE DEF h
<1>3. /\ client' \in [at : {"idle", "as", "issued", "upgrade", "call"}, attempt : {0, 1},
                      slot : Slots \cup {0}, wait : 0..Timeout]
      /\ client'.at = "upgrade" /\ client'.slot = s /\ client'.wait = 0 /\ s # 0
  <2>1. client' = [at |-> "upgrade", attempt |-> 0, slot |-> s, wait |-> 0]
    BY <1>1 DEF AtRest
  <2> QED BY <2>1, Parameters
<1>4. up' \in [Slots -> Handler] /\ up'[s] = h /\ \A t \in Slots : t # s => up'[t] = up[t]
  BY <1>1, <1>2 DEF IInv, TypeOK
<1>5. TypeOK'
  BY <1>0, <1>1, <1>3, <1>4, TokenTypes DEF IInv, TypeOK
<1>6. Waiting'
  <2>1. using.left + client.wait >= KcLifetime /\ using.left \in Int /\ client.wait \in 0..Timeout
    BY <1>0, State, LeftTypes DEF IInv, Carrying
  <2>2. h.kc + 0 >= KcLifetime - Timeout
    BY <1>2, <2>1, Parameters
  <2> QED BY <1>1, <1>2, <1>3, <1>4, <2>2 DEF Waiting
<1>7. Carrying' /\ Answering'
  BY <1>0, <1>3 DEF Carrying, Answering
<1>8. Bounded'
  <2>1. -Never + idleFor <= KcLifetime
    BY State, Parameters
  <2>2. \A t \in Slots : /\ up'[t].kc + idleFor <= KcLifetime
                         /\ up'[t].tok.left + idleFor <= KcLifetime
    BY <1>2, <1>4, <2>1, TokenTypes DEF IInv, Bounded
  <2> QED BY <1>0, <1>1, <2>1, <2>2, TokenTypes DEF IInv, Bounded
<1> QED BY <1>5, <1>6, <1>7, <1>8 DEF IInv

LEMMA UpgradedStep == IInv /\ Upgraded => IInv'
<1> SUFFICES ASSUME IInv, Upgraded PROVE IInv'
  OBVIOUS
<1> DEFINE s == client.slot
<1>0. /\ client.at = "upgrade" /\ up[s].at = "minted" /\ s \in Slots /\ s # 0
      /\ cached' = up[s].tok /\ using' = up[s].tok /\ call' = "sent"
      /\ client' = [AtRest EXCEPT !.at = "call"]
      /\ up' = [up EXCEPT ![s] = Free]
      /\ UNCHANGED <<conf, nonceOk, seenC, seenP, kid, known, faulty, idleFor>>
  BY State DEF Upgraded, SendCall, Goto
<1> HIDE DEF s
<1>1. client'.at = "call" /\ client'.slot = 0 /\ client'.wait = 0
  BY <1>0, RestTypes
<1>2. up' \in [Slots -> Handler] /\ up'[s] = Free /\ \A t \in Slots : t # s => up'[t] = up[t]
  BY <1>0, HandlerTypes DEF IInv, TypeOK
<1>3. TypeOK'
  BY <1>0, <1>1, <1>2, RestTypes, State DEF IInv, TypeOK
<1>4. Waiting' /\ Answering'
  BY <1>0, <1>1 DEF Waiting, Answering
<1>5. Carrying'
  <2> DEFINE left == up[s].tok.left
  <2>1. left + client.wait >= KcLifetime - Timeout \/ left + client.wait >= Lifetime
    BY <1>0 DEF IInv, Waiting, s
  <2>2. left \in Int /\ client.wait \in 0..Timeout /\ conf \in Settings
    BY <1>0, State, LeftTypes
  <2> HIDE DEF left
  <2>3. left - conf.rs >= Timeout - Skew
    BY <2>1, <2>2, Clocks, Parameters, UpgradeAssumption
  <2> QED BY <1>0, <1>1, <2>2, <2>3, Clocks, Parameters DEF Carrying, left
<1>6. Bounded'
  <2>1. -Never + idleFor <= KcLifetime
    BY State, Parameters
  <2> QED BY <1>0, <1>2, <2>1, HandlerTypes, TokenTypes DEF IInv, Bounded
<1> QED BY <1>3, <1>4, <1>5, <1>6 DEF IInv

LEMMA AtMost ==
  ASSUME IInv, NEW s \in Slots
  PROVE  /\ Free.kc <= up[s].kc /\ Free.tok.left <= up[s].tok.left
         /\ up[s].kc <= up[s].kc /\ up[s].tok.left <= up[s].tok.left
BY State, HandlerTypes, TokenTypes, LeftTypes

LEMMA UpgradeFailsStep == IInv /\ UpgradeFails => IInv'
<1> SUFFICES ASSUME IInv, UpgradeFails PROVE IInv'
  OBVIOUS
<1>1. /\ client' = AtRest /\ using' = NoToken /\ call' = "none"
      /\ up' = [up EXCEPT ![client.slot] = Free]
      /\ UNCHANGED <<conf, nonceOk, cached, seenC, seenP, kid, known, faulty, idleFor>>
  BY DEF UpgradeFails, Idle
<1>2. up' \in [Slots -> Handler] /\ \A s \in Slots : up'[s] = Free \/ up'[s] = up[s]
  BY <1>1, HandlerTypes DEF IInv, TypeOK
<1>3. TypeOK'
  BY <1>1, <1>2, RestTypes, TokenTypes DEF IInv, TypeOK
<1>4. \A s \in Slots : up'[s].kc <= up[s].kc /\ up'[s].tok.left <= up[s].tok.left
  BY <1>2, AtMost
<1> QED BY <1>1, <1>3, <1>4, Rested

LEMMA GiveUpStep == IInv /\ GiveUp => IInv'
<1> SUFFICES ASSUME IInv, GiveUp PROVE IInv'
  OBVIOUS
<1>1. /\ client' = AtRest /\ using' = NoToken /\ call' = "none"
      /\ up' = [s \in Slots |-> IF s = client.slot /\ up[s].at \in Ended THEN Free ELSE up[s]]
      /\ UNCHANGED <<conf, nonceOk, cached, seenC, seenP, kid, known, faulty, idleFor>>
  BY DEF GiveUp, Idle
<1>2. up' \in [Slots -> Handler] /\ \A s \in Slots : up'[s] = Free \/ up'[s] = up[s]
  BY <1>1, HandlerTypes DEF IInv, TypeOK
<1>3. TypeOK'
  BY <1>1, <1>2, RestTypes, TokenTypes DEF IInv, TypeOK
<1>4. \A s \in Slots : up'[s].kc <= up[s].kc /\ up'[s].tok.left <= up[s].tok.left
  BY <1>2, AtMost
<1> QED BY <1>1, <1>3, <1>4, Rested

LEMMA AnsweredStep == IInv /\ Answered => IInv'
<1> SUFFICES ASSUME IInv, Answered PROVE IInv'
  OBVIOUS
<1>1. /\ client' = AtRest /\ using' = NoToken /\ call' = "none"
      /\ UNCHANGED <<conf, nonceOk, cached, up, seenC, seenP, kid, known, faulty, idleFor>>
  BY DEF Answered, Idle, shimVars
<1>2. TypeOK'
  BY <1>1, RestTypes, TokenTypes DEF IInv, TypeOK
<1>3. \A s \in Slots : up'[s].kc <= up[s].kc /\ up'[s].tok.left <= up[s].tok.left
  BY <1>1, AtMost
<1> QED BY <1>1, <1>2, <1>3, Rested

-----------------------------------------------------------------------------
(* The shim *)

LEMMA Continues ==
  ASSUME TypeOK, NEW s \in Slots, NEW h \in Handler, Continue(s, h)
  PROVE  /\ up' \in [Slots -> Handler]
         /\ \A t \in Slots : t # s => up'[t] = up[t]
         /\ up'[s] = h \/ up'[s] = Free
         /\ client.slot = s => up'[s] = h
BY HandlerTypes DEF Continue, TypeOK

\* A step of the handler of s, which leaves the client alone.
LEMMA HandlerStep ==
  ASSUME IInv, NEW s \in Slots, NEW h \in Handler, Continue(s, h), TypeOK',
         UNCHANGED <<conf, clientVars, resourceVars, idleFor>>,
         seenC' \subseteq seenC \cup {s}, seenP' \subseteq seenP \cup {s},
         h.kc <= up[s].kc, h.tok.left <= up[s].kc \/ h.tok.left <= up[s].tok.left,
         client.slot = s =>
           /\ h.at \notin {"refused", "sent"}
           /\ h.at = "authorized" => s \notin seenP' /\ h.age <= client.wait
           /\ h.at \in {"authorized", "proved"} => h.kc + client.wait >= KcLifetime - Timeout
           /\ h.at = "minted" => \/ h.tok.left + client.wait >= KcLifetime - Timeout
                                 \/ h.tok.left + client.wait >= Lifetime
  PROVE  IInv'
<1>0. /\ client' = client /\ using' = using /\ cached' = cached /\ call' = call
      /\ conf' = conf /\ idleFor' = idleFor
  BY DEF clientVars, resourceVars
<1>1. /\ \A t \in Slots : t # s => up'[t] = up[t]
      /\ up'[s] = h \/ up'[s] = Free
      /\ client.slot = s => up'[s] = h
  BY Continues DEF IInv
<1>2. Waiting'
  <2>1. CASE client.slot = s
    BY <1>0, <1>1, <2>1 DEF Waiting
  <2>2. CASE client.slot # s
    <3>1. client.slot # 0 => client.slot \in Slots /\ up'[client.slot] = up[client.slot]
      BY <1>1, <2>2, State
    <3>2. client.slot \in seenC' => client.slot \in seenC
      BY <2>2
    <3>3. client.slot \in seenP' => client.slot \in seenP
      BY <2>2
    <3> QED BY <1>0, <3>1, <3>2, <3>3 DEF IInv, Waiting
  <2> QED BY <2>1, <2>2
<1>3. Carrying' /\ Answering'
  BY <1>0 DEF IInv, Carrying, Answering
<1>4. Bounded'
  <2>1. -Never + idleFor <= KcLifetime
    BY State, Parameters
  <2>2. h.kc \in Int /\ h.tok.left \in Int
    BY LeftTypes DEF Handler, Token
  <2>3. up[s].kc + idleFor <= KcLifetime /\ up[s].tok.left + idleFor <= KcLifetime
    BY DEF IInv, Bounded
  <2>4. h.kc + idleFor <= KcLifetime /\ h.tok.left + idleFor <= KcLifetime
    BY <2>2, <2>3, Numbers, Parameters
  <2>5. Free.kc + idleFor <= KcLifetime /\ Free.tok.left + idleFor <= KcLifetime
    BY <2>1, HandlerTypes, TokenTypes
  <2> QED BY <1>0, <1>1, <2>4, <2>5 DEF IInv, Bounded
<1> QED BY <1>2, <1>3, <1>4 DEF IInv

LEMMA HandlerLow ==
  ASSUME IInv, NEW s \in Slots, NEW h \in Handler, h.kc = -Never, h.tok = NoToken
  PROVE  h.kc <= up[s].kc /\ h.tok.left <= up[s].tok.left
BY State, TokenTypes, LeftTypes

\* The proofs of an upgrade its client waits for are recent.
LEMMA WaitedIsRecent ==
  ASSUME IInv, NEW s \in Slots, client.slot = s, up[s].at \in {"sent", "authorized"}
  PROVE  Recent(up[s].age, 0) /\ up[s].kc >= -Skew
<1>1. s # 0
  BY Parameters
<1>2. up[s].age <= client.wait /\ up[s].kc + client.wait >= KcLifetime - Timeout
  BY <1>1 DEF IInv, Waiting
<1>3. /\ up[s].age \in Nat /\ up[s].kc \in Int /\ client.wait \in Nat /\ client.wait <= Timeout
      /\ conf \in Settings
  BY Numbers, State, Parameters
<1>4. up[s].kc >= -Skew
  BY <1>2, <1>3, Parameters, UpgradeAssumption
<1>5. up[s].age + 0 - conf.own >= -Skew /\ up[s].age + 0 - conf.own <= Window + Skew
  BY <1>2, <1>3, Clocks, Parameters, UpgradeAssumption
<1> QED BY <1>3, <1>4, <1>5, Clocks, Parameters DEF Recent

LEMMA AuthorizeStep ==
  ASSUME IInv, NEW s \in Slots, Authorize(s)
  PROVE  IInv'
<1> DEFINE ok == /\ up[s].kc >= -Skew
                 /\ conf.binding = "jkt" => Recent(up[s].age, 0) /\ s \notin seenC
           good == [up[s] EXCEPT !.at = "authorized"]
           h == IF ok THEN good ELSE Refused
<1>0. /\ up[s].at = "sent" /\ Continue(s, h)
      /\ seenC' = IF ok /\ conf.binding = "jkt" THEN seenC \cup {s} ELSE seenC
      /\ UNCHANGED <<conf, clientVars, seenP, kid, resourceVars, faulty, idleFor>>
  BY DEF Authorize
<1>1. /\ good \in Handler /\ good.at = "authorized" /\ good.kc = up[s].kc /\ good.tok = up[s].tok
      /\ good.age = up[s].age
  BY State DEF Handler
<1>2. client.slot = s => ok
  <2>1. ASSUME client.slot = s PROVE ok
    <3>1. s \notin seenC
      BY <1>0, <2>1, Parameters DEF IInv, Waiting
    <3> QED BY <1>0, <2>1, <3>1, WaitedIsRecent
  <2> QED BY <2>1
<1> HIDE DEF ok, good
<1>3. /\ h \in Handler /\ h.kc <= up[s].kc
      /\ h.tok.left <= up[s].kc \/ h.tok.left <= up[s].tok.left
      /\ client.slot = s => h = good
  <2>1. CASE ok
    BY <1>1, <2>1, AtMost
  <2>2. CASE ~ok
    BY <1>2, <2>2, HandlerTypes, HandlerLow
  <2> QED BY <2>1, <2>2
<1> HIDE DEF h
<1>4. TypeOK'
  <2>1. up' \in [Slots -> Handler]
    BY <1>0, <1>3, Continues DEF IInv
  <2>2. seenC' \subseteq Slots
    BY <1>0 DEF IInv, TypeOK
  <2> QED BY <1>0, <2>1, <2>2 DEF IInv, TypeOK, clientVars, resourceVars
<1>5. client.slot = s =>
        /\ h.at = "authorized" /\ s \notin seenP' /\ h.age <= client.wait
        /\ h.kc + client.wait >= KcLifetime - Timeout
  BY <1>0, <1>1, <1>3, Parameters DEF IInv, Waiting
<1>6. seenC' \subseteq seenC \cup {s} /\ seenP' \subseteq seenP \cup {s}
  BY <1>0
<1> QED BY <1>0, <1>3, <1>4, <1>5, <1>6, HandlerStep

LEMMA VerifyPQProofStep ==
  ASSUME IInv, NEW s \in Slots, VerifyPQProof(s)
  PROVE  IInv'
<1> DEFINE ok == ProofClaimsHold(s)
           good == [up[s] EXCEPT !.at = "proved", !.age = 0]
           h == IF ok THEN good ELSE Refused
<1>0. /\ up[s].at = "authorized" /\ Continue(s, h)
      /\ seenP' = IF ok THEN seenP \cup {s} ELSE seenP
      /\ UNCHANGED <<conf, clientVars, seenC, kid, resourceVars, faulty, idleFor>>
  BY DEF VerifyPQProof
<1>1. /\ good \in Handler /\ good.at = "proved" /\ good.kc = up[s].kc /\ good.tok = up[s].tok
  <2>1. up[s] \in Handler /\ 0 \in 0..AgeCap
    BY State, Parameters
  <2> QED BY <2>1 DEF Handler
<1>2. client.slot = s => ok
  <2>1. ASSUME client.slot = s PROVE ok
    <3>1. s \notin seenP
      BY <1>0, <2>1, Parameters DEF IInv, Waiting
    <3> QED BY <1>0, <2>1, <3>1, WaitedIsRecent DEF ProofClaimsHold
  <2> QED BY <2>1
<1> HIDE DEF ok, good
<1>3. /\ h \in Handler /\ h.kc <= up[s].kc
      /\ h.tok.left <= up[s].kc \/ h.tok.left <= up[s].tok.left
      /\ client.slot = s => h = good
  <2>1. CASE ok
    BY <1>1, <2>1, AtMost
  <2>2. CASE ~ok
    BY <1>2, <2>2, HandlerTypes, HandlerLow
  <2> QED BY <2>1, <2>2
<1> HIDE DEF h
<1>4. TypeOK'
  <2>1. up' \in [Slots -> Handler]
    BY <1>0, <1>3, Continues DEF IInv
  <2>2. seenP' \subseteq Slots
    BY <1>0 DEF IInv, TypeOK
  <2> QED BY <1>0, <2>1, <2>2 DEF IInv, TypeOK, clientVars, resourceVars
<1>5. client.slot = s => h.at = "proved" /\ h.kc + client.wait >= KcLifetime - Timeout
  BY <1>0, <1>1, <1>3, Parameters DEF IInv, Waiting
<1>6. seenC' \subseteq seenC \cup {s} /\ seenP' \subseteq seenP \cup {s}
  BY <1>0
<1> QED BY <1>0, <1>3, <1>4, <1>5, <1>6, HandlerStep

LEMMA IssueStep ==
  ASSUME IInv, NEW s \in Slots, Issue(s)
  PROVE  IInv'
<1> DEFINE left == IF up[s].kc < Lifetime THEN up[s].kc ELSE Lifetime
           h == [Free EXCEPT !.at = "minted", !.tok = [kid |-> kid, left |-> left]]
<1>0. /\ up[s].at = "proved" /\ Continue(s, h)
      /\ UNCHANGED <<conf, clientVars, seenC, seenP, kid, resourceVars, faulty, idleFor>>
  BY DEF Issue, Minted
<1>1. left \in Left /\ left <= up[s].kc /\ (left = up[s].kc \/ left = Lifetime)
  BY State, Numbers, LeftTypes, Parameters
<1> HIDE DEF left
<1>2. /\ h \in Handler /\ h.at = "minted" /\ h.kc = -Never /\ h.tok.left = left
  <2>1. [kid |-> kid, left |-> left] \in Token
    BY <1>1, TokenTypes DEF IInv, TypeOK
  <2> QED BY <2>1, HandlerTypes DEF Free, Handler
<1> HIDE DEF h
<1>3. TypeOK'
  <2>1. up' \in [Slots -> Handler]
    BY <1>0, <1>2, Continues DEF IInv
  <2> QED BY <1>0, <2>1 DEF IInv, TypeOK, clientVars, resourceVars
<1>4. h.kc <= up[s].kc
  BY <1>2, State, LeftTypes
<1>5. client.slot = s => \/ h.tok.left + client.wait >= KcLifetime - Timeout
                         \/ h.tok.left + client.wait >= Lifetime
  <2>1. ASSUME client.slot = s
        PROVE  \/ left + client.wait >= KcLifetime - Timeout
               \/ left + client.wait >= Lifetime
    <3>1. up[s].kc + client.wait >= KcLifetime - Timeout
      BY <1>0, <2>1, Parameters DEF IInv, Waiting
    <3>2. Lifetime + client.wait >= Lifetime
      BY Numbers, Parameters
    <3> QED BY <1>1, <3>1, <3>2
  <2> QED BY <1>2, <2>1
<1> QED BY <1>0, <1>1, <1>2, <1>3, <1>4, <1>5, HandlerStep

LEMMA LoseStep ==
  ASSUME IInv, NEW s \in Slots, Lose(s)
  PROVE  IInv'
<1> DEFINE h == [Free EXCEPT !.at = "lost"]
<1>0. /\ Continue(s, h)
      /\ UNCHANGED <<conf, clientVars, seenC, seenP, kid, resourceVars, faulty, idleFor>>
  BY DEF Lose
<1>1. h \in Handler /\ h.at = "lost" /\ h.kc = -Never /\ h.tok = NoToken
  BY HandlerTypes DEF Free
<1> HIDE DEF h
<1>2. TypeOK'
  <2>1. up' \in [Slots -> Handler]
    BY <1>0, <1>1, Continues DEF IInv
  <2> QED BY <1>0, <2>1 DEF IInv, TypeOK, clientVars, resourceVars
<1>3. h.kc <= up[s].kc /\ h.tok.left <= up[s].tok.left
  BY <1>1, HandlerLow
<1> QED BY <1>0, <1>1, <1>2, <1>3, HandlerStep

LEMMA RestartStep == IInv /\ Restart => IInv'
<1> SUFFICES ASSUME IInv, Restart PROVE IInv'
  OBVIOUS
<1> DEFINE h == [Free EXCEPT !.at = "lost"]
<1>0. /\ kid' \in Kids /\ seenC' = {} /\ seenP' = {}
      /\ up' = [s \in Slots |-> IF client.slot = s THEN h ELSE Free]
      /\ UNCHANGED <<conf, clientVars, resourceVars, faulty, idleFor>>
  BY Parameters DEF Restart, Kids, IInv, TypeOK
<1>1. h \in Handler /\ h.at = "lost" /\ h.kc = -Never /\ h.tok = NoToken
  BY HandlerTypes DEF Free
<1> HIDE DEF h
<1>2. /\ client' = client /\ using' = using /\ cached' = cached /\ call' = call
      /\ conf' = conf /\ idleFor' = idleFor
  BY <1>0 DEF clientVars, resourceVars
<1>3. /\ up' \in [Slots -> Handler]
      /\ \A s \in Slots : up'[s] = Free \/ up'[s] = h
      /\ client.slot # 0 => up'[client.slot] = h
  BY <1>0, <1>1, HandlerTypes, State
<1>4. TypeOK'
  BY <1>0, <1>3 DEF IInv, TypeOK, clientVars, resourceVars
<1>5. Waiting' /\ Carrying' /\ Answering'
  BY <1>1, <1>2, <1>3 DEF IInv, Waiting, Carrying, Answering
<1>6. Bounded'
  <2>1. -Never + idleFor <= KcLifetime
    BY State, Parameters
  <2> QED BY <1>1, <1>2, <1>3, <2>1, HandlerTypes, TokenTypes DEF IInv, Bounded
<1> QED BY <1>4, <1>5, <1>6 DEF IInv

-----------------------------------------------------------------------------
(* The resource server, time and faults *)

\* Steps that touch neither the client nor the upgrades.
LEMMA ResourceStep ==
  ASSUME IInv, UNCHANGED <<conf, client, using, cached, up, seenC, seenP, kid, idleFor>>,
         nonceOk' \in BOOLEAN, faulty' \in BOOLEAN, known' \in Kids \cup {0},
         call' = call \/ (call \in {"sent", "valid"}
                          /\ call' \in {"valid", "granted", "key", "inactive"})
  PROVE  IInv'
<1>1. TypeOK'
  BY DEF IInv, TypeOK
<1>2. Waiting' /\ Carrying' /\ Bounded'
  BY DEF IInv, Waiting, Carrying, Bounded
<1>3. Answering'
  BY DEF IInv, Answering
<1> QED BY <1>1, <1>2, <1>3 DEF IInv

\* A token that is presented has not expired for the resource server, however long
\* the client has waited for the answer.
LEMMA PresentedIsGood ==
  ASSUME IInv, client.at = "call"
  PROVE  using.left - conf.rs >= -Skew
<1>1. using.left - conf.rs + client.wait >= Timeout - Skew
  BY DEF IInv, Carrying
<1>2. using.left \in Int /\ conf.rs \in Int /\ client.wait \in Nat /\ client.wait <= Timeout
  BY State, Numbers, Clocks, Parameters
<1> QED BY <1>1, <1>2, Parameters

LEMMA ValidateStep == IInv /\ Validate => IInv'
<1> SUFFICES ASSUME IInv, Validate PROVE IInv'
  OBVIOUS
<1>1. /\ call = "sent" /\ call' = Verdict
      /\ UNCHANGED <<conf, client, using, cached, nonceOk, up, seenC, seenP, kid, known, faulty, idleFor>>
  BY DEF Validate, clientVars, shimVars
<1>2. client.at = "call"
  BY <1>1 DEF IInv, Answering
<1>3. ~(using.left - conf.rs < -Skew)
  <2>1. using.left - conf.rs \in Int
    BY State, Numbers, Clocks
  <2> QED BY <1>2, <2>1, PresentedIsGood, Parameters
<1>4. Verdict \in {"valid", "key", "inactive"}
  BY <1>3 DEF Verdict, ValidateLocally, Introspect
<1>5. nonceOk \in BOOLEAN /\ faulty \in BOOLEAN /\ known \in Kids \cup {0}
  BY DEF IInv, TypeOK
<1> QED BY <1>1, <1>4, <1>5, ResourceStep

LEMMA CheckBindingStep == IInv /\ CheckBinding => IInv'
<1> SUFFICES ASSUME IInv, CheckBinding PROVE IInv'
  OBVIOUS
<1>1. /\ call = "valid"
      /\ call' = IF conf.binding = "jkt" /\ ~Recent(client.wait, conf.rs) THEN "proof" ELSE "granted"
      /\ UNCHANGED <<conf, client, using, cached, nonceOk, up, seenC, seenP, kid, known, faulty, idleFor>>
  BY DEF CheckBinding, clientVars, shimVars
<1>2. Recent(client.wait, conf.rs)
  <2>1. client.wait \in Nat /\ client.wait <= Timeout /\ conf \in Settings
    BY Numbers, State, Parameters
  <2>2. /\ client.wait + conf.rs - conf.own >= -Skew
        /\ client.wait + conf.rs - conf.own <= Window + Skew
    BY <2>1, Clocks, Parameters, UpgradeAssumption
  <2> QED BY <2>1, <2>2, Clocks, Parameters DEF Recent
<1>3. nonceOk \in BOOLEAN /\ faulty \in BOOLEAN /\ known \in Kids \cup {0}
  BY DEF IInv, TypeOK
<1> QED BY <1>1, <1>2, <1>3, ResourceStep

LEMMA RefetchKeysStep == IInv /\ RefetchKeys => IInv'
<1> SUFFICES ASSUME IInv, RefetchKeys PROVE IInv'
  OBVIOUS
<1>1. /\ known' = kid /\ call' = call
      /\ UNCHANGED <<conf, client, using, cached, nonceOk, up, seenC, seenP, kid, faulty, idleFor>>
  BY DEF RefetchKeys, clientVars, shimVars
<1>2. nonceOk \in BOOLEAN /\ faulty \in BOOLEAN /\ kid \in Kids
  BY DEF IInv, TypeOK
<1> QED BY <1>1, <1>2, ResourceStep

LEMMA FaultStep == IInv /\ Fault => IInv'
<1> SUFFICES ASSUME IInv, Fault PROVE IInv'
  OBVIOUS
<1>1. /\ call' = call /\ known' = known
      /\ UNCHANGED <<conf, client, using, cached, up, seenC, seenP, kid, idleFor>>
  BY DEF Fault, shimVars, resourceVars
<1>2. nonceOk' \in BOOLEAN /\ faulty' \in BOOLEAN /\ known \in Kids \cup {0}
  BY DEF Fault, IInv, TypeOK
<1> QED BY <1>1, <1>2, ResourceStep

\* A moment takes at most one from a token, and nothing from one that is spent.
LEMMA Spent ==
  ASSUME NEW l \in Left, NEW i \in 0..Quiet, l + i <= KcLifetime,
         NEW j, j = IF i < Quiet THEN i + 1 ELSE i
  PROVE  Spend(l) + j <= KcLifetime
<1>1. l \in Int /\ Spend(l) \in Int /\ i \in Nat /\ Quiet \in Nat /\ j <= Quiet /\ j <= i + 1 /\ j \in Nat
  BY LeftTypes, SpendTypes, Parameters
<1>2. CASE Spend(l) = l - 1
  BY <1>1, <1>2, Parameters
<1>3. CASE Spend(l) = -Never
  BY <1>1, <1>3, Parameters
<1> QED BY <1>2, <1>3, SpendTypes

LEMMA TickStep == IInv /\ Tick => IInv'
<1> SUFFICES ASSUME IInv, Tick PROVE IInv'
  OBVIOUS
<1>0. /\ client.at # "idle" => client.wait < Timeout
      /\ client' = IF client.at = "idle" THEN client ELSE [client EXCEPT !.wait = @ + 1]
      /\ cached' = IF cached.left <= conf.own THEN NoToken ELSE [cached EXCEPT !.left = Spend(@)]
      /\ using' = [using EXCEPT !.left = Spend(@)]
      /\ up' = [s \in Slots |-> Aged(up[s])]
      /\ idleFor' = IF idleFor < Quiet THEN idleFor + 1 ELSE idleFor
      /\ UNCHANGED <<conf, nonceOk, seenC, seenP, kid, known, call, faulty>>
  BY DEF Tick, resourceVars
<1>1. /\ client'.at = client.at /\ client'.slot = client.slot
      /\ client.at # "idle" => client'.wait = client.wait + 1
      /\ client' \in [at : {"idle", "as", "issued", "upgrade", "call"}, attempt : {0, 1},
                      slot : Slots \cup {0}, wait : 0..Timeout]
  <2>1. CASE client.at = "idle"
    BY <1>0, <2>1 DEF IInv, TypeOK
  <2>2. CASE client.at # "idle"
    <3>1. client' = [client EXCEPT !.wait = client.wait + 1] /\ client.wait + 1 \in 0..Timeout
      BY <1>0, <2>2, State, Parameters
    <3> QED BY <2>2, <3>1 DEF IInv, TypeOK
  <2> QED BY <2>1, <2>2
<1>2. \A l \in Left : Spend(l) \in Left /\ Spend(l) \in Int /\ Spend(l) >= l - 1
  BY SpendTypes, LeftTypes
<1>3. /\ using' \in Token /\ using'.left = Spend(using.left)
      /\ cached' \in Token /\ cached'.left \in {-Never, Spend(cached.left)}
  BY <1>0, <1>2, State, TokenTypes DEF Token
<1>4. \A s \in Slots : /\ up'[s] \in Handler /\ up'[s].at = up[s].at
                       /\ up'[s].kc = Spend(up[s].kc) /\ up'[s].tok.left = Spend(up[s].tok.left)
                       /\ up'[s].age <= up[s].age + 1
  BY <1>0, State, AgedTypes
<1>5. idleFor' \in 0..Quiet
  BY <1>0, State, Parameters
<1>6. TypeOK'
  <2>1. up' \in [Slots -> Handler]
    BY <1>0, <1>4
  <2> QED BY <1>0, <1>1, <1>3, <1>5, <2>1 DEF IInv, TypeOK
<1>7. Waiting'
  <2> SUFFICES ASSUME client.slot # 0 PROVE Waiting'
    BY <1>1 DEF Waiting
  <2> DEFINE s == client.slot
             h == up[s]
             n == up'[s]
  <2>1. s \in Slots /\ client.at = "upgrade" /\ client'.wait = client.wait + 1 /\ client'.slot = s
    BY <1>1, State
  <2>2. /\ n.at = h.at /\ n.kc \in Int /\ n.kc >= h.kc - 1 /\ n.tok.left \in Int
        /\ n.tok.left >= h.tok.left - 1 /\ n.age <= h.age + 1
        /\ h.kc \in Int /\ h.tok.left \in Int /\ h.age \in Nat /\ n.age \in 0..AgeCap
        /\ client.wait \in Nat
    BY <1>2, <1>4, <2>1, State, Numbers DEF Handler
  <2>3. /\ h.at # "refused"
        /\ h.at = "sent" => s \notin seenC
        /\ h.at \in {"sent", "authorized"} => s \notin seenP /\ h.age <= client.wait
        /\ h.at \in {"sent", "authorized", "proved"} => h.kc + client.wait >= KcLifetime - Timeout
        /\ h.at = "minted" => \/ h.tok.left + client.wait >= KcLifetime - Timeout
                              \/ h.tok.left + client.wait >= Lifetime
    BY DEF IInv, Waiting
  <2> HIDE DEF h, n
  <2>4. h.at \in {"sent", "authorized"} => n.age <= client.wait + 1
    BY <2>2, <2>3, Parameters
  <2>5. h.kc + client.wait >= KcLifetime - Timeout =>
          n.kc + (client.wait + 1) >= KcLifetime - Timeout
    BY <2>2, Parameters
  <2>6. /\ h.tok.left + client.wait >= KcLifetime - Timeout =>
             n.tok.left + (client.wait + 1) >= KcLifetime - Timeout
        /\ h.tok.left + client.wait >= Lifetime => n.tok.left + (client.wait + 1) >= Lifetime
    BY <2>2, Parameters
  <2>7. seenC' = seenC /\ seenP' = seenP
    BY <1>0
  <2> HIDE DEF s
  <2>8. /\ n.at # "refused"
        /\ n.at = "sent" => s \notin seenC'
        /\ n.at \in {"sent", "authorized"} => s \notin seenP' /\ n.age <= client'.wait
        /\ n.at \in {"sent", "authorized", "proved"} => n.kc + client'.wait >= KcLifetime - Timeout
        /\ n.at = "minted" => \/ n.tok.left + client'.wait >= KcLifetime - Timeout
                              \/ n.tok.left + client'.wait >= Lifetime
    BY <2>1, <2>2, <2>3, <2>4, <2>5, <2>6, <2>7
  <2> QED BY <2>1, <2>8 DEF Waiting, n
<1>8. Carrying'
  <2>1. /\ using.left \in Int /\ using'.left \in Int /\ using'.left >= using.left - 1
        /\ client.wait \in Nat /\ conf.rs \in Int /\ conf' = conf
    BY <1>0, <1>2, <1>3, State, Numbers, Clocks
  <2>2. client.at = "issued" => using'.left + client'.wait >= KcLifetime
    BY <1>1, <2>1, Parameters DEF IInv, Carrying
  <2>3. client.at = "call" => using'.left - conf.rs + client'.wait >= Timeout - Skew
    BY <1>1, <2>1, Parameters DEF IInv, Carrying
  <2> QED BY <1>1, <2>1, <2>2, <2>3 DEF Carrying
<1>9. Answering'
  BY <1>0, <1>1 DEF IInv, Answering
<1>10. Bounded'
  <2>0. \A i \in 0..Quiet : -Never + i <= KcLifetime
    BY Parameters
  <2>1. -Never + idleFor' <= KcLifetime
    BY <1>5, <2>0
  <2>2. using'.left + idleFor' <= KcLifetime
    BY <1>0, <1>3, State, Spent DEF IInv, Bounded
  <2>3. Spend(cached.left) + idleFor' <= KcLifetime
    BY <1>0, State, Spent DEF IInv, Bounded
  <2>4. \A s \in Slots : /\ up'[s].kc + idleFor' <= KcLifetime
                         /\ up'[s].tok.left + idleFor' <= KcLifetime
    BY <1>0, <1>4, State, Spent DEF IInv, Bounded
  <2> QED BY <1>3, <2>1, <2>2, <2>3, <2>4 DEF Bounded
<1> QED BY <1>6, <1>7, <1>8, <1>9, <1>10 DEF IInv

-----------------------------------------------------------------------------
(* Theorems *)

LEMMA Initially == Init => IInv
<1> SUFFICES ASSUME Init PROVE IInv
  OBVIOUS
<1>1. TypeOK
  <2>1. 1 \in Kids /\ 0 \in Kids \cup {0}
    BY Parameters DEF Kids
  <2>2. idleFor \in 0..Quiet
    BY Parameters DEF Init
  <2>3. /\ conf \in Settings /\ nonceOk = FALSE /\ cached = NoToken /\ using = NoToken
        /\ client = AtRest /\ kid = 1 /\ known = 0 /\ call = "none" /\ faulty = FALSE
        /\ seenC = {} /\ seenP = {}
    BY DEF Init
  <2>4. up \in [Slots -> Handler]
    BY HandlerTypes DEF Init
  <2> QED BY <2>1, <2>2, <2>3, <2>4, RestTypes, TokenTypes DEF TypeOK
<1>2. Waiting /\ Carrying /\ Answering
  BY RestTypes DEF Init, Waiting, Carrying, Answering
<1>3. Bounded
  <2>1. -Never + Quiet <= KcLifetime
    BY Parameters
  <2> QED BY <2>1, TokenTypes, HandlerTypes DEF Init, Bounded
<1> QED BY <1>1, <1>2, <1>3 DEF IInv

LEMMA Stutters == IInv /\ UNCHANGED vars => IInv'
<1> SUFFICES ASSUME IInv, UNCHANGED vars PROVE IInv'
  OBVIOUS
<1>1. /\ UNCHANGED <<conf, client, using, cached, up, seenC, seenP, kid, idleFor>>
      /\ call' = call /\ nonceOk' = nonceOk /\ faulty' = faulty /\ known' = known
  BY DEF vars, clientVars, shimVars, resourceVars
<1>2. nonceOk \in BOOLEAN /\ faulty \in BOOLEAN /\ known \in Kids \cup {0}
  BY DEF IInv, TypeOK
<1> QED BY <1>1, <1>2, ResourceStep

LEMMA Invariance == Spec => []IInv
<1>1. IInv /\ [Next]_vars => IInv'
  <2> SUFFICES ASSUME IInv, Next PROVE IInv'
    BY Stutters
  <2>1. CASE ClientSteps \/ GiveUp
    BY <2>1, BeginStep, ChallengeStep, KeycloakIssuesStep, UpgradeToPQStep, UpgradedStep,
       UpgradeFailsStep, AnsweredStep, GiveUpStep DEF ClientSteps
  <2>2. CASE \E s \in Slots : Handles(s) \/ Lose(s)
    BY <2>2, AuthorizeStep, VerifyPQProofStep, IssueStep, LoseStep DEF Handles
  <2>3. CASE Restart \/ RefetchKeys \/ Validate \/ CheckBinding \/ Tick \/ Fault
    BY <2>3, RestartStep, RefetchKeysStep, ValidateStep, CheckBindingStep, TickStep, FaultStep
  <2> QED BY <2>1, <2>2, <2>3 DEF Next
<1> QED BY <1>1, Initially, PTL DEF Spec

\* Client, shim and resource server are well formed, and the client waits for a slot
\* exactly during an upgrade.
THEOREM TypeCorrect == Spec => []TypeOK
<1>1. IInv => TypeOK
  BY DEF IInv
<1> QED BY <1>1, Invariance, PTL

\* The shim refuses no upgrade its client still waits for, neither for the age nor for
\* the reuse of a proof nor for the token, in whatever order answers are lost.
THEOREM NeverRefusedWaiting == Spec => []WaitingNotRefused
<1>1. IInv => WaitingNotRefused
  BY DEF IInv, Waiting, WaitingNotRefused
<1> QED BY <1>1, Invariance, PTL

\* A resource server that validates locally finds no token expired that the client
\* presents, and no proof of a call out of its window.
THEOREM PresentedInTime == Spec => []UsableNotExpired
<1>1. IInv => UsableNotExpired
  BY DEF IInv, Answering, UsableNotExpired
<1> QED BY <1>1, Invariance, PTL

\* No token is found valid longer after Keycloak issued its last one than that one's
\* lifetime and the skew allowed, whatever was minted, cached and renewed from it.
THEOREM AccessIsBounded == Spec => AccessEnds
<1>1. IInv /\ [Next]_vars =>
        [call = "sent" /\ call' = "valid" => idleFor <= KcLifetime + Skew + Drift]_vars
  <2> SUFFICES ASSUME IInv, Next, call = "sent", call' = "valid"
               PROVE  idleFor <= KcLifetime + Skew + Drift
    OBVIOUS
  <2>1. Validate
    <3>1. call' # call
      OBVIOUS
    <3>2. client.at = "call"
      BY DEF IInv, Answering
    <3>3. CASE ClientSteps
      BY <3>2, <3>3 DEF ClientSteps, Begin, Challenge, KeycloakIssues, UpgradeToPQ, Upgraded,
         UpgradeFails, Answered, SendCall, Idle, resourceVars
    <3>4. CASE GiveUp
      BY <3>4 DEF GiveUp, Idle
    <3>5. CASE \E s \in Slots : Handles(s) \/ Lose(s)
      BY <3>5 DEF Handles, Authorize, VerifyPQProof, Issue, Lose, resourceVars
    <3>6. CASE Restart \/ RefetchKeys \/ CheckBinding \/ Tick \/ Fault
      BY <3>6 DEF Restart, RefetchKeys, CheckBinding, Tick, Fault, resourceVars
    <3> QED BY <3>3, <3>4, <3>5, <3>6 DEF Next
  <2>2. using.left >= -Skew - Drift
    <3>1. using.left \in Int /\ conf \in Settings
      BY Numbers, State
    <3>2. CASE conf.mode = "local"
      <4>1. ~(using.left - conf.rs < -Skew)
        BY <2>1, <3>2 DEF Validate, Verdict, ValidateLocally
      <4> QED BY <3>1, <4>1, Clocks, Parameters
    <3>3. CASE conf.mode # "local"
      <4>1. using.left >= 0
        BY <2>1, <3>3 DEF Validate, Verdict, Introspect, Active
      <4> QED BY <3>1, <4>1, Parameters
    <3> QED BY <3>2, <3>3
  <2>3. using.left + idleFor <= KcLifetime
    BY DEF IInv, Bounded
  <2> QED BY <2>2, <2>3, Numbers, Parameters
<1> QED BY <1>1, Invariance, PTL DEF Spec, AccessEnds

=============================================================================
