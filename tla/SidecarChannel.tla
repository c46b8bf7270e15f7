--------------------------- MODULE SidecarChannel ---------------------------
(***************************************************************************)
(* One connection of an application through its sidecar's forward, the     *)
(* tunnel handshake, the authorization exchange and the peer's accept, up  *)
(* to the two relays and their end.                                        *)
(*                                                                         *)
(* Certificates of the egress sidecar are numbered as they are issued; a   *)
(* renewal may come at any step (Credential is read per handshake, the     *)
(* token is fetched before it).  A token is the certificate it is bound    *)
(* to, or 0 when it is bound to a DPoP key (Method C), of which the frame  *)
(* then carries a proof.                                                   *)
(***************************************************************************)
EXTENDS Relay

CONSTANT MaxRenewals   \* bound on renewals during a connection

ASSUME ChannelAssumption == MaxRenewals \in Nat

VARIABLES
  conf,       \* how the two sidecars are configured for this route
  egress,     \* where forward is
  ingress,    \* where accept is
  cert,       \* the egress sidecar's certificate in force
  tok,        \* the token in its frame
  presented,  \* the certificate the ingress authenticated in the handshake
  claim,      \* the token in the frame it read
  accepted,   \* the ingress let it pass
  armed,      \* the deadline set on each end of the tunnel
  troubled    \* history: something outside the two sidecars went wrong

egressVars == <<egress, tok>>
ingressVars == <<ingress, presented, claim, accepted>>
vars == <<relayVars, conf, egressVars, ingressVars, cert, armed, troubled>>

Configurations == [binding : {"x5t", "jkt"}, named : BOOLEAN, served : BOOLEAN, targeted : BOOLEAN]
Certs == 0..(MaxRenewals + 1)

\* The state is well formed, and copiers run exactly in a relay.
TypeOK ==
  /\ line \in [Lines -> [fwd : Seq(Message), bwd : Seq(Message), up : BOOLEAN, cut : BOOLEAN,
                      closed : SUBSET Dirs]]
  /\ copier \in [Goroutines -> [at : {"off", "read", "write", "done"}, m : Message]]
  /\ app \in [Dirs -> Application]
  /\ conf \in Configurations
  /\ egress \in {"token", "dial", "hello", "serverhello", "ack", "relay", "refused", "failed", "closed"}
  /\ ingress \in {"none", "hello", "frame", "authorize", "dial", "relay", "refused", "failed", "closed"}
  /\ {cert, tok, presented, claim} \subseteq Certs /\ accepted \in BOOLEAN
  /\ armed \in [Sidecars -> {"none", "handshake", "auth"}]
  /\ troubled \in BOOLEAN
  /\ \A d \in Dirs : /\ copier[<<"egress", d>>].at # "off" <=> egress \in {"relay", "closed"}
                     /\ copier[<<"ingress", d>>].at # "off" <=> ingress \in {"relay", "closed"}

\* A's connection was accepted by acceptLoop; nothing else exists yet.
Init ==
  /\ line = [l \in Lines |-> Fresh]
  /\ copier = [g \in Goroutines |-> Off]
  /\ app = [d \in Dirs |-> NewApp(IF d = "fwd" THEN "open" ELSE "absent")]
  /\ conf \in Configurations
  /\ egress = "token" /\ ingress = "none"
  /\ cert = 1 /\ tok = 0 /\ presented = 0 /\ claim = 0 /\ accepted = FALSE
  /\ armed = [s \in Sidecars |-> "none"]
  /\ troubled = FALSE

-----------------------------------------------------------------------------
(* forward *)

\* An error return closes what was dialed, and the application's connection.
EgressGivesUp(as) ==
  /\ egress' = as
  /\ \E t \in IF egress \in {"token", "dial"} THEN {line["t"]} ELSE CloseEnd(line["t"], "fwd"),
        a \in CloseEnd(line["a"], "bwd") :
       line' = [line EXCEPT !["t"] = t, !["a"] = a]
  /\ UNCHANGED <<copier, app, conf, tok, ingressVars, cert, armed>>

\* buildAuthFrame: a token bound to the certificate in force (see TokenBinding).
BuildAuthFrame ==
  /\ egress = "token" /\ egress' = "dial"
  /\ tok' = IF conf.binding = "x5t" THEN cert ELSE 0
  /\ UNCHANGED <<relayVars, conf, ingressVars, cert, armed, troubled>>

\* The peer's accept starts with Server, which arms its deadline.
Dial ==
  /\ egress = "dial" /\ egress' = "hello" /\ ingress' = "hello"
  /\ armed' = [armed EXCEPT !["ingress"] = "handshake"]
  /\ UNCHANGED <<relayVars, conf, tok, presented, claim, accepted, cert, troubled>>

\* Client, up to the read of the server hello: Credential is read here.
ClientHello ==
  /\ egress = "hello" /\ egress' = "serverhello"
  /\ armed' = [armed EXCEPT !["egress"] = "handshake"]
  /\ \E t \in Put(line["t"], "fwd", [k |-> "hello", v |-> cert]) : line' = [line EXCEPT !["t"] = t]
  /\ UNCHANGED <<copier, app, conf, tok, ingressVars, cert, troubled>>

\* A message of the peer is there to be read by forward.
EgressHears(k) == Readable(line["t"], "bwd") /\ Head(line["t"].bwd).k = k

\* Mutants: relay starts with the frame; forward sets no deadline for the exchange.
SendAuthFrameAndRelay ==
  /\ egress = "serverhello" /\ EgressHears("hello") /\ conf.named
  /\ egress' = "ack"
  /\ armed' = [armed EXCEPT !["egress"] = "auth"]
  /\ \E t \in Put(Take(line["t"], "bwd"), "fwd", [k |-> "auth", v |-> tok]) :
       line' = [line EXCEPT !["t"] = t]
  /\ StartRelay("egress")
  /\ UNCHANGED <<app, conf, tok, ingressVars, cert, troubled>>
SendAuthFrameUnarmed ==
  /\ egress = "serverhello" /\ EgressHears("hello") /\ conf.named
  /\ egress' = "ack"
  /\ armed' = [armed EXCEPT !["egress"] = "none"]
  /\ \E t \in Put(Take(line["t"], "bwd"), "fwd", [k |-> "auth", v |-> tok]) :
       line' = [line EXCEPT !["t"] = t]
  /\ UNCHANGED <<copier, app, conf, tok, ingressVars, cert, troubled>>

\* Client authenticates the peer under PeerName and newConn clears the deadline;
\* forward sets its own and sends the frame.
SendAuthFrame ==
  /\ egress = "serverhello" /\ EgressHears("hello") /\ conf.named
  /\ egress' = "ack"
  /\ armed' = [armed EXCEPT !["egress"] = "auth"]
  /\ \E t \in Put(Take(line["t"], "bwd"), "fwd", [k |-> "auth", v |-> tok]) :
       line' = [line EXCEPT !["t"] = t]
  /\ UNCHANGED <<copier, app, conf, tok, ingressVars, cert, troubled>>

\* The acknowledgement: the deadline is cleared and relay runs.
ReadAck ==
  /\ egress = "ack" /\ EgressHears("ok")
  /\ egress' = "relay"
  /\ armed' = [armed EXCEPT !["egress"] = "none"]
  /\ line' = [line EXCEPT !["t"] = Take(@, "bwd")]
  /\ StartRelay("egress")
  /\ UNCHANGED <<app, conf, tok, ingressVars, cert, troubled>>

\* The peer refuses, or is not the one the route names.
EgressRefused ==
  /\ \/ egress = "serverhello" /\ EgressHears("hello") /\ ~conf.named
     \/ egress = "ack" /\ EgressHears("no")
  /\ EgressGivesUp("refused")
  /\ UNCHANGED troubled

\* The tunnel ends or breaks before the acknowledgement.
EgressCut ==
  /\ egress \in {"serverhello", "ack"}
  /\ AtEnd(line["t"], "bwd") \/ Failed(line["t"], "bwd")
  /\ EgressGivesUp("failed")
  /\ UNCHANGED troubled

\* TokenTimeout, DialTimeout, HandshakeTimeout or AuthTimeout; or Keycloak or the
\* peer cannot be reached.  TokenTimeout bounds the calls to Keycloak and the shim, not
\* the wait for base.mu, which ends because whoever holds it returns (DoReturns of
\* TokenBinding): that a token request ends is all that is used here.
EgressExpires ==
  /\ egress \in {"token", "dial"} \/ (egress \in {"serverhello", "ack"} /\ armed["egress"] # "none")
  /\ EgressGivesUp("failed")
  /\ troubled' = TRUE

\* relay returned; the deferred calls close both connections.
EgressReturns ==
  /\ egress = "relay" /\ RelayDone("egress")
  /\ EgressGivesUp("closed")
  /\ UNCHANGED troubled

-----------------------------------------------------------------------------
(* accept *)

\* A return closes the tunnel's connection; accept's own Close ends app.
IngressGivesUp(as, t) ==
  /\ ingress' = as
  /\ \E u \in CloseEnd(t, "bwd"),
        b \in IF ingress = "relay" THEN CloseEnd(line["b"], "fwd") ELSE {line["b"]} :
       line' = [line EXCEPT !["t"] = u, !["b"] = b]
  /\ UNCHANGED <<copier, app, conf, egressVars, presented, claim, accepted, cert, armed>>

IngressHears(k) == Readable(line["t"], "fwd") /\ Head(line["t"].fwd).k = k

\* Server: the client hello authenticates the peer, the answer is sent, newConn
\* clears the deadline and accept sets its own.
ServerHello ==
  /\ ingress = "hello" /\ IngressHears("hello")
  /\ ingress' = "frame"
  /\ presented' = Head(line["t"].fwd).v
  /\ armed' = [armed EXCEPT !["ingress"] = "auth"]
  /\ \E t \in Put(Take(line["t"], "fwd"), "bwd", Msg("hello")) : line' = [line EXCEPT !["t"] = t]
  /\ UNCHANGED <<copier, app, conf, egressVars, claim, accepted, cert, troubled>>

\* The client hello does not parse, or its chain or signature does not verify; or this
\* sidecar has no certificate yet.
HelloRefused ==
  /\ ingress = "hello" /\ IngressHears("hello")
  /\ IngressGivesUp("failed", line["t"])
  /\ troubled' = TRUE

\* refuse: the reason is sent and the connection closed.
Refuse(t) == \E u \in Put(t, "bwd", Msg("no")) : IngressGivesUp("refused", u)

\* Mutant: the frame stays on the stream.
ReadAuthFrameAhead ==
  /\ ingress = "frame" /\ IngressHears("auth") /\ conf.served /\ conf.targeted
  /\ ingress' = "authorize"
  /\ claim' = Head(line["t"].fwd).v
  /\ UNCHANGED <<relayVars, conf, egressVars, presented, accepted, cert, armed, troubled>>

\* The frame names a route that is served here, under this sidecar's authority.
ReadAuthFrame ==
  /\ ingress = "frame" /\ IngressHears("auth") /\ conf.served /\ conf.targeted
  /\ ingress' = "authorize"
  /\ claim' = Head(line["t"].fwd).v
  /\ line' = [line EXCEPT !["t"] = Take(@, "fwd")]
  /\ UNCHANGED <<copier, app, conf, egressVars, presented, accepted, cert, armed, troubled>>

RefuseFrame ==
  /\ ingress = "frame" /\ Readable(line["t"], "fwd")
  /\ ~(IngressHears("auth") /\ conf.served /\ conf.targeted)
  /\ Refuse(Take(line["t"], "fwd"))
  /\ UNCHANGED troubled

\* Mutants: the token's binding is not compared with the peer of the tunnel; it is
\* compared with the certificate the peer has by now.
BindsAny == TRUE
BindsCurrent == conf.binding = "jkt" \/ claim = cert

\* AuthorizeChannel: cnf against the tunnel's certificate, or the proof of the key.
Binds == conf.binding = "jkt" \/ claim = presented

\* Mutant: the deadline of the exchange stays on the connection.
AcceptArmed ==
  /\ ingress = "authorize" /\ Binds /\ line["t"].up
  /\ ingress' = "dial" /\ accepted' = TRUE
  /\ \E t \in Put(line["t"], "bwd", Msg("ok")) : line' = [line EXCEPT !["t"] = t]
  /\ UNCHANGED <<copier, app, conf, egressVars, presented, claim, cert, armed, troubled>>

\* The token is accepted: the acknowledgement is sent and the deadline cleared.
Accept ==
  /\ ingress = "authorize" /\ Binds /\ line["t"].up
  /\ ingress' = "dial" /\ accepted' = TRUE
  /\ armed' = [armed EXCEPT !["ingress"] = "none"]
  /\ \E t \in Put(line["t"], "bwd", Msg("ok")) : line' = [line EXCEPT !["t"] = t]
  /\ UNCHANGED <<copier, app, conf, egressVars, presented, claim, cert, troubled>>

Reject ==
  /\ ingress = "authorize" /\ ~Binds
  /\ Refuse(line["t"])
  /\ UNCHANGED troubled

\* Other reasons: an expired token or certificate, a JWKS that cannot be fetched, or a
\* token that names another client than the certificate (peer_identity_mismatch),
\* which an egress that asks for its own tokens does not send.  Possible at any time.
RejectOther ==
  /\ ingress = "authorize"
  /\ Refuse(line["t"])
  /\ troubled' = TRUE

\* The application is dialed only now, and relay runs.
DialApp ==
  /\ ingress = "dial" /\ ingress' = "relay"
  /\ app' = [app EXCEPT !["bwd"] = NewApp("open")]
  /\ StartRelay("ingress")
  /\ UNCHANGED <<line, conf, egressVars, presented, claim, accepted, cert, armed, troubled>>

\* The application cannot be reached, though the peer was told "ok".
AppUnreachable ==
  /\ ingress = "dial"
  /\ IngressGivesUp("failed", line["t"])
  /\ troubled' = TRUE

\* The tunnel ends or breaks under ReadMessage or the reply.
IngressCut ==
  /\ \/ ingress \in {"hello", "frame"} /\ (AtEnd(line["t"], "fwd") \/ Failed(line["t"], "fwd"))
     \/ ingress = "authorize" /\ ~line["t"].up
  /\ IngressGivesUp("failed", line["t"])
  /\ UNCHANGED troubled

\* HandshakeTimeout or AuthTimeout.
IngressExpires ==
  /\ ingress \in {"hello", "frame", "authorize"} /\ armed["ingress"] # "none"
  /\ IngressGivesUp("failed", line["t"])
  /\ troubled' = TRUE

IngressReturns ==
  /\ ingress = "relay" /\ RelayDone("ingress")
  /\ IngressGivesUp("closed", line["t"])
  /\ UNCHANGED troubled

-----------------------------------------------------------------------------
(* Around them *)

\* Maintain renews the certificate (and drops the cached token).
Renew ==
  /\ cert <= MaxRenewals /\ cert' = cert + 1
  /\ UNCHANGED <<relayVars, conf, egressVars, ingressVars, armed, troubled>>

\* The network between the sidecars is lost, or the other host: nothing arrives.
NetworkLost ==
  /\ ingress # "none" /\ line["t"].up /\ ~line["t"].cut /\ line["t"].closed = {}
  /\ line' = [line EXCEPT !["t"].cut = TRUE]
  /\ troubled' = TRUE
  /\ UNCHANGED <<copier, app, conf, egressVars, ingressVars, cert, armed>>

\* Keep-alive probes, or whoever lost it, end the connection.
TunnelBreaks ==
  /\ line["t"].cut
  /\ \E t \in Resets(line["t"]) : line' = [line EXCEPT !["t"] = t]
  /\ UNCHANGED <<copier, app, conf, egressVars, ingressVars, cert, armed, troubled>>

AppLeaves(d) ==
  /\ AppGone(d)
  /\ troubled' = TRUE
  /\ UNCHANGED <<conf, egressVars, ingressVars, cert, armed>>

-----------------------------------------------------------------------------

Forward ==
  \/ BuildAuthFrame \/ Dial \/ ClientHello \/ SendAuthFrame \/ ReadAck
  \/ EgressRefused \/ EgressCut \/ EgressReturns
AcceptSteps ==
  \/ ServerHello \/ HelloRefused \/ ReadAuthFrame \/ RefuseFrame \/ Accept \/ Reject \/ RejectOther
  \/ DialApp \/ AppUnreachable \/ IngressCut \/ IngressReturns

Copying(s, d) ==
  Copy(s, d, armed[s] # "none") /\ UNCHANGED <<conf, egressVars, ingressVars, cert, armed, troubled>>
Using(d) == AppSteps(d) /\ UNCHANGED <<conf, egressVars, ingressVars, cert, armed, troubled>>
Reads(d) == AppRead(d) /\ UNCHANGED <<conf, egressVars, ingressVars, cert, armed, troubled>>

Next ==
  \/ Forward \/ EgressExpires \/ AcceptSteps \/ IngressExpires
  \/ \E s \in Sidecars, d \in Dirs : Copying(s, d)
  \/ \E d \in Dirs : Using(d) \/ AppLeaves(d)
  \/ Renew \/ NetworkLost \/ TunnelBreaks

\* Goroutines run, and a deadline that is set passes.  Nothing makes the peer, the
\* network or an application act, but for their reading of what has arrived.
Fairness ==
  /\ WF_vars(EgressExpires) /\ WF_vars(IngressExpires)
  /\ WF_vars(Forward) /\ WF_vars(AcceptSteps)
  /\ \A s \in Sidecars, d \in Dirs : WF_vars(Copying(s, d))
  /\ \A d \in Dirs : WF_vars(Reads(d))

Spec == Init /\ [][Next]_vars /\ Fairness

-----------------------------------------------------------------------------
(***************************************************************************)
(* Properties                                                              *)
(***************************************************************************)

\* No byte of A is on the tunnel and B is not even dialed before the ingress has
\* accepted a token, and that token is bound to the very certificate that opened
\* the tunnel, whenever renewals came (auth.go: "Nothing else flows until the peer
\* has accepted it").
NothingBeforeAccepted ==
  \/ app["bwd"].at # "absent"
  \/ egress \in {"relay", "closed"}
  \/ \E i \in 1..Len(line["t"].fwd) : line["t"].fwd[i].k = "byte"
  => /\ accepted /\ conf.served /\ conf.targeted /\ conf.named
     /\ conf.binding = "x5t" => tok = presented

\* The messages of the set-up never reach an application, and no application byte is
\* on the stream of a handler whose peer still owes it a message: when the ingress
\* waits for the hello or the frame, and the egress for the hello.  The bytes that
\* follow the acknowledgement may arrive with it and stay behind it.
MessagesStayInTunnel ==
  /\ \A l \in {"a", "b"}, d \in Dirs : \A i \in 1..Len(line[l][d]) : line[l][d][i].k \in {"byte", "end"}
  /\ ingress \in {"hello", "frame"} => \A i \in 1..Len(line["t"].fwd) : line["t"].fwd[i].k # "byte"
  /\ egress = "serverhello" => \A i \in 1..Len(line["t"].bwd) : line["t"].bwd[i].k # "byte"

\* A sidecar is refused only for its configuration or for a renewal that came
\* between its token and its handshake.
RefusedOnlyIfRenewed ==
  egress = "refused" =>
    \/ ~(conf.named /\ conf.served /\ conf.targeted)
    \/ conf.binding = "x5t" /\ tok # presented
    \/ troubled

\* If nothing outside the sidecars went wrong, an application that reads an orderly
\* end has read everything the other one wrote.
EndMeansAll ==
  ~troubled => \A d \in Dirs : app[d].saw = "end" /\ accepted => app[d].got = app[Opp(d)].sent

\* An attempt does not hang in the set-up, whatever the peer or the network does.
SetupEnds ==
  /\ egress = "token" ~> egress \in {"relay", "refused", "failed"}
  /\ ingress = "hello" ~> ingress \in {"relay", "refused", "failed"}

\* An application that has written everything and half-closed is heard to the end by
\* the other one, which may write on.
HalfCloseIsHeard ==
  \A d \in Dirs : app[d].at = "shut" /\ egress = "relay" /\ ingress = "relay" ~>
    troubled \/ (app[Opp(d)].saw = "end" /\ app[Opp(d)].got = app[d].sent)

\* When neither application will write any more, because it has half-closed or gone,
\* both relays return and the sidecars close all connections, unless the network is
\* lost and nothing tells them.
RelaysReturn ==
  (\A d \in Dirs : app[d].at \in {"shut", "closed"}) ~>
    \/ egress \in {"refused", "failed", "closed"} /\ ingress \in {"refused", "failed", "closed"}
    \/ line["t"].cut

=============================================================================
