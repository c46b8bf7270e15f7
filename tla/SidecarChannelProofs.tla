------------------------ MODULE SidecarChannelProofs ------------------------
(***************************************************************************)
(* A connection through the sidecars, for any number of renewals and any   *)
(* amount of application data, in five parts.                              *)
(*                                                                         *)
(* Authorization: only what may be found on a direction matters, in which  *)
(* order does not.  Content is the set of messages on it.  An              *)
(* acknowledgement on the tunnel says that the ingress accepted, a frame   *)
(* on it that it is the egress sidecar's own token, a byte on it that the  *)
(* relay runs (IInv).                                                      *)
(*                                                                         *)
(* Order: a message of the set-up is the first on its direction and an end *)
(* the last, and which message may be under way follows from where the two *)
(* handlers are (Order, over IInv).                                        *)
(*                                                                         *)
(* Flow: while nothing outside the sidecars went wrong, what an            *)
(* application wrote is what the other one has read and what is on the way *)
(* to it, and the end follows the last byte from place to place (Flow,     *)
(* over both).                                                             *)
(*                                                                         *)
(* Deadlines and closed connections: what the handlers have armed while    *)
(* they wait, and what they leave behind when they return.                 *)
(*                                                                         *)
(* Accounts: when anything does go wrong, bytes may be lost and none is    *)
(* ever read twice (Accounts, over IInv and Order).                        *)
(***************************************************************************)
EXTENDS SidecarChannel, SequenceTheorems, FiniteSetTheorems, TLAPS

\* The connections that TypeOK admits.
Connection == [fwd : Seq(Message), bwd : Seq(Message), up : BOOLEAN, cut : BOOLEAN,
               closed : SUBSET Dirs]

Content(q) == {q[i] : i \in 1..Len(q)}

LEMMA MessageTypes ==
  /\ Msg("end") \in Message /\ Msg("byte") \in Message /\ Msg("hello") \in Message
  /\ Msg("ok") \in Message /\ Msg("no") \in Message
  /\ Msg("end").k = "end" /\ Msg("byte").k = "byte" /\ Msg("hello").k = "hello"
  /\ Msg("ok").k = "ok" /\ Msg("no").k = "no" /\ Msg("hello").v = 0
BY DEF Msg, Message

-----------------------------------------------------------------------------
(* Sequences *)

LEMMA EmptyContent == <<>> \in Seq(Message) /\ Content(<<>>) = {}
BY EmptySeq DEF Content

LEMMA AppendContent ==
  ASSUME NEW q \in Seq(Message), NEW m \in Message
  PROVE  Append(q, m) \in Seq(Message) /\ Content(Append(q, m)) \subseteq Content(q) \cup {m}
<1> DEFINE t == Append(q, m)
<1>1. /\ t \in Seq(Message) /\ Len(t) = Len(q) + 1 /\ Len(q) \in Nat /\ t[Len(q) + 1] = m
      /\ \A i \in 1..Len(q) : t[i] = q[i]
  BY AppendProperties, LenProperties
<1> HIDE DEF t
<1>2. \A i \in 1..Len(t) : i \in 1..Len(q) \/ i = Len(q) + 1
  BY <1>1
<1> QED BY <1>1, <1>2 DEF Content, t

LEMMA TailContent ==
  ASSUME NEW q \in Seq(Message), q # <<>>
  PROVE  /\ Tail(q) \in Seq(Message) /\ Content(Tail(q)) \subseteq Content(q)
         /\ Head(q) \in Content(q) /\ Head(q) \in Message
<1> DEFINE t == Tail(q)
<1>1. /\ t \in Seq(Message) /\ Len(t) = Len(q) - 1 /\ Len(q) \in Nat \ {0}
      /\ \A i \in 1..Len(t) : t[i] = q[i + 1]
      /\ Head(q) = q[1] /\ Head(q) \in Message
  BY HeadTailProperties, EmptySeq
<1> HIDE DEF t
<1>2. \A i \in 1..Len(t) : i + 1 \in 1..Len(q)
  BY <1>1
<1> QED BY <1>1, <1>2 DEF Content, t

LEMMA PrefixContent ==
  ASSUME NEW q \in Seq(Message), NEW p \in Prefixes(q)
  PROVE  p \in Seq(Message) /\ Content(p) \subseteq Content(q)
<1>1. PICK l \in 0..Len(q) : p = SubSeq(q, 1, l)
  BY DEF Prefixes
<1>2. Len(q) \in Nat /\ \A i \in 1..l : q[i] \in Message
  BY ElementOfSeq, LenProperties
<1>3. p \in Seq(Message) /\ Len(p) = l /\ \A i \in 1..l : p[i] = q[i]
  BY <1>1, <1>2, SubSeqProperties
<1>4. \A i \in 1..l : i \in 1..Len(q)
  BY <1>2
<1> QED BY <1>3, <1>4 DEF Content

-----------------------------------------------------------------------------
(* TCP *)

\* m2 is n with at most F added to its forward and B to its backward direction.
From(m2, n, F, B) ==
  /\ m2 \in Connection
  /\ Content(m2.fwd) \subseteq Content(n.fwd) \cup F
  /\ Content(m2.bwd) \subseteq Content(n.bwd) \cup B

\* What the d end adds by sending m.
Fwd(d, m) == IF d = "fwd" THEN {m} ELSE {}
Bwd(d, m) == IF d = "bwd" THEN {m} ELSE {}

LEMMA FreshConnection == Fresh \in Connection /\ Content(Fresh.fwd) = {} /\ Content(Fresh.bwd) = {}
BY EmptyContent DEF Fresh, Connection

LEMMA ResetsFrom ==
  ASSUME NEW n \in Connection, NEW m2 \in Resets(n)
  PROVE  From(m2, n, {}, {})
<1>1. PICK f \in Kept(n.fwd, "bwd" \in n.closed), b \in Kept(n.bwd, "fwd" \in n.closed) :
        m2 = Broken(n, f, b)
  BY DEF Resets
<1>0. f \in Prefixes(n.fwd) \cup {<<>>} /\ b \in Prefixes(n.bwd) \cup {<<>>}
  BY DEF Kept
<1>2. n.fwd \in Seq(Message) /\ n.bwd \in Seq(Message)
  BY DEF Connection
<1>3. /\ f \in Seq(Message) /\ Content(f) \subseteq Content(n.fwd)
      /\ b \in Seq(Message) /\ Content(b) \subseteq Content(n.bwd)
  BY <1>0, <1>2, PrefixContent, EmptyContent
<1>4. m2 \in Connection /\ m2.fwd = f /\ m2.bwd = b
  BY <1>1, <1>3 DEF Broken, Connection
<1> QED BY <1>3, <1>4 DEF From

LEMMA PutFrom ==
  ASSUME NEW n \in Connection, NEW d \in Dirs, NEW m \in Message, NEW m2 \in Put(n, d, m)
  PROVE  From(m2, n, Fwd(d, m), Bwd(d, m))
<1>1. CASE m2 = n
  BY <1>1 DEF From
<1>2. CASE m2 \in Resets(n)
  BY <1>2, ResetsFrom DEF From
<1>3. CASE m2 = [n EXCEPT ![d] = Append(@, m)]
  <2>1. n.fwd \in Seq(Message) /\ n.bwd \in Seq(Message)
    BY DEF Connection
  <2>2. CASE d = "fwd"
    <3> DEFINE q == Append(n.fwd, m)
    <3>1. q \in Seq(Message) /\ Content(q) \subseteq Content(n.fwd) \cup {m}
      BY <2>1, AppendContent
    <3>2. m2 = [n EXCEPT !.fwd = q]
      BY <1>3, <2>2
    <3> HIDE DEF q
    <3>3. m2 \in Connection /\ m2.fwd = q /\ m2.bwd = n.bwd
      BY <3>1, <3>2 DEF Connection
    <3> QED BY <2>2, <3>1, <3>3 DEF From, Fwd, Bwd
  <2>3. CASE d = "bwd"
    <3> DEFINE q == Append(n.bwd, m)
    <3>1. q \in Seq(Message) /\ Content(q) \subseteq Content(n.bwd) \cup {m}
      BY <2>1, AppendContent
    <3>2. m2 = [n EXCEPT !.bwd = q]
      BY <1>3, <2>3
    <3> HIDE DEF q
    <3>3. m2 \in Connection /\ m2.bwd = q /\ m2.fwd = n.fwd
      BY <3>1, <3>2 DEF Connection
    <3> QED BY <2>3, <3>1, <3>3 DEF From, Fwd, Bwd
  <2> QED BY <2>2, <2>3 DEF Dirs
<1> QED BY <1>1, <1>2, <1>3 DEF Put

LEMMA TakeFrom ==
  ASSUME NEW n \in Connection, NEW d \in Dirs, Readable(n, d)
  PROVE  /\ From(Take(n, d), n, {}, {})
         /\ Head(n[d]) \in Content(n[d]) /\ Head(n[d]) \in Message
<1>1. n.fwd \in Seq(Message) /\ n.bwd \in Seq(Message) /\ n[d] # <<>>
  BY DEF Connection, Readable
<1>2. CASE d = "fwd"
  <2>1. /\ Tail(n.fwd) \in Seq(Message) /\ Content(Tail(n.fwd)) \subseteq Content(n.fwd)
        /\ Head(n.fwd) \in Content(n.fwd) /\ Head(n.fwd) \in Message
    BY <1>1, <1>2, TailContent
  <2>2. Take(n, d) = [n EXCEPT !.fwd = Tail(n.fwd)]
    BY <1>2 DEF Take
  <2>3. Take(n, d) \in Connection /\ Take(n, d).fwd = Tail(n.fwd) /\ Take(n, d).bwd = n.bwd
    BY <2>1, <2>2 DEF Connection
  <2> QED BY <1>2, <2>1, <2>3 DEF From
<1>3. CASE d = "bwd"
  <2>1. /\ Tail(n.bwd) \in Seq(Message) /\ Content(Tail(n.bwd)) \subseteq Content(n.bwd)
        /\ Head(n.bwd) \in Content(n.bwd) /\ Head(n.bwd) \in Message
    BY <1>1, <1>3, TailContent
  <2>2. Take(n, d) = [n EXCEPT !.bwd = Tail(n.bwd)]
    BY <1>3 DEF Take
  <2>3. Take(n, d) \in Connection /\ Take(n, d).bwd = Tail(n.bwd) /\ Take(n, d).fwd = n.fwd
    BY <2>1, <2>2 DEF Connection
  <2> QED BY <1>3, <2>1, <2>3 DEF From
<1> QED BY <1>2, <1>3 DEF Dirs

LEMMA CloseFrom ==
  ASSUME NEW n \in Connection, NEW d \in Dirs, NEW m2 \in CloseEnd(n, d)
  PROVE  From(m2, n, Fwd(d, Msg("end")), Bwd(d, Msg("end")))
<1> DEFINE gone == [n EXCEPT !.closed = @ \cup {d}, ![Opp(d)] = <<>>]
<1>1. From(gone, n, {}, {})
  <2>1. n.closed \cup {d} \in SUBSET Dirs
    BY DEF Connection
  <2>2. CASE d = "fwd"
    <3>1. gone = [n EXCEPT !.closed = n.closed \cup {d}, !.bwd = <<>>]
      BY <2>2 DEF Opp
    <3>2. gone \in Connection /\ gone.bwd = <<>> /\ gone.fwd = n.fwd
      BY <2>1, <3>1, EmptyContent DEF Connection
    <3> QED BY <3>2, EmptyContent DEF From
  <2>3. CASE d = "bwd"
    <3>1. gone = [n EXCEPT !.closed = n.closed \cup {d}, !.fwd = <<>>]
      BY <2>3 DEF Opp
    <3>2. gone \in Connection /\ gone.fwd = <<>> /\ gone.bwd = n.bwd
      BY <2>1, <3>1, EmptyContent DEF Connection
    <3> QED BY <3>2, EmptyContent DEF From
  <2> QED BY <2>2, <2>3 DEF Dirs
<1>2. m2 \in Resets(gone) \/ m2 \in Put(gone, d, Msg("end"))
  BY DEF CloseEnd
<1> HIDE DEF gone
<1>3. gone \in Connection
  BY <1>1 DEF From
<1>4. From(m2, gone, Fwd(d, Msg("end")), Bwd(d, Msg("end")))
  <2>1. CASE m2 \in Resets(gone)
    BY <1>3, <2>1, ResetsFrom DEF From
  <2>2. CASE m2 \in Put(gone, d, Msg("end"))
    BY <1>3, <2>2, PutFrom, MessageTypes
  <2> QED BY <1>2, <2>1, <2>2
<1> QED BY <1>1, <1>4 DEF From

-----------------------------------------------------------------------------
(* What a step adds to the connections *)

\* Nothing but m0, on direction d0, and ends of a direction are new in m2.
Adds(m2, n, d0, m0) ==
  /\ m2 \in Connection
  /\ \A m \in Content(m2.fwd) : m \in Content(n.fwd) \/ m = Msg("end") \/ (d0 = "fwd" /\ m = m0)
  /\ \A m \in Content(m2.bwd) : m \in Content(n.bwd) \/ m = Msg("end") \/ (d0 = "bwd" /\ m = m0)
Silent(m2, n) == Adds(m2, n, "fwd", Msg("end"))

LEMMA SilentSame ==
  ASSUME NEW n \in Connection
  PROVE  Silent(n, n)
BY DEF Silent, Adds

LEMMA SilentAdds ==
  ASSUME NEW n, NEW m2, NEW m3, NEW d0, NEW m0, Silent(m2, n)
  PROVE  /\ Adds(m3, m2, d0, m0) => Adds(m3, n, d0, m0)
         /\ Silent(m3, m2) => Silent(m3, n)
BY DEF Silent, Adds

LEMMA AddsSilent ==
  ASSUME NEW n, NEW m2, NEW m3, NEW d0, NEW m0, Adds(m2, n, d0, m0), Silent(m3, m2)
  PROVE  Adds(m3, n, d0, m0)
BY DEF Silent, Adds

LEMMA PutAdds ==
  ASSUME NEW n \in Connection, NEW d \in Dirs, NEW m \in Message, NEW m2 \in Put(n, d, m)
  PROVE  Adds(m2, n, d, m)
BY PutFrom DEF From, Fwd, Bwd, Adds

LEMMA ResetsSilent ==
  ASSUME NEW n \in Connection, NEW m2 \in Resets(n)
  PROVE  Silent(m2, n)
BY ResetsFrom DEF From, Silent, Adds

LEMMA TakeSilent ==
  ASSUME NEW n \in Connection, NEW d \in Dirs, Readable(n, d)
  PROVE  Silent(Take(n, d), n)
BY TakeFrom DEF From, Silent, Adds

LEMMA CloseSilent ==
  ASSUME NEW n \in Connection, NEW d \in Dirs, NEW m2 \in CloseEnd(n, d)
  PROVE  Silent(m2, n)
BY CloseFrom DEF From, Fwd, Bwd, Silent, Adds

LEMMA EndSilent ==
  ASSUME NEW n \in Connection, NEW d \in Dirs, NEW m2 \in Put(n, d, Msg("end"))
  PROVE  Silent(m2, n)
BY PutFrom, MessageTypes DEF From, Fwd, Bwd, Silent, Adds

\* The same of all three: only connection l0 may have something new.
Says(y, x, l0, d0, m0) ==
  /\ y \in [Lines -> Connection]
  /\ \A l \in Lines : IF l = l0 THEN Adds(y[l], x[l], d0, m0) ELSE Silent(y[l], x[l])
Quiet(y, x) == y \in [Lines -> Connection] /\ \A l \in Lines : Silent(y[l], x[l])

LEMMA OneSays ==
  ASSUME NEW x \in [Lines -> Connection], NEW l0 \in Lines, NEW n, NEW d0, NEW m0, NEW y,
         y = [x EXCEPT ![l0] = n]
  PROVE  /\ Adds(n, x[l0], d0, m0) => Says(y, x, l0, d0, m0)
         /\ Silent(n, x[l0]) => Quiet(y, x)
<1>1. \A l \in Lines : l # l0 => y[l] = x[l] /\ Silent(y[l], x[l])
  BY SilentSame
<1>2. y[l0] = n /\ (n \in Connection => y \in [Lines -> Connection])
  OBVIOUS
<1> QED BY <1>1, <1>2 DEF Says, Quiet, Adds, Silent

LEMMA TwoSay ==
  ASSUME NEW x \in [Lines -> Connection], NEW t, NEW l \in {"a", "b"}, NEW n, NEW m0, NEW y,
         NEW d0, y = [x EXCEPT !["t"] = t, ![l] = n], Silent(n, x[l])
  PROVE  /\ Adds(t, x["t"], d0, m0) => Says(y, x, "t", d0, m0)
         /\ Silent(t, x["t"]) => Quiet(y, x)
<1> DEFINE z == [x EXCEPT !["t"] = t]
<1>1. y = [z EXCEPT ![l] = n]
  OBVIOUS
<1>2. t \in Connection => z \in [Lines -> Connection] /\ z["t"] = t
  BY DEF Lines
<1>3. \A k \in Lines : k # "t" => z[k] = x[k]
  OBVIOUS
<1> HIDE DEF z
<1>4. n \in Connection
  BY DEF Silent, Adds
<1>5. ASSUME t \in Connection
      PROVE  /\ y \in [Lines -> Connection] /\ y["t"] = t /\ y[l] = n
             /\ \A k \in Lines : k # "t" /\ k # l => y[k] = x[k]
  BY <1>1, <1>2, <1>3, <1>4, <1>5 DEF Lines
<1>6. \A k \in Lines : k # "t" /\ k # l => Silent(x[k], x[k])
  BY SilentSame
<1>7. (Adds(t, x["t"], d0, m0) => t \in Connection) /\ (Silent(t, x["t"]) => t \in Connection)
  BY DEF Silent, Adds
<1> QED BY <1>5, <1>6, <1>7 DEF Says, Quiet

LEMMA SameQuiet ==
  ASSUME NEW x \in [Lines -> Connection]
  PROVE  Quiet(x, x)
BY SilentSame DEF Quiet

-----------------------------------------------------------------------------
(* The invariant *)

Early == {"token", "dial", "hello", "serverhello"}

\* What the applications and their goroutines put on a connection is data.
DataOnly ==
  /\ \A m \in Content(line["a"].fwd) : m.k \in {"byte", "end"}
  /\ \A m \in Content(line["b"].bwd) : m.k \in {"byte", "end"}
  /\ copier[<<"egress", "fwd">>].m.k \in {"byte", "end"}
  /\ copier[<<"ingress", "bwd">>].m.k \in {"byte", "end"}

\* What may be said on the tunnel, and when.
FwdSays(m) ==
  /\ m.k \in {"hello", "auth"} => m.v \in Certs
  /\ m.k = "auth" => m.v = tok /\ conf.named /\ egress \notin Early
  /\ m.k = "byte" => egress \in {"relay", "closed"}
BwdSays(m) == m.k = "ok" => accepted

TunnelSays ==
  /\ \A m \in Content(line["t"].fwd) : FwdSays(m)
  /\ \A m \in Content(line["t"].bwd) : BwdSays(m)

\* What the two handlers know of each other at each point.
EgressKnows ==
  /\ egress \in {"relay", "closed"} => accepted
  /\ egress \in {"ack", "relay", "closed"} => conf.named
IngressKnows ==
  /\ ingress = "authorize" \/ accepted =>
       conf.served /\ conf.targeted /\ conf.named /\ claim = tok /\ egress \notin Early
  /\ accepted => /\ conf.binding = "x5t" => claim = presented
                 /\ ingress \notin {"none", "hello", "frame", "authorize"}
  /\ ingress \in {"dial", "relay", "closed"} => accepted
  /\ app["bwd"].at # "absent" => ingress \in {"relay", "closed"}

IInv == TypeOK /\ DataOnly /\ TunnelSays /\ EgressKnows /\ IngressKnows

LEMMA LineTypes ==
  ASSUME TypeOK
  PROVE  /\ line \in [Lines -> Connection]
         /\ line["a"] \in Connection /\ line["t"] \in Connection /\ line["b"] \in Connection
         /\ "a" \in Lines /\ "t" \in Lines /\ "b" \in Lines
BY DEF TypeOK, Connection, Lines

\* What is said stays true when handlers only advance, and m0 may be said on l0.
LEMMA StillSaid ==
  ASSUME IInv, NEW l0 \in Lines, NEW d0 \in Dirs, NEW m0, Says(line', line, l0, d0, m0),
         conf' = conf, tok' = tok,
         egress \notin Early => egress' \notin Early,
         egress \in {"relay", "closed"} => egress' \in {"relay", "closed"},
         accepted => accepted',
         (l0 = "a" /\ d0 = "fwd") \/ (l0 = "b" /\ d0 = "bwd") => m0.k \in {"byte", "end"},
         l0 = "t" /\ d0 = "fwd" =>
           /\ m0.k \in {"hello", "auth"} => m0.v \in Certs
           /\ m0.k = "auth" => m0.v = tok /\ conf.named /\ egress' \notin Early
           /\ m0.k = "byte" => egress' \in {"relay", "closed"},
         l0 = "t" /\ d0 = "bwd" => (m0.k = "ok" => accepted')
  PROVE  /\ TunnelSays'
         /\ \A m \in Content(line'["a"].fwd) : m.k \in {"byte", "end"}
         /\ \A m \in Content(line'["b"].bwd) : m.k \in {"byte", "end"}
<1>1. "a" \in Lines /\ "t" \in Lines /\ "b" \in Lines
  BY DEF Lines
<1>2. /\ \A m \in Content(line'["a"].fwd) :
           m \in Content(line["a"].fwd) \/ m = Msg("end") \/ (l0 = "a" /\ d0 = "fwd" /\ m = m0)
      /\ \A m \in Content(line'["b"].bwd) :
           m \in Content(line["b"].bwd) \/ m = Msg("end") \/ (l0 = "b" /\ d0 = "bwd" /\ m = m0)
      /\ \A m \in Content(line'["t"].fwd) :
           m \in Content(line["t"].fwd) \/ m = Msg("end") \/ (l0 = "t" /\ d0 = "fwd" /\ m = m0)
      /\ \A m \in Content(line'["t"].bwd) :
           m \in Content(line["t"].bwd) \/ m = Msg("end") \/ (l0 = "t" /\ d0 = "bwd" /\ m = m0)
  BY <1>1 DEF Says, Adds, Silent
<1>3. Msg("end").k = "end"
  BY MessageTypes
<1>4. /\ \A m \in Content(line'["a"].fwd) : m.k \in {"byte", "end"}
      /\ \A m \in Content(line'["b"].bwd) : m.k \in {"byte", "end"}
  BY <1>2, <1>3 DEF IInv, DataOnly
<1>5. \A m \in Content(line'["t"].fwd) : FwdSays(m)'
  BY <1>2, <1>3 DEF IInv, TunnelSays, FwdSays
<1>6. \A m \in Content(line'["t"].bwd) : BwdSays(m)'
  BY <1>2, <1>3 DEF IInv, TunnelSays, BwdSays
<1> QED BY <1>4, <1>5, <1>6 DEF TunnelSays

LEMMA QuietSays ==
  ASSUME NEW x, NEW y, Quiet(y, x)
  PROVE  Says(y, x, "t", "fwd", Msg("end"))
BY DEF Quiet, Says, Silent

\* The same for a step that adds nothing.
LEMMA StillQuiet ==
  ASSUME IInv, Quiet(line', line), conf' = conf, tok' = tok,
         egress \notin Early => egress' \notin Early,
         egress \in {"relay", "closed"} => egress' \in {"relay", "closed"},
         accepted => accepted'
  PROVE  /\ TunnelSays'
         /\ \A m \in Content(line'["a"].fwd) : m.k \in {"byte", "end"}
         /\ \A m \in Content(line'["b"].bwd) : m.k \in {"byte", "end"}
<1>1. Says(line', line, "t", "fwd", Msg("end")) /\ "t" \in Lines /\ "fwd" \in Dirs
  BY QuietSays DEF Lines, Dirs
<1>2. Msg("end").k = "end"
  BY MessageTypes
<1> QED BY <1>1, <1>2, StillSaid

-----------------------------------------------------------------------------
(* forward *)

LEMMA BuildAuthFrameStep == IInv /\ BuildAuthFrame => IInv'
<1> SUFFICES ASSUME IInv, BuildAuthFrame PROVE IInv'
  OBVIOUS
<1> USE DEF BuildAuthFrame, relayVars, ingressVars
<1>1. TypeOK'
  <2>1. tok' \in Certs
    BY ChannelAssumption DEF IInv, TypeOK, Certs
  <2> QED BY <2>1 DEF IInv, TypeOK
<1>2. DataOnly'
  BY DEF IInv, DataOnly
<1>3. TunnelSays'
  BY DEF IInv, TunnelSays, FwdSays, BwdSays, Early
<1>4. EgressKnows' /\ IngressKnows'
  BY DEF IInv, EgressKnows, IngressKnows, Early
<1> QED BY <1>1, <1>2, <1>3, <1>4 DEF IInv

LEMMA DialStep == IInv /\ Dial => IInv'
<1> SUFFICES ASSUME IInv, Dial PROVE IInv'
  OBVIOUS
<1> USE DEF Dial, relayVars
<1>1. ingress \notin {"dial", "relay", "closed"} /\ ~accepted
  BY DEF IInv, IngressKnows, Early
<1>2. TypeOK'
  BY <1>1 DEF IInv, TypeOK, Sidecars
<1>3. DataOnly'
  BY DEF IInv, DataOnly
<1>4. TunnelSays'
  BY DEF IInv, TunnelSays, FwdSays, BwdSays, Early
<1>5. EgressKnows' /\ IngressKnows'
  BY <1>1 DEF IInv, EgressKnows, IngressKnows, Early
<1> QED BY <1>2, <1>3, <1>4, <1>5 DEF IInv

LEMMA Starts ==
  ASSUME NEW s \in Sidecars, StartRelay(s), NEW u \in Sidecars, NEW d \in Dirs
  PROVE  copier'[<<u, d>>] = IF u = s THEN Reading ELSE copier[<<u, d>>]
<1>1. <<u, d>> \in Goroutines /\ <<u, d>>[1] = u
  BY DEF Goroutines
<1> QED BY <1>1 DEF StartRelay

LEMMA ReadingNotOff == Reading.at # "off" /\ Reading.m = Msg("end")
BY DEF Reading

\* A step of the egress handler that leaves everything of the ingress alone.
LEMMA EgressStays ==
  ASSUME IInv, line' \in [Lines -> Connection], UNCHANGED <<conf, tok, ingressVars, cert>>,
         UNCHANGED app,
         egress \notin Early => egress' \notin Early,
         egress' \in {"relay", "closed"} => accepted,
         egress' \in {"ack", "relay", "closed"} => conf.named,
         egress' \in {"hello", "serverhello", "ack", "relay", "refused", "failed", "closed"},
         armed' \in [Sidecars -> {"none", "handshake", "auth"}], troubled' \in BOOLEAN,
         \/ egress' \notin {"relay", "closed"} /\ egress \notin {"relay", "closed"}
            /\ UNCHANGED copier
         \/ egress' \in {"relay", "closed"} /\ egress \in {"relay", "closed"} /\ UNCHANGED copier
         \/ egress' = "relay" /\ StartRelay("egress"),
         DataOnly', TunnelSays'
  PROVE  IInv'
<1> USE DEF ingressVars
<1>1. \A d \in Dirs : /\ copier'[<<"egress", d>>].at # "off" <=> egress' \in {"relay", "closed"}
                      /\ copier'[<<"ingress", d>>].at # "off" <=> ingress' \in {"relay", "closed"}
  <2>1. "egress" \in Sidecars /\ "ingress" \in Sidecars
    BY DEF Sidecars
  <2>2. CASE /\ UNCHANGED copier
             /\ egress' \in {"relay", "closed"} <=> egress \in {"relay", "closed"}
    BY <2>2 DEF IInv, TypeOK
  <2>3. CASE egress' = "relay" /\ StartRelay("egress")
    <3>1. \A d \in Dirs : /\ copier'[<<"egress", d>>] = Reading
                          /\ copier'[<<"ingress", d>>] = copier[<<"ingress", d>>]
      BY <2>1, <2>3, Starts
    <3> QED BY <2>3, <3>1, ReadingNotOff DEF IInv, TypeOK
  <2> QED BY <2>2, <2>3
<1>2. copier' \in [Goroutines -> [at : {"off", "read", "write", "done"}, m : Message]]
  BY MessageTypes DEF IInv, TypeOK, StartRelay, Reading
<1>3. TypeOK'
  BY <1>1, <1>2 DEF IInv, TypeOK, Connection
<1>4. EgressKnows' /\ IngressKnows'
  BY DEF IInv, EgressKnows, IngressKnows
<1> QED BY <1>3, <1>4 DEF IInv

LEMMA ClientHelloStep == IInv /\ ClientHello => IInv'
<1> SUFFICES ASSUME IInv, ClientHello PROVE IInv'
  OBVIOUS
<1> DEFINE hello == [k |-> "hello", v |-> cert]
<1>1. hello \in Message /\ hello.k = "hello" /\ hello.v \in Certs
  BY ChannelAssumption DEF IInv, TypeOK, Certs, Message
<1> HIDE DEF hello
<1>2. Says(line', line, "t", "fwd", hello)
  <2>1. PICK t \in Put(line["t"], "fwd", hello) : line' = [line EXCEPT !["t"] = t]
    BY DEF ClientHello, hello
  <2>2. Adds(t, line["t"], "fwd", hello)
    BY <1>1, LineTypes, PutAdds DEF IInv, Dirs
  <2> QED BY <2>1, <2>2, LineTypes, OneSays DEF IInv
<1>3. TunnelSays' /\ DataOnly'
  <2>1. /\ UNCHANGED <<conf, tok, accepted, copier>>
        /\ egress = "hello" /\ egress' = "serverhello" /\ "t" \in Lines /\ "fwd" \in Dirs
    BY DEF ClientHello, ingressVars, Lines, Dirs
  <2>2. /\ TunnelSays'
        /\ \A m \in Content(line'["a"].fwd) : m.k \in {"byte", "end"}
        /\ \A m \in Content(line'["b"].bwd) : m.k \in {"byte", "end"}
    BY <1>1, <1>2, <2>1, StillSaid DEF Early
  <2> QED BY <2>1, <2>2 DEF IInv, DataOnly
<1>4. line' \in [Lines -> Connection]
  BY <1>2 DEF Says
<1>5. armed' \in [Sidecars -> {"none", "handshake", "auth"}] /\ troubled' \in BOOLEAN
  BY DEF ClientHello, IInv, TypeOK
<1> QED BY <1>3, <1>4, <1>5, EgressStays DEF ClientHello, Early

LEMMA SendAuthFrameStep == IInv /\ SendAuthFrame => IInv'
<1> SUFFICES ASSUME IInv, SendAuthFrame PROVE IInv'
  OBVIOUS
<1> DEFINE auth == [k |-> "auth", v |-> tok]
<1>1. auth \in Message /\ auth.k = "auth" /\ auth.v = tok /\ tok \in Certs
  BY ChannelAssumption DEF IInv, TypeOK, Certs, Message
<1> HIDE DEF auth
<1>2. Says(line', line, "t", "fwd", auth)
  <2>1. PICK t \in Put(Take(line["t"], "bwd"), "fwd", auth) : line' = [line EXCEPT !["t"] = t]
    BY DEF SendAuthFrame, auth
  <2>2. Silent(Take(line["t"], "bwd"), line["t"])
    BY LineTypes, TakeSilent DEF IInv, Dirs, SendAuthFrame, EgressHears
  <2>3. Adds(t, Take(line["t"], "bwd"), "fwd", auth)
    BY <1>1, <2>2, PutAdds DEF Silent, Adds, Dirs
  <2>4. Adds(t, line["t"], "fwd", auth)
    BY <2>2, <2>3, SilentAdds
  <2> QED BY <2>1, <2>4, LineTypes, OneSays DEF IInv
<1>3. TunnelSays' /\ DataOnly'
  <2>1. /\ UNCHANGED <<conf, tok, accepted, copier>> /\ conf.named
        /\ egress = "serverhello" /\ egress' = "ack" /\ "t" \in Lines /\ "fwd" \in Dirs
    BY DEF SendAuthFrame, ingressVars, Lines, Dirs
  <2>2. /\ TunnelSays'
        /\ \A m \in Content(line'["a"].fwd) : m.k \in {"byte", "end"}
        /\ \A m \in Content(line'["b"].bwd) : m.k \in {"byte", "end"}
    BY <1>1, <1>2, <2>1, StillSaid DEF Early
  <2> QED BY <2>1, <2>2 DEF IInv, DataOnly
<1>4. line' \in [Lines -> Connection]
  BY <1>2 DEF Says
<1>5. armed' \in [Sidecars -> {"none", "handshake", "auth"}] /\ troubled' \in BOOLEAN
  BY DEF SendAuthFrame, IInv, TypeOK
<1> QED BY <1>3, <1>4, <1>5, EgressStays DEF SendAuthFrame, Early

LEMMA ReadAckStep == IInv /\ ReadAck => IInv'
<1> SUFFICES ASSUME IInv, ReadAck PROVE IInv'
  OBVIOUS
<1>1. Silent(Take(line["t"], "bwd"), line["t"]) /\ Head(line["t"].bwd) \in Content(line["t"].bwd)
  BY LineTypes, TakeSilent, TakeFrom DEF IInv, Dirs, ReadAck, EgressHears
<1>2. accepted
  BY <1>1 DEF IInv, TunnelSays, BwdSays, ReadAck, EgressHears
<1>3. Quiet(line', line)
  <2>1. line' = [line EXCEPT !["t"] = Take(line["t"], "bwd")]
    BY DEF ReadAck
  <2> QED BY <1>1, <2>1, LineTypes, OneSays DEF IInv
<1>4. TunnelSays' /\ DataOnly'
  <2>1. /\ UNCHANGED <<conf, tok, accepted>> /\ egress = "ack" /\ egress' = "relay"
        /\ StartRelay("egress")
    BY DEF ReadAck, ingressVars
  <2>2. /\ TunnelSays'
        /\ \A m \in Content(line'["a"].fwd) : m.k \in {"byte", "end"}
        /\ \A m \in Content(line'["b"].bwd) : m.k \in {"byte", "end"}
    BY <1>3, <2>1, StillQuiet DEF Early
  <2>3. /\ copier'[<<"egress", "fwd">>].m.k = "end"
        /\ copier'[<<"ingress", "bwd">>] = copier[<<"ingress", "bwd">>]
    BY <2>1, MessageTypes DEF StartRelay, Goroutines, Sidecars, Dirs, Reading
  <2> QED BY <2>2, <2>3 DEF IInv, DataOnly
<1>5. line' \in [Lines -> Connection]
  BY <1>3 DEF Quiet
<1>6. armed' \in [Sidecars -> {"none", "handshake", "auth"}] /\ troubled' \in BOOLEAN
  BY DEF ReadAck, IInv, TypeOK
<1>7. conf.named
  BY DEF ReadAck, IInv, EgressKnows
<1> QED BY <1>2, <1>4, <1>5, <1>6, <1>7, EgressStays DEF ReadAck, Early

LEMMA EgressGivesUpStep ==
  ASSUME IInv, NEW as \in {"refused", "failed", "closed"}, EgressGivesUp(as),
         as = "closed" <=> egress = "relay", egress # "closed", troubled' \in BOOLEAN
  PROVE  IInv'
<1>1. Quiet(line', line)
  <2>1. PICK t \in IF egress \in {"token", "dial"} THEN {line["t"]} ELSE CloseEnd(line["t"], "fwd"),
             a \in CloseEnd(line["a"], "bwd") :
               line' = [line EXCEPT !["t"] = t, !["a"] = a]
    BY DEF EgressGivesUp
  <2>2. t = line["t"] \/ t \in CloseEnd(line["t"], "fwd")
    BY <2>1
  <2>3. Silent(t, line["t"]) /\ Silent(a, line["a"])
    BY <2>1, <2>2, LineTypes, SilentSame, CloseSilent DEF IInv, Dirs
  <2> QED BY <2>1, <2>3, LineTypes, TwoSay DEF IInv
<1>2. /\ UNCHANGED <<copier, app, conf, tok, ingressVars, cert, armed>> /\ egress' = as
      /\ accepted' = accepted
  BY DEF EgressGivesUp, ingressVars
<1>3. TunnelSays' /\ DataOnly'
  <2>1. /\ TunnelSays'
        /\ \A m \in Content(line'["a"].fwd) : m.k \in {"byte", "end"}
        /\ \A m \in Content(line'["b"].bwd) : m.k \in {"byte", "end"}
    BY <1>1, <1>2, StillQuiet DEF Early
  <2> QED BY <1>2, <2>1 DEF IInv, DataOnly
<1>4. line' \in [Lines -> Connection] /\ armed' \in [Sidecars -> {"none", "handshake", "auth"}]
  BY <1>1, <1>2 DEF Quiet, IInv, TypeOK
<1>5. as = "closed" => accepted /\ conf.named
  BY DEF IInv, EgressKnows
<1> QED BY <1>2, <1>3, <1>4, <1>5, EgressStays DEF Early

LEMMA EgressSteps == IInv /\ (Forward \/ EgressExpires) => IInv'
<1> SUFFICES ASSUME IInv, Forward \/ EgressExpires PROVE IInv'
  OBVIOUS
<1>1. CASE BuildAuthFrame \/ Dial \/ ClientHello \/ SendAuthFrame \/ ReadAck
  BY <1>1, BuildAuthFrameStep, DialStep, ClientHelloStep, SendAuthFrameStep, ReadAckStep
<1>2. troubled \in BOOLEAN
  BY DEF IInv, TypeOK
<1>3. CASE EgressRefused
  BY <1>2, <1>3, EgressGivesUpStep DEF EgressRefused
<1>4. CASE EgressCut
  BY <1>2, <1>4, EgressGivesUpStep DEF EgressCut
<1>5. CASE EgressExpires
  BY <1>5, EgressGivesUpStep DEF EgressExpires
<1>6. CASE EgressReturns
  BY <1>2, <1>6, EgressGivesUpStep DEF EgressReturns
<1> QED BY <1>1, <1>3, <1>4, <1>5, <1>6 DEF Forward

-----------------------------------------------------------------------------
(* accept *)

LEMMA SilentIsAdds ==
  ASSUME NEW n, NEW m2, NEW d0, NEW m0, Silent(m2, n)
  PROVE  Adds(m2, n, d0, m0)
BY DEF Silent, Adds

\* A step of the ingress handler that leaves everything of the egress alone.
LEMMA IngressStays ==
  ASSUME IInv, line' \in [Lines -> Connection], UNCHANGED <<conf, egressVars, cert>>,
         claim' \in Certs, presented' \in Certs, accepted' \in BOOLEAN, accepted => accepted',
         app' \in [Dirs -> Application],
         ingress' \in {"none", "hello", "frame", "authorize", "dial", "relay", "refused",
                       "failed", "closed"},
         armed' \in [Sidecars -> {"none", "handshake", "auth"}], troubled' \in BOOLEAN,
         \/ /\ UNCHANGED copier
            /\ ingress' \in {"relay", "closed"} <=> ingress \in {"relay", "closed"}
         \/ ingress' = "relay" /\ StartRelay("ingress"),
         DataOnly', TunnelSays', IngressKnows'
  PROVE  IInv'
<1> USE DEF egressVars
<1>1. \A d \in Dirs : /\ copier'[<<"egress", d>>].at # "off" <=> egress' \in {"relay", "closed"}
                      /\ copier'[<<"ingress", d>>].at # "off" <=> ingress' \in {"relay", "closed"}
  <2>1. "egress" \in Sidecars /\ "ingress" \in Sidecars
    BY DEF Sidecars
  <2>2. CASE /\ UNCHANGED copier
             /\ ingress' \in {"relay", "closed"} <=> ingress \in {"relay", "closed"}
    BY <2>2 DEF IInv, TypeOK
  <2>3. CASE ingress' = "relay" /\ StartRelay("ingress")
    <3>1. \A d \in Dirs : /\ copier'[<<"ingress", d>>] = Reading
                          /\ copier'[<<"egress", d>>] = copier[<<"egress", d>>]
      BY <2>1, <2>3, Starts
    <3> QED BY <2>3, <3>1, ReadingNotOff DEF IInv, TypeOK
  <2> QED BY <2>2, <2>3
<1>2. copier' \in [Goroutines -> [at : {"off", "read", "write", "done"}, m : Message]]
  BY MessageTypes DEF IInv, TypeOK, StartRelay, Reading
<1>3. TypeOK'
  BY <1>1, <1>2 DEF IInv, TypeOK, Connection
<1>4. EgressKnows'
  BY DEF IInv, EgressKnows
<1> QED BY <1>3, <1>4 DEF IInv

LEMMA IngressGivesUpStep ==
  ASSUME IInv, NEW as \in {"refused", "failed", "closed"}, NEW t, IngressGivesUp(as, t),
         NEW m0, m0.k # "ok", Adds(t, line["t"], "bwd", m0),
         as = "closed" <=> ingress = "relay", ingress # "closed", troubled' \in BOOLEAN
  PROVE  IInv'
<1>1. Says(line', line, "t", "bwd", m0)
  <2>1. PICK u \in CloseEnd(t, "bwd"),
             b \in IF ingress = "relay" THEN CloseEnd(line["b"], "fwd") ELSE {line["b"]} :
               line' = [line EXCEPT !["t"] = u, !["b"] = b]
    BY DEF IngressGivesUp
  <2>2. b = line["b"] \/ b \in CloseEnd(line["b"], "fwd")
    BY <2>1
  <2>3. Silent(b, line["b"])
    BY <2>2, LineTypes, SilentSame, CloseSilent DEF IInv, Dirs
  <2>4. Silent(u, t)
    BY <2>1, CloseSilent DEF Adds, Dirs
  <2>5. Adds(u, line["t"], "bwd", m0)
    BY <2>4, AddsSilent
  <2> QED BY <2>1, <2>3, <2>5, LineTypes, TwoSay DEF IInv
<1>2. /\ UNCHANGED <<copier, app, conf, egressVars, presented, claim, accepted, cert, armed>>
      /\ ingress' = as /\ egress' = egress /\ tok' = tok
  BY DEF IngressGivesUp, egressVars
<1>3. TunnelSays' /\ DataOnly'
  <2>1. "t" \in Lines /\ "bwd" \in Dirs
    BY DEF Lines, Dirs
  <2>2. /\ TunnelSays'
        /\ \A m \in Content(line'["a"].fwd) : m.k \in {"byte", "end"}
        /\ \A m \in Content(line'["b"].bwd) : m.k \in {"byte", "end"}
    BY <1>1, <1>2, <2>1, StillSaid DEF Early
  <2> QED BY <1>2, <2>2 DEF IInv, DataOnly
<1>4. IngressKnows'
  BY <1>2 DEF IInv, IngressKnows
<1>5. line' \in [Lines -> Connection]
  BY <1>1 DEF Says
<1>6. /\ armed' \in [Sidecars -> {"none", "handshake", "auth"}] /\ app' \in [Dirs -> Application]
      /\ claim' \in Certs /\ presented' \in Certs /\ accepted' \in BOOLEAN
  BY <1>2 DEF IInv, TypeOK
<1> QED BY <1>2, <1>3, <1>4, <1>5, <1>6, IngressStays

LEMMA GivesUpQuietly ==
  ASSUME IInv, NEW as \in {"refused", "failed", "closed"}, IngressGivesUp(as, line["t"]),
         as = "closed" <=> ingress = "relay", ingress # "closed", troubled' \in BOOLEAN
  PROVE  IInv'
<1>1. Adds(line["t"], line["t"], "bwd", Msg("end")) /\ Msg("end").k # "ok"
  BY LineTypes, SilentSame, SilentIsAdds, MessageTypes DEF IInv
<1> QED BY <1>1, IngressGivesUpStep

LEMMA RefuseStep ==
  ASSUME IInv, NEW t, Silent(t, line["t"]), Refuse(t), ingress \in {"frame", "authorize"},
         troubled' \in BOOLEAN
  PROVE  IInv'
<1>1. PICK u \in Put(t, "bwd", Msg("no")) : IngressGivesUp("refused", u)
  BY DEF Refuse
<1>2. t \in Connection
  BY DEF Silent, Adds
<1>3. Adds(u, t, "bwd", Msg("no"))
  BY <1>2, PutAdds, MessageTypes DEF Dirs
<1>4. Adds(u, line["t"], "bwd", Msg("no"))
  BY <1>3, SilentAdds
<1> QED BY <1>1, <1>4, IngressGivesUpStep, MessageTypes

\* The next message of the egress, as the tunnel constrains it.
LEMMA Heard ==
  ASSUME IInv, Readable(line["t"], "fwd")
  PROVE  FwdSays(Head(line["t"].fwd)) /\ Silent(Take(line["t"], "fwd"), line["t"])
BY LineTypes, TakeSilent, TakeFrom DEF IInv, Dirs, TunnelSays

LEMMA ServerHelloStep == IInv /\ ServerHello => IInv'
<1> SUFFICES ASSUME IInv, ServerHello PROVE IInv'
  OBVIOUS
<1>1. Silent(Take(line["t"], "fwd"), line["t"]) /\ presented' \in Certs
  BY Heard DEF ServerHello, IngressHears, FwdSays
<1>2. Says(line', line, "t", "bwd", Msg("hello"))
  <2>1. PICK t \in Put(Take(line["t"], "fwd"), "bwd", Msg("hello")) : line' = [line EXCEPT !["t"] = t]
    BY DEF ServerHello
  <2>2. Adds(t, Take(line["t"], "fwd"), "bwd", Msg("hello"))
    BY <1>1, PutAdds, MessageTypes DEF Silent, Adds, Dirs
  <2>3. Adds(t, line["t"], "bwd", Msg("hello"))
    BY <1>1, <2>2, SilentAdds
  <2> QED BY <2>1, <2>3, LineTypes, OneSays DEF IInv
<1>3. /\ UNCHANGED <<copier, app, conf, egressVars, claim, accepted, cert, troubled>>
      /\ ingress = "hello" /\ ingress' = "frame" /\ egress' = egress /\ tok' = tok
  BY DEF ServerHello, egressVars
<1>4. TunnelSays' /\ DataOnly'
  <2>1. "t" \in Lines /\ "bwd" \in Dirs /\ Msg("hello").k = "hello"
    BY MessageTypes DEF Lines, Dirs
  <2>2. /\ TunnelSays'
        /\ \A m \in Content(line'["a"].fwd) : m.k \in {"byte", "end"}
        /\ \A m \in Content(line'["b"].bwd) : m.k \in {"byte", "end"}
    BY <1>2, <1>3, <2>1, StillSaid DEF Early
  <2> QED BY <1>3, <2>2 DEF IInv, DataOnly
<1>5. IngressKnows'
  BY <1>3 DEF IInv, IngressKnows
<1>6. line' \in [Lines -> Connection] /\ armed' \in [Sidecars -> {"none", "handshake", "auth"}]
  BY <1>2 DEF Says, ServerHello, IInv, TypeOK
<1>7. app' \in [Dirs -> Application] /\ claim' \in Certs /\ accepted' \in BOOLEAN /\ troubled' \in BOOLEAN
  BY <1>3 DEF IInv, TypeOK
<1> QED BY <1>1, <1>3, <1>4, <1>5, <1>6, <1>7, IngressStays

LEMMA ReadAuthFrameStep == IInv /\ ReadAuthFrame => IInv'
<1> SUFFICES ASSUME IInv, ReadAuthFrame PROVE IInv'
  OBVIOUS
<1>1. /\ Silent(Take(line["t"], "fwd"), line["t"])
      /\ claim' = tok /\ conf.named /\ egress \notin Early
  BY Heard DEF ReadAuthFrame, IngressHears, FwdSays
<1>2. Quiet(line', line)
  <2>1. line' = [line EXCEPT !["t"] = Take(line["t"], "fwd")]
    BY DEF ReadAuthFrame
  <2> QED BY <1>1, <2>1, LineTypes, OneSays DEF IInv
<1>3. /\ UNCHANGED <<copier, app, conf, egressVars, presented, accepted, cert, armed, troubled>>
      /\ ingress = "frame" /\ ingress' = "authorize" /\ egress' = egress /\ tok' = tok
      /\ conf.served /\ conf.targeted
  BY DEF ReadAuthFrame, egressVars
<1>4. TunnelSays' /\ DataOnly'
  BY <1>2, <1>3, StillQuiet DEF IInv, DataOnly
<1>5. IngressKnows'
  BY <1>1, <1>3 DEF IInv, IngressKnows
<1>6. line' \in [Lines -> Connection]
  BY <1>2 DEF Quiet
<1>7. /\ app' \in [Dirs -> Application] /\ presented' \in Certs /\ claim' \in Certs
      /\ accepted' \in BOOLEAN /\ troubled' \in BOOLEAN
      /\ armed' \in [Sidecars -> {"none", "handshake", "auth"}]
  BY <1>1, <1>3 DEF IInv, TypeOK
<1> QED BY <1>3, <1>4, <1>5, <1>6, <1>7, IngressStays

LEMMA AcceptStep == IInv /\ Accept => IInv'
<1> SUFFICES ASSUME IInv, Accept PROVE IInv'
  OBVIOUS
<1>1. Says(line', line, "t", "bwd", Msg("ok"))
  <2>1. PICK t \in Put(line["t"], "bwd", Msg("ok")) : line' = [line EXCEPT !["t"] = t]
    BY DEF Accept
  <2>2. Adds(t, line["t"], "bwd", Msg("ok"))
    BY LineTypes, PutAdds, MessageTypes DEF IInv, Dirs
  <2> QED BY <2>1, <2>2, LineTypes, OneSays DEF IInv
<1>2. /\ UNCHANGED <<copier, app, conf, egressVars, presented, claim, cert, troubled>>
      /\ ingress = "authorize" /\ ingress' = "dial" /\ egress' = egress /\ tok' = tok
      /\ accepted' = TRUE /\ Binds
  BY DEF Accept, egressVars
<1>3. TunnelSays' /\ DataOnly'
  <2>1. "t" \in Lines /\ "bwd" \in Dirs
    BY DEF Lines, Dirs
  <2>2. /\ TunnelSays'
        /\ \A m \in Content(line'["a"].fwd) : m.k \in {"byte", "end"}
        /\ \A m \in Content(line'["b"].bwd) : m.k \in {"byte", "end"}
    BY <1>1, <1>2, <2>1, StillSaid DEF Early
  <2> QED BY <1>2, <2>2 DEF IInv, DataOnly
<1>4. IngressKnows'
  BY <1>2 DEF IInv, IngressKnows, Binds
<1>5. line' \in [Lines -> Connection] /\ armed' \in [Sidecars -> {"none", "handshake", "auth"}]
  BY <1>1 DEF Says, Accept, IInv, TypeOK
<1>6. /\ app' \in [Dirs -> Application] /\ presented' \in Certs /\ claim' \in Certs
      /\ accepted' \in BOOLEAN /\ troubled' \in BOOLEAN
  BY <1>2 DEF IInv, TypeOK
<1> QED BY <1>2, <1>3, <1>4, <1>5, <1>6, IngressStays

LEMMA DialAppStep == IInv /\ DialApp => IInv'
<1> SUFFICES ASSUME IInv, DialApp PROVE IInv'
  OBVIOUS
<1>1. /\ UNCHANGED <<line, conf, egressVars, presented, claim, accepted, cert, armed, troubled>>
      /\ ingress = "dial" /\ ingress' = "relay" /\ egress' = egress /\ tok' = tok
      /\ StartRelay("ingress")
  BY DEF DialApp, egressVars
<1>2. TunnelSays' /\ DataOnly'
  <2>1. "egress" \in Sidecars /\ "ingress" \in Sidecars /\ "fwd" \in Dirs /\ "bwd" \in Dirs
    BY DEF Sidecars, Dirs
  <2>2. /\ copier'[<<"egress", "fwd">>] = copier[<<"egress", "fwd">>]
        /\ copier'[<<"ingress", "bwd">>] = Reading
    BY <1>1, <2>1, Starts
  <2>3. DataOnly'
    BY <1>1, <2>2, ReadingNotOff, MessageTypes DEF IInv, DataOnly
  <2>4. TunnelSays'
    BY <1>1 DEF IInv, TunnelSays, FwdSays, BwdSays
  <2> QED BY <2>3, <2>4
<1>3. IngressKnows'
  BY <1>1 DEF IInv, IngressKnows
<1>4. app' \in [Dirs -> Application]
  <2>1. NewApp("open") \in Application
    BY RelayAssumption DEF NewApp, Application
  <2> QED BY <2>1 DEF DialApp, IInv, TypeOK
<1>5. /\ presented' \in Certs /\ claim' \in Certs /\ accepted' \in BOOLEAN /\ troubled' \in BOOLEAN
      /\ armed' \in [Sidecars -> {"none", "handshake", "auth"}] /\ line' \in [Lines -> Connection]
  BY <1>1, LineTypes DEF IInv, TypeOK
<1> QED BY <1>1, <1>2, <1>3, <1>4, <1>5, IngressStays

LEMMA IngressSteps == IInv /\ (AcceptSteps \/ IngressExpires) => IInv'
<1> SUFFICES ASSUME IInv, AcceptSteps \/ IngressExpires PROVE IInv'
  OBVIOUS
<1>1. CASE ServerHello \/ ReadAuthFrame \/ Accept \/ DialApp
  BY <1>1, ServerHelloStep, ReadAuthFrameStep, AcceptStep, DialAppStep
<1>2. troubled \in BOOLEAN /\ Silent(line["t"], line["t"])
  BY LineTypes, SilentSame DEF IInv, TypeOK
<1>3. CASE HelloRefused
  BY <1>3, GivesUpQuietly DEF HelloRefused
<1>4. CASE RefuseFrame
  BY <1>2, <1>4, Heard, RefuseStep DEF RefuseFrame
<1>5. CASE Reject \/ RejectOther
  BY <1>2, <1>5, RefuseStep DEF Reject, RejectOther
<1>6. CASE AppUnreachable
  BY <1>6, GivesUpQuietly DEF AppUnreachable
<1>7. CASE IngressCut
  BY <1>2, <1>7, GivesUpQuietly DEF IngressCut
<1>8. CASE IngressExpires
  BY <1>8, GivesUpQuietly DEF IngressExpires
<1>9. CASE IngressReturns
  BY <1>2, <1>9, GivesUpQuietly DEF IngressReturns
<1> QED BY <1>1, <1>3, <1>4, <1>5, <1>6, <1>7, <1>8, <1>9 DEF AcceptSteps

-----------------------------------------------------------------------------
(* relay *)

\* A step of goroutine <<s, d>> of a relay that runs.
LEMMA CopierStays ==
  ASSUME IInv, NEW s \in Sidecars, NEW d \in Dirs, NEW c, copier[<<s, d>>].at # "off",
         c \in [at : {"read", "write", "done"}, m : Message],
         copier' = [copier EXCEPT ![<<s, d>>] = c],
         <<s, d>> \in {<<"egress", "fwd">>, <<"ingress", "bwd">>} => c.m.k \in {"byte", "end"},
         NEW m0, Says(line', line, Dst(s, d), d, m0), m0 = Msg("end") \/ m0 = copier[<<s, d>>].m,
         UNCHANGED <<app, conf, egressVars, ingressVars, cert, armed, troubled>>
  PROVE  IInv'
<1>1. <<s, d>> \in Goroutines
  BY DEF Goroutines
<1>2. \A g \in Goroutines : copier'[g] = IF g = <<s, d>> THEN c ELSE copier[g]
  BY <1>1 DEF IInv, TypeOK
<1>3. /\ <<"egress", "fwd">> \in Goroutines /\ <<"ingress", "bwd">> \in Goroutines
      /\ \A e \in Dirs : <<"egress", e>> \in Goroutines /\ <<"ingress", e>> \in Goroutines
  BY DEF Goroutines, Sidecars, Dirs
<1>4. c.at # "off" /\ c \in [at : {"off", "read", "write", "done"}, m : Message]
  OBVIOUS
<1>5. copier' \in [Goroutines -> [at : {"off", "read", "write", "done"}, m : Message]]
  BY <1>4 DEF IInv, TypeOK
<1>6. \A g \in Goroutines : copier'[g].at # "off" <=> copier[g].at # "off"
  BY <1>2, <1>4
<1>7. /\ UNCHANGED <<app, conf, cert, armed, troubled, presented, claim>>
      /\ egress' = egress /\ tok' = tok /\ ingress' = ingress /\ accepted' = accepted
  BY DEF egressVars, ingressVars
<1>8. line' \in [Lines -> Connection]
  BY DEF Says
<1>9. TypeOK'
  BY <1>3, <1>5, <1>6, <1>7, <1>8 DEF IInv, TypeOK, Connection
<1>10. TunnelSays' /\ DataOnly'
  <2>1. /\ Dst(s, d) \in Lines /\ Msg("end").k = "end"
        /\ Dst(s, d) = "t" => (s = "egress" /\ d = "fwd") \/ (s = "ingress" /\ d = "bwd")
        /\ ~(Dst(s, d) = "a" /\ d = "fwd") /\ ~(Dst(s, d) = "b" /\ d = "bwd")
    BY MessageTypes DEF Dst, Src, Opp, Sidecars, Dirs, Lines
  <2>2. (s = "egress" /\ d = "fwd") \/ (s = "ingress" /\ d = "bwd") =>
          m0.k \in {"byte", "end"}
    BY <2>1 DEF IInv, DataOnly
  <2>3. s = "egress" => egress \in {"relay", "closed"}
    BY DEF IInv, TypeOK
  <2>4. /\ TunnelSays'
        /\ \A m \in Content(line'["a"].fwd) : m.k \in {"byte", "end"}
        /\ \A m \in Content(line'["b"].bwd) : m.k \in {"byte", "end"}
    <3>1. Dst(s, d) = "t" /\ d = "fwd" =>
            /\ m0.k \in {"hello", "auth"} => m0.v \in Certs
            /\ m0.k = "auth" => m0.v = tok /\ conf.named /\ egress' \notin Early
            /\ m0.k = "byte" => egress' \in {"relay", "closed"}
      BY <1>7, <2>1, <2>2, <2>3 DEF Dirs
    <3>2. Dst(s, d) = "t" /\ d = "bwd" => (m0.k = "ok" => accepted')
      BY <2>1, <2>2 DEF Dirs
    <3> QED BY <1>7, <2>1, <3>1, <3>2, StillSaid
  <2>5. /\ copier'[<<"egress", "fwd">>].m.k \in {"byte", "end"}
        /\ copier'[<<"ingress", "bwd">>].m.k \in {"byte", "end"}
    BY <1>2, <1>3 DEF IInv, DataOnly
  <2> QED BY <2>4, <2>5 DEF DataOnly
<1>11. EgressKnows' /\ IngressKnows'
  BY <1>7 DEF IInv, EgressKnows, IngressKnows
<1> QED BY <1>9, <1>10, <1>11 DEF IInv

LEMMA DstTypes ==
  ASSUME NEW s \in Sidecars, NEW d \in Dirs
  PROVE  /\ Src(s, d) \in Lines /\ Dst(s, d) \in Lines /\ <<s, d>> \in Goroutines
         /\ Src("egress", "fwd") = "a" /\ Src("ingress", "bwd") = "b"
BY DEF Src, Dst, Opp, Lines, Sidecars, Dirs, Goroutines

LEMMA CopySteps ==
  ASSUME IInv, NEW s \in Sidecars, NEW d \in Dirs, Copying(s, d)
  PROVE  IInv'
<1>0. /\ UNCHANGED <<conf, egressVars, ingressVars, cert, armed, troubled>>
      /\ Copy(s, d, armed[s] # "none") /\ line \in [Lines -> Connection]
      /\ line[Src(s, d)] \in Connection /\ line[Dst(s, d)] \in Connection
      /\ copier[<<s, d>>].m \in Message
  BY LineTypes, DstTypes DEF Copying, IInv, TypeOK
<1>1. CASE CopyRead(s, d)
  <2> DEFINE n == line[Src(s, d)]
             c == [at |-> "write", m |-> Head(n[d])]
  <2>1. /\ Readable(n, d) /\ copier[<<s, d>>].at = "read" /\ UNCHANGED app
        /\ copier' = [copier EXCEPT ![<<s, d>>] = c]
        /\ line' = [line EXCEPT ![Src(s, d)] = Take(n, d)]
    BY <1>1 DEF CopyRead
  <2>2. Silent(Take(n, d), n) /\ Head(n[d]) \in Content(n[d]) /\ Head(n[d]) \in Message
    BY <1>0, <2>1, TakeSilent, TakeFrom
  <2>3. <<s, d>> \in {<<"egress", "fwd">>, <<"ingress", "bwd">>} => c.m.k \in {"byte", "end"}
    BY <2>2, DstTypes DEF IInv, DataOnly
  <2>4. Quiet(line', line)
    BY <1>0, <2>1, <2>2, DstTypes, OneSays
  <2>5. Says(line', line, Dst(s, d), d, Msg("end"))
    BY <2>4, SilentIsAdds DEF Quiet, Says
  <2>6. c \in [at : {"read", "write", "done"}, m : Message]
    BY <2>2
  <2> HIDE DEF c, n
  <2> QED BY <1>0, <2>1, <2>3, <2>5, <2>6, CopierStays
<1>2. CASE CopyWrite(s, d)
  <2>1. PICK n \in Put(line[Dst(s, d)], d, copier[<<s, d>>].m) :
          line' = [line EXCEPT ![Dst(s, d)] = n]
    BY <1>2 DEF CopyWrite
  <2>2. Adds(n, line[Dst(s, d)], d, copier[<<s, d>>].m)
    BY <1>0, <2>1, PutAdds
  <2>3. Says(line', line, Dst(s, d), d, copier[<<s, d>>].m)
    BY <1>0, <2>1, <2>2, DstTypes, OneSays
  <2>4. /\ copier[<<s, d>>].at = "write" /\ UNCHANGED app
        /\ copier' = [copier EXCEPT ![<<s, d>>] = Reading]
    BY <1>2 DEF CopyWrite
  <2>5. Reading \in [at : {"read", "write", "done"}, m : Message] /\ Reading.m.k = "end"
    BY MessageTypes DEF Reading
  <2> QED BY <1>0, <2>3, <2>4, <2>5, CopierStays
<1>3. CASE CopyEnd(s, d, armed[s] # "none")
  <2> DEFINE c == [at |-> "done", m |-> Msg("end")]
  <2>1. PICK n \in Put(line[Dst(s, d)], d, Msg("end")) : line' = [line EXCEPT ![Dst(s, d)] = n]
    BY <1>3 DEF CopyEnd, PassEnd
  <2>2. Silent(n, line[Dst(s, d)])
    BY <1>0, <2>1, EndSilent
  <2>3. Says(line', line, Dst(s, d), d, Msg("end"))
    BY <1>0, <2>1, <2>2, DstTypes, OneSays, SilentIsAdds
  <2>4. /\ copier[<<s, d>>].at # "off" /\ UNCHANGED app
        /\ copier' = [copier EXCEPT ![<<s, d>>] = c]
    BY <1>3 DEF CopyEnd, Returns, PassEnd
  <2>5. c \in [at : {"read", "write", "done"}, m : Message] /\ c.m.k = "end"
    BY MessageTypes
  <2> HIDE DEF c
  <2> QED BY <1>0, <2>3, <2>4, <2>5, CopierStays
<1> QED BY <1>0, <1>1, <1>2, <1>3 DEF Copy

-----------------------------------------------------------------------------
(* The applications and what is around *)

\* A step that moves no handler and no goroutine.
LEMMA HandlersStay ==
  ASSUME IInv, UNCHANGED <<copier, conf, egressVars, ingressVars>>,
         NEW d \in Dirs, NEW m0, m0.k \in {"byte", "end"}, Says(line', line, AppLine(d), d, m0),
         app' \in [Dirs -> Application], app["bwd"].at = "absent" => app'["bwd"].at = "absent",
         cert' \in Certs, armed' = armed, troubled' \in BOOLEAN
  PROVE  IInv'
<1>1. /\ UNCHANGED <<presented, claim>>
      /\ egress' = egress /\ tok' = tok /\ ingress' = ingress /\ accepted' = accepted
  BY DEF egressVars, ingressVars
<1>2. TypeOK'
  BY <1>1 DEF IInv, TypeOK, Says, Connection
<1>3. AppLine(d) \in Lines /\ AppLine(d) # "t"
  BY DEF AppLine, Lines, Dirs
<1>4. /\ TunnelSays'
      /\ \A m \in Content(line'["a"].fwd) : m.k \in {"byte", "end"}
      /\ \A m \in Content(line'["b"].bwd) : m.k \in {"byte", "end"}
  BY <1>1, <1>3, StillSaid
<1>5. DataOnly'
  BY <1>4 DEF IInv, DataOnly
<1>6. EgressKnows' /\ IngressKnows'
  BY <1>1 DEF IInv, EgressKnows, IngressKnows
<1> QED BY <1>2, <1>4, <1>5, <1>6 DEF IInv

LEMMA AppLineTypes ==
  ASSUME IInv, NEW d \in Dirs
  PROVE  /\ AppLine(d) \in Lines /\ line \in [Lines -> Connection] /\ line[AppLine(d)] \in Connection
         /\ Opp(d) \in Dirs /\ cert \in Certs /\ troubled \in BOOLEAN
         /\ app \in [Dirs -> Application]
BY LineTypes DEF IInv, TypeOK, AppLine, Lines, Dirs, Opp

\* An application that is there changes, and does not cease to have been dialed.
LEMMA AppChanges ==
  ASSUME IInv, NEW d \in Dirs, app[d].at # "absent",
         NEW a, a \in Application, a.at # "absent", app' = [app EXCEPT ![d] = a]
  PROVE  /\ app' \in [Dirs -> Application]
         /\ app["bwd"].at = "absent" => app'["bwd"].at = "absent"
BY DEF IInv, TypeOK, Dirs

\* What it may become.
LEMMA AppTypes ==
  ASSUME NEW a \in Application
  PROVE  /\ a.sent < MaxData => [a EXCEPT !.sent = @ + 1] \in Application
         /\ a.got < MaxData => [a EXCEPT !.got = @ + 1] \in Application
         /\ \A at \in {"shut", "closed"} : [a EXCEPT !.at = at] \in Application
         /\ \A saw \in {"end", "error"} : [a EXCEPT !.saw = saw] \in Application
         /\ [a EXCEPT !.sent = @ + 1].at = a.at /\ [a EXCEPT !.got = @ + 1].at = a.at
         /\ \A at \in {"shut", "closed"} : [a EXCEPT !.at = at].at = at
         /\ \A saw \in {"end", "error"} : [a EXCEPT !.saw = saw].at = a.at
BY RelayAssumption DEF Application

LEMMA AppSays ==
  ASSUME IInv, NEW d \in Dirs, NEW m \in Message, NEW n \in Put(line[AppLine(d)], d, m),
         line' = [line EXCEPT ![AppLine(d)] = n]
  PROVE  Says(line', line, AppLine(d), d, m)
BY AppLineTypes, PutAdds, OneSays

LEMMA AppQuiet ==
  ASSUME IInv, NEW d \in Dirs, NEW n, Silent(n, line[AppLine(d)]),
         line' = [line EXCEPT ![AppLine(d)] = n]
  PROVE  Says(line', line, AppLine(d), d, Msg("end"))
BY AppLineTypes, SilentIsAdds, OneSays

LEMMA UsingSteps ==
  ASSUME IInv, NEW d \in Dirs, Using(d) \/ AppLeaves(d)
  PROVE  IInv'
<1> DEFINE l == line[AppLine(d)]
<1>0. /\ UNCHANGED <<conf, egressVars, ingressVars, cert, armed>> /\ troubled' \in BOOLEAN
      /\ AppSteps(d) \/ AppGone(d)
  BY AppLineTypes DEF Using, AppLeaves
<1>1. Msg("end").k = "end" /\ Msg("byte").k = "byte" /\ Msg("byte") \in Message /\ Msg("end") \in Message
  BY MessageTypes
<1>2. cert' \in Certs
  BY <1>0, AppLineTypes
<1>3. app[d] \in Application /\ app \in [Dirs -> Application]
  BY DEF IInv, TypeOK
<1>4. CASE AppWrite(d)
  <2>1. PICK n \in Put(l, d, Msg("byte")) : line' = [line EXCEPT ![AppLine(d)] = n]
    BY <1>4 DEF AppWrite, AppPuts
  <2>2. Says(line', line, AppLine(d), d, Msg("byte"))
    BY <1>1, <2>1, AppSays
  <2>3. /\ app' \in [Dirs -> Application] /\ UNCHANGED copier
        /\ app["bwd"].at = "absent" => app'["bwd"].at = "absent"
    <3> DEFINE a == [app[d] EXCEPT !.sent = @ + 1]
    <3>1. app' = [app EXCEPT ![d] = a] /\ app[d].at = "open" /\ UNCHANGED copier
      BY <1>3, <1>4 DEF AppWrite
    <3>2. a \in Application /\ a.at = "open"
      BY <1>3, <1>4, <3>1, AppTypes DEF AppWrite
    <3> HIDE DEF a
    <3> QED BY <3>1, <3>2, AppChanges
  <2> QED BY <1>0, <1>1, <1>2, <2>2, <2>3, HandlersStay
<1>5. CASE AppShut(d)
  <2>1. PICK n \in Put(l, d, Msg("end")) : line' = [line EXCEPT ![AppLine(d)] = n]
    BY <1>5 DEF AppShut, AppPuts
  <2>2. Says(line', line, AppLine(d), d, Msg("end"))
    BY <1>1, <2>1, AppSays
  <2>3. /\ app' \in [Dirs -> Application] /\ UNCHANGED copier
        /\ app["bwd"].at = "absent" => app'["bwd"].at = "absent"
    <3> DEFINE a == [app[d] EXCEPT !.at = "shut"]
    <3>1. app' = [app EXCEPT ![d] = a] /\ app[d].at = "open" /\ UNCHANGED copier
      BY <1>3, <1>5 DEF AppShut
    <3>2. a \in Application /\ a.at = "shut"
      BY <1>3, AppTypes
    <3> HIDE DEF a
    <3> QED BY <3>1, <3>2, AppChanges
  <2> QED BY <1>0, <1>1, <1>2, <2>2, <2>3, HandlersStay
<1>6. CASE AppRead(d)
  <2>1. \/ line' = [line EXCEPT ![AppLine(d)] = Take(l, Opp(d))] /\ Readable(l, Opp(d))
        \/ UNCHANGED line
    BY <1>6 DEF AppRead
  <2>2. Says(line', line, AppLine(d), d, Msg("end"))
    <3>1. CASE UNCHANGED line
      BY <3>1, AppLineTypes, SameQuiet, SilentIsAdds DEF Quiet, Says
    <3>2. CASE line' = [line EXCEPT ![AppLine(d)] = Take(l, Opp(d))] /\ Readable(l, Opp(d))
      BY <3>2, AppLineTypes, TakeSilent, AppQuiet
    <3> QED BY <2>1, <3>1, <3>2
  <2>3. /\ app' \in [Dirs -> Application] /\ UNCHANGED copier
        /\ app["bwd"].at = "absent" => app'["bwd"].at = "absent"
    <3> DEFINE more == [app[d] EXCEPT !.got = @ + 1]
               told(saw) == [app[d] EXCEPT !.saw = saw]
    <3>1. app[d].at \in {"open", "shut"} /\ UNCHANGED copier
      BY <1>6 DEF AppRead
    <3>2. CASE app[d].got < MaxData /\ app' = [app EXCEPT ![d] = more]
      <4>1. more \in Application /\ more.at = app[d].at
        BY <1>3, <3>2, AppTypes
      <4> HIDE DEF more
      <4> QED BY <3>1, <3>2, <4>1, AppChanges
    <3>3. ASSUME NEW saw \in {"end", "error"}, app' = [app EXCEPT ![d] = told(saw)]
          PROVE  /\ app' \in [Dirs -> Application]
                 /\ app["bwd"].at = "absent" => app'["bwd"].at = "absent"
      <4>1. told(saw) \in Application /\ told(saw).at = app[d].at
        BY <1>3, AppTypes
      <4> HIDE DEF told
      <4> QED BY <3>1, <3>3, <4>1, AppChanges
    <3>4. \/ app[d].got < MaxData /\ app' = [app EXCEPT ![d] = more]
          \/ \E saw \in {"end", "error"} : app' = [app EXCEPT ![d] = told(saw)]
      BY <1>3, <1>6 DEF AppRead
    <3> QED BY <3>1, <3>2, <3>3, <3>4
  <2> QED BY <1>0, <1>1, <1>2, <2>2, <2>3, HandlersStay
<1>7. CASE AppClose(d) \/ AppGone(d)
  <2>1. PICK n \in CloseEnd(l, d) : line' = [line EXCEPT ![AppLine(d)] = n]
    BY <1>7 DEF AppClose, AppGone
  <2>2. Says(line', line, AppLine(d), d, Msg("end"))
    BY <2>1, AppLineTypes, CloseSilent, AppQuiet
  <2>3. /\ app' \in [Dirs -> Application] /\ UNCHANGED copier
        /\ app["bwd"].at = "absent" => app'["bwd"].at = "absent"
    <3> DEFINE a == [app[d] EXCEPT !.at = "closed"]
    <3>1. app' = [app EXCEPT ![d] = a] /\ app[d].at # "absent" /\ UNCHANGED copier
      BY <1>3, <1>7 DEF AppClose, AppGone
    <3>2. a \in Application /\ a.at = "closed"
      BY <1>3, AppTypes
    <3> HIDE DEF a
    <3> QED BY <3>1, <3>2, AppChanges
  <2> QED BY <1>0, <1>1, <1>2, <2>2, <2>3, HandlersStay
<1> QED BY <1>0, <1>4, <1>5, <1>6, <1>7 DEF AppSteps

LEMMA AroundSteps == IInv /\ (Renew \/ NetworkLost \/ TunnelBreaks) => IInv'
<1> SUFFICES ASSUME IInv, Renew \/ NetworkLost \/ TunnelBreaks PROVE IInv'
  OBVIOUS
<1>0. /\ cert \in Certs /\ troubled \in BOOLEAN /\ app \in [Dirs -> Application]
      /\ cert <= MaxRenewals => cert + 1 \in Certs
  BY ChannelAssumption DEF IInv, TypeOK, Certs
<1>1. /\ UNCHANGED <<copier, app, conf, egressVars, ingressVars, armed>> /\ troubled' \in BOOLEAN
      /\ cert' \in Certs /\ app' \in [Dirs -> Application]
  BY <1>0 DEF Renew, NetworkLost, TunnelBreaks, relayVars
<1>2. Quiet(line', line)
  <2>1. CASE Renew
    BY <2>1, LineTypes, SameQuiet DEF Renew, relayVars, IInv
  <2>2. CASE NetworkLost
    <3> DEFINE n == [line["t"] EXCEPT !.cut = TRUE]
    <3>1. line' = [line EXCEPT !["t"] = n]
      BY <2>2 DEF NetworkLost
    <3>2. n \in Connection /\ n.fwd = line["t"].fwd /\ n.bwd = line["t"].bwd
      BY LineTypes DEF IInv, Connection
    <3>3. Silent(n, line["t"])
      BY <3>2 DEF Silent, Adds
    <3> HIDE DEF n
    <3> QED BY <3>1, <3>3, LineTypes, OneSays DEF IInv
  <2>3. CASE TunnelBreaks
    <3>1. PICK n \in Resets(line["t"]) : line' = [line EXCEPT !["t"] = n]
      BY <2>3 DEF TunnelBreaks
    <3>2. Silent(n, line["t"])
      BY <3>1, LineTypes, ResetsSilent DEF IInv
    <3> QED BY <3>1, <3>2, LineTypes, OneSays DEF IInv
  <2> QED BY <2>1, <2>2, <2>3
<1>3. Says(line', line, AppLine("fwd"), "fwd", Msg("end")) /\ "fwd" \in Dirs /\ Msg("end").k = "end"
  BY <1>2, SilentIsAdds, MessageTypes DEF Quiet, Says, Dirs
<1> QED BY <1>1, <1>3, HandlersStay

-----------------------------------------------------------------------------
(* Nothing before the token is accepted *)

LEMMA Initially == Init => IInv
<1> SUFFICES ASSUME Init PROVE IInv
  OBVIOUS
<1>1. /\ \A l \in Lines : line[l] \in Connection /\ Content(line[l].fwd) = {} /\ Content(line[l].bwd) = {}
      /\ line \in [Lines -> Connection] /\ "a" \in Lines /\ "t" \in Lines /\ "b" \in Lines
  BY FreshConnection DEF Init, Lines
<1>2. Off \in [at : {"off", "read", "write", "done"}, m : Message] /\ Off.at = "off" /\ Off.m.k = "end"
  BY MessageTypes DEF Off
<1>3. /\ copier \in [Goroutines -> [at : {"off", "read", "write", "done"}, m : Message]]
      /\ \A s \in Sidecars, d \in Dirs : copier[<<s, d>>] = Off
  BY <1>2 DEF Init, Goroutines
<1>4. "egress" \in Sidecars /\ "ingress" \in Sidecars /\ "fwd" \in Dirs /\ "bwd" \in Dirs
  BY DEF Sidecars, Dirs
<1>5. app \in [Dirs -> Application] /\ app["bwd"].at = "absent"
  BY RelayAssumption, <1>4 DEF Init, NewApp, Application, Dirs
<1>6. TypeOK
  <2>1. {cert, tok, presented, claim} \subseteq Certs
    BY ChannelAssumption DEF Init, Certs
  <2>2. line \in [Lines -> [fwd : Seq(Message), bwd : Seq(Message), up : BOOLEAN, cut : BOOLEAN,
                           closed : SUBSET Dirs]]
    BY <1>1 DEF Connection
  <2>3. \A d \in Dirs : /\ copier[<<"egress", d>>].at # "off" <=> egress \in {"relay", "closed"}
                        /\ copier[<<"ingress", d>>].at # "off" <=> ingress \in {"relay", "closed"}
    BY <1>2, <1>3, <1>4 DEF Init
  <2>4. /\ conf \in Configurations /\ egress = "token" /\ ingress = "none" /\ accepted = FALSE
        /\ armed \in [Sidecars -> {"none", "handshake", "auth"}] /\ troubled = FALSE
    BY DEF Init
  <2> QED BY <1>3, <1>5, <2>1, <2>2, <2>3, <2>4 DEF TypeOK
<1>7. DataOnly /\ TunnelSays
  BY <1>1, <1>2, <1>3, <1>4 DEF DataOnly, TunnelSays
<1>8. EgressKnows /\ IngressKnows
  BY <1>5 DEF Init, EgressKnows, IngressKnows
<1> QED BY <1>6, <1>7, <1>8 DEF IInv

LEMMA Stutters == IInv /\ UNCHANGED vars => IInv'
<1> SUFFICES ASSUME IInv, UNCHANGED vars PROVE IInv'
  OBVIOUS
<1>1. UNCHANGED <<copier, app, conf, egressVars, ingressVars, cert, armed, troubled, line>>
  BY DEF vars, relayVars
<1>2. Says(line', line, AppLine("fwd"), "fwd", Msg("end")) /\ "fwd" \in Dirs /\ Msg("end").k = "end"
  BY <1>1, LineTypes, SameQuiet, SilentIsAdds, MessageTypes DEF Quiet, Says, Dirs, IInv
<1> QED BY <1>1, <1>2, AppLineTypes, HandlersStay

LEMMA Invariance == Spec => []IInv
<1>1. IInv /\ [Next]_vars => IInv'
  <2>1. IInv /\ Next => IInv'
    BY EgressSteps, IngressSteps, CopySteps, UsingSteps, AroundSteps DEF Next
  <2> QED BY <2>1, Stutters
<1> QED BY <1>1, Initially, PTL DEF Spec

\* Messages, handlers and goroutines are well formed, and copying goroutines exist
\* exactly on a side whose relay was started.
THEOREM TypeCorrect == Spec => []TypeOK
<1>1. IInv => TypeOK
  BY DEF IInv
<1> QED BY <1>1, Invariance, PTL

\* Whatever renewals, lost networks, deadlines and leaving applications come between:
\* no application byte is on the tunnel and no application is dialed before the
\* ingress accepted a token, which is bound to the certificate of the tunnel.
THEOREM AuthorizedFirst == Spec => []NothingBeforeAccepted
<1>1. IInv => NothingBeforeAccepted
  <2> SUFFICES ASSUME IInv, \/ app["bwd"].at # "absent"
                            \/ egress \in {"relay", "closed"}
                            \/ \E i \in 1..Len(line["t"].fwd) : line["t"].fwd[i].k = "byte"
               PROVE  /\ accepted /\ conf.served /\ conf.targeted /\ conf.named
                      /\ conf.binding = "x5t" => tok = presented
    BY DEF NothingBeforeAccepted
  <2>1. ASSUME NEW i \in 1..Len(line["t"].fwd), line["t"].fwd[i].k = "byte"
        PROVE  egress \in {"relay", "closed"}
    <3>1. line["t"].fwd[i] \in Content(line["t"].fwd)
      BY DEF Content
    <3> QED BY <2>1, <3>1 DEF IInv, TunnelSays, FwdSays
  <2>2. accepted
    BY <2>1 DEF IInv, EgressKnows, IngressKnows
  <2> QED BY <2>2 DEF IInv, IngressKnows
<1> QED BY <1>1, Invariance, PTL

-----------------------------------------------------------------------------
(***************************************************************************)
(* The order of messages.                                                  *)
(*                                                                         *)
(* A direction is tidy when a message of the set-up is the first on it and *)
(* an end the last.  Everything TCP and the handlers do to a direction     *)
(* either makes it less (it is read, reset or forgotten) or adds one       *)
(* message to it.                                                          *)
(***************************************************************************)

SetUp == {"hello", "auth", "ok", "no"}
Data == {"byte", "end"}
DataIn(q) == \A m \in Content(q) : m.k \in Data

Tidy(q) == \A i \in 1..Len(q) : /\ q[i].k = "end" => i = Len(q)
                                /\ q[i].k \in SetUp => i = 1

Less(p, q) ==
  /\ p \in Seq(Message) /\ Content(p) \subseteq Content(q) /\ Len(p) <= Len(q)
  /\ Tidy(q) => Tidy(p)
Adding(p, q, m) == m \in Message /\ p = Append(q, m) /\ ~Ended(q)
Grows(p, q, m) == Less(p, q) \/ Adding(p, q, m)

LEMMA LessSame == ASSUME NEW q \in Seq(Message) PROVE Less(q, q)
BY LenProperties DEF Less

LEMMA LessEmpty == ASSUME NEW q \in Seq(Message) PROVE Less(<<>>, q)
<1>1. Len(<<>>) = 0 /\ Len(q) \in Nat
  BY LenProperties, EmptySeq
<1>2. \A i \in 1..0 : FALSE
  OBVIOUS
<1> QED BY <1>1, <1>2, EmptyContent DEF Less, Tidy

LEMMA LessOfEmpty == ASSUME NEW p, Less(p, <<>>) PROVE p = <<>>
<1>1. p \in Seq(Message) /\ Len(p) \in Nat /\ Len(p) <= 0
  BY LenProperties, EmptySeq DEF Less
<1> QED BY <1>1, EmptySeq

LEMMA LessTrans == ASSUME NEW p, NEW q \in Seq(Message), NEW r \in Seq(Message), Less(p, q), Less(q, r)
                   PROVE  Less(p, r)
<1>1. Len(p) \in Nat /\ Len(q) \in Nat /\ Len(r) \in Nat
  BY LenProperties DEF Less
<1> QED BY <1>1 DEF Less

LEMMA ContentOf == ASSUME NEW q \in Seq(Message), NEW i \in 1..Len(q)
                   PROVE  q[i] \in Content(q) /\ q[i] \in Message
BY ElementOfSeq DEF Content

LEMMA EmptyIffNoContent == ASSUME NEW q \in Seq(Message) PROVE q = <<>> <=> Content(q) = {}
<1>1. CASE q = <<>>
  BY <1>1, EmptyContent
<1>2. CASE q # <<>>
  BY <1>2, TailContent
<1> QED BY <1>1, <1>2

LEMMA TailLess ==
  ASSUME NEW q \in Seq(Message), q # <<>>
  PROVE  Less(Tail(q), q) /\ (Tidy(q) => DataIn(Tail(q)))
<1> DEFINE t == Tail(q)
<1>1. /\ t \in Seq(Message) /\ Len(t) = Len(q) - 1 /\ Len(q) \in Nat \ {0}
      /\ \A i \in 1..Len(t) : t[i] = q[i + 1]
  BY HeadTailProperties, EmptySeq
<1>2. Content(t) \subseteq Content(q)
  BY TailContent
<1> HIDE DEF t
<1>3. \A i \in 1..Len(t) : i + 1 \in 1..Len(q) /\ i + 1 # 1 /\ (i + 1 = Len(q) => i = Len(t))
  BY <1>1
<1>4. \A i \in 1..Len(t) : t[i] \in Message
  BY <1>1, ElementOfSeq
<1>5. ASSUME Tidy(q) PROVE Tidy(t) /\ DataIn(t)
  <2>1. \A i \in 1..Len(t) : t[i].k \notin SetUp /\ (t[i].k = "end" => i = Len(t))
    BY <1>1, <1>3, <1>5 DEF Tidy
  <2>2. \A m \in Message : m.k \notin SetUp => m.k \in Data
    BY DEF Message, SetUp, Data
  <2> QED BY <1>4, <2>1, <2>2 DEF Tidy, DataIn, Content
<1> QED BY <1>1, <1>2, <1>5 DEF Less, t

LEMMA PrefixLess ==
  ASSUME NEW q \in Seq(Message), NEW p \in Prefixes(q)
  PROVE  Less(p, q)
<1>1. PICK l \in 0..Len(q) : p = SubSeq(q, 1, l)
  BY DEF Prefixes
<1>2. Len(q) \in Nat /\ \A i \in 1..l : q[i] \in Message
  BY ElementOfSeq, LenProperties
<1>3. p \in Seq(Message) /\ Len(p) = l /\ \A i \in 1..l : p[i] = q[i]
  BY <1>1, <1>2, SubSeqProperties
<1>4. \A i \in 1..l : i \in 1..Len(q) /\ (i = Len(q) => i = l)
  BY <1>2
<1>5. Tidy(q) => Tidy(p)
  BY <1>3, <1>4 DEF Tidy
<1> QED BY <1>2, <1>3, <1>5, PrefixContent DEF Less

LEMMA AddingTidy ==
  ASSUME NEW q \in Seq(Message), NEW p, NEW m, Adding(p, q, m)
  PROVE  /\ p \in Seq(Message) /\ Content(p) \subseteq Content(q) \cup {m}
         /\ Tidy(q) /\ (m.k \in SetUp => q = <<>>) => Tidy(p)
<1>1. /\ p \in Seq(Message) /\ Len(p) = Len(q) + 1 /\ Len(q) \in Nat /\ p[Len(q) + 1] = m
      /\ \A i \in 1..Len(q) : p[i] = q[i]
  BY AppendProperties, LenProperties DEF Adding
<1>2. Content(p) \subseteq Content(q) \cup {m}
  BY AppendContent DEF Adding
<1>3. ASSUME Tidy(q), m.k \in SetUp => q = <<>> PROVE Tidy(p)
  <2>1. \A i \in 1..Len(q) : q[i].k # "end"
    <3> SUFFICES ASSUME NEW i \in 1..Len(q), q[i].k = "end" PROVE FALSE
      OBVIOUS
    <3>1. i = Len(q)
      BY <1>3 DEF Tidy
    <3>2. q # <<>> /\ Last(q) = q[Len(q)]
      BY EmptySeq DEF Last
    <3> QED BY <3>1, <3>2 DEF Adding, Ended
  <2>2. m.k \in SetUp => Len(q) = 0
    BY <1>3, EmptySeq
  <2>3. \A i \in 1..Len(p) : i \in 1..Len(q) \/ i = Len(q) + 1
    BY <1>1
  <2> QED BY <1>1, <1>3, <2>1, <2>2, <2>3 DEF Tidy
<1> QED BY <1>1, <1>2, <1>3

LEMMA DataLess ==
  ASSUME NEW p, NEW q, Less(p, q), DataIn(q)
  PROVE  DataIn(p)
BY DEF Less, DataIn

LEMMA DataGrows ==
  ASSUME NEW q \in Seq(Message), NEW p, NEW m, Grows(p, q, m), m.k \in Data
  PROVE  /\ p \in Seq(Message) /\ Content(p) \subseteq Content(q) \cup {m}
         /\ Tidy(q) => Tidy(p)
         /\ DataIn(q) => DataIn(p)
<1>1. m.k \notin SetUp
  BY DEF Data, SetUp
<1>2. CASE Less(p, q)
  BY <1>2 DEF Less, DataIn
<1>3. CASE Adding(p, q, m)
  BY <1>1, <1>3, AddingTidy DEF DataIn
<1> QED BY <1>2, <1>3 DEF Grows

\* What a write of m by the d end, a close of it and everything else do to a connection.
Wrote(c, n, d, m) ==
  /\ c \in Connection /\ c.closed = n.closed
  /\ Grows(c[d], n[d], m) /\ Less(c[Opp(d)], n[Opp(d)])
Shuts(c, n, d) ==
  /\ c \in Connection /\ c.closed = n.closed \cup {d}
  /\ Grows(c[d], n[d], Msg("end")) /\ c[Opp(d)] = <<>>
Steady(c, n) ==
  /\ c \in Connection /\ c.closed = n.closed
  /\ Less(c.fwd, n.fwd) /\ Less(c.bwd, n.bwd)

LEMMA Queues ==
  ASSUME NEW n \in Connection, NEW d \in Dirs
  PROVE  /\ n.fwd \in Seq(Message) /\ n.bwd \in Seq(Message) /\ n[d] \in Seq(Message)
         /\ n.closed \in SUBSET Dirs /\ Opp(d) \in Dirs /\ n[Opp(d)] \in Seq(Message)
         /\ Opp("fwd") = "bwd" /\ Opp("bwd") = "fwd" /\ Opp(Opp(d)) = d /\ Opp(d) # d
         /\ n.up \in BOOLEAN /\ n.cut \in BOOLEAN
BY DEF Connection, Dirs, Opp

LEMMA SteadySame == ASSUME NEW n \in Connection PROVE Steady(n, n)
BY LessSame DEF Steady, Connection

LEMMA SteadyWrote ==
  ASSUME NEW n, NEW c, NEW d \in Dirs, NEW m, Steady(c, n)
  PROVE  Wrote(c, n, d, m)
BY DEF Steady, Wrote, Grows, Dirs, Opp

\* A reset loses what a closed end had not read, and whatever else it likes.
LEMMA ResetsLess ==
  ASSUME NEW n \in Connection, NEW c \in Resets(n)
  PROVE  /\ Steady(c, n) /\ ~c.up /\ ~c.cut
         /\ "bwd" \in n.closed => c.fwd = <<>>
         /\ "fwd" \in n.closed => c.bwd = <<>>
<1>1. PICK f \in Kept(n.fwd, "bwd" \in n.closed), b \in Kept(n.bwd, "fwd" \in n.closed) :
        c = Broken(n, f, b)
  BY DEF Resets
<1>2. n.fwd \in Seq(Message) /\ n.bwd \in Seq(Message)
  BY DEF Connection
<1>3. Less(f, n.fwd) /\ Less(b, n.bwd)
  BY <1>2, PrefixLess, LessEmpty DEF Kept
<1>4. f \in Seq(Message) /\ b \in Seq(Message)
  BY <1>3 DEF Less
<1>5. /\ c \in Connection /\ c.fwd = f /\ c.bwd = b /\ c.closed = n.closed
      /\ c.up = FALSE /\ c.cut = FALSE
  BY <1>1, <1>4 DEF Broken, Connection
<1>6. ("bwd" \in n.closed => f = <<>>) /\ ("fwd" \in n.closed => b = <<>>)
  BY DEF Kept
<1> QED BY <1>3, <1>5, <1>6 DEF Steady

\* A connection with m at the end of one direction.
With(n, d, m) == [n EXCEPT ![d] = Append(@, m)]

LEMMA AppendTo ==
  ASSUME NEW n \in Connection, NEW d \in Dirs, NEW m \in Message, NEW c, c = With(n, d, m)
  PROVE  /\ c \in Connection /\ c[d] = Append(n[d], m) /\ c[Opp(d)] = n[Opp(d)]
         /\ c.closed = n.closed /\ c.up = n.up /\ c.cut = n.cut
<1> DEFINE q == Append(n[d], m)
<1>1. q \in Seq(Message)
  BY Queues, AppendContent
<1>2. c = [n EXCEPT ![d] = q]
  BY DEF With
<1> HIDE DEF q
<1>3. CASE d = "fwd"
  <2>1. c = [n EXCEPT !.fwd = q]
    BY <1>2, <1>3
  <2> QED BY <1>1, <1>3, <2>1 DEF Connection, Opp, q
<1>4. CASE d = "bwd"
  <2>1. c = [n EXCEPT !.bwd = q]
    BY <1>2, <1>4
  <2> QED BY <1>1, <1>4, <2>1 DEF Connection, Opp, q
<1> QED BY <1>3, <1>4 DEF Dirs

LEMMA PutWrote ==
  ASSUME NEW n \in Connection, NEW d \in Dirs, NEW m \in Message, NEW c \in Put(n, d, m)
  PROVE  /\ Wrote(c, n, d, m)
         /\ Opp(d) \in n.closed /\ m.k # "end" /\ ~n.cut /\ n[d] = <<>> => c[d] = <<>>
<1>1. CASE c = n /\ (~n.up \/ Ended(n[d]))
  BY <1>1, SteadySame, SteadyWrote
<1>2. CASE c \in Resets(n) /\ Opp(d) \in n.closed
  <2>1. Steady(c, n) /\ Less(c[d], n[d])
    BY <1>2, ResetsLess DEF Steady, Dirs
  <2> QED BY <2>1, SteadyWrote, LessOfEmpty
<1>3. CASE /\ c = With(n, d, m) /\ ~Ended(n[d])
           /\ ~(Opp(d) \in n.closed /\ m.k # "end" /\ ~n.cut)
  <2>1. /\ c \in Connection /\ c[d] = Append(n[d], m) /\ c[Opp(d)] = n[Opp(d)]
        /\ c.closed = n.closed
    BY <1>3, AppendTo
  <2>2. Less(c[Opp(d)], n[Opp(d)])
    BY <2>1, Queues, LessSame
  <2> QED BY <1>3, <2>1, <2>2 DEF Wrote, Grows, Adding
<1> QED BY <1>1, <1>2, <1>3 DEF Put, With

LEMMA TakeSteady ==
  ASSUME NEW n \in Connection, NEW d \in Dirs, Readable(n, d)
  PROVE  /\ Steady(Take(n, d), n)
         /\ n[d] # <<>> /\ Head(n[d]) \in Content(n[d]) /\ Head(n[d]) \in Message
         /\ Take(n, d)[d] = Tail(n[d]) /\ Take(n, d)[Opp(d)] = n[Opp(d)]
         /\ Take(n, d).up = n.up /\ Take(n, d).cut = n.cut
<1>1. n.fwd \in Seq(Message) /\ n.bwd \in Seq(Message) /\ n[d] # <<>> /\ n[d] \in Seq(Message)
  BY Queues DEF Readable
<1>2. Less(Tail(n[d]), n[d]) /\ Head(n[d]) \in Content(n[d]) /\ Head(n[d]) \in Message
  BY <1>1, TailLess, TailContent
<1>3. Tail(n[d]) \in Seq(Message)
  BY <1>2 DEF Less
<1>4. Less(n.fwd, n.fwd) /\ Less(n.bwd, n.bwd)
  BY <1>1, LessSame
<1>5. CASE d = "fwd"
  <2>1. Take(n, d) = [n EXCEPT !.fwd = Tail(n.fwd)]
    BY <1>5 DEF Take
  <2> QED BY <1>1, <1>2, <1>3, <1>4, <1>5, <2>1 DEF Steady, Connection, Opp
<1>6. CASE d = "bwd"
  <2>1. Take(n, d) = [n EXCEPT !.bwd = Tail(n.bwd)]
    BY <1>6 DEF Take
  <2> QED BY <1>1, <1>2, <1>3, <1>4, <1>6, <2>1 DEF Steady, Connection, Opp
<1> QED BY <1>5, <1>6 DEF Dirs

\* A message is read and answered.
LEMMA TakePut ==
  ASSUME NEW n \in Connection, NEW d \in Dirs, NEW m \in Message, Readable(n, Opp(d)),
         NEW c \in Put(Take(n, Opp(d)), d, m)
  PROVE  /\ Wrote(c, n, d, m) /\ Less(c[Opp(d)], Tail(n[Opp(d)]))
         /\ Opp(d) \in n.closed /\ m.k # "end" /\ n[d] = <<>> => c[d] = <<>>
<1> DEFINE t == Take(n, Opp(d))
<1>1. /\ Steady(t, n) /\ t[d] = n[d] /\ t[Opp(d)] = Tail(n[Opp(d)]) /\ t.cut = n.cut
  BY Queues, TakeSteady
<1>2. ~n.cut
  BY DEF Readable
<1>3. t \in Connection /\ t.closed = n.closed
  BY <1>1 DEF Steady
<1> HIDE DEF t
<1>4. /\ Wrote(c, t, d, m)
      /\ Opp(d) \in t.closed /\ m.k # "end" /\ ~t.cut /\ t[d] = <<>> => c[d] = <<>>
  BY <1>3, PutWrote DEF t
<1>5. Less(t[Opp(d)], n[Opp(d)]) /\ Less(c[Opp(d)], t[Opp(d)])
  BY <1>1, <1>4, Queues DEF Steady, Wrote, Dirs
<1>6. Less(c[Opp(d)], n[Opp(d)])
  BY <1>3, <1>5, Queues, LessTrans
<1> QED BY <1>1, <1>2, <1>3, <1>4, <1>5, <1>6 DEF Wrote, t

LEMMA CloseShuts ==
  ASSUME NEW n \in Connection, NEW d \in Dirs, NEW c \in CloseEnd(n, d)
  PROVE  Shuts(c, n, d)
<1> DEFINE gone == [n EXCEPT !.closed = @ \cup {d}, ![Opp(d)] = <<>>]
<1>1. /\ gone \in Connection /\ gone.closed = n.closed \cup {d} /\ gone[d] = n[d]
      /\ gone[Opp(d)] = <<>>
  <2>1. n.closed \cup {d} \in SUBSET Dirs /\ <<>> \in Seq(Message)
    BY EmptyContent DEF Connection
  <2>2. CASE d = "fwd"
    <3>1. gone = [n EXCEPT !.closed = n.closed \cup {d}, !.bwd = <<>>]
      BY <2>2 DEF Opp
    <3> QED BY <2>1, <2>2, <3>1 DEF Connection, Opp
  <2>3. CASE d = "bwd"
    <3>1. gone = [n EXCEPT !.closed = n.closed \cup {d}, !.fwd = <<>>]
      BY <2>3 DEF Opp
    <3> QED BY <2>1, <2>3, <3>1 DEF Connection, Opp
  <2> QED BY <2>2, <2>3 DEF Dirs
<1>2. c \in Resets(gone) \/ c \in Put(gone, d, Msg("end"))
  BY DEF CloseEnd
<1> HIDE DEF gone
<1>3. Wrote(c, gone, d, Msg("end"))
  <2>1. CASE c \in Resets(gone)
    BY <1>1, <2>1, ResetsLess, SteadyWrote
  <2>2. CASE c \in Put(gone, d, Msg("end"))
    BY <1>1, <2>2, PutWrote, MessageTypes
  <2> QED BY <1>2, <2>1, <2>2
<1>4. c[Opp(d)] = <<>>
  BY <1>1, <1>3, LessOfEmpty DEF Wrote
<1> QED BY <1>1, <1>3, <1>4 DEF Wrote, Shuts

\* What keeps a connection tidy, and one of data a connection of data.
Alters(c, n) == \A d \in Dirs : Tidy(n[d]) => Tidy(c[d])
Pours(c, n) == \A d \in Dirs : (Tidy(n[d]) => Tidy(c[d])) /\ (DataIn(n[d]) => DataIn(c[d]))

LEMMA PoursAlters == ASSUME NEW c, NEW n, Pours(c, n) PROVE Alters(c, n)
BY DEF Pours, Alters

LEMMA SteadyPours ==
  ASSUME NEW n \in Connection, NEW c, Steady(c, n)
  PROVE  Pours(c, n)
BY DataLess DEF Steady, Pours, Less, Dirs

LEMMA WrotePours ==
  ASSUME NEW n \in Connection, NEW d \in Dirs, NEW m, NEW c, Wrote(c, n, d, m)
  PROVE  m.k \in Data => Pours(c, n)
<1> SUFFICES ASSUME m.k \in Data, NEW e \in Dirs
             PROVE  (Tidy(n[e]) => Tidy(c[e])) /\ (DataIn(n[e]) => DataIn(c[e]))
  BY DEF Pours
<1>1. CASE e = d
  BY <1>1, Queues, DataGrows DEF Wrote
<1>2. CASE e = Opp(d)
  BY <1>2, DataLess DEF Wrote, Less
<1> QED BY <1>1, <1>2 DEF Dirs, Opp

LEMMA WroteAlters ==
  ASSUME NEW n \in Connection, NEW d \in Dirs, NEW m, NEW c, Wrote(c, n, d, m), n[d] = <<>>
  PROVE  Alters(c, n)
<1> SUFFICES ASSUME NEW e \in Dirs, Tidy(n[e]) PROVE Tidy(c[e])
  BY DEF Alters
<1>1. CASE e = d
  <2>1. CASE Less(c[d], n[d])
    BY <1>1, <2>1 DEF Less
  <2>2. CASE Adding(c[d], n[d], m)
    BY <1>1, <2>2, Queues, AddingTidy
  <2> QED BY <2>1, <2>2 DEF Wrote, Grows
<1>2. CASE e = Opp(d)
  BY <1>2 DEF Wrote, Less
<1> QED BY <1>1, <1>2 DEF Dirs, Opp

LEMMA ShutsPours ==
  ASSUME NEW n \in Connection, NEW d \in Dirs, NEW c, Shuts(c, n, d)
  PROVE  Pours(c, n)
<1> SUFFICES ASSUME NEW e \in Dirs
             PROVE  (Tidy(n[e]) => Tidy(c[e])) /\ (DataIn(n[e]) => DataIn(c[e]))
  BY DEF Pours
<1>1. CASE e = d
  <2>1. Msg("end").k \in Data
    BY MessageTypes DEF Data
  <2> QED BY <1>1, <2>1, Queues, DataGrows DEF Shuts
<1>2. CASE e = Opp(d)
  <2>1. Less(c[e], n[e])
    BY <1>2, Queues, LessEmpty DEF Shuts
  <2> QED BY <2>1, DataLess DEF Less
<1> QED BY <1>1, <1>2 DEF Dirs, Opp

-----------------------------------------------------------------------------
(* The invariant of the order *)

Excuse ==
  \/ ~(conf.named /\ conf.served /\ conf.targeted)
  \/ conf.binding = "x5t" /\ tok # presented
  \/ troubled

\* All directions are tidy, and nothing but data leaves the tunnel.
Tidiness ==
  /\ \A l \in Lines, d \in Dirs : Tidy(line[l][d])
  /\ \A d \in Dirs : DataIn(line["a"][d]) /\ DataIn(line["b"][d])
  /\ \A g \in Goroutines : /\ copier[g].m.k \in Data
                           /\ copier[g].at = "write" => copier[g].m.k = "byte"

\* How far the handlers can be apart, which ends are closed and which deadlines set.
Positions ==
  /\ egress \in {"token", "dial"} => ingress = "none"
  /\ ingress = "none" => egress \in {"token", "dial", "failed"}
  /\ egress = "hello" => ingress \in {"hello", "failed"}
  /\ "fwd" \in line["t"].closed <=> egress \in {"refused", "failed", "closed"} /\ ingress # "none"
  /\ "bwd" \in line["t"].closed <=> ingress \in {"refused", "failed", "closed"}
  /\ egress \in {"relay", "closed"} => armed["egress"] = "none"
  /\ ingress \in {"dial", "relay", "closed"} => armed["ingress"] = "none"
  /\ accepted => ingress \in {"dial", "relay", "closed"} \/ (ingress = "failed" /\ troubled)

\* What is on its way to the ingress.
Forth ==
  /\ egress \in {"token", "dial", "hello"} => line["t"].fwd = <<>>
  /\ egress = "serverhello" => Len(line["t"].fwd) <= 1
  /\ \A m \in Content(line["t"].fwd) :
       /\ m.k \in {"hello", "auth", "byte", "end"}
       /\ m.k = "hello" => /\ egress = "serverhello" \/ "fwd" \in line["t"].closed
                           /\ ingress = "hello" \/ "bwd" \in line["t"].closed
  /\ ingress \in {"authorize", "dial", "relay", "closed"} => DataIn(line["t"].fwd)

\* What is on its way to the egress.
Back ==
  /\ ingress \in {"none", "hello", "authorize"} => line["t"].bwd = <<>>
  /\ ingress = "frame" => \A m \in Content(line["t"].bwd) : m.k = "hello"
  /\ \A m \in Content(line["t"].bwd) :
       /\ m.k = "hello" => egress = "serverhello" /\ line["t"].fwd = <<>>
       /\ m.k = "no" => ingress = "refused" /\ Excuse
       /\ m.k = "byte" => accepted
  /\ egress \in {"relay", "closed"} => DataIn(line["t"].bwd)

Refusals == egress = "refused" => ~conf.named \/ (ingress = "refused" /\ Excuse)

Order == Tidiness /\ Positions /\ Forth /\ Back /\ Refusals

LEMMA OrderTypes ==
  ASSUME IInv
  PROVE  /\ line \in [Lines -> Connection]
         /\ \A l \in Lines : line[l] \in Connection
         /\ line["a"] \in Connection /\ line["t"] \in Connection /\ line["b"] \in Connection
         /\ line["t"].fwd \in Seq(Message) /\ line["t"].bwd \in Seq(Message)
         /\ Len(line["t"].fwd) \in Nat /\ Len(line["t"].bwd) \in Nat
         /\ "fwd" \in Dirs /\ "bwd" \in Dirs /\ "a" \in Lines /\ "t" \in Lines /\ "b" \in Lines
         /\ Opp("fwd") = "bwd" /\ Opp("bwd") = "fwd"
BY LineTypes, LenProperties DEF IInv, Connection, Dirs, Lines, Opp

LEMMA TidinessKept ==
  ASSUME Tidiness, Alters(line'["t"], line["t"]), Pours(line'["a"], line["a"]),
         Pours(line'["b"], line["b"]),
         \A g \in Goroutines : /\ copier'[g].m.k \in Data
                               /\ copier'[g].at = "write" => copier'[g].m.k = "byte"
  PROVE  Tidiness'
<1>1. "a" \in Lines /\ "t" \in Lines /\ "b" \in Lines /\ \A l \in Lines : l \in {"a", "t", "b"}
  BY DEF Lines
<1>2. Alters(line'["a"], line["a"]) /\ Alters(line'["b"], line["b"])
  BY PoursAlters
<1>3. \A l \in Lines : Alters(line'[l], line[l])
  BY <1>1, <1>2
<1> QED BY <1>3 DEF Tidiness, Alters, Pours

\* Goroutines that only start have nothing in hand.
LEMMA HandsKept ==
  ASSUME Tidiness, UNCHANGED copier \/ \E s \in Sidecars : StartRelay(s)
  PROVE  \A g \in Goroutines : /\ copier'[g].m.k \in Data
                               /\ copier'[g].at = "write" => copier'[g].m.k = "byte"
BY MessageTypes DEF Tidiness, StartRelay, Reading, Data

\* One line of three changes.
LEMMA OnlyOne ==
  ASSUME NEW x \in [Lines -> Connection], NEW l \in Lines, NEW n, NEW y, y = [x EXCEPT ![l] = n]
  PROVE  /\ y[l] = n
         /\ \A k \in Lines : k # l => y[k] = x[k] /\ Pours(y[k], x[k])
<1>1. \A k \in Lines : Pours(x[k], x[k])
  BY SteadySame, SteadyPours
<1> QED BY <1>1

-----------------------------------------------------------------------------
(* forward keeps the order *)

LEMMA BuildAuthFrameOrder == IInv /\ Order /\ BuildAuthFrame => Order'
<1> SUFFICES ASSUME IInv, Order, BuildAuthFrame PROVE Order'
  OBVIOUS
<1>1. /\ line' = line /\ copier' = copier /\ armed' = armed /\ conf' = conf /\ ingress' = ingress
      /\ accepted' = accepted /\ troubled' = troubled /\ presented' = presented
      /\ egress = "token" /\ egress' = "dial"
  BY DEF BuildAuthFrame, relayVars, ingressVars
<1>2. ingress = "none" /\ line["t"].bwd = <<>> /\ Content(line["t"].bwd) = {}
  BY EmptyContent DEF Order, Positions, Back, BuildAuthFrame
<1>3. Tidiness'
  BY <1>1 DEF Order, Tidiness
<1>4. Positions' /\ Forth'
  BY <1>1 DEF Order, Positions, Forth
<1>5. Back' /\ Refusals'
  BY <1>1, <1>2 DEF Order, Back, Refusals
<1> QED BY <1>3, <1>4, <1>5 DEF Order

LEMMA DialOrder == IInv /\ Order /\ Dial => Order'
<1> SUFFICES ASSUME IInv, Order, Dial PROVE Order'
  OBVIOUS
<1>1. /\ line' = line /\ copier' = copier /\ conf' = conf /\ tok' = tok
      /\ armed' = [armed EXCEPT !["ingress"] = "handshake"]
      /\ accepted' = accepted /\ troubled' = troubled /\ presented' = presented
      /\ egress = "dial" /\ egress' = "hello" /\ ingress' = "hello"
  BY DEF Dial, relayVars
<1>2. /\ ingress = "none" /\ line["t"].bwd = <<>> /\ Content(line["t"].bwd) = {}
      /\ line["t"].fwd = <<>> /\ Content(line["t"].fwd) = {} /\ ~accepted
  BY <1>1, EmptyContent DEF Order, Positions, Forth, Back
<1>3. Tidiness'
  BY <1>1 DEF Order, Tidiness
<1>4. Positions' /\ Forth'
  BY <1>1, <1>2 DEF Order, Positions, Forth
<1>5. Back' /\ Refusals'
  BY <1>1, <1>2 DEF Order, Back, Refusals
<1> QED BY <1>3, <1>4, <1>5 DEF Order

LEMMA ClientHelloOrder == IInv /\ Order /\ ClientHello => Order'
<1> SUFFICES ASSUME IInv, Order, ClientHello PROVE Order'
  OBVIOUS
<1> DEFINE hello == [k |-> "hello", v |-> cert]
<1>1. /\ copier' = copier /\ conf' = conf /\ tok' = tok /\ ingress' = ingress
      /\ armed' = [armed EXCEPT !["egress"] = "handshake"]
      /\ accepted' = accepted /\ troubled' = troubled /\ presented' = presented
      /\ egress = "hello" /\ egress' = "serverhello"
  BY DEF ClientHello, ingressVars
<1>2. hello \in Message /\ hello.k = "hello"
  BY DEF IInv, TypeOK, Certs, Message
<1>3. PICK t \in Put(line["t"], "fwd", hello) : line' = [line EXCEPT !["t"] = t]
  BY DEF ClientHello
<1> HIDE DEF hello
<1>4. Wrote(t, line["t"], "fwd", hello)
  BY <1>2, OrderTypes, PutWrote
<1>5. line["t"].fwd = <<>> /\ Content(line["t"].fwd) = {}
  BY <1>1, EmptyContent DEF Order, Forth
<1>6. /\ line'["t"] = t /\ line'["a"] = line["a"] /\ line'["b"] = line["b"]
      /\ Pours(line'["a"], line["a"]) /\ Pours(line'["b"], line["b"])
  BY <1>3, OrderTypes, OnlyOne
<1>7. Tidiness'
  BY <1>1, <1>4, <1>5, <1>6, OrderTypes, WroteAlters, HandsKept, TidinessKept DEF Order
<1>8. /\ t.closed = line["t"].closed /\ Less(t.bwd, line["t"].bwd)
      /\ Len(t.fwd) <= 1 /\ Content(t.fwd) \subseteq {hello}
  <2>1. t.closed = line["t"].closed /\ Less(t.bwd, line["t"].bwd)
    BY <1>4, OrderTypes DEF Wrote
  <2>2. CASE Less(t.fwd, line["t"].fwd)
    <3>1. t.fwd = <<>>
      BY <1>5, <2>2, LessOfEmpty
    <3> QED BY <2>1, <3>1, EmptySeq, EmptyContent
  <2>3. CASE Adding(t.fwd, line["t"].fwd, hello)
    <3>1. Len(t.fwd) = Len(line["t"].fwd) + 1 /\ Len(line["t"].fwd) = 0
      BY <1>2, <1>5, <2>3, AppendProperties, EmptySeq, OrderTypes DEF Adding
    <3>2. Content(t.fwd) \subseteq Content(line["t"].fwd) \cup {hello}
      BY <2>3, AddingTidy, OrderTypes
    <3> QED BY <1>5, <2>1, <3>1, <3>2
  <2> QED BY <1>4, <2>1, <2>2, <2>3, OrderTypes DEF Wrote, Grows
<1>9. ingress \in {"hello", "failed"} /\ ~accepted
  BY <1>1 DEF Order, Positions, IInv, IngressKnows, Early
<1>10. Positions'
  BY <1>1, <1>6, <1>8, <1>9 DEF Order, Positions
<1>11. Forth'
  BY <1>1, <1>2, <1>6, <1>8, <1>9 DEF Order, Positions, Forth
<1>12. Back' /\ Refusals'
  <2>1. line["t"].bwd = <<>> => t.bwd = <<>>
    BY <1>8, LessOfEmpty
  <2> QED BY <1>1, <1>6, <1>8, <2>1 DEF Order, Back, Refusals, Less, Excuse
<1> QED BY <1>7, <1>10, <1>11, <1>12 DEF Order

LEMMA SendAuthFrameOrder == IInv /\ Order /\ SendAuthFrame => Order'
<1> SUFFICES ASSUME IInv, Order, SendAuthFrame PROVE Order'
  OBVIOUS
<1> DEFINE auth == [k |-> "auth", v |-> tok]
           q == line["t"].bwd
<1>1. /\ copier' = copier /\ conf' = conf /\ tok' = tok /\ ingress' = ingress
      /\ armed' = [armed EXCEPT !["egress"] = "auth"]
      /\ accepted' = accepted /\ troubled' = troubled /\ presented' = presented
      /\ egress = "serverhello" /\ egress' = "ack"
      /\ Readable(line["t"], "bwd") /\ Head(q).k = "hello"
  BY DEF SendAuthFrame, ingressVars, EgressHears
<1>2. auth \in Message /\ auth.k = "auth"
  BY DEF IInv, TypeOK, Certs, Message
<1>3. PICK t \in Put(Take(line["t"], "bwd"), "fwd", auth) : line' = [line EXCEPT !["t"] = t]
  BY DEF SendAuthFrame
<1> HIDE DEF auth
<1>4. Wrote(t, line["t"], "fwd", auth) /\ Less(t.bwd, Tail(q))
  BY <1>1, <1>2, OrderTypes, TakePut
<1>5. q # <<>> /\ Head(q) \in Content(q) /\ DataIn(Tail(q)) /\ Less(Tail(q), q)
  BY <1>1, OrderTypes, TakeSteady, TailLess DEF Order, Tidiness
<1>6. line["t"].fwd = <<>> /\ Content(line["t"].fwd) = {}
  BY <1>1, <1>5, EmptyContent DEF Order, Back
<1>7. /\ line'["t"] = t /\ line'["a"] = line["a"] /\ line'["b"] = line["b"]
      /\ Pours(line'["a"], line["a"]) /\ Pours(line'["b"], line["b"])
  BY <1>3, OrderTypes, OnlyOne
<1>8. Tidiness'
  BY <1>1, <1>4, <1>6, <1>7, OrderTypes, WroteAlters, HandsKept, TidinessKept DEF Order
<1>9. t.closed = line["t"].closed /\ Content(t.fwd) \subseteq {auth}
  BY <1>4, <1>6, OrderTypes, AddingTidy DEF Wrote, Grows, Less
<1>10. ingress \notin {"authorize", "dial", "relay", "closed"}
  BY <1>1 DEF IInv, IngressKnows, Early
<1>11. Positions'
  BY <1>1, <1>7, <1>9 DEF Order, Positions
<1>12. Forth'
  BY <1>1, <1>2, <1>7, <1>9, <1>10 DEF Order, Forth
<1>13. Back' /\ Refusals'
  <2>1. DataIn(t.bwd) /\ Content(t.bwd) \subseteq Content(q)
    BY <1>4, <1>5, DataLess DEF Less
  <2>2. \A m \in Content(t.bwd) : m.k \in {"byte", "end"}
    BY <2>1 DEF DataIn, Data
  <2>3. ingress \notin {"none", "hello", "authorize"}
    BY <1>5 DEF Order, Back
  <2>4. ingress = "frame" => \A m \in Content(t.bwd) : m.k = "hello"
    BY <2>1 DEF Order, Back
  <2> QED BY <1>1, <1>7, <2>1, <2>2, <2>3, <2>4 DEF Order, Back, Refusals
<1> QED BY <1>8, <1>11, <1>12, <1>13 DEF Order

LEMMA ReadAckOrder == IInv /\ Order /\ ReadAck => Order'
<1> SUFFICES ASSUME IInv, Order, ReadAck PROVE Order'
  OBVIOUS
<1> DEFINE q == line["t"].bwd
           t == Take(line["t"], "bwd")
<1>1. /\ conf' = conf /\ tok' = tok /\ ingress' = ingress /\ StartRelay("egress")
      /\ armed' = [armed EXCEPT !["egress"] = "none"]
      /\ accepted' = accepted /\ troubled' = troubled /\ presented' = presented
      /\ egress = "ack" /\ egress' = "relay" /\ line' = [line EXCEPT !["t"] = t]
      /\ Readable(line["t"], "bwd")
  BY DEF ReadAck, ingressVars, EgressHears
<1>2. armed'["egress"] = "none" /\ armed'["ingress"] = armed["ingress"]
  BY <1>1 DEF IInv, TypeOK, Sidecars
<1>3. /\ Steady(t, line["t"]) /\ q # <<>> /\ t.bwd = Tail(q) /\ t.fwd = line["t"].fwd
  BY <1>1, OrderTypes, TakeSteady
<1>4. DataIn(Tail(q)) /\ Less(Tail(q), q)
  BY <1>3, OrderTypes, TailLess DEF Order, Tidiness
<1> HIDE DEF t
<1>5. /\ line'["t"] = t /\ line'["a"] = line["a"] /\ line'["b"] = line["b"]
      /\ Pours(line'["a"], line["a"]) /\ Pours(line'["b"], line["b"])
  BY <1>1, OrderTypes, OnlyOne
<1>6. Alters(line'["t"], line["t"])
  BY <1>3, <1>5, OrderTypes, SteadyPours, PoursAlters
<1>7. Tidiness'
  BY <1>1, <1>5, <1>6, HandsKept, TidinessKept DEF Order, Sidecars
<1>8. t.closed = line["t"].closed
  BY <1>3 DEF Steady
<1>9. Positions' /\ Forth'
  BY <1>1, <1>2, <1>3, <1>5, <1>8 DEF Order, Positions, Forth
<1>10. Back' /\ Refusals'
  <2>1. Content(t.bwd) \subseteq Content(q) /\ \A m \in Content(t.bwd) : m.k \in {"byte", "end"}
    BY <1>3, <1>4 DEF Less, DataIn, Data
  <2>2. ingress \notin {"none", "hello", "authorize"}
    BY <1>3 DEF Order, Back
  <2>3. DataIn(t.bwd)
    BY <1>3, <1>4
  <2> QED BY <1>1, <1>5, <2>1, <2>2, <2>3 DEF Order, Back, Refusals
<1> QED BY <1>7, <1>9, <1>10 DEF Order

\* Nothing is left on the tunnel for a handler that has given up.
LEMMA EgressGivesUpOrder ==
  ASSUME IInv, Order, NEW as \in {"refused", "failed", "closed"}, EgressGivesUp(as),
         as = "closed" => egress = "relay", egress \notin {"refused", "failed", "closed", "hello"},
         egress \in {"token", "dial"} => as = "failed", troubled => troubled', troubled' \in BOOLEAN,
         as = "refused" => ~conf.named \/ (ingress = "refused" /\ Excuse)
  PROVE  Order'
<1>1. PICK t \in IF egress \in {"token", "dial"} THEN {line["t"]} ELSE CloseEnd(line["t"], "fwd"),
           a \in CloseEnd(line["a"], "bwd") :
             line' = [line EXCEPT !["t"] = t, !["a"] = a]
  BY DEF EgressGivesUp
<1>2. /\ copier' = copier /\ conf' = conf /\ tok' = tok /\ ingress' = ingress /\ armed' = armed
      /\ accepted' = accepted /\ presented' = presented /\ egress' = as
  BY DEF EgressGivesUp, ingressVars
<1>3. line'["t"] = t /\ line'["a"] = a /\ line'["b"] = line["b"]
  BY <1>1, OrderTypes
<1>4. Shuts(a, line["a"], "bwd")
  BY <1>1, OrderTypes, CloseShuts
<1>5. Pours(a, line["a"]) /\ Pours(line["b"], line["b"])
  BY <1>4, OrderTypes, ShutsPours, SteadySame, SteadyPours
<1>6. Excuse => Excuse'
  BY <1>2 DEF Excuse
<1>7. Refusals'
  BY <1>2, <1>6 DEF Refusals
<1>8. CASE egress \in {"token", "dial"}
  <2>1. t = line["t"] /\ as = "failed" /\ ingress = "none"
    BY <1>1, <1>8 DEF Order, Positions
  <2>2. line["t"].bwd = <<>> /\ Content(line["t"].bwd) = {} /\ line["t"].fwd = <<>>
        /\ Content(line["t"].fwd) = {}
    BY <1>8, <2>1, EmptyContent DEF Order, Forth, Back
  <2>3. Tidiness'
    BY <1>2, <1>3, <1>5, <2>1, HandsKept, TidinessKept DEF Order, Alters
  <2>4. Positions'
    BY <1>2, <1>3, <2>1 DEF Order, Positions
  <2>5. Forth' /\ Back'
    BY <1>2, <1>3, <2>1, <2>2 DEF Order, Forth, Back
  <2> QED BY <1>7, <2>3, <2>4, <2>5 DEF Order
<1>9. CASE egress \notin {"token", "dial"}
  <2>1. Shuts(t, line["t"], "fwd")
    BY <1>1, <1>9, OrderTypes, CloseShuts
  <2>2. /\ t.closed = line["t"].closed \cup {"fwd"} /\ t.bwd = <<>> /\ Content(t.bwd) = {}
        /\ Grows(t.fwd, line["t"].fwd, Msg("end")) /\ Msg("end").k = "end" /\ Msg("end").k \in Data
    BY <2>1, OrderTypes, EmptyContent, MessageTypes DEF Shuts, Data
  <2>3. /\ Content(t.fwd) \subseteq Content(line["t"].fwd) \cup {Msg("end")}
        /\ DataIn(line["t"].fwd) => DataIn(t.fwd)
    BY <2>2, OrderTypes, DataGrows
  <2>4. Alters(t, line["t"])
    BY <2>1, OrderTypes, ShutsPours, PoursAlters
  <2>5. Tidiness'
    BY <1>2, <1>3, <1>5, <2>4, HandsKept, TidinessKept DEF Order
  <2>6. ingress # "none"
    BY <1>9 DEF Order, Positions
  <2>7. Positions'
    <3>1. "fwd" \in line'["t"].closed /\ ("bwd" \in line'["t"].closed <=> "bwd" \in line["t"].closed)
      BY <1>3, <2>2
    <3>2. egress' \in {"refused", "failed", "closed"} /\ (egress' = "closed" => egress = "relay")
      BY <1>2
    <3> QED BY <1>2, <2>6, <3>1, <3>2 DEF Order, Positions
  <2>8. Forth'
    BY <1>2, <1>3, <1>9, <2>2, <2>3 DEF Order, Forth
  <2>9. Back'
    <3>1. DataIn(t.bwd)
      BY <2>2 DEF DataIn
    <3> QED BY <1>2, <1>3, <2>2, <3>1 DEF Back
  <2> QED BY <1>7, <2>5, <2>7, <2>8, <2>9 DEF Order
<1> QED BY <1>8, <1>9

-----------------------------------------------------------------------------
(* accept keeps the order *)

LEMMA ServerHelloOrder == IInv /\ Order /\ ServerHello => Order'
<1> SUFFICES ASSUME IInv, Order, ServerHello PROVE Order'
  OBVIOUS
<1> DEFINE q == line["t"].fwd
           m0 == Msg("hello")
<1>1. /\ copier' = copier /\ conf' = conf /\ tok' = tok /\ egress' = egress
      /\ armed' = [armed EXCEPT !["ingress"] = "auth"]
      /\ accepted' = accepted /\ troubled' = troubled
      /\ ingress = "hello" /\ ingress' = "frame"
      /\ Readable(line["t"], "fwd") /\ Head(q).k = "hello"
  BY DEF ServerHello, egressVars, IngressHears
<1>2. m0 \in Message /\ m0.k = "hello"
  BY MessageTypes
<1>3. PICK t \in Put(Take(line["t"], "fwd"), "bwd", m0) : line' = [line EXCEPT !["t"] = t]
  BY DEF ServerHello
<1> HIDE DEF m0
<1>4. /\ Wrote(t, line["t"], "bwd", m0) /\ Less(t.fwd, Tail(q))
      /\ "fwd" \in line["t"].closed /\ line["t"].bwd = <<>> => t.bwd = <<>>
  BY <1>1, <1>2, OrderTypes, TakePut
<1>5. /\ q # <<>> /\ Head(q) \in Content(q) /\ DataIn(Tail(q)) /\ Less(Tail(q), q)
      /\ Tail(q) \in Seq(Message)
  BY <1>1, OrderTypes, TakeSteady, TailLess DEF Order, Tidiness, Less
<1>6. line["t"].bwd = <<>> /\ Content(line["t"].bwd) = {} /\ egress \notin {"token", "dial", "hello"}
  BY <1>1, <1>5, EmptyContent DEF Order, Back, Forth
<1>7. \/ t.bwd = <<>>
      \/ egress = "serverhello" /\ t.fwd = <<>>
  <2>1. CASE "fwd" \in line["t"].closed
    BY <1>4, <1>6, <2>1
  <2>2. CASE "fwd" \notin line["t"].closed
    <3>1. egress = "serverhello" /\ Len(q) <= 1
      BY <1>1, <1>5, <2>2 DEF Order, Forth
    <3>2. Len(Tail(q)) = Len(q) - 1 /\ Len(q) \in Nat /\ Len(Tail(q)) \in Nat
      BY <1>5, HeadTailProperties, LenProperties, OrderTypes
    <3>3. Len(Tail(q)) = 0
      <4>1. \A i, j \in Nat : j <= 1 /\ i = j - 1 => i = 0
        OBVIOUS
      <4> HIDE DEF q
      <4> QED BY <3>1, <3>2, <4>1
    <3>4. Tail(q) = <<>>
      BY <1>5, <3>3, EmptySeq
    <3>5. t.fwd = <<>>
      BY <1>4, <3>4, LessOfEmpty
    <3> QED BY <3>1, <3>5
  <2> QED BY <2>1, <2>2
<1>8. /\ line'["t"] = t /\ line'["a"] = line["a"] /\ line'["b"] = line["b"]
      /\ Pours(line'["a"], line["a"]) /\ Pours(line'["b"], line["b"])
  BY <1>3, OrderTypes, OnlyOne
<1>9. Tidiness'
  BY <1>1, <1>4, <1>6, <1>8, OrderTypes, WroteAlters, HandsKept, TidinessKept DEF Order
<1>10. t.closed = line["t"].closed /\ Content(t.bwd) \subseteq {m0}
  BY <1>4, <1>6, OrderTypes, AddingTidy DEF Wrote, Grows, Less
<1>11. Positions'
  BY <1>1, <1>6, <1>8, <1>10 DEF Order, Positions
<1>12. Forth'
  <2>1. DataIn(t.fwd) /\ Content(t.fwd) \subseteq Content(q) /\ Len(t.fwd) <= Len(q)
    <3>1. Less(t.fwd, q)
      BY <1>4, <1>5, OrderTypes, LessTrans
    <3> QED BY <1>4, <1>5, <3>1, DataLess DEF Less
  <2>2. \A m \in Content(t.fwd) : m.k \in {"byte", "end"}
    BY <2>1 DEF DataIn, Data
  <2>3. egress = "serverhello" => Len(t.fwd) <= 1
    <3>1. Len(t.fwd) \in Nat /\ Len(q) \in Nat
      BY <1>4, OrderTypes, LenProperties DEF Less
    <3> QED BY <2>1, <3>1 DEF Order, Forth
  <2> QED BY <1>1, <1>6, <1>8, <2>2, <2>3 DEF Forth
<1>13. Back'
  <2>1. egress \notin {"relay", "closed"}
    BY <1>1 DEF IInv, EgressKnows, IngressKnows
  <2>2. \A m \in Content(t.bwd) : m.k = "hello" /\ egress = "serverhello" /\ t.fwd = <<>>
    BY <1>2, <1>7, <1>10, EmptyContent
  <2> QED BY <1>1, <1>8, <2>1, <2>2 DEF Back
<1>14. Refusals'
  BY <1>1 DEF Order, Refusals
<1> QED BY <1>9, <1>11, <1>12, <1>13, <1>14 DEF Order

\* The frame comes when the hello has been read.
LEMMA AtFrame ==
  ASSUME IInv, Order, ingress = "frame", Readable(line["t"], "fwd")
  PROVE  line["t"].bwd = <<>> /\ egress \notin Early /\ Head(line["t"].fwd).k = "auth"
<1> DEFINE h == Head(line["t"].fwd)
<1>1. h \in Content(line["t"].fwd) /\ h.k # "end"
  BY OrderTypes, TakeSteady DEF Readable
<1>2. h.k # "hello" /\ h.k \in {"hello", "auth", "byte", "end"}
  BY <1>1 DEF Order, Forth, Positions
<1>3. h.k # "byte"
  BY <1>1 DEF IInv, TunnelSays, FwdSays, EgressKnows, IngressKnows
<1>4. h.k = "auth" /\ egress \notin Early
  BY <1>1, <1>2, <1>3 DEF IInv, TunnelSays, FwdSays
<1>5. Content(line["t"].bwd) = {}
  BY <1>4 DEF Order, Back, Early
<1> QED BY <1>4, <1>5, OrderTypes, EmptyIffNoContent

LEMMA ReadAuthFrameOrder == IInv /\ Order /\ ReadAuthFrame => Order'
<1> SUFFICES ASSUME IInv, Order, ReadAuthFrame PROVE Order'
  OBVIOUS
<1> DEFINE q == line["t"].fwd
           t == Take(line["t"], "fwd")
<1>1. /\ copier' = copier /\ conf' = conf /\ tok' = tok /\ egress' = egress /\ armed' = armed
      /\ accepted' = accepted /\ troubled' = troubled /\ presented' = presented
      /\ ingress = "frame" /\ ingress' = "authorize" /\ line' = [line EXCEPT !["t"] = t]
      /\ Readable(line["t"], "fwd")
  BY DEF ReadAuthFrame, egressVars, IngressHears
<1>2. line["t"].bwd = <<>> /\ Content(line["t"].bwd) = {} /\ egress \notin Early
  BY <1>1, AtFrame, EmptyContent
<1>3. /\ Steady(t, line["t"]) /\ q # <<>> /\ t.fwd = Tail(q) /\ t.bwd = line["t"].bwd
  BY <1>1, OrderTypes, TakeSteady
<1>4. DataIn(Tail(q)) /\ Less(Tail(q), q)
  BY <1>3, OrderTypes, TailLess DEF Order, Tidiness
<1> HIDE DEF t
<1>5. /\ line'["t"] = t /\ line'["a"] = line["a"] /\ line'["b"] = line["b"]
      /\ Pours(line'["a"], line["a"]) /\ Pours(line'["b"], line["b"])
  BY <1>1, OrderTypes, OnlyOne
<1>6. Alters(line'["t"], line["t"])
  BY <1>3, <1>5, OrderTypes, SteadyPours, PoursAlters
<1>7. Tidiness'
  BY <1>1, <1>5, <1>6, HandsKept, TidinessKept DEF Order
<1>8. t.closed = line["t"].closed
  BY <1>3 DEF Steady
<1>9. Positions'
  BY <1>1, <1>2, <1>5, <1>8 DEF Order, Positions, Early
<1>10. Forth'
  <2>1. Content(t.fwd) \subseteq Content(q) /\ \A m \in Content(t.fwd) : m.k \in {"byte", "end"}
    BY <1>3, <1>4 DEF Less, DataIn, Data
  <2>2. DataIn(t.fwd)
    BY <1>3, <1>4
  <2> QED BY <1>1, <1>2, <1>5, <2>1, <2>2 DEF Forth, Early
<1>11. Back' /\ Refusals'
  <2>1. egress \notin {"relay", "closed"}
    BY <1>1 DEF IInv, EgressKnows, IngressKnows
  <2> QED BY <1>1, <1>2, <1>3, <1>5, <2>1 DEF Order, Back, Refusals
<1> QED BY <1>7, <1>9, <1>10, <1>11 DEF Order

\* accept returns; u is the tunnel with a reason for the refusal on it, if there is one.
LEMMA IngressGivesUpOrder ==
  ASSUME IInv, Order, NEW as \in {"refused", "failed", "closed"}, NEW u, IngressGivesUp(as, u),
         u \in Connection, u.closed = line["t"].closed, Alters(u, line["t"]),
         \A m \in Content(u.bwd) : \/ m \in Content(line["t"].bwd)
                                   \/ m.k = "no" /\ as = "refused" /\ Excuse',
         ingress \notin {"none", "refused", "failed", "closed"},
         as = "closed" => ingress = "relay", as = "refused" => ingress \in {"frame", "authorize"},
         troubled => troubled', troubled' \in BOOLEAN, as = "failed" /\ accepted => troubled'
  PROVE  Order'
<1>1. PICK t \in CloseEnd(u, "bwd"),
           b \in IF ingress = "relay" THEN CloseEnd(line["b"], "fwd") ELSE {line["b"]} :
             line' = [line EXCEPT !["t"] = t, !["b"] = b]
  BY DEF IngressGivesUp
<1>2. /\ copier' = copier /\ conf' = conf /\ tok' = tok /\ egress' = egress /\ armed' = armed
      /\ accepted' = accepted /\ presented' = presented /\ ingress' = as
  BY DEF IngressGivesUp, egressVars
<1>3. line'["t"] = t /\ line'["b"] = b /\ line'["a"] = line["a"]
  BY <1>1, OrderTypes
<1>4. Pours(b, line["b"]) /\ Pours(line["a"], line["a"])
  <2>1. b = line["b"] \/ Shuts(b, line["b"], "fwd")
    BY <1>1, OrderTypes, CloseShuts
  <2> QED BY <2>1, OrderTypes, ShutsPours, SteadySame, SteadyPours
<1>5. Shuts(t, u, "bwd")
  BY <1>1, OrderTypes, CloseShuts
<1>6. /\ t.closed = line["t"].closed \cup {"bwd"} /\ t.fwd = <<>> /\ Content(t.fwd) = {}
      /\ Grows(t.bwd, u.bwd, Msg("end")) /\ Msg("end").k = "end" /\ Msg("end").k \in Data
  BY <1>5, OrderTypes, EmptyContent, MessageTypes DEF Shuts, Data
<1>7. /\ Content(t.bwd) \subseteq Content(u.bwd) \cup {Msg("end")}
      /\ DataIn(u.bwd) => DataIn(t.bwd)
  BY <1>6, OrderTypes, Queues, DataGrows
<1>8. Alters(t, line["t"])
  <2>1. Alters(t, u)
    BY <1>5, OrderTypes, ShutsPours, PoursAlters
  <2> QED BY <2>1 DEF Alters
<1>9. Tidiness'
  BY <1>2, <1>3, <1>4, <1>8, HandsKept, TidinessKept DEF Order
<1>10. Positions'
  <2>1. "bwd" \in line'["t"].closed /\ ("fwd" \in line'["t"].closed <=> "fwd" \in line["t"].closed)
    BY <1>3, <1>6
  <2>2. egress = "hello" => as = "failed"
    BY DEF Order, Positions
  <2>3. as = "refused" => ~accepted
    BY DEF IInv, IngressKnows
  <2> QED BY <1>2, <2>1, <2>2, <2>3 DEF Order, Positions
<1>11. Forth'
  <2>1. Len(t.fwd) <= 1 /\ DataIn(t.fwd)
    <3>1. Len(t.fwd) = 0
      BY <1>6, EmptySeq
    <3> QED BY <1>6, <3>1 DEF DataIn
  <2> QED BY <1>2, <1>3, <1>6, <2>1 DEF Forth
<1>12. Back'
  <2>1. \A m \in Content(u.bwd) : m \in Content(line["t"].bwd) => m.k # "no"
    BY DEF Order, Back
  <2>2. egress \in {"relay", "closed"} => DataIn(t.bwd)
    <3>1. egress \in {"relay", "closed"} => as # "refused"
      BY DEF IInv, EgressKnows, IngressKnows
    <3>2. egress \in {"relay", "closed"} => DataIn(u.bwd)
      BY <3>1 DEF Order, Back, DataIn
    <3> QED BY <1>7, <3>2
  <2> QED BY <1>2, <1>3, <1>6, <1>7, <2>1, <2>2 DEF Order, Back
<1>13. Refusals'
  BY <1>2 DEF Order, Refusals
<1> QED BY <1>9, <1>10, <1>11, <1>12, <1>13 DEF Order

LEMMA QuitsInOrder ==
  ASSUME IInv, Order, NEW as \in {"failed", "closed"}, IngressGivesUp(as, line["t"]),
         ingress \notin {"none", "refused", "failed", "closed"},
         as = "closed" => ingress = "relay",
         troubled => troubled', troubled' \in BOOLEAN, as = "failed" /\ accepted => troubled'
  PROVE  Order'
<1>1. Alters(line["t"], line["t"])
  BY DEF Alters
<1> QED BY <1>1, OrderTypes, IngressGivesUpOrder

LEMMA RefusesInOrder ==
  ASSUME IInv, Order, NEW n, Refuse(n), line["t"].bwd = <<>>, Steady(n, line["t"]),
         ingress \in {"frame", "authorize"}, Excuse', troubled => troubled', troubled' \in BOOLEAN
  PROVE  Order'
<1>1. PICK u \in Put(n, "bwd", Msg("no")) : IngressGivesUp("refused", u)
  BY DEF Refuse
<1>2. /\ n \in Connection /\ n.closed = line["t"].closed /\ n.bwd = <<>> /\ Content(n.bwd) = {}
      /\ Msg("no") \in Message /\ Msg("no").k = "no"
  BY LessOfEmpty, EmptyContent, MessageTypes DEF Steady
<1>3. Wrote(u, n, "bwd", Msg("no"))
  BY <1>1, <1>2, OrderTypes, PutWrote
<1>4. Alters(u, n) /\ Alters(n, line["t"])
  BY <1>2, <1>3, OrderTypes, WroteAlters, SteadyPours, PoursAlters
<1>5. Content(u.bwd) \subseteq {Msg("no")}
  BY <1>2, <1>3, OrderTypes, AddingTidy, Queues DEF Wrote, Grows, Less
<1>6. u \in Connection /\ u.closed = line["t"].closed /\ Alters(u, line["t"])
  BY <1>2, <1>3, <1>4 DEF Wrote, Alters
<1> QED BY <1>1, <1>2, <1>5, <1>6, IngressGivesUpOrder

LEMMA AcceptOrder == IInv /\ Order /\ Accept => Order'
<1> SUFFICES ASSUME IInv, Order, Accept PROVE Order'
  OBVIOUS
<1> DEFINE ok == Msg("ok")
<1>1. /\ copier' = copier /\ conf' = conf /\ tok' = tok /\ egress' = egress
      /\ armed' = [armed EXCEPT !["ingress"] = "none"]
      /\ troubled' = troubled /\ presented' = presented
      /\ ingress = "authorize" /\ ingress' = "dial" /\ accepted' = TRUE
  BY DEF Accept, egressVars
<1>2. armed'["ingress"] = "none" /\ armed'["egress"] = armed["egress"]
  BY <1>1 DEF IInv, TypeOK, Sidecars
<1>3. ok \in Message /\ ok.k = "ok"
  BY MessageTypes
<1>4. PICK t \in Put(line["t"], "bwd", ok) : line' = [line EXCEPT !["t"] = t]
  BY DEF Accept
<1> HIDE DEF ok
<1>5. line["t"].bwd = <<>> /\ Content(line["t"].bwd) = {}
  BY <1>1, EmptyContent DEF Order, Back
<1>6. Wrote(t, line["t"], "bwd", ok)
  BY <1>3, <1>4, OrderTypes, PutWrote
<1>7. /\ line'["t"] = t /\ line'["a"] = line["a"] /\ line'["b"] = line["b"]
      /\ Pours(line'["a"], line["a"]) /\ Pours(line'["b"], line["b"])
  BY <1>4, OrderTypes, OnlyOne
<1>8. Tidiness'
  BY <1>1, <1>5, <1>6, <1>7, OrderTypes, WroteAlters, HandsKept, TidinessKept DEF Order
<1>9. /\ t.closed = line["t"].closed /\ Content(t.bwd) \subseteq {ok}
      /\ Less(t.fwd, line["t"].fwd)
  BY <1>5, <1>6, OrderTypes, AddingTidy DEF Wrote, Grows, Less
<1>10. egress \notin {"relay", "closed"} /\ egress \notin Early
  BY <1>1 DEF IInv, EgressKnows, IngressKnows
<1>11. Positions'
  BY <1>1, <1>2, <1>7, <1>9, <1>10 DEF Order, Positions, Early
<1>12. Forth'
  <2>1. DataIn(t.fwd) /\ Content(t.fwd) \subseteq Content(line["t"].fwd)
    BY <1>1, <1>9, DataLess DEF Order, Forth, Less
  <2> QED BY <1>1, <1>7, <1>9, <1>10, <2>1 DEF Order, Forth, Early
<1>13. Back' /\ Refusals'
  BY <1>1, <1>3, <1>7, <1>9, <1>10 DEF Order, Back, Refusals
<1> QED BY <1>8, <1>11, <1>12, <1>13 DEF Order

LEMMA DialAppOrder == IInv /\ Order /\ DialApp => Order'
<1> SUFFICES ASSUME IInv, Order, DialApp PROVE Order'
  OBVIOUS
<1>1. /\ line' = line /\ conf' = conf /\ tok' = tok /\ egress' = egress /\ armed' = armed
      /\ accepted' = accepted /\ troubled' = troubled /\ presented' = presented
      /\ ingress = "dial" /\ ingress' = "relay" /\ StartRelay("ingress")
  BY DEF DialApp, egressVars
<1>2. Pours(line'["a"], line["a"]) /\ Pours(line'["b"], line["b"]) /\ Alters(line'["t"], line["t"])
  BY <1>1, OrderTypes, SteadySame, SteadyPours, PoursAlters
<1>3. Tidiness'
  BY <1>1, <1>2, HandsKept, TidinessKept DEF Order, Sidecars
<1>4. Positions' /\ Forth' /\ Back' /\ Refusals'
  BY <1>1 DEF Order, Positions, Forth, Back, Refusals, Excuse
<1> QED BY <1>3, <1>4 DEF Order

-----------------------------------------------------------------------------
(* relay, the applications and the network keep the order *)

\* The d end of the tunnel has a relay that writes.
Relays(d) == IF d = "fwd" THEN egress \in {"relay", "closed"} ELSE ingress \in {"relay", "closed"}

\* What a relay and the network may do to a direction of the tunnel.
Carries(p, q, d) == Less(p, q) \/ (Relays(d) /\ \E m \in Message : m.k \in Data /\ Adding(p, q, m))

LEMMA WroteCarries ==
  ASSUME NEW n \in Connection, NEW d \in Dirs, NEW m \in Message, NEW c, Wrote(c, n, d, m),
         m.k \in Data, Relays(d)
  PROVE  \A e \in Dirs : Carries(c[e], n[e], e)
BY DEF Wrote, Grows, Carries, Dirs, Opp

LEMMA SteadyCarries == ASSUME NEW n, NEW c, Steady(c, n) PROVE \A e \in Dirs : Carries(c[e], n[e], e)
BY DEF Steady, Carries, Dirs

\* A step that moves no handler and changes one connection.
LEMMA LineOrder ==
  ASSUME IInv, Order, UNCHANGED <<conf, egressVars, ingressVars, armed>>,
         troubled => troubled', troubled' \in BOOLEAN,
         \A g \in Goroutines : /\ copier'[g].m.k \in Data
                               /\ copier'[g].at = "write" => copier'[g].m.k = "byte",
         NEW l \in Lines, NEW n, line' = [line EXCEPT ![l] = n], Pours(n, line[l]),
         l = "t" => /\ n.closed = line["t"].closed
                    /\ \A d \in Dirs : Carries(n[d], line["t"][d], d)
  PROVE  Order'
<1> DEFINE t == line'["t"]
<1>1. /\ conf' = conf /\ egress' = egress /\ tok' = tok /\ ingress' = ingress
      /\ presented' = presented /\ accepted' = accepted /\ armed' = armed
  BY DEF egressVars, ingressVars
<1>2. \A k \in Lines : line'[k] = (IF k = l THEN n ELSE line[k]) /\ Pours(line'[k], line[k])
  BY OrderTypes, SteadySame, SteadyPours
<1>3. /\ Pours(line'["a"], line["a"]) /\ Pours(line'["b"], line["b"])
      /\ Alters(line'["t"], line["t"]) /\ Pours(line'["t"], line["t"])
  BY <1>2, OrderTypes, PoursAlters
<1>4. Tidiness'
  BY <1>3, TidinessKept DEF Order
<1>5. t.closed = line["t"].closed /\ Carries(t.fwd, line["t"].fwd, "fwd") /\ Carries(t.bwd, line["t"].bwd, "bwd")
  <2>1. CASE l = "t"
    BY <1>2, <2>1 DEF Dirs
  <2>2. CASE l # "t"
    <3>1. t = line["t"]
      BY <1>2, <2>2, OrderTypes
    <3> QED BY <3>1, OrderTypes, LessSame DEF Carries
  <2> QED BY <2>1, <2>2
<1>6. /\ DataIn(line["t"].fwd) => DataIn(t.fwd)
      /\ DataIn(line["t"].bwd) => DataIn(t.bwd)
  BY <1>3, OrderTypes DEF Pours
<1> HIDE DEF t
<1>7. /\ \/ Less(t.fwd, line["t"].fwd)
         \/ egress \in {"relay", "closed"} /\ \E m \in Message : m.k \in Data /\ Adding(t.fwd, line["t"].fwd, m)
      /\ \/ Less(t.bwd, line["t"].bwd)
         \/ ingress \in {"relay", "closed"} /\ \E m \in Message : m.k \in Data /\ Adding(t.bwd, line["t"].bwd, m)
  BY <1>5 DEF Carries, Relays
<1>8. /\ t.fwd \in Seq(Message) /\ t.bwd \in Seq(Message)
      /\ \A m \in Content(t.fwd) : m \in Content(line["t"].fwd) \/ m.k \in Data
      /\ \A m \in Content(t.bwd) : \/ m \in Content(line["t"].bwd)
                                   \/ m.k \in Data /\ ingress \in {"relay", "closed"}
      /\ egress \notin {"relay", "closed"} => Less(t.fwd, line["t"].fwd)
      /\ ingress \notin {"relay", "closed"} => Less(t.bwd, line["t"].bwd)
  BY <1>7, OrderTypes, AddingTidy DEF Less
<1>9. /\ Len(t.fwd) \in Nat
      /\ egress \notin {"relay", "closed"} => Len(t.fwd) <= Len(line["t"].fwd)
      /\ egress \notin {"relay", "closed"} /\ line["t"].fwd = <<>> => t.fwd = <<>>
      /\ ingress \notin {"relay", "closed"} /\ line["t"].bwd = <<>> => t.bwd = <<>>
  BY <1>8, LessOfEmpty, LenProperties DEF Less
<1>10. Positions'
  BY <1>1, <1>5 DEF Order, Positions, t
<1>11. Forth'
  <2>1. egress = "serverhello" => Len(t.fwd) <= 1
    <3>1. Len(line["t"].fwd) \in Nat
      BY OrderTypes
    <3>2. egress = "serverhello" => Len(line["t"].fwd) <= 1
      BY DEF Order, Forth
    <3> QED BY <1>9, <3>1, <3>2
  <2>2. \A m \in Content(t.fwd) :
          /\ m.k \in {"hello", "auth", "byte", "end"}
          /\ m.k = "hello" => /\ egress = "serverhello" \/ "fwd" \in t.closed
                              /\ ingress = "hello" \/ "bwd" \in t.closed
    BY <1>5, <1>8 DEF Order, Forth, Data
  <2> QED BY <1>1, <1>6, <1>9, <2>1, <2>2 DEF Order, Forth, t
<1>12. Back'
  <2>1. Excuse => Excuse'
    BY <1>1 DEF Excuse
  <2>2. ingress \in {"relay", "closed"} => accepted
    BY DEF IInv, IngressKnows
  <2>3. \A m \in Content(t.bwd) :
          /\ m.k = "hello" => egress = "serverhello" /\ t.fwd = <<>>
          /\ m.k = "no" => ingress = "refused" /\ Excuse
          /\ m.k = "byte" => accepted
    BY <1>8, <1>9, <2>2 DEF Order, Back, Data
  <2>4. ingress = "frame" => \A m \in Content(t.bwd) : m.k = "hello"
    BY <1>8 DEF Order, Back, Less
  <2> QED BY <1>1, <1>6, <1>9, <2>1, <2>3, <2>4 DEF Order, Back, t
<1>13. Refusals'
  BY <1>1 DEF Order, Refusals, Excuse
<1> QED BY <1>4, <1>10, <1>11, <1>12, <1>13 DEF Order

\* The relay of s runs when its goroutine does, and reads data.
LEMMA CopierAt ==
  ASSUME IInv, Order, NEW s \in Sidecars, NEW d \in Dirs, copier[<<s, d>>].at # "off"
  PROVE  /\ Src(s, d) \in Lines /\ Dst(s, d) \in Lines /\ <<s, d>> \in Goroutines
         /\ line[Src(s, d)] \in Connection /\ line[Dst(s, d)] \in Connection
         /\ Dst(s, d) = "t" => Relays(d)
         /\ DataIn(line[Src(s, d)][d])
         /\ copier \in [Goroutines -> [at : {"off", "read", "write", "done"}, m : Message]]
<1>1. /\ Src(s, d) \in Lines /\ Dst(s, d) \in Lines /\ <<s, d>> \in Goroutines
      /\ copier \in [Goroutines -> [at : {"off", "read", "write", "done"}, m : Message]]
  BY DstTypes DEF IInv, TypeOK
<1>2. /\ s = "egress" => egress \in {"relay", "closed"}
      /\ s = "ingress" => ingress \in {"relay", "closed"}
  BY DEF IInv, TypeOK
<1>3. Dst(s, d) = "t" => Relays(d)
  BY <1>2 DEF Dst, Src, Opp, Relays, Sidecars, Dirs
<1>4. /\ egress \in {"relay", "closed"} => DataIn(line["t"].bwd)
      /\ ingress \in {"relay", "closed"} => DataIn(line["t"].fwd)
      /\ DataIn(line["a"].fwd) /\ DataIn(line["b"].bwd)
  BY OrderTypes DEF Order, Forth, Back, Tidiness
<1>5. DataIn(line[Src(s, d)][d])
  BY <1>2, <1>4 DEF Src, Sidecars, Dirs
<1> QED BY <1>1, <1>3, <1>5, OrderTypes

\* What a goroutine has in hand after a step of one of them.
LEMMA HandsOf ==
  ASSUME Order, NEW g \in Goroutines, NEW c, copier' = [copier EXCEPT ![g] = c],
         copier \in [Goroutines -> [at : {"off", "read", "write", "done"}, m : Message]],
         c.m.k \in Data, c.at = "write" => c.m.k = "byte"
  PROVE  \A h \in Goroutines : /\ copier'[h].m.k \in Data
                               /\ copier'[h].at = "write" => copier'[h].m.k = "byte"
<1>1. \A h \in Goroutines : copier'[h] = IF h = g THEN c ELSE copier[h]
  OBVIOUS
<1> QED BY <1>1 DEF Order, Tidiness

LEMMA CopyOrder ==
  ASSUME IInv, Order, NEW s \in Sidecars, NEW d \in Dirs, Copying(s, d)
  PROVE  Order'
<1> DEFINE src == Src(s, d)
           dst == Dst(s, d)
           g == <<s, d>>
<1>1. /\ UNCHANGED <<conf, egressVars, ingressVars, armed>> /\ troubled' = troubled
      /\ troubled \in BOOLEAN /\ Copy(s, d, armed[s] # "none")
  BY DEF Copying, IInv, TypeOK
<1>2. copier[g].at # "off"
  BY <1>1 DEF Copy, CopyRead, CopyWrite, CopyEnd, Returns
<1>3. /\ src \in Lines /\ dst \in Lines /\ g \in Goroutines
      /\ line[src] \in Connection /\ line[dst] \in Connection
      /\ dst = "t" => Relays(d)
      /\ DataIn(line[src][d])
      /\ copier \in [Goroutines -> [at : {"off", "read", "write", "done"}, m : Message]]
  BY <1>2, CopierAt
<1>4. ASSUME NEW m \in Message, m.k \in Data, NEW n \in Put(line[dst], d, m),
             line' = [line EXCEPT ![dst] = n],
             \A h \in Goroutines : /\ copier'[h].m.k \in Data
                                   /\ copier'[h].at = "write" => copier'[h].m.k = "byte"
      PROVE  Order'
  <2>1. Wrote(n, line[dst], d, m)
    BY <1>3, <1>4, PutWrote
  <2>2. Pours(n, line[dst])
    BY <1>3, <1>4, <2>1, WrotePours
  <2>3. dst = "t" => n.closed = line["t"].closed /\ \A e \in Dirs : Carries(n[e], line["t"][e], e)
    <3> SUFFICES ASSUME dst = "t" PROVE n.closed = line["t"].closed /\ \A e \in Dirs : Carries(n[e], line["t"][e], e)
      OBVIOUS
    <3>1. Wrote(n, line["t"], d, m) /\ Relays(d) /\ line["t"] \in Connection
      BY <1>3, <2>1
    <3> QED BY <1>4, <3>1, WroteCarries DEF Wrote
  <2> HIDE DEF dst
  <2> QED BY <1>1, <1>3, <1>4, <2>2, <2>3, LineOrder
<1>5. CASE CopyRead(s, d)
  <2> DEFINE c == [at |-> "write", m |-> Head(line[src][d])]
             n == Take(line[src], d)
  <2>1. /\ Readable(line[src], d) /\ copier' = [copier EXCEPT ![g] = c]
        /\ line' = [line EXCEPT ![src] = n]
    BY <1>5 DEF CopyRead
  <2>2. Steady(n, line[src]) /\ Head(line[src][d]) \in Content(line[src][d])
    BY <1>3, <2>1, TakeSteady
  <2>3. c.m.k = "byte" /\ c.at = "write" /\ c.m.k \in Data
    BY <1>3, <2>1, <2>2 DEF DataIn, Data, Readable
  <2> HIDE DEF c, n
  <2>4. \A h \in Goroutines : /\ copier'[h].m.k \in Data
                              /\ copier'[h].at = "write" => copier'[h].m.k = "byte"
    BY <1>3, <2>1, <2>3, HandsOf
  <2>5. Pours(n, line[src])
    BY <1>3, <2>2, SteadyPours
  <2>6. src = "t" => n.closed = line["t"].closed /\ \A e \in Dirs : Carries(n[e], line["t"][e], e)
    <3> SUFFICES ASSUME src = "t" PROVE n.closed = line["t"].closed /\ \A e \in Dirs : Carries(n[e], line["t"][e], e)
      OBVIOUS
    <3>1. Steady(n, line["t"])
      BY <2>2
    <3> QED BY <3>1, SteadyCarries DEF Steady
  <2> HIDE DEF src
  <2> QED BY <1>1, <1>3, <2>1, <2>4, <2>5, <2>6, LineOrder
<1>6. CASE CopyWrite(s, d)
  <2>1. PICK n \in Put(line[dst], d, copier[g].m) : line' = [line EXCEPT ![dst] = n]
    BY <1>6 DEF CopyWrite
  <2>2. copier' = [copier EXCEPT ![g] = Reading] /\ copier[g].m \in Message /\ copier[g].m.k \in Data
    BY <1>3, <1>6 DEF CopyWrite, Order, Tidiness
  <2>3. Reading.m.k \in Data /\ Reading.at # "write"
    BY MessageTypes DEF Reading, Data
  <2>4. \A h \in Goroutines : /\ copier'[h].m.k \in Data
                              /\ copier'[h].at = "write" => copier'[h].m.k = "byte"
    BY <1>3, <2>2, <2>3, HandsOf
  <2> HIDE DEF g
  <2> QED BY <1>4, <2>1, <2>2, <2>4
<1>7. CASE CopyEnd(s, d, armed[s] # "none")
  <2> DEFINE c == [at |-> "done", m |-> Msg("end")]
  <2>1. PICK n \in Put(line[dst], d, Msg("end")) : line' = [line EXCEPT ![dst] = n]
    BY <1>7 DEF CopyEnd, PassEnd
  <2>2. copier' = [copier EXCEPT ![g] = c] /\ c.m.k \in Data /\ c.at # "write"
    BY <1>7, MessageTypes DEF CopyEnd, PassEnd, Data
  <2> HIDE DEF c
  <2>3. \A h \in Goroutines : /\ copier'[h].m.k \in Data
                              /\ copier'[h].at = "write" => copier'[h].m.k = "byte"
    BY <1>3, <2>2, HandsOf
  <2>4. Msg("end") \in Message /\ Msg("end").k \in Data
    BY MessageTypes DEF Data
  <2> QED BY <1>4, <2>1, <2>3, <2>4
<1> QED BY <1>1, <1>5, <1>6, <1>7 DEF Copy

LEMMA UsingOrder ==
  ASSUME IInv, Order, NEW d \in Dirs, Using(d) \/ AppLeaves(d)
  PROVE  Order'
<1> DEFINE l == AppLine(d)
<1>1. /\ UNCHANGED <<conf, egressVars, ingressVars, armed>> /\ (troubled => troubled')
      /\ troubled' \in BOOLEAN /\ (AppSteps(d) \/ AppGone(d))
  BY DEF Using, AppLeaves, IInv, TypeOK
<1>2. UNCHANGED copier
  BY <1>1 DEF AppSteps, AppWrite, AppShut, AppRead, AppClose, AppGone
<1>3. l \in Lines /\ l # "t" /\ line[l] \in Connection /\ Opp(d) \in Dirs
  BY OrderTypes DEF AppLine, Dirs, Lines, Opp
<1>4. \A h \in Goroutines : /\ copier'[h].m.k \in Data
                            /\ copier'[h].at = "write" => copier'[h].m.k = "byte"
  BY <1>2, HandsKept DEF Order
<1>5. \E n : line' = [line EXCEPT ![l] = n] /\ Pours(n, line[l])
  <2>1. CASE AppWrite(d) \/ AppShut(d)
    <3>1. PICK m \in {Msg("byte"), Msg("end")} : \E n \in Put(line[l], d, m) : line' = [line EXCEPT ![l] = n]
      BY <2>1 DEF AppWrite, AppShut, AppPuts
    <3>2. m \in Message /\ m.k \in Data
      BY MessageTypes DEF Data
    <3> QED BY <1>3, <3>1, <3>2, PutWrote, WrotePours
  <2>2. CASE AppRead(d)
    <3>1. \/ line' = [line EXCEPT ![l] = Take(line[l], Opp(d))] /\ Readable(line[l], Opp(d))
          \/ line' = line
      BY <2>2 DEF AppRead
    <3>2. CASE line' = line
      <4>1. line' = [line EXCEPT ![l] = line[l]]
        BY <3>2, OrderTypes
      <4>2. Pours(line[l], line[l])
        BY <1>3, SteadySame, SteadyPours
      <4> QED BY <4>1, <4>2
    <3>3. CASE line' = [line EXCEPT ![l] = Take(line[l], Opp(d))] /\ Readable(line[l], Opp(d))
      BY <1>3, <3>3, TakeSteady, SteadyPours
    <3> QED BY <3>1, <3>2, <3>3
  <2>3. CASE AppClose(d) \/ AppGone(d)
    <3>1. PICK n \in CloseEnd(line[l], d) : line' = [line EXCEPT ![l] = n]
      BY <2>3 DEF AppClose, AppGone
    <3> QED BY <1>3, <3>1, CloseShuts, ShutsPours
  <2> QED BY <1>1, <2>1, <2>2, <2>3 DEF AppSteps
<1> HIDE DEF l
<1> QED BY <1>1, <1>3, <1>4, <1>5, LineOrder

LEMMA AroundOrder == IInv /\ Order /\ (Renew \/ NetworkLost \/ TunnelBreaks) => Order'
<1> SUFFICES ASSUME IInv, Order, Renew \/ NetworkLost \/ TunnelBreaks PROVE Order'
  OBVIOUS
<1>1. /\ UNCHANGED <<copier, conf, egressVars, ingressVars, armed>>
      /\ (troubled => troubled') /\ troubled' \in BOOLEAN
  BY DEF Renew, NetworkLost, TunnelBreaks, relayVars, IInv, TypeOK
<1>2. \A h \in Goroutines : /\ copier'[h].m.k \in Data
                            /\ copier'[h].at = "write" => copier'[h].m.k = "byte"
  BY <1>1, HandsKept DEF Order
<1>3. \E n : line' = [line EXCEPT !["t"] = n] /\ Steady(n, line["t"])
  <2>1. CASE Renew
    <3>1. line' = [line EXCEPT !["t"] = line["t"]]
      BY <2>1, OrderTypes DEF Renew, relayVars
    <3> QED BY <3>1, OrderTypes, SteadySame
  <2>2. CASE NetworkLost
    <3> DEFINE n == [line["t"] EXCEPT !.cut = TRUE]
    <3>1. line' = [line EXCEPT !["t"] = n]
      BY <2>2 DEF NetworkLost
    <3>2. /\ n \in Connection /\ n.fwd = line["t"].fwd /\ n.bwd = line["t"].bwd
          /\ n.closed = line["t"].closed
      BY OrderTypes DEF Connection
    <3>3. Steady(n, line["t"])
      BY <3>2, OrderTypes, LessSame DEF Steady
    <3> QED BY <3>1, <3>3
  <2>3. CASE TunnelBreaks
    BY <2>3, OrderTypes, ResetsLess DEF TunnelBreaks
  <2> QED BY <2>1, <2>2, <2>3
<1>4. PICK n : line' = [line EXCEPT !["t"] = n] /\ Steady(n, line["t"])
  BY <1>3
<1>5. /\ Pours(n, line["t"]) /\ n.closed = line["t"].closed
      /\ \A e \in Dirs : Carries(n[e], line["t"][e], e)
  BY <1>4, OrderTypes, SteadyPours, SteadyCarries DEF Steady
<1> QED BY <1>1, <1>2, <1>4, <1>5, OrderTypes, LineOrder

-----------------------------------------------------------------------------
(* Messages stay apart, and a refusal has a cause *)

LEMMA ForwardOrder == IInv /\ Order /\ (Forward \/ EgressExpires) => Order'
<1> SUFFICES ASSUME IInv, Order, Forward \/ EgressExpires PROVE Order'
  OBVIOUS
<1>1. CASE BuildAuthFrame \/ Dial \/ ClientHello \/ SendAuthFrame \/ ReadAck
  BY <1>1, BuildAuthFrameOrder, DialOrder, ClientHelloOrder, SendAuthFrameOrder, ReadAckOrder
<1>2. troubled \in BOOLEAN
  BY DEF IInv, TypeOK
<1>3. CASE EgressRefused
  <2>1. /\ egress \in {"serverhello", "ack"} /\ EgressGivesUp("refused") /\ troubled' = troubled
        /\ conf.named => EgressHears("no")
    BY <1>3 DEF EgressRefused
  <2>2. conf.named => ingress = "refused" /\ Excuse
    <3>1. EgressHears("no") => Head(line["t"].bwd) \in Content(line["t"].bwd) /\ Head(line["t"].bwd).k = "no"
      BY OrderTypes, TakeSteady DEF EgressHears
    <3> QED BY <2>1, <3>1 DEF Order, Back
  <2> QED BY <1>2, <2>1, <2>2, EgressGivesUpOrder
<1>4. CASE EgressCut
  BY <1>2, <1>4, EgressGivesUpOrder DEF EgressCut
<1>5. CASE EgressExpires
  BY <1>5, EgressGivesUpOrder DEF EgressExpires
<1>6. CASE EgressReturns
  BY <1>2, <1>6, EgressGivesUpOrder DEF EgressReturns
<1> QED BY <1>1, <1>3, <1>4, <1>5, <1>6 DEF Forward

LEMMA AcceptingOrder == IInv /\ Order /\ (AcceptSteps \/ IngressExpires) => Order'
<1> SUFFICES ASSUME IInv, Order, AcceptSteps \/ IngressExpires PROVE Order'
  OBVIOUS
<1>1. CASE ServerHello \/ ReadAuthFrame \/ Accept \/ DialApp
  BY <1>1, ServerHelloOrder, ReadAuthFrameOrder, AcceptOrder, DialAppOrder
<1>2. troubled \in BOOLEAN /\ (accepted => ingress \notin {"none", "hello", "frame", "authorize"})
  BY DEF IInv, TypeOK, IngressKnows
<1>3. CASE HelloRefused
  BY <1>2, <1>3, QuitsInOrder DEF HelloRefused
<1>4. CASE RefuseFrame
  <2> DEFINE n == Take(line["t"], "fwd")
  <2>1. /\ ingress = "frame" /\ Readable(line["t"], "fwd") /\ Refuse(n)
        /\ ~((Head(line["t"].fwd)).k = "auth" /\ conf.served /\ conf.targeted)
        /\ troubled' = troubled
    BY <1>4 DEF RefuseFrame, IngressHears
  <2>2. line["t"].bwd = <<>> /\ ~(conf.named /\ conf.served /\ conf.targeted)
    BY <2>1, AtFrame
  <2>3. Steady(n, line["t"])
    BY <2>1, OrderTypes, TakeSteady
  <2>4. conf' = conf
    BY <2>1 DEF Refuse, IngressGivesUp
  <2>5. Excuse'
    BY <2>2, <2>4 DEF Excuse
  <2> HIDE DEF n
  <2> QED BY <1>2, <2>1, <2>2, <2>3, <2>5, RefusesInOrder
<1>5. CASE Reject
  <2>1. ingress = "authorize" /\ ~Binds /\ Refuse(line["t"]) /\ troubled' = troubled
    BY <1>5 DEF Reject
  <2>2. conf.binding = "x5t" /\ tok # presented
    BY <2>1 DEF Binds, IInv, IngressKnows, TypeOK, Configurations
  <2>3. conf' = conf /\ tok' = tok /\ presented' = presented
    BY <2>1 DEF Refuse, IngressGivesUp, egressVars
  <2>4. Excuse' /\ line["t"].bwd = <<>>
    BY <2>1, <2>2, <2>3 DEF Excuse, Order, Back
  <2> QED BY <1>2, <2>1, <2>4, OrderTypes, SteadySame, RefusesInOrder
<1>6. CASE RejectOther
  <2>1. ingress = "authorize" /\ Refuse(line["t"]) /\ troubled' = TRUE
    BY <1>6 DEF RejectOther
  <2>2. Excuse' /\ line["t"].bwd = <<>>
    BY <2>1 DEF Excuse, Order, Back
  <2> QED BY <2>1, <2>2, OrderTypes, SteadySame, RefusesInOrder
<1>7. CASE AppUnreachable
  BY <1>7, QuitsInOrder DEF AppUnreachable
<1>8. CASE IngressCut
  BY <1>2, <1>8, QuitsInOrder DEF IngressCut
<1>9. CASE IngressExpires
  BY <1>2, <1>9, QuitsInOrder DEF IngressExpires
<1>10. CASE IngressReturns
  BY <1>2, <1>10, QuitsInOrder DEF IngressReturns
<1> QED BY <1>1, <1>3, <1>4, <1>5, <1>6, <1>7, <1>8, <1>9, <1>10 DEF AcceptSteps

LEMMA OrderAtFirst == Init => Order
<1> SUFFICES ASSUME Init PROVE Order
  OBVIOUS
<1>1. /\ "a" \in Lines /\ "t" \in Lines /\ "b" \in Lines
      /\ \A l \in Lines : line[l].fwd = <<>> /\ line[l].bwd = <<>> /\ line[l].closed = {}
      /\ egress = "token" /\ ingress = "none" /\ accepted = FALSE
      /\ \A g \in Goroutines : copier[g].at = "off" /\ copier[g].m.k = "end"
  BY MessageTypes DEF Init, Lines, Fresh, Off
<1>2. Content(<<>>) = {} /\ Len(<<>>) = 0 /\ Tidy(<<>>) /\ DataIn(<<>>)
  BY EmptyContent, EmptySeq DEF Tidy, DataIn
<1>3. Tidiness
  BY <1>1, <1>2 DEF Tidiness, Dirs, Data
<1>4. Positions
  BY <1>1 DEF Positions
<1>5. Forth /\ Back
  BY <1>1, <1>2 DEF Forth, Back
<1>6. Refusals
  BY <1>1 DEF Refusals
<1> QED BY <1>3, <1>4, <1>5, <1>6 DEF Order

LEMMA OrderStutters == IInv /\ Order /\ UNCHANGED vars => Order'
<1> SUFFICES ASSUME IInv, Order, UNCHANGED vars PROVE Order'
  OBVIOUS
<1>1. /\ line' = line /\ copier' = copier /\ conf' = conf /\ egress' = egress /\ tok' = tok
      /\ ingress' = ingress /\ presented' = presented /\ accepted' = accepted
      /\ armed' = armed /\ troubled' = troubled
  BY DEF vars, relayVars, egressVars, ingressVars
<1>2. Tidiness' /\ Positions'
  BY <1>1 DEF Order, Tidiness, Positions
<1>3. Forth' /\ Back' /\ Refusals'
  BY <1>1 DEF Order, Forth, Back, Refusals, Excuse
<1> QED BY <1>2, <1>3 DEF Order

LEMMA OrderInvariance == Spec => [](IInv /\ Order)
<1>1. IInv /\ Order /\ [Next]_vars => Order'
  <2>1. IInv /\ Order /\ Next => Order'
    BY ForwardOrder, AcceptingOrder, CopyOrder, UsingOrder, AroundOrder DEF Next
  <2> QED BY <2>1, OrderStutters
<1> QED BY <1>1, OrderAtFirst, Invariance, PTL DEF Spec

\* Whatever renewals, lost networks, deadlines, refusals and leaving applications come
\* between: a message of the set-up never leaves the tunnel for an application, and a
\* byte of an application is never where a sidecar expects a message of the set-up.
THEOREM Separated == Spec => []MessagesStayInTunnel
<1>1. IInv /\ Order => MessagesStayInTunnel
  <2> SUFFICES ASSUME IInv, Order PROVE MessagesStayInTunnel
    OBVIOUS
  <2>1. \A l \in {"a", "b"}, d \in Dirs : \A i \in 1..Len(line[l][d]) : line[l][d][i].k \in {"byte", "end"}
    <3>1. \A l \in {"a", "b"}, d \in Dirs : DataIn(line[l][d])
      BY DEF Order, Tidiness
    <3> QED BY <3>1 DEF DataIn, Data, Content
  <2>2. ASSUME NEW i \in 1..Len(line["t"].fwd), line["t"].fwd[i].k = "byte"
        PROVE  ingress \notin {"hello", "frame"}
    <3>1. egress \in {"relay", "closed"}
      BY <2>2, OrderTypes, ContentOf DEF IInv, TunnelSays, FwdSays
    <3> QED BY <3>1 DEF IInv, EgressKnows, IngressKnows
  <2>3. ASSUME NEW i \in 1..Len(line["t"].bwd), line["t"].bwd[i].k = "byte"
        PROVE  egress # "serverhello"
    <3>1. accepted
      BY <2>3, OrderTypes, ContentOf DEF Order, Back
    <3> QED BY <3>1 DEF IInv, IngressKnows, Early
  <2> QED BY <2>1, <2>2, <2>3 DEF MessagesStayInTunnel
<1> QED BY <1>1, OrderInvariance, PTL

\* A sidecar that is refused was configured for another peer, or its certificate was
\* renewed between its token and its handshake, or something else went wrong.
THEOREM RefusedForCause == Spec => []RefusedOnlyIfRenewed
<1>1. IInv /\ Order => RefusedOnlyIfRenewed
  BY DEF Order, Refusals, Excuse, RefusedOnlyIfRenewed
<1> QED BY <1>1, OrderInvariance, PTL

-----------------------------------------------------------------------------
(* The number of bytes on a direction *)

Bytes(q) == Cardinality({i \in 1..Len(q) : q[i].k = "byte"})
HasEnd(q) == \E m \in Content(q) : m.k = "end"

LEMMA BytesNat ==
  ASSUME NEW q \in Seq(Message)
  PROVE  /\ Bytes(q) \in Nat /\ IsFiniteSet({i \in 1..Len(q) : q[i].k = "byte"})
         /\ Bytes(q) = 0 <=> \A m \in Content(q) : m.k # "byte"
<1> DEFINE B == {i \in 1..Len(q) : q[i].k = "byte"}
<1>1. Len(q) \in Nat /\ B \in SUBSET (1..Len(q))
  BY LenProperties
<1>2. IsFiniteSet(B)
  <2>1. IsFiniteSet(1..Len(q))
    <3>1. 1 \in Int /\ Len(q) \in Int
      BY <1>1
    <3> QED BY <3>1, FS_Interval
  <2> QED BY <1>1, <2>1, FS_Subset
<1>3. Cardinality(B) \in Nat /\ (Cardinality(B) = 0 <=> B = {})
  BY <1>2, FS_CardinalityType, FS_EmptySet
<1> QED BY <1>2, <1>3 DEF Bytes, Content

LEMMA BytesEmpty == Bytes(<<>>) = 0 /\ ~HasEnd(<<>>)
BY EmptyContent, BytesNat DEF HasEnd

LEMMA BytesAppend ==
  ASSUME NEW q \in Seq(Message), NEW m \in Message
  PROVE  /\ Bytes(Append(q, m)) = Bytes(q) + (IF m.k = "byte" THEN 1 ELSE 0)
         /\ HasEnd(Append(q, m)) => HasEnd(q) \/ m.k = "end"
<1> DEFINE t == Append(q, m)
           B == {i \in 1..Len(q) : q[i].k = "byte"}
           C == {i \in 1..Len(t) : t[i].k = "byte"}
           l == Len(q) + 1
<1>1. /\ t \in Seq(Message) /\ Len(t) = Len(q) + 1 /\ Len(q) \in Nat /\ t[Len(q) + 1] = m
      /\ \A i \in 1..Len(q) : t[i] = q[i]
  BY AppendProperties, LenProperties
<1>2. HasEnd(t) => HasEnd(q) \/ m.k = "end"
  BY AppendContent DEF HasEnd
<1> HIDE DEF t
<1>3. \A i : i \in 1..Len(t) <=> i \in 1..Len(q) \/ i = l
  BY <1>1
<1>4. l \notin 1..Len(q)
  BY <1>1
<1>5. C = IF m.k = "byte" THEN B \cup {l} ELSE B
  BY <1>1, <1>3, <1>4
<1>6. l \notin B
  BY <1>4
<1>7. IsFiniteSet(B) /\ Bytes(q) = Cardinality(B) /\ Bytes(t) = Cardinality(C) /\ Bytes(q) \in Nat
  BY BytesNat DEF Bytes
<1> HIDE DEF B, C, l
<1>8. Cardinality(B \cup {l}) = Cardinality(B) + 1
  BY <1>6, <1>7, FS_AddElement
<1>9. Bytes(t) = Bytes(q) + (IF m.k = "byte" THEN 1 ELSE 0)
  BY <1>5, <1>7, <1>8
<1> QED BY <1>2, <1>9 DEF t

LEMMA BytesTail ==
  ASSUME NEW q \in Seq(Message), q # <<>>
  PROVE  /\ Bytes(q) = Bytes(Tail(q)) + (IF Head(q).k = "byte" THEN 1 ELSE 0)
         /\ HasEnd(Tail(q)) => HasEnd(q)
<1> DEFINE t == Tail(q)
           B == {i \in 1..Len(t) : t[i].k = "byte"}
           C == {i \in 1..Len(q) : q[i].k = "byte"}
           R == C \ {1}
<1>1. /\ t \in Seq(Message) /\ Len(t) = Len(q) - 1 /\ Len(q) \in Nat \ {0}
      /\ \A i \in 1..Len(t) : t[i] = q[i + 1]
      /\ Head(q) = q[1]
  BY HeadTailProperties, EmptySeq
<1>2. HasEnd(t) => HasEnd(q)
  BY TailContent DEF HasEnd
<1> HIDE DEF t
<1>3. /\ \A i \in 1..Len(t) : i + 1 \in 1..Len(q) /\ i + 1 # 1
      /\ \A j \in 1..Len(q) : j # 1 => j - 1 \in 1..Len(t) /\ j = (j - 1) + 1
      /\ 1 \in 1..Len(q)
  BY <1>1
<1>4. /\ IsFiniteSet(B) /\ Bytes(t) = Cardinality(B) /\ Bytes(t) \in Nat
      /\ IsFiniteSet(C) /\ Bytes(q) = Cardinality(C) /\ Bytes(q) \in Nat
  BY <1>1, BytesNat DEF Bytes
<1>5. 1 \in C <=> Head(q).k = "byte"
  BY <1>1, <1>3
<1>6. /\ \A i \in B : i \in Nat /\ i + 1 \in R
      /\ \A j \in R : j - 1 \in B /\ j \in Nat /\ j = (j - 1) + 1
  BY <1>1, <1>3
<1> HIDE DEF B, C, R
<1>7. Cardinality(R) = Cardinality(B)
  <2> DEFINE f == [i \in B |-> i + 1]
  <2>1. f \in [B -> R] /\ \A i, j \in B : f[i] = f[j] => i = j
    BY <1>6
  <2>2. \A j \in R : \E i \in B : f[i] = j
    BY <1>6
  <2>3. f \in Bijection(B, R)
    BY <2>1, <2>2 DEF Bijection, Injection, Surjection, IsInjective
  <2>4. ExistsBijection(B, R)
    BY <2>3 DEF ExistsBijection
  <2> QED BY <1>4, <2>4, FS_Bijection
<1>8. Cardinality(R) = IF 1 \in C THEN Cardinality(C) - 1 ELSE Cardinality(C)
  BY <1>4, FS_RemoveElement DEF R
<1>9. Bytes(q) = Bytes(t) + (IF Head(q).k = "byte" THEN 1 ELSE 0)
  BY <1>4, <1>5, <1>7, <1>8
<1> QED BY <1>2, <1>9 DEF t

\* An end that has come to the front is all there is.
LEMMA EndAtHead ==
  ASSUME NEW q \in Seq(Message), Tidy(q), q # <<>>, Head(q).k = "end"
  PROVE  Bytes(q) = 0 /\ HasEnd(q)
<1>1. Len(q) \in Nat \ {0} /\ Head(q) = q[1] /\ Head(q) \in Content(q)
  BY HeadTailProperties, EmptySeq, TailContent
<1>2. 1 = Len(q)
  <2>1. 1 \in 1..Len(q)
    BY <1>1
  <2> QED BY <1>1, <2>1 DEF Tidy
<1>3. \A i \in 1..Len(q) : q[i].k # "byte"
  <2>1. \A i \in 1..Len(q) : i = 1
    <3>1. \A n \in Nat : n = 1 => \A i \in 1..n : i = 1
      OBVIOUS
    <3> QED BY <1>1, <1>2, <3>1
  <2>2. q[1].k = "end"
    BY <1>1
  <2> QED BY <2>1, <2>2
<1> QED BY <1>1, <1>3, BytesNat DEF Content, HasEnd

LEMMA EndedHasEnd == ASSUME NEW q \in Seq(Message), Ended(q) PROVE HasEnd(q)
<1>1. q # <<>> /\ Last(q) = q[Len(q)] /\ Last(q).k = "end" /\ Len(q) \in Nat \ {0}
  BY EmptySeq, LenProperties DEF Ended, Last
<1>2. Len(q) \in 1..Len(q)
  BY <1>1
<1> QED BY <1>1, <1>2 DEF HasEnd, Content

-----------------------------------------------------------------------------
(* What a connection that is up does *)

Calmly(n) == n \in Connection /\ n.up /\ ~n.cut

LEMMA PutCalm ==
  ASSUME NEW n, Calmly(n), NEW d \in Dirs, NEW m \in Message, NEW c \in Put(n, d, m),
         m.k = "end" \/ Opp(d) \notin n.closed
  PROVE  /\ Calmly(c) /\ c.closed = n.closed /\ c[Opp(d)] = n[Opp(d)]
         /\ c[d] = n[d] \/ c[d] = Append(n[d], m)
         /\ ~HasEnd(n[d]) => c[d] = Append(n[d], m)
<1>1. (c = n /\ Ended(n[d])) \/ c = With(n, d, m)
  BY DEF Put, With, Calmly
<1>2. CASE c = n /\ Ended(n[d])
  BY <1>2, Queues, EndedHasEnd DEF Calmly
<1>3. CASE c = With(n, d, m)
  BY <1>3, AppendTo DEF Calmly
<1> QED BY <1>1, <1>2, <1>3

LEMMA TakeCalm ==
  ASSUME NEW n, Calmly(n), NEW d \in Dirs, Readable(n, d)
  PROVE  /\ Calmly(Take(n, d)) /\ Take(n, d).closed = n.closed
         /\ Take(n, d)[Opp(d)] = n[Opp(d)] /\ Take(n, d)[d] = Tail(n[d])
BY TakeSteady DEF Calmly, Steady

\* An end that was read to its end is closed without a reset.
LEMMA CloseCalm ==
  ASSUME NEW n, Calmly(n), NEW d \in Dirs, NEW c \in CloseEnd(n, d),
         DataIn(n[Opp(d)]), Bytes(n[Opp(d)]) = 0
  PROVE  /\ Calmly(c) /\ c.closed = n.closed \cup {d} /\ c[Opp(d)] = <<>>
         /\ c[d] = n[d] \/ c[d] = Append(n[d], Msg("end"))
<1> DEFINE gone == [n EXCEPT !.closed = @ \cup {d}, ![Opp(d)] = <<>>]
<1>1. \A i \in 1..Len(n[Opp(d)]) : n[Opp(d)][i].k = "end"
  <2>1. n[Opp(d)] \in Seq(Message)
    BY Queues DEF Calmly
  <2>2. \A m \in Content(n[Opp(d)]) : m.k # "byte" /\ m.k \in Data
    BY <2>1, BytesNat DEF DataIn
  <2> QED BY <2>2 DEF Content, Data
<1>2. c \in Put(gone, d, Msg("end"))
  BY <1>1 DEF CloseEnd
<1>3. /\ gone \in Connection /\ gone.closed = n.closed \cup {d} /\ gone[d] = n[d]
      /\ gone[Opp(d)] = <<>> /\ gone.up = n.up /\ gone.cut = n.cut
  <2>1. n.closed \cup {d} \in SUBSET Dirs /\ <<>> \in Seq(Message) /\ n \in Connection
    BY EmptyContent DEF Connection, Calmly
  <2>2. CASE d = "fwd"
    <3>1. gone = [n EXCEPT !.closed = n.closed \cup {d}, !.bwd = <<>>]
      BY <2>2 DEF Opp
    <3> QED BY <2>1, <2>2, <3>1 DEF Connection, Opp
  <2>3. CASE d = "bwd"
    <3>1. gone = [n EXCEPT !.closed = n.closed \cup {d}, !.fwd = <<>>]
      BY <2>3 DEF Opp
    <3> QED BY <2>1, <2>3, <3>1 DEF Connection, Opp
  <2> QED BY <2>2, <2>3 DEF Dirs
<1> HIDE DEF gone
<1>4. Calmly(gone)
  BY <1>3 DEF Calmly
<1> QED BY <1>2, <1>3, <1>4, PutCalm, MessageTypes

-----------------------------------------------------------------------------
(***************************************************************************)
(* The flow of bytes from one application to the other: the queue of its   *)
(* connection, the goroutine near it, the queue of the tunnel, the far     *)
(* goroutine and the queue of the other connection.                        *)
(***************************************************************************)

Near(d) == IF d = "fwd" THEN <<"egress", d>> ELSE <<"ingress", d>>
Far(d) == IF d = "fwd" THEN <<"ingress", d>> ELSE <<"egress", d>>

PipeOf(x, c, a, d) ==
  [q1 |-> x[AppLine(d)][d], near |-> c[Near(d)].at, q2 |-> x["t"][d], far |-> c[Far(d)].at,
   q3 |-> x[AppLine(Opp(d))][d],
   sent |-> a[d].sent, at |-> a[d].at, got |-> a[Opp(d)].got, saw |-> a[Opp(d)].saw]
Pipe(d) == PipeOf(line, copier, app, d)

Places == {"off", "read", "write", "done"}
Pipes == [q1 : Seq(Message), near : Places, q2 : Seq(Message), far : Places, q3 : Seq(Message),
          sent : Nat, at : {"absent", "open", "shut", "closed"}, got : Nat,
          saw : {"nothing", "end", "error"}]

\* A goroutine that has read and not yet written holds a byte.
Held(at) == IF at = "write" THEN 1 ELSE 0

\* No byte is lost, and the end follows the last byte from place to place.
Even(p) ==
  /\ p.sent = Bytes(p.q1) + Held(p.near) + Bytes(p.q2) + Held(p.far) + Bytes(p.q3) + p.got
  /\ HasEnd(p.q1) => p.at \in {"shut", "closed"}
  /\ p.near = "done" => p.at \in {"shut", "closed"} /\ Bytes(p.q1) = 0
  /\ HasEnd(p.q2) => p.near = "done"
  /\ p.far = "done" => p.near = "done" /\ Bytes(p.q2) = 0
  /\ HasEnd(p.q3) => p.far = "done"
  /\ p.saw = "end" => p.far = "done" /\ Bytes(p.q3) = 0

\* Nothing outside the sidecars went wrong, and neither gave up.
Calm == ~troubled /\ conf.named /\ ingress \notin {"refused", "failed"}

\* The connections are whole and closed only when they have been read to their end.
Whole ==
  /\ \A l \in Lines : line[l].up /\ ~line[l].cut
  /\ egress \notin {"refused", "failed"}
  /\ "bwd" \in line["a"].closed <=> egress = "closed"
  /\ "fwd" \in line["b"].closed <=> ingress = "closed"
  /\ \A d \in Dirs : d \in line[AppLine(d)].closed <=> app[d].at = "closed"
  /\ egress = "closed" => RelayDone("egress")
  /\ ingress = "closed" => RelayDone("ingress")
  /\ \A d \in Dirs : app[d].saw # "error" /\ (app[d].at = "closed" => app[d].saw = "end")
  /\ app["bwd"].at = "absent" => app["bwd"] = NewApp("absent")
  /\ accepted /\ egress \notin {"relay", "closed"} =>
       line["t"].bwd # <<>> /\ Head(line["t"].bwd).k = "ok"

Flowing == Whole /\ \A d \in Dirs : Even(Pipe(d))
Flow == Calm => Flowing

LEMMA PipeTypes ==
  ASSUME NEW x \in [Lines -> Connection],
         NEW c \in [Goroutines -> [at : {"off", "read", "write", "done"}, m : Message]],
         NEW a \in [Dirs -> Application], NEW d \in Dirs
  PROVE  PipeOf(x, c, a, d) \in Pipes
<1>1. AppLine(d) \in Lines /\ AppLine(Opp(d)) \in Lines /\ "t" \in Lines /\ Opp(d) \in Dirs
  BY DEF AppLine, Opp, Lines, Dirs
<1>2. Near(d) \in Goroutines /\ Far(d) \in Goroutines
  BY DEF Near, Far, Goroutines, Sidecars, Dirs
<1>3. x[AppLine(d)][d] \in Seq(Message) /\ x["t"][d] \in Seq(Message) /\ x[AppLine(Opp(d))][d] \in Seq(Message)
  BY <1>1, Queues
<1>4. c[Near(d)].at \in Places /\ c[Far(d)].at \in Places
  BY <1>2 DEF Places
<1>5. /\ a[d].sent \in Nat /\ a[Opp(d)].got \in Nat
      /\ a[d].at \in {"absent", "open", "shut", "closed"}
      /\ a[Opp(d)].saw \in {"nothing", "end", "error"}
  BY <1>1, RelayAssumption DEF Application
<1> QED BY <1>3, <1>4, <1>5 DEF PipeOf, Pipes

\* Of two states of a pipe: nothing is lost or passed on but messages of the set-up, ends
\* that were due and queues without bytes.
Same(q, p) == Bytes(q) = Bytes(p) /\ (HasEnd(q) => HasEnd(p))
SameAt(x, y) == (x = "write" <=> y = "write") /\ (x = "done" <=> y = "done")

LEMMA EvenSame ==
  ASSUME NEW p \in Pipes, Even(p), NEW r \in Pipes,
         Bytes(r.q1) = Bytes(p.q1), HasEnd(r.q1) => HasEnd(p.q1) \/ r.at \in {"shut", "closed"},
         Bytes(r.q2) = Bytes(p.q2), HasEnd(r.q2) => HasEnd(p.q2) \/ p.near = "done",
         Bytes(r.q3) = Bytes(p.q3), HasEnd(r.q3) => HasEnd(p.q3) \/ p.far = "done",
         SameAt(r.near, p.near), SameAt(r.far, p.far),
         r.sent = p.sent, r.got = p.got, p.at \in {"shut", "closed"} => r.at \in {"shut", "closed"},
         r.saw = "end" => p.saw = "end" \/ (p.far = "done" /\ Bytes(p.q3) = 0)
  PROVE  Even(r)
<1>1. Held(r.near) = Held(p.near) /\ Held(r.far) = Held(p.far)
  BY DEF Held, SameAt
<1> QED BY <1>1 DEF Even, SameAt

\* A byte passes from one place to the next.
LEMMA EvenMoves ==
  ASSUME NEW p \in Pipes, Even(p), NEW r \in Pipes,
         r.at = p.at, r.saw = p.saw, HasEnd(r.q1) => HasEnd(p.q1),
         HasEnd(r.q2) => HasEnd(p.q2), HasEnd(r.q3) => HasEnd(p.q3),
         \/ /\ p.near = "read" /\ r.near = "write" /\ Bytes(p.q1) = Bytes(r.q1) + 1
            /\ <<r.q2, r.far, r.q3, r.sent, r.got>> = <<p.q2, p.far, p.q3, p.sent, p.got>>
         \/ /\ p.near = "write" /\ r.near = "read" /\ Bytes(r.q2) = Bytes(p.q2) + 1
            /\ <<r.q1, r.far, r.q3, r.sent, r.got>> = <<p.q1, p.far, p.q3, p.sent, p.got>>
         \/ /\ p.far = "read" /\ r.far = "write" /\ Bytes(p.q2) = Bytes(r.q2) + 1
            /\ <<r.q1, r.near, r.q3, r.sent, r.got>> = <<p.q1, p.near, p.q3, p.sent, p.got>>
         \/ /\ p.far = "write" /\ r.far = "read" /\ Bytes(r.q3) = Bytes(p.q3) + 1
            /\ <<r.q1, r.near, r.q2, r.sent, r.got>> = <<p.q1, p.near, p.q2, p.sent, p.got>>
         \/ /\ p.at = "open" /\ r.sent = p.sent + 1 /\ Bytes(r.q1) = Bytes(p.q1) + 1
            /\ <<r.near, r.q2, r.far, r.q3, r.got>> = <<p.near, p.q2, p.far, p.q3, p.got>>
         \/ /\ p.saw = "nothing" /\ r.got = p.got + 1 /\ Bytes(p.q3) = Bytes(r.q3) + 1
            /\ <<r.q1, r.near, r.q2, r.far, r.sent>> = <<p.q1, p.near, p.q2, p.far, p.sent>>
  PROVE  Even(r)
<1>1. /\ Bytes(p.q1) \in Nat /\ Bytes(p.q2) \in Nat /\ Bytes(p.q3) \in Nat
      /\ Bytes(r.q1) \in Nat /\ Bytes(r.q2) \in Nat /\ Bytes(r.q3) \in Nat
      /\ p.sent \in Nat /\ p.got \in Nat /\ r.sent \in Nat /\ r.got \in Nat
  BY BytesNat DEF Pipes
<1>2. /\ Held(p.near) = (IF p.near = "write" THEN 1 ELSE 0) /\ Held(p.far) = (IF p.far = "write" THEN 1 ELSE 0)
      /\ Held(r.near) = (IF r.near = "write" THEN 1 ELSE 0) /\ Held(r.far) = (IF r.far = "write" THEN 1 ELSE 0)
  BY DEF Held
<1> QED BY <1>1, <1>2 DEF Even

\* The end passes from one place to the next.
LEMMA EvenEnds ==
  ASSUME NEW p \in Pipes, Even(p), NEW r \in Pipes,
         r.sent = p.sent, r.got = p.got, r.at = p.at, r.saw = p.saw,
         r.q1 = p.q1, HasEnd(r.q2) => HasEnd(p.q2) \/ r.near = "done", Bytes(r.q2) = Bytes(p.q2),
         HasEnd(r.q3) => HasEnd(p.q3) \/ r.far = "done", Bytes(r.q3) = Bytes(p.q3),
         \/ /\ p.near = "read" /\ r.near = "done" /\ HasEnd(p.q1) /\ Bytes(p.q1) = 0 /\ r.far = p.far
         \/ /\ p.far = "read" /\ r.far = "done" /\ HasEnd(p.q2) /\ Bytes(p.q2) = 0 /\ r.near = p.near
  PROVE  Even(r)
<1>1. Held(r.near) = Held(p.near) /\ Held(r.far) = Held(p.far)
  BY DEF Held
<1> QED BY <1>1 DEF Even

LEMMA FlowNext ==
  ASSUME Whole', \A d \in Dirs : Even(PipeOf(line', copier', app', d))
  PROVE  Flowing'
BY DEF Flowing, Pipe

\* What is known of a pipe, and of it before and after a step.
LEMMA PipesOnly ==
  ASSUME IInv, NEW d \in Dirs
  PROVE  PipeOf(line, copier, app, d) \in Pipes
<1>1. /\ line \in [Lines -> Connection] /\ app \in [Dirs -> Application]
      /\ copier \in [Goroutines -> [at : {"off", "read", "write", "done"}, m : Message]]
  BY DEF IInv, TypeOK, Connection
<1> QED BY <1>1, PipeTypes

LEMMA PipesNow ==
  ASSUME IInv, IInv', NEW d \in Dirs
  PROVE  PipeOf(line, copier, app, d) \in Pipes /\ PipeOf(line', copier', app', d) \in Pipes
<1>1. /\ line \in [Lines -> Connection] /\ app \in [Dirs -> Application]
      /\ copier \in [Goroutines -> [at : {"off", "read", "write", "done"}, m : Message]]
  BY DEF IInv, TypeOK, Connection
<1>2. /\ line' \in [Lines -> Connection] /\ app' \in [Dirs -> Application]
      /\ copier' \in [Goroutines -> [at : {"off", "read", "write", "done"}, m : Message]]
  BY DEF IInv, TypeOK, Connection
<1> QED BY <1>1, <1>2, PipeTypes

LEMMA Ways ==
  ASSUME NEW d \in Dirs
  PROVE  /\ AppLine(d) \in Lines /\ AppLine(Opp(d)) \in Lines /\ AppLine(d) # "t" /\ AppLine(Opp(d)) # "t"
         /\ AppLine(d) # AppLine(Opp(d)) /\ "t" \in Lines /\ Opp(d) \in Dirs /\ Opp(Opp(d)) = d /\ Opp(d) # d
         /\ Near(d) \in Goroutines /\ Far(d) \in Goroutines /\ Near(d) # Far(d)
         /\ {Near(Opp(d)), Far(Opp(d))} \cap {Near(d), Far(d)} = {}
         /\ Dirs = {d, Opp(d)} /\ Goroutines = {Near(d), Far(d), Near(Opp(d)), Far(Opp(d))}
         /\ \A s \in Sidecars : \/ <<s, d>> = Near(d) /\ Src(s, d) = AppLine(d) /\ Dst(s, d) = "t"
                                \/ <<s, d>> = Far(d) /\ Src(s, d) = "t" /\ Dst(s, d) = AppLine(Opp(d))
BY DEF AppLine, Opp, Lines, Dirs, Near, Far, Goroutines, Sidecars, Src, Dst

\* Which end of the relays comes first.
LEMMA Before ==
  ASSUME Flowing, NEW d \in Dirs
  PROVE  /\ copier[Far(d)].at = "done" => copier[Near(d)].at = "done"
         /\ copier[Near(d)].at = "done" => app[d].at \in {"shut", "closed"}
         /\ app[Opp(d)].saw = "end" => copier[Far(d)].at = "done"
         /\ HasEnd(line[AppLine(d)][d]) => app[d].at \in {"shut", "closed"}
         /\ HasEnd(line["t"][d]) => copier[Near(d)].at = "done"
         /\ HasEnd(line[AppLine(Opp(d))][d]) => copier[Far(d)].at = "done"
BY DEF Flowing, Even, Pipe, PipeOf

LEMMA HeadAppend ==
  ASSUME NEW q \in Seq(Message), NEW m \in Message, q # <<>>
  PROVE  Append(q, m) # <<>> /\ Head(Append(q, m)) = Head(q)
<1> DEFINE t == Append(q, m)
<1>1. /\ t \in Seq(Message) /\ Len(t) = Len(q) + 1 /\ Len(q) \in Nat \ {0}
      /\ \A i \in 1..Len(q) : t[i] = q[i]
  BY AppendProperties, LenProperties, EmptySeq
<1>2. Head(q) = q[1] /\ 1 \in 1..Len(q)
  BY <1>1, HeadTailProperties
<1> HIDE DEF t
<1>3. t # <<>>
  BY <1>1, EmptySeq
<1>4. Head(t) = t[1]
  BY <1>1, <1>3, HeadTailProperties
<1> QED BY <1>1, <1>2, <1>3, <1>4 DEF t

\* A step of the set-up, on the tunnel.
LEMMA SetUpFlow ==
  ASSUME IInv, IInv', Flowing, NEW t, line' = [line EXCEPT !["t"] = t], Calmly(t),
         \A d \in Dirs : Same(t[d], line["t"][d]),
         \A g \in Goroutines : SameAt(copier'[g].at, copier[g].at),
         \/ app' = app
         \/ app["bwd"].at = "absent" /\ app' = [app EXCEPT !["bwd"] = NewApp("open")],
         egress' \notin {"refused", "failed"}, egress' = "closed" <=> egress = "closed",
         ingress' = "closed" <=> ingress = "closed",
         accepted' /\ egress' \notin {"relay", "closed"} => t.bwd # <<>> /\ Head(t.bwd).k = "ok"
  PROVE  Flowing'
<1>0. Whole /\ \A d \in Dirs : Even(Pipe(d))
  BY DEF Flowing
<1>1. line'["t"] = t /\ line'["a"] = line["a"] /\ line'["b"] = line["b"]
  BY OrderTypes
<1>2. app \in [Dirs -> Application] /\ app' \in [Dirs -> Application]
  BY DEF IInv, TypeOK
<1>3. ASSUME NEW d \in Dirs
      PROVE  /\ app'[d].sent = app[d].sent /\ app'[d].got = app[d].got /\ app'[d].saw = app[d].saw
             /\ app'[d].at = app[d].at \/ (app[d].at = "absent" /\ app'[d].at = "open")
  <2>1. CASE app' = app
    BY <2>1
  <2>2. CASE app["bwd"].at = "absent" /\ app' = [app EXCEPT !["bwd"] = NewApp("open")]
    <3>1. app["bwd"] = NewApp("absent") /\ app'["bwd"] = NewApp("open")
      BY <1>0, <1>2, <2>2 DEF Whole, Dirs
    <3>2. d # "bwd" => app'[d] = app[d]
      BY <1>2, <2>2
    <3> QED BY <3>1, <3>2 DEF NewApp
  <2> QED BY <2>1, <2>2
<1>4. Whole'
  <2>1. \A l \in Lines : line'[l].up /\ ~line'[l].cut
    BY <1>0, <1>1 DEF Whole, Calmly, Lines
  <2>2. \A d \in Dirs : /\ d \in line'[AppLine(d)].closed <=> app'[d].at = "closed"
                        /\ app'[d].saw # "error" /\ (app'[d].at = "closed" => app'[d].saw = "end")
    BY <1>0, <1>1, <1>3 DEF Whole, AppLine
  <2>3. app'["bwd"].at = "absent" => app'["bwd"] = NewApp("absent")
    BY <1>0, <1>2 DEF Whole, NewApp, Dirs
  <2>4. \A s \in Sidecars : RelayDone(s)' <=> RelayDone(s)
    BY DEF RelayDone, SameAt, Goroutines
  <2> QED BY <1>0, <1>1, <2>1, <2>2, <2>3, <2>4 DEF Whole, Sidecars
<1>5. ASSUME NEW d \in Dirs PROVE Even(PipeOf(line', copier', app', d))
  <2> DEFINE p == PipeOf(line, copier, app, d)
             r == PipeOf(line', copier', app', d)
  <2>1. p \in Pipes /\ r \in Pipes /\ Even(p)
    BY <1>0, PipesNow DEF Pipe
  <2>2. /\ r.q1 = p.q1 /\ r.q3 = p.q3 /\ Same(r.q2, p.q2)
        /\ SameAt(r.near, p.near) /\ SameAt(r.far, p.far)
        /\ r.sent = p.sent /\ r.got = p.got /\ r.saw = p.saw
        /\ p.at \in {"shut", "closed"} => r.at = p.at
    <3>1. line'[AppLine(d)] = line[AppLine(d)] /\ line'[AppLine(Opp(d))] = line[AppLine(Opp(d))]
      BY <1>1 DEF AppLine
    <3> QED BY <1>1, <1>3, <3>1, Ways DEF PipeOf
  <2> HIDE DEF p, r
  <2>3. Even(r)
    BY <2>1, <2>2, EvenSame DEF Same
  <2> QED BY <2>3 DEF r
<1> QED BY <1>4, <1>5, FlowNext

LEMMA AppendSame ==
  ASSUME NEW q \in Seq(Message), NEW m \in Message, m.k \in SetUp
  PROVE  Same(Append(q, m), q)
<1>1. m.k # "byte" /\ m.k # "end" /\ Bytes(q) \in Nat
  BY BytesNat DEF SetUp
<1>2. Bytes(Append(q, m)) = Bytes(q) /\ (HasEnd(Append(q, m)) => HasEnd(q))
  BY <1>1, BytesAppend
<1> QED BY <1>2 DEF Same

LEMMA TailSame ==
  ASSUME NEW q \in Seq(Message), q # <<>>, Head(q).k \in SetUp
  PROVE  Same(Tail(q), q)
<1>1. Head(q).k # "byte" /\ Tail(q) \in Seq(Message)
  BY TailContent DEF SetUp
<1>2. Bytes(Tail(q)) \in Nat
  BY <1>1, BytesNat
<1>3. Bytes(Tail(q)) = Bytes(q) /\ (HasEnd(Tail(q)) => HasEnd(q))
  BY <1>1, <1>2, BytesTail
<1> QED BY <1>3 DEF Same

\* A message of the set-up is put on the tunnel, or taken from it.
LEMMA PutSame ==
  ASSUME NEW n, Calmly(n), NEW d \in Dirs, NEW m \in Message, NEW c \in Put(n, d, m),
         Opp(d) \notin n.closed, m.k \in SetUp
  PROVE  Calmly(c) /\ (\A e \in Dirs : Same(c[e], n[e])) /\ c.closed = n.closed /\ c[Opp(d)] = n[Opp(d)]
<1>1. /\ Calmly(c) /\ c[Opp(d)] = n[Opp(d)] /\ (c[d] = n[d] \/ c[d] = Append(n[d], m))
      /\ c.closed = n.closed
  BY PutCalm
<1>2. n[d] \in Seq(Message)
  BY Queues DEF Calmly
<1>3. Same(Append(n[d], m), n[d])
  BY <1>2, AppendSame
<1> QED BY <1>1, <1>3 DEF Same, Dirs, Opp

LEMMA TakeSame ==
  ASSUME NEW n, Calmly(n), NEW d \in Dirs, Readable(n, d), Head(n[d]).k \in SetUp
  PROVE  /\ Calmly(Take(n, d)) /\ (\A e \in Dirs : Same(Take(n, d)[e], n[e]))
         /\ Take(n, d).closed = n.closed
<1>1. /\ Calmly(Take(n, d)) /\ Take(n, d).closed = n.closed
      /\ Take(n, d)[Opp(d)] = n[Opp(d)] /\ Take(n, d)[d] = Tail(n[d])
  BY TakeCalm
<1>2. n[d] \in Seq(Message) /\ n[d] # <<>>
  BY Queues DEF Calmly, Readable
<1>3. Same(Tail(n[d]), n[d])
  BY <1>2, TailSame
<1> QED BY <1>1, <1>3 DEF Same, Dirs, Opp

-----------------------------------------------------------------------------
(* The set-up keeps the flow *)

\* The tunnel in the calm.
LEMMA TunnelCalm ==
  ASSUME IInv, Order, Calm, Flowing
  PROVE  /\ Calmly(line["t"]) /\ Calmly(line["a"]) /\ Calmly(line["b"])
         /\ "bwd" \in line["t"].closed <=> ingress = "closed"
         /\ "fwd" \in line["t"].closed <=> egress = "closed"
         /\ egress = "closed" => ingress \in {"relay", "closed"}
         /\ accepted => ingress \in {"dial", "relay", "closed"}
<1>1. Calmly(line["t"]) /\ Calmly(line["a"]) /\ Calmly(line["b"])
  BY OrderTypes DEF Flowing, Whole, Calmly
<1>2. egress = "closed" => ingress \in {"relay", "closed"}
  <2>1. egress = "closed" => copier[Far("bwd")].at = "done"
    BY DEF Flowing, Whole, RelayDone, Far, Dirs
  <2>2. egress = "closed" => copier[<<"ingress", "bwd">>].at = "done"
    BY <2>1, Before DEF Near, Dirs
  <2> QED BY <2>2 DEF IInv, TypeOK, Dirs
<1>3. /\ "bwd" \in line["t"].closed <=> ingress = "closed"
      /\ "fwd" \in line["t"].closed <=> egress = "closed"
  BY <1>2 DEF Order, Positions, Calm, Flowing, Whole
<1>4. accepted => ingress \in {"dial", "relay", "closed"}
  BY DEF Order, Positions, Calm
<1> QED BY <1>1, <1>2, <1>3, <1>4

\* Goroutines that only start change nothing of a pipe.
LEMMA StartSame ==
  ASSUME IInv, \/ UNCHANGED copier
               \/ egress \notin {"relay", "closed"} /\ StartRelay("egress")
               \/ ingress \notin {"relay", "closed"} /\ StartRelay("ingress")
  PROVE  \A g \in Goroutines : SameAt(copier'[g].at, copier[g].at)
<1>1. ASSUME NEW s \in Sidecars, StartRelay(s), \A d \in Dirs : copier[<<s, d>>].at = "off"
      PROVE  \A g \in Goroutines : SameAt(copier'[g].at, copier[g].at)
  <2> SUFFICES ASSUME NEW u \in Sidecars, NEW d \in Dirs
               PROVE  SameAt(copier'[<<u, d>>].at, copier[<<u, d>>].at)
    BY DEF Goroutines
  <2>1. copier'[<<u, d>>] = IF u = s THEN Reading ELSE copier[<<u, d>>]
    BY <1>1, Starts
  <2> QED BY <1>1, <2>1 DEF Reading, SameAt
<1>2. CASE UNCHANGED copier
  BY <1>2 DEF SameAt
<1>3. CASE egress \notin {"relay", "closed"} /\ StartRelay("egress")
  BY <1>1, <1>3 DEF IInv, TypeOK, Sidecars
<1>4. CASE ingress \notin {"relay", "closed"} /\ StartRelay("ingress")
  BY <1>1, <1>4 DEF IInv, TypeOK, Sidecars
<1> QED BY <1>2, <1>3, <1>4

\* Nothing changes on the tunnel.
LEMMA NoLineFlow ==
  ASSUME IInv, IInv', Flowing, line' = line,
         \A g \in Goroutines : SameAt(copier'[g].at, copier[g].at),
         \/ app' = app
         \/ app["bwd"].at = "absent" /\ app' = [app EXCEPT !["bwd"] = NewApp("open")],
         egress' \notin {"refused", "failed"}, egress' = "closed" <=> egress = "closed",
         ingress' = "closed" <=> ingress = "closed",
         accepted' /\ egress' \notin {"relay", "closed"} =>
           accepted /\ egress \notin {"relay", "closed"}
  PROVE  Flowing'
<1>1. line' = [line EXCEPT !["t"] = line["t"]] /\ Calmly(line["t"])
  BY OrderTypes DEF Flowing, Whole, Calmly
<1>2. \A d \in Dirs : Same(line["t"][d], line["t"][d])
  BY DEF Same
<1>3. accepted' /\ egress' \notin {"relay", "closed"} =>
        line["t"].bwd # <<>> /\ Head(line["t"].bwd).k = "ok"
  BY DEF Flowing, Whole
<1> QED BY <1>1, <1>2, <1>3, SetUpFlow

LEMMA StartsFlow ==
  ASSUME IInv, IInv', Order, Calm, Flowing, BuildAuthFrame \/ Dial \/ DialApp \/ Renew
  PROVE  Flowing'
<1>1. line' = line /\ accepted' = accepted
  BY DEF BuildAuthFrame, Dial, DialApp, Renew, relayVars, ingressVars
<1>2. \A g \in Goroutines : SameAt(copier'[g].at, copier[g].at)
  BY StartSame DEF BuildAuthFrame, Dial, DialApp, Renew, relayVars
<1>3. \/ app' = app
      \/ app["bwd"].at = "absent" /\ app' = [app EXCEPT !["bwd"] = NewApp("open")]
  BY DEF BuildAuthFrame, Dial, DialApp, Renew, relayVars, IInv, IngressKnows
<1>4. /\ egress' \notin {"refused", "failed"} /\ (egress' = "closed" <=> egress = "closed")
      /\ ingress' = "closed" <=> ingress = "closed"
      /\ egress' \in {"relay", "closed"} <=> egress \in {"relay", "closed"}
  BY DEF BuildAuthFrame, Dial, DialApp, Renew, egressVars, ingressVars, Flowing, Whole, Order, Positions
<1> QED BY <1>1, <1>2, <1>3, <1>4, NoLineFlow

LEMMA ClientHelloFlow ==
  ASSUME IInv, IInv', Order, Calm, Flowing, ClientHello
  PROVE  Flowing'
<1> DEFINE hello == [k |-> "hello", v |-> cert]
<1>1. hello \in Message /\ hello.k \in SetUp
  BY DEF IInv, TypeOK, Certs, Message, SetUp
<1>2. PICK t \in Put(line["t"], "fwd", hello) : line' = [line EXCEPT !["t"] = t]
  BY DEF ClientHello
<1> HIDE DEF hello
<1>3. /\ egress = "hello" /\ egress' = "serverhello" /\ ingress' = ingress /\ ~accepted'
      /\ copier' = copier /\ app' = app
  BY DEF ClientHello, ingressVars, IInv, IngressKnows, Early
<1>4. ingress # "closed"
  BY <1>3 DEF Order, Positions
<1>5. Calmly(t) /\ \A d \in Dirs : Same(t[d], line["t"][d])
  BY <1>1, <1>2, <1>4, TunnelCalm, OrderTypes, PutSame
<1> QED BY <1>2, <1>3, <1>5, StartSame, SetUpFlow

LEMMA SendAuthFrameFlow ==
  ASSUME IInv, IInv', Order, Calm, Flowing, SendAuthFrame
  PROVE  Flowing'
<1> DEFINE auth == [k |-> "auth", v |-> tok]
           n == Take(line["t"], "bwd")
<1>1. auth \in Message /\ auth.k \in SetUp
  BY DEF IInv, TypeOK, Certs, Message, SetUp
<1>2. PICK t \in Put(n, "fwd", auth) : line' = [line EXCEPT !["t"] = t]
  BY DEF SendAuthFrame
<1> HIDE DEF auth
<1>3. /\ egress = "serverhello" /\ egress' = "ack" /\ ingress' = ingress /\ ~accepted /\ ~accepted'
      /\ copier' = copier /\ app' = app /\ Readable(line["t"], "bwd") /\ Head(line["t"].bwd).k \in SetUp
  BY DEF SendAuthFrame, EgressHears, ingressVars, IInv, IngressKnows, Early, SetUp
<1>4. ingress # "closed"
  BY <1>3 DEF IInv, IngressKnows
<1>5. /\ Calmly(n) /\ (\A d \in Dirs : Same(n[d], line["t"][d])) /\ n.closed = line["t"].closed
  BY <1>3, TunnelCalm, OrderTypes, TakeSame
<1> HIDE DEF n
<1>6. "bwd" \notin n.closed
  BY <1>4, <1>5, TunnelCalm
<1>7. Calmly(t) /\ \A d \in Dirs : Same(t[d], n[d])
  BY <1>1, <1>2, <1>5, <1>6, OrderTypes, PutSame
<1>8. \A d \in Dirs : Same(t[d], line["t"][d])
  BY <1>5, <1>7 DEF Same
<1> QED BY <1>2, <1>3, <1>7, <1>8, StartSame, SetUpFlow

LEMMA ReadAckFlow ==
  ASSUME IInv, IInv', Order, Calm, Flowing, ReadAck
  PROVE  Flowing'
<1> DEFINE n == Take(line["t"], "bwd")
<1>1. /\ egress = "ack" /\ egress' = "relay" /\ ingress' = ingress /\ StartRelay("egress")
      /\ line' = [line EXCEPT !["t"] = n] /\ app' = app
      /\ Readable(line["t"], "bwd") /\ Head(line["t"].bwd).k \in SetUp
  BY DEF ReadAck, EgressHears, ingressVars, SetUp
<1>2. Calmly(n) /\ \A d \in Dirs : Same(n[d], line["t"][d])
  BY <1>1, TunnelCalm, OrderTypes, TakeSame
<1> HIDE DEF n
<1> QED BY <1>1, <1>2, StartSame, SetUpFlow

LEMMA ServerHelloFlow ==
  ASSUME IInv, IInv', Order, Calm, Flowing, ServerHello
  PROVE  Flowing'
<1> DEFINE hello == Msg("hello")
           n == Take(line["t"], "fwd")
<1>1. hello \in Message /\ hello.k \in SetUp
  BY MessageTypes DEF SetUp
<1>2. PICK t \in Put(n, "bwd", hello) : line' = [line EXCEPT !["t"] = t]
  BY DEF ServerHello
<1> HIDE DEF hello
<1>3. /\ ingress = "hello" /\ ingress' = "frame" /\ egress' = egress /\ ~accepted /\ ~accepted'
      /\ copier' = copier /\ app' = app /\ Readable(line["t"], "fwd") /\ Head(line["t"].fwd).k \in SetUp
  BY DEF ServerHello, IngressHears, egressVars, IInv, IngressKnows, SetUp
<1>4. egress # "closed" /\ egress' \notin {"refused", "failed"}
  BY <1>3 DEF IInv, EgressKnows, Flowing, Whole
<1>5. /\ Calmly(n) /\ (\A d \in Dirs : Same(n[d], line["t"][d])) /\ n.closed = line["t"].closed
  BY <1>3, TunnelCalm, OrderTypes, TakeSame
<1> HIDE DEF n
<1>6. "fwd" \notin n.closed
  BY <1>4, <1>5, TunnelCalm
<1>7. Calmly(t) /\ \A d \in Dirs : Same(t[d], n[d])
  BY <1>1, <1>2, <1>5, <1>6, OrderTypes, PutSame
<1>8. \A d \in Dirs : Same(t[d], line["t"][d])
  BY <1>5, <1>7 DEF Same
<1> QED BY <1>2, <1>3, <1>4, <1>7, <1>8, StartSame, SetUpFlow

LEMMA ReadAuthFrameFlow ==
  ASSUME IInv, IInv', Order, Calm, Flowing, ReadAuthFrame
  PROVE  Flowing'
<1> DEFINE n == Take(line["t"], "fwd")
<1>1. /\ ingress = "frame" /\ ingress' = "authorize" /\ egress' = egress /\ ~accepted /\ ~accepted'
      /\ line' = [line EXCEPT !["t"] = n] /\ copier' = copier /\ app' = app
      /\ Readable(line["t"], "fwd") /\ Head(line["t"].fwd).k \in SetUp
  BY DEF ReadAuthFrame, IngressHears, egressVars, IInv, IngressKnows, SetUp
<1>2. egress' \notin {"refused", "failed"}
  BY <1>1 DEF Flowing, Whole
<1>3. Calmly(n) /\ \A d \in Dirs : Same(n[d], line["t"][d])
  BY <1>1, TunnelCalm, OrderTypes, TakeSame
<1> HIDE DEF n
<1> QED BY <1>1, <1>2, <1>3, StartSame, SetUpFlow

LEMMA AcceptFlow ==
  ASSUME IInv, IInv', Order, Calm, Flowing, Accept
  PROVE  Flowing'
<1> DEFINE ok == Msg("ok")
<1>1. ok \in Message /\ ok.k = "ok" /\ ok.k \in SetUp
  BY MessageTypes DEF SetUp
<1>2. PICK t \in Put(line["t"], "bwd", ok) : line' = [line EXCEPT !["t"] = t]
  BY DEF Accept
<1> HIDE DEF ok
<1>3. /\ ingress = "authorize" /\ ingress' = "dial" /\ egress' = egress
      /\ copier' = copier /\ app' = app
  BY DEF Accept, egressVars
<1>4. egress # "closed" /\ egress' \notin {"refused", "failed"}
  BY <1>3 DEF IInv, EgressKnows, IngressKnows, Flowing, Whole
<1>5. Calmly(t) /\ (\A d \in Dirs : Same(t[d], line["t"][d]))
  BY <1>1, <1>2, <1>4, TunnelCalm, OrderTypes, PutSame
<1>6. t.bwd # <<>> /\ Head(t.bwd).k = "ok"
  <2>1. line["t"].bwd = <<>> /\ ~HasEnd(line["t"]["bwd"])
    BY <1>3, BytesEmpty DEF Order, Back
  <2>2. "fwd" \notin line["t"].closed
    BY <1>4, TunnelCalm
  <2>3. t.bwd = Append(<<>>, ok)
    BY <1>1, <1>2, <2>1, <2>2, TunnelCalm, OrderTypes, PutCalm
  <2> QED BY <1>1, <2>3
<1> QED BY <1>2, <1>3, <1>4, <1>5, <1>6, StartSame, SetUpFlow

-----------------------------------------------------------------------------
(* Relays that return keep it, and nothing fails *)

LEMMA EndAdded ==
  ASSUME NEW q \in Seq(Message), NEW r, r = q \/ r = Append(q, Msg("end"))
  PROVE  Bytes(r) = Bytes(q)
<1>1. Bytes(q) \in Nat /\ Msg("end") \in Message /\ Msg("end").k # "byte"
  BY BytesNat, MessageTypes
<1>2. Bytes(Append(q, Msg("end"))) = Bytes(q)
  BY <1>1, BytesAppend
<1> QED BY <1>2

\* A relay has returned, and both its connections are closed.
LEMMA ReturnFlow ==
  ASSUME IInv, IInv', Order, Calm, Flowing, NEW d \in Dirs,
         copier[Near(d)].at = "done", copier[Far(Opp(d))].at = "done",
         DataIn(line["t"][Opp(d)]), NEW t \in CloseEnd(line["t"], d),
         NEW n \in CloseEnd(line[AppLine(d)], Opp(d)),
         line' = [line EXCEPT !["t"] = t, ![AppLine(d)] = n], copier' = copier, app' = app
  PROVE  /\ \A e \in Dirs : Even(PipeOf(line', copier', app', e))
         /\ \A l \in Lines : line'[l].up /\ ~line'[l].cut
         /\ line'[AppLine(d)].closed = line[AppLine(d)].closed \cup {Opp(d)}
         /\ line'[AppLine(Opp(d))] = line[AppLine(Opp(d))]
         /\ line'["t"][d] = line["t"][d] \/ line'["t"][d] = Append(line["t"][d], Msg("end"))
<1>1. /\ Even(PipeOf(line, copier, app, d)) /\ Even(PipeOf(line, copier, app, Opp(d)))
      /\ PipeOf(line, copier, app, d) \in Pipes /\ PipeOf(line, copier, app, Opp(d)) \in Pipes
      /\ PipeOf(line', copier', app', d) \in Pipes /\ PipeOf(line', copier', app', Opp(d)) \in Pipes
  BY Ways, PipesNow DEF Flowing, Pipe
<1>2. Bytes(line["t"][Opp(d)]) = 0 /\ Bytes(line[AppLine(d)][d]) = 0
  BY <1>1, Ways DEF Even, PipeOf
<1>3. DataIn(line[AppLine(d)][d])
  BY DEF Order, Tidiness, AppLine
<1>4. Calmly(line["t"]) /\ Calmly(line[AppLine(d)]) /\ Calmly(line[AppLine(Opp(d))])
  BY TunnelCalm DEF AppLine
<1>5. /\ Calmly(t) /\ t[Opp(d)] = <<>>
      /\ t[d] = line["t"][d] \/ t[d] = Append(line["t"][d], Msg("end"))
  BY <1>2, <1>4, CloseCalm
<1>6. /\ Calmly(n) /\ n.closed = line[AppLine(d)].closed \cup {Opp(d)} /\ n[d] = <<>>
      /\ \/ n[Opp(d)] = line[AppLine(d)][Opp(d)]
         \/ n[Opp(d)] = Append(line[AppLine(d)][Opp(d)], Msg("end"))
  BY <1>2, <1>3, <1>4, Ways, CloseCalm
<1>7. /\ line'["t"] = t /\ line'[AppLine(d)] = n /\ line'[AppLine(Opp(d))] = line[AppLine(Opp(d))]
      /\ \A l \in Lines : l \in {"t", AppLine(d), AppLine(Opp(d))}
  BY OrderTypes, Ways DEF Lines, AppLine, Opp
<1>8. \A l \in Lines : line'[l].up /\ ~line'[l].cut
  BY <1>4, <1>5, <1>6, <1>7 DEF Calmly
<1>9. /\ line["t"][d] \in Seq(Message) /\ line[AppLine(d)][Opp(d)] \in Seq(Message)
  BY <1>4, Queues, Ways DEF Calmly
<1>10. Bytes(t[d]) = Bytes(line["t"][d]) /\ Bytes(n[Opp(d)]) = Bytes(line[AppLine(d)][Opp(d)])
  BY <1>5, <1>6, <1>9, EndAdded
<1>11. Even(PipeOf(line', copier', app', d))
  <2> DEFINE p == PipeOf(line, copier, app, d)
             r == PipeOf(line', copier', app', d)
  <2>1. /\ Bytes(r.q1) = Bytes(p.q1) /\ ~HasEnd(r.q1) /\ Bytes(r.q2) = Bytes(p.q2) /\ r.q3 = p.q3
        /\ p.near = "done" /\ SameAt(r.near, p.near) /\ SameAt(r.far, p.far)
        /\ r.sent = p.sent /\ r.got = p.got /\ r.at = p.at /\ r.saw = p.saw
    BY <1>2, <1>6, <1>7, <1>10, BytesEmpty DEF PipeOf, SameAt
  <2> HIDE DEF p, r
  <2>2. Even(r)
    BY <1>1, <2>1, EvenSame DEF p, r
  <2> QED BY <2>2 DEF r
<1>12. Even(PipeOf(line', copier', app', Opp(d)))
  <2> DEFINE p == PipeOf(line, copier, app, Opp(d))
             r == PipeOf(line', copier', app', Opp(d))
  <2>1. /\ Bytes(r.q2) = Bytes(p.q2) /\ ~HasEnd(r.q2) /\ Bytes(r.q3) = Bytes(p.q3) /\ r.q1 = p.q1
        /\ p.far = "done" /\ SameAt(r.near, p.near) /\ SameAt(r.far, p.far)
        /\ r.sent = p.sent /\ r.got = p.got /\ r.at = p.at /\ r.saw = p.saw
    BY <1>2, <1>5, <1>7, <1>10, Ways, BytesEmpty DEF PipeOf, SameAt
  <2> HIDE DEF p, r
  <2>2. Even(r)
    BY <1>1, <2>1, EvenSame DEF p, r
  <2> QED BY <2>2 DEF r
<1> QED BY <1>5, <1>6, <1>7, <1>8, <1>11, <1>12, Ways

LEMMA EgressReturnsFlow ==
  ASSUME IInv, IInv', Order, Calm, Flowing, EgressReturns
  PROVE  Flowing'
<1>1. PICK t \in CloseEnd(line["t"], "fwd"), a \in CloseEnd(line["a"], "bwd") :
        line' = [line EXCEPT !["t"] = t, !["a"] = a]
  BY DEF EgressReturns, EgressGivesUp
<1>2. /\ egress = "relay" /\ egress' = "closed" /\ ingress' = ingress /\ copier' = copier /\ app' = app
      /\ accepted' = accepted /\ RelayDone("egress")
  BY DEF EgressReturns, EgressGivesUp, ingressVars
<1>3. copier[Near("fwd")].at = "done" /\ copier[Far("bwd")].at = "done"
  BY <1>2 DEF RelayDone, Near, Far, Dirs
<1>4. DataIn(line["t"]["bwd"]) /\ AppLine("fwd") = "a" /\ AppLine("bwd") = "b"
  BY <1>2 DEF Order, Back, AppLine
<1>5. /\ \A e \in Dirs : Even(PipeOf(line', copier', app', e))
      /\ \A l \in Lines : line'[l].up /\ ~line'[l].cut
      /\ line'["a"].closed = line["a"].closed \cup {"bwd"} /\ line'["b"] = line["b"]
  BY <1>1, <1>2, <1>3, <1>4, OrderTypes, ReturnFlow
<1>6. Whole'
  <2>1. \A d \in Dirs : /\ d \in line'[AppLine(d)].closed <=> app'[d].at = "closed"
                        /\ app'[d].saw # "error" /\ (app'[d].at = "closed" => app'[d].saw = "end")
    BY <1>2, <1>5 DEF Flowing, Whole, AppLine, Dirs
  <2>2. RelayDone("egress")' /\ (RelayDone("ingress") => RelayDone("ingress")')
    BY <1>2 DEF RelayDone
  <2> QED BY <1>2, <1>5, <2>1, <2>2 DEF Flowing, Whole
<1> QED BY <1>5, <1>6, FlowNext

LEMMA IngressReturnsFlow ==
  ASSUME IInv, IInv', Order, Calm, Flowing, IngressReturns
  PROVE  Flowing'
<1>1. PICK t \in CloseEnd(line["t"], "bwd"), b \in CloseEnd(line["b"], "fwd") :
        line' = [line EXCEPT !["t"] = t, !["b"] = b]
  BY DEF IngressReturns, IngressGivesUp
<1>2. /\ ingress = "relay" /\ ingress' = "closed" /\ egress' = egress /\ copier' = copier /\ app' = app
      /\ accepted' = accepted /\ RelayDone("ingress")
  BY DEF IngressReturns, IngressGivesUp, egressVars
<1>3. copier[Near("bwd")].at = "done" /\ copier[Far("fwd")].at = "done"
  BY <1>2 DEF RelayDone, Near, Far, Dirs
<1>4. DataIn(line["t"]["fwd"]) /\ AppLine("fwd") = "a" /\ AppLine("bwd") = "b"
  BY <1>2 DEF Order, Forth, AppLine
<1>5. /\ \A e \in Dirs : Even(PipeOf(line', copier', app', e))
      /\ \A l \in Lines : line'[l].up /\ ~line'[l].cut
      /\ line'["b"].closed = line["b"].closed \cup {"fwd"} /\ line'["a"] = line["a"]
      /\ line'["t"].bwd = line["t"].bwd \/ line'["t"].bwd = Append(line["t"].bwd, Msg("end"))
  BY <1>1, <1>2, <1>3, <1>4, OrderTypes, ReturnFlow
<1>6. Whole'
  <2>1. \A d \in Dirs : /\ d \in line'[AppLine(d)].closed <=> app'[d].at = "closed"
                        /\ app'[d].saw # "error" /\ (app'[d].at = "closed" => app'[d].saw = "end")
    BY <1>2, <1>5 DEF Flowing, Whole, AppLine, Dirs
  <2>2. RelayDone("ingress")' /\ (RelayDone("egress") => RelayDone("egress")')
    BY <1>2 DEF RelayDone
  <2>3. accepted /\ egress \notin {"relay", "closed"} =>
          line'["t"].bwd # <<>> /\ Head(line'["t"].bwd).k = "ok"
    BY <1>5, OrderTypes, HeadAppend, MessageTypes DEF Flowing, Whole
  <2> QED BY <1>2, <1>5, <2>1, <2>2, <2>3 DEF Flowing, Whole
<1> QED BY <1>5, <1>6, FlowNext

\* In the calm nobody is refused, and no end of the tunnel comes in the set-up.
LEMMA NoneFails ==
  ASSUME IInv, Order, Calm, Flowing
  PROVE  ~EgressRefused /\ ~EgressCut /\ ~TunnelBreaks
<1>1. ~EgressRefused
  <2> SUFFICES ASSUME EgressRefused PROVE FALSE
    OBVIOUS
  <2>1. EgressHears("no")
    BY DEF EgressRefused, Calm
  <2>2. Head(line["t"].bwd) \in Content(line["t"].bwd) /\ Head(line["t"].bwd).k = "no"
    BY <2>1, OrderTypes, TakeSteady DEF EgressHears
  <2> QED BY <2>2 DEF Order, Back, Calm
<1>2. ~EgressCut
  <2> SUFFICES ASSUME EgressCut PROVE FALSE
    OBVIOUS
  <2>1. line["t"].up /\ egress \in {"serverhello", "ack"}
    BY OrderTypes DEF Flowing, Whole, EgressCut
  <2>2. line["t"].bwd # <<>> /\ Head(line["t"].bwd).k = "end"
    BY <2>1 DEF EgressCut, AtEnd, Failed
  <2>3. HasEnd(line["t"].bwd)
    BY <2>2, OrderTypes, TailContent DEF HasEnd
  <2>4. copier[<<"ingress", "bwd">>].at = "done"
    BY <2>3, OrderTypes, Before DEF Near
  <2>5. accepted
    BY <2>4 DEF IInv, TypeOK, IngressKnows, Dirs
  <2>6. Head(line["t"].bwd).k = "ok"
    BY <2>1, <2>5 DEF Flowing, Whole
  <2> QED BY <2>2, <2>6
<1>3. ~TunnelBreaks
  BY OrderTypes DEF TunnelBreaks, Flowing, Whole
<1> QED BY <1>1, <1>2, <1>3

-----------------------------------------------------------------------------
(* relay keeps the flow *)

\* One direction of one connection changes.
LEMMA OneQueue ==
  ASSUME NEW x \in [Lines -> Connection], NEW d \in Dirs, NEW l \in Lines, NEW n,
         n[Opp(d)] = x[l][Opp(d)], NEW y, y = [x EXCEPT ![l] = n]
  PROVE  /\ \A k \in Lines : y[k] = IF k = l THEN n ELSE x[k]
         /\ \A k \in Lines : y[k][d] = IF k = l THEN n[d] ELSE x[k][d]
         /\ \A k \in Lines : y[k][Opp(d)] = x[k][Opp(d)]
OBVIOUS

\* What is whole stays whole when no connection is closed but by its application.
LEMMA WholeKept ==
  ASSUME IInv, Flowing, UNCHANGED <<egress, ingress, accepted>>,
         NEW l \in Lines, NEW n, Calmly(n), line' = [line EXCEPT ![l] = n],
         \A k \in Lines, d \in Dirs : k # AppLine(d) => (d \in line'[k].closed <=> d \in line[k].closed),
         \A d \in Dirs : /\ d \in line'[AppLine(d)].closed <=> app'[d].at = "closed"
                         /\ app'[d].saw # "error" /\ (app'[d].at = "closed" => app'[d].saw = "end"),
         app'["bwd"].at = "absent" => app'["bwd"] = NewApp("absent"),
         \A g \in Goroutines : copier[g].at = "done" => copier'[g].at = "done",
         l = "t" /\ egress \notin {"relay", "closed"} =>
           n.bwd = line["t"].bwd \/ \E m \in Message : n.bwd = Append(line["t"].bwd, m)
  PROVE  Whole'
<1>1. \A k \in Lines : line'[k] = IF k = l THEN n ELSE line[k]
  BY OrderTypes
<1>2. \A k \in Lines : line'[k].up /\ ~line'[k].cut
  BY <1>1 DEF Flowing, Whole, Calmly
<1>3. /\ "bwd" \in line'["a"].closed <=> "bwd" \in line["a"].closed
      /\ "fwd" \in line'["b"].closed <=> "fwd" \in line["b"].closed
  BY OrderTypes DEF AppLine
<1>4. \A s \in Sidecars : RelayDone(s) => RelayDone(s)'
  BY DEF RelayDone, Goroutines
<1>5. accepted /\ egress \notin {"relay", "closed"} =>
        line'["t"].bwd # <<>> /\ Head(line'["t"].bwd).k = "ok"
  <2> SUFFICES ASSUME accepted, egress \notin {"relay", "closed"}
               PROVE  line'["t"].bwd # <<>> /\ Head(line'["t"].bwd).k = "ok"
    OBVIOUS
  <2>1. line["t"].bwd # <<>> /\ Head(line["t"].bwd).k = "ok"
    BY DEF Flowing, Whole
  <2>2. line'["t"].bwd = line["t"].bwd \/ \E m \in Message : line'["t"].bwd = Append(line["t"].bwd, m)
    BY <1>1, OrderTypes
  <2> QED BY <2>1, <2>2, OrderTypes, HeadAppend
<1> QED BY <1>2, <1>3, <1>4, <1>5 DEF Flowing, Whole, Sidecars

\* A step of goroutine <<s, d>> that leaves its own direction even.
LEMMA CopierFlow ==
  ASSUME IInv, IInv', Order, Calm, Flowing, NEW s \in Sidecars, NEW d \in Dirs,
         copier[<<s, d>>].at \notin {"off", "done"},
         NEW c, copier' = [copier EXCEPT ![<<s, d>>] = c], app' = app,
         UNCHANGED <<egress, ingress, accepted>>,
         NEW l \in {Src(s, d), Dst(s, d)}, NEW n, Calmly(n), n.closed = line[l].closed,
         n[Opp(d)] = line[l][Opp(d)], line' = [line EXCEPT ![l] = n],
         l = Dst(s, d) => n[d] = line[l][d] \/ \E m \in Message : n[d] = Append(line[l][d], m),
         Even(PipeOf(line', copier', app', d))
  PROVE  Flowing'
<1>1. /\ l \in Lines /\ line \in [Lines -> Connection] /\ <<s, d>> \in Goroutines
      /\ copier \in [Goroutines -> [at : {"off", "read", "write", "done"}, m : Message]]
  BY OrderTypes, DstTypes DEF IInv, TypeOK
<1>2. /\ \A k \in Lines : line'[k] = IF k = l THEN n ELSE line[k]
      /\ \A k \in Lines : line'[k][Opp(d)] = line[k][Opp(d)]
  BY <1>1, OneQueue
<1>3. \A g \in Goroutines : g # <<s, d>> => copier'[g] = copier[g]
  BY <1>1
<1>4. PipeOf(line', copier', app', Opp(d)) = PipeOf(line, copier, app, Opp(d))
  <2>1. /\ <<s, d>> # Near(Opp(d)) /\ <<s, d>> # Far(Opp(d))
        /\ Near(Opp(d)) \in Goroutines /\ Far(Opp(d)) \in Goroutines
        /\ AppLine(Opp(d)) \in Lines /\ AppLine(d) \in Lines /\ "t" \in Lines
    BY DEF Near, Far, Opp, Goroutines, AppLine, Lines, Sidecars, Dirs
  <2> QED BY <1>2, <1>3, <2>1, Ways DEF PipeOf
<1>5. \A e \in Dirs : Even(PipeOf(line', copier', app', e))
  BY <1>4, Ways DEF Flowing, Pipe
<1>6. Whole'
  <2>1. \A k \in Lines : line'[k].closed = line[k].closed
    BY <1>2
  <2>2. \A e \in Dirs : /\ e \in line'[AppLine(e)].closed <=> app'[e].at = "closed"
                        /\ app'[e].saw # "error" /\ (app'[e].at = "closed" => app'[e].saw = "end")
    BY <2>1, Ways DEF Flowing, Whole
  <2>3. app'["bwd"].at = "absent" => app'["bwd"] = NewApp("absent")
    BY DEF Flowing, Whole
  <2>4. \A g \in Goroutines : copier[g].at = "done" => copier'[g].at = "done"
    BY <1>3
  <2>5. l = "t" /\ egress \notin {"relay", "closed"} =>
          n.bwd = line["t"].bwd \/ \E m \in Message : n.bwd = Append(line["t"].bwd, m)
    <3> SUFFICES ASSUME l = "t", egress \notin {"relay", "closed"}
                 PROVE  n.bwd = line["t"].bwd \/ \E m \in Message : n.bwd = Append(line["t"].bwd, m)
      OBVIOUS
    <3>1. s # "egress"
      BY DEF IInv, TypeOK
    <3>2. s = "ingress"
      BY <3>1 DEF Sidecars
    <3>3. CASE d = "fwd"
      BY <3>3 DEF Opp
    <3>4. CASE d = "bwd"
      BY <3>2, <3>4 DEF Dst, Src, Opp
    <3> QED BY <3>3, <3>4 DEF Dirs
  <2> QED BY <1>1, <2>1, <2>2, <2>3, <2>4, <2>5, WholeKept
<1> QED BY <1>5, <1>6, FlowNext

\* Whoever still writes has a reader that is there.
LEMMA Heeded ==
  ASSUME IInv, Order, Calm, Flowing, NEW d \in Dirs
  PROVE  /\ copier[Near(d)].at # "done" => Opp(d) \notin line["t"].closed /\ ~HasEnd(line["t"][d])
         /\ copier[Far(d)].at # "done" =>
              Opp(d) \notin line[AppLine(Opp(d))].closed /\ ~HasEnd(line[AppLine(Opp(d))][d])
         /\ app[d].at = "open" => Opp(d) \notin line[AppLine(d)].closed /\ ~HasEnd(line[AppLine(d)][d])
<1>1. /\ ingress = "closed" => RelayDone("ingress")
      /\ egress = "closed" => RelayDone("egress")
  BY DEF Flowing, Whole
<1>2. Opp(d) \in line["t"].closed => copier[Near(d)].at = "done"
  <2>1. Opp(d) \in line["t"].closed => copier[Far(d)].at = "done"
    BY <1>1, TunnelCalm DEF RelayDone, Opp, Far, Dirs
  <2> QED BY <2>1, Before
<1>3. Opp(d) \in line[AppLine(Opp(d))].closed => copier[Far(d)].at = "done"
  BY Before, Ways DEF Flowing, Whole
<1>4. Opp(d) \in line[AppLine(d)].closed => app[d].at # "open"
  <2>1. Opp(d) \in line[AppLine(d)].closed => copier[Near(d)].at = "done"
    BY <1>1 DEF Flowing, Whole, AppLine, RelayDone, Opp, Near, Dirs
  <2> QED BY <2>1, Before
<1> QED BY <1>2, <1>3, <1>4, Before

LEMMA CopyFlow ==
  ASSUME IInv, IInv', Order, Calm, Flowing, NEW s \in Sidecars, NEW d \in Dirs, Copying(s, d)
  PROVE  Flowing'
<1> DEFINE src == Src(s, d)
           dst == Dst(s, d)
           g == <<s, d>>
           p == PipeOf(line, copier, app, d)
           r == PipeOf(line', copier', app', d)
<1>1. /\ UNCHANGED <<egress, ingress, accepted>> /\ app' = app /\ Copy(s, d, armed[s] # "none")
      /\ copier[g].at \notin {"off", "done"}
  BY DEF Copying, egressVars, ingressVars, Copy, CopyRead, CopyWrite, CopyEnd, Returns
<1>2. /\ g \in Goroutines /\ src \in Lines /\ dst \in Lines
      /\ copier \in [Goroutines -> [at : {"off", "read", "write", "done"}, m : Message]]
      /\ DataIn(line[src][d]) /\ line \in [Lines -> Connection]
  BY <1>1, CopierAt, OrderTypes
<1>3. Calmly(line[src]) /\ Calmly(line[dst])
  BY <1>2, TunnelCalm DEF Lines
<1>4. p \in Pipes /\ r \in Pipes /\ Even(p)
  BY PipesNow DEF Flowing, Pipe
<1>5. \/ /\ g = Near(d) /\ src = AppLine(d) /\ dst = "t"
         /\ g # Far(d) /\ p.near = copier[g].at
      \/ /\ g = Far(d) /\ src = "t" /\ dst = AppLine(Opp(d))
         /\ g # Near(d) /\ p.far = copier[g].at
  BY Ways DEF PipeOf
<1>6. /\ AppLine(d) \in Lines /\ "t" \in Lines /\ AppLine(Opp(d)) \in Lines
      /\ AppLine(d) # "t" /\ AppLine(d) # AppLine(Opp(d)) /\ AppLine(Opp(d)) # "t"
      /\ Near(d) \in Goroutines /\ Far(d) \in Goroutines
      /\ src # dst
  BY <1>5, Ways
<1>7. p.q1 \in Seq(Message) /\ p.q2 \in Seq(Message) /\ p.q3 \in Seq(Message) /\ line[src][d] \in Seq(Message)
  BY <1>3, <1>4, Queues DEF Pipes, Calmly
\* The two pipes, and what the step may have changed of this one.
<1>8. ASSUME NEW l \in {src, dst}, NEW n, n[Opp(d)] = line[l][Opp(d)],
             line' = [line EXCEPT ![l] = n], NEW c, copier' = [copier EXCEPT ![g] = c]
      PROVE  /\ r.q1 = (IF l = AppLine(d) THEN n[d] ELSE p.q1)
             /\ r.q2 = (IF l = "t" THEN n[d] ELSE p.q2)
             /\ r.q3 = (IF l = AppLine(Opp(d)) THEN n[d] ELSE p.q3)
             /\ r.near = (IF g = Near(d) THEN c.at ELSE p.near)
             /\ r.far = (IF g = Far(d) THEN c.at ELSE p.far)
             /\ r.sent = p.sent /\ r.got = p.got /\ r.at = p.at /\ r.saw = p.saw
  <2>1. \A k \in Lines : line'[k][d] = IF k = l THEN n[d] ELSE line[k][d]
    BY <1>2, <1>8, OneQueue
  <2>2. \A h \in Goroutines : copier'[h] = IF h = g THEN c ELSE copier[h]
    BY <1>2, <1>8
  <2> HIDE DEF g, src, dst
  <2> QED BY <1>1, <1>6, <2>1, <2>2 DEF PipeOf
<1>9. CASE CopyRead(s, d)
  <2> DEFINE n == Take(line[src], d)
             c == [at |-> "write", m |-> Head(line[src][d])]
  <2>1. /\ Readable(line[src], d) /\ copier' = [copier EXCEPT ![g] = c]
        /\ line' = [line EXCEPT ![src] = n] /\ copier[g].at = "read"
    BY <1>9 DEF CopyRead
  <2>2. /\ Calmly(n) /\ n.closed = line[src].closed /\ n[Opp(d)] = line[src][Opp(d)]
        /\ n[d] = Tail(line[src][d])
    BY <1>3, <2>1, TakeCalm
  <2>3. line[src][d] # <<>> /\ Head(line[src][d]).k = "byte"
    BY <1>2, <1>7, <2>1, TailContent DEF DataIn, Data, Readable
  <2>4. /\ Bytes(line[src][d]) = Bytes(n[d]) + 1 /\ (HasEnd(n[d]) => HasEnd(line[src][d]))
        /\ c.at = "write"
    BY <1>7, <2>2, <2>3, BytesTail
  <2> HIDE DEF n, c
  <2>5. /\ r.q1 = (IF src = AppLine(d) THEN n[d] ELSE p.q1)
        /\ r.q2 = (IF src = "t" THEN n[d] ELSE p.q2)
        /\ r.q3 = (IF src = AppLine(Opp(d)) THEN n[d] ELSE p.q3)
        /\ r.near = (IF g = Near(d) THEN c.at ELSE p.near)
        /\ r.far = (IF g = Far(d) THEN c.at ELSE p.far)
        /\ r.sent = p.sent /\ r.got = p.got /\ r.at = p.at /\ r.saw = p.saw
    BY <1>8, <2>1, <2>2
  <2>6. p.q1 = line[AppLine(d)][d] /\ p.q2 = line["t"][d]
    BY DEF PipeOf
  <2>7. Even(r)
    <3>1. CASE g = Near(d)
      BY <1>4, <1>5, <1>6, <2>1, <2>4, <2>5, <2>6, <3>1, EvenMoves
    <3>2. CASE g = Far(d)
      BY <1>4, <1>5, <1>6, <2>1, <2>4, <2>5, <2>6, <3>2, EvenMoves
    <3> QED BY <1>5, <3>1, <3>2
  <2> QED BY <1>1, <1>6, <2>1, <2>2, <2>7, CopierFlow
<1>10. CASE CopyWrite(s, d)
  <2> DEFINE m == copier[g].m
  <2>1. PICK n \in Put(line[dst], d, m) : line' = [line EXCEPT ![dst] = n]
    BY <1>10 DEF CopyWrite
  <2>2. /\ copier[g].at = "write" /\ copier' = [copier EXCEPT ![g] = Reading] /\ Reading.at = "read"
        /\ m \in Message /\ m.k = "byte"
    BY <1>2, <1>10 DEF CopyWrite, Order, Tidiness, Reading
  <2> HIDE DEF m
  <2>3. Opp(d) \notin line[dst].closed /\ ~HasEnd(line[dst][d])
    BY <1>5, <2>2, Heeded
  <2>4. /\ Calmly(n) /\ n.closed = line[dst].closed /\ n[Opp(d)] = line[dst][Opp(d)]
        /\ n[d] = Append(line[dst][d], m)
    BY <1>3, <2>1, <2>2, <2>3, PutCalm
  <2>5. line[dst][d] \in Seq(Message)
    BY <1>3, Queues DEF Calmly
  <2>6. Bytes(n[d]) = Bytes(line[dst][d]) + 1 /\ ~HasEnd(n[d])
    BY <2>2, <2>3, <2>4, <2>5, BytesAppend
  <2>7. /\ r.q1 = (IF dst = AppLine(d) THEN n[d] ELSE p.q1)
        /\ r.q2 = (IF dst = "t" THEN n[d] ELSE p.q2)
        /\ r.q3 = (IF dst = AppLine(Opp(d)) THEN n[d] ELSE p.q3)
        /\ r.near = (IF g = Near(d) THEN "read" ELSE p.near)
        /\ r.far = (IF g = Far(d) THEN "read" ELSE p.far)
        /\ r.sent = p.sent /\ r.got = p.got /\ r.at = p.at /\ r.saw = p.saw
    BY <1>8, <2>1, <2>2, <2>4
  <2>8. p.q2 = line["t"][d] /\ p.q3 = line[AppLine(Opp(d))][d]
    BY DEF PipeOf
  <2>9. Even(r)
    <3>1. CASE g = Near(d)
      BY <1>4, <1>5, <1>6, <2>2, <2>6, <2>7, <2>8, <3>1, EvenMoves
    <3>2. CASE g = Far(d)
      BY <1>4, <1>5, <1>6, <2>2, <2>6, <2>7, <2>8, <3>2, EvenMoves
    <3> QED BY <1>5, <3>1, <3>2
  <2> QED BY <1>1, <1>6, <2>1, <2>2, <2>4, <2>9, CopierFlow
<1>11. CASE CopyEnd(s, d, armed[s] # "none")
  <2> DEFINE c == [at |-> "done", m |-> Msg("end")]
  <2>1. PICK n \in Put(line[dst], d, Msg("end")) : line' = [line EXCEPT ![dst] = n]
    BY <1>11 DEF CopyEnd, PassEnd
  <2>2. copier' = [copier EXCEPT ![g] = c] /\ c.at = "done" /\ Msg("end") \in Message /\ Msg("end").k = "end"
    BY <1>11, MessageTypes DEF CopyEnd, PassEnd
  <2> HIDE DEF c
  <2>3. armed[s] = "none"
    BY <1>1 DEF IInv, TypeOK, Order, Positions, Sidecars
  <2>4. copier[g].at = "read" /\ AtEnd(line[src], d)
    BY <1>3, <1>11, <2>3 DEF CopyEnd, Returns, Failed, Calmly
  <2>5. Bytes(line[src][d]) = 0 /\ HasEnd(line[src][d])
    BY <1>2, <1>7, <2>4, EndAtHead DEF AtEnd, Order, Tidiness
  <2>6. /\ Calmly(n) /\ n.closed = line[dst].closed /\ n[Opp(d)] = line[dst][Opp(d)]
        /\ n[d] = line[dst][d] \/ n[d] = Append(line[dst][d], Msg("end"))
    BY <1>3, <2>1, <2>2, PutCalm
  <2>7. line[dst][d] \in Seq(Message)
    BY <1>3, Queues DEF Calmly
  <2>8. Bytes(n[d]) = Bytes(line[dst][d])
    BY <2>6, <2>7, EndAdded
  <2>9. /\ r.q1 = (IF dst = AppLine(d) THEN n[d] ELSE p.q1)
        /\ r.q2 = (IF dst = "t" THEN n[d] ELSE p.q2)
        /\ r.q3 = (IF dst = AppLine(Opp(d)) THEN n[d] ELSE p.q3)
        /\ r.near = (IF g = Near(d) THEN "done" ELSE p.near)
        /\ r.far = (IF g = Far(d) THEN "done" ELSE p.far)
        /\ r.sent = p.sent /\ r.got = p.got /\ r.at = p.at /\ r.saw = p.saw
    BY <1>8, <2>1, <2>2, <2>6
  <2>10. p.q1 = line[AppLine(d)][d] /\ p.q2 = line["t"][d] /\ p.q3 = line[AppLine(Opp(d))][d]
    BY DEF PipeOf
  <2>11. Even(r)
    <3>1. CASE g = Near(d)
      BY <1>4, <1>5, <1>6, <2>4, <2>5, <2>8, <2>9, <2>10, <3>1, EvenEnds
    <3>2. CASE g = Far(d)
      BY <1>4, <1>5, <1>6, <2>4, <2>5, <2>8, <2>9, <2>10, <3>2, EvenEnds
    <3> QED BY <1>5, <3>1, <3>2
  <2> QED BY <1>1, <1>6, <2>1, <2>2, <2>6, <2>11, CopierFlow
<1> QED BY <1>1, <1>9, <1>10, <1>11 DEF Copy

-----------------------------------------------------------------------------
(* The applications keep the flow *)

\* A step of application d on its own direction, or on the other one, that it reads.
LEMMA AppFlow ==
  ASSUME IInv, IInv', Flowing, NEW d \in Dirs, UNCHANGED <<copier, egress, ingress, accepted>>,
         NEW n, Calmly(n), line' = [line EXCEPT ![AppLine(d)] = n],
         n.closed = (IF app'[d].at = "closed" THEN line[AppLine(d)].closed \cup {d}
                                              ELSE line[AppLine(d)].closed),
         NEW a, app' = [app EXCEPT ![d] = a], a.at \in {"open", "shut", "closed"},
         app[d].at # "closed", a.saw # "error", a.at = "closed" => a.saw = "end",
         \A e \in Dirs : Even(PipeOf(line', copier', app', e))
  PROVE  Flowing'
<1>1. /\ app \in [Dirs -> Application] /\ AppLine(d) \in Lines /\ AppLine(d) # "t"
      /\ \A k \in Lines : line'[k] = IF k = AppLine(d) THEN n ELSE line[k]
  <2>1. app \in [Dirs -> Application]
    BY DEF IInv, TypeOK
  <2>2. AppLine(d) \in Lines /\ AppLine(d) # "t"
    BY DEF AppLine, Lines, Dirs
  <2>3. line \in [Lines -> Connection]
    BY OrderTypes
  <2>4. \A k \in Lines : line'[k] = IF k = AppLine(d) THEN n ELSE line[k]
    BY <2>2, <2>3
  <2> QED BY <2>1, <2>2, <2>4
<1>2. app'[d] = a /\ \A e \in Dirs : e # d => app'[e] = app[e]
  BY <1>1
<1>3. \A k \in Lines, e \in Dirs : k # AppLine(e) => (e \in line'[k].closed <=> e \in line[k].closed)
  BY <1>1
<1>4. \A e \in Dirs : /\ e \in line'[AppLine(e)].closed <=> app'[e].at = "closed"
                      /\ app'[e].saw # "error" /\ (app'[e].at = "closed" => app'[e].saw = "end")
  <2> SUFFICES ASSUME NEW e \in Dirs
               PROVE  /\ e \in line'[AppLine(e)].closed <=> app'[e].at = "closed"
                      /\ app'[e].saw # "error" /\ (app'[e].at = "closed" => app'[e].saw = "end")
    OBVIOUS
  <2>1. CASE e = d
    BY <1>1, <1>2, <2>1 DEF Flowing, Whole
  <2>2. CASE e # d
    <3>1. AppLine(e) # AppLine(d) /\ AppLine(e) \in Lines
      BY <2>2 DEF AppLine, Dirs, Lines
    <3> QED BY <1>1, <1>2, <2>2, <3>1 DEF Flowing, Whole
  <2> QED BY <2>1, <2>2
<1>5. app'["bwd"].at = "absent" => app'["bwd"] = NewApp("absent")
  BY <1>2, OrderTypes DEF Flowing, Whole
<1>6. Whole'
  BY <1>1, <1>3, <1>4, <1>5, WholeKept
<1> QED BY <1>6, FlowNext

\* An application writes, half-closes, reads or closes.
LEMMA UsingFlow ==
  ASSUME IInv, IInv', Order, Calm, Flowing, NEW d \in Dirs, Using(d)
  PROVE  Flowing'
<1> DEFINE l == AppLine(d)
           p == PipeOf(line, copier, app, d)
           r == PipeOf(line', copier', app', d)
           o == PipeOf(line, copier, app, Opp(d))
           i == PipeOf(line', copier', app', Opp(d))
           \* The pipes after a step to n and a, of what they were.
           Linked(n, a) ==
             /\ r.q1 = n[d] /\ r.q2 = p.q2 /\ r.q3 = p.q3 /\ r.near = p.near /\ r.far = p.far
             /\ r.sent = a.sent /\ r.at = a.at /\ r.got = p.got /\ r.saw = p.saw
             /\ i.q1 = o.q1 /\ i.q2 = o.q2 /\ i.q3 = n[Opp(d)] /\ i.near = o.near /\ i.far = o.far
             /\ i.sent = o.sent /\ i.at = o.at /\ i.got = a.got /\ i.saw = a.saw
             /\ p.q1 = line[l][d] /\ o.q3 = line[l][Opp(d)]
             /\ p.sent = app[d].sent /\ p.at = app[d].at /\ o.got = app[d].got /\ o.saw = app[d].saw
             /\ app'[d] = a
<1>1. /\ UNCHANGED <<egress, ingress, accepted>> /\ UNCHANGED copier /\ AppSteps(d)
  BY DEF Using, egressVars, ingressVars, AppSteps, AppWrite, AppShut, AppRead, AppClose
<1>2. /\ p \in Pipes /\ r \in Pipes /\ o \in Pipes /\ i \in Pipes /\ Even(p) /\ Even(o)
      /\ Opp(d) \in Dirs
  BY PipesNow, Ways DEF Flowing, Pipe
<1>3. /\ Calmly(line[l]) /\ app[d] \in Application /\ app \in [Dirs -> Application]
      /\ line[l][d] \in Seq(Message) /\ line[l][Opp(d)] \in Seq(Message)
      /\ DataIn(line[l][Opp(d)]) /\ Tidy(line[l][Opp(d)])
  BY <1>2, TunnelCalm, Queues DEF AppLine, IInv, TypeOK, Calmly, Order, Tidiness, Lines
<1>4. /\ app[d].saw # "error" /\ (app[d].at = "closed" => app[d].saw = "end")
      /\ app[d].sent \in Nat /\ app[d].got \in Nat
  BY <1>3, RelayAssumption DEF Flowing, Whole, Application
\* Both pipes even again, and the rest follows.
<1>5. ASSUME NEW n, Calmly(n), line' = [line EXCEPT ![l] = n],
             n.closed = (IF app'[d].at = "closed" THEN line[l].closed \cup {d} ELSE line[l].closed),
             NEW a, app' = [app EXCEPT ![d] = a], a.at \in {"open", "shut", "closed"},
             app[d].at # "closed", a.saw # "error", a.at = "closed" => a.saw = "end",
             Even(r), Even(i)
      PROVE  Flowing'
  <2>1. \A e \in Dirs : Even(PipeOf(line', copier', app', e))
    BY <1>5, Ways
  <2> QED BY <1>1, <1>5, <2>1, AppFlow
<1>6. ASSUME NEW n, line' = [line EXCEPT ![l] = n], NEW a, app' = [app EXCEPT ![d] = a]
      PROVE  Linked(n, a)
  <2>1. /\ line'[l] = n /\ line'["t"] = line["t"]
        /\ line'[AppLine(Opp(d))] = line[AppLine(Opp(d))]
    BY <1>6, OrderTypes DEF AppLine, Opp, Dirs
  <2>2. app'[d] = a /\ app'[Opp(d)] = app[Opp(d)] /\ Opp(Opp(d)) = d
    BY <1>3, <1>6, Ways
  <2> QED BY <1>1, <2>1, <2>2 DEF PipeOf
<1>7. CASE AppWrite(d)
  <2> DEFINE a == [app[d] EXCEPT !.sent = @ + 1]
             m == Msg("byte")
  <2>1. PICK n \in Put(line[l], d, m) : line' = [line EXCEPT ![l] = n]
    BY <1>7 DEF AppWrite, AppPuts
  <2>2. app' = [app EXCEPT ![d] = a] /\ app[d].at = "open" /\ m \in Message /\ m.k = "byte"
    BY <1>3, <1>7, MessageTypes DEF AppWrite
  <2>3. a.sent = app[d].sent + 1 /\ a.at = "open" /\ a.got = app[d].got /\ a.saw = app[d].saw
    BY <1>3, <2>2 DEF Application
  <2> HIDE DEF a, m
  <2>4. Opp(d) \notin line[l].closed /\ ~HasEnd(line[l][d])
    BY <2>2, Heeded
  <2>5. /\ Calmly(n) /\ n.closed = line[l].closed /\ n[Opp(d)] = line[l][Opp(d)]
        /\ n[d] = Append(line[l][d], m)
    BY <1>3, <2>1, <2>2, <2>4, PutCalm
  <2>6. Bytes(n[d]) = Bytes(line[l][d]) + 1 /\ ~HasEnd(n[d])
    BY <1>3, <2>2, <2>4, <2>5, BytesAppend
  <2>7. Linked(n, a)
    BY <1>6, <2>1, <2>2
  <2> HIDE DEF p, r, o, i, l
  <2>8. Even(r)
    BY <1>2, <2>2, <2>3, <2>6, <2>7, EvenMoves
  <2>9. Even(i)
    BY <1>2, <2>3, <2>5, <2>7, EvenSame DEF SameAt
  <2> QED BY <1>4, <1>5, <2>1, <2>2, <2>3, <2>5, <2>7, <2>8, <2>9
<1>8. CASE AppShut(d)
  <2> DEFINE a == [app[d] EXCEPT !.at = "shut"]
  <2>1. PICK n \in Put(line[l], d, Msg("end")) : line' = [line EXCEPT ![l] = n]
    BY <1>8 DEF AppShut, AppPuts
  <2>2. app' = [app EXCEPT ![d] = a] /\ app[d].at = "open"
    BY <1>3, <1>8 DEF AppShut
  <2>3. a.sent = app[d].sent /\ a.at = "shut" /\ a.got = app[d].got /\ a.saw = app[d].saw
    BY <1>3, <2>2 DEF Application
  <2> HIDE DEF a
  <2>4. /\ Calmly(n) /\ n.closed = line[l].closed /\ n[Opp(d)] = line[l][Opp(d)]
        /\ n[d] = line[l][d] \/ n[d] = Append(line[l][d], Msg("end"))
    BY <1>3, <2>1, MessageTypes, PutCalm
  <2>5. Bytes(n[d]) = Bytes(line[l][d])
    BY <1>3, <2>4, EndAdded
  <2>6. Linked(n, a)
    BY <1>6, <2>1, <2>2
  <2> HIDE DEF p, r, o, i, l
  <2>7. Even(r)
    BY <1>2, <2>3, <2>5, <2>6, EvenSame DEF SameAt
  <2>8. Even(i)
    BY <1>2, <2>3, <2>4, <2>6, EvenSame DEF SameAt
  <2> QED BY <1>4, <1>5, <2>1, <2>2, <2>3, <2>4, <2>6, <2>7, <2>8
<1>9. CASE AppRead(d)
  <2>1. app[d].at \in {"open", "shut"} /\ app[d].saw = "nothing"
    BY <1>9 DEF AppRead
  <2>2. CASE /\ Readable(line[l], Opp(d)) /\ line' = [line EXCEPT ![l] = Take(line[l], Opp(d))]
             /\ app' = [app EXCEPT ![d].got = @ + 1]
    <3> DEFINE a == [app[d] EXCEPT !.got = @ + 1]
               n == Take(line[l], Opp(d))
    <3>1. app' = [app EXCEPT ![d] = a] /\ line' = [line EXCEPT ![l] = n]
      BY <1>3, <2>2
    <3>2. a.sent = app[d].sent /\ a.at = app[d].at /\ a.got = app[d].got + 1 /\ a.saw = app[d].saw
      BY <1>3 DEF Application
    <3>3. /\ Calmly(n) /\ n.closed = line[l].closed /\ n[d] = line[l][d]
          /\ n[Opp(d)] = Tail(line[l][Opp(d)])
      BY <1>2, <1>3, <2>2, Ways, TakeCalm
    <3>4. line[l][Opp(d)] # <<>> /\ Head(line[l][Opp(d)]).k = "byte"
      BY <1>3, <2>2, TailContent DEF DataIn, Data, Readable
    <3>5. /\ Bytes(line[l][Opp(d)]) = Bytes(n[Opp(d)]) + 1
          /\ HasEnd(n[Opp(d)]) => HasEnd(line[l][Opp(d)])
      BY <1>3, <3>3, <3>4, BytesTail
    <3> HIDE DEF a, n
    <3>6. Linked(n, a)
      BY <1>6, <3>1
    <3> HIDE DEF p, r, o, i, l
    <3>7. Even(r)
      BY <1>2, <3>2, <3>3, <3>6, EvenSame DEF SameAt
    <3>8. Even(i)
      BY <1>2, <2>1, <3>2, <3>5, <3>6, EvenMoves
    <3> QED BY <1>4, <1>5, <2>1, <3>1, <3>2, <3>3, <3>6, <3>7, <3>8
  <2>3. CASE AtEnd(line[l], Opp(d)) /\ app' = [app EXCEPT ![d].saw = "end"] /\ UNCHANGED line
    <3> DEFINE a == [app[d] EXCEPT !.saw = "end"]
               n == line[l]
    <3>1. app' = [app EXCEPT ![d] = a] /\ line' = [line EXCEPT ![l] = n]
      BY <1>3, <2>3, OrderTypes
    <3>2. a.sent = app[d].sent /\ a.at = app[d].at /\ a.got = app[d].got /\ a.saw = "end"
      BY <1>3 DEF Application
    <3>3. Bytes(n[Opp(d)]) = 0 /\ HasEnd(n[Opp(d)])
      BY <1>3, <2>3, EndAtHead DEF AtEnd
    <3> HIDE DEF a
    <3>4. Linked(n, a)
      BY <1>6, <3>1
    <3> HIDE DEF p, r, o, i
    <3>5. Even(r)
      BY <1>2, <3>2, <3>4, EvenSame DEF SameAt
    <3>6. o.far = "done" /\ Bytes(o.q3) = 0
      BY <1>2, <3>3, <3>4 DEF Even
    <3>7. Even(i)
      BY <1>2, <3>2, <3>4, <3>6, EvenSame DEF SameAt
    <3> QED BY <1>3, <1>4, <1>5, <2>1, <3>1, <3>2, <3>4, <3>5, <3>7
  <2> QED BY <1>3, <1>9, <2>2, <2>3 DEF AppRead, Failed, Calmly
<1>10. CASE AppClose(d)
  <2> DEFINE a == [app[d] EXCEPT !.at = "closed"]
  <2>1. PICK n \in CloseEnd(line[l], d) : line' = [line EXCEPT ![l] = n]
    BY <1>10 DEF AppClose
  <2>2. app' = [app EXCEPT ![d] = a] /\ app[d].at \in {"open", "shut"} /\ app[d].saw = "end"
    BY <1>3, <1>4, <1>10 DEF AppClose, Application
  <2>3. a.sent = app[d].sent /\ a.at = "closed" /\ a.got = app[d].got /\ a.saw = app[d].saw
    BY <1>3, <2>2 DEF Application
  <2> HIDE DEF a
  <2>4. o.far = "done" /\ Bytes(o.q3) = 0 /\ o.q3 = line[l][Opp(d)]
    BY <1>2, <1>6, <2>1, <2>2 DEF Even
  <2>5. /\ Calmly(n) /\ n.closed = line[l].closed \cup {d} /\ n[Opp(d)] = <<>>
        /\ n[d] = line[l][d] \/ n[d] = Append(line[l][d], Msg("end"))
    BY <1>3, <2>1, <2>4, CloseCalm
  <2>6. Bytes(n[d]) = Bytes(line[l][d]) /\ Bytes(n[Opp(d)]) = 0 /\ ~HasEnd(n[Opp(d)])
    BY <1>3, <2>5, EndAdded, BytesEmpty
  <2>7. Linked(n, a)
    BY <1>6, <2>1, <2>2
  <2> HIDE DEF p, r, o, i, l
  <2>8. Even(r)
    BY <1>2, <2>3, <2>6, <2>7, EvenSame DEF SameAt
  <2>9. Even(i)
    BY <1>2, <2>3, <2>4, <2>6, <2>7, EvenSame DEF SameAt
  <2> QED BY <1>5, <2>1, <2>2, <2>3, <2>5, <2>7, <2>8, <2>9
<1> QED BY <1>1, <1>7, <1>8, <1>9, <1>10 DEF AppSteps

-----------------------------------------------------------------------------
(* An orderly end means all *)

\* Calm can only end: nothing configures the sidecars anew, and no trouble is forgotten.
LEMMA CalmBefore == IInv /\ Order /\ Next /\ Calm' => Calm
<1> SUFFICES ASSUME IInv, Order, Next, Calm' PROVE Calm
  OBVIOUS
<1>1. troubled \in BOOLEAN /\ ~troubled' /\ conf'.named /\ ingress' \notin {"refused", "failed"}
  BY DEF IInv, TypeOK, Calm
<1>2. CASE Forward
  <2>1. UNCHANGED <<conf, troubled>> /\ (ingress' = ingress \/ ingress = "none")
    BY <1>2 DEF Forward, BuildAuthFrame, Dial, ClientHello, SendAuthFrame, ReadAck, EgressRefused,
         EgressCut, EgressReturns, EgressGivesUp, ingressVars, Order, Positions
  <2> QED BY <1>1, <2>1 DEF Calm
<1>3. CASE AcceptSteps
  <2>1. conf' = conf /\ (troubled' = troubled \/ troubled')
    BY <1>3 DEF AcceptSteps, ServerHello, HelloRefused, ReadAuthFrame, RefuseFrame, Accept, Reject,
         RejectOther, DialApp, AppUnreachable, IngressCut, IngressReturns, IngressGivesUp, Refuse
  <2>2. ingress \notin {"refused", "failed"}
    BY <1>3 DEF AcceptSteps, ServerHello, HelloRefused, ReadAuthFrame, RefuseFrame, Accept, Reject,
         RejectOther, DialApp, AppUnreachable, IngressCut, IngressReturns
  <2> QED BY <1>1, <2>1, <2>2 DEF Calm
<1>4. CASE EgressExpires \/ IngressExpires \/ NetworkLost \/ \E d \in Dirs : AppLeaves(d)
  BY <1>1, <1>4 DEF EgressExpires, IngressExpires, NetworkLost, AppLeaves
<1>5. CASE \/ \E s \in Sidecars, d \in Dirs : Copying(s, d)
           \/ \E d \in Dirs : Using(d)
           \/ Renew \/ TunnelBreaks
  <2>1. UNCHANGED <<conf, troubled, ingress>>
    BY <1>5 DEF Copying, Using, Renew, TunnelBreaks, ingressVars
  <2> QED BY <1>1, <2>1 DEF Calm
<1> QED BY <1>2, <1>3, <1>4, <1>5 DEF Next

LEMMA FlowStep == IInv /\ IInv' /\ Order /\ Flow /\ [Next]_vars => Flow'
<1> SUFFICES ASSUME IInv, IInv', Order, Flow, [Next]_vars, Calm' PROVE Flowing'
  BY DEF Flow
<1>1. ~troubled' /\ ingress' \notin {"refused", "failed"}
  BY DEF Calm
<1>2. CASE UNCHANGED vars
  <2>1. /\ line' = line /\ copier' = copier /\ app' = app /\ conf' = conf /\ egress' = egress
        /\ ingress' = ingress /\ accepted' = accepted /\ troubled' = troubled
    BY <1>2 DEF vars, relayVars, egressVars, ingressVars
  <2>2. Flowing
    BY <2>1 DEF Calm, Flow
  <2>3. \A g \in Goroutines : SameAt(copier'[g].at, copier[g].at)
    BY <2>1 DEF SameAt
  <2>4. egress' \notin {"refused", "failed"}
    BY <2>1, <2>2 DEF Flowing, Whole
  <2> QED BY <2>1, <2>2, <2>3, <2>4, NoLineFlow
<1>3. CASE Next
  <2>1. Calm /\ Flowing
    BY <1>3, CalmBefore DEF Flow
  <2>2. CASE Forward
    BY <2>1, <2>2, NoneFails, StartsFlow, ClientHelloFlow, SendAuthFrameFlow, ReadAckFlow,
       EgressReturnsFlow DEF Forward
  <2>3. CASE AcceptSteps
    <3>1. ~(HelloRefused \/ RefuseFrame \/ Reject \/ RejectOther \/ AppUnreachable \/ IngressCut)
      BY <1>1 DEF HelloRefused, RefuseFrame, Reject, RejectOther, AppUnreachable, IngressCut,
           IngressGivesUp, Refuse
    <3> QED BY <2>1, <2>3, <3>1, StartsFlow, ServerHelloFlow, ReadAuthFrameFlow, AcceptFlow,
            IngressReturnsFlow DEF AcceptSteps
  <2>4. ~(EgressExpires \/ IngressExpires \/ NetworkLost \/ \E d \in Dirs : AppLeaves(d))
    BY <1>1 DEF EgressExpires, IngressExpires, NetworkLost, AppLeaves
  <2>5. CASE \E s \in Sidecars, d \in Dirs : Copying(s, d)
    BY <2>1, <2>5, CopyFlow
  <2>6. CASE \E d \in Dirs : Using(d)
    BY <2>1, <2>6, UsingFlow
  <2>7. CASE Renew \/ TunnelBreaks
    BY <2>1, <2>7, StartsFlow, NoneFails
  <2> QED BY <1>3, <2>2, <2>3, <2>4, <2>5, <2>6, <2>7 DEF Next
<1> QED BY <1>2, <1>3

LEMMA FlowAtFirst == Init => Flow
<1> SUFFICES ASSUME Init PROVE Flowing
  BY DEF Flow
<1>1. /\ \A l \in Lines : line[l].fwd = <<>> /\ line[l].bwd = <<>>
                          /\ line[l].up /\ ~line[l].cut /\ line[l].closed = {}
      /\ \A g \in Goroutines : copier[g].at = "off"
  BY DEF Init, Fresh, Off
<1>2. \A d \in Dirs : /\ app[d].sent = 0 /\ app[d].got = 0 /\ app[d].saw = "nothing"
                      /\ app[d].at = (IF d = "fwd" THEN "open" ELSE "absent")
                      /\ app[d] = NewApp(IF d = "fwd" THEN "open" ELSE "absent")
  BY DEF Init, NewApp
<1>3. egress = "token" /\ ingress = "none" /\ ~accepted
  BY DEF Init
<1>4. Whole
  <2>1. \A d \in Dirs : AppLine(d) \in Lines
    BY Ways
  <2> QED BY <1>1, <1>2, <1>3, <2>1 DEF Whole, Lines, Dirs
<1>5. ASSUME NEW d \in Dirs PROVE Even(Pipe(d))
  <2>1. /\ \A l \in Lines : line[l][d] = <<>>
        /\ copier[Near(d)].at = "off" /\ copier[Far(d)].at = "off" /\ Opp(d) \in Dirs
        /\ AppLine(d) \in Lines /\ AppLine(Opp(d)) \in Lines /\ "t" \in Lines
    BY <1>1, Ways DEF Dirs
  <2>2. LET p == Pipe(d)
        IN  /\ p.q1 = <<>> /\ p.q2 = <<>> /\ p.q3 = <<>> /\ p.near = "off" /\ p.far = "off"
            /\ p.sent = 0 /\ p.got = 0 /\ p.saw = "nothing"
    BY <1>2, <2>1 DEF Pipe, PipeOf
  <2> QED BY <2>2, BytesEmpty DEF Even, Held
<1> QED BY <1>4, <1>5 DEF Flowing

LEMMA FlowInvariance == Spec => [](IInv /\ Order /\ Flow)
<1>1. IInv /\ Order /\ IInv' /\ Flow /\ [Next]_vars => Flow'
  BY FlowStep
<1> QED BY <1>1, FlowAtFirst, OrderInvariance, PTL DEF Spec

\* Whatever the applications write, half-close and close, in whatever order the four
\* goroutines copy, and whenever the relays return: if nothing outside the sidecars went
\* wrong, an application that reads an orderly end has read every byte the other one wrote.
THEOREM OrderlyEnd == Spec => []EndMeansAll
<1>1. IInv /\ Order /\ Flow => EndMeansAll
  <2> SUFFICES ASSUME IInv, Order, Flow, ~troubled, accepted, NEW d \in Dirs, app[d].saw = "end"
               PROVE  app[d].got = app[Opp(d)].sent
    BY DEF EndMeansAll
  <2>1. conf.named /\ ingress \notin {"refused", "failed"}
    BY DEF IInv, IngressKnows, Order, Positions
  <2>2. Flowing
    BY <2>1 DEF Flow, Calm
  <2> DEFINE p == Pipe(Opp(d))
  <2>3. Opp(d) \in Dirs /\ Even(p) /\ p \in Pipes
    BY <2>2, Ways, PipesOnly DEF Flowing, Pipe
  <2>4. p.saw = "end" /\ p.got = app[d].got /\ p.sent = app[Opp(d)].sent
    BY Ways DEF Pipe, PipeOf
  <2> HIDE DEF p
  <2>5. p.far = "done" /\ p.near = "done" /\ Bytes(p.q1) = 0 /\ Bytes(p.q2) = 0 /\ Bytes(p.q3) = 0
    BY <2>3, <2>4 DEF Even
  <2>6. p.sent = p.got
    BY <2>3, <2>5 DEF Even, Held, Pipes
  <2> QED BY <2>4, <2>6
<1> QED BY <1>1, FlowInvariance, PTL

-----------------------------------------------------------------------------
(* Deadlines and closed connections *)

Left == {"refused", "failed", "closed"}

\* A handler that waits for the peer in the set-up has a deadline, the one of the
\* handshake or the one of the authorization, and none is left when a relay runs.
DeadlineWhileWaiting ==
  /\ egress = "serverhello" => armed["egress"] = "handshake"
  /\ egress = "ack" => armed["egress"] = "auth"
  /\ egress = "relay" => armed["egress"] = "none"
  /\ ingress = "hello" => armed["ingress"] = "handshake"
  /\ ingress \in {"frame", "authorize"} => armed["ingress"] = "auth"
  /\ ingress \in {"dial", "relay"} => armed["ingress"] = "none"

\* forward and accept close a connection that they were given or dialed when they
\* return, on every path, and never before.
ClosedOnReturn ==
  /\ "bwd" \in line["a"].closed <=> egress \in Left
  /\ "fwd" \in line["t"].closed <=> egress \in Left /\ ingress # "none"
  /\ "bwd" \in line["t"].closed <=> ingress \in Left
  /\ "fwd" \in line["b"].closed <=> ingress = "closed"

LEMMA DeadlineStep == IInv /\ Order /\ DeadlineWhileWaiting /\ [Next]_vars => DeadlineWhileWaiting'
<1> SUFFICES ASSUME IInv, Order, DeadlineWhileWaiting, [Next]_vars PROVE DeadlineWhileWaiting'
  OBVIOUS
<1>1. armed \in [Sidecars -> {"none", "handshake", "auth"}] /\ "egress" \in Sidecars /\ "ingress" \in Sidecars
  BY DEF IInv, TypeOK, Sidecars
<1>2. CASE Forward \/ EgressExpires
  <2>1. CASE BuildAuthFrame
    BY <2>1 DEF BuildAuthFrame, ingressVars, DeadlineWhileWaiting
  <2>2. CASE Dial
    BY <1>1, <2>2 DEF Dial, DeadlineWhileWaiting
  <2>3. CASE ClientHello
    BY <1>1, <2>3 DEF ClientHello, ingressVars, DeadlineWhileWaiting
  <2>4. CASE SendAuthFrame
    BY <1>1, <2>4 DEF SendAuthFrame, ingressVars, DeadlineWhileWaiting
  <2>5. CASE ReadAck
    BY <1>1, <2>5 DEF ReadAck, ingressVars, DeadlineWhileWaiting
  <2>6. CASE EgressRefused \/ EgressCut \/ EgressExpires \/ EgressReturns
    BY <2>6 DEF EgressRefused, EgressCut, EgressExpires, EgressReturns, EgressGivesUp, ingressVars,
         DeadlineWhileWaiting
  <2> QED BY <1>2, <2>1, <2>2, <2>3, <2>4, <2>5, <2>6 DEF Forward
<1>3. CASE AcceptSteps \/ IngressExpires
  <2>1. CASE ServerHello
    BY <1>1, <2>1 DEF ServerHello, egressVars, DeadlineWhileWaiting
  <2>2. CASE ReadAuthFrame \/ DialApp
    BY <2>2 DEF ReadAuthFrame, DialApp, egressVars, DeadlineWhileWaiting
  <2>3. CASE Accept
    BY <1>1, <2>3 DEF Accept, egressVars, DeadlineWhileWaiting
  <2>4. CASE \/ HelloRefused \/ RefuseFrame \/ Reject \/ RejectOther \/ AppUnreachable \/ IngressCut
             \/ IngressReturns \/ IngressExpires
    <3>1. UNCHANGED <<armed, egress>> /\ ingress' \in Left
      BY <2>4 DEF HelloRefused, RefuseFrame, Reject, RejectOther, AppUnreachable, IngressCut,
           IngressReturns, IngressExpires, Refuse, IngressGivesUp, egressVars, Left
    <3> QED BY <3>1 DEF DeadlineWhileWaiting, Left
  <2> QED BY <1>3, <2>1, <2>2, <2>3, <2>4 DEF AcceptSteps
<1>4. CASE \/ \E s \in Sidecars, d \in Dirs : Copying(s, d)
           \/ \E d \in Dirs : Using(d) \/ AppLeaves(d)
           \/ Renew \/ NetworkLost \/ TunnelBreaks \/ UNCHANGED vars
  <2>1. UNCHANGED <<armed, egress, ingress>>
    BY <1>4 DEF Copying, Using, AppLeaves, Renew, NetworkLost, TunnelBreaks, vars, egressVars, ingressVars
  <2> QED BY <2>1 DEF DeadlineWhileWaiting
<1> QED BY <1>2, <1>3, <1>4 DEF Next

\* Whatever the peer sends or leaves out: no wait of the set-up is without its deadline,
\* and no relay ever has one.
THEOREM WaitsAreBounded == Spec => []DeadlineWhileWaiting
<1>1. Init => DeadlineWhileWaiting
  BY DEF Init, DeadlineWhileWaiting
<1> QED BY <1>1, DeadlineStep, OrderInvariance, PTL DEF Spec

\* Who closed the two connections of the applications.
Closings ==
  /\ "bwd" \in line["a"].closed <=> egress \in Left
  /\ "fwd" \in line["b"].closed <=> ingress = "closed"

\* No sidecar closes a connection of an application.
LEMMA ClosingsStay ==
  ASSUME Closings, line'["a"].closed \ {"fwd"} = line["a"].closed \ {"fwd"},
         line'["b"].closed \ {"bwd"} = line["b"].closed \ {"bwd"},
         egress' \in Left <=> egress \in Left, ingress' = "closed" <=> ingress = "closed"
  PROVE  Closings'
BY DEF Closings

LEMMA ClosingsStep == IInv /\ Order /\ Closings /\ [Next]_vars => Closings'
<1> SUFFICES ASSUME IInv, Order, Closings, [Next]_vars PROVE Closings'
  OBVIOUS
<1>1. line \in [Lines -> Connection] /\ "a" \in Lines /\ "t" \in Lines /\ "b" \in Lines
      /\ "fwd" \in Dirs /\ "bwd" \in Dirs
  BY OrderTypes
<1>2. CASE EgressRefused \/ EgressCut \/ EgressExpires \/ EgressReturns
  <2>1. PICK a \in CloseEnd(line["a"], "bwd") : \E t : line' = [line EXCEPT !["t"] = t, !["a"] = a]
    BY <1>2 DEF EgressRefused, EgressCut, EgressExpires, EgressReturns, EgressGivesUp
  <2>2. egress' \in Left /\ ingress' = ingress
    BY <1>2 DEF EgressRefused, EgressCut, EgressExpires, EgressReturns, EgressGivesUp, ingressVars, Left
  <2>3. a.closed = line["a"].closed \cup {"bwd"}
    BY <1>1, OrderTypes, CloseShuts DEF Shuts
  <2>4. line'["a"] = a /\ line'["b"] = line["b"]
    BY <1>1, <2>1
  <2> QED BY <2>2, <2>3, <2>4 DEF Closings
<1>3. CASE IngressReturns
  <2>1. PICK b \in CloseEnd(line["b"], "fwd") : \E u : line' = [line EXCEPT !["t"] = u, !["b"] = b]
    BY <1>3 DEF IngressReturns, IngressGivesUp
  <2>2. ingress' = "closed" /\ egress' = egress
    BY <1>3 DEF IngressReturns, IngressGivesUp, egressVars
  <2>3. b.closed = line["b"].closed \cup {"fwd"}
    BY <1>1, OrderTypes, CloseShuts DEF Shuts
  <2>4. line'["b"] = b /\ line'["a"] = line["a"]
    BY <1>1, <2>1
  <2> QED BY <2>2, <2>3, <2>4 DEF Closings
<1>4. CASE \/ HelloRefused \/ RefuseFrame \/ Reject \/ RejectOther \/ AppUnreachable \/ IngressCut
           \/ IngressExpires
  <2>1. PICK as \in {"refused", "failed"} : (\E t : IngressGivesUp(as, t)) /\ ingress \notin {"relay", "closed"}
    BY <1>4 DEF HelloRefused, RefuseFrame, Reject, RejectOther, AppUnreachable, IngressCut,
         IngressExpires, Refuse
  <2>2. PICK u : line' = [line EXCEPT !["t"] = u, !["b"] = line["b"]]
    BY <2>1 DEF IngressGivesUp
  <2>3. egress' = egress /\ ingress' # "closed"
    BY <2>1 DEF IngressGivesUp, egressVars
  <2>4. line'["b"] = line["b"] /\ line'["a"] = line["a"]
    BY <1>1, <2>2
  <2> QED BY <2>1, <2>3, <2>4, ClosingsStay
<1>5. CASE \/ BuildAuthFrame \/ Dial \/ ClientHello \/ SendAuthFrame \/ ReadAck
           \/ ServerHello \/ ReadAuthFrame \/ Accept \/ DialApp
           \/ Renew \/ NetworkLost \/ TunnelBreaks \/ UNCHANGED vars
  <2>1. line' = line \/ \E t : line' = [line EXCEPT !["t"] = t]
    BY <1>5 DEF BuildAuthFrame, Dial, ClientHello, SendAuthFrame, ReadAck, ServerHello, ReadAuthFrame,
         Accept, DialApp, Renew, NetworkLost, TunnelBreaks, vars, relayVars
  <2>2. (egress' \in Left <=> egress \in Left) /\ (ingress' = "closed" <=> ingress = "closed")
    <3>1. CASE BuildAuthFrame \/ Dial \/ ClientHello \/ SendAuthFrame \/ ReadAck
      BY <3>1 DEF BuildAuthFrame, Dial, ClientHello, SendAuthFrame, ReadAck, ingressVars, Left,
           Order, Positions
    <3>2. CASE ServerHello \/ ReadAuthFrame \/ Accept \/ DialApp
      BY <3>2 DEF ServerHello, ReadAuthFrame, Accept, DialApp, egressVars
    <3>3. CASE Renew \/ NetworkLost \/ TunnelBreaks \/ UNCHANGED vars
      BY <3>3 DEF Renew, NetworkLost, TunnelBreaks, vars, egressVars, ingressVars
    <3> QED BY <1>5, <3>1, <3>2, <3>3
  <2>3. line'["a"] = line["a"] /\ line'["b"] = line["b"]
    BY <1>1, <2>1
  <2> QED BY <2>2, <2>3, ClosingsStay
<1>6. ASSUME NEW s \in Sidecars, NEW d \in Dirs, Copying(s, d) PROVE Closings'
  <2>1. egress' = egress /\ ingress' = ingress
    BY <1>6 DEF Copying, egressVars, ingressVars
  <2>2. PICK l \in Lines : \E n : line' = [line EXCEPT ![l] = n] /\ n.closed = line[l].closed
    <3>1. copier[<<s, d>>].at # "off"
      BY <1>6 DEF Copying, Copy, CopyRead, CopyWrite, CopyEnd, Returns
    <3>2. /\ Src(s, d) \in Lines /\ Dst(s, d) \in Lines /\ line[Src(s, d)] \in Connection
          /\ line[Dst(s, d)] \in Connection /\ <<s, d>> \in Goroutines
          /\ copier \in [Goroutines -> [at : {"off", "read", "write", "done"}, m : Message]]
      BY <3>1, CopierAt
    <3>3. CASE CopyRead(s, d)
      <4>1. Readable(line[Src(s, d)], d) /\ line' = [line EXCEPT ![Src(s, d)] = Take(line[Src(s, d)], d)]
        BY <3>3 DEF CopyRead
      <4>2. Take(line[Src(s, d)], d).closed = line[Src(s, d)].closed
        BY <3>2, <4>1, TakeSteady DEF Steady
      <4> QED BY <3>2, <4>1, <4>2
    <3>4. CASE CopyWrite(s, d) \/ CopyEnd(s, d, armed[s] # "none")
      <4>1. PICK m \in Message : \E n \in Put(line[Dst(s, d)], d, m) : line' = [line EXCEPT ![Dst(s, d)] = n]
        BY <3>2, <3>4, MessageTypes DEF CopyWrite, CopyEnd, PassEnd
      <4>2. PICK n \in Put(line[Dst(s, d)], d, m) : line' = [line EXCEPT ![Dst(s, d)] = n]
        BY <4>1
      <4>3. n.closed = line[Dst(s, d)].closed
        BY <3>2, PutWrote DEF Wrote
      <4> QED BY <3>2, <4>2, <4>3
    <3> QED BY <1>6, <3>3, <3>4 DEF Copying, Copy
  <2>3. line'["a"].closed = line["a"].closed /\ line'["b"].closed = line["b"].closed
    BY <1>1, <2>2
  <2> QED BY <2>1, <2>3, ClosingsStay
<1>7. ASSUME NEW d \in Dirs, Using(d) \/ AppLeaves(d) PROVE Closings'
  <2> DEFINE l == AppLine(d)
  <2>1. egress' = egress /\ ingress' = ingress
    BY <1>7 DEF Using, AppLeaves, egressVars, ingressVars
  <2>2. l \in Lines /\ line[l] \in Connection /\ Opp(d) \in Dirs
        /\ l = (IF d = "fwd" THEN "a" ELSE "b") /\ d \in {"fwd", "bwd"}
    BY OrderTypes DEF AppLine, Lines, Dirs, Opp
  <2>3. PICK n : /\ line' = [line EXCEPT ![l] = n]
                 /\ n.closed = line[l].closed \/ n.closed = line[l].closed \cup {d}
    <3>1. CASE AppWrite(d) \/ AppShut(d)
      <4>1. PICK m \in {Msg("byte"), Msg("end")} :
                   \E n \in Put(line[l], d, m) : line' = [line EXCEPT ![l] = n]
        BY <3>1 DEF AppWrite, AppShut, AppPuts
      <4>2. PICK n \in Put(line[l], d, m) : line' = [line EXCEPT ![l] = n]
        BY <4>1
      <4>3. n.closed = line[l].closed
        BY <2>2, MessageTypes, PutWrote DEF Wrote
      <4> QED BY <4>2, <4>3
    <3>2. CASE AppRead(d)
      <4>1. \/ line' = [line EXCEPT ![l] = Take(line[l], Opp(d))] /\ Readable(line[l], Opp(d))
            \/ line' = line
        BY <3>2 DEF AppRead
      <4>2. line = [line EXCEPT ![l] = line[l]]
        BY <1>1
      <4> QED BY <2>2, <4>1, <4>2, TakeSteady DEF Steady
    <3>3. CASE AppClose(d) \/ AppGone(d)
      <4>1. PICK n \in CloseEnd(line[l], d) : line' = [line EXCEPT ![l] = n]
        BY <3>3 DEF AppClose, AppGone
      <4> QED BY <2>2, <4>1, CloseShuts DEF Shuts
    <3> QED BY <1>7, <3>1, <3>2, <3>3 DEF Using, AppLeaves, AppSteps
  <2> HIDE DEF l
  <2>4. \A k \in Lines : line'[k] = IF k = l THEN n ELSE line[k]
    BY <1>1, <2>2, <2>3
  <2>5. /\ line'["a"].closed \ {"fwd"} = line["a"].closed \ {"fwd"}
        /\ line'["b"].closed \ {"bwd"} = line["b"].closed \ {"bwd"}
    <3>1. CASE d = "fwd"
      BY <1>1, <2>2, <2>3, <2>4, <3>1
    <3>2. CASE d = "bwd"
      BY <1>1, <2>2, <2>3, <2>4, <3>2
    <3> QED BY <2>2, <3>1, <3>2
  <2> QED BY <2>1, <2>5, ClosingsStay
<1> QED BY <1>2, <1>3, <1>4, <1>5, <1>6, <1>7 DEF Next, Forward, AcceptSteps

\* Whatever fails, and wherever: no connection outlives the handler that holds it, and
\* none is closed under a handler or a relay that still uses it.
THEOREM NothingLeft == Spec => []ClosedOnReturn
<1>1. Init => Closings
  <2> SUFFICES ASSUME Init PROVE Closings
    OBVIOUS
  <2>1. line["a"].closed = {} /\ line["b"].closed = {}
    BY DEF Init, Fresh, Lines
  <2> QED BY <2>1 DEF Init, Closings, Left
<1>2. Order /\ Closings => ClosedOnReturn
  BY DEF Order, Positions, Closings, ClosedOnReturn, Left
<1> QED BY <1>1, <1>2, ClosingsStep, OrderInvariance, PTL DEF Spec

-----------------------------------------------------------------------------
(***************************************************************************)
(* The accounts.  When things do go wrong, bytes may be lost: they are     *)
(* read by nobody, reset away or left in a goroutine's hand.  None is ever *)
(* passed on twice.                                                        *)
(***************************************************************************)

InLines(x, d) == Bytes(x["a"][d]) + Bytes(x["t"][d]) + Bytes(x["b"][d])
InHands(c, d) == Held(c[<<"egress", d>>].at) + Held(c[<<"ingress", d>>].at)

\* What the other application has read or may still read, and what d wrote.
Accounts ==
  /\ app["bwd"].at = "absent" => app["bwd"] = NewApp("absent")
  /\ \A d \in Dirs : InLines(line, d) + InHands(copier, d) + app[Opp(d)].got <= app[d].sent

\* No application has read more than the other one wrote, and a byte that can be read
\* was written: it is within the bound that the model sets on reading.
ReadsOnlyWritten ==
  /\ \A d \in Dirs : app[Opp(d)].got <= app[d].sent
  /\ \A d \in Dirs : Readable(line[AppLine(Opp(d))], d) => app[Opp(d)].got < MaxData

\* No direction of c has more bytes than it has in n.
Fades(c, n) == c \in Connection /\ \A d \in Dirs : Bytes(c[d]) <= Bytes(n[d])

LEMMA QueueBytes ==
  ASSUME NEW n \in Connection, NEW d \in Dirs
  PROVE  n[d] \in Seq(Message) /\ Bytes(n[d]) \in Nat
BY Queues, BytesNat

LEMMA FadesSame == ASSUME NEW n \in Connection PROVE Fades(n, n)
BY QueueBytes DEF Fades

LEMMA FadesTrans ==
  ASSUME NEW n \in Connection, NEW m, Fades(m, n), NEW c, Fades(c, m)
  PROVE  Fades(c, n)
<1>1. \A d \in Dirs : Bytes(c[d]) \in Nat /\ Bytes(m[d]) \in Nat /\ Bytes(n[d]) \in Nat
  BY QueueBytes DEF Fades
<1> QED BY <1>1 DEF Fades

LEMMA PrefixBytes ==
  ASSUME NEW q \in Seq(Message), NEW p \in Prefixes(q)
  PROVE  p \in Seq(Message) /\ Bytes(p) <= Bytes(q)
<1> DEFINE B == {i \in 1..Len(q) : q[i].k = "byte"}
           C == {i \in 1..Len(p) : p[i].k = "byte"}
<1>1. PICK l \in 0..Len(q) : p = SubSeq(q, 1, l)
  BY DEF Prefixes
<1>2. Len(q) \in Nat /\ \A i \in 1..l : q[i] \in Message
  BY ElementOfSeq, LenProperties
<1>3. p \in Seq(Message) /\ Len(p) = l /\ \A i \in 1..l : p[i] = q[i]
  BY <1>1, <1>2, SubSeqProperties
<1>4. \A i \in 1..l : i \in 1..Len(q)
  BY <1>2
<1>5. C \in SUBSET B
  BY <1>3, <1>4
<1>6. IsFiniteSet(B)
  BY BytesNat
<1>7. Cardinality(C) <= Cardinality(B)
  BY <1>5, <1>6, FS_Subset
<1> QED BY <1>3, <1>7 DEF Bytes

LEMMA KeptBytes ==
  ASSUME NEW q \in Seq(Message), NEW gone, NEW p \in Kept(q, gone)
  PROVE  p \in Seq(Message) /\ Bytes(p) <= Bytes(q)
<1>1. CASE p \in Prefixes(q)
  BY <1>1, PrefixBytes
<1>2. CASE p = <<>>
  <2>1. Bytes(q) \in Nat
    BY BytesNat
  <2> QED BY <1>2, <2>1, BytesEmpty, EmptyContent
<1> QED BY <1>1, <1>2 DEF Kept

LEMMA ResetFades ==
  ASSUME NEW n \in Connection, NEW c \in Resets(n)
  PROVE  Fades(c, n)
<1>1. PICK f \in Kept(n.fwd, "bwd" \in n.closed), b \in Kept(n.bwd, "fwd" \in n.closed) :
        c = Broken(n, f, b)
  BY DEF Resets
<1>2. /\ n.fwd \in Seq(Message) /\ n.bwd \in Seq(Message)
      /\ Bytes(n.fwd) \in Nat /\ Bytes(n.bwd) \in Nat
  BY BytesNat DEF Connection
<1>3. f \in Seq(Message) /\ Bytes(f) <= Bytes(n.fwd) /\ b \in Seq(Message) /\ Bytes(b) <= Bytes(n.bwd)
  BY <1>2, KeptBytes
<1>4. c \in Connection /\ c.fwd = f /\ c.bwd = b
  BY <1>1, <1>3 DEF Broken, Connection
<1> QED BY <1>3, <1>4 DEF Fades, Dirs

\* What a write adds is at most what is written.
LEMMA PutBytes ==
  ASSUME NEW n \in Connection, NEW d \in Dirs, NEW m \in Message, NEW c \in Put(n, d, m)
  PROVE  /\ c \in Connection /\ Bytes(c[Opp(d)]) <= Bytes(n[Opp(d)])
         /\ Bytes(c[d]) <= Bytes(n[d]) + (IF m.k = "byte" THEN 1 ELSE 0)
         /\ m.k # "byte" => Fades(c, n)
<1>1. /\ n[d] \in Seq(Message) /\ Bytes(n[d]) \in Nat /\ Bytes(n[Opp(d)]) \in Nat /\ Opp(d) \in Dirs
      /\ Dirs = {d, Opp(d)}
  BY Queues, QueueBytes DEF Dirs, Opp
<1>2. c = n \/ c \in Resets(n) \/ c = With(n, d, m)
  BY DEF Put, With
<1>3. CASE c = n \/ c \in Resets(n)
  <2>1. Fades(c, n)
    BY <1>3, FadesSame, ResetFades
  <2>2. Bytes(c[d]) \in Nat /\ Bytes(c[d]) <= Bytes(n[d]) /\ Bytes(c[Opp(d)]) <= Bytes(n[Opp(d)])
    BY <1>1, <2>1, QueueBytes DEF Fades
  <2> QED BY <1>1, <2>1, <2>2 DEF Fades
<1>4. CASE c = With(n, d, m)
  <2>1. c \in Connection /\ c[d] = Append(n[d], m) /\ c[Opp(d)] = n[Opp(d)]
    BY <1>4, AppendTo
  <2>2. Bytes(c[d]) = Bytes(n[d]) + (IF m.k = "byte" THEN 1 ELSE 0)
    BY <1>1, <2>1, BytesAppend
  <2>3. Bytes(c[Opp(d)]) <= Bytes(n[Opp(d)])
    BY <1>1, <2>1
  <2>4. ASSUME m.k # "byte" PROVE Fades(c, n)
    <3>1. Bytes(c[d]) <= Bytes(n[d])
      BY <1>1, <2>2, <2>4
    <3> QED BY <1>1, <2>1, <2>3, <3>1 DEF Fades
  <2>5. Bytes(c[d]) <= Bytes(n[d]) + (IF m.k = "byte" THEN 1 ELSE 0)
    BY <1>1, <2>2
  <2> QED BY <2>1, <2>3, <2>4, <2>5
<1> QED BY <1>2, <1>3, <1>4

LEMMA TakeBytes ==
  ASSUME NEW n \in Connection, NEW d \in Dirs, Readable(n, d)
  PROVE  /\ Fades(Take(n, d), n) /\ Take(n, d)[Opp(d)] = n[Opp(d)]
         /\ Head(n[d]).k = "byte" => Bytes(n[d]) = Bytes(Take(n, d)[d]) + 1
<1>1. /\ Take(n, d) \in Connection /\ Take(n, d)[Opp(d)] = n[Opp(d)] /\ Take(n, d)[d] = Tail(n[d])
      /\ n[d] # <<>>
  BY TakeSteady DEF Steady
<1>2. /\ n[d] \in Seq(Message) /\ Bytes(n[Opp(d)]) \in Nat /\ Bytes(Tail(n[d])) \in Nat /\ Opp(d) \in Dirs
      /\ Dirs = {d, Opp(d)}
  BY <1>1, Queues, QueueBytes DEF Dirs, Opp
<1>3. Bytes(n[d]) = Bytes(Tail(n[d])) + (IF Head(n[d]).k = "byte" THEN 1 ELSE 0)
  BY <1>1, <1>2, BytesTail
<1> QED BY <1>1, <1>2, <1>3 DEF Fades

LEMMA CloseFades ==
  ASSUME NEW n \in Connection, NEW d \in Dirs, NEW c \in CloseEnd(n, d)
  PROVE  Fades(c, n)
<1> DEFINE gone == [n EXCEPT !.closed = @ \cup {d}, ![Opp(d)] = <<>>]
<1>1. gone \in Connection /\ gone[d] = n[d] /\ gone[Opp(d)] = <<>>
  <2>1. n.closed \cup {d} \in SUBSET Dirs /\ <<>> \in Seq(Message)
    BY EmptyContent DEF Connection
  <2>2. CASE d = "fwd"
    <3>1. gone = [n EXCEPT !.closed = n.closed \cup {d}, !.bwd = <<>>]
      BY <2>2 DEF Opp
    <3> QED BY <2>1, <2>2, <3>1 DEF Connection, Opp
  <2>3. CASE d = "bwd"
    <3>1. gone = [n EXCEPT !.closed = n.closed \cup {d}, !.fwd = <<>>]
      BY <2>3 DEF Opp
    <3> QED BY <2>1, <2>3, <3>1 DEF Connection, Opp
  <2> QED BY <2>2, <2>3 DEF Dirs
<1>2. c \in Resets(gone) \/ c \in Put(gone, d, Msg("end"))
  BY DEF CloseEnd
<1> HIDE DEF gone
<1>3. Fades(gone, n)
  <2>1. Bytes(n[d]) \in Nat /\ Bytes(n[Opp(d)]) \in Nat /\ Opp(d) \in Dirs /\ Dirs = {d, Opp(d)}
    BY Queues, QueueBytes DEF Dirs, Opp
  <2> QED BY <1>1, <2>1, BytesEmpty DEF Fades
<1>4. Fades(c, gone)
  BY <1>1, <1>2, ResetFades, PutBytes, MessageTypes
<1> QED BY <1>3, <1>4, FadesTrans

LEMMA LineBytes ==
  ASSUME NEW x \in [Lines -> Connection], NEW d \in Dirs
  PROVE  /\ Bytes(x["a"][d]) \in Nat /\ Bytes(x["t"][d]) \in Nat /\ Bytes(x["b"][d]) \in Nat
         /\ InLines(x, d) \in Nat
<1>1. "a" \in Lines /\ "t" \in Lines /\ "b" \in Lines
  BY DEF Lines
<1>2. Bytes(x["a"][d]) \in Nat /\ Bytes(x["t"][d]) \in Nat /\ Bytes(x["b"][d]) \in Nat
  BY <1>1, QueueBytes
<1> QED BY <1>2 DEF InLines

\* One connection changes, and with it at most k bytes of a direction.
LEMMA OneLine ==
  ASSUME NEW x \in [Lines -> Connection], NEW l \in Lines, NEW n \in Connection, NEW d \in Dirs,
         NEW k \in Int, Bytes(n[d]) <= Bytes(x[l][d]) + k, NEW y, y = [x EXCEPT ![l] = n]
  PROVE  InLines(y, d) <= InLines(x, d) + k
<1>1. y \in [Lines -> Connection] /\ "a" \in Lines /\ "t" \in Lines /\ "b" \in Lines
  BY DEF Lines
<1>2. \A j \in Lines : y[j] = IF j = l THEN n ELSE x[j]
  OBVIOUS
<1>3. /\ Bytes(x["a"][d]) \in Nat /\ Bytes(x["t"][d]) \in Nat /\ Bytes(x["b"][d]) \in Nat
      /\ Bytes(n[d]) \in Nat
  BY LineBytes, QueueBytes
<1>4. CASE l = "a"
  BY <1>1, <1>2, <1>3, <1>4 DEF InLines
<1>5. CASE l = "t"
  BY <1>1, <1>2, <1>3, <1>5 DEF InLines
<1>6. CASE l = "b"
  BY <1>1, <1>2, <1>3, <1>6 DEF InLines
<1> QED BY <1>4, <1>5, <1>6 DEF Lines

\* Connections lose bytes at most, goroutines start or return.
LEMMA FadingLines ==
  ASSUME NEW x \in [Lines -> Connection], NEW y \in [Lines -> Connection],
         \A l \in Lines : Fades(y[l], x[l]), NEW d \in Dirs
  PROVE  InLines(y, d) <= InLines(x, d)
<1>1. /\ Bytes(y["a"][d]) <= Bytes(x["a"][d]) /\ Bytes(y["t"][d]) <= Bytes(x["t"][d])
      /\ Bytes(y["b"][d]) <= Bytes(x["b"][d])
  BY DEF Fades, Lines
<1> QED BY <1>1, LineBytes DEF InLines

LEMMA HandsNat ==
  ASSUME NEW c, NEW d \in Dirs
  PROVE  /\ InHands(c, d) \in Nat
         /\ \A s \in Sidecars : Held(c[<<s, d>>].at) \in Nat
BY DEF InHands, Held, Sidecars

LEMMA FadingHands ==
  ASSUME NEW c, NEW e, \A g \in Goroutines : e[g].at = "write" => c[g].at = "write", NEW d \in Dirs
  PROVE  InHands(e, d) <= InHands(c, d)
<1>1. <<"egress", d>> \in Goroutines /\ <<"ingress", d>> \in Goroutines
  BY DEF Goroutines, Sidecars
<1> QED BY <1>1 DEF InHands, Held

\* A goroutine reads or has written: what it holds changes, and nothing else.
LEMMA OneHand ==
  ASSUME NEW c, NEW e, NEW s \in Sidecars, NEW d \in Dirs,
         \A h \in Goroutines : h # <<s, d>> => e[h] = c[h]
  PROVE  InHands(e, d) + Held(c[<<s, d>>].at) = InHands(c, d) + Held(e[<<s, d>>].at)
<1>1. \A t \in Sidecars : t # s => e[<<t, d>>] = c[<<t, d>>]
  BY DEF Goroutines
<1>2. \A t \in Sidecars : Held(c[<<t, d>>].at) \in Int /\ Held(e[<<t, d>>].at) \in Int
  BY DEF Held
<1>3. "egress" \in Sidecars /\ "ingress" \in Sidecars
  BY DEF Sidecars
<1>4. CASE s = "egress"
  BY <1>1, <1>2, <1>3, <1>4 DEF InHands
<1>5. CASE s = "ingress"
  BY <1>1, <1>2, <1>3, <1>5 DEF InHands
<1> QED BY <1>4, <1>5 DEF Sidecars

LEMMA OtherHands ==
  ASSUME NEW c, NEW e, NEW s \in Sidecars, NEW d \in Dirs, NEW f \in Dirs, f # d,
         \A h \in Goroutines : h # <<s, d>> => e[h] = c[h]
  PROVE  InHands(e, f) = InHands(c, f)
<1>1. \A t \in Sidecars : e[<<t, f>>] = c[<<t, f>>]
  BY DEF Goroutines
<1> QED BY <1>1 DEF InHands, Sidecars

LEMMA AccountTypes ==
  ASSUME IInv
  PROVE  /\ line \in [Lines -> Connection] /\ app \in [Dirs -> Application]
         /\ copier \in [Goroutines -> [at : {"off", "read", "write", "done"}, m : Message]]
         /\ \A d \in Dirs : /\ Opp(d) \in Dirs /\ app[d].sent \in Nat /\ app[d].got \in Nat
                            /\ InLines(line, d) \in Nat /\ InHands(copier, d) \in Nat
<1>1. /\ line \in [Lines -> Connection] /\ app \in [Dirs -> Application]
      /\ copier \in [Goroutines -> [at : {"off", "read", "write", "done"}, m : Message]]
  BY DEF IInv, TypeOK, Connection
<1>2. ASSUME NEW d \in Dirs
      PROVE  /\ Opp(d) \in Dirs /\ app[d].sent \in Nat /\ app[d].got \in Nat
             /\ InLines(line, d) \in Nat /\ InHands(copier, d) \in Nat
  <2>1. app[d].sent \in Nat /\ app[d].got \in Nat
    BY <1>1, RelayAssumption DEF Application
  <2>2. Opp(d) \in Dirs
    BY DEF Opp, Dirs
  <2> QED BY <1>1, <2>1, <2>2, LineBytes, HandsNat
<1> QED BY <1>1, <1>2

\* Nothing is written, and nothing read but to be lost.
LEMMA Fading ==
  ASSUME IInv, IInv', Accounts, \A l \in Lines : Fades(line'[l], line[l]),
         \A g \in Goroutines : copier'[g].at = "write" => copier[g].at = "write",
         \A d \in Dirs : app'[d].sent = app[d].sent /\ app'[d].got = app[d].got,
         app'["bwd"].at = "absent" => app'["bwd"] = NewApp("absent")
  PROVE  Accounts'
<1>1. ASSUME NEW d \in Dirs
      PROVE  InLines(line', d) + InHands(copier', d) + app'[Opp(d)].got <= app'[d].sent
  <2>1. InLines(line', d) <= InLines(line, d)
    <3>1. line \in [Lines -> Connection] /\ line' \in [Lines -> Connection]
      BY AccountTypes DEF IInv, TypeOK, Connection
    <3> QED BY <3>1, FadingLines
  <2>2. InHands(copier', d) <= InHands(copier, d)
    BY FadingHands
  <2>3. /\ Opp(d) \in Dirs /\ app[d].sent \in Nat /\ app[Opp(d)].got \in Nat
        /\ InLines(line, d) \in Nat /\ InHands(copier, d) \in Nat
        /\ InLines(line', d) \in Nat /\ InHands(copier', d) \in Nat
    <3>1. line' \in [Lines -> Connection]
      BY DEF IInv, TypeOK, Connection
    <3>2. InLines(line', d) \in Nat /\ InHands(copier', d) \in Nat
      BY <3>1, LineBytes, HandsNat
    <3> QED BY <3>2, AccountTypes
  <2>4. InLines(line, d) + InHands(copier, d) + app[Opp(d)].got <= app[d].sent
    BY DEF Accounts
  <2> QED BY <2>1, <2>2, <2>3, <2>4
<1> QED BY <1>1 DEF Accounts

LEMMA OneFades ==
  ASSUME line \in [Lines -> Connection], NEW l \in Lines, NEW n, Fades(n, line[l]),
         line' = [line EXCEPT ![l] = n]
  PROVE  \A j \in Lines : Fades(line'[j], line[j])
<1>1. \A j \in Lines : line'[j] = IF j = l THEN n ELSE line[j]
  OBVIOUS
<1> QED BY <1>1, FadesSame

LEMMA TwoFade ==
  ASSUME line \in [Lines -> Connection], NEW l \in Lines, NEW k \in Lines, k # l,
         NEW n, Fades(n, line[l]), NEW o, Fades(o, line[k]),
         line' = [line EXCEPT ![l] = n, ![k] = o]
  PROVE  \A j \in Lines : Fades(line'[j], line[j])
<1>1. \A j \in Lines : line'[j] = IF j = k THEN o ELSE IF j = l THEN n ELSE line[j]
  OBVIOUS
<1> QED BY <1>1, FadesSame

\* A message of the set-up is written, after one was read.
LEMMA AnswerFades ==
  ASSUME NEW n \in Connection, NEW d \in Dirs, NEW e \in Dirs, Readable(n, e), NEW m \in Message,
         m.k # "byte", NEW c \in Put(Take(n, e), d, m)
  PROVE  Fades(c, n)
<1>1. Fades(Take(n, e), n) /\ Take(n, e) \in Connection
  BY TakeBytes DEF Fades
<1>2. Fades(c, Take(n, e))
  BY <1>1, PutBytes
<1> QED BY <1>1, <1>2, FadesTrans

LEMMA ForwardFades ==
  ASSUME IInv, Forward \/ EgressExpires
  PROVE  /\ \A j \in Lines : Fades(line'[j], line[j])
         /\ app' = app
<1>1. /\ line \in [Lines -> Connection] /\ line["t"] \in Connection /\ line["a"] \in Connection
      /\ "t" \in Lines /\ "a" \in Lines /\ "fwd" \in Dirs /\ "bwd" \in Dirs
      /\ cert \in Certs /\ tok \in Certs
  BY OrderTypes DEF IInv, TypeOK
<1>2. CASE BuildAuthFrame \/ Dial
  BY <1>1, <1>2, FadesSame DEF BuildAuthFrame, Dial, relayVars
<1>3. CASE ClientHello
  <2> DEFINE m == [k |-> "hello", v |-> cert]
  <2>1. m \in Message /\ m.k # "byte"
    BY <1>1 DEF Certs, Message
  <2>2. PICK t \in Put(line["t"], "fwd", m) : line' = [line EXCEPT !["t"] = t]
    BY <1>3 DEF ClientHello
  <2> HIDE DEF m
  <2>3. Fades(t, line["t"])
    BY <1>1, <2>1, PutBytes
  <2> QED BY <1>1, <1>3, <2>2, <2>3, OneFades DEF ClientHello
<1>4. CASE SendAuthFrame
  <2> DEFINE m == [k |-> "auth", v |-> tok]
  <2>1. m \in Message /\ m.k # "byte"
    BY <1>1 DEF Certs, Message
  <2>2. PICK t \in Put(Take(line["t"], "bwd"), "fwd", m) : line' = [line EXCEPT !["t"] = t]
    BY <1>4 DEF SendAuthFrame
  <2> HIDE DEF m
  <2>3. Readable(line["t"], "bwd")
    BY <1>4 DEF SendAuthFrame, EgressHears
  <2>4. Fades(t, line["t"])
    BY <1>1, <2>1, <2>3, AnswerFades
  <2> QED BY <1>1, <1>4, <2>2, <2>4, OneFades DEF SendAuthFrame
<1>5. CASE ReadAck
  <2>1. Readable(line["t"], "bwd") /\ line' = [line EXCEPT !["t"] = Take(line["t"], "bwd")]
    BY <1>1, <1>5 DEF ReadAck, EgressHears
  <2>2. Fades(Take(line["t"], "bwd"), line["t"])
    BY <1>1, <2>1, TakeBytes
  <2> QED BY <1>1, <1>5, <2>1, <2>2, OneFades DEF ReadAck
<1>6. CASE EgressRefused \/ EgressCut \/ EgressExpires \/ EgressReturns
  <2>1. PICK as \in {"refused", "failed", "closed"} : EgressGivesUp(as)
    BY <1>6 DEF EgressRefused, EgressCut, EgressExpires, EgressReturns
  <2>2. PICK t \in IF egress \in {"token", "dial"} THEN {line["t"]} ELSE CloseEnd(line["t"], "fwd"),
             a \in CloseEnd(line["a"], "bwd") : line' = [line EXCEPT !["t"] = t, !["a"] = a]
    BY <2>1 DEF EgressGivesUp
  <2>3. Fades(t, line["t"]) /\ Fades(a, line["a"])
    BY <1>1, <2>2, CloseFades, FadesSame
  <2> QED BY <1>1, <2>1, <2>2, <2>3, TwoFade DEF EgressGivesUp
<1> QED BY <1>2, <1>3, <1>4, <1>5, <1>6 DEF Forward

LEMMA IngressGivesUpFades ==
  ASSUME IInv, NEW t, Fades(t, line["t"]), NEW as, IngressGivesUp(as, t)
  PROVE  (\A j \in Lines : Fades(line'[j], line[j])) /\ app' = app
<1>1. /\ line \in [Lines -> Connection] /\ line["t"] \in Connection /\ line["b"] \in Connection
      /\ "t" \in Lines /\ "b" \in Lines /\ "fwd" \in Dirs /\ "bwd" \in Dirs
  BY OrderTypes
<1>2. PICK u \in CloseEnd(t, "bwd"), b \in IF ingress = "relay" THEN CloseEnd(line["b"], "fwd") ELSE {line["b"]} :
        line' = [line EXCEPT !["t"] = u, !["b"] = b]
  BY DEF IngressGivesUp
<1>3. Fades(u, t) /\ t \in Connection
  BY <1>1, CloseFades DEF Fades
<1>4. Fades(u, line["t"]) /\ Fades(b, line["b"])
  BY <1>1, <1>2, <1>3, FadesTrans, CloseFades, FadesSame
<1> QED BY <1>1, <1>2, <1>4, TwoFade DEF IngressGivesUp

LEMMA AcceptingFades ==
  ASSUME IInv, AcceptSteps \/ IngressExpires
  PROVE  /\ \A j \in Lines : Fades(line'[j], line[j])
         /\ app' = app \/ (DialApp /\ app' = [app EXCEPT !["bwd"] = NewApp("open")])
<1>1. /\ line \in [Lines -> Connection] /\ line["t"] \in Connection
      /\ "t" \in Lines /\ "fwd" \in Dirs /\ "bwd" \in Dirs
  BY OrderTypes
<1>2. CASE DialApp
  BY <1>1, <1>2, FadesSame DEF DialApp
<1>3. CASE ServerHello
  <2>1. PICK t \in Put(Take(line["t"], "fwd"), "bwd", Msg("hello")) : line' = [line EXCEPT !["t"] = t]
    BY <1>3 DEF ServerHello
  <2>2. Readable(line["t"], "fwd")
    BY <1>3 DEF ServerHello, IngressHears
  <2>3. Fades(t, line["t"])
    BY <1>1, <2>2, MessageTypes, AnswerFades
  <2> QED BY <1>1, <1>3, <2>1, <2>3, OneFades DEF ServerHello
<1>4. CASE ReadAuthFrame
  <2>1. Readable(line["t"], "fwd") /\ line' = [line EXCEPT !["t"] = Take(line["t"], "fwd")]
    BY <1>1, <1>4 DEF ReadAuthFrame, IngressHears
  <2>2. Fades(Take(line["t"], "fwd"), line["t"])
    BY <1>1, <2>1, TakeBytes
  <2> QED BY <1>1, <1>4, <2>1, <2>2, OneFades DEF ReadAuthFrame
<1>5. CASE Accept
  <2>1. PICK t \in Put(line["t"], "bwd", Msg("ok")) : line' = [line EXCEPT !["t"] = t]
    BY <1>5 DEF Accept
  <2>2. Fades(t, line["t"])
    BY <1>1, MessageTypes, PutBytes
  <2> QED BY <1>1, <1>5, <2>1, <2>2, OneFades DEF Accept
<1>6. CASE RefuseFrame \/ Reject \/ RejectOther
  <2>1. PICK n \in {line["t"], Take(line["t"], "fwd")} : Refuse(n) /\ (n = line["t"] \/ Readable(line["t"], "fwd"))
    BY <1>6 DEF RefuseFrame, Reject, RejectOther
  <2>2. PICK u \in Put(n, "bwd", Msg("no")) : IngressGivesUp("refused", u)
    BY <2>1 DEF Refuse
  <2>3. CASE n = line["t"]
    <3>1. Fades(u, line["t"])
      BY <1>1, <2>2, <2>3, MessageTypes, PutBytes
    <3> QED BY <2>2, <3>1, IngressGivesUpFades
  <2>4. CASE n = Take(line["t"], "fwd") /\ Readable(line["t"], "fwd")
    <3>1. Fades(u, line["t"])
      BY <1>1, <2>2, <2>4, MessageTypes, AnswerFades
    <3> QED BY <2>2, <3>1, IngressGivesUpFades
  <2> QED BY <2>1, <2>3, <2>4
<1>7. CASE HelloRefused \/ AppUnreachable \/ IngressCut \/ IngressExpires \/ IngressReturns
  <2>1. PICK as \in {"failed", "closed"} : IngressGivesUp(as, line["t"])
    BY <1>7 DEF HelloRefused, AppUnreachable, IngressCut, IngressExpires, IngressReturns
  <2> QED BY <1>1, <2>1, FadesSame, IngressGivesUpFades
<1> QED BY <1>2, <1>3, <1>4, <1>5, <1>6, <1>7 DEF AcceptSteps

LEMMA AroundFades ==
  ASSUME IInv, Renew \/ NetworkLost \/ TunnelBreaks \/ UNCHANGED vars
  PROVE  (\A j \in Lines : Fades(line'[j], line[j])) /\ app' = app /\ copier' = copier
<1>1. /\ line \in [Lines -> Connection] /\ line["t"] \in Connection
      /\ "t" \in Lines /\ "fwd" \in Dirs /\ "bwd" \in Dirs
  BY OrderTypes
<1>2. CASE Renew \/ UNCHANGED vars
  BY <1>1, <1>2, FadesSame DEF Renew, vars, relayVars
<1>3. CASE NetworkLost
  <2> DEFINE n == [line["t"] EXCEPT !.cut = TRUE]
  <2>1. line' = [line EXCEPT !["t"] = n]
    BY <1>3 DEF NetworkLost
  <2>2. n \in Connection /\ n.fwd = line["t"].fwd /\ n.bwd = line["t"].bwd
    BY <1>1 DEF Connection
  <2> HIDE DEF n
  <2>3. \A d \in Dirs : Bytes(n[d]) \in Nat /\ n[d] = line["t"][d]
    BY <2>2, QueueBytes DEF Dirs
  <2>4. Fades(n, line["t"])
    BY <2>2, <2>3 DEF Fades
  <2> QED BY <1>1, <1>3, <2>1, <2>4, OneFades DEF NetworkLost
<1>4. CASE TunnelBreaks
  BY <1>1, <1>4, ResetFades, OneFades DEF TunnelBreaks
<1> QED BY <1>2, <1>3, <1>4

\* What leaves a queue is in hand, or the other way round.
LEMMA InTransit ==
  ASSUME IInv, Accounts, app' = app, NEW s \in Sidecars, NEW d \in Dirs,
         NEW l \in Lines, NEW n \in Connection, line' = [line EXCEPT ![l] = n],
         \A h \in Goroutines : h # <<s, d>> => copier'[h] = copier[h],
         NEW i \in Int, NEW k \in Int, i + k = 0, Bytes(n[d]) <= Bytes(line[l][d]) + i,
         Bytes(n[Opp(d)]) <= Bytes(line[l][Opp(d)]), Held(copier'[<<s, d>>].at) = Held(copier[<<s, d>>].at) + k
  PROVE  Accounts'
<1> DEFINE o == Opp(d)
<1>1. /\ o \in Dirs /\ o # d /\ Dirs = {d, o} /\ 0 \in Int
      /\ Bytes(line[l][o]) \in Nat /\ line \in [Lines -> Connection]
  <2>1. o \in Dirs /\ o # d /\ Dirs = {d, o}
    BY Ways
  <2>2. line \in [Lines -> Connection]
    BY AccountTypes
  <2> HIDE DEF o
  <2>3. line[l] \in Connection
    BY <2>2
  <2>4. Bytes(line[l][o]) \in Nat
    BY <2>1, <2>3, QueueBytes
  <2> QED BY <2>1, <2>2, <2>4
<1>2. InLines(line', d) <= InLines(line, d) + i
  BY <1>1, OneLine
<1>3. InLines(line', o) <= InLines(line, o)
  <2>1. Bytes(n[o]) <= Bytes(line[l][o]) + 0
    BY <1>1
  <2> HIDE DEF o
  <2>2. InLines(line', o) <= InLines(line, o) + 0
    BY <1>1, <2>1, OneLine
  <2> QED BY <1>1, <2>2, LineBytes
<1>4. InHands(copier', d) = InHands(copier, d) + k /\ InHands(copier', o) = InHands(copier, o)
  <2>1. InHands(copier', d) + Held(copier[<<s, d>>].at) = InHands(copier, d) + Held(copier'[<<s, d>>].at)
    BY OneHand
  <2>2. InHands(copier', o) = InHands(copier, o)
    BY <1>1, OtherHands
  <2>3. /\ InHands(copier', d) \in Nat /\ InHands(copier, d) \in Nat
        /\ Held(copier[<<s, d>>].at) \in Nat /\ Held(copier'[<<s, d>>].at) \in Nat
    BY HandsNat
  <2> QED BY <2>1, <2>2, <2>3
<1> HIDE DEF o
<1>5. \A e \in Dirs : /\ InLines(line', e) \in Nat /\ InHands(copier', e) \in Nat
                      /\ InLines(line, e) \in Nat /\ InHands(copier, e) \in Nat
                      /\ app[e].sent \in Nat /\ app[Opp(e)].got \in Nat
                      /\ InLines(line, e) + InHands(copier, e) + app[Opp(e)].got <= app[e].sent
  <2>1. line' \in [Lines -> Connection]
    BY <1>1
  <2> QED BY <2>1, LineBytes, HandsNat, AccountTypes DEF Accounts
<1>6. InLines(line', d) + InHands(copier', d) <= InLines(line, d) + InHands(copier, d)
  BY <1>1, <1>2, <1>4, <1>5
<1>7. InLines(line', o) + InHands(copier', o) <= InLines(line, o) + InHands(copier, o)
  BY <1>1, <1>3, <1>4, <1>5
<1>8. \A e \in Dirs : InLines(line', e) + InHands(copier', e) <= InLines(line, e) + InHands(copier, e)
  BY <1>1, <1>6, <1>7
<1>9. ASSUME NEW e \in Dirs PROVE InLines(line', e) + InHands(copier', e) + app[Opp(e)].got <= app[e].sent
  <2>1. InLines(line', e) + InHands(copier', e) <= InLines(line, e) + InHands(copier, e)
    BY <1>8
  <2>2. /\ InLines(line', e) \in Nat /\ InHands(copier', e) \in Nat
        /\ InLines(line, e) \in Nat /\ InHands(copier, e) \in Nat
        /\ app[e].sent \in Nat /\ app[Opp(e)].got \in Nat
        /\ InLines(line, e) + InHands(copier, e) + app[Opp(e)].got <= app[e].sent
    BY <1>5
  <2> QED BY <2>1, <2>2
<1> QED BY <1>9 DEF Accounts

\* The step of a goroutine: it reads a byte, passes it on or returns.
LEMMA CopyAccounts ==
  ASSUME IInv, IInv', Order, Accounts, NEW s \in Sidecars, NEW d \in Dirs, Copying(s, d)
  PROVE  Accounts'
<1> DEFINE src == Src(s, d)
           dst == Dst(s, d)
           g == <<s, d>>
<1>1. Copy(s, d, armed[s] # "none") /\ app' = app
  BY DEF Copying, Copy, CopyRead, CopyWrite, CopyEnd
<1>2. copier[g].at # "off"
  BY <1>1 DEF Copy, CopyRead, CopyWrite, CopyEnd, Returns
<1>3. /\ src \in Lines /\ dst \in Lines /\ g \in Goroutines
      /\ line[src] \in Connection /\ line[dst] \in Connection /\ DataIn(line[src][d])
      /\ copier \in [Goroutines -> [at : {"off", "read", "write", "done"}, m : Message]]
      /\ line \in [Lines -> Connection]
  BY <1>2, CopierAt, OrderTypes
<1>5. CASE CopyRead(s, d)
  <2> DEFINE c == [at |-> "write", m |-> Head(line[src][d])]
             n == Take(line[src], d)
  <2>1. /\ Readable(line[src], d) /\ copier' = [copier EXCEPT ![g] = c]
        /\ line' = [line EXCEPT ![src] = n] /\ copier[g].at = "read"
    BY <1>5 DEF CopyRead
  <2>2. Head(line[src][d]).k = "byte"
    <3>1. Head(line[src][d]) \in Content(line[src][d]) /\ Head(line[src][d]).k # "end"
      BY <1>3, <2>1, TakeSteady DEF Readable
    <3> QED BY <1>3, <3>1 DEF DataIn, Data
  <2>3. Fades(n, line[src]) /\ Bytes(line[src][d]) = Bytes(n[d]) + 1
    BY <1>3, <2>1, <2>2, TakeBytes
  <2>4. n \in Connection /\ Bytes(n[Opp(d)]) <= Bytes(line[src][Opp(d)])
    BY <2>3, Ways DEF Fades
  <2>5. Bytes(n[d]) \in Nat
    BY <2>4, QueueBytes
  <2>6. PICK i \in Int, k \in Int : i = -1 /\ k = 1
    OBVIOUS
  <2>7. Bytes(n[d]) <= Bytes(line[src][d]) + i
    BY <2>3, <2>5, <2>6
  <2>8. Held(copier'[g].at) = Held(copier[g].at) + k
    <3>1. copier'[g].at = "write"
      BY <1>3, <2>1
    <3> QED BY <2>1, <2>6, <3>1 DEF Held
  <2>9. i + k = 0
    BY <2>6
  <2>10. \A h \in Goroutines : h # g => copier'[h] = copier[h]
    BY <1>3, <2>1
  <2> HIDE DEF n, src
  <2> QED BY <1>1, <1>3, <2>1, <2>4, <2>7, <2>8, <2>9, <2>10, InTransit
<1>6. CASE CopyWrite(s, d)
  <2>1. PICK n \in Put(line[dst], d, copier[g].m) : line' = [line EXCEPT ![dst] = n]
    BY <1>6 DEF CopyWrite
  <2>2. copier' = [copier EXCEPT ![g] = Reading] /\ copier[g].at = "write" /\ copier[g].m \in Message
    BY <1>3, <1>6 DEF CopyWrite
  <2>3. copier[g].m.k = "byte"
    BY <1>3, <2>2 DEF Order, Tidiness
  <2>4. /\ n \in Connection /\ Bytes(n[Opp(d)]) <= Bytes(line[dst][Opp(d)])
        /\ Bytes(n[d]) <= Bytes(line[dst][d]) + 1
    BY <1>3, <2>2, <2>3, PutBytes
  <2>5. PICK i \in Int, k \in Int : i = 1 /\ k = -1
    OBVIOUS
  <2>6. Bytes(n[d]) <= Bytes(line[dst][d]) + i
    BY <2>4, <2>5
  <2>7. Held(copier'[g].at) = Held(copier[g].at) + k
    <3>1. copier'[g].at = "read"
      BY <1>3, <2>2 DEF Reading
    <3> QED BY <2>2, <2>5, <3>1 DEF Held
  <2>8. i + k = 0
    BY <2>5
  <2>9. \A h \in Goroutines : h # g => copier'[h] = copier[h]
    BY <1>3, <2>2
  <2> HIDE DEF dst
  <2> QED BY <1>1, <1>3, <2>1, <2>4, <2>6, <2>7, <2>8, <2>9, InTransit
<1>7. CASE CopyEnd(s, d, armed[s] # "none")
  <2>1. PICK n \in Put(line[dst], d, Msg("end")) : line' = [line EXCEPT ![dst] = n]
    BY <1>7 DEF CopyEnd, PassEnd
  <2>2. Fades(n, line[dst])
    BY <1>3, MessageTypes, PutBytes
  <2>3. \A h \in Goroutines : copier'[h].at = "write" => copier[h].at = "write"
    BY <1>3, <1>7 DEF CopyEnd, PassEnd
  <2>4. \A j \in Lines : Fades(line'[j], line[j])
    BY <1>3, <2>1, <2>2, OneFades
  <2> QED BY <1>1, <2>3, <2>4, Fading DEF Accounts
<1> QED BY <1>1, <1>5, <1>6, <1>7 DEF Copy

\* Where an application writes or reads a byte.
LEMMA UsingAccounts ==
  ASSUME IInv, IInv', Order, Accounts, NEW d \in Dirs, Using(d) \/ AppLeaves(d)
  PROVE  Accounts'
<1> DEFINE l == AppLine(d)
           o == Opp(d)
<1>1. (AppSteps(d) \/ AppGone(d)) /\ copier' = copier
  BY DEF Using, AppLeaves, AppSteps, AppWrite, AppShut, AppRead, AppClose, AppGone
<1>2. /\ l \in Lines /\ line[l] \in Connection /\ o \in Dirs /\ Dirs = {d, o} /\ o # d
      /\ Opp(d) = o /\ Opp(o) = d
      /\ line \in [Lines -> Connection] /\ app \in [Dirs -> Application] /\ app[d].at # "absent"
      /\ line' \in [Lines -> Connection]
  <2>1. app[d].at # "absent"
    BY <1>1 DEF AppSteps, AppWrite, AppShut, AppRead, AppClose, AppGone
  <2>2. line' \in [Lines -> Connection]
    BY DEF IInv, TypeOK, Connection
  <2> QED BY <2>1, <2>2, Ways, AccountTypes
<1>3. \A e \in Dirs : /\ InLines(line', e) \in Nat /\ InHands(copier', e) \in Nat
                      /\ InLines(line, e) \in Nat /\ InHands(copier, e) \in Nat
                      /\ app[e].sent \in Nat /\ app[e].got \in Nat
                      /\ InLines(line, e) + InHands(copier, e) + app[Opp(e)].got <= app[e].sent
  BY <1>2, LineBytes, HandsNat, AccountTypes DEF Accounts
<1>4. ASSUME NEW a, app' = [app EXCEPT ![d] = a], a.at # "absent" PROVE app'["bwd"].at = "absent" => app'["bwd"] = NewApp("absent")
  <2>1. \A e \in Dirs : app'[e] = IF e = d THEN a ELSE app[e]
    BY <1>2, <1>4
  <2> QED BY <1>2, <1>4, <2>1 DEF Accounts, Dirs
<1>5. CASE AppWrite(d)
  <2> DEFINE a == [app[d] EXCEPT !.sent = @ + 1]
  <2>1. PICK n \in Put(line[l], d, Msg("byte")) : line' = [line EXCEPT ![l] = n]
    BY <1>5 DEF AppWrite, AppPuts
  <2>2. app' = [app EXCEPT ![d] = a] /\ app[d].at = "open"
    BY <1>5 DEF AppWrite
  <2>3. a.sent = app[d].sent + 1 /\ a.at = "open" /\ a.got = app[d].got
    BY <1>2, <2>2 DEF Application
  <2> HIDE DEF a
  <2>4. app'[d] = a /\ app'[o] = app[o]
    BY <1>2, <2>2
  <2>5. /\ n \in Connection /\ Bytes(n[o]) <= Bytes(line[l][o]) /\ Bytes(n[d]) <= Bytes(line[l][d]) + 1
    BY <1>2, MessageTypes, PutBytes
  <2>6. Bytes(n[o]) <= Bytes(line[l][o]) + 0
    BY <1>2, <2>5, QueueBytes
  <2> HIDE DEF l, o
  <2>7. InLines(line', d) <= InLines(line, d) + 1 /\ InLines(line', o) <= InLines(line, o) + 0
    <3>1. PICK i \in Int, k \in Int : i = 1 /\ k = 0
      OBVIOUS
    <3>2. Bytes(n[d]) <= Bytes(line[l][d]) + i /\ Bytes(n[o]) <= Bytes(line[l][o]) + k
      BY <2>5, <2>6, <3>1
    <3>3. InLines(line', d) <= InLines(line, d) + i
      BY <1>2, <2>1, <2>5, <3>2, OneLine
    <3>4. InLines(line', o) <= InLines(line, o) + k
      BY <1>2, <2>1, <2>5, <3>2, OneLine
    <3> QED BY <3>1, <3>3, <3>4
  <2>8. InLines(line', d) + InHands(copier', d) + app'[Opp(d)].got <= app'[d].sent
    BY <1>1, <1>2, <1>3, <2>3, <2>4, <2>7
  <2>9. InLines(line', o) + InHands(copier', o) + app'[Opp(o)].got <= app'[o].sent
    BY <1>1, <1>2, <1>3, <2>3, <2>4, <2>7
  <2>10. \A e \in Dirs : InLines(line', e) + InHands(copier', e) + app'[Opp(e)].got <= app'[e].sent
    BY <1>2, <2>8, <2>9
  <2> QED BY <1>4, <2>2, <2>3, <2>10 DEF Accounts
<1>6. CASE AppRead(d) /\ line' # line
  <2> DEFINE a == [app[d] EXCEPT !.got = @ + 1]
             n == Take(line[l], o)
  <2>1. /\ Readable(line[l], o) /\ line' = [line EXCEPT ![l] = n]
        /\ app' = [app EXCEPT ![d].got = @ + 1]
    BY <1>6 DEF AppRead
  <2>2. app' = [app EXCEPT ![d] = a]
    BY <1>2, <2>1
  <2>3. a.sent = app[d].sent /\ a.at = app[d].at /\ a.got = app[d].got + 1
    BY <1>2 DEF Application
  <2> HIDE DEF a
  <2>4. app'[d] = a /\ app'[o] = app[o]
    BY <1>2, <2>2
  <2>5. Head(line[l][o]).k = "byte"
    <3>1. Head(line[l][o]) \in Content(line[l][o]) /\ Head(line[l][o]).k # "end"
      BY <1>2, <2>1, TakeSteady DEF Readable
    <3>2. DataIn(line[l][o])
      BY <1>2 DEF Order, Tidiness, AppLine
    <3> QED BY <3>1, <3>2 DEF DataIn, Data
  <2>6. Fades(n, line[l]) /\ Bytes(line[l][o]) = Bytes(n[o]) + 1
    BY <1>2, <2>1, <2>5, TakeBytes
  <2> HIDE DEF n, l, o
  <2>7. n \in Connection /\ Bytes(n[o]) <= Bytes(line[l][o]) + (-1) /\ Bytes(n[d]) <= Bytes(line[l][d]) + 0
    BY <1>2, <2>6, QueueBytes DEF Fades
  <2>8. InLines(line', o) <= InLines(line, o) + (-1) /\ InLines(line', d) <= InLines(line, d) + 0
    <3>1. PICK i \in Int, k \in Int : i = -1 /\ k = 0
      OBVIOUS
    <3>2. Bytes(n[o]) <= Bytes(line[l][o]) + i /\ Bytes(n[d]) <= Bytes(line[l][d]) + k
      BY <2>7, <3>1
    <3>3. InLines(line', o) <= InLines(line, o) + i
      BY <1>2, <2>1, <2>7, <3>2, OneLine
    <3>4. InLines(line', d) <= InLines(line, d) + k
      BY <1>2, <2>1, <2>7, <3>2, OneLine
    <3> QED BY <3>1, <3>3, <3>4
  <2>9. InLines(line', d) + InHands(copier', d) + app'[Opp(d)].got <= app'[d].sent
    BY <1>1, <1>2, <1>3, <2>3, <2>4, <2>8
  <2>10. InLines(line', o) + InHands(copier', o) + app'[Opp(o)].got <= app'[o].sent
    BY <1>1, <1>2, <1>3, <2>3, <2>4, <2>8
  <2>11. \A e \in Dirs : InLines(line', e) + InHands(copier', e) + app'[Opp(e)].got <= app'[e].sent
    BY <1>2, <2>9, <2>10
  <2> QED BY <1>2, <1>4, <2>2, <2>3, <2>11 DEF Accounts
<1>7. CASE \/ AppShut(d) \/ AppClose(d) \/ AppGone(d)
           \/ AppRead(d) /\ line' = line
  <2>1. \A j \in Lines : Fades(line'[j], line[j])
    <3>1. CASE AppShut(d)
      <4>1. PICK n \in Put(line[l], d, Msg("end")) : line' = [line EXCEPT ![l] = n]
        BY <3>1 DEF AppShut, AppPuts
      <4>2. Fades(n, line[l])
        BY <1>2, MessageTypes, PutBytes
      <4> QED BY <1>2, <4>1, <4>2, OneFades
    <3>2. CASE AppClose(d) \/ AppGone(d)
      <4>1. PICK n \in CloseEnd(line[l], d) : line' = [line EXCEPT ![l] = n]
        BY <3>2 DEF AppClose, AppGone
      <4> QED BY <1>2, <4>1, CloseFades, OneFades
    <3>3. CASE line' = line
      BY <1>2, <3>3, FadesSame
    <3> QED BY <1>7, <3>1, <3>2, <3>3
  <2>2. PICK a : /\ app' = [app EXCEPT ![d] = a]
                 /\ a.sent = app[d].sent /\ a.got = app[d].got /\ a.at # "absent"
    <3>1. CASE AppShut(d)
      <4> DEFINE a == [app[d] EXCEPT !.at = "shut"]
      <4>1. app' = [app EXCEPT ![d] = a]
        BY <1>2, <3>1 DEF AppShut
      <4>2. a.sent = app[d].sent /\ a.got = app[d].got /\ a.at # "absent"
        BY <1>2 DEF Application
      <4> QED BY <4>1, <4>2
    <3>2. CASE AppClose(d) \/ AppGone(d)
      <4> DEFINE a == [app[d] EXCEPT !.at = "closed"]
      <4>1. app' = [app EXCEPT ![d] = a]
        BY <1>2, <3>2 DEF AppClose, AppGone
      <4>2. a.sent = app[d].sent /\ a.got = app[d].got /\ a.at # "absent"
        BY <1>2 DEF Application
      <4> QED BY <4>1, <4>2
    <3>3. CASE AppRead(d) /\ line' = line
      <4>1. PICK saw \in {"end", "error"} : app' = [app EXCEPT ![d].saw = saw]
        <5>1. ~(Readable(line[l], o) /\ line' = [line EXCEPT ![l] = Take(line[l], o)])
          <6> SUFFICES ASSUME Readable(line[l], o), line' = [line EXCEPT ![l] = Take(line[l], o)] PROVE FALSE
            OBVIOUS
          <6> DEFINE q == line[l][o]
          <6>1. q # <<>> /\ Take(line[l], o)[o] = Tail(q) /\ q \in Seq(Message)
            BY <1>2, TakeSteady, Queues
          <6>2. line'[l] = Take(line[l], o)
            BY <1>2
          <6>3. Tail(q) = q
            BY <3>3, <6>1, <6>2
          <6>4. q \in Seq(Message) /\ q # <<>>
            BY <6>1
          <6> HIDE DEF q
          <6>5. Len(Tail(q)) = Len(q) - 1 /\ Len(q) \in Nat
            BY <6>4, HeadTailProperties, LenProperties
          <6>6. Len(q) = Len(q) - 1
            BY <6>3, <6>5
          <6> QED BY <6>5, <6>6
        <5> QED BY <3>3, <5>1 DEF AppRead
      <4> DEFINE a == [app[d] EXCEPT !.saw = saw]
      <4>2. app' = [app EXCEPT ![d] = a]
        BY <1>2, <4>1
      <4>3. a.sent = app[d].sent /\ a.got = app[d].got /\ a.at = app[d].at
        BY <1>2 DEF Application
      <4> QED BY <1>2, <4>2, <4>3
    <3> QED BY <1>7, <3>1, <3>2, <3>3
  <2>3. \A e \in Dirs : app'[e] = IF e = d THEN a ELSE app[e]
    BY <1>2, <2>2
  <2>4. \A e \in Dirs : app'[e].sent = app[e].sent /\ app'[e].got = app[e].got
    BY <2>2, <2>3
  <2>5. app'["bwd"].at = "absent" => app'["bwd"] = NewApp("absent")
    BY <1>4, <2>2
  <2> QED BY <1>1, <2>1, <2>4, <2>5, Fading
<1> QED BY <1>1, <1>5, <1>6, <1>7 DEF AppSteps

LEMMA AccountsStep == IInv /\ IInv' /\ Order /\ Accounts /\ [Next]_vars => Accounts'
<1> SUFFICES ASSUME IInv, IInv', Order, Accounts, [Next]_vars PROVE Accounts'
  OBVIOUS
<1>1. CASE Forward \/ EgressExpires
  <2>1. \A g \in Goroutines : copier'[g].at = "write" => copier[g].at = "write"
    BY <1>1 DEF Forward, BuildAuthFrame, Dial, ClientHello, SendAuthFrame, ReadAck, EgressRefused,
         EgressCut, EgressExpires, EgressReturns, EgressGivesUp, StartRelay, Reading, relayVars
  <2> QED BY <1>1, <2>1, ForwardFades, Fading DEF Accounts
<1>2. CASE AcceptSteps \/ IngressExpires
  <2>1. \A g \in Goroutines : copier'[g].at = "write" => copier[g].at = "write"
    BY <1>2 DEF AcceptSteps, ServerHello, HelloRefused, ReadAuthFrame, RefuseFrame, Accept, Reject,
         RejectOther, DialApp, AppUnreachable, IngressCut, IngressReturns, IngressExpires, IngressGivesUp,
         Refuse, StartRelay, Reading
  <2>2. \A j \in Lines : Fades(line'[j], line[j])
    BY <1>2, AcceptingFades
  <2>3. CASE app' = app
    BY <2>1, <2>2, <2>3, Fading DEF Accounts
  <2>4. CASE DialApp /\ app' = [app EXCEPT !["bwd"] = NewApp("open")]
    <3>1. app["bwd"].at = "absent" /\ app["bwd"] \in Application
      <4>1. ingress = "dial"
        BY <2>4 DEF DialApp
      <4> QED BY <4>1, AccountTypes DEF IInv, IngressKnows, Dirs
    <3>2. app["bwd"].sent = 0 /\ app["bwd"].got = 0
      BY <3>1 DEF Accounts, NewApp
    <3>3. app'["bwd"] = NewApp("open") /\ app'["fwd"] = app["fwd"]
      BY <2>4, AccountTypes DEF Dirs
    <3>4. \A d \in Dirs : app'[d].sent = app[d].sent /\ app'[d].got = app[d].got
      BY <3>2, <3>3 DEF NewApp, Dirs
    <3>5. app'["bwd"].at # "absent"
      BY <3>3 DEF NewApp
    <3> QED BY <2>1, <2>2, <3>4, <3>5, Fading
  <2> QED BY <1>2, <2>3, <2>4, AcceptingFades
<1>3. CASE Renew \/ NetworkLost \/ TunnelBreaks \/ UNCHANGED vars
  BY <1>3, AroundFades, Fading DEF Accounts
<1>4. CASE \E s \in Sidecars, d \in Dirs : Copying(s, d)
  BY <1>4, CopyAccounts
<1>5. CASE \E d \in Dirs : Using(d) \/ AppLeaves(d)
  BY <1>5, UsingAccounts
<1> QED BY <1>1, <1>2, <1>3, <1>4, <1>5 DEF Next

LEMMA AccountsAtFirst == Init => Accounts
<1> SUFFICES ASSUME Init PROVE Accounts
  OBVIOUS
<1>1. \A d \in Dirs : /\ InLines(line, d) = 0 /\ InHands(copier, d) = 0
                      /\ app[d].sent = 0 /\ app[Opp(d)].got = 0
  <2>1. \A l \in Lines, d \in Dirs : line[l][d] = <<>>
    BY DEF Init, Fresh, Dirs
  <2>2. \A d \in Dirs : InLines(line, d) = 0
    BY <2>1, BytesEmpty DEF InLines, Lines
  <2>3. \A d \in Dirs : InHands(copier, d) = 0
    BY DEF Init, InHands, Held, Off, Goroutines, Sidecars
  <2> QED BY <2>2, <2>3, Ways DEF Init, NewApp
<1>2. app["bwd"] = NewApp("absent")
  BY DEF Init, Dirs
<1> QED BY <1>1, <1>2 DEF Accounts

\* Whatever is lost, reset, cut off or closed, whenever: no byte reaches an application
\* that was not written, and none reaches it twice, so what it reads never exceeds what
\* the other one wrote (and the bound the model sets on reading is never what stops it).
THEOREM NothingTwice == Spec => []ReadsOnlyWritten
<1>1. IInv /\ Order /\ Accounts => ReadsOnlyWritten
  <2> SUFFICES ASSUME IInv, Order, Accounts PROVE ReadsOnlyWritten
    OBVIOUS
  <2>1. ASSUME NEW d \in Dirs
        PROVE  /\ InLines(line, d) + InHands(copier, d) + app[Opp(d)].got <= app[d].sent
               /\ InLines(line, d) \in Nat /\ InHands(copier, d) \in Nat
               /\ app[Opp(d)].got \in Nat /\ app[d].sent \in 0..MaxData
    BY AccountTypes DEF Accounts, Application
  <2>2. ASSUME NEW d \in Dirs, Readable(line[AppLine(Opp(d))], d)
        PROVE  app[Opp(d)].got < MaxData
    <3> DEFINE l == AppLine(Opp(d))
    <3>1. l \in {"a", "b"} /\ line[l] \in Connection /\ DataIn(line[l][d])
      BY OrderTypes DEF AppLine, Order, Tidiness
    <3>2. line[l][d] # <<>> /\ Head(line[l][d]).k = "byte"
      <4>1. Head(line[l][d]) \in Content(line[l][d]) /\ Head(line[l][d]).k # "end" /\ line[l][d] # <<>>
        BY <2>2, <3>1, TakeSteady DEF Readable
      <4> QED BY <3>1, <4>1 DEF DataIn, Data
    <3>3. Bytes(line[l][d]) = Bytes(Take(line[l], d)[d]) + 1 /\ Fades(Take(line[l], d), line[l])
      BY <2>2, <3>1, <3>2, TakeBytes
    <3>4. Bytes(Take(line[l], d)[d]) \in Nat
      BY <3>3, QueueBytes DEF Fades
    <3>5. 1 <= Bytes(line[l][d])
      BY <3>3, <3>4
    <3> HIDE DEF l
    <3>6. /\ Bytes(line["a"][d]) \in Nat /\ Bytes(line["t"][d]) \in Nat /\ Bytes(line["b"][d]) \in Nat
      BY LineBytes, AccountTypes
    <3>7. 1 <= InLines(line, d)
      BY <3>1, <3>5, <3>6 DEF InLines
    <3> QED BY <2>1, <3>7, RelayAssumption
  <2>3. \A d \in Dirs : app[Opp(d)].got <= app[d].sent
    BY <2>1
  <2> QED BY <2>2, <2>3 DEF ReadsOnlyWritten
<1>2. IInv /\ IInv' /\ Order /\ Accounts /\ [Next]_vars => Accounts'
  BY AccountsStep
<1> QED BY <1>1, <1>2, AccountsAtFirst, OrderInvariance, PTL DEF Spec
=============================================================================
