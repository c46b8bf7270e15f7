------------------------------- MODULE Relay -------------------------------
(***************************************************************************)
(* An application connection carried by two sidecars:                      *)
(*                                                                         *)
(*      A ----a---- egress ----t---- ingress ----b---- B                   *)
(*                                                                         *)
(* a and b are loopback TCP connections, t is the tunnel.  Each sidecar    *)
(* runs relay: one goroutine per direction copies (io.Copy), passes the    *)
(* end of the stream on (CloseWrite) and reports to done; relay returns    *)
(* after two reports, and its caller closes both connections.              *)
(*                                                                         *)
(* "fwd" is the direction from A to B.  An end of a line is named by the   *)
(* direction it writes: A is the fwd end of a, the egress its bwd end.     *)
(* The tunnel is a stream with a half-close, which TunnelStream implements *)
(* (HalfCloseStream): a byte stands for a record here, its end of stream   *)
(* for that of TCP.  SidecarChannel adds how the two relays come to start. *)
(***************************************************************************)
EXTENDS Naturals, Sequences, SequencesExt

CONSTANT MaxData   \* bound on what each application writes

ASSUME RelayAssumption == MaxData \in Nat

VARIABLES
  line,      \* the three connections
  copier,    \* the four goroutines of the two relays
  app        \* the applications, by the direction they write

relayVars == <<line, copier, app>>

Lines == {"a", "t", "b"}
Dirs == {"fwd", "bwd"}
Sidecars == {"egress", "ingress"}
Opp(d) == IF d = "fwd" THEN "bwd" ELSE "fwd"

\* What is on a line: application bytes, the end of a direction, and on the tunnel
\* the messages of the set-up with the certificate or binding they carry.
Message == [k : {"byte", "end", "hello", "auth", "ok", "no"}, v : Nat]
Msg(k) == [k |-> k, v |-> 0]

\* A connection nobody has closed, with nothing under way.
Fresh == [fwd |-> <<>>, bwd |-> <<>>, up |-> TRUE, cut |-> FALSE, closed |-> {}]

\* cp(dst, src) of one direction: where it reads and where it writes.
Src(s, d) == IF s = "egress" THEN (IF d = "fwd" THEN "a" ELSE "t")
                             ELSE (IF d = "fwd" THEN "t" ELSE "b")
Dst(s, d) == Src(s, Opp(d))
AppLine(d) == IF d = "fwd" THEN "a" ELSE "b"

-----------------------------------------------------------------------------
(* TCP *)

Ended(q) == q # <<>> /\ Last(q).k = "end"

\* The connection is reset: what was not delivered yet may be lost, and after the
\* rest both ends get an error.  A closed end takes nothing more.
Kept(q, gone) == IF gone THEN {<<>>} ELSE Prefixes(q)
Broken(n, f, b) == [n EXCEPT !.up = FALSE, !.cut = FALSE, !.fwd = f, !.bwd = b]
Resets(n) ==
  {Broken(n, f, b) : f \in Kept(n.fwd, "bwd" \in n.closed), b \in Kept(n.bwd, "fwd" \in n.closed)}

\* What a Write of the d end may lead to.  A peer that is gone answers with a reset,
\* unless the network is cut, where nothing arrives.
Put(n, d, m) ==
  IF ~n.up \/ Ended(n[d]) THEN {n}
  ELSE IF Opp(d) \in n.closed /\ m.k # "end" /\ ~n.cut THEN Resets(n)
  ELSE {[n EXCEPT ![d] = Append(@, m)]}

\* Close of the d end: a FIN, or a reset when something was left unread.
CloseEnd(n, d) ==
  LET gone == [n EXCEPT !.closed = @ \cup {d}, ![Opp(d)] = <<>>]
  IN  IF n.up /\ ~n.cut /\ \E i \in 1..Len(n[Opp(d)]) : n[Opp(d)][i].k # "end"
      THEN Resets(gone)
      ELSE Put(gone, d, Msg("end"))

\* What a Read of direction d finds.  The end of a stream stays to be read again.
Readable(n, d) == ~n.cut /\ n[d] # <<>> /\ Head(n[d]).k # "end"
AtEnd(n, d) == ~n.cut /\ n[d] # <<>> /\ Head(n[d]).k = "end"
Failed(n, d) == ~n.up /\ n[d] = <<>>

Take(n, d) == [n EXCEPT ![d] = Tail(@)]

-----------------------------------------------------------------------------
(* relay *)

Goroutines == Sidecars \X Dirs
Off == [at |-> "off", m |-> Msg("end")]
Reading == [at |-> "read", m |-> Msg("end")]

StartRelay(s) == copier' = [g \in Goroutines |-> IF g[1] = s THEN Reading ELSE copier[g]]

\* Mutant: relay returns after the first report.
RelayDoneOnce(s) == \E d \in Dirs : copier[<<s, d>>].at = "done"

\* Both goroutines have reported.
RelayDone(s) == \A d \in Dirs : copier[<<s, d>>].at = "done"

\* io.Copy: a read.
CopyRead(s, d) ==
  LET n == line[Src(s, d)]
  IN  /\ copier[<<s, d>>].at = "read" /\ Readable(n, d)
      /\ copier' = [copier EXCEPT ![<<s, d>>] = [at |-> "write", m |-> Head(n[d])]]
      /\ line' = [line EXCEPT ![Src(s, d)] = Take(n, d)]
      /\ UNCHANGED app

\* io.Copy: the write of what was read.
CopyWrite(s, d) ==
  /\ copier[<<s, d>>].at = "write" /\ line[Dst(s, d)].up
  /\ copier' = [copier EXCEPT ![<<s, d>>] = Reading]
  /\ \E n \in Put(line[Dst(s, d)], d, copier[<<s, d>>].m) :
       line' = [line EXCEPT ![Dst(s, d)] = n]
  /\ UNCHANGED app

\* io.Copy returns: the stream ended, an end of the copy has an error, or the
\* deadline of the tunnel has passed.
Returns(s, d, late) ==
  \/ copier[<<s, d>>].at = "read" /\ (late \/ AtEnd(line[Src(s, d)], d) \/ Failed(line[Src(s, d)], d))
  \/ copier[<<s, d>>].at = "write" /\ (late \/ ~line[Dst(s, d)].up)

\* Mutant: the end of the stream is not passed on.
PassNothing(s, d) ==
  /\ copier' = [copier EXCEPT ![<<s, d>>] = [at |-> "done", m |-> Msg("end")]]
  /\ UNCHANGED line

\* dst is half-closed, and done gets its report.
PassEnd(s, d) ==
  /\ copier' = [copier EXCEPT ![<<s, d>>] = [at |-> "done", m |-> Msg("end")]]
  /\ \E n \in Put(line[Dst(s, d)], d, Msg("end")) :
       line' = [line EXCEPT ![Dst(s, d)] = n]

CopyEnd(s, d, late) == Returns(s, d, late) /\ PassEnd(s, d) /\ UNCHANGED app

Copy(s, d, late) == CopyRead(s, d) \/ CopyWrite(s, d) \/ CopyEnd(s, d, late)

-----------------------------------------------------------------------------
(* The applications *)

Application == [at : {"absent", "open", "shut", "closed"}, sent : 0..MaxData, got : 0..MaxData,
                saw : {"nothing", "end", "error"}]
NewApp(at) == [at |-> at, sent |-> 0, got |-> 0, saw |-> "nothing"]

\* Application d puts m on its connection and changes as told.
AppPuts(d, m) ==
  \E n \in Put(line[AppLine(d)], d, m) : line' = [line EXCEPT ![AppLine(d)] = n]

AppWrite(d) ==
  /\ app[d].at = "open" /\ app[d].sent < MaxData
  /\ line[AppLine(d)].up
  /\ app' = [app EXCEPT ![d].sent = @ + 1]
  /\ AppPuts(d, Msg("byte"))
  /\ UNCHANGED copier

\* shutdown(SHUT_WR): it has written everything and goes on reading.
AppShut(d) ==
  /\ app[d].at = "open"
  /\ app' = [app EXCEPT ![d].at = "shut"]
  /\ AppPuts(d, Msg("end"))
  /\ UNCHANGED copier

AppRead(d) ==
  LET n == line[AppLine(d)]
  IN  /\ app[d].at \in {"open", "shut"} /\ app[d].saw = "nothing"
      /\ \/ /\ Readable(n, Opp(d)) /\ app[d].got < MaxData
            /\ line' = [line EXCEPT ![AppLine(d)] = Take(n, Opp(d))]
            /\ app' = [app EXCEPT ![d].got = @ + 1]
         \/ AtEnd(n, Opp(d)) /\ app' = [app EXCEPT ![d].saw = "end"] /\ UNCHANGED line
         \/ Failed(n, Opp(d)) /\ app' = [app EXCEPT ![d].saw = "error"] /\ UNCHANGED line
      /\ UNCHANGED copier

\* An application that has read to the end closes its connection.
AppClose(d) ==
  /\ app[d].at \in {"open", "shut"} /\ app[d].saw # "nothing"
  /\ app' = [app EXCEPT ![d].at = "closed"]
  /\ \E n \in CloseEnd(line[AppLine(d)], d) : line' = [line EXCEPT ![AppLine(d)] = n]
  /\ UNCHANGED copier

\* An application goes away without having read everything.
AppGone(d) ==
  /\ app[d].at \in {"open", "shut"} /\ app[d].saw = "nothing"
  /\ app' = [app EXCEPT ![d].at = "closed"]
  /\ \E n \in CloseEnd(line[AppLine(d)], d) : line' = [line EXCEPT ![AppLine(d)] = n]
  /\ UNCHANGED copier

AppSteps(d) == AppWrite(d) \/ AppShut(d) \/ AppRead(d) \/ AppClose(d)

=============================================================================
