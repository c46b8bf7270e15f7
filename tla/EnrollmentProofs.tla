-------------------------- MODULE EnrollmentProofs --------------------------
(***************************************************************************)
(* The safety of Enrollment for any number of keys, certificates and       *)
(* faults, with one or two planes.                                         *)
(*                                                                         *)
(* Calls says that at most one request on the wire is still waited for.    *)
(* OneKey is why an interrupted renewal cannot spoil the directory: when   *)
(* renewals keep their key, a plane ever has one key with a certificate.   *)
(***************************************************************************)
EXTENDS Enrollment, TLAPS

\* What one call at a time means for the wire and for op.
Calls ==
  /\ \A r, q \in wire : r.live /\ q.live => r = q
  /\ op.stage \in {"reply", "key", "crt"} => op.plane \in Planes
  /\ op.stage \in {"key", "crt"} => op.cert.key = op.key
  /\ op.cert # NoCert <=> op.cert.n # 0
  /\ op.cert # NoCert => op.cert.key # 0
  /\ op.stage \in {"idle", "call"} => op.cert = NoCert
  /\ op.stage \in {"key", "crt"} => op.cert # NoCert
  /\ op.stage = "idle" => op = Idle

\* Whoever has a certificate knows its key.
Keyed ==
  \A p \in Planes : /\ id[p].crt.n # 0 => id[p].crt.key # 0
                    /\ disk[p].crt.n # 0 => disk[p].crt.key # 0

Inv == TypeOK /\ Calls /\ Keyed

LEMMA Constants ==
  /\ RotateKeys \in BOOLEAN /\ Keys \subseteq Nat \ {0} /\ MaxFaults \in Nat
  /\ Planes \subseteq Nat \ {0} /\ 0 \notin Planes
BY EnrollmentAssumption DEF Planes

LEMMA Zero ==
  /\ NoCert \in Cert /\ NoCert.n = 0 /\ NoCert.key = 0
  /\ NoPair \in Pair /\ NoPair.crt = NoCert /\ NoPair.key = 0
  /\ Idle \in Op /\ Idle.stage = "idle" /\ Idle.plane = 0 /\ Idle.cert = NoCert /\ Idle.key = 0
BY DEF NoCert, Cert, NoPair, Pair, Idle, Op

LEMMA Types ==
  ASSUME TypeOK
  PROVE  /\ \A p \in Planes : /\ id[p] \in Pair /\ disk[p] \in Pair
                              /\ id[p].crt \in Cert /\ disk[p].crt \in Cert
                              /\ id[p].crt.n \in Nat /\ disk[p].crt.n \in Nat
                              /\ id[p].crt.key \in Keys \cup {0} /\ disk[p].crt.key \in Keys \cup {0}
                              /\ id[p].key \in Keys \cup {0} /\ disk[p].key \in Keys \cup {0}
                              /\ id[p].key = id[p].crt.key
                              /\ certs[p] \in Nat /\ expired[p] \in Nat
         /\ op \in Op /\ op.cert \in Cert /\ op.cert.n \in Nat /\ op.key \in Keys \cup {0}
         /\ op.cert.key \in Keys \cup {0} /\ op.plane \in Planes \cup {0}
         /\ \A r \in wire : r \in Request /\ r.plane \in Planes /\ r.key \in Keys /\ r.auth \in Nat
         /\ id \in [Planes -> Pair] /\ disk \in [Planes -> Pair]
<1>1. /\ \A p \in Planes : id[p] \in Pair /\ disk[p] \in Pair /\ certs[p] \in Nat
                           /\ expired[p] \in Nat /\ id[p].key = id[p].crt.key
      /\ op \in Op /\ \A r \in wire : r \in Request
      /\ id \in [Planes -> Pair] /\ disk \in [Planes -> Pair]
  BY DEF TypeOK
<1>2. \A c \in Cert : c.n \in Nat /\ c.key \in Keys \cup {0}
  BY DEF Cert
<1>3. \A x \in Pair : x.crt \in Cert /\ x.key \in Keys \cup {0}
  BY DEF Pair
<1>4. op.cert \in Cert /\ op.key \in Keys \cup {0} /\ op.plane \in Planes \cup {0}
  BY <1>1 DEF Op
<1>5. \A r \in wire : r.plane \in Planes /\ r.key \in Keys /\ r.auth \in Nat
  BY <1>1 DEF Request
<1> QED BY <1>1, <1>2, <1>3, <1>4, <1>5

\* Two certificates with the same number and key are the same.
LEMMA NoCertIs == \A c \in Cert : c.n = 0 /\ c.key = 0 => c = NoCert
BY DEF Cert, NoCert

LEMMA InitInv == Init => Inv
<1> SUFFICES ASSUME Init PROVE Inv
  OBVIOUS
<1> USE DEF Init
<1>1. id \in [Planes -> Pair] /\ disk \in [Planes -> Pair] /\ op \in Op
  BY Zero
<1>2. \A p \in Planes : id[p].key = id[p].crt.key
  BY Zero
<1>3. TypeOK
  BY <1>1, <1>2, Constants DEF TypeOK
<1>4. Calls
  BY Zero DEF Calls
<1>5. Keyed
  BY Zero DEF Keyed
<1> QED BY <1>3, <1>4, <1>5 DEF Inv

-----------------------------------------------------------------------------
(* The client's calls *)

\* enrollLocked takes up a call when none is under way.
LEMMA CallStep ==
  ASSUME Inv, op = Idle, NEW p \in Planes, NEW auth \in Nat, NEW key \in Keys,
         Call(p, auth, key), UNCHANGED <<boot, certs, expired, disk, faults>>,
         id' \in [Planes -> Pair], \A q \in Planes : id'[q].key = id'[q].crt.key,
         Keyed', phase' \in {"down", "starting", "ready"}
  PROVE  Inv'
<1> DEFINE r0 == [plane |-> p, auth |-> auth, key |-> key, live |-> TRUE]
<1>1. r0 \in Request /\ r0.live = TRUE /\ r0.plane = p
  BY DEF Request
<1>2. wire' = wire \cup {r0}
  BY DEF Call
<1> HIDE DEF r0
<1>3. \A r \in wire : ~r.live
  BY Zero DEF Inv, TypeOK
<1>4. /\ op'.stage = "call" /\ op'.plane = p /\ op'.cert = NoCert
      /\ op' \in Op
  BY Zero DEF Call, Op
<1>5. TypeOK'
  BY <1>1, <1>2, <1>3, <1>4 DEF Inv, TypeOK
<1>6. Calls'
  BY <1>1, <1>2, <1>3, <1>4, Zero DEF Calls
<1> QED BY <1>5, <1>6 DEF Inv

\* The call ends, answered or not, and whatever was lost or restarted with it.
LEMMA EndStep ==
  ASSUME Inv, op' = Idle, UNCHANGED <<boot, certs, expired>>,
         wire' \subseteq Request, \A r \in wire' : ~r.live,
         id' \in [Planes -> Pair], \A q \in Planes : id'[q].key = id'[q].crt.key,
         disk' \in [Planes -> Pair],
         Keyed', phase' \in {"down", "starting", "ready"}, faults' \in 0..MaxFaults
  PROVE  Inv'
<1>1. TypeOK'
  BY Zero DEF Inv, TypeOK
<1>2. Calls'
  BY Zero DEF Calls
<1> QED BY <1>1, <1>2 DEF Inv

LEMMA AbandonedDead ==
  ASSUME TypeOK, wire' \in Abandoned
  PROVE  wire' \subseteq Request /\ \A r \in wire' : ~r.live
<1>1. \A r \in wire : r \in Request
  BY DEF TypeOK
<1>2. \A r \in Request : [r EXCEPT !.live = FALSE] \in Request /\ [r EXCEPT !.live = FALSE].live = FALSE
  BY DEF Request
<1> QED BY <1>1, <1>2 DEF Abandoned

\* When no call waits for its answer, nothing on the wire does.
LEMMA NotWaiting ==
  ASSUME Inv, op.stage # "call"
  PROVE  wire \subseteq Request /\ \A r \in wire : ~r.live
BY DEF Inv, TypeOK

\* rotatePlaneLocked asks with a certificate that exists, for its key or a new one.
LEMMA CallRenewStep ==
  ASSUME Inv, NEW p \in Planes, NEW pair \in Pair, CallRenew(p, pair),
         pair.key = pair.crt.key, pair.crt.n # 0 => pair.crt.key # 0
  PROVE  \E key \in Keys : /\ Call(p, pair.crt.n, key) /\ pair.crt.n \in Nat \ {0}
                           /\ ~RotateKeys => key = pair.crt.key
<1>1. PICK key \in IF RotateKeys THEN FreshKeys ELSE {pair.key} : Call(p, pair.crt.n, key)
  BY DEF CallRenew
<1>2. pair.crt \in Cert /\ pair.crt.n \in Nat /\ pair.key \in Keys \cup {0}
  BY DEF Pair, Cert
<1>3. pair.crt.n # 0
  BY <1>2, Types DEF CallRenew, Usable, Inv
<1>4. key \in Keys
  BY <1>1, <1>2, <1>3 DEF FreshKeys
<1> QED BY <1>1, <1>2, <1>3, <1>4

\* The steps of Start and Maintain that take up a call, and the one that needs none.
LEMMA ClientCalls ==
  ASSUME Inv, NEW p \in Planes, LoadIdentity(p) \/ EnrollFirst(p) \/ Renew(p)
  PROVE  Inv'
<1>0. TypeOK /\ Keyed /\ op = Idle
  BY DEF Inv, LoadIdentity, EnrollFirst, Renew, StartReaches
<1>1. CASE LoadIdentity(p)
  <2>1. /\ id' = [id EXCEPT ![p] = disk[p]]
        /\ UNCHANGED <<boot, certs, expired, phase, disk, faults>>
        /\ disk[p].key = disk[p].crt.key
    BY <1>1 DEF LoadIdentity, Loadable
  <2>2. id' \in [Planes -> Pair] /\ \A q \in Planes : id'[q].key = id'[q].crt.key
    BY <1>0, <2>1, Types
  <2>3. Keyed'
    BY <1>0, <2>1, Types DEF Keyed
  <2>4. CASE UNCHANGED <<op, wire>>
    BY <1>0, <2>1, <2>2, <2>3, <2>4 DEF Inv, TypeOK, Calls
  <2>5. CASE CallRenew(p, disk[p])
    <3>1. disk[p] \in Pair /\ (disk[p].crt.n # 0 => disk[p].crt.key # 0)
      BY <1>0, Types DEF Keyed
    <3>2. PICK key \in Keys : Call(p, disk[p].crt.n, key) /\ disk[p].crt.n \in Nat
      BY <2>1, <2>5, <3>1, CallRenewStep
    <3>3. phase' \in {"down", "starting", "ready"}
      BY <1>0, <2>1 DEF TypeOK
    <3> QED BY <1>0, <2>1, <2>2, <2>3, <3>2, <3>3, CallStep
  <2> QED BY <1>1, <2>4, <2>5 DEF LoadIdentity
<1>2. ASSUME EnrollFirst(p) \/ Renew(p) PROVE Inv'
  <2>1. UNCHANGED <<boot, certs, expired, phase, id, disk, faults>>
    BY <1>2 DEF EnrollFirst, Renew
  <2>2. id' \in [Planes -> Pair] /\ (\A q \in Planes : id'[q].key = id'[q].crt.key) /\ Keyed'
        /\ phase' \in {"down", "starting", "ready"}
    BY <1>0, <2>1 DEF TypeOK, Keyed
  <2>3. \E auth \in Nat, key \in Keys : Call(p, auth, key)
    <3>1. CASE EnrollFirst(p)
      BY <3>1 DEF EnrollFirst, FreshKeys
    <3>2. CASE Renew(p)
      <4>1. id[p] \in Pair /\ id[p].key = id[p].crt.key /\ (id[p].crt.n # 0 => id[p].crt.key # 0)
        BY <1>0, Types DEF Keyed
      <4> QED BY <3>2, <4>1, CallRenewStep DEF Renew
    <3> QED BY <1>2, <3>1, <3>2
  <2> QED BY <1>0, <2>1, <2>2, <2>3, CallStep
<1> QED BY <1>1, <1>2

LEMMA ReceiveStep == Inv /\ ReceiveCert => Inv'
<1> SUFFICES ASSUME Inv, ReceiveCert PROVE Inv'
  OBVIOUS
<1> DEFINE pair == [crt |-> op.cert, key |-> op.key]
<1>1. op.stage = "reply" /\ op.cert # NoCert /\ op.cert.key = op.key /\ op.plane \in Planes
      /\ op.cert.key # 0
  BY DEF ReceiveCert, Inv, Calls
<1>2. pair \in Pair /\ pair.crt = op.cert /\ pair.key = op.key
  BY Types DEF Inv, Pair
<1>3. id' = [id EXCEPT ![op.plane] = pair]
  BY DEF ReceiveCert
<1> HIDE DEF pair
<1>4. id' \in [Planes -> Pair] /\ \A p \in Planes : id'[p] = IF p = op.plane THEN pair ELSE id[p]
  BY <1>1, <1>2, <1>3, Types DEF Inv
<1>5. op' \in Op /\ op'.stage = "key" /\ op'.cert = op.cert /\ op'.key = op.key /\ op'.plane = op.plane
  BY Types DEF ReceiveCert, Inv, Op
<1>6. UNCHANGED <<boot, certs, expired, phase, disk, wire, faults>>
  BY DEF ReceiveCert
<1>7. \A p \in Planes : id'[p].key = id'[p].crt.key
  BY <1>1, <1>2, <1>4, Types DEF Inv
<1>8. TypeOK'
  BY <1>1, <1>4, <1>5, <1>6, <1>7, NotWaiting DEF Inv, TypeOK
<1>9. Calls'
  BY <1>1, <1>5, <1>6, NotWaiting, Zero DEF Inv, Calls
<1>10. Keyed'
  BY <1>1, <1>2, <1>4, <1>6 DEF Inv, Keyed
<1> QED BY <1>8, <1>9, <1>10 DEF Inv

\* What a write leaves in the directory of the call's plane.
LEMMA Written ==
  ASSUME Inv, WriteFile
  PROVE  /\ op.plane \in Planes /\ disk' \in [Planes -> Pair]
         /\ op.cert.key = op.key /\ op.cert.n # 0 /\ op.cert.key # 0
         /\ \A p \in Planes \ {op.plane} : disk'[p] = disk[p]
         /\ op.stage = "key" => disk'[op.plane].key = op.key /\ disk'[op.plane].crt = disk[op.plane].crt
         /\ op.stage = "crt" => disk'[op.plane].key = disk[op.plane].key /\ disk'[op.plane].crt = op.cert
<1>1. op.plane \in Planes /\ op.cert.key = op.key /\ op.cert.n # 0 /\ op.cert.key # 0
      /\ op.stage \in {"key", "crt"}
  BY DEF WriteFile, Inv, Calls
<1>2. disk[op.plane] \in Pair /\ op.cert \in Cert /\ op.key \in Keys \cup {0}
  BY <1>1, Types DEF Inv
<1> DEFINE d == Files(disk[op.plane])
<1>3. /\ d \in Pair
      /\ op.stage = "key" => d.key = op.key /\ d.crt = disk[op.plane].crt
      /\ op.stage = "crt" => d.key = disk[op.plane].key /\ d.crt = op.cert
  BY <1>1, <1>2 DEF Files, Pair
<1>4. disk' = [disk EXCEPT ![op.plane] = d]
  BY DEF WriteFile
<1> HIDE DEF d
<1>5. disk' \in [Planes -> Pair] /\ disk'[op.plane] = d
      /\ \A p \in Planes \ {op.plane} : disk'[p] = disk[p]
  BY <1>1, <1>3, <1>4, Types DEF Inv
<1> QED BY <1>1, <1>3, <1>5

LEMMA WriteStep == Inv /\ WriteFile => Inv'
<1> SUFFICES ASSUME Inv, WriteFile PROVE Inv'
  OBVIOUS
<1>1. op.stage \in {"key", "crt"} /\ UNCHANGED <<boot, certs, expired, phase, id, wire, faults>>
  BY DEF WriteFile
<1>2. wire \subseteq Request /\ \A r \in wire : ~r.live
  BY <1>1, NotWaiting
<1>3. Keyed'
  BY <1>1, Written DEF Inv, Keyed
<1>4. CASE op.stage = "key"
  <2>1. op' \in Op /\ op'.stage = "crt" /\ op'.cert = op.cert /\ op'.key = op.key /\ op'.plane = op.plane
    BY <1>4, Types DEF WriteFile, Inv, Op
  <2>2. TypeOK'
    BY <1>1, <1>2, <2>1, Written DEF Inv, TypeOK
  <2>3. Calls'
    BY <1>2, <1>1, <1>4, <2>1 DEF Inv, Calls
  <2> QED BY <1>3, <2>2, <2>3 DEF Inv
<1>5. CASE op.stage = "crt"
  <2>1. op' = Idle
    BY <1>5 DEF WriteFile
  <2> QED BY <1>1, <1>2, <1>3, <2>1, Written, EndStep DEF Inv, TypeOK
<1> QED BY <1>1, <1>4, <1>5

-----------------------------------------------------------------------------
(* The service *)

\* What an answer leaves: r is off the wire, and op has it if it waits for it.
LEMMA AnswerStep ==
  ASSUME Inv, NEW r \in wire, NEW cert \in Cert, Answer(r, cert),
         cert # NoCert => cert.n # 0 /\ cert.key # 0, cert.n # 0 => cert # NoCert,
         boot' \in [Planes -> {"unused", "used"}], certs' \in [Planes -> Nat]
  PROVE  /\ Inv'
         /\ wire' = wire \ {r} /\ UNCHANGED <<expired, phase, id, disk, faults>>
         /\ ~r.live => op' = op
         /\ r.live => op.stage = "call" /\ op'.stage = "reply" /\ op'.cert = cert
                      /\ op'.plane = op.plane /\ op.plane = r.plane /\ op'.key = op.key
<1>1. wire' = wire \ {r} /\ UNCHANGED <<expired, phase, id, disk, faults>>
  BY DEF Answer
<1>2. CASE ~r.live
  <2>1. op' = op
    BY <1>2 DEF Answer
  <2> QED BY <1>1, <1>2, <2>1 DEF Inv, TypeOK, Calls, Keyed
<1>3. CASE r.live
  <2>1. op.stage = "call" /\ op.plane = r.plane /\ r.plane \in Planes
    BY <1>3, Types DEF Inv, TypeOK
  <2>2. op' \in Op /\ op'.stage = "reply" /\ op'.cert = cert /\ op'.plane = op.plane /\ op'.key = op.key
    BY <1>3, Types DEF Answer, Inv, Op
  <2>3. \A q \in wire' : ~q.live
    BY <1>1, <1>3 DEF Inv, Calls
  <2>4. TypeOK'
    BY <1>1, <2>2, <2>3 DEF Inv, TypeOK
  <2>5. Calls'
    BY <2>1, <2>2, <2>3, Zero DEF Calls
  <2>6. Keyed'
    BY <1>1 DEF Inv, Keyed
  <2> QED BY <1>1, <1>3, <2>1, <2>2, <2>4, <2>5, <2>6 DEF Inv
<1> QED BY <1>2, <1>3

\* A signed certificate is numbered past the last one and is for the request's key.
LEMMA SignStep ==
  ASSUME Inv, NEW r \in wire, Sign(r), boot' \in [Planes -> {"unused", "used"}]
  PROVE  \E cert \in Cert : /\ Answer(r, cert) /\ cert.n # 0 /\ cert # NoCert
                            /\ cert.key = r.key /\ cert.key # 0
                            /\ certs' \in [Planes -> Nat]
<1> DEFINE cert == [n |-> certs[r.plane] + 1, key |-> r.key]
<1>1. r.plane \in Planes /\ r.key \in Keys /\ r.key # 0 /\ certs[r.plane] \in Nat
  BY Types, Constants DEF Inv
<1>2. cert \in Cert /\ cert.n # 0 /\ cert.key = r.key
  BY <1>1 DEF Cert
<1>3. certs' \in [Planes -> Nat]
  BY <1>1 DEF Sign, Inv, TypeOK
<1> QED BY <1>1, <1>2, <1>3, Zero DEF Sign

LEMMA ServeStep ==
  ASSUME Inv, NEW r \in wire, Serve(r)
  PROVE  Inv'
<1>1. boot' \in [Planes -> {"unused", "used"}]
  BY DEF Serve, IssueFirst, IssueRenewal, Refuse, Inv, TypeOK
<1>2. CASE Sign(r)
  <2>1. PICK cert \in Cert : Answer(r, cert) /\ cert.n # 0 /\ cert # NoCert /\ cert.key # 0
                             /\ certs' \in [Planes -> Nat]
    BY <1>1, <1>2, SignStep
  <2> QED BY <1>1, <2>1, AnswerStep
<1>3. CASE Refuse(r)
  <2>1. Answer(r, NoCert) /\ certs' \in [Planes -> Nat]
    BY <1>3 DEF Refuse, Inv, TypeOK
  <2> QED BY <1>1, <2>1, Zero, AnswerStep
<1> QED BY <1>2, <1>3 DEF Serve, IssueFirst, IssueRenewal

LEMMA NextInv == Inv /\ [Next]_vars => Inv'
<1> SUFFICES ASSUME Inv, [Next]_vars PROVE Inv'
  OBVIOUS
<1>1. CASE Boot \/ StartReturns
  BY <1>1 DEF Boot, StartReturns, Inv, TypeOK, Calls, Keyed
<1>2. ASSUME NEW p \in Planes, LoadIdentity(p) \/ EnrollFirst(p) \/ Renew(p) PROVE Inv'
  BY <1>2, ClientCalls
<1>3. CASE ReceiveRefusal \/ WriteFails
  <2>1. /\ op.stage # "call" /\ op' = Idle
        /\ UNCHANGED <<boot, certs, expired, phase, id, disk, wire>>
        /\ faults' \in 0..MaxFaults
    BY <1>3, Constants DEF ReceiveRefusal, WriteFails, Fault, Inv, TypeOK
  <2>2. Keyed'
    BY <2>1 DEF Inv, Keyed
  <2> QED BY <2>1, <2>2, NotWaiting, EndStep DEF Inv, TypeOK
<1>4. CASE GiveUp
  <2>1. /\ op' = Idle /\ wire' \in Abandoned
        /\ UNCHANGED <<boot, certs, expired, phase, id, disk>>
        /\ faults' \in 0..MaxFaults
    BY <1>4, Constants DEF GiveUp, Fault, Inv, TypeOK
  <2>2. Keyed'
    BY <2>1 DEF Inv, Keyed
  <2> QED BY <2>1, <2>2, AbandonedDead, EndStep DEF Inv, TypeOK
<1>5. CASE Crash
  <2>1. /\ op' = Idle /\ wire' \in Abandoned /\ phase' = "down"
        /\ id' = [p \in Planes |-> NoPair]
        /\ UNCHANGED <<boot, certs, expired, disk>>
        /\ faults' \in 0..MaxFaults
    BY <1>5, Constants DEF Crash, Fault, Inv, TypeOK
  <2>2. id' \in [Planes -> Pair] /\ \A p \in Planes : id'[p] = NoPair
    BY <2>1, Zero
  <2>3. Keyed' /\ \A p \in Planes : id'[p].key = id'[p].crt.key
    BY <2>1, <2>2, Zero DEF Inv, Keyed
  <2> QED BY <2>1, <2>2, <2>3, AbandonedDead, EndStep DEF Inv, TypeOK
<1>6. CASE ReceiveCert \/ WriteFile
  BY <1>6, ReceiveStep, WriteStep
<1>7. CASE Service
  BY <1>7, ServeStep DEF Service
<1>8. ASSUME NEW p \in Planes, Expire(p) PROVE Inv'
  BY <1>8 DEF Expire, Inv, TypeOK, Calls, Keyed
<1>9. CASE UNCHANGED vars
  BY <1>9 DEF vars, Inv, TypeOK, Calls, Keyed
<1> QED BY <1>1, <1>2, <1>3, <1>4, <1>5, <1>6, <1>7, <1>8, <1>9 DEF Next, Client

\* The state stays well formed: in the process a key is only ever installed with its
\* certificate, and an answer reaches no other call than its own.
THEOREM TypeCorrect == Spec => []TypeOK
<1>1. Inv => TypeOK
  BY DEF Inv
<1> QED BY <1>1, InitInv, NextInv, PTL DEF Spec

-----------------------------------------------------------------------------
(* Spending the bootstrap credential *)

\* While nothing has failed, every request is waited for, and what a spent credential
\* was spent on is in the process or on its way to it.
Undisturbed ==
  faults = 0 =>
    /\ \A r \in wire : r.live
    /\ \A p \in Planes : boot[p] = "used" =>
         id[p].crt.n # 0 \/ (op.stage = "reply" /\ op.plane = p /\ op.cert.n # 0)

LEMMA NextUndisturbed == Inv /\ Undisturbed /\ [Next]_vars => Undisturbed'
<1> SUFFICES ASSUME Inv, Undisturbed, [Next]_vars, faults' = 0 PROVE Undisturbed'
  BY DEF Undisturbed
<1>f. ~Fault /\ (faults' = faults => faults = 0)
  BY DEF Fault, Inv, TypeOK
<1>0. TypeOK /\ Keyed /\ Calls
  BY DEF Inv
<1>1. CASE Boot \/ StartReturns \/ UNCHANGED vars
  BY <1>1, <1>f DEF Boot, StartReturns, vars, Undisturbed
<1>2. ASSUME NEW p \in Planes, LoadIdentity(p) \/ EnrollFirst(p) \/ Renew(p) PROVE Undisturbed'
  <2>1. faults = 0 /\ boot' = boot /\ op = Idle
    BY <1>2, <1>f DEF LoadIdentity, EnrollFirst, Renew, StartReaches
  <2>2. \A r \in wire' : r.live
    BY <1>2, <2>1 DEF LoadIdentity, EnrollFirst, Renew, CallRenew, Call, Undisturbed
  <2>3. \A q \in Planes : id[q].crt.n # 0 => id'[q].crt.n # 0
    <3>1. CASE LoadIdentity(p)
      <4>1. id' = [id EXCEPT ![p] = disk[p]] /\ disk[p].crt.n > expired[p]
        BY <3>1 DEF LoadIdentity, Loadable, Usable
      <4>2. disk[p].crt.n # 0
        BY <1>0, <4>1, Types
      <4> QED BY <1>0, <4>1, <4>2, Types
    <3>2. CASE EnrollFirst(p) \/ Renew(p)
      BY <3>2 DEF EnrollFirst, Renew
    <3> QED BY <1>2, <3>1, <3>2
  <2>4. \A q \in Planes : boot[q] = "used" => id[q].crt.n # 0
    BY <2>1, Zero DEF Undisturbed
  <2> QED BY <2>1, <2>2, <2>3, <2>4 DEF Undisturbed
<1>3. CASE ReceiveRefusal
  <2>1. op.cert.n = 0 /\ UNCHANGED <<boot, id, wire, faults>>
    BY <1>0, <1>3 DEF ReceiveRefusal, Calls
  <2> QED BY <1>f, <2>1 DEF Undisturbed
<1>4. CASE ReceiveCert
  <2>1. /\ op.plane \in Planes /\ op.cert.n # 0 /\ UNCHANGED <<boot, wire, faults>>
        /\ id' = [id EXCEPT ![op.plane] = [crt |-> op.cert, key |-> op.key]]
    BY <1>0, <1>4 DEF ReceiveCert, Calls
  <2>2. \A q \in Planes : id'[q].crt.n # 0 <=> (q = op.plane \/ id[q].crt.n # 0)
    BY <1>0, <2>1, Types
  <2> QED BY <1>f, <2>1, <2>2 DEF Undisturbed
<1>5. CASE WriteFile
  BY <1>f, <1>5 DEF WriteFile, Undisturbed
<1>6. CASE WriteFails \/ GiveUp \/ Crash
  BY <1>f, <1>6 DEF WriteFails, GiveUp, Crash
<1>7. ASSUME NEW r \in wire, Serve(r) PROVE Undisturbed'
  <2>1. faults = 0 /\ r.live /\ id' = id /\ wire' = wire \ {r}
    BY <1>7, <1>f DEF Serve, IssueFirst, IssueRenewal, Refuse, Sign, Answer, Undisturbed
  <2>2. op.stage = "call"
    BY <1>0, <2>1 DEF TypeOK
  <2>3. \A q \in Planes : boot[q] = "used" => id[q].crt.n # 0
    BY <2>1, <2>2 DEF Undisturbed
  <2>4. CASE IssueFirst(r)
    <3>1. boot' = [boot EXCEPT ![r.plane] = "used"] /\ Sign(r) /\ boot' \in [Planes -> {"unused", "used"}]
      BY <1>0, <2>4 DEF IssueFirst, TypeOK
    <3>2. PICK cert \in Cert : /\ Answer(r, cert) /\ cert.n # 0 /\ cert # NoCert /\ cert.key # 0
                               /\ certs' \in [Planes -> Nat]
      BY <3>1, SignStep
    <3>3. op'.stage = "reply" /\ op'.plane = r.plane /\ op'.cert = cert
      BY <2>1, <3>1, <3>2, AnswerStep
    <3>4. \A q \in Planes : boot'[q] = "used" => q = r.plane \/ boot[q] = "used"
      BY <1>0, <3>1 DEF TypeOK
    <3> QED BY <2>1, <2>3, <3>2, <3>3, <3>4 DEF Undisturbed
  <2>5. CASE ~IssueFirst(r)
    <3>1. boot' = boot
      BY <1>7, <2>5 DEF Serve, IssueRenewal, Refuse
    <3> QED BY <2>1, <2>3, <3>1 DEF Undisturbed
  <2> QED BY <2>4, <2>5
<1>8. ASSUME NEW p \in Planes, Expire(p) PROVE Undisturbed'
  BY <1>f, <1>8 DEF Expire, Undisturbed
<1> QED BY <1>1, <1>2, <1>3, <1>4, <1>5, <1>6, <1>7, <1>8 DEF Next, Client, Service

\* No path of issue or enrollLocked burns the bootstrap credential: spending it ends in
\* a usable identity as long as nothing fails and nothing expires.
THEOREM NotBurned == Spec => []NotBurnedUndisturbed
<1>1. Init => Undisturbed
  BY DEF Init, Undisturbed
<1>2. Inv /\ Undisturbed => NotBurnedUndisturbed
  <2> SUFFICES ASSUME Inv, Undisturbed, faults = 0, NEW p \in Planes, expired[p] = 0,
                      LockedOut(p)
               PROVE  FALSE
    BY DEF NotBurnedUndisturbed
  <2>1. id[p].crt.n # 0 \/ (op.stage = "reply" /\ op.plane = p /\ op.cert.n # 0)
    BY DEF Undisturbed, LockedOut
  <2>2. id[p].crt.n \in Nat /\ op.cert.n \in Nat
    BY Types DEF Inv
  <2> QED BY <2>1, <2>2 DEF LockedOut, Usable
<1> QED BY <1>1, <1>2, InitInv, NextInv, NextUndisturbed, PTL DEF Spec

-----------------------------------------------------------------------------
(* Interrupted renewals *)

\* Nothing of plane p has a certificate.
Virgin(p) ==
  /\ id[p].crt.n = 0 /\ disk[p].crt.n = 0 /\ disk[p].key = 0
  /\ op.plane = p => op.cert = NoCert
  /\ \A r \in wire : r.plane = p => r.auth = 0

\* k is the key of whatever has a certificate of plane p or asks for its renewal, and
\* a certificate on disk lies beside it.
HasKey(p, k) ==
  /\ id[p].crt.n # 0 => id[p].crt.key = k
  /\ disk[p].crt.n # 0 => disk[p].crt.key = k /\ disk[p].key = k
  /\ disk[p].key \in {0, k}
  /\ op.plane = p /\ op.cert # NoCert => op.cert.key = k
  /\ op.plane = p /\ op.stage = "crt" => disk[p].key = k
  /\ \A r \in wire : r.plane = p /\ r.auth # 0 => r.key = k

OneKeyOf(p) == IF boot[p] = "unused" THEN Virgin(p) ELSE \E k \in Keys : HasKey(p, k)

OneKey == \A p \in Planes : OneKeyOf(p)

LEMMA InitOneKey == Init => OneKey
BY Zero DEF Init, OneKey, OneKeyOf, Virgin

\* A call that is taken up asks, if it asks with a certificate, for that one's key.
LEMMA CallOneKey ==
  ASSUME Inv, OneKey, op = Idle, NEW p \in Planes, NEW auth \in Nat, NEW key \in Keys,
         Call(p, auth, key), UNCHANGED <<boot, disk>>, id' \in [Planes -> Pair],
         \A q \in Planes : id'[q] = id[q] \/ id'[q] = disk[q],
         auth # 0 => id'[p].crt.n # 0 /\ id'[p].crt.key = key
  PROVE  OneKey'
<1> SUFFICES ASSUME NEW q \in Planes PROVE OneKeyOf(q)'
  BY DEF OneKey
<1> DEFINE r0 == [plane |-> p, auth |-> auth, key |-> key, live |-> TRUE]
<1>1. wire' = wire \cup {r0} /\ r0.plane = p /\ r0.auth = auth /\ r0.key = key
      /\ op'.stage = "call" /\ op'.cert = NoCert
  BY DEF Call
<1> HIDE DEF r0
<1>2. CASE boot[q] = "unused"
  <2>1. Virgin(q)
    BY <1>2 DEF OneKey, OneKeyOf
  <2>2. id'[q].crt.n = 0
    BY <2>1 DEF Virgin
  <2>3. \A r \in wire' : r.plane = q => r.auth = 0
    BY <1>1, <2>1, <2>2 DEF Virgin
  <2> QED BY <1>1, <1>2, <2>1, <2>2, <2>3 DEF OneKeyOf, Virgin
<1>3. CASE boot[q] # "unused"
  <2>1. PICK k \in Keys : HasKey(q, k)
    BY <1>3 DEF OneKey, OneKeyOf
  <2>2. id'[q].crt.n # 0 => id'[q].crt.key = k
    BY <2>1 DEF HasKey
  <2>3. \A r \in wire' : r.plane = q /\ r.auth # 0 => r.key = k
    BY <1>1, <2>1, <2>2 DEF HasKey
  <2>4. HasKey(q, k)'
    BY <1>1, <2>1, <2>2, <2>3 DEF HasKey
  <2> QED BY <1>3, <2>4 DEF OneKeyOf
<1> QED BY <1>2, <1>3

\* Ending a call, losing the process or requests, takes nothing new into the plane.
LEMMA EndOneKey ==
  ASSUME OneKey, op' = Idle, UNCHANGED <<boot, disk>>,
         \A q \in Planes : id'[q] = id[q] \/ id'[q].crt.n = 0,
         \A r \in wire' : \E s \in wire : s.plane = r.plane /\ s.auth = r.auth /\ s.key = r.key
  PROVE  OneKey'
<1> SUFFICES ASSUME NEW q \in Planes PROVE OneKeyOf(q)'
  BY DEF OneKey
<1>1. CASE boot[q] = "unused"
  BY <1>1, Zero DEF OneKey, OneKeyOf, Virgin
<1>2. CASE boot[q] # "unused"
  <2>1. PICK k \in Keys : HasKey(q, k)
    BY <1>2 DEF OneKey, OneKeyOf
  <2>2. HasKey(q, k)'
    BY <2>1, Zero DEF HasKey
  <2> QED BY <1>2, <2>2 DEF OneKeyOf
<1> QED BY <1>1, <1>2

LEMMA AbandonedSame ==
  ASSUME TypeOK, wire' \in Abandoned
  PROVE  \A r \in wire' : \E s \in wire : s.plane = r.plane /\ s.auth = r.auth /\ s.key = r.key
<1>1. \A s \in wire : s \in Request
  BY DEF TypeOK
<1>2. \A s \in Request : /\ [s EXCEPT !.live = FALSE].plane = s.plane
                         /\ [s EXCEPT !.live = FALSE].auth = s.auth
                         /\ [s EXCEPT !.live = FALSE].key = s.key
  BY DEF Request
<1>3. CASE wire' \subseteq wire
  BY <1>3
<1>4. CASE wire' = {[s EXCEPT !.live = FALSE] : s \in wire}
  <2> SUFFICES ASSUME NEW r \in wire'
               PROVE  \E s \in wire : s.plane = r.plane /\ s.auth = r.auth /\ s.key = r.key
    OBVIOUS
  <2>1. PICK s \in wire : r = [s EXCEPT !.live = FALSE]
    BY <1>4
  <2> QED BY <1>1, <1>2, <2>1
<1> QED BY <1>3, <1>4 DEF Abandoned

\* The steps that take up a call, when renewals keep their key.
LEMMA ClientOneKey ==
  ASSUME ~RotateKeys, Inv, OneKey, NEW p \in Planes,
         LoadIdentity(p) \/ EnrollFirst(p) \/ Renew(p)
  PROVE  OneKey'
<1>0. TypeOK /\ Keyed /\ op = Idle
  BY DEF Inv, LoadIdentity, EnrollFirst, Renew, StartReaches
<1>1. CASE LoadIdentity(p)
  <2>1. /\ id' = [id EXCEPT ![p] = disk[p]] /\ UNCHANGED <<boot, disk>>
        /\ disk[p].key = disk[p].crt.key
    BY <1>1 DEF LoadIdentity, Loadable
  <2>2. /\ id' \in [Planes -> Pair] /\ id'[p] = disk[p]
        /\ \A q \in Planes : id'[q] = id[q] \/ id'[q] = disk[q]
    BY <1>0, <2>1, Types
  <2>3. CASE UNCHANGED <<op, wire>>
    <3> SUFFICES ASSUME NEW q \in Planes PROVE OneKeyOf(q)'
      BY DEF OneKey
    <3>1. CASE boot[q] = "unused"
      BY <2>1, <2>2, <2>3, <3>1 DEF OneKey, OneKeyOf, Virgin
    <3>2. CASE boot[q] # "unused"
      <4>1. PICK k \in Keys : HasKey(q, k)
        BY <3>2 DEF OneKey, OneKeyOf
      <4>2. HasKey(q, k)'
        BY <2>1, <2>2, <2>3, <4>1 DEF HasKey
      <4> QED BY <2>1, <3>2, <4>2 DEF OneKeyOf
    <3> QED BY <3>1, <3>2
  <2>4. CASE CallRenew(p, disk[p])
    <3>1. disk[p] \in Pair /\ (disk[p].crt.n # 0 => disk[p].crt.key # 0)
      BY <1>0, Types DEF Keyed
    <3>2. PICK key \in Keys : /\ Call(p, disk[p].crt.n, key) /\ disk[p].crt.n \in Nat \ {0}
                              /\ ~RotateKeys => key = disk[p].crt.key
      BY <2>1, <2>4, <3>1, CallRenewStep
    <3> QED BY <1>0, <2>1, <2>2, <3>2, CallOneKey
  <2> QED BY <1>1, <2>3, <2>4 DEF LoadIdentity
<1>2. CASE EnrollFirst(p)
  <2>1. /\ \E key \in Keys : Call(p, 0, key)
        /\ UNCHANGED <<boot, disk, id>>
    BY <1>2 DEF EnrollFirst, FreshKeys
  <2> QED BY <1>0, <2>1, Types, CallOneKey
<1>3. CASE Renew(p)
  <2>1. id[p] \in Pair /\ id[p].key = id[p].crt.key /\ (id[p].crt.n # 0 => id[p].crt.key # 0)
    BY <1>0, Types DEF Keyed
  <2>2. CallRenew(p, id[p]) /\ UNCHANGED <<boot, disk, id>>
    BY <1>3 DEF Renew
  <2>3. PICK key \in Keys : /\ Call(p, id[p].crt.n, key) /\ id[p].crt.n \in Nat \ {0}
                            /\ ~RotateKeys => key = id[p].crt.key
    BY <2>1, <2>2, CallRenewStep
  <2>4. id' \in [Planes -> Pair] /\ id'[p].crt.n # 0 /\ id'[p].crt.key = key
    BY <1>0, <2>2, <2>3, Types
  <2> QED BY <1>0, <2>2, <2>3, <2>4, CallOneKey
<1> QED BY <1>1, <1>2, <1>3

LEMMA ServeOneKey ==
  ASSUME Inv, OneKey, NEW r \in wire, Serve(r)
  PROVE  OneKey'
<1> SUFFICES ASSUME NEW q \in Planes PROVE OneKeyOf(q)'
  BY DEF OneKey
<1>0. r.plane \in Planes /\ r.key \in Keys /\ r.auth \in Nat /\ boot \in [Planes -> {"unused", "used"}]
  BY Types, Zero DEF Inv, TypeOK
<1>b. boot' \in [Planes -> {"unused", "used"}]
  BY DEF Serve, IssueFirst, IssueRenewal, Refuse, Inv, TypeOK
<1>1. /\ UNCHANGED <<id, disk>> /\ wire' = wire \ {r}
      /\ \/ op' = op
         \/ /\ op'.stage = "reply" /\ op'.plane = r.plane
            /\ op'.cert = NoCert \/ (Sign(r) /\ op'.cert.key = r.key)
  <2>1. CASE Sign(r)
    <3>1. PICK cert \in Cert : /\ Answer(r, cert) /\ cert.n # 0 /\ cert # NoCert
                               /\ cert.key = r.key /\ cert.key # 0
                               /\ certs' \in [Planes -> Nat]
      BY <1>b, <2>1, SignStep
    <3> QED BY <1>b, <2>1, <3>1, AnswerStep
  <2>2. CASE Refuse(r)
    <3>1. Answer(r, NoCert) /\ certs' \in [Planes -> Nat]
      BY <2>2 DEF Refuse, Inv, TypeOK
    <3> QED BY <1>b, <3>1, Zero, AnswerStep
  <2> QED BY <2>1, <2>2 DEF Serve, IssueFirst, IssueRenewal
<1>2. CASE q # r.plane
  <2>1. boot'[q] = boot[q]
    BY <1>0, <1>2 DEF Serve, IssueFirst, IssueRenewal, Refuse
  <2>2. op'.plane = q => op' = op
    BY <1>1, <1>2
  <2>3. CASE boot[q] = "unused"
    BY <1>1, <2>1, <2>2, <2>3 DEF OneKey, OneKeyOf, Virgin
  <2>4. CASE boot[q] # "unused"
    <3>1. PICK k \in Keys : HasKey(q, k)
      BY <2>4 DEF OneKey, OneKeyOf
    <3>2. HasKey(q, k)'
      BY <1>1, <2>2, <3>1 DEF HasKey
    <3> QED BY <2>1, <2>4, <3>2 DEF OneKeyOf
  <2> QED BY <2>3, <2>4
<1>3. CASE q = r.plane /\ IssueFirst(r)
  <2>1. boot[q] = "unused" /\ boot'[q] = "used"
    BY <1>0, <1>3 DEF IssueFirst
  <2>2. Virgin(q)
    BY <2>1 DEF OneKey, OneKeyOf
  <2>3. op'.plane = q => op'.cert = NoCert \/ op'.cert.key = r.key
    BY <1>1, <2>2 DEF Virgin
  <2>4. op'.plane = q => op'.stage # "crt"
    <3>1. op.plane = q => op.stage # "crt"
      BY <2>2 DEF Virgin, Inv, Calls
    <3> QED BY <1>1, <3>1
  <2>5. HasKey(q, r.key)'
    BY <1>1, <2>2, <2>3, <2>4 DEF Virgin, HasKey
  <2> QED BY <1>0, <2>1, <2>5 DEF OneKeyOf
<1>4. CASE q = r.plane /\ ~IssueFirst(r)
  <2>1. boot' = boot /\ (IssueRenewal(r) \/ Refuse(r))
    BY <1>4 DEF Serve, IssueRenewal, Refuse
  <2>2. CASE boot[q] = "unused"
    <3>1. Virgin(q)
      BY <2>2 DEF OneKey, OneKeyOf
    <3>2. r.auth = 0
      BY <1>4, <3>1 DEF Virgin
    <3>3. FALSE
      BY <1>0, <1>4, <2>1, <2>2, <3>2, Types DEF IssueRenewal, Refuse, Inv
    <3> QED BY <3>3
  <2>3. CASE boot[q] # "unused"
    <3>1. PICK k \in Keys : HasKey(q, k)
      BY <2>3 DEF OneKey, OneKeyOf
    <3>2. IssueRenewal(r) => r.key = k
      <4>1. IssueRenewal(r) => r.auth # 0
        BY <1>0, Types DEF IssueRenewal, Inv
      <4> QED BY <1>4, <3>1, <4>1 DEF HasKey
    <3>3. op' = op \/ (op'.stage = "reply" /\ (op'.cert = NoCert \/ op'.cert.key = k))
      <4>1. CASE IssueRenewal(r)
        BY <1>1, <3>2, <4>1
      <4>2. CASE Refuse(r)
        <5>1. Answer(r, NoCert) /\ certs' \in [Planes -> Nat]
          BY <4>2 DEF Refuse, Inv, TypeOK
        <5> QED BY <1>b, <5>1, Zero, AnswerStep
      <4> QED BY <2>1, <4>1, <4>2
    <3>4. HasKey(q, k)'
      BY <1>1, <3>1, <3>3 DEF HasKey
    <3> QED BY <2>1, <2>3, <3>4 DEF OneKeyOf
  <2> QED BY <2>2, <2>3
<1> QED BY <1>2, <1>3, <1>4

\* Installing and writing move the plane's key from the answer to the directory.
LEMMA InstallOneKey ==
  ASSUME Inv, OneKey, ReceiveCert \/ WriteFile
  PROVE  OneKey'
<1> SUFFICES ASSUME NEW q \in Planes PROVE OneKeyOf(q)'
  BY DEF OneKey
<1>0. op.plane \in Planes /\ op.cert # NoCert /\ op.cert.key = op.key /\ UNCHANGED <<boot, wire>>
  BY DEF ReceiveCert, WriteFile, Inv, Calls
<1>1. CASE boot[q] = "unused"
  <2>1. Virgin(q) /\ q # op.plane
    BY <1>0, <1>1 DEF OneKey, OneKeyOf, Virgin
  <2>2. id'[q] = id[q] /\ disk'[q] = disk[q]
    BY <2>1, <1>0, Written, Types DEF ReceiveCert, WriteFile, Inv
  <2>3. op'.plane # q
    BY <2>1, Types, Zero, Constants DEF ReceiveCert, WriteFile, Inv, Op
  <2> QED BY <1>0, <1>1, <2>1, <2>2, <2>3 DEF OneKeyOf, Virgin
<1>2. CASE boot[q] # "unused"
  <2>1. PICK k \in Keys : HasKey(q, k)
    BY <1>2 DEF OneKey, OneKeyOf
  <2>2. CASE ReceiveCert
    <3>1. /\ op'.plane = op.plane /\ op'.cert = op.cert /\ op'.stage = "key" /\ disk' = disk
          /\ id' = [id EXCEPT ![op.plane] = [crt |-> op.cert, key |-> op.key]]
      BY <2>2, Types DEF ReceiveCert, Inv, Op
    <3>2. id'[q].crt = IF q = op.plane THEN op.cert ELSE id[q].crt
      BY <1>0, <3>1, Types DEF Inv
    <3>3. HasKey(q, k)'
      BY <1>0, <2>1, <3>1, <3>2 DEF HasKey
    <3> QED BY <1>0, <1>2, <3>3 DEF OneKeyOf
  <2>3. CASE WriteFile /\ q # op.plane
    <3>1. id' = id /\ disk'[q] = disk[q]
      BY <1>0, <2>3, Written DEF WriteFile
    <3>2. op'.plane # q
      BY <2>3, Types, Zero, Constants DEF WriteFile, Inv, Op
    <3>3. HasKey(q, k)'
      BY <1>0, <2>1, <3>1, <3>2 DEF HasKey
    <3> QED BY <1>0, <1>2, <3>3 DEF OneKeyOf
  <2>4. CASE WriteFile /\ q = op.plane /\ op.stage = "key"
    <3>1. id' = id /\ disk'[q].key = op.key /\ disk'[q].crt = disk[q].crt
      BY <1>0, <2>4, Written DEF WriteFile
    <3>2. op'.plane = q /\ op'.cert = op.cert
      BY <2>4, Types DEF WriteFile, Inv, Op
    <3>3. HasKey(q, k)'
      BY <1>0, <2>1, <2>4, <3>1, <3>2 DEF HasKey
    <3> QED BY <1>0, <1>2, <3>3 DEF OneKeyOf
  <2>5. CASE WriteFile /\ q = op.plane /\ op.stage = "crt"
    <3>1. id' = id /\ disk'[q].key = disk[q].key /\ disk'[q].crt = op.cert
      BY <1>0, <2>5, Written DEF WriteFile
    <3>2. op' = Idle
      BY <2>5 DEF WriteFile
    <3>3. HasKey(q, k)'
      BY <1>0, <2>1, <2>5, <3>1, <3>2, Zero DEF HasKey
    <3> QED BY <1>0, <1>2, <3>3 DEF OneKeyOf
  <2>6. WriteFile => op.stage \in {"key", "crt"}
    BY DEF WriteFile
  <2> QED BY <2>2, <2>3, <2>4, <2>5, <2>6
<1> QED BY <1>1, <1>2

LEMMA NextOneKey ==
  ASSUME ~RotateKeys, Inv, OneKey, [Next]_vars
  PROVE  OneKey'
<1>1. CASE Boot \/ StartReturns \/ UNCHANGED vars \/ \E p \in Planes : Expire(p)
  <2>1. UNCHANGED <<boot, id, disk, op, wire>>
    BY <1>1 DEF Boot, StartReturns, vars, Expire
  <2> QED BY <2>1 DEF OneKey, OneKeyOf, Virgin, HasKey
<1>2. ASSUME NEW p \in Planes, LoadIdentity(p) \/ EnrollFirst(p) \/ Renew(p) PROVE OneKey'
  BY <1>2, ClientOneKey
<1>3. CASE ReceiveRefusal \/ WriteFails
  <2>1. op' = Idle /\ UNCHANGED <<boot, id, disk, wire>>
    BY <1>3 DEF ReceiveRefusal, WriteFails
  <2> QED BY <2>1, EndOneKey
<1>4. CASE GiveUp
  <2>1. op' = Idle /\ UNCHANGED <<boot, id, disk>> /\ wire' \in Abandoned
    BY <1>4 DEF GiveUp
  <2> QED BY <2>1, AbandonedSame, EndOneKey DEF Inv
<1>5. CASE Crash
  <2>1. /\ op' = Idle /\ UNCHANGED <<boot, disk>> /\ wire' \in Abandoned
        /\ \A p \in Planes : id'[p].crt.n = 0
    BY <1>5, Zero DEF Crash
  <2> QED BY <2>1, AbandonedSame, EndOneKey DEF Inv
<1>6. CASE ReceiveCert \/ WriteFile
  BY <1>6, InstallOneKey
<1>7. CASE Service
  BY <1>7, ServeOneKey DEF Service
<1> QED BY <1>1, <1>2, <1>3, <1>4, <1>5, <1>6, <1>7 DEF Next, Client

\* When renewals keep their key (Methods A and C), an unexpired certificate on disk can
\* be loaded after a restart, wherever the last renewal was interrupted.
THEOREM PersistedSurvives ==
  ASSUME ~RotateKeys
  PROVE  Spec => []PersistedSurvivesRestart
<1>1. Inv /\ OneKey => PersistedSurvivesRestart
  <2> SUFFICES ASSUME Inv, OneKey, NEW p \in Planes, Usable(p, disk[p].crt)
               PROVE  Loadable(p)
    BY DEF PersistedSurvivesRestart
  <2>1. disk[p].crt.n # 0 /\ disk[p].crt # NoCert
    BY Types, Zero DEF Usable, Inv
  <2>2. disk[p].key = disk[p].crt.key
    BY <2>1 DEF OneKey, OneKeyOf, Virgin, HasKey
  <2> QED BY <2>1, <2>2 DEF Loadable
<1>2. Inv /\ OneKey /\ [Next]_vars => OneKey'
  BY NextOneKey
<1> QED BY <1>1, <1>2, InitInv, NextInv, InitOneKey, PTL DEF Spec

=============================================================================
