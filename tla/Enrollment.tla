---------------------------- MODULE Enrollment ----------------------------
(***************************************************************************)
(* How an xApp gets and keeps its certificates: base.Start and the         *)
(* rotation half of base.Maintain in the client, the enrollment service    *)
(* behind an unreliable network, the identity directory the client writes, *)
(* and restarts of the client's container.                                 *)
(*                                                                         *)
(* Planes are 1 (classical) and, with PQEnabled, 2 (post-quantum); both    *)
(* run the same code.  Certificates of a plane are numbered in the order   *)
(* the CA signs them and all have the plane's lifetime, so they expire in  *)
(* that order: expired[p] is the last one that has.  The CA is atomic here *)
(* and never issues twice for one bootstrap credential, as                 *)
(* CredentialLedger shows of it.                                           *)
(*                                                                         *)
(* The client runs one call to the CA at a time, under base.mu; op is that *)
(* call and what follows it up to the last file written.                   *)
(***************************************************************************)
EXTENDS Naturals, FiniteSets

CONSTANTS
  NPlanes,      \* 1, or 2 with a post-quantum identity
  RotateKeys,   \* base.rotateKeys: Method B makes a new key for every renewal
  Keys,         \* pool of key numbers, larger than what is live at a time
  MaxCerts,     \* bound on the certificates the client asks for, per plane
  MaxFaults     \* bound on lost calls, failed writes and restarts together

Planes == 1..NPlanes

ASSUME EnrollmentAssumption ==
  /\ NPlanes \in 1..2 /\ RotateKeys \in BOOLEAN
  /\ Keys \subseteq Nat \ {0} /\ MaxCerts \in Nat \ {0} /\ MaxFaults \in Nat

VARIABLES
  boot,      \* the CA's ledger, per plane's bootstrap credential
  certs,     \* certificates the CA has signed, per plane
  expired,   \* the last of them whose notAfter has passed
  phase,     \* the client process: down, starting (in or between calls of Start), ready
  id,        \* Identity.cert of each plane: certificate and private key
  disk,      \* tls.crt and tls.key in the plane's identity directory
  op,        \* the call in progress under base.mu
  wire,      \* requests on their way to the CA
  faults

vars == <<boot, certs, expired, phase, id, disk, op, wire, faults>>

NoCert == [n |-> 0, key |-> 0]
NoPair == [crt |-> NoCert, key |-> 0]
Cert == [n : Nat, key : Keys \cup {0}]
Pair == [crt : Cert, key : Keys \cup {0}]

Idle == [plane |-> 0, stage |-> "idle", key |-> 0, cert |-> NoCert]
Op == [plane : Planes \cup {0}, stage : {"idle", "call", "reply", "key", "crt"},
       key : Keys \cup {0}, cert : Cert]

\* auth is the certificate presented, 0 for the bootstrap credential; live says
\* that the client still waits for the answer.
Request == [plane : Planes, auth : Nat, key : Keys, live : BOOLEAN]

\* The state is well formed, a key is only ever installed with its certificate,
\* and an answer can only reach the call it belongs to.
TypeOK ==
  /\ boot \in [Planes -> {"unused", "used"}]
  /\ certs \in [Planes -> Nat] /\ expired \in [Planes -> Nat]
  /\ phase \in {"down", "starting", "ready"}
  /\ id \in [Planes -> Pair] /\ \A p \in Planes : id[p].key = id[p].crt.key
  /\ disk \in [Planes -> Pair]
  /\ op \in Op
  /\ wire \subseteq Request
  /\ \A r \in wire : r.live => op.stage = "call" /\ op.plane = r.plane
  /\ faults \in 0..MaxFaults

Init ==
  /\ boot = [p \in Planes |-> "unused"]
  /\ certs = [p \in Planes |-> 0]
  /\ expired = [p \in Planes |-> 0]
  /\ phase = "down"
  /\ id = [p \in Planes |-> NoPair]
  /\ disk = [p \in Planes |-> NoPair]
  /\ op = Idle
  /\ wire = {}
  /\ faults = 0

-----------------------------------------------------------------------------
(* The client *)

Usable(p, c) == c.n > expired[p]

\* loadCredential and the check on NotAfter in startIdentity: the pair must match.
Loadable(p) == disk[p].crt # NoCert /\ disk[p].key = disk[p].crt.key /\ Usable(p, disk[p].crt)

\* A key of the pool that nothing refers to, one at most: pki.GenerateKey.
FreshKeys ==
  LET inUse == {id[p].key : p \in Planes} \cup {disk[p].key : p \in Planes}
               \cup {disk[p].crt.key : p \in Planes} \cup {r.key : r \in wire}
  IN  {k \in Keys \ inUse : \A j \in Keys \ inUse : k <= j}

\* enrollLocked up to the call of Enroll.
Call(p, auth, key) ==
  /\ op' = [plane |-> p, stage |-> "call", key |-> key, cert |-> NoCert]
  /\ wire' = wire \cup {[plane |-> p, auth |-> auth, key |-> key, live |-> TRUE]}

\* rotatePlaneLocked: the current certificate authenticates the renewal, which is
\* refused locally once that certificate has expired.
CallRenew(p, pair) ==
  /\ Usable(p, pair.crt)
  /\ certs[p] + Cardinality({r \in wire : r.plane = p}) < MaxCerts
  /\ \E key \in IF RotateKeys THEN FreshKeys ELSE {pair.key} : Call(p, pair.crt.n, key)

\* The container (re)starts.
Boot ==
  /\ phase = "down"
  /\ phase' = "starting"
  /\ UNCHANGED <<boot, certs, expired, id, disk, op, wire, faults>>

\* startIdentity reaches plane p: the planes before it have an identity, p has none.
StartReaches(p) ==
  /\ phase = "starting" /\ op = Idle
  /\ id[p] = NoPair
  /\ \A q \in Planes : q < p => id[q] # NoPair

\* Mutant: the files of the previous run are not looked at.
LoadNever(p) == FALSE /\ UNCHANGED vars

\* startIdentity finds a valid pair on disk, and renews it at once if it is due.
LoadIdentity(p) ==
  /\ StartReaches(p)
  /\ Loadable(p)
  /\ id' = [id EXCEPT ![p] = disk[p]]
  /\ \/ UNCHANGED <<op, wire>>
     \/ CallRenew(p, disk[p])
  /\ UNCHANGED <<boot, certs, expired, phase, disk, faults>>

\* startIdentity finds none, and spends the bootstrap credential on a new key.
\* After a refusal or an error Run calls Start again, and this is tried again.
EnrollFirst(p) ==
  /\ StartReaches(p)
  /\ ~Loadable(p)
  /\ \E key \in FreshKeys : Call(p, 0, key)
  /\ UNCHANGED <<boot, certs, expired, phase, id, disk, faults>>

\* Start returns nil; Maintain and the listeners run from here.
StartReturns ==
  /\ phase = "starting" /\ op = Idle
  /\ \A p \in Planes : id[p] # NoPair
  /\ phase' = "ready"
  /\ UNCHANGED <<boot, certs, expired, id, disk, op, wire, faults>>

\* A tick of Maintain (or a Rotate) that finds plane p due for renewal.
Renew(p) ==
  /\ phase = "ready" /\ op = Idle
  /\ CallRenew(p, id[p])
  /\ UNCHANGED <<boot, certs, expired, phase, id, disk, faults>>

\* The CA's refusal: enrollLocked returns the error and changes nothing.
ReceiveRefusal ==
  /\ op.stage = "reply" /\ op.cert = NoCert
  /\ op' = Idle
  /\ UNCHANGED <<boot, certs, expired, phase, id, disk, wire, faults>>

\* A certificate for the key of the call: it is in use before it is on disk.
ReceiveCert ==
  /\ op.stage = "reply" /\ op.cert # NoCert
  /\ op.cert.key = op.key
  /\ id' = [id EXCEPT ![op.plane] = [crt |-> op.cert, key |-> op.key]]
  /\ op' = [op EXCEPT !.stage = "key"]
  /\ UNCHANGED <<boot, certs, expired, phase, disk, wire, faults>>

\* Mutant: the certificate is written before the key.
FilesSwapped(d) ==
  IF op.stage = "key" THEN [d EXCEPT !.crt = op.cert] ELSE [d EXCEPT !.key = op.key]

\* persistCredential: tls.key first, then tls.crt, each replaced by a rename.
Files(d) ==
  IF op.stage = "key" THEN [d EXCEPT !.key = op.key] ELSE [d EXCEPT !.crt = op.cert]

WriteFile ==
  /\ op.stage \in {"key", "crt"}
  /\ disk' = [disk EXCEPT ![op.plane] = Files(@)]
  /\ op' = IF op.stage = "key" THEN [op EXCEPT !.stage = "crt"] ELSE Idle
  /\ UNCHANGED <<boot, certs, expired, phase, id, wire, faults>>

Fault == faults < MaxFaults /\ faults' = faults + 1

\* A write fails: identity_persist_failed is logged and the rest is skipped.
WriteFails ==
  /\ Fault
  /\ op.stage \in {"key", "crt"}
  /\ op' = Idle
  /\ UNCHANGED <<boot, certs, expired, phase, id, disk, wire>>

\* Requests nobody waits for any more may still arrive, or be lost.
Abandoned == {wire \ {r \in wire : r.live},
              {[r EXCEPT !.live = FALSE] : r \in wire}}

\* Mutant: the late answer of a call that was given up is still listened for.
GiveUpListening ==
  /\ Fault
  /\ op.stage \in {"call", "reply"}
  /\ op' = Idle
  /\ UNCHANGED <<boot, certs, expired, phase, id, disk, wire>>

\* The HTTP client times out or the connection breaks, before or after the CA acted.
GiveUp ==
  /\ Fault
  /\ op.stage \in {"call", "reply"}
  /\ op' = Idle
  /\ wire' \in Abandoned
  /\ UNCHANGED <<boot, certs, expired, phase, id, disk>>

\* The container dies: memory is lost, the identity directory stays.
Crash ==
  /\ Fault
  /\ phase # "down"
  /\ phase' = "down"
  /\ id' = [p \in Planes |-> NoPair]
  /\ op' = Idle
  /\ wire' \in Abandoned
  /\ UNCHANGED <<boot, certs, expired, disk>>

-----------------------------------------------------------------------------
(* The enrollment service and time *)

Answer(r, cert) ==
  /\ wire' = wire \ {r}
  /\ op' = IF r.live THEN [op EXCEPT !.stage = "reply", !.cert = cert] ELSE op
  /\ UNCHANGED <<expired, phase, id, disk, faults>>

\* The certificate is signed.  An internal error of the CA after Consume is a lost
\* reply to the client; CredentialLedger has it as IssueFails.
Sign(r) ==
  /\ certs' = [certs EXCEPT ![r.plane] = @ + 1]
  /\ Answer(r, [n |-> certs[r.plane] + 1, key |-> r.key])

\* Mutant: a check that comes after Consume rejects the request.
SpendThenReject(r) ==
  /\ r.auth = 0 /\ boot[r.plane] = "unused"
  /\ boot' = [boot EXCEPT ![r.plane] = "used"]
  /\ UNCHANGED certs
  /\ Answer(r, NoCert)

\* POST /v1/enroll with an unused bootstrap credential: spent, then signed.
IssueFirst(r) ==
  /\ r.auth = 0 /\ boot[r.plane] = "unused"
  /\ boot' = [boot EXCEPT ![r.plane] = "used"]
  /\ Sign(r)

\* POST /v1/renew with a certificate that is still valid.
IssueRenewal(r) ==
  /\ r.auth > expired[r.plane]
  /\ UNCHANGED boot
  /\ Sign(r)

\* bootstrap_credential_reused, or client_certificate_expired on a late renewal.
Refuse(r) ==
  /\ IF r.auth = 0 THEN boot[r.plane] = "used" ELSE r.auth <= expired[r.plane]
  /\ UNCHANGED <<boot, certs>>
  /\ Answer(r, NoCert)

Serve(r) == IssueFirst(r) \/ IssueRenewal(r) \/ Refuse(r)

\* The oldest unexpired certificate of a plane reaches its notAfter.
Expire(p) ==
  /\ expired[p] < certs[p]
  /\ expired' = [expired EXCEPT ![p] = @ + 1]
  /\ UNCHANGED <<boot, certs, phase, id, disk, op, wire, faults>>

Client ==
  \/ Boot \/ StartReturns
  \/ \E p \in Planes : LoadIdentity(p) \/ EnrollFirst(p)
  \/ ReceiveRefusal \/ ReceiveCert \/ WriteFile

Service == \E r \in wire : Serve(r)

Next ==
  \/ Client
  \/ \E p \in Planes : Renew(p) \/ Expire(p)
  \/ WriteFails \/ GiveUp \/ Crash
  \/ Service

\* The client's goroutine and the service keep running; Kubernetes restarts the
\* container.  Faults, renewals and the passing of time are not forced.
Spec == Init /\ [][Next]_vars /\ WF_vars(Client) /\ WF_vars(Service)

-----------------------------------------------------------------------------
(***************************************************************************)
(* Properties                                                              *)
(***************************************************************************)

\* Plane p can never again get an identity without a new bootstrap credential:
\* the one it has is spent, and neither the process, the directory nor an answer
\* on its way holds a valid pair.
LockedOut(p) ==
  /\ boot[p] = "used"
  /\ ~Usable(p, id[p].crt)
  /\ ~(id[p] = NoPair /\ Loadable(p))
  /\ ~(op.stage = "reply" /\ op.plane = p /\ Usable(p, op.cert))

\* A certificate on disk is one a restart can load until it expires, whatever
\* renewal was interrupted (persistCredential, startIdentity).  Holds when
\* renewals keep their key.
PersistedSurvivesRestart == \A p \in Planes : Usable(p, disk[p].crt) => Loadable(p)

\* Without a fault and before anything expires, spending the bootstrap credential
\* always ends in a usable identity: no path of issue or enrollLocked burns it.
NotBurnedUndisturbed ==
  faults = 0 => \A p \in Planes : expired[p] = 0 => ~LockedOut(p)

\* Run's retry loop works: from any combination of lost calls, failed writes and
\* restarts the client ends up ready for good, unless a plane is locked out.
Settles == <>[](phase = "ready" \/ \E p \in Planes : LockedOut(p))

=============================================================================
