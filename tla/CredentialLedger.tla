------------------------- MODULE CredentialLedger -------------------------
(***************************************************************************)
(* The RIC CA's POST /v1/enroll: concurrent runs of Server.issue under the *)
(* bootstrap profile, the ledger UsedCredentials they share, the file it   *)
(* appends to, and restarts of the CA process, which reload that file.     *)
(*                                                                         *)
(* The file is modelled by what a reload finds in it: `recorded` are the   *)
(* keys that start a parsable line, and `torn` says that the file ends in  *)
(* a fragment with no newline.  A fragment comes from an append that fails *)
(* part way (a full disk); the next line is glued to it, and a reload then *)
(* reads one key where two lines were meant.                               *)
(*                                                                         *)
(* Steps 1 to 3 of issue (client certificate, lifetime policy, CSR, DNS    *)
(* names) read nothing that changes and write nothing: a request that one  *)
(* of them rejects leaves no trace, so only requests that pass appear.     *)
(* A restart is a restart of the container: the state directory is an      *)
(* emptyDir of the pod, which outlives it, and so does what was written.   *)
(***************************************************************************)
EXTENDS Naturals

CONSTANTS
  Credentials,   \* bootstrap certificates, by issuer and serial (credentialKey)
  Handlers,      \* goroutines that serve /v1/enroll
  TornWrites,    \* whether a failing append may leave part of its line behind
  MaxRestarts    \* bound on restarts of the CA

ASSUME LedgerAssumption ==
  TornWrites \in BOOLEAN /\ MaxRestarts \in Nat

VARIABLES
  used,       \* UsedCredentials.used
  recorded,   \* keys a reload of the ledger file would find
  torn,       \* whether the file ends in the middle of a line
  inFlight,   \* requests inside issue: which handler, which credential, how far
  issued,     \* history: certificates signed for each credential
  restarts

vars == <<used, recorded, torn, inFlight, issued, restarts>>

Stages == {"checked",   \* past steps 1 to 3, about to call Consume
           "appended",  \* in Consume, holds the mutex, the line is in the file
           "consumed"}  \* Consume returned nil, the certificate is not signed yet

Request == [handler : Handlers, cred : Credentials, at : Stages]

\* The state is well formed, and the mutex of the ledger is held by at most one
\* request, which is the only one between its append and its mark.
TypeOK ==
  /\ used \in SUBSET Credentials
  /\ recorded \in SUBSET Credentials
  /\ torn \in BOOLEAN
  /\ inFlight \in SUBSET Request
  /\ \A q, r \in inFlight : q.handler = r.handler => q = r
  /\ \A q, r \in inFlight : q.at = "appended" /\ r.at = "appended" => q = r
  /\ issued \in [Credentials -> Nat]
  /\ restarts \in 0..MaxRestarts

Init ==
  /\ used = {}
  /\ recorded = {}
  /\ torn = FALSE
  /\ inFlight = {}
  /\ issued = [c \in Credentials |-> 0]
  /\ restarts = 0

-----------------------------------------------------------------------------

Idle(h) == \A r \in inFlight : r.handler # h

\* Mutant: Consume without the mutex.
NoMutex == TRUE

\* The mutex of UsedCredentials is free.
Unlocked == \A r \in inFlight : r.at # "appended"

Moved(r, stage) == (inFlight \ {r}) \cup {[r EXCEPT !.at = stage]}

\* A request that passes steps 1 to 3 of issue.  Several may carry the same credential.
Check(h, c) ==
  /\ Idle(h)
  /\ inFlight' = inFlight \cup {[handler |-> h, cred |-> c, at |-> "checked"]}
  /\ UNCHANGED <<used, recorded, torn, issued, restarts>>

\* Consume finds the key in the map: bootstrap_credential_reused.
Refuse(r) ==
  /\ r.at = "checked" /\ Unlocked
  /\ r.cred \in used
  /\ inFlight' = inFlight \ {r}
  /\ UNCHANGED <<used, recorded, torn, issued, restarts>>

\* Mutant: the file is truncated when it is opened, not appended to.
AfterTruncation(c) == {c}

\* What a reload finds once a line (or the part of it that holds the key) follows
\* what is in the file: a key glued to a fragment is not found.
AfterLine(c) == IF torn THEN recorded ELSE recorded \cup {c}

\* Consume writes the whole line and keeps the mutex until Sync returns.
Append(r) ==
  /\ r.at = "checked" /\ Unlocked
  /\ r.cred \notin used
  /\ recorded' = AfterLine(r.cred)
  /\ torn' = FALSE
  /\ inFlight' = Moved(r, "appended")
  /\ UNCHANGED <<used, issued, restarts>>

\* OpenFile fails, or Fprintf does: Consume returns the error, used is unchanged
\* and the request is refused.  A fragment may stay, with or without the key.
AppendFails(r) ==
  /\ r.at = "checked" /\ Unlocked
  /\ r.cred \notin used
  /\ inFlight' = inFlight \ {r}
  /\ \/ UNCHANGED <<recorded, torn>>
     \/ /\ TornWrites
        /\ torn' = TRUE
        /\ recorded' \in {recorded, AfterLine(r.cred)}
  /\ UNCHANGED <<used, issued, restarts>>

\* Mutant: the key is not put in the map.
SyncUnmarked(r) ==
  /\ r.at = "appended"
  /\ inFlight' = Moved(r, "consumed")
  /\ UNCHANGED <<used, recorded, torn, issued, restarts>>

\* Sync returns, the key is marked and the mutex released.
Sync(r) ==
  /\ r.at = "appended"
  /\ used' = used \cup {r.cred}
  /\ inFlight' = Moved(r, "consumed")
  /\ UNCHANGED <<recorded, torn, issued, restarts>>

\* Sync fails: the request is refused, the line stays in the file, the key is not marked.
SyncFails(r) ==
  /\ r.at = "appended"
  /\ inFlight' = inFlight \ {r}
  /\ UNCHANGED <<used, recorded, torn, issued, restarts>>

\* The certificate is signed and the response written.
Issue(r) ==
  /\ r.at = "consumed"
  /\ issued' = [issued EXCEPT ![r.cred] = @ + 1]
  /\ inFlight' = inFlight \ {r}
  /\ UNCHANGED <<used, recorded, torn, restarts>>

\* The serial or CreateCertificate fails: "internal", and the credential is spent.
IssueFails(r) ==
  /\ r.at = "consumed"
  /\ inFlight' = inFlight \ {r}
  /\ UNCHANGED <<used, recorded, torn, issued, restarts>>

\* Mutant: the ledger is not loaded.
RestartEmpty ==
  /\ restarts < MaxRestarts
  /\ restarts' = restarts + 1
  /\ used' = {}
  /\ inFlight' = {}
  /\ UNCHANGED <<recorded, torn, issued>>

\* The process dies with its requests; OpenUsedCredentials reloads the file.
Restart ==
  /\ restarts < MaxRestarts
  /\ restarts' = restarts + 1
  /\ used' = recorded
  /\ inFlight' = {}
  /\ UNCHANGED <<recorded, torn, issued>>

Serve(r) ==
  \/ Refuse(r) \/ Append(r) \/ AppendFails(r)
  \/ Sync(r) \/ SyncFails(r) \/ Issue(r) \/ IssueFails(r)

Next ==
  \/ \E h \in Handlers, c \in Credentials : Check(h, c)
  \/ \E r \in inFlight : Serve(r)
  \/ Restart

Spec == Init /\ [][Next]_vars

-----------------------------------------------------------------------------
(***************************************************************************)
(* Properties                                                              *)
(***************************************************************************)

\* Every bootstrap credential is single-use: however requests with the same
\* credential interleave, and across restarts of the CA, at most one certificate
\* is signed for it.  Holds when no append leaves a fragment.
IssuedOnce == \A c \in Credentials : issued[c] <= 1

\* What the running CA treats as used, a restarted CA will too: the in-memory map
\* never knows more than the file it is rebuilt from.
UsedIsDurable == used \subseteq recorded

\* The status of a credential as OneTimeCredentials sees it.
StatusOf(c) ==
  CASE issued[c] > 1 -> "reissued"
    [] issued[c] = 1 -> "issued"
    [] issued[c] = 0 /\ c \in used -> "spent"
    [] OTHER -> "fresh"

Abstract == INSTANCE OneTimeCredentials WITH status <- [c \in Credentials |-> StatusOf(c)]

\* Server.issue and UsedCredentials together implement one-time credentials: a
\* spent credential is never fresh again, not even to a restarted CA.
ImplementsOneTime == Abstract!Spec

=============================================================================
