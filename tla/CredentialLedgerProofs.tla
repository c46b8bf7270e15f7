----------------------- MODULE CredentialLedgerProofs -----------------------
(***************************************************************************)
(* Theorems about CredentialLedger for every set of credentials and        *)
(* handlers and any number of restarts.                                    *)
(*                                                                         *)
(* TypeCorrect needs nothing.  The others assume TornWrites = FALSE: the   *)
(* run on CredentialLedgerTorn.cfg shows that they fail without it.  The   *)
(* invariant follows a credential through issue: before the mark its line  *)
(* is in the file (Written), after the mark it is in the map and not yet   *)
(* issued, by one request only (Marked, OneHolder), and what was issued    *)
(* stays in the map (IssuedUsed).                                          *)
(***************************************************************************)
EXTENDS CredentialLedger, TLAPS

Clean == torn = FALSE

\* The request that holds the mutex has its line in the file.
Written ==
  \A r \in inFlight : r.at = "appended" => r.cred \in recorded /\ r.cred \notin used

\* A request about to sign has marked its credential and nobody has signed for it.
Marked == \A r \in inFlight : r.at = "consumed" => r.cred \in used /\ issued[r.cred] = 0

OneHolder ==
  \A q, r \in inFlight : q.at = "consumed" /\ r.at = "consumed" /\ q.cred = r.cred => q = r

IssuedUsed == \A c \in Credentials : issued[c] > 0 => c \in used

IInv ==
  /\ TypeOK /\ Clean /\ UsedIsDurable /\ IssuedOnce
  /\ Written /\ Marked /\ OneHolder /\ IssuedUsed

-----------------------------------------------------------------------------
\* Moving a request to another stage keeps the handlers apart and the mutex with one.
LEMMA MovedTyped ==
  ASSUME TypeOK, NEW r \in inFlight, NEW stage \in Stages,
         stage = "appended" => Unlocked
  PROVE  /\ Moved(r, stage) \in SUBSET Request
         /\ \A p, q \in Moved(r, stage) : p.handler = q.handler => p = q
         /\ \A p, q \in Moved(r, stage) : p.at = "appended" /\ q.at = "appended" => p = q
  <1> DEFINE m == [r EXCEPT !.at = stage]
  <1>1. r \in Request
    BY DEF TypeOK
  <1>2. m \in Request /\ m.handler = r.handler /\ m.cred = r.cred /\ m.at = stage
    BY <1>1 DEF Request
  <1>3. Moved(r, stage) = (inFlight \ {r}) \cup {m}
    BY DEF Moved
  <1>4. \A q \in inFlight \ {r} : q.handler # m.handler
    BY <1>2 DEF TypeOK
  <1>5. stage = "appended" => \A q \in inFlight : q.at # "appended"
    BY DEF Unlocked
  <1> HIDE DEF m
  <1>6. QED
    BY <1>2, <1>3, <1>4, <1>5 DEF TypeOK

LEMMA InitTyped == Init => TypeOK
  <1> SUFFICES ASSUME Init PROVE TypeOK
    OBVIOUS
  <1>1. torn \in BOOLEAN
    BY DEF Init
  <1>2. /\ used \in SUBSET Credentials /\ recorded \in SUBSET Credentials
        /\ inFlight = {} /\ issued \in [Credentials -> Nat] /\ restarts \in 0..MaxRestarts
    BY LedgerAssumption DEF Init
  <1>3. QED
    BY <1>1, <1>2 DEF TypeOK

LEMMA StepTyped == TypeOK /\ [Next]_vars => TypeOK'
  <1> SUFFICES ASSUME TypeOK, [Next]_vars PROVE TypeOK'
    OBVIOUS
  <1>1. ASSUME NEW h \in Handlers, NEW c \in Credentials, Check(h, c) PROVE TypeOK'
    BY <1>1 DEF TypeOK, Check, Idle, Request, Stages
  <1>2. ASSUME NEW r \in inFlight, Serve(r) PROVE TypeOK'
    <2>1. r \in Request
      BY DEF TypeOK
    <2>2. CASE Refuse(r) \/ SyncFails(r) \/ IssueFails(r)
      BY <2>2 DEF TypeOK, Refuse, SyncFails, IssueFails
    <2>3. CASE Append(r)
      BY <2>1, <2>3, MovedTyped DEF TypeOK, Append, AfterLine, Request, Stages
    <2>4. CASE AppendFails(r)
      BY <2>1, <2>4, LedgerAssumption DEF TypeOK, AppendFails, AfterLine, Request
    <2>5. CASE Sync(r)
      BY <2>1, <2>5, MovedTyped DEF TypeOK, Sync, Request, Stages
    <2>6. CASE Issue(r)
      BY <2>1, <2>6 DEF TypeOK, Issue, Request
    <2>7. QED
      BY <1>2, <2>2, <2>3, <2>4, <2>5, <2>6 DEF Serve
  <1>3. CASE Restart
    BY <1>3, LedgerAssumption DEF TypeOK, Restart
  <1>4. CASE UNCHANGED vars
    BY <1>4 DEF TypeOK, vars
  <1>5. QED
    BY <1>1, <1>2, <1>3, <1>4 DEF Next

\* The state stays well formed and Consume's mutex is exclusive, whatever
\* fails and whenever the CA restarts.
THEOREM TypeCorrect == Spec => []TypeOK
  BY InitTyped, StepTyped, PTL DEF Spec

-----------------------------------------------------------------------------
LEMMA InitIInv == Init => IInv
  BY InitTyped DEF Init, IInv, Clean, UsedIsDurable, IssuedOnce, Written, Marked, OneHolder,
                   IssuedUsed

\* One step of a request inside issue.
LEMMA ServeIInv ==
  ASSUME TornWrites = FALSE, IInv, TypeOK', NEW r \in inFlight, Serve(r)
  PROVE  IInv'
  <1>1. /\ r \in Request /\ r.cred \in Credentials
        /\ inFlight \in SUBSET Request /\ issued \in [Credentials -> Nat]
    BY DEF IInv, TypeOK, Request
  <1>2. CASE Refuse(r) \/ SyncFails(r) \/ IssueFails(r) \/ AppendFails(r)
    <2>1. inFlight' \subseteq inFlight /\ UNCHANGED <<used, recorded, torn, issued>>
      BY <1>2 DEF Refuse, SyncFails, IssueFails, AppendFails
    <2>2. QED
      BY <2>1 DEF IInv, Clean, UsedIsDurable, IssuedOnce, Written, Marked, OneHolder, IssuedUsed
  <1>3. ASSUME NEW stage \in Stages, inFlight' = Moved(r, stage), NEW q \in inFlight'
        PROVE  \/ q \in inFlight \ {r}
               \/ q.at = stage /\ q.cred = r.cred /\ q = [r EXCEPT !.at = stage]
    BY <1>1, <1>3 DEF Moved, Request
  <1>4. CASE Append(r)
    <2>1. /\ inFlight' = Moved(r, "appended") /\ "appended" \in Stages
          /\ recorded' = recorded \cup {r.cred} /\ torn' = FALSE
          /\ r.cred \notin used /\ UNCHANGED <<used, issued>>
      BY <1>4 DEF Append, AfterLine, IInv, Clean, Stages
    <2>2. \A q \in inFlight' : \/ q \in inFlight
                               \/ q.at = "appended" /\ q.cred = r.cred
      BY <1>3, <2>1
    <2>3. Written'
      BY <2>1, <2>2 DEF IInv, Written
    <2>4. Marked' /\ OneHolder'
      BY <2>1, <2>2 DEF IInv, Marked, OneHolder
    <2>5. QED
      BY <2>1, <2>3, <2>4 DEF IInv, Clean, UsedIsDurable, IssuedOnce, IssuedUsed
  <1>5. CASE Sync(r)
    <2>1. /\ inFlight' = Moved(r, "consumed") /\ "consumed" \in Stages
          /\ used' = used \cup {r.cred} /\ r.at = "appended"
          /\ r.cred \in recorded /\ r.cred \notin used
          /\ UNCHANGED <<recorded, torn, issued>>
      BY <1>5 DEF Sync, IInv, Written, Stages
    <2>2. \A q \in inFlight' : \/ q \in inFlight \ {r}
                               \/ /\ q.at = "consumed" /\ q.cred = r.cred
                                  /\ q = [r EXCEPT !.at = "consumed"]
      BY <1>3, <2>1
    <2>3. issued[r.cred] = 0
      BY <1>1, <2>1 DEF IInv, IssuedUsed
    <2>4. Written'
      <3>1. \A q \in inFlight \ {r} : q.at # "appended"
        BY <2>1 DEF IInv, TypeOK
      <3>2. QED
        BY <2>1, <2>2, <3>1 DEF Written
    <2>5. Marked'
      BY <2>1, <2>2, <2>3 DEF IInv, Marked
    <2>6. OneHolder'
      <3>1. \A q \in inFlight : q.at = "consumed" => q.cred # r.cred
        BY <2>1 DEF IInv, Marked
      <3>2. QED
        BY <2>2, <3>1 DEF IInv, OneHolder
    <2>7. UsedIsDurable' /\ IssuedUsed' /\ Clean' /\ IssuedOnce'
      BY <2>1 DEF IInv, UsedIsDurable, IssuedUsed, Clean, IssuedOnce
    <2>8. QED
      BY <2>4, <2>5, <2>6, <2>7 DEF IInv
  <1>6. CASE Issue(r)
    <2>1. /\ inFlight' = inFlight \ {r} /\ r.at = "consumed"
          /\ issued' = [issued EXCEPT ![r.cred] = @ + 1]
          /\ r.cred \in used /\ issued[r.cred] = 0
          /\ UNCHANGED <<used, recorded, torn>>
      BY <1>6 DEF Issue, IInv, Marked
    <2>2. issued'[r.cred] = 1 /\ \A c \in Credentials \ {r.cred} : issued'[c] = issued[c]
      BY <1>1, <2>1
    <2>3. Marked'
      <3>1. \A q \in inFlight' : q.at = "consumed" => q.cred \in Credentials \ {r.cred}
        BY <1>1, <2>1 DEF IInv, OneHolder, Request
      <3>2. QED
        BY <2>1, <2>2, <3>1 DEF IInv, Marked
    <2>4. IssuedOnce' /\ IssuedUsed'
      BY <1>1, <2>1, <2>2 DEF IInv, IssuedOnce, IssuedUsed
    <2>5. QED
      BY <2>1, <2>3, <2>4 DEF IInv, Clean, UsedIsDurable, Written, OneHolder
  <1>7. QED
    BY <1>2, <1>4, <1>5, <1>6 DEF Serve

LEMMA StepIInv ==
  ASSUME TornWrites = FALSE
  PROVE  IInv /\ [Next]_vars => IInv'
  <1> SUFFICES ASSUME IInv, [Next]_vars PROVE IInv'
    OBVIOUS
  <1>1. TypeOK'
    BY StepTyped DEF IInv
  <1>2. ASSUME NEW h \in Handlers, NEW c \in Credentials, Check(h, c) PROVE IInv'
    <2>1. /\ inFlight' = inFlight \cup {[handler |-> h, cred |-> c, at |-> "checked"]}
          /\ UNCHANGED <<used, recorded, torn, issued>>
      BY <1>2 DEF Check
    <2>2. QED
      BY <1>1, <2>1 DEF IInv, Clean, UsedIsDurable, IssuedOnce, Written, Marked, OneHolder,
                        IssuedUsed
  <1>3. ASSUME NEW r \in inFlight, Serve(r) PROVE IInv'
    BY <1>1, <1>3, ServeIInv
  <1>4. CASE Restart
    BY <1>1, <1>4 DEF Restart, IInv, Clean, UsedIsDurable, IssuedOnce, Written, Marked,
                      OneHolder, IssuedUsed
  <1>5. CASE UNCHANGED vars
    BY <1>1, <1>5 DEF vars, IInv, Clean, UsedIsDurable, IssuedOnce, Written, Marked,
                      OneHolder, IssuedUsed
  <1>6. QED
    BY <1>2, <1>3, <1>4, <1>5 DEF Next

LEMMA Inductive ==
  ASSUME TornWrites = FALSE
  PROVE  Spec => []IInv
  BY InitIInv, StepIInv, PTL DEF Spec

\* At most one certificate is ever signed for a bootstrap credential.
THEOREM SingleUseCredentials ==
  ASSUME TornWrites = FALSE
  PROVE  Spec => []IssuedOnce
  <1>1. IInv => IssuedOnce
    BY DEF IInv
  <1>2. QED
    BY <1>1, Inductive, PTL

\* A restarted CA knows every credential its predecessor treated as used.
THEOREM LedgerIsDurable ==
  ASSUME TornWrites = FALSE
  PROVE  Spec => []UsedIsDurable
  <1>1. IInv => UsedIsDurable
    BY DEF IInv
  <1>2. QED
    BY <1>1, Inductive, PTL

-----------------------------------------------------------------------------
\* The ledger and the handlers around it implement OneTimeCredentials: every step
\* of the CA spends, issues, restores or leaves every credential as it was.
THEOREM Implements ==
  ASSUME TornWrites = FALSE
  PROVE  Spec => ImplementsOneTime
  <1> DEFINE bar == [c \in Credentials |-> StatusOf(c)]
  <1>1. Init => Abstract!Init
    BY DEF Init, Abstract!Init, StatusOf
  <1>2. IInv /\ IInv' /\ [Next]_vars => [Abstract!Next]_(Abstract!vars)
    <2> SUFFICES ASSUME IInv, IInv', [Next]_vars
                 PROVE  Abstract!Next \/ bar' = bar
      BY DEF Abstract!vars
    <2>1. issued \in [Credentials -> Nat] /\ issued' \in [Credentials -> Nat]
      BY DEF IInv, TypeOK
    <2>2. CASE UNCHANGED <<used, issued>>
      BY <2>2 DEF StatusOf
    <2>3. ASSUME NEW r \in inFlight, Sync(r) PROVE Abstract!Next
      <3>1. /\ r.cred \in Credentials /\ r.cred \notin used
            /\ used' = used \cup {r.cred} /\ issued' = issued
        BY <2>3 DEF Sync, IInv, TypeOK, Request, Written
      <3>2. issued[r.cred] = 0
        BY <2>1, <3>1 DEF IInv, IssuedUsed
      <3>3. StatusOf(r.cred) = "fresh" /\ StatusOf(r.cred)' = "spent"
        BY <3>1, <3>2 DEF StatusOf
      <3>4. \A c \in Credentials \ {r.cred} : StatusOf(c)' = StatusOf(c)
        BY <3>1 DEF StatusOf
      <3>5. Abstract!Spend(r.cred)
        BY <3>1, <3>3, <3>4 DEF Abstract!Spend
      <3>6. QED
        BY <3>1, <3>5 DEF Abstract!Next
    <2>4. ASSUME NEW r \in inFlight, Issue(r) PROVE Abstract!Next
      <3>1. /\ r.cred \in Credentials /\ r.cred \in used /\ issued[r.cred] = 0
            /\ issued' = [issued EXCEPT ![r.cred] = @ + 1] /\ used' = used
        BY <2>4 DEF Issue, IInv, TypeOK, Request, Marked
      <3>2. issued'[r.cred] = 1 /\ \A c \in Credentials \ {r.cred} : issued'[c] = issued[c]
        BY <2>1, <3>1
      <3>3. StatusOf(r.cred) = "spent" /\ StatusOf(r.cred)' = "issued"
        BY <3>1, <3>2 DEF StatusOf
      <3>4. \A c \in Credentials \ {r.cred} : StatusOf(c)' = StatusOf(c)
        BY <3>1, <3>2 DEF StatusOf
      <3>5. Abstract!Issue(r.cred)
        BY <3>1, <3>3, <3>4 DEF Abstract!Issue
      <3>6. QED
        BY <3>1, <3>5 DEF Abstract!Next
    <2>5. CASE Restart
      <3> DEFINE S == {c \in Credentials : issued[c] = 0 /\ c \in recorded \ used}
      <3>1. used' = recorded /\ issued' = issued /\ used \subseteq recorded
        BY <2>5 DEF Restart, IInv, UsedIsDurable
      <3>2. \A c \in S : StatusOf(c) = "fresh" /\ StatusOf(c)' = "spent"
        BY <3>1 DEF StatusOf
      <3>3. \A c \in Credentials \ S : StatusOf(c)' = StatusOf(c)
        <4> SUFFICES ASSUME NEW c \in Credentials \ S PROVE StatusOf(c)' = StatusOf(c)
          OBVIOUS
        <4>1. CASE issued[c] = 0
          BY <3>1, <4>1 DEF StatusOf
        <4>2. CASE issued[c] = 1
          BY <3>1, <4>2 DEF StatusOf
        <4>3. CASE issued[c] > 1
          BY <3>1, <4>3 DEF StatusOf
        <4>4. QED
          BY <2>1, <4>1, <4>2, <4>3
      <3>4. Abstract!Restore
        BY <3>2, <3>3 DEF Abstract!Restore
      <3>5. QED
        BY <3>4 DEF Abstract!Next
    <2>6. QED
      BY <2>2, <2>3, <2>4, <2>5 DEF Next, Serve, Check, Refuse, Append, AppendFails, SyncFails,
                                   IssueFails, vars
  <1>3. QED
    BY <1>1, <1>2, Inductive, PTL DEF Spec, Abstract!Spec, ImplementsOneTime

=============================================================================
