------------------------- MODULE ReplayCacheProofs -------------------------
(***************************************************************************)
(* Theorems about ReplayCache, for every set of proofs and handlers, every *)
(* duration and every capacity.                                            *)
(*                                                                         *)
(* The accepted-at-most-once argument needs to know what the cache still   *)
(* remembers: a key that was swept was swept by a handler whose reading    *)
(* was not ahead of the clock (Forgotten), and a handler's reading is not  *)
(* further behind the clock than MaxStall (Stalls).  Together with the     *)
(* window check already passed (Windowed), a handler can only come back to *)
(* a forgotten key if MaxStall >= Skew.                                    *)
(***************************************************************************)
EXTENDS ReplayCache, FiniteSetTheorems, TLAPS

-----------------------------------------------------------------------------
(* The inductive invariant, in named parts. *)

\* The cache is a finite map.
Finite == IsFiniteSet(entries)

\* A handler's reading is neither ahead of the clock nor older than MaxStall.
Stalls == \A r \in inFlight : r.now <= clock /\ clock - r.now <= MaxStall

\* What a handler checked before the lock still holds of its own reading.
Windowed == \A r \in inFlight : InWindow(r.proof, r.now)

\* What is stored was accepted by this process.
StoredWereAccepted == \A p \in entries : accepted[p] > 0

\* An accepted proof that is no longer stored has expired by the clock.
Forgotten == \A p \in Proofs : accepted[p] > 0 /\ p \notin entries => Expiry(p) <= clock

IInv == TypeOK /\ Finite /\ Stalls /\ Windowed /\ StoredWereAccepted /\ Forgotten

-----------------------------------------------------------------------------
\* Sweeping neither adds a key nor drops one that is live at the sweeper's reading.
LEMMA KeptFacts ==
  ASSUME TypeOK, Finite, NEW r \in inFlight
  PROVE  /\ Kept(r) \subseteq entries
         /\ \A p \in entries \ Kept(r) : Expiry(p) <= r.now
         /\ IsFiniteSet(Kept(r))
         /\ Cardinality(Kept(r)) \in Nat
         /\ Cardinality(Kept(r)) <= Cardinality(entries)
  <1>1. Kept(r) \subseteq entries
    BY DEF Kept, Live
  <1>2. ASSUME NEW p \in entries \ Kept(r)
        PROVE  Expiry(p) <= r.now
    BY <1>2, DurationsAssumption DEF Kept, Live, Expiry, TypeOK, Request
  <1>3. IsFiniteSet(Kept(r)) /\ Cardinality(Kept(r)) <= Cardinality(entries)
    BY <1>1, FS_Subset DEF Finite
  <1>4. Cardinality(Kept(r)) \in Nat
    BY <1>3, FS_CardinalityType
  <1>5. QED
    BY <1>1, <1>2, <1>3, <1>4

\* Inserting after a check that was not Full never exceeds the capacity.
LEMMA CapacityKept ==
  ASSUME TypeOK, Finite, NEW r \in inFlight
  PROVE  /\ Cardinality(Kept(r)) <= MaxEntries
         /\ ~Full(r) => /\ IsFiniteSet(Kept(r) \cup {r.proof})
                        /\ Cardinality(Kept(r) \cup {r.proof}) <= MaxEntries
  <1>1. /\ IsFiniteSet(Kept(r)) /\ Cardinality(Kept(r)) \in Nat
        /\ Cardinality(Kept(r)) <= Cardinality(entries)
    BY KeptFacts
  <1>2. Cardinality(entries) \in Nat /\ Cardinality(entries) <= MaxEntries
    BY FS_CardinalityType DEF TypeOK, Finite
  <1>3. Cardinality(Kept(r)) <= MaxEntries
    BY <1>1, <1>2, CapacityAssumption
  <1>4. ASSUME ~Full(r)
        PROVE  Cardinality(Kept(r)) < MaxEntries
    <2>1. CASE Sweeps(r)
      BY <1>4, <1>1, <2>1, CapacityAssumption DEF Full
    <2>2. CASE ~Sweeps(r)
      BY <1>2, <2>2, CapacityAssumption DEF Sweeps, Kept
    <2>3. QED
      BY <2>1, <2>2
  <1>5. ASSUME ~Full(r)
        PROVE  /\ IsFiniteSet(Kept(r) \cup {r.proof})
               /\ Cardinality(Kept(r) \cup {r.proof}) <= MaxEntries
    <2>1. /\ IsFiniteSet(Kept(r) \cup {r.proof})
          /\ Cardinality(Kept(r) \cup {r.proof}) =
               IF r.proof \in Kept(r) THEN Cardinality(Kept(r)) ELSE Cardinality(Kept(r)) + 1
      BY <1>1, FS_AddElement
    <2>2. QED
      BY <2>1, <1>1, <1>4, <1>5, CapacityAssumption
  <1>6. QED
    BY <1>3, <1>5

-----------------------------------------------------------------------------
LEMMA InitIInv == Init => IInv
  <1>1. IsFiniteSet({}) /\ Cardinality({}) = 0
    BY FS_EmptySet
  <1>2. QED
    BY <1>1, DurationsAssumption, CapacityAssumption
       DEF Init, IInv, TypeOK, Finite, Stalls, Windowed, StoredWereAccepted, Forgotten, ZeroTime

LEMMA ReadClockIInv ==
  ASSUME IInv, NEW h \in Handlers, NEW p \in Proofs, ReadClock(h, p)
  PROVE  IInv'
  <1> DEFINE new == [handler |-> h, proof |-> p, now |-> clock]
  <1>1. /\ inFlight' = inFlight \cup {new}
        /\ UNCHANGED <<clock, iat, entries, lastSweep, accepted, restarts>>
    BY DEF ReadClock
  <1>2. new \in Request
    BY DurationsAssumption DEF IInv, TypeOK, Request
  <1>3. TypeOK'
    BY <1>1, <1>2 DEF IInv, TypeOK
  <1>4. Finite' /\ StoredWereAccepted' /\ Forgotten'
    BY <1>1 DEF IInv, Finite, StoredWereAccepted, Forgotten, Expiry
  <1>5. Stalls'
    BY <1>1, DurationsAssumption DEF IInv, Stalls, TypeOK
  <1>6. Windowed'
    BY <1>1 DEF IInv, Windowed, ReadClock, InWindow
  <1>7. QED
    BY <1>3, <1>4, <1>5, <1>6 DEF IInv

LEMMA CheckAndStoreIInv ==
  ASSUME IInv, NEW r \in inFlight, CheckAndStore(r)
  PROVE  IInv'
  <1>1. TypeOK /\ Finite
    BY DEF IInv
  <1>2. inFlight' \subseteq inFlight /\ UNCHANGED <<clock, iat, restarts>>
    BY DEF CheckAndStore
  <1>3. r \in Request /\ r.now <= clock
    BY DEF IInv, TypeOK, Stalls
  <1>4. Stalls' /\ Windowed'
    BY <1>2 DEF IInv, Stalls, Windowed, InWindow
  <1>5. CASE AnswerSeen(r)
    BY <1>1, <1>2, <1>4, <1>5 DEF AnswerSeen, IInv, TypeOK, Finite, StoredWereAccepted,
                                 Forgotten, Expiry
  <1>6. ASSUME NEW p \in Proofs, p \in entries, p \notin Kept(r)
        PROVE  Expiry(p) <= clock
    BY <1>6, <1>1, <1>3, KeptFacts, DurationsAssumption DEF TypeOK, Request, Expiry
  <1>7. CASE AnswerFull(r)
    <2>1. /\ Cardinality(Kept(r)) <= MaxEntries /\ Kept(r) \subseteq entries
          /\ IsFiniteSet(Kept(r))
      BY <1>1, KeptFacts, CapacityKept
    <2>2. entries' = Kept(r) /\ lastSweep' = r.now /\ accepted' = accepted
      BY <1>7 DEF AnswerFull
    <2>3. TypeOK' /\ Finite'
      BY <1>1, <1>2, <1>3, <2>1, <2>2 DEF TypeOK, Finite, Request
    <2>4. StoredWereAccepted'
      BY <2>1, <2>2 DEF IInv, StoredWereAccepted
    <2>5. Forgotten'
      BY <1>2, <1>6, <2>2 DEF IInv, Forgotten, Expiry
    <2>6. QED
      BY <1>4, <2>3, <2>4, <2>5 DEF IInv
  <1>8. CASE AnswerFresh(r)
    <2>1. /\ Kept(r) \subseteq entries
          /\ IsFiniteSet(Kept(r) \cup {r.proof})
          /\ Cardinality(Kept(r) \cup {r.proof}) <= MaxEntries
      BY <1>1, <1>8, KeptFacts, CapacityKept DEF AnswerFresh
    <2>2. /\ entries' = Kept(r) \cup {r.proof}
          /\ lastSweep' = IF Sweeps(r) THEN r.now ELSE lastSweep
          /\ accepted' = [accepted EXCEPT ![r.proof] = @ + 1]
      BY <1>8 DEF AnswerFresh
    <2>3. TypeOK' /\ Finite'
      BY <1>1, <1>2, <1>3, <2>1, <2>2 DEF TypeOK, Finite, Request
    <2>4. \A p \in Proofs : accepted[p] > 0 \/ p = r.proof <=> accepted'[p] > 0
      BY <1>1, <1>3, <2>2 DEF TypeOK, Request
    <2>5. StoredWereAccepted'
      BY <1>1, <1>3, <2>1, <2>2, <2>4 DEF IInv, StoredWereAccepted, TypeOK, Request
    <2>6. Forgotten'
      BY <1>2, <1>6, <2>2, <2>4 DEF IInv, Forgotten, Expiry
    <2>7. QED
      BY <1>4, <2>3, <2>5, <2>6 DEF IInv
  <1>9. QED
    BY <1>5, <1>7, <1>8 DEF CheckAndStore

LEMMA TickIInv == IInv /\ Tick => IInv'
  <1> SUFFICES ASSUME IInv, Tick PROVE IInv'
    OBVIOUS
  <1>1. /\ clock' = clock + 1 /\ clock \in 0..Horizon /\ clock < Horizon
        /\ UNCHANGED <<iat, entries, lastSweep, inFlight, accepted, restarts>>
    BY DEF IInv, TypeOK, Tick
  <1>2. TypeOK'
    BY <1>1, DurationsAssumption DEF IInv, TypeOK
  <1>3. Finite' /\ Windowed' /\ StoredWereAccepted'
    BY <1>1 DEF IInv, Finite, Windowed, InWindow, StoredWereAccepted
  <1>4. Stalls'
    BY <1>1, DurationsAssumption DEF IInv, Stalls, Tick, TypeOK, Request
  <1>5. Forgotten'
    BY <1>1, DurationsAssumption DEF IInv, Forgotten, Expiry, TypeOK
  <1>6. QED
    BY <1>2, <1>3, <1>4, <1>5 DEF IInv

LEMMA RestartIInv == IInv /\ Restart => IInv'
  <1> SUFFICES ASSUME IInv, Restart PROVE IInv'
    OBVIOUS
  <1>1. IsFiniteSet({}) /\ Cardinality({}) = 0
    BY FS_EmptySet
  <1>2. QED
    BY <1>1, DurationsAssumption, CapacityAssumption
       DEF Restart, IInv, TypeOK, Finite, Stalls, Windowed, StoredWereAccepted, Forgotten, ZeroTime

LEMMA StepIInv == IInv /\ [Next]_vars => IInv'
  <1> SUFFICES ASSUME IInv, [Next]_vars PROVE IInv'
    OBVIOUS
  <1>1. ASSUME NEW h \in Handlers, NEW p \in Proofs, ReadClock(h, p) PROVE IInv'
    BY <1>1, ReadClockIInv
  <1>2. ASSUME NEW r \in inFlight, CheckAndStore(r) PROVE IInv'
    BY <1>2, CheckAndStoreIInv
  <1>3. CASE Tick
    BY <1>3, TickIInv
  <1>4. CASE Restart
    BY <1>4, RestartIInv
  <1>5. CASE UNCHANGED vars
    BY <1>5 DEF vars, IInv, TypeOK, Finite, Stalls, Windowed, InWindow, StoredWereAccepted,
               Forgotten, Expiry
  <1>6. QED
    BY <1>1, <1>2, <1>3, <1>4, <1>5 DEF Next

LEMMA Inductive == Spec => []IInv
  BY InitIInv, StepIInv, PTL DEF Spec

-----------------------------------------------------------------------------
\* The state stays well formed and the cache within its capacity, for every
\* capacity, interleaving of handlers and order of sweeps (replay.go CheckAndStore).
THEOREM TypeCorrect == Spec => []TypeOK
  <1>1. IInv => TypeOK
    BY DEF IInv
  <1>2. QED
    BY <1>1, Inductive, PTL

\* A handler that would accept a proof a second time must have stalled for Skew.
LEMMA FreshIsFirst ==
  ASSUME MaxStall < Skew, IInv, NEW r \in inFlight, ~Seen(r)
  PROVE  accepted[r.proof] = 0
  <1>1. /\ r \in Request /\ r.now <= clock /\ clock - r.now <= MaxStall
        /\ InWindow(r.proof, r.now)
    BY DEF IInv, TypeOK, Stalls, Windowed
  <1>2. /\ r.proof \in Proofs /\ r.now \in Nat /\ clock \in Nat /\ iat[r.proof] \in Nat
        /\ accepted[r.proof] \in Nat
    BY <1>1, DurationsAssumption DEF IInv, TypeOK, Request
  <1>3. r.now < Expiry(r.proof) /\ clock < Expiry(r.proof)
    BY <1>1, <1>2, DurationsAssumption DEF InWindow, Expiry
  <1>4. r.proof \notin entries
    BY <1>3 DEF Seen
  <1>5. ~(accepted[r.proof] > 0)
    BY <1>2, <1>3, <1>4, DurationsAssumption DEF IInv, Forgotten, Expiry
  <1>6. QED
    BY <1>2, <1>5

\* No process accepts a proof twice, provided no handler stalls between reading
\* the clock and taking the mutex for as long as the clock skew allowance.
THEOREM AcceptedOnce ==
  ASSUME MaxStall < Skew
  PROVE  Spec => []SingleUse
  <1>1. Init => SingleUse
    BY DEF Init, SingleUse
  <1>2. IInv /\ SingleUse /\ [Next]_vars => SingleUse'
    <2> SUFFICES ASSUME IInv, SingleUse, [Next]_vars PROVE SingleUse'
      OBVIOUS
    <2>1. accepted \in [Proofs -> Nat]
      BY DEF IInv, TypeOK
    <2>2. ASSUME NEW r \in inFlight, CheckAndStore(r) PROVE SingleUse'
      <3>1. CASE AnswerFresh(r)
        <4>1. accepted[r.proof] = 0
          BY <3>1, FreshIsFirst DEF AnswerFresh
        <4>2. QED
          BY <2>1, <3>1, <4>1 DEF AnswerFresh, SingleUse
      <3>2. CASE AnswerSeen(r) \/ AnswerFull(r)
        BY <3>2 DEF AnswerSeen, AnswerFull, SingleUse
      <3>3. QED
        BY <2>2, <3>1, <3>2 DEF CheckAndStore
    <2>3. CASE UNCHANGED accepted
      BY <2>3 DEF SingleUse
    <2>4. CASE Restart
      BY <2>4 DEF Restart, SingleUse
    <2>5. QED
      BY <2>2, <2>3, <2>4 DEF Next, ReadClock, Tick, vars
  <1>3. QED
    BY <1>1, <1>2, Inductive, PTL DEF Spec

\* An accepted proof stays in the cache for as long as the clock itself is
\* inside the proof's window, for every positive skew.
THEOREM Remembered ==
  ASSUME Skew > 0
  PROVE  Spec => []RememberedWhileAcceptable
  <1>1. IInv => RememberedWhileAcceptable
    BY DurationsAssumption DEF IInv, TypeOK, Forgotten, Expiry, RememberedWhileAcceptable
  <1>2. QED
    BY <1>1, Inductive, PTL

\* A first presentation is refused only when the cache is full of live entries.
THEOREM FailsClosedOnlyWhenFull == Spec => RefusedOnlyWhenFull
  <1> DEFINE A == \A r \in inFlight \ inFlight' :
                    restarts' = restarts /\ accepted'[r.proof] = 0 =>
                      /\ Cardinality(entries') >= MaxEntries
                      /\ \A p \in entries' : r.now < Expiry(p)
  <1>1. IInv /\ [Next]_vars => [A]_vars
    <2> SUFFICES ASSUME IInv, Next, NEW r \in inFlight \ inFlight',
                        restarts' = restarts, accepted'[r.proof] = 0
                 PROVE  /\ Cardinality(entries') >= MaxEntries
                        /\ \A p \in entries' : r.now < Expiry(p)
      OBVIOUS
    <2>1. ~Restart
      BY DEF Restart, IInv, TypeOK
    <2>2. PICK q \in inFlight : CheckAndStore(q)
      BY <2>1 DEF Next, ReadClock, Tick
    <2>3. q = r
      BY <2>2 DEF CheckAndStore
    <2>4. r \in Request /\ accepted \in [Proofs -> Nat] /\ r.proof \in Proofs
      BY DEF IInv, TypeOK, Request
    <2>5. ~AnswerFresh(r)
      BY <2>4 DEF AnswerFresh
    <2>6. ~AnswerSeen(r)
      BY <2>4 DEF AnswerSeen, Seen, IInv, StoredWereAccepted
    <2>7. AnswerFull(r)
      BY <2>2, <2>3, <2>5, <2>6 DEF CheckAndStore
    <2>8. QED
      BY <2>7 DEF AnswerFull, Full, Kept, Live
  <1>2. QED
    BY <1>1, Inductive, PTL DEF Spec, RefusedOnlyWhenFull

=============================================================================
