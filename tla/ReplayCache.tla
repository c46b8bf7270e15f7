---------------------------- MODULE ReplayCache ----------------------------
(***************************************************************************)
(* Freshness and single use of DPoP proofs at one validator process:       *)
(* step (e) of Validator.checkDPoPBinding and the ReplayCache it shares    *)
(* among all request goroutines.                                           *)
(*                                                                         *)
(* A handler reads the clock first (v.now()), checks the proof's iat       *)
(* against that reading, and only then takes the cache's mutex, still      *)
(* carrying the old reading.  Between the two, other handlers run and the  *)
(* clock advances; MaxStall bounds by how much.                            *)
(*                                                                         *)
(* A proof stands for its replay-cache key jkt:jti: the jti is 128 random  *)
(* bits per proof, so no two proofs share a key.  Times are integers in    *)
(* one unit; iat is what the client signed and may be ahead of the         *)
(* validator's clock.                                                      *)
(***************************************************************************)
EXTENDS Integers, FiniteSets

CONSTANTS
  Proofs,         \* DPoP proofs that pass every check before (e)
  Handlers,       \* request goroutines that may be inside checkDPoPBinding
  Window,         \* DPOP_PROOF_WINDOW
  Skew,           \* CLOCK_SKEW
  MaxEntries,     \* DPOP_REPLAY_CACHE_SIZE
  SweepInterval,  \* the 10 s of CheckAndStore
  MaxStall,       \* longest time from v.now() to the critical section
  MaxRestarts,    \* bound on restarts of the process
  Horizon         \* bound on the clock

ASSUME DurationsAssumption ==
  /\ Window \in Nat /\ Skew \in Nat /\ SweepInterval \in Nat
  /\ MaxStall \in Nat /\ MaxRestarts \in Nat /\ Horizon \in Nat

ASSUME CapacityAssumption == MaxEntries \in Nat \ {0}

VARIABLES
  clock,      \* time.Now of the process
  iat,        \* the issue time each proof carries, never changed
  entries,    \* the keys in ReplayCache.entries
  lastSweep,  \* ReplayCache.lastSweep
  inFlight,   \* handlers between v.now() and CheckAndStore
  accepted,   \* history: how often this process has accepted each proof
  restarts    \* how often the process has restarted

vars == <<clock, iat, entries, lastSweep, inFlight, accepted, restarts>>

Request == [handler : Handlers, proof : Proofs, now : Nat]

\* time.Time{} : longer ago than any sweep interval.
ZeroTime == -SweepInterval - 1

\* The state is well formed; in particular the map never outgrows
\* DPOP_REPLAY_CACHE_SIZE, whatever the order of sweeps and insertions.
TypeOK ==
  /\ clock \in 0..Horizon
  /\ iat \in [Proofs -> 0..Horizon]
  /\ entries \in SUBSET Proofs
  /\ Cardinality(entries) <= MaxEntries
  /\ lastSweep \in Int
  /\ inFlight \in SUBSET Request
  /\ accepted \in [Proofs -> Nat]
  /\ restarts \in 0..MaxRestarts

(***************************************************************************)
(* The two time comparisons of step (e).  The entry of a proof carries     *)
(* Expiry(p), which only depends on the proof.                             *)
(***************************************************************************)

\* Mutants: an entry that forgets the skew, or counts it once.
ExpiryNoSkew(p) == iat[p] + Window
ExpiryOneSkew(p) == iat[p] + Window + Skew

Expiry(p) == iat[p] + Window + 2 * Skew

InWindow(p, now) == iat[p] >= now - Window - Skew /\ iat[p] <= now + Skew

Live(S, now) == {p \in S : now < Expiry(p)}

Init ==
  /\ clock = 0
  /\ iat \in [Proofs -> 0..Horizon]
  /\ entries = {}
  /\ lastSweep = ZeroTime
  /\ inFlight = {}
  /\ accepted = [p \in Proofs |-> 0]
  /\ restarts = 0

-----------------------------------------------------------------------------

Idle(h) == \A r \in inFlight : r.handler # h

\* The handler reads the clock and the proof is in its window.  A proof out of
\* its window is rejected here and leaves no trace.
ReadClock(h, p) ==
  /\ Idle(h)
  /\ InWindow(p, clock)
  /\ inFlight' = inFlight \cup {[handler |-> h, proof |-> p, now |-> clock]}
  /\ UNCHANGED <<clock, iat, entries, lastSweep, accepted, restarts>>

Seen(r) == r.proof \in entries /\ r.now < Expiry(r.proof)

Sweeps(r) == Cardinality(entries) >= MaxEntries \/ r.now - lastSweep > SweepInterval

\* What CheckAndStore keeps of the map before it looks at the capacity again.
Kept(r) == IF Sweeps(r) THEN Live(entries, r.now) ELSE entries

\* Mutants: the capacity is not looked at again after the sweep, or only before it.
FullForgotten(r) == Sweeps(r) /\ FALSE
FullBeforeSweep(r) == Cardinality(entries) >= MaxEntries

Full(r) == Sweeps(r) /\ Cardinality(Kept(r)) >= MaxEntries

\* ReplaySeen: the lock is released and nothing has changed.
AnswerSeen(r) ==
  /\ Seen(r)
  /\ UNCHANGED <<entries, lastSweep, accepted>>

\* ReplayFull: the sweep stays done, the proof is not stored.
AnswerFull(r) ==
  /\ ~Seen(r)
  /\ Full(r)
  /\ entries' = Kept(r)
  /\ lastSweep' = r.now
  /\ UNCHANGED accepted

\* ReplayFresh: stored, and the request goes on to be accepted.
AnswerFresh(r) ==
  /\ ~Seen(r)
  /\ ~Full(r)
  /\ entries' = Kept(r) \cup {r.proof}
  /\ lastSweep' = IF Sweeps(r) THEN r.now ELSE lastSweep
  /\ accepted' = [accepted EXCEPT ![r.proof] = @ + 1]

\* The critical section is one step: the mutex covers all of it.
CheckAndStore(r) ==
  /\ AnswerSeen(r) \/ AnswerFull(r) \/ AnswerFresh(r)
  /\ inFlight' = inFlight \ {r}
  /\ UNCHANGED <<clock, iat, restarts>>

\* Time passes, but no handler stays between its two steps for longer than MaxStall.
Tick ==
  /\ clock < Horizon
  /\ \A r \in inFlight : clock - r.now < MaxStall
  /\ clock' = clock + 1
  /\ UNCHANGED <<iat, entries, lastSweep, inFlight, accepted, restarts>>

\* The process dies and starts again with an empty cache: the history restarts too.
Restart ==
  /\ restarts < MaxRestarts
  /\ restarts' = restarts + 1
  /\ entries' = {}
  /\ lastSweep' = ZeroTime
  /\ inFlight' = {}
  /\ accepted' = [p \in Proofs |-> 0]
  /\ UNCHANGED <<clock, iat>>

Next ==
  \/ \E h \in Handlers, p \in Proofs : ReadClock(h, p)
  \/ \E r \in inFlight : CheckAndStore(r)
  \/ Tick
  \/ Restart

Spec == Init /\ [][Next]_vars

-----------------------------------------------------------------------------
(***************************************************************************)
(* Properties                                                              *)
(***************************************************************************)

\* One process accepts a proof at most once, however its handlers interleave:
\* the replay check of checkDPoPBinding is sound although the clock it uses was
\* read outside the lock.  Holds when MaxStall < Skew.
SingleUse == \A p \in Proofs : accepted[p] <= 1

\* An accepted proof is remembered for as long as some handler's clock reading
\* could still find it inside its window.
RememberedWhileAcceptable ==
  \A p \in Proofs :
    accepted[p] > 0 /\ iat[p] >= clock - Window - Skew => p \in entries

\* Fail closed, and only then: a request is turned away without its proof ever
\* having been accepted only if, after a sweep, MaxEntries identifiers are all
\* still unexpired at the time that request read.
RefusedOnlyWhenFull ==
  [][\A r \in inFlight \ inFlight' :
        restarts' = restarts /\ accepted'[r.proof] = 0 =>
          /\ Cardinality(entries') >= MaxEntries
          /\ \A p \in entries' : r.now < Expiry(p)]_vars

=============================================================================
