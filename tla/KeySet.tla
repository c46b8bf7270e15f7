------------------------------- MODULE KeySet -------------------------------
(***************************************************************************)
(* internal/jose/jwks.go: the cache of verification keys that requests     *)
(* share, and the publisher it fetches them from.  The publisher is the    *)
(* pq-shim: it publishes one key, and every restart publishes the next.    *)
(*                                                                         *)
(* Time is kept as ages that stop growing at the largest value the code    *)
(* compares them with, so that the model needs no last moment.  A key is   *)
(* the number of the publisher's life it belongs to; the cached set is the *)
(* key it lists, 0 before the first fetch.                                 *)
(***************************************************************************)
EXTENDS Naturals

CONSTANTS
  Requests,      \* goroutines that call Key
  Ttl,           \* JWKS_CACHE_TTL
  MinRefresh,    \* JWKS_MIN_REFRESH
  MaxFetch,      \* Timeout of the http.Client
  MaxRotations   \* bound on the restarts of the publisher

ASSUME KeySetAssumption ==
  /\ {Ttl, MinRefresh, MaxFetch, MaxRotations} \subseteq Nat
  /\ MinRefresh <= Ttl
  /\ "nobody" \notin Requests

VARIABLES
  published,  \* the key the publisher serves
  retired,    \* for how long each earlier key has been withdrawn
  faulty,     \* the publisher cannot be reached, or callers hang up
  set,        \* KeySet.set
  fetched,    \* age of KeySet.fetched
  attempt,    \* age of KeySet.lastAttempt
  broke,      \* history: the last attempt failed
  lock,       \* who holds mu for writing, for as long as it fetches
  req         \* the requests

keyVars == <<set, fetched, attempt, broke, lock>>
vars == <<published, retired, faulty, keyVars, req>>

Keys == 1..(MaxRotations + 1)
Overdue == Ttl + MaxFetch + 1           \* later than any set in use can be
Cap == IF MinRefresh > MaxFetch THEN MinRefresh ELSE MaxFetch
Older(age, cap) == IF age < cap THEN age + 1 ELSE age

\* kid: what the token names; found: the first lookup's result; got: the fetched set.
\* History: floor: the set when the request began; late: kid was long gone by then;
\* failed: its refresh failed.
Request == [at : {"idle", "lookup", "stale", "refresh", "get", "again",
                  "served", "misfit", "refused"},
            kid : Keys, found : BOOLEAN, got : Keys \cup {0},
            floor : Keys \cup {0}, late : BOOLEAN, failed : BOOLEAN]
NewRequest == [at |-> "idle", kid |-> 1, found |-> FALSE, got |-> 0, floor |-> 0,
               late |-> FALSE, failed |-> FALSE]

\* The state is well formed, and mu is held exactly while its holder fetches.
TypeOK ==
  /\ published \in Keys /\ retired \in [Keys -> 0..Overdue] /\ faulty \in BOOLEAN
  /\ set \in Keys \cup {0} /\ fetched \in 0..(Ttl + 1)
  /\ attempt \in 0..Cap /\ broke \in BOOLEAN
  /\ lock \in Requests \cup {"nobody"}
  /\ req \in [Requests -> Request]
  /\ \A r \in Requests : req[r].at = "get" <=> lock = r

Init ==
  /\ published = 1 /\ retired = [k \in Keys |-> 0] /\ faulty = FALSE
  /\ set = 0 /\ fetched = Ttl + 1 /\ attempt = Cap /\ broke = FALSE
  /\ lock = "nobody"
  /\ req = [r \in Requests |-> NewRequest]

-----------------------------------------------------------------------------
(* Key *)

\* A token comes in, signed in this or an earlier life of the publisher, or naming
\* a key that nobody has published.
Begin(r) ==
  /\ req[r].at = "idle"
  /\ \E k \in Keys :
       req' = [req EXCEPT ![r] =
         [NewRequest EXCEPT !.at = "lookup", !.kid = k, !.floor = set,
            !.late = k < published /\ retired[k] = Overdue]]
  /\ UNCHANGED <<published, retired, faulty, keyVars>>

Finish(r, as) == req' = [req EXCEPT ![r] = [NewRequest EXCEPT !.at = as, !.kid = req[r].kid]]

\* A key was found: it is handed out if the token's alg, and its own use, are right.
Found(r) == \E as \in {"served", "misfit"} : Finish(r, as)

\* Mutant: only the age of the set makes the cache fetch it.
LookupNoRefetch(r) ==
  /\ req[r].at = "lookup" /\ lock = "nobody"
  /\ IF set = req[r].kid THEN req' = [req EXCEPT ![r].found = TRUE, ![r].at = "stale"]
     ELSE Finish(r, "refused")
  /\ UNCHANGED <<published, retired, faulty, keyVars>>

\* A miss goes to the network, and so may a hit in a stale set.
Lookup(r) ==
  /\ req[r].at = "lookup" /\ lock = "nobody"
  /\ req' = [req EXCEPT ![r].found = (set = req[r].kid),
                        ![r].at = IF set = req[r].kid THEN "stale" ELSE "refresh"]
  /\ UNCHANGED <<published, retired, faulty, keyVars>>

\* Mutant: whatever was found at first is handed out.
IsStaleNever(r) ==
  /\ req[r].at = "stale" /\ lock = "nobody"
  /\ Found(r)
  /\ UNCHANGED <<published, retired, faulty, keyVars>>

\* A fresh set: what was found at first is handed out, with no second lookup.
IsStale(r) ==
  /\ req[r].at = "stale" /\ lock = "nobody"
  /\ IF fetched > Ttl THEN req' = [req EXCEPT ![r].at = "refresh"] ELSE Found(r)
  /\ UNCHANGED <<published, retired, faulty, keyVars>>

Limited == attempt < MinRefresh /\ fetched <= Ttl

\* Mutant: the lock is not kept while fetching.
RefreshUnlocked(r) ==
  /\ req[r].at = "refresh" /\ lock = "nobody"
  /\ attempt' = IF Limited THEN attempt ELSE 0
  /\ req' = [req EXCEPT ![r].at = IF Limited THEN "again" ELSE "get"]
  /\ UNCHANGED <<published, retired, faulty, set, fetched, broke, lock>>

\* refresh: nothing when limited, else an attempt, under the lock.
Refresh(r) ==
  /\ req[r].at = "refresh" /\ lock = "nobody"
  /\ attempt' = IF Limited THEN attempt ELSE 0
  /\ lock' = IF Limited THEN lock ELSE r
  /\ req' = [req EXCEPT ![r].at = IF Limited THEN "again" ELSE "get"]
  /\ UNCHANGED <<published, retired, faulty, set, fetched, broke>>

\* handleJWKS: the publisher answers with the key of its life.
HandleJWKS(r) ==
  /\ req[r].at = "get" /\ req[r].got = 0
  /\ req' = [req EXCEPT ![r].got = published]
  /\ UNCHANGED <<published, retired, faulty, keyVars>>

\* Mutant: the time of the fetch is not recorded.
StoreUnstamped(r) ==
  /\ req[r].at = "get" /\ req[r].got # 0
  /\ set' = req[r].got /\ broke' = FALSE
  /\ lock' = "nobody"
  /\ req' = [req EXCEPT ![r].at = "again", ![r].got = 0]
  /\ UNCHANGED <<published, retired, faulty, fetched, attempt>>

\* The answer arrives and is parsed.
Store(r) ==
  /\ req[r].at = "get" /\ req[r].got # 0
  /\ set' = req[r].got /\ fetched' = 0 /\ broke' = FALSE
  /\ lock' = "nobody"
  /\ req' = [req EXCEPT ![r].at = "again", ![r].got = 0]
  /\ UNCHANGED <<published, retired, faulty, attempt>>

\* Mutant: an early return that forgets the lock.
FetchFailsLocked(r) ==
  /\ req[r].at = "get" /\ faulty
  /\ broke' = TRUE
  /\ IF req[r].found
     THEN req' = [req EXCEPT ![r].at = "again", ![r].got = 0, ![r].failed = TRUE]
     ELSE Finish(r, "refused")
  /\ UNCHANGED <<published, retired, faulty, set, fetched, attempt, lock>>

\* No answer, not 200 or not a key set: the error counts only if no key was found.
FetchFails(r) ==
  /\ req[r].at = "get" /\ faulty
  /\ lock' = "nobody" /\ broke' = TRUE
  /\ IF req[r].found
     THEN req' = [req EXCEPT ![r].at = "again", ![r].got = 0, ![r].failed = TRUE]
     ELSE Finish(r, "refused")
  /\ UNCHANGED <<published, retired, faulty, set, fetched, attempt>>

\* The second lookup decides.
LookupAgain(r) ==
  /\ req[r].at = "again" /\ lock = "nobody"
  /\ IF set = req[r].kid THEN Found(r) ELSE Finish(r, "refused")
  /\ UNCHANGED <<published, retired, faulty, keyVars>>

\* Authorize goes on with the key, or answers token_key_unavailable.
Return(r) ==
  /\ req[r].at \in {"served", "misfit", "refused"}
  /\ req' = [req EXCEPT ![r] = NewRequest]
  /\ UNCHANGED <<published, retired, faulty, keyVars>>

-----------------------------------------------------------------------------
(* The environment *)

\* Time passes; a fetch takes no longer than the client's timeout.
Tick ==
  /\ lock # "nobody" => attempt < MaxFetch
  /\ retired' = [k \in Keys |-> IF k < published THEN Older(retired[k], Overdue) ELSE 0]
  /\ fetched' = Older(fetched, Ttl + 1)
  /\ attempt' = Older(attempt, Cap)
  /\ UNCHANGED <<published, faulty, set, broke, lock, req>>

\* The shim restarts, with a new signing key.
Rotate ==
  /\ published <= MaxRotations
  /\ published' = published + 1
  /\ UNCHANGED <<retired, faulty, keyVars, req>>

Fault ==
  /\ faulty' = ~faulty
  /\ UNCHANGED <<published, retired, keyVars, req>>

Looks(r) == Lookup(r) \/ IsStale(r) \/ Refresh(r) \/ LookupAgain(r)
FetchEnds(r) == HandleJWKS(r) \/ Store(r) \/ FetchFails(r)

Next ==
  \/ \E r \in Requests : Begin(r) \/ Looks(r) \/ FetchEnds(r) \/ Return(r)
  \/ Tick \/ Rotate \/ Fault

\* Goroutines run, a fetch ends by the client's timeout at the latest, time passes,
\* and a sync.RWMutex starves neither readers nor writers.
Fairness ==
  /\ \A r \in Requests : SF_vars(Looks(r)) /\ WF_vars(FetchEnds(r)) /\ WF_vars(Return(r))
  /\ WF_vars(Tick)

Spec == Init /\ [][Next]_vars /\ Fairness

-----------------------------------------------------------------------------
(***************************************************************************)
(* Properties                                                              *)
(***************************************************************************)

Served(r) == req[r].at # "served" /\ req'[r].at = "served"

\* Answers are stored in the order they were given, so the cache never returns to a
\* key it has dropped, and a request that begins after the drop is not served it
\* (refresh keeps mu from the request to the answer).
NeverBack ==
  [][/\ set <= set'
     /\ \A r \in Requests : Served(r) => req[r].kid >= req[r].floor]_vars

\* A request that begins longer than Ttl and one fetch after a key was withdrawn gets
\* that key, while it is in the set, only if its own refresh failed (jwks.go:41).  The
\* set is named because Key reads it twice: one replaced between the lookup and
\* stale makes the key found at first look fresh.
WithdrawnOnlyIfUnreachable ==
  [][\A r \in Requests :
       Served(r) /\ set = req[r].kid /\ req[r].late => req[r].failed]_vars

\* Fetches are MinRefresh apart whatever the tokens name, except after one that
\* failed: then, once the set is stale, every request makes one (jwks.go:76).
FetchesSpaced ==
  [][lock = "nobody" /\ lock' # "nobody" => attempt >= MinRefresh \/ broke]_vars

\* Every request ends, although each one that looks waits for a fetch under way:
\* no outcome of a fetch leaves mu locked.
RequestsEnd == \A r \in Requests : req[r].at = "lookup" ~> req[r].at = "idle"

\* Once the publisher stays up and reachable, its key is refused only finitely
\* often, however many tokens with other keys arrive meanwhile.
RotationHeard ==
  \A k \in Keys : <>[](published = k /\ ~faulty) =>
    \A r \in Requests : <>[](req[r].at = "refused" => req[r].kid # k)

=============================================================================
