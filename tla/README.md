# TLA+ models of O-RAN PQC token binding

This directory holds a formal model of the Go code of this repository: modules that
describe its concurrent and fault-prone parts, TLC configurations that check them on
small instances, and theorems about them that TLAPS proves for every instance.
`PROJECT.json` lists runs, mutants, findings, hazards and, for every definition, the
source lines it stands for.

## 1. The system

xApps of an O-RAN near-RT RIC authenticate with certificates from a RIC CA, get access
tokens from Keycloak that are bound to a certificate (Methods A and B) or to a DPoP key
(Method C), have them upgraded to ML-DSA tokens by `pq-shim`, and present them to each
other, directly or through sidecars that talk over their own post-quantum tunnel.

```
 SMO bootstrap -> xApp process / sidecar                      peer xApp / sidecar
                  +--------------------------+                +------------------+
   RIC CA <------ | Enroller  Maintain       |    mTLS/tunnel | Validator        |
   /v1/enroll     |   Identity (per plane)   | -------------> |   ReplayCache    |
   /v1/renew      |   token cache, base.mu   |                |   KeySet (JWKS)  |
   ledger file    |   transports (pools)     |                +------------------+
                  +--------------------------+                      |
                        |            |                              | JWKS, introspect
                        v            v                              v
                     Keycloak     pq-shim (Validator + ReplayCache + signer)
```

### Inventory

**RIC CA enrollment** (`ca/enroll/server.go`, `ledger.go`, `ca/cmd/ric-ca`).
State: the CA key, the map and the append-only file of used bootstrap credentials.
Operations: `/v1/enroll`, `/v1/renew`, `OpenUsedCredentials` at start, `Consume`.
Hard: concurrent requests with one credential, a crash or an I/O error between the
line, the sync, the mark and the signature. Correct when a bootstrap credential buys at
most one certificate for as long as the state directory exists.

**Client identity** (`xapp-client/identity.go`, `client.go`). State: per plane (classical
and, with PQ, post-quantum) the identity in memory, `tls.key` and `tls.crt` on disk.
Operations: `Start`, `Enroll`, `Rotate`, `Maintain`, `persistCredential`. It calls the CA and
is restarted by Kubernetes. Hard: lost replies, late replies, crashes between two renames,
a bootstrap credential that works once. Correct when a restart loads what was
persisted, and the bootstrap credential is only ever lost to a fault.

**Token client** (`certbound.go`, `dpop.go`, `issuer.go`, `pq.go`, `client.go`). State: the
cached token, the two HTTP transports with their pooled connections, the DPoP nonces, all
but the nonces and pools under `base.mu`. Operations: `Token`, `Do`, `IssueToken`, renewal. Hard: one
mutex held over network calls, connections that outlive the certificate they
present, a renewal in the middle of everything. Correct when what is cached is bound to
the certificate in force, and nobody waits for ever.

**Resource validator** (`xapp-resource/validator.go`, `channel.go`, `introspect.go`) with its
**replay cache** (`replay.go`). State: the cache, under a mutex, and the JWKS. Operations:
`Authorize`, `AuthorizeChannel`. Hard: all request goroutines share the cache, time is
read outside its lock, it has a capacity. Correct when a proof is accepted once.

**JWKS cache** (`internal/jose/jwks.go`). State: key set, fetch and attempt times under an
RWMutex. Operations: `Key`, `refresh`, `stale`. Hard: several lock sections per lookup, network I/O
under the write lock, stale keys served after failures. Correct when a key served is one
of a set fetched recently, or no newer one could be had, and the endpoint is asked at a bounded rate.

**pq-shim** (`pqshim/shim.go`). State: a signing key made at start, a replay cache of its own.
Operations: upgrade, JWKS, introspection. It is a validator and an issuer. Hard: two proofs with
two replay caches in one request. Correct when the new token is bound to the post-quantum
credential of the client the classical token names, and does not outlive that token.

**Sidecar** (`sidecar/*.go`). State: configuration, counters; per connection a tunnel and an
application socket. Operations: `Run`, `accept`, `forward`, `relay`. Hard: the order of
handshake, token, acknowledgement and data; half-closed connections. Correct when
only authorized peers reach the application and both directions end when they should.
The comment on `relay` (`sidecar.go:139`) says that it returns when either side closes; it waits for both.

**pqtunnel** (`sidecar/pqtunnel`). State: per direction two counters, the write and read flags,
the reader's buffer. Operations: handshake, `Write`, `CloseWrite`, `Read`. Hard: a network that
may reorder, drop, repeat or change frames; a sender that dies. Correct when the reader sees
a prefix of what was written and knows when it has seen all of it.

**Support**: `internal/netx` (transports), `internal/pki`, `internal/jose` (signatures),
`internal/smo` (issues bootstrap certificates), `internal/config`. **Not part of the core**: benchmarks, scenario
tests, demo xApp, key generation, manifests. **External**: Keycloak, Kubernetes, `net/http`.

## 2. Modules

| module | models | state -> code |
|---|---|---|
| `ReplayCache` | `checkDPoPBinding` step (e), `CheckAndStore`; `checkProofClaims` of the shim does the same with its own cache | `entries`, `lastSweep` = fields of `ReplayCache`; `inFlight` = goroutines between `v.now()` and the mutex, with the time they read |
| `CredentialLedger` | `Server.issue` on `/v1/enroll`, `Consume`, `OpenUsedCredentials` | `used` = the map; `recorded`, `torn` = what a reload of the file finds; `inFlight` = requests and how far they are |
| `OneTimeCredentials` | the promise: fresh, then spent, then issued, never back | refined by `CredentialLedger` |
| `Enrollment` | `Start`, `startIdentity`, `enrollLocked`, `Maintain`, `persistCredential`, `Run`'s loop, the CA as one step | `id` = `Identity`; `disk` = the directory; `op` = the call under `base.mu`; `wire` = requests the CA may still serve; `boot` = the ledger |
| `TokenBinding` | `Do`, `Token`, `issueLocked`, `upgradeToPQ`, renewals, and the pools of `net/http` | `cert` = certificates in force; `mu` = `base.mu`; `cached`; `idle`, `ex` = pooled and busy connections by the certificate they present |
| `TunnelStream` | `Conn.Write`, `CloseWrite`, `Read`, `readFrame`, one direction | `wSeq`, `rSeq`, `rEOF`, `buffer`, `wClosed` = fields of `Conn`; `wire`, `link` = the TCP stream |
| `HalfCloseStream` | the promise of one direction: in order, and an end only after everything | refined by `TunnelStream`, relied on by `Relay` |
| `Relay` | `relay` and its two goroutines on both sidecars, TCP with half-close, close and reset, the two applications | `line` = the three connections; `copier` = the four goroutines, with what they hold; `app` |
| `SidecarChannel` | `forward`, `accept`, `refuse`, the tunnel handshake, the authorization exchange, deadlines, renewals, lost networks; then `Relay` | `egress`, `ingress` = where the two handlers are; `armed` = the deadline on `pqtunnel.Conn`; `tok`, `claim`, `presented` = token sent, token read, peer certificate |
| `KeySet` | `KeySet.Key`, `refresh`, `stale`, the rate limit, concurrent requests, the publisher (the shim) and its restarts | `set`, `fetched`, `attempt` = fields of `KeySet`, times as ages; `lock` = `mu`; `req` = goroutines inside `Key` |
| `Upgrade` | one client's `Do` in post-quantum mode, Keycloak's nonce challenge, `handleUpgrade`, `issue`, `handleIntrospect`, `Authorize`, with lifetimes and three clocks | `client`, `cached`, `using` = the client; `up` = handlers of the shim; `seenC`, `seenP` = its replay caches; `kid` = its key; `known` = the key the resource holds |
| `*Proofs` | theorems about the module they extend | |
| `MC*` | model values, settings and symmetry for TLC | |

How they fit together:

* `SidecarChannel` extends `Relay`; the tunnel is a `line` there, an ordered stream with a half-close.
  That the tunnel is one is what `TunnelStream` shows by implementing `HalfCloseStream`: a "byte" of `Relay`
  stands for a record, and the orderly end of that stream for the end-of-stream record.
* `CredentialLedger` implements `OneTimeCredentials`; `Enrollment` uses that promise (its CA never issues twice).
* `TokenBinding` uses one fact of `Enrollment` (a renewal puts a new certificate in force or changes nothing).
  `SidecarChannel` uses one of `TokenBinding` (the token in a frame is bound to the certificate in force when it was fetched).
* A token request is cut in two. `TokenBinding` has many callers, the lock, connections and renewals, and no times;
  `Upgrade` has one caller, times, clocks, lost answers and the shim's restarts, and no renewals. The resource's key
  cache is `KeySet`; `Upgrade` keeps of it one known key and a refetch that succeeds infinitely often when
  it is needed and nothing is faulty, which is what `RotationHeard` says of `KeySet`.
* `ReplayCache` has the cache's window and capacity; `Upgrade` has two of them as sets of used proofs.

Choices that matter:

* *Atomic steps.* Code under a mutex with no I/O in between is one step (`CheckAndStore`).
  Consume is not: line, sync and mark are separate steps of the holder of the mutex, because
  a crash may come between them. `enrollLocked` is cut at each file it writes,
  and at the point where the identity is set before the connections are dropped. `Key` is cut at each of its lock
  sections, `handleUpgrade` after `Authorize`, after the post-quantum proof and after minting, `io.Copy` between read and write.
* *Time.* `ReplayCache` has a clock. The time from a handler's `v.now()` to the critical section
  is bounded by `MaxStall`; nothing else in the code relates the two. `Enrollment` has no
  clock: certificates of a plane expire in the order of their issue, at any moment. `KeySet` and `Upgrade` keep ages and
  remaining lifetimes that stop at the largest value a comparison can tell apart, so there is no last moment and liveness can be stated.
  In `SidecarChannel` a deadline that is set may pass at any step.
* *Failures.* Every request may fail after the server has acted. A CA call may be served after the
  client has given up on it. A crash loses all memory and keeps the files. Files replaced
  by rename are whole. Writing to the ledger may leave a fragment when `TornWrites` says so.
  A tunnel may be cut, when nothing arrives until keep-alive breaks it, or reset, when any suffix of what is under way is lost.
* *Connections.* A TLS connection presents for life the certificate of its handshake. The pool
  hands out idle ones in last-in-first-out order or lets the waiter take the first of its own
  dial and a connection that becomes idle, as `net/http` does. A refusal that is read to its end leaves the connection in the pool,
  an exchange that fails does not. Closing a TCP connection with unread data resets it.
* *Cryptography* is what it promises: a frame that was changed fails to open, a signature
  is verified or not. Names, formats and claims that no property reads are left out.

## 3. Runs

| run | instance | shows |
|---|---|---|
| `replay` | 3 proofs, 2 handlers, capacity 2, window 1, skew 2, stall 1, a restart | accepted once; remembered while acceptable; refused unseen only when full |
| `ledger` | 2 credentials, 3 handlers, 2 restarts | one certificate per credential; map within file; refines `OneTimeCredentials` |
| `ledger_torn` (violation) | fragments allowed | `IssuedOnce` fails, finding 1 |
| `enrollment` | 2 planes, 2 certificates each, 2 faults, keys kept | pairs on disk load; no undisturbed lockout; the client settles |
| `enrollment_rotating_keys` (violation) | Method B, 1 fault | `PersistedSurvivesRestart` fails, finding 2 |
| `token_binding` | PQ, 2 callers and the fetcher, 1 renewal per plane | cached token and issuing connections match the certificate; `Do` returns |
| `stale_pool` (violation) | classical only | `PoolsPresentCurrent` fails, finding 3 |
| `tunnel` | 4 bytes, records of 2, 2 faults | prefix, end marker last, half-close delivered; refines `HalfCloseStream` |
| `tunnel_eof` (violation) | 3 bytes, 1 fault | `EofIsMarker` fails, finding 4 |
| `sidecar` | 1 byte per application, 1 renewal, all configurations, every fault; 253 255 states | nothing flows before acceptance; messages and data stay apart; refusals have a cause; an orderly end means all data; set-up ends, half-closes are heard, relays return |
| `jwks` | 2 requests, TTL 2, minimum refresh 1, fetches of 1, 1 restart of the publisher; 207 480 states | the cache never goes back; withdrawn keys; spacing of fetches; requests end; a rotation is heard |
| `upgrade` | 4 settings, 2 slots, lifetimes 3 and 4, window, skews, drift, timeout and restarts 1; 1 040 340 states | a waiting upgrade is not refused; a usable token is not found expired by local validation; access ends; service recovers |

Why the bounds are enough. `replay`: a third proof is what fills a cache of two and forces a sweep,
the second handler is the one that sweeps under the first, and seven ticks hold a full window,
both skews and the ticks after. `ledger`: three handlers give a holder, a waiter and a request
for another credential; two restarts give a reload of a reloaded file. `enrollment`: the second certificate is the first renewal,
and two faults combine a lost reply with a crash; the two planes share only `op` and `phase`.
`token_binding`: two callers and a fetcher are what it takes for a connection to be busy during a
renewal, idle after it and taken by a third party. Keys, proofs, handlers and callers are
interchangeable, so symmetry is used where no liveness is checked.
`tunnel`: two full records and the end marker are the shortest stream with a middle, and two faults can undo one another.
`sidecar`: one byte per direction can be in any of the three lines and two goroutines while the ends, resets and messages
of the set-up are around it; a second renewal would only make a third certificate that nobody compares with. Its safety
properties are proved for any amount of data and any number of renewals (section 5); the bounds matter for liveness only.
`jwks`: one request fetches while the other looks, waits or is between its lookups; a TTL of two leaves a set
that is fresh, a set at the limit and a stale one, with room for a refetch in between. The safety part also holds with two
restarts (2.3 million states), too many for a routine run.
`upgrade`: the second slot is the upgrade that is still in progress when its client has given up and asked again; the settings
have the clocks apart in the direction that hurts (a client that is fast makes proofs from the future, one that is slow trusts an expired token).

Runs that switch deadlock checking off describe systems that may stop: restarts and renewals
are bounded, a client that is locked out stays so, a stream or a connection ends. In `TokenBinding` a deadlock
would be a caller that waits for ever, so it is checked.

### Fairness

* `Enrollment`: the client's goroutine and the CA keep running (`WF` on their steps). This includes Kubernetes restarting
  the container. Faults, renewals and expiry are never forced.
* `TokenBinding`: goroutines run and every exchange ends, since `http.Client.Timeout` ends it
  when the server does not. `SF` on taking `base.mu`: a Go mutex in starvation mode goes to
  the longest waiter, so a waiter is not passed over for ever. Starting calls is never forced.
* `TunnelStream`: the relay's `io.Copy` keeps reading. Nothing makes the writer write or close.
* `SidecarChannel`: `WF` on the handlers, on each copying goroutine, on deadlines that are set (Go timers fire) and on the
  applications' reads. Applications are never made to write, close or leave, nor the network to fail or recover; so `RelaysReturn`
  starts from applications that will write no more and excepts a network cut that nobody notices.
  `EgressExpires` in the token phase stands for the end of a token request: `TokenTimeout` bounds the calls it makes but not its wait for
  `base.mu` (`auth.go:45-47`), which ends because whoever holds the mutex returns (`DoReturns` of `TokenBinding`).
* `KeySet`: `SF` on the steps that take the lock (`sync.RWMutex` lets no waiter starve), `WF` on the end of a fetch
  (`http.Client.Timeout`), on returning and on time. Restarts, faults and requests are never forced.
* `Upgrade`: `WF` on client, handlers, resource and time, `SF` on the resource's refetch of the keys (above). The client goes on calling
  (an application that stops needs no access). Faults and restarts are never forced; `Recovers` starts when faults end.
* `ReplayCache`, `CredentialLedger`: safety only.

## 4. Findings

1. A failed append to the ledger can leave a fragment that hides the next credential from a restarted CA
   (`ledger.go:64`), which then accepts that credential once more.
2. "Each via rename for atomicity" holds per file. With a new key per renewal (Method B) a crash
   between the renames leaves a pair that no restart can load (`identity.go:165-178`).
3. A renewal does not drop *any* connection that presents the old certificate: one in use by
   another goroutine is pooled when it becomes idle again (`client.go:470-474`).
4. `io.EOF` from a tunnel is not always the authenticated end marker (`conn.go:171-174`, `frame.go:34`):
   a connection that ends between frames reads the same.

Observations that contradict no text, or are about values the code accepts and does not recommend:

* `SingleUse` needs a handler to stall for less than the clock skew between reading the clock and taking the cache's mutex. The configuration
  accepts `CLOCK_SKEW=0`, with which a proof can be accepted twice at the very end of its window: a run
  of `ReplayCache` with a skew of zero finds it (`validator.go:382-388`, `replay.go:33-42`).
* `Key` looks the key up and tests the set's age in two lock sections (`jwks.go:41-47`). When another request refreshes in between, the key of
  the old set is served although the new set does not list it: once, to requests already under way. `WithdrawnOnlyIfUnreachable` excludes
  exactly this case by naming the set.
* The rate limit covers unknown keys only. A set that is stale and cannot be fetched is fetched again by every request (`jwks.go:76`),
  although `jwks.go:14-15` speaks of a rate-limited refetch; `FetchesSpaced` says so with `broke`.
* `docs/Setup.md:574-576` says that after a restart of the shim tokens of the earlier instance cannot be verified; a resource that still holds the old set accepts them until it fetches again.
* `MinRefresh <= Ttl` and the inequalities of `UpgradeAssumption` are assumed, not enforced. The defaults meet them with 20 seconds to spare.
* Introspection has no skew, local validation has; so `UsableNotExpired` is about local validation. A 401 does not make the client drop its token; `Recovers`
  holds because tokens end.
* `dpop.Do` answers a resource's nonce challenge once; no resource in this repository sends one.
* A failing upgrade may have used up the classical proof's `jti` (`shim.go:210`). This is harmless because the client makes both proofs anew
  for every attempt (`WaitingNotRefused`).
* The egress is told "ok" before the application behind the ingress is dialed (`ingress.go:94-103`). When that fails the tunnel is closed without its end marker, and by finding 4
  the egress' application reads an orderly end after data that went nowhere. `EndMeansAll` excepts an unreachable application for this reason.
* A failed `Write` leaves its sequence number to the record that `CloseWrite` seals next (`conn.go:116`): one nonce for two records. The second never leaves the
  host, since a TCP connection whose write failed takes no further one and the relay sets no deadlines; `TunnelStream` builds on this and does not check it.
* `IdleTimeout` is parsed and never used: a relay whose applications keep their connections open runs for ever.

## 5. Proofs

Each `*Proofs` module proves an invariant inductive and derives the theorems from it.

| theorem | assumes | says |
|---|---|---|
| `ReplayCacheProofs!TypeCorrect` | | the cache never outgrows its capacity |
| `ReplayCacheProofs!AcceptedOnce` | `MaxStall < Skew` | `SingleUse` |
| `ReplayCacheProofs!Remembered` | `Skew > 0` | `RememberedWhileAcceptable` |
| `ReplayCacheProofs!FailsClosedOnlyWhenFull` | | the action property `RefusedOnlyWhenFull` |
| `CredentialLedgerProofs!TypeCorrect` | | well formed, and the mutex excludes |
| `CredentialLedgerProofs!SingleUseCredentials` | `TornWrites = FALSE` | `IssuedOnce` |
| `CredentialLedgerProofs!LedgerIsDurable` | `TornWrites = FALSE` | `UsedIsDurable` |
| `CredentialLedgerProofs!Implements` | `TornWrites = FALSE` | the ledger implements `OneTimeCredentials` |
| `TunnelStreamProofs!TypeCorrect` | | well formed, no record too long |
| `TunnelStreamProofs!ReadsInOrder` | | `InOrder`, for any number of faults |
| `TunnelStreamProofs!MarkerIsLast` | | `MarkerEndsStream`, for any number of faults |
| `TunnelStreamProofs!Implements` | | the tunnel implements `HalfCloseStream`, for any number of faults |
| `KeySetProofs!TypeCorrect` | | well formed; the lock is held exactly by the request that fetches |
| `KeySetProofs!KeysNeverReturn` | | the action property `NeverBack` |
| `KeySetProofs!WithdrawnKeysRefused` | | the action property `WithdrawnOnlyIfUnreachable`, for all durations |
| `KeySetProofs!FetchesApart` | | the action property `FetchesSpaced` |
| `TokenBindingProofs!TypeCorrect` | | the mutex is held exactly by the caller inside `Token` |
| `TokenBindingProofs!CachedIsBound` | | `CachedBoundToIdentity`, with and without PQ |
| `TokenBindingProofs!IssuanceIsBound` | `PQ` | `IssuanceBindsCurrent` |
| `EnrollmentProofs!TypeCorrect` | | well formed; an answer reaches only the call that asked |
| `EnrollmentProofs!NotBurned` | | `NotBurnedUndisturbed` |
| `EnrollmentProofs!PersistedSurvives` | `~RotateKeys` | `PersistedSurvivesRestart` |
| `SidecarChannelProofs!TypeCorrect` | | well formed; goroutines copy exactly where a relay was started |
| `SidecarChannelProofs!AuthorizedFirst` | | `NothingBeforeAccepted`, for any amount of data and number of renewals |
| `SidecarChannelProofs!Separated` | | `MessagesStayInTunnel`, for the same |
| `SidecarChannelProofs!RefusedForCause` | | `RefusedOnlyIfRenewed`, for the same |
| `SidecarChannelProofs!OrderlyEnd` | | `EndMeansAll`, for the same |
| `SidecarChannelProofs!WaitsAreBounded` | | every wait of the set-up has its deadline armed, and no relay has one left |
| `SidecarChannelProofs!NothingLeft` | | a sidecar closes its connections when its handler returns, on every path, and never before |
| `SidecarChannelProofs!NothingTwice` | | under every fault, an application reads at most as many bytes as the other one wrote |
| `UpgradeProofs!TypeCorrect` | | well formed, for every duration that satisfies `UpgradeAssumption` |
| `UpgradeProofs!NeverRefusedWaiting` | | `WaitingNotRefused`, for such durations and any number of upgrades in flight |
| `UpgradeProofs!PresentedInTime` | | `UsableNotExpired`, for the same |
| `UpgradeProofs!AccessIsBounded` | | the action property `AccessEnds`, for the same |

All rest on the named assumptions about constants in the modules (durations are naturals, the capacity is positive, `MinRefresh <= Ttl`), which TLC
evaluates in the runs.

* *Replay cache.* `SingleUse` says nothing of what the cache forgets. The invariant adds `Forgotten`
  (an accepted proof that is not stored has expired by the clock) and `Stalls` (a handler's reading is at most
  `MaxStall` old). A handler that meets a forgotten proof passed the window test at its own reading
  (`Windowed`), so the clock is at least `Window + 2*Skew` past `iat` and its reading at
  most `Window + Skew`: it stalled for `Skew`.
* *Ledger.* A credential is followed through `issue`: before the mark its line is in the file, after the
  mark exactly one request may sign for it, and a credential with a certificate stays in the map.
  For the refinement each step is a step of `OneTimeCredentials` or changes nothing there.
* *Tunnel.* The history `starts` ties the two ends together: a whole frame carries what was sealed
  under its nonce wherever it is on the wire (`Genuine`), and the reader has consumed exactly the records
  below `rSeq` (`Reader`). Faults only drop, copy, move or spoil frames, so every whole
  frame was sealed by the writer.
* *Key set.* `Order`: the answer under way is at least as new as the set, because the lock is held from the request to the answer, and what a
  request saw is at least what it found at its start. `Withdrawal`: a set lists a key that was current when the set was asked for, so a key
  still listed has been withdrawn for at most the set's age and the length of a fetch. `Spacing`: a set that is stale is at least `Ttl`, hence `MinRefresh`, past its
  last attempt unless that one failed.
* *Token binding.* `Holding`: who is inside `Token` holds the mutex, and renewals take it too. `Exchanges`: with the post-quantum plane the issuing transport is used
  only under the mutex, so no connection of it is busy while a renewal closes the idle ones, and each that is pooled or busy presents the certificate in force (`Classical`).
* *Enrollment.* `Undisturbed`: while nothing has failed or expired, a spent credential has its certificate on the wire, in the call or in the process. `OneKey`: with keys kept, a
  plane ever has one key with a certificate, so the file of any certificate matches the file of any key. This is what rotation breaks (finding 2).
* *Sidecar.* Five parts. For the authorization only what may be on a direction of a connection matters, not in which order, so the invariant `IInv` speaks of sets of messages.
  `TunnelSays`: an acknowledgement on the tunnel means that the ingress accepted, a frame on it carries the egress's own token, a byte on it that the egress relays.
  `EgressKnows` and `IngressKnows` carry this through the two handlers. TCP steps lose messages and add ends, whatever else they do (`Adds`), which one lemma per TCP operation shows.
  `Order`, over it, says where messages stand. `Tidy`: a message of the set-up is first on its direction, an end last, bytes between, and nothing follows a half-close or a close.
  `Positions`, `Forth` and `Back`: which message may be under way follows from where the two handlers are, so neither reads data as part of the set-up, or
  the reverse. `Refusals`: a refusal is for the configuration, or the ingress made it and had an excuse (`Excuse`) that no later step takes back.
  `Flow`, over both, holds while nothing outside the sidecars has gone wrong (`Calm`). `Even` follows a direction from application to application: what was written is what was read,
  is in a queue or is in the hand of a goroutine, and where the end has passed nothing is left behind it. `Whole`: no connection is reset, and none closed before it was read to its end.
  `DeadlineWhileWaiting` and `ClosedOnReturn` follow the handlers through every path, the failing ones included. `Accounts` is what is left of `Even` under every fault: a
  queue may lose bytes (`Fades`), so the account becomes an inequality, which still rules out that a byte is passed on twice. TLC found `Order`, `Flow` and `Accounts` true of two bytes
  per application (1 858 101 states) before they were proved.
* *Upgrade.* Two sets of inequalities. From below, what is left of a token: every leg costs at most `Timeout`, so `Waiting` (the token in an upgrade the client waits for)
  and `Carrying` (the token the client holds) bound it by its lifetime less the legs already spent, plus the part of the current leg still to come. From above, `Bounded`: nothing anywhere
  outlives `KcLifetime` less the time since Keycloak last issued, which minting keeps because the shim caps what it mints by what it was shown.
  `Answering` records what the call says while the resource works on it. The inequalities of `UpgradeAssumption` are used exactly where a leg is spent.

Every invariant and every action property of the passing runs is proved. Only liveness is model-checked alone: `Settles`, `DoReturns`, `HalfCloseArrives`,
`SetupEnds`, `HalfCloseIsHeard`, `RelaysReturn`, `RequestsEnd`, `RotationHeard`, `Recovers`. Liveness under fairness, `ENABLED`, and induction over recursive
definitions are beyond the provers used here. No module has a recursive operator.

## 6. Not modelled

* Parsing and encoding (JOSE, X.509, CSR, configuration, routes), cryptography, Keycloak's internals, logging, counters, the health listener, benchmarks,
  scenario tests, the demo xApp, offline key generation, manifests. They are pure functions over bytes, or drive the components above.
* The CA's pipeline from CSR to certificate (names, the DNS suffix rule, key types) is a pure function of one request. So is the verification of the bootstrap certificate that the SMO simulator issued.
* Order among the many reasons for which a malformed request is refused: the models keep refusals whose cause is time, replay, key, binding or configuration.
  The ingress' `peer_identity_mismatch` is one of the "other" refusals of `SidecarChannel`, possible at any time, and the test of `nbf` is left out of `Upgrade`, where `Drift <= Skew` makes it pass.
* An internal error of the CA after `Consume` is a step of `CredentialLedger`; in `Enrollment` it is one of the lost replies.
* `pqDirect` (tokens straight from an ML-DSA Keycloak) and Method B's `RotateEveryToken`.
* When `Maintain` renews (`client.go:526`): its interval comes from the classical lifetime only. The models let a renewal come at any time
  and certificates expire at any time, which covers every schedule but cannot say that a certificate in force is never expired.
* Replacing a pod empties its `emptyDir` volumes: the CA's ledger (`ledger.go:23`) and the replay caches (`validator.go:63`) start again, by design of the manifests.
* A request that a renewal overtakes between `Token()` and the send may be refused by the resource
  server (`certbound.go:143`); the model allows it and no text of the repository promises otherwise.
* Shutdown of `Run` and of the sidecar's listeners.

## 7. What could come next

A clock for `Enrollment` with the two planes' lifetimes and `Maintain`'s interval, to state that the certificate in force has not
expired while the CA answers; two clients in `Upgrade`, to state that the token minted for one is never bound to the other; several connections in
`SidecarChannel`, to model shutdown.
