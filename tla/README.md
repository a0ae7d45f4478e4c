# vtpm-mds: specifications, model checking and proofs

TLA+ modules for `vtpm-mds`, the per-node metadata and DevID enrollment service.
They model the parts of the service where several goroutines, the outside world
and the clock meet. TLC checks them on small instances; TLAPS proves the main
safety properties for every value of the constants.

## 1. The system

| Component | State | Operations | Talks to |
|---|---|---|---|
| DevID enrollment (`internal/devid/http.go, auth.go, enroll.go, session.go`) | session table with a TTL | `enroll/start`, `enroll/finish` | pins, inventory, CA |
| EK pins (`pin.go, clusterpin.go`) | pin files, cluster pin directory, inventory pins, `pinCreateMu` | own-pin check, cross-VM scan, exclusive creation, replacement of an empty file | files that root, the operator and the hypervisor change |
| DevID CA and TPM evidence (`ca.go, verify.go, challenge.go, csr.go, san.go`) | key and certificate on disk | verify, challenge, issue | enrollment |
| Caller binding (`server.go`) | record per connection | bind by MAC, once per connection | inventory cache |
| Inventory and its reload (`server.go, reload.go, main.go`, `internal/inventory`, `internal/proxmox`) | cache, failure mark, last fingerprint | startup load, SIGHUP, poller, shutdown | source files, health answer |
| Token store (`imds/token.go`) | map, list per peer, counter, brake | mint, validate, sweep | token handler |
| Guest throttle (`internal/server/limit.go`) | budgets per peer, `overCap` | request, token and enroll budgets, connection slots, scrubber | every HTTP request and connection |
| Metadata handlers (`imds/handlers.go`, ...) | none | format the bound record | token store |
| Health answer (`server.go`) | inventory mark, cached CA check | `GET /health` | reload, CA |
| Guest client (`client.go, renew.go, keys.go, csr.go, instanceid.go, sign.go, activate.go`, `cmd/devid-enroll`) | key blobs and certificate on disk, objects in the TPM, the agent's SVID cache | decide, enroll, renew, replace the files, restart the agent | enrollment over HTTP, TPM, SPIRE agent |
| SPIRE reconciler (`internal/reconcile`, `cmd/vtpm-mds-reconcile`) | counts of missed reads; entries and agents in SPIRE | read, list, create, delete, observe, ban; restart, `-once` | Proxmox, SPIRE |
| Bridge binder (`internal/bridgebind`, `internal/proxmox/nics.go`, `cmd/vtpm-mds-bind`) | fingerprint, wanted table, table as last seen | tick: fingerprint, read, render, list, apply, verify | guest configs, nftables |
| Configuration (`internal/config`) | none after start | load, validate | all |

What is hard here:

* **Enrollment.** Every leg is a goroutine; it reads three pin stores one file at
  a time while other legs, root, the operator and the hypervisor change them. Only
  the creation of a first-use pin is under a mutex. The service may die, and every
  store may fail, between any two steps. Correct means: one EK, one VM; no
  certificate without its pin on record; a session redeemed once, by the caller it
  was made for.
* **Reload.** Two goroutines fingerprint and load a source of several files that
  is edited meanwhile. Correct means: the inventory in use ends up being the
  source, nothing is reloaded for ever, and shutdown ends.
* **Token store and throttle.** Both read the clock before they wait for their
  lock, so locked sections use times that are past. Correct means: quotas hold,
  counters and lists agree, nobody loses what is theirs to somebody else, and what
  has expired goes.
* **Reconciler.** A pass is a sequence of calls to Proxmox and SPIRE, each of which
  may fail with a part of its batch done, while guests, agents and entries change.
  Correct means: only agents of destroyed VMs are banned, and in the end all of them;
  a VM that moves keeps an alias; the aliases end up being what the guests want.
* **Bridge binder.** Guest configs change between the reads of one check, `nft` fails
  or is killed after it took effect, and others flush the table. Correct means: a
  check that does nothing has nothing to do, a guest nobody touched keeps its rule,
  and the table ends up right.
* **Guest client.** A run writes three files and clears a cache one after the other,
  may stop at any step, and shares three TPM slots with itself and the cache with a
  running agent. Correct means: the files are never ahead of the key, a usable key is
  kept, everything loaded is flushed, and in the end a guest that the service's pins let
  in has materials that fit.
* **Health.** Requests check the CA files without the lock and store what they found
  with a time read before. Correct means: an answer reports something that was true
  within the cache's lifetime before the request, or during it.

`PROJECT.json` lists the hazards line by line and the properties that cover them.

## 2. Modules

| Module | Models | Composition |
|---|---|---|
| `Enrollment` | both legs, session table, the three pin stores, crashes, store errors, outside changes | |
| `MCEnrollment` | symmetry and the kinds of outside changes for TLC | extends `Enrollment` |
| `EnrollService` | what the service promises: a session is opened for one VM and EK, redeemed once, and answered by at most one certificate | instantiated by `Enrollment` (implements it) and by `GuestClient` (uses it) |
| `EnrollmentProofs` | proofs: pins; sessions and certificates; `Enrollment` implements `EnrollService` | extends `Enrollment`, TLAPS |
| `GuestClient`, `GuestClientProofs` | a run of `devid-enroll`, TPM, files, agent | composes the client with `EnrollService` |
| `BridgeBinder`, `BridgeBinderProofs` | the binder and the guest configs it reads | run directly; proofs extend it |
| `Health`, `HealthProofs` | `GET /health` and the CA cache | as above |
| `InventoryReload` | poller, SIGHUP, fingerprint, load, signals, shutdown | run directly |
| `InventoryReloadProofs` | proofs | extends `InventoryReload`, TLAPS |
| `TokenStore`, `TokenStoreProofs` | the token store | as above |
| `GuestLimiter`, `GuestLimiterProofs` | the guest throttle | as above |
| `MCGuestLimiter` | peers of the connections and limits for TLC | extends `GuestLimiter` |
| `Reconciler` | a pass, the ban counts, restarts, guests, agents, edits by hand | |
| `MCReconciler` | guests, pools and agents for TLC | extends `Reconciler` |
| `ReconcilerProofs` | proofs | extends `Reconciler`, TLAPS |

Each module has a section of definitions marked *Faulty variant*. They are not part
of the specification: each is the definition below it with one plausible mistake,
and substituting it must violate the property it is paired with in `PROJECT.json`.

### Enrollment

A connection is a process with a program counter; one step is one read or write of
shared state, or one locked section. `stored`, `cluster` and `cache` are the pin
files, the cluster directory and the inventory pins; `guest` is the set of VMs with
a guest config; `sess` keeps removed sessions, marked `gone`, so that properties can
speak of them. `conn` is what `connContext` bound to the connection; it outlives
requests and is not refreshed. `mode` is the configuration: YAML inventory, Proxmox, or
Proxmox with `require_cluster_pin`; it is chosen at the start and never written. `issued`
and `outside` are histories.

* `Connect` binds a connection; `HandleStart` and `HandleFinish` accept a request
  and begin `AuthenticateEnrollCaller`; `OwnCluster` and `OwnStored` are
  `enforceOwnPin`.
* `ListPins` and `CheckPin` are the scan of the store in `pinnedToAnotherVM`,
  `ListClusterPins` and `ReadClusterPin` that of the cluster directory
  (`clusterPinsMatching`), both file by file; `CheckClusterPin` takes up the matches,
  `LookForGuest` makes the two looks of `guestExists` as two steps, and
  `CheckInventory` reads the inventory pins. The same steps serve the run at authentication and
  the run under `pinCreateMu`.
* `Put` and `Take` are the session table; `Lock`, `EnsureCluster`, `EnsureStored`,
  `Create`, `Reread`, `Remove` and `Recreate` are `ensurePinBeforeIssue`; `Issue` is
  the CA.
* `StoreError` ends a leg wherever it touches a store; `Restart` is a crash.
* `ResetPin`, `WritePin`, `SetClusterPin`, `Reload`, `DestroyGuest` and
  `CreateGuest` happen outside. All but the last are recorded in `outside`, with the
  kind of the change and the pin before and after it. A property that has to make an
  exception for what others do makes it as narrow as it can: `About(ks, p)` are the VMs
  that gained or lost the pin `p` itself, or whose guest was missing once. A reload that
  changes another pin of the same two VMs excuses nothing.

The verdict on TPM evidence is a free choice: `Take` may always refuse. Requests
that are refused without touching shared state are stuttering steps. VM IDs are numbers,
as `isVMIDName` wants the names of pin files to be.

`ImplementsService` maps the state to `EnrollService`: a session is open while it is in
the table, redeemed while a leg that took it is on its way to `Issue`, closed after;
the certificates are `issued`. The guest client is checked against that promise
instead of the whole service, so what is proved there rests on the refinement here.

### InventoryReload

`main` and `poller` go through fingerprint, record, lock, load, publish. Files are
read one at a time, in any order. `last` is `poll.last`, `cache` is what the
inventory was loaded from, `failed` is the health mark. `sigChan` has room for one
signal, as in `main.go`, and a signal that does not fit is lost.

### TokenStore

A token value is drawn once; `GenerateToken` reads the clock, `generateTokenAt` is
the locked part. A list is a set of tokens; its order is `mint[t].n`, the number of
the append. `cleanupExpired` is the sweep, `ValidateToken` the check of a request.
`Newer(t)` are the tokens of the same peer that are newer than `t` by the order of appends
or by creation time; `TokenHonoured` promises `t` until a full quota of them exists, which
is what code and specification agree on (section 4).

### GuestLimiter

`StateNew` and `StateClosed` are `trackConnState`; `Receive` reads the clock and
`allow` is one of `allowRequest`, `allowToken` and `allowEnroll`, taken one after
the other; `scrubLoop` reads the clock and `scrubIdlePeers` works under the lock.
A list of timestamps is the set of the requests behind them. `limit` holds the four
limits, so that one run can check several; `From` says which peers a connection may come
from.

### Reconciler

`guests`, `entries` and `agent` are Proxmox and SPIRE; `read`, `listing` and
`agents` are what a pass has seen of them, and `misses` are the counts of
`BanTracker`. `Wanted`, `Kept`, `Doomed`, `ToCreate`, `Safe` and `Colliding` are the
pure part; two pools that differ in case only, names that are no path segment and
templates are in the instances. `Read`, `Entries`, `Write` (create, delete,
create again), `Agents`, `Observe` and `Ban` are the calls of a pass in their order;
after an error `Return` ends it. `Create` fails for an alias that is there already.
`dead` records the agents whose own VM was destroyed.

An entry's ID is its alias with one of two generations, enough to tell an entry that
was listed from one made since. Entries that are duplicates by SPIFFE ID and
selectors do not occur: SPIRE refuses them. One process runs at a time; a `-once`
run takes the daemon's place. The clusters of the targets are distinct, as `LoadConfig`
makes sure. `touched` are the aliases whose entry was ever changed by hand, those found
that way at the start included; `MoveKeepsPool` makes an exception only for a VM whose own
pool alias is one of them (`PoolTouched`).

### BridgeBinder

`conf` are the guest configs, one NIC each, with a number that tells contents apart;
`table` is the table in the kernel; `fp`, `want`, `seen` and `failing` are the fields of
`Binder`. `AddFile` and `SourceFingerprint` take the fingerprint file by file; `Glob`,
`ReadNICs`, `ReadFails` and `RenderNICs` are `GuestNICs` and `Render`; `List`, `Apply`
and `Verify` are the calls of `nft`, each of which may fail (`ListFails`, `ApplyFails`,
the second case of `Verify`). A killed `nft` may have taken effect. `Start` and `Stop`
are the process: the binder exits when its first check leaves no table.

### GuestClient

`CheckCert`, `CheckVMID`, `ReadBlobs`, `LoadBlobs` and `Decide` find out whether there is
a reason to renew; `DeriveEK` to `HashAndSign` build the signing request; `Start`,
`Activate`, `Finish` and `Receive` are the two legs; `ClearCache`, `WritePriv`,
`WritePub`, `WriteCert` and `TryRestart` put the materials in place. `loaded` is the set
of objects in the TPM. `Fail` ends a run at any step that returns an error, with the
deferred flushes of that place; `Crash` ends it anywhere. `Clone`, `Damage` and
`BecomeDue` change the guest between runs. A private blob is damaged so that the TPM takes
it for a foreign one (`Bad`) or rejects it by a code that `isForeignLoadError` does not know
(`Cut`); the latter ends every run (`LoadFails`).

The service is `EnrollService` with its first-use pins (`pins`). `Admits` is the check of a
leg: the VM is pinned to no other EK and no other VM to this one. A clone that kept its
source's EK, or a VM with a new TPM, is `TurnedAway` on every run until the operator takes
the pin away (`Unpin`); a finish that the pins overtook is denied (`Deny`). `Lose` is a
session dropped by the service for other causes, `Refused` the client's end of it.
 A key is its TPM and a number, higher than
that of any key a file has held; the order of keys is what `CertNeverNewerThanKey` is about. The agent
attests, rotates and restarts when it likes; `cleared` and the `after` of `cache` are
histories that say who wrote the cache when.

### Health

`Copy`, `ReadClock`, `LookUp`, `OpenCert`, `OpenKey`, `Store` and `Answer` are one
request, a step per locked section or file. `up` and `down` record when each CA file was
last readable and last not; `fine` and `faulty` whether the inventory was so during the
request. `vmCount` and `lastReload` go with `inventoryLoaded` and are left out.

## 3. Runs

Deadlock is checked except in `InventoryReload`, where the process may exit.

| Run | Instance | Shows |
|---|---|---|
| `enroll` | both backends, 2 VMs, 2 EKs, 2 connections, 2 sessions; YAML: a VM given a pin by a reload, or its pin file reset or emptied; Proxmox: a guest config that goes and comes back | `PinsUnique`, `CertsBacked`, `SoleOwner` |
| `enroll_live` | 1 VM, 1 EK, 2 connections, `require_cluster_pin` off or on, pins reset, given, changed, or put into the store by hand, fairness | `RequireHonoured`, `RequestsAnswered`, `ImplementsService` |
| `enroll_pin_race` | YAML, 1 EK, one inventory pin added | **violates** `NothingToMakeAtomic` |
| `token_store` | 2 peers, 4 tokens, quota 2, capacity 3, fairness | `Accounting`, `WithinQuota`, `TokenHonoured`, `RefusalCostsNothing`, `ExpiredLeave` |
| `reload` | 2 files, 2 edits, 3 signals, fairness | `SettledIsFresh`, `EventuallyFresh`, `EventuallyQuiet`, `ShutdownReturns` |
| `reload_revert` | a file may get its old content back | **violates** `EventuallyFresh` |
| `limiter` | 2 peers, 2 connections, 2 requests; limits under which each budget and the connection cap bind; window 2, fairness | `WithinBudget`, `RefusalsJustified`, `SlotsAreConns`, `OneLinePerWindow`, `IdleForgotten` |
| `reconcile` | 2 clusters, 2 VMs, 1 agent, 2 guest changes, 1 failure or intervention, fairness | `BannedIsDead`, `MoveKeepsPool`, `EventuallyInLine`, `DestroyedBanned` |
| `binder` | 2 guests, 2 edits, 2 failures, stops or changes of the table, fairness | `QuietIsBound`, `UntouchedStaysBound`, `EventuallyBound`, `EventuallyQuiet` |
| `binder_restore` | as above, 1 edit | **violates** `TableRestored` |
| `guest` | 2 VM IDs, 2 TPMs, 6 sessions, 2 failures or crashes, 1 change of the guest, fairness | `CertNeverNewerThanKey`, `CertWasGranted`, `SlotsKept`, `StaleCacheIsAgentsOwn`, `KeyKept`, `EventuallyFit` |
| `health` | 2 requests, a TTL of 2 in 3 ticks, 1 change of a CA file, 2 loads | `OkIsTrue`, `DegradedIsTrue` |

The type invariants, and three plainer facts (`OneFinishPerSession`, `BrakeMeansFull`,
`NeverRunsWithoutTable`), are proved in section 5 and not run again here.

**Bounds.** Two VMs and two connections are the smallest instance of every race
between legs: the code treats all other VMs alike, and a race of three legs for one
EK contains one of two. Two EKs tell a wrong EK from the right one; two sessions let
a leg present a session that is not its own. `MaxOutside = 1` lets one change happen
outside, at any moment and any number of times, of a kind that `OutsideKinds` allows for the
backend. With two VMs it always touches the only
pair there is, so the pair properties look at what the change was about: a change of one
EK leaves the other EK under scrutiny, and `SoleOwner` still has to hold for legs whose
connection keeps the record from before a reload. The case they do not decide, a guest
config that is missing while it moves between nodes, is listed in section 6. Two files
and two edits let a fingerprint or a load see a torn source; three signals fill the channel and lose
one. Four tokens with a quota of two and a capacity of three go through pruning,
eviction and the brake; a lifetime of one tick and two ticks of clock let a mint wait
past the expiry of others. A window of two ticks in three lets a timestamp be in the
window of one locked step and out of another's. In the limiter the second
connection is of the first one's peer or of another, so two requests of one peer wait at
the same time and a refusal could come from the wrong peer; the three limits make the
token and enroll budgets, the connection cap and the request budget bind in turn.
`Session`, `Token` and `Req` bound histories only; the code has no such bounds. In the reconciler two changes let a guest come and
go, or move twice, within a pass; a second cluster shares the pass's listings and the
counts; the second VM collides with the first's pool and has an edited entry. One
failure, crash or edit can fall anywhere, which is what the code has to survive: it
keeps nothing but counts between passes. In the binder two guests tell a touched one
from an untouched one; two edits let a file change between fingerprint and read and
again after; two incidents let `nft` fail twice in a row, or fail and then find the
table flushed. In the guest client six sessions are enough
for every run that two failures and one change can cost (a lost session that was redeemed
may later be pinned and turn one more finish away, so each failure costs at most two) and
for the last one, so `EventuallyFit` is not an artefact of running out; the guest begins as
one VM with one TPM, which are as good as any; two failures let a crash meet the leftovers
of a failed run.
In the health answer a TTL of two lets an answer be used one tick later and expire after
two; one change of one file is what an old finding stored late can get wrong.

**Fairness.** Weak fairness of goroutines that can run, of tickers and of the clock:
the Go scheduler and runtime timers. Strong fairness of `Lock` where a mutex is held
across steps: `sync.Mutex` hands over to a starved waiter and `sync.RWMutex` does not
starve a writer. Strong fairness of `StopTicking`: `select` picks among ready cases
at random. For the reconciler: the daemon is started again when it ended (systemd after
a failure, an operator after a stop), its ticker ticks and calls return, with an error at
most as often as the run's bound. Of the limiter only its scrubber and the clock are
assumed to go on. The same holds for the binder and its ticker, and for
the guest client: its timer runs it again, a run goes on, and the service answers a finish,
with a certificate or a refusal. That the operator ever frees a pin is not assumed:
`EventuallyFit` is about a guest that the pins let in for good, with a private blob the TPM
does not reject as damaged. Nothing is assumed of editors, signals, requests, expiry, crashes, outside changes or the SPIRE
agent in the guest.

## 4. What the violations mean

* `enroll_pin_race`: `Finish` skips `pinCreateMu` for a caller with an inventory
  pin. A first-use leg of one VM is between its scan and its file while the reload
  gives another VM the same EK; each misses the other's pin and both get
  certificates. The comment in `enroll.go` says there is nothing to make atomic.
* `reload_revert`: a content that comes and goes between fingerprint and load leaves
  its trace: the service keeps the passing inventory, or the failure mark, while
  every check finds the recorded fingerprint unchanged. `SettledIsFresh` and
  `EventuallyFresh` hold when contents do not come back (`Reverts = FALSE`).

* `binder_restore`: what the listing after an apply shows is remembered as the binder's own
  table (`binder.go:147`), and a listing that fails as a missing one. A table that somebody
  changes between the two calls, or flushes after the listing failed, looks right to every
  later check and stays as it is until a config changes. The comment on `Tick` and
  `vm-inventory/spec.md:814-817` promise that it is restored. `Misled` names that state;
  `QuietIsBound` and `EventuallyBound` leave it out and hold for the rest.

Disagreements met while modelling that no run reports:

* A SIGTERM is dropped when `sigChan`, with room for one signal, already holds a SIGHUP
  (`main.go:73`); `operability/spec.md:67` has a SIGTERM end the service.
  `ShutdownReturns` therefore starts from a SIGTERM the channel has taken.
* A pass that fails between a good read and `Observe` does not reset the count
  (`reconcile/run.go:57`), so the two misses behind a ban may have a good read with the
  VM between them, unlike `spire-reconciler/spec.md:194` and the comments in `diff.go`. It
  takes a VM ID that is used again in between; the agent that is banned is still one
  whose own VM is gone (`BannedIsDead`).
* `instance-metadata/spec.md:972` and `token.go:43` and `141` have a full peer lose its oldest
  token by creation time. The list is in the order of the lock and the time is read before
  it, so after an overtaking the token at the head may be the younger one. `TokenHonoured`
  holds under either reading: a token is safe while fewer than a full quota are newer by
  one or the other.
* The branch for an empty pin file removes whatever has that name by then (`pin.go:271`). A
  pin that an operator puts there after the re-read is deleted and replaced, while
  `devid-enrollment/spec.md:716` says that finish does not rewrite an existing pin. `Remove`
  is that step; no property is claimed about it. Other legs cannot do this: they wait for
  `pinCreateMu`.
* As in the reload, a config that comes and goes between the binder's fingerprint and its
  read leaves its trace; the runs and the theorems assume `Reverts = FALSE`.
* The agent may rotate its SVID, or start, between the clearing of the cache and the
  restart, and a crash after the certificate was written skips the restart. Either leaves
  the old identity in use until the agent is restarted
  (`devid-enrollment/spec.md:981-985`). `StaleCacheIsAgentsOwn` says that nothing else
  does.

Token store and throttle both read the clock before their lock. A late request may be
counted in a window that a newer step has already pruned, so `WithinBudget` looks back from
the present, and the requests that `RefusalsJustified` counts may be later than the one
refused: what it promises is that none of them was a window or more older.

## 5. Proofs

All theorems hold for every value of the constants that satisfies the modules'
assumptions: sentinel values are not ordinary ones, sets of tokens, requests and
connections are finite, quotas are numbers. No bound of the runs is used.

* **`PinsUniqueAlways`** (`Spec => []PinsUnique`). `PinsUnique` alone is not
  inductive: a leg about to create a file must know that nobody else has its EK. The
  invariant adds that the leg inside `ensurePinBeforeIssue` holds the mutex
  (`MutexInv`), that legs and sessions have their VM and EK (`LegBound`,
  `FinishBound`, `SessBound`), that a missing guest config is on record (`GoneInv`),
  and that what the holder of the mutex has scanned is clear of its EK (`ScanInv`:
  all but the files still to read, and all of them once it may create). A file read
  early stays clear because only the holder creates files. "Clear" is up to the narrow
  exception (`Exempt`): a VM into or over whose file this very EK was written by hand, or
  that was without a guest config. `TypeCorrect` rests on the same facts.
* **`SettledIsFreshAlways`** (assuming `~Reverts`). The invariant says that nothing
  read is newer than the file (`NotNewer`), and that when the recorded fingerprint is
  the source's, either a load that will see the source is still to come or the
  inventory is fresh and no load is under way (`Covered`). An edit makes the
  fingerprint differ for good; this is where contents that come back break the
  argument. `ReloadTypeCorrect` is separate.
* **`AccountingAlways`, `QuotaAlways`, `TokenTypeCorrect`, `BrakeAlways`,
  `RefusalCostsNothingAlways`.** The invariant is their conjunction with the facts
  that a waiting mint knows its peer and that append numbers are distinct
  (`Numbered`). The quota rests on `EvictBound`: a list within the quota loses its
  first member when it is full, because distinct numbers have a least one. The
  counter follows because what is removed is a part of the map, and lists of two
  peers are disjoint. A refusal costs nothing because at the capacity the part that
  was removed must have been empty.
* **`TokenHonouredAlways`.** The invariant is that of the store with one more fact,
  that the time a mint was given is never in the future (`ReadInPast`). A token then
  leaves the map only because it has expired by the clock, not just by a late
  mint's, or because its own peer's quota makes room (`KeptHonoured`, `MintHonours`;
  `LaterSame` and `LaterGrows` count the peer's later appends, which nothing takes back). The
  proof is about the order of appends (`AppendedHonoured`); the theorem also counts tokens
  that are newer by creation time, so it promises no more.
* **`WithinBudgetAlways`, `SlotsAlways`, `LimiterTypeCorrect`.** The invariant
  (`ListInv`) says that a list holds every counted request of the present window and
  no more than the limit. Times that lists are pruned with are never in the future
  (`ReqInv`, `ScrubInv`), so what they drop is out of the window by now. Slots follow
  from `ConnInv`: `overCap` holds exactly the connections turned away.
* **`RefusalsJustifiedAlways`, `OneLinePerWindowAlways`.** A list holds only requests that
  were counted against that peer and budget, and a request is not counted against the
  budget it is about to ask for (`OnceInv`). The full list behind a refusal is therefore
  made of other requests of the same peer that were counted before
  (`CountedGrows`). For the log lines, `LineInv` says that the scrubber
  forgets a line only when it is a window old by the clock, which goes forward (`ClockStep`).
* **`RequireAlways`.** With the requirement on, `ensurePinBeforeIssue` ends
  at the cluster pin, so no leg is ever at a step that leads to a store file
  (`NoFirstUse`).
* **`CertsBackedAlways`, `SoleOwnerAlways`.** What a leg read may be stale when the CA
  signs, so the invariant (`Backed`) says what it may still rely on while nobody outside
  changes the pins of its VM: the record bound to its connection is the one in the cache
  and decides which EK it presents; under the mutex, past the cluster pin, the store file
  is the only pin there is; the session it holds is for its VM; and at `issue` its EK is
  the pin of record. That stays so because the service replaces no pin of a VM whose file
  nobody else wrote to (`RemoveInv`, `NotReplaced`) and other changes are on record
  (`RecordKept`). For `SoleOwner`, the scan of every leg has found no inventory or cluster pin for its EK at a VM where this EK was neither given
  out nor taken away (`Finds`, `Owns`, `Still`); what it drops for want of a guest config is a
  VM that was gone. Two owners would then both have the EK in their store files, against `PinsUnique`.
* **`LegsGoForward`.** The part of `RequestsAnswered` that needs no fairness: each step of
  a leg answers, goes on to a later stage, or leaves fewer names to look at, whatever
  the other legs and the outside do between its steps. `SuspectInv` is needed for the
  second look at a guest, after which its name must really leave the list. With finitely
  many VMs a leg therefore ends after finitely many steps of its own; that it gets to
  take them is the fairness TLC assumes.
* **`Implements`** (`Spec => ImplementsService`), **`OneFinish`.** The
  invariant `RInv` adds to that of `PinsUniqueAlways` that a leg that has redeemed a
  session is alone with it and no certificate for it is out (`HoldInv`), that the session of
  a certificate has left the table and was for its VM and EK (`CertInv`), and that an
  unused session is as it was drawn (`DrawnInv`). Each action is then an `Open`,
  `Redeem`, `Grant` or `Drop` of `EnrollService`, or changes nothing it can see; a
  `Take` that is refused drops its session, and the purge is only housekeeping since an
  expired session counts as closed.
* **`QuietMeansBound`, `UntouchedKeepRule`** (assuming `~Reverts`), **`RunsWithTable`,
  `BinderTypeCorrect`.** Without reverts files only get newer (`History`), so a fingerprint
  that still fits was taken of the files that were read after it (`ReadFits`), what is wanted
  then is what they say (`WantFits`), and what was seen is what was wanted unless something
  is still to be applied (`SeenFits`). An untouched guest has its rule in everything read,
  wanted or applied (`RuleInv`).
* **The guest client.** `TypeInv` adds to the types what a run has by where it is: a key of
  this TPM, and a session opened for this VM and this TPM, whatever the pins do to it. `SlotsAreKept` bounds what may
  be loaded at each place (`LoadedInv`).
  `CertNeverAhead` rests on `OrderInv`: keys are numbered in the order of creation, the
  key of a run is at least as new as what is in the files, and is in the blobs once they
  are written. `UsableKeyIsKept` rests on `KeepInv`: once a run has tried to load the blobs,
  its key is theirs if they load. `CertIsGranted` rests on `GrantInv`: past the answer the
  run's session was granted. `StaleCacheIsLate` rests on `CacheInv`: sessions are opened in
  order, and the cache was last cleared for a session between the certificate's and the run's.
* **`OkIsTrueAlways`, `DegradedIsTrueAlways`, `HealthTypeCorrect`.** What a request copied of
  the loads was so during the request (`LoadInv`, `RequestInv`, `CopyInv`). A finding about
  the CA files is no older than the time it is stored with, because that time is read before
  the files (`ClockAt`, `FindingAt`), and stays true however late it is stored
  (`CachedInv`); a hit is then less than a TTL older than the request.
* **`BannedIsDeadAlways`, `ReconcilerTypeCorrect`.** A ban rests on a listing of
  agents that is newer than the read, so one miss proves nothing. The invariant says
  that counted and listed agents have attested (`AgentInv`, `ListedInv`), that an
  attested agent's VM is there unless the agent is dead (`AgentInv`), and that an agent
  counted before this pass whose VM the read misses is dead (`ReadInv`): it had
  attested by the time of the read. `BanInv` carries that to the calls of `Ban`.
* **`MoveKeepsPoolAlways`.** The listing is taken once per pass and grows old while the
  clusters are written. The invariant `EInv` says that there is one entry for an alias and
  that only a hand changes fields (`EntriesInv`), that what the listing says of a cluster
  still to be written is there but for edits by hand (`ListingInv`), and that before the
  delete everything that could be created first has been (`SafeInv`). A delete never takes
  an alias that is wanted (`DeleteLeavesWanted`). The proof needs the clusters of the
  configuration to be distinct, which `LoadConfig` sees to, or the listing would be used
  twice for one of them.

Every invariant and every action property of the passing runs is proved. Only model-checked are
the liveness properties (`RequestsAnswered`, `ExpiredLeave`, `EventuallyFresh`,
`EventuallyQuiet`, `ShutdownReturns`, `IdleForgotten`, `EventuallyInLine`,
`DestroyedBanned`, `EventuallyBound`, `EventuallyFit`): fairness and `ENABLED` are out of
the prover's reach.

## 6. Not modelled, and why

* Signatures, TPM structures, X.509 and SPIFFE names, JSON and YAML parsing:
  cryptography and formatting. Their verdicts are free choices.
* The move of a guest config between nodes, during which it is missing for a moment: a
  guest that was ever missing is the exception `PinsUnique` and `SoleOwner` make.
* ARP lookup and duplicate MACs: a caller is bound to a VM of the inventory or not.
* The handlers other than token creation: they format the bound record.
* A `-once` run of the reconciler beside a running daemon, and the pages of a SPIRE
  listing.
* In the guest client: the sync of the directory and the temporary file that
  `writeFileAtomic` may leave behind; the retry of `certifyWithRetry` (`isTPMRetry` looks
  for a pointer to a warning while the package returns values, `keys.go:210`, so one
  attempt is what runs). A certificate has a serial number of its own, so `pemChanged` is
  always true.
* In the binder: guests with several NICs, and the copy of the script `writeScript` keeps.
* The detail of the health answer that only unbound callers get.

## 7. Plan

Done: `Enrollment` with `EnrollService`, `InventoryReload`, `TokenStore`, `GuestLimiter`,
`Reconciler`, `BridgeBinder`, `GuestClient` and `Health`, with their runs and theorems.
Left:

1. Theorems like `LegsGoForward` for the other loops: the part of their liveness
   properties that needs no fairness.
2. `GuestLookup`: the two looks of `guestExists` against a migration that moves a config
   between nodes.
3. A token set with a quota as an abstract specification of `TokenStore`.
4. `EnrollService` with a promise about pins: the guest client now keeps them beside it,
   and the refinement does not speak of them.
5. The reconciler's rule of two consecutive misses, and the eviction order of tokens,
   stated as the specification has them.
