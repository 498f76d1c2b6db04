# A TLA+ model of xsocks5

xsocks5 lets SOCKS5 users reach the Internet through phones. A phone (the
*device*) keeps one TLS connection to the server, with yamux on top. A SOCKS5
CONNECT that reaches the server is relayed over a new yamux stream to a device,
which dials the target. A scheduler lends devices to users for a time, heartbeats
keep it informed, and an admin service registers devices and stores what the
heartbeats say.

The modules here model that control flow, TLC checks them on small instances, and
TLAPS proves their safety properties for every instance: any number of requests,
devices, connections, calls and bytes.
`PROJECT.json` maps each definition to its source lines and lists the runs, the
mutants, the hazards and the theorems.

## Inventory

| Part (source) | State | Operations | Talks to |
|---|---|---|---|
| Scheduler (`server/scheduler/{scheduler,lease}.go`) | `byUser`, `byDev`, leases with refcounts | Pick, GetActive, AcquireRef, Acquire, HeldDeviceIDs, Sweep, handle Close | registry (online set), pool, dial path |
| Pool and selector (`pool.go`, `selector.go`) | statistics per device | Update, Snapshot, Pick | sink, scheduler |
| Username parser (`username.go`, `auth.go`) | none | ParseUsername, Valid | scheduler, SOCKS5 auth |
| Registry and ServeDevice (`server/hub/{registry,device}.go`) | session per device; last heartbeat per session | Put, Remove, CloseAll, WaitSession; register, read loop, watchdog | device client, dial path, sink |
| Start-up and shutdown (`server/main.go`) | listeners, WaitGroup | accept loop, four-step shutdown | all of the server |
| DialThroughDevice (`server/hub/dial.go`) | one stream | wait, open, connect, connect_result | registry, device client |
| SOCKS5 server (`third_party/go-socks5`) | one goroutine per connection | authenticate, rule, connect, Proxy | dial path, caches |
| Device client (`client/core`) | backoff, session, statistics | runLoop, runSession, heartbeatLoop, acceptLoop, handleConnectStream | server |
| Mobile binding (`mobile`) | runState | Register, Run, Stop, SetNetworkType | registration, device client |
| Registration client (`client/register`) | none | RegisterDevice | admin |
| Heartbeat sink, geo, NSQ publisher (`server/main.go`, `geo`, `nsqpub`) | reader pointer | OnHeartbeat, Lookup, Reload, Publish | pool, NSQ |
| Credential and IP caches (`server/hub/{credentials,whitelist}.go`, `sockssetup`) | snapshot per list | Start, Refresh, Valid, Allow | SOCKS5 server, files or URL |
| Admin (`admin/`) | device documents | register handler, NSQ consumer, UpsertDevice, UpdateDeviceNetwork, start and shutdown | Mongo, NSQ, phones |
| Configuration (`*/config`, `client/main.go`) | none after start | LoadServer, LoadAdmin, LoadClient, parseClientCfg | all |
| Logging (`common/logger`) | files | output | all |
| yamux (`third_party/yamux`) | streams, windows | library | client, server |

What is hard here, and what makes each part correct:

- **Scheduler.** `Pick` takes the mutex several times, so other Picks, the sweeper
  and closing handles run in between. The two indexes must describe the same
  leases, a device must not serve two users, a refcount must count the open
  handles, and a Pick must end.
- **Registry.** A device reconnects before its old session is noticed dead. The
  late `Remove` must not take the new session out.
- **Tunnel.** Two copy goroutines on each side, two buffered readers, timeouts and
  a session that may die at any moment: bytes must keep their order and everything
  must be cleaned up.
- **Device client.** The heartbeat goroutine outlives its session and decides with
  `acceptLoop` who ends it. The client must reconnect unless it is told to stop,
  and stop when it is told.
- **Heartbeats.** One goroutine per heartbeat, at-least-once delivery and several
  handlers: heartbeats overtake each other.
- **Caches.** Refreshes fail, files are read half-written, and the two lists change
  between the two checks of a connection. Who is listed must get in, who is not must
  not, and a cache must follow its source.
- **Registration.** Requests and answers get lost, phones give up and try again while
  the first handler is still at work, MongoDB's upsert is a find and an insert, and
  the admin is stopped or killed in between. A phone must end up with one document
  and run under the DeviceID of that document.
- **Mobile binding.** Run, Stop and SetNetworkType come from different threads and
  meet in `runState`. A Stop must end the Run it found.
- **Configuration.** A setting passes up to five layers of defaults, in seconds,
  nanoseconds or text.

## Modules

One action stands for one step between two points where another goroutine can
interfere: a method that holds a mutex throughout is one action. A definition
`X_Something` is a mutant of `X`, a plausible mistake in that code; no specification
uses it, and each checked property has one that breaks it.

**Selector** — pool and selector as pure operators. `PoolUpdate` merges a heartbeat
into an entry, `PoolSnapshot` restricts the pool to the online devices,
`SelectorPick` is filter, score and tie-break. Loss rates are integers out of
`LossScale`, scores are scaled to stay integers. The network type is left out, as
the selector never reads it.

**Scheduler** (extends Selector) — each SOCKS5 request `p` is a process with a
program counter: `OnlineSet`, `GetActive`, then either `AcquireRef` (reuse) or
`Snapshot`, `HeldDeviceIDs`, `Select`, and `Acquire` or `AcquireTaken` (one retry).
After Pick come `DialOK`/`DialError` and `CloseConn`. A `*Lease` pointer is the name
of the Pick that allocated it, so pointer comparisons such as `sl.byUser[k] != l`
are comparisons of names, and an evicted lease keeps its refcount as the Go object
does. A username's minutes become a duration with the overflow of the 64-bit product
(`Wrapped`, with `Half` for 2^63) before the clamp. `Sweep`, `Stop`, `Tick`, `DeviceChange` and `Heartbeat` are the environment.

**DeviceLease** — the promise of the lease table: a set of loans; a device is lent
while nobody else has an unexpired loan of it, a user who takes a loan gives back
the old one, and otherwise only expired loans are forgotten. Scheduler implements
it under `loans <- Loans`, the leases in `byDev`.

**DeviceHub** — the registry and, per connection, ServeDevice: accept, register
line, ack, `Put`, read loop, `Remove`, close. `Watchdog` is the heartbeat watchdog.
SOCKS5 connections of the device_id scheme resolve their device, wait for its session
and open a stream on it; what they do with the stream is in Tunnel.
Main goes through its shutdown phases: listeners closed, `CloseAll` (copy under the
lock, close after it), wait with a timeout.

**Tunnel** — one CONNECT end to end: the SOCKS5 handler with its two Proxy copies,
the stream as two sequences with a FIN each, `handleConnectStream` with its two
copies, user and target. A `bufio.Reader` that reads a line may take bytes behind
it; they stay in `srvBuf` or `devBuf`. Half-closes are modelled as the code does
them: Proxy calls CloseWrite only where the connection has it.

**DeviceClient** — runLoop and runSession, with the heartbeat goroutine of each
session in a slot of its own, so that an old one overlaps the next session. The
backoff with its jitter and the shared `HeartbeatStats` are included.

**HeartbeatFlow** (extends Selector) — what becomes of heartbeat `k`, received at
time `k`: geo lookup (load the reader, use the reader), pool, NSQ, a handler of the
admin, the document in Mongo. `ReloadSwap` and `ReloadClose` are `GeoLite2.Reload`.

**Config** — the readers and validators as pure operators. A reader yields a set: the
configuration, or nothing where the code returns an error, a missing device_id or
server_addr included. A duration in a file is
absent, a text, a bare number or junk, since that decides what the readers do with
it; `Second` is the number of nanoseconds in a second.

**Registration** (extends Config) — each call `t` of RegisterDevice has a client side
(`call`), a handler at the admin (`handler`), and acts on the collection `doc`.
`ServeHTTP` is the handler up to the upsert, which is `FindOneAndUpdate`, or
`FindsNothing` followed by `Insert` or `DuplicateKey`; any of them may succeed with
the answer lost. `Reply` is the rest of the handler and of RegisterDevice. The admin
process starts, drains, closes its store and exits; `Exit` at any other moment is a
kill, which takes the handlers along and leaves the collection. A request may reach
the admin after the phone has given up on it.

**Mobile** (extends Registration) — boot threads that register and then call Run,
desktop clients that run from a file (`RunFromFile`), and threads that call Stop or
SetNetworkType, each of which reads `runState` under the lock and acts after it.
core.Run is reduced to its attempts to connect (`LookUp`), where the app's resolver
holds it up, and to how it ends.

**Access** (extends Config) — which lists and which credential store the
configuration asks for, the two caches with their refresh loops, sources that fail
or are torn (`Truncate` to `FinishWrite`: a file being written, or a URL that answers
an empty list for a while), and the two checks of a connection. `blank` and
`nextBlank` are history: the lists whose cache, or whose fetched copy, was read while
the source was torn. A name stands for an account and for the address it comes from; a
username is empty, the account's name or a token of the scheduler scheme.

**MCScheduler**, **MCMobile**, **MCAccess** — model values and configuration files
for TLC.

**SchedulerProofs**, **HubProofs**, **TunnelProofs**, **ClientProofs**,
**FlowProofs**, **AccessProofs**, **RegistrationProofs**, **MobileProofs** — the
proofs, each module extending the one it is about; MobileProofs also extends
RegistrationProofs, whose lemmas it uses.

## Runs

| Run | Configuration | Shows |
|---|---|---|
| `leases` | 2 requests, 2 users, 2 devices, 1 heartbeat, 1 wanted country | the lease table is consistent under every interleaving and implements DeviceLease; every Pick ends; an expired lease leaves the table |
| `hub` | 2 connections, 2 devices, 1 SOCKS5 user | the registry points at the live session, also for the user; dead and silent sessions leave; a clean shutdown leaves none |
| `tunnel` | 2 bytes each way | user bytes reach the target in order; dials end; device and session loss clean up |
| `client` | 2 overlapping sessions, window 2 | no session leak, backoff, stop, end of old goroutines |
| `heartbeats` | 2 heartbeats, 2 sessions, 1 reload, 2 attempts | merges keep known values, events are settled |
| `access` | 3 names, 1 connection, 7 server files | steady clients get in, strangers do not, caches follow their sources |
| `first_boot` | 2 calls, 2 phones, 2 DeviceIDs, 2 starts of the admin, 1 Stop or SetNetworkType, 5 admin files, 5 client files | one DeviceID per fingerprint, counts, intervals through all layers, one Run at a time, Stop ends it |
| `target_speaks_first` | 2 bytes each way | violated, see below |
| `relay_ends` | 1 byte each way, fair | violated |
| `no_device_wait` | `device_wait_timeout: 0`, fair | violated |
| `client_reconnects` | 2 sessions | violated |
| `geo_reload` | 1 heartbeat, 1 reload | violated |

Every configuration sets `CHECK_DEADLOCK FALSE`: requests, connections and clocks
are bounded, so every model comes to rest.

**Bounds.** Two requests in `leases` race for one device, take it from each other
and share a user; two users and two devices give a taken and a free device. With
`MaxDuration = 1` and `MaxTime = 1` leases expire during the run and exactly at the
boundary. A second failed attempt of a Pick needs a third request, and a device that
is too stale to be picked a longer clock; no run has either. The safety properties
are proved for any number of requests and any clock, and of the liveness properties
`PickSettles` is the one that the missing retry concerns. The registry's races are between two connections of one
device; the second device makes `CloseAll` close more than one. Two bytes in the
tunnel let a reader take one with the line and leave one. Two heartbeats are the
least that can overtake each other, two slots the least that overlap, two delivery
attempts the least with a retry. `MaxFailures` stops the failure counter where the
delay has reached its maximum (`ClientAssumption`), so the bound loses nothing.
In `leases` the 19 minutes wrap to 3, above the maximum, and 9 wrap below zero
(`Half = 8`). Two calls of one phone or of two race in one upsert; with the three
reports of the first phone they have the same fingerprint, different ones or none, and
two DeviceIDs make NewDeviceID collide. The second start of the admin serves what the
first has left. The admin files hold an initial delay above the maximum with a clock
skew just large enough, a skew that is too small, a leftover key that wins over the
right one, a key that does not decode and a missing field; the client files the four
forms of a duration in both formats, and a missing field. The server files cover both precedences,
every kind of credential store and two files the server refuses.

**Fairness.** Weak fairness of goroutines: a goroutine that can go on does. Of the
sweeper and of the refresh loop: a ticker fires. Of `WaitTimeout` and the
`connect_result` timer: a timer fires. Strong fairness only in two places: `HbDone`
(a select whose `ctx.Done` is ready over and over takes it) and `Fetch` (a source
that is asked again and again answers again and again; `CacheFollowsSource` depends
on it). In Mobile, `CoreStops` is what `StopEndsRun` shows of DeviceClient, and
`LookupReturns` assumes that the phone's resolver answers sooner or later: without it
a Stop ends nothing, since the resolver is not told of the context. Nothing else is assumed of users, targets, devices, the network or the store.
The client assumes that a read on a dead session ends, which is yamux's keepalive.

## Differences between code and documentation

Each of these is a run that TLC refutes, with the finding in `PROJECT.json`.

- `target_speaks_first`: bytes of a target that speaks first, arriving in one read
  with `connect_result`, are dropped with DialThroughDevice's `bufio.Reader`.
- `no_device_wait`: with `device_wait_timeout: 0`, "(0 = no wait)" in the example
  configuration, a dial waits until a device registers, for ever if none does.
- `relay_ends`: when user and target have both closed, the server waits for the
  device's FIN and the device for the server's, until the session ends.
- `client_reconnects`: a failed heartbeat makes the client exit instead of
  reconnecting, because its own cancellation looks like the caller's.
- `geo_reload`: a reload closes the reader that a lookup has loaded.

Seen while reading, and not the subject of a run:

- AcquireRef on a lease evicted since GetActive hands out a no-op handle and Pick
  dials the old device, where the comment promises a re-pick (lease.go:89-91; the
  state `handle = Noop` of Scheduler);
- two first requests of one user that both miss in GetActive may settle on different
  devices: the second Acquire moves the user although the first lease has not expired
  (lease.go:114 against the stickiness of lease.go:12-14);
- lastSeen in the pool and last_seen_at in the store go back when heartbeats overtake
  each other (pool.go:63, mongo.go:217);
- "in-flight SOCKS streams unblock once their underlying yamux session goes away"
  (main.go:254-255) is not true of a user who stays connected and sends nothing: the
  copy from the user sits in its read, and the handler and its lease handle stay.
  `SessionLossEndsRelay` says what does end: the device's side, and the server's
  once the user writes or closes;
- the shutdown does not wait for SOCKS5 connections (server.example.yaml:32), and the
  admin logs "clean shutdown" also when Shutdown has timed out (admin/main.go:125-128);
- the loss rate is sent before the window of RTT samples is full (heartbeat.go:16-17);
- the answer of /register, saved as the client's `.json` as client.go:43 suggests, is
  read with its seconds taken for nanoseconds;
- "the same physical device gets the same DeviceID across re-registrations"
  (store.go:67-68) is not true of a phone that comes back with another strongest
  identifier, since the fingerprint is that identifier alone; `OneIDPerFingerprint`
  is about calls that report the same one;
- a Stop that comes before Run has stored its cancel is lost (mobile.go:158-162);
  `StopEndsTheRun` is about a Stop that found a Run.

## Proofs

Every invariant and every action property that a passing run checks is also a theorem
of `Spec`, for every value of the constants that satisfies the named assumptions of
the module. They are about the shape of the constants (a null value is
not an element of a set, bounds are numbers, `MinDuration <= MaxDuration`,
settings in a file are integers, a finite set of calls); TLC evaluates them in every
run.

Each proof has the same three parts: `Init` implies an inductive invariant, every
action keeps it (one lemma or one step per action, one step below it per conjunct),
and it implies the property. Every inductive invariant was checked by TLC before it
was proved.

**Scheduler.** `IInv` gives `TypeCorrect` and `IndexesAlwaysAgree`. `IndexesAgree`
is not inductive by itself. `Acquire` installs the lease named `p` under both
indexes, which keeps them consistent only if no entry points to `p` already, and a
Pick must have a parsed token and a device before it reads them. So `IInv` adds
`FreshUntilAcquire` (nothing points to a lease that is not allocated) and
`LocalsReady` (locals are set before they are read, and what they refer to is
allocated). The core is `EvictKeepsAgreement`: `evictLocked`, applied to any set of
leases, removes an entry from both indexes or from none. `Acquire` then shows that
after its two evictions no entry refers to the user or the device. On top of `IInv`:

- `HandlesFollowRequests` needs no more.
- `PicksRespectSnapshots` needs `Chosen`: from `Select` on, the device of a Pick is in
  the snapshot it took. `LeaseFieldsFixed` (a lease keeps its user, device and expiry)
  and `LocalsArePrivate` (no request changes another's locals) carry it past the steps
  of the others.
- `RefcountsAreAccurate` needs `CountsRight`, which adds that the holders of a lease
  are finitely many, so that one more or one less moves a cardinality by one. This
  holds for any set of requests, an infinite one too, since nobody holds a handle at
  first.
- `LeaseTableImplementsDeviceLease` is the refinement, by simulation: `Acquire` is
  the abstract grant (`AcquireGrants`), `Sweep` and the lazy evictions forget
  expired loans (`EvictionForgets`), and every other step leaves the loans as they
  are (`SameLoans`). `LoansAreExclusive` follows from the agreement of the indexes.

**DeviceHub.** `HubInv` gives `EntriesAlwaysHaveAnOwner`, `OpenSessionsStayReachable`
and `CleanShutdownIsClean`. Besides the properties it says that a goroutine past the
register line has a device; that a user's session was registered under the device it
asked for, and may have been replaced since, but keeps its device; and that no
connection is open before it is accepted or after its goroutine has returned. The
last fact makes a clean shutdown clean: main has seen every goroutine return. The
cases that matter are `PutStep`, where closing the replaced session leaves the new one
as the only open session of its device, and `RemoveStep`, where the identity check
protects the successor.

**Tunnel.** `TunnelInv` gives `UserBytesAlwaysInOrder`. `devBuf = <<>>` holds because
of an argument across both ends: while the device reads the connect line, nothing can
be behind it, since the server relays only after `connect_result`, which the device
writes only after it has read the line. `Handshake` states that argument as what each
end's position says of the other's and of the stream; `BytesInOrder` says that what
the target has received, followed by what is on the stream, are the first bytes that
Proxy has read, all of them while the session is up.

**DeviceClient.** `ClientInv` gives `SessionsNeverLeak`, `CountsAlwaysCoverHeartbeats` and the
action property `RegistrationAlwaysResetsBackoff`. `CountsCoverHeartbeats` is
inductive together with the types: `OneGoroutineMoves` says what a step of one
goroutine does to the heartbeats about to be sent and in flight, and
`HeartbeatKeepsCounts` weighs that against what the step does to the shared counters,
the reset by the goroutine of another session included. The backoff property needs that the failure
counter is 0 during all of a registered session, and `NextDelayIsBounded`, which says
of `reconnectBackoff.Next` that the delay is positive, at most the maximum, and at
most the initial one after a reset.

**HeartbeatFlow.** `FlowInv` adds to the types that all readers but the current one and
perhaps its predecessor are closed: Reload closes only what it has swapped out.
`KnownValuesAreAlwaysKept` rests on `UpdateKeepsEntries`, which says what
`DevicePool.Update` keeps of an entry, for any update.

**Access.** `AccessInv` gives `StrangersAlwaysStayOut` and the action property
`SteadyClientsAlwaysGetIn`. It says that what is cached, and what is fetched and not
yet stored, is the result of a successful read: it names nobody who is never listed,
and everybody who always is, unless the list is in `blank` (or `nextBlank`). A cache
that a failed refresh had emptied would not be in `blank`, so the theorem excludes it.

**Registration and Mobile.** `RegInv`, in RegistrationProofs, describes the races of
the upsert: the DeviceID a handler holds is that of a document with its phone's
fingerprint (`IDsAreBacked`), the unique index leaves one document per fingerprint
(`FingerprintsAreUnique`), IDs of phones without identifiers are not shared
(`PlainIDsAreOwn`; a fingerprint names its phone, `PrintsNamePhones`), and counts lie between the calls that were given the ID and the
calls the store has served (`CountsCover`). `WriteKeepsDocs` and `WriteCounts` treat
the two ways of writing a document; `OnlyTheStoreGivesIDs` shows that no other step
gives out an ID. `MobileInv` adds the binding's own state: only a registered thread runs,
`runState` holds the cancel and the stats of the Run in progress, and the stats a
SetNetworkType has read belong to a Run that was admitted. `DevicesFollowAdmin` goes
through the layers of configuration with `EffectiveIsSound`, `AppConfigIsKept` and
`LoadedFilesAreValidated`, lemmas about the operators of Config. The theorems are
`OneIDPerFingerprintAlways`, `CountsAreAccurate`, `DevicesRunAsRegistered`,
`DevicesFollowAdmin` and `RunStateAlwaysFollows`.

Only model-checked: the liveness properties (`PickSettles`, `ExpiredLeasesLeave`,
`DeadSessionsLeave`, `SilentDeviceIsDropped`, `DialSettles`, `DeviceCleansUp`,
`SessionLossEndsRelay`, `StopEndsRun`, `OldHeartbeatsEnd`, `HeartbeatLossEndsSession`,
`EventsAreSettled`, `CacheFollowsSource`, `StopEndsTheRun`), which need fairness and
ENABLED, beyond these provers; and the five violated properties, where TLC's
counterexample is the result.

## Not modelled

- yamux's windows, its stream close timeout and keepalive: a stream is two unbounded
  sequences, and a session may end at any time.
- Text: the splitting of a username, JSON, base64, CIDRs. A line is one message, and a
  list is what its lines mean.
- AES-CBC with its padding and key normalisation: a payload decrypts if the keys agree.
- The server's timeouts as settings (they are parameters of the modules that use
  them), log files, certificates, listeners that cannot be opened.
- BIND and UDP ASSOCIATE of go-socks5, which the rule set refuses.
- Negative timeouts.

## Plan

All modules planned so far are built, and their safety properties are proved. What is
left:

1. Theorems: the safety side of the liveness properties, such as a variant that every
   step of a Pick decreases (a Pick takes a bounded number of steps), that a dead
   session's goroutine can only move towards its Remove, and that a handler that has
   failed has sent its FIN; of Selector, that the chosen device is the best of those
   that qualify.
2. yamux stream and session as a module (states, FIN and RST, accept backlog,
   shutdown), which Tunnel's stream should refine.
3. Compositions: Scheduler with DeviceHub (the online set), DeviceHub with the bytes
   of Tunnel.
