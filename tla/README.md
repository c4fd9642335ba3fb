# Baidi in TLA+

Baidi is a zero-trust access product: a control plane (`src/control`, Go, SQLite),
a data-plane gateway (`src/gateway`, Go), client engines and apps
(`src/gateway/internal/dataplane`, `src/clients`) and a console (`src/console`).
Its core promise: the gateway is invisible to everyone who has not knocked with a
valid token, and a user whom the control plane bars is cut off, window, tunnels
and all, and stays cut off. The specifications here are about that promise first,
then about the state the control plane keeps behind it.

Contents: [inventory](#inventory), [modules](#the-modules), [runs](#the-runs),
[bounds](#bounds), [fairness](#fairness), [proofs](#what-is-proved),
[disagreements](#where-the-code-and-its-comments-disagree), [not
modelled](#what-is-not-modelled), [plan](#plan).

## Inventory

How the parts interact:

    administrator --HTTP--> control plane <--HTTP poll (15 s)-- gateway <--UDP knock-- client
                            ban table, SQLite                   allow list,  <--TCP tunnel--
                                ^                               tunnel table,
                                +------ HTTP: log-in, knock-token, posture ----------- client
                                                                kernel rules

| Part | State | Operations | What is hard | What makes it correct |
|---|---|---|---|---|
| SPA allow list (`spa.go`) | windows by address, bans by user, under one mutex | Allow, Allowed, DenyUser, UserDenied, RevokeUser, Reap | knocks race bans; several spellings of one account; deadlines out of order | no window of a banned user; a ban is never shortened |
| Tunnel proxy (`proxy.go`) | table of tunnels by user, one goroutine per connection, a semaphore | accept, handle, track, untrack, KillUser | the gap between a look at the window and the table; closing outside the lock; a shared address | no tunnel of a banned user survives the ban's disposal; every tunnel can be killed |
| Poller (`cmd/baidi-gateway`, `cplane.go`) | what was applied, per account | register, pull, applyRevoked | failed pulls, restarts, a clock that is ahead | every ban of the last reply is in force between polls |
| Knock envelope and cache (`knock.go`, `jwt.go`) | nonces and jtis with an end | Seal, Open, Seen, Verify | UDP repeats and delays; seconds against nanoseconds; restarts | a token with a jti, and an envelope, open one window |
| Kernel set (`darkfw`) | a set of addresses in the kernel, which outlives the process | AllowIP, DenyIP, Flush | written by three goroutines outside the mutex | an admitted address has a window; its rule goes with it |
| Resource registry | map from resource to backend | Replace, Lookup, Authorize | replaced while handlers read it | a handler uses an entry of one policy, and one the identity may use |
| Certificates (`gmcert.go`) | six files in a directory, a lock file | EnsureGateway | the process ends between two renames; two processes start | a gateway serves leaves its CA file verifies; start-up can always go on |
| Client engine (`dataplane.go`, `baidimobile.go`) | one-shot refusal channel, TUN device, one goroutine per copy of a flow | Run, knock, tunnel, Stop | refusal before the loop, Stop against refusal; ends that go one after the other | a refused client stops, with the reason; no end that goes leaves the others behind |
| Ban table and policy reply (`api.go`, `monitor_objects.go`) | bans by user in memory | kick, set status, policy | two sources of bans with different deadlines; database and memory written apart; restarts lose the table | a user with a reason against it is in every reply; no ban without a reason |
| Knock tokens | none | three gates, then a signature | gates are read one after the other | a barred user gets no token |
| Posture (`posture.go`, `posture_sqlite.go`) | one report per device | report, delete, verdict | count and insert apart; transition judged by two reads | the worst device decides; the cap holds; transitions are on record |
| Risk engine, baselines | rows of rules; none (pure) | save, delete; Evaluate | results left out, overlap of rules, thresholds | silence never helps a client; one more rule never lets more through |
| Object library, IPsec sites, resources | rows that refer to each other by name | save, toggle, delete | existence checked outside the transaction that writes | no row refers to a missing object |
| Approvals, policy tree | rows with a JSON timeline | decide, override | read, change, write back | a decision stands |
| Sessions and heartbeats | sessions by gateway, kicked overlay | register, online, kick | reports are lost, late, out of order and replace each other; the overlay is never cleared | whoever is shown had a window a while ago; whoever has had one for a while is shown |
| Desktop and mobile apps | polling state | connect, disconnect, poll | late answers | the state shown belongs to the current connection |
| Users, log-in, credentials, set-up of the database | rows of users, none unique by account; a start of many statements | log-in at two doors, create, reset, change, status; tables, columns, seeds, backfills | a start cut off anywhere; a second row of an account; a change of password against a reset | never serves half a start; tokens agree with the directory; a reset stands |
| Authentication policies, audit, views, console, deployment | rows and pages | single-row reads and writes | little: one request, one statement | - |

## The modules

### `Allowlist`, `Gateway`, `ForcedOffline`: forced offline in the data plane

`Allowlist` is the data type of `spa.go`: `m` (the windows), `deny` (the bans) and one
operator per method that changes them. `NormUser` is the normalisation of accounts,
any function: the model uses only that two spellings may be one user. Deadlines are
absolute and compared as in Go: a window counts at its deadline (`!After(until)`),
a ban does not (`Before(until)`).

`Gateway` extends it with the goroutines that use it. One action is one critical
section, since everything between two of them can interleave:

| Action | Code |
|---|---|
| `Knock`, `ReapWindows` | `spa.Serve` up to `Allow`; the reaper |
| `Admit`, `Track`, `Recheck` / `RecheckFails`, `Establish`, `Leave`, `Untrack` | `proxy.handle` with its two looks at the window; `pc[c]` is where the handler is |
| `PullPolicy`, `ServeBlind` | the first pull, which may fail, and every later one |
| `SkipApplied`, `ApplyDeny`, `ApplyRevoke`, `ApplyKill`, `CloseTaken`, `KillDone`, `ApplyDone` | `applyRevoked`, account by account; KillUser empties the table under its lock and closes the sockets after it |
| `Ban`, `Lift` | the control plane as environment |
| `Crash`, `Tick` | the process dies and starts again; time |

`ForcedOffline` is what this is for, without windows, tables or polls: users are online or
not, a ban is published, and from the moment it is enforced until it runs out the
user is offline and cannot come back. `Gateway` implements it (`ImplementsForcedOffline`)
under the refinement mapping at its end: a user is online with a window or an
established tunnel, and a ban is enforced when the poller has nothing left to do for it.

### `BanPipeline`: a ban from its reason to the gateway

The control plane's two kinds of bans (timed ones in memory, lasting reasons in the
database that every reply turns into a rolling deadline), the requests that write
them, the three reads behind a reply, and the gateway reduced to its windows, bans
and `applied`. Deadlines are kept as the time left, which makes the state space
finite without a bound on the clock: an entry whose time is over is ignored by all
its readers, the same as an absent one. A poll starts and ends between two ticks;
its steps interleave with everything else. Knocks use session tokens, which outlive
every ban (8 h against 5 min), so a user may knock whenever its ban is over.

### `KnockReplay`: one knock, one window

Envelopes in a network that keeps everything ever sent, the SPA loop's checks in
their order (time stamp, nonce, token, jti), the cache with its lazy cleaning and a
restart that empties it. The clock runs in half seconds, because the checks on
stamps and expiries use whole seconds and the cache does not. A jti is remembered to the end of its
token, for ten minutes at the most (`TooLong`, `DedupUntil`). The control plane issues tokens for 90 s by its own
clock, so the cap bites where that clock is more than about eight minutes ahead of the gateway's: such a token
is good for longer than its jti is remembered (`Outlives`), opens a second window, and
`OneTimeTokenOnce` excepts it by name (`capped`).

### `DarkFirewall`: the kernel's set beside the allow list

The SPA loop adds an address after Allow has left its critical section; the reaper
and the poller take entries off, look at the address again and delete it with a
command of its own. `opening`, `batch` and `cur` are where each goroutine is. Commands
may fail; the one that takes everything out at a start, too, since main.go:136 drops its error
(`Start`). Each command is taken to be short beside a tick of the clock (an `nft` or `pfctl`
against a window of 30 s, the default of `-ttl`): the clock waits for a rule that is being added.
There are three ways to a rule that no entry stands behind (`stray`): a ban between the
window and its rule, a deletion that fails, and the rules of an earlier run after a flush that failed.
`RuleIsBacked` and `ExpiredRulesGo` say that there is no fourth, and each of the three lasts until the next
knock from the address. Nothing empties the set when a gateway ends (`Stop`), although pf.go:79 says so.

### `PostureGate`: device reports and the gate in front of knock tokens

One user, its devices' last reports (verdict and age), and the handlers that use them,
statement by statement. `posts` holds the reports under way: `Judge` (the verdict of the
risk engine is an input, any of two, the look-up decides whether the device is counted), `Count`,
`ReadPrev`, `SaveReport`, `ReadNow`. `askPc` is where a request for a token is: ban table,
account, worst verdict, in strict mode the latest report, then the answer. The writes of
other handlers (kicks, status, `DeleteReport`) fall anywhere in between, and reads may fail:
the reports let a device pass uncounted then, the gate answers with an error. `stood` and
`met` record which reasons to refuse held all through a request, and at some time
during it: a token needs the first to be empty, a refusal the second not to be, which is
all that can be asked of gates that are read one after the other.

### `ObjectLibrary`: references without foreign keys

Address and service objects, the sites and resources that refer to them, and the status of
a site's tunnel. A save validates its references one by one and writes afterwards
(`Validate`, `WriteSite`, `WriteResource`); `DeleteObject` is one step, because the code holds the write lock from the
start of the transaction (`_txlock=immediate`); `ToggleIpsecSite` is a read and a write.
The save's look-ups are outside every transaction, so a deletion can fall between them
and the write: `lost` and `excused` mark exactly these references, and `DanglesOnlyByRace`
says that nothing else leaves one dangling. The comment at objects_usage.go:57-58 says that the
immediate transaction rules the race out; it does so for the deletion, not for the save (see the disagreements).

### `GmCert`: the certificate directory of the national-cipher tunnel

The CA and the two leaves are six files; a start goes through the three pairs under the directory's lock,
one file at a time (`Stat`, `Reuse` or `Reject`, `DropCert`, `DropKey`, `PutCert`, `PutKey`, for a leaf `ReadBack`).
`ca[p]` is what the process signs with, `served[p]` what it answers with, `pool[c]` what a client verifies by.
`Interrupt` (a process dies, or a write fails), `SpoilCert`, `SpoilKey` and a removal whose error is dropped are the
faults. `Age` brings a certificate to its end (a CA past its last day, a leaf within 30 days of its own: what a start rejects),
whether it is on disk or only in the memory of a process that answers with it (`Held`), and `Expire` takes a leaf past its last day while it is served.
Leaves are ensured at a start and never again, so `Verifies`, the client's chain check, may fail for a gateway that runs on; `outlived` marks those. Keys are drawn in sequence, so that a foreign key is told from the right one.

`loadCA` does not hold the CA's certificate against its key (`Loads`). Two faults (a lone key, then a start that ends between the two
renames) leave a CA whose files do not belong together; every later start loads it and, once a leaf has to be
signed, fails, until someone deletes the files. `TakenPairMatches` says that one fault is not enough, and `Heals`
that nothing else needs an administrator.

### `Directory`: users, log-in, passwords, and the start of the database

`users` is the table in the order of insertion, `boot` where a start is: `Open`, `CreateTables` or `AddColumn`,
`CountUsers`, `SeedUser` one by one, `SeedAdmin`, `FillRole` row by row, `FillHashes`, `EnsureAdmin`; `Crash` ends it
anywhere, and the seeds left out by then stay out for good (the table is not empty any more), but for the
administrator, which `EnsureAdmin` puts back. Log-in at either door is one step, at its only read. A change of
password is two, `BeginChange` and `WriteChange`, and `reset` remembers what an administrator set in between.

Nothing keeps a second row of an account out. The module shows what holds all the same: the first row decides, for good.
The second row's password never works, although the comment at api.go:350 gives a new user one so that it can log in ("保证新用户可登录"), its
status bars the account in the data plane (`handleGatewayPolicy` reads every row), and not at log-in. And no request
keeps the last administrator from being disabled: then nobody logs in at the console any more, which is why the run does not check for deadlock.

### `RiskEngine`: how a report is judged

`Evaluate` of `risk.go` as a function: the last result for a key counts, the baselines that apply are added up one after the
other (`Add`, `Sums`), the score is capped and the level follows. `Valid` is what an administrator may save. `SilenceNeverHelps` compares
verdicts on all pairs of reports and baselines; it is evaluated with the run of `PostureGate`, which
goes on with what a verdict does.

### `ClientEngine`, `TunnelPath`, `ClientTunnel`: the client, a flow and its handler

`ClientEngine` is `dataplane.Run` as the desktop program and the mobile binding share it: the first knock before anything
else runs (`FirstRefused`, `FirstSent`, `NoFirstKnock`), the keep-alive goroutine (`KeepTick`, `KeepRefused`, `KeepSent`, `KeepStops`), the reader of the
device (`ReadFails`), the two branches of the select (`TakeInbound`, `TakeDeny` and `Drained`), and `Stop` at any time. `session` is what a phone shows.

`TunnelPath` follows one captured flow: the client's `tunnel` (`Connect`, `DialFails`, `UploadEnds`, `DownloadEnds`), the gateway's accept loop with its slots
(`Accept`, `Return`) and `handle` with the window, the handshake, `readPreamble` (`ReadLine`, `ReadOther`, `ReadNothing`, `ReadPart`, told apart by
what of the line has arrived), the registry (`Route`, `RouteFails` against `Replace`), the backend and the two copies, read by read and write by write
(`ForwardReads`, `ForwardWritten`, `ForwardEnds`; `RelayReads`, `RelayWritten`, `RelayEnds`). A copy sees an end go where it uses that end: in a read from it, or in a write to it, and
neither has a deadline (proxy.go:195-196). `ForwardStuck` and `RelayStuck` are the copies that wait in a write to an end that is there and does not read.
Handlers and KillUser race in `Gateway`; here the two looks are one step and KillUser is a socket closed under a handler.

`ClientTunnel` composes them: a knock that was sent may open the window, flows are captured while the engine reads its device, live on when
a mobile engine ends and die with the desktop process. A flow whose application hangs up is told to nobody (dataplane.go:204 closes
nothing); it ends when the gateway or the backend does, and `EveryEndCloses` says that then everything goes, unless the end that is left never again takes what a copy writes: then the handler, its slot and the
connection to the backend stay, whatever the client or a forced offline does.

### `OnlineSessions`: who is shown as online

The gateway's heartbeats (`Beat`, `GoOn`: an answer or a timeout, whichever the poller takes it for), what is under way (`flight`), the control plane's last report
(`Register`, whatever the order), the pages that read it (`Listed`, `ShownOnline`, `Count`) and the kick by address in its two critical sections (`KickSession` looks the holder up,
`KickWrites` bars whom it found, whoever has the address by then), which ends
with the gateway taking the window (`Pull`). `seen` and `first` remember who held a window last, and since when without a break; times that are too
old to matter fade, which keeps the state space small.


## The runs

| Run | Shows |
|---|---|
| `gateway_bans` | `TypeOK`, `AppliedIsDenied`, `NoWindowWhileDenied`, `PulledBansEnforced`, `Killable`, `TableIsCurrent`, `NoTunnelWhileDenied`, `DenyNeverShortened`, `ImplementsForcedOffline`, `BanTakesEffect`: One user under two spellings, bans renewed, expired on arrival and replaced, a connection and a crash, while poller, knocks, reaper and handler interleave: no step re-opens a window under a running ban and no spelling slips past it, every tunnel is caught by KillUser or by the second look, the gateway implements ForcedOffline, and with a poller that keeps polling a published ban takes its user offline even across the restart. |
| `gateway_nat_escape` (violated) | `NoTunnelWhileDenied`: Two users behind one address: the second look accepts the other user's window, and a connection that was between the first look and the table outlives the ban. |
| `ban_pipeline` | `ListedIsOffline`, `BanInForceAfterPoll`, `BarredStaysOffline`, `ClearedIsAdmitted`: Kicks, status changes by two administrators, device verdicts, restarts on both sides and failed polls: every ban of the last reply is in force between polls, a timed ban one polling interval after it was written, a lasting reason keeps its user offline once the timed bans are over, and nobody stays out without a reason. |
| `ban_gap` (violated) | `BarredGetsNoWindow`: A disabled account: the timed ban written at the status change keeps the rolling deadline out of the reply, and lapses between two polls. |
| `knock_once` | `OneTimeTokenOnce`, `EnvelopeOnce`: Envelopes that are delayed and repeated, clocks that differ by less than is tolerated, one restart, tokens of two lives of which the longer one is cut short by the cap on remembering a jti: an envelope opens one window, and so does a one-time token that the cap does not have forgotten before it expires. |
| `pf_bans` | `RuleIsBacked`, `ExpiredRulesGo`, `LiveRuleStays`: Knocks, the reaper and a poller that bans one of two users, rule commands that fail: a rule in the kernel has an entry behind it or is on its way out, and goes once its window is over, except in the three named cases (a flush at the start that fails is one); a new window keeps its rule unless its knock fell between a remover's look and its command. |
| `posture_gate` | `TypeOK`, `NoTokenPastReason`, `RefusedForReason`, `DevicesBounded`, `TrailFollowsGate`, `SilenceNeverHelps`: Two reports, or a report and a token request, interleaved statement by statement with deletions, kicks, status changes, ageing and failing reads: no token past a reason that stood all along, no refusal without one, the cap on devices overshot by no more than the reports under way and the failed reads, and an audit trail that agrees with the gate. The verdicts the gate reads: over all pairs of baselines and all reports of up to two results, a client gains nothing by leaving results out. |
| `object_library` | `DanglesOnlyByRace`, `StatusOnlyByToggle`: Two requests of several statements (saves, toggles) against deletions, edits and objects that come back: a reference dangles only if its object went while the save that wrote it was under way, and an edit from a stale form does not move a tunnel. |
| `gm_certs` | `ServedVerifies`, `ClientsVerify`, `TakenPairMatches`, `Heals`: Two processes that start on one directory, a client that reads the CA whenever it likes, two faults of any kind and one certificate at its end: a gateway answers with leaves its CA verifies, clients accept it unless a CA was spoiled or the gateway has been running since before its leaf came to its last 30 days, one fault never leaves a CA whose files do not belong together, and when the faults are over a start succeeds. |
| `directory` | `ServesWhole`, `TokenRoleIsStored`, `ResetStands`, `StartsSucceed`: An empty database and one of an older version, a start or the server cut off anywhere, log-ins, new users, resets and changes of passwords: the server never answers over half a start, tokens agree with the directory, a reset stands, no later row takes an account over, and a start that is left alone ends. |
| `client_tunnel` | `RoutedAsMapped`, `RefusalIsShown`, `EveryEndCloses`: The client's engine, a captured flow and the gateway's handler, to the backend: knocks refused at any time, the device or the program gone, the preamble late or in pieces, a registry that is replaced and two users who take turns at the window: a flow ends at the backend it was mapped to, if the user of its handler's look at the window may go there, a refusal ends the engine and is shown, and whichever end goes first, the handler returns and the backend's end is closed, unless the end that is left never again takes what a copy writes to it. |
| `online_sessions` | `ListedWasThere`, `PresentIsShown`: Two users behind one address, heartbeats that are lost, late or out of order, restarts of either process and a kick in its two critical sections: nobody is listed whose window was not open for that user within the gateway's grace, and whoever has been there a while is shown as online. |

Every property of a passing run is tried against a slip of the code (the operators
headed or marked "Slip" in the modules): with the slip in place TLC finds the property
violated under the same configuration. The type invariant of a module is checked on its own or, where it would only
repeat that, as the first conjunct of one of the invariants (`ListedIsOffline`, `EnvelopeOnce`, `RuleIsBacked`, `DanglesOnlyByRace`,
`ServedVerifies`, `ServesWhole`, `RoutedAsMapped`, `ListedWasThere`). So each of them says something about the code
and none holds by the shape of the model.

## Bounds

Bounds are constants, named where they are declared. Durations are scaled; what counts
is their order.

- `Gateway`: `MaxNow` 2 (3 in `gateway_nat_escape`) with a TTL of 1 and bans of 0 to 2: long enough for a window to
  expire, a ban to be renewed while it runs and to run out. One connection, two accounts (two spellings of one user, or
  two users), one crash. The races are between one handler, one knock and the poller; the proofs are for every number of
  connections, users and addresses.
- `BanPipeline`: `BanTTL` 3 to 5 against `Poll` 1 to 2 and one failed poll in a row: the code has
  5 min against 15 s, so a ban outlives several polls in both. `BanAssumption` states
  that order; `BarredStaysOffline` needs it and nothing more. One user (users do not
  interact in this module), two status changes at a time.
- `KnockReplay`: `Skew` 2 s, `Lives` of 2 and 4 s and a `Cap` of 4 s: the longer life is the one that outlasts the cap
  (in the code 30 s, 90 s plus what the control plane's clock is ahead, and 600 s). The clock runs up to 7.5 s, beyond the end of every entry of
  the cache of a token that is issued at the beginning; one one-time token, one session token, two envelopes, one restart. Clocks
  differ by -2, 0 or 1 s: less than `Skew` ahead, where the property ends (see below).
- `DarkFirewall`: two addresses and two users, of which one may be banned; the clock has no bound. Every command may fail.
- `PostureGate`: three devices with a cap of one and two reports at a time, so that the cap can be overshot
  and refused; at most two requests of both kinds under way; a window of freshness of 0, so
  that a report is fresh in the second it was written and old after; one read that lets a device pass
  uncounted. Devices and slots for reports are symmetric.
- `ObjectLibrary`: one id, which may be an address, a service or both, one site and one resource, two
  requests at a time. References to different ids do not interact: validation, count and deletion look at
  one id each. Requests are symmetric.
- `GmCert`: two processes, one client, two faults, one certificate that ages (the CA or a leaf, on disk or served). One fault is healed by the next
  start; two, in the right order, are the fewest that reach the CA that is not. Keys need no bound: each fault costs a few.
- `Directory`: an administrator and one user, one seed, at most three rows (so that each account can get a second one), two
  passwords, two of the four statuses (the other two are read alike), one crash, one change at a time beside
  any number of resets.
- `RiskEngine`: two keys, reports of up to two results (`MaxResults`, so that a key may contradict itself), pairs of baselines drawn from 48 in force
  and four that may be for another platform or disabled; scores from 0 past the cap of 100, over both thresholds.
- `ClientTunnel`: one flow and one slot, one resource under two policies (granted to the client's user, or to somebody else); engine and
  flow each run through all their ends. Flows share nothing but the slots and the registry. The window is the client's, that of a neighbour behind
  the same address, or nobody's, so that the user of the handler's look and the holder of the moment differ.
- `OnlineSessions`: two users behind one address, one gateway, TTL 2, a heartbeat a second that takes up to one more, a grace of 3 (in the code 30 s, 15 s, 8 s and
  120 s: the grace outlasts an interval and two delays, as `SessionsAssumption` states), a clock of 5 (the first moment at which a listed session would be too old), one fault of either kind
  (a lost heartbeat or a restart) and one kick. The users are symmetric. The instance has no demonstration data (`Demo` is empty), since both promises are about
  sessions from life; the theorems about them hold for every `Demo`.


## Fairness

Only liveness uses it. `Gateway`: the poller's steps are weakly fair (a
`time.Ticker` loop without an exit, against a client with a timeout); nothing is assumed of handlers and clients. `BanPipeline`: time passes and polls go on; a poll may still
fail, at most `MaxFail` times in a row. `DarkFirewall`: commands return, the reaper's ticker
fires, time passes (strongly, as it waits for a rule that is being added again and
again), all while the gateway runs. That a gateway which ended is started again is not assumed: the service file in
`src/deploy/systemd` restarts it on failure only, and starts it without `-pf` and without the privileges it needs. `ExpiredRulesGo` therefore speaks of a gateway that
runs on; what the end of one leaves behind stays until the next start.
`GmCert`: a process that runs goes on, and a free lock goes to some process that waits for it (which one is open).
`Directory`: a start goes on, and the service manager starts a process that ended. `ClientTunnel`: an answer or a failure comes
back from the control plane (knock.go:38 uses the default HTTP client, which has no timeout: a server that takes the request and never answers would
hold the knock, and before the first one `Run` itself), the engine's goroutines go on, a device that was closed lets its reader go, and a select whose two branches
are ready again and again takes each of them at some time (Go's select chooses at random: strong fairness of `KeepStops`). The gateway's handlers go on: up to the relay each
of their waits has a deadline or ends with a socket. Of the copies only this is assumed, that one goes on once what it waits for has come or its own end has gone (`ForwardEnds`, `RelayEnds`, whose guards
ask where the copy is). That the client or the backend ever sends, or takes what is written to it (`ForwardReads`, `ForwardWritten`, `RelayReads`, `RelayWritten`), is not.


## What is proved

TLAPS proves for every value of the constants what the runs show on small instances: each safety invariant and each safety action
property of the passing runs but one, and that `Gateway` implements `ForcedOffline`. Eight modules hold the proofs; each has an inductive invariant,
which TLC checked first, one lemma or step per action, and the promises from the invariant. (`AccessProofs` and `ConsoleProofs` are about two
components each that do not meet.)

| Theorem | For every instance |
|---|---|
| `TypeCorrect` | Every variable keeps its type, for every set of accounts, addresses and connections. |
| `NoWindowTheorem` | A denied user has no live window except between the DenyUser and the RevokeUser of its own ban. |
| `AppliedTheorem` | A deadline the poller remembers as applied is covered by the deny map while it runs. |
| `KillableTheorem` | A tracked connection stays within reach of KillUser until its socket is closed. |
| `TableTheorem` | The table of tunnels holds only connections of running handlers, under their own user. |
| `NoTunnelTheorem` | With no shared addresses, no tunnel of a denied user survives the disposal of its ban. |
| `PulledBansTheorem` | With no shared addresses, every running ban of the last list pulled that the loop has passed is in force. |
| `DenyTheorem` | A running ban is never shortened, except that a restart drops it. |
| `Implementation` | With no shared addresses, the gateway implements ForcedOffline. |
| `PostureTypeCorrect` (PostureProofs) | Every variable of the posture gate keeps its type, for every set of devices, reports and requests. |
| `CapTheorem` (PostureProofs) | The devices that have a row never exceed the cap by more than the reports that can be under way less one, and the reads that failed. |
| `TokenTheorem` (PostureProofs) | No token is handed out past a reason to refuse (ban, account, verdict, staleness) that stood from the first look to the answer. |
| `RefusalTheorem` (PostureProofs) | No request is refused without a reason that held at some time while it was under way. |
| `TrailTheorem` (PostureProofs) | While reports come one at a time and the reads succeed, the last entry of the trail says what the gate does, for every set of devices. |
| `SelectionTheorem` (PostureProofs) | Of two reports that do not contradict themselves the one with fewer checks in order gets no better score, disposal or level, for lists of baselines of every length. |
| `OneMoreTheorem` (PostureProofs) | One more baseline at the end of a list of any length never makes the verdict on a report milder. |
| `OrderTheorem` (PostureProofs) | Neighbours in a list of baselines of any length may change places without changing the verdict on a report. |
| `SilenceTheorem` (PostureProofs) | A client gains nothing by leaving results out, nor by the order of results or baselines, for any number of checks and results; where the baselines admit of both answers, the verdicts the gate reads are the engine's. |
| `FirewallTypeCorrect` (FirewallProofs) | Every variable of the kernel set and its writers keeps its type, for every set of users and addresses. |
| `RuleTheorem` (FirewallProofs) | A rule in the kernel has an entry of the allow list behind it, or a remover is at it, but for the three ways around that the property names (a ban between window and rule, a deletion that fails, a flush at the start that fails), for every set of users and addresses. |
| `LiveRuleTheorem` (FirewallProofs) | A removal takes the rule of an open window only if the window was opened between the remover's look and its command. |
| `OneTimeTheorem` (AccessProofs) | A one-time token opens one window, and one more after each restart, for every life of a token and every clock of the client, but for tokens that are still good when the cap on remembering a jti (ten minutes) is over. |
| `EnvelopeTheorem` (AccessProofs) | With client clocks ahead by less than the tolerance, an envelope opens one window, except one more for each restart. |
| `RoutedTheorem` (AccessProofs) | A flow ends up where a registry in force while its handler ran lets the holder of the window go under the id asked for, or at the default backend without a line, for any number of flows, users, resources and registries. |
| `DanglingTheorem` (ConsoleProofs) | A reference dangles only if its object went while the save that wrote it was under way, for every set of objects, sites, resources and requests. |
| `StatusTheorem` (ConsoleProofs) | The status of a site that stays changes only as a toggle says that read it before, whatever saves are under way. |
| `OnlineTheorem` (ConsoleProofs) | Nobody is listed from life whose window was not open within the grace and one delay, whatever is lost, late, out of order or restarted. |
| `PresentTheorem` (ConsoleProofs) | Whoever has had a window long enough is shown and counted, unless a report was lost or overtaken or somebody restarted since, for every schedule in which the grace outlasts an interval and two delays. |
| `ListedTheorem` (BanProofs) | Between two polls whoever the last reply lists is denied and without a window, for every order of timed and rolling deadlines. |
| `TimedBanTheorem` (BanProofs) | A timed ban is in force one interval after it was written, plus one for each poll that may fail, until it ends, for every number of failed polls a ban outlives. |
| `BarredTheorem` (BanProofs) | A user with a lasting reason stays offline through failed polls, for every ban that outlives the polls that may fail in a row. |
| `ServedTheorem` (GmCertProofs) | What a process serves verifies against the CA certificate it took, for every number of processes, clients and faults. |
| `ClientsTheorem` (GmCertProofs) | Whenever a client read ca.pem and whoever started first: it accepts the gateway, unless a CA of one of them was lost, spoiled or ran out, or the gateway held its leaf as it came to its last 30 days; a start takes no leaf that old. |
| `TakenTheorem` (GmCertProofs) | It takes two faults for a CA certificate and a CA key that do not belong together to be taken for a pair. |
| `WholeTheorem` (DirectoryProofs) | The server never answers over half a start, wherever starts were cut off and whatever an older version left. |
| `RoleTheorem` (DirectoryProofs) | The role in a token is the role the directory has for its account, through restarts, backfills and second rows. |
| `ResetTheorem` (DirectoryProofs) | A password an administrator set stands, but for a change that was past its check of the old one by then. |

### `GatewayProofs`

None of the runs' invariants is inductive. `IInv` in `Gateway` is: it adds to the properties what
the poller knows (`PassedAreApplied`: the bans the loop has passed are in `applied`;
`ClosingInClose`: connections wait to be closed only in that phase), and
`DeniedTunnelsDoomed`, the heart of it: a handler that is past its first look under an account
that is denied by now either still has its second look ahead of it and will fail there, or is in
reach of the `KillUser` that is still to come, or is on its way out. The proof shows
`Init => IInv`, one lemma per action and conjunct for `IInv /\ [Next]_vars => IInv'`, and the
properties from `IInv`. The implementation theorem maps every action to a step of
`ForcedOffline` or to a stutter.

Assumptions: those on the constants, and for `NoTunnelTheorem`, `PulledBansTheorem` and `Implementation`
that no two users share an address (`ExclusiveAddresses`, stated in the theorem). The last is
needed: the run `gateway_nat_escape` shows what happens without.

### `PostureProofs`

Five properties of `PostureGate`, for every finite set of devices and slots, every
cap and every window of freshness, from nothing but the assumption on the constants; and the risk engine.

`DevicesBounded` counts rows, and a row appears two statements after the count that let it
in. The invariant counts earlier (`HeldBounded`): the devices that have a row *or* are past the count
and before the write are at most the cap, the other slots for reports, and the reads that failed. `Count` adds its own
device only while the known ones are below the cap, and what else is held then belongs to
the other reports under way; a failed read adds one device and one to the tally; every other step adds none.

`NoTokenPastReason` and `RefusedForReason` rest on `GateInv`: while a request is under way, a reason
that stood since it began still holds, every reason that holds has been met, and each check that
has passed has taken its own reason off the first list: were the ban standing still, the look at the ban
table would have seen it. So a token is decided with nothing left standing, and a refusal
for a reason that has just been met.

`TrailFollowsGate` is about moments without a report. `TrailInv` says what holds in between: as long as reports came one at
a time, the trail says what the gate does until the row is written, and from then on what the gate did before, which the report has
in `prevBlocked` and compares with the gate of now.

The risk engine is a loop over the baselines. `LoopExists` shows that the recursive function in `Sums` exists, and `SumsType`, `SumsKeep`
and `SumsAgree` follow it through the list, each by the least index at which it would fail (`LeastOne`, from the well-foundedness of
the order on the naturals: an induction that needs no operator as a parameter). With `PassedIsGood` (a report that does not contradict itself has
passed what it says, whatever comes last), `ScoreGrows` (more failed checks cost no less, by cardinalities) and `JudgedGrows` (the cap and the levels
keep the order) this gives `SelectionTheorem`, `OneMoreTheorem` and `OrderTheorem` for lists of baselines of every length; the run
compares pairs. `SilenceTheorem` is the run's property, under the assumption that the baselines admit of
both answers, as those of the run do (with others the gate, which picks either, would not be theirs).

### `BanProofs`

`ListedIsOffline`, `BanInForceAfterPoll` and `BarredStaysOffline` of `BanPipeline`, for every set of users, every length of a ban,
every interval, and every number of polls that may fail in a row, under `BanAssumption`: a ban is longer than these polls take (5 min
against 15 s). Times are what is left of them, so an invariant has to say how old the gateway's knowledge is: `Age`, the ticks since the
last clean poll, is the number of failed polls times the interval plus what of the interval is over. A timed ban that had not
been written by then is younger than `Age`; all others are dealt with (`TimedIsDealt`), hence denied (`DealtIsDenied`). A lasting
reason that is older than `Age` was in that poll's reply with a whole ban ahead of it, of which `Age` is used up at most
(`LastingIsDealt`), and the assumption leaves something of it. In the middle of a poll the same is said of the reply that is being read
(`TimedIsListed`, `LastingIsListed`): the three reads come one after the other, and a reason that stands still is met by one of them.

### `FirewallProofs`

`RuleIsBacked` is inductive once it is known that the rule the SPA loop is about to add has an open window behind it, or strayed
(`OpeningIsBacked`: the clock waits for the command, and the reaper takes only what is over), and that a process that is down does nothing.
A start is the step that can put rules there that nobody opened a window for: what it could not flush has strayed.
The action property `LiveRuleStays` follows from `LookedAgain`: a remover that has settled on an address saw no open
window there, so one that is there now was opened since.

### `AccessProofs`

One token, one window (`KnockReplay`): a token that has had its window is in the cache to an end that outlasts it, or is over
(`SpentIsKept`). That the end outlasts it is `DedupOutlasts`, for a token that the cap does not cut short; that a token past its expiry second is not let in is `OverIsExpired`. One
counts in halves and one in whole seconds, and the margin of the tolerance is what makes up for it. Of an envelope the cache keeps the nonce for twice the tolerance from the moment it was
accepted. `PassedIsKept` says that this is as long as its stamp is good, which is so only if the stamp was not too far ahead: `EnvelopeTheorem`
assumes `ClocksAreClose`, and the bound is sharp (see the disagreements). `OneTimeTheorem` needs
nothing but the assumption on the constants; the tokens it does not speak of are those in `capped`, as in the property.

`RoutedAsMapped` (`ClientTunnel`, whose steps are steps of the path: `TunnelIsPath`) rests on one fact about handlers between the second look at the window and the choice of a backend:
what the registry allows now is among what it has allowed since (`RouteInv`). A new registry adds to what was allowed in the same step, and a
handler's own steps concern nobody else (`RouteOthers`). Bytes that are no line come only of a flow that asked for no resource.

### `ConsoleProofs`

`DanglesOnlyByRace` and the action property `StatusOnlyByToggle` of `ObjectLibrary`: what a save has looked up is there, or was deleted under its
eyes and marked (`LookedUpOrLost`), and the count that guards a deletion covers every slot of every row (`CountIsComplete`).

`ListedWasThere` and `PresentIsShown` of `OnlineSessions`, for every set of users, finite set of addresses, demonstration data, and schedule in which the grace is at least an
interval and two delays (`SessionsAssumption`). Every heartbeat under way says who was there when it was made (`FlightInv`), so the
last one that was handled is right up to its age (`ReportInv`): that is the first property. The second must know that the last report is not old. `ChainInv`: there
is a moment that the control plane has a report of, or of a later one (`Good`, unless something was lost or overtaken since); behind it, and behind
every heartbeat under way that is younger, comes a next one within an interval and a delay (`Succ`: it is on its way, or the poller is about to
make it). When the next one is handled it takes the moment's place, and the clock cannot run past it (`SuccIsSoon`). So whoever has been there since before
the moment is in the report, which still counts; `Window >= Poll + 2 * Delay` is what is used of the schedule.

### `GmCertProofs`

`ServedVerifies`, `ClientsVerify` and `TakenPairMatches` of `GmCert`, for every number of processes, clients, faults and certificates that run out. The steps of
a start interleave with other processes that die, wait and read; that only one of them is at the files is `LockHeld`. What a start has settled
verifies by the CA it loaded (`LeavesVerify`), the CA that anyone goes by is the one on disk, or is spoiled (`OneCA`, with `SpoiledIsKnown` for when that is), and
`PairsCost` counts: a CA key without its certificate costs one fault, a pair that does not match a second one, but for the moment between the two renames.
`YoungHeld` is about time: a process that is not in `outlived` answers with leaves that are not yet in their last 30 days, because a start takes or makes only such, so none of them can have run out.

### `DirectoryProofs`

`ServesWhole`, `TokenRoleIsStored` and `ResetStands` of `Directory`, for all accounts, seeds and databases of an older version (`DirectoryAssumption`), any number of starts
cut short, and a table that has room for what a start inserts (`DirectoryBounds`, on the bound `MaxRows` alone). `StartGoesOn` says what each stage of a
start leaves to the later ones, whatever it found; a token's role stays that of its account because the first row of an account stays
the first (`FirstStays`, by the least index: rows are only appended) and no request changes its role once it has one; `ResetIsKnown` says that whoever is about to change a password that was
reset, and did not begin before, knows the new one.


### Only model-checked

- All liveness (`BanTakesEffect`, `ClearedIsAdmitted`, `ExpiredRulesGo`, `Heals`, `StartsSucceed`, `RefusalIsShown`, `EveryEndCloses`): TLAPS has no
  rules for fairness and ENABLED here.
- The violations, which are counterexamples.

## Where the code and its comments disagree

The first two are runs that TLC ends with a counterexample.

- `gateway_nat_escape` (gateway/internal/proxy/proxy.go:141): handle looks at the window again after track, but asks only whether the address has any live window, not whose. The comment at proxy.go:139-140 says that a connection caught in the gap between Allowed and track by a forced offline finds "此处 Allowed 已为 false → 立即断开，杜绝连接逃逸切断". With two users behind one address the other user's knock overwrites the window of the address; the forced offline of the first user then removes no window, KillUser finds no connection, and the second look passes on the other user's window: the tunnel of the banned user stays open for as long as it likes.
- `ban_gap` (control/internal/api/api.go:662): handleGatewayPolicy adds a disabled account with a deadline that every poll moves on, unless the account is in the ban table already (`!seen[k]`). handleSetUserStatus puts it there with a fixed deadline of kickBanTTL (api.go:404), so for five minutes the reply carries the fixed deadline only. When it lapses, at some moment between two polls, the gateway has no ban for the account until the next poll adds the rolling one; a client that still holds a session token and knocks in between gets a window. The comment at api.go:651 says "只要账号保持禁用，每次轮询都续窗，网关就一直拒".

The others were met while modelling; the properties of the passing runs say what holds in their place.

- The kernel set (gateway/internal/spa/spa.go:116; pf.go:3 "TTL 到期即撤"): `Allow` calls `OnAllow` after its critical section. A forced
  offline in between takes the entry and deletes a rule that is not there yet; the rule added after it has no
  entry, and stays until someone knocks from the address or the gateway starts again. `ExpiredRulesGo` excepts it.
- Replay (gateway/internal/knock/knock.go:126; knock.go:115 "被动重放防护"): the time stamp is compared in whole seconds, the nonce kept
  for `2*skew` to the nanosecond. With a client clock that is ahead by all that is tolerated, an envelope that arrives early in its
  first second is forgotten before the last one is over, and opens a second window. `EnvelopeOnce` holds for less than that.
- Set active again (api.go:407; api.go:389 "恢复启用 → 立即解除封禁"): the gateway keeps the deadline it knows, up to five minutes.
  `ClearedIsAdmitted` says that it ends.
- New users (api.go:350 "保证新用户可登录"): not when the account exists already; see `Directory`.
- Kernel set, the end (pf.go:79 "启动/退出归零"): the one call of `Flush` is at start-up (main.go:136), and its error is dropped. A gateway that ends leaves its rules in the
  kernel, for good if none is started with `-pf` again; one that starts and cannot flush goes on with the rules of the run before. `stray` marks them in `DarkFirewall`.
- Kernel set, the second look (main.go:147 "别让陈旧 Deny 误删内核放行规则", main.go:94): the look and the command that deletes are two steps. A knock between them, whose rule is added before the
  command runs, loses that rule, and the kernel shuts the address out although its window is open. `LiveRuleStays` excepts that knock (`overtaken`) and no other.
- Killed tunnels (proxy.go:65 "Close 会打断双向 io.Copy，隧道立即真实断开"): a copy sees the Close only where it uses the client's socket. While `io.Copy(b, br)` is in a write to a backend that does not
  read, a forced offline (or a client that goes) closes the client's side and nothing else: the copy back waits for a backend that has nothing to say, and handler, slot and backend connection stay as long
  as the backend likes. `EveryEndCloses` excepts it (`ForwardStuck`, `RelayStuck`).
- References (objects_usage.go:57-58 "与并发的资源/IPSec 保存原子互斥（根治 TOCTOU）"): the immediate transaction rules the race out for the deletion, not for the saves, which
  look up and write in separate statements (monitor_objects.go:166-179, api.go:728-746). A deletion in between goes through and the save writes a reference to nothing; `DanglesOnlyByRace` excepts it (`excused`).
- Certificates (gmcert.go:13-14 "临近到期都能自愈"): a leaf that is near its end is renewed by the next start, and by nothing else. `EnsureGateway` runs
  once (main.go:167), takes a leaf with just over 30 days left (gmcert.go:174), and a gateway that runs longer than that answers with a certificate that has run
  out, which clients reject. `ClientsVerify` excepts the gateways it happens to (`outlived`).
- One-time tokens (spa.go:202 "同一 jti 只放行一次"): not a token that lives past the cap of spa.go:205; see `KnockReplay`.
- Slots (proxy.go:86 "同时处于握手/前导阶段的连接上限"): a slot is held until the relay ends, so the limit is one on tunnels. In
  `TunnelPath` the slot is the handler's from `Accept` to `Return`.
- Reason (baidimobile.go:67 "运行中或正常关闭为空"): `Stop` closes the device, the engine returns the read error, and the reason is that of a broken tunnel.
  `RefusalIsShown` says what is left: a refusal is hidden only if the device was closed or broke.
- Online users (monitor_objects.go:20 "无网关上报时回退演示种子"): a live gateway that reports no session has the page fall back on the demonstration
  data as well, while the overview counts none (`Listed` and `Count` in `OnlineSessions`).
- Default backend (proxy.go:162 "绝不降级回退默认后端"): true of a line that was begun. A client whose line is late by the
  whole budget, or whose socket a forced offline closed before a byte was read, has no line, and the default backend is dialled for it (`late` in `TunnelPath`).

Some properties except the very race that a hazard names, because the code loses it: what they say is that nothing else goes wrong.

| Property | Excepts |
|---|---|
| `LiveRuleStays` | a knock between a remover's look and its command (`overtaken`) |
| `RuleIsBacked`, `ExpiredRulesGo` | the three ways around (`stray`) |
| `DanglesOnlyByRace` | an object deleted under the eyes of a save (`excused`) |
| `EveryEndCloses` | a copy that stays in a write for good (`ForwardStuck`, `RelayStuck`) |
| `ClientsVerify` | a gateway that held its leaf as it came to its last 30 days (`outlived`) |
| `OneTimeTokenOnce` | a token that outlives the cap on remembering it (`capped`) |
| `ResetStands` | a change that was past its check of the old password (`raced`) |
| `TrailFollowsGate` | accounts whose reports overlapped (`mixed`) |
| `PresentIsShown` | an address that was kicked; reports that were lost or overtaken |
| `BarredStaysOffline` | a user whose timed ban keeps the rolling one out of the reply (shown by `ban_gap`) |
| `NoTunnelWhileDenied` | nothing, but `gateway_bans` and the theorem have no address with two users (shown by `gateway_nat_escape`) |

## What is not modelled

Cryptography (signatures, ciphers, TLS and TLCP handshakes) is sound by assumption; the formats
of tokens, envelopes and rows are records. The unsealed knock of old clients has neither time
stamp nor nonce: it is a session token that may be repeated at will, which the code
says and logs, and is left out. Authentication policies, approvals, views, diagnosis, the console, audit wording and
deployment scripts are single requests without interleavings worth a model, or nothing but reads; the one exception is a decision on an approval
(`sqlite.go:584`, read, append, write back), listed as a hazard and in the plan. What the desktop client and the apps do in TypeScript, Kotlin and Swift
is outside the Go program. PROJECT.json lists every
part with its status and the reason, and every hazard with the property that covers it or a note.

## Plan

Done: the gateway's forced offline, the ban pipeline, knock replay, the kernel set, device reports and the gate in front of knock tokens, the object library, the certificate files, users and the start of the database, the client engine with its flows and their handlers, online sessions, the risk engine, all of them with proofs of their safety properties.

Next modules, in this order:

1. `StoreRmw` - decisions on approvals and default policies as read-then-write; an abstract atomic version
   that they should implement.
2. `ClientConnect` - the desktop client's polling against connect and disconnect, on top of `ClientEngine`.

Theorems worth proving next: those of the modules to come.
