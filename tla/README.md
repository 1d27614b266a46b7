# Verification of Uni VPN

TLA+ models of the Uni VPN core (`src/internal`, Go), the TLC runs that check
them and the TLAPS proofs about them. Line numbers are those of the sources at
this commit; `PROJECT.json` maps every definition to the lines it stands for.

Run everything inside this folder: `tlc -workers 2 -config DaemonDisconnect.cfg
DaemonProperties.tla`, `tlapm DaemonProofs.tla`. `PROJECT.json` names the module of
each configuration.

## 1. Inventory

Uni VPN runs `openconnect` for a university's gateway, opens a SOCKS port for
the browser and connects only while something uses it. One process, the core,
holds everything; the apps are user interfaces over its HTTP API.

| Component | State it keeps | Operations | What makes it hard | What makes it correct |
|---|---|---|---|---|
| `daemon` connection life cycle (`daemon.go`) | shown state, demand, current tunnel, one connect loop, account and gateway, generation counters, used one-time-code window | connect loop, `RequestConnect`, `RequestDisconnect`, `completeSetup`, `SetPassword`, `SetTOTP`, ticker, `Run`, `Stop` | every call of a keyring, a process or the forwarder releases the one mutex, so any other operation steps in between | one tunnel; Disconnect holds; no password at the wrong gateway; no verdict on old secrets; a code once; calls return |
| enrolment (`enroll.go`) | one job with a stage, the typed code | `Enroll`, cancel, the job | waits for the loop while the loop may end for another reason | a typed code goes with its job |
| `tunnel` | process, held typed code, secret file, classification | `Start`, `Stop`, `WaitReady`, output reader | stop before there is a process; code released by prompt, line, timer or verdict | stopped processes end, secret file goes, code sent at most once |
| `forwarder` | open, waiting and direct connections | accept, `CloseAll`, `CloseDirect`, pipe | connections accepted while others are closed | closed means closed, demand is counted once |
| `devsync` engine | keys, `sync.json`, pending changes | `Notify`, `Sync`, `Remove`, `Defaulted` | lost answers, other devices' writes, clocks, crashes, edits during a round | devices converge, the later change wins, nothing taken over is sent back |
| `devsync` pairing | code on screen, two slots | `Offer`, `Request`, `Enter`, cancel | either side leaves at any moment | a withdrawn code yields no key |
| relay (`worker.js`) | slots, groups | slot put/take, group get/put, cleanup | several devices at once, expiry | slot read once, write only on the version read, final is final |
| settings from devices (`sync.go`) | the website list, `config.toml`, the keyring | `Apply`, `Snapshot` | a setup by hand during `Apply` | what was typed here wins |
| update and removal (`update.go`, `removal.go`) | pending update, `removing` | `autoUpdate`, `watchPackage` | an update next to a removal or a connection | installs only when idle, never while removing |
| `updater` | staged files, list of installed files | `Check`, `Apply`, `RemoveOld` | a crash between two files | every file stays listed |
| `setup`, `service`, `desktop` | what was created, the service's registration, the list of files to remove | `Run`, `Uninstall`, `Remove`, `Record` | a step fails or the process is killed; the service manager and the app start the core meanwhile | a removal is exact, a setup that says so runs |
| `sysproxy` | the system's proxy settings, the backup file | `Install`, `Uninstall`, `Refresh`, `Cover` | two processes write the settings; services come and go | the removal restores what was there, browsers follow the rule |
| MFA portal (`enroll.go`, `linotp`) | the generators there, the keyring, the noted serial | list, add, test, store, note, remove | lost answers, a cancelled job that goes on, an end of the core | no generator in use is deleted, none is forgotten |
| `inprocess`, `octunnel`, `netstack`, `libtunnel` | the library's session, its command pipe, the answers held for its forms | `Start`, `Stop`, the goroutine of the session, its watcher, `Free` | a cancel from another goroutine when the session may be gone | as `tunnel`; nothing reaches a session that is freed, each answer meets its question |
| `wintunnel`, `winsys` | the process, the state file, the SOCKS server | `Start`, `serveWhenUp`, `Stop`, the hook after the exit | the server starts while the tunnel is stopped; a script that outlives its openconnect | as `tunnel`; no server is left |
| `socks` | the listener, the registered connections | accept, the handler of a request, `track`, `Stop` | connections accepted or dialled while `Stop` closes them | what `Stop` leaves is closed |
| `httpapi`, `coremain`, the assistant | - | requests, process start, questions to the user | sequential | - |
| `config`, `pac`, `universities`, `totp`, `linotp`, `credentials`, `platform`, texts | - | parsing, tables, HTTP, operating-system calls | I/O | - |

How they interact. `httpapi` calls the daemon's operations, each on a goroutine
of its own. The daemon starts the connect loop, which runs a `tunnel` and reads
`credentials`; the `forwarder` calls the daemon back (`acquire`, `noteActivity`)
and is told to close (`CloseAll`). `devsync` calls the daemon through
`syncLocal` and talks to the relay. `updater` runs when the daemon is idle.
`setup` is another process, which the core may start for a repair.
Everything inside the daemon shares `mu`; `unlocked` releases it for a call.

`PROJECT.json` lists the same parts with their status, and under `hazards`
what in this code a test would hardly reach.

## 2. Modules

| Module | Models |
|---|---|
| `DaemonState` | the daemon's fields, the types, `Init`, and what several operations do (`set`, `ensureLoop`, `requestConnectLocked`, `MarkStopping`, `CloseAll`) |
| `DaemonRequests` | everything around the loop: Disconnect and connect, the setup of an account, new secrets, the typed code, the ticker, browser connections |
| `DaemonLoop` | `connectLoop` and the openconnect processes it runs |
| `Daemon` | both composed, `Stop`, the end of `Run`, the next core; `Next`, `Spec`, fairness |
| `Enrolment` | the automatic setup of a second factor at the MFA portal |
| `Tunnel` | one openconnect run as a process of its own |
| `InProcess` | one session of openconnect as a library in the core, with the gateway and second factors of `Tunnel` |
| `WinTunnel` | openconnect on Windows: the process, the script's state file, the server that follows it |
| `Socks` | the SOCKS server of both: its clients, their handlers and `Stop` |
| `TunnelLife` | what the connect loop relies on of a run; every kind of tunnel implements it |
| `Forwarder` | the handlers of browser connections, `CloseAll`, `CloseDirect`, `Stop` |
| `SyncState`, `SyncRound`, `Sync` | what a device and the relay keep of a group; one device's round, `Local.Apply`, `Notify`; devices composed with joins, `Remove`, restarts and the relay's cleanup |
| `Pairing` | the code on the screen, its two slots at the relay, and the devices that enter it |
| `Installation` | the files of an installation: updates, the restart, the removal after the package is gone |
| `Setup` | setup, repair and removal as a process next to the service manager, the core and the app |
| `Proxy` | the system's proxy settings: setup and the core that share them |
| `DaemonProperties`, `TunnelProperties`, `ForwarderProperties`, `SyncProperties`, `PairingProperties`, `InstallationProperties`, `SetupProperties`, `ProxyProperties` | what each promises |
| `MCDaemon`, `MCSetup`, `MCTunnels` | for TLC: accounts that are all alike; the sum of `Setup` and `Enrolment`; that of the kinds of tunnel, and what all kinds promise |
| `DaemonProofs`, `EnrolmentProofs`, `TunnelProofs`, `ForwarderProofs`, `SyncProofs`, `PairingProofs`, `InstallationProofs`, `SetupProofs` | theorems and proofs |

How they fit. `DaemonLoop`'s tunnels are what `TunnelLife` says, and `Tunnel`, `InProcess` and
`WinTunnel` implement that (`EveryKindIsLoops`; for `Tunnel`'s steps it is proved): the loop's model need not know the process or session, its
output and its timers. `Daemon` sees the portal session of `Enrolment` as one
step, and the handlers of `Forwarder` as pages that wait or end. `Sync` sees a
pairing as one step, a join. The other families share no state that a property
of either is about, so they are not composed.

### State and actions

One action of the `Daemon` modules is one stretch of code under `mu`. A call
through `unlocked` (a keyring read, a start or stop of openconnect, `closeAll`,
the wait for the loop) ends the stretch: the caller keeps a program counter,
`loop.pc` for the loop and `th[t].pc` for the six other threads of control
(`user`: the app's Disconnect; `setup`: `completeSetup`, one at a time by
`setupMu`; `edit`: `SetPassword`, `SetTOTP`, `Enroll`; `job`: the enrolment;
`ticker`; `run`: the end of `Run`). `th[t].ret` is where a thread goes on after a
stop. `loop.cancelled` is the loop's context.

- `demand` and `idle` stand for the two comparisons with the monotonic clock
  (`demandUntil`, `lastActivity`); time passing turns them (`DemandEnds`,
  `IdleElapses`).
- `now` counts windows of 30 s, `lastStep` is the window marked as used, `used`
  the windows whose code really went out or was shown.
- A tunnel is a record: `phase` new / up / ready / killed / exited, `byUs`
  (`stoppedByUs`), user and gateway from `makeTunnel`, and whose secrets in which
  version it was given. Ids are reused once nobody refers to them.
- Secrets are version numbers (`stored`, `edits`), accounts are model values.
- `wanted`, `ciscoSeen`, `verdict`, and the owner and version in `loop` are
  history for the properties; no guard of the code's reads them.

In the `Sync` modules one action is what happens between two calls that take time:
a request to the relay, the snapshot, `Apply`, a file. `round[d].pc` is the call
a round is in, `edit[d].pc` where a `Notify` is; both run at once, as in the code.
`keys[d]` is the group whose key the device has, `file[d]` is `sync.json`, `pend`
and `pendFile` the changes not sent yet in memory and on disk. `fresh[d]` is the
comparison of `pendingGen` with `readGen`. `groups[g]` is the relay's row of a
group with the document in it: `moved` and `sealed` are the note that closes it.
`mine`, `seen` and `kept` are history for the properties.

The other modules in short:

- `Tunnel`: `start` is where `Start` is, `oc` what openconnect does, `out` the
  lines it printed that the reader has not seen, `stdin` what it has not read,
  `stop[t]` where each `Stop` is. `gate` fixes at the beginning what the gateway
  asks for and whether password and code are right.
- `InProcess`: `run` is where the goroutine of the session is, `at` and `page` what the login
  shows, `stock` the answers still held; `lib`, `handle`, `freed` and `pipe` are what exists of the
  library's session, `open` what `run` has to close.
- `WinTunnel`: `process`, `script` and `file` are openconnect, its script and the state file, `serve`
  and `seen` where `serveWhenUp` is and what it read, `socks` and `listener` the server as the tunnel
  knows it and as the system does.
- `Socks`: `handler[c]` and `copying[c]` are a client's goroutines, `conns` and `took` the ends that are
  registered and those `Stop` took, `client` and `upstream` the sockets.
- `Forwarder`: `h[c]` is one handler with its sockets, its two pipes and what the
  three sets `conns`, `directs` and `waiting` have of it. `all`, `toClose` and
  `stop` are the three calls that close connections, between their locks.
- `Pairing`: `show`, `await`, `closing` and `run` are where the four goroutines of
  a code are, `slot` what the relay has of it, `enter` what the other devices do.
- `Enrolment`: one record for each job, also for those that were cancelled and go
  on; `late` are requests the portal has not carried out yet.
- `Installation`: contents are the numbers of the releases they came from;
  `upd`, `watch` and `slot` are the update, the watcher, and where each running
  program's file is.
- `Setup`: `proc.todo` is the list of steps the process at work still has, as
  `Run`, `Uninstall` and `Remove` do them in their order on each system. `ignored` and `lost` are
  history: a failure to end the service that this process took for success, and files whose record is gone.
- `Proxy`: an address is the version in its query, a place a network service, a
  desktop or the registry; `setup` and `core` are the two processes' steps.

### Abstractions

`Sync` modules:

- A value stands for itself and for its keyed hash; two values of a key and two devices are told apart.
- All devices share one clock that never goes back and moves with each change.
- Devices are set up; the `account` setting, a new `config.toml` (`Defaulted`) and files of older versions are left out. A device without keys notes passwords only, as there.
- A join or a new group writes keys and `sync.json` in one step, from no group, and one group at a time is begun (`Creators`). A device that was removed comes back under another id, as there.
- A round that found another one's write starts over without the limit of five attempts; a removal ends when no group is left to make (`MaxGroup`), which stands for its five.
- The relay drops a group only when no join, round or removal of it is under way: it waits for a year, or a week before the first use.
- `saveState` and `donePending` at the end of a round are one step, so is the fetch with the new group of a removal.

`Daemon` modules:

- `CloseAll` ends all handlers in one step.
- The wait of `sleep` may end at any time, so the backoff and the wake-up channel are covered.
- The window in openconnect's output is known when `WaitReady` returns.
- Ports are bound and the configuration is valid; the HTTP server, PAC file and proxy settings change none of the modelled fields.
- Only a setup on this device, not the one with synced settings (`applyAccount`).
- The put-back of a typed code at lines 1836-1848 cannot happen (a typed code is dropped under the same lock) and is left out.
- The 5 s limit on the wait for the loop at the end of `Run` is not taken: the wait is for the loop.
- A killed process exits before the ready timeout, which is longer than the grace time.
- A failing `TunnelFactory` is one of the failures of `Start`.
- `CloseAll` then `Stop` are the two steps of every teardown; the count of disconnects `secretsChanged` compares is one flag, `raced`.
- The portal session of the enrolment job is one step at its end, and a second code for a waiting job, or one typed while connected, changes nothing here.
- `offlineRun` counts to the 2 that matter (`AwayAfter`).

Others:

- `Tunnel`: openconnect, ocproxy and the gateway are external; they print and do what the comments of `tunnel.go` and `classify.go` and the fake in `internal/tunnel/fakeoc` say. A line is its class.
- `InProcess`: the library and the gateway are external; they ask and print what `shim.c` answers and the
  comments say. `Reconnect`, certificates, group and menu fields of a form and the unfinished last line that `Free`
  flushes are left out; its SOCKS server is `Socks`.
- `WinTunnel`: openconnect and the time the script takes are external; there is no second factor (`Tunnel` has it). `WaitReady` only
  looks whether the server is there (`opened`).
- `Socks`: what a request asks and what DNS answers is a choice; `SetRoute` is left out.
- `Forwarder`: a browser sends version, request and data; the port stays bound.
- `Pairing`: cryptography is perfect: who has no message of slot a has no key. Codes are not guessed.
- `Enrolment`: the portal's HTTP session does not run out; a command that keeps a secret either stores it or says so.
- `Installation`: releases are signed and newer ones have higher numbers.
- `Setup`: one installer, repair or removal at a time; the user does not open the app in a removal, as the code has no lock against either. A write that fails may leave a part of the file, which is not noted; a command that fails has changed nothing.
- `Proxy`: a backup is written as a whole (see section 3), reads of one list of services are one step.

## 3. Runs

`Events` names what may happen in a run, so that each question gets the
interleavings it is about. All runs are expected to pass.

| Run | Question | Bounds |
|---|---|---|
| `DaemonDisconnect` | `OneTunnel`, `DisconnectHonoured` with connect, Disconnect, traffic of a page, a slow gateway, no network, resume | one account, one page, no second factor |
| `DaemonSecrets` | `TunnelsConsistent` and `VerdictIsCurrent` with new password, second factor, typed code and its cancel, setups of the same and of another account that succeed or fail, all failures of reads and of `Start` | two accounts, one change of secrets, one code window |
| `DaemonCodes` | `NoCodeTwice`, `DisconnectReturns`, `DisconnectingEnds` | three windows of 30 s, fairness |
| `DaemonStop` | `EndsClean`, `StopEnds`, `BlockedEnds` with the ticker's teardowns (Cisco Secure Client, idle) and Stop | one restart, fairness |
| `Tunnel` | the process: `SecretGone`, `RefusedOnce`, `VerdictNamesFactor`, `RightSignInComesUp`; the library: `SignsInOnce`; all kinds: `StopsReturn`, `NothingLeftOpen`, and `EveryKindIsLoops`: each implements `TunnelLife` | five second factors, four kinds of gateway, one Stop, one new address of a library session; two addresses and two runs of the script on Windows; two SOCKS clients; fairness |
| `Forwarder` | `DoneIsNoDemand`, `DirectOnlyWhileAway`, `ConnectionsEnd` | one connection of three kinds, two changes of the daemon's state, two `CloseAll`, fairness |
| `SyncRounds` | `InStep`, `NothingSentBack`, `LaterChangeWins` with overlapping rounds, lost answers, no network, a list that cannot be written, a core that ends | two devices, one website, two changes, one fault |
| `SyncRemoval` | `KeepsItsPlace`, `Converges` with joins, removals of oneself and of each other, dropped groups, a password typed at any moment of a round | two devices, one password, one change, two groups, one fault, fairness |
| `Pairing` | `WithdrawnIsDead`, `ScreenIsTrue`, `CodesEnd` with answers, cancels, replacements, expiry, Stop | two codes, one other device, one failed request, fairness |
| `Installation` | `FilesListed`, `WholeRelease`, `RemovalHolds`, `UpdatesArrive` | three releases, a file of each kind, two `.old` names, one failure and one crash, fairness |
| `Setup` | `RemovalIsExact`, `SetupIsTrue`, `NoFutileRepair`, on three systems; in other behaviours `UsedStays` and `NothingLeft` of `Enrolment` | three processes one after another and two faults; two jobs, three generators and one fault; of the user's own files all are there before or none |
| `Proxy` | `RestoredOnRemoval`, `BrowsersFollow` on three systems | two installs, one change of the rule, one change from outside and one fault (together on macOS only) |

`MCSetup` puts `Setup` and `Enrolment` side by side, which share no state: `Init`
chooses which of the two a behaviour is about, the other stays as it begins. The
portal does not see the machine, so one machine is enough for its part.
`MCTunnels` does the same for the kinds of tunnel, of which a device has one: `kind` is chosen in `KindInit`,
and a difference that does not matter to a kind is fixed there to one case.
`MCDaemon` lets TLC exchange the two accounts: `Init`, `Next` and the invariants
name none of them, and the run has invariants only.

Why the bounds are enough. Connects, Disconnects, pages, traffic, timeouts and
exits are not bounded at all; the runs explore every order of them. Bounded are
the changes (`MaxEdits`), the windows (`MaxWindow`), the restarts and the tunnels told apart. One
change already meets every stretch of an attempt, and the comparison it races
with is of two generations. Three windows give the marked one, the one named
in the output and a later one. Four tunnel ids suffice: `OneTunnel` ties every
process that overlaps the current one to a thread that waits for it or to a
kill, and a start without a free id would show as a deadlock.
`NoCodeTwice` runs without a slow gateway, as an openconnect that was stopped may still
use its window (below).

Rounds, Notifies and joins are not bounded either; changes (`MaxTime`), groups
(`MaxGroup`) and faults (`MaxFaults`) are. Two changes meet as two devices'
changes of one website and as a change and a change back; one fault already hits
any request, answer or write of either device, before or after each change. Each
key is merged by itself and only the website list is written as a whole, so one
key of a kind is enough for its rules.

A tunnel of any kind has one session, stopped by one of the loop and the user's threads at a time in the run; the proofs
about `Tunnel` are for any number of them. One new address already meets a library session that is
stopped, and two runs of the script are an address before and after a reconnect, or one and an error. Two
SOCKS clients are one that `serve` is taking and one whose handler dials, while `Stop` closes both.

Handlers meet only in `active`, `waiting`, `conns` and `directs`, each entry of
one handler; two closes in a row meet a handler before and after each of its
locks. The proofs are for any number of connections, changes and closes. Two
codes are the withdrawn one and its successor; a third would find the first one
over. Three releases let a file come, go and come back (`Odd`, `Even`). Three
processes are a setup, a repair or a failed one, and the removal. In `Proxy` a
place that follows the rule, one with the user's own proxy and one that is added
later all occur with one change and two installs.

`CHECK_DEADLOCK FALSE` is set where the system really may stop: after the last
restart (`DaemonStop`), with devices that left the last group (`SyncRemoval`), an
tunnel that ended (`Tunnel`), connections that are gone (`Forwarder`),
the installation removed (`Installation`, `Setup`), the last code over (`Pairing`), the
last of the bounded installs and changes done (`Proxy`).

### Fairness

`FairSpec` of `Daemon` assumes that the loop and every thread go on in what they
have begun, that a process told to stop exits (`Stop` sends SIGKILL after the
grace time), that the ticker ticks, and that its `select` finds the closed stop
channel sooner or later (strong fairness of `RunCancels`: a tick may be under way again
and again when the ticker is looked at). Nothing is assumed of users, pages, the
gateway, the network or a process nobody stops.

`FairSpec` of `Sync` assumes that a device syncs again and again (`Run`: every
30 minutes and on a wake-up) and that a `Notify` under way ends. Users, joins,
removals, faults and the relay's cleanup are not fair; faults are finitely many.

`Spec` of `Tunnel` assumes that the goroutines and timers go on and that openconnect
prints what it has to and dies of SIGKILL. The other kinds assume the same of their goroutines, that a
script begun on Windows finishes, and that the library looks at its command pipe, where a cancel waits. Nothing makes a
gateway answer a web sign-in, end a tunnel or assign another address, or anyone call `Stop`;
`KindFairness` is the fairness of the kind there is. That of `Forwarder` that handlers and
closing calls go on, and the grace of a half-closed pipe ends; nothing is assumed of
browsers and websites. `FairSpec` of `Pairing` assumes this device's goroutines and that ten minutes
pass; nothing of the other devices. `FairSpec` of `Installation` assumes that the
goroutines and a restart go on, that a check and a download succeed when tried
again and again (strong fairness: faults in between are finitely many), and that a package
manager that takes files away for an update puts them back.

### Seen while modelling

Where the code leaves a gap that the runs do not contain, their bounds or the
properties name it. What follows was met while translating the code; TLC showed
those marked with a run's parameters.

Daemon:

- `completeSetup` looks for a tunnel (`daemon.go:833`) before it switches the
  account (840). An attempt the loop starts in between signs in with the old
  account and stays up; the comment at 830 says that an existing connection is
  taken down. `TunnelsConsistent` does not claim more than that user, gateway and secrets
  are of one account.
- A connect while Disconnect waits for the loop it cancelled (1611) starts no
  loop (1527), and the cancelled one looks at no demand.
- A keyring read begun before `SetPassword` stored the password and failing after
  it ends the loop with the old verdict (1772-1784); the gateway's verdict has a check
  against that (1917), the keyring's has none. `VerdictIsCurrent` is about the gateway's.
- A setup of the same account that fails after storing the new password (898) leaves it stored.
- `signed-in` is written for an attempt with the old password that becomes ready
  after `SetPassword` (1991).
- The window in openconnect's output replaces a later one `NoteCodeShown` marked
  (1901); a loop cancelled during `tun.Start` does not mark the window (1879); the
  end of the core before the window is noted leaves it to the next core, which
  does not know it. An openconnect that was stopped and lingers may still send its window's code next to
  the next attempt, so `DaemonCodes` has no `slow`.
- The wait for the next window is skipped for a typed code that is dropped before
  it is used (1740).
- Disconnect that waited sets idle over the state of the next loop (1619), whose
  last bytes then count as use. Two withdrawals of different kinds can so connect again with nobody
  asking: one begun without a tunnel writes idle over the other's "disconnecting",
  the tunnel that is being stopped is then taken for connected or its traffic counts, and the loop
  finds a demand. TLC shows it for Disconnect next to a setup and next to the idle teardown
  (`Events` with `disconnect` and `setup` or `idle`), so `DaemonDisconnect` has neither.

Tunnel and forwarder:

- An ocproxy that outlives openconnect and keeps its output open keeps `Stop` waiting
  (`tunnel.go:791`; `Outlives = {TRUE}`).
- `Stop` removes the secret file before `MarkStopping`, so a `Start` under way may still write it and has to remove it itself.
- The 15 s timer can send a typed code into a repeated question for the password
  (`RefusedOnce` exempts it), and a typed code in a form of unknown text is worded as a
  wrong password (`VerdictNamesFactor`).
- A handler that registers between the two snapshots of `CloseAll` is not
  cancelled; a connection accepted and not yet tracked survives; the portal's host
  is always connected directly, which `directHosts` means.

Devsync, excluded by `Events` or constants:

- A language or website changed between the snapshot of a round and its `Apply`
  is written over by the group's older value (`editMidRound` with `Texts` or
  `Sites`); a password stored but not yet noted when `Apply` asks
  `ChangedSinceRead` is too, and the `Notify` that follows then sends the group's
  password as typed here.
- A core that ends between `Apply` and `saveState` (`endWhileApplied`) sends the
  group's values back as its own; one that ends between storing a password and
  `Notify` never sends it (`end` with `Secrets` and `Converges`).
- A website the group does not list and `Apply` drops on a retry keeps its hash
  in `sync.json` (`engine.go:857`). When the write after it fails, the next
  round stamps the missing website as removed here; the comment at 851 rules
  that out (two faults).
- Pairing: a read aborted by a cancel may reach the relay after the requests that close the
  slots and empty slot b again (`Late = TRUE` breaks `WithdrawnIsDead`). Two codes asked
  for at once may both stay valid, with one on the screen (`Together = TRUE` breaks
  `ScreenIsTrue`; the comment at `pairing.go:151` says that a new code replaces the one on the screen).
- A request shown after `Run`'s `cancelPairing` stays valid until it expires; an offer taken before it was
  cancelled still joins the old group; `ErrSetupFirst` uses up the code; a cancel
  after `await`'s check still joins; a failed join's sync never sends `joined`.

Installation, setup and proxy:

- A crash after the program was replaced and before the other files leaves a
  mixed release until the next start; one between the two renames of Windows
  leaves no program. A dropped file in use is not listed under its `.old` name. `Stop`
  or a crash in `setup.Remove` leaves the rest to the next start. An update may
  install while a setup runs; `uni-vpn update` next to a core is not modelled.
- A removal that could not remove the service keeps the installation and has
  deleted the list; what a core that still runs writes then is `lost`. If the installer
  runs again and the assistant writes `config.toml` before setup looks (`setup.go:717`),
  setup finds it there, does not note it, and the next removal leaves it. `lost` is also a
  file whose record a kill or a full disk lost between truncating and writing, and the part of a file
  that a failed write left. The list goes even if a
  file could not be deleted.
- `Uninstall` calls `systemctl disable --now` or `launchctl bootout` and takes every exit code for
  success (`service.go:432`), and on Windows it does not look at what `endTask` says, also not when the
  core still runs after 10 s (409). The removal then says "Service removed" (`setup.go:948`) and
  deletes the rest with service or core still up, while the comment at `service.go:403` says "False if
  it could not be removed". `ignored` marks such a removal, and the one of the
  core itself whose `disable`, `stop` or `bootout` failed (`removal.go:22`, 48-52). `RemovalIsExact` names
  it: it then still claims everything of the files and the app, nothing of service and core. TLC
  finds it violated without that, after one setup and one removal with one fault.
  `endTask` also takes a PowerShell that fails for a task that stopped (`service.go:452`), so that
  a setup may be content with the old core: `ignored` in `SetupIsTrue`.
- The macOS app's own
  `bootstrap` between setup's `bootout` and `bootstrap` makes setup report a failure
  though the service runs. `StartRepair` checks and then starts
  (`daemon.go:733-751`), so two repairs may start. Two of these processes at once
  have no lock: `SetupIsTrue` does not hold for them.
- The proxy's backup is not written atomically (`sysproxy.go:608`): a kill leaves a
  rule without a backup, and the removal then says that nothing was set. A failed
  write in `backUpNew` is ignored; a service that appears between the two listings
  of an install is never backed up; a core that writes the setting while it is
  put back (`setup.go:929` and 944) puts the rule there again. `slip` marks these in the
  model. On macOS the address is written before `Refresh` (`daemon.go:1187`), which a
  kill separates, and `past` is per service. The message at `setup.go:777` is wrong when a backup exists.
- At the portal, two setups at once or another device of the same name that
  enrols between the list and the cleanup lose a generator in use, as the
  cleanup goes by the name (`enroll.go:338`, 369; `met` in `UsedStays`). `replaceOwnToken` of
  a slow cancelled job can delete the newer job's generator. A cancelled job
  still stores its secret. A keyring command that timed out after it had stored makes `keepToken`
  remove the generator just stored (left out).

## 4. Proofs

TLAPS proves these for every value of the constants, from the `ASSUME` of the
component's module alone (`Enrolment` and `Forwarder` need none). In `EnrolmentProofs` `Spec` is
`EnrolSpec`: `MCSetup` extends both `Setup` and `Enrolment`, so their names differ. The assumptions
say that bounds are numbers and that options (the three systems too) are of the kinds the code
knows.

| Theorem | Module | Says |
|---|---|---|
| `TypeCorrect` | `DaemonProofs` | `Spec => []TypeOK` |
| `Consistent` | `DaemonProofs` | `Spec => []TunnelsConsistent` |
| `VerdictIsCurrentAlways`, `OnceCodeHasJobAlways` | `DaemonProofs` | `Spec => []VerdictIsCurrent`, `Spec => []OnceCodeHasJob` (in no run) |
| `OneTunnelAlways`, `EndsCleanAlways` | `DaemonProofs` | `Spec => []OneTunnel`, `Spec => []EndsClean` |
| `DisconnectHonouredAlways` | `DaemonProofs` | `OneWithdraws => (Spec => DisconnectHonoured)`, an action property |
| `NoCodeTwiceAlways` | `DaemonProofs` | `PlainSignIns => (Spec => NoCodeTwice)`, an action property |
| `UsedStaysAlways`, `NothingLeftAlways` | `EnrolmentProofs` | `EnrolSpec => []UsedStays`, `EnrolSpec => []NothingLeft` |
| `TypeCorrect` | `TunnelProofs` | `Spec => []TypeOK` |
| `SecretGoneAlways`, `RefusedOnceAlways` | `TunnelProofs` | `Spec => []SecretGone`, `Spec => []RefusedOnce` |
| `VerdictNamesFactorAlways` | `TunnelProofs` | `Spec => []VerdictNamesFactor` |
| `RunIsLoopsTunnel` | `TunnelProofs` | `Spec => Life!Safety`: a run of `Tunnel` starts as a run of `TunnelLife`, and each step is one of its steps or a stutter |
| `SafetyAlways` | `ForwarderProofs` | the inductive invariant, `Spec => []SafetyInv` |
| `DoneIsNoDemandAlways`, `DirectOnlyWhileAwayAlways`, `BytesInOrderAlways` | `ForwarderProofs` | `Spec => []DoneIsNoDemand`, `Spec => []DirectOnlyWhileAway`, `Spec => []BytesInOrder` (in no run) |
| `TypesAlways`, `SyncInvAlways` | `SyncProofs` | the types, `Spec => []TypeInv`; the inductive invariant, `NoRevival => (Spec => []SyncInv)` |
| `InStepAlways` | `SyncProofs` | `NoRevival => (Spec => []InStep)` |
| `KeepsItsPlaceAlways` | `SyncProofs` | `NoRevival => (Spec => KeepsItsPlace)`, an action property |
| `TypeCorrect` | `PairingProofs` | `Spec => []TypeOK` |
| `WithdrawnIsDeadAlways` | `PairingProofs` | `~Late => (Spec => []WithdrawnIsDead)` |
| `ScreenIsTrueAlways` | `PairingProofs` | `~Together => (Spec => []ScreenIsTrue)` |
| `Inductive`, `TypeCorrect` | `InstallationProofs` | `Spec => [](TypeInv /\ InstallInv)`, `Spec => []TypeOK` |
| `FilesListedAlways`, `WholeReleaseAlways` | `InstallationProofs` | `Spec => []FilesListed`, `Spec => []WholeRelease` |
| `RemovalHoldsAlways` | `InstallationProofs` | `Spec => RemovalHolds`, an action property |
| `Inductive`, `TypeCorrect` | `SetupProofs` | `Spec => []SetupInv`, `Spec => []TypeInv` |
| `RemovalIsExactAlways` | `SetupProofs` | `Spec => []RemovalIsExact` |
| `SetupIsTrueAlways`, `NoFutileRepairAlways` | `SetupProofs` | `Spec => []SetupIsTrue`, `Spec => []NoFutileRepair` |

Each module proves that `Init` establishes an inductive invariant and that
every action preserves it, one lemma or step per action. TLC checked each of
these invariants on the instance of its run before it was proved, those of Sync on
five instances of `NoRevival`.

- Daemon, types: a loop which uses `tun` has one, the names of a setup under way
  are accounts, and an ended daemon has no loop: without them `tunnels[tun]` has no type.
- Daemon, `AccountInv`: why user, gateway and secrets are of one account. The account switches only while
  `switching` holds, the gateway follows at its end, and `accountGen` moves
  whenever an account is put back or applied, so that what was read under one
  generation and found unchanged belongs to the account of the settings.
- Daemon, `SecretsInv`: why a refusal of old secrets is never shown for the new ones. `secretsGen`
  is behind `edits` by at least the edits and setups under way (`Told`), the loop notes it
  before it reads, so a note that is still current dates the version that was read. The proof
  does not use that the editing threads are at rest, as `VerdictIsCurrent` says: `secretsGen = edits`
  implies it. For the typed code it adds where the thread of its job can be.
- Daemon, `StopInv`: who is responsible for each process. A thread that waits has a
  target, a target never is a reusable id, the loop drops a tunnel only once it
  exited or a thread is stopping it, a stop before there is a process is kept in
  `byUs` until `Start` kills it, and after `RunCancels` no loop starts again.
- Daemon, `WishInv`: what may still run while nobody asks. The wish is gone from `demand`, `explicit`
  and the waiting pages, a loop that could start a tunnel is cancelled or at rest, and what is left of
  an attempt is shown as "disconnecting", where neither its port nor its last bytes count. `OneWithdraws`
  is needed: with two kinds of withdrawal the second one's end is taken for the first one's
  (section 3). Nothing limits how many withdrawals of the one kind come, or when.
- Daemon, `CodeTimesInv`: one attempt is under way at a time and over before the loop drops it
  (`AttemptInv`), and every window that was used is marked except for the one of the attempt that
  signs in, whose own code is the latest (`WindowInv`). `PlainSignIns` is needed: TLC finds
  `NoCodeTwice` violated with each of the four events it excludes alone: a slow gateway leaves an
  openconnect that sends its code next to the next attempt, a code shown by the page or typed is
  replaced by an earlier mark, and the end of the core forgets a window that was not noted (section 3).
- Enrolment: while setups keep apart (`~met`) `SafeInv` says whose each generator is: one job at most has one
  of its own, which is in the portal until this job removes it and is never one
  that is used; what the cleanup finds missing from its list is nobody's.
  `HeldInv` says who answers for each generator of the portal: a job that will
  store, note or remove it, the keyring, the note, or nobody who could know of it.
- Tunnel, `LifeInv` and `FileInv`: which part of `Start` has happened when a
  goroutine runs, and that the file is there only while somebody who will remove
  it is on its way. The refinement maps the phases of a run to `core`, `start`,
  `cmd` and `proxy`; its proof has one step per action.
- Tunnel, `OnceInv`: unless the timer sent it, the line held back is released by a
  prompt that comes after the password was taken. Before the second factor is asked
  for, the output holds lines of the password's form only, and the line that says
  that the sign-in failed drops the held line before a prompt can release it.
- Tunnel, `FactorInv`: what the classifier makes of the output it has not read. As long as there is
  no verdict, a line that asks for a code comes before the one that says openconnect sent its
  answer exactly when the gateway has one form, and always before the failure; the second form
  exists only at gateways with two, after the right password. `PhaseInv` says what has been
  printed at each place of openconnect. So whichever lines were read when the failure is, the
  classifier has seen what tells a wrong password from a wrong code.
- Forwarder: `Fine` and `Ordered` hold of each handler's record by itself, so a step of one handler
  is a change of one record. `DemandInv` counts: `active` is the number of handlers whose record says
  that they count, for which the steps are shown to move both together. `AwayInv`: once the gateway
  is up again, every client that was let through is among those `CloseDirect` collected under
  the daemon's lock or closed already.
- Sync, `SyncInv`: the groups that devices are in form a chain, one removal each, whose only open
  group is the end (`OneChain`), and the group a removal has made is nobody's until the old one is
  closed (`MadeByRemoval`). So a device that follows reaches a group that lists it unless it was
  removed (`SealedRows`). At the version a round has read the group still is what it read
  (`ReadInv`), as the relay takes a write only at that version; what the round notes in `sync.json` is
  therefore what the group has (`HashInv`), until another device writes. A version noted is never above the
  group's, except in a group the relay has dropped, which nobody works on again (`SeenInv`).
  `NoRevival` says that either devices are removed or the relay drops groups, in any number and in any
  order. It is needed: with both, three devices and two faults TLC finds both properties violated. A
  device that joined and whose first answer was lost is on its way to the group a removal made, which
  the relay drops meanwhile; it writes that group anew, from version 1. The row of the device that was
  removed is missing there, and it turns itself off in a group that does not list it as gone (it was
  removed, so `KeepsItsPlace` asks too much there); the settings that the remover noted as in step at the first
  version 1 are missing too, so `InStep` fails. The runs are too small for this case.
- Pairing: slot a is read once, so at most one device has a code's message and at most
  one answer is sent (`Answers`). `ClosedSoFar` follows `closeSlotsOnce`: it
  begins when the code's context has ended, and once slot a is read away and slot b
  is full or nobody has the message, no key can come. It needs that an aborted
  read is not carried out later (`~Late`). `OneByOne` and `Shown`: a code that can be answered is
  the one on the screen, because the next one is asked for when the last is over and
  `show` withdraws it first. With `Late` or `Together` TLC finds counterexamples, so
  both hypotheses are needed.
- Installation, `InstallInv`: `list` is `prev` and `folder` together from before the first file is
  placed until after the last obsolete one is dropped, so whatever is placed is listed at every
  crash (`ListInv`); what is no longer to do has the pending release's content (`PlacedIsNew`);
  what is left to drop covers what the updater put there and the release has not
  (`RestIsObsolete`). `RemovalAlone` says that install and the removal exclude each other by
  `removing` under the daemon's mutex, and `AllGone` that once the files are gone the service is
  unregistered and nothing starts a core. It assumes that the installers' own openconnect is
  neither the core's nor the app's executable, the only files the updater moves aside while they are open.
- Setup, `SetupInv`: the steps ahead are a sequence, of which the proof uses what follows what
  (`InstallOrder`: a file is noted right after it is written, a service taken out of the manager is
  put there next; `RemoveOrder`: one place for each operation) and which operations are still ahead.
  `Account`: each file is the user's, listed, about to be noted, or `lost`; a file of the user's is never listed.
  `Loaded`: with the loading behind it and no failure the service is there, and a core that runs has
  the new version, whoever started it, unless `ignored`. `TakenDown`: what a removal has behind it is gone, the service and the core unless `ignored`; as the app
  goes first (`AppFirst`) nothing starts the service once it is unregistered, and the
  installation goes only if nothing failed (`Finished`). `Gone` follows from it at the end and is
  kept, since each thing that could start something needs another one that is gone. `ignored` is needed:
  without it `RemovalIsExact` and `SetupIsTrue` are violated, which TLC shows with one fault. The proof
  found the case of `config.toml` in section 3, which takes four processes and so one
  more than the run has; the definition of `lost` says so since, and with it TLC finds no violation with
  four processes and one fault either.

Only model-checked: the liveness properties (`DisconnectReturns`,
`DisconnectingEnds`, `StopEnds`, `BlockedEnds`, `Converges`, `RightSignInComesUp`,
`StopsReturn`, `ConnectionsEnd`, `CodesEnd`, `UpdatesArrive`) and the fairness half of
`EveryKindIsLoops`, out of the prover's reach; its other half for `InProcess` and `WinTunnel`, `SignsInOnce` and
`NothingLeftOpen`, whose proofs are not written; the properties of `Proxy`, which speak of what folds over
sequences compute (the services of macOS one after the other), for which the provers have no
induction; and two properties of `Sync`. `NothingSentBack` does not hold for every constant: with two
faults TLC finds the case of section 3 (`engine.go:857`). `LaterChangeWins` needs invariants about the
changes still pending, which are not written.

## 5. Plan

1. Proofs: `LaterChangeWins` of `Sync`; the properties of `Proxy`.
2. An abstract specification of a group, a last-writer-wins register per setting,
   implemented by `Sync`; skewed clocks, the account setting.
3. `Pairing` composed with `Sync`: a join while a round of the old group runs.
4. Proofs about `InProcess`, `WinTunnel` and `Socks`; `Socks` composed with the two that use it.

### Not modelled, and why

About 30 % of the implementation's lines are in the map. The rest is
parsing, formatting and tables (`config`, `pac`, `pyjson`, `universities`),
requests and answers without state of their own (`httpapi`, most of `linotp` and `totp`),
packet I/O (`netstack`, most of `octunnel`), operating-system calls
(`credentials`, `sockowner`, `platform`, `winsys`, most of `desktop` and
`service`), questions to the user (the assistant in `setup`, `detect`, `qrscan`)
and the user interfaces. In the parts that are modelled the lines left out are of
the same kinds: status texts, command lines, paths, messages. The Python version
repeats the Go code. `PROJECT.json` has a note on each part.
