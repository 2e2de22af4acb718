# A TLA+ model of ssh-gete

ssh-gete is a gateway between AI agents and SSH hosts. An agent asks over MCP
(HTTP) for a command to be run on a stored connection, or for a session to which
it sends lines; a human approves in the desktop GUI or the web administration,
or an approval-bypass grant lets the command run at once; it runs over SSH;
everything is recorded in SQLite. This directory models the parts of that program
whose correctness depends on the order of events, checks them with TLC and proves
the central results with TLAPS.

## 1. Inventory

The program is one process (an instance lock keeps a second one away). Almost
all state hangs off `App` (`app.go`), guarded by `a.mu`; SQLite (`storage.go`), the
OS keychain, `known_hosts` and the admin's token and password files hold what
survives. Goroutines are the GUI and web calls, one per MCP request, the expiry
sweepers, one per SSH run, tab, event stream and AI session, and the shutdown.
Locks are given up between the steps of nearly every operation, every write may
be refused, and the process may die between any two steps: that is where the hard
behaviour is.

| Component (source) | State | Operations | What makes it correct | Module |
|---|---|---|---|---|
| Command requests (`approval.go`, `mcp_server.go`) | `a.requests`, `a.execs`, `execWG`, slots | `executeCommandTool`, `queueCommandWithTimeout`, `approve`, `RejectCommand`, `expireRequest`, `DeleteCommandRequest`, `runBypassedCommand`, `reserveExec`, `finishRequest` | a command runs at most once, on the host that was shown, with a durable record; slots and registry add up | `RequestLifecycle` |
| Request table (`storage.go`) | `command_requests` | insert, compare-and-swap, soft delete, recovery | it is an audit ledger | `AuditLedger`, `RequestLifecycle` |
| Shutdown and start (`app.go`, `httpguard.go`) | intake flags, listener, `a.ctx`, store | `closeExecIntake`, `stopMCPServer`, `drainMCPCommands`, `shutdown`, `NewApp` | a drain that reports done has no run left; a restart settles what was interrupted | `RequestLifecycle` |
| Idempotency, long polls (`mcp_status.go`, `approval.go`) | per-key locks, `reqCond` | `lockKey`, `existingClientRequest`, `waitForRequests` | a retry is the same request; no wake-up is lost | `ClientCalls` |
| Grants and tokens (`app.go`, `approval.go`, `storage.go`) | `a.policies`, `a.agentTokens`, the `RequireApproval*` switches, their tables | grant, revoke, limit, issue, rotate, expire, `needsHumanApproval` | memory and tables decide the same once a stored row is published; nobody uses another's grant | `AgentPolicies` |
| AI session line gate (`ai_session_approval.go`) | `aiLineGate` per session | `reserve`, `markPending`, `beginDelivery`, `finishLine`, `dropPending`, `beginClose` | only decided lines, once, in the context they were shown in; a closed session leaves no line open | `LineGate` |
| AI session registry (`ai_session.go`, `ai_session_app.go`, `ai_session_store.go`) | `m.sessions`, `byIdem`, tombstones, rows | open, close by anyone, sweep, shutdown, disable, recover | no connection without an owner; rows are closed; a retried open is one session | `AISessions` |
| Connections and credentials (`app.go`, `app_credentials.go`, `secret_store.go`) | `a.conns`, cache, session store, keychain, `secret_gc` | save, delete, passphrase opt-in, dial, collector, migration | no secret is lost, forgotten, or used for another endpoint | `Credentials`, `RequestLifecycle` |
| Terminals, serial mode (`terminal.go`, `serial_mode.go`) | tabs, device owners, output buffers | start, commit, input, resize, BREAK, settings, close | nothing runs on a closed fd; a tab that is gone leaves nothing; exit comes last | `Terminals` |
| Host keys, SSH client (`hostkey.go`, `ssh_exec.go`) | `known_hosts`, a verifier's copy | verify, authenticate, commit, reset | one key per address, and only an authenticated one | `HostKeys` |
| Web sign-in (`webauth.go`) | sessions, token and password in file and memory, limiter | login, logout, rotate, password, watch, sweep | sessions prove the current credential; guesses are bounded | `AdminAuth` |
| Event hub (`webevents.go`) | ring, queues, streams | publish, attach, kick, close, shutdown | a reconnecting browser misses nothing without a resync | `EventHub` |
| Configuration file (`config.go`) | `config_applied`, connections, settings | plan, apply, prune | every item has its row; edits survive a restart | `ConfigApply` |
| Web calls, audit log (`webserver.go`, `webapi.go`, `web_audit.go`) | in-flight counters, audit queue | `trackCall`, call, record, write, close | every call of an audited method is recorded, or logged as lost; a stop waits for calls | `WebCalls` |
| Headless process (`headless.go`) | phases of start and stop | start, apply, serve, `headlessShutdown` | composition of the two above | `Headless` |
| Risk classification (`risk.go`, scanners of session lines) | none | string scanning | — | not modelled |
| Instance lock, GUI glue, front ends, routing, parsing | — | — | — | not modelled |

Interaction: MCP handlers and GUI or web calls enter the request operations;
`needsHumanApproval` picks the queue or the bypass; both end in `reserveExec` and
the SSH run, which dials with a secret (`Credentials`) to a host it trusts
(`HostKeys`). Connection edits and shutdown reach runs through `cancelExecs`.
`AISessions` opens and closes what `LineGate` sends lines to. `AdminAuth` tells
`EventHub` which sessions ended; the calls of `WebCalls` edit the rows `ConfigApply`
reads at the next start. Each module takes the others' effects at this interface
as free choices; `Headless` composes two modules, `RequestLifecycle` refines one.

`PROJECT.json` lists the hazards of this code one by one, at the line where each
bites, with the properties that would catch it.

## 2. Modules

```
AuditLedger            what the table promises (abstract)
   ^ refined by
RequestLifecycle       requests, registry, slots, connections, shutdown, restart
   ^ extended by
RequestInvariant       the inductive invariant
   ^                ^
MC_Requests (TLC)    RequestProofs (TLAPS)

ConfigApply   WebCalls
      ^          ^
       Headless          <- MC_Headless (TLC), AuthProofs (TLAPS)

HostKeys                 <- MC_HostKeys (TLC), PolicyProofs (TLAPS)
AgentPolicies            <- MC_Policies (TLC), PolicyProofs (TLAPS)
AISessions               <- MC_Sessions (TLC), SessionProofs (TLAPS)
LineGate                 <- MC_Lines (TLC), LineProofs (TLAPS)
Terminals                <- MC_Terminals (TLC), TerminalProofs (TLAPS)
AdminAuth                <- MC_Auth (TLC), AuthProofs (TLAPS)
Credentials              <- MC_Credentials (TLC), CredentialProofs (TLAPS)
EventHub                 <- MC_Hub (TLC), HubProofs (TLAPS)
ClientCalls              <- MC_Calls (TLC), RequestProofs (TLAPS)
```

In all of them one action is one critical section, one write, one blocking call
or one wait; what happens between two of them is up to everybody else.

### RequestLifecycle

The list in memory (`memStatus`) and the table (`dbStatus`, `deleted`) are
separate variables, because they are updated by different steps and SQLite may
refuse. A *worker* is a goroutine serving an approval or an `execute_command`;
`pc[w]` says between which two lock regions or writes it is, `job[w]` holds its
local copies (the request, the connection and its `user@host:port` fingerprint,
whether it is a bypass, the outcome), `cause[w]` the cancel cause of its context.

| Place of a worker | Code |
|---|---|
| `approving` | `approve` has checked the request and copied the connection |
| `reserved` | `reserveExec` registered the run; the transition is next |
| `queueing`, `queued` | `recordCommandRequest` before the insert, before the append to `a.requests` |
| `bypassing`, `slot`, `recording`, `recorded` | `runBypassedCommand` before `acquireExec`, before `reserveExec`, before the insert, before the publication |
| `decided` | running in table and list, SSH not started |
| `ssh` | `executeSSH` is under way (one start is counted in `starts`, its target in `ranAt`) |
| `ended`, `finished` | before `finalizeRequest`, before `release` |

Decisions that take one lock region (`Reject`, `Expire`, `DeleteRequest`) are one
action each. `DeleteConnection` is three actions, because it gives up the lock
between the row, the cancel and the list. `phase` walks through `shutdown`:
`up → rtClosed → execsClosed → draining → (canceling) → drained | gaveUp →
stopping → closed → down`. `Crash` may happen anywhere; `NewApp` recovers, and
each of its two clean-up writes may fail and is then only logged, as in the code
(`orphans` are the requests a failed recovery leaves running on the screen).

Left out here: the command text and its output, risk, `client_request_id` and
long polling (`ClientCalls`), session lines (`LineGate`), GUI notifications, and
approvals of local or serial targets, which are refused before anything changes.

### AuditLedger

A row is filed `pending` or `auto_running`, a pending one is decided once, an
open one is run at most once and closed once, a closed row never changes, rows
are hidden but never removed, and not while open. `RequestLifecycle` implements
it with `row <- dbStatus`, `hidden <- deleted`, `ran <- starts`.

### ClientCalls

`execute_command` and `send_line` under a `client_request_id`: the reference-counted
lock of a key (`keys`, `refs`, `holder`: the map entry may be replaced while somebody
holds the old one), the look in memory and in SQLite, the filing. Requests end,
are deleted, grow older than 24 hours, and a restart loads only a window of the
finished ones. `get_request_status` waits on `reqCond`: enter, look, sleep, wake,
with the timer's broadcast as an action of its own.

### AgentPolicies

One record per agent for its grant and its token, in memory and in its table,
the `RequireApproval*` switches, a small clock, failing writes and crashes. A call
under `policyMu` stores a row and then, under `a.mu`, its copy in memory, in two
steps (`SavePolicy`, `PublishPolicy`; `SaveToken`, `PublishToken`), and may go on to the
other table; `mutex` holds what is stored and not yet published. Agents look at
memory in between, and the process may die there. The expiry sweep is in two
steps in the same way. An `execute_command`
authenticates, then decides in the three looks of `needsHumanApproval` (grant and
token under `a.mu`, forced grant, switches), then starts; everything else may
happen between. The connection list of a grant is reduced to one connection.

### LineGate

An AI session carries one line at a time to a long-lived remote shell (`shell`)
or to one command after the other (`exec`). `aiLineGate` holds the line in flight
(`inflight`, `phase`: reserved, pending, running), its sequence counter (`seq`) and
the context lines change: here the set `applied` of lines whose effect is in
`cwd`, `env` or `tainted`, and `snap[l]`, that set when line `l` was classified. A
line is also a command request (`status[l]`), a row of `ai_session_lines`
(`lineSeq[l]`) and an entry of the link table that tells `approve` to go through
the gate (`links[l]`). `close()` and the sweeper are goroutines of their own. `scene`
is chosen once: the mode, the lines, how many writes fail, whether the process
dies.

| Place of a goroutine | Code |
|---|---|
| `reconcile`, `saw`, `expire`, `latest`, `drop` | `reconcileAISessionLine` between its view of the gate, its two reads of the request, `expireRequest` and `dropPending` |
| `sending`, `reserved`, `queue`, `filed`, `refused`, `dropping`, `auto` | `sendSessionLine` before `reserve`, the `LineQueued` hook, `recordCommandRequest`, `markPending`, the withdrawal, `dropPendingOnClose`; before the execution slot |
| `approving`, `decided` | `approveAISessionLine` before the compare-and-swap; before `startLine` |
| `undelivered`, `settling` | `startLine` when `beginDelivery` refused |
| `running`, `checked`, `sent`, `ended`, `recorded` | `RunLine` before its checks, before `StartLine`, waiting; before `finishAISessionRequest`, before `finishLine` |

Here a request is one status: that list and table agree is shown in
`RequestLifecycle`, and a transition whose write fails changes neither. The
policies of the agent are a free choice (`AgentPolicies` has them); the session's
own conditions (a state-changing line, a tainted session) are not. A line that
ran without approval ends as `auto_succeeded` or `auto_failed` in the code; the
model keeps one name. All reasons to close (idle, lifetime, token, settings,
another target, a lost transport, a person) are the one action `CloseBegin`,
possible at any time.

### AISessions

`aiSessionManager.open` registers a session under `m.mu` and then works without
it: output, dial, row, transport. `close()` may start at any of these points, from
`closeWhere` (its goroutines are the set `told`), from a handler (`CloseSession`)
or from `watch`; `closeOnce` (`once`) lets one of them, or a failed open, through.
It waits for the opener no longer than `aiCloseGrace`, which may be over at any
time, so each of the two may find that the other was there first. A session has
the name of the call that opens it.

| `pc` of a call | Code |
|---|---|
| `registered`, `dialing`, `dialed` | before `s.out` is made, before the factory, before `onOpen` |
| `inserted`, `late`, `installing` | before `rowInserted`, before the late `onClose`, before the transport is stored |
| `abandon`, `opened` / `announce` | before `tr.Close`, before `close(openDone)` |
| `cleanup`, `clean`, `awaiting` | a failed open before and inside `closeOnce`; waiting for `s.done` |
| `waiting` | a retry with the same `client_request_id` waits for `openDone` |

`closer[s]` walks through `close()` in the same way (`notify` in a goroutine,
`handle` in a handler, then `await` to `retire`). `transport[s]` says who holds the
connection, `row[s]` is the `ai_sessions` row. The exit of the process at the end of
the shutdown grace is left out (the operating system closes what is left, and
`Recover` the rows), and so are output, interrupts and the sweeper's reasons, any
of which is a `CloseWhere` here.

### Credentials

`secretMu` admits one operation (`w`: save, delete, opt-in, collector, migration);
dials (`rd`) hold no lock while they read. The keychain is external: a write may
fail, or take effect after its caller gave up (`lock` is the write in flight); reads
of one account are shared (`gets`). `row` and `gc` are the tables, `conns` the rows in
memory, `cache` and `session` the two layers above the keychain. A password is
named by the endpoint it was typed for, so that "the wrong password" is
visible; a passphrase has one value per key path (a key that is encrypted anew
under the same path is left out). The migration goes on past a password that the
keychain finds too big and stops when the keychain is down or SQLite refuses.

Four variables are history, and the exceptions the properties state:

* `lapsed`: accounts whose bookkeeping was cut short: by a crash in an operation
  or in a keychain write, a refused write of the queue, a read shared with an older
  dial, a passphrase whose write failed, a migration that left its row as it was
  (the keychain refused, or SQLite did after the item was verified);
* `upset`: connections of which a keychain call failed or was given up, a read was
  shared with an older dial, or a crash fell between a save's first keychain write
  and its row or its rollback (`HalfSaved`);
* `raced`: dials under which their connection was forgotten;
* `stale`: connections whose cache such a dial filled since.

### Terminals

A tab (`tab[t]`) goes through `StartTerminal` (registration under `termMu`, dial or
open without it, PTY, `commitTerminal`) while other threads close it, resize it,
write, send a BREAK or change the line settings, and while its remote end may go
away. `owner` is `serialOwners`. Output passes through a bounded buffer with a
goroutine of its own; the model counts units accepted, emitted and dropped.
Operations on a serial fd are counted (`OnTheFd`), a Drain that outlives its
timeout included.

### HostKeys

A dial of one address: `begun`, `authReady`, `verifier` (the copy `kept`, `keptCAs` of
`known_hosts` is taken; in strict mode of the user's `~/.ssh/known_hosts` as well,
`user`, which the program never writes and which may have several keys), `dialled`, `verified`, `authenticated`, `open`, then a session
and a command, with the context's cancellation at any point. A GUI dial keeps an
unknown key as `candidate` and records it in `Commit`, under `hostKeyMu` and after a
second look; agents' dials and strict ones refuse it. `Rekey` changes what answers
at the address, `removeHostKeys` is the reset, and an append may be cut short
(`torn`). `CAs` and revoked keys are lines a person wrote; a revoked key is a
mismatch, as in the code. The negotiation and the
authentication are external: the server shows any key of a type that was
offered.

### AdminAuth

Each HTTP request is a handler (`req[h]`): login by token or password, logout,
rotation, password change, an authenticated call. Token and password are in a
file (which the command line may rewrite) and in memory, with a modification time
each; `watch` is the goroutine that compares the times. A write is known by its
number. Its read of the password file may fail although the file is good; memory
then gets the file's time and no hash (`webauth.go:1416-1419`). `limiter` is `loginLimiter`: in-flight and delayed attempts, fails in the
window (their times in order, of which pruning drops the lapsed front), locks,
eviction of remotes, hash slots. `wrong` is history: when a credential was compared
and found wrong. `told` are the sessions whose end
has reached the event hub.

### EventHub

`publish` numbers an event, puts it in the bounded `ring` and in each stream's
bounded queue, and kicks the streams whose queue is full; `attach` replays from
the ring or sends a resync. `clients` are the registered streams and `older` the
order in which they registered (the oldest go when there are too many). `view[b]`
is the page of a browser after the frames it received (`headless-shim.js`): the
last id, the offsets of the terminals it opened (`mine`) or has heard of (`known`),
those it takes for exited (`gone`), and `hole` if it skipped a frame. A resync
updates the terminals the page knows, ends those of them whose exit the hub still
keeps, and tells it of no other. A page may be loaded anew at any time. Sessions end in `adminAuth` first (`ended`)
and in the hub later (`told`). A shutdown discards queues and announces the last
number; a restart has a new epoch.

### ConfigApply, WebCalls, Headless

`ConfigApply`: `planSteps` matches the items of the file with rows by
`config_applied` and by name and decides create, override, keep or prune; an item
may not take a row that an earlier item of the file claimed, and the records the
file no longer has come in any order (a Go map). `applyConfig` saves a row, writes
its record and binds the item's secret in three steps, and prunes row and record
in two. A row has its authentication method and where its password comes from.
`bindConfigSecrets` is for every listed item, kept ones too, and only for a row that
(still) uses a password: `BindEnv` binds its account to the variable, `BindFile` saves
the file's password over the stored one, and `BindNothing` is an item without a
secret, or a file that cannot be read or saved, which is a note while the start
goes on. A save that would take a password row to a new endpoint may be refused
(`mayNeedPassword`). `matched` is history: the hash an item had when a step about it
last finished. `WebCalls`: a request is a call of an audited method (`call`), terminal
input or a resize, or a read (`input`: no entry of its own), a login or password change
(`admin`: not counted by `trackCall`), or a logout or token rotation (`logout`: not
stopped by `StopIntake` either). A call is admitted (`trackCall`, the limit of a
session), runs its method, is recorded in the bounded audit queue and leaves; one
goroutine writes the table. `Headless` extends
both: a start applies the file, serves calls that edit, rename and delete the
same rows, and on a signal runs `headlessShutdown` step by step, each wait with
its limit; a crash or a second signal ends the process anywhere.

## 3. Runs

| Run | Question | Bounds | Checks |
|---|---|---|---|
| `requests_contention` | two calls, one request, one connection with two endpoints, a refused write, shutdown, crash | 1 request, 2 workers, 2 targets, 1 slot, 1 fault, 1 crash; fairness | `SoundStart`, `MemoryFollowsStore`, `HonestRegistry`, `KeepsLedger` (refinement), `RunsSettle` (liveness) |
| `requests_disconnectable` | the comment in `DeleteConnection` | as small as the race | violated (finding) |
| `calls_retry` | two calls under one key, as commands or lines; a poll | 1 agent, 1 key, 2 calls, 1 poll, window 1, 2 ids, 1 mishap; fairness | `OneRequestPerKey`, `LineOncePerSession`, `PollsAreAnswered` (liveness) |
| `policies_all` | everything changes under a call that decides in several looks | 2 agents, 2 tokens, 1 call, 1 switch, clock 1, 1 fault, restarts | `RestartDecidesTheSame`, `BypassProvesIdentity` |
| `lines_gate` | sends, approvals, expiry, sweeps, close at one gate | 2 lines in a shell, or 1 in exec mode with 2 faults and a restart; 2 workers | `UnapprovedNeverSent`, `CloseSettlesLines`, `ContextIsCurrent` |
| `sessions_open` | opens, a retry, closes by everyone, disabling, shutdown, lost transports | 2 calls, 1 agent, 1 key, 1 tombstone, 1 fault | `NoTransportLeaks`, `RowsAreClosed`, `RetryGetsTheSession` |
| `credentials_save` | saves, deletions and dials over a keychain that fails or acts late, crashes | 2 connections (both or neither with a plaintext password of an older version; symmetric), 1 key path, 2 endpoints, 1 reader, 3 calls, 2 faults | `NoSecretIsLost`, `NoSecretIsForgotten`, `PasswordFitsEndpoint`, `OnlyOvertakenDialsAreStale` |
| `terminals_tabs` | two tabs and one serial device | 2 tabs, 2 threads, 2 values, buffer 1, 3 calls | `NoUseAfterClose`, `GoneLeavesNothing`, `ExitIsLast`, `LatestWins` |
| `hostkeys_trust` | overlapping dials, a changing server, a reset, a torn write | 3 dials, 3 keys, 4 servers, 2 user files, 1 change, 1 reset, 1 torn write | `OneKeyOnRecord`, `TrustFollowsAuthentication`, `NoFalseMismatch` |
| `auth_signin` | logins, rotations, the command line, the watcher, the clock | 2 handlers, 2 remotes (1 loopback), 2 fails per remote and 3 in all, 2 logins, 3 file writes and attempts, 1 tick | `SessionsProveCredential`, `EveryEndIsTold`, `AttemptsAreAccounted`, `GuessesAreBounded`, `StampMeansContent` |
| `hub_streams` | reconnects, reloads, overflow, session ends, restarts | 1 browser, 2 streams, 1 session, 1 terminal, queue 1, ring 2, 3 events, 2 epochs; fairness | `NoHiddenHole`, `CaughtUp`, `OnlyLateStreamsSurvive`, `StreamsEnd` (liveness) |
| `headless_restart` | three starts with changing files and secrets, web edits, a crash or failure | 3 files, 2 names, 3 rows, 3 starts, 2 calls, queue 1, 1 fault | `EveryItemHasItsRow`, `WaitedMeansNoCall`, `EffectsAreAudited`, `EditsSurvive` |

Why the bounds are enough. Two actors give every race on one object: a third
would need a third decision on something only one can win. `hostkeys_trust` has
three dials because a reset between two dials needs one that began before it. One
slot, one place in a queue, a ring of two make "full" happen with what two actors
do. One fault reaches every failing write, because it may strike any of them; two
are given where one operation undoes another's failure (a rollback that fails, a
recovery step that fails). Three starts are a crash halfway, a start that
continues, and one with the file put back. Where the safety properties are
proved, the theorems remove the bounds.

Each property was also tried against a plausible bug in the code it is about (a
dropped guard, a swapped order, a missing reset): `mutants` in `PROJECT.json`.

Fairness. `RequestLifecycle`: weak fairness of each worker's own next step except
the end of its remote command (goroutines run; a command may hang), of the
sweeper's tick and of the shutdown sequence (its waits have timers). `ClientCalls`:
of each poll's own steps and of its timer. `EventHub`: of each stream's serving
goroutine, whose write has a deadline. Nothing obliges a person, an agent, a
browser or a crash.

Deadlock is checked for `RequestLifecycle` and `AgentPolicies`. The other runs end
where the system really may stop: a closed session or tab, a process that is down
after its last start, an operator who has made the calls of the bound.

### Findings

`DeleteConnection` says a running command is cancelled because it would no longer
be disconnectable; a call that copied the connection before and registers after
the cancel runs on (`requests_disconnectable`; `app.go:1472`).

### Where comments and documents say more than the code does

Met while modelling; the properties state the exact form, with these cases as
their exceptions.

Requests, grants and AI sessions:

* `RevokeAgentToken` (`app.go:1921`) says a re-issued token does not inherit the old
  grant; a crash between its two writes leaves the grant (`app.go:1934`).
* `mcpCaller` says a request authenticated just before a token rotation is not
  auto-executed after it; a rotation after `agentBypassCovers` comes too late for
  the call under way.
* `IssueAgentTokenWithBypass(false)` is said to issue a token that can never
  bypass; a later grant turns the flag on.
* `release` is said to drop a line that was never recorded; after `server_busy` the
  row with its sequence number is stored and the number given back
  (`ai_session_approval.go:1096`), so later lines meet the unique key.
* `markPending` is said to be false only when the session is closing; it is also
  false when an approval delivered the line first, and the agent is told
  `session_closed` while its line runs.
* `reconcileAISessionLine` spares a line that is about to be delivered, but not in
  its expiry branch: an approval that wins at the deadline loses its slot.
* `finishAISessionRequest` leaves a line running if SQLite refuses its outcome,
  unlike `finishRequest`.
* A session line is said never to run as a plain command; a start whose recovery
  and link load both fail lets `approve` do that.
* `close` says it cancels the open in progress; between the registration of a
  session and the assignment of `s.out` it dereferences nil (`ai_session.go:758`).
* A retried `open_session` is said to return an open session; between
  `close(openDone)` and the clean-up of a failed open it returns the failed one.
* `send_line` looks for its `client_request_id` in memory only, and
  `existingClientRequest` takes a read error for "not found": a key whose request
  was deleted, or is outside the window loaded at the start, can be used again,
  although `phase7-ai-session.md:107` says the existing request is returned.

Secrets, terminals and host keys:

* A reader between its read and the cache survives a forget
  (`app_credentials.go:108-118`): an overtaken dial leaves the older password in the
  cache until the connection changes again. TLC finds this; the property is that
  nothing else does. A keychain read may be shared with one begun before
  a write (`secret_store.go:253`, comment at 171). A crash in the middle of a save
  leaves the new endpoint's password beside the old row (`app.go:1267-1331`).
* The failed write of a passphrase queues nothing though it may take effect later;
  the late write of a migrated password may outlive its deleted row; so may one
  whose process died between keychain and row. A migration whose row SQLite
  refuses leaves the plaintext and an item that nothing refers to
  (`storage.go:1915-1934`).
* `StartTerminal` reads the connection before it registers the tab, so that a save
  in between reaches no tab; two overlapping saves of serial settings may reach an
  open tab in either order (`app.go:1185`).
* A verifier judges by the copy of `known_hosts` it took; a torn append makes every
  later dial fail, and a reset keeps the torn line.

Web administration and headless mode:

* A login past its comparison survives a rotation; an event stream past
  `requireSession` survives the end of its session. `handleRotate` may pair its
  value with the time of a later write of the file (`webauth.go:819` and 205).
* `WaitCalls` does not count logins, password changes and rotations;
  rotations and logouts are served after `StopIntake` too (`webserver.go:901-903`);
  `webCallHandler.StopIntake` is never called.
* `SendTerminalInput` and `ResizeTerminal` leave no entry of their own in the audit
  log (`webapi.go:76-79`; the closing entry of a tab has its byte count).
* A failed read of a good password file keeps the password login off until the
  file is written again, because the watcher then takes it for read
  (`webauth.go:1416-1419`).
* Changes in the web administration are said to win for an unchanged item
  (`docs/headless.md:132`); a `passwordFile` is saved on every start, also over a
  password typed there. A row changed there to a key is left alone, and a listed
  row deleted there is made again.
* An override or an enforced item that takes a password row to another endpoint is
  refused with `password_required`, so that the start fails (`app.go:1317-1322`,
  `config.go:1145-1147`), although `bindConfigSecrets` would bring the password.
* An item matched by name adopts a row made in the web administration, which
  `prune` may later delete (`config.go:921`; `docs/headless.md:135` says prune is
  about the file's own rows). A step that keeps a row does not update its record's
  id (`phase6-headless.md:203`).
* A row claimed by a crashed start, or a web rename beside a new row, can make
  every later start fail with a duplicate name; a crash halfway and a reverted
  file leave half-applied values. Two records can name one row (an item adopts by
  name the row another item was renamed away from); pruning both fails that start
  once, and the next one succeeds (`config.go:1165`).

## 4. Proofs

The eight proof modules hold for every value of the constants: the bounds on
calls, failures, writes and clock ticks are constants too, so no result depends on
their size. Every safety invariant and every action property that a passing run
checks is stated by a theorem. Each rests on an inductive invariant that TLC checked
on the small instance, and mostly on larger ones, before it was proved, with a lemma
per action. Three proof modules extend two specifications and have a section for
each (`RequestProofs` also `ClientCalls`, `PolicyProofs` also `HostKeys`, `AuthProofs` also
`Headless`); for this the specifications have names like `CallsSpec`, `HostKeysSpec` and
`HeadlessSpec`.

`RequestProofs`, from `ConstantsAssumption` (finitely many workers, natural bounds,
"none", "gone" and "serial" outside the id sets):

* `OwnershipHolds`: `Spec => []OwnershipInv`;
* from it `TypeCorrect`, `StartsAreSound` (from `AtMostOnce`, `StartsAreAudited`,
  `RunsWhereRequested`, `HiddenRowsRest`), `ListFollowsTable`, `RegistryIsHonest`
  (from `DrainIsComplete`, `SlotsNeverLeak`, `CountedAreDecided`);
* `ImplementsLedger`: `Spec => KeepsLedger`, the refinement of `AuditLedger`.

None of the safety properties is inductive. "Started at most once" depends on a
worker at `decided` being the only one for its request and the request having no
start yet; that depends on the transition from `pending` being won only while list
*and* row say pending, which in turn needs that a call filing a request is the
only one that knows it. `OwnershipInv` says this place by place: `JobsFit`,
`FilersOwn`, `DecidersKnow`, `RunnersOwn` (what a worker at each place owns),
`RowsHonest`, `MemoryFollowsStore`, `RunningIsRun` (what rows and list say),
`RegistryExact`, `DownIsEmpty` (registry and restart), `SlotsBalanced`. Each action
has a lemma: two steps for its effect, then one per conjunct. The slot count uses
the cardinality theorems; type correctness needs it, because a release decrements
the count. The refinement proof reads off the invariant that each write of the
table is one of the ledger's steps.

`RequestProofs`, `ClientCalls` section, from `ClientCallsAssumption` (finitely many calls, 0 is
none of them):

* `FilingInvariant`, and from it `RetriesFileOnce` (`OneRequestPerKey`) and
  `LinesAreSentOnce` (`LineOncePerSession`). The lock of a key is a map entry that the
  last user removes, so mutual exclusion depends on counting: `LocksFit` says that
  `refs` is the number of calls that refer to a lock, that all calls of a key refer
  to the same one, and that whoever is inside holds it. `LooksHold` is what a call's
  look is still worth when it files, `LiveLines` that a line of the open session is
  in memory or about to be, which makes the look in memory alone enough for lines.

`PolicyProofs`, from `PolicyConstants` (a grant lasts at least a tick; "none" is no
agent and no token):

* `PolicyInvHolds`, and from it `IdentityIsProved` (`BypassProvesIdentity`) and
  `RestartChangesNothing` (`RestartDecidesTheSame`). Between its two steps a call has
  stored what memory does not have, so the tables are compared with memory as it
  will be when the holder of `policyMu` has published (`MemoryFollows`); `HolderFits`
  says what a holder may carry. Even then a row and its copy in memory need not be
  equal: `saveAgentPolicy` stores a grant that is off without its end, and two
  grants that are off decide alike whatever else they say (`Alike`). Identity needs
  two facts that survive every rotation: a token is filed only under the agent it
  was generated for (`TokensAreOwn`, in memory *and* in the table, because a restart
  loads the table), and a call that presented one is that agent (`CallsAreOwn`).

`PolicyProofs`, `HostKeys` section, from `HostKeysAssumption` (a server shows keys and
certificates, and of plain keys at most one of a type, as sshd does):

* `OneKey`, `TrustIsEarned`: the two invariants of `hostkeys_trust`. They follow from
  `TrustInv`: a candidate is a key that was shown to a GUI dial, and is proven once
  that dial has authenticated; so what `Commit` records is proven, and its check
  under the lock keeps a second key out.
* `NoFalseAlarm`: the action property `NoFalseMismatch`, from `KeepInv`: the types a
  dial offered are those of its copy of `known_hosts`, so a server that still has
  the recorded key shows that one; in strict mode the copy is of two files, and a
  mismatch means that the key of *some* recorded type has changed.

`SessionProofs`, from `SessionsAssumption` (`"none"` and `"error"` name no call):

* `SessionInvHolds`, and from it `TransportsAreOwned`, `RowsGetClosed` and the action
  property `RetriesGetTheSession`. An open and the close of its session overtake each
  other at every release of the lock, so the invariant says for each place of the
  opener who has the connection (`Owned`), what `close` may rely on (`Closing`: it is
  alone, and a connection installed before it looked is the one it grabbed), and
  which of the two will record the end (`Rows`: `rowInserted` and `closeRecorded`
  together decide it).

`LineProofs`, from `GateAssumption` (the sweeper is no worker, "none" no line):

* `GateInvHolds`, and from it `OnlyApprovedLinesAreSent`, `ClosedMeansSettled` and the
  action property `LinesMeetTheirContext`. Safety needs `Serves`, `Holds` and `Alone`:
  where a goroutine is says what its line's status can be, whoever delivers has the
  slot, and no line has two runners. Settling needs the opposite direction: a line
  that runs *has* a runner and one that waits is the gate's or about to be withdrawn
  (`Cared`), and the slot is never left to nobody (`Slot`); these hold while SQLite
  has refused no write.

`TerminalProofs`, from `TabsAssumption` ("none" is no tab, device, value or number,
the output queue holds at least one unit):

* `TabsInvHolds`, and from it `ClosedPortsAreNotUsed`, `GoneTabsLeaveNothing`,
  `ExitsComeLast`, `TheLatestWins`. `Works` says for each place of a thread what it
  may rely on without a lock; `Fd` that the fd is open while a use is counted;
  `Window`, `Line`, `Carried` and `Coming` that the stored size and settings have
  arrived or somebody carries them, at a generation nobody overtakes. The last is
  what makes `LatestWins` inductive: what one thread carries may be stale, if
  another, later one is on its way.

`AuthProofs`, from `AuthAssumption` (finitely many handlers, limits above zero):

* `AuthInvHolds`, and from it `SessionsAreProved`, `EndsGetTold`, `NoAttemptIsLost`,
  `StampsAreHonest`. `Shows` records for each login in progress what its comparison
  proved, as of the generation it read; a change of a credential makes a new
  generation, so nothing older can claim it. `Told` says that only those about to
  call `fireInvalidated` hold dropped sessions; for the surplus of a new login it
  needs that the n oldest sessions exist, proved by counting (`OldestExist`: the
  number of older sessions is an injection into 0..n-1, hence onto). `Accounted`
  relates the limiter's counters to sets of handlers, and eviction to entries that
  count nothing (`RoomKeepsAttempts`). `Stamped` says of every time stamp, in memory
  or on its way there, that the file still holds what was read, or nothing was
  read, if it still has that time; it rests on `Stat` coming before the read.

* `GuessesStayBounded` (`GuessesAreBounded`), from `GuessInv`: for every later time of
  the clock, the wrong comparisons still in the window then are at most the failures
  the limiter knows plus the handlers that have yet to report one, once a lock is
  over; and a lock begins only when nothing else is in flight. It has to speak of
  every later time, because ticks move the window past both lists at once. The
  recent ones in a list of times in order are counted as a set of indices, which
  pruning moves by a bijection; so no induction over sequences is needed.

`AuthProofs`, `Headless` section, from `WebCallsAssumption` (natural bounds) and, for the
configuration, `ConfigAssumption` (no name twice in a file, which `validateConfig`
refuses; the keys of items and of sections differ):

* `HeadlessInvariant`, and from it `NoCallUnderShutdown` (`WaitedMeansNoCall`) and
  `CleanStopsAudit` (`EffectsAreAudited`). `CallsCounted`: the counter of `trackCall` is
  the number of calls between admission and leaving, and `WaitCalls` answers only
  after admission has ended. `EffectsKept`: an audited method that ran is in the table or
  reported lost, in the queue, or with a handler that finds the writer open.
* `ConfigInvariant`, and from it `ListedItemsHaveRows` (`EveryItemHasItsRow`) and the
  action property `StartsKeepEdits` (`EditsSurvive`), across any number of starts,
  crashes and failing writes. The plan is computed once and carried out against a
  table that changes under it, so `PlanFits` says what stays true of the steps to
  come: no two are about one item (`KeysApart`), no item's row is another's or one
  that prune takes (`RowsApart`, from the claims in `planSteps`), and records say what
  the plan relied on (`RecordsFit`). `MatchesRecorded` carries this from one start to
  the next. The proof showed that an earlier, per-row form of `EditsSurvive` was too
  strong beyond the bounds of the run: an item that meets another row, is changed
  and changed back, is a change to the program.

`CredentialProofs`, from `CredentialsAssumption` ("none" and "down" are no secret and no
name of an operation):

* `StoreInvariant`, and from it `SecretsHaveTheirType`, `SecretsAreNeverLost`,
  `SecretsAreNeverForgotten`, `PasswordsFitTheirEndpoint`, `OtherDialsAreCurrent`
  (`OnlyOvertakenDialsAreStale`).
  `secretMu` admits one writer, but a keychain call may act after its caller gave
  up, and a dial reads without the lock. So the invariant follows a secret through
  the writer: what it may have overwritten and still knows (`OldIsKnown`), what it
  wrote and relies on (`WritesKept`), which keychain calls may still act
  (`LocksHeard`), and what a shared read may still deliver (`SecretsKept`,
  `PasswordsFit`, `CacheFits`). `TablesAgree` says where rows and memory may differ.

`HubProofs`, from `HubAssumption` (queues, ring and limits hold at least one):

* `HubInvariant`, and from it `NoEventIsMissed` (`NoHiddenHole`),
  `DrainedStreamsAreCaughtUp` (`CaughtUp`), `ClosedSessionsKeepNoStream`
  (`OnlyLateStreamsSurvive`). The ring forgets, so what a browser knows cannot be
  compared with it: the invariant says that *some* history `L` of the epoch exists
  (`HistoryFits`) of which the ring is the end, of which each stream's queue is a
  piece without a gap, and whose entry at a page's number has the offsets of every
  terminal that page knows or opened. TLC checked this with the history as an additional variable.

Only model-checked: liveness (`RunsSettle`, `StreamsEnd`, `PollsAreAnswered`), because
of fairness and ENABLED. `RunsAreDisconnectable` is the property that fails.

## 5. Plan

Modelled: every component of the inventory whose behaviour depends on order.
Next:

1. The output rings of AI sessions with their cursors, as a refinement of an
   append-only log with a window.
2. The file store of secrets (replacement of the file, its lock), batches of
   approvals, listener reconfiguration.

## 6. Not modelled

Byte streams (SSH channels, PTYs, serial lines, output rings), cryptography, JSON
and HTTP parsing, the shell scanners of `risk.go` and of session lines (character
by character, without state; their table tests serve them better), parsing and
validation of configuration files, schema migration, the file and environment
stores of secrets, jump hosts and proxies, the instance lock (one flock call, which
every module assumes), the Windows variants of terminals, GUI and front-end code.
Time is a flag or a small clock; the 24-hour and per-minute limits are not counted.
