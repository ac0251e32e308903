# Liquid Formula: TLA+ models and proofs

Liquid Formula is an OpenWrt package. A Go daemon (`sb-sub-c`, "the converter")
downloads a proxy subscription and templates, keeps them as a *last known good*
cache and serves generated sing-box configurations over HTTP; shell scripts start
it, update it and install its output; a LuCI application drives both through
`rpcd`; two small C daemons (`fakehttp`, `fakesip`) are started and stopped with
the WAN link. This directory holds TLA+ modules of that system, the TLC
configurations that check them and the theorems proved about them.

Paths: `LF` is `src/openwrt-feed/liquid-formula`, `LUCI` is
`src/openwrt-feed/luci-app-liquid-formula`.

## 1. Inventory

| Component | State | Operations | Talks to | Hard behaviour |
|---|---|---|---|---|
| Cache transaction, `LF/src/internal/cache/batch.go` | staged, backup and formal files of one batch | `NewBatch`, `Stage`, `Commit`, rollback, `Abort`, cleanup | file system | failure or kill between any two file operations; a rollback that fails itself |
| Refresh data plane, `LF/src/internal/{refresh,handler,fetcher,watcher}` | cache files, snapshot in memory, one permit | `refreshAll`, `refreshTemplate`, `reloadSnapshot`, `/refresh`, `/subscribe`, ticker, cache watcher | remote servers, HTTP clients | clients that disconnect while queued; watcher events of the converter's own renames; failed refreshes must leave the snapshot alone |
| Server lifecycle, `LF/src/cmd` | current instance, terminal error, shutdown once-guards | `Reload`, `Shutdown`, `watch`, config watcher, signal loop | data plane, kernel (listener) | reload, self-inflicted failure and signal at once; five-second shutdown timeout; close-only `done` |
| Configuration, `LF/src/global/config.go` | loaded configuration | `Load`, `LoadCandidate`, environment overrides, `Validate` | lifecycle | invalid candidate keeps the old instance |
| Subscription parsing, `LF/src/internal/subscription`, `LF/src/pkg` | none | decode, normalise, expand | data plane | text conversion |
| Directory locks: `update.lock`, `lifecycle.lock` (`update.sh`, `init.d/liquid-formula`, rpcd) | directory, `owner` and `delegate` records | claim, recover, delegate, release | every shell entry point | kill between any two commands; stale decisions; orphaned children |
| Service control, `init.d/liquid-formula`, `update.sh`, rpcd, `overview.js` | procd's instance `main`, lifecycle lock, `STARTED_CONVERTER` | reload trigger, page reconciliation, service actions, temporary start, exit trap | procd, UCI | refused operations are not repeated; respawn delay; signals; failed generation |
| Output installation, `update.sh` 576-704 | profile, candidate, at most five backups | validate, compare, back up, rename, prune | sing-box runtime | kill between two commands |
| Generator, `generate-config.sh` | `config.yaml` | UCI to YAML, validate, rename | service control | atomic replacement |
| rpcd update jobs and templates, `LUCI/root/usr/libexec/rpcd/liquid_formula` | `action.lock`, `ready`, `action.state`, `template.lock`, templates | start a job, hand the lock to the worker, time out, write and delete templates | update.sh, UCI | hand-over between two processes; template and UCI must change together |
| DPI service scripts, `LF/files/etc/init.d/{fakehttp,fakesip,liquid-formula-boot-delay}`, hotplug, `service-common.sh` | boot state, link state, WAN state, procd instance, firewall rules | boot, manual start, stop, reload, link up/down, boot delay expiry | procd, netifd, nft/iptables | boot delay against a link event against a user |
| C daemons: processes, `LF/src-dpi/*/src/{mainfun,nfqueue,process,signals}.c` | netfilter queue, child commands, exit flag | start-up, packet loop, tear-down | kernel, procd, init script | partial start-up, tear-down order, signals between a test and a system call |
| C daemons: firewall rules, `{nfrules,ipv4ipt,ipv6ipt,ipv4nft,ipv6nft}.c` | the rule set | four set-ups and clean-ups per program | nft, iptables | half-made rules see packets; leftovers of a killed process |
| C daemons: packets, `{rawsend,srcinfo,ipv4pkt,ipv6pkt}.c` | ring of peers, ring of payloads, bound sockets | one handler per queued packet | kernel | decisions from a record of an earlier packet; a send that fails half-way; option lengths taken from the packet |
| C daemons: options, `{mainfun,payload,portmap,globvar}.c`, `init.d/{fakehttp,fakesip}` | `g_ctx` | UCI section to command line to context to payloads | init scripts, LuCI | two validations of the same settings; orders turned round twice |
| LuCI tuning, logo, upload scripts | system settings and files | apply, roll back | system | partial failure |
| LuCI views | form state, polled status | save, apply, reconcile | rpcd | decisions from a stale status |
| Installation defaults, build, release | - | - | - | not part of the running system |

What makes each of the modelled parts correct:

- **Cache transaction**: all or nothing for every error; a kill never loses the last
  good version of a file; no leftovers after an ordinary error.
- **Data plane**: one writer; memory equals disk at rest; the snapshot never goes back;
  a client that is told "refreshed" sees at least what the remote served when it asked;
  a failure never takes away what was served before; whoever waits for the permit gets it.
- **Lifecycle**: one server at a time; nothing of an old instance survives it; a failure
  is never reported as a clean exit; a signal ends the process whatever else happens.
- **Locks**: mutual exclusion, and no leftover of a killed run wedges the lock.
- **Background jobs**: one at a time; the page is told of the one that works; what a killed
  one has left does not refuse the next.
- **DPI services**: a stopped or waiting daemon stays down whatever event or timer was on
  its way; an allowed one ends bound to exactly the links that are up.
- **DPI daemons**: a serving process has its rules, rules have a process that reads the
  queue, and a stop leaves none, whichever processes meet.
- **DPI rules**: complete rules queue exactly the configured packets; incomplete ones, at
  whatever command they stop, none beyond them, above all not the daemon's own decoys.
- **DPI packets**: a decoy leaves for the packets the settings ask for and no others, out of
  the interface of the packet, and dies before it reaches the peer; the real packet goes on
  exactly once and, but for a Fast Open cookie, as it was.
- **DPI options**: what the init script accepts the daemon starts with and means the same.
- **Service control**: a temporary converter does not outlive its run; a run never stops
  the user's service; the service ends up as the saved switch says.

## 2. Modules

| Module | Role | Extends / instantiates |
|---|---|---|
| `AtomicStore` | abstract specification: the whole cache changes in one step or not at all | - |
| `CacheBatch` | the transaction, one action per file operation | instantiates `AtomicStore` (refinement mapping) |
| `CacheBatch_proofs` | theorems about it, the refinement among them | `CacheBatch`, `TLAPS` |
| `Refresh` | permit, snapshot, requests, ticker, watcher | - |
| `Refresh_proofs` | theorems about it | `Refresh`, `TLAPS` |
| `ServerLifecycle` | supervisor, instances, config watcher, main loop | - |
| `ServerLifecycle_proofs` | theorems about it | `ServerLifecycle`, `TLAPS` |
| `OwnerLock` | the `mkdir` locks, plain and with delegates | - |
| `OwnerLock_proofs` | theorems about it | `OwnerLock`, `TLAPS` |
| `ActionJob` | rpcd's background jobs: lock, hand-over to the worker, state, status | - |
| `ServiceControl` | who starts and stops the converter | - |
| `Backend_proofs` | theorems about both: the rpcd backend and the service control it takes part in | `ActionJob`, `ServiceControl`, `TLAPS` |
| `DpiService` | when a DPI daemon runs: boot wait, link events, user, settings | - |
| `DpiService_proofs` | theorems about when a daemon runs and about its firewall | `DpiService`, `DpiRules`, `WellFoundedInduction`, `TLAPS` |
| `DpiDaemon` | the processes of a DPI daemon: queue, firewall rules as a whole, signals, the script's clean-up | - |
| `DpiDaemon_proofs` | theorems about it | `DpiDaemon`, `TLAPS` |
| `DpiRules` | the firewall commands one by one, and what the rules do to a packet | - |
| `SourceTable` | `srcinfo.c`: the ring of peers | - |
| `DpiOptions` | operators: UCI section, command line, context, payloads, port map | - |
| `DpiPackets` | what a daemon does with each packet of its queue | `DpiOptions`, `SourceTable` |
| `DpiPackets_proofs` | theorems about it | `DpiPackets`, `FiniteSetTheorems`, `WellFoundedInduction`, `TLAPS` |
| `MC*` | values for the constants | the module of that name |

The composition is by abstraction: `Refresh` uses the three outcomes of a commit that
`CacheBatch` establishes; `ServerLifecycle` treats the data plane as workers that obey
their context and requests that take any time; `ServiceControl` treats the lock of
`OwnerLock` as one variable and the process as down, starting or healthy. Of a DPI daemon
`DpiService` says when it runs, `DpiDaemon` how its processes meet (rules made and removed
as units), `DpiRules` what the single commands do, and `DpiPackets`, which extends the table
and the options, what a serving process answers.

### CacheBatch and AtomicStore

State: for each destination its formal file (a generation number, or absent), the staged
file and the backup; the position of `Commit`'s loops; the batch's phase. One action per
`CreateTemp`/`Link`/`Rename`/`Sync`/`Remove` of the code, each with its failure, `Crash`
(kill, at any point) and `Restart`. `Cleanup` and `Abort` are whole-handler actions.
`ImplementsAtomicStore` maps the formal files to the abstract store, read through the
backups while a transaction is in flight. The abstract store replaces the whole cache in
one step (`Replace`); it also says what the code concedes: a kill or a rollback that fails
itself may leave it torn (`Interrupt`), until a later transaction resumes from there.

### Refresh

Contents are version numbers: `upstream`, `disk`, `snap`. `Manager.Do` is
`Call`/`Acquire`/`Abandon`/`Release`; the work under the permit is fetched file by file,
staged, committed (backup, the renames, success or rollback) and put into the
snapshot. `Procs` are the request goroutines, the updater (initial fetch and ticker) and
the watcher. A request may be cancelled at any time; the watcher sees events only for
watched files and after its debounce; files may be edited, damaged or removed from
outside (`Edit`); with `RestoreFails` a rollback may leave files replaced.
`missed` remembers that a file changed after the first load and before the watcher ran:
no event exists for it. The history variables `had` and `want` are written when a request
arrives and read by properties only.

### ServerLifecycle

`phase`, `listener`, `workers`, `handlers`, `shut`, `serr`, `observed` per instance;
`done`/`terr` of the supervisor; the position of `Reload`/`Shutdown` under the mutex; the
config watcher with its debounce; `main`'s select. A fault set chooses which of accept
failures, bind failures, invalid candidates, watcher failures and requests longer than
the shutdown timeout may happen.

### OwnerLock

One action per shell command that touches the directory: `mkdir`, `mv` of the prepared
record, the tests of the wait loop, `rmdir` after the wait, read, judge (is
`/proc/<pid>/stat` start time the recorded one?), compare, `rm`, `rmdir`. Both forms of the
lock are behaviours of the one module (`Forms`, chosen at the start in `guarded`); a run
gives up after `Attempts` looks at the lock. The guarded form adds the delegate record of an init child (`ln`, which never overwrites) and the second
read of the owner. `Die` and `KidDie` kill a run or its child between any two commands.
The two-second wait is the code's own assumption about time: a run that had made its
directory before the wait began has published by its end (`watched`), a run that makes it
during the wait may not have. `robbed` records that a step took apart what a live run had
made; `met` the runs that were ever alive together with another.

### ActionJob

One call of rpcd (`Caller`) and one background shell (`Worker`) per job; the caller's and the
worker's records carry the same token, so a record is a process and its job. `Acquire` is
`_lock_acquire`, whose recovery also removes `ready`; `Spawn` is `_spawn_update` from the
running mark to the worker's report; `ReleaseToken` is `_lock_release_token`, which both may run.
`Go` lets the worker pass `ready` or give up after its five seconds: time is not counted, so
the caller may always be slower. `Die` is a kill of either between any two commands; update.sh
itself goes on when its worker is killed and has `update.lock` for that. `StatusReads`,
`StatusLooks` and `StatusAnswers` are what one `status` reads of state, lock and `/proc`, for a
page that has been answered "queued". `mishaps` are the three ways in which the lock can be
lost or borrowed; the properties are about behaviours without one (section 3). Its
specification is called `JobSpec`, so that one module of proofs can be about it and about
`ServiceControl`.

### ServiceControl

The saved switch and whether the settings generate; procd's instance, tagged with who
published it, and its process; the lifecycle lock; and one program counter each for the
init script's reload, rpcd's action under the lock and the run of update.sh. `ui` counts
the pages that have something to reconcile. Each decides by a status it has polled
(`UiDecide`: a call, or nothing to do) or drops the matter (`UiDrops`: every poll failed,
`doAction` found it busy, the user left it); `calls` are its calls on their way to rpcd,
where any number of pages and the Restart button (`UiRestart`, whatever the switch says)
meet, and one that finds the lock held is refused for good (`RpcEnter`). A start whose
generator fails publishes an empty service (rc.common closes the service after every
`start_service`). `rc.common`'s second attempt of a failed reload and procd's respawn are
outside the repository and modelled as they are used by it. The history variable `hit`
remembers which faults have happened; properties use it for the promises that a fault
takes away. `calm` and `decided` tell the saves whose promise is kept from those that met
a service action and may be lost (section 3).

### DpiService

One DPI daemon; the script of `fakesip` differs from that of `fakehttp` in its settings
only. `boot`, `link` and `stored` are the three state files; `ctx` is what the holder of
`procd_lock` still has to do and stands for the nested `start` with its
`LFDPI_SERVICE_CONTEXT`; `start` is a start of its own between its decision and its
publication by rc.common. `Runs` and `BootAfter` are the context switch of
`fh_start_service_locked`, `Bound` is what validation and WAN resolution leave. Link
changes queue up in netifd (`events`), the hotplug script looks at the settings without a
lock and passes one on (`hot`), and the init script looks again under the lock. The
scheduler reads the settings (`sched`) before it takes the flock; its runner is the timer.
Each link is a network with its device; those in `Vanishing` have no device while they are
down (PPP), which fails the validation of a selected device.

Whether rc.common's `start` takes `procd_lock` is a matter of the OpenWrt release, not of
this repository; `StartLocks` has both cases. Type correctness, `WaitIsTimed` and the
first two conjuncts of `StopHolds` hold in both; `FollowsLink` and the last conjunct of
`StopHolds` are claimed for a `start` that takes it: otherwise a reload, a stop or a link
event between the release of the flock and the publication is overwritten by an old
decision.

### DpiDaemon

The processes that `DpiService` starts and stops, one after the other or at once: procd
only sends SIGTERM (and SIGKILL `term_timeout` later) and forgets the instance. Each
process goes through `main` (`proc[i].at`): preparation, `fh_nfq_setup`,
`fh_nfrules_setup`, `fh_signal_setup`, the loop, `fh_nfrules_cleanup`, `fh_nfq_cleanup`.
Every nft or iptables command is a child (`child`) that takes effect some time between
`Fork` and `Reap`; a process that dies, or is interrupted in `waitpid` during its
tear-down, leaves it behind (`stray`) to end at its own time. `fw` has for each address
family what the commands tell apart: the table or chains, the number of jumps into them,
whether the queue rules and the interface's jump are there, and who made them. Before the
handler is installed SIGTERM kills; after it the loop sees the flag, but only with the
next packet when the signal falls between the test and `recv`. Script and processes remove
the same rules in any interleaving. With iptables one removal takes one jump and a chain
cannot be removed while there is one; the script removes all.

`script` has up to `MaxScripts` operations of the init script at once. Each begins with
`procd_kill` and the clean-up (`ScriptKill`, `ScriptClean`). A reload, a link event and the
boot timer go on with the nested `start`, which does both again (`ScriptAgain`), and
rc.common publishes what it has defined (`ScriptPublish`); a start of its own does the last
two parts, a stop the first. The conditions of `ScriptKill` are the two locks: `procd_lock`
keeps stops, reloads, link events and timers apart but may not cover a start of its own
(see `DpiService`); the flock covers all but a stop's kill and clean-up
(`service_stopped`), and a start of its own gives it up before it publishes. Where two
operations run beside each other, `crossed` is set until the next operation that begins
alone. An operation that does nothing to process and rules (a link event that does not
match, a boot wait that goes on, a start whose boot state cannot be written) is none here.

One interface stands for all; commands that only repeat another one's part (the three
chains, the address lists) are one: `DpiRules` has them singly, for one process at a time.

### DpiRules

A behaviour is about one program, tool and address family. The hooks and chains of nft and
iptables have one form: `S` looks at what comes in, `D` at what goes out, both may jump to
`R`. `fh_ipt4_setup`, `fs_nft6_setup` and the six others are sequences of commands
(`Making`, behind the clean-up that each set-up begins with); `Execute` runs the next one,
`ExecuteFails` is a command that fails or is impossible in the state it meets (a jump to a
chain that is not there, a chain deleted while something refers to it); one whose result
the code looks at then leads to the clean-up. `nft -f` is one command that does all or
nothing. `Decision(p)` is what the rules do to a packet: first match, with jumps. A packet
has its direction, interface, the other side's address (the narrowest prefix of the rules'
lists that it is in), its mark as a set of bits, and its kind (what the length and flag
matches of the rules tell apart).

### SourceTable, DpiOptions, DpiPackets

`SourceTable` is `srcinfo.c` with a history of all that was put. `DpiOptions` are operators:
the init script's validation (`fh_validate_config`), the command line it writes (`FhArgs`),
`main`'s option loop (`Getopt`) and the checks behind it (`FhParse`), the sizes of the payloads and their ring.
A payload is an identity and a length, a port list a sequence of ranges, an interface name
its identity and its length.

In `DpiPackets` a daemon is a single thread that handles a packet in one step
(`callback`): parsing, the decision, the ring, each of the `repeat` sends, any of which may
be the last to succeed. A behaviour is one *scenario*: a program with a UCI section (or a
bare command line) and the packets it may meet. Between two packets the distance to a peer
may change (`Reroute`). The TTL of a peer's packet is what its system starts from less its
distance; sequence numbers wrap at `SEQ`, which stands for 2^32; TCP options are bytes.
Checksums, the IP identifiers and the text of the payloads are left out.

## 3. Runs

| Run | Question | Bounds |
|---|---|---|
| `batch_faults` | all or nothing, nothing lost, no leftovers, and the refinement of the abstract store, under failures, failing rollbacks and kills | three files, two generations: "first, middle, last" of every loop, and a second batch over the remains of the first |
| `refresh_order` | truthful answers, no regression, last known good, memory equals disk | one request, updater, watcher, one template, three versions in play, failing restores |
| `refresh_edits` | memory gets to equal the disk after an outside edit; everybody who waits for the permit returns | updater and watcher over three files, so that events of different files meet; one edit; no request (see Fairness) |
| `server_faults` | one server; no lost failure; signals and failures end the process; a change is loaded | three instances, two changes, one request, every fault: a reload in the aftermath of a reload |
| `lock_kills` | exclusion and no wedge, both forms of the lock | three runs at once, two kills, one init child each, two looks at the lock: two recoverers and a newcomer, and giving up |
| `lock_mutex` (violation) | plain mutual exclusion | three runs, two at a time |
| `job_kills` | the page sees the job that works, no leftover refuses the next call | three calls with their workers, one kill, one file that cannot be written, two looks at the lock, one status at a time: a call beside the recovery of another, and a third one alone with what they left; after a mishap, of which no property speaks, only two calls without faults are followed (`Claimed`) |
| `service_faults` | temporary converter removed; user's service kept; the switch decides | two saves with their pages, one Restart at a time, two runs, every fault: a save that meets the reload, the page or the run of another, and a second run over what the first has left |
| `dpi_events` | stopped stays stopped, the boot wait holds and ends, the daemon follows the links | two links (one vanishes), two link changes, one save, one order, two boot waits, uptime up to the longest delay |
| `dpi_daemon` | a serving process has its rules, rules have their process, a stop leaves none | nft or iptables, both families, three processes; either two operations of the script one after the other (start and stop, or a restart) with one kill besides those of procd and one failing command or call; or two operations beside each other; or a third one, alone, after two of either kind (`Followed`); recv errors without bound |
| `dpi_rules` | complete rules mean their configuration, incomplete ones nothing beyond it | both programs, tools and families; three starts among three configurations, one kill, three failing commands; every prefix of the lists, marks inside and outside the mask |
| `dpi_packets` | accepted settings start; lookups, TTLs, decoys, order of payloads, delivery | ring of two records (one more than a peer needs, one less than there are peers), three peers, at most four packets, one failing send, one reroute, distances on both sides of every threshold; all option lists of four bytes over five values; the edges of every validated number |

Bounds of counters are in the guards of the environment's actions only (`MaxVersion`,
`MaxEdits`, `MaxChanges`, `MaxSaves`, `MaxCalls`, `MaxRuns`, `MaxFlips`, `MaxOrders`, ...); no bound stops a step of
the code.

Deadlock is checked in the `Refresh` and `ServerLifecycle` runs. The others are bounded in
their number of batches, runs, saves or events and really stop.

### What the violation means

`lock_mutex`: a waiter's `rmdir` removes a directory that is not the one it waited on; two
runs hold the lock, against `2026-07-13-liquid-formula-1.5.0-design.md:75`. It takes a
release, a waiter and a newcomer within one wait. `ExclusiveUnlessRobbed` shows that a stale
recovery is the *only* way.

Other places where the code says two things, met while modelling and stated as exceptions
in the properties:

- The renames of a commit are separate: a kill between them leaves a complete cache of two
  generations, which the next start loads, against `docs/RELEASE_NOTES_1.5.0.md:10`. Each
  *file* is atomic and nothing is lost; the *set* is not (`Interrupt` of `AtomicStore`).
- `status` reads `action.state` and then the lock: when a job reports and releases in between,
  the page says that it was interrupted (`overview.js:637`) although it has succeeded.
  `PageTellsTruth` excepts an answer that was outdated when it was given.
- A reload of the converter whose generator fails publishes an empty service, which stops
  the running one, while the page says that it still runs with the previous values
  (`overview.js:585`). `SwitchHolds` excepts settings that do not generate.
- A payload file of exactly 1200 bytes is accepted by the page (`fakehttp.js:138`), by
  `service-common.sh:184` and by `README.md:179`, and refused by the daemon, whose buffer of
  1200 bytes is full before it sees the end of the file (`payload.c:211`): the exception in
  `ValidStarts`. procd then starts it again and again.
- fakesip's rules drop ICMP "time exceeded" in front of the address exclusions, so also
  from local addresses (`Wanted`).
- A peer whose SYN came in by another interface than the SYN-ACK leaves by gets the
  SYN-ACK with the hardware address of the former (`DeliveredOnce` excepts it).
- The experimental form of the Fast Open option (254) is not looked at: only option 34 is.

### Conditions of the passing properties

Where the code promises less than one might expect and nothing in the repository says
otherwise, the property says so:

- `ChangeIsLoaded` is about changes made while the config watcher runs. One written
  between the first load and the watcher's start raises no event; the same holds for the
  cache watcher (`missed` in `MemoryMatchesDisk` and `Converges`).
- `SwitchHolds` excepts faults and runs of update.sh: a save whose reload is refused
  because a run holds the lock is not repeated. It is claimed for a save that is made when
  nobody is at work (`calm`), whether its page does anything or not, and for any other once
  a page has decided with no service action called or under way (`decided`). A save made
  while a restart is under way may be lost: the restart holds the lock, the reload is
  refused, tried once more and given up (`init.d/liquid-formula:400`), and the page finds
  itself busy (`overview.js:622`), is refused in its turn (`rpcd:576`) or cannot poll
  (`overview.js:598`). Of a refused call the user is told; nothing repairs the service until
  the next save, or a page that decides in peace.
- `DecoyFallsShort` is about peers that have been heard and are still in the ring (500
  records in the code). A peer that fakesip has not heard counts as 64 hops away.
- `NeverBeyond` and `RulesMean` except, with nft, a `delete table` that fails: the second
  table text is added behind the rules that are still there. With iptables `NeverBeyond`
  holds as long as at most two removals have failed (`Removable`): three of one clean-up
  that fail (those of the rules of `R` and `D` and of the jump to `D`) while all later
  commands work leave rules of the last process at work, which the run shows with its three
  failing commands. `RulesMean` needs no such exception there: `-N` refuses a chain that is
  left, and the process gives up.
- The properties of `ActionJob` except three mishaps, none of which takes a fault of the code's
  own steps alone: a recovery or a release that acts on a record read before somebody else
  replaced it (`robbed`), a call that comes back to a directory that is no longer its own or
  is being taken apart because its worker has given up meanwhile (`late`), which may leave
  `ready` without a record, a lock that only a reboot or a user clears, and a worker whose
  caller was killed and that passes the `ready` of the next job (`borrowed`); update.lock then
  refuses the second update.sh.
- `UserServiceSurvives` excepts a crash: during procd's respawn delay the user's service
  looks stopped, a run adopts it and removes it at its end.
- `TemporaryRemoved` excepts a failing stop and a signal, which may fall between the
  start of the temporary converter and the mark that it was started.
- `RulesStand` and `StopLeavesNothing` are claimed while the init script's last operation
  has run alone (`~crossed`), whatever crossed before it. If rc.common's `start` takes
  `procd_lock`, all do. If not, a start may publish between a stop's `procd_kill` and its
  clean-up, and the new process serves without the rules that this removes
  (`fakehttp:498`), until the next start, stop, reload or link event. `RulesHaveListener`
  holds throughout.
- The properties of `DpiDaemon` except commands that outlive their process
  (`spoiled`). A stop during the set-up kills the process; the nft command it was
  waiting for may end after the script's clean-up and leave a table until the next start
  or stop. The rules have `bypass`, so traffic then passes unchanged.
- A reload of the converter whose old server still has a request in progress after the
  five-second timeout ends the process, and procd starts it again
  (`server_supervisor.go:93`): `Exits` has it end with an error, no property forbids it.

### Fairness

`Refresh!Fairness`: weak fairness for the steps of the watcher, of the updater (its ticker
included) and of each request, among them the end of each fetch (bounded by the fetch
timeout); strong fairness for taking the permit (the Go runtime serves a channel's waiters
in order) and for a file's debounce timer. No fault, edit,
request or upstream version is ever forced. `refresh_edits` checks `EverybodyReturns` for
the two background goroutines: with three files and a request on top the liveness graph is
out of reach. A request goes through the same `Call`, `Acquire` and `Release`;
`refresh_order` has one and checks that nothing deadlocks. `ServerLifecycle!Fairness`: weak fairness for
the supervisor, main, the watchers' loops, observers, workers and the end of requests;
none for signals, changes, faults or new requests. The other modules state no liveness.

## 4. Proofs

All theorems hold for every value of the constants that satisfies the named assumptions of
the module; TLC evaluates those in every run of it. Each invariant was checked by TLC first.

| Module | Theorem | Statement | Further assumption |
|---|---|---|---|
| `CacheBatch_proofs` | `TypeCorrect` | `Spec => []TypeOK` | - |
| | `LastGoodKept` | `Spec => []LastGoodRecoverable` | - |
| | `AllOrNothingHolds` | `Spec => []AllOrNothing` | - |
| | `Implements` | `Spec => ImplementsAtomicStore` | - |
| `Refresh_proofs` | `TypeCorrect` | `Spec => []TypeOK` | - |
| | `OneWriter` | `Spec => []SoleWriter` | - |
| | `SnapshotNeverRegresses` | `Spec => NoRegression` | `MaxEdits = 0` |
| | `RefreshIsTruthful` | `Spec => []RefreshedMeansNew` | `MaxEdits = 0` |
| | `KnownGoodIsServed` | `Spec => []LastKnownGoodServed` | - |
| | `DiskIsMirrored` | `Spec => []MemoryMatchesDisk` | - |
| `ServerLifecycle_proofs` | `TypeCorrect` | `Spec => []TypeOK` | - |
| | `OneAtATime` | `Spec => []OneServer` | - |
| `OwnerLock_proofs` | `TypeCorrect` | `Spec => []TypeOK` | - |
| | `Exclusive` | `Spec => []ExclusiveUnlessRobbed` | - |
| | `LeftoversCleared` | `Spec => []NeverWedged` | `Attempts >= 2`; the code makes 3 |
| `Backend_proofs` | `JobTypeCorrect` | `JobSpec => []JobTypeOK` | - |
| | `StatusIsTrue` | `JobSpec => []PageTellsTruth` | - |
| | `AloneStarts` | `JobSpec => []NextJobStarts` | `Attempts >= 2`, as `JobAssumption` has it; the code makes 3 |
| | `TypeCorrect` | `Spec => []TypeOK` | - |
| | `TemporaryGoes` | `Spec => []TemporaryRemoved` | - |
| | `SwitchDecides` | `Spec => []SwitchHolds` | - |
| | `UserKept` | `Spec => UserServiceSurvives` | - |
| `DpiService_proofs` | `TypeCorrect` | `Spec => []TypeOK` | - |
| | `WaitsEnd` | `Spec => []WaitIsTimed` | - |
| | `StopsHold` | `Spec => StopHolds` | - |
| | `LinksFollowed` | `Spec => []FollowsLink` | - |
| | `RulesNeverBeyond` | `RulesSpec => []NeverBeyond` | - |
| | `RulesAreMeant` | `RulesSpec => []RulesMean` | - |
| `DpiDaemon_proofs` | `TypeCorrect` | `Spec => []TypeOK` | - |
| | `NothingLeft` | `Spec => []StopLeavesNothing` | - |
| | `ListenerThere` | `Spec => []RulesHaveListener` | - |
| | `RulesAreComplete` | `Spec => []RulesStand` | - |
| `DpiPackets_proofs` | `LookupIsNewest` | `Spec => []LookupNewest` | - |
| | `TypeCorrect` | `Spec => []TypeOK` | - |
| | `DecoysFallShort` | `Spec => []DecoyFallsShort` | - |
| | `StartsWhatIsValid` | `Spec => []ValidStarts` | - |
| | `DeliversOnce` | `Spec => []DeliveredOnce` | - |
| | `SendsWhatIsConfigured` | `Spec => []DecoysAsConfigured` | - |

**CacheBatch.** `TypeOK` alone does not say that a loop is at one of its entries; `Typed`
does. `Phases` says what each phase knows of each entry: in `Commit`'s loops the entries
passed are saved (`Saved`), then replaced (`Done`), those ahead untouched (`Forward`); a
rollback finds each entry as it was, or replaced with its backup beside it (`Undone`), and
what it has passed is as it was unless a restore failed (`Backward`); after a commit every
entry is the new one (`Committed`); files outside the batch stay as they were (`Others`).
From this follow, at the end, all or nothing (`Remains`); at every moment, that the last good
content is in the file or its backup; and, for the refinement, that the disk at a kill is a
mixture of the old and the new files of this batch (`InterruptedIs`), and that each inner
step leaves the mapped state alone.

**Refresh.** `Shape` adds to `TypeOK` what the program counters say about the data of the
work in progress (which files the loop has fetched, which triggers reach which step).
`SoleWriter` follows from the token's place. For the other two the inductive invariant is
`Safe /\ Ordered`: the contents of disk, snapshot, candidate and backup of the one goroutine
that has the permit are ordered version-wise: `snap <= disk <= upstream` between works;
during one `disk <= cand <= upstream` for what has been fetched and `snap <= old <= upstream`
for what has been backed up. So neither the rename nor a rollback, complete or partial, nor
the swap of the snapshot can take a file back. `Wanted(r)` adds that a manual refresh only
collects contents at least as new as those at its arrival, since it fetches after it has got
the permit. `MaxEdits = 0` excludes outside edits: with them a file may well get older.
`LastKnownGoodServed` and `MemoryMatchesDisk` hold with edits. The first rests on `KnownGood`
(the snapshot is empty or whole, as is everything that can become it) and `Served` (a request
that found a usable snapshot still has one, whatever its own steps fail at); the second on
`InStep`: until the server has started only the initial refresh is at work and the cache is
what its backups or the snapshot say; later, whatever makes disk and snapshot differ has called
the watcher, by an event or while it waits for the permit.

**ServerLifecycle.** `OneServer` depends on who may still do something to an instance.
`Owners`: the supervisor's mutex is with main only while it boots or during the final
`Shutdown`. `Positions`: only the newest instance is owned or being stopped, and while none
is owned it is quiet. `Phases`: what an instance can still have (listener, workers,
requests) by the phase of its `serve`. So when a reload creates the next instance, nothing
of the one before is left.

**OwnerLock.** Whoever acts belongs to the run that made the directory that is there
(`Entitled`: by its record, or by the delegate record of its child), as long as nobody has
been robbed; a directory has one maker, so there is one. `Parents` relates a child to its
run and to the delegate record. The invariant is
`Typed /\ Parents /\ (robbed \/ Entitled)`. For `NeverWedged`: `Published` says that a record
names a run that has published it, `Alone` that a run that has met nobody is the only one that
moves, so that nothing changes between its commands, and `Finds` what each of its labels knows
from the ones before (a directory with or without a record, a record whose owner is dead, no
delegate left). It recovers at most once, so two attempts do.

**ActionJob.** `JobInv == Sound /\ (mishaps = {} => Lawful)`. `Sound` holds whatever happens:
the types, `Forked` (a worker is there from its call's fork on and does not outlive the call's
failure), `Records` (a record is of a process that has started), `Judged` (what a recovery has
judged dead stays dead) and `Company` (jobs alive together have met). `Lawful` is what the three
mishaps can break: `Locked` and `ReadyOwned` say whose the lock is at each command of a caller
and a worker, so that the hand-over leaves no moment without an owner; `Stated` that
`action.state` then names that job; `Paged` that a status which has found another record is
about a job that is over; `OneWay` what a call that has met nobody knows at each of its
commands: it finds at most a leftover, which nobody else changes, and takes it apart in one
round, so the second finds nothing in its way. The steps of a process are proved against frame
lemmas (`SoundKept`, `LawfulKept`, `JobStep`, `Leave`): what changes only one job's own
positions leaves the others' parts alone.

**ServiceControl.** `RunLocks`: what a run does to procd's instance it does under the
lifecycle lock, and it keeps the lock while the converter it started is its own to stop.
Hence `RunsOwn`, that without a crash it starts a converter only where there is none and
finds no user's instance to stop, and `Marked`, that an instance it published is known to
it. `OnItsWay`, which holds while no fault has happened and no run has begun (`Undisturbed`),
is the invariant of the saves: a reload that has read an old switch is followed by another;
and if the last save was made at rest, or a page has decided since with no action under
way, then every call on its way and the action under the lock are what the switch asks for.
So when nothing is on its way the service is as the switch says. `calm` needs no page: the
reload finds the lock free, or held by a page that has read the same switch.

**DpiService.** `WaitIsTimed` is inductive with the types. For `StopHolds`, `Allowed` says
of each decision under way (`ctx`, `start`) that the boot state allows it, if `start` takes
`procd_lock`, and `OnlyDeferredWaits` that only the paths that wait publish a wait. For
`FollowsLink`, `Answered` says that an event of netifd's queue that is no longer true is
followed by its opposite; `Recalled` that an instance is bound to the links that are up, or that
an event which will be matched is on its way for each difference; `Tracked` that this holds of
the instance that runs or is being started, and of none at all while the link is recorded as
down, unless a reload is on its way that decides everything anew.

**DpiDaemon.** `Shape`: a process runs the command of its position, and it holds the queue from
its set-up to its end. `Control`: only the process that procd knows has not been told to exit
(`SignalExits`), and while an operation that runs alone cleans up there is none (`Alone`); so what the script has passed stays clear
(`Swept`), which is `StopLeavesNothing` at its end. `Listener` says of each family that its chain
is its maker's, who holds the queue until its tear-down has passed the chain, and that at most
one jump leads there, so that the tear-down's one removal disconnects it; a chain it did not
remove is one of the cases the property names. `Stood` says what each position of the set-up has
made of each family (`Built`); a process in its loop is past all of them.

**DpiPackets.** `RingHolds`: the slots, walked back from the end, are the newest
`CAPACITY` records of the history in order, then unused ones; so the walk that
`srcinfo_available` makes finds the newest. `TableInv` adds that a record's TTL is its
peer's initial TTL less the distance it was heard at; since that distance is 1 to 63 the hop
estimate is exact, and the percentage of it, being below 100, stays below it.

What the parser, the ring and the scripts' loops over rows and interfaces compute is proved for
lists of any length. They are recursive functions over the places of a list; that the function
exists and has the values its equation says (`CanBeRead`, `CanKeep`, `LinkTurns`) is an induction, and
so is what follows from them. The library's induction theorems have an operator for a
parameter, so the inductions rest on `NatLessThanWellFounded` instead: `Least` says that a set
of numbers has a least member, `Induct` that one which has 0 and with `n` also `n + 1` has
them all, and each induction names its set. `Sane` is the parser's invariant: options in
their ranges, payloads and interfaces lists. `Does` describes the step of a packet once for both programs
(`CallbackDoes`): silent, or answered with decoys and at most the packet itself behind them;
the types and the TTLs are proved of it. For `StartsWhatIsValid` the command line of a valid
section is followed part by part (`GetoptJoin`): each part sets its fields and no others
(`Sets`), so that at the end the context is what the section asks for (`HttpOptions`,
`SipOptions`), the checks behind getopt have nothing to add (`NothingMissing`) and every
payload fits (`HttpBuilds`, `SipBuilds`).

For `DeliversOnce` both `remove_tfo_cookie` and a receiver are walks over the option bytes
(`CanWalk`, `Walks`). Only in front of the place it has reached does the daemon's walk still
write (`ScanStaysBehind`), and a receiver steps over the NOPs that took an option's place
(`OverNops`); so, from the last place back to the first (`Down`), the receiver of the
rewritten bytes finds what it would have found but for the cookies (`CookieGoes`).
For `SendsWhatIsConfigured`, `ConfiguredIs` says that the context of a section which the script
lets through is the section's; then what the firewall's port map hands over and the daemon
answers is what the section means (`MapHolds`, `AnswersAsMeant`), `AllSent` counts the decoys
when no send fails, and `Rotates` ties the ring's current node to the number of payloads
drawn, so that the row of each decoy is known from the ones before. `PacketsAssumption` has
for both only what types the inputs: option bytes are bytes, ports and port ranges pairs of
naturals.

**DpiRules.** `RulesAssumption` has what types the inputs: interfaces are numbers, a mark is a
non-empty part of its mask, the address of a packet is in a prefix of the rules or is a global
one, and TCP knows no multicast. The proof has three layers. What the eight set-ups are as
lists: `MakingFits` says of every command that it is one of iptables' first five, nft's table,
or adds a rule that the commands before it have made room for (`Fits`), and that the whole list
provides every rule; `CleanupIs` gives the removals. What a list of rules does: `Looks` and
`Queues` say which rules a chain may have in which order (no jump before all exclusions, what
drops in front, no queueing before the daemon's own packets are let go), `MeantIsWithin` and
`CompleteMeans` what that does to a packet, by the first rule that decides (`RuledIs`). And the
invariant, `RulesInv`: the commands ahead are the last ones of the set-up or the clean-up
(`Position`); what the commands before them have removed, each failure of which has been
counted (`Swept`), or have made (`Made`) is so; and the rules are `Meant` by their maker or cut
off (`Silent`). The last part alone is not inductive: that a new maker's first command changes
nothing needs `Swept`, since any one of three removals that worked cuts the old rules off, and
that its jumps come last needs `Made`. `SuitedKeeps` is the step of a command that makes a
rule, `RemovalExecuted` and `RemovalFailed` those of a clean-up.

Out of the proof system's reach and left to TLC: every liveness property (`Converges`,
`EverybodyReturns`, `Exits`, `ChangeIsLoaded`). Every safety property of a passing run is a
theorem.

## 5. Plan

Done: `CacheBatch`, `Refresh`, `ServerLifecycle`, `OwnerLock`, `ActionJob`, `ServiceControl`,
`DpiService`, `DpiDaemon`, `DpiRules` and `DpiPackets`, all with proofs.

Next, in order:

1. `TemplateStore`: the template lock, template files and UCI changed together.
2. `OutputInstall`: the profile's installation with backups and pruning; the timeout
   budgets of update.sh and the server as arithmetic over the settings' ranges.
3. `DpiService` in the mode `all`, a single address family and failing state files.
4. Pure operators: subscription decoding, duplicate names, WAN resolution.

New questions join the run of their module where its bounds allow it, so that the number
of runs stays about one per module and disagreement.

## 6. What is not modelled

- Contents: URLs, passwords, YAML and JSON text, log lines, metrics, `/health`.
- The cancellation of the updater's and watcher's contexts by a server shutdown in
  `Refresh`: `ServerLifecycle` has it as workers that stop; the permit and snapshot of an
  instance die with it.
- The Cloudflare cache purge of `/refresh`: it happens after the refresh and changes no
  state of the converter.
- A PID that is used again within the life of a lock record: the start time excludes it.
- In `Refresh`: a cache watcher that cannot start or reports errors (`watcher.go:54`,
  `watcher.go:176`, an overflow of events among them), after which outside edits are not
  seen; the server's first answer and the watcher's registration are one step (`Start`),
  and so are the renames of one file after another (`Rename` takes any part of the files:
  every intermediate state of the disk is in `CacheBatch`).
- In `CacheBatch`: the removal of a partial backup copy, whose result nobody looks at
  (`batch.go:255`).
- Faults of the file system in `OwnerLock` (a full disk under `mktemp`): the run ends
  before it touches the directory.
- procd and rc.common themselves, beyond what their use in the repository tells.
- In `DpiService`: the mode `all`, which matches every event; the choice of one address
  family; the firewall clean-up that goes with every `procd_kill`; respawn. The scheduler's
  decision under the flock and rc.common's publication of its timer are one step, and there
  is one scheduler at a time.
- In `DpiOptions`: the queue number (its range, that the other daemon does not use it, `-n`):
  the kernel's queue is one variable of `DpiDaemon`.
- In `DpiPackets`: checksums, identifiers, the text of payloads, the logs, and two packets
  at once (a daemon has one thread).
- In `DpiRules`: the meaning of a match beyond what the packets of the model tell apart, and
  rules of others in the same hooks.
- Subscription decoding and conversion, the generator, installation of the output, rpcd's
  templates and the other scripts of the inventory that no module names. The first two are text
  processing; the others are straight scripts under a lock that `OwnerLock` models, apart
  from the template transactions, which are the first item of the plan.
