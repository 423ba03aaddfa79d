# Verification of ap_apps

TLA+ models of the applications that run on the access point, TLC configurations that check them on small
instances, and TLAPS proofs of their main invariants. Paths are relative to the repository.

## 1. The system

An access point (AP) runs a handful of Lua processes on OpenWrt. Each is one operating system process, restarted by a
shell loop (`script/*.sh`), and each is single threaded: coroutines over `se`, or callbacks over libuv.

| part | state | operations | talks to |
|---|---|---|---|
| `sand`: broker `sands`, client `sandc` | connections by descriptor, ids, topics, timers | connect, publish, ping, disconnect, timeout | the controller (AC) runs the broker; `base` is its client |
| `se`: coroutine scheduler | list of running threads, watchers of blocked ones | go, sleep, read, write, connect, accept | libev; every other Lua process runs on it |
| `cfgmgr` | table `cfg`, `/etc/config/ap_config.json`, registration | update, replace, ap_set_config, ap_reset, delete, upload | AC through the proxy; the file is the interface to all others |
| `cfgclient`, `baseclient` | sequence numbers, outstanding requests, publish queue | request, wait, reconnect | local mosquitto broker |
| `base` | address of the AC, two broker connections | proxy both ways, choose the address, restart on change | local broker, `sands` at the AC, beacon file, kills `cfgmgr` and `beacon` |
| `beacon` | whether it broadcasts, what it heard | broadcast, listen, elect | UDP broadcast to other APs; files to and from `base` |
| `network` | check id, last static setting | static address, udhcpc loop | reads the configuration file, `ifconfig`, `udhcpc` |
| `setconf` | last applied configuration | turn it into uci commands, timed reboot | reads the configuration file |
| `report` | caches of radio, user, WLAN data | answer report requests, upload logs | local broker, `iwinfo`, memfiles |
| `logserver` | log cache, log files | collect, rotate | UDP from `log.lua` |
| `myinit/.../lua` | `memfile`, `compare`, `bufio`, `chan`, redis clients, tables | helpers of the above | |
| vendored | lua53, cjson, mosquitto, luasocket, luv, lfs, redis parser, nginx, libev | third-party | |

What is hard in it:

* **Recursion and re-entry.** In `sands`, publishing closes connections whose write fails, and closing publishes wills.
  A handler can find its own connection closed when it goes on.
* **Interleaving of coroutines.** Any `se` call that blocks lets every other coroutine run: updates are handled while
  `upload()` waits for the AC; an old `udhcpc` loop sleeps while a new setting is applied.
* **Crashes.** Processes are killed by each other (`killstr`), exit on purpose to be restarted, and the device loses power.
  The configuration is replaced by two renames.
* **Lossy, late messages.** Broker and proxy keep nothing over a restart; answers are matched by a number only.
* **Change detection by file time,** in whole seconds.
* **Timers against io.** A timeout and a ready descriptor of one blocked call can fire in the same poll.

`PROJECT.json` lists the single hazards with their lines and the properties aimed at them.

## 2. Modules

| module | models | run(s) | proofs |
|---|---|---|---|
| `Sands` | `sand/root/ugw/apps/sands/sands.lua`, `main.lua`, `script/sands.sh` | `sands_wellformed`, `sands_anyclient`, `sands_duplicate` | `SandsProofs` |
| `PubSub` | the abstract publish/subscribe service that `Sands` implements: sessions, and messages due to them | through `sands_anyclient` | `SandsProofs` |
| `SeCore` | `se/se/se/se_core.c`, with the order in which `libev-4.19/ev.c` calls back | `secore` | `SeCoreProofs` |
| `Coroutines` | the abstract scheduler that `SeCore` implements: waits that end once, ready coroutines in order | through `secore` | `SeCoreProofs` |
| `CfgMgr` | `cfgmgr.lua`, handlers of `apmgr.lua`, `compare.lua`, the watcher in `setconf/main.lua`, kill and touch by `base` | `cfgmgr`, `cfgmgr_window` | `CfgMgrProofs` |
| `ConfigStore` | the abstract store that `CfgMgr` implements: a configuration that is replaced at once | through `cfgmgr` | `CfgMgrProofs` |
| `CfgClient` | `cfgclient.lua`, `baseclient.lua`, `upload()` in `apmgr.lua`, the proxy in `base/main.lua`; the AC is external | `cfgclient`, `cfgclient_reusedseq` | `CfgClientProofs` |
| `Network` | `network/main.lua`, `script/network.sh` | `network` | `NetworkProofs` |
| `RedisParser` | `lua-redis-parser/redis-parser.c`: both scanners, replies, `build_query` | through `Wire` | `WireProofs` |
| `Wire` | `sandutil.lua`, the receiving loops of `sands.lua` and `sandc.lua`; implements `MessageChannel` | `wire` | `WireProofs` |
| `MessageChannel` | the abstract channel of whole messages between two ends of a connection | through `Wire` | `WireProofs` |
| `Sandc` | `sand/root/usr/lib/lua/sandc.lua` over the reads and writes of `se_core.c` | `sandc` | `SandcProofs` |
| `Discovery` | `base/main.lua` (address of the AC, saved state) with `beacon/main.lua`, `content.lua`, on several APs | `discovery` | `DiscoveryProofs` |

How they fit together: `Wire` shows that the commands `Sands` and `Sandc` exchange arrive whole and in order, so `Sands`
takes a command as one record and `Sandc` a message as one unit; `Sandc` uses what `SeCore` shows of blocking calls (they
return once, ready coroutines run); `Discovery` uses a connection as what `Sandc` shows it to be (its end is reported once), and
reads the configuration that `CfgMgr` writes; `CfgClient` sends through the proxy that `Discovery` connects.

The `MC*` modules give the constants of the runs. Definitions marked "Mutant" are plausible bugs of the definition that
follows them; putting one in its place makes TLC report the property listed with it in `PROJECT.json`.

### Sands
`state`, `param`, `partial` and `timer` are the fields of `clientmap[fd]` (`state` "none" is no entry), `clientid2fd` and
`topic2client` the tables of the same name. The kernel hands out closed descriptors again. One action is one callback:
`OnConnection`, `OnEof`, `OnTimeout`, the commands `CmdCn`, `CmdPb`, `CmdPi`, `CmdDc` and their refusals, undecodable and
incomplete data. Because `do_publish` and `close_client` call each other, a callback that publishes is several steps: `stack`
is the call stack, one frame per `do_publish` with the subscribers still to visit, `cont` the command handler that waits
below it; no other callback starts meanwhile. `Crash` is an uncaught Lua error, `Restart` the shell loop. A connect command
is a record of what the checks of `cmd_map.cn` look at; `valid` stands for version, password and field checks. Two timers
are counted in ticks: the 30 s for the connect command, and the keepalive.

`PubSub` is what remains of this for a client: `session` is `param`, the name, topics and will of a connection, and `casts` are the
frames of the call stack, each with its topic and the sessions it has yet to visit (`CastsOf`). `Join` is an accepted connect
command with its announcement, `Leave` any close, with the will that starts on top of the message it interrupts, `Deliver` one
subscriber's turn, `Finish` the return of `do_publish`, `Fail` a crash. It does not promise that names differ (section 5).

### SeCore
`runq` is `se_running_threads`, `timer` and `io` the active watchers, `pendTimer`/`pendIo` those fed to the loop and not yet
called back, `buf` the partial read in `thread->buf`. `Poll` feeds any set of expired timers and ready descriptors at once;
`ev_invoke_pending` works last in first out, so timers come first, which `OneWakeup` turns out to rest on.

`Coroutines` hides the list, the watchers and the order of callbacks: a wait is for a deadline, a descriptor or both and ends
once; the coroutine at the head of `runq` while it runs is not in the abstract queue; a fired watcher (`pendTimer`, `pendIo`) is a
deadline that has come or a descriptor that is ready.

### CfgMgr
A configuration is the set of listed WLANs (`a#wlanids`), the set of WLANs with stored `w#` keys, the band list `barr`
(`a#barr`), and one value for all other keys. The band list is apart because `upload()` puts one into the table without noting
a change: "own" is the text it puts there, which never is the one of the default file, "default" any other. Every file operation of
`restore_default` and `save_config` is a step: truncation and filling by `cp`, temporary file, first rename, second rename, removal.
Between any two, `base` may kill `cfgmgr` or touch the file, or the power may fail. Nothing calls fsync: `data` says whether the
data of `ap_config.json` is on flash or still in the cache of the kernel, `Writeback` is the kernel's own time, and a power cut before it,
in a save or after, leaves a file that does not decode. What is done to the names of files is taken to be on flash at once and in order, and
whether the data of `.tmp` and `.del` is there does not matter, since no start reads them. Watchers compare modification times in
seconds; `clock` advances at any moment. `clash` is a history variable: two versions carried the same time.

`ConfigStore` is what this amounts to for its users, in all keys but the band list. `stored` is what the file holds, or, while the
file is away between its two renames, the file moved away; `mem` is the table while a handler may begin; `saving` is the table from
`checkcfg` until `save_config` has removed the old file; `unsynced` says that what is stored is not on flash. `Begin`, `Replace`
(the second rename) and `Finish` are a save, `Restore` is `restore_default`, `Sync` the write-back, `Kill` and `PowerCut` the
failures, `Reset` is `ap_reset`. All other steps, the first rename and the touches among them, leave the four alone. A kill outside
a save costs nothing, and neither does a power cut once the data is on flash; any other failure may leave nothing, which in a
save is the window of section 5.

### CfgClient
`upload()` asks `check`, and `upload` if the AC does not know the AP; each try has a new number, and a try whose
answer comes too late stays in `out_seq_map`. `net` and `back` are messages on their way, which may be answered in any order
or lost. `inc` counts starts of `cfgmgr`; it is history only and is not in the messages of the code. The publish queue keeps
its first item until after the yield that follows publishing it (`pub`).

### Network
Each change of the file starts a coroutine with the next `check_id`: `new` reads the setting (dhcp when the file is away
for a moment), `acquire` and `keep` are the two loops of `start_dhcpc`. `os.execute` blocks the process, so commands
are single steps. `missed` marks a static setting that was skipped although it was not in force (section 5). Times of the file
that clash are in `CfgMgr`, not here.

### RedisParser, Wire, MessageChannel
A text is a sequence of characters, a pointer an index. Each parser function returns a value and the position behind it,
"eof" (more data may help) or "bad". `parse_ready` and `parse_reply` are separate scanners in the C code and are separate here;
only the syntax they share in the same words (`Number`, `BulkData`, the loop `Items`) is one definition. Counts wrap modulo `IntMod`
and sizes modulo `SizeMod`, and the upper half is negative, as in the `int` and `ssize_t` of the code (signed overflow, undefined
in C, is taken to wrap, which is what the compiled loops do); a number is wrapped once at its end, which gives the same. Recursion is by
recursive functions. `Recv(n)` is one read: the next `n` bytes of the stream are appended and the loop runs to its end
(`Drain`, whose `Pass` has the early returns in their order). What a handler does with a message is in `Sands`; here a
command is known, unknown or missing. `stream` is chosen at the start and holds what was sent, for comparison.

The constants are `IntMod` and `SizeMod`, any numbers above 2 (16 and 256 in the run, where short texts must wrap), `Chars`, any set with the digits and the four characters of the syntax in it, `Messages`, `Commands` and
`Streams`. `MessagesAssumption` says that messages are what the callers of `toarr` make, functions from finitely many keys of two
letters to texts; `OwnAssumption` that an own stream is frames of such messages one behind the other, each in some order of its
keys, with commands the receiver knows. The messages of the callers have counts and sizes that do not wrap. `NullAssumption` says
that nil is no reply. Nothing is assumed of other streams but that they are texts. TLC evaluates these
assumptions on the streams of the run, which are built with `build_query`.

### Sandc
One step is what a coroutine does between two places where it can block or where a callback comes: `cur` is the one that
holds the processor, `pc` where each one is. A frame has pieces and the send buffer holds `Cap` of them, so that a write
can stop in the middle; `wire` is what the buffer holds and what is on its way, `part` and `begun` the frame the broker is
reading, `mixed` that it met a piece of one frame inside another. `idle` and `since` are the ages of `ins.active` and
`last` in ticks of a second. The first counts from `new`, so it also grows while `connect` blocks; `slow` says that it had
reached its limit when the connection came up and nothing has come since. `Refused` are the closes after an error of `on_recv` (no
parse, no frame, a refused connect). A write that still waits when another coroutine closes the descriptor may be
called back with EBADF, which `se_try_write` asserts against (`OnWriteClosed`). `Close` is `close_client` and the end of `disconnect`: it raises an error when `ins.client` is
nil already, and `on_disconnect` either returns or ends the process (as in `base`), which is left open. Descriptor numbers
are not reused in this module.

### Discovery
`phase` follows `start_remote`: the configured address, `trying` the one of the beacon (a step of its own, since it takes up to
minutes while `check_mqtt_change` runs), `connect`, `up`; in `leaving`, `check_mqtt_change` has removed `beacon.json` and has yet to kill
the beacon, which may write it again (`CheckCfg`, `Leave`). `status` is `remote_state.json` and `kvmap` what the beacon last
read of it; `unread` says that its time is not the one of that read. Times count in seconds, so that `on_disconnect` may save
in the second of the last read, and then the beacon does not look again (`Save`). `bfile` is `beacon.json`, `dirty` that
its time is not the one last seen. `air[b]` is what was sent since the listening window of `b` began and `due[b]` who sent
during all of it: what `b` hears (`Heard`) is any part of `air[b]` that has a message of everybody in `due[b]`; a window in which
somebody's datagrams are all lost counts as a fault. Contents are ordered by `apid` first, as the strings are. `ever` is
history: connections that were made. Controllers go and come back (`Down`, `Up`), and a connection is lost with its controller
(`Gone`) or alone (`Lost`). Two changes of `ap_config.json` in one second are in `CfgMgr`, not here.

## 3. Runs

| run | bounds | shows |
|---|---|---|
| `sands_wellformed` | 3 descriptors, 2 ids, 2 topics, 5 connect commands | with the commands `sandc` sends and no failing write: subscribers are live and own the topic, nothing ends the broker |
| `sands_anyclient` | 2 descriptors, 2 ids, 2 topics, with empty topics, no id, failing writes, crashes, timers of 2 and 1 ticks | the broker implements `PubSub`; registered ids are live, authenticated connections keep their topics; callbacks return; silent or dribbling connections are closed |
| `sands_duplicate` | 3 descriptors, 2 connect commands | violation, section 5 |
| `secore` | 3 threads, 2 calls of `se.go` | the scheduler implements `Coroutines`; one wakeup per wait, watchers only for blocked threads, partial reads freed, timeouts wake |
| `cfgmgr` | 1 WLAN, 2 band lists, 2 seconds, 2 faults | the files implement `ConfigStore` (memory equals file between handlers in all keys but the band list), no orphaned keys, `log.fatal` in `save_config` unreachable, missed versions only on equal times, recovery |
| `cfgmgr_window` | 1 fault | violation, section 5 |
| `cfgclient` | 3 requests per start, 1 restart, 1 loss, 2 messages on their way | answers match requests of the same start, requests are sent once and in order |
| `cfgclient_reusedseq` | 2 requests, 1 restart | violation, section 5 |
| `network` | 2 static settings, 4 changes, 1 restart | a static setting holds, old loops end |
| `wire` | one or two own messages in every order of their keys; counts modulo 16 and sizes modulo 256; noise of up to 3 characters after 11 beginnings, 6 of them with numbers that wrap; pipelines of up to 2 of 8 replies; every cut of each | cuts make no difference, the scanners agree on every prefix but for a count that wraps to -1, own messages arrive, replies fall apart rightly, the channel is implemented |
| `sandc` | 1 publisher that publishes once and may disconnect, frames of 3, 2 and 1 pieces, a buffer of 4, keepalive of 1 tick, 1 message from the broker | one close and one `on_disconnect`, frames torn only by overtaking, `true` means written, messages before the end, time-outs only of silent brokers (or after a slow connect), silent ones noticed |
| `discovery` | 2 APs, 2 controllers; one AP configured, with 2 faults or 1 new configuration, or both, with 1 fault | only connected addresses spread; one AP comes to broadcast, all come to be connected |

Why the bounds are enough: three descriptors give an owner, a duplicate or victim, and a newcomer that reuses a closed
descriptor; two topics let a will go to connections that do not share the publisher's topic. Three threads
give a running one and two that fire in one poll. One WLAN has all four combinations of listed and stored, and stands for the other keys, which
are set and saved with it (`MaxBase` is 0); the controller sends the band list `upload()` sets, so that it differs from the default file's; two faults allow a
fault during the recovery from the first. Three requests are a timed-out check, its repetition and the upload while the
first answer is late. Four changes allow static, dhcp, static with a restart in between. The proofs below do not have these
bounds. In `wire`, payloads contain a whole element header and a fake frame, one size needs two digits, and the beginnings put the
noise into each state of the scanners. In `sandc` the buffer is smaller than two frames together, so a ping can come between the
pieces of a publish, and three coroutines can find the connection broken. In `discovery` one AP depends on the other, or
on its own controller until that is lost; two faults are, for instance, a controller that goes and comes back. A new
configuration counts as two faults (`CfgCost`), which keeps the run within minutes: its combinations with other faults are
covered by the proofs alone.

Deadlock is checked everywhere except in `secore`, `sandc` and `wire`: a program whose coroutines have all returned has
ended, a process that was ended by `on_disconnect` stops, and a stream that was read has no more bytes.

**Fairness.** `Sands`: a started callback is run to its end by the interpreter and the shell loop restarts the process (weak
fairness); time and expired timers are strongly fair, since libuv runs due timers in every round before it polls, so data
cannot starve them. Nothing is assumed of clients. `SeCore`: the loop runs, a running coroutine blocks or returns in the end,
active timers expire; descriptors may never get ready. `CfgMgr`: the shell loop and the steps of start and save, which depend
only on the file system; faults are bounded, so this says that recovery needs no luck once they stop. `Network`: each
coroutine goes on, since its commands end (`timeout -t 5`). `Sandc`: seconds pass and the publishers' and the ping's steps are
strongly fair, since the list of running threads is first in, first out and a step can be disabled by another coroutine that holds the
processor; the event loop reports a descriptor that has data; the reader and a read's timeout are weakly fair. Nothing is
assumed of the broker, and a user's pause may last for ever. `Discovery`: each coroutine of `base` runs on timers and calls
with timeouts, each listening window ends.

`OneBeacon` and `Attached` ask for stability in the end: the faults are over, a configured controller is alive and no
beacon holds a state that says connected and is not (`Stale`; section 5 says why this is needed).

## 4. Proofs

All theorems hold for every value of the constants under the named assumptions of the modules (absent values differ from
present ones, bounds are naturals, connect commands have the shape the parser gives).

* **`SandsProofs`.** `TypeCorrect`, `RegistryIsLive`, `AuthIsSubscribed` and `ParamsAreChecked` (a refused connection keeps no
  parameters, a part of the invariant that no run checks by itself) follow from `IInv`. Alone,
  `AuthSubscribed` is not inductive: a connection is entered into `topic2client` before it is `auth`, while its announcement
  is published and may close it. `IInv` adds that whoever has parameters is subscribed to their topics (`NamedSubscribed`),
  that `auth` has parameters, and that the connection whose connect command is on the call stack either has them or is closed.
  `SubscribersAreLive` assumes that no client sends an empty topic; `BrokerStaysUp` also that every client sends an id and
  no write fails, and needs that the handler below the publish still has its connection (`WaitingLive`). The
  notes of section 5 show that the first assumption is needed; the hazards list names the others.
  `ServiceImplemented` is the refinement of `PubSub`, for any clients, failing writes and crashes. `ServiceStep` maps each callback
  and each step of the recursion to an operation; the lemmas on `CastsOf` say what pushing a frame, visiting a
  subscriber and closing a connection do to what all frames owe, and `NamedSubscribed` that a publish finds every session of its
  topic. `UniqueUntilRefusal`: no two authenticated
  connections share an id until a connect command that names an id in use is refused. So `sands_duplicate` shows the only way
  to a duplicate.
* **`SeCoreProofs`.** `TypeCorrect`, `WokenOnce`, `WatchersMatchWaits`, `PartialReadsFreed`. The middle
  two come from an invariant that joins them: a second wakeup is excluded because watchers belong to blocked threads, and
  blocked threads have watchers because each wakeup stops them. The lemmas state what `list_del`, appending and rotating do to a list without duplicates.
  `SchedulerImplemented` is the refinement of `Coroutines`: from the same invariant, every callback ends one wait and leaves
  nothing of it, and every step between is an operation or changes nothing that a coroutine can see.
* **`CfgMgrProofs`.** `StoreImplemented`, `TypeCorrect`, `MemoryIsFile`, `SaveHasFile`, `OrphanFree`, `MissedOnlyOnClash`. `Phases` follows the new
  configuration through the steps of `save_config` (in `cfg`, then also in the temporary file, then in the file); `Clean`
  extends the absence of orphans to the temporary file; `Watched` says that while no time came twice, every time a watcher
  kept is in the history, so a new version cannot carry it. `StoreStep` maps every step to an operation of `ConfigStore` or to a
  step that leaves it alone (`StoreActions` states the operations in terms of the mapped variables); it needs that the file
  moved away held a configuration and that nothing but an empty file, which a touch makes, can be in its place meanwhile.
  `MemoryIsFile` says in which keys and until when table and file may differ: in the band list, from the answer in `upload()` to the
  next save. `OnlyTheRenameLoses`: what `cfgmgr_window` refutes holds over any kills, power cuts and touches but an end between the
  two renames (`CrashInRename`) and a power cut that takes the data of the new file (`DataLost`). `Kept`
  says where the configuration is in each phase.
* **`CfgClientProofs`.** `TypeCorrect`, `AnswersMatchRequests`, `SentOnceInOrder`, `FirstStartUploads`. `AllSound` says of every
  message, wherever it is (queue, network, answers on their way, answers taken), that it is of an earlier start or has a number
  that was given out, and that the number waited for belongs to what `upload()` asks for; a new request has a fresh
  number, so nothing that is late can match it. Order in the queue and on the network are one invariant, `SentInOrder`, in
  which the item published and not yet removed is left out. `FirstStartUploads` is the comment at `apmgr.lua:40`
  restricted to the first start. `OnlyOldAnswersMislead` says it of every start until an answer to an earlier one is taken, which
  the reused numbers of section 5 allow and nothing else does.
* **`NetworkProofs`.** `TypeCorrect`, `StaticSettingHolds`. `StaticHolds` speaks of moments when no coroutine has yet to read the
  file; `Decided` is what each step keeps in between: while the file is the one noticed last, the coroutine of that change has either
  yet to read it or has dealt with it, and a coroutine of an earlier change that wakes reads the same file and can set nothing else.
  `OnlyDhcpMakesItSkip`: until a coroutine decides for dhcp, the exception for skipped settings (`missed`) is not needed.
* **`SandcProofs`.** `ClosedOnce`, `EndReported`, `AnsweringBrokerKept`, `TypeCorrect`. `Client` ties the counters to `state` and `client`, and adds that
  nobody but the connecting coroutine is awake before `connect` returned or after it failed (`Asleep`): a coroutine that calls
  `close_client` with `client` nil is awake, so `on_disconnect` was called. Steps that neither close nor connect are covered by
  one lemma (`CalmKeeps`), those that close by another (`CloseKeeps`). `Reading` accounts for every message: handed over, in
  the reader's hands, or still owed by the stream, and an end that was read owes none. `Clock` says that, while the broker answers,
  the last answer is older than the last ping only while a ping or its answer is on its way (`Outstanding`), and then by no more
  than a keepalive. `Opening` and `Late` do the same for the connect frame: unless `slow`, the limit is not reached before its
  answer comes. `Framing` gives the bounds of the writes, `Places` the control points of each coroutine.
  The second part proves `TornOnlyByOvertaking` and `TrueOnlyIfWritten` on that invariant. `Untorn` states that,
  unless somebody overtook, there is a function `ahead` which gives for each piece on its way how much of an unfinished frame
  the broker will have then: each piece goes on with it, and what is unfinished behind the last piece is the frame of the one
  coroutine that is blocked in the middle. `Written` counts the pieces of each publisher, at the broker and on the wire, against the
  calls that returned true; the lemmas on `Marked` say what writing and reading a piece do to these counts.
* **`DiscoveryProofs`.** `TypeCorrect`, which includes that a beacon due in a window is sending, and `OnlyConnectedAddresses`.
  `AddressesWereConnected` needs that a state that says connected names a connection that was made (`Origin`); `BroadcastKeeps`
  carries that from what a beacon has read to what is sent and heard. `ConnectedIsSaved`: while base is connected its state file
  says so. `CausesOfStaleState`: a beacon's untrue state, which `OneBeacon` and `Attached` exclude in the end, lasts until its next look
  at the file, unless `base` ended while it was connected without saving that, or saved it in the second of the beacon's last read.
  `StepEffect` sorts all steps by what they do to one AP's state, `ReadEffect` by what its beacon then knows of it.
* **`WireProofs`.** `ScannersNeverDiffer`, `CutsNeverMatter`, `MessagesArrive`, `ChannelImplemented`: for texts and messages of any
  length, any number of them and any cuts. The functions here are recursive over data; a recursive function is first shown to
  exist (`CountedExists`, `CollectedExists`, `LoopSteps`, `WrittenSteps`...), and induction is done over sets of numbers, from the least
  element of a set (`Least`, `Induction`, and `TensInduction` over `i \div 10` for `sprintf_num`). The argument, in the order of the file:
  1. *A whole message stays what it is.* If a scan ends with "ok" in a text, it ends so in every longer text, and the
     second scanner finds the same there (`NumberComplete`, `BulkComplete`, `ItemsTransfer`, `ReadyComplete`). This is
     `ScannersNeverDiffer`, for any bytes of any peer and any width of counts and sizes; a count that wraps to -1, a message without
     elements to the one scanner and nil to the other, is its exception.
  2. *The loop can be interrupted.* `Drain` of a text takes its first message and goes on with the rest (`DrainTakes`), and
     what it leaves, followed by more, gives what both give at once (`DrainResumes`, by induction over the length). This is `CutsNeverMatter`,
     whose invariant is inductive with `Reading`, the position in the stream.
  3. *What is refused is refused for good* (`ReadySettled`): "eof" is the only answer that more text can change. A receiver that waits on
     "eof" and closes on anything else is right to do so.
  4. *`build_query` writes what the scanners read* (`SprintfReads`, `QueryText`, `QueryReads`): the size it counts is the size it
     writes, and `parse_ready` finds all elements and the end. Here the numbers must not wrap. With `toarr` and `tomap` this gives the message back in any order of keys
     (`FrameReads`); `checkarr` refuses it just if a value is empty.
  5. A stream of frames is taken off message by message (`FrontTaken`); by 3 and 4 a part of a frame waits (`FrameWaits`).
     `Reached` says how far a read of `p` bytes gets; with 2 this is `MessagesArrive`, and since `Reached` only grows, every
     read is a `Deliver` of the channel or changes nothing (`ChannelStep`).

Only model-checked: all liveness (`CallbackEnds`, `NewResolved`, `HalfOpenReleased`, `TimeoutWakes`, `Recovers`,
`OldLoopsEnd`, `SilenceNoticed`, `OneBeacon`, `Attached`), which the prover does not reach; and `PipelineSplit`, whose pipelines are
written by a redis server: a theorem would have to assume a grammar of its replies that no code of the repository states.
Every other invariant of the passing runs, and all four refinements, are theorems. The parts of the inductive invariants were
checked with TLC on the instances of section 3 before they were proved; for `WireProofs` the run `wire` does that, since its
invariants are inductive with `Reading` alone.

## 5. Disagreements found

* `sands_duplicate`: a refused duplicate unregisters the id of the connection that owns it (`sands.lua:105`), so the next one
  with this id is admitted next to the owner.
* `cfgmgr_window`: `save_config` moves the file away before it renames the new one into place; a kill between lines 88 and 90 of
  `cfgmgr.lua` makes the next start restore the defaults.
* `cfgclient_reusedseq`: numbers start at 0 with every start of `cfgmgr`, so a late answer to an earlier start ends `upload()`
  without an upload.

For each of the three a theorem says which causes it has: `UniqueUntilRefusal`, `OnlyTheRenameLoses`,
`OnlyOldAnswersMislead` (section 4).

Met while modelling, without a run of their own:

* a topic list with an empty part is refused after its first topics are registered, and they stay (`sands.lua:213`); the
  next publish fails `assert(climap)` at line 145. With `ConnReqs <- WithGap` TLC refutes `SubscribersLive`;
* with failing writes `do_publish` can close the connection whose command is being executed, and the handler then uses nil
  handles (`sands.lua:147`, 240, 311);
* `upload()` sets the band list in the table without noting a change (`apmgr.lua:70`), so the `cfg.save()` at line 94 stores it only
  if there were `w#` keys to delete; if not, it stays in memory and the next reload drops it. `MemoryMatchesFile` and `ConfigStore`
  leave this key out;
* after an upload the `w#` keys are deleted while `a#wlanids` still lists their WLANs (`apmgr.lua:91`), which `setconf`
  (`wl_cfg.lua:173`) and `report` (`main.lua:107`) assert cannot be;
* `check_network` skips a static setting equal to the last static one although dhcp was used since (`network/main.lua:162`);
* `cmd_map.delete` removes a file nobody reads (`apmgr.lua:110`);
* an empty payload can be published but not received: `checkarr` refuses the element (`sandutil.lua:24`) and the broker closes
  the publisher; `OwnMessagesArrive` says so. A client that gets an unknown command fails on `"no " .. func` (`sandc.lua:182`);
* counts and sizes wrap (`redis-parser.c:200`, 268, 636, 716). On `*4294967295\r\n` the count is -1: `parse_ready` reports a complete
  message, `parse_reply` yields nil, and the callers close with "data error", since `checkarr` refuses it. Other
  negative counts are messages without elements. `ScannersAgree` names the exception;
* `ins.active` counts from `new` (`sandc.lua:263`), and `se.connect` waits without a timeout (line 77): after a connect of 2.1
  keepalives the first check of the ping coroutine (line 131) closes a broker that is up and answers, unless its answer to the connect
  frame came first. `TimeoutOnlyWhenSilent` names the exception (`slow`);
* a ping tears a publish that is blocked in the middle of its frame (`sandc.lua:148`): `TornOnlyWhenOvertaken` holds, `~mixed`
  would not; and a second coroutine that finds the connection broken calls `se.close(nil)`;
* `base` exits without `save_status(false)` when the configuration changes (`base/main.lua:255`) or the local broker goes (215):
  `remote_state.json` keeps saying connected and the beacon broadcasts an address nobody is connected to, against the
  comment at `beacon/main.lua:37`; without `Stale` in `Stable`, TLC refutes `OneBeacon` and `Attached`;
* the beacon compares times in seconds (`content.lua:52`): a `save_status(false)` in the second in which it read the state saved
  before is never seen, with the same effect until the next connection;
* a change of `beacon.json` that is noticed while another address is being tried is forgotten (`base/main.lua:259`), against
  the comment at line 264.

## 6. Not modelled

The reasons are with the components in `PROJECT.json`: diagnostics (`execcmd`, `checknetwork`) and packaging keep no state; `report`
is mostly parsing of command output; vendored code is third-party.

## 7. Open

`SetConf` with the timed reboot, `LogServer` with its bound on files, `bufio` against a reference definition, and `chan` have no
module yet; their hazards are listed in `PROJECT.json`. A grammar of redis replies would make `PipelineSplit` a theorem.
