# tapiti in TLA+

A verification development for [tapiti](../src/README.md), an OBD-II monitor: a
Rust process on an Android phone polls a Subaru ECU through an ELM327 adapter
and shows the readings on a web page.  It has TLA+ modules translated from the
Rust source, the TLC configurations that check them on small instances, and
TLAPS proofs of the properties that matter most, for every value of the
constants.

Source paths below are relative to the repository (`src/...` is Rust,
`android/...` is Kotlin and the page).

## 1. The system

```
 ECU -- ELM327 --(Bluetooth)-- TcpProxyServer --(TCP)-- TcpTransport
                                                            |  Mutex
                          +---------------------------------+-------+
                    PidScheduler::run                     HttpServer::handle
                          |        \                      /dtc, /dtc/clear
                  broadcast(256)   SqliteStore --------- /export
                          +--------- WebSocket feed --- index.html
```

| component | state | operations | what makes it correct |
|---|---|---|---|
| `transport/mod.rs` TcpTransport | one TCP stream, what is outstanding on it | `connect` (10 attempts, `init`), `reconnect`, `send` (write, read to the prompt, 5 s) | an answer belongs to its command; every call ends; a reconnection gives back a stream in step |
| `scheduler/mod.rs` PidScheduler | `tick`, `stopped_count`, the PID of the loop | a cycle per tick of the timer; `reconnect` after 3 STOPPED or a transport error; `init_elm327` | no PID starves; STOPPED leads to a reconnection; the loop never gets stuck |
| `main.rs` | the mutex around the transport | connect once, then `try_join` of the loop and the server | exchanges never overlap; waiting for the lock ends |
| `obd/parser.rs` | - | `parse_response`, `check_len`, decoders | a refusal is not an answer, an answer is not a refusal |
| `dtc/mod.rs` | - | `read_dtcs`, `clear_dtcs`, `decode_dtc_bytes`, `is_clear_ack` | every fault shown, none invented; "cleared" means cleared |
| `subaru/mod.rs` | the PID table | `ej205_pids`, `make_reading` | - |
| `server/mod.rs` | a task per connection | `/dtc`, `/dtc/clear`, `/export`, WebSocket feed, status, page | every request is answered; a feed keeps the order of the readings |
| `logger/mod.rs` | the table `readings` | `insert`, `latest_session`, `export_csv` | an export is one drive, complete |
| `TcpProxyServer.kt` | listening socket, one client, two pumps | `start`, `acceptLoop`, `bridge`, `stop` | bytes pass while both ends live; when one ends so does the other |
| `BluetoothService.kt` | Bluetooth socket, proxy, Rust process | `onStartCommand`, `connect`, `launchRust`, `onDestroy` | one of each; nothing outlives the service |
| `WebViewActivity.kt`, `DevicePickerActivity.kt` | the web view and its delayed loads; the saved device | start the service, load and retry, destroy; pick a device | the page appears once the server is up |
| `index.html` | WebSocket, reconnect timer | `connect`, `onopen`, `onclose`, `onmessage` | one way back to the server at any time, and a page that stays gets its connection |

How they interact: the loop and the HTTP tasks share the transport through a
tokio `Mutex` (fair, first come first served); the loop publishes readings on a
broadcast channel that every WebSocket task subscribes to, and writes them to
SQLite; the Kotlin service starts the process and pumps its TCP connection to
the Bluetooth socket.

What is hard here: the ELM327 protocol does not tag its answers, so after a
timeout nothing tells a late answer from the one that is due; every `.await`
lets another task run; a reconnection holds the mutex for up to ten attempts
and eight exchanges, and may fail half-way; the tick is reset by every
reconnection; the answers are text with several layouts, and come in pieces.  On
the phone, `onDestroy` runs on the main thread while a blocked `connect` cannot
be interrupted, one instance of the service may be started twice, and the ports
are fixed, so that what one start leaves behind meets the next.

The hazards are listed with their lines in `PROJECT.json`.

## 2. The modules

| module | models | kind |
|---|---|---|
| `ObdParser` | `parse_response`, `check_len` (`src/obd/parser.rs`), `is_clear_ack` (`src/dtc/mod.rs`) | pure operators |
| `Transport` | `TcpTransport` and, as environment, the far end of its stream | state machine; its `TransportSpec` is also the abstract specification `ObdLink` implements |
| `Exchange` | `send`, `read_response`, `drain`: one exchange piece by piece | state machine |
| `OrderedAnswers` | what a caller of `send` can count on | abstract specification of `Exchange` |
| `Scheduler` | `PidScheduler::run`, `reconnect`, `init_elm327` | the loop's steps, as actions on its own state |
| `SubaruPids` | `ej205_pids` and the divisors of `should_poll` | data |
| `PollCadence` | `Scheduler` with any answers, and two history variables | state machine |
| `ObdLink` | `Transport`, `Scheduler` and `ObdParser` composed with the mutex and the `/dtc` handlers | state machine |
| `FaultCodes` | `GET /dtc` from the ECU's memory to the response | state machine |
| `ProxyBridge` | `TcpProxyServer`, the end of its service (`BluetoothService.onDestroy`), and `TcpTransport` as its client | state machine, thread by thread |
| `ReadingFeed` | the broadcast channel and `handle_websocket` | the tasks' steps, as actions on their own state |
| `OrderedFeed` | what a page can count on | abstract specification of the feed |
| `SessionLog` | `src/logger/mod.rs`, `handle_export`, `make_reading`'s time stamp | the store's steps |
| `Readings` | `ReadingFeed` and `SessionLog` composed by the polling loop | state machine |
| `ServiceLife` | `BluetoothService`, for several starts, with the link, proxy and process of each | the service's steps, as actions on its own state |
| `Dashboard` | the WebSocket and the timers of `index.html`; `ws_origin_allowed` | the page's steps, as actions on its own state |
| `AndroidApp` | the activities, composed with `ServiceLife` and `Dashboard` | state machine |
| `MC*` | the instances TLC checks | |
| `*Proofs` | theorems and their proofs | |

`ObdLink` EXTENDS the three modules it composes; `PollCadence` EXTENDS
`Scheduler`; `FaultCodes` EXTENDS `ObdParser`; `Readings` EXTENDS `ReadingFeed`
and `SessionLog`; `AndroidApp` EXTENDS `ServiceLife` and `Dashboard`.  Two modules
have the specification they implement by INSTANCE: `Readings` has `OrderedFeed`,
and `Exchange` has `OrderedAnswers`, whose `got` is the prompts in what the last
exchange returned.

Definitions whose comment begins with **Wrong** are not part of any
specification.  Each is a plausible mistake in the definition that follows it;
with the definition replaced by it, the property it is paired with in
`PROJECT.json` ("mutants") is violated, which shows that the property depends
on that piece of the code.

### Transport

A stream is a record: `out`, the commands the far end has not answered; `in`,
the answers the program has not read; `open`; and `lost`, which the code does
not have: why answers may be out of step (`"no"` while they are not).  An entry
is `live` while its exchange is in progress; `Write` makes what was there
before stale.  The program never looks at `live`, `lost` or `cmd` of an answer.

| action | code |
|---|---|
| `Send`, `SendReturns`, `SendFails` | `send`, `send_raw`, `read_response` (71-100) |
| `Reconnect`, `Refused`, `Connected` | `reconnect` (64), the attempts of `connect` (27-43) |
| `Drained` | the 1.5 s of `init`, `drain`, and ATE0 written (51-55) |
| `InitAnswered`, `ConnectReturns` | the rest of the sequence (54-58) and `self.stream = new.stream` (67) |
| `ConnectFails` | the last attempt refused, or `?` in `init`: only the dial is retried (35, 45) |
| `AnswerCur/New`, `LoseCur/New`, `HangUpCur/New` | external: the far end answers in order, never, or closes |

`SendFails` is possible whenever there is nothing to read: the 5 s are not
measured, so a timeout may be early in model time, which only adds behaviours.
It is never possible once the answer is there on an open stream: then
`read_response` returns.

### Exchange

`Transport` has an answer come and be read whole; `Exchange` is what happens in
between.  `net` is what the far end has sent and nobody has read, in pieces:
`text`, the line feed of a line (`lf`) and the `prompt`, each with the command it
answers.  `part` is what `read_response` has read in this exchange, in its
`BufReader` or in `response`; both are dropped with the exchange, so they are one
variable.  `answering`, `sent` and `quiet` are the far end's.

| action | code |
|---|---|
| `Drains` | `drain` (103-111) at the end of its 1.5 s |
| `Sends`, `WriteFails` | `send`, `send_raw` (71-81) |
| `Reads` | the `BufReader` takes all that has arrived, and no line ends the answer |
| `Returns` | a line has the prompt: it and those before it are the answer, and what the `BufReader` holds behind it is lost (83-100) |
| `EndReturns` | the stream ends in a line with the prompt |
| `TimesOut` | 5 s without the end of the answer; what was read is lost |
| `Arrives`, `Pauses`, `NeverAnswers`, `HangsUp` | external: the far end |

`clean` (nothing outstanding when the command was sent) and `next` (the first
answer that can still be returned) are histories.

### Scheduler and PollCadence

`phase` is the await the loop is in; `idx` the PID of the `for`; `tick` and
`stopped` are the code's.  `NextPid` goes to the next PID that is due or ends
the cycle.  One action per arm of the two `match`es (`GotBytes`, `GotError`,
`GotStopped`, `GotLastStopped`, `TransportError`), and `Reconnected`,
`ReconnectFailed`, `HeaderDone` for what follows a reconnection: the tick is
set to 0 and the cycle left, which then increments it, so that the next cycle
runs at tick 1 (`EndCycle(0)`).

`PollCadence` adds `streak`, the STOPPED answers in a row, and `waited`, the
cycles each PID has waited.  "In a row" is over the answers of the ELM327: an
error answer in between ends the streak, and so does a failed exchange.

### ObdLink

`queue` is the tokio mutex: its head holds it.  `http[h]` is where a request
is: waiting for the lock, in its exchange, writing its response.  The guard of
a handler lives to the end of the handler, so `Respond` unlocks; the guard of
the loop lives for one statement, so `PollReturns` and its like unlock.
`answer` and `reading` say what a client was given: `"own"`, the answer to its
command; `"foreign"`, the answer to an earlier one; `"failed"`.  The raw texts
go through `ParseResponse`, `CheckLen` and `IsClearAck`; TLC evaluates them once
per kind of answer (`Parsed`, `Acks`).

A request asks for the lock in the step it arrives in (nothing the model sees
happens between), and a request that ends is the identity that may come again,
so two requests stand for two at a time of any number.  The scheduler's sleeps
are where it does not hold the lock.

### FaultCodes

`memory` is the ECU's fault list, `shown` the last response and `told`, a history,
what it was made from: a response that is wrong may well be the one before it
again, so the properties compare the two.  `Answer` prints the memory as the
tests of `src/dtc/mod.rs` have it (43, a count, two bytes each), as the two
settings of the ELM327 say: `Spaced`, which ATS0 turns off, and `Lines`, which
ATL0 turns off.  Without line feeds data and prompt are one line, and `read_line`
ends it only with the stream: `Returned` is what `Exchange` shows of
`read_response`.

| action | code |
|---|---|
| `ReadCodes` | `handle_dtc_read` (218-235) of an answer of the ECU: `send` returns it or times out, then `parse_response` and `decode_dtc_bytes` (`Response`) |
| `ReadFails` | `send`'s `?` in `read_dtcs` (12): the write fails or nothing is answered |
| `Occurs`, `Clear` | external: the ECU |

### ProxyBridge

The Kotlin side of the TCP connection.  `loop` is where `acceptLoop` is, `pumps`
the two copying coroutines, `owner` how far `onDestroy` has come on the main
thread, `prog` what the transport of the Rust process is doing.  The fields the
threads share without a lock are separate steps: `Bind` then `StoreServer`,
`Accept` then `StoreClient`, against `StopClient` and `StopServer`.

| action | code |
|---|---|
| `NeverRuns`, `Bind`, `StoreServer` | `start`, and `acceptLoop` to its server socket (36-44) |
| `Accept`, `StoreClient`, `AcceptFails` | the one `accept` (45-57) |
| `Bridge`, `Joined`, `BridgeEnds`, `BridgeThrows` | `bridge` (65-86); a join in a cancelled coroutine throws |
| `FromBt`, `ToBt` | `pump` (88-99) in either direction |
| `CancelScope`, `KillRust`, `StopClient`, `StopServer`, `CloseBt` | `onDestroy` (152-159) and `stop` (101-107), line by line |
| `Dials`, `DialFails`, `GivesUp`, `InitReturns`, `InitFails` | `connect`, `init`, `reconnect` of the transport |
| `Asks`, `Answered`, `AskFails` | `send` |
| `Exits` | `try_join` ends with the server |
| `CanConnect`, `ElmAnswers`, `ElmIsSilent`, `LinkLost` | external: the queue of the listening socket, the ELM327, the Bluetooth link |

Of the bytes only whether any are unread is kept.  A pump's read and the write
that follows are one step, and the transport's whole initialisation sequence is
one exchange: what may happen between its commands may happen between two
exchanges as well.

### ReadingFeed, SessionLog, Readings

A reading is its number.  `Publish` is `make_reading` and `tx.send`
(`src/scheduler/mod.rs` 74-76), `Log` the insertion that follows (77-79), which
may fail; in between the reading is `pending` and any other task may run.

`sent` is what the channel has taken; it keeps the last `Capacity` of them.
`ws[c]` is where the task of a page is: `Accepts` (101 written), `Subscribes`,
`Receives`, `Writes`, `Lags`.  A page that leaves is only noticed at a write
(`WritesToNobody`), which may still succeed.  With none of `Clients` subscribed
a reading may or may not be taken, since other pages may be subscribed: one
page in the model is any page among any number.

`rows` is the table; the session of a row is the second of its insertion, its
`ts` the time of the reading.  An export without a session is two calls of the
store, and rows may be inserted between them (`export` keeps the session and
how many rows there were).  An export with a session is one call that changes
nothing.  `Killed` is `Process.destroy()`: channel and tasks go, the table and
what the pages have been shown stay, and the process starts again.

`since`, `seen`, `start`, `lagged`, `first` and `unlogged` are histories the code
does not keep.

### ServiceLife, Dashboard, AndroidApp

A start of the service is a number, and so is the activity that asks for it.
`service` is the instance there is, named for the start that created it;
`field` is what its `btSocket`, `proxy` and `rustProcess` hold, which a second
start of the same instance overwrites.  `step[c]` is where `connect` is: it blocks
a thread, so `DestroyService` keeps a coroutine that has not begun from running
and stops no other.

| action | code |
|---|---|
| `StartService` | `onCreate`, `onStartCommand` (32-58) |
| `Begins`, `Links`, `LinkFails`, `StartsProxy`, `ExtractFails`, `LaunchRust` | `connect`, step by step, each storing its field (60-144) |
| `DestroyService`, `StopService`, `LogAndStop` | `onDestroy` (152-159), called by `stopService` or by `stopSelf` |
| `Listens`, `BridgeEnds`, `Dials`, `DialFails`, `InitFails`, `Serves` | proxy and process, which run beside: `ProxyBridge` and `ObdLink` in a few words |
| `FirstLaunch`, `Launch`, `Picks`, `Create` | `onCreate` of the two activities, with or without a saved device |
| `Destroyed` | `onDestroy` of the activity, some time after it was left |
| `Loads`, `LoadEnds`, `OnReceivedError` | `loadTapiti` and its retry |
| `Opens`, `Fires`, `OnOpen`, `OnError`, `OnBroken`, `OnClose` | the script of the page, `connect` and its handlers |
| `AppDies` | external: the system kills the app, or an exception of its own does |

The process dials the fixed port of the proxy whoever listens there, and serves
on a fixed port: a process that finds it taken ends (`Serves`), as `try_join`
does.  A proxy that finds its port taken waits in `"binding"`: in the code
`acceptLoop` throws there, which nothing catches, and that is a case of
`AppDies`.  `stop` cannot close a server socket that has not been stored, and it
may miss one that has, since nothing synchronises the field: `Unseen`, as in
`StopServer` of `ProxyBridge`.  An activity's pages break with the process that served them
(`Loses`).

`Stray` names the starts a service has lost sight of: those that were
connecting when it was destroyed, those whose server socket `stop` did not see,
and those whose fields another start of the same instance has overwritten.
`NothingLeft` and `OwnProcess` make an exception of them and of nothing else: they
do not say that these races are harmless, they say that there is no other.  That
there are such starts is what the code does (see below).  In the same way
`ShownIsLogged` makes an exception of readings whose insertion failed or whose
process was killed before it.

## 3. What TLC checks

| run | instance | shows |
|---|---|---|
| `cadence` | the real table (13 PIDs), divisors and threshold; the tick wraps at 32 | `StopsCaught`, `CadenceKept`, `FirstPidServed`, `AllServed` |
| `link` | two PIDs, a reader and a clearer, 6 kinds of answer, two commands of the sequence after the reset, threshold 2, 2 attempts, 2 outstanding | `OneCaller`, `QueueKept`, `InStep`, `UsesTransport`, `ForeignOutOfStep`, `Reconciled`, `RequestsAnswered`, `LoopGoesOn` |
| `exchange` | four commands, ATZ among them; an answer is that of the tests of `transport/mod.rs`: two pieces of text, a line feed, the prompt, a line feed | `OneAnswer`, `CleanReads`, `ReturnsByLine`, `ExchangesEnd`, `AnswersInOrder` |
| `exchange_noline` | the same with the answer of an ELM327 that has obeyed ATL0: two pieces of text, the prompt | `AnswerReturned` is **violated** |
| `fault_codes` | ten faults at the edges of the formats, up to two at a time; spaces and line feeds on | `ReadsActiveCodes`, `CodesIdentify` |
| `fault_codes_packed` | the same without spaces, as ATS0 asks for | `ReadsActiveCodes` is **violated** |
| `proxy` | the backlog of the code (1), 2 attempts | `RunsOnBridge`, `BridgeFollowsLink`, `DestroyEnds` |
| `proxy_reconnect` | the same | `ReconnectHeals` is **violated** |
| `readings` | one page, a channel of 2, 3 readings, two seconds | `Unbroken`, `ShownIsLogged`, `ExportIsRecent`, `FeedsInOrder`, `CatchesUp` |
| `readings_session` | the same with seconds of two milliseconds | `WholeRecording` is **violated** |
| `app` | two activities and starts of the service, a page opened from a file, two timers and two sockets per page | `NothingLeft`, `OwnProcess`, `OneLoad`, `OnePursuit`, `PageLoads`, `PageReconnects` |
| `app_origin` | the same | `ServedPageConnects` is **violated** |

Bounds, and why they are enough:

- `Backlog` (2): beyond it the oldest unanswered command of a stream is
  forgotten, which is `Lose`, a step the far end has anyway.  Two are needed for
  an answer to be one behind while a command is outstanding.  The bound is on
  what is outstanding, not on how many commands are sent.
- `MaxConnect` (2 for 10): the attempts differ in nothing but their number;
  the theorems are for any number.
- `InitTail` (2 for 7): with two, a command of the sequence that is the last
  and one that is not (`MCInitTail`), in each run of the link.
- `TickMod` (32 for 2^64): like 2^64 it is no multiple of 3, 5 and 10, so the wrap
  shortens a gap.  `CadenceKept` is proved for every value.  In `link` it is 1,
  which has both PIDs due in every cycle: which PIDs a cycle asks for is the
  question of `cadence`, and there are theorems for every table.
- `Threshold` is 3 in `cadence`; 2 in the link instance, where a count before
  the last and the last are both reached.
- `MaxFaults` (2) is what one line of an answer holds with the header the tests
  use; longer answers come in several lines, which the parser does not join.
  The theorems are for any number a byte can count.
- `MaxConnect` (2) and `Backlog` (1, as in the code) in `proxy`: the kernel queues
  one connection more than the backlog, so two reconnections wait and a third
  is not connected.
- `Capacity` (2 for 256), `MaxReadings` (3) in `readings`: a page that has
  received nothing lags at the third reading, and a channel of one could not
  tell the next reading from the newest.  The refinement is proved for every
  capacity and number of readings.
- `MaxTime` (1) with `Second` (1): two instants in two seconds, so that readings
  may share their time and not their session.  The wall clock does not go back.

- `MaxAsked` (4) in `exchange`: after the reset an answer may be late for one
  exchange, be lost in part with the next and be missing in a third.
- `MaxStarts` (2) in `app`: a start and the one that meets what it left, in the same
  instance of the service or in the next.  The theorems are for any number.
- `Timers`, `Sockets` (two of each per page) in `app`: `OnePursuit` says that one is
  in use at a time, so the second is there to be seen.
- One page from a file, opened only while a process serves (`FileOpens`): one
  opened earlier fails, waits and tries again, as it does after the process has
  gone.

Six runs do not check deadlock because the system really may stop.  `exchange`
and `exchange_noline` stop once the bounded commands are asked and answered;
`proxy` and `proxy_reconnect`, once the service is destroyed and the process gone;
`app` and `app_origin`, once the bounded starts are used and the app is gone.
`ObdLink` and `PollCadence` have an
explicit `Ended` step for the end of the program.

### What the violated properties say

- **AnswerReturned**, without line feeds - `read_line` ends at a line feed.  The
  program's own ATL0 has the ELM327 send none, so an answer that has come whole,
  with its prompt, is left to the timeout of 5 s, or is taken for the beginning
  of the line of a later one.  The test `test_read_response_reads_until_prompt`
  has a line feed behind the prompt, and does not meet this.
- **ReadsActiveCodes**, without spaces - the program's own ATS0 makes an answer one
  token, `parse_response` keeps tokens of two characters, and what remains is an
  empty, successful list.  The lines of this run are ended, or there would be no
  answer to read.  `ShownBySettings` says what each combination of ATS and ATL
  comes to: without line feeds the request fails with 502 after the timeout, but
  for a stream that ends behind the prompt; then data and prompt are on one line,
  which `parse_response` passes over, and the list is empty again.
- **ReconnectHeals** - the proxy accepts one connection in its life.  A
  reconnection of the transport is left in the queue of the server socket and
  its initialisation is never answered.  The property blames nobody else
  (`OthersDoTheirPart`): from some time on the ELM327 answers whatever it is asked,
  and the transport gives an attempt up only when neither the proxy nor the
  ELM327 has a step left to take.
- **WholeRecording** - `insert` gives no session, so each row's session is the
  second of its insertion, and the export of the latest session holds one
  second.  The test that expects two readings in one export passes when both
  insertions fall in the same second.
- **ServedPageConnects** - the page the process serves has the origin
  `http://127.0.0.1:8080`; the server allows `http://127.0.0.1`, without a port,
  and `null`.  The test at `server/ws_tests.rs` 88-92 asks for just that refusal,
  while the comment of `ws_origin_allowed` and the README of the repository (line
  15) have the WebView connect.  The dashboard in the app is refused its WebSocket, tries again
  every two seconds, and is never shown a reading; a page from a file is served
  (`PageReconnects`).

More was met on the way that has no run of its own.  The threshold of
`STOPPED_RECONNECT_THRESHOLD` counts STOPPED answers that need not be consecutive, as its comment says: only bytes or the threshold reset
the counter (`StopsCaught` is the direction that matters, and holds).  The
comment of `reconnect` asks for it after a transport error, but the handlers of
`/dtc` answer 502 and `init_elm327` warns, and both leave the stream as it is.

An exchange that times out leaves its answer on the way, so a late `OK` of
`AT SH 7E0` may be what `clear_dtcs` reads: `is_clear_ack` takes it for an
acknowledgement and the browser is told `cleared` though mode 04 was not
answered.  `ForeignOutOfStep` says that this, and any other foreign answer, takes
a failure first.  `bridge` waits for the Bluetooth-to-TCP pump only: when the Rust
process goes, it waits on until the Bluetooth side says something, though the
comments of lines 63 and 78 of `TcpProxyServer.kt` say that either end stops it.

`parse_response` knows a refusal by five words.  Messages of an ELM327 that have
none of them, such as BUFFER FULL and BUS BUSY, have no token of two characters
either: they parse to no bytes, and `GET /dtc` answers 200 with an empty list.
The repository does not say which messages there are, so nothing is checked
about the list of words.

In the app: on the first launch `onDestroy` uses `webView`, which was never set, and
the app is killed.  A second start of the service while the first proxy listens
ends in a `BindException` nobody catches, which kills it too.  `onDestroy` of an
activity stops the service its successor has started.  A service destroyed
while `connect` runs leaves a link, a proxy or a process that dials, or holds,
the port of the next.

### Fairness

The program's steps are weakly fair, per process (`Main`, `Loop`, `Serve(h)`):
each await ends by itself - an exchange by its timeout, a dial by the operating
system, a sleep by the timer, the mutex by its queue - and tokio runs ready
tasks.  Nothing is assumed of the far end, which may answer or not, and none of
the clients, who may never ask.  `Respond` is fair because a response fits the
socket's buffer; a client cannot hold it up by not reading.

In `ProxyBridge` the threads run, the calls of the transport end and `onDestroy`
is not stopped half-way; the Bluetooth link and the ELM327 owe nothing, but for
the premise of `ReconnectHeals`.  In `Readings` the
task of a page is scheduled and its page reads; nothing is assumed of the
polling loop, of the insertions or of the export.

In `Exchange` time passes (`WF_vars(FarEnd)`): the far end sends something, or has
paused for longer than an exchange waits, or has hung up; and the task of the
exchange is scheduled (`WF_vars(Transport)`).  That the far end answers is not
assumed.  In `AndroidApp` the WebView of an activity and the script of a page run
(`WebView(a)`, `PageStep(p)`), since the main thread and the browser do; nothing is
assumed of the user, the system, Bluetooth, the service or the process.
`PageLoads` and `PageReconnects` are about an activity or a page that stays while
a process serves.

`AllServed` has the premise that reconnections cease: every one of them starts
the ticks over, so on a link that breaks every few cycles the PIDs due every
tenth tick are never asked for.  `FirstPidServed` needs no premise.

## 4. What is proved

TLAPS checks, for every value of the constants that satisfies the modules'
assumptions:

| theorem | states |
|---|---|
| `TransportProofs!TransportSafe` | `TransportSpec => [](TransportTypeOK /\ InStep)` |
| `TransportProofs!TransportOwnAnswer` | `TransportSpec => []OwnAnswer` |
| `PollCadenceProofs!StopsAlwaysCaught` | `Spec => [](TypeOK /\ StopsCaught)` |
| `PollCadenceProofs!CadenceAlwaysKept` | `Spec => []CadenceKept` |
| `ObdLinkProofs!LinkSafe` | `Spec => [](TypeOK /\ OneCaller /\ QueueKept /\ InStep)` |
| `ObdLinkProofs!LinkUsesTransport` | `Spec => UsesTransport`: the composition implements `TransportSpec`'s safety |
| `ObdLinkProofs!ForeignOnlyOutOfStep` | `Spec => ForeignOutOfStep` |
| `ObdLinkProofs!ReconnectionReconciles` | `Spec => Reconciled` |
| `ExchangeProofs!ExchangeSafe` | `Spec => [](TypeOK /\ Ordered)` |
| `ExchangeProofs!AnswersReturnedInOrder` | `Spec => AnswersInOrder`: the exchange implements `OrderedAnswers` |
| `ExchangeProofs!CleanStreamReadsClean` | `PromptIsLast` implies `Spec => CleanReads` |
| `ExchangeProofs!AnswersReturnByLine` | `PromptIsLast` implies `Spec => ReturnsByLine` |
| `ExchangeProofs!NothingReturned` | `NoLineFeed` implies `Spec => [](open => response = <<>>)` |
| `FaultCodesProofs!CodesTellFaults` | `Spec => []CodesIdentify` |
| `FaultCodesProofs!CodesBySettings` | `Spec => []ShownBySettings` |
| `ProxyBridgeProofs!StreamIsBridged` | `Spec => [](TypeOK /\ RunsOnBridge)` |
| `ReadingsProofs!FeedIsOrdered` | `Spec => FeedsInOrder`: channel and tasks implement `OrderedFeed` |
| `ReadingsProofs!ShownIsAlwaysLogged` | `Spec => []ShownIsLogged` |
| `ReadingsProofs!NeverBroken` | `Spec => []Unbroken` |
| `ReadingsProofs!ExportsTheLatest` | `Spec => ExportIsRecent` |
| `ReadingsProofs!ReadingsTyped` | `Spec => []TypeOK` |
| `AndroidAppProofs!ServiceSafe` | `Spec => [](NothingLeft /\ OwnProcess)` |
| `AndroidAppProofs!LoadsOneAtATime` | `Spec => []OneLoad` |
| `AndroidAppProofs!PursuesOnce` | `Spec => []OnePursuit` |
| `AndroidAppProofs!AppTypes` | `Spec => []TypeOK` |

**Transport.** `TransportTypeOK /\ InStep` is inductive: a stream that has not
lost step holds nothing between exchanges, and during one at most the one live
entry of its command.  The type invariant has the part that ties `new` to the
stage of the connection (`call.op \in {"reset", "init"} <=> new.lost # "never"`),
without which `ConnectReturns` could promote a stream nobody initialised.
`OwnAnswer`, that a send on such a stream returns the answer to its own command,
follows from `InStep` at once and has no run of its own.

**Exchange.** The abstract specification promises the order of the answers, and
`IInv` says what keeps it: every prompt that has been read in the exchange in
progress, or waits to be read, is one that may still be returned (`Returnable`),
because an exchange that ends takes everything that had arrived with it
(`Leaves` sets `next` to the prompt still to come).  The theorem is for every
layout with one prompt, the one of ATL0 among them.

The next two are for the layouts of `PromptIsLast`: the prompt is the last piece, as
under ATL0, or a line feed follows it, as in the answers of the tests of
`src/transport/mod.rs` (`LayoutAssumption` in `MCExchange` has TLC confirm it of both
instances).  On a clean stream what the exchange has read, and what has arrived,
are the pieces of the one answer, from the first (`FromTheFirst` and `Reading`,
together `CInv`).  So what is returned is whole, and `ReturnsByLine` says when: if
the layout has a line feed behind the prompt, and only then.  `NothingReturned` is
the consequence for the program's own settings: where there is no line feed no
line ends in what is read, and while the far end keeps the stream open no
exchange returns anything at all.

`OneAnswer` is false when no line feed follows the prompt: the prompt of a late
answer and the text of the next are then one line.  That it holds of the layout
of `exchange` is a lemma, for `PromptEndsLine` (`OneAnswerAtATime`): between pieces of two answers lies the line of a prompt, with
its end (`InPieces`), so what comes up to the first such line is of one answer.
That there is a first line is the least-number principle (`Least`), from the
well-foundedness of `<`.

**FaultCodes.** `CodesIdentify` is arithmetic: a byte is its two highest bits, the
two after them and its last digit (`PartsOfByte`), and a number of twelve bits
its digits, two or three of them (`HexTells`), so a code that has lost a zero is
still taken by no other fault.  `CodesBySettings` makes no assumption on the settings, the
program's own among them: `ShownBySettings` has a case for each.  With spaces and
line feeds the answer is followed through
three recursive functions: the bytes the ELM327 prints (`FlattenSeq`), the
tokens the parser keeps (`Pairs`) and the pairs the decoder reads
(`DecodeDtcBytes`).  For each a function in closed form satisfies the same equation,
and the two agree because there is no least argument where they differ
(`FlattenFaults`, `PairsOfBytes`, `DecodeFaults`).  In the other cases the line of the
data has no token the parser keeps, or is passed over (`NothingWithoutSpaces`,
`NothingWithoutLines`).  `ReadsActiveCodes`, which `fault_codes` checks for the layout
of the tests, is the first case (lemma `ActiveCodesRead`); it is false in the
others, as `fault_codes_packed` shows of one.

**PollCadence.** `StopsCaught` is inductive with the types.  `CadenceKept` is
not: it needs what a wait has to do with the tick.  `CadenceInv` adds that a PID
still to come in this cycle, or any PID between cycles, has waited no longer
than the ticks since its last multiple (`WaitFits`, with `Since`), or since the
ticks started over; the wrap is the case in which the tick becomes 0 and every
PID is due.

**ObdLink.** `LinkInv` is `TypeOK /\ OneCaller /\ QueueKept /\ InStep` and
`Opened`: outside `"boot"` and `"exit"` there has been a stream, and in `"boot"`
the only call is main's connection.  Its preservation has one step per action;
steps of the transport are discharged by `TransportNextInv`, and those of the
loop by `SchedulerNextType` (of `PollCadenceProofs`, by INSTANCE), so neither component is proved about twice.
`UsesTransport` then needs `Opened` (main's connect comes first) and
`OneCaller` (a call is made only when none is in progress).

**ProxyBridge.** `BridgeInv` adds to the types and `RunsOnBridge` that bytes for
the Rust side exist only on the bridged connection (`AnsweredOnBridge`), without
which an initialisation could be answered elsewhere, and that nothing is
accepted twice (`AcceptedOnce`).

**Readings.** `FeedInv` says that the channel is in order and, per page, that what
it has been shown, what its task is writing and what it has yet to receive
follow each other and were all made after it was accepted (`Follows`, `Ahead`);
one lemma per action of the tasks, with `OtherPages` for the pages a step is not
about.  The write is then a `Show` of `OrderedFeed`.  `ShownIsLogged` needs
`Accounted`: every reading made is in the table, pending or dropped.  `Unbroken`
is inductive once it says where a task is (`Gapless`): a page that neither lagged
nor left has been shown, one for one, the positions from its first to the one
its task stands at, and a frame being written is the last position taken.
`ExportIsRecent` is the step of an invariant (`Kept`): the session an export asked
for had the latest row then, and rows are only added.

**AndroidApp.** The argument for the service is that what a start holds, if the
service has not lost sight of it, is what the fields of the instance hold
(`InFields`), so that `onDestroy` takes all of it.  `Stages` says how far a start
has come and what it can hold by then.  `NothingLeft` follows from `InFields`;
`OwnProcess` is in the invariant, since a proxy that is not lost and listens is
the instance's own, and so is a process that is not lost and dials.  Steps that
only take something away are one lemma (`Goes`, `Frees`).  `OneLoad` is inductive
with the types of what the WebView keeps.  `OnePursuit` follows from `Pursuits`: a page
that runs has one timer and no socket, or one socket and no timer, a page that
does not has neither, and the timer the script remembers is one that is set.
`AppTypes` needs that, `IInv`, and that a page is shown only where an activity is
alive (`ViewInv`): the bounds on timers and sockets are part of the types.  The
one assumption on them is that there is a timer to set (`TimerAssumption`).

Only model-checked: the liveness properties (`FirstPidServed`, `AllServed`,
`RequestsAnswered`, `LoopGoesOn`, `ExchangesEnd`, `BridgeFollowsLink`, `DestroyEnds`,
`CatchesUp`, `PageLoads`, `PageReconnects`), which rest on fairness and `ENABLED`.
Every other property of the passing runs, and each of the three refinements, is
stated by a theorem of the table, but for `OneAnswer` and `ReadsActiveCodes`, which
depend on the layout and are lemmas under that of their run.

## 5. What is left out

Within the modules above:

- Bytes on the wire.  In `Transport` an answer is one entry; lines, pieces and the
  end of the stream are in `Exchange`, which has no reconnection.  Bytes that are
  not UTF-8, which `read_line` refuses, are a failed exchange like any other.
- A new stream starts empty: what the ELM327 still says to an earlier client of
  the proxy is not carried over.
- Time: the timer's `Skip` behaviour shows only as the order of ticks.
- Numbers of the readings, wording, logs, the descriptions of the codes.
- Answers in several lines (three faults and more), `SEARCHING...` before an
  answer, and the KWP layout of mode 03, which has no count.
- Failures of `bind` and `accept` of the server, which end the process, but for
  `Exits` in `ProxyBridge` and a port that is taken (`Serves` in `ServiceLife`).
- A wall clock that is set back, and the order of the lines of a CSV.

- In `AndroidApp`, an activity that is left does not come back, and a page opened
  from a file is opened while a process serves.  Notifications, the hash of the
  binary and the choice of the device are left out.

Not modelled:

- `ws_text_frame`, `ws_accept_key`, SHA-1, base64, `extract_query_param` and
  `extract_ws_key`: conversions of bytes without a state, which the repository's
  tests check against known values.
- The formulas of the readings, the descriptions of the fault codes, the AT
  command strings, the arguments: constants and arithmetic without a state.
- The layout of the picker, and the gauges of the page: nothing depends on what
  they keep.

What could be added, in this order: an abstract specification of the shared
transport (an operation is requested, then answered by its own answer or an
error) which `ObdLink` implements while no exchange fails; `Exchange` across a
reconnection through the proxy, with what the ELM327 still says to the earlier
connection.
