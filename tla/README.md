# A TLA+ verification of the AudioReach PulseAudio plugins

The repository connects PulseAudio to Qualcomm's Platform Audio Library (PAL). This
directory models the parts of it that keep state and take turns: what the threads,
callbacks, D-Bus handlers and client processes do to that state, in which order, and
what is left when a step in the middle fails. TLC checks small instances; TLAPS
proves safety properties of every component for every value of its constants.

Paths below are relative to `src/`; `CARD` stands for
`modules/pa-pal-plugins/module-pal-card/`, `VOICEUI` for
`modules/pa-pal-plugins/module-pal-voiceui-card/`.

## 1. Inventory of the system

| Component | State | Operations | Who calls, who is called | What is hard |
|---|---|---|---|---|
| Sink `CARD/src/pal-sink.c` | stream handle, `pal_sink_opened`, `standby`, `compressed`, `restart_in_progress`, `close_output`, `write_done`, mutex, `sink_event_id`, semaphore | set_volume, set_port, set_state, reconfigure, set_format, drain, flush, latency, create, close | main thread, I/O thread, write thread of a compressed sink, PAL's callback | a condition variable without a loop, two writers, restart and teardown against both, half failed opens |
| Source `CARD/src/pal-source.c` | as the sink, without write thread | set_volume, set_port, set_state, reconfigure, create, close | main thread, I/O thread | a reader that blocks under the mutex, an event set without it, error paths that free what is still referenced |
| Loopback service `CARD/src/pal-loopback.c`, `bt-a2dp-split.c`, `hfp.c` | sessions and their count, connection filter, two use cases with their streams, cached volume, mute, rate | BtConnect, BtDisconnect, CreateLoopback, DestroyLoopback, SetVolume, SetMute, SetSampleRate, death of a connection | D-Bus clients, PAL, libdbus | several PAL calls per handler, each may fail; several clients share two use cases |
| Card `CARD/src/module-pal-card.c` | hash maps of sinks, sources, ports, profiles; dynamic sinks and sources | load, unload, jack events that add, replace and remove dynamic sinks and sources | PulseAudio core, jack registry, sink, source | events in any order, partial failure of load |
| Card D-Bus parameters `CARD/src/module-pal-card-extn.c` | the D-Bus registration | set/get parameters | D-Bus clients, PAL | conversions; init fails half way |
| External jack `CARD/src/pal-jack-external.c` | a parameter, a thread with a state, mutex and condition, the jacks with an interface | set_param, connect, disconnect, start, stop, enable, disable | D-Bus clients, main loop, card | hand-over of one parameter between threads, spurious wake-ups, EXIT without the mutex |
| Jack registry, HDMI jack, format detection `CARD/src/pal-jack.c`, `pal-jack-hdmi-out.c`, `pal-format-detection.c` | the callbacks of each jack, an uevent socket, the status of the cable | register, deregister, enable, disable, uevent | kernel uevents, card | order of uevents, what outlives an unload |
| Configuration parser `CARD/src/pal-config-parser.c` | none after load | parse | card | text only |
| Utilities `CARD/src/pal-utils.c` | none | volume, device connection, name and format tables | sink, source, loopback | clipping |
| Voice UI service `VOICEUI/module-pal-voiceui-card.c` | per session: PAL handle, thread state, mutex, condition, read buffer, `recognition_started`, `is_session_started` | load and unload a sound model, start and stop recognition, request, read and stop buffers, PAL's detection callback, death of a client | D-Bus clients, PAL's thread, a read thread per session | flags written without the mutex, lost signals, teardown against the thread |
| Voice UI client `utils/pa_pal_voiceui` | per session: a loop thread, subscriptions, callback, the buffer of a read, its sequence number, mutex and condition | load, unload, start, stop, request and read of a buffer, stop buffering | applications, the voice UI service, its own loop thread | timed waits that race the answer, a handler that writes without the lock |
| Bluetooth audio client `utils/pa_bt_audio` | `g_mod_data`, `pa_bt_async_data`, the table of sessions, a signal thread per call | connect, disconnect, parameters of a source | applications, external jacks, loopback service | a wait without predicate that begins after the reply, module data shared by two roles |
| Context detection client `utils/acd` | as the voice UI client, without reads | load, unload, start, stop | applications, PulseAudio | the same |
| Test programs | none | | | |

What makes each component correct:

* **Sink.** A writer never sleeps for a signal that is over; the stream is not
  closed under a write; `standby` and RUNNING mean a started stream whatever failed;
  sound comes out of the active port; a suspended sink is silent; every request
  returns; teardown frees nothing a thread still uses.
* **Source.** Handle and flags agree with PAL after every failure; it records from
  the active port and at the rate PulseAudio was told; a request of the main thread
  neither disturbs a read nor waits for it for ever.
* **Loopback.** Sessions, use case data, count and filter agree; every stream is
  owned by a leg and closed with it; PAL never sees a closed handle; volume, mute
  and wide-band speech in PAL are what the session was told; the last session leaves
  nothing behind.
* **Card and jacks.** Each port has the dynamic sink or source of the stream that
  its jack reported last, whatever the others do; the HDMI port follows its cable;
  no callback outlives the load that registered it.
* **External jacks.** A parameter reaches the card once, for the jack it was set on,
  and then is reported.
* **Voice UI.** A read request or a stop is answered once; a stop never ends a
  recognition started after it; the bytes an event announces are in its buffer.
* **Client libraries.** A wait ends with its own answer, not an older one, and ends;
  what the library believes of its sessions and parameters is so.

## 2. Modules

| Module | Models | State of the plan |
|---|---|---|
| `PalSink` | the sink with all its threads | done; implements `StreamTurns` |
| `PalSource` | the source with its two threads | done; implements `StreamTurns` |
| `StreamTurns` | abstract: what the mutex, the event and the condition variable of a PAL stream promise | done |
| `Loopback` | the loopback service, clients that die, PAL's side | done; implements `LoopbackCalls` |
| `LoopbackCalls` | abstract: two sessions, what each was told and what is heard on its legs | done |
| `HdmiJack`, `Card` | `Card` extends `HdmiJack` and adds the jack registry and the dynamic sinks and sources | done; implements `DynamicEndpoints` |
| `DynamicEndpoints` | abstract: one sink or source per port, for the stream reported last | done |
| `ExternalJack`, `BtAudioClient` | `BtAudioClient` extends `ExternalJack`: the client library composed with the handlers and the thread it talks to | done; implement `ParamMailbox` |
| `ParamMailbox` | abstract: a parameter is accepted, delivered, reported, then the next | done |
| `VoiceuiSession` | the session of a sound model in the service | done for one session; implements `VoiceuiService` |
| `VoiceuiService` | abstract: which event the service may send when | done |
| `VoiceuiClient` | a session in the client library, composed with `VoiceuiService` | done for one session |

Each component has an `MC` module with the values of its constants, and a proof
module (`PalSinkProofs`, `PalSourceProofs`, `LoopbackProofs`, `CardProofs`,
`BtJackProofs`, `VoiceuiProofs`, `VoiceuiClientProofs`) that extends it;
`LoopbackStreamProofs` extends `LoopbackProofs`.

Left in the plan, none of it needed by what is there: several sessions of the voice
UI service that share `is_session_started` and of its client that share
subscriptions. Every safety property of the runs is proved (section 11).

## 3. PalSink: state and actions

Every variable is a field of the C structures; its comment in the module names it.
Three values are groups: `config` holds the ports, devices and rates that must
agree, `pal` the streams PAL has alive and started, `pc` where each thread is. The
correspondence of actions:

| Actions | Code |
|---|---|
| `SetVolume`, `SetPort`, `ApplyEvent`, `SignalWriter` | the volume and port callbacks: event set without the mutex, the PAL call under it, event cleared, `pa_cond_signal` |
| `SendState`, `ExecState`, `StartOpen`, `StartStream`, `StartCleanup`, `IoClose` | a state change sent by the main thread and executed by the I/O thread, with the whole error path of `pa_pal_sink_start` |
| `Reconfigure`, `SetFormat`, `ClearFormat`, `RestartClose`, `RestartOpen` | the two callers of `restart_pal_sink` and its two halves |
| `RenderChunk`, `PostChunk`, `TakeChunk` | how a chunk reaches `write_chunk`: directly in a PCM sink, through the write thread in a compressed one |
| `CheckOutput`, `Acquire`, `Resume`, `SpuriousWakeup`, `WriteDone`, `WriteFails`, `WritePartial`, `SemWait` | the loop of `write_chunk`, cut where another thread can run |
| `PollSem`, `WriteReady` | the write thread's descriptor and PAL's callback |
| `JoinIo`, `FreeSink` | teardown |
| `GetLatency`, `DrainOrFlush` | requests that change nothing and assert a stream |

Atomicity: a section under the mutex that makes no blocking call is one step, taken
when the mutex is free. `pal_stream_write` blocks while it holds the mutex, so the
lock and the return are two steps. Every unprotected access of shared data is in a
step of its own where another thread can see the difference (the event is set before
the lock; `close_output` is set before the lock of a close).

`StreamTurns` says what all this is for, in five sentences: the main thread has one
request after the other, each made while nobody holds the mutex and then signalled; a
signal wakes one of those who wait; a user gives way to a request once, and takes its
turn after its wait; the stream a user was given is not closed during its turn; the
device changes with an open or a request only. It has no program counters and no
event. `TakesTurns` is its specification under a mapping: `request` is where the main
thread is in `SetVolume` and `SetPort`, `turn` the holder of the mutex, `using` the
handle its PAL call was given, `parked` and `woken` the threads before and after the
signal, `live` the streams open in PAL, `device` the one it was told last. The event,
`standby`, restarts and the error paths are not in it: that they never make a step it
does not allow is what the property says. Sink (a PCM sink's writer is its I/O thread,
a compressed one's its write thread, and a restart may change which) and source map
to the same module.

The device of a new sink is that of the first port listed for it, the active port is
the one PulseAudio chose by priority: `Init` leaves both open, in the sink and in the
source, as shipped configurations list them in opposite orders. So nothing is said of
the device before the first accepted port request: the history `agreed` says that the
last one was, `behind` that the stream is older than the present device. A refused
request leaves the device with the new port and PulseAudio with the old one.

External, and modelled from how the code uses it: PulseAudio's order of state
changes (`CanSend`, `SendState`, `Reply`: a failed change is accepted only on resume
and asserted otherwise), PAL (each call succeeds, or fails if its name is in
`Failures`), the mutex and the condition variable.

## 4. Loopback: state and actions

All handlers run in the main loop, so one handler is one step; what is hard is
inside a step. `leg` holds the handle, volume and mute of each loopback stream,
`pal` the PAL side: streams alive, their volumes, the muted ones, connected devices,
SCO, wide-band speech and the rate of the call. `BtConnect`, `CreateLoopback`,
`DestroyLoopback`, `BtDisconnect`, `SetVolume`, `SetMute` and `SetSampleRate` are
the D-Bus handlers, `Disconnected` is the filter callback of a dying connection,
`Reconnect` the environment. Each step chooses the PAL call that fails and leaves
exactly what the error path of that call leaves. `aborted` is an assertion of the
code, or libdbus stopping the process when a filter is removed that was never added
(`DBusChecks`, on in every passing run). `Reload` is an unload of the module followed
by a load: the sessions' objects and the filters stay behind (`leftover`), and
`ReachLeft` is a call that follows one of them into code that is gone. Between the
two no handler of the service runs, so that one step stands for both.

`LoopbackCalls` is what a client may rely on: a use case has no session, an idle one
or one that plays; each leg has the volume it was told, and is silent or heard with a
gain, muted or not. It knows no stream, handle, object path, count or filter.
`UsecasesKeepApart` maps the service to it: a leg is heard if its handle names a
stream that is open in PAL, whether or not its use case counts as running, with the
volume and mute PAL has for that stream. So a handle left behind that comes to name
the other use case's new stream, a close of the wrong stream or a stream that outlives
its session is a step that `LoopbackCalls` does not have.

## 5. VoiceuiSession: state and actions

One session, the main thread (`main`), the read thread (`async`) and PAL's thread
(`callback`). The mutex protects the requests; `thread_state` is also written
without it by the callback and the unload, and `recognition_started` never has a
lock. A section under the mutex is one step, cut where such a write can fall into
it: between the test and the wait of the thread's loop (`loop`), between the test
for a queued read and its reset (`answer`), between a PAL call and the flag
(`starting`, `stopping`, `buffering`, `halted`).

| Actions | Code |
|---|---|
| `Load`, `StartRecognition`, `StopRecognition`, `RequestRead`, `StopBuffering`, `Unload` and their second halves | the D-Bus handlers |
| `Disconnected` | the filter callback of a dying connection |
| `EnterThread`, `Wait`, `Wake`, `Halt`, `Halted`, `ReportStop`, `ReadReturns`, `AnswerRead` | `async_thread_func` |
| `Detect`, `ResetState`, `Announce` | PAL detects; `event_callback` before and after its event is sent |

`VoiceuiService` is what a client may rely on, over four variables: what is asked for
(`phase`), the event the thread is committed to send (`sending`), whether recognition
is on, and whether a detection is being reported. A read is granted only when nothing
is asked for and no read is being answered; the thread commits to an answer only
while the read is still asked for, and then sends it once, whatever comes between; a
detection forgets what is asked for but not what is committed; a stop is reported only
if it was asked for, though perhaps twice (the state stays STOP_BUFFERING). The
refinement `KeepsContract` maps `phase` to `thread_state` (with the events the client
waits for telling a reported stop), `sending` to where the read thread is, and needs no
calm setting: leaked mutexes, overwritten states, deaths and spurious wake-ups
included. The threads, the mutex, the flag and the buffer are not in it.

`setting` is the environment, chosen once. In a `"rough"` one clients call in any
order and die, and condition waits return unsignalled. In a `"calm"` one a client
waits for the event it asked for, reads and stops buffering only after a detection,
starts recognition after the read thread has begun, and unloads a model that does
not listen when the thread has reached its wait; there are no spurious wake-ups.
`pa_qst_*` of the client library is calm as long as its timed waits do not expire.
What holds in every setting is stated without a condition; what needs a calm one
says so. In a rough setting the model shows the rest: a join that waits for a thread
which missed its EXIT, a read or a stop that is forgotten, a recognition stopped by
the end of the previous buffering, an event with more bytes than its buffer (a
detection resets the state under a read, and the next request changes the size; the
history `forgotten` marks such a read), a session freed under its thread after its
client died.

## 6. PalSource: state and actions

As in `PalSink`, variables are fields, `config` and `pal` are groups. The mutex is
the one of `pal_sdata`: volume, port and read take it, the event that makes the
reader wait is set before. The read blocks while it holds the mutex and is cut at
its return; every other section under the mutex is one step.

The source implements `StreamTurns` by the mapping of section 3, with the I/O thread
as the one user.

| Actions | Code |
|---|---|
| `SetVolume`, `SetPort`, `ApplyEvent`, `SignalReader` | the volume and port callbacks: event, lock, PAL, event cleared, signal |
| `Reconfigure` | the rate change: the attribute gets the new rate, a refused format or map (`"map"`) ends it there, else close and open; the source's own rate is restored unless all went well |
| `SendState`, `ExecState`, `StartOpen`, `StartStream`, `IoClose` | a state change sent by the main thread, executed by the I/O thread, with the error paths of the start |
| `NewChunk`, `Lock`, `Resume`, `SpuriousWakeup`, `ReadReturns` | the read loop |
| `JoinIo`, `FreeSource` | teardown |

`data = "lost"` is a start that freed the data the source still points to; the
requests that then assert them abort. `"cast"` is `close_pal_source` given a pointer
of another type. Each execution has one group of PAL calls that may fail
(`failing`), so that a property can name the failures under which it holds.

## 7. Card, jacks and DynamicEndpoints

All of it runs in the main loop, a handler is a step. `HdmiJack` is the socket with
its queue of uevents, the cable, and what the kernel names in them. A uevent is lost
when the kernel has no room for it or `recv` fails (`LoseUevent`), and the check at
load may find a state it cannot read; the history `missed` says that what would tell
the present cable did not arrive. `Card` is the
rest: `Load`, `LoadFails`, `Unload`, `JackIo` (one uevent and the card's callback),
`ExternalEvent` (what an external jack reports), `Retune` (PulseAudio plays another
rate to a sink). `hooks` is the registry: which loads of the module a jack calls
back. The order of configurations in the file is left open, a refused sink or source
is a choice.

What the model shows of the code outside the properties: `NO_VALID_STREAM` is
handled but reported by no jack; a wired headset, line-out or headphone jack cannot
be registered, so its branch of the callback is never reached; a failed load runs
the unload, which asserts the D-Bus extension and stops the daemon; a secondary HDMI
port is not deregistered; `jack_in_config` is not reset between two ports; two ports
in one dynamic configuration take each other's sink away.

`DynamicEndpoints` says, port by port, what a jack event does to the one sink or
source of that port and that no other port is touched. The refinement maps
`endpoint[p]` to the media of the configuration present on `p`. A medium is an
encoding, a sample specification (format, rate, channels) and a channel map; a PCM
sink is kept if either of the last two is as before, a compressed one if the encoding
is.

## 8. ExternalJack, BtAudioClient and ParamMailbox

`ExternalJack` is the daemon's side. The main thread handles one message at a time;
`set_param` stores the text before it takes the mutex (`stored`). The thread
(`async`) tests its state under the mutex, waits, and when woken copies the
parameter, calls the card and sends `JackSetParamDone` (`fire`, `hook`, `relock`). A
parameter points into a message that is freed after its handler: reading it later
may give the text or `Garbage`. Loading and unloading start and join the thread.
What a connection says of the stream and of the port is `ExternalEvent` in `Card`.

`BtAudioClient` is the application's side in one process: a library call with its
D-Bus calls (`Plug`, `Subscribe`, `CallSetParam`, `WaitForDone`, `Timeout`,
`Unsubscribe`, `LoopbackConnects`, `LoopbackDisconnects`), the signal thread it
starts and joins, `g_mod_data` (`mod`), `pa_bt_async_data` and the table of sessions
(`known`), beside `sessions`, what the loopback service has. The three ways to set a
parameter differ when the call is refused (`SetParamRefused`): a connection parameter
returns at once, a suspension unsubscribes first, a sample rate waits its whole
time-out for a signal that nobody sends.

`setting` is chosen once: `"calm"`; `"failing"` (connections, subscriptions and
loopbacks fail, parameters are not understood, the application changes role in the
middle); `"hurried"` (threads are slow, waits end early, spurious wake-ups);
`"others"` (other processes send messages to the jacks).

`ParamMailbox` is a place for one parameter. The refinement maps it to the thread's
state: empty when there is nothing to serve, accepted until the card's hook has run,
delivered until the mutex is taken again. In a setting that is not calm the mapping
stands still, so the property speaks of calm executions only.

## 9. VoiceuiClient

The client's thread (`main`) makes one call after the other; the loop thread
(`loop`, `handler`) takes events and runs the handlers, which copy the answer into
the caller's buffer, write the sequence number and signal, in three steps, as only
the last takes the mutex. The service is `VoiceuiService`: every call of the client
and every event is an action of it (`Contract!GrantRead`, `Contract!Answer`, ...)
together with the queue of events on the bus, which keeps their order. As
`VoiceuiSession` is proved to implement it, what is shown of the client holds of the
client with that service: an answer that comes after a detection which forgot the
read, a stop reported twice, a detection reported after recognition was stopped. A
buffer is known by the number of the read that brought it and its
content by the number of the read it answers. `version` is the interface: the old
one reads synchronously (`ReadAtOnce`). A time-out looks at the sequence number once
more, as the code does, so that an answer that was published but not signalled still
counts. A StopListeningForSignal that fails skips the unsubscription, and the session
is freed under its handlers (`orphan`, `TakeOrphan`: what they find there is
arbitrary).

In a `"calm"` setting a wait does not end while something is on its way, a stop is
reported once, the loop runs when it is told to quit and signals can be unsubscribed;
in a `"late"` one none of it is so. The client's calls
are arbitrary in both.

## 10. What the runs check

| Run | Instance | Shows |
|---|---|---|
| `pal_sink_pcm` | PCM sink, 2 ports, 3 streams, every failure, restarts, spurious wake-ups | `TypeOK`; `NoLostWakeup`: a waiting writer is still to be signalled; `StartedAsReported`: flags and state mean a started stream; the refinement `TakesTurns` |
| `pal_sink_ports` | 2 ports, one HDMI, any first and active port, reconfigurations, every call may fail but open and stop | `SoundFollowsRequests`: a stream opened since the last port change plays on the device, which is the active port's once a request was accepted, and a suspended sink is silent; `OpenedHasStream`: the assertions of port change and close |
| `pal_sink_live` | compressed sink, restarts, fair, every failure but a write's | `WriteToLiveStream`, `FreedOnlyWhenQuiet`; `StateChangeAnswered`, `RequestAnswered` |
| `pal_source` | 2 streams, 3 ports (headset, HDMI and another; any first and active one), 2 rates, static and dynamic, 6 groups of failures (refused maps in one), spurious wake-ups, fair | `RecordsAsAsked`; `RecordsFromActivePort`; the refinement `TakesTurns`; `ReadsUndisturbed`; `RequestAnswered` |
| `loopback_sessions` | 2 clients, 3 streams, reloads, failures of connect, start and stop | `SessionsAgree`, `RunningOwnsStreams` |
| `loopback_streams` | 1 client, 3 streams, failures of opens, starts and mute, a volume above the clip | `StreamsOwned`, `NoStaleCall`, `PlaysAsTold`, `NoSessionIsClean`; the refinement `UsecasesKeepApart` |
| `loopback_bad_path` | 2 clients, no failures | violates `NeverAborts` (section 12) |
| `card_jacks` | HDMI out, an external output and an input, 5 streams (two PCM ones that differ in channels and map at one rate, two at different rates with one map, two encodings), static and dynamic configurations, 2 uevents queued, lost uevents, checks that fail, 2 loads | `TypeOK`, `HdmiFollowsCable`, `NoStaleCallback`; the refinement `FollowsJacks` |
| `bt_jacks` | the 2 SCO jacks, a telephone as gateway and as client (source and sink role), 1 message of another process, all settings, fair | `TypeOK`, `ParamWasDelivered`, `SessionsKnown`; the refinement `ServesEachOnce`; `CallReturns`, `UnloadReturns` |
| `voiceui_session` | 1 session, 2 sizes, calm and rough, fair, failures of config, start, stop and of the thread's creation | `EventFitsBuffer`: the size an event announces is that of the buffer read into; `ReadWasAsked`; the refinement `KeepsContract`; `RecognitionKept`, `RequestsEnd` |
| `voiceui_client` | 3 reads if calm, 1 if late, 2 events on their way, both interfaces, fair | `ReadGetsOwnAnswer`, `NoStrayCopy`, `CallReturns` |
| `voiceui_client_late` | 1 read, late | violates `NoLateCopy` (section 12) |

Why the bounds are enough. A sink or source has one handle; a second stream is alive
only if a failed close or set_buffer_size leaked the first, and a third (of the
sink) shows that leaks do not interact; the guards in `SendState` and `BeginRestart`, and `OpenStream` of the source,
stop when all are leaked. The ports are those the code
distinguishes: HDMI, another detachable one (in the source), and one that is not.
Two rates are an old and a new one. In Loopback three streams are all that both use
cases can run at once, `MaxFilters` (two) lets a filter be added twice to one
connection, and the volume 20 is clipped. In `Card` two uevents in the queue are one
that is stale and one that tells the present; the second load meets what the first
left. In `BtAudioClient` one event suffices, as a second is sent only after a second
`SetParam`; `MaxOthers = 1` lets one foreign message fall into any place of any
call; a use case with two jacks sets one after the other, so that what the first left
meets the second. In `VoiceuiClient` three reads are one that fails, one that follows, and one
that meets what the second left; with late answers, where only `CallReturns` and
`NoLateCopy` speak, one is enough: its answer comes while it waits, after it, or after
the session is gone; two events are an answer with a detection or a stop. Two sizes of `VoiceuiSession` are a buffer that is kept and one that is
allocated anew; a session that was freed can be loaded again. Streams are a symmetry
set in the runs of Loopback, where invariants and the refinement of `LoopbackCalls`, which
mentions no stream, are checked.

Conditional properties name their condition in their comment. `SoundFollowsRequests`
needs a stop or a close that succeeds, and speaks of streams opened since the port
changed and of ports that agreed; `OpenedHasStream` needs a sink that is not dynamic, and, where the stream is
restarted, opens that succeed (and for a compressed one closes and mappings); `StreamsOwned` and
`PlaysAsTold` need PAL to close and to take volumes, `UsecasesKeepApart` both and the A2DP stream to start; `NoStaleCall` needs the A2DP
stream to start; `NoSessionIsClean` needs connect and disconnect calls to succeed;
`RecordsAsAsked` and `RecordsFromActivePort` name the failing calls themselves (a
refused map among those after which the rates differ), and the latter is limited to
streams and ports like `SoundFollowsRequests`; `EventFitsBuffer` makes an exception for
a read under which a detection reset the state, `HdmiFollowsCable` for a last uevent
or check that did not arrive;
`FollowsJacks` needs one port per dynamic configuration, `NoStaleCallback` a port
that is not secondary; what needs a calm setting says so. Outside these conditions
the models do show the opposite, because the code has no path that repairs it.

Runs without deadlock check: a sink or source that was freed, a daemon that was
stopped by an assertion, an unload or call whose thread never ends (outside the calm
settings), and a bound that is used up do stop.

**Fairness.** Threads are scheduled: the continuation of a request, of a D-Bus
handler and of a library call, and each thread's next step, are weakly fair in every
`FairSpec`. Beyond that:

* `PalSink`: PAL's WRITE_READY of a started compressed stream is weakly fair.
  `WriteDone` is strongly fair per writer: a chunk is finite, so it is not taken in
  parts for ever. `ExecState` and `JoinIo` are strongly fair: the I/O thread runs
  `pa_rtpoll_run`, where messages are executed, after every chunk, so rendering does
  not starve them.
* `PalSource`: `ExecState` for the same reason; `ApplyEvent` is strongly fair
  because it is enabled only between two reads, when the mutex is free, and a mutex
  is passed on.
* `BtAudioClient`: a timed wait ends. `VoiceuiSession`: PAL's read and stop return.
  `VoiceuiClient`: the service does what it granted and reports what it heard, and a
  timed wait ends; `ReadTimesOut` is strongly fair because the end of the wait is a
  fixed time (`utils/pa_pal_voiceui/pa_pal_voiceui.cpp:1228`), however often it is
  woken before.

No request, failure, detection, death of a client, foreign message, load, unload or
spurious wake-up is fair.

## 11. What is proved

The proof modules hold for every value of the constants that satisfies the named
assumption of the component (`SinkConstants`, `SourceConstants`,
`LoopbackConstants`, `HdmiConstants` and `CardConstants`, `JackConstants` and
`ClientConstants`, `VoiceuiConstants`, `VoiceuiClientConstants`: a NULL that differs
from the handles, sets of the right kind, any set of failing calls).

| Theorem | States | Inductive invariant, and why it is needed |
|---|---|---|
| `TypeCorrect` (7 modules) | `TypeOK` | the type invariant, field by field; in `BtJackProofs` with `ShapeInv` (a call under way has a jack to deal with, or `Head(todo)` has no type), in `VoiceuiClientProofs` with `QueueInv` (what is on its way was sent and answers a read that was made) |
| `ReportsAreTruthful`, `WritesAreSafe` (sink) | `StartedAsReported`, `WriteToLiveStream` | `StreamInv`: `Handshake` (the I/O thread is in the middle of a state change only while the main thread waits for it), `StreamKept` (an open stream is replaced only in standby), `WriteLocked` (a write holds the mutex a close needs). A close by the main thread preserves the properties only because the I/O thread is known to be in its loop |
| `SignalsReachWriters`, `FreesQuietly` (sink) | `NoLostWakeup`, `FreedOnlyWhenQuiet` | `WakeupInv`, under `SingleMode` (a restart keeps the kind of writer): only one thread writes and an event is pending only before the main thread clears it. Without `SingleMode` two writers can wait and one signal wakes one |
| `WritesTakeTurns` (sink), `ReadsTakeTurns` (source) | `TakesTurns`: each implements `StreamTurns`, with every failure, restart and spurious wake-up | `TurnInv`: an event is pending exactly from a request to its end (in the source also: the I/O thread is inside a start or close only while the main thread waits for it, and its handle is open in PAL). Each action is one abstract action or a stutter, shown action by action; a close maps to `Close` only because `StreamInv` (the source's `ReadInv`) keeps the mutex free then |
| `SoundIsAsRequested` (sink) | `SoundFollowsRequests` | `PlayInv`, under `ClosesEndSound` (PAL does not refuse both the stop and the close of a stream): all that is started is the sink's own stream and nothing is in standby (`PlaysOwnStream`), a stream that is not behind has the device, and the device is the active port's if the last request was accepted (`DeviceKnown`). Any first and active port, restarts and refused switches are included. The property speaks of the moments between requests; the invariant says what holds inside a start, where the sink is opened and still in standby |
| `AssertedStreamsExist` (sink) | `OpenedHasStream` | `HoldInv`, under `RestartsKeepStream` (not dynamic; where the stream is restarted no open fails, and for a compressed one no close or mapping): an open sink has a handle but between the two halves of a restart. Restarts, failing starts, stops, switches and connections are included; each hypothesis left is needed (TLC), and the code has no path that repairs what it excludes |
| `ReadsAreUndisturbed` (source) | `ReadsUndisturbed` | `ReadInv`: a read holds the mutex and the source's handle, and what runs without the mutex (state changes, reconfiguration) finds the I/O thread elsewhere, because the two states agree until something aborts |
| `RecordsWhatWasAsked` (source) | `RecordsAsAsked` | `StreamInv`: if PAL opens and starts, the data are kept, `opened` is the handle, out of standby the handle is started, and unless a buffer size or a map may be refused the rates of attributes, stream and source agree |
| `RecordsFromItsPort` (source) | `RecordsFromActivePort` | `PortInv`, for any first and active port and every failure: `DeviceKnown` as in the sink, and `ConnectionsKnown`: what is connected is the active port except while a switch is pending, if PAL takes connections and switches |
| `SessionRecordsAgree` (loopback) | `SessionsAgree` | `SessionInv`: objects, use case data, count and filter, and, where libdbus checks, that the filter is on one connection, once; inductive only jointly: the count decides when the filter goes, and a disconnection that ends every session leaves a correct count only because the count was the number of paths |
| `RunningUsecasesOwnStreams` (loopback) | `RunningOwnsStreams` | the property with the types of the legs; the work is in the failure paths of start and stop |
| `NoStreamIsLost`, `HandlesAreNotStale`, `SessionsPlayAsTold`, `SessionsLeaveNothing` (loopback, in `LoopbackStreamProofs`) | `StreamsOwned`, `NoStaleCall`, `PlaysAsTold`, `NoSessionIsClean`, each under the failures of section 10 it leaves out, as an assumption on `Failures` | `StreamStep`: a handler does one of a few things to the streams (a use case starts with new streams, fails to start, ends and closes what it ran, a volume or mute is set, or nothing). Over these kinds: `Owned` (each open stream is one of a use case that runs; `StreamsOwned` alone is not inductive, a leg that does not run may be overwritten), `HandlesLive` (each handle is open and no two legs share one, so that closing or setting one leg is not the other's), `RunningExists` (what runs has its data, so that ending the session closes it), `DevicesOwned` (what is connected belongs to a use case with data) |
| `UsecasesDoNotInterfere` (loopback) | `UsecasesKeepApart`: the service implements `LoopbackCalls`, under `PalObeys` (PAL refuses no stop, close or volume, and the A2DP stream starts) | `HandlesLive` with `HandlesRun` (a use case that does not run names no stream): together they say that each open handle is one leg's alone, so a step of one use case leaves gain and mute of the other's legs. The kinds of `StreamStep` say what happens to the streams; step by step, a handler is one call of the contract or none, and the death of the watched client and a reload are the end of both sessions |
| `HdmiIsFollowed`, `NoCallbackIsStale` (card) | `HdmiFollowsCable`, `NoStaleCallback` | `HdmiInv`: unless something was missed the last uevent in the queue tells the cable and with an empty queue the status does, and the port is as the status; a card that is not loaded does not listen. The converse, available only with a cable, holds for kernels that name both connectors |
| `JacksAreFollowed` (card) | `OnePortEach => (Spec => FollowsJacks)` | `EndpointInv`: a port has at most one dynamic sink or source, an unloaded card has none, a card without a callback does not listen. Step simulation: each event is a step of its port, a load a plug or a stutter. `OnePortEach` cannot be dropped: see section 7 |
| `KnowsItsSessions` (jacks) | `SessionsKnown` | `KnownSafe`: table and sessions are equal at every point of a call, and the module data fit the role that is used |
| `TheParamWasDelivered`, `JacksAreAMailbox` (jacks) | `ParamWasDelivered`, `ServesEachOnce` | `ThreadSafe` (the thread is woken only with something to do) and `CallSafe` (while it serves, what the shared data hold is what the client's call set, and after that the card has it), with `RefusedSafe`: only a refused sample rate waits after a failure. Each step of the jacks is a step of the mailbox or a stutter |
| `EventsFitBuffer`, `AnswersWereAsked` (voice UI) | `EventFitsBuffer`, `ReadWasAsked` | `SessionInv`: a handler is in its middle only while its session is loaded, else the freed session could get a thread back; a queued read is one the client waits for; `BufferKept`: while a read is under way that the callback left alone, the buffer has the size asked for and the state is not IDLE, so that no request changes it (`EventFitsBuffer` alone speaks of the moment of the answer only) |
| `SessionKeepsContract` (voice UI) | `KeepsContract`: the session implements `VoiceuiService`, in every setting | `ContractInv` with `SessionInv`: while a stop is being made the thread does not answer, a detection is under way and a stream open only while the session is loaded. One abstract action or a stutter per action |
| `CalmClientsKeepRecognition` (voice UI) | `RecognitionKept` | `StopPending`: with a calm client the end of buffering that the thread deals with is one the client waits for, and while it waits for one `recognition_started` is reset and nothing is started, so the thread, when it reaches the stop, finds nothing to stop |
| `ReadsGetTheirAnswers`, `CopiesAreForTheRead` (client) | `ReadGetsOwnAnswer`, `NoStrayCopy` | `ReadSafe`: at most one answer is granted, committed, on its way or being handled, it is for the last read, and while there is one the client waits for it and has seen every sequence number before. The buffer of a failed read does stay behind; the invariant says that no answer is left for it |

The `TypeOK` of the source, the loopback service, the voice UI service and its client
are proved and not checked by a run as well. Every property and invariant was model-checked before it was proved, and every
safety property and refinement of the passing runs is proved. Only model-checked is
liveness (`StateChangeAnswered`, `RequestAnswered`, `RequestsEnd`,
`CallReturns`, `UnloadReturns`: out of the prover's reach).

## 12. Disagreements between the code and what it says

| Run | Shows |
|---|---|
| `loopback_bad_path` | object paths are numbered by the session count, which goes down: two sessions, the first ends, a new one asks for a path that is taken and `pa_assert_se` stops the daemon |
| `voiceui_client_late` | `pa_qst_read_buffer` says that it resets its buffers "to avoid updates from unexpected callbacks" and does so only when it succeeds: after a time-out the late answer is copied into a buffer the caller has back |

Also in the models, without a run of their own:

* Sink: two reconfigurations in suspension, of which PAL refuses the second, leave
  `pal_sink_opened` set without a stream, and the close fails its assertion. A
  refused reconfiguration leaves the new rate in the stream attributes. A failed
  `pal_stream_write` leaves the loop with the mutex held. A dynamic sink enters IDLE
  without a stream. A write thread that waits for the write-done event of a closed
  stream stays blocked.
* Source: a failed open loses the data of the source; a failed start leaves it out
  of standby; two reconfigurations in suspension leak the first stream; a refused map
  or open leaves the attributes at a rate that PulseAudio was not told, and the next
  start records at it.
* Sink and source: until a port request is accepted the device is that of the first
  listed port, whatever port is active; a port changed while a stream is open in
  suspension takes effect with the next open.
* Loopback: a failed A2DP start keeps the handle it closed; a failed second device
  leaves the first connected; an unload with sessions leaves objects and a filter that
  lead to code that is gone, and `pa_pal_loopback_deinit` keeps its pointer.
* Voice UI service: a join that waits for a thread which missed its EXIT, a read or
  a stop that is forgotten, an event that announces another size than that of its
  buffer, a recognition stopped by the end of the previous buffering.
* Card: a last uevent that is lost leaves the HDMI port as it was.
* Voice UI client: the callback is set after the start has returned, so that an
  early detection finds none; a failed unsubscription leaves the handler of a freed
  session; the wait of stop_buffering has no predicate and any
  signal ends it; the unload joins a loop that lost its quit.
* Bluetooth client: a call as a source while a sink has a session crashes on data
  that were never allocated; a refused connection makes the next call print an error
  that is NULL; a signal that comes before the wait costs its whole time-out, and so
  does a refused sample rate.

## 13. Not modelled

* Audio data, the arithmetic of sizes and latencies (with it the bookkeeping of a
  partial write, `CARD/src/pal-sink.c:870`), formats and channel maps, dump files
  and logs; the texts of D-Bus messages and their replies (some error paths reply
  twice); getters.
* The configuration parser: text that is read once before anything else runs; its
  result is a constant of the modules. The format detection is, but for one value
  the HDMI jack reads, conversion of text as well. Test programs keep no state.
* The context detection client (`utils/acd`): the structure of the voice UI client
  without reads and stop_buffering, the operations that make that one hard.
* The card's D-Bus parameters: each method converts and hands on. That its init
  fails half way (`CARD/src/module-pal-card-extn.c:316`) is covered by `LoadFails`.
* In the voice UI service several sessions that share `is_session_started`, the synchronous
  read, and the stream that stays open when PAL refuses a model
  (`VOICEUI/module-pal-voiceui-card.c:1360`). In the client several sessions: a
  failed second load stops the signals of the first.
