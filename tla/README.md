# A TLA+ model of the msm7x27a device code

This directory models the device repository's own code: the RIL daemon's
library (`ril/ril-legacy/libril`), the GPS stack with its ONC-RPC library
(`gps`), the Java RIL class (`ril/.../JSRQualcommRIL.java`) and the audio HAL and
policy (`audio`). The modules are checked with TLC on small instances, and the
most important invariants are proved with TLAPS for every value of the constants.
`PROJECT.json` links every definition to the lines it stands for and every
property to the hazard it is about.

## 1. The system and its components

| component | state | operations | who talks to it |
|---|---|---|---|
| event library (`ril_event.cpp`) | `watch_table`, `readFds`, `nfds`, `timer_list`, `pending_list`, `listMutex` | `ril_event_set/add/del`, `ril_timer_add`, `ril_event_loop` | everything in `ril.cpp`; threads wake the loop through a pipe |
| sessions and requests (`ril.cpp`) | `s_fdCommand[]`, record streams, `s_pendingRequests`, `s_writeMutex` | `listenCallback`, `processCommandsCallback`, `debugCallback`, `RIL_onRequestComplete`, `onCommandsSocketClosed` | phone process (Unix sockets), vendor RIL threads |
| unsolicited responses (`ril.cpp`) | the wake lock, `s_last_wake_timeout_info`, `s_lastNITZTimeData` | `RIL_onUnsolicitedSendResponse`, `processRadioState`, `userTimerCallback`, `onNewCommandConnect` | vendor RIL threads, loop thread, kernel wake lock |
| marshalling (`ril.cpp`, command tables) | none | `dispatch*`, `response*` | between sessions and vendor RIL |
| Java RIL (`JSRQualcommRIL.java`) | radio state, `mIccHandler` and its looper thread, card status | radio-state events, card requests | libril below, the telephony framework above |
| rild (`rild.c`) | vendor library handle, number of clients | start-up | init |
| ONC-RPC client (`librpc/clnt.c`) | client list, rx thread, transaction ids, one input buffer per client, wake lock | `clnt_create`, `clnt_call`, `clnt_destroy`, callback threads | the modem, over `oncrpc` devices; the Loc API |
| XDR codec and generated stubs (`xdr.c`, `rpc.c`, `gen-50000/*`) | position in a message | `xdr_*`, client stubs, callback dispatcher | the RPC client, the RPC glue |
| RPC glue (`loc_api_rpc_glue.c`) | callback table, RPC client | `loc_open`, `loc_close`, `loc_ioctl`, callback dispatch | the adapter, the modem |
| Loc API synchronous calls (`loc_api_sync_call.c`) | slots, `slot_in_use`, `in_use`, one lock and condition per slot and one of each for all | `loc_api_sync_ioctl`, `loc_api_callback_process_sync_call` | `loc_eng*` callers, RPC callback thread |
| location engine adapter (`loc_eng.cpp`) | session and engine state, deferred-action flags and event slot, AGPS and stop requests, wake lock | GPS HAL calls, `loc_event_cb`, deferred-action thread | Android location service, Loc API |
| network-initiated requests (`loc_eng_ni.cpp`) | the pending request, the response flag | notification, user response, time-out thread | modem, user |
| XTRA (`loc_eng_xtra.cpp`) | the buffered file, the part counters | injection in parts, download request | location service, Loc API |
| message queue (`gps/utils/msg_q.c`, `linked_list.c`) | a doubly linked list, a mutex, a condition, an unblocked flag | send, receive, flush, unblock, destroy | GPS threads |
| audio HAL (`AudioHardware.cpp`) | routing state, VoIP descriptor and flags, filter tables, `mLock`, `mVoipLock` | stream open, write, read, standby, close, routing, parameters | AudioFlinger threads, sound drivers |
| audio policy (`AudioPolicyManager.cpp`) | connected devices, phone state, forced uses, strategy cache, mute counts | device, phone, stream operations | audio policy service |
| camera, lights, power, healthd, wpa_supplicant, DeviceParts, configuration | | section 6 | |

What is hard in this code, and what makes each component correct:

* **Event loop.** `ril_event_loop` reads `readFds`, the first timer and `nfds`
  without `listMutex`, while other threads add events and timers. It is correct
  if no addition is lost (a wake-up byte is in the pipe or on its way), if table,
  index fields, `readFds` and `nfds` agree, and if timers fire, not early, and
  readable descriptors are served.
* **Sessions.** Connections end and are made again while completions of earlier
  requests run on vendor threads; descriptors and request blocks are recycled.
  It is correct if a block has one owner, a request at most one answer and that
  on its own connection, if table and `s_fdCommand` agree, and if the daemon
  always listens while a client is missing.
* **Wake locks.** Three of them do not count: libril's (released by a timer that
  several threads cancel and arm without a lock), the RPC library's and the
  adapter's. Each is correct if it is held while there is work and never held
  with nobody left to release it.
* **Marshalling.** A short parcel leaves a number unread and the code goes on.
  It is correct if nothing unread reaches the vendor, if both ends of the wire
  agree, and if the vendor is handed what `ril.h` declares.
* **RPC.** One thread receives for all clients and hands one buffer per client to
  callers and to the callback thread; a modem restart breaks off every call. It
  is correct if a reply reaches its call, a callback its handler, buffers are
  given back, nothing freed is used, and calls return.
* **Synchronous calls.** A report may come before, during or after the wait, or
  never; slots are recycled; a busy engine makes callers wait without a timeout.
  It is correct if slots are neither shared nor leaked, no report is lost between
  the test and the wait, success means the right report, and calls return.
* **Adapter.** One event slot, one word of flags and copies taken before the
  work connect four threads, and the engine and session state is read and written
  without a lock by two of them. It is correct if the phone stays awake while work is
  pending, the framework's view of the engine is the adapter's, a deferred stop
  is obeyed and clean-up returns.
* **Audio.** Four AudioFlinger threads route, and three share a driver, under two
  locks, one of which `write` ignores. It is correct if the driver is given up
  when both streams are, and if the device in use follows from the last mode,
  devices and forced uses.

## 2. Modules

| module | models | state and actions |
|---|---|---|
| `RilWatch` | `watch_table` and friends | one record `watch`; `EventSet`, `EventAdd`, `EventDel`, `RemoveWatch`, `ReadySlots`, `DropOneShots` are operators from record to record, so that a callback is their composition |
| `RilEvent` | `ril_event.cpp` and the start-up and wake-up code of `ril.cpp` | the loop thread as a sequence of steps, other threads adding events and timers and writing wake-up bytes, a clock, input on descriptors |
| `RilTimerService` | what timed callbacks promise | abstract specification: a set of armed timers and their deadlines |
| `RilSession` | the three socket callbacks, the request list, completion, death and restart | uses `RilWatch` for the table; connections, descriptors (lowest free number first) and heap blocks are finite pools that are recycled |
| `RilUnsol` | unsolicited responses | each unlocked access to the shared pointers is a step, the test of `s_last_wake_timeout_info` and the write through it two; the blocks of user timers come from the same heap |
| `RilCodec` | the command and event tables, every `dispatch*` and `response*`, the Java layouts in the tree | a parcel is the sequence of its items; a function is the sequence of items it reads or writes and the tests it makes; one step handles one command or event |
| `RilContract` | `ril.h`, `ril_cdma_sms.h`, `ril_msim.h` | the structures and, per request and event, what "data" and "response" are: the reference `RilCodec` is compared with |
| `JsrRil` | radio state and card of `JSRQualcommRIL.java` | radio changes, events in flight, one `IccHandler` looper per power-on, card requests |
| `RpcClient` | `clnt.c` | callers, the rx thread, the callback thread and the thread that creates and destroys, each a program counter; one step lies between two points where a thread can block |
| `LocTypes`, `LocXdr` | the declared Loc API types; the generated functions over `xdr.c`, `rpc.c`, `svc_clnt_common.c` | a type is its sequence of primitive items; one call or event is carried through encoding, decoding by the declared types, and the answer |
| `LocGlue` | `loc_api_rpc_glue.c` | the callback table, the handle each client holds, what is open at the modem |
| `LocSyncCall` | `loc_api_sync_call.c` | what happens under one lock is one step; the engine is external: it takes one call at a time, may refuse, forget or answer late |
| `LocEng` | `loc_eng.cpp`, the proxies of `loc_eng_xtra.cpp` | HAL calls of one framework thread, `loc_event_cb`, the deferred-action thread; `loc_eng_stop` and `loc_eng_report_status` are a step per unlocked test, read and callback |
| `LocHal` | the AGPS servers in `loc_eng.cpp` | the buffer of servers named before the start, what the modem has, the operation mode |
| `LocNi` | `loc_eng_ni.cpp` | arrivals, a waiting thread per request that may fail to start, the user's three-step answer, initialisation again |
| `LocXtra` | `loc_eng_xtra.cpp` | the injection loop with its `uint8` and `uint16` counters |
| `Fifo`, `MsgQueue` | an abstract blocking FIFO; `msg_q.c` over `linked_list.c` | the linked list with its pointers, receivers in `pthread_cond_wait` |
| `AudioVoip` | `AudioStreamOutDirect`, `AudioStreamInVoip` | three threads, two locks, the descriptor of the MVS driver; a stream whose `set` refuses its format ends mediaserver (`SetRefuses`) |
| `AudioFilter` | `AudioFilter.csv` and its use | lines of the file, then pre-processing, and post-processing on two threads with the mask they share without a lock |
| `AudioRoute` | `doRouting`, `setMode`, `setMicMute`, parameters, standby | four threads (policy, playback, recording, VoIP output), `mLock`, a driver that may refuse |
| `AudioPolicy` | `AudioPolicyManager.cpp` | one record; an operation is the composition of the functions it calls |
| `RilWatchProofs`, `RilEventProofs`, `RilSessionProofs`, `LibrilProofs`, `RpcClientProofs`, `LocSyncCallProofs`, `LocProofs`, `AudioProofs` | | theorems and their lemmas. `LibrilProofs` is about `RilUnsol`, `RilCodec` and `RilContract`, `LocProofs` about `LocGlue`, `LocEng`, `LocHal`, `LocXtra` and `MsgQueue`, `AudioProofs` about `AudioFilter`, `AudioRoute`, `AudioVoip` and `AudioPolicy` |
| `MCRilEvent`, `MCRilSession`, `MCRilUnsol`, `MCLocSyncCall`, `MCRpc`, `MCLoc`, `MCDevice` | | instances for TLC. The refinement mapping to `RilTimerService` is in `RilEvent`; `MCLoc` and `MCDevice` put six independent parts each into one run: the part is chosen initially and only its steps happen |

Operators marked as faulty variants in the modules are plausible mistakes in the
same function (a dropped guard, a missing wake-up, a missing release). They are
in no specification; each is put in place of the real definition to see that a
property notices.

### Abstractions

* `RilEvent`: a callback is any sequence of the library calls a callback may
  make; `RilSession` has the real callbacks. A timer is added only when it is not
  armed, which is what `internalRequestTimedCallback` guarantees by allocating
  a new one. The interval given to `select` is kept as the moment it ends.
* `RilSession`: waiting for input is one step (`Select`); the wake-up pipe is
  left out. A record is a kind and a token, the vendor RIL a set of jobs
  it holds. The two local requests of the debug option "radio on" are issued
  together, without the `sleep(2)` between them. Responses larger than
  `MAX_COMMAND_BYTES` are not sent by the model. `FD_SET(-1)`, which
  `listenCallback` reaches after a failed read, is taken to miss the set. The read
  of the subscription blocks the loop thread (`lpc = "subscribe"`) until the client
  sends it or hangs up; the unsolicited responses that greet a new client are one
  write, which fails if the client has gone.
* `RilUnsol`: `malloc` does not fail; a thread starts a response only when the
  bounded heap has a block for everybody who needs one (`Room`). The lock is the
  kernel's, held or not.
* `RilCodec`: values are abstracted to the counts and forms that steer a
  function. A number read past the end fails and keeps the position, a string
  becomes NULL, as in `Parcel`. The limits of the SS classes and of the CDMA
  information records are scaled to 3 and 5, so that the counts go past them.
* `JsrRil`: requests of the super class are external; a card status is a number
  that says how often the card changed.
* `RpcClient`: one client. Packets are kinds and transaction numbers; their
  layout is `LocXdr`'s. The router device is a queue and a link that is up, down
  or restarted. A spurious wake-up of `wait_reply` is not modelled. A thread that
  meets a destroyed client in `clnt_call` takes no further step (`CallLost`).
  `svc_find` finds the callback program (`clnt.c:203`): the modem calls back only a
  client that opened, which follows the registration.
* `LocXdr`: an item is a kind and a size; byte order is left out. The counts and
  union arms come from the structure or the message, as in the functions.
* `LocGlue`: the modem never reuses a handle; a call to it may succeed, be refused
  or lose its reply. An index it echoes is one it was given, so the bound test at
  `loc_api_rpc_glue.c:105` always passes.
* `LocSyncCall`: the client handle and the event mask are constant for all
  callers in this code base, so a slot is told apart by its ioctl type.
  A time-out may happen at any moment of the wait.
* `LocEng`: the framework calls from one thread; reports without state of their
  own are one kind of event; an ioctl succeeds or fails. `loc_eng_init` is called
  again only after `loc_eng_cleanup`: the location service calls it so, and a second
  call without a clean-up would start a second deferred-action thread on one set
  of data, about which none of the properties says anything.
* `LocNi`: requests are numbered in order of arrival and the number stands for
  the random notification id.
* `LocXtra`: block size and integer limits are scaled down in the code's order: the
  `uint16` offset wraps before the `uint8` part number does. An endless injection
  is cut off after `MaxParts` parts.
* `MsgQueue`: a critical section is one step.
* `AudioVoip`, `AudioRoute`: the order in which AudioFlinger's threads call is
  external and arbitrary within the number of operations.
  `AudioPolicy`: `AudioPolicyManagerBase` is external, modelled as it is used.

## 3. Runs

All passing runs finish within three minutes on two workers.

| run | instance | what it shows |
|---|---|---|
| `RilEvent` | wake-up event and one one-shot event, 2 timers, 2 threads, delays 0 and 1, clock to 2, pipe of 1 byte | the table stays sound, no wake-up is lost, the loop implements `RilTimerService`; timers fire, readable descriptors are served |
| `RilSession` | 2 clients and a stranger, 3 connections, 1 request each, 2 blocks, 1 vendor thread | table, descriptors and sessions agree and the daemon listens for whoever is missing; a request that outlives its connection in the list is cancelled (`ListedAreCurrent`) |
| `RilSessionHostile` | 2 connections; silent clients, eager reconnection, debug commands, malformed, unknown and rejected requests, double completion | what survives all of that: one owner per block, one answer per request |
| `RilSessionLive` | 2 clients, a stranger and a silent client, 2 connections | every waiting connection is accepted unless the loop stays stuck in the read of a silent client's subscription; every request is answered unless its own connection ends or it is itself cancelled, also while the loop is stuck |
| `RilUnsol` | 1 vendor thread and the loop, 3 blocks, user timers, 1 NITZ time, 1 connection, nested notifications | the lock is never leaked and, once responses stop, released for good |
| `LocSyncCall` | 3 callers, 2 slots, 2 types, engine that refuses and forgets, spurious wake-ups | slots owned and not leaked, `in_use` exact, no lost signal, right type, calls return |
| `Rpc` | 1 caller with 2 calls, 2 callbacks, 1 modem restart, a thread that closes the client | own reply, no use after free, wake lock released, input buffers consumed, calls return, callbacks delivered |
| `LocEng` | 3 framework calls, 2 modem events | wake lock while work is pending, the framework's view of the engine, deferred stops obeyed, clean-up returns |
| `Loc` | six parts: `LocNi` (2 requests, 1 initialisation between), `LocGlue` (2 clients, 3 handles), `LocXtra` (files of 1 to 15 bytes, blocks of 2, limits 6 and 8), `LocHal` (3 servers), `MsgQueue` (2 messages, 2 receivers, 3 elements, 2 queues), `LocXdr` | requests answered and released, events only to their opener, which files arrive whole, the servers named last in use, FIFO implemented, payloads intact |
| `Device` | six parts: `RilCodec` (every command and event, counts 0, 1, 2, 7, versions 2 to 7), `JsrRil`, `AudioVoip` (5 operations, failing driver), `AudioFilter` (2 lines, 2 devices, 3 uses), `AudioRoute` (3), `AudioPolicy` (4) | no unread number used, both ends of the wire agree, the vendor contract kept, the newest card seen, driver released, filters loaded as read, route and devices follow |
| `RpcDestroy` | 1 caller, no restart | counterexample: `clnt_destroy` of the last client never returns |
| `LocXdr` | every event | counterexample: NMEA reports are not decoded |

Why the bounds are enough for the cases that matter: a pipe of one byte is full
after one wake-up, so writers block; two timers give a list with equal,
ascending and descending deadlines, and an armed deadline is always below the
last clock value, so each can become due; two blocks for three requests in
`RilSession` force addresses to be reused, and the lowest free descriptor is
handed out, so a client that reconnects gets its old number; three callers on two
slots meet a full array, and two of them wait for the engine at once; three timer
blocks let a block be freed and reused while an old pointer to it is still held;
two calls and two callbacks let a reply and a callback compete for the one
buffer while a second of each waits, and one restart can fall into any step;
two events and three calls in `LocEng` let an AGPS request, a deferred stop and
its answer meet a clean-up, and a stop fall between any two steps of a report; a
second NI request meets the late answer and the thread of the first; XTRA lengths
go to 15 with an offset that wraps at 8 and a part number that wraps at 6, so there
are files that fit, that wrap the offset and that wrap the part number; `XdrLengths` has
zero, the 80 satellites a report may have, the longest counted strings and one
more, and the two lengths at which the predicted orbits exactly fit a message and
are one byte too long; three list elements give a first, a middle and
a last one, and the second queue reuses their addresses; the counts of
`RilCodec` include none, the odd one out and more than a scaled limit.
`PayloadIntact` leaves out the two NMEA events that the run `LocXdr` is about.

`CHECK_DEADLOCK FALSE` is set where the bounds end the behaviour: when every
connection, call, event or operation has been used.

### Fairness

* `RilEvent`: weak fairness of the loop thread, of threads inside a library call
  and of the clock; strong fairness of `SelectReturn`, because a signal may
  interrupt `select` and the loop then starts over: signals do not interrupt
  every single call. Adding events, timers and input is never required.
* `RilSession`: weak fairness of the loop, of completions in progress and of the
  vendor RIL's answers, which is its contract (`ril.h`); strong fairness of
  `AcceptStep`, because `accept` may fail for a passing reason and the loop tries
  again. Clients need not do anything: one that connects and stays silent keeps the
  loop in `read` and fairness does not help it out.
* `RilUnsol`: weak fairness of threads and of the loop's callbacks; strong
  fairness of each timer, which is what `TimersFire` shows of `RilEvent`.
* `RpcClient`: weak fairness of each thread inside a call, of the rx and callback
  threads and of a `clnt_destroy` under way; the modem answers a call it has and
  comes back after a restart. New calls, callbacks and restarts are never
  required.
* `LocSyncCall`: callers run, `pthread_cond_timedwait` times out, the engine
  finishes and the callback thread handles what it accepted. The engine may still
  refuse and forget.
* `LocEng`: the deferred thread and a HAL call under way run; the framework
  answers an AGPS request, which the AGPS interface asks of it. `LocNi`: the
  thread runs and its `pthread_cond_timedwait` ends; a response under way is
  delivered. `MsgQueue`: a receiver that was woken runs. `JsrRil`: looper threads
  handle their messages, libril's events arrive, card requests are answered.

## 4. Findings

With a run that ends in a counterexample:

* `RpcDestroy`: `clnt_destroy` of the last client joins the rx thread with
  `rx_mutex` held, and the rx thread takes `rx_mutex` before it looks at the
  number of clients (`clnt.c:829`).
* `LocXdr`: an NMEA report is decoded as 1200 bytes where the interface and the
  structure have 200 (`loc_api_common_xdr.c:307`), and the 1 Hz report stands in
  the wrong union (`:1615`).

With a configuration kept beside the runs, to be run by hand
(`tlc -config X.cfg M`), which also ends in a counterexample:

* `RilSessionStale` (`MCRilSession`): `sendResponseRaw` reads the descriptor
  before it takes `s_writeMutex` (`ril.cpp:1725`). A client that hangs up and
  reconnects in between gets, on the same number, the answer to a request of its
  old connection.
* `RilSessionToken` (`MCRilSession`): a token is an address (`ril.cpp:3565`). A
  repeated completion, which `ril.h` says is ignored, answers a later request in
  the same block.
* `RilSessionDebug` (`MCRilSession`): a debug command leaves its own socket in
  `s_fdCommand` (`ril.cpp:3199`), against the assertion at `ril.cpp:2940`.
* `RilUnsolNitz` (`MCRilUnsol`): a NITZ time stored while a client connects is not
  delivered to it (`ril.cpp:3936`).
* `LocSyncCallOwn` (`MCLocSyncCall`): a late report is returned by the next call
  of the same type.
* `LocSyncCallStale` (`MCLocSyncCall`): a slot that is reserved but not yet filled
  swallows a report by its last user's type, and the call that waits for it
  times out.
* `LocNiConsent` (`LocNi`): the user's late answer to one network-initiated request
  is taken for the next (`loc_eng_ni.cpp:671`).

* `RpcLate` (`MCRpc`): a thread that waits for `client->lock` while `clnt_destroy`
  holds it gets the mutex of a freed client, as the FIXME at `clnt.c:845` fears
  (`NoLateCall`). `loc_eng_cleanup` closes the client before it ends the
  deferred-action thread, which may be about to call.

Stated in the modules and in no run, because the code does not have them:
`EngineAlwaysTold` (`LocEng`: without the two races that `EngineTold` excuses,
`loc_eng.cpp:1249`), `NumbersMeant` (`RilCodec`: the client's 118 runs the command
for which its number is 122, `ril.cpp:460`), `RefusedIsRetried` (`AudioRoute`: a
device the driver refused is remembered as set, `AudioHardware.cpp:1959`),
`MaskFiltered` (`AudioFilter`: the mask is assigned by another thread between its
filtering and its use, `AudioHardware.cpp:2554`),
`NoDrcWithoutTable` (`AudioFilter`: with no table both filters stay enabled,
`AudioHardware.cpp:1447`), `MutesBalanced` (`AudioPolicy`: a temporary mute of
a muted strategy is not taken back, `AudioPolicyManager.cpp:513`), `EarFollows`
and `TtyFollows` (`AudioRoute`), `DriverStopped`, `MicOpen` and `NoDeadlock`
(`AudioVoip`), `IgnoredWhenOff` (`JsrRil`). `ContractKept` leaves out
`SET_NETWORK_SELECTION_MANUAL`, which hands the vendor a `char **` where `ril.h`
has a `const char *` (`ril_commands.h:68`), `WireAgrees` the client number 118, and
`ServerCurrent` a server that was named while the adapter ran and then overtaken by
the older one of the buffer (`loc_eng.cpp:1489`).

Observed while modelling, without a property of their own:

* libril: a failed response write closes a descriptor that `s_fdCommand` and the
  table still name, so `select` fails with `EBADF` and the daemon kills itself
  (`ril.cpp:1715`, `3363`): the model has it, and `SessionConsistent` speaks of
  the time before. A client that connects and says nothing blocks the loop thread in
  `read` (`3088`), and with it every timer. `onCommandsSocketClosed` cancels the requests of every client,
  also when a stranger merely connects (`2926`, `3073`). After a failed read
  `listenCallback` goes on for lack of a return (`3089`). A rejected request
  block is never answered (`522`). The timer of an earlier response may release
  the lock while a later one is being sent (`3662`). A timer that is due exactly
  now is not fired although the comment says `now >= ev->timeout`
  (`ril_event.cpp:171`; `RilTimerService` allows it). `dispatchRaw` and `dispatchDial` do not test what
  `readInplace` returned; an IMS SMS of unknown format is never answered;
  `responseCdmaCallWaiting` and `responseSimRefresh` do not expect NULL. A late
  `GET_ICC_STATUS_DONE` turns the Java radio state on after it went off.
* ONC-RPC: a modem restart clears `input_xdr_busy` against the comment at
  `clnt.c:339`; `xdr_err == -ENETRESET` is never true (`485`); a negative length
  leaves wake lock and buffer taken (`161`); a failed pipe leaks the XDR handle;
  error replies carry transaction id 0. `svc.c:499` destroys a mutex before it
  joins a detached thread. When `loc_apicb_app_init` fails `loc_api_glue_init` leaves
  `loc_api_clnt` set, and the next call succeeds without callbacks
  (`loc_api_rpc_glue.c:270`).
* XDR: `xdr_bytes` sends the size before it compares it with the maximum; a failed
  decode leaves what was decoded so far allocated.
* Adapter: an interval of 0 is set without its valid bit (`loc_eng.cpp:571`); an XTRA
  file above 64 KiB wraps the offset and is reported injected, one of more than 255
  parts is injected for ever (`loc_eng_xtra.cpp:118`; `XtraWhole` says so); an open
  that fails with no connection on is reported as a failed close
  (`loc_eng.cpp:2215`); aiding data are deleted on a copy of the engine state taken
  before the event (`2187`), and a request in between is lost by the second
  clear; the XTRA proxy signals without flag and mutex; `stop_request_pending` is
  never reset; the event slot is overwritten (`951`); a static `last_status`
  survives re-initialisation. An unknown NI event returns with `loc_ni_lock` held
  (`loc_eng_ni.cpp:506`). An NI request is not answered if its thread cannot be
  created (`532`) or its ioctl fails (`139`), nor safely if `loc_eng_ni_init` runs
  while it is shown (`709`): `NiServed` names these three.
* Synchronous calls: a spurious wake-up is taken for the report
  (`loc_api_sync_call.c:444`), and a caller that waits for a busy engine may stay
  there after a refused or forgotten call (`:499`).
* Audio: `closeOutputStream` holds `mLock` while the stream's destructor takes it
  again through `setMicMute`; a VoIP stream whose `set` refuses its format is deleted
  through a NULL `mHardware` (`AudioHardware.cpp:322`, `410`); the car-kit device is never looked up; the media
  strategy's default falls through to the forced speaker
  (`AudioPolicyManager.cpp:440`); a second SCO disconnect removes a shared input.

## 5. Proofs

The theorems hold for all numbers of events, timers, threads, descriptors, slots,
callers, clients, blocks, calls, messages and list lengths. Assumptions are the
`ASSUME`s of the component modules: `WatchAssumption`, `EventAssumption` (among others: distinct
descriptors and at most `MAX_FD_EVENTS` event objects, which `ril.cpp` meets with
5 of 8), `UnsolAssumption`, `SyncAssumption`, `GlueAssumption`,
`LocEngAssumption`, `LocXtraAssumption` (the offset's limit is a multiple of the
block size and wraps before the part number: 65536, 1024 and 256),
`FilterAssumption`, `RpcAssumption`, `SessionAssumption` (what the model's
constants are; the numbers of connections, requests and vendor threads are free),
`CodecAssumption` (counts, versions and the two limits are natural numbers) and
`ElementsAssumption` (there are finitely many addresses and `NULL` is none of them).
TLC evaluates them on every run of the module. Two theorems,
`SessionsStayConsistent` and `WireAlwaysAgrees`, have hypotheses of their own.

* **`RilEventProofs`.** `TypeCorrect`, `TableSafe` (`TableConsistent`) and
  `WakeupSafe` (`NoLostWakeup`). `TypeInv` adds to the types that a thread between
  the two writes of `ril_event_add` holds `listMutex`. `TableInv` adds that
  descriptors are fixed and that the wake-up event, once added, stays watched: only
  then does a byte in the pipe end the `select`. `WakeInv` replaces
  `NoLostWakeup`, which is not inductive as it stands, by what holds at each
  point of the loop: the copied set has the pipe (`Listening`), and what was added
  since the copy (`EventsHeard`) or since the timeout was computed
  (`TimersHeard`) has a byte coming. `RilWatchProofs` has the lemmas: what
  each table operator changes, and that it keeps a sound table sound.
  `RoomForEvent` shows by counting that `ril_event_add` never finds the table
  full, so it never drops an event.
* **`LibrilProofs`, the wake lock.** `UnsolTypes` and `LockSafe` (`LockNotLeaked`). `LockInv`
  adds that the block whose callback runs is not handed out meanwhile and
  that quiet responses never touch the timers. The argument: only a response in
  flight cancels a timer, and it is itself on its way to arm one.
* **`LibrilProofs`, the marshalling.** `NumbersAreSent` (`NoMadeUpNumbers`),
  `ContractAlwaysKept` (`ContractKept`) and `WireAlwaysAgrees` (`WireAgrees`), for
  every list length and version. A dispatch function is a sequence of items and
  tests, and nothing in the model is recursive: the place of an item is a number of
  elements of a set. So what takes induction elsewhere is counting here.
  * For the numbers, `Guarded` says that after each number that a function reads it
    tests the parcel's state or gives up. Guarded parts make a guarded whole
    (`GuardedConcat`, `GuardedStrings`, `GuardedInts`), so every function of the table
    is guarded (`DispatchGuards`), and a function that is guarded passes only
    when the parcel had every number it took.
  * For the layouts, `ItemsAre` and `CanList` say which items a sequence has, and
    `ItemsConcat` that those of two parts joined are theirs, joined. With that each
    reader and writer is brought into the form that `Image` gives the structure of
    `ril.h` (`ReaderImage`, `WriterImage`, `EventImage`). `RequestsRead`, `RequestsWritten`
    and `EventsWritten` go through the tables of `ril.h` row by row: the row of
    `s_commands` or `s_unsolResponses` names the function for the row's type.
  * `WireInv` ties the two together over a request's life: its command is the
    translation of the client's number, a request at the vendor passed its
    tests, and an answer or event was written for that command or event.
  * `WireAlwaysAgrees` holds under `CardFits`, a card with at most
    `RIL_CARD_MAX_APPS` applications. `ril.h` asks that of the vendor (`:585`), libril
    does not test it, and the client reads no more.
* **`LocSyncCallProofs`.** `SyncTypes`; `SlotSafe` (`SlotsOwned`); `SignalSafe`
  (`NoLostSignal`, `WaitAccepted`); `ReportTypes` (`RightType`, an action
  property). The invariant is built in layers: `SlotInv` says who owns
  which slot, `WaitInv` that nobody waits on a slot before its owner does, and
  `CallInv` that a filled slot and a report in it have the type of the call.
  `ReportEffects` and `ReportTyping` say once what the callback thread does.
* **`RilEventProofs`, the refinement.** `TimersInOrder`: the event loop implements
  `RilTimerService` (`TimerService`). A timer is armed while it is in `timer_list`
  or `pending_list`. `TimerOrder` says that both lists are sorted without
  repetitions (`ListOrdered`, `PendingOrdered`) and that what is pending is due and
  not later than anything still in the list (`PendingDue`). `Inserted` describes
  the list after `ril_timer_add` entry by entry; then every step of the loop is an
  `Arm`, a `Fire`, an `Elapse` or a stutter (`ServiceStep`).
* **`RilSessionProofs`.** `BlocksHaveOneOwner` (`OneOwner`) and `OneAnswerEach`
  (`AtMostOneAnswer`), both from `SessionInvariant`. Blocks are recycled, so an address does
  not name a request; the argument goes by tokens. `Numbered` says that the
  requests of a connection are numbered and its buffer holds the last of them in
  order; so what was read can be told from what was not, and `OneHolder` says that
  a request that was read is in one block, or being refused, or answered, never two
  of these. `AnswersLive` keeps the daemon's local requests apart.
  `SessionsStayConsistent` (`SessionConsistent`) holds under `OneByOne`: nobody uses
  the debug socket, hangs up before naming a subscription or connects again before
  the old connection is closed, and the table has a slot for each of the four events
  (`ril_event.h` has eight). Each of the first three is needed: without it TLC finds
  the property violated within a dozen steps. The code enforces none of them, so
  they are hypotheses of the theorem; the run has the same ones. `Linked` says that a
  watched command event has its client's descriptor, which is open and that client's
  connection; `Callers`, that no client has two connections, is why the event of a
  client that is taken in is never watched already. The theorem says nothing once
  `torn`, a response write that failed on an open connection: the run checks the
  first conjunct, `CanReconnect`, after that too, for three connections, and more of
  them may fill the table with stale slots.
* **`RpcClientProofs`.** `CallsGetOwnReply` (`OwnReply`), `FreedUnused`
  (`NoUseAfterFree`), `WakeLockReleased` (`WakeReleased`), `CallbacksConsumed`
  (`InputConsumed`, an action property), all from `RpcInvariant`. Its layers: who
  holds which mutex (`LocksHeld`); at most one answer is on its way, and the call
  it answers waits for it (`OneAnswer`, with `ResetEmpties` for restarts); the
  answer to the close is the last packet and then the modem is silent
  (`CloseSilences`), and the threads are joined in that order (`ThreadsJoined`):
  together they give no use after the free by a thread that had taken
  `client->lock`, and one that still waits for it is `CallLost`; `WakeHeld` and `BufferKept` say who
  will release the wake lock and the input buffer.
* **`LocProofs`.** `EventsOwn` (`NoForeignEvent`): the callback table may
  name the wrong client after a failed call; `HandlesGiven` (handles in use were
  given out before) and `HeldByOpener` (who holds a session's handle opened it)
  are what the argument rests on. `StaysAwake` (`WakeWhilePending`) and
  `EngineKnown` (`EngineTold`): the second needs `SessionImpliesEngine`, a session
  that has begun implies an engine that is on, or the report of `ENGINE_ON`, which
  a running session suppresses, would be lost. It says for each point of a report and
  of a stop what the other thread may have changed since; the two points at which it
  may have changed too much are recorded in `crossed`. `ServerKept`
  (`ServerCurrent`): a server that is buffered was named by the framework, and one
  named before the start is sent at `loc_eng_agps_init`.
  `XtraArrives` (`XtraWhole`) has no hypothesis on the length, which the code does
  not test: the invariant ties part number, offset and the parts accepted together
  up to the wrap of the offset, and knows of it afterwards.
  `QueueRefinesFifo`: the queue over the linked list implements `FifoSafe`, the
  abstract FIFO without its fairness. `Chain(l, s)` says that `s` is the list of elements
  from tail to head, each once, with `next`, `prev` and `data` defined on them alone and
  pointing along it. Adding, removing and flushing keep a chain and change its
  messages as the abstract operations do, and following `next` from the head
  is the chain backwards: two sequences linked alike are equal, since a first place where they
  differ has a predecessor. `QueueInv` says that there always is a chain, and an
  empty one with nobody inside a call when there is no queue.
* **`AudioProofs`.** `FiltersComplete` (`FiltersWhole`): while lines are read
  nothing is enabled, and after a line that was cut short nothing ever is; a mask that
  was filtered and not assigned again since has only filters with a table.
  `RouteSettles` (`RouteFollows`): `mLock` is held from selection to store
  (`LockHeld`), the driver has the current device unless that was cleared or is
  about to be stored (`DeviceKept`), and whoever changes what `doRouting` selects
  from routes afterwards (`RouteComes`), each but for what the driver refused. `MvsGivenUp` (`MvsReleased`): `VoipTypes`
  says which steps an operation under way may still have; `OutputAlone` and
  `InputAlone` that nobody else works on a stream meanwhile, which the locks do not
  ensure (`write` takes none) but the life of the stream's thread does; and `FdKept`
  that an open descriptor is in use, about to be, or about to be closed.
  `DevicesFollowAlways` (`DevicesFollow`): some operations select a device from
  a cache and some before it is refreshed. `Sound` adds to the property that the phone
  strategy's cache is what the strategy selects now (`CacheFresh`) and that the
  speaker stays connected, so that every strategy has a device. `SameChoice` and
  `SameInput` name all that a selection depends on: an operation that changes none of it
  keeps the choice, and one that does ends in a refresh and a reroute
  (`RerouteSound`, `ForcedSound`).

Only model-checked:

* liveness (`EventsServed`, `Accepted`, `Answered`, `LockReleased`, `Delivered`,
  `CallsReturn`, `StopObeyed`, `CleanupReturns`, `NiServed`, `CardSeen`), which is
  out of the prover's reach;
* `PayloadIntact` of `LocXdr`: it says what encoding a whole sequence of items and
  decoding it again computes. The two are recursive (`SendSpan`, `RecvSpan`), each item
  starts where the last one ended, and a proof would take induction over the items. TLC
  goes through every procedure, union arm and event;
* `CanReconnect` after a failed response write (see `RilSessionProofs`);
* of `QueueIsFifo`, that a receiver is served at last.

## 6. What is not modelled, and what is left

Left out:

* `rild.c`: argument parsing and `dlopen`, once and in one thread; the number of
  clients it sets is a constant of `RilSession`.
* `svc.c`'s server registry: no service in the tree registers except through the
  client's callback thread, which `RpcClient` has.
* camera, lights, power and healthd: they forward to a vendor library or write to
  sysfs under one lock, and read no state back.
  `gen-50000/loc_api_sync_call.c` and the hybrid RIL headers are not built.
* `AudioHardware_cad.cpp`. `BoardConfigCommon.mk:74` sets `TARGET_HAS_QACT`, with
  which `audio/Android.mk` builds this file, and without which it builds
  `AudioHardware.cpp`. `AudioVoip`, `AudioFilter` and `AudioRoute` model the latter,
  that is the build for a device without QACT; of the file that the board's
  configuration builds nothing is claimed.
* logging, `gps.conf`, text of notifications, volume tables, plain PCM buffers,
  kernel headers, overlays, build files, Java settings: formatting or data
  without shared state.
* The socket buffer behind `blockingWrite`, which spins on `EAGAIN` with
  `s_writeMutex` held (`ril.cpp:1709`): the model's writes succeed or fail.

Still worth doing, in this order: a composition of `LocEng` with `LocSyncCall`,
whose callers it is; several clients in `RpcClient`; the SCO and A2DP outputs of the
audio policy.
