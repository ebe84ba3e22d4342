# A verification development for ZJS

ZJS (zephyr.js) runs JavaScript on small boards: the JerryScript engine, a set
of C modules that give scripts timers, sensors, buses, Bluetooth and sockets,
and one main loop. This directory holds TLA+ models of its C code, the TLC
configurations that check them and TLAPS proofs about them. Line numbers refer
to the files under `src/src/` unless another directory is named.

* the core: `Callbacks`, `RingBuffer`, `MsgQueue`, `MainLoop`, `Timers`, `Events`
* the network: `Net`, `WebSockets`, `Dgram`, `Ocf`
* other processors and threads: `Ipm`, `Sensors`, `Pme`, `Ble`
* the board: `Pins`, `WebUsb`, `Fs`, `Buffer`, and the development shell: `Ide`, `TermUart`, `TermLine`
* `MCCallbacks`, `MCRingBuffer`, `MCMainLoop`, `MCTimers`, `MCEvents`, `MCNet`, `MCPeers`,
  `MCSockets`, `MCDevices`: what TLC needs besides; the last three put several components
  into one run
* `CallbacksProofs`, `RingBufferProofs`, `TimersProofs` (the main loop too), `EventsProofs`, `NetProofs`,
  `SocketsProofs`, `PeersProofs`, `DevicesProofs`: theorems
* `PROJECT.json`: components, runs, mutants, the map from definitions to lines,
  findings, hazards and theorems

Contents: [inventory](#1-inventory) - [the models](#2-the-models) - [what is checked](#3-what-is-checked) -
[where code and documents part](#4-where-the-code-and-its-documents-part) - [what is
proved](#5-what-is-proved) - [what is not covered](#6-what-is-not-covered) - [plan](#7-plan)

## 1. Inventory

### How the system works

There is one JerryScript engine and one thread, main, that may use it. The rest
of the world (interrupt handlers, the network receive thread, the Bluetooth
thread, the sensor core of the Arduino 101) reaches JavaScript through the
callback module: it *signals* a callback id, the signal is put into a ring
buffer, a semaphore wakes main, and main's next call of `zjs_service_callbacks`
takes the signal out and calls the function registered under the id. Nearly
everything that is hard in ZJS is in what may happen between the signal and the
call: the callback is removed, its id is used again, the object it was about is
freed, the ring is full, the script is stopped.

### Components

**Callbacks** (`zjs_callbacks.c`). State: `cb_map`, `cb_size`, `cb_limit`, the
ring, two mutexes. Operations: add, remove, signal, defer work, service, remove
all, init. Callers: every other component; interrupt handlers signal without a
lock, threads under `cb_mutex` and `ring_mutex`. Hard: removal is deferred by
a flush command in the same ring, the ring may be full, ids are reused, a
function may remove and add callbacks while it is being called. Correct when: a
signal reaches the registration it was sent to or none, a once callback is
called once, argument references balance, a removed callback is freed.

**Ring buffer** (`zjs_linux_ring_buffer.c`). State: words, head, tail. Operations:
init, put, get in two calls. Hard: wrap around, a get in steps with puts
between, and puts without a lock (a cooperative thread's signal, a flush command), which an
interrupt's put may come in the middle of. Correct when: it is a bounded queue.

**Main loop and service routines** (`main.c`, `zjs_modules.c`, `zjs_util.c`).
State: the loop's semaphore, the table of routines. Hard: a wake-up between the
last look at the ring and the wait, a service call that stops at 12 items.
Correct when: main does not sleep on work, and calls the routines registered.

**Timers** (`zjs_timers.c`, `zjs_linux_time.c`). State: the list of `zjs_timer_t`,
a kernel timer and a callback for each, JavaScript objects that hold addresses.
Hard: expiry in an interrupt, clearing between expiry and service, address
reuse. Correct when: a timeout is called once unless cleared, a cleared timer is
quiet, nothing is left behind.

**Events** (`zjs_event.c`). State: for each emitter a list of events with lists of
listeners; one callback id for all deferred events. Operations: add and remove
listeners, emit, defer, free. Hard: listeners that change the list being walked
(l.428), failed allocation (l.103), lost deferred events (l.477). Correct when:
each listener present is called, in order, and every post function runs.

**TCP sockets** (`zjs_net.c`). State: servers and connections, net contexts, a
buffer for a paused socket. Actors: the receive thread defers packets and
closes, main handles them, a timer interrupt times sockets out (it takes a
mutex, l.243). Hard: contexts used again after a close (l.543), packets lost
when the ring is full (l.591), handles freed with packets queued (l.440).
Correct when: data of a connection arrives in order, at its connection, up to
its close, and every packet is given back.

**Web sockets** (`zjs_web_sockets.c`). State: a list of connections, each with a read
buffer; events that are deferred with the length of their part of it. The receive thread
walks the list and looks at a connection's state itself. Hard: it closes and
frees connections (l.845); a close is deferred with the wrong data (l.568).
Correct when: a message carries its own frame's payload, and no connection is left of a
client that is gone.

**Datagrams and DHCP** (`zjs_dgram.c`, `zjs_net_config.c`). State: the list of sockets with two
callback slots each, the one id of dhcp. Hard: removal leaves a stale id in the slot, close and
garbage collection both free the handle (l.321). Correct when: a datagram, the end of a
send and an address each reach their own function.

**OCF** (`zjs_ocf_client.c`, `zjs_ocf_server.c`, `zjs_ocf_common.c`). State: the client's
`resource_list`, with entries that are searched for and found, a handler and a promise for
each request; the server's list of resources. Hard: several searches at a time, late and
repeated replies, objects the server does not hold. Correct when: a promise is settled by
the answer to its own request.

**Inter-processor messages and the sensor core** (`zjs_ipm.c`, `zjs_i2c_ipm_handler.c`,
`zjs_grove_lcd_ipm.c`, `zjs_aio_a101.c`; `src/arc/src/`). State: a message on the caller's stack
and a semaphore for each device; the sensor core's queue of pointers. Hard: a reply after the
timeout (`zjs_sensor_board_a101.c:97`), a queue that fills and that does not keep the order
(`src/arc/src/main.c:65`). Correct when: a call returns the answer to its own
message, and the two cores agree on what was asked.

**Sensors** (`zjs_sensor.c`, `zjs_sensor_board_a101.c`, `sensors/`, `src/arc/src/arc_sensor.c`).
State: a list of handles and the objects' states; what the sensor core polls. Hard: one
device for all objects of a channel, three ways to free a handle (`zjs_sensor.c:71`).
Correct when: what the objects say and what is polled agree.

**Pattern matching engine** (`zjs_pme.c`, `src/arc/src/arc_pme.c`, `arc_curie_pme.c`). State: the
neurons of the device, its mode registers, and the sensor core's flags for a save or a
restore under way. Hard: saving and restoring are one call for each neuron, any of which may fail
(`zjs_pme.c:335`). Correct when: what was saved can be restored, and modes are as they were set.

**Bluetooth** (`zjs_ble.c`). State: services and characteristics, a list of connections, one
semaphore for the attribute requests. Hard: answers after the timeout (l.294), buffers used
after it (l.391), a list shared by two threads (l.424). Correct when: a request returns
what the script answered to it.

**GPIO** (`zjs_gpio.c`), **UART** (`zjs_uart.c`), **analog input** (`zjs_aio.c`),
**WebUSB** (`zjs_webusb.c`). State: handles, buffers and rings shared by an interrupt handler
and main. Hard: an interrupt enabled before the state it uses is set (`zjs_gpio.c:333`), one
buffer for all receptions (`zjs_uart.c:133`), index arithmetic of two rings
(`zjs_webusb.c:407`). Correct when: what the interrupt saw reaches the script, once and in order.

**Files** (`zjs_fs.c`). State: a table of descriptors, open files with a position of their own
for reading. Hard: several files open on one name, writes that move the position, calls of
the file system that fail. Correct when: a descriptor names one file, what is appended is
kept, and reading goes on where it stopped.

**Development shell** (`ashell/`). The web IDE (`ide-cmd.c`, `ide-webusb.c`, `webusb_driver.c`,
`jerry-code.c`): a pool of receive buffers, a queue, a parser with a state; the terminal
(`term-uart.c`, `term-cmd.c`): line buffers shared by interrupt and main, a line editor,
modes. Hard: a buffer unlocked before it is cleared (`ide-webusb.c:124`), a line captured while
the interrupt goes on with it (`term-uart.c:404`). Correct when: files are as they were
sent, and lines are as they were typed.

**Buffers** (`zjs_buffer.c`). State: arrays of bytes. Hard: 32-bit arithmetic of offsets
(l.129), byte order. Correct when: a call does what `docs/buffer.md` says, inside the buffer.

**Not modelled**: other devices (I2C, SPI, PWM, LCD, board, pinmux, graphics), values and errors,
console, performance, script loading, tests: sequential calls with no state that outlives a call.

The hazards in `PROJECT.json` list, line by line, what could go wrong in these
components; the ones with properties are covered below.

## 2. The models

### Callbacks

One action per operation, divided where another actor may see or change
something in between. `cb_map` maps an id to a slot: empty, live, marked removed
(`CB_REMOVED_BIT`) or pointing to freed memory, which is what an interrupt handler
can meet between the two halves of `zjs_free_callback`. Registrations are
numbered, so that two that share an id differ. The ring is a sequence of items
with their sizes; `used` counts words.

| code | actions |
|---|---|
| `signal_callback_priv` from main, a thread, an interrupt handler | `MainSignal`, `ThreadSignal`, `Interrupt` |
| `new_id`, `add_callback_priv`, `zjs_add_c_callback` | `Add`, `AddGrown`, `AddGrowFails` |
| `zjs_remove_callback_priv`, `zjs_free_callback` | `RemoveCallback`, `QueueFlush`, `QueueFlushFails`, `ClearSlot` |
| `zjs_remove_all_callbacks`, `zjs_init_callbacks` (stopJS) | `RemoveAll`, `RemoveNext`, `InitCallbacks` |
| `zjs_service_callbacks` | `StartService`, `ServiceFlushOne`, `ServiceFlushAll`, `FreeNext`, `ServiceCall`, `ServiceSkip`, `ServiceMissing`, `EndService` |
| `zjs_call_callback` and the release of arguments | `ServiceCall`, `Return`, `Post`, `Release` |

`cb_mutex` is `Locked`: a preemptible thread does not run while main holds it, an
interrupt handler and a cooperative thread do. While a function is called main may
do what a script can do: add, remove, signal. stopJS is modelled from the top level, where the shell
calls it (`ashell/jerry-code.c:52`); a script that called it from a function would end the engine that runs the
function. Undefined behaviour (`fault`) ends
a behaviour: reading freed memory, storing through `cb_map[-1]`, reading the
flags of an empty slot, releasing a value of an engine that is gone. `tainted` is
history: a flush command has been refused, or stopJS begun, and the ring has not been
empty since; it marks the stretch in which the code gives up the ordering on
which the properties rest. The other history variables count references
(`held`), remember called once callbacks (`called`) and note skewed deliveries.

### RingBuffer and MsgQueue

`RingBuffer` has the words, `head` and `tail`, the arithmetic of `get_space` and the
mask. A get is four kinds of step (ask the size, ask for the data, copy a word,
advance). There are two kinds of put:

| who | lock | actions |
|---|---|---|
| an interrupt handler; a preemptible thread, main included, that signals | nothing interrupts it, or `irq_lock` (`zjs_callbacks.c:397`, l.424-427) | `PutSignal` |
| a cooperative thread that signals | none | `PutUnlocked`, `PutWords`, `PutDone` |
| main's flush command (l.345, l.369) | `ring_mutex` | `PutFlush`, `PutWords`, `PutDone` |

`puts` holds what the divided puts under way have read. Interrupts come between any two steps, and a
cooperative thread between any two of main's. `torn` is history: a put was accepted while a divided one was
under way, so that one of the two messages is overwritten, or words are skipped. There the model lets the
puts end and stops.

`MsgQueue` is the abstract specification: a sequence of messages and `used`,
the words they take, which are limited; put appends or refuses, take removes the oldest; once it is
`broken` nothing more is promised. `RingBuffer` implements it under the mapping to the messages put and
not taken, the distance from `head` to `tail`, and `torn`; `RingIsSound` ties the messages to the
words in memory.

`Callbacks` uses the ring at the level of `MsgQueue` that is not broken: items in order, a total of
words, one word always empty. What it shows is therefore about behaviours in which no put is torn; a script
that removes nothing while interrupts signal, in a build whose cooperative threads do not signal, has no others.

### MainLoop

The Zephyr loop: service, routines, service, block. The ring is a number of pending
callbacks and the place of one chosen callback in it (`mark`); an interrupt puts
and gives the semaphore in one step, a thread in two. `table` is
`svc_routine_map`; a routine that polls (analog input, sensors) calls
`zjs_loop_unblock`, one of OCF's returns a time. `wait_time` is the fold of
`zjs_service_routines`, where K_FOREVER is -1.

### Timers

A timer is a number; `timer[n].at` is its address, which the allocator may give to a
later one. `list` is `zjs_timers`: timers are added at its end, so a set of numbers tells the
order too. `Expire` is the kernel timer's interrupt (Zephyr); `ProcessCompleted`,
`ProcessExpired` and `ProcessWaiting` are one turn of the loop of
`zjs_timers_process_events` (Linux). The variable `env` is chosen at the
start: the build, whether memory or the ring may run out, and what scripts do.
`Delete` is `delete_timer`. Of the callback module only this is kept: signals in
order, skipped after removal, dropped when the ring is full (`lost` remembers whose).

### Events

An emitter's `events` is the list of `event_t`, each with its list of listeners; a
listener is known by the number under which it was added, `func` holds those
that are allocated. Two registrations of one function are two listeners, and
`RemoveListener` takes the first. A script may change lists at any depth of
emission: `stack` has a frame for each `zjs_emit_event` under way, with the listeners
it has called. The frame keeps the listener called, as the code keeps `listener`, not a place
in the list; `CallNext` and `EndEmission` follow it to the next. A freed `event_t` that is still
in the list (`OnFails`) is met by any lookup that reaches it, by the walk of
`zjs_destroy_emitter` and by that of `zjs_emitter_free_cb`.

Deferred events wait in `ring` with the registration of `emit_event_callback` they were
sent to (`emit_id`), are skipped when it has been removed, cancelled by their pre function, or
emitted and followed by their post function. Collection of an emitter, and of
the prototype when no emitter is left, may come at any time that no listener of it is
called. `fault` ends a behaviour as in `Callbacks`: a freed listener read, a freed event
read, a deferred event for an object that is gone.

### Net

Three actors share `conns`, `clients` and the kernel's contexts: the receive thread, main, and
the timer interrupts of sockets. The thread is cooperative, so each of its handlers is a step.

| code | actions |
|---|---|
| `tcp_accepted`, `accept_connection` | `TcpAccepted`, `TcpAcceptedFails`, `AcceptConnection`, `AcceptConnectionFails` |
| `tcp_received` with a packet | `TcpReceived`, `PacketTakenAgain` |
| `receive_packet`, up to where it releases the packet and from there on | `ReleasePacket`, `ReceivePacket`, `ReceiveUnknown`, `ReceiveOverflow` |
| `tcp_received` without one, `emit_event_callback`, `clear_closed`, `release_close` | `TcpClosed`, `TcpClosedEarly`, `EmitClose`, `ClearClosed`, `ReleaseClose`, `ReleaseCloseClient` |
| `tcp_connected`, `socket_connect`, `net_socket` | `TcpConnected`, `SocketConnect`, `SocketConnectFails`, `NewClientSocket` |
| timers | `SocketTimeout`, `SetSocketTimeout`, `TimerOfFreed` |
| the script | `PauseOrResume`, `SocketWrite`, `ServerListen`, `ServerClose`, `CollectServer`, `ScriptUsesFreed` |

A connection is numbered and a context is not, because the kernel gives a context again as soon as
its references are gone (`refs`): what the code finds by a context, the properties
compare by connection. `server.early` is `early_closed`, of which there is one.
While listeners run (`netMain`) the script may act on any socket and RX goes on. `receive_packet` gives the
packet back (l.442) before it copies it (l.460): RX runs between the two, and when it is given that very packet
(`PacketTakenAgain`) the behaviour ends, for what main copies and releases is another's. A deferred event
("timeout", "connect", "error") names the object of its socket, or the server's, as `zjs_defer_emit_event` does,
without a reference: a close ahead of it may release that object. The timer of a socket may expire while its
close waits (`SocketTimeout`), and a client's socket that has a context may be connected again
(`SocketConnect`), which uses the context it has (l.1238). `netLost` records
which kinds of deferred items the full ring refused, and `"reused"` a context used again while a client's
socket names it.

### WebSockets

The receive thread defers `WsAccept` and `WsPacket` for main and runs `WsAccepted`,
`WsReceived`, `WsClosed`, `WsClosedEarly` itself. `busy` is the item main is in the handler of: the
handshake with the script's accept handler (`Handshake`, `PostAccept`), or the parsing
of a packet (`ProcessPacket`), which stores its payload (`Stored`) and defers an event with its length;
`WsMessage` consumes that many units of the buffer. Every unit is marked with its frame,
which is how `MessagesIntact` sees whether a message got its own. `wsList` is the set of
connections that are linked; `FindWs` finds one by its context, and a context has one at most. `early` and
`again` are history: clients the thread closed itself, and clients that closed while main had packets of
them to handle (`Unhandled`), were terminated, or were heard of after their close frame.
Packets that came before main made the connection name none, but count as
packets of the client. A frame is "text" (for a continuation, a ping and a pong too: they make their
events through the same `trigger_data`, l.539-566), "binary" (stored, then as many units taken from the front), "close",
"unknown" (an opcode of the `default:` branch, l.572, whose payload is stored and stays), or "refused".

### Dgram

A slot of a socket, or `dhcp_id`, holds an id; `udpOwner` says whose callback the id is now.
`UdpReceived`, `UdpSent` and `DhcpCallback` are the stack's threads and signal ids;
`UdpService` calls whoever has the id and records for whom the signal was. Removing a callback
flushes its signals: they stay in the ring as items without an owner, which `UdpSkip` takes out, as
`zjs_service_callbacks` does.

### Ocf

The stack is external and calls back from main's poll, at any time and in any order: `Discovered`,
`ResponseArrives`, `RemoteRequest`. A call of the client is a record with its promise, its entry and whether
it is "alone", that is, whether another search was under way. `Register` and `OcfStart` are the server's;
`OcfCleanup` frees what callbacks may still name (the list grows at its head, so that what `find_resource`
meets first is the `Newest`), and `CallbackOfFreed`, `RemoteRequestOfRejected` and `RespondLate` meet it.

### Ipm

A call is `SendSync`, which sends and blocks, then `ReplyTaken` or `ReplyTimesOut`; meanwhile the sensor
core's loop (`arc`) goes from slot to slot (`NextSlot`), and each handler (`HandleGlcd`, `HandleI2c`,
`HandleAio`) answers. A message is put into the first slot that is free. A reply is marked with the call it
answers and the call with the structure it writes to. `PinUnchanged`, `PinChanges` is the poll of the analog
pin at the end of a pass, which sends on its own.

### Sensors

`SensorStart` and `SensorStop` block for an answer (`SensorStarted`, `SensorStopped`) that may be a refusal,
or the timeout, after which the message is still handled. `FetchSensor` is the poll of the sensor core with
the interrupt on main, `SensorSignal` main's service of a reading. `SensorCleanup`, `FreeStops`,
`FreeStopped`, `FreeIdle` is `zjs_sensor_free_handles`, divided because readings come between. The list of
handles is that of the sensors that are `Held`, newest first; the cleanup frees the one that `Frees` names.
A collected object frees its handle a second time (`SensorCollected`).

### Pme

`PmeCall`, `PmeSetMode`, `PmeConfigure` are calls of one message, `SaveBegins`, `SaveIterates`, `SaveEnds` and
`RestoreBegins`, `RestoreIterates`, `RestoreEnds` are those of many. Each message may be answered, handled
without its answer arriving, or neither (`Goes`, `Break`). `Cut` is what JavaScript is
given of a vector: the components before the first zero.

### Ble

The Bluetooth thread makes one request at a time (`AttrRequest`) and waits: `RequestAnswered` or
`RequestTimesOut`. Main calls the handler (`HandlerCalled`), and the script may answer then or at any later
time, more than once (`ScriptAnswers`, `ScriptAnswersBadly`). `Connected` and `Disconnected` change the list
that `Notify`, `NotifyNext` walk. A characteristic is named by the call of `setServices` that made it, its
service and its place; `chrcs` keeps those the stack has registered. The list of connections is the set
`conns`, newest first. Setting services again frees the characteristics (`SetServices`, `Freed`);
`RequestOfFreed`, `AnsweredForFreed`, `HandlerReadsFreed`, `ScriptAnswersFreed` use them.

### Pins

Opening a GPIO is two steps because the interrupt is enabled in the first (`GpioOpenBegins`,
`GpioOpenEnds`); `UartInit` and `RangeBegins`, `RangeEnds` are divided for the same reason. `LevelChanges` and
`ByteComes` are the world, `GpioInterrupt` and `UartInterrupt` the handlers, `GpioChanged` and
`UartRead` the callbacks on main. `AioPoll` is the service routine and `AioChanged` the deferred event.

### WebUsb

Indexes and bytes are as in the code. A write and a read read the indexes in one step and store them
in another (`WriteBegins`, `WriteEnds`, `ReadBegins`, `ReadEnds`), because the interrupt
(`TxInterrupt`, `RxInterrupt`) moves the others in between. `CheckUart` is the timer that waits for the line.
Each `RxInterrupt` defers a "read" event. An event that finds the indexes equal takes them for a full ring
(l.306-335) and brings a buffer of `RINGMAX` bytes that nothing was copied to: `rxBlank` remembers that, and
`rxCrowded` that more events were deferred than there were pieces to read.

### Fs

Files below are external: sequences of bytes. An open file has the file system's position, `pos`, and the
read position of the code, `rpos`; `ReadFrom` and `WriteAt` choose between them by mode. A call that may
fail has an action for that (`OpenFails`, `FsReadSeekFails`, a `cut` write), and the checks that are the
wrong way round in the code are so here (`TruncateRefused`, `TruncateUnopened`, `Mkdir`).

### Ide

`PacketArrives` is the interrupt, which locks the next buffer of the pool and queues it, or drops the
packet. `ParseSave`, `ParseStream`, `ParseRun` and the others are `ide_process` with one queued buffer, in
the state `parser`, and `ReleaseBegins`, `ReleaseEnds` are the unlocking and the wiping of the buffer.
`host` is the browser: patient, if it waits for the answer of each message, or not.

### TermUart and TermLine

`TypedInterrupt` is `uart_interrupt_handler`; main's `uart_process` is a step for each place the interrupt
could see (`ttStep`). Main gives the line editor the bytes of a buffer up to a NUL (`Text`: `strnlen`,
`term-uart.c:390`); `ttTaken` and `nuls` remember what it took and which bytes were NUL.

`TermLine` has no actors: `TypeChar`, `Backspace`, `CursorLeft`, `CursorRight`,
`Enter` and control characters, with `shell_line` indexed as in the code, and what a
finished line does in the mode the shell is in (`MainState`). A captured line is written character by
character, and the first that the file does not take ends it (`TakesLine`, `fileFull`; `term-cmd.c:660`): what
is left of the line, its end and its meaning are dropped.

### Buffer

Offsets and numbers have four bytes, so that the sum in `Fits` wraps as in the code; a byte has
as many values as the run chooses, and `ByteTo` is the table of its powers. `ReadBytes` and `WriteBytes` walk
up or down as the loops do; the property counts places instead (`Number`).

### Faults and history

In every module a variable `...Fault` names the undefined step that ended a behaviour: freed or foreign
memory used, a null handle. Variables marked "history" in a module's
declaration are not in the code; properties need them. They remember what a value once was, or that
one of the events of section 4 has happened after which the code promises less. Each property says in
its comment which.

## 3. What is checked

Each property has a mutant in `PROJECT.json`: a change of one mapped definition, as a
plausible bug would make it, under which TLC finds the property violated.

| run | question | instance |
|---|---|---|
| `cb_main` | delivery, references, once; what may be undefined | 2 to 3 slots, 3 registrations, 4 words, interrupts and threads; memory for the map may run out |
| `cb_stop` | is what is removed freed, also with stopJS, a map that grows or fails to, and interrupts that signal what is being removed | 1 to 3 slots, 4 registrations, 4 words |
| `rb_queue` | is the ring a bounded queue, until a put is torn | 4 words, messages of 1 to 3 words |
| `loop_poll` | does main sleep on work | limit 2, ring 7 |
| `timers` | both builds; any script; memory and ring that run out; stops; liveness for careful scripts | 2 addresses, 3 timers, ring 2 or 3 |
| `events` | emission while listeners change the lists, deferred events, collection | 2 emitters, 2 names, 2 functions, 3 listeners, depth 2, ring 1 |
| `net` | data, closes and contexts used again | 2 contexts, 2 connections or 2 clients, 2 packets, 1 call of each socket function, ring 3 |
| `sockets` | web sockets, datagrams, OCF | 2 clients, 3 frames, ring 4; 2 sockets, 3 ids; 3 resources, 5 filters |
| `peers` | sensor core, sensors, pattern matching, Bluetooth | 3 devices, queue 2; 2 sensors; 3 neurons; 2 requests or 2 clients |
| `devices` | pins, serial lines, files, shell, buffers | rings of 4 bytes; 3 descriptors, 5 calls; 3 packets; lines of 2 and 4; 3 calls |
| `events_remove`, `timers_clear` | claims of documents the code does not keep | section 4 |

**Why the bounds are enough.** Three slots are the callback of deferred work, the one
that is called and the one that takes its id. With a ring of five words (one of
them unused) four signals without arguments, or two with one and flush commands,
fill it, so both outcomes of every put happen. Three registrations allow an id to
be used twice, four allow that after stopJS has registered the deferred-work callback anew. A
service limit of 2 is reached with items left; in `timers` it is 1, so that expiry and clearing may come between
any two calls. In `loop_poll` the ring
holds more than two service calls handle, as the real one does (63 words against 24
items). Two addresses for three timers force reuse. A ring of 2 items loses
signals of three timers; where a timeout must be called it has one for each. In `events` three
listeners are the one called, one before it and one after it, any of which may go or come
during a nested emission; two emitters let a deferred event outlive its object while the
prototype stays, or goes and is made anew; a ring of one is full while another event is
being handled. At most one freed event is in the lists at a time, as the next step that
meets it ends the behaviour. The run is symmetric in emitters, names and functions, which the
module only compares, and `net` in contexts.

In `net` two contexts let one be given again while the other is in use, and a connection that
comes, sends, closes and is followed by another on its context fills the ring of three. Two client sockets
let one get the context that the other still names.
For web sockets the ring has four places: with three, a client's accept, frame and close leave no room for
an event of the other, and one order of steps that `Unhandled` speaks of does not happen.
`peers`, `sockets` and `devices` explore one component in each behaviour (`peer`, `protocol`, `device`):
the components share nothing but main, which is in one of their functions at a time, so interleaving
them would multiply states and show nothing. Where a component has two kinds of
traffic that do not meet either, budgets bound them together (`BleBudgets`, `OcfBudgets`,
`UsbBudgets`, `PinBudgets`). A queue of two messages is full while one is handled; a ring of
four bytes wraps with the fifth; three descriptors are used up by opens that fail;
three packets are a save with its end and the next command; lines of two bytes end, fill up and are
taken away unfinished. Offsets up to 15 are those of bytes with two values: the greatest wraps with any
length, and the others end inside, at and behind the end of a buffer of five.

**What the environment is.** `QuietSources`: an interrupt source stops before its
callback is removed (modules disable their interrupt first), so a handler does not signal a
callback under removal. `cb_main` has it, `cb_stop` has not, and both check what may then be
undefined. `Careful`: scripts clear no timeouts and an
interval only once. `SlowIntervals`: a kernel timer expires again only after its last
signal was taken; a faster interval fills the ring and other signals are lost. What peers send, and
when, is not restricted: packets, closes, readings, bytes and requests come at any time, answers
late or never.

**The properties.** In the core:

* `Callbacks`: `StaleNeverDelivered` (a signal is handed to the registration it was sent to),
  `OnceCalledOnce`, `HeldBalance` (references held are exactly those of pending signals and the one in
  hand), `UndefinedExplained` (freed memory is read only by an interrupt while the map grows or, if sources
  are not quiet, between the two halves of `zjs_free_callback`; an index is out of bounds only after memory ran
  out; a missing callback's flags are read only while `tainted`; and values of an engine that ended are released
  only after stopJS), `IInv` (section 5), `RemovedWillBeFreed` (a removed callback is always covered by a
  command that is queued or about to be) and `RemovedIsFreed` (it is freed in the end). The first
  holds while not `tainted`; that is the strongest the code gives.
* `RingBuffer`, until a put is torn: `RingIsSound` (no put writes over a message not taken, and the error
  path "pulling from ring buffer" is dead), `ImplementsQueue`.
* `MainLoop`: `NoSleepWithWork`, `EveryOneServicedByPolling`.
* `Timers`: `TimersAreSound` (no kernel timer runs on freed memory; a freed timer's function is called, with
  arguments released and `post_timer` reading it, in the Linux build only once it is completed and in the
  Zephyr build only when a timer with its address was cleared, and never an interval's; for careful scripts no
  callback is left behind), `ClearedIntervalIsQuiet`, `DeletedForItself`, `TimeoutIsCalled`.
* `Events`, until something undefined happens: `CalledOnceInOrder`, `AllListenersCalled` (every listener listed
  when an emission ends was called by it, those added meanwhile included, which Node.js would not
  call), `LiveEventsNotSkipped`.

In the network:

* `OwnDataInOrder`: a socket's listeners are given the packets of its own connection, in order and, when
  none was lost, without a gap, although contexts are found by one thread and used again before the
  other gets to them.
* `ClosesAreCovered`: a connection closed by its peer is on its way to `release_close`, its context is
  dropped once unless a peer closed before main had made the socket (section 4), and the server is closed
  once.
* `QueuedSocketIsHeld`: queued work finds its socket allocated and its object held, but for the event of a
  timer that expired when the close of the socket was already on its way (section 4).

The three hold while `Regular`: no close was lost, no context dropped twice, and none used again while
a client's socket names it.

* `MessagesIntact`, `GoneAreClosed`, `WsFaultsExplained`: a web socket's message has its own frame's
  payload, unless an earlier event of the connection was lost or cancelled or a binary frame, a close or an unknown
  opcode brought a payload; no connection is left of a client that is gone; a freed one is used only after the
  receive thread closed it early, a termination or something heard after the close frame.
* `UdpReachesItsOwn`: datagrams, ends of sends and addresses reach their own functions, although ids
  are given again.
* `SearchesDoNotMix`: a search that met no other is fulfilled by its own entry, with a resource
  that meets its filter.

With other processors and threads:

* `CoresAgree`: a call returns the answer to its own message unless one has timed out, and once no message
  waits the sensor core does what it was asked last.
* `SensorsAgree`: an activated sensor is polled, an idle one shows nothing.
* `ModesAreKept`, `SavedIsRestored`: calls leave the device's modes as they found them, and a restore
  gives back every neuron that was saved.
* `ClientsAgree`: an attribute request returns its own answer, and the script knows of the
  connections there are.
* `FaultsExplained`: freed memory is used by an interrupt, the sensor core or the Bluetooth thread, or by main
  because of them, only after a timeout, a message on its way or overtaken, a cleanup of the sensors that met an
  idle one, any cleanup of the Bluetooth module (which frees what the stack still has), services set again, or
  when a client leaves while main notifies it. The five faults of `Ble` have a part each.

On the board:

* `UsbDelivers`: bytes are sent and read once and in order, what waits to be sent will be, and a read that
  brings nothing comes only after interrupts deferred more events than there were pieces to read.
* `PinsAreHeard`: the script knows the level of a pin once signals are served, and reads the line's bytes in
  order.
* `FilesHold`: a descriptor names one file; what is appended is kept; reads go on where they stopped.
* `FilesAreAsSent`, `HostIsAnswered`: a patient host's files are those it sent, and it is answered.
* `TerminalIsFaithful`: what is typed reaches the terminal, but for a line with a NUL from there on, and makes the
  lines and files that were edited, until a file takes no more.
* `BuffersHold`: a call changes the bytes it was about, as `docs/buffer.md` says, and no others.

**Fairness.** Always weak fairness of main's own steps, never of a script's
choices: the loop of `main.c` goes on, and a function that was called returns (a
script that loops forever is outside the claim). `MainLoop` adds that a thread
preempted between its put and its `k_sem_give` goes on, which the scheduler does when
main blocks. `Timers` adds that a running kernel timer expires, and for Linux strong
fairness of a timer being found expired: `zjs_port_timer_test` returns its
result in eight bits, so that it says 0 when the time elapsed is a multiple
of 256; a test on every pass misses now and then but not always. `Ide` assumes that main polls the
shell (`MainServesIde`): `main.c` calls `zjs_ashell_process` in every pass of its loop. Nothing is
assumed of a peer.

Deadlock is checked in every run: main always has a step, because blocking in
`zjs_loop_block` is left by an interrupt. `Faulted`, `Crashed` and the stutters at the end of each
`Next` are the end of a behaviour: after undefined behaviour, when main waits, or
when a bound on inputs is used up.

## 4. Where the code and its documents part

Checked by a run:

* `timers_clear`: clearing a timeout that has expired does not keep it from being
  called (`zjs_timers.c:167`), which `docs/timers.md` says.
* `events_remove`: a listener that removes itself is freed while it is called, and its
  `next` is read afterwards (`zjs_event.c:428`).

Reached by the models, without a run of their own. **The core:**

* When a flush command is refused because the ring is full, the id is free at once
  (`zjs_callbacks.c:351`), and a signal of the removed callback calls the next
  one to get the id; the header (l.52) says it "will never get called". This is what `tainted` marks.
  It also lets a function that removes its own callback and adds
  another go on with the post function and once flag of the new one
  (l.536), and lets a signal with arguments read the flags of an empty
  slot (l.597, `fault = "null_callback"`).
* A cooperative thread's signal is put without `irq_lock` or a mutex (l.424), a flush command with `ring_mutex`
  only (l.345); a handler's put in the middle overwrites it or is overwritten (`torn`), though l.381 calls the
  function interrupt safe.
* Unregistering a service routine drops the last one of the table and keeps
  calling the one unregistered (`zjs_modules.c:397`).
* An interrupt handler that signals while main replaces the map (l.189) or frees a
  callback (l.318) reads freed memory (`fault = "use_after_free"`). When memory for a larger map runs out,
  `new_id` returns -1 with `cb_mutex` held, and `add_callback_priv` stores at `cb_map[-1]`.
* A callback signalled twice before it is serviced is queued and called twice;
  `zjs_callbacks.h:82` says it is called once.
* After stopJS signals left in the ring release values of the engine that ended
  (`fault = "stale_value"`). In the Linux build the ring is initialized again, which loses the
  FLUSH_ALL command and with it the memory and the ids of all callbacks.
* In the Zephyr build, clearing a timeout before it expires leaves its
  callback registered for good (`zjs_timers.c:167`). A ring filled by a fast interval
  loses a timeout (l.67). A failed `add_timer` is read through NULL (l.198). A timeout cleared after its expiry
  is called with arguments that were released, and `post_timer` (l.58) then reads the freed timer; in the
  Linux build `tm->next` is read of each completed timer after it was freed (l.237-239).
* K_FOREVER is less than any time, so what service routines return is never used
  (`zjs_modules.c:410`), which `zjs_modules.h:20` says is the time to wait.
* A timer object, and `post_timer`, delete whatever timer has the address now
  (`zjs_timers.c:226`, l.59); `DeletedForItself` shows that scripts that clear only intervals, each once,
  do not meet it.
* When a listener cannot be allocated its event is freed and stays listed
  (`zjs_event.c:103`, `fault = "freed_event"`). A deferred event does not keep its object,
  which may be collected first (l.390, `fault = "stale_object"`). A deferred event that the
  ring refuses, or that is skipped with the prototype, is lost with its argument.
  `get_listeners` (l.301) makes its array as long as the list of events, not of listeners; JavaScript
  arrays grow or have holes, so this shows in `length` only.
* Without a polling routine, what two service calls leave in the ring stays there until
  the next signal (`zjs_callbacks.c:37` says the next time around).
* `zjs_port_ring_buf_init` rounds a size up beyond its memory region; the size it is
  given in this tree is a power of two.

**The network:**

* A peer that closes before main has made the socket has its context dropped by
  `accept_connection` and again by `clear_closed`; only one such context is remembered (`zjs_net.c:574`).
  When a client's peer closes, its context is the kernel's again while its socket is listed; another client
  may get it, and what comes for that one goes to the older socket, which `find_connection` meets first.
  Timers of freed sockets are not stopped, and a socket object keeps the freed handle. A
  packet is given back twice, before it is copied and after (l.442, l.484), and may be RX's again in between
  (`fault` "packet_taken_again"). A timer that expires while the socket's close waits queues its event behind
  the work that frees the socket and releases its object (l.253). A client's socket connected again keeps its
  context and goes on with it (l.1238). What arrives
  while a socket is paused is copied behind the end of its read buffer when that is full (l.460).
* A web socket's client that sends and closes before main has handled the packet has its message
  emitted after its close, on a freed connection (`zjs_web_sockets.c:845`); one that closes before
  main has made the connection is forgotten. A close frame followed by a close of the
  connection defers two closes, one of them with a pointer into the packet and the size of a
  pointer (l.568). Binary frames consume the bytes of the oldest text (l.557), an unknown opcode leaves its payload
  to the text that comes next (l.539), and a lost message shifts those after it: `docs/web-socket.md:114` says
  that the data received is in the event's argument.
* A datagram socket's `on(event, null)` leaves the id in the slot; `close` frees a handle the object still
  names; the function of `send` is not acquired; a second `dhcp()` overwrites the first one's id, whose
  callback stays.
* Of an OCF filter with several parts one is enough; overlapping searches take each other's
  resources; a call takes the newest entry of a device whatever its path. A resource
  is listed before its options are checked, its object is given back without having been
  taken, one registered after the start is never served, and `respond` called after cleanup uses a freed
  handler.

**Other processors and threads:**

* A reply after the timeout is written into a stack frame that is gone, or into the next call's
  (`zjs_sensor_board_a101.c:97`), and leaves the semaphore given, so that answers lag behind calls. I2C
  calls never report errors. A text for the display may be freed before the sensor core reads it; a message
  put into the first free slot overtakes older ones (`src/arc/src/main.c:65`).
* A sensor whose start was refused is activated nevertheless; stopping one stops the device for all of its
  channel; the cleanup frees idle handles while the others' readings still walk the list, and collection
  frees them again.
* A save or restore that breaks off leaves the device in NET mode and the sensor core's flags set;
  a saved vector ends at its first zero.
* A late answer to an attribute request leaves the semaphore given for the next (`zjs_ble.c:294`); the data of a
  write may be read after the stack took them back (l.391); setting services again frees attributes the
  stack still has; of three characteristics or more the list keeps the first and the last; the Bluetooth
  thread frees connections that main walks.

**The board:**

* A GPIO interrupt may come before the callback id is stored (`zjs_gpio.c:329`); the first fall of a pin
  that was high when opened is not reported.
* A UART buffer that is full is ended one byte behind (`zjs_uart.c:133`); the size of the latest
  reception is used for an earlier signal; `setReadRange` puts in the new buffer before the new size.
* An analog pin's `close` frees a handle its object and a deferred event still name.
* A WebUSB write that goes around the end of its ring puts the second part in the wrong place
  (`zjs_webusb.c:457`); bytes that wait when interrupts are set up stay there until the next
  write; after cleanup the interrupt and the timer use freed rings. Of two "read" events for bytes that the first
  has taken, the second brings 256 bytes that were never set (l.314), where `docs/webusb.md:54` says that the
  parameter has the received data.
* An open that fails keeps its descriptor (after 32 none is left); truncating by path refuses
  files that can be opened, and cuts those that cannot; `mkdir` has the same check the wrong way round;
  a write without a position, other than appending, starts at 0 again, which overwrites; a short
  `writeFile` is a success.
* The IDE's `rm`, `run` and `boot` go on with the truncated name when the parser refused
  one (`ide-cmd.c`, `parse_filename` returns the reply's positive result): "rm a.js.b" removes
  "a.js". An end marker split over two packets never ends the save, which swallows later commands.
  A buffer is unlocked before it is wiped (`ide-webusb.c:124`). `parsed_code` is released twice after a
  parse error.
* A line may be lost, or collected into memory given away, when an interrupt comes while main gives
  up waiting (`term-uart.c:404`). What follows a NUL in the same buffer is not given to the editor
  (`term-uart.c:390`). When a file takes no more, the rest of a captured line is dropped without a word
  (`term-cmd.c:660`), where `docs/ashell.md:142` says that the text will be saved. `load` for a hex file ends the terminal without anything that starts
  it again; a control character at the last place is written one behind the line, and inside a line it
  takes the place of a character.
* An offset near 2^32 passes a buffer's checks, because the sum wraps (`zjs_buffer.c:80`, l.129,
  l.385); filling with an empty string never ends (l.483); a copy from a buffer into itself is a `memcpy` of
  ranges that overlap (l.326).

## 5. What is proved

The theorems hold for every value of the constants that the modules' assumptions admit (positive sizes and
bounds, sets that are finite where the code's are). Most state what a run checks. A property is seldom
inductive; for each there is an invariant that is, made of named parts, and three steps: it holds
at first, every action keeps it, it implies the property.

### Callbacks (`CallbacksProofs`)

| theorem | statement | assuming |
|---|---|---|
| `TypeCorrect` | `Spec => []TypeOK`; with it the ring's bound | |
| `Invariant` | `Spec => []IInv` | |
| `StaleSignals`, `PostOwner` | `StaleNeverDelivered`, `PostOfOwner` | |
| `CalledOnce` | `OnceCalledOnce` | |
| `RemovedNotForgotten` | `RemovedWillBeFreed` | `RingIsKept` |
| `HeldBalanceTheorem` | `HeldBalance` | |
| `NothingElseUndefined` | `UndefinedExplained` | |

`StaleNeverDelivered` and `PostOfOwner` speak of the moment of a call and are not
inductive: whether a signal finds its owner was settled when it was put and could
have been spoilt at any step since. `IInv` says what is true all the time:

* `PlaceInv`, always: main's locals fit the place it is at; there is a call in
  progress exactly when main is in it or returns to it; exactly the slot being freed points to freed
  memory.
* while not `tainted`, `Clean`: no stopJS is under way (`NoFlushAll`); every pending
  signal finds its registration, live or marked (`SignalInv`); every flush
  command is for a marked callback and is the last item about its id (`FlushInv`);
  the callback being called keeps its slot (`CallInv`).

The argument: an id becomes free only when its flush command is taken out; by
`FlushInv` nothing about the id is behind it, and what was before it has been
handled; so no pending signal outlives its registration. A callback being called
keeps its slot because flush commands are only taken out between calls. When a flush command is
refused `tainted` is set and `Clean` is not claimed until the ring is found
empty, where it holds again at once: no items, no call. `PlaceStep` and `CleanStep` go through
the actions one by one; `StoreClean`, `MarkClean`, `SignalClean` and `GetClean` say what
the four kinds of change do to it.

`OnceCalledOnce`, `RemovedWillBeFreed` and `UndefinedExplained` need more (`More`): registrations are numbered upwards and no two slots have one (`Numbered`);
a once callback that was called and is still live is the one being called (`OnceInv`);
`zjs_remove_all_callbacks` leaves out single commands only behind a FLUSH_ALL (`SkipInv`); what is registered
behind its loop is of the next program (`EpochInv`).

`RingIsKept` says that the build is not Linux or there is no stopJS: the Linux build initializes the ring in
`zjs_init_callbacks` and loses the command. `UndefinedExplained` has no assumption: it names, for each kind of undefined
step, the state it takes, and the proof shows that no other state leads to one.

`HeldBalance` compares a counter with a sum over the ring. `JsInv` says which items count: a pending signal
acquired its arguments exactly if the registration it was sent to is one of JavaScript, and commands have
none. The sum is the last of the sequence of partial sums (`Sums`, `Total`), which exists because there is
no least place without one, and is carried over appending an item and taking the oldest
(`RingStep`); so no induction over data is needed, which the prover lacks.

### The ring (`RingBufferProofs`)

| theorem | statement |
|---|---|
| `RingIsSoundTheorem` | `RingIsSound` |
| `RingImplementsQueue` | `Spec => ImplementsQueue`, that is, the specification of `MsgQueue` under the mapping |

Both hold without an assumption about who puts when: interrupts and cooperative threads come in the middle of
divided puts, and the claim ends when a put has been accepted there (`torn`), as the code's promise does. An
interrupt that the ring refuses, or one between main's steps of a get, tears nothing. The invariant (`Whole`, until
`torn`) adds to `RingIsSound` that any message ends before any later one begins (`Ordered`: `Chained` says it of
neighbours, and from neighbours to any two is an induction, which is avoided by keeping both), how far a get has
come (`Reading`) and that of the divided puts one at most is under way, whose words lie at `tail` (`Writing`). The
arithmetic of wrapped indices is a dozen lemmas about
`Distance`. For the refinement every put maps to a put, with the same answer, the last step of a get to a
take, and all else to a stutter.

### Main loop and timers (`TimersProofs`)

| theorem | statement |
|---|---|
| `NoSleepTheorem` | `NoSleepWithWork` |
| `TimersAreSoundTheorem`, `ClearedIntervalIsQuietTheorem`, `DeletedForItselfTheorem` | the three safety properties of `Timers` |

`NoSleepWithWork` is inductive together with the types. For timers: a kernel timer that runs is listed
(`ArmedIsListed`); an interval's callback is registered only while the timer is listed and not cleared
(`IntervalsInList`); and what careful scripts keep (`CarefulScripts`), in both builds and with memory or
ring that run out, from which follows that the timer an address leads to is the one meant. `OutlivedIsExplained`,
whatever scripts do, rests on who calls `Delete`: clearing, which is remembered by address, and the loop when
the timer is completed.

### Events (`EventsProofs`)

| theorem | statement |
|---|---|
| `DeferInvariant`, `NotSkipped` | `DeferInv`, `LiveEventsNotSkipped` |
| `EventsInvariant`, `CalledOnceInOrderTheorem`, `AllCalled` | `EventsInv`, `CalledOnceInOrder`, `AllListenersCalled` |

`LiveEventsNotSkipped` is not inductive alone: a first emitter brings a new registration, and
old events would then have another. `PrototypeKept` (an emitter that lives implies a
registration) says that there is no older emitter then, and a new one is in no
pending event. `FreshIdExists` shows by the pigeonhole principle that a registration other than
all pending ones exists, so that the model never takes an undefined `CHOOSE`.

`EventsInv` relates the lists and the frames of emission. Of the lists: an emitter has one event of a name;
lists ascend; a listener is in one list, and is allocated exactly when it is. Of a frame (`At`): while the
listener it called last is allocated, it is in the list of the frame's event, and every listener of that list
that is not younger has been called by it. The step that matters is the removal of the listener called last: its
frame must not go on, which is the fault of section 4. An emission that ends has called the last listener of the
list, so all that are listed.

### TCP (`NetProofs`)

| theorem | statement |
|---|---|
| `NetInvTheorem` | `NetInv` |
| `OwnDataInOrderTheorem`, `ClosesAreCoveredTheorem`, `QueuedSocketIsHeldTheorem` | the three properties of `Net` |

`NetInv` has a part that holds always:

* `SocketsAgree`: a socket is in the list of its kind once and until it is freed, and a connection has one
  socket at most, with its context.
* `ItemsAgree`: of a connection's pending items an accept is the first, a close the last, and packets are in
  order. `ServerCloses` counts the server's closes, `DropsExplained` those of contexts.

and one that holds while `Regular`:

* `ItemsRegular`: an item names the socket of its connection; an accept that came too late has its
  `clear_closed` pending, for the context that is remembered; items of two connections with one context are
  in the order of the connections.
* `SocksRegular`: the close of a listed socket whose connection is closed is pending or under way, and
  nothing is pending for one that is no longer listed.
* `ConnsRegular`: the references of a context are one of the kernel, while the connection is open, and one of
  main, until it is dropped; of two connections with one context the earlier is over before the later begins,
  and the later has no socket while anything is pending for the earlier. This is why looking for a socket
  by its context finds the right one, though neither thread compares connections.
* `DataRegular`: what a socket's listeners were given, what its buffer holds and what is pending are the
  connection's packets, in this order.

`QueuedSocketIsHeld` follows step by step: an item that names a socket finds it listed. Events need an invariant of
their own (`EventInv`): an event that names a socket which is not closing is ahead of that socket's close in the ring, so
that only one queued behind the close finds it freed.

### Other threads and processors (`PeersProofs`)

| theorem | statement |
|---|---|
| `CoresAgreeTheorem`, `SensorsAgreeTheorem`, `ModesAreKeptTheorem`, `ClientsAgreeTheorem` | the invariants of the `peers` run, each of its module |
| `FaultsExplainedTheorem` | `FaultsExplained` |
| `SavedIsRestoredTheorem` | `SavedIsRestored` |
| `PeersAgree` | the composed specification has the four invariants together, and `SavedIsRestored` |

* `IpmInv`: unless a call has timed out, the one message not yet handled that has a call is of the call
  under way, and a semaphore is given only when it has been handled, with its answer (`CallsInv`). Unless
  messages crossed, at most one message about updates is queued, and the sensor core does what it says once
  it is handled (`UpdatesInv`).
* `SensorsInv`: what the sensor core will do when its messages are handled, not what it does now, agrees
  with the states of the objects (`UpInv`); an idle sensor has nothing pending but its stop (`IdleInv`);
  unless a call has timed out, there is one message at most (`MessageInv`).
* `BleInv`: of the things that give the semaphore (a signal for the handler, a function not yet called by
  the script) there is one at most, and it is for the request under way (`PendingInv`); the request's answer
  is the error set beforehand until then (`LatestInv`). For each client, whether it is connected agrees with
  what the script has seen and the events that wait (`ClientInv`). While main walks the list of connections, the
  one it is at is there still, or its "disconnect" waits or found no room (`WalkInv`), which is how a client leaves
  while it is notified.
* `PmeInv`: the register a save keeps has the device's classifier mode, and the modes are those of what is
  under way.
* `SavedInv`, as long as nothing has broken off: a save has copied the neurons before the one it has come to,
  and a restore has written back as many, from the array of the latest save. `PaddedFacts` says that a vector
  that was cut and filled up with zeros is cut in the same place again.

### Web sockets, datagrams, OCF (`SocketsProofs`)

| theorem | statement |
|---|---|
| `MessagesIntactTheorem`, `GoneAreClosedTheorem`, `WsFaultsExplainedTheorem` | the three properties of `WebSockets` |
| `UdpReachesItsOwnTheorem` | `UdpReachesItsOwn` |
| `SearchesDoNotMixTheorem` | `SearchesDoNotMix` |
| `SocketsAgree` | the composed specification that the run checks has all five |

`WsInv` has five parts:

* `WsBase`: types, frames are numbered in the order they come, and a client has one connection, or an accept
  that waits, at most.
* `ClosesComing`: unless something found the ring full, a listed connection of a closed client has its close
  in the ring, or the client closed before the connection was made. `GoneAreClosed` is the case of an empty
  ring.
* while the thread has closed no client early, and none was terminated or heard of again (`Spared`), `Ends`:
  a close is the last thing of its connection in the ring, a close frame the last packet of its client, and
  nothing is left of a freed connection. So nothing finds it freed, which is `WsFaultsExplained`.
* `InOrder`: packets, then messages, are in the ring in the order of frames, and every message that waits is
  of an older frame than any packet, the one main is busy with between them.
* `Buffered`: a read buffer holds the units of exactly the messages that wait, each message's in one block
  (`Block`), blocks in the order of frames. A message takes as many units as its frame had from the front, hence
  its own.

`UdpInv`: an id in a slot is of the callback put there, a signal that waits is of the callback that has its
id, and `dhcp_id` is of a call with no answer; a removal takes the id from the slot and from the signals at
once. `OcfInv`: a search that met no other is the only one that waits and its entry the only one sought; as
many searches wait as entries are sought, since a discovery takes one of each.

### The board (`DevicesProofs`)

| theorem | statement |
|---|---|
| `FilesHoldTheorem` | `FilesHold`, in three parts |
| `UsbDeliversTheorem`, `PinsAreHeardTheorem`, `FilesAreAsSentTheorem`, `TerminalIsFaithfulTheorem`, `BuffersHoldTheorem` | the other invariants of the `devices` run, of the specification it checks |

* `FsInv` adds to `FilesHold` where an `a+` file's reads begin and end: the read position is the start and
  what was brought, and it only has to be what the file has there while the file grows at its end
  (`Brought`). `ReadsGoOn` alone is not inductive, for it says nothing of the read position the next read
  takes.
* A new descriptor is one that nothing has, because the least of a set of numbers is in it
  (`LeastNumber`). That takes the well-ordering of numbers, which the library has for sets too
  (`WFMin`), with no operator as a parameter.
* `UsbInv`: what was sent, what the ring holds and what main wrote are successive numbers, likewise what came,
  what the ring holds and what was read (`Carries`). While main is between reading the indexes and storing
  them, the ring holds no more than main saw of the one it sends from, and no less of the one it reads
  (`Writes`, `Reads`). `WillSend`: bytes that wait have their interrupt on, or began to wait too early. `Fresh`:
  unless the events have been more than the pieces to read, there is one event at most, and bytes for it.
* `PinsInv`: the last signal that waits for a pin tells its latest level, or the script knows it when none waits
  (`ToldIn`); the bytes read, those of signals that wait and those in the buffer come in order and without gaps
  (`InOrder`), and all of them in signals have the size that the latest reception left.
* `IdeInv`: the buffers that are locked are those queued and the one being parsed (`LocksAgree`); a host that
  waits has one packet on its way, and takes buffers in turn (`PatientNeverLoses`); and there are states of the
  files, one for each queued packet, that lead from what the device has to what the host expects
  (`FilesFollow`). A step takes the first state away or adds one at the end.
* `UartInv`: the bytes typed are, in order, those processed, the line main has, the lines queued and the one
  the interrupt is filling (`Stream`), as long as no interrupt has come while main gave up. `GivenInv`: what the
  editor was given is what main took, each buffer up to its first NUL. `LineInv`: the
  buffer is what was edited before the cursor and behind it, ended by 0 where the code ends it.
* `BufInv` only adds types: every call makes `BuffersHold` true again from the buffers before it. What takes
  work is arithmetic: quotients and remainders by powers of `Byte` (`Digits`, `DivUnique`), the number that
  bytes stand for (`NumberIs`, `ReadIs`, `WriteIs`, for one, two and four bytes in either order), and the check
  that wraps (`WrapsIfOutside`).


### What the proofs found

Where an invariant would not go through, the model or the property was wrong more often than the proof:

* A packet that was queued before main made its connection names none; `again` did not count it, and
  `WsFaultsExplained` was false with a ring one longer than the run's. `Unhandled` now looks at the client.
* What Bluetooth requests were refused had to outlive a cleanup, because the thread may wait for one meanwhile.
* Numbers that name allocations (`chrcs`, timers, registrations) must grow with the history, not with what
  is live, for two things with one name are one to the model.
* `OwnDataInOrder` was false with two client sockets (the case of section 4, the context that a closed client's
  socket still names), which the run could not show with one. The run now has two, and `Regular` excludes it.
* `DropsExplained` was false when a `clear_closed` was lost, and "twice at most" with four connections on one
  context: after one drop too many, later connections are short of a reference too.
* For pins, signals of a pin that was closed had to be skipped until its flush command, and the pool of
  the IDE must have two places at least: with one, what a host sends as soon as it is answered may find it
  still locked (the code has four).
* A number's bytes are now weighed by their places, where a fold and `^` had been, of which the prover knows
  nothing.

### Only model-checked

Liveness (`RemovedIsFreed`, `EveryOneServicedByPolling`, `TimeoutIsCalled`, `HostIsAnswered`): the prover has
no rules for fairness and `ENABLED`. Every invariant and every other action property that a run checks is
stated by a theorem.

## 6. What is not covered

* The engine: JavaScript is "main may do what a script may", values are
  counted, not described. `zjs_call_callback`'s conversion of arguments, error printing and
  instrumentation are left out, and so is `zjs_edit_js_func`, which changes which
  function a callback has.
* Sizes beyond eight bits: `signal_callback_priv` truncates a size in words; no caller
  comes near.
* Startup, command line, and the exit test of the Linux loop.
* Memory is finite only where a failed allocation changes control (`AddGrowFails`,
  `SetTimerFails`, `OnFails`, `AcceptConnectionFails`).
* Memory that was freed is read as it was where nothing can have used it in between (`tm->next`,
  `zjs_timers.c:239`); elsewhere reading it ends a behaviour.
* TCP: addresses, IPv6, the properties of objects, the callback of a write. Web sockets: masks,
  lengths in the frame, the contents of the replies to ping and pong (which make "ping" and "pong" events as a
  text makes a "message", l.559-566, so "text" stands for them). OCF: encoding to and from CBOR.
* Bluetooth: advertising and its URL frame, descriptors.
* Sensors: frequencies, kinds of readings, the arithmetic of each; the board of the K64F.
* GPIO outputs, the mock of the Linux build. The asynchronous variants of `fs` calls, which are
  off by default, `readFile`, `readdir` and `stat`, which change nothing.
* The shell: reply texts, `cat`, `mv` with odd names, `reboot`, `init`; Intel hex
  (`term-ihex.c`), which no command reaches.
* The components marked `not_modelled` in `PROJECT.json`: I2C, SPI, PWM, LCD, board, pinmux and
  graphics call drivers and keep nothing between calls; console, performance and script loading
  have no state of their own.

## 7. Plan

Every safety property has its theorem. What is left is to join the parts:

`Events` is to be composed with `Callbacks` (one id, one ring), whose
`StaleNeverDelivered` it takes for granted; `Net`, `WebSockets`, `Ble`, `Sensors` and `Dgram` take the same.
