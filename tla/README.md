# A TLA+ model of usp_zephyr

`usp_zephyr` is the Zephyr port of the Unified Software Platform (USP) for
Semtech radios: the code that lets the radio access controller (RAC) and the
LoRa Basics Modem (LBM) run under Zephyr. The two libraries themselves
come in as external modules; this repository holds what they stand on: the
modem HAL, the drivers of three transceiver families, the engine thread with
its mutex, and sample applications, one of which carries a serialization of the
RAC's structures. Most of it is glue between contexts
that interrupt one another, which is where tests help least.

The modules here model that glue from the source. TLC checks them on small
instances; TLAPS proves the safety properties of every part, the serialization
included, and both refinements, for every value of the constants.

## 1. The system

### 1.1 Components

| Component | State | Operations | What makes it hard | What makes it correct |
|---|---|---|---|---|
| Modem HAL: interrupts and timer (`modules/smtc_modem_hal/smtc_modem_hal.c`) | the gate `prv_modem_irq_enabled`, two pending flags, the timer's callback and context | start/stop timer, enable/disable modem irq, radio event callback, clear pending | runs in a thread, a timer ISR, and an ISR or a work item, with no lock | no event lost around a critical section; callbacks get their own context; nothing held outside |
| Event pin of the drivers (`drivers/usp/*/*_board.c`) | the callback, the edge selected, the work item | attach, enable, ISR, work item | the lr11xx handler reads the level and selects the next edge in two steps | an event the chip raised is latched, queued, held or known |
| SPI command path (`drivers/usp/*/*_hal.c`) | `radio_status` (sleep or awake) | write, read, direct read, reset, wakeup, wait on BUSY | the chip's state can only be guessed; SPI transfers fail; time-out in 32 bits | transfers start only when the chip is ready; panic only if it hangs |
| USP thread and API mutex (`subsys/usp/zephyr_usp_thread.c`, `include/zephyr/usp/smtc_sw_platform_helper.h`) | `rac_api_mutex`, `lbm_main_loop_sem`, the IRQ flag, requests | engine loop, API calls of other threads, callbacks | two threading models; a sleep that must not miss a wake-up | mutual exclusion, no lost wake-up, requests served |
| Initialization handshake (`subsys/usp/zephyr_usp_initialization.c`) | a flag, a mutex, a condition variable | wait, notify | notification before, between or after the waits | no API call before the HAL is ready, nobody waits for ever |
| Context storage (`modules/smtc_modem_hal/smtc_modem_hal_storage.c`) | flash area, page buffer | store, restore, erase pages | pages are shared, padded writes, resets between erase and write | a store changes its bytes only; what is stored is restored |
| Crash log (same files) | memory that survives a reset | store, restore, status | a panic while panicking, a length in 8 bits | a log reads back whole or not at all |
| HAL environment callbacks | registered callbacks | battery, temperature, versions | none | forwards |
| Waiting helpers, LEDs (`subsys/usp/smtc_sw_platform_helper.c`) | semaphores, events | wait on any of several | an event handed to a poll as a signal | wakes when one is given |
| Modem event helper (`subsys/usp/smtc_modem_helper.c`) | pending count | drain the event queue | events raised while draining | every event is handled once |
| Application loops (`samples/usp/**/main.c`) | the button's flag and time, `k_event` words, mode variables | loop, callbacks, shell, button | flags and events set in ISRs and cleared by the loop; a modem that resets and wakes chains of callbacks | no press or event lost or slept on; chains go on; a setting chosen once holds |
| Hardware modem (`samples/usp/rac/hw_modem/src`) | COMMAND and BUSY lines, command flags, low-power mode | receive, execute, respond, sleep | a line handshake with a host, against the sleep | every command is answered once, no command missed |
| Protocol buffers (`hw_modem/serialization/generated`, `nanopb`) | the decoder's position and the message filled in | encode, decode | bytes from outside, lengths, widths, signs, unknown and repeated fields | what is sent is received; what is cut is refused or a prefix |
| RAC context conversion (`hw_modem/serialization/helpers`) | the transaction under way | convert requests and results, both ways | enumerators, narrower types, payload lengths, refusals half way | conversions invert; a refusal leaves the transaction alone |
| FLRP (`samples/usp/rac/flrp_api_*`) | one shared transfer buffer, options, the library's state | listen, send, receive, remote commands | transmission and reception share the buffer; shell, downlink and loop change the options | nothing is sent that was not filled for it; the options shown hold |
| Certification (`samples/usp/lbm/lctt_certif`) | a flag of the application and one the modem stores | switch modes | a reset between the two | both agree |
| Geolocation samples | the scans programmed, the almanac's state | events, button | a scan is programmed by the event of the one before | scans go on |
| Radio measurement samples | those of their loop | button, loop | little of their own | - |
| Porting tests (`samples/usp/lbm/porting_tests`) | three flags set in callbacks, a verdict per test | twelve tests of the HAL and the driver | flags left by the test before; waits without a time-out | a wrong port is found, a right one is not blamed |
| Calibration tables, board support, logging | none | - | - | - |

### 1.2 How they interact

    applications ── SMTC_SW_PLATFORM (rac_api_mutex) ──► RAC / LBM (external)
         │ wait for init (condvar)                          │ HAL calls     │ SPI commands
         ▼                                                  ▼               ▼
    usp_main_thread ── engine loop, sleeps on ──►   modem HAL         transceiver driver
         ▲             lbm_main_loop_sem              ▲    ▲             │ BUSY, reset, SPI
         └──── smtc_modem_hal_user_lbm_irq ───────────┘    │             ▼
                                        timer ISR, event-pin ISR ◄──── radio chip

* An interrupt reaches the HAL by the kernel timer, or by the event pin through
  the driver's ISR, which reports it at once (`EVENT_TRIGGER_NO_THREAD`) or
  through a work item.
* The HAL passes it to the engine, or holds it while the engine is in a
  critical section. What the engine is told ends in
  `smtc_modem_hal_user_lbm_irq`, which gives the semaphore the engine thread
  sleeps on.
* Applications share the libraries with the engine thread under
  `rac_api_mutex`, or, in the cooperative build, under no lock at all.
* The modem library raises events and calls one callback, which reads them all
  and passes each to the application's hook; the hook calls back into the modem
  (an uplink, an alarm, a scan), and so keeps a chain going.
* A main thread sleeps on semaphores that the button, the radio and the HAL
  give; two of the samples sleep on a `k_event` instead, whose bits the shell and the
  button set.
* The hardware modem reads a command frame under a handshake of two lines;
  the frame holds a protocol-buffer message, which is converted into the
  RAC's structures, and the results go back the same way.

## 2. Modules

| Module | Models | Runs | Theorems |
|---|---|---|---|
| `IrqGate` | abstract: what the gate promises | by refinement | by refinement |
| `ModemHal` | `smtc_modem_hal.c` against `*_board.c` | `modem_hal`, `modem_hal_toggle` | `ModemHalProofs` |
| `UspThread` | thread, mutex, handshake, semaphore | `usp_thread`, `usp_thread_cooperative` | `UspThreadProofs` |
| `RadioHal` | `lr11xx_hal.c`, `lr20xx_hal.c`, `sx126x_hal.c` | `radio_hal`, `radio_hal_wrap` | `RadioHalProofs` |
| `ContextStore` | abstract: what the storage promises | by refinement | by refinement |
| `ContextStorage` | `smtc_modem_hal_storage.c` | `context_storage`, `context_storage_tail` | `ContextStorageProofs` |
| `HwModem` | `hw_modem/src/*.c` | `hw_modem` | `HwModemProofs` |
| `Wire` | the readers and writers of `pb_decode.c`, `pb_encode.c` | `serialization` | `SerializationProofs` |
| `PbMessages` | `smtc_rac_context.pb.h`, the encoder | `serialization` | `SerializationProofs` |
| `PbDecode` | the decoder, a step per field | `serialization` | `SerializationProofs` |
| `RacContext` | `rac_context_converter.c` | `serialization` | `SerializationProofs` |
| `Serialization` | a message from sender to receiver, composing the four | `serialization` | `SerializationProofs` |
| `SerializationInvariants` | the predicates its invariants are made of | - | `SerializationProofs` |
| `Samples` | one record per sample with a button | `standalone` | `StandaloneProofs` |
| `SampleLoop` | the main thread of such a sample | `standalone` | `StandaloneProofs` |
| `PortingTests` | `porting_tests/src/main.c` on a port, right or wrong | `standalone` | `StandaloneProofs` |
| `Standalone` | the image: a sample or the porting tests | `standalone` | `StandaloneProofs` |
| `ModemEvents` | `smtc_modem_helper.c`, the hooks and callbacks of six samples | `lorawan_apps` | `LorawanAppsProofs` |
| `EventLoop` | the main loop on a `k_event` | `lorawan_apps` | `LorawanAppsProofs` |
| `Multiprotocol` | `multiprotocol/src/main.c` | `lorawan_apps` | `LorawanAppsProofs` |
| `Flrp` | `flrp_api_lorawan/src/*.c` | `lorawan_apps` | `LorawanAppsProofs` |
| `LorawanApps` | the image: modem, callback and application, with resets | `lorawan_apps` | `LorawanAppsProofs` |

`MC*` modules give the constants the values the configurations cannot express.
Operators commented "Mutant" are the bugs the properties are meant to catch;
they are no part of any specification.

### 2.1 `ModemHal`

Each C statement another context can see is one action of the USP thread,
ordered by `pc`: `start_timer` stores the callback, stores the context, starts
the kernel timer; `enable_modem_irq` opens the gate, enables the pin, tests the
radio flag, clears it, calls, tests the timer flag, clears it, calls. Between any two
of these the timer ISR (`TimerHandler`), the event-pin ISR (`EdgeIsr` for
sx126x and lr20xx, `ToggleIsr`/`ToggleIsrEnd` for lr11xx) and the work item may
come in. A thread does not run while an ISR is in progress, and so the
lr11xx handler is split in two only with respect to the chip and the timer ISR.

The chip holds the pin active until its event is read or the operation is
aborted (`line`); an edge the pin is configured for is latched by the interrupt
controller (`latch`). The engine (external) serves what it was told about,
starts and stops timers, enters and leaves critical sections and aborts
operations in any order, but it never starts a timer that is running: that is
how its supervisor uses the call. `due` and `lastCall` are ghosts: the request
whose expiry is neither cancelled nor reported, and the last timer call.

`board` and `direct` choose the driver and its mode at start, so one run covers
all builds. The own-thread variant of the drivers is left out: `lr11xx_board.c:75`
uses a semaphore, `gpio_sem`, that the file does not declare, and it does not
compile. `disable_interrupt` has no caller.

### 2.2 `IrqGate`

Two sources; an event fired while the gate is open is noticed at once, one
fired while it is closed is held; held events are drained after the gate opens,
the radio's before the timer's; the gate closes again only when nothing is held.
`ModemHal` implements it with `open <- irqEnabled`, `noticed <- flags` and
`held <- Held`, where an event already taken from its flag and not yet reported
(`pc = "call_radio"` or `"call_timer"`) still counts as held.

### 2.3 `UspThread`

One thread runs `usp_main_thread`, any number run applications. `pc` has the
statements of the handshake (lock, test, wait, woken, relock), of an API call
(lock, call, possible sleep in the driver, unlock, wake the engine up) and
of the engine loop (lock, test of the modem, engine, callback with its second
lock, unlock, test of the IRQ flag, sleep). In the preemptive build any thread
may step next; in the cooperative one the thread that has the processor
(`cpu`) keeps it until it blocks, and `rac_api_mutex` does not exist. The drivers wait for BUSY in
`k_usleep`, so an API call and the engine may block half way (`driver`,
`engine_driver`).

### 2.4 `RadioHal`

A command of the driver in its steps: wait until ready (which wakes a sleeping
chip and waits for BUSY), first transfer, the second transfer of a read, the update of
`radio_status` after a sleep command. The chip (external) is busy for some
ticks after each command and after a wake-up, and may hang. `Families` chooses
the driver; they differ in when they assume the chip sleeps. The uptime the driver
reads takes `Wrap` values and wraps as `k_uptime_get_32` does.

### 2.5 `ContextStorage` and `ContextStore`

A store walks the pages of its range: read the page, fill the data in,
erase, write back. The store-and-forward context is written without
read-modify-write, padded in front to the write block. A reset may come between
any two flash operations and after any write block of a write. A buffer
is one value for all its bytes; addresses, sizes, pages and padding are
kept. `ContextStore` states the promise: a store changes only the bytes it was asked
to change; after a reset in the middle of one the bytes it has erased are of one page, and
some of the bytes it was asked for may have their new value. The refinement counts the
page buffer of an erased page as the content of that page.

### 2.6 `HwModem`

The COMMAND ISR is two actions, one for each of its two reads of the pin; the
main loop does not run in between, the host does. `hw_modem_process_cmd` is
split at the statements the ISR can see: execute, ready, command taken, BUSY,
answer. A frame is two pieces labelled with their command, so that a truncated
frame, extra data and a mixture of two commands can be told apart; a buffer that is
not exactly one frame is answered with a frame error, an empty one not at all. `uart_irq_update()`,
a driver call after which `hw_modem.c:273` would leave the reception closed, is taken to succeed. The last piece
may still be in the UART when COMMAND is released. The host (external)
is of two kinds: patient, which asks again only when BUSY is high and
it has its answer or none is to come, and retrying, which asks again whenever the answer takes too long.

### 2.7 `Wire`, `PbMessages`, `PbDecode`, `RacContext`, `Serialization`

A number of w bits is the set of the positions of its one bits, so that shifts, masks and casts
are set operations and 64-bit values keep their width; a message is
a function from the paths of its fields, and a message type the sequence of its
fields. `PbDecode` is the loop of `pb_decode_inner`: the calls that are open,
one per submessage, are a stack (`frames`), and each step reads one tag and
its field, or closes a call, or refuses. The encoder is a recursive function: the bytes of
a message from each place in it on, a place being a message inside it and the tag of the
next field. It writes to no stream of its own; `Encoded` says whether the bytes
fit the stream the caller gives. The two conversions of every
part are operators; what a conversion may leave to chance, as a float that is out
of the range of the integer it is converted to, is a set of results.

`Serialization` takes a message (`message`: a native context or result converted and
encoded, or a message of another host), damages its bytes (`fault`: none, cut
after any byte, one bit flipped anywhere, unknown fields of every wire type, a second
message behind it), decodes it and converts it into the native structure of the
receiver. The host and the command parser, which calls these functions, are
external: both ends are given the same code. Five assumptions say what the constants are:

* `ContextsAssumption`: a host asks for LoRa contexts, the only modulation that is converted,
  with enumerators of the native enumerations, numbers of the native widths and a payload of at most
  255 bytes, the most that a LoRa packet holds and that the converter takes.
* `ResultsAssumption`: the size announced fits the buffer received, the return code is one of the
  enumeration, and the distance of a ranging has at most 24 significant bits. A float holds
  those exactly; 24 bits are 16,777 km in metres, and greater ones are rounded.
* `NativeAssumption`: the receiver's transaction has its eight parts and a buffer of 255 bytes.
* `MessagesAssumption`: what is sent, by this code or by another host, has values of the types of
  its fields, and nothing in a submessage that is absent.
* `UnknownAssumption`: an unknown field is well-formed and has a tag that no message has.

The compiled messages have no repeated, oneof, required, extension, pointer or
callback field, and those paths of nanopb are left out. Four facts of
the conversion are kept as the code has them: the generated bytes field
(`data_size`, 258 with its length) takes 256 bytes, and only the converter's test for more
than 255 refuses them; the `has_` flags of submessages are not looked at when a
context is converted from a message; a result of a ranging sets `valid` and never
`has_ranging_result`; `cad_enabled` is not converted. An enumerator of a CAD context that is none of
the native ones, for which `rac_convert_cad_context_to_pb` returns false (`rac_context_converter.c:836-860`), is
mapped to a default: `ContextsAssumption` has none. A field that is
copied without a cast is given the width of the message's.

### 2.8 `Samples`, `SampleLoop`

Fifteen samples share a skeleton: configure the button, initialize, then serve a
press, run the engine or leave it to the USP thread, and sleep on binary
semaphores. `Samples` says what each puts in: the builds its loop is written for,
the calls of each list, whether the debounce compares a signed difference,
whether a bounce wakes the thread as well. In `SampleLoop` the main thread is
preempted between any two of its calls by the button, the radio and the clock, which wraps.

### 2.9 `PortingTests`

Each test is the list of what it does, in order: clear flags, start the
timer, disable interrupts, wait, compare. One step of the main thread does one
item; the timer interrupt, the radio's callback (its first statement and its last apart,
as main polls the flag that is set first) and time come in between. `Boot` chooses the port:
a right one, or one with one function that does not do what the tests'
documentation lists (`Faults`). Time passes only in waits, in units of
which a timer has `T`; the delay of an interrupt is up to `Margin`. The 5 ms a test waits
before it starts are left out. A sleep of the wrong length is only a warning in the code, and passes.

### 2.10 `ModemEvents`, `EventLoop`, `Multiprotocol`, `Flrp`, `LorawanApps`

The modem is external: it joins, sends, scans, raises events, calls its callback in
the thread of its engine, and forgets all but its stored settings at a reset. The
callback is `modem_event_callback` with the sample's hook, or the sample's own; it
reads one event per step, until none is pending. The modem raises events only between two runs of its
callback, in the same thread; but the hook may start what raises more. A push of
the button in `lctt_certif` and `geolocation` is two or three steps, as its handler sets
its own variable and calls the modem apart.

`EventLoop` is the loop of the two samples on a `k_event`: wait for a bit, copy
the bits, serve each in the order of the code, clear those it copied. `unserved` is a ghost: a
request enters it when it is raised and leaves it only when it is served (or with a reset), so a request that
`k_event_set()` replaces or `k_event_clear()` drops stays in it and shows.
`Multiprotocol` and `Flrp` add the shell commands (in
steps where they write two variables, as the shell is another thread), what the
loop does for each bit, the downlink with its commands, and the library's
callbacks. The FLRP library is external: it is assumed to refuse initialization and
transfers exactly while one is under way. The build option that applies a default
configuration may differ after a reset; keys, device identifiers and
the transmit counter are abstracted.

Which thread runs what: `CONFIG_USP_MAIN_THREAD` is off in `geolocation`,
`spectral_scan` and `rf_certification`, on in `multiprotocol` (main
cooperative at -2, engine at -4) and in `flrp_api_lorawan` (main preemptible at 3,
engine at 1); the model lets the steps interleave where one of these settings does.

## 3. What the runs check

| Run | States | Question | Answer |
|---|---|---|---|
| `modem_hal` | 113,792 | Over every interleaving: is every interrupt noticed or held, nothing left held when the gate is open, callbacks paired with contexts, every event served? Does the HAL implement the gate? | yes |
| `modem_hal_toggle` | - | Does the lr11xx handler keep every radio event? | no |
| `usp_thread` | 57,919 | Does the mutex exclude in the preemptive build, is no wake-up lost, does nobody sleep with a lock, does the handshake end, is every request served in both builds? | yes |
| `usp_thread_cooperative` | - | Is the cooperative build exclusive without a mutex? | no |
| `radio_hal` | 87,090 | Is `radio_status` right, does a transfer start only when ready, does only a hung chip cause a panic? | yes |
| `radio_hal_wrap` | - | Does the wait for BUSY last its time-out when the uptime wraps? | no |
| `context_storage` | 19,567 | Does a store write its bytes and no others, across pages, padding and resets? | yes |
| `context_storage_tail` | - | Is a padded write always aligned? | no |
| `hw_modem` | 52,330 | Is a host that waits for BUSY answered its own command, once, does the modem keep taking commands, does it sleep on none, does no host overflow the buffer? | yes |
| `serialization` | 23,046 | Does every field at its boundaries, every enumerator and every payload length arrive as sent; is a cut message refused or a prefix; do the conversions invert; does a refusal leave the payload, the results and the schedule alone? | yes |
| `standalone` | 205,459 | In fifteen samples and their builds, is a press forgotten or slept on, is the debounce right where the clock wraps? Do the porting tests find a wrong port, blame no right one, and end? | yes |
| `lorawan_apps` | 1,960,318 | In six samples with a modem, do the chains of alarms and scans go on, is no request served twice, does no transmission start from a buffer not filled for it? | yes |

### 3.1 The four that fail, and what else does not hold

* **The lr11xx handler can miss an event** (`modem_hal_toggle`). It reads the
  pin, then selects the opposite edge (`lr11xx_board.c:69-88`). If the pin
  changes in between, the edge it waits for is past; no later event
  can be seen until `enable_modem_irq` configures the pin anew. The other drivers
  wait for the active edge at all times and are proved to keep every event.
* **Two cooperative threads in one library** (`usp_thread_cooperative`).
  `doc/THREAD_MANAGEMENT.md:28` calls the mode "safe by design"; the lr11xx and
  sx126x drivers sleep inside an API call while they wait for BUSY.
* **The wait for BUSY ends at once near the wrap** (`radio_hal_wrap`).
  `end = k_uptime_get_32() + TIMEOUT` wraps before the uptime does, and the
  driver panics with a chip that is ready (`lr11xx_hal.c:57`).
* **A padded write that is still not aligned** (`context_storage_tail`). Only
  the front is padded (`smtc_modem_hal_storage.c:208-224`); the flash refuses the
  write and its result is not looked at.

Eight more properties that one would expect, most of them from a document or a comment, do not hold either. They
have no run of their own. Each is stated by a definition, which the specification of its module violates when the
definition is added to the run's configuration (without `VIEW`); none is a part of a property that passes.

* A stopped timer still fires. `smtc_modem_hal_stop_timer` leaves
  `prv_modem_irq_pending_while_disabled` set, so an expiry held in a critical section is
  delivered after the stop, or to the callback of a request started since. The porting
  tests take an interrupt after a stop for a failure
  (`porting_tests/src/main.c:1160`, `:1201`); `NoStaleTimerCall` of `ModemHal` states it.
* A command dropped by the hardware modem. Between
  `is_hw_modem_ready_to_receive = true` and `hw_cmd_available = false`
  (`hw_modem.c:342-343`) a short pulse of COMMAND starts and ends a reception in one
  interrupt, and the second statement forgets it, though the comment says the modem "can
  accept new commands". BUSY is low there, so a host that waits for
  BUSY is safe, which `hw_modem` shows; `AcceptsNewCommands` of `HwModem` states the other.
* A press lost to the next request. `k_event_set()` replaces the bits that are set. `RequestsHeld` of
  `LorawanApps` counts only a press or command that would start a ranging test: the
  manager's mode is set and no exchange runs. `multiprotocol/README.md:4` says a test starts "whenever
  the USER button is pressed or triggered by the shell". It takes a main thread that is
  busy when both come, as with `CONFIG_USP_MAIN_THREAD` off, where it runs the engines as well.
* A press cleared unserved. `k_event_clear( &main_loop_event, event )` comes after the bits were served, and a
  press in between goes with the one that was served (`multiprotocol/src/main.c:558`): `ClearsServedOnly` of
  `LorawanApps`. An exchange may have been started by the first; the second is not even handed on.
* A mode that is not the one in force. The shell tests `is_mode_set`, which the loop sets later; a
  second command half-way when the loop serves the first writes its role and priority after the ranging
  application was initialised, though the comment at `main.c:148` says it "Can be set once by user":
  `ModeKept` of `Multiprotocol`.
* FLRP initialised twice. The INIT downlink does not look at `is_device_eui_set` (`flrp_remote.c:217`), though
  `flrp_api_lorawan/README.md:115` says "Can be received only once after boot": `SetOnce` of `LorawanApps`.
* A device set that was not started. `cmd_set_device_eui` ignores what `flrp_api_init` returns
  (`flrp_api_menu.c:270`). When the library refuses, because a reception is under way, and an INIT downlink it also
  refused has left other options in the menu, the device counts as set while FLRP has the old ones, though
  `README.md:68` says the command "Initializes FLRP and starts periodic listening": `StartedAsShown` of
  `LorawanApps`. That the library, which is external, refuses then is an assumption of the model.
* A time test that starts again for nothing. The radio callback sets `radio_irq_raised` before it asks the chip why
  (`porting_tests/src/main.c:1890`, `:1860`); main polls that flag and then tests `irq_rx_timeout_raised`. The
  comment at `:849` says the test is relaunched if the interrupt was another than the time-out:
  `RelaunchesRight` of `Standalone`. The late flag falls into the new attempt.

The other limits of what is checked have no definition:

* The time tests of the porting tests may fail on a right port: the seconds are compared
  without a margin. `VerdictsRight` excepts them, and the draw of random numbers, which may fail by chance.
* The FLRP buffer of a transmission under way. `flrp_api_initiate_rx` erases it before the
  library refuses the reception (`flrp_api.c:182`). `TxStartsFilled` is about the start of a transmission;
  when the library has read the buffer nothing here says.
* A refused request. When CAD or the payload is refused, the radio parameters, LBT, CW and part of
  CAD have already been overwritten (`rac_context_converter.c:965-980`); `RefusedKeepsTransaction` is about the payload,
  the results and the schedule.
* A reset inside a store may lose all the contexts that share the page in hand. `ContextStore` allows it: the harm is
  bounded, not excluded.
* Seen in reading, and outside of the properties: `flash_area_open` may fail and leave a NULL that is
  dereferenced (`smtc_modem_hal_storage.c:252`); a `k_event` is handed to `k_poll` as a
  signal (`smtc_sw_platform_helper.c:232`); the uplink counter of
  `periodical_uplink` is written by two threads; `set_per` truncates to
  8 bits before it tests for more than 100 (`flrp_api_menu.c:487`).

### 3.2 Bounds, and why they are enough

* `ModemHal`: two timer requests, since the properties relate one request to the
  one before it; both kinds of handler, direct and deferred. Nothing else is
  bounded: all other state is finite.
* `UspThread`: two applications, both modes, with and without the modem. Two
  applications contend with the engine for the mutex and are enough for one to
  be waiting on the condition variable while another enters. The semaphore is
  binary and the requests are sets, so nothing is cut off.
* `RadioHal`: `Timeout` 4 ticks and `MaxBusy` 3, so a busy chip always beats the
  time-out and a hung one never does. `Wrap` 32 with `Horizon` 26 keeps clear of the wrap, to
  separate the rest from it; `Wrap` 16 with `Horizon` 20 crosses it. The run stops where the clock
  reaches the horizon or the driver panics, so deadlock is not checked there.
* `ContextStorage`: pages of 4 bytes, write blocks of 2, the first four contexts
  one byte apart in one page, two pages for each of the others; stores of 1 and
  3 bytes, which end at, start at and cross a page boundary. Two stores let one context
  overwrite, precede or follow another. In the passing run the
  store-and-forward stores have 1 byte: padded, they fill a write block whatever
  their address. Larger ones are the subject of the failing run.

* `HwModem`: two commands, so that one can be mistaken for the other; frames of
  two pieces and a buffer of three, so that truncated, extra and mixed frames
  exist and the buffer can be full. Nothing else is bounded.
* `Serialization`: no small widths: numbers, payloads and messages have the sizes of the
  code. Each field takes its least and greatest value and single bits on its
  own, with all the others at the least; one context has all at the greatest. Two
  contexts and one result, which between them hold every kind of field, are damaged
  in every position. `EnumBits` 8 is the width compilers give these enumerations
  when they pack them; the values read the same from 8 bits on.
* `Standalone`: `TimeWrap` 8 and `Debounce` 2, so that half the range of
  the clock is more than the debounce and the clock wraps several times. `T` 6 and
  `Margin` 1, so that on time, late and too late differ; random numbers are below 6.
  All fifteen samples and all ten ports are in the run. A sample may return from its main
  and the tests end, so deadlock is not checked.
* `LorawanApps`: all six images; two priorities and two sets of
  options, so that one can be mistaken for another. `multiprotocol` and
  `flrp_api_lorawan` raise only the events their hooks handle. Nothing else is bounded. `MCView` of the
  passing run leaves out the last event the callback has read once it has served it, which it writes
  again before anything reads it.

### 3.3 Fairness, and why the code justifies it

* `ModemHal`: interrupts, work items and the statements of a call in progress
  run to their end; the engine leaves every critical section and serves what
  it has been told (its loop runs once for each wake-up). `SF` for thread
  steps, because ISRs disable them again and again. Nothing forces the
  radio or the timer to raise anything.
* `UspThread`: `SF` for each thread, because a mutex may be taken by another
  between two attempts, while the kernel hands it to the most urgent
  waiter on release and so passes nobody over for ever. The short nap
  before the modem is initialized ends on its time-out; nothing is assumed of
  the time-out of the main sleep, so a lost wake-up would show as a request
  never served.
* `HwModem`: the main loop (`SF`, as ISRs interrupt it) and the interrupts run;
  the host releases COMMAND some time after BUSY told it to send, and goes on when
  BUSY is high and no answer comes. Nothing is assumed of the time-out of the
  sleep, nor that the host ever asks.
* `Standalone`: the main thread of a sample runs when it can (`WF`), since
  interrupts are short and the kernel returns to it. Nothing is assumed of the button, the
  radio or the time-out of a wait, so a press that is served only by the time-out
  would show. Of the porting tests the main thread runs and the clock goes on, with
  what the chip and the timer owe it; a port that loses an interrupt is not helped.
* `LorawanApps` and `Serialization` have safety properties only, and no fairness.

## 4. What is proved

Each component with theorems has a module `*Proofs` that states an inductive
invariant, proves it (`Inductive`: `Init` implies it, and every step keeps it, one proof
step per action), and reads the properties off. All of them start from the assumptions
on the constants that the models state, and where a theorem needs one more it says so
in its `ASSUME`. These invariants were checked by TLC as well, on the instances of section 3.
The serialization has three invariants instead of one, `Transfer`, `Received` and `Converted`, each
inductive, stated in `SerializationInvariants`; what its run checks are the properties read off them.

| Theorem | Says | Besides the assumptions on the constants |
|---|---|---|
| **`ModemHalProofs`** | any timer requests and boards | |
| `TypeCorrect` | `Spec => []TypeOK` | |
| `Inductive` | `Spec => []IInv` | |
| `GateDrained` | `Spec => []OpenMeansDrained`: outside a critical section nothing stays held | |
| `RadioEventsKept` | `Spec => []RadioEventKept`: no event of an edge-only driver is forgotten | |
| `ExpiriesKept` | `Spec => []ExpiryKept`: no expiry is forgotten | |
| `TimerCallsPaired` | `Spec => []CallsPaired`: no NULL call, no foreign context | |
| `ImplementsGate` | `Spec => GateSpec`: the HAL, statement by statement, implements `IrqGate` | |
| **`UspThreadProofs`** | any number of applications, both threading models | |
| `Inductive`, `TypeCorrect` | `IInv`, `TypeOK`; the mutex is locked twice at most | |
| `MutualExclusion` | `Spec => []ProtectedExclusive`: in the preemptive build those who use the macros exclude one another, whatever those do who do not | |
| `ApiExclusion` | `Spec => []ApiExclusive`: no two threads in the libraries | everybody uses the macros (`Unprotected = {}`) |
| `SafeSleep` | `Spec => []SleepsSafely`: no wake-up lost, no sleep with the mutex in hand | |
| `HandshakeCompletes` | `Spec => []InitHandshake` | |
| **`RadioHalProofs`** | three drivers, any time-out, any range of the uptime | |
| `Inductive`, `TypeCorrect` | `IInv`, `TypeOK` | |
| `StaysInStep` | `Spec => []InStep`: `radio_status` is right, no transfer before the chip is ready | |
| `PanicsNearWrapOnly` | `Spec => []OopsOnlyNearWrap`: with a chip that does not hang, a panic only in a wait whose end lies beyond the wrap | |
| `PanicsIfHungOnly` | `Spec => []OopsOnlyIfHung` | the uptime has not wrapped (`Horizon + Timeout < Wrap`) |
| **`ContextStorageProofs`** | any layout, page, write block, sizes and values | |
| `Inductive`, `TypeCorrect` | `IInv`, `TypeOK`: no flash operation leaves the area, no copy the page buffer | `SafFits` |
| `RestoredIfTaken` | `Spec => []TakenIsRestored`: what is stored is restored, unless the flash refused the write | `SafFits` |
| `Restored` | `Spec => []StoredIsRestored` | `SafFits`, `SafAligned` |
| `Refinement` | `Spec => StoreSpec`: the storage implements `ContextStore`, resets included | `SafFits` |
| **`HwModemProofs`** | any commands | |
| `Inductive`, `TypeCorrect` | `IInv`, `TypeOK`; the buffer does not overflow, whatever the host does | |
| `StaysAlive` | `Spec => []NeverStuck` | |
| `HonestBusy` | `Spec => []BusyHonest` | |
| `AnswersTheCommand` | `Spec => []OwnAnswer` | |
| **`StandaloneProofs`** | any of the samples, any range of the clock and any times | |
| `LoopInductive`, `TestsInductive`, `TypeCorrect` | the two inductive invariants, `TypeOK` | |
| `KeepsPresses` | `Spec => []PressKept`: no press is forgotten or slept on | |
| `DebouncesByElapsed` | `Spec => DebounceByElapsed`, an action property | |
| `TellsRightFromWrong` | `Spec => []VerdictsRight`: a wrong port is found, a right one not blamed | |
| **`LorawanAppsProofs`** | any of the samples, events, priorities and options | |
| `Inductive`, `TypeCorrect` | `IInv`, `TypeOK` | |
| `KeepsServices` | `Spec => []ServicesKept`: alarms, scans and services go on, over resets | |
| `ServesOnce` | `Spec => []ServedOnce`: the loop serves no request that was not raised since it last served it | |
| `SendsFilledOnly` | `Spec => TxStartsFilled`, an action property | |
| **`SerializationProofs`** | any contexts, results, messages of other hosts, damage and unknown fields | |
| `TransferInvariant`, `TypeCorrect` | `Transfer`, `TypeOK`: whatever bytes arrive, the decoder fills in fields of the message only, in values of their types | |
| `ReceivedInvariant`, `RoundTripHolds` | `Received`, `Spec => []RoundTrip`: what is sent is received, also among unknown fields and before another message | |
| `TruncationIsClean` | `Spec => []TruncatedIsPrefix`: a cut message is refused, or is a prefix with defaults behind it | |
| `EncodingFits` | `Spec => []EncodedFits`: what is converted fits the size declared for its message | |
| `ConvertedInvariant`, `RefusedKeeps` | `Converted`, `Spec => []RefusedKeepsTransaction`: a refusal leaves the payload, results and schedule alone | |
| `ConversionsInvertHolds` | `Spec => []ConversionsInvert`: the context asked for is the one executed, the results are those read | |

### 4.1 The arguments

*`ModemHal`.* The properties alone are not inductive. `OpenMeansDrained` needs
to know how far `enable_modem_irq` has come: `DrainsInOrder` says that from the point where
the gate opens each flag is empty once it was looked at, because from then on
handlers find the gate open and no longer set it. `CallsPaired` needs
`TimerConsistent`: the timer is not running, and none of its expiries is to be delivered through a
NULL callback, while the two stores of `start_timer` are under way; this rests on the
callers' never restarting a running timer. `RadioEventKept` needs `RadioTracked`: an
edge-only pin waits for the active edge from the moment the driver is attached,
and an abort leaves the pin inactive before the HAL forgets the event.
The gate's steps are then read off: `DisableModemIrq` is only reached with
nothing held, by `DrainsInOrder`, and `CallTimerPending` drains the timer with
the radio's event gone, by the same.

*`UspThread`.* `Notified` ties the flag of the handshake to how far the USP thread has
come: once it has broadcast nobody is left on the condition variable, since the flag was
set under the mutex that a waiter holds between its test and its wait. `MutexHeld` ties the owner of
`rac_api_mutex` to the places where a thread is inside the libraries, with a count
of two exactly in the engine's callback. `WakeUpOwed` says who will still wake the engine for a
request: the engine on its way to the test, the semaphore, or the application between its
call and its wake-up. Nothing about the number of applications is used.

*`RadioHal`.* `Ordered` says what a call may still have to do (every transfer comes after
a check, `SET_SLEEP` last), `Tracked` what `radio_status` and the chip are at each
statement. For the panic, `WaitBounded` bounds the time a wait has lasted by what the chip has used of
`MaxBusy`, and `EndOfWait` gives the end of the wait from its start; the end is
passed early only if it has wrapped, from lemmas on sums modulo `Wrap`.

*`ContextStorage`.* `Filled` says what the page buffer holds between read and write,
`Written` that the pages before the one in hand hold their part, `Padded` that the padding of a
store-and-forward write is what the flash holds already, so that it changes nothing. The rest is
arithmetic of pages and write blocks for any size of them, from a few lemmas on quotients
and remainders. `SafFits` says that a store-and-forward store fits in the page buffer with the padding in
front of it: the code copies it there without looking, and how much is stored at once is the
modem library's choice. `SafAligned` says that padding the front always makes the end
aligned as well; the code does not see to it, and `context_storage_tail` shows what
happens otherwise. `RestoredIfTaken` does without it. For the refinement each step
of the code is mapped to a store's start, a change of bytes it was asked for, its
end, a loss, or a stutter: the write of a page restores what the erase
has lost, and the padded write leaves the bytes of the padding as they were.

*`HwModem`.* With a patient host an exchange is in one of seven phases, from `Resting` to
`Answering`, and each has its own state of the lines, the flags, the
buffer and the interrupt. The three properties hold in every one of them.
`NoCommandAsleep` holds for either kind of host: the main loop tests `available` before it sleeps, and
whoever sets it gives the semaphore.

*`Standalone`.* `Tokens`: a press that is not served has left its token
wherever the loop is not just about to look at the flag, because the loop takes the token
first and clears the flag next. `Clocked`: up to half the range of the clock, the difference of two
readings is the time that passed. `TestsInv` goes through the twelve tests: for each, what
the port with each fault can have made of the timer, the radio, the gate and the
flags at each item; in `Verdicts`, a fault has been found when the test of its place is over, and the
right port has failed nothing but the three tests the property excepts. One lemma per
item of a test shows that the item keeps it.

*`LorawanApps`.* `AlarmServed` and `PressServed` say what the callback and the button still owe: between the
joining and the alarm there is an event to be read, and the certification sample reads none while
its button is being served. `LoopServed` says that a bit that is set though nothing asks for it
any more is one the loop has copied and served, and so will clear before it copies again. `BufferOf` says that a buffer waiting to be sent is
filled, or the library is busy and refuses. That the modem raises `RESET` after a reset
under every sample is an assumption on the constant `Raises` (`ImagesAssumption`), as the modem raises it always
and every hook and callback handles it.

*`Serialization`.* No induction theorem with an operator for a parameter can be used here, so the
induction over data is done with sets: a set of naturals that holds a number whenever it holds all
smaller ones is all of them (`StrongInduction`, from the well-foundedness of the order).
The proof has nine parts.

1. *Values.* Each reader reads back what the writer of its type writes, and leaves the bytes behind it:
   a varint of any number of groups, a sign extension, four bytes of a float, a string with its size.
   A number being a set of positions, masks and shifts are set algebra at any width.
2. *Messages.* The fields of the compiled messages, their paths and their nesting, to the depth
   they have. Distinct fields have distinct paths, and a path says which message it is in.
3. *Streams that end too soon.* What is read of a value or a field when any number of its last bytes is missing:
   the same, or a refusal.
4. *The encoder.* Its recursive function has a solution, by well-founded recursion on a measure of
   the places; each field adds at most its tag and the most bytes its type takes.
5. *Types.* `Transfer`: the open calls are nested as the messages are, each stream is of bytes, the message
   filled in has values of the types of its fields. Nothing is assumed of the bytes.
6. *The decoder against the encoder.* `Follows`: the stream of each open call holds the bytes of the message
   from its next field on, then what follows the call, less what is cut off; the fields it is past are as sent,
   the others as they were. Each step of the decoder keeps this, for the message that was sent,
   with `base` being the defaults, or, for a second message, the first one. `Arrival` combines it
   with the faults. A message with a flipped bit is outside of it: there only `Transfer` is known.
7. *Conversion.* `Converted`: the transaction is as it was, or is what one conversion of what has been
   decoded makes of it. The three refusals, of another modulation, of CAD parameters and of too
   long a payload, come before the buffer, the results and the schedule are touched.
8. *Sizes.* Field by field through the nesting: a request takes at most 732 bytes of the 772 declared,
   an answer at most 337 of 338.
9. *Conversions.* Every enumeration comes back, by its values. A number comes back through its casts, because
   the sign extension of one side is undone by the narrower type of the other; a distance
   or an RSSI comes back from its float's sign, exponent and fraction, the least number, which is
   its own opposite, included. Each part of a message is read at the paths it was put at, and no later part
   touches them.

### 4.2 Only model-checked

Liveness under fairness (`EventsServed`, `RequestsServed`, `CommandsServed`,
`PressesServed`, `WaitsEnd`), which is beyond the prover. Every other property of a passing run is
a theorem.

## 5. Not modelled

* External: the RAC, LBM, FLRP and USP application libraries, the kernel, the flash driver,
  the radio chips, the host of the hardware modem and its command parser. They appear as what
  the code here makes of them.
* No state to check: formatting, logging, LEDs, calibration tables, board support.
  `rac_api.pb.c` is not compiled. Battery, temperature and firmware versions forward to a callback.
* The crash log: three variables that survive a reset. Who reads them and resets the
  flag is in the modem library, so what a half-written log leads to is not in this repository.
* Context storage: the size queries and the user-storage variant forward to callbacks.
* Event pin: the own-thread variant of the drivers, which does not compile, and
  `disable_interrupt`, which has no caller.
* Waiting helpers: the wait on a semaphore and an event (see 3.1).
* `rf_certification` configures its button after its initialization, which the skeleton puts before it.
* Geolocation: the almanac update, a program without a loop that writes the almanac once.
* FLRP: keys, `cmd_set_target`, the hexadecimal parser, the PER, the display.
* Porting tests: the endurance sweep and the flash test, which are built on request only; the
  flash test calls functions this port does not have.
* Nanopb: the paths of field kinds the compiled messages do not have (2.7).

## 6. Plan

Done: all modules of the table in section 2, their runs, and the proofs of section 4.
Next: the composition of `ModemHal` with `UspThread`, from the interrupt to the engine's sleep.
