# A model of the Baiatool firmware

Baiatool is the firmware of an ESP32 board (Zephyr) that guards a shared
workstation: a reservation server says whose turn it is, the board keeps the
current session, saves it to flash and shows it with an LED. This directory
holds TLA+ models of the firmware, their TLC instances and TLAPS proofs. Paths
below are relative to the firmware's repository.

## The system

| Component | State it keeps | Operations | Hard behaviours | What makes it correct |
|---|---|---|---|---|
| **Storage** `src/components/storage.c` | one NVS object per id, in flash | read, create, update (= delete, then create), delete | no lock over the NVS calls of one operation; failing calls; a restart between delete and create | an object is lost only where the code says so; concurrent updates leave the object of one that succeeded |
| **Schedule service** `src/services/schedule.c` | `schedule_cmd_chan`, `schedule_state_chan`, the copy in flash | FIRST_USE, EXTEND_TIME, END_USE, LOAD | listeners run in the publisher's thread under one channel's lock and take a second one, release it and take it again; every wait may time out | a session is its user's until he ends it; of the reservations the earliest stays; flash follows RAM; publishers return |
| **User ids** `includes/services/schedule.h`, `src/endpoints/schedule.c` | a fixed array in every message | compared with memcmp, by first byte, printed as a string | the three comparisons disagree on what follows the NUL | a refused user is another user |
| **LED service** `src/services/led.c` | the current command, a timer, a work item, three pins | OFF, SOLID, SLOW, FAST | thread, timer interrupt and system workqueue share pins and flags without a lock; a bounded notification queue | never two colors; the last command is the one executed |
| **Wi-Fi service** `src/services/wifi.c` | `wifi_cmd_chan`, `wifi_state_chan`, `current_state`, credentials in flash | CONNECT, CONNECT_WPS, DISCONNECT, auto-connect | three threads report the state in two unlocked steps; commands coalesce; a WPS exchange publishes a command of its own | the reported state, FAILED apart, is that of the connection or of an attempt; a connect does not meet the HAL that a WPS success left on |
| **WPS driver** `src/drivers/esp32_wps.c` | `wps_wifi_started` | start, stop, intercepted events | start, stop and events in two threads on one flag | a running HAL is never forgotten |
| **Button** `src/action/button.c` | a work item | press | its handler waits in the system workqueue | (a client of the Wi-Fi service; blocks the LED's work item) |
| **SNTP service** `src/services/sntp.c` | `sntp_time_chan` | sync and retry while connected | notifications are coalesced, dropped while it retries, and a read may time out | a board that stays connected gets the time of after the last CONNECTED |
| **Endpoints** `src/endpoints/*.c` | none between calls | fetch, confirm, checkout, diagnostic | the state is read, unlocked, then posted; responses are lost or late | what the board holds the server has booked; what was acknowledged as ended is over |
| **Reservation server** `scripts/UI/app.py` | schedules, events, the last diagnostic, in memory | register, confirm, cancel, end, extend, reads | a thread for each request; only register takes the lock | no registration, at the same time or later, makes an overlap |
| **Settings** `src/components/settings.c` | none | read two objects | updates, which delete first, between and during the reads | what is returned was stored; a torn pair takes two writes |
| **RFID service, MFRC522 driver** `src/services/rfid.c`, `src/drivers/mfrc522` | the last id read | poll, read an id, publish | cards come, go and answer at once; an id is put together over three levels; a read fails half way | a tag is that of one card that is there; a card left alone is read |
| **Shell** `src/shell/*.c` | a socket while a command runs | the commands that call all of the above | five places to fail between the look-up of a host and the request | every command gives back what it holds, and returns |

How they interact. Every service talks over zbus channels: a publish locks a
channel, copies the message in, runs the channel's listeners synchronously with
the lock held, or queues a notification for a subscriber, which later reads
whatever message is then the latest. The schedule service calls Storage from
inside a listener; the Wi-Fi service calls the WPS driver and Storage; the SNTP
service subscribes to the Wi-Fi state; the endpoints read the schedule state and
publish LOAD commands. Only the shell's thread calls the endpoints, and nothing in
the firmware publishes FIRST_USE, EXTEND_TIME or END_USE yet; the server's page
only registers. The button publishes on the Wi-Fi command channel from
the same workqueue that the LED's work item waits in.

`PROJECT.json` lists the hazards of this code line by line with the properties
that cover each.

## The modules

| Module | Models | Uses |
|---|---|---|
| `Storage` | `src/components/storage.c` | |
| `UserId` | the id arrays | |
| `Workstation` | the abstract promise of the schedule service | |
| `ScheduleService` | `src/services/schedule.c` | `UserId`, `Storage` (INSTANCE), `Workstation` (refinement) |
| `Led` | `src/services/led.c` | |
| `EspWps` | `src/drivers/esp32_wps.c` | |
| `WifiService` | `src/services/wifi.c` | `EspWps` (INSTANCE) |
| `Sntp` | `src/services/sntp.c` | |
| `Rfid` | `src/services/rfid.c`, `src/drivers/mfrc522` | |
| `Settings` | `src/components/settings.c`, `src/endpoints/diagnostic.c`, the settings, diagnostic and http commands of `src/shell` | `Storage` |
| `Bookings` | the abstract promise of the reservation server | |
| `ScheduleStore` | the store and the routes of `scripts/UI/app.py` | |
| `Endpoints` | `src/endpoints` (fetch, confirm, checkout) and their commands, composed with the server | `ScheduleStore`, `Workstation` (INSTANCE), `Bookings` (refinement) |
| `MC*` | instances and statements of the repository that do not hold | their component |
| `StorageProofs`, `ScheduleProofs`, `LedProofs`, `WifiProofs`, `SntpProofs`, `RfidProofs`, `SettingsProofs`, `EndpointsProofs` | theorems | their component, TLAPS |

Definitions preceded by "Mutant:" are broken variants of the code's definitions.
No specification uses them; each shows, put in place of the definition after it,
that some property would notice.

**Storage.** `nvs` is flash, `pc[t]` the NVS call thread `t` makes next, `call`
the operation it is in and `ret` its result. NVS takes its own mutex, so one NVS
call is one action (`Fetch`, `Look`, `Erase`, `Probe`, `Write`); everything
storage.c computes between two calls belongs to the action of the first.
Objects are model values; lengths are left out, and so is the probe of create
that reads `data_len` bytes into a pointer (storage.c:71), which is a matter of
memory and not of the protocol.

**ScheduleService.** `cmd` and `state` are the messages of the two channels,
`cmdLock` and `stateLock` who holds them, and `at[p]` how far publisher `p` is
in `zbus_chan_pub`: `Publish` (lock and copy), `Claim`, one action per command,
each with the `zbus_chan_finish` that follows, `Notify`, `Save` (one NVS call of
the update, a step of `Storage`), `Saved`, `Return`. The three timeouts are
actions of their own. `unsaved` is a history variable: why flash may differ from
the state. Minutes are natural numbers; the code has no clock (its TODOs say
so), and start times are those of the commands. The actions that stand for the
diverse users of the API are the publishers and the readers; which thread is
whose does not matter. The storage shell, which can write any object, is not a
user of this model's flash.

**UserId.** An id is a record: the C string, and whether the rest of the array
is zero. That is all memcmp, the first-byte test and `%s` can tell apart between
the ids clients pad with zeros and those `schedule_endpoint_fetch` copies out of
JSON text.

**Led.** Thread, timer and work item. The pin writes of the thread are one
action each; the work item is one action because the system workqueue is
cooperative and of higher priority: it runs whole before the thread's next step,
unless another item, the button's, has blocked the queue. Pin writes do not fail:
`gpio_pin_set_dt` on the on-chip GPIO cannot, so the early returns of `led_off`
(led.c:27-34, 63-68), after which `set_basic` would light a second color, are left
out. The notification of a publish and its unlock are one action, here as in
`WifiService` and `Sntp`: a subscriber that is woken between the two waits for the
unlock, and the publisher is not held up there for the 100 ms that the subscriber's
read waits.

**EspWps** and **WifiService.** Three threads: `cmd`, `net` and `esp`.
`publish_state` is two actions, the assignment (`Report`, joined to what
precedes it) and the publish (`Reported`), because another thread may run in
between. The driver's steps are the accesses to its flag and the HAL calls. The
HAL is external: whether it runs (`hal`), how far its WPS exchange is, and which
of its calls fail (all may). `stuck` and `lost` are history variables: whether an
`esp_wifi_stop` that failed has left the HAL on behind a clear flag (the driver's
next start ends that), and whether the last report was lost to a timeout of
its publish (`Timeouts`). Credentials are left out, and with them what is saved.

**Sntp.** Any sequence of messages on `wifi_state_chan` (`Publish`, `Notify`),
and the thread: `Wait`, the read (`Ask` or `BackToWait`, once after the wait and
once after the sleep), and the request (`Told` or `Failed`). The time is a flag,
`valid`; `asked` is a history variable that tells what became of the last
CONNECTED. The listener of `sntp_time_chan` is left out: it runs while the
publisher holds the channel, so its read fails and it does nothing.

**Rfid.** One exchange with the cards (`transceive`) is one action, and so is
`calc_crc`; the registers and the polls below it are an answer or none. The cards
are external and follow ISO 14443-3: quiet (idle or halted), selected up to a
level, or active; a command that a card does not expect makes it quiet. Equal
answers at once are one answer, different ones a collision, which the driver
takes for an error. With `noise` a command is lost for all cards (never for
some of them only), an answer is lost or hides the others, or SPI fails; damaged answers are taken to show in
REG_ERROR. Ids are sequences of bytes, and putting them together from parts with
and without cascade tag is modelled as the code does it. `woken` is a history
variable.

**Settings.** The shell's thread beside the threads of `Storage`: `shell` is how
far its command is, `held` the address list and the socket it has to give back,
`got` what it has read. `Socket`, `Options` and `Connect` are `connect_to_host`
of the two shells (only https has `Options`), `GetSchedule` and `GetNet` the two
reads, `Refused` what an error of one leads to. The read of an object is one NVS
call, as in `Storage`. `past` is a history variable: what flash held from the first
read to the last. Names that fail to resolve, and commands with wrong arguments,
change nothing and are left out; what a request answers is printed and forgotten,
so `Post` is one step whatever comes of it.

**ScheduleStore.** One thread per request (`Workers`), as Flask's server has them.
`book` is the list; reservations are named by the order they came in, and
`First` finds them in the order of the sorted list. `register` is `Lock`, one
`Compare` or `Refuse` for each reservation, `Compared`, `Insert` and `Sorted`;
confirm, cancel, end and extend are `Find` and the change (`Confirm`, `End`,
`Extend`), two steps without a lock; the read is `Offer` and `Quote`. `list.sort`
leaves the list empty for other threads until it is done, and calls a Python
function, where another thread may run: `Listed`. `_find` is one step: the list
only grows, and no request depends on when in it a reservation was looked at.
`waiting` are the threads whose client still waits; an answer to a client that
has gone is lost, and what the thread does is not. Times are natural numbers;
names are model values. `revived` and `shortened` are history variables: what a
late confirm brought back, and what a late extend took time from. The list of
events, the status page, `last_cmd` and the last diagnostic are left out: no
decision reads them.

**Endpoints.** The shell's thread sends one request at a time (`Ask`) and either
has its answer (`Hear`) or does not (`GiveUp`: five seconds, a broken connection,
a body that is not JSON). A request that never reaches the server is a command
that changes nothing; one that reaches it late is a thread that has not taken its
first step. `Load` is what the schedule service makes of a fetch: a step of the
abstract `Workstation`, to which `ScheduleProofs` shows the service to conform, or,
when the guard of LOAD or a locked channel says so, nothing. `Kept` is what a LOAD
keeps of a name: the server cuts names to 16 characters, the array has 15 bytes and
a NUL. The board and the server restart on their own (`BoardRestart`, `ServerFails`); the server forgets its book.
`origin` and `acked` are history variables. What a fetch puts in the id array
after the name is in `UserId` and `ScheduleService`.

**Bookings** is what a reader of the server's page may rely on: the book changes by
whole operations only, whatever threads are under way, and a registration is made
where every reservation that was neither extended nor brought back leaves room. Its
state is `book` and `revived` of the server; locks, requests and answers are gone.

## The runs

| Run | Question | Bounds |
|---|---|---|
| `storage` | Do concurrent operations keep objects, store what succeeded, and return, while no call fails? | three threads, every operation, one id, two objects, restarts: the shortest conflict of two updates needs two threads, and the third takes the object away in between |
| `schedule` | All properties of the service, with flash, and the refinement | two publishers, one reader, a short and an array-filling name, overlapping reservations, nameless responses; times to 3, so that a session is extended twice |
| `schedule_mismatch` | (violated) is a mismatch one of names? | one publisher |
| `led` | One color, that of a steady command, and the last command executed | two colors, every kind of pattern (FAST and SLOW are one), a queue of two (as configured) that fills |
| `led_steady` | (violated) does OFF or SOLID stay? | as `led` |
| `wifi` | Is a running HAL accounted for, which HAL can a connect meet, and are CONNECTED, DISCONNECTED and CONNECTING true at rest? | a queue of two (as configured), failing HAL calls, lost reports, restarts |
| `wifi_connecting` | (violated) does CONNECTING mean connecting? | as `wifi`, without faults and restarts |
| `sntp` | Does a connected board get the time? | a queue of four (as configured) that fills |
| `rfid` | Whose tag is published, and is a card read? | three cards, with ids of one, two and three levels that begin alike; the two longer share their first part, so that they are selected together |
| `settings` | What do the settings commands return, and give back, when anything fails? | two threads that update and delete two ids, one object (a torn pair needs a present and an absent one), failing calls, restarts; the four kinds of command |
| `endpoints` | Overlaps, acknowledged ends, what the board holds, and whether the server is one of `Bookings` | two server threads (three would be two late ones and no more interleavings of a pair), one user, two starts that do not overlap until one is extended, room for two reservations (`Capacity`), one hour of extra time (`Extensions`) |
| `endpoints_extend` | The same for concurrent extends and for names the board cuts | two users with one kept name, three hours of extra time: two given and a late one lost; registrations at one time |

`Capacity` and `Extensions` bound the registrations and the extensions that are
sent; `Typed` is what is sent with the http command, here extends: it stands for
any other client of the server, and the theorems have no such bound. Threads are
symmetric. Without the exemption of `shortened`, `endpoints_extend` finds
`HeldIsBooked` violated after some twenty steps, and without that of `revived`
`AckedEnded`, by a late confirm: both cases happen within the bounds. In `settings`, torn pairs are reached as well.

What the violated runs found, each a disagreement of the code with what the
repository says of it, is under "findings" in `PROJECT.json`: the fetched id
carries bytes that make its own user a stranger; a submitted blink outlives OFF;
and a disconnect overwrites the command of a finished WPS exchange, which leaves
the state CONNECTING for ever.

Reading the code for the models showed more, which is modelled as it is:

* A delete whose opening read fails for another reason than an absent object
  reports success and leaves the object (storage.c:94).
* A reservation that nobody has started to use can be extended, which makes it a
  session (schedule.c:94; the unit test of schedule/src/main.c:116-125 extends
  without any).
* Confirm, end and extend of a reservation that was found before it ended change
  it all the same (app.py:44-70): a late confirm brings it back, a late extend
  takes back time that others have given, and extend never tests for an overlap.
* Checkout does not tell the schedule service. The board goes on holding what has
  ended, skips every later LOAD, with a fetch that returns 0 (schedule.c:152-161,
  endpoints/schedule.c:118-125), and starts anew only with a restart.
* A user whose name has 16 characters is confirmed and checked out as the user of
  the first 15, or answered 404 (app.py:8, endpoints/schedule.c:115-116).
* The pair a diagnostic sends may never have been in flash (settings.c:37-49).
* A connect can be requested while the HAL still runs. esp32_wps.h:52-54 wants
  `esp32_wps_stop` called before, "because the Zephyr ESP32 driver rejects
  esp_wifi_start() when WiFi is already running via the HAL", and wifi.c:139 has it
  stop the HAL "if WPS left it running; no-op otherwise". When a WPS exchange fails,
  the event task clears `wps_wifi_started` and then calls `esp_wifi_stop`
  (esp32_wps.c:157-163); a connect command in between finds the flag clear, does not
  stop or wait, and reaches the stack (wifi.c:165) with the HAL on. No call has to
  fail. `HalOffAtRequest` (`MCWifi`) states what the header asks: with it in place of
  `ConnectingIsTrue` in `wifi_connecting.cfg`, TLC shows the race in some 27 states.
  `RequestAfterStop` names it as an exception, and holds for the rest.
* `esp32_wps_stop` does not end a WPS exchange. A connect command during one stops
  the HAL under it (wifi.c:140), and so does the event task when it ends a failed
  exchange while the service has just started another. Whether such an exchange
  still answers is the HAL's affair; in the model it does or does not, and
  `ReportsTrue` counts it as one that may.
* FAILED may be reported last although the board is connected: a second connect
  that the stack rejects (wifi.c:167-170), or an exchange that fails (wifi.c:176),
  is reported over the connection that is there.

Deadlock is checked in every run.

## Fairness

* `Storage`: a thread inside an operation goes on (weak fairness per thread). No
  call waits for another thread's operation.
* `ScheduleService`: a thread inside a zbus call goes on, because every wait in
  it has a timeout (200, 300 and 300 ms), and a reader lets go of the lock:
  `zbus_chan_read` only copies under it. Nobody is made to publish.
* `Led`: the publisher finishes its publish, the work item runs unless blocked,
  and the button's item comes back (its publish has a timeout of 100 ms). The
  thread's steps get strong fairness: the work item pre-empts it again and again,
  but the timer's periods are at least 200 ms, so it runs in between.
* `Sntp`: a publish that has begun ends, the thread runs (its reads have timeouts,
  its sleep ends), and the server answers some request if there are infinitely
  many (strong fairness for `Told`): without it the time cannot be had.
* `Rfid`: the service polls for ever. `LoneCardRead` assumes, in its premise, that
  the card stays and the noise ends.
* `Settings`: the shell's thread goes on; its waits (the look-up, the connect, five
  seconds for an answer) have timeouts. The storage threads need no fairness for it.
* `ScheduleStore` and `Endpoints` have only safety properties, and no fairness: a
  thread of the server may be held up for ever, and an answer may never come.
* `WifiService` has only safety properties, and no fairness.

## What is proved

For every value of the constants that meets the ASSUMEs of the modules:

* **Storage** (`StorageProofs`). `Invariance`: `StorageInv` is inductive. It ties
  the place of a thread to its operation and the codes it can return; without it
  a step in mid-operation could be of any operation. `NoObjectLost`: the action
  property `ObjectKept`, from the invariant. `SuccessIsStored`: `SuccessStored`
  as long as no call fails, from `Settled`: once every thread has come past its
  erase, the object is that of one that reported success, or one is still to
  write. `OperationsAreBounded`: see below.
* **ScheduleService** (`ScheduleProofs`). Two invariants carry everything.
  `SessionShape` needs only the types and the guards. `LocksHeld` is needed
  before flash can be spoken of: because the holder of each lock is the one
  publisher inside, at most one update runs, and no change can come between a
  notify and the end of its save; `SavesCurrent` and then `FlashCurrent` follow.
  `SessionKept` and `EarliestStays` are action properties under
  `SessionShape`. `ImplementsWorkstation`: every step is a step of `Workstation`
  or a stutter, under `FullInv`. `SavedScheduleKept` carries `ObjectKept` over to
  the service: each of its steps is one of `Storage` with a state for an object, or
  none (`StoreStep`), and the lemmas of `StorageProofs`, instantiated, do the rest.
* **Led** (`LedProofs`). `OneLit` is not inductive: a pin that is lit between two
  writes of the thread must be known to be the color of the command being
  executed or one about to be cleared. `PinsCleared` says so. From it
  `SteadyColorAlways`: a work item that outlives its blinking command can switch a
  steady light on or off, and `led_steady` shows that it does, but not in another
  color. `NothingIsMissed` is inductive as it stands.
* **WifiService** (`WifiProofs`). `WifiInv` is inductive: types, where in the
  driver each thread may be (`DriverFit`), that the flag stays clear from the
  service's stop to its request because only that thread sets it (`StaysClear`),
  and `HalAccounted`. `LeftOnIsStopped`, that is `RequestAfterStop`, follows from it
  and from what the event task stops the HAL for, a failure only (`DriverFit`): the
  HAL of a successful exchange is off when the next connect is requested. It is no
  protection from the event task's own stop, see above. `ReportsAreTrue`:
  whichever reports are lost on the way, and unless the very last one was, at rest
  CONNECTED is said only of a connection or a new attempt, DISCONNECTED only without
  one, and CONNECTING only of an attempt or an exchange; CONNECTING after a
  disconnect is excused (`wifi_connecting` shows why), and FAILED is not spoken of.
  It follows from `ReportsInv`: only
  the network stack's thread says CONNECTED or DISCONNECTED, in the order of what it
  sees (`LinkTold`), and after a CONNECTING an answer, a report or a command is still
  to come, or the service's thread is under way to one (`Due`, `Underway`).
* **Sntp** (`SntpProofs`). `SyncedAtRest` needs to know what is still to come for
  a CONNECTED not yet answered: a notification, the read that follows one, or a
  retry. `Pending` says so, and is inductive.
* **Rfid** (`RfidProofs`). `RfidInv`: what is put together is the beginning of the
  id of *every* card still selected, which is why parts of two cards are never
  joined. The lemma `PartContinues` shows that a part, without its tag, continues
  an id; `SelectStep` that a SELECT answered by one card is right for all it
  selects. `TagOfWoken` follows.
* **Settings** (`SettingsProofs`, which extends `StorageProofs`). `SettingsInv` is
  inductive by the invariant of storage and `HeldFits`. For `SettingsRead` the
  proof relates what was read first to what flash held since (`past`): while the
  object that was read has not been written, flash of now is the pair.
  `ObjectsKeptBesideCommands` is `ObjectKept` for the composition: every step of the
  shell is one of storage or leaves it alone (`StorageSteps`).
* **Endpoints** (`EndpointsProofs`). The server's invariant `StoreInv` is proved for
  any request of any client (`StoreStep`), whatever the board does. No two
  reservations overlap because `ScanHolds`: what a thread in register has compared
  stays free of conflict, since only the holder of the lock appends (`LockHeld`)
  and every unlocked change leaves a reservation over, extended or brought back.
  On top of it, `Grows` says what no step of the server takes back, and `Awaited`
  what the thread the shell waits for is about and what its answer says;
  `AckedEnded` and `HeldIsBooked` follow. `ServerRestart` empties the book, and
  the statements with it. `ImplementsBookings`: `Insert` is a registration of a free
  slot by `ScanHolds` again (`InsertRegisters`), the second halves of confirm, end
  and extend are one change each, of a reservation that may have changed since it was
  found, and the other steps of the threads, the board and the clients are stutters.

The liveness properties rest on fairness, but what makes them true is proved: the
number of steps a thread can still take in an operation falls with each of its steps
and is raised by nobody else. An operation of storage makes four NVS calls at most
(`OperationsAreBounded`), a publish of a schedule command takes nine steps
(`PublishIsBounded`, from `FullInv`, which knows that its flash operation is an
update), a command of the shell eight (`CommandsAreBounded`) and the read of a card
eleven commands (`ReadsAreBounded`): with fairness they end. TLC found each of the
four true on the instance of its run first. That a step is always possible is what
remains to the runs.

Only model-checked: the liveness properties themselves, `OperationReturns`, `CommandReturns`,
`PublishReturns`, `LastCommandExecuted`, `ToldAtLast` and `LoneCardRead` (liveness
under fairness is out of TLAPS's reach), and the violated statements.

## Not modelled

`main.c` (empty), the configuration of the boards, the LED and storage commands of
the shell (they parse arguments and call what is modelled), the button's interrupt,
the registers of the MFRC522 and its initialization, `storage_init` beyond its end,
and of the server the status page, the events and the last diagnostic. Memory safety
(the probe of storage.c:71, the JSON copy of endpoints/schedule.c:115 that reads past
the string) and the escaping of names in JSON bodies are outside a model of this
kind; the values such a copy leaves are in `UserId`.

## Left to do

1. The MFRC522's registers and initialization, and a failing `nvs_mount`.
2. `Endpoints` over the full `ScheduleService` in place of `Workstation`: the two
   compose through the refinement, which leaves the timing of a flash update out.
