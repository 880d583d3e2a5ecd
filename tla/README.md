# TLA+ specifications of the PyPortal RTK rover

The firmware in `firmware/pynt/rover/` turns an Adafruit PyPortal Pynt with an
AirLift (NINA) WiFi co-processor and a u-blox F9P receiver into an RTK rover or
base: it pulls corrections from an NTRIP caster, hands NMEA to phones over TCP
and BLE, and logs raw measurements to an SD card. These modules model its core
logic, TLC checks them on small instances, and TLAPS proves their main safety
properties for every instance.

Paths below are relative to the repository; line numbers are those of the
commit the modules were written from. `PROJECT.json` maps every definition to
its lines.

## 1. The system

### Scheduling

One core, no threads, no interrupt handlers of the program's own. `setup()`
(main.cpp:27) runs the `*Init()` functions, `loop()` (main.cpp:65) calls, in
this order and for ever,

    gnssPoll  ntripPoll  tcpNmeaPoll  bleNusPoll
    sdLoggerPoll  uiPoll  serialMenuPoll  webConfigPoll

Every poll is atomic towards every other. What interleaves with them is the
world: the co-processor accepts and loses connections by itself, the receiver
fills buffers, the radio, the card, the power and the clock do as they like, in
the middle of a poll too. Two calls block for seconds: `WiFi.begin()` (up to
ten) and the TCP or name look-up of a caster.

There are two builds. The shipping one (`pynt-rover`) has neither BLE nor the
web page and takes clients with `available()`; the coexistence one
(`pynt-rover-coex`) has both and uses `accept()`. A model whose behaviour
differs between them has the build as a variable fixed by `Init`.

### Inventory

| component | state | operations | talks to | what makes it correct |
|---|---|---|---|---|
| NTRIP client, `ntrip.cpp` | machine state, retry delay, SSID slot, header scratch, stamps, the caster socket | five poll arms, AP standdown, `ntripRequestReconnect()` | WiFi, co-processor sockets, receiver (`gnssInjectRtcm`), `g_link` | claims no connection it does not have, returns every socket, streams only what was granted, drops only dry or dead connections, recovers |
| NMEA queue, `gnss.cpp` | 8-line drop-newest queue, partial line | `feedNmeaByte`, `gnssNextNmeaLine` | filled by the receiver library, drained by the broadcaster | order, no stale lines |
| Receiver link, `gnss.cpp`, `gnss_config.cpp` | detected flag, baud, `g_gnss`, `g_base`, mode | connect, retry, factory recovery, mode switch, callbacks | UART | the module has what the settings say, a late one is found, no data of the old mode stays |
| NMEA broadcaster, `tcp_nmea.cpp` | client table (3), listening server | `ensureServer`, accept, prune, drain and tee | queue, sockets, BLE ring | every line once, in order, to everyone in the table; refuses only when full |
| BLE link, `ble_nus.cpp` | drop-oldest ring (16), subscription | `bleNusOnNmeaLine`, `bleNusPoll` | broadcaster, BLE host | no stale backlog for the next subscriber, order |
| SD logger, `sd_logger.cpp` | card ok, enabled, open file, byte count, latch, last sync | init, poll (open, drain, sync), enable, shutdown | receiver's file buffer, card, UI, menu, web page | no log lost or overwritten, bounded loss, safe power-off |
| Touch UI, `ui.cpp` | page, debounce, PWR confirmation | `uiPoll`, `handleTouch` | logger, mode | two-tap power-off, one action per touch |
| Serial menu, `serial_menu.cpp` | line buffer | commands | everything through `settingsApplyKeyValue` | — |
| Settings, `settings.cpp` | `g_settings`, `/config.txt` | load, seed, save, set | card, all | what was saved is what is loaded |
| AP provisioning, `web_config.cpp` | `bootap`, pending reboot | init, request, poll | settings, WiFi | one request, one boot in AP mode; an announced reboot comes |
| Web server, `web_config.cpp` | HTTP state, request, response cursor | idle, read, body, respond | sockets, settings, logger, NTRIP | one request at a time, deadlines, never waits for ever |
| Co-processor, `nina-fw-airlift` | socket table (10) | allocate, accept, close, dead-socket sweep | all socket users | no leak, no aliasing (vendored; the part the rover uses is modelled) |

Left out altogether: the bring-up sketches, spikes and host tools (one-off
experiments), vendored libraries (`lib/`, nina-fw's
framework), the enclosure and the hardware documents. None of them holds state
of the running rover.

### What is hard here

The `hazards` of `PROJECT.json` give the lines. In short: a socket or a flag
left behind on one of many failure paths; a peer that vanishes without a FIN; a
verdict or a buffer of an earlier connection used by the next; a watchdog that
looks before it drains; a phone, a network or a card disappearing between two
steps of one poll; two bounded buffers in a row with opposite overflow rules;
power lost between two steps of a file operation; commands that keep arriving
after a shutdown; a ten-second blocking call inside loops that reckon in
seconds.

## 2. Modules

| module | models |
|---|---|
| `NtripClient` | `ntrip.cpp` entire but for request text and base64 |
| `NmeaPipeline` | the queue of `gnss.cpp`, `tcp_nmea.cpp`, `ble_nus.cpp` |
| `NmeaBuffers` | the two line buffers of `gnss.cpp` and `ble_nus.cpp` as arrays with head, tail and count; implements `NmeaPipeline` |
| `NinaSockets` | the co-processor's socket table (`CommandHandler.cpp`, `WiFiServer.cpp`, `WiFiClient.cpp`) composed with the sockets of `ntrip.cpp` and `tcp_nmea.cpp` |
| `SdLogger` | `sd_logger.cpp` and all its callers in `ui.cpp`, `serial_menu.cpp`, `web_config.cpp` |
| `GnssLink` | `gnss.cpp` but for the queue, `gnss_config.cpp`, and the requests the menu and the page make of them |
| `Provisioning` | `settings.cpp`, and of `serial_menu.cpp` and `web_config.cpp` all that sets, saves or reboots: `setup()`, the AP button, the pages' cards as far as they save |
| `HttpExchange` | the promise of the configuration page to a browser (abstract) |
| `WebServer` | the HTTP server and the pending reboot of `web_config.cpp`; implements `HttpExchange` |
| `TouchUi` | `ui.cpp` but for the drawing of pages |
| `MC*` | values of the constants for TLC |
| `*_proofs` | theorems and proofs |

A part of the code that two modules need is in both, seen from different
sides: `tcpNmeaPoll()` with lines and phones in `NmeaPipeline`, where a
connection is a connection, and with sockets in `NinaSockets`, where it is three
numbers; a web request as a post that saves in `Provisioning`, as bytes and
deadlines in `WebServer`.

### NtripClient

One action per arm of the `switch` in `ntripPoll()`. An action is a whole poll,
the refresh of `g_link.wifiUp` before it included (`Polling`). `WiFi.status()`
is read a second time inside some arms, and may by then say something else
(`SecondStatus`).

*Time.* The code stores stamps and compares `millis() - stamp` with limits. The
model stores the differences, as ages that saturate at `AgeCap`: `Tick` adds one
to all, a blocking call adds up to `StallMax` (`Blocked`). Unsigned subtraction
makes the code's comparisons insensitive to the 49-day wrap, so ages lose
nothing, but for one: the `lastGgaSentMs = 0` of a new connection is no moment,
and its "age" is `millis()` itself (`ggaAge = Never`, `SinceGga`). Soon after a
boot, and soon after a wrap (`Wrap`), a VRS caster's first GGA is therefore not
due at once, and the correction watchdog may come first.

*The caster* sends items, not bytes: the header lines `headerPoll()` tells
apart, and `data`. It sends, closes or dies at any moment, and `peer = "dead"`
still looks connected, which is what half-open TCP looks like.

*Health.* `Heal` is the point after which radio, caster and superloop behave;
liveness is stated for behaviours that reach it. A healthy caster is a VRS
caster: silent until it has heard a position.

### NmeaPipeline

A sentence is its number. `phase` is where the superloop stands, and phones and
WiFi act between any two steps, in a drain as well. `AcceptAndPrune` is
`acceptClients()` and the prune loop in one action: both see the same
co-processor state within microseconds of SPI traffic, and a connection that
dies between them looks like one that dies right after.
`Incoming` is what the server hands out: with `accept()` a waiting connection,
with `available()` a waiting one or one already in the table.

`connected()` is true while bytes are unread, whether the phone is there or not,
so a connection in the table whose phone has left is `left` or `gone`. The poll
asks `connected()` for a free slot before it reads what clients sent: a `left`
one takes part in acceptance as if it were live, is read empty by the loop after
it, and is `gone` for the next pass. It can so keep one newcomer out, which
`RefusedOnlyWhenFull` says, and says that it cannot do it twice.

The subscription of a central is a descriptor write that this host itself
answers inside `BLE.poll()`, so one poll sees one transition (`BlePoll`).
`writeValue()` is fire-and-forget: `Notify` may lose the line.

### NmeaBuffers

`NmeaPipeline` keeps the queue of `gnss.cpp` and the ring of `ble_nus.cpp` as
sequences. The code keeps an array, the slot to fill next (`head`), the slot of
the oldest line (`tail`) and a count, written by different functions: the queue
by `feedNmeaByte()` and the drain, the ring by the tee (which when full moves
the tail itself), the notify loop and the flush. `NmeaBuffers` is those
functions, index by index; `Lines` reads the sequence off an array, and with it
`P` is `NmeaPipeline`. Steps that touch neither buffer are `P`'s own. The module
is in no run: its two claims are proved for every two sizes (section 4).

### SdLogger

`sdLoggerPoll()` is three actions, `PollOpen`, `PollDrain`, `PollFlush`, because
power and card may fail between them; everything else the logger is asked to do
comes between passes (`step = "rest"`). A file on the card is what a power loss
leaves of it, `tail` is what has been written since the last sync: a power cut
drops `tail`. Names are records of mode, second and suffix; `FirstFree` is the
collision guard. The names of one second may run out, and then the open fails
and is tried again in the next pass, while the chunks are thrown away; this is
in the model and the reason for `NameLeft` in `NoneDiscarded`.

### NinaSockets

A connection has three names: the rover's `WiFiClient` holds a socket, the index
of an object in the co-processor; the object holds a descriptor of lwIP; lwIP
knows the peer. Sockets and descriptors are both reused, lowest first, as soon
as they are free, whoever still remembers them.

`nina` is the co-processor's whole state, a record. A command of the SPI
protocol is an operator from that record to the next (`GetSocket`,
`StartServer`, `StartClient`, `StopClient`, `GetClientState`, `AvailAccept`),
named after its handler. An action of the rover is the sequence of commands it
sends: `NtripConnects` asks for a socket, starts the client in it and polls its
state. Between any two actions come the peers, the driver's callback
(`CloseConnections`, which closes descriptors under the objects that hold them),
and the co-processor's second task, which scans the same tables without a lock:
`GpioHasClient`, `GpioAvailable` and `GpioClient` are the steps of its scan that
change anything.

Three things the C code reads are not what it means: an accept on a server with
no socket indexes out of the tables (`AvailAccept` with `s = None`); an accept on
a socket that has become a client's is answered with a count of bytes
(`ByteCount`); and the remote address of a socket without a connection is what
the stack held before (`Unreadable`). All three are choices. The rover takes
either of the first two for a socket's number, so its table may come to hold the
number of another user's socket or one beyond the tables, `Outside`; what a
command for such a number reads is a choice again, and what it overwrites there is
left out. A newcomer whose garbage equals a client's address is forgotten with its
socket (`Ignored`); `misreads` counts and bounds that. `orphans` are the sockets
the rover no longer has a number of without having given them back.

The web server's and BLE's use of the co-processor is not in this module.

### GnssLink

`gnssPoll()` blocks for seconds, so it is not one action: `pc` is where it
stands, each step goes up to an exchange with the module, and the module may be
pulled, put back or replaced between any two. `job` says for whom it connects or
configures (boot, retry, mode switch, recovery), since what follows differs; it is
forgotten when nothing further depends on it (`Done`). An
exchange finds the module (`Answers`) or not (`Silent`): it is not there, at
another baud, or a message was lost, which `lost` bounds. The configuration is
what each of the four `VALSET`s was made from: `config[g] = Wanted[g]` is right
without a word about the forty keys in them. `g_settings` has two parts here:
`settings` is what `tmode` is made from (`mode`, `svin*`, `fixed*`), `tuning` what
`messages` and `nav` are (`nmeagsv`; `elevmask`, `measrate`, `dynmodel`). The menu
asks for a re-apply with the first (`Ask`) and not with the second (`Tune`), the
page with both.

The module keeps its configuration in flash, so one that is put back has it
(`Plug`); another one has its factory's. `buffered` is a NAV-SVIN that lies
unparsed in the UART's buffer while the mode is switched. `amiss` is history:
what has gone wrong since the last configuration that was acknowledged, and
`"untold"`, a `Tune` since then. That one excuses `messages` and `nav` in
`AgreeUnlessAmiss`, and nothing else.

### WebServer

One action per state of a connection. A poll begins with `d`, the time the rest
of the superloop took; `age` and `held` grow by it. A request is a request line,
headers, an empty line and a body; it arrives a piece at a time (`Sends`), and a
poll reads what has arrived up to its budget, never past the empty line, since
`pollRead()` returns there. Headers are the three the code tells apart. An
answer is what it says and how many writes it takes; a write may come to nothing
(the code advances by what `write()` returned).

`stateEnteredMs` is not set when the body begins, so reading has one deadline
for both, and `BoundedHold` is two deadlines and not three.

The abstract `HttpExchange` has two variables, who is served and with what
answer. The mapping is `served <- conn`, `answer` is the same, and `Verdict` is
`Deserved`, which computes an answer from the whole request at once. So
`ExchangeKept` says that a request read in any pieces, after any other, cut off
or not, is answered once and as if it had been read alone and whole.

`rebootIn` is the time until `millis()` is past `rebootAtMs`, an absolute stamp.
`Wrap` is the 49-day wrap: a reboot that was due no longer is, for as long as the
model likes, and the next wrap may come before it is due again or while a slow
pass or a connection keeps it waiting. It may happen any number of times. In the
code a reboot armed just before a wrap and missed then is due again only in the
last 700 ms or less before the next one, so nothing can be promised across
wraps, and `RebootComes` excepts the run in which they go on: it is about a
reboot from the last wrap on.

### TouchUi

A poll samples the finger, acts on at most one button, and may redraw; the
module has the coexistence build's three pages. A finger is put down, slides or
is lifted between samples, and `held` is how long it is down. What the buttons
read (`first`, `pwr`) is state, because they are drawn at some moments only:
`drawButtons()` is called by the handlers, and by a redraw when the confirmation
has expired or the log file was opened or closed underneath.

### Provisioning

The one module about what outlives a reset. Its state is the configuration in
memory (`settings`), the one on the card (`file`), and the part of the web page
that decides when a reboot happens (`http`, `reboot`, `serverUp`, `apActive`);
that an announced reboot does happen is `WebServer`'s matter.

*Keys* fall into the kinds `settingsSave()` treats differently: `Texts` always
get a line, `Slots` only when set, and `Riders` only when the key they ride on
is set (`pass1` on `wifi1`, `fixedalt` on `fixedlat`). A value is a word or
`Unset`; that values are cut to their array or printed with nine digits is left
out. The two generated passwords are one key: they are generated, saved and
loaded alike, and nothing tells them apart but their name. A card of the page
that sets several texts and saves once is a sequence of posts that set one each.

*The card.* Any open may fail (a loose contact): for a save that is the outcome
`"failed"`, for the load it is the second disjunct of `BootLoad`, because
`settingsLoad()` takes a file it cannot open for a missing one. After the open
`settingsSave()` looks at nothing, neither what a print wrote nor what `close()`
returned: a card that fails there leaves some of the lines (`Remains`), and the
save is reported as done all the same (`"torn"`). A handler and the save in it
are one step, since no poll runs in between and a power loss before the save
leaves the card as it was; a power loss within the save is `CutInSave`, which
leaves as much. Any of the lines may be left, each whole or not at all; that one
can be cut in the middle, or run into another, is left out. `EditCard` is the
laptop, possible while the rover is off.

*History variables* do not steer anything: `reported` says the last load or save
was reported as done, `torn` that the card failed under it, `asked` what has
become of the last request for AP mode: open (`"yes"`), passed by by a boot with
the page off (`"missed"`), or granted by a boot that could not save the cleared
flag (`"slipped"`).

*Time.* The comparison `millis() > rebootAtMs` is between absolute times, so
here the wrap matters and is an action. `rebootAtMs` is no time, one not yet
reached or one passed: every `Wrap` makes a passed one not yet reached, and a sum that
itself wraps is passed at once (`Arm`). A sum of exactly 0, which the code reads
as none, is left out.

The buttons are enabled whenever the loop runs: which page the screen shows, and
that it ignores touches after a shutdown, would only take behaviours away.

### Definitions named `Fault...`

They are not part of any specification. Each is the form a plausible bug would
give the definition it precedes (an omitted reset, a swapped order, a dropped
guard); with it in place TLC finds the property it is paired with violated
(`mutants` in `PROJECT.json`). They show that each property depends on the code.

## 3. What TLC checks

| run | checks | result |
|---|---|---|
| `ntrip_client` | types; sockets come back (`SocketReturned`); no ungranted stream (`OnlyGrantedStreams`); the watchdog drops only dry streams (`NoFalseStale`) and in healthy times none accepted late enough after boot or wrap is given up, unless `millis()` wraps before its first GGA (`HealthyStreamKept`; together `StreamsKept`); the deadline of a dead socket runs and is obeyed (`DeadlineRuns`), and the socket is dropped (`DeadSocketDropped`); the client recovers (`Recovers`) | holds |
| `nmea_pipeline` | types; no line missed; one slot each; no greeting backlog; order; refusal only when all slots answer `connected()`, and never twice by the same dead phone; freshness where the code promises it | holds |
| `sd_logger` | types; no holes; prefix is mode; safe to power off; bounded loss; never overwritten; closed whole; none discarded | holds |
| `provisioning` | types; what was reported as saved is what is booted, unless the card failed in that save (`StoredIsBooted`); a flag on the card is a request no boot has granted, or one granted by a boot that could not save the cleared flag (`FlagIsARequest`) | holds |
| `ap_exit` | `AnyExitIsSta`: `web_config.cpp:731` | violated |
| `config_lost` | `SavedIsKept`: `serial_menu.cpp:117` | violated |
| `nina_sockets` | types; every taken socket is known or one of the counted leaks (`LeaksAccounted`); until the link is lost, each user has sockets of its own and reaches its own peers, and the server, once begun, listens (`OneUserEach`), and each connection has one owner, the only one to the caster the NTRIP client (`DescriptorsOwned`) | holds |
| `wifi_rejoin` | `RestartWorks`: `tcp_nmea.cpp:4` | violated |
| `web_server` | types; nobody holds the server longer than two deadlines (`BoundedHold`); each request is answered at most once and as it deserves (`ExchangeKept`, the refinement); an announced reboot is next, once its time is up nobody else is accepted (`RebootIsNext`), and it comes, unless `millis()` wraps over it again and again (`RebootComes`) | holds |
| `gnss_link` | types; the module has what the settings say, or something named has gone wrong; what the menu changes without a request it lacks until the next configuration (`AgreeUnlessAmiss`); a late module is found (`LateModuleFound`); the survey-in shown is in the end that of the present settings (`SurveyCatchesUp`), and then stays so (`SurveyStays`) | holds |
| `gnss_reseated` | `ReseatedWorks`: `gnss.cpp:176` | violated |
| `touch_ui` | types; two taps, or one longer than the lockout, to shut down (`TwoTaps`); a button does what it reads (`ButtonsSayWhat`); the question has its clock running and no touch but the asking one sets it back (`QuestionTimed`), and it goes away (`QuestionFades`) | holds |

### The four disagreements

* `webConfigInit()` clears `bootap` "FIRST so any exit — button, power cycle,
  crash — lands in STA", and does not look at what the save of the cleared flag
  came to. On a card that refuses it (locked, a loose contact) the flag stays,
  and every boot starts AP mode until some save goes through. `FlagIsARequest`
  names this as its one exception, and holds and is proved.
* The menu answers "ok, saved" to `wifi1=` although an empty slot has no line in
  the file, and one that is compiled in by `secrets.h` is seeded again at the
  next boot; likewise to `pass1=` while `wifi1` is empty, and to `fixedalt=`
  before a position is set, where the save writes neither. A save under which
  the card fails is reported as saved, too. With these exceptions named,
  `StoredIsBooted` holds and is proved.
* The NMEA server "restarts after a drop" by a second `begin()` of the same
  object. It takes a second socket, the old listener is still there, and whether
  lwIP then listens on the port again is not checked: the server may count as up
  and accept nobody. Each drop costs one socket of ten, which is
  `LeaksAccounted`, the statement that holds and is proved.
* "A late-powered or reseated Lite must not require a reboot": a late one does
  not (`LateModuleFound`); a reseated one that was pulled while it was being
  configured does, because nothing sets `f9pDetected` back to false.

Smaller limits, met while modelling and stated by the properties that do hold:
`bootap` survives a boot with the page switched off (`webConfigInit()` returns
first), so that it is granted later than "at next boot" (`settings.h:63`), and
`FlagIsARequest` lists that case; `elevmask`, `measrate`, `dynmodel` and `nmeagsv`
typed into the menu are saved and do not reach the module before something else
configures it, and `AgreeUnlessAmiss` says so; `correctionAgeMs()`, by `shared.h:68`
`UINT32_MAX` "if never received", counts from the caster's header on
(`Accepted`), with nothing received; "a yanked bank
costs <= 8 s" holds up to the length of one pass, and `BoundedLoss` has that
length in it; the shipping build does not drain its queue while WiFi is down,
and `FreshWhenDrained` is stated for the coexistence build, which does; a press
of the power button held longer than 300 ms is two taps, and `TwoTaps` says so;
a phone that arrives between two calls of the co-processor's second task is
connected and never served.

### Bounds

* `MCNtripClient`: three SSID slots, the middle one empty, one in range. Times
  in units that keep the order of the real limits (header 5 s < correction 10 s
  <= GGA 10 s; a retry cap that is no power of two of the first delay, as
  60 s is none of 1 s). `AgeCap` is the largest limit a comparison uses, so
  saturation hides nothing; `millis()` wraps as soon as it is that old, which is
  as soon as anything can tell. Two unread items suffice for "200 then blank" and
  for corrections behind a header.
* `MCNmeaPipeline`: three phones for two slots (refusals, a dead slot reused),
  buffers of two lines and five sentences (both overflow, within two passes), a
  notify budget of one (the ring outlives a pass). Phones are symmetric. One
  central: coming back is the case that matters, and another is no different.
* `MCSdLogger`: one second of GNSS time with two names per mode, so names
  collide and run out; three chunks through a buffer of two; a sync period
  shorter than the longest pass. Modes are symmetric. The properties checked
  under symmetry are all safety properties.
* `MCProvisioning`: one slot, compiled in; one password riding on it; one
  always-written key, `webenable`, and the flag and the password the code treats
  specially. Every kind of key is there once, and keys of a kind do not
  interact. One word: a value is told from an empty one, and a second word would
  only repeat what the first shows. A broken save leaves nothing, or the flag and
  one line more (`Left`): what decides about AP mode at the next boot.
* `MCNinaSockets`: three sockets for a caster, a server and two places in the
  table, so that they run out; two phones, symmetric (safety only); one loss of
  the link and one misread address, because each costs a socket for good and a
  third would leave none to look at; a byte taken for a number is 0, 255 or beyond
  the tables (`Counts`; the proofs are for any). Three descriptors, as many as sockets, as
  in the firmware.
* `MCWebServer`: four browsers: one that reads the page, one that posts a reboot
  with its password, one that posts without, one whose body is too large; each
  may stop at any point. A budget of two and a page of two chunks make every
  loop take more than one pass; the deadlines differ and a pass may be as long
  as the longer one.
* `MCGnssLink`: a rover's settings and two of a base, so that a switch between
  surveys is a case; two tunings, an old one and a new one; one message lost and two upsets (pulled, reset) for safety
  and liveness. `GnssReseated.cfg` loses no message, upsets once and has one
  tuning: that is enough, and its trace has nothing to do with either.
* `MCTouchUi`: the order of 300, 500 and 3000 ms as 2, 3 and 7.

### Fairness

`NtripClient`: `WF_vars(Poll)`, since `loop()` has no exit and every poll
returns; `WF_vars(Tick)`, since time passes. Nothing is assumed of the caster,
the radio or the user; what `Recovers` needs of them is in its antecedent
`<>[]healthy`. It leaves out the run in which `millis()` wraps again and again
while the caster waits for its first GGA, which the model allows and 49 days do
not.

`WebServer`: weak fairness of a poll with `d > 0`, which is the superloop going
on and time passing in it. Nothing is assumed of browsers, the network or the
user, so a browser may have its next connection waiting whenever one ends.
`RebootComes` excepts the user who puts the reboot off for ever by asking again
each time, the one who switches the page off, and a clock that wraps again and
again before the reboot.

`GnssLink`: `WF_vars(Host)`, the superloop; `WF_vars(Reports)`, a module in base
mode reports its survey once a second. Lost messages and upsets are bounded, so
they end; `SurveyCatchesUp` and `LateModuleFound` are about what follows.

`TouchUi`: `WF_vars(UiPoll)` and `WF_vars(Tick)`; the finger is free.

`NmeaPipeline`, `SdLogger`, `NinaSockets` and `Provisioning` state safety only
and assume no fairness. `CHECK_DEADLOCK` is never switched off: the superloop, or
the world after it, always has a step.

## 4. What TLAPS proves

Everything below is proved for every value of the constants allowed by the
module's `ConstantsAssumption` (sizes positive, time limits ordered, `None` and
`NoFile` not members of what they stand apart from).

| module | theorem | property |
|---|---|---|
| `NtripClient_proofs` | `TypeCorrect` | `TypeOK` |
| | `FlagIsHonest` | the connected flag is the state |
| | `NoSocketLeak` | `SocketReturned` |
| | `StreamsAreGranted` | `OnlyGrantedStreams` |
| | `WatchdogIsFair` | `NoFalseStale` |
| | `HealthyStreamIsKept` | `HealthyStreamKept` |
| | `StreamsAreKept` | `StreamsKept`, the two together |
| | `DeadlineRunsHolds` | `DeadlineRuns`, the safety half of `DeadSocketDropped` |
| `NmeaPipeline_proofs` | `TypeCorrect` | `TypeOK` |
| | `LinesInOrder` | `InOrder` |
| | `SubscriberHearsNoBacklog` | `NoGreetingBacklog` |
| | `CoexDrainsFresh` | `FreshWhenDrained` |
| | `PhonesMissNothing` | `NoLineMissed` |
| | `OneSlotPerPhone` | `OneSlotEach` |
| | `RefusalMeansFull` | `RefusedOnlyWhenFull` |
| | `IndicesNeverDisagree` | `IndicesAgree` of `NmeaBuffers` |
| | `BuffersImplement` | `Implements`, the refinement of `NmeaPipeline` by `NmeaBuffers` |
| `Provisioning_proofs` | `TypeCorrect` | `TypeOK` |
| | `SavedIsBooted` | `StoredIsBooted` |
| | `FlagMeansRequest` | `FlagIsARequest` |
| `SdLogger_proofs` | `TypeCorrect` | `TypeOK` |
| | `LogHasPresentMode` | `PrefixIsMode` |
| | `PowerOffIsSafe` | `SafeToPowerOff` |
| | `LogsSurvive` | `NeverOverwritten` |
| | `ClosedLogsWhole` | `ClosedWhole` |
| | `LogsHaveNoHoles` | `NoHoles` |
| | `NothingDiscarded` | `NoneDiscarded` |
| | `LossIsBounded` | `BoundedLoss` |
| `NinaSockets_proofs` | `TypeCorrect` | `TypeOK` |
| | `LeaksAccountedHolds` | `LeaksAccounted` |
| | `OneUserEachHolds` | `OneUserEach` |
| | `DescriptorsOwnedHolds` | `DescriptorsOwned` |
| | `ListensUntilLostHolds` | `ListensUntilLost`, a part of `OneUserEach` |
| | `CasterConnectedOnceHolds` | `CasterConnectedOnce`, a part of `DescriptorsOwned` |
| | `HandedOutListedHolds` | `HandedOutListed`: a phone that `accept()` handed out is in the table |
| `WebServer_proofs` | `TypeCorrect` | `TypeOK` |
| | `BoundedHoldHolds` | `BoundedHold` |
| | `ExchangeHolds` | `ExchangeKept`, the refinement of `HttpExchange` |
| | `RebootIsNextHolds` | `RebootIsNext`, the safety half of `RebootComes` |
| `GnssLink_proofs` | `TypeCorrect` | `TypeOK` |
| | `AgreeHolds` | `AgreeUnlessAmiss` |
| | `SurveyStaysHolds` | `SurveyStays`, the safety half of `SurveyCatchesUp` |
| `TouchUi_proofs` | `TypeCorrect` | `TypeOK` |
| | `TwoTapsHolds` | `TwoTaps` |
| | `ButtonsSayWhatHolds` | `ButtonsSayWhat` |
| | `QuestionTimedHolds` | `QuestionTimed`, the safety half of `QuestionFades` |

The inductive invariants:

* **NtripClient**, `IInv`: beside the three invariants, `Evidence`, by which a
  verdict, or a line in the buffer that will become one, implies that the caster
  granted this connection (without it the step from `HeaderWait` to `Connected`
  does not carry `OnlyGrantedStreams`), and `ApIsIdle`, by which a rover in AP
  mode never associates, so standing down has no socket to forget.
  The healthy stream needs a potential: `Secure` says that what the next drain
  finds is younger than the watchdog's limit by at least the time to the next
  GGA (`GgaWait`), as long as the caster has heard none. A tick takes from both,
  a poll either sends the GGA or leaves both. `AcceptedInTime` is the only way
  in, and there the time since the boot or the last wrap is the slack; a wrap
  before the first GGA takes it away, and is the named exception; a healthy
  rover has a position and is not in AP mode (`Calm`). `DeadlineRuns` needs
  only that the ages grow while there is no peer to fill the buffer: what was in
  the buffer when it died is drained once.
* **NmeaPipeline**, `BufferInv`: the queue is sorted and above the last line
  taken; the ring is sorted, at most the last line taken and above the last line
  heard; both are above the number at which the subscription was seen; the queue
  is empty when the BLE poll runs. That last conjunct is what makes a fresh
  subscription a clean cut. `ClientInv`: a live connection is in the table, the
  slots are pairwise different, and whoever is in it is live or has died since;
  a count of zero means nobody is live, so skipping the clients loses nothing.
  `RefusalMeansFull` builds a bijection from the slots to the connections that
  answer `connected()`.
* **NmeaBuffers**, `ArraysInv`: head is `count` slots after tail, round the end
  of the array, the lines in between are real ones, and there are no more of
  them than slots (`Sound`). `Put`, `Take` and `Flushed` then are `Append`,
  `Tail` and the empty sequence under `Lines`, each a lemma for any size; the
  refinement is one step per action by those.
* **SdLogger**, `FileInv`: an open file is on the card under the present mode
  and the byte count is its length with the tail, so truncating to the count
  cuts nothing; after shutdown none is open. Every step then leaves the card
  alone, syncs the whole of the open file, or creates a new name (`CardMove`),
  and `LogsSurvive` follows. `HoleInv` adds that the open log ends where the
  buffer begins, `AgeInv` that what waits for a sync is younger than the last one.
* **Provisioning**: every step moves memory and file together in one of six ways
  (`StepMoves`): it keeps both, saves, withdraws the flag, loses memory, reads,
  or edits a card that counts as not read. `RoundTrip` says that a load gives
  back what a save wrote, up to the two exceptions, and `StoredInv` adds that
  nothing counts as saved while the rover is off. `RequestInv` is
  `FlagIsARequest` without its premise, for the flag in memory as well: a flag in
  memory would go to the card with the next save of anything.

* **NinaSockets**, `LeakInv`: every taken socket is held by the rover or among
  the orphans (`Known`), and the orphans, with one more for a server that is as
  good as lost (`Doomed`: the link is gone, or is back and the server not yet
  begun again), are at most the drops and misreads (`Count`). Without `Doomed` the
  bound is not inductive: the drop is counted when the link goes, the orphan made
  when the server is begun again. `OwnInv` is about the time until the link is
  lost: `Tables`, by which each open descriptor is in exactly one entry of the
  co-processor's tables and each entry's descriptor is open, for what it should
  be; `Users`, by which the sockets the rover holds are taken, pairwise different
  and connected to the right kind of peer; and `Begun`, by which the server begins
  while the caster has at most one socket and one descriptor, so that neither can
  be missing. That step is why two sockets are assumed at least: with one, the
  server would have none, and the co-processor would read its tables out of
  bounds and might answer the caster's socket. `Users` also says that the table
  holds sockets only: while the server's socket is a server no count of bytes is
  answered, which is all that keeps the numbers in the table meaningful. That
  the server listens and that the caster has one connection follow from `Users` and `Tables`; that a phone once
  handed out is listed needs `LeaksAccounted` as well, since the misreads it
  counts are the only way out of the table.
* **WebServer**, `IInv`: what has been parsed is what the lines read so far say
  (`Reading`, `ReadingBody`), nothing is left of an earlier request while idle
  (`Resting`), and an answer under way is the deserved one (`Responding`). The
  refinement follows step by step. `RebootIsNext` uses that no answer is given
  before the routing, so that the one which arms the reboot is a new request.
  `Timed` relates `held` to `age`: the body does
  not restart the clock.
* **GnssLink**, `IInv`: where in a poll the module is known to have the settings
  (`Confirmed`, `Kept`), and where it counts as found (`Detection`: a failed
  recovery is the one way out of connecting that leaves the flag set, which is
  why `amiss` records it). A `Tune` disturbs one half of `Agree` only, `TuningAgrees`.
* **TouchUi**, `IInv`: an open window is under SURE?, which has its clock running,
  and the first button is that of the page (`Labels`); a press that asked is down for at least as long as
  nothing else was touched (`Lasting`), so its second sample comes after the
  lockout.

Only model-checked: that something happens in the end, in `DeadSocketDropped`,
`Recovers`, `RebootComes`, `LateModuleFound`, `SurveyCatchesUp` and
`QuestionFades`, since fairness and `ENABLED` are outside the prover's reach.
Where that rests on a clock, or on later steps not undoing what was reached, this
is an action property of its own, which the run checks as a conjunct of the
liveness property and which is proved: `DeadlineRuns`, `RebootIsNext`,
`SurveyStays`, `QuestionTimed`, and `HealthyStreamKept` beside `Recovers`. What
then rests on TLC's instance is that time passes and the superloop goes on, and
for `Recovers`, `LateModuleFound` and `SurveyCatchesUp` that the attempts to
connect and to configure come to their end. The violated properties are TLC's
counterexamples.

## 5. Not modelled, and why

Abstracted for good: message text, HTTP and NTRIP header syntax beyond the lines
the code branches on, base64, the drawing of pages, log wording, transmit
counters, free-space figures, the values inside a `VALSET`. `drainOneChunk` reads
up to 512 bytes; a chunk is one such read, whatever its size.

The rover's own code is about 3,100 lines, and every operation of it that
changes state is an action of some module. The rest of the repository's 100,000
lines of C and C++ are not: BearSSL, the BLE host and the ESP32 framework are
third-party libraries the rover links, of which nina-fw's socket table is
modelled because the rover's own hazards live there; its TLS, UDP, file and
preference commands are never sent by the rover. The spikes, bring-up sketches
and soak tools are one-off programs that do not run in the rover.

No module composes all eight polls of the superloop. They share little: the
modules that do share something (the pipeline, the socket table, the settings)
are the compositions above; a product of all would be out of TLC's reach and
would say nothing more.

In `NinaSockets` the web server's sockets are left out: they follow the same
commands, and a fourth user of a table of three would leave no room for the
cases that matter. What happens to descriptors after a loss of the link is in
the model, but only `LeaksAccounted` is claimed of it: a stale object may then
close what another one has opened since.

What could follow: the web server as a third user of the socket table.
