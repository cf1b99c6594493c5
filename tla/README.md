# The irrigation Shield in TLA+

This directory specifies the firmware of igh: a gateway ("Shield", a Particle
Boron) that meters and dispenses water, and the sensor nodes ("Spear") that
report to it by radio. The modules are translated from the C++ under
`src/igh_shield/src` and `src/igh_spear`; TLC checks them on small instances
and TLAPS proves the theorems listed below for every value of the constants.

    tlc -workers 2 -config MCButton.cfg MCButton    check one run
    tlapm Valve_proofs.tla                         check the proofs

`PROJECT.json` lists the runs, the lines each definition models, the hazards of
the code and the mutant that shows each property can fail.

## 1. The system

### Components, their state and operations

| Component (source) | State | Operations | Correct when |
|---|---|---|---|
| Valve (`igh_valve.cpp`) | commanded state, litres and duration of the opening, flow flag, timer flag, one-shot timer; H-bridge and limit switches | `igh_valve_change_state`, `igh_valve_mngr` (arm, check, drive, flow), timer callback | a closed valve keeps nothing of its opening; an opening ends after its litres or its time; the motor rests where it was commanded |
| Irrigation manager (`igh_irrigation.cpp`) | suspended, minimum requested, cooldown over, the last reading; clock timer, cooldown timer | `igh_irrigation_mngr` and its rules, `_by_the_clock`, `_by_sensor_data`, `_by_button`, `_toggle` | no dose passes the day's maximum; the minimum is asked for each day; off is off; a stopped timer leaves nothing behind |
| Flow meter (`igh_water_flow_meter.cpp`) | litres of the day, litres of the opening, write due, reset requested | one-second service, `reset_nv`, `update_nv` | EEPROM never claims water that was not counted; a due write is made |
| Time keeper (`igh_time_keeper.cpp`) | midnight reset done, enabled, day stamp, day watch | `igh_time_keeper_churn`, `_day_watch` | the count irrigation is decided on is the count of this day |
| Settings, EEPROM (`igh_settings.cpp`, `igh_eeprom.cpp`, parts of `igh_message.cpp`) | two running blocks, two stored blocks, commit due | boot, update over MQTT and serial, reset, commit | the Shield runs on what a restart would find; every block is sealed by its checksum |
| Button (`igh_button.cpp`) | the pin, seconds counted, `irrigation_suspended` | one-second timer, `igh_button_mngr` | a press acts for the seconds it was held, once, whichever thread sees the release first |
| Uplink (`igh_message.cpp`, `igh_mqtt.cpp`, `igh_sd_log.cpp`) | one message buffer, one unsent message, files on the SD card | build, publish or store, upload, remove | what reaches the card is stored once, stays until it is sent, and leaves in the end |
| Radio link (`igh_rfm69.cpp`, `igh_spear_rfm69.cpp`, their RFM69 drivers) | modes of the two drivers, the frame each holds, retries, whom to acknowledge | send with retry, receive and copy, acknowledge, set up again | packets are taken in order, each at most once per transmission; no Spear believes in more successes than were acknowledged to it or to all; both sides come back to listening |
| Spear (`igh_spear.ino`, `igh_spear_payload.cpp`, `igh_spear_settings.cpp`, `flash/`) | settings and their copy in flash (which a failed write leaves erased), slots of the sensors, seconds since the last packet | boot, tick and send, settings from the serial port, erase and write | the node runs on what a restart would find; a packet holds what was just read of sensors that were set up, whole; a live node reports |
| Sensor drivers of the Spear | slots only | set up, read | (with the Spear) |
| Boron/hardware, logs | none to speak of | reads and writes of the platform | - |
| SdFat, MQTT, RFM69, ceedling, scripts | vendored or run elsewhere | - | - |

### How they interact

Everything but the timer callbacks runs in one loop,
`igh_application_churn` (`igh_application.cpp:51-65`): boron, messages (serial
settings, commit, sensor data, SD card), time keeper, button, irrigation, radio,
MQTT, restart, valve. The components share state through getters, setters and
globals. The callbacks of the software timers (valve, clock irrigation,
cooldown, flow meter, button, ping) run on a thread of higher priority that
preempts the loop between any two statements; no lock protects what they share.
What outlives a restart is EEPROM (settings, water of the day, a day stamp) and
the SD card.

A Spear has one loop and no other thread than its radio's interrupt. Each of its
packets is sent until the Shield acknowledges it or the retries are used up; the
Shield polls its radio once a pass and hands what it copies to
`igh_message.cpp` for the uplink. Only the Spear's flash outlives its restart.

### What is hard about it

* A timer callback opens the valve, resets the count or fills the message
  buffer in the middle of the same operation of the main loop.
* A timer is its own state: code tests `isActive()`, restarts a timer that has
  just fired, or stops one whose callback alone would have raised a flag again.
* Flags set in one pass are read in the next, after another handler or another
  thread has changed what they spoke of.
* Power fails between a change in RAM and its write to EEPROM, and between two
  writes; after an outage the day is known only by its number in the month.
* An update of settings is applied tuple by tuple and may stop half way.
* On the air packets and acknowledgements are lost and repeated, acknowledgements
  have no number, the two drivers handle an interrupt differently, and ids are ten
  bits on one side and eight on the other, where an acknowledgement to byte 0 is
  one to everybody.

`PROJECT.json` names each hazard at its line, with the properties that watch it.

## 2. The modules

| Module | What it models |
|---|---|
| `Valve` | the valve alone, at the grain of interleaving: every gap of the main loop that a callback could use is a state |
| `Button` | extends `Valve` with the button: the counter its timer and the main loop share |
| `WaterAccount` | flow meter, time keeper, their EEPROM and restarts; the rest of the Shield is an environment of any handlers |
| `Irrigation` | extends `WaterAccount`, replaces its environment by the irrigation manager, the button's commands, the valve, the messages and the three timers; implements `WaterAccount` |
| `Settings` | boot, updates, commit and checksums of the settings |
| `Uplink` | a message from the buffer it is built in to the broker or the SD card, and from the card to the broker |
| `Mailbox` | what store-and-forward promises; `Uplink` implements it |
| `RadioLink` | the Spears' and the Shield's radio drivers, lost frames, retries, restarts |
| `Courier` | what the radio promises; `RadioLink` implements it |
| `Spear` | the sensor node: packets, settings, flash |
| `Valve_proofs`, `Button_proofs`, `WaterAccount_proofs`, `Irrigation_proofs`, `Settings_proofs`, `Uplink_proofs`, `RadioLink_proofs`, `Spear_proofs` | type and safety theorems, the refinements of `Mailbox` and `Courier`, of `Valve` by `Button` and of `WaterAccount` by `Irrigation` |
| `MCValve`, `MCButton`, `MCWaterAccount`, `MCIrrigation`, `MCSettings`, `MCUplink`, `MCRadioLink`, `MCSpear` | the constants of the TLC instances |

### Valve

Variables carry the names of the code (`valve_state`, `open_litres`,
`open_duration` are the fields of `current_valve_ctrl`). `pc` is the place of
the main loop; one round is button, irrigation, then `igh_valve_mngr`: `arm`,
`clear_expiry`, `check`, `drive`, `flow`. Arming is two steps: `Arm` starts the
timer (`igh_valve.cpp:65-66`) or is skipped, and `ClearExpiry` lowers the flag
(line 67), so a timer that fires between them is lost; the check may then find
neither timer nor flag. The four assignments of `igh_valve_reset_state`
are four steps, as the clock timer can open the valve between them (`resume`
says where the loop continues). The writes of an opening are one step: the
callbacks that could fall inside find the valve either closed, and then their
own writes are overwritten, or open. `Drive` and `Travel` are the H-bridge and
the ball between its limit switches. Which litres and duration a request brings
is left open: any of `Amounts` and `Durations`.

### Button

`Button` takes over `Valve`'s variables and replaces the place where its button
may do anything by `igh_button_mngr`: `NoPress`, or `SeeRelease`, one of the
`Press...` actions and `ClearCount`. Between any two of them the timer thread
may `Sample` the pin, which counts the press on (`PressedSample`) or clears it
(`ReleasedSample`), and the `Finger` may press or release. The count has no end,
as in the code; `SampleBound` bounds the samples of one press in a run. `held` is
history: pressed samples since a press last acted, which `CountBacked` says the
count never exceeds, but between an action and the clearing of the count. Every
step is a step of `Valve` or leaves it alone (`ImplementsValve`), so what holds
of `Valve` holds here; the run checks the valve's own properties under the button
all the same.

### WaterAccount

`FlowService(litres)` is one pass of the one-second service. The time keeper is
`NotYetTime`, `TimeToIrrigate`, `TimeUnknown`; the reset it makes
(`igh_water_flow_meter_reset_nv`) is interruptible: `ZeroCount`, `ZeroTotal`,
`EndOfReset`. Neither of the two variables a reset first writes is volatile, so
the build may store them in either order: `flag_first`, chosen for good at the
start from `StoreOrders`, says which. `Reboot` is a power failure at any step,
back in the same hour or up to `MaxOutage` days later. It may also find EEPROM
cleared, water and stamp, as boot does when the settings cannot be read.
`count_day` and `nv_count_day` are history: the day of the oldest litre in a
count. So are `lapse` and `nv_lapse`: in which way, if any, a count has escaped
the reset that was to wipe it (`Lapses`): a midnight at which no hour is before
that of irrigation (or none after it), an outage that ends on the same day of
another month, or the meter's write between the two stores of a reset
(`overtaken`, and `revived` once a restart has taken that total up). A lapse ends
with the next reset. `passed` keeps the clock from running a whole hour without
one pass of the main loop.

The handlers that follow the time keeper in a pass are the constant `Handlers`.
`OtherHandlers` is a step of any of them: it may open or close the valve, zero the
meter of the opening with the closing, ask for a reset, set the hour of
irrigation, and go on to any handler or the next pass. It does not touch the
total, EEPROM or what the time keeper remembers; that the real handlers do not
either is `ImplementsAccount` of `Irrigation`.

### Irrigation

The handlers of the main loop are one step each (two for the irrigation manager:
`TakeUpdates`, then one of the `Rule...` actions, because the clock timer may
fire between them). The valve timer is only active or not here: by `NoStaleExpiry`
(proved of `Valve`) an active timer has no expiry pending, so the flag
matters only within `igh_valve_mngr`, where `ValveExpires` allows it to come.
`Messages` stands for all that arrives: a humidity reading, new settings, the
serial commands. `NewSettings` brings a mode, an hour, a daily minimum and
maximum and an amount for the button, in any order to one another and to an
opening under way (`low`, `high`, `amount`; a minimum may exceed the maximum),
and `DefaultSettings` all of them at once. `limit` is history: the most the day
allowed when automatic irrigation opened the valve, its maximum or, if that is
less than twice its minimum, the latter (`MostOfDay`). MQTT settings are taken after the valve's handler and not
before it; the two touch no common state except what the following pass reads.

The variables and the actions of the account are those of `WaterAccount`, so the
refinement (`ImplementsAccount`) maps each variable to itself, and `Handlers` is
the five places of this module. What it says is that the environment was drawn
wide enough: everything shown of `WaterAccount` holds of the composed Shield.

### Settings

The fifty settings are two values, one for each block with its checksum of the
byte sum; `partial` is history, true from a rejected update that has changed a
block until a later one seals it. `Accept` is an update of which all tuples are
good, `Reject` one that stops at a bad tuple, with any change made before it.
`CommitSystem` and `CommitThresholds` are two writes with a power failure
possible between; one `EEPROM.put` of a block is atomic.

### Uplink and Mailbox

A message is a number. The bytes of a buffer are abstracted to the messages they
may be of: a buffer that is cleared and filled by the main loop while the timer
thread puts a message of its own there may hold bytes of both, and the order in
which bytes are copied makes no difference to which. The main loop builds in
steps: `Begin` (clear the buffer, write the head, read the time), `Body`, then
one of `PublishNow`, `PublishLater`, `PublishNever`. Storing is one step for each
statement of `igh_message.cpp:231-235` and two for the copy: `Stage` (second),
`Copy`, `CopyRest`, `StageLength`, `StageFlag`. The length tells whose call
stored an entry, whatever bytes are in it (`as`). `TimerMessage` is the same for
the timer thread, in one step: its thread outranks the main loop, which cannot
run before it is done. System events need no actor of their own: their handler
runs on the thread of the main loop. `OpenFile`, `WriteFile`, `WriteRest` and
`MarkSaved` are `igh_message_process_sd_data` as the timer thread can interrupt
it, in the middle of the write too; `Upload` and `Remove` are two steps because
power or the card may fail between them. A failure sends a message itself
(`Report`). `mqtt_connected` is what `igh_mqtt_service` saw last, `link` what is
true. `sent` holds the messages whose call of `igh_mqtt_publish_data` found the
connection alive; the code does not look at what `client.publish` returns then,
and which bytes it puts on the air when both threads publish is not modelled. A
file is a second (its name is the time in hex) and holds the entries that were
written to it, in order; an upload sends the first and removes the file. The
directory gives the files in no order that can be relied on (it reuses the places
of removed files), and `igh_sd_log_get_next_file_name` skips its first entry:
`Folder` says that this entry is not a file. A card that goes during a write
leaves the file without the entry; `write`'s result is not looked at. The serial
port also reads into `igh_msg_buffer`, but every build clears it first.

`Mailbox` keeps a set of messages and a set of those sent; it forgets only what
it has sent. `Uplink` maps the first entry of each file to the kept messages.

### RadioLink and Courier

A frame is `Data` or `Ack`. It is heard by any subset of the radios that listen
while it is sent, which is how frames get lost. The drivers differ: the Shield's
interrupt reads a frame out of the chip over the one before (`h_held`), the
Spear's leaves it in the chip, which then hears nothing else until `receiveDone`
(`s_fifo`, `Listen`). A Spear goes through `Report`, then `Transmit` and
`Confirmed` or `Unanswered` until its retries are used up; the Shield through
`CopyPacket`, `Acknowledge`, `Entered`, or `NoPacket` when there is nothing to
copy. `entering` is the place inside the Shield's `setMode` where the chip
already listens and `_mode` does not say so; a frame heard there leaves the radio
`stuck` until it is set up again. The Shield's driver knows a sender by the low
byte of its id (`LowByte`); several Spears may share one, and ids of ten bits are
allowed. A Spear's driver takes an acknowledgement to its own id or to byte 0,
the broadcast address (`ForMe`): the answer to a Spear 256 is one for every Spear
that waits. `Believers` are those the acknowledgement of a packet can reach.
`last`, `repeats` and `owed` are history: what was
copied last, how often, and copies whose acknowledgement can reach a Spear less
the successes it was told of.

`Courier` keeps three numbers for each Spear: the packet it offered last, the one
taken last, and how many takes it has not been told of. A take is owed to all it
can reach (`Reached`). Nothing is taken after something newer, and nothing is
confirmed that is not owed.

### Spear

Settings are the three fields the loop depends on, the byte sum of the others,
and the checksum. `Boot` is `setup`; one pass of the loop is `Resting` or
`Counting` (which counts a second and, if the interval is over, reads the sensors
and sends) and then `NoMessage`, `DropMessage` or `TakeMessage`, the last
followed by `Erase` and `Write`, as the flash erases a row before it writes one.
A `Write` may not take and leave the row erased. The code compares one byte with
what it reads back, the checksum: the node goes on with its old settings
(`igh_spear_payload.cpp:181`), or, if the checksum of the new ones is that of an
erased row, takes the row for its settings, all ones, with the interval `Endless`
(2^31-1 in the model, as TLC's integers end there, for 2^32-1). A write that
takes in part of its pages is not modelled.
`new_data` and `ready` are the slots of the sensors that hold a reading, and
those that have an id and a length. Power fails at any place. The interval
passes through 16 bits (`SixteenBits`). The packet is a set of sensors with its
length in bytes; what becomes of it on the air is `RadioLink`'s.

## 3. What the runs check

| Run | Bounds | Result |
|---|---|---|
| `valve` | presses of 1 s (valve) and 2 s (system), 2 samples each, 2 amounts, 1 duration, pulses 0..2, meter up to 3 | 724,156 states; four invariants, two liveness properties, one action property, the refinement of `Valve` |
| `valve_timeout` | `Valve` alone, meter up to 4 | **violated** `TimedOpeningCloses`: the manager restarts a timer that has just expired |
| `account` | 3 days of 2 hours, months of 2 days, hour of irrigation 0 or 1, changing; outages of up to 2 days; 1 litre; both orders of the stores | 191,462 states; three invariants, an action property, a liveness property |
| `account_reset_lost` | the same, with the order of the text and no litre through a closed valve | **violated** `ResetIsStored`: a pass of the meter between the flag and the zero of a reset writes the old total, and the reset then finds nothing to write |
| `irrigation_safety` | 1 day of 2 hours, both modes, minimum 1, maximum 2, button 2, 2 litres, dry readings | 438,030 states; three invariants, the refinement of `WaterAccount` |
| `irrigation_limits` | always the hour of irrigation, hourly only, minimum 1, maximum 2 or 3, moved by settings, button 2, 3 litres | 183,677 states; one invariant, two liveness properties |
| `irrigation_suspended` | 2 days, hourly only, no readings | **violated** `ClockOnlyWhenOn`: the clock timer outlives the suspension |
| `settings` | 3 x 2 values, one with the sum zero | 1,521 states |
| `uplink` | 3 messages, 2 seconds, a folder on the card; all failures at any time | 440,828 states; two invariants, the refinement of `Mailbox`, one liveness property |
| `radio` | Spears 1 and 256, Shield 7, bytes of 256 values, 1 retry, 2 packets of the first and 1 of the second | 108,108 states; two invariants, the refinement of `Courier`, two liveness properties |
| `spear` | interval 65538, sum of the other settings 186, 5 seconds a packet | 1,781,252 states; five invariants, one liveness property |
| `spear_overflow` | the same | **violated** `PacketFits`: a packet with NPK and air readings is one byte too long for its scratchpad |

The violated properties each state a comment or a document of the repository
(quoted under "findings" in `PROJECT.json`); the system does what the
counterexample shows.

**Why the bounds are enough.** The valve compares litres only with one another
and with zero: two amounts with a meter that runs past both give every order of
flow and amount, and an opening that runs into the amount of another. Three days
in months of two, with outages of two, let a restart skip midnights, and meet a
stamp of yesterday, of today and of the same day of another month; the two hours
lie before and after the hour of irrigation 1, and none before 0; an hour past
the clock's last (every hour before it) is left to the proofs. A maximum that
moves between 2 and 3 while the meter goes to 3 lets the total be below the
minimum, between the limits, at the maximum, past one that was lowered, and past
the one an opening began under.
Blocks of two or three values suffice for equal and unequal blocks with equal,
unequal and zero sums. Three messages in two seconds give a file with two
messages and another file, a message of the timer thread inside one of the main
loop, and a message that reports the failure of another. A press of 1 and of 2
seconds separates too short, valve and system. The acknowledgement of
Spear 256 goes to byte 0, which Spear 1 takes for its own; two packets and one
retry let a late acknowledgement meet a newer packet and a retry. The interval
65538 is 2 in 16 bits and the default is 5, so the seconds count up to each;
`TickBound` stops the count of a node on an `Endless` interval. With 186, and one
type and interval, the settings' bytes sum to zero, and with another to the
checksum of an erased row.

**Fairness.** `Valve`: the main loop never blocks for good (no handler waits on
another), a running one-shot timer fires and a driven motor turns. Requests,
openings and water have none. `WaterAccount`: the flow meter's periodic timer
goes on; `DueWriteIsMade` needs nothing more. In `MeterRuns` the bound on litres
never blocks: a pass without litres is always allowed. `Irrigation`: weak
fairness of the main loop, none for timers, messages or presses. `Settings`: setup
and the main loop go on while there is power, and `AcceptedIsStored` lets a
restart excuse a commit. `Uplink`: the main loop goes round and seconds pass;
that the connection, the network and the card come back is a condition of
`CardDrains` and not fairness. `Button` has the fairness of `Valve`. `RadioLink`:
the Shield's main loop goes on, and so does each Spear that is to transmit, has
waited its time or finds its answer; that any frame arrives is not assumed.
`Spear`: its loop goes on and seconds pass. No spec has strong fairness. All runs
check deadlock.

## 4. What holds only for some constants

This limit was found by changing the constants of the instances; the run stays
within it.

* `CardDrains` needs `Folder`: on a card whose first entry is a file, the last
  file is never uploaded (`igh_sd_log.cpp:133`).

Two properties name the ways in which the code does not keep them:
`EnabledCountIsTodays` excepts counts that a reset has missed (`Lapses`: with an
irrigation hour of 0 nothing resets at midnight, `igh_time_keeper.cpp:66`; day_watch
compares days of the month, `igh_time_keeper.cpp:37-39`; a reset's write overtaken
by the meter's, `igh_water_flow_meter.cpp:95-96`, is taken up by a restart), and
`NvNeverOverstates` excepts the last of these until the restart. The run has all
of them, in both orders of the stores; `account_reset_lost` shows the last one.

A dose is held to the limit it was begun under (`AutoDoseFits`,
`AutoStopsAtMaximum`), because that is all the code does: a maximum lowered
during an opening stops nothing (`igh_message.cpp:959`), and the dose that brings
the minimum is the whole minimum, however little is missing
(`igh_irrigation.cpp:59-69`), so it may pass a maximum below twice the minimum.

Not stated as properties, but seen in the state space: a valve timer that fires
between its start and the lowering of its flag is forgotten, and the check finds
neither (`igh_valve.cpp:66-67`); the flow flag that
`igh_valve_flow_action` raises (`igh_valve.cpp:110`) closes the next opening at once if
the button closes the valve before the manager reads it; a message published on
a connection that has gone since the last pass is lost (`igh_message.cpp:223`), as are
all but the last of the messages staged in one pass (`igh_message.cpp:231`), one
staged between the write of another and its mark (`igh_message.cpp:1476`), and the
second message of a second (`igh_sd_log.cpp:51`); a message of the timer thread
inside one of the main loop leaves its bytes in what the other stores, never
those of an older one (`igh_message.cpp:125`, `NothingOlderIsStored`); a connection
lost between the two looks of a publication loses a message of the card with its
file (`igh_mqtt.cpp:149-152`); a reset in the main loop
interrupted by a service pass may take down the flag that pass has set, so that the
valve closes with no write due (`igh_water_flow_meter.cpp:109`); day_watch wipes
water given today before the irrigation hour if the Shield restarts after it
(`igh_time_keeper.cpp:41-43`), because the stamp is the day of enabling and not
of the count; the clock timer may open the valve between the assignments of a
reset and lose its amount (`igh_valve.cpp:36-38`); unreadable thresholds reset
the system settings as well (`igh_eeprom.cpp:72`); settings whose bytes sum to
zero are taken for unreadable (`igh_eeprom.cpp:43`); the cooldown is stopped with
its flag down, and no reading opens the valve again until a restart
(`igh_irrigation.cpp:213`); the request for the minimum survives midnight and
the next day makes none (`igh_irrigation.cpp:247`).

Of the button: a press whose release the timer thread sees first is forgotten
(`igh_button.cpp:42`); if a build read the counter anew for each comparison, which
this one need not, a press cleared between them would toggle the valve instead of
the system.

Of the radio: a late acknowledgement is believed for a newer packet
(`RFM69.cpp:266`); a Spear above 255 is copied and told so only by an
acknowledgement to byte 0, its own or that of another
(`RFM69-Particle.cpp:324`, `RFM69.cpp:352`, `WideIdsNeedBroadcast`), and the
acknowledgement of a Spear above 255 is believed by the Spear with its low byte;
a frame inside the Shield's
`setMode` deafens it until it is set up again (`RFM69-Particle.cpp:176`,
`DeafUntilSetUp`), which
`ShieldListensAgain` excepts by name.

Of the Spear: an interval of 65536 seconds
is none, and the node sends in every pass (`igh_spear_payload.cpp:263`); a dropped
message that named a new type silences the sensor of the serial port until a
restart (`igh_spear_payload.cpp:170`); settings whose bytes sum to zero do not
survive a restart; a write that does not take leaves the row erased, which the
node does not notice if the new checksum is 255 (`igh_spear_settings.cpp:134`): it
then runs on all ones and sends nothing for 136 years, which `LiveNodeReports`
excepts.

## 5. What is proved

For every value of the constants that meets the named assumption of the module
(`ValveAssumption`, `ButtonAssumption`, `AccountAssumption`,
`IrrigationAssumption`, `UplinkAssumption`, `SettingsAssumption`,
`RadioAssumption`, `SpearAssumption`: types and bounds, that the Shield has none
of the Spears' ids nor the byte 255, which its own driver takes for broadcast and
does not acknowledge, and that `TickBound` is no less than any interval; nothing of
the behaviour):

| Module | Theorem | The invariant behind it |
|---|---|---|
| `Valve_proofs` | `TypeCorrect` | inductive as it stands |
| | `ClosedValveIsClean` | `CleanInv`: a reset reaches "clean" one assignment at a time, so `ResetProgress` says at each place of the reset what is zero by then |
| | `TimerNeverStale` | inductive as it stands, once the place between start and clearing is excepted |
| | `OpeningsMeterFromZero` (action) | `ClosedIsClean`; the clock between two assignments of a reset is the one exception, and the theorem names it |
| `Button_proofs` | `ButtonIsValve` (refinement) | none: each action is one of `Valve`'s, whose button may do anything, or leaves its variables alone |
| | `ValveUnderButton` | none: `ClosedIsClean` and `NoStaleExpiry` of `Valve`, through the refinement |
| | `CountIsBacked`, `EveryPressActsOnce` (action) | inductive with the counter a natural number; an action needs as many samples as the counter shows |
| `WaterAccount_proofs` | `TypeCorrect` | inductive as it stands |
| | `NvIsNeverAhead` | `NvInv`: inside a reset EEPROM is behind, unless the meter has made the due write itself |
| | `CountIsOfToday` | `TodayInv`: unless a lapse is noted, where the stamp stands against the days of the two counts (`StampInv`), that both counts are of today from the first pass of a day on (`DayInv`), and that the last pass of a day takes `midnight_reset_done` down (`KeeperInv`) |
| | `ResetsOnce` | `NotedInv`: who is about to zero the count has first noted that midnight's reset is done |
| `Irrigation_proofs` | `IrrigationTypeCorrect` | the account's types and `Flags`; one lemma, `StepValues`, lists what a step can give each variable |
| | `ClockStopsForSensors`, `CooldownIsKept` | inductive, the second together with `Flags` |
| | `AutomaticDosesFit` | `DoseInv`: what is counted since an opening is part of the day's total, so total less count plus the dose is what the opening was decided on, which `limit` keeps when the settings change; `AutoOpen`: an automatic opening is an open valve's |
| | `IrrigationIsAccount` (refinement) | `Flags` and the account's types. `ButtonValve` to `Messages` are each a step of `OtherHandlers`, the clock's opening one of the meter's environment, the other timers leave the account alone |
| | `NvIsNeverAheadHere`, `ResetsOnceHere`, `CountIsOfTodayHere` | none: the account's theorems, through the refinement |
| | `RulesDecideOnToday` (action) | `CountIsOfTodayHere`, and that every rule that opens stands behind the time keeper's `enabled` |
| `Settings_proofs` | `TypeCorrect` | inductive as it stands |
| | `RunsOnWhatIsStored` | `HalfWay`: what a boot has read and a commit has written between their two blocks |
| | `RunningBlocksAreSealed` | `SealedInv`: the boot seals or accepts the system block first |
| | `WritesAreSealed` (action) | `SealedInv`: the commit copies what it says is sealed |
| | `WhatABootTakes` (action) | `BootInv`: what became of the system block when the boot comes to the thresholds |
| `Uplink_proofs` | `TypeCorrect` | with the places a message may return to (`Resumable`) |
| | `UplinkIsMailbox` (refinement) | `UploadedIsSent`: the file about to be removed still begins with what was sent. Every step is then a `Keep`, `Send` or `Forget` of the mailbox or a stutter; a removal is a stutter if another file begins with the same message |
| | `EveryMessageIsStoredOnce` | `OnceInv`: numbers grow, and while a message is built nothing is written to the card, so what the buffer and new_data_point hold in the middle of a copy or a write, whoever filled them, is younger than all that is stored |
| | `NothingOlderIsStored` | `FreshInv`: from the copy of its length on, what waits or is being written has no byte older than the message of its length |
| | `ReplacedByYounger` (action) | `BufferYoung`: while a message is built, the buffer holds bytes of one at least as young as any that waits |
| | `FilesAreWholeOrGone` (action) | `UploadedIsSent` |
| `RadioLink_proofs` | `TypeCorrect` | `LinkInv`, as what is owed is a natural number only because every acknowledgement on its way is owed to all it can reach |
| | `RadioIsCourier` (refinement) | `LinkInv`: `HeldInOrder` for the order, `OwedForAcks` for the successes |
| | `NoEndlessRepeats` | `CopiesBounded`: copies made, and one more if the packet still waits, are at most the transmissions |
| | `WideIdsNeedBroadcast` (action) | `AckBytes`: an acknowledgement is addressed to the low byte of some Spear, which no wide id is |
| | `DeafUntilSetUp` (action) | `StuckInv`: a deaf Shield holds nothing and is on its way back to polling |
| `Spear_proofs` | `SpearTypeCorrect`, `NodeRunsOnFlash` | `SettingsTyped` and `RunsOnFlash` together: what is sealed reads back unless it sums to zero, and what is neither sealed nor the default is an erased row |
| | `PacketsAreFresh`, `ReadsOnlySetUp`, `PacketsAreCarried` | `PacketInv`: no slot keeps a reading, and (`SetUp`) the slot of the selected type was prepared |
| | `OverrunsAreNpkWithAir` | `PacketShape`: a packet has the base and at most one of the two serial sensors; then the one set of readings that is too long is found by counting |
| | `CountNeverOverflows` (action) | a packet is due at the interval, which 16 bits hold unless it is that of an erased row |
| | `FlashBeforeUse` (action) | the row is erased when the write comes (`at = "write" => flash = Erased`), and new settings are used only when they, or an erased row with their checksum, have been read back |

Three of these theorems draw the line around a defect that section 4 or a run
shows: `OverrunsAreNpkWithAir` says that the counterexample of `spear_overflow`
is the only one, `NothingOlderIsStored` in which direction alone what is stored
is torn, and `WideIdsNeedBroadcast` what a Spear above 255 depends on.

So every invariant, action property and refinement that the passing runs check
is proved, with no further condition. Liveness under fairness and ENABLED are
outside the prover: `OverrunCloses`, `SettlesWhereCommanded`, `DueWriteIsMade`,
`AutoStopsAtMaximum`, `HourlyKeepsItsTimer`, `AcceptedIsStored`, `CardDrains`,
`SendingEnds`, `ShieldListensAgain` and `LiveNodeReports` are model-checked only.

## 6. What is not modelled

* `igh_irrigation_over_mqtt`: nothing calls it. An `auto_irrigation_type` that is
  neither of the two: the settings ignore it (`igh_message.cpp:466-480`).
* The conversion of pulses to litres (`igh_water_flow_meter.cpp:63-75`); litres
  are natural numbers. Changes of the time zone. A duration of zero.
* The flags with which `igh_message.cpp` tells other parts of a changed setting,
  except those `Irrigation` reads.
* Clearing the card (`igh_sd_log_clear_sd_data`: only a self-test that nothing
  calls) and the broker's address. An empty file that a failed write leaves.
* The bytes of settings and events. `Settings` and `Spear` let an update leave any
  values a walk over its tuples may leave, which includes what the walk does at
  its edges: a serial update that comes in two pieces is walked with what is
  missing read as zeros, the counter of bytes wraps at eight bits, an unknown
  tuple ends the walk. What the walk computes from given bytes is data without
  protocol. An update over MQTT that succeeds also reports an unknown command.
* Replies to requests for settings (`igh_message.cpp:976-1190`): the reply is
  built in one buffer and sent at once; its first 19 bytes are not initialised
  and its length does not fit its byte, which no state of this project depends on.
* The radios' self-tests, power levels, encryption and listen modes. The wait for
  a free channel: it makes losses rarer, not impossible.
* What the Spear's sensors measure, and their timeouts: a service either fills
  its slot or, for the air, may fail.
* Boron, hardware and logs: reads and writes of the platform with no state of
  their own. SdFat, MQTT and the register tables of RFM69: third-party code.

## 7. Plan

In the order of what matters most to the fields the Shield waters:

1. done: `Valve`, `WaterAccount`, `Irrigation`, `Settings`, and the proofs of
   section 5.
2. done: `Uplink` and its abstract specification `Mailbox`.
3. done: `Button`, on top of `Valve`.
4. done: `RadioLink` with its abstract specification `Courier`, and `Spear`.
5. done: the proofs of `WaterAccount`, `Irrigation`, `Button`, `RadioLink` and
   `Spear`; `Irrigation` as an implementation of `WaterAccount`.
6. left: a dispenser as the abstract specification of `Valve`, which would let
   `Irrigation` take its valve from a contract; the order in which the card's
   files leave it; `Codec`, the walk over settings tuples as a recursive
   function against a reference definition; and `Spear` composed with
   `RadioLink`, which now share only the packet.
