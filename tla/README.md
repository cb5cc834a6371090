# W230 gear indicator: TLA+ models

The repository is the firmware of a gear indicator for the Kawasaki W230 (an
ESP32 with a 5x5 LED matrix, wired to the neutral switch and to the K-line of
the ECU), the iOS app that talks to it over BLE, and the hosting of its
over-the-air updates. This directory holds TLA+ models of the firmware and of
the app's side of the link, TLC configurations that check them, and TLAPS proofs
of every safety property that a passing run checks.

## Inventory

| Component | Source | State | Operations | Talks to | What makes it correct |
|---|---|---|---|---|---|
| Classifier | `core/src/gear.rs` `classify`, `time_align_rpm` | none | ratio → gear, confidence | estimator | nearest band, windows and launch rule agree |
| Estimator | `core/src/gear.rs` `GearEstimator` | bands, gear, candidate, run and standstill counters | `update`, `set_bands`, `clear_bands` | poll loop | never a stale N, no gear committed early, none lost, a digit forgotten at standstill and only there |
| Poll loop, LED thread | `esp32/src/main.rs` | link, previous rpm, cycle, last frame, channel of 4 frames | one iteration; `neutral_tick` between reads | ECU, estimator, LED thread, OTA worker, BLE | the matrix follows the gearbox in spite of dropped frames, installs and restarts |
| OTA worker | `esp32/src/ota.rs`, self-test in `main.rs` | request queue, manifest, download, shared status, two slots and otadata | check, install, mark valid, reboot | main loop, bootloader, server | a working image is always at most two boots away; no downgrade; nothing kept without a self-test |
| Manifest | `core/src/ota_manifest.rs` | none | `parse`, `decide` | OTA worker | only newer versions |
| Learner and its store | `core/src/learn.rs`, `esp32/src/learn_store.rs` | histogram, NVS blob, black box | `add_sample`, `save`, `derive_bands`, `clear` | poll loop, NVS | bands follow the peaks and keep their order; key-off loses only what was not saved |
| K-line | `core/src/kds_proto.rs`, `esp32/src/kds.rs` | link state, UART buffer | fast init, request, response | poll loop, ECU | an answer belongs to its request |
| BLE server | `esp32/src/ble.rs`, `core/src/ble_proto.rs` | connections, subscriptions, attributes, command channel of 8 | GAP/GATT callbacks, `publish`, `notify` | app, poll loop | handles, links and subscriptions match; every write is applied once or refused; nobody waits for ever |
| Configuration | `esp32/src/config_store.rs` | WiFi, policy, brightness, manifest URL in NVS | setters | loop, worker | a reboot keeps the settings, no password beside an older network |
| Bluetooth formats | `core/src/ble_proto.rs`, `ios/.../W230Protocol.swift` | event ring | `encode`, `decode`, `to_json`, `ota_status_json` | server, app | both sides agree; nothing is guessed; texts are cut between characters and fit |
| WiFi station | `esp32/src/ota.rs` | driver, modem, up flag | connect, idle disconnect | worker | one owner of the modem, every attempt reports an end, the driver released when idle |
| iOS app | `ios/Sources` | session, pending reads, timeouts | scan, connect, read, command | BLE server | no read waits on a dead link, the last status is shown, the link comes back by itself |

What is hard to test here: two threads and an LED thread that share channels
with a bound and a `try_send` whose result is ignored; a fast path that sends
frames behind the back of the loop's own bookkeeping; power that is cut at any
instant by the ignition key, also between two writes to flash; state that is
read, then used seconds later (the `moving` flag, the manifest, the
credentials); a single wire on which an answer is told from the next only by
when it comes; stack callbacks that lag behind what the phone does, on both ends
of the Bluetooth link; counters that must mean something over long sequences of
samples. The list, line by line, is in `PROJECT.json` ("hazards").

## Modules

**GearClassifier**: constants and pure operators of `gear.rs`. The code
computes in `f32`; the model compares the cross products of the same quotients
in integers (band centres in tenths), which is the real-valued meaning of the
code. Rounding of `f32` is not modelled.

**GearEstimator**: the estimator as a record with the fields of the struct.
`update` is the composition of the stages of the function of that name:
`CommitNeutral` (switch closed, early return), `DropNeutral`,
`DecayAtStandstill`, `RawGear` (register, clutch, ratio), `Debounce`.

**GearEstimatorSpec**: the estimator as a state machine under an arbitrary
caller (any sample, `set_bands`, `clear_bands`). `last`, `seen` and `still`
observe the samples and are read by no action. Properties and the inductive
invariant are here; `GearProofs` proves them, `MCGearEstimator`
instantiates it.

**ClassifierSweep**: walks a grid of rpm and speed, so that invariants hold for
each reading and action properties compare neighbours. `GearProofs` is about
every reading and every calibration.

**PollLoop**: `main.rs` from the top of an iteration to the push of the frame,
cut where time passes: before each register read and before the end of the
cycle. `Top`, `TopWhileWriting` and `TopAfterFailure` are the three ways
through the first part of an iteration (the last two are its `continue`s).
`ReadRpm` and `ReadSpeed` each end with a `neutral_tick`. `Finish` derives bands
when the learner saved, samples the wire, updates the estimator and pushes the
frame. The LED thread takes one frame at a time. A frame is a glyph and a
brightness. `Disturbances` selects what else happens in an instance, so that
each run affords the ones it is about.

**Ota**: three actors. The worker's actions end where it blocks or publishes
(`CheckWifi`, `Fetch`, `StartInstall`, `InstallWifi`, `OpenDownload`,
`ReadChunk`, ..., `Activate`, `Reboot`). The main loop mirrors the worker's
state, asks for the boot-time check, runs the self-test, passes on the app's
commands and reports motion. `Reset` is key-off at any instant. Slots, otadata
and bootloader are ESP-IDF's and modelled from how the code relies on them: a
new image boots once as pending, a pending one is given up at the next reset,
`esp_ota_begin` refuses while the running image is pending. A download is a
number of units; what the server sends may have the wrong length, descriptor
or digest. An image is a version and whether Bluetooth can start in it, which
is what the self-test looks at; even then Bluetooth, the worker or the LED
channel may fail in a particular boot.

**UpdateContract**: what an owner may rely on, without slots, queues or threads:
a current image, one known to work, at most one staged; `Stage`, `Try`, `Keep`,
`FallBack`. `Ota` maps its slots to it and `ImplementsContract` is the
refinement.

**KdsProto**, **Kline**: the frames of `kds_proto.rs` byte for byte (checksum,
the two places a length can be in, positive and negative answers, decoding), and
`kds.rs` with the part of the loop that drives it. Nothing links one exchange to
the next but the UART's FIFO, so an exchange (request, echo discarded by count,
answer) is one step on the bytes that reach the FIFO in time. A fault
(`Disturbed`) loses the first byte of an echo or puts noise before it, cuts an
answer short after any number of its bytes, loses any one byte of it or adds
noise anywhere in it, delays it, or holds the line low; the ECU may lose its
session; an update pauses polling. An answer that has itself lost or gained a
byte can be misread: `parse_response` tolerates a missing checksum
(`kds_proto.rs:118`) and `read_response` only warns of a wrong one, so with one
data byte lost the checksum is taken for data. `garbled` names the registers
whose last answer was such a one, and `NoForeignValue` excepts them: it is about
everything after and around the damage. Bytes that change their value on
the wire are outside the fault model for the same reason: a value could not be
told from them.

**Histogram**, **HistogramSweep**: `learn.rs`: sampling with its rejections and
saturating bins, the boot marker, `peaks` and `derive_bands` on exact fractions.
The loops of `peaks` and `derive_bands` are functions that count up.

**LearnStore**: the learner with its two NVS blobs. A save is two writes, each of
which may fail, with key-off before, between and after; the timer's save also
derives the bands. Of the black box the boot and link-drop counters stand for
all.

**GattServer**: `ble.rs`, the two channels and the places of the main loop that
drain them, notify and publish. The stack adds one attribute at a time and
reports it; `pending` tells the callback what the report is about. Phones
connect, subscribe, pair, write (in one piece or as a long write) and leave while the
callback is up to `MaxBehind` events behind. The stack may report that advertising data could
not be configured, or refuse to start advertising: the callback returns the error
and nothing tries again. The Bluetooth stack is external:
it stores and acknowledges writes by itself, hands descriptor requests and
pairing to the callback, stops advertising on a connection. The callback's
list of connections is a set of records, one per phone, and a capacity. MTU and
the encryption itself are left out; a written value is an identity and whether it
decodes; of the published values one that does not change is followed.

**WifiSetup**: the configuration store key by key, the main loop's commands on
it, and the worker's `wifi_connect` with its early returns: who has the modem,
the driver, what the radio joined and the status the app reads. The networks an
app sends are numbered in their order, so that "older" is "smaller".

**AppSession**: `BLECentral` and `DeviceSession`. Delegate callbacks become tasks
that the main actor runs in their order, between the user's actions. A task
group that timed out waits for its other child, as Swift's structured
concurrency has it. One attribute stands for those that are subscribed to and
read again on a notification. `ReadsAreAnswerable` counts the callers that wait
against the reads asked of all indicators and the answers queued, since
`pendingReads` is kept by characteristic and not by indicator. Scanning is
possible in every state, as in the app: started while connected it leaves a live
link behind a session that says `scanning`, then `idle`. The indicator and
CoreBluetooth are external.

**Wire**, **WireSweep**: commands, credentials and the live packet as bytes,
from the firmware's code and from the app's: every short byte string, every
command the app's screens send (`Commands`) and every boundary status through
both. Lengths are scaled (names of 2 bytes, passwords of 3, a scheme of two
letters); trimming removes blanks. The ratio of the live packet is one token, not
the four bytes of its `f32`, so that conversion is not checked. A command or
credentials cut short are refused, with one exception: nothing in
`SetManifestUrl` says how long the address is (`ble_proto.rs:192`), so a
beginning of it that still has the scheme passes for the whole, and an empty one
for the built-in address.

**Attributes**: the event ring and the JSON bodies that must fit 512 bytes. A
text is a sequence of the kinds of byte the code tells apart, with characters of
one or two bytes (the code's have up to four, so its truncation may step back
three times where the model's does once); limits are scaled,
the proportions (an event of control characters only still fits) are an
assumption of the module.

**Octets**: bytes, and the sum that checksums and lengths are made of.

**MCAlgorithms** puts the sweeps of `ClassifierSweep`, `HistogramSweep`,
`WireSweep` and `Attributes` side by side: each behaviour sweeps one of them.

Operators whose comment begins with "Mutant:" are faulty variants of the
definition after them. Nothing uses them; replacing the definition by one of
them makes TLC report the property `PROJECT.json` names.

## Runs

| Run | Question | Bounds | Result |
|---|---|---|---|
| `estimator` | Do the estimator's promises hold over any sequence of samples? | the code's own constants (3, 2, 8, 255); a confident 2nd, an unsure 1st, standstill, no reading; full and partial bands | holds |
| `algorithms` | Do classifier, peaks and bands, message formats and attribute bodies compute what they should? | 0..10500 rpm by 150, 0..110 km/h, three calibrations; up to three filled bins out of 25 around the highest gears; byte strings up to 5, with every opcode first; every command, addresses up to 4 characters; statuses at their boundaries; four texts, four notes, an attribute of 26 bytes; deadlock off: sweeps end | holds |
| `display` | How long can a stale N stay? | the code's refresh of 8 cycles, channel of 2, debounce and decay of 2; learning and app commands | less than one refresh period |
| `display_live` | Does the matrix follow a gearbox that comes to rest, with failing LED writes, installs, failures, restarts and self-test? | channel of 1, refresh of 2; only the link's presence matters, not speed | holds |
| `ota` | Is a working image always in reach, is the contract implemented, does a download end, is the verdict heard? | three releases, the last one bad; queue of 2; images of 2 units, descriptor in the first; minimum version none or 2 | holds |
| `kline` | Is a value the answer to its request (unless that answer lost or gained a byte), and does the link come right by itself? | three faults, resets or pauses; two rpm and speed values, three interlock words; interlock in every second cycle | holds |
| `learn_store` | Do samples survive failing writes and key-off, and only a wipe forgets them? | two gears' bins and four readings that must not count; bins full at 2; three boots, one wipe, one unreadable blob | holds |
| `gatt` | Do handles, links, subscriptions and writes stay right, and does nobody wait for ever? | three characteristics, one with a descriptor; two phones, three writes; channels of one; callback two events behind; one failing event; deadlock off: phones may be done | holds |
| `wifi` | Do credentials, modem and status stay consistent? | three networks, one open; queue of 2; one fault, one power cut; deadlock off: the app may be done | holds |
| `app` | Is the app's session usable, current and persistent? | one indicator, two status changes, one key-off or failed connection, three user actions, one time-out; deadlock off: the user may be done | holds |
| `stale_n` | Is N off the matrix when the estimator has dropped it? | channel of 4, refresh of 8 | violated |
| `kline_late` | Is a value the answer to its request also when an answer comes behind the next echo? | one fault | violated |

Why the bounds are enough. The estimator runs with its real constants; two
readings per kind suffice because `update` tells samples apart only by the
class and the confidence the classifier gives them. In `PollLoop` the
debounce is already covered, so its constants are small; what matters is the
order of wire, ticks and frames, for which a channel of one or two frames is
full soonest. In `Ota` three releases give an update, an update of an
update and a rollback; a queue of two is full when the code's queue of four is,
and long enough for a verdict to stand behind another request or before one. The
proofs of the safety properties hold for every length. On the K-line three faults reach
every combination of a disturbed handshake, a disturbed read and a lost session;
a fault more only repeats them, since a reconnection drains the FIFO. A learner's
bin that saturates at 2 does what one at 65535 does. Channels of one are full at
once; three writes fill one and use the other. Three networks are an old, a
current and a new one.

Every state machine has a `TypeOK`. Those of the estimator, `Ota`, `LearnStore`,
`WifiSetup`, `GattServer` and `AppSession` are proved; the others hold on these
instances too but are in no `.cfg`, which name what could go wrong rather than types. Where a property is a conjunction
(`ClassifiedRight`, `PeaksFound`, `DecodesWhatWasSent`, `EventsShownWhole`,
`NobodyWaits`, `AttemptsEnd`, `WorkerServes`), its parts are named and commented
in their modules.

Conditions of the passing runs, each a constant of its module:

- `kline`: `VeryLate = FALSE`, an answer is never so late that it comes behind
  the next request's echo (`kline_late` shows what then happens), and no first
  data byte is in 129..191 (see below);
- `gatt`: `Overlap = FALSE`, a phone does not write again before the callback
  has had its last write; everything else may overlap; that a phone can come
  back is claimed unless the stack refused to start advertising;
- `wifi`: the driver calls fail at most `MaxFaults` times in all. What a cut or
  failing `set_wifi` can leave, the new network's name beside the old password, is
  a state of the model: the properties exclude only the reverse, and hold settings
  to survive a reboot only between commands;
- `algorithms`: everything but the notes in the update status fits the attribute;
- `app`: one indicator, and `ComesBack` is about one whose service is built
  before the phone connects.

Fairness. The loop never blocks (its reads time out), so it is weakly fair; an
ordinary `Top` is strongly fair because the cross is up for four seconds and
not for ever. The LED thread runs on its own core and not every write fails
(strong fairness of `LedWrite`). The worker's blocking calls end by timeout. A
restart that was announced happens. On the K-line `Reconnect` is strongly fair
because `RECONNECT_INTERVAL` passes, and the break because the UART does not
refuse it for ever. In the learner the timer's save is strongly fair (it is due
again and again between other saves) and a flash write does not fail for ever.
In `WifiSetup` the worker's read of the credentials is strongly fair because the
lock it waits for is released between commands. The Bluetooth task and the main
loop run; the phone's main actor runs its tasks, CoreBluetooth makes the
connections it can make, and a powered indicator builds its service and serves.
Nothing is assumed of the rider, the ECU, the app or the ignition key;
`NeutralShown` and `NeutralCleared` are about a gearbox that comes to rest and a
machine that is not restarted for ever, `WorkerServes` about an app that stops
asking.

## Where code and comments disagree

Two runs show a disagreement:

- `stale_n`: `neutral_tick` sends a frame without telling `last_frame`. If the
  switch closes for part of a cycle only, the N it put up stays until the
  refresh, up to eight cycles, although `gear.rs` says a stale N must be dropped
  at once. `display` shows that the refresh does take it off.
- `kline_late`: an answer that comes after `RSP_TIMEOUT`, when the next request
  has been sent, lies behind that request's echo and is parsed as its answer;
  `positive_data` accepts a payload without the register's id, and every later
  read lags by one answer.

The others are stated in their modules as promises the code does not keep. To
see the behaviour, add the property to the `.cfg` named, with the change named.

| Property | Config, change | What happens |
|---|---|---|
| `Ota!DownloadStartsStopped` | `MCOta` | `install` reads `moving` before WiFi connects and not again; `ota.rs:14` says the bike must not be moving |
| `Ota!DescriptorBeforeWrite` | `MCOta`, `DESC_END = 2` | a first read shorter than the descriptor is written before the check; `ota.rs:20`. The slot is inactive, so nothing worse follows |
| `Ota!PendingVerifyReported` | `MCOta` | `pending_verify` in device-info turns false after a failed self-test, while rollback is armed; `ble_proto.rs:325` |
| `Ota!PassedSelfTestIsKept` | `MCOta` | a full request queue drops `MarkValid`; the image that passed is rolled back at the next key-off; `main.rs:437` |
| `Kline!InterlockNotStale` | `MCKline` | when an update pauses polling the old interlock value stays and is sent on, unlike at a dropped link; `main.rs:615` |
| `Kline!LinkRecovers` | `MCKline`, `SpeedData = {<<130>>}` | with a data byte in 129..191 a frame parsed out of step passes for a short one: nothing drains the FIFO while some value still decodes, and every read stays out of step |
| `LearnStore!CalibrationCompletes` | `MCLearnStore` | a save at a dropped link clears the dirty flag; the timer then has nothing to write and does not derive the bands; `main.rs:647` |
| `GattServer!AdvertisedIsBuilt` | `MCGattServer` | advertising waits for the advertising data, not for the characteristics; `ble.rs:264` |
| `GattServer!PhoneCanReconnect` | `MCGattServer`, `advertising = "on"` for `# "off"` | a refused `start_advertising` is not tried again: nobody finds the indicator until a restart; `ble.rs:433`, `ble.rs:574` |
| `GattServer!NeverReadsEmpty` | `MCGattServer` | `PublishedCache` records a value as published before its characteristic has a handle; a value that never changes is never written; `main.rs:763` |
| `GattServer!AppliedInOrder` | `MCGattServer` | all credentials are drained before any command: written after `forget`, they are stored first and then forgotten |
| `GattServer!AppliedOnce` | `MCGattServer`, `Overlap = TRUE` | `ExecWrite` dispatches what the attribute holds when the callback runs: a plain write stored meanwhile is applied twice, the long one not at all; `ble.rs:801` |
| `WifiSetup!ModemKept` | `MCWifiSetup` | `BlockingWifi::wrap` failing (`ota.rs:361`) drops the driver with the modem: no WiFi until a restart; `ota.rs:177` |
| `WifiSetup!NewNetworkTried` | `MCWifiSetup` | connected already counts as success, also when the credentials have changed; `docs/ble-protocol.md:78` |
| `WifiSetup!ConfiguredIsTrue` | `MCWifiSetup` | a worker that is connecting publishes `configured` after `forget` has reset it |
| `Attributes!RenderingEnds` | `MCAlgorithms`, a member of `MCOthers` above `MAX_ATTR_LEN` | with an error text that alone exceeds the attribute, `ota_status_json` calls itself for ever; `ble_proto.rs:503` says the notes are the only unbounded field |
| `AppSession!TimeoutEnds` | `MCAppSession`, `PhoneSpec` | after its time-out a task group waits for a continuation nobody resumes; `BLECentral.swift:29` |
| `AppSession!ConnectedIsUsable` | `MCAppSession`, `Indicators = {a, b}` | a late disconnection of one indicator throws away the link to the other; `BLECentral.swift:4` |
| `AppSession!ScanKeepsSession` | `MCAppSession` | the Scan button works while connected (`ScanView.swift:61`): `startScan` overwrites the state, the link stays up but `isConnected` is false until the user connects again or the link is lost; `BLECentral.swift:61` |
| `AppSession!ComesBack` | `MCAppSession`, without `built[i]` | a connection made before the service is built finds no characteristics and is not retried |

## Proofs

`GearProofs` proves, for all values of the constants that satisfy
`DebounceAssumption` and `InputAssumption` (any debounce and decay lengths that
fit the counters, any readings, any gear register, any band tables), that every
behaviour of `GearEstimatorSpec` satisfies the type invariant,
`NoStaleNeutral`, `SteadyRatioShown`, `StandstillForgets`, `DebouncedCommit` and
`ForgottenOnlyAtStandstill`.

None of these but `NoStaleNeutral` is inductive: they speak of the samples of
the past, of which the code keeps two counters. `IInv` says what the counters
mean: `stable` counts the latest samples that agree with the candidate
(`StableCounts`) and misses none (`StableCountsAll`), a candidate that is
counted long enough is shown (`StableIsCommitted`), `standstill` is the number
of standstill samples while a digit is held (`StandstillCounts`). The proof
states what each stage of `update` does to the record (`DropNeutralResult`,
`DecayResult`, `DebounceResult`, ...) and puts the stages together once for the
switch closed and once for the switch open.

`OtaProofs` proves, for all releases, image sizes and queue lengths that satisfy
`OtaAssumption`, that every behaviour of `Ota` satisfies the type invariant,
`AlwaysRecoverable`, `NoDowngrade`, `KeptOnlyAfterSelfTest` and
`WritesInactiveSlotOnly`, with power cuts between any two steps. The properties
speak of the two slots; that they hold rests on what the worker and the main
loop have in hand. `IInv` of `Ota` adds it:

- `RunningFlash`: the running image is trusted (kept, or flashed over USB), or
  on probation, newer than the image in the other slot, which is trusted;
- `SelectedSlot`: a reset starts the running slot, except between the
  activation of an update and the restart, when it starts a complete and newer
  image while the running one is trusted;
- `ManifestIsUpdate`: the manifest at hand is newer than the running image;
- `WritingFromTrusted`: the other slot is written only while the running image
  is trusted, and after the download it holds the manifest's image;
- `VerdictFromHealthy`: a `MarkValid` is in the queue only if Bluetooth is up
  in the image that runs.

`BootFlash` says what a reset makes of such a flash: the trusted image stays or
comes back, or the new one starts on probation. The proof has one lemma for the
reset, one for the main loop, and two for the worker (up to the
download, and from there on).

`OtaProofs` also proves `Spec => ImplementsContract` for the same constants:
every step of `Ota` is a step of `UpdateContract` or leaves its state alone. It
rests on `IInv`: that the flash written during a download belongs to a slot the
contract does not see needs `WritingFromTrusted`, that an activation is a
`Stage` needs `ManifestIsUpdate`, that `MarkValid` is a `Keep` needs
`VerdictFromHealthy`, and that a reset is `Try`, `FallBack` or nothing needs
`RunningFlash` and `SelectedSlot`.

`LearnStoreProofs` is about the learner. For every histogram, of any number of
bins and any counts, it proves what `peaks` and `derive_bands` compute:

- `PeaksFound`. The candidates are finitely many, one to a bin, and can be sorted
  (`SortedExists`: the weakest goes last); an enumeration as long as the set has
  every member (`EnumerationIsWhole`). What the greedy loop has accepted after k
  candidates is pairwise separated, and each one dropped lies by an accepted one
  of at least its mass (`Chosen`): the sorting is what makes it "at least". That a
  heavy bin yields a candidate is shown by the last bin of the greatest smoothed
  count, plateaus and both ends of the range included (`HeavyBinMakesCandidate`).
- `BandsFollowPeaks`. After k peaks each gear has the strongest of its own among
  them or the factory's value (`Fits`). The order of the gears follows from where
  a peak can be nearest to a gear: two neighbouring bands change places at their
  harmonic mean, every peak lies on its gear's side of it (`NearestSide`), so do
  the factory's values (`FactorySide`), and a tie goes to the lower gear. This
  needs ratios above 0, which a peak has because bins start at `RATIO_MIN`.

It then proves `TypeOK` of `LearnStore` (the total of a histogram is the sum of
its bins, in RAM and in flash, and no bin outgrows its width; it assumes that the
boot marker's cap is not above a bin's), and with it `LearnedBandsInOrder`: in
every reachable state the bands that the learner's histogram yields descend,
which is what the theorems about the classifier ask of a table.

And it proves `CleanMeansSaved` and `OnlyWipeForgets` for any readings, any size
and limit of the bins and any number of boots, wipes and failures. `LInv` adds that a histogram is being written only while it is dirty
and that the one in RAM has, bin by bin, at least what is in flash unless this
boot wiped it or could not read it; `BumpGrows`, `SampleGrows` and `MarkGrows`
say that sampling and the boot marker only ever add.

`WifiSetupProofs` proves the type invariant, `RebootKeepsSettings`,
`PasswordNotForOlderNetwork` and `SingleOwner` for any number of networks,
faults and power cuts and any queue. `WInv` adds what the two keys are while a
command is between its writes (`MidCommand`) and that the worker has a driver
when it gets to use it (`DriverInUse`).

`GearProofs` is also about `classify` for every reading. For a descending
table of any length, full or partial, the search for the smallest relative
error finds the gear whose interval holds the ratio (`NearestBandIsInterval`):
two bands change places at their harmonic mean (`CloserBand`), and descending
bands have descending means. From it follows that the gear goes down with the
revs and up with the speed (`GearFollowsRatio`). `ClassifiedRight` adds that
where `classify` is confident no other band could claim the reading; it needs
the confident windows not to meet (`ConfidentApart`). `FactoryBandsAreApart`
shows that the firmware's own table meets both hypotheses; for learned tables
`derive_bands` guarantees only that they descend and that two learned bands are
more than 6% apart, so the hypothesis is stated and not assumed of the module. `AlignmentIsClamped` says that
`time_align_rpm` corrects a reading the way the revs are going and by at most a
tenth. All in exact arithmetic; `f32` is not modelled.

`PollLoopProofs` proves `StaleNBounded` for any channel, any refresh interval,
any readings and any of the disturbances. `IInv` of `PollLoopProofs` ties the
count of stale cycles to the loop's cycle counter (`StaleSinceRefresh`): the
cycle with number 0 sends whatever the last frame was, and after a `try_send`
the channel is not empty (`TrySendResult`: the frame is in it, or it was full),
so the matrix has a frame to come and the count starts again.

`GattServerProofs` proves, for any list of characteristics, any phones and
writes, any channels and any lag of the callback:

- `HandlesMatch`. `BuildInv` says how the service grows: the queue holds at most
  one event of the stack (`OneStackEvent`), it reports the last entry of the
  table and that entry is what `pending` says (`ReportsPending`), every other
  entry has been noted (`EntriesNoted`), and a phone's request comes behind the
  event that announces what it refers to (`RequestsNoted`);
- `ServesTheLink`. `LinkInv` says what the events in the queue stand for: all
  the phones in the queue, the links and the list are one phone (`OnePeer`), its
  `connected` is first and its `disconnected` last, list and link differ only
  by what those events will do (`LinkIsKnown`), the list's subscriptions are
  what the phone wants but for the one request it has under way (`WantsNoted`),
  and the server advertises only when nothing is left of the last link
  (`RadioOK`). So there is one link at a time, which is not a guard of the model;
- `AppliedOnce`, under `~Overlap` as in the run. `WriteInv` says that every write
  is in one place: on its way, in a channel, applied or refused, and that the
  attribute holds a value only while its write is on its way;
- `TypeOK`, of every variable, with the capacities of channels and list
  (`ChannelsOK`; `RestOK` has what the other invariants do not mention).

`AppSessionProofs` proves, for any number of indicators, user actions, key-offs
and time-outs, `TypeOK` and `ReadsAreAnswerable`: `AppInv` is the count of
`pendingReads` against the reads asked and the answers queued, and each handler
keeps the balance (`Keeps`) or ends every wait. `TypeOK` also says that a status
that is shown is one an indicator had; for that, `Had` bounds the one every
callback carries by the indicator's own, which only grows (`StatusGrows`). The lemmas on `Asks` and
`Answers` say how the counts change when something is appended to or taken from
a queue. `NoConnectAfterDisconnect` says that while the user's disconnection
holds no step makes a link pending. `UserDisconnectHolds` is more: none is
pending. It is proved for one indicator, with the invariant `OneIndicator` (what
is wanted is the peripheral, unless the user disconnected), and is false for two: `connect` to a
second does not cancel the pending connection to the first, and `disconnect`
cancels only the peripheral's.

`MessageProofs` is about what the two ends of a wire make of each other's bytes:

- `DecodesWhatWasSent` and `PhoneShowsStatus`, for payloads of any bytes and
  length, any limits that fit a length byte, and any status. Where the fields of
  a packet start is said once (`Bytes`, the lemmas on concatenation); that flags
  come apart again is arithmetic on their powers of two. That an address arrives
  (`CommandsArrive`) needs what trimming does to a text that begins with the
  scheme, and to every beginning of it.
- `EventsShownWhole`, for any texts, notes and limits that satisfy
  `AttributesAssumption`. `Max` and `Min` of the lengths that fit are shown to
  exist; one event alone always fits, so the list is never cut to nothing.
- `NoForeignValue` of `Kline`, for any values, any number of faults, resets and
  pauses and any combination of them, under two hypotheses: `~VeryLate` (every
  answer comes before the next request's echo; `kline_late` shows that without it
  the property is false) and `LowValues` (no datum begins with a byte in
  129..191, that is, below 8256 rpm and 129 km/h; with such a byte a frame read
  out of step can pass for a short one, see the table above). A read whose own
  answer lost or gained a byte is excepted, what it leaves in the FIFO is not.
  `InStep` says, for each point of the loop, which bytes can be left in the FIFO: nothing, or the
  rest of a frame that a lost or added byte has shifted. `KInv` is that together
  with what the variables may hold; the lemmas on `parse_response` go through
  what each such rest parses to: nothing that begins with the service and the
  register of another request.

Induction. The prover cannot instantiate induction theorems. What a loop computes
is shown instead by the least counterexample: `LeastNat` (from the library's
`WFMin`) says that a non-empty set of naturals has a least member, so a set of
counterexamples that has none is empty. `StepsExist` uses it to show that a LET
function that counts up is the function its equations describe.

The runs check the same definitions the theorems name; the inductive invariants
were checked by TLC on the runs' instances before they were proved.

Only model-checked:

- all liveness (`NeutralShown`, `NeutralCleared`, `WorkerServes`, `LinkRecovers`,
  `EverythingSaved`, `NobodyWaits`, `AttemptsEnd`, `StatusCatchesUp`, `ComesBack`,
  `RenderingEnds`): fairness and `ENABLED` are outside the proof system's reach;
- `TypeOK` of `Kline` and of `PollLoop` (it contains the estimator's; those
  lemmas are about `GearEstimatorSpec`);
- `UserDisconnectHolds` with more than one indicator is false (see above).

## Plan

1. Done: classifier, estimator with proofs, poll loop, OTA with proofs.
2. Done: learner and its store, K-line, Bluetooth server, WiFi set-up and
   configuration store, the app's session, message formats; the contract of an
   update with the proof of its refinement; proofs about the learner's store and
   the WiFi set-up.
3. Done: proofs about the classifier, the poll loop's refresh, the Bluetooth
   server and the app's session.
4. Done: proofs about the peak search and the bands, the learner's types, the
   message formats, the attributes and the K-line.
5. Left: type correctness of `PollLoop` and of `Kline`.

## Not modelled

- Pixels, colours and brightness scaling; wording of events and errors; JSON
  bodies other than the two that are trimmed.
- `Manifest::parse` and `parse_version` beyond success or failure: `decide` is
  modelled on versions as numbers.
- Rounding of `f32`.
- The web dashboard and the diagnostic scans (compiled out), platform wrappers.
- The app's views, demo mode, Bluetooth being switched off, writes (they have
  the shape of reads); release scripts and hosting.
