-------------------------------- MODULE Ota --------------------------------
(***************************************************************************)
(* Over-the-air updates: the worker thread of firmware/esp32/src/ota.rs,    *)
(* the part of the main loop (firmware/esp32/src/main.rs) that talks to it, *)
(* and, as far as the code relies on them, the two application slots and    *)
(* the rollback bootloader of ESP-IDF.                                      *)
(*                                                                          *)
(* A worker step ends where the code blocks (network, flash) or publishes a *)
(* new state under the lock.  The ignition may cut the power between any    *)
(* two steps.                                                               *)
(***************************************************************************)
EXTENDS Integers, Sequences, FiniteSets

CONSTANTS
    Images,      \* releases: records of version and whether Bluetooth can start in it
    Factory,     \* the image flashed over USB
    MinVersions, \* values of min_version in a manifest, 0 for none
    QUEUE,       \* capacity of the request channel (4)
    SIZE,        \* length of an image, in units
    DESC_END,    \* units that hold the app descriptor
    CHUNK        \* most units one read returns

ASSUME OtaAssumption ==
    /\ Images \subseteq [version : Nat \ {0}, healthy : BOOLEAN]
    /\ Factory \in Images /\ Factory.healthy
    /\ MinVersions \subseteq Nat
    /\ QUEUE \in Nat \ {0}
    /\ SIZE \in Nat \ {0} /\ DESC_END \in 1..SIZE /\ CHUNK \in Nat \ {0}

VARIABLES
    \* flash: what each slot holds, the otadata entry of each, the selected one
    content, slotState, bootSlot,
    \* set by the bootloader
    running,
    \* OtaShared
    ota, moving, pendingVerify,
    \* the worker
    requests, wpc, thenInstall, manifest, stream, total, headChecked,
    \* the main loop
    bleUp, workerUp, otaStatus, failShow, bootCheckDone, selfTestDone

flashVars == <<content, slotState, bootSlot, running>>
sharedVars == <<ota, moving, pendingVerify>>
downloadVars == <<stream, total, headChecked>>
workerVars == <<wpc, thenInstall, manifest, downloadVars>>
initVars == <<bleUp, workerUp>>
mainVars == <<initVars, otaStatus, failShow, bootCheckDone, selfTestDone>>
vars == <<flashVars, sharedVars, requests, workerVars, mainVars>>

Slots == {"ota_0", "ota_1"}
Other(s) == IF s = "ota_0" THEN "ota_1" ELSE "ota_0"

\* A slot that holds no complete image.
Garbage == [version |-> 0, healthy |-> FALSE]

NoManifest == [image |-> Garbage, min_version |-> 0]
Manifests == [image : Images, min_version : MinVersions]

\* What the server sends for an image: its length, and whether the descriptor
\* and the digest are those of the manifest.
Streams == [len : 1..(SIZE + 1), desc : BOOLEAN, digest : BOOLEAN]
NoStream == [len |-> 1, desc |-> FALSE, digest |-> FALSE]

Busy == {"downloading", "verifying", "rebooting"}
OtaStates == {"idle", "connecting", "checking", "available", "upToDate", "failed"} \cup Busy

-----------------------------------------------------------------------------
(* The bootloader (CONFIG_BOOTLOADER_APP_ROLLBACK_ENABLE).                   *)

\* An image still pending when the machine resets is given up.
BootPick == IF slotState[bootSlot] = "pending" THEN Other(bootSlot) ELSE bootSlot

AfterAbort ==
    IF slotState[bootSlot] = "pending"
    THEN [slotState EXCEPT ![bootSlot] = "aborted"] ELSE slotState

\* A new image starts on probation.
BootStates ==
    IF AfterAbort[BootPick] = "new"
    THEN [AfterAbort EXCEPT ![BootPick] = "pending"] ELSE AfterAbort

\* RAM after a reset: spawn reads the rollback state of the running slot, which
\* passes for kept when it cannot be read; the worker may fail to start, and
\* then nobody owes a self-test.
Start(pending, ble, up) ==
    /\ ota' = "idle" /\ moving' = FALSE
    /\ pendingVerify' = (pending /\ up)
    /\ requests' = <<>> /\ wpc' = "idle" /\ thenInstall' = FALSE /\ manifest' = NoManifest
    /\ stream' = NoStream /\ total' = 0 /\ headChecked' = FALSE
    /\ bleUp' = ble /\ workerUp' = up /\ otaStatus' = "idle" /\ failShow' = FALSE
    /\ bootCheckDone' = FALSE /\ selfTestDone' = ~(pending /\ up)

Boot ==
    /\ bootSlot' = BootPick /\ running' = BootPick
    /\ slotState' = BootStates
    /\ \E ble, up \in BOOLEAN, pending \in {FALSE, BootStates[BootPick] = "pending"} :
         /\ ble => content[BootPick].healthy
         /\ Start(pending, ble, up)
    /\ UNCHANGED content

\* Key-off, a crash, Command::Reboot.
Reset == Boot

Init ==
    /\ content = [s \in Slots |-> IF s = "ota_0" THEN Factory ELSE Garbage]
    /\ slotState = [s \in Slots |-> "undefined"]
    /\ bootSlot = "ota_0" /\ running = "ota_0"
    /\ ota = "idle" /\ moving = FALSE /\ pendingVerify = FALSE
    /\ requests = <<>> /\ wpc = "idle" /\ thenInstall = FALSE /\ manifest = NoManifest
    /\ stream = NoStream /\ total = 0 /\ headChecked = FALSE
    /\ bleUp = TRUE /\ workerUp = TRUE /\ otaStatus = "idle" /\ failShow = FALSE
    /\ bootCheckDone = FALSE /\ selfTestDone = TRUE

-----------------------------------------------------------------------------
(* The main loop.                                                           *)

\* Mutant: the newest request is served first.
RequestAhead(r) ==
    requests' = IF Len(requests) < QUEUE THEN <<r>> \o requests ELSE requests

\* OtaHandle::request: a full queue loses the request.
request(r) ==
    requests' = IF Len(requests) < QUEUE THEN Append(requests, r) ELSE requests

\* The loop copies the worker's state; a failure it had not seen yet puts the
\* cross up.
MirrorOta ==
    /\ otaStatus # ota
    /\ otaStatus' = ota
    /\ failShow' = (failShow \/ ota = "failed")
    /\ UNCHANGED <<flashVars, sharedVars, requests, workerVars, initVars, bootCheckDone,
                   selfTestDone>>

FailShowEnds ==
    /\ failShow /\ failShow' = FALSE
    /\ UNCHANGED <<flashVars, sharedVars, requests, workerVars, initVars, otaStatus,
                   bootCheckDone, selfTestDone>>

\* Neither of the early `continue`s is taken.
Polling == otaStatus \notin Busy /\ ~failShow

\* Once, 8 s after boot, as the stored policy and credentials say; never while
\* the image is on probation.
BootCheck ==
    /\ Polling /\ ~bootCheckDone
    /\ bootCheckDone' = TRUE
    /\ \/ UNCHANGED requests
       \/ /\ workerUp /\ selfTestDone
          /\ \E install \in BOOLEAN : request(IF install THEN "checkInstall" ELSE "check")
    /\ UNCHANGED <<flashVars, sharedVars, workerVars, initVars, otaStatus, failShow,
                   selfTestDone>>

SelfTestRuns ==
    /\ Polling /\ bootCheckDone /\ ~selfTestDone
    /\ selfTestDone' = TRUE
    /\ UNCHANGED <<flashVars, sharedVars, workerVars, initVars, otaStatus, failShow,
                   bootCheckDone>>

\* Mutant: Bluetooth is not part of the self-test.
SelfTestIgnoresBle == SelfTestRuns /\ request("markValid")

\* Once, 20 s after boot: BLE is up and the LED channel takes a frame.
SelfTestPasses == SelfTestRuns /\ bleUp /\ request("markValid")

SelfTestFails == SelfTestRuns /\ UNCHANGED requests

\* handle_ble_commands, as far as it reaches the worker; also while an image
\* is written, not while the cross is up.
AppCommand ==
    /\ otaStatus \in Busy \/ ~failShow
    /\ bleUp /\ workerUp
    /\ \E c \in {"check", "install", "testWifi"} : request(c)
    /\ UNCHANGED <<flashVars, sharedVars, workerVars, mainVars>>

\* The end of a poll cycle: moving is what the ECU last said of the speed, of
\* which nothing is assumed, and FALSE when it said nothing.
ReportMotion ==
    /\ Polling /\ bleUp /\ workerUp
    /\ moving' \in BOOLEAN
    /\ UNCHANGED <<flashVars, ota, pendingVerify, requests, workerVars, mainVars>>

-----------------------------------------------------------------------------
(* The worker.                                                              *)

Fail ==
    /\ ota' = "failed" /\ wpc' = "idle"

\* check() up to the WiFi connection.
StartCheck(install) ==
    /\ ota' = "connecting" /\ wpc' = "checkWifi" /\ thenInstall' = install

ReceiveCheck ==
    /\ workerUp /\ wpc = "idle" /\ requests # <<>>
    /\ Head(requests) \in {"check", "checkInstall"}
    /\ requests' = Tail(requests)
    /\ StartCheck(Head(requests) = "checkInstall")
    /\ UNCHANGED <<flashVars, moving, pendingVerify, manifest, downloadVars, mainVars>>

\* Install checks first when no manifest is at hand.
ReceiveInstall ==
    /\ workerUp /\ wpc = "idle" /\ requests # <<>> /\ Head(requests) = "install"
    /\ requests' = Tail(requests)
    /\ IF manifest = NoManifest THEN StartCheck(TRUE)
       ELSE wpc' = "install" /\ UNCHANGED <<ota, thenInstall>>
    /\ UNCHANGED <<flashVars, moving, pendingVerify, manifest, downloadVars, mainVars>>

\* wifi_connect, whose outcome only wifi-status reports.
ReceiveTestWifi ==
    /\ workerUp /\ wpc = "idle" /\ requests # <<>> /\ Head(requests) = "testWifi"
    /\ requests' = Tail(requests)
    /\ wpc' = "testWifi"
    /\ UNCHANGED <<flashVars, sharedVars, thenInstall, manifest, downloadVars, mainVars>>

TestWifiDone ==
    /\ wpc = "testWifi" /\ wpc' = "idle"
    /\ UNCHANGED <<flashVars, sharedVars, requests, thenInstall, manifest, downloadVars,
                   mainVars>>

\* mark_running_slot_valid can fail, and is not tried again.
ReceiveMarkValid ==
    /\ workerUp /\ wpc = "idle" /\ requests # <<>> /\ Head(requests) = "markValid"
    /\ requests' = Tail(requests)
    /\ \/ /\ pendingVerify
          /\ slotState' = [slotState EXCEPT ![running] = "valid"]
          /\ pendingVerify' = FALSE
       \/ UNCHANGED <<slotState, pendingVerify>>
    /\ UNCHANGED <<content, bootSlot, running, ota, moving, workerVars, mainVars>>

CheckWifi ==
    /\ wpc = "checkWifi"
    /\ \/ ota' = "checking" /\ wpc' = "fetch"
       \/ Fail
    /\ UNCHANGED <<flashVars, moving, pendingVerify, requests, thenInstall, manifest,
                   downloadVars, mainVars>>

current_version == content[running].version

\* Mutant: the same version is good enough.
decideNotOlder(m) ==
    IF current_version < m.min_version THEN "tooOld"
    ELSE IF m.image.version >= current_version THEN "install"
    ELSE "upToDate"

\* decide(), with versions as numbers.
decide(m) ==
    IF current_version < m.min_version THEN "tooOld"
    ELSE IF m.image.version > current_version THEN "install"
    ELSE "upToDate"

\* A failed fetch or parse leaves the manifest of an earlier check in place.
Fetch ==
    /\ wpc = "fetch"
    /\ \/ Fail /\ UNCHANGED manifest
       \/ \E m \in Manifests :
            /\ ota' = CASE decide(m) = "install" -> "available"
                        [] decide(m) = "upToDate" -> "upToDate"
                        [] decide(m) = "tooOld" -> "failed"
            /\ manifest' = IF decide(m) = "install" THEN m ELSE NoManifest
            /\ wpc' = IF decide(m) = "install" /\ thenInstall THEN "install" ELSE "idle"
    /\ UNCHANGED <<flashVars, moving, pendingVerify, requests, thenInstall, downloadVars,
                   mainVars>>

\* install(): refused while moving, before the radio is brought up.
StartInstall ==
    /\ wpc = "install"
    /\ IF moving THEN Fail ELSE wpc' = "installWifi" /\ UNCHANGED ota
    /\ UNCHANGED <<flashVars, moving, pendingVerify, requests, thenInstall, manifest,
                   downloadVars, mainVars>>

InstallWifi ==
    /\ wpc = "installWifi"
    /\ \/ ota' = "downloading" /\ wpc' = "open"
       \/ Fail
    /\ UNCHANGED <<flashVars, moving, pendingVerify, requests, thenInstall, manifest,
                   downloadVars, mainVars>>

\* An error out of download_and_write: the manifest is forgotten too.
FailInstall ==
    /\ Fail
    /\ manifest' = NoManifest
    /\ stream' = NoStream /\ total' = 0 /\ headChecked' = FALSE

\* Mutant: an install may start while the running image is on probation.
OpenDownloadOnProbation ==
    /\ wpc = "open"
    /\ \/ FailInstall
       \/ /\ wpc' = "read" /\ stream' \in Streams
          /\ UNCHANGED <<ota, manifest, total, headChecked>>
    /\ UNCHANGED <<flashVars, moving, pendingVerify, requests, thenInstall, mainVars>>

\* The request, its status and length, the heap, esp_ota_begin.  The last one
\* refuses while the running image is on probation.
OpenDownload ==
    /\ wpc = "open"
    /\ \/ FailInstall
       \/ /\ slotState[running] # "pending"
          /\ wpc' = "read" /\ stream' \in Streams
          /\ UNCHANGED <<ota, manifest, total, headChecked>>
    /\ UNCHANGED <<flashVars, moving, pendingVerify, requests, thenInstall, mainVars>>

\* One read of n units: too long, or a wrong descriptor, ends it; otherwise the
\* chunk is written, descriptor seen or not.
Chunk(n) ==
    LET got == total + n
        checkNow == ~headChecked /\ got >= DESC_END
    IN  IF got > SIZE \/ (checkNow /\ ~stream.desc)
        THEN FailInstall /\ UNCHANGED content
        ELSE /\ total' = got
             /\ headChecked' = (headChecked \/ checkNow)
             /\ content' = [content EXCEPT ![Other(running)] = Garbage]
             /\ UNCHANGED <<ota, wpc, manifest, stream>>

ReadChunk ==
    /\ wpc = "read" /\ total < stream.len
    /\ \E n \in 1..CHUNK : n <= stream.len - total /\ Chunk(n)
    /\ UNCHANGED <<slotState, bootSlot, running, moving, pendingVerify, requests, thenInstall,
                   mainVars>>

\* A read or a flash write fails.
ReadFails ==
    /\ wpc = "read"
    /\ FailInstall
    /\ UNCHANGED <<flashVars, moving, pendingVerify, requests, thenInstall, mainVars>>

\* End of the stream: descriptor seen, byte count and SHA-256.
ReadEnds ==
    /\ wpc = "read" /\ total = stream.len
    /\ IF headChecked /\ total = SIZE /\ stream.digest
       THEN /\ ota' = "verifying" /\ wpc' = "verify"
            /\ content' = [content EXCEPT ![Other(running)] = manifest.image]
            /\ UNCHANGED <<manifest, downloadVars>>
       ELSE FailInstall /\ UNCHANGED content
    /\ UNCHANGED <<slotState, bootSlot, running, moving, pendingVerify, requests, thenInstall,
                   mainVars>>

\* Mutant: activated, but not restarted.
ActivateOnly ==
    /\ wpc = "verify"
    /\ \/ /\ slotState' = [slotState EXCEPT ![Other(running)] = "new"]
          /\ bootSlot' = Other(running)
          /\ ota' = "rebooting" /\ wpc' = "idle"
          /\ stream' = NoStream /\ total' = 0 /\ headChecked' = FALSE
          /\ UNCHANGED manifest
       \/ FailInstall /\ UNCHANGED <<slotState, bootSlot>>
    /\ UNCHANGED <<content, running, moving, pendingVerify, requests, thenInstall, mainVars>>

\* finish_and_activate: esp_ota_end and esp_ota_set_boot_partition.
Activate ==
    /\ wpc = "verify"
    /\ \/ /\ slotState' = [slotState EXCEPT ![Other(running)] = "new"]
          /\ bootSlot' = Other(running)
          /\ ota' = "rebooting" /\ wpc' = "reboot"
          /\ UNCHANGED <<manifest, downloadVars>>
       \/ FailInstall /\ UNCHANGED <<slotState, bootSlot>>
    /\ UNCHANGED <<content, running, moving, pendingVerify, requests, thenInstall, mainVars>>

Reboot == wpc = "reboot" /\ Boot

Worker ==
    \/ ReceiveCheck \/ ReceiveInstall \/ ReceiveTestWifi \/ TestWifiDone \/ ReceiveMarkValid
    \/ CheckWifi \/ Fetch \/ StartInstall \/ InstallWifi
    \/ OpenDownload \/ ReadChunk \/ ReadFails \/ ReadEnds \/ Activate \/ Reboot

Main == MirrorOta \/ FailShowEnds \/ BootCheck \/ SelfTestPasses \/ SelfTestFails \/ AppCommand \/ ReportMotion

Next == Worker \/ Main \/ Reset

Spec == Init /\ [][Next]_vars

\* Blocking calls return: HTTP and WiFi have timeouts, flash operations end.
\* The loop keeps turning.
FairSpec == Spec /\ WF_vars(Worker) /\ WF_vars(MirrorOta)

-----------------------------------------------------------------------------
(* Properties.                                                              *)

Requests == {"check", "checkInstall", "install", "testWifi", "markValid"}

WorkerSteps == {"idle", "testWifi", "checkWifi", "fetch", "install", "installWifi", "open",
                "read", "verify", "reboot"}

\* The type invariant; the worker never has an image open longer than the
\* manifest promised (the `total > m.size` bail-out).
TypeOK ==
    /\ content \in [Slots -> Images \cup {Garbage}]
    /\ slotState \in [Slots -> {"undefined", "new", "pending", "valid", "aborted"}]
    /\ bootSlot \in Slots /\ running \in Slots
    /\ ota \in OtaStates /\ moving \in BOOLEAN /\ pendingVerify \in BOOLEAN
    /\ requests \in Seq(Requests) /\ Len(requests) <= QUEUE
    /\ wpc \in WorkerSteps /\ thenInstall \in BOOLEAN
    /\ manifest \in Manifests \cup {NoManifest}
    /\ stream \in Streams /\ total \in 0..SIZE /\ headChecked \in BOOLEAN
    /\ bleUp \in BOOLEAN /\ workerUp \in BOOLEAN
    /\ otaStatus \in OtaStates /\ failShow \in BOOLEAN
    /\ bootCheckDone \in BOOLEAN /\ selfTestDone \in BOOLEAN

\* Whenever the power goes, the next boot runs a complete image, and either
\* that image is a working one or it boots on probation with a working, never
\* given up one in the other slot: two key cycles always bring the display
\* back (rollback, main.rs self-test, install into the inactive slot only).
AlwaysRecoverable ==
    LET next == BootPick
    IN  /\ content[next] # Garbage
        /\ \/ content[next].healthy
           \/ /\ BootStates[next] = "pending"
              /\ content[Other(next)].healthy
              /\ slotState[Other(next)] \in {"undefined", "valid"}

\* An image that still has to prove itself is newer than the one it replaces,
\* whatever manifests were fetched, kept or dropped before (no downgrades).
NoDowngrade ==
    slotState[bootSlot] \in {"new", "pending"} =>
        content[bootSlot].version > content[Other(bootSlot)].version

\* Only an image in which Bluetooth came up is kept for good: not one that was
\* already given up, not one the self-test never saw.
KeptOnlyAfterSelfTest == slotState[running] = "valid" => content[running].healthy

\* The slot that runs, or that a reset would start, is never erased or written
\* under it: a step that changes a slot's content changes neither.
WritesInactiveSlotOnly ==
    [][\A s \in Slots : content'[s] # content[s] => s # running /\ s # BootPick]_vars

\* Once the app stops asking, the progress display goes away and polling comes
\* back: a download ends in a failure the loop gets to see, or in a reboot.
BusyEnds ==
    <>[][~AppCommand]_vars => ((otaStatus \in Busy) ~> (otaStatus \notin Busy))

\* A request the worker accepted is not left behind by others: the self-test's
\* verdict reaches the worker whatever stands before it in the queue, and even
\* while checks and installs arrive all the time.
VerdictIsHeard ==
    (\E i \in DOMAIN requests : requests[i] = "markValid")
        ~> ~(\E i \in DOMAIN requests : requests[i] = "markValid")

\* The worker, ota.rs: no download leaves the main loop in its progress screen
\* for good, and no request waits behind others for ever.
WorkerServes == BusyEnds /\ VerdictIsHeard

-----------------------------------------------------------------------------
(* Promises the code does not keep; no run checks them.                     *)

\* "the bike must not be moving (main loop's `moving` flag)", ota.rs.
DownloadStartsStopped ==
    [][ota' = "downloading" /\ ota # "downloading" => ~moving]_vars

\* "checked before the first byte is committed", ota.rs.
DescriptorBeforeWrite == total > 0 => headChecked

\* pending_verify is "true until this boot's self-test marks the image valid
\* (rollback armed)", ble_proto.rs; main.rs reports `pending && !self_test_done`.
PendingVerifyReported ==
    bleUp /\ workerUp /\ wpc = "idle" /\ requests = <<>> /\ slotState[running] = "pending" =>
        ~selfTestDone

\* The self-test passed, "keep it" (main.rs): the worker is told to.
PassedSelfTestIsKept ==
    [][SelfTestPasses =>
        \E i \in DOMAIN requests' : requests'[i] = "markValid"]_vars

-----------------------------------------------------------------------------
(* The strengthening that makes the safety properties inductive.            *)

\* A slot with an image that was kept, or that came with the board.
Trusted(s) == slotState[s] \in {"undefined", "valid"} /\ content[s].healthy

\* The running image is trusted, or on probation, newer than the one in the
\* other slot, which then is trusted.
RunningFlash ==
    \/ Trusted(running)
    \/ /\ slotState[running] = "pending"
       /\ content[running] # Garbage
       /\ Trusted(Other(running))
       /\ content[running].version > content[Other(running)].version

\* The selected slot is the running one, but between activation and restart.
SelectedSlot ==
    IF wpc = "reboot"
    THEN /\ bootSlot = Other(running) /\ slotState[bootSlot] = "new"
         /\ content[bootSlot] # Garbage
         /\ content[bootSlot].version > content[running].version
         /\ Trusted(running)
    ELSE bootSlot = running

\* A manifest at hand is an update of the running image.
ManifestIsUpdate ==
    /\ manifest # NoManifest => manifest.image.version > content[running].version
    /\ wpc \in {"install", "installWifi", "open", "read", "verify"} => manifest # NoManifest

\* The other slot is only written while the running image is trusted.
WritingFromTrusted ==
    /\ wpc \in {"read", "verify"} => Trusted(running)
    /\ wpc = "verify" => content[Other(running)] = manifest.image

\* Bluetooth came up in this image whenever its verdict is under way.
VerdictFromHealthy ==
    /\ bleUp => content[running].healthy
    /\ (\E i \in DOMAIN requests : requests[i] = "markValid") => bleUp
    /\ pendingVerify => slotState[running] = "pending"

\* The inductive invariant, for which OtaProofs gives the proofs.
IInv ==
    /\ TypeOK
    /\ RunningFlash
    /\ SelectedSlot
    /\ ManifestIsUpdate
    /\ WritingFromTrusted
    /\ VerdictFromHealthy

-----------------------------------------------------------------------------
(* The abstract specification.                                              *)

OnProbation(s) == slotState[s] \notin {"undefined", "valid"}

\* What the two slots, their states and the selected one stand for: the image
\* known to work is the running one, or the other one during its probation.
Contract == INSTANCE UpdateContract WITH
    Releases <- Images, Shipped <- Factory, NoImage <- Garbage,
    current <- content[running],
    known <- content[IF OnProbation(running) THEN Other(running) ELSE running],
    staged <- IF bootSlot = running THEN Garbage ELSE content[bootSlot]

\* Worker, main loop, flash and bootloader together, with the power cut between
\* any two steps, do what UpdateContract says and nothing else.
ImplementsContract == Contract!Spec
=============================================================================
