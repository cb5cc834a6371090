------------------------------ MODULE OtaProofs ------------------------------
(***************************************************************************)
(* Proofs about module Ota, for any set of releases, any queue and any      *)
(* sizes.  The inductive invariant is IInv of that module.                  *)
(***************************************************************************)
EXTENDS Ota, TLAPS

-----------------------------------------------------------------------------
(* The operators.                                                           *)

\* There are two slots.
LEMMA TwoSlots ==
    \A s \in Slots : Other(s) \in Slots /\ Other(s) # s /\ Other(Other(s)) = s
BY DEF Slots, Other

\* No release is mistaken for an empty slot, no manifest for none.
LEMMA GarbageIsNoImage == Garbage \notin Images /\ NoManifest \notin Manifests
BY OtaAssumption DEF Garbage, NoManifest, Manifests

\* A full queue stays as it is, a request goes to the end otherwise.
LEMMA RequestResult ==
    ASSUME requests \in Seq(Requests), Len(requests) <= QUEUE, NEW r \in Requests, request(r)
    PROVE  /\ requests' \in Seq(Requests) /\ Len(requests') <= QUEUE
           /\ \A i \in DOMAIN requests' :
                requests'[i] = r \/ \E j \in DOMAIN requests : requests'[i] = requests[j]
<1> QUEUE \in Nat BY OtaAssumption
<1>1. CASE Len(requests) < QUEUE BY <1>1 DEF request
<1>2. CASE ~(Len(requests) < QUEUE) BY <1>2 DEF request
<1> QED BY <1>1, <1>2

\* Taking the oldest request leaves a queue of the others.
LEMMA TailResult ==
    ASSUME requests \in Seq(Requests), Len(requests) <= QUEUE, requests # <<>>,
           requests' = Tail(requests)
    PROVE  /\ requests' \in Seq(Requests) /\ Len(requests') <= QUEUE
           /\ Head(requests) = requests[1] /\ 1 \in DOMAIN requests
           /\ \A i \in DOMAIN requests' : \E j \in DOMAIN requests : requests'[i] = requests[j]
<1> QUEUE \in Nat BY OtaAssumption
<1>1. requests' \in Seq(Requests) /\ Len(requests') = Len(requests) - 1 OBVIOUS
<1>2. \A i \in DOMAIN requests' : i + 1 \in DOMAIN requests /\ requests'[i] = requests[i + 1]
  OBVIOUS
<1> QED BY <1>1, <1>2

-----------------------------------------------------------------------------
(* Types.                                                                   *)

\* The initial state has its types.
LEMMA InitTypeOK == Init => TypeOK
<1> SUFFICES ASSUME Init PROVE TypeOK OBVIOUS
<1> USE OtaAssumption
<1>1. content \in [Slots -> Images \cup {Garbage}] BY DEF Init
<1>2. requests \in Seq(Requests) /\ Len(requests) <= QUEUE BY DEF Init
<1>3. stream \in Streams BY DEF Init, NoStream, Streams
<1>4. slotState \in [Slots -> {"undefined", "new", "pending", "valid", "aborted"}] BY DEF Init
<1>5. bootSlot \in Slots /\ running \in Slots BY DEF Init, Slots
<1>6. ota \in OtaStates /\ otaStatus \in OtaStates /\ wpc \in WorkerSteps /\ total \in 0..SIZE
  BY DEF Init, OtaStates, WorkerSteps
<1> QED BY <1>1, <1>2, <1>3, <1>4, <1>5, <1>6 DEF Init, TypeOK

\* The bootloader picks a slot, and gives every slot a state.
LEMMA BootTypes ==
    ASSUME TypeOK
    PROVE  /\ BootPick \in Slots
           /\ BootStates \in [Slots -> {"undefined", "new", "pending", "valid", "aborted"}]
BY TwoSlots DEF TypeOK, BootPick, BootStates, AfterAbort

\* A reset keeps the types.
LEMMA BootTypeOK == TypeOK /\ Boot => TypeOK'
<1> SUFFICES ASSUME TypeOK, Boot PROVE TypeOK' OBVIOUS
<1>1. PICK ble \in BOOLEAN, up \in BOOLEAN, pending \in {FALSE, BootStates[BootPick] = "pending"} :
        Start(pending, ble, up)
  BY DEF Boot
<1>2. requests' \in Seq(Requests) /\ Len(requests') <= QUEUE
  BY <1>1, OtaAssumption DEF Start
<1>3. stream' \in Streams /\ total' \in 0..SIZE
  BY <1>1, OtaAssumption DEF Start, NoStream, Streams
<1>4. /\ content' \in [Slots -> Images \cup {Garbage}]
      /\ slotState' \in [Slots -> {"undefined", "new", "pending", "valid", "aborted"}]
      /\ bootSlot' \in Slots /\ running' \in Slots
  BY BootTypes DEF Boot, TypeOK
<1>5. /\ ota' \in OtaStates /\ otaStatus' \in OtaStates /\ wpc' \in WorkerSteps
      /\ manifest' \in Manifests \cup {NoManifest}
  BY <1>1 DEF Start, OtaStates, WorkerSteps
<1>6. /\ moving' \in BOOLEAN /\ thenInstall' \in BOOLEAN /\ headChecked' \in BOOLEAN
      /\ bleUp' \in BOOLEAN /\ workerUp' \in BOOLEAN /\ failShow' \in BOOLEAN
      /\ bootCheckDone' \in BOOLEAN
      /\ pendingVerify' \in BOOLEAN /\ selfTestDone' \in BOOLEAN
  BY <1>1 DEF Start
<1> QED BY <1>2, <1>3, <1>4, <1>5, <1>6 DEF TypeOK

\* The steps of the main loop keep the types.
LEMMA MainTypeOK == TypeOK /\ Main => TypeOK'
<1> SUFFICES ASSUME TypeOK, Main PROVE TypeOK' OBVIOUS
<1> USE DEF TypeOK, flashVars, sharedVars, workerVars, downloadVars, initVars, mainVars
<1>1. CASE MirrorOta BY <1>1 DEF MirrorOta
<1>2. CASE FailShowEnds BY <1>2 DEF FailShowEnds
<1>3. CASE BootCheck
  <2>1. requests' \in Seq(Requests) /\ Len(requests') <= QUEUE
    <3>1. CASE UNCHANGED requests BY <3>1
    <3>2. CASE \E install \in BOOLEAN : request(IF install THEN "checkInstall" ELSE "check")
      BY <3>2, RequestResult DEF Requests
    <3> QED BY <1>3, <3>1, <3>2 DEF BootCheck
  <2> QED BY <1>3, <2>1 DEF BootCheck
<1>4. CASE SelfTestPasses
  <2>1. requests' \in Seq(Requests) /\ Len(requests') <= QUEUE
    BY <1>4, RequestResult DEF SelfTestPasses, Requests
  <2> QED BY <1>4, <2>1 DEF SelfTestPasses, SelfTestRuns
<1>7. CASE SelfTestFails BY <1>7 DEF SelfTestFails, SelfTestRuns
<1>5. CASE AppCommand
  <2>1. requests' \in Seq(Requests) /\ Len(requests') <= QUEUE
    BY <1>5, RequestResult DEF AppCommand, Requests
  <2> QED BY <1>5, <2>1 DEF AppCommand
<1>6. CASE ReportMotion BY <1>6 DEF ReportMotion
<1> QED BY <1>1, <1>2, <1>3, <1>4, <1>5, <1>6, <1>7 DEF Main

\* The steps of the worker keep the types.
LEMMA WorkerTypeOK == TypeOK /\ Worker => TypeOK'
<1> SUFFICES ASSUME TypeOK, Worker PROVE TypeOK' OBVIOUS
<1> USE DEF TypeOK, flashVars, sharedVars, workerVars, downloadVars, initVars, mainVars
<1>a. /\ {"idle", "testWifi", "checkWifi", "fetch", "install", "installWifi", "open",
          "read", "verify", "reboot"} \subseteq WorkerSteps
      /\ {"connecting", "checking", "available", "upToDate", "failed", "downloading",
          "verifying", "rebooting"} \subseteq OtaStates
  BY DEF WorkerSteps, OtaStates, Busy
<1>b. NoStream \in Streams /\ 0 \in 0..SIZE BY OtaAssumption DEF NoStream, Streams
<1>c. ASSUME FailInstall
      PROVE  /\ ota' \in OtaStates /\ wpc' \in WorkerSteps
             /\ manifest' \in Manifests \cup {NoManifest}
             /\ stream' \in Streams /\ total' \in 0..SIZE /\ headChecked' \in BOOLEAN
  BY <1>a, <1>b, <1>c DEF FailInstall, Fail
<1>d. Other(running) \in Slots BY TwoSlots
<1>1. CASE ReceiveCheck
  <2>1. requests' \in Seq(Requests) /\ Len(requests') <= QUEUE BY <1>1, TailResult DEF ReceiveCheck
  <2> QED BY <1>1, <1>a, <2>1 DEF ReceiveCheck, StartCheck
<1>2. CASE ReceiveInstall
  <2>1. requests' \in Seq(Requests) /\ Len(requests') <= QUEUE
    BY <1>2, TailResult DEF ReceiveInstall
  <2> QED BY <1>2, <1>a, <2>1 DEF ReceiveInstall, StartCheck
<1>3. CASE ReceiveTestWifi
  <2>1. requests' \in Seq(Requests) /\ Len(requests') <= QUEUE
    BY <1>3, TailResult DEF ReceiveTestWifi
  <2> QED BY <1>3, <1>a, <2>1 DEF ReceiveTestWifi
<1>4. CASE TestWifiDone BY <1>4, <1>a DEF TestWifiDone
<1>5. CASE ReceiveMarkValid
  <2>1. requests' \in Seq(Requests) /\ Len(requests') <= QUEUE
    BY <1>5, TailResult DEF ReceiveMarkValid
  <2> QED BY <1>5, <2>1 DEF ReceiveMarkValid
<1>6. CASE CheckWifi BY <1>6, <1>a DEF CheckWifi, Fail
<1>7. CASE Fetch
  <2>1. \A m \in Manifests : decide(m) \in {"install", "upToDate", "tooOld"} BY DEF decide
  <2> QED BY <1>7, <1>a, <2>1 DEF Fetch, Fail
<1>8. CASE StartInstall BY <1>8, <1>a DEF StartInstall, Fail
<1>9. CASE InstallWifi BY <1>9, <1>a DEF InstallWifi, Fail
<1>10. CASE OpenDownload BY <1>10, <1>a, <1>c DEF OpenDownload
<1>11. CASE ReadChunk
  <2>1. PICK n \in 1..CHUNK : n <= stream.len - total /\ Chunk(n) BY <1>11 DEF ReadChunk
  <2>2. CASE FailInstall /\ UNCHANGED content BY <1>11, <1>c, <2>2 DEF ReadChunk
  <2>3. CASE ~(FailInstall /\ UNCHANGED content)
    <3>1. total + n <= SIZE /\ total + n \in Nat
      BY <2>1, <2>3, OtaAssumption DEF Chunk
    <3>2. total' \in 0..SIZE BY <2>1, <2>3, <3>1, OtaAssumption DEF Chunk
    <3>3. content' \in [Slots -> Images \cup {Garbage}] BY <2>1, <2>3 DEF Chunk
    <3>4. headChecked' \in BOOLEAN BY <2>1, <2>3 DEF Chunk
    <3>5. UNCHANGED <<ota, wpc, manifest, stream>> BY <2>1, <2>3 DEF Chunk
    <3> QED BY <1>11, <3>2, <3>3, <3>4, <3>5 DEF ReadChunk
  <2> QED BY <2>2, <2>3
<1>12. CASE ReadFails BY <1>12, <1>c DEF ReadFails
<1>13. CASE ReadEnds
  <2>1. CASE FailInstall /\ UNCHANGED content BY <1>13, <1>c, <2>1 DEF ReadEnds
  <2>2. CASE /\ ota' = "verifying" /\ wpc' = "verify"
             /\ content' = [content EXCEPT ![Other(running)] = manifest.image]
             /\ UNCHANGED <<manifest, downloadVars>>
    <3>1. manifest.image \in Images \cup {Garbage} BY DEF Manifests, NoManifest
    <3>2. content' \in [Slots -> Images \cup {Garbage}] BY <2>2, <3>1
    <3> QED BY <1>13, <1>a, <2>2, <3>2 DEF ReadEnds
  <2> QED BY <1>13, <2>1, <2>2 DEF ReadEnds
<1>14. CASE Activate
  <2>1. CASE FailInstall /\ UNCHANGED <<slotState, bootSlot>>
    BY <1>14, <1>c, <2>1 DEF Activate
  <2>2. CASE ~(FailInstall /\ UNCHANGED <<slotState, bootSlot>>)
    BY <1>14, <1>a, <1>d, <2>2 DEF Activate
  <2> QED BY <2>1, <2>2
<1>15. CASE Reboot BY <1>15, BootTypeOK DEF Reboot
<1> QED BY <1>1, <1>2, <1>3, <1>4, <1>5, <1>6, <1>7, <1>8, <1>9, <1>10, <1>11, <1>12,
           <1>13, <1>14, <1>15 DEF Worker

-----------------------------------------------------------------------------
(* The flash.                                                               *)

\* The board as it comes: the image flashed over USB runs and is trusted.
LEMMA InitIInv == Init => IInv
<1> SUFFICES ASSUME Init PROVE IInv OBVIOUS
<1>1. TypeOK BY InitTypeOK
<1>2. content[running] = Factory /\ slotState[running] = "undefined" BY DEF Init, Slots
<1>3. RunningFlash BY <1>2, OtaAssumption DEF RunningFlash, Trusted
<1>4. SelectedSlot /\ ManifestIsUpdate /\ WritingFromTrusted
  BY DEF Init, SelectedSlot, ManifestIsUpdate, WritingFromTrusted
<1>5. VerdictFromHealthy BY <1>2, OtaAssumption DEF Init, VerdictFromHealthy
<1> QED BY <1>1, <1>3, <1>4, <1>5 DEF IInv

\* What a reset makes of the flash: the trusted image stays or comes back, or
\* the new one starts on probation with the trusted one behind it.
LEMMA BootFlash ==
    ASSUME TypeOK, RunningFlash, SelectedSlot
    PROVE  \/ /\ BootStates[BootPick] \in {"undefined", "valid"}
              /\ content[BootPick].healthy
           \/ /\ BootStates[BootPick] = "pending"
              /\ content[BootPick] # Garbage
              /\ BootStates[Other(BootPick)] \in {"undefined", "valid"}
              /\ slotState[Other(BootPick)] \in {"undefined", "valid"}
              /\ content[Other(BootPick)].healthy
              /\ content[BootPick].version > content[Other(BootPick)].version
<1> /\ running \in Slots /\ bootSlot \in Slots
    /\ slotState \in [Slots -> {"undefined", "new", "pending", "valid", "aborted"}]
    BY DEF TypeOK
<1>1. CASE wpc = "reboot"
  <2>1. bootSlot = Other(running) /\ slotState[bootSlot] = "new" /\ Trusted(running)
    BY <1>1 DEF SelectedSlot
  <2>2. BootPick = bootSlot /\ AfterAbort = slotState BY <2>1 DEF BootPick, AfterAbort
  <2>3. BootStates = [slotState EXCEPT ![bootSlot] = "pending"] BY <2>1, <2>2 DEF BootStates
  <2>4. Other(bootSlot) = running /\ running # bootSlot BY <2>1, TwoSlots
  <2> QED BY <1>1, <2>1, <2>2, <2>3, <2>4 DEF SelectedSlot, Trusted
<1>2. CASE wpc # "reboot" /\ Trusted(running)
  <2>1. bootSlot = running BY <1>2 DEF SelectedSlot
  <2>2. BootPick = running /\ AfterAbort = slotState
    BY <1>2, <2>1 DEF BootPick, AfterAbort, Trusted
  <2>3. BootStates = slotState BY <1>2, <2>2 DEF BootStates, Trusted
  <2> QED BY <1>2, <2>2, <2>3 DEF Trusted
<1>3. CASE wpc # "reboot" /\ ~Trusted(running)
  <2>1. bootSlot = running BY <1>3 DEF SelectedSlot
  <2>2. slotState[running] = "pending" /\ Trusted(Other(running)) BY <1>3 DEF RunningFlash
  <2>3. BootPick = Other(running) /\ AfterAbort = [slotState EXCEPT ![running] = "aborted"]
    BY <2>1, <2>2 DEF BootPick, AfterAbort
  <2>4. Other(running) \in Slots /\ Other(running) # running BY TwoSlots
  <2>5. BootStates[Other(running)] = slotState[Other(running)]
    BY <2>2, <2>3, <2>4 DEF BootStates, Trusted
  <2> QED BY <2>2, <2>3, <2>5 DEF Trusted
<1> QED BY <1>1, <1>2, <1>3

\* A reset preserves the invariant.
LEMMA BootIInv == IInv /\ Boot => IInv'
<1> SUFFICES ASSUME IInv, Boot PROVE IInv' OBVIOUS
<1>1. TypeOK' BY BootTypeOK DEF IInv
<1>2. PICK ble \in BOOLEAN, up \in BOOLEAN, pending \in {FALSE, BootStates[BootPick] = "pending"} :
        /\ ble => content[BootPick].healthy
        /\ Start(pending, ble, up)
  BY DEF Boot
<1>3. /\ running' = BootPick /\ bootSlot' = BootPick /\ slotState' = BootStates
      /\ content' = content
  BY DEF Boot
<1>4. wpc' = "idle" /\ manifest' = NoManifest /\ requests' = <<>> /\ bleUp' = ble
      /\ (pendingVerify' => BootStates[BootPick] = "pending")
  BY <1>2 DEF Start
<1>5. RunningFlash' BY <1>3, BootFlash DEF IInv, RunningFlash, Trusted
<1>6. SelectedSlot' BY <1>3, <1>4 DEF SelectedSlot
<1>7. ManifestIsUpdate' /\ WritingFromTrusted' BY <1>4 DEF ManifestIsUpdate, WritingFromTrusted
<1>8. VerdictFromHealthy' BY <1>2, <1>3, <1>4 DEF VerdictFromHealthy
<1> QED BY <1>1, <1>5, <1>6, <1>7, <1>8 DEF IInv

\* The main loop touches no flash, and only sends a verdict when Bluetooth is up.
LEMMA MainIInv == IInv /\ Main => IInv'
<1> SUFFICES ASSUME IInv, Main PROVE IInv' OBVIOUS
<1>1. TypeOK' BY MainTypeOK DEF IInv
<1>2. UNCHANGED <<content, slotState, bootSlot, running, wpc, manifest, pendingVerify, bleUp>>
  BY DEF Main, MirrorOta, FailShowEnds, BootCheck, SelfTestPasses, SelfTestFails, SelfTestRuns, AppCommand, ReportMotion,
         flashVars, sharedVars, workerVars, downloadVars, initVars, mainVars
<1>3. RunningFlash' /\ SelectedSlot' /\ ManifestIsUpdate' /\ WritingFromTrusted'
  BY <1>2 DEF IInv, RunningFlash, Trusted, SelectedSlot, ManifestIsUpdate, WritingFromTrusted
<1>4. \A i \in DOMAIN requests' :
        requests'[i] = "markValid" => bleUp \/ \E j \in DOMAIN requests : requests[j] = "markValid"
  <2> requests \in Seq(Requests) /\ Len(requests) <= QUEUE BY DEF IInv, TypeOK
  <2>1. CASE UNCHANGED requests BY <2>1
  <2>2. CASE BootCheck /\ ~UNCHANGED requests
    <3>1. PICK install \in BOOLEAN : request(IF install THEN "checkInstall" ELSE "check")
      BY <2>2 DEF BootCheck
    <3>2. CASE install BY <3>1, <3>2, RequestResult DEF Requests
    <3>3. CASE ~install BY <3>1, <3>3, RequestResult DEF Requests
    <3> QED BY <3>2, <3>3
  <2>3. CASE SelfTestPasses BY <2>3 DEF SelfTestPasses
  <2>4. CASE AppCommand BY <2>4 DEF AppCommand
  <2> QED BY <2>1, <2>2, <2>3, <2>4
      DEF Main, MirrorOta, FailShowEnds, SelfTestFails, ReportMotion
<1>5. VerdictFromHealthy' BY <1>2, <1>4 DEF IInv, VerdictFromHealthy
<1> QED BY <1>1, <1>3, <1>5 DEF IInv

\* Nothing but the queue, which only loses its oldest request, and the worker's
\* own progress changes.
LEMMA TakenIInv ==
    ASSUME IInv, TypeOK', requests # <<>>, requests' = Tail(requests), wpc # "reboot",
           wpc' \in {"checkWifi", "testWifi", "install"},
           wpc' = "install" => manifest # NoManifest,
           UNCHANGED <<content, slotState, bootSlot, running, manifest, pendingVerify, bleUp>>
    PROVE  IInv'
<1>1. \A i \in DOMAIN requests' : \E j \in DOMAIN requests : requests'[i] = requests[j]
  BY TailResult DEF IInv, TypeOK
<1>2. VerdictFromHealthy' BY <1>1 DEF IInv, VerdictFromHealthy
<1>3. RunningFlash' /\ SelectedSlot' /\ ManifestIsUpdate' /\ WritingFromTrusted'
  BY DEF IInv, RunningFlash, Trusted, SelectedSlot, ManifestIsUpdate, WritingFromTrusted
<1> QED BY <1>2, <1>3 DEF IInv

\* A failed install leaves flash and verdict alone and forgets the manifest.
LEMMA FailInstallIInv ==
    ASSUME IInv, TypeOK', FailInstall, wpc # "reboot",
           UNCHANGED <<content, slotState, bootSlot, running, pendingVerify, bleUp, requests>>
    PROVE  IInv'
<1>1. wpc' = "idle" /\ manifest' = NoManifest BY DEF FailInstall, Fail
<1> QED BY <1>1 DEF IInv, RunningFlash, Trusted, SelectedSlot, ManifestIsUpdate,
                    WritingFromTrusted, VerdictFromHealthy

\* The steps of the worker up to the download preserve the invariant.
LEMMA CheckIInv ==
    ASSUME IInv, TypeOK',
           \/ ReceiveCheck \/ ReceiveInstall \/ ReceiveTestWifi \/ TestWifiDone
           \/ ReceiveMarkValid \/ CheckWifi \/ Fetch \/ StartInstall \/ InstallWifi
    PROVE  IInv'
<1> USE DEF flashVars, sharedVars, workerVars, downloadVars, initVars, mainVars
<1>1. CASE ReceiveCheck BY <1>1, TakenIInv DEF ReceiveCheck, StartCheck
<1>2. CASE ReceiveInstall BY <1>2, TakenIInv DEF ReceiveInstall, StartCheck
<1>3. CASE ReceiveTestWifi BY <1>3, TakenIInv DEF ReceiveTestWifi
<1>4. CASE TestWifiDone
  BY <1>4 DEF TestWifiDone, IInv, RunningFlash, Trusted, SelectedSlot, ManifestIsUpdate,
              WritingFromTrusted, VerdictFromHealthy
<1>5. CASE ReceiveMarkValid
  <2>1. /\ \A i \in DOMAIN requests' : \E j \in DOMAIN requests : requests'[i] = requests[j]
        /\ \E j \in DOMAIN requests : requests[j] = "markValid"
    BY <1>5, TailResult DEF ReceiveMarkValid, IInv, TypeOK
  <2>2. bleUp /\ content[running].healthy BY <2>1 DEF IInv, VerdictFromHealthy
  <2>3. /\ wpc = "idle" /\ wpc' = "idle"
        /\ UNCHANGED <<content, bootSlot, running, manifest, bleUp>>
    BY <1>5 DEF ReceiveMarkValid
  <2>4. CASE UNCHANGED <<slotState, pendingVerify>>
    BY <2>1, <2>2, <2>3, <2>4
       DEF IInv, RunningFlash, Trusted, SelectedSlot, ManifestIsUpdate, WritingFromTrusted,
           VerdictFromHealthy
  <2>5. CASE slotState' = [slotState EXCEPT ![running] = "valid"] /\ pendingVerify' = FALSE
    <3>1. slotState'[running] = "valid" BY <2>5 DEF IInv, TypeOK
    <3>2. RunningFlash' BY <2>2, <2>3, <3>1 DEF RunningFlash, Trusted
    <3>3. SelectedSlot' /\ ManifestIsUpdate' /\ WritingFromTrusted' /\ VerdictFromHealthy'
      BY <2>1, <2>2, <2>3, <2>5
         DEF IInv, SelectedSlot, ManifestIsUpdate, WritingFromTrusted, VerdictFromHealthy
    <3> QED BY <3>2, <3>3 DEF IInv
  <2> QED BY <1>5, <2>4, <2>5 DEF ReceiveMarkValid
<1>6. CASE CheckWifi
  BY <1>6 DEF CheckWifi, Fail, IInv, RunningFlash, Trusted, SelectedSlot, ManifestIsUpdate,
              WritingFromTrusted, VerdictFromHealthy
<1>7. CASE Fetch
  <2>1. /\ UNCHANGED <<content, slotState, bootSlot, running, pendingVerify, bleUp, requests>>
        /\ wpc = "fetch"
    BY <1>7 DEF Fetch
  <2>2. RunningFlash' /\ VerdictFromHealthy'
    BY <2>1 DEF IInv, RunningFlash, Trusted, VerdictFromHealthy
  <2>3. CASE Fail /\ UNCHANGED manifest
    BY <2>1, <2>2, <2>3 DEF Fail, IInv, SelectedSlot, ManifestIsUpdate, WritingFromTrusted
  <2>4. CASE \E m \in Manifests :
               /\ manifest' = IF decide(m) = "install" THEN m ELSE NoManifest
               /\ wpc' = IF decide(m) = "install" /\ thenInstall THEN "install" ELSE "idle"
    <3>1. PICK m \in Manifests :
            /\ manifest' = IF decide(m) = "install" THEN m ELSE NoManifest
            /\ wpc' = IF decide(m) = "install" /\ thenInstall THEN "install" ELSE "idle"
      BY <2>4
    <3>2. decide(m) = "install" => m.image.version > content[running].version
      BY DEF decide, current_version
    <3>3. m # NoManifest BY GarbageIsNoImage
    <3> QED BY <2>1, <2>2, <3>1, <3>2, <3>3
        DEF IInv, SelectedSlot, ManifestIsUpdate, WritingFromTrusted
  <2> QED BY <1>7, <2>3, <2>4 DEF Fetch
<1>8. CASE StartInstall
  BY <1>8 DEF StartInstall, Fail, IInv, RunningFlash, Trusted, SelectedSlot, ManifestIsUpdate,
              WritingFromTrusted, VerdictFromHealthy
<1>9. CASE InstallWifi
  BY <1>9 DEF InstallWifi, Fail, IInv, RunningFlash, Trusted, SelectedSlot, ManifestIsUpdate,
              WritingFromTrusted, VerdictFromHealthy
<1> QED BY <1>1, <1>2, <1>3, <1>4, <1>5, <1>6, <1>7, <1>8, <1>9

\* Writing the other slot while a trusted image runs disturbs nothing but that
\* slot.
LEMMA WriteIInv ==
    ASSUME IInv, TypeOK', wpc = "read", wpc' \in {"read", "verify"},
           NEW image, content' = [content EXCEPT ![Other(running)] = image],
           wpc' = "verify" => image = manifest.image,
           UNCHANGED <<slotState, bootSlot, running, manifest, pendingVerify, bleUp, requests>>
    PROVE  IInv'
<1>1. running \in Slots /\ Other(running) \in Slots /\ Other(running) # running
  BY TwoSlots DEF IInv, TypeOK
<1>2. content'[running] = content[running] /\ content'[Other(running)] = image
  BY <1>1 DEF IInv, TypeOK
<1>3. Trusted(running) /\ Trusted(running)'
  BY <1>2 DEF IInv, WritingFromTrusted, Trusted
<1>4. RunningFlash' BY <1>3 DEF RunningFlash
<1>5. SelectedSlot' BY DEF IInv, SelectedSlot
<1>6. ManifestIsUpdate' BY <1>2 DEF IInv, ManifestIsUpdate
<1>7. WritingFromTrusted' BY <1>2, <1>3 DEF WritingFromTrusted
<1>8. VerdictFromHealthy' BY <1>2 DEF IInv, VerdictFromHealthy
<1> QED BY <1>4, <1>5, <1>6, <1>7, <1>8 DEF IInv

\* Download, verification and activation preserve the invariant.
LEMMA InstallIInv ==
    ASSUME IInv, TypeOK',
           OpenDownload \/ ReadChunk \/ ReadFails \/ ReadEnds \/ Activate
    PROVE  IInv'
<1> USE DEF flashVars, sharedVars, workerVars, downloadVars, initVars, mainVars
<1>1. CASE OpenDownload
  <2>1. CASE FailInstall BY <1>1, <2>1, FailInstallIInv DEF OpenDownload
  <2>2. CASE slotState[running] # "pending" /\ wpc' = "read" /\ UNCHANGED manifest
    <3>1. Trusted(running) BY <2>2 DEF IInv, RunningFlash
    <3> QED BY <1>1, <2>2, <3>1
        DEF OpenDownload, IInv, RunningFlash, Trusted, SelectedSlot, ManifestIsUpdate,
            WritingFromTrusted, VerdictFromHealthy
  <2> QED BY <1>1, <2>1, <2>2 DEF OpenDownload
<1>2. CASE ReadChunk
  <2>1. PICK n \in 1..CHUNK : Chunk(n) BY <1>2 DEF ReadChunk
  <2>2. CASE FailInstall /\ UNCHANGED content BY <1>2, <2>2, FailInstallIInv DEF ReadChunk
  <2>3. CASE ~(FailInstall /\ UNCHANGED content)
    <3>1. /\ content' = [content EXCEPT ![Other(running)] = Garbage]
          /\ UNCHANGED <<wpc, manifest>>
      BY <2>1, <2>3 DEF Chunk
    <3> QED BY <1>2, <3>1, WriteIInv DEF ReadChunk
  <2> QED BY <2>2, <2>3
<1>3. CASE ReadFails BY <1>3, FailInstallIInv DEF ReadFails
<1>4. CASE ReadEnds
  <2>1. CASE FailInstall /\ UNCHANGED content BY <1>4, <2>1, FailInstallIInv DEF ReadEnds
  <2>2. CASE /\ wpc' = "verify" /\ UNCHANGED manifest
             /\ content' = [content EXCEPT ![Other(running)] = manifest.image]
    BY <1>4, <2>2, WriteIInv DEF ReadEnds
  <2> QED BY <1>4, <2>1, <2>2 DEF ReadEnds
<1>5. CASE Activate
  <2>1. CASE FailInstall /\ UNCHANGED <<slotState, bootSlot>>
    BY <1>5, <2>1, FailInstallIInv DEF Activate
  <2>2. CASE /\ slotState' = [slotState EXCEPT ![Other(running)] = "new"]
             /\ bootSlot' = Other(running)
             /\ wpc' = "reboot" /\ UNCHANGED manifest
    <3>1. /\ wpc = "verify"
          /\ UNCHANGED <<content, running, pendingVerify, bleUp, requests>>
      BY <1>5 DEF Activate
    <3>2. running \in Slots /\ Other(running) \in Slots /\ Other(running) # running
      BY TwoSlots DEF IInv, TypeOK
    <3>3. slotState'[running] = slotState[running] /\ slotState'[Other(running)] = "new"
      BY <2>2, <3>2 DEF IInv, TypeOK
    <3>4. Trusted(running) /\ Trusted(running)'
      BY <3>1, <3>3 DEF IInv, WritingFromTrusted, Trusted
    <3>5. /\ content[Other(running)] = manifest.image /\ manifest # NoManifest
          /\ manifest.image.version > content[running].version
      BY <3>1 DEF IInv, WritingFromTrusted, ManifestIsUpdate
    <3>6. manifest.image # Garbage
      BY <3>5, OtaAssumption, GarbageIsNoImage DEF IInv, TypeOK, Manifests
    <3>7. RunningFlash' BY <3>4 DEF RunningFlash
    <3>8. SelectedSlot' BY <2>2, <3>1, <3>3, <3>4, <3>5, <3>6 DEF SelectedSlot
    <3>9. ManifestIsUpdate' /\ WritingFromTrusted'
      BY <2>2, <3>1, <3>5 DEF ManifestIsUpdate, WritingFromTrusted
    <3>10. VerdictFromHealthy' BY <3>1, <3>3 DEF IInv, VerdictFromHealthy
    <3> QED BY <3>7, <3>8, <3>9, <3>10 DEF IInv
  <2> QED BY <1>5, <2>1, <2>2 DEF Activate
<1> QED BY <1>1, <1>2, <1>3, <1>4, <1>5

-----------------------------------------------------------------------------
(* The theorems.                                                            *)

\* Every step preserves the invariant.
LEMMA NextIInv == IInv /\ [Next]_vars => IInv'
<1> SUFFICES ASSUME IInv, [Next]_vars PROVE IInv' OBVIOUS
<1>1. CASE Worker
  <2>1. TypeOK' BY <1>1, WorkerTypeOK DEF IInv
  <2>2. CASE Reboot BY <2>2, BootIInv DEF Reboot
  <2> QED BY <1>1, <2>1, <2>2, CheckIInv, InstallIInv DEF Worker
<1>2. CASE Main BY <1>2, MainIInv
<1>3. CASE Reset BY <1>3, BootIInv DEF Reset
<1>4. CASE UNCHANGED vars
  BY <1>4 DEF vars, flashVars, sharedVars, workerVars, downloadVars, initVars, mainVars, IInv,
              TypeOK, RunningFlash, Trusted, SelectedSlot, ManifestIsUpdate,
              WritingFromTrusted, VerdictFromHealthy
<1> QED BY <1>1, <1>2, <1>3, <1>4 DEF Next

\* The inductive invariant holds of every reachable state.
THEOREM OtaInvariant == Spec => []IInv
BY InitIInv, NextIInv, PTL DEF Spec

\* The types, the bound of the queue and the length of a download.
THEOREM OtaTypeOK == Spec => []TypeOK
<1>1. IInv => TypeOK BY DEF IInv
<1> QED BY <1>1, OtaInvariant, PTL

\* Whenever the power is cut a working image is at most two boots away.
THEOREM UpdateIsRecoverable == Spec => []AlwaysRecoverable
<1>1. IInv => AlwaysRecoverable
  <2> SUFFICES ASSUME IInv PROVE AlwaysRecoverable OBVIOUS
  <2>1. \A s \in Slots : content[s].healthy => content[s] # Garbage BY DEF Garbage
  <2>2. BootPick \in Slots BY BootTypes DEF IInv
  <2> QED BY <2>1, <2>2, BootFlash DEF IInv, AlwaysRecoverable
<1> QED BY <1>1, OtaInvariant, PTL

\* An image on probation, or about to be, is newer than the one it replaces.
THEOREM UpdateNeverDowngrades == Spec => []NoDowngrade
<1>1. IInv => NoDowngrade
  <2> SUFFICES ASSUME IInv, slotState[bootSlot] \in {"new", "pending"}
               PROVE  content[bootSlot].version > content[Other(bootSlot)].version
    BY DEF NoDowngrade
  <2>1. CASE wpc = "reboot"
    BY <2>1, TwoSlots DEF IInv, TypeOK, SelectedSlot
  <2>2. CASE wpc # "reboot"
    BY <2>2 DEF IInv, SelectedSlot, RunningFlash, Trusted
  <2> QED BY <2>1, <2>2
<1> QED BY <1>1, OtaInvariant, PTL

\* No image is kept in which Bluetooth never came up.
THEOREM OnlyHealthyIsKept == Spec => []KeptOnlyAfterSelfTest
<1>1. IInv => KeptOnlyAfterSelfTest
  BY DEF IInv, KeptOnlyAfterSelfTest, RunningFlash, Trusted
<1> QED BY <1>1, OtaInvariant, PTL

\* Neither the running slot nor the one a reset would start is ever written.
THEOREM OnlyInactiveSlotIsWritten == Spec => WritesInactiveSlotOnly
<1>1. IInv /\ [Next]_vars =>
        [\A s \in Slots : content'[s] # content[s] => s # running /\ s # BootPick]_vars
  <2> SUFFICES ASSUME IInv, Next, NEW s \in Slots, content'[s] # content[s]
               PROVE  s # running /\ s # BootPick
    OBVIOUS
  <2>1. ReadChunk \/ ReadEnds
    BY DEF Next, Worker, Main, Reset, Reboot, Boot, MirrorOta, FailShowEnds, BootCheck,
           SelfTestPasses, SelfTestFails, SelfTestRuns, AppCommand, ReportMotion, ReceiveCheck, ReceiveInstall, ReceiveTestWifi,
           TestWifiDone, ReceiveMarkValid, CheckWifi, Fetch, StartInstall, InstallWifi,
           OpenDownload, ReadFails, Activate, flashVars
  <2>2. wpc = "read" BY <2>1 DEF ReadChunk, ReadEnds
  <2>3. bootSlot = running /\ Trusted(running)
    BY <2>2 DEF IInv, SelectedSlot, WritingFromTrusted
  <2>4. BootPick = running BY <2>3 DEF BootPick, Trusted
  <2>5. content' = content \/ \E image : content' = [content EXCEPT ![Other(running)] = image]
    BY <2>1 DEF ReadChunk, ReadEnds, Chunk
  <2>6. s = Other(running) BY <2>5 DEF IInv, TypeOK
  <2> QED BY <2>4, <2>6, TwoSlots DEF IInv, TypeOK
<1> QED BY <1>1, OtaInvariant, PTL DEF Spec, WritesInactiveSlotOnly

-----------------------------------------------------------------------------
(* Module Ota implements module UpdateContract: the steps of the refinement *)
(* rest on the same invariant.                                              *)

\* The board as it comes is the contract's initial state.
LEMMA InitRefines == Init => Contract!Init
<1> SUFFICES ASSUME Init PROVE Contract!Init OBVIOUS
<1>1. content["ota_0"] = Factory /\ running = "ota_0" /\ bootSlot = "ota_0"
      /\ slotState[running] = "undefined"
  BY DEF Init, Slots
<1> QED BY <1>1 DEF Contract!Init, OnProbation

\* Trusted images are not on probation; the others in use are.
LEMMA ProbationOrTrusted ==
    ASSUME IInv
    PROVE  /\ Trusted(running) => ~OnProbation(running)
           /\ slotState[running] = "pending" => OnProbation(running)
BY DEF Trusted, OnProbation

\* A step that leaves the flash alone leaves the contract's state alone.
LEMMA FlashUnchangedRefines ==
    ASSUME UNCHANGED flashVars PROVE UNCHANGED Contract!contractVars
BY DEF flashVars, Contract!contractVars, OnProbation

\* So does a step that only writes the other slot of a trusted image.
LEMMA WriteRefines ==
    ASSUME IInv, Trusted(running), bootSlot = running, UNCHANGED <<slotState, bootSlot, running>>,
           content'[running] = content[running]
    PROVE  UNCHANGED Contract!contractVars
BY DEF Trusted, OnProbation, Contract!contractVars

\* A download in progress.
LEMMA DownloadRefines ==
    ASSUME IInv, ReadChunk \/ ReadEnds
    PROVE  UNCHANGED Contract!contractVars
<1>1. wpc = "read" BY DEF ReadChunk, ReadEnds
<1>2. Trusted(running) /\ bootSlot = running
  BY <1>1 DEF IInv, WritingFromTrusted, SelectedSlot
<1>3. content' = content \/ \E image : content' = [content EXCEPT ![Other(running)] = image]
  BY DEF ReadChunk, ReadEnds, Chunk
<1>4. running \in Slots /\ Other(running) # running BY TwoSlots DEF IInv, TypeOK
<1>5. content'[running] = content[running] BY <1>3, <1>4 DEF IInv, TypeOK
<1>6. UNCHANGED <<slotState, bootSlot, running>> BY DEF ReadChunk, ReadEnds
<1> QED BY <1>2, <1>5, <1>6, WriteRefines

\* Activating what was downloaded stages it; failing to changes nothing.
LEMMA ActivateRefines ==
    ASSUME IInv, Activate
    PROVE  Contract!Stage \/ UNCHANGED Contract!contractVars
<1>1. CASE UNCHANGED <<slotState, bootSlot>>
  <2>1. UNCHANGED flashVars BY <1>1 DEF Activate, flashVars
  <2> QED BY <2>1, FlashUnchangedRefines
<1>2. CASE slotState' = [slotState EXCEPT ![Other(running)] = "new"] /\ bootSlot' = Other(running)
  <2>1. wpc = "verify" /\ UNCHANGED <<content, running>> BY DEF Activate
  <2>2. Trusted(running) /\ bootSlot = running /\ content[Other(running)] = manifest.image
        /\ manifest # NoManifest /\ manifest.image.version > content[running].version
    BY <2>1 DEF IInv, WritingFromTrusted, SelectedSlot, ManifestIsUpdate
  <2>3. running \in Slots /\ Other(running) \in Slots /\ Other(running) # running
    BY TwoSlots DEF IInv, TypeOK
  <2>4. manifest.image \in Images BY <2>2 DEF IInv, TypeOK, Manifests
  <2>5. ~OnProbation(running) /\ ~OnProbation(running)'
    BY <1>2, <2>1, <2>2, <2>3 DEF IInv, TypeOK, Trusted, OnProbation
  <2> QED BY <1>2, <2>1, <2>2, <2>3, <2>4, <2>5 DEF Contract!Stage
<1> QED BY <1>1, <1>2 DEF Activate

\* The verdict of the self-test keeps the running image, or nothing happens.
LEMMA MarkValidRefines ==
    ASSUME IInv, ReceiveMarkValid
    PROVE  Contract!Keep \/ UNCHANGED Contract!contractVars
<1>1. CASE UNCHANGED slotState
  <2>1. UNCHANGED flashVars BY <1>1 DEF ReceiveMarkValid, flashVars
  <2> QED BY <2>1, FlashUnchangedRefines
<1>2. CASE pendingVerify /\ slotState' = [slotState EXCEPT ![running] = "valid"]
  <2>1. /\ wpc = "idle" /\ requests # <<>> /\ Head(requests) = "markValid"
        /\ UNCHANGED <<content, bootSlot, running>>
    BY DEF ReceiveMarkValid
  <2>2. bootSlot = running BY <2>1 DEF IInv, SelectedSlot
  <2>3. requests \in Seq(Requests) BY DEF IInv, TypeOK
  <2>4. 1 \in DOMAIN requests /\ requests[1] = "markValid" BY <2>1, <2>3
  <2>5. content[running].healthy BY <2>4 DEF IInv, VerdictFromHealthy
  <2>6. ~OnProbation(running)' BY <1>2, <2>1 DEF IInv, TypeOK, OnProbation
  <2> QED BY <2>1, <2>2, <2>5, <2>6 DEF Contract!Keep
<1> QED BY <1>1, <1>2 DEF ReceiveMarkValid

\* A reset tries the staged image, goes back to the known one, or starts the
\* same one again.
LEMMA BootRefines ==
    ASSUME IInv, Boot
    PROVE  Contract!Try \/ Contract!FallBack \/ UNCHANGED Contract!contractVars
<1>0. /\ running' = BootPick /\ bootSlot' = BootPick /\ slotState' = BootStates
      /\ content' = content
  BY DEF Boot
<1>a. /\ running \in Slots /\ bootSlot \in Slots
      /\ slotState \in [Slots -> {"undefined", "new", "pending", "valid", "aborted"}]
  BY DEF IInv, TypeOK
<1>b. Other(running) \in Slots /\ Other(running) # running /\ Other(Other(running)) = running
  BY <1>a, TwoSlots
<1>1. CASE wpc = "reboot"
  <2>1. /\ bootSlot = Other(running) /\ slotState[bootSlot] = "new" /\ Trusted(running)
        /\ content[bootSlot] # Garbage
    BY <1>1 DEF IInv, SelectedSlot
  <2>2. BootPick = bootSlot /\ AfterAbort = slotState BY <2>1 DEF BootPick, AfterAbort
  <2>3. BootStates = [slotState EXCEPT ![bootSlot] = "pending"] BY <2>1, <2>2 DEF BootStates
  <2>4. ~OnProbation(running) BY <2>1 DEF Trusted, OnProbation
  <2>5. OnProbation(running)' BY <1>0, <1>a, <2>2, <2>3 DEF OnProbation
  <2>6. Other(running') = running BY <1>0, <1>b, <2>1, <2>2
  <2> QED BY <1>0, <1>b, <2>1, <2>2, <2>4, <2>5, <2>6 DEF Contract!Try
<1>2. CASE wpc # "reboot" /\ Trusted(running)
  <2>1. bootSlot = running BY <1>2 DEF IInv, SelectedSlot
  <2>2. BootPick = running /\ AfterAbort = slotState
    BY <1>2, <2>1 DEF BootPick, AfterAbort, Trusted
  <2>3. BootStates = slotState BY <1>2, <2>2 DEF BootStates, Trusted
  <2>4. UNCHANGED flashVars BY <1>0, <2>1, <2>2, <2>3 DEF flashVars
  <2> QED BY <2>4, FlashUnchangedRefines
<1>3. CASE wpc # "reboot" /\ ~Trusted(running)
  <2>1. bootSlot = running BY <1>3 DEF IInv, SelectedSlot
  <2>2. /\ slotState[running] = "pending" /\ Trusted(Other(running))
        /\ content[running].version > content[Other(running)].version
    BY <1>3 DEF IInv, RunningFlash
  <2>3. BootPick = Other(running) /\ AfterAbort = [slotState EXCEPT ![running] = "aborted"]
    BY <2>1, <2>2 DEF BootPick, AfterAbort
  <2>4. BootStates[Other(running)] = slotState[Other(running)]
    BY <1>a, <1>b, <2>2, <2>3 DEF BootStates, Trusted
  <2>5. OnProbation(running) BY <2>2 DEF OnProbation
  <2>6. ~OnProbation(running)' BY <1>0, <2>2, <2>3, <2>4 DEF OnProbation, Trusted
  <2>7. content[running] # content[Other(running)]
    <3>1. /\ content[Other(running)] \in Images \cup {Garbage}
          /\ content[Other(running)].version \in Int
      BY <1>b, OtaAssumption DEF IInv, TypeOK, Garbage
    <3> QED BY <2>2, <3>1
  <2> QED BY <1>0, <2>1, <2>3, <2>5, <2>6, <2>7 DEF Contract!FallBack
<1> QED BY <1>1, <1>2, <1>3

\* Every step is a step of the contract or none.
LEMMA NextRefines == IInv /\ [Next]_vars => [Contract!Next]_(Contract!contractVars)
<1> SUFFICES ASSUME IInv, [Next]_vars PROVE [Contract!Next]_(Contract!contractVars) OBVIOUS
<1>1. CASE ReadChunk \/ ReadEnds BY <1>1, DownloadRefines
<1>2. CASE Activate BY <1>2, ActivateRefines DEF Contract!Next
<1>3. CASE ReceiveMarkValid BY <1>3, MarkValidRefines DEF Contract!Next
<1>4. CASE Reboot \/ Reset BY <1>4, BootRefines DEF Reboot, Reset, Contract!Next
<1>5. CASE UNCHANGED flashVars BY <1>5, FlashUnchangedRefines
<1>6. CASE Main
  BY <1>5, <1>6 DEF Main, MirrorOta, FailShowEnds, BootCheck, SelfTestPasses, SelfTestFails, SelfTestRuns, AppCommand, ReportMotion
<1>7. CASE ReceiveCheck \/ ReceiveInstall \/ ReceiveTestWifi \/ TestWifiDone \/ CheckWifi
  BY <1>5, <1>7 DEF ReceiveCheck, ReceiveInstall, ReceiveTestWifi, TestWifiDone, CheckWifi
<1>8. CASE Fetch \/ StartInstall \/ InstallWifi \/ OpenDownload \/ ReadFails
  BY <1>5, <1>8 DEF Fetch, StartInstall, InstallWifi, OpenDownload, ReadFails
<1>9. CASE UNCHANGED vars BY <1>5, <1>9 DEF vars
<1> QED BY <1>1, <1>2, <1>3, <1>4, <1>6, <1>7, <1>8, <1>9 DEF Next, Worker

\* Worker, main loop, flash and bootloader implement the update contract.
THEOREM OtaImplementsContract == Spec => ImplementsContract
<1>1. Init /\ [][Next]_vars /\ []IInv => Contract!Spec
  BY InitRefines, NextRefines, PTL DEF Contract!Spec
<1> QED BY <1>1, OtaInvariant, PTL DEF Spec, ImplementsContract
=============================================================================
