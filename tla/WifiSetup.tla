----------------------------- MODULE WifiSetup -----------------------------
(***************************************************************************)
(* WiFi credentials on their way from the app to the radio: the settings    *)
(* store (firmware/esp32/src/config_store.rs), the commands of the main     *)
(* loop that change it (firmware/esp32/src/main.rs) and the station that    *)
(* the OTA worker brings up with it (firmware/esp32/src/ota.rs).            *)
(*                                                                          *)
(* The app sends networks 1, 2, 3, ... one after the other; the password of *)
(* network k is k, or 0 where the network is open. 0 also stands for a key  *)
(* that is absent or empty, which the store does not tell apart. A store    *)
(* operation holds the lock of the configuration from its first to its last *)
(* write to flash.                                                          *)
(***************************************************************************)
EXTENDS Integers

CONSTANTS
    MaxSets,     \* bound on the networks the app sends
    Open,        \* the open ones among them
    Policies,    \* boot policies the app sets
    QUEUE,       \* capacity of the worker's request channel (4)
    MaxFaults,   \* bound on failing flash writes and driver calls
    MaxCuts,     \* bound on power cuts
    WrapFails    \* BlockingWifi::wrap may fail too

ASSUME WifiAssumption ==
    /\ MaxSets \in Nat \ {0} /\ Open \subseteq 1..MaxSets /\ Policies \subseteq 0..2
    /\ QUEUE \in Nat \ {0} /\ MaxFaults \in Nat /\ MaxCuts \in Nat /\ WrapFails \in BOOLEAN

VARIABLES
    nvs, cfg,            \* the settings in flash and in RAM
    mpc,                 \* where the main loop is in a command
    requests,            \* TestWifi and the checks, all of which connect
    wpc, creds,          \* where the worker is, and the credentials it read
    modem, driver, up,   \* Worker: modem and wifi are there, wifi_up
    joined,              \* the network the radio is on, 0 for none
    status,              \* OtaShared.wifi
    asked, faults, cuts, \* bounds
    unsaved              \* observation: what was not stored

storeVars == <<nvs, cfg, mpc>>
radioVars == <<modem, driver, up, joined>>
workerVars == <<wpc, creds>>
obsVars == <<asked, unsaved, faults, cuts>>
vars == <<storeVars, requests, workerVars, radioVars, status, obsVars>>

BOOT_CHECK == 1
PskOf(k) == IF k \in Open THEN 0 ELSE k

\* ConfigStore::load; -1 for a key that was never written.
load(n) == [ssid |-> n.ssid, psk |-> n.psk, policy |-> IF n.policy = -1 THEN BOOT_CHECK ELSE n.policy]

\* WifiStatus as spawn fills it in.
BootStatus(c) == [configured |-> c.ssid # 0, ssid |-> c.ssid, state |-> "off"]

Init ==
    /\ nvs = [ssid |-> 0, psk |-> 0, policy |-> -1] /\ cfg = load(nvs) /\ mpc = "idle"
    /\ requests = 0 /\ wpc = "idle" /\ creds = [ssid |-> 0, psk |-> 0]
    /\ modem = TRUE /\ driver = FALSE /\ up = FALSE /\ joined = 0
    /\ status = BootStatus(cfg)
    /\ asked = 0 /\ unsaved = {} /\ faults = 0 /\ cuts = 0

-----------------------------------------------------------------------------
(* The main loop and the store.                                             *)

\* OtaHandle::request.
request == requests' = IF requests < QUEUE THEN requests + 1 ELSE requests

\* A write to flash, which may fail and then changes nothing.
Stored(key, v) == nvs' = [nvs EXCEPT ![key] = v] /\ UNCHANGED faults
StoreFails == faults < MaxFaults /\ faults' = faults + 1 /\ UNCHANGED nvs

StoreUnchanged == UNCHANGED <<workerVars, radioVars, cuts>>

\* set_wifi once the flash has been tried: RAM follows in any case, and the
\* worker is asked to connect.
WifiSet(k, ok) ==
    /\ cfg' = [cfg EXCEPT !.ssid = k, !.psk = PskOf(k)]
    /\ mpc' = "idle" /\ request
    /\ unsaved' = IF ok THEN unsaved \ {"wifi"} ELSE unsaved \cup {"wifi"}

\* Mutant: the password is stored first.
KeyOrderPskFirst == <<"psk", "ssid">>

\* The order in which set_wifi stores the two keys.
KeyOrder == <<"ssid", "psk">>

KeyValue(key, k) == IF key = "ssid" THEN k ELSE PskOf(k)

\* The app's credentials: set_wifi stores one key ...
StoreFirst ==
    /\ mpc = "idle" /\ asked < MaxSets /\ asked' = asked + 1
    /\ \/ /\ Stored(KeyOrder[1], KeyValue(KeyOrder[1], asked'))
          /\ mpc' = "storeSecond" /\ UNCHANGED <<cfg, unsaved, requests>>
       \/ StoreFails /\ WifiSet(asked', FALSE)
    /\ UNCHANGED status /\ StoreUnchanged

\* ... and then, if that went well, the other.
StoreSecond ==
    /\ mpc = "storeSecond"
    /\ \/ Stored(KeyOrder[2], KeyValue(KeyOrder[2], asked)) /\ WifiSet(asked, TRUE)
       \/ StoreFails /\ WifiSet(asked, FALSE)
    /\ UNCHANGED <<asked, status>> /\ StoreUnchanged

\* ForgetWifi: clear_wifi removes both keys, whatever happens to either ...
RemoveSsid ==
    /\ mpc = "idle" /\ mpc' = "removePsk"
    /\ \/ Stored("ssid", 0) /\ unsaved' = unsaved \ {"wifi"}
       \/ StoreFails /\ unsaved' = unsaved \cup {"wifi"}
    /\ UNCHANGED <<cfg, requests, status, asked>> /\ StoreUnchanged

\* Mutant: the password stays in flash.
RemoveSsidOnly ==
    /\ mpc = "removePsk" /\ mpc' = "resetStatus"
    /\ cfg' = [cfg EXCEPT !.ssid = 0, !.psk = 0]
    /\ UNCHANGED <<nvs, unsaved, faults, requests, status, asked>> /\ StoreUnchanged

RemovePsk ==
    /\ mpc = "removePsk" /\ mpc' = "resetStatus"
    /\ \/ Stored("psk", 0) /\ UNCHANGED unsaved
       \/ StoreFails /\ unsaved' = unsaved \cup {"wifi"}
    /\ cfg' = [cfg EXCEPT !.ssid = 0, !.psk = 0]
    /\ UNCHANGED <<requests, status, asked>> /\ StoreUnchanged

\* ... and the status starts afresh.
ResetStatus ==
    /\ mpc = "resetStatus" /\ mpc' = "idle"
    /\ status' = [configured |-> FALSE, ssid |-> 0, state |-> "off"]
    /\ UNCHANGED <<nvs, cfg, requests, asked, unsaved, faults>> /\ StoreUnchanged

\* set_boot_policy, set_brightness and set_manifest_url: one key each.
StoreSetting(p) ==
    /\ mpc = "idle"
    /\ \/ Stored("policy", p) /\ unsaved' = unsaved \ {"policy"}
       \/ StoreFails /\ unsaved' = unsaved \cup {"policy"}
    /\ cfg' = [cfg EXCEPT !.policy = p]
    /\ UNCHANGED <<mpc, requests, status, asked>> /\ StoreUnchanged

\* TestWifi, and what the update commands begin with.
AskToConnect ==
    /\ mpc = "idle" /\ request
    /\ UNCHANGED <<storeVars, status, asked, unsaved, faults>> /\ StoreUnchanged

-----------------------------------------------------------------------------
(* The worker: wifi_connect, step by step.                                  *)

WorkerUnchanged == UNCHANGED <<storeVars, asked, unsaved, cuts>>

\* Idempotent: nothing happens when the radio is on a network.
Receive ==
    /\ wpc = "idle" /\ requests > 0 /\ requests' = requests - 1
    /\ wpc' = IF up /\ driver /\ joined # 0 THEN "idle" ELSE "read"
    /\ UNCHANGED <<creds, radioVars, status, faults>> /\ WorkerUnchanged

\* Under the configuration's lock.
ReadCreds ==
    /\ wpc = "read" /\ mpc \notin {"storeSecond", "removePsk"}
    /\ creds' = [ssid |-> cfg.ssid, psk |-> cfg.psk] /\ wpc' = "begin"
    /\ UNCHANGED <<requests, radioVars, status, faults>> /\ WorkerUnchanged

Begin ==
    /\ wpc = "begin"
    /\ IF creds.ssid = 0
       THEN wpc' = "idle" /\ status' = [status EXCEPT !.configured = FALSE, !.state = "failed"]
       ELSE wpc' = "driver" /\ status' = [configured |-> TRUE, ssid |-> creds.ssid, state |-> "connecting"]
    /\ UNCHANGED <<requests, creds, radioVars, faults>> /\ WorkerUnchanged

Finish(state) == wpc' = "idle" /\ status' = [status EXCEPT !.state = state]

Fault == faults < MaxFaults /\ faults' = faults + 1

\* Mutant: a driver that could not be created is not reported.
wifi_driver_silent ==
    /\ wpc = "driver"
    /\ \/ driver /\ wpc' = "connect" /\ UNCHANGED <<modem, driver, status, faults>>
       \/ ~driver /\ modem /\ wpc' = "connect" /\ driver' = TRUE /\ modem' = FALSE /\ UNCHANGED <<status, faults>>
       \/ ~driver /\ modem /\ Fault /\ wpc' = "idle" /\ UNCHANGED <<modem, driver, status>>
       \/ ~driver /\ ~modem /\ wpc' = "idle" /\ UNCHANGED <<modem, driver, status, faults>>
    /\ UNCHANGED <<requests, creds, up, joined>> /\ WorkerUnchanged

\* Mutant: the token is made anew whatever became of the driver.
wifi_driver_keeps_token ==
    /\ wpc = "driver" /\ wpc' = "connect" /\ driver' = TRUE
    /\ UNCHANGED <<modem, requests, creds, up, joined, status, faults>> /\ WorkerUnchanged

\* wifi_driver: the driver takes the modem's token. It comes back when EspWifi::new
\* fails, and is lost when the wrapper around the driver cannot be made.
wifi_driver ==
    /\ wpc = "driver"
    /\ \/ driver /\ wpc' = "connect" /\ UNCHANGED <<modem, driver, status, faults>>
       \/ ~driver /\ modem /\ wpc' = "connect" /\ driver' = TRUE /\ modem' = FALSE /\ UNCHANGED <<status, faults>>
       \/ ~driver /\ modem /\ Fault /\ Finish("failed") /\ UNCHANGED <<modem, driver>>
       \/ ~driver /\ modem /\ WrapFails /\ Fault /\ Finish("failed") /\ modem' = FALSE /\ UNCHANGED driver
       \/ ~driver /\ ~modem /\ Finish("failed") /\ UNCHANGED <<modem, driver, faults>>
    /\ UNCHANGED <<requests, creds, up, joined>> /\ WorkerUnchanged

\* Configure, start the radio if it is not, associate: any of it may fail, and
\* without the network's own password it does.
Associate ==
    /\ wpc = "connect"
    /\ \/ /\ creds.psk = PskOf(creds.ssid)
          /\ up' = TRUE /\ joined' = creds.ssid /\ Finish("connected")
       \/ up' \in {up, TRUE} /\ joined' = 0 /\ Finish("failed")
    /\ UNCHANGED <<requests, creds, modem, driver, faults>> /\ WorkerUnchanged

\* After 90 s without a request the driver is dropped.
wifi_disconnect ==
    /\ wpc = "idle" /\ requests = 0 /\ driver
    /\ driver' = FALSE /\ modem' = TRUE /\ up' = FALSE /\ joined' = 0
    /\ status' = [status EXCEPT !.state = "off"]
    /\ UNCHANGED <<requests, workerVars, faults>> /\ WorkerUnchanged

\* The access point goes away.
LinkLost ==
    /\ joined # 0 /\ joined' = 0
    /\ UNCHANGED <<requests, workerVars, modem, driver, up, status, faults>> /\ WorkerUnchanged

PowerCut ==
    /\ cuts < MaxCuts /\ cuts' = cuts + 1
    /\ cfg' = load(nvs) /\ mpc' = "idle" /\ requests' = 0 /\ wpc' = "idle"
    /\ creds' = [ssid |-> 0, psk |-> 0]
    /\ modem' = TRUE /\ driver' = FALSE /\ up' = FALSE /\ joined' = 0
    /\ status' = BootStatus(cfg') /\ unsaved' = {}
    /\ UNCHANGED <<nvs, asked, faults>>

-----------------------------------------------------------------------------
InCommand == StoreSecond \/ RemovePsk \/ ResetStatus
Command == StoreFirst \/ RemoveSsid \/ AskToConnect \/ \E p \in Policies : StoreSetting(p)
Connecting == Receive \/ ReadCreds \/ Begin \/ wifi_driver \/ Associate

Next == Command \/ InCommand \/ Connecting \/ wifi_disconnect \/ LinkLost \/ PowerCut

Spec == Init /\ [][Next]_vars

\* Both threads run, the driver's calls return and timers fire; a thread that
\* waits for a mutex is given it (FreeRTOS wakes the waiter). The app, the
\* access point and the ignition do as they please.
Fairness ==
    /\ WF_vars(InCommand) /\ WF_vars(Connecting) /\ SF_vars(ReadCreds)
    /\ WF_vars(wifi_disconnect)

FairSpec == Spec /\ Fairness

-----------------------------------------------------------------------------
(* Properties.                                                              *)

\* WifiStatus, as the app sees it.
Statuses == [configured : BOOLEAN, ssid : 0..MaxSets, state : {"off", "connecting", "connected", "failed"}]

\* Types; the request channel keeps its capacity.
TypeOK ==
    /\ nvs \in [ssid : 0..MaxSets, psk : 0..MaxSets, policy : -1..2]
    /\ cfg \in [ssid : 0..MaxSets, psk : 0..MaxSets, policy : 0..2]
    /\ mpc \in {"idle", "storeSecond", "removePsk", "resetStatus"}
    /\ requests \in 0..QUEUE
    /\ wpc \in {"idle", "read", "begin", "driver", "connect"}
    /\ creds \in [ssid : 0..MaxSets, psk : 0..MaxSets]
    /\ modem \in BOOLEAN /\ driver \in BOOLEAN /\ up \in BOOLEAN /\ joined \in 0..MaxSets
    /\ status \in Statuses
    /\ asked \in 0..MaxSets /\ unsaved \subseteq {"wifi", "policy"} /\ faults \in Nat /\ cuts \in Nat

\* The store: between commands, and unless a write failed, a key-off changes
\* no setting.
RebootKeepsSettings ==
    mpc = "idle" =>
        /\ "wifi" \in unsaved \/ (load(nvs).ssid = cfg.ssid /\ load(nvs).psk = cfg.psk)
        /\ "policy" \in unsaved \/ load(nvs).policy = cfg.policy

\* set_wifi and clear_wifi write two keys. Cut or failing anywhere, they never
\* leave a password in flash beside the name of an older network, to which it
\* would be offered at the next key-on.
PasswordNotForOlderNetwork == nvs.ssid # 0 => nvs.psk <= nvs.ssid

\* The SAFETY comments on WifiModem::new: the token is never there twice, in
\* the worker's hand and in a driver; a radio in use has its driver.
SingleOwner == ~(modem /\ driver) /\ ((up \/ joined # 0) => driver)

\* docs/ota.md: "The WiFi driver exists only from the first request until 90 s
\* after the last", also when the connection never came up.
DriverIsReleased == driver ~> (~driver \/ requests > 0)

\* wifi_connect always reports an outcome (or the main loop forgets the network).
ConnectingEnds == status.state = "connecting" ~> status.state # "connecting"

\* An attempt to connect, failing at any of its steps, leaves neither a radio
\* that stays on nor an app that goes on waiting.
AttemptsEnd == DriverIsReleased /\ ConnectingEnds

-----------------------------------------------------------------------------
(* Promises the code does not keep; no run checks them.                     *)

\* The comment on Worker.modem: "the modem is kept to recreate it".
ModemKept == wpc = "idle" => modem \/ driver

\* docs/ble-protocol.md on `wifi-config': "answers with a connection attempt
\* reported through `wifi-status'".
NewNetworkTried ==
    \A k \in 1..MaxSets : (cfg.ssid = k) ~> (cfg.ssid # k \/ status.ssid = k)

\* spawn's own reading of `configured' (the SSID is there), and what
\* docs/ble-protocol.md lists it as: when both threads are at rest, the status
\* says whether credentials are stored.
ConfiguredIsTrue == (mpc = "idle" /\ wpc = "idle" /\ requests = 0) => status.configured = (cfg.ssid # 0)
=============================================================================
