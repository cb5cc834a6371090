--------------------------- MODULE WifiSetupProofs ---------------------------
(***************************************************************************)
(* Proofs about module WifiSetup, for any number of networks, faults and    *)
(* power cuts.  The inductive invariant adds to the properties where the    *)
(* two keys stand while a command is between its writes.                    *)
(***************************************************************************)
EXTENDS WifiSetup, TLAPS

\* In the middle of set_wifi and clear_wifi: the first key is written, RAM and
\* the rest of the flash are as before.
MidCommand ==
    /\ mpc = "storeSecond" => nvs.ssid = asked
    /\ mpc = "removePsk" /\ "wifi" \notin unsaved => nvs.ssid = 0
    /\ mpc = "resetStatus" => cfg.ssid = 0 /\ cfg.psk = 0
    /\ mpc = "resetStatus" /\ "wifi" \notin unsaved => nvs.ssid = 0 /\ nvs.psk = 0
    /\ nvs.ssid <= asked /\ nvs.psk <= asked

\* Flash and RAM agree where no write failed, also while a command runs.
PolicyKept == "policy" \in unsaved \/ load(nvs).policy = cfg.policy

\* The worker has a driver when it gets to connect with it.
DriverInUse == wpc = "connect" => driver

\* The inductive invariant.
WInv == TypeOK /\ RebootKeepsSettings /\ PolicyKept /\ MidCommand
        /\ PasswordNotForOlderNetwork /\ SingleOwner /\ DriverInUse

\* Passwords are numbered like their networks, and 0 stands for none.
LEMMA PskFacts == \A k \in 0..MaxSets : PskOf(k) \in 0..MaxSets /\ PskOf(k) <= k
BY WifiAssumption DEF PskOf

\* A status that is put together, and one whose state changes.
LEMMA StatusType ==
    ASSUME NEW b \in BOOLEAN, NEW k \in 0..MaxSets, NEW x \in {"off", "connecting", "connected", "failed"}
    PROVE  [configured |-> b, ssid |-> k, state |-> x] \in Statuses
BY DEF Statuses

LEMMA StatusChange ==
    ASSUME NEW st \in Statuses, NEW x \in {"off", "connecting", "connected", "failed"}
    PROVE  /\ [st EXCEPT !.state = x] \in Statuses
           /\ [st EXCEPT !.configured = FALSE, !.state = x] \in Statuses
BY DEF Statuses

\* Nothing is stored, nothing runs.
LEMMA InitWInv == Init => WInv
<1> SUFFICES ASSUME Init PROVE WInv OBVIOUS
<1>1. TypeOK
  <2>1. nvs \in [ssid : 0..MaxSets, psk : 0..MaxSets, policy : -1..2]
    BY WifiAssumption DEF Init
  <2>2. cfg = [ssid |-> 0, psk |-> 0, policy |-> 1] BY DEF Init, load, BOOT_CHECK
  <2>3. cfg \in [ssid : 0..MaxSets, psk : 0..MaxSets, policy : 0..2] BY <2>2, WifiAssumption
  <2>4. status \in Statuses
    <3>1. status = [configured |-> cfg.ssid # 0, ssid |-> cfg.ssid, state |-> "off"] BY DEF Init, BootStatus
    <3>2. (cfg.ssid # 0) \in BOOLEAN OBVIOUS
    <3>3. cfg.ssid \in 0..MaxSets BY <2>3
    <3> QED BY <3>1, <3>2, <3>3, StatusType
  <2>5. mpc = "idle" /\ wpc = "idle" /\ modem = TRUE /\ driver = FALSE /\ up = FALSE BY DEF Init
  <2>6. requests \in 0..QUEUE /\ joined \in 0..MaxSets /\ asked \in 0..MaxSets /\ faults \in Nat /\ cuts \in Nat
    BY WifiAssumption DEF Init
  <2>7. creds \in [ssid : 0..MaxSets, psk : 0..MaxSets] /\ unsaved = {} BY WifiAssumption DEF Init
  <2> QED BY <2>1, <2>3, <2>4, <2>5, <2>6, <2>7, Zenon DEF TypeOK
<1>2. RebootKeepsSettings /\ PolicyKept BY DEF Init, RebootKeepsSettings, PolicyKept, load
<1>3. MidCommand /\ PasswordNotForOlderNetwork /\ SingleOwner /\ DriverInUse
  BY DEF Init, MidCommand, PasswordNotForOlderNetwork, SingleOwner, DriverInUse
<1> QED BY <1>1, <1>2, <1>3 DEF WInv

\* A request never overfills the channel.
LEMMA RequestBound == requests \in 0..QUEUE /\ request => requests' \in 0..QUEUE
BY WifiAssumption DEF request

\* The steps of the store.
LEMMA StoreWInv ==
    ASSUME WInv, StoreFirst \/ StoreSecond
    PROVE  WInv'
<1> USE WifiAssumption DEF WInv
<1>a. asked \in 0..MaxSets /\ asked' \in 0..MaxSets /\ asked <= asked' /\ faults' \in Nat
  <2>1. asked \in 0..MaxSets /\ faults \in Nat BY DEF TypeOK
  <2>2. (asked < MaxSets /\ asked' = asked + 1) \/ asked' = asked BY DEF StoreFirst, StoreSecond
  <2>3. faults' = faults \/ faults' = faults + 1
    BY DEF StoreFirst, StoreSecond, Stored, StoreFails
  <2> QED BY <2>1, <2>2, <2>3
<1>b. PskOf(asked') \in 0..MaxSets /\ PskOf(asked') <= asked' BY <1>a, PskFacts
<1>1. CASE StoreFirst /\ mpc' = "storeSecond"
  <2>1. /\ mpc = "idle" /\ asked' = asked + 1 /\ nvs' = [nvs EXCEPT !["ssid"] = asked']
        /\ UNCHANGED <<cfg, unsaved, requests, status>> /\ StoreUnchanged
    BY <1>1 DEF StoreFirst, Stored, StoreFails, KeyOrder, KeyValue, WifiSet
  <2>2. TypeOK' BY <1>1, <1>a, <2>1 DEF TypeOK, StoreUnchanged, workerVars, radioVars
  <2>3. (RebootKeepsSettings /\ PolicyKept)'
    BY <1>1, <2>1 DEF TypeOK, RebootKeepsSettings, PolicyKept, load
  <2>4. (MidCommand /\ PasswordNotForOlderNetwork)'
    BY <1>1, <1>a, <2>1 DEF TypeOK, MidCommand, PasswordNotForOlderNetwork
  <2>5. SingleOwner' /\ DriverInUse' BY <2>1 DEF SingleOwner, DriverInUse, StoreUnchanged, workerVars, radioVars
  <2> QED BY <2>2, <2>3, <2>4, <2>5
<1>2. CASE StoreFirst /\ StoreFails /\ WifiSet(asked', FALSE)
  <2>1. requests' \in 0..QUEUE BY <1>2, RequestBound DEF TypeOK, WifiSet
  <2>2. /\ mpc = "idle" /\ mpc' = "idle" /\ nvs' = nvs /\ unsaved' = unsaved \cup {"wifi"}
        /\ cfg' = [cfg EXCEPT !.ssid = asked', !.psk = PskOf(asked')]
        /\ UNCHANGED status /\ StoreUnchanged
    BY <1>2 DEF StoreFirst, WifiSet, StoreFails
  <2>3. TypeOK' BY <1>a, <1>b, <2>1, <2>2 DEF TypeOK, StoreUnchanged, workerVars, radioVars
  <2>4. (RebootKeepsSettings /\ PolicyKept)'
    BY <2>2 DEF TypeOK, RebootKeepsSettings, PolicyKept, load
  <2>5. (MidCommand /\ PasswordNotForOlderNetwork)'
    BY <1>a, <2>2 DEF TypeOK, MidCommand, PasswordNotForOlderNetwork
  <2>6. SingleOwner' /\ DriverInUse' BY <2>2 DEF SingleOwner, DriverInUse, StoreUnchanged, workerVars, radioVars
  <2> QED BY <2>3, <2>4, <2>5, <2>6
<1>3. CASE StoreSecond
  <2>0. PICK ok \in BOOLEAN :
          /\ IF ok THEN nvs' = [nvs EXCEPT !["psk"] = PskOf(asked)] ELSE nvs' = nvs
          /\ WifiSet(asked, ok)
    BY <1>3 DEF StoreSecond, Stored, StoreFails, KeyOrder, KeyValue
  <2>1. requests' \in 0..QUEUE BY <2>0, RequestBound DEF TypeOK, WifiSet
  <2>2. /\ mpc = "storeSecond" /\ mpc' = "idle" /\ asked' = asked /\ nvs.ssid = asked
        /\ unsaved' = (IF ok THEN unsaved \ {"wifi"} ELSE unsaved \cup {"wifi"})
        /\ cfg' = [cfg EXCEPT !.ssid = asked, !.psk = PskOf(asked)]
        /\ UNCHANGED status /\ StoreUnchanged
    BY <1>3, <2>0 DEF StoreSecond, WifiSet, MidCommand
  <2>3. TypeOK' BY <1>a, <1>b, <2>0, <2>1, <2>2 DEF TypeOK, StoreUnchanged, workerVars, radioVars
  <2>4. (RebootKeepsSettings /\ PolicyKept)'
    BY <2>0, <2>2 DEF TypeOK, RebootKeepsSettings, PolicyKept, load
  <2>5. (MidCommand /\ PasswordNotForOlderNetwork)'
    BY <1>a, <1>b, <2>0, <2>2 DEF TypeOK, MidCommand, PasswordNotForOlderNetwork
  <2>6. SingleOwner' /\ DriverInUse' BY <2>2 DEF SingleOwner, DriverInUse, StoreUnchanged, workerVars, radioVars
  <2> QED BY <2>3, <2>4, <2>5, <2>6
<1> QED BY <1>1, <1>2, <1>3 DEF StoreFirst

\* Forgetting a network, changing another setting, asking for a connection.
LEMMA CommandWInv ==
    ASSUME WInv, RemoveSsid \/ RemovePsk \/ ResetStatus \/ AskToConnect
                   \/ \E p \in Policies : StoreSetting(p)
    PROVE  WInv'
<1> USE WifiAssumption DEF WInv, StoreUnchanged, workerVars, radioVars, Stored, StoreFails
<1>1. CASE RemoveSsid
  <2>n. nvs' \in [ssid : 0..MaxSets, psk : 0..MaxSets, policy : -1..2]
    <3>1. nvs \in [ssid : 0..MaxSets, psk : 0..MaxSets, policy : -1..2] BY DEF TypeOK
    <3>2. nvs' = nvs \/ nvs' = [nvs EXCEPT !["ssid"] = 0] BY <1>1 DEF RemoveSsid
    <3> QED BY <3>1, <3>2
  <2>0. unsaved' \subseteq {"wifi", "policy"} /\ faults' \in Nat
    <3>1. unsaved \subseteq {"wifi", "policy"} /\ faults \in Nat BY DEF TypeOK
    <3>2. \/ unsaved' = unsaved \ {"wifi"} /\ faults' = faults
          \/ unsaved' = unsaved \cup {"wifi"} /\ faults' = faults + 1
      BY <1>1 DEF RemoveSsid
    <3>3. faults' \in Nat BY ONLY <3>1, <3>2
    <3>4. unsaved' \subseteq {"wifi", "policy"} BY ONLY <3>1, <3>2
    <3> QED BY <3>3, <3>4
  <2>1. TypeOK' BY <1>1, <2>0, <2>n DEF TypeOK, RemoveSsid
  <2>2. (RebootKeepsSettings /\ PolicyKept)'
    BY <1>1 DEF TypeOK, RemoveSsid, RebootKeepsSettings, PolicyKept, load
  <2>3. (MidCommand /\ PasswordNotForOlderNetwork)'
    BY <1>1 DEF TypeOK, RemoveSsid, MidCommand, PasswordNotForOlderNetwork
  <2>4. SingleOwner' /\ DriverInUse' BY <1>1 DEF RemoveSsid, SingleOwner, DriverInUse
  <2> QED BY <2>1, <2>2, <2>3, <2>4
<1>2. CASE RemovePsk
  <2>n. nvs' \in [ssid : 0..MaxSets, psk : 0..MaxSets, policy : -1..2]
    <3>1. nvs \in [ssid : 0..MaxSets, psk : 0..MaxSets, policy : -1..2] BY DEF TypeOK
    <3>2. nvs' = nvs \/ nvs' = [nvs EXCEPT !["psk"] = 0] BY <1>2 DEF RemovePsk
    <3> QED BY <3>1, <3>2
  <2>c. cfg' \in [ssid : 0..MaxSets, psk : 0..MaxSets, policy : 0..2]
    <3>1. cfg \in [ssid : 0..MaxSets, psk : 0..MaxSets, policy : 0..2] BY DEF TypeOK
    <3>2. cfg' = [cfg EXCEPT !.ssid = 0, !.psk = 0] BY <1>2 DEF RemovePsk
    <3>3. 0 \in 0..MaxSets OBVIOUS
    <3>4. [cfg EXCEPT !.ssid = 0, !.psk = 0] \in [ssid : 0..MaxSets, psk : 0..MaxSets, policy : 0..2]
      BY ONLY <3>1, <3>3
    <3> QED BY <3>2, <3>4
  <2>0. unsaved' \subseteq {"wifi", "policy"} /\ faults' \in Nat
    BY <1>2 DEF TypeOK, RemovePsk
  <2>1. TypeOK' BY <1>2, <2>0, <2>n, <2>c DEF TypeOK, RemovePsk
  <2>2. (RebootKeepsSettings /\ PolicyKept)'
    BY <1>2 DEF TypeOK, RemovePsk, RebootKeepsSettings, PolicyKept, load
  <2>3. (MidCommand /\ PasswordNotForOlderNetwork)'
    BY <1>2 DEF TypeOK, RemovePsk, MidCommand, PasswordNotForOlderNetwork
  <2>4. SingleOwner' /\ DriverInUse' BY <1>2 DEF RemovePsk, SingleOwner, DriverInUse
  <2> QED BY <2>1, <2>2, <2>3, <2>4
<1>3. CASE ResetStatus
  <2>0. status' \in Statuses
    <3>1. status' = [configured |-> FALSE, ssid |-> 0, state |-> "off"] BY <1>3 DEF ResetStatus
    <3>2. 0 \in 0..MaxSets /\ FALSE \in BOOLEAN OBVIOUS
    <3> QED BY <3>1, <3>2, StatusType
  <2>1. TypeOK' BY <1>3, <2>0 DEF TypeOK, ResetStatus
  <2>2. (RebootKeepsSettings /\ PolicyKept)'
    BY <1>3 DEF TypeOK, ResetStatus, RebootKeepsSettings, PolicyKept, load, MidCommand
  <2>3. (MidCommand /\ PasswordNotForOlderNetwork)'
    BY <1>3 DEF TypeOK, ResetStatus, MidCommand, PasswordNotForOlderNetwork
  <2>4. SingleOwner' /\ DriverInUse' BY <1>3 DEF ResetStatus, SingleOwner, DriverInUse
  <2> QED BY <2>1, <2>2, <2>3, <2>4
<1>4. CASE AskToConnect
  <2>1. requests' \in 0..QUEUE BY <1>4, RequestBound DEF TypeOK, AskToConnect
  <2> QED BY <1>4, <2>1 DEF AskToConnect, storeVars, TypeOK, RebootKeepsSettings, PolicyKept,
                            MidCommand, PasswordNotForOlderNetwork, SingleOwner, DriverInUse
<1>5. ASSUME NEW p \in Policies, StoreSetting(p) PROVE WInv'
  <2>0. p \in 0..2 OBVIOUS
  <2>1. TypeOK' BY <1>5, <2>0 DEF TypeOK, StoreSetting
  <2>2. (RebootKeepsSettings /\ PolicyKept)'
    BY <1>5, <2>0 DEF TypeOK, StoreSetting, RebootKeepsSettings, PolicyKept, load
  <2>3. (MidCommand /\ PasswordNotForOlderNetwork)'
    BY <1>5 DEF TypeOK, StoreSetting, MidCommand, PasswordNotForOlderNetwork
  <2>4. SingleOwner' /\ DriverInUse' BY <1>5 DEF StoreSetting, SingleOwner, DriverInUse
  <2> QED BY <2>1, <2>2, <2>3, <2>4
<1> QED BY <1>1, <1>2, <1>3, <1>4, <1>5

\* The worker reads the store and never writes it.
LEMMA WorkerWInv ==
    ASSUME WInv, Connecting \/ wifi_disconnect \/ LinkLost
    PROVE  WInv'
<1> USE WifiAssumption DEF WInv, WorkerUnchanged, storeVars, workerVars, radioVars
<1>1. UNCHANGED <<nvs, cfg, mpc, asked, unsaved, cuts>>
  BY DEF Connecting, Receive, ReadCreds, Begin, wifi_driver, Associate, wifi_disconnect, LinkLost
<1>2. (RebootKeepsSettings /\ PolicyKept /\ MidCommand /\ PasswordNotForOlderNetwork)'
  BY <1>1 DEF RebootKeepsSettings, PolicyKept, MidCommand, PasswordNotForOlderNetwork
<1>3. TypeOK' /\ SingleOwner' /\ DriverInUse'
  <2> USE DEF TypeOK, SingleOwner, DriverInUse
  <2>1. CASE Receive BY <1>1, <2>1 DEF Receive
  <2>2. CASE ReadCreds
    <3>1. creds' \in [ssid : 0..MaxSets, psk : 0..MaxSets] BY <2>2 DEF ReadCreds
    <3> QED BY <1>1, <2>2, <3>1 DEF ReadCreds
  <2>3. CASE Begin
    <3>1. status' \in Statuses
      <4>1. CASE creds.ssid = 0
        <5>1. status' = [status EXCEPT !.configured = FALSE, !.state = "failed"] BY <2>3, <4>1 DEF Begin
        <5> QED BY <5>1, StatusChange
      <4>2. CASE creds.ssid # 0
        <5>1. status' = [configured |-> TRUE, ssid |-> creds.ssid, state |-> "connecting"]
          BY <2>3, <4>2 DEF Begin
        <5>2. creds.ssid \in 0..MaxSets OBVIOUS
        <5> QED BY <5>1, <5>2, StatusType
      <4> QED BY <4>1, <4>2
    <3>2. wpc' \in {"idle", "driver"} BY <2>3 DEF Begin
    <3> QED BY <1>1, <2>3, <3>1, <3>2 DEF Begin
  <2>4. CASE wifi_driver
    <3>1. status' = status \/ status' = [status EXCEPT !.state = "failed"]
      BY <2>4 DEF wifi_driver, Finish
    <3>2. status' \in Statuses BY <3>1, StatusChange
    <3>3. wpc' \in {"idle", "connect"} BY <2>4 DEF wifi_driver, Finish
    <3>4. faults' \in Nat
      <4>1. faults' = faults \/ faults' = faults + 1 BY <2>4 DEF wifi_driver, Fault
      <4> QED BY <4>1
    <3>5. \/ driver' = driver /\ modem' = modem
          \/ driver' = TRUE /\ modem' = FALSE
          \/ driver' = driver /\ modem' = FALSE
      BY <2>4 DEF wifi_driver
    <3>6. wpc' = "connect" => driver'
      BY <2>4 DEF wifi_driver, Finish
    <3>7. driver' \in BOOLEAN /\ modem' \in BOOLEAN /\ ~(modem' /\ driver') /\ (driver => driver')
      <4>1. driver \in BOOLEAN /\ modem \in BOOLEAN /\ ~(modem /\ driver) OBVIOUS
      <4>2. CASE driver' = driver /\ modem' = modem BY <4>1, <4>2
      <4>3. CASE driver' = TRUE /\ modem' = FALSE BY <4>3
      <4>4. CASE driver' = driver /\ modem' = FALSE BY <4>1, <4>4
      <4> QED BY <3>5, <4>2, <4>3, <4>4
    <3>8. UNCHANGED <<requests, creds, up, joined>> BY <2>4 DEF wifi_driver
    <3>9. SingleOwner' /\ DriverInUse' BY <3>6, <3>7, <3>8
    <3> QED BY <1>1, <3>2, <3>3, <3>4, <3>7, <3>8, <3>9, Zenon
  <2>5. CASE Associate
    <3>1. driver /\ driver' = driver /\ modem' = modem BY <2>5 DEF Associate
    <3>2. status' = [status EXCEPT !.state = "connected"] \/ status' = [status EXCEPT !.state = "failed"]
      BY <2>5 DEF Associate, Finish
    <3>3. status' \in Statuses BY <3>2, StatusChange
    <3>4. wpc' = "idle" /\ joined' \in 0..MaxSets
      <4>1. wpc' = "idle" /\ (joined' = 0 \/ joined' = creds.ssid) BY <2>5 DEF Associate, Finish
      <4>2. creds.ssid \in 0..MaxSets OBVIOUS
      <4> QED BY <4>1, <4>2
    <3>5. up' \in BOOLEAN BY <2>5, Zenon DEF Associate
    <3>6. UNCHANGED <<requests, creds, faults>> BY <2>5 DEF Associate
    <3>7. SingleOwner' /\ DriverInUse' BY <3>1, <3>4
    <3> QED BY <1>1, <3>1, <3>3, <3>4, <3>5, <3>6, <3>7, Zenon
  <2>6. CASE wifi_disconnect
    <3>1. driver' = FALSE /\ modem' = TRUE /\ up' = FALSE /\ joined' = 0 BY <2>6 DEF wifi_disconnect
    <3>2. status' \in Statuses BY <2>6, StatusChange DEF wifi_disconnect
    <3>3. joined' \in 0..MaxSets BY <3>1
    <3>4. UNCHANGED <<requests, wpc, creds, faults>> /\ wpc = "idle" BY <2>6 DEF wifi_disconnect
    <3>5. SingleOwner' /\ DriverInUse' BY <3>1, <3>4
    <3> QED BY <1>1, <3>1, <3>2, <3>3, <3>4, <3>5, Zenon
  <2>7. CASE LinkLost BY <1>1, <2>7 DEF LinkLost
  <2> QED BY <2>1, <2>2, <2>3, <2>4, <2>5, <2>6, <2>7 DEF Connecting
<1> QED BY <1>2, <1>3

\* A power cut leaves the flash and forgets the rest.
LEMMA CutWInv ==
    ASSUME WInv, PowerCut
    PROVE  WInv'
<1> USE WifiAssumption DEF WInv, PowerCut
<1>1. cfg' = load(nvs) /\ nvs' = nvs /\ mpc' = "idle" /\ unsaved' = {} OBVIOUS
<1>2. load(nvs) \in [ssid : 0..MaxSets, psk : 0..MaxSets, policy : 0..2]
  <2>1. nvs.ssid \in 0..MaxSets /\ nvs.psk \in 0..MaxSets /\ nvs.policy \in -1..2 BY DEF TypeOK
  <2> QED BY <2>1 DEF load, BOOT_CHECK
<1>3. status' \in Statuses
  <2>1. status' = [configured |-> cfg'.ssid # 0, ssid |-> cfg'.ssid, state |-> "off"] BY DEF BootStatus
  <2>2. (cfg'.ssid # 0) \in BOOLEAN OBVIOUS
  <2>3. cfg'.ssid \in 0..MaxSets BY <1>1, <1>2
  <2> QED BY <2>1, <2>2, <2>3, StatusType
<1>4. TypeOK'
  <2>1. creds' \in [ssid : 0..MaxSets, psk : 0..MaxSets] /\ requests' \in 0..QUEUE /\ joined' \in 0..MaxSets
    OBVIOUS
  <2>2. cuts' \in Nat /\ faults' \in Nat /\ asked' \in 0..MaxSets BY DEF TypeOK
  <2>3. cfg' \in [ssid : 0..MaxSets, psk : 0..MaxSets, policy : 0..2] BY <1>1, <1>2
  <2>4. nvs' \in [ssid : 0..MaxSets, psk : 0..MaxSets, policy : -1..2] BY <1>1 DEF TypeOK
  <2> QED BY <1>1, <1>3, <2>1, <2>2, <2>3, <2>4, Zenon DEF TypeOK
<1>5. (RebootKeepsSettings /\ PolicyKept)' BY <1>1 DEF RebootKeepsSettings, PolicyKept
<1>6. (MidCommand /\ PasswordNotForOlderNetwork /\ SingleOwner /\ DriverInUse)'
  BY <1>1 DEF MidCommand, PasswordNotForOlderNetwork, SingleOwner, DriverInUse
<1> QED BY <1>4, <1>5, <1>6

\* Every step preserves the invariant.
LEMMA NextWInv == WInv /\ [Next]_vars => WInv'
<1> SUFFICES ASSUME WInv, [Next]_vars PROVE WInv' OBVIOUS
<1>1. CASE UNCHANGED vars
  BY <1>1 DEF WInv, vars, storeVars, workerVars, radioVars, obsVars, TypeOK, RebootKeepsSettings,
              PolicyKept, MidCommand, PasswordNotForOlderNetwork, SingleOwner, DriverInUse
<1> QED BY <1>1, StoreWInv, CommandWInv, WorkerWInv, CutWInv DEF Next, Command, InCommand

\* The inductive invariant holds of every reachable state.
THEOREM WifiInvariant == Spec => []WInv
BY InitWInv, NextWInv, PTL DEF Spec

\* Types, and the bound of the request channel.
THEOREM WifiTypeOK == Spec => []TypeOK
<1>1. WInv => TypeOK BY DEF WInv
<1> QED BY <1>1, WifiInvariant, PTL

\* A key-off between two commands changes no setting that was stored.
THEOREM SettingsSurvive == Spec => []RebootKeepsSettings
<1>1. WInv => RebootKeepsSettings BY DEF WInv
<1> QED BY <1>1, WifiInvariant, PTL

\* No cut and no failing write leaves a password beside an older network's name.
THEOREM PasswordStaysWithItsNetwork == Spec => []PasswordNotForOlderNetwork
<1>1. WInv => PasswordNotForOlderNetwork BY DEF WInv
<1> QED BY <1>1, WifiInvariant, PTL

\* The modem's token is never there twice.
THEOREM ModemHasOneOwner == Spec => []SingleOwner
<1>1. WInv => SingleOwner BY DEF WInv
<1> QED BY <1>1, WifiInvariant, PTL
=============================================================================
