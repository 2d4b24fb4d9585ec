----------------------------- MODULE BootProofs -----------------------------
(***************************************************************************)
(* Proofs about Boot and Clock: for any networks, any number of power      *)
(* losses, refusals and early bytes, any width of the counter and any time *)
(* the gateway is watched.                                                 *)
(***************************************************************************)
EXTENDS Boot, SequenceTheorems, TLAPS

-----------------------------------------------------------------------------
(* The inductive invariant behind RunTracks. *)

\* The age of the task, and with the time set the time it was started, fit the clock.
AgeFits ==
    /\ clock \in Nat /\ age \in Nat
    /\ clock < Year2016 => age <= clock /\ clock <= MaxSeconds
    /\ clock >= Year2016 => Year2016 + age <= clock /\ clock <= Year2016 + MaxSeconds

\* The wake-ups before the time was set are all there have been.
CountFits ==
    /\ timer \in {"off", "delay", "read", "year", "start"}
    /\ timer = "off" => age = 0 /\ ~timeSync
    /\ timer \in {"read", "year", "start"} => age >= 1
    /\ timeSync \in BOOLEAN /\ timeNow \in Nat /\ timeStart \in Nat
    /\ count \in Nat /\ count <= age
    /\ ~timeSync =>
          /\ timeStart = 0
          /\ count = IF timer \in {"off", "delay"} THEN age ELSE age - 1

\* A time once set is read as it stands and goes on without a jump.
TimeFits ==
    /\ timer = "start" => ~timeSync /\ timeNow >= Year2016
    /\ timer \in {"year", "start"} /\ timeNow >= Year2016 => timeNow = clock
    /\ ~timeSync /\ timeNow >= Year2016 => timer \in {"year", "start"}
    /\ timeNow < Year2016 => timeNow <= MaxSeconds
    /\ timeSync =>
          /\ clock >= Year2016
          /\ timeStart = clock - age + 1
          /\ timeNow = IF timer = "read" THEN clock - 1 ELSE clock

ClockInv == AgeFits /\ CountFits /\ TimeFits

-----------------------------------------------------------------------------
(* What the variables of Boot hold: the part every other proof needs. *)
InitPlaces == {InitSteps[k] : k \in 1 .. Len(InitSteps)}
Value == Nat \cup {NoString} \cup {s.ssid : s \in Sent} \cup {s.pass : s \in Sent}

\* Each key has its kind of value.
Fits(k, v) ==
    /\ v \in Value
    /\ k = "power_cnt" => v \in Nat
    /\ k = "router_flag" => v = 1
    /\ k = "interval" => v = 5

FlashTyped ==
    /\ DOMAIN nvs = Key
    /\ \A k \in Key : nvs[k] \in Value
    /\ nvs["power_cnt"] \in Nat
    /\ nvs["router_flag"] \in {0, 1} /\ nvs["interval"] \in {0, 5}
    /\ unwritten \in Seq(Key \X Value)
    /\ \A i \in 1 .. Len(unwritten) : Fits(unwritten[i][1], unwritten[i][2])

RamTyped ==
    /\ ram \in [flag : {0, 1}, ssid : Value, pass : Value, interval : Nat]
    /\ main \in InitPlaces \cup {"count", "flag", "commit", "timer", "smartConfig",
                                 "info", "stationMode"}
    /\ smart \in {"off", "listening", "linked", "over"}
    /\ storing \in Seq({"router_ssid", "router_pass", "router_flag"})
    /\ station \in {"off", "down", "connecting", "up"}
    /\ event \in {"none", "start", "disconnected"}
    /\ boots \in Nat /\ counted \in Nat

Typed == FlashTyped /\ RamTyped

\* Provisioning begins after app_main has passed it, and only without a flag.
Placed ==
    /\ main \notin InitPlaces =>
          smart = "off" /\ station = "off" /\ event = "none" /\ storing = << >>
    /\ smart # "off" \/ event # "none" => ram.flag = 0
    /\ smart # "over" => storing = << >>
    /\ main \in {"timer", "info", "stationMode"} => ram.flag = 1
    /\ main \in {"count", "flag", "smartConfig"} => ram.flag = 0
    /\ ram.flag = 1 => station \in {"off", "connecting"}

\* The stores under way, at each place.
QueueFits ==
    /\ main \in {"count", "timer", "smartConfig", "info"} => unwritten = << >>
    /\ main \in {"flag", "commit"} =>
          /\ Len(unwritten) <= 1
          /\ \A i \in 1 .. Len(unwritten) : unwritten[i][1] = "power_cnt"
    /\ main = "stationMode" =>
          /\ Len(unwritten) <= 1
          /\ \A i \in 1 .. Len(unwritten) : unwritten[i] = <<"interval", 5>>
    /\ main \in InitPlaces /\ smart # "over" => unwritten = << >>

Base == Typed /\ Placed /\ QueueFits

-----------------------------------------------------------------------------
(* The inductive invariant behind CredentialsWork. *)
RamWorks == [ssid |-> ram.ssid, pass |-> ram.pass] \in Working
FlashWorks == [ssid |-> nvs.router_ssid, pass |-> nvs.router_pass] \in Working

\* The flag in RAM is that of the flash.
FlagRead ==
    main \notin {"count", "flag"} /\ smart # "over" => nvs.router_flag = ram.flag

StationWorks ==
    /\ ram.flag = 0 /\ station = "up" => RamWorks
    /\ ram.flag = 1 /\ main \notin {"commit", "timer", "info"} =>
          RamWorks /\ ram.interval \in 2 .. 30

\* What SC_STATUS_LINK_OVER stores under each key.
Stored(k) == CASE k = "router_ssid" -> ram.ssid
               [] k = "router_pass" -> ram.pass
               [] k = "router_flag" -> 1

\* How many of its stores the flash has.
Written == 3 - Len(storing) - Len(unwritten)

\* The flash has the first of them, the next ones are under way, and the last ones
\* still to be made.
StoresInOrder ==
    smart = "over" =>
        /\ RamWorks /\ main \in InitPlaces
        /\ Written \in 0 .. 3
        /\ \A i \in 1 .. Len(storing) : storing[i] = Credentials[3 - Len(storing) + i]
        /\ \A i \in 1 .. Len(unwritten) :
              /\ unwritten[i][1] = Credentials[Written + i]
              /\ unwritten[i][2] = Stored(Credentials[Written + i])
        /\ Written >= 1 => nvs.router_ssid = ram.ssid
        /\ Written >= 2 => nvs.router_pass = ram.pass
        /\ nvs.router_flag = IF Written = 3 THEN 1 ELSE 0

CredentialsInv ==
    /\ nvs.router_flag = 1 => FlashWorks
    /\ FlagRead /\ StationWorks /\ StoresInOrder

-----------------------------------------------------------------------------
(* The inductive invariant behind CountTrue: a start is counted once it is  *)
(* past its nvs_commit, by a store that is under way until then.            *)
CountedFrom(first, last) == \E n \in first .. last : nvs.power_cnt = n % CountSize

CountUnderWay ==
    \E n \in counted .. boots - 1 :
        /\ nvs.power_cnt = n % CountSize
        /\ unwritten[1][2] = (n + 1) % CountSize

CountInv ==
    /\ main = "count" => CountedFrom(counted, boots - 1)
    /\ main \in {"flag", "commit"} => IF unwritten = << >>
                                        THEN CountedFrom(counted + 1, boots)
                                        ELSE CountUnderWay
    /\ main \notin {"count", "flag", "commit"} => CountedFrom(counted, boots)

-----------------------------------------------------------------------------
(* The inductive invariant behind NeverMisdelivered. *)
NumbersRight ==
    /\ DOMAIN uartNum = Handler
    /\ \A h \in Handler : uartNum[h] \in {0, UartOf[h]}

-----------------------------------------------------------------------------
(* The clock. *)
LEMMA ClockInits == ClockInit => ClockInv
<1> SUFFICES ASSUME ClockInit PROVE ClockInv
  OBVIOUS
<1>1. timeSync \in BOOLEAN
  BY Zenon DEF ClockInit
<1> QED
  BY <1>1, TimeAssumption DEF ClockInit, ClockInv, AgeFits, CountFits, TimeFits

\* The clock running on, and turning over.
LEMMA ClockTurns ==
    ASSUME ClockInv, ClockRuns
    PROVE  ClockInv'
<1> USE TimeAssumption DEF ClockInv, AgeFits, CountFits, TimeFits
<1>1. CASE Second
  <2>1. /\ timer \in {"off", "delay"} /\ clock' = clock + 1 /\ UNCHANGED timeVars
        /\ timer = "off" => UNCHANGED <<age, timer>>
        /\ timer # "off" => age' = age + 1 /\ timer' = "read"
    BY <1>1 DEF Second
  <2>2. clock < Year2016 => clock + 1 <= MaxSeconds
    <3> SUFFICES ASSUME clock < Year2016 PROVE clock + 1 <= MaxSeconds
      OBVIOUS
    <3>1. clock % Year2016 = clock
      OBVIOUS
    <3> QED
      BY <1>1, <3>1 DEF Second
  <2>3. clock >= Year2016 => clock + 1 <= Year2016 + MaxSeconds
    <3> SUFFICES ASSUME clock >= Year2016 PROVE clock + 1 <= Year2016 + MaxSeconds
      OBVIOUS
    <3>1. clock % Year2016 = clock - Year2016
      OBVIOUS
    <3> QED
      BY <1>1, <3>1 DEF Second
  <2>4. AgeFits'
    BY <2>1, <2>2, <2>3
  <2>5. CountFits'
    BY <2>1 DEF timeVars
  <2>6. TimeFits'
    BY <2>1, <2>2 DEF timeVars
  <2> QED
    BY <2>4, <2>5, <2>6
<1>2. CASE Synchronise
  BY <1>2 DEF Synchronise, timeVars
<1>3. CASE ReadClock
  BY <1>3 DEF ReadClock
<1>4. CASE CompareYear
  BY <1>4 DEF CompareYear, NotYetSet
<1>5. CASE SetStart
  BY <1>5 DEF SetStart, StartTime
<1> QED
  BY <1>1, <1>2, <1>3, <1>4, <1>5 DEF ClockRuns, TimerTask

\* A restart, which loses the clock or keeps it.
LEMMA ClockRestarted ==
    ASSUME ClockInv, ClockRestarts, clock' \in {0, clock}
    PROVE  ClockInv'
<1>1. timeSync' \in BOOLEAN
  BY Zenon DEF ClockRestarts
<1>2. AgeFits'
  BY TimeAssumption DEF ClockRestarts, ClockInv, AgeFits
<1>3. /\ age' = 0 /\ timer' = "off" /\ count' = 0 /\ timeNow' = 0 /\ timeStart' = 0
      /\ ~timeSync'
  BY DEF ClockRestarts
<1>4. CountFits'
  BY <1>1, <1>3 DEF CountFits
<1>5. TimeFits'
  <2>1. ~(timeNow' >= Year2016) /\ timeNow' <= MaxSeconds
    BY <1>3, TimeAssumption
  <2>2. timer' \notin {"year", "start"}
    BY <1>3
  <2> QED
    BY <1>3, <2>1, <2>2 DEF TimeFits
<1> QED
  BY <1>2, <1>4, <1>5 DEF ClockInv

\* Every step keeps the clock invariant.
LEMMA ClockStep == ClockInv /\ [Next]_vars => ClockInv'
<1> SUFFICES ASSUME ClockInv, [Next]_vars PROVE ClockInv'
  OBVIOUS
<1>1. CASE Tick
  BY <1>1, ClockTurns DEF Tick
<1>2. CASE PowerLoss \/ Restart \/ \E u \in 0 .. 2 : GiveTooEarly(u)
  <2>1. ClockRestarts /\ clock' \in {0, clock}
    BY <1>2 DEF PowerLoss, Restart, GiveTooEarly, Restarts
  <2> QED
    BY <2>1, ClockRestarted
<1>3. CASE StartTimer
  BY <1>3 DEF StartTimer, StartTimerTask, ClockInv, AgeFits, CountFits, TimeFits, timeVars
<1>4. CASE UNCHANGED clockVars
  BY <1>4 DEF clockVars, ClockInv, AgeFits, CountFits, TimeFits, timeVars
<1> QED
  BY <1>1, <1>2, <1>3, <1>4
     DEF Next, AppMain, Callback, Phone, vars, CountPower, ReadFlag, Commit,
         StartSmartConfig, GetInfo, StartStation, InstallDriver, SetNumber,
         CreateSemaphore, Proceed, FlashWrites, OnEvent, OnLinkOver, Store, OnLink,
         Connects, Disconnects, ReceiveByte

(* "run" is the age of the timer task as of its last or last but one wake-  *)
(* up, for any time the gateway is watched and whenever SNTP answers: the   *)
(* wake-ups counted before that are all there have been.                    *)
THEOREM RunTracksAge == Spec => []RunTracks
<1>1. Init => ClockInv
  BY ClockInits DEF Init
<1>2. ClockInv => RunTracks
  BY TimeAssumption DEF ClockInv, AgeFits, CountFits, TimeFits, RunTracks, Run
<1> QED
  BY <1>1, <1>2, ClockStep, PTL DEF Spec
-----------------------------------------------------------------------------
(* Lemmas about the flash, the places of app_main and a restart. *)
LEMMA Places ==
    InitPlaces = {"driver0", "driver1", "driver2", "apNumber", "apSemaphore",
                  "acNumber", "acSemaphore", "hmiNumber", "hmiSemaphore", "running"}
BY DEF InitPlaces, InitSteps

\* What the steps of initialisation that only proceed leave alone.
LEMMA Proceeds ==
    ASSUME Proceed
    PROVE  /\ main \in InitPlaces /\ main' \in InitPlaces
           /\ UNCHANGED <<nvs, unwritten, ram, fed, wifiVars, clockVars, historyVars>>
BY DEF Proceed, InitPlaces, InitSteps

\* The five keys the flash holds.
LEMMA Keys ==
    /\ \A k \in Key : k \in {"power_cnt", "router_flag", "router_ssid", "router_pass",
                             "interval"}
    /\ {"power_cnt", "router_flag", "router_ssid", "router_pass", "interval"} \subseteq Key
BY DEF Key

\* With no store to a key under way it reads as in the flash.
LEMMA GetNothing ==
    ASSUME Typed, NEW k \in Key, \A i \in 1 .. Len(unwritten) : unwritten[i][1] # k
    PROVE  Get(k) = nvs[k]
<1>1. DOMAIN unwritten = 1 .. Len(unwritten)
  BY LenProperties DEF Typed, FlashTyped
<1>2. {n \in DOMAIN unwritten : unwritten[n][1] = k} = {}
  BY <1>1
<1> QED
  BY <1>2 DEF Get

\* A store goes to the end of the queue.
LEMMA Queued ==
    ASSUME Typed, NEW k \in Key, NEW v \in Value, Set(k, v)
    PROVE  /\ unwritten' \in Seq(Key \X Value)
           /\ Len(unwritten) \in Nat /\ Len(unwritten') = Len(unwritten) + 1
           /\ \A i \in 1 .. Len(unwritten) : unwritten'[i] = unwritten[i]
           /\ unwritten'[Len(unwritten) + 1] = <<k, v>>
BY AppendProperties, LenProperties DEF Typed, FlashTyped, Set

\* The first one is written.
LEMMA HeadWritten ==
    ASSUME Typed, FlashWrites
    PROVE  /\ unwritten[1] \in Key \X Value
           /\ Len(unwritten) \in Nat \ {0}
           /\ nvs' = [nvs EXCEPT ![unwritten[1][1]] = unwritten[1][2]]
           /\ unwritten' \in Seq(Key \X Value)
           /\ Len(unwritten') = Len(unwritten) - 1
           /\ \A i \in 1 .. Len(unwritten') : unwritten'[i] = unwritten[i + 1]
           /\ UNCHANGED <<ram, main, initVars, wifiVars, clockVars, historyVars>>
<1>1. unwritten \in Seq(Key \X Value) /\ unwritten # << >>
  BY DEF Typed, FlashTyped, FlashWrites
<1>2. /\ Head(unwritten) \in Key \X Value /\ Head(unwritten) = unwritten[1]
      /\ Tail(unwritten) \in Seq(Key \X Value)
      /\ Len(Tail(unwritten)) = Len(unwritten) - 1
      /\ \A i \in 1 .. Len(Tail(unwritten)) : Tail(unwritten)[i] = unwritten[i + 1]
      /\ Len(unwritten) \in Nat \ {0}
  BY <1>1, HeadTailProperties, EmptySeq
<1>3. /\ nvs' = [nvs EXCEPT ![Head(unwritten)[1]] = Head(unwritten)[2]]
      /\ unwritten' = Tail(unwritten)
      /\ UNCHANGED <<ram, main, initVars, wifiVars, clockVars, historyVars>>
  BY DEF FlashWrites
<1> QED
  BY <1>2, <1>3

\* An empty queue stays empty until something is stored.
LEMMA Emptiness ==
    ASSUME Typed
    PROVE  /\ Len(unwritten) \in Nat
           /\ unwritten = << >> <=> Len(unwritten) = 0
           /\ \A i \in 1 .. Len(unwritten) :
                 unwritten[i] \in Key \X Value
BY LenProperties, EmptySeq, ElementOfSeq DEF Typed, FlashTyped

Restarting == Restarts /\ UNCHANGED nvs

\* The ways the device restarts.
LEMMA Restarted ==
    ASSUME PowerLoss \/ Restart \/ \E u \in 0 .. 2 : GiveTooEarly(u)
    PROVE  Restarting
BY DEF PowerLoss, Restart, GiveTooEarly, Restarting

-----------------------------------------------------------------------------
(* Base is inductive. *)
LEMMA BaseInit == Init => Base
<1> SUFFICES ASSUME Init PROVE Base
  OBVIOUS
<1>1. unwritten = << >> /\ Len(unwritten) = 0 /\ unwritten \in Seq(Key \X Value)
  BY EmptySeq DEF Init
<1>2. nvs = Blank /\ DOMAIN nvs = Key
  BY DEF Init, Blank
<1>3. FlashTyped
  BY <1>1, <1>2 DEF FlashTyped, Blank, Key, Value
<1>4. RamTyped
  <2>1. ram \in [flag : {0, 1}, ssid : Value, pass : Value, interval : Nat]
    BY DEF Init, ClearedRam, Value
  <2>2. storing \in Seq({"router_ssid", "router_pass", "router_flag"})
    BY EmptySeq DEF Init
  <2> QED
    BY <2>1, <2>2 DEF RamTyped, Init
<1>5. Placed
  BY Places DEF Placed, Init, ClearedRam
<1>6. QueueFits
  BY <1>1, Places DEF QueueFits, Init
<1> QED
  BY <1>3, <1>4, <1>5, <1>6 DEF Base, Typed

\* A fitting value stored leaves the flash well typed.
LEMMA StoreFits ==
    ASSUME FlashTyped, Typed, NEW k \in Key, NEW v \in Value, Fits(k, v), Set(k, v),
           UNCHANGED nvs
    PROVE  FlashTyped'
<1>1. /\ unwritten' \in Seq(Key \X Value)
      /\ Len(unwritten) \in Nat /\ Len(unwritten') = Len(unwritten) + 1
      /\ \A i \in 1 .. Len(unwritten) : unwritten'[i] = unwritten[i]
      /\ unwritten'[Len(unwritten) + 1] = <<k, v>>
  BY Queued
<1>2. ASSUME NEW i \in 1 .. Len(unwritten')
      PROVE  Fits(unwritten'[i][1], unwritten'[i][2])
  <2>1. CASE i \in 1 .. Len(unwritten)
    BY <1>1, <2>1 DEF FlashTyped
  <2>2. CASE i = Len(unwritten) + 1
    BY <1>1, <2>2
  <2> QED
    BY <1>1, <2>1, <2>2
<1> QED
  BY <1>1, <1>2 DEF FlashTyped

\* Every step keeps the flash well typed.
LEMMA FlashTypedStep ==
    ASSUME Base, [Next]_vars
    PROVE  FlashTyped'
<1> USE DEF Base, Typed
<1>1. CASE CountPower
  <2>1. Get("power_cnt") = nvs["power_cnt"]
    BY <1>1, GetNothing, Keys, Emptiness DEF CountPower, QueueFits
  <2>2. NextCount(nvs["power_cnt"]) \in Nat
    BY NetworkAssumption DEF NextCount, FlashTyped
  <2>3. Fits("power_cnt", NextCount(nvs["power_cnt"]))
    BY <2>2 DEF Fits, Value
  <2>4. NextCount(nvs["power_cnt"]) \in Value
    BY <2>2 DEF Value
  <2> QED
    BY <1>1, <2>1, <2>3, <2>4, StoreFits, Keys DEF CountPower
<1>2. CASE GetInfo
  <2>1. CASE Set("interval", 5)
    <3>1. Fits("interval", 5) /\ 5 \in Value
      BY DEF Fits, Value
    <3> QED
      BY <1>2, <2>1, <3>1, StoreFits, Keys DEF GetInfo
  <2>2. CASE UNCHANGED unwritten
    BY <1>2, <2>2 DEF GetInfo, FlashTyped
  <2> QED
    BY <1>2, <2>1, <2>2 DEF GetInfo
<1>3. CASE Store
  <2>1. Head(storing) \in {"router_ssid", "router_pass", "router_flag"}
    BY <1>3, HeadTailProperties DEF Store, RamTyped
  <2>2. ram.ssid \in Value /\ ram.pass \in Value /\ 1 \in Value
    BY DEF RamTyped, Value
  <2>3. CASE Head(storing) = "router_ssid"
    <3>1. Set("router_ssid", ram.ssid) /\ UNCHANGED nvs
      BY <1>3, <2>3 DEF Store
    <3>2. Fits("router_ssid", ram.ssid)
      BY <2>2 DEF Fits
    <3> QED
      BY <2>2, <3>1, <3>2, StoreFits, Keys
  <2>4. CASE Head(storing) = "router_pass"
    <3>1. Set("router_pass", ram.pass) /\ UNCHANGED nvs
      BY <1>3, <2>4 DEF Store
    <3>2. Fits("router_pass", ram.pass)
      BY <2>2 DEF Fits
    <3> QED
      BY <2>2, <3>1, <3>2, StoreFits, Keys
  <2>5. CASE Head(storing) = "router_flag"
    <3>1. Set("router_flag", 1) /\ UNCHANGED nvs
      BY <1>3, <2>5 DEF Store
    <3>2. Fits("router_flag", 1)
      BY <2>2 DEF Fits
    <3> QED
      BY <2>2, <3>1, <3>2, StoreFits, Keys
  <2> QED
    BY <2>1, <2>3, <2>4, <2>5
<1>4. CASE FlashWrites
  <2>1. /\ unwritten[1] \in Key \X Value
        /\ Len(unwritten) \in Nat \ {0}
        /\ nvs' = [nvs EXCEPT ![unwritten[1][1]] = unwritten[1][2]]
        /\ unwritten' \in Seq(Key \X Value)
        /\ Len(unwritten') = Len(unwritten) - 1
        /\ \A i \in 1 .. Len(unwritten') : unwritten'[i] = unwritten[i + 1]
    BY <1>4, HeadWritten
  <2>2. Fits(unwritten[1][1], unwritten[1][2])
    BY <2>1 DEF FlashTyped
  <2>3. \A i \in 1 .. Len(unwritten') : Fits(unwritten'[i][1], unwritten'[i][2])
    <3> SUFFICES ASSUME NEW i \in 1 .. Len(unwritten')
                 PROVE  Fits(unwritten'[i][1], unwritten'[i][2])
      OBVIOUS
    <3>1. i + 1 \in 1 .. Len(unwritten)
      BY <2>1
    <3> QED
      BY <2>1, <3>1 DEF FlashTyped
  <2>4. unwritten[1][1] \in Key
    BY <2>1
  <2> QED
    BY <2>1, <2>2, <2>3, <2>4, Keys DEF FlashTyped, Fits
<1>5. CASE PowerLoss \/ Restart \/ \E u \in 0 .. 2 : GiveTooEarly(u)
  <2>1. unwritten' = << >> /\ UNCHANGED nvs
    BY <1>5, Restarted DEF Restarting, Restarts
  <2>2. Len(unwritten') = 0 /\ unwritten' \in Seq(Key \X Value)
    BY <2>1, EmptySeq
  <2> QED
    BY <2>1, <2>2 DEF FlashTyped
<1>6. CASE UNCHANGED <<nvs, unwritten>>
  BY <1>6 DEF FlashTyped
<1> QED
  BY <1>1, <1>2, <1>3, <1>4, <1>5, <1>6, Proceeds
     DEF Next, AppMain, Callback, Phone, Tick, vars, ReadFlag, Commit,
         StartSmartConfig, StartTimer, StartStation, InstallDriver, SetNumber,
         CreateSemaphore, OnEvent, OnLinkOver, OnLink, Connects, Disconnects,
         ReceiveByte

\* The steps of Next, all restarts as one.
LEMMA Cases ==
    ASSUME [Next]_vars
    PROVE  \/ CountPower \/ ReadFlag \/ Commit \/ StartSmartConfig \/ StartTimer
           \/ GetInfo \/ StartStation
           \/ InstallDriver \/ SetNumber \/ CreateSemaphore
           \/ FlashWrites \/ Store
           \/ \E sent \in Sent : OnLink(sent)
           \/ OnEvent \/ Connects \/ Disconnects \/ OnLinkOver \/ Tick
           \/ \E u \in 0 .. 2 : ReceiveByte(u)
           \/ Restarting
           \/ UNCHANGED vars
BY Restarted DEF Next, AppMain, Callback, Phone

\* Every step keeps the memory well typed.
LEMMA RamTypedStep ==
    ASSUME Base, [Next]_vars
    PROVE  RamTyped'
<1> USE DEF Base, Typed
<1>1. CASE CountPower
  BY <1>1 DEF CountPower, RamTyped, wifiVars, historyVars
<1>2. CASE ReadFlag
  <2>1. Get("router_flag") = nvs["router_flag"]
    BY <1>2, GetNothing, Keys DEF ReadFlag, QueueFits
  <2> QED
    BY <1>2, <2>1 DEF ReadFlag, RamTyped, FlashTyped, wifiVars, historyVars
<1>3. CASE Commit \/ StartSmartConfig \/ StartTimer \/ StartStation
  BY <1>3, Places DEF Commit, StartSmartConfig, StartTimer, StartStation, InitBegins,
                      RamTyped, wifiVars, historyVars
<1>4. CASE GetInfo
  <2>1. /\ Get("router_ssid") = nvs["router_ssid"]
        /\ Get("router_pass") = nvs["router_pass"]
        /\ Get("interval") = nvs["interval"]
    BY <1>4, GetNothing, Keys, Emptiness DEF GetInfo, QueueFits
  <2>2. nvs["router_ssid"] \in Value /\ nvs["router_pass"] \in Value
    BY Keys DEF FlashTyped
  <2>3. (IF Invalid(Get("interval")) THEN 5 ELSE Get("interval")) \in Nat
    BY <2>1 DEF FlashTyped
  <2> QED
    BY <1>4, <2>1, <2>2, <2>3 DEF GetInfo, RamTyped, wifiVars, historyVars
<1>5. CASE InstallDriver \/ SetNumber \/ CreateSemaphore
  BY <1>5, Proceeds DEF InstallDriver, SetNumber, CreateSemaphore, RamTyped, wifiVars,
                        historyVars
<1>6. CASE FlashWrites
  BY <1>6 DEF FlashWrites, RamTyped, wifiVars, historyVars
<1>7. CASE Store
  BY <1>7, HeadTailProperties DEF Store, RamTyped, historyVars
<1>8. ASSUME NEW sent \in Sent, OnLink(sent)
      PROVE  RamTyped'
  <2>1. sent.ssid \in Value /\ sent.pass \in Value
    BY DEF Value
  <2> QED
    BY <1>8, <2>1 DEF OnLink, RamTyped, historyVars
<1>9. CASE OnEvent
  BY <1>9 DEF OnEvent, AfterDisconnection, RamTyped, historyVars
<1>10. CASE OnLinkOver
  <2>1. Credentials \in Seq({"router_ssid", "router_pass", "router_flag"})
    BY DEF Credentials
  <2> QED
    BY <1>10, <2>1 DEF OnLinkOver, RamTyped, historyVars
<1>11. CASE Connects \/ Disconnects
  BY <1>11 DEF Connects, Disconnects, RamTyped, historyVars
<1>12. CASE Tick \/ \E u \in 0 .. 2 : ReceiveByte(u)
  BY <1>12 DEF Tick, ReceiveByte, RamTyped, wifiVars, historyVars
<1>13. CASE Restarting
  <2>1. ram' \in [flag : {0, 1}, ssid : Value, pass : Value, interval : Nat]
    BY <1>13 DEF Restarting, Restarts, ClearedRam, Value
  <2>2. storing' \in Seq({"router_ssid", "router_pass", "router_flag"})
    BY <1>13, EmptySeq DEF Restarting, Restarts
  <2> QED
    BY <1>13, <2>1, <2>2 DEF Restarting, Restarts, RamTyped
<1>14. CASE UNCHANGED vars
  BY <1>14 DEF vars, RamTyped, wifiVars, historyVars
<1> QED
  BY <1>1, <1>2, <1>3, <1>4, <1>5, <1>6, <1>7, <1>8, <1>9, <1>10, <1>11, <1>12, <1>13,
     <1>14, Cases

\* Every step keeps initialisation and provisioning apart.
LEMMA PlacedStep ==
    ASSUME Base, [Next]_vars
    PROVE  Placed'
<1> USE DEF Base, Typed, Placed
<1>1. CASE CountPower
  BY <1>1, Places DEF CountPower, wifiVars
<1>2. CASE ReadFlag
  BY <1>2, Places DEF ReadFlag, wifiVars
<1>3. CASE Commit
  BY <1>3, Places DEF Commit, RamTyped, wifiVars
<1>4. CASE StartSmartConfig
  BY <1>4, Places DEF StartSmartConfig, InitBegins
<1>5. CASE StartTimer
  BY <1>5, Places DEF StartTimer, wifiVars
<1>6. CASE GetInfo
  BY <1>6, Places DEF GetInfo, RamTyped, wifiVars
<1>7. CASE StartStation
  BY <1>7, Places DEF StartStation, InitBegins
<1>8. CASE InstallDriver \/ SetNumber \/ CreateSemaphore
  BY <1>8, Proceeds, Places DEF InstallDriver, SetNumber, CreateSemaphore, wifiVars
<1>9. CASE FlashWrites
  BY <1>9 DEF FlashWrites, wifiVars
<1>10. CASE Store
  BY <1>10, EmptySeq DEF Store
<1>11. ASSUME NEW sent \in Sent, OnLink(sent)
      PROVE  Placed'
  BY <1>11 DEF OnLink, RamTyped
<1>12. CASE OnEvent
  <2>1. event # "none" /\ event' = "none"
        /\ UNCHANGED <<ram, main, storing, station>>
    BY <1>12 DEF OnEvent
  <2>2. (smart' = "over") <=> (smart = "over")
    BY <1>12 DEF OnEvent, AfterDisconnection, RamTyped
  <2>3. main \in InitPlaces /\ ram.flag = 0
    BY <2>1
  <2> QED
    BY <2>1, <2>2, <2>3, Places
<1>13. CASE OnLinkOver
  BY <1>13 DEF OnLinkOver
<1>14. CASE Connects \/ Disconnects
  BY <1>14 DEF Connects, Disconnects
<1>15. CASE Tick \/ \E u \in 0 .. 2 : ReceiveByte(u)
  BY <1>15 DEF Tick, ReceiveByte, wifiVars
<1>16. CASE Restarting
  BY <1>16, Places DEF Restarting, Restarts, ClearedRam
<1>17. CASE UNCHANGED vars
  BY <1>17 DEF vars, wifiVars
<1> QED
  BY <1>1, <1>2, <1>3, <1>4, <1>5, <1>6, <1>7, <1>8, <1>9, <1>10, <1>11, <1>12, <1>13,
     <1>14, <1>15, <1>16, <1>17, Cases

\* Every step keeps the queue of writes fitting.
LEMMA QueueFitsStep ==
    ASSUME Base, [Next]_vars
    PROVE  QueueFits'
<1> USE DEF Base, Typed, Placed, QueueFits
<1>1. CASE CountPower
  <2>1. Get("power_cnt") = nvs["power_cnt"]
    BY <1>1, GetNothing, Keys, Emptiness DEF CountPower
  <2>2. NextCount(nvs["power_cnt"]) \in Value
    BY NetworkAssumption DEF NextCount, FlashTyped, Value
  <2>3. /\ Len(unwritten') = Len(unwritten) + 1
        /\ unwritten'[Len(unwritten) + 1] = <<"power_cnt", NextCount(nvs["power_cnt"])>>
    BY <1>1, <2>1, <2>2, Queued, Keys DEF CountPower
  <2>4. Len(unwritten) = 0
    BY <1>1, Emptiness DEF CountPower
  <2>5. Len(unwritten') = 1 /\ unwritten'[1][1] = "power_cnt"
    BY <2>3, <2>4
  <2> QED
    BY <1>1, <2>5, Places DEF CountPower
<1>2. CASE ReadFlag
  BY <1>2, Places DEF ReadFlag
<1>3. CASE Commit
  BY <1>3, Places DEF Commit, Committed
<1>4. CASE StartSmartConfig \/ StartTimer
  BY <1>4, Places DEF StartSmartConfig, StartTimer, InitBegins
<1>5. CASE GetInfo
  <2>1. unwritten = << >> /\ Len(unwritten) = 0 /\ main' = "stationMode"
    BY <1>5, Emptiness DEF GetInfo
  <2>2. CASE Set("interval", 5)
    <3>1. /\ Len(unwritten') = Len(unwritten) + 1
          /\ unwritten'[Len(unwritten) + 1] = <<"interval", 5>>
      BY <2>2, Queued, Keys DEF Value
    <3>2. Len(unwritten') = 1 /\ unwritten'[1] = <<"interval", 5>>
      BY <2>1, <3>1
    <3> QED
      BY <2>1, <3>2, Places
  <2>3. CASE UNCHANGED unwritten
    BY <2>1, <2>3, Places
  <2> QED
    BY <1>5, <2>2, <2>3 DEF GetInfo
<1>6. CASE StartStation
  BY <1>6, Places DEF StartStation, InitBegins, Committed
<1>7. CASE InstallDriver \/ SetNumber \/ CreateSemaphore
  BY <1>7, Proceeds, Places DEF InstallDriver, SetNumber, CreateSemaphore, wifiVars
<1>8. CASE FlashWrites
  <2>1. /\ Len(unwritten) \in Nat \ {0}
        /\ Len(unwritten') = Len(unwritten) - 1
        /\ unwritten' \in Seq(Key \X Value)
        /\ UNCHANGED <<main, smart>>
    BY <1>8, HeadWritten DEF wifiVars
  <2>2. unwritten # << >> /\ (unwritten' = << >> <=> Len(unwritten') = 0)
    BY <1>8, <2>1, EmptySeq DEF FlashWrites
  <2>3. CASE main \in {"flag", "commit", "stationMode"}
    <3>1. Len(unwritten') = 0
      BY <2>1, <2>3
    <3> QED
      BY <2>1, <2>3, <3>1, Places
  <2>4. CASE main \in InitPlaces /\ smart = "over"
    BY <2>1, <2>4, Places
  <2> QED
    BY <2>1, <2>2, <2>3, <2>4 DEF RamTyped
<1>9. CASE Store
  <2>1. smart = "over" /\ UNCHANGED <<main, smart>>
    BY <1>9 DEF Store
  <2> QED
    BY <2>1, Places
<1>10. CASE Restarting
  BY <1>10, Places DEF Restarting, Restarts
<1>11. CASE OnEvent
  <2>1. smart' = "over" <=> smart = "over"
    BY <1>11 DEF OnEvent, AfterDisconnection, RamTyped
  <2> QED
    BY <1>11, <2>1 DEF OnEvent
<1>12. ASSUME NEW sent \in Sent, OnLink(sent)
      PROVE  QueueFits'
  BY <1>12 DEF OnLink
<1>13. CASE OnLinkOver \/ Connects \/ Disconnects
  BY <1>13 DEF OnLinkOver, Connects, Disconnects
<1>14. CASE Tick \/ (\E u \in 0 .. 2 : ReceiveByte(u)) \/ UNCHANGED vars
  BY <1>14 DEF Tick, ReceiveByte, vars, wifiVars
<1> QED
  BY <1>1, <1>2, <1>3, <1>4, <1>5, <1>6, <1>7, <1>8, <1>9, <1>10, <1>11, <1>12, <1>13,
     <1>14, Cases

\* The four together.
LEMMA BaseStep == Base /\ [Next]_vars => Base'
BY FlashTypedStep, RamTypedStep, PlacedStep, QueueFitsStep DEF Base, Typed

-----------------------------------------------------------------------------
(* The credentials. *)
LEMMA CredentialAt ==
    /\ Credentials[1] = "router_ssid" /\ Credentials[2] = "router_pass"
    /\ Credentials[3] = "router_flag" /\ Len(Credentials) = 3
BY DEF Credentials

\* The credentials invariant at the start.
LEMMA CredentialsInit == Init => CredentialsInv
BY Places DEF Init, Blank, Key, ClearedRam, CredentialsInv, FlagRead, StationWorks,
              StoresInOrder

\* The store that is written during provisioning is the next one.
LEMMA NextWritten ==
    ASSUME Base, CredentialsInv, FlashWrites, smart = "over"
    PROVE  /\ Written \in 0 .. 2 /\ Written' = Written + 1
           /\ nvs' = [nvs EXCEPT ![Credentials[Written + 1]] =
                                     Stored(Credentials[Written + 1])]
           /\ \A i \in 1 .. Len(unwritten') :
                 /\ unwritten'[i][1] = Credentials[Written' + i]
                 /\ unwritten'[i][2] = Stored(Credentials[Written' + i])
           /\ UNCHANGED <<storing, ram, main>>
<1>1. /\ Len(unwritten) \in Nat \ {0}
      /\ nvs' = [nvs EXCEPT ![unwritten[1][1]] = unwritten[1][2]]
      /\ Len(unwritten') = Len(unwritten) - 1
      /\ \A i \in 1 .. Len(unwritten') : unwritten'[i] = unwritten[i + 1]
      /\ UNCHANGED <<storing, ram, main>>
  BY HeadWritten DEF Base, wifiVars
<1>2. /\ Written \in 0 .. 3
      /\ \A i \in 1 .. Len(unwritten) :
            /\ unwritten[i][1] = Credentials[Written + i]
            /\ unwritten[i][2] = Stored(Credentials[Written + i])
  BY DEF CredentialsInv, StoresInOrder
<1>3. Len(storing) \in Nat /\ Len(storing') = Len(storing)
  BY <1>1, LenProperties DEF Base, Typed, RamTyped
<1>4. Written \in 0 .. 2 /\ Written' = Written + 1
  BY <1>1, <1>2, <1>3 DEF Written
<1>5. ASSUME NEW i \in 1 .. Len(unwritten')
      PROVE  /\ unwritten'[i][1] = Credentials[Written' + i]
             /\ unwritten'[i][2] = Stored(Credentials[Written' + i])
  <2>1. i + 1 \in 1 .. Len(unwritten) /\ Written + (i + 1) = Written' + i
    BY <1>1, <1>4
  <2> QED
    BY <1>1, <1>2, <2>1
<1>6. 1 \in 1 .. Len(unwritten)
  BY <1>1
<1> QED
  BY <1>1, <1>2, <1>4, <1>5, <1>6

\* A raised router_flag goes on standing for working credentials.
LEMMA FlashWorksStep ==
    ASSUME Base, CredentialsInv, [Next]_vars
    PROVE  (nvs.router_flag = 1 => FlashWorks)'
<1>1. CASE FlashWrites /\ smart = "over"
  <2>1. /\ Written \in 0 .. 2
        /\ nvs' = [nvs EXCEPT ![Credentials[Written + 1]] =
                                  Stored(Credentials[Written + 1])]
    BY <1>1, NextWritten
  <2>2. DOMAIN nvs = Key
    BY DEF Base, Typed, FlashTyped
  <2>3. CASE Written = 2
    <3>1. /\ nvs'["router_ssid"] = nvs["router_ssid"]
          /\ nvs'["router_pass"] = nvs["router_pass"]
      BY <2>1, <2>2, <2>3, CredentialAt, Keys
    <3>2. nvs["router_ssid"] = ram.ssid /\ nvs["router_pass"] = ram.pass /\ RamWorks
      BY <1>1, <2>3 DEF CredentialsInv, StoresInOrder
    <3> QED
      BY <3>1, <3>2 DEF FlashWorks, RamWorks
  <2>4. CASE Written \in 0 .. 1
    <3>1. nvs'["router_flag"] = nvs["router_flag"]
      BY <2>1, <2>2, <2>4, CredentialAt, Keys
    <3>2. nvs["router_flag"] = 0
      BY <1>1, <2>4 DEF CredentialsInv, StoresInOrder
    <3> QED
      BY <3>1, <3>2
  <2> QED
    BY <2>1, <2>3, <2>4
<1>2. CASE FlashWrites /\ smart # "over"
  <2>1. unwritten[1][1] \in {"power_cnt", "interval"}
    <3>1. Len(unwritten) \in Nat \ {0} /\ unwritten # << >>
      BY <1>2, HeadWritten DEF Base, FlashWrites
    <3>2. 1 \in 1 .. Len(unwritten)
      BY <3>1
    <3> QED
      BY <1>2, <3>1, <3>2, Places DEF Base, Typed, RamTyped, QueueFits
  <2>2. /\ nvs' = [nvs EXCEPT ![unwritten[1][1]] = unwritten[1][2]]
        /\ DOMAIN nvs = Key
    BY <1>2, HeadWritten DEF Base, Typed, FlashTyped
  <2>3. /\ nvs'["router_ssid"] = nvs["router_ssid"]
        /\ nvs'["router_pass"] = nvs["router_pass"]
        /\ nvs'["router_flag"] = nvs["router_flag"]
    BY <2>1, <2>2, Keys
  <2> QED
    BY <2>3 DEF CredentialsInv, FlashWorks
<1>3. CASE UNCHANGED nvs
  BY <1>3 DEF CredentialsInv, FlashWorks
<1> QED
  BY <1>1, <1>2, <1>3, Proceeds, Cases
     DEF vars, CountPower, ReadFlag, Commit, StartSmartConfig, StartTimer, GetInfo,
         StartStation, InstallDriver, SetNumber, CreateSemaphore, Store, OnLink,
         OnEvent, Connects, Disconnects, OnLinkOver, Tick, ReceiveByte, Restarting

\* What initialisation has read of it stays true.
LEMMA FlagReadStep ==
    ASSUME Base, CredentialsInv, [Next]_vars
    PROVE  FlagRead'
<1> USE DEF Base, CredentialsInv
<1>1. CASE ReadFlag
  <2>1. Get("router_flag") = nvs["router_flag"]
    BY <1>1, GetNothing, Keys DEF ReadFlag, QueueFits
  <2> QED
    BY <1>1, <2>1 DEF ReadFlag, FlagRead, Typed, RamTyped
<1>2. CASE FlashWrites /\ smart # "over"
  <2>1. unwritten[1][1] \in {"power_cnt", "interval"}
    <3>1. Len(unwritten) \in Nat \ {0} /\ unwritten # << >>
      BY <1>2, HeadWritten DEF FlashWrites
    <3>2. 1 \in 1 .. Len(unwritten)
      BY <3>1
    <3> QED
      BY <1>2, <3>1, <3>2, Places DEF Typed, RamTyped, QueueFits
  <2>2. /\ nvs' = [nvs EXCEPT ![unwritten[1][1]] = unwritten[1][2]]
        /\ DOMAIN nvs = Key
        /\ UNCHANGED <<ram, main, smart>>
    BY <1>2, HeadWritten DEF Typed, FlashTyped, wifiVars
  <2>3. nvs'["router_flag"] = nvs["router_flag"]
    BY <2>1, <2>2, Keys
  <2> QED
    BY <2>2, <2>3 DEF FlagRead
<1>3. CASE FlashWrites /\ smart = "over"
  BY <1>3 DEF FlashWrites, wifiVars, FlagRead
<1>4. CASE GetInfo
  BY <1>4 DEF GetInfo, wifiVars, FlagRead, Typed, RamTyped
<1>5. ASSUME NEW sent \in Sent, OnLink(sent)
      PROVE  FlagRead'
  BY <1>5 DEF OnLink, FlagRead, Typed, RamTyped
<1>6. CASE Restarting
  BY <1>6 DEF Restarting, Restarts, FlagRead
<1>7. CASE OnEvent
  <2>1. smart' = "over" <=> smart = "over"
    BY <1>7 DEF OnEvent, AfterDisconnection, Typed, RamTyped
  <2> QED
    BY <1>7, <2>1 DEF OnEvent, FlagRead
<1>8. CASE OnLinkOver
  BY <1>8 DEF OnLinkOver, FlagRead
<1>9. CASE CountPower
  BY <1>9 DEF CountPower, FlagRead
<1>10. CASE UNCHANGED <<nvs, ram, smart>> /\ (main' = main \/ main \notin {"count", "flag"})
  BY <1>10 DEF FlagRead
<1> QED
  BY <1>1, <1>2, <1>3, <1>4, <1>5, <1>6, <1>7, <1>8, <1>9, <1>10, Proceeds, Places, Cases
     DEF vars, Commit, StartSmartConfig, StartTimer, StartStation, InstallDriver,
         SetNumber, CreateSemaphore, Store, Connects, Disconnects, Tick, ReceiveByte,
         wifiVars

\* The credentials in RAM go on working where they are used.
LEMMA StationWorksStep ==
    ASSUME Base, CredentialsInv, [Next]_vars
    PROVE  StationWorks'
<1> USE DEF Base, CredentialsInv
<1>1. CASE CountPower
  BY <1>1 DEF CountPower, Placed, wifiVars, StationWorks, RamWorks
<1>2. CASE ReadFlag
  BY <1>2, Places DEF ReadFlag, Placed, wifiVars, StationWorks, RamWorks
<1>3. CASE Commit
  BY <1>3, Places DEF Commit, Placed, wifiVars, StationWorks, RamWorks, Typed, RamTyped
<1>4. CASE StartTimer
  BY <1>4, Places DEF StartTimer, Placed, wifiVars, StationWorks, RamWorks
<1>5. CASE StartSmartConfig
  BY <1>5, Places DEF StartSmartConfig, Placed, StationWorks, RamWorks
<1>6. CASE StartStation
  BY <1>6, Places DEF StartStation, Placed, StationWorks, RamWorks
<1>7. CASE GetInfo
  <2>1. /\ Get("router_ssid") = nvs["router_ssid"]
        /\ Get("router_pass") = nvs["router_pass"]
        /\ Get("interval") = nvs["interval"]
    BY <1>7, GetNothing, Keys, Emptiness DEF GetInfo, QueueFits
  <2>2. /\ ram'.ssid = nvs["router_ssid"] /\ ram'.pass = nvs["router_pass"]
        /\ ram'.interval = IF Invalid(nvs["interval"]) THEN 5 ELSE nvs["interval"]
        /\ ram'.flag = ram.flag
    BY <1>7, <2>1 DEF GetInfo, Typed, RamTyped
  <2>3. ram.flag = 1 /\ FlashWorks
    BY <1>7, Places DEF GetInfo, Placed, FlagRead
  <2>4. RamWorks'
    BY <2>2, <2>3 DEF RamWorks, FlashWorks
  <2>5. ram'.interval \in 2 .. 30
    BY <2>2 DEF Invalid, Typed, FlashTyped
  <2> QED
    BY <2>2, <2>3, <2>4, <2>5 DEF StationWorks
<1>8. ASSUME NEW sent \in Sent, OnLink(sent)
      PROVE  StationWorks'
  BY <1>8 DEF OnLink, Placed, StationWorks, Typed, RamTyped
<1>9. CASE Connects
  BY <1>9 DEF Connects, StationWorks, RamWorks
<1>10. CASE Disconnects
  BY <1>10 DEF Disconnects, StationWorks, RamWorks
<1>11. CASE Restarting
  BY <1>11 DEF Restarting, Restarts, ClearedRam, StationWorks
<1>12. CASE InstallDriver \/ SetNumber \/ CreateSemaphore
  BY <1>12, Proceeds, Places
     DEF InstallDriver, SetNumber, CreateSemaphore, wifiVars, StationWorks, RamWorks
<1>13. CASE UNCHANGED <<ram, main, station>>
  BY <1>13 DEF StationWorks, RamWorks
<1> QED
  BY <1>1, <1>2, <1>3, <1>4, <1>5, <1>6, <1>7, <1>8, <1>9, <1>10, <1>11, <1>12, <1>13, Cases
     DEF vars, FlashWrites, Store, OnEvent, OnLinkOver, Tick, ReceiveByte, wifiVars

\* The stores of provisioning stay in order.
LEMMA StoresStep ==
    ASSUME Base, CredentialsInv, [Next]_vars
    PROVE  StoresInOrder'
<1> USE DEF Base, CredentialsInv
<1>1. CASE FlashWrites
  <2> SUFFICES ASSUME smart = "over" PROVE StoresInOrder'
    BY <1>1 DEF FlashWrites, wifiVars, StoresInOrder
  <2>1. /\ Written \in 0 .. 2 /\ Written' = Written + 1
        /\ nvs' = [nvs EXCEPT ![Credentials[Written + 1]] =
                                  Stored(Credentials[Written + 1])]
        /\ \A i \in 1 .. Len(unwritten') :
              /\ unwritten'[i][1] = Credentials[Written' + i]
              /\ unwritten'[i][2] = Stored(Credentials[Written' + i])
        /\ UNCHANGED <<storing, ram, main>>
    BY <1>1, NextWritten
  <2>2. DOMAIN nvs = Key
    BY DEF Typed, FlashTyped
  <2>3. /\ Written' \in 0 .. 3
        /\ Written' >= 1 => nvs'["router_ssid"] = ram.ssid
        /\ Written' >= 2 => nvs'["router_pass"] = ram.pass
        /\ nvs'["router_flag"] = IF Written' = 3 THEN 1 ELSE 0
    <3>1. /\ Written >= 1 => nvs["router_ssid"] = ram.ssid
          /\ Written >= 2 => nvs["router_pass"] = ram.pass
          /\ nvs["router_flag"] = 0
      BY <2>1 DEF StoresInOrder
    <3>2. CASE Written = 0
      BY <2>1, <2>2, <3>1, <3>2, CredentialAt, Keys DEF Stored
    <3>3. CASE Written = 1
      BY <2>1, <2>2, <3>1, <3>3, CredentialAt, Keys DEF Stored
    <3>4. CASE Written = 2
      BY <2>1, <2>2, <3>1, <3>4, CredentialAt, Keys DEF Stored
    <3> QED
      BY <2>1, <3>2, <3>3, <3>4
  <2>4. \A k : Stored(k)' = Stored(k)
    BY <2>1 DEF Stored
  <2> QED
    BY <2>1, <2>3, <2>4 DEF StoresInOrder, RamWorks
<1>2. CASE Store
  <2>1. smart = "over" /\ storing # << >> /\ UNCHANGED <<nvs, ram, main, smart>>
    BY <1>2, EmptySeq DEF Store, Placed
  <2>2. /\ Head(storing) = storing[1] /\ storing' = Tail(storing)
        /\ Len(storing') = Len(storing) - 1 /\ Len(storing) \in Nat \ {0}
        /\ \A i \in 1 .. Len(storing') : storing'[i] = storing[i + 1]
        /\ Head(storing) \in {"router_ssid", "router_pass", "router_flag"}
    BY <1>2, <2>1, HeadTailProperties, EmptySeq DEF Store, Typed, RamTyped
  <2>3. /\ RamWorks /\ main \in InitPlaces /\ Written \in 0 .. 3
        /\ \A i \in 1 .. Len(storing) : storing[i] = Credentials[3 - Len(storing) + i]
        /\ \A i \in 1 .. Len(unwritten) :
              /\ unwritten[i][1] = Credentials[Written + i]
              /\ unwritten[i][2] = Stored(Credentials[Written + i])
    BY <2>1 DEF StoresInOrder
  <2> DEFINE k == Head(storing)
  <2>4. k \in Key /\ Stored(k) \in Value
    <3>1. ram.ssid \in Value /\ ram.pass \in Value /\ 1 \in Value
      BY DEF Typed, RamTyped, Value
    <3> QED
      BY <2>2, <3>1, Keys DEF Stored
  <2>5. Set(k, Stored(k))
    BY <1>2 DEF Store, Stored
  <2>6. /\ Len(unwritten) \in Nat /\ Len(unwritten') = Len(unwritten) + 1
        /\ \A i \in 1 .. Len(unwritten) : unwritten'[i] = unwritten[i]
        /\ unwritten'[Len(unwritten) + 1] = <<k, Stored(k)>>
    BY <2>4, <2>5, Queued
  <2>7. Written' = Written
    BY <2>2, <2>6 DEF Written
  <2>8. k = Credentials[Written + (Len(unwritten) + 1)]
    <3>1. 1 \in 1 .. Len(storing)
      BY <2>2
    <3>2. k = Credentials[3 - Len(storing) + 1]
      BY <2>2, <2>3, <3>1
    <3>3. 3 - Len(storing) + 1 = Written + (Len(unwritten) + 1)
      BY <2>2, <2>6 DEF Written
    <3> QED
      BY <3>2, <3>3
  <2> HIDE DEF k
  <2>9. ASSUME NEW i \in 1 .. Len(unwritten')
        PROVE  /\ unwritten'[i][1] = Credentials[Written + i]
               /\ unwritten'[i][2] = Stored(Credentials[Written + i])
    <3>1. CASE i \in 1 .. Len(unwritten)
      BY <2>3, <2>6, <3>1
    <3>2. CASE i = Len(unwritten) + 1
      BY <2>6, <2>8, <3>2
    <3> QED
      BY <2>6, <3>1, <3>2
  <2>10. ASSUME NEW i \in 1 .. Len(storing')
         PROVE  storing'[i] = Credentials[3 - Len(storing') + i]
    <3>1. i + 1 \in 1 .. Len(storing)
      BY <2>2
    <3>2. 3 - Len(storing) + (i + 1) = 3 - Len(storing') + i
      BY <2>2
    <3> QED
      BY <2>2, <2>3, <3>1, <3>2
  <2>11. \A j : Stored(j)' = Stored(j)
    BY <2>1 DEF Stored
  <2>12. RamWorks'
    BY <2>1, <2>3 DEF RamWorks
  <2>13. /\ Written >= 1 => nvs["router_ssid"] = ram.ssid
         /\ Written >= 2 => nvs["router_pass"] = ram.pass
         /\ nvs["router_flag"] = IF Written = 3 THEN 1 ELSE 0
    BY <2>1 DEF StoresInOrder
  <2> QED
    BY <2>1, <2>3, <2>7, <2>9, <2>10, <2>11, <2>12, <2>13 DEF StoresInOrder
<1>3. CASE OnLinkOver
  <2>1. smart = "linked" /\ station = "up" /\ storing' = Credentials
        /\ UNCHANGED <<nvs, unwritten, ram, main>>
    BY <1>3 DEF OnLinkOver
  <2>2. ram.flag = 0 /\ RamWorks /\ nvs["router_flag"] = 0 /\ main \in InitPlaces
    BY <2>1, Places DEF Placed, StationWorks, FlagRead
  <2>3. Len(unwritten) = 0
    BY <2>1, <2>2, Emptiness DEF QueueFits
  <2>4. Len(storing') = 3 /\ Written' = 0
    BY <2>1, <2>3, CredentialAt DEF Written
  <2>5. \A i \in 1 .. Len(storing') : storing'[i] = Credentials[3 - Len(storing') + i]
    BY <2>1, <2>4
  <2> QED
    BY <2>1, <2>2, <2>3, <2>4, <2>5 DEF StoresInOrder, RamWorks
<1>4. CASE OnEvent
  <2>1. smart' = "over" => smart = "over"
    BY <1>4 DEF OnEvent, AfterDisconnection, Typed, RamTyped
  <2> QED
    BY <1>4, <2>1 DEF OnEvent, StoresInOrder, RamWorks, Written, Stored
<1>5. CASE Restarting
  BY <1>5 DEF Restarting, Restarts, StoresInOrder
<1>6. ASSUME NEW sent \in Sent, OnLink(sent)
      PROVE  StoresInOrder'
  BY <1>6 DEF OnLink, StoresInOrder
<1>7. CASE main \notin InitPlaces /\ UNCHANGED smart
  BY <1>7 DEF Placed, StoresInOrder
<1>8. CASE /\ UNCHANGED <<nvs, unwritten, ram, smart, storing>>
           /\ main' = main \/ main' \in InitPlaces
  BY <1>8 DEF StoresInOrder, RamWorks, Written, Stored
<1> QED
  BY <1>1, <1>2, <1>3, <1>4, <1>5, <1>6, <1>7, <1>8, Proceeds, Places, Cases
     DEF vars, CountPower, ReadFlag, Commit, StartSmartConfig, StartTimer, GetInfo,
         StartStation, InstallDriver, SetNumber, CreateSemaphore, Connects,
         Disconnects, Tick, ReceiveByte, wifiVars

(* Wherever the power fails, a gateway that will start in station mode has  *)
(* the credentials of a network it has been connected to, and one that did  *)
(* gives its station these: the flag is the last of the stores, and the     *)
(* flash takes them in order.                                               *)
THEOREM CredentialsAlwaysWork == Spec => []CredentialsWork
<1>1. CredentialsInv /\ Base /\ [Next]_vars => CredentialsInv'
  BY FlashWorksStep, FlagReadStep, StationWorksStep, StoresStep DEF CredentialsInv
<1>2. Base /\ CredentialsInv => CredentialsWork
  BY Places DEF Base, Placed, CredentialsInv, StationWorks, RamWorks, FlashWorks,
                CredentialsWork
<1> QED
  BY <1>1, <1>2, BaseInit, BaseStep, CredentialsInit, PTL DEF Spec

-----------------------------------------------------------------------------
(* The count of the starts. *)

\* Counting on and wrapping may be exchanged.
LEMMA Quotient ==
    ASSUME NEW C \in Nat \ {0}, NEW q \in Int, NEW r \in 0 .. C - 1, NEW n \in Int,
           n = C * q + r
    PROVE  n % C = r
OBVIOUS

\* A counter that wraps counts modulo its size.
LEMMA NextWraps ==
    ASSUME NEW C \in Nat \ {0, 1}, NEW n \in Nat
    PROVE  ((n % C) + 1) % C = (n + 1) % C
<1>1. n = C * (n \div C) + (n % C) /\ n % C \in 0 .. C - 1 /\ n \div C \in Int
  OBVIOUS
<1>2. PICK q \in Int : n = C * q + (n % C)
  BY <1>1
<1>3. CASE (n % C) + 1 < C
  <2>1. n + 1 = C * q + ((n % C) + 1) /\ (n % C) + 1 \in 0 .. C - 1
    BY <1>1, <1>2, <1>3
  <2>2. (n + 1) % C = (n % C) + 1
    <3> DEFINE r == (n % C) + 1
    <3> DEFINE m == n + 1
    <3>1. m \in Int /\ r \in 0 .. C - 1 /\ m = C * q + r
      BY <2>1
    <3> HIDE DEF r, m
    <3>2. m % C = r
      BY <3>1, Quotient
    <3> QED
      BY <3>2 DEF r, m
  <2>3. ((n % C) + 1) % C = (n % C) + 1
    BY <1>1, <1>3
  <2> QED
    BY <2>1, <2>2, <2>3
<1>4. CASE (n % C) + 1 = C
  <2>1. n + 1 = C * (q + 1) + 0
    BY <1>1, <1>2, <1>4
  <2>2. (n + 1) % C = 0
    <3> DEFINE p == q + 1
    <3> DEFINE m == n + 1
    <3>1. m \in Int /\ p \in Int /\ 0 \in 0 .. C - 1 /\ m = C * p + 0
      BY <2>1
    <3> HIDE DEF p, m
    <3>2. m % C = 0
      BY <3>1, Quotient
    <3> QED
      BY <3>2 DEF m
  <2>3. ((n % C) + 1) % C = 0
    BY <1>4
  <2> QED
    BY <2>1, <2>2, <2>3
<1> QED
  BY <1>1, <1>3, <1>4

\* The count invariant at the start.
LEMMA CountInit == Init => CountInv
<1> SUFFICES ASSUME Init PROVE CountInv
  OBVIOUS
<1>1. main = "count" /\ nvs["power_cnt"] = 0 /\ boots = 1 /\ counted = 0
  BY DEF Init, Blank, Key
<1>2. 0 % CountSize = 0 /\ 0 \in counted .. boots - 1
  BY <1>1, NetworkAssumption
<1> QED
  BY <1>1, <1>2 DEF CountInv, CountedFrom

\* From the count invariant the property follows.
LEMMA CountHolds ==
    ASSUME Base, CountInv
    PROVE  CountedFrom(counted, boots)
<1>1. counted \in Nat /\ boots \in Nat
  BY DEF Base, Typed, RamTyped
<1>2. CASE CountedFrom(counted, boots - 1)
  BY <1>1, <1>2 DEF CountedFrom
<1>3. CASE CountedFrom(counted + 1, boots)
  BY <1>1, <1>3 DEF CountedFrom
<1>4. CASE CountUnderWay
  BY <1>1, <1>4 DEF CountedFrom, CountUnderWay
<1> QED
  BY <1>2, <1>3, <1>4 DEF CountInv

\* Every step keeps the count.
LEMMA CountStep == Base /\ CredentialsInv /\ CountInv /\ [Next]_vars => CountInv'
<1> SUFFICES ASSUME Base, CredentialsInv, CountInv, [Next]_vars PROVE CountInv'
  OBVIOUS
<1>0. counted \in Nat /\ boots \in Nat
  BY DEF Base, Typed, RamTyped
<1>1. CASE CountPower
  <2>1. Get("power_cnt") = nvs["power_cnt"] /\ Len(unwritten) = 0
    BY <1>1, GetNothing, Keys, Emptiness DEF CountPower, Base, QueueFits
  <2>2. NextCount(nvs["power_cnt"]) \in Value
    BY NetworkAssumption DEF NextCount, Base, Typed, FlashTyped, Value
  <2>3. /\ Len(unwritten') = Len(unwritten) + 1
        /\ unwritten'[Len(unwritten) + 1] = <<"power_cnt", NextCount(nvs["power_cnt"])>>
        /\ unwritten' \in Seq(Key \X Value)
    BY <1>1, <2>1, <2>2, Queued, Keys DEF CountPower, Base
  <2>4. unwritten'[1][2] = NextCount(nvs["power_cnt"]) /\ unwritten' # << >>
    <3>1. Len(unwritten) + 1 = 1
      BY <2>1
    <3>2. unwritten'[1] = <<"power_cnt", NextCount(nvs["power_cnt"])>>
      BY <2>3, <3>1
    <3>3. Len(unwritten') = 1
      BY <2>3, <3>1
    <3> QED
      BY <2>3, <3>2, <3>3, EmptySeq
  <2>5. PICK n \in counted .. boots - 1 : nvs["power_cnt"] = n % CountSize
    BY <1>1 DEF CountPower, CountInv, CountedFrom
  <2>6. NextCount(nvs["power_cnt"]) = (n + 1) % CountSize
    BY <1>0, <2>5, NextWraps, NetworkAssumption DEF NextCount
  <2>7. main' = "flag" /\ UNCHANGED <<nvs, counted, boots>>
    BY <1>1 DEF CountPower, historyVars
  <2>8. CountUnderWay'
    BY <2>4, <2>5, <2>6, <2>7 DEF CountUnderWay
  <2> QED
    BY <2>4, <2>7, <2>8 DEF CountInv
<1>2. CASE FlashWrites /\ main \in {"flag", "commit"}
  <2>1. /\ Len(unwritten) \in Nat \ {0} /\ Len(unwritten') = Len(unwritten) - 1
        /\ unwritten' \in Seq(Key \X Value) /\ unwritten # << >>
        /\ nvs' = [nvs EXCEPT ![unwritten[1][1]] = unwritten[1][2]]
        /\ UNCHANGED <<main, counted, boots>>
    BY <1>2, HeadWritten DEF Base, historyVars, FlashWrites
  <2>2. Len(unwritten) = 1 /\ unwritten[1][1] = "power_cnt"
    <3>1. 1 \in 1 .. Len(unwritten)
      BY <2>1
    <3> QED
      BY <1>2, <2>1, <3>1 DEF Base, QueueFits
  <2>3. unwritten' = << >>
    BY <2>1, <2>2, EmptySeq
  <2>4. PICK n \in counted .. boots - 1 : unwritten[1][2] = (n + 1) % CountSize
    BY <1>2, <2>1 DEF CountInv, CountUnderWay
  <2>5. nvs'["power_cnt"] = (n + 1) % CountSize
    BY <2>1, <2>2, <2>4, Keys DEF Base, Typed, FlashTyped
  <2>6. n + 1 \in counted + 1 .. boots
    BY <1>0, <2>4
  <2>7. CountedFrom(counted + 1, boots)'
    BY <2>1, <2>5, <2>6 DEF CountedFrom
  <2> QED
    BY <1>2, <2>1, <2>3, <2>7 DEF CountInv
<1>3. CASE FlashWrites /\ main \notin {"flag", "commit"}
  <2>1. /\ Len(unwritten) \in Nat \ {0} /\ unwritten # << >>
        /\ nvs' = [nvs EXCEPT ![unwritten[1][1]] = unwritten[1][2]]
        /\ UNCHANGED <<main, counted, boots>>
    BY <1>3, HeadWritten DEF Base, historyVars, FlashWrites
  <2>2. nvs'["power_cnt"] = nvs["power_cnt"]
    <3>1. CASE smart = "over"
      BY <1>3, <3>1, NextWritten, CredentialAt, Keys DEF Base, Typed, FlashTyped
    <3>2. CASE smart # "over"
      <4>1. main = "stationMode"
        BY <1>3, <2>1, <3>2, Places DEF Base, Typed, RamTyped, QueueFits
      <4>2. 1 \in 1 .. Len(unwritten)
        BY <2>1
      <4>3. unwritten[1][1] = "interval"
        BY <4>1, <4>2 DEF Base, QueueFits
      <4> QED
        BY <2>1, <4>3, Keys DEF Base, Typed, FlashTyped
    <3> QED
      BY <3>1, <3>2
  <2>3. main # "count"
    BY <2>1 DEF Base, QueueFits
  <2> QED
    BY <1>3, <2>1, <2>2, <2>3 DEF CountInv, CountedFrom
<1>4. CASE Commit
  <2>1. unwritten = << >> /\ main = "commit" /\ counted' = counted + 1
        /\ main' \notin {"count", "flag", "commit"} /\ UNCHANGED <<nvs, boots>>
    BY <1>4 DEF Commit, Committed
  <2> QED
    BY <2>1 DEF CountInv, CountedFrom
<1>5. CASE Restarting
  <2>1. main' = "count" /\ boots' = boots + 1 /\ UNCHANGED <<nvs, counted>>
    BY <1>5 DEF Restarting, Restarts
  <2>2. boots' - 1 = boots
    BY <1>0, <2>1
  <2> QED
    BY <2>1, <2>2, CountHolds DEF CountInv, CountedFrom
<1>6. CASE ReadFlag
  <2>1. main' = "commit" /\ main = "flag" /\ UNCHANGED <<nvs, unwritten, counted, boots>>
    BY <1>6 DEF ReadFlag, historyVars
  <2> QED
    BY <2>1 DEF CountInv, CountedFrom, CountUnderWay
<1>7. CASE /\ UNCHANGED <<nvs, counted, boots>>
           /\ main \notin {"count", "flag", "commit"}
           /\ main' \notin {"count", "flag", "commit"}
  BY <1>7 DEF CountInv, CountedFrom
<1>8. CASE UNCHANGED <<nvs, unwritten, main, counted, boots>>
  BY <1>8 DEF CountInv, CountedFrom, CountUnderWay
<1>9. CASE Store
  <2>1. smart = "over" /\ UNCHANGED <<nvs, main, counted, boots>>
    BY <1>9 DEF Store, Base, Placed, historyVars
  <2>2. main \notin {"count", "flag", "commit"}
    BY <2>1, Places DEF CredentialsInv, StoresInOrder
  <2> QED
    BY <1>7, <2>1, <2>2
<1>10. CASE \/ StartSmartConfig \/ StartTimer \/ GetInfo \/ StartStation
            \/ InstallDriver \/ SetNumber \/ CreateSemaphore
  BY <1>7, <1>10, Proceeds, Places
     DEF StartSmartConfig, StartTimer, GetInfo, StartStation, InstallDriver, SetNumber,
         CreateSemaphore, InitBegins, historyVars
<1> QED
  BY <1>1, <1>2, <1>3, <1>4, <1>5, <1>6, <1>8, <1>9, <1>10, Cases
     DEF vars, OnLink, OnEvent, Connects, Disconnects, OnLinkOver, Tick, ReceiveByte,
         historyVars

(* power_cnt has counted every start that came past its nvs_commit, and any *)
(* other at most once, up to its wrap: for any number of power losses and   *)
(* early restarts, and any width of the counter.                            *)
THEOREM StartsCounted == Spec => []CountTrue
<1>1. Base /\ CountInv => CountTrue
  BY CountHolds DEF CountTrue, CountedFrom
<1>2. CredentialsInv /\ Base /\ [Next]_vars => CredentialsInv'
  BY FlashWorksStep, FlagReadStep, StationWorksStep, StoresStep DEF CredentialsInv
<1> QED
  BY <1>1, <1>2, BaseInit, BaseStep, CredentialsInit, CountInit, CountStep, PTL DEF Spec

-----------------------------------------------------------------------------
(* The numbers of the handlers. *)
LEMMA NumbersInit == Init => NumbersRight /\ NeverMisdelivered
BY DEF Init, ZeroNumbers, NumbersRight, NeverMisdelivered

\* Every step keeps the numbers of the lines, and what was received for them.
LEMMA NumbersStep ==
    NumbersRight /\ NeverMisdelivered /\ [Next]_vars => (NumbersRight /\ NeverMisdelivered)'
<1> SUFFICES ASSUME NumbersRight, NeverMisdelivered, [Next]_vars
             PROVE  NumbersRight' /\ NeverMisdelivered'
  OBVIOUS
<1>1. CASE SetNumber
  BY <1>1, Proceeds DEF SetNumber, Numbers, NumbersRight, NeverMisdelivered, Handler
<1>2. ASSUME NEW u \in 0 .. 2, ReceiveByte(u)
      PROVE  NumbersRight' /\ NeverMisdelivered'
  <2>1. UartOf[Served(u)] = u
    BY <1>2 DEF ReceiveByte, Served, NumbersRight, UartOf, Handler
  <2> QED
    BY <1>2, <2>1 DEF ReceiveByte, NumbersRight, NeverMisdelivered
<1>3. CASE Restarting
  BY <1>3 DEF Restarting, Restarts, ZeroNumbers, NumbersRight, NeverMisdelivered
<1>4. CASE UNCHANGED <<uartNum, fed>>
  BY <1>4 DEF NumbersRight, NeverMisdelivered
<1> QED
  BY <1>1, <1>2, <1>3, <1>4, Proceeds, Cases
     DEF vars, CountPower, ReadFlag, Commit, StartSmartConfig, StartTimer, GetInfo,
         StartStation, InstallDriver, CreateSemaphore, FlashWrites, Store, OnLink,
         OnEvent, Connects, Disconnects, OnLinkOver, Tick, initVars

(* No byte reaches the buffer of another line: until it gets its own, the   *)
(* number of each handler is 0, which is the first one's.                   *)
THEOREM BytesReachTheirLine == Spec => []NeverMisdelivered
BY NumbersInit, NumbersStep, PTL DEF Spec

-----------------------------------------------------------------------------
(* Types. *)
InitTyped == drivers \subseteq 0 .. 2 /\ semaphores \subseteq Handler

\* Every step keeps the types of initialisation.
LEMMA InitTypedStep == InitTyped /\ [Next]_vars => InitTyped'
<1> SUFFICES ASSUME InitTyped, [Next]_vars PROVE InitTyped'
  OBVIOUS
<1> USE DEF InitTyped
<1>1. CASE InstallDriver
  <2>1. main \in {"driver0", "driver1", "driver2"}
    BY <1>1 DEF InstallDriver, Drivers
  <2>2. Drivers["driver0"] = 0 /\ Drivers["driver1"] = 1 /\ Drivers["driver2"] = 2
    BY DEF Drivers
  <2>3. Drivers[main] \in 0 .. 2
    BY <2>1, <2>2
  <2> QED
    BY <1>1, <2>3 DEF InstallDriver
<1>2. CASE CreateSemaphore
  <2>1. main \in {"apSemaphore", "acSemaphore", "hmiSemaphore"}
    BY <1>2 DEF CreateSemaphore, Semaphores
  <2>2. /\ Semaphores["apSemaphore"] = "ap" /\ Semaphores["acSemaphore"] = "ac"
        /\ Semaphores["hmiSemaphore"] = "hmi"
    BY DEF Semaphores
  <2>3. Semaphores[main] \in Handler
    BY <2>1, <2>2 DEF Handler
  <2> QED
    BY <1>2, <2>3 DEF CreateSemaphore
<1>3. CASE SetNumber
  BY <1>3 DEF SetNumber
<1>4. CASE Restarting
  BY <1>4 DEF Restarting, Restarts
<1>5. CASE UNCHANGED <<drivers, semaphores>>
  BY <1>5
<1> QED
  BY <1>1, <1>2, <1>3, <1>4, <1>5, Cases
     DEF vars, CountPower, ReadFlag, Commit, StartSmartConfig, StartTimer, GetInfo,
         StartStation, FlashWrites, Store, OnLink, OnEvent, Connects, Disconnects,
         OnLinkOver, Tick, ReceiveByte, initVars

(* Every variable keeps its type. *)
THEOREM TypeCorrect == Spec => []TypeOK
<1>1. Init => InitTyped /\ ClockInv
  BY ClockInits DEF Init, InitTyped
<1>2. CredentialsInv /\ Base /\ [Next]_vars => CredentialsInv'
  BY FlashWorksStep, FlagReadStep, StationWorksStep, StoresStep DEF CredentialsInv
<1>3. ClockInv => ClockTypeOK
  BY TimeAssumption DEF ClockInv, AgeFits, CountFits, ClockTypeOK
<1>4. Base /\ CountInv => nvs["power_cnt"] \in 0 .. CountSize - 1
  <2> SUFFICES ASSUME Base, CountInv PROVE nvs["power_cnt"] \in 0 .. CountSize - 1
    OBVIOUS
  <2>1. PICK n \in counted .. boots : nvs["power_cnt"] = n % CountSize
    BY CountHolds DEF CountedFrom
  <2>2. n \in Nat
    BY DEF Base, Typed, RamTyped
  <2> QED
    BY <2>1, <2>2, NetworkAssumption
<1>5. Base /\ CountInv /\ InitTyped /\ ClockInv => TypeOK
  <2> SUFFICES ASSUME Base, CountInv, InitTyped, ClockInv PROVE TypeOK
    OBVIOUS
  <2>1. \A k \in 1 .. Len(unwritten) : unwritten[k][1] \in Key
    BY Emptiness DEF Base
  <2> QED
    BY <1>3, <1>4, <2>1
       DEF Base, Typed, FlashTyped, RamTyped, InitTyped, InitPlaces, TypeOK
<1> QED
  BY <1>1, <1>2, <1>5, BaseInit, BaseStep, CredentialsInit, CountInit, CountStep, ClockStep,
     InitTypedStep, PTL DEF Spec
=============================================================================
