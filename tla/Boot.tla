-------------------------------- MODULE Boot --------------------------------
(***************************************************************************)
(* From power-up to a gateway that runs in station mode: app_main          *)
(* (csro_main.c), the provisioning by a phone (csro_smart_config.c), the   *)
(* reading of what it stored (csro_common.c), the initialisation of the    *)
(* serial lines (csro_airsys.c) and the clock (Clock.tla), with power      *)
(* losses and restarts between any two steps.                              *)
(*                                                                         *)
(* The flash keeps what nvs_set_* wrote, at the latest from nvs_commit on  *)
(* and in the order of the calls; everything else is lost by a restart,    *)
(* but for the system time, which only a power loss resets (sdkconfig.h,   *)
(* CONFIG_ESP32_TIME_SYSCALL_USE_RTC_FRC1).                                *)
(***************************************************************************)
EXTENDS Clock, Sequences, FiniteSetsExt

CONSTANTS
    Sent,            \* what phones send: records of an ssid and a pass
    Working,         \* those that a router accepts
    NoString,        \* an empty string
    CountSize,       \* 2^32 in the code: power_cnt wraps
    MaxPowerLosses,  \* bound: power losses
    MaxRefusals,     \* bound: attempts to connect that fail, and connections lost
    MaxEarly         \* bound: restarts because of what a line received too early

ASSUME NetworkAssumption ==
    /\ Working \subseteq Sent /\ Working # {}
    /\ \A s \in Sent : s.ssid # NoString /\ s.pass # NoString
    /\ CountSize \in Nat \ {0, 1}
    /\ MaxPowerLosses \in Nat /\ MaxRefusals \in Nat /\ MaxEarly \in Nat

VARIABLES
    nvs,          \* the flash: a value for each key, 0 or NoString if missing
    unwritten,    \* stores under way to the flash, <<key, value>>
    ram,          \* sysinfo and mqttinfo: flag, ssid, pass, interval
    main,         \* the place in app_main and csro_airsys_init
    drivers,      \* the UARTs whose driver is installed
    uartNum,      \* uart_num of each handler
    semaphores,   \* the handlers whose semaphore exists
    fed,          \* history: <<u, h>> when h was given a byte of UART u
    smart,        \* smart config: "off", "listening", "linked" or "over"
    storing,      \* the stores of SC_STATUS_LINK_OVER still to be made
    station,      \* the WiFi station: "off", "down", "connecting" or "up"
    event,        \* what the event loop has to handle: "none" or an event
    losses, refusals, early,   \* counters behind the bounds
    boots, counted             \* history: starts, and those past nvs_commit

initVars == <<drivers, uartNum, semaphores, fed>>
wifiVars == <<smart, storing, station, event, refusals>>
historyVars == <<boots, counted, losses, early>>
vars == <<nvs, unwritten, ram, main, initVars, wifiVars, clockVars, historyVars>>

Key == {"power_cnt", "router_flag", "router_ssid", "router_pass", "interval"}

Blank == [k \in Key |-> IF k \in {"router_ssid", "router_pass"} THEN NoString ELSE 0]

\* The three lines and who is to serve them.
Handler == {"ap", "ac", "hmi"}
\* Faulty, no part of Spec: two lines exchanged.
UartOfSwapped == [ap |-> 1, ac |-> 0, hmi |-> 2]
UartOf == [ap |-> 0, ac |-> 1, hmi |-> 2]

\* RAM at a start.
ClearedRam == [flag |-> 0, ssid |-> NoString, pass |-> NoString, interval |-> 0]
ZeroNumbers == [h \in Handler |-> 0]

Init ==
    /\ nvs = Blank /\ fed = {}
    /\ unwritten = << >> /\ ram = ClearedRam
    /\ main = "count"
    /\ drivers = {} /\ uartNum = ZeroNumbers /\ semaphores = {}
    /\ smart = "off" /\ storing = << >> /\ station = "off" /\ event = "none"
    /\ ClockInit
    /\ losses = 0 /\ refusals = 0 /\ early = 0
    /\ boots = 1 /\ counted = 0

\* app_main starts again; what becomes of the system time is left open.
Restarts ==
    /\ unwritten' = << >> /\ ram' = ClearedRam
    /\ main' = "count"
    /\ drivers' = {} /\ uartNum' = ZeroNumbers /\ semaphores' = {}
    /\ smart' = "off" /\ storing' = << >> /\ station' = "off" /\ event' = "none"
    /\ ClockRestarts
    /\ boots' = boots + 1
    /\ UNCHANGED <<fed, counted, refusals>>

-----------------------------------------------------------------------------
(* Faulty variants of definitions below, no part of Spec: each one breaks   *)
(* the property PROJECT.json names with it.                                 *)
FlagFirst == <<"router_flag", "router_ssid", "router_pass">>
StopsOnly == "off"
CountedAnew(n) == 1
-----------------------------------------------------------------------------
(* The flash. *)

\* nvs_get_*: the latest store counts, in the flash or not yet.
Get(k) ==
    LET stores == {n \in DOMAIN unwritten : unwritten[n][1] = k}
    IN  IF stores = {} THEN nvs[k] ELSE unwritten[Max(stores)][2]

Set(k, value) == unwritten' = Append(unwritten, <<k, value>>)

Committed == unwritten = << >>

FlashWrites ==
    /\ unwritten # << >>
    /\ nvs' = [nvs EXCEPT ![Head(unwritten)[1]] = Head(unwritten)[2]]
    /\ unwritten' = Tail(unwritten)
    /\ UNCHANGED <<ram, main, initVars, wifiVars, clockVars, historyVars>>

-----------------------------------------------------------------------------
(* app_main. *)

NextCount(n) == (n + 1) % CountSize

CountPower ==
    /\ main = "count"
    /\ Set("power_cnt", NextCount(Get("power_cnt")))
    /\ main' = "flag"
    /\ UNCHANGED <<nvs, ram, initVars, wifiVars, clockVars, historyVars>>

ReadFlag ==
    /\ main = "flag"
    /\ ram' = [ram EXCEPT !.flag = Get("router_flag")]
    /\ main' = "commit"
    /\ UNCHANGED <<nvs, unwritten, initVars, wifiVars, clockVars, historyVars>>

Commit ==
    /\ main = "commit" /\ Committed
    /\ counted' = counted + 1
    /\ main' = IF ram.flag = 1 THEN "timer" ELSE "smartConfig"
    /\ UNCHANGED <<nvs, unwritten, ram, initVars, wifiVars, clockVars, boots, losses,
                   early>>

\* The first lines of csro_airsys_init.
InitBegins == "driver0"

\* csro_start_smart_config.
StartSmartConfig ==
    /\ main = "smartConfig"
    /\ station' = "down" /\ event' = "start"
    /\ main' = InitBegins
    /\ UNCHANGED <<nvs, unwritten, ram, initVars, smart, storing, refusals, clockVars,
                   historyVars>>

\* csro_start_mqtt: the timer task, then csro_wifi_get_info, then the station.
StartTimer ==
    /\ main = "timer"
    /\ StartTimerTask
    /\ main' = "info"
    /\ UNCHANGED <<nvs, unwritten, ram, initVars, wifiVars, historyVars>>

Invalid(i) == i < 2 \/ i > 30

GetInfo ==
    /\ main = "info"
    /\ ram' = [ram EXCEPT !.ssid = Get("router_ssid"), !.pass = Get("router_pass"),
                          !.interval = IF Invalid(Get("interval")) THEN 5
                                       ELSE Get("interval")]
    /\ IF Invalid(Get("interval")) THEN Set("interval", 5) ELSE UNCHANGED unwritten
    /\ main' = "stationMode"
    /\ UNCHANGED <<nvs, initVars, wifiVars, clockVars, historyVars>>

\* What the station does is the subject of Connectivity.
StartStation ==
    /\ main = "stationMode" /\ Committed
    /\ station' = "connecting"
    /\ main' = InitBegins
    /\ UNCHANGED <<nvs, unwritten, ram, initVars, smart, storing, event, refusals,
                   clockVars, historyVars>>

-----------------------------------------------------------------------------
(* csro_airsys_init, from the callbacks on. *)

Drivers == [driver0 |-> 0, driver1 |-> 1, driver2 |-> 2]
Numbers == [apNumber |-> "ap", acNumber |-> "ac", hmiNumber |-> "hmi"]
Semaphores == [apSemaphore |-> "ap", acSemaphore |-> "ac", hmiSemaphore |-> "hmi"]

InitSteps == <<"driver0", "driver1", "driver2", "apNumber", "apSemaphore",
               "acNumber", "acSemaphore", "hmiNumber", "hmiSemaphore", "running">>

Proceed ==
    /\ \E k \in 1 .. Len(InitSteps) - 1 :
          main = InitSteps[k] /\ main' = InitSteps[k + 1]
    /\ UNCHANGED <<nvs, unwritten, ram, fed, wifiVars, clockVars, historyVars>>

InstallDriver ==
    /\ main \in DOMAIN Drivers /\ Proceed
    /\ drivers' = drivers \cup {Drivers[main]}
    /\ UNCHANGED <<uartNum, semaphores>>

SetNumber ==
    /\ main \in DOMAIN Numbers /\ Proceed
    /\ uartNum' = [uartNum EXCEPT ![Numbers[main]] = UartOf[Numbers[main]]]
    /\ UNCHANGED <<drivers, semaphores>>

\* The tasks are created after the last of them.
CreateSemaphore ==
    /\ main \in DOMAIN Semaphores /\ Proceed
    /\ semaphores' = semaphores \cup {Semaphores[main]}
    /\ UNCHANGED <<drivers, uartNum>>

-----------------------------------------------------------------------------
(* The receive interrupt of UART u. *)

\* The first handler with this number, in the order of the tests.
Served(u) ==
    IF uartNum["ap"] = u THEN "ap"
    ELSE IF uartNum["ac"] = u THEN "ac"
    ELSE IF uartNum["hmi"] = u THEN "hmi" ELSE "none"

ReceiveByte(u) ==
    /\ u \in drivers /\ Served(u) # "none"
    /\ fed' = fed \cup {<<u, Served(u)>>}
    /\ UNCHANGED <<nvs, unwritten, ram, main, drivers, uartNum, semaphores, wifiVars,
                   clockVars, historyVars>>

\* The semaphore given is NULL: the assertion fails and the gateway restarts.
GiveTooEarly(u) ==
    /\ u \in drivers /\ Served(u) \in Handler \ semaphores
    /\ early < MaxEarly
    /\ early' = early + 1
    /\ Restarts
    /\ UNCHANGED <<nvs, clock, losses>>

-----------------------------------------------------------------------------
(* Smart config: the event handler, and the callback for what a phone sends. *)

\* What smart config does after a disconnection.
AfterDisconnection == "listening"

OnEvent ==
    /\ event # "none"
    /\ event' = "none"
    /\ smart' = IF smart = "over" THEN smart
                ELSE IF event = "start" THEN "listening" ELSE AfterDisconnection
    /\ UNCHANGED <<nvs, unwritten, ram, main, initVars, storing, station, refusals,
                   clockVars, historyVars>>

\* SC_STATUS_LINK.
OnLink(sent) ==
    /\ smart = "listening" /\ station = "down"
    /\ (sent \in Working \/ refusals < MaxRefusals)
    /\ ram' = [ram EXCEPT !.ssid = sent.ssid, !.pass = sent.pass]
    /\ smart' = "linked" /\ station' = "connecting"
    /\ UNCHANGED <<nvs, unwritten, main, initVars, storing, event, refusals, clockVars,
                   historyVars>>

Connects ==
    /\ ram.flag = 0 /\ station = "connecting"
    /\ [ssid |-> ram.ssid, pass |-> ram.pass] \in Working
    /\ station' = "up"
    /\ UNCHANGED <<nvs, unwritten, ram, main, initVars, smart, storing, event,
                   refusals, clockVars, historyVars>>

\* An attempt fails, or a connection is lost.
Disconnects ==
    /\ ram.flag = 0 /\ station \in {"connecting", "up"}
    /\ refusals < MaxRefusals
    /\ station' = "down" /\ event' = "disconnected"
    /\ refusals' = refusals + 1
    /\ UNCHANGED <<nvs, unwritten, ram, main, initVars, smart, storing, clockVars,
                   historyVars>>

Credentials == <<"router_ssid", "router_pass", "router_flag">>

\* SC_STATUS_LINK_OVER: the phone has confirmed.  It takes milliseconds to the
\* restart and another phone seconds to be heard, so no OnLink comes between.
OnLinkOver ==
    /\ smart = "linked" /\ station = "up"
    /\ smart' = "over"
    /\ storing' = Credentials
    /\ UNCHANGED <<nvs, unwritten, ram, main, initVars, station, event, refusals,
                   clockVars, historyVars>>

Store ==
    /\ storing # << >>
    /\ LET k == Head(storing)
       IN  Set(k, CASE k = "router_ssid" -> ram.ssid
                    [] k = "router_pass" -> ram.pass
                    [] k = "router_flag" -> 1)
    /\ storing' = Tail(storing)
    /\ UNCHANGED <<nvs, ram, main, initVars, smart, station, event, refusals, clockVars,
                   historyVars>>

Restart ==
    /\ smart = "over" /\ storing = << >> /\ Committed
    /\ Restarts
    /\ UNCHANGED <<nvs, clock, losses, early>>

-----------------------------------------------------------------------------
PowerLoss ==
    /\ losses < MaxPowerLosses
    /\ losses' = losses + 1
    /\ Restarts
    /\ clock' = 0
    /\ UNCHANGED <<nvs, early>>

Tick ==
    /\ ClockRuns
    /\ UNCHANGED <<nvs, unwritten, ram, main, initVars, wifiVars, historyVars>>

AppMain ==
    \/ CountPower \/ ReadFlag \/ Commit
    \/ StartSmartConfig \/ StartTimer \/ GetInfo \/ StartStation
    \/ InstallDriver \/ SetNumber \/ CreateSemaphore

Callback == OnLinkOver \/ Store \/ Restart
Phone == \E sent \in Sent : OnLink(sent)

Next ==
    \/ AppMain \/ FlashWrites \/ OnEvent \/ Callback
    \/ Phone \/ Connects \/ Disconnects
    \/ \E u \in 0 .. 2 : ReceiveByte(u) \/ GiveTooEarly(u)
    \/ Tick \/ PowerLoss

Spec == Init /\ [][Next]_vars

(***************************************************************************)
(* Fairness: the tasks run, the flash is written, a phone tries until it   *)
(* succeeds, with what works in the end, and an attempt ends.              *)
(***************************************************************************)
FairSpec ==
    /\ Spec
    /\ WF_vars(AppMain) /\ WF_vars(FlashWrites) /\ WF_vars(OnEvent)
    /\ WF_vars(Callback) /\ WF_vars(Phone) /\ WF_vars(Connects \/ Disconnects)

-----------------------------------------------------------------------------
(* Every variable keeps its type. *)
TypeOK ==
    /\ nvs.power_cnt \in 0 .. CountSize - 1 /\ nvs.router_flag \in {0, 1}
    /\ nvs.interval \in {0, 5}
    /\ \A k \in 1 .. Len(unwritten) : unwritten[k][1] \in Key
    /\ main \in {InitSteps[k] : k \in 1 .. Len(InitSteps)}
                  \cup {"count", "flag", "commit", "timer", "smartConfig", "info",
                        "stationMode"}
    /\ drivers \subseteq 0 .. 2 /\ semaphores \subseteq Handler
    /\ smart \in {"off", "listening", "linked", "over"}
    /\ station \in {"off", "down", "connecting", "up"}
    /\ event \in {"none", "start", "disconnected"}
    /\ ClockTypeOK

(* Wherever the power fails, a gateway that will start in station mode, as  *)
(* it then does for ever, has the ssid and the password of one network, and *)
(* of one it has been connected to; these are what it gives the station,    *)
(* and its interval is one of 2 to 30 seconds.                              *)
CredentialsWork ==
    /\ nvs.router_flag = 1 =>
          [ssid |-> nvs.router_ssid, pass |-> nvs.router_pass] \in Working
    /\ ram.flag = 1 /\ station # "off" =>
          /\ [ssid |-> ram.ssid, pass |-> ram.pass] \in Working
          /\ ram.interval \in 2 .. 30

(* power_cnt has counted every start that came past its nvs_commit once,    *)
(* any other at most once, up to its wrap.                                  *)
CountTrue == \E n \in counted .. boots : nvs.power_cnt = n % CountSize

(* A byte is never appended to the buffer of another line, also not before  *)
(* the handlers have their numbers.                                         *)
NeverMisdelivered == \A f \in fed : f[1] = UartOf[f[2]]

(* However often the power fails, attempts are refused or a line is heard   *)
(* too early, as long as it ends, the gateway runs in station mode in the   *)
(* end, and for good.                                                       *)
Provisioned == <>[](main = "running" /\ ram.flag = 1)
=============================================================================
