---------------------------- MODULE InlinePower ----------------------------
(***************************************************************************)
(* Inline power of a switch (test/SM/softwaredesign.h, with the helpers of *)
(* test/SM/PimEthAutoNegotiator.cxx): every port runs the state machine    *)
(* runDpmReview, which detects a powered device, asks the switch's pool    *)
(* for power, turns the port's DTE power on and watches the link.  Reviews *)
(* of the ports, the operator's configuration and the CDP messages of the  *)
(* devices interleave; each runs to completion, as they do in the single   *)
(* process of the switch.                                                  *)
(*                                                                         *)
(* A failed assert stops the process: "halted".  The state of a call in    *)
(* progress is a record s = [port, sw, halted], and the functions of the   *)
(* code are operators from such a record to the next.  Elapsed times other *)
(* than the ones liveness depends on are read nondeterministically.        *)
(***************************************************************************)
EXTENDS Integers

CONSTANTS
  NPorts,         \* ports are 1..NPorts, the order of hwPhyports_
  PdClasses,      \* classes of powered devices, "Cisco" among them
  DefaultPower,   \* the power first requested for each class
  Operated,       \* ports whose configuration the operator changes
  Requests,       \* powers a device may name in a CDP message
  Totals,         \* totals the operator may configure
  MaxDpmPdPower,  \* maxDpmPdPower_, the most a port may have
  MaxApplied,     \* MaxNumPowerAppliedInOneCycle
  MaxOutOfControlCounts,  \* MaxOutOfControlCountsPer30Seconds
  Debounce        \* the ports have a debounce time

Ports == 1..NPorts

ASSUME SizeAssumption ==
  /\ NPorts \in Nat \ {0} /\ MaxApplied \in Nat \ {0}
  /\ MaxOutOfControlCounts \in Nat \ {0} /\ MaxDpmPdPower \in Nat
ASSUME PowerAssumption ==
  /\ "Cisco" \in PdClasses /\ PdClasses \cap {"Null", "Unknown"} = {}
  /\ DefaultPower \in [PdClasses -> Nat \ {0}]
  /\ Operated \subseteq Ports /\ Requests \subseteq Nat /\ Totals \subseteq Nat
ASSUME FlagAssumption == Debounce \in BOOLEAN

VARIABLES
  port,    \* per port: see PortType
  sw,      \* the switch's pool: usage, total, applied, lastOn
  halted   \* an assertion has failed

vars == <<port, sw, halted>>

PortType ==
  [state : {"Null", "Off", "Detecting", "WaitForLinkup", "Linkup"},  \* dpmState_
   enabled : BOOLEAN, admin : {"auto", "off"},  \* dpmAdminState_
   configured : BOOLEAN,      \* dpmDiscoveryModeConfigured_
   class : PdClasses \cup {"Null", "Unknown"},  \* dpmPdClass
   power : Nat, denied : BOOLEAN,   \* dpmPdPower_, dpmPdPowerDenied
   dte : BOOLEAN,             \* dtePowerConfig is EthDtePowerOn
   watch : BOOLEAN,           \* loss of the device cuts power in hardware
   mode : BOOLEAN,            \* the PHY's discovery mode
   discovery : BOOLEAN,       \* the PHY's discovery
   restart : BOOLEAN,         \* a new configuration restarts negotiation
   neg : {"none", "user", "disabled", "detect"},  \* what the negotiator runs
   outOfControl : 0..MaxOutOfControlCounts,  \* ...SampleCounts_
   link : BOOLEAN,            \* the link, as the negotiator sees it
   linked : BOOLEAN,          \* the link, as reported to PimPhyport
   firstDown : {"never", "recent", "old"}]  \* age of firstLinkDownTime_

Init ==
  /\ port = [p \in Ports |->
       [state |-> "Null", enabled |-> TRUE, admin |-> "auto", configured |-> FALSE,
        class |-> "Null", power |-> 0, denied |-> FALSE, dte |-> FALSE,
        watch |-> FALSE, mode |-> FALSE, discovery |-> FALSE, restart |-> TRUE,
        neg |-> "none", outOfControl |-> 0, link |-> FALSE, linked |-> FALSE,
        firstDown |-> "never"]]
  /\ \E t \in Totals :
       sw = [usage |-> 0, total |-> t, applied |-> 0, lastOn |-> "never"]
  /\ halted = FALSE

Now == [port |-> port, sw |-> sw, halted |-> halted]
\* A call that fails an assertion leaves nothing behind but the failure.
Becomes(s) ==
  /\ halted' = s.halted
  /\ IF s.halted THEN UNCHANGED <<port, sw>> ELSE port' = s.port /\ sw' = s.sw
Asserting(s, condition) == [s EXCEPT !.halted = @ \/ ~condition]

-----------------------------------------------------------------------------
(* The pool of the switch.                                                 *)

newInlinePower(pool, w) ==
  IF /\ pool.applied < MaxApplied \/ pool.lastOn \in {"old", "never"}
     /\ pool.usage + w < pool.total
  THEN [pool EXCEPT !.usage = @ + w,
                    !.applied = IF pool.lastOn = "old" THEN 1 ELSE @ + 1,
                    !.lastOn = "recent"]
  ELSE pool

deleteInlinePower(s, w) ==
  Asserting([s EXCEPT !.sw.usage = @ - w], w > 0 /\ s.sw.usage >= w)

\* The module's notify object, which cuts power in hardware at once, is outside
\* this code; dtePowerConfig stays as the state machine set it.
deleteDpmPdPower_Keeps(s, p, w) ==
  IF w \in 1..s.port[p].power /\ s.port[p].admin = "auto"
  THEN [s EXCEPT !.port[p].power = @ - w]
  ELSE Asserting(s, FALSE)
deleteDpmPdPower(s, p, w) ==
  IF w \in 1..s.port[p].power /\ s.port[p].admin = "auto"
  THEN deleteInlinePower([s EXCEPT !.port[p].power = @ - w], w)
  ELSE Asserting(s, FALSE)

\* Every caller that drops all of a port's power.
Release(s, p) ==
  IF s.port[p].power > 0 THEN deleteDpmPdPower(s, p, s.port[p].power) ELSE s

newDpmPdPower(s, p, w) ==
  LET pool == newInlinePower(s.sw, w)
  IN  IF w = 0 \/ s.port[p].admin # "auto"
      THEN Asserting(s, FALSE)
      ELSE IF w + s.port[p].power <= MaxDpmPdPower /\ pool # s.sw
           THEN [s EXCEPT !.sw = pool, !.port[p].power = @ + w,
                          !.port[p].denied = FALSE]
           ELSE Release([s EXCEPT !.port[p].denied = TRUE], p)

\* One turn of the loop that takes power back when the total shrinks.
Shed_All(s, p) ==
  IF s.port[p].power > 0
  THEN [Release(Asserting(s, ~s.port[p].denied), p) EXCEPT !.port[p].denied = TRUE]
  ELSE s
Shed(s, p) ==
  IF s.sw.usage > s.sw.total /\ s.port[p].power > 0
  THEN [Release(Asserting(s, ~s.port[p].denied), p) EXCEPT !.port[p].denied = TRUE]
  ELSE s

totalInlinePowerAvailable(t) ==
  /\ ~halted /\ t # sw.total
  /\ LET s == Asserting([Now EXCEPT !.sw.total = t], sw.usage <= sw.total)
         shed[n \in 0..NPorts] == IF n = 0 THEN s ELSE Shed(shed[n - 1], n)
     IN  Becomes(Asserting(shed[NPorts], shed[NPorts].sw.usage <= t))

-----------------------------------------------------------------------------
(* The link, as runNonDpmReview reports it.                                *)

updateResultsFromAutoNegotiation(q) ==
  CASE q.link ->
         [q EXCEPT !.linked = TRUE, !.firstDown = IF Debounce THEN "never" ELSE @]
    [] ~q.link /\ Debounce /\ q.firstDown = "never" -> [q EXCEPT !.firstDown = "recent"]
    [] ~q.link /\ Debounce /\ q.firstDown = "recent" -> q
    [] OTHER -> [q EXCEPT !.linked = FALSE]

runNonDpmReview(s, p) ==
  [s EXCEPT !.port[p] =
     updateResultsFromAutoNegotiation(
       [@ EXCEPT !.neg = IF s.port[p].enabled THEN "user" ELSE "disabled"])]

applyUsersConfig(s, p) == runNonDpmReview(s, p)

-----------------------------------------------------------------------------
(* Discovery.                                                              *)

dpmDeviceDiscoveryMode(s, p, enable) ==
  [s EXCEPT !.port[p].mode = enable, !.port[p].discovery = FALSE]

restartDiscovery(s, p) ==
  LET q == s.port[p]
  IN  Asserting([s EXCEPT !.port[p].neg = "detect", !.port[p].discovery = TRUE],
                /\ q.class = "Null" \/ (q.class = "Cisco" /\ q.denied)
                /\ q.power = 0)

restartCiscoDiscovery(s, p) == restartDiscovery(s, p)

dpmResetState_KeepsPower(s, p) ==
  dpmDeviceDiscoveryMode(
    [Release(s, p) EXCEPT !.port[p] =
       [@ EXCEPT !.watch = FALSE, !.class = "Null", !.denied = FALSE,
                 !.restart = TRUE, !.configured = FALSE, !.state = "Off"]], p, FALSE)
dpmResetState(s, p) ==
  dpmDeviceDiscoveryMode(
    [Release(s, p) EXCEPT !.port[p] =
       [@ EXCEPT !.dte = FALSE, !.watch = FALSE, !.class = "Null", !.denied = FALSE,
                 !.restart = TRUE, !.configured = FALSE, !.state = "Off"]], p, FALSE)

BackToDetecting(s, p) ==
  restartCiscoDiscovery([s EXCEPT !.port[p].restart = TRUE,
                                  !.port[p].state = "Detecting"], p)

\* Give the power back, turn it off and look for a device again: the ends of
\* WaitForLinkup and of Linkup.  If the power controller reports an error the
\* port is reset instead.
LoseDevice(s, p, error) ==
  IF error
  THEN dpmResetState(s, p)
  ELSE BackToDetecting([Release(s, p) EXCEPT !.port[p].class = "Null",
                          !.port[p].denied = FALSE, !.port[p].dte = FALSE], p)

dtePowerOutOfControl(s, p, within30) ==
  LET n == s.port[p].outOfControl + 1
  IN  IF n <= MaxOutOfControlCounts
      THEN [s EXCEPT !.port[p].outOfControl = n]
      ELSE [(IF within30 THEN dpmResetState(s, p) ELSE s)
              EXCEPT !.port[p].outOfControl = 1]

-----------------------------------------------------------------------------
(* runDpmReview, by the state it finds.                                    *)

PoweredOff(p) == ~port[p].enabled \/ port[p].admin = "off"
Idle(q) == q.class = "Null" /\ q.power = 0 /\ ~q.denied

ReviewPoweredOff(p) ==
  /\ ~halted /\ PoweredOff(p)
  /\ LET s == IF port[p].configured
              THEN [dpmDeviceDiscoveryMode(Now, p, FALSE)
                      EXCEPT !.port[p].configured = FALSE]
              ELSE Now
         t == IF port[p].state # "Off" THEN dpmResetState(s, p) ELSE s
     IN  Becomes(runNonDpmReview(Asserting(t, Idle(t.port[p])), p))

ReviewIn(p, states) == ~halted /\ ~PoweredOff(p) /\ port[p].state \in states

\* Null and Off: turn the PHY's discovery mode on, and when it is on (a later
\* review) arm the link watch and start discovery.
ReviewOff(p) ==
  /\ ReviewIn(p, {"Null", "Off"})
  /\ LET s == runNonDpmReview(Asserting(Now, Idle(port[p])), p)
     IN  IF ~port[p].configured
         THEN Becomes([dpmDeviceDiscoveryMode(s, p, TRUE)
                         EXCEPT !.port[p].configured = TRUE])
         ELSE \/ Becomes(s)  \* the PHY is not there yet
              \/ port[p].mode /\ Becomes(dpmResetState(s, p))  \* arming fails
              \/ /\ port[p].mode
                 /\ Becomes([restartDiscovery([s EXCEPT !.port[p].watch = TRUE], p)
                               EXCEPT !.port[p].state = "Detecting"])

\* Power for a device just classified: granted, and the power controller takes
\* the order or reports an error; or denied, and discovery starts again.
PowerUp(s, p, error) ==
  LET t == newDpmPdPower(s, p, DefaultPower[s.port[p].class])
      on == Asserting([t EXCEPT !.port[p].dte = TRUE], ~t.port[p].dte)
  IN  CASE t.port[p].denied ->
             restartCiscoDiscovery([t EXCEPT !.port[p].restart = TRUE], p)
        [] ~t.port[p].denied /\ error -> dpmResetState(on, p)
        [] OTHER ->
             [applyUsersConfig([on EXCEPT !.port[p].discovery = FALSE], p)
                EXCEPT !.port[p].state = "WaitForLinkup"]

DetectingChecked == [p \in Ports |-> port[p].power = 0 /\ port[p].configured
                                     /\ port[p].mode /\ port[p].class # "Unknown"]

\* runDiscovery while the user's configuration has changed.
DetectingConfigChanged(p) ==
  /\ ReviewIn(p, {"Detecting"})
  /\ Becomes(restartDiscovery(Asserting(Now, DetectingChecked[p]), p))

\* Discovery is on and, if power was denied, the delay is over.
DetectingNothing(p) ==
  /\ ReviewIn(p, {"Detecting"}) /\ port[p].discovery
  /\ Becomes([Asserting(Now, DetectingChecked[p])
                EXCEPT !.port[p].class = "Null", !.port[p].denied = FALSE])

DetectingUnknown(p) ==
  /\ ReviewIn(p, {"Detecting"}) /\ port[p].discovery
  /\ Becomes([applyUsersConfig([Asserting(Now, DetectingChecked[p])
                EXCEPT !.port[p].class = "Unknown", !.port[p].denied = FALSE,
                       !.port[p].restart = FALSE, !.port[p].discovery = FALSE], p)
                EXCEPT !.port[p].state = "WaitForLinkup"])

DetectingDevice(p) ==
  /\ ReviewIn(p, {"Detecting"}) /\ port[p].discovery
  /\ \E c \in PdClasses, autoneg, error \in BOOLEAN :
       Becomes(PowerUp([Asserting(Now, DetectingChecked[p])
                          EXCEPT !.port[p].class = c,
                                 !.port[p].discovery = ~autoneg], p, error))

\* The check at the end of WaitForLinkup.
LinkupTimeout(s, p, timedOut, error) ==
  IF s.port[p].state = "WaitForLinkup" /\ timedOut THEN LoseDevice(s, p, error) ELSE s

WaitForLinkupDenied(p) ==
  /\ ReviewIn(p, {"WaitForLinkup"}) /\ port[p].class \in PdClasses /\ port[p].denied
  /\ Becomes(BackToDetecting([Asserting(Now, port[p].mode /\ port[p].power = 0)
                                EXCEPT !.port[p].dte = FALSE], p))

\* What the power controller reports once power has had time to propagate.
AfterStatus(s, p, status, within30, error) ==
  CASE status = "OutOfControl" -> dtePowerOutOfControl(s, p, within30)
    [] status = "Off" /\ ~s.port[p].link -> LoseDevice(s, p, error)
    [] status = "On" /\ s.port[p].link -> [s EXCEPT !.port[p].state = "Linkup"]
    [] OTHER -> s

WaitForLinkupPowered(p) ==
  /\ ReviewIn(p, {"WaitForLinkup"}) /\ port[p].class \in PdClasses /\ ~port[p].denied
  /\ LET s == Asserting(Now, port[p].mode /\ port[p].power > 0)
     IN  \/ Becomes(applyUsersConfig(s, p))  \* the status cannot be read
         \/ \E timedOut, error \in BOOLEAN :  \* power is still propagating
              Becomes(LinkupTimeout(s, p, timedOut, error))
         \/ \E status \in {"On", "Off", "OutOfControl", "Faulty"},
               within30, timedOut, error \in BOOLEAN :
              Becomes(LinkupTimeout(
                AfterStatus(applyUsersConfig(s, p), p, status, within30, error),
                p, timedOut, error))

WaitForLinkupUnknown_KeepsFlags(p) ==
  /\ ReviewIn(p, {"WaitForLinkup"}) /\ port[p].class = "Unknown"
  /\ LET s == Asserting([Now EXCEPT !.port[p] = updateResultsFromAutoNegotiation(@)],
                        port[p].mode /\ port[p].power = 0)
     IN  IF port[p].link
         THEN Becomes([s EXCEPT !.port[p].state = "Linkup"])
         ELSE \E timedOut, error \in BOOLEAN :
                Becomes(LinkupTimeout(s, p, timedOut, error))
WaitForLinkupUnknown(p) ==
  /\ ReviewIn(p, {"WaitForLinkup"}) /\ port[p].class = "Unknown"
  /\ LET s == Asserting([Now EXCEPT !.port[p] = updateResultsFromAutoNegotiation(@)],
                        port[p].mode /\ port[p].power = 0)
     IN  IF port[p].link
         THEN Becomes([s EXCEPT !.port[p].restart = TRUE, !.port[p].state = "Linkup"])
         ELSE \E timedOut, error \in BOOLEAN :
                Becomes(LinkupTimeout(s, p, timedOut, error))

\* Power that the pool took away is turned off, and a lost link or a power
\* controller out of control ends Linkup.
LinkupDevice_NoCut(p) ==
  /\ ReviewIn(p, {"Linkup"}) /\ port[p].class \in PdClasses
  /\ LET s == runNonDpmReview(Asserting(Now, port[p].mode), p)
     IN  \E error \in BOOLEAN :
           Becomes(IF port[p].link THEN s ELSE LoseDevice(s, p, error))
LinkupDevice(p) ==
  /\ ReviewIn(p, {"Linkup"}) /\ port[p].class \in PdClasses
  /\ LET s == runNonDpmReview(Asserting(Now, port[p].mode), p)
         cut == port[p].dte /\ port[p].power = 0
         t == IF cut THEN [s EXCEPT !.port[p].dte = FALSE] ELSE s
         Ends(u, error) == IF u.port[p].state = "Linkup" /\ ~port[p].link
                           THEN LoseDevice(u, p, error) ELSE u
     IN  \/ cut /\ Becomes(dpmResetState(s, p))  \* turning it off failed
         \/ \E error \in BOOLEAN : Becomes(Ends(t, error))
         \/ \E within30, error \in BOOLEAN :
              Becomes(Ends(dtePowerOutOfControl(t, p, within30), error))

LinkupUnknown(p) ==
  /\ ReviewIn(p, {"Linkup"}) /\ port[p].class = "Unknown"
  /\ LET s == runNonDpmReview(Asserting(Now, port[p].mode), p)
     IN  Becomes(IF port[p].link THEN s
                 ELSE BackToDetecting([Asserting(s, port[p].power = 0)
                                         EXCEPT !.port[p].class = "Null"], p))

\* What a review finds while Detecting depends on what is plugged in; in the
\* other states the review itself moves the port on.
ReviewFinds(p) ==
  \/ DetectingConfigChanged(p) \/ DetectingNothing(p)
  \/ DetectingUnknown(p) \/ DetectingDevice(p)
ReviewMoves(p) ==
  \/ ReviewPoweredOff(p) \/ ReviewOff(p)
  \/ WaitForLinkupDenied(p) \/ WaitForLinkupPowered(p) \/ WaitForLinkupUnknown(p)
  \/ LinkupDevice(p) \/ LinkupUnknown(p)

-----------------------------------------------------------------------------
(* CDP messages of the device, and the world outside.                      *)

ilpowerPdPowerRequest(p, w) ==
  /\ ~halted /\ port[p].link /\ w # port[p].power
  /\ Becomes(IF w < port[p].power
             THEN deleteDpmPdPower(Now, p, port[p].power - w)
             ELSE newDpmPdPower(Now, p, w - port[p].power))

ilpowerPdPowerConsumed(p, w) ==
  /\ ~halted /\ port[p].link /\ w # port[p].power
  /\ Becomes(deleteDpmPdPower(Now, p, IF w < port[p].power THEN port[p].power - w
                                                            ELSE w - port[p].power))

\* The operator.
Configure(p) ==
  /\ ~halted /\ p \in Operated
  /\ \/ port' = [port EXCEPT ![p].enabled = ~@]
     \/ port' = [port EXCEPT ![p].admin = IF @ = "auto" THEN "off" ELSE "auto"]
  /\ UNCHANGED <<sw, halted>>

LinkChanges(p) ==
  /\ ~halted /\ port' = [port EXCEPT ![p].link = ~@]
  /\ UNCHANGED <<sw, halted>>

\* More than the debounce time has passed since firstLinkDownTime_; more than
\* MinTimeBetweenTwoPowerOnCycles since lastPowerOnTime_.
DebounceElapses(p) ==
  /\ ~halted /\ port[p].firstDown = "recent"
  /\ port' = [port EXCEPT ![p].firstDown = "old"] /\ UNCHANGED <<sw, halted>>
CycleElapses ==
  /\ ~halted /\ sw.lastOn = "recent"
  /\ sw' = [sw EXCEPT !.lastOn = "old"] /\ UNCHANGED <<port, halted>>

Next ==
  \/ \E p \in Ports :
       \/ ReviewFinds(p) \/ ReviewMoves(p)
       \/ Configure(p) \/ LinkChanges(p) \/ DebounceElapses(p)
       \/ \E w \in Requests : ilpowerPdPowerRequest(p, w) \/ ilpowerPdPowerConsumed(p, w)
  \/ \E t \in Totals : totalInlinePowerAvailable(t)
  \/ CycleElapses

Spec == Init /\ [][Next]_vars

\* "You should call this periodically" (PimEthAutoNegotiator.h:71): every port is
\* reviewed again and again, and time passes.  A port may find nothing for ever.
FairSpec ==
  /\ Spec
  /\ \A p \in Ports : WF_vars(ReviewMoves(p)) /\ WF_vars(DebounceElapses(p))
  /\ WF_vars(CycleElapses)

-----------------------------------------------------------------------------
TypeOK ==
  /\ port \in [Ports -> PortType]
  /\ sw.usage \in Nat /\ sw.total \in Totals
  /\ sw.applied \in 0..MaxApplied /\ sw.lastOn \in {"never", "recent", "old"}
  /\ halted \in BOOLEAN

\* The power that the ports hold together.
Held(ports) ==
  LET held[n \in 0..NPorts] == IF n = 0 THEN 0 ELSE held[n - 1] + ports[n].power
  IN  held[NPorts]

\* The pool's currentInlinePowerUsage_ is what the ports hold, whatever mixture
\* of grants, denials, CDP adjustments, resets and shedding led there.
PoolMatchesPorts == ~halted => sw.usage = Held(port)

\* The asserts of totalInlinePowerAvailable: allocations never exceed the total,
\* also right after the total shrank.
NeverOvercommitted == ~halted => sw.usage <= sw.total

\* The pool agrees with the ports and with the total.
PoolSound == PoolMatchesPorts /\ NeverOvercommitted

\* A port is told to deliver power only to a classified device it waits for or
\* has linked up, and only while loss of the device cuts the power in hardware.
PoweredOnlySafely ==
  \A p \in Ports : ~halted /\ port[p].dte =>
    /\ port[p].state \in {"WaitForLinkup", "Linkup"}
    /\ port[p].class \in PdClasses
    /\ port[p].watch /\ port[p].mode

\* Detection never stalls: a port in Detecting has its PHY discovering with the
\* detection configuration, and beyond Detecting every port has a class, so that
\* each state has a review that applies.
DetectionRuns ==
  \A p \in Ports : ~halted =>
    /\ port[p].state = "Detecting" =>
         port[p].mode /\ port[p].discovery /\ port[p].neg = "detect"
    /\ port[p].state \in {"WaitForLinkup", "Linkup"} => port[p].class # "Null"

\* Negotiation without a restart is only for an unknown device that waits for
\* its link: every way out of that state restores the flags.
RestartRestored ==
  \A p \in Ports : ~halted /\ ~port[p].restart =>
    port[p].state = "WaitForLinkup" /\ port[p].class = "Unknown"

\* A port that was reset, denied or abandoned by its device is back in a state
\* from which the next device is found.
DetectionSound == TypeOK /\ DetectionRuns /\ RestartRestored

\* When the total shrinks, ports lose power in port order and only as long as
\* the allocations exceed the new total.
Lost(p) == port[p].power > 0 /\ port'[p].power = 0
ShedsNoMoreThanNeeded ==
  [][sw'.total # sw.total /\ ~halted' =>
       \A p \in Ports : Lost(p) =>
         /\ \A q \in 1..p-1 : port'[q].power = 0
         /\ (\A q \in p+1..NPorts : ~Lost(q))
              => sw'.usage + port[p].power > sw'.total]_vars

\* Power taken away by the pool or by a CDP message is turned off at the port.
PowerCutReachesPort ==
  \A p \in Ports :
    (port[p].dte /\ port[p].power = 0)
      ~> (~port[p].dte \/ port[p].power > 0 \/ halted)

=============================================================================
