------------------------------- MODULE WifiInit -------------------------------
(***************************************************************************)
(* esp_wifi_init() of src/src/rtems_esp_wifi_init.c: the order in which the  *)
(* modem is powered, reset, taken out of isolation and clocked before the    *)
(* PHY calibrates, the places where it fails, and the call after a failure.  *)
(*                                                                          *)
(* A register is the set of its bits that are on; what the boot ROM left in  *)
(* them is not known.  The calling task is in one call at a time.            *)
(***************************************************************************)
EXTENDS Integers, FiniteSets

CONSTANT MaxCalls  \* bound: calls of esp_wifi_init()

ASSUME InitAssumption == MaxCalls \in Nat

VARIABLES
  pwc,         \* RTC_DIG_PWC: WIFI_FORCE_PD, WIFI_PD_EN, WIFI_FORCE_PU
  iso,         \* RTC_DIG_ISO: WIFI_FORCE_ISO, WIFI_FORCE_NOISO
  clk,         \* WIFI_CLK_EN: BT_COMMON, the PHY's and MAC's bits, others
  rst,         \* WIFI_RST_EN: MODEM_RESET_WHEN_PU, others
  ana,         \* ANA_CONFIG: the disable mask, SAR_FORCE_PD
  sarUp,       \* ANA_CONFIG2: SAR_FORCE_PU
  cpu,         \* CPU_PER_CONF and SYSCLK_CONF: the 160 MHz period, the PLL source
  fresh,       \* the modem went through a reset with power and clock
  sections,    \* the libraries' IRAM and DRAM are loaded
  mac,         \* the MAC is in the calibration data
  phy,         \* register_chipv7_phy() succeeded
  libs,        \* the WiFi libraries are up
  supplicant,  \* the supplicant is up
  inited,      \* rtems_wifi_inited
  leftUp,      \* history: the libraries are up because esp_wifi_deinit_internal()
               \* failed to take them down
  step,        \* where the call is
  calls

registers == <<pwc, iso, clk, rst, ana, sarUp, cpu, fresh>>
software == <<sections, mac, phy, libs, supplicant, inited, leftUp>>
modemVars == <<registers, software, step, calls>>

Pwc == {"FORCE_PD", "PD_EN", "FORCE_PU"}
Iso == {"FORCE_ISO", "FORCE_NOISO"}
Clk == {"BT_COMMON", "PHY_MAC", "other"}
Rst == {"MODEM_RESET", "other"}
Ana == {"MASK", "SAR_FORCE_PD"}
Cpu == {"PERIOD", "PLL"}

ModemInit ==
  /\ pwc \in SUBSET Pwc /\ iso \in SUBSET Iso
  /\ clk \in SUBSET Clk /\ rst \in SUBSET Rst
  /\ ana \in SUBSET Ana /\ sarUp \in BOOLEAN
  /\ cpu \in SUBSET Cpu
  /\ fresh = FALSE
  /\ sections = FALSE /\ mac = FALSE
  /\ phy = FALSE /\ libs = FALSE /\ supplicant = FALSE
  /\ inited = FALSE /\ leftUp = FALSE
  /\ step = "idle"
  /\ calls = 0

Powered == "FORCE_PU" \in pwc /\ "FORCE_PD" \notin pwc /\ "PD_EN" \notin pwc

At(s) == step = s /\ UNCHANGED calls

LeaveInit == step' = "idle"

(* A null config or a config without osi_funcs is refused, and so is a       *)
(* second initialisation.                                                   *)
EspWifiInit(valid) ==
  /\ step = "idle"
  /\ calls < MaxCalls
  /\ calls' = calls + 1
  /\ step' = IF valid /\ ~inited THEN "sections" ELSE "idle"
  /\ UNCHANGED <<registers, software>>

CopySections ==
  /\ At("sections") /\ step' = "power"
  /\ sections' = TRUE
  /\ UNCHANGED <<registers, mac, phy, libs, supplicant, inited, leftUp>>

------------------------------------------------------------------------------
(* Mutant: WIFI_FORCE_PD is cleared and FORCE_PU trusted to its reset       *)
(* value.                                                                   *)
PowerUpByDefault ==
  /\ At("power") /\ step' = "commonOn"
  /\ pwc' = pwc \ {"FORCE_PD", "PD_EN"}
  /\ UNCHANGED <<iso, clk, rst, ana, sarUp, cpu, fresh, software>>

(* rtems_esp_wifi_power_domain_on(), one register write at a time.           *)
PowerUp ==
  /\ At("power") /\ step' = "commonOn"
  /\ pwc' = (pwc \ {"FORCE_PD", "PD_EN"}) \union {"FORCE_PU"}
  /\ UNCHANGED <<iso, clk, rst, ana, sarUp, cpu, fresh, software>>

(* Mutant: the common clock is off across the reset pulse.                  *)
CommonClockOnForgotten ==
  /\ At("commonOn") /\ step' = "assert"
  /\ UNCHANGED <<registers, software>>

CommonClockOn ==
  /\ At("commonOn") /\ step' = "assert"
  /\ clk' = clk \union {"BT_COMMON"}
  /\ UNCHANGED <<pwc, iso, rst, ana, sarUp, cpu, fresh, software>>

AssertReset ==
  /\ At("assert") /\ step' = "release"
  /\ rst' = rst \union {"MODEM_RESET"}
  /\ fresh' = (Powered /\ "BT_COMMON" \in clk)
  /\ UNCHANGED <<pwc, iso, clk, ana, sarUp, cpu, software>>

ReleaseReset ==
  /\ At("release") /\ step' = "isolation"
  /\ rst' = rst \ {"MODEM_RESET"}
  /\ UNCHANGED <<pwc, iso, clk, ana, sarUp, cpu, fresh, software>>

LeaveIsolation ==
  /\ At("isolation") /\ step' = "commonOff"
  /\ iso' = (iso \ {"FORCE_ISO"}) \union {"FORCE_NOISO"}
  /\ UNCHANGED <<pwc, clk, rst, ana, sarUp, cpu, fresh, software>>

CommonClockOff ==
  /\ At("commonOff") /\ step' = "clocks"
  /\ clk' = clk \ {"BT_COMMON"}
  /\ UNCHANGED <<pwc, iso, rst, ana, sarUp, cpu, fresh, software>>

(* rtems_esp_wifi_clocks_on().                                               *)
ClocksOn ==
  /\ At("clocks") /\ step' = "analog"
  /\ clk' = clk \union {"BT_COMMON", "PHY_MAC"}
  /\ UNCHANGED <<pwc, iso, rst, ana, sarUp, cpu, fresh, software>>

(* The analog bus: every target reachable, the SAR powered.                 *)
OpenAnalogBus ==
  /\ At("analog") /\ step' = "sar"
  /\ ana' = {}
  /\ UNCHANGED <<pwc, iso, clk, rst, sarUp, cpu, fresh, software>>

SarUp ==
  /\ At("sar") /\ step' = "period"
  /\ sarUp' = TRUE
  /\ UNCHANGED <<pwc, iso, clk, rst, ana, cpu, fresh, software>>

(* rtems_esp_wifi_cpu_clock_to_pll(): the period before the source.          *)
ChoosePeriod ==
  /\ At("period") /\ step' = "source"
  /\ cpu' = cpu \union {"PERIOD"}
  /\ UNCHANGED <<pwc, iso, clk, rst, ana, sarUp, fresh, software>>

ChooseSource ==
  /\ At("source") /\ step' = "mac"
  /\ cpu' = cpu \union {"PLL"}
  /\ UNCHANGED <<pwc, iso, clk, rst, ana, sarUp, fresh, software>>

------------------------------------------------------------------------------
(* The MAC goes into the calibration data, then the PHY calibrates.  A       *)
(* rejected checksum of the input data counts as success.                   *)
SetMac ==
  /\ At("mac") /\ step' = "phy"
  /\ mac' = TRUE
  /\ UNCHANGED <<registers, sections, phy, libs, supplicant, inited, leftUp>>

RegisterPhy(result) ==
  /\ At("phy")
  /\ IF result \in {"OK", "CAL_DATA_CHECK_FAIL"}
     THEN phy' = TRUE /\ step' = "internal"
     ELSE LeaveInit /\ UNCHANGED phy
  /\ UNCHANGED <<registers, sections, mac, libs, supplicant, inited, leftUp>>

(* esp_wifi_init_internal(), which undoes what it did when it fails.          *)
InitInternal(ok) ==
  /\ At("internal")
  /\ IF ok THEN libs' = TRUE /\ step' = "supplicant" ELSE LeaveInit /\ UNCHANGED libs
  /\ UNCHANGED <<registers, sections, mac, phy, supplicant, inited, leftUp>>

InitSupplicant ==
  /\ At("supplicant") /\ step' = "inited"
  /\ supplicant' = TRUE
  /\ UNCHANGED <<registers, sections, mac, phy, libs, inited, leftUp>>

(* Mutant: the libraries stay up when the supplicant fails.                 *)
SupplicantFailsEarly ==
  /\ At("supplicant") /\ step' = "idle"
  /\ UNCHANGED <<registers, software>>

SupplicantFails ==
  /\ At("supplicant") /\ step' = "deinit"
  /\ UNCHANGED <<registers, software>>

(* Its result is not looked at: when it fails the libraries stay up.         *)
DeinitInternal(ok) ==
  /\ At("deinit") /\ LeaveInit
  /\ libs' = ~ok /\ leftUp' = ~ok
  /\ UNCHANGED <<registers, sections, mac, phy, supplicant, inited>>

SetInited ==
  /\ At("inited") /\ LeaveInit
  /\ inited' = TRUE
  /\ UNCHANGED <<registers, sections, mac, phy, libs, supplicant, leftUp>>

PowerDomainOn ==
  \/ PowerUp \/ CommonClockOn
  \/ AssertReset \/ ReleaseReset
  \/ LeaveIsolation \/ CommonClockOff

Attempt ==
  \/ CopySections
  \/ PowerDomainOn \/ ClocksOn
  \/ OpenAnalogBus \/ SarUp
  \/ ChoosePeriod \/ ChooseSource
  \/ SetMac
  \/ \E result \in {"OK", "CAL_DATA_CHECK_FAIL", "FAIL"} : RegisterPhy(result)
  \/ \E ok \in BOOLEAN : InitInternal(ok) \/ DeinitInternal(ok)
  \/ InitSupplicant \/ SupplicantFails
  \/ SetInited

ModemNext ==
  \/ \E valid \in BOOLEAN : EspWifiInit(valid)
  \/ Attempt

ModemSpec == ModemInit /\ [][ModemNext]_modemVars
------------------------------------------------------------------------------
(* Every variable stays in its range.                                       *)
ModemTypeOK ==
  /\ pwc \subseteq Pwc /\ iso \subseteq Iso
  /\ clk \subseteq Clk /\ rst \subseteq Rst /\ ana \subseteq Ana
  /\ cpu \subseteq Cpu
  /\ {sarUp, fresh, sections, mac, phy, libs, supplicant, inited, leftUp} \subseteq BOOLEAN
  /\ (inited => supplicant) /\ (supplicant => libs) /\ (libs => phy) /\ (phy => sections)

(* register_chipv7_phy() spins for ever on a dark modem: whatever the boot    *)
(* left in the registers, and on every attempt, it is called with the domain *)
(* powered, freshly reset, out of isolation and clocked, the analog bus open, *)
(* the CPU on the PLL and the MAC in the calibration data.                   *)
CalibratesReady ==
  step = "phy" =>
    /\ Powered /\ fresh /\ "MODEM_RESET" \notin rst
    /\ iso = {"FORCE_NOISO"}
    /\ {"BT_COMMON", "PHY_MAC"} \subseteq clk
    /\ ana = {} /\ sarUp
    /\ cpu = Cpu /\ mac /\ sections

(* "Order matters: power, then reset, then this": the domain leaves isolation *)
(* only with power, after a reset that had power and the common clock.       *)
IsolationLast ==
  [][iso # iso' => Powered /\ fresh /\ "MODEM_RESET" \notin rst]_<<pwc, iso, clk, rst>>

(* "A second esp_wifi_init() after a failure should be able to start from the *)
(* same place as the first": an attempt that did not finish leaves no        *)
(* supplicant, and no libraries but those that esp_wifi_deinit_internal()     *)
(* failed to take down; over these alone a retry copies the sections.        *)
RetryStartsClean ==
  step \in {"idle", "sections"} /\ ~inited => ~supplicant /\ (libs <=> leftUp)

(* The two together.                                                        *)
InitInv == ModemTypeOK /\ RetryStartsClean
==============================================================================
