------------------------------ MODULE EspStorage -----------------------------
(***************************************************************************)
(* The settings of ESPEasy and what keeps them: config.dat and             *)
(* security.dat, the copies in RAM, the counters in RTC memory that guard  *)
(* the flash, the start-up that checks the files, and the factory reset.   *)
(* Power may go and the watchdog may bite between any two writes.          *)
(*                                                                         *)
(* Settings are told apart by whether their version and their build are    *)
(* those of the firmware (an older build is one below 145); security       *)
(* settings by the part a factory reset sets (own) and the part it does    *)
(* not know (other: second access point, users and passwords of            *)
(* controllers).  Of the settings of tasks, controllers and notifications  *)
(* only the writes are modelled.                                           *)
(***************************************************************************)
EXTENDS Integers

CONSTANTS
  Users,     \* security settings users enter
  Others,    \* values of the part a factory reset does not know
  MaxWrites, \* MAX_FLASHWRITES_PER_DAY
  Day,       \* ticks of the uptime after which flashDayCounter starts again
  DefaultController, \* DEFAULT_CONTROLLER
  MaxFaults  \* bound: resets, failures of power, node and flash, RTC commands

ASSUME StorageAssumption ==
  /\ MaxWrites \in Nat /\ Day \in Nat /\ MaxFaults \in Nat
  /\ DefaultController \in BOOLEAN
  /\ {"zeros", "default", "none"} \cap (Users \cup Others) = {}

VARIABLES
  pc, after,      \* where the node is, and where a call returns to
  day, resets,    \* RTC.flashDayCounter, RTC.factoryResetCounter
  warm,           \* RTC memory holds a structure, with these counters
  storedDay, storedResets,
  up,             \* dailyResetCounter
  fs,             \* the file system mounts ("ok"), needs a format, or is "dead"
  files,          \* names of the files that exist
  config,         \* Version and Build in config.dat
  security,       \* security.dat
  settings,       \* Settings
  data, digest,   \* SecuritySettings and its md5
  err,            \* the last SaveSettings returned an error
  failed, torn,   \* history: the last write of security.dat failed or stopped halfway
  watching, ticks, written, \* an observer who counts writes for a day
  faults

rtc == <<day, resets>>
memory == <<warm, storedDay, storedResets>>
flash == <<fs, files, config, security, torn>>
ram == <<settings, data, digest, failed>>
observer == <<watching, ticks, written>>
vars == <<pc, after, rtc, memory, up, flash, ram, err, observer, faults>>

Zeros == [own |-> "zeros", other |-> "zeros"]
NoDigest == [own |-> "none", other |-> "none"]
Data == [own : {"zeros", "default"} \cup Users, other : {"zeros"} \cup Others]
Versions == [version : BOOLEAN, build : BOOLEAN] \* those of the firmware?
Valid == [version |-> TRUE, build |-> TRUE]
Cleared == [version |-> FALSE, build |-> FALSE]
-----------------------------------------------------------------------------
(* Flash and RTC memory.                                                     *)

Opens(file) == fs = "ok" /\ file \in files

SetRTC(d, r) == day' = d /\ resets' = r

saveToRTC == warm' = TRUE /\ storedDay' = day' /\ storedResets' = resets'

Guards == day > MaxWrites \* flashGuard refuses

flashCount ==
  /\ day' = IF day <= MaxWrites THEN day + 1 ELSE day
  /\ resets' = resets
  /\ saveToRTC
  /\ written' = IF watching THEN written + 1 ELSE written
  /\ UNCHANGED <<watching, ticks>>

\* Counts in RAM only.
flashGuard_NotStored ==
  IF Guards THEN UNCHANGED <<rtc, memory, observer>>
  ELSE /\ day' = day + 1
       /\ written' = IF watching THEN written + 1 ELSE written
       /\ UNCHANGED <<resets, memory, watching, ticks>>

flashGuard == IF Guards THEN UNCHANGED <<rtc, memory, observer>> ELSE flashCount

\* SaveToFile counts a write before it finds that there is no file.
Written(file) == ~Guards /\ Opens(file)
-----------------------------------------------------------------------------
(* SaveSettings and LoadSettings.                                            *)

Save(return) == pc' = "saveConfig" /\ after' = return

\* Takes the digest of the security settings before anything is written.
SaveConfig_DigestFirst ==
  /\ pc = "saveConfig"
  /\ flashGuard
  /\ config' = IF Written("config") THEN settings ELSE config
  /\ err' = ~Written("config")
  /\ pc' = IF err' THEN after ELSE "saveSecurity"
  /\ digest' = IF err' THEN data ELSE digest
  /\ UNCHANGED <<after, up, fs, files, security, torn, settings, data, failed, faults>>

SaveConfig ==
  /\ pc = "saveConfig"
  /\ flashGuard
  /\ config' = IF Written("config") THEN settings ELSE config
  /\ err' = ~Written("config")
  /\ pc' = IF err' THEN after ELSE "saveSecurity"
  /\ UNCHANGED <<after, up, fs, files, security, torn, ram, faults>>

SameSecurity ==
  /\ pc = "saveSecurity" /\ data = digest
  /\ err' = FALSE /\ pc' = after
  /\ UNCHANGED <<after, rtc, memory, up, flash, ram, observer, faults>>

\* The digest in RAM is replaced whether or not the write succeeds.
SaveSecurity ==
  /\ pc = "saveSecurity" /\ data # digest
  /\ flashGuard
  /\ digest' = data
  /\ failed' = ~Written("security")
  /\ IF failed' THEN UNCHANGED <<security, torn>>
     ELSE security' = [data |-> data, digest |-> data] /\ torn' = FALSE
  /\ err' = failed' /\ pc' = after
  /\ UNCHANGED <<after, up, fs, files, config, settings, data, faults>>

LoadSettings ==
  IF ~Opens("config") THEN UNCHANGED ram
  ELSE /\ settings' = config
       /\ IF Opens("security")
          THEN data' = security.data /\ digest' = security.digest /\ failed' = FALSE
          ELSE UNCHANGED <<data, digest, failed>>
-----------------------------------------------------------------------------
(* Factory reset: a format, four new files, and the default settings.        *)

\* What remains of ResetFactory once the counter of resets has been seen to.
Format(return) ==
  /\ saveToRTC
  /\ IF fs = "dead" THEN pc' = return /\ UNCHANGED <<fs, files>>
     ELSE pc' = "initConfig" /\ fs' = "ok" /\ files' = {}

RefuseReset(return) ==
  /\ warm /\ storedResets >= 3
  /\ SetRTC(storedDay, storedResets)
  /\ pc' = return /\ UNCHANGED <<memory, fs, files>>

\* Resets are not counted.
ResetFactory_Uncounted(return) ==
  /\ IF warm THEN SetRTC(storedDay, storedResets) ELSE SetRTC(0, 0)
  /\ Format(return)
  /\ UNCHANGED <<after, up, config, security, torn, ram, err, observer>>

ResetFactory(return) ==
  /\ \/ RefuseReset(return)
     \/ /\ warm => storedResets < 3
        /\ IF warm THEN SetRTC(storedDay, storedResets + 1) ELSE SetRTC(0, 1)
        /\ Format(return)
  /\ UNCHANGED <<after, up, config, security, torn, ram, err, observer>>

\* InitFile; its error is not looked at.
InitFile(step, file, next) ==
  /\ pc = step
  /\ flashGuard
  /\ files' = IF Guards THEN files ELSE files \cup {file}
  /\ pc' = next
  /\ UNCHANGED <<after, up, fs, ram, err, faults>>

InitConfig ==
  /\ InitFile("initConfig", "config", "initSecurity")
  /\ config' = IF Guards THEN config ELSE Cleared
  /\ UNCHANGED <<security, torn>>

InitSecurity ==
  /\ InitFile("initSecurity", "security", "initNotification")
  /\ IF Guards THEN UNCHANGED <<security, torn>>
     ELSE security' = [data |-> Zeros, digest |-> NoDigest] /\ torn' = FALSE
  /\ UNCHANGED config

InitNotification ==
  /\ InitFile("initNotification", "notification", "initRules")
  /\ UNCHANGED <<config, security, torn>>

InitRules ==
  /\ InitFile("initRules", "rules", "defaults")
  /\ UNCHANGED <<config, security, torn>>

SetDefaults ==
  /\ pc = "defaults"
  /\ settings' = Valid
  /\ data' = [own |-> "default", other |-> data.other]
  /\ Save(IF DefaultController THEN "controller" ELSE "reboot")
  /\ UNCHANGED <<rtc, memory, up, flash, digest, failed, err, observer, faults>>

\* The settings of the first controller, which only some builds have defaults for.
SetDefaultController ==
  /\ pc = "controller" /\ pc' = "reboot"
  /\ flashGuard
  /\ UNCHANGED <<after, up, flash, ram, err, faults>>
-----------------------------------------------------------------------------
(* Start-up.                                                                 *)

\* RAM after a reset of the processor.
Restarts ==
  /\ pc' = "start" /\ after' = "run"
  /\ SetRTC(0, 0) /\ up' = 0
  /\ settings' = Cleared /\ data' = Zeros /\ digest' = NoDigest
  /\ failed' = FALSE /\ err' = FALSE

Reboot ==
  /\ pc = "reboot"
  /\ Restarts
  /\ UNCHANGED <<memory, flash, observer, faults>>

\* emergencyReset, with or without RX tied to TX.
Start ==
  /\ pc = "start"
  /\ \/ pc' = "rtc"
        /\ UNCHANGED <<after, rtc, memory, up, flash, ram, err, observer, faults>>
     \/ faults < MaxFaults /\ faults' = faults + 1 /\ ResetFactory("rtc")

ReadRTC ==
  /\ pc = "rtc"
  /\ IF warm THEN SetRTC(storedDay, storedResets) ELSE SetRTC(0, 0)
  /\ saveToRTC
  /\ pc' = "mount"
  /\ UNCHANGED <<after, up, flash, ram, err, observer, faults>>

fileSystemCheck ==
  /\ pc = "mount" /\ UNCHANGED faults
  /\ IF Opens("config")
     THEN pc' = "load"
          /\ UNCHANGED <<after, rtc, memory, up, flash, ram, err, observer>>
     ELSE ResetFactory("load")

Load ==
  /\ pc = "load"
  /\ LoadSettings
  /\ pc' = "version"
  /\ UNCHANGED <<after, rtc, memory, up, flash, err, observer, faults>>

\* Takes whatever a file that can be opened holds.
CheckVersion_Trusting ==
  /\ pc = "version" /\ UNCHANGED faults
  /\ IF settings.version \/ Opens("config")
     THEN pc' = "build"
          /\ UNCHANGED <<after, rtc, memory, up, flash, ram, err, observer>>
     ELSE ResetFactory("build")

CheckVersion ==
  /\ pc = "version" /\ UNCHANGED faults
  /\ IF settings.version
     THEN pc' = "build"
          /\ UNCHANGED <<after, rtc, memory, up, flash, ram, err, observer>>
     ELSE ResetFactory("build")

\* Makes the file of notifications anew, past the flash guard; without a file
\* system that is an error, and the build stays.
BuildFixes ==
  /\ pc = "build"
  /\ IF ~settings.build /\ fs = "ok"
     THEN /\ files' = files \cup {"notification"}
          /\ settings' = [settings EXCEPT !.build = TRUE]
          /\ Save("run")
     ELSE pc' = "run" /\ UNCHANGED <<after, files, settings>>
  /\ UNCHANGED <<rtc, memory, up, fs, config, security, torn, data, digest, failed, err,
                 observer, faults>>

Boot ==
  \/ SaveConfig \/ SameSecurity \/ SaveSecurity
  \/ InitConfig \/ InitSecurity \/ InitNotification \/ InitRules \/ SetDefaults
  \/ SetDefaultController
  \/ Reboot \/ Start \/ ReadRTC \/ fileSystemCheck \/ Load \/ CheckVersion
  \/ BuildFixes
-----------------------------------------------------------------------------
(* The running node.                                                         *)

\* Pages of tasks and controllers, commands and WiFi that save the settings.
SaveSettings ==
  /\ pc = "run" /\ Save("run")
  /\ UNCHANGED <<rtc, memory, up, flash, ram, err, observer, faults>>

\* handle_config, which does nothing without an access point, and
\* handle_controllers, which does not change it.
SavePage ==
  /\ pc = "run" /\ Save("run")
  /\ data' \in {d \in Data : d.own # "zeros" \/ data.own = "zeros"}
  /\ UNCHANGED <<rtc, memory, up, flash, settings, digest, failed, err, observer,
                 faults>>

\* handle_setup keeps what was entered in RAM until the WiFi has come up.
SetupPage ==
  /\ pc = "run" /\ \E u \in Users : data' = [own |-> u, other |-> data.other]
  /\ UNCHANGED <<pc, after, rtc, memory, up, flash, settings, digest, failed, err,
                 observer, faults>>

\* SaveTaskSettings, SaveControllerSettings and others: one write to config.dat.
SaveArea ==
  /\ pc = "run" /\ flashGuard
  /\ UNCHANGED <<pc, after, up, flash, ram, err, faults>>

LoadCommand ==
  /\ pc = "run" /\ LoadSettings
  /\ UNCHANGED <<pc, after, rtc, memory, up, flash, err, observer, faults>>

StopWatching == watching' = FALSE /\ ticks' = 0 /\ written' = 0

\* runOncePerSecond, and the observer's clock.
Tick ==
  /\ pc = "run"
  /\ IF up + 1 > Day
     THEN up' = 0 /\ day' = 0 /\ resets' = resets /\ saveToRTC
     ELSE up' = up + 1 /\ UNCHANGED <<rtc, memory>>
  /\ IF watching /\ ticks < Day
     THEN ticks' = ticks + 1 /\ UNCHANGED <<watching, written>>
     ELSE StopWatching
  /\ UNCHANGED <<pc, after, flash, ram, err, faults>>

\* The command reset and the reset pin; both restart a node that refuses.
ResetCommand == pc = "run" /\ ResetFactory("reboot")

\* Commands that forget the count, which is what they are for.
ClearRTC ==
  /\ pc = "run"
  /\ \/ SetRTC(0, 0) /\ saveToRTC
     \/ day' = 0 /\ UNCHANGED <<resets, memory>>
  /\ StopWatching
  /\ UNCHANGED <<pc, after, up, flash, ram, err>>
-----------------------------------------------------------------------------
(* The surroundings.                                                         *)

\* A watchdog or an exception.
Crash == Restarts /\ UNCHANGED <<memory, flash, observer>>

\* A file is written front to back: version before build, the digest last.
CutShort == {settings, [version |-> settings.version, build |-> config.build]}
Torn(file) == [data |-> [own |-> data.own, other |-> file.data.other],
               digest |-> file.digest]

PowerFails ==
  /\ Restarts
  /\ warm' = FALSE /\ StopWatching
  /\ fs' \in {fs, "dead"} \cup (IF fs = "ok" THEN {"corrupt"} ELSE {})
  /\ \/ UNCHANGED <<config, security, torn>>
     \/ pc = "saveConfig" /\ Written("config")
        /\ config' \in CutShort /\ UNCHANGED <<security, torn>>
     \/ pc = "saveSecurity" /\ data # digest /\ Written("security")
        /\ security' = Torn(security) /\ torn' = TRUE /\ UNCHANGED config
  /\ UNCHANGED <<storedDay, storedResets, files>>

Observe ==
  /\ ~watching /\ warm
  /\ watching' = TRUE /\ UNCHANGED <<ticks, written>>
  /\ UNCHANGED <<pc, after, rtc, memory, up, flash, ram, err, faults>>

Fault ==
  /\ faults < MaxFaults /\ faults' = faults + 1
  /\ ResetCommand \/ ClearRTC \/ Crash \/ PowerFails

Init ==
  /\ pc = "run" /\ after = "run"
  /\ day = 0 /\ resets = 0 /\ up = 0
  /\ warm = TRUE /\ storedDay = 0 /\ storedResets = 0
  /\ fs = "ok" /\ files = {"config", "security", "notification", "rules"}
  /\ config = Valid /\ settings = Valid
  /\ data \in {d \in Data : d.own # "zeros"} /\ digest = data
  /\ security = [data |-> data, digest |-> data]
  /\ err = FALSE /\ failed = FALSE /\ torn = FALSE
  /\ watching = FALSE /\ ticks = 0 /\ written = 0 /\ faults = 0

Next ==
  \/ Boot
  \/ SaveSettings \/ SavePage \/ SetupPage \/ SaveArea \/ LoadCommand \/ Tick
  \/ Fault \/ Observe

Spec == Init /\ [][Next]_vars /\ WF_vars(Boot)
-----------------------------------------------------------------------------
ControlOK ==
  /\ pc \in {"run", "saveConfig", "saveSecurity", "initConfig", "initSecurity",
             "initNotification", "initRules", "defaults", "controller", "reboot",
             "start", "rtc", "mount", "load", "version", "build"}
  /\ after \in {"run", "controller", "reboot"}
  /\ fs \in {"ok", "corrupt", "dead"}
  /\ files \subseteq {"config", "security", "notification", "rules"}

ContentOK ==
  /\ config \in Versions /\ settings \in Versions
  /\ security \in [data : Data, digest : Data \cup {NoDigest}]
  /\ data \in Data /\ digest \in Data \cup {NoDigest}

FlagsOK ==
  /\ warm \in BOOLEAN /\ watching \in BOOLEAN
  /\ err \in BOOLEAN /\ failed \in BOOLEAN /\ torn \in BOOLEAN

CountersOK ==
  /\ day \in 0 .. MaxWrites + 1 /\ storedDay \in 0 .. MaxWrites + 1
  /\ resets \in 0 .. 3 /\ storedResets \in 0 .. 3
  /\ up \in 0 .. Day /\ ticks \in 0 .. Day
  /\ written \in Nat /\ faults \in 0 .. MaxFaults

TypeOK == ControlOK /\ ContentOK /\ FlagsOK /\ CountersOK

\* Over any day between two power failures or commands that clear the counters the
\* guard lets at most two days' worth of writes through, whatever restarts and
\* factory resets come in between (it refuses once the count is past the limit).
FlashIsSpared == watching => written <= 2 * (MaxWrites + 1)

\* A save that reports no error has the security settings in the file, as long as
\* no write of them failed since they were loaded or was cut short.
SavesAreSaved ==
  [][pc = "saveSecurity" /\ pc' = "run" /\ ~err' /\ ~failed /\ ~torn
       => Opens("security")' /\ security'.data = data]_vars

\* A start-up ends with settings of this version, unless the flash is dead or the
\* limit of factory resets is reached.
StartsWithSettings ==
  [][pc = "build" /\ pc' \in {"run", "saveConfig"} /\ fs # "dead"
       => settings.version \/ resets = 3]_vars

\* Whatever was lost, the node gets to its main loop: there is no endless chain of
\* factory resets and restarts.
StartsUp == pc = "start" ~> pc = "run"

\* The flash guard never refuses a write of a factory reset ("we dont want to hit a
\* flash-count limit during reset").
ResetIsNotRefused ==
  pc \in {"initConfig", "initSecurity", "initNotification", "initRules"} => ~Guards

\* A factory reset that reports no error leaves the defaults in security.dat.
ResetToDefaults ==
  [][pc = "saveSecurity" /\ pc' \in {"controller", "reboot"} /\ ~err'
       => security'.data = [own |-> "default", other |-> "zeros"]]_vars
=============================================================================
