--------------------------- MODULE EspStorageProofs -------------------------
(***************************************************************************)
(* Proofs about the settings, for every number of writes a day, every      *)
(* length of the day and every number of faults.                           *)
(***************************************************************************)
EXTENDS EspStorage, TLAPS

Most == MaxWrites + 1 \* writes until the guard refuses

\* RAM does not hold the counters yet.
Early == {"start", "rtc"}

CounterTypes ==
  /\ day \in 0 .. Most /\ storedDay \in 0 .. Most
  /\ warm \in BOOLEAN /\ watching \in BOOLEAN
  /\ up \in 0 .. Day /\ ticks \in 0 .. Day /\ written \in Nat

\* The count has not started again since the observer began.
Counting ==
  /\ written <= storedDay
  /\ pc \notin Early => written <= day

\* It has started again once; it cannot do so a second time before the day of the
\* observer is over.
CountingAgain ==
  /\ up <= ticks
  /\ written <= Most + storedDay
  /\ pc \notin Early => written <= Most + day

\* Inductive.
FlashInv ==
  /\ CounterTypes
  /\ watching => warm /\ (Counting \/ CountingAgain)

\* Steps that leave counters and observer alone.
LEMMA FlashQuiet ==
  ASSUME FlashInv, UNCHANGED <<rtc, memory, up, observer>>,
         pc' \notin Early => pc \notin Early
  PROVE  FlashInv'
BY DEF FlashInv, CounterTypes, Counting, CountingAgain, Early, rtc, memory, observer

\* A write that the guard lets through or refuses.
LEMMA FlashGuarded ==
  ASSUME FlashInv, flashGuard, UNCHANGED up, pc \notin Early
  PROVE  FlashInv'
<1>1. CASE Guards
  <2>1. UNCHANGED <<rtc, memory, up, observer>>
    BY <1>1 DEF flashGuard
  <2> QED BY <2>1, FlashQuiet
<1>2. CASE ~Guards
  <2>1. /\ day' = day + 1 /\ storedDay' = day + 1 /\ warm' = TRUE
        /\ written' = (IF watching THEN written + 1 ELSE written)
        /\ watching' = watching /\ ticks' = ticks /\ up' = up
        /\ day + 1 <= Most /\ day \in Nat
    BY <1>2, StorageAssumption
       DEF flashGuard, flashCount, saveToRTC, Guards, FlashInv, CounterTypes, Most
  <2>2. CounterTypes'
    BY <2>1, StorageAssumption DEF FlashInv, CounterTypes, Most
  <2>3. ASSUME watching, Counting PROVE Counting'
    BY <2>1, <2>3 DEF Counting, FlashInv, CounterTypes
  <2>4. ASSUME watching, CountingAgain PROVE CountingAgain'
    BY <2>1, <2>4, StorageAssumption DEF CountingAgain, FlashInv, CounterTypes, Most
  <2> QED BY <2>1, <2>2, <2>3, <2>4 DEF FlashInv
<1> QED BY <1>1, <1>2

\* Counters that are read back from RTC memory, or cleared when it is empty.
LEMMA FlashRestored ==
  ASSUME FlashInv, UNCHANGED <<up, observer>>,
         day' = IF warm THEN storedDay ELSE 0,
         storedDay' = day' \/ (warm /\ storedDay' = storedDay),
         warm' = TRUE
  PROVE  FlashInv'
<1>1. CounterTypes'
  BY StorageAssumption DEF FlashInv, CounterTypes, Most, observer
<1>2. ASSUME watching PROVE Counting' \/ CountingAgain'
  <2>1. warm /\ day' = storedDay /\ storedDay' = storedDay
    BY <1>2 DEF FlashInv
  <2>2. Counting => Counting'
    BY <2>1 DEF Counting, observer
  <2>3. CountingAgain => CountingAgain'
    BY <2>1 DEF CountingAgain, observer, Most
  <2> QED BY <1>2, <2>2, <2>3 DEF FlashInv
<1> QED BY <1>1, <1>2 DEF FlashInv, observer

\* A factory reset reads the counters and never clears those of the writes.
LEMMA FlashReset ==
  ASSUME NEW return, FlashInv, ResetFactory(return)
  PROVE  FlashInv'
<1>1. UNCHANGED <<up, observer>>
  BY DEF ResetFactory
<1>2. CASE RefuseReset(return)
  BY <1>1, <1>2, FlashRestored DEF RefuseReset, SetRTC, memory
<1>3. CASE ~RefuseReset(return)
  <2>1. (IF warm THEN SetRTC(storedDay, storedResets + 1) ELSE SetRTC(0, 1)) /\ saveToRTC
    BY <1>3 DEF ResetFactory, Format
  <2>2. day' = (IF warm THEN storedDay ELSE 0) /\ storedDay' = day' /\ warm' = TRUE
    BY <2>1 DEF SetRTC, saveToRTC
  <2> QED BY <1>1, <2>2, FlashRestored
<1> QED BY <1>2, <1>3

\* A restart forgets the uptime, and keeps RTC memory while power is there.
LEMMA FlashRestart ==
  ASSUME FlashInv, Restarts, UNCHANGED <<memory, observer>>
  PROVE  FlashInv'
<1>1. CounterTypes'
  BY StorageAssumption DEF FlashInv, CounterTypes, Most, Restarts, SetRTC, memory, observer
<1>2. Counting => Counting'
  BY DEF Counting, Restarts, Early, memory, observer
<1>3. watching /\ CountingAgain => CountingAgain'
  BY DEF CountingAgain, FlashInv, CounterTypes, Restarts, Early, memory, observer, Most
<1> QED BY <1>1, <1>2, <1>3 DEF FlashInv, memory, observer

\* The uptime starts the count again, at most once in a day of the observer.
LEMMA FlashTick == ASSUME FlashInv, Tick PROVE FlashInv'
<1>1. pc = "run" /\ pc' = "run" /\ written \in Nat /\ up \in 0 .. Day /\ ticks \in 0 .. Day
  BY DEF Tick, FlashInv, CounterTypes
<1>2. CASE watching /\ ticks < Day
  <2>1. ticks' = ticks + 1 /\ watching' /\ written' = written /\ ticks + 1 \in 0 .. Day
    BY <1>1, <1>2, StorageAssumption DEF Tick
  <2>2. CASE up + 1 > Day
    <3>1. up' = 0 /\ day' = 0 /\ storedDay' = 0 /\ warm' = TRUE
      BY <2>2 DEF Tick, saveToRTC
    <3>2. ~CountingAgain
      BY <1>1, <1>2, <2>2, StorageAssumption DEF CountingAgain
    <3>3. written <= Most
      BY <1>1, <1>2, <3>2, StorageAssumption
         DEF FlashInv, CounterTypes, Counting, Early, Most
    <3>4. CountingAgain'
      BY <1>1, <2>1, <3>1, <3>3, StorageAssumption DEF CountingAgain, Most
    <3>5. CounterTypes'
      BY <1>1, <2>1, <3>1, StorageAssumption DEF CounterTypes, FlashInv, Most
    <3> QED BY <3>1, <3>4, <3>5 DEF FlashInv
  <2>3. CASE ~(up + 1 > Day)
    <3>1. up' = up + 1 /\ UNCHANGED <<rtc, memory>> /\ up + 1 \in 0 .. Day
      BY <1>1, <2>3, StorageAssumption DEF Tick
    <3>2. CounterTypes'
      BY <2>1, <3>1 DEF FlashInv, CounterTypes, rtc, memory
    <3>3. Counting => Counting'
      BY <1>1, <2>1, <3>1 DEF Counting, rtc, memory
    <3>4. CountingAgain => CountingAgain'
      BY <1>1, <2>1, <3>1, StorageAssumption DEF CountingAgain, rtc, memory, Most
    <3> QED BY <1>2, <3>1, <3>2, <3>3, <3>4 DEF FlashInv, memory
  <2> QED BY <2>2, <2>3
<1>3. CASE ~(watching /\ ticks < Day)
  <2>1. ~watching' /\ watching' \in BOOLEAN /\ ticks' = 0 /\ written' = 0
    BY <1>3 DEF Tick, StopWatching
  <2>2. up' \in 0 .. Day
    BY <1>1, StorageAssumption DEF Tick
  <2>3. \/ day' = 0 /\ storedDay' = 0 /\ warm' = TRUE
        \/ day' = day /\ storedDay' = storedDay /\ warm' = warm
    BY DEF Tick, saveToRTC, rtc, memory
  <2>5. day' \in 0 .. Most /\ storedDay' \in 0 .. Most
    BY <2>3, StorageAssumption DEF FlashInv, CounterTypes, Most
  <2>6. warm' \in BOOLEAN
    BY <2>3 DEF FlashInv, CounterTypes
  <2>4. 0 \in 0 .. Day /\ 0 \in Nat
    BY StorageAssumption
  <2> QED BY <2>1, <2>2, <2>4, <2>5, <2>6 DEF FlashInv, CounterTypes
<1> QED BY <1>2, <1>3

\* Steps in which the observer gives up, or only begins.
LEMMA FlashUnwatched ==
  ASSUME FlashInv, StopWatching, UNCHANGED up,
         day' = 0, warm' \in BOOLEAN, storedDay' \in {0, storedDay}
  PROVE  FlashInv'
<1>1. 0 \in 0 .. Day /\ 0 \in 0 .. Most /\ 0 \in Nat
  BY StorageAssumption DEF Most
<1>2. storedDay' \in 0 .. Most
  BY <1>1 DEF FlashInv, CounterTypes
<1> QED BY <1>1, <1>2 DEF FlashInv, CounterTypes, StopWatching

\* An observer who begins has seen nothing.
LEMMA FlashObserved ==
  ASSUME FlashInv, ~watching => written = 0, Observe
  PROVE  FlashInv'
<1>1. /\ watching' = TRUE /\ written' = 0 /\ ticks' = ticks /\ warm
      /\ UNCHANGED <<pc, day, storedDay, warm, up>>
  BY DEF Observe, rtc, memory
<1>2. CounterTypes'
  BY <1>1 DEF FlashInv, CounterTypes
<1>3. Counting'
  <2>1. 0 <= day /\ 0 <= storedDay
    BY DEF FlashInv, CounterTypes, Most
  <2> QED BY <1>1, <2>1 DEF Counting
<1> QED BY <1>1, <1>2, <1>3 DEF FlashInv

\* Init starts with counters of zero and no observer.
LEMMA FlashInit == Init => FlashInv
<1>1. 0 \in 0 .. Day /\ 0 \in 0 .. Most /\ 0 \in Nat
  BY StorageAssumption DEF Most
<1> QED BY <1>1 DEF Init, FlashInv, CounterTypes

\* What the observer keeps while not watching.
Unwatched == ~watching => written = 0

\* The start-up, the saves and the factory reset.
LEMMA FlashBoot == ASSUME FlashInv, Boot PROVE FlashInv'
<1>1. CASE SaveConfig
  BY <1>1, FlashGuarded DEF SaveConfig, Early
<1>2. CASE SameSecurity
  BY <1>2, FlashQuiet DEF SameSecurity, Early
<1>3. CASE SaveSecurity
  BY <1>3, FlashGuarded DEF SaveSecurity, Early
<1>4. CASE InitConfig
  BY <1>4, FlashGuarded DEF InitConfig, InitFile, Early
<1>5. CASE InitSecurity
  BY <1>5, FlashGuarded DEF InitSecurity, InitFile, Early
<1>6. CASE InitNotification
  BY <1>6, FlashGuarded DEF InitNotification, InitFile, Early
<1>7. CASE InitRules
  BY <1>7, FlashGuarded DEF InitRules, InitFile, Early
<1>8. CASE SetDefaults
  BY <1>8, FlashQuiet DEF SetDefaults, Early
<1>9. CASE Reboot
  BY <1>9, FlashRestart DEF Reboot
<1>10. CASE Start
  <2>1. CASE pc' = "rtc" /\ UNCHANGED <<rtc, memory, up, observer>>
    BY <2>1, FlashQuiet DEF Early
  <2>2. CASE ResetFactory("rtc")
    BY <2>2, FlashReset
  <2> QED BY <1>10, <2>1, <2>2 DEF Start
<1>11. CASE ReadRTC
  <2>1. /\ day' = (IF warm THEN storedDay ELSE 0) /\ storedDay' = day' /\ warm' = TRUE
        /\ UNCHANGED <<up, observer>>
    BY <1>11 DEF ReadRTC, SetRTC, saveToRTC
  <2> QED BY <2>1, FlashRestored
<1>12. CASE fileSystemCheck
  <2>1. CASE Opens("config")
    BY <1>12, <2>1, FlashQuiet DEF fileSystemCheck, Early
  <2>2. CASE ~Opens("config")
    BY <1>12, <2>2, FlashReset DEF fileSystemCheck
  <2> QED BY <2>1, <2>2
<1>13. CASE Load
  BY <1>13, FlashQuiet DEF Load, Early
<1>14. CASE CheckVersion
  <2>1. CASE settings.version
    BY <1>14, <2>1, FlashQuiet DEF CheckVersion, Early
  <2>2. CASE ~settings.version
    BY <1>14, <2>2, FlashReset DEF CheckVersion
  <2> QED BY <2>1, <2>2
<1>15. CASE BuildFixes
  BY <1>15, FlashQuiet DEF BuildFixes, Early
<1>16. CASE SetDefaultController
  BY <1>16, FlashGuarded DEF SetDefaultController, Early
<1> QED BY <1>1, <1>2, <1>3, <1>4, <1>5, <1>6, <1>7, <1>8, <1>9, <1>10, <1>11,
           <1>12, <1>13, <1>14, <1>15, <1>16 DEF Boot

\* Resets, failures and commands that clear the counters.
LEMMA FlashFault == ASSUME FlashInv, Fault PROVE FlashInv'
<1>1. CASE ResetCommand
  BY <1>1, FlashReset DEF ResetCommand
<1>2. CASE ClearRTC
  <2>1. StopWatching /\ UNCHANGED up /\ day' = 0
    BY <1>2 DEF ClearRTC, SetRTC
  <2>2. warm' \in BOOLEAN /\ storedDay' \in {0, storedDay}
    BY <1>2, <2>1 DEF ClearRTC, saveToRTC, memory, FlashInv, CounterTypes
  <2> QED BY <2>1, <2>2, FlashUnwatched
<1>3. CASE Crash
  BY <1>3, FlashRestart DEF Crash
<1>4. CASE PowerFails
  <2>1. StopWatching /\ up' = 0 /\ day' = 0 /\ warm' = FALSE /\ storedDay' = storedDay
    BY <1>4 DEF PowerFails, Restarts, SetRTC
  <2>2. 0 \in 0 .. Day /\ 0 \in 0 .. Most /\ 0 \in Nat
    BY StorageAssumption DEF Most
  <2> QED BY <2>1, <2>2 DEF FlashInv, CounterTypes, StopWatching
<1> QED BY <1>1, <1>2, <1>3, <1>4 DEF Fault

\* Only an observer who watches counts.
LEMMA WatchNext == ASSUME Unwatched, [Next]_vars PROVE Unwatched'
<1>1. CASE UNCHANGED observer
  BY <1>1 DEF Unwatched, observer
<1>2. CASE flashGuard
  BY <1>2, <1>1 DEF flashGuard, flashCount, Unwatched
<1>3. CASE StopWatching
  BY <1>3 DEF StopWatching, Unwatched
<1>4. CASE Tick
  BY <1>4, <1>3 DEF Tick, Unwatched
<1>5. CASE Observe
  BY <1>5 DEF Observe, Unwatched
<1>6. ASSUME Boot PROVE UNCHANGED observer \/ flashGuard
  <2>1. ASSUME NEW r, ResetFactory(r) PROVE UNCHANGED observer
    BY <2>1 DEF ResetFactory
  <2>2. CASE SaveConfig \/ SaveSecurity \/ InitConfig \/ InitSecurity
             \/ InitNotification \/ InitRules \/ SetDefaultController
    BY <2>2 DEF SaveConfig, SaveSecurity, InitConfig, InitSecurity, InitNotification,
                InitRules, InitFile, SetDefaultController
  <2>3. CASE SameSecurity \/ SetDefaults \/ Reboot \/ ReadRTC \/ Load \/ BuildFixes
    BY <2>3 DEF SameSecurity, SetDefaults, Reboot, ReadRTC, Load, BuildFixes
  <2>4. CASE Start \/ fileSystemCheck \/ CheckVersion
    BY <2>1, <2>4 DEF Start, fileSystemCheck, CheckVersion
  <2> QED BY <1>6, <2>2, <2>3, <2>4 DEF Boot
<1>7. ASSUME Fault PROVE UNCHANGED observer \/ StopWatching
  <2>1. CASE ResetCommand
    BY <2>1 DEF ResetCommand, ResetFactory
  <2>2. CASE ClearRTC \/ Crash \/ PowerFails
    BY <2>2 DEF ClearRTC, Crash, PowerFails
  <2> QED BY <1>7, <2>1, <2>2 DEF Fault
<1>8. CASE SaveSettings \/ SavePage \/ SetupPage \/ LoadCommand
  BY <1>1, <1>8 DEF SaveSettings, SavePage, SetupPage, LoadCommand
<1>9. CASE SaveArea
  BY <1>2, <1>9 DEF SaveArea
<1>10. CASE UNCHANGED vars
  BY <1>1, <1>10 DEF vars
<1> QED BY <1>1, <1>2, <1>3, <1>4, <1>5, <1>6, <1>7, <1>8, <1>9, <1>10 DEF Next

\* Every step keeps the invariant.
LEMMA FlashNext == ASSUME FlashInv, Unwatched, [Next]_vars PROVE FlashInv'
<1>1. CASE Boot
  BY <1>1, FlashBoot
<1>2. CASE Fault
  BY <1>2, FlashFault
<1>3. CASE SaveSettings \/ SavePage \/ SetupPage \/ LoadCommand
  BY <1>3, FlashQuiet DEF SaveSettings, SavePage, SetupPage, LoadCommand, Early
<1>4. CASE SaveArea
  BY <1>4, FlashGuarded DEF SaveArea, Early
<1>5. CASE Tick
  BY <1>5, FlashTick
<1>6. CASE Observe
  BY <1>6, FlashObserved DEF Unwatched
<1>7. CASE UNCHANGED vars
  BY <1>7, FlashQuiet DEF vars
<1> QED BY <1>1, <1>2, <1>3, <1>4, <1>5, <1>6, <1>7 DEF Next

\* Any day sees at most two days' worth of writes (the permitted number and one, twice),
\* however the node restarts and whatever it resets (ESPEasyStorage.ino:20-39,
\* ESPEasy.ino:595-603, Misc.ino:618-643).
THEOREM AtMostTwice == Spec => []FlashIsSpared
<1>1. Init => FlashInv /\ Unwatched
  BY FlashInit DEF Init, Unwatched
<1>2. FlashInv /\ Unwatched /\ [Next]_vars => (FlashInv /\ Unwatched)'
  BY FlashNext, WatchNext
<1>3. FlashInv => FlashIsSpared
  BY StorageAssumption
     DEF FlashInv, CounterTypes, Counting, CountingAgain, FlashIsSpared, Most, Early
<1> QED BY <1>1, <1>2, <1>3, PTL DEF Spec
-----------------------------------------------------------------------------
(* Types.                                                                    *)

\* The values every step chooses from.
LEMMA ContentOf ==
  /\ Zeros \in Data /\ NoDigest \notin Data
  /\ \A d \in Data : [own |-> "default", other |-> d.other] \in Data
  /\ \A d \in Data, u \in Users : [own |-> u, other |-> d.other] \in Data
  /\ \A d, e \in Data : [own |-> d.own, other |-> e.other] \in Data
  /\ Valid \in Versions /\ Cleared \in Versions
  /\ \A v \in Versions : [v EXCEPT !.build = TRUE] \in Versions
  /\ \A v, w \in Versions : [version |-> v.version, build |-> w.build] \in Versions
BY StorageAssumption DEF Zeros, NoDigest, Data, Valid, Cleared, Versions

\* Steps that leave the contents of files and RAM alone.
LEMMA ContentQuiet ==
  ASSUME ContentOK, UNCHANGED <<config, security, settings, data, digest>>
  PROVE  ContentOK'
BY DEF ContentOK

\* Loading takes what the files hold.
LEMMA ContentLoaded ==
  ASSUME ContentOK, LoadSettings, UNCHANGED <<config, security>>
  PROVE  ContentOK'
<1>1. security.data \in Data /\ security.digest \in Data \cup {NoDigest}
  BY DEF ContentOK
<1>2. settings' \in Versions
  BY DEF ContentOK, LoadSettings, ram
<1>3. data' \in Data /\ digest' \in Data \cup {NoDigest}
  BY <1>1 DEF ContentOK, LoadSettings, ram
<1> QED BY <1>2, <1>3 DEF ContentOK

\* A reset of the processor.
LEMMA ContentRestarted ==
  ASSUME ContentOK, Restarts, config' \in Versions,
         security' \in [data : Data, digest : Data \cup {NoDigest}]
  PROVE  ContentOK'
BY ContentOf DEF ContentOK, Restarts

\* The start-up, the saves and the factory reset.
LEMMA ContentBoot == ASSUME ContentOK, Boot PROVE ContentOK'
<1>1. CASE SaveConfig
  BY <1>1 DEF SaveConfig, ram, ContentOK
<1>2. CASE SaveSecurity
  <2>1. security' = security \/ security' = [data |-> data, digest |-> data]
    BY <1>2 DEF SaveSecurity
  <2>2. security' \in [data : Data, digest : Data \cup {NoDigest}]
    BY <2>1 DEF ContentOK
  <2> QED BY <1>2, <2>2 DEF SaveSecurity, ContentOK
<1>3. CASE InitConfig
  BY <1>3, ContentOf DEF InitConfig, InitFile, ram, ContentOK
<1>4. CASE InitSecurity
  <2>1. security' = security \/ security' = [data |-> Zeros, digest |-> NoDigest]
    BY <1>4 DEF InitSecurity
  <2>2. security' \in [data : Data, digest : Data \cup {NoDigest}]
    BY <2>1, ContentOf DEF ContentOK
  <2> QED BY <1>4, <2>2 DEF InitSecurity, InitFile, ram, ContentOK
<1>5. CASE InitNotification \/ InitRules
  BY <1>5, ContentQuiet DEF InitNotification, InitRules, InitFile, ram
<1>6. CASE SetDefaults
  BY <1>6, ContentOf DEF SetDefaults, flash, ContentOK
<1>7. CASE Reboot
  BY <1>7, ContentRestarted DEF Reboot, flash, ContentOK
<1>8. CASE SameSecurity \/ ReadRTC \/ SetDefaultController
  BY <1>8, ContentQuiet DEF SameSecurity, ReadRTC, SetDefaultController, flash, ram
<1>9. CASE Start \/ fileSystemCheck \/ CheckVersion
  <2>1. UNCHANGED <<config, security, settings, data, digest>>
    BY <1>9 DEF Start, fileSystemCheck, CheckVersion, ResetFactory, flash, ram
  <2> QED BY <2>1, ContentQuiet
<1>10. CASE Load
  BY <1>10, ContentLoaded DEF Load, flash
<1>11. CASE BuildFixes
  BY <1>11, ContentOf DEF BuildFixes, ContentOK
<1> QED BY <1>1, <1>2, <1>3, <1>4, <1>5, <1>6, <1>7, <1>8, <1>9, <1>10, <1>11 DEF Boot

\* Every step keeps what files and RAM hold in its range.
LEMMA ContentNext == ASSUME ContentOK, [Next]_vars PROVE ContentOK'
<1>1. CASE Boot
  BY <1>1, ContentBoot
<1>2. CASE SaveSettings \/ SaveArea \/ Tick \/ Observe \/ UNCHANGED vars
  BY <1>2, ContentQuiet DEF SaveSettings, SaveArea, Tick, Observe, flash, ram, vars
<1>3. CASE SavePage
  BY <1>3 DEF SavePage, flash, ContentOK
<1>4. CASE SetupPage
  BY <1>4, ContentOf DEF SetupPage, flash, ContentOK
<1>5. CASE LoadCommand
  BY <1>5, ContentLoaded DEF LoadCommand, flash
<1>6. CASE Fault
  <2>1. CASE ResetCommand \/ ClearRTC
    BY <2>1, ContentQuiet DEF ResetCommand, ResetFactory, ClearRTC, flash, ram
  <2>2. CASE Crash
    BY <2>2, ContentRestarted DEF Crash, flash, ContentOK
  <2>3. CASE PowerFails
    <3>1. security.data \in Data /\ security.digest \in Data \cup {NoDigest} /\ data \in Data
      BY DEF ContentOK
    <3>2. Torn(security) \in [data : Data, digest : Data \cup {NoDigest}]
      BY <3>1, ContentOf DEF Torn
    <3>3. security' \in [data : Data, digest : Data \cup {NoDigest}]
      BY <2>3, <3>2 DEF PowerFails, ContentOK
    <3>4. CutShort \subseteq Versions
      BY ContentOf DEF CutShort, ContentOK
    <3>5. config' \in Versions
      BY <2>3, <3>4 DEF PowerFails, ContentOK
    <3> QED BY <2>3, <3>3, <3>5, ContentRestarted DEF PowerFails
  <2> QED BY <1>6, <2>1, <2>2, <2>3 DEF Fault
<1> QED BY <1>1, <1>2, <1>3, <1>4, <1>5, <1>6 DEF Next

\* A factory reset ends where it was called or goes on to make new files.
LEMMA ControlReset ==
  ASSUME NEW return, ResetFactory(return)
  PROVE  /\ \/ pc' = return /\ UNCHANGED <<fs, files>>
            \/ pc' = "initConfig" /\ fs' = "ok" /\ files' = {}
         /\ after' = after
BY DEF ResetFactory, RefuseReset, Format

\* The next step of every step exists.
LEMMA ControlNext == ASSUME ControlOK, [Next]_vars PROVE ControlOK'
<1>1. CASE SaveConfig \/ SameSecurity \/ SaveSecurity
  BY <1>1 DEF SaveConfig, SameSecurity, SaveSecurity, flash, ControlOK
<1>2. CASE InitConfig \/ InitSecurity \/ InitNotification \/ InitRules
  BY <1>2 DEF InitConfig, InitSecurity, InitNotification, InitRules, InitFile, ControlOK
<1>3. CASE SetDefaults \/ SetDefaultController \/ Reboot \/ ReadRTC \/ Load \/ BuildFixes
  BY <1>3 DEF SetDefaults, SetDefaultController, Reboot, Restarts, ReadRTC, Load,
              BuildFixes, Save, flash, ControlOK
<1>4. CASE Start \/ fileSystemCheck \/ CheckVersion
  BY <1>4, ControlReset DEF Start, fileSystemCheck, CheckVersion, flash, ControlOK
<1>5. CASE SaveSettings \/ SavePage \/ SetupPage \/ SaveArea \/ LoadCommand \/ Tick \/ Observe
  BY <1>5 DEF SaveSettings, SavePage, SetupPage, SaveArea, LoadCommand, Tick, Observe,
              Save, flash, ControlOK
<1>6. CASE Fault
  <2>1. CASE ResetCommand
    BY <2>1, ControlReset DEF ResetCommand, ControlOK
  <2>2. CASE ClearRTC \/ Crash \/ PowerFails
    BY <2>2 DEF ClearRTC, Crash, PowerFails, Restarts, flash, ControlOK
  <2> QED BY <1>6, <2>1, <2>2 DEF Fault
<1>7. CASE UNCHANGED vars
  BY <1>7 DEF vars, flash, ControlOK
<1> QED BY <1>1, <1>2, <1>3, <1>4, <1>5, <1>6, <1>7 DEF Next, Boot

\* A factory reset counts itself, up to three, and touches no flag but warm.
LEMMA CountersReset ==
  ASSUME NEW return, CountersOK, FlagsOK, ResetFactory(return)
  PROVE  /\ day' \in 0 .. MaxWrites + 1 /\ storedDay' \in 0 .. MaxWrites + 1
         /\ resets' \in 0 .. 3 /\ storedResets' \in 0 .. 3 /\ warm' \in BOOLEAN
         /\ UNCHANGED <<up, watching, ticks, written, err, failed, torn>>
<1>1. UNCHANGED <<up, watching, ticks, written, err, failed, torn>>
  BY DEF ResetFactory, ram, observer
<1>2. CASE RefuseReset(return)
  BY <1>1, <1>2 DEF RefuseReset, SetRTC, memory, CountersOK, FlagsOK
<1>3. CASE ~RefuseReset(return)
  <2>1. /\ warm => storedResets < 3
        /\ IF warm THEN SetRTC(storedDay, storedResets + 1) ELSE SetRTC(0, 1)
        /\ saveToRTC
    BY <1>3 DEF ResetFactory, Format
  <2>2. /\ day' \in {0, storedDay} /\ storedDay' = day'
        /\ resets' \in 0 .. 3 /\ storedResets' = resets' /\ warm' = TRUE
    BY <2>1 DEF SetRTC, saveToRTC, CountersOK
  <2> QED BY <1>1, <2>2, StorageAssumption DEF CountersOK
<1> QED BY <1>2, <1>3

\* A write counts itself as long as the guard lets it through.
LEMMA CountersGuarded ==
  ASSUME CountersOK, FlagsOK, flashGuard
  PROVE  /\ day' \in 0 .. MaxWrites + 1 /\ storedDay' \in 0 .. MaxWrites + 1
         /\ resets' \in 0 .. 3 /\ storedResets' \in 0 .. 3
         /\ warm' \in BOOLEAN /\ watching' = watching
         /\ ticks' = ticks /\ written' \in Nat
<1>1. CASE Guards
  BY <1>1 DEF flashGuard, rtc, memory, observer, CountersOK, FlagsOK
<1>2. CASE ~Guards
  <2>1. flashCount /\ day <= MaxWrites
    BY <1>2, StorageAssumption DEF flashGuard, Guards, CountersOK
  <2>2. /\ day' = day + 1 /\ storedDay' = day' /\ resets' = resets
        /\ storedResets' = resets /\ warm' = TRUE
        /\ watching' = watching /\ ticks' = ticks
        /\ written' \in {written, written + 1}
    BY <2>1 DEF flashCount, saveToRTC
  <2> QED BY <2>1, <2>2, StorageAssumption DEF CountersOK
<1> QED BY <1>1, <1>2

\* The start-up, the saves and the factory reset.
LEMMA CountersBoot ==
  ASSUME CountersOK, FlagsOK, Boot
  PROVE  CountersOK' /\ FlagsOK'
<1>1. CASE flashGuard /\ UNCHANGED <<up, faults>>
           /\ err' \in BOOLEAN /\ failed' \in BOOLEAN /\ torn' \in BOOLEAN
  BY <1>1, CountersGuarded DEF CountersOK, FlagsOK
<1>2. CASE SaveConfig \/ SaveSecurity
  BY <1>1, <1>2 DEF SaveConfig, SaveSecurity, ram, FlagsOK
<1>3. CASE InitConfig \/ InitSecurity \/ InitNotification \/ InitRules
  BY <1>1, <1>3 DEF InitConfig, InitSecurity, InitNotification, InitRules, InitFile, ram,
                    FlagsOK
<1>9. CASE SetDefaultController
  BY <1>1, <1>9 DEF SetDefaultController, flash, ram, FlagsOK
<1>4. CASE SameSecurity \/ SetDefaults \/ Load \/ BuildFixes
  <2>1. UNCHANGED <<day, resets, warm, storedDay, storedResets, up, watching, ticks,
                    written, faults, torn>>
    BY <1>4 DEF SameSecurity, SetDefaults, Load, BuildFixes, rtc, memory, observer, flash
  <2>2. err' \in BOOLEAN /\ failed' \in BOOLEAN
    BY <1>4 DEF SameSecurity, SetDefaults, Load, LoadSettings, BuildFixes, ram, FlagsOK
  <2> QED BY <2>1, <2>2 DEF CountersOK, FlagsOK
<1>5. CASE Reboot
  <2>1. CountersOK'
    BY <1>5, StorageAssumption DEF Reboot, Restarts, SetRTC, memory, observer, CountersOK
  <2>2. FlagsOK'
    BY <1>5 DEF Reboot, Restarts, memory, observer, flash, FlagsOK
  <2> QED BY <2>1, <2>2
<1>6. CASE ReadRTC
  <2>1. /\ day' \in {0, storedDay} /\ resets' \in {0, storedResets}
        /\ storedDay' = day' /\ storedResets' = resets' /\ warm' = TRUE
        /\ UNCHANGED <<up, watching, ticks, written, faults, torn, err, failed>>
    BY <1>6 DEF ReadRTC, SetRTC, saveToRTC, observer, flash, ram
  <2> QED BY <2>1, StorageAssumption DEF CountersOK, FlagsOK
<1>7. CASE Start
  <2>1. CASE UNCHANGED <<rtc, memory, up, flash, ram, err, observer, faults>>
    BY <2>1 DEF rtc, memory, flash, ram, observer, CountersOK, FlagsOK
  <2>2. CASE faults < MaxFaults /\ faults' = faults + 1 /\ ResetFactory("rtc")
    <3>1. faults' \in 0 .. MaxFaults
      BY <2>2, StorageAssumption DEF CountersOK
    <3> QED BY <2>2, <3>1, CountersReset DEF CountersOK, FlagsOK
  <2> QED BY <1>7, <2>1, <2>2 DEF Start
<1>8. CASE fileSystemCheck \/ CheckVersion
  <2>1. CASE UNCHANGED <<rtc, memory, up, flash, ram, err, observer, faults>>
    BY <2>1 DEF rtc, memory, flash, ram, observer, CountersOK, FlagsOK
  <2>2. ASSUME NEW r, ResetFactory(r), UNCHANGED faults PROVE CountersOK' /\ FlagsOK'
    BY <2>2, CountersReset DEF CountersOK, FlagsOK
  <2> QED BY <1>8, <2>1, <2>2 DEF fileSystemCheck, CheckVersion
<1> QED BY <1>2, <1>3, <1>4, <1>5, <1>6, <1>7, <1>8, <1>9 DEF Boot

\* Resets, failures and commands that clear the counters.
LEMMA CountersFault ==
  ASSUME CountersOK, FlagsOK, Fault
  PROVE  CountersOK' /\ FlagsOK'
<1>1. faults' \in 0 .. MaxFaults
  BY StorageAssumption DEF Fault, CountersOK
<1>2. CASE ResetCommand
  BY <1>1, <1>2, CountersReset DEF ResetCommand, CountersOK, FlagsOK
<1>3. CASE ClearRTC
  <2>1. /\ day' = 0 /\ storedDay' \in {0, storedDay}
        /\ resets' \in {0, resets} /\ storedResets' \in {0, storedResets}
        /\ watching' = FALSE /\ ticks' = 0 /\ written' = 0
        /\ UNCHANGED <<up, err, failed, torn>>
    BY <1>3 DEF ClearRTC, SetRTC, saveToRTC, StopWatching, memory, flash, ram
  <2>2. warm' \in BOOLEAN
    BY <1>3 DEF ClearRTC, saveToRTC, memory, FlagsOK
  <2>3. CountersOK'
    BY <1>1, <2>1, StorageAssumption DEF CountersOK
  <2>4. FlagsOK'
    BY <2>1, <2>2 DEF FlagsOK
  <2> QED BY <2>3, <2>4
<1>4. CASE Crash
  <2>1. CountersOK'
    BY <1>1, <1>4, StorageAssumption
       DEF Crash, Restarts, SetRTC, memory, observer, CountersOK
  <2>2. FlagsOK'
    BY <1>4 DEF Crash, Restarts, memory, observer, flash, FlagsOK
  <2> QED BY <2>1, <2>2
<1>5. CASE PowerFails
  <2>1. CountersOK'
    BY <1>1, <1>5, StorageAssumption
       DEF PowerFails, Restarts, SetRTC, StopWatching, CountersOK
  <2>2. FlagsOK'
    BY <1>5 DEF PowerFails, Restarts, StopWatching, FlagsOK
  <2> QED BY <2>1, <2>2
<1> QED BY <1>2, <1>3, <1>4, <1>5 DEF Fault

\* Every step keeps counters and flags in their range.
LEMMA CountersNext ==
  ASSUME CountersOK, FlagsOK, [Next]_vars
  PROVE  CountersOK' /\ FlagsOK'
<1>1. CASE SaveSettings \/ SavePage \/ SetupPage \/ LoadCommand \/ UNCHANGED vars
  <2>1. UNCHANGED <<day, resets, warm, storedDay, storedResets, up, watching, ticks,
                    written, faults, err, torn>>
    BY <1>1 DEF SaveSettings, SavePage, SetupPage, LoadCommand, vars, rtc, memory,
                observer, flash
  <2>2. failed' \in BOOLEAN
    BY <1>1 DEF SaveSettings, SavePage, SetupPage, LoadCommand, LoadSettings, vars, ram,
                FlagsOK
  <2> QED BY <2>1, <2>2 DEF CountersOK, FlagsOK
<1>2. CASE SaveArea
  BY <1>2, CountersGuarded DEF SaveArea, flash, ram, CountersOK, FlagsOK
<1>3. CASE Tick
  <2>1. /\ up' \in 0 .. Day /\ ticks' \in 0 .. Day
    BY <1>3, StorageAssumption DEF Tick, StopWatching, CountersOK
  <2>2. /\ day' \in {0, day} /\ resets' = resets /\ written' \in {0, written}
        /\ storedDay' \in {0, storedDay} /\ storedResets' \in {resets, storedResets}
        /\ UNCHANGED <<faults, err, failed, torn>>
    BY <1>3 DEF Tick, StopWatching, saveToRTC, rtc, memory, flash, ram
  <2>3. warm' \in BOOLEAN /\ watching' \in BOOLEAN
    BY <1>3 DEF Tick, StopWatching, saveToRTC, rtc, memory, FlagsOK
  <2> QED BY <2>1, <2>2, <2>3, StorageAssumption DEF CountersOK, FlagsOK
<1>4. CASE Observe
  BY <1>4 DEF Observe, rtc, memory, flash, ram, CountersOK, FlagsOK
<1> QED BY <1>1, <1>2, <1>3, <1>4, CountersBoot, CountersFault DEF Next

\* Every variable keeps its range: the counters of writes and of factory resets
\* never pass their limits (ESPEasyStorage.ino:20-39, Misc.ino:618-643).
THEOREM TypeCorrect == Spec => []TypeOK
<1>1. Init => TypeOK
  <2>1. Init => ControlOK /\ FlagsOK
    BY DEF Init, ControlOK, FlagsOK
  <2>2. Init => ContentOK
    BY ContentOf DEF Init, ContentOK
  <2>3. Init => CountersOK
    BY StorageAssumption DEF Init, CountersOK
  <2> QED BY <2>1, <2>2, <2>3 DEF TypeOK
<1>2. TypeOK /\ [Next]_vars => TypeOK'
  BY ControlNext, ContentNext, CountersNext DEF TypeOK
<1> QED BY <1>1, <1>2, PTL DEF Spec
-----------------------------------------------------------------------------
(* What a start-up ends with.                                                *)

\* The check of the version lets through only settings of this firmware, a dead
\* flash, or a node that has used up its factory resets.
Checked == pc = "build" => settings.version \/ fs = "dead" \/ resets = 3

\* Only the check of the version leads to the build fixes.
LEMMA CheckedNext == ASSUME TypeOK, Checked, [Next]_vars PROVE Checked'
<1>1. CASE CheckVersion
  <2>1. CASE settings.version
    BY <1>1, <2>1 DEF CheckVersion, ram, Checked
  <2>2. CASE ~settings.version
    <3>1. ResetFactory("build")
      BY <1>1, <2>2 DEF CheckVersion
    <3>2. CASE RefuseReset("build")
      BY <3>2 DEF RefuseReset, SetRTC, memory, TypeOK, CountersOK, Checked
    <3>3. CASE ~RefuseReset("build")
      BY <3>1, <3>3 DEF ResetFactory, Format, Checked
    <3> QED BY <3>2, <3>3
  <2> QED BY <2>1, <2>2
<1>2. CASE pc' # "build"
  BY <1>2 DEF Checked
<1>3. CASE pc' = pc /\ UNCHANGED <<settings, fs, resets>>
  BY <1>3 DEF Checked
<1>4. CASE SaveConfig \/ SameSecurity \/ SaveSecurity
  BY <1>2, <1>4 DEF SaveConfig, SameSecurity, SaveSecurity, TypeOK, ControlOK
<1>5. CASE InitConfig \/ InitSecurity \/ InitNotification \/ InitRules \/ SetDefaults
           \/ SetDefaultController \/ Reboot \/ ReadRTC \/ Load
  BY <1>2, <1>5 DEF InitConfig, InitSecurity, InitNotification, InitRules, InitFile,
                    SetDefaults, SetDefaultController, Save, Reboot, Restarts, ReadRTC, Load
<1>6. CASE Start \/ fileSystemCheck
  BY <1>2, <1>6, ControlReset DEF Start, fileSystemCheck
<1>7. CASE BuildFixes
  BY <1>2, <1>7 DEF BuildFixes, Save
<1>8. CASE SaveSettings \/ SavePage \/ SetupPage \/ SaveArea \/ LoadCommand \/ Tick
  BY <1>2, <1>8 DEF SaveSettings, SavePage, SetupPage, SaveArea, LoadCommand, Tick, Save
<1>9. CASE Fault
  <2>1. CASE ResetCommand
    BY <1>2, <2>1, ControlReset DEF ResetCommand
  <2>2. CASE ClearRTC
    BY <1>2, <2>2 DEF ClearRTC
  <2>3. CASE Crash \/ PowerFails
    BY <1>2, <2>3 DEF Crash, PowerFails, Restarts
  <2> QED BY <1>9, <2>1, <2>2, <2>3 DEF Fault
<1>10. CASE Observe \/ UNCHANGED vars
  BY <1>3, <1>10 DEF Observe, vars, rtc, flash, ram
<1> QED BY <1>1, <1>4, <1>5, <1>6, <1>7, <1>8, <1>9, <1>10 DEF Next, Boot

\* A start-up ends with settings of this firmware, whatever the files held, as long
\* as the flash lives and a factory reset is left (ESPEasy.ino:193-221).
THEOREM StartsValid == Spec => StartsWithSettings
<1>1. Init => Checked
  BY DEF Init, Checked
<1>2. TypeOK /\ Checked /\ [Next]_vars => Checked'
  BY CheckedNext
<1>3. Checked =>
        [pc = "build" /\ pc' \in {"run", "saveConfig"} /\ fs # "dead"
           => settings.version \/ resets = 3]_vars
  BY DEF Checked
<1> QED BY <1>1, <1>2, <1>3, TypeCorrect, PTL DEF Spec, StartsWithSettings
-----------------------------------------------------------------------------
(* What a save leaves in the file.                                           *)

\* A factory reset that has formatted the flash, up to its restart.
Resetting ==
  \/ pc \in {"initConfig", "initSecurity", "initNotification", "initRules", "defaults",
             "controller", "reboot"}
  \/ pc \in {"saveConfig", "saveSecurity"} /\ after \in {"controller", "reboot"}

\* The digest in the file is that of the data in it, or none.
FileInv == torn \/ security.digest = security.data \/ security.digest = NoDigest

\* The digest in RAM is that of the file.  In a factory reset it is not: the file is
\* new, and the digest that of the old one.
DigestInv ==
  \/ Resetting \/ failed \/ torn
  \/ digest = NoDigest
  \/ digest = security.data /\ Opens("security")

SavedInv == FileInv /\ DigestInv

\* Steps that leave files and digest alone.
LEMMA SavedQuiet ==
  ASSUME SavedInv, UNCHANGED <<fs, files, security, torn, digest, failed>>,
         Resetting => Resetting'
  PROVE  SavedInv'
BY DEF SavedInv, FileInv, DigestInv, Opens

\* A factory reset has formatted the flash, or leaves it alone.
LEMMA SavedReset ==
  ASSUME NEW return, SavedInv, ResetFactory(return), ~Resetting
  PROVE  SavedInv'
<1>1. UNCHANGED <<security, torn, digest, failed>>
  BY DEF ResetFactory, ram
<1>2. CASE pc' = "initConfig"
  BY <1>1, <1>2 DEF SavedInv, FileInv, DigestInv, Resetting
<1>3. CASE UNCHANGED <<fs, files>>
  BY <1>1, <1>3, SavedQuiet
<1> QED BY <1>2, <1>3, ControlReset

\* Loading takes the digest of the file, or keeps that in RAM.
LEMMA SavedLoaded ==
  ASSUME SavedInv, LoadSettings, UNCHANGED flash, ~Resetting
  PROVE  SavedInv'
<1>1. UNCHANGED <<fs, files, security, torn>>
  BY DEF flash
<1>2. CASE Opens("config") /\ Opens("security")
  <2>1. digest' = security.digest
    BY <1>2 DEF LoadSettings
  <2>2. Opens("security")'
    BY <1>1, <1>2 DEF Opens
  <2> QED BY <1>1, <2>1, <2>2 DEF SavedInv, FileInv, DigestInv
<1>3. CASE ~(Opens("config") /\ Opens("security"))
  <2>1. UNCHANGED <<digest, failed>>
    BY <1>3 DEF LoadSettings, ram
  <2> QED BY <1>1, <2>1, SavedQuiet
<1> QED BY <1>2, <1>3

\* After a reset of the processor there is no digest in RAM.
LEMMA SavedRestarts == ASSUME Restarts, FileInv' PROVE SavedInv'
BY DEF Restarts, SavedInv, DigestInv

\* The start-up, the saves and the factory reset.
LEMMA SavedBoot == ASSUME TypeOK, SavedInv, Boot PROVE SavedInv'
<1>1. CASE SaveConfig
  BY <1>1, SavedQuiet DEF SaveConfig, ram, Resetting, TypeOK, ControlOK
<1>2. CASE SameSecurity
  BY <1>2, SavedQuiet DEF SameSecurity, flash, ram, Resetting
<1>3. CASE SaveSecurity
  <2>1. CASE failed'
    <3>1. UNCHANGED <<security, torn>>
      BY <1>3, <2>1 DEF SaveSecurity
    <3> QED BY <2>1, <3>1 DEF SavedInv, FileInv, DigestInv
  <2>2. CASE ~failed'
    <3>1. Opens("security")'
      BY <1>3, <2>2 DEF SaveSecurity, Written, Opens
    <3>2. security' = [data |-> data, digest |-> data] /\ digest' = data
      BY <1>3, <2>2 DEF SaveSecurity
    <3> QED BY <3>1, <3>2 DEF SavedInv, FileInv, DigestInv
  <2> QED BY <2>1, <2>2
<1>4. CASE InitConfig \/ InitNotification \/ InitRules
  <2>1. UNCHANGED <<security, torn>> /\ Resetting'
    BY <1>4 DEF InitConfig, InitNotification, InitRules, InitFile, Resetting
  <2> QED BY <2>1 DEF SavedInv, FileInv, DigestInv
<1>5. CASE InitSecurity
  <2>1. Resetting'
    BY <1>5 DEF InitSecurity, InitFile, Resetting
  <2>2. \/ UNCHANGED <<security, torn>>
        \/ security' = [data |-> Zeros, digest |-> NoDigest]
    BY <1>5 DEF InitSecurity
  <2> QED BY <2>1, <2>2 DEF SavedInv, FileInv, DigestInv
<1>6. CASE SetDefaults
  <2>1. UNCHANGED <<security, torn>> /\ Resetting'
    BY <1>6 DEF SetDefaults, Save, flash, Resetting
  <2> QED BY <2>1 DEF SavedInv, FileInv, DigestInv
<1>7. CASE Reboot
  <2>1. UNCHANGED <<security, torn>>
    BY <1>7 DEF Reboot, flash
  <2> QED BY <1>7, <2>1, SavedRestarts DEF Reboot, SavedInv, FileInv
<1>8. CASE Start \/ fileSystemCheck \/ CheckVersion
  <2>1. ~Resetting
    BY <1>8 DEF Start, fileSystemCheck, CheckVersion, Resetting
  <2>2. CASE UNCHANGED <<flash, ram>>
    BY <2>1, <2>2, SavedQuiet DEF flash, ram
  <2>3. ASSUME NEW r, ResetFactory(r) PROVE SavedInv'
    BY <2>1, <2>3, SavedReset
  <2> QED BY <1>8, <2>2, <2>3 DEF Start, fileSystemCheck, CheckVersion
<1>9. CASE ReadRTC
  BY <1>9, SavedQuiet DEF ReadRTC, flash, ram, Resetting
<1>10. CASE Load
  BY <1>10, SavedLoaded DEF Load, Resetting
<1>11. CASE BuildFixes
  BY <1>11 DEF BuildFixes, Opens, SavedInv, FileInv, DigestInv, Resetting
<1>12. CASE SetDefaultController
  BY <1>12, SavedQuiet DEF SetDefaultController, flash, ram, Resetting
<1> QED BY <1>1, <1>2, <1>3, <1>4, <1>5, <1>6, <1>7, <1>8, <1>9, <1>10, <1>11, <1>12
        DEF Boot

\* Every step keeps file and digest together.
LEMMA SavedNext == ASSUME TypeOK, SavedInv, [Next]_vars PROVE SavedInv'
<1>1. CASE Boot
  BY <1>1, SavedBoot
<1>2. CASE SaveSettings \/ SavePage \/ SetupPage \/ SaveArea \/ Tick
  BY <1>2, SavedQuiet DEF SaveSettings, SavePage, SetupPage, SaveArea, Tick, flash, ram,
                          Resetting
<1>3. CASE LoadCommand
  BY <1>3, SavedLoaded DEF LoadCommand, Resetting
<1>4. CASE Observe \/ UNCHANGED vars
  BY <1>4, SavedQuiet DEF Observe, vars, flash, ram, Resetting
<1>5. CASE Fault
  <2>1. CASE ResetCommand
    BY <2>1, SavedReset DEF ResetCommand, Resetting
  <2>2. CASE ClearRTC
    BY <2>2, SavedQuiet DEF ClearRTC, flash, ram, Resetting
  <2>3. CASE Crash
    <3>1. UNCHANGED <<security, torn>>
      BY <2>3 DEF Crash, flash
    <3> QED BY <2>3, <3>1, SavedRestarts DEF Crash, SavedInv, FileInv
  <2>4. CASE PowerFails
    <3>1. FileInv'
      BY <2>4 DEF PowerFails, SavedInv, FileInv
    <3> QED BY <2>4, <3>1, SavedRestarts DEF PowerFails
  <2> QED BY <1>5, <2>1, <2>2, <2>3, <2>4 DEF Fault
<1> QED BY <1>1, <1>2, <1>3, <1>4, <1>5 DEF Next

\* Only a save of the running node ends in its main loop.
LEMMA SavedEnds ==
  ASSUME TypeOK, SavedInv, [Next]_vars,
         pc = "saveSecurity", pc' = "run", ~err', ~failed, ~torn
  PROVE  Opens("security")' /\ security'.data = data
<1>1. CASE SameSecurity
  <2>1. after = "run" /\ data = digest /\ UNCHANGED <<fs, files, security>>
    BY <1>1 DEF SameSecurity, flash
  <2>2. digest # NoDigest
    BY <2>1, ContentOf DEF TypeOK, ContentOK
  <2>3. ~Resetting
    BY <2>1 DEF Resetting
  <2> QED BY <2>1, <2>2, <2>3 DEF SavedInv, DigestInv, Opens
<1>2. CASE SaveSecurity
  <2>1. Written("security") /\ security' = [data |-> data, digest |-> data]
    BY <1>2 DEF SaveSecurity
  <2>2. Opens("security")'
    BY <1>2, <2>1 DEF SaveSecurity, Written, Opens
  <2> QED BY <2>1, <2>2
<1>3. ~Fault
  BY DEF Fault, ResetCommand, ClearRTC, Crash, PowerFails, Restarts
<1>4. ~UNCHANGED vars
  BY DEF vars
<1>5. ~(SaveSettings \/ SavePage \/ SetupPage \/ SaveArea \/ LoadCommand \/ Tick \/ Observe)
  BY DEF SaveSettings, SavePage, SetupPage, SaveArea, LoadCommand, Tick, Observe
<1>6. Boot => SameSecurity \/ SaveSecurity
  BY DEF Boot, SaveConfig, InitConfig, InitSecurity, InitNotification, InitRules, InitFile,
         SetDefaults, SetDefaultController, Reboot, Start, ReadRTC, fileSystemCheck, Load,
         CheckVersion, BuildFixes
<1> QED BY <1>1, <1>2, <1>3, <1>4, <1>5, <1>6 DEF Next

\* A save of the running node that reports no error has the security settings in the
\* file, also when it writes nothing because the digest says so
\* (ESPEasyStorage.ino:130-170).
THEOREM SavedMeansSaved == Spec => SavesAreSaved
<1>1. Init => SavedInv
  BY DEF Init, SavedInv, FileInv, DigestInv, Opens
<1>2. TypeOK /\ SavedInv /\ [Next]_vars => SavedInv'
  BY SavedNext
<1>3. TypeOK /\ SavedInv /\ [Next]_vars =>
        [pc = "saveSecurity" /\ pc' = "run" /\ ~err' /\ ~failed /\ ~torn
           => Opens("security")' /\ security'.data = data]_vars
  BY SavedEnds
<1> QED BY <1>1, <1>2, <1>3, TypeCorrect, PTL DEF Spec, SavesAreSaved
=============================================================================
