---------------------------- MODULE FancoilDecode ---------------------------
(***************************************************************************)
(* readFancoilData of the Arduino sketch against the display it listens    *)
(* to.  The keypad controller (external) scans four LED columns and sends  *)
(* each as a 13-bit word, for ever, over a bus that is only sampled: the   *)
(* sketch starts at any word of the cycle, takes 7 bytes (52 bits of the   *)
(* cycle and the first 4 of the next word), unpacks and decodes them.      *)
(***************************************************************************)
EXTENDS FancoilCodec

CONSTANTS
  ShownTemps,  \* set points the keypad may show, a subset of TempCodes
  Junk,        \* what the uninitialised val1 of decodeData may hold
  Damaged      \* words without a known prefix that noise makes of others, {} for none

ASSUME ShownAssumption == ShownTemps \subseteq TempCodes /\ ShownTemps # {}
ASSUME JunkAssumption == Junk \subseteq Byte /\ Junk # {}
ASSUME DamagedAssumption == Damaged \subseteq {w \in Word13 : Prefix(w) \notin {1, 2, 4}}

VARIABLES
  panel,        \* what the keypad shows: [temp, mode]
  fancoilTemp,
  fancoilMode,
  intact        \* the last cycle read had all its words

vars == <<panel, fancoilTemp, fancoilMode, intact>>

-----------------------------------------------------------------------------
(* The keypad's LEDs: one per degree, half a degree lights two neighbours. *)
(* Column 2 carries 16..22 degrees, column 4 carries 23..28.               *)
Light(t, degree, bit) ==
  IF t \in MIN_TEMP..MAX_TEMP /\ degree * 10 \in {t - 5, t, t + 5} THEN bit ELSE 0

Column2(t) ==
  Light(t, 16, 32) + Light(t, 17, 16) + Light(t, 18, 8) + Light(t, 19, 4)
    + Light(t, 20, 2) + Light(t, 21, 1) + Light(t, 22, 64)
Column4(t) ==
  Light(t, 23, 32) + Light(t, 24, 16) + Light(t, 25, 8) + Light(t, 26, 4)
    + Light(t, 27, 2) + Light(t, 28, 1)

ModeBit(m) == CASE m = MODE_AUTO -> 8 [] m = MODE_MIN -> 4 [] m = MODE_NIGHT -> 2
                [] m = MODE_MAX -> 1 [] m = POWER_OFF -> 0

(* A word: bit 12 set, the column in bits 8..11, LEDs in 1..7, bit 0 free. *)
Word(col, bits, tail) == 4096 + col * 256 + bits * 2 + tail

(* The scan order of the columns is 8, 1, 4, 2.                            *)
Cycle(p, tail) ==
  << Word(8, 0, tail),
     Word(1, ModeBit(p.mode) + (IF p.temp = MAX_TEMP + 5 THEN 32 ELSE 0), tail),
     Word(4, Column4(p.temp), tail),
     Word(2, Column2(p.temp), tail) >>

Rotate(s, k) == [i \in 1..Len(s) |-> s[((i + k - 1) % Len(s)) + 1]]

(* The bits of the words on the wire, most significant first, then bytes.  *)
Weight == <<4096, 2048, 1024, 512, 256, 128, 64, 32, 16, 8, 4, 2, 1>>
StreamBit(words, i) ==
  (words[((i \div 13) % 4) + 1] \div Weight[(i % 13) + 1]) % 2
SampledByte(words, first) ==
  LET b(j) == StreamBit(words, first + j)
  IN  128 * b(0) + 64 * b(1) + 32 * b(2) + 16 * b(3) + 8 * b(4) + 4 * b(5) + 2 * b(6) + b(7)
Sampled(words) == [k \in 1..7 |-> SampledByte(words, 8 * (k - 1))]

-----------------------------------------------------------------------------
Init ==
  /\ panel \in [temp : ShownTemps, mode : Modes]
  /\ fancoilTemp = 0
  /\ fancoilMode = 0
  /\ intact = TRUE

(* The user, or the fan coil's own logic, changes what the keypad shows.   *)
PanelChange ==
  /\ \/ \E t \in ShownTemps : panel' = [panel EXCEPT !.temp = t]
     \/ \E m \in Modes : panel' = [panel EXCEPT !.mode = m]
  /\ UNCHANGED <<fancoilTemp, fancoilMode, intact>>

(* readFancoilData on the words it catches, with whatever the stack holds  *)
(* where decodeData has its uninitialised locals.                          *)
Catch(words) ==
  LET result == ReworkData(Sampled(words))
  IN  \E junkVal1 \in Junk, junkFlag \in BOOLEAN :
        LET d == DecodeData(result, fancoilTemp, fancoilMode, junkVal1, junkFlag)
        IN  /\ fancoilTemp' = d.temp
            /\ fancoilMode' = d.mode

ReadFancoilData ==
  /\ \E k \in 0..3, tail \in {0, 1} : Catch(Rotate(Cycle(panel, tail), k))
  /\ intact' = TRUE
  /\ UNCHANGED panel

(* Noise takes words of a cycle away: others arrive in their place, with a *)
(* prefix decodeData makes nothing of.                                     *)
Hurt(words, damage) ==
  [i \in 1..4 |-> IF i \in DOMAIN damage THEN damage[i] ELSE words[i]]

ReadNoisyData ==
  /\ \E k \in 0..3, lost \in SUBSET (1..4) \ {{}} : \E damage \in [lost -> Damaged] :
       Catch(Rotate(Hurt(Cycle(panel, 1), damage), k))
  /\ intact' = FALSE
  /\ UNCHANGED panel

Next == PanelChange \/ ReadFancoilData \/ ReadNoisyData

Spec == Init /\ [][Next]_vars

-----------------------------------------------------------------------------
(* Every set point and mode the decoding leaves is one of the table's, or  *)
(* the value the variables have before the first read.                     *)
TypeOK ==
  /\ panel \in [temp : ShownTemps, mode : Modes]
  /\ fancoilTemp \in TempCodes \cup {0}
  /\ fancoilMode \in Modes
  /\ intact \in BOOLEAN

(* readFancoilData: wherever in the scan cycle the sampling starts, the    *)
(* set point and the mode it decodes are the ones the keypad shows, from   *)
(* LED bits to tenths of a degree.                                         *)
DecodesWhatIsShown ==
  [][ intact' /\ UNCHANGED panel =>
        fancoilTemp' = panel.temp /\ fancoilMode' = panel.mode ]_vars

(* decodeData never takes the mode register for a set point: a cycle that  *)
(* lost any of its words to noise still decodes the mode shown or keeps    *)
(* the last one, whatever val1 and flagTempMax hold.                       *)
NoiseKeepsMode ==
  [][ ~intact' /\ UNCHANGED panel => fancoilMode' \in {fancoilMode, panel.mode} ]_vars
=============================================================================
