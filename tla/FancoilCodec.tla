---------------------------- MODULE FancoilCodec ----------------------------
(***************************************************************************)
(* The pure functions of the Arduino sketch: unpacking the seven SPI bytes *)
(* of one display cycle into four 13-bit words, decoding the words into a  *)
(* set point and a fan mode, quantising a requested set point, and the two *)
(* byte split of a 16-bit value on the I2C bus.  Shifts and masks of the   *)
(* code are written as \div, % and * on naturals.                          *)
(***************************************************************************)
EXTENDS Integers, Sequences

Byte == 0..255
Word16 == 0..65535
Word13 == 0..8191

MAX_TEMP == 280
MIN_TEMP == 160
Modes == 0..4
POWER_OFF == 0
MODE_AUTO == 1
MODE_MIN == 2
MODE_MAX == 3
MODE_NIGHT == 4

-----------------------------------------------------------------------------
(* Bit b of v, b a power of two; the masks of the code are such bits.      *)
Bit(v, b) == (v \div b) % 2 = 1

(* reworkData: data[0..6] is data[1..7] here, result[0..3] the four words. *)
ReworkData(data) ==
  << data[1] * 32 + data[2] \div 8,
     (data[2] % 8) * 1024 + data[3] * 4 + data[4] \div 64,
     (data[4] % 64) * 128 + data[5] \div 2,
     (data[5] % 2) * 4096 + data[6] * 16 + data[7] \div 16 >>

Prefix(w) == (w \div 256) % 16
\* Mutated: the free low bit is not shifted out.
Val_Unshifted(w) == w % 128
Val(w) == (w \div 2) % 128

\* Mutated: the LED nibble is stored as it is.
ModeOf_Raw(val) == val % 16
(* The priority of the mode LEDs in case 1 of decodeData.                  *)
ModeOf(val) ==
  IF Bit(val, 8) THEN MODE_AUTO
  ELSE IF Bit(val, 4) THEN MODE_MIN
  ELSE IF Bit(val, 2) THEN MODE_NIGHT
  ELSE IF Bit(val, 1) THEN MODE_MAX
  ELSE POWER_OFF

\* Mutated: a missing word reads as zero.
LastWith_Zero(words, p, default) ==
  IF \E i \in 1..Len(words) : Prefix(words[i]) = p
  THEN Val(words[CHOOSE i \in 1..Len(words) : Prefix(words[i]) = p]) ELSE 0

(* decodeData keeps the last word of each prefix; `words' with a prefix is *)
(* the value left in val1, val2 or the mode register when the loop ends.   *)
LastWith(words, p, default) ==
  LET at == {i \in 1..Len(words) : Prefix(words[i]) = p}
  IN  IF at = {} THEN default
      ELSE Val(words[CHOOSE i \in at : \A j \in at : j <= i])

(* The final switch of decodeData: <<valTot, set point in tenths>>.        *)
TempTable ==
  { <<1, 210>>, <<2, 200>>, <<3, 205>>, <<4, 190>>, <<6, 195>>, <<8, 180>>,
    <<12, 185>>, <<16, 170>>, <<24, 175>>, <<32, 160>>, <<48, 165>>,
    <<64, 220>>, <<65, 215>>, <<256, 280>>, <<512, 270>>, <<768, 275>>,
    <<1024, 260>>, <<1536, 265>>, <<2048, 250>>, <<3072, 255>>,
    <<4096, 240>>, <<6144, 245>>, <<8192, 230>>, <<8256, 225>>,
    <<12288, 235>> }

(* What the switch assigns to fancoilTemp; `old' when no case matches.     *)
TempOf(valTot, tempMax, old) ==
  IF valTot = 0 THEN IF tempMax THEN MAX_TEMP + 5 ELSE MIN_TEMP - 5
  ELSE IF \E row \in TempTable : row[1] = valTot
       THEN (CHOOSE row \in TempTable : row[1] = valTot)[2]
       ELSE old

(* Every value fancoilTemp is ever assigned.                               *)
TempCodes == {t \in (MIN_TEMP - 5)..(MAX_TEMP + 5) : t % 5 = 0}

(* decodeData leaves val1 and flagTempMax uninitialised when no word has   *)
(* prefix 2 or 1: junkVal1 and junkFlag stand for what the stack holds.    *)
DecodeData(words, oldTemp, oldMode, junkVal1, junkFlag) ==
  LET val1 == LastWith(words, 2, junkVal1)
      val2 == LastWith(words, 4, 0)
      mode == LastWith(words, 1, -1)
      flag == IF mode = -1 THEN junkFlag ELSE Bit(mode, 32)
  IN  [ temp |-> TempOf(val1 + 256 * val2, flag, oldTemp),
        mode |-> IF mode = -1 THEN oldMode ELSE ModeOf(mode) ]

-----------------------------------------------------------------------------
\* Mutated: whole degrees only.
Quantise_Degrees(t) == (((t \div 10) % 256) * 10)

(* setTemp: x = t / 5 is stored in a uint8_t, so it wraps.                 *)
Quantise(t) == ((t \div 5) % 256) * 5

\* Mutated: no range test; the last mode left out.
InTempRange_Open(t) == TRUE
InModeRange_Short(m) == m \in 0..MODE_MAX
InTempRange(t) == t \in MIN_TEMP..MAX_TEMP
InModeRange(m) == m \in Modes

(* I2CWriteTwoBytes and I2CReadTwoBytes.                                   *)
Hi(v) == v \div 256
Lo(v) == v % 256
TwoBytes(hi, lo) == (hi * 256 + lo) % 65536
=============================================================================
