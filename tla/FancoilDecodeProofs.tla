------------------------- MODULE FancoilDecodeProofs ------------------------
(***************************************************************************)
(* Proofs about FancoilDecode for every choice of set points the keypad    *)
(* may show: reworkData restores any four words from the seven bytes, and  *)
(* decodeData finds the columns of the display wherever the cycle starts.  *)
(***************************************************************************)
EXTENDS FancoilDecode, TLAPS

(* The bit of weight Weight[n] of a word.                                  *)
WordBit(w, n) == (w \div Weight[n]) % 2

(* A word of 13 bits is the sum of its bits.                               *)
LEMMA WordOfBits ==
  ASSUME NEW w \in Word13
  PROVE  /\ \A n \in 1..13 : WordBit(w, n) \in {0, 1}
         /\ w = 4096 * WordBit(w, 1) + 2048 * WordBit(w, 2) + 1024 * WordBit(w, 3)
                + 512 * WordBit(w, 4) + 256 * WordBit(w, 5) + 128 * WordBit(w, 6)
                + 64 * WordBit(w, 7) + 32 * WordBit(w, 8) + 16 * WordBit(w, 9)
                + 8 * WordBit(w, 10) + 4 * WordBit(w, 11) + 2 * WordBit(w, 12)
                + WordBit(w, 13)
<1>1. w \in Int /\ 0 <= w /\ w <= 8191
  BY DEF Word13
<1>2. /\ w \div 1024 = 4 * WordBit(w, 1) + 2 * WordBit(w, 2) + WordBit(w, 3)
      /\ WordBit(w, 1) \in {0, 1} /\ WordBit(w, 2) \in {0, 1} /\ WordBit(w, 3) \in {0, 1}
  BY <1>1 DEF WordBit, Weight
<1>3. /\ w \div 128 = 8 * (w \div 1024) + 4 * WordBit(w, 4) + 2 * WordBit(w, 5) + WordBit(w, 6)
      /\ WordBit(w, 4) \in {0, 1} /\ WordBit(w, 5) \in {0, 1} /\ WordBit(w, 6) \in {0, 1}
  BY <1>1 DEF WordBit, Weight
<1>4. /\ w \div 16 = 8 * (w \div 128) + 4 * WordBit(w, 7) + 2 * WordBit(w, 8) + WordBit(w, 9)
      /\ WordBit(w, 7) \in {0, 1} /\ WordBit(w, 8) \in {0, 1} /\ WordBit(w, 9) \in {0, 1}
  BY <1>1 DEF WordBit, Weight
<1>5. /\ w \div 2 = 8 * (w \div 16) + 4 * WordBit(w, 10) + 2 * WordBit(w, 11) + WordBit(w, 12)
      /\ WordBit(w, 10) \in {0, 1} /\ WordBit(w, 11) \in {0, 1} /\ WordBit(w, 12) \in {0, 1}
  BY <1>1 DEF WordBit, Weight
<1>6. w = 2 * (w \div 2) + WordBit(w, 13) /\ WordBit(w, 13) \in {0, 1}
  BY <1>1 DEF WordBit, Weight
<1>7. \A n \in 1..13 : \/ n = 1 \/ n = 2 \/ n = 3 \/ n = 4 \/ n = 5 \/ n = 6 \/ n = 7
                         \/ n = 8 \/ n = 9 \/ n = 10 \/ n = 11 \/ n = 12 \/ n = 13
  OBVIOUS
<1>8. \A n \in 1..13 : WordBit(w, n) \in {0, 1}
  BY <1>2, <1>3, <1>4, <1>5, <1>6, <1>7
<1>9. w \div 1024 \in Int /\ w \div 128 \in Int /\ w \div 16 \in Int /\ w \div 2 \in Int
  BY <1>1
<1>10. w = 4096 * WordBit(w, 1) + 2048 * WordBit(w, 2) + 1024 * WordBit(w, 3)
             + 512 * WordBit(w, 4) + 256 * WordBit(w, 5) + 128 * WordBit(w, 6)
             + 64 * WordBit(w, 7) + 32 * WordBit(w, 8) + 16 * WordBit(w, 9)
             + 8 * WordBit(w, 10) + 4 * WordBit(w, 11) + 2 * WordBit(w, 12)
             + WordBit(w, 13)
  <2>1. w \div 128 = 32 * WordBit(w, 1) + 16 * WordBit(w, 2) + 8 * WordBit(w, 3)
                       + 4 * WordBit(w, 4) + 2 * WordBit(w, 5) + WordBit(w, 6)
    BY <1>2, <1>3
  <2>2. w \div 2 = 64 * (w \div 128) + 32 * WordBit(w, 7) + 16 * WordBit(w, 8)
                     + 8 * WordBit(w, 9) + 4 * WordBit(w, 10) + 2 * WordBit(w, 11)
                     + WordBit(w, 12)
    BY <1>4, <1>5, <1>9
  <2>3. \A n \in 1..13 : WordBit(w, n) \in Int
    BY <1>8
  <2> QED BY <1>1, <1>6, <1>9, <2>1, <2>2, <2>3
<1> QED BY <1>8, <1>10

(* reworkData restores the four words from the seven bytes sampled, for    *)
(* all the 2^52 contents of a cycle: the second, the fourth, the fifth and *)
(* the seventh byte hold bits of two words.                                *)
THEOREM WordsAreRestored ==
  ASSUME NEW words, \A i \in 1..4 : words[i] \in Word13
  PROVE  ReworkData(Sampled(words)) = <<words[1], words[2], words[3], words[4]>>
<1> DEFINE data == Sampled(words)
           a(n) == WordBit(words[1], n)
           b(n) == WordBit(words[2], n)
           c(n) == WordBit(words[3], n)
           d(n) == WordBit(words[4], n)
<1>1. data[1] = 128 * a(1) + 64 * a(2) + 32 * a(3) + 16 * a(4) + 8 * a(5)
             + 4 * a(6) + 2 * a(7) + a(8)
  BY DEF Sampled, SampledByte, StreamBit, WordBit
<1>2. data[2] = 128 * a(9) + 64 * a(10) + 32 * a(11) + 16 * a(12) + 8 * a(13)
             + 4 * b(1) + 2 * b(2) + b(3)
  BY DEF Sampled, SampledByte, StreamBit, WordBit
<1>3. data[3] = 128 * b(4) + 64 * b(5) + 32 * b(6) + 16 * b(7) + 8 * b(8)
             + 4 * b(9) + 2 * b(10) + b(11)
  BY DEF Sampled, SampledByte, StreamBit, WordBit
<1>4. data[4] = 128 * b(12) + 64 * b(13) + 32 * c(1) + 16 * c(2) + 8 * c(3)
             + 4 * c(4) + 2 * c(5) + c(6)
  BY DEF Sampled, SampledByte, StreamBit, WordBit
<1>5. data[5] = 128 * c(7) + 64 * c(8) + 32 * c(9) + 16 * c(10) + 8 * c(11)
             + 4 * c(12) + 2 * c(13) + d(1)
  BY DEF Sampled, SampledByte, StreamBit, WordBit
<1>6. data[6] = 128 * d(2) + 64 * d(3) + 32 * d(4) + 16 * d(5) + 8 * d(6)
             + 4 * d(7) + 2 * d(8) + d(9)
  BY DEF Sampled, SampledByte, StreamBit, WordBit
<1>7. data[7] = 128 * d(10) + 64 * d(11) + 32 * d(12) + 16 * d(13) + 8 * a(1)
             + 4 * a(2) + 2 * a(3) + a(4)
  BY DEF Sampled, SampledByte, StreamBit, WordBit
<1>8. \A n \in 1..13 : a(n) \in {0, 1} /\ b(n) \in {0, 1} /\ c(n) \in {0, 1} /\ d(n) \in {0, 1}
  BY WordOfBits
<1>9. words[1] = 4096 * a(1) + 2048 * a(2) + 1024 * a(3) + 512 * a(4) + 256 * a(5)
                 + 128 * a(6) + 64 * a(7) + 32 * a(8) + 16 * a(9) + 8 * a(10)
                 + 4 * a(11) + 2 * a(12) + a(13)
  BY WordOfBits
<1>10. words[2] = 4096 * b(1) + 2048 * b(2) + 1024 * b(3) + 512 * b(4) + 256 * b(5)
                 + 128 * b(6) + 64 * b(7) + 32 * b(8) + 16 * b(9) + 8 * b(10)
                 + 4 * b(11) + 2 * b(12) + b(13)
  BY WordOfBits
<1>11. words[3] = 4096 * c(1) + 2048 * c(2) + 1024 * c(3) + 512 * c(4) + 256 * c(5)
                 + 128 * c(6) + 64 * c(7) + 32 * c(8) + 16 * c(9) + 8 * c(10)
                 + 4 * c(11) + 2 * c(12) + c(13)
  BY WordOfBits
<1>12. words[4] = 4096 * d(1) + 2048 * d(2) + 1024 * d(3) + 512 * d(4) + 256 * d(5)
                 + 128 * d(6) + 64 * d(7) + 32 * d(8) + 16 * d(9) + 8 * d(10)
                 + 4 * d(11) + 2 * d(12) + d(13)
  BY WordOfBits
<1> HIDE DEF data, a, b, c, d
<1>13. data[1] * 32 + data[2] \div 8 = words[1]
  <2>1. data[2] \div 8 = 16 * a(9) + 8 * a(10) + 4 * a(11) + 2 * a(12) + a(13)
    BY <1>2, <1>8
  <2>2. \A n \in 1..13 : a(n) \in Int
    BY <1>8
  <2> QED BY <1>1, <1>9, <2>1, <2>2
<1>14. (data[2] % 8) * 1024 + data[3] * 4 + data[4] \div 64 = words[2]
  <2>1. data[2] % 8 = 4 * b(1) + 2 * b(2) + b(3)
    BY <1>2, <1>8
  <2>2. data[4] \div 64 = 2 * b(12) + b(13)
    BY <1>4, <1>8
  <2> QED BY <1>3, <1>8, <1>10, <2>1, <2>2
<1>15. (data[4] % 64) * 128 + data[5] \div 2 = words[3]
  <2>1. data[4] % 64 = 32 * c(1) + 16 * c(2) + 8 * c(3) + 4 * c(4) + 2 * c(5) + c(6)
    BY <1>4, <1>8
  <2>2. data[5] \div 2 = 64 * c(7) + 32 * c(8) + 16 * c(9) + 8 * c(10) + 4 * c(11)
                          + 2 * c(12) + c(13)
    BY <1>5, <1>8
  <2> QED BY <1>8, <1>11, <2>1, <2>2
<1>16. (data[5] % 2) * 4096 + data[6] * 16 + data[7] \div 16 = words[4]
  <2>1. data[5] % 2 = d(1)
    BY <1>5, <1>8
  <2>2. data[7] \div 16 = 8 * d(10) + 4 * d(11) + 2 * d(12) + d(13)
    BY <1>7, <1>8
  <2> QED BY <1>6, <1>8, <1>12, <2>1, <2>2
<1> QED BY <1>13, <1>14, <1>15, <1>16 DEF ReworkData, data

-----------------------------------------------------------------------------
(* A word of the display keeps its column and its LEDs apart, whatever its *)
(* free bit is; a word that is lost has the prefix of no column.           *)
LEMMA WordParts ==
  ASSUME NEW col \in 0..15, NEW bits \in 0..127, NEW tail \in {0, 1}
  PROVE  /\ Word(col, bits, tail) \in Word13
         /\ Prefix(Word(col, bits, tail)) = col /\ Val(Word(col, bits, tail)) = bits
<1> DEFINE w == Word(col, bits, tail)
<1>1. w = 4096 + col * 256 + bits * 2 + tail /\ tail \in 0..1
  BY DEF Word
<1> HIDE DEF w
<1>2. w \in Word13
  BY <1>1 DEF Word13
<1>3. w \div 256 = 16 + col /\ w \div 2 = 2048 + 128 * col + bits
  BY <1>1
<1>4. (16 + col) % 16 = col /\ (2048 + 128 * col + bits) % 128 = bits
  OBVIOUS
<1> QED BY <1>2, <1>3, <1>4 DEF Prefix, Val, w

LEMMA DamagedWord ==
  ASSUME NEW w \in Damaged
  PROVE  w \in Word13 /\ Prefix(w) # 1
BY DamagedAssumption

Turned(s, k) == LET r == Rotate(s, k) IN <<r[1], r[2], r[3], r[4]>>
Once(s, p, n) == Prefix(s[n]) = p /\ \A i \in 1..4 : i # n => Prefix(s[i]) # p
Never(s, p) == \A i \in 1..4 : Prefix(s[i]) # p

(* Where the sampling starts does not matter to a column that occurs once, *)
(* or not at all.                                                          *)
LEMMA LastOfRotated ==
  ASSUME NEW s, Len(s) = 4, NEW k \in 0..3, NEW p, NEW default
  PROVE  /\ \A i \in 1..4 : Rotate(s, k)[i] \in {s[1], s[2], s[3], s[4]}
         /\ Never(s, p) => LastWith(Turned(s, k), p, default) = default
         /\ \A n \in 1..4 : Once(s, p, n) => LastWith(Turned(s, k), p, default) = Val(s[n])
<1> DEFINE r == Rotate(s, k)
           words == <<r[1], r[2], r[3], r[4]>>
           at == {i \in 1..Len(words) : Prefix(words[i]) = p}
<1>1. \A i \in 1..4 : r[i] = s[((i + k - 1) % 4) + 1]
  BY DEF Rotate
<1>2. Len(words) = 4 /\ \A i \in 1..4 : words[i] = r[i]
  OBVIOUS
<1>3. \A i \in 1..4 : ((i + k - 1) % 4) + 1 \in 1..4
  OBVIOUS
<1>4. \A n \in 1..4 : \E i \in 1..4 : ((i + k - 1) % 4) + 1 = n
  OBVIOUS
<1>5. \A i, j \in 1..4 : (i + k - 1) % 4 = (j + k - 1) % 4 => i = j
  OBVIOUS
<1> HIDE DEF r, words
<1>6. \A i \in 1..4 : r[i] \in {s[1], s[2], s[3], s[4]}
  BY <1>1, <1>3
<1>7. ASSUME Never(s, p) PROVE LastWith(words, p, default) = default
  <2>1. at = {}
    BY <1>1, <1>2, <1>3, <1>7 DEF Never
  <2> QED BY <2>1 DEF LastWith
<1>8. ASSUME NEW n \in 1..4, Once(s, p, n)
      PROVE  LastWith(words, p, default) = Val(s[n])
  <2>1. PICK m \in 1..4 : ((m + k - 1) % 4) + 1 = n
    BY <1>4
  <2>2. words[m] = s[n]
    BY <1>1, <1>2, <2>1
  <2>3. ASSUME NEW i \in 1..4, i # m PROVE Prefix(words[i]) # p
    <3>1. ((i + k - 1) % 4) + 1 # n
      BY <1>5, <2>1, <2>3
    <3> QED BY <1>1, <1>2, <1>3, <1>8, <3>1 DEF Once
  <2>4. at = {m}
    BY <1>2, <1>8, <2>2, <2>3 DEF Once
  <2>5. (CHOOSE i \in at : \A j \in at : j <= i) = m
    BY <2>4
  <2>6. at # {}
    BY <2>4
  <2> QED BY <2>2, <2>5, <2>6 DEF LastWith
<1>9. Turned(s, k) = words
  BY DEF Turned, r, words
<1> QED BY <1>6, <1>7, <1>8, <1>9 DEF r

(* The LEDs of every mode, with the LED of the set point above the scale.  *)
LEMMA ModeIsShown ==
  ASSUME NEW m \in Modes, NEW high \in BOOLEAN
  PROVE  LET v == ModeBit(m) + (IF high THEN 32 ELSE 0)
         IN  v \in 0..127 /\ ModeOf(v) = m /\ (Bit(v, 32) <=> high)
<1> USE DEF POWER_OFF, MODE_AUTO, MODE_MIN, MODE_MAX, MODE_NIGHT
<1>1. <<m, ModeBit(m)>> \in {<<0, 0>>, <<1, 8>>, <<2, 4>>, <<3, 1>>, <<4, 2>>}
  BY DEF Modes, ModeBit
<1>2. /\ ModeOf(0) = 0 /\ ModeOf(8) = 1 /\ ModeOf(4) = 2 /\ ModeOf(1) = 3 /\ ModeOf(2) = 4
      /\ ModeOf(32) = 0 /\ ModeOf(40) = 1 /\ ModeOf(36) = 2 /\ ModeOf(33) = 3 /\ ModeOf(34) = 4
  BY DEF ModeOf, Bit
<1>3. /\ ~Bit(0, 32) /\ ~Bit(8, 32) /\ ~Bit(4, 32) /\ ~Bit(1, 32) /\ ~Bit(2, 32)
      /\ Bit(32, 32) /\ Bit(40, 32) /\ Bit(36, 32) /\ Bit(33, 32) /\ Bit(34, 32)
  BY DEF Bit
<1> HIDE DEF POWER_OFF, MODE_AUTO, MODE_MIN, MODE_MAX, MODE_NIGHT
<1>4. CASE high
  <2>1. <<m, ModeBit(m) + 32>> \in {<<0, 32>>, <<1, 40>>, <<2, 36>>, <<3, 33>>, <<4, 34>>}
    BY <1>1
  <2>2. ModeOf(ModeBit(m) + 32) = m /\ Bit(ModeBit(m) + 32, 32)
    BY <1>2, <1>3, <2>1
  <2>3. ModeBit(m) + 32 \in 0..127
    BY <2>1
  <2> QED BY <1>4, <2>2, <2>3
<1>5. CASE ~high
  <2>1. <<m, ModeBit(m) + 0>> \in {<<0, 0>>, <<1, 8>>, <<2, 4>>, <<3, 1>>, <<4, 2>>}
    BY <1>1
  <2>2. ModeOf(ModeBit(m) + 0) = m /\ ~Bit(ModeBit(m) + 0, 32)
    BY <1>2, <1>3, <2>1
  <2>3. ModeBit(m) + 0 \in 0..127
    BY <2>1
  <2> QED BY <1>5, <2>2, <2>3
<1> QED BY <1>4, <1>5

(* The set points, one by one.                                             *)
LEMMA TempCodesAre ==
  TempCodes = {155, 160, 165, 170, 175, 180, 185, 190, 195, 200, 205, 210, 215, 220,
               225, 230, 235, 240, 245, 250, 255, 260, 265, 270, 275, 280, 285}
<1>1. ASSUME NEW t \in TempCodes
      PROVE  \E n \in 31..57 : t = 5 * n
  BY <1>1 DEF TempCodes, MIN_TEMP, MAX_TEMP
<1> QED BY <1>1 DEF TempCodes, MIN_TEMP, MAX_TEMP

(* No two rows of the table have the same LEDs.                            *)
LEMMA RowsDiffer ==
  ASSUME NEW a \in TempTable, NEW b \in TempTable, a[1] = b[1] PROVE a = b
BY DEF TempTable

(* What the table assigns.                                                 *)
LEMMA RowOf ==
  ASSUME NEW row \in TempTable, NEW flag, NEW old
  PROVE  TempOf(row[1], flag, old) = row[2]
<1>1. row[1] # 0
  BY DEF TempTable
<1>2. \A a \in TempTable : a[1] = row[1] => a = row
  BY RowsDiffer
<1> QED BY <1>1, <1>2 DEF TempOf

(* The LEDs of a set point are those of its row of the table.              *)
LEMMA LightsOfRow ==
  ASSUME NEW t \in TempCodes, t # MIN_TEMP - 5, t # MAX_TEMP + 5
  PROVE  /\ Column2(t) \in 0..127 /\ Column4(t) \in 0..127
         /\ <<Column2(t) + 256 * Column4(t), t>> \in TempTable
<1> DEFINE x == Column2(t)
           y == Column4(t)
<1>1. CASE t \in {160, 165, 170, 175, 180}
  <2>1. <<t, x, y>> \in {<<160, 32, 0>>, <<165, 48, 0>>, <<170, 16, 0>>, <<175, 24, 0>>, <<180, 8, 0>>}
    BY <1>1 DEF Column2, Column4, Light, MIN_TEMP, MAX_TEMP
  <2> HIDE DEF x, y
  <2>2. <<x + 256 * y, t>> \in TempTable /\ x \in 0..127 /\ y \in 0..127
    BY <2>1 DEF TempTable
  <2> QED BY <2>2 DEF x, y
<1>2. CASE t \in {185, 190, 195, 200, 205}
  <2>1. <<t, x, y>> \in {<<185, 12, 0>>, <<190, 4, 0>>, <<195, 6, 0>>, <<200, 2, 0>>, <<205, 3, 0>>}
    BY <1>2 DEF Column2, Column4, Light, MIN_TEMP, MAX_TEMP
  <2> HIDE DEF x, y
  <2>2. <<x + 256 * y, t>> \in TempTable /\ x \in 0..127 /\ y \in 0..127
    BY <2>1 DEF TempTable
  <2> QED BY <2>2 DEF x, y
<1>3. CASE t \in {210, 215, 220, 225, 230}
  <2>1. <<t, x, y>> \in {<<210, 1, 0>>, <<215, 65, 0>>, <<220, 64, 0>>, <<225, 64, 32>>, <<230, 0, 32>>}
    BY <1>3 DEF Column2, Column4, Light, MIN_TEMP, MAX_TEMP
  <2> HIDE DEF x, y
  <2>2. <<x + 256 * y, t>> \in TempTable /\ x \in 0..127 /\ y \in 0..127
    BY <2>1 DEF TempTable
  <2> QED BY <2>2 DEF x, y
<1>4. CASE t \in {235, 240, 245, 250, 255}
  <2>1. <<t, x, y>> \in {<<235, 0, 48>>, <<240, 0, 16>>, <<245, 0, 24>>, <<250, 0, 8>>, <<255, 0, 12>>}
    BY <1>4 DEF Column2, Column4, Light, MIN_TEMP, MAX_TEMP
  <2> HIDE DEF x, y
  <2>2. <<x + 256 * y, t>> \in TempTable /\ x \in 0..127 /\ y \in 0..127
    BY <2>1 DEF TempTable
  <2> QED BY <2>2 DEF x, y
<1>5. CASE t \in {260, 265, 270, 275, 280}
  <2>1. <<t, x, y>> \in {<<260, 0, 4>>, <<265, 0, 6>>, <<270, 0, 2>>, <<275, 0, 3>>, <<280, 0, 1>>}
    BY <1>5 DEF Column2, Column4, Light, MIN_TEMP, MAX_TEMP
  <2> HIDE DEF x, y
  <2>2. <<x + 256 * y, t>> \in TempTable /\ x \in 0..127 /\ y \in 0..127
    BY <2>1 DEF TempTable
  <2> QED BY <2>2 DEF x, y
<1>6. t # 155 /\ t # 285
  BY DEF MIN_TEMP, MAX_TEMP
<1> HIDE DEF x, y
<1>7. t \in {160, 165, 170, 175, 180} \union {185, 190, 195, 200, 205} \union {210, 215, 220, 225, 230}
            \union {235, 240, 245, 250, 255} \union {260, 265, 270, 275, 280}
  BY <1>6, TempCodesAre
<1> QED BY <1>1, <1>2, <1>3, <1>4, <1>5, <1>7

(* A set point shown is the one the table assigns to its LEDs.             *)
LEMMA TempIsShown ==
  ASSUME NEW t \in TempCodes, NEW old
  PROVE  /\ Column2(t) \in 0..127 /\ Column4(t) \in 0..127
         /\ TempOf(Column2(t) + 256 * Column4(t), t = MAX_TEMP + 5, old) = t
<1>1. CASE t = MIN_TEMP - 5 \/ t = MAX_TEMP + 5
  <2>1. Column2(t) = 0 /\ Column4(t) = 0 /\ 0 + 256 * 0 = 0 /\ MIN_TEMP - 5 # MAX_TEMP + 5
    BY <1>1 DEF Column2, Column4, Light, MIN_TEMP, MAX_TEMP
  <2>2. TempOf(0, t = MAX_TEMP + 5, old) = t
    BY <1>1, <2>1 DEF TempOf
  <2> QED BY <2>1, <2>2
<1>2. CASE ~(t = MIN_TEMP - 5 \/ t = MAX_TEMP + 5)
  <2> DEFINE row == <<Column2(t) + 256 * Column4(t), t>>
  <2>1. row \in TempTable /\ Column2(t) \in 0..127 /\ Column4(t) \in 0..127
    BY <1>2, LightsOfRow
  <2>2. \A r \in TempTable : TempOf(r[1], t = MAX_TEMP + 5, old) = r[2]
    BY RowOf
  <2>3. row[1] = Column2(t) + 256 * Column4(t) /\ row[2] = t
    OBVIOUS
  <2> HIDE DEF row
  <2> QED BY <2>1, <2>2, <2>3
<1> QED BY <1>1, <1>2

(* Whatever words arrive, the table and the LEDs of the mode give a set    *)
(* point of the scale and one of the five modes.                           *)
LEMMA DecodesToCodes ==
  ASSUME NEW words, NEW junkVal1, NEW junkFlag, NEW oldTemp, NEW oldMode
  PROVE  LET d == DecodeData(words, oldTemp, oldMode, junkVal1, junkFlag)
         IN  d.temp \in TempCodes \cup {oldTemp} /\ d.mode \in Modes \cup {oldMode}
<1>1. \A v, flag : TempOf(v, flag, oldTemp) \in TempCodes \cup {oldTemp}
  <2>1. MIN_TEMP - 5 \in TempCodes /\ MAX_TEMP + 5 \in TempCodes
    BY DEF TempCodes, MIN_TEMP, MAX_TEMP
  <2>2. \A row \in TempTable : row[2] \in TempCodes
    BY TempCodesAre DEF TempTable
  <2> QED BY <2>1, <2>2 DEF TempOf
<1>2. \A v : ModeOf(v) \in Modes
  BY DEF ModeOf, Modes, POWER_OFF, MODE_AUTO, MODE_MIN, MODE_MAX, MODE_NIGHT
<1> QED BY <1>1, <1>2 DEF DecodeData

Displays == [temp : TempCodes, mode : Modes]
ModeLights(p) == ModeBit(p.mode) + (IF p.temp = MAX_TEMP + 5 THEN 32 ELSE 0)

(* The four words of a display.                                            *)
LEMMA CycleWords ==
  ASSUME NEW p \in Displays, NEW tail \in {0, 1}
  PROVE  LET s == Cycle(p, tail)
         IN  /\ Len(s) = 4 /\ DOMAIN s = 1..4 /\ \A i \in 1..4 : s[i] \in Word13
             /\ Prefix(s[1]) = 8 /\ Prefix(s[2]) = 1 /\ Prefix(s[3]) = 4 /\ Prefix(s[4]) = 2
             /\ Val(s[2]) = ModeLights(p) /\ Val(s[3]) = Column4(p.temp)
             /\ Val(s[4]) = Column2(p.temp)
<1> DEFINE m == ModeLights(p)
           x == Column4(p.temp)
           y == Column2(p.temp)
<1>1. p.temp \in TempCodes /\ p.mode \in Modes
  BY DEF Displays
<1>2. m \in 0..127
  BY <1>1, ModeIsShown DEF ModeLights
<1>3. x \in 0..127 /\ y \in 0..127
  BY <1>1, TempIsShown
<1>4. Cycle(p, tail) = <<Word(8, 0, tail), Word(1, m, tail), Word(4, x, tail), Word(2, y, tail)>>
  BY DEF Cycle, ModeLights
<1> HIDE DEF m, x, y
<1>5. /\ 0 \in 0..127 /\ 8 \in 0..15 /\ 1 \in 0..15 /\ 4 \in 0..15 /\ 2 \in 0..15
  OBVIOUS
<1>6. /\ Word(8, 0, tail) \in Word13 /\ Prefix(Word(8, 0, tail)) = 8
      /\ Word(1, m, tail) \in Word13 /\ Prefix(Word(1, m, tail)) = 1
      /\ Word(4, x, tail) \in Word13 /\ Prefix(Word(4, x, tail)) = 4
      /\ Word(2, y, tail) \in Word13 /\ Prefix(Word(2, y, tail)) = 2
      /\ Val(Word(1, m, tail)) = m /\ Val(Word(4, x, tail)) = x /\ Val(Word(2, y, tail)) = y
  BY <1>2, <1>3, <1>5, WordParts
<1> QED BY <1>4, <1>6 DEF m, x, y

Caught(s, k) == ReworkData(Sampled(Rotate(s, k)))

(* What decodeData finds of a column in the bytes sampled of four words.   *)
LEMMA ColumnIsFound ==
  ASSUME NEW s, Len(s) = 4, \A i \in 1..4 : s[i] \in Word13, NEW k \in 0..3,
         NEW p, NEW default
  PROVE  /\ Never(s, p) => LastWith(Caught(s, k), p, default) = default
         /\ \A n \in 1..4 : Once(s, p, n) => LastWith(Caught(s, k), p, default) = Val(s[n])
<1>1. \A i \in 1..4 : Rotate(s, k)[i] \in Word13
  BY LastOfRotated
<1>2. Caught(s, k) = Turned(s, k)
  BY <1>1, WordsAreRestored DEF Caught, Turned
<1> QED BY <1>2, LastOfRotated

(* The mode that is decoded from words with no mode in them, or with one.  *)
LEMMA ModeDecoded ==
  ASSUME NEW words, NEW oldTemp, NEW oldMode, NEW junkVal1, NEW junkFlag, NEW p \in Displays,
         LastWith(words, 1, -1) \in {-1, ModeLights(p)}
  PROVE  DecodeData(words, oldTemp, oldMode, junkVal1, junkFlag).mode \in {oldMode, p.mode}
<1>1. p.mode \in Modes
  BY DEF Displays
<1>2. ModeOf(ModeLights(p)) = p.mode
  BY <1>1, ModeIsShown DEF ModeLights
<1>3. DecodeData(words, oldTemp, oldMode, junkVal1, junkFlag).mode =
        IF LastWith(words, 1, -1) = -1 THEN oldMode ELSE ModeOf(LastWith(words, 1, -1))
  BY DEF DecodeData
<1> QED BY <1>2, <1>3

(* A whole cycle decodes to what the keypad shows.                         *)
LEMMA CycleIsDecoded ==
  ASSUME NEW p \in Displays, NEW tail \in {0, 1}, NEW k \in 0..3,
         NEW oldTemp, NEW oldMode, NEW junkVal1, NEW junkFlag
  PROVE  DecodeData(Caught(Cycle(p, tail), k), oldTemp, oldMode, junkVal1, junkFlag)
           = [temp |-> p.temp, mode |-> p.mode]
<1> DEFINE s == Cycle(p, tail)
           words == Caught(s, k)
           m == ModeLights(p)
<1>1. /\ Len(s) = 4 /\ \A i \in 1..4 : s[i] \in Word13
      /\ Prefix(s[1]) = 8 /\ Prefix(s[2]) = 1 /\ Prefix(s[3]) = 4 /\ Prefix(s[4]) = 2
      /\ Val(s[2]) = m /\ Val(s[3]) = Column4(p.temp) /\ Val(s[4]) = Column2(p.temp)
  BY CycleWords
<1>2. p.temp \in TempCodes /\ p.mode \in Modes
  BY DEF Displays
<1>3. m \in 0..127 /\ ModeOf(m) = p.mode /\ (Bit(m, 32) <=> p.temp = MAX_TEMP + 5)
  BY <1>2, ModeIsShown DEF ModeLights
<1> HIDE DEF s, m
<1>4. \A i \in 1..4 : i = 1 \/ i = 2 \/ i = 3 \/ i = 4
  OBVIOUS
<1>5. LastWith(words, 2, junkVal1) = Column2(p.temp)
  <2>1. Once(s, 2, 4)
    BY <1>1, <1>4 DEF Once
  <2> QED BY <1>1, <2>1, ColumnIsFound
<1>6. LastWith(words, 4, 0) = Column4(p.temp)
  <2>1. Once(s, 4, 3)
    BY <1>1, <1>4 DEF Once
  <2> QED BY <1>1, <2>1, ColumnIsFound
<1>7. LastWith(words, 1, -1) = m
  <2>1. Once(s, 1, 2)
    BY <1>1, <1>4 DEF Once
  <2> QED BY <1>1, <2>1, ColumnIsFound
<1>8. TempOf(Column2(p.temp) + 256 * Column4(p.temp), p.temp = MAX_TEMP + 5, oldTemp) = p.temp
  BY <1>2, TempIsShown
<1>9. m # -1
  BY <1>3
<1> HIDE DEF words
<1>10. DecodeData(words, oldTemp, oldMode, junkVal1, junkFlag) =
         [temp |-> TempOf(Column2(p.temp) + 256 * Column4(p.temp), Bit(m, 32), oldTemp),
          mode |-> ModeOf(m)]
  BY <1>5, <1>6, <1>7, <1>9 DEF DecodeData
<1>11. Bit(m, 32) = (p.temp = MAX_TEMP + 5)
  BY <1>3 DEF Bit
<1> QED BY <1>3, <1>8, <1>10, <1>11 DEF words, s

(* A cycle that lost words decodes the mode shown, or keeps the last.      *)
LEMMA LostKeepsMode ==
  ASSUME NEW p \in Displays, NEW lost \in SUBSET (1..4), NEW damage \in [lost -> Damaged],
         NEW k \in 0..3, NEW oldTemp, NEW oldMode, NEW junkVal1, NEW junkFlag
  PROVE  DecodeData(Caught(Hurt(Cycle(p, 1), damage), k), oldTemp, oldMode,
                    junkVal1, junkFlag).mode \in {oldMode, p.mode}
<1> DEFINE c == Cycle(p, 1)
           s == Hurt(c, damage)
           words == Caught(s, k)
<1>1. /\ \A i \in 1..4 : c[i] \in Word13
      /\ Prefix(c[1]) = 8 /\ Prefix(c[2]) = 1 /\ Prefix(c[3]) = 4 /\ Prefix(c[4]) = 2
      /\ Val(c[2]) = ModeLights(p)
  BY CycleWords
<1> HIDE DEF c
<1>2. /\ Len(s) = 4
      /\ \A i \in 1..4 : s[i] = IF i \in lost THEN damage[i] ELSE c[i]
  <2>1. s = [i \in 1..4 |-> IF i \in lost THEN damage[i] ELSE c[i]]
    BY DEF Hurt
  <2> HIDE DEF s
  <2> QED BY <2>1
<1>3. \A i \in lost : damage[i] \in Word13 /\ Prefix(damage[i]) # 1
  BY DamagedWord
<1> HIDE DEF s
<1>4. \A i \in 1..4 : s[i] \in Word13
  BY <1>1, <1>2, <1>3
<1>5. \A i \in 1..4 : i # 2 => Prefix(s[i]) # 1
  <2>1. \A i \in 1..4 : i = 1 \/ i = 2 \/ i = 3 \/ i = 4
    OBVIOUS
  <2>2. \A i \in 1..4 : i # 2 => Prefix(c[i]) # 1
    BY <1>1, <2>1
  <2> QED BY <1>2, <1>3, <2>2
<1>6. LastWith(words, 1, -1) \in {-1, ModeLights(p)}
  <2>1. CASE 2 \in lost
    <3>1. Never(s, 1)
      BY <1>2, <1>3, <1>5, <2>1 DEF Never
    <3> QED BY <1>2, <1>4, <3>1, ColumnIsFound
  <2>2. CASE 2 \notin lost
    <3>1. Prefix(s[2]) = 1 /\ Val(s[2]) = ModeLights(p)
      BY <1>1, <1>2, <2>2
    <3>2. Once(s, 1, 2)
      BY <1>5, <3>1 DEF Once
    <3> QED BY <1>2, <1>4, <3>1, <3>2, ColumnIsFound
  <2> QED BY <2>1, <2>2
<1> HIDE DEF words
<1> QED BY <1>6, ModeDecoded DEF words, s, c
-----------------------------------------------------------------------------
(* The set points and modes the sketch holds are of the scale and of the   *)
(* five modes, whichever words noise takes away and whatever bytes         *)
(* decodeData finds in its uninitialised locals: nothing is assumed of     *)
(* Junk, and of Damaged only that its words have no known prefix.          *)
THEOREM TypeCorrect == Spec => []TypeOK
<1>1. Init => TypeOK
  BY DEF Init, TypeOK, Modes
<1>2. TypeOK /\ [Next]_vars => TypeOK'
  <2> SUFFICES ASSUME TypeOK, [Next]_vars PROVE TypeOK'
    OBVIOUS
  <2>1. CASE PanelChange
    <3>1. panel' \in [temp : ShownTemps, mode : Modes]
      BY <2>1 DEF PanelChange, TypeOK
    <3> QED BY <2>1, <3>1 DEF PanelChange, TypeOK
  <2>2. CASE ReadFancoilData \/ ReadNoisyData
    <3>1. PICK w : Catch(w)
      BY <2>2 DEF ReadFancoilData, ReadNoisyData
    <3>2. /\ fancoilTemp' \in TempCodes \cup {fancoilTemp}
          /\ fancoilMode' \in Modes \cup {fancoilMode}
      BY <3>1, DecodesToCodes DEF Catch
    <3>3. UNCHANGED panel /\ intact' \in BOOLEAN
      BY <2>2 DEF ReadFancoilData, ReadNoisyData
    <3> QED BY <3>2, <3>3 DEF TypeOK
  <2>3. CASE UNCHANGED vars
    BY <2>3 DEF vars, TypeOK
  <2> QED BY <2>1, <2>2, <2>3 DEF Next
<1> QED BY <1>1, <1>2, PTL DEF Spec

(* The panel is a display of the scale.                                    *)
LEMMA PanelIsDisplay == ASSUME TypeOK PROVE panel \in Displays
BY ShownAssumption DEF TypeOK, Displays

(* readFancoilData decodes what the keypad shows, wherever in the cycle    *)
(* the sampling starts: for every set of set points and all modes.         *)
THEOREM DisplayIsDecoded == Spec => DecodesWhatIsShown
<1> DEFINE Right == intact' /\ UNCHANGED panel =>
                      fancoilTemp' = panel.temp /\ fancoilMode' = panel.mode
<1>1. TypeOK /\ [Next]_vars => [Right]_vars
  <2> SUFFICES ASSUME TypeOK, Next, intact', panel' = panel, vars' # vars
               PROVE  fancoilTemp' = panel.temp /\ fancoilMode' = panel.mode
    OBVIOUS
  <2>1. ReadFancoilData
    BY DEF Next, PanelChange, ReadNoisyData, vars
  <2>2. PICK k \in 0..3, tail \in {0, 1} : Catch(Rotate(Cycle(panel, tail), k))
    BY <2>1 DEF ReadFancoilData
  <2>3. PICK j \in Junk, f \in BOOLEAN :
          LET d == DecodeData(Caught(Cycle(panel, tail), k), fancoilTemp, fancoilMode, j, f)
          IN  fancoilTemp' = d.temp /\ fancoilMode' = d.mode
    BY <2>2 DEF Catch, Caught
  <2>4. DecodeData(Caught(Cycle(panel, tail), k), fancoilTemp, fancoilMode, j, f)
          = [temp |-> panel.temp, mode |-> panel.mode]
    BY PanelIsDisplay, CycleIsDecoded
  <2> QED BY <2>3, <2>4
<1> QED BY <1>1, TypeCorrect, PTL DEF Spec, DecodesWhatIsShown

(* A cycle that lost any of its words never decodes a mode that was not    *)
(* shown, whatever bytes the uninitialised locals hold.                    *)
THEOREM NoiseIsHarmless == Spec => NoiseKeepsMode
<1> DEFINE Kept == ~intact' /\ UNCHANGED panel => fancoilMode' \in {fancoilMode, panel.mode}
<1>1. TypeOK /\ [Next]_vars => [Kept]_vars
  <2> SUFFICES ASSUME TypeOK, Next, ~intact', panel' = panel, vars' # vars
               PROVE  fancoilMode' \in {fancoilMode, panel.mode}
    OBVIOUS
  <2>1. ReadNoisyData
    BY DEF Next, PanelChange, ReadFancoilData, vars
  <2>2. PICK k \in 0..3, lost \in SUBSET (1..4) :
          \E damage \in [lost -> Damaged] : Catch(Rotate(Hurt(Cycle(panel, 1), damage), k))
    BY <2>1 DEF ReadNoisyData
  <2>3. PICK damage \in [lost -> Damaged] : Catch(Rotate(Hurt(Cycle(panel, 1), damage), k))
    BY <2>2
  <2>4. PICK j \in Junk, f \in BOOLEAN :
          fancoilMode' = DecodeData(Caught(Hurt(Cycle(panel, 1), damage), k), fancoilTemp,
                                    fancoilMode, j, f).mode
    BY <2>3 DEF Catch, Caught
  <2> QED BY <2>4, PanelIsDisplay, LostKeepsMode
<1> QED BY <1>1, TypeCorrect, PTL DEF Spec, NoiseKeepsMode
=============================================================================
