------------------------------ MODULE DecodeMC ------------------------------
(* Set points of both LED columns: a pair within a column, the pair across *)
(* the columns (225), and the two ends of the scale, which have no LED.    *)
EXTENDS FancoilDecode
MCShownTemps == {155, 165, 225, 285}
(* Nothing, the LEDs of 17.5 degrees, and no LEDs of the table.            *)
MCJunk == {0, 24, 255}
(* The prefix of no column of the display.                                 *)
MCDamaged == {4096 + 9 * 256 + 48}
=============================================================================
