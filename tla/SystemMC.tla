------------------------------ MODULE SystemMC ------------------------------
(* Instances of FancoilSystem: windows of the set points and the modes.    *)
EXTENDS FancoilRefinement
LowPair == {160, 165}
LowTemps == {160, 165, 170, 175}
MidTemps == {250, 255}
EdgeTemps == {255, 260}
=============================================================================
