------------------------------ MODULE RulesMC -------------------------------
(* Small rule files: chains of conditions, timers and nested events.        *)
EXTENDS EspRules

On(n, op, v) == [name |-> n, compare |-> op, value |-> v]
Block(n, op, v) == [on |-> On(n, op, v), body |-> Nothing]
Single(n, b) == [on |-> On(n, " ", 0), body |-> b]
Text(b) == [on |-> NoTrigger, body |-> b]
Do(op, arg, v) == Body("do", "none", [op |-> op, arg |-> arg, value |-> v])
Key(k) == Text(Body(k, "none", NoAct))
Cond(k, c) == Text(Body(k, c, NoAct))

\* A chain of three branches, the first of which changes what decides the second.
Chain == <<Block("Sw", "=", 1), Cond("if", "hot"), Text(Do("write", "hot", FALSE)),
           Text(Do("write", "day", TRUE)),
           Cond("elseif", "day"), Text(Do("event", "Ev", 0)), Key("endif"), Key("endon")>>

\* A timer armed by a switch, that arms itself again.
Rearm == <<Single("Sw", Do("timerset", 1, 2)), Single("Rules#Timer", Do("timerset", 1, 3))>>

\* Pauses it, or runs another file; a pause is ended when its event has come.
Pauses == <<Block("Sw", ">", 0), Cond("if", "hot"), Text(Do("timerpause", 1, 0)),
            Key("else"), Text(Do("executerules", 9, 0)), Key("endif"), Key("endon"),
            Single("Rules#TimerPause", Do("timerresume", 1, 0))>>
Extra == <<Single("*", Do("none", 0, 0))>>

RuleFiles == {Chain, Rearm, Pauses}
Switch == {[name |-> "Sw", value |-> v] : v \in {1}}
=============================================================================
