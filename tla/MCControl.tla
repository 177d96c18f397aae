----------------------------- MODULE MCControl ------------------------------
(* Three components that must get on: the reconfiguration lock, the mode   *)
(* switch and the backpressure gate.  They are checked in one run and      *)
(* explored one at a time: a behaviour picks one (part), and the others    *)
(* stay at their beginning, where no fair action of theirs is enabled.     *)
(* The states add up, they do not multiply.                                *)
EXTENDS MCReconfigure, ModeSwitch, Backpressure

CONSTANTS ws, rtc, s1, s2

VARIABLE part

controlVars == <<part, vars, modeVars, backpressureVars>>

ControlInit ==
  /\ part \in {"lock", "modes", "gate"}
  /\ Init /\ ModesInit /\ BackpressureInit

ControlNext ==
  /\ UNCHANGED part
  /\ \/ /\ part = "lock" /\ Next
        /\ UNCHANGED <<modeVars, backpressureVars>>
     \/ /\ part = "modes" /\ ModesNext
        /\ UNCHANGED <<vars, backpressureVars>>
     \/ /\ part = "gate" /\ BackpressureNext
        /\ UNCHANGED <<vars, modeVars>>

ControlSpec ==
  /\ ControlInit /\ [][ControlNext]_controlVars
  /\ Fairness /\ ModesFairness /\ BackpressureFairness
=============================================================================
