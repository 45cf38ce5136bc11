------------------------------- MODULE OneLook ------------------------------
(***************************************************************************)
(* What the Stage A fixture promises of an observation that takes many     *)
(* calls while others act on what is observed: it is as good as one look.  *)
(* There is one moment, during the observation, and the answer is what was *)
(* true at that moment; or the observation gives up.  An answer once given *)
(* is not taken back.                                                      *)
(***************************************************************************)
CONSTANT GaveUp

VARIABLES
    truth,   \* what one look would find now
    kept,    \* what the look found
    phase,   \* "looking", "looked" or "done"
    answer

vars == <<truth, kept, phase, answer>>

Init == phase = "looking" /\ answer = GaveUp

\* Others act.
World == UNCHANGED <<kept, phase, answer>>

Look ==
    /\ phase = "looking" /\ phase' = "looked"
    /\ kept' = truth
    /\ UNCHANGED <<truth, answer>>

Answer ==
    /\ phase = "looked" /\ phase' = "done"
    /\ answer' = kept
    /\ UNCHANGED <<truth, kept>>

GiveUp ==
    /\ phase # "done" /\ phase' = "done"
    /\ answer' = GaveUp
    /\ UNCHANGED <<truth, kept>>

Next == World \/ Look \/ Answer \/ GiveUp

Spec == Init /\ [][Next]_vars
=============================================================================
