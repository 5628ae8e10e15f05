------------------------- MODULE MCHalStateMachine -------------------------
(* Instances of HalStateMachine: parameter values and sets of calls.       *)

EXTENDS HalStateMachineApi, TLC

P(z, h, o) == [zsl |-> z, hint |-> h, other |-> o]
Plain == {P(FALSE, FALSE, FALSE)}
ZslParams == Plain \cup {P(TRUE, FALSE, FALSE), P(FALSE, FALSE, TRUE)}
ModeParams == Plain \cup {P(TRUE, FALSE, FALSE)}
HintParams == Plain \cup {P(FALSE, TRUE, FALSE)}

AllCalls == ApiEvt
NoLongshot == ApiEvt \ CommandEvts
PictureCalls ==
    {"SET_PARAMS", "START_PREVIEW", "START_NODISPLAY_PREVIEW", "STOP_PREVIEW",
     "PREPARE_SNAPSHOT", "TAKE_PICTURE", "CANCEL_PICTURE"}

Symmetry == Permutations(Caller)
=============================================================================
