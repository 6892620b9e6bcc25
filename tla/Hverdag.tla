-------------------------------- MODULE Hverdag --------------------------------
(***************************************************************************)
(* What the house does beside the list of the month: it reports on its     *)
(* rooms, looks at its pictures, invites to its events and keeps its       *)
(* accounts; and the old site's rows and files are moved under it.         *)
(***************************************************************************)
EXTENDS Overflytning, Medier, Indbydelser, Konti

hverdagVars == <<tjekVars, overVars, medierVars, festVars, kontiVars>>

HverdagInit == TjekInit /\ OverInit /\ MedierInit /\ FestInit /\ KontiInit

Checking == TjekStep /\ UNCHANGED <<overVars, medierVars, festVars, kontiVars>>
MovingIn == OverStep /\ UNCHANGED <<medierVars, festVars, kontiVars>>
Looking == MedierStep /\ UNCHANGED <<tjekVars, overVars, festVars, kontiVars>>
Inviting == FestStep /\ UNCHANGED <<tjekVars, overVars, medierVars, kontiVars>>
Signing == KontiStep /\ UNCHANGED <<tjekVars, overVars, medierVars, festVars>>

HverdagStep == Checking \/ MovingIn \/ Looking \/ Inviting \/ Signing

HverdagTypeOK == TjekTypeOK /\ OverTypeOK /\ MedierTypeOK /\ FestTypeOK /\ KontiTypeOK

================================================================================
