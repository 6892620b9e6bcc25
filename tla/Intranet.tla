------------------------------- MODULE Intranet -------------------------------
(***************************************************************************)
(* The intranet's month: everything that reads the list of a month or the  *)
(* roles that go with it, on one list.                                     *)
(*                                                                         *)
(* The room lottery and Indstillingen's editor write the list; AK books    *)
(* it, the others ask it who may do what and who belongs where.  The page  *)
(* of a reader, with its panel of a thread and the fingers on it, is a     *)
(* browser's own.                                                          *)
(***************************************************************************)
EXTENDS Soegvaerelse, Ak, Reparationer, DenHurtige, Opslagstavlen, Gestus, Admissions,
        Cms, Hverdag

vars == <<listVars, soegVars, akVars, repVars, dhVars, opsVars, readerVars, admVars, cmsVars,
          hverdagVars, mix, made>>

Init ==
    /\ ListInit /\ SoegInit /\ AkInit /\ RepInit /\ DhInit /\ OpsInit /\ ReaderInit /\ AdmInit
    /\ CmsInit /\ HverdagInit
    /\ NothingMade
    /\ mix["open"] = 0 => trail[1].traad = Nothing   \* a link matters to the panel alone

Rooming ==
    /\ (SoegStep \/ EditStep)
    /\ UNCHANGED <<akVars, repVars, dhVars, opsVars, readerVars, admVars, cmsVars, hverdagVars>>
Deducting ==
    /\ AkStep
    /\ UNCHANGED <<soegVars, repVars, dhVars, opsVars, readerVars, admVars, cmsVars, hverdagVars>>
Repairing ==
    /\ RepStep
    /\ UNCHANGED <<soegVars, akVars, dhVars, opsVars, readerVars, admVars, cmsVars, hverdagVars>>
Posting ==
    /\ DhStep
    /\ UNCHANGED <<soegVars, akVars, repVars, opsVars, readerVars, admVars, cmsVars, hverdagVars>>
Noticing ==
    /\ OpsStep
    /\ UNCHANGED <<soegVars, akVars, repVars, dhVars, readerVars, admVars, cmsVars, hverdagVars>>
Reading ==
    /\ ReaderStep
    /\ UNCHANGED <<listVars, soegVars, akVars, repVars, dhVars, opsVars, admVars, cmsVars, hverdagVars>>
Admitting ==
    /\ AdmStep
    /\ UNCHANGED <<soegVars, akVars, repVars, dhVars, opsVars, readerVars, cmsVars, hverdagVars>>
Publishing ==
    /\ CmsStep
    /\ UNCHANGED <<soegVars, akVars, repVars, dhVars, opsVars, readerVars, admVars, hverdagVars>>
Living ==
    /\ HverdagStep
    /\ UNCHANGED <<soegVars, akVars, repVars, dhVars, opsVars, readerVars, admVars, cmsVars>>

Next ==
    \/ Rooming \/ Deducting \/ Repairing \/ Posting \/ Noticing \/ Reading \/ Admitting
    \/ Publishing \/ Living

Spec == Init /\ [][Next]_vars /\ AkFairness /\ DhFairness

TypeOK ==
    /\ OmfangTypeOK
    /\ ListTypeOK /\ SoegTypeOK /\ AkTypeOK /\ RepTypeOK
    /\ DhTypeOK /\ OpsTypeOK /\ ReaderTypeOK /\ AdmTypeOK
    /\ CmsTypeOK /\ HverdagTypeOK

===============================================================================
