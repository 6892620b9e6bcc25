-------------------------------- MODULE Omfang --------------------------------
(***************************************************************************)
(* The bound that the modules of the intranet's month share: a behaviour   *)
(* stays within one of the mixes of events in Mixes.  It bounds how often  *)
(* anything happens, and decides nothing about what happens then.          *)
(***************************************************************************)
EXTENDS Naturals

CONSTANTS
    Kinds,   \* the kinds of events
    Mixes    \* bound: the mixes of events that happen

ASSUME OmfangAssumption == Mixes \subseteq [Kinds -> Nat]

VARIABLES
    mix,     \* the mix of this behaviour, which never changes
    made     \* how many events of each kind there have been

NothingMade ==
    /\ mix \in Mixes
    /\ made = [k \in Kinds |-> 0]

\* One more is within the bound: a guard of Make, for TLC to ask before it enumerates parameters.
Within(k) == made[k] < mix[k]

Make(k) ==
    /\ made[k] < mix[k]
    /\ made' = [made EXCEPT ![k] = @ + 1]

OmfangTypeOK == mix \in Mixes /\ made \in [Kinds -> Nat]

==============================================================================
