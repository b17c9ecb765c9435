-------------------------- MODULE MCRefreshSessions --------------------------
(* One instance of RefreshSessions for TLC, explored in three parts side by  *)
(* side: two requests at a time without a change of the password; the same   *)
(* with one, over two tokens; one request at a time.                         *)
EXTENDS RefreshSessions, TLC

CONSTANTS p1, p2

VARIABLE part       \* the part of the instance that is explored

\* Requests come one after the other.
OneAtATime == \A p, q \in Proc : op[p].pc # "idle" /\ op[q].pc # "idle" => p = q

WithinPart ==
    /\ part = "race" => \A p \in Proc : op[p].kind # "change"
    /\ part = "change" => issued + Cardinality(Issuing) <= 2
    /\ part = "serial" => OneAtATime

RefreshInit == Init /\ part \in {"race", "change", "serial"}

RefreshNext == UNCHANGED part /\ Next /\ WithinPart'

RefreshSpec == RefreshInit /\ [][RefreshNext]_<<part, vars>>

ProcSymmetry == Permutations({p1, p2})

-----------------------------------------------------------------------------
(* Properties.                                                              *)

\* RotateRefreshUseCase, LogoutUseCase, SetOrChangePasswordUseCase, one at a
\* time: a family has one usable token, and what ended leaves none.
SerialFamilies == part = "serial" => OneActivePerFamily /\ EndedIsDead
=============================================================================
