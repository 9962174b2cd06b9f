-------------------------- MODULE PolicyAuthority --------------------------
(***************************************************************************)
(* What a Core instance promises about the policy in force: there is       *)
(* always exactly one, it is replaced only by one with a higher sequence   *)
(* number in the same trust scope, and retiring the instance is final.     *)
(***************************************************************************)
EXTENDS Integers

CONSTANTS Payloads, TrustScope, NoPolicy

VARIABLES policy, retired

Init ==
    /\ retired = FALSE
    /\ policy \in {p \in Payloads : p.scope = TrustScope}

Advance ==
    /\ ~retired
    /\ policy' \in {p \in Payloads : /\ p.scope = TrustScope
                                     /\ p.sequence > policy.sequence}
    /\ UNCHANGED retired

Retire ==
    /\ ~retired
    /\ retired' = TRUE
    /\ policy' = NoPolicy

Next == Advance \/ Retire

Spec == Init /\ [][Next]_<<policy, retired>>
=============================================================================
