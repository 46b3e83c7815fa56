----------------------------- MODULE AdmitOnce -----------------------------
(***************************************************************************)
(* What single use promises, with no word on how: a credential buys one    *)
(* admission.  The preimage gate (PreimageGate) is shown to implement      *)
(* this.  Tokens may share proofs and outlive their markers, so that       *)
(* CashuGate states more of its proofs, and not this.                      *)
(***************************************************************************)
EXTENDS Naturals

CONSTANT Credential

VARIABLE admissions   \* how often each credential was admitted

Init == admissions = [c \in Credential |-> 0]

Admit(c) ==
    /\ admissions[c] = 0
    /\ admissions' = [admissions EXCEPT ![c] = 1]

Next == \E c \in Credential : Admit(c)

Spec == Init /\ [][Next]_admissions

============================================================================
