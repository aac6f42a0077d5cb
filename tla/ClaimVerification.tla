------------------------- MODULE ClaimVerification -------------------------
(***************************************************************************)
(* What a tool response admits as support for an answer, and which         *)
(* generated answers it verifies                                           *)
(* (src/src/disclosure_db/claim_verification.py).                          *)
(*                                                                         *)
(* Evidence identifiers, fact and calculation references, slots and claim  *)
(* identifiers are values of small sets, numbers are integers.  A tool     *)
(* response has the fields                                                 *)
(*   bundle      evidence identifiers in the bundle's order                *)
(*   facts       set of [ref, ids, nums]                                   *)
(*   calcs       set of [ref, ids, operands, right, nums]; right says that *)
(*               the declared value is what calculate returns              *)
(*   slots       set of [id, ids, complete], the evidence_slots of data    *)
(*   explicit    whether data has an evidence_slots field                  *)
(* and a generated answer the fields                                       *)
(*   cites       its top-level citations                                   *)
(*   nums        the numbers in its answer text                            *)
(*   finite      no NaN or Infinity in its answer text                     *)
(*   claims      set of [id, cites, facts, calcs, slots, nums, prose,      *)
(*               finite]: nums is the declared list, prose the numbers in  *)
(*               the claim's text                                          *)
(***************************************************************************)
EXTENDS Integers, Sequences, FiniteSets

LOCAL INSTANCE SequencesExt

EvidenceIds(resp) == ToSet(resp.bundle)

-----------------------------------------------------------------------------
(* Admission: _slot_map, _owned_slots and build_claim_admission            *)

\* The slots whose whole evidence the bundle admits.  Without an explicit
\* contract the whole bundle is the single slot tool_evidence.
SlotMap(resp) ==
    {s \in resp.slots : s.complete /\ s.ids # {} /\ s.ids \subseteq EvidenceIds(resp)}
        \cup IF resp.explicit \/ EvidenceIds(resp) = {} THEN {}
             ELSE {[id |-> "tool_evidence", ids |-> EvidenceIds(resp), complete |-> TRUE]}

OwnedSlots(ids, slots) == {s.id : s \in {t \in slots : ids # {} /\ ids \subseteq t.ids}}

AdmittedFacts(resp) ==
    {f \in resp.facts :
        /\ f.ids \subseteq EvidenceIds(resp)
        /\ OwnedSlots(f.ids, SlotMap(resp)) # {}}

\* An operand needs an admitted fact that holds its value and whose evidence
\* the calculation cites.
OperandSupported(operand, calc, facts) ==
    \E f \in facts : operand \in f.nums /\ f.ids \subseteq calc.ids

AdmittedCalculations(resp) ==
    {c \in resp.calcs :
        /\ c.ids # {} /\ c.ids \subseteq EvidenceIds(resp)
        /\ c.operands # {} /\ c.right
        /\ \A operand \in c.operands : OperandSupported(operand, c, AdmittedFacts(resp))
        /\ OwnedSlots(c.ids, SlotMap(resp)) # {}}

Admission(resp) ==
    [ids |-> EvidenceIds(resp),
     slots |-> SlotMap(resp),
     facts |-> AdmittedFacts(resp),
     calcs |-> AdmittedCalculations(resp),
     rejectedCalcs |-> resp.calcs \ AdmittedCalculations(resp)]

-----------------------------------------------------------------------------
(* verify_generated_claims                                                 *)

Referenced(claim, adm) ==
    {f \in adm.facts : f.ref \in claim.facts} \cup {c \in adm.calcs : c.ref \in claim.calcs}

SlotEvidence(claim, adm) ==
    UNION {s.ids : s \in {t \in adm.slots : t.id \in claim.slots}}

CitationsAdmitted(claim, adm) == claim.cites # {} /\ claim.cites \subseteq adm.ids

SlotsHold(claim, adm) ==
    /\ claim.slots \subseteq {s.id : s \in adm.slots}
    /\ claim.cites \subseteq SlotEvidence(claim, adm)

ReferencesAdmitted(claim, adm) ==
    /\ claim.facts \subseteq {f.ref : f \in adm.facts}
    /\ claim.calcs \subseteq {c.ref : c \in adm.calcs}

\* Faulty variant of SupportCited: the support is admitted, cited or not.
SupportAdmitted(claim, adm) == UNION {x.ids : x \in Referenced(claim, adm)} \subseteq adm.ids

SupportCited(claim, adm) ==
    UNION {x.ids : x \in Referenced(claim, adm)}
        \subseteq claim.cites \cap SlotEvidence(claim, adm)

NumbersGrounded(claim, adm) ==
    /\ claim.finite
    /\ claim.nums \subseteq UNION {x.nums : x \in Referenced(claim, adm)}
    /\ claim.prose \subseteq claim.nums

ClaimHolds(claim, adm) ==
    /\ CitationsAdmitted(claim, adm)
    /\ SlotsHold(claim, adm)
    /\ ReferencesAdmitted(claim, adm)
    /\ SupportCited(claim, adm)
    /\ NumbersGrounded(claim, adm)

\* The caller checks the policy and the conclusion of the answer text.
Verified(gen, adm, policyOk, conclusionOk) ==
    /\ gen.claims # {}
    /\ \A c, d \in gen.claims : c.id = d.id => c = d
    /\ \A c \in gen.claims : ClaimHolds(c, adm)
    /\ gen.cites # {} /\ gen.cites \subseteq adm.ids
    /\ gen.cites = UNION {c.cites : c \in gen.claims}
    /\ gen.finite
    /\ gen.nums \subseteq UNION {c.nums : c \in gen.claims}
    /\ policyOk /\ conclusionOk
=============================================================================
