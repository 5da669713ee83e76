----------------------------- MODULE Agreement ------------------------------
(***************************************************************************)
(* What an agreement gate promises.  A main agent attests revisions; a     *)
(* peer consents to one that was attested, and each new attestation voids  *)
(* the consent before it.  The gate decides at most once, for the revision *)
(* consented to; if the decision is a merge, only after it has landed.     *)
(***************************************************************************)
CONSTANTS Revisions,   \* what can be agreed on
          NoRevision,  \* no revision
          MustLand     \* TRUE iff the decision is a merge

VARIABLES attested, consent, landed, outcome

vars == <<attested, consent, landed, outcome>>

Init == /\ attested = {}
        /\ consent = NoRevision
        /\ landed = NoRevision
        /\ outcome = NoRevision

Attest(r) == /\ outcome = NoRevision
             /\ attested' = attested \cup {r}
             /\ consent' = NoRevision
             /\ UNCHANGED <<landed, outcome>>

Consent(r) == /\ outcome = NoRevision
              /\ consent = NoRevision
              /\ r \in attested
              /\ consent' = r
              /\ UNCHANGED <<attested, landed, outcome>>

Land(r) == /\ landed = NoRevision
           /\ landed' = r
           /\ UNCHANGED <<attested, consent, outcome>>

Decide == /\ outcome = NoRevision
          /\ consent # NoRevision
          /\ MustLand => landed = consent
          /\ outcome' = consent
          /\ UNCHANGED <<attested, consent, landed>>

Next == \/ \E r \in Revisions : Attest(r) \/ Consent(r) \/ Land(r)
        \/ Decide

Spec == Init /\ [][Next]_vars

=============================================================================
