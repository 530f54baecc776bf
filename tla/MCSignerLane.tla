---------------------------- MODULE MCSignerLane ----------------------------
EXTENDS SignerLane
CONSTANTS close, validity

\* Anyone may carry out a step of a close; of a validity publication, its finalize.
MCContested == ({close} \X (1 .. Steps)) \cup {<<validity, Steps>>}

\* A different close takes the place of this one after its attestation; another
\* candidate, or the removal of this one, the place of a validity publication.
MCObstructable == ({close} \X (2 .. Steps)) \cup {<<validity, 1>>, <<validity, Steps>>}
=============================================================================
