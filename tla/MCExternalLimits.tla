-------------------------- MODULE MCExternalLimits --------------------------
EXTENDS ExternalLimits, TLC

Symmetry == Permutations(Requests) \cup Permutations(Keys)

Answer(age, no, exp, bodyNo, bodyAge) ==
    [maxAge |-> age, noStore |-> no, expires |-> exp,
     bodyNoStore |-> bodyNo, bodyMaxAge |-> bodyAge]

\* One answer per branch of the TTL resolution.
MCResponses ==
    {Answer(1, TRUE, Nil, FALSE, 0), Answer(0, TRUE, 1, FALSE, 1),
     Answer(0, FALSE, 0, FALSE, 1), Answer(0, FALSE, Nil, TRUE, 1),
     Answer(0, FALSE, Nil, FALSE, 1)}
=============================================================================
