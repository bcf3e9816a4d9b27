---------------------- MODULE MCMessageAdministration ----------------------
\* Instances of MessageAdministration: two messages, two callers.
EXTENDS MessageAdministration

CONSTANTS c1, c2, m1, m2, r1, r2, s1, s2

MCConsumer == {c1, c2}
MCMessageId == {m1, m2}
MCCaller == {r1, r2}
MCStamp == {s1, s2}

\* Messages, consumers, callers and stamps are interchangeable.
MCSymmetry == Permutations(MCMessageId) \union Permutations(MCCaller)
                \union Permutations(MCStamp) \union Permutations(MCConsumer)
=============================================================================
