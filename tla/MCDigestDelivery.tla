-------------------------- MODULE MCDigestDelivery --------------------------
\* The due hour of two days; the hours between them are left out.
EXTENDS DigestDelivery, TLC

CONSTANTS Monday, Tuesday

MCHour == [t \in 0..LastUnit |->
              IF t < 2 THEN Monday ELSE Tuesday]

\* A bound: at first the settings name every address there is.  (Editing them
\* takes addresses out and puts them back.)
MCInit == Init /\ to = Address
MCSpec == MCInit /\ [][Next]_vars

Symmetry == Permutations(Scheduler) \cup Permutations(Handler)
                \cup Permutations(Address) \cup Permutations(Owner)
=============================================================================
