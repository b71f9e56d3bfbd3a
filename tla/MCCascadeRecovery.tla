------------------------- MODULE MCCascadeRecovery -------------------------
(* CascadeRecovery with sets TLC can enumerate. *)
EXTENDS CascadeRecovery, TLC

Symmetry ==
  Permutations(Assertion) \cup Permutations(Subject) \cup Permutations(Object)
    \cup Permutations(Payload)

\* The run starts with everything recorded, all of it about one subject, and no
\* two assertions agreed: the mutations allowed move, change or delete any of it.
MCInit ==
  /\ Init
  /\ \A e \in Evidence : facts.evidence[e] # None
  /\ \E s \in Subject : \A a \in Assertion :
        facts.assertion[a].subject = s /\ facts.assertion[a].evidence = Evidence
  /\ \A a, b \in Assertion : a # b => facts.assertion[a].object # facts.assertion[b].object

MCSpec == MCInit /\ [][Next]_vars
=============================================================================
