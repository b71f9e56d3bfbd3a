-------------------------- MODULE MCSubjectProfile --------------------------
(* Two bootstrapped entities that exchange assertions of two predicates.    *)
EXTENDS SubjectProfile

MCSubject   == {0, 1}
MCPredicate == {"deadline", "launch_date"}
=============================================================================
