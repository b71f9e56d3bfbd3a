-------------------------- MODULE MCRetirementArena --------------------------
EXTENDS RetirementArena

MCPage == 0 .. 2
=============================================================================
