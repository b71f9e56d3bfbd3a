------------------------------ MODULE InMemory ------------------------------
(***************************************************************************)
(* What one process keeps in memory, one call at a time: the hash tables   *)
(* (HashTables), the cells kept by increments (IncrementalState) and the   *)
(* address index (AddressIndex).  None reads what another keeps.           *)
(***************************************************************************)
EXTENDS DependencyCascade, HashTables, AddressIndex

VARIABLES known, state    \* facts, and the cells about them

Cells == INSTANCE IncrementalState WITH facts <- known

-----------------------------------------------------------------------------
InMemoryInit == TablesInit /\ Cells!Init /\ AddressInit

TablesStep  == TablesNext /\ UNCHANGED <<known, state, addressVars>>
CellsStep   == Cells!Next /\ UNCHANGED <<tvars, addressVars>>
AddressStep == AddressNext /\ UNCHANGED <<tvars, known, state>>

InMemoryNext == TablesStep \/ CellsStep \/ AddressStep

InMemorySpec == InMemoryInit /\ [][InMemoryNext]_<<tvars, known, state, addressVars>>

-----------------------------------------------------------------------------
(* Properties *)

\* A cell kept by increments answers as reconciling everything would
\* (IncrementalState): incremental.py:36-41.
AnswersAreReconciled == Cells!AnswersAreReconciled
=============================================================================
