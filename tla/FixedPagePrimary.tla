------------------------- MODULE FixedPagePrimary -------------------------
(***************************************************************************)
(* FixedPagePrimaryStore (storage/fixed_page_primary.py): the table of     *)
(* PrimaryTable on dual-copy pages, each logical page at its own place in  *)
(* the file.  How a plan reaches the file, and what a crash makes of it,   *)
(* is DualCopyPages.                                                       *)
(***************************************************************************)
EXTENDS DualCopyPages, PrimaryTable

ASSUME InitMetaAssumption == InitMeta = FirstMeta

VARIABLES
  call,            \* the key whose insert() is running
  owed,            \* the key of the last insert() a fault cut short
  acked            \* the keys insert() has returned for

vars == <<super, copies, dsuper, dcopies, tx, call, owed, acked>>

-----------------------------------------------------------------------------
(* The store *)

PlanNow(k) == Plan(Visible.pages, Visible.meta, k)
Members == {k \in Key : Found(Visible.pages, Visible.meta, k)}

\* Mutant of CallerInserts: the caller moves on after a fault.
CallerInserts_Any(k) == tx.phase = "idle"

\* RetryFirst: the caller of an interrupted insert() repeats it before any
\* other.  It is an assumption on the caller; the store does not enforce it.
CallerInserts(k) == tx.phase = "idle" /\ (RetryFirst => owed \in {NoKey, k})

\* insert(k) up to its first page write.  MaxEpoch and the number of pages
\* bound the run.
Insert(k) ==
  /\ CallerInserts(k)
  /\ \E plan \in {PlanNow(k)} :
       /\ plan.outcome = "commit"
       /\ plan.meta.nextPage - 1 \in Page
       /\ BeginTx(plan.changes, plan.meta)
  /\ call' = k
  /\ UNCHANGED <<owed, acked>>

\* insert(k) of a key that is there returns without writing.
InsertDuplicate(k) ==
  /\ CallerInserts(k)
  /\ PlanNow(k).outcome = "duplicate"
  /\ acked' = acked \cup {k}
  /\ owed' = IF owed = k THEN NoKey ELSE owed
  /\ UNCHANGED <<super, copies, dsuper, dcopies, tx, call>>

\* One step of the transaction in flight that is not its last.
Advance ==
  /\ (\E p \in Page : WritePage(p)) \/ SyncData \/ WriteSuper \/ Writeback
  /\ UNCHANGED <<call, owed, acked>>

Return ==
  /\ SyncSuper
  /\ acked' = acked \cup {call}
  /\ owed' = IF owed = call THEN NoKey ELSE owed
  /\ call' = NoKey

\* A fault; the process reopens the file.  recover() only audits.
Fault ==
  /\ ProcessCrash \/ PowerLoss
  /\ owed' = IF call = NoKey THEN owed ELSE call
  /\ call' = NoKey
  /\ UNCHANGED acked

Init ==
  /\ PagesInit
  /\ call = NoKey /\ owed = NoKey /\ acked = {}

Next ==
  \/ \E k \in Key : Insert(k) \/ InsertDuplicate(k)
  \/ Advance
  \/ Return
  \/ Fault

Spec == Init /\ [][Next]_vars

-----------------------------------------------------------------------------
(* Properties *)

\* Every non-empty slot of a generation, as <<page, slot, key>>.
Rows(img, g) ==
  UNION {LET keys == IF p = StashPage(g) THEN Stash(img, g) ELSE Bucket(img, p)
         IN  {<<p, i, keys[i]>> : i \in DOMAIN keys \ Free(keys)} : p \in PagesOf(g)}

\* The pages, the metadata and the call in flight have their types.
TypeOK ==
  /\ PagesTypeOK
  /\ call \in Key \cup {NoKey} /\ owed \in Key \cup {NoKey}
  /\ acked \subseteq Key
  /\ call = NoKey <=> tx.phase = "idle"

\* audit(), of a snapshot of the store: no key is stored twice and the
\* counters of the superblock agree with the rows of either generation.
Audited(view) ==
  LET m   == view.meta
      cur == Rows(view.pages, m.cur)
      old == Rows(view.pages, m.old)
  IN  /\ Cardinality(cur) = m.cur.rows
      /\ Cardinality(old) = m.old.rows
      /\ Cardinality(cur \cup old) = m.live
      /\ \A r, q \in cur \cup old : r[3] = q[3] => r = q

\* Every state a crash can expose passes the audit.
AuditValid == Audited(Visible)

\* A key whose insert() returned is found by lookup() from then on, whatever
\* faults and insertions follow ("lost a pre-existing primary key").
AckedKeysAreFound == acked \subseteq Members

\* Conversely a key that lookup() finds was asked for: it was acknowledged, or
\* it is the one whose insert() is running or was cut short.
MembershipIsExact ==
  LET found == Members
  IN  acked \subseteq found /\ found \subseteq acked \cup {call, owed}

\* The slot budget sweeps the old generation behind the cursor: a migration
\* never completes over rows it has not moved ("broken"), and the new
\* generation never fills up before it does (every insertion would then be
\* refused for good, since only an insertion advances the migration).
MigrationKeepsPace ==
  LET m == Visible.meta
      swept == {r \in Rows(Visible.pages, m.old) :
                  IF r[1] = StashPage(m.old) THEN m.old.cap + r[2] < m.cursor
                  ELSE (r[1] - m.old.base) * BucketSize + r[2] < m.cursor}
  IN  /\ swept = {}
      /\ m.old # NoGen => ~Backlog(m)
      /\ tx.phase = "idle" => \A k \in Key : PlanNow(k).outcome # "broken"

\* A repeated insert() rewrites every page the interrupted one had written.
\* It is what lets the abandoned copies be reused epoch and all.
RetryRewritesStalePages ==
  [][tx.phase = "idle" /\ tx'.phase = "writing" => Stale \subseteq DOMAIN tx'.changes]_vars
=============================================================================
