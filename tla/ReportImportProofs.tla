-------------------------- MODULE ReportImportProofs --------------------------
(***************************************************************************)
(* Proofs about the report import, its migration and the common import,    *)
(* for every number of facilities, courses, imports, jobs and calls, and   *)
(* every set of legacy rows.                                               *)
(***************************************************************************)
EXTENDS ReportImport, TLAPS

-----------------------------------------------------------------------------
(* The table. *)

Unique(R) == \A x, y \in R : Key(x) = Key(y) => x = y

\* ON DUPLICATE KEY UPDATE keeps one row per key.
LEMMA UpsertedUnique ==
  ASSUME NEW old, NEW new, Unique(old), Unique(new)
  PROVE  Unique(Upserted(old, new))
  BY DEF Unique, Upserted, Keys

LEMMA LegacyUnique ==
  ASSUME NEW R \in SUBSET Legacy
  PROVE  Unique(R)
  BY LegacyAssumption DEF Unique, Key

\* A file's rows: one per half-day, in the bucket its facility is linked to.
LEMMA NewRows ==
  ASSUME NEW r \in Requests, link[r] \in Links[r]
  PROVE  /\ New(r) \subseteq Row /\ Unique(New(r))
         /\ \A x \in New(r) : x.fac \in FacsOf(r) /\ x.file = r
         /\ FacsOf(r) \subseteq Facs
         /\ FacsOf(r) # {} => New(r) # {}
<1>1. /\ \A f \in Facs : link[r][f] \in Courses \cup {f}
      /\ \A f, g \in Facs : f # g => link[r][f] # link[r][g]
  BY LinksAssumption DEF OneToOne
<1>2. \A h \in HalfDays[r] : h[1] \in Facs /\ h[2] \in Slots /\ h = <<h[1], h[2]>>
  BY FilesAssumption
<1>3. New(r) \subseteq Row
  BY <1>1, <1>2 DEF New, Row, Buckets
<1>4. Unique(New(r))
  <2> SUFFICES ASSUME NEW g \in HalfDays[r], NEW h \in HalfDays[r],
                      link[r][g[1]] = link[r][h[1]], g[2] = h[2]
               PROVE  g = h
    BY DEF Unique, New, Key
  <2> QED  BY <1>1, <1>2
<1>5. \A x \in New(r) : x.fac \in FacsOf(r) /\ x.file = r
  BY DEF New, FacsOf
<1>6. FacsOf(r) \subseteq Facs /\ (FacsOf(r) # {} => New(r) # {})
  BY <1>2 DEF FacsOf, New
<1> QED  BY <1>3, <1>4, <1>5, <1>6

-----------------------------------------------------------------------------
(* Types *)

\* Only legacy rows are ever seeded.
SeedOK == \A i \in Imports : req[i].pc = "seed" => req[i].seen \subseteq Legacy
TypeInv == TypeOK /\ SeedOK

LEMMA TypeStep ==
  ASSUME TypeInv, [Next]_vars
  PROVE  TypeInv'
<1>1. ASSUME NEW c \in Courses, Flip(c) PROVE TypeInv'
  BY <1>1, FlipsAssumption DEF Flip, TypeInv, TypeOK, SeedOK
<1>2. ASSUME NEW i \in Imports, Import(i) PROVE TypeInv'
  <2>1. req' \in [Imports -> [pc : {"idle", "check", "legacy", "seed", "load", "write", "done",
                                    "failed"},
                              seen : SUBSET Row, courses : SUBSET Courses]]
    BY <1>2 DEF Import, Step, TypeInv, TypeOK
  <2>2. SeedOK'
    BY <1>2 DEF Import, Step, TypeInv, TypeOK, SeedOK
  <2> QED  BY <1>2, <2>1, <2>2 DEF Import, Enter, TypeInv, TypeOK
<1>3. ASSUME NEW i \in Imports, HasRows(i) PROVE TypeInv'
  <2>1. req' \in [Imports -> [pc : {"idle", "check", "legacy", "seed", "load", "write", "done",
                                    "failed"},
                              seen : SUBSET Row, courses : SUBSET Courses]]
    BY <1>3 DEF HasRows, Move, Step, TypeInv, TypeOK
  <2>2. SeedOK'
    BY <1>3 DEF HasRows, Move, Step, TypeInv, TypeOK, SeedOK
  <2> QED  BY <1>3, <2>1, <2>2 DEF HasRows, Move, Enter, TypeInv, TypeOK
<1>4. ASSUME NEW i \in Imports, ReadLegacy(i) PROVE TypeInv'
  <2>1. req' \in [Imports -> [pc : {"idle", "check", "legacy", "seed", "load", "write", "done",
                                    "failed"},
                              seen : SUBSET Row, courses : SUBSET Courses]]
    BY <1>4, LegacyAssumption DEF ReadLegacy, Move, Step, TypeInv, TypeOK, ShownOf
  <2>2. SeedOK'
    BY <1>4 DEF ReadLegacy, Move, Step, TypeInv, TypeOK, SeedOK, ShownOf
  <2> QED  BY <1>4, <2>1, <2>2 DEF ReadLegacy, Move, Enter, TypeInv, TypeOK
<1>5. ASSUME NEW i \in Imports, Seed(i) PROVE TypeInv'
  <2>1. req' \in [Imports -> [pc : {"idle", "check", "legacy", "seed", "load", "write", "done",
                                    "failed"},
                              seen : SUBSET Row, courses : SUBSET Courses]]
    BY <1>5 DEF Seed, Move, Step, TypeInv, TypeOK
  <2>2. SeedOK'
    BY <1>5 DEF Seed, Move, Step, TypeInv, TypeOK, SeedOK
  <2>3. store' \subseteq Row /\ Unique(store')
    <3>1. req[i].seen \in SUBSET Legacy
      BY <1>5 DEF Seed, TypeInv, SeedOK
    <3>2. Unique(store) /\ store \subseteq Row
      BY DEF TypeInv, TypeOK, Unique
    <3>3. Unique(Upserted(store, req[i].seen))
      BY <3>1, <3>2, LegacyUnique, UpsertedUnique
    <3> QED  BY <1>5, <3>1, <3>2, <3>3, LegacyAssumption DEF Seed, Upserted
  <2> QED  BY <1>5, <2>1, <2>2, <2>3 DEF Seed, Move, TypeInv, TypeOK, Unique
<1>6. ASSUME NEW i \in Imports, Load(i) PROVE TypeInv'
  <2>1. req' \in [Imports -> [pc : {"idle", "check", "legacy", "seed", "load", "write", "done",
                                    "failed"},
                              seen : SUBSET Row, courses : SUBSET Courses]]
    BY <1>6 DEF Load, Move, Step, TypeInv, TypeOK
  <2>2. SeedOK'
    BY <1>6 DEF Load, Move, Step, TypeInv, TypeOK, SeedOK
  <2> QED  BY <1>6, <2>1, <2>2 DEF Load, Move, Enter, TypeInv, TypeOK
<1>7. ASSUME NEW i \in Imports, Write(i) PROVE TypeInv'
  <2>1. req' \in [Imports -> [pc : {"idle", "check", "legacy", "seed", "load", "write", "done",
                                    "failed"},
                              seen : SUBSET Row, courses : SUBSET Courses]]
    BY <1>7 DEF Write, Move, Step, TypeInv, TypeOK
  <2>2. SeedOK'
    BY <1>7 DEF Write, Move, Step, TypeInv, TypeOK, SeedOK
  <2>3. store' \subseteq Row /\ Unique(store')
    <3> DEFINE kept == {x \in store : Key(x) \notin Keys(Stale(req[i].seen, i))}
    <3>1. Unique(kept) /\ kept \subseteq Row
      BY DEF TypeInv, TypeOK, Unique
    <3>2. New(i) \subseteq Row /\ Unique(New(i))
      BY NewRows DEF TypeInv, TypeOK, Requests
    <3> HIDE DEF kept
    <3>3. Unique(Upserted(kept, New(i)))
      BY <3>1, <3>2, UpsertedUnique
    <3> QED  BY <1>7, <3>1, <3>2, <3>3 DEF Write, Upserted, kept
  <2>4. last' \in [Facs -> Requests \cup {OldFile}]
    BY <1>7 DEF Write, TypeInv, TypeOK, Requests
  <2> QED  BY <1>7, <2>1, <2>2, <2>3, <2>4 DEF Write, Move, TypeInv, TypeOK, Unique
<1>8. ASSUME NEW i \in Imports, ImportFails(i) PROVE TypeInv'
  <2>1. req' \in [Imports -> [pc : {"idle", "check", "legacy", "seed", "load", "write", "done",
                                    "failed"},
                              seen : SUBSET Row, courses : SUBSET Courses]]
    BY <1>8 DEF ImportFails, Move, Step, TypeInv, TypeOK
  <2>2. SeedOK'
    BY <1>8 DEF ImportFails, Move, Step, TypeInv, TypeOK, SeedOK
  <2> QED  BY <1>8, <2>1, <2>2 DEF ImportFails, Move, Enter, TypeInv, TypeOK
<1>9. CASE Migrate
  <2>1. mig' \in [pc : {"idle", "check", "legacy", "seed", "verify", "delete"},
                  want : SUBSET Legacy, seen : SUBSET Legacy, courses : SUBSET Courses]
    BY <1>9 DEF Migrate, TypeInv, TypeOK, NoMigration, ShownOf
  <2> QED  BY <1>9, <2>1 DEF Migrate, Enter, TypeInv, TypeOK, SeedOK
<1>10. CASE MigrateHasRows
  <2>1. mig' \in [pc : {"idle", "check", "legacy", "seed", "verify", "delete"},
                  want : SUBSET Legacy, seen : SUBSET Legacy, courses : SUBSET Courses]
    BY <1>10 DEF MigrateHasRows, MigrateTo, TypeInv, TypeOK, NoMigration
  <2> QED  BY <1>10, <2>1 DEF MigrateHasRows, MigrateTo, Enter, TypeInv, TypeOK, SeedOK
<1>11. CASE MigrateReadLegacy
  <2>1. mig' \in [pc : {"idle", "check", "legacy", "seed", "verify", "delete"},
                  want : SUBSET Legacy, seen : SUBSET Legacy, courses : SUBSET Courses]
    BY <1>11 DEF MigrateReadLegacy, MigrateTo, TypeInv, TypeOK, NoMigration, ShownOf
  <2> QED  BY <1>11, <2>1 DEF MigrateReadLegacy, MigrateTo, Enter, TypeInv, TypeOK, SeedOK
<1>12. CASE MigrateSeed
  <2>1. mig' \in [pc : {"idle", "check", "legacy", "seed", "verify", "delete"},
                  want : SUBSET Legacy, seen : SUBSET Legacy, courses : SUBSET Courses]
    BY <1>12 DEF MigrateSeed, MigrateTo, TypeInv, TypeOK, NoMigration
  <2>2. store' \subseteq Row /\ Unique(store')
    <3>1. mig.seen \in SUBSET Legacy /\ Unique(store) /\ store \subseteq Row
      BY DEF TypeInv, TypeOK, Unique
    <3>2. Unique(Upserted(store, mig.seen))
      BY <3>1, LegacyUnique, UpsertedUnique
    <3> QED  BY <1>12, <3>1, <3>2, LegacyAssumption DEF MigrateSeed, Upserted
  <2> QED  BY <1>12, <2>1, <2>2 DEF MigrateSeed, MigrateTo, Enter, TypeInv, TypeOK, SeedOK, Unique
<1>13. CASE Verify
  <2>1. mig' \in [pc : {"idle", "check", "legacy", "seed", "verify", "delete"},
                  want : SUBSET Legacy, seen : SUBSET Legacy, courses : SUBSET Courses]
    BY <1>13 DEF Verify, MigrateTo, TypeInv, TypeOK, NoMigration
  <2> QED  BY <1>13, <2>1 DEF Verify, MigrateTo, Enter, TypeInv, TypeOK, SeedOK
<1>14. CASE DeleteKey
  <2>1. mig' \in [pc : {"idle", "check", "legacy", "seed", "verify", "delete"},
                  want : SUBSET Legacy, seen : SUBSET Legacy, courses : SUBSET Courses]
    BY <1>14 DEF DeleteKey, TypeInv, TypeOK, NoMigration
  <2> QED  BY <1>14, <2>1 DEF DeleteKey, Enter, TypeInv, TypeOK, SeedOK
<1>15. CASE MigrateFails
  <2>1. mig' \in [pc : {"idle", "check", "legacy", "seed", "verify", "delete"},
                  want : SUBSET Legacy, seen : SUBSET Legacy, courses : SUBSET Courses]
    BY <1>15 DEF MigrateFails, TypeInv, TypeOK, NoMigration
  <2> QED  BY <1>15, <2>1 DEF MigrateFails, Enter, TypeInv, TypeOK, SeedOK
<1>16. ASSUME NEW j \in Jobs, Ready(j) PROVE TypeInv'
  <2>1. job' \in [Jobs -> [status : {"absent", "validating", "ready", "committed"},
                           rows : SUBSET (Facs \X Slots),
                           before : SUBSET [fac : Facs, rows : SUBSET Row],
                           staged : SUBSET (Facs \X Slots)]]
    BY <1>16 DEF Ready, Jobbed, TypeInv, TypeOK
  <2>2. \A g \in Jobs : job'[g].rows \subseteq HalfDays[g] /\ job'[g].staged \subseteq job'[g].rows
    BY <1>16 DEF Ready, Jobbed, TypeInv, TypeOK
  <2> QED  BY <1>16, <2>1, <2>2 DEF Ready, Jobbed, TypeInv, TypeOK, SeedOK
<1>17. ASSUME NEW j \in Jobs, Confirm(j) PROVE TypeInv'
  BY <1>17 DEF Confirm, TypeInv, TypeOK, SeedOK
<1>18. ASSUME NEW j \in Jobs, Withdraw(j) PROVE TypeInv'
  BY <1>18 DEF Withdraw, TypeInv, TypeOK, SeedOK
<1>19. ASSUME NEW j \in Jobs, NEW h \in HalfDays[j], Validate(j, h) PROVE TypeInv'
  <2>1. job' \in [Jobs -> [status : {"absent", "validating", "ready", "committed"},
                           rows : SUBSET (Facs \X Slots),
                           before : SUBSET [fac : Facs, rows : SUBSET Row],
                           staged : SUBSET (Facs \X Slots)]]
    <3>1. h \in Facs \X Slots /\ h[1] \in Facs
      BY <1>19, FilesAssumption DEF Requests
    <3> DEFINE snap == [fac |-> h[1], rows |-> FacilityRows(store, h[1], link[j][h[1]])]
    <3>2. snap \in [fac : Facs, rows : SUBSET Row]
      BY <3>1 DEF FacilityRows, TypeInv, TypeOK
    <3>3. /\ job[j].rows \cup {h} \subseteq Facs \X Slots
          /\ job[j].staged \subseteq Facs \X Slots
          /\ job[j].before \subseteq [fac : Facs, rows : SUBSET Row]
      BY <3>1 DEF TypeInv, TypeOK
    <3> HIDE DEF snap
    <3>4. PICK before \in SUBSET [fac : Facs, rows : SUBSET Row] :
            Jobbed(j, "validating", job[j].rows \cup {h}, before, job[j].staged)
      <4>1. Jobbed(j, "validating", job[j].rows \cup {h},
                   IF \E b \in job[j].before : b.fac = h[1] THEN job[j].before
                                                            ELSE job[j].before \cup {snap},
                   job[j].staged)
        BY <1>19 DEF Validate, snap
      <4> QED  BY <3>2, <3>3, <4>1
    <3> QED  BY <3>3, <3>4 DEF Jobbed, TypeInv, TypeOK
  <2>2. \A g \in Jobs : job'[g].rows \subseteq HalfDays[g] /\ job'[g].staged \subseteq job'[g].rows
    BY <1>19 DEF Validate, Jobbed, TypeInv, TypeOK
  <2> QED  BY <1>19, <2>1, <2>2 DEF Validate, Jobbed, TypeInv, TypeOK, SeedOK
<1>20. ASSUME NEW j \in Jobs, NEW h \in HalfDays[j], Stage(j, h) PROVE TypeInv'
  <2>1. job' \in [Jobs -> [status : {"absent", "validating", "ready", "committed"},
                           rows : SUBSET (Facs \X Slots),
                           before : SUBSET [fac : Facs, rows : SUBSET Row],
                           staged : SUBSET (Facs \X Slots)]]
    BY <1>20, FilesAssumption DEF Stage, Jobbed, TypeInv, TypeOK, Requests
  <2>2. \A g \in Jobs : job'[g].rows \subseteq HalfDays[g] /\ job'[g].staged \subseteq job'[g].rows
    BY <1>20 DEF Stage, Jobbed, TypeInv, TypeOK
  <2> QED  BY <1>20, <2>1, <2>2 DEF Stage, Jobbed, TypeInv, TypeOK, SeedOK
<1>21. ASSUME NEW k \in Calls, NEW j \in Jobs, Finish(k, j) PROVE TypeInv'
  <2>1. /\ fin' \in [Calls -> [pc : {"idle", "called", "tx"}, job : Jobs \cup {OldFile},
                               seen : SUBSET Legacy]]
        /\ \A l \in Calls : fin'[l].pc # "idle" => fin'[l].job \in Jobs
    BY <1>21 DEF Finish, Call, TypeInv, TypeOK
  <2> QED  BY <1>21, <2>1 DEF Finish, Call, Enter, TypeInv, TypeOK, SeedOK
<1>22. ASSUME NEW k \in Calls, FinishReadsLegacy(k) PROVE TypeInv'
  <2>1. /\ fin' \in [Calls -> [pc : {"idle", "called", "tx"}, job : Jobs \cup {OldFile},
                               seen : SUBSET Legacy]]
        /\ \A l \in Calls : fin'[l].pc # "idle" => fin'[l].job \in Jobs
    BY <1>22 DEF FinishReadsLegacy, Call, TypeInv, TypeOK, ShownOf
  <2> QED  BY <1>22, <2>1 DEF FinishReadsLegacy, Call, Enter, TypeInv, TypeOK, SeedOK
<1>23. ASSUME NEW k \in Calls, FinishCommits(k) PROVE TypeInv'
  <2>1. /\ fin' \in [Calls -> [pc : {"idle", "called", "tx"}, job : Jobs \cup {OldFile},
                               seen : SUBSET Legacy]]
        /\ \A l \in Calls : fin'[l].pc # "idle" => fin'[l].job \in Jobs
    BY <1>23 DEF FinishCommits, Call, Jobbed, TypeInv, TypeOK
  <2> DEFINE j == fin[k].job
  <2>j. j \in Jobs
    BY <1>23 DEF FinishCommits, TypeInv, TypeOK
  <2>2. job' \in [Jobs -> [status : {"absent", "validating", "ready", "committed"},
                           rows : SUBSET (Facs \X Slots),
                           before : SUBSET [fac : Facs, rows : SUBSET Row],
                           staged : SUBSET (Facs \X Slots)]]
    BY <1>23, <2>j DEF FinishCommits, Jobbed, TypeInv, TypeOK
  <2>3. \A g \in Jobs : job'[g].rows \subseteq HalfDays[g] /\ job'[g].staged \subseteq job'[g].rows
    BY <1>23, <2>j DEF FinishCommits, Jobbed, TypeInv, TypeOK
  <2>4. store' \subseteq Row /\ Unique(store')
    <3> DEFINE seeded == Inserted(store, fin[k].seen)
    <3>1. fin[k].seen \in SUBSET Legacy /\ Unique(store) /\ store \subseteq Row
      BY DEF TypeInv, TypeOK, Unique
    <3>2. Unique(seeded)
      BY <3>1, LegacyUnique, UpsertedUnique DEF Inserted
    <3>3. seeded \subseteq Row
      BY <3>1, LegacyAssumption DEF Inserted, Upserted
    <3> HIDE DEF seeded
    <3>4. Unique(seeded \ Stale(seeded, j)) /\ seeded \ Stale(seeded, j) \subseteq Row
      BY <3>2, <3>3 DEF Unique
    <3>5. New(j) \subseteq Row /\ Unique(New(j))
      BY <2>j, NewRows DEF TypeInv, TypeOK, Requests
    <3>6. Unique(Upserted(seeded \ Stale(seeded, j), New(j)))
      BY <3>4, <3>5, UpsertedUnique
    <3>7. store' = Upserted(seeded \ Stale(seeded, j), New(j))
      BY <1>23 DEF FinishCommits, seeded
    <3> QED  BY <3>4, <3>5, <3>6, <3>7 DEF Upserted
  <2>5. last' \in [Facs -> Requests \cup {OldFile}]
    BY <1>23, <2>j DEF FinishCommits, TypeInv, TypeOK, Requests
  <2> QED  BY <1>23, <2>1, <2>2, <2>3, <2>4, <2>5
           DEF FinishCommits, Call, Jobbed, TypeInv, TypeOK, SeedOK, Unique
<1>24. ASSUME NEW k \in Calls, FinishEnds(k) PROVE TypeInv'
  <2>1. /\ fin' \in [Calls -> [pc : {"idle", "called", "tx"}, job : Jobs \cup {OldFile},
                               seen : SUBSET Legacy]]
        /\ \A l \in Calls : fin'[l].pc # "idle" => fin'[l].job \in Jobs
    BY <1>24 DEF FinishEnds, Call, TypeInv, TypeOK
  <2> QED  BY <1>24, <2>1 DEF FinishEnds, Call, Enter, TypeInv, TypeOK, SeedOK
<1>25. CASE UNCHANGED vars
  BY <1>25 DEF vars, TypeInv, TypeOK, SeedOK
<1> QED
  BY <1>1, <1>2, <1>3, <1>4, <1>5, <1>6, <1>7, <1>8, <1>9, <1>10,
     <1>11, <1>12, <1>13, <1>14, <1>15, <1>16, <1>17, <1>18, <1>19, <1>20,
     <1>21, <1>22, <1>23, <1>24, <1>25
     DEF Next, DeskNext, MigrationNext, JobNext, CallNext

LEMMA TypeInit == Init => TypeInv
<1> SUFFICES ASSUME Init PROVE TypeInv
  OBVIOUS
<1>1. /\ req \in [Imports -> [pc : {"idle", "check", "legacy", "seed", "load", "write", "done",
                                    "failed"},
                              seen : SUBSET Row, courses : SUBSET Courses]]
      /\ SeedOK
  BY DEF Init, Idle, Step, SeedOK
<1>2. mig \in [pc : {"idle", "check", "legacy", "seed", "verify", "delete"},
               want : SUBSET Legacy, seen : SUBSET Legacy, courses : SUBSET Courses]
  BY DEF Init, NoMigration
<1>3. /\ job \in [Jobs -> [status : {"absent", "validating", "ready", "committed"},
                           rows : SUBSET (Facs \X Slots),
                           before : SUBSET [fac : Facs, rows : SUBSET Row],
                           staged : SUBSET (Facs \X Slots)]]
      /\ \A j \in Jobs : job[j].rows \subseteq HalfDays[j] /\ job[j].staged \subseteq job[j].rows
  BY DEF Init, NoJob
<1>4. /\ fin \in [Calls -> [pc : {"idle", "called", "tx"}, job : Jobs \cup {OldFile},
                            seen : SUBSET Legacy]]
      /\ \A k \in Calls : fin[k].pc # "idle" => fin[k].job \in Jobs
  BY DEF Init, NoCall
<1>5. \A r \in Requests : link[r] \in Links[r]
  BY DEF Init
<1>6. /\ store \subseteq Row /\ legacy \subseteq Legacy /\ confirmed \subseteq Jobs
      /\ \A x, y \in store : Key(x) = Key(y) => x = y
      /\ active \subseteq Courses /\ paused \subseteq Courses
      /\ last \in [Facs -> Requests \cup {OldFile}] /\ overlapped \in BOOLEAN
  BY DEF Init
<1>7. flips \in 0..MaxFlips
  BY FlipsAssumption DEF Init
<1> QED  BY <1>1, <1>2, <1>3, <1>4, <1>5, <1>6, <1>7 DEF TypeInv, TypeOK

\* Every variable keeps its type, and the table one row per bucket and
\* half-day, whoever seeds, imports and commits at once (uq key of
\* golf_reservation_report_rows).
THEOREM TypeCorrect == Spec => []TypeOK
<1>1. Init => TypeInv
  BY TypeInit
<1>2. TypeInv /\ [Next]_vars => TypeInv'
  BY TypeStep
<1>3. TypeInv => TypeOK
  BY DEF TypeInv
<1> QED  BY <1>1, <1>2, <1>3, PTL DEF Spec

-----------------------------------------------------------------------------
(* CommitReplacesOnlyWhatWasValidated *)

\* Whatever of a file was validated, its facility was filed with what it held.
SnapOK == \A j \in Jobs : \A h \in job[j].rows : \E b \in job[j].before : b.fac = h[1]

\* A job only moves by its own calls, and only finish commits it.
JobStep ==
  \/ job' = job
  \/ \E j \in Jobs : \E h \in HalfDays[j] : Validate(j, h) \/ Stage(j, h)
  \/ \E j \in Jobs : Ready(j)
  \/ \E k \in Calls : FinishCommits(k)

LEMMA JobsStep ==
  ASSUME [Next]_vars
  PROVE  JobStep
<1>1. ASSUME NEW c \in Courses, Flip(c) PROVE JobStep
  BY <1>1 DEF JobStep, Flip
<1>2. ASSUME NEW i \in Imports, Import(i) PROVE JobStep
  BY <1>2 DEF JobStep, Import
<1>3. ASSUME NEW i \in Imports, HasRows(i) PROVE JobStep
  BY <1>3 DEF JobStep, HasRows, Move
<1>4. ASSUME NEW i \in Imports, ReadLegacy(i) PROVE JobStep
  BY <1>4 DEF JobStep, ReadLegacy, Move
<1>5. ASSUME NEW i \in Imports, Seed(i) PROVE JobStep
  BY <1>5 DEF JobStep, Seed, Move
<1>6. ASSUME NEW i \in Imports, Load(i) PROVE JobStep
  BY <1>6 DEF JobStep, Load, Move
<1>7. ASSUME NEW i \in Imports, Write(i) PROVE JobStep
  BY <1>7 DEF JobStep, Write, Move
<1>8. ASSUME NEW i \in Imports, ImportFails(i) PROVE JobStep
  BY <1>8 DEF JobStep, ImportFails, Move
<1>9. CASE Migrate
  BY <1>9 DEF JobStep, Migrate
<1>10. CASE MigrateHasRows
  BY <1>10 DEF JobStep, MigrateHasRows, MigrateTo
<1>11. CASE MigrateReadLegacy
  BY <1>11 DEF JobStep, MigrateReadLegacy, MigrateTo
<1>12. CASE MigrateSeed
  BY <1>12 DEF JobStep, MigrateSeed, MigrateTo
<1>13. CASE Verify
  BY <1>13 DEF JobStep, Verify, MigrateTo
<1>14. CASE DeleteKey
  BY <1>14 DEF JobStep, DeleteKey
<1>15. CASE MigrateFails
  BY <1>15 DEF JobStep, MigrateFails
<1>16. ASSUME NEW j \in Jobs, Ready(j) PROVE JobStep
  BY <1>16 DEF JobStep
<1>17. ASSUME NEW j \in Jobs, Confirm(j) PROVE JobStep
  BY <1>17 DEF JobStep, Confirm
<1>18. ASSUME NEW j \in Jobs, Withdraw(j) PROVE JobStep
  BY <1>18 DEF JobStep, Withdraw
<1>19. ASSUME NEW j \in Jobs, NEW h \in HalfDays[j], Validate(j, h) PROVE JobStep
  BY <1>19 DEF JobStep
<1>20. ASSUME NEW j \in Jobs, NEW h \in HalfDays[j], Stage(j, h) PROVE JobStep
  BY <1>20 DEF JobStep
<1>21. ASSUME NEW k \in Calls, NEW j \in Jobs, Finish(k, j) PROVE JobStep
  BY <1>21 DEF JobStep, Finish, Call
<1>22. ASSUME NEW k \in Calls, FinishReadsLegacy(k) PROVE JobStep
  BY <1>22 DEF JobStep, FinishReadsLegacy, Call
<1>23. ASSUME NEW k \in Calls, FinishCommits(k) PROVE JobStep
  BY <1>23 DEF JobStep
<1>24. ASSUME NEW k \in Calls, FinishEnds(k) PROVE JobStep
  BY <1>24 DEF JobStep, FinishEnds, Call
<1>25. CASE UNCHANGED vars
  BY <1>25 DEF JobStep, vars
<1> QED
  BY <1>1, <1>2, <1>3, <1>4, <1>5, <1>6, <1>7, <1>8, <1>9, <1>10,
     <1>11, <1>12, <1>13, <1>14, <1>15, <1>16, <1>17, <1>18, <1>19, <1>20,
     <1>21, <1>22, <1>23, <1>24, <1>25
     DEF Next, DeskNext, MigrationNext, JobNext, CallNext

LEMMA SnapStep ==
  ASSUME TypeInv, SnapOK, [Next]_vars
  PROVE  SnapOK'
<1>1. CASE job' = job
  BY <1>1 DEF SnapOK
<1>2. ASSUME NEW j \in Jobs, NEW h \in HalfDays[j], Validate(j, h)
      PROVE  SnapOK'
  <2> DEFINE snap == [fac |-> h[1], rows |-> FacilityRows(store, h[1], link[j][h[1]])]
             before == IF \E b \in job[j].before : b.fac = h[1] THEN job[j].before
                       ELSE job[j].before \cup {snap}
  <2>1. job' = [job EXCEPT ![j] = [status |-> "validating", rows |-> job[j].rows \cup {h},
                                   before |-> before, staged |-> job[j].staged]]
    BY <1>2 DEF Validate, Jobbed
  <2>2. job[j].before \subseteq before /\ \E b \in before : b.fac = h[1]
    <3>1. CASE \E b \in job[j].before : b.fac = h[1]
      BY <3>1
    <3>2. CASE ~\E b \in job[j].before : b.fac = h[1]
      <4>1. before = job[j].before \cup {snap} /\ snap.fac = h[1]
        BY <3>2
      <4> HIDE DEF before, snap
      <4> QED  BY <4>1
    <3> QED  BY <3>1, <3>2
  <2> HIDE DEF before
  <2>3. /\ job'[j].rows = job[j].rows \cup {h} /\ job'[j].before = before
        /\ \A g \in Jobs : g # j => job'[g] = job[g]
    BY <2>1 DEF TypeInv, TypeOK
  <2>4. \A g \in job[j].rows : \E b \in before : b.fac = g[1]
    BY <2>2 DEF SnapOK
  <2> QED  BY <2>2, <2>3, <2>4 DEF SnapOK
<1>3. ASSUME NEW j \in Jobs, NEW h \in HalfDays[j], Stage(j, h)
      PROVE  SnapOK'
  BY <1>3 DEF Stage, Jobbed, SnapOK, TypeInv, TypeOK
<1>4. ASSUME NEW j \in Jobs, Ready(j)
      PROVE  SnapOK'
  BY <1>4 DEF Ready, Jobbed, SnapOK, TypeInv, TypeOK
<1>5. ASSUME NEW k \in Calls, FinishCommits(k)
      PROVE  SnapOK'
  BY <1>5 DEF FinishCommits, Jobbed, SnapOK, TypeInv, TypeOK
<1> QED  BY JobsStep, <1>1, <1>2, <1>3, <1>4, <1>5 DEF JobStep

LEMMA Commits ==
  ASSUME TypeInv, SnapOK, [Next]_vars, NEW j \in Jobs,
         job[j].status # "committed", job'[j].status = "committed"
  PROVE  store \ store' \subseteq UNION {b.rows : b \in job[j].before}
<1>1. PICK k \in Calls : FinishCommits(k) /\ fin[k].job = j
  <2>1. ASSUME NEW g \in Jobs, NEW h \in HalfDays[g], Validate(g, h) \/ Stage(g, h) PROVE FALSE
    BY <2>1 DEF Validate, Stage, Jobbed, TypeInv, TypeOK
  <2>2. ASSUME NEW g \in Jobs, Ready(g) PROVE FALSE
    BY <2>2 DEF Ready, Jobbed, TypeInv, TypeOK
  <2>3. ASSUME NEW k \in Calls, FinishCommits(k) PROVE fin[k].job = j
    BY <2>3 DEF FinishCommits, Jobbed, TypeInv, TypeOK
  <2> QED  BY JobsStep, <2>1, <2>2, <2>3 DEF JobStep
<1> DEFINE seeded == Inserted(store, fin[k].seen)
<1>2. /\ store' = Upserted(seeded \ Stale(seeded, j), New(j))
      /\ job[j].staged = HalfDays[j] /\ Unchanged(j)
  BY <1>1 DEF FinishCommits
<1>3. job[j].rows = HalfDays[j]
  BY <1>2 DEF TypeInv, TypeOK
<1>4. store \subseteq seeded
  BY DEF Inserted, Upserted
<1> HIDE DEF seeded
<1>5. ASSUME NEW x \in store, x \notin store'
      PROVE  x \in UNION {b.rows : b \in job[j].before}
  <2>1. x \in Stale(seeded, j) \/ Key(x) \in Keys(New(j))
    BY <1>2, <1>4, <1>5 DEF Upserted
  <2>2. \E h \in HalfDays[j] : x.fac = h[1] \/ x.bucket = link[j][h[1]]
    <3>1. CASE x \in Stale(seeded, j)
      BY <3>1 DEF Stale, FacsOf
    <3>2. CASE Key(x) \in Keys(New(j))
      BY <3>2 DEF Keys, New, Key
    <3> QED  BY <2>1, <3>1, <3>2
  <2>3. PICK h \in HalfDays[j] : x.fac = h[1] \/ x.bucket = link[j][h[1]]
    BY <2>2
  <2>4. PICK b \in job[j].before : b.fac = h[1]
    BY <1>3 DEF SnapOK
  <2>5. x \in FacilityRows(store, b.fac, link[j][b.fac])
    BY <1>5, <2>3, <2>4 DEF FacilityRows
  <2>6. x \in b.rows
    BY <1>2, <2>5 DEF Unchanged
  <2> QED  BY <2>4, <2>6
<1> QED  BY <1>5

\* Whatever ran between validation and finish, and however many calls of
\* finish run at once: a commit removes or rewrites no row that the preview
\* the operator confirmed did not hold (facility_hash, commit_common_import).
THEOREM CommitKeepsToThePreview == Spec => CommitReplacesOnlyWhatWasValidated
<1>1. Init => TypeInv /\ SnapOK
  BY TypeInit DEF Init, SnapOK, NoJob
<1>2. TypeInv /\ SnapOK /\ [Next]_vars => TypeInv' /\ SnapOK'
  BY TypeStep, SnapStep
<1> DEFINE Keep == \A j \in Jobs :
                     (job[j].status # "committed" /\ job'[j].status = "committed") =>
                       store \ store' \subseteq UNION {b.rows : b \in job[j].before}
<1>3. TypeInv /\ SnapOK /\ [Next]_vars => [Keep]_vars
  <2>1. TypeInv /\ SnapOK /\ [Next]_vars => Keep
    BY Commits
  <2> HIDE DEF Keep
  <2> QED  BY <2>1
<1> QED  BY <1>1, <1>2, <1>3, PTL DEF Spec, CommitReplacesOnlyWhatWasValidated

-----------------------------------------------------------------------------
(* What every step keeps. *)

Grows ==
  /\ link' = link /\ legacy' \subseteq legacy /\ paused \subseteq paused'
  /\ {i \in Imports : req[i].pc = "done"} \subseteq {i \in Imports : req'[i].pc = "done"}
  /\ {j \in Jobs : job[j].status = "committed"} \subseteq {j \in Jobs : job'[j].status = "committed"}

LEMMA GrowStep ==
  ASSUME TypeInv, [Next]_vars
  PROVE  Grows
<1>1. ASSUME NEW c \in Courses, Flip(c) PROVE Grows
  BY <1>1 DEF Flip, Grows
<1>2. ASSUME NEW i \in Imports, Import(i) PROVE Grows
  <2>1. \A h \in Imports : req[h].pc = "done" => req'[h].pc = "done"
    BY <1>2 DEF Import, Step, TypeInv, TypeOK
  <2> QED  BY <1>2, <2>1 DEF Import, Grows
<1>3. ASSUME NEW i \in Imports, HasRows(i) PROVE Grows
  <2>1. \A h \in Imports : req[h].pc = "done" => req'[h].pc = "done"
    BY <1>3 DEF HasRows, Move, Step, TypeInv, TypeOK
  <2> QED  BY <1>3, <2>1 DEF HasRows, Move, Grows
<1>4. ASSUME NEW i \in Imports, ReadLegacy(i) PROVE Grows
  <2>1. \A h \in Imports : req[h].pc = "done" => req'[h].pc = "done"
    BY <1>4 DEF ReadLegacy, Move, Step, TypeInv, TypeOK
  <2> QED  BY <1>4, <2>1 DEF ReadLegacy, Move, Grows
<1>5. ASSUME NEW i \in Imports, Seed(i) PROVE Grows
  <2>1. \A h \in Imports : req[h].pc = "done" => req'[h].pc = "done"
    BY <1>5 DEF Seed, Move, Step, TypeInv, TypeOK
  <2> QED  BY <1>5, <2>1 DEF Seed, Move, Grows
<1>6. ASSUME NEW i \in Imports, Load(i) PROVE Grows
  <2>1. \A h \in Imports : req[h].pc = "done" => req'[h].pc = "done"
    BY <1>6 DEF Load, Move, Step, TypeInv, TypeOK
  <2> QED  BY <1>6, <2>1 DEF Load, Move, Grows
<1>7. ASSUME NEW i \in Imports, Write(i) PROVE Grows
  <2>1. \A h \in Imports : req[h].pc = "done" => req'[h].pc = "done"
    BY <1>7 DEF Write, Move, Step, TypeInv, TypeOK
  <2> QED  BY <1>7, <2>1 DEF Write, Move, Grows
<1>8. ASSUME NEW i \in Imports, ImportFails(i) PROVE Grows
  <2>1. \A h \in Imports : req[h].pc = "done" => req'[h].pc = "done"
    BY <1>8 DEF ImportFails, Move, Step, TypeInv, TypeOK
  <2> QED  BY <1>8, <2>1 DEF ImportFails, Move, Grows
<1>9. CASE Migrate
  BY <1>9 DEF Migrate, Grows
<1>10. CASE MigrateHasRows
  BY <1>10 DEF MigrateHasRows, MigrateTo, Grows
<1>11. CASE MigrateReadLegacy
  BY <1>11 DEF MigrateReadLegacy, MigrateTo, Grows
<1>12. CASE MigrateSeed
  BY <1>12 DEF MigrateSeed, MigrateTo, Grows
<1>13. CASE Verify
  BY <1>13 DEF Verify, MigrateTo, Grows
<1>14. CASE DeleteKey
  BY <1>14 DEF DeleteKey, Grows
<1>15. CASE MigrateFails
  BY <1>15 DEF MigrateFails, Grows
<1>16. ASSUME NEW j \in Jobs, Ready(j) PROVE Grows
  <2>1. \A g \in Jobs : job[g].status = "committed" => job'[g].status = "committed"
    BY <1>16 DEF Ready, Jobbed, TypeInv, TypeOK
  <2> QED  BY <1>16, <2>1 DEF Ready, Jobbed, Grows
<1>17. ASSUME NEW j \in Jobs, Confirm(j) PROVE Grows
  BY <1>17 DEF Confirm, Grows
<1>18. ASSUME NEW j \in Jobs, Withdraw(j) PROVE Grows
  BY <1>18 DEF Withdraw, Grows
<1>19. ASSUME NEW j \in Jobs, NEW h \in HalfDays[j], Validate(j, h) PROVE Grows
  <2>1. \A g \in Jobs : job[g].status = "committed" => job'[g].status = "committed"
    BY <1>19 DEF Validate, Jobbed, TypeInv, TypeOK
  <2> QED  BY <1>19, <2>1 DEF Validate, Jobbed, Grows
<1>20. ASSUME NEW j \in Jobs, NEW h \in HalfDays[j], Stage(j, h) PROVE Grows
  <2>1. \A g \in Jobs : job[g].status = "committed" => job'[g].status = "committed"
    BY <1>20 DEF Stage, Jobbed, TypeInv, TypeOK
  <2> QED  BY <1>20, <2>1 DEF Stage, Jobbed, Grows
<1>21. ASSUME NEW k \in Calls, NEW j \in Jobs, Finish(k, j) PROVE Grows
  BY <1>21 DEF Finish, Call, Grows
<1>22. ASSUME NEW k \in Calls, FinishReadsLegacy(k) PROVE Grows
  BY <1>22 DEF FinishReadsLegacy, Call, Grows
<1>23. ASSUME NEW k \in Calls, FinishCommits(k) PROVE Grows
  <2>1. \A g \in Jobs : job[g].status = "committed" => job'[g].status = "committed"
    BY <1>23 DEF FinishCommits, Call, Jobbed, TypeInv, TypeOK
  <2> QED  BY <1>23, <2>1 DEF FinishCommits, Call, Jobbed, Grows
<1>24. ASSUME NEW k \in Calls, FinishEnds(k) PROVE Grows
  BY <1>24 DEF FinishEnds, Call, Grows
<1>25. CASE UNCHANGED vars
  BY <1>25 DEF vars, Grows
<1> QED
  BY <1>1, <1>2, <1>3, <1>4, <1>5, <1>6, <1>7, <1>8, <1>9, <1>10,
     <1>11, <1>12, <1>13, <1>14, <1>15, <1>16, <1>17, <1>18, <1>19, <1>20,
     <1>21, <1>22, <1>23, <1>24, <1>25
     DEF Next, DeskNext, MigrationNext, JobNext, CallNext

LEMMA WrittenGrows ==
  ASSUME TypeInv, [Next]_vars
  PROVE  Written \subseteq Written' /\ \A r \in Requests : New(r)' = New(r)
  BY GrowStep DEF Grows, Written, New

\* Who writes the table: a seed, an import, a commit.
TableStep ==
  \/ UNCHANGED <<store, last>>
  \/ \E i \in Imports : Seed(i) \/ Write(i)
  \/ MigrateSeed
  \/ \E k \in Calls : FinishCommits(k)

LEMMA TablesStep ==
  ASSUME TypeInv, [Next]_vars
  PROVE  TableStep
<1>1. ASSUME NEW c \in Courses, Flip(c) PROVE TableStep
  BY <1>1 DEF Flip, TableStep
<1>2. ASSUME NEW i \in Imports, Import(i) PROVE TableStep
  BY <1>2 DEF Import, TableStep
<1>3. ASSUME NEW i \in Imports, HasRows(i) PROVE TableStep
  BY <1>3 DEF HasRows, Move, TableStep
<1>4. ASSUME NEW i \in Imports, ReadLegacy(i) PROVE TableStep
  BY <1>4 DEF ReadLegacy, Move, TableStep
<1>5. ASSUME NEW i \in Imports, Seed(i) PROVE TableStep
  BY <1>5 DEF TableStep
<1>6. ASSUME NEW i \in Imports, Load(i) PROVE TableStep
  BY <1>6 DEF Load, Move, TableStep
<1>7. ASSUME NEW i \in Imports, Write(i) PROVE TableStep
  BY <1>7 DEF TableStep
<1>8. ASSUME NEW i \in Imports, ImportFails(i) PROVE TableStep
  BY <1>8 DEF ImportFails, Move, TableStep
<1>9. CASE Migrate
  BY <1>9 DEF Migrate, TableStep
<1>10. CASE MigrateHasRows
  BY <1>10 DEF MigrateHasRows, MigrateTo, TableStep
<1>11. CASE MigrateReadLegacy
  BY <1>11 DEF MigrateReadLegacy, MigrateTo, TableStep
<1>12. CASE MigrateSeed
  BY <1>12 DEF TableStep
<1>13. CASE Verify
  BY <1>13 DEF Verify, MigrateTo, TableStep
<1>14. CASE DeleteKey
  BY <1>14 DEF DeleteKey, TableStep
<1>15. CASE MigrateFails
  BY <1>15 DEF MigrateFails, TableStep
<1>16. ASSUME NEW j \in Jobs, Ready(j) PROVE TableStep
  BY <1>16 DEF Ready, Jobbed, TableStep
<1>17. ASSUME NEW j \in Jobs, Confirm(j) PROVE TableStep
  BY <1>17 DEF Confirm, TableStep
<1>18. ASSUME NEW j \in Jobs, Withdraw(j) PROVE TableStep
  BY <1>18 DEF Withdraw, TableStep
<1>19. ASSUME NEW j \in Jobs, NEW h \in HalfDays[j], Validate(j, h) PROVE TableStep
  BY <1>19 DEF Validate, Jobbed, TableStep
<1>20. ASSUME NEW j \in Jobs, NEW h \in HalfDays[j], Stage(j, h) PROVE TableStep
  BY <1>20 DEF Stage, Jobbed, TableStep
<1>21. ASSUME NEW k \in Calls, NEW j \in Jobs, Finish(k, j) PROVE TableStep
  BY <1>21 DEF Finish, Call, TableStep
<1>22. ASSUME NEW k \in Calls, FinishReadsLegacy(k) PROVE TableStep
  BY <1>22 DEF FinishReadsLegacy, Call, TableStep
<1>23. ASSUME NEW k \in Calls, FinishCommits(k) PROVE TableStep
  BY <1>23 DEF TableStep
<1>24. ASSUME NEW k \in Calls, FinishEnds(k) PROVE TableStep
  BY <1>24 DEF FinishEnds, Call, TableStep
<1>25. CASE UNCHANGED vars
  BY <1>25 DEF vars, TableStep
<1> QED
  BY <1>1, <1>2, <1>3, <1>4, <1>5, <1>6, <1>7, <1>8, <1>9, <1>10,
     <1>11, <1>12, <1>13, <1>14, <1>15, <1>16, <1>17, <1>18, <1>19, <1>20,
     <1>21, <1>22, <1>23, <1>24, <1>25
     DEF Next, DeskNext, MigrationNext, JobNext, CallNext

\* A seed adds legacy rows.
Seeds == UNCHANGED last /\ \E S \in SUBSET Legacy : store' = Upserted(store, S)

LEMMA SeedsLegacy ==
  ASSUME TypeInv, MigrateSeed \/ \E i \in Imports : Seed(i)
  PROVE  Seeds
<1>1. ASSUME NEW i \in Imports, Seed(i) PROVE Seeds
  <2>1. req[i].seen \in SUBSET Legacy
    BY <1>1 DEF Seed, TypeInv, SeedOK
  <2> QED  BY <1>1, <2>1 DEF Seed, Seeds
<1>2. CASE MigrateSeed
  <2>1. mig.seen \in SUBSET Legacy
    BY DEF TypeInv, TypeOK
  <2> QED  BY <1>2, <2>1 DEF MigrateSeed, MigrateTo, Seeds
<1> QED  BY <1>1, <1>2

\* Every step is a step of the request, the migration or the call it moves.
LEMMA DeskLocal ==
  ASSUME TypeInv, NEW w \in Imports, [Next]_vars
  PROVE  req'[w] = req[w] \/ DeskNext(w)
<1>1. ASSUME NEW c \in Courses, Flip(c) PROVE req'[w] = req[w] \/ DeskNext(w)
  BY <1>1 DEF Flip
<1>2. ASSUME NEW i \in Imports, Import(i) PROVE req'[w] = req[w] \/ DeskNext(w)
  BY <1>2 DEF DeskNext, Import, TypeInv, TypeOK
<1>3. ASSUME NEW i \in Imports, HasRows(i) PROVE req'[w] = req[w] \/ DeskNext(w)
  BY <1>3 DEF DeskNext, HasRows, Move, TypeInv, TypeOK
<1>4. ASSUME NEW i \in Imports, ReadLegacy(i) PROVE req'[w] = req[w] \/ DeskNext(w)
  BY <1>4 DEF DeskNext, ReadLegacy, Move, TypeInv, TypeOK
<1>5. ASSUME NEW i \in Imports, Seed(i) PROVE req'[w] = req[w] \/ DeskNext(w)
  BY <1>5 DEF DeskNext, Seed, Move, TypeInv, TypeOK
<1>6. ASSUME NEW i \in Imports, Load(i) PROVE req'[w] = req[w] \/ DeskNext(w)
  BY <1>6 DEF DeskNext, Load, Move, TypeInv, TypeOK
<1>7. ASSUME NEW i \in Imports, Write(i) PROVE req'[w] = req[w] \/ DeskNext(w)
  BY <1>7 DEF DeskNext, Write, Move, TypeInv, TypeOK
<1>8. ASSUME NEW i \in Imports, ImportFails(i) PROVE req'[w] = req[w] \/ DeskNext(w)
  BY <1>8 DEF DeskNext, ImportFails, Move, TypeInv, TypeOK
<1>9. CASE Migrate
  BY <1>9 DEF Migrate
<1>10. CASE MigrateHasRows
  BY <1>10 DEF MigrateHasRows, MigrateTo
<1>11. CASE MigrateReadLegacy
  BY <1>11 DEF MigrateReadLegacy, MigrateTo
<1>12. CASE MigrateSeed
  BY <1>12 DEF MigrateSeed, MigrateTo
<1>13. CASE Verify
  BY <1>13 DEF Verify, MigrateTo
<1>14. CASE DeleteKey
  BY <1>14 DEF DeleteKey
<1>15. CASE MigrateFails
  BY <1>15 DEF MigrateFails
<1>16. ASSUME NEW j \in Jobs, Ready(j) PROVE req'[w] = req[w] \/ DeskNext(w)
  BY <1>16 DEF Ready, Jobbed
<1>17. ASSUME NEW j \in Jobs, Confirm(j) PROVE req'[w] = req[w] \/ DeskNext(w)
  BY <1>17 DEF Confirm
<1>18. ASSUME NEW j \in Jobs, Withdraw(j) PROVE req'[w] = req[w] \/ DeskNext(w)
  BY <1>18 DEF Withdraw
<1>19. ASSUME NEW j \in Jobs, NEW h \in HalfDays[j], Validate(j, h)
      PROVE  req'[w] = req[w] \/ DeskNext(w)
  BY <1>19 DEF Validate, Jobbed
<1>20. ASSUME NEW j \in Jobs, NEW h \in HalfDays[j], Stage(j, h)
      PROVE  req'[w] = req[w] \/ DeskNext(w)
  BY <1>20 DEF Stage, Jobbed
<1>21. ASSUME NEW k \in Calls, NEW j \in Jobs, Finish(k, j)
      PROVE  req'[w] = req[w] \/ DeskNext(w)
  BY <1>21 DEF Finish, Call
<1>22. ASSUME NEW k \in Calls, FinishReadsLegacy(k)
      PROVE  req'[w] = req[w] \/ DeskNext(w)
  BY <1>22 DEF FinishReadsLegacy, Call
<1>23. ASSUME NEW k \in Calls, FinishCommits(k) PROVE req'[w] = req[w] \/ DeskNext(w)
  BY <1>23 DEF FinishCommits, Call, Jobbed
<1>24. ASSUME NEW k \in Calls, FinishEnds(k) PROVE req'[w] = req[w] \/ DeskNext(w)
  BY <1>24 DEF FinishEnds, Call
<1>25. CASE UNCHANGED vars
  BY <1>25 DEF vars
<1> QED
  BY <1>1, <1>2, <1>3, <1>4, <1>5, <1>6, <1>7, <1>8, <1>9, <1>10,
     <1>11, <1>12, <1>13, <1>14, <1>15, <1>16, <1>17, <1>18, <1>19, <1>20,
     <1>21, <1>22, <1>23, <1>24, <1>25
     DEF Next, DeskNext, MigrationNext, JobNext, CallNext

LEMMA MigrationLocal ==
  ASSUME TypeInv, [Next]_vars
  PROVE  mig' = mig \/ MigrationNext
<1>1. ASSUME NEW c \in Courses, Flip(c) PROVE mig' = mig \/ MigrationNext
  BY <1>1 DEF Flip
<1>2. ASSUME NEW i \in Imports, Import(i) PROVE mig' = mig \/ MigrationNext
  BY <1>2 DEF Import
<1>3. ASSUME NEW i \in Imports, HasRows(i) PROVE mig' = mig \/ MigrationNext
  BY <1>3 DEF HasRows, Move
<1>4. ASSUME NEW i \in Imports, ReadLegacy(i) PROVE mig' = mig \/ MigrationNext
  BY <1>4 DEF ReadLegacy, Move
<1>5. ASSUME NEW i \in Imports, Seed(i) PROVE mig' = mig \/ MigrationNext
  BY <1>5 DEF Seed, Move
<1>6. ASSUME NEW i \in Imports, Load(i) PROVE mig' = mig \/ MigrationNext
  BY <1>6 DEF Load, Move
<1>7. ASSUME NEW i \in Imports, Write(i) PROVE mig' = mig \/ MigrationNext
  BY <1>7 DEF Write, Move
<1>8. ASSUME NEW i \in Imports, ImportFails(i) PROVE mig' = mig \/ MigrationNext
  BY <1>8 DEF ImportFails, Move
<1>9. CASE Migrate
  BY <1>9 DEF MigrationNext
<1>10. CASE MigrateHasRows
  BY <1>10 DEF MigrationNext
<1>11. CASE MigrateReadLegacy
  BY <1>11 DEF MigrationNext
<1>12. CASE MigrateSeed
  BY <1>12 DEF MigrationNext
<1>13. CASE Verify
  BY <1>13 DEF MigrationNext
<1>14. CASE DeleteKey
  BY <1>14 DEF MigrationNext
<1>15. CASE MigrateFails
  BY <1>15 DEF MigrationNext
<1>16. ASSUME NEW j \in Jobs, Ready(j) PROVE mig' = mig \/ MigrationNext
  BY <1>16 DEF Ready, Jobbed
<1>17. ASSUME NEW j \in Jobs, Confirm(j) PROVE mig' = mig \/ MigrationNext
  BY <1>17 DEF Confirm
<1>18. ASSUME NEW j \in Jobs, Withdraw(j) PROVE mig' = mig \/ MigrationNext
  BY <1>18 DEF Withdraw
<1>19. ASSUME NEW j \in Jobs, NEW h \in HalfDays[j], Validate(j, h)
      PROVE  mig' = mig \/ MigrationNext
  BY <1>19 DEF Validate, Jobbed
<1>20. ASSUME NEW j \in Jobs, NEW h \in HalfDays[j], Stage(j, h)
      PROVE  mig' = mig \/ MigrationNext
  BY <1>20 DEF Stage, Jobbed
<1>21. ASSUME NEW k \in Calls, NEW j \in Jobs, Finish(k, j)
      PROVE  mig' = mig \/ MigrationNext
  BY <1>21 DEF Finish, Call
<1>22. ASSUME NEW k \in Calls, FinishReadsLegacy(k) PROVE mig' = mig \/ MigrationNext
  BY <1>22 DEF FinishReadsLegacy, Call
<1>23. ASSUME NEW k \in Calls, FinishCommits(k) PROVE mig' = mig \/ MigrationNext
  BY <1>23 DEF FinishCommits, Call, Jobbed
<1>24. ASSUME NEW k \in Calls, FinishEnds(k) PROVE mig' = mig \/ MigrationNext
  BY <1>24 DEF FinishEnds, Call
<1>25. CASE UNCHANGED vars
  BY <1>25 DEF vars
<1> QED
  BY <1>1, <1>2, <1>3, <1>4, <1>5, <1>6, <1>7, <1>8, <1>9, <1>10,
     <1>11, <1>12, <1>13, <1>14, <1>15, <1>16, <1>17, <1>18, <1>19, <1>20,
     <1>21, <1>22, <1>23, <1>24, <1>25
     DEF Next, DeskNext, MigrationNext, JobNext, CallNext

LEMMA CallLocal ==
  ASSUME TypeInv, NEW l \in Calls, [Next]_vars
  PROVE  fin'[l] = fin[l] \/ CallNext(l)
<1>1. ASSUME NEW c \in Courses, Flip(c) PROVE fin'[l] = fin[l] \/ CallNext(l)
  BY <1>1 DEF Flip
<1>2. ASSUME NEW i \in Imports, Import(i) PROVE fin'[l] = fin[l] \/ CallNext(l)
  BY <1>2 DEF Import
<1>3. ASSUME NEW i \in Imports, HasRows(i) PROVE fin'[l] = fin[l] \/ CallNext(l)
  BY <1>3 DEF HasRows, Move
<1>4. ASSUME NEW i \in Imports, ReadLegacy(i) PROVE fin'[l] = fin[l] \/ CallNext(l)
  BY <1>4 DEF ReadLegacy, Move
<1>5. ASSUME NEW i \in Imports, Seed(i) PROVE fin'[l] = fin[l] \/ CallNext(l)
  BY <1>5 DEF Seed, Move
<1>6. ASSUME NEW i \in Imports, Load(i) PROVE fin'[l] = fin[l] \/ CallNext(l)
  BY <1>6 DEF Load, Move
<1>7. ASSUME NEW i \in Imports, Write(i) PROVE fin'[l] = fin[l] \/ CallNext(l)
  BY <1>7 DEF Write, Move
<1>8. ASSUME NEW i \in Imports, ImportFails(i) PROVE fin'[l] = fin[l] \/ CallNext(l)
  BY <1>8 DEF ImportFails, Move
<1>9. CASE Migrate
  BY <1>9 DEF Migrate
<1>10. CASE MigrateHasRows
  BY <1>10 DEF MigrateHasRows, MigrateTo
<1>11. CASE MigrateReadLegacy
  BY <1>11 DEF MigrateReadLegacy, MigrateTo
<1>12. CASE MigrateSeed
  BY <1>12 DEF MigrateSeed, MigrateTo
<1>13. CASE Verify
  BY <1>13 DEF Verify, MigrateTo
<1>14. CASE DeleteKey
  BY <1>14 DEF DeleteKey
<1>15. CASE MigrateFails
  BY <1>15 DEF MigrateFails
<1>16. ASSUME NEW j \in Jobs, Ready(j) PROVE fin'[l] = fin[l] \/ CallNext(l)
  BY <1>16 DEF Ready, Jobbed
<1>17. ASSUME NEW j \in Jobs, Confirm(j) PROVE fin'[l] = fin[l] \/ CallNext(l)
  BY <1>17 DEF Confirm
<1>18. ASSUME NEW j \in Jobs, Withdraw(j) PROVE fin'[l] = fin[l] \/ CallNext(l)
  BY <1>18 DEF Withdraw
<1>19. ASSUME NEW j \in Jobs, NEW h \in HalfDays[j], Validate(j, h)
      PROVE  fin'[l] = fin[l] \/ CallNext(l)
  BY <1>19 DEF Validate, Jobbed
<1>20. ASSUME NEW j \in Jobs, NEW h \in HalfDays[j], Stage(j, h)
      PROVE  fin'[l] = fin[l] \/ CallNext(l)
  BY <1>20 DEF Stage, Jobbed
<1>21. ASSUME NEW k \in Calls, NEW j \in Jobs, Finish(k, j)
      PROVE  fin'[l] = fin[l] \/ CallNext(l)
  BY <1>21 DEF CallNext, Finish, Call, TypeInv, TypeOK
<1>22. ASSUME NEW k \in Calls, FinishReadsLegacy(k)
      PROVE  fin'[l] = fin[l] \/ CallNext(l)
  BY <1>22 DEF CallNext, FinishReadsLegacy, Call, TypeInv, TypeOK
<1>23. ASSUME NEW k \in Calls, FinishCommits(k) PROVE fin'[l] = fin[l] \/ CallNext(l)
  BY <1>23 DEF CallNext, FinishCommits, Call, Jobbed, TypeInv, TypeOK
<1>24. ASSUME NEW k \in Calls, FinishEnds(k) PROVE fin'[l] = fin[l] \/ CallNext(l)
  BY <1>24 DEF CallNext, FinishEnds, Call, TypeInv, TypeOK
<1>25. CASE UNCHANGED vars
  BY <1>25 DEF vars
<1> QED
  BY <1>1, <1>2, <1>3, <1>4, <1>5, <1>6, <1>7, <1>8, <1>9, <1>10,
     <1>11, <1>12, <1>13, <1>14, <1>15, <1>16, <1>17, <1>18, <1>19, <1>20,
     <1>21, <1>22, <1>23, <1>24, <1>25
     DEF Next, DeskNext, MigrationNext, JobNext, CallNext

\* A table that has rows keeps having some.
LEMMA RowsStay ==
  ASSUME TypeInv, [Next]_vars, store # {}
  PROVE  store' # {}
<1> PICK x \in store : TRUE
  OBVIOUS
<1>1. CASE Seeds
  BY <1>1 DEF Seeds, Upserted, Keys
<1>2. ASSUME NEW i \in Imports, Write(i) PROVE store' # {}
  <2>1. FacsOf(i) # {} => New(i) # {}
    BY NewRows DEF TypeInv, TypeOK, Requests
  <2>2. New(i) \subseteq store' /\ (Stale(req[i].seen, i) # {} => FacsOf(i) # {})
    BY <1>2 DEF Write, Upserted, Stale
  <2>3. CASE New(i) = {} /\ Stale(req[i].seen, i) = {}
    BY <1>2, <2>3 DEF Write, Upserted, Keys
  <2> QED  BY <2>1, <2>2, <2>3
<1>3. ASSUME NEW k \in Calls, FinishCommits(k) PROVE store' # {}
  <2> DEFINE j == fin[k].job
             seeded == Inserted(store, fin[k].seen)
  <2>j. j \in Jobs /\ link[j] \in Links[j] /\ j \in Requests
    BY <1>3 DEF FinishCommits, TypeInv, TypeOK, Requests
  <2>1. FacsOf(j) # {} => New(j) # {}
    BY <2>j, NewRows
  <2>2. store' = Upserted(seeded \ Stale(seeded, j), New(j)) /\ x \in seeded
    BY <1>3 DEF FinishCommits, Inserted, Upserted
  <2> HIDE DEF seeded, j
  <2>3. New(j) \subseteq store' /\ (Stale(seeded, j) # {} => FacsOf(j) # {})
    BY <2>2 DEF Upserted, Stale
  <2>4. CASE New(j) = {} /\ Stale(seeded, j) = {}
    BY <2>2, <2>4 DEF Upserted, Keys
  <2> QED  BY <2>1, <2>3, <2>4
<1> QED  BY TablesStep, SeedsLegacy, <1>1, <1>2, <1>3 DEF TableStep

-----------------------------------------------------------------------------
(* HistoryStaysOnTheBoard *)

\* Legacy rows still owed to the board.
Due == {x \in legacy : x.bucket \notin paused}
Held(x) == x.bucket \in paused \/ Superseded(x) \/ x \in store
Sourced(R) == \A x \in R : x \in Legacy \/ \E r \in Written : x \in New(r)

LEMMA SupersededStays ==
  ASSUME TypeInv, [Next]_vars, NEW x \in Legacy, Superseded(x)
  PROVE  Superseded(x)'
<1>1. Written \subseteq Written' /\ \A r \in Requests : New(r)' = New(r)
  BY WrittenGrows
<1>2. Written \subseteq Requests
  BY DEF Written, Requests
<1>3. CASE \E r \in Written : Key(x) \in Keys(New(r))
  BY <1>1, <1>2, <1>3 DEF Superseded
<1>4. CASE last[x.fac] # OldFile
  <2>1. x.fac \in Facs
    BY LegacyAssumption DEF Row
  <2>2. ASSUME NEW i \in Imports, Write(i) PROVE last'[x.fac] # OldFile
    BY <1>4, <2>1, <2>2, FilesAssumption DEF Write, Requests
  <2>3. ASSUME NEW k \in Calls, FinishCommits(k) PROVE last'[x.fac] # OldFile
    <3>1. fin[k].job \in Jobs
      BY <2>3 DEF FinishCommits, TypeInv, TypeOK
    <3> QED  BY <1>4, <2>1, <2>3, <3>1, FilesAssumption DEF FinishCommits, Requests
  <2>4. CASE last' = last
    BY <1>4, <2>4 DEF Superseded
  <2> QED  BY TablesStep, SeedsLegacy, <2>2, <2>3, <2>4 DEF TableStep, Seeds, Superseded
<1> QED  BY <1>3, <1>4 DEF Superseded

\* A request that replaces a row supersedes it.
LEMMA CommitSupersedes ==
  ASSUME TypeInv, [Next]_vars, NEW k \in Calls, FinishCommits(k), NEW x \in Legacy,
         x \in Inserted(store, fin[k].seen), x \notin store'
  PROVE  Superseded(x)'
<1> DEFINE seeded == Inserted(store, fin[k].seen)
<1>0. PICK j \in Jobs : j = fin[k].job
  BY DEF FinishCommits, TypeInv, TypeOK
<1>j. j \in Jobs /\ j \in Requests
  BY DEF Requests
<1>1. store' = Upserted(seeded \ Stale(seeded, j), New(j)) /\ x \in seeded
  BY <1>0 DEF FinishCommits
<1>2. /\ last' = [f \in Facs |-> IF f \in FacsOf(j) THEN j ELSE last[f]]
      /\ job'[j].status = "committed"
  BY <1>0, <1>j DEF FinishCommits, Jobbed, TypeInv, TypeOK
<1> HIDE DEF seeded
<1>3. CASE x \in Stale(seeded, j)
  <2>1. x.fac \in Facs /\ x.fac \in FacsOf(j)
    BY <1>3, LegacyAssumption DEF Stale, Row
  <2> QED  BY <1>j, <1>2, <2>1, FilesAssumption DEF Superseded
<1>4. CASE Key(x) \in Keys(New(j))
  <2>1. j \in Written' /\ New(j)' = New(j)
    BY <1>j, <1>2, WrittenGrows DEF Written
  <2> QED  BY <1>4, <2>1 DEF Superseded
<1> QED  BY <1>1, <1>3, <1>4 DEF Upserted

SourceOK == Sourced(store) /\ \A i \in Imports : Sourced(req[i].seen)

LEMMA HeldStays ==
  ASSUME TypeInv, SourceOK, [Next]_vars, NEW x \in Legacy, Held(x)
  PROVE  Held(x)'
<1>1. CASE x.bucket \in paused
  BY <1>1, GrowStep DEF Grows, Held
<1>2. CASE Superseded(x)
  BY <1>2, SupersededStays DEF Held
<1>3. CASE x \in store
  <2>1. CASE Seeds
    <3>1. PICK S \in SUBSET Legacy : store' = Upserted(store, S)
      BY <2>1 DEF Seeds
    <3>2. \A y \in S : Key(y) = Key(x) => y = x
      BY LegacyAssumption DEF Key
    <3>3. x \in store'
      BY <1>3, <3>1, <3>2 DEF Upserted, Keys
    <3> QED  BY <3>3 DEF Held
  <2>2. ASSUME NEW i \in Imports, Write(i) PROVE Held(x)'
    <3>i. i \in Requests /\ x.fac \in Facs
      BY LegacyAssumption DEF Requests, Row
    <3>1. /\ last' = [f \in Facs |-> IF f \in FacsOf(i) THEN i ELSE last[f]]
          /\ req'[i].pc = "done"
      BY <2>2 DEF Write, Move, Step, TypeInv, TypeOK
    <3>2. CASE Key(x) \in Keys(New(i))
      <4>1. i \in Written' /\ New(i)' = New(i)
        BY <3>i, <3>1, WrittenGrows DEF Written
      <4> QED  BY <3>2, <4>1 DEF Held, Superseded
    <3>3. CASE Key(x) \in Keys(Stale(req[i].seen, i))
      <4>1. PICK y \in Stale(req[i].seen, i) : Key(y) = Key(x)
        BY <3>3 DEF Keys
      <4>2. y \in req[i].seen /\ y.fac \in FacsOf(i)
        BY <4>1 DEF Stale
      <4>3. CASE y \in Legacy
        <5>1. y = x
          BY <4>1, <4>3, LegacyAssumption DEF Key
        <5> QED  BY <3>i, <3>1, <4>2, <5>1, FilesAssumption DEF Held, Superseded
      <4>4. ASSUME NEW r \in Written, y \in New(r) PROVE Held(x)'
        <5>1. Superseded(x)
          BY <4>1, <4>4 DEF Superseded, Keys
        <5> QED  BY <5>1, SupersededStays DEF Held
      <4> QED  BY <4>2, <4>3, <4>4 DEF SourceOK, Sourced
    <3>4. CASE x \in store'
      BY <3>4 DEF Held
    <3> QED  BY <1>3, <2>2, <3>2, <3>3, <3>4 DEF Write, Upserted
  <2>3. ASSUME NEW k \in Calls, FinishCommits(k) PROVE Held(x)'
    <3>1. x \in Inserted(store, fin[k].seen)
      BY <1>3 DEF Inserted, Upserted
    <3> QED  BY <2>3, <3>1, CommitSupersedes DEF Held
  <2>4. CASE store' = store
    BY <1>3, <2>4 DEF Held
  <2> QED  BY TablesStep, SeedsLegacy, <2>1, <2>2, <2>3, <2>4 DEF TableStep
<1> QED  BY <1>1, <1>2, <1>3 DEF Held

\* What a reader of legacy rows is shown holds all that is owed.
LEMMA DueIsShown ==
  ASSUME TypeInv, NEW C, Courses \ paused \subseteq C
  PROVE  Due \subseteq ShownOf(legacy, C)
<1> SUFFICES ASSUME NEW x \in Due PROVE x \in ShownOf(legacy, C)
  OBVIOUS
<1>1. x \in legacy /\ x.bucket \notin paused /\ x.bucket \in Courses \cup Facs
  BY LegacyAssumption DEF Due, TypeInv, TypeOK, Row, Buckets
<1> QED  BY <1>1 DEF ShownOf

LEMMA DueShrinks ==
  ASSUME TypeInv, [Next]_vars
  PROVE  Due' \subseteq Due /\ Courses \ paused' \subseteq Courses \ paused
  BY GrowStep DEF Grows, Due

\* An import reads rows of the table or legacy rows.
LEMMA SeenStep ==
  ASSUME TypeInv, [Next]_vars, NEW i \in Imports
  PROVE  req'[i].seen \in {req[i].seen, {}, store} \cup SUBSET Legacy
<1> USE DEF TypeInv, TypeOK, Step
<1>1. CASE req'[i] = req[i]
  BY <1>1
<1>2. CASE Import(i)
  BY <1>2 DEF Import
<1>3. CASE ReadLegacy(i)
  BY <1>3 DEF ReadLegacy, Move, ShownOf
<1>4. CASE HasRows(i) \/ Seed(i) \/ Load(i) \/ Write(i) \/ ImportFails(i)
  BY <1>4 DEF HasRows, Seed, Load, Write, ImportFails, Move
<1> HIDE DEF TypeInv, TypeOK
<1> QED  BY DeskLocal, <1>1, <1>2, <1>3, <1>4 DEF DeskNext

\* A row of the table is a legacy row or comes from a file that was written.
LEMMA SourceStep ==
  ASSUME TypeInv, SourceOK, [Next]_vars
  PROVE  SourceOK'
<1>1. Written \subseteq Written' /\ Written \subseteq Requests /\ \A r \in Requests : New(r)' = New(r)
  BY WrittenGrows DEF Written, Requests
<1>2. \A x : (x \in Legacy \/ \E r \in Written : x \in New(r))
               => x \in Legacy \/ \E r \in Written' : x \in New(r)'
  BY <1>1
<1>3. Sourced(store)'
  <2> SUFFICES ASSUME NEW x \in store', x \notin Legacy
               PROVE  \E r \in Written' : x \in New(r)'
    BY DEF Sourced
  <2>1. CASE x \in store
    BY <1>2, <2>1 DEF SourceOK, Sourced
  <2>2. CASE Seeds
    BY <1>2, <2>1, <2>2 DEF Seeds, Upserted
  <2>3. ASSUME NEW i \in Imports, Write(i), x \notin store
        PROVE  \E r \in Written' : x \in New(r)'
    <3>1. i \in Written' /\ i \in Requests
      BY <2>3 DEF Write, Move, Step, TypeInv, TypeOK, Written, Requests
    <3>2. x \in New(i)
      BY <2>3 DEF Write, Upserted
    <3> QED  BY <1>1, <3>1, <3>2
  <2>4. ASSUME NEW k \in Calls, FinishCommits(k), x \notin store
        PROVE  \E r \in Written' : x \in New(r)'
    <3>1. PICK j \in Jobs : j = fin[k].job
      BY <2>4 DEF FinishCommits, TypeInv, TypeOK
    <3>2. j \in Written' /\ j \in Requests
      BY <2>4, <3>1 DEF FinishCommits, Jobbed, TypeInv, TypeOK, Written, Requests
    <3>3. x \in New(j) \/ x \in Inserted(store, fin[k].seen)
      BY <2>4, <3>1 DEF FinishCommits, Upserted
    <3>4. fin[k].seen \subseteq Legacy
      BY DEF TypeInv, TypeOK
    <3>5. x \in New(j)
      BY <2>4, <3>3, <3>4 DEF Inserted, Upserted
    <3> QED  BY <1>1, <3>2, <3>5
  <2> QED  BY TablesStep, SeedsLegacy, <2>1, <2>2, <2>3, <2>4 DEF TableStep
<1>4. ASSUME NEW i \in Imports PROVE Sourced(req[i].seen)'
  <2> SUFFICES ASSUME NEW x \in req'[i].seen, x \notin Legacy
               PROVE  \E r \in Written' : x \in New(r)'
    BY DEF Sourced
  <2>1. x \in req[i].seen \/ x \in store
    BY SeenStep
  <2> QED  BY <1>2, <2>1 DEF SourceOK, Sourced
<1> QED  BY <1>3, <1>4 DEF SourceOK

Working(i) == req[i].pc \notin {"idle", "done", "failed"}

\* What each writer holds of the rows still owed, until the table has rows.
OpenOK == Courses \ paused \subseteq active
DeskHolds(i) ==
  /\ Working(i) => Courses \ paused \subseteq req[i].courses
  /\ store = {} /\ req[i].pc = "seed" => Due \subseteq req[i].seen
  /\ store = {} /\ req[i].pc \in {"load", "write"} => Due = {}
MigrationHolds ==
  /\ mig.pc # "idle" => Courses \ paused \subseteq mig.courses /\ Due \subseteq mig.want
  /\ store = {} /\ mig.pc = "seed" => Due \subseteq mig.seen
  /\ mig.pc = "delete" => \A x \in Legacy : Held(x)
CallHolds(k) == store = {} /\ fin[k].pc = "tx" => Due \subseteq fin[k].seen
KeptOK == \A x \in Legacy : Held(x) \/ (store = {} /\ x \in legacy)

HistoryInv ==
  /\ SourceOK
  /\ OpenOK
  /\ \A i \in Imports : DeskHolds(i)
  /\ MigrationHolds
  /\ \A k \in Calls : CallHolds(k)
  /\ KeptOK

LEMMA OpenStep ==
  ASSUME OpenOK, [Next]_vars
  PROVE  OpenOK'
<1>1. ASSUME NEW c \in Courses, Flip(c) PROVE OpenOK'
  BY <1>1 DEF Flip, OpenOK
<1>2. ASSUME NEW i \in Imports, Import(i) PROVE OpenOK'
  BY <1>2 DEF Import, OpenOK
<1>3. ASSUME NEW i \in Imports, HasRows(i) PROVE OpenOK'
  BY <1>3 DEF HasRows, Move, OpenOK
<1>4. ASSUME NEW i \in Imports, ReadLegacy(i) PROVE OpenOK'
  BY <1>4 DEF ReadLegacy, Move, OpenOK
<1>5. ASSUME NEW i \in Imports, Seed(i) PROVE OpenOK'
  BY <1>5 DEF Seed, Move, OpenOK
<1>6. ASSUME NEW i \in Imports, Load(i) PROVE OpenOK'
  BY <1>6 DEF Load, Move, OpenOK
<1>7. ASSUME NEW i \in Imports, Write(i) PROVE OpenOK'
  BY <1>7 DEF Write, Move, OpenOK
<1>8. ASSUME NEW i \in Imports, ImportFails(i) PROVE OpenOK'
  BY <1>8 DEF ImportFails, Move, OpenOK
<1>9. CASE Migrate
  BY <1>9 DEF Migrate, OpenOK
<1>10. CASE MigrateHasRows
  BY <1>10 DEF MigrateHasRows, MigrateTo, OpenOK
<1>11. CASE MigrateReadLegacy
  BY <1>11 DEF MigrateReadLegacy, MigrateTo, OpenOK
<1>12. CASE MigrateSeed
  BY <1>12 DEF MigrateSeed, MigrateTo, OpenOK
<1>13. CASE Verify
  BY <1>13 DEF Verify, MigrateTo, OpenOK
<1>14. CASE DeleteKey
  BY <1>14 DEF DeleteKey, OpenOK
<1>15. CASE MigrateFails
  BY <1>15 DEF MigrateFails, OpenOK
<1>16. ASSUME NEW j \in Jobs, Ready(j) PROVE OpenOK'
  BY <1>16 DEF Ready, Jobbed, OpenOK
<1>17. ASSUME NEW j \in Jobs, Confirm(j) PROVE OpenOK'
  BY <1>17 DEF Confirm, OpenOK
<1>18. ASSUME NEW j \in Jobs, Withdraw(j) PROVE OpenOK'
  BY <1>18 DEF Withdraw, OpenOK
<1>19. ASSUME NEW j \in Jobs, NEW h \in HalfDays[j], Validate(j, h) PROVE OpenOK'
  BY <1>19 DEF Validate, Jobbed, OpenOK
<1>20. ASSUME NEW j \in Jobs, NEW h \in HalfDays[j], Stage(j, h) PROVE OpenOK'
  BY <1>20 DEF Stage, Jobbed, OpenOK
<1>21. ASSUME NEW k \in Calls, NEW j \in Jobs, Finish(k, j) PROVE OpenOK'
  BY <1>21 DEF Finish, Call, OpenOK
<1>22. ASSUME NEW k \in Calls, FinishReadsLegacy(k) PROVE OpenOK'
  BY <1>22 DEF FinishReadsLegacy, Call, OpenOK
<1>23. ASSUME NEW k \in Calls, FinishCommits(k) PROVE OpenOK'
  BY <1>23 DEF FinishCommits, Call, Jobbed, OpenOK
<1>24. ASSUME NEW k \in Calls, FinishEnds(k) PROVE OpenOK'
  BY <1>24 DEF FinishEnds, Call, OpenOK
<1>25. CASE UNCHANGED vars
  BY <1>25 DEF vars, OpenOK
<1> QED
  BY <1>1, <1>2, <1>3, <1>4, <1>5, <1>6, <1>7, <1>8, <1>9, <1>10,
     <1>11, <1>12, <1>13, <1>14, <1>15, <1>16, <1>17, <1>18, <1>19, <1>20,
     <1>21, <1>22, <1>23, <1>24, <1>25
     DEF Next, DeskNext, MigrationNext, JobNext, CallNext

LEMMA DeskHoldsStep ==
  ASSUME TypeInv, HistoryInv, [Next]_vars, NEW i \in Imports
  PROVE  DeskHolds(i)'
<1>1. Due' \subseteq Due /\ Courses \ paused' \subseteq Courses \ paused /\ (store' = {} => store = {})
  BY DueShrinks, RowsStay
<1>2. DeskHolds(i) /\ OpenOK
  BY DEF HistoryInv
<1> USE DEF DeskHolds, Working
<1>3. CASE req'[i] = req[i]
  BY <1>1, <1>2, <1>3
<1>4. CASE Import(i)
  <2>1. req'[i].pc \in {"check", "failed"} /\ req'[i].courses = active
    BY <1>4 DEF Import, Step, TypeInv, TypeOK
  <2> QED  BY <1>1, <1>2, <2>1 DEF OpenOK
<1>5. CASE HasRows(i)
  <2>1. /\ req'[i].courses = req[i].courses /\ Working(i)
        /\ req'[i].pc = "legacy" \/ (req'[i].pc = "load" /\ store' # {})
    BY <1>5 DEF HasRows, Move, Step, TypeInv, TypeOK
  <2> QED  BY <1>1, <1>2, <2>1
<1>6. CASE ReadLegacy(i)
  <2> DEFINE seen == ShownOf(legacy, req[i].courses)
  <2>1. /\ req'[i].courses = req[i].courses /\ Working(i) /\ req'[i].seen = seen
        /\ req'[i].pc = IF seen = {} THEN "load" ELSE "seed"
    BY <1>6 DEF ReadLegacy, Move, Step, TypeInv, TypeOK
  <2>2. Due \subseteq seen
    BY <1>2, <2>1, DueIsShown
  <2> HIDE DEF seen
  <2> QED  BY <1>1, <1>2, <2>1, <2>2
<1>7. CASE Seed(i)
  <2>1. /\ req'[i].courses = req[i].courses /\ Working(i) /\ req[i].pc = "seed"
        /\ req'[i].pc = "load" /\ req[i].seen \subseteq store'
    BY <1>7 DEF Seed, Move, Step, Upserted, TypeInv, TypeOK
  <2> QED  BY <1>1, <1>2, <2>1
<1>8. CASE Load(i)
  <2>1. /\ req'[i].courses = req[i].courses /\ Working(i) /\ req[i].pc = "load"
        /\ req'[i].pc = "write"
    BY <1>8 DEF Load, Move, Step, TypeInv, TypeOK
  <2> QED  BY <1>1, <1>2, <2>1
<1>9. CASE Write(i) \/ ImportFails(i)
  <2>1. req'[i].pc \in {"done", "failed"}
    BY <1>9 DEF Write, ImportFails, Move, Step, TypeInv, TypeOK
  <2> QED  BY <2>1
<1> QED  BY DeskLocal, <1>3, <1>4, <1>5, <1>6, <1>7, <1>8, <1>9 DEF DeskNext

LEMMA MigrationHoldsStep ==
  ASSUME TypeInv, HistoryInv, [Next]_vars
  PROVE  MigrationHolds'
<1>1. Due' \subseteq Due /\ Courses \ paused' \subseteq Courses \ paused /\ (store' = {} => store = {})
  BY DueShrinks, RowsStay
<1>2. MigrationHolds /\ OpenOK /\ KeptOK
  BY DEF HistoryInv
<1>3. \A x \in Legacy : Held(x) => Held(x)'
  BY HeldStays DEF HistoryInv
<1> USE DEF MigrationHolds
<1>4. CASE mig' = mig
  BY <1>1, <1>2, <1>3, <1>4
<1>5. CASE Migrate
  <2>1. Due \subseteq ShownOf(legacy, active)
    BY <1>2, DueIsShown DEF OpenOK
  <2> QED  BY <1>1, <1>2, <1>5, <2>1 DEF Migrate, OpenOK
<1>6. CASE MigrateHasRows \/ MigrateSeed
  <2>1. /\ mig'.courses = mig.courses /\ mig'.want = mig.want /\ mig.pc # "idle"
        /\ mig'.pc \in {"legacy", "verify"}
    BY <1>6 DEF MigrateHasRows, MigrateSeed, MigrateTo
  <2> QED  BY <1>1, <1>2, <2>1
<1>7. CASE MigrateReadLegacy
  <2> DEFINE seen == ShownOf(legacy, mig.courses)
  <2>1. /\ mig'.courses = mig.courses /\ mig'.want = mig.want /\ mig.pc # "idle"
        /\ mig'.pc \in {"seed", "verify"} /\ mig'.seen = seen
    BY <1>7 DEF MigrateReadLegacy, MigrateTo
  <2>2. Due \subseteq seen
    BY <1>2, <2>1, DueIsShown
  <2> HIDE DEF seen
  <2> QED  BY <1>1, <1>2, <2>1, <2>2
<1>8. CASE Verify
  <2>1. CASE mig' = NoMigration
    BY <2>1 DEF NoMigration
  <2>2. CASE /\ mig.want \subseteq ShownOf(store, mig.courses)
             /\ MigrateTo("delete", {})
    <3>1. /\ mig'.courses = mig.courses /\ mig'.want = mig.want /\ mig.pc # "idle"
          /\ mig'.pc = "delete"
      BY <1>8, <2>2 DEF Verify, MigrateTo
    <3>2. ASSUME NEW x \in Legacy PROVE Held(x)
      <4>1. CASE store = {} /\ x \in legacy /\ x.bucket \notin paused
        <5>1. x \in Due
          BY <4>1 DEF Due
        <5>2. x \in store
          BY <1>2, <2>2, <3>1, <5>1 DEF ShownOf
        <5> QED  BY <4>1, <5>2
      <4> QED  BY <1>2, <4>1 DEF KeptOK, Held
    <3> QED  BY <1>1, <1>2, <1>3, <3>1, <3>2
  <2> QED  BY <1>8, <2>1, <2>2 DEF Verify
<1>9. CASE DeleteKey \/ MigrateFails
  BY <1>9 DEF DeleteKey, MigrateFails, NoMigration
<1> QED  BY MigrationLocal, <1>4, <1>5, <1>6, <1>7, <1>8, <1>9 DEF MigrationNext

LEMMA CallHoldsStep ==
  ASSUME TypeInv, HistoryInv, [Next]_vars, NEW k \in Calls
  PROVE  CallHolds(k)'
<1>1. Due' \subseteq Due /\ (store' = {} => store = {})
  BY DueShrinks, RowsStay
<1>2. CallHolds(k) /\ OpenOK
  BY DEF HistoryInv
<1> USE DEF CallHolds
<1>3. CASE fin'[k] = fin[k]
  BY <1>1, <1>2, <1>3
<1>4. ASSUME NEW j \in Jobs, Finish(k, j) PROVE CallHolds(k)'
  <2>1. fin'[k].pc = (IF store = {} THEN "called" ELSE "tx") /\ store' = store
    BY <1>4 DEF Finish, Call, TypeInv, TypeOK
  <2> QED  BY <2>1
<1>5. CASE FinishReadsLegacy(k)
  <2>1. fin'[k].seen = ShownOf(legacy, active)
    BY <1>5 DEF FinishReadsLegacy, Call, TypeInv, TypeOK
  <2>2. Due \subseteq ShownOf(legacy, active)
    BY <1>2, DueIsShown DEF OpenOK
  <2> QED  BY <1>1, <2>1, <2>2
<1>6. CASE FinishCommits(k) \/ FinishEnds(k)
  <2>1. fin'[k].pc = "idle"
    BY <1>6 DEF FinishCommits, FinishEnds, Call, TypeInv, TypeOK
  <2> QED  BY <2>1
<1> QED  BY CallLocal, <1>3, <1>4, <1>5, <1>6 DEF CallNext

\* Only the migration drops the legacy rows.
LEMMA LegacyStays ==
  ASSUME TypeInv, [Next]_vars
  PROVE  legacy' = legacy \/ mig.pc = "delete"
<1>1. ASSUME NEW c \in Courses, Flip(c) PROVE legacy' = legacy \/ mig.pc = "delete"
  BY <1>1 DEF Flip
<1>2. ASSUME NEW i \in Imports, Import(i) PROVE legacy' = legacy \/ mig.pc = "delete"
  BY <1>2 DEF Import
<1>3. ASSUME NEW i \in Imports, HasRows(i)
      PROVE  legacy' = legacy \/ mig.pc = "delete"
  BY <1>3 DEF HasRows, Move
<1>4. ASSUME NEW i \in Imports, ReadLegacy(i)
      PROVE  legacy' = legacy \/ mig.pc = "delete"
  BY <1>4 DEF ReadLegacy, Move
<1>5. ASSUME NEW i \in Imports, Seed(i) PROVE legacy' = legacy \/ mig.pc = "delete"
  BY <1>5 DEF Seed, Move
<1>6. ASSUME NEW i \in Imports, Load(i) PROVE legacy' = legacy \/ mig.pc = "delete"
  BY <1>6 DEF Load, Move
<1>7. ASSUME NEW i \in Imports, Write(i) PROVE legacy' = legacy \/ mig.pc = "delete"
  BY <1>7 DEF Write, Move
<1>8. ASSUME NEW i \in Imports, ImportFails(i)
      PROVE  legacy' = legacy \/ mig.pc = "delete"
  BY <1>8 DEF ImportFails, Move
<1>9. CASE Migrate
  BY <1>9 DEF Migrate
<1>10. CASE MigrateHasRows
  BY <1>10 DEF MigrateHasRows, MigrateTo
<1>11. CASE MigrateReadLegacy
  BY <1>11 DEF MigrateReadLegacy, MigrateTo
<1>12. CASE MigrateSeed
  BY <1>12 DEF MigrateSeed, MigrateTo
<1>13. CASE Verify
  BY <1>13 DEF Verify, MigrateTo
<1>14. CASE DeleteKey
  BY <1>14 DEF DeleteKey
<1>15. CASE MigrateFails
  BY <1>15 DEF MigrateFails
<1>16. ASSUME NEW j \in Jobs, Ready(j) PROVE legacy' = legacy \/ mig.pc = "delete"
  BY <1>16 DEF Ready, Jobbed
<1>17. ASSUME NEW j \in Jobs, Confirm(j) PROVE legacy' = legacy \/ mig.pc = "delete"
  BY <1>17 DEF Confirm
<1>18. ASSUME NEW j \in Jobs, Withdraw(j) PROVE legacy' = legacy \/ mig.pc = "delete"
  BY <1>18 DEF Withdraw
<1>19. ASSUME NEW j \in Jobs, NEW h \in HalfDays[j], Validate(j, h)
      PROVE  legacy' = legacy \/ mig.pc = "delete"
  BY <1>19 DEF Validate, Jobbed
<1>20. ASSUME NEW j \in Jobs, NEW h \in HalfDays[j], Stage(j, h)
      PROVE  legacy' = legacy \/ mig.pc = "delete"
  BY <1>20 DEF Stage, Jobbed
<1>21. ASSUME NEW k \in Calls, NEW j \in Jobs, Finish(k, j)
      PROVE  legacy' = legacy \/ mig.pc = "delete"
  BY <1>21 DEF Finish, Call
<1>22. ASSUME NEW k \in Calls, FinishReadsLegacy(k)
      PROVE  legacy' = legacy \/ mig.pc = "delete"
  BY <1>22 DEF FinishReadsLegacy, Call
<1>23. ASSUME NEW k \in Calls, FinishCommits(k)
      PROVE  legacy' = legacy \/ mig.pc = "delete"
  BY <1>23 DEF FinishCommits, Call, Jobbed
<1>24. ASSUME NEW k \in Calls, FinishEnds(k)
      PROVE  legacy' = legacy \/ mig.pc = "delete"
  BY <1>24 DEF FinishEnds, Call
<1>25. CASE UNCHANGED vars
  BY <1>25 DEF vars
<1> QED
  BY <1>1, <1>2, <1>3, <1>4, <1>5, <1>6, <1>7, <1>8, <1>9, <1>10,
     <1>11, <1>12, <1>13, <1>14, <1>15, <1>16, <1>17, <1>18, <1>19, <1>20,
     <1>21, <1>22, <1>23, <1>24, <1>25
     DEF Next, DeskNext, MigrationNext, JobNext, CallNext

LEMMA KeptStep ==
  ASSUME TypeInv, HistoryInv, [Next]_vars
  PROVE  KeptOK'
<1> SUFFICES ASSUME NEW x \in Legacy
             PROVE  Held(x)' \/ (store' = {} /\ x \in legacy')
  BY DEF KeptOK
<1>1. CASE Held(x)
  BY <1>1, HeldStays DEF HistoryInv
<1>2. CASE ~Held(x)
  <2>1. store = {} /\ x \in legacy /\ x \in Due
    BY <1>2 DEF HistoryInv, KeptOK, Held, Due
  <2>2. x \in legacy'
    BY <1>2, <2>1, LegacyStays DEF HistoryInv, MigrationHolds
  <2>3. CASE store' = store
    BY <2>1, <2>2, <2>3
  <2>4. ASSUME NEW i \in Imports, Seed(i) PROVE Held(x)'
    <3>1. x \in req[i].seen
      BY <2>1, <2>4 DEF Seed, HistoryInv, DeskHolds
    <3> QED  BY <2>4, <3>1 DEF Seed, Upserted, Held
  <2>5. CASE MigrateSeed
    <3>1. x \in mig.seen
      BY <2>1, <2>5 DEF MigrateSeed, HistoryInv, MigrationHolds
    <3> QED  BY <2>5, <3>1 DEF MigrateSeed, Upserted, Held
  <2>6. ASSUME NEW i \in Imports, Write(i) PROVE FALSE
    BY <2>1, <2>6 DEF Write, HistoryInv, DeskHolds
  <2>7. ASSUME NEW k \in Calls, FinishCommits(k) PROVE Held(x)'
    <3>1. x \in fin[k].seen
      BY <2>1, <2>7 DEF FinishCommits, HistoryInv, CallHolds
    <3>2. x \in Inserted(store, fin[k].seen)
      BY <2>1, <3>1 DEF Inserted, Upserted, Keys
    <3> QED  BY <2>7, <3>2, CommitSupersedes DEF Held
  <2> QED  BY TablesStep, <2>3, <2>4, <2>5, <2>6, <2>7 DEF TableStep
<1> QED  BY <1>1, <1>2

LEMMA HistoryInit == Init => HistoryInv
<1> SUFFICES ASSUME Init PROVE HistoryInv
  OBVIOUS
<1>1. SourceOK /\ OpenOK
  BY DEF Init, SourceOK, Sourced, OpenOK, Idle, Step
<1>2. (\A i \in Imports : DeskHolds(i)) /\ MigrationHolds /\ \A k \in Calls : CallHolds(k)
  BY DEF Init, DeskHolds, Working, MigrationHolds, CallHolds, Idle, Step, NoMigration, NoCall
<1>3. KeptOK
  BY DEF Init, KeptOK
<1> QED  BY <1>1, <1>2, <1>3 DEF HistoryInv

\* However imports, the migration and the common import interleave, fail or
\* are repeated, and whichever courses open and close meanwhile: a legacy
\* half-day of a course never closed, which nobody replaced, is on the board
\* (seed_from_legacy_if_unseeded, MigrateReservationReportsUseCase,
\* seed_common_legacy).
THEOREM HistoryAlwaysStays == Spec => []HistoryStaysOnTheBoard
<1>1. Init => TypeInv /\ HistoryInv
  BY TypeInit, HistoryInit
<1>2. TypeInv /\ HistoryInv /\ [Next]_vars => TypeInv' /\ HistoryInv'
  <2> SUFFICES ASSUME TypeInv, HistoryInv, [Next]_vars PROVE TypeInv' /\ HistoryInv'
    OBVIOUS
  <2>1. SourceOK' /\ OpenOK'
    BY SourceStep, OpenStep DEF HistoryInv
  <2>2. (\A i \in Imports : DeskHolds(i)') /\ MigrationHolds' /\ \A k \in Calls : CallHolds(k)'
    BY DeskHoldsStep, MigrationHoldsStep, CallHoldsStep
  <2>3. KeptOK'
    BY KeptStep
  <2> QED  BY TypeStep, <2>1, <2>2, <2>3 DEF HistoryInv
<1>3. TypeInv /\ HistoryInv => HistoryStaysOnTheBoard
  <2> SUFFICES ASSUME TypeInv, HistoryInv, NEW x \in Legacy,
                      x.bucket \notin paused, ~Superseded(x)
               PROVE  x \in Shown
    BY DEF HistoryStaysOnTheBoard
  <2>1. x \in (IF store = {} THEN legacy ELSE store)
    BY DEF HistoryInv, KeptOK, Held
  <2>2. x.bucket \in Facs \cup active
    BY LegacyAssumption DEF HistoryInv, OpenOK, Row, Buckets
  <2> QED  BY <2>1, <2>2 DEF Shown, ShownOf
<1> QED  BY <1>1, <1>2, <1>3, PTL DEF Spec

-----------------------------------------------------------------------------
(* LastImportStands *)

\* Writers come one at a time.
Solo == ~overlapped =>
  /\ \A i \in Imports : Working(i) =>
       /\ \A h \in Imports : Working(h) => h = i
       /\ mig.pc = "idle"
       /\ \A k \in Calls : fin[k].pc = "idle"
  /\ mig.pc # "idle" => \A k \in Calls : fin[k].pc = "idle"
  /\ \A k, l \in Calls : fin[k].pc # "idle" /\ fin[l].pc # "idle" => k = l

\* A writer on its own finds the table as it read it.
DeskCurrent(i) == /\ req[i].pc \in {"legacy", "seed"} => store = {}
                  /\ req[i].pc = "write" => req[i].seen = store
MigrationCurrent == mig.pc \in {"legacy", "seed"} => store = {}
CallCurrent(k) == /\ fin[k].pc = "called" => store = {}
                  /\ fin[k].pc = "tx" => fin[k].seen = {} \/ store = {}
Current == ~overlapped => /\ \A i \in Imports : DeskCurrent(i)
                          /\ MigrationCurrent
                          /\ \A k \in Calls : CallCurrent(k)

\* Until the table has rows nobody has replaced any.
Unreplaced == store = {} => \A f \in Facs : last[f] = OldFile

LastInv == Solo /\ Current /\ Unreplaced /\ LastImportStands

\* A writer begins, or those under way go on.
WorkStep ==
  \/ /\ overlapped' = overlapped
     /\ \A h \in Imports : Working(h)' => Working(h)
     /\ mig'.pc # "idle" => mig.pc # "idle"
     /\ \A l \in Calls : fin'[l].pc # "idle" => fin[l].pc # "idle"
  \/ \E i \in Imports : Import(i)
  \/ Migrate
  \/ \E k \in Calls, j \in Jobs : Finish(k, j)

LEMMA WorksStep ==
  ASSUME TypeInv, [Next]_vars
  PROVE  WorkStep
<1>1. ASSUME NEW c \in Courses, Flip(c) PROVE WorkStep
  BY <1>1 DEF Flip, WorkStep, Working
<1>2. ASSUME NEW i \in Imports, Import(i) PROVE WorkStep
  BY <1>2 DEF WorkStep
<1>3. ASSUME NEW i \in Imports, HasRows(i) PROVE WorkStep
  <2>1. \A h \in Imports : Working(h)' => Working(h)
    BY <1>3 DEF HasRows, Move, Working, Step, TypeInv, TypeOK
  <2> QED  BY <1>3, <2>1 DEF HasRows, Move, WorkStep
<1>4. ASSUME NEW i \in Imports, ReadLegacy(i) PROVE WorkStep
  <2>1. \A h \in Imports : Working(h)' => Working(h)
    BY <1>4 DEF ReadLegacy, Move, Working, Step, TypeInv, TypeOK
  <2> QED  BY <1>4, <2>1 DEF ReadLegacy, Move, WorkStep
<1>5. ASSUME NEW i \in Imports, Seed(i) PROVE WorkStep
  <2>1. \A h \in Imports : Working(h)' => Working(h)
    BY <1>5 DEF Seed, Move, Working, Step, TypeInv, TypeOK
  <2> QED  BY <1>5, <2>1 DEF Seed, Move, WorkStep
<1>6. ASSUME NEW i \in Imports, Load(i) PROVE WorkStep
  <2>1. \A h \in Imports : Working(h)' => Working(h)
    BY <1>6 DEF Load, Move, Working, Step, TypeInv, TypeOK
  <2> QED  BY <1>6, <2>1 DEF Load, Move, WorkStep
<1>7. ASSUME NEW i \in Imports, Write(i) PROVE WorkStep
  <2>1. \A h \in Imports : Working(h)' => Working(h)
    BY <1>7 DEF Write, Move, Working, Step, TypeInv, TypeOK
  <2> QED  BY <1>7, <2>1 DEF Write, Move, WorkStep
<1>8. ASSUME NEW i \in Imports, ImportFails(i) PROVE WorkStep
  <2>1. \A h \in Imports : Working(h)' => Working(h)
    BY <1>8 DEF ImportFails, Move, Working, Step, TypeInv, TypeOK
  <2> QED  BY <1>8, <2>1 DEF ImportFails, Move, WorkStep
<1>9. CASE Migrate
  BY <1>9 DEF WorkStep
<1>10. CASE MigrateHasRows
  BY <1>10 DEF MigrateHasRows, MigrateTo, WorkStep, Working, NoMigration
<1>11. CASE MigrateReadLegacy
  BY <1>11 DEF MigrateReadLegacy, MigrateTo, WorkStep, Working, NoMigration
<1>12. CASE MigrateSeed
  BY <1>12 DEF MigrateSeed, MigrateTo, WorkStep, Working, NoMigration
<1>13. CASE Verify
  BY <1>13 DEF Verify, MigrateTo, WorkStep, Working, NoMigration
<1>14. CASE DeleteKey
  BY <1>14 DEF DeleteKey, WorkStep, Working, NoMigration
<1>15. CASE MigrateFails
  BY <1>15 DEF MigrateFails, WorkStep, Working, NoMigration
<1>16. ASSUME NEW j \in Jobs, Ready(j) PROVE WorkStep
  BY <1>16 DEF Ready, Jobbed, WorkStep, Working
<1>17. ASSUME NEW j \in Jobs, Confirm(j) PROVE WorkStep
  BY <1>17 DEF Confirm, WorkStep, Working
<1>18. ASSUME NEW j \in Jobs, Withdraw(j) PROVE WorkStep
  BY <1>18 DEF Withdraw, WorkStep, Working
<1>19. ASSUME NEW j \in Jobs, NEW h \in HalfDays[j], Validate(j, h) PROVE WorkStep
  BY <1>19 DEF Validate, Jobbed, WorkStep, Working
<1>20. ASSUME NEW j \in Jobs, NEW h \in HalfDays[j], Stage(j, h) PROVE WorkStep
  BY <1>20 DEF Stage, Jobbed, WorkStep, Working
<1>21. ASSUME NEW k \in Calls, NEW j \in Jobs, Finish(k, j) PROVE WorkStep
  BY <1>21 DEF WorkStep
<1>22. ASSUME NEW k \in Calls, FinishReadsLegacy(k) PROVE WorkStep
  <2>1. \A l \in Calls : fin'[l].pc # "idle" => fin[l].pc # "idle"
    BY <1>22 DEF FinishReadsLegacy, Call, TypeInv, TypeOK
  <2> QED  BY <1>22, <2>1 DEF FinishReadsLegacy, Call, WorkStep, Working
<1>23. ASSUME NEW k \in Calls, FinishCommits(k) PROVE WorkStep
  <2>1. \A l \in Calls : fin'[l].pc # "idle" => fin[l].pc # "idle"
    BY <1>23 DEF FinishCommits, Call, Jobbed, TypeInv, TypeOK
  <2> QED  BY <1>23, <2>1 DEF FinishCommits, Call, Jobbed, WorkStep, Working
<1>24. ASSUME NEW k \in Calls, FinishEnds(k) PROVE WorkStep
  <2>1. \A l \in Calls : fin'[l].pc # "idle" => fin[l].pc # "idle"
    BY <1>24 DEF FinishEnds, Call, TypeInv, TypeOK
  <2> QED  BY <1>24, <2>1 DEF FinishEnds, Call, WorkStep, Working
<1>25. CASE UNCHANGED vars
  BY <1>25 DEF vars, WorkStep, Working
<1> QED
  BY <1>1, <1>2, <1>3, <1>4, <1>5, <1>6, <1>7, <1>8, <1>9, <1>10,
     <1>11, <1>12, <1>13, <1>14, <1>15, <1>16, <1>17, <1>18, <1>19, <1>20,
     <1>21, <1>22, <1>23, <1>24, <1>25
     DEF Next, DeskNext, MigrationNext, JobNext, CallNext

\* With nobody under way one may begin.
LEMMA FirstWorks ==
  ASSUME TypeInv, NEW i \in Imports, Import(i), ~overlapped'
  PROVE  /\ ~overlapped
         /\ \A h \in Imports : Working(h)' => h = i
         /\ mig'.pc = "idle"
         /\ \A k \in Calls : fin'[k].pc = "idle"
<1>1. ~overlapped /\ ~Busy
  BY DEF Import, Enter
<1>2. /\ \A h \in Imports : ~Working(h)
      /\ mig.pc = "idle" /\ \A k \in Calls : fin[k].pc = "idle"
  BY <1>1 DEF Busy, Working
<1>3. \A h \in Imports : h # i => req'[h] = req[h]
  BY DEF Import, TypeInv, TypeOK
<1> QED  BY <1>1, <1>2, <1>3 DEF Import, Working

LEMMA FirstMigrates ==
  ASSUME TypeInv, Migrate, ~overlapped'
  PROVE  /\ ~overlapped
         /\ \A h \in Imports : ~Working(h)'
         /\ \A k \in Calls : fin'[k].pc = "idle"
<1>1. ~overlapped /\ ~Busy
  BY DEF Migrate, Enter
<1>2. /\ \A h \in Imports : ~Working(h)
      /\ \A k \in Calls : fin[k].pc = "idle"
  BY <1>1 DEF Busy, Working
<1> QED  BY <1>1, <1>2 DEF Migrate, Working

LEMMA FirstFinishes ==
  ASSUME TypeInv, NEW k \in Calls, NEW j \in Jobs, Finish(k, j), ~overlapped'
  PROVE  /\ ~overlapped
         /\ \A h \in Imports : ~Working(h)'
         /\ mig'.pc = "idle"
         /\ \A l \in Calls : fin'[l].pc # "idle" => l = k
<1>1. ~overlapped /\ ~Busy
  BY DEF Finish, Enter
<1>2. /\ \A h \in Imports : ~Working(h)
      /\ mig.pc = "idle" /\ \A l \in Calls : fin[l].pc = "idle"
  BY <1>1 DEF Busy, Working
<1>3. \A l \in Calls : l # k => fin'[l] = fin[l]
  BY DEF Finish, Call, TypeInv, TypeOK
<1> QED  BY <1>1, <1>2, <1>3 DEF Finish, Working

LEMMA SoloStep ==
  ASSUME TypeInv, Solo, [Next]_vars, ~overlapped'
  PROVE  ~overlapped /\ Solo'
<1>1. CASE /\ overlapped' = overlapped
           /\ \A h \in Imports : Working(h)' => Working(h)
           /\ mig'.pc # "idle" => mig.pc # "idle"
           /\ \A l \in Calls : fin'[l].pc # "idle" => fin[l].pc # "idle"
  BY <1>1 DEF Solo
<1>2. ASSUME NEW i \in Imports, Import(i) PROVE ~overlapped /\ Solo'
  BY <1>2, FirstWorks DEF Solo
<1>3. CASE Migrate
  BY <1>3, FirstMigrates DEF Solo
<1>4. ASSUME NEW k \in Calls, NEW j \in Jobs, Finish(k, j) PROVE ~overlapped /\ Solo'
  BY <1>4, FirstFinishes DEF Solo
<1> QED  BY WorksStep, <1>1, <1>2, <1>3, <1>4 DEF WorkStep

\* The one writer under way writes, or nobody does.
Writers ==
  \/ store' = store
  \/ \E i \in Imports : req'[i].pc # req[i].pc /\ Working(i)
  \/ mig'.pc # mig.pc /\ mig.pc # "idle"
  \/ \E k \in Calls : fin'[k].pc # fin[k].pc /\ fin[k].pc # "idle"

LEMMA WritersStep ==
  ASSUME TypeInv, [Next]_vars
  PROVE  Writers
<1>1. CASE store' = store
  BY <1>1 DEF Writers
<1>2. ASSUME NEW i \in Imports, Seed(i) \/ Write(i) PROVE Writers
  <2>1. req'[i].pc # req[i].pc /\ Working(i)
    BY <1>2 DEF Seed, Write, Move, Step, Working, TypeInv, TypeOK
  <2> QED  BY <2>1 DEF Writers
<1>3. CASE MigrateSeed
  BY <1>3 DEF MigrateSeed, MigrateTo, Writers
<1>4. ASSUME NEW k \in Calls, FinishCommits(k) PROVE Writers
  <2>1. fin'[k].pc = "idle" /\ fin[k].pc = "tx"
    BY <1>4 DEF FinishCommits, Call, TypeInv, TypeOK
  <2> QED  BY <2>1 DEF Writers
<1> QED  BY TablesStep, <1>1, <1>2, <1>3, <1>4 DEF TableStep

LEMMA DeskCurrentStep ==
  ASSUME TypeInv, LastInv, [Next]_vars, ~overlapped', NEW i \in Imports
  PROVE  DeskCurrent(i)'
<1>1. Solo /\ DeskCurrent(i) /\ ~overlapped
  BY SoloStep DEF LastInv, Current
<1> USE DEF DeskCurrent
<1>2. CASE req'[i] = req[i]
  <2>1. CASE ~Working(i)
    BY <1>2, <2>1 DEF Working
  <2>2. CASE Working(i)
    <3>1. store' = store
      BY <1>1, <1>2, <2>2, WritersStep DEF Writers, Solo
    <3> QED  BY <1>1, <1>2, <3>1
  <2> QED  BY <2>1, <2>2
<1>3. CASE Import(i) \/ Seed(i) \/ Write(i) \/ ImportFails(i)
  <2>1. req'[i].pc \notin {"legacy", "seed", "write"}
    BY <1>3 DEF Import, Seed, Write, ImportFails, Move, Step, TypeInv, TypeOK
  <2> QED  BY <2>1
<1>4. CASE HasRows(i)
  <2>1. req'[i].pc = (IF store = {} THEN "legacy" ELSE "load") /\ store' = store
    BY <1>4 DEF HasRows, Move, Step, TypeInv, TypeOK
  <2> QED  BY <2>1
<1>5. CASE ReadLegacy(i)
  <2>1. req'[i].pc \in {"load", "seed"} /\ req[i].pc = "legacy" /\ store' = store
    BY <1>5 DEF ReadLegacy, Move, Step, TypeInv, TypeOK
  <2> QED  BY <1>1, <2>1
<1>6. CASE Load(i)
  <2>1. req'[i].pc = "write" /\ req'[i].seen = store /\ store' = store
    BY <1>6 DEF Load, Move, Step, TypeInv, TypeOK
  <2> QED  BY <2>1
<1> QED  BY DeskLocal, <1>2, <1>3, <1>4, <1>5, <1>6 DEF DeskNext

LEMMA MigrationCurrentStep ==
  ASSUME TypeInv, LastInv, [Next]_vars, ~overlapped'
  PROVE  MigrationCurrent'
<1>1. Solo /\ MigrationCurrent /\ ~overlapped
  BY SoloStep DEF LastInv, Current
<1> USE DEF MigrationCurrent
<1>2. CASE mig' = mig
  <2>1. CASE mig.pc # "idle"
    <3>1. store' = store
      BY <1>1, <1>2, <2>1, WritersStep DEF Writers, Solo
    <3> QED  BY <1>1, <1>2, <3>1
  <2> QED  BY <1>2, <2>1
<1>3. CASE Migrate \/ MigrateSeed \/ Verify \/ DeleteKey \/ MigrateFails
  BY <1>3 DEF Migrate, MigrateSeed, Verify, DeleteKey, MigrateFails, MigrateTo, NoMigration
<1>4. CASE MigrateHasRows
  BY <1>4 DEF MigrateHasRows, MigrateTo
<1>5. CASE MigrateReadLegacy
  BY <1>1, <1>5 DEF MigrateReadLegacy, MigrateTo
<1> QED  BY MigrationLocal, <1>2, <1>3, <1>4, <1>5 DEF MigrationNext

LEMMA CallCurrentStep ==
  ASSUME TypeInv, LastInv, [Next]_vars, ~overlapped', NEW k \in Calls
  PROVE  CallCurrent(k)'
<1>1. Solo /\ CallCurrent(k) /\ ~overlapped
  BY SoloStep DEF LastInv, Current
<1> USE DEF CallCurrent
<1>2. CASE fin'[k] = fin[k]
  <2>1. CASE fin[k].pc # "idle"
    <3>1. store' = store
      BY <1>1, <1>2, <2>1, WritersStep DEF Writers, Solo
    <3> QED  BY <1>1, <1>2, <3>1
  <2> QED  BY <1>2, <2>1
<1>3. ASSUME NEW j \in Jobs, Finish(k, j) PROVE CallCurrent(k)'
  <2>1. /\ fin'[k].pc = (IF store = {} THEN "called" ELSE "tx") /\ fin'[k].seen = {}
        /\ store' = store
    BY <1>3 DEF Finish, Call, TypeInv, TypeOK
  <2> QED  BY <2>1
<1>4. CASE FinishReadsLegacy(k)
  <2>1. fin'[k].pc = "tx" /\ fin[k].pc = "called" /\ store' = store
    BY <1>4 DEF FinishReadsLegacy, Call, TypeInv, TypeOK
  <2> QED  BY <1>1, <2>1
<1>5. CASE FinishCommits(k) \/ FinishEnds(k)
  <2>1. fin'[k].pc = "idle"
    BY <1>5 DEF FinishCommits, FinishEnds, Call, TypeInv, TypeOK
  <2> QED  BY <2>1
<1> QED  BY CallLocal, <1>2, <1>3, <1>4, <1>5 DEF CallNext

LEMMA UnreplacedStep ==
  ASSUME TypeInv, Unreplaced, [Next]_vars
  PROVE  Unreplaced'
<1> SUFFICES ASSUME store' = {}, NEW f \in Facs PROVE last'[f] = OldFile
  BY DEF Unreplaced
<1>1. store = {} /\ last[f] = OldFile
  BY RowsStay DEF Unreplaced
<1>2. CASE last' = last
  BY <1>1, <1>2
<1>3. ASSUME NEW i \in Imports, Write(i) PROVE last'[f] = OldFile
  <2>1. New(i) = {}
    BY <1>3 DEF Write, Upserted
  <2>2. FacsOf(i) = {}
    BY <2>1, NewRows DEF TypeInv, TypeOK, Requests
  <2> QED  BY <1>1, <1>3, <2>2 DEF Write
<1>4. ASSUME NEW k \in Calls, FinishCommits(k) PROVE last'[f] = OldFile
  <2>1. PICK j \in Jobs : j = fin[k].job
    BY <1>4 DEF FinishCommits, TypeInv, TypeOK
  <2>2. New(j) = {}
    BY <1>4, <2>1 DEF FinishCommits, Upserted
  <2>3. FacsOf(j) = {}
    BY <2>2, NewRows DEF TypeInv, TypeOK, Requests
  <2> QED  BY <1>1, <1>4, <2>1, <2>3 DEF FinishCommits
<1> QED  BY TablesStep, SeedsLegacy, <1>2, <1>3, <1>4 DEF TableStep, Seeds

LEMMA StandsStep ==
  ASSUME TypeInv, LastInv, [Next]_vars
  PROVE  LastImportStands'
<1> SUFFICES ASSUME ~overlapped', NEW x \in store', last'[x.fac] # OldFile
             PROVE  x.file = last'[x.fac]
  BY DEF LastImportStands
<1>1. Solo /\ ~overlapped /\ Unreplaced
  BY SoloStep DEF LastInv
<1>2. \A y \in store : last[y.fac] # OldFile => y.file = last[y.fac]
  BY <1>1 DEF LastInv, LastImportStands
<1>f. x \in Row /\ x.fac \in Facs
  BY TypeStep DEF TypeInv, TypeOK, Row
<1>3. CASE UNCHANGED <<store, last>>
  BY <1>2, <1>3
<1>4. ASSUME Seeds, store = {} PROVE FALSE
  BY <1>1, <1>f, <1>4 DEF Seeds, Unreplaced
<1>5. ASSUME NEW i \in Imports, Seed(i) PROVE FALSE
  <2>1. store = {}
    BY <1>1, <1>5 DEF Seed, LastInv, Current, DeskCurrent
  <2> QED  BY <1>4, <1>5, <2>1, SeedsLegacy
<1>6. CASE MigrateSeed
  <2>1. store = {}
    BY <1>1, <1>6 DEF MigrateSeed, LastInv, Current, MigrationCurrent
  <2> QED  BY <1>4, <1>6, <2>1, SeedsLegacy
<1>7. ASSUME NEW i \in Imports, Write(i) PROVE x.file = last'[x.fac]
  <2>1. req[i].seen = store
    BY <1>1, <1>7 DEF Write, LastInv, Current, DeskCurrent
  <2>2. last'[x.fac] = IF x.fac \in FacsOf(i) THEN i ELSE last[x.fac]
    BY <1>f, <1>7 DEF Write
  <2>3. CASE x \in New(i)
    <3>1. x.fac \in FacsOf(i) /\ x.file = i
      BY <2>3, NewRows DEF TypeInv, TypeOK, Requests
    <3> QED  BY <2>2, <3>1
  <2>4. CASE x \notin New(i)
    <3>1. x \in store /\ Key(x) \notin Keys(Stale(store, i)) /\ Key(x) \notin Keys(New(i))
      BY <1>7, <2>1, <2>4 DEF Write, Upserted
    <3>2. x.fac \notin FacsOf(i)
      BY <3>1 DEF Stale, Keys
    <3> QED  BY <1>2, <2>2, <3>1, <3>2
  <2> QED  BY <2>3, <2>4
<1>8. ASSUME NEW k \in Calls, FinishCommits(k) PROVE x.file = last'[x.fac]
  <2>1. PICK j \in Jobs : j = fin[k].job
    BY <1>8 DEF FinishCommits, TypeInv, TypeOK
  <2> DEFINE seeded == Inserted(store, fin[k].seen)
  <2>2. /\ store' = Upserted(seeded \ Stale(seeded, j), New(j)) /\ fin[k].pc = "tx"
        /\ last'[x.fac] = IF x.fac \in FacsOf(j) THEN j ELSE last[x.fac]
    BY <1>f, <1>8, <2>1 DEF FinishCommits
  <2>3. CASE x \in New(j)
    <3>1. x.fac \in FacsOf(j) /\ x.file = j
      BY <2>3, NewRows DEF TypeInv, TypeOK, Requests
    <3> QED  BY <2>2, <3>1
  <2>4. CASE x \notin New(j)
    <3>1. x \in seeded /\ x \notin Stale(seeded, j) /\ Key(x) \notin Keys(New(j))
      <4> HIDE DEF seeded
      <4> QED  BY <2>2, <2>4 DEF Upserted
    <3>2. x.fac \notin FacsOf(j)
      BY <3>1 DEF Stale
    <3>3. x \in store \/ x \in fin[k].seen
      BY <3>1 DEF Inserted, Upserted
    <3>4. fin[k].seen = {} \/ store = {}
      BY <1>1, <2>2 DEF LastInv, Current, CallCurrent
    <3>5. x \in store
      BY <1>1, <1>f, <2>2, <3>2, <3>3, <3>4 DEF Unreplaced
    <3> QED  BY <1>2, <2>2, <3>2, <3>5
  <2> QED  BY <2>3, <2>4
<1> QED  BY TablesStep, <1>3, <1>5, <1>6, <1>7, <1>8 DEF TableStep

LEMMA LastInit == Init => LastInv
<1> SUFFICES ASSUME Init PROVE LastInv
  OBVIOUS
<1>1. Solo
  BY DEF Init, Solo, Working, Idle, Step, NoMigration, NoCall
<1>2. Current
  BY DEF Init, Current, DeskCurrent, MigrationCurrent, CallCurrent, Idle, Step, NoMigration, NoCall
<1>3. Unreplaced /\ LastImportStands
  BY DEF Init, Unreplaced, LastImportStands
<1> QED  BY <1>1, <1>2, <1>3 DEF LastInv

\* While writers come one at a time, a facility imported once has only rows of
\* the file imported last, whatever it and others were linked to before and
\* whichever requests failed half-way (MySqlReservationReportRepository::upsert,
\* commit_common_import).
THEOREM LastImportAlwaysStands == Spec => []LastImportStands
<1>1. Init => TypeInv /\ LastInv
  BY TypeInit, LastInit
<1>2. TypeInv /\ LastInv /\ [Next]_vars => TypeInv' /\ LastInv'
  <2> SUFFICES ASSUME TypeInv, LastInv, [Next]_vars PROVE TypeInv' /\ LastInv'
    OBVIOUS
  <2>1. Solo'
    BY SoloStep DEF LastInv, Solo
  <2>2. Current'
    <3> SUFFICES ASSUME ~overlapped' PROVE /\ \A i \in Imports : DeskCurrent(i)'
                                           /\ MigrationCurrent'
                                           /\ \A k \in Calls : CallCurrent(k)'
      BY DEF Current
    <3> QED  BY DeskCurrentStep, MigrationCurrentStep, CallCurrentStep
  <2>3. Unreplaced' /\ LastImportStands'
    BY UnreplacedStep, StandsStep DEF LastInv
  <2> QED  BY TypeStep, <2>1, <2>2, <2>3 DEF LastInv
<1>3. LastInv => LastImportStands
  BY DEF LastInv
<1> QED  BY <1>1, <1>2, <1>3, PTL DEF Spec

===============================================================================
