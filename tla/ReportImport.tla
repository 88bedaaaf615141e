---------------------------- MODULE ReportImport ----------------------------
(***************************************************************************)
(* Imported reservation-report figures and their move out of Field's       *)
(* extension config (ADR-0009): the table                                  *)
(* golf_reservation_report_rows, the legacy copy in Field, and the three   *)
(* writers that may meet there: the report import of the desk, the one     *)
(* shot migration, and the common import whose job Field drives (validate, *)
(* ready, stage, finish).                                                  *)
(*                                                                         *)
(* A stored row is one half-day of one facility, kept in a bucket: the     *)
(* course the facility is linked to or, unlinked, the facility itself.     *)
(* The table's unique key is the bucket and the half-day.  The counts of a *)
(* row are abstracted to the file that brought them; every request uploads *)
(* a file of its own.                                                      *)
(***************************************************************************)
EXTENDS Naturals, FiniteSets

CONSTANTS Facs,       \* source facilities
          Courses,    \* golf courses of the tenant
          Slots,      \* half-days
          Imports,    \* imports of the desk
          Jobs,       \* common import jobs
          Calls,      \* finish calls in flight at once
          HalfDays,   \* HalfDays[r]: the <<facility, half-day>> pairs of r's file
          Links,      \* Links[r]: the mappings r may have been sent with
          Legacy,     \* the rows Field holds at the start
          OldFile,    \* the file of those rows
          MaxFlips    \* bound: courses opened or closed

Requests == Imports \cup Jobs
Buckets == Courses \cup Facs
Row == [bucket : Buckets, slot : Slots, fac : Facs, file : Requests \cup {OldFile}]

\* A mapping sends each facility to a course of its own or leaves it unlinked.
OneToOne(link) ==
  /\ \A f \in Facs : link[f] \in Courses \cup {f}
  /\ \A f, g \in Facs : f # g => link[f] # link[g]

ASSUME LinksAssumption ==
  \A r \in Requests : Links[r] # {} /\ \A link \in Links[r] : OneToOne(link)
ASSUME FilesAssumption == /\ HalfDays \in [Requests -> SUBSET (Facs \X Slots)]
                          /\ OldFile \notin Requests
\* Field keeps the legacy rows as one object per bucket, keyed by half-day.
ASSUME LegacyAssumption ==
  /\ Legacy \subseteq Row
  /\ \A x \in Legacy : x.file = OldFile
  /\ \A x, y \in Legacy : x.bucket = y.bucket /\ x.slot = y.slot => x = y
ASSUME FlipsAssumption == MaxFlips \in Nat

VARIABLES store,      \* CourseBoard's table: a set of rows
          legacy,     \* the rows under courseBoardReservationReport in Field
          active,     \* courses open at the moment
          flips,      \* courses opened or closed so far
          link,       \* link[r]: the mapping request r carries
          req,        \* req[i]: an import of the desk, by step
          mig,        \* the migration request, by step
          job,        \* job[j]: courseboard_common_import_jobs and its rows
          confirmed,  \* jobs Field reports as running
          fin,        \* fin[k]: a finish call, by step
          last,       \* ghost, last[f]: the request that last replaced f's rows
          paused,     \* ghost: courses that were ever closed
          overlapped  \* ghost: two writers were under way at once

vars == <<store, legacy, active, flips, link, req, mig, job, confirmed, fin,
          last, paused, overlapped>>

Key(x) == <<x.bucket, x.slot>>
Keys(R) == {Key(x) : x \in R}
FacsOf(r) == {h[1] : h \in HalfDays[r]}

\* The rows request r writes: mapped_entries, one row per half-day.
New(r) == {[bucket |-> link[r][h[1]], slot |-> h[2], fac |-> h[1], file |-> r] :
             h \in HalfDays[r]}

\* INSERT ... ON DUPLICATE KEY UPDATE of the rows in new.
Upserted(old, new) == new \cup {x \in old : Key(x) \notin Keys(new)}
\* INSERT ... ON DUPLICATE KEY UPDATE id=id: rows that are there are kept.
Inserted(old, new) == Upserted(new, old)

\* What a reader is shown of a set of rows: the buckets of open courses and
\* every unlinked facility.
ShownOf(rows, courses) == {x \in rows : x.bucket \in Facs \cup courses}

\* (mutant) Rows of the imported facilities that moved are left.
StaleNone(rows, r) == {}

\* The rows of r's facilities that r's file does not rewrite.
Stale(rows, r) == {x \in rows : x.fac \in FacsOf(r) /\ Key(x) \notin Keys(New(r))}

NoJob == [status |-> "absent", rows |-> {}, before |-> {}, staged |-> {}]
Step(pc, seen, courses) == [pc |-> pc, seen |-> seen, courses |-> courses]
Idle == Step("idle", {}, {})
NoCall == [pc |-> "idle", job |-> OldFile, seen |-> {}]

TypeOK ==
  /\ store \subseteq Row /\ legacy \subseteq Legacy
  /\ \A x, y \in store : Key(x) = Key(y) => x = y
  /\ active \subseteq Courses /\ paused \subseteq Courses /\ flips \in 0..MaxFlips
  /\ \A r \in Requests : link[r] \in Links[r]
  /\ req \in [Imports -> [pc : {"idle", "check", "legacy", "seed", "load", "write", "done",
                                "failed"},
                          seen : SUBSET Row, courses : SUBSET Courses]]
  /\ mig \in [pc : {"idle", "check", "legacy", "seed", "verify", "delete"},
              want : SUBSET Legacy, seen : SUBSET Legacy, courses : SUBSET Courses]
  /\ job \in [Jobs -> [status : {"absent", "validating", "ready", "committed"},
                       rows : SUBSET (Facs \X Slots),
                       before : SUBSET [fac : Facs, rows : SUBSET Row],
                       staged : SUBSET (Facs \X Slots)]]
  /\ \A j \in Jobs : job[j].rows \subseteq HalfDays[j] /\ job[j].staged \subseteq job[j].rows
  /\ confirmed \subseteq Jobs
  /\ fin \in [Calls -> [pc : {"idle", "called", "tx"}, job : Jobs \cup {OldFile},
                        seen : SUBSET Legacy]]
  /\ \A k \in Calls : fin[k].pc # "idle" => fin[k].job \in Jobs
  /\ last \in [Facs -> Requests \cup {OldFile}]
  /\ overlapped \in BOOLEAN

NoMigration == [pc |-> "idle", want |-> {}, seen |-> {}, courses |-> {}]

Init ==
  /\ store = {} /\ legacy = Legacy
  /\ active = Courses /\ flips = 0
  /\ link \in {l \in [Requests -> UNION {Links[r] : r \in Requests}] :
                 \A r \in Requests : l[r] \in Links[r]}
  /\ req = [i \in Imports |-> Idle]
  /\ mig = NoMigration
  /\ job = [j \in Jobs |-> NoJob]
  /\ confirmed = {}
  /\ fin = [k \in Calls |-> NoCall]
  /\ last = [f \in Facs |-> OldFile]
  /\ paused = {} /\ overlapped = FALSE

\* A writer that has looked at the table or the catalogue and not yet written.
Busy == \/ \E i \in Imports : req[i].pc \notin {"idle", "done", "failed"}
        \/ mig.pc # "idle"
        \/ \E k \in Calls : fin[k].pc # "idle"
Enter == overlapped' = (overlapped \/ Busy)

-----------------------------------------------------------------------------
(* The catalogue, in Field. *)

\* A course is opened or closed in the course settings.
Flip(c) ==
  /\ flips < MaxFlips
  /\ flips' = flips + 1
  /\ active' = IF c \in active THEN active \ {c} ELSE active \cup {c}
  /\ paused' = paused \cup {c}
  /\ UNCHANGED <<store, legacy, link, req, mig, job, confirmed, fin, last, overlapped>>

-----------------------------------------------------------------------------
(* The report import of the desk (ImportReservationReportUseCase). *)

Move(i, pc, seen) ==
  /\ req' = [req EXCEPT ![i] = Step(pc, seen, @.courses)]
  /\ UNCHANGED <<active, flips, link, mig, job, confirmed, fin, paused>>

\* The mapping is checked against the catalogue read by this request.
Import(i) ==
  /\ req[i].pc = "idle"
  /\ req' = [req EXCEPT ![i] =
       IF \A f \in FacsOf(i) : link[i][f] \in active \cup {f}
       THEN Step("check", {}, active) ELSE Step("failed", {}, active)]
  /\ Enter
  /\ UNCHANGED <<store, legacy, active, flips, link, mig, job, confirmed, fin, last,
                 paused>>

\* (mutant) The first import does not look at the legacy rows.
HasRowsUnseeded(i) ==
  /\ req[i].pc = "check" /\ Move(i, "load", {})
  /\ UNCHANGED <<store, legacy, last, overlapped>>

\* seed_from_legacy_if_unseeded: only an empty table is seeded.
HasRows(i) ==
  /\ req[i].pc = "check"
  /\ Move(i, IF store = {} THEN "legacy" ELSE "load", {})
  /\ UNCHANGED <<store, legacy, last, overlapped>>

ReadLegacy(i) ==
  /\ req[i].pc = "legacy"
  /\ LET seen == ShownOf(legacy, req[i].courses) IN
       Move(i, IF seen = {} THEN "load" ELSE "seed", seen)
  /\ UNCHANGED <<store, legacy, last, overlapped>>

Seed(i) ==
  /\ req[i].pc = "seed"
  /\ store' = Upserted(store, req[i].seen)
  /\ Move(i, "load", {})
  /\ UNCHANGED <<legacy, last, overlapped>>

\* The rows are read before the transaction that replaces them.
Load(i) ==
  /\ req[i].pc = "load"
  /\ Move(i, "write", store)
  /\ UNCHANGED <<store, legacy, last, overlapped>>

\* One transaction: the stale keys are deleted, whoever holds them now, and
\* the rows of the file are upserted.
Write(i) ==
  /\ req[i].pc = "write"
  /\ store' = Upserted({x \in store : Key(x) \notin Keys(Stale(req[i].seen, i))},
                       New(i))
  /\ last' = [f \in Facs |-> IF f \in FacsOf(i) THEN i ELSE last[f]]
  /\ Move(i, "done", {})
  /\ UNCHANGED <<legacy, overlapped>>

\* Any of these calls may fail; what was committed before stays.
ImportFails(i) ==
  /\ req[i].pc \notin {"idle", "done", "failed"}
  /\ Move(i, "failed", {})
  /\ UNCHANGED <<store, legacy, last, overlapped>>

-----------------------------------------------------------------------------
(* The migration (MigrateReservationReportsUseCase), run by an operator. *)

MigrateTo(pc, seen) ==
  /\ mig' = [pc |-> pc, want |-> mig.want, seen |-> seen, courses |-> mig.courses]
  /\ UNCHANGED <<active, flips, link, req, job, confirmed, fin, last, paused>>

\* The courses and the legacy rows are read first.
Migrate ==
  /\ mig.pc = "idle"
  /\ mig' = [pc |-> "check", want |-> ShownOf(legacy, active), seen |-> {},
             courses |-> active]
  /\ Enter
  /\ UNCHANGED <<store, legacy, active, flips, link, req, job, confirmed, fin, last,
                 paused>>

MigrateHasRows ==
  /\ mig.pc = "check"
  /\ MigrateTo(IF store = {} THEN "legacy" ELSE "verify", {})
  /\ UNCHANGED <<store, legacy, overlapped>>

MigrateReadLegacy ==
  /\ mig.pc = "legacy"
  /\ LET seen == ShownOf(legacy, mig.courses) IN
       MigrateTo(IF seen = {} THEN "verify" ELSE "seed", seen)
  /\ UNCHANGED <<store, legacy, overlapped>>

MigrateSeed ==
  /\ mig.pc = "seed"
  /\ store' = Upserted(store, mig.seen)
  /\ MigrateTo("verify", {})
  /\ UNCHANGED <<legacy, overlapped>>

\* Every legacy row listed at the start must be readable here, field for
\* field.  The key is deleted only on request and only then.
Verify ==
  /\ mig.pc = "verify"
  /\ \/ /\ mig.want \subseteq ShownOf(store, mig.courses)
        /\ MigrateTo("delete", {})
     \/ mig' = NoMigration /\ UNCHANGED <<active, flips, link, req, job, confirmed,
                                          fin, last, paused>>
  /\ UNCHANGED <<store, legacy, overlapped>>

\* delete_report_config_key: the whole key goes, whatever was listed of it.
DeleteKey ==
  /\ mig.pc = "delete"
  /\ legacy' = {}
  /\ mig' = NoMigration
  /\ UNCHANGED <<store, active, flips, link, req, job, confirmed, fin, last, paused,
                 overlapped>>

MigrateFails ==
  /\ mig.pc # "idle"
  /\ mig' = NoMigration
  /\ UNCHANGED <<store, legacy, active, flips, link, req, job, confirmed, fin, last,
                 paused, overlapped>>

-----------------------------------------------------------------------------
(* The common import.  Field calls the owner; any call may be repeated. *)

\* The catalogue check every operation starts with.
LinkedToActive(j) == \A f \in FacsOf(j) : link[j][f] \in active \cup {f}

\* (mutant) The snapshot leaves out who else is in the target bucket.
FacilityRowsOfSource(R, f, b) == {x \in R : x.fac = f}

\* facility_hash: the rows of the facility and those of its target bucket.
FacilityRows(R, f, b) == {x \in R : x.fac = f \/ x.bucket = b}

Jobbed(j, status, rows, before, staged) ==
  /\ job' = [job EXCEPT ![j] = [status |-> status, rows |-> rows,
                                before |-> before, staged |-> staged]]
  /\ UNCHANGED <<legacy, active, flips, link, req, mig, paused>>

\* A page of the source, here one row: the first row of a facility also files
\* what the facility holds now.
Validate(j, h) ==
  /\ LinkedToActive(j)
  /\ job[j].status \in {"absent", "validating"} /\ h \in HalfDays[j] \ job[j].rows
  /\ LET f == h[1]
         snap == [fac |-> f, rows |-> FacilityRows(store, f, link[j][f])]
     IN Jobbed(j, "validating", job[j].rows \cup {h},
               IF \E b \in job[j].before : b.fac = f THEN job[j].before
                                                     ELSE job[j].before \cup {snap},
               job[j].staged)
  /\ UNCHANGED <<store, confirmed, fin, last, overlapped>>

\* Every row of the source was validated, and every mapped facility is in it.
Ready(j) ==
  /\ LinkedToActive(j)
  /\ job[j].status = "validating" /\ job[j].rows = HalfDays[j]
  /\ Jobbed(j, "ready", job[j].rows, job[j].before, job[j].staged)
  /\ UNCHANGED <<store, confirmed, fin, last, overlapped>>

\* The operator confirms the preview: Field's job runs.
Confirm(j) ==
  /\ job[j].status = "ready" /\ j \notin confirmed
  /\ confirmed' = confirmed \cup {j}
  /\ UNCHANGED <<store, legacy, active, flips, link, req, mig, job, fin, last, paused,
                 overlapped>>

\* The operator cancels it, or it fails in Field.
Withdraw(j) ==
  /\ j \in confirmed
  /\ confirmed' = confirmed \ {j}
  /\ UNCHANGED <<store, legacy, active, flips, link, req, mig, job, fin, last, paused,
                 overlapped>>

Stage(j, h) ==
  /\ LinkedToActive(j) /\ j \in confirmed
  /\ job[j].status = "ready" /\ h \in job[j].rows \ job[j].staged
  /\ Jobbed(j, "ready", job[j].rows, job[j].before, job[j].staged \cup {h})
  /\ UNCHANGED <<store, confirmed, fin, last, overlapped>>

Call(k, pc, j, seen) ==
  fin' = [fin EXCEPT ![k] = [pc |-> pc, job |-> j, seen |-> seen]]

\* finish, before its transaction.  A committed job answers its receipt.
\* Otherwise an empty table means the legacy rows are fetched.
Finish(k, j) ==
  /\ fin[k].pc = "idle" /\ LinkedToActive(j)
  /\ job[j].status \notin {"absent", "committed"}
  /\ store = {} => j \in confirmed
  /\ Call(k, IF store = {} THEN "called" ELSE "tx", j, {})
  /\ Enter
  /\ UNCHANGED <<store, legacy, active, flips, link, req, mig, job, confirmed, last,
                 paused>>

FinishReadsLegacy(k) ==
  /\ fin[k].pc = "called"
  /\ Call(k, "tx", fin[k].job, ShownOf(legacy, active))
  /\ UNCHANGED <<store, legacy, active, flips, link, req, mig, job, confirmed, last,
                 paused, overlapped>>

\* Nothing touched the facilities since they were validated.
Unchanged(j) ==
  \A b \in job[j].before : FacilityRows(store, b.fac, link[j][b.fac]) = b.rows

\* The transaction: the CAS, the seed, the replacement and the receipt.
FinishCommits(k) ==
  LET j == fin[k].job
      seeded == Inserted(store, fin[k].seen)
  IN /\ fin[k].pc = "tx" /\ j \in confirmed
     /\ job[j].status = "ready" /\ job[j].staged = HalfDays[j] /\ Unchanged(j)
     /\ store' = Upserted(seeded \ Stale(seeded, j), New(j))
     /\ last' = [f \in Facs |-> IF f \in FacsOf(j) THEN j ELSE last[f]]
     /\ Jobbed(j, "committed", job[j].rows, job[j].before, job[j].staged)
     /\ Call(k, "idle", OldFile, {})
     /\ UNCHANGED <<confirmed, overlapped>>

\* The call is refused, fails, or finds the receipt of another call.
FinishEnds(k) ==
  /\ fin[k].pc # "idle"
  /\ Call(k, "idle", OldFile, {})
  /\ UNCHANGED <<store, legacy, active, flips, link, req, mig, job, confirmed, last,
                 paused, overlapped>>

-----------------------------------------------------------------------------
DeskNext(i) == \/ Import(i) \/ HasRows(i) \/ ReadLegacy(i) \/ Seed(i) \/ Load(i)
               \/ Write(i) \/ ImportFails(i)
MigrationNext == \/ Migrate \/ MigrateHasRows \/ MigrateReadLegacy \/ MigrateSeed
                 \/ Verify \/ DeleteKey \/ MigrateFails
JobNext(j) == \/ Ready(j) \/ Confirm(j) \/ Withdraw(j)
              \/ \E h \in HalfDays[j] : Validate(j, h) \/ Stage(j, h)
CallNext(k) == \/ \E j \in Jobs : Finish(k, j)
               \/ FinishReadsLegacy(k) \/ FinishCommits(k) \/ FinishEnds(k)

Next == \/ \E c \in Courses : Flip(c)
        \/ \E i \in Imports : DeskNext(i)
        \/ MigrationNext
        \/ \E j \in Jobs : JobNext(j)
        \/ \E k \in Calls : CallNext(k)

Spec == Init /\ [][Next]_vars

-----------------------------------------------------------------------------
(* Properties. *)

\* What the board shows: the table once it has a row, Field's copy until then.
Shown == ShownOf(IF store = {} THEN legacy ELSE store, active)

\* Requests whose file is in the table's history.
Written == {i \in Imports : req[i].pc = "done"} \cup
           {j \in Jobs : job[j].status = "committed"}

\* A legacy row somebody has replaced: its facility was imported again, or
\* its course received another facility's figures for that half-day.
Superseded(x) == \/ last[x.fac] # OldFile
                 \/ \E r \in Written : Key(x) \in Keys(New(r))

\* The comment above seed_from_legacy_if_unseeded's call: without the seed
\* "every older half-day would vanish from the board".  However imports,
\* migration and common imports interleave or fail, an old half-day of a
\* course that stayed open, which nobody replaced, is on the board.
HistoryStaysOnTheBoard ==
  \A x \in Legacy : \/ x.bucket \in paused \/ Superseded(x)
                    \/ x \in Shown

\* While writers come one at a time, a facility that was imported has only
\* rows of the file imported last: no copy is left in the bucket it was linked
\* to before, and neither a seed nor a repeated finish brings old rows back.
LastImportStands ==
  ~overlapped => \A x \in store : last[x.fac] # OldFile => x.file = last[x.fac]

\* A common import removes or rewrites nothing the operator's preview did not
\* rest on, whatever ran between validation and finish.
CommitReplacesOnlyWhatWasValidated ==
  [][\A j \in Jobs :
       (job[j].status # "committed" /\ job'[j].status = "committed") =>
          store \ store' \subseteq UNION {b.rows : b \in job[j].before}]_vars

=============================================================================
