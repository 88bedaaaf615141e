------------------------------ MODULE RankFees ------------------------------
(***************************************************************************)
(* What a round pays: the rank fee table of a club with its history        *)
(* (usecase/caddie_rank_fees.rs), and moving caddies who carry a fee of    *)
(* their own onto that table (usecase/caddie_fee_alignment.rs), from the   *)
(* sheet of desktop/src/features/golf/CaddieFeeAlignmentSheet.tsx.         *)
(*                                                                         *)
(* The fee of a caddie is in the profile Field keeps, the table and the    *)
(* log of moves in CourseBoard's database.  A move is logged as pending,   *)
(* written to Field, and confirmed or discarded by what came back.  Calls  *)
(* fail, answers are lost, a PATCH may land after its sender gave up, and  *)
(* profiles and prices are edited meanwhile.                               *)
(***************************************************************************)
EXTENDS Naturals, Sequences, FiniteSets

CONSTANTS Caddies, Ranks,
          MaxFee,       \* fees are 0..MaxFee; 0 is "paid by the rank"
          Sheets,       \* alignment sheets open at the same time
          Savers,       \* settings screens saving the table
          NoTable,      \* the club has not saved a table in CourseBoard
          Config,       \* the table of the old extension config, or the defaults
          FirstProfile, \* FirstProfile[c]: rank and fee of c at the start
          Offered,      \* the tables the club may save
          MaxEdits,     \* bound: profiles edited or removed by other screens
          MaxSaves,     \* bound: saves of the table begun
          MaxAsks       \* bound: alignment requests sent

Fees == 0..MaxFee
Tables == [Ranks -> Fees]
Profile == [rank : Ranks, fee : Fees, live : BOOLEAN]

ASSUME TableAssumption == NoTable \notin Tables
ASSUME ConfigAssumption == Config \in Tables /\ Offered \subseteq Tables
ASSUME ProfileAssumption == FirstProfile \in [Caddies -> Profile]
ASSUME BoundsAssumption == {MaxFee, MaxEdits, MaxSaves, MaxAsks} \subseteq Nat

VARIABLES profile,  \* profile[c] in Field
          version,  \* version[c]: writes to the profile of c so far
          table,    \* golf_caddie_rank_fees, or NoTable
          history,  \* golf_caddie_rank_fee_changes, oldest first
          save,     \* save[d]: the save settings screen d is making
          log,      \* golf_caddie_own_fee_changes, by id, with what really
                    \* became of each move
          sheet,    \* sheet[s]: what the sheet shows and has asked for
          pc,       \* pc[s]: where the request of sheet s is
          snap,     \* snap[s]: the table and the roster that request read
          at,       \* at[s]: the caddie and the log row it is moving
          result,   \* result[s][c]: the outcome it has for c
          excused,  \* excused[s]: it ended in an error instead of results
          late,     \* PATCHes that may still land although nobody waits
          used      \* edits, saves and requests begun

vars == <<profile, version, table, history, save, log, sheet, pc, snap, at,
          result, excused, late, used>>
field == <<profile, version>>
prices == <<table, history, save>>
request == <<sheet, pc, snap, at, result, excused>>

Outcomes == {"aligned", "already_on_rank", "own_fee_changed", "not_found",
             "rank_unpriced", "failed"}
Zeros == [c \in Caddies |-> 0]
Unasked == [c \in Caddies |-> "none"]
NoSave == [pc |-> "idle", fees |-> Config, previous |-> Config, seen |-> 0]
NoSnap == [fees |-> Config, seen |-> 0, roster |-> FirstProfile,
           version |-> Zeros]
EmptySheet == [confirmed |-> FALSE, own |-> Zeros, items |-> {}]
Nowhere == {"closed", "shown"}

\* A move and what became of it: landed, was, paid and asRead record the
\* moment its PATCH reached the profile.
Move == [caddie : Caddies, previous : Fees \ {0}, rankFee : Fees \ {0},
         state : {"pending", "listed", "discarded"}, agreed : Fees,
         landed : BOOLEAN, asRead : BOOLEAN, was : Fees, paid : Fees]
Patch == [row : Nat, caddie : Caddies, body : Profile, version : Nat, seen : Nat]

TypeOK ==
  /\ profile \in [Caddies -> Profile] /\ version \in [Caddies -> Nat]
  /\ table \in Tables \cup {NoTable}
  /\ history \in Seq([previous : Tables, fees : Tables, alone : BOOLEAN])
  /\ save \in [Savers -> [pc : {"idle", "read"}, fees : Tables,
                          previous : Tables, seen : Nat]]
  /\ log \in Seq(Move)
  /\ sheet \in [Sheets -> [confirmed : BOOLEAN, own : [Caddies -> Fees],
                           items : SUBSET Caddies]]
  /\ pc \in [Sheets -> {"closed", "shown", "asked", "priced", "planning",
                        "logged", "landed", "told", "failed", "expelled"}]
  /\ snap \in [Sheets -> [fees : Tables, seen : Nat,
                          roster : [Caddies -> Profile],
                          version : [Caddies -> Nat]]]
  /\ at \in [Sheets -> Nat]
  /\ result \in [Sheets -> [Caddies -> Outcomes \cup {"none"}]]
  /\ excused \in [Sheets -> BOOLEAN]
  /\ late \subseteq Patch
  /\ used \in [edits : Nat, saves : Nat, asks : Nat]

Init ==
  /\ profile = FirstProfile /\ version = Zeros
  /\ table = NoTable /\ history = << >>
  /\ save = [d \in Savers |-> NoSave]
  /\ log = << >>
  /\ sheet = [s \in Sheets |-> EmptySheet]
  /\ pc = [s \in Sheets |-> "closed"]
  /\ snap = [s \in Sheets |-> NoSnap]
  /\ at = [s \in Sheets |-> 0]
  /\ result = [s \in Sheets |-> Unasked]
  /\ excused = [s \in Sheets |-> FALSE]
  /\ late = {}
  /\ used = [edits |-> 0, saves |-> 0, asks |-> 0]

-----------------------------------------------------------------------------
(* The rank fee table. *)

\* What payroll was reading: the stored table, or the one it falls back to.
Replaced(stored, fees) == IF stored = NoTable THEN Config ELSE stored

\* The save reads what is stored; the same amounts again are no change.
SaveReads(d, fees) ==
  /\ save[d].pc = "idle" /\ used.saves < MaxSaves
  /\ table # fees
  /\ save' = [save EXCEPT ![d] = [pc |-> "read", fees |-> fees,
                                  previous |-> Replaced(table, fees),
                                  seen |-> Len(history)]]
  /\ used' = [used EXCEPT !.saves = @ + 1]
  /\ UNCHANGED <<table, history, log, late, field, request>>

\* replace_caddie_rank_fees: the table and its history in one transaction.
SaveWrites(d) ==
  /\ save[d].pc = "read"
  /\ table' = save[d].fees
  /\ history' = Append(history, [previous |-> save[d].previous,
                                 fees |-> save[d].fees,
                                 alone |-> save[d].seen = Len(history)])
  /\ save' = [save EXCEPT ![d] = NoSave]
  /\ UNCHANGED <<log, late, used, field, request>>

SaveFails(d) ==
  /\ save[d].pc = "read"
  /\ save' = [save EXCEPT ![d] = NoSave]
  /\ UNCHANGED <<table, history, log, late, used, field, request>>

-----------------------------------------------------------------------------
(* Profiles, as other screens change them. *)

\* Every write of a profile sends the whole body, whether the screen named
\* all of it or the rest was filled from a roster read earlier.
EditCaddie(c, rank, fee) ==
  /\ profile[c].live /\ used.edits < MaxEdits
  /\ profile' = [profile EXCEPT ![c] = [rank |-> rank, fee |-> fee, live |-> TRUE]]
  /\ version' = [version EXCEPT ![c] = @ + 1]
  /\ used' = [used EXCEPT !.edits = @ + 1]
  /\ UNCHANGED <<log, late, prices, request>>

RemoveCaddie(c) ==
  /\ profile[c].live /\ used.edits < MaxEdits
  /\ profile' = [profile EXCEPT ![c].live = FALSE]
  /\ version' = [version EXCEPT ![c] = @ + 1]
  /\ used' = [used EXCEPT !.edits = @ + 1]
  /\ UNCHANGED <<log, late, prices, request>>

-----------------------------------------------------------------------------
(* The sheet. *)

\* Everyone with a fee of their own, beside the table in force.
Candidates == {c \in Caddies : profile[c].live /\ profile[c].fee > 0}

\* The sheet offers only moves onto a rank that is priced (canAlign).
Preview(s) ==
  /\ pc[s] \in Nowhere /\ used.asks < MaxAsks
  /\ LET fees == IF table = NoTable THEN Config ELSE table
     IN  sheet' = [sheet EXCEPT ![s] =
           [confirmed |-> table # NoTable, items |-> {},
            own |-> [c \in Caddies |->
                       IF c \in Candidates /\ fees[profile[c].rank] > 0
                       THEN profile[c].fee ELSE 0]]]
  /\ pc' = [pc EXCEPT ![s] = "shown"]
  /\ UNCHANGED <<snap, at, result, excused, log, late, used, field, prices>>

\* The button is off until the club has saved its table.
Align(s, chosen) ==
  /\ pc[s] = "shown" /\ sheet[s].confirmed /\ used.asks < MaxAsks
  /\ chosen # {} /\ \A c \in chosen : sheet[s].own[c] > 0
  /\ sheet' = [sheet EXCEPT ![s].items = chosen]
  /\ pc' = [pc EXCEPT ![s] = "asked"]
  /\ result' = [result EXCEPT ![s] = Unasked]
  /\ excused' = [excused EXCEPT ![s] = FALSE]
  /\ used' = [used EXCEPT !.asks = @ + 1]
  /\ UNCHANGED <<snap, at, log, late, field, prices>>

-----------------------------------------------------------------------------
(* The request. *)

\* A saved table is never taken away, so the request the sheet lets out finds
\* one.
ReadTable(s) ==
  /\ pc[s] = "asked" /\ table # NoTable
  /\ snap' = [snap EXCEPT ![s].fees = table, ![s].seen = Len(history)]
  /\ pc' = [pc EXCEPT ![s] = "priced"]
  /\ UNCHANGED <<sheet, at, result, excused, log, late, used, field, prices>>

ReadRoster(s) ==
  /\ pc[s] = "priced"
  /\ snap' = [snap EXCEPT ![s].roster = profile, ![s].version = version]
  /\ pc' = [pc EXCEPT ![s] = "planning"]
  /\ UNCHANGED <<sheet, at, result, excused, log, late, used, field, prices>>

\* (mutant) the amount the operator agreed to is not compared.
PlanUnagreed(s, c) ==
  LET own == snap[s].roster[c]
  IN  CASE ~own.live                           -> "not_found"
        [] own.live /\ own.fee = 0             -> "already_on_rank"
        [] own.live /\ own.fee > 0
           /\ snap[s].fees[own.rank] = 0       -> "rank_unpriced"
        [] OTHER                               -> "move"

\* plan_fee_alignment: the checks in their order, on what the request read.
PlanFeeAlignment(s, c) ==
  LET own == snap[s].roster[c]
  IN  CASE ~own.live                           -> "not_found"
        [] own.live /\ own.fee = 0             -> "already_on_rank"
        [] own.live /\ own.fee > 0
           /\ own.fee # sheet[s].own[c]        -> "own_fee_changed"
        [] own.live /\ own.fee > 0
           /\ own.fee = sheet[s].own[c]
           /\ snap[s].fees[own.rank] = 0       -> "rank_unpriced"
        [] OTHER                               -> "move"

Unanswered(s) == {c \in sheet[s].items : result[s][c] = "none"}

\* A caddie who cannot be moved is answered and the next one is taken.
Leave(s, c) ==
  /\ pc[s] = "planning" /\ c \in Unanswered(s)
  /\ PlanFeeAlignment(s, c) # "move"
  /\ result' = [result EXCEPT ![s][c] = PlanFeeAlignment(s, c)]
  /\ UNCHANGED <<sheet, pc, snap, at, excused, log, late, used, field, prices>>

\* (mutant) the row counts as confirmed from the start.
PendingListed == "listed"

\* applied_at is NULL until the profile was written.
Pending == "pending"

\* record_pending_fee_change, before the profile is touched.
LogMove(s, c) ==
  /\ pc[s] = "planning" /\ c \in Unanswered(s)
  /\ PlanFeeAlignment(s, c) = "move"
  /\ LET own == snap[s].roster[c]
     IN  log' = Append(log, [caddie |-> c, previous |-> own.fee,
                             rankFee |-> snap[s].fees[own.rank],
                             state |-> Pending, agreed |-> sheet[s].own[c],
                             landed |-> FALSE, asRead |-> FALSE,
                             was |-> 0, paid |-> 0])
  /\ at' = [at EXCEPT ![s] = Len(log) + 1]
  /\ pc' = [pc EXCEPT ![s] = "logged"]
  /\ UNCHANGED <<sheet, snap, result, excused, late, used, field, prices>>

\* CaddiePatch::apply_to: fee zero, everything else as the roster had it.
Body(own) == [rank |-> own.rank, fee |-> 0, live |-> TRUE]

\* The PATCH of a log row as it leaves the server.
Call(s) ==
  [row |-> at[s], caddie |-> log[at[s]].caddie,
   body |-> Body(snap[s].roster[log[at[s]].caddie]),
   version |-> snap[s].version[log[at[s]].caddie], seen |-> snap[s].seen]

\* Field applies a PATCH to a profile that still exists.  The row remembers
\* what the profile carried, what its rank paid, and whether both were still
\* as the request had read them.
Lands(call) ==
  /\ profile[call.caddie].live
  /\ profile' = [profile EXCEPT ![call.caddie] = call.body]
  /\ version' = [version EXCEPT ![call.caddie] = @ + 1]
  /\ log' = [log EXCEPT ![call.row] =
       [@ EXCEPT !.landed = TRUE,
                 !.was = profile[call.caddie].fee,
                 !.paid = table[profile[call.caddie].rank],
                 !.asRead = /\ version[call.caddie] = call.version
                            /\ Len(history) = call.seen]]

PatchLands(s) ==
  /\ pc[s] = "logged"
  /\ Lands(Call(s))
  /\ pc' = [pc EXCEPT ![s] = "landed"]
  /\ UNCHANGED <<sheet, snap, at, result, excused, late, used, prices>>

\* The deadline of the call passes first; the PATCH may still be on its way.
PatchTimesOut(s) ==
  /\ pc[s] = "logged"
  /\ late' = late \cup {Call(s)}
  /\ pc' = [pc EXCEPT ![s] = "failed"]
  /\ UNCHANGED <<sheet, snap, at, result, excused, log, used, field, prices>>

\* Field refuses the write, the profile is gone, or Field is not reached.
PatchRefused(s) ==
  /\ pc[s] = "logged"
  /\ pc' = [pc EXCEPT ![s] = "failed"]
  /\ UNCHANGED <<sheet, snap, at, result, excused, log, late, used, field, prices>>

\* update_caddie goes on to read the staff names before it returns.
StaffRead(s) ==
  /\ pc[s] = "landed"
  /\ pc' = [pc EXCEPT ![s] = "told"]
  /\ UNCHANGED <<sheet, snap, at, result, excused, log, late, used, field, prices>>

\* The answer to the PATCH is lost, or the read of the staff names fails.
AnswerLost(s) ==
  /\ pc[s] = "landed"
  /\ pc' = [pc EXCEPT ![s] = "failed"]
  /\ UNCHANGED <<sheet, snap, at, result, excused, log, late, used, field, prices>>

\* Either call answers that the caller may not do this (any more).
Expelled(s) ==
  /\ pc[s] \in {"logged", "landed"}
  /\ pc' = [pc EXCEPT ![s] = "expelled"]
  /\ UNCHANGED <<sheet, snap, at, result, excused, log, late, used, field, prices>>

Answer(s, outcome) ==
  /\ result' = [result EXCEPT ![s][log[at[s]].caddie] = outcome]
  /\ at' = [at EXCEPT ![s] = 0]
  /\ pc' = [pc EXCEPT ![s] = "planning"]

\* A request that is over keeps nothing but what it answered.
Close(s) ==
  /\ pc' = [pc EXCEPT ![s] = "closed"]
  /\ sheet' = [sheet EXCEPT ![s] = EmptySheet]
  /\ snap' = [snap EXCEPT ![s] = NoSnap]
  /\ at' = [at EXCEPT ![s] = 0]

End(s) == Close(s) /\ excused' = [excused EXCEPT ![s] = TRUE]

\* confirm_fee_change.
Confirm(s) ==
  /\ pc[s] = "told"
  /\ log' = [log EXCEPT ![at[s]].state = IF @ = "pending" THEN "listed" ELSE @]
  /\ Answer(s, "aligned")
  /\ UNCHANGED <<sheet, snap, excused, late, used, field, prices>>

\* The confirmation fails: the request ends and the row stays pending.
ConfirmFails(s) ==
  /\ pc[s] = "told"
  /\ End(s)
  /\ UNCHANGED <<result, log, late, used, field, prices>>

\* discard_fee_change removes a row that is not confirmed; when the statement
\* itself fails the row is left behind.
Discards(s) ==
  \/ log' = [log EXCEPT ![at[s]].state = IF @ = "pending" THEN "discarded" ELSE @]
  \/ log' = log

\* (mutant) a refused caddie ends the request like lost rights do.
DiscardStops(s) ==
  /\ pc[s] = "failed"
  /\ Discards(s)
  /\ Close(s)
  /\ UNCHANGED <<result, excused, late, used, field, prices>>

\* A caddie Field refused is answered and the rest go on.
Discard(s) ==
  /\ pc[s] = "failed"
  /\ Discards(s)
  /\ Answer(s, "failed")
  /\ UNCHANGED <<sheet, snap, excused, late, used, field, prices>>

\* Losing the right to act ends the request.
DiscardAndStop(s) ==
  /\ pc[s] = "expelled"
  /\ Discards(s)
  /\ End(s)
  /\ UNCHANGED <<result, late, used, field, prices>>

\* The results go back to the sheet, which reads its list again.
Finish(s) ==
  /\ pc[s] = "planning" /\ Unanswered(s) = {}
  /\ Close(s)
  /\ UNCHANGED <<result, excused, log, late, used, field, prices>>

\* A read or the insert of the log row fails, or the process dies.
Abort(s) ==
  /\ pc[s] \notin Nowhere
  /\ End(s)
  /\ UNCHANGED <<result, log, late, used, field, prices>>

LateLanding(call) ==
  /\ call \in late
  /\ late' = late \ {call}
  /\ Lands(call)
  /\ UNCHANGED <<used, request, prices>>

LateLost(call) ==
  /\ call \in late
  /\ late' = late \ {call}
  /\ UNCHANGED <<log, used, field, request, prices>>

Step(s) ==
  \/ ReadTable(s) \/ ReadRoster(s) \/ Finish(s)
  \/ \E c \in Caddies : Leave(s, c) \/ LogMove(s, c)
  \/ PatchLands(s) \/ PatchTimesOut(s) \/ PatchRefused(s)
  \/ StaffRead(s) \/ AnswerLost(s) \/ Expelled(s)
  \/ Confirm(s) \/ ConfirmFails(s) \/ Discard(s) \/ DiscardAndStop(s)

Next ==
  \/ \E s \in Sheets : \/ Preview(s) \/ Step(s) \/ Abort(s)
                       \/ \E chosen \in SUBSET Caddies : Align(s, chosen)
  \/ \E d \in Savers : \/ SaveWrites(d) \/ SaveFails(d)
                       \/ \E fees \in Offered : SaveReads(d, fees)
  \/ \E c \in Caddies : \/ RemoveCaddie(c)
                        \/ \E k \in Ranks, f \in Fees : EditCaddie(c, k, f)
  \/ \E call \in late : LateLanding(call) \/ LateLost(call)

\* A request under way is a task of the server: it goes on to its next call,
\* and every call ends by its deadline.
Spec == Init /\ [][Next]_vars /\ \A s \in Sheets : WF_vars(Step(s))

-----------------------------------------------------------------------------
(* Properties *)

\* The log the pay screen lists is true: every listed move reached the
\* profile, and unless the profile or the table was written between the
\* request reading it and the PATCH landing, the amount before and the rank
\* fee it names are the ones that were in force (caddie_fee_alignment.rs,
\* apply and CaddieFeeChange).
ListedMovesHappened ==
  \A i \in DOMAIN log : log[i].state = "listed" =>
     /\ log[i].landed
     /\ log[i].asRead => /\ log[i].previous = log[i].was
                         /\ log[i].rankFee = log[i].paid

\* What the operator agreed to is what is moved: with nothing written since
\* the request read it, a profile is set to zero only from the amount the
\* sheet showed, however long the sheet was open, and only onto a rank that
\* pays something (plan_fee_alignment).
AgreedMovesOnly ==
  \A i \in DOMAIN log : log[i].landed /\ log[i].asRead =>
     log[i].was = log[i].agreed /\ log[i].paid > 0

\* The history explains the table: its newest entry is the table in force,
\* and unless two saves overlapped every entry starts from the one before it,
\* the first from what payroll had been reading
\* (ReplaceCaddieRankFeesUseCase::execute).
HistoryChains ==
  /\ table = IF history = << >> THEN NoTable ELSE history[Len(history)].fees
  /\ \A i \in DOMAIN history : history[i].alone =>
       history[i].previous = IF i = 1 THEN Config ELSE history[i - 1].fees

\* Everyone the operator named is answered, unless the request as a whole
\* ended in an error: one refused caddie does not stop the others (execute).
EveryoneIsAnswered ==
  \A s \in Sheets, c \in Caddies :
    (pc[s] = "asked" /\ c \in sheet[s].items)
       ~> (excused[s] \/ (pc[s] \in Nowhere /\ result[s][c] # "none"))

\* "Logged before the profile is written, so the pay change can never happen
\* without a record of it" (caddie_fee_alignment.rs:191): no move that reached
\* a profile has lost its row.
PayChangeIsRecorded ==
  \A i \in DOMAIN log : log[i].landed => log[i].state # "discarded"
=============================================================================
