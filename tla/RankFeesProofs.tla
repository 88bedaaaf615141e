--------------------------- MODULE RankFeesProofs ---------------------------
(***************************************************************************)
(* Proofs about the rank fees and the moves onto them, for every club,     *)
(* roster, set of tables and number of sheets and settings screens.        *)
(***************************************************************************)
EXTENDS RankFees, SequenceTheorems, TLAPS

Moving == {"logged", "landed", "told", "failed", "expelled"}
Rostered == {"planning"} \cup Moving
Priced == {"priced"} \cup Rostered

\* A save that no other save overtook holds what payroll is reading.
SaveOK(d) == save[d].pc = "read" =>
  /\ save[d].seen <= Len(history)
  /\ save[d].seen = Len(history) =>
       save[d].previous = IF table = NoTable THEN Config ELSE table

\* What a request read is what is in force until someone writes.
TableOK(s) == pc[s] \in Priced =>
  /\ table # NoTable
  /\ snap[s].seen <= Len(history)
  /\ snap[s].seen = Len(history) => snap[s].fees = table

RosterOK(s) == pc[s] \in Rostered => \A c \in Caddies :
  /\ snap[s].version[c] <= version[c]
  /\ snap[s].version[c] = version[c] => snap[s].roster[c] = profile[c]

\* The row a request is moving says what the request read.
RowOK(s) == pc[s] \in Moving =>
  /\ at[s] \in 1..Len(log)
  /\ log[at[s]].previous = snap[s].roster[log[at[s]].caddie].fee
  /\ log[at[s]].rankFee = snap[s].fees[snap[s].roster[log[at[s]].caddie].rank]
  /\ pc[s] \in {"landed", "told"} => log[at[s]].landed

\* A PATCH nobody waits for still knows its row, and what it would find.
CallOK(call) ==
  /\ table # NoTable
  /\ call.row \in 1..Len(log)
  /\ log[call.row].caddie = call.caddie
  /\ call.seen <= Len(history)
  /\ call.version <= version[call.caddie]
  /\ call.version = version[call.caddie] =>
       /\ log[call.row].previous = profile[call.caddie].fee
       /\ call.seen = Len(history) =>
            log[call.row].rankFee = table[profile[call.caddie].rank]

EntryOK(i) ==
  /\ log[i].agreed = log[i].previous
  /\ log[i].landed /\ log[i].asRead => /\ log[i].previous = log[i].was
                                       /\ log[i].rankFee = log[i].paid
  /\ log[i].state = "listed" => log[i].landed

FeeInv ==
  /\ HistoryChains
  /\ \A d \in Savers : SaveOK(d)
  /\ \A s \in Sheets : TableOK(s)
  /\ \A s \in Sheets : RosterOK(s)
  /\ \A s \in Sheets : RowOK(s)
  /\ \A call \in late : CallOK(call)
  /\ \A i \in 1..Len(log) : EntryOK(i)

USE TableAssumption, ConfigAssumption, ProfileAssumption, BoundsAssumption

-----------------------------------------------------------------------------
(* Facts about the operators *)

\* plan_fee_alignment moves a caddie only from the amount that was agreed,
\* onto a rank that pays.
LEMMA MoveIsAgreed ==
  ASSUME TypeOK, NEW s \in Sheets, NEW c \in Caddies,
         PlanFeeAlignment(s, c) = "move"
  PROVE  /\ snap[s].roster[c].fee = sheet[s].own[c]
         /\ snap[s].roster[c].fee \in Fees \ {0}
         /\ snap[s].fees[snap[s].roster[c].rank] \in Fees \ {0}
<1> DEFINE own == snap[s].roster[c]
<1>1. own \in Profile /\ snap[s].fees \in Tables
  BY DEF TypeOK
<1>2. own.rank \in Ranks /\ own.fee \in 0..MaxFee /\ own.live \in BOOLEAN
  BY <1>1 DEF Profile, Fees
<1>3. snap[s].fees[own.rank] \in 0..MaxFee
  BY <1>1, <1>2 DEF Tables, Fees
<1>4. own.live /\ own.fee # 0 /\ own.fee = sheet[s].own[c]
      /\ snap[s].fees[own.rank] # 0
  BY <1>2, <1>3 DEF PlanFeeAlignment
<1> QED  BY <1>2, <1>3, <1>4 DEF Fees

\* The row a request is moving is a row of the log.
LEMMA RowType ==
  ASSUME TypeOK, NEW s \in Sheets, RowOK(s), pc[s] \in Moving
  PROVE  at[s] \in 1..Len(log) /\ log[at[s]] \in Move /\ log[at[s]].caddie \in Caddies
<1>1. at[s] \in 1..Len(log)
  BY DEF RowOK
<1>2. log[at[s]] \in Move
  BY <1>1, ElementOfSeq DEF TypeOK
<1> QED  BY <1>1, <1>2 DEF Move

\* Confirming or discarding a row touches nothing but its state.
Settle(s, k) == log' = [log EXCEPT ![at[s]].state = IF @ = "pending" THEN k ELSE @]

LEMMA StateOnly ==
  ASSUME TypeOK, NEW s \in Sheets, RowOK(s), pc[s] \in Moving,
         NEW k \in {"listed", "discarded"}, Settle(s, k)
  PROVE  /\ log' \in Seq(Move)
         /\ Len(log') = Len(log)
         /\ \A j \in 1..Len(log) :
              /\ log'[j].caddie = log[j].caddie
              /\ log'[j].previous = log[j].previous
              /\ log'[j].rankFee = log[j].rankFee
              /\ log'[j].agreed = log[j].agreed
              /\ log'[j].landed = log[j].landed
              /\ log'[j].asRead = log[j].asRead
              /\ log'[j].was = log[j].was
              /\ log'[j].paid = log[j].paid
              /\ log'[j].state # log[j].state => j = at[s] /\ log'[j].state = k
<1> DEFINE i == at[s]
           row == [log[i] EXCEPT !.state = IF @ = "pending" THEN k ELSE @]
<1>0. log \in Seq(Move) /\ i \in 1..Len(log)
  BY RowType DEF TypeOK
<1>1. log[i] \in Move
  BY RowType
<1>2. row \in Move
  BY <1>1 DEF Move
<1>3. log' = [log EXCEPT ![i] = row]
  BY DEF Settle
<1>4. /\ log' \in Seq(Move) /\ Len(log') = Len(log)
      /\ \A j \in 1..Len(log) : log'[j] = IF j = i THEN row ELSE log[j]
  <2> HIDE DEF row, i
  <2> QED  BY <1>0, <1>2, <1>3, ExceptSeq
<1>5. /\ row.caddie = log[i].caddie /\ row.previous = log[i].previous
      /\ row.rankFee = log[i].rankFee /\ row.agreed = log[i].agreed
      /\ row.landed = log[i].landed /\ row.asRead = log[i].asRead
      /\ row.was = log[i].was /\ row.paid = log[i].paid
      /\ row.state # log[i].state => row.state = k
  BY <1>1 DEF Move
<1> HIDE DEF row
<1> QED  BY <1>4, <1>5

\* A PATCH that lands writes what it met into its row.
LEMMA LandsEffect ==
  ASSUME TypeOK, NEW call \in Patch, CallOK(call), Lands(call)
  PROVE  /\ profile' \in [Caddies -> Profile]
         /\ version' \in [Caddies -> Nat]
         /\ log' \in Seq(Move)
         /\ Len(log') = Len(log)
         /\ \A j \in 1..Len(log) :
              /\ log'[j].caddie = log[j].caddie
              /\ log'[j].previous = log[j].previous
              /\ log'[j].rankFee = log[j].rankFee
              /\ log'[j].agreed = log[j].agreed
              /\ log'[j].state = log[j].state
              /\ j # call.row => log'[j] = log[j]
         /\ log'[call.row].landed
         /\ log'[call.row].asRead <=> /\ version[call.caddie] = call.version
                                      /\ Len(history) = call.seen
         /\ log'[call.row].was = profile[call.caddie].fee
         /\ log'[call.row].paid = table[profile[call.caddie].rank]
         /\ \A c \in Caddies : version[c] <= version'[c]
         /\ \A c \in Caddies : version'[c] = version[c] => profile'[c] = profile[c]
<1> DEFINE asRead == version[call.caddie] = call.version /\ Len(history) = call.seen
           was == profile[call.caddie].fee
           paid == table[profile[call.caddie].rank]
           row == [log[call.row] EXCEPT !.landed = TRUE, !.was = was,
                                        !.paid = paid, !.asRead = asRead]
<1>0. call.caddie \in Caddies /\ call.body \in Profile /\ call.row \in 1..Len(log)
  BY DEF Patch, CallOK
<1>1. profile[call.caddie] \in Profile
  BY <1>0 DEF TypeOK
<1>2. was \in Fees /\ paid \in Fees
  BY <1>1 DEF Profile, CallOK, TypeOK, Tables
<1>3. asRead \in BOOLEAN
  OBVIOUS
<1>4. log[call.row] \in Move
  BY <1>0, ElementOfSeq DEF TypeOK
<1>5. /\ row \in Move
      /\ row.caddie = log[call.row].caddie
      /\ row.previous = log[call.row].previous
      /\ row.rankFee = log[call.row].rankFee
      /\ row.agreed = log[call.row].agreed
      /\ row.state = log[call.row].state
      /\ row.landed = TRUE /\ row.was = was /\ row.paid = paid
      /\ row.asRead = asRead
  <2> HIDE DEF asRead, was, paid
  <2> QED  BY <1>2, <1>3, <1>4 DEF Move
<1>6. log' = [log EXCEPT ![call.row] = row]
  BY DEF Lands
<1>7. /\ log' \in Seq(Move) /\ Len(log') = Len(log)
      /\ \A j \in 1..Len(log) : log'[j] = IF j = call.row THEN row ELSE log[j]
  <2> HIDE DEF row
  <2> QED  BY <1>0, <1>5, <1>6, ExceptSeq DEF TypeOK
<1>8. /\ profile' = [profile EXCEPT ![call.caddie] = call.body]
      /\ version' = [version EXCEPT ![call.caddie] = @ + 1]
  BY DEF Lands
<1>9. /\ profile' \in [Caddies -> Profile]
      /\ version' \in [Caddies -> Nat]
      /\ \A c \in Caddies : version[c] <= version'[c]
      /\ \A c \in Caddies : version'[c] = version[c] => profile'[c] = profile[c]
  BY <1>0, <1>8 DEF TypeOK
<1>10. log'[call.row] = row
  BY <1>7, <1>0
<1>11. log'[call.row].asRead <=> asRead
  BY <1>5, <1>10
<1> HIDE DEF row
<1> QED  BY <1>0, <1>5, <1>7, <1>9, <1>10, <1>11

\* The PATCH of a request under way is one CallOK speaks of.
LEMMA CallIsOK ==
  ASSUME TypeOK, NEW s \in Sheets, TableOK(s), RosterOK(s), RowOK(s),
         pc[s] \in Moving
  PROVE  Call(s) \in Patch /\ CallOK(Call(s))
<1> DEFINE c == log[at[s]].caddie
           own == snap[s].roster[c]
<1>1. at[s] \in 1..Len(log) /\ at[s] \in Nat
  BY DEF RowOK, TypeOK
<1>2. log[at[s]] \in Move
  BY <1>1, ElementOfSeq DEF TypeOK
<1>3. c \in Caddies
  BY <1>2 DEF Move
<1>4. own \in Profile /\ own.rank \in Ranks
  BY <1>3 DEF TypeOK, Profile
<1>5. Body(own) \in Profile
  BY <1>4 DEF Body, Profile, Fees
<1>6. snap[s].version[c] \in Nat /\ snap[s].seen \in Nat
  BY <1>3 DEF TypeOK
<1>7. /\ Call(s).row = at[s] /\ Call(s).caddie = c
      /\ Call(s).version = snap[s].version[c] /\ Call(s).seen = snap[s].seen
  BY DEF Call
<1>8. Call(s) \in Patch
  <2> HIDE DEF c
  <2>1. Call(s) = [row |-> at[s], caddie |-> c, body |-> Body(own),
                   version |-> snap[s].version[c], seen |-> snap[s].seen]
    BY DEF Call, c
  <2> QED  BY <1>1, <1>3, <1>5, <1>6, <2>1 DEF Patch
<1>9. /\ table # NoTable
      /\ snap[s].seen <= Len(history)
      /\ snap[s].seen = Len(history) => snap[s].fees = table
  BY DEF TableOK, Priced, Rostered
<1>10. /\ snap[s].version[c] <= version[c]
       /\ snap[s].version[c] = version[c] => own = profile[c]
  BY <1>3 DEF RosterOK, Rostered
<1>11. log[at[s]].previous = own.fee /\ log[at[s]].rankFee = snap[s].fees[own.rank]
  BY DEF RowOK
<1> HIDE DEF c, own
<1>12. CallOK(Call(s))
  <2>1. log[Call(s).row].caddie = Call(s).caddie
    BY <1>7 DEF c
  <2> QED  BY <1>1, <1>7, <1>9, <1>10, <1>11, <2>1 DEF CallOK
<1> QED  BY <1>8, <1>12

-----------------------------------------------------------------------------
(* Type correctness *)

\* What a request, a sheet and a save start from and go back to.
LEMMA BlankTypes ==
  /\ NoSave \in [pc : {"idle", "read"}, fees : Tables,
                 previous : Tables, seen : Nat]
  /\ NoSnap \in [fees : Tables, seen : Nat, roster : [Caddies -> Profile],
                 version : [Caddies -> Nat]]
  /\ EmptySheet \in [confirmed : BOOLEAN, own : [Caddies -> Fees],
                     items : SUBSET Caddies]
  /\ Unasked \in [Caddies -> Outcomes \cup {"none"}]
  BY DEF NoSave, NoSnap, EmptySheet, Unasked, Zeros, Fees

\* One field of a record, or of a record in a function, is written.
LEMMA UsedType ==
  ASSUME NEW u \in [edits : Nat, saves : Nat, asks : Nat]
  PROVE  /\ [u EXCEPT !.edits = @ + 1] \in [edits : Nat, saves : Nat, asks : Nat]
         /\ [u EXCEPT !.saves = @ + 1] \in [edits : Nat, saves : Nat, asks : Nat]
         /\ [u EXCEPT !.asks = @ + 1] \in [edits : Nat, saves : Nat, asks : Nat]
  OBVIOUS

LEMMA ItemsType ==
  ASSUME NEW f \in [Sheets -> [confirmed : BOOLEAN, own : [Caddies -> Fees],
                               items : SUBSET Caddies]],
         NEW s \in Sheets, NEW chosen \in SUBSET Caddies
  PROVE  [f EXCEPT ![s].items = chosen] \in
           [Sheets -> [confirmed : BOOLEAN, own : [Caddies -> Fees],
                       items : SUBSET Caddies]]
  OBVIOUS

LEMMA SnapType ==
  ASSUME NEW f \in [Sheets -> [fees : Tables, seen : Nat,
                               roster : [Caddies -> Profile],
                               version : [Caddies -> Nat]]],
         NEW s \in Sheets, NEW fees \in Tables, NEW n \in Nat,
         NEW roster \in [Caddies -> Profile], NEW stamp \in [Caddies -> Nat]
  PROVE  /\ [f EXCEPT ![s].fees = fees, ![s].seen = n] \in
              [Sheets -> [fees : Tables, seen : Nat,
                          roster : [Caddies -> Profile],
                          version : [Caddies -> Nat]]]
         /\ [f EXCEPT ![s].roster = roster, ![s].version = stamp] \in
              [Sheets -> [fees : Tables, seen : Nat,
                          roster : [Caddies -> Profile],
                          version : [Caddies -> Nat]]]
  OBVIOUS

LEMMA GoneType ==
  ASSUME NEW f \in [Caddies -> Profile], NEW c \in Caddies
  PROVE  [f EXCEPT ![c].live = FALSE] \in [Caddies -> Profile]
  BY DEF Profile

LEMMA TypeInit == Init => TypeOK
<1> SUFFICES ASSUME Init PROVE TypeOK
  OBVIOUS
<1>1. Zeros \in [Caddies -> Nat]
  BY DEF Zeros
<1>2. history \in Seq([previous : Tables, fees : Tables, alone : BOOLEAN])
      /\ log \in Seq(Move)
  BY DEF Init
<1> QED  BY <1>1, <1>2, BlankTypes DEF Init, TypeOK

\* The type of what a landing PATCH writes into its row rests on FeeInv: the
\* row exists, and a table is in force.
LEMMA TypeStep == TypeOK /\ FeeInv /\ [Next]_vars => TypeOK'
<1> SUFFICES ASSUME TypeOK, FeeInv, [Next]_vars PROVE TypeOK'
  OBVIOUS
<1> USE DEF TypeOK, field, prices, request
<1>1. ASSUME NEW s \in Sheets, Preview(s) PROVE TypeOK'
  <2>1. sheet[s]' \in [confirmed : BOOLEAN, own : [Caddies -> Fees],
                       items : SUBSET Caddies]
    <3>1. \A c \in Caddies : profile[c].fee \in Fees
      BY DEF Profile
    <3> QED  BY <1>1, <3>1 DEF Preview, Fees
  <2>2. sheet' = [sheet EXCEPT ![s] = sheet[s]']
    BY <1>1 DEF Preview
  <2> QED  BY <1>1, <2>1, <2>2 DEF Preview
<1>2. ASSUME NEW s \in Sheets, NEW chosen \in SUBSET Caddies, Align(s, chosen)
      PROVE  TypeOK'
  <2>1. sheet' \in [Sheets -> [confirmed : BOOLEAN, own : [Caddies -> Fees],
                              items : SUBSET Caddies]]
    BY <1>2, ItemsType DEF Align
  <2>2. used' \in [edits : Nat, saves : Nat, asks : Nat]
    BY <1>2, UsedType DEF Align
  <2> QED  BY <1>2, <2>1, <2>2, BlankTypes DEF Align
<1>3. ASSUME NEW s \in Sheets, ReadTable(s) PROVE TypeOK'
  <2>1. snap' \in [Sheets -> [fees : Tables, seen : Nat,
                             roster : [Caddies -> Profile],
                             version : [Caddies -> Nat]]]
    <3>1. table \in Tables /\ Len(history) \in Nat
      BY <1>3 DEF ReadTable
    <3> QED  BY <1>3, <3>1, SnapType DEF ReadTable
  <2> QED  BY <1>3, <2>1 DEF ReadTable
<1>4. ASSUME NEW s \in Sheets, ReadRoster(s) PROVE TypeOK'
  <2>1. snap' \in [Sheets -> [fees : Tables, seen : Nat,
                             roster : [Caddies -> Profile],
                             version : [Caddies -> Nat]]]
    BY <1>4, SnapType DEF ReadRoster
  <2> QED  BY <1>4, <2>1 DEF ReadRoster
<1>5. ASSUME NEW s \in Sheets, Finish(s) PROVE TypeOK'
  BY <1>5, BlankTypes DEF Finish, Close
<1>6. ASSUME NEW s \in Sheets, NEW c \in Caddies, Leave(s, c) PROVE TypeOK'
  <2>1. PlanFeeAlignment(s, c) \in Outcomes \cup {"none", "move"}
    BY DEF PlanFeeAlignment, Outcomes
  <2> HIDE DEF Outcomes
  <2> QED  BY <1>6, <2>1 DEF Leave
<1>7. ASSUME NEW s \in Sheets, NEW c \in Caddies, LogMove(s, c) PROVE TypeOK'
  <2> DEFINE own == snap[s].roster[c]
             row == [caddie |-> c, previous |-> own.fee,
                     rankFee |-> snap[s].fees[own.rank],
                     state |-> Pending, agreed |-> sheet[s].own[c],
                     landed |-> FALSE, asRead |-> FALSE, was |-> 0, paid |-> 0]
  <2>1. row \in Move
    <3>1. /\ own.fee \in Fees \ {0}
          /\ snap[s].fees[own.rank] \in Fees \ {0}
      <4> HIDE DEF TypeOK
      <4> QED  BY <1>7, MoveIsAgreed DEF LogMove
    <3>2. 0 \in Fees /\ sheet[s].own[c] \in Fees
      BY DEF Fees
    <3> QED  BY <3>1, <3>2 DEF Pending, Move
  <2>2. log' = Append(log, row)
    BY <1>7 DEF LogMove
  <2> HIDE DEF row
  <2>3. log' \in Seq(Move)
    BY <2>1, <2>2
  <2>4. Len(log) + 1 \in Nat
    OBVIOUS
  <2> QED  BY <1>7, <2>3, <2>4 DEF LogMove
<1>8. ASSUME NEW s \in Sheets, PatchLands(s) PROVE TypeOK'
  <2>1. Call(s) \in Patch /\ CallOK(Call(s)) /\ Lands(Call(s))
    BY <1>8, CallIsOK DEF PatchLands, Moving, FeeInv
  <2>2. /\ profile' \in [Caddies -> Profile]
        /\ version' \in [Caddies -> Nat]
        /\ log' \in Seq(Move)
    BY <2>1, LandsEffect
  <2> QED  BY <1>8, <2>2 DEF PatchLands
<1>9. ASSUME NEW s \in Sheets, PatchTimesOut(s) PROVE TypeOK'
  <2>1. Call(s) \in Patch
    BY <1>9, CallIsOK DEF PatchTimesOut, Moving, FeeInv
  <2> QED  BY <1>9, <2>1 DEF PatchTimesOut
<1>10. ASSUME NEW s \in Sheets, PatchRefused(s) PROVE TypeOK'
  BY <1>10 DEF PatchRefused
<1>11. ASSUME NEW s \in Sheets, StaffRead(s) PROVE TypeOK'
  BY <1>11 DEF StaffRead
<1>12. ASSUME NEW s \in Sheets, AnswerLost(s) PROVE TypeOK'
  BY <1>12 DEF AnswerLost
<1>13. ASSUME NEW s \in Sheets, Expelled(s) PROVE TypeOK'
  BY <1>13 DEF Expelled
<1>14. ASSUME NEW s \in Sheets, Confirm(s) PROVE TypeOK'
  <2>1. RowOK(s) /\ pc[s] \in Moving
    BY <1>14 DEF Confirm, FeeInv, Moving
  <2>2. log' \in Seq(Move)
    <3> HIDE DEF TypeOK
    <3>1. Settle(s, "listed")
      BY <1>14 DEF Confirm, Settle
    <3> QED  BY <3>1, <2>1, StateOnly
  <2>3. log[at[s]].caddie \in Caddies
    <3> HIDE DEF TypeOK
    <3> QED  BY <2>1, RowType
  <2>4. result' \in [Sheets -> [Caddies -> Outcomes \cup {"none"}]]
    BY <1>14, <2>3 DEF Confirm, Answer, Outcomes
  <2> QED  BY <1>14, <2>2, <2>4 DEF Confirm, Answer
<1>15. ASSUME NEW s \in Sheets, ConfirmFails(s) PROVE TypeOK'
  BY <1>15, BlankTypes DEF ConfirmFails, End, Close
<1>16. ASSUME NEW s \in Sheets, Discard(s) PROVE TypeOK'
  <2>1. RowOK(s) /\ pc[s] \in Moving
    BY <1>16 DEF Discard, FeeInv, Moving
  <2>2. log' \in Seq(Move)
    <3> HIDE DEF TypeOK
    <3>1. Settle(s, "discarded") \/ log' = log
      BY <1>16 DEF Discard, Discards, Settle
    <3> QED  BY <3>1, <2>1, StateOnly, TypeOK DEF TypeOK
  <2>3. log[at[s]].caddie \in Caddies
    <3> HIDE DEF TypeOK
    <3> QED  BY <2>1, RowType
  <2>4. result' \in [Sheets -> [Caddies -> Outcomes \cup {"none"}]]
    BY <1>16, <2>3 DEF Discard, Answer, Outcomes
  <2> QED  BY <1>16, <2>2, <2>4 DEF Discard, Answer
<1>17. ASSUME NEW s \in Sheets, DiscardAndStop(s) PROVE TypeOK'
  <2>1. RowOK(s) /\ pc[s] \in Moving
    BY <1>17 DEF DiscardAndStop, FeeInv, Moving
  <2>2. log' \in Seq(Move)
    <3> HIDE DEF TypeOK
    <3>1. Settle(s, "discarded") \/ log' = log
      BY <1>17 DEF DiscardAndStop, Discards, Settle
    <3> QED  BY <3>1, <2>1, StateOnly, TypeOK DEF TypeOK
  <2> QED  BY <1>17, <2>2, BlankTypes DEF DiscardAndStop, End, Close
<1>18. ASSUME NEW s \in Sheets, Abort(s) PROVE TypeOK'
  BY <1>18, BlankTypes DEF Abort, End, Close
<1>19. ASSUME NEW d \in Savers, NEW fees \in Offered, SaveReads(d, fees)
      PROVE  TypeOK'
  <2>1. save' \in [Savers -> [pc : {"idle", "read"}, fees : Tables,
                             previous : Tables, seen : Nat]]
    <3>1. Replaced(table, fees) \in Tables /\ Len(history) \in Nat /\ fees \in Tables
      BY DEF Replaced
    <3> QED  BY <1>19, <3>1 DEF SaveReads
  <2>2. used' \in [edits : Nat, saves : Nat, asks : Nat]
    BY <1>19, UsedType DEF SaveReads
  <2> QED  BY <1>19, <2>1, <2>2 DEF SaveReads
<1>20. ASSUME NEW d \in Savers, SaveWrites(d) PROVE TypeOK'
  <2> DEFINE entry == [previous |-> save[d].previous, fees |-> save[d].fees,
                       alone |-> save[d].seen = Len(history)]
  <2>1. entry \in [previous : Tables, fees : Tables, alone : BOOLEAN]
    OBVIOUS
  <2>2. history' = Append(history, entry)
    BY <1>20 DEF SaveWrites
  <2> HIDE DEF entry
  <2>3. history' \in Seq([previous : Tables, fees : Tables, alone : BOOLEAN])
    BY <2>1, <2>2
  <2> QED  BY <1>20, <2>3, BlankTypes DEF SaveWrites
<1>21. ASSUME NEW d \in Savers, SaveFails(d) PROVE TypeOK'
  BY <1>21, BlankTypes DEF SaveFails, NoSave
<1>22. ASSUME NEW c \in Caddies, NEW k \in Ranks, NEW f \in Fees, EditCaddie(c, k, f)
      PROVE  TypeOK'
  <2>1. profile' \in [Caddies -> Profile] /\ version' \in [Caddies -> Nat]
    BY <1>22 DEF EditCaddie, Profile
  <2>2. used' \in [edits : Nat, saves : Nat, asks : Nat]
    BY <1>22, UsedType DEF EditCaddie
  <2> QED  BY <1>22, <2>1, <2>2 DEF EditCaddie
<1>23. ASSUME NEW c \in Caddies, RemoveCaddie(c) PROVE TypeOK'
  <2>1. profile' \in [Caddies -> Profile]
    BY <1>23, GoneType DEF RemoveCaddie
  <2>2. version' \in [Caddies -> Nat]
    BY <1>23 DEF RemoveCaddie
  <2>3. used' \in [edits : Nat, saves : Nat, asks : Nat]
    BY <1>23, UsedType DEF RemoveCaddie
  <2> QED  BY <1>23, <2>1, <2>2, <2>3 DEF RemoveCaddie
<1>24. ASSUME NEW call \in late, LateLanding(call) PROVE TypeOK'
  <2>1. call \in Patch /\ CallOK(call) /\ Lands(call)
    BY <1>24 DEF LateLanding, FeeInv
  <2>2. /\ profile' \in [Caddies -> Profile]
        /\ version' \in [Caddies -> Nat]
        /\ log' \in Seq(Move)
    BY <2>1, LandsEffect
  <2> QED  BY <1>24, <2>2 DEF LateLanding
<1>25. ASSUME NEW call \in late, LateLost(call) PROVE TypeOK'
  BY <1>25 DEF LateLost
<1>26. ASSUME UNCHANGED vars PROVE TypeOK'
  BY <1>26 DEF vars
<1> HIDE DEF TypeOK, field, prices, request
<1> QED
  BY <1>1, <1>2, <1>3, <1>4, <1>5, <1>6, <1>7, <1>8, <1>9, <1>10, <1>11, <1>12, <1>13, <1>14, <1>15, <1>16, <1>17, <1>18, <1>19, <1>20, <1>21, <1>22, <1>23, <1>24, <1>25, <1>26
     DEF Next, Step

-----------------------------------------------------------------------------
(* What every step leaves standing *)

\* Rows, versions and history only grow; what they number changes only with
\* them.
Grow ==
  /\ Len(history) <= Len(history')
  /\ Len(history') = Len(history) => table' = table
  /\ table # NoTable => table' # NoTable
  /\ \A c \in Caddies :
       /\ version[c] <= version'[c]
       /\ version'[c] = version[c] => profile'[c] = profile[c]
  /\ Len(log) <= Len(log')
  /\ \A i \in 1..Len(log) :
       /\ log'[i].caddie = log[i].caddie
       /\ log'[i].previous = log[i].previous
       /\ log'[i].rankFee = log[i].rankFee
       /\ log[i].landed => log'[i].landed

\* A PATCH that lands only adds to what the rest of the proof remembers.
LEMMA LandsGrows ==
  ASSUME TypeOK, NEW call \in Patch, CallOK(call), Lands(call),
         UNCHANGED <<table, history>>
  PROVE  Grow
<1>1. Len(history) \in Nat /\ Len(log) \in Nat /\ Len(log') = Len(log)
  BY LandsEffect DEF TypeOK
<1>2. \A c \in Caddies : /\ version[c] <= version'[c]
                         /\ version'[c] = version[c] => profile'[c] = profile[c]
  BY LandsEffect
<1>3. log'[call.row].landed
  BY LandsEffect
<1>4. ASSUME NEW i \in 1..Len(log)
      PROVE  /\ log'[i].caddie = log[i].caddie
             /\ log'[i].previous = log[i].previous
             /\ log'[i].rankFee = log[i].rankFee
             /\ i # call.row => log'[i] = log[i]
  BY LandsEffect
<1>5. \A i \in 1..Len(log) : log[i].landed => log'[i].landed
  BY <1>3, <1>4
<1> QED  BY <1>1, <1>2, <1>4, <1>5 DEF Grow

LEMMA Grows ==
  ASSUME TypeOK, FeeInv, [Next]_vars
  PROVE  Grow
<1>0. /\ Len(history) \in Nat /\ Len(log) \in Nat
      /\ \A c \in Caddies : version[c] \in Nat
  BY DEF TypeOK
<1>1. ASSUME NEW s \in Sheets, Preview(s) PROVE Grow
  BY <1>0, <1>1 DEF Grow, Preview, field, prices, request
<1>2. ASSUME NEW s \in Sheets, NEW chosen \in SUBSET Caddies, Align(s, chosen)
      PROVE  Grow
  BY <1>0, <1>2 DEF Grow, Align, field, prices, request
<1>3. ASSUME NEW s \in Sheets, ReadTable(s) PROVE Grow
  BY <1>0, <1>3 DEF Grow, ReadTable, field, prices, request
<1>4. ASSUME NEW s \in Sheets, ReadRoster(s) PROVE Grow
  BY <1>0, <1>4 DEF Grow, ReadRoster, field, prices, request
<1>5. ASSUME NEW s \in Sheets, Finish(s) PROVE Grow
  BY <1>0, <1>5 DEF Grow, Finish, field, prices, request
<1>6. ASSUME NEW s \in Sheets, NEW c \in Caddies, Leave(s, c) PROVE Grow
  BY <1>0, <1>6 DEF Grow, Leave, field, prices, request
<1>7. ASSUME NEW s \in Sheets, NEW c \in Caddies, LogMove(s, c) PROVE Grow
  <2>1. Len(log') = Len(log) + 1 /\ \A i \in 1..Len(log) : log'[i] = log[i]
    BY <1>7 DEF LogMove, TypeOK
  <2>2. UNCHANGED <<profile, version, table, history>>
    BY <1>7 DEF LogMove, field, prices
  <2> QED  BY <1>0, <2>1, <2>2 DEF Grow
<1>8. ASSUME NEW s \in Sheets, PatchLands(s) PROVE Grow
  <2>1. PICK call \in Patch : CallOK(call) /\ Lands(call)
    BY <1>8, CallIsOK DEF PatchLands, Moving, FeeInv
  <2>2. UNCHANGED <<table, history>>
    BY <1>8 DEF PatchLands, prices
  <2> QED  BY <2>1, <2>2, LandsGrows
<1>9. ASSUME NEW s \in Sheets, PatchTimesOut(s) PROVE Grow
  BY <1>0, <1>9 DEF Grow, PatchTimesOut, field, prices, request
<1>10. ASSUME NEW s \in Sheets, PatchRefused(s) PROVE Grow
  BY <1>0, <1>10 DEF Grow, PatchRefused, field, prices, request
<1>11. ASSUME NEW s \in Sheets, StaffRead(s) PROVE Grow
  BY <1>0, <1>11 DEF Grow, StaffRead, field, prices, request
<1>12. ASSUME NEW s \in Sheets, AnswerLost(s) PROVE Grow
  BY <1>0, <1>12 DEF Grow, AnswerLost, field, prices, request
<1>13. ASSUME NEW s \in Sheets, Expelled(s) PROVE Grow
  BY <1>0, <1>13 DEF Grow, Expelled, field, prices, request
<1>14. ASSUME NEW s \in Sheets, Confirm(s) PROVE Grow
  <2>1. RowOK(s) /\ pc[s] \in Moving
    BY <1>14 DEF Confirm, FeeInv, Moving
  <2>2. Settle(s, "listed")
    BY <1>14 DEF Confirm, Settle
  <2>3. UNCHANGED <<profile, version, table, history>>
    BY <1>14 DEF Confirm, field, prices
  <2> QED  BY <1>0, <2>1, <2>2, <2>3, StateOnly DEF Grow
<1>15. ASSUME NEW s \in Sheets, ConfirmFails(s) PROVE Grow
  BY <1>0, <1>15 DEF Grow, ConfirmFails, field, prices, request
<1>16. ASSUME NEW s \in Sheets, Discard(s) PROVE Grow
  <2>1. RowOK(s) /\ pc[s] \in Moving
    BY <1>16 DEF Discard, FeeInv, Moving
  <2>2. Settle(s, "discarded") \/ log' = log
    BY <1>16 DEF Discard, Discards, Settle
  <2>3. UNCHANGED <<profile, version, table, history>>
    BY <1>16 DEF Discard, field, prices
  <2> QED  BY <1>0, <2>1, <2>2, <2>3, StateOnly DEF Grow
<1>17. ASSUME NEW s \in Sheets, DiscardAndStop(s) PROVE Grow
  <2>1. RowOK(s) /\ pc[s] \in Moving
    BY <1>17 DEF DiscardAndStop, FeeInv, Moving
  <2>2. Settle(s, "discarded") \/ log' = log
    BY <1>17 DEF DiscardAndStop, Discards, Settle
  <2>3. UNCHANGED <<profile, version, table, history>>
    BY <1>17 DEF DiscardAndStop, field, prices
  <2> QED  BY <1>0, <2>1, <2>2, <2>3, StateOnly DEF Grow
<1>18. ASSUME NEW s \in Sheets, Abort(s) PROVE Grow
  BY <1>0, <1>18 DEF Grow, Abort, field, prices, request
<1>19. ASSUME NEW d \in Savers, NEW fees \in Offered, SaveReads(d, fees)
      PROVE  Grow
  BY <1>0, <1>19 DEF Grow, SaveReads, field, prices, request
<1>20. ASSUME NEW d \in Savers, SaveWrites(d) PROVE Grow
  <2>1. Len(history') = Len(history) + 1 /\ table' \in Tables
    BY <1>20 DEF SaveWrites, TypeOK
  <2>2. UNCHANGED <<profile, version, log>>
    BY <1>20 DEF SaveWrites, field
  <2> QED  BY <1>0, <2>1, <2>2 DEF Grow
<1>21. ASSUME NEW d \in Savers, SaveFails(d) PROVE Grow
  BY <1>0, <1>21 DEF Grow, SaveFails, field, prices, request
<1>22. ASSUME NEW c \in Caddies, NEW k \in Ranks, NEW f \in Fees, EditCaddie(c, k, f)
      PROVE  Grow
  <2>1. \A x \in Caddies : /\ version[x] <= version'[x]
                           /\ version'[x] = version[x] => profile'[x] = profile[x]
    BY <1>22 DEF EditCaddie, TypeOK
  <2>2. UNCHANGED <<table, history, log>>
    BY <1>22 DEF EditCaddie, prices
  <2> QED  BY <1>0, <2>1, <2>2 DEF Grow
<1>23. ASSUME NEW c \in Caddies, RemoveCaddie(c) PROVE Grow
  <2>1. \A x \in Caddies : /\ version[x] <= version'[x]
                           /\ version'[x] = version[x] => profile'[x] = profile[x]
    BY <1>23 DEF RemoveCaddie, TypeOK
  <2>2. UNCHANGED <<table, history, log>>
    BY <1>23 DEF RemoveCaddie, prices
  <2> QED  BY <1>0, <2>1, <2>2 DEF Grow
<1>24. ASSUME NEW call \in late, LateLanding(call) PROVE Grow
  <2>1. call \in Patch /\ CallOK(call) /\ Lands(call)
    BY <1>24 DEF LateLanding, FeeInv, TypeOK
  <2>2. UNCHANGED <<table, history>>
    BY <1>24 DEF LateLanding, prices
  <2> QED  BY <2>1, <2>2, LandsGrows
<1>25. ASSUME NEW call \in late, LateLost(call) PROVE Grow
  BY <1>0, <1>25 DEF Grow, LateLost, field, prices, request
<1>26. ASSUME UNCHANGED vars PROVE Grow
  BY <1>0, <1>26 DEF Grow, vars
<1> QED
  BY <1>1, <1>2, <1>3, <1>4, <1>5, <1>6, <1>7, <1>8, <1>9, <1>10, <1>11, <1>12, <1>13, <1>14, <1>15, <1>16, <1>17, <1>18, <1>19, <1>20, <1>21, <1>22, <1>23, <1>24, <1>25, <1>26
     DEF Next, Step

\* A request that is not reading keeps what it read.
Kept(s) == pc'[s] \in Priced =>
  /\ snap'[s] = snap[s]
  /\ pc[s] \in Priced
  /\ pc'[s] \in Rostered => pc[s] \in Rostered
  /\ pc'[s] \in Moving => pc[s] \in Moving /\ at'[s] = at[s]
  /\ pc'[s] \in {"landed", "told"} => pc[s] \in {"landed", "told"}

LEMMA KeptTable ==
  ASSUME TypeOK, TypeOK', Grow, NEW s \in Sheets, Kept(s), TableOK(s)
  PROVE  TableOK(s)'
<1> SUFFICES ASSUME pc'[s] \in Priced
             PROVE  /\ table' # NoTable
                    /\ snap'[s].seen <= Len(history')
                    /\ snap'[s].seen = Len(history') => snap'[s].fees = table'
  BY DEF TableOK
<1>1. pc[s] \in Priced /\ snap'[s] = snap[s]
  BY DEF Kept
<1>2. snap[s].seen \in Nat /\ Len(history) \in Nat /\ Len(history') \in Nat
  BY DEF TypeOK
<1> QED  BY <1>1, <1>2 DEF TableOK, Grow

LEMMA KeptRoster ==
  ASSUME TypeOK, TypeOK', Grow, NEW s \in Sheets, Kept(s), RosterOK(s)
  PROVE  RosterOK(s)'
<1> SUFFICES ASSUME pc'[s] \in Rostered, NEW c \in Caddies
             PROVE  /\ snap'[s].version[c] <= version'[c]
                    /\ snap'[s].version[c] = version'[c]
                         => snap'[s].roster[c] = profile'[c]
  BY DEF RosterOK
<1>1. pc[s] \in Rostered /\ snap'[s] = snap[s]
  BY DEF Kept, Priced
<1>2. snap[s].version[c] \in Nat /\ version[c] \in Nat /\ version'[c] \in Nat
  BY DEF TypeOK
<1>3. /\ version[c] <= version'[c]
      /\ version'[c] = version[c] => profile'[c] = profile[c]
  BY DEF Grow
<1> QED  BY <1>1, <1>2, <1>3 DEF RosterOK

LEMMA KeptRow ==
  ASSUME TypeOK, TypeOK', Grow, NEW s \in Sheets, Kept(s), RowOK(s)
  PROVE  RowOK(s)'
<1> SUFFICES ASSUME pc'[s] \in Moving PROVE RowOK(s)'
  BY DEF RowOK
<1>1. /\ pc[s] \in Moving /\ snap'[s] = snap[s] /\ at'[s] = at[s]
      /\ pc'[s] \in {"landed", "told"} => pc[s] \in {"landed", "told"}
  BY DEF Kept, Priced, Rostered
<1>2. at[s] \in 1..Len(log) /\ at'[s] \in 1..Len(log')
  <2>1. log \in Seq(Move) /\ log' \in Seq(Move)
    BY DEF TypeOK
  <2>2. Len(log) \in Nat /\ Len(log') \in Nat
    BY <2>1
  <2> QED  BY <1>1, <2>2 DEF RowOK, Grow
<1>3. /\ log'[at[s]].caddie = log[at[s]].caddie
      /\ log'[at[s]].previous = log[at[s]].previous
      /\ log'[at[s]].rankFee = log[at[s]].rankFee
      /\ log[at[s]].landed => log'[at[s]].landed
  BY <1>2 DEF Grow
<1> QED  BY <1>1, <1>2, <1>3 DEF RowOK

LEMMA KeptCall ==
  ASSUME TypeOK, TypeOK', Grow, NEW call \in Patch, CallOK(call)
  PROVE  CallOK(call)'
<1> DEFINE c == call.caddie
<1>1. c \in Caddies /\ call.version \in Nat /\ call.seen \in Nat
  BY DEF Patch
<1>2. version[c] \in Nat /\ version'[c] \in Nat /\ Len(history) \in Nat
      /\ Len(history') \in Nat /\ Len(log) \in Nat /\ Len(log') \in Nat
  <2>1. log \in Seq(Move) /\ log' \in Seq(Move)
    BY DEF TypeOK
  <2>2. Len(history) \in Nat /\ Len(history') \in Nat
    BY DEF TypeOK
  <2>3. version[c] \in Nat /\ version'[c] \in Nat
    BY <1>1 DEF TypeOK
  <2> QED  BY <2>1, <2>2, <2>3
<1>3. /\ version[c] <= version'[c]
      /\ version'[c] = version[c] => profile'[c] = profile[c]
  BY <1>1 DEF Grow
<1>4. call.row \in 1..Len(log) /\ call.row \in 1..Len(log')
  BY <1>2 DEF CallOK, Grow
<1>5. /\ log'[call.row].caddie = log[call.row].caddie
      /\ log'[call.row].previous = log[call.row].previous
      /\ log'[call.row].rankFee = log[call.row].rankFee
  BY <1>4 DEF Grow
<1>6. /\ table' # NoTable
      /\ Len(history) <= Len(history')
      /\ Len(history') = Len(history) => table' = table
  BY DEF Grow, CallOK
<1>7. call.seen <= Len(history') /\ call.version <= version'[c]
  <2>1. call.seen <= Len(history) /\ call.version <= version[c]
    BY DEF CallOK
  <2> QED  BY <1>1, <1>2, <1>3, <1>6, <2>1
<1>8. ASSUME call.version = version'[c]
      PROVE  /\ log'[call.row].previous = profile'[c].fee
             /\ call.seen = Len(history') =>
                  log'[call.row].rankFee = table'[profile'[c].rank]
  <2>1. version'[c] = version[c] /\ profile'[c] = profile[c]
    BY <1>1, <1>2, <1>3, <1>8 DEF CallOK
  <2>2. log'[call.row].previous = profile'[c].fee
    BY <1>5, <1>8, <2>1 DEF CallOK
  <2>3. ASSUME call.seen = Len(history')
        PROVE  log'[call.row].rankFee = table'[profile'[c].rank]
    <3>1. Len(history') = Len(history) /\ table' = table
      BY <1>1, <1>2, <1>6, <2>3 DEF CallOK
    <3> QED  BY <1>5, <1>8, <2>1, <2>3, <3>1 DEF CallOK
  <2> QED  BY <2>2, <2>3
<1>9. log'[call.row].caddie = c
  BY <1>5 DEF CallOK
<1> QED  BY <1>4, <1>6, <1>7, <1>8, <1>9 DEF CallOK

LEMMA KeptSave ==
  ASSUME TypeOK, TypeOK', Grow, NEW d \in Savers, SaveOK(d), save'[d] = save[d]
  PROVE  SaveOK(d)'
<1>1. save[d].seen \in Nat /\ Len(history) \in Nat /\ Len(history') \in Nat
  BY DEF TypeOK
<1> QED  BY <1>1 DEF SaveOK, Grow

-----------------------------------------------------------------------------
(* The invariant is inductive *)

LEMMA InvInit == Init => FeeInv
<1> SUFFICES ASSUME Init PROVE FeeInv
  OBVIOUS
<1>1. HistoryChains
  BY DEF Init, HistoryChains
<1>2. \A s \in Sheets : TableOK(s) /\ RosterOK(s) /\ RowOK(s)
  BY DEF Init, TableOK, RosterOK, RowOK, Priced, Rostered, Moving
<1>3. \A d \in Savers : SaveOK(d)
  BY DEF Init, SaveOK, NoSave
<1>4. late = {} /\ Len(log) = 0
  BY DEF Init
<1> QED  BY <1>1, <1>2, <1>3, <1>4 DEF FeeInv

\* Only a save that writes touches the table, and it brings its entry along.
LEMMA ChainStep ==
  ASSUME TypeOK, FeeInv, [Next]_vars
  PROVE  HistoryChains'
<1>0. HistoryChains /\ \A d \in Savers : SaveOK(d)
  BY DEF FeeInv
<1>1. ASSUME NEW s \in Sheets, Preview(s) PROVE HistoryChains'
  BY <1>0, <1>1 DEF HistoryChains, Preview, prices
<1>2. ASSUME NEW s \in Sheets, NEW chosen \in SUBSET Caddies, Align(s, chosen)
      PROVE  HistoryChains'
  BY <1>0, <1>2 DEF HistoryChains, Align, prices
<1>3. ASSUME NEW s \in Sheets, ReadTable(s) PROVE HistoryChains'
  BY <1>0, <1>3 DEF HistoryChains, ReadTable, prices
<1>4. ASSUME NEW s \in Sheets, ReadRoster(s) PROVE HistoryChains'
  BY <1>0, <1>4 DEF HistoryChains, ReadRoster, prices
<1>5. ASSUME NEW s \in Sheets, Finish(s) PROVE HistoryChains'
  BY <1>0, <1>5 DEF HistoryChains, Finish, prices
<1>6. ASSUME NEW s \in Sheets, NEW c \in Caddies, Leave(s, c)
      PROVE  HistoryChains'
  BY <1>0, <1>6 DEF HistoryChains, Leave, prices
<1>7. ASSUME NEW s \in Sheets, NEW c \in Caddies, LogMove(s, c)
      PROVE  HistoryChains'
  BY <1>0, <1>7 DEF HistoryChains, LogMove, prices
<1>8. ASSUME NEW s \in Sheets, PatchLands(s) PROVE HistoryChains'
  BY <1>0, <1>8 DEF HistoryChains, PatchLands, prices
<1>9. ASSUME NEW s \in Sheets, PatchTimesOut(s) PROVE HistoryChains'
  BY <1>0, <1>9 DEF HistoryChains, PatchTimesOut, prices
<1>10. ASSUME NEW s \in Sheets, PatchRefused(s) PROVE HistoryChains'
  BY <1>0, <1>10 DEF HistoryChains, PatchRefused, prices
<1>11. ASSUME NEW s \in Sheets, StaffRead(s) PROVE HistoryChains'
  BY <1>0, <1>11 DEF HistoryChains, StaffRead, prices
<1>12. ASSUME NEW s \in Sheets, AnswerLost(s) PROVE HistoryChains'
  BY <1>0, <1>12 DEF HistoryChains, AnswerLost, prices
<1>13. ASSUME NEW s \in Sheets, Expelled(s) PROVE HistoryChains'
  BY <1>0, <1>13 DEF HistoryChains, Expelled, prices
<1>14. ASSUME NEW s \in Sheets, Confirm(s) PROVE HistoryChains'
  BY <1>0, <1>14 DEF HistoryChains, Confirm, prices
<1>15. ASSUME NEW s \in Sheets, ConfirmFails(s) PROVE HistoryChains'
  BY <1>0, <1>15 DEF HistoryChains, ConfirmFails, prices
<1>16. ASSUME NEW s \in Sheets, Discard(s) PROVE HistoryChains'
  BY <1>0, <1>16 DEF HistoryChains, Discard, prices
<1>17. ASSUME NEW s \in Sheets, DiscardAndStop(s) PROVE HistoryChains'
  BY <1>0, <1>17 DEF HistoryChains, DiscardAndStop, prices
<1>18. ASSUME NEW s \in Sheets, Abort(s) PROVE HistoryChains'
  BY <1>0, <1>18 DEF HistoryChains, Abort, prices
<1>19. ASSUME NEW d \in Savers, NEW fees \in Offered, SaveReads(d, fees)
      PROVE  HistoryChains'
  BY <1>0, <1>19 DEF HistoryChains, SaveReads
<1>20. ASSUME NEW d \in Savers, SaveWrites(d) PROVE HistoryChains'
  <2> DEFINE n == Len(history)
             entry == [previous |-> save[d].previous, fees |-> save[d].fees,
                       alone |-> save[d].seen = n]
  <2>1. history' = Append(history, entry) /\ table' = save[d].fees
    BY <1>20 DEF SaveWrites
  <2>2. n \in Nat /\ (n = 0 <=> history = << >>) /\ DOMAIN history = 1..n
    BY DEF TypeOK
  <2>3. /\ Len(history') = n + 1 /\ DOMAIN history' = 1..(n + 1)
        /\ history'[n + 1] = entry /\ \A i \in 1..n : history'[i] = history[i]
    <3> HIDE DEF entry
    <3> QED  BY <2>1 DEF TypeOK
  <2>4. entry.alone => entry.previous = IF n = 0 THEN Config ELSE history[n].fees
    <3> SUFFICES ASSUME save[d].seen = n
                 PROVE  save[d].previous = IF n = 0 THEN Config ELSE history[n].fees
      OBVIOUS
    <3>1. save[d].previous = IF table = NoTable THEN Config ELSE table
      BY <1>0, <1>20 DEF SaveOK, SaveWrites
    <3>2. n # 0 => history[n].fees \in Tables
      <4> SUFFICES ASSUME n # 0 PROVE history[n].fees \in Tables
        OBVIOUS
      <4>1. n \in 1..Len(history)
        BY <2>2
      <4>2. history[n] \in [previous : Tables, fees : Tables, alone : BOOLEAN]
        <5> HIDE DEF n
        <5> QED  BY <4>1, ElementOfSeq DEF TypeOK
      <4> QED  BY <4>2
    <3> QED  BY <1>0, <2>2, <3>1, <3>2 DEF HistoryChains
  <2>5. \A i \in DOMAIN history' : history'[i].alone =>
          history'[i].previous = IF i = 1 THEN Config ELSE history'[i - 1].fees
    <3> SUFFICES ASSUME NEW i \in 1..(n + 1), history'[i].alone
                 PROVE  history'[i].previous =
                          IF i = 1 THEN Config ELSE history'[i - 1].fees
      BY <2>3
    <3>1. CASE i = n + 1
      <4> HIDE DEF entry
      <4> QED  BY <2>2, <2>3, <2>4, <3>1
    <3>2. CASE i \in 1..n
      BY <1>0, <2>2, <2>3, <3>2 DEF HistoryChains
    <3> QED  BY <2>2, <3>1, <3>2
  <2>6. table' = IF history' = << >> THEN NoTable ELSE history'[Len(history')].fees
    BY <2>1, <2>2, <2>3
  <2> QED  BY <2>5, <2>6 DEF HistoryChains
<1>21. ASSUME NEW d \in Savers, SaveFails(d) PROVE HistoryChains'
  BY <1>0, <1>21 DEF HistoryChains, SaveFails
<1>22. ASSUME NEW c \in Caddies, NEW k \in Ranks, NEW f \in Fees, EditCaddie(c, k, f)
      PROVE  HistoryChains'
  BY <1>0, <1>22 DEF HistoryChains, EditCaddie, prices
<1>23. ASSUME NEW c \in Caddies, RemoveCaddie(c) PROVE HistoryChains'
  BY <1>0, <1>23 DEF HistoryChains, RemoveCaddie, prices
<1>24. ASSUME NEW call \in late, LateLanding(call) PROVE HistoryChains'
  BY <1>0, <1>24 DEF HistoryChains, LateLanding, prices
<1>25. ASSUME NEW call \in late, LateLost(call) PROVE HistoryChains'
  BY <1>0, <1>25 DEF HistoryChains, LateLost, prices
<1>26. ASSUME UNCHANGED vars PROVE HistoryChains'
  BY <1>0, <1>26 DEF HistoryChains, vars
<1> QED
  BY <1>1, <1>2, <1>3, <1>4, <1>5, <1>6, <1>7, <1>8, <1>9, <1>10, <1>11, <1>12, <1>13,
     <1>14, <1>15, <1>16, <1>17, <1>18, <1>19, <1>20, <1>21, <1>22, <1>23, <1>24, <1>25, <1>26
     DEF Next, Step

LEMMA SaveStep ==
  ASSUME TypeOK, FeeInv, TypeOK', [Next]_vars
  PROVE  \A x \in Savers : SaveOK(x)'
<1>0. Grow /\ \A x \in Savers : SaveOK(x)
  BY Grows DEF FeeInv
<1>a. ASSUME UNCHANGED save PROVE \A x \in Savers : SaveOK(x)'
  BY <1>0, <1>a, KeptSave
<1>1. ASSUME NEW s \in Sheets, Preview(s) PROVE \A x \in Savers : SaveOK(x)'
  BY <1>a, <1>1 DEF Preview, prices
<1>2. ASSUME NEW s \in Sheets, NEW chosen \in SUBSET Caddies, Align(s, chosen)
      PROVE  \A x \in Savers : SaveOK(x)'
  BY <1>a, <1>2 DEF Align, prices
<1>3. ASSUME NEW s \in Sheets, ReadTable(s) PROVE \A x \in Savers : SaveOK(x)'
  BY <1>a, <1>3 DEF ReadTable, prices
<1>4. ASSUME NEW s \in Sheets, ReadRoster(s) PROVE \A x \in Savers : SaveOK(x)'
  BY <1>a, <1>4 DEF ReadRoster, prices
<1>5. ASSUME NEW s \in Sheets, Finish(s) PROVE \A x \in Savers : SaveOK(x)'
  BY <1>a, <1>5 DEF Finish, prices
<1>6. ASSUME NEW s \in Sheets, NEW c \in Caddies, Leave(s, c)
      PROVE  \A x \in Savers : SaveOK(x)'
  BY <1>a, <1>6 DEF Leave, prices
<1>7. ASSUME NEW s \in Sheets, NEW c \in Caddies, LogMove(s, c)
      PROVE  \A x \in Savers : SaveOK(x)'
  BY <1>a, <1>7 DEF LogMove, prices
<1>8. ASSUME NEW s \in Sheets, PatchLands(s) PROVE \A x \in Savers : SaveOK(x)'
  BY <1>a, <1>8 DEF PatchLands, prices
<1>9. ASSUME NEW s \in Sheets, PatchTimesOut(s)
      PROVE  \A x \in Savers : SaveOK(x)'
  BY <1>a, <1>9 DEF PatchTimesOut, prices
<1>10. ASSUME NEW s \in Sheets, PatchRefused(s)
      PROVE  \A x \in Savers : SaveOK(x)'
  BY <1>a, <1>10 DEF PatchRefused, prices
<1>11. ASSUME NEW s \in Sheets, StaffRead(s) PROVE \A x \in Savers : SaveOK(x)'
  BY <1>a, <1>11 DEF StaffRead, prices
<1>12. ASSUME NEW s \in Sheets, AnswerLost(s) PROVE \A x \in Savers : SaveOK(x)'
  BY <1>a, <1>12 DEF AnswerLost, prices
<1>13. ASSUME NEW s \in Sheets, Expelled(s) PROVE \A x \in Savers : SaveOK(x)'
  BY <1>a, <1>13 DEF Expelled, prices
<1>14. ASSUME NEW s \in Sheets, Confirm(s) PROVE \A x \in Savers : SaveOK(x)'
  BY <1>a, <1>14 DEF Confirm, prices
<1>15. ASSUME NEW s \in Sheets, ConfirmFails(s)
      PROVE  \A x \in Savers : SaveOK(x)'
  BY <1>a, <1>15 DEF ConfirmFails, prices
<1>16. ASSUME NEW s \in Sheets, Discard(s) PROVE \A x \in Savers : SaveOK(x)'
  BY <1>a, <1>16 DEF Discard, prices
<1>17. ASSUME NEW s \in Sheets, DiscardAndStop(s)
      PROVE  \A x \in Savers : SaveOK(x)'
  BY <1>a, <1>17 DEF DiscardAndStop, prices
<1>18. ASSUME NEW s \in Sheets, Abort(s) PROVE \A x \in Savers : SaveOK(x)'
  BY <1>a, <1>18 DEF Abort, prices
<1>19. ASSUME NEW d \in Savers, NEW fees \in Offered, SaveReads(d, fees)
      PROVE  \A x \in Savers : SaveOK(x)'
  <2>1. ASSUME NEW x \in Savers PROVE SaveOK(x)'
    <3>1. CASE x = d
      <4>1. /\ save'[d].previous = Replaced(table, fees)
            /\ save'[d].seen = Len(history) /\ UNCHANGED <<table, history>>
        BY <1>19 DEF SaveReads, TypeOK
      <4> QED  BY <3>1, <4>1 DEF SaveOK, Replaced, TypeOK
    <3>2. CASE x # d
      BY <1>0, <1>19, <3>2, KeptSave DEF SaveReads, TypeOK
    <3> QED  BY <3>1, <3>2
  <2> QED  BY <2>1
<1>20. ASSUME NEW d \in Savers, SaveWrites(d) PROVE \A x \in Savers : SaveOK(x)'
  <2>1. ASSUME NEW x \in Savers PROVE SaveOK(x)'
    <3>1. CASE x = d
      BY <1>20, <3>1 DEF SaveWrites, SaveOK, NoSave, TypeOK
    <3>2. CASE x # d
      BY <1>0, <1>20, <3>2, KeptSave DEF SaveWrites, TypeOK
    <3> QED  BY <3>1, <3>2
  <2> QED  BY <2>1
<1>21. ASSUME NEW d \in Savers, SaveFails(d) PROVE \A x \in Savers : SaveOK(x)'
  <2>1. ASSUME NEW x \in Savers PROVE SaveOK(x)'
    <3>1. CASE x = d
      BY <1>21, <3>1 DEF SaveFails, SaveOK, NoSave, TypeOK
    <3>2. CASE x # d
      BY <1>0, <1>21, <3>2, KeptSave DEF SaveFails, TypeOK
    <3> QED  BY <3>1, <3>2
  <2> QED  BY <2>1
<1>22. ASSUME NEW c \in Caddies, NEW k \in Ranks, NEW f \in Fees, EditCaddie(c, k, f)
      PROVE  \A x \in Savers : SaveOK(x)'
  BY <1>a, <1>22 DEF EditCaddie, prices
<1>23. ASSUME NEW c \in Caddies, RemoveCaddie(c)
      PROVE  \A x \in Savers : SaveOK(x)'
  BY <1>a, <1>23 DEF RemoveCaddie, prices
<1>24. ASSUME NEW call \in late, LateLanding(call)
      PROVE  \A x \in Savers : SaveOK(x)'
  BY <1>a, <1>24 DEF LateLanding, prices
<1>25. ASSUME NEW call \in late, LateLost(call)
      PROVE  \A x \in Savers : SaveOK(x)'
  BY <1>a, <1>25 DEF LateLost, prices
<1>26. ASSUME UNCHANGED vars PROVE \A x \in Savers : SaveOK(x)'
  BY <1>a, <1>26 DEF vars
<1> QED
  BY <1>1, <1>2, <1>3, <1>4, <1>5, <1>6, <1>7, <1>8, <1>9, <1>10, <1>11, <1>12, <1>13,
     <1>14, <1>15, <1>16, <1>17, <1>18, <1>19, <1>20, <1>21, <1>22, <1>23, <1>24, <1>25, <1>26
     DEF Next, Step

RequestOK(s) == TableOK(s) /\ RosterOK(s) /\ RowOK(s)

LEMMA KeptRequest ==
  ASSUME TypeOK, TypeOK', Grow, NEW s \in Sheets, Kept(s), RequestOK(s)
  PROVE  RequestOK(s)'
  BY KeptTable, KeptRoster, KeptRow DEF RequestOK

LEMMA RequestStep ==
  ASSUME TypeOK, FeeInv, TypeOK', [Next]_vars
  PROVE  \A t \in Sheets : RequestOK(t)'
<1>0. Grow /\ \A t \in Sheets : RequestOK(t)
  BY Grows DEF FeeInv, RequestOK
<1>a. ASSUME \A t \in Sheets : Kept(t) PROVE \A t \in Sheets : RequestOK(t)'
  BY <1>0, <1>a, KeptRequest
<1>b. Len(history) \in Nat /\ Len(log) \in Nat
  BY DEF TypeOK
<1>1. ASSUME NEW s \in Sheets, Preview(s) PROVE \A t \in Sheets : RequestOK(t)'
  <2>1. ASSUME NEW t \in Sheets PROVE Kept(t)
    BY <1>1 DEF Kept, Priced, Rostered, Moving, Nowhere, TypeOK, Preview, request
  <2> QED  BY <1>a, <2>1
<1>2. ASSUME NEW s \in Sheets, NEW chosen \in SUBSET Caddies, Align(s, chosen)
      PROVE  \A t \in Sheets : RequestOK(t)'
  <2>1. ASSUME NEW t \in Sheets PROVE Kept(t)
    BY <1>2 DEF Kept, Priced, Rostered, Moving, Nowhere, TypeOK, Align, request
  <2> QED  BY <1>a, <2>1
<1>3. ASSUME NEW s \in Sheets, ReadTable(s)
      PROVE  \A t \in Sheets : RequestOK(t)'
  <2>1. ASSUME NEW t \in Sheets, t # s PROVE Kept(t)
    BY <1>3, <2>1 DEF Kept, ReadTable, TypeOK
  <2>2. RequestOK(s)'
    <3>1. /\ pc'[s] = "priced" /\ table # NoTable
          /\ UNCHANGED <<table, history>>
      BY <1>3 DEF ReadTable, prices, TypeOK
    <3>2. snap'[s].fees = table /\ snap'[s].seen = Len(history)
      BY <1>3 DEF ReadTable, TypeOK
    <3> QED  BY <1>b, <3>1, <3>2 DEF RequestOK, TableOK, RosterOK, RowOK, Rostered, Moving
  <2> QED  BY <1>0, <2>1, <2>2, KeptRequest
<1>4. ASSUME NEW s \in Sheets, ReadRoster(s)
      PROVE  \A t \in Sheets : RequestOK(t)'
  <2>1. ASSUME NEW t \in Sheets, t # s PROVE Kept(t)
    BY <1>4, <2>1 DEF Kept, ReadRoster, TypeOK
  <2>2. RequestOK(s)'
    <3>1. /\ pc[s] = "priced" /\ pc'[s] = "planning"
          /\ UNCHANGED <<table, history, profile, version>>
      BY <1>4 DEF ReadRoster, prices, field, TypeOK
    <3>2. /\ snap'[s].fees = snap[s].fees /\ snap'[s].seen = snap[s].seen
          /\ snap'[s].roster = profile /\ snap'[s].version = version
      BY <1>4 DEF ReadRoster, TypeOK
    <3>3. TableOK(s)'
      BY <1>0, <3>1, <3>2 DEF RequestOK, TableOK, Priced
    <3>4. \A c \in Caddies : version[c] \in Nat
      BY DEF TypeOK
    <3>5. RosterOK(s)'
      BY <3>1, <3>2, <3>4 DEF RosterOK
    <3>6. RowOK(s)'
      BY <3>1 DEF RowOK, Moving
    <3> QED  BY <3>3, <3>5, <3>6 DEF RequestOK
  <2> QED  BY <1>0, <2>1, <2>2, KeptRequest
<1>5. ASSUME NEW s \in Sheets, Finish(s) PROVE \A t \in Sheets : RequestOK(t)'
  <2>1. ASSUME NEW t \in Sheets PROVE Kept(t)
    BY <1>5 DEF Kept, Priced, Rostered, Moving, Nowhere, TypeOK, Finish, Close, request
  <2> QED  BY <1>a, <2>1
<1>6. ASSUME NEW s \in Sheets, NEW c \in Caddies, Leave(s, c)
      PROVE  \A t \in Sheets : RequestOK(t)'
  <2>1. ASSUME NEW t \in Sheets PROVE Kept(t)
    BY <1>6 DEF Kept, Priced, Rostered, Moving, Nowhere, TypeOK, Leave, request
  <2> QED  BY <1>a, <2>1
<1>7. ASSUME NEW s \in Sheets, NEW c \in Caddies, LogMove(s, c)
      PROVE  \A t \in Sheets : RequestOK(t)'
  <2>1. ASSUME NEW t \in Sheets, t # s PROVE Kept(t)
    BY <1>7, <2>1 DEF Kept, LogMove, TypeOK
  <2>2. RequestOK(s)'
    <3>1. /\ pc[s] = "planning" /\ pc'[s] = "logged" /\ snap'[s] = snap[s]
          /\ at'[s] = Len(log) + 1
      BY <1>7 DEF LogMove, TypeOK
    <3>2. TableOK(s)'
      BY <1>0, <1>7, <3>1 DEF RequestOK, TableOK, Priced, Rostered, LogMove, prices
    <3>3. RosterOK(s)'
      BY <1>0, <1>7, <3>1 DEF RequestOK, RosterOK, Rostered, LogMove, field
    <3>4. /\ Len(log') = Len(log) + 1
          /\ log'[Len(log) + 1].caddie = c
          /\ log'[Len(log) + 1].previous = snap[s].roster[c].fee
          /\ log'[Len(log) + 1].rankFee = snap[s].fees[snap[s].roster[c].rank]
      BY <1>7 DEF LogMove, TypeOK
    <3>5. RowOK(s)'
      BY <1>b, <3>1, <3>4 DEF RowOK
    <3> QED  BY <3>2, <3>3, <3>5 DEF RequestOK
  <2> QED  BY <1>0, <2>1, <2>2, KeptRequest
<1>8. ASSUME NEW s \in Sheets, PatchLands(s)
      PROVE  \A t \in Sheets : RequestOK(t)'
  <2>1. ASSUME NEW t \in Sheets, t # s PROVE Kept(t)
    BY <1>8, <2>1 DEF Kept, PatchLands, TypeOK
  <2>2. RequestOK(s)'
    <3>1. /\ pc[s] = "logged" /\ pc'[s] = "landed"
          /\ UNCHANGED <<snap, at, table, history>>
      BY <1>8 DEF PatchLands, prices, TypeOK
    <3>2. /\ Call(s) \in Patch /\ CallOK(Call(s)) /\ Lands(Call(s))
          /\ Call(s).row = at[s]
      BY <1>0, <1>8, CallIsOK DEF PatchLands, Moving, RequestOK, Call
    <3>3. PICK call \in Patch : CallOK(call) /\ Lands(call) /\ call.row = at[s]
      BY <3>2
    <3>4. log'[at[s]].landed
      BY <3>3, LandsEffect
    <3>5. TableOK(s)'
      BY <1>0, <3>1 DEF RequestOK, TableOK, Priced, Rostered, Moving
    <3>6. RosterOK(s)'
      <4> SUFFICES ASSUME NEW c \in Caddies
                   PROVE  /\ snap[s].version[c] <= version'[c]
                          /\ snap[s].version[c] = version'[c]
                               => snap[s].roster[c] = profile'[c]
        BY <3>1 DEF RosterOK
      <4>1. /\ snap[s].version[c] <= version[c]
            /\ snap[s].version[c] = version[c] => snap[s].roster[c] = profile[c]
        BY <1>0, <3>1 DEF RequestOK, RosterOK, Rostered, Moving
      <4>2. snap[s].version[c] \in Nat /\ version[c] \in Nat /\ version'[c] \in Nat
        BY DEF TypeOK
      <4>3. /\ version[c] <= version'[c]
            /\ version'[c] = version[c] => profile'[c] = profile[c]
        BY <1>0 DEF Grow
      <4> QED  BY <4>1, <4>2, <4>3
    <3>7. /\ at[s] \in 1..Len(log) /\ Len(log') = Len(log)
          /\ log'[at[s]].caddie = log[at[s]].caddie
          /\ log'[at[s]].previous = log[at[s]].previous
          /\ log'[at[s]].rankFee = log[at[s]].rankFee
      BY <1>0, <3>1, <3>3, LandsEffect DEF RequestOK, RowOK, Moving
    <3>8. RowOK(s)'
      BY <1>0, <3>1, <3>4, <3>7 DEF RequestOK, RowOK, Moving
    <3> QED  BY <3>5, <3>6, <3>8 DEF RequestOK
  <2> QED  BY <1>0, <2>1, <2>2, KeptRequest
<1>9. ASSUME NEW s \in Sheets, PatchTimesOut(s)
      PROVE  \A t \in Sheets : RequestOK(t)'
  <2>1. ASSUME NEW t \in Sheets PROVE Kept(t)
    BY <1>9 DEF Kept, Priced, Rostered, Moving, Nowhere, TypeOK, PatchTimesOut, request
  <2> QED  BY <1>a, <2>1
<1>10. ASSUME NEW s \in Sheets, PatchRefused(s)
      PROVE  \A t \in Sheets : RequestOK(t)'
  <2>1. ASSUME NEW t \in Sheets PROVE Kept(t)
    BY <1>10 DEF Kept, Priced, Rostered, Moving, Nowhere, TypeOK, PatchRefused, request
  <2> QED  BY <1>a, <2>1
<1>11. ASSUME NEW s \in Sheets, StaffRead(s)
      PROVE  \A t \in Sheets : RequestOK(t)'
  <2>1. ASSUME NEW t \in Sheets PROVE Kept(t)
    BY <1>11 DEF Kept, Priced, Rostered, Moving, Nowhere, TypeOK, StaffRead, request
  <2> QED  BY <1>a, <2>1
<1>12. ASSUME NEW s \in Sheets, AnswerLost(s)
      PROVE  \A t \in Sheets : RequestOK(t)'
  <2>1. ASSUME NEW t \in Sheets PROVE Kept(t)
    BY <1>12 DEF Kept, Priced, Rostered, Moving, Nowhere, TypeOK, AnswerLost, request
  <2> QED  BY <1>a, <2>1
<1>13. ASSUME NEW s \in Sheets, Expelled(s)
      PROVE  \A t \in Sheets : RequestOK(t)'
  <2>1. ASSUME NEW t \in Sheets PROVE Kept(t)
    BY <1>13 DEF Kept, Priced, Rostered, Moving, Nowhere, TypeOK, Expelled, request
  <2> QED  BY <1>a, <2>1
<1>14. ASSUME NEW s \in Sheets, Confirm(s) PROVE \A t \in Sheets : RequestOK(t)'
  <2>1. ASSUME NEW t \in Sheets PROVE Kept(t)
    BY <1>14 DEF Kept, Priced, Rostered, Moving, Nowhere, TypeOK, Confirm, Answer, request
  <2> QED  BY <1>a, <2>1
<1>15. ASSUME NEW s \in Sheets, ConfirmFails(s)
      PROVE  \A t \in Sheets : RequestOK(t)'
  <2>1. ASSUME NEW t \in Sheets PROVE Kept(t)
    BY <1>15 DEF Kept, Priced, Rostered, Moving, Nowhere, TypeOK, ConfirmFails, End, Close, request
  <2> QED  BY <1>a, <2>1
<1>16. ASSUME NEW s \in Sheets, Discard(s) PROVE \A t \in Sheets : RequestOK(t)'
  <2>1. ASSUME NEW t \in Sheets PROVE Kept(t)
    BY <1>16 DEF Kept, Priced, Rostered, Moving, Nowhere, TypeOK, Discard, Discards, Answer, request
  <2> QED  BY <1>a, <2>1
<1>17. ASSUME NEW s \in Sheets, DiscardAndStop(s)
      PROVE  \A t \in Sheets : RequestOK(t)'
  <2>1. ASSUME NEW t \in Sheets PROVE Kept(t)
    BY <1>17 DEF Kept, Priced, Rostered, Moving, Nowhere, TypeOK, DiscardAndStop, Discards, End, Close, request
  <2> QED  BY <1>a, <2>1
<1>18. ASSUME NEW s \in Sheets, Abort(s) PROVE \A t \in Sheets : RequestOK(t)'
  <2>1. ASSUME NEW t \in Sheets PROVE Kept(t)
    BY <1>18 DEF Kept, Priced, Rostered, Moving, Nowhere, TypeOK, Abort, End, Close, request
  <2> QED  BY <1>a, <2>1
<1>19. ASSUME NEW d \in Savers, NEW fees \in Offered, SaveReads(d, fees)
      PROVE  \A t \in Sheets : RequestOK(t)'
  <2>1. ASSUME NEW t \in Sheets PROVE Kept(t)
    BY <1>19 DEF Kept, Priced, Rostered, Moving, Nowhere, TypeOK, SaveReads, Replaced, request
  <2> QED  BY <1>a, <2>1
<1>20. ASSUME NEW d \in Savers, SaveWrites(d)
      PROVE  \A t \in Sheets : RequestOK(t)'
  <2>1. ASSUME NEW t \in Sheets PROVE Kept(t)
    BY <1>20 DEF Kept, Priced, Rostered, Moving, Nowhere, TypeOK, SaveWrites, NoSave, request
  <2> QED  BY <1>a, <2>1
<1>21. ASSUME NEW d \in Savers, SaveFails(d)
      PROVE  \A t \in Sheets : RequestOK(t)'
  <2>1. ASSUME NEW t \in Sheets PROVE Kept(t)
    BY <1>21 DEF Kept, Priced, Rostered, Moving, Nowhere, TypeOK, SaveFails, NoSave, request
  <2> QED  BY <1>a, <2>1
<1>22. ASSUME NEW c \in Caddies, NEW k \in Ranks, NEW f \in Fees, EditCaddie(c, k, f)
      PROVE  \A t \in Sheets : RequestOK(t)'
  <2>1. ASSUME NEW t \in Sheets PROVE Kept(t)
    BY <1>22 DEF Kept, Priced, Rostered, Moving, Nowhere, TypeOK, EditCaddie, request
  <2> QED  BY <1>a, <2>1
<1>23. ASSUME NEW c \in Caddies, RemoveCaddie(c)
      PROVE  \A t \in Sheets : RequestOK(t)'
  <2>1. ASSUME NEW t \in Sheets PROVE Kept(t)
    BY <1>23 DEF Kept, Priced, Rostered, Moving, Nowhere, TypeOK, RemoveCaddie, request
  <2> QED  BY <1>a, <2>1
<1>24. ASSUME NEW call \in late, LateLanding(call)
      PROVE  \A t \in Sheets : RequestOK(t)'
  <2>1. ASSUME NEW t \in Sheets PROVE Kept(t)
    BY <1>24 DEF Kept, Priced, Rostered, Moving, Nowhere, TypeOK, LateLanding, request
  <2> QED  BY <1>a, <2>1
<1>25. ASSUME NEW call \in late, LateLost(call)
      PROVE  \A t \in Sheets : RequestOK(t)'
  <2>1. ASSUME NEW t \in Sheets PROVE Kept(t)
    BY <1>25 DEF Kept, Priced, Rostered, Moving, Nowhere, TypeOK, LateLost, request
  <2> QED  BY <1>a, <2>1
<1>26. ASSUME UNCHANGED vars PROVE \A t \in Sheets : RequestOK(t)'
  <2>1. ASSUME NEW t \in Sheets PROVE Kept(t)
    BY <1>26 DEF Kept, Priced, Rostered, Moving, Nowhere, TypeOK, vars
  <2> QED  BY <1>a, <2>1
<1> QED
  BY <1>1, <1>2, <1>3, <1>4, <1>5, <1>6, <1>7, <1>8, <1>9, <1>10, <1>11, <1>12, <1>13,
     <1>14, <1>15, <1>16, <1>17, <1>18, <1>19, <1>20, <1>21, <1>22, <1>23, <1>24, <1>25, <1>26
     DEF Next, Step

LEMMA LateStep ==
  ASSUME TypeOK, FeeInv, TypeOK', [Next]_vars
  PROVE  \A x \in late' : CallOK(x)'
<1>0. Grow /\ \A x \in late : x \in Patch /\ CallOK(x)
  BY Grows DEF FeeInv, TypeOK
<1>a. ASSUME late' \subseteq late PROVE \A x \in late' : CallOK(x)'
  BY <1>0, <1>a, KeptCall
<1>1. ASSUME NEW s \in Sheets, Preview(s) PROVE \A x \in late' : CallOK(x)'
  BY <1>a, <1>1 DEF Preview
<1>2. ASSUME NEW s \in Sheets, NEW chosen \in SUBSET Caddies, Align(s, chosen)
      PROVE  \A x \in late' : CallOK(x)'
  BY <1>a, <1>2 DEF Align
<1>3. ASSUME NEW s \in Sheets, ReadTable(s) PROVE \A x \in late' : CallOK(x)'
  BY <1>a, <1>3 DEF ReadTable
<1>4. ASSUME NEW s \in Sheets, ReadRoster(s) PROVE \A x \in late' : CallOK(x)'
  BY <1>a, <1>4 DEF ReadRoster
<1>5. ASSUME NEW s \in Sheets, Finish(s) PROVE \A x \in late' : CallOK(x)'
  BY <1>a, <1>5 DEF Finish
<1>6. ASSUME NEW s \in Sheets, NEW c \in Caddies, Leave(s, c)
      PROVE  \A x \in late' : CallOK(x)'
  BY <1>a, <1>6 DEF Leave
<1>7. ASSUME NEW s \in Sheets, NEW c \in Caddies, LogMove(s, c)
      PROVE  \A x \in late' : CallOK(x)'
  BY <1>a, <1>7 DEF LogMove
<1>8. ASSUME NEW s \in Sheets, PatchLands(s) PROVE \A x \in late' : CallOK(x)'
  BY <1>a, <1>8 DEF PatchLands
<1>9. ASSUME NEW s \in Sheets, PatchTimesOut(s)
      PROVE  \A x \in late' : CallOK(x)'
  <2>1. Call(s) \in Patch /\ CallOK(Call(s))
    BY <1>9, CallIsOK DEF PatchTimesOut, Moving, FeeInv
  <2>2. ASSUME NEW x \in late' PROVE CallOK(x)'
    <3>1. x \in late \/ x = Call(s)
      BY <1>9 DEF PatchTimesOut
    <3>2. x \in Patch /\ CallOK(x)
      BY <1>0, <2>1, <3>1
    <3> QED  BY <1>0, <3>2, KeptCall
  <2> QED  BY <2>2
<1>10. ASSUME NEW s \in Sheets, PatchRefused(s)
      PROVE  \A x \in late' : CallOK(x)'
  BY <1>a, <1>10 DEF PatchRefused
<1>11. ASSUME NEW s \in Sheets, StaffRead(s) PROVE \A x \in late' : CallOK(x)'
  BY <1>a, <1>11 DEF StaffRead
<1>12. ASSUME NEW s \in Sheets, AnswerLost(s) PROVE \A x \in late' : CallOK(x)'
  BY <1>a, <1>12 DEF AnswerLost
<1>13. ASSUME NEW s \in Sheets, Expelled(s) PROVE \A x \in late' : CallOK(x)'
  BY <1>a, <1>13 DEF Expelled
<1>14. ASSUME NEW s \in Sheets, Confirm(s) PROVE \A x \in late' : CallOK(x)'
  BY <1>a, <1>14 DEF Confirm
<1>15. ASSUME NEW s \in Sheets, ConfirmFails(s)
      PROVE  \A x \in late' : CallOK(x)'
  BY <1>a, <1>15 DEF ConfirmFails
<1>16. ASSUME NEW s \in Sheets, Discard(s) PROVE \A x \in late' : CallOK(x)'
  BY <1>a, <1>16 DEF Discard
<1>17. ASSUME NEW s \in Sheets, DiscardAndStop(s)
      PROVE  \A x \in late' : CallOK(x)'
  BY <1>a, <1>17 DEF DiscardAndStop
<1>18. ASSUME NEW s \in Sheets, Abort(s) PROVE \A x \in late' : CallOK(x)'
  BY <1>a, <1>18 DEF Abort
<1>19. ASSUME NEW d \in Savers, NEW fees \in Offered, SaveReads(d, fees)
      PROVE  \A x \in late' : CallOK(x)'
  BY <1>a, <1>19 DEF SaveReads
<1>20. ASSUME NEW d \in Savers, SaveWrites(d) PROVE \A x \in late' : CallOK(x)'
  BY <1>a, <1>20 DEF SaveWrites
<1>21. ASSUME NEW d \in Savers, SaveFails(d) PROVE \A x \in late' : CallOK(x)'
  BY <1>a, <1>21 DEF SaveFails
<1>22. ASSUME NEW c \in Caddies, NEW k \in Ranks, NEW f \in Fees, EditCaddie(c, k, f)
      PROVE  \A x \in late' : CallOK(x)'
  BY <1>a, <1>22 DEF EditCaddie
<1>23. ASSUME NEW c \in Caddies, RemoveCaddie(c)
      PROVE  \A x \in late' : CallOK(x)'
  BY <1>a, <1>23 DEF RemoveCaddie
<1>24. ASSUME NEW call \in late, LateLanding(call)
      PROVE  \A x \in late' : CallOK(x)'
  BY <1>a, <1>24 DEF LateLanding
<1>25. ASSUME NEW call \in late, LateLost(call)
      PROVE  \A x \in late' : CallOK(x)'
  BY <1>a, <1>25 DEF LateLost
<1>26. ASSUME UNCHANGED vars PROVE \A x \in late' : CallOK(x)'
  BY <1>a, <1>26 DEF vars
<1> QED
  BY <1>1, <1>2, <1>3, <1>4, <1>5, <1>6, <1>7, <1>8, <1>9, <1>10, <1>11, <1>12, <1>13,
     <1>14, <1>15, <1>16, <1>17, <1>18, <1>19, <1>20, <1>21, <1>22, <1>23, <1>24, <1>25, <1>26
     DEF Next, Step

LEMMA EntryStep ==
  ASSUME TypeOK, FeeInv, [Next]_vars
  PROVE  \A i \in 1..Len(log') : EntryOK(i)'
<1>0. \A i \in 1..Len(log) : EntryOK(i)
  BY DEF FeeInv
<1>a. ASSUME UNCHANGED log PROVE \A i \in 1..Len(log') : EntryOK(i)'
  BY <1>0, <1>a DEF EntryOK
<1>1. ASSUME NEW s \in Sheets, Preview(s)
      PROVE  \A i \in 1..Len(log') : EntryOK(i)'
  BY <1>a, <1>1 DEF Preview
<1>2. ASSUME NEW s \in Sheets, NEW chosen \in SUBSET Caddies, Align(s, chosen)
      PROVE  \A i \in 1..Len(log') : EntryOK(i)'
  BY <1>a, <1>2 DEF Align
<1>3. ASSUME NEW s \in Sheets, ReadTable(s)
      PROVE  \A i \in 1..Len(log') : EntryOK(i)'
  BY <1>a, <1>3 DEF ReadTable
<1>4. ASSUME NEW s \in Sheets, ReadRoster(s)
      PROVE  \A i \in 1..Len(log') : EntryOK(i)'
  BY <1>a, <1>4 DEF ReadRoster
<1>5. ASSUME NEW s \in Sheets, Finish(s)
      PROVE  \A i \in 1..Len(log') : EntryOK(i)'
  BY <1>a, <1>5 DEF Finish
<1>6. ASSUME NEW s \in Sheets, NEW c \in Caddies, Leave(s, c)
      PROVE  \A i \in 1..Len(log') : EntryOK(i)'
  BY <1>a, <1>6 DEF Leave
<1>7. ASSUME NEW s \in Sheets, NEW c \in Caddies, LogMove(s, c)
      PROVE  \A i \in 1..Len(log') : EntryOK(i)'
  <2>1. /\ Len(log') = Len(log) + 1 /\ Len(log) \in Nat
        /\ \A i \in 1..Len(log) : log'[i] = log[i]
        /\ log'[Len(log) + 1].agreed = sheet[s].own[c]
        /\ log'[Len(log) + 1].previous = snap[s].roster[c].fee
        /\ log'[Len(log) + 1].landed = FALSE
        /\ log'[Len(log) + 1].state = Pending
    BY <1>7 DEF LogMove, TypeOK
  <2>2. snap[s].roster[c].fee = sheet[s].own[c]
    BY <1>7, MoveIsAgreed DEF LogMove
  <2>3. ASSUME NEW i \in 1..Len(log') PROVE EntryOK(i)'
    <3>1. CASE i \in 1..Len(log)
      BY <1>0, <2>1, <3>1 DEF EntryOK
    <3>2. CASE i = Len(log) + 1
      BY <2>1, <2>2, <3>2 DEF EntryOK, Pending
    <3> QED  BY <2>1, <3>1, <3>2
  <2> QED  BY <2>3
<1>8. ASSUME NEW s \in Sheets, PatchLands(s)
      PROVE  \A i \in 1..Len(log') : EntryOK(i)'
  <2>1. PICK call \in Patch : CallOK(call) /\ Lands(call)
    BY <1>8, CallIsOK DEF PatchLands, Moving, FeeInv
  <2>2. ASSUME NEW i \in 1..Len(log') PROVE EntryOK(i)'
    <3>1. i \in 1..Len(log)
      BY <2>1, LandsEffect
    <3>2. CASE i # call.row
      BY <1>0, <2>1, <3>1, <3>2, LandsEffect DEF EntryOK
    <3>3. CASE i = call.row
      <4>1. /\ log'[i].agreed = log[i].agreed /\ log'[i].previous = log[i].previous
            /\ log'[i].rankFee = log[i].rankFee /\ log'[i].landed
            /\ log'[i].asRead <=> /\ version[call.caddie] = call.version
                                 /\ Len(history) = call.seen
            /\ log'[i].was = profile[call.caddie].fee
            /\ log'[i].paid = table[profile[call.caddie].rank]
        BY <2>1, <3>1, <3>3, LandsEffect
      <4>2. log'[i].asRead => /\ log[i].previous = profile[call.caddie].fee
                              /\ log[i].rankFee = table[profile[call.caddie].rank]
        BY <2>1, <3>3, <4>1 DEF CallOK
      <4> QED  BY <1>0, <3>1, <4>1, <4>2 DEF EntryOK
    <3> QED  BY <3>2, <3>3
  <2> QED  BY <2>2
<1>9. ASSUME NEW s \in Sheets, PatchTimesOut(s)
      PROVE  \A i \in 1..Len(log') : EntryOK(i)'
  BY <1>a, <1>9 DEF PatchTimesOut
<1>10. ASSUME NEW s \in Sheets, PatchRefused(s)
      PROVE  \A i \in 1..Len(log') : EntryOK(i)'
  BY <1>a, <1>10 DEF PatchRefused
<1>11. ASSUME NEW s \in Sheets, StaffRead(s)
      PROVE  \A i \in 1..Len(log') : EntryOK(i)'
  BY <1>a, <1>11 DEF StaffRead
<1>12. ASSUME NEW s \in Sheets, AnswerLost(s)
      PROVE  \A i \in 1..Len(log') : EntryOK(i)'
  BY <1>a, <1>12 DEF AnswerLost
<1>13. ASSUME NEW s \in Sheets, Expelled(s)
      PROVE  \A i \in 1..Len(log') : EntryOK(i)'
  BY <1>a, <1>13 DEF Expelled
<1>14. ASSUME NEW s \in Sheets, Confirm(s)
      PROVE  \A i \in 1..Len(log') : EntryOK(i)'
  <2>1. RowOK(s) /\ pc[s] \in Moving
    BY <1>14 DEF Confirm, FeeInv, Moving
  <2>2. Settle(s, "listed")
    BY <1>14 DEF Confirm, Settle
  <2>3. log[at[s]].landed
    BY <1>14, <2>1 DEF Confirm, RowOK
  <2>4. ASSUME NEW i \in 1..Len(log') PROVE EntryOK(i)'
    <3>1. i \in 1..Len(log)
      BY <2>1, <2>2, StateOnly
    <3> QED  BY <1>0, <2>1, <2>2, <2>3, <3>1, StateOnly DEF EntryOK
  <2> QED  BY <2>4
<1>15. ASSUME NEW s \in Sheets, ConfirmFails(s)
      PROVE  \A i \in 1..Len(log') : EntryOK(i)'
  BY <1>a, <1>15 DEF ConfirmFails
<1>16. ASSUME NEW s \in Sheets, Discard(s)
      PROVE  \A i \in 1..Len(log') : EntryOK(i)'
  <2>1. RowOK(s) /\ pc[s] \in Moving
    BY <1>16 DEF Discard, FeeInv, Moving
  <2>2. Settle(s, "discarded") \/ log' = log
    BY <1>16 DEF Discard, Discards, Settle
  <2>3. CASE log' = log
    BY <1>0, <2>3 DEF EntryOK
  <2>4. CASE Settle(s, "discarded")
    <3>1. ASSUME NEW i \in 1..Len(log') PROVE EntryOK(i)'
      <4>1. i \in 1..Len(log)
        BY <2>1, <2>4, StateOnly
      <4> QED  BY <1>0, <2>1, <2>4, <4>1, StateOnly DEF EntryOK
    <3> QED  BY <3>1
  <2> QED  BY <2>2, <2>3, <2>4
<1>17. ASSUME NEW s \in Sheets, DiscardAndStop(s)
      PROVE  \A i \in 1..Len(log') : EntryOK(i)'
  <2>1. RowOK(s) /\ pc[s] \in Moving
    BY <1>17 DEF DiscardAndStop, FeeInv, Moving
  <2>2. Settle(s, "discarded") \/ log' = log
    BY <1>17 DEF DiscardAndStop, Discards, Settle
  <2>3. CASE log' = log
    BY <1>0, <2>3 DEF EntryOK
  <2>4. CASE Settle(s, "discarded")
    <3>1. ASSUME NEW i \in 1..Len(log') PROVE EntryOK(i)'
      <4>1. i \in 1..Len(log)
        BY <2>1, <2>4, StateOnly
      <4> QED  BY <1>0, <2>1, <2>4, <4>1, StateOnly DEF EntryOK
    <3> QED  BY <3>1
  <2> QED  BY <2>2, <2>3, <2>4
<1>18. ASSUME NEW s \in Sheets, Abort(s)
      PROVE  \A i \in 1..Len(log') : EntryOK(i)'
  BY <1>a, <1>18 DEF Abort
<1>19. ASSUME NEW d \in Savers, NEW fees \in Offered, SaveReads(d, fees)
      PROVE  \A i \in 1..Len(log') : EntryOK(i)'
  BY <1>a, <1>19 DEF SaveReads
<1>20. ASSUME NEW d \in Savers, SaveWrites(d)
      PROVE  \A i \in 1..Len(log') : EntryOK(i)'
  BY <1>a, <1>20 DEF SaveWrites
<1>21. ASSUME NEW d \in Savers, SaveFails(d)
      PROVE  \A i \in 1..Len(log') : EntryOK(i)'
  BY <1>a, <1>21 DEF SaveFails
<1>22. ASSUME NEW c \in Caddies, NEW k \in Ranks, NEW f \in Fees, EditCaddie(c, k, f)
      PROVE  \A i \in 1..Len(log') : EntryOK(i)'
  BY <1>a, <1>22 DEF EditCaddie
<1>23. ASSUME NEW c \in Caddies, RemoveCaddie(c)
      PROVE  \A i \in 1..Len(log') : EntryOK(i)'
  BY <1>a, <1>23 DEF RemoveCaddie
<1>24. ASSUME NEW call \in late, LateLanding(call)
      PROVE  \A i \in 1..Len(log') : EntryOK(i)'
  <2>1. call \in Patch /\ CallOK(call) /\ Lands(call)
    BY <1>24 DEF LateLanding, FeeInv, TypeOK
  <2>2. ASSUME NEW i \in 1..Len(log') PROVE EntryOK(i)'
    <3>1. i \in 1..Len(log)
      BY <2>1, LandsEffect
    <3>2. CASE i # call.row
      BY <1>0, <2>1, <3>1, <3>2, LandsEffect DEF EntryOK
    <3>3. CASE i = call.row
      <4>1. /\ log'[i].agreed = log[i].agreed /\ log'[i].previous = log[i].previous
            /\ log'[i].rankFee = log[i].rankFee /\ log'[i].landed
            /\ log'[i].asRead <=> /\ version[call.caddie] = call.version
                                 /\ Len(history) = call.seen
            /\ log'[i].was = profile[call.caddie].fee
            /\ log'[i].paid = table[profile[call.caddie].rank]
        BY <2>1, <3>1, <3>3, LandsEffect
      <4>2. log'[i].asRead => /\ log[i].previous = profile[call.caddie].fee
                              /\ log[i].rankFee = table[profile[call.caddie].rank]
        BY <2>1, <3>3, <4>1 DEF CallOK
      <4> QED  BY <1>0, <3>1, <4>1, <4>2 DEF EntryOK
    <3> QED  BY <3>2, <3>3
  <2> QED  BY <2>2
<1>25. ASSUME NEW call \in late, LateLost(call)
      PROVE  \A i \in 1..Len(log') : EntryOK(i)'
  BY <1>a, <1>25 DEF LateLost
<1>26. ASSUME UNCHANGED vars PROVE \A i \in 1..Len(log') : EntryOK(i)'
  BY <1>a, <1>26 DEF vars
<1> QED
  BY <1>1, <1>2, <1>3, <1>4, <1>5, <1>6, <1>7, <1>8, <1>9, <1>10, <1>11, <1>12, <1>13,
     <1>14, <1>15, <1>16, <1>17, <1>18, <1>19, <1>20, <1>21, <1>22, <1>23, <1>24, <1>25, <1>26
     DEF Next, Step

LEMMA InvStep == TypeOK /\ FeeInv /\ [Next]_vars => TypeOK' /\ FeeInv'
<1> SUFFICES ASSUME TypeOK, FeeInv, [Next]_vars PROVE TypeOK' /\ FeeInv'
  OBVIOUS
<1>1. TypeOK'
  BY TypeStep
<1> QED  BY <1>1, ChainStep, SaveStep, RequestStep, LateStep, EntryStep
         DEF FeeInv, RequestOK

LEMMA Inductive == Spec => [](TypeOK /\ FeeInv)
  BY TypeInit, InvInit, InvStep, PTL DEF Spec

-----------------------------------------------------------------------------
(* Theorems *)

\* Every variable keeps its type: in particular no move is ever logged from
\* or onto an amount of zero, and no PATCH lands where no table is in force.
THEOREM TypeCorrect == Spec => []TypeOK
  BY Inductive, PTL

\* However many settings screens save however often, the newest entry of the
\* history is the table payroll reads, and an entry that no other save
\* overtook starts where the one before it ended.
THEOREM HistoryAlwaysChains == Spec => []HistoryChains
<1>1. FeeInv => HistoryChains
  BY DEF FeeInv
<1> QED  BY <1>1, Inductive, PTL

\* However many sheets are open and whatever calls fail, are lost or land
\* late, a move the pay screen lists did reach the profile, and said the truth
\* about both amounts unless something was written under it.
THEOREM ListedMovesAreTrue == Spec => []ListedMovesHappened
<1>1. TypeOK /\ FeeInv => ListedMovesHappened
  <2> SUFFICES ASSUME TypeOK, FeeInv, NEW i \in DOMAIN log, log[i].state = "listed"
               PROVE  /\ log[i].landed
                      /\ log[i].asRead => /\ log[i].previous = log[i].was
                                          /\ log[i].rankFee = log[i].paid
    BY DEF ListedMovesHappened
  <2>1. EntryOK(i)
    BY DEF FeeInv, TypeOK
  <2> QED  BY <2>1 DEF EntryOK
<1> QED  BY <1>1, Inductive, PTL

\* A profile nobody else wrote is set to zero only from the amount the
\* operator was shown, and only onto a rank that pays.
THEOREM OnlyAgreedMoves == Spec => []AgreedMovesOnly
<1>1. TypeOK /\ FeeInv => AgreedMovesOnly
  <2> SUFFICES ASSUME TypeOK, FeeInv, NEW i \in DOMAIN log,
                      log[i].landed /\ log[i].asRead
               PROVE  log[i].was = log[i].agreed /\ log[i].paid > 0
    BY DEF AgreedMovesOnly
  <2>1. EntryOK(i)
    BY DEF FeeInv, TypeOK
  <2>2. log[i] \in Move
    BY ElementOfSeq DEF TypeOK
  <2>3. log[i].rankFee \in 1..MaxFee
    BY <2>2 DEF Move, Fees
  <2> QED  BY <2>1, <2>3 DEF EntryOK
<1> QED  BY <1>1, Inductive, PTL

=============================================================================
