--------------------------- MODULE CustomerVisits ---------------------------
(***************************************************************************)
(* What a customer's play adds up to, computed twice: on the customer's    *)
(* own page from that person's bookings (usecase/get_customer_visits.rs),  *)
(* and by a batch that pages through the whole tenant newest first and     *)
(* stores everybody's figures for the call list                            *)
(* (usecase/refresh_customer_summaries.rs).  Bookings are Field's,         *)
(* check-ins and summaries CourseBoard's.  The desk goes on booking,       *)
(* cancelling, relinking and checking in between the batch's pages.        *)
(*                                                                         *)
(* A booking is named by its tee time.  Money and headcount follow the     *)
(* rounds a customer booked and played and are counted with those; dates   *)
(* are left out but for the first visit, which a partial count withholds.  *)
(***************************************************************************)
EXTENDS Naturals, Sequences, FiniteSets

CONSTANTS Customers, NoCustomer,
          Times,       \* tee times that may be booked, naturals
          Now,         \* tee times after it are still ahead
          FirstBooked, \* tee times booked when the model starts
          FirstCheckins, \* check-ins recorded by then, in key order
          SeatNos,     \* player_index
          PageSize,    \* SWEEP_PAGE
          MaxRows,     \* MAX_SWEEP_ROWS
          OwnCap,      \* MAX_VISIT_HISTORY_ROWS, a whole number of the page's pages
          GuestCap,    \* MAX_GUEST_VISIT_LOOKUPS
          Rung,        \* visits the club's one grade asks for
          Sweeps,      \* batches that may overlap
          NoRow,
          MaxRuns,     \* bound: runs started
          MaxEvents    \* bound: what the desk does

ASSUME TimesAssumption ==
  /\ Times \subseteq Nat /\ FirstBooked \subseteq Times /\ IsFiniteSet(FirstBooked)
  /\ Now \in Nat
ASSUME PagingAssumption == PageSize \in Nat \ {0} /\ MaxRows \in Nat /\ Rung \in Nat
ASSUME CapsAssumption == OwnCap \in Nat \ {0} /\ GuestCap \in Nat
ASSUME NobodyAssumption == NoCustomer \notin Customers
ASSUME CheckinsAssumption ==
  LET s == FirstCheckins IN
  /\ s \in Seq([of : Times, seat : SeatNos, who : Customers \cup {NoCustomer}])
  /\ \A i, j \in DOMAIN s : s[i].of = s[j].of /\ s[i].seat = s[j].seat => i = j

VARIABLES bookings,   \* bookings[t]: [owner, status], for the times booked
          checkins,   \* golf_visit_checkins in key order: [of, seat, who]
          summary,    \* summary[c]: the stored figures, or NoRow
          runs,       \* runs[i]: status of the i-th run
          sweep,      \* sweep[w]: a batch, by step
          events,
          shifted     \* ghost: batches that saw a listing move under them

visitVars == <<bookings, checkins, summary, runs, sweep, events, shifted>>

Statuses == {"live", "waiting", "no_show", "cancelled"}
Who == Customers \cup {NoCustomer}

\* A batch: pc, its run, bookings and check-ins read so far, customers not
\* yet written, whether the sweep cap was hit, and whether nothing at all has
\* happened beside it since it began.
Sweep(pc, run, all, seen, todo, cut, quiet) ==
  [pc |-> pc, run |-> run, all |-> all, seen |-> seen, todo |-> todo, cut |-> cut,
   quiet |-> quiet]
Idle == Sweep("idle", 0, <<>>, <<>>, {}, FALSE, TRUE)

-----------------------------------------------------------------------------
(* The figures: CustomerVisitHistory. *)

\* What a booking read as [at, owner, status] is, once the clock is applied.
Classify(b) ==
  CASE b.status = "cancelled" -> "cancelled"
    [] b.status = "no_show" -> "no_show"
    [] b.status = "waiting" -> "other"
    [] OTHER -> IF b.at > Now THEN "upcoming" ELSE "visited"

\* Being seen at the desk only ever upgrades.
Confirm(kind) == IF kind \in {"upcoming", "other", "no_show"} THEN "visited" ELSE kind

\* own: the bookings in the customer's name, as read; guests: how many rounds
\* played in other people's groups, at the times of; attended: own bookings
\* with an arrival.
Summarize(own, guests, of, attended, cut) ==
  LET kind(b) == IF b.at \in attended THEN Confirm(Classify(b)) ELSE Classify(b)
      count(k) == Len(SelectSeq(own, LAMBDA b : kind(b) = k))
      played == of \cup {own[i].at : i \in {j \in DOMAIN own : kind(own[j]) = "visited"}}
  IN [visits    |-> count("visited") + guests,
      booked    |-> count("visited"),
      cancelled |-> count("cancelled"),
      no_shows  |-> count("no_show"),
      upcoming  |-> count("upcoming"),
      first     |-> IF cut \/ played = {} THEN 0
                    ELSE CHOOSE t \in played : \A u \in played : t <= u,
      cut       |-> cut]

\* The grade is withheld from a partial count.
GradeFor(row) == IF row.cut THEN "unknown"
                 ELSE IF row.visits >= Rung THEN "graded" ELSE "below_lowest"

\* Field's listing: newest tee time first.
Listing ==
  LET ranked(i) == CHOOSE t \in DOMAIN bookings :
                     Cardinality({u \in DOMAIN bookings : u > t}) = i - 1
  IN [i \in 1..Cardinality(DOMAIN bookings) |->
        [at |-> ranked(i), owner |-> bookings[ranked(i)].owner,
         status |-> bookings[ranked(i)].status]]

\* Check-ins linked to somebody, in key order.
Linked == SelectSeq(checkins, LAMBDA x : x.who # NoCustomer)

\* The groups somebody was seen in that are not their own bookings.
GuestGroups(c, mine) == {checkins[i].of : i \in {j \in DOMAIN checkins : checkins[j].who = c}} \ mine

\* The customer's own page: their newest bookings up to a cap, then each other
\* group they were seen in, the newest up to a cap of lookups; the lookups that
\* fail, of the bookings in unread, are left off without a word.
PageFigures(c, unread) ==
  LET all    == SelectSeq(Listing, LAMBDA b : b.owner = c)
      own    == SubSeq(all, 1, IF OwnCap < Len(all) THEN OwnCap ELSE Len(all))
      mine   == {own[i].at : i \in DOMAIN own}
      groups == GuestGroups(c, mine)
      looked == {t \in groups : Cardinality({u \in groups : u > t}) < GuestCap}
      read   == looked \ unread
  IN Summarize(own, Cardinality(read), read,
               {t \in mine : \E i \in DOMAIN checkins : checkins[i].who = c /\ checkins[i].of = t},
               Len(all) >= OwnCap \/ Cardinality(groups) > GuestCap)

\* (mutant) Guests are found only if they ever booked themselves.
RefreshedCustomersBooked(all, seen) ==
  {c \in Customers : \E i \in DOMAIN all : all[i].owner = c}

\* Everybody the sweep knows of: with a booking, or seen in a group it read.
RefreshedCustomers(all, seen) ==
  {c \in Customers : \/ \E i \in DOMAIN all : all[i].owner = c
                     \/ \E i \in DOMAIN seen, j \in DOMAIN all :
                          seen[i].who = c /\ seen[i].of = all[j].at}

\* One customer's figures from what a sweep has read: a guest's round for
\* every check-in row.
SweepFigures(c, all, seen, cut) ==
  LET own   == SelectSeq(all, LAMBDA b : b.owner = c)
      mine  == {own[i].at : i \in DOMAIN own}
      of(x) == \E j \in DOMAIN all : all[j].at = x.of
      guest == SelectSeq(seen, LAMBDA x : x.who = c /\ x.of \notin mine /\ of(x))
  IN Summarize(own, Len(guest), {guest[i].of : i \in DOMAIN guest},
               {seen[i].of : i \in {j \in DOMAIN seen : seen[j].who = c}} \cap mine, cut)

-----------------------------------------------------------------------------
VisitsTypeOK ==
  /\ DOMAIN bookings \subseteq Times
  /\ \A t \in DOMAIN bookings : bookings[t] \in [owner : Who, status : Statuses]
  /\ \A i \in DOMAIN checkins : checkins[i] \in [of : Times, seat : SeatNos, who : Who]
  /\ \A i, j \in DOMAIN checkins :      \* uq_golf_visit_checkins_seat
        checkins[i].of = checkins[j].of /\ checkins[i].seat = checkins[j].seat => i = j
  /\ DOMAIN summary = Customers
  /\ \A i \in DOMAIN runs : runs[i] \in {"running", "succeeded", "failed"}
  /\ \A w \in Sweeps : /\ sweep[w].pc \in {"idle", "bookings", "checkins", "write"}
                       /\ sweep[w].todo \subseteq Customers
                       /\ sweep[w].pc # "idle" => runs[sweep[w].run] = "running"
                       /\ Len(sweep[w].all) <= MaxRows + PageSize
  /\ shifted \subseteq Sweeps

VisitsInit ==
  /\ \E who \in [FirstBooked -> Customers] :
       bookings = [t \in FirstBooked |-> [owner |-> who[t], status |-> "live"]]
  /\ checkins = FirstCheckins
  /\ summary = [c \in Customers |-> NoRow]
  /\ runs = <<>> /\ sweep = [w \in Sweeps |-> Idle]
  /\ events = 0 /\ shifted = {}

-----------------------------------------------------------------------------
(* The batch: RefreshCustomerSummariesUseCase. *)

\* Batches under way are no longer alone.
Disturbed == [w \in Sweeps |-> [sweep[w] EXCEPT !.quiet = sweep[w].pc = "idle"]]

\* The run row is opened before the sweep.
StartRun(w) ==
  /\ sweep[w].pc = "idle" /\ Len(runs) < MaxRuns
  /\ runs' = Append(runs, "running")
  /\ sweep' = [sweep EXCEPT ![w] = Sweep("bookings", Len(runs) + 1, <<>>, <<>>, {}, FALSE, TRUE)]
  /\ shifted' = shifted \ {w}
  /\ UNCHANGED <<bookings, checkins, summary, events>>

\* (mutant) The last row of a page is read again.
PageOfInclusive(list, read) ==
  LET from == IF read = 0 THEN 1 ELSE read
  IN SubSeq(list, from, IF from + PageSize <= Len(list) THEN from + PageSize - 1 ELSE Len(list))

\* A page is what lies behind the rows already read.
PageOf(list, read) == SubSeq(list, read + 1, IF read + PageSize < Len(list)
                                             THEN read + PageSize ELSE Len(list))

\* Pages of bookings until one comes back short, or the cap is reached.
ReadPage(w) == sweep[w].pc = "bookings" /\
  LET me   == sweep[w]
      page == PageOf(Listing, Len(me.all))
      all  == me.all \o page
      short == Len(page) < PageSize
      done  == short \/ Len(all) >= MaxRows
  IN /\ sweep' = [sweep EXCEPT ![w] =
          Sweep(IF done THEN "checkins" ELSE "bookings", me.run, all, <<>>, {},
                done /\ ~short, me.quiet)]
     /\ UNCHANGED <<bookings, checkins, summary, runs, events, shifted>>

\* (mutant) Only the cap ends the check-ins.
ReadCheckinsToCap(w) ==
  LET me   == sweep[w]
      seen == me.seen \o PageOf(Linked, Len(me.seen))
      done == Len(seen) >= MaxRows
  IN /\ me.pc = "checkins"
     /\ sweep' = [sweep EXCEPT ![w] =
          Sweep(IF done THEN "write" ELSE "checkins", me.run, me.all, seen,
                IF done THEN RefreshedCustomers(me.all, seen) ELSE {}, me.cut, me.quiet)]
     /\ UNCHANGED <<bookings, checkins, summary, runs, events, shifted>>

\* Then pages of check-ins; the last settles who is written.
ReadCheckins(w) ==
  LET me   == sweep[w]
      page == PageOf(Linked, Len(me.seen))
      seen == me.seen \o page
      done == Len(page) < PageSize \/ Len(seen) >= MaxRows
  IN /\ me.pc = "checkins"
     /\ sweep' = [sweep EXCEPT ![w] =
          Sweep(IF done THEN "write" ELSE "checkins", me.run, me.all, seen,
                IF done THEN RefreshedCustomers(me.all, seen) ELSE {}, me.cut, me.quiet)]
     /\ UNCHANGED <<bookings, checkins, summary, runs, events, shifted>>

\* A chunk of rows replaces what was stored; rows come in no particular order.
WriteChunk(w, c) ==
  LET me == sweep[w]
  IN /\ me.pc = "write" /\ c \in me.todo
     /\ summary' = [summary EXCEPT ![c] = SweepFigures(c, me.all, me.seen, me.cut)]
     /\ sweep' = [Disturbed EXCEPT ![w] =
          Sweep("write", me.run, me.all, me.seen, me.todo \ {c}, me.cut, me.quiet)]
     /\ UNCHANGED <<bookings, checkins, runs, events, shifted>>

FinishRun(w) ==
  /\ sweep[w].pc = "write" /\ sweep[w].todo = {}
  /\ runs' = [runs EXCEPT ![sweep[w].run] = "succeeded"]
  /\ sweep' = [sweep EXCEPT ![w] = Idle]
  /\ UNCHANGED <<bookings, checkins, summary, events, shifted>>

\* A call fails: the run is marked, the chunks already written stay.
FailRun(w) ==
  /\ sweep[w].pc # "idle" /\ events < MaxEvents
  /\ events' = events + 1
  /\ runs' = [runs EXCEPT ![sweep[w].run] = "failed"]
  /\ sweep' = [sweep EXCEPT ![w] = Idle]
  /\ UNCHANGED <<bookings, checkins, summary, shifted>>

\* The process dies: the run row stays open.
Die(w) ==
  /\ sweep[w].pc # "idle" /\ events < MaxEvents
  /\ events' = events + 1
  /\ sweep' = [sweep EXCEPT ![w] = Idle]
  /\ UNCHANGED <<bookings, checkins, summary, runs, shifted>>

-----------------------------------------------------------------------------
(* The desk, meanwhile. *)

\* Something happened; the listings moved under the batches in moved.
Happens(moved) ==
  /\ events < MaxEvents /\ events' = events + 1
  /\ sweep' = Disturbed
  /\ shifted' = shifted \cup moved
  /\ UNCHANGED <<summary, runs>>

\* A booking is taken: it moves every older one down the listing.
Book(t, c) ==
  /\ t \notin DOMAIN bookings
  /\ bookings' = [u \in DOMAIN bookings \cup {t} |->
                    IF u = t THEN [owner |-> c, status |-> "live"] ELSE bookings[u]]
  /\ Happens({w \in Sweeps : /\ sweep[w].pc = "bookings" /\ sweep[w].all # <<>>
                             /\ t > sweep[w].all[Len(sweep[w].all)].at})
  /\ UNCHANGED checkins

\* Field settles a booking: cancelled, put on the waiting list, nobody came.
SetStatus(t, s) ==
  /\ t \in DOMAIN bookings /\ bookings[t].status \notin {s, "cancelled"}
  /\ bookings' = [bookings EXCEPT ![t].status = s]
  /\ Happens({}) /\ UNCHANGED checkins

\* The desk corrects who a booking is for; a link cannot be unset.
RelinkBooking(t, c) ==
  /\ t \in DOMAIN bookings /\ bookings[t].owner # c
  /\ bookings' = [bookings EXCEPT ![t].owner = c]
  /\ Happens({}) /\ UNCHANGED checkins

\* A seat is checked in; pressing again corrects who it turned out to be.
RecordCheckin(t, seat, who) ==
  LET row == {i \in DOMAIN checkins : checkins[i].of = t /\ checkins[i].seat = seat}
  IN /\ t \in DOMAIN bookings
     /\ checkins' = IF row = {} THEN Append(checkins, [of |-> t, seat |-> seat, who |-> who])
                    ELSE [i \in DOMAIN checkins |->
                            IF i \in row THEN [checkins[i] EXCEPT !.who = who] ELSE checkins[i]]
     /\ checkins' # checkins
     /\ Happens({w \in Sweeps : sweep[w].pc = "checkins" /\ row # {}})
     /\ UNCHANGED bookings

-----------------------------------------------------------------------------
SweepStep(w) == \/ ReadPage(w) \/ ReadCheckins(w) \/ FinishRun(w)
                \/ \E c \in Customers : WriteChunk(w, c)

VisitsNext ==
  \/ \E w \in Sweeps : StartRun(w) \/ SweepStep(w) \/ FailRun(w) \/ Die(w)
  \/ \E t \in Times, c \in Customers : Book(t, c) \/ RelinkBooking(t, c)
  \/ \E t \in Times, s \in Statuses \ {"live"} : SetStatus(t, s)
  \/ \E t \in Times, seat \in SeatNos, who \in Who : RecordCheckin(t, seat, who)

\* The batch's process runs until it ends or dies.
VisitsSpec == VisitsInit /\ [][VisitsNext]_visitVars
              /\ \A w \in Sweeps : WF_visitVars(SweepStep(w))

-----------------------------------------------------------------------------
(* Properties. *)

\* Somebody checked in at two seats of another's group.
InTwoSeats(c) ==
  \E i, j \in DOMAIN checkins : /\ i # j /\ checkins[i].who = c /\ checkins[j].who = c
                                /\ checkins[i].of = checkins[j].of
                                /\ bookings[checkins[i].of].owner # c

HasPlay(c) == \/ \E t \in DOMAIN bookings : bookings[t].owner = c
              \/ \E i \in DOMAIN checkins : checkins[i].who = c

\* The stored row and the customer's page, whichever guest lookups fail: the
\* sweep never counts a visit less, and a page that could read everything shows
\* the very figures of the row.
Agrees(c) ==
  summary[c] # NoRow /\ \A unread \in SUBSET DOMAIN bookings :
    LET page == PageFigures(c, unread) IN
      /\ page.visits <= summary[c].visits
      /\ ~ page.cut /\ unread = {} => summary[c] = page

\* The stored row counts no round that a page which could read everything
\* would not show.
Undercounts(c) ==
  LET page == PageFigures(c, {}) IN ~ page.cut => summary[c].visits <= page.visits

\* A sweep beside which nothing happened: below both caps it leaves everybody
\* with play the figures of their own page, or more where the page's own caps
\* or a failed lookup cut it short.  Where the bookings reach the sweep's cap
\* whoever it wrote earns no grade; where only the check-ins do, which nothing
\* reports, rounds may be missing but none is made up.  A person in two seats
\* of one group is excepted (sweep, GetCustomerVisitsUseCase).
SweepIsExact ==
  [][\A w \in Sweeps : FinishRun(w) /\ sweep[w].quiet =>
       IF Len(Listing) >= MaxRows
       THEN \A c \in RefreshedCustomers(sweep[w].all, sweep[w].seen) :
              GradeFor(summary[c]) = "unknown"
       ELSE \A c \in Customers : ~ InTwoSeats(c) =>
              /\ Len(Linked) <= MaxRows /\ HasPlay(c) => Agrees(c)
              /\ c \in RefreshedCustomers(sweep[w].all, sweep[w].seen) =>
                   Undercounts(c)]_visitVars

\* Whatever is cancelled, settled or relinked between two pages, a sweep reads
\* every booking once and in order, or says that the cap stopped it, unless one
\* was taken ahead of where it reads (list_tenant_reservations,
\* read_reservations).
PagesMeet ==
  [][\A w \in Sweeps \ shifted : ReadPage(w) =>
       LET all == sweep'[w].all IN
         /\ Len(all) <= Len(Listing)
         /\ \A i \in DOMAIN all : all[i].at = Listing[i].at
         /\ sweep'[w].pc = "checkins" /\ Len(all) < Len(Listing) => sweep'[w].cut]_visitVars

\* A run that starts ends: the paging stops although the desk keeps booking.
RunsEnd == \A w \in Sweeps : sweep[w].pc = "bookings" ~> sweep[w].pc = "idle"
=============================================================================
