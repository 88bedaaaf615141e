------------------------------ MODULE AccessGate ------------------------------
(***************************************************************************)
(* The gates a request passes before and while its handler runs.           *)
(*                                                                         *)
(*   require_course_authorization  asks Tachyon Auth for the route's       *)
(*                                 action, through the shared cache of     *)
(*                                 allowances (CachingPolicyChecker);      *)
(*   require_feature_delivery      asks Tachyon Core whether the tenant's  *)
(*                                 plan provides the route's feature and   *)
(*                                 everything it requires; in shadow mode  *)
(*                                 it only reads a sample, alongside the   *)
(*                                 handler;                                *)
(*   require_valid_token           the route's own layer;                  *)
(*   the use case                  asks Auth again, through the same cache.*)
(*                                                                         *)
(* One instance of the service.  A call to Auth or Core is two steps: the  *)
(* provider decides, and its answer arrives, so permissions and plans      *)
(* change in between.  Auth, Core and the members screen are external.     *)
(* Every scope names a tenant, and the action gate is switched on.         *)
(***************************************************************************)
EXTENDS Integers, FiniteSets

CONSTANTS
  Requests,    \* requests that may run at once
  Scopes,      \* (bearer, tenant, platform) triples that call
  TenantOf,    \* the tenant of a scope
  Actions,     \* the actions Auth knows
  ReadOnly,    \* actions::READ_ONLY
  Routes,      \* the routes of the router
  Standing,    \* classify: an action, "bearer", "public" or "unlisted"
  CaseAction,  \* the action a route's use case requires, or "none"
  Features,    \* the catalog's feature keys
  Requires,    \* required_feature_keys
  FeatureOf,   \* feature_delivery::routes: a feature, "exempt" or "unmapped"
  Extra,       \* additional_features: what the export source adds
  Inputs,      \* what the guard makes of a request's payload
  Modes,       \* deployment modes
  Ttl,         \* CACHE_TTL
  Grace,       \* CACHE_GRACE
  CacheCap,    \* CACHE_CAP
  Window,      \* SHADOW_DEDUP_WINDOW
  TrackedCap,  \* MAX_TRACKED_PAIRS
  Lag,         \* how long one call to Auth may take (the client's timeout)
  MaxTime,     \* bound: clock ticks
  MaxRequests, \* bound: requests that arrive
  MaxChanges,  \* bound: changes of permissions and plans
  Nothing      \* Option::None

ASSUME TimesAssumption == /\ Ttl \in Nat \ {0} /\ Grace \in Nat /\ Ttl <= Grace
                          /\ Window \in Nat /\ Lag \in Nat /\ MaxTime \in Nat
ASSUME CapsAssumption == CacheCap \in Nat \ {0} /\ TrackedCap \in Nat \ {0}
ASSUME BoundsAssumption == MaxRequests \in Nat /\ MaxChanges \in Nat
ASSUME ActionsAssumption == /\ ReadOnly \subseteq Actions
                            /\ {"bearer", "public", "unlisted", "none"} \cap Actions = {}
ASSUME RoutesAssumption ==
  /\ Standing \in [Routes -> Actions \cup {"bearer", "public", "unlisted"}]
  /\ CaseAction \in [Routes -> Actions \cup {"none"}]
  /\ FeatureOf \in [Routes -> Features \cup {"exempt", "unmapped"}]
  /\ Extra \in [Routes -> SUBSET Features]
  /\ {"exempt", "unmapped"} \cap Features = {}
ASSUME CatalogAssumption == Requires \in [Features -> SUBSET Features] /\ IsFiniteSet(Features)
ASSUME ModesAssumption == Modes \subseteq {"off", "shadow", "enforce"}
ASSUME InputsAssumption ==
  Inputs \subseteq {"plain", "mismatch", "unread", "exceeded", "lost", "forged"}
ASSUME NothingAssumption == Nothing \notin Routes \cup Scopes \cup Int

Time == 0..MaxTime
\* CacheKey: bearer, tenant and platform (a scope), and the action.
Keys == Scopes \X Actions
Pairs == {TenantOf[s] : s \in Scopes} \X Features
Tenants == {TenantOf[s] : s \in Scopes}

VARIABLES
  now,       \* the instance's clock
  enforcement, \* enforcement_for each scope
  \* the service's memory
  entries,   \* CachingPolicyChecker.entries: when each allowance was stored
  last,      \* DeliverySampler.last_evaluated
  \* external
  granted,   \* keys Auth would allow
  plan,      \* Core's value of each feature: on, or off (unresolved too)
  changing,  \* the tenant whose permission change is on its way back
  \* the requests
  pc, route, scope, input,
  answer,    \* what the provider decided, on its way back
  since,     \* when the provider was asked
  reading,   \* shadow: the sampled read still runs
  arrived, changes,
  \* history
  lostAt,    \* when a key was last taken away
  settled,   \* keys a completed change took away with no check of them under way
  covered,   \* the plan covered the request at some moment since it arrived
  readAt     \* when each pair was last read for a sample

base == <<now, enforcement, arrived>>
outside == <<granted, plan, changing, changes, lostAt, settled>>
sampler == <<last, readAt>>
asked == <<route, scope, input>>
local == <<route, scope, input, answer, since, covered>>
vars == <<now, enforcement, entries, last, granted, plan, changing, pc, route, scope, input,
          answer, since, reading, arrived, changes, lostAt, settled, covered, readAt>>

Places == {"idle", "gate", "asked", "back", "deliver", "read", "read_back", "handler",
           "case_asked", "case_back", "refused", "finish"}

\* How long ago Auth last held the grant.
Age(k) == IF k \in granted THEN 0 ELSE now - lostAt[k]

-----------------------------------------------------------------------------
(* The catalog and the guard's decision. *)

\* (mutant) only the direct requirements are asked for
DirectRequirements(F) == F \cup UNION {Requires[f] : f \in F}

\* required_closure of each feature of F.
RequiredClosure(F) ==
  LET grown[n \in Nat] == IF n = 0 THEN F
                          ELSE grown[n - 1] \cup UNION {Requires[f] : f \in grown[n - 1]}
  IN grown[Cardinality(Features)]

\* The features a request needs under enforcement.
Needed(rt) == RequiredClosure({FeatureOf[rt]} \cup Extra[rt])

\* What a request really stands on: the least set of features that holds its
\* own and with each one what that one requires.
Least == [rt \in Routes |-> {f \in Features :
            \A S \in SUBSET Features :
               (\A g \in S : Requires[g] \subseteq S) /\ {FeatureOf[rt]} \cup Extra[rt] \subseteq S
                 => f \in S}]

\* evaluate: every key of the closure present, resolved and enabled.
Evaluate(F, values) == F \subseteq DOMAIN values /\ \A f \in F : values[f] = "on"

\* enforcement_for: a tenant or platform on an enforce list, and the mode of
\* the deployment for every other scope.
EnforcementFor(listed, mode) == [s \in Scopes |-> IF s \in listed THEN "enforce" ELSE mode]

-----------------------------------------------------------------------------
(* CachingPolicyChecker: one check, at the gate or in the use case. *)

\* allowance: stored less than window ago.
Allowance(k, window) == entries[k] # Nothing /\ now - entries[k] < window

\* The lookup drops an entry past even the grace window.
Pruned(k) == [entries EXCEPT ![k] =
                IF entries[k] # Nothing /\ now - entries[k] >= Grace THEN Nothing ELSE entries[k]]

\* remember: a full cache is emptied first.
Remember(k) == [e \in Keys |-> IF e = k THEN now
                               ELSE IF Cardinality({o \in Keys : entries[o] # Nothing}) >= CacheCap
                               THEN Nothing
                               ELSE entries[e]]

\* (mutant) the members screen leaves the cache alone
ForgottenNot(t) == entries

\* invalidate_tenant
Forgotten(t) == [k \in Keys |-> IF TenantOf[k[1]] = t THEN Nothing ELSE entries[k]]

\* The gate asks for the route's action, the use case for its own.
AtGate(r) == pc[r] \in {"gate", "asked", "back"}
KeyAt(r) == <<scope[r], IF AtGate(r) THEN Standing[route[r]] ELSE CaseAction[route[r]]>>

\* The response is sent.
Ended(r) ==
  /\ pc' = [pc EXCEPT ![r] = "idle"]
  /\ route' = [route EXCEPT ![r] = Nothing]
  /\ scope' = [scope EXCEPT ![r] = Nothing]
  /\ input' = [input EXCEPT ![r] = "plain"]
  /\ answer' = [answer EXCEPT ![r] = "none"]
  /\ since' = [since EXCEPT ![r] = 0]
  /\ covered' = [covered EXCEPT ![r] = FALSE]

\* The request goes on, and nothing else about it changes.
Moves(r, to) ==
  /\ pc' = [pc EXCEPT ![r] = to]
  /\ UNCHANGED local

\* The check is passed: the next layer, or the rest of the use case.
Passed(r) ==
  /\ pc' = [pc EXCEPT ![r] = IF AtGate(r) THEN "deliver" ELSE "finish"]
  /\ answer' = [answer EXCEPT ![r] = "none"]
  /\ since' = [since EXCEPT ![r] = 0]
  /\ UNCHANGED <<asked, covered>>

\* An allowance younger than the TTL answers.
FromCache(r) ==
  /\ Allowance(KeyAt(r), Ttl)
  /\ Passed(r)
  /\ UNCHANGED <<base, entries, sampler, outside, reading>>

AskAuth(r) ==
  /\ ~Allowance(KeyAt(r), Ttl)
  /\ entries' = Pruned(KeyAt(r))
  /\ pc' = [pc EXCEPT ![r] = IF AtGate(r) THEN "asked" ELSE "case_asked"]
  /\ since' = [since EXCEPT ![r] = now]
  /\ UNCHANGED <<base, sampler, outside, reading, asked, answer, covered>>

\* Auth decides, or cannot be reached.
AuthDecides(r, a) ==
  /\ pc[r] \in {"asked", "case_asked"}
  /\ a # "failed" => a = (IF KeyAt(r) \in granted THEN "allowed" ELSE "denied")
  /\ answer' = [answer EXCEPT ![r] = a]
  /\ pc' = [pc EXCEPT ![r] = IF AtGate(r) THEN "back" ELSE "case_back"]
  /\ UNCHANGED <<base, entries, sampler, outside, reading, asked, since, covered>>

AuthAllows(r) ==
  /\ pc[r] \in {"back", "case_back"}
  /\ answer[r] = "allowed"
  /\ entries' = Remember(KeyAt(r))
  /\ Passed(r)
  /\ UNCHANGED <<base, sampler, outside, reading>>

\* (mutant) an outage serves a recent allowance whatever the action does
LeansOnAnything(k) == Allowance(k, Grace)

\* An outage serves a recent allowance for an action that only reads.
LeansOn(k) == k[2] \in ReadOnly /\ Allowance(k, Grace)

ServedStale(r) ==
  /\ pc[r] \in {"back", "case_back"}
  /\ answer[r] = "failed"
  /\ LeansOn(KeyAt(r))
  /\ Passed(r)
  /\ UNCHANGED <<base, entries, sampler, outside, reading>>

\* Denied, or no answer to lean on.  The gate refuses the request; a use case
\* that is refused fails its handler.
AuthRefuses(r) ==
  /\ pc[r] \in {"back", "case_back"}
  /\ answer[r] = "denied" \/ (answer[r] = "failed" /\ ~LeansOn(KeyAt(r)))
  /\ entries' = IF answer[r] = "failed" /\ KeyAt(r)[2] \in ReadOnly
                THEN Pruned(KeyAt(r)) ELSE entries
  /\ IF AtGate(r) THEN Ended(r) ELSE Moves(r, "refused")
  /\ UNCHANGED <<base, sampler, outside, reading>>

-----------------------------------------------------------------------------
(* require_course_authorization, the outer layer. *)

Arrive(r, rt, s, i) ==
  /\ pc[r] = "idle"
  /\ ~reading[r]
  /\ arrived < MaxRequests
  /\ arrived' = arrived + 1
  /\ pc' = [pc EXCEPT ![r] = "gate"]
  /\ route' = [route EXCEPT ![r] = rt]
  /\ scope' = [scope EXCEPT ![r] = s]
  /\ input' = [input EXCEPT ![r] = i]
  /\ covered' = [covered EXCEPT ![r] = FeatureOf[rt] \in Features /\ \A g \in Least[rt] : plan[g] = "on"]
  /\ UNCHANGED <<now, enforcement, entries, sampler, outside, reading, answer, since>>

\* A protected route nobody classified, or a bearer that does not verify.
GateRefuses(r) ==
  /\ pc[r] = "gate"
  /\ \/ Standing[route[r]] = "unlisted"
     \/ Standing[route[r]] \in Actions /\ input[r] = "forged"
  /\ Ended(r)
  /\ UNCHANGED <<base, entries, sampler, outside, reading>>

\* No action to ask for here.
GateWaves(r) ==
  /\ pc[r] = "gate"
  /\ Standing[route[r]] \in {"bearer", "public"}
  /\ Moves(r, "deliver")
  /\ UNCHANGED <<base, entries, sampler, outside, reading>>

GateChecks(r) ==
  /\ pc[r] = "gate"
  /\ Standing[route[r]] \in Actions
  /\ input[r] # "forged"
  /\ FromCache(r) \/ AskAuth(r)

-----------------------------------------------------------------------------
(* require_feature_delivery, inside the action gate. *)

\* Off, or a route that carries no feature.
DeliveryExempt(r) ==
  /\ pc[r] = "deliver"
  /\ enforcement[scope[r]] = "off" \/ FeatureOf[route[r]] = "exempt"
  /\ Moves(r, "handler")
  /\ UNCHANGED <<base, entries, sampler, outside, reading>>

\* Enforced, and refused without asking Core: no rule maps the route, the
\* bearer does not verify, the body cannot be read back, or the payload names
\* another tenant, is too large to read, or reaches past the feature.
DeliveryRefuses(r) ==
  /\ pc[r] = "deliver"
  /\ enforcement[scope[r]] = "enforce"
  /\ FeatureOf[route[r]] # "exempt"
  /\ FeatureOf[route[r]] = "unmapped" \/ input[r] # "plain"
  /\ Ended(r)
  /\ UNCHANGED <<base, entries, sampler, outside, reading>>

ReadCore(r) ==
  /\ pc[r] = "deliver"
  /\ enforcement[scope[r]] = "enforce"
  /\ FeatureOf[route[r]] \in Features
  /\ input[r] = "plain"
  /\ Moves(r, "read")
  /\ UNCHANGED <<base, entries, sampler, outside, reading>>

\* Core answers the whole batch at once from the plan in force; keys may be
\* missing from its answer.
CoreDecides(r, missing) ==
  /\ pc[r] = "read"
  /\ answer' = [answer EXCEPT ![r] =
        IF Evaluate(Needed(route[r]), [f \in Features \ missing |-> plan[f]])
        THEN "allowed" ELSE "denied"]
  /\ pc' = [pc EXCEPT ![r] = "read_back"]
  /\ UNCHANGED <<base, entries, sampler, outside, reading, asked, since, covered>>

\* No answer, a non-success status, GraphQL errors: the decision is Unavailable.
CoreFails(r) ==
  /\ pc[r] = "read"
  /\ Ended(r)
  /\ UNCHANGED <<base, entries, sampler, outside, reading>>

CoreAnswers(r) ==
  /\ pc[r] = "read_back"
  /\ IF answer[r] = "allowed" THEN Moves(r, "handler") ELSE Ended(r)
  /\ UNCHANGED <<base, entries, sampler, outside, reading>>

\* shadow_feature_delivery: not sampled, read too recently, or not worth it.
ShadowSkips(r) ==
  /\ pc[r] = "deliver"
  /\ enforcement[scope[r]] = "shadow"
  /\ FeatureOf[route[r]] # "exempt"
  /\ Moves(r, "handler")
  /\ UNCHANGED <<base, entries, sampler, outside, reading>>

Fresh(p) == last[p] # Nothing /\ now - last[p] < Window
Full == Cardinality({p \in Pairs : last[p] # Nothing}) >= TrackedCap

\* admit_shadow: the pair is not fresh, and a full table has lapsed pairs to drop.
Admits(p) == /\ ~Fresh(p)
             /\ Full => Cardinality({q \in Pairs : Fresh(q)}) < TrackedCap

\* (mutant) the pair is not recorded when it is admitted
RecordedLater(p) == last

\* A full table drops the pairs past the window before this one is added.
Recorded(p) == [q \in Pairs |-> IF q = p THEN now
                                ELSE IF Full /\ ~Fresh(q) THEN Nothing
                                ELSE last[q]]

\* Sampled: Core is read alongside the handler, which starts at once.
ShadowReads(r) ==
  LET p == <<TenantOf[scope[r]], FeatureOf[route[r]]>> IN
  /\ pc[r] = "deliver"
  /\ enforcement[scope[r]] = "shadow"
  /\ FeatureOf[route[r]] \in Features
  /\ input[r] # "forged"
  /\ Admits(p)
  /\ last' = Recorded(p)
  /\ readAt' = [readAt EXCEPT ![p] = now]
  /\ reading' = [reading EXCEPT ![r] = TRUE]
  /\ Moves(r, "handler")
  /\ UNCHANGED <<base, entries, outside>>

\* The read ends before the response is ready, and is logged.
ShadowAnswers(r) ==
  /\ reading[r]
  /\ reading' = [reading EXCEPT ![r] = FALSE]
  /\ UNCHANGED <<base, entries, sampler, outside, pc, local>>

-----------------------------------------------------------------------------
(* The route's own layer, the handler and its use case. *)

\* require_valid_token
TokenRefused(r) ==
  /\ pc[r] = "handler"
  /\ input[r] = "forged"
  /\ Standing[route[r]] # "public"
  /\ Moves(r, "refused")
  /\ UNCHANGED <<base, entries, sampler, outside, reading>>

\* The bearer stands, or the route is public.
Admitted(r) == pc[r] = "handler" /\ (input[r] = "forged" => Standing[route[r]] = "public")

\* A handler whose use case asks for nothing more.
Handle(r) ==
  /\ Admitted(r)
  /\ CaseAction[route[r]] = "none"
  /\ Moves(r, "finish")
  /\ UNCHANGED <<base, entries, sampler, outside, reading>>

\* PolicyCourseAuthorizer::require
CaseChecks(r) ==
  /\ Admitted(r)
  /\ CaseAction[route[r]] # "none"
  /\ FromCache(r) \/ AskAuth(r)

\* (mutant) the response waits for Core however long it takes
FinishWaiting(r) ==
  /\ pc[r] \in {"refused", "finish"}
  /\ ~reading[r]
  /\ Ended(r)
  /\ UNCHANGED <<base, entries, sampler, outside, reading>>

\* The response is ready; a read that still runs is given its budget and then
\* logged as timed out.
Finish(r) ==
  /\ pc[r] \in {"refused", "finish"}
  /\ Ended(r)
  /\ reading' = [reading EXCEPT ![r] = FALSE]
  /\ UNCHANGED <<base, entries, sampler, outside>>

-----------------------------------------------------------------------------
(* What others do meanwhile. *)

Lose(k) ==
  /\ changes < MaxChanges
  /\ k \in granted
  /\ changes' = changes + 1
  /\ granted' = granted \ {k}
  /\ lostAt' = [lostAt EXCEPT ![k] = now]
  /\ UNCHANGED <<base, entries, sampler, plan, settled, pc, reading, local>>

\* A permission is granted, wherever.
Grant(k) ==
  /\ changes < MaxChanges
  /\ k \notin granted
  /\ changes' = changes + 1
  /\ granted' = granted \cup {k}
  /\ settled' = settled \ {k}
  /\ UNCHANGED <<base, entries, sampler, plan, changing, lostAt, pc, reading, local>>

\* A permission is taken away where this instance does not see it.
RevokeElsewhere(k) == Lose(k) /\ UNCHANGED changing

\* The members screen, through the Field proxy: Field has applied the change,
\* its answer is on the way back.
ScreenRevokes(k) == changing = Nothing /\ Lose(k) /\ changing' = TenantOf[k[1]]

\* Checks under way that Auth answered before the change.
UnderWay == {KeyAt(r) : r \in {q \in Requests : pc[q] \in {"back", "case_back"}
                                                /\ answer[q] = "allowed"}}

\* forget_tenant_allowances, once Field said the change succeeded.
ScreenAnswered ==
  /\ changing # Nothing
  /\ entries' = Forgotten(changing)
  /\ settled' = settled \cup {k \in Keys \ (granted \cup UnderWay) : TenantOf[k[1]] = changing}
  /\ changing' = Nothing
  /\ UNCHANGED <<base, sampler, granted, plan, changes, lostAt, pc, reading, local>>

\* The answer is lost, or Field reports an error: nothing is forgotten.
ScreenLost ==
  /\ changing # Nothing
  /\ changing' = Nothing
  /\ UNCHANGED <<base, entries, sampler, granted, plan, changes, lostAt, settled, pc, reading,
                 local>>

\* The tenant's plan changes in Core.
ChangePlan(f, v) ==
  /\ changes < MaxChanges
  /\ plan[f] # v
  /\ changes' = changes + 1
  /\ plan' = [plan EXCEPT ![f] = v]
  /\ covered' = [r \in Requests |->
        \/ covered[r]
        \/ /\ pc[r] # "idle"
           /\ FeatureOf[route[r]] \in Features
           /\ \A g \in Least[route[r]] : plan'[g] = "on"]
  /\ UNCHANGED <<base, entries, sampler, granted, changing, lostAt, settled, pc, reading, asked,
                 answer, since>>

\* Time passes; a call to Auth longer than its timeout has failed.
Tick ==
  /\ now < MaxTime
  /\ \A r \in Requests : pc[r] \in {"asked", "back", "case_asked", "case_back"}
                           => now < since[r] + Lag
  /\ now' = now + 1
  /\ UNCHANGED <<enforcement, arrived, entries, sampler, outside, pc, reading, local>>

-----------------------------------------------------------------------------
Init ==
  /\ now = 0
  /\ \E listed \in SUBSET Scopes, mode \in Modes : enforcement = EnforcementFor(listed, mode)
  /\ entries = [k \in Keys |-> Nothing]
  /\ last = [p \in Pairs |-> Nothing]
  /\ granted \in SUBSET Keys
  /\ plan = [f \in Features |-> "on"]
  /\ changing = Nothing
  /\ pc = [r \in Requests |-> "idle"]
  /\ route = [r \in Requests |-> Nothing]
  /\ scope = [r \in Requests |-> Nothing]
  /\ input = [r \in Requests |-> "plain"]
  /\ answer = [r \in Requests |-> "none"]
  /\ since = [r \in Requests |-> 0]
  /\ reading = [r \in Requests |-> FALSE]
  /\ arrived = 0
  /\ changes = 0
  /\ lostAt = [k \in Keys |-> 0]
  /\ settled = {}
  /\ covered = [r \in Requests |-> FALSE]
  /\ readAt = [p \in Pairs |-> Nothing]

Proceed(r) ==
  \/ GateRefuses(r) \/ GateWaves(r) \/ GateChecks(r)
  \/ \E a \in {"allowed", "denied", "failed"} : AuthDecides(r, a)
  \/ AuthAllows(r) \/ ServedStale(r) \/ AuthRefuses(r)
  \/ DeliveryExempt(r) \/ DeliveryRefuses(r) \/ ReadCore(r)
  \/ \E missing \in {{}} \cup {{f} : f \in Features} : CoreDecides(r, missing)
  \/ CoreFails(r) \/ CoreAnswers(r)
  \/ ShadowSkips(r) \/ ShadowReads(r)
  \/ TokenRefused(r) \/ Handle(r) \/ CaseChecks(r) \/ Finish(r)

Others ==
  \/ \E k \in Keys : Grant(k) \/ RevokeElsewhere(k) \/ ScreenRevokes(k)
  \/ ScreenAnswered
  \/ ScreenLost
  \/ \E f \in Features, v \in {"on", "off"} : ChangePlan(f, v)
  \/ Tick

Next ==
  \/ \E r \in Requests, rt \in Routes, s \in Scopes, i \in Inputs : Arrive(r, rt, s, i)
  \/ \E r \in Requests : Proceed(r) \/ ShadowAnswers(r)
  \/ Others

\* Every call to Auth and every enforced read of Core ends in an answer or a
\* timeout, and a polled handler goes on.  That Core ever answers a shadow
\* read is not assumed.
Spec == /\ Init
        /\ [][Next]_vars
        /\ \A r \in Requests : WF_vars(Proceed(r))

-----------------------------------------------------------------------------
(* Properties. *)

TypeOK ==
  /\ now \in Time
  /\ enforcement \in [Scopes -> {"off", "shadow", "enforce"}]
  /\ entries \in [Keys -> Time \cup {Nothing}]
  /\ last \in [Pairs -> Time \cup {Nothing}]
  /\ granted \subseteq Keys
  /\ plan \in [Features -> {"on", "off"}]
  /\ changing \in Tenants \cup {Nothing}
  /\ pc \in [Requests -> Places]
  /\ route \in [Requests -> Routes \cup {Nothing}]
  /\ scope \in [Requests -> Scopes \cup {Nothing}]
  /\ input \in [Requests -> Inputs \cup {"plain"}]
  /\ answer \in [Requests -> {"none", "allowed", "denied", "failed"}]
  /\ since \in [Requests -> Time]
  /\ reading \in [Requests -> BOOLEAN]
  /\ arrived \in 0..MaxRequests
  /\ changes \in 0..MaxChanges
  /\ lostAt \in [Keys -> Time]
  /\ settled \subseteq Keys
  /\ covered \in [Requests -> BOOLEAN]
  /\ readAt \in [Pairs -> Time \cup {Nothing}]

\* A check has begun or is about to.
Waits(r) == \/ pc[r] \in {"back", "case_back"}
            \/ pc[r] = "gate" /\ Standing[route[r]] \in Actions
            \/ pc[r] = "handler" /\ CaseAction[route[r]] \in Actions

\* "A revocation therefore takes effect within CACHE_TTL normally, and within
\* this window in the worst case" (CACHE_GRACE): no check is passed with a
\* permission lost longer ago than that and one call to Auth, and only a read
\* is ever passed on the longer of the two.
RevocationBites ==
  [][\A r \in Requests : Waits(r) /\ pc'[r] \in {"deliver", "finish"} =>
       \/ Age(KeyAt(r)) < Ttl + Lag
       \/ /\ answer[r] = "failed"
          /\ KeyAt(r)[2] \in ReadOnly
          /\ Age(KeyAt(r)) < Grace + Lag]_vars

\* A permission taken away on the members screen is gone from this instance
\* the moment the screen is told so (forget_tenant_allowances), unless a check
\* of it was on its way back: nothing stores it again until it is granted.
ForgottenAtOnce == \A k \in settled : entries[k] = Nothing

Inside == {"handler", "case_asked", "case_back", "refused", "finish"}

\* Fail-closed (feature_delivery, module docs): a request enforced for its
\* plan reaches its handler only if at one moment since it arrived the plan
\* provided its feature, what the export source adds, and everything they
\* require, and its payload stays inside them.
AdmittedIsProvided ==
  \A r \in Requests :
    pc[r] \in Inside /\ enforcement[scope[r]] = "enforce" /\ FeatureOf[route[r]] # "exempt"
      => covered[r] /\ input[r] = "plain"

\* Shadow reads Core for one tenant and feature at most once per window on
\* this instance (SHADOW_DEDUP_WINDOW), also with the table of pairs full.
SampledOncePerWindow ==
  [][\A r \in Requests : reading'[r] /\ ~reading[r] =>
       LET at == readAt[<<TenantOf[scope[r]], FeatureOf[route[r]]>>]
       IN at = Nothing \/ now - at >= Window]_vars

\* Every request is answered, although Core may never answer the shadow read
\* that runs alongside it (SHADOW_EVALUATION_BUDGET).
EveryRequestEnds == \A r \in Requests : pc[r] # "idle" ~> pc[r] = "idle"
=============================================================================
