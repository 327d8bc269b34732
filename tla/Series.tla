--------------------------------- MODULE Series ---------------------------------
(***************************************************************************)
(* One recurring plan (internal/plans: recurrence.go, series.go, Create    *)
(* and CancelPlan): its rule, its occurrences, which are rows of plans     *)
(* with the same series_id, the job extend_series of the workers and the   *)
(* host who cancels one occurrence or this and every later one.            *)
(*                                                                         *)
(* Days stand for start times.  Occurrence i of the rule starts on         *)
(* Date(i); Missing are the i that the calendar does not have (the 31st of *)
(* a short month).  An extension reads the rule once and then inserts one  *)
(* row per statement; a cancellation of the rest of the series lists the   *)
(* rows, cancels each in a transaction of its own and ends the rule last.  *)
(***************************************************************************)
EXTENDS Integers, FiniteSets

CONSTANTS
  Start,      \* starts_at of the template
  Interval,   \* days between two occurrences
  Missing,    \* occurrences that do not exist
  Count,      \* COUNT of the rule, 0 for none
  Until,      \* UNTIL of the rule, 0 for none
  Horizon,    \* seriesHorizon
  LastDay,    \* bound: the clock stops here
  Extenders,  \* workers, and the call that created the plan
  Creator,    \* ... which is this one
  Hosts,      \* concurrent calls of CancelPlan
  MaxDeaths   \* bound: processes that stop half way

ASSUME RuleAssumption ==
  /\ Start \in Nat \ {0} /\ Interval \in Nat \ {0}
  /\ {Count, Until, Horizon, LastDay, MaxDeaths} \subseteq Nat
  /\ Missing \subseteq Nat \ {0}
  /\ Start <= LastDay
ASSUME CreatorExtends == Creator \in Extenders

VARIABLES
  row,     \* row[d]: plans.status of the occurrence on day d, "none" without a row
  ended,   \* plan_recurrences.ended_before, Never if it is NULL
  today,   \* the clock
  job,     \* job[e]: "idle", or "insert" while e extends the series
  bound,   \* bound[e]: the ended_before it read
  todo,    \* todo[e]: days it still has to insert
  call,    \* call[h]: "idle", "cancel", or "done"
  from,    \* from[h]: the day whose plan h cancels
  listed,  \* listed[h]: days it still has to cancel
  deaths

series == <<row, ended>>
extend == <<job, bound, todo>>
cancel == <<call, from, listed>>
vars == <<series, today, extend, cancel, deaths>>

Days == 1..(LastDay + Horizon)
Never == LastDay + Horizon + 1
Indices == 0..(LastDay + Horizon)
Date(i) == Start + i * Interval

-----------------------------------------------------------------------------
(* Rule.Occurrences: the loop over i, and what it has collected. *)

Emitted(days) == [out |-> days, stop |-> Count > 0 /\ Cardinality(days) >= Count]

PastUntil(d) == Until # 0 /\ d > Until

(* Wrong variant: a day that does not exist overflows into the next month. *)
StepOverflows(s, i, horizon) ==
  IF s.stop THEN s
  ELSE IF i \in Missing THEN Emitted(s.out \cup {Date(i) + 1})
  ELSE IF Date(i) > horizon \/ PastUntil(Date(i)) THEN [s EXCEPT !.stop = TRUE]
  ELSE Emitted(s.out \cup {Date(i)})

(* Wrong variant: the loop stops at a day that does not exist. *)
StepBreaks(s, i, horizon) ==
  IF s.stop THEN s
  ELSE IF i \in Missing \/ Date(i) > horizon \/ PastUntil(Date(i)) THEN [s EXCEPT !.stop = TRUE]
  ELSE Emitted(s.out \cup {Date(i)})

Step(s, i, horizon) ==
  IF s.stop \/ i \in Missing THEN s
  ELSE IF Date(i) > horizon \/ PastUntil(Date(i)) THEN [s EXCEPT !.stop = TRUE]
  ELSE Emitted(s.out \cup {Date(i)})

Occurrences(horizon) ==
  LET loop[i \in Indices] ==
        Step(IF i = 0 THEN [out |-> {}, stop |-> FALSE] ELSE loop[i - 1], i, horizon)
  IN  loop[LastDay + Horizon].out

-----------------------------------------------------------------------------
Init ==
  /\ row = [d \in Days |-> "none"]
  /\ ended = Never
  /\ today = Start
  /\ job = [e \in Extenders |-> "idle"]
  /\ bound = [e \in Extenders |-> Never]
  /\ todo = [e \in Extenders |-> {}]
  /\ call = [h \in Hosts |-> "idle"]
  /\ from = [h \in Hosts |-> Never]
  /\ listed = [h \in Hosts |-> {}]
  /\ deaths = 0

Exists == row[Start] # "none"   \* the template, and with it the rule

First(S) == CHOOSE d \in S : \A x \in S : d <= x

(* ExtendSeries has read the rule, and computes the days of its loop. *)
StartsExtending(e) ==
  /\ job' = [job EXCEPT ![e] = "insert"]
  /\ bound' = [bound EXCEPT ![e] = ended]
  /\ todo' = [todo EXCEPT ![e] = Occurrences(today + Horizon)]
  /\ UNCHANGED <<ended, today, cancel, deaths>>

(* Repository.Create, one transaction; CreatePlan goes on to extend. *)
CreatePlan ==
  /\ ~Exists
  /\ row' = [row EXCEPT ![Start] = "published"]
  /\ StartsExtending(Creator)

(* ExtendAllSeries takes the series that have no end. *)
ExtendSeries(e) ==
  /\ e # Creator
  /\ job[e] = "idle"
  /\ Exists /\ ended = Never
  /\ StartsExtending(e)
  /\ UNCHANGED row

(* An occurrence at or after the end the extension has read. *)
Skips(e, d) == d >= bound[e]

(* Wrong variant: only a published row is in the way. *)
InsertOver(e) ==
  LET d == First(todo[e])
  IN  /\ todo[e] # {}
      /\ row' = IF Skips(e, d) THEN row ELSE [row EXCEPT ![d] = "published"]
      /\ todo' = [todo EXCEPT ![e] = @ \ {d}]
      /\ UNCHANGED <<ended, today, job, bound, cancel, deaths>>

(* INSERT ... ON CONFLICT (series_id, starts_at) DO NOTHING. *)
InsertOccurrence(e) ==
  LET d == First(todo[e])
  IN  /\ todo[e] # {}
      /\ row' = IF Skips(e, d) \/ row[d] # "none" THEN row
                ELSE [row EXCEPT ![d] = "published"]
      /\ todo' = [todo EXCEPT ![e] = @ \ {d}]
      /\ UNCHANGED <<ended, today, job, bound, cancel, deaths>>

EndsExtending(e) ==
  /\ job' = [job EXCEPT ![e] = "idle"]
  /\ bound' = [bound EXCEPT ![e] = Never]
  /\ todo' = [todo EXCEPT ![e] = {}]
  /\ UNCHANGED <<series, today, cancel>>

ExtensionDone(e) ==
  /\ job[e] = "insert"
  /\ todo[e] = {}
  /\ EndsExtending(e)
  /\ UNCHANGED deaths

Death == deaths < MaxDeaths /\ deaths' = deaths + 1
ExtenderDies(e) == job[e] = "insert" /\ EndsExtending(e) /\ Death

-----------------------------------------------------------------------------
(* Repository.Cancel: whatever the status was. *)
Cancels(d) == row' = [row EXCEPT ![d] = "cancelled"]

(* CancelPlan without cancel_future. *)
CancelOne(d) ==
  /\ row[d] # "none"
  /\ Cancels(d)
  /\ UNCHANGED <<ended, today, extend, cancel, deaths>>

(* FutureOccurrenceIDs. *)
ListFuture(h, d) ==
  /\ call[h] = "idle"
  /\ row[d] # "none"
  /\ call' = [call EXCEPT ![h] = "cancel"]
  /\ from' = [from EXCEPT ![h] = d]
  /\ listed' = [listed EXCEPT ![h] = {x \in Days : x >= d /\ row[x] = "published"}]
  /\ UNCHANGED <<series, today, extend, deaths>>

CancelNext(h) ==
  LET d == First(listed[h])
  IN  /\ listed[h] # {}
      /\ Cancels(d)
      /\ listed' = [listed EXCEPT ![h] = @ \ {d}]
      /\ UNCHANGED <<ended, today, extend, call, from, deaths>>

Returns(h, s) ==
  /\ call' = [call EXCEPT ![h] = s]
  /\ listed' = [listed EXCEPT ![h] = {}]
  /\ UNCHANGED <<row, today, extend>>

(* EndSeriesFrom: the earlier of the two ends. *)
EndSeries(h) ==
  /\ call[h] = "cancel"
  /\ listed[h] = {}
  /\ ended' = IF from[h] < ended THEN from[h] ELSE ended
  /\ Returns(h, "done")
  /\ UNCHANGED <<from, deaths>>

HostDies(h) ==
  /\ call[h] = "cancel"
  /\ Returns(h, "idle")
  /\ from' = [from EXCEPT ![h] = Never]
  /\ Death
  /\ UNCHANGED ended

-----------------------------------------------------------------------------
(* CompleteEndedPlans (internal/bookings/lifecycle.go). *)
Completes(d) ==
  /\ d < today
  /\ row[d] = "published"
  /\ row' = [row EXCEPT ![d] = "completed"]
  /\ UNCHANGED <<ended, today, extend, cancel, deaths>>

Tick ==
  /\ today < LastDay
  /\ today' = today + 1
  /\ UNCHANGED <<series, extend, cancel, deaths>>

Extends(e) == ExtendSeries(e) \/ InsertOccurrence(e) \/ ExtensionDone(e)

Next ==
  \/ CreatePlan
  \/ \E e \in Extenders : Extends(e) \/ ExtenderDies(e)
  \/ \E d \in Days : CancelOne(d) \/ Completes(d)
  \/ \E h \in Hosts : (\E d \in Days : ListFuture(h, d)) \/ CancelNext(h) \/ EndSeries(h) \/ HostDies(h)
  \/ Tick

Spec == Init /\ [][Next]_vars

(* The job runs every hour; a call goes on unless its process stops. *)
FairSpec ==
  /\ Spec
  /\ \A e \in Extenders : WF_vars(Extends(e))
  /\ \A h \in Hosts : WF_vars(CancelNext(h) \/ EndSeries(h))

-----------------------------------------------------------------------------
(* Properties. *)

SeriesTypeOK ==
  /\ row \in [Days -> {"none", "published", "completed", "cancelled"}]
  /\ ended \in 1..Never
  /\ today \in Nat
  /\ job \in [Extenders -> {"idle", "insert"}]
  /\ bound \in [Extenders -> 1..Never]
  /\ todo \in [Extenders -> SUBSET Days]
  /\ call \in [Hosts -> {"idle", "cancel", "done"}]
  /\ from \in [Hosts -> 1..Never]
  /\ listed \in [Hosts -> SUBSET Days]
  /\ deaths \in 0..MaxDeaths

(* What the rule means, day by day: day i is meant if it exists, is not    *)
(* past UNTIL, and at most COUNT days exist up to it.                      *)
Meant(h) ==
  {Date(i) : i \in {j \in Indices \ Missing :
     /\ Date(j) <= h
     /\ ~PastUntil(Date(j))
     /\ Count = 0 \/ Cardinality(0..j \ Missing) <= Count}}

(* The occurrences there are are those the rule means, within the horizon, *)
(* however many extensions run at once, in whatever order.                 *)
RowsFollowRule == \A d \in Days : row[d] # "none" => d \in Meant(today + Horizon)

(* Every occurrence that comes within the horizon gets its row, although   *)
(* workers stop half way, until the series is ended.                       *)
OccurrencesAppear ==
  \A d \in Days : (Exists /\ d \in Meant(today + Horizon)) ~> (row[d] # "none" \/ d >= ended)

(* Nothing brings an occurrence back: one that was cancelled or is over    *)
(* is never published again, and once the series is ended and no older     *)
(* extension is under way, no day at or after the end appears.             *)
NothingComesBack ==
  [][\A d \in Days :
       /\ row[d] \in {"cancelled", "completed"} => row'[d] # "published"
       /\ (row[d] = "none" /\ d >= ended /\ \A e \in Extenders : bound[e] <= ended \/ job[e] = "idle")
            => row'[d] = "none"]_vars

(* When a cancellation of the rest of a series has returned, no plan of it *)
(* is left (the comment on cancel_future in CancelPlan).                   *)
RestIsCancelled ==
  \A h \in Hosts : call[h] = "done" =>
    \A d \in Days : d >= from[h] => row[d] # "published"

=============================================================================
