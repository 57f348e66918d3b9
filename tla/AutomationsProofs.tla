-------------------------- MODULE AutomationsProofs --------------------------
(***************************************************************************)
(* Whatever users, timers, turns and crashes do, and in whatever order, an *)
(* automation has at most one live run, claims no slot of its schedule     *)
(* twice and is never left active with nothing to wake it.                 *)
(*                                                                         *)
(* The three hold together or not at all: the schedule may only come back  *)
(* ahead of every slot it has claimed (Ahead), and for a once, whose slot  *)
(* never moves, what stands in for "ahead" is the live run that claimed    *)
(* it, so the argument needs that no second run can be live.               *)
(***************************************************************************)
EXTENDS Automations, TLAPS

\* The invariant, of any automation and any rows: the handlers that work in
\* steps pass through rows that never are a state.
Sched(rs, r) == rs[r].status # "free" /\ rs[r].trigger # "manual"
Typed(a, rs) ==
    /\ a \in AutoType /\ rs \in [Rows -> RowType]
    /\ a.kind = "once" => a.runAt \in Nat
OneLive(rs) == \A q, r \in Rows : Live(rs, q) /\ Live(rs, r) => q = r
Distinct(rs) ==
    \A q, r \in Rows : Sched(rs, q) /\ Sched(rs, r) /\ rs[q].slot = rs[r].slot => q = r
Behind(rs) == \A r \in Rows : Sched(rs, r) => rs[r].slot \in Nat /\ rs[r].slot <= now

\* The next fire is a slot nobody has claimed.
AheadRecurring(a, rs) ==
    a.kind # "once" /\ a.next # None => \A r \in Rows : Sched(rs, r) => rs[r].slot < a.next
AheadOnce(a, rs) ==
    a.kind = "once" =>
        /\ a.next \in {None, a.runAt}
        /\ \A r \in Rows : Sched(rs, r) => rs[r].slot < a.runAt \/ Live(rs, r)
Armed(a, rs) == ~Busy(rs) /\ a.next = None => NextFire(a) = None
Planned(a, rs) ==
    a.status = "active" => AheadRecurring(a, rs) /\ AheadOnce(a, rs) /\ Armed(a, rs)
Good(a, rs) == Typed(a, rs) /\ OneLive(rs) /\ Distinct(rs) /\ Behind(rs) /\ Planned(a, rs)

\* Rows that have ended keep their status.
Kept(before, after) ==
    \A r \in Rows : before[r].status \in Finals => after[r].status = before[r].status

Triggers == {"none", "schedule", "backfill", "manual"}
Closings == {"paused", "completed", "deleted"}
Reasons == {"none", "onceDone", "suspended"}

-----------------------------------------------------------------------------
(* The schedule. *)

\* A recurring schedule's next fire lies ahead; a once has one time only.
LEMMA NextFireFacts ==
    ASSUME now \in Times, NEW a, a \in AutoType, a.kind = "once" => a.runAt \in Nat
    PROVE  /\ NextFire(a) \in Instants
           /\ a.kind # "once" /\ NextFire(a) # None => NextFire(a) \in Nat /\ NextFire(a) > now
           /\ a.kind = "once" => NextFire(a) \in {None, a.runAt}
<1>1. now \in Nat /\ NextSlot[now] \in Nat /\ NextSlot[now] > now
  BY TimeAssumption DEF Times
<1>2. now + Interval \in Nat /\ now + Interval > now
  BY <1>1, TimeAssumption
<1>3. Candidate(a) \in Instants
  BY <1>1, <1>2 DEF Candidate, Instants, AutoType
<1>4. a.kind # "once" /\ Candidate(a) # None => Candidate(a) \in Nat /\ Candidate(a) > now
  BY <1>1, <1>2 DEF Candidate, AutoType
<1>5. a.kind = "once" => Candidate(a) = a.runAt
  BY DEF Candidate
<1> QED
  BY <1>3, <1>4, <1>5, NoneAssumption DEF NextFire, Instants

\* What a next fire depends on.
LEMMA SameNextFire ==
    ASSUME NEW a, NEW b, a.kind = b.kind, a.runAt = b.runAt, a.endAt = b.endAt
    PROVE  NextFire(a) = NextFire(b)
BY DEF NextFire, Candidate

-----------------------------------------------------------------------------
(* The rows. *)

\* finishRun changes one live row, and only its status.
LEMMA FinishedRows ==
    ASSUME NEW rs \in [Rows -> RowType], NEW r \in Rows, Live(rs, r), NEW st \in Finals,
           NEW rs2, rs2 = FinishedIn(rs, r, st)
    PROVE  /\ rs2 \in [Rows -> RowType]
           /\ \A q \in Rows : /\ Sched(rs2, q) <=> Sched(rs, q)
                              /\ rs2[q].slot = rs[q].slot
                              /\ Live(rs2, q) <=> Live(rs, q) /\ q # r
           /\ Kept(rs, rs2)
<1>1. rs2 \in [Rows -> RowType]
  BY DEF FinishedIn, RowType, Finals
<1>2. /\ \A q \in Rows : q # r => rs2[q] = rs[q]
      /\ rs2[r].status = st /\ rs2[r].trigger = rs[r].trigger /\ rs2[r].slot = rs[r].slot
  BY DEF FinishedIn, RowType
<1>3. ~Live(rs2, r) /\ rs[r].status # "free" /\ rs2[r].status # "free" /\ rs[r].status \notin Finals
  BY <1>2 DEF Live, Finals
<1> QED
  BY <1>1, <1>2, <1>3 DEF Sched, Live, Kept

\* A new row fills a free one.
LEMMA FilledRows ==
    ASSUME NEW rs \in [Rows -> RowType], NEW r \in Fresh(rs),
           NEW st \in Finals \cup {"queued"}, NEW tr \in Triggers, NEW sl \in Instants,
           NEW rs2, rs2 = With(rs, r, st, tr, sl)
    PROVE  /\ r \in Rows /\ rs2 \in [Rows -> RowType]
           /\ \A q \in Rows : q # r => rs2[q] = rs[q]
           /\ rs2[r].status = st /\ rs2[r].trigger = tr /\ rs2[r].slot = sl
           /\ ~Live(rs, r) /\ ~Sched(rs, r)
           /\ Kept(rs, rs2)
<1>1. r \in Rows /\ rs[r].status = "free"
  BY DEF Fresh
<1>2. Row(st, tr, sl) \in RowType
  BY DEF Row, RowType, Triggers
<1>3. /\ rs2 \in [Rows -> RowType] /\ rs2[r] = Row(st, tr, sl)
      /\ \A q \in Rows : q # r => rs2[q] = rs[q]
  BY <1>1, <1>2 DEF With
<1> QED
  BY <1>1, <1>3 DEF Row, Live, Sched, Kept, Finals

-----------------------------------------------------------------------------
(* The automation and its rows. *)

\* What is not active plans nothing.
LEMMA ClosedGood ==
    ASSUME NEW a, NEW rs, Good(a, rs), NEW st \in Closings, NEW why \in Reasons
    PROVE  Good(Closed(a, st, why), rs)
<1> DEFINE b == Closed(a, st, why)
<1>1. a \in AutoType
  BY DEF Good, Typed
<1>2. b \in AutoType /\ b.kind = a.kind /\ b.runAt = a.runAt /\ b.status = st
  BY <1>1 DEF Closed, AutoType, Closings, Reasons, Instants
<1>3. b.status # "active"
  BY <1>2 DEF Closings
<1> QED
  BY <1>2, <1>3 DEF Good, Typed, Planned

\* The next fire counted from now is ahead of every slot claimed so far.
LEMMA RearmedGood ==
    ASSUME now \in Times, NEW a, NEW rs, Typed(a, rs), OneLive(rs), Distinct(rs), Behind(rs),
           a.kind = "once" => \A r \in Rows : Sched(rs, r) => rs[r].slot < a.runAt \/ Live(rs, r)
    PROVE  Good([a EXCEPT !.next = NextFire(a)], rs)
<1> DEFINE b == [a EXCEPT !.next = NextFire(a)]
<1>1. a \in AutoType /\ (a.kind = "once" => a.runAt \in Nat)
  BY DEF Typed
<1>2. /\ NextFire(a) \in Instants
      /\ a.kind # "once" /\ NextFire(a) # None => NextFire(a) \in Nat /\ NextFire(a) > now
      /\ a.kind = "once" => NextFire(a) \in {None, a.runAt}
  BY <1>1, NextFireFacts
<1>3. /\ b \in AutoType /\ b.kind = a.kind /\ b.runAt = a.runAt /\ b.endAt = a.endAt
      /\ b.next = NextFire(a)
  BY <1>1, <1>2 DEF AutoType
<1>4. NextFire(b) = NextFire(a)
  BY <1>3, SameNextFire
<1>5. AheadRecurring(b, rs)
  <2>1. now \in Nat
    BY TimeAssumption DEF Times
  <2> QED BY <1>2, <1>3, <2>1 DEF AheadRecurring, Behind
<1>6. AheadOnce(b, rs)
  BY <1>2, <1>3 DEF AheadOnce
<1>7. Armed(b, rs)
  BY <1>3, <1>4 DEF Armed
<1> QED
  BY <1>1, <1>3, <1>5, <1>6, <1>7 DEF Good, Typed, Planned

\* A run that ends moves its automation on.
LEMMA FinishedGood ==
    ASSUME now \in Times, NEW a, NEW rs, Good(a, rs), NEW r \in Rows, Live(rs, r),
           NEW st \in Finals
    PROVE  /\ Good(After(a, rs[r].trigger), FinishedIn(rs, r, st))
           /\ Kept(rs, FinishedIn(rs, r, st))
<1> DEFINE rs2 == FinishedIn(rs, r, st)
<1>1. /\ rs2 \in [Rows -> RowType]
      /\ \A q \in Rows : /\ Sched(rs2, q) <=> Sched(rs, q)
                         /\ rs2[q].slot = rs[q].slot
                         /\ Live(rs2, q) <=> Live(rs, q) /\ q # r
      /\ Kept(rs, rs2)
  BY FinishedRows DEF Good, Typed
<1> HIDE DEF rs2
<1>2. Typed(a, rs2) /\ OneLive(rs2) /\ Distinct(rs2) /\ Behind(rs2)
  BY <1>1 DEF Good, Typed, OneLive, Distinct, Behind
<1>3. CASE a.status # "active"
  BY <1>1, <1>2, <1>3 DEF After, Good, Planned, rs2
<1>4. CASE a.status = "active" /\ a.kind = "once" /\ rs[r].trigger # "manual"
  <2>1. After(a, rs[r].trigger) = Closed(a, "completed", "onceDone")
    BY <1>4 DEF After
  <2> DEFINE b == Closed(a, "completed", "onceDone")
  <2>2. b \in AutoType /\ b.kind = a.kind /\ b.runAt = a.runAt /\ b.status = "completed"
    BY <1>2 DEF Typed, Closed, AutoType, Instants
  <2>3. Good(b, rs2)
    BY <1>2, <2>2 DEF Good, Typed, Planned
  <2> QED BY <1>1, <2>1, <2>3 DEF rs2
<1>5. CASE a.status = "active" /\ ~(a.kind = "once" /\ rs[r].trigger # "manual")
  <2>1. After(a, rs[r].trigger) = [a EXCEPT !.next = NextFire(a)]
    BY <1>5 DEF After
  <2>2. ASSUME a.kind = "once", NEW q \in Rows, Sched(rs2, q)
        PROVE  rs2[q].slot < a.runAt \/ Live(rs2, q)
    <3>1. Sched(rs, q) /\ rs2[q].slot = rs[q].slot
      BY <1>1, <2>2
    <3>2. rs[q].slot < a.runAt \/ Live(rs, q)
      BY <1>5, <2>2, <3>1 DEF Good, Planned, AheadOnce
    <3>3. q # r
      BY <1>5, <2>2, <3>1 DEF Sched
    <3> QED BY <1>1, <3>1, <3>2, <3>3
  <2>3. Good([a EXCEPT !.next = NextFire(a)], rs2)
    BY <1>2, <2>2, RearmedGood
  <2> QED BY <1>1, <2>1, <2>3 DEF rs2
<1> QED
  BY <1>1, <1>3, <1>4, <1>5 DEF rs2

\* A row that only starts to run, or learns of its input, changes nothing.
LEMMA NotedGood ==
    ASSUME NEW a, NEW rs, Good(a, rs), NEW r \in Rows, Live(rs, r)
    PROVE  /\ Good(a, [rs EXCEPT ![r].status = "running"])
           /\ Kept(rs, [rs EXCEPT ![r].status = "running"])
           /\ Good(a, [rs EXCEPT ![r].linked = TRUE])
           /\ Kept(rs, [rs EXCEPT ![r].linked = TRUE])
<1>1. ASSUME NEW rs2 \in {[rs EXCEPT ![r].status = "running"], [rs EXCEPT ![r].linked = TRUE]}
      PROVE  Good(a, rs2) /\ Kept(rs, rs2)
  <2>0. rs \in [Rows -> RowType]
    BY DEF Good, Typed
  <2>1. rs2 \in [Rows -> RowType]
    <3>1. CASE rs2 = [rs EXCEPT ![r].status = "running"]
      BY <2>0, <3>1 DEF RowType
    <3>2. CASE rs2 = [rs EXCEPT ![r].linked = TRUE]
      BY <2>0, <3>2 DEF RowType
    <3> QED
      BY <1>1, <3>1, <3>2
  <2>2. /\ \A q \in Rows : q # r => rs2[q] = rs[q]
        /\ rs2[r].status \in {"running", rs[r].status}
        /\ rs2[r].trigger = rs[r].trigger /\ rs2[r].slot = rs[r].slot
    BY <2>0, <1>1 DEF RowType
  <2>3. \A q \in Rows : /\ Sched(rs2, q) <=> Sched(rs, q)
                        /\ rs2[q].slot = rs[q].slot
                        /\ Live(rs2, q) <=> Live(rs, q)
    BY <2>2 DEF Live, Sched
  <2>4. Typed(a, rs2) /\ OneLive(rs2) /\ Distinct(rs2) /\ Behind(rs2)
    BY <2>1, <2>3 DEF Good, Typed, OneLive, Distinct, Behind
  <2>5. Planned(a, rs2)
    BY <2>3 DEF Good, Planned, AheadRecurring, AheadOnce, Armed, Busy
  <2>6. Kept(rs, rs2)
    BY <2>2 DEF Kept, Live, Finals
  <2> QED BY <2>4, <2>5, <2>6 DEF Good
<1> QED
  BY <1>1

\* A run the user starts claims no slot.
LEMMA ManualGood ==
    ASSUME now \in Times, NEW a, NEW rs, Good(a, rs), ~Busy(rs), NEW r \in Fresh(rs)
    PROVE  LET rs2 == With(rs, r, "queued", "manual", now)
           IN  r \in Rows /\ Live(rs2, r) /\ Good(a, rs2) /\ Kept(rs, rs2)
<1> DEFINE rs2 == With(rs, r, "queued", "manual", now)
<1>1. /\ r \in Rows /\ rs2 \in [Rows -> RowType]
      /\ \A q \in Rows : q # r => rs2[q] = rs[q]
      /\ rs2[r].status = "queued" /\ rs2[r].trigger = "manual"
      /\ ~Sched(rs, r) /\ Kept(rs, rs2)
  <2>1. "manual" \in Triggers /\ "queued" \in Finals \cup {"queued"} /\ now \in Instants
    BY TimeAssumption DEF Triggers, Times, Instants
  <2> QED BY <2>1, FilledRows DEF Good, Typed
<1> HIDE DEF rs2
<1>2. /\ \A q \in Rows : Sched(rs2, q) <=> Sched(rs, q)
      /\ \A q \in Rows : Sched(rs, q) => rs2[q].slot = rs[q].slot
      /\ \A q \in Rows : Live(rs2, q) <=> q = r
  BY <1>1 DEF Sched, Live, Busy
<1>3. Typed(a, rs2) /\ OneLive(rs2) /\ Distinct(rs2) /\ Behind(rs2)
  BY <1>1, <1>2 DEF Good, Typed, OneLive, Distinct, Behind
<1>4. Planned(a, rs2)
  BY <1>1, <1>2 DEF Good, Planned, AheadRecurring, AheadOnce, Armed, Busy
<1> QED
  BY <1>1, <1>2, <1>3, <1>4 DEF rs2, Good

\* A row that claims a due slot is the only one of that slot: what has claimed
\* one before is behind the next fire, and a once's earlier claim is not live.
LEMMA SlotFilled ==
    ASSUME now \in Times, NEW a, NEW rs, Good(a, rs), Due(a), ~Busy(rs) \/ a.kind # "once",
           NEW r \in Fresh(rs), NEW st \in Finals \cup {"queued"},
           st = "queued" => ~Busy(rs), NEW tr \in {"schedule", "backfill"}
    PROVE  LET rs2 == With(rs, r, st, tr, a.next)
           IN  /\ r \in Rows /\ Typed(a, rs2) /\ OneLive(rs2) /\ Distinct(rs2) /\ Behind(rs2)
               /\ Kept(rs, rs2) /\ rs2[r].status = st /\ rs2[r].slot = a.next
               /\ \A q \in Rows : q # r => rs2[q] = rs[q]
<1> DEFINE rs2 == With(rs, r, st, tr, a.next)
<1>1. a \in AutoType /\ a.status = "active" /\ a.next \in Nat /\ a.next <= now
  BY DEF Good, Typed, Due, AutoType, Instants
<1>2. /\ r \in Rows /\ rs2 \in [Rows -> RowType]
      /\ \A q \in Rows : q # r => rs2[q] = rs[q]
      /\ rs2[r].status = st /\ rs2[r].trigger = tr /\ rs2[r].slot = a.next
      /\ Kept(rs, rs2)
  <2>1. tr \in Triggers /\ a.next \in Instants
    BY <1>1 DEF Triggers, Instants
  <2> QED BY <2>1, FilledRows DEF Good, Typed
<1> HIDE DEF rs2
<1>3. \A q \in Rows : Sched(rs, q) => rs[q].slot \in Nat /\ rs[q].slot < a.next
  <2>1. CASE a.kind # "once"
    BY <1>1, <2>1, NoneAssumption DEF Good, Behind, Planned, AheadRecurring
  <2>2. CASE a.kind = "once"
    <3>1. a.next = a.runAt
      BY <1>1, <2>2, NoneAssumption DEF Good, Planned, AheadOnce
    <3> QED BY <1>1, <2>2, <3>1 DEF Good, Behind, Planned, AheadOnce, Busy
  <2> QED BY <2>1, <2>2
<1>4. Typed(a, rs2) /\ Behind(rs2)
  BY <1>1, <1>2, <1>3 DEF Good, Typed, Behind, Sched
<1>5. OneLive(rs2)
  BY <1>2 DEF Good, OneLive, Live, Busy, Finals
<1>6. Distinct(rs2)
  <2> SUFFICES ASSUME NEW p \in Rows, NEW q \in Rows, p # q, Sched(rs2, p), Sched(rs2, q),
                      rs2[p].slot = rs2[q].slot
               PROVE  FALSE
    BY DEF Distinct
  <2>1. CASE p # r /\ q # r
    BY <1>2, <2>1 DEF Good, Distinct, Sched
  <2>2. CASE p = r
    BY <1>1, <1>2, <1>3, <2>2 DEF Sched
  <2>3. CASE q = r
    BY <1>1, <1>2, <1>3, <2>3 DEF Sched
  <2> QED BY <2>1, <2>2, <2>3
<1> QED
  BY <1>2, <1>4, <1>5, <1>6 DEF rs2

\* A slot that is skipped or missed, of a recurring schedule.
LEMMA PassedGood ==
    ASSUME now \in Times, NEW a, NEW rs, Good(a, rs), Due(a), a.kind # "once",
           NEW r \in Fresh(rs), NEW st \in Finals, NEW tr \in {"schedule", "backfill"}
    PROVE  /\ Good([a EXCEPT !.next = NextFire(a)], With(rs, r, st, tr, a.next))
           /\ Kept(rs, With(rs, r, st, tr, a.next))
<1> DEFINE rs2 == With(rs, r, st, tr, a.next)
<1>1. /\ Typed(a, rs2) /\ OneLive(rs2) /\ Distinct(rs2) /\ Behind(rs2)
      /\ Kept(rs, rs2)
  BY SlotFilled DEF Finals
<1> HIDE DEF rs2
<1>2. Good([a EXCEPT !.next = NextFire(a)], rs2)
  BY <1>1, RearmedGood
<1> QED
  BY <1>1, <1>2 DEF rs2

\* A slot that starts a run.
LEMMA ClaimGood ==
    ASSUME now \in Times, NEW a, NEW rs, Good(a, rs), Due(a), ~Busy(rs),
           NEW r \in Fresh(rs), NEW tr \in {"schedule", "backfill"}
    PROVE  LET rs2 == With(rs, r, "queued", tr, a.next)
           IN  r \in Rows /\ Live(rs2, r) /\ Good(Claimed(a), rs2) /\ Kept(rs, rs2)
<1> DEFINE rs2 == With(rs, r, "queued", tr, a.next)
<1>1. /\ r \in Rows /\ Typed(a, rs2) /\ OneLive(rs2) /\ Distinct(rs2) /\ Behind(rs2)
      /\ Kept(rs, rs2) /\ rs2[r].status = "queued"
      /\ rs2[r].slot = a.next
      /\ \A q \in Rows : q # r => rs2[q] = rs[q]
  BY SlotFilled
<1> HIDE DEF rs2
<1>2. Live(rs2, r) /\ Busy(rs2)
  BY <1>1 DEF Live, Busy
<1>3. a.kind = "once" => \A q \in Rows : Sched(rs2, q) => rs2[q].slot < a.runAt \/ Live(rs2, q)
  <2> SUFFICES ASSUME a.kind = "once", NEW q \in Rows, Sched(rs2, q), q # r
               PROVE  rs2[q].slot < a.runAt
    BY <1>2
  <2>1. Sched(rs, q) /\ ~Live(rs, q) /\ rs2[q].slot = rs[q].slot
    BY <1>1 DEF Sched, Busy
  <2> QED BY <2>1 DEF Due, Good, Planned, AheadOnce
<1>4. CASE a.kind = "cron"
  <2>1. Claimed(a) = [a EXCEPT !.next = NextFire(a)]
    BY <1>4 DEF Claimed
  <2>2. Good([a EXCEPT !.next = NextFire(a)], rs2)
    BY <1>1, <1>3, RearmedGood
  <2> QED BY <1>1, <1>2, <2>1, <2>2 DEF rs2
<1>5. CASE a.kind # "cron"
  <2> DEFINE b == [a EXCEPT !.next = None]
  <2>1. Claimed(a) = b
    BY <1>5 DEF Claimed
  <2>2. b \in AutoType /\ b.kind = a.kind /\ b.runAt = a.runAt /\ b.next = None
    BY <1>1 DEF Typed, AutoType, Instants
  <2> HIDE DEF b
  <2>3. Planned(b, rs2)
    BY <1>2, <1>3, <2>2 DEF Planned, AheadRecurring, AheadOnce, Armed
  <2>4. Good(b, rs2)
    BY <1>1, <2>2, <2>3 DEF Good, Typed
  <2> QED BY <1>1, <1>2, <2>1, <2>4 DEF rs2
<1> QED
  BY <1>4, <1>5

\* A once that comes due behind a live run waits for that run's end.
LEMMA ParkedGood ==
    ASSUME NEW a, NEW rs, Good(a, rs), Busy(rs)
    PROVE  Good([a EXCEPT !.next = None], rs)
<1> DEFINE b == [a EXCEPT !.next = None]
<1>1. /\ b \in AutoType /\ b.kind = a.kind /\ b.runAt = a.runAt /\ b.next = None
      /\ b.status = a.status
  BY DEF Good, Typed, AutoType, Instants
<1> HIDE DEF b
<1>2. Planned(b, rs)
  BY <1>1 DEF Good, Planned, AheadRecurring, AheadOnce, Armed
<1>3. Good(b, rs)
  BY <1>1, <1>2 DEF Good, Typed
<1> QED
  BY <1>3 DEF b

\* nextFireFromNow: an interval's live run is the only reason to have none.
LEMMA FromNowGood ==
    ASSUME now \in Times, NEW a, NEW rs, Typed(a, rs), OneLive(rs), Distinct(rs), Behind(rs),
           a.kind = "once" => \A r \in Rows : Sched(rs, r) => rs[r].slot < a.runAt \/ Live(rs, r)
    PROVE  Good([a EXCEPT !.next = NextFromNow(a, rs)], rs)
<1>1. CASE a.kind = "interval" /\ Busy(rs)
  <2> DEFINE b == [a EXCEPT !.next = None]
  <2>1. /\ b \in AutoType /\ b.kind = a.kind /\ b.runAt = a.runAt /\ b.next = None
    BY DEF Typed, AutoType, Instants
  <2> HIDE DEF b
  <2>2. Planned(b, rs)
    BY <1>1, <2>1 DEF Planned, AheadRecurring, AheadOnce, Armed
  <2>3. Good(b, rs)
    BY <2>1, <2>2 DEF Good, Typed
  <2> QED BY <1>1, <2>3 DEF b, NextFromNow
<1>2. CASE ~(a.kind = "interval" /\ Busy(rs))
  BY <1>2, RearmedGood DEF NextFromNow
<1> QED
  BY <1>1, <1>2

\* A once is activated only with its time ahead.
LEMMA ActivatedGood ==
    ASSUME now \in Times, NEW a, NEW rs, Good(a, rs), CanActivate(a)
    PROVE  Good(Activated(a, rs), rs)
<1> DEFINE b == [a EXCEPT !.status = "active", !.reason = "none"]
<1>1. b \in AutoType /\ b.kind = a.kind /\ b.runAt = a.runAt
  BY DEF Good, Typed, AutoType, Instants
<1>2. Activated(a, rs) = [b EXCEPT !.next = NextFromNow(b, rs)]
  BY DEF Activated
<1> HIDE DEF b
<1>3. Typed(b, rs) /\ OneLive(rs) /\ Distinct(rs) /\ Behind(rs)
  BY <1>1 DEF Good, Typed
<1>4. b.kind = "once" => \A r \in Rows : Sched(rs, r) => rs[r].slot < b.runAt
  <2>1. now \in Nat
    BY TimeAssumption DEF Times
  <2> QED BY <1>1, <1>3, <2>1 DEF CanActivate, Typed, Behind
<1> QED
  BY <1>2, <1>3, <1>4, FromNowGood

\* An edit counts from now.
LEMMA RetimedGood ==
    ASSUME now \in Times, NEW a, NEW rs, Typed(a, rs), OneLive(rs), Distinct(rs), Behind(rs),
           a.status = "active" /\ a.kind = "once" =>
               \A r \in Rows : Sched(rs, r) => rs[r].slot < a.runAt \/ Live(rs, r)
    PROVE  Good(Retimed(a, rs), rs)
<1>1. CASE a.status = "active"
  BY <1>1, FromNowGood DEF Retimed
<1>2. CASE a.status # "active"
  BY <1>2 DEF Retimed, Good, Planned
<1> QED
  BY <1>1, <1>2

LEMMA RescheduledGood ==
    ASSUME now \in Times, NEW a, NEW rs, Good(a, rs), NEW k \in Kinds, NEW t \in Times,
           k = "once" => t > now
    PROVE  Good(Retimed([a EXCEPT !.kind = k, !.runAt = IF k = "once" THEN t ELSE None], rs), rs)
<1> DEFINE b == [a EXCEPT !.kind = k, !.runAt = IF k = "once" THEN t ELSE None]
<1>1. now \in Nat /\ t \in Nat /\ k \in {"cron", "interval", "once", "manual"}
  BY TimeAssumption, ShapeAssumption DEF Times
<1>2. b \in AutoType /\ b.kind = k /\ (k = "once" => b.runAt = t)
  BY <1>1 DEF Good, Typed, AutoType, Instants
<1> HIDE DEF b
<1>3. Typed(b, rs) /\ OneLive(rs) /\ Distinct(rs) /\ Behind(rs)
  BY <1>1, <1>2 DEF Good, Typed
<1>4. b.kind = "once" => \A r \in Rows : Sched(rs, r) => rs[r].slot < b.runAt
  BY <1>1, <1>2, <1>3 DEF Behind
<1>5. Good(Retimed(b, rs), rs)
  BY <1>3, <1>4, RetimedGood
<1> QED
  BY <1>5 DEF b

LEMMA EndChangedGood ==
    ASSUME now \in Times, NEW a, NEW rs, Good(a, rs), NEW e \in EndTimes
    PROVE  Good(Retimed([a EXCEPT !.endAt = e], rs), rs)
<1> DEFINE b == [a EXCEPT !.endAt = e]
<1>1. e \in Instants
  BY TimeAssumption, ShapeAssumption DEF Times, Instants
<1>2. b \in AutoType /\ b.kind = a.kind /\ b.runAt = a.runAt /\ b.status = a.status
  BY <1>1 DEF Good, Typed, AutoType
<1> HIDE DEF b
<1>3. Typed(b, rs) /\ OneLive(rs) /\ Distinct(rs) /\ Behind(rs)
  BY <1>2 DEF Good, Typed
<1>4. b.status = "active" /\ b.kind = "once" =>
          \A r \in Rows : Sched(rs, r) => rs[r].slot < b.runAt \/ Live(rs, r)
  BY <1>2 DEF Good, Planned, AheadOnce
<1>5. Good(Retimed(b, rs), rs)
  BY <1>3, <1>4, RetimedGood
<1> QED
  BY <1>5 DEF b

\* A lost session ends the one run it held, whether or not it pauses the
\* automation first.
LEMMA LostGood ==
    ASSUME now \in Times, NEW a, NEW rs, Good(a, rs)
    PROVE  Good(LostAuto(a, rs), LostRuns(rs)) /\ Kept(rs, LostRuns(rs))
<1> DEFINE left == IF a.bound /\ a.status # "deleted" THEN Closed(a, "paused", "none") ELSE a
<1>1. Good(left, rs)
  BY ClosedGood DEF Closings, Reasons
<1>2. rs \in [Rows -> RowType]
  BY DEF Good, Typed
<1>3. CASE Doomed(rs) = {}
  <2>1. LostRuns(rs) = rs /\ LostAuto(a, rs) = left
    BY <1>2, <1>3 DEF LostRuns, LostAuto
  <2> QED BY <1>1, <2>1 DEF Kept
<1>4. CASE Doomed(rs) # {}
  <2> DEFINE d == CHOOSE r \in Doomed(rs) : TRUE
  <2>1. d \in Doomed(rs)
    BY <1>4
  <2>2. d \in Rows /\ Live(rs, d)
    BY <2>1 DEF Doomed
  <2>3. \A q \in Doomed(rs) : q = d
    BY <2>2 DEF Doomed, Good, OneLive
  <2>4. LostAuto(a, rs) = After(left, rs[d].trigger)
    BY <1>4 DEF LostAuto
  <2> HIDE DEF d, left
  <2>5. LostRuns(rs) = FinishedIn(rs, d, "cancelled")
    BY <1>2, <2>1, <2>2, <2>3 DEF LostRuns, FinishedIn
  <2>6. "cancelled" \in Finals
    BY DEF Finals
  <2> QED BY <1>1, <2>2, <2>4, <2>5, <2>6, FinishedGood
<1> QED
  BY <1>3, <1>4

\* What is restored is activated again, or left alone.
LEMMA RestoredGood ==
    ASSUME now \in Times, NEW a, NEW rs, Good(a, rs)
    PROVE  Good(Restored(a, rs), rs)
BY ActivatedGood DEF Restored

-----------------------------------------------------------------------------
(* The steps of a run's start. *)

TaskStates == {"none", "check", "open", "record", "script"}
Tasks == [Rows -> TaskStates]

\* What a handler leaves behind.
Result(before) == Good(auto', runs') /\ Kept(before, runs') /\ task' \in Tasks

LEMMA EnterGood ==
    ASSUME now \in Times, task \in Tasks, NEW a, NEW rs, Good(a, rs), NEW r \in Rows,
           Live(rs, r), Enter(a, rs, r)
    PROVE  Result(rs)
<1>1. CASE a.bound /\ ~session
  <2> DEFINE left == After(a, rs[r].trigger)
             rs2 == FinishedIn(rs, r, "done")
  <2>1. Good(left, rs2) /\ Kept(rs, rs2)
    BY FinishedGood DEF Finals
  <2> HIDE DEF left, rs2
  <2>2. Good(Closed(left, "paused", "none"), rs2)
    BY <2>1, ClosedGood DEF Closings, Reasons
  <2>3. /\ auto' = Closed(left, "paused", "none") /\ runs' = rs2
        /\ task' = [task EXCEPT ![r] = "none"]
    BY <1>1 DEF Enter, left, rs2
  <2> QED BY <2>1, <2>2, <2>3 DEF Result, Tasks, TaskStates
<1>2. CASE ~(a.bound /\ ~session)
  <2>1. auto' = a /\ runs' = rs /\ task' = [task EXCEPT ![r] = "open"]
    BY <1>2 DEF Enter
  <2> QED BY <2>1 DEF Result, Tasks, TaskStates, Kept
<1> QED
  BY <1>1, <1>2

LEMMA BeginGood ==
    ASSUME now \in Times, task \in Tasks, NEW a, NEW rs, Good(a, rs), NEW r \in Rows,
           Live(rs, r), Begin(a, rs, r)
    PROVE  Result(rs)
<1>1. CASE auto' = a /\ runs' = rs /\ UNCHANGED task
  BY <1>1 DEF Result, Kept
<1>2. CASE SettleIn(a, rs, r, "done") /\ UNCHANGED task
  BY <1>2, FinishedGood DEF SettleIn, Result, Finals
<1>3. CASE auto' = a /\ runs' = rs /\ task' = [task EXCEPT ![r] = "check"]
  BY <1>3 DEF Result, Tasks, TaskStates, Kept
<1>4. CASE Enter(a, rs, r)
  BY <1>4, EnterGood
<1> QED
  BY <1>1, <1>2, <1>3, <1>4 DEF Begin

\* Kept passes from a step of a handler to the next.
LEMMA KeptOn ==
    ASSUME NEW before, NEW between, NEW after, Kept(before, between), Kept(between, after)
    PROVE  Kept(before, after)
BY DEF Kept

LEMMA FireGood ==
    ASSUME now \in Times, task \in Tasks, NEW a, NEW rs, Good(a, rs), Due(a),
           NEW tr \in {"schedule", "backfill"}, Fire(a, rs, tr)
    PROVE  Result(rs)
<1>1. CASE /\ Overlapping(rs) /\ a.kind = "once"
           /\ auto' = [a EXCEPT !.next = None] /\ runs' = rs /\ UNCHANGED task
  BY <1>1, ParkedGood DEF Overlapping, Result, Kept
<1>2. CASE /\ Overlapping(rs) /\ a.kind # "once"
           /\ \E r \in Fresh(rs) : runs' = With(rs, r, "skipped", tr, a.next)
           /\ auto' = [a EXCEPT !.next = NextFire(a)] /\ UNCHANGED task
  BY <1>2, PassedGood DEF Result, Finals
<1>3. CASE /\ ~Overlapping(rs)
           /\ \E r \in Fresh(rs) : Begin(Claimed(a), With(rs, r, "queued", tr, a.next), r)
  <2>1. PICK r \in Fresh(rs) : Begin(Claimed(a), With(rs, r, "queued", tr, a.next), r)
    BY <1>3
  <2> DEFINE rs2 == With(rs, r, "queued", tr, a.next)
  <2>2. r \in Rows /\ Live(rs2, r) /\ Good(Claimed(a), rs2) /\ Kept(rs, rs2)
    BY <1>3, ClaimGood DEF Overlapping
  <2>3. Begin(Claimed(a), rs2, r)
    BY <2>1
  <2> HIDE DEF rs2
  <2>4. Result(rs2)
    BY <2>2, <2>3, BeginGood
  <2> QED BY <2>2, <2>4, KeptOn DEF Result
<1> QED
  BY <1>1, <1>2, <1>3 DEF Fire

LEMMA RecoverGood ==
    ASSUME now \in Times, task \in Tasks, NEW a, NEW rs, Good(a, rs), RecoverSchedule(a, rs)
    PROVE  Result(rs)
<1>1. CASE a.status # "active"
  BY <1>1 DEF RecoverSchedule, Result, Kept
<1>2. CASE a.status = "active" /\ PastEnd(a)
  <2>1. auto' = Closed(a, "completed", "none") /\ runs' = rs /\ UNCHANGED task
    BY <1>2 DEF RecoverSchedule
  <2>2. Good(Closed(a, "completed", "none"), rs)
    BY ClosedGood DEF Closings, Reasons
  <2> QED BY <2>1, <2>2 DEF Result, Kept
<1>3. CASE a.status = "active" /\ ~PastEnd(a) /\ Due(a) /\ a.kind = "once"
  BY <1>3, FireGood DEF RecoverSchedule
<1>4. CASE a.status = "active" /\ ~PastEnd(a) /\ Due(a) /\ a.kind # "once"
  <2>1. PICK r \in Fresh(rs) : runs' = With(rs, r, "missed", "schedule", a.next)
    BY <1>4 DEF RecoverSchedule
  <2>2. auto' = [a EXCEPT !.next = NextFire(a)] /\ UNCHANGED task
    BY <1>4 DEF RecoverSchedule
  <2> QED BY <1>4, <2>1, <2>2, PassedGood DEF Result, Finals
<1>5. CASE a.status = "active" /\ ~PastEnd(a) /\ ~Due(a)
  <2>1. /\ auto' = IF a.next = None /\ a.kind # "manual" /\ ~Busy(rs)
                   THEN [a EXCEPT !.next = NextFire(a)] ELSE a
        /\ runs' = rs /\ UNCHANGED task
    BY <1>5 DEF RecoverSchedule
  <2>2. Good([a EXCEPT !.next = NextFire(a)], rs)
    BY <1>5, RearmedGood DEF Good, Planned, AheadOnce
  <2> QED BY <2>1, <2>2 DEF Result, Kept
<1> QED
  BY <1>1, <1>2, <1>3, <1>4, <1>5

-----------------------------------------------------------------------------
(* The inductive invariant. *)

InputStates == {"none", "waiting", "parked", "executing", "settled", "committed", "gone"}
Rest ==
    /\ now \in Times /\ input \in [Rows -> InputStates] /\ session \in BOOLEAN
    /\ task \in Tasks
    /\ rebuild \in [at : Instants, listed : BOOLEAN]
    /\ deleting \in BOOLEAN /\ resetting \in BOOLEAN
    /\ phase \in {"down", "booted", "running", "stopping"}
    /\ tries \in Nat /\ ops \in Nat /\ faults \in Nat
Inv == Rest /\ Good(auto, runs)

\* A step of the program: the clock stands, the rows and the plan stay good.
StepGood == now' = now /\ Result(runs)

LEMMA SettleGood ==
    ASSUME Inv, NEW r \in Rows, NEW st \in Finals, Settle(r, st), UNCHANGED now, task' \in Tasks
    PROVE  StepGood
BY FinishedGood DEF Inv, Rest, Settle, SettleIn, StepGood, Result, Kept

\* What settles a live run, or leaves everything alone.
LEMMA SettledGood ==
    ASSUME Inv, NEW r \in Rows, NEW st \in Finals, Live(runs, r), SettleIn(auto, runs, r, st),
           UNCHANGED now, task' \in Tasks
    PROVE  StepGood
BY FinishedGood DEF Inv, Rest, SettleIn, StepGood, Result

LEMMA StillGood ==
    ASSUME Inv, UNCHANGED <<now, auto, runs>>, task' \in Tasks
    PROVE  StepGood
BY DEF Inv, StepGood, Result, Kept

\* One of its rows starts to run or learns of its input.
LEMMA NoteGood ==
    ASSUME Inv, NEW r \in Rows, Live(runs, r), UNCHANGED <<now, auto>>, task' \in Tasks,
           \/ runs' = [runs EXCEPT ![r].status = "running"]
           \/ runs' = [runs EXCEPT ![r].linked = TRUE]
    PROVE  StepGood
<1>0. Good(auto, runs)
  BY DEF Inv
<1>1. Good(auto, runs') /\ Kept(runs, runs')
  <2>1. CASE runs' = [runs EXCEPT ![r].status = "running"]
    BY <1>0, <2>1, NotedGood
  <2>2. CASE runs' = [runs EXCEPT ![r].linked = TRUE]
    BY <1>0, <2>2, NotedGood
  <2> QED BY <2>1, <2>2
<1> QED
  BY <1>1 DEF StepGood, Result

\* A change of the plan alone.
LEMMA PlanGood ==
    ASSUME Inv, Good(auto', runs), UNCHANGED <<now, runs>>, task' \in Tasks
    PROVE  StepGood
BY DEF StepGood, Result, Kept

-----------------------------------------------------------------------------
(* The steps. *)

LEMMA TickStep == Inv /\ Tick => StepGood
<1> SUFFICES ASSUME Inv, Tick PROVE StepGood
  OBVIOUS
<1>0. now \in Times /\ task \in Tasks /\ Good(auto, runs) /\ now' = now
  BY DEF Inv, Rest, Tick
<1>1. CASE auto' = Closed(auto, "completed", "none") /\ UNCHANGED <<runs, task>>
  <2>1. Good(auto', runs)
    BY <1>0, <1>1, ClosedGood DEF Closings, Reasons
  <2> QED BY <1>0, <1>1, <2>1, PlanGood
<1>2. CASE Due(auto) /\ ~PastEnd(auto) /\ Fire(auto, runs, "schedule")
  BY <1>0, <1>2, FireGood DEF StepGood
<1> QED
  BY <1>1, <1>2 DEF Tick

LEMMA StartStep == Inv /\ Start => StepGood
<1> SUFFICES ASSUME Inv, Start PROVE StepGood
  OBVIOUS
<1>0. now \in Times /\ task \in Tasks /\ Good(auto, runs) /\ now' = now
  BY DEF Inv, Rest, Start
<1>1. CASE RecoverSchedule(auto, runs)
  BY <1>0, <1>1, RecoverGood DEF StepGood
<1>2. ASSUME NEW r \in Rows, Live(runs, r),
             RecoverSchedule(After(auto, runs[r].trigger), FinishedIn(runs, r, "done"))
      PROVE  StepGood
  <2> DEFINE a == After(auto, runs[r].trigger)
             rs == FinishedIn(runs, r, "done")
  <2>1. Good(a, rs) /\ Kept(runs, rs)
    BY <1>0, <1>2, FinishedGood DEF Finals
  <2>2. RecoverSchedule(a, rs)
    BY <1>2
  <2> HIDE DEF a, rs
  <2>3. Result(rs)
    BY <1>0, <2>1, <2>2, RecoverGood
  <2> QED BY <1>0, <2>1, <2>3, KeptOn DEF Result, StepGood
<1> QED
  BY <1>1, <1>2 DEF Start

LEMMA RunSteps == ASSUME NEW r \in Rows PROVE Inv /\ RunStep(r) => StepGood
<1> SUFFICES ASSUME Inv, RunStep(r) PROVE StepGood
  OBVIOUS
<1>0. now \in Times /\ task \in Tasks /\ Good(auto, runs)
  BY DEF Inv, Rest
<1>1. CASE CheckDone(r)
  <2>0. UNCHANGED now
    BY <1>1 DEF CheckDone
  <2>1. CASE task' = [task EXCEPT ![r] = "none"] /\ UNCHANGED <<auto, runs>>
    BY <1>0, <2>0, <2>1, StillGood DEF Tasks, TaskStates
  <2>2. ASSUME NEW s \in {"skipped", "done"}, Live(runs, r), SettleIn(auto, runs, r, s),
               task' = [task EXCEPT ![r] = "none"]
        PROVE  StepGood
    BY <1>0, <2>0, <2>2, SettledGood DEF Tasks, TaskStates, Finals
  <2>3. CASE Live(runs, r) /\ Enter(auto, runs, r)
    BY <1>0, <2>0, <2>3, EnterGood DEF StepGood
  <2> QED BY <1>1, <2>1, <2>2, <2>3 DEF CheckDone
<1>2. CASE OpenDone(r)
  <2>0. UNCHANGED now /\ task' \in Tasks
    BY <1>0, <1>2 DEF OpenDone, Tasks, TaskStates
  <2>1. CASE UNCHANGED <<auto, runs>>
    BY <2>0, <2>1, StillGood
  <2>2. CASE Live(runs, r) /\ SettleIn(auto, runs, r, "done")
    BY <2>0, <2>2, SettledGood DEF Finals
  <2>3. CASE Live(runs, r) /\ runs' = [runs EXCEPT ![r].status = "running"] /\ UNCHANGED auto
    BY <2>0, <2>3, NoteGood
  <2> QED BY <1>2, <2>1, <2>2, <2>3 DEF OpenDone
<1>3. CASE RecordInput(r)
  <2>0. UNCHANGED <<now, auto>> /\ task' \in Tasks
    BY <1>0, <1>3 DEF RecordInput, Tasks, TaskStates
  <2>1. CASE Live(runs, r)
    BY <1>3, <2>0, <2>1, NoteGood DEF RecordInput
  <2>2. CASE ~Live(runs, r)
    BY <1>3, <2>0, <2>2, StillGood DEF RecordInput
  <2> QED BY <2>1, <2>2
<1>4. CASE ScriptDone(r)
  BY <1>0, <1>4, SettleGood DEF ScriptDone, Tasks, TaskStates, Finals
<1> QED
  BY <1>1, <1>2, <1>3, <1>4 DEF RunStep

LEMMA LaneSteps == ASSUME NEW r \in Rows PROVE Inv /\ (Take(r) \/ TurnStep(r)) => StepGood
<1> SUFFICES ASSUME Inv, Take(r) \/ TurnStep(r) PROVE StepGood
  OBVIOUS
<1>0. UNCHANGED now /\ task' \in Tasks
  BY DEF Inv, Rest, Take, TurnStep, TurnEnds, CommitTurn, TurnConsumed, LateSettle, TurnRetries,
         RetriesExhausted, laneFrame
<1>1. CASE Take(r)
  <2>1. CASE Live(runs, r)
    BY <1>0, <1>1, <2>1, NoteGood DEF Take
  <2>2. CASE ~Live(runs, r)
    BY <1>0, <1>1, <2>2, StillGood DEF Take
  <2> QED BY <2>1, <2>2
<1>2. CASE TurnEnds(r)
  BY <1>0, <1>2, SettleGood DEF TurnEnds, Finals
<1>3. CASE CommitTurn(r) \/ TurnConsumed(r) \/ TurnRetries(r)
  BY <1>0, <1>3, StillGood DEF CommitTurn, TurnConsumed, TurnRetries
<1>4. CASE LateSettle(r) \/ RetriesExhausted(r)
  BY <1>0, <1>4, SettleGood DEF LateSettle, RetriesExhausted, Finals
<1> QED
  BY <1>1, <1>2, <1>3, <1>4 DEF TurnStep

LEMMA EditSteps == Inv /\ (Pause \/ Complete \/ Resume \/ Reschedule \/ ChangeEnd) => StepGood
<1> SUFFICES ASSUME Inv, Pause \/ Complete \/ Resume \/ Reschedule \/ ChangeEnd PROVE StepGood
  OBVIOUS
<1>0. UNCHANGED <<now, runs>> /\ task' \in Tasks /\ now \in Times /\ Good(auto, runs)
  BY DEF Inv, Rest, Pause, Complete, Resume, Reschedule, ChangeEnd
<1>1. CASE Pause \/ Complete
  <2>1. Good(auto', runs)
    BY <1>0, <1>1, ClosedGood DEF Pause, Complete, Closings, Reasons
  <2> QED BY <1>0, <2>1, PlanGood
<1>2. CASE Resume
  <2>1. Good(auto', runs)
    BY <1>0, <1>2, ActivatedGood DEF Resume
  <2> QED BY <1>0, <2>1, PlanGood
<1>3. CASE Reschedule
  <2>1. PICK k \in Kinds, t \in Times :
            /\ k = "once" => t > now
            /\ auto' = Retimed([auto EXCEPT !.kind = k,
                                            !.runAt = IF k = "once" THEN t ELSE None], runs)
    BY <1>3 DEF Reschedule
  <2>2. Good(auto', runs)
    BY <1>0, <2>1, RescheduledGood
  <2> QED BY <1>0, <2>2, PlanGood
<1>4. CASE ChangeEnd
  <2>1. Good(auto', runs)
    BY <1>0, <1>4, EndChangedGood DEF ChangeEnd
  <2> QED BY <1>0, <2>1, PlanGood
<1> QED
  BY <1>1, <1>2, <1>3, <1>4

LEMMA RunNowStep == Inv /\ RunNow => StepGood
<1> SUFFICES ASSUME Inv, RunNow PROVE StepGood
  OBVIOUS
<1>0. now \in Times /\ task \in Tasks /\ Good(auto, runs) /\ now' = now /\ ~Busy(runs)
  BY DEF Inv, Rest, RunNow
<1>1. PICK r \in Fresh(runs) : Begin(auto, With(runs, r, "queued", "manual", now), r)
  BY DEF RunNow
<1> DEFINE rs == With(runs, r, "queued", "manual", now)
<1>2. r \in Rows /\ Live(rs, r) /\ Good(auto, rs) /\ Kept(runs, rs)
  BY <1>0, ManualGood
<1>3. Begin(auto, rs, r)
  BY <1>1
<1> HIDE DEF rs
<1>4. Result(rs)
  BY <1>0, <1>2, <1>3, BeginGood
<1> QED
  BY <1>0, <1>2, <1>4, KeptOn DEF Result, StepGood

LEMMA StopRunSteps ==
    ASSUME NEW r \in Rows
    PROVE  Inv /\ (CancelRun(r) \/ Withdraw(r)) => StepGood
<1> SUFFICES ASSUME Inv, CancelRun(r) \/ Withdraw(r) PROVE StepGood
  OBVIOUS
<1>0. UNCHANGED now /\ task' \in Tasks
  BY DEF Inv, Rest, CancelRun, Withdraw
<1>1. CASE CancelRun(r)
  BY <1>0, <1>1, SettledGood DEF CancelRun, Cancelled, Finals
<1>2. CASE Withdraw(r)
  BY <1>0, <1>2, SettleGood DEF Withdraw, Finals
<1> QED
  BY <1>1, <1>2

LEMMA DisposalSteps == Inv /\ (DeleteBegin \/ SessionDeleted \/ ResetBegin) => StepGood
<1> SUFFICES ASSUME Inv, DeleteBegin \/ SessionDeleted \/ ResetBegin PROVE StepGood
  OBVIOUS
<1>0. UNCHANGED now /\ task' \in Tasks /\ now \in Times /\ Good(auto, runs)
  BY DEF Inv, Rest, DeleteBegin, SessionDeleted, ResetBegin, awaits
<1>1. CASE UNCHANGED <<auto, runs>>
  BY <1>0, <1>1, StillGood
<1>2. CASE \E r \in Rows : Live(runs, r) /\ SettleIn(auto, runs, r, "cancelled")
  BY <1>0, <1>2, SettledGood DEF Finals
<1>3. CASE SessionDeleted
  BY <1>0, <1>3, LostGood DEF SessionDeleted, LoseSession, StepGood, Result
<1>4. ASSUME DeleteBegin PROVE UNCHANGED <<auto, runs>> \/
          \E r \in Rows : Live(runs, r) /\ SettleIn(auto, runs, r, "cancelled")
  BY <1>4 DEF DeleteBegin, Cancelled
<1>5. ASSUME ResetBegin PROVE UNCHANGED <<auto, runs>> \/
          \E r \in Rows : Live(runs, r) /\ SettleIn(auto, runs, r, "cancelled")
  BY <1>5 DEF ResetBegin
<1> QED
  BY <1>1, <1>2, <1>3, <1>4, <1>5

LEMMA SuspendStep == Inv /\ Suspend => StepGood
<1> SUFFICES ASSUME Inv, Suspend PROVE StepGood
  OBVIOUS
<1>0. UNCHANGED now /\ task' \in Tasks /\ now \in Times /\ Good(auto, runs)
  BY DEF Inv, Rest, Suspend
<1> DEFINE ended == IF Busy(runs) THEN After(auto, runs[LiveRun(runs)].trigger) ELSE auto
<1>1. auto' = IF auto.status = "active" THEN Closed(ended, "paused", "suspended") ELSE ended
  BY DEF Suspend
<1>2. Good(ended, runs') /\ Kept(runs, runs')
  <2>1. CASE ~Busy(runs)
    <3>1. UNCHANGED runs
      BY <2>1 DEF Suspend, Busy
    <3>2. ended = auto
      BY <2>1
    <3> QED BY <1>0, <3>1, <3>2 DEF Kept
  <2>2. CASE Busy(runs)
    <3>1. PICK r \in Rows : Live(runs, r) /\ runs' = FinishedIn(runs, r, "cancelled")
      BY <2>2 DEF Suspend
    <3>2. LiveRun(runs) = r
      <4>1. LiveRun(runs) \in Rows /\ Live(runs, LiveRun(runs))
        BY <2>2 DEF LiveRun, Busy
      <4> QED BY <1>0, <3>1, <4>1 DEF Good, OneLive
    <3>3. ended = After(auto, runs[r].trigger)
      BY <2>2, <3>2
    <3> HIDE DEF ended
    <3> QED BY <1>0, <3>1, <3>3, FinishedGood DEF Finals
  <2> QED BY <2>1, <2>2
<1> HIDE DEF ended
<1>3. Good(auto', runs')
  BY <1>1, <1>2, ClosedGood DEF Closings, Reasons
<1> QED
  BY <1>0, <1>2, <1>3 DEF StepGood, Result

LEMMA RestoreStep == Inv /\ Restore => StepGood
<1> SUFFICES ASSUME Inv, Restore PROVE StepGood
  OBVIOUS
<1>0. UNCHANGED now /\ task' \in Tasks /\ now \in Times /\ Good(auto, runs)
  BY DEF Inv, Rest, Restore
<1>1. CASE auto' = Restored(auto, runs) /\ UNCHANGED runs
  <2>1. Good(auto', runs)
    BY <1>0, <1>1, RestoredGood
  <2> QED BY <1>0, <1>1, <2>1, PlanGood
<1>2. CASE runs' = LostRuns(runs) /\ auto' = Restored(LostAuto(auto, runs), LostRuns(runs))
  <2> DEFINE a == LostAuto(auto, runs)
             rs == LostRuns(runs)
  <2>1. Good(a, rs) /\ Kept(runs, rs)
    BY <1>0, LostGood
  <2>2. runs' = rs /\ auto' = Restored(a, rs)
    BY <1>2
  <2> HIDE DEF a, rs
  <2>3. Good(Restored(a, rs), rs)
    BY <1>0, <2>1, RestoredGood
  <2> QED BY <1>0, <2>1, <2>2, <2>3 DEF StepGood, Result
<1> QED
  BY <1>1, <1>2 DEF Restore, LoseSession

LEMMA ServiceSteps == Inv /\ (ResetEnd \/ Stop \/ Crash \/ Exit \/ Boot) => StepGood
<1> SUFFICES ASSUME Inv, ResetEnd \/ Stop \/ Crash \/ Exit \/ Boot PROVE StepGood
  OBVIOUS
<1>1. UNCHANGED <<now, auto, runs>>
  BY DEF ResetEnd, Stop, Crash, Exit, Boot
<1>2. task' \in Tasks
  <2>1. task \in Tasks
    BY DEF Inv, Rest
  <2>2. CASE ResetEnd \/ Boot
    BY <2>1, <2>2 DEF ResetEnd, Boot
  <2>3. CASE Stop
    BY <2>3 DEF Stop, Tasks, TaskStates
  <2>4. CASE Crash \/ Exit
    BY <2>4 DEF Crash, Exit, Lost, Tasks, TaskStates
  <2> QED BY <2>2, <2>3, <2>4
<1> QED
  BY <1>1, <1>2, StillGood

\* The rows go with the automation.
LEMMA DeleteEndStep ==
    Inv /\ DeleteEnd => /\ now' = now /\ Good(auto', runs')
                        /\ \A r \in Rows : runs[r].status \in Finals =>
                               runs'[r].status \in {runs[r].status, "deleted"}
<1> SUFFICES ASSUME Inv, DeleteEnd
             PROVE  /\ now' = now /\ Good(auto', runs')
                    /\ \A r \in Rows : runs[r].status \in Finals =>
                           runs'[r].status \in {runs[r].status, "deleted"}
  OBVIOUS
<1>0. now' = now /\ now \in Times /\ Good(auto, runs) /\ runs \in [Rows -> RowType]
  BY DEF DeleteEnd, Inv, Rest, Good, Typed
<1>1. runs' = [r \in Rows |-> IF runs[r].status = "free" THEN runs[r]
                              ELSE [runs[r] EXCEPT !.status = "deleted"]]
  BY DEF DeleteEnd
<1>2. runs' \in [Rows -> RowType]
  BY <1>0, <1>1 DEF RowType
<1>3. \A r \in Rows : /\ runs'[r].status \in {"free", "deleted"}
                      /\ runs'[r].status = "free" <=> runs[r].status = "free"
                      /\ runs'[r].trigger = runs[r].trigger /\ runs'[r].slot = runs[r].slot
  BY <1>0, <1>1 DEF RowType
<1>4. \A r \in Rows : ~Live(runs', r) /\ (Sched(runs', r) <=> Sched(runs, r))
  BY <1>3 DEF Live, Sched
<1>5. auto' = Closed(auto, "deleted", "none") /\ Good(auto', runs)
  BY <1>0, ClosedGood DEF DeleteEnd, Closings, Reasons
<1>6. auto'.status # "active"
  BY <1>0, <1>5 DEF Closed, Good, Typed, AutoType
<1>7. Good(auto', runs')
  BY <1>2, <1>3, <1>4, <1>5, <1>6 DEF Good, Typed, OneLive, Distinct, Behind, Planned
<1> QED
  BY <1>0, <1>3, <1>7 DEF Finals

\* As time passes a schedule without a next time gets none: the slots of a
\* cron only move on, an interval's only move away.
LEMMA AdvanceStep == Inv /\ Advance => Good(auto, runs)'
<1> SUFFICES ASSUME Inv, Advance PROVE Good(auto, runs)'
  OBVIOUS
<1>0. /\ now \in Nat /\ now' = now + 1 /\ now \in Times /\ now' \in Times
      /\ auto' = auto /\ runs' = runs /\ Good(auto, runs) /\ auto \in AutoType
  BY TimeAssumption DEF Advance, Inv, Rest, Times, Good, Typed
<1>1. ASSUME NextFire(auto) = None, auto.status = "active" PROVE (NextFire(auto) = None)'
  <2>1. Candidate(auto) = None \/ (auto.endAt # None /\ Candidate(auto) > auto.endAt)
    BY <1>1 DEF NextFire
  <2>2. CASE auto.kind = "cron"
    <3>1. Candidate(auto) = NextSlot[now] /\ Candidate(auto)' = NextSlot[now']
      BY <1>0, <2>2 DEF Candidate
    <3>2. NextSlot[now] \in Nat /\ NextSlot[now'] \in Nat /\ NextSlot[now] <= NextSlot[now']
      BY <1>0, TimeAssumption
    <3>3. auto.endAt \in Nat /\ Candidate(auto)' > auto.endAt
      BY <1>0, <2>1, <3>1, <3>2, NoneAssumption DEF AutoType, Instants
    <3> QED BY <1>0, <3>3, NoneAssumption DEF NextFire
  <2>3. CASE auto.kind = "interval"
    <3>1. Candidate(auto) = now + Interval /\ Candidate(auto)' = now' + Interval
      BY <1>0, <2>3 DEF Candidate
    <3>2. Interval \in Nat
      BY TimeAssumption
    <3>3. auto.endAt \in Nat /\ Candidate(auto)' > auto.endAt
      BY <1>0, <2>1, <3>1, <3>2, NoneAssumption DEF AutoType, Instants
    <3> QED BY <1>0, <3>3, NoneAssumption DEF NextFire
  <2>4. CASE auto.kind \in {"once", "manual"}
    <3>1. Candidate(auto)' = Candidate(auto)
      BY <1>0, <2>4 DEF Candidate
    <3> QED BY <1>0, <1>1, <3>1 DEF NextFire
  <2> QED BY <1>0, <2>2, <2>3, <2>4 DEF AutoType
<1>2. Typed(auto, runs)' /\ OneLive(runs)' /\ Distinct(runs)'
  BY <1>0 DEF Good, Typed, OneLive, Distinct, Live, Sched, Rows, AutoType, RowType
<1>3. Behind(runs)'
  BY <1>0 DEF Good, Behind, Sched, Rows
<1>4. (auto.status = "active")' => AheadRecurring(auto, runs)' /\ AheadOnce(auto, runs)'
  BY <1>0 DEF Good, Planned, AheadRecurring, AheadOnce, Live, Sched, Rows
<1>5. (auto.status = "active")' => Armed(auto, runs)'
  <2> SUFFICES ASSUME auto.status = "active", ~Busy(runs), auto.next = None
               PROVE  (NextFire(auto) = None)'
    BY <1>0 DEF Armed, Busy, Live, Rows
  <2>1. NextFire(auto) = None
    BY <1>0 DEF Good, Planned, Armed
  <2> QED BY <1>1, <2>1
<1> QED
  BY <1>2, <1>3, <1>4, <1>5 DEF Good, Planned

\* While the clock stands, good is good.
LEMMA FrameGood == now' = now /\ Good(auto', runs') => Good(auto, runs)'
<1> SUFFICES ASSUME now' = now, Good(auto', runs') PROVE Good(auto, runs)'
  OBVIOUS
<1>1. (NextFire(auto))' = NextFire(auto')
  BY DEF NextFire, Candidate
<1>2. Typed(auto, runs)' /\ OneLive(runs)' /\ Distinct(runs)' /\ Behind(runs)'
  BY DEF Good, Typed, OneLive, Distinct, Behind, Live, Sched, Rows, AutoType, RowType
<1>3. AheadRecurring(auto, runs)' <=> AheadRecurring(auto', runs')
  BY DEF AheadRecurring, Sched, Rows
<1>4. AheadOnce(auto, runs)' <=> AheadOnce(auto', runs')
  BY DEF AheadOnce, Sched, Rows, Live
<1>5. Armed(auto, runs)' <=> Armed(auto', runs')
  BY <1>1 DEF Armed, Busy, Live, Rows
<1>6. Planned(auto, runs)'
  BY <1>3, <1>4, <1>5 DEF Good, Planned
<1> QED
  BY <1>2, <1>6 DEF Good

LEMMA InitInv == Init => Inv
<1> SUFFICES ASSUME Init PROVE Inv
  OBVIOUS
<1>1. PICK k \in Kinds, e \in EndTimes \ {0}, s \in Shapes, t \in Times \ {0} :
          auto = [[agent |-> s.agent, bound |-> s.bound, check |-> s.check,
                   kind |-> k, runAt |-> IF k = "once" THEN t ELSE None, endAt |-> e,
                   status |-> "active", reason |-> "none", next |-> None]
                  EXCEPT !.next = NextFire([agent |-> s.agent, bound |-> s.bound,
                   check |-> s.check, kind |-> k, runAt |-> IF k = "once" THEN t ELSE None,
                   endAt |-> e, status |-> "active", reason |-> "none", next |-> None])]
  BY DEF Init
<1> DEFINE a == [agent |-> s.agent, bound |-> s.bound, check |-> s.check,
                 kind |-> k, runAt |-> IF k = "once" THEN t ELSE None, endAt |-> e,
                 status |-> "active", reason |-> "none", next |-> None]
<1>2. k \in {"cron", "interval", "once", "manual"} /\ e \in Instants /\ t \in Nat
      /\ s \in [agent : BOOLEAN, bound : BOOLEAN, check : BOOLEAN]
  BY TimeAssumption, ShapeAssumption DEF Times, Instants
<1>3. a \in AutoType /\ (a.kind = "once" => a.runAt \in Nat)
  BY <1>2 DEF AutoType, Instants
<1>4. auto = [a EXCEPT !.next = NextFire(a)]
  BY <1>1
<1> HIDE DEF a
<1>5. now \in Times /\ runs = [r \in Rows |-> Row("free", "none", None)]
  BY TimeAssumption DEF Init, Times
<1>6. runs \in [Rows -> RowType]
  BY <1>5 DEF Row, RowType, Instants
<1>7. \A r \in Rows : ~Live(runs, r) /\ ~Sched(runs, r)
  BY <1>5 DEF Row, Live, Sched
<1>8. Good(auto, runs)
  <2>1. Typed(a, runs) /\ OneLive(runs) /\ Distinct(runs) /\ Behind(runs)
    BY <1>3, <1>6, <1>7 DEF Typed, OneLive, Distinct, Behind
  <2> QED BY <1>4, <1>5, <1>7, <2>1, RearmedGood
<1>9. Rest
  BY <1>5, TimeAssumption DEF Init, Rest, Tasks, TaskStates, InputStates, Quiet, Instants
<1> QED
  BY <1>8, <1>9 DEF Inv

\* The inputs, the awaits and the counters stay what they are.
LEMMA RestStep == Inv /\ Next /\ now' \in Times /\ task' \in Tasks => Rest'
<1> SUFFICES ASSUME Rest, Next, now' \in Times, task' \in Tasks PROVE Rest'
  BY DEF Inv
<1> DEFINE Rebuilds == [at : Instants, listed : BOOLEAN]
           Others == /\ session' \in BOOLEAN /\ rebuild' \in Rebuilds
                     /\ deleting' \in BOOLEAN /\ resetting' \in BOOLEAN
                     /\ phase' \in {"down", "booted", "running", "stopping"}
                     /\ tries' \in Nat /\ ops' \in Nat /\ faults' \in Nat
           Goal == input' \in [Rows -> InputStates] /\ Others
<1>0. SUFFICES Goal
  BY DEF Rest
<1>1. now \in Instants /\ Quiet \in Rebuilds
  BY TimeAssumption DEF Rest, Times, Instants, Quiet
<1>2. ASSUME UNCHANGED <<session, awaits, phase, tries>>, ops' \in {ops, ops + 1}, faults' = faults
      PROVE  Others
  BY <1>2 DEF Rest, awaits
<1>3. ASSUME NEW r \in Rows, Withdrawn(r) PROVE input' \in [Rows -> InputStates]
  BY <1>3 DEF Withdrawn, Rest, InputStates
<1>4. ASSUME LoseSession PROVE input' \in [Rows -> InputStates] /\ session' \in BOOLEAN
  BY <1>4 DEF LoseSession, Rest, InputStates
<1>5. ASSUME Lost PROVE /\ input' \in [Rows -> InputStates]
                        /\ rebuild' = Quiet /\ deleting' = FALSE /\ resetting' = FALSE
                        /\ phase' = "down"
  <2>1. \A r \in Rows : (CASE input[r] \in {"executing", "settled"} -> "waiting"
                           [] input[r] = "committed" -> "gone"
                           [] OTHER -> input[r]) \in InputStates
    BY DEF Rest, InputStates
  <2> QED BY <1>5, <2>1 DEF Lost
<1>6. CASE Advance \/ Tick \/ Pause \/ Complete \/ Resume \/ Reschedule \/ ChangeEnd \/ RunNow
  <2>1. /\ UNCHANGED <<input, session, awaits, phase, tries>> /\ ops' \in {ops, ops + 1}
        /\ faults' = faults
    BY <1>6 DEF Advance, Tick, Pause, Complete, Resume, Reschedule, ChangeEnd, RunNow, Does,
                awaits, budget
  <2> QED BY <1>2, <2>1 DEF Rest
<1>7. ASSUME NEW r \in Rows, RunStep(r) PROVE Goal
  <2>1. UNCHANGED <<session, awaits, phase, tries, budget>>
    BY <1>7 DEF RunStep, CheckDone, OpenDone, RecordInput, ScriptDone
  <2>2. input' \in [Rows -> InputStates]
    <3>1. CASE RecordInput(r)
      BY <1>3, <3>1 DEF RecordInput, Rest
    <3>2. CASE CheckDone(r) \/ OpenDone(r) \/ ScriptDone(r)
      BY <3>2 DEF CheckDone, OpenDone, ScriptDone, Rest, InputStates
    <3> QED BY <1>7, <3>1, <3>2 DEF RunStep
  <2> QED BY <1>2, <2>1, <2>2 DEF budget
<1>8. ASSUME NEW r \in Rows, Take(r) \/ TurnStep(r) PROVE Goal
  <2>1. UNCHANGED <<session, awaits, phase, budget>> /\ tries' \in {tries, tries + 1}
    BY <1>8 DEF Take, TurnStep, TurnEnds, CommitTurn, TurnConsumed, LateSettle, TurnRetries,
                RetriesExhausted, laneFrame
  <2>2. \E i \in InputStates : input' = [input EXCEPT ![r] = i]
    BY <1>8 DEF Take, TurnStep, TurnEnds, CommitTurn, TurnConsumed, LateSettle, TurnRetries,
                RetriesExhausted, InputStates
  <2> QED BY <2>1, <2>2 DEF Rest, awaits, budget
<1>9. ASSUME NEW r \in Rows, CancelRun(r) \/ Withdraw(r) PROVE Goal
  <2>1. UNCHANGED <<session, awaits, phase, tries, faults>> /\ ops' = ops + 1
    BY <1>9 DEF CancelRun, Withdraw, Does
  <2>2. input' \in [Rows -> InputStates]
    BY <1>3, <1>9 DEF CancelRun, Cancelled, Withdraw, Rest, InputStates
  <2> QED BY <1>2, <2>1, <2>2
<1>10. CASE DeleteBegin \/ DeleteEnd
  <2>1. input' \in [Rows -> InputStates]
    BY <1>3, <1>10 DEF DeleteBegin, DeleteEnd, Cancelled, Rest
  <2>2. /\ UNCHANGED <<session, rebuild, resetting, phase, tries, faults>>
        /\ deleting' \in BOOLEAN /\ ops' \in {ops, ops + 1}
    BY <1>10 DEF DeleteBegin, DeleteEnd, Does, budget
  <2> QED BY <2>1, <2>2 DEF Rest
<1>11. CASE SessionDeleted
  BY <1>4, <1>11 DEF SessionDeleted, Does, awaits, Rest
<1>12. CASE Suspend
  <2>1. input' \in [Rows -> InputStates]
    BY <1>3, <1>12 DEF Suspend, Rest
  <2>2. rebuild' \in Rebuilds
    BY <1>1, <1>12 DEF Suspend
  <2> QED BY <1>12, <2>1, <2>2 DEF Suspend, Does, Rest
<1>13. CASE Restore
  <2>1. input' \in [Rows -> InputStates] /\ session' \in BOOLEAN
    BY <1>4, <1>13 DEF Restore, Rest
  <2> QED BY <1>1, <1>13, <2>1 DEF Restore, budget, Rest
<1>14. CASE ResetBegin \/ ResetEnd
  <2>1. input' \in [Rows -> InputStates]
    BY <1>14 DEF ResetBegin, ResetEnd, Rest, InputStates
  <2>2. resetting' \in BOOLEAN
    BY <1>14 DEF ResetBegin, ResetEnd
  <2>3. /\ UNCHANGED <<session, rebuild, deleting, phase, tries, faults>>
        /\ ops' \in {ops, ops + 1}
    BY <1>14 DEF ResetBegin, ResetEnd, Does, budget
  <2> QED BY <2>1, <2>2, <2>3 DEF Rest
<1>15. CASE Stop
  BY <1>15 DEF Stop, awaits, Rest
<1>16. CASE Crash \/ Exit
  <2>1. /\ input' \in [Rows -> InputStates]
        /\ rebuild' \in Rebuilds /\ deleting' \in BOOLEAN /\ resetting' \in BOOLEAN
        /\ phase' \in {"down", "booted", "running", "stopping"}
    BY <1>1, <1>5, <1>16 DEF Crash, Exit
  <2>2. UNCHANGED <<session, tries, ops>> /\ faults' \in {faults, faults + 1}
    BY <1>16 DEF Crash, Exit, budget
  <2> QED BY <2>1, <2>2 DEF Rest
<1>17. CASE Boot \/ Start
  BY <1>17 DEF Boot, Start, awaits, budget, Rest
<1> QED
  BY <1>6, <1>7, <1>8, <1>9, <1>10, <1>11, <1>12, <1>13, <1>14, <1>15, <1>16, <1>17
  DEF Next, UserStep, AwaitEnds, ServiceStep

\* Every step but the clock's and the deletion's.
LEMMA NextGood == Inv /\ Next => Advance \/ DeleteEnd \/ StepGood
BY TickStep, StartStep, RunSteps, LaneSteps, EditSteps, RunNowStep, StopRunSteps, DisposalSteps,
   SuspendStep, RestoreStep, ServiceSteps
DEF Next, UserStep, AwaitEnds, ServiceStep

LEMMA NextInv == Inv /\ [Next]_vars => Inv'
<1> SUFFICES ASSUME Inv, [Next]_vars PROVE Inv'
  OBVIOUS
<1>1. CASE Advance
  <2>1. now' \in Times /\ task' \in Tasks /\ Next
    BY <1>1, TimeAssumption DEF Advance, Inv, Rest, Times, Next
  <2> QED BY <1>1, <2>1, AdvanceStep, RestStep DEF Inv
<1>2. CASE DeleteEnd
  <2>1. now' \in Times /\ task' \in Tasks /\ Next
    BY <1>2 DEF DeleteEnd, Inv, Rest, Next, AwaitEnds
  <2> QED BY <1>2, <2>1, DeleteEndStep, FrameGood, RestStep DEF Inv
<1>3. CASE Next /\ StepGood
  <2>1. now' \in Times /\ task' \in Tasks /\ now' = now /\ Good(auto', runs')
    BY <1>3 DEF StepGood, Result, Inv, Rest
  <2> QED BY <1>3, <2>1, FrameGood, RestStep DEF Inv
<1>4. CASE UNCHANGED vars
  <2>1. now' = now /\ Good(auto', runs')
    BY <1>4 DEF vars, Inv
  <2>2. Rest'
    BY <1>4 DEF vars, awaits, budget, Inv, Rest, Rows, Times
  <2> QED BY <2>1, <2>2, FrameGood DEF Inv
<1> QED
  BY <1>1, <1>2, <1>3, <1>4, NextGood

-----------------------------------------------------------------------------
(* What it shows. *)

THEOREM Invariance == Spec => []Inv
BY InitInv, NextInv, PTL DEF Spec

\* The type invariant.
THEOREM Types == Spec => []TypeOK
<1>1. Inv => TypeOK
  BY DEF Inv, Rest, Good, Typed, TypeOK, Tasks, TaskStates, InputStates
<1> QED
  BY <1>1, Invariance, PTL

\* However many rows, edits, crashes and users: never two live runs at once.
THEOREM OneRunAtATime == Spec => []OneLiveRun
<1>1. Inv => OneLiveRun
  BY DEF Inv, Good, OneLive, OneLiveRun
<1> QED
  BY <1>1, Invariance, PTL

\* No slot of any cron, of any interval or of a once is claimed twice.
THEOREM ClaimsAreUnique == Spec => []SlotsAreClaimedOnce
<1>1. Inv => SlotsAreClaimedOnce
  BY DEF Inv, Good, Distinct, SlotsAreClaimedOnce, Scheduled, Sched
<1> QED
  BY <1>1, Invariance, PTL

\* An active automation is always armed, has a live run, or is past its times.
THEOREM SchedulesGoOn == Spec => []ScheduleNeverStalls
<1>1. Inv => ScheduleNeverStalls
  BY DEF Inv, Good, Planned, Armed, ScheduleNeverStalls
<1> QED
  BY <1>1, Invariance, PTL

\* The first end of a run is its last, whoever reports later.
THEOREM EndsAreFinal == Spec => EndedRunsStayEnded
<1> DEFINE Ends == \A r \in Rows : runs[r].status \in Finals =>
                       runs'[r].status \in {runs[r].status, "deleted"}
<1>1. Inv /\ [Next]_vars => [Ends]_vars
  <2> SUFFICES ASSUME Inv, Next PROVE Ends
    OBVIOUS
  <2>1. CASE Advance
    BY <2>1 DEF Advance
  <2>2. CASE DeleteEnd
    BY <2>2, DeleteEndStep
  <2>3. CASE StepGood
    BY <2>3 DEF StepGood, Result, Kept
  <2> QED BY <2>1, <2>2, <2>3, NextGood
<1> QED
  BY <1>1, Invariance, PTL DEF Spec, EndedRunsStayEnded

-----------------------------------------------------------------------------
(* Where no session is reset, a live run is always on its way: prepared by *)
(* the scheduler, or with its input in its lane.  (MCAutomationsReset.cfg  *)
(* shows what a reset does.)                                               *)

\* What the status of a run, its input, its task and the service's phase have
\* to do with each other: an unused row has neither input nor task; an input
\* whose outcome is reported belongs to a run that has ended; a run records an
\* input that the lane still has; and while the scheduler runs, a live run is
\* under way or in its lane.
Alive == {"queued", "running"}
Out == {"none", "gone"}
Fits(status, in, doing, ph) ==
    /\ status = "free" => in = "none" /\ doing = "none"
    /\ in = "settled" => status \notin Alive
    /\ doing = "record" /\ status \in Alive => in \notin Out
    /\ ph = "running" /\ status \in Alive => doing # "none" \/ in \notin Out
AllFit(rs, ph) == \A r \in Rows : Fits(rs[r].status, input[r], task[r], ph)
LaneInv == AllFit(runs, phase) /\ resetting = FALSE

\* What a step leaves behind.
FitAfter == \A r \in Rows : Fits(runs'[r].status, input'[r], task'[r], phase')

-----------------------------------------------------------------------------
(* What the operators do to the statuses. *)

LEMMA FinishedStatus ==
    ASSUME NEW rs \in [Rows -> RowType], NEW r \in Rows, NEW st
    PROVE  \A q \in Rows :
               FinishedIn(rs, r, st)[q].status = IF q = r THEN st ELSE rs[q].status
BY DEF FinishedIn, RowType

LEMMA SettleStatus ==
    ASSUME runs \in [Rows -> RowType], NEW r \in Rows, NEW st \in Finals, Settle(r, st)
    PROVE  /\ \A q \in Rows : q # r => runs'[q].status = runs[q].status
           /\ runs'[r].status \notin Alive
           /\ runs'[r].status = "free" => runs[r].status = "free"
<1>1. CASE Live(runs, r)
  <2>1. runs' = FinishedIn(runs, r, st)
    BY <1>1 DEF Settle, SettleIn
  <2>2. st \notin Alive /\ st # "free"
    BY DEF Finals, Alive
  <2> QED BY <2>1, <2>2, FinishedStatus
<1>2. CASE ~Live(runs, r)
  BY <1>2 DEF Settle, Live, Alive
<1> QED
  BY <1>1, <1>2

LEMMA FilledStatus ==
    ASSUME NEW rs \in [Rows -> RowType], NEW r \in Fresh(rs), NEW st, NEW tr, NEW sl
    PROVE  /\ r \in Rows /\ rs[r].status = "free"
           /\ \A q \in Rows : With(rs, r, st, tr, sl)[q].status = IF q = r THEN st ELSE rs[q].status
BY DEF Fresh, With, Row

\* A run that is started is being prepared, has ended already, or waits for
\* the restart.
Started(rs, r) ==
    /\ \A q \in Rows : q # r => runs'[q].status = rs[q].status /\ task'[q] = task[q]
    /\ \/ runs'[r].status = rs[r].status /\ task'[r] \in {"check", "open"}
       \/ runs'[r].status = rs[r].status /\ task'[r] = task[r] /\ phase = "stopping"
       \/ runs'[r].status = "done" /\ task'[r] \in {task[r], "none"}

LEMMA EnterStarts ==
    ASSUME task \in Tasks, NEW a, NEW rs \in [Rows -> RowType], NEW r \in Rows, Enter(a, rs, r)
    PROVE  Started(rs, r)
<1>1. CASE a.bound /\ ~session
  <2>1. runs' = FinishedIn(rs, r, "done") /\ task' = [task EXCEPT ![r] = "none"]
    BY <1>1 DEF Enter
  <2> QED BY <2>1, FinishedStatus DEF Started, Tasks
<1>2. CASE ~(a.bound /\ ~session)
  BY <1>2 DEF Enter, Started, Tasks
<1> QED
  BY <1>1, <1>2

LEMMA BeginStarts ==
    ASSUME task \in Tasks, NEW a, NEW rs \in [Rows -> RowType], NEW r \in Rows, Begin(a, rs, r)
    PROVE  Started(rs, r)
<1>1. CASE phase = "stopping" /\ runs' = rs /\ UNCHANGED task
  BY <1>1 DEF Started
<1>2. CASE SettleIn(a, rs, r, "done") /\ UNCHANGED task
  BY <1>2, FinishedStatus DEF SettleIn, Started
<1>3. CASE runs' = rs /\ task' = [task EXCEPT ![r] = "check"]
  BY <1>3 DEF Started, Tasks
<1>4. CASE Enter(a, rs, r)
  BY <1>4, EnterStarts
<1> QED
  BY <1>1, <1>2, <1>3, <1>4 DEF Begin

\* A fresh row takes part in nothing, so what is started in it fits.
LEMMA FreshStarts ==
    ASSUME task \in Tasks, NEW a, NEW rs \in [Rows -> RowType], NEW ph, AllFit(rs, ph),
           phase = "stopping" => ph # "running",
           NEW r \in Fresh(rs), NEW tr \in Triggers, NEW sl \in Instants,
           Begin(a, With(rs, r, "queued", tr, sl), r)
    PROVE  \A q \in Rows : Fits(runs'[q].status, input[q], task'[q], ph)
<1> DEFINE rs2 == With(rs, r, "queued", tr, sl)
<1>1. r \in Rows /\ rs2 \in [Rows -> RowType]
  BY FilledRows
<1>2. /\ rs[r].status = "free"
      /\ \A q \in Rows : rs2[q].status = IF q = r THEN "queued" ELSE rs[q].status
  BY FilledStatus
<1> HIDE DEF rs2
<1>3. Started(rs2, r)
  BY <1>1, BeginStarts DEF rs2
<1>4. input[r] = "none" /\ task[r] = "none"
  BY <1>1, <1>2 DEF AllFit, Fits
<1>5. ASSUME NEW q \in Rows, q # r PROVE Fits(runs'[q].status, input[q], task'[q], ph)
  BY <1>2, <1>3, <1>5 DEF Started, AllFit
<1>6. Fits(runs'[r].status, input[r], task'[r], ph)
  BY <1>1, <1>2, <1>3, <1>4 DEF Started, Fits, Alive
<1> QED
  BY <1>5, <1>6

\* A fresh row that holds a run which never starts.
LEMMA FreshNoted ==
    ASSUME NEW rs \in [Rows -> RowType], NEW ph, AllFit(rs, ph), NEW r \in Fresh(rs),
           NEW st \in Finals, NEW tr, NEW sl,
           runs' = With(rs, r, st, tr, sl), UNCHANGED task
    PROVE  \A q \in Rows : Fits(runs'[q].status, input[q], task'[q], ph)
<1>1. /\ r \in Rows /\ rs[r].status = "free"
      /\ \A q \in Rows : runs'[q].status = IF q = r THEN st ELSE rs[q].status
  BY FilledStatus
<1>2. st \notin Alive /\ st # "free" /\ input[r] = "none" /\ task[r] = "none"
  BY <1>1 DEF Finals, Alive, AllFit, Fits
<1> QED
  BY <1>1, <1>2 DEF AllFit, Fits

LEMMA FireFits ==
    ASSUME task \in Tasks, NEW a \in AutoType, NEW rs \in [Rows -> RowType], NEW ph, AllFit(rs, ph),
           phase = "stopping" => ph # "running",
           NEW tr \in {"schedule", "backfill"}, Fire(a, rs, tr)
    PROVE  \A q \in Rows : Fits(runs'[q].status, input[q], task'[q], ph)
<1>1. a.next \in Instants /\ tr \in Triggers /\ "skipped" \in Finals
  BY DEF AutoType, Triggers, Finals
<1>2. CASE runs' = rs /\ UNCHANGED task
  BY <1>2 DEF AllFit
<1>3. CASE (\E r \in Fresh(rs) : runs' = With(rs, r, "skipped", tr, a.next)) /\ UNCHANGED task
  BY <1>1, <1>3, FreshNoted
<1>4. CASE \E r \in Fresh(rs) : Begin(Claimed(a), With(rs, r, "queued", tr, a.next), r)
  BY <1>1, <1>4, FreshStarts
<1> QED
  BY <1>2, <1>3, <1>4 DEF Fire

LEMMA RecoverFits ==
    ASSUME task \in Tasks, NEW a \in AutoType, NEW rs \in [Rows -> RowType], AllFit(rs, "running"),
           phase = "booted", RecoverSchedule(a, rs)
    PROVE  \A q \in Rows : Fits(runs'[q].status, input[q], task'[q], "running")
<1>1. CASE runs' = rs /\ UNCHANGED task
  BY <1>1 DEF AllFit
<1>2. CASE Fire(a, rs, "backfill")
  BY <1>2, FireFits
<1>3. CASE (\E r \in Fresh(rs) : runs' = With(rs, r, "missed", "schedule", a.next))
           /\ UNCHANGED task
  BY <1>3, FreshNoted DEF Finals
<1> QED
  BY <1>1, <1>2, <1>3 DEF RecoverSchedule

-----------------------------------------------------------------------------
(* The steps. *)

\* What the invariant of AutomationsProofs says of the rows.
LEMMA Known ==
    ASSUME Inv
    PROVE  /\ runs \in [Rows -> RowType] /\ auto \in AutoType /\ task \in Tasks
           /\ input \in [Rows -> InputStates]
           /\ \A q, r \in Rows : Live(runs, q) /\ Live(runs, r) => q = r
BY DEF Inv, Good, Typed, Rest, OneLive

\* Only the run itself is touched.
LEMMA OneRow ==
    ASSUME LaneInv, phase' = phase, NEW r \in Rows,
           \A q \in Rows : q # r => /\ runs'[q].status = runs[q].status
                                     /\ input'[q] = input[q] /\ task'[q] = task[q],
           Fits(runs'[r].status, input'[r], task'[r], phase)
    PROVE  FitAfter
BY DEF LaneInv, AllFit, FitAfter

LEMMA TickFits == Inv /\ LaneInv /\ Tick => FitAfter
<1> SUFFICES ASSUME Inv, LaneInv, Tick PROVE FitAfter
  OBVIOUS
<1>1. input' = input /\ phase' = phase /\ phase = "running"
  BY DEF Tick
<1>2. CASE UNCHANGED <<runs, task>>
  BY <1>1, <1>2 DEF LaneInv, AllFit, FitAfter
<1>3. CASE Fire(auto, runs, "schedule")
  BY <1>1, <1>3, Known, FireFits DEF LaneInv, FitAfter
<1> QED
  BY <1>2, <1>3 DEF Tick

\* The recovery lets a run live only if its lane still has its input.
LEMMA StartFits == Inv /\ LaneInv /\ Start => FitAfter
<1> SUFFICES ASSUME Inv, LaneInv, Start PROVE FitAfter
  OBVIOUS
<1>1. input' = input /\ phase' = "running" /\ phase = "booted"
  BY DEF Start
<1>2. \A r \in Rows : Survives(r) => input[r] \notin Out
  BY DEF Survives, Pending, Out
<1>3. CASE (\A r \in Rows : Live(runs, r) => Survives(r)) /\ RecoverSchedule(auto, runs)
  <2>1. AllFit(runs, "running")
    BY <1>2, <1>3 DEF LaneInv, AllFit, Fits, Live, Alive
  <2> QED BY <1>1, <1>3, <2>1, Known, RecoverFits DEF FitAfter
<1>4. ASSUME NEW r \in Rows, Live(runs, r),
             RecoverSchedule(After(auto, runs[r].trigger), FinishedIn(runs, r, "done"))
      PROVE  FitAfter
  <2> DEFINE a == After(auto, runs[r].trigger)
             rs == FinishedIn(runs, r, "done")
  <2>1. Good(a, rs) /\ now \in Times
    BY <1>4, FinishedGood DEF Inv, Rest, Finals
  <2>2. \A q \in Rows : rs[q].status = IF q = r THEN "done" ELSE runs[q].status
    BY Known, FinishedStatus
  <2>3. AllFit(rs, "running")
    <3>1. \A q \in Rows : q # r => ~Live(runs, q)
      BY <1>4, Known
    <3> QED BY <1>4, <2>2, <3>1 DEF LaneInv, AllFit, Fits, Live, Alive
  <2>4. a \in AutoType /\ rs \in [Rows -> RowType]
    BY <2>1 DEF Good, Typed
  <2> HIDE DEF a, rs
  <2> QED BY <1>1, <1>4, <2>3, <2>4, Known, RecoverFits DEF a, rs, FitAfter
<1> QED
  BY <1>3, <1>4 DEF Start

LEMMA RunFits == ASSUME NEW r \in Rows PROVE Inv /\ LaneInv /\ RunStep(r) => FitAfter
<1> SUFFICES ASSUME Inv, LaneInv, RunStep(r) PROVE FitAfter
  OBVIOUS
<1>1. phase' = phase /\ Fits(runs[r].status, input[r], task[r], phase)
  BY DEF RunStep, CheckDone, OpenDone, RecordInput, ScriptDone, LaneInv, AllFit
<1>2. task \in Tasks /\ input \in [Rows -> InputStates] /\ runs \in [Rows -> RowType]
  BY Known
<1>3. task[r] # "none" => runs[r].status # "free"
  BY <1>1 DEF Fits
<1>4. CASE CheckDone(r)
  <2>1. input' = input /\ runs[r].status # "free" /\ task[r] = "check"
    BY <1>3, <1>4 DEF CheckDone
  <2>2. CASE ~Live(runs, r) /\ task' = [task EXCEPT ![r] = "none"] /\ UNCHANGED runs
    BY <1>1, <1>2, <2>1, <2>2, OneRow DEF Live, Fits, Alive, Tasks
  <2>3. ASSUME NEW s \in {"skipped", "done"}, SettleIn(auto, runs, r, s),
               task' = [task EXCEPT ![r] = "none"]
        PROVE  FitAfter
    <3>1. \A q \in Rows : runs'[q].status = IF q = r THEN s ELSE runs[q].status
      BY <1>2, <2>3, FinishedStatus DEF SettleIn
    <3> QED BY <1>1, <1>2, <2>1, <2>3, <3>1, OneRow DEF Fits, Alive, Tasks
  <2>4. CASE Enter(auto, runs, r)
    <3>1. Started(runs, r)
      BY <1>2, <2>4, EnterStarts
    <3>2. CASE runs'[r].status = runs[r].status /\ task'[r] \in {"check", "open"}
      BY <1>1, <2>1, <3>1, <3>2, OneRow DEF Started, Fits
    <3>3. CASE runs'[r].status = runs[r].status /\ task'[r] = task[r]
      BY <1>1, <2>1, <3>1, <3>3, OneRow DEF Started
    <3>4. CASE runs'[r].status = "done"
      BY <1>1, <2>1, <3>1, <3>4, OneRow DEF Started, Fits, Alive
    <3> QED BY <3>1, <3>2, <3>3, <3>4 DEF Started
  <2> QED BY <1>4, <2>2, <2>3, <2>4 DEF CheckDone
<1>5. CASE OpenDone(r)
  <2>1. runs[r].status # "free" /\ task[r] = "open"
    BY <1>3, <1>5 DEF OpenDone
  <2>2. CASE ~Live(runs, r) /\ task' = [task EXCEPT ![r] = "none"] /\ UNCHANGED <<runs, input>>
    BY <1>1, <1>2, <2>1, <2>2, OneRow DEF Live, Fits, Alive, Tasks
  <2>3. CASE SettleIn(auto, runs, r, "done") /\ task' = [task EXCEPT ![r] = "none"]
             /\ UNCHANGED input
    <3>1. \A q \in Rows : runs'[q].status = IF q = r THEN "done" ELSE runs[q].status
      BY <1>2, <2>3, FinishedStatus DEF SettleIn
    <3> QED BY <1>1, <1>2, <2>1, <2>3, <3>1, OneRow DEF Fits, Alive, Tasks
  <2>4. CASE /\ Live(runs, r) /\ runs' = [runs EXCEPT ![r].status = "running"]
             /\ task' = [task EXCEPT ![r] = "script"] /\ UNCHANGED input
    <3>1. \A q \in Rows : runs'[q].status = IF q = r THEN "running" ELSE runs[q].status
      BY <1>2, <2>4 DEF RowType
    <3> QED BY <1>1, <1>2, <2>1, <2>4, <3>1, OneRow DEF Live, Fits, Alive, Tasks
  <2>5. CASE /\ input' = [input EXCEPT ![r] = "waiting"]
             /\ task' = [task EXCEPT ![r] = "record"] /\ UNCHANGED runs
    BY <1>1, <1>2, <2>1, <2>5, OneRow DEF Fits, Alive, Out, Tasks
  <2> QED BY <1>5, <2>2, <2>3, <2>4, <2>5 DEF OpenDone
<1>6. CASE RecordInput(r)
  <2>1. runs[r].status # "free" /\ task' = [task EXCEPT ![r] = "none"] /\ task[r] = "record"
    BY <1>3, <1>6 DEF RecordInput
  <2>2. CASE Live(runs, r) /\ runs' = [runs EXCEPT ![r].linked = TRUE] /\ UNCHANGED input
    <3>1. \A q \in Rows : runs'[q].status = runs[q].status
      BY <1>2, <2>2 DEF RowType
    <3> QED BY <1>1, <1>2, <2>1, <2>2, <3>1, OneRow DEF Live, Fits, Alive, Tasks
  <2>3. CASE ~Live(runs, r) /\ Withdrawn(r) /\ UNCHANGED runs
    <3>1. (\A q \in Rows : q # r => input'[q] = input[q]) /\ input'[r] \in {input[r], "gone"}
      BY <1>2, <2>3 DEF Withdrawn
    <3> QED BY <1>1, <1>2, <2>1, <2>3, <3>1, OneRow DEF Live, Fits, Alive, Tasks
  <2> QED BY <1>6, <2>2, <2>3 DEF RecordInput
<1>7. CASE ScriptDone(r)
  <2>1. /\ runs[r].status # "free" /\ task' = [task EXCEPT ![r] = "none"] /\ input' = input
        /\ Settle(r, "done")
    BY <1>3, <1>7 DEF ScriptDone
  <2> QED BY <1>1, <1>2, <2>1, SettleStatus, OneRow DEF Fits, Tasks, Finals
<1> QED
  BY <1>4, <1>5, <1>6, <1>7 DEF RunStep

\* An input leaves its lane with the run that it is of.
LEMMA LaneFits ==
    ASSUME NEW r \in Rows PROVE Inv /\ LaneInv /\ (Take(r) \/ TurnStep(r)) => FitAfter
<1> SUFFICES ASSUME Inv, LaneInv, Take(r) \/ TurnStep(r) PROVE FitAfter
  OBVIOUS
<1>1. /\ phase' = phase /\ task' = task /\ Fits(runs[r].status, input[r], task[r], phase)
  BY DEF Take, TurnStep, TurnEnds, CommitTurn, TurnConsumed, LateSettle, TurnRetries,
         RetriesExhausted, laneFrame, LaneInv, AllFit
<1>2. input \in [Rows -> InputStates] /\ runs \in [Rows -> RowType]
  BY Known
<1>3. input[r] # "none" /\ runs[r].status # "free"
  BY <1>1 DEF Take, TurnStep, TurnEnds, CommitTurn, TurnConsumed, LateSettle, TurnRetries,
              RetriesExhausted, Withdrawable, Fits
<1>4. ASSUME NEW i, input' = [input EXCEPT ![r] = i], NEW st \in Finals, Settle(r, st)
      PROVE  FitAfter
  BY <1>1, <1>2, <1>3, <1>4, SettleStatus, OneRow DEF Fits
<1>5. ASSUME NEW i, i \notin Out, i # "settled", input' = [input EXCEPT ![r] = i], UNCHANGED runs
      PROVE  FitAfter
  BY <1>1, <1>2, <1>3, <1>5, OneRow DEF Fits
<1>6. CASE Take(r)
  <2>1. CASE /\ Live(runs, r) /\ input' = [input EXCEPT ![r] = "executing"]
             /\ runs' = [runs EXCEPT ![r].status = "running"]
    <3>1. \A q \in Rows : runs'[q].status = IF q = r THEN "running" ELSE runs[q].status
      BY <1>2, <2>1 DEF RowType
    <3> QED BY <1>1, <1>2, <1>3, <2>1, <3>1, OneRow DEF Fits, Out
  <2>2. CASE ~Live(runs, r) /\ input' = [input EXCEPT ![r] = "gone"] /\ UNCHANGED runs
    BY <1>1, <1>2, <1>3, <2>2, OneRow DEF Live, Fits, Alive
  <2> QED BY <1>6, <2>1, <2>2 DEF Take
<1>7. CASE TurnEnds(r) \/ LateSettle(r) \/ RetriesExhausted(r)
  BY <1>4, <1>7 DEF TurnEnds, LateSettle, RetriesExhausted, Finals
<1>8. CASE CommitTurn(r)
  BY <1>1, <1>2, <1>3, <1>8, OneRow DEF CommitTurn, Fits
<1>9. CASE TurnConsumed(r) \/ TurnRetries(r)
  BY <1>5, <1>9 DEF TurnConsumed, TurnRetries, Out
<1> QED
  BY <1>6, <1>7, <1>8, <1>9 DEF TurnStep

\* A run that is cancelled takes its input along, or leaves it to its lane.
LEMMA CancelledFits ==
    ASSUME Inv, LaneInv, NEW r \in Rows, runs[r].status # "free", phase' = phase, task' = task,
           SettleIn(auto, runs, r, "cancelled"), Withdrawn(r) \/ UNCHANGED input
    PROVE  FitAfter
<1>1. input \in [Rows -> InputStates] /\ runs \in [Rows -> RowType]
  BY Known
<1>2. \A q \in Rows : runs'[q].status = IF q = r THEN "cancelled" ELSE runs[q].status
  BY <1>1, FinishedStatus DEF SettleIn
<1>3. (\A q \in Rows : q # r => input'[q] = input[q]) /\ input'[r] \in {input[r], "gone"}
  BY <1>1 DEF Withdrawn
<1>4. Fits(runs[r].status, input[r], task[r], phase)
  BY DEF LaneInv, AllFit
<1> QED
  BY <1>2, <1>3, <1>4, OneRow DEF Fits, Alive

LEMMA UserFits ==
    ASSUME NEW r \in Rows PROVE Inv /\ LaneInv /\ (CancelRun(r) \/ Withdraw(r)) => FitAfter
<1> SUFFICES ASSUME Inv, LaneInv, CancelRun(r) \/ Withdraw(r) PROVE FitAfter
  OBVIOUS
<1>1. CASE CancelRun(r)
  <2>1. runs[r].status # "free"
    BY <1>1 DEF CancelRun, Live
  <2> QED BY <1>1, <2>1, CancelledFits DEF CancelRun, Cancelled
<1>2. CASE Withdraw(r)
  <2>1. /\ phase' = phase /\ task' = task /\ input' = [input EXCEPT ![r] = "gone"]
        /\ Settle(r, "cancelled") /\ input[r] # "none"
    BY <1>2 DEF Withdraw, Withdrawable
  <2>2. input \in [Rows -> InputStates] /\ runs \in [Rows -> RowType]
    BY Known
  <2>3. Fits(runs[r].status, input[r], task[r], phase)
    BY DEF LaneInv, AllFit
  <2> QED BY <2>1, <2>2, <2>3, SettleStatus, OneRow DEF Fits, Finals
<1> QED
  BY <1>1, <1>2

LEMMA RunNowFits == Inv /\ LaneInv /\ RunNow => FitAfter
<1> SUFFICES ASSUME Inv, LaneInv, RunNow PROVE FitAfter
  OBVIOUS
<1>1. input' = input /\ phase' = phase
  BY DEF RunNow
<1>2. PICK r \in Fresh(runs) : Begin(auto, With(runs, r, "queued", "manual", now), r)
  BY DEF RunNow
<1>3. now \in Instants /\ "manual" \in Triggers
  BY TimeAssumption DEF Inv, Rest, Times, Instants, Triggers
<1>4. \A q \in Rows : Fits(runs'[q].status, input[q], task'[q], phase)
  BY <1>2, <1>3, Known, FreshStarts DEF LaneInv
<1> QED
  BY <1>1, <1>4 DEF FitAfter

LEMMA DeletionFits == Inv /\ LaneInv /\ (DeleteBegin \/ DeleteEnd) => FitAfter
<1> SUFFICES ASSUME Inv, LaneInv, DeleteBegin \/ DeleteEnd PROVE FitAfter
  OBVIOUS
<1>1. phase' = phase /\ task' = task
  BY DEF DeleteBegin, DeleteEnd
<1>2. CASE UNCHANGED <<runs, input>>
  BY <1>1, <1>2 DEF LaneInv, AllFit, FitAfter
<1>3. ASSUME NEW r \in Rows, Live(runs, r), Cancelled(r, TRUE) PROVE FitAfter
  <2>1. runs[r].status # "free"
    BY <1>3 DEF Live
  <2> QED BY <1>1, <1>3, <2>1, CancelledFits DEF Cancelled
<1>4. CASE DeleteEnd
  <2>1. runs \in [Rows -> RowType] /\ input' = input
    BY <1>4, Known DEF DeleteEnd
  <2>2. \A q \in Rows : /\ runs'[q].status \in {runs[q].status, "deleted"}
                        /\ runs'[q].status = "free" <=> runs[q].status = "free"
                        /\ runs'[q].status \notin Alive
    BY <1>4, <2>1 DEF DeleteEnd, RowType, Alive
  <2> QED BY <1>1, <2>1, <2>2 DEF LaneInv, AllFit, Fits, FitAfter
<1> QED
  BY <1>2, <1>3, <1>4 DEF DeleteBegin

\* Every run with an input in a deleted session ends with the session.
LEMMA LostFits == Inv /\ LaneInv /\ LoseSession /\ phase' = phase /\ task' = task => FitAfter
<1> SUFFICES ASSUME Inv, LaneInv, LoseSession, phase' = phase, task' = task, NEW q \in Rows
             PROVE  Fits(runs'[q].status, input'[q], task'[q], phase')
  BY DEF FitAfter
<1>1. runs \in [Rows -> RowType] /\ Fits(runs[q].status, input[q], task[q], phase)
  BY Known DEF LaneInv, AllFit
<1>2. input'[q] = IF input[q] = "none" THEN "none" ELSE "gone"
  BY DEF LoseSession
<1>3. CASE q \in Doomed(runs)
  <2>1. runs'[q].status = "cancelled" /\ runs[q].status # "free"
    BY <1>1, <1>3 DEF LoseSession, LostRuns, RowType, Doomed, Live
  <2> QED BY <1>1, <1>2, <2>1 DEF Fits, Alive
<1>4. CASE q \notin Doomed(runs)
  <2>1. runs'[q] = runs[q]
    BY <1>1, <1>4 DEF LoseSession, LostRuns
  <2>2. runs[q].status \in Alive => input[q] = "none"
    BY <1>4 DEF Doomed, Live, Alive
  <2> QED BY <1>1, <1>2, <2>1, <2>2 DEF Fits, Out
<1> QED
  BY <1>3, <1>4

LEMMA SuspendFits == Inv /\ LaneInv /\ Suspend => FitAfter
<1> SUFFICES ASSUME Inv, LaneInv, Suspend PROVE FitAfter
  OBVIOUS
<1>1. phase' = phase /\ task' = task
  BY DEF Suspend
<1>2. CASE UNCHANGED <<runs, input>>
  BY <1>1, <1>2 DEF LaneInv, AllFit, FitAfter
<1>3. ASSUME NEW r \in Rows, Live(runs, r), runs' = FinishedIn(runs, r, "cancelled"),
             Withdrawn(r) \/ UNCHANGED input
      PROVE  FitAfter
  <2>1. input \in [Rows -> InputStates] /\ runs \in [Rows -> RowType]
    BY Known
  <2>2. \A q \in Rows : runs'[q].status = IF q = r THEN "cancelled" ELSE runs[q].status
    BY <1>3, <2>1, FinishedStatus
  <2>3. (\A q \in Rows : q # r => input'[q] = input[q]) /\ input'[r] \in {input[r], "gone"}
    BY <1>3, <2>1 DEF Withdrawn
  <2>4. Fits(runs[r].status, input[r], task[r], phase) /\ runs[r].status # "free"
    BY <1>3 DEF LaneInv, AllFit, Live
  <2> QED BY <1>1, <2>2, <2>3, <2>4, OneRow DEF Fits, Alive
<1> QED
  BY <1>2, <1>3 DEF Suspend

LEMMA RestoreFits == Inv /\ LaneInv /\ Restore => FitAfter
<1> SUFFICES ASSUME Inv, LaneInv, Restore PROVE FitAfter
  OBVIOUS
<1>1. phase' = phase /\ task' = task
  BY DEF Restore
<1>2. CASE UNCHANGED <<runs, input>>
  BY <1>1, <1>2 DEF LaneInv, AllFit, FitAfter
<1>3. CASE LoseSession
  BY <1>1, <1>3, LostFits
<1> QED
  BY <1>2, <1>3 DEF Restore

\* What the process keeps in memory goes; the rows and the lanes stay.
LEMMA ServiceFits == Inv /\ LaneInv /\ (Stop \/ Crash \/ Exit \/ Boot) => FitAfter
<1> SUFFICES ASSUME Inv, LaneInv, Stop \/ Crash \/ Exit \/ Boot, NEW q \in Rows
             PROVE  Fits(runs'[q].status, input'[q], task'[q], phase')
  BY DEF FitAfter
<1>1. Fits(runs[q].status, input[q], task[q], phase) /\ task \in Tasks
      /\ input \in [Rows -> InputStates]
  BY Known DEF LaneInv, AllFit
<1>2. runs' = runs
  BY DEF Stop, Crash, Exit, Boot
<1>3. CASE Stop
  BY <1>1, <1>2, <1>3 DEF Stop, Fits
<1>4. CASE Crash \/ Exit
  <2>1. Lost
    BY <1>4 DEF Crash, Exit
  <2>2. phase' = "down" /\ task'[q] = "none"
    BY <2>1 DEF Lost
  <2>3. input'[q] # "settled" /\ (input[q] = "none" => input'[q] = "none")
    BY <1>1, <2>1 DEF Lost, InputStates
  <2> QED BY <1>1, <1>2, <2>2, <2>3 DEF Fits
<1>5. CASE Boot
  BY <1>1, <1>2, <1>5 DEF Boot, Fits
<1> QED
  BY <1>3, <1>4, <1>5

-----------------------------------------------------------------------------
(* What it shows. *)

LEMMA InitLane == Init => LaneInv
<1> SUFFICES ASSUME Init PROVE LaneInv
  OBVIOUS
<1>1. /\ runs = [r \in Rows |-> Row("free", "none", None)] /\ input = [r \in Rows |-> "none"]
      /\ task = [r \in Rows |-> "none"] /\ resetting = FALSE
  BY DEF Init
<1> QED
  BY <1>1 DEF Row, LaneInv, AllFit, Fits, Alive

LEMMA NextLane ==
    ASSUME "reset" \notin Allowed PROVE Inv /\ LaneInv /\ [Next]_vars => LaneInv'
<1> SUFFICES ASSUME Inv, LaneInv, [Next]_vars PROVE LaneInv'
  OBVIOUS
<1>1. ~ResetBegin /\ ~ResetEnd
  BY DEF ResetBegin, Does, ResetEnd, LaneInv
<1>2. ASSUME Advance \/ Pause \/ Complete \/ Resume \/ Reschedule \/ ChangeEnd
             \/ UNCHANGED vars
      PROVE  FitAfter
  <2>1. UNCHANGED <<runs, input, task, phase>>
    BY <1>2 DEF Advance, Pause, Complete, Resume, Reschedule, ChangeEnd, vars
  <2> QED BY <2>1 DEF LaneInv, AllFit, FitAfter
<1>3. ASSUME Tick \/ Start \/ RunNow \/ Suspend \/ Restore \/ DeleteBegin \/ DeleteEnd
      PROVE  FitAfter
  BY <1>3, TickFits, StartFits, RunNowFits, SuspendFits, RestoreFits, DeletionFits
<1>4. ASSUME \E r \in Rows : RunStep(r) \/ Take(r) \/ TurnStep(r)
      PROVE  FitAfter
  BY <1>4, RunFits, LaneFits
<1>5. ASSUME \E r \in Rows : CancelRun(r) \/ Withdraw(r)
      PROVE  FitAfter
  BY <1>5, UserFits
<1>6. ASSUME SessionDeleted
      PROVE  FitAfter
  BY <1>6, LostFits DEF SessionDeleted
<1>7. ASSUME Stop \/ Crash \/ Exit \/ Boot
      PROVE  FitAfter
  BY <1>7, ServiceFits
<1>8. FitAfter
  BY <1>1, <1>2, <1>3, <1>4, <1>5, <1>6, <1>7 DEF Next, UserStep, AwaitEnds, ServiceStep
<1>9. resetting' = FALSE
  <2>1. resetting = FALSE
    BY DEF LaneInv
  <2>2. ASSUME Tick \/ Start \/ RunNow \/ Suspend \/ Restore \/ DeleteBegin \/ DeleteEnd
        PROVE  resetting' = FALSE
    BY <2>1, <2>2 DEF Tick, Start, RunNow, Suspend, Restore, DeleteBegin, DeleteEnd, awaits
  <2>3. ASSUME \E r \in Rows : RunStep(r) \/ Take(r) \/ TurnStep(r)
        PROVE  resetting' = FALSE
    BY <2>1, <2>3 DEF RunStep, CheckDone, OpenDone, RecordInput, ScriptDone, Take, TurnStep,
      TurnEnds, CommitTurn, TurnConsumed, LateSettle, TurnRetries, RetriesExhausted, laneFrame,
      awaits
  <2>4. ASSUME SessionDeleted \/ \E r \in Rows : CancelRun(r) \/ Withdraw(r)
        PROVE  resetting' = FALSE
    BY <2>1, <2>4 DEF SessionDeleted, CancelRun, Withdraw, awaits
  <2>5. ASSUME Stop \/ Crash \/ Exit \/ Boot
        PROVE  resetting' = FALSE
    BY <2>1, <2>5 DEF Stop, Crash, Exit, Boot, Lost, awaits
  <2>6. ASSUME Advance \/ Pause \/ Complete \/ Resume \/ Reschedule \/ ChangeEnd
               \/ UNCHANGED vars
        PROVE  resetting' = FALSE
    BY <2>1, <2>6 DEF Advance, Pause, Complete, Resume, Reschedule, ChangeEnd, vars, awaits
  <2> QED BY <1>1, <2>2, <2>3, <2>4, <2>5, <2>6 DEF Next, UserStep, AwaitEnds, ServiceStep
<1> QED
  BY <1>8, <1>9 DEF FitAfter, LaneInv, AllFit

\* Unless sessions are reset, no live run is left to itself: whatever takes the
\* input of a run out of its lane ends the run.
THEOREM RunsAreServed ==
    ASSUME "reset" \notin Allowed PROVE Spec => []LiveRunsAreServed
<1>1. Inv /\ LaneInv /\ [Next]_vars => LaneInv'
  BY NextLane
<1>2. LaneInv => LiveRunsAreServed
  BY DEF LaneInv, AllFit, Fits, LiveRunsAreServed, Live, Alive, InLane, Out
<1> QED
  BY <1>1, <1>2, InitLane, Invariance, PTL DEF Spec

=============================================================================
