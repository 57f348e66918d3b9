------------------------ MODULE DeliveryCursorProofs ------------------------
(***************************************************************************)
(* Proofs about DeliveryCursor: types, for whatever may happen, and the    *)
(* two promises of the cursors, as long as startup recovery is over before *)
(* anything runs and no command overtakes an input nobody accepted.        *)
(***************************************************************************)
EXTENDS DeliveryCursor, WellFoundedInduction, FiniteSetTheorems, TLAPS

-----------------------------------------------------------------------------
(* Largest and smallest members. *)

\* A nonempty set of numbers up to n has a largest member, and Max is it.
LEMMA MaxIs ==
    ASSUME NEW n \in Nat, NEW S \in SUBSET (0..n), S # {}
    PROVE  Max(S) \in S /\ \A y \in S : y <= Max(S)
<1> DEFINE T == {n - x : x \in S}
<1>1. T \subseteq Nat /\ T # {}
  <2>1. \A x \in S : x \in Nat /\ x <= n /\ n - x \in Nat
    OBVIOUS
  <2>2. PICK x \in S : TRUE
    OBVIOUS
  <2>3. n - x \in T
    BY <2>2
  <2> QED BY <2>1, <2>3
<1>2. PICK t \in T : \A u \in T : ~(<<u, t>> \in OpToRel(<, Nat))
  <2> HIDE DEF T
  <2> QED BY <1>1, NatLessThanWellFounded, WFMin
<1>3. PICK x \in S : t = n - x
  OBVIOUS
<1>4. ASSUME NEW y \in S PROVE y <= x
  <2>1. n - y \in T /\ n - y \in Nat /\ t \in Nat
    BY <1>1
  <2>2. ~(n - y < t)
    BY <1>2, <2>1 DEF OpToRel
  <2> QED BY <1>3, <2>2
<1> QED BY <1>4 DEF Max

\* And a smallest one.
LEMMA LeastIs ==
    ASSUME NEW S \in SUBSET Nat, S # {}
    PROVE  \E x \in S : \A y \in S : x <= y
<1>1. PICK x \in S : \A y \in S : ~(<<y, x>> \in OpToRel(<, Nat))
  BY NatLessThanWellFounded, WFMin
<1>2. ASSUME NEW y \in S PROVE x <= y
  <2>1. ~(y < x)
    BY <1>1 DEF OpToRel
  <2> QED BY <2>1
<1> QED BY <1>2

-----------------------------------------------------------------------------
(* What a commit does to the cursors, the deferred replies and the ledger. *)

Delivery == [covered : (SUBSET Messages) \ {{}}, acked : BOOLEAN]

LEMMA RangeIs == /\ MaxMessages \in Nat /\ Messages \in SUBSET (0..MaxMessages)
                 /\ 0 \notin Messages /\ 0 \in 0..MaxMessages
                 /\ \A m \in Messages : m \in Nat /\ m \in 0..MaxMessages
BY MaxMessagesAssumption DEF Messages

LEMMA LaterIs ==
    ASSUME NEW a \in 0..MaxMessages, NEW b \in 0..MaxMessages
    PROVE  Later(a, b) \in {a, b} /\ a <= Later(a, b) /\ b <= Later(a, b)
BY MaxMessagesAssumption DEF Later

\* The cursor of a delivery is the last message it covers.
LEMMA CursorIs ==
    ASSUME NEW d \in Delivery
    PROVE  CursorOf(d) \in d.covered /\ \A m \in d.covered : m <= CursorOf(d)
<1>1. d.covered \in SUBSET (0..MaxMessages) /\ d.covered # {}
  BY RangeIs DEF Delivery
<1> QED BY <1>1, MaxIs, RangeIs DEF CursorOf

\* A flush commits deferred replies only, and steps over nothing else.
LEMMA FlushIs ==
    ASSUME NEW st, NEW c \in 0..MaxMessages, NEW ds \in SUBSET Messages
    PROVE  /\ FlushTo(st, c, ds) \in {c} \cup ds
           /\ c <= FlushTo(st, c, ds)
           /\ \A p \in VisibleIn(st) : c < p /\ p <= FlushTo(st, c, ds) => p \in ds
<1> DEFINE S == {c} \cup {d \in ds : \A p \in VisibleIn(st) : c < p /\ p < d => p \in ds}
<1>1. S \in SUBSET (0..MaxMessages) /\ S # {} /\ c \in S
  BY RangeIs
<1>2. FlushTo(st, c, ds) = Max(S)
  BY DEF FlushTo
<1>3. Max(S) \in S /\ \A y \in S : y <= Max(S)
  <2> HIDE DEF S
  <2> QED BY <1>1, MaxIs, RangeIs
<1>4. ASSUME NEW p \in VisibleIn(st), c < p, p <= Max(S) PROVE p \in ds
  <2>1. Max(S) \in ds /\ \A q \in VisibleIn(st) : c < q /\ q < Max(S) => q \in ds
    BY <1>1, <1>3, <1>4, RangeIs DEF VisibleIn
  <2>2. p < Max(S) \/ p = Max(S)
    BY <1>1, <1>3, <1>4, RangeIs DEF VisibleIn
  <2> QED BY <2>1, <2>2, <1>4
<1>5. Max(S) \in {c} \cup ds /\ c <= Max(S)
  BY <1>1, <1>3
<1> HIDE DEF S
<1> QED BY <1>2, <1>4, <1>5

\* Among the deliveries that end at or behind p, one comes first.
LEMMA FirstThrough ==
    ASSUME NEW dl \in SUBSET Delivery, NEW p \in Messages,
           NEW g \in dl, p <= CursorOf(g)
    PROVE  \E e \in dl : /\ p <= CursorOf(e)
                         /\ \A f \in dl : p <= CursorOf(f) => ~Before(f, e)
<1> DEFINE A == {e \in dl : p <= CursorOf(e)}
           V == {CursorOf(e) : e \in A}
<1>1. \A e \in dl : CursorOf(e) \in Nat
  <2> TAKE e \in dl
  <2>1. e.covered \subseteq Messages
    BY DEF Delivery
  <2>2. CursorOf(e) \in e.covered
    BY CursorIs
  <2> QED BY <2>1, <2>2, RangeIs
<1>2. PICK e1 \in A : \A e \in A : CursorOf(e1) <= CursorOf(e)
  <2>1. V \in SUBSET Nat /\ V # {}
    BY <1>1
  <2>2. PICK v \in V : \A w \in V : v <= w
    <3> HIDE DEF V
    <3> QED BY <2>1, LeastIs
  <2> QED BY <2>2
<1> DEFINE B == {e \in A : CursorOf(e) = CursorOf(e1)}
           W == {Cardinality(e.covered) : e \in B}
<1>3. \A e \in dl : Cardinality(e.covered) \in 0..MaxMessages
  <2> TAKE e \in dl
  <2>1. e.covered \in SUBSET (1..MaxMessages)
    BY DEF Delivery, Messages
  <2>2. IsFiniteSet(1..MaxMessages) /\ Cardinality(1..MaxMessages) = MaxMessages
    BY FS_Interval, MaxMessagesAssumption
  <2>3. Cardinality(e.covered) \in Nat /\ Cardinality(e.covered) <= MaxMessages
    BY <2>1, <2>2, FS_Subset, FS_CardinalityType
  <2> QED BY <2>3, MaxMessagesAssumption
<1>4. PICK e0 \in B : \A e \in B : Cardinality(e.covered) <= Cardinality(e0.covered)
  <2>1. W \in SUBSET (0..MaxMessages) /\ W # {}
    BY <1>3
  <2>2. Max(W) \in W /\ \A w \in W : w <= Max(W)
    <3> HIDE DEF W
    <3> QED BY <2>1, MaxIs, RangeIs
  <2> QED BY <2>2
<1>5. ASSUME NEW f \in dl, p <= CursorOf(f) PROVE ~Before(f, e0)
  <2>1. f \in A /\ CursorOf(e0) = CursorOf(e1) /\ CursorOf(e1) <= CursorOf(f)
    BY <1>2, <1>4, <1>5
  <2>2. ~(CursorOf(f) < CursorOf(e0))
    BY <2>1, <1>1, <1>4
  <2>3. CursorOf(f) = CursorOf(e0) => Cardinality(f.covered) <= Cardinality(e0.covered)
    BY <1>4, <2>1
  <2>4. Cardinality(f.covered) \in Nat /\ Cardinality(e0.covered) \in Nat
    BY <1>3, <1>4
  <2> QED BY <2>2, <2>3, <2>4 DEF Before
<1> QED BY <1>4, <1>5

\* What CommitTo commits: no visible message it steps over is left out of the
\* deferred replies and of the acknowledged deliveries.
LEMMA CommitIs ==
    ASSUME NEW st, NEW c \in 0..MaxMessages, NEW ds \in SUBSET Messages,
           NEW dl \in SUBSET Delivery, CommitTo(st, c, ds, dl)
    PROVE  /\ c <= committed'
           /\ committed' \in {c} \cup ds \cup UNION {d.covered : d \in dl}
           /\ pull' = Later(pull, committed')
           /\ deferred' \subseteq ds /\ deliveries' \subseteq dl
           /\ \A d \in dl \ deliveries' : d.acked /\ CursorOf(d) <= committed'
           /\ \A p \in VisibleIn(st) : c < p /\ p <= committed' =>
                  p \in ds \/ \E d \in dl : d.acked /\ p \in d.covered
<1> DEFINE gone == Committable(st, c, ds, dl)
           base == Max({c} \cup {CursorOf(e) : e \in gone})
<1>1. gone \subseteq dl /\ \A g \in gone : \A e \in dl :
             ~Before(g, e) => Eligible(st, ReachedBefore(st, c, ds, dl, e), e)
  BY DEF Committable
<1>2. ASSUME NEW e \in dl
      PROVE  CursorOf(e) \in e.covered /\ CursorOf(e) \in Messages /\ ~Before(e, e)
  <2>1. CursorOf(e) \in e.covered /\ e.covered \subseteq Messages
    BY CursorIs DEF Delivery
  <2>2. CursorOf(e) \in Nat
    BY <2>1, RangeIs
  <2>3. e.covered \in SUBSET (1..MaxMessages) /\ IsFiniteSet(1..MaxMessages)
    BY <2>1, FS_Interval, MaxMessagesAssumption DEF Messages
  <2>4. Cardinality(e.covered) \in Nat
    BY <2>3, FS_Subset, FS_CardinalityType
  <2> QED BY <2>1, <2>2, <2>4 DEF Before
<1>3. \A g \in gone : g.acked
  BY <1>1, <1>2 DEF Eligible
<1>4. {c} \cup {CursorOf(e) : e \in gone} \in SUBSET (0..MaxMessages)
  BY <1>1, <1>2, RangeIs
<1>5. /\ base \in {c} \cup {CursorOf(e) : e \in gone}
      /\ c <= base /\ \A g \in gone : CursorOf(g) <= base
  <2> DEFINE S == {c} \cup {CursorOf(e) : e \in gone}
  <2>1. /\ S # {} /\ S \in SUBSET (0..MaxMessages)
        /\ c \in S /\ \A g \in gone : CursorOf(g) \in S
    BY <1>4
  <2>2. Max(S) \in S /\ \A y \in S : y <= Max(S)
    <3> HIDE DEF S
    <3> QED BY <2>1, MaxIs, RangeIs
  <2> QED BY <2>1, <2>2
<1>6. CASE gone = {}
  <2>1. committed' = c /\ pull' = Later(pull, c) /\ deferred' = ds /\ deliveries' = dl \ gone
    BY <1>6 DEF CommitTo
  <2> QED BY <2>1, <1>6, RangeIs DEF VisibleIn
<1>7. CASE gone # {}
  <2> DEFINE end == FlushTo(st, base, ds)
  <2>1. /\ committed' = end /\ pull' = Later(pull, end)
        /\ deferred' \subseteq ds /\ deliveries' = dl \ gone
    BY <1>7 DEF CommitTo
  <2>2. base \in 0..MaxMessages
    BY <1>4, <1>5
  <2>3. /\ end \in {base} \cup ds /\ base <= end
        /\ \A p \in VisibleIn(st) : base < p /\ p <= end => p \in ds
    BY <2>2, FlushIs
  <2>4. end \in 0..MaxMessages
    BY <2>2, <2>3, RangeIs
  <2>5. c <= end /\ \A g \in gone : CursorOf(g) <= end
    <3>1. \A g \in gone : CursorOf(g) \in Nat
      BY <1>1, <1>2, RangeIs
    <3> HIDE DEF end, base, gone
    <3> QED BY <1>5, <2>2, <2>3, <2>4, <3>1, RangeIs
  <2>6. end \in {c} \cup ds \cup UNION {d.covered : d \in dl}
    <3>1. \A g \in gone : CursorOf(g) \in UNION {d.covered : d \in dl}
      BY <1>1, <1>2
    <3> HIDE DEF end, base, gone
    <3> QED BY <1>5, <2>3, <3>1
  <2>7. ASSUME NEW p \in VisibleIn(st), c < p, p <= end, p \notin ds
        PROVE  \E d \in dl : d.acked /\ p \in d.covered
    <3>1. p \in Messages /\ p \in Nat /\ p <= base
      BY <2>2, <2>3, <2>7, RangeIs DEF VisibleIn
    <3>2. PICK g \in gone : p <= CursorOf(g)
      BY <1>5, <2>7, <3>1, RangeIs
    <3>3. g \in dl
      BY <1>1
    <3>4. PICK e \in dl : /\ p <= CursorOf(e)
                          /\ \A f \in dl : p <= CursorOf(f) => ~Before(f, e)
      BY <3>1, <3>2, <3>3, FirstThrough
    <3>5. Eligible(st, ReachedBefore(st, c, ds, dl, e), e)
      BY <1>1, <3>2, <3>3, <3>4
    <3> DEFINE done == {f \in dl : Before(f, e)}
               from == IF done = {} THEN c
                       ELSE Max({c} \cup {CursorOf(f) : f \in done})
    <3>6. ASSUME NEW f \in done PROVE CursorOf(f) < p
      <4>1. f \in dl /\ ~(p <= CursorOf(f))
        BY <3>4
      <4>2. CursorOf(f) \in Nat
        BY <1>2, <4>1, RangeIs
      <4> QED BY <3>1, <4>1, <4>2
    <3>7. from \in 0..MaxMessages /\ from < p
      <4> DEFINE S == {c} \cup {CursorOf(f) : f \in done}
      <4>1. S \in SUBSET (0..MaxMessages) /\ S # {}
        BY <1>2, RangeIs
      <4>2. \A y \in S : y < p
        BY <2>7, <3>6
      <4>3. Max(S) \in S
        <5> HIDE DEF S
        <5> QED BY <4>1, MaxIs, RangeIs
      <4>4. Max(S) \in 0..MaxMessages /\ Max(S) < p
        <5> HIDE DEF S
        <5> QED BY <4>1, <4>2, <4>3
      <4> QED BY <4>4, <2>7
    <3>8. ReachedBefore(st, c, ds, dl, e) \in {from, FlushTo(st, from, ds)}
      BY DEF ReachedBefore
    <3>9. /\ FlushTo(st, from, ds) \in {from} \cup ds
          /\ \A q \in VisibleIn(st) : from < q /\ q <= FlushTo(st, from, ds) => q \in ds
      <4> HIDE DEF from
      <4> QED BY <3>7, FlushIs
    <3>10. ReachedBefore(st, c, ds, dl, e) < p
      <4>1. FlushTo(st, from, ds) \in 0..MaxMessages
        BY <3>7, <3>9, RangeIs
      <4>2. ~(p <= FlushTo(st, from, ds))
        BY <2>7, <3>7, <3>9
      <4> HIDE DEF from
      <4> QED BY <3>1, <3>7, <3>8, <4>1, <4>2, RangeIs
    <3> QED BY <2>7, <3>4, <3>5, <3>10 DEF Eligible
  <2> QED BY <1>1, <1>3, <2>1, <2>5, <2>6, <2>7
<1> QED BY <1>6, <1>7

\* What a direct reply to m does.
LEMMA OutOfBandIs ==
    ASSUME TypeOK, NEW st, NEW m \in Messages, CompleteOutOfBand(st, m)
    PROVE  /\ committed' \in {committed, m} \cup deferred
                              \cup UNION {d.covered : d \in deliveries}
           /\ committed <= committed'
           /\ pull' \in {Later(pull, m), Later(pull, committed')}
           /\ pull' = Later(pull, committed') \/ EarlierPending(st, committed, m)
           /\ deferred' \subseteq deferred \cup {m} /\ deliveries' \subseteq deliveries
           /\ \A d \in deliveries \ deliveries' : d.acked /\ CursorOf(d) <= committed'
           /\ \A p \in VisibleIn(st) : committed < p /\ p <= committed' =>
                  \/ p \in deferred \cup {m}
                  \/ \E d \in deliveries : d.acked /\ p \in d.covered
<1>1. /\ committed \in 0..MaxMessages /\ m \in 0..MaxMessages /\ deferred \in SUBSET Messages
      /\ deliveries \in SUBSET Delivery /\ pull \in 0..MaxMessages
  BY RangeIs DEF TypeOK, Delivery
<1>2. CASE EarlierPending(st, committed, m)
  <2>1. /\ pull' = Later(pull, m) /\ deferred' = deferred \cup {m}
        /\ committed' = committed /\ deliveries' = deliveries
    BY <1>2 DEF CompleteOutOfBand
  <2> QED BY <1>1, <1>2, <2>1, RangeIs DEF VisibleIn
<1>3. CASE ~EarlierPending(st, committed, m)
  <2> DEFINE b == Later(committed, m)
             c == FlushTo(st, b, deferred)
             ds == {d \in deferred : d > c}
  <2>1. CommitTo(st, c, ds, deliveries)
    BY <1>3 DEF CompleteOutOfBand
  <2>2. b \in {committed, m} /\ committed <= b /\ b \in 0..MaxMessages
    BY <1>1, LaterIs
  <2>3. /\ c \in {b} \cup deferred /\ b <= c
        /\ \A p \in VisibleIn(st) : b < p /\ p <= c => p \in deferred
    <3> HIDE DEF b
    <3> QED BY <1>1, <2>2, FlushIs
  <2>4. c \in 0..MaxMessages
    BY <1>1, <2>2, <2>3, RangeIs
  <2>5. ds \in SUBSET Messages /\ ds \subseteq deferred
    BY <1>1
  <2> HIDE DEF b, c, ds
  <2>6. /\ c <= committed'
        /\ committed' \in {c} \cup ds \cup UNION {d.covered : d \in deliveries}
        /\ pull' = Later(pull, committed')
        /\ deferred' \subseteq ds /\ deliveries' \subseteq deliveries
        /\ \A d \in deliveries \ deliveries' : d.acked /\ CursorOf(d) <= committed'
        /\ \A p \in VisibleIn(st) : c < p /\ p <= committed' =>
               p \in ds \/ \E d \in deliveries : d.acked /\ p \in d.covered
    BY <1>1, <2>1, <2>4, <2>5, CommitIs
  <2>7. committed' \in {committed, m} \cup deferred \cup UNION {d.covered : d \in deliveries}
    BY <2>2, <2>3, <2>5, <2>6
  <2>8. UNION {d.covered : d \in deliveries} \subseteq Messages
    BY <1>1 DEF Delivery
  <2>9. committed' \in 0..MaxMessages
    BY <1>1, <2>7, <2>8, RangeIs
  <2>10. committed <= committed'
    BY <1>1, <2>2, <2>3, <2>4, <2>6, <2>9
  <2>11. ASSUME NEW p \in VisibleIn(st), committed < p, p <= committed'
         PROVE  \/ p \in deferred \cup {m}
                \/ \E d \in deliveries : d.acked /\ p \in d.covered
    <3>1. p \in Nat
      BY RangeIs DEF VisibleIn
    <3>2. CASE p <= b
      <4>1. b = m
        BY <1>1, <2>2, <2>11, <3>1, <3>2
      <4>2. p = m
        BY <1>1, <1>3, <2>11, <3>1, <3>2, <4>1 DEF EarlierPending
      <4> QED BY <4>2
    <3>3. CASE b < p /\ p <= c
      BY <2>3, <3>3
    <3>4. CASE c < p
      BY <2>5, <2>6, <2>11, <3>4
    <3> QED BY <2>2, <2>4, <3>1, <3>2, <3>3, <3>4
  <2> QED BY <2>5, <2>6, <2>7, <2>10, <2>11
<1> QED BY <1>2, <1>3

-----------------------------------------------------------------------------
(* Types, whatever may happen. *)

\* The cursors, the deferred replies and the ledger are what they should be.
Cursored ==
    /\ pull \in 0..MaxMessages /\ committed \in 0..MaxMessages
    /\ deferred \in SUBSET Messages /\ deliveries \in SUBSET Delivery

LEMMA TypedCursors ==
    ASSUME TypeOK
    PROVE  /\ Cursored /\ Covered \in SUBSET Messages
           /\ \A d \in deliveries : d.covered \in SUBSET Messages /\ CursorOf(d) \in Messages
BY CursorIs DEF TypeOK, Cursored, Delivery, Covered

LEMMA OutOfBandTypes ==
    ASSUME TypeOK, NEW st, NEW m \in Messages, CompleteOutOfBand(st, m)
    PROVE  Cursored'
<1>1. committed' \in 0..MaxMessages
  <2>1. committed \in 0..MaxMessages /\ deferred \in SUBSET Messages /\ Covered \in SUBSET Messages
    BY TypedCursors DEF Cursored
  <2>2. committed' \in {committed, m} \cup deferred \cup Covered
    BY OutOfBandIs DEF Covered
  <2> QED
    BY <2>1, <2>2, RangeIs
<1>2. pull' \in 0..MaxMessages
  BY <1>1, OutOfBandIs, TypedCursors, RangeIs, LaterIs DEF Cursored
<1>3. deferred' \in SUBSET Messages /\ deliveries' \in SUBSET Delivery
  BY OutOfBandIs, TypedCursors DEF Cursored
<1> QED BY <1>1, <1>2, <1>3 DEF Cursored

LEMMA CommitTypes ==
    ASSUME TypeOK, NEW st, NEW c \in 0..MaxMessages, NEW dl \in SUBSET Delivery,
           CommitTo(st, c, deferred, dl)
    PROVE  Cursored' /\ c <= committed' /\ deliveries' \subseteq dl
<1>1. deferred \in SUBSET Messages /\ UNION {d.covered : d \in dl} \subseteq Messages
  BY DEF TypeOK, Delivery
<1>2. /\ c <= committed'
      /\ committed' \in {c} \cup deferred \cup UNION {d.covered : d \in dl}
      /\ pull' = Later(pull, committed')
      /\ deferred' \subseteq deferred /\ deliveries' \subseteq dl
  BY <1>1, CommitIs
<1>3. committed' \in 0..MaxMessages
  BY <1>1, <1>2, RangeIs
<1> QED BY <1>1, <1>2, <1>3, LaterIs, TypedCursors DEF Cursored

LEMMA SentTypes ==
    ASSUME TypeOK, NEW batch \in SUBSET Messages, batch # {}, Sent(batch),
           UNCHANGED <<committed, deferred>>
    PROVE  Cursored' /\ runner = "open" /\ turn.phase # "reply" /\ query' = "busy"
<1>1. batch \in SUBSET (0..MaxMessages)
  BY RangeIs
<1>2. Max(batch) \in 0..MaxMessages
  BY <1>1, MaxIs, RangeIs
<1>3. pull' \in 0..MaxMessages
  BY <1>2, LaterIs, TypedCursors DEF Sent, Cursored
<1>4. deliveries' \in SUBSET Delivery
  <2>1. [covered |-> batch, acked |-> FALSE] \in Delivery
    BY DEF Delivery
  <2>2. deliveries' = deliveries \cup {[covered |-> batch, acked |-> FALSE]}
    BY DEF Sent
  <2> QED BY <2>1, <2>2, TypedCursors DEF Cursored
<1> QED BY <1>3, <1>4, TypedCursors DEF Sent, Cursored, Serving

LEMMA MaxTypes ==
    ASSUME NEW S \in SUBSET Messages, S # {}
    PROVE  Max(S) \in S /\ Max(S) \in 0..MaxMessages /\ \A y \in S : y <= Max(S)
<1>1. S \in SUBSET (0..MaxMessages)
  BY RangeIs
<1> QED BY <1>1, MaxIs, RangeIs

LEMMA PrefixTypes ==
    ASSUME NEW S \in SUBSET Messages, NEW batch \in Prefixes(S)
    PROVE  batch \in SUBSET S /\ batch # {} /\ batch \in SUBSET Messages
<1>1. PICK k \in S : batch = {p \in S : p <= k}
  BY DEF Prefixes
<1>2. k \in Nat /\ k \in batch
  BY <1>1, RangeIs
<1> QED BY <1>1, <1>2

\* The part of the type that is not about the cursors.
Laned ==
    /\ status \in [Messages -> Statuses]
    /\ handling \subseteq Messages
    /\ turn \in [phase : {"none", "reply", "run"}, batch : SUBSET Messages,
                  replies : SUBSET Messages]
    /\ runner \in {"none", "open", "closing"} /\ query \in {"none", "busy", "reserved"}
    /\ claim \subseteq Messages
    /\ wake \in BOOLEAN /\ retry \subseteq Messages
    /\ host \in {"down", "starting", "up"}
    /\ settled \subseteq Messages
    /\ faults \in 0..MaxFaults
    /\ turn.phase = "none" <=> turn.batch = {}
    /\ turn.phase = "run" => ToSend # {}
    /\ turn.phase = "reply" => deliveries = {}
    /\ runner = "none" => deliveries = {} /\ query = "none" /\ turn = NoTurn

LEMMA TypeParts ==
    TypeOK <=> Laned /\ Cursored /\ overtaken \subseteq Messages
BY DEF TypeOK, Laned, Cursored, Delivery

LEMMA InitTypes == Init => TypeOK
<1> SUFFICES ASSUME Init PROVE TypeOK
  OBVIOUS
<1>1. Cursored /\ overtaken \subseteq Messages
  BY RangeIs DEF Init, Cursored
<1>2. status \in [Messages -> Statuses]
  BY DEF Init, Statuses
<1>3. turn = NoTurn /\ turn \in [phase : {"none", "reply", "run"}, batch : SUBSET Messages,
                                  replies : SUBSET Messages]
  BY DEF Init, NoTurn
<1>4. turn.phase = "none" /\ turn.batch = {}
  BY <1>3 DEF NoTurn
<1>5. faults \in 0..MaxFaults
  BY FaultsAssumption DEF Init
<1>6. Laned
  BY <1>2, <1>3, <1>4, <1>5 DEF Init, Laned
<1> QED BY <1>1, <1>6, TypeParts

LEMMA MovedTypes ==
    ASSUME status \in [Messages -> Statuses], NEW rows, NEW to \in Statuses
    PROVE  Moved(rows, to) \in [Messages -> Statuses]
BY DEF Moved

LEMMA FaultTypes ==
    ASSUME faults \in 0..MaxFaults, NEW kind, Fault(kind)
    PROVE  faults' \in 0..MaxFaults
BY FaultsAssumption DEF Fault

\* Every action keeps the types.
LEMMA StepTypes ==
    ASSUME TypeOK, Next
    PROVE  TypeOK'
<1>1. Laned /\ Cursored /\ overtaken \subseteq Messages
  BY TypeParts
<1>2. overtaken' \subseteq Messages
  BY <1>1 DEF Next, Overtakes, HiddenIn
<1>3. ASSUME Laned', Cursored' PROVE TypeOK'
  BY <1>2, <1>3 DEF TypeOK, Laned, Cursored, Delivery
<1>4. "plain" \in Statuses /\ "queued" \in Statuses /\ "promoting" \in Statuses
      /\ "released" \in Statuses
  BY DEF Statuses
<1> USE DEF vars, cursors, lane
<1>5. ASSUME NEW m \in Messages, ArriveQueued(m) PROVE TypeOK'
  <2>1. status' \in [Messages -> Statuses]
    BY <1>1, <1>4, <1>5, MovedTypes DEF ArriveQueued, Laned
  <2>2. Cursored'
    BY <1>1, <1>5 DEF ArriveQueued, Arrives, Cursored
  <2>3. Laned'
    BY <1>1, <1>5, <2>1 DEF ArriveQueued, Arrives, Laned, ToSend
  <2> QED BY <1>3, <2>2, <2>3
<1>6. ASSUME NEW m \in Messages, ArriveFromWeb(m) PROVE TypeOK'
  <2>1. status' \in [Messages -> Statuses]
    BY <1>1, <1>4, <1>6, MovedTypes DEF ArriveFromWeb, Laned
  <2>2. Cursored'
    BY <1>1, <1>6 DEF ArriveFromWeb, Arrives, Cursored
  <2>3. Laned'
    BY <1>1, <1>6, <2>1 DEF ArriveFromWeb, Arrives, Laned, ToSend
  <2> QED BY <1>3, <2>2, <2>3
<1>7. ASSUME NEW m \in Messages, ArriveFromChannel(m) PROVE TypeOK'
  <2>1. status' \in [Messages -> Statuses]
    BY <1>1, <1>4, <1>7, MovedTypes DEF ArriveFromChannel, Laned
  <2>2. CASE Refused
    <3>1. Cursored'
      BY <1>1, <1>7, <2>2 DEF ArriveFromChannel, Arrives, Refused, Cursored
    <3>2. Laned'
      BY <1>1, <1>7, <2>1, <2>2 DEF ArriveFromChannel, Arrives, Refused, Laned, ToSend
    <3> QED BY <1>3, <3>1, <3>2
  <2>3. ASSUME NEW batch \in Prefixes(Since(status', pull)), Sent(batch),
               wake' = (wake \/ batch # Since(status', pull))
        PROVE  TypeOK'
    <3>1. batch \in SUBSET Messages /\ batch # {}
      BY PrefixTypes DEF Since, VisibleIn
    <3>2. Cursored' /\ runner = "open" /\ turn.phase # "reply" /\ query' = "busy"
      BY <1>7, <2>3, <3>1, SentTypes DEF ArriveFromChannel, Arrives
    <3>3. Laned'
      BY <1>1, <1>7, <2>1, <2>3, <3>2 DEF ArriveFromChannel, Arrives, Laned, ToSend
    <3> QED BY <1>3, <3>2, <3>3
  <2> QED BY <1>7, <2>2, <2>3 DEF ArriveFromChannel
<1>8. ASSUME NEW m \in Messages, PassOn(m) PROVE TypeOK'
  <2>1. CASE m \in Commands
    <3>1. Cursored' /\ deliveries' \subseteq deliveries
      BY <1>8, <2>1, OutOfBandTypes, OutOfBandIs DEF PassOn
    <3>2. Laned'
      BY <1>1, <1>8, <2>1, <3>1 DEF PassOn, Laned, ToSend
    <3> QED BY <1>3, <3>1, <3>2
  <2>2. CASE m \notin Commands /\ Sent({m})
    <3>1. Cursored' /\ runner = "open" /\ turn.phase # "reply" /\ query' = "busy"
      BY <1>8, <2>2, SentTypes DEF PassOn
    <3>2. Laned'
      BY <1>1, <1>8, <2>2, <3>1 DEF PassOn, Refused, Laned, ToSend
    <3> QED BY <1>3, <3>1, <3>2
  <2>3. CASE m \notin Commands /\ Refused
    <3>1. Cursored'
      BY <1>1, <1>8, <2>3 DEF PassOn, Refused, Cursored
    <3>2. Laned'
      BY <1>1, <1>8, <2>3 DEF PassOn, Refused, Laned, ToSend
    <3> QED BY <1>3, <3>1, <3>2
  <2> QED BY <1>8, <2>1, <2>2, <2>3 DEF PassOn
<1>9. ASSUME ColdRead PROVE TypeOK'
  <2>1. Cursored'
    BY <1>1, <1>9 DEF ColdRead, Cursored
  <2>2. CASE UNCHANGED <<turn, runner, query>> /\ wake' = FALSE
    <3>1. Laned'
      BY <1>1, <1>9, <2>2 DEF ColdRead, Laned, ToSend
    <3> QED BY <1>3, <2>1, <3>1
  <2>3. ASSUME NEW batch \in Prefixes(Since(status, pull)),
               turn' = [phase |-> IF batch \cap Commands = {} THEN "run" ELSE "reply",
                        batch |-> batch, replies |-> batch \cap Commands],
               runner' = "open", query' = "busy", wake' = (batch # Since(status, pull))
        PROVE  TypeOK'
    <3>1. batch \in SUBSET Messages /\ batch # {}
      BY PrefixTypes DEF Since, VisibleIn
    <3>2. deliveries = {}
      BY <1>1, <1>9 DEF ColdRead, Laned
    <3>3. Laned'
      BY <1>1, <1>9, <2>3, <3>1, <3>2 DEF ColdRead, Laned, ToSend
    <3> QED BY <1>3, <2>1, <3>3
  <2> QED BY <1>9, <2>2, <2>3 DEF ColdRead
<1>10. ASSUME NEW m \in Messages, ReplyCold(m) PROVE TypeOK'
  <2>1. deliveries = {}
    BY <1>1, <1>10 DEF ReplyCold, Laned
  <2>2. Cursored' /\ deliveries' = {}
    <3>1. CASE ToSend = {}
      BY <1>10, <2>1, <3>1, OutOfBandTypes, OutOfBandIs DEF ReplyCold
    <3>2. CASE ToSend # {}
      <4>1. pull' = Later(pull, m) /\ UNCHANGED <<committed, deferred, deliveries>>
        BY <1>10, <3>2 DEF ReplyCold
      <4> QED BY <1>1, <2>1, <4>1, LaterIs, RangeIs DEF Cursored
    <3> QED BY <3>1, <3>2
  <2>3. CASE turn.replies # {m}
    <3>1. /\ turn' = [turn EXCEPT !.replies = @ \ {m}] /\ UNCHANGED <<runner, query>>
      BY <1>10, <2>3 DEF ReplyCold
    <3>2. /\ turn' \in [phase : {"none", "reply", "run"}, batch : SUBSET Messages,
                        replies : SUBSET Messages]
          /\ turn'.phase = turn.phase /\ turn'.batch = turn.batch
      BY <1>1, <3>1 DEF Laned
    <3>3. runner # "none"
      BY <1>1, <1>10 DEF ReplyCold, Laned, NoTurn
    <3>4. Laned'
      BY <1>1, <1>10, <2>2, <3>1, <3>2, <3>3 DEF ReplyCold, Laned, ToSend
    <3> QED BY <1>3, <2>2, <3>4
  <2>4. CASE turn.replies = {m} /\ ToSend # {}
    <3>1. /\ turn' = [turn EXCEPT !.phase = "run", !.replies = {}]
          /\ UNCHANGED <<runner, query>>
      BY <1>10, <2>4 DEF ReplyCold
    <3>2. /\ turn' \in [phase : {"none", "reply", "run"}, batch : SUBSET Messages,
                        replies : SUBSET Messages]
          /\ turn'.phase = "run" /\ turn'.batch = turn.batch
      BY <1>1, <3>1 DEF Laned
    <3>3. runner # "none" /\ turn.batch # {}
      BY <1>1, <1>10 DEF ReplyCold, Laned, NoTurn
    <3>4. Laned'
      BY <1>1, <1>10, <2>2, <2>4, <3>1, <3>2, <3>3 DEF ReplyCold, Laned, ToSend
    <3> QED BY <1>3, <2>2, <3>4
  <2>5. CASE turn.replies = {m} /\ ToSend = {}
    <3>1. turn' = NoTurn /\ runner' = "none" /\ query' = "none"
      BY <1>10, <2>5 DEF ReplyCold
    <3>2. Laned'
      BY <1>1, <1>10, <2>2, <3>1 DEF ReplyCold, Laned, NoTurn
    <3> QED BY <1>3, <2>2, <3>2
  <2> QED BY <2>3, <2>4, <2>5
<1>11. ASSUME TurnCompletes PROVE TypeOK'
  <2>1. ToSend \in SUBSET Messages /\ ToSend # {}
    BY <1>1, <1>11 DEF TurnCompletes, Laned, ToSend
  <2>2. Later(committed, Max(ToSend)) \in 0..MaxMessages
    BY <1>1, <2>1, MaxTypes, LaterIs DEF Cursored
  <2>3. Cursored' /\ deliveries' \subseteq deliveries
    BY <1>1, <1>11, <2>2, CommitTypes DEF TurnCompletes, Cursored
  <2>4. Laned'
    BY <1>1, <1>11, <2>1, <2>3 DEF TurnCompletes, Laned, NoTurn
  <2> QED BY <1>3, <2>3, <2>4
<1>12. ASSUME Dispatch PROVE /\ claim' \subseteq Messages /\ query' = "reserved"
                             /\ status' \in [Messages -> Statuses]
  BY <1>1, <1>4, <1>12, MovedTypes DEF Dispatch, Laned, Claimable, Queued
<1>13. ASSUME QueryIdle PROVE TypeOK'
  <2>1. Cursored'
    BY <1>1, <1>13 DEF QueryIdle, Cursored
  <2>2. Laned'
    BY <1>1, <1>12, <1>13 DEF QueryIdle, Laned, ToSend
  <2> QED BY <1>3, <2>1, <2>2
<1>14. ASSUME Promote PROVE TypeOK'
  <2>1. Cursored'
    BY <1>1, <1>14 DEF Promote, Cursored
  <2>2. Laned'
    BY <1>1, <1>12, <1>14 DEF Promote, CanDispatch, Laned, ToSend
  <2> QED BY <1>3, <2>1, <2>2
<1>15. ASSUME NEW m \in Messages, ReplyClaimed(m) PROVE TypeOK'
  <2>1. status' \in [Messages -> Statuses]
    BY <1>1, <1>4, <1>15, MovedTypes DEF ReplyClaimed, Laned
  <2>2. Cursored' /\ deliveries' \subseteq deliveries
    BY <1>15, OutOfBandTypes, OutOfBandIs DEF ReplyClaimed
  <2>3. Laned'
    BY <1>1, <1>15, <2>1, <2>2 DEF ReplyClaimed, Unreserved, Laned, ToSend
  <2> QED BY <1>3, <2>2, <2>3
<1>16. ASSUME RestoreClaimed PROVE TypeOK'
  <2>1. status' \in [Messages -> Statuses]
    BY <1>1, <1>4, <1>16, MovedTypes DEF RestoreClaimed, Laned
  <2>2. faults' \in 0..MaxFaults
    BY <1>1, <1>16, FaultTypes DEF RestoreClaimed, Laned
  <2>3. Cursored'
    BY <1>1, <1>16 DEF RestoreClaimed, Cursored
  <2>4. Laned'
    BY <1>1, <1>16, <2>1, <2>2 DEF RestoreClaimed, Unreserved, Laned, ToSend
  <2> QED BY <1>3, <2>3, <2>4
<1>17. ASSUME Inject PROVE TypeOK'
  <2>1. status' \in [Messages -> Statuses]
    BY <1>1, <1>4, <1>17, MovedTypes DEF Inject, Laned
  <2>2. CASE Sent(claim) /\ UNCHANGED wake
    <3>1. Cursored' /\ runner = "open" /\ turn.phase # "reply" /\ query' = "busy"
      BY <1>1, <1>17, <2>2, SentTypes DEF Inject, Laned
    <3>2. Laned'
      BY <1>1, <1>17, <2>1, <2>2, <3>1 DEF Inject, Laned, ToSend
    <3> QED BY <1>3, <3>1, <3>2
  <2>3. CASE wake' = TRUE /\ query' = Unreserved /\ UNCHANGED <<deliveries, pull>>
    <3>1. Cursored'
      BY <1>1, <1>17, <2>3 DEF Inject, Cursored
    <3>2. Laned'
      BY <1>1, <1>17, <2>1, <2>3 DEF Inject, Unreserved, Laned, ToSend
    <3> QED BY <1>3, <3>1, <3>2
  <2> QED BY <1>17, <2>2, <2>3 DEF Inject
<1>18. ASSUME NEW d \in deliveries, Acknowledge(d) PROVE TypeOK'
  <2> DEFINE dl == (deliveries \ {d}) \cup {[d EXCEPT !.acked = TRUE]}
  <2>1. dl \in SUBSET Delivery
    <3>1. d \in Delivery
      BY <1>1 DEF Cursored
    <3>2. [d EXCEPT !.acked = TRUE] \in Delivery
      BY <3>1 DEF Delivery
    <3> QED BY <1>1, <3>2 DEF Cursored
  <2>2. Cursored'
    BY <1>1, <1>18, <2>1, CommitTypes DEF Acknowledge, Cursored
  <2>3. turn.phase # "reply"
    BY <1>1, <1>18 DEF Laned
  <2>4. Laned'
    BY <1>1, <1>18, <2>3 DEF Acknowledge, Laned, ToSend, Cursored, Delivery
  <2> QED BY <1>3, <2>2, <2>4
<1>19. ASSUME Retire PROVE TypeOK'
  <2>1. Cursored'
    BY <1>1, <1>19 DEF Retire, Cursored
  <2>2. Laned'
    BY <1>1, <1>19 DEF Retire, Laned, ToSend
  <2> QED BY <1>3, <2>1, <2>2
<1>20. ASSUME NEW failed \in SUBSET Messages, Exits(failed), faults' \in 0..MaxFaults
       PROVE  TypeOK'
  <2>1. Cursored'
    BY <1>1, <1>20 DEF Exits, Rewound, Cursored
  <2>2. Laned'
    BY <1>1, <1>20 DEF Exits, Laned, NoTurn
  <2> QED BY <1>3, <2>1, <2>2
<1>21. ASSUME IdleExit PROVE TypeOK'
  BY <1>1, <1>20, <1>21 DEF IdleExit, Laned
<1>22. ASSUME Fails PROVE TypeOK'
  BY <1>1, <1>20, <1>22, FaultTypes DEF Fails, Laned
<1>23. ASSUME StopRunner PROVE TypeOK'
  <2> DEFINE flushed == IF deliveries = {} THEN committed
                        ELSE FlushTo(status, Max({committed} \cup Covered), deferred)
  <2>1. flushed \in 0..MaxMessages
    <3>1. {committed} \cup Covered \in SUBSET (0..MaxMessages)
      BY <1>1, TypedCursors, RangeIs DEF Cursored
    <3>2. Max({committed} \cup Covered) \in 0..MaxMessages
      BY <3>1, MaxIs, RangeIs
    <3>3. FlushTo(status, Max({committed} \cup Covered), deferred) \in 0..MaxMessages
      BY <1>1, <3>2, FlushIs, RangeIs DEF Cursored
    <3> QED BY <1>1, <3>3 DEF Cursored
  <2>2. ToSend \in SUBSET Messages
    BY <1>1 DEF Laned, ToSend
  <2>3. committed' = Max({flushed} \cup ToSend)
    BY <1>23 DEF StopRunner
  <2>4. committed' \in 0..MaxMessages
    <3> HIDE DEF flushed
    <3>1. {flushed} \cup ToSend \in SUBSET (0..MaxMessages)
      BY <2>1, <2>2, RangeIs
    <3> QED BY <2>3, <3>1, MaxIs, RangeIs
  <2>5. pull' \in 0..MaxMessages
    BY <1>1, <1>23, <2>4, LaterIs DEF StopRunner, Cursored
  <2>6. Cursored'
    BY <1>1, <1>23, <2>4, <2>5 DEF StopRunner, Cursored
  <2>7. faults' \in 0..MaxFaults
    BY <1>1, <1>23, FaultTypes DEF StopRunner, Laned
  <2>8. settled' \subseteq Messages
    BY <1>1, <1>23, <2>2, TypedCursors DEF StopRunner, Laned
  <2>9. Laned'
    BY <1>1, <1>23, <2>7, <2>8 DEF StopRunner, Laned, NoTurn
  <2> QED BY <1>3, <2>6, <2>9
<1>24. ASSUME StopRetry PROVE TypeOK'
  <2>1. retry \in SUBSET Messages /\ retry # {}
    BY <1>1, <1>24 DEF StopRetry, Laned
  <2>2. committed' \in 0..MaxMessages
    BY <1>1, <1>24, <2>1, MaxTypes, LaterIs DEF StopRetry, Cursored
  <2>3. pull' \in 0..MaxMessages
    BY <1>1, <1>24, <2>2, LaterIs DEF StopRetry, Cursored
  <2>4. Cursored'
    BY <1>1, <1>24, <2>2, <2>3 DEF StopRetry, Cursored
  <2>5. faults' \in 0..MaxFaults
    BY <1>1, <1>24, FaultTypes DEF StopRetry, Laned
  <2>6. Laned'
    BY <1>1, <1>24, <2>5 DEF StopRetry, Laned, ToSend
  <2> QED BY <1>3, <2>4, <2>6
<1>25. ASSUME Crash PROVE TypeOK'
  <2>1. Cursored'
    BY <1>1, <1>25 DEF Crash, Cursored
  <2>2. faults' \in 0..MaxFaults
    BY <1>1, <1>25, FaultTypes DEF Crash, Laned
  <2>3. Laned'
    BY <1>1, <1>25, <2>2 DEF Crash, Laned, NoTurn
  <2> QED BY <1>3, <2>1, <2>3
<1>26. ASSUME Restart PROVE TypeOK'
  <2>1. Cursored'
    BY <1>1, <1>26 DEF Restart, Cursored
  <2>2. status' \in [Messages -> Statuses] /\ wake' \in BOOLEAN
    BY <1>1, <1>4, <1>26 DEF Restart, Laned
  <2>3. Laned'
    BY <1>1, <1>26, <2>2 DEF Restart, Laned, ToSend
  <2> QED BY <1>3, <2>1, <2>3
<1>27. ASSUME Recover PROVE TypeOK'
  <2>1. Cursored'
    BY <1>1, <1>27 DEF Recover, Cursored
  <2>2. Laned'
    BY <1>1, <1>27 DEF Recover, Laned, ToSend
  <2> QED BY <1>3, <2>1, <2>2
<1> QED
  BY <1>5, <1>6, <1>7, <1>8, <1>9, <1>10, <1>11, <1>13, <1>14, <1>15, <1>16, <1>17,
     <1>18, <1>19, <1>21, <1>22, <1>23, <1>24, <1>25, <1>26, <1>27
  DEF Next, Arrival, Handler, ColdTurn, FollowUp, WarmRunner, Host

\* Every reachable state is well typed, whatever may happen.
THEOREM CursorTypeCorrect == Spec => []TypeOK
<1>1. Init => TypeOK
  BY InitTypes
<1>2. TypeOK /\ [Next]_vars => TypeOK'
  <2>1. TypeOK /\ Next => TypeOK'
    BY StepTypes
  <2>2. TypeOK /\ UNCHANGED vars => TypeOK'
    BY DEF TypeOK, vars, cursors, lane, ToSend
  <2> QED BY <2>1, <2>2
<1> QED BY <1>1, <1>2, PTL DEF Spec

-----------------------------------------------------------------------------
(* The promises of the cursors.  The inductive invariant says which rows   *)
(* what refers to (RowsHold), that a hidden row behind something taken up  *)
(* is overtaken (HiddenHold), that a cold turn has every row up to its own *)
(* last one (TurnHolds), and who owns what lies behind next-pull (PullHolds). *)

\* Startup recovery is over before anything runs, and no command is answered
\* before an earlier input that nobody accepted.
InOrder == Allowed \cap {"early", "cross"} = {}

Ended == settled \cup overtaken

\* Nothing runs until recovery has rewound the next-pull cursor.
Stale ==
    /\ host # "up" /\ ~wake /\ runner = "none" /\ handling = {} /\ claim = {}
    /\ HiddenIn(status) = {}

RowsHold ==
    /\ \A m, k \in Messages : status[m] = "absent" /\ m < k => status[k] = "absent"
    /\ pull \in {0} \cup Visible /\ committed \in {0} \cup Visible
    /\ deferred \subseteq Visible \cap settled
    /\ handling \subseteq Visible /\ turn.batch \subseteq Visible
    /\ retry \subseteq Visible
    /\ \A m \in claim : status[m] = "promoting"
    /\ host = "down" => runner = "none" /\ claim = {}
    /\ \A d \in deliveries : /\ d.covered \subseteq Visible
                             /\ d.acked => d.covered \subseteq settled

HiddenHold == \A h \in HiddenIn(status) : h < TakenUp => h \in overtaken

TurnHolds ==
    /\ turn.replies \subseteq turn.batch
    /\ turn.phase = "run" => turn.replies = {}
    /\ \A c \in turn.replies, p \in ToSend : c < p
    /\ \A p \in Visible : (\E b \in turn.batch : p <= b)
                             => p \in Ended \cup ToSend \cup turn.replies

PullHolds ==
    \/ Stale
    \/ \A m \in Visible : m <= pull => m \in Ended \/ \E d \in deliveries : m <= CursorOf(d)

CursorInv == TypeOK /\ RowsHold /\ HiddenHold /\ TurnHolds /\ PullHolds /\ CommittedIsSettled

\* Of every step: rows become visible and stay so, what ended stays ended.
Grows ==
    /\ TypeOK' /\ Visible \subseteq Visible'
    /\ \A n \in Visible' : n \in Visible \/ IsNext(n) \/ n \in HiddenIn(status)
    /\ settled \subseteq settled' /\ overtaken \subseteq overtaken'

\* A row that becomes visible behind anything taken up was overtaken.
LEMMA NewRows ==
    ASSUME CursorInv, Grows, NEW n \in Visible', n \notin Visible,
           NEW x \in {pull, committed} \cup turn.batch, n <= x
    PROVE  n \in Ended'
<1>1. x \in {0} \cup Visible /\ n \in Messages /\ x \in 0..MaxMessages
  BY TypedCursors, RangeIs DEF CursorInv, RowsHold, Visible, VisibleIn, Cursored
<1>2. n # x /\ n < x
  BY <1>1, RangeIs
<1>3. x \in Messages /\ status[x] # "absent"
  BY <1>1, <1>2, RangeIs DEF Visible, VisibleIn
<1>4. ~IsNext(n)
  BY <1>1, <1>2, <1>3 DEF IsNext, CursorInv, RowsHold
<1>5. n \in HiddenIn(status)
  BY <1>4 DEF Grows
<1>6. n < TakenUp
  <2>1. {pull, committed} \cup turn.batch \in SUBSET (0..MaxMessages)
    BY TypedCursors, RangeIs DEF CursorInv, TypeOK, Cursored
  <2>2. TakenUp \in 0..MaxMessages /\ x <= TakenUp
    BY <2>1, MaxIs, RangeIs DEF TakenUp
  <2> QED BY <1>1, <1>2, <2>2, RangeIs
<1> QED BY <1>5, <1>6 DEF CursorInv, HiddenHold, Grows, Ended

\* What stays as it is while rows become visible.
LEMMA Kept ==
    ASSUME CursorInv, Grows
    PROVE  /\ \A m \in Visible' : m <= committed => m \in Ended'
           /\ committed' = committed => CommittedIsSettled'
           /\ turn' = turn => TurnHolds'
           /\ turn' = NoTurn => TurnHolds'
           /\ ~Stale => \A m \in Visible' : m <= pull =>
                            m \in Ended' \/ \E d \in deliveries : m <= CursorOf(d)
           /\ ~Stale /\ pull' = pull /\ deliveries' = deliveries => PullHolds'
           /\ CommittedIsSettled' /\ pull' <= committed' => PullHolds'
<1>1. ASSUME NEW m \in Visible', m <= committed PROVE m \in Ended'
  BY <1>1, NewRows DEF CursorInv, CommittedIsSettled, Ended, Grows
<1>2. committed' = committed => CommittedIsSettled'
  BY <1>1 DEF CommittedIsSettled, Ended
<1>3. ASSUME turn' = turn PROVE TurnHolds'
  <2>1. ASSUME NEW p \in Visible', NEW b \in turn.batch, p <= b
        PROVE  p \in (Ended \cup ToSend \cup turn.replies)'
    <3>1. CASE p \in Visible
      BY <1>3, <2>1, <3>1 DEF CursorInv, TurnHolds, Grows, Ended, ToSend
    <3>2. CASE p \notin Visible
      BY <2>1, <3>2, NewRows
    <3> QED BY <3>1, <3>2
  <2> QED BY <1>3, <2>1 DEF CursorInv, TurnHolds, ToSend
<1>4. turn' = NoTurn => TurnHolds'
  BY DEF TurnHolds, NoTurn
<1>5. ASSUME ~Stale, NEW m \in Visible', m <= pull
      PROVE  m \in Ended' \/ \E d \in deliveries : m <= CursorOf(d)
  <2>1. CASE m \in Visible
    BY <1>5, <2>1 DEF CursorInv, PullHolds, Grows, Ended
  <2>2. CASE m \notin Visible
    BY <1>5, <2>2, NewRows
  <2> QED BY <2>1, <2>2
<1>6. ~Stale /\ pull' = pull /\ deliveries' = deliveries => PullHolds'
  BY <1>5 DEF PullHolds
<1>7. ASSUME CommittedIsSettled', pull' <= committed' PROVE PullHolds'
  <2>1. ASSUME NEW m \in Visible', m <= pull' PROVE m \in Ended'
    <3>1. m \in Nat /\ pull' \in Nat /\ committed' \in Nat
      BY RangeIs DEF Visible, VisibleIn, Grows, TypeOK
    <3>2. m <= committed'
      BY <1>7, <2>1, <3>1
    <3> QED BY <1>7, <3>2 DEF CommittedIsSettled, Ended
  <2> QED BY <2>1 DEF PullHolds
<1> QED BY <1>1, <1>2, <1>3, <1>4, <1>5, <1>6, <1>7

\* The cursors and what they refer to, after a step.
CursorRows ==
    /\ pull \in {0} \cup Visible /\ committed \in {0} \cup Visible
    /\ deferred \subseteq Visible \cap settled
    /\ \A d \in deliveries : /\ d.covered \subseteq Visible
                             /\ d.acked => d.covered \subseteq settled

LEMMA CursorsKept ==
    ASSUME CursorInv, Grows
    PROVE  /\ pull \in {0} \cup Visible' /\ committed \in {0} \cup Visible'
           /\ deferred \subseteq Visible' \cap settled'
           /\ \A d \in deliveries : /\ d.covered \subseteq Visible'
                                    /\ d.acked => d.covered \subseteq settled'
           /\ UNCHANGED <<pull, committed, deferred, deliveries>> => CursorRows'
<1>1. /\ pull \in {0} \cup Visible' /\ committed \in {0} \cup Visible'
      /\ deferred \subseteq Visible' \cap settled'
  BY DEF CursorInv, RowsHold, Grows
<1>2. \A d \in deliveries : /\ d.covered \subseteq Visible'
                            /\ d.acked => d.covered \subseteq settled'
  BY DEF CursorInv, RowsHold, Grows
<1> QED BY <1>1, <1>2 DEF CursorRows

\* A batch goes to the warm runner.
LEMMA SentHolds ==
    ASSUME CursorInv, Grows, ~Stale, NEW batch \in SUBSET Messages, batch # {},
           batch \subseteq Visible', Sent(batch), UNCHANGED <<committed, deferred>>
    PROVE  CursorRows' /\ PullHolds' /\ CommittedIsSettled'
<1> DEFINE new == [covered |-> batch, acked |-> FALSE]
<1>1. /\ deliveries' = deliveries \cup {new} /\ pull' = Later(pull, Max(batch))
  BY DEF Sent
<1>2. CursorOf(new) = Max(batch) /\ Max(batch) \in batch
  BY MaxTypes DEF CursorOf
<1>3. pull' \in {pull, Max(batch)}
  BY <1>1, <1>2, LaterIs, TypedCursors, RangeIs DEF CursorInv, Cursored
<1>4. CursorRows'
  BY <1>1, <1>2, <1>3, CursorsKept DEF CursorRows
<1>5. PullHolds'
  <2>1. ASSUME NEW m \in Visible', m <= pull'
        PROVE  m \in Ended' \/ \E d \in deliveries' : m <= CursorOf(d)
    BY <1>1, <1>2, <1>3, <2>1, Kept
  <2> QED BY <2>1 DEF PullHolds
<1> QED BY <1>4, <1>5, Kept

\* A direct reply to m: earlier rows nobody settled have been accepted.
LEMMA OutOfBandHolds ==
    ASSUME CursorInv, Grows, ~Stale, NEW m \in Messages, m \in Visible' \cap settled',
           CompleteOutOfBand(status', m),
           \A p \in Visible' : p < m => p \in Ended' \/ \E d \in deliveries : p <= CursorOf(d)
    PROVE  CursorRows' /\ PullHolds' /\ CommittedIsSettled'
<1>1. TypeOK
  BY DEF CursorInv
<1>2. /\ committed' \in {committed, m} \cup deferred \cup UNION {d.covered : d \in deliveries}
      /\ pull' \in {Later(pull, m), Later(pull, committed')}
      /\ deferred' \subseteq deferred \cup {m} /\ deliveries' \subseteq deliveries
      /\ \A d \in deliveries \ deliveries' : CursorOf(d) <= committed'
      /\ \A p \in VisibleIn(status') : committed < p /\ p <= committed' =>
             \/ p \in deferred \cup {m}
             \/ \E d \in deliveries : d.acked /\ p \in d.covered
  BY <1>1, OutOfBandIs
<1>3. committed' \in 0..MaxMessages /\ pull' \in 0..MaxMessages /\ pull \in 0..MaxMessages
      /\ committed \in 0..MaxMessages
  BY <1>1 DEF Grows, TypeOK
<1>4. pull' \in {pull, m, committed'}
  BY <1>2, <1>3, LaterIs, RangeIs
<1>5. committed' \in {0} \cup Visible'
  BY <1>2, CursorsKept
<1>6. CursorRows'
  BY <1>2, <1>4, <1>5, CursorsKept DEF CursorRows
<1>7. ASSUME NEW p \in Visible', p <= committed' PROVE p \in Ended'
  <2>1. p \in Nat
    BY RangeIs DEF Visible, VisibleIn
  <2>2. CASE p <= committed
    BY <2>2, Kept
  <2>3. CASE committed < p
    BY <1>2, <1>7, <2>3, CursorsKept DEF Visible, Ended
  <2> QED BY <1>3, <2>1, <2>2, <2>3
<1>8. CommittedIsSettled'
  BY <1>7 DEF CommittedIsSettled, Ended
<1>9. PullHolds'
  <2>1. ASSUME NEW p \in Visible', p <= pull'
        PROVE  p \in Ended' \/ \E d \in deliveries' : p <= CursorOf(d)
    <3>1. p \in Nat /\ m \in Nat
      BY RangeIs DEF Visible, VisibleIn
    <3>2. p <= committed' \/ p = m \/ p < m \/ p <= pull
      BY <1>3, <1>4, <2>1, <3>1
    <3>3. p \in Ended' \/ \E d \in deliveries : p <= CursorOf(d)
      BY <1>7, <3>2, Kept DEF Ended
    <3>4. ASSUME NEW d \in deliveries, d \notin deliveries', p <= CursorOf(d)
          PROVE  p \in Ended'
      <4>1. CursorOf(d) \in Nat /\ CursorOf(d) <= committed'
        BY <1>1, <1>2, <3>4, TypedCursors, RangeIs
      <4> QED BY <1>3, <1>7, <3>1, <3>4, <4>1
    <3> QED BY <3>3, <3>4
  <2> QED BY <2>1 DEF PullHolds
<1> QED BY <1>6, <1>8, <1>9

\* Both cursors move to c, behind which everything has ended, and the
\* deliveries dl that wait for them are committed.
LEMMA CommitHolds ==
    ASSUME CursorInv, Grows, ~Stale, NEW c \in {0} \cup Visible', committed <= c,
           NEW dl \in SUBSET Delivery, CommitTo(status', c, deferred, dl),
           \A p \in Visible' : p <= c => p \in Ended',
           \A d \in dl : d.covered \subseteq Visible' /\ (d.acked => d.covered \subseteq settled'),
           \A d \in deliveries : \E e \in dl : CursorOf(e) = CursorOf(d)
    PROVE  CursorRows' /\ PullHolds' /\ CommittedIsSettled'
<1>1. TypeOK
  BY DEF CursorInv
<1>2. c \in 0..MaxMessages /\ deferred \in SUBSET Messages
  BY <1>1, RangeIs DEF Visible, VisibleIn, TypeOK
<1>3. /\ c <= committed'
      /\ committed' \in {c} \cup deferred \cup UNION {d.covered : d \in dl}
      /\ pull' = Later(pull, committed')
      /\ deferred' \subseteq deferred /\ deliveries' \subseteq dl
      /\ \A d \in dl \ deliveries' : d.acked /\ CursorOf(d) <= committed'
      /\ \A p \in VisibleIn(status') : c < p /\ p <= committed' =>
             p \in deferred \/ \E d \in dl : d.acked /\ p \in d.covered
  BY <1>2, CommitIs
<1>4. committed' \in 0..MaxMessages /\ pull' \in 0..MaxMessages /\ pull \in 0..MaxMessages
  BY <1>1 DEF Grows, TypeOK
<1>5. pull' \in {pull, committed'}
  BY <1>3, <1>4, LaterIs
<1>6. committed' \in {0} \cup Visible'
  BY <1>3, CursorsKept
<1>7. CursorRows'
  BY <1>3, <1>5, <1>6, CursorsKept DEF CursorRows
<1>8. ASSUME NEW p \in Visible', p <= committed' PROVE p \in Ended'
  <2>1. p \in Nat
    BY RangeIs DEF Visible, VisibleIn
  <2>2. CASE p <= c
    BY <2>2
  <2>3. CASE c < p
    BY <1>3, <1>8, <2>3, CursorsKept DEF Visible, Ended
  <2> QED BY <1>2, <2>1, <2>2, <2>3
<1>9. CommittedIsSettled'
  BY <1>8 DEF CommittedIsSettled, Ended
<1>10. PullHolds'
  <2>1. ASSUME NEW p \in Visible', p <= pull'
        PROVE  p \in Ended' \/ \E d \in deliveries' : p <= CursorOf(d)
    <3>1. p \in Nat
      BY RangeIs DEF Visible, VisibleIn
    <3>2. p <= committed' \/ p <= pull
      BY <1>5, <2>1
    <3>3. p \in Ended' \/ \E d \in dl : p <= CursorOf(d)
      BY <1>8, <3>2, Kept
    <3>4. ASSUME NEW d \in dl, d \notin deliveries', p <= CursorOf(d)
          PROVE  p \in Ended'
      <4>1. CursorOf(d) \in d.covered /\ d.covered \subseteq Messages
        BY CursorIs DEF Delivery
      <4>2. CursorOf(d) \in Nat /\ CursorOf(d) <= committed'
        BY <1>3, <3>4, <4>1, RangeIs
      <4> QED BY <1>4, <1>8, <3>1, <3>4, <4>2
    <3> QED BY <3>3, <3>4
  <2> QED BY <2>1 DEF PullHolds
<1> QED BY <1>7, <1>9, <1>10

-----------------------------------------------------------------------------
(* The steps. *)

Suffix == \A m, k \in Messages : status[m] = "absent" /\ m < k => status[k] = "absent"

RowsGrow ==
    /\ Visible \subseteq Visible' /\ Suffix'
    /\ \A n \in Visible' : n \in Visible \/ IsNext(n) \/ n \in HiddenIn(status)

LEMMA SameRows ==
    ASSUME CursorInv, status' = status
    PROVE  RowsGrow /\ Visible' = Visible
BY DEF RowsGrow, Visible, VisibleIn, Suffix, CursorInv, RowsHold

LEMMA ArrivedRows ==
    ASSUME CursorInv, NEW m \in Messages, IsNext(m), NEW to \in {"plain", "queued"},
           status' = Moved({m}, to)
    PROVE  /\ RowsGrow /\ (to = "plain" => m \in Visible')
           /\ \A k \in claim : status'[k] = "promoting"
<1>1. \A k \in Messages : status'[k] = IF k = m THEN to ELSE status[k]
  BY DEF Moved
<1>2. Suffix'
  BY <1>1, RangeIs DEF IsNext, Suffix, CursorInv, RowsHold
<1>3. /\ Visible \subseteq Visible' /\ (to = "plain" => m \in Visible')
      /\ \A n \in Visible' : n \in Visible \/ IsNext(n)
  BY <1>1 DEF Visible, VisibleIn, IsNext
<1>4. \A k \in claim : status'[k] = "promoting"
  BY <1>1 DEF CursorInv, RowsHold, IsNext, TypeOK
<1> QED BY <1>2, <1>3, <1>4 DEF RowsGrow

LEMMA ReleasedRows ==
    ASSUME CursorInv, NEW rows \in SUBSET HiddenIn(status),
           NEW to \in {"queued", "promoting", "released"}, status' = Moved(rows, to)
    PROVE  /\ RowsGrow /\ (to = "released" => rows \subseteq Visible')
           /\ \A n \in Visible' : n \in Visible \/ n \in rows
           /\ \A k \in claim \ rows : status'[k] = "promoting"
           /\ to = "promoting" => \A k \in rows : status'[k] = "promoting"
<1>1. \A k \in Messages : status'[k] = IF k \in rows THEN to ELSE status[k]
  BY DEF Moved
<1>2. rows \subseteq Messages /\ \A k \in rows : status[k] \in {"queued", "promoting"}
  BY DEF HiddenIn
<1>3. Suffix'
  BY <1>1, <1>2 DEF Suffix, CursorInv, RowsHold
<1>4. /\ Visible \subseteq Visible' /\ (to = "released" => rows \subseteq Visible')
      /\ \A n \in Visible' : n \in Visible \/ n \in rows
  BY <1>1, <1>2 DEF Visible, VisibleIn
<1>5. \A k \in claim \ rows : status'[k] = "promoting"
  BY <1>1 DEF CursorInv, RowsHold, TypeOK
<1> QED BY <1>1, <1>2, <1>3, <1>4, <1>5 DEF RowsGrow

LEMMA GrowsIs ==
    ASSUME CursorInv, Overtakes, TypeOK', RowsGrow, settled \subseteq settled'
    PROVE  Grows
BY DEF Overtakes, RowsGrow, Grows

LEMMA Together ==
    ASSUME Overtakes, TypeOK', RowsGrow, CursorRows', TurnHolds', PullHolds', CommittedIsSettled',
           (handling \subseteq Visible)', (turn.batch \subseteq Visible)',
           (retry \subseteq Visible)', (\A m \in claim : status[m] = "promoting")',
           (host = "down" => runner = "none" /\ claim = {})'
    PROVE  CursorInv'
<1>1. RowsHold'
  BY DEF RowsHold, CursorRows, RowsGrow, Suffix
<1>2. HiddenHold'
  BY DEF Overtakes, HiddenHold
<1> QED BY <1>1, <1>2 DEF CursorInv

\* A step that moves no cursor and no delivery.
LEMMA QuietStep ==
    ASSUME CursorInv, Grows, UNCHANGED cursors, deliveries' = deliveries,
           ~Stale \/ Stale' \/ pull <= committed
    PROVE  CursorRows' /\ PullHolds' /\ CommittedIsSettled'
<1>1. CursorRows' /\ CommittedIsSettled'
  BY CursorsKept, Kept DEF cursors
<1>2. CASE ~Stale
  BY <1>1, <1>2, Kept DEF cursors
<1>3. CASE Stale'
  BY <1>1, <1>3 DEF PullHolds
<1>4. CASE pull <= committed
  BY <1>1, <1>4, Kept DEF cursors
<1> QED BY <1>1, <1>2, <1>3, <1>4

\* What the lane refers to, as long as it refers to nothing new.
LEMMA References ==
    ASSUME CursorInv, RowsGrow, handling' \subseteq handling \cup Visible',
           turn' = turn, retry' \subseteq retry
    PROVE  /\ (handling \subseteq Visible)' /\ (turn.batch \subseteq Visible)'
           /\ (retry \subseteq Visible)'
BY DEF CursorInv, RowsHold, RowsGrow

LEMMA ArrivalHolds ==
    ASSUME InOrder, CursorInv, Overtakes, TypeOK', Arrival
    PROVE  CursorInv'
<1> USE DEF lane, cursors
<1>1. "early" \notin Allowed /\ "cross" \notin Allowed
  BY DEF InOrder
<1>2. ASSUME NEW m \in Messages, Arrives(m), RowsGrow PROVE Grows /\ (~Stale \/ pull <= committed)
  BY <1>1, <1>2, GrowsIs DEF Arrives, Stale
<1>3. ASSUME NEW m \in Messages, ArriveQueued(m) PROVE CursorInv'
  <2>1. RowsGrow /\ \A k \in claim : status'[k] = "promoting"
    BY <1>3, ArrivedRows DEF ArriveQueued, Arrives
  <2>2. Grows /\ (~Stale \/ pull <= committed)
    BY <1>2, <1>3, <2>1 DEF ArriveQueued
  <2>3. CursorRows' /\ PullHolds' /\ CommittedIsSettled'
    BY <1>3, <2>2, QuietStep DEF ArriveQueued, Arrives
  <2>4. TurnHolds'
    BY <1>3, <2>2, Kept DEF ArriveQueued, Arrives
  <2>5. /\ (handling \subseteq Visible)' /\ (turn.batch \subseteq Visible)'
        /\ (retry \subseteq Visible)'
    BY <1>3, <2>1, References DEF ArriveQueued, Arrives
  <2>6. /\ (\A k \in claim : status[k] = "promoting")'
        /\ (host = "down" => runner = "none" /\ claim = {})'
    BY <1>3, <2>1 DEF ArriveQueued, Arrives, CursorInv, RowsHold
  <2> QED BY <2>1, <2>3, <2>4, <2>5, <2>6, Together
<1>4. ASSUME NEW m \in Messages, ArriveFromWeb(m) PROVE CursorInv'
  <2>1. RowsGrow /\ m \in Visible' /\ \A k \in claim : status'[k] = "promoting"
    BY <1>4, ArrivedRows DEF ArriveFromWeb, Arrives
  <2>2. Grows /\ (~Stale \/ pull <= committed)
    BY <1>2, <1>4, <2>1 DEF ArriveFromWeb
  <2>3. CursorRows' /\ PullHolds' /\ CommittedIsSettled'
    BY <1>4, <2>2, QuietStep DEF ArriveFromWeb, Arrives
  <2>4. TurnHolds'
    BY <1>4, <2>2, Kept DEF ArriveFromWeb, Arrives
  <2>5. /\ (handling \subseteq Visible)' /\ (turn.batch \subseteq Visible)'
        /\ (retry \subseteq Visible)'
    BY <1>4, <2>1, References DEF ArriveFromWeb, Arrives
  <2>6. /\ (\A k \in claim : status[k] = "promoting")'
        /\ (host = "down" => runner = "none" /\ claim = {})'
    BY <1>4, <2>1 DEF ArriveFromWeb, Arrives, CursorInv, RowsHold
  <2> QED BY <2>1, <2>3, <2>4, <2>5, <2>6, Together
<1>5. ASSUME NEW m \in Messages, ArriveFromChannel(m) PROVE CursorInv'
  <2>1. RowsGrow /\ \A k \in claim : status'[k] = "promoting"
    BY <1>5, ArrivedRows DEF ArriveFromChannel, Arrives
  <2>2. Grows /\ ~Stale
    BY <1>2, <1>5, <2>1 DEF ArriveFromChannel, Stale
  <2>3. ASSUME Refused PROVE CursorRows' /\ PullHolds' /\ CommittedIsSettled'
    BY <1>5, <2>2, <2>3, QuietStep DEF ArriveFromChannel, Arrives, Refused
  <2>4. ASSUME NEW batch \in Prefixes(Since(status', pull)), Sent(batch)
        PROVE  CursorRows' /\ PullHolds' /\ CommittedIsSettled'
    <3>1. batch \in SUBSET Messages /\ batch # {} /\ batch \subseteq Visible'
      BY PrefixTypes DEF Since, Visible, VisibleIn
    <3> QED BY <1>5, <2>2, <2>4, <3>1, SentHolds DEF ArriveFromChannel, Arrives
  <2>5. TurnHolds'
    BY <1>5, <2>2, Kept DEF ArriveFromChannel, Arrives
  <2>6. /\ (handling \subseteq Visible)' /\ (turn.batch \subseteq Visible)'
        /\ (retry \subseteq Visible)'
    BY <1>5, <2>1, References DEF ArriveFromChannel, Arrives
  <2>7. /\ (\A k \in claim : status[k] = "promoting")'
        /\ (host = "down" => runner = "none" /\ claim = {})'
    BY <1>5, <2>1 DEF ArriveFromChannel, Arrives, CursorInv, RowsHold
  <2>8. CursorRows' /\ PullHolds' /\ CommittedIsSettled'
    BY <1>5, <2>3, <2>4 DEF ArriveFromChannel
  <2> QED BY <2>1, <2>5, <2>6, <2>7, <2>8, Together
<1> QED BY <1>3, <1>4, <1>5 DEF Arrival

\* What Clear promises of the inputs before a command.
LEMMA ClearIs ==
    ASSUME InOrder, CursorInv, NEW m \in Messages, Clear(m), NEW p \in Visible, p < m
    PROVE  p \in settled \/ \E d \in deliveries : p <= CursorOf(d)
<1>1. CASE p \in Unsettled
  <2>1. PICK d \in deliveries : p \in d.covered
    BY <1>1 DEF Clear, InOrder, Covered
  <2>2. d \in Delivery
    BY TypedCursors DEF CursorInv, Cursored
  <2> QED BY <2>1, <2>2, CursorIs
<1> QED BY <1>1 DEF Unsettled

LEMMA HandlerHolds ==
    ASSUME InOrder, CursorInv, Overtakes, TypeOK', Handler
    PROVE  CursorInv'
<1>1. PICK m \in Messages : PassOn(m)
  BY DEF Handler
<1>2. status' = status /\ turn' = turn /\ retry' = retry /\ claim' = claim /\ host' = host
      /\ runner' = runner /\ handling' \subseteq handling /\ m \in handling
  BY <1>1 DEF PassOn
<1>3. RowsGrow /\ Visible' = Visible
  BY <1>2, SameRows
<1>4. settled \subseteq settled' /\ (m \in Commands => m \in settled')
  BY <1>1 DEF PassOn
<1>5. Grows /\ ~Stale
  BY <1>2, <1>3, <1>4, GrowsIs DEF Stale
<1>6. ASSUME m \in Commands PROVE CursorRows' /\ PullHolds' /\ CommittedIsSettled'
  <2>1. Clear(m) /\ CompleteOutOfBand(status', m)
    BY <1>1, <1>2, <1>6 DEF PassOn
  <2>2. m \in Visible' \cap settled'
    BY <1>2, <1>3, <1>4, <1>6 DEF CursorInv, RowsHold
  <2>3. \A p \in Visible' : p < m => p \in Ended' \/ \E d \in deliveries : p <= CursorOf(d)
    BY <1>3, <1>4, <2>1, ClearIs DEF Ended
  <2> QED BY <1>5, <2>1, <2>2, <2>3, OutOfBandHolds
<1>7. ASSUME m \notin Commands PROVE CursorRows' /\ PullHolds' /\ CommittedIsSettled'
  <2>1. UNCHANGED <<committed, deferred>> /\ (Sent({m}) \/ Refused)
    BY <1>1, <1>7 DEF PassOn
  <2>2. {m} \subseteq Visible'
    BY <1>2, <1>3 DEF CursorInv, RowsHold
  <2>3. CASE Sent({m})
    BY <1>5, <2>1, <2>2, <2>3, SentHolds
  <2>4. CASE Refused
    BY <1>5, <2>1, <2>4, QuietStep DEF Refused, cursors
  <2> QED BY <2>1, <2>3, <2>4
<1>8. TurnHolds'
  BY <1>2, <1>5, Kept
<1>9. /\ (handling \subseteq Visible)' /\ (turn.batch \subseteq Visible)'
      /\ (retry \subseteq Visible)'
  BY <1>2, <1>3, References
<1>10. /\ (\A k \in claim : status[k] = "promoting")'
       /\ (host = "down" => runner = "none" /\ claim = {})'
  BY <1>2 DEF CursorInv, RowsHold
<1> QED BY <1>3, <1>6, <1>7, <1>8, <1>9, <1>10, Together

LEMMA ColdTurnHolds ==
    ASSUME InOrder, CursorInv, Overtakes, TypeOK', ColdTurn
    PROVE  CursorInv'
<1> USE DEF cursors
<1>1. status' = status /\ claim' = claim /\ host' = host /\ handling' = handling
      /\ settled \subseteq settled'
  BY DEF ColdTurn, ColdRead, ReplyCold, TurnCompletes
<1>2. RowsGrow /\ Visible' = Visible
  BY <1>1, SameRows
<1>3. Grows
  BY <1>1, <1>2, GrowsIs
<1>4. TypeOK /\ RowsHold /\ TurnHolds
  BY DEF CursorInv
<1>5. /\ (handling \subseteq Visible)' /\ (\A m \in claim : status[m] = "promoting")'
  BY <1>1, <1>2, <1>4 DEF RowsHold
<1>6. ASSUME ColdRead PROVE CursorInv'
  <2>1. ~Stale /\ host # "down" /\ deliveries = {} /\ retry' = {}
    BY <1>4, <1>6 DEF ColdRead, Stale, TypeOK
  <2>2. CursorRows' /\ PullHolds' /\ CommittedIsSettled'
    BY <1>3, <1>6, <2>1, QuietStep DEF ColdRead
  <2>3. ASSUME turn' = turn \/ turn'.batch \subseteq Visible', TurnHolds' PROVE CursorInv'
    <3>1. (turn.batch \subseteq Visible)' /\ (retry \subseteq Visible)'
      BY <1>2, <1>4, <2>1, <2>3 DEF RowsHold
    <3>2. (host = "down" => runner = "none" /\ claim = {})'
      BY <1>1, <2>1
    <3> QED BY <1>2, <1>5, <2>2, <2>3, <3>1, <3>2, Together
  <2>4. CASE turn' = turn
    BY <1>3, <2>3, <2>4, Kept
  <2>5. ASSUME NEW batch \in Prefixes(Since(status, pull)),
               \A c \in batch \cap Commands : \A p \in batch : p < c => p \in Commands,
               turn' = [phase |-> IF batch \cap Commands = {} THEN "run" ELSE "reply",
                        batch |-> batch, replies |-> batch \cap Commands]
        PROVE  CursorInv'
    <3>1. /\ batch \subseteq Visible /\ batch \subseteq Messages
      BY PrefixTypes DEF Since, Visible, VisibleIn
    <3>2. PICK k \in Since(status, pull) : batch = {q \in Since(status, pull) : q <= k}
      BY <2>5 DEF Prefixes
    <3>3. /\ turn'.batch = batch /\ turn'.replies = batch \cap Commands
          /\ turn'.phase = "run" => batch \cap Commands = {}
          /\ ToSend' = batch \ Commands
      BY <2>5 DEF ToSend
    <3>4. ASSUME NEW p \in Visible', NEW b \in batch, p <= b
          PROVE  p \in Ended' \cup batch
      <4>1. p \in Visible /\ p \in Nat /\ b \in Nat /\ k \in Nat /\ pull \in Nat
        BY <1>2, <1>4, <3>1, RangeIs DEF Since, Visible, VisibleIn, TypeOK
      <4>2. CASE p <= pull
        BY <1>3, <2>1, <4>2, Kept
      <4>3. CASE pull < p
        <5>1. p \in Since(status, pull)
          BY <4>1, <4>3 DEF Since, Visible
        <5>2. b <= k
          BY <3>2
        <5>3. p <= k
          BY <3>4, <4>1, <5>2
        <5> QED BY <3>2, <5>1, <5>3
      <4> QED BY <4>1, <4>2, <4>3
    <3>5. \A c \in batch \cap Commands, p \in batch \ Commands : c < p
      <4> TAKE c \in batch \cap Commands, p \in batch \ Commands
      <4>1. c \in Nat /\ p \in Nat /\ c # p /\ ~(p < c)
        BY <2>5, <3>1, RangeIs
      <4> QED BY <4>1
    <3>6. TurnHolds'
      BY <3>3, <3>4, <3>5 DEF TurnHolds
    <3>7. turn'.batch \subseteq Visible'
      BY <1>2, <3>1, <3>3
    <3> QED BY <2>3, <3>6, <3>7
  <2> QED BY <1>6, <2>4, <2>5 DEF ColdRead, InOrder
<1>7. ASSUME ~ColdRead PROVE retry' = retry /\ ~Stale /\ host # "down"
  <2>1. runner # "none" /\ retry' = retry
    BY <1>4, <1>7 DEF ColdTurn, ReplyCold, TurnCompletes, TypeOK, NoTurn
  <2> QED BY <1>4, <2>1 DEF Stale, RowsHold
<1>8. ASSUME ~ColdRead, (turn.batch \subseteq Visible)', TurnHolds',
             CursorRows' /\ PullHolds' /\ CommittedIsSettled'
      PROVE  CursorInv'
  <2>1. (retry \subseteq Visible)' /\ (host = "down" => runner = "none" /\ claim = {})'
    BY <1>1, <1>2, <1>4, <1>7, <1>8 DEF RowsHold
  <2> QED BY <1>2, <1>5, <1>8, <2>1, Together
<1>9. ASSUME NEW m \in Messages, ReplyCold(m), ~ColdRead PROVE CursorInv'
  <2>1. /\ m \in turn.replies /\ turn.phase = "reply" /\ deliveries = {}
        /\ \A r \in turn.replies : m <= r
        /\ settled' = settled \cup {m}
    BY <1>4, <1>9 DEF ReplyCold, TypeOK
  <2>2. m \in turn.batch /\ m \in Visible' \cap settled' /\ turn.replies \subseteq Messages
    BY <1>2, <1>4, <2>1 DEF TurnHolds, RowsHold, TypeOK
  <2>3. ASSUME NEW p \in Visible', \E b \in turn.batch : p <= b
        PROVE  p \in Ended' \cup ToSend \cup (turn.replies \ {m})
    BY <1>2, <1>3, <1>4, <2>1, <2>3 DEF TurnHolds, Ended, Grows
  <2>4. ASSUME NEW p \in Visible', p <= m PROVE p \in Ended'
    <3>1. p \in Nat /\ m \in Nat
      BY RangeIs DEF Visible, VisibleIn
    <3>2. p \in Ended' \cup ToSend \cup (turn.replies \ {m})
      BY <2>2, <2>3, <2>4
    <3>3. CASE p \in ToSend
      <4>1. m < p
        BY <1>4, <2>1, <3>3 DEF TurnHolds
      <4> QED BY <2>4, <3>1, <4>1
    <3>4. CASE p \in turn.replies \ {m}
      <4>1. m <= p /\ m # p
        BY <2>1, <3>4
      <4> QED BY <2>4, <3>1, <4>1
    <3> QED BY <3>2, <3>3, <3>4
  <2>5. CursorRows' /\ PullHolds' /\ CommittedIsSettled'
    <3>1. CASE ToSend = {}
      <4>1. CompleteOutOfBand(status', m)
        BY <1>1, <1>9, <3>1 DEF ReplyCold
      <4>2. \A p \in Visible' : p < m => p \in Ended' \/ \E d \in deliveries : p <= CursorOf(d)
        <5> TAKE p \in Visible'
        <5>1. p \in Nat /\ m \in Nat
          BY RangeIs DEF Visible, VisibleIn
        <5> QED BY <2>4, <5>1
      <4> QED BY <1>3, <1>7, <1>9, <2>2, <4>1, <4>2, OutOfBandHolds
    <3>2. CASE ToSend # {}
      <4>1. pull' = Later(pull, m) /\ UNCHANGED <<committed, deferred, deliveries>>
        BY <1>9, <3>2 DEF ReplyCold
      <4>2. pull' \in {pull, m}
        BY <1>4, <4>1, LaterIs, RangeIs DEF TypeOK
      <4>3. CursorRows'
        BY <1>3, <2>2, <4>1, <4>2, CursorsKept DEF CursorRows
      <4>4. ASSUME NEW p \in Visible', p <= pull'
            PROVE  p \in Ended' \/ \E d \in deliveries' : p <= CursorOf(d)
        BY <1>3, <1>7, <1>9, <2>4, <4>1, <4>2, <4>4, Kept
      <4>5. PullHolds'
        BY <4>4 DEF PullHolds
      <4>6. CommittedIsSettled'
        BY <1>3, <4>1, Kept
      <4> QED BY <4>3, <4>5, <4>6
    <3> QED BY <3>1, <3>2
  <2>6. CASE turn.replies # {m}
    <3>1. turn' = [turn EXCEPT !.replies = @ \ {m}]
      BY <1>9, <2>6 DEF ReplyCold
    <3>2. turn'.batch = turn.batch /\ turn'.replies = turn.replies \ {m}
          /\ turn'.phase = turn.phase /\ ToSend' = ToSend
      BY <1>4, <3>1 DEF TypeOK, ToSend
    <3>3. TurnHolds'
      BY <1>4, <2>1, <2>3, <3>2 DEF TurnHolds
    <3>4. (turn.batch \subseteq Visible)'
      BY <1>2, <1>4, <3>2 DEF RowsHold
    <3> QED BY <1>8, <1>9, <2>5, <3>3, <3>4
  <2>7. CASE turn.replies = {m} /\ ToSend # {}
    <3>1. turn' = [turn EXCEPT !.phase = "run", !.replies = {}]
      BY <1>9, <2>7 DEF ReplyCold
    <3>2. turn'.batch = turn.batch /\ turn'.replies = {} /\ ToSend' = ToSend
      BY <1>4, <3>1 DEF TypeOK, ToSend
    <3>3. TurnHolds'
      BY <2>3, <2>7, <3>2 DEF TurnHolds
    <3>4. (turn.batch \subseteq Visible)'
      BY <1>2, <1>4, <3>2 DEF RowsHold
    <3> QED BY <1>8, <1>9, <2>5, <3>3, <3>4
  <2>8. CASE turn.replies = {m} /\ ToSend = {}
    <3>1. turn' = NoTurn
      BY <1>9, <2>8 DEF ReplyCold
    <3>2. TurnHolds' /\ (turn.batch \subseteq Visible)'
      BY <1>3, <3>1, Kept DEF NoTurn
    <3> QED BY <1>8, <1>9, <2>5, <3>2
  <2> QED BY <2>6, <2>7, <2>8
<1>10. ASSUME TurnCompletes, ~ColdRead PROVE CursorInv'
  <2> DEFINE c == Later(committed, Max(ToSend))
  <2>1. /\ turn.phase = "run" /\ ToSend # {} /\ ToSend \in SUBSET Messages
        /\ settled' = settled \cup ToSend /\ turn' = NoTurn /\ turn.replies = {}
        /\ CommitTo(status', c, deferred, deliveries)
    BY <1>1, <1>4, <1>10 DEF TurnCompletes, TypeOK, ToSend, TurnHolds
  <2>2. Max(ToSend) \in ToSend /\ Max(ToSend) \in 0..MaxMessages /\ ToSend \subseteq turn.batch
    BY <2>1, MaxTypes DEF ToSend
  <2>3. c \in {committed, Max(ToSend)} /\ committed <= c
    BY <1>4, <2>2, LaterIs DEF TypeOK
  <2>4. c \in {0} \cup Visible'
    BY <1>2, <1>4, <2>2, <2>3 DEF RowsHold
  <2>5. ASSUME NEW p \in Visible', p <= c PROVE p \in Ended'
    <3>1. CASE p <= committed
      BY <1>3, <3>1, Kept
    <3>2. CASE p <= Max(ToSend)
      BY <1>2, <1>3, <1>4, <2>1, <2>2, <3>2 DEF TurnHolds, Ended, Grows
    <3> HIDE DEF c
    <3> QED BY <2>3, <2>5, <3>1, <3>2
  <2>6. deliveries \in SUBSET Delivery
    BY <1>4, TypedCursors DEF Cursored
  <2>7. CursorRows' /\ PullHolds' /\ CommittedIsSettled'
    <3> HIDE DEF c
    <3> QED BY <1>3, <1>7, <1>10, <2>1, <2>3, <2>4, <2>5, <2>6, CommitHolds, CursorsKept
  <2>8. TurnHolds' /\ (turn.batch \subseteq Visible)'
    BY <1>3, <2>1, Kept DEF NoTurn
  <2> QED BY <1>8, <1>10, <2>7, <2>8
<1> QED BY <1>6, <1>9, <1>10 DEF ColdTurn

LEMMA FollowUpHolds ==
    ASSUME InOrder, CursorInv, Overtakes, TypeOK', FollowUp
    PROVE  CursorInv'
<1> USE DEF cursors
<1>1. turn' = turn /\ retry' = retry /\ host' = host /\ runner' = runner /\ handling' = handling
      /\ settled \subseteq settled'
  BY DEF FollowUp, QueryIdle, Promote, RestoreClaimed, Inject, ReplyClaimed
<1>2. TypeOK /\ RowsHold
  BY DEF CursorInv
<1>3. claim \subseteq HiddenIn(status)
  BY <1>2 DEF RowsHold, HiddenIn, TypeOK
<1>4. ~Stale /\ (host = "down" => runner = "none" /\ claim' = {})
  <2>1. runner # "none" \/ claim # {}
    BY DEF FollowUp, QueryIdle, Promote, CanDispatch, RestoreClaimed, Inject, ReplyClaimed
  <2>2. host # "down"
    BY <1>2, <2>1 DEF RowsHold
  <2> QED BY <2>1, <2>2 DEF Stale
<1>5. ASSUME RowsGrow, CursorRows' /\ PullHolds' /\ CommittedIsSettled',
             (\A m \in claim : status[m] = "promoting")'
      PROVE  CursorInv'
  <2>1. Grows
    BY <1>1, <1>5, GrowsIs
  <2>2. TurnHolds'
    BY <1>1, <2>1, Kept
  <2>3. /\ (handling \subseteq Visible)' /\ (turn.batch \subseteq Visible)'
        /\ (retry \subseteq Visible)'
    BY <1>1, <1>5, References
  <2>4. (host = "down" => runner = "none" /\ claim = {})'
    BY <1>1, <1>4
  <2> QED BY <1>5, <2>2, <2>3, <2>4, Together
<1>6. ASSUME Dispatch, UNCHANGED cursors, deliveries' = deliveries PROVE CursorInv'
  <2>1. claim' \in SUBSET HiddenIn(status) /\ status' = Moved(claim', "promoting")
    BY <1>6 DEF Dispatch, Claimable, Queued, HiddenIn
  <2>2. RowsGrow /\ \A m \in claim' : status'[m] = "promoting"
    BY <2>1, ReleasedRows
  <2>3. Grows
    BY <1>1, <2>2, GrowsIs
  <2>4. CursorRows' /\ PullHolds' /\ CommittedIsSettled'
    BY <1>4, <1>6, <2>3, QuietStep
  <2> QED BY <1>5, <2>2, <2>4
<1>7. ASSUME UNCHANGED <<claim, status>>, UNCHANGED cursors, deliveries' = deliveries
      PROVE  CursorInv'
  <2>1. RowsGrow /\ Grows
    BY <1>1, <1>7, SameRows, GrowsIs
  <2>2. CursorRows' /\ PullHolds' /\ CommittedIsSettled'
    BY <1>4, <1>7, <2>1, QuietStep
  <2> QED BY <1>2, <1>5, <1>7, <2>1, <2>2 DEF RowsHold
<1>8. ASSUME QueryIdle PROVE CursorInv'
  BY <1>6, <1>7, <1>8 DEF QueryIdle
<1>9. ASSUME Promote PROVE CursorInv'
  BY <1>6, <1>9 DEF Promote
<1>10. ASSUME RestoreClaimed PROVE CursorInv'
  <2>1. status' = Moved(claim, "queued") /\ claim' = {}
    BY <1>10 DEF RestoreClaimed
  <2>2. RowsGrow
    BY <1>3, <2>1, ReleasedRows
  <2>3. Grows
    BY <1>1, <2>2, GrowsIs
  <2>4. CursorRows' /\ PullHolds' /\ CommittedIsSettled'
    BY <1>4, <1>10, <2>3, QuietStep DEF RestoreClaimed
  <2> QED BY <1>5, <2>1, <2>2, <2>4
<1>11. ASSUME Inject PROVE CursorInv'
  <2>1. /\ status' = Moved(claim, "released") /\ claim' = {} /\ claim # {}
        /\ claim \in SUBSET Messages /\ UNCHANGED <<committed, deferred>>
    BY <1>2, <1>11 DEF Inject, TypeOK
  <2>2. RowsGrow /\ claim \subseteq Visible'
    BY <1>3, <2>1, ReleasedRows
  <2>3. Grows
    BY <1>1, <2>2, GrowsIs
  <2>4. ASSUME Sent(claim) PROVE CursorRows' /\ PullHolds' /\ CommittedIsSettled'
    BY <1>4, <2>1, <2>2, <2>3, <2>4, SentHolds
  <2>5. ASSUME UNCHANGED <<deliveries, pull>>
        PROVE  CursorRows' /\ PullHolds' /\ CommittedIsSettled'
    BY <1>4, <2>1, <2>3, <2>5, QuietStep
  <2>6. CursorRows' /\ PullHolds' /\ CommittedIsSettled'
    BY <1>11, <2>4, <2>5 DEF Inject
  <2> QED BY <1>5, <2>1, <2>2, <2>6
<1>12. ASSUME NEW m \in Messages, ReplyClaimed(m) PROVE CursorInv'
  <2>1. /\ status' = Moved({m}, "released") /\ claim' = claim \ {m} /\ m \in claim
        /\ m \in settled' /\ Clear(m) /\ CompleteOutOfBand(status', m)
    BY <1>12 DEF ReplyClaimed
  <2>2. {m} \in SUBSET HiddenIn(status)
    BY <1>3, <2>1
  <2>3. /\ RowsGrow /\ m \in Visible'
        /\ \A n \in Visible' : n \in Visible \/ n = m
        /\ \A k \in claim \ {m} : status'[k] = "promoting"
    <3>1. /\ RowsGrow /\ {m} \subseteq Visible'
          /\ \A n \in Visible' : n \in Visible \/ n \in {m}
          /\ \A k \in claim \ {m} : status'[k] = "promoting"
      BY <2>1, <2>2, ReleasedRows
    <3> QED BY <3>1
  <2>4. Grows
    BY <1>1, <2>3, GrowsIs
  <2>5. \A p \in Visible' : p < m => p \in Ended' \/ \E d \in deliveries : p <= CursorOf(d)
    <3> SUFFICES ASSUME NEW p \in Visible', p < m
                 PROVE  p \in Ended' \/ \E d \in deliveries : p <= CursorOf(d)
      OBVIOUS
    <3>1. p # m
      BY RangeIs
    <3>2. p \in settled \/ \E d \in deliveries : p <= CursorOf(d)
      BY <2>1, <2>3, <3>1, ClearIs
    <3> QED BY <1>1, <3>2 DEF Ended
  <2>6. CursorRows' /\ PullHolds' /\ CommittedIsSettled'
    BY <1>4, <2>1, <2>3, <2>4, <2>5, OutOfBandHolds
  <2> QED BY <1>5, <2>1, <2>3, <2>6
<1> QED BY <1>8, <1>9, <1>10, <1>11, <1>12 DEF FollowUp

LEMMA WarmRunnerHolds ==
    ASSUME InOrder, CursorInv, Overtakes, TypeOK', WarmRunner
    PROVE  CursorInv'
<1> USE DEF cursors
<1>1. /\ status' = status /\ claim' = claim /\ host' = host /\ handling' = handling
      /\ settled \subseteq settled' /\ runner # "none" /\ (turn' = turn \/ turn' = NoTurn)
  BY DEF WarmRunner, Acknowledge, Retire, IdleExit, Fails, Exits
<1>2. TypeOK /\ RowsHold
  BY DEF CursorInv
<1>3. RowsGrow /\ Visible' = Visible /\ Grows
  BY <1>1, SameRows, GrowsIs
<1>4. ~Stale /\ host # "down"
  BY <1>1, <1>2 DEF Stale, RowsHold
<1>5. ASSUME retry' \subseteq retry \cup turn.batch, CursorRows' /\ PullHolds' /\ CommittedIsSettled'
      PROVE  CursorInv'
  <2>1. TurnHolds'
    BY <1>1, <1>3, Kept
  <2>2. (turn.batch \subseteq Visible)' /\ (retry \subseteq Visible)' /\ (handling \subseteq Visible)'
    BY <1>1, <1>2, <1>3, <1>5 DEF RowsHold, NoTurn
  <2>3. /\ (\A m \in claim : status[m] = "promoting")'
        /\ (host = "down" => runner = "none" /\ claim = {})'
    BY <1>1, <1>2, <1>4 DEF RowsHold
  <2> QED BY <1>3, <1>5, <2>1, <2>2, <2>3, Together
<1>6. ASSUME NEW d \in deliveries, Acknowledge(d) PROVE CursorInv'
  <2> DEFINE e == [d EXCEPT !.acked = TRUE]
             dl == (deliveries \ {d}) \cup {e}
  <2>1. d \in Delivery /\ deliveries \in SUBSET Delivery
    BY <1>2, TypedCursors DEF Cursored
  <2>2. e \in Delivery /\ e.covered = d.covered /\ CursorOf(e) = CursorOf(d)
    BY <2>1 DEF Delivery, CursorOf
  <2>3. d.covered \subseteq settled' /\ CommitTo(status', committed, deferred, dl) /\ retry' = retry
    BY <1>1, <1>6 DEF Acknowledge
  <2>4. committed \in {0} \cup Visible' /\ committed <= committed
    BY <1>2, <1>3 DEF RowsHold, TypeOK
  <2>5. \A x \in dl : x.covered \subseteq Visible' /\ (x.acked => x.covered \subseteq settled')
    BY <1>3, <2>2, <2>3, CursorsKept
  <2>6. \A x \in deliveries : \E y \in dl : CursorOf(y) = CursorOf(x)
    BY <2>2
  <2>7. dl \in SUBSET Delivery
    BY <2>1, <2>2
  <2>8. \A p \in Visible' : p <= committed => p \in Ended'
    BY <1>3, Kept
  <2>9. CursorRows' /\ PullHolds' /\ CommittedIsSettled'
    <3> HIDE DEF dl
    <3> QED BY <1>3, <1>4, <2>3, <2>4, <2>5, <2>6, <2>7, <2>8, CommitHolds
  <2> QED BY <1>5, <2>3, <2>9
<1>7. ASSUME Retire PROVE CursorInv'
  <2>1. CursorRows' /\ PullHolds' /\ CommittedIsSettled'
    BY <1>3, <1>4, <1>7, QuietStep DEF Retire
  <2> QED BY <1>5, <1>7, <2>1 DEF Retire
<1>8. ASSUME NEW failed \in SUBSET turn.batch, Exits(failed) PROVE CursorInv'
  <2>1. /\ UNCHANGED <<committed, deferred>> /\ deliveries' = {} /\ retry' = failed
        /\ pull' = IF deliveries # {} THEN committed ELSE pull
    BY <1>8 DEF Exits, Rewound
  <2>2. CommittedIsSettled'
    BY <1>3, <2>1, Kept
  <2>3. CursorRows'
    BY <1>3, <2>1, CursorsKept DEF CursorRows
  <2>4. PullHolds'
    <3>1. CASE deliveries # {}
      <4>1. pull' <= committed'
        BY <1>2, <2>1, <3>1 DEF TypeOK
      <4> QED BY <1>3, <2>2, <4>1, Kept
    <3>2. CASE deliveries = {}
      BY <1>3, <1>4, <2>1, <3>2, Kept
    <3> QED BY <3>1, <3>2
  <2> QED BY <1>5, <2>1, <2>2, <2>3, <2>4
<1>9. ASSUME IdleExit PROVE CursorInv'
  BY <1>8, <1>9 DEF IdleExit
<1>10. ASSUME Fails PROVE CursorInv'
  BY <1>8, <1>10 DEF Fails
<1> QED BY <1>6, <1>7, <1>9, <1>10 DEF WarmRunner

\* Once everything a reader can see is settled, the cursors may stand anywhere.
LEMMA AllSettled ==
    ASSUME Visible' \subseteq settled'
    PROVE  PullHolds' /\ CommittedIsSettled'
BY DEF PullHolds, CommittedIsSettled, Ended

LEMMA HostHolds ==
    ASSUME InOrder, CursorInv, Overtakes, TypeOK', Host
    PROVE  CursorInv'
<1> USE DEF cursors
<1>1. TypeOK /\ RowsHold
  BY DEF CursorInv
<1>2. ASSUME StopRunner PROVE CursorInv'
  <2> DEFINE through == Max({committed} \cup Covered)
             flushed == IF deliveries = {} THEN committed
                        ELSE FlushTo(status, through, deferred)
  <2>1. /\ status' = status /\ claim' = claim /\ host' = host /\ handling' = handling
        /\ settled' = settled \cup Covered \cup ToSend /\ turn' = NoTurn
        /\ runner # "none" /\ deliveries' = {} /\ retry' = {} /\ deferred' \subseteq deferred
        /\ Unsettled \subseteq Covered \cup ToSend
        /\ pull' = Later(pull, committed') /\ committed' = Max({flushed} \cup ToSend)
    BY <1>2 DEF StopRunner, NothingElseWaits, InOrder
  <2>2. RowsGrow /\ Visible' = Visible /\ Grows
    BY <2>1, SameRows, GrowsIs
  <2>3. Visible' \subseteq settled'
    BY <2>1, <2>2 DEF Unsettled
  <2>4. /\ Covered \subseteq Visible /\ ToSend \subseteq Visible /\ deferred \subseteq Visible
        /\ Covered \in SUBSET Messages /\ committed \in 0..MaxMessages
        /\ pull \in 0..MaxMessages /\ deferred \in SUBSET Messages
    BY <1>1, TypedCursors DEF RowsHold, Covered, ToSend, Cursored
  <2>5. through \in {committed} \cup Covered /\ through \in 0..MaxMessages
    <3>1. {committed} \cup Covered \in SUBSET (0..MaxMessages)
      BY <2>4, RangeIs
    <3> QED BY <3>1, MaxIs, RangeIs
  <2>6. flushed \in {committed} \cup Covered \cup deferred
    <3> HIDE DEF through
    <3> QED BY <2>4, <2>5, FlushIs
  <2> HIDE DEF flushed
  <2>7. committed' \in {flushed} \cup ToSend
    <3>1. {flushed} \cup ToSend \in SUBSET (0..MaxMessages)
      BY <1>1, <2>4, <2>6, RangeIs DEF Visible, VisibleIn
    <3> QED BY <2>1, <3>1, MaxIs, RangeIs
  <2>8. committed' \in {0} \cup Visible' /\ committed' \in 0..MaxMessages
    BY <1>1, <2>2, <2>4, <2>6, <2>7, RangeIs DEF RowsHold, Visible, VisibleIn
  <2>9. pull' \in {0} \cup Visible'
    BY <1>1, <2>1, <2>2, <2>4, <2>8, LaterIs DEF RowsHold
  <2>10. CursorRows'
    BY <2>1, <2>2, <2>3, <2>4, <2>8, <2>9 DEF CursorRows
  <2>11. TurnHolds' /\ (turn.batch \subseteq Visible)'
    BY <2>1, <2>2, Kept DEF NoTurn
  <2>12. /\ (handling \subseteq Visible)' /\ (retry \subseteq Visible)'
         /\ (\A m \in claim : status[m] = "promoting")'
         /\ (host = "down" => runner = "none" /\ claim = {})'
    BY <1>1, <2>1, <2>2 DEF RowsHold
  <2> QED BY <2>2, <2>3, <2>10, <2>11, <2>12, AllSettled, Together
<1>3. ASSUME StopRetry PROVE CursorInv'
  <2>1. /\ UNCHANGED <<status, claim, host, handling, deferred, turn, runner, deliveries>>
        /\ settled' = settled \cup retry /\ retry' = {} /\ retry # {}
        /\ Unsettled \subseteq retry /\ runner = "none"
        /\ pull' = Later(pull, committed') /\ committed' = Later(committed, Max(retry))
    BY <1>3 DEF StopRetry, NothingElseWaits, InOrder
  <2>2. RowsGrow /\ Visible' = Visible /\ Grows
    BY <2>1, SameRows, GrowsIs
  <2>3. Visible' \subseteq settled'
    BY <2>1, <2>2 DEF Unsettled
  <2>4. Max(retry) \in retry /\ Max(retry) \in 0..MaxMessages
    BY <1>1, <2>1, MaxTypes DEF TypeOK
  <2>5. committed' \in {committed, Max(retry)} /\ committed' \in 0..MaxMessages
    BY <1>1, <2>1, <2>4, LaterIs DEF TypeOK
  <2>6. pull' \in {pull, committed'}
    BY <1>1, <2>1, <2>5, LaterIs DEF TypeOK
  <2>7. committed' \in {0} \cup Visible' /\ pull' \in {0} \cup Visible'
    BY <1>1, <2>2, <2>4, <2>5, <2>6 DEF RowsHold
  <2>8. CursorRows'
    BY <1>1, <2>1, <2>2, <2>7 DEF CursorRows, RowsHold
  <2>9. TurnHolds'
    BY <2>1, <2>2, Kept
  <2>10. /\ (handling \subseteq Visible)' /\ (retry \subseteq Visible)'
         /\ (turn.batch \subseteq Visible)' /\ (\A m \in claim : status[m] = "promoting")'
         /\ (host = "down" => runner = "none" /\ claim = {})'
    BY <1>1, <2>1, <2>2 DEF RowsHold
  <2> QED BY <2>2, <2>3, <2>8, <2>9, <2>10, AllSettled, Together
<1>4. ASSUME Crash PROVE CursorInv'
  <2>1. /\ UNCHANGED <<status, pull, committed, settled>> /\ turn' = NoTurn
        /\ deferred' = {} /\ handling' = {} /\ runner' = "none" /\ claim' = {}
        /\ deliveries' = {} /\ wake' = FALSE /\ retry' = {} /\ host' = "down"
        /\ pull <= committed \/ HiddenIn(status) = {}
    BY <1>4 DEF Crash, InOrder
  <2>2. RowsGrow /\ Visible' = Visible /\ Grows
    BY <2>1, SameRows, GrowsIs
  <2>3. CommittedIsSettled' /\ TurnHolds'
    BY <2>1, <2>2, Kept
  <2>4. PullHolds'
    <3>1. CASE pull <= committed
      BY <2>1, <2>2, <2>3, <3>1, Kept
    <3>2. CASE HiddenIn(status) = {}
      <4>1. HiddenIn(status') = {}
        BY <2>1, <3>2
      <4> QED BY <2>1, <4>1 DEF PullHolds, Stale
    <3> QED BY <2>1, <3>1, <3>2
  <2>5. CursorRows'
    BY <1>1, <2>1, <2>2 DEF CursorRows, RowsHold
  <2>6. /\ (handling \subseteq Visible)' /\ (retry \subseteq Visible)'
        /\ (turn.batch \subseteq Visible)' /\ (\A m \in claim : status[m] = "promoting")'
        /\ (host = "down" => runner = "none" /\ claim = {})'
    BY <2>1 DEF NoTurn
  <2> QED BY <2>2, <2>3, <2>4, <2>5, <2>6, Together
<1>5. ASSUME Restart PROVE CursorInv'
  <2>1. /\ UNCHANGED cursors /\ UNCHANGED <<handling, turn, runner, claim, deliveries, retry, settled>>
        /\ host' = "starting" /\ host = "down" /\ claim = {}
    BY <1>1, <1>5 DEF Restart, RowsHold
  <2>2. /\ \A m \in Messages : \/ status'[m] = status[m]
                               \/ /\ m \in HiddenIn(status)
                                  /\ status'[m] \in {"released", "queued"}
        /\ HiddenIn(status) = {} => status' = status /\ wake' = wake
    <3>1. CASE HiddenIn(status) = {}
      <4>1. status' = status /\ wake' = wake
        BY <1>5, <3>1 DEF Restart
      <4> QED BY <4>1
    <3>2. CASE HiddenIn(status) # {}
      BY <1>5, <3>2 DEF Restart
    <3> QED BY <3>1, <3>2
  <2>3. RowsGrow
    <3>1. \A m \in Messages : status[m] = "absent" <=> status'[m] = "absent"
      BY <2>2 DEF HiddenIn
    <3>2. Suffix'
      BY <1>1, <3>1 DEF Suffix, RowsHold
    <3>3. Visible \subseteq Visible' /\ \A n \in Visible' : n \in Visible \/ n \in HiddenIn(status)
      BY <2>2 DEF Visible, VisibleIn, HiddenIn
    <3> QED BY <3>2, <3>3 DEF RowsGrow
  <2>4. Grows
    BY <2>1, <2>3, GrowsIs
  <2>5. ~Stale \/ Stale'
    BY <2>1, <2>2 DEF Stale
  <2>6. CursorRows' /\ PullHolds' /\ CommittedIsSettled'
    BY <2>1, <2>4, <2>5, QuietStep
  <2>7. TurnHolds'
    BY <2>1, <2>4, Kept
  <2>8. /\ (handling \subseteq Visible)' /\ (turn.batch \subseteq Visible)'
        /\ (retry \subseteq Visible)'
    BY <2>1, <2>3, References
  <2> QED BY <2>1, <2>3, <2>6, <2>7, <2>8, Together
<1>6. ASSUME Recover PROVE CursorInv'
  <2>1. /\ UNCHANGED <<status, committed, deferred, handling, turn, runner, claim, deliveries, retry, settled>>
        /\ host' = "up" /\ pull' = IF pull > committed THEN committed ELSE pull
    BY <1>6 DEF Recover
  <2>2. RowsGrow /\ Visible' = Visible /\ Grows
    BY <2>1, SameRows, GrowsIs
  <2>3. CommittedIsSettled' /\ TurnHolds'
    BY <2>1, <2>2, Kept
  <2>4. pull' <= committed' /\ pull' \in {pull, committed}
    BY <1>1, <2>1 DEF TypeOK
  <2>5. PullHolds'
    BY <2>2, <2>3, <2>4, Kept
  <2>6. CursorRows'
    BY <1>1, <2>1, <2>2, <2>4 DEF CursorRows, RowsHold
  <2>7. /\ (handling \subseteq Visible)' /\ (retry \subseteq Visible)'
        /\ (turn.batch \subseteq Visible)' /\ (\A m \in claim : status[m] = "promoting")'
        /\ (host = "down" => runner = "none" /\ claim = {})'
    BY <1>1, <2>1, <2>2 DEF RowsHold
  <2> QED BY <2>2, <2>3, <2>5, <2>6, <2>7, Together
<1> QED BY <1>2, <1>3, <1>4, <1>5, <1>6 DEF Host

LEMMA CursorInvInit == Init => CursorInv
<1> SUFFICES ASSUME Init PROVE CursorInv
  OBVIOUS
<1>1. TypeOK
  BY InitTypes
<1>2. Visible = {} /\ HiddenIn(status) = {}
  BY DEF Init, Visible, VisibleIn, HiddenIn
<1>3. RowsHold
  BY <1>2 DEF Init, RowsHold, NoTurn
<1>4. TurnHolds /\ PullHolds /\ CommittedIsSettled /\ HiddenHold
  BY <1>2 DEF Init, TurnHolds, PullHolds, CommittedIsSettled, HiddenHold, NoTurn
<1> QED BY <1>1, <1>3, <1>4 DEF CursorInv

LEMMA CursorInvStep ==
    ASSUME InOrder, CursorInv, [Next]_vars
    PROVE  CursorInv'
<1>1. CASE Next
  <2>1. TypeOK' /\ Overtakes
    BY <1>1, StepTypes DEF CursorInv, Next
  <2> QED BY <1>1, <2>1, ArrivalHolds, HandlerHolds, ColdTurnHolds, FollowUpHolds,
             WarmRunnerHolds, HostHolds DEF Next
<1>2. CASE UNCHANGED vars
  <2>1. TypeOK'
    BY <1>2 DEF CursorInv, TypeOK, vars, cursors, lane, ToSend
  <2>2. Visible' = Visible /\ HiddenIn(status') = HiddenIn(status)
    BY <1>2 DEF Visible, vars
  <2>3. RowsHold' /\ HiddenHold' /\ CommittedIsSettled'
    BY <1>2, <2>2
    DEF CursorInv, RowsHold, HiddenHold, CommittedIsSettled, TakenUp, vars, cursors, lane
  <2>4. TurnHolds' /\ PullHolds'
    BY <1>2, <2>2
    DEF CursorInv, TurnHolds, PullHolds, Stale, Ended, ToSend, vars, cursors, lane
  <2> QED BY <2>1, <2>3, <2>4 DEF CursorInv
<1> QED BY <1>1, <1>2

\* The committed cursor is recovery-safe: whatever fails, is stopped or crashes,
\* it never steps over a visible message nobody settled.
THEOREM CommittedSettled == ASSUME InOrder PROVE Spec => []CommittedIsSettled
<1>1. CursorInv /\ [Next]_vars => CursorInv'
  BY CursorInvStep
<1>2. CursorInv => CommittedIsSettled
  BY DEF CursorInv
<1> QED BY <1>1, <1>2, CursorInvInit, PTL DEF Spec

\* And no message a reader can see is forgotten behind the next-pull cursor: the
\* runner that is to answer it, or its exit, is still to come.
THEOREM NoneForgotten == ASSUME InOrder PROVE Spec => []NothingForgotten
<1>1. CursorInv /\ [Next]_vars => CursorInv'
  BY CursorInvStep
<1>2. CursorInv => NothingForgotten
  <2> SUFFICES ASSUME CursorInv, host = "up", NEW m \in Unsettled \ overtaken, ~(m > pull)
               PROVE  \E d \in deliveries : m <= CursorOf(d)
    BY DEF NothingForgotten
  <2>1. m \in Visible /\ m \notin Ended /\ ~Stale
    BY DEF Unsettled, Ended, Stale
  <2>2. m <= pull
    BY <2>1, RangeIs DEF CursorInv, TypeOK, Visible, VisibleIn
  <2> QED BY <2>1, <2>2 DEF CursorInv, PullHolds
<1> QED BY <1>1, <1>2, CursorInvInit, PTL DEF Spec
=============================================================================
