------------------------- MODULE ChannelTurnProofs --------------------------
(* What becomes of a turn: closed is closed, completed is settled, and an  *)
(* input is consumed only when its user was answered or told.              *)
EXTENDS ChannelReliabilityProofs

-----------------------------------------------------------------------------
(* Only a turn under way is leased, and a closed one never changes again.  *)

LeaseInv == turn.leased => turn.status \in {"running", "finalizing"}

LEMMA FencedClosed ==
  ASSUME NEW t \in TurnType, t.leased => t.status \in {"running", "finalizing"},
         NEW status \in ClosedTurn, NEW error \in Errors
  PROVE  /\ t.status \in ClosedTurn => Fenced(t, status, error) = t
         /\ ~Fenced(t, status, error).leased
         /\ Fenced(t, status, error).status \in {status, t.status}
BY DEF Fenced, Released, TurnType, OpenTurn, ClosedTurn

LEMMA ClaimedFacts ==
  ASSUME NEW t \in TurnType
  PROVE  /\ Claimed(t).status = "running" /\ Claimed(t).error = t.error
         /\ Retried(Claimed(t)).status = "retry_wait" /\ ~Retried(Claimed(t)).leased
         /\ Retried(Claimed(t)).error = "retry"
<1>1. Claimed(t).status = "running" /\ Claimed(t).error = t.error
  BY DEF Claimed, TurnType
<1> QED
  BY <1>1, ClaimedType, RetriedType

\* A turn whose lease ran out is closed; no other turn changes.
LEMMA ExpiredFacts ==
  ASSUME NEW t \in TurnType
  PROVE  \/ FencedExpired(t) = t /\ ~(t.status \in {"running", "finalizing"} /\ t.leased /\ ~t.live)
         \/ /\ t.status \in {"running", "finalizing"}
            /\ FencedExpired(t).status = "interrupted" /\ ~FencedExpired(t).leased
            /\ FencedExpired(t).error = IF t.error = "none" THEN "manual" ELSE t.error
<1> DEFINE r == Released(t, "interrupted")
           e == IF t.error = "none" THEN "manual" ELSE t.error
<1>1. r \in TurnType /\ r.status = "interrupted" /\ ~r.leased
  BY ReleasedType DEF r, Released, TurnType, ClosedTurn
<1> HIDE DEF r
<1>2. LET f == [r EXCEPT !.token = @ + 1, !.error = e]
      IN  f.status = "interrupted" /\ ~f.leased /\ f.error = e
  BY <1>1 DEF TurnType
<1> QED
  BY <1>2 DEF FencedExpired, Fenced, OpenTurn, r, e

Asked == [turn EXCEPT !.error = "none"]

LEMMA AskedFacts ==
  ASSUME turn \in TurnType
  PROVE  /\ Asked \in TurnType
         /\ Claimed(Asked).status = "running" /\ Claimed(Asked).error = "none"
         /\ Resumed = IF AwaitsUser THEN Claimed(Asked) ELSE turn
<1>1. Asked \in TurnType /\ Asked.error = "none"
  BY DEF Asked, TurnType, Errors
<1> QED
  BY <1>1, ClaimedFacts DEF Resumed, Asked

LEMMA InitLease == Init => LeaseInv
BY DEF Init, LeaseInv

LEMMA BeginTurn ==
  ASSUME TypeOK, LeaseInv, Begin
  PROVE  LeaseInv' /\ (turn.status \in ClosedTurn => turn' = turn)
<1> DEFINE t0 == IF turn.status = "none" THEN [turn EXCEPT !.status = "queued"] ELSE turn
           t1 == IF DeliveredEffect THEN Fenced(t0, "interrupted", "manual") ELSE t0
<1>0. turn \in TurnType
  BY TypeParts DEF DurableType
<1>1. /\ t0 \in TurnType /\ (t0.leased => t0.status \in {"running", "finalizing"})
      /\ turn.status \in ClosedTurn => t0 = turn
  BY <1>0 DEF TurnType, LeaseInv, OpenTurn, ClosedTurn
<1> HIDE DEF t0
<1>2. /\ t1 \in TurnType /\ (t1.leased => t1.status \in {"running", "finalizing"})
      /\ turn.status \in ClosedTurn => t1 = turn
  BY <1>1, FencedType, FencedClosed DEF ClosedTurn, Errors
<1> HIDE DEF t1
<1>3. \/ turn' = t1
      \/ /\ Claimable(t1)
         /\ turn' \in {Claimed(t1), Retried(Claimed(t1))}
  BY DEF Begin, t0, t1
<1>4. t1.status \in ClosedTurn => ~Claimable(t1)
  BY DEF Claimable, ClosedTurn
<1> QED
  BY <1>2, <1>3, <1>4, ClaimedFacts DEF LeaseInv

LEMMA FinishTurn ==
  ASSUME TypeOK, LeaseInv, NEW status \in ClosedTurn, Finish(status)
  PROVE  /\ LeaseInv' /\ (turn.status \in ClosedTurn => turn' = turn)
         /\ MayClose => turn'.status = status
         /\ ~MayClose => turn' = turn
<1>1. turn \in TurnType /\ Resumed \in TurnType
  BY TypeParts, ResumedType DEF DurableType
<1>2. Closed(Resumed, status).status = status /\ ~Closed(Resumed, status).leased
  BY <1>1, ClosedType
<1>3. MayClose => turn.status \notin ClosedTurn
  BY DEF MayClose, Holds, LiveTurn, AwaitsUser, ClosedTurn
<1> QED
  BY <1>2, <1>3 DEF Finish, LeaseInv

LEMMA SettleTurn ==
  ASSUME TypeOK, LeaseInv, NEW healthy \in BOOLEAN, Settle(healthy)
  PROVE  LeaseInv' /\ (turn.status \in ClosedTurn => turn' = turn)
<1>0. turn \in TurnType /\ Resumed \in TurnType
  BY TypeParts, ResumedType DEF DurableType
<1>1. CASE \E status \in ClosedTurn : Finish(status)
  BY <1>1, FinishTurn
<1>2. CASE SettleUncertain
  BY <1>0, <1>2, FencedClosed DEF SettleUncertain, LeaseInv, ClosedTurn, Errors, TurnType
<1>3. CASE SettleCompleted
  <2>1. CASE turn' = IF Holds THEN [turn EXCEPT !.status = "finalizing"] ELSE turn
    <3>1. [turn EXCEPT !.status = "finalizing"].status = "finalizing"
      BY <1>0 DEF TurnType
    <3> QED
      BY <2>1, <3>1 DEF Holds, LiveTurn, LeaseInv, ClosedTurn
  <2> QED
    BY <1>1, <1>3, <2>1 DEF SettleCompleted, ClosedTurn
<1>4. CASE SettleUnfinished
  <2>1. ~Retried(Resumed).leased
    BY <1>0, RetriedType
  <2>2. CASE turn' = IF AwaitsUser \/ (Holds /\ turn.status = "running")
                     THEN Retried(Resumed) ELSE turn
    BY <2>1, <2>2 DEF AwaitsUser, LeaseInv, ClosedTurn
  <2> QED
    BY <1>1, <1>4, <2>2 DEF SettleUnfinished, ClosedTurn
<1> QED
  BY <1>1, <1>2, <1>3, <1>4 DEF Settle, SettleFailed, SettleStopped, ClosedTurn

LEMMA RecoveryTurn ==
  ASSUME TypeOK, LeaseInv, Recovery
  PROVE  LeaseInv' /\ (turn.status \in ClosedTurn => turn' = turn)
<1>0. turn \in TurnType
  BY TypeParts DEF DurableType
<1>1. ASSUME NEW t \in TurnType, t.leased => t.status \in {"running", "finalizing"},
             NEW status \in ClosedTurn, NEW error \in Errors
      PROVE  /\ t.status \in ClosedTurn => Fenced(t, status, error) = t
             /\ Fenced(t, status, error) \in TurnType
             /\ ~Fenced(t, status, error).leased
  BY <1>1, FencedClosed, FencedType
<1>2. \A status \in ClosedTurn, error \in Errors :
        /\ turn.status \in ClosedTurn => Fenced(turn, status, error) = turn
        /\ Fenced(turn, status, error) \in TurnType
        /\ ~Fenced(turn, status, error).leased
  BY <1>0, <1>1 DEF LeaseInv
<1>3. CASE PassFences
  <2> DEFINE t == IF host = "recovering" /\ DeliveredEffect /\ ~LiveTurn
                  THEN Fenced(turn, "interrupted", "manual") ELSE turn
  <2>1. /\ t \in TurnType /\ (t.leased => t.status \in {"running", "finalizing"})
        /\ turn.status \in ClosedTurn => t = turn
    BY <1>0, <1>2 DEF LeaseInv, ClosedTurn, Errors
  <2> HIDE DEF t
  <2>2. turn' = FencedExpired(t)
    BY <1>3 DEF PassFences, t
  <2> QED
    BY <2>1, <2>2, ExpiredFacts DEF LeaseInv, ClosedTurn
<1>4. CASE ~PassFences
  <2>1. turn' = turn \/ \E status \in ClosedTurn, error \in Errors :
                           turn' = Fenced(turn, status, error)
    BY <1>4 DEF Recovery, Boot, PassStarts, PassSkips, PassClaims, PassProvider, durable, ClosedTurn, Errors
  <2> QED
    BY <1>2, <2>1 DEF LeaseInv
<1> QED
  BY <1>3, <1>4

LEMMA CardLifeTurn ==
  ASSUME TypeOK, LeaseInv, CardLife
  PROVE  LeaseInv' /\ (turn.status \in ClosedTurn => turn' = turn)
<1>0. turn \in TurnType
  BY TypeParts DEF DurableType
<1>1. ~Released(turn, "waiting_user").leased
  BY <1>0 DEF Released, TurnType
<1>2. \/ turn' = turn
      \/ Holds /\ turn' = Released(turn, "waiting_user")
      \/ AwaitsUser /\ turn' = Claimed(Asked)
  BY <1>0, AskedFacts DEF CardLife, RollbackCard, PublishCard, CloseCard, WaitForUser,
     ResumeFromUser
<1> QED
  BY <1>0, <1>1, <1>2, AskedFacts DEF LeaseInv, Holds, LiveTurn, AwaitsUser, ClosedTurn

LEMMA TurnStep ==
  ASSUME TypeOK, LeaseInv, [Next]_vars
  PROVE  LeaseInv' /\ (turn.status \in ClosedTurn => turn' = turn)
<1>1. CASE turn' = turn
  BY <1>1 DEF LeaseInv
<1>2. CASE Begin \/ (\E healthy \in BOOLEAN : Settle(healthy)) \/ Recovery \/ CardLife
  BY <1>2, BeginTurn, SettleTurn, RecoveryTurn, CardLifeTurn
<1>3. CASE TurnLapses
  <2>1. turn'.status = turn.status /\ turn'.leased = turn.leased /\ turn.leased
    BY <1>3, TypeParts DEF TurnLapses, DurableType, TurnType
  <2> QED
    BY <2>1 DEF LeaseInv, ClosedTurn
<1>4. CASE UNCHANGED vars
  BY <1>1, <1>4 DEF vars, durable
<1>5. CASE \E s \in Slots : \/ \E kind \in {"final", "aside", "partial"} : Deliver(s, kind)
                            \/ DeliverAgain(s) \/ Delivery(s) \/ OperatorResolves(s) \/ RowLapses(s)
                            \/ \E request \in {"first", "replay"} : ProviderAnswers(s, request)
  <2>1. turn' = turn
    BY <1>5 DEF Deliver, DeliverAgain, Delivery, SendRequest, Acknowledged, Rejected, NoAnswer,
       Replay, CallStep, OperatorResolves, RowLapses, ProviderAnswers, durable
  <2> QED
    BY <1>1, <2>1
<1>6. CASE HeartbeatLost \/ PersistReply \/ Notice \/ Close \/ UserStops \/ Crash
  <2>1. turn' = turn
    BY <1>6 DEF HeartbeatLost, PersistReply, Notice, Close, UserStops, Crash, durable
  <2> QED
    BY <1>1, <2>1
<1> QED
  BY <1>2, <1>3, <1>4, <1>5, <1>6 DEF Next, Attempt, Leases

LEMMA LeaseInvariant == Spec => [](TypeOK /\ LeaseInv)
<1>1. Init => TypeOK /\ LeaseInv
  BY InitType, InitLease
<1>2. TypeOK /\ LeaseInv /\ [Next]_vars => (TypeOK /\ LeaseInv)'
  BY StepType, TurnStep
<1> QED
  BY <1>1, <1>2, PTL DEF Spec

\* A closed turn never changes again, whatever the attempt it was taken from, a
\* recovery or a second attempt still tries.
THEOREM ClosedForGood == Spec => ClosedTurnsStay
<1>1. TypeOK /\ LeaseInv /\ [Next]_vars => [turn.status \in ClosedTurn => turn' = turn]_vars
  BY TurnStep
<1> QED
  BY <1>1, LeaseInvariant, PTL DEF Spec, ClosedTurnsStay

-----------------------------------------------------------------------------
(* A completed turn is settled.                                            *)

CardShown == card.status # "none" /\ card.identity

\* A card the user has seen is kept.
LEMMA CardStays ==
  ASSUME TypeOK, [Next]_vars, CardShown
  PROVE  CardShown' /\ (card.boot => card'.boot)
<1>0. card \in CardType /\ card.status # "none" /\ card.identity
  BY TypeParts DEF DurableType, CardShown
<1>1. CASE card' = card
  BY <1>0, <1>1 DEF CardShown
<1>2. CASE Begin
  BY <1>0, <1>1, <1>2 DEF Begin
<1>3. CASE \E healthy \in BOOLEAN : Settle(healthy)
  <2>1. CardRetired = card
    BY <1>0 DEF CardRetired
  <2>2. card' = card
    BY <1>3, <2>1 DEF Settle, SettleUncertain, SettleFailed, SettleStopped, SettleCompleted,
       SettleUnfinished, Finish
  <2> QED
    BY <1>1, <2>2
<1>4. CASE CardLife
  <2>1. ASSUME NEW status \in {"completed", "aborted"}, NEW acked \in BOOLEAN,
               CloseCard(status, acked)
        PROVE  CardShown' /\ (card.boot => card'.boot)
    <3>1. card' = [card EXCEPT !.status = status, !.stop = run.stop]
      BY <2>1 DEF CloseCard
    <3> QED
      BY <1>0, <3>1 DEF CardShown, CardType
  <2>2. CASE PublishCard
    BY <1>0, <2>2 DEF PublishCard, CardShown, CardType
  <2>3. CASE RollbackCard \/ WaitForUser \/ ResumeFromUser
    BY <1>0, <1>1, <2>3 DEF RollbackCard, WaitForUser, ResumeFromUser
  <2> QED
    BY <1>4, <2>1, <2>2, <2>3 DEF CardLife
<1>5. CASE Recovery
  <2>1. \/ card' = card \/ card' = [card EXCEPT !.boot = TRUE]
        \/ \E status \in {"recovering", "failed", "completed", "aborted", "streaming"} :
              card' = [card EXCEPT !.status = status]
    BY <1>5 DEF Recovery, Boot, PassStarts, PassSkips, PassClaims, PassProvider, PassFences, durable
  <2> QED
    BY <1>0, <2>1 DEF CardShown, CardType
<1>6. CASE UNCHANGED vars
  BY <1>1, <1>6 DEF vars, durable
<1>7. CASE \E s \in Slots : \/ \E kind \in {"final", "aside", "partial"} : Deliver(s, kind)
                            \/ DeliverAgain(s) \/ Delivery(s) \/ OperatorResolves(s) \/ RowLapses(s)
                            \/ \E request \in {"first", "replay"} : ProviderAnswers(s, request)
  <2>1. card' = card
    BY <1>7 DEF Deliver, DeliverAgain, Delivery, SendRequest, Acknowledged, Rejected, NoAnswer,
       Replay, CallStep, OperatorResolves, RowLapses, ProviderAnswers, durable
  <2> QED
    BY <1>1, <2>1
<1>8. CASE HeartbeatLost \/ PersistReply \/ Notice \/ Close \/ UserStops \/ Crash \/ TurnLapses
  <2>1. card' = card
    BY <1>8 DEF HeartbeatLost, PersistReply, Notice, Close, UserStops, Crash, TurnLapses, durable
  <2> QED
    BY <1>1, <2>1
<1> QED
  BY <1>2, <1>3, <1>4, <1>5, <1>6, <1>7, <1>8 DEF Next, Attempt, Leases

\* Only an open turn gets new deliveries; the others run to an end.
LEMMA NothingNewUnsettled ==
  ASSUME TypeOK, [Next]_vars, turn.status \in ClosedTurn, Undelivered'
  PROVE  Undelivered
<1>0. row \in [Slots -> RowType]
  BY TypeParts DEF DurableType
<1> PICK s \in Slots : row'[s].status \in Unsettled
  BY DEF Undelivered, Unsettled, Leased
<1> SUFFICES row[s].status \in Unsettled
  BY DEF Undelivered
<1>1. CASE row' = row
  BY <1>1
<1>2. ASSUME NEW t \in Slots, NEW status, Ends(t, status)
      PROVE  row[s].status \in Unsettled
  BY <1>0, <1>2 DEF Ends, RowHeld, Unsettled, RowType
<1>3. ASSUME NEW t \in Slots, Delivery(t)
      PROVE  row[s].status \in Unsettled
  <2>1. CASE SendRequest(t) /\ RowHeld(t)
    BY <1>0, <2>1 DEF SendRequest, RowHeld, Unsettled, RowType
  <2> QED
    BY <1>1, <1>2, <1>3, <2>1 DEF Delivery, SendRequest, Acknowledged, Rejected, NoAnswer, Replay
<1>4. ASSUME NEW t \in Slots, OperatorResolves(t) \/ RowLapses(t)
      PROVE  row[s].status \in Unsettled
  BY <1>0, <1>4 DEF OperatorResolves, RowLapses, Unsettled, Leased, RowType
<1>5. CASE PassFences
  BY <1>0, <1>5 DEF PassFences, Unsettled, Leased, RowType
<1>6. CASE UNCHANGED vars
  BY <1>1, <1>6 DEF vars, durable
<1>7. ASSUME NEW t \in Slots, NEW kind, Deliver(t, kind)
      PROVE  FALSE
  BY <1>7 DEF Deliver, OpenTurn, ClosedTurn
<1>8. ASSUME NEW t \in Slots, NEW request, ProviderAnswers(t, request)
      PROVE  row' = row
  BY <1>8 DEF ProviderAnswers, durable
<1>9. CASE Crash
  BY <1>1, <1>9 DEF Crash, durable
<1> QED
  BY <1>1, <1>3, <1>4, <1>5, <1>6, <1>7, <1>8, <1>9, NextCases, AloofSteps

\* A turn gets completed by its attempt with all outputs settled, or by recovery
\* on its card.
LEMMA Completing ==
  ASSUME TypeOK, [Next]_vars, turn.status # "completed", turn'.status = "completed"
  PROVE  \/ ~Undelivered /\ row' = row /\ (mode = "proactive" \/ run.acked)
         \/ card.boot /\ CardShown
<1>0. turn \in TurnType /\ Resumed \in TurnType /\ card \in CardType
  BY TypeParts, ResumedType DEF DurableType
<1>1. ASSUME NEW t \in TurnType, t.status # "completed", NEW status \in ClosedTurn,
             NEW error \in Errors, Fenced(t, status, error).status = "completed"
      PROVE  status = "completed"
  <2>1. Released(t, status) \in TurnType /\ Released(t, status).status = status
    BY ReleasedType
  <2> QED
    BY <1>1, <2>1 DEF Fenced, TurnType
<1>2. ASSUME NEW status \in ClosedTurn, Finish(status)
      PROVE  status = "completed" /\ MayClose
  <2>1. Closed(Resumed, status).status = status
    BY <1>0, ClosedType
  <2> QED
    BY <1>2, <2>1 DEF Finish
<1>3. CASE \E healthy \in BOOLEAN : Settle(healthy)
  <2>1. CASE SettleUncertain
    BY <1>0, <1>1, <2>1 DEF SettleUncertain, ClosedTurn, Errors
  <2>2. CASE SettleFailed \/ SettleStopped
    BY <1>2, <2>2 DEF SettleFailed, SettleStopped, ClosedTurn
  <2>3. CASE SettleUnfinished
    <3>1. Retried(Resumed).status = "retry_wait"
      BY <1>0, RetriedType
    <3> QED
      BY <1>2, <2>3, <3>1 DEF SettleUnfinished, ClosedTurn
  <2>4. CASE SettleCompleted
    <3>1. [turn EXCEPT !.status = "finalizing"].status = "finalizing"
      BY <1>0 DEF TurnType
    <3>2. ~Undelivered /\ (mode = "proactive" \/ run.acked)
      BY <1>2, <2>4, <3>1 DEF SettleCompleted, ClosedTurn
    <3> QED
      BY <1>3, <3>2 DEF Settle
  <2> QED
    BY <1>3, <2>1, <2>2, <2>3, <2>4 DEF Settle
<1>4. CASE Begin
  <2> DEFINE t0 == IF turn.status = "none" THEN [turn EXCEPT !.status = "queued"] ELSE turn
             t1 == IF DeliveredEffect THEN Fenced(t0, "interrupted", "manual") ELSE t0
  <2>1. t0 \in TurnType /\ t0.status # "completed"
    BY <1>0 DEF TurnType, OpenTurn
  <2> HIDE DEF t0
  <2>2. t1 \in TurnType /\ t1.status # "completed"
    BY <1>1, <2>1, FencedType DEF ClosedTurn, Errors
  <2> HIDE DEF t1
  <2>3. turn' \in {t1, Claimed(t1), Retried(Claimed(t1))}
    BY <1>4 DEF Begin, t0, t1
  <2> QED
    BY <2>2, <2>3, ClaimedFacts
<1>5. CASE PassClaims
  <2>1. card.identity
    BY <1>0, <1>1, <1>5 DEF PassClaims, ClosedTurn, Errors
  <2> QED
    BY <1>5, <2>1 DEF PassClaims, CardAbandoned, CardShown, OpenCard
<1>6. CASE PassProvider \/ Boot
  BY <1>0, <1>1, <1>6 DEF PassProvider, Boot, ClosedTurn, Errors
<1>7. CASE PassFences
  <2> DEFINE t == IF host = "recovering" /\ DeliveredEffect /\ ~LiveTurn
                  THEN Fenced(turn, "interrupted", "manual") ELSE turn
  <2>1. t \in TurnType /\ t.status # "completed"
    BY <1>0, <1>1, FencedType DEF ClosedTurn, Errors
  <2> HIDE DEF t
  <2>2. turn' = FencedExpired(t)
    BY <1>7 DEF PassFences, t
  <2> QED
    BY <2>1, <2>2, ExpiredFacts
<1>8. CASE CardLife \/ TurnLapses
  <2>1. \/ turn' = turn \/ turn' = Released(turn, "waiting_user") \/ turn' = Claimed(Asked)
        \/ turn' = [turn EXCEPT !.live = FALSE]
    BY <1>0, <1>8, AskedFacts DEF CardLife, RollbackCard, PublishCard, CloseCard, WaitForUser,
       ResumeFromUser, TurnLapses
  <2>2. /\ Released(turn, "waiting_user").status = "waiting_user"
        /\ [turn EXCEPT !.live = FALSE].status = turn.status
    BY <1>0 DEF Released, TurnType
  <2> QED
    BY <1>0, <2>1, <2>2, AskedFacts
<1>9. CASE turn' = turn
  BY <1>9
<1>10. CASE PassStarts \/ PassSkips \/ Crash \/ HeartbeatLost \/ PersistReply \/ Notice \/ Close
            \/ UserStops \/ UNCHANGED vars
  <2>1. turn' = turn
    BY <1>10 DEF PassStarts, PassSkips, Crash, HeartbeatLost, PersistReply, Notice, Close,
       UserStops, vars, durable
  <2> QED
    BY <2>1
<1>11. CASE \E s \in Slots : \/ \E kind \in {"final", "aside", "partial"} : Deliver(s, kind)
                             \/ DeliverAgain(s) \/ Delivery(s) \/ OperatorResolves(s) \/ RowLapses(s)
                             \/ \E request \in {"first", "replay"} : ProviderAnswers(s, request)
  <2>1. turn' = turn
    BY <1>11 DEF Deliver, DeliverAgain, Delivery, SendRequest, Acknowledged, Rejected, NoAnswer,
       Replay, CallStep, OperatorResolves, RowLapses, ProviderAnswers, durable
  <2> QED
    BY <2>1
<1> QED
  BY <1>3, <1>4, <1>5, <1>6, <1>7, <1>8, <1>10, <1>11 DEF Next, Attempt, Recovery, Leases

CompletedInv == turn.status = "completed" /\ ~(card.boot /\ CardShown) => ~Undelivered

LEMMA CompletedStep ==
  ASSUME TypeOK, LeaseInv, CompletedInv, [Next]_vars
  PROVE  CompletedInv'
<1> SUFFICES ASSUME turn'.status = "completed", ~(card'.boot /\ CardShown')
             PROVE  ~Undelivered'
  BY DEF CompletedInv
<1>1. ~(card.boot /\ CardShown)
  BY CardStays
<1>2. CASE turn.status = "completed"
  BY <1>1, <1>2, NothingNewUnsettled DEF CompletedInv, ClosedTurn
<1>3. CASE turn.status # "completed"
  <2>1. ~Undelivered /\ row' = row
    BY <1>1, <1>3, Completing
  <2> QED
    BY <2>1 DEF Undelivered
<1> QED
  BY <1>2, <1>3

\* A turn is completed only when every output it gave is delivered or refused,
\* except on its recovered card.
THEOREM CompletedSettled == Spec => []CompletedTurnIsSettled
<1>1. Init => CompletedInv
  BY DEF Init, CompletedInv
<1>2. TypeOK /\ LeaseInv /\ CompletedInv /\ [Next]_vars => CompletedInv'
  BY CompletedStep
<1>3. CompletedInv => CompletedTurnIsSettled
  BY DEF CompletedInv, CompletedTurnIsSettled, CardShown
<1> QED
  BY <1>1, <1>2, <1>3, LeaseInvariant, PTL DEF Spec

-----------------------------------------------------------------------------
(* An input is consumed only when its user was answered or told.           *)

AckedIsSeen == run.acked => Seen
CardIsSeen == /\ card.status \in {"streaming", "recovering", "completed", "aborted"} => card.identity
              /\ pass = "provider" => CardShown
ClosedIsSeen == /\ turn.status = "completed" => Seen \/ mode = "proactive"
                /\ turn.status = "interrupted" => turn.error \in {"manual", "retry"} \/ Seen
                /\ turn.status = "cancelled" => Seen \/ told # "no"
OpenReason == turn.status \notin ClosedTurn => turn.error \in {"none", "retry"}
SeenInv == AckedIsSeen /\ CardIsSeen /\ ClosedIsSeen /\ OpenReason /\ AnsweredOrTold

\* What the user saw or was told stays so.
LEMMA SeenStays ==
  ASSUME TypeOK, [Next]_vars
  PROVE  /\ mode' = mode
         /\ Seen => Seen'
         /\ told # "no" => told' # "no"
<1>0. shown \in [Slots -> Nat]
  BY TypeParts DEF WorldType
<1>1. mode' = mode
  <2>1. CASE CardLife \/ Begin \/ HeartbeatLost \/ PersistReply \/ Notice \/ Close \/ UserStops
             \/ Crash \/ TurnLapses \/ \E healthy \in BOOLEAN : Settle(healthy)
    BY <2>1 DEF CardLife, RollbackCard, PublishCard, CloseCard, WaitForUser, ResumeFromUser,
       CardStep, Begin, HeartbeatLost, PersistReply, Notice, Close, UserStops, Crash, TurnLapses, Settle
  <2>2. CASE Recovery \/ UNCHANGED vars
    BY <2>2 DEF Recovery, Boot, PassStarts, PassSkips, PassClaims, PassProvider, PassFences,
       PassStep, vars
  <2>3. CASE \E s \in Slots : \/ \E kind \in {"final", "aside", "partial"} : Deliver(s, kind)
                              \/ DeliverAgain(s) \/ Delivery(s) \/ OperatorResolves(s) \/ RowLapses(s)
                              \/ \E request \in {"first", "replay"} : ProviderAnswers(s, request)
    BY <2>3 DEF Deliver, DeliverAgain, Delivery, SendRequest, Acknowledged, Rejected, NoAnswer,
       Replay, CallStep, OperatorResolves, RowLapses, ProviderAnswers
  <2> QED
    BY <2>1, <2>2, <2>3 DEF Next, Attempt, Leases
<1>2. \A s \in Slots : shown[s] > 0 => shown'[s] > 0
  <2>1. CASE shown' = shown
    BY <2>1
  <2>2. ASSUME NEW t \in Slots, NEW request \in {"first", "replay"}, ProviderAnswers(t, request)
        PROVE  \A s \in Slots : shown[s] > 0 => shown'[s] > 0
    <3>1. CASE shown' = [shown EXCEPT ![t] = IF Replays THEN 1 ELSE shown[t] + 1]
      <4>1. (IF Replays THEN 1 ELSE shown[t] + 1) > 0
        BY <1>0
      <4> QED
        BY <1>0, <3>1, <4>1
    <3> QED
      BY <2>1, <2>2, <3>1 DEF ProviderAnswers
  <2>3. CASE Crash \/ PassFences \/ UNCHANGED vars
    BY <2>1, <2>3 DEF Crash, PassFences, PassStep, world, vars
  <2>4. ASSUME NEW t \in Slots,
               \/ \E kind \in {"final", "aside", "partial"} : Deliver(t, kind)
               \/ Delivery(t) \/ OperatorResolves(t) \/ RowLapses(t)
        PROVE  shown' = shown
    BY <2>4 DEF Deliver, Delivery, SendRequest, Acknowledged, Rejected, NoAnswer, Replay,
       OperatorResolves, RowLapses, world
  <2> QED
    BY <2>1, <2>2, <2>3, <2>4, NextCases, AloofSteps
<1>3. Seen => Seen'
  BY <1>2, CardStays DEF Seen, CardShown
<1>4. told # "no" => told' # "no"
  <2>1. CASE CardLife \/ Begin \/ HeartbeatLost \/ PersistReply \/ Notice \/ Close \/ UserStops
             \/ Crash \/ TurnLapses
    BY <2>1 DEF CardLife, RollbackCard, PublishCard, CloseCard, WaitForUser, ResumeFromUser,
       CardStep, Begin, HeartbeatLost, PersistReply, Notice, Close, UserStops, Crash, TurnLapses
  <2>2. CASE \E healthy \in BOOLEAN : Settle(healthy)
    BY <2>2 DEF Settle, SettleUncertain, SettleFailed, SettleStopped, SettleCompleted, SettleUnfinished
  <2>3. CASE Recovery \/ UNCHANGED vars
    BY <2>3 DEF Recovery, Boot, PassStarts, PassSkips, PassClaims, PassProvider, PassFences,
       PassStep, vars
  <2>4. CASE \E s \in Slots : \/ \E kind \in {"final", "aside", "partial"} : Deliver(s, kind)
                              \/ DeliverAgain(s) \/ Delivery(s) \/ OperatorResolves(s) \/ RowLapses(s)
                              \/ \E request \in {"first", "replay"} : ProviderAnswers(s, request)
    BY <2>4 DEF Deliver, DeliverAgain, Delivery, SendRequest, Acknowledged, Rejected, NoAnswer,
       Replay, CallStep, OperatorResolves, RowLapses, ProviderAnswers
  <2> QED
    BY <2>1, <2>2, <2>3, <2>4 DEF Next, Attempt, Leases
<1> QED
  BY <1>1, <1>3, <1>4

\* The attempt counts as acknowledged what the provider or the card showed.
LEMMA AckedStep ==
  ASSUME TypeOK, PromiseInv, SeenInv, [Next]_vars
  PROVE  AckedIsSeen'
<1>0. run \in RunType
  BY TypeParts DEF LocalType
<1> SUFFICES ASSUME run'.acked PROVE Seen'
  BY DEF AckedIsSeen
<1>1. CASE run.acked
  BY <1>1, SeenStays DEF SeenInv, AckedIsSeen
<1>2. ASSUME NEW s \in Slots, shown[s] > 0
      PROVE  Seen'
  BY <1>2, SeenStays DEF Seen
<1>3. CASE run' = run
  BY <1>1, <1>3
<1>4. ASSUME NEW s \in Slots, DeliverAgain(s)
      PROVE  Seen'
  <2>1. shown[s] = 1
    BY <1>4 DEF DeliverAgain, PromiseInv, SlotInv, SeenIsAccepted
  <2> QED
    BY <1>2, <2>1
<1>5. ASSUME NEW s \in Slots, Delivery(s)
      PROVE  Seen'
  <2>1. CASE Acknowledged(s)
    <3>1. shown[s] = 1
      BY <2>1 DEF Acknowledged, InRequest, Answer, PromiseInv, SlotInv, SeenIsAccepted
    <3> QED
      BY <1>2, <3>1
  <2> QED
    BY <1>3, <1>5, <2>1 DEF Delivery, SendRequest, Rejected, NoAnswer, Replay
<1>6. ASSUME NEW status, NEW acked, CloseCard(status, acked)
      PROVE  Seen'
  <2>1. Seen
    BY <1>6 DEF CloseCard, SeenInv, CardIsSeen, Seen
  <2> QED
    BY <2>1, SeenStays
<1>7. CASE RollbackCard \/ PublishCard \/ WaitForUser \/ ResumeFromUser
  <2>1. run'.acked = run.acked
    BY <1>0, <1>7 DEF RollbackCard, PublishCard, WaitForUser, ResumeFromUser, RunType
  <2> QED
    BY <1>1, <2>1
<1>8. CASE \E healthy \in BOOLEAN : Settle(healthy)
  <2>1. ASSUME NEW settled, ToNotice(settled)
        PROVE  run'.acked = run.acked
    BY <1>0, <2>1 DEF ToNotice, RunType
  <2>2. ~NoRun.acked /\ ~Again.acked /\ ~[Again EXCEPT !.phase = "closing"].acked
    BY DEF NoRun, Again
  <2>3. run'.acked = run.acked \/ ~run'.acked
    BY <1>8, <2>1, <2>2 DEF Settle, SettleUncertain, SettleFailed, SettleStopped, SettleCompleted,
       SettleUnfinished
  <2> QED
    BY <1>1, <2>3
<1>9. CASE Begin \/ HeartbeatLost \/ Notice \/ Close \/ UserStops \/ Crash
  <2>1. /\ ~NoRun.acked /\ ~Again.acked /\ ~[NoRun EXCEPT !.phase = "notice", !.settled = TRUE].acked
        /\ \A again, claim, reserve : ~[NoRun EXCEPT !.phase = "running", !.again = again,
                                                     !.claim = claim, !.card = reserve].acked
    BY DEF NoRun, Again
  <2>2. CASE Begin
    BY <2>1, <2>2 DEF Begin
  <2>3. CASE HeartbeatLost \/ Notice \/ Close \/ UserStops \/ Crash
    <3>1. run'.acked = run.acked \/ ~run'.acked
      BY <1>0, <2>1, <2>3 DEF HeartbeatLost, Notice, Close, UserStops, Crash, RunType
    <3> QED
      BY <1>1, <3>1
  <2> QED
    BY <1>9, <2>2, <2>3
<1>10. CASE PersistReply \/ Recovery \/ Leases \/ UNCHANGED vars
  <2>1. run' = run
    BY <1>10 DEF PersistReply, Recovery, Boot, PassStarts, PassSkips, PassClaims, PassProvider,
       PassFences, PassStep, Leases, TurnLapses, RowLapses, vars
  <2> QED
    BY <1>3, <2>1
<1>11. ASSUME NEW s \in Slots, NEW kind, NEW request,
              Deliver(s, kind) \/ OperatorResolves(s) \/ ProviderAnswers(s, request)
       PROVE  run' = run
  BY <1>11 DEF Deliver, OperatorResolves, ProviderAnswers
<1> QED
  BY <1>3, <1>4, <1>5, <1>6, <1>7, <1>8, <1>9, <1>10, <1>11 DEF Next, Attempt, CardLife

LEMMA CardSeenStep ==
  ASSUME TypeOK, SeenInv, [Next]_vars
  PROVE  CardIsSeen'
<1>0. card \in CardType
  BY TypeParts DEF DurableType
<1>1. CASE card' = card /\ pass' \in {pass, "none", "visit", "fences"}
  BY <1>1 DEF SeenInv, CardIsSeen, CardShown
<1>2. CASE Begin \/ (\E healthy \in BOOLEAN : Settle(healthy))
  <2>1. NoCard.status = "none" /\ [NoCard EXCEPT !.status = "creating"].status = "creating"
    BY DEF NoCard
  <2>2. pass' = pass /\ (card' = card \/ card'.status \in {"none", "creating"})
    BY <1>2, <2>1 DEF Begin, Settle, SettleUncertain, SettleFailed, SettleStopped, SettleCompleted,
       SettleUnfinished, Finish, CardRetired
  <2> QED
    BY <1>1, <2>2, CardStays DEF SeenInv, CardIsSeen
<1>3. CASE CardLife
  <2>1. pass' = pass
    BY <1>3 DEF CardLife, RollbackCard, PublishCard, CloseCard, WaitForUser, ResumeFromUser, CardStep
  <2>2. ASSUME NEW status, NEW acked, CloseCard(status, acked)
        PROVE  card'.identity
    BY <1>0, <2>2 DEF CloseCard, SeenInv, CardIsSeen, CardType
  <2>3. CASE RollbackCard \/ WaitForUser \/ ResumeFromUser
    <3>1. card' = card \/ card'.status = "none"
      BY <2>3 DEF RollbackCard, WaitForUser, ResumeFromUser, NoCard
    <3> QED
      BY <1>1, <2>1, <3>1, CardStays DEF SeenInv, CardIsSeen
  <2>4. CASE PublishCard
    <3>1. card'.identity
      BY <1>0, <2>4 DEF PublishCard, CardType
    <3> QED
      BY <2>1, <3>1, CardStays DEF SeenInv, CardIsSeen
  <2> QED
    BY <1>3, <2>1, <2>2, <2>3, <2>4, CardStays DEF CardLife, SeenInv, CardIsSeen
<1>4. CASE Boot \/ PassClaims \/ PassProvider
  <2>1. CASE Boot
    BY <1>0, <2>1 DEF Boot, SeenInv, CardIsSeen, CardType
  <2>2. CASE PassClaims
    BY <1>0, <2>2 DEF PassClaims, SeenInv, CardIsSeen, CardShown, CardType
  <2>3. CASE PassProvider
    <3>1. card'.identity /\ pass' = "fences"
      BY <2>3, CardStays DEF PassProvider, SeenInv, CardIsSeen, CardShown
    <3> QED
      BY <3>1 DEF CardIsSeen
  <2> QED
    BY <1>4, <2>1, <2>2, <2>3
<1>5. CASE \/ PassStarts \/ PassSkips \/ PassFences \/ Crash \/ HeartbeatLost \/ PersistReply
           \/ Notice \/ Close \/ UserStops \/ Leases \/ UNCHANGED vars
  <2>1. card' = card /\ pass' \in {pass, "none", "visit", "fences"}
    BY <1>5 DEF PassStarts, PassSkips, PassFences, Crash, HeartbeatLost, PersistReply, Notice,
       Close, UserStops, Leases, TurnLapses, RowLapses, vars, durable
  <2> QED
    BY <1>1, <2>1
<1>6. CASE \E s \in Slots : \/ \E kind \in {"final", "aside", "partial"} : Deliver(s, kind)
                            \/ DeliverAgain(s) \/ Delivery(s) \/ OperatorResolves(s)
                            \/ \E request \in {"first", "replay"} : ProviderAnswers(s, request)
  <2>1. card' = card /\ pass' = pass
    BY <1>6 DEF Deliver, DeliverAgain, Delivery, SendRequest, Acknowledged, Rejected, NoAnswer,
       Replay, CallStep, OperatorResolves, ProviderAnswers, durable
  <2> QED
    BY <1>1, <2>1
<1> QED
  BY <1>2, <1>3, <1>4, <1>5, <1>6 DEF Next, Attempt, Recovery

\* An open turn carries at most the error of a failed attempt; one that is
\* interrupted asks for a word to the user, or keeps that error.
Reasoned(t) == /\ t.status \notin ClosedTurn => t.error \in {"none", "retry"}
               /\ t.status = "interrupted" => t.error \in {"manual", "retry"}

LEMMA FencedReasoned ==
  ASSUME NEW t \in TurnType, Reasoned(t), NEW status \in ClosedTurn, NEW error \in Errors,
         status = "interrupted" => error = "manual"
  PROVE  Reasoned(Fenced(t, status, error))
<1> DEFINE r == Released(t, status)
<1>1. r \in TurnType /\ r.status = status
  BY ReleasedType DEF r
<1> HIDE DEF r
<1>2. LET f == [r EXCEPT !.token = @ + 1, !.error = error]
      IN  f.status = status /\ f.error = error
  BY <1>1 DEF TurnType
<1> QED
  BY <1>2 DEF Fenced, Reasoned, r

LEMMA ClaimedReasoned ==
  ASSUME NEW t \in TurnType, t.status \notin ClosedTurn, Reasoned(t)
  PROVE  Reasoned(Claimed(t)) /\ Reasoned(Retried(Claimed(t)))
BY ClaimedFacts DEF Reasoned, ClosedTurn

\* An interruption with another error comes from the recovery of a card.
LEMMA Reasons ==
  ASSUME TypeOK, OpenReason, [Next]_vars, turn.status \notin ClosedTurn
  PROVE  Reasoned(turn') \/ (pass = "provider" /\ turn'.status \in ClosedTurn)
<1>0. /\ turn \in TurnType /\ Resumed \in TurnType /\ Reasoned(turn)
      /\ turn.status # "interrupted"
  BY TypeParts, ResumedType DEF DurableType, OpenReason, Reasoned, ClosedTurn
<1>1. ASSUME NEW t \in TurnType, Reasoned(t)
      PROVE  /\ Reasoned(Fenced(t, "interrupted", "manual"))
             /\ Reasoned(Fenced(t, "completed", "none"))
             /\ Reasoned(Fenced(t, "cancelled", "other"))
  BY <1>1, FencedReasoned DEF ClosedTurn, Errors
<1>2. ASSUME NEW status \in ClosedTurn \ {"interrupted"}, Finish(status)
      PROVE  Reasoned(turn')
  <2>1. Closed(Resumed, status).status = status
    BY <1>0, ClosedType
  <2> QED
    BY <1>0, <1>2, <2>1 DEF Finish, Reasoned
<1>3. CASE turn' = turn
  BY <1>0, <1>3
<1>4. CASE \E healthy \in BOOLEAN : Settle(healthy)
  <2>1. Reasoned(Retried(Resumed))
    BY <1>0, RetriedType DEF Reasoned
  <2>2. Reasoned([turn EXCEPT !.status = "finalizing"])
    <3>1. LET f == [turn EXCEPT !.status = "finalizing"]
          IN  f.status = "finalizing" /\ f.error = turn.error
      BY <1>0 DEF TurnType
    <3> QED
      BY <1>0, <3>1 DEF Reasoned, OpenReason
  <2>3. CASE \E status \in ClosedTurn \ {"interrupted"} : Finish(status)
    BY <1>2, <2>3
  <2>4. CASE SettleUncertain
    BY <1>0, <1>1, <2>4 DEF SettleUncertain
  <2>5. CASE SettleCompleted \/ SettleUnfinished
    BY <1>0, <2>1, <2>2, <2>3, <2>5 DEF SettleCompleted, SettleUnfinished, ClosedTurn
  <2> QED
    BY <1>4, <2>3, <2>4, <2>5 DEF Settle, SettleFailed, SettleStopped, ClosedTurn
<1>5. CASE Begin
  <2> DEFINE t0 == IF turn.status = "none" THEN [turn EXCEPT !.status = "queued"] ELSE turn
             t1 == IF DeliveredEffect THEN Fenced(t0, "interrupted", "manual") ELSE t0
  <2>1. t0 \in TurnType /\ Reasoned(t0)
    <3>1. LET q == [turn EXCEPT !.status = "queued"]
          IN  q \in TurnType /\ q.status = "queued" /\ q.error = turn.error
      BY <1>0 DEF TurnType, OpenTurn
    <3> QED
      BY <1>0, <3>1 DEF Reasoned, OpenReason
  <2> HIDE DEF t0
  <2>2. t1 \in TurnType /\ Reasoned(t1)
    BY <1>1, <2>1, FencedType DEF ClosedTurn, Errors
  <2> HIDE DEF t1
  <2>3. \/ turn' = t1
        \/ Claimable(t1) /\ turn' \in {Claimed(t1), Retried(Claimed(t1))}
    BY <1>5 DEF Begin, t0, t1
  <2>4. Claimable(t1) => t1.status \notin ClosedTurn
    BY DEF Claimable, ClosedTurn
  <2> QED
    BY <2>2, <2>3, <2>4, ClaimedReasoned
<1>6. CASE PassClaims \/ Boot
  BY <1>0, <1>1, <1>3, <1>6 DEF PassClaims, Boot
<1>7. CASE PassProvider
  <2>1. turn' = turn \/ \E error \in Errors : turn' = Fenced(turn, "interrupted", error)
    BY <1>7 DEF PassProvider, Errors
  <2>2. CASE turn.status \in OpenTurn
    <3>1. \A error \in Errors : Fenced(turn, "interrupted", error).status = "interrupted"
      <4>1. Released(turn, "interrupted") \in TurnType /\ Released(turn, "interrupted").status = "interrupted"
        BY <1>0, ReleasedType DEF ClosedTurn
      <4> QED
        BY <2>2, <4>1 DEF Fenced, TurnType
    <3> QED
      BY <1>3, <1>7, <2>1, <3>1 DEF PassProvider, ClosedTurn
  <2>3. CASE turn.status \notin OpenTurn
    BY <1>3, <2>1, <2>3 DEF Fenced
  <2> QED
    BY <2>2, <2>3
<1>8. CASE PassFences
  <2> DEFINE t == IF host = "recovering" /\ DeliveredEffect /\ ~LiveTurn
                  THEN Fenced(turn, "interrupted", "manual") ELSE turn
  <2>1. t \in TurnType /\ Reasoned(t)
    BY <1>0, <1>1, FencedType DEF ClosedTurn, Errors
  <2> HIDE DEF t
  <2>2. turn' = FencedExpired(t)
    BY <1>8 DEF PassFences, t
  <2>3. t.status \in {"running", "finalizing"} => t.status \notin ClosedTurn
    BY DEF ClosedTurn
  <2> QED
    BY <2>1, <2>2, <2>3, ExpiredFacts DEF Reasoned, ClosedTurn
<1>9. CASE CardLife \/ TurnLapses
  <2>1. \/ turn' = turn \/ turn' = Released(turn, "waiting_user") \/ turn' = Claimed(Asked)
        \/ turn' = [turn EXCEPT !.live = FALSE]
    BY <1>0, <1>9, AskedFacts DEF CardLife, RollbackCard, PublishCard, CloseCard, WaitForUser,
       ResumeFromUser, TurnLapses
  <2>2. LET w == Released(turn, "waiting_user")
            l == [turn EXCEPT !.live = FALSE]
        IN  /\ w.status = "waiting_user" /\ w.error = turn.error
            /\ l.status = turn.status /\ l.error = turn.error
    BY <1>0 DEF Released, TurnType
  <2> QED
    BY <1>0, <2>1, <2>2, AskedFacts DEF Reasoned, OpenReason, ClosedTurn
<1>10. CASE PassStarts \/ PassSkips \/ Crash \/ HeartbeatLost \/ PersistReply \/ Notice \/ Close
            \/ UserStops \/ UNCHANGED vars
  BY <1>3, <1>10 DEF PassStarts, PassSkips, Crash, HeartbeatLost, PersistReply, Notice, Close,
       UserStops, vars, durable
<1>11. CASE \E s \in Slots : \/ \E kind \in {"final", "aside", "partial"} : Deliver(s, kind)
                             \/ DeliverAgain(s) \/ Delivery(s) \/ OperatorResolves(s) \/ RowLapses(s)
                             \/ \E request \in {"first", "replay"} : ProviderAnswers(s, request)
  BY <1>3, <1>11 DEF Deliver, DeliverAgain, Delivery, SendRequest, Acknowledged, Rejected, NoAnswer,
       Replay, CallStep, OperatorResolves, RowLapses, ProviderAnswers, durable
<1> QED
  BY <1>4, <1>5, <1>6, <1>7, <1>8, <1>9, <1>10, <1>11 DEF Next, Attempt, Recovery, Leases

\* A cancellation follows a stop, an answer, or a target that is gone.
LEMMA Cancelling ==
  ASSUME TypeOK, LeaseInv, SeenInv, [Next]_vars, turn.status \notin ClosedTurn,
         turn'.status = "cancelled"
  PROVE  Seen \/ told' # "no"
<1>0. turn \in TurnType /\ Resumed \in TurnType
  BY TypeParts, ResumedType DEF DurableType
<1>1. ASSUME NEW t \in TurnType, t.status # "cancelled", NEW status \in ClosedTurn \ {"cancelled"},
             NEW error \in Errors
      PROVE  Fenced(t, status, error).status # "cancelled"
  <2>1. Released(t, status) \in TurnType /\ Released(t, status).status = status
    BY ReleasedType
  <2> QED
    BY <1>1, <2>1 DEF Fenced, TurnType
<1>2. ASSUME NEW status \in ClosedTurn, Finish(status)
      PROVE  (MayClose /\ turn'.status = status) \/ (~MayClose /\ turn' = turn)
  <2>1. Closed(Resumed, status).status = status
    BY <1>0, ClosedType
  <2> QED
    BY <1>2, <2>1 DEF Finish
<1>3. turn' # turn /\ turn.status # "cancelled"
  BY DEF ClosedTurn
<1>4. CASE \E healthy \in BOOLEAN : Settle(healthy)
  <2>1. /\ Retried(Resumed).status = "retry_wait"
        /\ [turn EXCEPT !.status = "finalizing"].status = "finalizing"
        /\ Fenced(turn, "interrupted", "manual").status # "cancelled"
    BY <1>0, <1>1, <1>3, RetriedType DEF TurnType, ClosedTurn, Errors
  <2>2. CASE SettleUncertain \/ SettleCompleted
    BY <1>2, <1>3, <2>1, <2>2 DEF SettleUncertain, SettleCompleted, ClosedTurn
  <2>3. CASE SettleFailed
    BY <1>2, <1>3, <2>3 DEF SettleFailed, ClosedTurn
  <2>4. CASE SettleStopped
    BY <2>4 DEF SettleStopped
  <2>5. CASE SettleUnfinished
    BY <1>2, <1>3, <2>1, <2>5 DEF SettleUnfinished, ClosedTurn, SeenInv, AckedIsSeen
  <2> QED
    BY <1>4, <2>2, <2>3, <2>4, <2>5 DEF Settle
<1>5. CASE Begin
  <2> DEFINE t0 == IF turn.status = "none" THEN [turn EXCEPT !.status = "queued"] ELSE turn
             t1 == IF DeliveredEffect THEN Fenced(t0, "interrupted", "manual") ELSE t0
  <2>1. t0 \in TurnType /\ t0.status # "cancelled"
    BY <1>0, <1>3 DEF TurnType, OpenTurn
  <2> HIDE DEF t0
  <2>2. t1 \in TurnType /\ t1.status # "cancelled"
    BY <1>1, <2>1, FencedType DEF ClosedTurn, Errors
  <2> HIDE DEF t1
  <2>3. turn' \in {t1, Claimed(t1), Retried(Claimed(t1))}
    BY <1>5 DEF Begin, t0, t1
  <2> QED
    BY <2>2, <2>3, ClaimedFacts
<1>6. CASE PassClaims \/ PassProvider
  <2>1. /\ Fenced(turn, "completed", "none").status # "cancelled"
        /\ \A error \in Errors : Fenced(turn, "interrupted", error).status # "cancelled"
    BY <1>0, <1>1, <1>3 DEF ClosedTurn, Errors
  <2> QED
    BY <1>3, <1>6, <2>1 DEF PassClaims, PassProvider, Errors
<1>7. CASE Boot
  BY <1>3, <1>7 DEF Boot
<1>8. CASE PassFences
  <2> DEFINE t == IF host = "recovering" /\ DeliveredEffect /\ ~LiveTurn
                  THEN Fenced(turn, "interrupted", "manual") ELSE turn
  <2>1. t \in TurnType /\ t.status # "cancelled"
    BY <1>0, <1>1, <1>3, FencedType DEF ClosedTurn, Errors
  <2> HIDE DEF t
  <2>2. turn' = FencedExpired(t)
    BY <1>8 DEF PassFences, t
  <2> QED
    BY <2>1, <2>2, ExpiredFacts
<1>9. CASE CardLife \/ TurnLapses
  <2>1. \/ turn' = Released(turn, "waiting_user") \/ turn' = Claimed(Asked)
        \/ turn' = [turn EXCEPT !.live = FALSE]
    BY <1>0, <1>3, <1>9, AskedFacts DEF CardLife, RollbackCard, PublishCard, CloseCard,
       WaitForUser, ResumeFromUser, TurnLapses
  <2>2. /\ Released(turn, "waiting_user").status = "waiting_user"
        /\ [turn EXCEPT !.live = FALSE].status = turn.status
    BY <1>0 DEF Released, TurnType
  <2> QED
    BY <1>0, <1>3, <2>1, <2>2, AskedFacts
<1>10. CASE PassStarts \/ PassSkips \/ Crash \/ HeartbeatLost \/ PersistReply \/ Notice \/ Close
            \/ UserStops \/ UNCHANGED vars
  BY <1>3, <1>10 DEF PassStarts, PassSkips, Crash, HeartbeatLost, PersistReply, Notice, Close,
       UserStops, vars, durable
<1>11. CASE \E s \in Slots : \/ \E kind \in {"final", "aside", "partial"} : Deliver(s, kind)
                             \/ DeliverAgain(s) \/ Delivery(s) \/ OperatorResolves(s) \/ RowLapses(s)
                             \/ \E request \in {"first", "replay"} : ProviderAnswers(s, request)
  BY <1>3, <1>11 DEF Deliver, DeliverAgain, Delivery, SendRequest, Acknowledged, Rejected, NoAnswer,
       Replay, CallStep, OperatorResolves, RowLapses, ProviderAnswers, durable
<1> QED
  BY <1>4, <1>5, <1>6, <1>7, <1>8, <1>9, <1>10, <1>11 DEF Next, Attempt, Recovery, Leases

LEMMA ClosedSeenStep ==
  ASSUME TypeOK, LeaseInv, SeenInv, [Next]_vars
  PROVE  ClosedIsSeen' /\ OpenReason'
<1>1. CASE turn.status \in ClosedTurn
  <2>1. turn' = turn
    BY <1>1, TurnStep
  <2> QED
    BY <1>1, <2>1, SeenStays DEF SeenInv, ClosedIsSeen, OpenReason
<1>2. CASE turn.status \notin ClosedTurn
  <2>1. turn'.status = "completed" => Seen' \/ mode' = "proactive"
    BY <1>2, Completing, SeenStays DEF ClosedTurn, SeenInv, AckedIsSeen, Seen, CardShown
  <2>2. turn'.status = "interrupted" => turn'.error \in {"manual", "retry"} \/ Seen'
    BY <1>2, Reasons, SeenStays DEF SeenInv, CardIsSeen, Seen, CardShown, Reasoned
  <2>3. turn'.status = "cancelled" => Seen' \/ told' # "no"
    BY <1>2, Cancelling, SeenStays
  <2>4. OpenReason'
    BY <1>2, Reasons DEF SeenInv, Reasoned, OpenReason
  <2> QED
    BY <2>1, <2>2, <2>3, <2>4 DEF ClosedIsSeen
<1> QED
  BY <1>1, <1>2

LEMMA ConsumedStep ==
  ASSUME TypeOK, LeaseInv, SeenInv, [Next]_vars
  PROVE  AnsweredOrTold'
<1> SUFFICES ASSUME cursor'
             PROVE  \/ Seen' \/ told' # "no"
                    \/ mode' = "proactive" /\ turn'.status = "completed"
                    \/ turn'.status = "failed" \/ RetryLost'
  BY DEF AnsweredOrTold, Accounted
<1>1. ClosedIsSeen'
  BY ClosedSeenStep
<1>2. CASE cursor
  BY <1>2, SeenStays, TurnStep DEF SeenInv, AnsweredOrTold, Accounted, RetryLost, ClosedTurn
<1>3. CASE cursor' = cursor
  BY <1>2, <1>3
<1>4. CASE Begin
  <2>1. CASE turn'.status \in {"completed", "failed", "cancelled"}
             \/ (turn'.status = "interrupted" /\ turn'.error # "manual")
    BY <1>1, <2>1 DEF ClosedIsSeen, RetryLost
  <2>2. CASE ~(turn'.status \in {"completed", "failed", "cancelled"}
               \/ (turn'.status = "interrupted" /\ turn'.error # "manual"))
    <3>1. cursor' = cursor
      BY <1>4, <2>2 DEF Begin, ClosedTurn
    <3> QED
      BY <1>3, <3>1
  <2> QED
    BY <2>1, <2>2
<1>5. CASE \E healthy \in BOOLEAN : Settle(healthy)
  <2>1. CASE run.acked
    BY <2>1, SeenStays DEF SeenInv, AckedIsSeen
  <2>2. CASE SettleUncertain
    BY <1>3, <2>2 DEF SettleUncertain
  <2>3. CASE SettleFailed \/ SettleStopped
    BY <1>3, <2>3 DEF SettleFailed, SettleStopped
  <2>4. CASE SettleUnfinished
    BY <1>3, <2>1, <2>4 DEF SettleUnfinished
  <2>5. CASE SettleCompleted
    <3>1. CASE MayClose /\ Finish("completed")
      <4>1. turn'.status = "completed"
        BY <3>1, FinishTurn DEF ClosedTurn
      <4> QED
        BY <1>1, <4>1 DEF ClosedIsSeen
    <3> QED
      BY <1>3, <2>1, <2>5, <3>1 DEF SettleCompleted, MayClose
  <2> QED
    BY <1>5, <2>2, <2>3, <2>4, <2>5 DEF Settle
<1>6. CASE Notice \/ Boot
  BY <1>3, <1>6 DEF Notice, Boot
<1>7. CASE CardLife \/ HeartbeatLost \/ PersistReply \/ Close \/ UserStops \/ Crash \/ Leases
           \/ PassStarts \/ PassSkips \/ PassClaims \/ PassProvider \/ PassFences \/ UNCHANGED vars
  <2>1. cursor' = cursor
    BY <1>7 DEF CardLife, RollbackCard, PublishCard, CloseCard, WaitForUser, ResumeFromUser,
       CardStep, HeartbeatLost, PersistReply, Close, UserStops, Crash, Leases, TurnLapses, RowLapses,
       PassStarts, PassSkips, PassClaims, PassProvider, PassFences, PassStep, durable, vars
  <2> QED
    BY <1>3, <2>1
<1>8. CASE \E s \in Slots : \/ \E kind \in {"final", "aside", "partial"} : Deliver(s, kind)
                            \/ DeliverAgain(s) \/ Delivery(s) \/ OperatorResolves(s)
                            \/ \E request \in {"first", "replay"} : ProviderAnswers(s, request)
  <2>1. cursor' = cursor
    BY <1>8 DEF Deliver, DeliverAgain, Delivery, SendRequest, Acknowledged, Rejected, NoAnswer,
       Replay, CallStep, OperatorResolves, ProviderAnswers, durable
  <2> QED
    BY <1>3, <2>1
<1> QED
  BY <1>4, <1>5, <1>6, <1>7, <1>8 DEF Next, Attempt, Recovery

\* An input is consumed only when its user saw something of it or was told why
\* not, except that a turn may fail, an agent that replies by itself may end one
\* in silence, and a retry that lost its host or its lease is closed with the error
\* of the attempt before it.
THEOREM ConsumedIsAnswered == Spec => []AnsweredOrTold
<1>1. Init => SeenInv
  BY DEF Init, NoRun, NoCard, SeenInv, AckedIsSeen, CardIsSeen, ClosedIsSeen, OpenReason,
     ClosedTurn, AnsweredOrTold
<1>2. TypeOK /\ LeaseInv /\ PromiseInv /\ SeenInv /\ [Next]_vars => SeenInv'
  BY AckedStep, CardSeenStep, ClosedSeenStep, ConsumedStep DEF SeenInv
<1>3. SeenInv => AnsweredOrTold
  BY DEF SeenInv
<1> QED
  BY <1>1, <1>2, <1>3, LeaseInvariant, PromiseInvariant, PTL DEF Spec
=============================================================================
