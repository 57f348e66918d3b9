---------------------- MODULE ChannelReliabilityProofs ----------------------
(* Theorems about ChannelReliability, for every set of outputs, every kind *)
(* of reply, both kinds of provider and any number of faults.              *)
EXTENDS ChannelReliability, TLAPS

-----------------------------------------------------------------------------
(* Type correctness.                                                       *)

TurnType == [status : {"none"} \cup OpenTurn \cup ClosedTurn, token : Nat,
             leased : BOOLEAN, live : BOOLEAN, error : Errors, attempt : Nat]
RowStatus == {"none", "delivered", "failed"} \cup Unsettled
RowType == [status : RowStatus, token : Nat, live : BOOLEAN]
CardType == [status : {"none", "completed", "aborted", "failed"} \cup OpenCard,
             identity : BOOLEAN, boot : BOOLEAN, stop : BOOLEAN]
RunType == [phase : {"idle", "running", "notice", "closing"}, claim : Nat,
            card : BOOLEAN, acked : BOOLEAN, stop : BOOLEAN, settled : BOOLEAN,
            again : BOOLEAN]
CallType == [pc : {"idle", "claimed", "first", "sleep", "replay"}, token : Nat,
             kind : {"final", "aside", "partial"}]
WireType == [{"first", "replay"} -> {"none", "flying", "accepted", "refused", "limited"}]

DurableType == /\ turn \in TurnType /\ row \in [Slots -> RowType]
               /\ card \in CardType /\ reply \in BOOLEAN /\ cursor \in BOOLEAN
LocalType == /\ host \in {"down", "recovering", "up"} /\ run \in RunType
             /\ call \in [Slots -> CallType]
             /\ pass \in {"none", "visit", "provider", "fences"}
WorldType == /\ wire \in [Slots -> WireType] /\ shown \in [Slots -> Nat]
             /\ sentBy \in [Slots -> Nat]
OtherType == /\ mode \in Modes /\ told \in {"no", "notice", "stop", "gone"}
             /\ faults \in Nat

LEMMA TypeParts == TypeOK <=> DurableType /\ LocalType /\ WorldType /\ OtherType
BY DEF TypeOK, DurableType, LocalType, WorldType, OtherType, TurnType, RowType,
       RowStatus, CardType, RunType, CallType, WireType

LEMMA TypeNext == DurableType' /\ LocalType' /\ WorldType' /\ OtherType' => TypeOK'
BY DEF TypeOK, DurableType, LocalType, WorldType, OtherType, TurnType, RowType,
       RowStatus, CardType, RunType, CallType, WireType

LEMMA NothingTyped == NoRun \in RunType /\ Again \in RunType /\ NoCall \in CallType
                      /\ NoCard \in CardType
BY DEF NoRun, Again, NoCall, NoCard, RunType, CallType, CardType

LEMMA ReleasedType ==
  ASSUME NEW t \in TurnType, NEW status \in OpenTurn \cup ClosedTurn
  PROVE  /\ Released(t, status) \in TurnType
         /\ Released(t, status).status = status
BY DEF Released, TurnType

LEMMA RetriedType ==
  ASSUME NEW t \in TurnType
  PROVE  /\ Retried(t) \in TurnType
         /\ Retried(t).status = "retry_wait" /\ ~Retried(t).leased
         /\ Retried(t).error = "retry"
BY DEF Retried, Released, TurnType, OpenTurn, Errors

LEMMA ClosedType ==
  ASSUME NEW t \in TurnType, NEW status \in ClosedTurn
  PROVE  /\ Closed(t, status) \in TurnType
         /\ Closed(t, status).status = status /\ ~Closed(t, status).leased
BY DEF Closed, Released, TurnType, Errors

LEMMA ClaimedType ==
  ASSUME NEW t \in TurnType
  PROVE  Claimed(t) \in TurnType
<1>1. t.token + 1 \in Nat /\ t.attempt + 1 \in Nat
  BY DEF TurnType
<1>2. "running" \in {"none"} \cup OpenTurn \cup ClosedTurn
  BY DEF OpenTurn
<1> QED
  BY <1>1, <1>2 DEF Claimed, TurnType

LEMMA FencedType ==
  ASSUME NEW t \in TurnType, NEW status \in ClosedTurn, NEW error \in Errors
  PROVE  Fenced(t, status, error) \in TurnType
<1> DEFINE r == Released(t, status)
<1>1. r \in TurnType
  BY ReleasedType
<1> HIDE DEF r
<1>2. r.token + 1 \in Nat
  BY <1>1 DEF TurnType
<1>3. [r EXCEPT !.token = @ + 1, !.error = error] \in TurnType
  BY <1>1, <1>2 DEF TurnType
<1> QED
  BY <1>3 DEF Fenced, r

LEMMA FencedExpiredType ==
  ASSUME NEW t \in TurnType
  PROVE  FencedExpired(t) \in TurnType
<1>1. (IF t.error = "none" THEN "manual" ELSE t.error) \in Errors
  BY DEF TurnType, Errors
<1> QED
  BY <1>1, FencedType DEF FencedExpired, ClosedTurn

LEMMA ResumedType ==
  ASSUME turn \in TurnType
  PROVE  Resumed \in TurnType
<1>1. [turn EXCEPT !.error = "none"] \in TurnType
  BY DEF TurnType, Errors
<1> QED
  BY <1>1, ClaimedType DEF Resumed

LEMMA FinishType ==
  ASSUME TypeOK, NEW status \in ClosedTurn, Finish(status)
  PROVE  turn' \in TurnType /\ (card' = card \/ card' = NoCard)
<1>1. turn \in TurnType
  BY DEF TypeOK, TurnType
<1>2. Closed(Resumed, status) \in TurnType
  BY <1>1, ResumedType, ClosedType
<1> QED
  BY <1>1, <1>2 DEF Finish, CardRetired

LEMMA InitType == Init => TypeOK
<1> SUFFICES ASSUME Init PROVE TypeOK
  OBVIOUS
<1>1. turn \in TurnType
  BY DEF Init, TurnType, Errors
<1>2. row \in [Slots -> RowType]
  BY DEF Init, RowType, RowStatus
<1>3. DurableType
  BY <1>1, <1>2, NothingTyped DEF Init, DurableType
<1>4. LocalType
  BY NothingTyped DEF Init, LocalType
<1>5. WorldType /\ OtherType
  BY DEF Init, WorldType, WireType, OtherType
<1> QED
  BY <1>3, <1>4, <1>5, TypeParts

LEMMA BeginType ==
  ASSUME TypeOK, Begin
  PROVE  TypeOK'
<1> DEFINE t0 == IF turn.status = "none" THEN [turn EXCEPT !.status = "queued"] ELSE turn
           t1 == IF DeliveredEffect THEN Fenced(t0, "interrupted", "manual") ELSE t0
           reserve == mode = "card" /\ ~run.again /\ card.status = "none"
<1>0. DurableType /\ LocalType /\ WorldType /\ OtherType
  BY TypeParts
<1>1. t0 \in TurnType
  BY <1>0 DEF DurableType, TurnType, OpenTurn
<1> HIDE DEF t0
<1>2. t1 \in TurnType
  BY <1>1, FencedType DEF ClosedTurn, Errors
<1> HIDE DEF t1
<1>3. Claimed(t1) \in TurnType /\ t1.token + 1 \in Nat
  BY <1>2, ClaimedType DEF TurnType
<1>4. Retried(Claimed(t1)) \in TurnType
  BY <1>3, RetriedType
<1>5. turn' \in TurnType
  BY <1>2, <1>3, <1>4 DEF Begin, t0, t1
<1>6. run' \in RunType
  <2>1. [NoRun EXCEPT !.phase = "notice", !.settled = TRUE] \in RunType
    BY DEF NoRun, RunType
  <2>2. ASSUME NEW again \in BOOLEAN, NEW r \in BOOLEAN
        PROVE  [NoRun EXCEPT !.phase = "running", !.again = again,
                             !.claim = t1.token + 1, !.card = r] \in RunType
    BY <1>3 DEF NoRun, RunType
  <2>3. run.again \in BOOLEAN /\ reserve \in BOOLEAN
    BY <1>0 DEF LocalType, RunType
  <2> QED
    BY <2>1, <2>2, <2>3, NothingTyped DEF Begin, t0, t1
<1>7. card' \in CardType
  <2>1. [NoCard EXCEPT !.status = "creating"] \in CardType
    BY DEF NoCard, CardType, OpenCard
  <2> QED
    BY <1>0, <2>1 DEF Begin, DurableType
<1>8. cursor' \in BOOLEAN
  BY <1>0 DEF Begin, DurableType
<1>9. DurableType' /\ LocalType'
  BY <1>0, <1>5, <1>6, <1>7, <1>8 DEF Begin, DurableType, LocalType
<1>10. WorldType' /\ OtherType'
  BY <1>0 DEF Begin, WorldType, OtherType, world
<1> QED
  BY <1>9, <1>10, TypeNext

LEMMA AttemptType ==
  ASSUME TypeOK, HeartbeatLost \/ PersistReply \/ UserStops \/ Notice \/ Close
  PROVE  TypeOK'
<1>0. DurableType /\ LocalType /\ WorldType /\ OtherType
  BY TypeParts
<1>1. /\ [run EXCEPT !.claim = 0] \in RunType
      /\ [run EXCEPT !.stop = TRUE] \in RunType
      /\ run.settled \in BOOLEAN
  BY <1>0 DEF LocalType, RunType
<1>2. run' \in RunType
  BY <1>0, <1>1, NothingTyped DEF HeartbeatLost, PersistReply, UserStops, Notice, Close, LocalType
<1>3. DurableType'
  BY <1>0, <1>1 DEF HeartbeatLost, PersistReply, UserStops, Notice, Close, DurableType, durable
<1>4. LocalType' /\ WorldType' /\ OtherType'
  BY <1>0, <1>2 DEF HeartbeatLost, PersistReply, UserStops, Notice, Close, LocalType,
                    WorldType, OtherType, world, Fault
<1> QED
  BY <1>3, <1>4, TypeNext

LEMMA CardLifeType ==
  ASSUME TypeOK, CardLife
  PROVE  TypeOK'
<1>0. DurableType /\ LocalType /\ WorldType /\ OtherType
  BY TypeParts
<1>1. turn.token + 1 \in Nat /\ Resumed \in TurnType
      /\ Released(turn, "waiting_user") \in TurnType
  BY <1>0, ResumedType, ReleasedType DEF DurableType, TurnType, OpenTurn
<1>2. turn' \in TurnType
  BY <1>0, <1>1 DEF CardLife, RollbackCard, PublishCard, CloseCard, WaitForUser,
                    ResumeFromUser, DurableType
<1>3. card' \in CardType
  <2>1. ASSUME NEW status \in {"completed", "aborted"}, NEW acked \in BOOLEAN,
               CloseCard(status, acked)
        PROVE  card' \in CardType
    <3>1. run.stop \in BOOLEAN
      BY <1>0 DEF LocalType, RunType
    <3> QED
      BY <1>0, <2>1, <3>1 DEF CloseCard, DurableType, CardType
  <2>2. [card EXCEPT !.status = "streaming", !.identity = TRUE] \in CardType
    BY <1>0 DEF DurableType, CardType, OpenCard
  <2> QED
    BY <1>0, <2>1, <2>2, NothingTyped DEF CardLife, RollbackCard, PublishCard, WaitForUser,
                                          ResumeFromUser, DurableType
<1>4. run' \in RunType
  <2>1. ASSUME NEW acked \in BOOLEAN
        PROVE  [run EXCEPT !.acked = @ \/ acked] \in RunType
    BY <1>0 DEF LocalType, RunType
  <2>2. /\ [run EXCEPT !.card = FALSE] \in RunType
        /\ [run EXCEPT !.claim = 0] \in RunType
        /\ [run EXCEPT !.claim = turn.token + 1] \in RunType
    BY <1>0, <1>1 DEF LocalType, RunType
  <2> QED
    BY <1>0, <2>1, <2>2 DEF CardLife, RollbackCard, PublishCard, CloseCard, WaitForUser,
                            ResumeFromUser, LocalType
<1>5. DurableType' /\ LocalType'
  BY <1>0, <1>2, <1>3, <1>4 DEF CardLife, RollbackCard, PublishCard, CloseCard, WaitForUser,
                    ResumeFromUser, CardStep, DurableType, LocalType
<1>6. WorldType' /\ OtherType'
  BY <1>0 DEF CardLife, RollbackCard, PublishCard, CloseCard, WaitForUser,
              ResumeFromUser, CardStep, WorldType, OtherType, world, Fault
<1> QED
  BY <1>5, <1>6, TypeNext

LEMMA ForgottenType ==
  ASSUME NEW w \in WireType
  PROVE  Forgotten(w) \in WireType
BY DEF Forgotten, WireType

LEMMA EndsType ==
  ASSUME TypeOK, NEW s \in Slots, NEW status \in {"failed", "delivered", "uncertain"},
         Ends(s, status)
  PROVE  /\ row' \in [Slots -> RowType] /\ call' \in [Slots -> CallType]
         /\ wire' \in [Slots -> WireType]
<1>0. DurableType /\ LocalType /\ WorldType
  BY TypeParts
<1>1. [row[s] EXCEPT !.status = status, !.live = FALSE] \in RowType
  BY <1>0 DEF DurableType, RowType, RowStatus, Unsettled
<1>2. row' = row \/ row' = [row EXCEPT ![s] = [row[s] EXCEPT !.status = status, !.live = FALSE]]
  BY <1>0 DEF Ends, DurableType
<1>3. row' \in [Slots -> RowType]
  BY <1>0, <1>1, <1>2 DEF DurableType
<1>4. Forgotten(wire[s]) \in WireType
  BY <1>0, ForgottenType DEF WorldType
<1> QED
  BY <1>0, <1>3, <1>4, NothingTyped DEF Ends, LocalType, WorldType

LEMMA OutputType ==
  ASSUME TypeOK, NEW s \in Slots,
         \/ \E kind \in {"final", "aside", "partial"} : Deliver(s, kind)
         \/ DeliverAgain(s)
         \/ OperatorResolves(s)
         \/ \E request \in {"first", "replay"} : ProviderAnswers(s, request)
  PROVE  TypeOK'
<1>0. DurableType /\ LocalType /\ WorldType /\ OtherType
  BY TypeParts
<1>1. CASE \E kind \in {"final", "aside", "partial"} : Deliver(s, kind)
  <2>1. PICK kind \in {"final", "aside", "partial"} : Deliver(s, kind)
    BY <1>1
  <2>2. row[s].token + 1 \in Nat /\ turn.attempt \in Nat
    BY <1>0 DEF DurableType, RowType, TurnType
  <2>3. [status |-> "claimed", token |-> row[s].token + 1, live |-> TRUE] \in RowType
    BY <2>2 DEF RowType, RowStatus, Unsettled, Leased
  <2>4. [pc |-> "claimed", token |-> row[s].token + 1, kind |-> kind] \in CallType
    BY <2>2 DEF CallType
  <2>5. row' \in [Slots -> RowType] /\ call' \in [Slots -> CallType]
        /\ sentBy' \in [Slots -> Nat]
    BY <1>0, <2>1, <2>2, <2>3, <2>4 DEF Deliver, DurableType, LocalType, WorldType
  <2>6. DurableType' /\ LocalType' /\ WorldType' /\ OtherType'
    BY <1>0, <2>1, <2>5 DEF Deliver, CallStep, DurableType, LocalType, WorldType, OtherType
  <2> QED
    BY <2>6, TypeNext
<1>2. CASE DeliverAgain(s)
  <2>1. [run EXCEPT !.acked = TRUE] \in RunType
    BY <1>0 DEF LocalType, RunType
  <2>2. DurableType' /\ LocalType' /\ WorldType' /\ OtherType'
    BY <1>0, <1>2, <2>1 DEF DeliverAgain, CallStep, DurableType, LocalType, WorldType,
                            OtherType, world
  <2> QED
    BY <2>2, TypeNext
<1>3. CASE OperatorResolves(s)
  <2>1. /\ [row[s] EXCEPT !.status = "delivered"] \in RowType
        /\ [row[s] EXCEPT !.status = "failed"] \in RowType
    BY <1>0 DEF DurableType, RowType, RowStatus
  <2>2. row' \in [Slots -> RowType]
    BY <1>0, <1>3, <2>1 DEF OperatorResolves, DurableType
  <2>3. [request \in DOMAIN wire[s] |-> "none"] \in WireType
    BY <1>0 DEF WorldType, WireType
  <2>4. wire' \in [Slots -> WireType]
    BY <1>0, <1>3, <2>3 DEF OperatorResolves, WorldType
  <2>5. DurableType' /\ LocalType' /\ WorldType' /\ OtherType'
    BY <1>0, <1>3, <2>2, <2>4 DEF OperatorResolves, DurableType, LocalType, WorldType, OtherType
  <2> QED
    BY <2>5, TypeNext
<1>4. CASE \E request \in {"first", "replay"} : ProviderAnswers(s, request)
  <2>1. PICK request \in {"first", "replay"} : ProviderAnswers(s, request)
    BY <1>4
  <2>2. ASSUME NEW answer \in {"accepted", "refused", "limited"}
        PROVE  [wire EXCEPT ![s][request] = answer] \in [Slots -> WireType]
    BY <1>0 DEF WorldType, WireType
  <2>3. (IF Replays THEN 1 ELSE shown[s] + 1) \in Nat
    BY <1>0 DEF WorldType
  <2>4. wire' \in [Slots -> WireType] /\ shown' \in [Slots -> Nat]
    <3>1. ASSUME NEW n \in Nat
          PROVE  [shown EXCEPT ![s] = n] \in [Slots -> Nat]
      BY <1>0 DEF WorldType
    <3>2. shown' \in [Slots -> Nat]
      BY <1>0, <2>1, <2>3, <3>1 DEF ProviderAnswers, WorldType
    <3>3. wire' \in [Slots -> WireType]
      BY <1>0, <2>1, <2>2 DEF ProviderAnswers
    <3> QED
      BY <3>2, <3>3
  <2>5. DurableType' /\ LocalType' /\ WorldType' /\ OtherType'
    BY <1>0, <2>1, <2>4 DEF ProviderAnswers, durable, DurableType, LocalType, WorldType, OtherType
  <2> QED
    BY <2>5, TypeNext
<1> QED
  BY <1>1, <1>2, <1>3, <1>4

LEMMA DeliveryType ==
  ASSUME TypeOK, NEW s \in Slots, Delivery(s)
  PROVE  TypeOK'
<1>0. DurableType /\ LocalType /\ WorldType /\ OtherType
  BY TypeParts
<1>1. row' \in [Slots -> RowType] /\ call' \in [Slots -> CallType]
      /\ wire' \in [Slots -> WireType]
  <2>1. CASE \E status \in {"failed", "delivered", "uncertain"} : Ends(s, status)
    BY <2>1, EndsType
  <2>2. CASE SendRequest(s) /\ RowHeld(s)
    <3>1. [row[s] EXCEPT !.status = "sending"] \in RowType
      BY <1>0 DEF DurableType, RowType, RowStatus, Unsettled, Leased
    <3>2. [call[s] EXCEPT !.pc = "first"] \in CallType
      BY <1>0 DEF LocalType, CallType
    <3>3. [wire EXCEPT ![s]["first"] = "flying"] \in [Slots -> WireType]
      BY <1>0 DEF WorldType, WireType
    <3> QED
      BY <1>0, <2>2, <3>1, <3>2, <3>3 DEF SendRequest, DurableType, LocalType
  <2>3. CASE NoAnswer(s) /\ Replays /\ call[s].pc = "first" /\ row[s].status = "sending"
    <3>1. [call[s] EXCEPT !.pc = "sleep"] \in CallType
      BY <1>0 DEF LocalType, CallType
    <3>2. Forgotten(wire[s]) \in WireType
      BY <1>0, ForgottenType DEF WorldType
    <3> QED
      BY <1>0, <2>3, <3>1, <3>2 DEF NoAnswer, DurableType, LocalType, WorldType
  <2>4. CASE Replay(s)
    <3>1. [call[s] EXCEPT !.pc = "replay"] \in CallType
      BY <1>0 DEF LocalType, CallType
    <3>2. [wire EXCEPT ![s]["replay"] = "flying"] \in [Slots -> WireType]
      BY <1>0 DEF WorldType, WireType
    <3> QED
      BY <1>0, <2>4, <3>1, <3>2 DEF Replay, DurableType, LocalType
  <2> QED
    BY <2>1, <2>2, <2>3, <2>4 DEF Delivery, SendRequest, Acknowledged, Rejected, NoAnswer
<1>2. run' \in RunType
  <2>1. ASSUME NEW b \in BOOLEAN
        PROVE  [run EXCEPT !.acked = @ \/ b] \in RunType
    BY <1>0 DEF LocalType, RunType
  <2>2. (RowHeld(s) /\ call[s].kind = "final" /\ run.phase = "running") \in BOOLEAN
    OBVIOUS
  <2> QED
    BY <1>0, <2>1, <2>2 DEF Delivery, SendRequest, Acknowledged, Rejected, NoAnswer, Replay, LocalType
<1>3. DurableType' /\ LocalType' /\ WorldType' /\ OtherType'
  BY <1>0, <1>1, <1>2 DEF Delivery, SendRequest, Acknowledged, Rejected, NoAnswer, Replay,
     CallStep, DurableType, LocalType, WorldType, OtherType
<1> QED
  BY <1>3, TypeNext

LEMMA SettleType ==
  ASSUME TypeOK, NEW healthy \in BOOLEAN, Settle(healthy)
  PROVE  TypeOK'
<1>0. DurableType /\ LocalType /\ WorldType /\ OtherType
  BY TypeParts
<1>1. MayClose \in BOOLEAN
  BY DEF MayClose, Holds, AwaitsUser, LiveTurn
<1>2. /\ \A b \in BOOLEAN : [run EXCEPT !.phase = "notice", !.claim = 0, !.settled = b] \in RunType
      /\ [Again EXCEPT !.phase = "closing"] \in RunType
  BY <1>0 DEF LocalType, RunType, Again, NoRun
<1>3. run' \in RunType
  BY <1>0, <1>1, <1>2, NothingTyped DEF Settle, SettleUncertain, SettleFailed, SettleStopped,
     SettleCompleted, SettleUnfinished, ToNotice
<1>4. turn' \in TurnType /\ (card' = card \/ card' = NoCard)
  <2>1. CASE SettleUncertain
    BY <1>0, <2>1, FencedType DEF SettleUncertain, ClosedTurn, Errors, DurableType
  <2>2. CASE \E status \in ClosedTurn : Finish(status)
    BY <2>2, FinishType
  <2>3. CASE SettleCompleted
    <3>1. [turn EXCEPT !.status = "finalizing"] \in TurnType
      BY <1>0 DEF DurableType, TurnType, OpenTurn
    <3> QED
      BY <1>0, <2>2, <2>3, <3>1 DEF SettleCompleted, ClosedTurn, CardRetired, DurableType
  <2>4. CASE SettleUnfinished
    <3>1. Retried(Resumed) \in TurnType
      BY <1>0, ResumedType, RetriedType DEF DurableType
    <3> QED
      BY <1>0, <2>2, <2>4, <3>1 DEF SettleUnfinished, ClosedTurn, DurableType
  <2> QED
    BY <2>1, <2>2, <2>3, <2>4 DEF Settle, SettleFailed, SettleStopped, ClosedTurn
<1>5. cursor' \in BOOLEAN /\ told' \in {"no", "notice", "stop", "gone"}
  BY <1>0, <1>1 DEF Settle, SettleUncertain, SettleFailed, SettleStopped, SettleCompleted,
     SettleUnfinished, DurableType, OtherType
<1>6. faults' \in Nat
  BY <1>0 DEF Settle, Fault, OtherType
<1>7. DurableType' /\ LocalType' /\ WorldType' /\ OtherType'
  BY <1>0, <1>3, <1>4, <1>5, <1>6, NothingTyped DEF Settle, world, DurableType, LocalType,
     WorldType, OtherType
<1> QED
  BY <1>7, TypeNext

LEMMA CrashAndLeaseType ==
  ASSUME TypeOK, Crash \/ Leases
  PROVE  TypeOK'
<1>0. DurableType /\ LocalType /\ WorldType /\ OtherType
  BY TypeParts
<1>1. turn' \in TurnType
  <2>1. [turn EXCEPT !.live = FALSE] \in TurnType
    BY <1>0 DEF DurableType, TurnType
  <2> QED
    BY <1>0, <2>1 DEF Crash, Leases, TurnLapses, RowLapses, durable, DurableType
<1>2. row' \in [Slots -> RowType]
  <2>1. ASSUME NEW s \in Slots
        PROVE  [row EXCEPT ![s].live = FALSE] \in [Slots -> RowType]
    BY <1>0 DEF DurableType, RowType
  <2> QED
    BY <1>0, <2>1 DEF Crash, Leases, TurnLapses, RowLapses, durable, DurableType
<1>3. wire' \in [Slots -> WireType]
  BY <1>0, ForgottenType DEF Crash, Leases, TurnLapses, RowLapses, WorldType, world
<1>4. call' \in [Slots -> CallType]
  BY <1>0, NothingTyped DEF Crash, Leases, TurnLapses, RowLapses, LocalType
<1>5. DurableType' /\ LocalType'
  BY <1>0, <1>1, <1>2, <1>4, NothingTyped DEF Crash, Leases, TurnLapses, RowLapses, durable,
     DurableType, LocalType
<1>6. WorldType' /\ OtherType'
  BY <1>0, <1>3 DEF Crash, Leases, TurnLapses, RowLapses, Fault, world, WorldType, OtherType
<1> QED
  BY <1>5, <1>6, TypeNext

LEMMA RecoveryType ==
  ASSUME TypeOK, Recovery
  PROVE  TypeOK'
<1>0. DurableType /\ LocalType /\ WorldType /\ OtherType
  BY TypeParts
<1>1. ASSUME NEW t \in TurnType
      PROVE  /\ Fenced(t, "interrupted", "manual") \in TurnType
             /\ Fenced(t, "interrupted", "other") \in TurnType
             /\ Fenced(t, "completed", "none") \in TurnType
             /\ Fenced(t, "cancelled", "other") \in TurnType
  BY FencedType DEF ClosedTurn, Errors
<1>2. turn' \in TurnType
  <2>1. CASE PassFences
    <3> DEFINE t == IF host = "recovering" /\ DeliveredEffect /\ ~LiveTurn
                    THEN Fenced(turn, "interrupted", "manual") ELSE turn
    <3>1. t \in TurnType
      BY <1>0, <1>1 DEF DurableType
    <3> HIDE DEF t
    <3>2. turn' = FencedExpired(t)
      BY <2>1 DEF PassFences, t
    <3> QED
      BY <3>1, <3>2, FencedExpiredType
  <2> QED
    BY <1>0, <1>1, <2>1 DEF Recovery, Boot, PassStarts, PassSkips, PassClaims, PassProvider,
       durable, DurableType
<1>3. row' \in [Slots -> RowType]
  <2>1. ASSUME NEW s \in Slots, NEW status \in {"uncertain", "retry_wait"}
        PROVE  [row[s] EXCEPT !.status = status, !.token = @ + 1] \in RowType
    <3>1. row[s] \in RowType /\ row[s].token + 1 \in Nat
      BY <1>0 DEF DurableType, RowType
    <3>2. status \in RowStatus
      BY DEF RowStatus, Unsettled
    <3> QED
      BY <3>1, <3>2 DEF RowType
  <2>2. CASE PassFences
    <3> DEFINE reconciled(s) ==
          IF row[s].status \in Leased /\ ~row[s].live
          THEN [row[s] EXCEPT !.status = IF @ = "sending" THEN "uncertain" ELSE "retry_wait",
                              !.token = @ + 1]
          ELSE row[s]
    <3>1. \A s \in Slots : reconciled(s) \in RowType
      BY <1>0, <2>1 DEF DurableType
    <3>2. row' = row \/ row' = [s \in Slots |-> reconciled(s)]
      BY <2>2 DEF PassFences
    <3> HIDE DEF reconciled
    <3> QED
      BY <1>0, <3>1, <3>2 DEF DurableType
  <2> QED
    BY <1>0, <2>2 DEF Recovery, Boot, PassStarts, PassSkips, PassClaims, PassProvider,
       durable, DurableType
<1>4. card' \in CardType
  <2>1. /\ [card EXCEPT !.boot = TRUE] \in CardType
        /\ \A status \in {"recovering", "failed", "completed", "aborted", "streaming"} :
              [card EXCEPT !.status = status] \in CardType
    BY <1>0 DEF DurableType, CardType, OpenCard
  <2>2. \A complete \in BOOLEAN :
          [card EXCEPT !.status = IF complete THEN "completed" ELSE "aborted"] \in CardType
    BY <2>1
  <2>3. CASE PassProvider
    <3>1. (reply /\ turn.status = "completed") \in BOOLEAN
      BY <1>0 DEF DurableType
    <3> QED
      BY <2>1, <2>2, <2>3, <3>1 DEF PassProvider
  <2> QED
    BY <1>0, <2>1, <2>3 DEF Recovery, Boot, PassStarts, PassSkips, PassClaims, PassFences,
       durable, DurableType
<1>5. DurableType'
  BY <1>0, <1>2, <1>3, <1>4 DEF Recovery, Boot, PassStarts, PassSkips, PassClaims, PassProvider,
     PassFences, PassStep, durable, DurableType
<1>6. LocalType'
  BY <1>0 DEF Recovery, Boot, PassStarts, PassSkips, PassClaims, PassProvider, PassFences,
     PassStep, durable, LocalType
<1>7. WorldType'
  BY <1>0 DEF Recovery, Boot, PassStarts, PassSkips, PassClaims, PassProvider, PassFences,
     PassStep, world, WorldType
<1>8. OtherType'
  <2>1. mode' = mode
    BY DEF Recovery, Boot, PassStarts, PassSkips, PassClaims, PassProvider, PassFences, PassStep
  <2>2. told' \in {told, "stop"}
    BY DEF Recovery, Boot, PassStarts, PassSkips, PassClaims, PassProvider, PassFences, PassStep
  <2>3. faults' \in {faults, faults + 1}
    BY DEF Recovery, Boot, PassStarts, PassSkips, PassClaims, PassProvider, PassFences, Fault
  <2> QED
    BY <1>0, <2>1, <2>2, <2>3 DEF OtherType
<1> QED
  BY <1>5, <1>6, <1>7, <1>8, TypeNext

\* A step is typed if its action is.
LEMMA StepType == TypeOK /\ [Next]_vars => TypeOK'
<1> SUFFICES ASSUME TypeOK, [Next]_vars PROVE TypeOK'
  OBVIOUS
<1>1. CASE UNCHANGED vars
  BY <1>1 DEF TypeOK, vars, durable, world
<1>2. CASE Next
  BY <1>2, BeginType, AttemptType, CardLifeType, OutputType, DeliveryType, SettleType,
     CrashAndLeaseType, RecoveryType DEF Next, Attempt
<1> QED
  BY <1>1, <1>2

\* Every reachable state of a turn, its rows, its card, its attempt, the calls in
\* flight and the provider is well typed.
THEOREM ChannelTypeCorrect == Spec => []TypeOK
BY InitType, StepType, PTL DEF Spec

-----------------------------------------------------------------------------
(* ChannelReliability implements DeliveryLedger: every step of the turn,   *)
(* the deliveries, the provider, the recovery and the crashes is a step of *)
(* the ledger or leaves it alone.                                          *)

-----------------------------------------------------------------------------
(* What relates a row, the delivery that holds it and its requests.        *)

Quiet(s) == wire[s]["first"] = "none" /\ wire[s]["replay"] = "none" /\ shown[s] = 0

\* Nothing of a row left before its claim turned into a send.
UnsentIsQuiet(s) == row[s].status \in {"none", "claimed", "retry_wait"} => Quiet(s)

\* A delivery is where its row says, and only an open host runs one.
CallMatchesRow(s) ==
    /\ call[s].pc = "claimed" => row[s].status = "claimed"
    /\ call[s].pc \in {"first", "sleep", "replay"} => row[s].status = "sending"
    /\ call[s].pc \in {"sleep", "replay"} => Replays
    /\ host # "up" => call[s].pc = "idle"

\* The user sees what was accepted, once, and nothing of what was refused.
SeenIsAccepted(s) ==
    /\ shown[s] \in {0, 1}
    /\ ~Replays => wire[s]["replay"] = "none" /\ (wire[s]["first"] = "flying" => shown[s] = 0)
    /\ \A request \in {"first", "replay"} :
         /\ wire[s][request] = "accepted" => shown[s] = 1
         /\ wire[s][request] = "refused" => shown[s] = 0
    /\ call[s].pc = "first" => /\ wire[s]["replay"] = "none"
                               /\ wire[s]["first"] # "accepted" => shown[s] = 0
    /\ row[s].status = "delivered" => shown[s] = 1
    /\ row[s].status = "failed" => shown[s] = 0

SlotInv(s) == UnsentIsQuiet(s) /\ CallMatchesRow(s) /\ SeenIsAccepted(s)
PromiseInv == \A s \in Slots : SlotInv(s)

-----------------------------------------------------------------------------
(* It is inductive.                                                        *)

SameSlot(s) == row'[s] = row[s] /\ call'[s] = call[s] /\ wire'[s] = wire[s] /\ shown'[s] = shown[s]

LEMMA SlotUntouched ==
  ASSUME NEW s \in Slots, SlotInv(s), SameSlot(s),
         host' = host \/ (host' # "up" /\ host # "up")
  PROVE  SlotInv(s)'
BY DEF SlotInv, UnsentIsQuiet, CallMatchesRow, SeenIsAccepted, Quiet, SameSlot

LEMMA OneSlot ==
  ASSUME PromiseInv, NEW s \in Slots, host' = host, SlotInv(s)',
         \A t \in Slots \ {s} : SameSlot(t)
  PROVE  PromiseInv'
<1>1. ASSUME NEW t \in Slots, t # s
      PROVE  SlotInv(t)'
  BY <1>1, SlotUntouched DEF PromiseInv, SameSlot
<1> QED
  BY <1>1 DEF PromiseInv

LEMMA PromiseInit == Init => PromiseInv
BY DEF Init, NoCall, PromiseInv, SlotInv, UnsentIsQuiet, CallMatchesRow, SeenIsAccepted, Quiet

LEMMA ForgottenAnswers ==
  ASSUME NEW w \in WireType, NEW request \in {"first", "replay"}
  PROVE  Forgotten(w)[request] \in {"none", "flying"}
         /\ (Forgotten(w)[request] = "flying" <=> w[request] = "flying")
BY DEF Forgotten, WireType

\* A delivery that ends leaves its row to the outcome the answer proves.
LEMMA EndsPromise ==
  ASSUME TypeOK, PromiseInv, NEW s \in Slots, NEW status \in {"failed", "delivered", "uncertain"},
         Ends(s, status), UNCHANGED <<shown, host>>,
         RowHeld(s) => row[s].status = "sending",
         RowHeld(s) /\ status = "delivered" => shown[s] = 1,
         RowHeld(s) /\ status = "failed" => shown[s] = 0
  PROVE  PromiseInv'
<1>0. DurableType /\ LocalType /\ WorldType
  BY TypeParts
<1>1. SlotInv(s)
  BY DEF PromiseInv
<1>2. wire[s] \in WireType /\ wire'[s] = Forgotten(wire[s])
  BY <1>0 DEF WorldType, Ends
<1>3. call'[s] = NoCall
  BY <1>0 DEF Ends, LocalType
<1>4. row'[s] = row[s] \/ (RowHeld(s) /\ row'[s].status = status)
  BY <1>0 DEF Ends, DurableType, RowType
<1>5. \A t \in Slots \ {s} : SameSlot(t)
  BY <1>0 DEF Ends, SameSlot, DurableType, LocalType, WorldType
<1>6. UnsentIsQuiet(s)'
  <2>1. wire[s]["first"] = "none" /\ wire[s]["replay"] = "none"
        => wire'[s]["first"] = "none" /\ wire'[s]["replay"] = "none"
    BY <1>2, ForgottenAnswers
  <2> QED
    BY <1>1, <1>4, <2>1 DEF SlotInv, UnsentIsQuiet, Quiet
<1>7. CallMatchesRow(s)'
  BY <1>3 DEF CallMatchesRow, NoCall
<1>8. SeenIsAccepted(s)'
  <2>1. \A request \in {"first", "replay"} :
          /\ wire'[s][request] \in {"none", "flying"}
          /\ wire'[s][request] = "flying" <=> wire[s][request] = "flying"
    BY <1>2, ForgottenAnswers
  <2> QED
    BY <1>1, <1>3, <1>4, <2>1 DEF SlotInv, SeenIsAccepted, NoCall
<1> QED
  BY <1>5, <1>6, <1>7, <1>8, OneSlot DEF SlotInv

LEMMA DeliverPromise ==
  ASSUME TypeOK, PromiseInv, NEW s \in Slots, NEW kind \in {"final", "aside", "partial"},
         Deliver(s, kind)
  PROVE  PromiseInv'
<1>0. DurableType /\ LocalType /\ WorldType
  BY TypeParts
<1>1. SlotInv(s)
  BY DEF PromiseInv
<1>2. row'[s].status = "claimed" /\ call'[s].pc = "claimed"
  BY <1>0 DEF Deliver, DurableType, LocalType
<1>3. \A t \in Slots \ {s} : SameSlot(t)
  BY <1>0 DEF Deliver, SameSlot, DurableType, LocalType
<1>4. SlotInv(s)'
  BY <1>1, <1>2 DEF Deliver, CallStep, SlotInv, UnsentIsQuiet, CallMatchesRow, SeenIsAccepted, Quiet
<1> QED
  BY <1>3, <1>4, OneSlot DEF Deliver, CallStep

LEMMA DeliveryPromise ==
  ASSUME TypeOK, PromiseInv, NEW s \in Slots, Delivery(s)
  PROVE  PromiseInv'
<1>0. DurableType /\ LocalType /\ WorldType
  BY TypeParts
<1>1. SlotInv(s)
  BY DEF PromiseInv
<1>2. UNCHANGED <<shown, host>>
  BY DEF Delivery, SendRequest, Acknowledged, Rejected, NoAnswer, Replay, CallStep
<1>3. wire[s] \in WireType
  BY <1>0 DEF WorldType
<1>4. CASE SendRequest(s)
  <2>1. CASE RowHeld(s)
    <3>1. row'[s].status = "sending" /\ call'[s].pc = "first"
      BY <1>0, <1>4, <2>1 DEF SendRequest, DurableType, LocalType, RowType, CallType
    <3>2. wire'[s]["first"] = "flying" /\ wire'[s]["replay"] = wire[s]["replay"]
      BY <1>0, <1>3, <1>4, <2>1 DEF SendRequest, WorldType, WireType
    <3>3. Quiet(s)
      BY <1>1, <1>4 DEF SendRequest, SlotInv, CallMatchesRow, UnsentIsQuiet
    <3>4. \A t \in Slots \ {s} : SameSlot(t)
      BY <1>0, <1>2, <1>4, <2>1 DEF SendRequest, SameSlot, DurableType, LocalType, WorldType
    <3>5. SlotInv(s)'
      BY <1>1, <1>2, <1>4, <3>1, <3>2, <3>3 DEF SendRequest, Quiet, SlotInv, UnsentIsQuiet,
         CallMatchesRow, SeenIsAccepted
    <3> QED
      BY <1>2, <3>4, <3>5, OneSlot
  <2>2. CASE ~RowHeld(s)
    BY <1>2, <1>4, <2>2, EndsPromise DEF SendRequest
  <2> QED
    BY <2>1, <2>2
<1>5. CASE Acknowledged(s)
  <2>1. row[s].status = "sending" /\ shown[s] = 1
    BY <1>1, <1>5 DEF Acknowledged, InRequest, Answer, SlotInv, CallMatchesRow, SeenIsAccepted
  <2> QED
    BY <1>2, <1>5, <2>1, EndsPromise DEF Acknowledged
<1>6. CASE Rejected(s)
  <2>1. row[s].status = "sending"
    BY <1>1, <1>6 DEF Rejected, InRequest, SlotInv, CallMatchesRow
  <2>2. ~(call[s].pc = "replay" /\ Answer(s) = "limited") => shown[s] = 0
    BY <1>1, <1>6 DEF Rejected, InRequest, Answer, SlotInv, SeenIsAccepted
  <2> QED
    BY <1>2, <1>6, <2>1, <2>2, EndsPromise DEF Rejected
<1>7. CASE NoAnswer(s)
  <2>1. row[s].status = "sending"
    BY <1>1, <1>7 DEF NoAnswer, InRequest, SlotInv, CallMatchesRow
  <2>2. CASE Replays /\ call[s].pc = "first" /\ row[s].status = "sending"
    <3>1. row' = row /\ call'[s].pc = "sleep" /\ wire'[s] = Forgotten(wire[s])
      BY <1>0, <1>7, <2>2 DEF NoAnswer, LocalType, CallType, WorldType
    <3>2. \A t \in Slots \ {s} : SameSlot(t)
      BY <1>0, <1>2, <1>7, <2>2 DEF NoAnswer, SameSlot, LocalType, WorldType
    <3>3. \A request \in {"first", "replay"} : wire'[s][request] \in {"none", "flying"}
      BY <1>3, <3>1, ForgottenAnswers
    <3>4. SlotInv(s)'
      BY <1>1, <1>2, <1>7, <2>1, <2>2, <3>1, <3>3 DEF SlotInv, UnsentIsQuiet, CallMatchesRow,
         SeenIsAccepted, NoAnswer
    <3> QED
      BY <1>2, <3>2, <3>4, OneSlot
  <2>3. CASE ~(Replays /\ call[s].pc = "first" /\ row[s].status = "sending")
    BY <1>2, <1>7, <2>1, <2>3, EndsPromise DEF NoAnswer
  <2> QED
    BY <2>2, <2>3
<1>8. CASE Replay(s)
  <2>1. row' = row /\ call'[s].pc = "replay" /\ wire'[s]["replay"] = "flying"
        /\ wire'[s]["first"] = wire[s]["first"]
    BY <1>0, <1>3, <1>8 DEF Replay, LocalType, CallType, WorldType, WireType
  <2>2. \A t \in Slots \ {s} : SameSlot(t)
    BY <1>0, <1>2, <1>8 DEF Replay, SameSlot, LocalType, WorldType
  <2>3. row[s].status = "sending" /\ Replays
    BY <1>1, <1>8 DEF Replay, SlotInv, CallMatchesRow
  <2>4. SlotInv(s)'
    BY <1>1, <1>2, <1>8, <2>1, <2>3 DEF SlotInv, UnsentIsQuiet, CallMatchesRow, SeenIsAccepted, Replay
  <2> QED
    BY <1>2, <2>2, <2>4, OneSlot
<1> QED
  BY <1>4, <1>5, <1>6, <1>7, <1>8 DEF Delivery

LEMMA ProviderPromise ==
  ASSUME TypeOK, PromiseInv, NEW s \in Slots, NEW request \in {"first", "replay"},
         ProviderAnswers(s, request)
  PROVE  PromiseInv'
<1>0. DurableType /\ LocalType /\ WorldType
  BY TypeParts
<1>1. SlotInv(s)
  BY DEF PromiseInv
<1>2. UNCHANGED <<row, call, host>>
  BY DEF ProviderAnswers, durable
<1>3. wire[s] \in WireType /\ shown[s] \in {0, 1}
  BY <1>0, <1>1 DEF WorldType, SlotInv, SeenIsAccepted
<1>4. row[s].status \notin {"none", "claimed", "retry_wait"}
  BY <1>1 DEF ProviderAnswers, SlotInv, UnsentIsQuiet, Quiet
<1>5. \A t \in Slots \ {s} : SameSlot(t)
  BY <1>0, <1>2 DEF ProviderAnswers, SameSlot, WorldType
<1>6. \A other \in {"first", "replay"} \ {request} : wire'[s][other] = wire[s][other]
  BY <1>0, <1>3 DEF ProviderAnswers, WorldType, WireType
<1>7. CASE wire' = [wire EXCEPT ![s][request] = "accepted"]
           /\ shown' = [shown EXCEPT ![s] = IF Replays THEN 1 ELSE shown[s] + 1]
           /\ row[s].status # "failed"
           /\ \A other \in DOMAIN wire[s] : wire[s][other] # "refused"
  <2>1. wire'[s][request] = "accepted"
    BY <1>0, <1>3, <1>7 DEF WorldType, WireType
  <2>2. shown'[s] = 1
    <3>1. ~Replays => shown[s] = 0
      BY <1>1 DEF ProviderAnswers, SlotInv, SeenIsAccepted
    <3> QED
      BY <1>0, <1>7, <3>1 DEF WorldType
  <2>3. wire[s]["first"] # "refused" /\ wire[s]["replay"] # "refused"
    BY <1>3, <1>7 DEF WireType
  <2>4. UnsentIsQuiet(s)' /\ CallMatchesRow(s)'
    BY <1>1, <1>2, <1>4 DEF SlotInv, UnsentIsQuiet, CallMatchesRow
  <2>5. call[s].pc = "first" => request = "first"
    BY <1>1 DEF ProviderAnswers, SlotInv, SeenIsAccepted
  <2>6. ~Replays => request = "first"
    BY <1>1 DEF ProviderAnswers, SlotInv, SeenIsAccepted
  <2>7. SeenIsAccepted(s)'
    BY <1>1, <1>2, <1>6, <1>7, <2>1, <2>2, <2>3, <2>5, <2>6 DEF SlotInv, SeenIsAccepted
  <2> QED
    BY <1>2, <1>5, <2>4, <2>7, OneSlot DEF SlotInv
<1>8. CASE \/ wire' = [wire EXCEPT ![s][request] = "refused"] /\ shown[s] = 0 /\ UNCHANGED shown
           \/ wire' = [wire EXCEPT ![s][request] = "limited"] /\ UNCHANGED shown
  <2>1. wire'[s][request] \in {"refused", "limited"} /\ shown'[s] = shown[s]
        /\ (wire'[s][request] = "refused" => shown[s] = 0)
    BY <1>0, <1>3, <1>8 DEF WorldType, WireType
  <2>2. UnsentIsQuiet(s)' /\ CallMatchesRow(s)'
    BY <1>1, <1>2, <1>4 DEF SlotInv, UnsentIsQuiet, CallMatchesRow
  <2>3. call[s].pc = "first" => request = "first" /\ shown[s] = 0
    BY <1>1 DEF ProviderAnswers, SlotInv, SeenIsAccepted
  <2>4. ~Replays => request = "first"
    BY <1>1 DEF ProviderAnswers, SlotInv, SeenIsAccepted
  <2>5. SeenIsAccepted(s)'
    BY <1>1, <1>2, <1>6, <2>1, <2>3, <2>4 DEF SlotInv, SeenIsAccepted
  <2> QED
    BY <1>2, <1>5, <2>2, <2>5, OneSlot DEF SlotInv
<1> QED
  BY <1>7, <1>8 DEF ProviderAnswers

LEMMA OperatorPromise ==
  ASSUME TypeOK, PromiseInv, NEW s \in Slots, OperatorResolves(s)
  PROVE  PromiseInv'
<1>0. DurableType /\ LocalType /\ WorldType
  BY TypeParts
<1>1. SlotInv(s)
  BY DEF PromiseInv
<1>2. UNCHANGED <<shown, call, host>>
  BY DEF OperatorResolves
<1>3. wire'[s]["first"] = "none" /\ wire'[s]["replay"] = "none"
  BY <1>0 DEF OperatorResolves, WorldType, WireType
<1>4. row'[s].status = IF shown[s] > 0 THEN "delivered" ELSE "failed"
  BY <1>0 DEF OperatorResolves, DurableType, RowType
<1>5. shown[s] \in {0, 1} /\ call[s].pc = "idle"
  BY <1>0, <1>1 DEF OperatorResolves, SlotInv, CallMatchesRow, SeenIsAccepted, LocalType, CallType
<1>6. \A t \in Slots \ {s} : SameSlot(t)
  BY <1>0, <1>2 DEF OperatorResolves, SameSlot, DurableType, WorldType
<1>7. SlotInv(s)'
  BY <1>1, <1>2, <1>3, <1>4, <1>5 DEF SlotInv, UnsentIsQuiet, CallMatchesRow, SeenIsAccepted
<1> QED
  BY <1>2, <1>6, <1>7, OneSlot

LEMMA CrashPromise ==
  ASSUME TypeOK, PromiseInv, Crash
  PROVE  PromiseInv'
<1> SUFFICES ASSUME NEW s \in Slots PROVE SlotInv(s)'
  BY DEF PromiseInv
<1>1. SlotInv(s) /\ wire[s] \in WireType
  BY TypeParts DEF PromiseInv, WorldType
<1>2. row' = row /\ shown' = shown /\ call'[s].pc = "idle" /\ wire'[s] = Forgotten(wire[s])
  BY DEF Crash, durable, NoCall
<1>3. \A request \in {"first", "replay"} :
        /\ wire'[s][request] \in {"none", "flying"}
        /\ wire'[s][request] = "flying" <=> wire[s][request] = "flying"
  BY <1>1, <1>2, ForgottenAnswers
<1> QED
  BY <1>1, <1>2, <1>3 DEF SlotInv, UnsentIsQuiet, CallMatchesRow, SeenIsAccepted, Quiet

\* The startup pass parks what was never sent and leaves the rest in doubt.
LEMMA FencesPromise ==
  ASSUME TypeOK, PromiseInv, PassFences
  PROVE  PromiseInv'
<1> SUFFICES ASSUME NEW s \in Slots PROVE SlotInv(s)'
  BY DEF PromiseInv
<1>0. DurableType
  BY TypeParts
<1>1. SlotInv(s)
  BY DEF PromiseInv
<1>2. UNCHANGED <<shown, call, wire>> /\ host' = "up"
  BY DEF PassFences, PassStep, world
<1>3. \/ row'[s] = row[s]
      \/ /\ host # "up"
         /\ \/ row[s].status = "sending" /\ row'[s].status = "uncertain"
            \/ row[s].status = "claimed" /\ row'[s].status = "retry_wait"
  BY <1>0 DEF PassFences, Leased, DurableType, RowType
<1>4. row'[s] # row[s] => call[s].pc = "idle"
  BY <1>1, <1>3 DEF SlotInv, CallMatchesRow
<1> QED
  BY <1>1, <1>2, <1>3, <1>4 DEF SlotInv, UnsentIsQuiet, CallMatchesRow, SeenIsAccepted, Quiet

LEMMA LeasePromise ==
  ASSUME TypeOK, PromiseInv, NEW s \in Slots, RowLapses(s)
  PROVE  PromiseInv'
<1>0. DurableType
  BY TypeParts
<1>1. UNCHANGED <<shown, call, wire, host>> /\ row'[s].status = row[s].status
  BY <1>0 DEF RowLapses, DurableType, RowType, world
<1>2. \A t \in Slots \ {s} : SameSlot(t)
  BY <1>0, <1>1 DEF RowLapses, SameSlot, DurableType
<1>3. SlotInv(s)'
  BY <1>1 DEF PromiseInv, SlotInv, UnsentIsQuiet, CallMatchesRow, SeenIsAccepted, Quiet
<1> QED
  BY <1>1, <1>2, <1>3, OneSlot

\* The steps that touch neither rows nor deliveries nor requests.
Aloof == \/ Begin \/ HeartbeatLost \/ PersistReply \/ Notice \/ Close
         \/ \E healthy \in BOOLEAN : Settle(healthy)
         \/ \E s \in Slots : DeliverAgain(s)
         \/ CardLife \/ UserStops \/ TurnLapses
         \/ Boot \/ PassStarts \/ PassSkips \/ PassClaims \/ PassProvider

LEMMA AloofSteps ==
  ASSUME Aloof
  PROVE  /\ row' = row /\ call' = call /\ wire' = wire /\ shown' = shown
         /\ (host' = host \/ (host' # "up" /\ host # "up"))
<1>1. CASE CardLife
  BY <1>1 DEF CardLife, RollbackCard, PublishCard, CloseCard, WaitForUser, ResumeFromUser, CardStep, world
<1>2. CASE Begin \/ HeartbeatLost \/ PersistReply \/ Notice \/ Close \/ UserStops \/ TurnLapses
  BY <1>2 DEF Begin, HeartbeatLost, PersistReply, Notice, Close, UserStops, TurnLapses, durable, world
<1>3. CASE \E healthy \in BOOLEAN : Settle(healthy)
  BY <1>3 DEF Settle, world
<1>4. CASE \E s \in Slots : DeliverAgain(s)
  BY <1>4 DEF DeliverAgain, CallStep, world
<1>5. CASE Boot \/ PassStarts \/ PassSkips \/ PassClaims \/ PassProvider
  BY <1>5 DEF Boot, PassStarts, PassSkips, PassClaims, PassProvider, PassStep, durable, world
<1> QED
  BY <1>1, <1>2, <1>3, <1>4, <1>5 DEF Aloof

LEMMA AloofPromise ==
  ASSUME PromiseInv, Aloof
  PROVE  PromiseInv'
<1>1. ASSUME NEW s \in Slots
      PROVE  SlotInv(s)'
  BY AloofSteps, SlotUntouched DEF PromiseInv, SameSlot
<1> QED
  BY <1>1 DEF PromiseInv

LEMMA NextCases ==
  Next => \/ Aloof \/ Crash \/ PassFences
          \/ \E s \in Slots : \/ \E kind \in {"final", "aside", "partial"} : Deliver(s, kind)
                              \/ Delivery(s) \/ OperatorResolves(s) \/ RowLapses(s)
                              \/ \E request \in {"first", "replay"} : ProviderAnswers(s, request)
BY DEF Next, Attempt, Recovery, Leases, Aloof

LEMMA PromiseStep == TypeOK /\ PromiseInv /\ [Next]_vars => PromiseInv'
<1> SUFFICES ASSUME TypeOK, PromiseInv, [Next]_vars PROVE PromiseInv'
  OBVIOUS
<1>1. CASE UNCHANGED vars
  <2>1. row' = row /\ call' = call /\ wire' = wire /\ shown' = shown /\ host' = host
    BY <1>1 DEF vars, durable, world
  <2>2. ASSUME NEW s \in Slots PROVE SlotInv(s)'
    BY <2>1, SlotUntouched DEF PromiseInv, SameSlot
  <2> QED
    BY <2>2 DEF PromiseInv
<1>2. CASE Next
  BY <1>2, NextCases, AloofPromise, CrashPromise, FencesPromise, DeliverPromise, DeliveryPromise,
     OperatorPromise, LeasePromise, ProviderPromise
<1> QED
  BY <1>1, <1>2

LEMMA PromiseInvariant == Spec => [](TypeOK /\ PromiseInv)
<1>1. Init => TypeOK /\ PromiseInv
  BY InitType, PromiseInit
<1>2. TypeOK /\ PromiseInv /\ [Next]_vars => (TypeOK /\ PromiseInv)'
  BY StepType, PromiseStep
<1> QED
  BY <1>1, <1>2, PTL DEF Spec

-----------------------------------------------------------------------------
(* Steps map to steps.                                                     *)

ledgers == [s \in Slots |-> Ledger(s)]

LEMMA LedgerInit == Init => Promise!Init
BY DEF Init, Promise!Init, Ledger

\* One row changes and everything else stays: one entry of the ledger does.
LEMMA OneEntry ==
  ASSUME NEW s \in Slots, \A t \in Slots \ {s} : row'[t] = row[t]
  PROVE  ledgers' = [ledgers EXCEPT ![s] = Ledger(s)']
BY DEF ledgers, Ledger

LEMMA RecordStep ==
  ASSUME NEW s \in Slots, \A t \in Slots \ {s} : row'[t] = row[t], shown' = shown,
         NEW to, Ledger(s)' = to,
         NEW from, Ledger(s) \in from
  PROVE  Promise!Record(s, from, to)
BY OneEntry DEF Promise!Record, ledgers

LEMMA LedgerOf ==
  ASSUME NEW s \in Slots
  PROVE  /\ row[s].status \in {"none", "claimed", "retry_wait"} => Ledger(s) = "unsent"
         /\ row[s].status = "sending" => Ledger(s) = "attempted"
         /\ row[s].status = "delivered" => Ledger(s) = "delivered"
         /\ row[s].status = "failed" => Ledger(s) = "refused"
         /\ row[s].status = "uncertain" => Ledger(s) = "doubt"
BY DEF Ledger

LEMMA LedgerOfNext ==
  ASSUME NEW s \in Slots
  PROVE  /\ row'[s].status \in {"none", "claimed", "retry_wait"} => Ledger(s)' = "unsent"
         /\ row'[s].status = "sending" => Ledger(s)' = "attempted"
         /\ row'[s].status = "delivered" => Ledger(s)' = "delivered"
         /\ row'[s].status = "failed" => Ledger(s)' = "refused"
         /\ row'[s].status = "uncertain" => Ledger(s)' = "doubt"
BY DEF Ledger

LEMMA LedgerStutters ==
  ASSUME shown' = shown, \A s \in Slots : Ledger(s)' = Ledger(s)
  PROVE  UNCHANGED Promise!vars
<1>1. ledgers' = ledgers
  BY DEF ledgers
<1> QED
  BY <1>1 DEF Promise!vars, ledgers

LEMMA DoubtOne ==
  ASSUME NEW s \in Slots, \A t \in Slots \ {s} : row'[t] = row[t], shown' = shown,
         Ledger(s) = "attempted", Ledger(s)' = "doubt"
  PROVE  Promise!Doubt
<1>1. /\ \A t \in {s} : ledgers[t] = "attempted"
      /\ ledgers' = [t \in Slots |-> IF t \in {s} THEN "doubt" ELSE ledgers[t]]
  BY DEF ledgers, Ledger
<1> QED
  BY <1>1 DEF Promise!Doubt, ledgers

\* A delivery that ends confirms, refuses or doubts, or finds its lease lost.
LEMMA EndsRefines ==
  ASSUME TypeOK, PromiseInv, NEW s \in Slots, NEW status \in {"failed", "delivered", "uncertain"},
         Ends(s, status), UNCHANGED shown,
         RowHeld(s) => row[s].status = "sending",
         RowHeld(s) /\ status = "delivered" => shown[s] = 1,
         RowHeld(s) /\ status = "failed" => shown[s] = 0
  PROVE  [Promise!Next]_(Promise!vars)
<1>0. DurableType
  BY TypeParts
<1>1. CASE ~RowHeld(s)
  <2>1. row' = row
    BY <1>1 DEF Ends
  <2> QED
    BY <2>1, LedgerStutters DEF Ledger
<1>2. CASE RowHeld(s)
  <2>1. row'[s].status = status /\ \A t \in Slots \ {s} : row'[t] = row[t]
    BY <1>0, <1>2 DEF Ends, DurableType, RowType
  <2>2. Ledger(s) = "attempted"
    BY <1>2, LedgerOf
  <2>3. CASE status = "delivered"
    BY <1>2, <2>1, <2>2, <2>3, LedgerOfNext, RecordStep DEF Promise!Next, Promise!Confirm
  <2>4. CASE status = "failed"
    BY <1>2, <2>1, <2>2, <2>4, LedgerOfNext, RecordStep DEF Promise!Next, Promise!Refuse
  <2>5. CASE status = "uncertain"
    BY <2>1, <2>2, <2>5, LedgerOfNext, DoubtOne DEF Promise!Next
  <2> QED
    BY <2>3, <2>4, <2>5
<1> QED
  BY <1>1, <1>2

LEMMA DeliveryRefines ==
  ASSUME TypeOK, PromiseInv, NEW s \in Slots, Delivery(s)
  PROVE  [Promise!Next]_(Promise!vars)
<1>0. DurableType
  BY TypeParts
<1>1. SlotInv(s)
  BY DEF PromiseInv
<1>2. shown' = shown
  BY DEF Delivery, SendRequest, Acknowledged, Rejected, NoAnswer, Replay
<1>3. CASE SendRequest(s)
  <2>1. CASE RowHeld(s)
    <3>1. row'[s].status = "sending" /\ \A t \in Slots \ {s} : row'[t] = row[t]
      BY <1>0, <1>3, <2>1 DEF SendRequest, DurableType, RowType
    <3>2. Ledger(s) = "unsent"
      BY <1>1, <1>3, LedgerOf DEF SendRequest, SlotInv, CallMatchesRow
    <3> QED
      BY <1>2, <3>1, <3>2, LedgerOfNext, RecordStep DEF Promise!Next, Promise!Attempt
  <2>2. CASE ~RowHeld(s)
    BY <1>2, <1>3, <2>2, EndsRefines DEF SendRequest
  <2> QED
    BY <2>1, <2>2
<1>4. CASE Acknowledged(s)
  <2>1. row[s].status = "sending" /\ shown[s] = 1
    BY <1>1, <1>4 DEF Acknowledged, InRequest, Answer, SlotInv, CallMatchesRow, SeenIsAccepted
  <2> QED
    BY <1>2, <1>4, <2>1, EndsRefines DEF Acknowledged
<1>5. CASE Rejected(s)
  <2>1. row[s].status = "sending"
    BY <1>1, <1>5 DEF Rejected, InRequest, SlotInv, CallMatchesRow
  <2>2. ~(call[s].pc = "replay" /\ Answer(s) = "limited") => shown[s] = 0
    BY <1>1, <1>5 DEF Rejected, InRequest, Answer, SlotInv, SeenIsAccepted
  <2> QED
    BY <1>2, <1>5, <2>1, <2>2, EndsRefines DEF Rejected
<1>6. CASE NoAnswer(s)
  <2>1. row[s].status = "sending"
    BY <1>1, <1>6 DEF NoAnswer, InRequest, SlotInv, CallMatchesRow
  <2>2. CASE row' = row
    BY <1>2, <2>2, LedgerStutters DEF Ledger
  <2>3. CASE Ends(s, "uncertain")
    BY <1>2, <2>1, <2>3, EndsRefines
  <2> QED
    BY <1>6, <2>2, <2>3 DEF NoAnswer
<1>7. CASE Replay(s)
  <2>1. row' = row
    BY <1>7 DEF Replay
  <2> QED
    BY <1>2, <2>1, LedgerStutters DEF Ledger
<1> QED
  BY <1>3, <1>4, <1>5, <1>6, <1>7 DEF Delivery

LEMMA ProviderRefines ==
  ASSUME TypeOK, PromiseInv, NEW s \in Slots, NEW request \in {"first", "replay"},
         ProviderAnswers(s, request)
  PROVE  [Promise!Next]_(Promise!vars)
<1>0. DurableType /\ WorldType
  BY TypeParts
<1>1. SlotInv(s)
  BY DEF PromiseInv
<1>2. row' = row
  BY DEF ProviderAnswers, durable
<1>3. CASE shown' = shown
  BY <1>2, <1>3, LedgerStutters DEF Ledger
<1>4. CASE /\ row[s].status # "failed"
           /\ shown' = [shown EXCEPT ![s] = IF Replays THEN 1 ELSE shown[s] + 1]
  <2>1. shown[s] \in {0, 1} /\ (~Replays => shown[s] = 0)
    BY <1>1 DEF ProviderAnswers, SlotInv, SeenIsAccepted
  <2>2. shown' = [shown EXCEPT ![s] = 1]
    <3>1. (IF Replays THEN 1 ELSE shown[s] + 1) = 1
      BY <2>1
    <3> QED
      BY <1>4, <3>1
  <2>3. CASE shown[s] = 1
    BY <1>0, <1>3, <2>2, <2>3 DEF WorldType
  <2>4. CASE shown[s] = 0
    <3>1. row[s].status \in {"sending", "uncertain"}
      BY <1>0, <1>1, <1>4, <2>4 DEF ProviderAnswers, SlotInv, UnsentIsQuiet, SeenIsAccepted, Quiet,
         DurableType, RowType, RowStatus, Unsettled, Leased
    <3>2. ledgers[s] \in {"attempted", "doubt"} /\ ledgers' = ledgers
      BY <1>2, <3>1, LedgerOf DEF ledgers, Ledger
    <3>3. Promise!Show(s)
      BY <2>2, <2>4, <3>2 DEF Promise!Show, ledgers
    <3> QED
      BY <3>3 DEF Promise!Next
  <2> QED
    BY <2>1, <2>3, <2>4
<1> QED
  BY <1>3, <1>4 DEF ProviderAnswers

LEMMA OtherRowRefines ==
  ASSUME TypeOK, PromiseInv, NEW s \in Slots,
         \/ \E kind \in {"final", "aside", "partial"} : Deliver(s, kind)
         \/ OperatorResolves(s)
         \/ RowLapses(s)
  PROVE  [Promise!Next]_(Promise!vars)
<1>0. DurableType
  BY TypeParts
<1>1. shown' = shown
  BY DEF Deliver, OperatorResolves, RowLapses, world
<1>2. \A t \in Slots \ {s} : row'[t] = row[t]
  BY <1>0 DEF Deliver, OperatorResolves, RowLapses, DurableType
<1>3. CASE \E kind \in {"final", "aside", "partial"} : Deliver(s, kind)
  <2>1. row[s].status \in {"none", "retry_wait"} /\ row'[s].status = "claimed"
    BY <1>0, <1>3 DEF Deliver, DurableType
  <2> QED
    BY <1>1, <1>2, <2>1, LedgerOf, LedgerOfNext, LedgerStutters DEF Ledger
<1>4. CASE OperatorResolves(s)
  <2>1. row[s].status = "uncertain" /\ shown[s] \in {0, 1}
    BY <1>4 DEF OperatorResolves, PromiseInv, SlotInv, SeenIsAccepted
  <2>2. row'[s].status = IF shown[s] > 0 THEN "delivered" ELSE "failed"
    BY <1>0, <1>4 DEF OperatorResolves, DurableType, RowType
  <2>3. Ledger(s) = "doubt"
    BY <2>1, LedgerOf
  <2>4. CASE shown[s] = 1
    BY <1>1, <1>2, <2>2, <2>3, <2>4, LedgerOfNext, RecordStep DEF Promise!Next, Promise!Confirm
  <2>5. CASE shown[s] = 0
    BY <1>1, <1>2, <2>2, <2>3, <2>5, LedgerOfNext, RecordStep DEF Promise!Next, Promise!Refuse
  <2> QED
    BY <2>1, <2>4, <2>5
<1>5. CASE RowLapses(s)
  <2>1. row'[s].status = row[s].status
    BY <1>0, <1>5 DEF RowLapses, DurableType, RowType
  <2> QED
    BY <1>1, <1>2, <2>1, LedgerStutters DEF Ledger
<1> QED
  BY <1>3, <1>4, <1>5

LEMMA FencesRefines ==
  ASSUME TypeOK, PassFences
  PROVE  [Promise!Next]_(Promise!vars)
<1>0. DurableType
  BY TypeParts
<1> DEFINE lapsed == {s \in Slots : row[s].status = "sending" /\ row'[s].status = "uncertain"}
<1>1. shown' = shown
  BY DEF PassFences, PassStep, world
<1>2. ASSUME NEW s \in Slots
      PROVE  Ledger(s)' = IF s \in lapsed THEN "doubt" ELSE Ledger(s)
  <2>1. \/ row'[s] = row[s]
        \/ row[s].status = "sending" /\ row'[s].status = "uncertain"
        \/ row[s].status = "claimed" /\ row'[s].status = "retry_wait"
    BY <1>0 DEF PassFences, Leased, DurableType, RowType
  <2> QED
    BY <2>1, LedgerOf, LedgerOfNext DEF Ledger
<1>3. /\ \A s \in lapsed : ledgers[s] = "attempted"
      /\ ledgers' = [s \in Slots |-> IF s \in lapsed THEN "doubt" ELSE ledgers[s]]
  BY <1>2, LedgerOf DEF ledgers
<1>4. Promise!Doubt
  BY <1>1, <1>3 DEF Promise!Doubt, ledgers
<1> QED
  BY <1>4 DEF Promise!Next

LEMMA StepRefines == TypeOK /\ PromiseInv /\ [Next]_vars => [Promise!Next]_(Promise!vars)
<1> SUFFICES ASSUME TypeOK, PromiseInv, [Next]_vars PROVE [Promise!Next]_(Promise!vars)
  OBVIOUS
<1>1. CASE row' = row /\ shown' = shown
  BY <1>1, LedgerStutters DEF Ledger
<1>2. CASE UNCHANGED vars
  BY <1>1, <1>2 DEF vars, durable, world
<1>3. CASE Crash
  BY <1>1, <1>3 DEF Crash, durable
<1>4. CASE Next
  BY <1>1, <1>3, <1>4, NextCases, AloofSteps, FencesRefines, DeliveryRefines, ProviderRefines,
     OtherRowRefines
<1> QED
  BY <1>2, <1>4

\* The outbox keeps the promise of DeliveryLedger: whatever crashes, lapses, is
\* refused or is answered late, no output is shown twice, and what is on record of
\* it is true.
THEOREM OutboxKeepsPromise == Spec => KeepsPromise
<1>1. Init => Promise!Init
  BY LedgerInit
<1>2. [](TypeOK /\ PromiseInv) /\ [][Next]_vars => [][Promise!Next]_(Promise!vars)
  BY StepRefines, PTL
<1> QED
  BY <1>1, <1>2, PromiseInvariant, PTL DEF Spec, KeepsPromise, Promise!Spec
=============================================================================
