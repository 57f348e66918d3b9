------------------------- MODULE ChannelReliability -------------------------
(***************************************************************************)
(* One input of an external channel, from the attempt that answers it to   *)
(* the cursor that consumes it: the durable rows (the turn, its outbox     *)
(* rows, its streaming card), the in-memory attempt of the host that       *)
(* serves it, the deliveries in flight, and the provider, which may accept *)
(* a request long after the host has given it up.  The host crashes and    *)
(* recovers; leases lapse; the user stops the run.                         *)
(*                                                                         *)
(* A row survives a crash, run, call and pass do not.  A lease is the      *)
(* token under which it was granted and whether it is still live: a holder *)
(* compares both in the statement that writes (CRS = channel-reliability-  *)
(* store.ts), so a guard here is the WHERE clause there.                   *)
(***************************************************************************)
EXTENDS Naturals, FiniteSets

CONSTANTS Finals,       \* replies an attempt may end with, one outbox row each
          Asides,       \* and what it may send besides
          Modes,        \* kinds of reply: "static", "card", "proactive"
          Replays,      \* BOOLEAN: the provider collapses a replayed request
          FaultKinds,   \* the faults that happen
          MaxFaults     \* and how many of them

Slots == Finals \cup Asides

ASSUME SlotsAssumption == Finals \cap Asides = {}
ASSUME ReplaysAssumption == Replays \in BOOLEAN
ASSUME ModesAssumption == Modes \subseteq {"static", "card", "proactive"}
ASSUME FaultsAssumption ==
    /\ FaultKinds \subseteq {"crash", "lapse", "die", "outlive", "stop", "card", "wait"}
    /\ MaxFaults \in Nat

VARIABLES
    mode,       \* how this conversation replies; never changes
    turn,       \* the turn_runs row
    row,        \* the channel_outbox rows
    card,       \* the streaming_cards row
    reply,      \* the assistant's complete reply is stored with the messages
    cursor,     \* the input is consumed: the lane will not read it again
    host,       \* "down", "recovering" (before inbound resumes) or "up"
    run,        \* the attempt the lane runs, with its ChannelTurnRuntime
    call,       \* deliverChannelOutboxItem in flight, per row
    pass,       \* the recovery pass: "none", "visit", "provider" or "fences"
    wire,       \* the requests of a row at the provider: the first, the replay
    shown,      \* how often the user sees the output of a row
    sentBy,     \* the attempt that sent a row
    told,       \* why nobody waits for an answer: a notice, a stop, a target gone
    faults      \* faults so far

durable == <<turn, row, card, reply, cursor>>
world == <<wire, shown, sentBy>>
vars == <<mode, durable, host, run, call, pass, world, told, faults>>

Fault(kind) == /\ kind \in FaultKinds
               /\ faults < MaxFaults
               /\ faults' = faults + 1

-----------------------------------------------------------------------------
(* The durable rows. *)

OpenTurn == {"queued", "running", "finalizing", "waiting_user", "retry_wait"}
ClosedTurn == {"completed", "failed", "interrupted", "cancelled"}
Leased == {"claimed", "sending"}
Unsettled == Leased \cup {"retry_wait", "uncertain"}
OpenCard == {"creating", "streaming", "recovering"}

Rows(status) == {s \in Slots : row[s].status = status}
UncertainSibling == Rows("uncertain") # {}
Undelivered == \E s \in Slots : row[s].status \in Unsettled

\* Mutant of Released: the turn changes its status and keeps its lease.
ReleasedWithLease(t, status) == [t EXCEPT !.status = status]

Released(t, status) == [t EXCEPT !.status = status, !.leased = FALSE, !.live = FALSE]

\* The row's error is its last reason: "manual" asks for a word to the user,
\* "retry" is what an attempt that failed left.  A claim keeps it.
Errors == {"none", "retry", "manual", "other"}
Retried(t) == [Released(t, "retry_wait") EXCEPT !.error = "retry"]
Closed(t, status) ==
    [Released(t, status) EXCEPT !.error = IF status = "completed" THEN "none" ELSE "other"]

\* A claim takes a row nobody holds, under a token of its own.
Claimable(t) == t.status \in {"queued", "retry_wait"} /\ ~t.leased
Claimed(t) == [t EXCEPT !.status = "running", !.leased = TRUE, !.live = TRUE,
                        !.token = @ + 1, !.attempt = @ + 1]

\* Mutant of Fenced: a turn already closed is closed again.
FencedWhatever(t, status, error) ==
    [Released(t, status) EXCEPT !.token = @ + 1, !.error = error]

\* Closing a turn from outside fences its holder; closed turns do not change.
Fenced(t, status, error) ==
    IF t.status \in OpenTurn
    THEN [Released(t, status) EXCEPT !.token = @ + 1, !.error = error]
    ELSE t

\* Execution that outlived its lease: an error already there is kept.
FencedExpired(t) ==
    IF t.status \in {"running", "finalizing"} /\ t.leased /\ ~t.live
    THEN Fenced(t, "interrupted", IF t.error = "none" THEN "manual" ELSE t.error)
    ELSE t

LiveTurn == turn.status \in {"running", "finalizing"} /\ turn.leased /\ turn.live

\* Something of this turn is known to have reached the user.
DeliveredEffect == Rows("delivered") # {} \/ card.status = "completed"

\* The delivery in flight still holds the lease it claimed the row under.
RowHeld(s) == /\ row[s].status \in Leased
              /\ row[s].live
              /\ row[s].token = call[s].token

-----------------------------------------------------------------------------
(* The attempt.  ChannelTurnRuntime keeps the claim it was granted, 0 when *)
(* it has none, and finds out at its next write that it was fenced.        *)

NoRun == [phase |-> "idle", claim |-> 0, card |-> FALSE, acked |-> FALSE,
          stop |-> FALSE, settled |-> FALSE, again |-> FALSE]
NoCall == [pc |-> "idle", token |-> 0, kind |-> "aside"]
NoCard == [status |-> "none", identity |-> FALSE, boot |-> FALSE, stop |-> FALSE]

Holds == run.claim # 0 /\ LiveTurn /\ turn.token = run.claim

\* finish() and retry() first take a turn back that waits for its user.
AwaitsUser == run.claim = 0 /\ turn.status = "waiting_user"
MayClose == Holds \/ AwaitsUser
Resumed == IF AwaitsUser THEN Claimed([turn EXCEPT !.error = "none"]) ELSE turn

\* A reservation whose card never reached the provider leaves with the turn.
CardRetired == IF run.card /\ MayClose /\ card.status = "creating" /\ ~card.identity
               THEN NoCard ELSE card

\* The deliveries the attempt itself waits for before it settles.
Awaited(s) == /\ call[s].pc # "idle"
              /\ \/ call[s].kind = "partial"
                 \/ call[s].kind = "final" /\ mode # "proactive"

Again == [NoRun EXCEPT !.again = TRUE]

\* The lane starts an attempt at the input.
Begin ==
    LET t0 == IF turn.status = "none" THEN [turn EXCEPT !.status = "queued"] ELSE turn
        t1 == IF DeliveredEffect THEN Fenced(t0, "interrupted", "manual") ELSE t0
        duplicate == mode = "card" /\ ~run.again /\ card.status # "none"
        reserve == mode = "card" /\ ~run.again /\ card.status = "none"
    IN  /\ host = "up" /\ run.phase = "idle" /\ ~cursor
        /\ \/ /\ t1.status = "interrupted" /\ t1.error = "manual"
              /\ turn' = t1
              /\ run' = [NoRun EXCEPT !.phase = "notice", !.settled = TRUE]
              /\ UNCHANGED <<card, cursor>>
           \/ /\ Claimable(t1)
              /\ IF duplicate
                 THEN /\ turn' = Retried(Claimed(t1))
                      /\ run' = Again
                 ELSE /\ turn' = Claimed(t1)
                      /\ run' = [NoRun EXCEPT !.phase = "running", !.again = run.again,
                                              !.claim = t1.token + 1, !.card = reserve]
              /\ card' = IF reserve THEN [NoCard EXCEPT !.status = "creating"] ELSE card
              /\ UNCHANGED cursor
           \/ /\ t1.status \in ClosedTurn \ {"interrupted"} \/
                    (t1.status = "interrupted" /\ t1.error # "manual")
              /\ turn' = t1 /\ cursor' = TRUE /\ run' = NoRun
              /\ UNCHANGED card
           \/ /\ t1.status \in OpenTurn /\ ~Claimable(t1)
              /\ turn' = t1 /\ run' = Again
              /\ UNCHANGED <<card, cursor>>
        /\ UNCHANGED <<mode, row, reply, host, call, pass, world, told, faults>>

\* The heartbeat finds its lease gone.
HeartbeatLost ==
    /\ run.claim # 0 /\ ~Holds
    /\ run' = [run EXCEPT !.claim = 0]
    /\ UNCHANGED <<mode, durable, host, call, pass, world, told, faults>>

\* The assistant's complete reply is stored before it is delivered.
PersistReply ==
    /\ run.phase = "running" /\ mode # "proactive" /\ ~reply
    /\ reply' = TRUE
    /\ UNCHANGED <<mode, turn, row, card, cursor, host, run, call, pass, world, told, faults>>

CardStep == /\ run.phase = "running" /\ run.card
            /\ UNCHANGED <<mode, row, reply, cursor, host, call, pass, world, told>>

RollbackCard ==
    /\ CardStep /\ Holds /\ card.status = "creating" /\ ~card.identity
    /\ \A s \in Slots : row[s].status \notin {"claimed", "sending", "uncertain", "delivered"}
    /\ card' = NoCard
    /\ run' = [run EXCEPT !.card = FALSE]
    /\ UNCHANGED <<turn, faults>>

PublishCard ==
    /\ CardStep /\ card.status = "creating"
    /\ card' = [card EXCEPT !.status = "streaming", !.identity = TRUE]
    /\ UNCHANGED <<turn, run, faults>>

\* The card shows the reply and counts as its delivery, or closes without one.
CloseCard(status, acked) ==
    /\ CardStep /\ card.status = "streaming"
    /\ acked => status = "completed" /\ reply
    /\ card' = [card EXCEPT !.status = status, !.stop = run.stop]
    /\ run' = [run EXCEPT !.acked = @ \/ acked]
    /\ UNCHANGED <<turn, faults>>

WaitForUser ==
    /\ CardStep /\ card.status = "streaming" /\ Holds /\ Fault("wait")
    /\ turn' = Released(turn, "waiting_user")
    /\ run' = [run EXCEPT !.claim = 0]
    /\ UNCHANGED card

ResumeFromUser ==
    /\ CardStep /\ card.status = "streaming" /\ AwaitsUser
    /\ turn' = Resumed
    /\ run' = [run EXCEPT !.claim = turn.token + 1]
    /\ UNCHANGED <<card, faults>>

UserStops ==
    /\ run.phase = "running" /\ ~run.stop /\ Fault("stop")
    /\ run' = [run EXCEPT !.stop = TRUE]
    /\ UNCHANGED <<mode, durable, host, call, pass, world, told>>

-----------------------------------------------------------------------------
(* deliverScopedChannelOutput and deliverChannelOutboxItem.  Everything up *)
(* to the claim runs in one piece; the row turns to "sending" before the   *)
(* request leaves; the answer of the provider comes after an await.        *)

CallStep == /\ host # "down"
            /\ UNCHANGED <<mode, turn, card, reply, cursor, host, pass, told>>

Deliver(s, kind) ==
    /\ host = "up"
    /\ IF kind = "partial" THEN run.phase = "closing" /\ ~cursor
                           ELSE run.phase = "running"
    /\ kind = "final" /\ mode # "proactive" => reply /\ ~run.acked
    /\ s \in IF kind = "final" THEN Finals ELSE Asides
    /\ kind # "aside" => \A t \in Slots : ~Awaited(t)
    /\ turn.status \in OpenTurn
    /\ ~UncertainSibling
    /\ row[s].status \in {"none", "retry_wait"}
    /\ row' = [row EXCEPT ![s] = [status |-> "claimed", token |-> @.token + 1,
                                  live |-> TRUE]]
    /\ call' = [call EXCEPT ![s] = [pc |-> "claimed", token |-> row[s].token + 1,
                                    kind |-> kind]]
    /\ sentBy' = [sentBy EXCEPT ![s] = turn.attempt]
    /\ CallStep /\ UNCHANGED <<run, wire, shown, faults>>

\* The same output once more, delivered already: its receipt is reused.
DeliverAgain(s) ==
    /\ host = "up" /\ run.phase = "running" /\ ~run.acked
    /\ turn.status \in OpenTurn /\ ~UncertainSibling
    /\ s \in Finals /\ row[s].status = "delivered"
    /\ run' = [run EXCEPT !.acked = TRUE]
    /\ CallStep /\ UNCHANGED <<row, call, world, faults>>

\* What a delivery writes at its end, if its lease still holds.  Nobody waits
\* for the answers any longer; a request under way stays under way.
Forgotten(w) == [request \in DOMAIN w |-> IF w[request] = "flying" THEN "flying" ELSE "none"]

Ends(s, status) ==
    /\ call' = [call EXCEPT ![s] = NoCall]
    /\ wire' = [wire EXCEPT ![s] = Forgotten(@)]
    /\ row' = IF RowHeld(s)
              THEN [row EXCEPT ![s].status = status, ![s].live = FALSE]
              ELSE row

SendRequest(s) ==
    /\ call[s].pc = "claimed" /\ CallStep
    /\ IF RowHeld(s)
       THEN /\ row' = [row EXCEPT ![s].status = "sending"]
            /\ call' = [call EXCEPT ![s].pc = "first"]
            /\ wire' = [wire EXCEPT ![s]["first"] = "flying"]
       ELSE Ends(s, "failed")
    /\ UNCHANGED <<run, shown, sentBy, faults>>

InRequest(s) == call[s].pc \in {"first", "replay"}
Answer(s) == wire[s][call[s].pc]

\* The provider acknowledged: the row is delivered, and so is a final reply.
Acknowledged(s) ==
    /\ InRequest(s) /\ Answer(s) = "accepted" /\ CallStep
    /\ Ends(s, "delivered")
    /\ run' = [run EXCEPT !.acked = @ \/ (/\ RowHeld(s) /\ call[s].kind = "final"
                                          /\ run.phase = "running")]
    /\ UNCHANGED <<shown, sentBy, faults>>

\* Mutant of Rejected: the row records the kind of the error as its status.
RejectedAsAnswered(s) ==
    /\ InRequest(s) /\ Answer(s) \in {"refused", "limited"} /\ CallStep
    /\ Ends(s, Answer(s))
    /\ UNCHANGED <<run, shown, sentBy, faults>>

\* The provider said no.  Of a replay only a refusal of the content speaks
\* for the first request as well.
Rejected(s) ==
    /\ InRequest(s) /\ Answer(s) \in {"refused", "limited"} /\ CallStep
    /\ Ends(s, IF call[s].pc = "replay" /\ Answer(s) = "limited"
               THEN "uncertain" ELSE "failed")
    /\ UNCHANGED <<run, shown, sentBy, faults>>

\* Mutant of NoAnswer: no answer counts as a failure.
SilenceIsFailure(s) ==
    /\ InRequest(s) /\ CallStep
    /\ Ends(s, "failed")
    /\ UNCHANGED <<run, shown, sentBy, faults>>

\* No answer, or none that can be read: replayed once where that is safe.
NoAnswer(s) ==
    /\ InRequest(s) /\ CallStep
    /\ IF Replays /\ call[s].pc = "first" /\ row[s].status = "sending"
       THEN /\ call' = [call EXCEPT ![s].pc = "sleep"]
            /\ wire' = [wire EXCEPT ![s] = Forgotten(@)]
            /\ UNCHANGED row
       ELSE Ends(s, "uncertain")
    /\ UNCHANGED <<run, shown, sentBy, faults>>

Replay(s) ==
    /\ call[s].pc = "sleep" /\ CallStep
    /\ call' = [call EXCEPT ![s].pc = "replay"]
    /\ wire' = [wire EXCEPT ![s]["replay"] = "flying"]
    /\ UNCHANGED <<row, run, shown, sentBy, faults>>

\* The provider gets to a request, whoever still waits for it.  One that is
\* lost stays under way until somebody looks.
\* What it makes of the content of a row does not change from one request to
\* the next: it does not show what it refused, nor refuse what it showed.
ProviderAnswers(s, request) ==
    /\ wire[s][request] = "flying"
    /\ \/ /\ row[s].status # "failed"
          /\ \A other \in DOMAIN wire[s] : wire[s][other] # "refused"
          /\ shown' = [shown EXCEPT ![s] = IF Replays THEN 1 ELSE @ + 1]
          /\ wire' = [wire EXCEPT ![s][request] = "accepted"]
       \/ /\ shown[s] = 0
          /\ wire' = [wire EXCEPT ![s][request] = "refused"]
          /\ UNCHANGED shown
       \/ /\ wire' = [wire EXCEPT ![s][request] = "limited"]
          /\ UNCHANGED shown
    /\ UNCHANGED <<mode, durable, host, run, call, pass, sentBy, told, faults>>

\* Somebody looks at the channel and decides a row in doubt.
OperatorResolves(s) ==
    /\ host = "up" /\ row[s].status = "uncertain"
    /\ wire' = [wire EXCEPT ![s] = [request \in DOMAIN @ |-> "none"]]
    /\ row' = [row EXCEPT ![s].status = IF shown[s] > 0 THEN "delivered" ELSE "failed"]
    /\ UNCHANGED <<mode, turn, card, reply, cursor, host, run, call, pass, shown, sentBy, told, faults>>

-----------------------------------------------------------------------------
(* The end of an attempt: the same order of questions when a completed     *)
(* output is settled and when the run is cleaned up.                       *)

\* finish(): closes the turn under the attempt's lease, or changes nothing.
Finish(status) ==
    /\ turn' = IF MayClose THEN Closed(Resumed, status) ELSE turn
    /\ card' = CardRetired

ToNotice(settled) == run' = [run EXCEPT !.phase = "notice", !.claim = 0,
                                        !.settled = settled]

SettleUncertain ==
    /\ UncertainSibling
    /\ turn' = Fenced(turn, "interrupted", "manual")
    /\ ToNotice(TRUE)
    /\ UNCHANGED <<card, cursor, told>>

SettleFailed ==
    /\ ~UncertainSibling /\ Rows("failed") # {}
    /\ \/ /\ Finish("failed")
          /\ ToNotice(MayClose)
          /\ UNCHANGED <<cursor, told>>
       \/ \* the target is gone: closed quietly
          /\ Finish("cancelled")
          /\ told' = IF MayClose THEN "gone" ELSE told
          /\ cursor' = MayClose
          /\ run' = IF MayClose THEN NoRun ELSE Again

Answerable == ~UncertainSibling /\ Rows("failed") = {}

SettleStopped ==
    /\ Answerable /\ run.stop
    /\ Finish("cancelled")
    /\ told' = "stop" /\ cursor' = TRUE /\ run' = NoRun

\* An agent that replies by itself said something, but not its final word.
HalfSaid == /\ mode = "proactive" /\ ~run.acked
            /\ \E s \in Asides : row[s].status = "delivered"

\* Mutants of SettleCompleted: the turn is completed without the reply's
\* receipt, or with outputs still under way.
CompletedUnanswered ==
    /\ Answerable /\ ~run.stop /\ Holds /\ ~Undelivered
    /\ Finish("completed") /\ cursor' = TRUE /\ run' = NoRun
    /\ UNCHANGED told

CompletedEarly ==
    /\ Answerable /\ ~run.stop /\ (mode = "proactive" \/ run.acked) /\ Holds
    /\ Finish("completed") /\ cursor' = TRUE /\ run' = NoRun
    /\ UNCHANGED told

\* The runner reports the input completed, and the reply is acknowledged.
SettleCompleted ==
    /\ Answerable /\ ~run.stop /\ ~HalfSaid /\ (mode = "proactive" \/ run.acked)
    /\ UNCHANGED told
    /\ IF Holds /\ ~Undelivered
       THEN Finish("completed") /\ cursor' = TRUE /\ run' = NoRun
       ELSE IF mode = "proactive" /\ run.acked
       THEN \* not closed; the cleanup fails it and keeps what was said
            Finish("failed") /\ cursor' = TRUE /\ run' = NoRun
       ELSE \* markFinalizing went through, complete did not: nobody closes it
            /\ turn' = IF Holds THEN [turn EXCEPT !.status = "finalizing"] ELSE turn
            /\ card' = IF Holds THEN CardRetired ELSE card
            /\ run' = Again
            /\ UNCHANGED cursor

\* The runner died, or completed without its final word.
SettleUnfinished ==
    /\ Answerable /\ ~run.stop
    /\ IF run.acked
       THEN /\ Finish(IF mode = "proactive" THEN "failed" ELSE "cancelled")
            /\ cursor' = TRUE /\ run' = NoRun
       ELSE /\ turn' = IF AwaitsUser \/ (Holds /\ turn.status = "running")
                       THEN Retried(Resumed) ELSE turn
            /\ run' = [Again EXCEPT !.phase = "closing"]
            /\ UNCHANGED <<card, cursor>>
    /\ UNCHANGED told

\* A runner whose turn was closed under it cannot get its reply out and fails;
\* otherwise an attempt that ends unfinished is a fault.  What the runner sent on
\* the side may still be under way, but not between its claim and its request:
\* no await of any length is there.
Settle(healthy) ==
    /\ host = "up" /\ run.phase = "running"
    /\ \A s \in Slots : ~Awaited(s) /\ call[s].pc # "claimed"
    /\ IF \E s \in Slots : call[s].pc # "idle"
       THEN Fault("outlive")
       ELSE IF healthy \/ run.stop \/ ~Answerable \/ turn.status \in ClosedTurn
       THEN UNCHANGED faults ELSE Fault("die")
    /\ \/ SettleUncertain
       \/ SettleFailed
       \/ SettleStopped
       \/ healthy /\ SettleCompleted
       \/ (~healthy \/ HalfSaid) /\ SettleUnfinished
    /\ UNCHANGED <<mode, row, reply, host, call, pass, world>>

\* The user is told, on the channel or on the Web, and the input is consumed.
Notice ==
    /\ host = "up" /\ run.phase = "notice"
    /\ told' = "notice"
    /\ cursor' = run.settled
    /\ run' = IF run.settled THEN NoRun ELSE Again
    /\ UNCHANGED <<mode, turn, row, card, reply, host, call, pass, world, faults>>

\* The attempt ends; a partial text it sent on the way out was awaited.
Close ==
    /\ host = "up" /\ run.phase = "closing"
    /\ \A s \in Slots : ~Awaited(s)
    /\ run' = Again
    /\ UNCHANGED <<mode, durable, host, call, pass, world, told, faults>>

-----------------------------------------------------------------------------
(* Crash, leases, and the recovery of channel-reliability-recovery.ts.     *)

Crash ==
    /\ host # "down" /\ ~cursor /\ Fault("crash")
    /\ host' = "down" /\ pass' = "none"
    /\ run' = NoRun
    /\ call' = [s \in Slots |-> NoCall]
    /\ wire' = [s \in Slots |-> Forgotten(wire[s])]
    /\ UNCHANGED <<mode, durable, shown, sentBy, told>>

\* A lease nobody renews runs out; under a stalled host any lease does.
TurnLapses ==
    /\ turn.leased /\ turn.live
    /\ IF run.claim = turn.token THEN Fault("lapse") ELSE UNCHANGED faults
    /\ turn' = [turn EXCEPT !.live = FALSE]
    /\ UNCHANGED <<mode, row, card, reply, cursor, host, run, call, pass, world, told>>

RowLapses(s) ==
    /\ row[s].status \in Leased /\ row[s].live
    /\ IF call[s].pc # "idle" THEN Fault("lapse") ELSE UNCHANGED faults
    /\ row' = [row EXCEPT ![s].live = FALSE]
    /\ UNCHANGED <<mode, turn, card, reply, cursor, host, run, call, pass, world, told>>

\* The new process: a turn the user had stopped is closed, then channels
\* connect and the startup pass begins.  Nothing inbound is read until it ends.
Boot ==
    LET stopped == /\ turn.status \in OpenTurn
                   /\ card.status = "aborted" /\ card.stop
                   /\ Rows("delivered") = {} /\ ~UncertainSibling
    IN  /\ host = "down"
        /\ host' = "recovering" /\ pass' = "visit"
        /\ turn' = IF stopped THEN Fenced(turn, "cancelled", "other") ELSE turn
        /\ cursor' = (cursor \/ stopped)
        /\ told' = IF stopped THEN "stop" ELSE told
        /\ card' = IF card.status = "none" THEN card ELSE [card EXCEPT !.boot = TRUE]
        /\ UNCHANGED <<mode, row, reply, run, call, world, faults>>

\* The live pass, every 15 seconds.
PassStarts ==
    /\ host = "up" /\ pass = "none"
    /\ \/ card.boot /\ card.status \in OpenCard
       \/ turn.leased /\ ~turn.live
    /\ pass' = "visit"
    /\ UNCHANGED <<mode, durable, host, run, call, world, told, faults>>

PassStep == UNCHANGED <<mode, reply, cursor, run, call, world, told>>

\* A live lease, a card of this boot, and a recovery that may still be running
\* are left alone.
CardAbandoned == card.status \in OpenCard /\ card.boot /\ ~LiveTurn

PassSkips ==
    /\ pass = "visit" /\ PassStep
    /\ ~CardAbandoned \/ card.status = "recovering"
    /\ pass' = "fences"
    /\ UNCHANGED <<turn, row, card, host, faults>>

\* An abandoned card is claimed, and its turn completed if the reply is stored;
\* a card the provider was never known to have shown is given up.
PassClaims ==
    /\ pass = "visit" /\ PassStep /\ CardAbandoned
    /\ IF card.identity
       THEN /\ card' = [card EXCEPT !.status = "recovering"]
            /\ turn' = IF reply THEN Fenced(turn, "completed", "none") ELSE turn
            /\ pass' = "provider"
       ELSE /\ card' = [card EXCEPT !.status = "failed"]
            /\ turn' = Fenced(turn, "interrupted", "manual")
            /\ pass' = "fences"
    /\ UNCHANGED <<row, host, faults>>

\* The provider closes the card as recovered, or it is given back for a later
\* pass, or given up.
PassProvider ==
    /\ pass = "provider" /\ PassStep
    /\ pass' = "fences"
    /\ \/ /\ LET complete == reply /\ turn.status = "completed"
             IN  /\ card' = [card EXCEPT !.status = IF complete THEN "completed" ELSE "aborted"]
                 /\ turn' = IF complete THEN turn ELSE Fenced(turn, "interrupted", "other")
          /\ UNCHANGED faults
       \/ /\ Fault("card")
          /\ card' = [card EXCEPT !.status = "streaming"]
          /\ UNCHANGED turn
       \/ /\ Fault("card")
          /\ card' = [card EXCEPT !.status = "failed"]
          /\ turn' = Fenced(turn, "interrupted", "manual")
    /\ UNCHANGED <<row, host>>

\* The end of a pass: execution that outlived its lease is fenced.  The
\* startup pass fences delivered effects first and then reconciles the outbox,
\* once, before inbound resumes.
PassFences ==
    LET startup == host = "recovering"
        t == IF startup /\ DeliveredEffect /\ ~LiveTurn
             THEN Fenced(turn, "interrupted", "manual") ELSE turn
        lapsed(s) == row[s].status \in Leased /\ ~row[s].live
    IN  /\ pass = "fences" /\ PassStep
        /\ turn' = FencedExpired(t)
        /\ row' = IF startup
                  THEN [s \in Slots |->
                          IF lapsed(s)
                          THEN [row[s] EXCEPT
                                  !.status = IF @ = "sending" THEN "uncertain" ELSE "retry_wait",
                                  !.token = @ + 1]
                          ELSE row[s]]
                  ELSE row
        /\ pass' = "none" /\ host' = "up"
        /\ UNCHANGED <<card, faults>>

-----------------------------------------------------------------------------
Init ==
    /\ mode \in Modes
    /\ turn = [status |-> "none", token |-> 0, leased |-> FALSE, live |-> FALSE,
               error |-> "none", attempt |-> 0]
    /\ row = [s \in Slots |-> [status |-> "none", token |-> 0, live |-> FALSE]]
    /\ card = NoCard
    /\ reply = FALSE /\ cursor = FALSE
    /\ host = "up" /\ run = NoRun /\ pass = "none"
    /\ call = [s \in Slots |-> NoCall]
    /\ wire = [s \in Slots |-> [first |-> "none", replay |-> "none"]]
    /\ shown = [s \in Slots |-> 0]
    /\ sentBy = [s \in Slots |-> 0]
    /\ told = "no" /\ faults = 0

\* What the program does by itself, as against the world around it.
Delivery(s) == \/ SendRequest(s) \/ Acknowledged(s) \/ Rejected(s)
               \/ NoAnswer(s) \/ Replay(s)
Attempt == \/ Begin \/ HeartbeatLost \/ PersistReply \/ Notice \/ Close
           \/ \E healthy \in BOOLEAN : Settle(healthy)
           \/ \E s \in Slots, kind \in {"final", "aside", "partial"} : Deliver(s, kind)
           \/ \E s \in Slots : DeliverAgain(s)
CardLife == \/ RollbackCard \/ PublishCard \/ WaitForUser \/ ResumeFromUser
            \/ \E acked \in BOOLEAN : CloseCard("completed", acked)
            \/ CloseCard("aborted", FALSE)
Recovery == Boot \/ PassStarts \/ PassSkips \/ PassClaims \/ PassProvider \/ PassFences
Leases == TurnLapses \/ \E s \in Slots : RowLapses(s)

Next ==
    \/ Attempt \/ CardLife \/ Recovery \/ Leases
    \/ UserStops \/ Crash
    \/ \E s \in Slots : Delivery(s) \/ OperatorResolves(s)
    \/ \E s \in Slots, request \in {"first", "replay"} : ProviderAnswers(s, request)

Spec == Init /\ [][Next]_vars

\* What goes on by itself: the lane retries, the runner ends its turn or its
\* process, timers and timeouts fire, a started service recovers, and the user
\* answers a card that asks.  A recovery claim older than its lease is stale at
\* some later pass.
Fairness ==
    /\ WF_vars(Begin) /\ WF_vars(HeartbeatLost) /\ WF_vars(PersistReply)
    /\ WF_vars(PublishCard) /\ WF_vars(CloseCard("completed", TRUE))
    /\ WF_vars(ResumeFromUser)
    /\ WF_vars(Settle(TRUE)) /\ WF_vars(turn.status \in ClosedTurn /\ Settle(FALSE))
    /\ WF_vars(Notice) /\ WF_vars(Close)
    /\ \A s \in Slots : /\ WF_vars(Deliver(s, "final")) /\ WF_vars(DeliverAgain(s))
                         /\ WF_vars(Delivery(s))
    /\ WF_vars(TurnLapses) /\ WF_vars(Recovery) /\ SF_vars(PassClaims)

FairSpec == Spec /\ Fairness

-----------------------------------------------------------------------------
(* Properties. *)

TypeOK ==
    /\ mode \in Modes
    /\ turn \in [status : {"none"} \cup OpenTurn \cup ClosedTurn, token : Nat,
                 leased : BOOLEAN, live : BOOLEAN, error : Errors, attempt : Nat]
    /\ row \in [Slots -> [status : {"none", "delivered", "failed"} \cup Unsettled,
                          token : Nat, live : BOOLEAN]]
    /\ card \in [status : {"none", "completed", "aborted", "failed"} \cup OpenCard,
                 identity : BOOLEAN, boot : BOOLEAN, stop : BOOLEAN]
    /\ reply \in BOOLEAN /\ cursor \in BOOLEAN
    /\ host \in {"down", "recovering", "up"}
    /\ run \in [phase : {"idle", "running", "notice", "closing"}, claim : Nat,
                card : BOOLEAN, acked : BOOLEAN, stop : BOOLEAN, settled : BOOLEAN,
                again : BOOLEAN]
    /\ call \in [Slots -> [pc : {"idle", "claimed", "first", "sleep", "replay"},
                           token : Nat, kind : {"final", "aside", "partial"}]]
    /\ pass \in {"none", "visit", "provider", "fences"}
    /\ wire \in [Slots -> [{"first", "replay"} ->
                    {"none", "flying", "accepted", "refused", "limited"}]]
    /\ shown \in [Slots -> Nat] /\ sentBy \in [Slots -> Nat]
    /\ told \in {"no", "notice", "stop", "gone"}
    /\ faults \in Nat

\* The ledger of the abstract promise, read off the rows.
Ledger(s) ==
    CASE row[s].status = "sending"   -> "attempted"
      [] row[s].status = "delivered" -> "delivered"
      [] row[s].status = "failed"    -> "refused"
      [] row[s].status = "uncertain" -> "doubt"
      [] OTHER                       -> "unsent"

Promise == INSTANCE DeliveryLedger WITH ledger <- [s \in Slots |-> Ledger(s)]

\* The outbox keeps its promise: an attempt is on record before the request
\* can leave, no output is shown twice, "delivered" and "failed" are true of
\* the channel, and doubt is never resolved by guessing.
KeepsPromise == Promise!Spec

\* An input is consumed only when the user saw something of it: an output, its
\* card, or a word on what happened.  What an agent that replies by itself
\* completed in silence is its decision.  A turn whose reply was refused is failed
\* first and the notice follows: a crash in between leaves it without one.
Seen == (\E s \in Slots : shown[s] > 0) \/ (card.status # "none" /\ card.identity)
Accounted == \/ Seen \/ told # "no"
             \/ mode = "proactive" /\ turn.status = "completed"
             \/ turn.status = "failed"

\* The one way past it: an attempt failed, a later one was claimed and lost its
\* host or its lease.  The fence keeps the error of the failed one, so the next
\* start finds a closed turn that asks for nothing (CRS 1751).
RetryLost == turn.status = "interrupted" /\ turn.error = "retry"

AnsweredOrTold == cursor => Accounted \/ RetryLost

\* What the program means: "automatic replay stopped" is told to the user
\* (index.ts:3870-3874).  Not so after a lost retry.
NoInputForgotten == cursor => Accounted

\* A turn is completed only with every output settled, unless its stored
\* reply was put on the card by recovery.
CompletedTurnIsSettled ==
    turn.status = "completed" /\ ~(card.boot /\ card.identity) => ~Undelivered

\* Two attempts never both speak to the user.
OneAttemptSpeaks ==
    \A s, t \in Slots : shown[s] > 0 /\ shown[t] > 0 => sentBy[s] = sentBy[t]

\* A closed turn is closed for good, whatever the fenced attempt still does.
ClosedTurnsStay == [][turn.status \in ClosedTurn => turn' = turn]_vars

\* The input is consumed some day, through crashes, deaths of the runner and
\* failures of the provider.  Two states nothing leads out of but the user's
\* next message: a stalled host let the lease of the reply lapse while it was
\* being sent; and a crash after the card of a turn that waits for its user was
\* closed, before the turn was.
ReplyLapsed == \E s \in Finals : row[s].status \in Leased /\ ~row[s].live
WaitOrphaned == /\ turn.status = "waiting_user" /\ run.phase = "idle"
                /\ card.status \notin OpenCard
InputSettles == <>(cursor \/ ReplyLapsed \/ WaitOrphaned)
=============================================================================
