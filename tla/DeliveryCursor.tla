--------------------------- MODULE DeliveryCursor ---------------------------
(***************************************************************************)
(* The inputs of one session lane and the two cursors that say how far the *)
(* lane has got: next-pull (pull), behind which the lane reads nothing, and *)
(* committed, behind which a restart reads nothing.  A message is its      *)
(* ingest sequence.  It is read by a cold turn, piped into the warm        *)
(* runner, or kept in the durable follow-up queue while a query runs, where *)
(* no reader sees it; a command is answered without the agent.  Acks,      *)
(* direct replies and cold turns each move the cursors, in any order;      *)
(* runners die, the user stops, the host crashes.                          *)
(*                                                                         *)
(* status, pull and committed are durable, the rest is the host's memory.  *)
(* settled and overtaken are history.                                      *)
(***************************************************************************)
EXTENDS Naturals, FiniteSets

CONSTANTS MaxMessages,  \* how many messages the lane receives
          Commands,     \* those a plugin answers without the agent
          Allowed,      \* what may happen: "fail", "stop", "crash", "early", "cross"
          MaxFaults     \* how many failures, stops and crashes

Messages == 1..MaxMessages

ASSUME MaxMessagesAssumption == MaxMessages \in Nat \ {0}
ASSUME CommandsAssumption == Commands \subseteq Messages
ASSUME FaultsAssumption == /\ Allowed \subseteq {"fail", "stop", "crash", "early", "cross"}
                           /\ MaxFaults \in Nat

VARIABLES
    status,     \* delivery_status of each message row
    pull,       \* lastAgentTimestamp: the next-pull cursor
    committed,  \* lastCommittedCursor
    deferred,   \* DeferredOutOfBandCursorLedger
    handling,   \* Web inputs whose handler awaits the command expander
    turn,       \* the cold turn: its phase, its batch and the replies it owes
    runner,     \* the lane's runner: "none", "open" or "closing"
    query,      \* the active query: "none", "busy" or "reserved" for claim
    claim,      \* the follow-up batch being prepared
    deliveries, \* pendingIpcDeliveries and whether each is acknowledged
    wake,       \* a task of the lane is queued or its retry is armed
    retry,      \* messageRetrySnapshot of the armed retry
    host,       \* "down", "starting" (recovery has not rewound) or "up"
    settled,    \* history: answered, or ended by the user
    overtaken,  \* history: rows the queue hid as something behind them was taken
    faults

cursors == <<pull, committed, deferred>>
lane == <<handling, turn, runner, query, claim, deliveries, wake, retry>>
vars == <<status, cursors, lane, host, settled, overtaken, faults>>

-----------------------------------------------------------------------------
(* Rows and cursors. *)

Max(S) == CHOOSE x \in S : \A y \in S : y <= x
Later(a, b) == IF a > b THEN a ELSE b

\* getMessagesSince reads the visible rows; the queue hides its own.
VisibleIn(st) == {m \in Messages : st[m] \in {"plain", "released"}}
HiddenIn(st) == {m \in Messages : st[m] \in {"queued", "promoting"}}
Visible == VisibleIn(status)
Queued == {m \in Messages : status[m] = "queued"}
Since(st, c) == {m \in VisibleIn(st) : m > c}

Moved(rows, to) == [m \in Messages |-> IF m \in rows THEN to ELSE status[m]]

\* hasEarlierPendingMessage
EarlierPending(st, c, m) == \E p \in VisibleIn(st) : c < p /\ p < m

\* Where the committed cursor ends once every contiguous deferred reply is
\* flushed from c on (flushDeferredOutOfBandMessages).
FlushTo(st, c, ds) ==
    Max({c} \cup {d \in ds : \A p \in VisibleIn(st) : c < p /\ p < d => p \in ds})

\* A delivery commits at the last message it covers.
CursorOf(d) == Max(d.covered)
Before(d, e) == \/ CursorOf(d) < CursorOf(e)
                \/ /\ CursorOf(d) = CursorOf(e)
                   /\ Cardinality(d.covered) > Cardinality(e.covered)

\* Mutant of Eligible: committing a receipt ignores what it does not cover.
EligibleWhatever(st, c, d) == d.acked

\* Acknowledged, and no visible message up to its cursor is left uncovered.
Eligible(st, c, d) ==
    /\ d.acked
    /\ \A p \in VisibleIn(st) : c < p /\ p <= CursorOf(d) => p \in d.covered

\* The committed cursor as the turn of d comes, every delivery before it done.
ReachedBefore(st, c, ds, dl, d) ==
    LET done == {e \in dl : Before(e, d)}
    IN IF done = {} THEN c
       ELSE FlushTo(st, Max({c} \cup {CursorOf(e) : e \in done}), ds)

\* The deliveries flushAcknowledgedIpcDeliveries commits: in cursor order, up to
\* the first that is not acknowledged or would step over a message.
Committable(st, c, ds, dl) ==
    {d \in dl : \A e \in dl :
                 ~Before(d, e) => Eligible(st, ReachedBefore(st, c, ds, dl, e), e)}

\* Both cursors move on to c, then the deliveries that wait for them.
CommitTo(st, c, ds, dl) ==
    LET gone == Committable(st, c, ds, dl)
        end == IF gone = {} THEN c
               ELSE FlushTo(st, Max({c} \cup {CursorOf(e) : e \in gone}), ds)
    IN /\ committed' = end
       /\ pull' = Later(pull, end)
       /\ deferred' = IF gone = {} THEN ds ELSE {d \in ds : d > end}
       /\ deliveries' = dl \ gone

\* completeOutOfBandMessage: a direct reply commits unless earlier work is pending.
CompleteOutOfBand(st, m) ==
    IF EarlierPending(st, committed, m)
    THEN /\ pull' = Later(pull, m)
         /\ deferred' = deferred \cup {m}
         /\ UNCHANGED <<committed, deliveries>>
    ELSE LET c == FlushTo(st, Later(committed, m), deferred)
         IN CommitTo(st, c, {d \in deferred : d > c}, deliveries)

-----------------------------------------------------------------------------
(* The lane. *)

NoTurn == [phase |-> "none", batch |-> {}, replies |-> {}]
ToSend == turn.batch \ Commands
Covered == UNION {d.covered : d \in deliveries}
Unsettled == Visible \ settled

\* The oldest of the messages a reader found, up to a change of reply route.
Prefixes(S) == {{p \in S : p <= k} : k \in S}

Fault(kind) == /\ kind \in Allowed
               /\ faults < MaxFaults
               /\ faults' = faults + 1

\* An input every earlier one of which a runner has accepted.  Without "cross"
\* a command is answered, and a stop comes, only when nothing else waits.
Clear(m) == "cross" \in Allowed \/ \A p \in Unsettled : p < m => p \in Covered

\* sendMessage: the runner takes the batch, or refuses it ("no_active": closing,
\* another identity or mode) and the lane's task is queued.
Serving == runner = "open" /\ turn.phase # "reply"

\* Mutant of Sent: whether a runner takes input is not checked.
SentAnyway(batch) ==
    /\ deliveries' = deliveries \cup {[covered |-> batch, acked |-> FALSE]}
    /\ pull' = Later(pull, Max(batch))
    /\ query' = "busy"

Sent(batch) ==
    /\ Serving
    /\ deliveries' = deliveries \cup {[covered |-> batch, acked |-> FALSE]}
    /\ pull' = Later(pull, Max(batch))
    /\ query' = "busy"

\* Mutant of Refused: the refused input is left to whoever comes next.
RefusedQuietly == UNCHANGED <<wake, deliveries, pull, query>>

Refused == wake' = TRUE /\ UNCHANGED <<deliveries, pull, query>>

-----------------------------------------------------------------------------
(* Arrivals. *)

IsNext(m) == status[m] = "absent" /\ \A k \in Messages : k < m => status[k] # "absent"

\* The Web server listens before startup recovery has rewound the cursors.
Arrives(m) ==
    /\ IsNext(m)
    /\ host = "up" \/ (host = "starting" /\ ("early" \in Allowed \/ pull <= committed))
    /\ UNCHANGED <<committed, deferred, turn, runner, claim, retry, host, settled, faults>>

\* While a query is active the message waits in the durable queue.
ArriveQueued(m) ==
    /\ Arrives(m)
    /\ query # "none"
    /\ status' = Moved({m}, "queued")
    /\ UNCHANGED <<handling, pull, query, deliveries, wake>>

\* From the Web: a runner that takes input has the command expanded first.
ArriveFromWeb(m) ==
    /\ Arrives(m)
    /\ query = "none"
    /\ status' = Moved({m}, "plain")
    /\ \/ /\ Serving
          /\ handling' = handling \cup {m}
          /\ wake' = wake
       \/ /\ handling' = handling
          /\ wake' = TRUE
    /\ UNCHANGED <<pull, query, deliveries>>

\* From a channel: pipe the oldest batch the lane has not pulled yet.
ArriveFromChannel(m) ==
    /\ Arrives(m)
    /\ host = "up"
    /\ query = "none"
    /\ status' = Moved({m}, "plain")
    /\ UNCHANGED handling
    /\ LET pending == Since(status', pull)
       IN \/ Refused
          \/ \E batch \in Prefixes(pending) :
                /\ Sent(batch)
                /\ wake' = (wake \/ batch # pending)

\* The expander answered: a command is replied to, other input is piped.
PassOn(m) ==
    /\ m \in handling
    /\ handling' = handling \ {m}
    /\ IF m \in Commands
       THEN /\ Clear(m)
            /\ settled' = settled \cup {m}
            /\ CompleteOutOfBand(status, m)
            /\ UNCHANGED <<query, wake>>
       ELSE /\ \/ Sent({m}) /\ UNCHANGED wake
               \/ Refused
            /\ UNCHANGED <<committed, deferred, settled>>
    /\ UNCHANGED <<status, turn, runner, claim, retry, host, faults>>

-----------------------------------------------------------------------------
(* The cold turn: processAgentConversation. *)

\* It reads since next-pull and takes the oldest batch; the rest is queued again.
\* Without "cross" no command follows an agent input in the batch.
ColdRead ==
    /\ host # "down" /\ wake /\ runner = "none"
    /\ LET pending == Since(status, pull)
       IN \/ /\ pending = {}
             /\ wake' = FALSE
             /\ UNCHANGED <<turn, runner, query>>
          \/ \E batch \in Prefixes(pending) :
                /\ \/ "cross" \in Allowed
                   \/ \A c \in batch \cap Commands : \A p \in batch : p < c => p \in Commands
                /\ turn' = [phase |-> IF batch \cap Commands = {} THEN "run" ELSE "reply",
                            batch |-> batch, replies |-> batch \cap Commands]
                /\ runner' = "open" /\ query' = "busy"
                /\ wake' = (batch # pending)
    /\ retry' = {}
    /\ UNCHANGED <<status, cursors, handling, claim, deliveries, host, settled, faults>>

\* A command of the batch is answered.  Only when the whole batch is commands
\* may the reply commit, and then the task ends with the last of them.
ReplyCold(m) ==
    /\ turn.phase = "reply"
    /\ m \in turn.replies /\ \A k \in turn.replies : m <= k
    /\ settled' = settled \cup {m}
    /\ IF ToSend = {}
       THEN CompleteOutOfBand(status, m)
       ELSE pull' = Later(pull, m) /\ UNCHANGED <<committed, deferred, deliveries>>
    /\ IF turn.replies # {m}
       THEN /\ turn' = [turn EXCEPT !.replies = @ \ {m}]
            /\ UNCHANGED <<runner, query>>
       ELSE IF ToSend # {}
       THEN /\ turn' = [turn EXCEPT !.phase = "run", !.replies = {}]
            /\ UNCHANGED <<runner, query>>
       ELSE turn' = NoTurn /\ runner' = "none" /\ query' = "none"
    /\ UNCHANGED <<status, handling, claim, wake, retry, host, faults>>

\* The agent answered: commitCursor moves both cursors to the last input, then
\* commits the acknowledged deliveries behind it (not the deferred replies).
TurnCompletes ==
    /\ turn.phase = "run"
    /\ CommitTo(status, Later(committed, Max(ToSend)), deferred, deliveries)
    /\ settled' = settled \cup ToSend
    /\ turn' = NoTurn
    /\ UNCHANGED <<status, handling, runner, query, claim, wake, retry, host, faults>>

-----------------------------------------------------------------------------
(* The follow-up queue. *)

\* The user may reorder the queue and a batch ends at a change of reply route:
\* any part of it may come first.
Claimable == {batch \in (SUBSET Queued) \ {{}} : \A m \in batch \cap Commands : Clear(m)}

\* reserveNextQuery and claimNextQueuedFollowUpBatch, one preparation at a time.
CanDispatch == runner = "open" /\ claim = {} /\ Claimable # {}
Dispatch == /\ claim' \in Claimable
            /\ status' = Moved(claim', "promoting")
            /\ query' = "reserved"

\* The runner reports its query idle, and the queue's next batch is dispatched.
QueryIdle ==
    /\ runner # "none" /\ turn.phase = "none" /\ query = "busy"
    /\ IF CanDispatch THEN Dispatch
       ELSE query' = "none" /\ UNCHANGED <<claim, status>>
    /\ UNCHANGED <<cursors, handling, turn, runner, deliveries, wake, retry, host,
                   settled, faults>>

\* The user promotes a row, or the dispatch is tried again.
Promote ==
    /\ query = "none" /\ CanDispatch
    /\ Dispatch
    /\ UNCHANGED <<cursors, handling, turn, runner, deliveries, wake, retry, host,
                   settled, faults>>

\* The reservation may be gone: its runner exited while the batch was prepared.
Unreserved == IF query = "reserved" THEN "none" ELSE query

\* completeFollowUpReply: a command of the claimed batch is answered.
ReplyClaimed(m) ==
    /\ m \in claim \cap Commands
    /\ Clear(m)
    /\ status' = Moved({m}, "released")
    /\ settled' = settled \cup {m}
    /\ CompleteOutOfBand(status', m)
    /\ claim' = claim \ {m}
    /\ query' = IF claim' = {} THEN Unreserved ELSE query
    /\ UNCHANGED <<handling, turn, runner, wake, retry, host, faults>>

\* The reply did not get through: the rows go back to the queue.
RestoreClaimed ==
    /\ Fault("fail")
    /\ claim \cap Commands # {}
    /\ status' = Moved(claim, "queued")
    /\ claim' = {}
    /\ query' = Unreserved
    /\ UNCHANGED <<cursors, handling, turn, runner, deliveries, wake, retry, host, settled>>

\* injectPreparedFollowUp: the batch goes to the runner, or to the cold reader.
Inject ==
    /\ claim # {} /\ claim \cap Commands = {}
    /\ status' = Moved(claim, "released")
    /\ claim' = {}
    /\ \/ Sent(claim) /\ UNCHANGED wake
       \/ wake' = TRUE /\ query' = Unreserved /\ UNCHANGED <<deliveries, pull>>
    /\ UNCHANGED <<committed, deferred, handling, turn, runner, retry, host, settled, faults>>

-----------------------------------------------------------------------------
(* The warm runner: receipts, retirement, exit. *)

\* The runner answered a delivery.
Acknowledge(d) ==
    /\ runner # "none"
    /\ d \in deliveries /\ ~d.acked
    /\ settled' = settled \cup d.covered
    /\ CommitTo(status, committed, deferred, (deliveries \ {d}) \cup {[d EXCEPT !.acked = TRUE]})
    /\ UNCHANGED <<status, handling, turn, runner, query, claim, wake, retry, host, faults>>

\* Reclaimed for its slot, or outdated: it takes no new input.
Retire ==
    /\ runner = "open"
    /\ runner' = "closing"
    /\ UNCHANGED <<status, cursors, handling, turn, query, claim, deliveries, wake, retry,
                   host, settled, faults>>

\* Mutant of Rewound: the exit leaves the next-pull cursor where it was.
NotRewound == pull

\* What is delivered and not committed is read again from the database.
Rewound == IF deliveries # {} THEN committed ELSE pull

Exits(failed) ==
    /\ runner' = "none" /\ query' = "none" /\ turn' = NoTurn
    /\ pull' = Rewound
    /\ deliveries' = {}
    /\ retry' = failed
    /\ wake' = (wake \/ failed # {} \/ deliveries # {})
    /\ UNCHANGED <<status, committed, deferred, handling, claim, host, settled>>

IdleExit == /\ runner # "none" /\ turn.phase = "none" /\ query = "none"
            /\ Exits({})
            /\ UNCHANGED faults

\* The runner dies, or a reply of the cold turn does not get through: an
\* unfinished turn is retried with the batch it had read.
Fails == /\ Fault("fail")
         /\ runner # "none"
         /\ Exits(turn.batch)

\* An explicit stop settles what the lane accepted: the deliveries, then the
\* running turn, or the batch of an armed retry.
NothingElseWaits(stopped) ==
    "cross" \in Allowed \/ (Unsettled \subseteq stopped /\ handling = {})

StopRunner ==
    /\ Fault("stop")
    /\ runner # "none" /\ turn.phase # "reply"
    /\ NothingElseWaits(Covered \cup ToSend)
    /\ LET flushed == IF deliveries = {} THEN committed
                      ELSE FlushTo(status, Max({committed} \cup Covered), deferred)
       IN /\ committed' = Max({flushed} \cup ToSend)
          /\ deferred' = IF deliveries = {} THEN deferred
                         ELSE {d \in deferred : d > flushed}
    /\ pull' = Later(pull, committed')
    /\ settled' = settled \cup Covered \cup ToSend
    /\ runner' = "none" /\ query' = "none" /\ turn' = NoTurn
    /\ deliveries' = {} /\ retry' = {} /\ wake' = FALSE
    /\ UNCHANGED <<status, handling, claim, host>>

StopRetry ==
    /\ Fault("stop")
    /\ runner = "none" /\ retry # {}
    /\ NothingElseWaits(retry)
    /\ committed' = Later(committed, Max(retry))
    /\ pull' = Later(pull, committed')
    /\ settled' = settled \cup retry
    /\ retry' = {}
    /\ wake' = (Since(status, pull') # {})
    /\ UNCHANGED <<status, deferred, handling, turn, runner, query, claim, deliveries, host>>

-----------------------------------------------------------------------------
(* The host. *)

\* Without "early" nothing is there to run before recovery rewinds a cursor
\* that is ahead: no queued row at the crash, no input during startup.
Crash ==
    /\ Fault("crash")
    /\ host # "down"
    /\ "early" \in Allowed \/ pull <= committed \/ HiddenIn(status) = {}
    /\ host' = "down"
    /\ deferred' = {} /\ handling' = {} /\ turn' = NoTurn /\ runner' = "none"
    /\ query' = "none" /\ claim' = {} /\ deliveries' = {} /\ wake' = FALSE /\ retry' = {}
    /\ UNCHANGED <<status, pull, committed, settled>>

\* Startup makes claimed rows claimable again, releases the first batch of the
\* queue to the cold reader and starts the lane's task on it.
Restart ==
    /\ host = "down"
    /\ host' = "starting"
    /\ LET hidden == HiddenIn(status)
       IN \/ hidden = {} /\ UNCHANGED <<status, wake>>
          \/ \E batch \in (SUBSET hidden) \ {{}} :
                /\ status' = [m \in Messages |-> IF m \in batch THEN "released"
                                                 ELSE IF m \in hidden THEN "queued"
                                                 ELSE status[m]]
                /\ wake' = TRUE
    /\ UNCHANGED <<cursors, handling, turn, runner, query, claim, deliveries, retry,
                   settled, faults>>

\* Startup recovery rewinds a cursor that is ahead and queues what is pending.
Recover ==
    /\ host = "starting"
    /\ host' = "up"
    /\ pull' = IF pull > committed THEN committed ELSE pull
    /\ wake' = (wake \/ Since(status, committed) # {})
    /\ UNCHANGED <<status, committed, deferred, handling, turn, runner, query, claim,
                   deliveries, retry, settled, faults>>

-----------------------------------------------------------------------------
(* History: a hidden row is overtaken once a cursor or a batch is past it. *)
TakenUp == Max({pull, committed} \cup turn.batch)
Overtakes == overtaken' = overtaken \cup {h \in HiddenIn(status') : h < TakenUp'}

Init ==
    /\ status = [m \in Messages |-> "absent"]
    /\ pull = 0 /\ committed = 0 /\ deferred = {}
    /\ handling = {} /\ turn = NoTurn /\ runner = "none" /\ query = "none" /\ claim = {}
    /\ deliveries = {} /\ wake = FALSE /\ retry = {}
    /\ host = "up" /\ settled = {} /\ overtaken = {} /\ faults = 0

Arrival == \E m \in Messages : ArriveQueued(m) \/ ArriveFromWeb(m) \/ ArriveFromChannel(m)
Handler == \E m \in Messages : PassOn(m)
ColdTurn == ColdRead \/ (\E m \in Messages : ReplyCold(m)) \/ TurnCompletes
FollowUp == \/ QueryIdle \/ Promote \/ RestoreClaimed \/ Inject
            \/ \E m \in Messages : ReplyClaimed(m)
WarmRunner == (\E d \in deliveries : Acknowledge(d)) \/ Retire \/ IdleExit \/ Fails
Host == StopRunner \/ StopRetry \/ Crash \/ Restart \/ Recover

Next == (Arrival \/ Handler \/ ColdTurn \/ FollowUp \/ WarmRunner \/ Host) /\ Overtakes

\* Handlers, tasks, recovery and runners get on: a runner answers what it was
\* given and exits once it has idled for long enough.
Progress ==
    \/ Handler \/ ColdTurn \/ QueryIdle \/ Inject \/ IdleExit \/ Restart \/ Recover
    \/ \E m \in Messages : ReplyClaimed(m)
    \/ \E d \in deliveries : Acknowledge(d)

Fairness == WF_vars(Progress /\ Overtakes)

Spec == Init /\ [][Next]_vars /\ Fairness

-----------------------------------------------------------------------------
(* Properties. *)

Statuses == {"absent", "plain", "queued", "promoting", "released"}

\* Types; and no turn without its batch, no delivery and no query without a runner.
TypeOK ==
    /\ status \in [Messages -> Statuses]
    /\ pull \in 0..MaxMessages /\ committed \in 0..MaxMessages
    /\ deferred \subseteq Messages /\ handling \subseteq Messages
    /\ turn \in [phase : {"none", "reply", "run"}, batch : SUBSET Messages,
                  replies : SUBSET Messages]
    /\ runner \in {"none", "open", "closing"} /\ query \in {"none", "busy", "reserved"}
    /\ claim \subseteq Messages
    /\ deliveries \subseteq [covered : (SUBSET Messages) \ {{}}, acked : BOOLEAN]
    /\ wake \in BOOLEAN /\ retry \subseteq Messages
    /\ host \in {"down", "starting", "up"}
    /\ settled \subseteq Messages /\ overtaken \subseteq Messages
    /\ faults \in 0..MaxFaults
    /\ turn.phase = "none" <=> turn.batch = {}
    /\ turn.phase = "run" => ToSend # {}
    /\ turn.phase = "reply" => deliveries = {}
    /\ runner = "none" => deliveries = {} /\ query = "none" /\ turn = NoTurn

\* The committed cursor never stands behind a message a reader could see and
\* nobody settled: a restart reads nothing that lies before it.  Only a row the
\* follow-up queue hid while a later message was taken up may end there.
\* ("Recovery-safe cursor: only advances when an agent actually finishes
\* processing", index.ts:1086.)
CommittedIsSettled ==
    \A m \in Visible : m <= committed => m \in settled \cup overtaken

\* While the host is up, a message nobody settled is still ahead of the next-pull
\* cursor, or a delivery at or behind which it lies has not committed, so that the
\* exit of its runner rewinds the cursor to before it.
NothingForgotten ==
    host = "up" =>
        \A m \in Unsettled \ overtaken :
            m > pull \/ \E d \in deliveries : m <= CursorOf(d)

\* A message a reader can see is settled in the end, whatever fails meanwhile.
Waiting(m) == m \in Unsettled \ overtaken
MessagesSettle == \A m \in Messages : Waiting(m) ~> m \in settled

=============================================================================
