----------------------------- MODULE PipelineBus -----------------------------
(***************************************************************************)
(* The production message bus (RedisStreamBus, hqmts/infra/pipeline.py) on *)
(* one stream.  The server keeps the stream, its consumer groups with the  *)
(* last message delivered to each, and the messages delivered but not yet  *)
(* acknowledged; it outlives the process, whose workers stop() cancels at  *)
(* whatever they wait for.  Messages are numbered as they are published.   *)
(***************************************************************************)
EXTENDS Integers, Sequences

CONSTANTS
    Groups,         \* consumer groups that subscribe
    BatchSize,      \* count of XREADGROUP
    MaxPublished,   \* bound: messages published
    MaxStarts       \* bound: calls of start()

ASSUME BusAssumption ==
    /\ BatchSize \in Nat \ {0}
    /\ {MaxPublished, MaxStarts} \subseteq Nat

VARIABLES
    published,   \* length of the stream
    created,     \* the groups the server has
    delivered,   \* delivered[g]: the last message that g was given
    pending,     \* pending[g]: those of them not acknowledged
    subscribers, \* _callbacks of the stream, in order
    workers,     \* workers[g]: the batch its worker has in hand, or NoWorker
    starts,      \* how often the bus was started
    processed      \* history, processed[g]: the messages whose callback succeeded, in order

serverVars == <<published, created, delivered, pending>>
busVars == <<serverVars, subscribers, workers, starts, processed>>

NoWorker == [batch |-> <<>>, at |-> "stopped"]
Reading == [batch |-> <<>>, at |-> "reading"]

BusRunning == \E g \in Groups : workers[g].at # "stopped"

BusInit ==
    /\ published = 0 /\ created = {}
    /\ delivered = [g \in Groups |-> 0]
    /\ pending = [g \in Groups |-> {}]
    /\ subscribers = <<>>
    /\ workers = [g \in Groups |-> NoWorker]
    /\ starts = 0
    /\ processed = [g \in Groups |-> <<>>]

Subscribed == {subscribers[n] : n \in 1..Len(subscribers)}

(* XADD *)
Publish ==
    /\ published < MaxPublished
    /\ published' = published + 1
    /\ UNCHANGED <<created, delivered, pending, subscribers, workers, starts, processed>>

Subscribe(g) ==
    /\ g \notin Subscribed
    /\ subscribers' = Append(subscribers, g)
    /\ UNCHANGED <<serverVars, workers, starts, processed>>

(* start(): the group of the first subscriber is created unless it exists, *)
(* to be read from the start of the stream; every subscriber gets a worker.*)
BusStart ==
    /\ ~BusRunning /\ subscribers # <<>> /\ starts < MaxStarts
    /\ starts' = starts + 1
    /\ created' = created \cup {subscribers[1]}
    /\ workers' = [g \in Groups |-> IF g \in Subscribed THEN Reading ELSE NoWorker]
    /\ UNCHANGED <<published, delivered, pending, subscribers, processed>>

Batch(last) ==
    [n \in 1..(IF published - last < BatchSize THEN published - last ELSE BatchSize) |-> last + n]

LastRead(g) == delivered[g]

(* XREADGROUP with ">" at the server: what no consumer of the group was    *)
(* given yet is given out.  A group that does not exist is an error, and   *)
(* the worker tries again.                                                 *)
Gives(g) ==
    LET new == Batch(LastRead(g))
    IN  /\ workers[g] = Reading /\ g \in created /\ new # <<>>
        /\ delivered' = [delivered EXCEPT ![g] = new[Len(new)]]
        /\ pending' = [pending EXCEPT ![g] = @ \cup {new[n] : n \in 1..Len(new)}]
        /\ UNCHANGED <<published, created, subscribers, starts, processed>>

(* The worker has the reply. *)
XReadGroup(g) ==
    /\ Gives(g)
    /\ workers' = [workers EXCEPT ![g] = [batch |-> Batch(LastRead(g)), at |-> "calling"]]

(* The connection breaks after the server has answered: that is logged,    *)
(* and the worker reads on, behind the messages of the lost reply.         *)
ReadLost(g) == Gives(g) /\ UNCHANGED workers

(* The worker goes on to the next message of its batch. *)
GoesOn(g) ==
    workers' = [workers EXCEPT ![g] = IF Len(@.batch) = 1 THEN Reading
                                      ELSE [batch |-> Tail(@.batch), at |-> "calling"]]

(* The callback succeeds: the acknowledgement is sent. *)
CallbackReturns(g) ==
    /\ workers[g].at = "calling"
    /\ processed' = [processed EXCEPT ![g] = Append(@, Head(workers[g].batch))]
    /\ workers' = [workers EXCEPT ![g].at = "acknowledging"]
    /\ UNCHANGED <<serverVars, subscribers, starts>>

(* Mutant: a message is acknowledged also when its callback raised. *)
CallbackRaisesAcked(g) ==
    /\ workers[g].at = "calling"
    /\ pending' = [pending EXCEPT ![g] = @ \ {Head(workers[g].batch)}]
    /\ GoesOn(g)
    /\ UNCHANGED <<published, created, delivered, subscribers, starts, processed>>

(* It raises: that is logged, and the message stays pending. *)
CallbackRaises(g) ==
    /\ workers[g].at = "calling"
    /\ GoesOn(g)
    /\ UNCHANGED <<serverVars, subscribers, starts, processed>>

(* Mutant: a failing acknowledgement ends the batch. *)
XAckEndsBatch(g, raises) ==
    /\ workers[g].at = "acknowledging"
    /\ pending' = IF raises THEN pending
                  ELSE [pending EXCEPT ![g] = @ \ {Head(workers[g].batch)}]
    /\ IF raises THEN workers' = [workers EXCEPT ![g] = Reading] ELSE GoesOn(g)
    /\ UNCHANGED <<published, created, delivered, subscribers, starts, processed>>

(* XACK succeeds or raises. *)
XAck(g, raises) ==
    /\ workers[g].at = "acknowledging"
    /\ pending' = IF raises THEN pending
                  ELSE [pending EXCEPT ![g] = @ \ {Head(workers[g].batch)}]
    /\ GoesOn(g)
    /\ UNCHANGED <<published, created, delivered, subscribers, starts, processed>>

(* stop(): every worker is cancelled where it waits. *)
BusStop ==
    /\ BusRunning
    /\ workers' = [g \in Groups |-> NoWorker]
    /\ UNCHANGED <<serverVars, subscribers, starts, processed>>

BusNext ==
    \/ Publish
    \/ \E g \in Groups : \/ Subscribe(g) \/ XReadGroup(g) \/ ReadLost(g)
                         \/ CallbackReturns(g) \/ CallbackRaises(g)
                         \/ \E raises \in BOOLEAN : XAck(g, raises)
    \/ BusStart
    \/ BusStop

BusSpec == BusInit /\ [][BusNext]_busVars

-----------------------------------------------------------------------------

Processed(g) == {processed[g][n] : n \in 1..Len(processed[g])}

BusTypeOK ==
    /\ published \in 0..MaxPublished /\ starts \in 0..MaxStarts
    /\ created \subseteq Groups
    /\ delivered \in [Groups -> 0..MaxPublished]
    /\ pending \in [Groups -> SUBSET (1..MaxPublished)]
    /\ workers \in [Groups -> [batch: Seq(1..MaxPublished),
                               at: {"stopped", "reading", "calling", "acknowledging"}]]

(* Through failing callbacks, lost replies, lost acknowledgements and      *)
(* restarts, a group handles the messages in the order of the stream, and  *)
(* none of them twice.                                                     *)
ProcessedInOrder ==
    \A g \in Groups : \A m, n \in 1..Len(processed[g]) : m < n => processed[g][m] < processed[g][n]

(* "XACK after successful processing": a message that was delivered and is *)
(* no longer pending was handled.                                          *)
AckedIsProcessed ==
    \A g \in Groups : (1..delivered[g]) \ pending[g] \subseteq Processed(g)

(* What a group has acknowledged it has handled, once and in order.        *)
HandledExactly == ProcessedInOrder /\ AckedIsProcessed

(* What the bus promises a consumer group (module GroupLog), through       *)
(* restarts, failing callbacks, lost replies and lost acknowledgements:    *)
(* each message is given to it once, handled at most once and in order,    *)
(* and acknowledged only when it was handled.                              *)
acknowledged == [g \in Groups |-> (1..delivered[g]) \ pending[g]]

Log == INSTANCE GroupLog WITH length <- published, given <- delivered,
                              handled <- processed, acked <- acknowledged

ImplementsGroupLog == Log!Spec

(* What a group was given and neither handled nor has in a worker's hand.  *)
InHand(g) == {workers[g].batch[n] : n \in 1..Len(workers[g].batch)}

PassedOver(g) == (1..delivered[g]) \ (Processed(g) \cup InHand(g))

(* pipeline.py:165, "Consumer groups for at-least-once delivery": a        *)
(* message that a group was given is processed, or a worker has it in hand.*)
AtLeastOnce == \A g \in Groups : PassedOver(g) = {}

(* How it comes that this does not hold, and that nothing repairs it: only *)
(* a callback that raises, a reply of the server that is lost, or stop()   *)
(* makes a group pass over a message - not a lost acknowledgement, nor     *)
(* start() - and no restart brings back what a group has passed over.      *)
LostByFailureForGood ==
    [][\A g \in Groups :
          /\ PassedOver(g) \subseteq PassedOver(g)'
          /\ PassedOver(g)' # PassedOver(g) =>
                CallbackRaises(g) \/ ReadLost(g) \/ BusStop]_busVars
=============================================================================
