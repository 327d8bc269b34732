-------------------------------- MODULE Outbox --------------------------------
(***************************************************************************)
(* The event path (pkg/eventbus and the loops of cmd/worker): an event is  *)
(* a row written in the transaction of the change it tells of, a drain     *)
(* publishes unpublished rows to the stream and then marks them, and a     *)
(* durable consumer hands every message to one of the workers until it is  *)
(* acknowledged or was delivered MaxDeliver times.                         *)
(*                                                                         *)
(* The stream (NATS JetStream) is external: it keeps what was published    *)
(* and delivers a message again when it was refused, when its worker died, *)
(* and also when the handler outlasts the first pause of the back-off, so  *)
(* two workers may handle one message at the same time.                    *)
(***************************************************************************)
EXTENDS Integers, FiniteSets

CONSTANTS
  Events,      \* outbox rows, numbered by created_at
  Workers,     \* worker processes
  MaxDeliver,  \* maxDeliveries
  MaxFaults,   \* bound: failures and crashes in a behaviour
  NoMsg        \* "no message"

ASSUME EventsAssumption == Events \subseteq Nat \ {0}
ASSUME DeliverAssumption == MaxDeliver \in Nat \ {0} /\ MaxFaults \in Nat

VARIABLES
  written,     \* committed rows
  marked,      \* rows with published_at set
  batch,       \* batch[w]: rows w's drain read and has still to publish
  sent,        \* sent[w]: the row it has published and not marked yet
  published,   \* published[e]: copies of e in the stream
  deliveries,  \* deliveries[m]: times message m was delivered
  closed,      \* acknowledged or terminated messages
  handling,    \* handling[w]: message worker w is handling
  attempt,     \* attempt[w]: which delivery of it this is
  handled,     \* events a handler has finished without an error
  faults       \* failures and crashes so far

drain == <<marked, batch, sent>>
delivery == <<deliveries, closed, handling, attempt, handled>>
outbox == <<written, drain, published, delivery, faults>>

\* A row is published again only by another worker or after a fault.
Copies == 1..(Cardinality(Workers) + MaxFaults)
Messages == Events \X Copies
InStream == {m \in Messages : m[2] <= published[m[1]]}
None == 0  \* no row

OutboxInit ==
  /\ written = {} /\ marked = {} /\ handled = {} /\ closed = {}
  /\ batch = [w \in Workers |-> {}]
  /\ sent = [w \in Workers |-> None]
  /\ published = [e \in Events |-> 0]
  /\ deliveries = [m \in Messages |-> 0]
  /\ handling = [w \in Workers |-> NoMsg]
  /\ attempt = [w \in Workers |-> 0]
  /\ faults = 0

Fault == faults < MaxFaults /\ faults' = faults + 1

-----------------------------------------------------------------------------
(* Enqueue, committed with the change of state it announces. *)
Enqueue(e) ==
  /\ e \notin written
  /\ written' = written \cup {e}
  /\ UNCHANGED <<drain, published, delivery, faults>>

(* Drain reads the unpublished rows ... *)
ReadUnpublished(w) ==
  /\ batch[w] = {}
  /\ written \ marked # {}
  /\ batch' = [batch EXCEPT ![w] = written \ marked]
  /\ UNCHANGED <<written, marked, sent, published, delivery, faults>>

(* ... publishes the oldest ... *)
Publish(w, e) ==
  /\ sent[w] = None
  /\ e \in batch[w] /\ \A f \in batch[w] : e <= f
  /\ published' = [published EXCEPT ![e] = @ + 1]
  /\ sent' = [sent EXCEPT ![w] = e]
  /\ UNCHANGED <<written, marked, batch, delivery, faults>>

(* ... and marks it. *)
MarkPublished(w) ==
  /\ sent[w] # None
  /\ marked' = marked \cup {sent[w]}
  /\ batch' = [batch EXCEPT ![w] = @ \ {sent[w]}]
  /\ sent' = [sent EXCEPT ![w] = None]
  /\ UNCHANGED <<written, published, delivery, faults>>

(* Wrong variant: rows that could not be published are marked. *)
DrainFailsMarked(w) ==
  /\ batch[w] # {}
  /\ Fault
  /\ marked' = marked \cup batch[w]
  /\ batch' = [batch EXCEPT ![w] = {}]
  /\ sent' = [sent EXCEPT ![w] = None]
  /\ UNCHANGED <<written, published, delivery>>

(* The first error ends the drain: rows not marked wait for the next one. *)
DrainFails(w) ==
  /\ batch[w] # {}
  /\ Fault
  /\ batch' = [batch EXCEPT ![w] = {}]
  /\ sent' = [sent EXCEPT ![w] = None]
  /\ UNCHANGED <<written, marked, published, delivery>>

-----------------------------------------------------------------------------
(* MaxDeliver of the consumer. *)
MayDeliver(m) == deliveries[m] < MaxDeliver

(* The consumer gives an open message to a worker, one at a time. *)
Deliver(w, m) ==
  /\ handling[w] = NoMsg
  /\ m \in InStream \ closed
  /\ MayDeliver(m)
  /\ deliveries' = [deliveries EXCEPT ![m] = @ + 1]
  /\ handling' = [handling EXCEPT ![w] = m]
  /\ attempt' = [attempt EXCEPT ![w] = deliveries[m] + 1]
  /\ UNCHANGED <<written, drain, published, closed, handled, faults>>

StopHandling(w) ==
  /\ handling' = [handling EXCEPT ![w] = NoMsg]
  /\ attempt' = [attempt EXCEPT ![w] = 0]

(* The handler returns nil: Ack. *)
HandlerSucceeds(w) ==
  /\ handling[w] # NoMsg
  /\ closed' = closed \cup {handling[w]}
  /\ handled' = handled \cup {handling[w][1]}
  /\ StopHandling(w)
  /\ UNCHANGED <<written, drain, published, deliveries, faults>>

(* Wrong variant: the message is acknowledged in spite of the error. *)
HandlerFailsAcked(w) ==
  /\ handling[w] # NoMsg
  /\ closed' = closed \cup {handling[w]}
  /\ StopHandling(w)
  /\ UNCHANGED <<written, drain, published, deliveries, handled, faults>>

(* The handler returns an error: Nak, or Term after the last delivery. *)
HandlerFails(w) ==
  /\ handling[w] # NoMsg
  /\ closed' = IF attempt[w] >= MaxDeliver THEN closed \cup {handling[w]} ELSE closed
  /\ StopHandling(w)
  /\ UNCHANGED <<written, drain, published, deliveries, handled, faults>>

(* A worker dies, in its drain and in its handler. *)
WorkerDies(w) ==
  /\ handling[w] # NoMsg \/ batch[w] # {}
  /\ Fault
  /\ batch' = [batch EXCEPT ![w] = {}]
  /\ sent' = [sent EXCEPT ![w] = None]
  /\ StopHandling(w)
  /\ UNCHANGED <<written, marked, published, deliveries, closed, handled>>

DrainStep(w) ==
  \/ ReadUnpublished(w) \/ MarkPublished(w)
  \/ \E e \in Events : Publish(w, e)

OutboxNext ==
  \/ \E e \in Events : Enqueue(e)
  \/ \E w \in Workers :
       \/ DrainStep(w) \/ DrainFails(w)
       \/ \E m \in Messages : Deliver(w, m)
       \/ HandlerSucceeds(w) \/ HandlerFails(w) \/ WorkerDies(w)

OutboxSpec == OutboxInit /\ [][OutboxNext]_outbox

-----------------------------------------------------------------------------
(* Properties. *)

OutboxTypeOK ==
  /\ marked \subseteq written /\ written \subseteq Events
  /\ batch \in [Workers -> SUBSET written]
  /\ sent \in [Workers -> Events \cup {None}]
  /\ published \in [Events -> 0..Cardinality(Copies)]
  /\ deliveries \in [Messages -> 0..MaxDeliver]
  /\ closed \subseteq InStream
  /\ handling \in [Workers -> InStream \cup {NoMsg}]
  /\ attempt \in [Workers -> 0..MaxDeliver]
  /\ handled \subseteq written
  /\ faults \in 0..MaxFaults

(* "A crash between DB committed and event published can never lose an      *)
(* event": a row is marked only when the stream has it, and an event that   *)
(* is not in the stream is still there for the next drain.                  *)
MarkedWasPublished == \A e \in marked : published[e] > 0

(* An event is given up when one of its messages was delivered as often as  *)
(* the consumer may and nobody is working on it any more.                   *)
GivenUp(e) ==
  \E m \in InStream :
    /\ m[1] = e /\ deliveries[m] = MaxDeliver
    /\ \A w \in Workers : handling[w] # m

(* Every committed event is handled in the end, or given up after           *)
(* MaxDeliver deliveries, whatever dies or fails on the way.                *)
EventsArrive == \A e \in Events : e \in written ~> e \in handled \/ GivenUp(e)

=============================================================================
