------------------------ MODULE PublishPipelineProofs ------------------------
(***************************************************************************)
(* Proofs about PublishPipeline, for all entities, states, settings, chunk *)
(* sizes, retry counts and numbers of events: an invariant, what a step    *)
(* may never do, and the delivery of EventDelivery that it implements.     *)
(***************************************************************************)
EXTENDS PublishPipeline, TLAPS, FiniteSetTheorems

\* What each place of the publisher says about the buffer, the request and
\* the poll: documents are held only during a run, a full chunk leaves at most
\* one document behind, and the last request of a run leaves none.
PhasesOK ==
    /\ publisher \notin {"sipping", "sending", "backoff"} => buffer = <<>>
    /\ publisher \notin {"sending", "backoff"} => chunk = {}
    /\ Len(buffer) <= ChunkSize + 1
    /\ publisher \in {"sending", "backoff"} =>
         Len(buffer) <= 1 /\ (exhausted => buffer = <<>>)
    /\ publisher = "sipping" => exhausted = FALSE
    /\ publisher = "backoff" => attempt < MaxRetries
    /\ poller # "polling" => toPoll = {}
    /\ \A e \in toPoll : states[e] # None
    /\ Len(queue) <= accepted

\* Events wait in the order of their acceptance: what has been in a request is
\* older than what waits for the next one, which is older than what is on the
\* queue.
EventsWaitInOrder ==
    /\ \A i \in 1..Len(queue) : queue[i].id = Taken + i
    /\ \A i, j \in 1..Len(buffer) : i < j => buffer[i] < buffer[j]
    /\ \A n \in chunk \cup settled["published"] \cup settled["failed"] :
         \A i \in 1..Len(buffer) : n < buffer[i]

\* The inductive invariant.
Inv == TypeOK /\ PhasesOK /\ EachEventOnce /\ EventsWaitInOrder

-----------------------------------------------------------------------------
\* Facts about the operators of the model.

\* A document appended to the buffer is one more buffered document.
LEMMA BufferedAfterAppend ==
    ASSUME buffer \in Seq(Nat), NEW n \in Nat, buffer' = Append(buffer, n)
    PROVE  Buffered' = Buffered \cup {n}
BY DEF Buffered

LEMMA BufferedIsEmpty ==
    ASSUME buffer = <<>>
    PROVE  Buffered = {}
BY DEF Buffered

\* A full chunk takes all buffered documents but the last.
LEMMA BufferedAfterSendChunk ==
    ASSUME buffer \in Seq(Nat), ChunkSize \in Nat \ {0},
           Len(buffer) = ChunkSize + 1, SendChunk
    PROVE  /\ Buffered = chunk' \cup Buffered'
           /\ Buffered' = {buffer[ChunkSize + 1]}
BY DEF Buffered, SendChunk

\* What Put appends has the shape of an item.
LEMMA PutType ==
    ASSUME TypeOK, NEW e \in Entities, NEW state \in States, Put(e, state)
    PROVE  queue' \in Seq(Item) /\ accepted' \in Nat
<1> DEFINE new == [id |-> accepted + 1, entity |-> e, attributes |-> state.attributes]
<1>1. new \in Item
  BY StatesAssumption DEF TypeOK, Item
<1>2. queue' = Append(queue, new) /\ accepted' = accepted + 1
  BY DEF Put
<1> HIDE DEF new
<1> QED
  BY <1>1, <1>2 DEF TypeOK

LEMMA SipType ==
    ASSUME TypeOK, Sip
    PROVE  /\ Head(queue) \in Item
           /\ queue' \in Seq(Item)
           /\ Len(queue') = Len(queue) - 1
           /\ \A i \in 1..Len(queue') : queue'[i] = queue[i + 1]
<1>1. queue \in Seq(Item) /\ queue # <<>> /\ queue' = Tail(queue)
  BY DEF TypeOK, Sip
<1> QED
  BY <1>1

LEMMA SettleType ==
    ASSUME TypeOK, NEW outcome \in Outcomes, NEW events \in SUBSET Nat,
           Settle(outcome, events)
    PROVE  settled' \in [Outcomes -> SUBSET Nat]
BY DEF TypeOK, Settle

LEMMA BufferedType ==
    ASSUME TypeOK
    PROVE  Buffered \in SUBSET Nat
BY DEF TypeOK, Buffered

LEMMA AbandonRunType ==
    ASSUME TypeOK, AbandonRun
    PROVE  /\ settled' \in [Outcomes -> SUBSET Nat]
           /\ chunk' = {}
           /\ buffer' = <<>>
<1>1. chunk \cup Buffered \in SUBSET Nat
  BY BufferedType DEF TypeOK
<1>2. "abandoned" \in Outcomes
  BY DEF Outcomes
<1> QED
  BY <1>1, <1>2, SettleType DEF AbandonRun

\* An answer shrinks the request and adds some of it to two outcomes.
LEMMA RespondType ==
    ASSUME TypeOK, Respond
    PROVE  /\ chunk' \in SUBSET Nat
           /\ settled' \in [Outcomes -> SUBSET Nat]
           /\ publisher' \in {"backoff", "waiting", "sipping"}
           /\ attempt' = attempt
<1>1. PICK ok, throttled, retried \in SUBSET chunk :
        /\ \/ chunk' = retried /\ publisher' = "backoff"
           \/ chunk' = {} /\ publisher' \in {"waiting", "sipping"}
        /\ settled' = [settled EXCEPT
                         !["published"] = @ \cup ok,
                         !["failed"] = @ \cup (chunk \ (ok \cup retried))]
  <2>1. PICK ok, throttled \in SUBSET chunk :
          LET retried == IF attempt < MaxRetries THEN throttled ELSE {}
          IN  /\ IF retried # {}
                 THEN chunk' = retried /\ publisher' = "backoff"
                 ELSE chunk' = {} /\ publisher' = IF exhausted THEN "waiting" ELSE "sipping"
              /\ settled' = [settled EXCEPT
                               !["published"] = @ \cup ok,
                               !["failed"] = @ \cup (chunk \ (ok \cup retried))]
    BY DEF Respond, ChunkIsSettled
  <2> DEFINE retried == IF attempt < MaxRetries THEN throttled ELSE {}
  <2>2. retried \in SUBSET chunk
    OBVIOUS
  <2> QED
    BY <2>1, <2>2
<1>2. chunk \in SUBSET Nat /\ settled \in [Outcomes -> SUBSET Nat]
  BY DEF TypeOK
<1>3. settled' \in [Outcomes -> SUBSET Nat]
  <2>1. /\ settled["published"] \cup ok \in SUBSET Nat
        /\ settled["failed"] \cup (chunk \ (ok \cup retried)) \in SUBSET Nat
    BY <1>2 DEF Outcomes
  <2> QED
    BY <1>1, <1>2, <2>1 DEF Outcomes
<1>4. attempt' = attempt
  BY DEF Respond, ChunkIsSettled
<1> QED
  BY <1>1, <1>2, <1>3, <1>4

LEMMA ReloadType ==
    ASSUME ReloadConfigEntry
    PROVE  reloading' \in BOOLEAN
BY DEF ReloadConfigEntry

-----------------------------------------------------------------------------
\* Every variable stays in its type: the queue, the buffer and the settled
\* events of the publishing pipeline have the shapes the code gives them.
LEMMA TypeStep ==
    ASSUME Inv, [Next]_vars
    PROVE  TypeOK'
<1> USE SizesAssumption, StatesAssumption
<1> USE DEF TypeOK, PhasesOK, Item, PublisherStates, Outcomes,
            entryVars, hassVars, gatherVars, queueVars, requestVars
<1>1. ASSUME NEW e \in Entities, NEW new \in States, StateWritten(e, new)
      PROVE  TypeOK'
  <2>1. CASE UNCHANGED queueVars
    BY <1>1, <2>1 DEF StateWritten, Inv
  <2>2. CASE Put(e, new)
    <3>1. queue' \in Seq(Item) /\ accepted' \in Nat
      BY <2>2, PutType DEF Inv
    <3> QED
      BY <1>1, <3>1 DEF StateWritten, Inv
  <2> QED
    BY <1>1, <2>1, <2>2 DEF StateWritten
<1>2. ASSUME NEW e \in Entities, StateRemoved(e)
      PROVE  TypeOK'
  BY <1>2 DEF StateRemoved, Inv
<1>3. ASSUME NEW e \in Entities, NEW new \in RegistryEntries \cup {None},
             RegistryUpdated(e, new)
      PROVE  TypeOK'
  BY <1>3 DEF RegistryUpdated, Inv
<1>4. CASE ManagerInit
  BY <1>4 DEF ManagerInit, Inv
<1>5. CASE PublisherInit
  BY <1>5 DEF PublisherInit, Inv
<1>6. CASE EntryLoaded
  BY <1>6 DEF EntryLoaded, Inv
<1>7. CASE Unload
  BY <1>7 DEF Unload, Inv
<1>8. CASE TasksCancelled
  <2>1. CASE AbandonRun
    <3>1. settled' \in [Outcomes -> SUBSET Nat] /\ chunk' = {} /\ buffer' = <<>>
      BY <2>1, AbandonRunType DEF Inv
    <3>2. publisher' \in PublisherStates /\ previousPing' \in BOOLEAN
      BY <1>8 DEF TasksCancelled, CancelPublisher, Inv
    <3>3. poller' \in {"off", "waiting", "polling", "cancelled"}
      BY <1>8 DEF TasksCancelled, Inv
    <3> QED
      BY <1>8, <3>1, <3>2, <3>3 DEF TasksCancelled, Inv
  <2>2. CASE UNCHANGED <<buffer, chunk, settled>>
    BY <1>8, <2>2 DEF TasksCancelled, CancelPublisher, Inv
  <2> QED
    BY <1>8, <2>1, <2>2 DEF TasksCancelled, CancelPublisher
<1>9. CASE PollStarts
  BY <1>9 DEF PollStarts, Inv
<1>10. ASSUME NEW e \in Entities, PollOne(e)
       PROVE  TypeOK'
  <2>1. CASE UNCHANGED queueVars
    BY <1>10, <2>1 DEF PollOne, Inv
  <2>2. CASE Put(e, states[e])
    <3>1. states[e] \in States
      BY <1>10 DEF PollOne, Inv
    <3>2. queue' \in Seq(Item) /\ accepted' \in Nat
      BY <2>2, <3>1, PutType DEF Inv
    <3> QED
      BY <1>10, <3>2 DEF PollOne, Inv
  <2> QED
    BY <1>10, <2>1, <2>2 DEF PollOne
<1>11. CASE PollEnds
  BY <1>11 DEF PollEnds, Inv
<1>12. CASE RunStarts \/ PingSucceeds \/ PingFails
  BY <1>12 DEF RunStarts, PingSucceeds, PingFails, Inv
<1>24. CASE PingRefused
  <2>1. reloading' \in BOOLEAN
    BY <1>24, ReloadType DEF PingRefused
  <2> QED
    BY <1>24, <2>1 DEF PingRefused, Inv
<1>13. CASE SipDocument
  <2>1. Head(queue) \in Item /\ queue' \in Seq(Item)
    BY <1>13, SipType DEF SipDocument, Inv
  <2>2. buffer' \in Seq(Nat)
    BY <1>13, <2>1 DEF SipDocument, Inv
  <2> QED
    BY <1>13, <2>1, <2>2 DEF SipDocument, Sip, Inv
<1>14. CASE SipSkips
  <2>1. Head(queue) \in Item /\ queue' \in Seq(Item)
    BY <1>14, SipType DEF SipSkips, Inv
  <2>2. settled' \in [Outcomes -> SUBSET Nat]
    BY <1>14, <2>1, SettleType DEF SipSkips, Inv
  <2> QED
    BY <1>14, <2>1, <2>2 DEF SipSkips, Sip, Inv
<1>15. CASE SipBreaks
  <2>1. Head(queue) \in Item /\ queue' \in Seq(Item)
    BY <1>15, SipType DEF SipBreaks, Inv
  <2>2. settled' \in [Outcomes -> SUBSET Nat]
    BY <1>15, <2>1, BufferedType, SettleType DEF SipBreaks, Inv
  <2> QED
    BY <1>15, <2>1, <2>2 DEF SipBreaks, Sip, Inv
<1>16. CASE SendChunk
  BY <1>16 DEF SendChunk, Inv
<1>17. CASE SendRest
  BY <1>17 DEF SendRest, Buffered, Inv
<1>18. CASE RunEnds
  BY <1>18 DEF RunEnds, Inv
<1>19. CASE Respond
  <2>1. /\ chunk' \in SUBSET Nat /\ settled' \in [Outcomes -> SUBSET Nat]
        /\ publisher' \in {"backoff", "waiting", "sipping"} /\ attempt' = attempt
    BY <1>19, RespondType DEF Inv
  <2>2. UNCHANGED <<entryVars, hassVars, gatherVars, queueVars, previousPing,
                    buffer, exhausted>>
    BY <1>19 DEF Respond
  <2> QED
    BY <2>1, <2>2 DEF Inv
<1>20. CASE Resend
  BY <1>20 DEF Resend, Inv
<1>21. CASE RequestFails
  <2>1. settled' \in [Outcomes -> SUBSET Nat] /\ chunk' = {} /\ buffer' = <<>>
    BY <1>21, AbandonRunType DEF RequestFails, Inv
  <2> QED
    BY <1>21, <2>1 DEF RequestFails, Inv
<1>22. CASE RequestRefused
  <2>1. settled' \in [Outcomes -> SUBSET Nat] /\ chunk' = {} /\ buffer' = <<>>
    BY <1>22, AbandonRunType DEF RequestRefused, Inv
  <2>2. reloading' \in BOOLEAN
    BY <1>22, ReloadType DEF RequestRefused
  <2> QED
    BY <1>22, <2>1, <2>2 DEF RequestRefused, Inv
<1>23. CASE UNCHANGED vars
  BY <1>23 DEF vars, Inv
<1> QED
  BY <1>1, <1>2, <1>3, <1>4, <1>5, <1>6, <1>7, <1>8, <1>9, <1>10, <1>11,
     <1>12, <1>13, <1>14, <1>15, <1>16, <1>17, <1>18, <1>19, <1>20, <1>21,
     <1>22, <1>23, <1>24
  DEF Next, Hass, Lifecycle, Poll, CheckConnection, FillChunk, AwaitRequest

\* The phases of a run follow one another as PhasesOK says.
LEMMA PhasesStep ==
    ASSUME Inv, [Next]_vars
    PROVE  PhasesOK'
<1> USE SizesAssumption, StatesAssumption
<1> USE DEF TypeOK, PhasesOK, PublisherStates,
            entryVars, hassVars, gatherVars, queueVars, requestVars, LoopIsFree
<1>1. ASSUME NEW e \in Entities, NEW new \in States, StateWritten(e, new)
      PROVE  PhasesOK'
  BY <1>1 DEF StateWritten, Put, Inv
<1>2. ASSUME NEW e \in Entities, StateRemoved(e)
      PROVE  PhasesOK'
  BY <1>2 DEF StateRemoved, Inv
<1>3. ASSUME NEW e \in Entities, NEW new \in RegistryEntries \cup {None},
             RegistryUpdated(e, new)
      PROVE  PhasesOK'
  BY <1>3 DEF RegistryUpdated, Inv
<1>4. CASE ManagerInit
  BY <1>4 DEF ManagerInit, Inv
<1>5. CASE PublisherInit
  BY <1>5 DEF PublisherInit, Inv
<1>6. CASE EntryLoaded
  BY <1>6 DEF EntryLoaded, Inv
<1>7. CASE Unload
  BY <1>7 DEF Unload, Inv
<1>8. CASE TasksCancelled
  <2>1. toPoll' = {} /\ UNCHANGED <<states, queue, accepted>>
    BY <1>8 DEF TasksCancelled, Inv
  <2>2. /\ buffer' = <<>> /\ chunk' = {}
        /\ publisher' \in {"waiting", "cancelled", "disabled"}
    BY <1>8 DEF TasksCancelled, CancelPublisher, AbandonRun, Inv
  <2> QED
    BY <2>1, <2>2 DEF Inv
<1>9. CASE PollStarts
  BY <1>9 DEF PollStarts, Inv
<1>10. ASSUME NEW e \in Entities, PollOne(e)
       PROVE  PhasesOK'
  BY <1>10 DEF PollOne, Put, Inv
<1>11. CASE PollEnds
  BY <1>11 DEF PollEnds, Inv
<1>12. CASE RunStarts \/ PingSucceeds \/ PingFails \/ PingRefused
  BY <1>12 DEF RunStarts, PingSucceeds, PingFails, PingRefused, Inv
<1>13. CASE SipDocument
  BY <1>13, SipType DEF SipDocument, Sip, Inv
<1>14. CASE SipSkips
  BY <1>14, SipType DEF SipSkips, Sip, Inv
<1>15. CASE SipBreaks
  BY <1>15, SipType DEF SipBreaks, Sip, Inv
<1>16. CASE SendChunk
  BY <1>16 DEF SendChunk, Inv
<1>17. CASE SendRest
  BY <1>17 DEF SendRest, Inv
<1>18. CASE RunEnds
  BY <1>18 DEF RunEnds, Inv
<1>19. CASE Respond
  BY <1>19 DEF Respond, ChunkIsSettled, Inv
<1>20. CASE Resend
  BY <1>20 DEF Resend, Inv
<1>21. CASE RequestFails \/ RequestRefused
  BY <1>21 DEF RequestFails, RequestRefused, AbandonRun, Inv
<1>22. CASE UNCHANGED vars
  BY <1>22 DEF vars, Inv
<1> QED
  BY <1>1, <1>2, <1>3, <1>4, <1>5, <1>6, <1>7, <1>8, <1>9, <1>10, <1>11,
     <1>12, <1>13, <1>14, <1>15, <1>16, <1>17, <1>18, <1>19, <1>20, <1>21,
     <1>22
  DEF Next, Hass, Lifecycle, Poll, CheckConnection, FillChunk, AwaitRequest

-----------------------------------------------------------------------------
\* What a step can do to the events: nothing, or one of the steps below.
deliveryVars == <<queue, accepted, buffer, chunk, settled>>

GatherStep == \E e \in Entities, s \in States :
                 Put(e, s) /\ UNCHANGED <<buffer, chunk, settled>>

AbandonStep == AbandonRun /\ UNCHANGED <<queue, accepted>>

DeliveryStep ==
    \/ GatherStep
    \/ SipDocument \/ SipSkips \/ SipBreaks
    \/ SendChunk \/ SendRest \/ Respond
    \/ AbandonStep

LEMMA DeliverySteps ==
    ASSUME Inv, [Next]_vars
    PROVE  DeliveryStep \/ UNCHANGED deliveryVars
<1> USE DEF DeliveryStep, deliveryVars, queueVars, requestVars
<1>1. ASSUME NEW e \in Entities, NEW new \in States, StateWritten(e, new)
      PROVE  GatherStep \/ UNCHANGED deliveryVars
  BY <1>1 DEF StateWritten, GatherStep
<1>2. ASSUME NEW e \in Entities, PollOne(e)
      PROVE  GatherStep \/ UNCHANGED deliveryVars
  <2>1. states[e] \in States
    BY <1>2 DEF PollOne, Inv, TypeOK, PhasesOK
  <2> QED
    BY <1>2, <2>1 DEF PollOne, GatherStep
<1>3. CASE TasksCancelled
  BY <1>3 DEF TasksCancelled, CancelPublisher, AbandonStep
<1>4. CASE RequestFails \/ RequestRefused
  BY <1>4 DEF RequestFails, RequestRefused, AbandonStep
<1>5. CASE Hass
  BY <1>1, <1>5 DEF Hass, StateRemoved, RegistryUpdated
<1>6. CASE Lifecycle
  BY <1>3, <1>6 DEF Lifecycle, ManagerInit, PublisherInit, EntryLoaded, Unload
<1>7. CASE Poll
  BY <1>2, <1>7 DEF Poll, PollStarts, PollEnds
<1>8. CASE CheckConnection
  BY <1>8 DEF CheckConnection, RunStarts, PingSucceeds, PingFails, PingRefused
<1>9. CASE FillChunk
  BY <1>9 DEF FillChunk, RunEnds
<1>10. CASE AwaitRequest
  BY <1>4, <1>10 DEF AwaitRequest, Resend
<1>11. CASE UNCHANGED vars
  BY <1>11 DEF vars
<1> QED
  BY <1>5, <1>6, <1>7, <1>8, <1>9, <1>10, <1>11 DEF Next

-----------------------------------------------------------------------------
\* The head of the queue is the oldest event that has not been taken.
LEMMA HeadIsNext ==
    ASSUME Inv, Sip
    PROVE  /\ Head(queue).id = Taken + 1
           /\ Taken \in Nat
           /\ Taken' = Taken + 1
<1>1. queue \in Seq(Item) /\ Len(queue) \in Nat \ {0} /\ Head(queue) = queue[1]
  BY DEF Inv, TypeOK, Sip
<1>2. accepted' = accepted /\ Len(queue') = Len(queue) - 1
  BY SipType DEF Sip, Inv
<1>3. accepted \in Nat /\ Len(queue) <= accepted
  BY DEF Inv, TypeOK, PhasesOK
<1>4. queue[1].id = Taken + 1
  BY <1>1 DEF Inv, EventsWaitInOrder
<1> QED
  BY <1>1, <1>2, <1>3, <1>4 DEF Taken

\* The queue holds the events Taken + 1, ..., accepted in this order, and the
\* document order is kept by every step.
LEMMA QueueOrderStep ==
    ASSUME Inv, DeliveryStep \/ UNCHANGED deliveryVars
    PROVE  \A i \in 1..Len(queue') : queue'[i].id = Taken' + i
<1> USE DEF Taken
<1>1. ASSUME NEW e \in Entities, NEW s \in States, Put(e, s)
      PROVE  \A i \in 1..Len(queue') : queue'[i].id = Taken' + i
  BY <1>1 DEF Put, Inv, TypeOK, PhasesOK, EventsWaitInOrder
<1>2. ASSUME Sip
      PROVE  \A i \in 1..Len(queue') : queue'[i].id = Taken' + i
  <2> SUFFICES ASSUME NEW i \in 1..Len(queue')
               PROVE  queue'[i].id = Taken' + i
    OBVIOUS
  <2>1. /\ queue'[i] = queue[i + 1]
        /\ Len(queue') = Len(queue) - 1
        /\ Len(queue) \in Nat
    <3>1. queue \in Seq(Item) /\ TypeOK
      BY DEF Inv, TypeOK
    <3> QED
      BY <1>2, <3>1, SipType
  <2>2. Taken' = Taken + 1 /\ Taken \in Nat
    BY <1>2, HeadIsNext
  <2>3. i + 1 \in 1..Len(queue)
    BY <2>1
  <2>4. queue[i + 1].id = Taken + (i + 1)
    BY <2>3 DEF Inv, EventsWaitInOrder
  <2> HIDE DEF Taken
  <2> QED
    BY <2>1, <2>2, <2>4
<1>3. ASSUME UNCHANGED <<queue, accepted>>
      PROVE  \A i \in 1..Len(queue') : queue'[i].id = Taken' + i
  BY <1>3 DEF Inv, EventsWaitInOrder
<1> QED
  BY <1>1, <1>2, <1>3
  DEF DeliveryStep, deliveryVars, GatherStep, SipDocument, SipSkips, SipBreaks,
      SendChunk, SendRest, Respond, AbandonStep, queueVars

LEMMA TakenBelowAccepted ==
    ASSUME Inv, Sip
    PROVE  /\ Taken < accepted
           /\ Taken' = Taken + 1
           /\ accepted' = accepted
<1>1. queue \in Seq(Item) /\ Len(queue) \in Nat \ {0}
  BY DEF Inv, TypeOK, Sip
<1>2. accepted \in Nat /\ accepted' = accepted
  BY DEF Inv, TypeOK, Sip
<1>3. Taken < accepted
  BY <1>1, <1>2 DEF Taken
<1> QED
  BY <1>2, <1>3, HeadIsNext

LEMMA DocumentOrderStep ==
    ASSUME Inv, DeliveryStep \/ UNCHANGED deliveryVars
    PROVE  /\ \A i, j \in 1..Len(buffer') : i < j => buffer'[i] < buffer'[j]
           /\ \A n \in chunk' \cup settled'["published"] \cup settled'["failed"] :
                \A i \in 1..Len(buffer') : n < buffer'[i]
<1> USE SizesAssumption
<1> DEFINE Sent == chunk \cup settled["published"] \cup settled["failed"]
<1> DEFINE SentNext == chunk' \cup settled'["published"] \cup settled'["failed"]
<1>1. CASE UNCHANGED <<buffer, chunk, settled>>
  BY <1>1 DEF Inv, EventsWaitInOrder
<1>2. CASE buffer' = <<>>
  BY <1>2
<1>3. CASE SipDocument
  <2>1. /\ Sip /\ chunk = {} /\ chunk' = {} /\ buffer \in Seq(Nat)
        /\ settled' = settled
    BY <1>3 DEF SipDocument, Sip, Inv, TypeOK, PhasesOK
  <2>2. Head(queue).id = Taken + 1 /\ Taken \in Nat
    BY <2>1, HeadIsNext
  <2>3. \A i \in 1..Len(buffer) : buffer[i] \in 1..Taken
    BY DEF Inv, EachEventOnce, Held, Buffered
  <2>4. buffer' = Append(buffer, Taken + 1)
    BY <1>3, <2>2 DEF SipDocument
  <2>5. SentNext = Sent /\ Sent \subseteq 1..Taken
    BY <2>1 DEF Inv, EachEventOnce, Outcomes
  <2>6. \A n \in Sent, i \in 1..Len(buffer) : n < buffer[i]
    BY DEF Inv, EventsWaitInOrder
  <2>7. \A i, j \in 1..Len(buffer) : i < j => buffer[i] < buffer[j]
    BY DEF Inv, EventsWaitInOrder
  <2> HIDE DEF Sent, SentNext, Taken
  <2>8. \A n \in SentNext, i \in 1..Len(buffer') : n < buffer'[i]
    BY <2>1, <2>2, <2>4, <2>5, <2>6
  <2>9. \A i, j \in 1..Len(buffer') : i < j => buffer'[i] < buffer'[j]
    <3> SUFFICES ASSUME NEW i \in 1..Len(buffer'), NEW j \in 1..Len(buffer'), i < j
                 PROVE  buffer'[i] < buffer'[j]
      OBVIOUS
    <3>1. i \in 1..Len(buffer) /\ buffer'[i] = buffer[i]
      BY <2>1, <2>4
    <3>2. CASE j \in 1..Len(buffer)
      BY <2>1, <2>4, <2>7, <3>1, <3>2
    <3>3. CASE j = Len(buffer) + 1
      <4>1. buffer'[j] = Taken + 1
        BY <2>1, <2>2, <2>4, <3>3
      <4> QED
        BY <2>2, <2>3, <3>1, <4>1
    <3> QED
      BY <2>1, <2>4, <3>2, <3>3
  <2> QED
    BY <2>8, <2>9 DEF SentNext
<1>4. CASE SendChunk
  <2>1. /\ buffer \in Seq(Nat) /\ Len(buffer) = ChunkSize + 1
        /\ buffer' = <<buffer[ChunkSize + 1]>>
        /\ chunk' = {buffer[i] : i \in 1..ChunkSize}
        /\ settled' = settled
    BY <1>4 DEF SendChunk, Inv, TypeOK, PhasesOK
  <2> QED
    BY <2>1 DEF Inv, EventsWaitInOrder
<1>5. CASE Respond
  <2>1. buffer' = buffer
    BY <1>5 DEF Respond
  <2>2. SentNext \subseteq Sent
    <3>1. PICK ok \in SUBSET chunk, throttled \in SUBSET chunk :
            \E retried \in SUBSET throttled :
                /\ chunk' \subseteq chunk
                /\ settled' = [settled EXCEPT
                                 !["published"] = @ \cup ok,
                                 !["failed"] = @ \cup (chunk \ (ok \cup retried))]
      BY <1>5 DEF Respond, ChunkIsSettled
    <3>2. settled \in [Outcomes -> SUBSET Nat]
      BY DEF Inv, TypeOK
    <3>3. settled'["published"] \subseteq settled["published"] \cup chunk
      BY <3>1, <3>2 DEF Outcomes
    <3>4. settled'["failed"] \subseteq settled["failed"] \cup chunk
      BY <3>1, <3>2 DEF Outcomes
    <3> QED
      BY <3>1, <3>3, <3>4
  <2>3. /\ \A n \in Sent, i \in 1..Len(buffer) : n < buffer[i]
        /\ \A i, j \in 1..Len(buffer) : i < j => buffer[i] < buffer[j]
    BY DEF Inv, EventsWaitInOrder
  <2> QED
    BY <2>1, <2>2, <2>3
<1>6. CASE SipSkips
  <2>1. buffer' = buffer /\ chunk' = chunk
    BY <1>6 DEF SipSkips, Sip
  <2>2. /\ settled'["published"] = settled["published"]
        /\ settled'["failed"] = settled["failed"]
    BY <1>6 DEF SipSkips, Settle, Inv, TypeOK, Outcomes
  <2> QED
    BY <2>1, <2>2 DEF Inv, EventsWaitInOrder
<1> QED
  BY <1>1, <1>2, <1>3, <1>4, <1>5, <1>6
  DEF DeliveryStep, deliveryVars, GatherStep, SipBreaks, SendRest, AbandonStep,
      AbandonRun

\* Every step does to the events what EventDelivery allows.
LEMMA DeliveryRefinement ==
    ASSUME Inv, DeliveryStep \/ UNCHANGED deliveryVars
    PROVE  Delivery!Next \/ UNCHANGED Delivery!vars
<1> USE SizesAssumption DEF Held
<1>1. CASE UNCHANGED deliveryVars
  BY <1>1 DEF deliveryVars, Buffered, Taken, Delivery!vars
<1>2. CASE GatherStep
  <2>1. /\ accepted' = accepted + 1 /\ Taken' = Taken
        /\ Buffered' = Buffered /\ UNCHANGED <<chunk, settled>>
    BY <1>2 DEF GatherStep, Put, Taken, Buffered, Inv, TypeOK
  <2>2. Delivery!Accept
    BY <2>1 DEF Delivery!Accept
  <2> QED
    BY <2>2 DEF Delivery!Next
<1>3. CASE SipDocument
  <2>1. Sip
    BY <1>3 DEF SipDocument
  <2>2. Head(queue).id = Taken + 1 /\ Delivery!Take
    BY <2>1, HeadIsNext, TakenBelowAccepted DEF Delivery!Take, Sip
  <2>3. Taken + 1 \in Nat
    BY <2>1, HeadIsNext
  <2>4. Buffered' = Buffered \cup {Taken + 1}
    BY <1>3, <2>2, <2>3, BufferedAfterAppend DEF SipDocument, Inv, TypeOK
  <2>5. UNCHANGED <<chunk, settled>>
    BY <1>3 DEF SipDocument, Sip
  <2>6. Delivery!TakeAndHold
    BY <2>2, <2>4, <2>5 DEF Delivery!TakeAndHold
  <2> QED
    BY <2>6 DEF Delivery!Next
<1>4. CASE SipSkips
  <2>1. Sip
    BY <1>4 DEF SipSkips
  <2>2. Head(queue).id = Taken + 1 /\ Delivery!Take
    BY <2>1, HeadIsNext, TakenBelowAccepted DEF Delivery!Take, Sip
  <2>3. Held' = Held
    BY <1>4 DEF SipSkips, Sip, Buffered
  <2>4. settled' = [settled EXCEPT !["skipped"] = @ \cup {Taken + 1}]
    BY <1>4, <2>2 DEF SipSkips, Settle
  <2>5. Delivery!TakeAndSkip
    BY <2>2, <2>3, <2>4 DEF Delivery!TakeAndSkip
  <2> QED
    BY <2>5 DEF Delivery!Next
<1>5. CASE SipBreaks
  <2>1. Sip /\ chunk = {} /\ chunk' = {} /\ Buffered' = {}
    BY <1>5 DEF SipBreaks, Sip, Inv, PhasesOK, Buffered
  <2>2. Head(queue).id = Taken + 1 /\ Delivery!Take
    BY <2>1, HeadIsNext, TakenBelowAccepted DEF Delivery!Take, Sip
  <2>3. settled' = [settled EXCEPT !["abandoned"] = @ \cup (Buffered \cup {Taken + 1})]
    BY <1>5, <2>2 DEF SipBreaks, Settle
  <2>4. settled["abandoned"] \cup (Buffered \cup {Taken + 1})
          = settled["abandoned"] \cup (chunk \cup Buffered) \cup {Taken + 1}
    BY <2>1
  <2>5. Delivery!TakeAndAbandon
    BY <2>1, <2>2, <2>3, <2>4 DEF Delivery!TakeAndAbandon
  <2> QED
    BY <2>5 DEF Delivery!Next
<1>6. CASE SendChunk
  <2>1. chunk = {} /\ UNCHANGED <<settled, queue, accepted>>
    BY <1>6 DEF SendChunk, Inv, PhasesOK, queueVars
  <2>2. Buffered = chunk' \cup Buffered'
    BY <1>6, BufferedAfterSendChunk DEF SendChunk, Inv, TypeOK, PhasesOK
  <2> QED
    BY <2>1, <2>2 DEF Taken, Delivery!vars
<1>7. CASE SendRest
  <2>1. /\ chunk = {} /\ chunk' = Buffered /\ Buffered' = {}
        /\ UNCHANGED <<settled, queue, accepted>>
    BY <1>7 DEF SendRest, Inv, PhasesOK, queueVars, Buffered
  <2> QED
    BY <2>1 DEF Taken, Delivery!vars
<1>8. CASE Respond
  <2>1. PICK ok \in SUBSET chunk, throttled \in SUBSET chunk :
           LET retried == IF attempt < MaxRetries THEN throttled ELSE {}
           IN  /\ ok \cap throttled = {}
               /\ IF retried # {} THEN chunk' = retried ELSE chunk' = {}
               /\ settled' = [settled EXCEPT
                                !["published"] = @ \cup ok,
                                !["failed"] = @ \cup (chunk \ (ok \cup retried))]
    BY <1>8 DEF Respond, ChunkIsSettled
  <2> DEFINE retried == IF attempt < MaxRetries THEN throttled ELSE {}
             bad == chunk \ (ok \cup retried)
  <2>2. retried \in SUBSET chunk /\ ok \cap retried = {} /\ chunk' = retried
    BY <2>1
  <2>3. settled' = [settled EXCEPT !["published"] = @ \cup ok,
                                   !["failed"] = @ \cup bad]
    BY <2>1
  <2>4. Buffered' = Buffered /\ Taken' = Taken /\ accepted' = accepted
    BY <1>8 DEF Respond, Buffered, Taken, queueVars
  <2>5. chunk \cap Buffered = {}
    BY DEF Inv, EachEventOnce
  <2> HIDE DEF retried
  <2>6. Held' = Held \ (ok \cup bad) /\ ok \in SUBSET Held /\ bad \in SUBSET Held
    BY <2>2, <2>4, <2>5
  <2>7. ok \cap bad = {}
    BY <2>2
  <2> HIDE DEF bad
  <2>8. Delivery!Answer
    BY <2>3, <2>4, <2>6, <2>7 DEF Delivery!Answer
  <2> QED
    BY <2>8 DEF Delivery!Next
<1>9. CASE AbandonStep
  <2>1. Held' = {} /\ Taken' = Taken /\ accepted' = accepted
    BY <1>9 DEF AbandonStep, AbandonRun, Buffered, Taken
  <2>2. settled' = [settled EXCEPT !["abandoned"] = @ \cup Held]
    BY <1>9 DEF AbandonStep, AbandonRun, Settle
  <2>3. Delivery!Abandon
    BY <2>1, <2>2 DEF Delivery!Abandon
  <2> QED
    BY <2>3 DEF Delivery!Next
<1> QED
  BY <1>1, <1>2, <1>3, <1>4, <1>5, <1>6, <1>7, <1>8, <1>9 DEF DeliveryStep

\* EachEventOnce, of the events 1..t taken, those held and their outcomes.
Accounted(t, h, s) ==
    /\ \A n \in 1..t : n \in h \/ \E o \in Outcomes : n \in s[o]
    /\ h \subseteq 1..t
    /\ \A o \in Outcomes : s[o] \subseteq 1..t
    /\ \A o1, o2 \in Outcomes : o1 # o2 => s[o1] \cap s[o2] = {}
    /\ \A o \in Outcomes : s[o] \cap h = {}

LEMMA AccountedAfterHold ==
    ASSUME NEW t \in Nat, NEW h, NEW s, Accounted(t, h, s)
    PROVE  Accounted(t + 1, h \cup {t + 1}, s)
<1>1. 1..(t + 1) = (1..t) \cup {t + 1} /\ t + 1 \notin 1..t
  OBVIOUS
<1> QED
  BY <1>1 DEF Accounted

\* Moving held events to an outcome, and a new event with them.
LEMMA AccountedAfterSettle ==
    ASSUME NEW t, NEW h, NEW s \in [Outcomes -> SUBSET Nat], NEW o \in Outcomes,
           NEW moved \in SUBSET h, Accounted(t, h, s)
    PROVE  Accounted(t, h \ moved, [s EXCEPT ![o] = @ \cup moved])
<1> DEFINE s2 == [s EXCEPT ![o] = @ \cup moved]
<1>1. s2[o] = s[o] \cup moved
  OBVIOUS
<1>2. \A p \in Outcomes : p # o => s2[p] = s[p]
  OBVIOUS
<1> HIDE DEF s2
<1>3. \A n \in 1..t : n \in h \ moved \/ \E p \in Outcomes : n \in s2[p]
  BY <1>1, <1>2 DEF Accounted
<1>4. \A p \in Outcomes : s2[p] \subseteq 1..t /\ s2[p] \cap (h \ moved) = {}
  BY <1>1, <1>2 DEF Accounted
<1>5. \A p, q \in Outcomes : p # q => s2[p] \cap s2[q] = {}
  BY <1>1, <1>2 DEF Accounted
<1>6. h \ moved \subseteq 1..t
  BY DEF Accounted
<1>7. Accounted(t, h \ moved, s2)
  BY <1>3, <1>4, <1>5, <1>6 DEF Accounted
<1> QED
  BY <1>7 DEF s2

\* A step of EventDelivery keeps every event in exactly one place.
LEMMA EachEventOnceStep ==
    ASSUME Inv, Delivery!Next \/ UNCHANGED Delivery!vars, (chunk \cap Buffered = {})'
    PROVE  EachEventOnce'
<1>1. /\ Taken \in Nat
      /\ settled \in [Outcomes -> SUBSET Nat]
  BY DEF Inv, TypeOK, PhasesOK, Taken
<1>2. Accounted(Taken, Held, settled)
  BY DEF Inv, EachEventOnce, IsSettled, Accounted
<1>3. CASE Taken' = Taken /\ Held' = Held /\ settled' = settled
  <2> QED
    BY <1>2, <1>3 DEF Accounted, EachEventOnce, IsSettled
<1>11. Accounted(Taken + 1, Held \cup {Taken + 1}, settled)
  BY <1>1, <1>2, AccountedAfterHold
<1>4. CASE Delivery!TakeAndHold
  <2>1. Taken' = Taken + 1 /\ Held' = Held \cup {Taken + 1} /\ settled' = settled
    BY <1>4 DEF Delivery!TakeAndHold, Delivery!Take
  <2>2. Accounted(Taken', Held', settled')
    BY <1>11, <2>1
  <2> QED
    BY <2>2 DEF Accounted, EachEventOnce, IsSettled
<1>5. CASE Delivery!TakeAndSkip
  <2>1. /\ Taken' = Taken + 1 /\ Held' = Held
        /\ settled' = [settled EXCEPT !["skipped"] = @ \cup {Taken + 1}]
    BY <1>5 DEF Delivery!TakeAndSkip, Delivery!Take
  <2>2. Held = (Held \cup {Taken + 1}) \ {Taken + 1}
    BY <1>1, <1>2 DEF Accounted
  <2>3. Accounted(Taken + 1, (Held \cup {Taken + 1}) \ {Taken + 1}, settled')
    BY <1>1, <1>11, <2>1, AccountedAfterSettle DEF Outcomes
  <2>4. Accounted(Taken', Held', settled')
    BY <2>1, <2>2, <2>3
  <2> QED
    BY <2>4 DEF Accounted, EachEventOnce, IsSettled
<1>6. CASE Delivery!TakeAndAbandon
  <2>1. /\ Taken' = Taken + 1 /\ Held' = {}
        /\ settled' = [settled EXCEPT !["abandoned"] = @ \cup Held \cup {Taken + 1}]
    BY <1>6 DEF Delivery!TakeAndAbandon, Delivery!Take
  <2> DEFINE moved == Held \cup {Taken + 1}
  <2>2. Accounted(Taken + 1, moved \ moved, [settled EXCEPT !["abandoned"] = @ \cup moved])
    BY <1>1, <1>11, AccountedAfterSettle DEF Outcomes
  <2>3. settled' = [settled EXCEPT !["abandoned"] = @ \cup moved]
    BY <2>1
  <2>4. moved \ moved = {}
    OBVIOUS
  <2>5. Accounted(Taken', Held', settled')
    BY <2>1, <2>2, <2>3, <2>4
  <2> QED
    BY <2>5 DEF Accounted, EachEventOnce, IsSettled
<1>7. CASE Delivery!Answer
  <2>1. PICK ok \in SUBSET Held, bad \in SUBSET Held :
           /\ ok \cap bad = {}
           /\ settled' = [settled EXCEPT !["published"] = @ \cup ok,
                                         !["failed"] = @ \cup bad]
           /\ Held' = Held \ (ok \cup bad)
           /\ Taken' = Taken
    BY <1>7 DEF Delivery!Answer
  <2> DEFINE half == [settled EXCEPT !["published"] = @ \cup ok]
  <2>2. "published" \in Outcomes /\ "failed" \in Outcomes
    BY DEF Outcomes
  <2>3. Accounted(Taken, Held \ ok, half)
    BY <1>1, <1>2, <2>2, AccountedAfterSettle
  <2>4. half \in [Outcomes -> SUBSET Nat]
    <3>1. ok \subseteq Nat
      BY <1>1, <1>2 DEF Accounted
    <3> QED
      BY <1>1, <2>2, <3>1
  <2>5. settled' = [half EXCEPT !["failed"] = @ \cup bad]
    BY <1>1, <2>1 DEF Outcomes
  <2> HIDE DEF half
  <2>6. bad \in SUBSET (Held \ ok) /\ Held' = (Held \ ok) \ bad
    BY <2>1
  <2>7. Accounted(Taken', Held', settled')
    <3>1. Accounted(Taken, (Held \ ok) \ bad, settled')
      BY <2>2, <2>3, <2>4, <2>5, <2>6, AccountedAfterSettle
    <3> QED
      BY <2>1, <2>6, <3>1
  <2> QED
    BY <2>7 DEF Accounted, EachEventOnce, IsSettled
<1>8. CASE Delivery!Abandon
  <2>1. Taken' = Taken /\ Held' = {} /\ settled' = [settled EXCEPT !["abandoned"] = @ \cup Held]
    BY <1>8 DEF Delivery!Abandon
  <2>2. Accounted(Taken, Held \ Held, settled')
    BY <1>1, <1>2, <2>1, AccountedAfterSettle DEF Outcomes
  <2>3. Accounted(Taken', Held', settled')
    BY <2>1, <2>2
  <2> QED
    BY <2>3 DEF Accounted, EachEventOnce, IsSettled
<1>9. CASE Delivery!Accept
  BY <1>3, <1>9 DEF Delivery!Accept
<1>10. CASE UNCHANGED Delivery!vars
  BY <1>3, <1>10 DEF Delivery!vars
<1> QED
  BY <1>4, <1>5, <1>6, <1>7, <1>8, <1>9, <1>10 DEF Delivery!Next

-----------------------------------------------------------------------------
\* The theorems.

LEMMA InitInv == Init => Inv
<1> SUFFICES ASSUME Init
             PROVE  Inv
  OBVIOUS
<1> USE SizesAssumption DEF Init
<1>1. TypeOK
  <2>1. settled \in [Outcomes -> SUBSET Nat]
    OBVIOUS
  <2>2. queue \in Seq(Item) /\ buffer \in Seq(Nat)
    OBVIOUS
  <2>3. /\ states \in [Entities -> States \cup {None}]
        /\ registry \in [Entities -> RegistryEntries \cup {None}]
    OBVIOUS
  <2>4. attempt \in 0..MaxRetries
    OBVIOUS
  <2> QED
    BY <2>1, <2>2, <2>3, <2>4 DEF TypeOK, PublisherStates
<1>2. PhasesOK
  BY DEF PhasesOK
<1>3. EachEventOnce
  BY DEF EachEventOnce, Held, Buffered, Taken, Outcomes
<1>4. EventsWaitInOrder
  BY DEF EventsWaitInOrder, Outcomes
<1> QED
  BY <1>1, <1>2, <1>3, <1>4 DEF Inv

LEMMA NextInv == Inv /\ [Next]_vars => Inv'
<1> SUFFICES ASSUME Inv, [Next]_vars
             PROVE  Inv'
  OBVIOUS
<1>1. TypeOK' /\ PhasesOK'
  BY TypeStep, PhasesStep
<1>2. DeliveryStep \/ UNCHANGED deliveryVars
  BY DeliverySteps
<1>3. EventsWaitInOrder'
  BY <1>2, QueueOrderStep, DocumentOrderStep DEF EventsWaitInOrder
<1>4. (chunk \cap Buffered = {})'
  BY <1>1, <1>3 DEF EventsWaitInOrder, Buffered, TypeOK
<1>5. EachEventOnce'
  BY <1>2, <1>4, DeliveryRefinement, EachEventOnceStep
<1> QED
  BY <1>1, <1>3, <1>5 DEF Inv

LEMMA SpecInv == Spec => []Inv
BY InitInv, NextInv, PTL DEF Spec

\* In every reachable state every variable has its type: nothing that
\* listener, poller, publisher and Home Assistant do to the queue, the buffer,
\* the request or the counters takes them out of shape.
THEOREM TypeCorrect == Spec => []TypeOK
<1>1. Inv => TypeOK
  BY DEF Inv
<1> QED
  BY <1>1, SpecInv, PTL

\* Whatever Manager, the bulk helper and the error handlers of publish do,
\* each accepted event is in exactly one place or has exactly one outcome.
THEOREM EventsAreAccountedFor == Spec => []EachEventOnce
<1>1. Inv => EachEventOnce
  BY DEF Inv
<1> QED
  BY <1>1, SpecInv, PTL

\* OpenSearch answers for no document while an older event still waits for a
\* later request: listener and poller, the helper's chunks and its resends
\* keep the order of acceptance but within one request.
THEOREM OrderIsKept == Spec => []DocumentsInOrder
<1>1. Inv => DocumentsInOrder
  <2> SUFFICES ASSUME Inv,
                      NEW n \in settled["published"] \cup settled["failed"],
                      NEW m \in 1..n
               PROVE  IsSettled(m) \/ m \in chunk
    BY DEF DocumentsInOrder
  <2>1. n \in 1..Taken
    BY DEF Inv, EachEventOnce, Outcomes
  <2>2. Taken \in Int
    BY DEF Inv, TypeOK, Taken
  <2>3. m \in 1..Taken
    BY <2>1, <2>2
  <2>4. m \in Held \/ IsSettled(m)
    BY <2>3 DEF Inv, EachEventOnce
  <2>5. m \notin Buffered
    BY <2>1, <2>2 DEF Inv, TypeOK, EventsWaitInOrder, Buffered
  <2> QED
    BY <2>4, <2>5 DEF Held
<1> QED
  BY <1>1, SpecInv, PTL

\* The pipeline keeps the at-most-once promise of EventDelivery: events are
\* taken in order, none is given back or taken twice, outcomes are final.
THEOREM PipelineImplementsDelivery == Spec => DeliversAtMostOnce
<1>1. Init => Delivery!Init
  <2> SUFFICES ASSUME Init
               PROVE  Delivery!Init
    OBVIOUS
  <2>1. Buffered = {} /\ chunk = {}
    BY DEF Init, Buffered
  <2>2. accepted = 0 /\ settled = [o \in Outcomes |-> {}]
    BY DEF Init
  <2>3. Taken = 0
    <3>1. queue = <<>> /\ accepted = 0
      BY DEF Init
    <3>2. accepted \in Nat /\ Len(queue) = 0
      BY <3>1
    <3>3. accepted - Len(queue) = accepted
      BY <3>2
    <3> QED
      BY <3>1, <3>3 DEF Taken
  <2> QED
    BY <2>1, <2>2, <2>3 DEF Delivery!Init, Held
<1>2. Inv /\ [Next]_vars => [Delivery!Next]_(Delivery!vars)
  <2> SUFFICES ASSUME Inv, [Next]_vars
               PROVE  Delivery!Next \/ UNCHANGED Delivery!vars
    OBVIOUS
  <2> QED
    BY DeliverySteps, DeliveryRefinement
<1> QED
  BY <1>1, <1>2, SpecInv, PTL DEF Spec, DeliversAtMostOnce, Delivery!Spec

-----------------------------------------------------------------------------
\* Outages.

\* A run that takes events off the queue has seen its connection check succeed
\* and OpenSearch not fail a check since.
RunIsConnected ==
    publisher \in {"sipping", "sending", "backoff"} => previousPing

LEMMA RunIsConnectedInit == Init => RunIsConnected
BY DEF Init, RunIsConnected

LEMMA RunIsConnectedStep ==
    ASSUME RunIsConnected, [Next]_vars
    PROVE  RunIsConnected'
<1> USE DEF RunIsConnected
<1>1. CASE Hass
  BY <1>1 DEF Hass, StateWritten, StateRemoved, RegistryUpdated
<1>2. CASE Lifecycle
  BY <1>2 DEF Lifecycle, ManagerInit, PublisherInit, EntryLoaded, Unload,
              TasksCancelled, CancelPublisher
<1>3. CASE Poll
  BY <1>3 DEF Poll, PollStarts, PollOne, PollEnds
<1>4. CASE CheckConnection
  BY <1>4 DEF CheckConnection, RunStarts, PingSucceeds, PingFails, PingRefused
<1>5. CASE FillChunk
  BY <1>5 DEF FillChunk, Sip, SipDocument, SipSkips, SipBreaks, SendChunk,
              SendRest, RunEnds
<1>6. CASE AwaitRequest
  BY <1>6 DEF AwaitRequest, Respond, ChunkIsSettled, Resend, RequestFails,
              RequestRefused
<1>7. CASE UNCHANGED vars
  BY <1>7 DEF vars
<1> QED
  BY <1>1, <1>2, <1>3, <1>4, <1>5, <1>6, <1>7 DEF Next

\* The queue gets shorter in no step but Sip.
LEMMA QueueShrinksBySipping ==
    ASSUME Inv, DeliveryStep \/ UNCHANGED deliveryVars, Len(queue') < Len(queue)
    PROVE  Sip
<1>1. Len(queue) \in Nat
  BY DEF Inv, TypeOK
<1>2. queue' # queue
  BY <1>1
<1>3. ASSUME NEW e \in Entities, NEW s \in States, Put(e, s)
      PROVE  FALSE
  <2>1. Len(queue') = Len(queue) + 1
    BY <1>3 DEF Put, Inv, TypeOK
  <2> QED
    BY <1>1, <2>1
<1> QED
  BY <1>2, <1>3
  DEF DeliveryStep, GatherStep, AbandonStep, SipDocument, SipSkips, SipBreaks,
      SendChunk, SendRest, Respond, deliveryVars, queueVars

\* An outage leaves the queue alone: publish takes an event off it only in a
\* run whose check_connection has returned True.
THEOREM OutagesLeaveTheQueue == Spec => OutagesKeepTheQueue
<1>1. Inv /\ RunIsConnected /\ [Next]_vars
        => [Len(queue') < Len(queue) => publisher = "sipping" /\ previousPing]_vars
  BY DeliverySteps, QueueShrinksBySipping DEF RunIsConnected, Sip
<1>2. Spec => []RunIsConnected
  BY RunIsConnectedInit, RunIsConnectedStep, PTL DEF Spec
<1> QED
  BY <1>1, <1>2, SpecInv, PTL DEF Spec, OutagesKeepTheQueue

-----------------------------------------------------------------------------
\* Unload.

\* async_shutdown has stopped the listener when the unload begins, and HA has
\* cancelled the polling task when it ends.
GatheringIsOver ==
    /\ entry \in {"unloading", "unloaded"} => ~listening
    /\ entry = "unloaded" => poller \notin {"waiting", "polling"}

LEMMA GatheringIsOverInit == Init => GatheringIsOver
BY DEF Init, GatheringIsOver

LEMMA GatheringIsOverStep ==
    ASSUME GatheringIsOver, [Next]_vars
    PROVE  GatheringIsOver'
<1> USE DEF GatheringIsOver, entryVars, gatherVars
<1>1. CASE Hass
  BY <1>1 DEF Hass, StateWritten, StateRemoved, RegistryUpdated
<1>2. CASE Lifecycle
  BY <1>2 DEF Lifecycle, ManagerInit, PublisherInit, EntryLoaded, Unload,
              TasksCancelled, LoopIsFree
<1>3. CASE Poll
  BY <1>3 DEF Poll, PollStarts, PollOne, PollEnds
<1>4. CASE CheckConnection
  BY <1>4 DEF CheckConnection, RunStarts, PingSucceeds, PingFails, PingRefused
<1>5. CASE FillChunk
  BY <1>5 DEF FillChunk, Sip, SipDocument, SipSkips, SipBreaks, SendChunk,
              SendRest, RunEnds
<1>6. CASE AwaitRequest
  BY <1>6 DEF AwaitRequest, Respond, Resend, RequestFails, RequestRefused
<1>7. CASE UNCHANGED vars
  BY <1>7 DEF vars
<1> QED
  BY <1>1, <1>2, <1>3, <1>4, <1>5, <1>6, <1>7 DEF Next

\* Nothing is put on the queue once listener and poller are over.
LEMMA UnloadedAcceptsNothing ==
    ASSUME GatheringIsOver, entry = "unloaded", [Next]_vars
    PROVE  accepted' = accepted
<1>1. ~listening /\ poller \notin {"waiting", "polling"}
  BY DEF GatheringIsOver
<1> USE <1>1 DEF queueVars
<1>2. CASE Hass
  BY <1>2 DEF Hass, StateWritten, StateRemoved, RegistryUpdated
<1>3. CASE Lifecycle
  BY <1>3 DEF Lifecycle, ManagerInit, PublisherInit, EntryLoaded, Unload,
              TasksCancelled
<1>4. CASE Poll
  BY <1>4 DEF Poll, PollStarts, PollOne, PollEnds
<1>5. CASE CheckConnection
  BY <1>5 DEF CheckConnection, RunStarts, PingSucceeds, PingFails, PingRefused
<1>6. CASE FillChunk
  BY <1>6 DEF FillChunk, Sip, SipDocument, SipSkips, SipBreaks, SendChunk,
              SendRest, RunEnds
<1>7. CASE AwaitRequest
  BY <1>7 DEF AwaitRequest, Respond, Resend, RequestFails, RequestRefused
<1>8. CASE UNCHANGED vars
  BY <1>8 DEF vars
<1> QED
  BY <1>2, <1>3, <1>4, <1>5, <1>6, <1>7, <1>8 DEF Next

\* After async_unload_entry neither Listener nor Poller feeds the queue, though
\* a publisher that has swallowed its cancellation may still empty it.
THEOREM UnloadEndsGathering == Spec => NothingGatheredAfterUnload
<1>1. GatheringIsOver /\ [Next]_vars
        => [entry = "unloaded" => accepted' = accepted]_vars
  BY UnloadedAcceptsNothing
<1>2. Spec => []GatheringIsOver
  BY GatheringIsOverInit, GatheringIsOverStep, PTL DEF Spec
<1> QED
  BY <1>1, <1>2, PTL DEF Spec, NothingGatheredAfterUnload
-----------------------------------------------------------------------------
\* Loss.

\* The first k elements of a sequence are at most k.
LEMMA PrefixIsSmall ==
    ASSUME NEW s \in Seq(Nat), NEW k \in Nat, k <= Len(s)
    PROVE  /\ IsFiniteSet({s[i] : i \in 1..k})
           /\ Cardinality({s[i] : i \in 1..k}) <= k
<1> DEFINE T == {s[i] : i \in 1..k}
           f == [i \in 1..k |-> s[i]]
<1>1. f \in Surjection(1..k, T)
  BY DEF Surjection
<1>2. IsFiniteSet(1..k) /\ Cardinality(1..k) = k
  BY FS_Interval
<1> HIDE DEF f, T
<1>3. IsFiniteSet(T) /\ Cardinality(T) <= Cardinality(1..k)
  BY <1>1, <1>2, FS_Surjection
<1> QED
  BY <1>2, <1>3 DEF T

LEMMA BufferedIsSmall ==
    ASSUME Inv
    PROVE  /\ IsFiniteSet(Buffered)
           /\ Cardinality(Buffered) \in Nat
           /\ Cardinality(Buffered) <= Len(buffer)
<1>1. buffer \in Seq(Nat) /\ Len(buffer) \in Nat
  BY DEF Inv, TypeOK
<1> DEFINE k == Len(buffer)
<1>2. k \in Nat /\ k <= Len(buffer)
  BY <1>1
<1>3. Buffered = {buffer[i] : i \in 1..k}
  BY DEF Buffered
<1> HIDE DEF k
<1>4. IsFiniteSet(Buffered) /\ Cardinality(Buffered) <= k
  BY <1>1, <1>2, <1>3, PrefixIsSmall
<1>5. Cardinality(Buffered) \in Nat
  BY <1>4, FS_CardinalityType
<1> QED
  BY <1>4, <1>5 DEF k

\* Smaller than a union: two sets of at most m and n elements.
LEMMA UnionIsSmall ==
    ASSUME NEW S, NEW T, IsFiniteSet(S), IsFiniteSet(T), NEW m \in Nat, NEW n \in Nat,
           Cardinality(S) <= m, Cardinality(T) <= n
    PROVE  IsFiniteSet(S \cup T) /\ Cardinality(S \cup T) <= m + n
<1>1. /\ IsFiniteSet(S \cup T)
      /\ Cardinality(S \cup T) = Cardinality(S) + Cardinality(T) - Cardinality(S \cap T)
  BY FS_Union
<1>2. IsFiniteSet(S \cap T)
  BY FS_Subset
<1>3. Cardinality(S) \in Nat /\ Cardinality(T) \in Nat /\ Cardinality(S \cap T) \in Nat
  BY <1>2, FS_CardinalityType
<1> QED
  BY <1>1, <1>3

\* A request holds no more documents than a chunk.
ChunkFits == IsFiniteSet(chunk) /\ Cardinality(chunk) <= ChunkSize

LEMMA ChunkFitsInit == Init => ChunkFits
BY FS_EmptySet, SizesAssumption DEF Init, ChunkFits

LEMMA ChunkFitsStep ==
    ASSUME Inv, ChunkFits, DeliveryStep \/ UNCHANGED deliveryVars
    PROVE  ChunkFits'
<1> USE SizesAssumption
<1>1. CASE UNCHANGED chunk
  BY <1>1 DEF ChunkFits
<1>2. CASE chunk' = {}
  BY <1>2, FS_EmptySet DEF ChunkFits
<1>3. ASSUME chunk' \subseteq chunk
      PROVE  ChunkFits'
  <2>1. IsFiniteSet(chunk') /\ Cardinality(chunk') <= Cardinality(chunk)
    BY <1>3, FS_Subset DEF ChunkFits
  <2>2. Cardinality(chunk) \in Nat /\ Cardinality(chunk') \in Nat
    BY <2>1, FS_CardinalityType DEF ChunkFits
  <2> QED
    BY <2>1, <2>2 DEF ChunkFits
<1>4. CASE SendChunk
  <2>1. buffer \in Seq(Nat) /\ ChunkSize <= Len(buffer)
    BY <1>4 DEF SendChunk, Inv, TypeOK
  <2>2. chunk' = {buffer[i] : i \in 1..ChunkSize}
    BY <1>4 DEF SendChunk
  <2> QED
    BY <2>1, <2>2, PrefixIsSmall DEF ChunkFits
<1>5. CASE SendRest
  <2>1. chunk' = Buffered /\ Len(buffer) \in 1..ChunkSize
    BY <1>5 DEF SendRest
  <2>2. IsFiniteSet(Buffered) /\ Cardinality(Buffered) \in Nat
        /\ Cardinality(Buffered) <= Len(buffer)
    BY BufferedIsSmall
  <2> QED
    BY <2>1, <2>2 DEF ChunkFits
<1>6. CASE Respond
  <2>1. chunk' \subseteq chunk
    BY <1>6 DEF Respond, ChunkIsSettled
  <2> QED
    BY <1>3, <2>1
<1>7. CASE AbandonStep
  BY <1>2, <1>7 DEF AbandonStep, AbandonRun
<1> QED
  BY <1>1, <1>4, <1>5, <1>6, <1>7
  DEF DeliveryStep, GatherStep, SipDocument, SipSkips, SipBreaks, Sip, deliveryVars

\* What is held when a run ends badly is a chunk and one document.
LEMMA HeldIsSmall ==
    ASSUME Inv, ChunkFits
    PROVE  IsFiniteSet(Held) /\ Cardinality(Held) <= ChunkSize + 1
<1> USE SizesAssumption
<1>1. /\ IsFiniteSet(Buffered)
      /\ Cardinality(Buffered) \in Nat
      /\ Cardinality(Buffered) <= Len(buffer)
      /\ Len(buffer) \in Nat
      /\ Len(buffer) <= ChunkSize + 1
  <2>1. buffer \in Seq(Nat) /\ Len(buffer) <= ChunkSize + 1
    BY DEF Inv, TypeOK, PhasesOK
  <2> QED
    BY <2>1, BufferedIsSmall
<1>2. CASE publisher \in {"sending", "backoff"}
  <2>1. Cardinality(Buffered) <= 1
    BY <1>1, <1>2 DEF Inv, PhasesOK
  <2> QED
    BY <1>1, <2>1, UnionIsSmall DEF Held, ChunkFits
<1>3. CASE publisher \notin {"sending", "backoff"}
  <2>1. Held = Buffered
    BY <1>3 DEF Held, Inv, PhasesOK
  <2>2. Cardinality(Buffered) <= ChunkSize + 1
    BY <1>1
  <2> QED
    BY <1>1, <2>1, <2>2
<1> QED
  BY <1>2, <1>3

Lost == settled'["abandoned"] \ settled["abandoned"]

\* A step loses nothing, what is held, or a document that breaks its chunk.
LEMMA LostBySteps ==
    ASSUME Inv, DeliveryStep \/ UNCHANGED deliveryVars
    PROVE  \/ Lost \subseteq Held
           \/ SipBreaks /\ Lost \subseteq Buffered \cup {Head(queue).id}
<1>1. /\ settled \in [Outcomes -> SUBSET Nat]
      /\ "abandoned" \in Outcomes
  BY DEF Inv, TypeOK, Outcomes
<1> USE DEF Lost
<1>2. CASE UNCHANGED settled
  BY <1>2
<1>3. CASE SipSkips
  BY <1>1, <1>3 DEF SipSkips, Settle
<1>4. CASE SipBreaks
  BY <1>1, <1>4 DEF SipBreaks, Settle
<1>5. CASE Respond
  <2>1. settled'["abandoned"] = settled["abandoned"]
    BY <1>1, <1>5 DEF Respond
  <2> QED
    BY <2>1
<1>6. CASE AbandonStep
  BY <1>1, <1>6 DEF AbandonStep, AbandonRun, Settle, Held
<1> QED
  BY <1>2, <1>3, <1>4, <1>5, <1>6
  DEF DeliveryStep, GatherStep, SipDocument, SendChunk, SendRest, deliveryVars

LEMMA LossOfAStep ==
    ASSUME Inv, ChunkFits, DeliveryStep \/ UNCHANGED deliveryVars
    PROVE  Cardinality(Lost) <= ChunkSize + 1
<1> USE SizesAssumption
<1>1. ASSUME NEW bound, IsFiniteSet(bound), Lost \subseteq bound,
             Cardinality(bound) <= ChunkSize + 1
      PROVE  Cardinality(Lost) <= ChunkSize + 1
  <2>1. IsFiniteSet(Lost) /\ Cardinality(Lost) <= Cardinality(bound)
    BY <1>1, FS_Subset
  <2>2. Cardinality(Lost) \in Nat /\ Cardinality(bound) \in Nat
    BY <1>1, <2>1, FS_CardinalityType
  <2> QED
    BY <1>1, <2>1, <2>2
<1>2. CASE Lost \subseteq Held
  BY <1>1, <1>2, HeldIsSmall
<1>3. CASE SipBreaks /\ Lost \subseteq Buffered \cup {Head(queue).id}
  <2>1. /\ IsFiniteSet(Buffered)
        /\ Cardinality(Buffered) \in Nat
        /\ Cardinality(Buffered) <= Len(buffer)
        /\ Len(buffer) \in Nat
    BY BufferedIsSmall DEF Inv, TypeOK
  <2>2. Len(buffer) <= ChunkSize
    BY <1>3 DEF SipBreaks, Sip
  <2>3. Cardinality(Buffered) <= ChunkSize
    BY <2>1, <2>2
  <2>4. IsFiniteSet({Head(queue).id}) /\ Cardinality({Head(queue).id}) <= 1
    <3> DEFINE n == Head(queue).id
    <3>1. IsFiniteSet({n}) /\ Cardinality({n}) = 1
      BY FS_Singleton, ZenonT(20)
    <3> HIDE DEF n
    <3>2. Cardinality({n}) <= 1
      BY <3>1
    <3> QED
      BY <3>1, <3>2 DEF n
  <2>5. IsFiniteSet(Buffered \cup {Head(queue).id})
        /\ Cardinality(Buffered \cup {Head(queue).id}) <= ChunkSize + 1
    BY <2>1, <2>3, <2>4, UnionIsSmall
  <2> QED
    BY <1>1, <1>3, <2>5
<1> QED
  BY <1>2, <1>3, LostBySteps

\* A failed request, a document that does not serialise or a cancellation costs
\* the events of one chunk and one more, however many are waiting.
THEOREM LossesAreBounded == Spec => LossIsBounded
<1>1. Inv /\ ChunkFits /\ [Next]_vars
        => [Cardinality(settled'["abandoned"] \ settled["abandoned"]) <= ChunkSize + 1]_vars
  BY DeliverySteps, LossOfAStep DEF Lost
<1>2. Inv /\ ChunkFits /\ [Next]_vars => ChunkFits'
  BY DeliverySteps, ChunkFitsStep
<1>3. Spec => []ChunkFits
  BY <1>2, ChunkFitsInit, SpecInv, PTL DEF Spec
<1> QED
  BY <1>1, <1>3, SpecInv, PTL DEF Spec, LossIsBounded
=============================================================================
