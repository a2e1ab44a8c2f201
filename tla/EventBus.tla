------------------------------ MODULE EventBus ------------------------------
(***************************************************************************)
(* The in-memory event bus (src/src/events_bus.py) together with the       *)
(* server-sent-event streams that consume it (/api/events/stream in        *)
(* src/wizard/app.py).  Every stream is one HTTP request: it subscribes,   *)
(* sends a hello packet, then loops over get, with a timeout, and yield.   *)
(* publish, subscribe and unsubscribe run under the bus's lock, so each is *)
(* one step; a stream's generator runs between two yields, and a client    *)
(* that has gone is noticed only where the server writes.                  *)
(*                                                                         *)
(* An event is its number in the order of publication: kind and payload    *)
(* are not looked at.  received, joined and present are what an observer   *)
(* of the clients sees; the server keeps none of them.                     *)
(***************************************************************************)
EXTENDS Naturals, Sequences, FiniteSets

CONSTANTS Streams,    \* requests to the endpoint; each has its own Subscriber
          Capacity,   \* _MAX_QUEUE_SIZE
          MaxEvents   \* bound of the model: events ever published

ASSUME StreamsFinite == IsFiniteSet(Streams)
ASSUME CapacityPositive == Capacity \in Nat \ {0}

VARIABLES
    published,    \* _published_count
    dropped,      \* _dropped_count
    subscribers,  \* _subscribers
    queue,        \* each subscriber's queue
    stage,        \* where each stream's generator stands
    outgoing,     \* the event a generator is yielding, if it is not a ping
    present,      \* the client is still there: its connection takes writes
    received,     \* events that reached the client
    joined        \* events published before the stream subscribed

busVars == <<published, dropped, subscribers, queue, stage, outgoing, present,
             received, joined>>
bus == <<published, dropped, subscribers>>
client == <<present, joined>>

Stage == {"new", "hello", "waiting", "yielding", "closed"}

BusInit ==
    /\ published = 0
    /\ dropped = 0
    /\ subscribers = {}
    /\ queue = [s \in Streams |-> << >>]
    /\ stage = [s \in Streams |-> "new"]
    /\ outgoing = [s \in Streams |-> << >>]
    /\ present = [s \in Streams |-> FALSE]
    /\ received = [s \in Streams |-> << >>]
    /\ joined = [s \in Streams |-> 0]

-----------------------------------------------------------------------------
(* The bus *)

\* put_nowait raises queue.Full.
Full(s) == Len(queue[s]) >= Capacity

Counted(lost) == dropped + Cardinality(lost)

Publish ==
    /\ published < MaxEvents
    /\ published' = published + 1
    /\ LET lost == {s \in subscribers : Full(s)}
       IN  /\ dropped' = Counted(lost)
           /\ queue' = [s \in Streams |-> IF s \in subscribers \ lost
                                          THEN Append(queue[s], published + 1)
                                          ELSE queue[s]]
    /\ UNCHANGED <<subscribers, stage, outgoing, received, client>>

-----------------------------------------------------------------------------
(* A stream *)

\* The request handler subscribes before the response is iterated.
Connect(s) ==
    /\ stage[s] = "new"
    /\ stage' = [stage EXCEPT ![s] = "hello"]
    /\ subscribers' = subscribers \cup {s}
    /\ present' = [present EXCEPT ![s] = TRUE]
    /\ joined' = [joined EXCEPT ![s] = published]
    /\ UNCHANGED <<published, dropped, queue, outgoing, received>>

Leave(s) ==
    /\ present[s]
    /\ present' = [present EXCEPT ![s] = FALSE]
    /\ UNCHANGED <<bus, queue, stage, outgoing, received, joined>>

\* The hello packet is written and the generator enters its loop.
Greet(s) ==
    /\ stage[s] = "hello"
    /\ present[s]
    /\ stage' = [stage EXCEPT ![s] = "waiting"]
    /\ UNCHANGED <<bus, queue, outgoing, received, client>>

\* The client is gone before that: the generator is closed at a yield that its
\* try does not cover, so unsubscribe is not reached.
Abandon(s) ==
    /\ stage[s] = "hello"
    /\ ~ present[s]
    /\ stage' = [stage EXCEPT ![s] = "closed"]
    /\ UNCHANGED <<bus, queue, outgoing, received, client>>

\* Mutant: a queue.LifoQueue.
GetNewest(s) ==
    /\ stage[s] = "waiting"
    /\ queue[s] # << >>
    /\ outgoing' = [outgoing EXCEPT ![s] = <<queue[s][Len(queue[s])]>>]
    /\ queue' = [queue EXCEPT ![s] = SubSeq(@, 1, Len(@) - 1)]
    /\ stage' = [stage EXCEPT ![s] = "yielding"]
    /\ UNCHANGED <<bus, received, client>>

Get(s) ==
    /\ stage[s] = "waiting"
    /\ queue[s] # << >>
    /\ outgoing' = [outgoing EXCEPT ![s] = <<Head(queue[s])>>]
    /\ queue' = [queue EXCEPT ![s] = Tail(@)]
    /\ stage' = [stage EXCEPT ![s] = "yielding"]
    /\ UNCHANGED <<bus, received, client>>

\* Mutant: get without a timeout waits for an event.
NoTimeout(s) == FALSE

TimedOut(s) == stage[s] = "waiting" /\ queue[s] = << >>

\* The timeout of get: a keep-alive comment is yielded.
Ping(s) ==
    /\ TimedOut(s)
    /\ stage' = [stage EXCEPT ![s] = "yielding"]
    /\ UNCHANGED <<bus, queue, outgoing, received, client>>

\* Mutant: the loop ends after its first packet.
Finish == "closed"

Again == "waiting"

\* What was yielded is written, and the generator resumes.
Written(s) ==
    /\ stage[s] = "yielding"
    /\ present[s]
    /\ stage' = [stage EXCEPT ![s] = Again]
    /\ received' = [received EXCEPT ![s] = @ \o outgoing[s]]
    /\ outgoing' = [outgoing EXCEPT ![s] = << >>]
    /\ UNCHANGED <<bus, queue, client>>

\* The write fails: GeneratorExit inside the try, and unsubscribe.
HangUp(s) ==
    /\ stage[s] = "yielding"
    /\ ~ present[s]
    /\ stage' = [stage EXCEPT ![s] = "closed"]
    /\ subscribers' = subscribers \ {s}
    /\ UNCHANGED <<published, dropped, queue, outgoing, received, client>>

Serve(s) == Greet(s) \/ Abandon(s) \/ Get(s) \/ Ping(s) \/ Written(s)
               \/ HangUp(s)

BusNext ==
    \/ Publish
    \/ \E s \in Streams : Connect(s)
    \/ \E s \in Streams : Leave(s)
    \/ \E s \in Streams : Serve(s)

BusSpec == BusInit /\ [][BusNext]_busVars

\* Each open stream has a thread of the server to itself, and get has a
\* timeout: no stream stops for ever at a point where it can go on.  Nothing
\* makes clients come or go, or anybody publish.
Served(s) == WF_busVars(Serve(s))

FairBusSpec == BusSpec /\ \A s \in Streams : Served(s)

-----------------------------------------------------------------------------
(* Properties *)

\* The type invariant; a queue stays within its capacity, and only a generator
\* that is yielding holds an event.
BusTypeOK ==
    /\ published \in Nat
    /\ dropped \in Nat
    /\ subscribers \subseteq Streams
    /\ queue \in [Streams -> Seq(Nat)]
    /\ \A s \in Streams : Len(queue[s]) <= Capacity
    /\ stage \in [Streams -> Stage]
    /\ outgoing \in [Streams -> Seq(Nat)]
    /\ \A s \in Streams : \/ outgoing[s] = << >>
                          \/ /\ Len(outgoing[s]) = 1
                             /\ stage[s] \in {"yielding", "closed"}
    /\ present \in [Streams -> BOOLEAN]
    /\ received \in [Streams -> Seq(Nat)]
    /\ joined \in [Streams -> Nat]

\* All a stream was given so far: delivered, in its generator, and waiting.
Carried(s) == received[s] \o outgoing[s] \o queue[s]

\* A client sees what was published after it subscribed, in the order of
\* publication and nothing twice, whatever was dropped on the way.
InOrder ==
    \A s \in Streams :
        LET c == Carried(s)
        IN  /\ \A i \in 1 .. Len(c) : joined[s] < c[i] /\ c[i] <= published
            /\ \A i, j \in 1 .. Len(c) : i < j => c[i] < c[j]

\* No silent loss: the events a subscriber misses are among those the bus has
\* counted as dropped.
DropsCounted ==
    \A s \in subscribers :
        published - joined[s] <= Len(Carried(s)) + dropped

\* What a client misses of what was published since it subscribed was dropped from
\* its full queue and counted; the rest comes in order.
NoSilentLoss == InOrder /\ DropsCounted

\* A stream whose generator has started and has not ended: it is about to
\* write, or in get.
Running(s) == stage[s] \in {"hello", "waiting", "yielding"}

\* "every connected SSE subscriber receives the event": what was queued for a
\* client arrives, unless the client leaves, however slow the others are.
Delivered ==
    \A s \in Streams, n \in 1 .. MaxEvents :
        (\E i \in 1 .. Len(queue[s]) : queue[s][i] = n)
        ~> \/ \E i \in 1 .. Len(received[s]) : received[s][i] = n
           \/ ~ present[s]

\* A client that leaves an open stream is unsubscribed, even if no event ever
\* comes: the timeout of get makes the server write.
Released ==
    \A s \in Streams :
        (stage[s] \in {"waiting", "yielding"} /\ ~ present[s])
        ~> s \notin subscribers

\* The one way to leak a subscriber: a client that went away before the hello
\* packet.  Every other stream that ended took its subscriber with it, so what
\* the gauge of active subscribers counts too much was never sent an event.
LeakOnlyBeforeHello ==
    \A s \in subscribers :
        stage[s] = "closed" => received[s] = << >> /\ outgoing[s] = << >>
=============================================================================
