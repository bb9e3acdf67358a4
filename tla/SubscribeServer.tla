--------------------------- MODULE SubscribeServer ---------------------------
(***************************************************************************)
(* The driver as a gNMI server of subscriptions (gnmiServerSubscribe.go,   *)
(* gnmiServer.go:277-357): per stream a handler, the goroutine that        *)
(* answers the query, the goroutine that sends, and the queue and the      *)
(* error channel between them.  Spots are shared by all streams.           *)
(*                                                                         *)
(* The events of the providers' resources are left out: they are addressed *)
(* to target "", which the gNMI cache does not hold (serverconfig.go:140), *)
(* so that none ever reaches a queue.  What is queued is the sync marker.  *)
(***************************************************************************)
EXTENDS Naturals, FiniteSets

CONSTANTS
  Stream,           \* subscribe requests of the clients
  MaxSubscriptions  \* defaultMaxSubscriptions

ASSUME StreamAssumption == IsFiniteSet(Stream)
ASSUME MaxSubscriptionsAssumption == MaxSubscriptions \in Nat

VARIABLES
  free,     \* spots of subscribeRPCsem that are not taken
  mode,     \* what a stream asked for, once its request was received
  handler,  \* Subscribe: none, waiting on errChan, or returned
  worker,   \* the goroutine of the query, or the one that closes (ONCE)
  sender,   \* sendStreamingResults
  marked,   \* the sync marker is in the queue
  closed,   \* the queue is closed
  errs,     \* what the handler got from errChan
  client,   \* the client of a stream: open or gone
  synced    \* it was sent the sync response

vars == <<free, mode, handler, worker, sender, marked, closed, errs, client,
          synced>>

-----------------------------------------------------------------------------

\* STREAM with and without UpdatesOnly are told apart.
StreamMode == {"ONCE", "POLL", "STREAM", "UPDATES_ONLY"}
Mode == StreamMode \union {"none", "unrecognized"}

Goroutine == {"none", "running", "done"}

Error == {"query", "send", "context", "nil"}

Init ==
  /\ free = MaxSubscriptions
  /\ mode = [s \in Stream |-> "none"]
  /\ handler = [s \in Stream |-> "none"]
  /\ worker = [s \in Stream |-> "none"]
  /\ sender = [s \in Stream |-> "none"]
  /\ marked = [s \in Stream |-> FALSE]
  /\ closed = [s \in Stream |-> FALSE]
  /\ errs = [s \in Stream |-> {}]
  /\ client = [s \in Stream |-> "open"]
  /\ synced = [s \in Stream |-> FALSE]

-----------------------------------------------------------------------------
(* Plausible mistakes in the actions below.  No specification uses them:   *)
(* they stand in for the action they are named after when the properties   *)
(* are tested (PROJECT.json, "mutants").                                   *)

\* QueryFails, the marker being inserted all the same.
FailureSyncs(s) ==
  /\ mode[s] = "STREAM"
  /\ worker[s] = "running"
  /\ worker' = [worker EXCEPT ![s] = "done"]
  /\ marked' = [marked EXCEPT ![s] = TRUE]
  /\ errs' = [errs EXCEPT ![s] = @ \union {"query"}]
  /\ UNCHANGED <<free, mode, handler, sender, closed, client, synced>>

\* QueryFails, the queue staying open.
FailureLeavesQueue(s) ==
  /\ mode[s] = "STREAM"
  /\ worker[s] = "running"
  /\ worker' = [worker EXCEPT ![s] = "done"]
  /\ errs' = [errs EXCEPT ![s] = @ \union {"query"}]
  /\ UNCHANGED <<free, mode, handler, sender, marked, closed, client, synced>>

\* The release of the spot missing from the end of sendStreamingResults.
EndKeepsSpot(s, e) ==
  /\ sender' = [sender EXCEPT ![s] = "done"]
  /\ errs' = [errs EXCEPT ![s] = @ \union {e}]
  /\ UNCHANGED <<free, mode, handler, worker, marked, closed, client, synced>>

\* ContextDone, the queue being read without the context of the stream.
ContextForgotten(s) == FALSE

\* The spot released where the sender ends and once more by the handler.
EndReleasesTwice(s, e) ==
  /\ sender' = [sender EXCEPT ![s] = "done"]
  /\ errs' = [errs EXCEPT ![s] = @ \union {e}]
  /\ free' = free + 2
  /\ UNCHANGED <<mode, handler, worker, marked, closed, client, synced>>

-----------------------------------------------------------------------------
(* Subscribe, up to where it waits.  A request that cannot be read or      *)
(* names no subscription is refused before it takes a spot.                *)

\* TryAcquire finds no spot.
SubscribeNoSpot(s) ==
  /\ handler[s] = "none"
  /\ client[s] = "open"
  /\ free = 0
  /\ handler' = [handler EXCEPT ![s] = "returned"]
  /\ UNCHANGED <<free, mode, worker, sender, marked, closed, errs, client,
                 synced>>

Acquire(s, m) ==
  /\ handler[s] = "none"
  /\ client[s] = "open"
  /\ free > 0
  /\ free' = free - 1
  /\ mode' = [mode EXCEPT ![s] = m]

Subscribe(s, m) ==
  /\ m \in StreamMode
  /\ Acquire(s, m)
  /\ handler' = [handler EXCEPT ![s] = "waiting"]
  /\ sender' = [sender EXCEPT ![s] = "running"]
  /\ worker' = [worker EXCEPT ![s] =
                  IF m \in {"ONCE", "STREAM"} THEN "running" ELSE "none"]
  /\ marked' = [marked EXCEPT ![s] = m = "UPDATES_ONLY"]
  /\ UNCHANGED <<closed, errs, client, synced>>

\* The spot stays taken.
SubscribeUnrecognized(s) ==
  /\ Acquire(s, "unrecognized")
  /\ handler' = [handler EXCEPT ![s] = "returned"]
  /\ UNCHANGED <<worker, sender, marked, closed, errs, client, synced>>

-----------------------------------------------------------------------------
(* The worker.  errChan has room for three, and at most two goroutines     *)
(* send: no send blocks.                                                   *)

CloseOnce(s) ==
  /\ mode[s] = "ONCE"
  /\ worker[s] = "running"
  /\ worker' = [worker EXCEPT ![s] = "done"]
  /\ closed' = [closed EXCEPT ![s] = TRUE]
  /\ UNCHANGED <<free, mode, handler, sender, marked, errs, client, synced>>

\* handleSubscriptionRequest: the cache holds the target, with nothing in it.
QueryAnswered(s) ==
  /\ mode[s] = "STREAM"
  /\ worker[s] = "running"
  /\ worker' = [worker EXCEPT ![s] = "done"]
  /\ marked' = [marked EXCEPT ![s] = TRUE]
  /\ UNCHANGED <<free, mode, handler, sender, closed, errs, client, synced>>

\* handleSubscriptionRequest: no such target, or a path that is none.
QueryFails(s) ==
  /\ mode[s] = "STREAM"
  /\ worker[s] = "running"
  /\ worker' = [worker EXCEPT ![s] = "done"]
  /\ closed' = [closed EXCEPT ![s] = TRUE]
  /\ errs' = [errs EXCEPT ![s] = @ \union {"query"}]
  /\ UNCHANGED <<free, mode, handler, sender, marked, client, synced>>

-----------------------------------------------------------------------------
(* sendStreamingResults.                                                   *)

\* It returns with an error, or nil, for the handler, and releases the spot.
EndSender(s, e) ==
  /\ sender' = [sender EXCEPT ![s] = "done"]
  /\ errs' = [errs EXCEPT ![s] = @ \union {e}]
  /\ free' = free + 1
  /\ UNCHANGED <<mode, handler, worker, marked, closed, client, synced>>

SendSync(s) ==
  /\ sender[s] = "running"
  /\ marked[s]
  /\ client[s] = "open"
  /\ marked' = [marked EXCEPT ![s] = FALSE]
  /\ synced' = [synced EXCEPT ![s] = TRUE]
  /\ UNCHANGED <<free, mode, handler, worker, sender, closed, errs, client>>

SendFails(s) ==
  /\ sender[s] = "running"
  /\ marked[s]
  /\ client[s] = "gone"
  /\ EndSender(s, "send")

\* What is queued is read before the queue counts as closed.
QueueClosed(s) ==
  /\ sender[s] = "running"
  /\ ~marked[s]
  /\ closed[s]
  /\ EndSender(s, "nil")

ContextDone(s) ==
  /\ sender[s] = "running"
  /\ ~marked[s]
  /\ client[s] = "gone"
  /\ EndSender(s, "context")

-----------------------------------------------------------------------------

ClientLeaves(s) ==
  /\ client[s] = "open"
  /\ client' = [client EXCEPT ![s] = "gone"]
  /\ UNCHANGED <<free, mode, handler, worker, sender, marked, closed, errs,
                 synced>>

Worker(s) == CloseOnce(s) \/ QueryAnswered(s) \/ QueryFails(s)

Sender(s) == SendSync(s) \/ SendFails(s) \/ QueueClosed(s) \/ ContextDone(s)

Next ==
  \E s \in Stream :
    \/ SubscribeNoSpot(s)
    \/ \E m \in StreamMode : Subscribe(s, m)
    \/ SubscribeUnrecognized(s)
    \/ Worker(s)
    \/ Sender(s)
    \/ ClientLeaves(s)

Spec == Init /\ [][Next]_vars

\* Goroutines are scheduled; clients are free to come, stay and leave.
FairSpec ==
  /\ Spec
  /\ \A s \in Stream : WF_vars(Worker(s)) /\ WF_vars(Sender(s))

-----------------------------------------------------------------------------
(* What holds.                                                             *)

TypeOK ==
  /\ free \in 0..MaxSubscriptions
  /\ mode \in [Stream -> Mode]
  /\ handler \in [Stream -> {"none", "waiting", "returned"}]
  /\ worker \in [Stream -> Goroutine]
  /\ sender \in [Stream -> Goroutine]
  /\ marked \in [Stream -> BOOLEAN]
  /\ closed \in [Stream -> BOOLEAN]
  /\ errs \in [Stream -> SUBSET Error]
  /\ client \in [Stream -> {"open", "gone"}]
  /\ synced \in [Stream -> BOOLEAN]

Holders == {s \in Stream : sender[s] = "running" \/ mode[s] = "unrecognized"}

\* Of the ways a stream can end none releases its spot twice, which would
\* make the semaphore panic, and none forgets it, save that of a mode the
\* server does not know, which never gives it back
\* (gnmiServerSubscribe.go:48, 74; gnmiServer.go:318).
SpotsHeld == free + Cardinality(Holders) = MaxSubscriptions

\* A client that is told to be in sync was not refused its query: a failed
\* query closes the queue before any marker gets there
\* (gnmiServer.go:280-311).
SyncedWasAnswered == \A s \in Stream : synced[s] => "query" \notin errs[s]

\* A stream that got a spot is answered or given up: neither a failed query
\* nor a client that left keeps the sender, and the spot, for ever
\* (gnmiServer.go:283, 320-328).
StreamIsAnswered ==
  \A s \in Stream : mode[s] = "STREAM" ~> (synced[s] \/ sender[s] = "done")

\* When its client has left, a stream of any mode stops sending, which frees
\* its spot, also those that nobody queues anything for.
LeavingFreesSpot ==
  \A s \in Stream : client[s] = "gone" ~> sender[s] # "running"

=============================================================================
