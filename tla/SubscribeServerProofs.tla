----------------------- MODULE SubscribeServerProofs -----------------------
(* The streams of the server, for any number of streams and spots.         *)
EXTENDS SubscribeServer, FiniteSetTheorems, TLAPS

\* Everything but the number of free spots, which follows from who has them.
Typed ==
  /\ mode \in [Stream -> Mode]
  /\ handler \in [Stream -> {"none", "waiting", "returned"}]
  /\ worker \in [Stream -> Goroutine]
  /\ sender \in [Stream -> Goroutine]
  /\ marked \in [Stream -> BOOLEAN]
  /\ closed \in [Stream -> BOOLEAN]
  /\ errs \in [Stream -> SUBSET Error]
  /\ client \in [Stream -> {"open", "gone"}]
  /\ synced \in [Stream -> BOOLEAN]

\* Nothing of a stream happens before its handler has taken a spot, and in an
\* unknown mode nothing afterwards.
StreamBegins ==
  \A s \in Stream :
    /\ handler[s] = "none" => /\ mode[s] = "none"
                              /\ sender[s] = "none"
                              /\ ~marked[s] /\ ~synced[s] /\ errs[s] = {}
    /\ mode[s] = "unrecognized" => sender[s] = "none"

\* The query of a stream is answered or refused, once.
QueryOnce ==
  \A s \in Stream :
    /\ worker[s] = "running" /\ mode[s] = "STREAM" => ~marked[s] /\ ~synced[s]
    /\ "query" \in errs[s] => ~marked[s] /\ ~synced[s] /\ worker[s] = "done"

Inv ==
  /\ Typed
  /\ StreamBegins
  /\ QueryOnce
  /\ free \in Nat
  /\ SpotsHeld

-----------------------------------------------------------------------------

LEMMA HoldersFinite ==
  ASSUME NEW H \in SUBSET Stream
  PROVE  IsFiniteSet(H) /\ Cardinality(H) \in Nat
BY StreamAssumption, FS_Subset, FS_CardinalityType

LEMMA InitInv == Init => Inv
<1> SUFFICES ASSUME Init PROVE Inv
  OBVIOUS
<1>1. Typed
  BY DEF Init, Typed, Mode, Goroutine, Error
<1>2. StreamBegins /\ QueryOnce
  BY DEF Init, StreamBegins, QueryOnce
<1>3. Holders = {}
  BY DEF Init, Holders
<1>4. free \in Nat /\ SpotsHeld
  BY <1>3, FS_EmptySet, MaxSubscriptionsAssumption DEF Init, SpotsHeld
<1> QED
  BY <1>1, <1>2, <1>4 DEF Inv

\* Taking a spot makes one stream more a holder of one, and a sender that ends
\* makes it one less.
LEMMA SpotTaken ==
  ASSUME Inv, NEW s \in Stream, NEW m, Acquire(s, m),
         Holders' = Holders \union {s}
  PROVE  free' \in Nat /\ SpotsHeld'
<1>1. s \notin Holders
  BY DEF Inv, StreamBegins, Acquire, Holders
<1>2. Cardinality(Holders \union {s}) = Cardinality(Holders) + 1
  BY <1>1, HoldersFinite, FS_AddElement DEF Holders
<1>3. Cardinality(Holders) \in Nat
  BY HoldersFinite DEF Holders
<1>4. free \in Nat /\ free > 0 /\ free' = free - 1
      /\ free + Cardinality(Holders) = MaxSubscriptions
  BY DEF Acquire, Inv, SpotsHeld
<1> QED
  BY <1>2, <1>3, <1>4 DEF SpotsHeld

LEMMA SpotFreed ==
  ASSUME Inv, NEW s \in Stream, NEW e, EndSender(s, e), sender[s] = "running"
  PROVE  free' \in Nat /\ SpotsHeld'
<1>1. s \in Holders
  BY DEF Holders
<1>2. Holders' = Holders \ {s}
  BY DEF EndSender, Holders, Inv, StreamBegins, Typed
<1>3. Cardinality(Holders \ {s}) = Cardinality(Holders) - 1
  BY <1>1, HoldersFinite, FS_RemoveElement DEF Holders
<1>4. Cardinality(Holders) \in Nat
  BY HoldersFinite DEF Holders
<1>5. free \in Nat /\ free' = free + 1
      /\ free + Cardinality(Holders) = MaxSubscriptions
  BY DEF EndSender, Inv, SpotsHeld
<1> QED
  BY <1>2, <1>3, <1>4, <1>5 DEF SpotsHeld

\* A step that leaves the spots, the modes and the senders alone.
LEMMA SpotsUntouched ==
  ASSUME Inv, UNCHANGED <<free, mode, sender>>
  PROVE  free' \in Nat /\ SpotsHeld'
<1>1. Holders' = Holders
  BY DEF Holders
<1> QED
  BY <1>1 DEF Inv, SpotsHeld

-----------------------------------------------------------------------------

LEMMA NextKeepsInv == Inv /\ [Next]_vars => Inv'
<1> SUFFICES ASSUME Inv, [Next]_vars PROVE Inv'
  OBVIOUS
<1> USE DEF Inv, Typed, StreamBegins, QueryOnce
<1>1. ASSUME NEW s \in Stream, SubscribeNoSpot(s) PROVE Inv'
  BY <1>1, SpotsUntouched DEF SubscribeNoSpot
<1>2. ASSUME NEW s \in Stream, NEW m \in StreamMode, Subscribe(s, m)
      PROVE  Inv'
  <2>1. Holders' = Holders \union {s}
    BY <1>2 DEF Subscribe, Acquire, Holders, StreamMode
  <2>2. free' \in Nat /\ SpotsHeld'
    BY <1>2, <2>1, SpotTaken DEF Subscribe
  <2>3. m # "unrecognized"
    BY DEF StreamMode
  <2>4. Typed'
    BY <1>2 DEF Subscribe, Acquire, Mode, Goroutine
  <2>5. StreamBegins'
    BY <1>2, <2>3 DEF Subscribe, Acquire
  <2>6. QueryOnce'
    BY <1>2 DEF Subscribe, Acquire
  <2> QED
    BY <2>2, <2>4, <2>5, <2>6
<1>3. ASSUME NEW s \in Stream, SubscribeUnrecognized(s) PROVE Inv'
  <2>1. Holders' = Holders \union {s}
    BY <1>3 DEF SubscribeUnrecognized, Acquire, Holders
  <2>2. free' \in Nat /\ SpotsHeld'
    BY <1>3, <2>1, SpotTaken DEF SubscribeUnrecognized
  <2> QED
    BY <1>3, <2>2 DEF SubscribeUnrecognized, Acquire, Mode
<1>4. ASSUME NEW s \in Stream, CloseOnce(s) PROVE Inv'
  BY <1>4, SpotsUntouched DEF CloseOnce, Goroutine
<1>5. ASSUME NEW s \in Stream, QueryAnswered(s) PROVE Inv'
  BY <1>5, SpotsUntouched DEF QueryAnswered, Goroutine
<1>6. ASSUME NEW s \in Stream, QueryFails(s) PROVE Inv'
  BY <1>6, SpotsUntouched DEF QueryFails, Goroutine, Error
<1>7. ASSUME NEW s \in Stream, SendSync(s) PROVE Inv'
  BY <1>7, SpotsUntouched DEF SendSync
<1>8. ASSUME NEW s \in Stream, NEW e \in Error \ {"query"}, EndSender(s, e),
             sender[s] = "running"
      PROVE  Inv'
  <2>1. free' \in Nat /\ SpotsHeld'
    BY <1>8, SpotFreed
  <2> QED
    BY <1>8, <2>1 DEF EndSender, Goroutine
<1>9. ASSUME NEW s \in Stream, ClientLeaves(s) PROVE Inv'
  BY <1>9, SpotsUntouched DEF ClientLeaves
<1>10. CASE UNCHANGED vars
  BY <1>10, SpotsUntouched DEF vars
<1> QED
  <2>1. ASSUME NEW s \in Stream,
               SendFails(s) \/ QueueClosed(s) \/ ContextDone(s)
        PROVE  Inv'
    BY <1>8, <2>1 DEF SendFails, QueueClosed, ContextDone, Error
  <2> QED
    BY <1>1, <1>2, <1>3, <1>4, <1>5, <1>6, <1>7, <1>9, <1>10, <2>1
       DEF Next, Worker, Sender

-----------------------------------------------------------------------------

\* Every variable keeps its type; in particular there are never more spots
\* than the semaphore was made with, so that no release of it panics.
THEOREM StreamsTypeCorrect == Spec => []TypeOK
<1>1. Inv => TypeOK
  <2> SUFFICES ASSUME Inv PROVE free \in 0..MaxSubscriptions
    BY DEF Inv, Typed, TypeOK
  <2>1. Cardinality(Holders) \in Nat
    BY HoldersFinite DEF Holders
  <2> QED
    BY <2>1, MaxSubscriptionsAssumption DEF Inv, SpotsHeld
<1> QED
  BY <1>1, InitInv, NextKeepsInv, PTL DEF Spec

\* Spots are neither lost nor given back twice, save that of an unknown mode,
\* for any number of streams and spots (gnmiServer.go:318).
THEOREM SpotsAreAlwaysHeld == Spec => []SpotsHeld
<1>1. Inv => SpotsHeld
  BY DEF Inv
<1> QED
  BY <1>1, InitInv, NextKeepsInv, PTL DEF Spec

\* No client is told to be in sync whose query was refused
\* (gnmiServer.go:280-311).
THEOREM SyncedAlwaysWasAnswered == Spec => []SyncedWasAnswered
<1>1. Inv => SyncedWasAnswered
  BY DEF Inv, QueryOnce, SyncedWasAnswered
<1> QED
  BY <1>1, InitInv, NextKeepsInv, PTL DEF Spec

=============================================================================
