-------------------------- MODULE EventLoopProofs --------------------------
(***************************************************************************)
(* Proofs about the parts that wait in the event loop for one another's    *)
(* handlers: AsioScheduler, whose handlers are queued, PanelInput, whose   *)
(* interrupts may be lost, and LibrespotClient, whose answers and events   *)
(* overtake one another.                                                   *)
(*                                                                         *)
(* AsioScheduler, for any number of timers, any delays, any clock and any  *)
(* client, late cancels included: every step is one that Scheduler         *)
(* promises.  That the callbacks come in the order of the deadlines rests  *)
(* on the queue being sorted and ahead of all that still wait.             *)
(*                                                                         *)
(* PanelInput, for every set of buttons and LEDs, however often they move  *)
(* and however often the program is started.  None of the invariants is    *)
(* inductive as it stands: that a low line is noticed rests on the low     *)
(* sample that nobody attends to being impossible, and this on a line that *)
(* was high since the last read having been sampled high.                  *)
(*                                                                         *)
(* LibrespotClient, for any tracks and positions, any number of acts and   *)
(* faults: once nothing is on its way any more the picture is what         *)
(* go-librespot plays.  What carries it is that whatever the picture lacks *)
(* is on its way: in an event, in a reply that counts, or in the answer to *)
(* a question still waiting.                                               *)
(***************************************************************************)
EXTENDS AsioScheduler, PanelInput, LibrespotClient, FiniteSetTheorems, SequenceTheorems, TLAPS

----------------------------------------------------------------------------
(* The scheduler.                                                          *)

InReady(id) == \E i \in 1 .. Len(ready) : ready[i] = id

TimersTypes ==
    /\ now \in Nat
    /\ nextId \in 1 .. MaxTimers + 1
    /\ timers \subseteq 1 .. nextId - 1
    /\ due \in [Ids -> Nat]
    /\ ready \in Seq(1 .. nextId - 1)

\* A handler is queued once, when its deadline has passed.
QueuedInTime ==
    /\ \A i, j \in 1 .. Len(ready) : ready[i] = ready[j] => i = j
    /\ \A i \in 1 .. Len(ready) : due[ready[i]] <= now

\* The queue is sorted, and ahead of every timer that still waits.
QueueSorted ==
    /\ \A i, j \in 1 .. Len(ready) : i < j => due[ready[i]] <= due[ready[j]]
    /\ \A i \in 1 .. Len(ready) : \A id \in timers : ~InReady(id) => due[ready[i]] <= due[id]

TimersInv == TimersTypes /\ QueuedInTime /\ QueueSorted

\* What the Scheduler promises, apart from its fairness.
SafePromise == Promised!Init /\ [][Promised!Next]_(Promised!vars)

\* The handlers the reactor queues: each expired timer's, once.
LEMMA QueuedOnce ==
    ASSUME NEW S, IsFiniteSet(S), NEW T, S \subseteq T, NEW order \in SetToSeqs(S)
    PROVE  /\ order \in Seq(T)
           /\ \A i \in 1 .. Len(order) : order[i] \in S
           /\ \A i, j \in 1 .. Len(order) : order[i] = order[j] => i = j
  <1>1. Cardinality(S) \in Nat
    BY FS_CardinalityType
  <1>2. /\ order \in [1 .. Cardinality(S) -> S]
        /\ \A i, j \in 1 .. Cardinality(S) : i # j => order[i] # order[j]
    BY DEF SetToSeqs
  <1>3. order \in [1 .. Cardinality(S) -> T]
    BY <1>2
  <1>4. order \in Seq(T) /\ Len(order) = Cardinality(S)
    BY <1>1, <1>3
  <1> QED
    BY <1>2, <1>4

\* There are finitely many timers.
LEMMA TimersAreFinite ==
    ASSUME NEW n \in Nat, NEW S, S \subseteq 1 .. n PROVE IsFiniteSet(S)
  <1>1. IsFiniteSet(1 .. n)
    BY FS_Interval
  <1> QED
    BY <1>1, FS_Subset

\* Each of the expired timers is among them.
LEMMA EachQueued ==
    ASSUME NEW S, IsFiniteSet(S), NEW order \in SetToSeqs(S), NEW id \in S
    PROVE  \E k \in 1 .. Len(order) : order[k] = id
  <1> DEFINE n == Cardinality(S)
  <1>1. n \in Nat /\ IsFiniteSet(1 .. n) /\ Cardinality(1 .. n) = n
    BY FS_CardinalityType, FS_Interval
  <1>2. /\ order \in [1 .. n -> S] /\ Len(order) = n
        /\ \A i, j \in 1 .. n : i # j => order[i] # order[j]
    BY <1>1 DEF SetToSeqs
  <1>3. order \in Injection(1 .. n, S)
    BY <1>2 DEF Injection, IsInjective
  <1>4. order \in Surjection(1 .. n, S)
    BY <1>1, <1>3, FS_Injection
  <1> QED
    BY <1>2, <1>4 DEF Surjection

\* The queue as Promised sees it.
LEMMA QueueAsSet == ASSUME TimersTypes PROVE \A id : id \in ToSet(ready) <=> InReady(id)
  BY DEF TimersTypes, ToSet, InReady

\* The reactor queues a handler once, in its turn.
LEMMA ReactorKeeps == ASSUME TimersInv, ReactorRuns PROVE TimersInv' /\ UNCHANGED Promised!vars
  <1> USE DEF TimersInv
  <1>1. PICK order \in SetToSeqs(Expired) : InOrder(order) /\ ready' = ready \o order
    BY DEF ReactorRuns
  <1>2. /\ Expired \subseteq timers
        /\ \A id \in Expired : ~InReady(id) /\ due[id] <= now
        /\ \A id \in timers : ~InReady(id) => id \in Expired \/ ~(due[id] <= now)
    BY QueueAsSet DEF Expired, Waiting
  <1>3. IsFiniteSet(Expired)
    <2>1. nextId - 1 \in Nat /\ Expired \subseteq 1 .. nextId - 1
      BY <1>2, TimersAssumption DEF TimersTypes
    <2> QED
      BY <2>1, TimersAreFinite
  <1>4. /\ order \in Seq(1 .. nextId - 1)
        /\ \A i \in 1 .. Len(order) : order[i] \in Expired
        /\ \A i, j \in 1 .. Len(order) : order[i] = order[j] => i = j
    BY <1>2, <1>3, QueuedOnce DEF TimersTypes
  <1>5. \A i, j \in 1 .. Len(order) : i < j => due[order[i]] <= due[order[j]]
    <2>1. DOMAIN order = 1 .. Len(order)
      BY <1>4
    <2> QED
      BY <1>1, <2>1 DEF InOrder
  <1>6. ready \in Seq(1 .. nextId - 1)
    BY DEF TimersTypes
  <1>7. /\ Len(ready) \in Nat /\ Len(order) \in Nat /\ Len(ready') = Len(ready) + Len(order)
        /\ \A i \in 1 .. Len(ready) : ready'[i] = ready[i]
        /\ \A i \in Len(ready) + 1 .. Len(ready') :
              ready'[i] = order[i - Len(ready)] /\ i - Len(ready) \in 1 .. Len(order)
        /\ \A i \in 1 .. Len(order) :
              i + Len(ready) \in 1 .. Len(ready') /\ ready'[i + Len(ready)] = order[i]
    BY <1>1, <1>4, <1>6
  <1>8. /\ now' = now /\ nextId' = nextId /\ timers' = timers /\ due' = due /\ fired' = fired
        /\ ready' \in Seq(1 .. nextId - 1)
    BY <1>1, <1>4, <1>6 DEF ReactorRuns
  <1>9. TimersTypes'
    BY <1>8 DEF TimersTypes
  <1>10. \A i \in 1 .. Len(ready) : InReady(ready[i]) /\ ready[i] \notin Expired
    BY <1>2 DEF InReady
  <1>11. \A i \in Len(ready) + 1 .. Len(ready') : ready'[i] \in Expired
    BY <1>4, <1>7
  <1>12. ASSUME NEW i \in 1 .. Len(ready') PROVE due[ready'[i]] <= now
    <2>1. CASE i <= Len(ready)
      BY <1>7, <2>1 DEF QueuedInTime
    <2>2. CASE i > Len(ready)
      BY <1>2, <1>7, <1>11, <2>2
    <2> QED
      BY <1>7, <2>1, <2>2
  <1>13. ASSUME NEW i \in 1 .. Len(ready'), NEW j \in 1 .. Len(ready'), ready'[i] = ready'[j]
         PROVE  i = j
    <2>1. CASE i <= Len(ready) /\ j <= Len(ready)
      BY <1>7, <1>13, <2>1 DEF QueuedInTime
    <2>2. CASE i > Len(ready) /\ j > Len(ready)
      <3>1. i \in Len(ready) + 1 .. Len(ready') /\ j \in Len(ready) + 1 .. Len(ready')
        BY <1>7, <2>2
      <3>2. order[i - Len(ready)] = order[j - Len(ready)]
        BY <1>7, <1>13, <3>1
      <3>3. i - Len(ready) = j - Len(ready)
        BY <1>4, <1>7, <3>1, <3>2
      <3> QED
        BY <1>7, <3>3
    <2>3. CASE i <= Len(ready) /\ j > Len(ready)
      BY <1>7, <1>10, <1>11, <1>13, <2>3
    <2>4. CASE i > Len(ready) /\ j <= Len(ready)
      BY <1>7, <1>10, <1>11, <1>13, <2>4
    <2> QED
      BY <1>7, <2>1, <2>2, <2>3, <2>4
  <1>14. QueuedInTime'
    BY <1>8, <1>12, <1>13 DEF QueuedInTime
  <1>15. ASSUME NEW i \in 1 .. Len(ready'), NEW j \in 1 .. Len(ready'), i < j
         PROVE  due[ready'[i]] <= due[ready'[j]]
    <2>1. CASE j <= Len(ready)
      BY <1>7, <1>15, <2>1 DEF QueueSorted
    <2>2. CASE i > Len(ready)
      <3>1. i \in Len(ready) + 1 .. Len(ready') /\ j \in Len(ready) + 1 .. Len(ready')
        BY <1>7, <1>15, <2>2
      <3>2. i - Len(ready) < j - Len(ready)
        BY <1>7, <1>15, <3>1
      <3> QED
        BY <1>5, <1>7, <3>1, <3>2
    <2>3. CASE i <= Len(ready) /\ j > Len(ready)
      <3>1. i \in 1 .. Len(ready) /\ j \in Len(ready) + 1 .. Len(ready')
        BY <1>7, <2>3
      <3>2. ready'[j] \in timers /\ ~InReady(ready'[j])
        BY <1>2, <1>11, <3>1
      <3> QED
        BY <1>7, <3>1, <3>2 DEF QueueSorted
    <2> QED
      BY <1>7, <2>1, <2>2, <2>3
  <1>16. ASSUME NEW i \in 1 .. Len(ready'), NEW id \in timers, ~InReady(id)'
         PROVE  due[ready'[i]] <= due[id]
    <2>1. ~InReady(id)
      BY <1>7, <1>16 DEF InReady
    <2>2. id \notin Expired
      <3>1. SUFFICES ASSUME id \in Expired PROVE FALSE
        OBVIOUS
      <3>2. \E k \in 1 .. Len(order) : order[k] = id
        BY <1>3, <3>1, EachQueued
      <3> QED
        BY <1>7, <1>16, <3>2 DEF InReady
    <2>3. ~(due[id] <= now) /\ due[ready'[i]] <= now
      BY <1>2, <1>12, <2>1, <2>2
    <2>4. due[id] \in Nat /\ now \in Nat /\ due[ready'[i]] \in Nat
      BY <1>8, TimersAssumption DEF TimersTypes, Ids
    <2> QED
      BY <2>3, <2>4
  <1>17. QueueSorted'
    BY <1>8, <1>15, <1>16 DEF QueueSorted
  <1>18. ToSet(ready)' \ timers' = ToSet(ready) \ timers
    <2>1. \A id : id \in ToSet(ready)' <=> InReady(id)'
      BY <1>9, <1>8 DEF ToSet, InReady, TimersTypes
    <2>2. ASSUME NEW id, InReady(id)' PROVE InReady(id) \/ id \in timers
      <3>1. PICK i \in 1 .. Len(ready') : ready'[i] = id
        BY <2>2 DEF InReady
      <3>2. CASE i <= Len(ready)
        BY <1>7, <3>1, <3>2 DEF InReady
      <3>3. CASE i > Len(ready)
        BY <1>2, <1>7, <1>11, <3>1, <3>3
      <3> QED
        BY <1>7, <3>2, <3>3
    <2>3. \A id : InReady(id) => InReady(id)'
      BY <1>7 DEF InReady
    <2> QED
      BY <1>8, <2>1, <2>2, <2>3, QueueAsSet
  <1>19. UNCHANGED Promised!vars
    BY <1>8, <1>18 DEF Promised!vars
  <1> QED
    BY <1>9, <1>14, <1>17, <1>19

\* A handler that runs fires its timer: its deadline has passed and comes first.
LEMMA HandlerFires ==
    ASSUME TimersInv, NEW id \in Ids, HandlerRuns(id) PROVE TimersInv' /\ Promised!Fire(id)
  <1> USE DEF TimersInv
  <1>1. /\ ready # <<>> /\ id = Head(ready) /\ ready' = Tail(ready)
        /\ timers' = timers \ {id} /\ fired' = fired \cup {id}
        /\ now' = now /\ nextId' = nextId /\ due' = due
    BY DEF HandlerRuns
  <1>2. /\ ready \in Seq(1 .. nextId - 1) /\ Len(ready) \in Nat /\ Len(ready) > 0
        /\ id = ready[1] /\ Len(ready') = Len(ready) - 1 /\ ready' \in Seq(1 .. nextId - 1)
        /\ \A i \in 1 .. Len(ready') : ready'[i] = ready[i + 1] /\ i + 1 \in 1 .. Len(ready)
    BY <1>1 DEF TimersTypes
  <1>3. TimersTypes'
    BY <1>1, <1>2 DEF TimersTypes
  <1>4. \A other : InReady(other)' <=> InReady(other) /\ other # id
    <2>1. \A i \in 1 .. Len(ready') : ready'[i] # id
      BY <1>2 DEF QueuedInTime
    <2>2. \A i \in 1 .. Len(ready) : i # 1 => i - 1 \in 1 .. Len(ready') /\ ready'[i - 1] = ready[i]
      BY <1>2
    <2> QED
      BY <1>2, <2>1, <2>2 DEF InReady
  <1>5. QueuedInTime'
    <2>1. ASSUME NEW i \in 1 .. Len(ready'), NEW j \in 1 .. Len(ready'), ready'[i] = ready'[j]
          PROVE  i = j
      <3>1. i + 1 \in 1 .. Len(ready) /\ j + 1 \in 1 .. Len(ready) /\ ready[i + 1] = ready[j + 1]
        BY <1>2, <2>1
      <3>2. i + 1 = j + 1
        BY <3>1 DEF QueuedInTime
      <3> QED
        BY <3>2
    <2> QED
      BY <1>1, <1>2, <2>1 DEF QueuedInTime
  <1>6. QueueSorted'
    <2>1. ASSUME NEW i \in 1 .. Len(ready'), NEW j \in 1 .. Len(ready'), i < j
          PROVE  due[ready'[i]] <= due[ready'[j]]
      <3>1. /\ i + 1 \in 1 .. Len(ready) /\ j + 1 \in 1 .. Len(ready) /\ i + 1 < j + 1
            /\ ready'[i] = ready[i + 1] /\ ready'[j] = ready[j + 1]
        BY <1>2, <2>1
      <3> QED
        BY <3>1 DEF QueueSorted
    <2>2. ASSUME NEW i \in 1 .. Len(ready'), NEW other \in timers', ~InReady(other)'
          PROVE  due[ready'[i]] <= due[other]
      BY <1>1, <1>2, <1>4, <2>2 DEF QueueSorted
    <2> QED
      BY <1>1, <2>1, <2>2 DEF QueueSorted
  <1>7. InReady(id) /\ due[id] <= now
    BY <1>2 DEF InReady, QueuedInTime
  <1>8. ASSUME NEW other \in timers PROVE due[id] <= due[other]
    <2>1. CASE ~InReady(other)
      BY <1>2, <2>1 DEF QueueSorted
    <2>2. CASE InReady(other)
      <3>1. PICK j \in 1 .. Len(ready) : ready[j] = other
        BY <2>2 DEF InReady
      <3>2. due[id] \in Nat
        BY <1>2 DEF TimersTypes
      <3> QED
        BY <1>2, <3>1, <3>2 DEF QueueSorted
    <2> QED
      BY <2>1, <2>2
  <1>9. \A other : other \in ToSet(ready)' <=> InReady(other)'
    BY <1>2 DEF ToSet, InReady
  <1>10. ToSet(ready)' \ timers' = (ToSet(ready) \ timers) \ {id}
    BY <1>1, <1>4, <1>9, QueueAsSet
  <1>11. id \in timers \cup (ToSet(ready) \ timers)
    BY <1>7, QueueAsSet
  <1> QED
    BY <1>1, <1>3, <1>5, <1>6, <1>7, <1>8, <1>10, <1>11 DEF Promised!Fire

\* A client's call: the new deadline isn't before any that has passed.
LEMMA CallKeeps == ASSUME TimersInv, ClientCalls PROVE TimersInv' /\ Promised!Next
  <1> USE DEF TimersInv
  <1>1. PICK delay \in Delays : CallAfter(delay)
    BY DEF ClientCalls
  <1>2. /\ nextId \in Ids /\ nextId' = nextId + 1 /\ timers' = timers \cup {nextId}
        /\ due' = [due EXCEPT ![nextId] = now + delay]
        /\ now' = now /\ ready' = ready /\ fired' = fired
    BY <1>1 DEF CallAfter
  <1>3. nextId \in Nat \ {0} /\ nextId <= MaxTimers /\ now \in Nat /\ delay \in Nat
    BY <1>2, TimersAssumption DEF TimersTypes, Ids
  <1>4. /\ nextId' \in 1 .. MaxTimers + 1 /\ timers' \subseteq 1 .. nextId' - 1
        /\ ready \in Seq(1 .. nextId' - 1) /\ due' \in [Ids -> Nat]
        /\ 1 .. nextId' - 1 = (1 .. nextId - 1) \cup {nextId} /\ nextId \notin 1 .. nextId - 1
    <2>1. /\ nextId' \in 1 .. MaxTimers + 1 /\ timers' \subseteq 1 .. nextId' - 1
          /\ 1 .. nextId' - 1 = (1 .. nextId - 1) \cup {nextId} /\ nextId \notin 1 .. nextId - 1
      BY <1>2, <1>3, TimersAssumption DEF TimersTypes
    <2>2. ready \in Seq(1 .. nextId' - 1)
      BY <2>1 DEF TimersTypes
    <2>3. due' \in [Ids -> Nat]
      BY <1>2, <1>3 DEF TimersTypes
    <2> QED
      BY <2>1, <2>2, <2>3
  <1>5. TimersTypes'
    BY <1>2, <1>4 DEF TimersTypes
  <1>6. \A i \in 1 .. Len(ready) : ready[i] \in 1 .. nextId - 1
    BY DEF TimersTypes
  <1>7. /\ \A id \in 1 .. nextId - 1 : due'[id] = due[id] /\ due[id] \in Nat
        /\ due'[nextId] = now + delay
    BY <1>2, <1>3, TimersAssumption DEF TimersTypes, Ids
  <1>8. \A id : InReady(id)' <=> InReady(id)
    BY <1>2 DEF InReady
  <1>9. QueuedInTime'
    BY <1>2, <1>6, <1>7 DEF QueuedInTime
  <1>10. QueueSorted'
    <2>1. \A i, j \in 1 .. Len(ready) : i < j => due'[ready[i]] <= due'[ready[j]]
      BY <1>6, <1>7 DEF QueueSorted
    <2>2. ASSUME NEW i \in 1 .. Len(ready), NEW id \in timers', ~InReady(id)'
          PROVE  due'[ready[i]] <= due'[id]
      <3>1. CASE id = nextId
        BY <1>3, <1>6, <1>7, <3>1 DEF QueuedInTime
      <3>2. CASE id # nextId
        BY <1>2, <1>6, <1>7, <1>8, <2>2, <3>2 DEF QueueSorted, TimersTypes
      <3> QED
        BY <3>1, <3>2
    <2> QED
      BY <1>2, <2>1, <2>2 DEF QueueSorted
  <1>11. ToSet(ready)' \ timers' = ToSet(ready) \ timers
    <2>1. ToSet(ready)' = ToSet(ready)
      BY <1>2 DEF ToSet
    <2>2. nextId \notin ToSet(ready)
      BY <1>4, <1>6, QueueAsSet DEF InReady
    <2> QED
      BY <1>2, <2>1, <2>2
  <1>12. Promised!CallAfter(nextId, delay)
    BY <1>2, <1>4, <1>11 DEF Promised!CallAfter
  <1> QED
    BY <1>2, <1>5, <1>9, <1>10, <1>12 DEF Promised!Next

\* A client's cancel: it comes too late only if the handler is queued.
LEMMA CancelKeeps == ASSUME TimersInv, ClientCancels PROVE TimersInv' /\ Promised!Next
  <1> USE DEF TimersInv
  <1>1. PICK id \in 1 .. nextId - 1 : Cancel(id)
    BY DEF ClientCancels
  <1>2. /\ timers' = timers \ {id} /\ nextId' = nextId /\ now' = now /\ due' = due
        /\ ready' = ready /\ fired' = fired
    BY <1>1 DEF Cancel
  <1>3. ToSet(ready)' = ToSet(ready) /\ \A other : InReady(other)' <=> InReady(other)
    BY <1>2 DEF ToSet, InReady
  <1>4. TimersTypes' /\ QueuedInTime' /\ QueueSorted'
    BY <1>2, <1>3 DEF TimersTypes, QueuedInTime, QueueSorted
  <1>5. id \in Ids
    BY TimersAssumption DEF TimersTypes, Ids
  <1>6. Promised!Cancel(id)
    <2>1. CASE id \in ToSet(ready) /\ id \in timers
      <3>1. due[id] <= now
        BY <2>1, QueueAsSet DEF InReady, QueuedInTime
      <3>2. ToSet(ready)' \ timers' = (ToSet(ready) \ timers) \cup {id}
        BY <1>2, <1>3, <2>1
      <3> QED
        BY <1>2, <2>1, <3>1, <3>2 DEF Promised!Cancel
    <2>2. CASE ~(id \in ToSet(ready) /\ id \in timers)
      <3>1. ToSet(ready)' \ timers' = ToSet(ready) \ timers
        BY <1>2, <1>3, <2>2
      <3> QED
        BY <1>2, <3>1 DEF Promised!Cancel
    <2> QED
      BY <2>1, <2>2
  <1> QED
    BY <1>4, <1>5, <1>6 DEF Promised!Next

\* Time goes on.
LEMMA TickKeepsTimers == ASSUME TimersInv, Tick PROVE TimersInv' /\ Promised!Next
  <1>1. /\ now' = now + 1 /\ nextId' = nextId /\ timers' = timers /\ due' = due
        /\ ready' = ready /\ fired' = fired
    BY DEF Tick
  <1>2. ToSet(ready)' = ToSet(ready) /\ \A id : InReady(id)' <=> InReady(id)
    BY <1>1 DEF ToSet, InReady
  <1>3. now \in Nat /\ \A i \in 1 .. Len(ready) : due[ready[i]] \in Nat
    BY TimersAssumption DEF TimersInv, TimersTypes, Ids
  <1>4. QueuedInTime'
    BY <1>1, <1>3 DEF TimersInv, QueuedInTime
  <1>5. TimersTypes' /\ QueueSorted'
    BY <1>1, <1>2 DEF TimersInv, TimersTypes, QueueSorted
  <1>6. Promised!Tick
    BY <1>1, <1>2 DEF Promised!Tick
  <1> QED
    BY <1>4, <1>5, <1>6 DEF TimersInv, Promised!Next

\* Every client, one that cancels late included, gets what Scheduler promises: a
\* callback runs at most once, never before its delay is over, in the order of the
\* deadlines, and after a cancel only if the deadline had passed by then
\* (asio_scheduler.hpp:31-44).
THEOREM NoneFiresTwice == Spec => SafePromise
  <1>1. Init => TimersInv /\ Promised!Init
    <2> SUFFICES ASSUME Init PROVE TimersInv /\ Promised!Init
      OBVIOUS
    <2>1. /\ now = 0 /\ nextId = 1 /\ timers = {} /\ ready = <<>> /\ fired = {}
          /\ due = [id \in Ids |-> 0]
      BY DEF Init
    <2>2. TimersInv
      BY <2>1, TimersAssumption DEF TimersInv, TimersTypes, QueuedInTime, QueueSorted
    <2>3. ToSet(ready) \ timers = {} /\ 1 .. nextId - 1 = {}
      BY <2>1 DEF ToSet
    <2> QED
      BY <2>1, <2>2, <2>3 DEF Promised!Init
  <1>2. TimersInv /\ [Next]_timerVars => TimersInv' /\ [Promised!Next]_(Promised!vars)
    <2> SUFFICES ASSUME TimersInv, [Next]_timerVars
                 PROVE  TimersInv' /\ [Promised!Next]_(Promised!vars)
      OBVIOUS
    <2>1. CASE ClientCalls
      BY <2>1, CallKeeps
    <2>2. CASE ClientCancels
      BY <2>2, CancelKeeps
    <2>3. CASE ReactorRuns
      BY <2>3, ReactorKeeps
    <2>4. CASE \E id \in Ids : HandlerRuns(id)
      BY <2>4, HandlerFires DEF Promised!Next
    <2>5. CASE Tick
      BY <2>5, TickKeepsTimers
    <2>6. CASE UNCHANGED timerVars
      <3>1. /\ now' = now /\ nextId' = nextId /\ timers' = timers /\ due' = due
            /\ ready' = ready /\ fired' = fired
        BY <2>6 DEF timerVars
      <3>2. ToSet(ready)' = ToSet(ready) /\ \A id : InReady(id)' <=> InReady(id)
        BY <3>1 DEF ToSet, InReady
      <3> QED
        BY <3>1, <3>2 DEF TimersInv, TimersTypes, QueuedInTime, QueueSorted, Promised!vars
    <2> QED
      BY <2>1, <2>2, <2>3, <2>4, <2>5, <2>6 DEF Next
  <1> QED
    BY <1>1, <1>2, PTL DEF Spec, SafePromise

----------------------------------------------------------------------------
(* The front panel.                                                        *)

PanelCounts == alerts \in Nat /\ settles \in Nat

PanelTypes ==
    /\ down \subseteq PanelButtons /\ pressed \subseteq PanelButtons
    /\ interrupts \in BOOLEAN /\ line \in BOOLEAN
    /\ sampled \in BOOLEAN /\ sampledSince \in BOOLEAN
    /\ debounce \in BOOLEAN /\ checking \in BOOLEAN
    /\ phase \in {"ended", "opened", "listening", "running"}

\* Somebody is going to read the port, or to look at the line.
Attended ==
    phase \in {"opened", "listening"} \/ alerts > 0 \/ debounce \/ settles > 0 \/ checking

\* While the program runs, the line's last sample was low only if that is being attended to.
LowSampleAttended == phase # "ended" /\ sampled => Attended

\* Once sampled since the last read, a line that is high was sampled high.
HighIsSampled == sampledSince /\ ~line => ~sampled

\* The constructor told the chip to report changes, looks at the line only after
\* there was a sample, and is over before the event loop runs.
Configured ==
    /\ phase # "ended" => interrupts
    /\ checking => phase = "running"
    /\ phase = "listening" => sampledSince

PanelInv ==
    /\ PanelCounts /\ PanelTypes /\ LowSampleAttended /\ HighIsSampled /\ Configured
    /\ MovesAreNoticed /\ LedsAsSet

----------------------------------------------------------------------------
\* Before the program starts there is nothing to notice.
LEMMA PanelInitEstablishes == PanelInit => PanelInv
  <1> SUFFICES ASSUME PanelInit PROVE PanelInv
    OBVIOUS
  <1> USE DEF PanelInit
  <1>1. PanelCounts /\ PanelTypes
    BY DEF PanelCounts, PanelTypes
  <1>2. LowSampleAttended /\ HighIsSampled /\ Configured
    BY DEF LowSampleAttended, HighIsSampled, Configured
  <1>3. MovesAreNoticed /\ LedsAsSet
    BY DEF MovesAreNoticed, LedsAsSet
  <1> QED
    BY <1>1, <1>2, <1>3 DEF PanelInv

\* Every step keeps it.
LEMMA PanelStepKeeps == PanelInv /\ [PanelNext]_panelVars => PanelInv'
  <1> SUFFICES ASSUME PanelInv, [PanelNext]_panelVars PROVE PanelInv'
    OBVIOUS
  <1> USE DEF PanelInv, PanelCounts, PanelTypes
  <1>1. CASE UNCHANGED panelVars
    BY <1>1 DEF panelVars, chipVars, loopVars, LowSampleAttended, Attended, HighIsSampled,
                Configured, MovesAreNoticed, LedsAsSet
  <1>2. ASSUME NEW button \in PanelButtons, ButtonMoves(button) PROVE PanelInv'
    <2>0. PanelCounts'
      BY <1>2 DEF ButtonMoves, loopVars
    <2>1. PanelTypes'
      BY <1>2 DEF ButtonMoves, loopVars
    <2>2. LowSampleAttended'
      BY <1>2 DEF ButtonMoves, loopVars, LowSampleAttended, Attended, HighIsSampled, Configured
    <2>3. HighIsSampled' /\ Configured'
      BY <1>2 DEF ButtonMoves, loopVars, HighIsSampled, Configured
    <2>4. MovesAreNoticed' /\ LedsAsSet'
      BY <1>2 DEF ButtonMoves, loopVars, MovesAreNoticed, LedsAsSet, Configured
    <2> QED
      BY <2>0, <2>1, <2>2, <2>3, <2>4
  <1>3. CASE Samples
    <2>0. PanelCounts'
      BY <1>3 DEF Samples
    <2>1. PanelTypes'
      BY <1>3 DEF Samples
    <2>2. LowSampleAttended'
      BY <1>3 DEF Samples, LowSampleAttended, Attended, HighIsSampled, Configured
    <2>3. HighIsSampled' /\ Configured'
      BY <1>3 DEF Samples, HighIsSampled, Configured
    <2>4. MovesAreNoticed' /\ LedsAsSet'
      BY <1>3 DEF Samples, MovesAreNoticed, LedsAsSet, Configured
    <2> QED
      BY <2>0, <2>1, <2>2, <2>3, <2>4
  <1>4. CASE Opens
    <2>0. PanelCounts'
      BY <1>4 DEF Opens, ConfiguresLeds, ReadPort
    <2>1. PanelTypes'
      BY <1>4 DEF Opens, ConfiguresLeds, ReadPort
    <2>2. LowSampleAttended'
      BY <1>4 DEF Opens, ConfiguresLeds, ReadPort, LowSampleAttended, Attended, HighIsSampled, Configured
    <2>3. HighIsSampled' /\ Configured'
      BY <1>4 DEF Opens, ConfiguresLeds, ReadPort, HighIsSampled, Configured
    <2>4. MovesAreNoticed' /\ LedsAsSet'
      BY <1>4 DEF Opens, ConfiguresLeds, ReadPort, MovesAreNoticed, LedsAsSet, Configured
    <2> QED
      BY <2>0, <2>1, <2>2, <2>3, <2>4
  <1>5. CASE OpenFails
    <2>0. PanelCounts'
      BY <1>5 DEF OpenFails, loopVars
    <2>1. PanelTypes'
      BY <1>5 DEF OpenFails, loopVars
    <2>2. LowSampleAttended'
      BY <1>5 DEF OpenFails, loopVars, LowSampleAttended, Attended, HighIsSampled, Configured
    <2>3. HighIsSampled' /\ Configured'
      BY <1>5 DEF OpenFails, loopVars, HighIsSampled, Configured
    <2>4. MovesAreNoticed' /\ LedsAsSet'
      BY <1>5 DEF OpenFails, loopVars, MovesAreNoticed, LedsAsSet, Configured
    <2> QED
      BY <2>0, <2>1, <2>2, <2>3, <2>4
  <1>6. CASE Listens
    <2>0. PanelCounts'
      BY <1>6 DEF Listens, chipVars, loopVars
    <2>1. PanelTypes'
      BY <1>6 DEF Listens, chipVars, loopVars
    <2>2. LowSampleAttended'
      BY <1>6 DEF Listens, chipVars, loopVars, LowSampleAttended, Attended, HighIsSampled, Configured
    <2>3. HighIsSampled' /\ Configured'
      BY <1>6 DEF Listens, chipVars, loopVars, HighIsSampled, Configured
    <2>4. MovesAreNoticed' /\ LedsAsSet'
      BY <1>6 DEF Listens, chipVars, loopVars, MovesAreNoticed, LedsAsSet, Configured
    <2> QED
      BY <2>0, <2>1, <2>2, <2>3, <2>4
  <1>7. CASE Looks
    <2>0. PanelCounts'
      BY <1>7 DEF Looks, chipVars
    <2>1. PanelTypes'
      BY <1>7 DEF Looks, chipVars
    <2>2. LowSampleAttended'
      BY <1>7 DEF Looks, chipVars, LowSampleAttended, Attended, HighIsSampled, Configured
    <2>3. HighIsSampled' /\ Configured'
      BY <1>7 DEF Looks, chipVars, HighIsSampled, Configured
    <2>4. MovesAreNoticed' /\ LedsAsSet'
      BY <1>7 DEF Looks, chipVars, MovesAreNoticed, LedsAsSet, Configured
    <2> QED
      BY <2>0, <2>1, <2>2, <2>3, <2>4
  <1>8. CASE Ends
    <2>0. PanelCounts'
      BY <1>8 DEF Ends
    <2>1. PanelTypes'
      BY <1>8 DEF Ends
    <2>2. LowSampleAttended'
      BY <1>8 DEF Ends, LowSampleAttended, Attended, HighIsSampled, Configured
    <2>3. HighIsSampled' /\ Configured'
      BY <1>8 DEF Ends, HighIsSampled, Configured
    <2>4. MovesAreNoticed' /\ LedsAsSet'
      BY <1>8 DEF Ends, MovesAreNoticed, LedsAsSet, Configured
    <2> QED
      BY <2>0, <2>1, <2>2, <2>3, <2>4
  <1>9. CASE AlertHandled
    <2>0. PanelCounts'
      BY <1>9 DEF AlertHandled, Idle, OnInputsChanged, ReadPort
    <2>1. PanelTypes'
      BY <1>9 DEF AlertHandled, Idle, OnInputsChanged, ReadPort
    <2>2. LowSampleAttended'
      BY <1>9 DEF AlertHandled, Idle, OnInputsChanged, ReadPort, LowSampleAttended, Attended, HighIsSampled, Configured
    <2>3. HighIsSampled' /\ Configured'
      BY <1>9 DEF AlertHandled, Idle, OnInputsChanged, ReadPort, HighIsSampled, Configured
    <2>4. MovesAreNoticed' /\ LedsAsSet'
      BY <1>9 DEF AlertHandled, Idle, OnInputsChanged, ReadPort, MovesAreNoticed, LedsAsSet, Configured
    <2> QED
      BY <2>0, <2>1, <2>2, <2>3, <2>4
  <1>10. CASE DebounceExpires
    <2>0. PanelCounts'
      BY <1>10 DEF DebounceExpires, chipVars
    <2>1. PanelTypes'
      BY <1>10 DEF DebounceExpires, chipVars
    <2>2. LowSampleAttended'
      BY <1>10 DEF DebounceExpires, chipVars, LowSampleAttended, Attended, HighIsSampled, Configured
    <2>3. HighIsSampled' /\ Configured'
      BY <1>10 DEF DebounceExpires, chipVars, HighIsSampled, Configured
    <2>4. MovesAreNoticed' /\ LedsAsSet'
      BY <1>10 DEF DebounceExpires, chipVars, MovesAreNoticed, LedsAsSet, Configured
    <2> QED
      BY <2>0, <2>1, <2>2, <2>3, <2>4
  <1>11. CASE SettledRead
    <2>0. PanelCounts'
      BY <1>11 DEF SettledRead, Idle, ReadPort
    <2>1. PanelTypes'
      BY <1>11 DEF SettledRead, Idle, ReadPort
    <2>2. LowSampleAttended'
      BY <1>11 DEF SettledRead, Idle, ReadPort, LowSampleAttended, Attended, HighIsSampled, Configured
    <2>3. HighIsSampled' /\ Configured'
      BY <1>11 DEF SettledRead, Idle, ReadPort, HighIsSampled, Configured
    <2>4. MovesAreNoticed' /\ LedsAsSet'
      BY <1>11 DEF SettledRead, Idle, ReadPort, MovesAreNoticed, LedsAsSet, Configured
    <2> QED
      BY <2>0, <2>1, <2>2, <2>3, <2>4
  <1>12. CASE LineChecked
    <2>0. PanelCounts'
      BY <1>12 DEF LineChecked, OnInputsChanged, ReadPort
    <2>1. PanelTypes'
      BY <1>12 DEF LineChecked, OnInputsChanged, ReadPort
    <2>2. LowSampleAttended'
      BY <1>12 DEF LineChecked, OnInputsChanged, ReadPort, LowSampleAttended, Attended, HighIsSampled, Configured
    <2>3. HighIsSampled' /\ Configured'
      BY <1>12 DEF LineChecked, OnInputsChanged, ReadPort, HighIsSampled, Configured
    <2>4. MovesAreNoticed' /\ LedsAsSet'
      BY <1>12 DEF LineChecked, OnInputsChanged, ReadPort, MovesAreNoticed, LedsAsSet, Configured
    <2> QED
      BY <2>0, <2>1, <2>2, <2>3, <2>4
  <1>13. ASSUME NEW led \in Leds, NEW on \in BOOLEAN, SetLed(led, on) PROVE PanelInv'
    <2>0. PanelCounts'
      BY <1>13 DEF SetLed, loopVars
    <2>1. PanelTypes'
      BY <1>13 DEF SetLed, loopVars
    <2>2. LowSampleAttended'
      BY <1>13 DEF SetLed, loopVars, LowSampleAttended, Attended, HighIsSampled, Configured
    <2>3. HighIsSampled' /\ Configured'
      <3>1. UNCHANGED <<interrupts, line, sampled, sampledSince, phase, checking>>
        BY <1>13 DEF SetLed, loopVars
      <3> QED
        BY <3>1 DEF HighIsSampled, Configured
    <2>4. MovesAreNoticed' /\ LedsAsSet'
      BY <1>13 DEF SetLed, loopVars, MovesAreNoticed, LedsAsSet, Configured
    <2> QED
      BY <2>0, <2>1, <2>2, <2>3, <2>4
  <1> QED
    BY <1>1, <1>2, <1>3, <1>4, <1>5, <1>6, <1>7, <1>8, <1>9, <1>10, <1>11, <1>12, <1>13 DEF PanelNext

\* The inductive invariant holds throughout.
THEOREM PanelInductive == PanelSpec => []PanelInv
  BY PanelInitEstablishes, PanelStepKeeps, PTL DEF PanelSpec

\* A low interrupt line is noticed, so the buttons never go dead.
THEOREM LowLineNoticed == PanelSpec => []LowLineIsNoticed
  <1>1. PanelInv => LowLineIsNoticed
    BY DEF PanelInv, LowSampleAttended, Attended, LowLineIsNoticed
  <1> QED
    BY <1>1, PanelInductive, PTL

\* While what was reported of the buttons is behind, the port is going to be read.
THEOREM MovesNoticed == PanelSpec => []MovesAreNoticed
  <1>1. PanelInv => MovesAreNoticed
    BY DEF PanelInv
  <1> QED
    BY <1>1, PanelInductive, PTL

\* The LEDs never shine because an earlier run of the program left them lit.
THEOREM LedsFollow == PanelSpec => []LedsAsSet
  <1>1. PanelInv => LedsAsSet
    BY DEF PanelInv
  <1> QED
    BY <1>1, PanelInductive, PTL

----------------------------------------------------------------------------
(* The client of go-librespot.                                             *)

\* What go-librespot can be.
Librespots ==
    {l \in [running : BOOLEAN, session : {"none", "playing", "paused"}, modes : SUBSET ModeNames,
            track : Tracks \cup {NoTrack}, position : Positions] :
        /\ l.session = "none" => l.track = NoTrack
        /\ l.track = NoTrack => l.position = 0
        /\ ~l.running => l.session = "none"}

\* The picture, and what passes between the client and go-librespot.
Pictures == [active : BOOLEAN, playing : BOOLEAN, modes : SUBSET ModeNames,
             track : Tracks \cup {NoTrack}, position : Positions]

EventTypes ==
    [type : {"active", "inactive", "playing", "paused"}]
    \cup [type : {"mode"}, mode : ModeNames, on : BOOLEAN]
    \cup [type : {"metadata"}, track : Tracks, position : Positions]
    \cup [type : {"seek"}, position : Positions]

RequestTypes ==
    [ask : {"status", "modes", "skip"}] \cup [ask : {"set"}, mode : ModeNames, on : BOOLEAN]

ReplyTypes ==
    {r \in [ask : {"status", "modes"}, status : {0, 200, 204}, answer : Librespots,
            before : Nat, overtaken : BOOLEAN] :
        r.status = 204 => r.answer.session = "none"}

\* The types of it all.
LibTypeOK ==
    /\ connected \in BOOLEAN /\ link \in {"down", "up", "gone"}
    /\ requests \in Seq(RequestTypes) /\ replies \in Seq(ReplyTypes) /\ events \in Seq(EventTypes)
    /\ picture \in Pictures
    /\ librespot \in Librespots
    /\ stale \subseteq {"session", "track", "modes"}
    /\ acts \in Nat /\ faults \in Nat

\* The connection: nothing to read without one, and no track told; somebody at its
\* other end.
Linked ==
    /\ link = "down" => events = <<>> /\ ~connected
    /\ link = "down" =>
          "track" \in stale \/ (picture.track = NoTrack /\ picture.position = 0)
    /\ link = "up" => librespot.running
    /\ \A i \in 1 .. Len(replies) :
          ~replies[i].overtaken => replies[i].before <= Len(events)

\* A question of one of the kinds asked, not answered yet when the reply at i is
\* handled.
AskedAfter(waiting, answered, i, asks) ==
    \/ \E j \in 1 .. Len(waiting) : waiting[j].ask \in asks
    \/ \E j \in 1 .. Len(answered) : j > i /\ answered[j].ask \in asks

\* A reply with what was asked for, as it was when its first events had happened.
Counts(reply, asks) == reply.ask \in asks /\ ~reply.overtaken /\ reply.status # 0

\* The session, field by field: in the picture, and in go-librespot.
Fields == {"active", "playing", "track", "position"}
TrackFields == {"track", "position"}
Item(f) == IF f \in TrackFields THEN "track" ELSE "session"
Shown(p, f) ==
    CASE f = "active" -> p.active [] f = "playing" -> p.playing
      [] f = "track" -> p.track [] f = "position" -> p.position
Truth(l, f) ==
    CASE f = "active" -> l.session # "none" [] f = "playing" -> l.session = "playing"
      [] f = "track" -> l.track [] f = "position" -> l.position

\* The fields an event says something of, and what.
Tells(event, f) ==
    \/ event.type = "inactive"
    \/ event.type = "active" /\ f = "active"
    \/ event.type \in {"playing", "paused"} /\ f = "playing"
    \/ event.type = "metadata" /\ f \in {"track", "position"}
    \/ event.type = "seek" /\ f = "position"
Told(event, f) == Shown(AfterEvent(NewPicture, event), f)

\* With `value' in a field when the first i events are handled, it is right once
\* the rest are.
Settles(l, es, value, f, i) ==
    \/ value = Truth(l, f)
    \/ \E j \in 1 .. Len(es) : j > i /\ Tells(es[j], f)

\* What events, replies and the picture itself say of the session is right, or will be
\* put right by an event or a reply that is to be handled later.
SessionEvents ==
    \A f \in Fields : \A i \in 1 .. Len(events) :
        Tells(events[i], f) => Settles(librespot, events, Told(events[i], f), f, i)
SessionReplies ==
    \A f \in Fields : \A i \in 1 .. Len(replies) :
        Counts(replies[i], {"status"}) =>
            Settles(librespot, events, Truth(replies[i].answer, f), f, replies[i].before)
SessionPicture ==
    \A f \in Fields :
        \/ Item(f) \in stale \/ AskedAfter(requests, replies, 0, {"status"})
        \/ Settles(librespot, events, Shown(picture, f), f, 0)

\* A status reply says nothing of a track there is not, so that nothing but an event
\* may have to take one away.
NoTrackShown ==
    librespot.track = NoTrack =>
        \A f \in TrackFields :
            "track" \in stale \/ Settles(librespot, events, Shown(picture, f), f, 0)

\* The same of a mode, which is asked for again after some events; without a
\* session it means nothing.
ModeAsks == {"status", "modes"}
TellsMode(event, mode) == event.type = "mode" /\ event.mode = mode
AskedAgain(es, i) == \E j \in 1 .. Len(es) : j > i /\ MayChangeModes(es[j])
ModeSettles(l, es, on, mode, i) ==
    \/ on <=> mode \in l.modes
    \/ \E j \in 1 .. Len(es) : j > i /\ TellsMode(es[j], mode)
    \/ AskedAgain(es, i)

\* The same of the modes.
ModeEvents ==
    \A mode \in ModeNames : \A i \in 1 .. Len(events) :
        TellsMode(events[i], mode) => ModeSettles(librespot, events, events[i].on, mode, i)
ModeReplies ==
    \A mode \in ModeNames : \A i \in 1 .. Len(replies) :
        Counts(replies[i], ModeAsks) =>
            \/ AskedAfter(requests, replies, i, ModeAsks) \/ AskedAgain(events, replies[i].before)
            \/ /\ replies[i].answer.session # "none"
               /\ ModeSettles(librespot, events, mode \in replies[i].answer.modes, mode,
                              replies[i].before)
ModePicture ==
    \A mode \in ModeNames :
        \/ "modes" \in stale \/ AskedAfter(requests, replies, 0, ModeAsks)
        \/ ModeSettles(librespot, events, mode \in picture.modes, mode, 0)

\* While the connection lasts, what is wrong in the picture is on its way.
OnTheWay == link = "up" =>
    /\ SessionEvents /\ SessionReplies /\ SessionPicture /\ NoTrackShown
    /\ (librespot.session # "none" => ModeEvents /\ ModeReplies /\ ModePicture)

\* What every step keeps.
LibInv == LibTypeOK /\ Linked /\ OnTheWay

----------------------------------------------------------------------------
(* Types.                                                                  *)

\* The picture of a client that knows nothing.
LEMMA NewPictureType == NewPicture \in Pictures
  BY TracksAssumption DEF NewPicture, Pictures

\* A picture stays one, whatever becomes of the session,
LEMMA NowActiveType ==
    ASSUME NEW p \in Pictures, NEW active \in BOOLEAN
    PROVE  NowActive(p, active) \in Pictures
  BY NewPictureType DEF NowActive, Pictures, NewPicture

\* whatever event comes,
LEMMA AfterEventType ==
    ASSUME NEW p \in Pictures, NEW event \in EventTypes
    PROVE  AfterEvent(p, event) \in Pictures
  <1>1. CASE event.type \in {"active", "inactive"}
    BY <1>1, NowActiveType DEF AfterEvent
  <1>2. CASE event.type \in {"playing", "paused"}
    BY <1>2 DEF AfterEvent, Pictures
  <1>3. CASE event.type = "mode"
    BY <1>3 DEF AfterEvent, Pictures, With, EventTypes
  <1>4. CASE event.type = "metadata"
    BY <1>4 DEF AfterEvent, Pictures, NewTrack, EventTypes
  <1>5. CASE event.type = "seek"
    BY <1>5 DEF AfterEvent, Pictures, EventTypes
  <1> QED BY <1>1, <1>2, <1>3, <1>4, <1>5 DEF EventTypes

\* and whatever reply.
LEMMA AfterReplyType ==
    ASSUME NEW p \in Pictures, NEW answer \in Librespots
    PROVE  /\ AfterStatus(p, answer) \in Pictures
           /\ AfterModes(p, answer) \in Pictures
           /\ NoSession(p) \in Pictures
  <1>1. NoSession(p) \in Pictures
    BY NowActiveType DEF NoSession
  <1>2. AfterModes(p, answer) \in Pictures
    BY DEF AfterModes, Pictures, Librespots
  <1>3. AfterStatus(p, answer) \in Pictures
    <2> DEFINE told == NowActive(p, answer.session # "none")
    <2>1. told \in Pictures
      BY NowActiveType
    <2>2. answer.session \in {"none", "playing", "paused"} /\ answer.modes \in SUBSET ModeNames
          /\ answer.track \in Tracks \cup {NoTrack} /\ answer.position \in Positions
      BY DEF Librespots
    <2> HIDE DEF told
    <2>3. NewTrack(told, answer.track, answer.position) \in Pictures
      BY <2>1, <2>2 DEF NewTrack, Pictures
    <2> QED BY <2>1, <2>2, <2>3 DEF AfterStatus, Pictures, told
  <1> QED BY <1>1, <1>2, <1>3

\* What go-librespot may become.
LEMMA LibrespotTypes ==
    /\ Stopped \in Librespots /\ Exited \in Librespots
    /\ \A modes \in SUBSET ModeNames : Joined(modes) \in Librespots
    /\ \A modes \in SUBSET ModeNames, track \in Tracks : Playing(modes, track) \in Librespots
  <1>1. /\ Stopped \in Librespots /\ Exited \in Librespots
        /\ \A modes \in SUBSET ModeNames, track \in Tracks : Playing(modes, track) \in Librespots
    BY TracksAssumption DEF Stopped, Exited, Playing, Librespots
  <1>2. \A modes \in SUBSET ModeNames : Joined(modes) \in Librespots
    BY TracksAssumption DEF Joined, Librespots
  <1> QED BY <1>1, <1>2

\* The events it tells of.
LEMMA EventTypesOf ==
    /\ \A type \in {"active", "inactive", "playing", "paused"} : Event(type) \in EventTypes
    /\ \A mode \in ModeNames, on \in BOOLEAN : ModeEvent(mode, on) \in EventTypes
    /\ \A track \in Tracks, position \in Positions : Metadata(track, position) \in EventTypes
    /\ \A position \in Positions : Seek(position) \in EventTypes
  BY DEF Event, ModeEvent, Metadata, Seek, EventTypes

\* The types are right at the start.
LEMMA LibInitType == LibInit => LibTypeOK
  <1> SUFFICES ASSUME LibInit PROVE LibTypeOK
    OBVIOUS
  <1>1. librespot \in Librespots
    BY LibrespotTypes DEF LibInit
  <1>2. \A S : <<>> \in Seq(S)
    OBVIOUS
  <1> QED BY <1>1, <1>2, NewPictureType DEF LibInit, LibTypeOK

\* What is emitted is of the events' type.
LEMMA EmitType ==
    ASSUME LibTypeOK, NEW happened \in Seq(EventTypes), Emit(happened)
    PROVE  events' \in Seq(EventTypes)
  <1>1. events \o happened \in Seq(EventTypes)
    BY ConcatProperties DEF LibTypeOK
  <1> QED BY <1>1 DEF Emit, LibTypeOK

\* What it answers,
LEMMA ReplyType ==
    ASSUME LibTypeOK, NEW ask \in {"status", "modes"}, NEW status \in {0, 200, 204},
           status = 204 => librespot.session = "none"
    PROVE  Reply(ask, status) \in ReplyTypes
  BY DEF Reply, ReplyTypes, LibTypeOK

\* and what an event that is handled first makes of an answer.
LEMMA PassedType == ASSUME NEW r \in ReplyTypes PROVE Passed(r) \in ReplyTypes
  <1>1. r.before \in Nat /\ r.overtaken \in BOOLEAN
    BY DEF ReplyTypes
  <1> DEFINE before == IF r.before = 0 THEN 0 ELSE r.before - 1
             overtaken == r.overtaken \/ r.before = 0
  <1>2. before \in Nat
    BY <1>1
  <1>3. overtaken \in BOOLEAN
    OBVIOUS
  <1>4. Passed(r) = [r EXCEPT !.before = before, !.overtaken = overtaken]
    BY DEF Passed
  <1> HIDE DEF before, overtaken
  <1>5. Passed(r) = [ask |-> r.ask, status |-> r.status, answer |-> r.answer,
                     before |-> before, overtaken |-> overtaken]
    BY <1>4 DEF ReplyTypes
  <1>6. /\ r.ask \in {"status", "modes"} /\ r.status \in {0, 200, 204} /\ r.answer \in Librespots
        /\ r.status = 204 => r.answer.session = "none"
    BY DEF ReplyTypes
  <1> QED BY <1>2, <1>3, <1>5, <1>6 DEF ReplyTypes

\* A mode set, a track started, within a session.
LEMMA ModeSetType ==
    ASSUME NEW l \in Librespots, l.session # "none", NEW mode \in ModeNames, NEW on \in BOOLEAN
    PROVE  [l EXCEPT !.modes = With(@, mode, on)] \in Librespots
  BY DEF Librespots, With

\* The steps of go-librespot keep the types: a track that starts,
LEMMA TrackStartsTypes ==
    ASSUME LibTypeOK, librespot.session # "none", NEW track \in Tracks, NEW position \in Positions,
           TrackStarts(track, position)
    PROVE  librespot' \in Librespots /\ events' \in Seq(EventTypes)
  <1>1. librespot' \in Librespots
    BY TracksAssumption DEF TrackStarts, LibTypeOK, Librespots
  <1>2. <<Metadata(track, position)>> \in Seq(EventTypes)
    BY EventTypesOf
  <1> QED BY <1>1, <1>2, EmitType DEF TrackStarts

\* a request that is served,
LEMMA RequestServedTypes ==
    ASSUME LibTypeOK, RequestServed, Head(requests) \in RequestTypes
    PROVE  librespot' \in Librespots /\ events' \in Seq(EventTypes) /\ replies' \in Seq(ReplyTypes)
  <1> DEFINE request == Head(requests)
  <1>0. librespot \in Librespots /\ events \in Seq(EventTypes) /\ replies \in Seq(ReplyTypes)
    BY DEF LibTypeOK
  <1>1. CASE request.ask = "set"
    <2>1. request.mode \in ModeNames /\ request.on \in BOOLEAN
      BY <1>1 DEF RequestTypes
    <2>2. CASE UNCHANGED <<librespot, events>>
      BY <1>0, <1>1, <2>2 DEF RequestServed
    <2>3. CASE /\ librespot.session # "none"
               /\ librespot' = [librespot EXCEPT !.modes = With(@, request.mode, request.on)]
               /\ Emit(<<ModeEvent(request.mode, request.on)>>)
      <3>1. <<ModeEvent(request.mode, request.on)>> \in Seq(EventTypes)
        BY <2>1, EventTypesOf
      <3>2. events' \in Seq(EventTypes)
        BY <2>3, <3>1, EmitType
      <3> QED BY <1>0, <1>1, <2>1, <2>3, <3>2, ModeSetType DEF RequestServed
    <2> QED BY <1>1, <2>2, <2>3 DEF RequestServed
  <1>2. CASE request.ask = "skip"
    <2>1. CASE UNCHANGED <<librespot, events>>
      BY <1>0, <1>2, <2>1 DEF RequestServed
    <2>2. CASE librespot.session # "none" /\ \E track \in Tracks : TrackStarts(track, 0)
      <3>1. librespot' \in Librespots /\ events' \in Seq(EventTypes)
        BY <2>2, TrackStartsTypes, TracksAssumption
      <3> QED BY <1>0, <1>2, <3>1 DEF RequestServed
    <2> QED BY <1>2, <2>1, <2>2 DEF RequestServed
  <1>3. CASE request.ask \in {"status", "modes"}
    <2>1. PICK status \in IF librespot.session = "none" THEN {200, 204} ELSE {200} :
              replies' = Append(replies, Reply(request.ask, status))
      BY <1>3 DEF RequestServed
    <2>2. Reply(request.ask, status) \in ReplyTypes
      BY <1>3, ReplyType
    <2>3. UNCHANGED <<librespot, events>>
      BY <1>3 DEF RequestServed
    <2> QED BY <1>0, <2>1, <2>2, <2>3
  <1> QED BY <1>1, <1>2, <1>3 DEF RequestTypes

\* and what it does by itself.
LEMMA LibrespotChangesTypes ==
    ASSUME LibTypeOK, LibrespotChanges
    PROVE  librespot' \in Librespots /\ events' \in Seq(EventTypes)
  <1>0. librespot \in Librespots /\ librespot.running
    BY DEF LibTypeOK, LibrespotChanges
  <1>1. CASE SessionChanges
    <2>0. CASE /\ \E modes \in SUBSET ModeNames : librespot' = Joined(modes)
               /\ Emit(<<Event("active")>>)
      <3>1. <<Event("active")>> \in Seq(EventTypes)
        BY EventTypesOf
      <3> QED BY <2>0, <3>1, EmitType, LibrespotTypes
    <2>1. CASE \E modes \in SUBSET ModeNames, track \in Tracks :
                 /\ librespot' = Playing(modes, track)
                 /\ Emit(<<Event("active"), Metadata(track, 0), Event("playing")>>)
      <3> PICK modes \in SUBSET ModeNames, track \in Tracks :
                 /\ librespot' = Playing(modes, track)
                 /\ Emit(<<Event("active"), Metadata(track, 0), Event("playing")>>)
        BY <2>1
      <3>1. <<Event("active"), Metadata(track, 0), Event("playing")>> \in Seq(EventTypes)
        BY EventTypesOf, TracksAssumption
      <3> QED BY <3>1, EmitType, LibrespotTypes
    <2>2. CASE librespot' = Stopped /\ Emit(<<Event("inactive")>>)
      <3>1. <<Event("inactive")>> \in Seq(EventTypes)
        BY EventTypesOf
      <3> QED BY <2>2, <3>1, EmitType, LibrespotTypes
    <2> QED BY <1>1, <2>0, <2>1, <2>2 DEF SessionChanges
  <1>2. CASE PlaybackChanges
    <2>0. librespot.session # "none"
      BY <1>2 DEF PlaybackChanges
    <2>1. ASSUME NEW moment \in {"playing", "paused"}, librespot' = [librespot EXCEPT !.session = moment],
                 Emit(<<Event(moment)>>)
          PROVE  librespot' \in Librespots /\ events' \in Seq(EventTypes)
      <3>1. <<Event(moment)>> \in Seq(EventTypes)
        BY EventTypesOf
      <3>2. librespot' \in Librespots
        BY <1>0, <2>0, <2>1 DEF Librespots
      <3> QED BY <2>1, <3>1, <3>2, EmitType
    <2>2. ASSUME NEW mode \in ModeNames, NEW on \in BOOLEAN,
                 librespot' = [librespot EXCEPT !.modes = With(@, mode, on)],
                 Emit(<<ModeEvent(mode, on)>>)
          PROVE  librespot' \in Librespots /\ events' \in Seq(EventTypes)
      <3>1. <<ModeEvent(mode, on)>> \in Seq(EventTypes)
        BY EventTypesOf
      <3> QED BY <1>0, <2>0, <2>2, <3>1, EmitType, ModeSetType
    <2>3. ASSUME NEW position \in Positions, librespot.track # NoTrack,
                 librespot' = [librespot EXCEPT !.position = position], Emit(<<Seek(position)>>)
          PROVE  librespot' \in Librespots /\ events' \in Seq(EventTypes)
      <3>1. <<Seek(position)>> \in Seq(EventTypes)
        BY EventTypesOf
      <3>2. librespot' \in Librespots
        BY <1>0, <2>0, <2>3 DEF Librespots
      <3> QED BY <2>3, <3>1, <3>2, EmitType
    <2>4. ASSUME NEW modes \in SUBSET ModeNames, NEW track \in Tracks,
                 librespot' = [librespot EXCEPT !.modes = modes, !.track = track, !.position = 0],
                 Emit(<<Metadata(track, 0)>>)
          PROVE  librespot' \in Librespots /\ events' \in Seq(EventTypes)
      <3>1. <<Metadata(track, 0)>> \in Seq(EventTypes)
        BY EventTypesOf, TracksAssumption
      <3>2. librespot' \in Librespots
        BY <1>0, <2>0, <2>4, TracksAssumption DEF Librespots
      <3> QED BY <2>4, <3>1, <3>2, EmitType
    <2> QED BY <1>2, <2>1, <2>2, <2>3, <2>4 DEF PlaybackChanges
  <1> QED BY <1>1, <1>2 DEF LibrespotChanges

\* Replies that are overtaken are so, and otherwise what they were.
LEMMA OvertakenShape ==
    ASSUME LibTypeOK
    PROVE  /\ Overtaken \in Seq(ReplyTypes) /\ Len(Overtaken) = Len(replies)
           /\ \A i \in 1 .. Len(replies) :
                 Overtaken[i].overtaken /\ Overtaken[i].ask = replies[i].ask
  <1> DEFINE Marked(r) == [r EXCEPT !.overtaken = TRUE]
  <1>1. replies \in Seq(ReplyTypes) /\ Overtaken = [i \in DOMAIN replies |-> Marked(replies[i])]
    BY DEF LibTypeOK, Overtaken
  <1>2. \A r \in ReplyTypes :
           Marked(r) \in ReplyTypes /\ Marked(r).overtaken /\ Marked(r).ask = r.ask
    BY DEF ReplyTypes
  <1> HIDE DEF Marked
  <1> QED BY <1>1, <1>2

\* Every step keeps the types.
LEMMA LibStepTypes == LibTypeOK /\ Linked /\ [LibNext]_libVars => LibTypeOK'
  <1> SUFFICES ASSUME LibTypeOK, Linked, [LibNext]_libVars PROVE LibTypeOK'
    OBVIOUS
  <1> USE LibrespotBoundsAssumption
  <1>1. CASE OnOpen
    <2>1. [ask |-> "status"] \in RequestTypes
      BY DEF RequestTypes
    <2>2. replies' \in Seq(ReplyTypes)
      BY <1>1, OvertakenShape DEF OnOpen
    <2> QED BY <1>1, <2>1, <2>2 DEF OnOpen, Queued, LibTypeOK, counts
  <1>2. CASE OnMessage
    <2>1. Head(events) \in EventTypes /\ Tail(events) \in Seq(EventTypes)
      BY <1>2 DEF OnMessage, LibTypeOK
    <2>2. picture' \in Pictures
      BY <1>2, <2>1, AfterEventType DEF OnMessage, LibTypeOK
    <2>3. [ask |-> "modes"] \in RequestTypes
      BY DEF RequestTypes
    <2>4. requests' \in Seq(RequestTypes)
      BY <1>2, <2>3 DEF OnMessage, LibTypeOK, Queued
    <2>5. \A r \in ReplyTypes : Passed(r) \in ReplyTypes
      BY PassedType
    <2>6. replies' \in Seq(ReplyTypes)
      <3>1. /\ replies \in Seq(ReplyTypes)
            /\ replies' = [i \in DOMAIN replies |-> Passed(replies[i])]
        BY <1>2 DEF OnMessage, LibTypeOK
      <3> QED BY ONLY <2>5, <3>1
    <2> QED BY <1>2, <2>1, <2>2, <2>4, <2>6 DEF OnMessage, LibTypeOK, counts
  <1>3. CASE OnClosed
    <2>1. picture' \in Pictures
      BY <1>3, NowActiveType DEF OnClosed, LibTypeOK, NoSession
    <2>2. replies' \in Seq(ReplyTypes)
      BY <1>3, OvertakenShape DEF OnClosed
    <2>3. <<>> \in Seq(EventTypes)
      OBVIOUS
    <2> QED BY <1>3, <2>1, <2>2, <2>3 DEF OnClosed, LibTypeOK, counts
  <1>4. CASE \E mode \in ModeNames : PressMode(mode)
    <2> PICK mode \in ModeNames : PressMode(mode)
      BY <1>4
    <2>1. [ask |-> "set", mode |-> mode, on |-> mode \notin picture.modes] \in RequestTypes
      BY DEF RequestTypes
    <2> QED BY <2>1 DEF PressMode, Queued, LibTypeOK
  <1>5. CASE PressSkip
    <2>1. [ask |-> "skip"] \in RequestTypes
      BY DEF RequestTypes
    <2> QED BY <1>5, <2>1 DEF PressSkip, Queued, LibTypeOK
  <1>6. CASE ReplyHandled
    <2>1. Head(replies) \in ReplyTypes /\ Tail(replies) \in Seq(ReplyTypes)
      BY <1>6 DEF ReplyHandled, LibTypeOK
    <2>2. Head(replies).answer \in Librespots
      BY <2>1 DEF ReplyTypes
    <2>3. picture' \in Pictures
      <3>1. picture' \in {picture, NoSession(picture), AfterStatus(picture, Head(replies).answer),
                          AfterModes(picture, Head(replies).answer)}
        BY <1>6 DEF ReplyHandled
      <3> QED BY <2>2, <3>1, AfterReplyType DEF LibTypeOK
    <2>4. stale' \subseteq {"session", "track", "modes"}
      BY <1>6 DEF ReplyHandled, LibTypeOK, AskedFor
    <2> QED BY <1>6, <2>1, <2>3, <2>4 DEF ReplyHandled, LibTypeOK, counts
  <1>7. CASE RequestServed
    <2>1. Head(requests) \in RequestTypes /\ Tail(requests) \in Seq(RequestTypes)
      BY <1>7 DEF RequestServed, LibTypeOK
    <2>2. librespot' \in Librespots /\ events' \in Seq(EventTypes)
      BY <1>7, <2>1, RequestServedTypes DEF LibTypeOK
    <2>3. replies' \in Seq(ReplyTypes)
      BY <1>7, <2>1, RequestServedTypes DEF LibTypeOK
    <2> QED BY <1>7, <2>1, <2>2, <2>3 DEF RequestServed, LibTypeOK, counts
  <1>8. CASE RequestFails
    <2>1. Head(requests) \in RequestTypes /\ Tail(requests) \in Seq(RequestTypes)
      BY <1>8 DEF RequestFails, LibTypeOK
    <2>2. replies' \in Seq(ReplyTypes)
      <3>1. CASE Head(requests).ask \in {"set", "skip"}
        BY <1>8, <3>1 DEF RequestFails, LibTypeOK
      <3>2. CASE Head(requests).ask \in {"status", "modes"}
        <4>1. Reply(Head(requests).ask, 0) \in ReplyTypes
          BY <3>2, ReplyType
        <4> QED BY <1>8, <3>2, <4>1 DEF RequestFails, LibTypeOK
      <3> QED BY <2>1, <3>1, <3>2 DEF RequestTypes
    <2> QED BY <1>8, <2>1, <2>2 DEF RequestFails, LibTypeOK, counts
  <1>9. CASE LibrespotChanges
    <2>1. librespot' \in Librespots /\ events' \in Seq(EventTypes)
      BY <1>9, LibrespotChangesTypes DEF LibTypeOK
    <2> QED BY <1>9, <2>1 DEF LibrespotChanges, LibTypeOK
  <1>10. CASE LinkLost
    BY <1>10, LibrespotTypes DEF LinkLost, LibTypeOK
  <1>11. CASE LibrespotStarts
    BY <1>11, LibrespotTypes DEF LibrespotStarts, LibTypeOK, counts
  <1>12. CASE UNCHANGED libVars
    BY <1>12 DEF libVars, LibTypeOK, counts
  <1> QED BY <1>1, <1>2, <1>3, <1>4, <1>5, <1>6, <1>7, <1>8, <1>9, <1>10, <1>11, <1>12 DEF LibNext

----------------------------------------------------------------------------
(* The connection, and what is under way on it.                            *)

\* An event handled before an answer changes only how many are before it.
LEMMA PassedFields ==
    ASSUME NEW r \in ReplyTypes
    PROVE  /\ Passed(r).ask = r.ask /\ Passed(r).status = r.status /\ Passed(r).answer = r.answer
           /\ ~Passed(r).overtaken =>
                 ~r.overtaken /\ r.before > 0 /\ Passed(r).before = r.before - 1
  <1>1. r.before \in Nat /\ r.overtaken \in BOOLEAN
    BY DEF ReplyTypes
  <1> DEFINE before == IF r.before = 0 THEN 0 ELSE r.before - 1
             overtaken == r.overtaken \/ r.before = 0
  <1>2. Passed(r) = [r EXCEPT !.before = before, !.overtaken = overtaken]
    BY DEF Passed
  <1>3. before \in Nat /\ (r.before > 0 => before = r.before - 1)
    BY <1>1
  <1>4. overtaken \in BOOLEAN /\ (~overtaken => ~r.overtaken /\ r.before > 0)
    BY <1>1
  <1> HIDE DEF before, overtaken
  <1>5. Passed(r) = [ask |-> r.ask, status |-> r.status, answer |-> r.answer,
                     before |-> before, overtaken |-> overtaken]
    BY <1>2 DEF ReplyTypes
  <1> QED BY <1>3, <1>4, <1>5

\* An event read is the oldest; the others and the replies stay.
LEMMA OnMessageShape ==
    ASSUME LibTypeOK, OnMessage
    PROVE  /\ events[1] = Head(events) /\ events[1] \in EventTypes /\ Len(events) \in Nat \ {0}
           /\ Len(events') = Len(events) - 1
           /\ \A i \in 1 .. Len(events') : events'[i] = events[i + 1]
           /\ Len(replies') = Len(replies)
           /\ \A i \in 1 .. Len(replies) : replies[i] \in ReplyTypes /\ replies'[i] = Passed(replies[i])
  <1>1. events \in Seq(EventTypes) /\ events # <<>> /\ events' = Tail(events)
    BY DEF OnMessage, LibTypeOK
  <1>2. replies \in Seq(ReplyTypes) /\ replies' = [i \in DOMAIN replies |-> Passed(replies[i])]
    BY DEF OnMessage, LibTypeOK
  <1>3. Len(replies') = Len(replies)
        /\ \A i \in 1 .. Len(replies) : replies[i] \in ReplyTypes /\ replies'[i] = Passed(replies[i])
    BY <1>2
  <1>4. /\ events[1] = Head(events) /\ events[1] \in EventTypes /\ Len(events) \in Nat \ {0}
        /\ Len(events') = Len(events) - 1
        /\ \A i \in 1 .. Len(events') : events'[i] = events[i + 1]
    BY <1>1
  <1> QED BY <1>3, <1>4

\* A reply handled is the oldest; the others stay.
LEMMA ReplyHandledShape ==
    ASSUME LibTypeOK, ReplyHandled
    PROVE  /\ replies[1] = Head(replies) /\ Len(replies) \in Nat \ {0}
           /\ Len(replies') = Len(replies) - 1
           /\ \A i \in 1 .. Len(replies) : replies[i] \in ReplyTypes
           /\ \A i \in 1 .. Len(replies') : replies'[i] = replies[i + 1]
  BY DEF ReplyHandled, LibTypeOK

\* What is emitted comes after what is there, or nobody hears it.
LEMMA EmitShape ==
    ASSUME LibTypeOK, NEW happened \in Seq(EventTypes), Emit(happened)
    PROVE  /\ link # "up" => events' = events
           /\ link = "up" =>
                 /\ Len(events') = Len(events) + Len(happened)
                 /\ \A i \in 1 .. Len(events) : events'[i] = events[i]
                 /\ \A j \in 1 .. Len(happened) : events'[Len(events) + j] = happened[j]
  BY ConcatProperties DEF Emit, LibTypeOK

\* go-librespot's changes only add events, and it stays there.
LEMMA EventsGrow ==
    ASSUME LibTypeOK, RequestServed \/ LibrespotChanges
    PROVE  /\ UNCHANGED link /\ librespot.running /\ librespot'.running
           /\ Len(events') >= Len(events) /\ (link # "up" => events' = events)
  <1>1. ASSUME NEW happened \in Seq(EventTypes), Emit(happened)
        PROVE  Len(events') >= Len(events) /\ (link # "up" => events' = events)
    BY <1>1, EmitShape DEF LibTypeOK
  <1>2. \A e \in EventTypes : <<e>> \in Seq(EventTypes)
    OBVIOUS
  <1>3. \A e1, e2, e3 \in EventTypes : <<e1, e2, e3>> \in Seq(EventTypes)
    OBVIOUS
  <1>4. Len(events) >= Len(events)
    BY DEF LibTypeOK
  <1>5. librespot.running /\ librespot \in Librespots /\ UNCHANGED link
    BY DEF RequestServed, LibrespotChanges, LibTypeOK
  <1>6. CASE RequestServed
    <2>1. Head(requests) \in RequestTypes
      BY <1>6 DEF RequestServed, LibTypeOK
    <2>2. CASE UNCHANGED <<librespot, events>>
      BY <1>4, <1>5, <2>2
    <2>3. CASE /\ Head(requests).ask = "set"
               /\ librespot' = [librespot EXCEPT
                                   !.modes = With(@, Head(requests).mode, Head(requests).on)]
               /\ Emit(<<ModeEvent(Head(requests).mode, Head(requests).on)>>)
      <3>1. ModeEvent(Head(requests).mode, Head(requests).on) \in EventTypes
        BY <2>1, <2>3, EventTypesOf DEF RequestTypes
      <3> QED BY <1>1, <1>2, <1>5, <2>3, <3>1 DEF Librespots
    <2>4. CASE \E track \in Tracks : TrackStarts(track, 0)
      <3> PICK track \in Tracks : TrackStarts(track, 0)
        BY <2>4
      <3>1. Metadata(track, 0) \in EventTypes
        BY EventTypesOf, TracksAssumption
      <3> QED BY <1>1, <1>2, <1>5, <3>1 DEF TrackStarts, Librespots
    <2> QED BY <1>6, <2>2, <2>3, <2>4 DEF RequestServed
  <1>7. CASE LibrespotChanges
    <2>1. CASE SessionChanges
      <3>0. CASE /\ \E modes \in SUBSET ModeNames : librespot' = Joined(modes)
                 /\ Emit(<<Event("active")>>)
        <4>1. Event("active") \in EventTypes
          BY EventTypesOf
        <4>2. librespot'.running
          BY <3>0 DEF Joined
        <4> QED BY <1>1, <1>2, <1>5, <3>0, <4>1, <4>2
      <3>1. CASE \E modes \in SUBSET ModeNames, track \in Tracks :
                   /\ librespot' = Playing(modes, track)
                   /\ Emit(<<Event("active"), Metadata(track, 0), Event("playing")>>)
        <4> PICK modes \in SUBSET ModeNames, track \in Tracks :
                   /\ librespot' = Playing(modes, track)
                   /\ Emit(<<Event("active"), Metadata(track, 0), Event("playing")>>)
          BY <3>1
        <4>1. <<Event("active"), Metadata(track, 0), Event("playing")>> \in Seq(EventTypes)
          BY <1>3, EventTypesOf, TracksAssumption
        <4> QED BY <1>1, <1>5, <4>1 DEF Playing
      <3>2. CASE librespot' = Stopped /\ Emit(<<Event("inactive")>>)
        BY <1>1, <1>2, <1>5, <3>2, EventTypesOf DEF Stopped
      <3> QED BY <2>1, <3>0, <3>1, <3>2 DEF SessionChanges
    <2>2. CASE PlaybackChanges
      <3>1. PICK e \in EventTypes : Emit(<<e>>)
        BY <2>2, EventTypesOf, TracksAssumption DEF PlaybackChanges
      <3>2. librespot'.running
        BY <1>5, <2>2 DEF PlaybackChanges, Librespots
      <3> QED BY <1>1, <1>2, <1>5, <3>1, <3>2
    <2> QED BY <1>7, <2>1, <2>2 DEF LibrespotChanges
  <1> QED BY <1>6, <1>7

\* Every step keeps what is said of the connection.
LEMMA LibStepLinked == LibTypeOK /\ Linked /\ [LibNext]_libVars => Linked'
  <1> SUFFICES ASSUME LibTypeOK, Linked, [LibNext]_libVars PROVE Linked'
    OBVIOUS
  <1>0. /\ requests \in Seq(RequestTypes) /\ replies \in Seq(ReplyTypes) /\ events \in Seq(EventTypes)
        /\ Len(events) \in Nat /\ link \in {"down", "up", "gone"}
    BY DEF LibTypeOK
  <1>1. CASE OnOpen
    <2>1. \A i \in 1 .. Len(replies') : replies'[i].overtaken
      BY <1>0, <1>1, OvertakenShape DEF OnOpen
    <2> QED BY <1>1, <2>1 DEF OnOpen, Linked
  <1>2. CASE OnMessage
    <2>1. link # "down" /\ UNCHANGED <<link, librespot>>
      BY <1>2 DEF OnMessage
    <2>2. ASSUME NEW i \in 1 .. Len(replies'), ~replies'[i].overtaken
          PROVE  replies'[i].before <= Len(events')
      BY <1>2, <2>2, OnMessageShape, PassedFields DEF Linked, ReplyTypes
    <2> QED BY <2>1, <2>2 DEF Linked
  <1>3. CASE OnClosed
    <2>1. \A i \in 1 .. Len(replies') : replies'[i].overtaken
      BY <1>0, <1>3, OvertakenShape DEF OnClosed
    <2>2. picture'.track = NoTrack /\ picture'.position = 0
      BY <1>3 DEF OnClosed, NoSession, NowActive, NewPicture
    <2> QED BY <1>3, <2>1, <2>2 DEF OnClosed, Linked
  <1>4. CASE \E mode \in ModeNames : PressMode(mode)
    BY <1>4 DEF PressMode, Linked
  <1>5. CASE PressSkip
    BY <1>5 DEF PressSkip, Linked
  <1>6. CASE ReplyHandled
    <2>1. UNCHANGED <<link, connected, events, librespot>>
      BY <1>6 DEF ReplyHandled
    <2>2. \A i \in 1 .. Len(replies') : ~replies'[i].overtaken => replies'[i].before <= Len(events')
      BY <1>6, <2>1, ReplyHandledShape DEF Linked
    <2>3. ASSUME link = "down"
          PROVE  "track" \in stale' \/ (picture'.track = NoTrack /\ picture'.position = 0)
      <3>1. stale' = stale \cup AskedFor(Head(replies))
        BY <1>6, <2>3 DEF ReplyHandled, Linked
      <3>2. CASE Head(replies).ask = "status"
        BY <3>1, <3>2 DEF AskedFor
      <3>3. CASE Head(replies).ask # "status"
        <4>1. picture' \in {picture, AfterModes(picture, Head(replies).answer)}
          BY <1>6, <3>3 DEF ReplyHandled
        <4>2. picture'.track = picture.track /\ picture'.position = picture.position
          BY <4>1 DEF AfterModes, LibTypeOK, Pictures
        <4> QED BY <2>3, <3>1, <4>2 DEF Linked
      <3> QED BY <3>2, <3>3
    <2> QED BY <2>1, <2>2, <2>3 DEF Linked
  <1>7. ASSUME RequestServed \/ LibrespotChanges PROVE Linked'
    <2>1. ASSUME NEW i \in 1 .. Len(replies'), ~replies'[i].overtaken
          PROVE  replies'[i].before <= Len(events')
      <3>1. CASE replies' = replies
        <4>1. replies[i] \in ReplyTypes
          BY <1>0, <3>1
        <4>2. replies[i].before \in Nat /\ Len(events') \in Int
          BY <1>7, <4>1, LibStepTypes DEF ReplyTypes, LibTypeOK
        <4> QED BY <1>0, <1>7, <2>1, <3>1, <4>2, EventsGrow DEF Linked
      <3>2. CASE \E ask \in {"status", "modes"}, status \in {200, 204} :
                    replies' = Append(replies, Reply(ask, status)) /\ UNCHANGED events
        <4>1. CASE i \in 1 .. Len(replies)
          BY <1>0, <2>1, <3>2, <4>1 DEF Linked
        <4>2. CASE i = Len(replies) + 1
          BY <1>0, <2>1, <3>2, <4>2 DEF Reply
        <4> QED BY <1>0, <3>2, <4>1, <4>2
      <3> QED BY <1>7, <3>1, <3>2 DEF RequestServed, LibrespotChanges
    <2>2. UNCHANGED <<connected, picture, stale>>
      BY <1>7 DEF RequestServed, LibrespotChanges
    <2> QED BY <1>7, <2>1, <2>2, EventsGrow DEF Linked
  <1>8. CASE RequestFails
    <2>1. UNCHANGED <<link, connected, events, librespot, picture, stale>>
      BY <1>8 DEF RequestFails
    <2>2. ASSUME NEW i \in 1 .. Len(replies'), ~replies'[i].overtaken
          PROVE  replies'[i].before <= Len(events')
      <3>1. CASE replies' = replies
        BY <2>1, <2>2, <3>1 DEF Linked
      <3>2. CASE replies' = Append(replies, Reply(Head(requests).ask, 0))
        <4>1. CASE i \in 1 .. Len(replies)
          BY <1>0, <2>1, <2>2, <3>2, <4>1 DEF Linked
        <4>2. CASE i = Len(replies) + 1
          BY <1>0, <2>1, <2>2, <3>2, <4>2 DEF Reply
        <4> QED BY <1>0, <3>2, <4>1, <4>2
      <3> QED BY <1>8, <3>1, <3>2 DEF RequestFails
    <2> QED BY <2>1, <2>2 DEF Linked
  <1>9. CASE LinkLost
    BY <1>9 DEF LinkLost, Linked
  <1>10. CASE LibrespotStarts
    BY <1>10 DEF LibrespotStarts, Linked
  <1>11. CASE UNCHANGED libVars
    BY <1>11 DEF libVars, Linked
  <1> QED BY <1>1, <1>2, <1>3, <1>4, <1>5, <1>6, <1>7, <1>8, <1>9, <1>10, <1>11 DEF LibNext

----------------------------------------------------------------------------
(* What an event, and a reply, make of each field of the picture.          *)

\* An event sets the fields it tells of and no others,
LEMMA AfterEventFields ==
    ASSUME NEW p \in Pictures, NEW event \in EventTypes, NEW f \in Fields
    PROVE  Shown(AfterEvent(p, event), f) =
               IF Tells(event, f) THEN Told(event, f) ELSE Shown(p, f)
  <1>1. NewPicture \in Pictures
    BY NewPictureType
  <1>2. ASSUME NEW q \in Pictures
        PROVE  Shown(AfterEvent(q, event), f) =
                 CASE event.type = "inactive" -> Shown(NewPicture, f)
                   [] event.type = "active" /\ f = "active" -> TRUE
                   [] event.type = "playing" /\ f = "playing" -> TRUE
                   [] event.type = "paused" /\ f = "playing" -> FALSE
                   [] event.type = "metadata" /\ f = "track" -> event.track
                   [] event.type = "metadata" /\ f = "position" -> event.position
                   [] event.type = "seek" /\ f = "position" -> event.position
                   [] OTHER -> Shown(q, f)
    <2>1. CASE event.type = "inactive"
      BY <2>1 DEF AfterEvent, NowActive, NewPicture, Shown, Fields
    <2>2. CASE event.type = "active"
      BY <2>2 DEF AfterEvent, NowActive, Pictures, Shown, Fields
    <2>3. CASE event.type = "playing"
      BY <2>3 DEF AfterEvent, Pictures, Shown, Fields
    <2>4. CASE event.type = "paused"
      BY <2>4 DEF AfterEvent, Pictures, Shown, Fields
    <2>5. CASE event.type = "mode"
      BY <2>5 DEF AfterEvent, Pictures, Shown, Fields
    <2>6. CASE event.type = "metadata"
      BY <2>6 DEF AfterEvent, NewTrack, Pictures, Shown, Fields
    <2>7. CASE event.type = "seek"
      BY <2>7 DEF AfterEvent, Pictures, Shown, Fields
    <2> QED BY <2>1, <2>2, <2>3, <2>4, <2>5, <2>6, <2>7 DEF EventTypes
  <1>3. CASE Tells(event, f)
    BY <1>1, <1>2, <1>3 DEF Tells, Told, Fields, EventTypes
  <1>4. CASE ~Tells(event, f)
    BY <1>2, <1>4 DEF Tells, Fields, EventTypes
  <1> QED BY <1>3, <1>4

\* and of the modes only the one it names.
LEMMA AfterEventModes ==
    ASSUME NEW p \in Pictures, NEW event \in EventTypes, NEW mode \in ModeNames
    PROVE  mode \in AfterEvent(p, event).modes
               <=> IF TellsMode(event, mode) THEN event.on ELSE mode \in p.modes
  <1>1. CASE event.type \in {"active", "inactive"}
    BY <1>1 DEF AfterEvent, NowActive, NewPicture, Pictures, TellsMode
  <1>2. CASE event.type \in {"playing", "paused"}
    BY <1>2 DEF AfterEvent, Pictures, TellsMode
  <1>3. CASE event.type = "mode"
    BY <1>3 DEF AfterEvent, With, Pictures, TellsMode, EventTypes
  <1>4. CASE event.type \in {"metadata", "seek"}
    BY <1>4 DEF AfterEvent, NewTrack, Pictures, TellsMode
  <1> QED BY <1>1, <1>2, <1>3, <1>4 DEF EventTypes

\* GET /status tells of every field, but not of the track of a session that has none;
\* GET of the modes of none.
LEMMA AfterReplyFields ==
    ASSUME NEW p \in Pictures, NEW answer \in Librespots, NEW f \in Fields
    PROVE  /\ Shown(AfterStatus(p, answer), f) =
                 IF answer.session # "none" /\ answer.track = NoTrack /\ f \in TrackFields
                 THEN Shown(p, f) ELSE Truth(answer, f)
           /\ answer.session = "none" => Shown(NoSession(p), f) = Truth(answer, f)
           /\ Shown(AfterModes(p, answer), f) = Shown(p, f)
  <1>0. /\ answer.session \in {"none", "playing", "paused"}
        /\ answer.session = "none" => answer.track = NoTrack
        /\ answer.track = NoTrack => answer.position = 0
    BY DEF Librespots
  <1>1. answer.session = "none" => Shown(NoSession(p), f) = Truth(answer, f)
    BY <1>0 DEF NoSession, NowActive, NewPicture, Shown, Truth, Fields
  <1>2. Shown(AfterModes(p, answer), f) = Shown(p, f)
    BY DEF AfterModes, Pictures, Shown, Fields
  <1>3. Shown(AfterStatus(p, answer), f) =
           IF answer.session # "none" /\ answer.track = NoTrack /\ f \in TrackFields
           THEN Shown(p, f) ELSE Truth(answer, f)
    <2>1. CASE answer.session = "none"
      BY <1>0, <2>1 DEF AfterStatus, NowActive, NewPicture, Shown, Truth, Fields
    <2>2. CASE answer.session # "none" /\ answer.track # NoTrack
      BY <1>0, <2>2 DEF AfterStatus, NowActive, NewTrack, Pictures, Shown, Truth, Fields
    <2>3. CASE answer.session # "none" /\ answer.track = NoTrack
      BY <1>0, <2>3 DEF AfterStatus, NowActive, Pictures, Shown, Truth, Fields, TrackFields
    <2> QED BY <2>1, <2>2, <2>3
  <1> QED BY <1>1, <1>2, <1>3

\* Both kinds of reply tell of the modes, if there is a session.
LEMMA AfterReplyModes ==
    ASSUME NEW p \in Pictures, NEW answer \in Librespots
    PROVE  /\ AfterStatus(p, answer).modes = answer.modes
           /\ AfterModes(p, answer).modes = answer.modes
           /\ NoSession(p).modes = p.modes
  <1>1. NoSession(p).modes = p.modes
    BY DEF NoSession, NowActive, NewPicture
  <1>2. AfterModes(p, answer).modes = answer.modes
    BY DEF AfterModes, Pictures
  <1>3. AfterStatus(p, answer).modes = answer.modes
    BY DEF AfterStatus, NowActive, NewTrack, NewPicture, Pictures
  <1> QED BY <1>1, <1>2, <1>3

----------------------------------------------------------------------------
(* What is settled stays so as events happen and are read.                 *)

\* The first event read: the rest settles what all of them did.
LEMMA SettlesRead ==
    ASSUME NEW es \in Seq(EventTypes), NEW rest \in Seq(EventTypes),
           Len(rest) = Len(es) - 1, \A i \in 1 .. Len(rest) : rest[i] = es[i + 1],
           NEW l, NEW i \in Nat
    PROVE  /\ \A f, value : Settles(l, es, value, f, i + 1) => Settles(l, rest, value, f, i)
           /\ \A f, value : Settles(l, es, value, f, 0) /\ ~Tells(es[1], f)
                               => Settles(l, rest, value, f, 0)
           /\ AskedAgain(es, i + 1) => AskedAgain(rest, i)
           /\ \A mode, on : ModeSettles(l, es, on, mode, i + 1) => ModeSettles(l, rest, on, mode, i)
           /\ \A mode, on : ModeSettles(l, es, on, mode, 0) /\ ~TellsMode(es[1], mode)
                               /\ ~MayChangeModes(es[1]) => ModeSettles(l, rest, on, mode, 0)
  <1>0. Len(es) \in Nat /\ Len(rest) \in Nat
    OBVIOUS
  <1>1. ASSUME NEW j \in 1 .. Len(es), j > i + 1
        PROVE  j - 1 \in 1 .. Len(rest) /\ j - 1 > i /\ rest[j - 1] = es[j]
    BY <1>0, <1>1
  <1>2. ASSUME NEW j \in 1 .. Len(es), j # 1
        PROVE  j - 1 \in 1 .. Len(rest) /\ j - 1 > 0 /\ rest[j - 1] = es[j]
    BY <1>0, <1>2
  <1>3. ASSUME NEW f, NEW value, Settles(l, es, value, f, i + 1)
        PROVE  Settles(l, rest, value, f, i)
    BY <1>1, <1>3 DEF Settles
  <1>4. ASSUME NEW f, NEW value, Settles(l, es, value, f, 0), ~Tells(es[1], f)
        PROVE  Settles(l, rest, value, f, 0)
    BY <1>2, <1>4 DEF Settles
  <1>5. AskedAgain(es, i + 1) => AskedAgain(rest, i)
    BY <1>1 DEF AskedAgain
  <1>6. ASSUME NEW mode, NEW on, ModeSettles(l, es, on, mode, i + 1)
        PROVE  ModeSettles(l, rest, on, mode, i)
    BY <1>1, <1>5, <1>6 DEF ModeSettles
  <1>7. ASSUME NEW mode, NEW on, ModeSettles(l, es, on, mode, 0), ~TellsMode(es[1], mode),
               ~MayChangeModes(es[1])
        PROVE  ModeSettles(l, rest, on, mode, 0)
    <2>1. AskedAgain(es, 0) => AskedAgain(rest, 0)
      BY <1>2, <1>7 DEF AskedAgain
    <2> QED BY <1>2, <1>7, <2>1 DEF ModeSettles
  <1> QED BY <1>3, <1>4, <1>5, <1>6, <1>7

\* Some change of go-librespot, and what it tells of it.
Added(es, happened, more) ==
    /\ Len(more) = Len(es) + Len(happened)
    /\ \A i \in 1 .. Len(es) : more[i] = es[i]
    /\ \A j \in 1 .. Len(happened) : more[Len(es) + j] = happened[j]

\* Every field that changed is told, and told as it is now; and every mode, or it is asked for.
TellsAll(l, new, happened) ==
    \A f \in Fields :
        /\ \/ Truth(new, f) = Truth(l, f)
           \/ \E j \in 1 .. Len(happened) : Tells(happened[j], f)
        /\ \A j \in 1 .. Len(happened) :
              Tells(happened[j], f) => Settles(new, happened, Told(happened[j], f), f, j)

TellsAllModes(l, new, happened) ==
    new.session # "none" =>
        /\ l.session = "none" => AskedAgain(happened, 0)
        /\ \A mode \in ModeNames :
              /\ \/ mode \in new.modes <=> mode \in l.modes
                 \/ \E j \in 1 .. Len(happened) : TellsMode(happened[j], mode)
                 \/ AskedAgain(happened, 0)
              /\ \A j \in 1 .. Len(happened) :
                    TellsMode(happened[j], mode)
                        => ModeSettles(new, happened, happened[j].on, mode, j)

\* Events added that tell of every change leave settled what was.
LEMMA SettlesAdded ==
    ASSUME NEW es \in Seq(EventTypes), NEW happened \in Seq(EventTypes),
           NEW more \in Seq(EventTypes), Added(es, happened, more), NEW l, NEW new
    PROVE  /\ TellsAll(l, new, happened) =>
              /\ \A value : \A f \in Fields, i \in 0 .. Len(es) :
                    Settles(l, es, value, f, i) => Settles(new, more, value, f, i)
              /\ \A f \in Fields, j \in 1 .. Len(happened) :
                    Tells(happened[j], f)
                        => Settles(new, more, Told(happened[j], f), f, Len(es) + j)
           /\ \A i \in 0 .. Len(es) :
                 AskedAgain(es, i) \/ AskedAgain(happened, 0) => AskedAgain(more, i)
           /\ TellsAllModes(l, new, happened) /\ new.session # "none" =>
              /\ \A on : \A mode \in ModeNames, i \in 0 .. Len(es) :
                    ModeSettles(l, es, on, mode, i) => ModeSettles(new, more, on, mode, i)
              /\ \A mode \in ModeNames, j \in 1 .. Len(happened) :
                    TellsMode(happened[j], mode)
                        => ModeSettles(new, more, happened[j].on, mode, Len(es) + j)
  <1>0. Len(es) \in Nat /\ Len(happened) \in Nat /\ Len(more) \in Nat
    OBVIOUS
  <1>1. ASSUME NEW i \in Nat, NEW j \in 1 .. Len(es), j > i
        PROVE  j \in 1 .. Len(more) /\ more[j] = es[j]
    BY <1>0 DEF Added
  <1>2. ASSUME NEW j \in 1 .. Len(happened), NEW i \in 0 .. Len(es)
        PROVE  Len(es) + j \in 1 .. Len(more) /\ Len(es) + j > i
               /\ more[Len(es) + j] = happened[j]
    BY <1>0 DEF Added
  <1>3. ASSUME NEW j \in 1 .. Len(happened), NEW k \in 1 .. Len(happened), k > j
        PROVE  Len(es) + k \in 1 .. Len(more) /\ Len(es) + k > Len(es) + j
               /\ more[Len(es) + k] = happened[k]
    BY <1>0, <1>3 DEF Added
  <1>4. ASSUME TellsAll(l, new, happened), NEW f \in Fields, NEW value, NEW i \in 0 .. Len(es),
               Settles(l, es, value, f, i)
        PROVE  Settles(new, more, value, f, i)
    <2>1. CASE \E j \in 1 .. Len(es) : j > i /\ Tells(es[j], f)
      <3> PICK j \in 1 .. Len(es) : j > i /\ Tells(es[j], f)
        BY <2>1
      <3>0. i \in Nat
        BY <1>0
      <3>1. j \in 1 .. Len(more) /\ more[j] = es[j]
        BY <3>0, <1>1
      <3> QED BY <3>1 DEF Settles
    <2>2. CASE \E j \in 1 .. Len(happened) : Tells(happened[j], f)
      <3> PICK j \in 1 .. Len(happened) : Tells(happened[j], f)
        BY <2>2
      <3> QED BY <1>2 DEF Settles
    <2>3. CASE value = Truth(l, f) /\ Truth(new, f) = Truth(l, f)
      BY <2>3 DEF Settles
    <2> QED BY <1>4, <2>1, <2>2, <2>3 DEF Settles, TellsAll
  <1>5. ASSUME TellsAll(l, new, happened), NEW f \in Fields, NEW j \in 1 .. Len(happened),
               Tells(happened[j], f)
        PROVE  Settles(new, more, Told(happened[j], f), f, Len(es) + j)
    <2>1. Settles(new, happened, Told(happened[j], f), f, j)
      BY <1>5 DEF TellsAll
    <2> QED BY <1>3, <2>1 DEF Settles
  <1>6. ASSUME NEW i \in 0 .. Len(es), AskedAgain(es, i) \/ AskedAgain(happened, 0)
        PROVE  AskedAgain(more, i)
    <2>1. CASE AskedAgain(es, i)
      BY <1>0, <1>1, <2>1 DEF AskedAgain
    <2>2. CASE AskedAgain(happened, 0)
      <3> PICK j \in 1 .. Len(happened) : MayChangeModes(happened[j])
        BY <2>2 DEF AskedAgain
      <3> QED BY <1>2 DEF AskedAgain
    <2> QED BY <1>6, <2>1, <2>2
  <1>7. ASSUME TellsAllModes(l, new, happened), new.session # "none", NEW mode \in ModeNames,
               NEW on, NEW i \in 0 .. Len(es), ModeSettles(l, es, on, mode, i)
        PROVE  ModeSettles(new, more, on, mode, i)
    <2>1. CASE AskedAgain(es, i) \/ AskedAgain(happened, 0)
      BY <1>6, <2>1 DEF ModeSettles
    <2>2. CASE \E j \in 1 .. Len(es) : j > i /\ TellsMode(es[j], mode)
      <3> PICK j \in 1 .. Len(es) : j > i /\ TellsMode(es[j], mode)
        BY <2>2
      <3>1. j \in 1 .. Len(more) /\ more[j] = es[j]
        BY <1>0, <1>1
      <3> QED BY <3>1 DEF ModeSettles
    <2>3. CASE \E j \in 1 .. Len(happened) : TellsMode(happened[j], mode)
      <3> PICK j \in 1 .. Len(happened) : TellsMode(happened[j], mode)
        BY <2>3
      <3> QED BY <1>2 DEF ModeSettles
    <2>4. CASE (on <=> mode \in l.modes) /\ (mode \in new.modes <=> mode \in l.modes)
      BY <2>4 DEF ModeSettles
    <2> QED BY <1>7, <2>1, <2>2, <2>3, <2>4 DEF ModeSettles, TellsAllModes
  <1>8. ASSUME TellsAllModes(l, new, happened), new.session # "none", NEW mode \in ModeNames,
               NEW j \in 1 .. Len(happened), TellsMode(happened[j], mode)
        PROVE  ModeSettles(new, more, happened[j].on, mode, Len(es) + j)
    <2>1. ModeSettles(new, happened, happened[j].on, mode, j)
      BY <1>8 DEF TellsAllModes
    <2>2. AskedAgain(happened, j) => AskedAgain(more, Len(es) + j)
      BY <1>3 DEF AskedAgain
    <2> QED BY <1>3, <2>1, <2>2 DEF ModeSettles
  <1> QED BY <1>4, <1>5, <1>6, <1>7, <1>8

\* So a change of go-librespot that is told puts nothing off the way.
LEMMA ChangeKeepsOnTheWay ==
    ASSUME LibInv, LibTypeOK', link = "up", NEW happened \in Seq(EventTypes), Emit(happened),
           TellsAll(librespot, librespot', happened),
           TellsAllModes(librespot, librespot', happened),
           UNCHANGED <<picture, replies, stale>>,
           \A i \in Nat, asks \in {{"status"}, ModeAsks} :
               AskedAfter(requests, replies, i, asks) => AskedAfter(requests', replies, i, asks)
    PROVE  OnTheWay'
  <1>0. /\ events \in Seq(EventTypes) /\ events' \in Seq(EventTypes) /\ replies \in Seq(ReplyTypes)
        /\ Len(events) \in Nat /\ Len(happened) \in Nat /\ Len(replies) \in Nat
        /\ replies' = replies
    BY DEF LibInv, LibTypeOK
  <1>1. Added(events, happened, events')
    BY EmitShape DEF LibInv, Added
  <1>2. SessionEvents /\ SessionReplies /\ SessionPicture /\ NoTrackShown
        /\ (librespot.session # "none" => ModeEvents /\ ModeReplies /\ ModePicture)
    BY DEF LibInv, OnTheWay
  <1>3. ASSUME NEW i \in 1 .. Len(events')
        PROVE  \/ i \in 1 .. Len(events) /\ events'[i] = events[i]
               \/ \E j \in 1 .. Len(happened) : i = Len(events) + j /\ events'[i] = happened[j]
    <2>1. CASE i <= Len(events)
      BY <1>0, <1>1, <2>1 DEF Added
    <2>2. CASE i > Len(events)
      <3>1. i - Len(events) \in 1 .. Len(happened) /\ i = Len(events) + (i - Len(events))
        BY <1>0, <1>1, <2>2 DEF Added
      <3> QED BY <1>1, <3>1 DEF Added
    <2> QED BY <1>0, <2>1, <2>2
  <1>4. ASSUME NEW i \in 1 .. Len(replies), ~replies[i].overtaken
        PROVE  i \in Nat /\ replies[i].before \in 0 .. Len(events)
    BY <1>0, <1>4 DEF LibInv, Linked, ReplyTypes
  <1>12. \A value : \A f \in Fields, i \in 0 .. Len(events) :
           Settles(librespot, events, value, f, i) => Settles(librespot', events', value, f, i)
    BY <1>0, <1>1, SettlesAdded
  <1>13. \A i \in 0 .. Len(events) : AskedAgain(events, i) => AskedAgain(events', i)
    BY <1>0, <1>1, SettlesAdded
  <1>14. librespot'.session # "none" =>
           \A on : \A mode \in ModeNames, i \in 0 .. Len(events) :
              ModeSettles(librespot, events, on, mode, i)
                  => ModeSettles(librespot', events', on, mode, i)
    BY <1>0, <1>1, SettlesAdded
  <1>5. SessionEvents'
    <2> SUFFICES ASSUME NEW f \in Fields, NEW i \in 1 .. Len(events'), Tells(events'[i], f)
                 PROVE  Settles(librespot', events', Told(events'[i], f), f, i)
      BY DEF SessionEvents
    <2>1. CASE i \in 1 .. Len(events) /\ events'[i] = events[i]
      <3>1. Settles(librespot, events, Told(events[i], f), f, i)
        BY <1>2, <2>1 DEF SessionEvents
      <3>2. i \in 0 .. Len(events)
        BY <1>0, <2>1
      <3> QED BY <1>12, <2>1, <3>1, <3>2
    <2>2. CASE \E j \in 1 .. Len(happened) : i = Len(events) + j /\ events'[i] = happened[j]
      BY <1>0, <1>1, <2>2, SettlesAdded
    <2> QED BY <1>3, <2>1, <2>2
  <1>6. SessionReplies'
    <2> SUFFICES ASSUME NEW f \in Fields, NEW i \in 1 .. Len(replies), Counts(replies[i], {"status"})
                 PROVE  Settles(librespot', events', Truth(replies[i].answer, f), f,
                                replies[i].before)
      BY <1>0 DEF SessionReplies
    <2>1. Settles(librespot, events, Truth(replies[i].answer, f), f, replies[i].before)
      BY <1>2 DEF SessionReplies
    <2>2. i \in Nat /\ replies[i].before \in 0 .. Len(events)
      BY <1>4 DEF Counts
    <2> QED BY <1>12, <2>1, <2>2
  <1>7. SessionPicture'
    <2> SUFFICES ASSUME NEW f \in Fields
                 PROVE  \/ Item(f) \in stale \/ AskedAfter(requests', replies, 0, {"status"})
                        \/ Settles(librespot', events', Shown(picture, f), f, 0)
      BY <1>0 DEF SessionPicture
    <2>1. \/ Item(f) \in stale \/ AskedAfter(requests, replies, 0, {"status"})
          \/ Settles(librespot, events, Shown(picture, f), f, 0)
      BY <1>2 DEF SessionPicture
    <2>2. 0 \in 0 .. Len(events) /\ 0 \in Nat
      BY <1>0
    <2>3. {"status"} \in {{"status"}, ModeAsks}
      OBVIOUS
    <2> QED BY <1>12, <2>1, <2>2, <2>3
  <1>8. ASSUME librespot'.session # "none", librespot.session = "none"
        PROVE  \A i \in 0 .. Len(events) : AskedAgain(events', i)
    <2>1. AskedAgain(happened, 0)
      BY <1>8 DEF TellsAllModes
    <2> QED BY <1>0, <1>1, <2>1, SettlesAdded
  <1>9. ASSUME librespot'.session # "none" PROVE ModeEvents'
    <2> SUFFICES ASSUME NEW mode \in ModeNames, NEW i \in 1 .. Len(events'),
                        TellsMode(events'[i], mode)
                 PROVE  ModeSettles(librespot', events', events'[i].on, mode, i)
      BY DEF ModeEvents
    <2>1. CASE i \in 1 .. Len(events) /\ events'[i] = events[i]
      <3>1. i \in 0 .. Len(events)
        BY <1>0, <2>1
      <3>2. CASE librespot.session = "none"
        BY <1>8, <1>9, <3>1, <3>2 DEF ModeSettles
      <3>3. CASE librespot.session # "none"
        <4>1. ModeSettles(librespot, events, events[i].on, mode, i)
          BY <1>2, <2>1, <3>3 DEF ModeEvents
        <4> QED BY <1>14, <1>9, <2>1, <3>1, <4>1
      <3> QED BY <3>2, <3>3
    <2>2. CASE \E j \in 1 .. Len(happened) : i = Len(events) + j /\ events'[i] = happened[j]
      BY <1>0, <1>1, <1>9, <2>2, SettlesAdded
    <2> QED BY <1>3, <2>1, <2>2
  <1>10. ASSUME librespot'.session # "none" PROVE ModeReplies'
    <2> SUFFICES ASSUME NEW mode \in ModeNames, NEW i \in 1 .. Len(replies),
                        Counts(replies[i], ModeAsks)
                 PROVE  \/ AskedAfter(requests', replies, i, ModeAsks)
                        \/ AskedAgain(events', replies[i].before)
                        \/ /\ replies[i].answer.session # "none"
                           /\ ModeSettles(librespot', events', mode \in replies[i].answer.modes,
                                          mode, replies[i].before)
      BY <1>0 DEF ModeReplies
    <2>1. i \in Nat /\ replies[i].before \in 0 .. Len(events)
      BY <1>4 DEF Counts
    <2>2. CASE librespot.session = "none"
      BY <1>8, <1>10, <2>1, <2>2
    <2>3. CASE librespot.session # "none"
      <3>1. \/ AskedAfter(requests, replies, i, ModeAsks) \/ AskedAgain(events, replies[i].before)
            \/ /\ replies[i].answer.session # "none"
               /\ ModeSettles(librespot, events, mode \in replies[i].answer.modes, mode,
                              replies[i].before)
        BY <1>2, <2>3 DEF ModeReplies
      <3>2. AskedAgain(events, replies[i].before) => AskedAgain(events', replies[i].before)
        BY <1>13, <2>1
      <3>3. \A on : ModeSettles(librespot, events, on, mode, replies[i].before)
                       => ModeSettles(librespot', events', on, mode, replies[i].before)
        BY <1>14, <1>10, <2>1
      <3> QED BY <2>1, <3>1, <3>2, <3>3
    <2> QED BY <2>2, <2>3
  <1>11. ASSUME librespot'.session # "none" PROVE ModePicture'
    <2> SUFFICES ASSUME NEW mode \in ModeNames
                 PROVE  \/ "modes" \in stale \/ AskedAfter(requests', replies, 0, ModeAsks)
                        \/ ModeSettles(librespot', events', mode \in picture.modes, mode, 0)
      BY <1>0 DEF ModePicture
    <2>1. 0 \in 0 .. Len(events) /\ 0 \in Nat
      BY <1>0
    <2>2. CASE librespot.session = "none"
      BY <1>8, <1>11, <2>1, <2>2 DEF ModeSettles
    <2>3. CASE librespot.session # "none"
      <3>1. \/ "modes" \in stale \/ AskedAfter(requests, replies, 0, ModeAsks)
            \/ ModeSettles(librespot, events, mode \in picture.modes, mode, 0)
        BY <1>2, <2>3 DEF ModePicture
      <3>2. \A on : ModeSettles(librespot, events, on, mode, 0)
                       => ModeSettles(librespot', events', on, mode, 0)
        BY <1>14, <1>11, <2>1
      <3> QED BY <2>1, <3>1, <3>2
    <2> QED BY <2>2, <2>3
  <1>15. NoTrackShown'
    <2> SUFFICES ASSUME librespot'.track = NoTrack, NEW f \in TrackFields, "track" \notin stale
                 PROVE  Settles(librespot', events', Shown(picture, f), f, 0)
      BY <1>0 DEF NoTrackShown
    <2>1. f \in Fields /\ 0 \in 0 .. Len(events)
      BY <1>0 DEF TrackFields, Fields
    <2>2. CASE librespot.track = NoTrack
      BY <1>2, <1>12, <2>1, <2>2 DEF NoTrackShown
    <2>3. CASE librespot.track # NoTrack
      <3>1. Truth(librespot', "track") # Truth(librespot, "track") /\ "track" \in Fields
        BY <2>3 DEF Truth, Fields
      <3>2. PICK j \in 1 .. Len(happened) : Tells(happened[j], "track")
        BY <3>1 DEF TellsAll
      <3>3. Tells(happened[j], f)
        BY <3>2 DEF Tells, TrackFields
      <3>4. /\ Len(events) + j \in 1 .. Len(events') /\ Len(events) + j > 0
            /\ events'[Len(events) + j] = happened[j]
        BY <1>0, <1>1 DEF Added
      <3> QED BY <3>3, <3>4 DEF Settles
    <2> QED BY <2>2, <2>3
  <1> QED BY <1>5, <1>6, <1>7, <1>9, <1>10, <1>11, <1>15 DEF OnTheWay

----------------------------------------------------------------------------
(* Every change of go-librespot is told.                                   *)

\* What each kind of event says.
LEMMA ToldValues ==
    /\ \A f \in Fields : Told(Event("inactive"), f) = Truth(Stopped, f)
    /\ Told(Event("active"), "active") = TRUE
    /\ Told(Event("playing"), "playing") = TRUE
    /\ Told(Event("paused"), "playing") = FALSE
    /\ \A track, position : /\ Told(Metadata(track, position), "track") = track
                            /\ Told(Metadata(track, position), "position") = position
    /\ \A position : Told(Seek(position), "position") = position
  <1>1. \A f \in Fields : Told(Event("inactive"), f) = Truth(Stopped, f)
    BY DEF Told, Event, AfterEvent, NowActive, NewPicture, Shown, Truth, Stopped, Fields
  <1>2. Told(Event("active"), "active") = TRUE
    BY DEF Told, Event, AfterEvent, NowActive, NewPicture, Shown
  <1>3. Told(Event("playing"), "playing") = TRUE
    BY DEF Told, Event, AfterEvent, NewPicture, Shown
  <1>4. Told(Event("paused"), "playing") = FALSE
    BY DEF Told, Event, AfterEvent, NewPicture, Shown
  <1>5. ASSUME NEW track, NEW position
        PROVE  /\ Told(Metadata(track, position), "track") = track
               /\ Told(Metadata(track, position), "position") = position
    <2>1. AfterEvent(NewPicture, Metadata(track, position))
              = [NewPicture EXCEPT !.track = track, !.position = position]
      BY DEF Metadata, AfterEvent, NewTrack
    <2> QED BY <2>1 DEF Told, NewPicture, Shown
  <1>6. \A position : Told(Seek(position), "position") = position
    BY DEF Told, Seek, AfterEvent, NewPicture, Shown
  <1> QED BY <1>1, <1>2, <1>3, <1>4, <1>5, <1>6

\* One event that tells of all that changed.
LEMMA OneEventTells ==
    ASSUME NEW event \in EventTypes, NEW l, NEW new,
           \A f \in Fields : IF Tells(event, f) THEN Told(event, f) = Truth(new, f)
                             ELSE Truth(new, f) = Truth(l, f),
           new.session # "none" =>
               /\ l.session = "none" => MayChangeModes(event)
               /\ \A mode \in ModeNames :
                     IF TellsMode(event, mode) THEN event.on <=> mode \in new.modes
                     ELSE MayChangeModes(event) \/ (mode \in new.modes <=> mode \in l.modes)
    PROVE  TellsAll(l, new, <<event>>) /\ TellsAllModes(l, new, <<event>>)
  <1> DEFINE happened == <<event>>
  <1>1. Len(happened) = 1 /\ happened[1] = event
    OBVIOUS
  <1> HIDE DEF happened
  <1>2. TellsAll(l, new, happened)
    BY <1>1 DEF TellsAll, Settles
  <1>3. TellsAllModes(l, new, happened)
    BY <1>1 DEF TellsAllModes, ModeSettles, AskedAgain
  <1> QED BY <1>2, <1>3 DEF happened

\* What a change tells is all that changed.
ToldOf(happened) ==
    /\ Emit(happened)
    /\ TellsAll(librespot, librespot', happened)
    /\ TellsAllModes(librespot, librespot', happened)

\* The changes, one by one: none at all,
LEMMA NothingTells ==
    ASSUME LibTypeOK, UNCHANGED <<events, librespot>>
    PROVE  \E happened \in Seq(EventTypes) : ToldOf(happened)
  <1>1. <<>> \in Seq(EventTypes) /\ Len(<<>>) = 0
    OBVIOUS
  <1>2. Emit(<<>>)
    BY DEF Emit, LibTypeOK
  <1>3. TellsAll(librespot, librespot', <<>>)
    BY <1>1 DEF TellsAll
  <1>4. TellsAllModes(librespot, librespot', <<>>)
    BY <1>1 DEF TellsAllModes
  <1> QED BY <1>1, <1>2, <1>3, <1>4 DEF ToldOf

\* a mode,
LEMMA ModeChangeTells ==
    ASSUME LibTypeOK, librespot.session # "none", NEW mode \in ModeNames, NEW on \in BOOLEAN,
           librespot' = [librespot EXCEPT !.modes = With(@, mode, on)],
           Emit(<<ModeEvent(mode, on)>>)
    PROVE  \E happened \in Seq(EventTypes) : ToldOf(happened)
  <1>1. ModeEvent(mode, on) \in EventTypes /\ <<ModeEvent(mode, on)>> \in Seq(EventTypes)
    BY EventTypesOf
  <1>2. /\ librespot'.session = librespot.session /\ librespot'.track = librespot.track
        /\ librespot'.position = librespot.position
        /\ librespot'.modes = With(librespot.modes, mode, on)
    BY DEF LibTypeOK, Librespots
  <1>3. \A f \in Fields : ~Tells(ModeEvent(mode, on), f) /\ Truth(librespot', f) = Truth(librespot, f)
    BY <1>2 DEF Tells, ModeEvent, Truth, Fields
  <1>4. \A m \in ModeNames :
           IF TellsMode(ModeEvent(mode, on), m) THEN ModeEvent(mode, on).on <=> m \in librespot'.modes
           ELSE m \in librespot'.modes <=> m \in librespot.modes
    BY <1>2 DEF TellsMode, ModeEvent, With
  <1>5. TellsAll(librespot, librespot', <<ModeEvent(mode, on)>>)
        /\ TellsAllModes(librespot, librespot', <<ModeEvent(mode, on)>>)
    BY <1>1, <1>2, <1>3, <1>4, OneEventTells
  <1> QED BY <1>1, <1>5 DEF ToldOf

\* the next track,
LEMMA TrackTells ==
    ASSUME LibTypeOK, librespot.session # "none", NEW modes \in SUBSET ModeNames,
           NEW track \in Tracks, NEW position \in Positions,
           librespot' = [librespot EXCEPT !.modes = modes, !.track = track, !.position = position],
           Emit(<<Metadata(track, position)>>)
    PROVE  \E happened \in Seq(EventTypes) : ToldOf(happened)
  <1> DEFINE event == Metadata(track, position)
  <1>1. event \in EventTypes /\ <<event>> \in Seq(EventTypes)
    BY EventTypesOf
  <1>2. /\ librespot'.session = librespot.session /\ librespot'.track = track
        /\ librespot'.position = position
    BY DEF LibTypeOK, Librespots
  <1>3. \A f \in Fields : Tells(event, f) <=> f \in {"track", "position"}
    BY DEF Tells, Metadata, Fields
  <1>4. \A f \in Fields : IF Tells(event, f) THEN Told(event, f) = Truth(librespot', f)
                          ELSE Truth(librespot', f) = Truth(librespot, f)
    BY <1>2, <1>3, ToldValues DEF Truth, Fields
  <1>5. MayChangeModes(event) /\ \A mode \in ModeNames : ~TellsMode(event, mode)
    BY DEF MayChangeModes, TellsMode, Metadata
  <1> HIDE DEF event
  <1>6. TellsAll(librespot, librespot', <<event>>) /\ TellsAllModes(librespot, librespot', <<event>>)
    BY <1>1, <1>2, <1>4, <1>5, OneEventTells
  <1> QED BY <1>1, <1>6 DEF ToldOf, event

\* another position,
LEMMA SeekTells ==
    ASSUME LibTypeOK, librespot.session # "none", NEW position \in Positions,
           librespot' = [librespot EXCEPT !.position = position], Emit(<<Seek(position)>>)
    PROVE  \E happened \in Seq(EventTypes) : ToldOf(happened)
  <1> DEFINE event == Seek(position)
  <1>1. event \in EventTypes /\ <<event>> \in Seq(EventTypes)
    BY EventTypesOf
  <1>2. /\ librespot'.session = librespot.session /\ librespot'.track = librespot.track
        /\ librespot'.position = position /\ librespot'.modes = librespot.modes
    BY DEF LibTypeOK, Librespots
  <1>3. \A f \in Fields : Tells(event, f) <=> f = "position"
    BY DEF Tells, Seek, Fields
  <1>4. \A f \in Fields : IF Tells(event, f) THEN Told(event, f) = Truth(librespot', f)
                          ELSE Truth(librespot', f) = Truth(librespot, f)
    BY <1>2, <1>3, ToldValues DEF Truth, Fields
  <1>5. \A mode \in ModeNames : ~TellsMode(event, mode)
    BY DEF TellsMode, Seek
  <1> HIDE DEF event
  <1>6. TellsAll(librespot, librespot', <<event>>) /\ TellsAllModes(librespot, librespot', <<event>>)
    BY <1>1, <1>2, <1>4, <1>5, OneEventTells
  <1> QED BY <1>1, <1>6 DEF ToldOf, event

\* a pause and its end,
LEMMA PauseTells ==
    ASSUME LibTypeOK, librespot.session # "none",
           NEW moment \in {"playing", "paused"}, moment # librespot.session,
           librespot' = [librespot EXCEPT !.session = moment], Emit(<<Event(moment)>>)
    PROVE  \E happened \in Seq(EventTypes) : ToldOf(happened)
  <1> DEFINE event == Event(moment)
  <1>1. event \in EventTypes /\ <<event>> \in Seq(EventTypes)
    BY EventTypesOf
  <1>2. /\ librespot'.session = moment /\ librespot'.track = librespot.track
        /\ librespot'.position = librespot.position /\ librespot'.modes = librespot.modes
    BY DEF LibTypeOK, Librespots
  <1>3. \A f \in Fields : Tells(event, f) <=> f = "playing"
    BY DEF Tells, Event, Fields
  <1>4. Told(event, "playing") = (moment = "playing")
    BY ToldValues
  <1>5. \A f \in Fields : IF Tells(event, f) THEN Told(event, f) = Truth(librespot', f)
                          ELSE Truth(librespot', f) = Truth(librespot, f)
    BY <1>2, <1>3, <1>4 DEF Truth, Fields
  <1>6. \A mode \in ModeNames : ~TellsMode(event, mode)
    BY DEF TellsMode, Event
  <1> HIDE DEF event
  <1>7. TellsAll(librespot, librespot', <<event>>) /\ TellsAllModes(librespot, librespot', <<event>>)
    BY <1>1, <1>2, <1>5, <1>6, OneEventTells
  <1> QED BY <1>1, <1>7 DEF ToldOf, event

\* the end of a session,
LEMMA SessionEndTells ==
    ASSUME LibTypeOK, librespot.session # "none", librespot' = Stopped,
           Emit(<<Event("inactive")>>)
    PROVE  \E happened \in Seq(EventTypes) : ToldOf(happened)
  <1> DEFINE event == Event("inactive")
  <1>1. event \in EventTypes /\ <<event>> \in Seq(EventTypes)
    BY EventTypesOf
  <1>2. \A f \in Fields : Tells(event, f) /\ Told(event, f) = Truth(librespot', f)
    BY ToldValues DEF Tells, Event
  <1>3. librespot'.session = "none"
    BY DEF Stopped
  <1> HIDE DEF event
  <1>4. TellsAll(librespot, librespot', <<event>>) /\ TellsAllModes(librespot, librespot', <<event>>)
    BY <1>1, <1>2, <1>3, OneEventTells
  <1> QED BY <1>1, <1>4 DEF ToldOf, event

\* its start, without a track
LEMMA SessionJoinTells ==
    ASSUME LibTypeOK, librespot.session = "none", NEW modes \in SUBSET ModeNames,
           librespot' = Joined(modes), Emit(<<Event("active")>>)
    PROVE  \E happened \in Seq(EventTypes) : ToldOf(happened)
  <1> DEFINE event == Event("active")
  <1>1. event \in EventTypes /\ <<event>> \in Seq(EventTypes)
    BY EventTypesOf
  <1>2. /\ librespot'.session = "paused" /\ librespot'.track = NoTrack
        /\ librespot'.position = 0
    BY DEF Joined
  <1>3. librespot.track = NoTrack /\ librespot.position = 0
    BY DEF LibTypeOK, Librespots
  <1>4. \A f \in Fields : Tells(event, f) <=> f = "active"
    BY DEF Tells, Event, Fields
  <1>5. \A f \in Fields : IF Tells(event, f) THEN Told(event, f) = Truth(librespot', f)
                          ELSE Truth(librespot', f) = Truth(librespot, f)
    BY <1>2, <1>3, <1>4, ToldValues DEF Truth, Fields
  <1>6. MayChangeModes(event) /\ \A mode \in ModeNames : ~TellsMode(event, mode)
    BY DEF MayChangeModes, TellsMode, Event
  <1> HIDE DEF event
  <1>7. TellsAll(librespot, librespot', <<event>>) /\ TellsAllModes(librespot, librespot', <<event>>)
    BY <1>1, <1>5, <1>6, OneEventTells
  <1> QED BY <1>1, <1>7 DEF ToldOf, event

\* or with one, which is told in three events.
LEMMA SessionStartTells ==
    ASSUME LibTypeOK, librespot.session = "none", NEW modes \in SUBSET ModeNames,
           NEW track \in Tracks, librespot' = Playing(modes, track),
           Emit(<<Event("active"), Metadata(track, 0), Event("playing")>>)
    PROVE  \E happened \in Seq(EventTypes) : ToldOf(happened)
  <1> DEFINE happened == <<Event("active"), Metadata(track, 0), Event("playing")>>
  <1>1. happened \in Seq(EventTypes)
    BY EventTypesOf, TracksAssumption
  <1>2. /\ Len(happened) = 3 /\ happened[1] = Event("active")
        /\ happened[2] = Metadata(track, 0) /\ happened[3] = Event("playing")
    OBVIOUS
  <1> HIDE DEF happened
  <1>3. /\ librespot'.session = "playing" /\ librespot'.track = track
        /\ librespot'.position = 0 /\ librespot'.modes = modes
    BY DEF Playing
  <1>4. \A f \in Fields : /\ Tells(Event("active"), f) <=> f = "active"
                          /\ Tells(Metadata(track, 0), f) <=> f \in {"track", "position"}
                          /\ Tells(Event("playing"), f) <=> f = "playing"
    BY DEF Tells, Event, Metadata, Fields
  <1>5. TellsAll(librespot, librespot', happened)
    <2> SUFFICES ASSUME NEW f \in Fields
                 PROVE  /\ \E j \in 1 .. Len(happened) : Tells(happened[j], f)
                        /\ \A j \in 1 .. Len(happened) :
                              Tells(happened[j], f) => Told(happened[j], f) = Truth(librespot', f)
      BY DEF TellsAll, Settles
    <2>1. \E j \in {1, 2, 3} : Tells(happened[j], f)
      BY <1>2, <1>4 DEF Fields
    <2>2. \A j \in {1, 2, 3} : Tells(happened[j], f) => Told(happened[j], f) = Truth(librespot', f)
      <3>1. Truth(librespot', "active") = TRUE /\ Truth(librespot', "playing") = TRUE
        BY <1>3 DEF Truth
      <3>2. Truth(librespot', "track") = track /\ Truth(librespot', "position") = 0
        BY <1>3 DEF Truth
      <3>3. CASE f = "active"
        <4>1. Told(happened[1], f) = Truth(librespot', f)
          BY <1>2, <3>1, <3>3, ToldValues
        <4> QED BY <1>2, <1>4, <3>3, <4>1
      <3>4. CASE f = "playing"
        <4>1. Told(happened[3], f) = Truth(librespot', f)
          BY <1>2, <3>1, <3>4, ToldValues
        <4> QED BY <1>2, <1>4, <3>4, <4>1
      <3>5. CASE f \in {"track", "position"}
        <4>1. Told(happened[2], f) = Truth(librespot', f)
          BY <1>2, <3>2, <3>5, ToldValues
        <4> QED BY <1>2, <1>4, <3>5, <4>1
      <3> QED BY <3>3, <3>4, <3>5 DEF Fields
    <2>3. 1 .. Len(happened) = {1, 2, 3}
      BY <1>2
    <2> QED BY <2>1, <2>2, <2>3
  <1>6. TellsAllModes(librespot, librespot', happened)
    <2>1. MayChangeModes(happened[1]) /\ 1 \in 1 .. Len(happened)
      BY <1>2 DEF MayChangeModes, Event
    <2>2. AskedAgain(happened, 0)
      BY <2>1 DEF AskedAgain
    <2>3. \A j \in {1, 2, 3}, mode \in ModeNames : ~TellsMode(happened[j], mode)
      BY <1>2 DEF TellsMode, Event, Metadata
    <2>4. 1 .. Len(happened) = {1, 2, 3}
      BY <1>2
    <2> QED BY <2>2, <2>3, <2>4 DEF TellsAllModes
  <1> QED BY <1>1, <1>5, <1>6 DEF ToldOf, happened

\* Whatever go-librespot does by itself is told.
LEMMA LibrespotChangesTell ==
    ASSUME LibTypeOK, LibrespotChanges
    PROVE  \E happened \in Seq(EventTypes) : ToldOf(happened)
  <1>1. CASE SessionChanges
    BY <1>1, SessionJoinTells, SessionStartTells, SessionEndTells DEF SessionChanges
  <1>2. CASE PlaybackChanges
    <2>1. librespot.session # "none" /\ librespot.session \in {"none", "playing", "paused"}
      BY <1>2 DEF PlaybackChanges, LibTypeOK, Librespots
    <2>2. CASE LET moment == IF librespot.session = "playing" THEN "paused" ELSE "playing" IN
               librespot' = [librespot EXCEPT !.session = moment] /\ Emit(<<Event(moment)>>)
      BY <2>1, <2>2, PauseTells
    <2>3. CASE \E mode \in ModeNames :
                  LET on == mode \notin librespot.modes IN
                  /\ librespot' = [librespot EXCEPT !.modes = With(@, mode, on)]
                  /\ Emit(<<ModeEvent(mode, on)>>)
      <3> PICK mode \in ModeNames :
                  /\ librespot' = [librespot EXCEPT !.modes = With(@, mode, mode \notin librespot.modes)]
                  /\ Emit(<<ModeEvent(mode, mode \notin librespot.modes)>>)
        BY <2>3
      <3>1. (mode \notin librespot.modes) \in BOOLEAN
        OBVIOUS
      <3> QED BY <2>1, <3>1, ModeChangeTells
    <2>4. CASE \E position \in Positions \ {librespot.position} :
                  /\ librespot' = [librespot EXCEPT !.position = position]
                  /\ Emit(<<Seek(position)>>)
      BY <2>1, <2>4, SeekTells
    <2>5. CASE \E modes \in SUBSET ModeNames, track \in Tracks :
                  /\ librespot' = [librespot EXCEPT !.modes = modes, !.track = track, !.position = 0]
                  /\ Emit(<<Metadata(track, 0)>>)
      BY <2>1, <2>5, TrackTells, TracksAssumption
    <2> QED BY <1>2, <2>2, <2>3, <2>4, <2>5 DEF PlaybackChanges
  <1> QED BY <1>1, <1>2 DEF LibrespotChanges

\* Requests that change something are told of too.
LEMMA RequestServedTells ==
    ASSUME LibTypeOK, RequestServed, UNCHANGED replies
    PROVE  \E happened \in Seq(EventTypes) : ToldOf(happened)
  <1>1. Head(requests) \in RequestTypes
    BY DEF RequestServed, LibTypeOK
  <1>2. CASE UNCHANGED <<librespot, events>>
    BY <1>2, NothingTells
  <1>3. CASE /\ Head(requests).ask = "set" /\ librespot.session # "none"
             /\ librespot' = [librespot EXCEPT
                                 !.modes = With(@, Head(requests).mode, Head(requests).on)]
             /\ Emit(<<ModeEvent(Head(requests).mode, Head(requests).on)>>)
    <2>1. Head(requests).mode \in ModeNames /\ Head(requests).on \in BOOLEAN
      BY <1>1, <1>3 DEF RequestTypes
    <2> QED BY <1>3, <2>1, ModeChangeTells
  <1>4. CASE librespot.session # "none" /\ \E track \in Tracks : TrackStarts(track, 0)
    <2> PICK track \in Tracks : TrackStarts(track, 0)
      BY <1>4
    <2>1. librespot' = [librespot EXCEPT !.modes = librespot.modes, !.track = track, !.position = 0]
      BY DEF TrackStarts, LibTypeOK, Librespots
    <2>2. librespot.modes \in SUBSET ModeNames
      BY DEF LibTypeOK, Librespots
    <2> QED BY <1>4, <2>1, <2>2, TrackTells, TracksAssumption DEF TrackStarts
  <1> QED BY <1>2, <1>3, <1>4 DEF RequestServed

----------------------------------------------------------------------------
(* The other steps.                                                        *)

\* A request more at the end of the queue, a reply more.
LEMMA MoreAsked ==
    ASSUME NEW waiting \in Seq(RequestTypes), NEW request \in RequestTypes, NEW answered, NEW i,
           NEW asks
    PROVE  /\ AskedAfter(waiting, answered, i, asks)
                  => AskedAfter(Append(waiting, request), answered, i, asks)
           /\ request.ask \in asks => AskedAfter(Append(waiting, request), answered, i, asks)
  <1> DEFINE more == Append(waiting, request)
  <1>1. /\ Len(waiting) \in Nat /\ Len(more) = Len(waiting) + 1 /\ more[Len(waiting) + 1] = request
        /\ \A j \in 1 .. Len(waiting) : more[j] = waiting[j]
    OBVIOUS
  <1> HIDE DEF more
  <1>2. \A j \in 1 .. Len(waiting) : j \in 1 .. Len(more)
    BY <1>1
  <1>3. Len(waiting) + 1 \in 1 .. Len(more)
    BY <1>1
  <1>4. AskedAfter(waiting, answered, i, asks) => AskedAfter(more, answered, i, asks)
    BY <1>1, <1>2 DEF AskedAfter
  <1>5. request.ask \in asks => AskedAfter(more, answered, i, asks)
    BY <1>1, <1>3 DEF AskedAfter
  <1> QED BY <1>4, <1>5 DEF more

\* The oldest request served or failed: it asked nothing, or its reply is waiting.
LEMMA RequestDone ==
    ASSUME NEW waiting \in Seq(RequestTypes), waiting # <<>>, NEW answered \in Seq(ReplyTypes),
           NEW reply \in ReplyTypes, reply.ask = Head(waiting).ask, NEW asks, NEW i \in Nat
    PROVE  /\ Head(waiting).ask \notin asks /\ AskedAfter(waiting, answered, i, asks)
                  => AskedAfter(Tail(waiting), answered, i, asks)
           /\ i <= Len(answered) /\ AskedAfter(waiting, answered, i, asks)
                  => AskedAfter(Tail(waiting), Append(answered, reply), i, asks)
  <1> DEFINE rest == Tail(waiting)
             more == Append(answered, reply)
  <1>1. /\ Len(waiting) \in Nat \ {0} /\ Len(rest) = Len(waiting) - 1 /\ waiting[1] = Head(waiting)
        /\ \A j \in 1 .. Len(rest) : rest[j] = waiting[j + 1]
    OBVIOUS
  <1>2. /\ Len(answered) \in Nat /\ Len(more) = Len(answered) + 1 /\ more[Len(answered) + 1] = reply
        /\ \A j \in 1 .. Len(answered) : more[j] = answered[j]
    OBVIOUS
  <1> HIDE DEF rest, more
  <1>3. \A j \in 1 .. Len(waiting) : j = 1 \/ (j - 1 \in 1 .. Len(rest) /\ rest[j - 1] = waiting[j])
    BY <1>1
  <1>4. \A j \in 1 .. Len(answered) : j \in 1 .. Len(more) /\ more[j] = answered[j]
    BY <1>2
  <1>5. Len(answered) + 1 \in 1 .. Len(more) /\ (i <= Len(answered) => Len(answered) + 1 > i)
    BY <1>2
  <1>6. Head(waiting).ask \notin asks /\ AskedAfter(waiting, answered, i, asks)
           => AskedAfter(rest, answered, i, asks)
    BY <1>1, <1>3 DEF AskedAfter
  <1>7. i <= Len(answered) /\ AskedAfter(waiting, answered, i, asks)
           => AskedAfter(rest, more, i, asks)
    BY <1>1, <1>2, <1>3, <1>4, <1>5 DEF AskedAfter
  <1> QED BY <1>6, <1>7 DEF rest, more

\* A reply to a status request also replies to one for the modes.
LEMMA OnOpenKeeps == LibInv /\ OnOpen => OnTheWay'
  <1> SUFFICES ASSUME LibInv, OnOpen PROVE OnTheWay'
    OBVIOUS
  <1>0. /\ LibTypeOK /\ requests \in Seq(RequestTypes) /\ events' = <<>>
        /\ replies' = Overtaken /\ requests' = Append(requests, [ask |-> "status"])
        /\ link = "down" /\ UNCHANGED <<picture, librespot, stale>>
    BY DEF LibInv, LibTypeOK, Linked, OnOpen, Queued
  <1>1. [ask |-> "status"] \in RequestTypes
    BY DEF RequestTypes
  <1>2. \A i, asks : "status" \in asks => AskedAfter(requests', replies', i, asks)
    BY <1>0, <1>1, MoreAsked
  <1>3. Len(events') = 0
    BY <1>0
  <1>4. SessionEvents' /\ ModeEvents'
    BY <1>3 DEF SessionEvents, ModeEvents
  <1>5. SessionPicture'
    BY <1>2 DEF SessionPicture
  <1>6. "status" \in ModeAsks
    BY DEF ModeAsks
  <1>7. ModeReplies' /\ ModePicture'
    BY <1>2, <1>6 DEF ModeReplies, ModePicture
  <1>8. SessionReplies'
    BY <1>0, OvertakenShape DEF SessionReplies, Counts
  <1>9. NoTrackShown'
    <2> SUFFICES ASSUME librespot.track = NoTrack, NEW f \in TrackFields, "track" \notin stale
                 PROVE  Settles(librespot, events', Shown(picture, f), f, 0)
      BY <1>0 DEF NoTrackShown
    <2>1. librespot.position = 0
      BY <1>0 DEF LibTypeOK, Librespots
    <2>2. picture.track = NoTrack /\ picture.position = 0
      BY <1>0 DEF LibInv, Linked
    <2> QED BY <2>1, <2>2 DEF Settles, Shown, Truth, TrackFields
  <1> QED BY <1>4, <1>5, <1>7, <1>8, <1>9 DEF OnTheWay

\* A button pressed asks for one thing more.
LEMMA PressKeeps ==
    ASSUME LibInv, NEW request \in RequestTypes, requests' = Append(requests, request),
           UNCHANGED <<link, events, replies, picture, librespot, stale>>
    PROVE  OnTheWay'
  <1>1. requests \in Seq(RequestTypes)
    BY DEF LibInv, LibTypeOK
  <1>2. \A i, asks : AskedAfter(requests, replies, i, asks) => AskedAfter(requests', replies', i, asks)
    BY <1>1, MoreAsked
  <1>3. SessionEvents /\ SessionReplies /\ SessionPicture
           => SessionEvents' /\ SessionReplies' /\ SessionPicture'
    BY <1>2 DEF SessionEvents, SessionReplies, SessionPicture
  <1>5. NoTrackShown => NoTrackShown'
    BY DEF NoTrackShown
  <1>4. ModeEvents /\ ModeReplies /\ ModePicture => ModeEvents' /\ ModeReplies' /\ ModePicture'
    BY <1>2 DEF ModeEvents, ModeReplies, ModePicture
  <1> QED BY <1>3, <1>4, <1>5 DEF LibInv, OnTheWay

\* A request that changes something tells of it; a question's answer is go-librespot
\* as it is, with what has not been read yet before it.
LEMMA RequestServedKeeps == LibInv /\ LibTypeOK' /\ RequestServed => OnTheWay'
  <1> SUFFICES ASSUME LibInv, LibTypeOK', RequestServed, link = "up" PROVE OnTheWay'
    BY DEF RequestServed, OnTheWay
  <1>0. /\ LibTypeOK /\ requests \in Seq(RequestTypes) /\ replies \in Seq(ReplyTypes)
        /\ requests # <<>> /\ requests' = Tail(requests) /\ Head(requests) \in RequestTypes
        /\ UNCHANGED <<link, picture, stale>> /\ Len(replies) \in Nat
    BY DEF LibInv, LibTypeOK, RequestServed
  <1>1. CASE Head(requests).ask \in {"set", "skip"}
    <2>1. UNCHANGED replies
      BY <1>1 DEF RequestServed
    <2>2. PICK happened \in Seq(EventTypes) : ToldOf(happened)
      BY <1>0, <2>1, RequestServedTells
    <2>3. ASSUME NEW i \in Nat, NEW asks \in {{"status"}, ModeAsks},
                 AskedAfter(requests, replies, i, asks)
          PROVE  AskedAfter(requests', replies, i, asks)
      <3>1. Head(requests).ask \notin asks
        BY <1>1 DEF ModeAsks
      <3>2. \A j \in 1 .. Len(requests) :
               j = 1 \/ (j - 1 \in 1 .. Len(requests') /\ requests'[j - 1] = requests[j])
        BY <1>0
      <3>3. requests[1] = Head(requests)
        BY <1>0
      <3> QED BY <2>3, <3>1, <3>2, <3>3 DEF AskedAfter
    <2> QED BY <1>0, <2>1, <2>2, <2>3, ChangeKeepsOnTheWay DEF ToldOf
  <1>2. CASE Head(requests).ask \in {"status", "modes"}
    <2> DEFINE ask == Head(requests).ask
    <2>1. PICK status \in {200, 204} : /\ status = 204 => librespot.session = "none"
                                       /\ replies' = Append(replies, Reply(ask, status))
      BY <1>2 DEF RequestServed
    <2> DEFINE reply == Reply(ask, status)
    <2>2. UNCHANGED <<librespot, events>>
      BY <1>2 DEF RequestServed
    <2>3. reply \in ReplyTypes /\ reply.ask = ask
      BY <1>0, <1>2, <2>1, ReplyType DEF Reply
    <2>4. reply.answer = librespot /\ reply.before = Len(events)
      BY DEF Reply
    <2> HIDE DEF reply
    <2>5. /\ Len(replies') = Len(replies) + 1 /\ replies'[Len(replies) + 1] = reply
          /\ \A i \in 1 .. Len(replies) : replies'[i] = replies[i]
      BY <1>0, <2>1 DEF reply
    <2>6. ASSUME NEW i \in 0 .. Len(replies), NEW asks, AskedAfter(requests, replies, i, asks)
          PROVE  AskedAfter(requests', replies', i, asks)
      <3>1. i \in Nat /\ i <= Len(replies)
        BY <1>0
      <3> QED BY <1>0, <2>1, <2>3, <2>6, <3>1, RequestDone DEF reply
    <2>7. \A i \in 1 .. Len(replies') : i \in 1 .. Len(replies) \/ i = Len(replies) + 1
      BY <1>0, <2>5
    <2>8. \A i \in 1 .. Len(replies) : i \in 0 .. Len(replies)
      BY <1>0
    <2>9. 0 \in 0 .. Len(replies)
      BY <1>0
    <2>10. SessionReplies => SessionReplies'
      <3> SUFFICES ASSUME SessionReplies, NEW f \in Fields, NEW i \in 1 .. Len(replies'),
                          Counts(replies'[i], {"status"})
                   PROVE  Settles(librespot, events, Truth(replies'[i].answer, f), f,
                                  replies'[i].before)
        BY <2>2 DEF SessionReplies
      <3>1. CASE i \in 1 .. Len(replies)
        BY <2>5, <3>1 DEF SessionReplies
      <3>2. CASE i = Len(replies) + 1
        BY <2>4, <2>5, <3>2 DEF Settles
      <3> QED BY <2>7, <3>1, <3>2
    <2>11. ModeReplies /\ librespot.session # "none" => ModeReplies'
      <3> SUFFICES ASSUME ModeReplies, librespot.session # "none", NEW mode \in ModeNames,
                          NEW i \in 1 .. Len(replies'), Counts(replies'[i], ModeAsks)
                   PROVE  \/ AskedAfter(requests', replies', i, ModeAsks)
                          \/ AskedAgain(events, replies'[i].before)
                          \/ /\ replies'[i].answer.session # "none"
                             /\ ModeSettles(librespot, events, mode \in replies'[i].answer.modes,
                                            mode, replies'[i].before)
        BY <2>2 DEF ModeReplies
      <3>1. CASE i \in 1 .. Len(replies)
        BY <2>5, <2>6, <2>8, <3>1 DEF ModeReplies
      <3>2. CASE i = Len(replies) + 1
        BY <2>4, <2>5, <3>2 DEF ModeSettles
      <3> QED BY <2>7, <3>1, <3>2
    <2>12. /\ (SessionEvents => SessionEvents') /\ (ModeEvents => ModeEvents')
           /\ (SessionPicture => SessionPicture') /\ (ModePicture => ModePicture')
      BY <1>0, <2>2, <2>6, <2>9 DEF SessionEvents, ModeEvents, SessionPicture, ModePicture
    <2>13. NoTrackShown => NoTrackShown'
      BY <1>0, <2>2 DEF NoTrackShown
    <2> QED BY <2>2, <2>10, <2>11, <2>12, <2>13 DEF LibInv, OnTheWay
  <1> QED BY <1>0, <1>1, <1>2 DEF RequestTypes

\* No answer: a question's reply says so.
LEMMA RequestFailsKeeps == LibInv /\ RequestFails => OnTheWay'
  <1> SUFFICES ASSUME LibInv, RequestFails, link = "up" PROVE OnTheWay'
    BY DEF RequestFails, OnTheWay
  <1>0. /\ LibTypeOK /\ requests \in Seq(RequestTypes) /\ replies \in Seq(ReplyTypes)
        /\ requests # <<>> /\ requests' = Tail(requests) /\ Head(requests) \in RequestTypes
        /\ UNCHANGED <<link, picture, stale, events, librespot>> /\ Len(replies) \in Nat
    BY DEF LibInv, LibTypeOK, RequestFails
  <1>1. ASSUME NEW n \in Nat, n >= Len(replies), Len(replies') = n,
               \A i \in 1 .. Len(replies) : replies'[i] = replies[i],
               \A i \in 1 .. n : i > Len(replies) => replies'[i].status = 0,
               \A i \in 0 .. Len(replies) : \A asks \in {{"status"}, ModeAsks} :
                  AskedAfter(requests, replies, i, asks) => AskedAfter(requests', replies', i, asks)
        PROVE  OnTheWay'
    <2>1. \A asks : \A i \in 1 .. n : Counts(replies'[i], asks) =>
              i \in 1 .. Len(replies) /\ i \in 0 .. Len(replies) /\ replies'[i] = replies[i]
      BY <1>0, <1>1 DEF Counts
    <2>2. {"status"} \in {{"status"}, ModeAsks} /\ ModeAsks \in {{"status"}, ModeAsks}
          /\ 0 \in 0 .. Len(replies)
      BY <1>0
    <2>3. SessionReplies => SessionReplies'
      BY <1>0, <1>1, <2>1 DEF SessionReplies
    <2>4. ModeReplies => ModeReplies'
      BY <1>0, <1>1, <2>1, <2>2 DEF ModeReplies
    <2>5. /\ (SessionEvents => SessionEvents') /\ (ModeEvents => ModeEvents')
          /\ (SessionPicture => SessionPicture') /\ (ModePicture => ModePicture')
      BY <1>0, <1>1, <2>2 DEF SessionEvents, ModeEvents, SessionPicture, ModePicture
    <2>6. NoTrackShown => NoTrackShown'
      BY <1>0 DEF NoTrackShown
    <2> QED BY <1>0, <2>3, <2>4, <2>5, <2>6 DEF LibInv, OnTheWay
  <1>2. CASE Head(requests).ask \in {"set", "skip"}
    <2>1. UNCHANGED replies
      BY <1>2 DEF RequestFails
    <2>2. \A j \in 1 .. Len(requests) :
             j = 1 \/ (j - 1 \in 1 .. Len(requests') /\ requests'[j - 1] = requests[j])
      BY <1>0
    <2>3. requests[1] = Head(requests)
      BY <1>0
    <2>4. \A asks \in {{"status"}, ModeAsks} : Head(requests).ask \notin asks
      BY <1>2 DEF ModeAsks
    <2>5. \A i \in 0 .. Len(replies) : \A asks \in {{"status"}, ModeAsks} :
             AskedAfter(requests, replies, i, asks) => AskedAfter(requests', replies', i, asks)
      BY <2>1, <2>2, <2>3, <2>4 DEF AskedAfter
    <2> QED BY <1>0, <1>1, <2>1, <2>5
  <1>3. CASE Head(requests).ask \in {"status", "modes"}
    <2> DEFINE reply == Reply(Head(requests).ask, 0)
    <2>1. replies' = Append(replies, reply)
      BY <1>3 DEF RequestFails
    <2>2. reply \in ReplyTypes /\ reply.ask = Head(requests).ask /\ reply.status = 0
      <3>1. reply \in ReplyTypes
        BY <1>0, <1>3, ReplyType
      <3> QED BY <3>1 DEF Reply
    <2> HIDE DEF reply
    <2>3. /\ Len(replies') = Len(replies) + 1 /\ replies'[Len(replies) + 1] = reply
          /\ \A i \in 1 .. Len(replies) : replies'[i] = replies[i]
      BY <1>0, <2>1
    <2>4. ASSUME NEW i \in 0 .. Len(replies), NEW asks, AskedAfter(requests, replies, i, asks)
          PROVE  AskedAfter(requests', replies', i, asks)
      <3>1. i \in Nat /\ i <= Len(replies)
        BY <1>0
      <3> QED BY <1>0, <2>1, <2>2, <2>4, <3>1, RequestDone
    <2>5. \A i \in 1 .. Len(replies) + 1 : i > Len(replies) => replies'[i].status = 0
      BY <1>0, <2>2, <2>3
    <2> QED BY <1>0, <1>1, <2>3, <2>4, <2>5
  <1> QED BY <1>0, <1>2, <1>3 DEF RequestTypes

\* An event read is in the picture; the modes are asked for after some.
LEMMA OnMessageKeeps == LibInv /\ LibTypeOK' /\ OnMessage => OnTheWay'
  <1> SUFFICES ASSUME LibInv, LibTypeOK', OnMessage, link = "up" PROVE OnTheWay'
    BY DEF OnMessage, OnTheWay
  <1> DEFINE event == events[1]
  <1>0. /\ LibTypeOK /\ events \in Seq(EventTypes) /\ events' \in Seq(EventTypes)
        /\ replies \in Seq(ReplyTypes) /\ requests \in Seq(RequestTypes)
        /\ event \in EventTypes /\ Len(events) \in Nat \ {0} /\ Len(events') = Len(events) - 1
        /\ \A i \in 1 .. Len(events') : events'[i] = events[i + 1]
        /\ picture \in Pictures /\ picture' = AfterEvent(picture, event)
        /\ UNCHANGED <<link, librespot, stale>>
    BY OnMessageShape DEF LibInv, LibTypeOK, OnMessage
  <1>1. Len(replies') = Len(replies) /\ Len(replies) \in Nat
        /\ \A i \in 1 .. Len(replies) : replies[i] \in ReplyTypes /\ replies'[i] = Passed(replies[i])
    BY <1>0, OnMessageShape
  <1>2. ASSUME NEW i, NEW asks, AskedAfter(requests, replies, i, asks)
        PROVE  AskedAfter(requests', replies', i, asks)
    <2>1. AskedAfter(requests, replies', i, asks)
      BY <1>1, <1>2, PassedFields DEF AskedAfter
    <2>2. [ask |-> "modes"] \in RequestTypes
      BY DEF RequestTypes
    <2>3. requests' = requests \/ requests' = Append(requests, [ask |-> "modes"])
      BY DEF OnMessage, Queued
    <2> QED BY <1>0, <2>1, <2>2, <2>3, MoreAsked
  <1>3. ASSUME MayChangeModes(event), NEW i PROVE AskedAfter(requests', replies', i, ModeAsks)
    <2>1. requests' = Append(requests, [ask |-> "modes"])
      BY <1>0, <1>3, OnMessageShape DEF OnMessage, Queued, LibInv
    <2>2. [ask |-> "modes"] \in RequestTypes /\ "modes" \in ModeAsks
      BY DEF RequestTypes, ModeAsks
    <2> QED BY <1>0, <2>1, <2>2, MoreAsked
  <1>4. ASSUME NEW i \in 1 .. Len(replies), NEW asks, Counts(replies'[i], asks)
        PROVE  /\ Counts(replies[i], asks) /\ replies'[i].answer = replies[i].answer
               /\ replies'[i].before \in Nat /\ replies[i].before = replies'[i].before + 1
    BY <1>1, <1>4, PassedFields DEF Counts, ReplyTypes
  <1>5. ASSUME NEW i \in Nat
        PROVE  /\ \A f, value : Settles(librespot, events, value, f, i + 1)
                                   => Settles(librespot, events', value, f, i)
               /\ AskedAgain(events, i + 1) => AskedAgain(events', i)
               /\ \A mode, on : ModeSettles(librespot, events, on, mode, i + 1)
                                   => ModeSettles(librespot, events', on, mode, i)
    BY <1>0, SettlesRead
  <1>6. \A i \in 1 .. Len(events') :
           i \in Nat /\ i + 1 \in 1 .. Len(events) /\ events'[i] = events[i + 1]
    BY <1>0
  <1>7. SessionEvents => SessionEvents'
    BY <1>0, <1>5, <1>6 DEF SessionEvents
  <1>8. ModeEvents => ModeEvents'
    BY <1>0, <1>5, <1>6 DEF ModeEvents
  <1>9. SessionReplies => SessionReplies'
    <2> SUFFICES ASSUME SessionReplies, NEW f \in Fields, NEW i \in 1 .. Len(replies),
                        Counts(replies'[i], {"status"})
                 PROVE  Settles(librespot, events', Truth(replies'[i].answer, f), f,
                                replies'[i].before)
      BY <1>0, <1>1 DEF SessionReplies
    <2>1. /\ Counts(replies[i], {"status"}) /\ replies'[i].answer = replies[i].answer
          /\ replies'[i].before \in Nat /\ replies[i].before = replies'[i].before + 1
      BY <1>4
    <2>2. Settles(librespot, events, Truth(replies[i].answer, f), f, replies[i].before)
      BY <2>1 DEF SessionReplies
    <2> QED BY <1>5, <2>1, <2>2
  <1>10. ModeReplies => ModeReplies'
    <2> SUFFICES ASSUME ModeReplies, NEW mode \in ModeNames, NEW i \in 1 .. Len(replies),
                        Counts(replies'[i], ModeAsks)
                 PROVE  \/ AskedAfter(requests', replies', i, ModeAsks)
                        \/ AskedAgain(events', replies'[i].before)
                        \/ /\ replies'[i].answer.session # "none"
                           /\ ModeSettles(librespot, events', mode \in replies'[i].answer.modes,
                                          mode, replies'[i].before)
      BY <1>0, <1>1 DEF ModeReplies
    <2>1. /\ Counts(replies[i], ModeAsks) /\ replies'[i].answer = replies[i].answer
          /\ replies'[i].before \in Nat /\ replies[i].before = replies'[i].before + 1
      BY <1>4
    <2>2. \/ AskedAfter(requests, replies, i, ModeAsks) \/ AskedAgain(events, replies[i].before)
          \/ /\ replies[i].answer.session # "none"
             /\ ModeSettles(librespot, events, mode \in replies[i].answer.modes, mode,
                            replies[i].before)
      BY <2>1 DEF ModeReplies
    <2> QED BY <1>2, <1>5, <2>1, <2>2
  <1>11. ASSUME SessionEvents, NEW f \in Fields
         PROVE  \/ Settles(librespot, events', Shown(picture', f), f, 0)
                \/ ~Settles(librespot, events, Shown(picture, f), f, 0)
    <2>1. Shown(picture', f) = IF Tells(event, f) THEN Told(event, f) ELSE Shown(picture, f)
      BY <1>0, AfterEventFields
    <2>2. CASE Tells(event, f)
      <3>1. 1 \in 1 .. Len(events)
        BY <1>0
      <3>2. Settles(librespot, events, Told(event, f), f, 0 + 1)
        BY <1>11, <2>2, <3>1 DEF SessionEvents
      <3> QED BY <1>5, <2>1, <2>2, <3>2
    <2>3. CASE ~Tells(event, f)
      <3>1. Settles(librespot, events, Shown(picture, f), f, 0)
               => Settles(librespot, events', Shown(picture, f), f, 0)
        BY <1>0, <2>3, SettlesRead
      <3> QED BY <2>1, <2>3, <3>1
    <2> QED BY <2>2, <2>3
  <1>12. SessionEvents /\ SessionPicture => SessionPicture'
    BY <1>0, <1>2, <1>11 DEF SessionPicture
  <1>13. SessionEvents /\ NoTrackShown => NoTrackShown'
    <2>1. TrackFields \subseteq Fields
      BY DEF TrackFields, Fields
    <2> QED BY <1>0, <1>11, <2>1 DEF NoTrackShown
  <1>14. ModeEvents /\ ModePicture => ModePicture'
    <2> SUFFICES ASSUME ModeEvents, ModePicture, NEW mode \in ModeNames
                 PROVE  \/ "modes" \in stale \/ AskedAfter(requests', replies', 0, ModeAsks)
                        \/ ModeSettles(librespot, events', mode \in picture'.modes, mode, 0)
      BY <1>0 DEF ModePicture
    <2>1. mode \in picture'.modes
             <=> IF TellsMode(event, mode) THEN event.on ELSE mode \in picture.modes
      BY <1>0, AfterEventModes
    <2>2. CASE MayChangeModes(event)
      BY <1>3, <2>2
    <2>3. CASE TellsMode(event, mode)
      <3>1. 1 \in 1 .. Len(events)
        BY <1>0
      <3>2. ModeSettles(librespot, events, event.on, mode, 0 + 1)
        BY <2>3, <3>1 DEF ModeEvents
      <3>3. ModeSettles(librespot, events', event.on, mode, 0)
        BY <1>5, <3>2
      <3> QED BY <2>1, <2>3, <3>3 DEF ModeSettles
    <2>4. CASE ~TellsMode(event, mode) /\ ~MayChangeModes(event)
      <3>1. ModeSettles(librespot, events, mode \in picture.modes, mode, 0)
               => ModeSettles(librespot, events', mode \in picture.modes, mode, 0)
        BY <1>0, <2>4, SettlesRead
      <3>2. ModeSettles(librespot, events', mode \in picture.modes, mode, 0)
               => ModeSettles(librespot, events', mode \in picture'.modes, mode, 0)
        BY <2>1, <2>4 DEF ModeSettles
      <3> QED BY <1>2, <3>1, <3>2 DEF ModePicture
    <2> QED BY <2>2, <2>3, <2>4
  <1> QED BY <1>0, <1>7, <1>8, <1>9, <1>10, <1>14, <1>12, <1>13 DEF LibInv, OnTheWay

\* A reply handled puts what it was asked for right, or is known to be overtaken or lost.
LEMMA ReplyHandledKeeps == LibInv /\ LibTypeOK' /\ ReplyHandled => OnTheWay'
  <1> SUFFICES ASSUME LibInv, LibTypeOK', ReplyHandled, link = "up" PROVE OnTheWay'
    BY DEF ReplyHandled, OnTheWay
  <1> DEFINE reply == replies[1]
  <1>0. /\ LibTypeOK /\ Len(replies) \in Nat \ {0} /\ Len(replies') = Len(replies) - 1
        /\ \A i \in 1 .. Len(replies') : replies'[i] = replies[i + 1]
        /\ reply \in ReplyTypes /\ reply = Head(replies) /\ Len(events) \in Nat
        /\ picture \in Pictures
        /\ UNCHANGED <<link, requests, events, librespot>>
    BY ReplyHandledShape DEF LibInv, LibTypeOK, ReplyHandled
  <1>1. /\ reply.ask \in {"status", "modes"} /\ reply.status \in {0, 200, 204}
        /\ reply.answer \in Librespots /\ reply.before \in Nat
        /\ reply.status = 204 => reply.answer.session = "none"
    BY <1>0 DEF ReplyTypes
  <1>2. picture' = CASE reply.ask = "status" /\ reply.status = 204 -> NoSession(picture)
                     [] reply.ask = "status" /\ reply.status = 200 -> AfterStatus(picture, reply.answer)
                     [] reply.ask = "modes"  /\ reply.status = 200 -> AfterModes(picture, reply.answer)
                     [] OTHER -> picture
    BY <1>0 DEF ReplyHandled
  <1>3. stale' = IF reply.overtaken \/ reply.status = 0 \/ ~connected
                 THEN stale \cup AskedFor(reply)
                 ELSE stale \ (AskedFor(reply) \ Untold(reply))
    BY <1>0 DEF ReplyHandled
  <1>4. ASSUME NEW i \in Nat, NEW asks, AskedAfter(requests, replies, i + 1, asks)
        PROVE  AskedAfter(requests', replies', i, asks)
    <2>1. \A j \in 1 .. Len(replies) : j > i + 1 =>
             j - 1 \in 1 .. Len(replies') /\ j - 1 > i /\ replies'[j - 1] = replies[j]
      BY <1>0
    <2> QED BY <1>0, <1>4, <2>1 DEF AskedAfter
  <1>5. ASSUME NEW asks, AskedAfter(requests, replies, 0, asks)
        PROVE  reply.ask \in asks \/ AskedAfter(requests', replies', 0, asks)
    <2>1. \A j \in 1 .. Len(replies) : j = 1 \/ j > 0 + 1
      BY <1>0
    <2>2. AskedAfter(requests, replies, 0 + 1, asks) \/ reply.ask \in asks
      BY <1>5, <2>1 DEF AskedAfter
    <2> QED BY <1>4, <2>2
  <1>6. \A i \in 1 .. Len(replies') :
           i \in Nat /\ i + 1 \in 1 .. Len(replies) /\ replies'[i] = replies[i + 1]
    BY <1>0
  <1>7. SessionReplies => SessionReplies'
    BY <1>0, <1>6 DEF SessionReplies
  <1>8. ModeReplies => ModeReplies'
    BY <1>0, <1>4, <1>6 DEF ModeReplies
  <1>9. (SessionEvents => SessionEvents') /\ (ModeEvents => ModeEvents')
    BY <1>0 DEF SessionEvents, ModeEvents
  <1>10. 1 \in 1 .. Len(replies) /\ 1 = 0 + 1
    BY <1>0
  <1>11. ASSUME reply.ask = "status", ~reply.overtaken, reply.status # 0, SessionReplies,
                NEW f \in Fields
         PROVE  Settles(librespot, events, Truth(reply.answer, f), f, 0)
    <2>1. Settles(librespot, events, Truth(reply.answer, f), f, reply.before)
      BY <1>10, <1>11 DEF SessionReplies, Counts
    <2> QED BY <1>0, <1>1, <2>1 DEF Settles
  <1>12. ASSUME reply.ask = "status", reply.status # 0, NEW f \in Fields
         PROVE  Shown(picture', f) = IF Untold(reply) # {} /\ f \in TrackFields
                                     THEN Shown(picture, f) ELSE Truth(reply.answer, f)
    <2>1. Untold(reply) # {} <=> reply.answer.session # "none" /\ reply.answer.track = NoTrack
      BY DEF Untold
    <2>2. CASE reply.status = 204
      BY <1>0, <1>1, <1>2, <1>12, <2>1, <2>2, AfterReplyFields
    <2>3. CASE reply.status = 200
      BY <1>0, <1>1, <1>2, <1>12, <2>1, <2>3, AfterReplyFields
    <2> QED BY <1>1, <1>12, <2>2, <2>3
  <1>13. ASSUME SessionReplies, NoTrackShown, reply.ask = "status", ~reply.overtaken,
                reply.status # 0, Untold(reply) # {}, NEW f \in TrackFields, "track" \notin stale
         PROVE  Settles(librespot, events, Shown(picture, f), f, 0)
    <2>1. "track" \in Fields /\ f \in Fields /\ Truth(reply.answer, "track") = NoTrack
      BY <1>13 DEF Fields, TrackFields, Truth, Untold
    <2>2. Settles(librespot, events, NoTrack, "track", 0)
      BY <1>11, <1>13, <2>1
    <2>3. CASE librespot.track = NoTrack
      BY <1>13, <2>3 DEF NoTrackShown
    <2>4. CASE librespot.track # NoTrack
      <3>1. PICK j \in 1 .. Len(events) : j > 0 /\ Tells(events[j], "track")
        BY <2>2, <2>4 DEF Settles, Truth
      <3>2. Tells(events[j], f)
        BY <3>1 DEF Tells, TrackFields
      <3> QED BY <3>1, <3>2 DEF Settles
    <2> QED BY <2>3, <2>4
  <1>14. SessionReplies /\ SessionPicture /\ NoTrackShown => SessionPicture' /\ NoTrackShown'
    <2> SUFFICES ASSUME SessionReplies, SessionPicture, NoTrackShown
                 PROVE  SessionPicture' /\ NoTrackShown'
      OBVIOUS
    <2>1. CASE reply.ask = "modes"
      <3>1. \A f \in Fields : Shown(picture', f) = Shown(picture, f)
        BY <1>0, <1>1, <1>2, <2>1, AfterReplyFields
      <3>2. \A f : Item(f) \in stale => Item(f) \in stale'
        BY <1>3, <2>1 DEF AskedFor, Item
      <3>3. "track" \in stale => "track" \in stale'
        BY <1>3, <2>1 DEF AskedFor
      <3>4. TrackFields \subseteq Fields
        BY DEF TrackFields, Fields
      <3>5. reply.ask \notin {"status"}
        BY <2>1
      <3>6. AskedAfter(requests, replies, 0, {"status"})
               => AskedAfter(requests', replies', 0, {"status"})
        BY <1>5, <3>5
      <3>7. SessionPicture => SessionPicture'
        BY <1>0, <3>1, <3>2, <3>6 DEF SessionPicture
      <3>8. NoTrackShown => NoTrackShown'
        BY <1>0, <3>1, <3>3, <3>4 DEF NoTrackShown
      <3> QED BY <3>7, <3>8
    <2>2. CASE reply.ask = "status" /\ (reply.overtaken \/ reply.status = 0 \/ ~connected)
      <3>1. "session" \in stale' /\ "track" \in stale'
        BY <1>3, <2>2 DEF AskedFor
      <3>2. \A f : Item(f) \in stale'
        BY <3>1 DEF Item
      <3> QED BY <3>1, <3>2 DEF SessionPicture, NoTrackShown
    <2>3. CASE reply.ask = "status" /\ ~reply.overtaken /\ reply.status # 0 /\ connected
      <3>1. Untold(reply) # {} /\ "track" \in stale => "track" \in stale'
        BY <1>3, <2>3 DEF Untold
      <3>2. ASSUME SessionReplies, NoTrackShown, NEW f \in Fields
            PROVE  \/ Item(f) = "track" /\ "track" \in stale'
                   \/ Settles(librespot, events, Shown(picture', f), f, 0)
        <4>1. CASE Untold(reply) # {} /\ f \in TrackFields
          BY <1>12, <1>13, <2>3, <3>1, <3>2, <4>1 DEF Item
        <4>2. CASE ~(Untold(reply) # {} /\ f \in TrackFields)
          BY <1>11, <1>12, <2>3, <3>2, <4>2
        <4> QED BY <4>1, <4>2
      <3>3. TrackFields \subseteq Fields
        BY DEF TrackFields, Fields
      <3> QED BY <1>0, <3>2, <3>3 DEF SessionPicture, NoTrackShown
    <2> QED BY <1>1, <2>1, <2>2, <2>3
  <1>15. ModeReplies /\ ModePicture => ModePicture'
    <2> SUFFICES ASSUME ModeReplies, ModePicture, NEW mode \in ModeNames
                 PROVE  \/ "modes" \in stale' \/ AskedAfter(requests', replies', 0, ModeAsks)
                        \/ ModeSettles(librespot, events, mode \in picture'.modes, mode, 0)
      BY <1>0 DEF ModePicture
    <2>1. reply.ask \in ModeAsks
      BY <1>1 DEF ModeAsks
    <2>2. CASE reply.overtaken \/ reply.status = 0
      BY <1>3, <2>2 DEF AskedFor
    <2>3. CASE ~reply.overtaken /\ reply.status # 0
      <3>1. \/ AskedAfter(requests, replies, 0 + 1, ModeAsks) \/ AskedAgain(events, reply.before)
            \/ /\ reply.answer.session # "none"
               /\ ModeSettles(librespot, events, mode \in reply.answer.modes, mode, reply.before)
        BY <1>10, <2>1, <2>3 DEF ModeReplies, Counts
      <3>2. CASE AskedAgain(events, reply.before)
        <4>1. AskedAgain(events, 0)
          BY <1>0, <1>1, <3>2 DEF AskedAgain
        <4> QED BY <4>1 DEF ModeSettles
      <3>3. CASE /\ reply.answer.session # "none"
                 /\ ModeSettles(librespot, events, mode \in reply.answer.modes, mode, reply.before)
        <4>1. reply.status = 200
          BY <1>1, <2>3, <3>3
        <4>2. picture'.modes = reply.answer.modes
          BY <1>0, <1>1, <1>2, <4>1, AfterReplyModes
        <4>3. ModeSettles(librespot, events, mode \in reply.answer.modes, mode, 0)
          BY <1>0, <1>1, <3>3 DEF ModeSettles, AskedAgain
        <4> QED BY <4>2, <4>3
      <3> QED BY <1>4, <3>1, <3>2, <3>3
    <2> QED BY <2>2, <2>3
  <1> QED BY <1>0, <1>7, <1>8, <1>9, <1>14, <1>15 DEF LibInv, OnTheWay

----------------------------------------------------------------------------
(* The invariant, and what follows.                                        *)

\* Every step keeps the invariant.
LEMMA LibStepKeeps == LibInv /\ [LibNext]_libVars => LibInv'
  <1> SUFFICES ASSUME LibInv, [LibNext]_libVars PROVE LibInv'
    OBVIOUS
  <1>1. LibTypeOK' /\ Linked' /\ LibTypeOK
    BY LibStepTypes, LibStepLinked DEF LibInv
  <1>2. SUFFICES OnTheWay'
    BY <1>1 DEF LibInv
  <1>3. CASE \E mode \in ModeNames : PressMode(mode)
    <2> PICK mode \in ModeNames : PressMode(mode)
      BY <1>3
    <2>1. [ask |-> "set", mode |-> mode, on |-> mode \notin picture.modes] \in RequestTypes
      BY DEF RequestTypes
    <2> QED BY <2>1, PressKeeps DEF PressMode, Queued
  <1>4. CASE PressSkip
    <2>1. [ask |-> "skip"] \in RequestTypes
      BY DEF RequestTypes
    <2> QED BY <1>4, <2>1, PressKeeps DEF PressSkip, Queued
  <1>5. CASE LibrespotChanges
    <2>1. PICK happened \in Seq(EventTypes) : ToldOf(happened)
      BY <1>1, <1>5, LibrespotChangesTell
    <2>2. UNCHANGED <<link, requests, replies, picture, stale>>
      BY <1>5 DEF LibrespotChanges
    <2>3. CASE link = "up"
      BY <1>1, <2>1, <2>2, <2>3, ChangeKeepsOnTheWay DEF ToldOf
    <2> QED BY <2>2, <2>3 DEF OnTheWay
  <1>6. CASE OnClosed \/ LinkLost
    BY <1>6 DEF OnClosed, LinkLost, OnTheWay
  <1>7. CASE LibrespotStarts
    BY <1>7 DEF LibrespotStarts, OnTheWay, LibInv, Linked
  <1>8. CASE UNCHANGED libVars
    BY <1>8 DEF libVars, LibInv, OnTheWay, SessionEvents, SessionReplies, SessionPicture,
                NoTrackShown, ModeEvents, ModeReplies, ModePicture
  <1> QED BY <1>1, <1>3, <1>4, <1>5, <1>6, <1>7, <1>8, OnOpenKeeps, OnMessageKeeps,
             ReplyHandledKeeps, RequestServedKeeps, RequestFailsKeeps DEF LibNext

\* Nothing under way, nothing wrong.
LEMMA LibInvCatchesUp == LibInv => CatchesUp
  <1> SUFFICES ASSUME LibInv, Quiet, link = "up" PROVE InStep
    BY DEF CatchesUp
  <1>1. /\ Len(events) = 0 /\ Len(requests) = 0 /\ Len(replies) = 0 /\ picture \in Pictures
        /\ librespot \in Librespots
    BY DEF Quiet, LibInv, LibTypeOK
  <1>2. \A asks : ~AskedAfter(requests, replies, 0, asks)
    BY <1>1 DEF AskedAfter
  <1>3. \A f \in Fields : Item(f) \notin stale => Shown(picture, f) = Truth(librespot, f)
    BY <1>1, <1>2 DEF LibInv, OnTheWay, SessionPicture, Settles
  <1>5. "session" \notin stale => /\ picture.active = (librespot.session # "none")
                                /\ picture.playing = (librespot.session = "playing")
    <2>1. \A f \in {"active", "playing"} : f \in Fields /\ Item(f) = "session"
      BY DEF Fields, Item, TrackFields
    <2> QED BY <1>3, <2>1 DEF Shown, Truth
  <1>6. "track" \notin stale => /\ picture.track = librespot.track
                              /\ picture.position = librespot.position
    <2>1. \A f \in {"track", "position"} : f \in Fields /\ Item(f) = "track"
      BY DEF Fields, Item, TrackFields
    <2> QED BY <1>3, <2>1 DEF Shown, Truth
  <1>4. ASSUME "modes" \notin stale, librespot.session # "none"
        PROVE  picture.modes = librespot.modes
    <2>1. ASSUME NEW mode \in ModeNames
          PROVE  mode \in picture.modes <=> mode \in librespot.modes
      <3>1. ModeSettles(librespot, events, mode \in picture.modes, mode, 0)
        BY <1>2, <1>4 DEF LibInv, OnTheWay, ModePicture
      <3> QED BY <1>1, <3>1 DEF ModeSettles, AskedAgain
    <2> QED BY <1>1, <2>1 DEF Pictures, Librespots
  <1> QED BY <1>4, <1>5, <1>6 DEF InStep

\* So it holds throughout.
LEMMA LibInvHolds == LibSpec => []LibInv
  <1>1. LibInit => LibInv
    <2> SUFFICES ASSUME LibInit PROVE LibInv
      OBVIOUS
    <2>1. picture.track = NoTrack /\ picture.position = 0
      BY DEF LibInit, NewPicture
    <2> QED BY <2>1, LibInitType DEF LibInit, LibInv, Linked, OnTheWay
  <1> QED BY <1>1, LibStepKeeps, PTL DEF LibSpec

\* With all that was under way handled, what GoLibrespotClient shows is what go-librespot
\* plays, but for what a reply that was lost or overtaken was asked for.
THEOREM PictureCatchesUp == LibSpec => []CatchesUp
  BY LibInvHolds, LibInvCatchesUp, PTL

\* The types hold throughout.
THEOREM LibrespotTyped == LibSpec => []LibTypeOK
  <1>1. LibInv => LibTypeOK
    BY DEF LibInv
  <1> QED BY <1>1, LibInvHolds, PTL
=============================================================================
