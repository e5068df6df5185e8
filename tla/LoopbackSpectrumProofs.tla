----------------------- MODULE LoopbackSpectrumProofs -----------------------
(***************************************************************************)
(* Proofs about LoopbackSpectrum, for every period, step, delay and retry. *)
(* That the destructor returns in time isn't inductive: it rests on how    *)
(* far the worker's wait or sleep has got by then, and on the only sleep   *)
(* begun after the destructor's notification being one tested before it.   *)
(* That the bars follow the sound rests on the whole queue: each result is *)
(* at most a step younger than the one before it, unless that one is due,  *)
(* and one not due yet is older than all that are behind it; nothing taken *)
(* out, cut off or gone stale breaks the chain while it still matters.     *)
(* And that what analyse() forgets of the sound changes no bar, nor does   *)
(* silence before it; that every bar has a bin of its own, and every bin   *)
(* counts in one bar.                                                      *)
(***************************************************************************)
EXTENDS LoopbackSpectrum, SpectrumBands, Recursion, FiniteSetTheorems, SequenceTheorems, TLAPS

Workers == {"opening", "waiting", "reading", "sleepy", "tested", "asleep", "awake", "done"}

TimerTypes ==
    /\ worker \in Workers /\ stopping \in BOOLEAN
    /\ timer \in Nat /\ stopAge \in Nat
    /\ nap \in {Pause, kRetry}

\* No wait goes on after its time, nor a sleep.
Bounded ==
    /\ worker = "waiting" => timer <= PollTime
    /\ worker = "asleep"  => timer <= nap

\* How long the destructor has waited, by where it finds the worker: not longer than
\* the worker's own wait or sleep has lasted.
StopAgeBounds ==
    /\ ~stopping \/ worker \in {"opening", "tested"} => stopAge = 0
    /\ worker \in {"waiting", "asleep"} => stopAge <= timer
    /\ worker \in {"reading", "sleepy"} => stopAge <= PollTime
    /\ stopAge <= kRetry

IInv == TimerTypes /\ Bounded /\ StopAgeBounds

----------------------------------------------------------------------------
\* The times are numbers, and the retry is the longest.
LEMMA Times ==
    /\ PollTime \in Nat /\ Pause \in Nat /\ kRetry \in Nat
    /\ PollTime < kRetry /\ Pause < kRetry
  <1>1. /\ PollTime \in Nat /\ Pause \in Nat /\ kRetry \in Nat /\ MaxLate \in Nat
        /\ PollTime + MaxLate < kRetry /\ Pause < kRetry
    BY SpectrumAssumption
  <1> QED
    BY <1>1

\* The worker starts with nobody waiting for it.
LEMMA InitEstablishes == SpectrumInit => IInv
  <1> SUFFICES ASSUME SpectrumInit PROVE IInv
    OBVIOUS
  <1>1. worker = "opening" /\ timer = 0 /\ nap = Pause /\ stopping = FALSE /\ stopAge = 0
    BY DEF SpectrumInit
  <1>2. TimerTypes
    BY <1>1, Times DEF TimerTypes, Workers
  <1>3. Bounded
    BY <1>1, Times DEF Bounded
  <1>4. StopAgeBounds
    BY <1>1, Times DEF StopAgeBounds
  <1> QED
    BY <1>2, <1>3, <1>4 DEF IInv

\* Every step keeps it.
LEMMA StepKeeps == IInv /\ [SpectrumNext]_spectrumVars => IInv'
  <1> SUFFICES ASSUME IInv, [SpectrumNext]_spectrumVars PROVE IInv'
    OBVIOUS
  <1> USE Times DEF IInv, TimerTypes, Workers, Bounded, StopAgeBounds
  <1>1. CASE TakesLevels
    BY <1>1 DEF TakesLevels, workerVars
  <1>2. CASE Opens
    BY <1>2 DEF Opens, Goes
  <1>3. CASE OpenFails
    BY <1>3 DEF OpenFails, GivesUp, Sleeps
  <1>4. CASE WaitReturns
    BY <1>4 DEF WaitReturns, Goes
  <1>5. CASE Reads
    BY <1>5 DEF Reads
  <1>6. CASE ReadsAll
    BY <1>6 DEF ReadsAll, Goes
  <1>7. CASE Recovers
    BY <1>7 DEF Recovers, Sleeps
  <1>8. CASE RecoverFails
    BY <1>8 DEF RecoverFails, GivesUp, Sleeps
  <1>9. CASE Tests \/ FallsAsleep
    BY <1>9 DEF Tests, FallsAsleep
  <1>10. CASE TimesOut \/ Wakes
    BY <1>10 DEF TimesOut, Wakes, Goes
  <1>11. CASE Stops
    BY <1>11 DEF Stops
  <1>12. CASE Restarts
    <2>1. worker' = "opening" /\ stopping' = FALSE /\ stopAge' = 0 /\ UNCHANGED <<timer, nap>>
      BY <1>12 DEF Restarts
    <2>2. TimerTypes' /\ Bounded'
      BY <2>1
    <2>3. StopAgeBounds'
      BY <2>1
    <2> QED
      BY <2>2, <2>3
  <1>13. CASE Toggles \/ Breaks
    BY <1>13 DEF Toggles, Breaks, workerVars
  <1>14. CASE Tick
    <2>1. worker \in {"waiting", "asleep", "done"} /\ UNCHANGED <<worker, nap, stopping>>
      BY <1>14 DEF Tick
    <2>2. timer' = (IF worker = "done" THEN timer ELSE timer + 1)
      BY <1>14 DEF Tick
    <2>3. \/ stopAge' = stopAge
          \/ stopping /\ worker # "done" /\ stopAge' \in {stopAge + 1, kRetry + 1}
                                        /\ stopAge' <= stopAge + 1
      BY <1>14 DEF Tick, Least
    <2>4. (worker = "waiting" => timer < PollTime) /\ (worker = "asleep" => timer < nap)
      BY <1>14 DEF Tick
    <2> QED
      BY <2>1, <2>2, <2>3, <2>4
  <1>15. CASE UNCHANGED spectrumVars
    BY <1>15 DEF spectrumVars, workerVars
  <1> QED
    BY <1>1, <1>2, <1>3, <1>4, <1>5, <1>6, <1>7, <1>8, <1>9, <1>10, <1>11, <1>12, <1>13,
       <1>14, <1>15 DEF SpectrumNext

\* LoopbackSpectrum::~LoopbackSpectrum() waits for the worker kRetry at most, wherever
\* in its loops, waits and sleeps the notification finds it.
THEOREM StopsInTime == SpectrumSpec => []StopsWithinRetry
  <1>1. IInv => StopsWithinRetry
    BY DEF IInv, StopAgeBounds, StopsWithinRetry
  <1> QED
    BY InitEstablishes, StepKeeps, <1>1, PTL DEF SpectrumSpec

----------------------------------------------------------------------------
(* The levels.                                                             *)

\* Steps, as a number of frames.
Steps(n) == n * kStep

\* Steps are numbers of frames, and more of them are more frames.
LEMMA StepsGrow ==
    /\ \A n \in Int : Steps(n) \in Int
    /\ \A n \in Int, m \in Int : n <= m => Steps(n) <= Steps(m)
    /\ Steps(0) = 0 /\ Steps(1) = kStep /\ kStep \in Nat /\ kStep >= 1
  <1>1. PICK k \in Nat : k = kStep /\ k >= 1
    BY SpectrumAssumption
  <1>2. \A n \in Int : n * k \in Int
    OBVIOUS
  <1>3. \A n \in Int, m \in Int : n <= m => n * k <= m * k
    <2> SUFFICES ASSUME NEW n \in Int, NEW m \in Int, n <= m PROVE n * k <= m * k
      OBVIOUS
    <2>1. PICK d \in Nat : d = m - n /\ m = n + d
      OBVIOUS
    <2>2. d * k \in Nat
      OBVIOUS
    <2>3. m * k = n * k + d * k
      BY <2>1
    <2> QED
      BY <2>2, <2>3
  <1> QED
    BY <1>1, <1>2, <1>3 DEF Steps

\* They add up,
LEMMA StepsSum ==
    \A n \in Int, m \in Int : Steps(n + m) = Steps(n) + Steps(m) /\ Steps(n - m) = Steps(n) - Steps(m)
  <1>1. PICK k \in Nat : k = kStep
    BY SpectrumAssumption
  <1>2. \A n \in Int, m \in Int : (n + m) * k = n * k + m * k /\ (n - m) * k = n * k - m * k
    OBVIOUS
  <1> QED
    BY <1>1, <1>2 DEF Steps

\* and a few are part of more.
LEMMA StepsTo ==
    ASSUME NEW m \in Nat, NEW n \in 1 .. m
    PROVE  /\ Steps(n) \in Nat /\ Steps(n) >= kStep /\ Steps(n) <= Steps(m)
           /\ Steps(m - n) = Steps(m) - Steps(n) /\ Steps(n + 1) = Steps(n) + kStep
  <1>1. Steps(n) \in Int /\ Steps(1) <= Steps(n) /\ Steps(n) <= Steps(m)
    <2>1. n \in Int /\ m \in Int /\ 1 \in Int /\ 1 <= n /\ n <= m
      OBVIOUS
    <2> QED
      BY <2>1, StepsGrow
  <1>2. Steps(m - n) = Steps(m) - Steps(n) /\ Steps(n + 1) = Steps(n) + Steps(1)
    <2>1. n \in Int /\ m \in Int /\ 1 \in Int
      OBVIOUS
    <2> QED
      BY <2>1, StepsSum
  <1> QED
    BY <1>1, <1>2, StepsGrow

\* The constants, in numbers.
LEMMA Sizes ==
    /\ {kPeriod, kMostDue} \subseteq Nat \ {0} /\ Periods \subseteq Nat \ {0}
    /\ {kDisplayDelay, kStale, MaxLate, Pause} \subseteq Nat
    /\ \A frames \in Periods : frames <= kPeriod /\ MaxLate < frames /\ Pause <= frames + MaxLate
    /\ kStep <= kPeriod /\ kPeriod <= kDisplayDelay
    /\ kStep + MaxLate <= kStale /\ kDisplayDelay + MaxLate <= Steps(kMostDue - 1)
    /\ Pause # kRetry
    /\ SteadyTime = kPeriod + MaxLate + kDisplayDelay /\ SteadyTime \in Nat
  BY SpectrumAssumption, ProportionsAssumption DEF Steps, SteadyTime

\* Those the provers need most.
LEMMA Bounds ==
    /\ kStep \in Nat /\ kPeriod \in Nat /\ kDisplayDelay \in Nat /\ kStale \in Nat /\ MaxLate \in Nat
    /\ SteadyTime \in Nat /\ SteadyTime = kPeriod + MaxLate + kDisplayDelay
    /\ 1 <= kStep /\ kStep <= kPeriod /\ kPeriod <= kDisplayDelay /\ kStep + MaxLate <= kStale
  BY Sizes, StepsGrow

\* A result that was queued: it is due as long after it was heard as the delay, and as the
\* worker was late.
Sounding ==
    {r \in [at : Int, heard : Nat] : r.at + r.heard \in kDisplayDelay .. kDisplayDelay + MaxLate}

\* What a queued result is made of,
LEMMA SoundingIs ==
    ASSUME NEW r \in Sounding
    PROVE  /\ r.at \in Int /\ r.heard \in Nat /\ r # Flat
           /\ r.at + r.heard >= kDisplayDelay /\ r.at + r.heard <= kDisplayDelay + MaxLate
           /\ r = [at |-> r.at, heard |-> r.heard]
           /\ Stale(r) <=> r.at < -kStale
  BY Sizes, ProportionsAssumption DEF Sounding, Stale

\* and what makes one.
LEMMA SoundingType ==
    ASSUME NEW at \in Int, NEW heard \in Nat,
           at + heard >= kDisplayDelay, at + heard <= kDisplayDelay + MaxLate
    PROVE  [at |-> at, heard |-> heard] \in Sounding
  BY Sizes DEF Sounding

\* The next result is less than a step after this, or due, or from before the sound was steady.
Near(r, next, streak) ==
    \/ next.at <= 0
    \/ streak <= next.heard + kStep
    \/ r # Flat /\ r.heard <= next.heard + kStep

\* Each result in the queue is near the one before it, of which `first' was taken out.
Chain(first, q, streak) ==
    /\ q # <<>> => Near(first, q[1], streak)
    /\ \A i \in 1 .. Len(q) - 1 : Near(q[i], q[i + 1], streak)

\* The result queued last.
Newest(first, q) == IF q = <<>> THEN first ELSE q[Len(q)]

\* All that was heard since is not analysed yet.
Fresh(first, q, unanalysed, streak) ==
    streak <= unanalysed \/ (Newest(first, q) # Flat /\ Newest(first, q).heard <= unanalysed)

\* A result not due yet is older than all that are behind it.
InOrder(q, unanalysed) ==
    \A i \in 1 .. Len(q) : q[i].at <= 0 \/ q[i].heard >= Steps(Len(q) - i) + unanalysed

\* The result taken out last.
Taken(first) == first # Flat => first \in Sounding /\ first.at <= 0 /\ ~Stale(first)

----------------------------------------------------------------------------
(* The end of the queue.                                                   *)

\* The end of a queue, item by item.
LEMMA SuffixOf ==
    ASSUME NEW q \in Seq(Sounding), NEW k \in 0 .. Len(q)
    PROVE  /\ SubSeq(q, k + 1, Len(q)) \in Seq(Sounding)
           /\ Len(SubSeq(q, k + 1, Len(q))) = Len(q) - k
           /\ \A i \in 1 .. Len(q) - k : SubSeq(q, k + 1, Len(q))[i] = q[i + k]
  <1>1. PICK n \in Nat : n = Len(q)
    OBVIOUS
  <1>2. PICK m \in 1 .. n + 1 : m = k + 1
    BY <1>1
  <1>3. /\ SubSeq(q, m, n) \in Seq(Sounding)
        /\ Len(SubSeq(q, m, n)) = IF m <= n THEN n - m + 1 ELSE 0
        /\ \A i \in 1 .. n - m + 1 : SubSeq(q, m, n)[i] = q[m + i - 1]
    <2>1. m \in Int /\ n \in Int /\ \A i \in m .. n : q[i] \in Sounding
      BY <1>1
    <2> QED
      BY <2>1, SubSeqProperties
  <1>4. Len(SubSeq(q, m, n)) = n - k /\ \A i \in 1 .. n - k : SubSeq(q, m, n)[i] = q[i + k]
    BY <1>2, <1>3
  <1> QED
    BY <1>1, <1>2, <1>3, <1>4

\* It keeps its order, and its last.
EndOf(first, q, k, unanalysed, streak, rest) ==
    /\ rest \in Seq(Sounding) /\ Len(rest) = Len(q) - k
    /\ InOrder(rest, unanalysed)
    /\ \A i \in 1 .. Len(rest) - 1 : Near(rest[i], rest[i + 1], streak)
    /\ rest # <<>> => Newest(first, rest) = Newest(first, q)
    /\ rest # <<>> => rest[1] = q[k + 1] /\ k + 1 \in 1 .. Len(q)

\* It is what is left when the front is taken out or cut off.
LEMMA SuffixKeeps ==
    ASSUME NEW q \in Seq(Sounding), NEW k \in 0 .. Len(q), NEW unanalysed \in Nat, NEW streak \in Nat,
           NEW first, InOrder(q, unanalysed), Chain(first, q, streak)
    PROVE  EndOf(first, q, k, unanalysed, streak, SubSeq(q, k + 1, Len(q)))
  <1>0. PICK rest : rest = SubSeq(q, k + 1, Len(q))
    OBVIOUS
  <1>1. PICK n \in Nat : n = Len(q)
    OBVIOUS
  <1>2. rest \in Seq(Sounding) /\ Len(rest) = n - k /\ \A i \in 1 .. n - k : rest[i] = q[i + k]
    BY <1>0, <1>1, SuffixOf
  <1>3. rest # <<>> => n - k >= 1 /\ q # <<>>
    BY <1>1, <1>2, EmptySeq
  <1>4. InOrder(rest, unanalysed)
    <2> SUFFICES ASSUME NEW i \in 1 .. n - k
                 PROVE  rest[i].at <= 0 \/ rest[i].heard >= Steps((n - k) - i) + unanalysed
      BY <1>2 DEF InOrder
    <2>1. PICK j \in 1 .. n : j = i + k
      BY <1>1
    <2>2. (n - k) - i = n - j
      BY <2>1
    <2>3. q[j].at <= 0 \/ q[j].heard >= Steps(n - j) + unanalysed
      BY <1>1 DEF InOrder
    <2> QED
      BY <1>2, <2>1, <2>2, <2>3
  <1>5. ASSUME NEW i \in 1 .. (n - k) - 1 PROVE Near(rest[i], rest[i + 1], streak)
    <2>1. PICK j \in 1 .. n - 1 : j = i + k
      BY <1>1
    <2>2. Near(q[j], q[j + 1], streak)
      BY <1>1 DEF Chain
    <2>3. rest[i] = q[j] /\ rest[i + 1] = q[j + 1]
      <3>1. i + 1 \in 1 .. n - k /\ i \in 1 .. n - k /\ (i + 1) + k = j + 1
        BY <2>1
      <3> QED
        BY <1>2, <2>1, <3>1
    <2> QED
      BY <2>2, <2>3
  <1>6. rest # <<>> => rest[n - k] = q[n] /\ rest[1] = q[k + 1]
    <2> SUFFICES ASSUME rest # <<>> PROVE rest[n - k] = q[n] /\ rest[1] = q[k + 1]
      OBVIOUS
    <2>1. n - k \in 1 .. n - k /\ (n - k) + k = n /\ 1 \in 1 .. n - k /\ 1 + k = k + 1
      BY <1>1, <1>3
    <2> QED
      BY <1>2, <2>1
  <1>7. rest # <<>> => Newest(first, rest) = Newest(first, q)
    BY <1>1, <1>2, <1>3, <1>6 DEF Newest
  <1>8. rest # <<>> => rest[1] = q[k + 1] /\ k + 1 \in 1 .. n
    BY <1>3, <1>6
  <1> QED
    BY <1>0, <1>1, <1>2, <1>4, <1>5, <1>7, <1>8 DEF EndOf

\* The results due are the first in the queue, up to one that isn't.
LEMMA OverdueIs ==
    ASSUME due \in Seq(Sounding)
    PROVE  /\ Overdue \in 0 .. Len(due)
           /\ Overdue > 0 => due[Overdue].at <= 0
           /\ Overdue < Len(due) => due[Overdue + 1].at > 0
           /\ Len(due) > 0 /\ due[1].at <= 0 => Overdue > 0
  <1>1. PICK n \in Nat : n = Len(due) /\ DOMAIN due = 1 .. n
    OBVIOUS
  <1> DEFINE T == {k \in 0 .. n : \A j \in 1 .. k : due[j].at <= 0}
  <1>2. T \subseteq 0 .. n /\ 0 \in T
    OBVIOUS
  <1>3. PICK k \in T : \A m \in T : m <= k
    BY <1>2, GreatestOf
  <1>4. \A i \in 1 .. n : (\A j \in 1 .. i : due[j].at <= 0) <=> i \in 1 .. k
    BY <1>3
  <1>5. {i \in 1 .. n : \A j \in 1 .. i : due[j].at <= 0} = 1 .. k
    BY <1>3, <1>4
  <1>6. Cardinality(1 .. k) = k
    BY <1>3, FS_Interval
  <1>7. Overdue = k
    BY <1>1, <1>5, <1>6 DEF Overdue
  <1>8. ASSUME k < n PROVE due[k + 1].at > 0
    <2>1. due[k + 1] \in Sounding
      BY <1>1, <1>3, <1>8
    <2>2. due[k + 1].at \in Int
      BY <2>1, SoundingIs
    <2>3. k + 1 \notin T
      BY <1>3
    <2>4. k + 1 \in 0 .. n /\ \A j \in 1 .. k : due[j].at <= 0
      BY <1>3, <1>8
    <2>5. ~(due[k + 1].at <= 0)
      BY <2>3, <2>4
    <2> QED
      BY <2>2, <2>5
  <1>9. n > 0 /\ due[1].at <= 0 => k > 0
    <2> SUFFICES ASSUME n > 0, due[1].at <= 0 PROVE k > 0
      OBVIOUS
    <2>1. 1 \in T
      OBVIOUS
    <2>2. k \in 0 .. n
      BY <1>2, <1>3
    <2> HIDE DEF T
    <2>3. 1 <= k
      BY <1>3, <2>1
    <2> QED
      BY <2>2, <2>3
  <1>10. k > 0 => due[k].at <= 0
    BY <1>3
  <1> QED
    BY <1>1, <1>3, <1>7, <1>8, <1>9, <1>10
----------------------------------------------------------------------------
(* The queue.                                                              *)

\* What is known of the queue and of what was taken out of it.
QueueInv(first, q, unanalysed, streak) ==
    /\ q \in Seq(Sounding) /\ Taken(first)
    /\ InOrder(q, unanalysed) /\ Chain(first, q, streak) /\ Fresh(first, q, unanalysed, streak)

\* A queue that is too long is cut in front, and what is first then is due.
LEMMA CutKeeps ==
    ASSUME NEW q, NEW unanalysed \in Nat, NEW streak \in Nat, NEW first,
           QueueInv(first, q, unanalysed, streak), Len(q) > kMostDue
    PROVE  /\ QueueInv(first, SubSeq(q, Len(q) - kMostDue + 1, Len(q)), unanalysed, streak)
           /\ Len(SubSeq(q, Len(q) - kMostDue + 1, Len(q))) = kMostDue
  <1>1. PICK n \in Nat, most \in Nat : n = Len(q) /\ most = kMostDue /\ most >= 1
    BY Sizes DEF QueueInv
  <1>2. PICK k \in 0 .. n : k = n - most
    BY <1>1
  <1>3. PICK rest : rest = SubSeq(q, k + 1, n)
    OBVIOUS
  <1>4. q \in Seq(Sounding) /\ InOrder(q, unanalysed) /\ Chain(first, q, streak)
    BY DEF QueueInv
  <1>5. /\ rest \in Seq(Sounding) /\ Len(rest) = n - k
        /\ InOrder(rest, unanalysed)
        /\ \A i \in 1 .. Len(rest) - 1 : Near(rest[i], rest[i + 1], streak)
        /\ rest # <<>> => Newest(first, rest) = Newest(first, q)
    <2>1. k \in 0 .. Len(q) /\ rest = SubSeq(q, k + 1, Len(q))
      BY <1>1, <1>3
    <2>2. EndOf(first, q, k, unanalysed, streak, rest)
      BY <1>4, <2>1, SuffixKeeps
    <2> QED
      BY <1>1, <2>2 DEF EndOf
  <1>6. Len(rest) = most /\ rest # <<>> /\ rest[1] \in Sounding
    BY <1>1, <1>2, <1>5, EmptySeq
  <1>7. rest[1].at <= 0
    <2>1. rest[1].at <= 0 \/ rest[1].heard >= Steps(most - 1) + unanalysed
      <3>1. 1 \in 1 .. most
        BY <1>1
      <3>2. \A i \in 1 .. most : rest[i].at <= 0 \/ rest[i].heard >= Steps(most - i) + unanalysed
        BY <1>5, <1>6 DEF InOrder
      <3> QED
        BY <3>1, <3>2
    <2>2. /\ rest[1].at \in Int /\ rest[1].heard \in Nat
          /\ rest[1].at + rest[1].heard <= kDisplayDelay + MaxLate
      BY <1>6, SoundingIs
    <2>3. kDisplayDelay + MaxLate <= Steps(most - 1) /\ Steps(most - 1) \in Int
          /\ kDisplayDelay \in Nat /\ MaxLate \in Nat
      BY <1>1, Sizes, StepsGrow
    <2> QED
      BY <2>1, <2>2, <2>3
  <1>8. Chain(first, rest, streak)
    BY <1>5, <1>7 DEF Chain, Near
  <1>9. Fresh(first, rest, unanalysed, streak)
    BY <1>5, <1>6 DEF Fresh, QueueInv
  <1>10. QueueInv(first, rest, unanalysed, streak)
    BY <1>5, <1>8, <1>9 DEF QueueInv
  <1> QED
    BY <1>1, <1>2, <1>3, <1>6, <1>10

\* What is taken out of the queue leaves it as it should be.
LEMMA TakenKeeps ==
    ASSUME NEW unanalysed \in Nat, NEW streak \in Nat, QueueInv(shown, due, unanalysed, streak),
           streak > 0 => unanalysed < kStep + kDisplayDelay + MaxLate
    PROVE  QueueInv(Levels, SubSeq(due, Overdue + 1, Len(due)), unanalysed, streak)
  <1>1. /\ due \in Seq(Sounding) /\ Taken(shown) /\ InOrder(due, unanalysed)
        /\ Chain(shown, due, streak) /\ Fresh(shown, due, unanalysed, streak)
    BY DEF QueueInv
  <1>2. PICK n \in Nat : n = Len(due)
    BY <1>1
  <1>3. PICK k \in 0 .. n : k = Overdue
    BY <1>1, <1>2, OverdueIs
  <1>4. /\ k > 0 => due[k].at <= 0 /\ due[k] \in Sounding
        /\ k < n => due[k + 1].at > 0 /\ due[k + 1] \in Sounding
    BY <1>1, <1>2, <1>3, OverdueIs
  <1>5. PICK rest : rest = SubSeq(due, k + 1, n)
    OBVIOUS
  <1>6. /\ rest \in Seq(Sounding) /\ Len(rest) = n - k
        /\ InOrder(rest, unanalysed)
        /\ \A i \in 1 .. Len(rest) - 1 : Near(rest[i], rest[i + 1], streak)
        /\ rest # <<>> => Newest(shown, rest) = Newest(shown, due)
        /\ rest # <<>> => rest[1] = due[k + 1] /\ k + 1 \in 1 .. n
    <2>1. k \in 0 .. Len(due) /\ rest = SubSeq(due, k + 1, Len(due))
      BY <1>2, <1>5
    <2>2. EndOf(shown, due, k, unanalysed, streak, rest)
      BY <1>1, <2>1, SuffixKeeps
    <2> QED
      BY <1>2, <2>2 DEF EndOf
  <1>7. PICK latest : latest = IF k = 0 THEN shown ELSE due[k]
    OBVIOUS
  <1>8. latest # Flat => latest \in Sounding /\ latest.at <= 0
    BY <1>1, <1>3, <1>4, <1>7 DEF Taken
  <1>9. Levels = IF Stale(latest) THEN Flat ELSE latest
    BY <1>3, <1>7 DEF Levels
  <1>10. Taken(Levels)
    BY <1>8, <1>9 DEF Taken, Stale
  <1>11. rest # <<>> => Near(latest, rest[1], streak)
    <2> SUFFICES ASSUME rest # <<>> PROVE Near(latest, rest[1], streak)
      OBVIOUS
    <2>1. rest[1] = due[k + 1] /\ k + 1 \in 1 .. n /\ due # <<>>
      BY <1>1, <1>2, <1>6, EmptySeq
    <2>2. CASE k = 0
      BY <1>1, <1>7, <2>1, <2>2 DEF Chain
    <2>3. CASE k # 0
      <3>1. k \in 1 .. n - 1
        BY <1>3, <2>1, <2>3
      <3> QED
        BY <1>1, <1>2, <1>7, <2>1, <2>3, <3>1 DEF Chain
    <2> QED
      BY <2>2, <2>3
  \* What is stale now was analysed too long ago for what isn't due.
  <1>12. rest # <<>> => Near(Levels, rest[1], streak)
    <2> SUFFICES ASSUME rest # <<>>, Stale(latest), latest # Flat PROVE Near(Levels, rest[1], streak)
      BY <1>9, <1>11 DEF Near
    <2>1. rest[1] = due[k + 1] /\ rest[1] \in Sounding /\ rest[1].at > 0
      BY <1>3, <1>4, <1>6
    <2>2. /\ latest.at \in Int /\ latest.heard \in Nat /\ latest.at < -kStale
          /\ latest.at + latest.heard >= kDisplayDelay
          /\ rest[1].at \in Int /\ rest[1].heard \in Nat
          /\ rest[1].at + rest[1].heard <= kDisplayDelay + MaxLate
      BY <1>8, <2>1, SoundingIs
    <2>4. \A at \in Int, heard \in Nat, atNext \in Int, heardNext \in Nat :
              at < -kStale /\ at + heard >= kDisplayDelay /\ atNext > 0
                  /\ atNext + heardNext <= kDisplayDelay + MaxLate =>
              ~(heard <= heardNext + kStep) /\ ~(atNext <= 0)
      BY Bounds
    <2>3. ~(latest.heard <= rest[1].heard + kStep) /\ ~(rest[1].at <= 0)
      BY <2>1, <2>2, <2>4
    <2> QED
      BY <1>11, <2>3 DEF Near
  <1>13. Chain(Levels, rest, streak)
    BY <1>6, <1>12 DEF Chain
  <1>14. Fresh(Levels, rest, unanalysed, streak)
    <2>1. CASE rest # <<>>
      <3>1. Newest(Levels, rest) = Newest(shown, rest)
        BY <2>1 DEF Newest
      <3> QED
        BY <1>1, <1>6, <2>1, <3>1 DEF Fresh
    <2>2. CASE rest = <<>>
      <3>1. k = n
        BY <1>2, <1>3, <1>6, <2>2
      <3>2. latest = Newest(shown, due)
        BY <1>1, <1>2, <1>7, <3>1, EmptySeq DEF Newest
      <3>3. latest # Flat /\ latest.heard <= unanalysed /\ streak > 0 => ~Stale(latest)
        <4> SUFFICES ASSUME latest # Flat, latest.heard <= unanalysed, streak > 0 PROVE ~Stale(latest)
          OBVIOUS
        <4>1. /\ latest.at \in Int /\ latest.heard \in Nat
              /\ latest.at + latest.heard >= kDisplayDelay
              /\ Stale(latest) <=> latest.at < -kStale
          BY <1>8, SoundingIs
        <4> QED
          BY <4>1, Bounds
      <3>4. Newest(Levels, rest) = Levels
        BY <2>2 DEF Newest
      <3> QED
        BY <1>1, <1>9, <3>2, <3>3, <3>4 DEF Fresh
    <2> QED
      BY <2>1, <2>2
  <1> QED
    BY <1>2, <1>3, <1>5, <1>6, <1>10, <1>13, <1>14 DEF QueueInv

\* What it shows is right: the sound of the delay before, and fresh while there is sound.
LEMMA LevelsFollow ==
    ASSUME NEW unanalysed \in Nat, QueueInv(shown, due, unanalysed, steady), steady \in Nat,
           steady > 0 => unanalysed < kStep + kDisplayDelay + MaxLate
    PROVE  BarsFollowSound
  <1>1. /\ due \in Seq(Sounding) /\ Taken(shown)
        /\ Chain(shown, due, steady) /\ Fresh(shown, due, unanalysed, steady)
    BY DEF QueueInv
  <1>2. PICK n \in Nat : n = Len(due)
    BY <1>1
  <1>3. PICK k \in 0 .. n : k = Overdue
    BY <1>1, <1>2, OverdueIs
  <1>4. /\ k > 0 => due[k].at <= 0 /\ due[k] \in Sounding
        /\ k < n => due[k + 1].at > 0 /\ due[k + 1] \in Sounding
    BY <1>1, <1>2, <1>3, OverdueIs
  <1>7. PICK latest : latest = IF k = 0 THEN shown ELSE due[k]
    OBVIOUS
  <1>8. latest # Flat => latest \in Sounding /\ latest.at <= 0
    BY <1>1, <1>3, <1>4, <1>7 DEF Taken
  <1>9. Levels = IF Stale(latest) THEN Flat ELSE latest
    BY <1>3, <1>7 DEF Levels
  <1>10. latest # Flat =>
            /\ latest.at \in Int /\ latest.heard \in Nat /\ latest.at <= 0
            /\ latest.at + latest.heard >= kDisplayDelay
            /\ latest.at + latest.heard <= kDisplayDelay + MaxLate
            /\ Stale(latest) <=> latest.at < -kStale
    BY <1>8, SoundingIs
  <1>11. Levels # Flat => Levels.heard \in kDisplayDelay .. kDisplayDelay + kStale + MaxLate
    <2> SUFFICES ASSUME Levels # Flat
                 PROVE  Levels.heard \in kDisplayDelay .. kDisplayDelay + kStale + MaxLate
      OBVIOUS
    <2>1. Levels = latest /\ ~Stale(latest) /\ latest # Flat
      BY <1>9
    <2> QED
      BY <1>10, <2>1, Sizes
  <1>12. steady = SteadyTime => latest # Flat /\ latest.heard < kDisplayDelay + MaxLate + kStep
    <2> SUFFICES ASSUME steady = SteadyTime
                 PROVE  latest # Flat /\ latest.heard < kDisplayDelay + MaxLate + kStep
      OBVIOUS
    <2>1. CASE k < n
      <3>1. PICK next \in Sounding : next = due[k + 1] /\ next.at > 0
        BY <1>4, <2>1
      <3>2. Near(latest, next, steady)
        <4>1. CASE k = 0
          <5>1. due # <<>>
            BY <1>2, <2>1, <4>1
          <5> QED
            BY <1>1, <1>7, <3>1, <4>1, <5>1 DEF Chain
        <4>2. CASE k # 0
          <5>1. k \in 1 .. n - 1
            BY <1>3, <2>1, <4>2
          <5> QED
            BY <1>1, <1>2, <1>7, <3>1, <4>2, <5>1 DEF Chain
        <4> QED
          BY <4>1, <4>2
      <3>3. next.at \in Int /\ next.heard \in Nat /\ next.at + next.heard <= kDisplayDelay + MaxLate
        BY SoundingIs
      <3>4. ~(next.at <= 0) /\ ~(steady <= next.heard + kStep)
        BY <3>1, <3>3, Bounds
      <3>5. latest # Flat /\ latest.heard <= next.heard + kStep
        BY <3>2, <3>4 DEF Near
      <3> QED
        BY <1>10, <3>1, <3>3, <3>5, Bounds
    <2>2. CASE k = n
      <3>1. latest = Newest(shown, due)
        BY <1>1, <1>2, <1>7, <2>2, EmptySeq DEF Newest
      <3>2. ~(steady <= unanalysed)
        BY Bounds
      <3>3. latest # Flat /\ latest.heard <= unanalysed
        BY <1>1, <3>1, <3>2 DEF Fresh
      <3> QED
        BY <1>10, <3>3, Bounds
    <2> QED
      BY <1>3, <2>1, <2>2
  <1>13. steady = SteadyTime => ~Stale(latest)
    BY <1>10, <1>12, Bounds
  <1> QED
    BY <1>9, <1>11, <1>12, <1>13 DEF BarsFollowSound

\* A period: a frame a time unit, the last of them `late' ago.
InTurn(frames, size, late) ==
    frames \in Seq(Nat) /\ Len(frames) = size /\ \A i \in 1 .. size : frames[i] = late + size - i

\* What a read adds to the queue keeps all this.
LEMMA ReadsAdd ==
    ASSUME NEW p \in Nat \ {0}, NEW late \in Nat, late <= MaxLate, InTurn(card, p, late),
           sinceStep \in 0 .. kStep - 1, pending \in Nat, pending <= late, steady \in Nat,
           late = pending \/ steady <= pending,
           QueueInv(shown, due, sinceStep + p + pending, steady)
    PROVE  /\ (sinceStep + p) % kStep \in 0 .. kStep - 1
           /\ QueueInv(shown, due \o Results(card), ((sinceStep + p) % kStep) + pending, steady)
  <1>1. PICK step \in Nat, since \in Nat, delay \in Nat, left \in Nat :
            /\ step = kStep /\ 1 <= step /\ since = sinceStep /\ since < step
            /\ delay = kDisplayDelay /\ left = pending
    BY Bounds
  <1>2. PICK m \in Nat, after \in Nat :
            /\ m = (since + p) \div step /\ after = (since + p) % step
            /\ after = since + p - Steps(m) /\ after < step
    <2>1. /\ (since + p) \div step \in Nat /\ (since + p) % step \in Nat /\ (since + p) % step < step
          /\ since + p = (step * ((since + p) \div step)) + ((since + p) % step)
      BY <1>1
    <2>2. PICK m \in Nat : m = (since + p) \div step
      BY <2>1
    <2>3. Steps(m) = m * step /\ m * step \in Nat /\ m * step = step * m
      BY <1>1 DEF Steps
    <2> QED
      BY <2>1, <2>2, <2>3
  <1>3. /\ Steps(m) \in Nat /\ Steps(m) <= since + p /\ Steps(0) = 0 /\ Steps(1) = step
        /\ \A n \in 1 .. m : Steps(n) \in Nat /\ Steps(n) >= step /\ Steps(n) <= Steps(m)
                             /\ Steps(m - n) = Steps(m) - Steps(n) /\ Steps(n + 1) = Steps(n) + step
    <2>1. Steps(m) \in Int /\ Steps(0) <= Steps(m) /\ Steps(0) = 0 /\ Steps(1) = step
      <3>1. 0 \in Int /\ m \in Int /\ 0 <= m
        OBVIOUS
      <3> QED
        BY <1>1, <3>1, StepsGrow
    <2>2. ASSUME NEW n \in 1 .. m
          PROVE  /\ Steps(n) \in Nat /\ Steps(n) >= step /\ Steps(n) <= Steps(m)
                 /\ Steps(m - n) = Steps(m) - Steps(n) /\ Steps(n + 1) = Steps(n) + step
      BY <1>1, StepsTo
    <2>3. Steps(m) <= since + p
      BY <1>1, <1>2, <2>1
    <2> QED
      BY <2>1, <2>2, <2>3
  <1>4. ASSUME NEW n \in 1 .. m
        PROVE  /\ n * kStep - sinceStep = Steps(n) - since
               /\ Steps(n) - since \in 1 .. p
               /\ card[n * kStep - sinceStep] = late + p + since - Steps(n)
               /\ DueIn(Len(card), n * kStep - sinceStep) = delay - p + Steps(n) - since
    <2>1. n * kStep = Steps(n)
      BY DEF Steps
    <2>2. PICK done \in 1 .. p : done = Steps(n) - since
      BY <1>1, <1>3
    <2>3. Len(card) = p /\ card[done] = late + p - done
      BY DEF InTurn
    <2>4. PICK s \in Nat : s = Steps(n)
      BY <1>3
    <2>5. n * kStep - sinceStep = done
      BY <1>1, <2>1, <2>2
    <2>6. card[n * kStep - sinceStep] = late + p + since - s
      <3>1. late + p - done = late + p + since - s
        BY <2>2, <2>4
      <3> QED
        BY <2>3, <2>5, <3>1
    <2>7. DueIn(Len(card), n * kStep - sinceStep) = delay - p + s - since
      BY <1>1, <2>2, <2>3, <2>4, <2>5 DEF DueIn
    <2> QED
      BY <2>1, <2>2, <2>4, <2>5, <2>6, <2>7
  <1>5. PICK r : r = Results(card)
    OBVIOUS
  <1>6. r = [n \in 1 .. m |-> [at |-> delay - p + Steps(n) - since, heard |-> late + p + since - Steps(n)]]
    <2>1. (sinceStep + Len(card)) \div kStep = m
      BY <1>1, <1>2 DEF InTurn
    <2>2. r = [n \in 1 .. m |-> [at |-> DueIn(Len(card), n * kStep - sinceStep),
                                 heard |-> card[n * kStep - sinceStep]]]
      BY <1>5, <2>1 DEF Results
    <2> QED
      BY <1>4, <2>2
  <1>7. \A n \in 1 .. m :
            /\ r[n] = [at |-> delay - p + Steps(n) - since, heard |-> late + p + since - Steps(n)]
            /\ r[n] \in Sounding /\ r[n] # Flat /\ r[n].heard = late + p + since - Steps(n)
    <2> SUFFICES ASSUME NEW n \in 1 .. m
                 PROVE  /\ r[n] = [at |-> delay - p + Steps(n) - since, heard |-> late + p + since - Steps(n)]
                        /\ r[n] \in Sounding /\ r[n] # Flat /\ r[n].heard = late + p + since - Steps(n)
      OBVIOUS
    <2>1. PICK at \in Int, heard \in Nat :
              at = delay - p + Steps(n) - since /\ heard = late + p + since - Steps(n)
      BY <1>3
    <2>2. r[n] = [at |-> at, heard |-> heard]
      BY <1>6, <2>1
    <2>3. at + heard = delay + late
      BY <1>3, <2>1
    <2>4. r[n] \in Sounding
      BY <1>1, <2>2, <2>3, SoundingType, Bounds
    <2> QED
      BY <2>1, <2>2, <2>4, SoundingIs
  <1>8. r \in Seq(Sounding) /\ Len(r) = m
    BY <1>6, <1>7
  <1>9. due \in Seq(Sounding)
    BY DEF QueueInv
  <1>10. PICK n \in Nat : n = Len(due)
    BY <1>9
  <1>17. PICK all : all = due \o r
    OBVIOUS
  <1>11. /\ all \in Seq(Sounding) /\ Len(all) = n + m
         /\ \A i \in 1 .. n + m : all[i] = IF i <= n THEN due[i] ELSE r[i - n]
    <2>1. /\ due \o r \in Seq(Sounding) /\ Len(due \o r) = Len(due) + Len(r)
          /\ \A i \in 1 .. Len(due) + Len(r) : (due \o r)[i] = IF i <= Len(due) THEN due[i] ELSE r[i - Len(due)]
      BY <1>8, <1>9, ConcatProperties
    <2> QED
      BY <1>8, <1>10, <1>17, <2>1
  <1>12. InOrder(all, after + left)
    <2> SUFFICES ASSUME NEW i \in 1 .. n + m
                 PROVE  all[i].at <= 0 \/ all[i].heard >= Steps((n + m) - i) + (after + left)
      BY <1>11 DEF InOrder
    <2>1. CASE i <= n
      <3>1. due[i].at <= 0 \/ due[i].heard >= Steps(n - i) + (sinceStep + p + pending)
        <4>1. i \in 1 .. Len(due)
          BY <1>10, <2>1
        <4> QED
          BY <1>10, <4>1 DEF QueueInv, InOrder
      <3>2. Steps((n + m) - i) = Steps(n - i) + Steps(m) /\ Steps(n - i) \in Int
        <4>1. n - i \in Int /\ m \in Int /\ (n - i) + m = (n + m) - i
          OBVIOUS
        <4> QED
          BY <4>1, StepsSum, StepsGrow
      <3>3. all[i] = due[i]
        BY <1>11, <2>1
      <3> QED
        BY <1>1, <1>2, <1>3, <3>1, <3>2, <3>3
    <2>2. CASE i > n
      <3>1. PICK j \in 1 .. m : j = i - n
        BY <2>2
      <3>2. all[i] = r[j] /\ (n + m) - i = m - j
        <4>1. all[i] = r[i - n]
          BY <1>11, <2>2
        <4> QED
          BY <3>1, <4>1
      <3>3. r[j].heard = late + p + since - Steps(j) /\ Steps(m - j) = Steps(m) - Steps(j) /\ Steps(j) \in Nat
        BY <1>3, <1>7
      <3>4. late + p + since - Steps(j) >= (Steps(m) - Steps(j)) + (after + left)
        BY <1>1, <1>2, <1>3, <3>3
      <3> QED
        BY <3>2, <3>3, <3>4
    <2> QED
      BY <2>1, <2>2
  <1>13. m > 0 => Near(Newest(shown, due), r[1], steady)
    <2> SUFFICES ASSUME m > 0 PROVE Near(Newest(shown, due), r[1], steady)
      OBVIOUS
    <2>1. r[1].heard = late + p + since - step
      <3>1. 1 \in 1 .. m
        OBVIOUS
      <3>2. r[1].heard = late + p + since - Steps(1)
        BY <1>7, <3>1
      <3> QED
        BY <1>3, <3>2
    <2>2. r[1].heard + step = late + p + since /\ sinceStep + p + pending <= late + p + since
      BY <1>1, <2>1
    <2>3. \/ steady <= sinceStep + p + pending
          \/ /\ Newest(shown, due) # Flat /\ Newest(shown, due).heard <= sinceStep + p + pending
             /\ Newest(shown, due) \in Sounding
      <3>1. Newest(shown, due) # Flat => Newest(shown, due) \in Sounding
        BY <1>9, EmptySeq DEF QueueInv, Taken, Newest
      <3> QED
        BY <3>1 DEF QueueInv, Fresh
    <2>4. Newest(shown, due) \in Sounding => Newest(shown, due).heard \in Nat
      BY SoundingIs
    <2> QED
      BY <1>1, <2>2, <2>3, <2>4 DEF Near
  <1>14. Chain(shown, all, steady)
    <2>1. ASSUME all # <<>> PROVE Near(shown, all[1], steady)
      <3>1. n + m >= 1
        BY <1>11, <2>1, EmptySeq
      <3>2. CASE n = 0
        <4>1. Newest(shown, due) = shown /\ all[1] = r[1] /\ m > 0
          <5>1. due = <<>>
            BY <1>9, <1>10, <3>2, EmptySeq
          <5>2. 1 \in 1 .. n + m /\ ~(1 <= n) /\ 1 - n = 1
            BY <3>1, <3>2
          <5> QED
            BY <1>11, <3>1, <3>2, <5>1, <5>2 DEF Newest
        <4> QED
          BY <1>13, <4>1
      <3>3. CASE n > 0
        <4>1. due # <<>> /\ all[1] = due[1]
          <5>1. 1 \in 1 .. n + m /\ 1 <= n
            BY <3>1, <3>3
          <5> QED
            BY <1>9, <1>10, <1>11, <3>3, <5>1, EmptySeq
        <4> QED
          BY <4>1 DEF QueueInv, Chain
      <3> QED
        BY <3>2, <3>3
    <2>2. ASSUME NEW i \in 1 .. (n + m) - 1 PROVE Near(all[i], all[i + 1], steady)
      <3>1. i \in 1 .. n + m /\ i + 1 \in 1 .. n + m
        OBVIOUS
      <3>2. CASE i < n
        <4>1. all[i] = due[i] /\ all[i + 1] = due[i + 1] /\ i \in 1 .. n - 1
          <5>1. i <= n /\ i + 1 <= n /\ i \in 1 .. n - 1
            BY <3>2
          <5> QED
            BY <1>11, <3>1, <5>1
        <4> QED
          BY <1>10, <4>1 DEF QueueInv, Chain
      <3>3. CASE i = n
        <4>1. all[i] = due[n] /\ all[i + 1] = r[1] /\ m > 0
          <5>1. i <= n /\ ~(i + 1 <= n) /\ (i + 1) - n = 1
            BY <3>3
          <5> QED
            BY <1>11, <3>1, <3>3, <5>1
        <4>2. due[n] = Newest(shown, due)
          BY <1>9, <1>10, <3>3, EmptySeq DEF Newest
        <4> QED
          BY <1>13, <4>1, <4>2
      <3>4. CASE i > n
        <4>1. PICK j \in 1 .. m - 1 : j = i - n
          BY <3>4
        <4>2. all[i] = r[j] /\ all[i + 1] = r[j + 1]
          <5>1. ~(i <= n) /\ ~(i + 1 <= n) /\ (i + 1) - n = j + 1
            BY <3>4, <4>1
          <5> QED
            BY <1>11, <3>1, <4>1, <5>1
        <4>3. /\ r[j] # Flat /\ r[j].heard = late + p + since - Steps(j)
              /\ r[j + 1].heard = late + p + since - Steps(j + 1)
              /\ Steps(j + 1) = Steps(j) + step /\ Steps(j) \in Nat
          <5>1. j \in 1 .. m /\ j + 1 \in 1 .. m
            OBVIOUS
          <5> QED
            BY <1>3, <1>7, <5>1
        <4>4. r[j].heard <= r[j + 1].heard + step
          BY <4>3
        <4> QED
          BY <1>1, <4>2, <4>3, <4>4 DEF Near
      <3> QED
        BY <3>2, <3>3, <3>4
    <2> QED
      BY <1>11, <2>1, <2>2 DEF Chain
  <1>15. Fresh(shown, all, after + left, steady)
    <2>1. CASE m = 0
      <3>1. after + left = sinceStep + p + pending
        BY <1>1, <1>2, <1>3, <2>1
      <3>2. Newest(shown, all) = Newest(shown, due)
        <4>1. all = <<>> <=> due = <<>>
          BY <1>9, <1>10, <1>11, <2>1, EmptySeq
        <4>2. n > 0 => all[n + m] = due[n]
          BY <1>11, <2>1
        <4>3. due # <<>> => n > 0
          BY <1>9, <1>10, EmptySeq
        <4> QED
          BY <1>10, <1>11, <2>1, <4>1, <4>2, <4>3 DEF Newest
      <3> QED
        BY <3>1, <3>2 DEF QueueInv, Fresh
    <2>2. CASE m > 0
      <3>1. Newest(shown, all) = r[m]
        <4>1. n + m \in 1 .. n + m /\ ~(n + m <= n) /\ (n + m) - n = m
          BY <2>2
        <4>2. all # <<>>
          BY <1>11, <2>2
        <4> QED
          BY <1>11, <4>1, <4>2 DEF Newest
      <3>2. r[m] # Flat /\ r[m].heard = late + after
        <4>1. m \in 1 .. m
          BY <2>2
        <4>2. r[m] # Flat /\ r[m].heard = late + p + since - Steps(m)
          BY <1>7, <4>1
        <4> QED
          BY <1>1, <1>2, <1>3, <4>2
      <3>3. steady <= after + left \/ r[m].heard <= after + left
        BY <1>1, <3>2
      <3> QED
        BY <3>1, <3>2, <3>3 DEF Fresh
    <2> QED
      BY <2>1, <2>2
  <1>16. QueueInv(shown, all, after + left, steady)
    BY <1>11, <1>12, <1>14, <1>15 DEF QueueInv
  <1> QED
    BY <1>1, <1>2, <1>5, <1>17, <1>16

----------------------------------------------------------------------------
(* Time.                                                                   *)

\* A result, a time unit later.
LEMMA AgedIs ==
    ASSUME NEW r \in Sounding
    PROVE  /\ Aged(r) \in Sounding /\ Aged(r) # Flat /\ Aged(r).at \in Int /\ Aged(r).heard \in Nat
           /\ Aged(r).at <= r.at /\ r.heard <= Aged(r).heard /\ Aged(r).heard <= r.heard + 1
           /\ Aged(r).at > 0 => r.at > 0
           /\ r.at > 0 => Aged(r).heard = r.heard + 1
           /\ Aged(r).at + Aged(r).heard = r.at + r.heard
  <1>1. PICK at \in Int, heard \in Nat : r = [at |-> at, heard |-> heard] /\ at = r.at /\ heard = r.heard
    BY SoundingIs
  <1>2. /\ at + heard >= kDisplayDelay /\ at + heard <= kDisplayDelay + MaxLate
        /\ r # Flat /\ (Stale(r) <=> at < -kStale)
    BY <1>1, SoundingIs
  <1>3. CASE Stale(r)
    <2>1. Aged(r) = r /\ at <= 0
      BY <1>2, <1>3, Bounds DEF Aged
    <2> QED
      BY <1>1, <1>2, <2>1
  <1>4. CASE ~Stale(r)
    <2>1. Aged(r) = [at |-> at - 1, heard |-> heard + 1]
      BY <1>1, <1>4 DEF Aged
    <2>2. [at |-> at - 1, heard |-> heard + 1] \in Sounding
      BY <1>2, SoundingType, Bounds
    <2>3. Aged(r) \in Sounding /\ Aged(r) # Flat
      BY <2>1, <2>2, SoundingIs
    <2> QED
      BY <1>1, <2>1, <2>3
  <1> QED
    BY <1>3, <1>4

\* What was taken out, a time unit later.
Later(first) == IF Stale(first) \/ Stale(Aged(first)) THEN Flat ELSE Aged(first)

\* It stays what it was, or is long over.
LEMMA LaterIs ==
    ASSUME NEW first, Taken(first)
    PROVE  /\ Taken(Later(first))
           /\ Later(first) # Flat => first # Flat /\ first \in Sounding /\ Later(first) = Aged(first)
           /\ Later(first) = Flat /\ first # Flat =>
                  first \in Sounding /\ first.heard >= kDisplayDelay + kStale
  <1>1. CASE first = Flat
    BY <1>1 DEF Later, Taken, Stale
  <1>2. CASE first # Flat
    <2>1. first \in Sounding /\ first.at <= 0 /\ first.at >= -kStale
      BY <1>2, SoundingIs, Bounds DEF Taken
    <2>2. PICK next : next = Aged(first)
      OBVIOUS
    <2>3. /\ next \in Sounding /\ next # Flat /\ next.at \in Int /\ next.heard \in Nat
          /\ next.at <= first.at /\ next.heard <= first.heard + 1
          /\ next.at + next.heard >= kDisplayDelay
          /\ Stale(next) <=> next.at < -kStale
      BY <2>1, <2>2, AgedIs, SoundingIs
    <2>4. first.at \in Int /\ first.heard \in Nat /\ ~Stale(first)
      BY <1>2, <2>1, SoundingIs DEF Taken
    <2>5. Later(first) = IF Stale(next) THEN Flat ELSE next
      BY <2>2, <2>4 DEF Later
    <2>6. next.at <= 0
      BY <2>1, <2>3, <2>4
    <2>7. Stale(next) => first.heard >= kDisplayDelay + kStale
      BY <2>1, <2>3, <2>4, Bounds
    <2> QED
      BY <1>2, <2>1, <2>2, <2>3, <2>5, <2>6, <2>7 DEF Taken
  <1> QED
    BY <1>1, <1>2

\* A result still to come ages as what is before it does, while the sound goes on.
LEMMA NearAges ==
    ASSUME NEW next \in Sounding, NEW streak \in Nat, NEW streakNow \in Nat, streakNow <= streak + 1,
           NEW r, NEW rNow, r # Flat => r \in Sounding, rNow # Flat => r # Flat /\ rNow = Aged(r),
           rNow = Flat /\ r # Flat => r.heard >= kDisplayDelay + kStale,
           Near(r, next, streak)
    PROVE  Near(rNow, Aged(next), streakNow)
  <1>1. PICK aged : aged = Aged(next)
    OBVIOUS
  <1>2. /\ next.at \in Int /\ next.heard \in Nat /\ aged.at \in Int /\ aged.heard \in Nat
        /\ next.at <= 0 => aged.at <= 0
        /\ next.at > 0 => aged.heard = next.heard + 1
        /\ next.at + next.heard <= kDisplayDelay + MaxLate
    BY <1>1, AgedIs, SoundingIs
  <1>3. CASE next.at <= 0
    BY <1>1, <1>2, <1>3 DEF Near
  <1>4. CASE next.at > 0 /\ streak <= next.heard + kStep
    <2>1. streakNow <= aged.heard + kStep
      BY <1>2, <1>4, Bounds
    <2> QED
      BY <1>1, <2>1 DEF Near
  <1>5. CASE next.at > 0 /\ r # Flat /\ r.heard <= next.heard + kStep
    <2>1. rNow # Flat
      <3> SUFFICES ASSUME rNow = Flat PROVE FALSE
        OBVIOUS
      <3>1. r.heard >= kDisplayDelay + kStale /\ r.heard \in Nat
        BY <1>5, SoundingIs
      <3> QED
        BY <1>2, <1>5, <3>1, Bounds
    <2>2. rNow.heard \in Nat /\ rNow.heard <= r.heard + 1 /\ r.heard \in Nat
      BY <1>5, <2>1, AgedIs, SoundingIs
    <2>3. rNow.heard <= aged.heard + kStep
      BY <1>2, <1>5, <2>2, Bounds
    <2> QED
      BY <1>1, <2>1, <2>3 DEF Near
  <1> QED
    BY <1>2, <1>3, <1>4, <1>5 DEF Near

\* The queue ages; a frame was recorded meanwhile, or the sound is interrupted.
LEMMA QueueAges ==
    ASSUME NEW q, NEW first, NEW unanalysed \in Nat, NEW streak \in Nat, NEW streakNow \in Nat,
           NEW more \in {0, 1}, more = 0 => streakNow = 0, streakNow <= streak + 1,
           QueueInv(first, q, unanalysed, streak),
           streak > 0 => unanalysed < kStep + kDisplayDelay + MaxLate
    PROVE  QueueInv(Later(first), [i \in DOMAIN q |-> Aged(q[i])], unanalysed + more, streakNow)
  <1>1. /\ q \in Seq(Sounding) /\ Taken(first) /\ InOrder(q, unanalysed)
        /\ Chain(first, q, streak) /\ Fresh(first, q, unanalysed, streak)
    BY DEF QueueInv
  <1>2. PICK n \in Nat : n = Len(q) /\ DOMAIN q = 1 .. n
    BY <1>1
  <1>3. PICK all : all = [i \in 1 .. n |-> Aged(q[i])]
    OBVIOUS
  <1>4. \A i \in 1 .. n : q[i] \in Sounding
    BY <1>1, <1>2
  <1>5. \A i \in 1 .. n : all[i] = Aged(q[i]) /\ all[i] \in Sounding
    BY <1>3, <1>4, AgedIs
  <1>6. all \in Seq(Sounding) /\ Len(all) = n
    BY <1>3, <1>5
  <1>7. PICK now : now = Later(first)
    OBVIOUS
  <1>8. /\ Taken(now)
        /\ first # Flat => first \in Sounding
        /\ now # Flat => first # Flat /\ now = Aged(first)
        /\ now = Flat /\ first # Flat => first.heard >= kDisplayDelay + kStale
    BY <1>1, <1>7, LaterIs DEF Taken
  <1>9. InOrder(all, unanalysed + more)
    <2> SUFFICES ASSUME NEW i \in 1 .. n, all[i].at > 0
                 PROVE  all[i].heard >= Steps(n - i) + (unanalysed + more)
      <3>1. \A i \in 1 .. n : all[i].at \in Int
        BY <1>5, SoundingIs
      <3> QED
        BY <1>6, <3>1 DEF InOrder
    <2>1. /\ q[i].at \in Int /\ q[i].at > 0 /\ q[i].heard \in Nat /\ all[i].heard = q[i].heard + 1
      BY <1>4, <1>5, AgedIs, SoundingIs
    <2>2. q[i].at <= 0 \/ q[i].heard >= Steps(n - i) + unanalysed
      BY <1>1, <1>2 DEF InOrder
    <2>3. Steps(n - i) \in Int
      BY StepsGrow
    <2> QED
      BY <2>1, <2>2, <2>3
  <1>10. Chain(now, all, streakNow)
    <2>1. ASSUME all # <<>> PROVE Near(now, all[1], streakNow)
      <3>1. 1 \in 1 .. n /\ q # <<>>
        BY <1>1, <1>2, <1>6, <2>1, EmptySeq
      <3>2. Near(first, q[1], streak)
        BY <1>1, <3>1 DEF Chain
      <3>3. q[1] \in Sounding /\ all[1] = Aged(q[1])
        BY <1>4, <1>5, <3>1
      <3> QED
        BY <1>8, <3>2, <3>3, NearAges
    <2>2. ASSUME NEW i \in 1 .. n - 1 PROVE Near(all[i], all[i + 1], streakNow)
      <3>1. i \in 1 .. n /\ i + 1 \in 1 .. n
        OBVIOUS
      <3>2. Near(q[i], q[i + 1], streak)
        BY <1>1, <1>2 DEF Chain
      <3>3. /\ q[i + 1] \in Sounding /\ all[i + 1] = Aged(q[i + 1])
            /\ q[i] \in Sounding /\ all[i] = Aged(q[i]) /\ all[i] # Flat /\ q[i] # Flat
        BY <1>4, <1>5, <3>1, SoundingIs
      <3> QED
        BY <3>2, <3>3, NearAges
    <2> QED
      BY <1>6, <2>1, <2>2 DEF Chain
  <1>11. Fresh(now, all, unanalysed + more, streakNow)
    <2>1. PICK last : last = Newest(first, q)
      OBVIOUS
    <2>2. PICK lastNow : lastNow = Newest(now, all)
      OBVIOUS
    <2>3. /\ last # Flat => last \in Sounding
          /\ lastNow # Flat => last # Flat /\ lastNow = Aged(last)
          /\ lastNow = Flat /\ last # Flat => last.heard >= kDisplayDelay + kStale
      <3>1. CASE n = 0
        <4>1. q = <<>> /\ all = <<>>
          BY <1>1, <1>2, <1>6, <3>1, EmptySeq
        <4> QED
          BY <1>8, <2>1, <2>2, <4>1 DEF Newest
      <3>2. CASE n # 0
        <4>1. q # <<>> /\ all # <<>> /\ n \in 1 .. n
          BY <1>1, <1>2, <1>6, <3>2, EmptySeq
        <4>2. last = q[n] /\ lastNow = all[n]
          BY <1>2, <1>6, <2>1, <2>2, <4>1 DEF Newest
        <4> QED
          BY <1>4, <1>5, <4>1, <4>2, SoundingIs
      <3> QED
        BY <3>1, <3>2
    <2>4. streak <= unanalysed \/ (last # Flat /\ last.heard <= unanalysed)
      BY <1>1, <2>1 DEF Fresh
    <2>5. CASE streakNow = 0 \/ streak <= unanalysed
      BY <2>5 DEF Fresh
    <2>6. CASE streakNow # 0 /\ ~(streak <= unanalysed)
      <3>1. more = 1 /\ last # Flat /\ last.heard <= unanalysed /\ last.heard \in Nat
        BY <2>3, <2>4, <2>6, SoundingIs
      <3>2. lastNow # Flat
        BY <2>3, <2>6, <3>1, Bounds
      <3>3. lastNow.heard \in Nat /\ lastNow.heard <= last.heard + 1
        BY <2>3, <3>1, <3>2, AgedIs
      <3> QED
        BY <2>2, <3>1, <3>2, <3>3 DEF Fresh
    <2> QED
      BY <2>5, <2>6
  <1>12. QueueInv(now, all, unanalysed + more, streakNow)
    BY <1>6, <1>8, <1>9, <1>10, <1>11 DEF QueueInv
  <1> QED
    BY <1>2, <1>3, <1>7, <1>12

\* When what was recorded is lost, so is the streak.
LEMMA QueueStays ==
    ASSUME NEW q, NEW first, NEW unanalysed \in Nat, NEW streak, NEW less \in Nat, less <= unanalysed,
           QueueInv(first, q, unanalysed, streak)
    PROVE  QueueInv(first, q, less, 0)
  <1>1. q \in Seq(Sounding) /\ Taken(first) /\ InOrder(q, unanalysed)
    BY DEF QueueInv
  <1>2. PICK n \in Nat : n = Len(q)
    BY <1>1
  <1>3. \A i \in 1 .. n : q[i] \in Sounding /\ q[i].heard \in Nat
    BY <1>1, <1>2, SoundingIs
  <1>4. InOrder(q, less)
    <2> SUFFICES ASSUME NEW i \in 1 .. n PROVE q[i].at <= 0 \/ q[i].heard >= Steps(n - i) + less
      BY <1>2 DEF InOrder
    <2>1. q[i].at <= 0 \/ q[i].heard >= Steps(n - i) + unanalysed
      BY <1>1, <1>2 DEF InOrder
    <2>2. Steps(n - i) \in Int /\ q[i].heard \in Nat
      BY <1>3, StepsGrow
    <2> QED
      BY <2>1, <2>2
  <1>5. \A i \in 1 .. n : \A r : Near(r, q[i], 0)
    BY <1>3, Bounds DEF Near
  <1>6. Chain(first, q, 0)
    <2>1. q # <<>> => 1 \in 1 .. n
      BY <1>1, <1>2, EmptySeq
    <2>2. \A i \in 1 .. n - 1 : i + 1 \in 1 .. n
      OBVIOUS
    <2> QED
      BY <1>2, <1>5, <2>1, <2>2 DEF Chain
  <1>7. Fresh(first, q, less, 0)
    BY DEF Fresh
  <1> QED
    BY <1>1, <1>4, <1>6, <1>7 DEF QueueInv

----------------------------------------------------------------------------
(* The card.                                                               *)

Unanalysed == sinceStep + Len(card) + pending

BarTypes ==
    /\ card \in Seq(Nat) /\ period \in Periods /\ pending \in 0 .. period - 1
    /\ sinceStep \in 0 .. kStep - 1 /\ steady \in 0 .. SteadyTime

\* What was delivered waits less than a period to be read: the last of it is `late' old, and
\* since then nothing was lost, or the streak began.
Waits(late) ==
    /\ InTurn(card, period, late) /\ pending <= late
    /\ late = pending \/ steady <= pending
    /\ worker = "asleep" => late + period <= timer

CardInv ==
    Open \/ steady > 0 =>
        /\ steady > 0 => worker \in {"waiting", "reading", "done"}
        /\ worker \in {"sleepy", "tested"} => card = <<>> /\ pending = 0
        /\ worker = "asleep" => pending <= timer
        /\ card # <<>> => \E late \in 0 .. MaxLate : Waits(late)

BarsInv == BarTypes /\ CardInv /\ QueueInv(shown, due, Unanalysed, steady)

\* Less than a step, a period and the delay in reading it isn't analysed yet.
LEMMA UnanalysedIs ==
    ASSUME BarsInv
    PROVE  Unanalysed \in Nat /\ (steady > 0 => Unanalysed < kStep + kDisplayDelay + MaxLate)
  <1>1. /\ card \in Seq(Nat) /\ sinceStep \in 0 .. kStep - 1 /\ Len(card) \in Nat
        /\ period \in Nat /\ period <= kPeriod /\ pending \in 0 .. period - 1
    BY Sizes DEF BarsInv, BarTypes
  <1>2. ASSUME steady > 0 PROVE Unanalysed < kStep + kDisplayDelay + MaxLate
    <2>1. CASE card = <<>>
      <3>1. Len(card) = 0
        BY <2>1
      <3> QED
        BY <1>1, <3>1, Bounds DEF Unanalysed
    <2>2. CASE card # <<>>
      <3>1. PICK late \in 0 .. MaxLate : Waits(late)
        BY <1>2, <2>2 DEF BarsInv, CardInv
      <3>2. Len(card) = period /\ pending <= late
        BY <3>1 DEF Waits, InTurn
      <3> QED
        BY <1>1, <3>2, Bounds DEF Unanalysed
    <2> QED
      BY <2>1, <2>2
  <1> QED
    BY <1>1, <1>2, Bounds DEF Unanalysed

\* The invariant is what the property needs,
LEMMA BarsInvFollows == BarsInv => BarsFollowSound
  <1> SUFFICES ASSUME BarsInv PROVE BarsFollowSound
    OBVIOUS
  <1>1. steady \in Nat
    BY Bounds DEF BarsInv, BarTypes
  <1> QED
    BY <1>1, UnanalysedIs, LevelsFollow DEF BarsInv

\* it holds at first,
LEMMA BarsInit == SpectrumInit => BarsInv
  <1> SUFFICES ASSUME SpectrumInit PROVE BarsInv
    OBVIOUS
  <1>1. /\ worker = "opening" /\ sinceStep = 0 /\ due = <<>> /\ shown = Flat
        /\ period \in Periods /\ pending = 0 /\ card = <<>> /\ steady = 0
    BY DEF SpectrumInit
  <1>2. BarTypes
    BY <1>1, Sizes, Bounds DEF BarTypes
  <1>3. CardInv
    BY <1>1 DEF CardInv, Open
  <1>4. Unanalysed = 0
    BY <1>1 DEF Unanalysed
  <1>5. QueueInv(Flat, <<>>, 0, 0)
    BY DEF QueueInv, Taken, InOrder, Chain, Fresh
  <1> QED
    BY <1>1, <1>2, <1>3, <1>4, <1>5 DEF BarsInv

\* The levels are taken.
\* and when the levels are taken.
LEMMA TakingKeeps == BarsInv /\ TakesLevels => BarsInv'
  <1> SUFFICES ASSUME BarsInv, TakesLevels PROVE BarsInv'
    OBVIOUS
  <1>1. /\ shown' = Levels /\ due' = SubSeq(due, Overdue + 1, Len(due))
        /\ UNCHANGED <<worker, timer, nap, sinceStep, period, pending, card, broken, steady>>
    BY DEF TakesLevels, workerVars, cardVars
  <1>2. BarTypes' /\ CardInv' /\ Unanalysed' = Unanalysed
    BY <1>1 DEF BarsInv, BarTypes, CardInv, Open, Waits, InTurn, Unanalysed
  <1>3. steady \in Nat
    BY Bounds DEF BarsInv, BarTypes
  <1>4. QueueInv(Levels, SubSeq(due, Overdue + 1, Len(due)), Unanalysed, steady)
    BY <1>3, UnanalysedIs, TakenKeeps DEF BarsInv
  <1> QED
    BY <1>1, <1>2, <1>4 DEF BarsInv

\* The worker does no more than to move, while the card has what it had.
LEMMA MovesKeep ==
    ASSUME BarsInv, TimerTypes,
           WaitReturns \/ ReadsAll \/ Tests \/ FallsAsleep \/ TimesOut \/ Wakes \/ Stops
    PROVE  BarsInv'
  <1>1. UNCHANGED <<due, shown, sinceStep, period, pending, card, broken, steady>>
    BY DEF WaitReturns, ReadsAll, Tests, FallsAsleep, TimesOut, Wakes, Stops, levelsVars, cardVars
  <1>2. BarTypes' /\ Unanalysed' = Unanalysed
    BY <1>1 DEF BarsInv, BarTypes, Unanalysed
  <1>3. CardInv'
    <2> SUFFICES ASSUME (Open \/ steady > 0)'
                 PROVE  /\ steady > 0 => worker' \in {"waiting", "reading", "done"}
                        /\ worker' \in {"sleepy", "tested"} => card = <<>> /\ pending = 0
                        /\ worker' = "asleep" => pending <= timer'
                        /\ card # <<>> => \E late \in 0 .. MaxLate : Waits(late)'
      BY <1>1 DEF CardInv
    <2>1. pending \in Nat /\ steady \in Nat /\ Pause # kRetry
      BY Sizes DEF BarsInv, BarTypes
    <2>2. Open \/ steady > 0
      BY <1>1, <2>1 DEF Open, Goes, TimerTypes, Workers, BarsInv, CardInv,
            WaitReturns, ReadsAll, Tests, FallsAsleep, TimesOut, Wakes, Stops
    <2>3. /\ steady > 0 => worker \in {"waiting", "reading", "done"}
          /\ worker \in {"sleepy", "tested"} => card = <<>> /\ pending = 0
          /\ worker = "asleep" => pending <= timer
          /\ card # <<>> => \E late \in 0 .. MaxLate : Waits(late)
      BY <2>2 DEF BarsInv, CardInv
    <2>4. worker' = "asleep" => FallsAsleep
      BY DEF Goes, WaitReturns, ReadsAll, Tests, TimesOut, Wakes, Stops
    <2>5. FallsAsleep => card = <<>> /\ pending = 0 /\ timer' = 0
      BY <2>3 DEF FallsAsleep
    <2>6. worker' = "tested" => worker \in {"sleepy", "tested"}
      BY DEF Goes, WaitReturns, ReadsAll, Tests, FallsAsleep, TimesOut, Wakes, Stops
    <2>7. worker' # "sleepy" \/ worker = "sleepy"
      BY DEF Goes, WaitReturns, ReadsAll, Tests, FallsAsleep, TimesOut, Wakes, Stops
    <2>8. steady > 0 => worker' \in {"waiting", "reading", "done"}
      BY <2>3 DEF Goes, WaitReturns, ReadsAll, Tests, FallsAsleep, TimesOut, Wakes, Stops
    <2>9. ASSUME card # <<>> PROVE \E late \in 0 .. MaxLate : Waits(late)'
      <3>1. PICK late \in 0 .. MaxLate : Waits(late)
        BY <2>3, <2>9
      <3>2. worker' # "asleep"
        BY <2>4, <2>5, <2>9
      <3>3. Waits(late)'
        BY <1>1, <3>1, <3>2 DEF Waits, InTurn
      <3> QED
        BY <3>3
    <2> QED
      BY <2>1, <2>3, <2>4, <2>5, <2>6, <2>7, <2>8, <2>9
  <1> QED
    BY <1>1, <1>2, <1>3 DEF BarsInv

\* What was recorded is dropped.
LEMMA LossKeeps ==
    ASSUME BarsInv, UNCHANGED <<due, shown, sinceStep>>,
           card' = <<>>, pending' = 0, steady' = 0, period' \in Periods, worker' # "asleep"
    PROVE  BarsInv'
  <1>1. BarTypes'
    <2>1. PICK size \in Nat \ {0}, streak \in Nat : size = period' /\ streak = SteadyTime
      BY Sizes
    <2>2. 0 \in 0 .. size - 1 /\ 0 \in 0 .. streak
      OBVIOUS
    <2>3. card' \in Seq(Nat) /\ sinceStep' \in 0 .. kStep - 1
      BY DEF BarsInv, BarTypes
    <2> QED
      BY <2>1, <2>2, <2>3 DEF BarTypes
  <1>2. CardInv'
    BY DEF CardInv
  <1>3. Unanalysed' \in Nat /\ Unanalysed' <= Unanalysed
    BY Bounds DEF Unanalysed, BarsInv, BarTypes
  <1>4. QueueInv(shown, due, Unanalysed', 0)
    BY <1>3, UnanalysedIs, QueueStays DEF BarsInv
  <1> QED
    BY <1>1, <1>2, <1>4 DEF BarsInv

\* As when the device is opened, recovered or closed.
LEMMA DropsKeep ==
    ASSUME BarsInv, TimerTypes, Opens \/ OpenFails \/ Recovers \/ RecoverFails
    PROVE  BarsInv'
  <1>1. UNCHANGED <<due, shown, sinceStep>> /\ Drops
    BY DEF Opens, OpenFails, Recovers, RecoverFails, GivesUp, levelsVars
  <1>2. period' \in Periods
    BY DEF Opens, OpenFails, Recovers, RecoverFails, GivesUp, BarsInv, BarTypes
  <1>3. worker' # "asleep"
    BY DEF Opens, OpenFails, Recovers, RecoverFails, GivesUp, Goes, Sleeps
  <1> QED
    BY <1>1, <1>2, <1>3, LossKeeps DEF Drops

\* The program starts again, with nothing queued.
LEMMA RestartsKeep == BarsInv /\ Restarts => BarsInv'
  <1> SUFFICES ASSUME BarsInv, Restarts PROVE BarsInv'
    OBVIOUS
  <1>1. /\ worker' = "opening" /\ sinceStep' = 0 /\ due' = <<>> /\ shown' = Flat
        /\ card' = <<>> /\ pending' = 0 /\ steady' = 0 /\ period' = period
    BY DEF Restarts, Drops
  <1>2. BarTypes'
    BY <1>1, Sizes, Bounds DEF BarsInv, BarTypes
  <1>3. CardInv'
    BY <1>1 DEF CardInv
  <1>4. Unanalysed' = 0
    BY <1>1 DEF Unanalysed
  <1>5. QueueInv(Flat, <<>>, 0, 0)
    BY DEF QueueInv, Taken, InOrder, Chain, Fresh
  <1> QED
    BY <1>1, <1>2, <1>3, <1>4, <1>5 DEF BarsInv

\* The sound starts or pauses, or the other end closes.
LEMMA CardKeeps ==
    ASSUME BarsInv, TimerTypes, Toggles \/ Breaks
    PROVE  BarsInv'
  <1>1. UNCHANGED <<worker, timer, nap, sinceStep, due, shown, period, card>>
    BY DEF Toggles, Breaks, workerVars, levelsVars
  <1>2. CASE Breaks
    <2>1. UNCHANGED <<pending, steady>>
      BY <1>2 DEF Breaks
    <2> QED
      BY <1>1, <2>1 DEF BarsInv, BarTypes, CardInv, Open, Waits, InTurn, Unanalysed
  <1>3. CASE Toggles
    <2>1. pending' = 0 /\ steady' = 0
      BY <1>3 DEF Toggles
    <2>2. BarTypes'
      BY <1>1, <2>1, Sizes, Bounds DEF BarsInv, BarTypes
    <2>3. CardInv'
      <3> SUFFICES ASSUME Open
                   PROVE  /\ worker \in {"sleepy", "tested"} => card = <<>>
                          /\ worker = "asleep" => 0 <= timer
                          /\ card # <<>> => \E late \in 0 .. MaxLate : Waits(late)'
        BY <1>1, <2>1 DEF CardInv, Open
      <3>1. /\ worker \in {"sleepy", "tested"} => card = <<>>
            /\ worker = "asleep" => pending <= timer
            /\ card # <<>> => \E late \in 0 .. MaxLate : Waits(late)
        BY DEF BarsInv, CardInv
      <3>2. timer \in Nat
        BY DEF TimerTypes
      <3>3. ASSUME NEW late \in 0 .. MaxLate, Waits(late) PROVE Waits(late)'
        BY <1>1, <2>1, <3>3 DEF Waits, InTurn
      <3> QED
        BY <3>1, <3>2, <3>3
    <2>4. Unanalysed' \in Nat /\ Unanalysed' <= Unanalysed
      BY <1>1, <2>1, Bounds DEF Unanalysed, BarsInv, BarTypes
    <2>5. QueueInv(shown, due, Unanalysed', 0)
      BY <2>4, UnanalysedIs, QueueStays DEF BarsInv
    <2> QED
      BY <1>1, <2>1, <2>2, <2>3, <2>5 DEF BarsInv
  <1> QED
    BY <1>2, <1>3

\* A period is read.
LEMMA ReadingKeeps == BarsInv /\ Reads => BarsInv'
  <1> SUFFICES ASSUME BarsInv, Reads PROVE BarsInv'
    OBVIOUS
  <1>1. worker = "reading" /\ card # <<>> /\ UNCHANGED <<worker, timer, nap, shown, period, pending, steady>>
    BY DEF Reads
  <1>2. PICK late \in 0 .. MaxLate : Waits(late)
    BY <1>1 DEF BarsInv, CardInv, Open
  <1>3. InTurn(card, period, late) /\ pending <= late /\ (late = pending \/ steady <= pending)
    BY <1>2 DEF Waits
  <1>4. /\ period \in Nat \ {0} /\ period <= kPeriod /\ pending \in Nat /\ steady \in Nat
        /\ late \in Nat /\ late <= MaxLate /\ sinceStep \in 0 .. kStep - 1
    BY Sizes DEF BarsInv, BarTypes
  <1>5. Len(card) = period /\ card \in Seq(Nat) /\ Least(kPeriod, Len(card)) = period
    BY <1>3, <1>4, Bounds DEF InTurn, Least
  <1>6. SubSeq(card, 1, period) = card /\ SubSeq(card, period + 1, Len(card)) = <<>>
    BY <1>4, <1>5
  <1>7. PICK all : all = due \o Results(card)
    OBVIOUS
  <1>8. PICK after : after = (sinceStep + period) % kStep
    OBVIOUS
  <1>9. /\ card' = <<>> /\ sinceStep' = after
        /\ due' = IF Len(all) <= kMostDue THEN all
                  ELSE SubSeq(all, Len(all) - kMostDue + 1, Len(all))
    BY <1>5, <1>6, <1>7, <1>8 DEF Reads
  <1>10. QueueInv(shown, due, sinceStep + period + pending, steady)
    BY <1>5 DEF BarsInv, Unanalysed
  <1>11. after \in 0 .. kStep - 1 /\ QueueInv(shown, all, after + pending, steady)
    BY <1>3, <1>4, <1>7, <1>8, <1>10, ReadsAdd
  <1>12. after + pending \in Nat /\ Unanalysed' = after + pending
    BY <1>1, <1>4, <1>9, <1>11, Bounds DEF Unanalysed
  <1>13. QueueInv(shown, due', after + pending, steady)
    <2>1. Len(all) \in Nat /\ kMostDue \in Nat
      BY <1>11, Sizes DEF QueueInv
    <2>2. Len(all) > kMostDue => 
            QueueInv(shown, SubSeq(all, Len(all) - kMostDue + 1, Len(all)), after + pending, steady)
      BY <1>4, <1>11, <1>12, CutKeeps
    <2> QED
      BY <1>9, <1>11, <2>1, <2>2
  <1>14. BarTypes'
    BY <1>1, <1>9, <1>11 DEF BarsInv, BarTypes
  <1>15. CardInv'
    BY <1>1, <1>9 DEF CardInv
  <1> QED
    BY <1>1, <1>12, <1>13, <1>14, <1>15 DEF BarsInv

\* What waits isn't too late, before time goes on.
LEMMA NotTooLate ==
    ASSUME BarsInv, TimerTypes, Tick, Open, card # <<>>
    PROVE  \E late \in 0 .. MaxLate - 1 : Waits(late)
  <1>1. PICK late \in 0 .. MaxLate : Waits(late)
    BY DEF BarsInv, CardInv
  <1>2. PICK size \in Nat \ {0}, most \in Nat : 
            size = period /\ most = MaxLate /\ most < size /\ Pause <= size + most /\ Pause \in Nat
    BY Sizes DEF BarsInv, BarTypes
  <1>3. late < MaxLate
    <2>1. CASE worker = "waiting"
      <3>1. Len(card) = size /\ card[size] = late
        BY <1>1, <1>2 DEF Waits, InTurn
      <3>2. Ready => card[size] < MaxLate
        BY <1>2, <2>1 DEF Tick
      <3> QED
        BY <1>2, <3>1, <3>2 DEF Ready
    <2>2. CASE worker = "asleep"
      <3>1. nap = Pause
        BY <2>2 DEF Open
      <3>2. timer < nap /\ timer \in Nat
        BY <2>2 DEF Tick, TimerTypes
      <3>3. late + size <= timer
        BY <1>1, <1>2, <2>2 DEF Waits
      <3> QED
        BY <1>2, <3>1, <3>2, <3>3
    <2> QED
      BY <2>1, <2>2 DEF Tick, Open
  <1> QED
    BY <1>1, <1>2, <1>3

\* What the card has, a time unit later: nothing new, a frame more of a period, or a period.
LEMMA CardAges ==
    ASSUME BarsInv, TimerTypes, Tick
    PROVE  /\ BarTypes' /\ CardInv'
           /\ steady' \in Nat /\ steady' <= steady + 1
           /\ \E more \in {0, 1} : Unanalysed' = Unanalysed + more /\ (more = 0 => steady' = 0)
  <1>1. /\ worker \in {"waiting", "asleep", "done"}
        /\ UNCHANGED <<worker, nap, sinceStep, period>>
        /\ timer' = IF worker = "done" THEN timer ELSE timer + 1
    BY DEF Tick
  <1>2. PICK size \in Nat \ {0}, part \in Nat, since \in Nat, streak \in Nat, most \in Nat, steadyTime \in Nat :
            /\ size = period /\ part = pending /\ part < size /\ since = sinceStep /\ streak = steady
            /\ most = MaxLate /\ most < size /\ steadyTime = SteadyTime /\ streak <= steadyTime
            /\ size <= kPeriod
    <2>1. /\ period \in Nat \ {0} /\ pending \in 0 .. period - 1 /\ sinceStep \in 0 .. kStep - 1
          /\ steady \in 0 .. SteadyTime /\ MaxLate < period /\ period <= kPeriod
      BY Sizes DEF BarsInv, BarTypes
    <2> QED
      BY <2>1, Bounds
  <1>3. card \in Seq(Nat) /\ timer \in Nat
    BY DEF BarsInv, BarTypes, TimerTypes
  <1>4. PICK older : older = [i \in DOMAIN card |-> card[i] + 1]
    OBVIOUS
  <1>5. older \in Seq(Nat) /\ Len(older) = Len(card) /\ \A i \in 1 .. Len(card) : older[i] = card[i] + 1
    <2>1. PICK n \in Nat : n = Len(card) /\ DOMAIN card = 1 .. n
      BY <1>3
    <2>2. \A i \in 1 .. n : card[i] \in Nat
      BY <1>3, <2>1
    <2>3. older = [i \in 1 .. n |-> card[i] + 1]
      BY <1>4, <2>1
    <2>4. \A i \in 1 .. n : older[i] = card[i] + 1 /\ older[i] \in Nat
      BY <2>2, <2>3
    <2>5. older \in Seq(Nat) /\ Len(older) = n
      BY <2>3, <2>4
    <2> QED
      BY <2>1, <2>4, <2>5
  <1>6. /\ steady' = IF Records /\ worker = "waiting" THEN Least(steady + 1, SteadyTime) ELSE 0
        /\ pending' = IF Records /\ pending + 1 = period THEN 0 ELSE IF Records THEN pending + 1 ELSE pending
        /\ card' = IF (Records /\ pending + 1 = period) /\ Len(card) + period <= 4 * kPeriod
                   THEN older \o [i \in 1 .. period |-> period - i] ELSE older
    BY <1>4 DEF Tick, CardTick
  <1>7. /\ steady' \in 0 .. steadyTime /\ steady' <= streak + 1
        /\ steady' > 0 => Records /\ worker = "waiting"
    BY <1>2, <1>6 DEF Least
  <1>8. (Open \/ steady > 0)' => Open
    BY <1>1, <1>7 DEF Open
  <1>9. Open => /\ worker = "asleep" => pending <= timer
                /\ card # <<>> => \E late \in 0 .. MaxLate - 1 : Waits(late)
    BY NotTooLate DEF BarsInv, CardInv
  <1>10. CASE Records /\ pending + 1 = period
    <2>1. Open
      BY <1>10 DEF Records
    <2>2. card = <<>>
      <3> SUFFICES ASSUME card # <<>> PROVE FALSE
        OBVIOUS
      <3>1. PICK late \in 0 .. MaxLate - 1 : Waits(late)
        BY <1>9, <2>1
      <3>2. pending <= late
        BY <3>1 DEF Waits
      <3> QED
        BY <1>2, <1>10, <3>2
    <2>3. PICK new : new = [i \in 1 .. size |-> size - i]
      OBVIOUS
    <2>4. InTurn(new, size, 0)
      BY <2>3 DEF InTurn
    <2>5. pending' = 0 /\ card' = new
      <3>1. Len(card) = 0 /\ older = <<>>
        BY <1>5, <2>2, EmptySeq
      <3>2. Len(card) + period <= 4 * kPeriod
        BY <1>2, <3>1, Bounds
      <3>3. <<>> \o new = new
        BY <2>4 DEF InTurn
      <3> QED
        BY <1>2, <1>6, <1>10, <2>3, <3>1, <3>2, <3>3
    <2>6. new \in Seq(Nat) /\ Len(new) = size
      BY <2>4 DEF InTurn
    <2>7. Unanalysed' = Unanalysed + 1
      <3>1. Len(card) = 0
        BY <2>2
      <3> QED
        BY <1>1, <1>2, <1>10, <2>5, <2>6, <3>1 DEF Unanalysed
    <2>8. BarTypes'
      BY <1>1, <1>2, <1>7, <2>5, <2>6 DEF BarsInv, BarTypes
    <2>9. worker = "asleep" => 0 + size <= timer'
      BY <1>1, <1>2, <1>3, <1>9, <1>10, <2>1
    <2>10. Waits(0)'
      BY <1>1, <1>2, <2>4, <2>5, <2>9 DEF Waits
    <2>11. CardInv'
      BY <1>1, <1>2, <1>3, <1>7, <2>5, <2>10 DEF CardInv
    <2> QED
      BY <1>2, <1>7, <2>7, <2>8, <2>11
  <1>11. CASE ~(Records /\ pending + 1 = period)
    <2>1. card' = older /\ pending' = IF Records THEN pending + 1 ELSE pending
      BY <1>6, <1>11
    <2>2. PICK more \in {0, 1} : pending' = part + more /\ (more = 0 => steady' = 0) /\ part + more < size
      BY <1>2, <1>7, <1>11, <2>1
    <2>3. Unanalysed' = Unanalysed + more
      <3>1. Len(card) \in Nat /\ Len(card') = Len(card)
        BY <1>3, <1>5, <2>1
      <3> QED
        BY <1>1, <1>2, <2>2, <3>1 DEF Unanalysed
    <2>4. BarTypes'
      BY <1>1, <1>2, <1>5, <1>7, <2>1, <2>2 DEF BarsInv, BarTypes
    <2>5. CardInv'
      <3> SUFFICES ASSUME Open
                   PROVE  /\ worker = "asleep" => pending' <= timer'
                          /\ card' # <<>> => \E late \in 0 .. MaxLate : Waits(late)'
        BY <1>1, <1>7, <1>8 DEF CardInv
      <3>1. worker = "asleep" => pending' <= timer'
        BY <1>1, <1>2, <1>3, <1>9, <2>2
      <3>2. ASSUME card' # <<>> PROVE \E late \in 0 .. MaxLate : Waits(late)'
        <4>1. card # <<>>
          BY <1>3, <1>5, <2>1, <3>2, EmptySeq
        <4>2. PICK late \in 0 .. most - 1 : Waits(late)
          BY <1>2, <1>9, <4>1
        <4>3. InTurn(card, size, late) /\ pending <= late /\ (late = pending \/ steady <= pending)
          BY <1>2, <4>2 DEF Waits
        <4>4. InTurn(older, size, late + 1)
          BY <1>5, <4>3 DEF InTurn
        <4>5. pending' <= late + 1 /\ (late + 1 = pending' \/ steady' <= pending')
          BY <1>2, <1>7, <2>2, <4>3
        <4>6. worker = "asleep" => (late + 1) + size <= timer'
          <5>1. worker = "asleep" => late + size <= timer
            BY <1>2, <4>2 DEF Waits
          <5> QED
            BY <1>1, <1>3, <5>1
        <4>7. Waits(late + 1)'
          BY <1>1, <1>2, <2>1, <4>4, <4>5, <4>6 DEF Waits
        <4> QED
          BY <1>2, <4>7
      <3> QED
        BY <3>1, <3>2
    <2> QED
      BY <1>2, <1>7, <2>2, <2>3, <2>4, <2>5
  <1> QED
    BY <1>10, <1>11

\* Time goes on, for the queue and for the card.
LEMMA TickingKeeps ==
    ASSUME BarsInv, TimerTypes, Tick
    PROVE  BarsInv'
  <1>1. BarTypes' /\ CardInv' /\ steady' \in Nat /\ steady' <= steady + 1 /\ steady \in Nat
    BY CardAges, Bounds DEF BarsInv, BarTypes
  <1>2. PICK more \in {0, 1} : Unanalysed' = Unanalysed + more /\ (more = 0 => steady' = 0)
    BY CardAges
  <1>3. due' = [i \in DOMAIN due |-> Aged(due[i])] /\ shown' = Later(shown)
    BY DEF Tick, Later
  <1>4. QueueInv(Later(shown), [i \in DOMAIN due |-> Aged(due[i])], Unanalysed + more, steady')
    BY <1>1, <1>2, UnanalysedIs, QueueAges DEF BarsInv
  <1> QED
    BY <1>1, <1>2, <1>3, <1>4 DEF BarsInv

\* Every step keeps the invariant.
LEMMA BarsStep == IInv /\ BarsInv /\ [SpectrumNext]_spectrumVars => BarsInv'
  <1> SUFFICES ASSUME IInv, BarsInv, [SpectrumNext]_spectrumVars PROVE BarsInv'
    OBVIOUS
  <1>1. TimerTypes
    BY DEF IInv
  <1>2. CASE TakesLevels
    BY <1>2, TakingKeeps
  <1>3. CASE WaitReturns \/ ReadsAll \/ Tests \/ FallsAsleep \/ TimesOut \/ Wakes \/ Stops
    BY <1>1, <1>3, MovesKeep
  <1>4. CASE Opens \/ OpenFails \/ Recovers \/ RecoverFails
    BY <1>1, <1>4, DropsKeep
  <1>5. CASE Reads
    BY <1>5, ReadingKeeps
  <1>6. CASE Restarts
    BY <1>6, RestartsKeep
  <1>7. CASE Toggles \/ Breaks
    BY <1>1, <1>7, CardKeeps
  <1>8. CASE Tick
    BY <1>1, <1>8, TickingKeeps
  <1>9. CASE UNCHANGED spectrumVars
    BY <1>9 DEF spectrumVars, workerVars, levelsVars, cardVars, BarsInv, BarTypes, CardInv, Open,
       Waits, InTurn, Unanalysed
  <1> QED
    BY <1>2, <1>3, <1>4, <1>5, <1>6, <1>7, <1>8, <1>9 DEF SpectrumNext

\* LoopbackSpectrum::levels() is never ahead of the sound by more than its delay, nor behind
\* it when it is over; and while sound comes steadily it isn't flat, nor older than the delay,
\* a step and the worker's lateness, whatever the periods, steps and delays.
THEOREM BarsOnTime == SpectrumSpec => []BarsFollowSound
  <1>1. SpectrumInit => IInv /\ BarsInv
    BY InitEstablishes, BarsInit
  <1>2. (IInv /\ BarsInv) /\ [SpectrumNext]_spectrumVars => (IInv /\ BarsInv)'
    BY StepKeeps, BarsStep
  <1>3. BarsInv => BarsFollowSound
    BY BarsInvFollows
  <1> QED
    BY <1>1, <1>2, <1>3, PTL DEF SpectrumSpec

----------------------------------------------------------------------------
(* The sound analysed.                                                     *)

\* SpectrumBands::levels() takes the same samples of what LoopbackSpectrum::analyse()
\* kept as of all that was recorded, whatever is recorded next.
THEOREM ForgettingIsHarmless ==
  ASSUME NEW history \in Seq(Int), NEW more \in Seq(Int)
  PROVE  KeepsEnough(history, more)
  <1> DEFINE size  == 2 * kFrames
             short == Kept(history) \o more
             long  == history \o more
             gone  == Len(history) - size
  <1>1. /\ kFrames \in Nat \ {0} /\ size \in Nat
        /\ Len(history) \in Nat /\ Len(more) \in Nat
    BY FramesAssumption
  <1>2. CASE Len(history) <= size
    BY <1>1, <1>2 DEF Kept, KeepsEnough
  <1>3. CASE Len(history) > size
    <2>1. gone \in Nat /\ Kept(history) = SubSeq(history, gone + 1, Len(history))
      BY <1>1, <1>3 DEF Kept
    <2>2. /\ Kept(history) \in Seq(Int) /\ Len(Kept(history)) = size
          /\ \A i \in 1 .. size : Kept(history)[i] = history[gone + i]
      <3>1. \A i \in gone + 1 .. Len(history) : history[i] \in Int
        BY <2>1
      <3>2. /\ gone + 1 \in Int /\ Len(history) \in Int
            /\ gone + 1 <= Len(history) /\ Len(history) - (gone + 1) + 1 = size
            /\ \A i \in 1 .. size : gone + 1 + i - 1 = gone + i
        BY <1>1, <1>3, <2>1
      <3> HIDE DEF gone, size
      <3>3. /\ Kept(history) \in Seq(Int)
            /\ Len(Kept(history)) = Len(history) - (gone + 1) + 1
            /\ \A i \in 1 .. Len(history) - (gone + 1) + 1 : Kept(history)[i] = history[gone + 1 + i - 1]
        BY <2>1, <3>1, <3>2, SubSeqProperties
      <3> QED
        BY <3>2, <3>3
    <2>3. /\ Len(short) = size + Len(more)
          /\ Len(long) = gone + size + Len(more)
      BY <1>1, <2>1, <2>2, ConcatProperties
    <2>4. \A i \in 1 .. size + Len(more) : short[i] = long[gone + i]
      <3> SUFFICES ASSUME NEW i \in 1 .. size + Len(more) PROVE short[i] = long[gone + i]
        OBVIOUS
      <3> DEFINE n == gone + i
      <3>1. /\ n \in 1 .. Len(history) + Len(more)
            /\ n <= Len(history) <=> i <= size
            /\ n - Len(history) = i - size
            /\ i \in 1 .. Len(Kept(history)) + Len(more)
        BY <1>1, <2>1, <2>2
      <3>2. i <= size => history[n] = Kept(history)[i]
        BY <2>2
      <3> HIDE DEF gone, size, n
      <3>3. short[i] = IF i <= size THEN Kept(history)[i] ELSE more[i - size]
        BY <2>2, <3>1, ConcatProperties
      <3>4. long[n] = IF n <= Len(history) THEN history[n] ELSE more[n - Len(history)]
        BY <3>1, ConcatProperties
      <3> HIDE DEF short, long
      <3>5. short[i] = long[n]
        BY <3>1, <3>2, <3>3, <3>4
      <3> QED
        BY <3>5 DEF n
    <2> HIDE DEF short, long, gone
    <2>5. ASSUME NEW samples, Len(samples) \in Nat, Len(samples) >= size
          PROVE  Mixed(samples) = [i \in 1 .. kFrames |->
                                      samples[Len(samples) - size + 2 * i - 1]
                                          + samples[Len(samples) - size + 2 * i]]
      <3>1. Len(samples) \div 2 >= kFrames
        BY <1>1, <2>5
      <3> QED
        BY <1>1, <2>5, <3>1 DEF Mixed
    <2>6. /\ Mixed(short) = [i \in 1 .. kFrames |-> short[Len(more) + 2 * i - 1] + short[Len(more) + 2 * i]]
          /\ Mixed(long) = [i \in 1 .. kFrames |-> long[gone + Len(more) + 2 * i - 1]
                                                       + long[gone + Len(more) + 2 * i]]
      <3>1. /\ Len(short) - size = Len(more) /\ Len(long) - size = gone + Len(more)
            /\ Len(short) \in Nat /\ Len(long) \in Nat
            /\ Len(short) >= size /\ Len(long) >= size
        BY <1>1, <2>1, <2>3
      <3> QED
        BY <2>5, <3>1
    <2>7. \A i \in 1 .. kFrames :
             /\ short[Len(more) + 2 * i - 1] = long[gone + Len(more) + 2 * i - 1]
             /\ short[Len(more) + 2 * i] = long[gone + Len(more) + 2 * i]
      <3> SUFFICES ASSUME NEW i \in 1 .. kFrames, NEW k \in {2 * i - 1, 2 * i}
                   PROVE  short[Len(more) + k] = long[gone + Len(more) + k]
        BY <1>1, <2>1
      <3>1. Len(more) + k \in 1 .. size + Len(more) /\ gone + (Len(more) + k) = gone + Len(more) + k
        BY <1>1, <2>1
      <3> QED
        BY <2>4, <3>1
    <2> QED
      BY <2>6, <2>7 DEF KeepsEnough, short, long
  <1> QED
    BY <1>1, <1>2, <1>3

\* Sound too short for the transform is analysed as if silence had been recorded before
\* it, and silence before sound that is long enough changes nothing.
THEOREM SilenceIsPadding ==
  ASSUME NEW frames \in Nat, NEW samples \in Seq(Int), Len(samples) = 2 * frames
  PROVE  SilenceBefore(samples)
  <1> DEFINE longer == <<0, 0>> \o samples
  <1>1. kFrames \in Nat \ {0}
    BY FramesAssumption
  <1>2. Len(longer) = 2 * (frames + 1)
    <2>1. Len(longer) = 2 + Len(samples)
      OBVIOUS
    <2> QED
      BY <2>1
  <1>3. /\ longer[1] = 0 /\ longer[2] = 0
        /\ \A i \in 1 .. 2 * frames : longer[i + 2] = samples[i]
    <2>1. \A i \in 1 .. 2 * frames : longer[i + 2] = samples[i]
      <3> SUFFICES ASSUME NEW i \in 1 .. 2 * frames PROVE longer[i + 2] = samples[i]
        OBVIOUS
      <3>1. PICK k \in Nat : k = i + 2
        OBVIOUS
      <3>2. k \in 1 .. Len(longer) /\ ~(k <= 2) /\ k - 2 = i
        BY <1>2, <3>1
      <3>3. longer[k] = samples[k - 2]
        BY <3>2
      <3> QED
        BY <3>1, <3>2, <3>3
    <2>2. longer[1] = 0 /\ longer[2] = 0
      OBVIOUS
    <2> QED
      BY <2>1, <2>2
  <1> HIDE DEF longer
  <1>4. Len(samples) \div 2 = frames /\ Len(longer) \div 2 = frames + 1
    BY <1>2
  <1>5. CASE frames < kFrames
    <2>0. ASSUME NEW s, NEW m \in Nat, Len(s) = 2 * m, m <= kFrames
          PROVE  Mixed(s) = [i \in 1 .. kFrames |->
                                IF i <= kFrames - m THEN 0
                                ELSE s[2 * (i - (kFrames - m)) - 1] + s[2 * (i - (kFrames - m))]]
      <3>1. Len(s) \div 2 = m /\ (IF m < kFrames THEN m ELSE kFrames) = m /\ Len(s) - 2 * m = 0
        BY <1>1, <2>0
      <3>2. \A i \in 1 .. kFrames : /\ 0 + 2 * (i - (kFrames - m)) - 1 = 2 * (i - (kFrames - m)) - 1
                                     /\ 0 + 2 * (i - (kFrames - m)) = 2 * (i - (kFrames - m))
        BY <1>1
      <3>3. Mixed(s) = [i \in 1 .. kFrames |->
                           IF i <= kFrames - m THEN 0
                           ELSE s[0 + 2 * (i - (kFrames - m)) - 1] + s[0 + 2 * (i - (kFrames - m))]]
        BY <3>1 DEF Mixed
      <3> QED
        BY <3>2, <3>3
    <2>1. Mixed(samples) = [i \in 1 .. kFrames |->
                               IF i <= kFrames - frames THEN 0
                               ELSE samples[2 * (i - (kFrames - frames)) - 1] + samples[2 * (i - (kFrames - frames))]]
      <3>1. frames <= kFrames /\ Len(samples) = 2 * frames
        BY <1>1, <1>5
      <3> QED
        BY <2>0, <3>1
    <2>2. Mixed(longer) = [i \in 1 .. kFrames |->
                              IF i <= kFrames - (frames + 1) THEN 0
                              ELSE longer[2 * (i - (kFrames - (frames + 1))) - 1]
                                       + longer[2 * (i - (kFrames - (frames + 1)))]]
      <3>1. frames + 1 \in Nat /\ frames + 1 <= kFrames
        BY <1>1, <1>5
      <3> QED
        BY <1>2, <2>0, <3>1
    <2>3. ASSUME NEW i \in 1 .. kFrames PROVE Mixed(longer)[i] = Mixed(samples)[i]
      <3>1. CASE i <= kFrames - (frames + 1)
        BY <1>1, <2>1, <2>2, <3>1
      <3>2. CASE i = kFrames - frames
        <4>1. ~(i <= kFrames - (frames + 1)) /\ 2 * (i - (kFrames - (frames + 1))) = 2
          BY <1>1, <3>2
        <4>2. Mixed(longer)[i] = longer[1] + longer[2]
          BY <2>2, <4>1
        <4> QED
          BY <1>3, <2>1, <3>2, <4>2
      <3>3. CASE i > kFrames - frames
        <4>1. PICK k \in 1 .. 2 * frames - 1 : k = 2 * (i - (kFrames - frames)) - 1
          BY <1>1, <3>3
        <4>2. /\ 2 * (i - (kFrames - (frames + 1))) = k + 1 + 2
              /\ 2 * (i - (kFrames - (frames + 1))) - 1 = k + 2
              /\ 2 * (i - (kFrames - frames)) = k + 1
              /\ k \in 1 .. 2 * frames /\ k + 1 \in 1 .. 2 * frames
          BY <1>1, <3>3, <4>1
        <4>3. Mixed(longer)[i] = longer[k + 2] + longer[k + 1 + 2]
          <5>1. ~(i <= kFrames - (frames + 1))
            BY <1>1, <3>3
          <5> QED
            BY <2>2, <4>2, <5>1
        <4>4. Mixed(samples)[i] = samples[k] + samples[k + 1]
          BY <1>1, <2>1, <3>3, <4>1, <4>2
        <4> QED
          BY <1>3, <4>2, <4>3, <4>4
      <3> QED
        BY <1>1, <3>1, <3>2, <3>3
    <2>4. Mixed(longer) = Mixed(samples)
      <3>1. Mixed(longer) = [i \in 1 .. kFrames |-> Mixed(longer)[i]]
        BY <2>2
      <3>2. Mixed(samples) = [i \in 1 .. kFrames |-> Mixed(samples)[i]]
        BY <2>1
      <3> QED
        BY <2>3, <3>1, <3>2
    <2> QED
      BY <2>4 DEF SilenceBefore, longer
  <1>6. CASE frames >= kFrames
    <2>1. Mixed(samples) = [i \in 1 .. kFrames |->
                               samples[2 * frames - 2 * kFrames + 2 * i - 1]
                                   + samples[2 * frames - 2 * kFrames + 2 * i]]
      BY <1>1, <1>4, <1>6 DEF Mixed
    <2>2. Mixed(longer) = [i \in 1 .. kFrames |->
                              longer[2 * (frames + 1) - 2 * kFrames + 2 * i - 1]
                                  + longer[2 * (frames + 1) - 2 * kFrames + 2 * i]]
      BY <1>1, <1>2, <1>4, <1>6 DEF Mixed
    <2>3. ASSUME NEW i \in 1 .. kFrames PROVE Mixed(longer)[i] = Mixed(samples)[i]
      <3>1. PICK k \in 1 .. 2 * frames - 1 : k = 2 * frames - 2 * kFrames + 2 * i - 1
        BY <1>1, <1>6
      <3>2. /\ 2 * (frames + 1) - 2 * kFrames + 2 * i - 1 = k + 2
            /\ 2 * (frames + 1) - 2 * kFrames + 2 * i = k + 1 + 2
            /\ 2 * frames - 2 * kFrames + 2 * i = k + 1
            /\ k \in 1 .. 2 * frames /\ k + 1 \in 1 .. 2 * frames
        BY <1>1, <1>6, <3>1
      <3>3. Mixed(longer)[i] = longer[k + 2] + longer[k + 1 + 2]
        BY <2>2, <3>2
      <3>4. Mixed(samples)[i] = samples[k] + samples[k + 1]
        BY <2>1, <3>1, <3>2
      <3> QED
        BY <1>3, <3>2, <3>3, <3>4
    <2>4. Mixed(longer) = Mixed(samples)
      <3>1. Mixed(longer) = [i \in 1 .. kFrames |-> Mixed(longer)[i]]
        BY <2>2
      <3>2. Mixed(samples) = [i \in 1 .. kFrames |-> Mixed(samples)[i]]
        BY <2>1
      <3> QED
        BY <2>3, <3>1, <3>2
    <2> QED
      BY <2>4 DEF SilenceBefore, longer
  <1> QED
    BY <1>1, <1>5, <1>6

\* Where the bars' bins begin: each bar's first, where its band starts or, if that isn't
\* above the bar below, next to it.
LEMMA FirstBinsAre ==
    ASSUME NEW n \in Nat, NEW starts \in [0 .. n -> Int]
    PROVE  /\ FirstBins(starts) \in [0 .. n -> Int]
           /\ FirstBins(starts)[0] = starts[0]
           /\ \A bar \in 1 .. n : FirstBins(starts)[bar] =
                  IF starts[bar] <= FirstBins(starts)[bar - 1]
                  THEN FirstBins(starts)[bar - 1] + 1 ELSE starts[bar]
  <1> DEFINE next == [p \in (1 .. n) \X Int |-> IF starts[p[1]] <= p[2] THEN p[2] + 1 ELSE starts[p[1]]]
  <1>1. next \in [(1 .. n) \X Int -> Int] /\ starts[0] \in Int
    OBVIOUS
  <1>2. \A i \in 1 .. n, b \in Int : next[<<i, b>>] = IF starts[i] <= b THEN b + 1 ELSE starts[i]
    OBVIOUS
  <1> HIDE DEF next
  <1>3. PICK g \in [0 .. n -> Int] : Follows(g, n, starts[0], next)
    BY <1>1, Iterated
  <1>4. g[0] = starts[0] /\ \A i \in 1 .. n : g[i] = next[<<i, g[i - 1]>>]
    BY <1>3 DEF Follows
  <1>5. \A i \in 1 .. n : i - 1 \in 0 .. n /\ g[i - 1] \in Int
    BY <1>3
  <1>6. \A i \in 1 .. n : g[i] = IF starts[i] <= g[i - 1] THEN g[i - 1] + 1 ELSE starts[i]
    BY <1>2, <1>4, <1>5
  <1> DEFINE First[bar \in DOMAIN starts] ==
                 IF bar > 0 /\ starts[bar] <= First[bar - 1] THEN First[bar - 1] + 1 ELSE starts[bar]
  <1>7. FirstBins(starts) = First
    BY DEF FirstBins
  <1>8. g = [bar \in DOMAIN starts |->
                IF bar > 0 /\ starts[bar] <= g[bar - 1] THEN g[bar - 1] + 1 ELSE starts[bar]]
    <2> HIDE DEF First
    <2>1. DOMAIN starts = 0 .. n
      OBVIOUS
    <2>2. \A bar \in 0 .. n : g[bar] = IF bar > 0 /\ starts[bar] <= g[bar - 1] THEN g[bar - 1] + 1 ELSE starts[bar]
      BY <1>4, <1>6
    <2> QED
      BY <2>1, <2>2
  <1>9. First = [bar \in DOMAIN starts |->
                    IF bar > 0 /\ starts[bar] <= First[bar - 1] THEN First[bar - 1] + 1 ELSE starts[bar]]
    BY <1>8 DEF First
  <1> HIDE DEF First
  <1>10. \A bar \in 0 .. n : First[bar] = IF bar > 0 /\ starts[bar] <= First[bar - 1]
                                          THEN First[bar - 1] + 1 ELSE starts[bar]
    BY <1>9
  <1> DEFINE S == {bar \in 0 .. n : First[bar] = g[bar]}
  <1>11. 0 \in S
    BY <1>4, <1>10
  <1>12. ASSUME NEW i \in 0 .. n - 1, i \in S PROVE i + 1 \in S
    <2>1. PICK bar \in 1 .. n : bar = i + 1
      OBVIOUS
    <2>2. bar - 1 = i /\ bar \in 0 .. n /\ bar > 0
      BY <2>1
    <2>3. First[i] = g[i]
      BY <1>12
    <2>4. First[bar] = g[bar]
      BY <1>6, <1>10, <2>2, <2>3
    <2> QED
      BY <2>1, <2>2, <2>4
  <1>13. \A bar \in 0 .. n : bar \in S
    <2> HIDE DEF S
    <2> QED
      BY <1>11, <1>12, InductionUpTo
  <1>14. DOMAIN First = 0 .. n
    BY <1>9
  <1>15. First = g
    <2>1. First = [bar \in DOMAIN First |-> First[bar]]
      BY <1>9
    <2> QED
      BY <1>13, <1>14, <2>1
  <1> QED
    BY <1>4, <1>6, <1>7, <1>15

\* Every bar of SpectrumBands gets a bin of its own, and begins no higher than its band or
\* the bars below it need, wherever the bands start.
THEOREM BarsHaveBins ==
  ASSUME NEW n \in Nat, NEW starts \in [0 .. n -> Int]
  PROVE  OwnBins(starts)
  <1> DEFINE F == FirstBins(starts)
             Needs(bar) == {starts[below] + bar - below : below \in 0 .. bar}
  <1>1. /\ F \in [0 .. n -> Int] /\ F[0] = starts[0]
        /\ \A bar \in 1 .. n : F[bar] = IF starts[bar] <= F[bar - 1] THEN F[bar - 1] + 1 ELSE starts[bar]
    BY FirstBinsAre
  <1> HIDE DEF F
  <1> DEFINE S == {bar \in 0 .. n : F[bar] \in Needs(bar) /\ \A x \in Needs(bar) : x <= F[bar]}
  <1>2. 0 \in S
    BY <1>1
  <1>3. ASSUME NEW i \in 0 .. n - 1, i \in S PROVE i + 1 \in S
    <2>1. PICK bar \in 1 .. n : bar = i + 1
      OBVIOUS
    <2>2. /\ bar - 1 = i /\ bar \in 0 .. n /\ i \in 0 .. n /\ F[i] \in Int
          /\ F[bar] = IF starts[bar] <= F[i] THEN F[i] + 1 ELSE starts[bar]
      BY <1>1, <2>1
    <2>3. PICK below \in 0 .. i : F[i] = starts[below] + i - below
      BY <1>3
    <2>4. \A b \in 0 .. i : starts[b] + i - b <= F[i]
      BY <1>3
    <2>5. \A b \in 0 .. bar : b \in 0 .. i \/ b = bar
      BY <2>1
    <2>6. \A b \in 0 .. n : starts[b] \in Int
      OBVIOUS
    <2>7. F[bar] \in Needs(bar)
      <3>1. below \in 0 .. bar /\ below \in 0 .. n /\ bar \in 0 .. bar
        BY <2>1
      <3>2. starts[below] + bar - below = F[i] + 1
        BY <2>1, <2>3, <2>6, <3>1
      <3>3. starts[bar] + bar - bar = starts[bar]
        BY <2>2, <2>6
      <3> QED
        BY <2>2, <3>1, <3>2, <3>3
    <2>9. F[i] \in Int /\ F[bar] \in Int /\ F[i] + 1 <= F[bar]
      BY <2>2, <2>6
    <2>8. ASSUME NEW b \in 0 .. bar PROVE starts[b] + bar - b <= F[bar]
      <3>1. CASE b = bar
        BY <2>2, <2>6, <3>1
      <3>2. CASE b \in 0 .. i
        <4>1. starts[b] + i - b <= F[i] /\ starts[b] \in Int
          BY <2>4, <2>6, <3>2
        <4>2. PICK x \in Int, here \in Int, there \in Int : x = starts[b] /\ here = F[i] /\ there = F[bar]
          BY <2>6, <2>9, <3>2
        <4>3. x + i - b <= here /\ here + 1 <= there
          BY <2>9, <4>1, <4>2
        <4>4. x + bar - b <= there
          BY <2>1, <4>3
        <4> QED
          BY <4>2, <4>4
      <3> QED
        BY <2>5, <3>1, <3>2
    <2> QED
      BY <2>1, <2>2, <2>7, <2>8
  <1>4. \A bar \in 0 .. n : bar \in S
    <2> HIDE DEF S
    <2> QED
      BY <1>2, <1>3, InductionUpTo
  <1>5. ASSUME NEW bar \in 0 .. n PROVE F[bar] = Max(Needs(bar))
    <2>1. F[bar] \in Needs(bar) /\ \A x \in Needs(bar) : x <= F[bar]
      BY <1>4
    <2>2. Needs(bar) \subseteq Int
      OBVIOUS
    <2> HIDE DEF Needs
    <2>3. Max(Needs(bar)) \in Needs(bar) /\ \A x \in Needs(bar) : Max(Needs(bar)) >= x
      BY <2>1, <2>2 DEF Max
    <2> QED
      BY <2>1, <2>2, <2>3
  <1> QED
    BY <1>5 DEF OwnBins, F

\* SpectrumBands::levels() lets every bin between the lowest pitch and the highest count
\* for one bar: the bars add up to what the bins do.
THEOREM BinsCountOnce ==
  ASSUME NEW n \in Nat, NEW starts \in [0 .. n -> Int], NEW powers,
         \A bin \in FirstBins(starts)[0] .. FirstBins(starts)[n] - 1 : powers[bin] \in Int
  PROVE  EveryBinOnce(powers, starts)
  <1> DEFINE F == FirstBins(starts)
             upTo == [bar \in 0 .. n |-> SumFunctionOnSet(powers, F[0] .. F[bar] - 1)]
             bars == [bar \in 0 .. n - 1 |-> Power(powers, starts, bar)]
  <1>1. /\ F \in [0 .. n -> Int]
        /\ \A bar \in 1 .. n : F[bar] = IF starts[bar] <= F[bar - 1] THEN F[bar - 1] + 1 ELSE starts[bar]
        /\ \A bin \in F[0] .. F[n] - 1 : powers[bin] \in Int
    BY FirstBinsAre
  <1>2. ASSUME NEW i \in 0 .. n - 1 PROVE F[i] < F[i + 1]
    <2>1. PICK bar \in 1 .. n : bar = i + 1
      OBVIOUS
    <2> HIDE DEF F
    <2>2. bar - 1 = i /\ F[i] \in Int /\ F[bar] \in Int /\ starts[bar] \in Int
      BY <1>1, <2>1
    <2>3. F[bar] = IF starts[bar] <= F[i] THEN F[i] + 1 ELSE starts[bar]
      BY <1>1, <2>2
    <2> QED
      BY <2>1, <2>2, <2>3
  <1>3. \A i \in 0 .. n : F[0] <= F[i] /\ F[i] <= F[n]
    <2> HIDE DEF F
    <2> DEFINE S == {i \in 0 .. n : F[0] <= F[i]}
               T == {k \in 0 .. n : F[n - k] <= F[n]}
    <2>1. 0 \in S /\ 0 \in T
      BY <1>1
    <2>2. ASSUME NEW i \in 0 .. n - 1, i \in S PROVE i + 1 \in S
      <3>1. i + 1 \in 0 .. n /\ F[i + 1] \in Int /\ F[i] \in Int /\ F[0] \in Int
        BY <1>1
      <3> QED
        BY <1>2, <2>2, <3>1
    <2>3. ASSUME NEW k \in 0 .. n - 1, k \in T PROVE k + 1 \in T
      <3>1. PICK i \in 0 .. n - 1 : i = n - (k + 1)
        OBVIOUS
      <3>2. i + 1 = n - k /\ i + 1 \in 0 .. n /\ i \in 0 .. n
        BY <3>1
      <3>3. F[i + 1] \in Int /\ F[i] \in Int /\ F[n] \in Int
        BY <1>1, <3>2
      <3>4. F[i + 1] <= F[n]
        BY <2>3, <3>2
      <3>5. F[i] <= F[n]
        BY <1>2, <3>3, <3>4
      <3> QED
        BY <3>1, <3>5
    <2>4. \A i \in 0 .. n : i \in S
      <3> HIDE DEF S, T
      <3> QED
        BY <2>1, <2>2, InductionUpTo
    <2>5. \A k \in 0 .. n : k \in T
      <3> HIDE DEF S, T
      <3> QED
        BY <2>1, <2>3, InductionUpTo
    <2>6. ASSUME NEW i \in 0 .. n PROVE F[i] <= F[n]
      <3>1. PICK k \in 0 .. n : k = n - i
        OBVIOUS
      <3>2. n - k = i
        BY <3>1
      <3> QED
        BY <2>5, <3>2
    <2> QED
      BY <2>4, <2>6
  <1>10. \A i \in 0 .. n : upTo[i] = SumFunctionOnSet(powers, F[0] .. F[i] - 1)
    <2> HIDE DEF F
    <2> QED
      OBVIOUS
  <1> HIDE DEF upTo
  <1>4. \A i \in 0 .. n : upTo[i] \in Int
    <2> HIDE DEF F
    <2>1. ASSUME NEW i \in 0 .. n PROVE SumFunctionOnSet(powers, F[0] .. F[i] - 1) \in Int
      <3>1. F[0] \in Int /\ F[i] \in Int /\ F[n] \in Int
        BY <1>1
      <3>2. IsFiniteSet(F[0] .. F[i] - 1)
        <4>1. PICK a \in Int, b \in Int : a = F[0] /\ b = F[i] - 1
          BY <3>1
        <4>2. IsFiniteSet(a .. b)
          BY FS_Interval
        <4> QED
          BY <4>1, <4>2
      <3>3. \A bin \in F[0] .. F[i] - 1 : powers[bin] \in Int
        BY <1>1, <1>3, <3>1
      <3> QED
        BY <3>2, <3>3, SumOf
    <2> QED
      BY <1>10, <2>1
  <1>5. ASSUME NEW i \in 0 .. n - 1 PROVE bars[i] = upTo[i + 1] - upTo[i]
    <2>1. PICK next \in 0 .. n : next = i + 1
      OBVIOUS
    <2>2. bars[i] = SumFunctionOnSet(powers, F[i] .. F[next] - 1)
      BY <2>1 DEF Power
    <2> HIDE DEF F
    <2>3. /\ F[0] \in Int /\ F[i] \in Int /\ F[next] \in Int /\ F[n] \in Int
          /\ F[0] <= F[i] /\ F[i] < F[next] /\ F[next] <= F[n]
      BY <1>1, <1>2, <1>3, <2>1
    <2>4. PICK low, own : low = F[0] .. F[i] - 1 /\ own = F[i] .. F[next] - 1
      OBVIOUS
    <2>5. IsFiniteSet(low) /\ IsFiniteSet(own)
      <3>1. PICK a \in Int, b \in Int, c \in Int : a = F[0] /\ b = F[i] /\ c = F[next]
        BY <2>3
      <3>2. b - 1 \in Int /\ c - 1 \in Int
        OBVIOUS
      <3>3. IsFiniteSet(a .. (b - 1)) /\ IsFiniteSet(b .. (c - 1))
        BY <3>2, FS_Interval
      <3> QED
        BY <2>4, <3>1, <3>3
    <2>6. low \cap own = {} /\ low \cup own = F[0] .. F[next] - 1 /\ \A bin \in low \cup own : powers[bin] \in Int
      <3>1. PICK a \in Int, b \in Int, c \in Int : a = F[0] /\ b = F[i] /\ c = F[next]
        BY <2>3
      <3>2. low = a .. b - 1 /\ own = b .. c - 1
        BY <2>4, <3>1
      <3>3. low \cap own = {}
        BY <3>2
      <3>4. low \cup own = a .. c - 1
        <4>1. a <= b /\ b < c
          BY <2>3, <3>1
        <4>2. ASSUME NEW x PROVE x \in a .. b - 1 \/ x \in b .. c - 1 <=> x \in a .. c - 1
          BY <4>1
        <4> QED
          BY <3>2, <4>2
      <3>5. \A bin \in a .. c - 1 : powers[bin] \in Int
        BY <1>1, <2>3, <3>1
      <3> QED
        BY <3>1, <3>3, <3>4, <3>5
    <2>7. SumFunctionOnSet(powers, low \cup own) = SumFunctionOnSet(powers, low) + SumFunctionOnSet(powers, own)
      BY <2>5, <2>6, SumOfBoth
    <2>8. upTo[next] = SumFunctionOnSet(powers, low \cup own) /\ upTo[i] = SumFunctionOnSet(powers, low)
      <3>1. i \in 0 .. n
        OBVIOUS
      <3> QED
        BY <1>10, <2>4, <2>6, <3>1
    <2>9. SumFunctionOnSet(powers, low) \in Int /\ SumFunctionOnSet(powers, own) \in Int
      BY <2>5, <2>6, SumOf
    <2> QED
      BY <2>1, <2>2, <2>4, <2>7, <2>8, <2>9
  <1>6. SumFunctionOnSet(bars, 0 .. n - 1) = upTo[n] - upTo[0]
    <2> HIDE DEF bars, F
    <2> QED
      BY <1>4, <1>5, SumOfDifferences
  <1>7. upTo[0] = 0 /\ upTo[n] = SumFunctionOnSet(powers, F[0] .. F[n] - 1)
    <2> HIDE DEF F
    <2>1. F[0] .. F[0] - 1 = {}
      BY <1>1
    <2>2. 0 \in 0 .. n /\ n \in 0 .. n
      OBVIOUS
    <2>3. SumFunctionOnSet(powers, F[0] .. F[0] - 1) = 0
      BY <2>1, SumOfNone
    <2> QED
      BY <1>10, <2>2, <2>3
  <1>8. Max(DOMAIN starts) = n
    <2>1. DOMAIN starts = 0 .. n
      OBVIOUS
    <2>2. PICK T : T = 0 .. n
      OBVIOUS
    <2>4. T \subseteq 0 .. n /\ T # {} /\ n \in T
      <3>1. n \in T
        BY <2>2
      <3>2. T # {}
        BY <3>1
      <3> QED
        BY <2>2, <3>1, <3>2
    <2>3. Max(0 .. n) \in 0 .. n /\ \A i \in 0 .. n : i <= Max(0 .. n)
      BY <2>2, <2>4, MaxOf
    <2> QED
      BY <2>1, <2>2, <2>3
  <1>9. SumFunctionOnSet(bars, 0 .. n - 1) = SumFunctionOnSet(powers, F[0] .. F[n] - 1)
    <2>1. upTo[n] \in Int
      BY <1>4
    <2> HIDE DEF bars, F
    <2> QED
      BY <1>6, <1>7, <2>1
  <1> QED
    BY <1>8, <1>9 DEF EveryBinOnce
=============================================================================
