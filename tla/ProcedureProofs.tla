-------------------------- MODULE ProcedureProofs --------------------------
(***************************************************************************)
(* Theorems of the two stateful helpers in project-procedures/ whose       *)
(* models stand alone.  They share no state; LimitSpec is the limiter      *)
(* (ConcurrencyLimit), Spec the activity of a thread (ThreadActivity).     *)
(*                                                                         *)
(* The limiter: the slots, the waiting tasks and the order of the starts,  *)
(* for any tasks and any limit.                                            *)
(*                                                                         *)
(* The activity: what a completed turn left behind, and what readers are   *)
(* served between turns, for any activities, readers and numbers of turns. *)
(***************************************************************************)
EXTENDS ConcurrencyLimit, ThreadActivity, SequenceCounts

\* Nobody waits twice, and who waits is in the queue.
WaitingFit ==
    /\ \A i, k \in DOMAIN pendingTasks : pendingTasks[i] = pendingTasks[k] => i = k
    /\ \A t \in Tasks : state[t] = "pending" <=> \E i \in DOMAIN pendingTasks : pendingTasks[i] = t

\* The tasks that hold a slot.
Slots == {t \in Tasks : state[t] = "running"} \cup releasing

SlotsFit ==
    /\ \A t \in releasing : state[t] = "settled"
    /\ IsFiniteSet(Slots)

LimitInv == LimitTypeOK /\ WaitingFit /\ SlotsFit /\ SlotsAreCounted /\ NoIdleSlot

-----------------------------------------------------------------------------
\* Lemma: a set of positions that has with each position all earlier ones is an
\* interval.
LEMMA EarlyPositions ==
    ASSUME NEW n \in Nat, NEW D \in SUBSET (1..n),
           \A i \in D : \A h \in 1..(i - 1) : h \in D
    PROVE  /\ IsFiniteSet(D) /\ Cardinality(D) \in Nat /\ Cardinality(D) <= n
           /\ D = 1..Cardinality(D)
<1>1. IsFiniteSet(1..n) /\ Cardinality(1..n) = n
  BY FS_Interval
<1>2. IsFiniteSet(D) /\ Cardinality(D) \in Nat /\ Cardinality(D) <= n
  BY <1>1, FS_Subset, FS_CardinalityType
<1>3. D \subseteq Nat
  OBVIOUS
<1>4. ASSUME NEW i \in D PROVE Rank(D, NumberOrder, i) = i - 1
  <2>1. {j \in D : j < i} = 1..(i - 1)
    <3>1. i \in Nat /\ \A j \in D : j \in Nat /\ j >= 1
      OBVIOUS
    <3>2. \A j \in D : j < i => j \in 1..(i - 1)
      BY <3>1
    <3>3. \A j \in 1..(i - 1) : j \in D /\ j < i
      BY <3>1
    <3> QED
      BY <3>2, <3>3
  <2>2. Before(D, NumberOrder, i) = 1..(i - 1)
    BY <1>3, <2>1, NumbersInLine
  <2>3. i \in Nat /\ i >= 1
    OBVIOUS
  <2>4. Cardinality(1..(i - 1)) = i - 1
    BY <2>3, FS_Interval
  <2> QED
    BY <2>2, <2>4 DEF Rank
<1>5. OrdersAll(D, NumberOrder)
  BY <1>3, NumbersInLine
<1>6. /\ \A i \in D : Rank(D, NumberOrder, i) \in 0..(Cardinality(D) - 1)
      /\ \A k \in 0..(Cardinality(D) - 1) : \E i \in D : Rank(D, NumberOrder, i) = k
  <2>1. IsFiniteSet(D) /\ OrdersAll(D, NumberOrder)
    BY <1>2, <1>5
  <2>2. PICK all, R : all = D /\ R = NumberOrder
    OBVIOUS
  <2>3. IsFiniteSet(all) /\ OrdersAll(all, R)
    BY <2>1, <2>2
  <2>4. /\ \A i \in all : Rank(all, R, i) \in 0..(Cardinality(all) - 1)
        /\ \A k \in 0..(Cardinality(all) - 1) : \E i \in all : Rank(all, R, i) = k
    BY <2>3, Ranks
  <2> QED
    BY <2>2, <2>4
<1>7. /\ \A i \in D : i - 1 \in 0..(Cardinality(D) - 1)
      /\ \A k \in 0..(Cardinality(D) - 1) : \E i \in D : i - 1 = k
  BY <1>4, <1>6
<1>8. ASSUME NEW i \in D PROVE i \in 1..Cardinality(D)
  BY <1>2, <1>3, <1>7
<1>9. ASSUME NEW i \in 1..Cardinality(D) PROVE i \in D
  <2>1. i - 1 \in 0..(Cardinality(D) - 1)
    BY <1>2
  <2>2. PICK h \in D : h - 1 = i - 1
    BY <1>7, <2>1
  <2>3. h = i
    BY <1>3, <2>2
  <2> QED
    BY <2>3
<1>10. D = 1..Cardinality(D)
  BY <1>8, <1>9
<1> QED
  BY <1>2, <1>10

\* What the loop takes from a queue, by positions.
Taken(queue, active) == Cardinality(Reached(queue, active))
StartedAt(queue, active) == {i \in Reached(queue, active) : Starts(queue[i])}

\* Lemma: the loop of schedule takes the front of the queue, starts no more tasks
\* than there are slots, and leaves somebody waiting only when all are taken.
LEMMA LoopTakesFront ==
    ASSUME NEW queue \in Seq(Tasks), NEW active \in Nat, concurrency \in Nat,
           active <= concurrency
    PROVE  /\ Taken(queue, active) \in 0..Len(queue)
           /\ Reached(queue, active) = 1..Taken(queue, active)
           /\ IsFiniteSet(StartedAt(queue, active))
           /\ Cardinality(StartedAt(queue, active)) \in Nat
           /\ active + Cardinality(StartedAt(queue, active)) <= concurrency
           /\ Taken(queue, active) < Len(queue) =>
                 active + Cardinality(StartedAt(queue, active)) = concurrency
<1> DEFINE n == Len(queue)
           K == {i \in 1..n : Starts(queue[i])}
           D == Reached(queue, active)
           Ahead(i) == StartsAhead(queue, i)
           S == StartedAt(queue, active)
<1>1. n \in Nat /\ DOMAIN queue = 1..n
  OBVIOUS
<1>2. IsFiniteSet(K) /\ K \subseteq Nat /\ Cardinality(K) \in Nat
  <2>1. IsFiniteSet(1..n) /\ K \in SUBSET (1..n)
    BY <1>1, FS_Interval
  <2> QED
    BY <2>1, FS_Subset, FS_CardinalityType
<1>3. D = {i \in 1..n : active + Cardinality(Ahead(i)) < concurrency}
  BY <1>1 DEF Reached
<1>4. ASSUME NEW i \in 1..(n + 1) PROVE IsFiniteSet(Ahead(i)) /\ Cardinality(Ahead(i)) \in Nat
  <2>1. i \in Nat /\ Ahead(i) \in SUBSET (1..(i - 1))
    BY <1>1 DEF StartsAhead
  <2>2. IsFiniteSet(1..(i - 1))
    BY <2>1, FS_Interval
  <2> QED
    BY <2>1, <2>2, FS_Subset, FS_CardinalityType
<1>5. ASSUME NEW i \in D, NEW h \in 1..(i - 1) PROVE h \in D
  <2>1. i \in 1..n /\ h \in 1..n /\ Ahead(h) \in SUBSET Ahead(i)
    BY <1>1, <1>3 DEF StartsAhead
  <2>2. /\ IsFiniteSet(Ahead(i)) /\ Cardinality(Ahead(i)) \in Nat
        /\ IsFiniteSet(Ahead(h)) /\ Cardinality(Ahead(h)) \in Nat
    BY <1>1, <1>4, <2>1
  <2>3. Cardinality(Ahead(h)) <= Cardinality(Ahead(i))
    BY <2>1, <2>2, FS_Subset
  <2>4. PICK a, b \in Nat : a = Cardinality(Ahead(h)) /\ b = Cardinality(Ahead(i))
    BY <2>2
  <2>5. a <= b /\ active + b < concurrency
    BY <1>3, <2>3, <2>4
  <2>6. active + a < concurrency
    BY <2>5
  <2> QED
    BY <1>3, <2>1, <2>4, <2>6
<1>6. D \in SUBSET (1..n)
  BY <1>3
<1> HIDE DEF D, n
<1>7. /\ IsFiniteSet(D) /\ Cardinality(D) \in Nat /\ Cardinality(D) <= n
      /\ D = 1..Cardinality(D)
  BY <1>1, <1>5, <1>6, EarlyPositions
<1>8. S = {i \in K : Rank(K, NumberOrder, i) < concurrency - active}
  <2>1. ASSUME NEW i \in K PROVE Before(K, NumberOrder, i) = Ahead(i) /\ i \in 1..n
    <3>1. Before(K, NumberOrder, i) = {j \in K : j < i}
      BY <1>2, NumbersInLine
    <3>2. i \in 1..n
      OBVIOUS
    <3>3. {j \in K : j < i} = Ahead(i)
      BY <1>1, <3>2 DEF StartsAhead
    <3> QED
      BY <3>1, <3>2, <3>3
  <2>2. ASSUME NEW i \in K
        PROVE  i \in D <=> Rank(K, NumberOrder, i) < concurrency - active
    <3>1. Rank(K, NumberOrder, i) = Cardinality(Ahead(i)) /\ i \in 1..n
      BY <2>1 DEF Rank
    <3>2. PICK c \in Nat : c = Cardinality(Ahead(i))
      BY <1>1, <1>4, <3>1
    <3>3. i \in D <=> active + c < concurrency
      BY <1>3, <3>1, <3>2
    <3>4. active + c < concurrency <=> c < concurrency - active
      OBVIOUS
    <3>5. Rank(K, NumberOrder, i) = c
      BY <3>1, <3>2
    <3> HIDE DEF K
    <3> QED
      BY <3>3, <3>4, <3>5
  <2>3. S = {i \in K : i \in D}
    BY <1>6 DEF StartedAt, D
  <2> QED
    BY <2>2, <2>3
<1>9. PICK room \in Nat : room = concurrency - active
  OBVIOUS
<1>10. OrdersAll(K, NumberOrder)
  BY <1>2, NumbersInLine
<1>11. /\ IsFiniteSet(S)
       /\ room <= Cardinality(K) => Cardinality(S) = room
       /\ room >= Cardinality(K) => S = K
  <2> HIDE DEF K, S
  <2>1. S = {i \in K : Rank(K, NumberOrder, i) < room}
    BY <1>8, <1>9
  <2>2. PICK all, R : all = K /\ R = NumberOrder
    OBVIOUS
  <2>3. IsFiniteSet(all) /\ OrdersAll(all, R)
    BY <1>2, <1>10, <2>2
  <2>4. /\ IsFiniteSet({i \in all : Rank(all, R, i) < room})
        /\ room <= Cardinality(all) =>
              Cardinality({i \in all : Rank(all, R, i) < room}) = room
        /\ room >= Cardinality(all) => {i \in all : Rank(all, R, i) < room} = all
    BY <2>3, FirstInLine
  <2> QED
    BY <2>1, <2>2, <2>4
<1>12. Cardinality(S) \in Nat /\ active + Cardinality(S) <= concurrency
  <2> HIDE DEF K, S
  <2>1. PICK s \in Nat : s = Cardinality(S)
    BY <1>11, FS_CardinalityType
  <2>2. PICK k \in Nat : k = Cardinality(K)
    BY <1>2
  <2>3. s <= room
    BY <1>11, <2>1, <2>2
  <2>4. active + s <= concurrency
    BY <1>9, <2>3
  <2> QED
    BY <2>1, <2>4
<1>13. ASSUME Cardinality(D) < n PROVE active + Cardinality(S) = concurrency
  <2>1. PICK r \in Nat : r = Cardinality(D)
    BY <1>7
  <2>2. r + 1 \in 1..n /\ r + 1 \notin D /\ (r + 1) - 1 = r
    BY <1>1, <1>7, <1>13, <2>1
  <2>3. Ahead(r + 1) = S
    BY <1>7, <2>1, <2>2 DEF StartedAt, StartsAhead, D
  <2>4. ~(active + Cardinality(S) < concurrency)
    BY <1>3, <2>2, <2>3
  <2>5. PICK s \in Nat : s = Cardinality(S)
    BY <1>12
  <2>6. active + s <= concurrency /\ ~(active + s < concurrency)
    BY <1>12, <2>4, <2>5
  <2>7. active + s = concurrency
    BY <2>6
  <2> QED
    BY <2>5, <2>7
<1> QED
  BY <1>1, <1>7, <1>11, <1>12, <1>13 DEF Taken, D, n
-----------------------------------------------------------------------------
\* The tasks that keep their slot, or ask to be counted again, when schedule runs.
Held == {t \in Tasks : state[t] = "running"} \cup releasing'

\* What the callers of schedule hand to it: a queue of tasks that wait or were
\* just asked for, and the number of the slots that are taken.
Fits(queue, active) ==
    /\ queue \in Seq(Tasks)
    /\ \A i, k \in DOMAIN queue : queue[i] = queue[k] => i = k
    /\ \A i \in DOMAIN queue : state[queue[i]] \in {"pending", "unasked"}
    /\ \A t \in Tasks : state[t] = "pending" => \E i \in DOMAIN queue : queue[i] = t
    /\ releasing' \subseteq Tasks /\ aborted' \subseteq Tasks
    /\ \A t \in releasing' : state[t] = "settled"
    /\ IsFiniteSet(Held) /\ active = Cardinality(Held) /\ active <= concurrency

\* Lemma: what schedule makes of the task at each position.
LEMMA ScheduledStates ==
    ASSUME LimitTypeOK, NEW queue, NEW active, Fits(queue, active), Schedule(queue, active),
           NEW r \in 0..Len(queue), Reached(queue, active) = 1..r
    PROVE  /\ \A i \in StartedAt(queue, active) : state'[queue[i]] = "running"
           /\ \A i \in (1..r) \ StartedAt(queue, active) : state'[queue[i]] = "rejected"
           /\ \A i \in (r + 1)..Len(queue) : state'[queue[i]] = "pending"
           /\ \A t \in Tasks : (\A i \in 1..Len(queue) : queue[i] # t) => state'[t] = state[t]
           /\ StartedAt(queue, active) \subseteq 1..r
           /\ StartedAt(queue, active) = {i \in 1..r : Starts(queue[i])}
<1> DEFINE S == StartedAt(queue, active)
<1>1. /\ Len(queue) \in Nat /\ DOMAIN queue = 1..Len(queue)
      /\ \A i \in 1..Len(queue) : queue[i] \in Tasks
      /\ \A i, k \in 1..Len(queue) : queue[i] = queue[k] => i = k
  BY DEF Fits
<1>2. S = {i \in 1..r : Starts(queue[i])}
  BY DEF StartedAt
<1>3. state' = [t \in Tasks |->
                  CASE \E i \in S : queue[i] = t -> "running"
                    [] \E i \in (1..r) \ S : queue[i] = t -> "rejected"
                    [] \E i \in DOMAIN queue \ (1..r) : queue[i] = t -> "pending"
                    [] OTHER -> state[t]]
  BY DEF Schedule, StartedAt
<1>4. DOMAIN queue \ (1..r) = (r + 1)..Len(queue)
  BY <1>1
<1>5. \A i \in (r + 1)..Len(queue) : i \in 1..Len(queue) /\ i \notin 1..r
  BY <1>1
<1>6. S \subseteq 1..r /\ 1..r \subseteq 1..Len(queue)
  BY <1>1, <1>2
<1> HIDE DEF S
<1>7. ASSUME NEW i \in S PROVE state'[queue[i]] = "running"
  BY <1>1, <1>3, <1>6
<1>8. ASSUME NEW i \in (1..r) \ S PROVE state'[queue[i]] = "rejected"
  <2>1. /\ queue[i] \in Tasks
        /\ ~\E k \in S : queue[k] = queue[i]
        /\ ~\E k \in DOMAIN queue \ (1..r) : queue[k] = queue[i]
    BY <1>1, <1>6
  <2> QED
    BY <1>3, <2>1
<1>9. ASSUME NEW i \in (r + 1)..Len(queue) PROVE state'[queue[i]] = "pending"
  <2>1. /\ queue[i] \in Tasks
        /\ ~\E k \in S : queue[k] = queue[i]
        /\ ~\E k \in (1..r) \ S : queue[k] = queue[i]
    BY <1>1, <1>5, <1>6
  <2> QED
    BY <1>3, <1>4, <2>1
<1>10. ASSUME NEW t \in Tasks,
\A i \in 1..Len(queue) : queue[i] # t PROVE state'[t] = state[t]
  <2>1. /\ ~\E k \in S : queue[k] = t
        /\ ~\E k \in (1..r) \ S : queue[k] = t
        /\ ~\E k \in DOMAIN queue \ (1..r) : queue[k] = t
    BY <1>1, <1>6, <1>10
  <2> QED
    BY <1>3, <2>1
<1> QED
  BY <1>2, <1>6, <1>7, <1>8, <1>9, <1>10 DEF S

\* Lemma: what is left of a sequence without its first r elements.
LEMMA Remainder ==
    ASSUME NEW V, NEW seq \in Seq(V), NEW r \in 0..Len(seq)
    PROVE  /\ SubSeq(seq, r + 1, Len(seq)) \in Seq(V)
           /\ Len(SubSeq(seq, r + 1, Len(seq))) = Len(seq) - r
           /\ \A k \in 1..(Len(seq) - r) :
                 SubSeq(seq, r + 1, Len(seq))[k] = seq[r + k]
<1>1. r \in Nat /\ Len(seq) \in Nat /\ r <= Len(seq)
  OBVIOUS
<1>2. /\ SubSeq(seq, r + 1, Len(seq)) \in Seq(V)
      /\ Len(SubSeq(seq, r + 1, Len(seq))) = Len(seq) - r
  BY <1>1
<1>3. ASSUME NEW k \in 1..(Len(seq) - r)
      PROVE  SubSeq(seq, r + 1, Len(seq))[k] = seq[r + k]
  BY <1>1
<1> QED
  BY <1>2, <1>3

\* Lemma: schedule leaves everything in order when it finds it so.
LEMMA ScheduleKeeps ==
    ASSUME LimitTypeOK, NEW queue, NEW active, Fits(queue, active), Schedule(queue, active)
    PROVE  LimitInv'
<1> DEFINE S == StartedAt(queue, active)
           r == Taken(queue, active)
           n == Len(queue)
           rest == SubSeq(queue, r + 1, n)
<1>1. concurrency \in Nat /\ active \in Nat /\ active <= concurrency /\ queue \in Seq(Tasks)
  <2>1. concurrency \in Nat
    BY LimitAssumption DEF concurrency
  <2> QED
    BY <2>1, FS_CardinalityType DEF Fits
<1>2. /\ r \in 0..n /\ Reached(queue, active) = 1..r
      /\ IsFiniteSet(S) /\ Cardinality(S) \in Nat
      /\ active + Cardinality(S) <= concurrency
      /\ r < n => active + Cardinality(S) = concurrency
  BY <1>1, LoopTakesFront
<1>3. /\ \A i \in S : state'[queue[i]] = "running"
      /\ \A i \in (1..r) \ S : state'[queue[i]] = "rejected"
      /\ \A i \in (r + 1)..n : state'[queue[i]] = "pending"
      /\ \A t \in Tasks : (\A i \in 1..n : queue[i] # t) => state'[t] = state[t]
      /\ S \subseteq 1..r
  BY <1>2, ScheduledStates
<1>4. pendingTasks' = rest /\ activeCount' = active + Cardinality(S)
  BY DEF Schedule, StartedAt, Taken
<1>5. /\ n \in Nat /\ DOMAIN queue = 1..n
      /\ \A i \in 1..n : queue[i] \in Tasks
      /\ \A i, k \in 1..n : queue[i] = queue[k] => i = k
      /\ \A i \in 1..n : state[queue[i]] \in {"pending", "unasked"}
      /\ \A t \in Tasks : state[t] = "pending" => \E i \in 1..n : queue[i] = t
  BY <1>1 DEF Fits
<1> HIDE DEF r, S, n
<1>6. /\ rest \in Seq(Tasks) /\ Len(rest) = n - r
      /\ \A k \in 1..(n - r) : rest[k] = queue[r + k]
  <2>1. queue \in Seq(Tasks) /\ r \in 0..Len(queue)
    BY <1>1, <1>2 DEF n
  <2> QED
    BY <2>1, Remainder DEF n
<1> HIDE DEF rest
<1>7. DOMAIN rest = 1..(n - r)
  BY <1>6
<1>8. LimitTypeOK'
  <2>1. state' \in [Tasks -> {"unasked", "pending", "running", "settled", "rejected"}]
    BY DEF LimitTypeOK, Schedule
  <2> QED
    BY <1>1, <1>2, <1>4, <1>6, <2>1 DEF LimitTypeOK, Fits
<1>9. WaitingFit'
  <2>1. \A i, k \in 1..(n - r) : rest[i] = rest[k] => i = k
    <3> SUFFICES ASSUME NEW i \in 1..(n - r), NEW k \in 1..(n - r), rest[i] = rest[k]
                 PROVE  i = k
      OBVIOUS
    <3>1. PICK x, y \in Nat : x = r /\ y = n /\ x <= y
      BY <1>2, <1>5
    <3>2. x + i \in 1..y /\ x + k \in 1..y /\ (x + i = x + k => i = k)
      BY <3>1
    <3>3. queue[r + i] = queue[r + k]
      BY <1>6
    <3> QED
      BY <1>5, <3>1, <3>2, <3>3
  <2>2. ASSUME NEW k \in 1..(n - r) PROVE state'[rest[k]] = "pending"
    <3>1. r + k \in (r + 1)..n
      BY <1>2, <1>5
    <3> QED
      BY <1>3, <1>6, <3>1
  <2>3. ASSUME NEW t \in Tasks,
  state'[t] = "pending" PROVE \E k \in 1..(n - r) : rest[k] = t
    <3>1. \E i \in 1..n : queue[i] = t
      BY <1>3, <1>5, <2>3
    <3>2. PICK i \in 1..n : queue[i] = t
      BY <3>1
    <3>3. i \notin 1..r
      BY <1>3, <2>3, <3>2
    <3>4. i - r \in 1..(n - r) /\ r + (i - r) = i
      BY <1>2, <1>5, <3>3
    <3> QED
      BY <1>6, <3>2, <3>4
  <2> QED
    BY <1>4, <1>7, <2>1, <2>2, <2>3 DEF WaitingFit
<1>10. /\ SlotsFit' /\ activeCount' = Cardinality(Slots')
  <2> DEFINE New == {queue[i] : i \in S}
             at == [i \in S |-> queue[i]]
  <2>1. \A t \in releasing' : state'[t] = "settled"
    BY <1>3, <1>5 DEF Fits
  <2>2. Slots' = Held \cup New
    <3>1. ASSUME NEW t \in Tasks
          PROVE  state'[t] = "running" <=> state[t] = "running" \/ t \in New
      <4>1. CASE \E i \in 1..n : queue[i] = t
        <5>1. PICK i \in 1..n : queue[i] = t
          BY <4>1
        <5>2. state[t] # "running"
          BY <1>5, <5>1
        <5>3. i \in S \/ i \in (1..r) \ S \/ i \in (r + 1)..n
          BY <1>2, <1>5
        <5>4. i \in S <=> t \in New
          BY <1>2, <1>3, <1>5, <5>1
        <5> QED
          BY <1>3, <5>1, <5>2, <5>3, <5>4
      <4>2. CASE ~\E i \in 1..n : queue[i] = t
        <5>1. state'[t] = state[t]
          BY <1>3, <4>2
        <5>2. t \notin New
          <6>1. \A i \in S : i \in 1..n
            BY <1>2, <1>3, <1>5
          <6> QED
            BY <4>2, <6>1
        <5> QED
          BY <5>1, <5>2
      <4> QED
        BY <4>1, <4>2
    <3>2. New \subseteq Tasks
      <4>1. \A i \in S : i \in 1..n
        BY <1>2, <1>3, <1>5
      <4> QED
        BY <1>5, <4>1
    <3> HIDE DEF New
    <3> QED
      BY <3>1, <3>2 DEF Slots, Held
  <2>3. Held \cap New = {}
    BY <1>2, <1>3, <1>5 DEF Held, Fits
  <2>4. at \in Bijection(S, New)
    <3>1. \A i, k \in S : at[i] = at[k] => i = k
      BY <1>2, <1>3, <1>5
    <3>2. at \in [S -> New] /\ \A t \in New : \E i \in S : at[i] = t
      OBVIOUS
    <3> QED
      BY <3>1, <3>2 DEF Bijection, Injection, Surjection, IsInjective
  <2>5. IsFiniteSet(New) /\ Cardinality(New) = Cardinality(S)
    <3> HIDE DEF New, at
    <3>1. ExistsBijection(S, New)
      BY <2>4 DEF ExistsBijection
    <3> QED
      BY <1>2, <3>1, FS_Bijection
  <2>6. IsFiniteSet(Held) /\ active = Cardinality(Held)
    BY DEF Fits
  <2> HIDE DEF New
  <2>7. /\ IsFiniteSet(Held \cup New)
        /\ Cardinality(Held \cup New)
             = Cardinality(Held) + Cardinality(New) - Cardinality({})
    BY <2>3, <2>5, <2>6, FS_Union
  <2>8. Cardinality(Held \cup New) = active + Cardinality(S)
    BY <1>1, <1>2, <2>5, <2>6, <2>7, FS_EmptySet
  <2> QED
    BY <1>4, <2>1, <2>2, <2>7, <2>8 DEF SlotsFit
<1>11. SlotsAreCounted'
  BY <1>2, <1>4, <1>10 DEF SlotsAreCounted, Slots, concurrency
<1>12. NoIdleSlot'
  <2> SUFFICES ASSUME rest # <<>> PROVE activeCount' = concurrency
    BY <1>4 DEF NoIdleSlot, concurrency
  <2>1. r < n
    BY <1>2, <1>5, <1>6
  <2> QED
    BY <1>2, <1>4, <2>1
<1> QED
  BY <1>8, <1>9, <1>10, <1>11, <1>12 DEF LimitInv
-----------------------------------------------------------------------------
\* Lemma: a call of run hands a fitting queue to schedule.
LEMMA RunFits ==
    ASSUME LimitInv, NEW t \in Tasks, Run(t)
    PROVE  Fits(Append(pendingTasks, t), activeCount) /\ Schedule(Append(pendingTasks,
           t), activeCount)
<1> DEFINE queue == Append(pendingTasks, t)
           n == Len(pendingTasks)
<1>1. /\ pendingTasks \in Seq(Tasks) /\ n \in Nat /\ DOMAIN pendingTasks = 1..n
      /\ queue \in Seq(Tasks) /\ DOMAIN queue = 1..(n + 1) /\ queue[n + 1] = t
      /\ \A i \in 1..n : queue[i] = pendingTasks[i]
  BY DEF LimitInv, LimitTypeOK
<1>2. /\ \A i, k \in 1..n : pendingTasks[i] = pendingTasks[k] => i = k
      /\ \A u \in Tasks : state[u] = "pending" <=> \E i \in 1..n : pendingTasks[i] = u
  BY <1>1 DEF LimitInv, WaitingFit
<1>3. state[t] = "unasked" /\ releasing' = releasing /\ aborted' = aborted
  BY DEF Run
<1>4. \A i \in 1..n : pendingTasks[i] \in Tasks /\ state[pendingTasks[i]] = "pending"
  BY <1>1, <1>2
<1>5. Held = Slots
  BY <1>3 DEF Held, Slots
<1>6. \A i \in 1..(n + 1) : i \in 1..n \/ i = n + 1
  BY <1>1
<1> HIDE DEF queue, n
<1>7. \A i, k \in 1..(n + 1) : queue[i] = queue[k] => i = k
  BY <1>1, <1>2, <1>3, <1>4, <1>6
<1>8. \A i \in 1..(n + 1) : state[queue[i]] \in {"pending", "unasked"}
  BY <1>1, <1>3, <1>4, <1>6
<1>9. \A u \in Tasks : state[u] = "pending" => \E i \in 1..(n + 1) : queue[i] = u
  <2>1. \A i \in 1..n : i \in 1..(n + 1)
    BY <1>1
  <2> QED
    BY <1>1, <1>2, <2>1
<1>10. /\ releasing' \subseteq Tasks /\ aborted' \subseteq Tasks
       /\ \A u \in releasing' : state[u] = "settled"
       /\ IsFiniteSet(Held) /\ activeCount = Cardinality(Held) /\ activeCount <= concurrency
  BY <1>3, <1>5 DEF LimitInv, LimitTypeOK, SlotsFit, SlotsAreCounted, Slots
<1>11. Fits(queue, activeCount)
  BY <1>1, <1>7, <1>8, <1>9, <1>10 DEF Fits
<1> QED
  BY <1>11 DEF Run, queue

\* Lemma: the finally of a task gives back the one slot that the task held.
LEMMA ReleaseFits ==
    ASSUME LimitInv, NEW t \in Tasks, Release(t)
    PROVE  Fits(pendingTasks, activeCount - 1) /\ Schedule(pendingTasks,
           activeCount - 1)
<1>1. /\ t \in releasing /\ releasing' = releasing \ {t} /\ aborted' = aborted
      /\ Schedule(pendingTasks, IF activeCount = 0 THEN 0 ELSE activeCount - 1)
  BY DEF Release
<1>2. /\ activeCount \in Nat /\ concurrency \in Nat /\ activeCount <= concurrency
      /\ IsFiniteSet(Slots) /\ activeCount = Cardinality(Slots)
  BY LimitAssumption
  DEF LimitInv, LimitTypeOK, SlotsFit, SlotsAreCounted, Slots, concurrency
<1>3. Held = Slots \ {t} /\ t \in Slots
  BY <1>1 DEF Held, Slots, LimitInv, SlotsFit
<1>4. IsFiniteSet(Held) /\ Cardinality(Held) = activeCount - 1 /\ activeCount # 0
  <2>1. IsFiniteSet(Slots \ {t}) /\ Cardinality(Slots \ {t}) = Cardinality(Slots) - 1
    BY <1>2, <1>3, FS_RemoveElement
  <2>2. Cardinality(Slots) # 0
    BY <1>2, <1>3, FS_EmptySet
  <2> QED
    BY <1>2, <1>3, <2>1, <2>2
<1>5. activeCount - 1 <= concurrency
  BY <1>2
<1>6. Fits(pendingTasks, activeCount - 1)
  <2>1. /\ pendingTasks \in Seq(Tasks)
        /\ \A i \in DOMAIN pendingTasks : pendingTasks[i] \in Tasks
    BY DEF LimitInv, LimitTypeOK
  <2> QED
    BY <1>1, <1>4, <1>5, <2>1 DEF Fits, LimitInv, LimitTypeOK, WaitingFit, SlotsFit
<1> QED
  BY <1>1, <1>4, <1>6

\* Lemma: a task that settles keeps its slot until its finally runs.
LEMMA SettleKeeps ==
    ASSUME LimitInv, NEW t \in Tasks, TaskEnds(t)
    PROVE  LimitInv'
<1>1. /\ state[t] = "running" /\ state' = [state EXCEPT ![t] = "settled"]
      /\ releasing' = releasing \cup {t}
      /\ UNCHANGED <<pendingTasks, activeCount, aborted>>
  BY DEF TaskEnds
<1>2. LimitTypeOK' /\ WaitingFit'
  BY <1>1 DEF LimitInv, LimitTypeOK, WaitingFit
<1>3. Slots' = Slots
  BY <1>1 DEF Slots, LimitInv, LimitTypeOK, SlotsFit
<1>4. \A u \in releasing' : state'[u] = "settled"
  BY <1>1 DEF LimitInv, LimitTypeOK, SlotsFit
<1>5. SlotsFit' /\ SlotsAreCounted' /\ NoIdleSlot'
  BY <1>1, <1>3, <1>4 DEF LimitInv, SlotsFit, SlotsAreCounted, NoIdleSlot, Slots,
     concurrency
<1> QED
  BY <1>2, <1>5 DEF LimitInv

\* Lemma: the elements of two sequences, one after the other.
LEMMA Joined ==
    ASSUME NEW V, NEW a \in Seq(V), NEW b \in Seq(V)
    PROVE  /\ a \o b \in Seq(V) /\ Len(a \o b) = Len(a) + Len(b)
           /\ \A k \in 1..Len(a) : (a \o b)[k] = a[k]
           /\ \A k \in 1..Len(b) : (a \o b)[Len(a) + k] = b[k]
  OBVIOUS

\* Lemma: a sequence without the element at one position.
LEMMA Cut ==
    ASSUME NEW V, NEW seq \in Seq(V), NEW i \in 1..Len(seq), NEW cut,
           cut = SubSeq(seq, 1, i - 1) \o SubSeq(seq, i + 1, Len(seq))
    PROVE  /\ cut \in Seq(V) /\ Len(cut) = Len(seq) - 1
           /\ \A k \in 1..(i - 1) : cut[k] = seq[k]
           /\ \A k \in i..(Len(seq) - 1) : cut[k] = seq[k + 1]
<1>0. PICK front, back : /\ front = SubSeq(seq, 1, i - 1)
                         /\ back = SubSeq(seq, i + 1, Len(seq))
                         /\ cut = front \o back
  OBVIOUS
<1>1. PICK n \in Nat : n = Len(seq) /\ i \in 1..n
  OBVIOUS
<1>2. /\ front \in Seq(V) /\ Len(front) = i - 1
      /\ \A k \in 1..(i - 1) : front[k] = seq[k]
  BY <1>0, <1>1
<1>3. /\ back \in Seq(V) /\ Len(back) = n - i
      /\ \A k \in 1..(n - i) : back[k] = seq[i + k]
  BY <1>0, <1>1, Remainder
<1>4. cut = front \o back
  BY <1>0
<1>5. /\ cut \in Seq(V) /\ Len(cut) = Len(front) + Len(back)
      /\ \A k \in 1..Len(front) : cut[k] = front[k]
      /\ \A k \in 1..Len(back) : cut[Len(front) + k] = back[k]
  <2>1. /\ front \o back \in Seq(V) /\ Len(front \o back) = Len(front) + Len(back)
        /\ \A k \in 1..Len(front) : (front \o back)[k] = front[k]
        /\ \A k \in 1..Len(back) : (front \o back)[Len(front) + k] = back[k]
    <3>1. front \in Seq(V) /\ back \in Seq(V)
      BY <1>2, <1>3
    <3> QED
      BY <3>1, Joined
  <2> QED
    BY <1>4, <2>1, Zenon
<1>6. Len(cut) = n - 1 /\ \A k \in 1..(i - 1) : cut[k] = seq[k]
  <2>1. (i - 1) + (n - i) = n - 1
    BY <1>1
  <2>2. Len(cut) = n - 1
    BY <1>2, <1>3, <1>5, <2>1
  <2>3. \A k \in 1..(i - 1) : cut[k] = seq[k]
    BY <1>2, <1>5
  <2> QED
    BY <2>2, <2>3
<1>7. ASSUME NEW k \in i..(n - 1) PROVE cut[k] = seq[k + 1]
  <2>1. PICK h \in 1..(n - i) : (i - 1) + h = k /\ i + h = k + 1
    <3>1. /\ k - (i - 1) \in 1..(n - i) /\ (i - 1) + (k - (i - 1)) = k
          /\ i + (k - (i - 1)) = k + 1
      BY <1>1
    <3> QED
      BY <3>1
  <2>2. cut[k] = back[h]
    BY <1>2, <1>3, <1>5, <2>1
  <2> QED
    BY <1>3, <2>1, <2>2
<1> QED
  BY <1>1, <1>5, <1>6, <1>7

\* Lemma: an abort takes at most one waiting task out of the queue.
LEMMA AbortKeeps ==
    ASSUME LimitInv, NEW t \in Tasks, Abort(t)
    PROVE  LimitInv'
<1>1. /\ aborted' = aborted \cup {t} /\ UNCHANGED <<activeCount, releasing>>
      /\ \/ \E i \in DOMAIN pendingTasks :
             /\ pendingTasks[i] = t
             /\ pendingTasks' = SubSeq(pendingTasks, 1, i - 1)
                                \o SubSeq(pendingTasks, i + 1, Len(pendingTasks))
             /\ state' = [state EXCEPT ![t] = "rejected"]
         \/ UNCHANGED <<state, pendingTasks>>
  BY DEF Abort
<1>2. CASE UNCHANGED <<state, pendingTasks>>
  BY <1>1, <1>2
  DEF LimitInv, LimitTypeOK, WaitingFit, SlotsFit, SlotsAreCounted, NoIdleSlot, Slots,
      concurrency
<1>3. ASSUME NEW i \in DOMAIN pendingTasks, pendingTasks[i] = t,
             pendingTasks' = SubSeq(pendingTasks, 1, i - 1)
                             \o SubSeq(pendingTasks, i + 1, Len(pendingTasks)),
             state' = [state EXCEPT ![t] = "rejected"]
      PROVE  LimitInv'
  <2>1. PICK n \in Nat : n = Len(pendingTasks) /\ DOMAIN pendingTasks = 1..n
    BY DEF LimitInv, LimitTypeOK
  <2>2. /\ pendingTasks \in Seq(Tasks) /\ i \in 1..n
        /\ \A k \in 1..n : pendingTasks[k] \in Tasks
        /\ \A k, h \in 1..n : pendingTasks[k] = pendingTasks[h] => k = h
        /\ \A u \in Tasks : state[u] = "pending" <=> \E k \in 1..n : pendingTasks[k] = u
    <3>1. pendingTasks \in Seq(Tasks) /\ i \in 1..n
      BY <2>1 DEF LimitInv, LimitTypeOK
    <3>2. \A k \in 1..n : pendingTasks[k] \in Tasks
      BY <2>1, <3>1
    <3> QED
      BY <2>1, <3>1, <3>2 DEF LimitInv, WaitingFit
  <2>3. /\ pendingTasks' \in Seq(Tasks) /\ Len(pendingTasks') = n - 1
        /\ \A k \in 1..(i - 1) : pendingTasks'[k] = pendingTasks[k]
        /\ \A k \in i..(n - 1) : pendingTasks'[k] = pendingTasks[k + 1]
    <3>1. PICK cut : /\ cut = pendingTasks'
                     /\ cut = SubSeq(pendingTasks, 1, i - 1)
                              \o SubSeq(pendingTasks, i + 1, Len(pendingTasks))
      BY <1>3
    <3>2. pendingTasks \in Seq(Tasks) /\ i \in 1..Len(pendingTasks)
      BY <2>1, <2>2
    <3>3. /\ cut \in Seq(Tasks) /\ Len(cut) = Len(pendingTasks) - 1
          /\ \A k \in 1..(i - 1) : cut[k] = pendingTasks[k]
          /\ \A k \in i..(Len(pendingTasks) - 1) : cut[k] = pendingTasks[k + 1]
      BY <3>1, <3>2, Cut
    <3> QED
      BY <2>1, <3>1, <3>3
  <2>4. DOMAIN (pendingTasks') = 1..(n - 1)
    BY <2>3
  <2>5. state[t] = "pending"
    BY <1>3, <2>2
  <2>6. LimitTypeOK'
    BY <1>1, <1>3, <2>3 DEF LimitInv, LimitTypeOK
  <2> DEFINE from(k) == IF k < i THEN k ELSE k + 1
  <2>7. \A k \in 1..(n - 1) : /\ from(k) \in 1..n /\ from(k) # i
                              /\ pendingTasks'[k] = pendingTasks[from(k)]
    <3> SUFFICES ASSUME NEW k \in 1..(n - 1)
                 PROVE  /\ from(k) \in 1..n /\ from(k) # i
                        /\ pendingTasks'[k] = pendingTasks[from(k)]
      OBVIOUS
    <3>1. CASE k < i
      BY <2>2, <2>3, <3>1
    <3>2. CASE ~(k < i)
      <4>1. k \in i..(n - 1)
        BY <2>2, <3>2
      <4> QED
        BY <2>2, <2>3, <3>2, <4>1
    <3> QED
      BY <3>1, <3>2
  <2>8. /\ \A k, h \in 1..(n - 1) : from(k) = from(h) => k = h
        /\ \A m \in 1..n : m # i => \E k \in 1..(n - 1) : from(k) = m
    <3>1. \A k, h \in 1..(n - 1) : from(k) = from(h) => k = h
      BY <2>2
    <3>2. ASSUME NEW m \in 1..n, m # i PROVE \E k \in 1..(n - 1) : from(k) = m
      <4>1. CASE m < i
        BY <2>2, <4>1
      <4>2. CASE m > i
        <5>1. m - 1 \in 1..(n - 1) /\ from(m - 1) = m
          BY <2>2, <4>2
        <5> QED
          BY <5>1
      <4> QED
        BY <2>2, <3>2, <4>1, <4>2
    <3> QED
      BY <3>1, <3>2
  <2> HIDE DEF from
  <2>9. \A k, h \in 1..(n - 1) : pendingTasks'[k] = pendingTasks'[h] => k = h
    BY <2>2, <2>7, <2>8
  <2>10. ASSUME NEW u \in Tasks
         PROVE  state'[u] = "pending" <=> \E k \in 1..(n - 1) : pendingTasks'[k] = u
    <3>1. CASE u = t
      <4>1. state'[t] = "rejected"
        BY <1>3 DEF LimitInv, LimitTypeOK
      <4>2. ASSUME NEW k \in 1..(n - 1) PROVE pendingTasks'[k] # t
        <5>1. from(k) \in 1..n /\ from(k) # i /\ pendingTasks'[k] = pendingTasks[from(k)]
          BY <2>7
        <5>2. pendingTasks[from(k)] # pendingTasks[i]
          BY <2>2, <5>1
        <5> QED
          BY <1>3, <5>1, <5>2
      <4> QED
        BY <3>1, <4>1, <4>2
    <3>2. CASE u # t
      <4>1. state'[u] = state[u]
        BY <1>3, <3>2 DEF LimitInv, LimitTypeOK
      <4>2. (\E k \in 1..n : pendingTasks[k] = u) <=> \E k \in 1..(n - 1) : pendingTasks'[k] = u
        <5>1. ASSUME NEW m \in 1..n, pendingTasks[m] = u
              PROVE  \E k \in 1..(n - 1) : pendingTasks'[k] = u
          <6>1. m # i
            BY <1>3, <3>2, <5>1
          <6>2. PICK k \in 1..(n - 1) : from(k) = m
            BY <2>8, <6>1
          <6> QED
            BY <2>7, <5>1, <6>2
        <5>2. ASSUME NEW k \in 1..(n - 1), pendingTasks'[k] = u
              PROVE  \E m \in 1..n : pendingTasks[m] = u
          BY <2>7, <5>2
        <5> QED
          BY <5>1, <5>2
      <4> QED
        BY <2>2, <4>1, <4>2
    <3> QED
      BY <3>1, <3>2
  <2>11. WaitingFit'
    BY <2>4, <2>9, <2>10 DEF WaitingFit
  <2>12. Slots' = Slots /\ \A u \in releasing' : state'[u] = "settled"
    BY <1>1, <1>3, <2>5 DEF Slots, LimitInv, LimitTypeOK, SlotsFit
  <2>13. SlotsFit' /\ SlotsAreCounted'
    BY <1>1, <2>12 DEF LimitInv, SlotsFit, SlotsAreCounted, Slots, concurrency
  <2>14. NoIdleSlot'
    <3>1. pendingTasks # <<>>
      BY <2>1, <2>2
    <3> QED
      BY <1>1, <3>1 DEF LimitInv, NoIdleSlot, concurrency
  <2> QED
    BY <2>6, <2>11, <2>13, <2>14 DEF LimitInv
<1> QED
  BY <1>1, <1>2, <1>3

\* Lemma: every step of the limiter keeps its invariant.
LEMMA LimitStep == LimitInv /\ [LimitNext]_limitVars => LimitInv'
<1> SUFFICES ASSUME LimitInv, [LimitNext]_limitVars PROVE LimitInv'
  OBVIOUS
<1>1. CASE UNCHANGED limitVars
  BY <1>1 DEF limitVars, LimitInv, LimitTypeOK, WaitingFit, SlotsFit, SlotsAreCounted, NoIdleSlot,
              Slots, concurrency
<1>2. ASSUME NEW t \in Tasks, Run(t) PROVE LimitInv'
  BY <1>2, RunFits, ScheduleKeeps DEF LimitInv
<1>3. ASSUME NEW t \in Tasks, Release(t) PROVE LimitInv'
  BY <1>3, ReleaseFits, ScheduleKeeps DEF LimitInv
<1> QED
  BY <1>1, <1>2, <1>3, SettleKeeps, AbortKeeps DEF LimitNext

\* Lemma: the limiter starts with its invariant.
LEMMA LimitStart == LimitInit => LimitInv
<1> SUFFICES ASSUME LimitInit PROVE LimitInv
  OBVIOUS
<1>1. Slots = {} /\ concurrency \in Nat
  BY LimitAssumption DEF LimitInit, Slots, concurrency
<1>2. LimitTypeOK /\ WaitingFit /\ NoIdleSlot
  BY DEF LimitInit, LimitTypeOK, WaitingFit, NoIdleSlot
<1>3. IsFiniteSet(Slots) /\ Cardinality(Slots) = 0
  BY <1>1, FS_EmptySet
<1>4. SlotsFit /\ SlotsAreCounted
  <2>1. SlotsAreCounted <=> activeCount = Cardinality(Slots) /\ activeCount <= concurrency
    BY DEF SlotsAreCounted, Slots
  <2>2. activeCount = 0 /\ releasing = {}
    BY DEF LimitInit
  <2> HIDE DEF LimitInit
  <2> QED
    BY <1>1, <1>3, <2>1, <2>2 DEF SlotsFit
<1> QED
  BY <1>2, <1>4 DEF LimitInv

\* Theorem: the inductive invariant of the limiter.
THEOREM LimitHolds == LimitSpec => []LimitInv
  BY LimitStart, LimitStep, PTL DEF LimitSpec

\* Theorem: activeCount is the number of tasks that hold a slot, and within the limit,
\* for any limit: no abort or failure leaks a slot (start and its finally).
THEOREM SlotsNeverLeak == LimitSpec => []SlotsAreCounted
<1>1. LimitInv => SlotsAreCounted
  BY DEF LimitInv
<1> QED
  BY <1>1, LimitHolds, PTL

\* Theorem: a task waits only while every slot is taken (schedule).
THEOREM SlotsAreUsed == LimitSpec => []NoIdleSlot
<1>1. LimitInv => NoIdleSlot
  BY DEF LimitInv
<1> QED
  BY <1>1, LimitHolds, PTL

\* Lemma: schedule starts none that was aborted.
LEMMA ScheduleStarts ==
    ASSUME LimitTypeOK, NEW queue, NEW active, Fits(queue, active),
           Schedule(queue, active), NEW t \in aborted, state[t] # "running"
    PROVE  state'[t] # "running"
<1>1. t \in Tasks /\ concurrency \in Nat /\ active \in Nat /\ active <= concurrency
      /\ queue \in Seq(Tasks)
  <2>1. concurrency \in Nat
    BY LimitAssumption DEF concurrency
  <2> QED
    BY <2>1, FS_CardinalityType DEF LimitTypeOK, Fits
<1>2. PICK r \in 0..Len(queue) : Reached(queue, active) = 1..r
  BY <1>1, LoopTakesFront
<1>3. /\ \A i \in (1..r) \ StartedAt(queue, active) : state'[queue[i]] = "rejected"
      /\ \A i \in (r + 1)..Len(queue) : state'[queue[i]] = "pending"
      /\ (\A i \in 1..Len(queue) : queue[i] # t) => state'[t] = state[t]
      /\ StartedAt(queue, active) = {i \in 1..r : Starts(queue[i])}
  BY <1>1, <1>2, ScheduledStates
<1>4. CASE \E i \in 1..Len(queue) : queue[i] = t
  <2>1. PICK i \in 1..Len(queue) : queue[i] = t
    BY <1>4
  <2>2. i \notin StartedAt(queue, active)
    BY <1>3, <2>1 DEF Starts
  <2>3. i \in 1..r \/ i \in (r + 1)..Len(queue)
    BY <1>1
  <2> QED
    BY <1>3, <2>1, <2>2, <2>3
<1> QED
  BY <1>3, <1>4

\* Theorem: a task whose signal had fired does not start, however it came into the
\* queue (the check in schedule).
THEOREM AbortsAreHonoured == LimitSpec => AbortedNeverStart
<1> DEFINE Kept == \A t \in aborted : state[t] # "running" => state'[t] # "running"
<1>1. ASSUME LimitInv, [LimitNext]_limitVars PROVE Kept
  <2> SUFFICES ASSUME NEW t \in aborted, state[t] # "running" PROVE state'[t] # "running"
    OBVIOUS
  <2>1. LimitTypeOK
    BY <1>1 DEF LimitInv
  <2>2. ASSUME NEW u \in Tasks, Run(u) PROVE state'[t] # "running"
    BY <1>1, <2>1, <2>2, RunFits, ScheduleStarts
  <2>3. ASSUME NEW u \in Tasks, Release(u) PROVE state'[t] # "running"
    BY <1>1, <2>1, <2>3, ReleaseFits, ScheduleStarts
  <2>4. ASSUME NEW u \in Tasks, TaskEnds(u) \/ Abort(u) PROVE state'[t] # "running"
    BY <2>1, <2>4 DEF LimitTypeOK, TaskEnds, Abort
  <2>5. CASE UNCHANGED limitVars
    BY <2>5 DEF limitVars
  <2> QED
    BY <1>1, <2>2, <2>3, <2>4, <2>5 DEF LimitNext
<1>2. LimitInv /\ [LimitNext]_limitVars => [Kept]_limitVars
  BY <1>1
<1> HIDE DEF Kept
<1>3. LimitSpec => [][Kept]_limitVars
  BY <1>2, LimitHolds, PTL DEF LimitSpec
<1> QED
  BY <1>3 DEF AbortedNeverStart, Kept

\* Lemma: of the tasks in a queue schedule starts none past one that it leaves.
LEMMA ScheduleInOrder ==
    ASSUME LimitTypeOK, NEW queue, NEW active, Fits(queue, active),
           Schedule(queue, active), NEW i \in 1..Len(queue), NEW k \in 1..Len(queue), i < k,
           state'[queue[k]] = "running"
    PROVE  state'[queue[i]] # "pending"
<1>1. /\ concurrency \in Nat /\ active \in Nat /\ active <= concurrency
      /\ queue \in Seq(Tasks)
  <2>1. concurrency \in Nat
    BY LimitAssumption DEF concurrency
  <2> QED
    BY <2>1, FS_CardinalityType DEF Fits
<1>2. PICK r \in 0..Len(queue) : Reached(queue, active) = 1..r
  BY <1>1, LoopTakesFront
<1>3. /\ \A h \in StartedAt(queue, active) : state'[queue[h]] = "running"
      /\ \A h \in (1..r) \ StartedAt(queue, active) : state'[queue[h]] = "rejected"
      /\ \A h \in (r + 1)..Len(queue) : state'[queue[h]] = "pending"
  BY <1>1, <1>2, ScheduledStates
<1>4. k \notin (r + 1)..Len(queue)
  BY <1>3
<1>5. i \in 1..r
  BY <1>1, <1>4
<1> QED
  BY <1>3, <1>5

\* Theorem: first come, first served, whatever is aborted in between (schedule).
THEOREM FirstComeFirstServed == LimitSpec => StartsInOrder
<1> DEFINE InOrder == \A i, k \in DOMAIN pendingTasks :
              i < k /\ state'[pendingTasks[k]] = "running"
                 => state'[pendingTasks[i]] # "pending"
<1>1. ASSUME LimitInv, [LimitNext]_limitVars PROVE InOrder
  <2> SUFFICES ASSUME NEW i \in DOMAIN pendingTasks, NEW k \in DOMAIN pendingTasks, i < k,
                      state'[pendingTasks[k]] = "running"
               PROVE  state'[pendingTasks[i]] # "pending"
    OBVIOUS
  <2>1. PICK n \in Nat : n = Len(pendingTasks) /\ DOMAIN pendingTasks = 1..n
    BY <1>1 DEF LimitInv, LimitTypeOK
  <2>2. /\ LimitTypeOK /\ i \in 1..n /\ k \in 1..n
        /\ pendingTasks \in Seq(Tasks) /\ pendingTasks[k] \in Tasks
        /\ state[pendingTasks[k]] = "pending"
    <3>1. LimitTypeOK /\ pendingTasks \in Seq(Tasks) /\ i \in 1..n /\ k \in 1..n
      BY <1>1, <2>1 DEF LimitInv, LimitTypeOK
    <3>2. pendingTasks[k] \in Tasks
      BY <2>1, <3>1
    <3> QED
      BY <1>1, <3>1, <3>2 DEF LimitInv, WaitingFit
  <2>3. ASSUME NEW u \in Tasks, Run(u) PROVE state'[pendingTasks[i]] # "pending"
    <3>1. /\ i \in 1..Len(Append(pendingTasks, u)) /\ k \in 1..Len(Append(pendingTasks, u))
          /\ Append(pendingTasks, u)[i] = pendingTasks[i]
          /\ Append(pendingTasks, u)[k] = pendingTasks[k]
      BY <2>1, <2>2
    <3>2. Fits(Append(pendingTasks, u), activeCount) /\ Schedule(Append(pendingTasks, u), activeCount)
      BY <1>1, <2>3, RunFits
    <3>3. PICK queue : queue = Append(pendingTasks, u)
      OBVIOUS
    <3> QED
      BY <2>2, <3>1, <3>2, <3>3, ScheduleInOrder
  <2>4. ASSUME NEW u \in Tasks, Release(u) PROVE state'[pendingTasks[i]] # "pending"
    BY <1>1, <2>1, <2>2, <2>4, ReleaseFits, ScheduleInOrder
  <2>5. ASSUME NEW u \in Tasks, TaskEnds(u) \/ Abort(u) PROVE FALSE
    BY <2>2, <2>5 DEF LimitTypeOK, TaskEnds, Abort
  <2>6. CASE UNCHANGED limitVars
    BY <2>2, <2>6 DEF limitVars
  <2> QED
    BY <1>1, <2>3, <2>4, <2>5, <2>6 DEF LimitNext
<1>2. LimitInv /\ [LimitNext]_limitVars => [InOrder]_limitVars
  BY <1>1
<1> HIDE DEF InOrder
<1>3. LimitSpec => [][InOrder]_limitVars
  BY <1>2, LimitHolds, PTL DEF LimitSpec
<1> QED
  BY <1>3 DEF StartsInOrder, InOrder

(***************************************************************************)
(* The activity of a thread                                                *)
(***************************************************************************)
Types ==
    /\ version \in [Activities -> Versions]
    /\ rows \in [Activities -> Versions]
    /\ mine \subseteq Activities /\ entries \subseteq Activities
    /\ stamp \in Nat
    /\ cache \in Details \cup {None}
    /\ reader \in [Readers -> Details \cup {None}]

\* As long as no write failed, what is not in the buffer is in the rows.
WriterInv ==
    /\ turn = "quiet" => ~flushTimer
    /\ ~poisoned => \A a \in mine \ entries : rows[a] = version[a]

\* A detail carries the key it was built under; the key changes with the turn, and
\* between turns no row does.
Known(d) ==
    d # None => d.stamp <= stamp /\ (turn = "quiet" /\ d.stamp = stamp => d.rows = rows)

ReadInv == Known(cache) /\ \A r \in Readers : Known(reader[r])

ActivityInv == Types /\ WriterInv /\ CompletedTurnIsPersisted /\ ReadInv

-----------------------------------------------------------------------------
(* Steps *)

\* Lemma: rows after a flush that went through.
LEMMA FlushedRows ==
    ASSUME Types, NEW due \in SUBSET Activities,
           version' \in [Activities -> Versions],
           Flushed(due)
    PROVE  /\ rows' \in [Activities -> Versions]
           /\ \A a \in Activities : rows'[a] = IF a \in due THEN version'[a] ELSE rows[a]
           /\ poisoned' = poisoned /\ ~poisoned
           /\ cache' \in {None, cache}
           /\ rows' # rows => cache' = None
  BY DEF Types, Flushed

\* Lemma: the turn changes, and with it the key: every detail built before is old.
LEMMA NewStamp ==
    ASSUME Types, ReadInv, stamp' = stamp + 1, cache' = None, UNCHANGED reader
    PROVE  stamp' \in Nat /\ ReadInv'
  BY DEF Types, ReadInv, Known, Details

\* Lemma: while a turn works or stops, rows may change under the readers.
LEMMA WorkingReads ==
    ASSUME Types, ReadInv, turn' # "quiet", UNCHANGED <<stamp, reader>>,
           cache' \in {None, cache}
    PROVE  ReadInv'
  BY DEF Types, ReadInv, Known

\* The initial state satisfies the invariant of the activities.
LEMMA InitInv == Init => ActivityInv
  <1> SUFFICES ASSUME Init
               PROVE  ActivityInv
    OBVIOUS
  <1>1. Types
    BY ActivityAssumption DEF Init, Types, Versions
  <1>2. WriterInv /\ CompletedTurnIsPersisted
    BY DEF Init, WriterInv, CompletedTurnIsPersisted
  <1>3. ReadInv
    BY DEF Init, ReadInv, Known
  <1> QED
    BY <1>1, <1>2, <1>3 DEF ActivityInv

\* Lemma: an activity is projected.
LEMMA QueueKeeps ==
    ASSUME ActivityInv, NEW a \in Activities,
           Queue(a) \/ QueueTerminal(a)
    PROVE  ActivityInv'
  <1>1. /\ version' = [version EXCEPT ![a] = @ + 1]
        /\ version' \in [Activities -> Versions]
        /\ \A b \in Activities \ {a} : version'[b] = version[b]
        /\ mine' = mine \cup {a} /\ mine' \subseteq Activities
        /\ turn = "working" /\ UNCHANGED <<turn, stamp, reader>>
    BY ActivityAssumption DEF Queue, QueueTerminal, ActivityInv, Types, Versions, turnVars
  <1>2. CASE Queue(a)
    <2>1. /\ entries' = entries \cup {a} /\ entries' \subseteq Activities
          /\ UNCHANGED <<rows, poisoned, cache>>
      BY <1>2 DEF Queue, ActivityInv, Types
    <2>2. Types'
      BY <1>1, <2>1 DEF ActivityInv, Types
    <2>3. WriterInv' /\ CompletedTurnIsPersisted'
      BY <1>1, <2>1 DEF ActivityInv, Types, WriterInv, CompletedTurnIsPersisted
    <2> QED
      BY <1>1, <2>1, <2>2, <2>3, WorkingReads DEF ActivityInv
  <1>3. CASE QueueTerminal(a)
    <2>1. entries' = entries \ {a} /\ entries \cup {a} \in SUBSET Activities
      BY <1>3 DEF QueueTerminal, ActivityInv, Types
    <2>2. CASE Flushed(entries \cup {a})
      <3>1. /\ rows' \in [Activities -> Versions]
            /\ \A b \in Activities : rows'[b] = IF b \in entries \cup {a} THEN version'[b] ELSE rows[b]
            /\ poisoned' = poisoned /\ ~poisoned
            /\ cache' \in {None, cache}
        BY <1>1, <2>1, <2>2, FlushedRows DEF ActivityInv
      <3>2. Types'
        BY <1>1, <2>1, <3>1 DEF ActivityInv, Types
      <3>3. WriterInv' /\ CompletedTurnIsPersisted'
        BY <1>1, <2>1, <3>1 DEF ActivityInv, Types, WriterInv,
           CompletedTurnIsPersisted
      <3> QED
        BY <1>1, <3>1, <3>2, <3>3, WorkingReads DEF ActivityInv
    <2>3. CASE Rejected(entries \cup {a})
      <3>1. poisoned' /\ UNCHANGED <<rows, cache>>
        BY <2>3 DEF Rejected
      <3>2. Types'
        BY <1>1, <2>1, <3>1 DEF ActivityInv, Types
      <3> QED
        BY <1>1, <3>1, <3>2, WorkingReads DEF ActivityInv, WriterInv,
           CompletedTurnIsPersisted
    <2> QED
      BY <1>3, <2>2, <2>3 DEF QueueTerminal
  <1> QED
    BY <1>2, <1>3

\* Lemma: the timer flushes some entries.
LEMMA TimerKeeps ==
    ASSUME ActivityInv, NEW waiting \in SUBSET Activities,
           FlushTimerFires(waiting)
    PROVE  ActivityInv'
  <1>1. /\ turn # "quiet" /\ UNCHANGED <<version, mine, entries, turn, stamp, reader>>
        /\ entries \ waiting \in SUBSET Activities /\ version' \in [Activities -> Versions]
    BY DEF FlushTimerFires, ActivityInv, WriterInv, Types, turnVars
  <1>2. CASE Flushed(entries \ waiting)
    <2>1. /\ rows' \in [Activities -> Versions]
          /\ \A b \in Activities : rows'[b] = IF b \in entries \ waiting THEN version'[b] ELSE rows[b]
          /\ poisoned' = poisoned /\ ~poisoned
          /\ cache' \in {None, cache}
      BY <1>1, <1>2, FlushedRows DEF ActivityInv
    <2>2. Types'
      BY <1>1, <2>1 DEF ActivityInv, Types
    <2>3. WriterInv' /\ CompletedTurnIsPersisted'
      BY <1>1, <2>1 DEF ActivityInv, Types, WriterInv, CompletedTurnIsPersisted
    <2> QED
      BY <1>1, <2>1, <2>2, <2>3, WorkingReads DEF ActivityInv
  <1>3. CASE Rejected(entries \ waiting)
    <2>1. poisoned' /\ UNCHANGED <<rows, cache>>
      BY <1>3 DEF Rejected
    <2>2. Types'
      BY <1>1, <2>1 DEF ActivityInv, Types
    <2> QED
      BY <1>1, <2>1, <2>2, WorkingReads DEF ActivityInv, WriterInv,
         CompletedTurnIsPersisted
  <1> QED
    BY <1>2, <1>3 DEF FlushTimerFires

\* Lemma: a turn starts, is stopped, or settles.
LEMMA TurnKeeps ==
    ASSUME ActivityInv,
           StartTurn \/ Stop \/ \E result \in {"ran", "stopped",
           "failed"} : Settle(result)
    PROVE  ActivityInv'
  <1>1. stamp' = stamp + 1 /\ cache' = None /\ UNCHANGED <<version, reader>>
    BY DEF StartTurn, Stop, Settle, StatusChanges,
           writerVars
  <1>2. stamp' \in Nat /\ ReadInv'
    BY <1>1, NewStamp DEF ActivityInv
  <1>3. CASE StartTurn
    BY <1>1, <1>2, <1>3
       DEF StartTurn, StatusChanges, ActivityInv, Types, WriterInv,
           CompletedTurnIsPersisted
  <1>4. CASE Stop
    BY <1>1, <1>2, <1>4
       DEF Stop, StatusChanges, writerVars, ActivityInv,
           Types, WriterInv, CompletedTurnIsPersisted
  <1>5. ASSUME NEW result \in {"ran", "stopped", "failed"}, Settle(result)
        PROVE  ActivityInv'
    <2>1. /\ outcome' = result /\ turn' = "quiet" /\ ~flushTimer' /\ UNCHANGED <<mine, entries>>
      BY <1>5 DEF Settle
    <2>2. CASE /\ ~poisoned /\ UNCHANGED poisoned
               /\ rows' = [a \in Activities |-> IF a \in entries THEN version[a] ELSE rows[a]]
      <3>1. /\ rows' \in [Activities -> Versions]
            /\ \A a \in mine : rows'[a] = version[a]
        BY <2>2 DEF ActivityInv, Types, WriterInv
      <3> QED
        BY <1>1, <1>2, <2>1, <3>1 DEF ActivityInv, Types, WriterInv,
           CompletedTurnIsPersisted
    <2>3. CASE result # "ran" /\ poisoned' /\ UNCHANGED rows
      BY <1>1, <1>2, <2>1, <2>3 DEF ActivityInv, Types, WriterInv,
         CompletedTurnIsPersisted
    <2> QED
      BY <1>5, <2>2, <2>3 DEF Settle
  <1> QED
    BY <1>3, <1>4, <1>5

\* Lemma: a reader builds a detail, and caches it later.
LEMMA ReadsKeep ==
    ASSUME ActivityInv, NEW r \in Readers,
           ReadBegins(r) \/ ReadEnds(r)
    PROVE  ActivityInv'
  <1>1. /\ UNCHANGED <<turnVars, writerVars>>
        /\ WriterInv' /\ CompletedTurnIsPersisted'
    BY DEF ReadBegins, ReadEnds, turnVars,
           writerVars, ActivityInv, WriterInv,
           CompletedTurnIsPersisted
  <1>2. CASE ReadBegins(r)
    <2> DEFINE d == [stamp |-> stamp, rows |-> rows]
    <2>1. d \in Details /\ d.stamp = stamp /\ d.rows = rows
      BY DEF ActivityInv, Types, Details
    <2>2. reader' = [reader EXCEPT ![r] = d] /\ UNCHANGED cache
      BY <1>2 DEF ReadBegins
    <2> HIDE DEF d
    <2>3. Types'
      BY <1>1, <2>1, <2>2 DEF ActivityInv, Types, turnVars, writerVars
    <2>4. ReadInv'
      BY <1>1, <2>1, <2>2 DEF ActivityInv, Types, ReadInv, Known, turnVars,
         writerVars
    <2> QED
      BY <1>1, <2>3, <2>4 DEF ActivityInv
  <1>3. CASE ReadEnds(r)
    <2>1. cache' = reader[r] /\ reader' = [reader EXCEPT ![r] = None]
      BY <1>3 DEF ReadEnds
    <2>2. Types'
      BY <1>1, <2>1 DEF ActivityInv, Types, turnVars, writerVars
    <2>3. ReadInv'
      BY <1>1, <2>1 DEF ActivityInv, Types, ReadInv, Known, turnVars,
         writerVars
    <2> QED
      BY <1>1, <2>2, <2>3 DEF ActivityInv
  <1> QED
    BY <1>2, <1>3

\* Every step keeps the invariant of the activities.
LEMMA NextInv == ActivityInv /\ [Next]_vars => ActivityInv'
  <1>1. ActivityInv /\ UNCHANGED vars => ActivityInv'
    BY DEF vars, turnVars, writerVars, ActivityInv, Types,
           WriterInv, CompletedTurnIsPersisted,
           ReadInv, Known
  <1> QED
    BY <1>1, QueueKeeps, TimerKeeps, TurnKeeps, ReadsKeep DEF Next

-----------------------------------------------------------------------------
\* Theorem: a turn on record as completed lost nothing, whatever flushes failed
\* (enqueueFlush and the flushAll of runThreadMessageInBackground).
THEOREM CompletedTurnsLoseNothing == Spec => []CompletedTurnIsPersisted
  <1>1. ActivityInv => CompletedTurnIsPersisted
    BY DEF ActivityInv
  <1> QED
    BY <1>1, InitInv, NextInv, PTL DEF Spec

\* Theorem: between turns a cached detail that is served shows the rows, although
\* reads fill the cache late (cacheIsFresh).
THEOREM SettledDetailsAreFresh == Spec => []SettledReadsAreFresh
  <1>1. ActivityInv => SettledReadsAreFresh
    BY DEF ActivityInv, ReadInv, Known, SettledReadsAreFresh,
           CacheIsFresh
  <1> QED
    BY <1>1, InitInv, NextInv, PTL DEF Spec
=============================================================================
