----------------------------- MODULE RpcProofs -----------------------------
(***************************************************************************)
(* Theorems about Rpc.                                                     *)
(*                                                                         *)
(* A call goes out once, when it gets its permit, and from then on it is   *)
(* in at most one place on one connection: its request under way, pending  *)
(* at the backend, or its response under way.  So no request is registered *)
(* twice, and what the backend subtracts it has added once.                *)
(***************************************************************************)
EXTENDS Rpc, SequenceCounts

\* A call that was not sent.
Unsent == {"idle", "waiting", "stranded", "queued"}

Answers(c) == {r \in Responses : r.call = c}

Has(seq, x) == \E i \in 1..Len(seq) : seq[i] = x

\* Where a call is on the connection with these frames up, these pending and
\* these frames down.
PlacesIn(frames, pending, responses, c) ==
    CountOf(frames, {Request(c)}) + (IF c \in pending THEN 1 ELSE 0)
      + CountOf(responses, Answers(c))

PlacesOn(s, c) == PlacesIn(up[s], pendingRequests[s], down[s], c)

\* The pending requests of the connections.
PairsOf(pending) == {x \in Sockets \X Calls : x[2] \in pending[x[1]]}

\* The backend counts what it has.
BackendFits ==
    /\ IsFiniteSet(PairsOf(pendingRequests)) /\ pendingRequestCount = Cardinality(PairsOf(pendingRequests))
    /\ \A s \in Sockets : client[s] # "open" => pendingRequests[s] = {}

\* The page has given out as many permits as calls are pending, and its queue holds
\* each queued call once.
PermitsFit ==
    /\ IsFiniteSet(In("pending")) /\ activeCount = Cardinality(In("pending"))
    /\ queue # <<>> => activeCount = MaxInFlight
    /\ \A i, j \in 1..Len(queue) : queue[i] = queue[j] => i = j
    /\ \A c \in Calls : phase[c] = "queued" <=> Has(queue, c)

\* A connection a call was given has been open on both ends.
SocketsFit ==
    /\ \A s \in Sockets : readyState[s] = "open" => client[s] # "unused"
    /\ \A c \in Calls : phase[c] \in {"queued", "pending"} => socketOf[c] \in Sockets
    /\ \A c \in Calls, s \in Sockets : socketOf[c] = s =>
          readyState[s] \in {"open", "closing", "closed"} /\ client[s] # "unused"

\* No call is in two places, and one that was not sent is in none; a call is
\* cancelled when it was given up.
PlacesFit ==
    /\ \A s \in Sockets, c \in Calls :
          /\ PlacesOn(s, c) <= 1
          /\ phase[c] \in Unsent => PlacesOn(s, c) = 0
    /\ \A s \in Sockets, c \in Calls : Has(up[s], Cancel(c)) => phase[c] \in Settled

\* A live call has not been lost.
LiveFit ==
    \A c \in Calls : phase[c] = "pending" /\ socketOf[c] = socket /\ Open(socket)
                     /\ client[socket] = "open" => PlacesOn(socket, c) = 1

RpcInv == TypeOK /\ BackendFits /\ PermitsFit /\ SocketsFit /\ PlacesFit /\ LiveFit

-----------------------------------------------------------------------------
(* The queue of the page *)

\* Each call is in the queue once.
QueueFits == queue \in Seq(Calls) /\ \A i, j \in 1..Len(queue) : queue[i] = queue[j] => i = j

\* Lemma: taking calls out of the queue leaves the others.
LEMMA WithoutFacts ==
    ASSUME QueueFits, NEW calls, NEW rest, rest = Without(calls)
    PROVE  /\ rest \in Seq(Calls)
           /\ \A i, j \in 1..Len(rest) : rest[i] = rest[j] => i = j
           /\ \A c \in Calls : Has(rest, c) <=> c \notin calls /\ Has(queue, c)
  <1> DEFINE kept == {i \in 1..Len(queue) : queue[i] \notin calls}
             size == Cardinality(kept)
             place(n) == CHOOSE i \in kept : Cardinality({j \in kept : j < i}) = n - 1
  <1>1. queue \in Seq(Calls) /\ Len(queue) \in Nat /\ DOMAIN queue = 1..Len(queue)
        /\ \A i \in 1..Len(queue) : queue[i] \in Calls
    BY DEF QueueFits
  <1>2. rest = [n \in 1..size |-> queue[place(n)]]
    BY <1>1 DEF Without
  <1>3. kept \subseteq Nat /\ IsFiniteSet(kept)
    <2>1. IsFiniteSet(1..Len(queue)) /\ kept \in SUBSET (1..Len(queue))
      BY <1>1, FS_Interval
    <2> QED
      BY <1>1, <2>1, FS_Subset
  <1> HIDE DEF kept
  <1>4. OrdersAll(kept, NumberOrder)
        /\ \A i \in kept : Rank(kept, NumberOrder, i) = Cardinality({j \in kept : j < i})
    BY <1>3, NumbersInLine DEF Rank
  <1>5. /\ size \in Nat
        /\ \A i \in kept : Rank(kept, NumberOrder, i) \in 0..(size - 1)
        /\ \A i, j \in kept : Rank(kept, NumberOrder, i) = Rank(kept, NumberOrder, j) => i = j
        /\ \A n \in 0..(size - 1) : \E i \in kept : Rank(kept, NumberOrder, i) = n
    <2>1. IsFiniteSet(kept) /\ OrdersAll(kept, NumberOrder)
      BY <1>3, <1>4
    <2> HIDE DEF kept
    <2> QED
      BY <2>1, Ranks
  <1> HIDE DEF size
  <1>6. ASSUME NEW n \in 1..size
        PROVE  place(n) \in kept /\ Rank(kept, NumberOrder, place(n)) = n - 1
    <2>1. n - 1 \in 0..(size - 1)
      BY <1>5
    <2>2. \E i \in kept : Cardinality({j \in kept : j < i}) = n - 1
      BY <1>4, <1>5, <2>1
    <2>3. place(n) \in kept /\ Cardinality({j \in kept : j < place(n)}) = n - 1
      BY <2>2
    <2> QED
      BY <1>4, <2>3
  <1> HIDE DEF place
  <1>7. \A i \in kept : i \in 1..Len(queue) /\ queue[i] \in Calls /\ queue[i] \notin calls
    BY <1>1 DEF kept
  <1>8. rest \in Seq(Calls) /\ Len(rest) = size
    <2>1. \A n \in 1..size : queue[place(n)] \in Calls
      BY <1>6, <1>7
    <2>2. rest \in [1..size -> Calls]
      BY <1>2, <2>1
    <2> QED
      BY <1>5, <2>2
  <1>9. \A n \in 1..size : rest[n] = queue[place(n)]
    BY <1>2
  <1>10. ASSUME NEW i \in 1..Len(rest), NEW j \in 1..Len(rest), rest[i] = rest[j]
         PROVE  i = j
    <2>1. place(i) = place(j)
      BY <1>6, <1>7, <1>8, <1>9, <1>10 DEF QueueFits
    <2>2. i - 1 = j - 1
      BY <1>6, <1>8, <2>1
    <2> QED
      BY <1>5, <1>8, <2>2
  <1>11. ASSUME NEW c \in Calls, c \notin calls, Has(queue, c)
         PROVE  Has(rest, c)
    <2>1. PICK i \in 1..Len(queue) : queue[i] = c
      BY <1>11 DEF Has
    <2>2. i \in kept
      BY <1>11, <2>1 DEF kept
    <2>3. PICK n : n = Rank(kept, NumberOrder, i) + 1
      OBVIOUS
    <2>4. n \in 1..size /\ Rank(kept, NumberOrder, i) = n - 1
      BY <1>5, <2>2, <2>3
    <2>5. place(n) = i
      BY <1>5, <1>6, <2>2, <2>4
    <2> QED
      BY <1>8, <1>9, <2>1, <2>4, <2>5 DEF Has
  <1>12. ASSUME NEW c \in Calls, Has(rest, c)
         PROVE  c \notin calls /\ Has(queue, c)
    BY <1>6, <1>7, <1>8, <1>9, <1>12 DEF Has
  <1> QED
    BY <1>8, <1>10, <1>11, <1>12

\* The order of the drain, as a relation between positions.
DrainOrder == {x \in (1..Len(queue)) \X (1..Len(queue)) : Precedes(x[1], x[2])}

\* Lemma: by priority and then by arrival, the queue is one line.
LEMMA DrainsInLine == QueueFits => OrdersAll(1..Len(queue), DrainOrder)
  <1> SUFFICES ASSUME QueueFits PROVE OrdersAll(1..Len(queue), DrainOrder)
    OBVIOUS
  <1>1. Len(queue) \in Nat /\ \A i \in 1..Len(queue) : Priority[queue[i]] \in Nat
    BY ClientAssumption DEF QueueFits
  <1>2. PICK p : p = [i \in 1..Len(queue) |-> Priority[queue[i]]]
    OBVIOUS
  <1>3. \A i, j \in 1..Len(queue) : <<i, j>> \in DrainOrder <=> (p[i] > p[j] \/ (p[i] = p[j] /\ i < j))
    BY <1>2 DEF DrainOrder, Precedes
  <1>4. \A i \in 1..Len(queue) : p[i] \in Nat /\ i \in Nat
    BY <1>1, <1>2
  <1>5. \A i, j \in 1..Len(queue) : i # j => <<i, j>> \in DrainOrder \/ <<j, i>> \in DrainOrder
    BY <1>3, <1>4
  <1>6. \A i \in 1..Len(queue) : <<i, i>> \notin DrainOrder
    BY <1>3, <1>4
  <1>7. ASSUME NEW i \in 1..Len(queue), NEW j \in 1..Len(queue), NEW k \in 1..Len(queue),
               <<i, j>> \in DrainOrder, <<j, k>> \in DrainOrder
        PROVE  <<i, k>> \in DrainOrder
    BY <1>3, <1>4, <1>7
  <1> QED
    BY <1>5, <1>6, <1>7 DEF OrdersAll

\* Lemma: n freed permits go to n calls of the queue, or to all of them.
LEMMA GrantedFacts ==
    ASSUME QueueFits, NEW n \in Nat, NEW next, next = Granted(n)
    PROVE  /\ next \subseteq Calls /\ \A c \in next : Has(queue, c)
           /\ IsFiniteSet(next) /\ Cardinality(next) \in Nat
           /\ Cardinality(next) <= n /\ Cardinality(next) <= Len(queue)
           /\ Cardinality(next) # n => \A c \in Calls : Has(queue, c) => c \in next
  <1> DEFINE K == 1..Len(queue)
             First == {i \in K : Rank(K, DrainOrder, i) < n}
  <1>1. Len(queue) \in Nat /\ DOMAIN queue = K /\ \A i \in K : queue[i] \in Calls
    BY DEF QueueFits
  <1>2. IsFiniteSet(K) /\ Cardinality(K) = Len(queue)
    <2>1. 1 \in Int /\ Len(queue) \in Int
      BY <1>1
    <2>2. IsFiniteSet(K) /\ Cardinality(K) = IF 1 > Len(queue) THEN 0 ELSE Len(queue) - 1 + 1
      BY <2>1, FS_Interval
    <2> HIDE DEF K
    <2> QED
      BY <1>1, <2>2
  <1>3. OrdersAll(K, DrainOrder)
    BY DrainsInLine
  <1>4. \A j \in K : {k \in K : Precedes(k, j)} = Before(K, DrainOrder, j)
    BY DEF Before, DrainOrder
  <1>5. next = {queue[i] : i \in First}
    BY <1>1, <1>4 DEF Granted, Rank
  <1>6. /\ IsFiniteSet(First)
        /\ n <= Len(queue) => Cardinality(First) = n
        /\ n >= Len(queue) => First = K
    BY <1>2, <1>3, FirstInLine
  <1>7. IsFiniteSet(next) /\ Cardinality(next) = Cardinality(First)
    <2> DEFINE at == [i \in First |-> queue[i]]
    <2>1. at \in [First -> next] /\ (\A c \in next : \E i \in First : at[i] = c)
          /\ \A i, j \in First : at[i] = at[j] => i = j
      BY <1>5 DEF QueueFits
    <2> HIDE DEF at, First
    <2>2. at \in Bijection(First, next)
      BY <2>1 DEF Bijection, Injection, Surjection, IsInjective
    <2> QED
      BY <1>6, <2>2, FS_Bijection DEF ExistsBijection
  <1>8. Cardinality(First) \in Nat /\ Cardinality(First) <= Len(queue)
    <2>1. First \in SUBSET K
      OBVIOUS
    <2> HIDE DEF First, K
    <2> QED
      BY <1>2, <1>6, <2>1, FS_Subset, FS_CardinalityType
  <1>9. Cardinality(next) # n => First = K
    BY <1>1, <1>6, <1>7
  <1>10. next \subseteq Calls /\ \A c \in next : Has(queue, c)
    BY <1>1, <1>5 DEF Has
  <1>11. First = K => \A c \in Calls : Has(queue, c) => c \in next
    BY <1>5 DEF Has
  <1>12. Cardinality(next) <= n
    <2>1. CASE n <= Len(queue)
      BY <1>6, <1>7, <2>1
    <2>2. CASE n > Len(queue)
      BY <1>1, <1>7, <1>8, <2>2
    <2> QED
      BY <1>1, <2>1, <2>2
  <1> QED
    BY <1>7, <1>8, <1>9, <1>10, <1>11, <1>12

-----------------------------------------------------------------------------
(* Frames *)

\* Lemma: frames of different calls differ.
LEMMA FrameFacts ==
    /\ \A c \in Calls : Request(c) \in Requests /\ Cancel(c) \in Requests
    /\ \A c, d : Request(c) = Request(d) => c = d
    /\ \A c, d : Cancel(c) = Cancel(d) => c = d
    /\ \A c, d : Request(c) # Cancel(d)
    /\ \A r \in Responses : r.call \in Calls /\ r.kind \in Kinds
    /\ \A c \in Calls, k \in Kinds : [call |-> c, kind |-> k] \in Responses
    /\ \A c \in Calls, d \in Calls, k \in Kinds : [call |-> c, kind |-> k] \in Answers(d) <=> c = d
  <1>1. \A c \in Calls : Request(c) \in Requests /\ Cancel(c) \in Requests
    BY Zenon DEF Request, Cancel, Requests
  <1>2. \A c : Request(c).call = c /\ Cancel(c).call = c
        /\ Request(c).type = "request" /\ Cancel(c).type = "cancel"
    BY DEF Request, Cancel
  <1>3. \A r \in Responses : r.call \in Calls /\ r.kind \in Kinds
    BY Zenon DEF Responses
  <1>4. \A c \in Calls, k \in Kinds : [call |-> c, kind |-> k] \in Responses
    BY Zenon DEF Responses
  <1>5. \A c \in Calls, d \in Calls, k \in Kinds : [call |-> c, kind |-> k] \in Answers(d) <=> c = d
    BY <1>4 DEF Answers
  <1>6. \A c, d : Request(c) = Request(d) => c = d
    BY <1>2
  <1>7. \A c, d : Cancel(c) = Cancel(d) => c = d
    BY <1>2
  <1>8. \A c, d : Request(c) # Cancel(d)
    BY <1>2
  <1> QED
    BY <1>1, <1>3, <1>4, <1>5, <1>6, <1>7, <1>8

\* Lemma: a frame is read.
LEMMA TakenFrame ==
    ASSUME NEW frames \in Seq(Requests), frames # <<>>
    PROVE  /\ Tail(frames) \in Seq(Requests)
           /\ \A c \in Calls : CountOf(frames, {Request(c)}) = CountOf(Tail(frames), {Request(c)})
                                 + (IF Head(frames) = Request(c) THEN 1 ELSE 0)
           /\ \A x : Has(Tail(frames), x) => Has(frames, x)
           /\ Has(frames, Head(frames))
  <1>1. Tail(frames) \in Seq(Requests)
    OBVIOUS
  <1>2. \A c \in Calls : CountOf(frames, {Request(c)}) = CountOf(Tail(frames), {Request(c)})
                                 + (IF Head(frames) = Request(c) THEN 1 ELSE 0)
    BY CountTail
  <1>3. /\ Len(frames) \in Nat /\ Len(frames) # 0 /\ Len(Tail(frames)) = Len(frames) - 1
        /\ \A i \in 1..Len(Tail(frames)) : Tail(frames)[i] = frames[i + 1]
        /\ Head(frames) = frames[1]
    OBVIOUS
  <1>4. \A i \in 1..Len(Tail(frames)) : i + 1 \in 1..Len(frames)
    BY <1>3
  <1>5. 1 \in 1..Len(frames)
    BY <1>3
  <1> QED
    BY <1>1, <1>2, <1>3, <1>4, <1>5 DEF Has

\* Lemma: a frame is sent.
LEMMA AppendedFrame ==
    ASSUME NEW frames \in Seq(Requests), NEW frame \in Requests
    PROVE  /\ Append(frames, frame) \in Seq(Requests)
           /\ \A c \in Calls : CountOf(Append(frames, frame), {Request(c)}) =
                 CountOf(frames, {Request(c)}) + (IF frame = Request(c) THEN 1 ELSE 0)
           /\ \A x : Has(Append(frames, frame), x) => Has(frames, x) \/ x = frame
  <1>1. Append(frames, frame) \in Seq(Requests)
    OBVIOUS
  <1>2. \A c \in Calls : CountOf(Append(frames, frame), {Request(c)}) =
                 CountOf(frames, {Request(c)}) + (IF frame = Request(c) THEN 1 ELSE 0)
    BY CountAppend
  <1>3. /\ Len(frames) \in Nat /\ Len(Append(frames, frame)) = Len(frames) + 1
        /\ \A i \in 1..Len(frames) : Append(frames, frame)[i] = frames[i]
        /\ Append(frames, frame)[Len(frames) + 1] = frame
    OBVIOUS
  <1>4. \A i \in 1..(Len(frames) + 1) : i \in 1..Len(frames) \/ i = Len(frames) + 1
    BY <1>3
  <1> QED
    BY <1>1, <1>2, <1>3, <1>4 DEF Has

\* Lemma: a response is sent.
LEMMA AppendedResponse ==
    ASSUME NEW responses \in Seq(Responses), NEW c \in Calls, NEW k \in Kinds,
           NEW r, r = [call |-> c, kind |-> k]
    PROVE  /\ Append(responses, r) \in Seq(Responses)
           /\ \A d \in Calls : CountOf(Append(responses, r), Answers(d)) =
                 CountOf(responses, Answers(d)) + (IF c = d THEN 1 ELSE 0)
  <1>1. r \in Responses /\ \A d \in Calls : r \in Answers(d) <=> c = d
    BY FrameFacts
  <1> QED
    BY <1>1, CountAppend

\* Lemma: a response is heard.
LEMMA TakenResponse ==
    ASSUME NEW responses \in Seq(Responses), responses # <<>>
    PROVE  /\ Tail(responses) \in Seq(Responses) /\ Head(responses) \in Responses
           /\ \A d \in Calls : CountOf(responses, Answers(d)) = CountOf(Tail(responses), Answers(d))
                 + (IF Head(responses).call = d THEN 1 ELSE 0)
  <1>1. Tail(responses) \in Seq(Responses) /\ Head(responses) \in Responses
    OBVIOUS
  <1>2. \A d \in Calls : Head(responses) \in Answers(d) <=> Head(responses).call = d
    BY <1>1 DEF Answers
  <1> QED
    BY <1>1, <1>2, CountTail

\* Lemma: SetToSeq puts each member of a finite set in the sequence once.
LEMMA SetToSeqFacts ==
    ASSUME NEW S, IsFiniteSet(S), NEW seq, seq = SetToSeq(S)
    PROVE  /\ seq \in Seq(S)
           /\ \A i, j \in 1..Len(seq) : seq[i] = seq[j] => i = j
           /\ \A x : Has(seq, x) <=> x \in S
  <1>1. PICK n \in Nat : n = Cardinality(S)
    BY FS_CardinalityType
  <1>2. ExistsBijection(1..n, S)
    BY <1>1, FS_CardinalityType
  <1>3. PICK f \in Bijection(1..n, S) : TRUE
    BY <1>2 DEF ExistsBijection
  <1>4. f \in [1..n -> S] /\ IsInjective(f)
    BY <1>3 DEF Bijection, Injection
  <1>5. seq \in [1..n -> S] /\ IsInjective(seq)
    BY <1>1, <1>4 DEF SetToSeq
  <1>6. IsFiniteSet(1..n) /\ Cardinality(1..n) = n
    <2>1. 1 \in Int /\ n \in Int
      OBVIOUS
    <2>2. IsFiniteSet(1..n) /\ Cardinality(1..n) = IF 1 > n THEN 0 ELSE n - 1 + 1
      BY <2>1, FS_Interval
    <2>3. (IF 1 > n THEN 0 ELSE n - 1 + 1) = n
      OBVIOUS
    <2> QED
      BY <2>2, <2>3
  <1>7. seq \in Injection(1..n, S)
    BY <1>5 DEF Injection
  <1>8. seq \in Surjection(1..n, S)
    BY <1>1, <1>6, <1>7, FS_Injection
  <1>9. seq \in Seq(S) /\ Len(seq) = n
    BY <1>5
  <1>10. \A i, j \in 1..n : seq[i] = seq[j] => i = j
    BY <1>5 DEF IsInjective
  <1>11. \A x : Has(seq, x) <=> x \in S
    BY <1>5, <1>8, <1>9 DEF Has, Surjection
  <1> QED
    BY <1>9, <1>10, <1>11

\* The frames out are those before and the requests of these calls.
Carries(out, frames, calls, states) ==
    /\ out \in [Sockets -> Seq(Requests)]
    /\ \A s \in Sockets, c \in Calls :
          /\ CountOf(out[s], {Request(c)}) = CountOf(frames[s], {Request(c)})
               + (IF states[s] = "open" /\ c \in calls /\ socketOf[c] = s THEN 1 ELSE 0)
          /\ Has(out[s], Cancel(c)) => Has(frames[s], Cancel(c))

\* Lemma: the requests of the calls that got a permit go out, each once and on its
\* socket, if that is open.
LEMMA SentFacts ==
    ASSUME NEW frames \in [Sockets -> Seq(Requests)], NEW calls, calls \subseteq Calls,
           IsFiniteSet(calls), NEW states, NEW out, out = Sent(frames, calls, states)
    PROVE  Carries(out, frames, calls, states)
  <1>1. ASSUME NEW s \in Sockets
        PROVE  /\ out[s] \in Seq(Requests)
               /\ \A c \in Calls :
                     /\ CountOf(out[s], {Request(c)}) = CountOf(frames[s], {Request(c)})
                          + (IF states[s] = "open" /\ c \in calls /\ socketOf[c] = s THEN 1 ELSE 0)
                     /\ Has(out[s], Cancel(c)) => Has(frames[s], Cancel(c))
    <2>1. frames[s] \in Seq(Requests) /\ \A c \in Calls : CountOf(frames[s], {Request(c)}) \in Nat
      BY CountType
    <2>2. CASE states[s] # "open"
      <3>1. out[s] = frames[s]
        BY <2>2 DEF Sent
      <3>2. ASSUME NEW c \in Calls, NEW n \in Nat, n = CountOf(frames[s], {Request(c)})
            PROVE  n = n + (IF states[s] = "open" /\ c \in calls /\ socketOf[c] = s THEN 1 ELSE 0)
        BY <2>2
      <3> QED
        BY <2>1, <3>1, <3>2
    <2>3. CASE states[s] = "open"
      <3> DEFINE mine == {d \in calls : socketOf[d] = s}
                 R == {Request(c) : c \in mine}
      <3>1. IsFiniteSet(mine)
        BY FS_Subset
      <3>2. IsFiniteSet(R)
        <4> DEFINE f == [c \in mine |-> Request(c)]
        <4>1. f \in Surjection(mine, R)
          BY DEF Surjection
        <4> HIDE DEF f, R, mine
        <4> QED
          BY <3>1, <4>1, FS_Surjection
      <3>3. PICK seq : seq = SetToSeq(R)
        OBVIOUS
      <3>4. out[s] = frames[s] \o seq
        BY <2>3, <3>3 DEF Sent
      <3>5. R \subseteq Requests
        BY FrameFacts
      <3>6. \A c \in Calls : (Request(c) \in R <=> c \in mine) /\ Cancel(c) \notin R
        BY FrameFacts
      <3> HIDE DEF R
      <3>7. /\ seq \in Seq(R) /\ \A i, j \in 1..Len(seq) : seq[i] = seq[j] => i = j
            /\ \A x : Has(seq, x) <=> x \in R
        BY <3>2, <3>3, SetToSeqFacts
      <3>8. seq \in Seq(Requests)
        BY <3>5, <3>7
      <3>9. out[s] \in Seq(Requests)
        BY <2>1, <3>4, <3>8
      <3>10. ASSUME NEW c \in Calls
             PROVE  CountOf(out[s], {Request(c)}) = CountOf(frames[s], {Request(c)})
                          + (IF c \in mine THEN 1 ELSE 0)
        <4>1. CountOf(seq, {Request(c)}) = IF Has(seq, Request(c)) THEN 1 ELSE 0
          BY <3>7, <3>8, CountOnce DEF Has
        <4>2. CountOf(out[s], {Request(c)})
                = CountOf(frames[s], {Request(c)}) + CountOf(seq, {Request(c)})
          BY <2>1, <3>4, <3>8, CountConcat
        <4> QED
          BY <3>6, <3>7, <4>1, <4>2
      <3>11. ASSUME NEW c \in Calls, Has(out[s], Cancel(c))
             PROVE  Has(frames[s], Cancel(c))
        <4>1. PICK i \in 1..Len(out[s]) : out[s][i] = Cancel(c)
          BY <3>11 DEF Has
        <4>2. \/ i \in 1..Len(frames[s]) /\ out[s][i] = frames[s][i]
              \/ i - Len(frames[s]) \in 1..Len(seq) /\ out[s][i] = seq[i - Len(frames[s])]
          BY <2>1, <3>4, <3>8
        <4> QED
          BY <3>6, <3>7, <4>1, <4>2 DEF Has
      <3> QED
        BY <2>3, <3>9, <3>10, <3>11
    <2> QED
      BY <2>2, <2>3
  <1>2. out \in [Sockets -> Seq(Requests)]
    <2>1. out = [s \in Sockets |-> out[s]]
      BY DEF Sent
    <2> QED
      BY <1>1, <2>1
  <1> QED
    BY <1>1, <1>2 DEF Carries

-----------------------------------------------------------------------------
(* What the backend counts *)

\* Lemma: a request is registered.
LEMMA PairAdded ==
    ASSUME NEW pending \in [Sockets -> SUBSET Calls], IsFiniteSet(PairsOf(pending)),
           NEW s \in Sockets, NEW c \in Calls, c \notin pending[s],
           NEW later, later \in [Sockets -> SUBSET Calls], later[s] = pending[s] \cup {c},
           \A q \in Sockets : q # s => later[q] = pending[q]
    PROVE  /\ IsFiniteSet(PairsOf(later))
           /\ Cardinality(PairsOf(later)) = Cardinality(PairsOf(pending)) + 1
  <1>1. <<s, c>> \notin PairsOf(pending)
    BY DEF PairsOf
  <1>2. PairsOf(later) = PairsOf(pending) \cup {<<s, c>>}
    BY DEF PairsOf
  <1>3. PICK P : P = PairsOf(pending)
    OBVIOUS
  <1>4. IsFiniteSet(P \cup {<<s, c>>})
        /\ Cardinality(P \cup {<<s, c>>}) = IF <<s, c>> \in P THEN Cardinality(P) ELSE Cardinality(P) + 1
    BY <1>3, FS_AddElement
  <1> QED
    BY <1>1, <1>2, <1>3, <1>4

\* Lemma: a request is removed.
LEMMA PairRemoved ==
    ASSUME NEW pending \in [Sockets -> SUBSET Calls], IsFiniteSet(PairsOf(pending)),
           NEW s \in Sockets, NEW c \in Calls, c \in pending[s],
           NEW later, later \in [Sockets -> SUBSET Calls], later[s] = pending[s] \ {c},
           \A q \in Sockets : q # s => later[q] = pending[q]
    PROVE  /\ IsFiniteSet(PairsOf(later))
           /\ Cardinality(PairsOf(later)) = Cardinality(PairsOf(pending)) - 1
  <1>1. <<s, c>> \in PairsOf(pending)
    BY DEF PairsOf
  <1>2. PairsOf(later) = PairsOf(pending) \ {<<s, c>>}
    BY DEF PairsOf
  <1> QED
    BY <1>1, <1>2, FS_RemoveElement

\* Lemma: all requests of a connection are removed.
LEMMA PairsClosed ==
    ASSUME NEW pending \in [Sockets -> SUBSET Calls], IsFiniteSet(PairsOf(pending)),
           NEW s \in Sockets, NEW later, later = [pending EXCEPT ![s] = {}]
    PROVE  /\ later \in [Sockets -> SUBSET Calls] /\ IsFiniteSet(PairsOf(later))
           /\ Cardinality(PairsOf(later)) = Cardinality(PairsOf(pending)) - Cardinality(pending[s])
  <1> DEFINE mine == {x \in PairsOf(pending) : x[1] = s}
  <1>1. later \in [Sockets -> SUBSET Calls]
    OBVIOUS
  <1>2. PairsOf(later) = PairsOf(pending) \ mine
    BY DEF PairsOf
  <1>3. PairsOf(pending) \cap mine = mine
    OBVIOUS
  <1>4. IsFiniteSet(mine)
    BY FS_Subset
  <1>5. Cardinality(pending[s]) = Cardinality(mine)
    <2> DEFINE f == [x \in mine |-> x[2]]
    <2>1. f \in [mine -> pending[s]]
      BY DEF PairsOf
    <2>2. \A x, y \in mine : f[x] = f[y] => x = y
      BY DEF PairsOf
    <2>3. \A c \in pending[s] : \E x \in mine : f[x] = c
      <3> SUFFICES ASSUME NEW c \in pending[s] PROVE <<s, c>> \in mine /\ f[<<s, c>>] = c
        OBVIOUS
      <3>1. <<s, c>> \in mine
        BY DEF PairsOf
      <3> QED
        BY <3>1
    <2> HIDE DEF f, mine
    <2>4. f \in Bijection(mine, pending[s])
      BY <2>1, <2>2, <2>3 DEF Bijection, Injection, Surjection, IsInjective
    <2> QED
      BY <1>4, <2>4, FS_Bijection DEF ExistsBijection
  <1> HIDE DEF mine
  <1>6. IsFiniteSet(PairsOf(later))
        /\ Cardinality(PairsOf(later)) = Cardinality(PairsOf(pending)) - Cardinality(mine)
    BY <1>2, <1>3, FS_Difference
  <1> QED
    BY <1>1, <1>5, <1>6

-----------------------------------------------------------------------------
(* Where the calls are *)

\* Lemma: places are numbers.
LEMMA PlacesType ==
    ASSUME NEW frames \in Seq(Requests), NEW pending, NEW responses \in Seq(Responses), NEW c
    PROVE  /\ PlacesIn(frames, pending, responses, c) \in Nat
           /\ CountOf(frames, {Request(c)}) \in Nat /\ CountOf(responses, Answers(c)) \in Nat
           /\ c \in pending => PlacesIn(frames, pending, responses, c) >= 1
  BY CountType DEF PlacesIn

\* Call c is pending on the page's own connection, which stands.
Live(c) == /\ phase[c] = "pending" /\ socketOf[c] = socket
           /\ Open(socket) /\ client[socket] = "open"

\* A step that sends only calls that were not sent, and loses no live one.
MovesCalls ==
    /\ \A s \in Sockets, c \in Calls :
          \/ PlacesOn(s, c)' <= PlacesOn(s, c)
          \/ phase[c] \in Unsent /\ phase'[c] = "pending" /\ PlacesOn(s, c)' <= PlacesOn(s, c) + 1
    /\ \A c \in Calls : /\ phase'[c] \in Unsent => phase[c] \in Unsent
                        /\ phase[c] \in Settled => phase'[c] \in Settled
    /\ \A s \in Sockets, c \in Calls :
          Has(up'[s], Cancel(c)) => Has(up[s], Cancel(c)) \/ phase'[c] \in Settled
    /\ \A c \in Calls : Live(c)' =>
          \/ PlacesOn(socket, c)' = 1
          \/ Live(c) /\ socket' = socket /\ PlacesOn(socket, c)' = PlacesOn(socket, c)

\* What travels on a connection are requests and answers.
LEMMA WireTypes ==
    ASSUME WireTypeOK, NEW s \in Sockets
    PROVE  up[s] \in Seq(Requests) /\ down[s] \in Seq(Responses)
  BY DEF WireTypeOK

\* Lemma: the places after a step are numbers, too.
LEMMA PlacesTypes ==
    ASSUME WireTypeOK, WireTypeOK', NEW s \in Sockets, NEW c
    PROVE  PlacesOn(s, c) \in Nat /\ PlacesOn(s, c)' \in Nat
  <1>1. /\ up[s] \in Seq(Requests) /\ down[s] \in Seq(Responses)
        /\ up'[s] \in Seq(Requests) /\ down'[s] \in Seq(Responses)
    BY DEF WireTypeOK
  <1> QED
    BY <1>1, PlacesType DEF PlacesOn

\* A step that only moves calls between their places keeps each in one place.
LEMMA MovesKeep ==
    ASSUME RpcInv, WireTypeOK', ClientTypeOK', MovesCalls
    PROVE  PlacesFit' /\ LiveFit'
  <1>1. /\ \A s \in Sockets, c \in Calls : PlacesOn(s, c) \in Nat /\ PlacesOn(s, c)' \in Nat
        /\ PlacesFit /\ LiveFit
    BY PlacesTypes DEF RpcInv, TypeOK
  <1>2. ASSUME NEW s \in Sockets, NEW c \in Calls
        PROVE  PlacesOn(s, c)' <= 1 /\ (phase'[c] \in Unsent => PlacesOn(s, c)' = 0)
    <2>1. "pending" \notin Unsent
      BY DEF Unsent
    <2>2. /\ PlacesOn(s, c) <= 1 /\ (phase[c] \in Unsent => PlacesOn(s, c) = 0)
          /\ PlacesOn(s, c) \in Nat /\ PlacesOn(s, c)' \in Nat
      BY <1>1 DEF PlacesFit
    <2>3. \/ PlacesOn(s, c)' <= PlacesOn(s, c)
          \/ phase[c] \in Unsent /\ phase'[c] = "pending" /\ PlacesOn(s, c)' <= PlacesOn(s, c) + 1
      BY DEF MovesCalls
    <2>4. phase'[c] \in Unsent => phase[c] \in Unsent
      BY DEF MovesCalls
    <2> QED
      BY <2>1, <2>2, <2>3, <2>4
  <1>3. ASSUME NEW s \in Sockets, NEW c \in Calls, Has(up'[s], Cancel(c))
        PROVE  phase'[c] \in Settled
    BY <1>1, <1>3 DEF MovesCalls, PlacesFit
  <1>4. ASSUME NEW c \in Calls, Live(c)'
        PROVE  PlacesOn(socket, c)' = 1
    <2>1. CASE Live(c) /\ socket' = socket /\ PlacesOn(socket, c)' = PlacesOn(socket, c)
      BY <1>1, <2>1 DEF LiveFit, Live
    <2> QED
      BY <1>4, <2>1 DEF MovesCalls
  <1>5. PlacesFit'
    BY <1>2, <1>3 DEF PlacesFit
  <1>6. LiveFit'
    BY <1>4 DEF LiveFit, Live
  <1> QED
    BY <1>5, <1>6

-----------------------------------------------------------------------------
(* Steps of the backend *)

\* Lemma: the backend moves a call on, or forgets a call of a connection it closes
\* or one that was given up.
LEMMA BackendKeeps ==
    ASSUME RpcInv, UNCHANGED clientVars, UNCHANGED readyState,
           client' \in [Sockets -> ClientStates],
           up' \in [Sockets -> Seq(Requests)], down' \in [Sockets -> Seq(Responses)],
           pendingRequests' \in [Sockets -> SUBSET Calls], BackendFits',
           \A s \in Sockets : /\ client'[s] = "unused" => client[s] = "unused"
                              /\ client'[s] = "open" => client[s] = "open" \/ readyState[s] # "open",
           \A s \in Sockets, c \in Calls :
              /\ PlacesOn(s, c)' <= PlacesOn(s, c)
              /\ client'[s] = "open" /\ phase[c] = "pending" => PlacesOn(s, c)' = PlacesOn(s, c)
              /\ Has(up'[s], Cancel(c)) => Has(up[s], Cancel(c))
    PROVE  RpcInv'
  <1>1. /\ phase' = phase /\ socketOf' = socketOf /\ socket' = socket /\ queue' = queue
        /\ activeCount' = activeCount
        /\ UNCHANGED connectionVars
    BY DEF clientVars, connectionVars
  <1>2. In("pending")' = In("pending")
    BY <1>1 DEF In
  <1>3. WireTypeOK'
    BY DEF RpcInv, TypeOK, WireTypeOK
  <1>4. ClientTypeOK'
    BY <1>1 DEF RpcInv, TypeOK, ClientTypeOK, connectionVars
  <1>5. TransportTypeOK'
    <2>1. pendingRequestCount' \in Nat
      BY FS_CardinalityType DEF BackendFits
    <2> QED
      BY <2>1 DEF TransportTypeOK
  <1>6. PermitsFit'
    BY <1>1, <1>2 DEF RpcInv, PermitsFit
  <1>7. SocketsFit'
    BY <1>1 DEF RpcInv, SocketsFit
  <1>8. MovesCalls
    <2>1. \A c \in Calls : Live(c)' => Live(c) /\ PlacesOn(socket, c)' = PlacesOn(socket, c)
      <3> SUFFICES ASSUME NEW c \in Calls, Live(c)'
                   PROVE  Live(c) /\ PlacesOn(socket, c)' = PlacesOn(socket, c)
        OBVIOUS
      <3>1. /\ phase[c] = "pending" /\ socketOf[c] = socket /\ socket # None
            /\ readyState[socket] = "open" /\ client'[socket] = "open"
        BY <1>1 DEF Live, Open
      <3>2. socket \in Sockets
        BY <3>1 DEF RpcInv, TypeOK, ClientTypeOK
      <3>3. client[socket] = "open" /\ PlacesOn(socket, c)' = PlacesOn(socket, c)
        <4>1. \A s \in Sockets : s = socket => PlacesOn(s, c)' = PlacesOn(s, c)
          BY <3>1
        <4> QED
          BY <1>1, <3>1, <3>2, <4>1
      <3> QED
        BY <3>1, <3>3 DEF Live, Open
    <2> QED
      BY <1>1, <2>1 DEF MovesCalls
  <1>9. PlacesFit' /\ LiveFit'
    BY <1>3, <1>4, <1>8, MovesKeep
  <1> QED
    BY <1>3, <1>4, <1>5, <1>6, <1>7, <1>9 DEF RpcInv, TypeOK

\* Lemma: the types a step of the backend starts from.
LEMMA BackendTypes ==
    ASSUME RpcInv
    PROVE  /\ client \in [Sockets -> ClientStates] /\ up \in [Sockets -> Seq(Requests)]
           /\ down \in [Sockets -> Seq(Responses)] /\ readyState \in [Sockets -> ReadyStates]
           /\ pendingRequests \in [Sockets -> SUBSET Calls] /\ pendingRequestCount \in Nat
           /\ IsFiniteSet(PairsOf(pendingRequests))
           /\ pendingRequestCount = Cardinality(PairsOf(pendingRequests))
           /\ \A s \in Sockets : client[s] # "open" => pendingRequests[s] = {}
           /\ \A s \in Sockets, c \in Calls :
                 PlacesOn(s, c) \in Nat /\ PlacesOn(s, c) <= 1
  BY PlacesType DEF RpcInv, TypeOK, WireTypeOK, TransportTypeOK, BackendFits, PlacesFit, PlacesOn

\* Lemma: the places of a connection nobody touched.
LEMMA SamePlaces ==
    ASSUME NEW s, up'[s] = up[s], down'[s] = down[s], pendingRequests'[s] = pendingRequests[s]
    PROVE  \A c : PlacesOn(s, c)' = PlacesOn(s, c)
  BY DEF PlacesOn

\* The page's close of a connection keeps the invariant.
LEMMA CloseKeeps ==
    ASSUME RpcInv, NEW s \in Sockets, client[s] = "open", CloseClient(s),
           UNCHANGED clientVars, UNCHANGED readyState
    PROVE  RpcInv'
  <1>1. /\ client' = [client EXCEPT ![s] = "closed"]
        /\ pendingRequests' = [pendingRequests EXCEPT ![s] = {}]
        /\ pendingRequestCount' = pendingRequestCount - Cardinality(pendingRequests[s])
        /\ up' = [up EXCEPT ![s] = <<>>] /\ down' = down
    BY DEF CloseClient
  <1>2. /\ pendingRequests' \in [Sockets -> SUBSET Calls]
        /\ IsFiniteSet(PairsOf(pendingRequests'))
        /\ pendingRequestCount' = Cardinality(PairsOf(pendingRequests'))
    BY <1>1, BackendTypes, PairsClosed
  <1>3. /\ client' \in [Sockets -> ClientStates] /\ up' \in [Sockets -> Seq(Requests)]
        /\ down' \in [Sockets -> Seq(Responses)]
    BY <1>1, BackendTypes DEF ClientStates
  <1>4. BackendFits'
    BY <1>1, <1>2, BackendTypes DEF BackendFits
  <1>5. ASSUME NEW q \in Sockets, NEW c \in Calls
        PROVE  /\ PlacesOn(q, c)' <= PlacesOn(q, c)
               /\ client'[q] = "open" => PlacesOn(q, c)' = PlacesOn(q, c)
               /\ Has(up'[q], Cancel(c)) => Has(up[q], Cancel(c))
    <2>1. CASE q # s
      <3>1. PlacesOn(q, c)' = PlacesOn(q, c) /\ up'[q] = up[q]
        BY <1>1, <2>1, BackendTypes, SamePlaces
      <3> QED
        BY <3>1, BackendTypes
    <2>2. CASE q = s
      <3>1. up'[s] = <<>> /\ down'[s] = down[s] /\ pendingRequests'[s] = {} /\ client'[s] = "closed"
        BY <1>1, BackendTypes
      <3>2. PlacesOn(s, c)' = 0 + 0 + CountOf(down[s], Answers(c))
        BY <3>1, CountEmpty DEF PlacesOn, PlacesIn
      <3>3. /\ CountOf(up[s], {Request(c)}) \in Nat /\ CountOf(down[s], Answers(c)) \in Nat
            /\ PlacesOn(s, c) = CountOf(up[s], {Request(c)}) + (IF c \in pendingRequests[s] THEN 1 ELSE 0)
                                  + CountOf(down[s], Answers(c))
        BY BackendTypes, CountType DEF PlacesOn, PlacesIn
      <3>4. ~Has(up'[s], Cancel(c))
        BY <3>1 DEF Has
      <3> QED
        BY <2>2, <3>1, <3>2, <3>3, <3>4
    <2> QED
      BY <2>1, <2>2
  <1>6. \A q \in Sockets : /\ client'[q] = "unused" => client[q] = "unused"
                           /\ client'[q] = "open" => client[q] = "open"
    BY <1>1, BackendTypes
  <1> QED
    BY <1>2, <1>3, <1>4, <1>5, <1>6, BackendKeeps

\* Lemma: a request that was pending is answered.
LEMMA AnswerKeeps ==
    ASSUME RpcInv, NEW s \in Sockets, NEW c \in Calls, NEW kind \in Kinds, c \in pendingRequests[s],
           Respond(s, c, kind), CleanUp(s, c), UNCHANGED <<client, up>>,
           UNCHANGED clientVars, UNCHANGED readyState
    PROVE  RpcInv'
  <1>1. PICK r : r = [call |-> c, kind |-> kind]
    OBVIOUS
  <1>2. /\ pendingRequests' = [pendingRequests EXCEPT ![s] = @ \ {c}]
        /\ pendingRequestCount' = pendingRequestCount - 1
        /\ down' = [down EXCEPT ![s] = Append(@, r)] /\ up' = up /\ client' = client
    BY <1>1 DEF CleanUp, Respond
  <1>3. /\ pendingRequests' \in [Sockets -> SUBSET Calls]
        /\ IsFiniteSet(PairsOf(pendingRequests'))
        /\ pendingRequestCount' = Cardinality(PairsOf(pendingRequests'))
    <2>1. PICK pending \in [Sockets -> SUBSET Calls] : pending = pendingRequests
      BY BackendTypes
    <2>2. PICK later : later = pendingRequests'
      OBVIOUS
    <2>3. /\ c \in pending[s] /\ IsFiniteSet(PairsOf(pending))
          /\ later \in [Sockets -> SUBSET Calls] /\ later[s] = pending[s] \ {c}
          /\ \A q \in Sockets : q # s => later[q] = pending[q]
      BY <1>2, <2>1, <2>2, BackendTypes
    <2>4. /\ IsFiniteSet(PairsOf(later))
          /\ Cardinality(PairsOf(later)) = Cardinality(PairsOf(pending)) - 1
      BY <2>1, <2>3, PairRemoved
    <2> QED
      BY <1>2, <2>1, <2>2, <2>3, <2>4, BackendTypes
  <1>4. down[s] \in Seq(Responses) /\ up[s] \in Seq(Requests)
    BY BackendTypes
  <1>5. /\ Append(down[s], r) \in Seq(Responses)
        /\ \A d \in Calls : CountOf(Append(down[s], r), Answers(d)) =
                 CountOf(down[s], Answers(d)) + (IF c = d THEN 1 ELSE 0)
    BY <1>1, <1>4, AppendedResponse
  <1>6. down' \in [Sockets -> Seq(Responses)]
    BY <1>2, <1>5, BackendTypes
  <1>7. \A q \in Sockets : pendingRequests'[q] \subseteq pendingRequests[q]
    BY <1>2, BackendTypes
  <1>8. BackendFits'
    BY <1>2, <1>3, <1>7, BackendTypes DEF BackendFits
  <1>9. ASSUME NEW q \in Sockets, NEW d \in Calls
        PROVE  PlacesOn(q, d)' = PlacesOn(q, d)
    <2>1. CASE q # s
      BY <1>2, <2>1, BackendTypes, SamePlaces
    <2>2. CASE q = s
      <3>1. up'[s] = up[s] /\ down'[s] = Append(down[s], r) /\ pendingRequests'[s] = pendingRequests[s] \ {c}
        BY <1>2, BackendTypes
      <3>2. CountOf(up[s], {Request(d)}) \in Nat /\ CountOf(down[s], Answers(d)) \in Nat
        BY <1>4, CountType
      <3>3. PlacesOn(s, d)' = CountOf(up[s], {Request(d)})
                                + (IF d \in pendingRequests[s] \ {c} THEN 1 ELSE 0)
                                + (CountOf(down[s], Answers(d)) + (IF c = d THEN 1 ELSE 0))
        BY <1>5, <3>1 DEF PlacesOn, PlacesIn
      <3>4. PlacesOn(s, d) = CountOf(up[s], {Request(d)}) + (IF d \in pendingRequests[s] THEN 1 ELSE 0)
                               + CountOf(down[s], Answers(d))
        BY DEF PlacesOn, PlacesIn
      <3> QED
        BY <2>2, <3>2, <3>3, <3>4
    <2> QED
      BY <2>1, <2>2
  <1> QED
    BY <1>2, <1>3, <1>6, <1>8, <1>9, BackendTypes, BackendKeeps

\* Lemma: what a connection has when the backend takes a frame off it.
LEMMA TakenFacts ==
    ASSUME RpcInv, NEW s \in Sockets, NEW frame, Reads(s, frame), Taken(s)
    PROVE  /\ up' \in [Sockets -> Seq(Requests)] /\ client[s] = "open" /\ Has(up[s], frame)
           /\ \A q \in Sockets : q # s => up'[q] = up[q]
           /\ \A c \in Calls : CountOf(up[s], {Request(c)}) = CountOf(up'[s], {Request(c)})
                                 + (IF frame = Request(c) THEN 1 ELSE 0)
           /\ \A q \in Sockets, c \in Calls : Has(up'[q], Cancel(c)) => Has(up[q], Cancel(c))
  <1>1. PICK frames \in Seq(Requests) : frames = up[s]
    BY BackendTypes
  <1>2. frames # <<>> /\ Head(frames) = frame /\ up' = [up EXCEPT ![s] = Tail(frames)]
        /\ client[s] = "open"
    BY <1>1 DEF Reads, Taken
  <1>3. /\ Tail(frames) \in Seq(Requests)
        /\ \A c \in Calls : CountOf(frames, {Request(c)}) = CountOf(Tail(frames), {Request(c)})
                              + (IF frame = Request(c) THEN 1 ELSE 0)
        /\ \A x : Has(Tail(frames), x) => Has(frames, x)
        /\ Has(frames, frame)
    BY <1>2, TakenFrame
  <1>4. up'[s] = Tail(frames) /\ \A q \in Sockets : q # s => up'[q] = up[q]
    BY <1>2, BackendTypes
  <1>5. up' \in [Sockets -> Seq(Requests)]
    BY <1>2, <1>3, BackendTypes
  <1>6. ASSUME NEW q \in Sockets, NEW c \in Calls, Has(up'[q], Cancel(c))
        PROVE  Has(up[q], Cancel(c))
    BY <1>1, <1>3, <1>4, <1>6
  <1> QED
    BY <1>1, <1>2, <1>3, <1>4, <1>5, <1>6

\* Places before and after a step, spelled out.
Spelled(s, c) ==
    /\ CountOf(up[s], {Request(c)}) \in Nat /\ CountOf(down[s], Answers(c)) \in Nat
    /\ CountOf(up'[s], {Request(c)}) \in Nat /\ CountOf(down'[s], Answers(c)) \in Nat
    /\ PlacesOn(s, c) = CountOf(up[s], {Request(c)})
         + (IF c \in pendingRequests[s] THEN 1 ELSE 0) + CountOf(down[s], Answers(c))
    /\ PlacesOn(s, c)' = CountOf(up'[s], {Request(c)})
         + (IF c \in pendingRequests'[s] THEN 1 ELSE 0) + CountOf(down'[s], Answers(c))

\* The places of a call, spelled out before and after a step.
LEMMA PlacesSpelled ==
    ASSUME RpcInv, NEW s \in Sockets, NEW c \in Calls,
           up' \in [Sockets -> Seq(Requests)], down' \in [Sockets -> Seq(Responses)]
    PROVE  Spelled(s, c)
  <1>1. up[s] \in Seq(Requests) /\ down[s] \in Seq(Responses)
        /\ up'[s] \in Seq(Requests) /\ down'[s] \in Seq(Responses)
    BY BackendTypes
  <1> QED
    BY <1>1, CountType DEF PlacesOn, PlacesIn, Spelled

\* A request registered by the backend keeps the invariant.
LEMMA RegisterKeeps ==
    ASSUME RpcInv, NEW s \in Sockets, NEW c \in Calls, Register(s, c),
           UNCHANGED clientVars
    PROVE  RpcInv'
  <1>1. /\ Reads(s, Request(c)) /\ Taken(s)
        /\ pendingRequests' = [pendingRequests EXCEPT ![s] = @ \cup {c}]
        /\ pendingRequestCount' = pendingRequestCount + 1
        /\ UNCHANGED <<client, down>> /\ UNCHANGED readyState
    BY DEF Register, Reads
  <1>2. /\ up' \in [Sockets -> Seq(Requests)] /\ client[s] = "open"
        /\ \A q \in Sockets : q # s => up'[q] = up[q]
        /\ \A d \in Calls : CountOf(up[s], {Request(d)}) = CountOf(up'[s], {Request(d)})
                              + (IF Request(c) = Request(d) THEN 1 ELSE 0)
        /\ \A q \in Sockets, d \in Calls : Has(up'[q], Cancel(d)) => Has(up[q], Cancel(d))
    BY <1>1, TakenFacts
  <1>3. \A d \in Calls : Request(c) = Request(d) <=> c = d
    BY FrameFacts
  <1>4. down' \in [Sockets -> Seq(Responses)] /\ client' \in [Sockets -> ClientStates]
    BY <1>1, BackendTypes
  <1>5. c \notin pendingRequests[s]
    <2>1. PlacesOn(s, c) <= 1
      BY BackendTypes
    <2>2. CountOf(up[s], {Request(c)}) = CountOf(up'[s], {Request(c)}) + 1
      BY <1>2
    <2>3. Spelled(s, c)
      BY <1>2, <1>4, PlacesSpelled
    <2> QED
      BY <2>1, <2>2, <2>3 DEF Spelled
  <1>6. /\ pendingRequests' \in [Sockets -> SUBSET Calls]
        /\ IsFiniteSet(PairsOf(pendingRequests'))
        /\ pendingRequestCount' = Cardinality(PairsOf(pendingRequests'))
    <2>1. PICK pending \in [Sockets -> SUBSET Calls] : pending = pendingRequests
      BY BackendTypes
    <2>2. PICK later : later = pendingRequests'
      OBVIOUS
    <2>3. /\ c \notin pending[s] /\ IsFiniteSet(PairsOf(pending))
          /\ later \in [Sockets -> SUBSET Calls] /\ later[s] = pending[s] \cup {c}
          /\ \A q \in Sockets : q # s => later[q] = pending[q]
      BY <1>1, <1>5, <2>1, <2>2, BackendTypes
    <2>4. /\ IsFiniteSet(PairsOf(later))
          /\ Cardinality(PairsOf(later)) = Cardinality(PairsOf(pending)) + 1
      BY <2>1, <2>3, PairAdded
    <2> QED
      BY <1>1, <2>1, <2>2, <2>3, <2>4, BackendTypes
  <1>7. /\ pendingRequests'[s] = pendingRequests[s] \cup {c}
        /\ \A q \in Sockets : q # s => pendingRequests'[q] = pendingRequests[q]
    BY <1>1, BackendTypes
  <1>8. BackendFits'
    BY <1>1, <1>2, <1>6, <1>7, BackendTypes DEF BackendFits
  <1>9. ASSUME NEW q \in Sockets, NEW d \in Calls
        PROVE  PlacesOn(q, d)' = PlacesOn(q, d)
    <2>1. CASE q # s
      BY <1>1, <1>2, <1>7, <2>1, SamePlaces
    <2>2. CASE q = s
      <3>1. CountOf(up[s], {Request(d)}) = CountOf(up'[s], {Request(d)}) + (IF c = d THEN 1 ELSE 0)
        BY <1>2, <1>3
      <3>2. d \in pendingRequests'[s] <=> d \in pendingRequests[s] \/ c = d
        BY <1>7
      <3>3. down'[s] = down[s]
        BY <1>1
      <3>4. Spelled(s, d)
        BY <1>2, <1>4, PlacesSpelled
      <3> QED
        BY <1>5, <2>2, <3>1, <3>2, <3>3, <3>4 DEF Spelled
    <2> QED
      BY <2>1, <2>2
  <1> QED
    BY <1>1, <1>2, <1>4, <1>6, <1>8, <1>9, BackendTypes, BackendKeeps

\* A request turned away at the limit keeps the invariant.
LEMMA TurnAwayKeeps ==
    ASSUME RpcInv, NEW s \in Sockets, NEW c \in Calls, TurnAway(s, c),
           UNCHANGED clientVars
    PROVE  RpcInv'
  <1>1. Reads(s, Request(c)) /\ UNCHANGED readyState /\ client[s] = "open"
    BY DEF TurnAway, Reads
  <1>2. CASE CloseClient(s)
    BY <1>1, <1>2, CloseKeeps
  <1>3. CASE Respond(s, c, "error") /\ Taken(s) /\ UNCHANGED <<client, transportVars>>
    <2>1. /\ up' \in [Sockets -> Seq(Requests)]
          /\ \A q \in Sockets : q # s => up'[q] = up[q]
          /\ \A d \in Calls : CountOf(up[s], {Request(d)}) = CountOf(up'[s], {Request(d)})
                                + (IF Request(c) = Request(d) THEN 1 ELSE 0)
          /\ \A q \in Sockets, d \in Calls : Has(up'[q], Cancel(d)) => Has(up[q], Cancel(d))
      BY <1>1, <1>3, TakenFacts
    <2>2. PICK r : r = [call |-> c, kind |-> "error"]
      OBVIOUS
    <2>3. down[s] \in Seq(Responses) /\ down' = [down EXCEPT ![s] = Append(down[s], r)]
      BY <1>3, <2>2, BackendTypes DEF Respond
    <2>4. "error" \in Kinds
      BY DEF Kinds
    <2>5. /\ Append(down[s], r) \in Seq(Responses)
          /\ \A d \in Calls : CountOf(Append(down[s], r), Answers(d)) =
                   CountOf(down[s], Answers(d)) + (IF c = d THEN 1 ELSE 0)
      BY <2>2, <2>3, <2>4, AppendedResponse
    <2>6. /\ down' \in [Sockets -> Seq(Responses)] /\ down'[s] = Append(down[s], r)
          /\ \A q \in Sockets : q # s => down'[q] = down[q]
      BY <2>3, <2>5, BackendTypes
    <2>7. UNCHANGED <<client, pendingRequests, pendingRequestCount>>
      BY <1>3 DEF transportVars
    <2>8. BackendFits'
      BY <2>7, BackendTypes DEF BackendFits
    <2>9. ASSUME NEW q \in Sockets, NEW d \in Calls
          PROVE  PlacesOn(q, d)' = PlacesOn(q, d)
      <3>1. CASE q # s
        BY <2>1, <2>6, <2>7, <3>1, SamePlaces
      <3>2. CASE q = s
        <4>1. CountOf(up[s], {Request(d)}) = CountOf(up'[s], {Request(d)}) + (IF c = d THEN 1 ELSE 0)
          BY <2>1, FrameFacts
        <4>2. CountOf(down'[s], Answers(d)) = CountOf(down[s], Answers(d)) + (IF c = d THEN 1 ELSE 0)
          BY <2>5, <2>6
        <4>3. pendingRequests'[s] = pendingRequests[s]
          BY <2>7
        <4>4. Spelled(s, d)
          BY <2>1, <2>6, PlacesSpelled
        <4> QED
          BY <3>2, <4>1, <4>2, <4>3, <4>4 DEF Spelled
      <3> QED
        BY <3>1, <3>2
    <2> QED
      BY <1>1, <2>1, <2>6, <2>7, <2>8, <2>9, BackendTypes, BackendKeeps
  <1> QED
    BY <1>2, <1>3 DEF TurnAway

\* A cancellation keeps the invariant.
LEMMA CancelKeeps ==
    ASSUME RpcInv, NEW s \in Sockets, NEW c \in Calls, CancelRequest(s, c),
           UNCHANGED clientVars
    PROVE  RpcInv'
  <1>1. /\ Reads(s, Cancel(c)) /\ Taken(s) /\ UNCHANGED <<client, down>> /\ UNCHANGED readyState
        /\ IF c \in pendingRequests[s] THEN CleanUp(s, c)
           ELSE UNCHANGED <<pendingRequests, pendingRequestCount>>
    BY DEF CancelRequest, Reads
  <1>2. /\ up' \in [Sockets -> Seq(Requests)] /\ Has(up[s], Cancel(c))
        /\ \A q \in Sockets : q # s => up'[q] = up[q]
        /\ \A d \in Calls : CountOf(up[s], {Request(d)}) = CountOf(up'[s], {Request(d)})
                              + (IF Cancel(c) = Request(d) THEN 1 ELSE 0)
        /\ \A q \in Sockets, d \in Calls : Has(up'[q], Cancel(d)) => Has(up[q], Cancel(d))
    BY <1>1, TakenFacts
  <1>3. phase[c] # "pending"
    BY <1>2 DEF RpcInv, PlacesFit, Settled
  <1>4. PICK pending \in [Sockets -> SUBSET Calls] : pending = pendingRequests
    BY BackendTypes
  <1>5. PICK later : later = pendingRequests'
    OBVIOUS
  <1>6. /\ later \in [Sockets -> SUBSET Calls] /\ later[s] = pending[s] \ {c}
        /\ \A q \in Sockets : q # s => later[q] = pending[q]
        /\ c \in pending[s] => pendingRequestCount' = pendingRequestCount - 1
        /\ c \notin pending[s] => UNCHANGED <<pendingRequests, pendingRequestCount>>
    BY <1>1, <1>4, <1>5 DEF CleanUp
  <1>7. IsFiniteSet(PairsOf(later)) /\ pendingRequestCount' = Cardinality(PairsOf(later))
    <2>1. CASE c \in pending[s]
      <3>1. IsFiniteSet(PairsOf(pending)) /\ pendingRequestCount = Cardinality(PairsOf(pending))
        BY <1>4, BackendTypes
      <3>2. /\ IsFiniteSet(PairsOf(later))
            /\ Cardinality(PairsOf(later)) = Cardinality(PairsOf(pending)) - 1
        BY <1>6, <2>1, <3>1, PairRemoved
      <3> QED
        BY <1>6, <2>1, <3>1, <3>2
    <2>2. CASE c \notin pending[s]
      BY <1>4, <1>5, <1>6, <2>2, BackendTypes
    <2> QED
      BY <2>1, <2>2
  <1>8. BackendFits'
    BY <1>1, <1>4, <1>5, <1>6, <1>7, BackendTypes DEF BackendFits
  <1>9. ASSUME NEW q \in Sockets, NEW d \in Calls
        PROVE  /\ PlacesOn(q, d)' <= PlacesOn(q, d)
               /\ d # c => PlacesOn(q, d)' = PlacesOn(q, d)
    <2>1. CASE q # s
      <3>1. PlacesOn(q, d)' = PlacesOn(q, d)
        BY <1>1, <1>2, <1>4, <1>5, <1>6, <2>1, SamePlaces
      <3> QED
        BY <3>1, BackendTypes
    <2>2. CASE q = s
      <3>1. CountOf(up[s], {Request(d)}) = CountOf(up'[s], {Request(d)})
        <4>1. Cancel(c) # Request(d)
          BY FrameFacts
        <4>2. CountOf(up[s], {Request(d)}) = CountOf(up'[s], {Request(d)}) + 0
          BY <1>2, <4>1
        <4>3. CountOf(up'[s], {Request(d)}) \in Nat
          BY <1>2, CountType
        <4> QED
          BY <4>2, <4>3
      <3>2. d \in pendingRequests'[s] <=> d \in pendingRequests[s] /\ d # c
        BY <1>4, <1>5, <1>6
      <3>3. down' \in [Sockets -> Seq(Responses)] /\ down'[s] = down[s]
        BY <1>1, BackendTypes
      <3>4. Spelled(s, d)
        BY <1>2, <3>3, PlacesSpelled
      <3> QED
        BY <2>2, <3>1, <3>2, <3>3, <3>4 DEF Spelled
    <2> QED
      BY <2>1, <2>2
  <1>10. \A q \in Sockets, d \in Calls :
            phase[d] = "pending" => PlacesOn(q, d)' = PlacesOn(q, d)
    BY <1>3, <1>9
  <1>11. down' \in [Sockets -> Seq(Responses)] /\ client' \in [Sockets -> ClientStates]
    BY <1>1, BackendTypes
  <1> QED
    BY <1>1, <1>2, <1>5, <1>6, <1>8, <1>9, <1>10, <1>11, BackendKeeps

\* A connection accepted keeps the invariant.
LEMMA AcceptKeeps ==
    ASSUME RpcInv, NEW s \in Sockets, Accept(s), UNCHANGED clientVars
    PROVE  RpcInv'
  <1>1. /\ readyState[s] = "connecting" /\ client[s] = "unused"
        /\ client' = [client EXCEPT ![s] = "open"]
        /\ UNCHANGED <<readyState, up, down, pendingRequests, pendingRequestCount>>
    BY DEF Accept, transportVars
  <1>2. client' \in [Sockets -> ClientStates]
    BY <1>1, BackendTypes DEF ClientStates
  <1>3. \A q \in Sockets : /\ client'[q] = "unused" => client[q] = "unused"
                           /\ client'[q] = "open" => client[q] = "open" \/ readyState[q] # "open"
                           /\ client'[q] # "open" => client[q] # "open"
    BY <1>1, BackendTypes
  <1>4. BackendFits'
    BY <1>1, <1>3, BackendTypes DEF BackendFits
  <1>5. \A q \in Sockets, c \in Calls : PlacesOn(q, c)' = PlacesOn(q, c)
    BY <1>1, SamePlaces
  <1> QED
    BY <1>1, <1>2, <1>3, <1>4, <1>5, BackendTypes, BackendKeeps

\* Every step of the backend keeps the invariant.
LEMMA TransportKeeps ==
    ASSUME RpcInv, TransportStep, UNCHANGED clientVars
    PROVE  RpcInv'
  <1>1. ASSUME NEW s \in Sockets, EvictClient(s) \/ NoticeClose(s)
        PROVE  RpcInv'
    BY <1>1, CloseKeeps DEF EvictClient, NoticeClose
  <1>2. ASSUME NEW s \in Sockets, NEW c \in Calls, NEW kind \in Kinds, c \in pendingRequests[s],
               Completes(s, c, kind), UNCHANGED readyState
        PROVE  RpcInv'
    <2>1. client[s] = "open"
      BY <1>2, BackendTypes
    <2> QED
      BY <1>2, <2>1, CloseKeeps, AnswerKeeps DEF Completes
  <1>3. ASSUME NEW c \in Calls, HandlerEnds(c) \/ RequestTimesOut(c)
        PROVE  RpcInv'
    <2>1. "error" \in Kinds
      BY DEF Kinds
    <2> QED
      BY <1>2, <1>3, <2>1 DEF HandlerEnds, RequestTimesOut
  <1> QED
    BY <1>1, <1>3, AcceptKeeps, RegisterKeeps, TurnAwayKeeps, CancelKeeps DEF TransportStep

-----------------------------------------------------------------------------
(* Steps of the page *)

\* The types of the page's calls, and its counter as the invariant has it.
LEMMA ClientTypes ==
    ASSUME RpcInv
    PROVE  /\ phase \in [Calls -> Phases] /\ socketOf \in [Calls -> Sockets \cup {None}]
           /\ QueueFits /\ activeCount \in Nat /\ activeCount <= MaxInFlight
           /\ MaxInFlight \in Nat \ {0}
           /\ enabled \in BOOLEAN /\ reconnectTimer \in BOOLEAN
           /\ socket \in Sockets \cup {None} /\ attempt \in Sockets \cup {None}
           /\ initial \subseteq Sockets /\ ready \in {"unsettled", "resolved", "rejected"}
           /\ IsFiniteSet(In("pending")) /\ activeCount = Cardinality(In("pending"))
           /\ queue # <<>> => activeCount = MaxInFlight
           /\ \A c \in Calls : phase[c] = "queued" <=> Has(queue, c)
           /\ None \notin Sockets
  BY ClientAssumption, WireAssumption
     DEF RpcInv, TypeOK, ClientTypeOK, PermitsFit, QueueFits, Sockets

\* The types of the page's connections.
LEMMA ConnectionTypes ==
    ASSUME RpcInv
    PROVE  /\ enabled \in BOOLEAN /\ reconnectTimer \in BOOLEAN
           /\ socket \in Sockets \cup {None} /\ attempt \in Sockets \cup {None}
           /\ initial \subseteq Sockets /\ ready \in {"unsettled", "resolved", "rejected"}
           /\ None \notin Sockets /\ readyState \in [Sockets -> ReadyStates]
  BY ClientTypes, BackendTypes

\* Lemma: a step of the page does not concern what the backend counts.
LEMMA ClientKeeps ==
    ASSUME RpcInv, WireTypeOK', ClientTypeOK', UNCHANGED transportVars, UNCHANGED client,
           PermitsFit', SocketsFit', MovesCalls
    PROVE  RpcInv'
  <1>1. UNCHANGED <<pendingRequests, pendingRequestCount>>
    BY DEF transportVars
  <1>2. TransportTypeOK' /\ BackendFits'
    BY <1>1 DEF RpcInv, TypeOK, TransportTypeOK, BackendFits
  <1>3. PlacesFit' /\ LiveFit'
    BY MovesKeep
  <1> QED
    BY <1>2, <1>3 DEF RpcInv, TypeOK

\* What the drain gives out: next are the calls that got a permit.
Finalized(next, calls, outcome, phases, frames, states) ==
    /\ next \subseteq Calls /\ \A c \in next : phase[c] = "queued"
    /\ phase' \in [Calls -> Phases]
    /\ \A c \in Calls : /\ c \in calls => phase'[c] = outcome
                        /\ c \in next => phase'[c] = "pending"
                        /\ c \notin calls \cup next => phase'[c] = phases[c]
    /\ queue' \in Seq(Calls) /\ activeCount' \in 0..MaxInFlight
    /\ PermitsFit'
    /\ Carries(up', frames, next, states)

\* Where calls that are not with the backend may go meanwhile.
Waits(phases) ==
    /\ phases \in [Calls -> Phases]
    /\ \A c \in Calls : \/ phases[c] = phase[c]
                        \/ phase[c] = "waiting" /\ phases[c] \in {"stranded", "failed"}

\* Lemma: the permits of settled calls go to the queue, as far as it reaches.
LEMMA FinalizeFacts ==
    ASSUME RpcInv, NEW calls, calls \subseteq In("pending"), NEW outcome \in Settled,
           NEW phases, Waits(phases),
           NEW frames \in [Sockets -> Seq(Requests)], NEW states,
           Finalize(calls, outcome, phases, frames, states)
    PROVE  \E next : Finalized(next, calls, outcome, phases, frames, states)
  <1>1. IsFiniteSet(calls) /\ Cardinality(calls) \in Nat /\ Cardinality(calls) <= activeCount
    <2>1. IsFiniteSet(calls) /\ Cardinality(calls) <= Cardinality(In("pending"))
      BY ClientTypes, FS_Subset
    <2> QED
      BY <2>1, ClientTypes, FS_CardinalityType
  <1>2. PICK next : next = Granted(Cardinality(calls))
    OBVIOUS
  <1>3. /\ next \subseteq Calls /\ \A c \in next : Has(queue, c)
        /\ IsFiniteSet(next) /\ Cardinality(next) \in Nat
        /\ Cardinality(next) <= Cardinality(calls)
        /\ Cardinality(next) # Cardinality(calls) => \A c \in Calls : Has(queue, c) => c \in next
    BY <1>1, <1>2, ClientTypes, GrantedFacts
  <1>4. /\ phase' = [c \in Calls |-> CASE c \in calls -> outcome
                                       [] c \in next  -> "pending"
                                       [] OTHER       -> phases[c]]
        /\ queue' = Without(next)
        /\ activeCount' = activeCount - Cardinality(calls) + Cardinality(next)
        /\ up' = Sent(frames, next, states)
    BY <1>2 DEF Finalize
  <1>5. /\ queue' \in Seq(Calls)
        /\ \A i, j \in 1..Len(queue') : queue'[i] = queue'[j] => i = j
        /\ \A c \in Calls : Has(queue', c) <=> c \notin next /\ Has(queue, c)
    BY <1>4, ClientTypes, WithoutFacts
  <1>6. \A c \in next : phase[c] = "queued" /\ c \notin calls
    BY <1>3, ClientTypes DEF In
  <1>7. \A c \in Calls : /\ c \in calls => phase'[c] = outcome
                         /\ c \in next => phase'[c] = "pending"
                         /\ c \notin calls \cup next => phase'[c] = phases[c]
    BY <1>4, <1>6
  <1>8. phase' \in [Calls -> Phases]
    <2>1. \A c \in Calls : phase'[c] \in Phases
      BY <1>7 DEF Phases, Waits
    <2>2. phase' = [c \in Calls |-> phase'[c]]
      BY <1>4
    <2> QED
      BY <2>1, <2>2
  <1>9. Carries(up', frames, next, states)
    <2>1. PICK out : out = up'
      OBVIOUS
    <2>2. out = Sent(frames, next, states) /\ next \subseteq Calls /\ IsFiniteSet(next)
      BY <1>3, <1>4, <2>1
    <2>3. Carries(out, frames, next, states)
      BY <2>2, SentFacts
    <2> QED
      BY <2>1, <2>3
  <1>10. activeCount' \in 0..MaxInFlight
    BY <1>1, <1>3, <1>4, ClientTypes
  <1>11. ASSUME NEW c \in Calls
         PROVE  /\ phase'[c] = "queued" <=> Has(queue', c)
                /\ phase'[c] = "pending" <=> c \in (In("pending") \ calls) \cup next
    <2>1. outcome # "queued" /\ outcome # "pending"
      BY DEF Settled
    <2>2. /\ phases[c] = "queued" <=> phase[c] = "queued"
          /\ phases[c] = "pending" <=> phase[c] = "pending"
      BY DEF Waits
    <2>3. c \in calls => phase[c] = "pending"
      BY DEF In
    <2> QED
      BY <1>5, <1>6, <1>7, <2>1, <2>2, <2>3, ClientTypes DEF In
  <1>12. In("pending")' = (In("pending") \ calls) \cup next
    BY <1>3, <1>11 DEF In
  <1>13. IsFiniteSet(In("pending")') /\ activeCount' = Cardinality(In("pending")')
    <2>1. PICK P : P = In("pending")
      OBVIOUS
    <2>2. IsFiniteSet(P) /\ activeCount = Cardinality(P) /\ Cardinality(P) \in Nat
      BY <2>1, ClientTypes
    <2>3. P \cap calls = calls /\ (P \ calls) \cap next = {}
      BY <1>6, <2>1 DEF In
    <2>4. IsFiniteSet(P \ calls) /\ Cardinality(P \ calls) = Cardinality(P) - Cardinality(calls)
      BY <2>2, <2>3, FS_Difference
    <2>5. /\ IsFiniteSet((P \ calls) \cup next)
          /\ Cardinality((P \ calls) \cup next)
               = Cardinality(P \ calls) + Cardinality(next) - Cardinality({})
      BY <1>3, <2>3, <2>4, FS_Union
    <2>6. Cardinality({}) = 0
      BY FS_EmptySet
    <2>7. PICK n \in Nat, m \in Nat, p \in Nat :
             n = Cardinality(calls) /\ m = Cardinality(next) /\ p = Cardinality(P)
      BY <1>1, <1>3, <2>2
    <2>8. Cardinality((P \ calls) \cup next) = p - n + m /\ activeCount' = p - n + m
      BY <1>4, <2>2, <2>4, <2>5, <2>6, <2>7
    <2> QED
      BY <1>12, <2>1, <2>5, <2>8
  <1>14. ASSUME queue' # <<>>
         PROVE  activeCount' = MaxInFlight
    <2>1. 1 \in 1..Len(queue') /\ queue'[1] \in Calls
      BY <1>5, <1>14
    <2>2. PICK c \in Calls : c \notin next /\ Has(queue, c)
      BY <1>5, <2>1 DEF Has
    <2>3. Cardinality(next) = Cardinality(calls)
      BY <1>3, <2>2
    <2>4. queue # <<>>
      BY <2>2 DEF Has
    <2> QED
      BY <1>1, <1>4, <2>3, <2>4, ClientTypes
  <1>15. PermitsFit'
    BY <1>5, <1>11, <1>13, <1>14 DEF PermitsFit
  <1> QED
    BY <1>3, <1>5, <1>6, <1>7, <1>8, <1>9, <1>10, <1>15 DEF Finalized

\* The states of the connections after a step that opens none of them.
Fades(states) ==
    /\ states \in [Sockets -> ReadyStates]
    /\ \A s \in Sockets :
          /\ states[s] = "open" => readyState[s] = "open"
          /\ readyState[s] \in {"open", "closing", "closed"}
                => states[s] \in {"open", "closing", "closed"}

\* The page hears no more than was under way, and on the connection it keeps nothing
\* about other calls; what it sends of its own is a cancellation.
Hears(calls, frames) ==
    /\ frames \in [Sockets -> Seq(Requests)]
    /\ down' \in [Sockets -> Seq(Responses)]
    /\ \A s \in Sockets, c \in Calls :
          /\ CountOf(down'[s], Answers(c)) <= CountOf(down[s], Answers(c))
          /\ socket' = s /\ c \notin calls
                => CountOf(down'[s], Answers(c)) = CountOf(down[s], Answers(c))
          /\ CountOf(frames[s], {Request(c)}) = CountOf(up[s], {Request(c)})
          /\ Has(frames[s], Cancel(c)) => Has(up[s], Cancel(c)) \/ c \in calls

\* The page lets its connection go or keeps it.
LetsGo ==
    /\ socket' \in {socket, None} /\ attempt' \in Sockets \cup {None}
    /\ initial' \subseteq Sockets /\ ready' \in {"unsettled", "resolved", "rejected"}
    /\ enabled' \in BOOLEAN /\ reconnectTimer' \in BOOLEAN

\* Lemma: calls are settled, their permits go on, and no other call loses its place.
LEMMA SettlingKeeps ==
    ASSUME RpcInv, NEW calls, calls \subseteq In("pending"), NEW outcome \in Settled,
           NEW phases, Waits(phases), NEW frames, NEW states, Fades(states),
           Finalize(calls, outcome, phases, frames, states), Hears(calls, frames), LetsGo,
           readyState' = states, UNCHANGED <<client, socketOf, transportVars>>
    PROVE  RpcInv'
  <1>1. frames \in [Sockets -> Seq(Requests)] /\ down' \in [Sockets -> Seq(Responses)]
    BY DEF Hears
  <1>2. PICK next : Finalized(next, calls, outcome, phases, frames, states)
    BY <1>1, FinalizeFacts
  <1>3. /\ up' \in [Sockets -> Seq(Requests)] /\ phase' \in [Calls -> Phases]
        /\ queue' \in Seq(Calls) /\ activeCount' \in 0..MaxInFlight /\ PermitsFit'
        /\ client' = client /\ socketOf' = socketOf /\ pendingRequests' = pendingRequests
    BY <1>2 DEF Finalized, Carries, transportVars
  <1>4. WireTypeOK'
    BY <1>1, <1>3, BackendTypes DEF WireTypeOK, Fades
  <1>5. ClientTypeOK'
    BY <1>3, ClientTypes DEF ClientTypeOK, LetsGo
  <1>6. ASSUME NEW c \in Calls
        PROVE  /\ c \in calls => phase[c] = "pending" /\ phase'[c] \in Settled
               /\ c \in next => phase[c] = "queued" /\ phase'[c] = "pending"
               /\ c \notin calls \cup next => phase'[c] = phases[c]
               /\ \/ phases[c] = phase[c]
                  \/ phase[c] = "waiting" /\ phases[c] \in {"stranded", "failed"}
    BY <1>2 DEF Finalized, Waits, In
  <1>7. \A c \in Calls : /\ phase'[c] \in Unsent => phase[c] \in Unsent
                         /\ phase[c] \in Settled => phase'[c] \in Settled
                         /\ phase'[c] \in {"queued", "pending"} => phase[c] \in {"queued", "pending"}
                         /\ phase'[c] = "pending" => c \in next \/ (phase[c] = "pending" /\ c \notin calls)
    BY <1>6 DEF Unsent, Settled
  <1>8. ASSUME NEW s \in Sockets, NEW c \in Calls
        PROVE  /\ Spelled(s, c)
               /\ CountOf(up'[s], {Request(c)}) = CountOf(up[s], {Request(c)})
                    + (IF states[s] = "open" /\ c \in next /\ socketOf[c] = s THEN 1 ELSE 0)
               /\ CountOf(down'[s], Answers(c)) <= CountOf(down[s], Answers(c))
               /\ socket' = s /\ c \notin calls
                    => CountOf(down'[s], Answers(c)) = CountOf(down[s], Answers(c))
               /\ pendingRequests'[s] = pendingRequests[s]
               /\ Has(up'[s], Cancel(c)) => Has(up[s], Cancel(c)) \/ c \in calls
    <2>1. Spelled(s, c)
      BY <1>1, <1>3, PlacesSpelled
    <2>2. Carries(up', frames, next, states)
      BY <1>2 DEF Finalized
    <2>3. /\ CountOf(up'[s], {Request(c)}) = CountOf(frames[s], {Request(c)})
               + (IF states[s] = "open" /\ c \in next /\ socketOf[c] = s THEN 1 ELSE 0)
          /\ Has(up'[s], Cancel(c)) => Has(frames[s], Cancel(c))
      BY <2>2 DEF Carries
    <2> QED
      BY <1>3, <2>1, <2>3 DEF Hears
  <1>9. ASSUME NEW s \in Sockets, NEW c \in Calls
        PROVE  \/ PlacesOn(s, c)' <= PlacesOn(s, c)
               \/ phase[c] \in Unsent /\ phase'[c] = "pending" /\ PlacesOn(s, c)' <= PlacesOn(s, c) + 1
    <2>1. PICK p \in 0..1 : p = IF c \in pendingRequests[s] THEN 1 ELSE 0
      OBVIOUS
    <2>2. PICK sent \in 0..1 : sent = IF states[s] = "open" /\ c \in next /\ socketOf[c] = s
                                     THEN 1 ELSE 0
      OBVIOUS
    <2>3. /\ CountOf(up[s], {Request(c)}) \in Nat /\ CountOf(down[s], Answers(c)) \in Nat
          /\ CountOf(up'[s], {Request(c)}) \in Nat /\ CountOf(down'[s], Answers(c)) \in Nat
          /\ PlacesOn(s, c) = CountOf(up[s], {Request(c)}) + p + CountOf(down[s], Answers(c))
          /\ PlacesOn(s, c)' = CountOf(up'[s], {Request(c)}) + p + CountOf(down'[s], Answers(c))
      BY <1>8, <2>1 DEF Spelled
    <2>4. /\ CountOf(up'[s], {Request(c)}) = CountOf(up[s], {Request(c)}) + sent
          /\ CountOf(down'[s], Answers(c)) <= CountOf(down[s], Answers(c))
      BY <1>8, <2>2
    <2>5. PlacesOn(s, c)' <= PlacesOn(s, c) + sent
      BY <2>3, <2>4
    <2>6. CASE c \in next
      <3>1. phase[c] \in Unsent /\ phase'[c] = "pending"
        BY <1>6, <2>6 DEF Unsent
      <3> QED
        BY <2>3, <2>5, <3>1
    <2>7. CASE c \notin next
      BY <2>2, <2>3, <2>5, <2>7
    <2> QED
      BY <2>6, <2>7
  <1>10. ASSUME NEW s \in Sockets, NEW c \in Calls, Has(up'[s], Cancel(c))
         PROVE  Has(up[s], Cancel(c)) \/ phase'[c] \in Settled
    BY <1>6, <1>8, <1>10
  <1>11. ASSUME NEW c \in Calls, Live(c)'
         PROVE  \/ PlacesOn(socket, c)' = 1
                \/ Live(c) /\ socket' = socket /\ PlacesOn(socket, c)' = PlacesOn(socket, c)
    <2>1. /\ phase'[c] = "pending" /\ socketOf[c] = socket'
          /\ socket' # None /\ states[socket'] = "open" /\ client[socket'] = "open"
      BY <1>3, <1>11 DEF Live, Open
    <2>2. socket' = socket
      BY <2>1 DEF LetsGo
    <2>3. PICK s \in Sockets : s = socket
      BY <2>1, <2>2, ClientTypes
    <2>4. socket' = s /\ states[s] = "open" /\ readyState[s] = "open" /\ socketOf[c] = s
      BY <2>1, <2>2, <2>3 DEF Fades
    <2>5. c \notin calls
      BY <1>6, <2>1 DEF Settled
    <2>6. CountOf(down'[s], Answers(c)) = CountOf(down[s], Answers(c))
          /\ Spelled(s, c) /\ pendingRequests'[s] = pendingRequests[s]
          /\ CountOf(up'[s], {Request(c)}) = CountOf(up[s], {Request(c)}) + (IF c \in next THEN 1 ELSE 0)
      BY <1>8, <2>4, <2>5
    <2>7. CASE c \in next
      <3>1. PlacesOn(s, c) = 0
        BY <1>6, <2>7 DEF RpcInv, PlacesFit, Unsent
      <3>2. PlacesOn(s, c)' = 1
        BY <2>6, <2>7, <3>1 DEF Spelled
      <3> QED
        BY <2>4, <3>2
    <2>8. CASE c \notin next
      <3>1. PlacesOn(s, c)' = PlacesOn(s, c)
        BY <2>6, <2>8 DEF Spelled
      <3>2. Live(c)
        BY <1>7, <2>1, <2>2, <2>3, <2>4, <2>8 DEF Live, Open
      <3> QED
        BY <2>2, <2>3, <2>4, <3>1, <3>2
    <2> QED
      BY <2>7, <2>8
  <1>12. MovesCalls
    BY <1>7, <1>9, <1>10, <1>11 DEF MovesCalls
  <1>13. SocketsFit'
    BY <1>3, <1>7 DEF SocketsFit, RpcInv, Fades
  <1> QED
    BY <1>3, <1>4, <1>5, <1>12, <1>13, ClientKeeps

\* Calls that are not pending move, none of them into the queue.
CallsWait ==
    /\ phase' \in [Calls -> Phases]
    /\ \A c \in Calls : /\ phase'[c] = "pending" <=> phase[c] = "pending"
                        /\ phase'[c] \in Unsent => phase[c] \in Unsent
                        /\ phase[c] \in Settled => phase'[c] \in Settled
                        /\ phase'[c] = "queued" => phase[c] = "queued"
    /\ QueueFits' /\ (queue' # <<>> => queue # <<>>)
    /\ \A c \in Calls : phase'[c] = "queued" <=> Has(queue', c)
    /\ UNCHANGED <<socketOf, activeCount>>

\* Connections move, and the one the page has is kept or is a new one.
SocketsMove ==
    /\ readyState' \in [Sockets -> ReadyStates]
    /\ \A s \in Sockets :
          /\ readyState'[s] = "open" =>
                \/ readyState[s] = "open"
                \/ readyState[s] = "connecting" /\ client[s] # "unused"
          /\ readyState[s] \in {"open", "closing", "closed"}
                => readyState'[s] \in {"open", "closing", "closed"}
    /\ socket' \in Sockets \cup {None}
    /\ socket' = socket \/ readyState'[socket'] # "open"
    /\ attempt' \in Sockets \cup {None} /\ initial' \subseteq Sockets
    /\ ready' \in {"unsettled", "resolved", "rejected"}
    /\ enabled' \in BOOLEAN /\ reconnectTimer' \in BOOLEAN

\* What is lost on the way to the page is not for a pending call on its connection.
Overhears ==
    /\ down' \in [Sockets -> Seq(Responses)]
    /\ \A s \in Sockets, c \in Calls :
          /\ CountOf(down'[s], Answers(c)) <= CountOf(down[s], Answers(c))
          /\ socket = s /\ phase[c] = "pending"
                => CountOf(down'[s], Answers(c)) = CountOf(down[s], Answers(c))

\* Lemma: a step of the page that gives out no permit and takes none back.
LEMMA QuietKeeps ==
    ASSUME RpcInv, CallsWait, SocketsMove, Overhears, UNCHANGED <<up, client, transportVars>>
    PROVE  RpcInv'
  <1>1. /\ up' = up /\ client' = client /\ pendingRequests' = pendingRequests
        /\ socketOf' = socketOf /\ activeCount' = activeCount
        /\ up' \in [Sockets -> Seq(Requests)] /\ down' \in [Sockets -> Seq(Responses)]
    BY BackendTypes DEF transportVars, CallsWait, Overhears
  <1>2. WireTypeOK'
    BY <1>1, BackendTypes DEF WireTypeOK, SocketsMove
  <1>3. ClientTypeOK'
    BY <1>1, ClientTypes DEF ClientTypeOK, SocketsMove, CallsWait, QueueFits
  <1>4. PermitsFit'
    <2>1. In("pending")' = In("pending")
      BY DEF CallsWait, In
    <2> QED
      BY <1>1, <2>1, ClientTypes DEF PermitsFit, CallsWait, QueueFits
  <1>5. SocketsFit'
    <2>1. \A c \in Calls : phase'[c] \in {"queued", "pending"} => phase[c] \in {"queued", "pending"}
      BY DEF CallsWait
    <2>2. SocketsFit
      BY DEF RpcInv
    <2> QED
      BY <1>1, <2>1, <2>2 DEF SocketsFit, SocketsMove
  <1>6. ASSUME NEW s \in Sockets, NEW c \in Calls
        PROVE  /\ PlacesOn(s, c)' <= PlacesOn(s, c)
               /\ socket = s /\ phase[c] = "pending" => PlacesOn(s, c)' = PlacesOn(s, c)
    <2>1. PICK p \in 0..1 : p = IF c \in pendingRequests[s] THEN 1 ELSE 0
      OBVIOUS
    <2>2. Spelled(s, c)
      BY <1>1, PlacesSpelled
    <2>3. /\ CountOf(up[s], {Request(c)}) \in Nat /\ CountOf(down[s], Answers(c)) \in Nat
          /\ CountOf(down'[s], Answers(c)) \in Nat
          /\ PlacesOn(s, c) = CountOf(up[s], {Request(c)}) + p + CountOf(down[s], Answers(c))
          /\ PlacesOn(s, c)' = CountOf(up[s], {Request(c)}) + p + CountOf(down'[s], Answers(c))
      BY <1>1, <2>1, <2>2 DEF Spelled
    <2> QED
      BY <2>3 DEF Overhears
  <1>7. ASSUME NEW c \in Calls, Live(c)'
        PROVE  Live(c) /\ socket' = socket /\ PlacesOn(socket, c)' = PlacesOn(socket, c)
    <2>1. /\ phase[c] = "pending" /\ socketOf[c] = socket' /\ client[socket'] = "open"
          /\ socket' # None /\ readyState'[socket'] = "open"
      BY <1>1, <1>7 DEF Live, Open, CallsWait
    <2>2. PICK s \in Sockets : s = socket'
      BY <2>1 DEF SocketsMove
    <2>3. socket = s /\ socketOf[c] = s
      BY <2>1, <2>2 DEF SocketsMove
    <2>4. readyState[s] = "open"
      BY <2>1, <2>2, <2>3 DEF SocketsMove, RpcInv, SocketsFit
    <2>5. Live(c)
      BY <2>1, <2>2, <2>3, <2>4 DEF Live, Open
    <2> QED
      BY <1>6, <2>1, <2>2, <2>3, <2>5
  <1>8. MovesCalls
    BY <1>1, <1>6, <1>7 DEF MovesCalls, CallsWait
  <1> QED
    BY <1>2, <1>3, <1>4, <1>5, <1>8, ClientKeeps

\* Lemma: without a response heard, nothing is missed.
LEMMA NothingHeard ==
    ASSUME RpcInv, UNCHANGED down
    PROVE  Overhears /\ Hears({}, up)
  <1>1. \A s \in Sockets, c \in Calls : CountOf(down[s], Answers(c)) \in Nat
    BY WireTypes, CountType DEF RpcInv, TypeOK
  <1>2. down' = down /\ down \in [Sockets -> Seq(Responses)] /\ up \in [Sockets -> Seq(Requests)]
    BY BackendTypes
  <1> QED
    BY <1>1, <1>2 DEF Overhears, Hears

\* Lemma: the next socket of the page is an unused one.
LEMMA NextSocketFacts ==
    ASSUME RpcInv, Unused # {}
    PROVE  NextSocket \in Sockets /\ readyState[NextSocket] = "unused"
  <1>0. PICK K : K = Unused
    OBVIOUS
  <1>1. K \subseteq Nat /\ K \subseteq Sockets /\ IsFiniteSet(K) /\ K # {}
    <2>1. IsFiniteSet(Sockets) /\ Sockets \subseteq Nat
      BY WireAssumption, FS_Interval DEF Sockets
    <2>2. K \in SUBSET Sockets
      BY <1>0 DEF Unused
    <2> QED
      BY <1>0, <2>1, <2>2, FS_Subset
  <1>2. OrdersAll(K, NumberOrder)
    BY <1>1, NumbersInLine
  <1>3. Cardinality(K) \in Nat /\ Cardinality(K) # 0
    BY <1>1, FS_CardinalityType, FS_EmptySet
  <1>4. /\ \A i \in K : Rank(K, NumberOrder, i) \in 0..(Cardinality(K) - 1)
        /\ \A i, j \in K : <<i, j>> \in NumberOrder
              <=> Rank(K, NumberOrder, i) < Rank(K, NumberOrder, j)
        /\ \A n \in 0..(Cardinality(K) - 1) : \E i \in K : Rank(K, NumberOrder, i) = n
    <2>1. IsFiniteSet(K) /\ OrdersAll(K, NumberOrder)
      BY <1>1, <1>2
    <2> QED
      BY <2>1, Ranks
  <1>5. PICK s \in K : Rank(K, NumberOrder, s) = 0
    <2>1. 0 \in 0..(Cardinality(K) - 1)
      BY <1>3
    <2> QED
      BY <1>4, <2>1
  <1>6. ASSUME NEW r \in K PROVE s <= r
    <2>1. <<r, s>> \notin NumberOrder
      BY <1>4, <1>5
    <2>2. r \in Nat /\ s \in Nat
      BY <1>1
    <2> QED
      BY <2>1, <2>2 DEF NumberOrder
  <1>7. NextSocket \in Unused
    BY <1>0, <1>5, <1>6 DEF NextSocket
  <1> QED
    BY <1>7 DEF Unused

\* Lemma: the calls are as they were.
LEMMA CallsStay ==
    ASSUME RpcInv, UNCHANGED <<phase, queue, socketOf, activeCount>>
    PROVE  CallsWait
  <1>1. phase' = phase /\ queue' = queue /\ phase \in [Calls -> Phases] /\ QueueFits
        /\ \A c \in Calls : phase[c] = "queued" <=> Has(queue, c)
    BY ClientTypes
  <1> QED
    BY <1>1 DEF CallsWait, QueueFits

\* Lemma: a call that is not pending goes where it need not be queued.
LEMMA OneCallMoves ==
    ASSUME RpcInv, NEW c \in Calls, phase[c] \in {"idle", "waiting", "stranded"},
           NEW p \in {"waiting", "failed", "aborted"}, p = "waiting" => phase[c] = "idle",
           phase' = [phase EXCEPT ![c] = p], UNCHANGED <<queue, socketOf, activeCount>>
    PROVE  CallsWait
  <1>1. queue' = queue /\ phase \in [Calls -> Phases] /\ QueueFits
        /\ \A d \in Calls : phase[d] = "queued" <=> Has(queue, d)
    BY ClientTypes
  <1>2. phase' \in [Calls -> Phases] /\ phase'[c] = p /\ \A d \in Calls : d # c => phase'[d] = phase[d]
    BY <1>1 DEF Phases, Settled
  <1> QED
    BY <1>1, <1>2 DEF CallsWait, QueueFits, Unsent, Settled

\* Lemma: the connections are as they were.
LEMMA SocketsStay ==
    ASSUME RpcInv, UNCHANGED <<readyState, socket, attempt, initial, ready>>,
           enabled' \in BOOLEAN, reconnectTimer' \in BOOLEAN
    PROVE  SocketsMove
  <1>1. readyState \in [Sockets -> ReadyStates] /\ readyState' = readyState
    BY BackendTypes
  <1> QED
    BY <1>1, ConnectionTypes DEF SocketsMove

\* Lemma: an attempt begins.
LEMMA ConnectMoves ==
    ASSUME RpcInv, Connect, UNCHANGED socket, initial' \subseteq Sockets,
           ready' \in {"unsettled", "resolved", "rejected"},
           enabled' \in BOOLEAN, reconnectTimer' \in BOOLEAN
    PROVE  SocketsMove /\ NextSocket \in Sockets
  <1>1. NextSocket \in Sockets /\ readyState[NextSocket] = "unused"
    BY NextSocketFacts DEF Connect
  <1>2. PICK s \in Sockets : s = NextSocket
    BY <1>1
  <1>3. readyState \in [Sockets -> ReadyStates] /\ readyState' = [readyState EXCEPT ![s] = "ticket"]
        /\ attempt' = s /\ readyState[s] = "unused"
    BY <1>1, <1>2, BackendTypes DEF Connect
  <1>4. readyState' \in [Sockets -> ReadyStates] /\ readyState'[s] = "ticket"
        /\ \A q \in Sockets : q # s => readyState'[q] = readyState[q]
    BY <1>3 DEF ReadyStates
  <1> QED
    BY <1>1, <1>2, <1>3, <1>4, ConnectionTypes DEF SocketsMove

\* Lemma: what the calls of the page do before they are sent.
LEMMA CallKeeps ==
    ASSUME RpcInv, NEW c \in Calls, SendRequest(c) \/ NotReady(c) \/ AbortUnsent(c),
           UNCHANGED transportVars
    PROVE  RpcInv'
  <1>1. UNCHANGED <<readyState, socket, attempt, initial, ready, enabled, reconnectTimer>>
        /\ UNCHANGED <<up, down, client, socketOf, activeCount>>
    BY DEF SendRequest, NotReady, AbortUnsent, wireVars, connectionVars
  <1>2. SocketsMove
    BY <1>1, SocketsStay, ClientTypes
  <1>3. Overhears
    BY <1>1, NothingHeard
  <1>4. CASE SendRequest(c)
    <2>1. PICK p \in {"waiting", "failed"} : p = IF enabled THEN "waiting" ELSE "failed"
      OBVIOUS
    <2>2. phase[c] = "idle" /\ phase' = [phase EXCEPT ![c] = p] /\ queue' = queue
      BY <1>4, <2>1 DEF SendRequest
    <2>3. CallsWait
      BY <1>1, <2>1, <2>2, OneCallMoves
    <2> QED
      BY <1>1, <1>2, <1>3, <2>3, QuietKeeps
  <1>5. CASE NotReady(c)
    <2>1. phase[c] = "waiting" /\ phase' = [phase EXCEPT ![c] = "failed"] /\ queue' = queue
      BY <1>5 DEF NotReady
    <2>2. CallsWait
      BY <1>1, <2>1, OneCallMoves
    <2> QED
      BY <1>1, <1>2, <1>3, <2>2, QuietKeeps
  <1>6. CASE AbortUnsent(c)
    <2>1. /\ phase[c] \in {"waiting", "stranded", "queued"} /\ phase' = [phase EXCEPT ![c] = "aborted"]
          /\ queue' = Without({c})
      BY <1>6 DEF AbortUnsent
    <2>2. /\ queue' \in Seq(Calls)
          /\ \A i, j \in 1..Len(queue') : queue'[i] = queue'[j] => i = j
          /\ \A d \in Calls : Has(queue', d) <=> d # c /\ Has(queue, d)
      <3>1. PICK rest : rest = Without({c})
        OBVIOUS
      <3>2. /\ rest \in Seq(Calls)
            /\ \A i, j \in 1..Len(rest) : rest[i] = rest[j] => i = j
            /\ \A d \in Calls : Has(rest, d) <=> d \notin {c} /\ Has(queue, d)
        BY <3>1, ClientTypes, WithoutFacts
      <3> QED
        BY <2>1, <3>1, <3>2
    <2>3. queue' # <<>> => queue # <<>>
      <3>1. ASSUME queue' # <<>> PROVE queue # <<>>
        <4>1. 1 \in 1..Len(queue') /\ queue'[1] \in Calls
          BY <2>2, <3>1
        <4>2. \E d \in Calls : Has(queue, d)
          BY <2>2, <4>1 DEF Has
        <4> QED
          BY <4>2 DEF Has
      <3> QED
        BY <3>1
    <2>4. phase' \in [Calls -> Phases] /\ phase'[c] = "aborted"
          /\ \A d \in Calls : d # c => phase'[d] = phase[d]
      BY <2>1, ClientTypes DEF Phases, Settled
    <2>5. \A d \in Calls : phase[d] = "queued" <=> Has(queue, d)
      BY ClientTypes
    <2>6. CallsWait
      BY <1>1, <2>1, <2>2, <2>3, <2>4, <2>5 DEF CallsWait, QueueFits, Unsent, Settled
    <2> QED
      BY <1>1, <1>2, <1>3, <2>6, QuietKeeps
  <1> QED
    BY <1>4, <1>5, <1>6

\* Lemma: attempts to connect.
LEMMA AttemptKeeps ==
    ASSUME RpcInv, EnableRpcTransport \/ ReconnectTimerFires, UNCHANGED transportVars
    PROVE  RpcInv'
  <1>1. UNCHANGED <<socket, up, down, client, socketOf, activeCount, queue>>
    BY DEF EnableRpcTransport, ReconnectTimerFires
  <1>2. Overhears
    BY <1>1, NothingHeard
  <1>3. CASE EnableRpcTransport /\ UNCHANGED <<phase, ready, readyState, attempt, initial, reconnectTimer>>
    <2>1. enabled' \in BOOLEAN
      BY <1>3 DEF EnableRpcTransport
    <2> QED
      BY <1>1, <1>2, <1>3, <2>1, CallsStay, SocketsStay, ClientTypes, QuietKeeps
  <1>4. CASE EnableRpcTransport /\ phase' = Stranded /\ ready' = "unsettled" /\ Connect
             /\ initial' = initial \cup {NextSocket} /\ reconnectTimer' = FALSE
    <2>1. enabled' \in BOOLEAN
      BY <1>4 DEF EnableRpcTransport
    <2>2. NextSocket \in Sockets
      BY <1>4, NextSocketFacts DEF Connect
    <2>3. SocketsMove
      BY <1>1, <1>4, <2>1, <2>2, ClientTypes, ConnectMoves
    <2>4. \A c \in Calls : phase'[c] = IF phase[c] = "waiting" THEN "stranded" ELSE phase[c]
      BY <1>4 DEF Stranded
    <2>5. phase' \in [Calls -> Phases]
      BY <1>4, ClientTypes DEF Stranded, Phases
    <2>6. QueueFits /\ \A c \in Calls : phase[c] = "queued" <=> Has(queue, c)
      BY ClientTypes
    <2>7. CallsWait
      BY <1>1, <2>4, <2>5, <2>6 DEF CallsWait, QueueFits, Unsent, Settled
    <2> QED
      BY <1>1, <1>2, <2>3, <2>7, QuietKeeps
  <1>5. CASE ReconnectTimerFires
    <2>1. UNCHANGED <<phase, enabled, initial, ready>> /\ reconnectTimer' = FALSE
      BY <1>5 DEF ReconnectTimerFires
    <2>2. CallsWait
      BY <1>1, <2>1, CallsStay
    <2>3. CASE UNCHANGED <<readyState, attempt>>
      BY <1>1, <1>2, <2>1, <2>2, <2>3, SocketsStay, ClientTypes, QuietKeeps
    <2>4. CASE Connect
      <3>1. SocketsMove
        BY <1>1, <2>1, <2>4, ClientTypes, ConnectMoves
      <3> QED
        BY <1>1, <1>2, <2>2, <3>1, QuietKeeps
    <2> QED
      BY <1>5, <2>3, <2>4 DEF ReconnectTimerFires
  <1> QED
    BY <1>3, <1>4, <1>5 DEF EnableRpcTransport

\* Lemma: a connection gets its ticket or not, opens, or begins to close.
LEMMA OpeningKeeps ==
    ASSUME RpcInv, NEW s \in Sockets,
           TicketIssued(s) \/ TicketFails(s) \/ OpenEvent(s) \/ ClosingTask(s),
           UNCHANGED transportVars
    PROVE  RpcInv'
  <1>1. UNCHANGED <<phase, queue, socketOf, activeCount, up, down, client>>
    BY DEF TicketIssued, TicketFails, OpenEvent, ClosingTask, clientVars
  <1>2. CallsWait /\ Overhears
    BY <1>1, CallsStay, NothingHeard
  <1>3. readyState \in [Sockets -> ReadyStates]
    BY BackendTypes
  <1>4. CASE TicketIssued(s)
    <2>1. readyState' \in [Sockets -> ReadyStates] /\ readyState'[s] = "connecting"
          /\ readyState[s] = "ticket" /\ \A q \in Sockets : q # s => readyState'[q] = readyState[q]
      BY <1>3, <1>4 DEF TicketIssued, ReadyStates
    <2>2. socket' = s /\ attempt' = None /\ UNCHANGED <<initial, ready, enabled, reconnectTimer>>
      BY <1>4 DEF TicketIssued
    <2>3. SocketsMove
      BY <2>1, <2>2, ConnectionTypes DEF SocketsMove
    <2> QED
      BY <1>1, <1>2, <2>3, QuietKeeps
  <1>5. CASE TicketFails(s)
    <2>1. readyState' \in [Sockets -> ReadyStates] /\ readyState'[s] = "closed"
          /\ readyState[s] = "ticket" /\ \A q \in Sockets : q # s => readyState'[q] = readyState[q]
      BY <1>3, <1>5 DEF TicketFails, ReadyStates
    <2>2. socket' = socket /\ attempt' = None /\ UNCHANGED <<initial, enabled>>
          /\ ready' \in {ready, "rejected"} /\ reconnectTimer' \in {reconnectTimer, enabled}
      BY <1>5 DEF TicketFails
    <2>3. SocketsMove
      BY <2>1, <2>2, ConnectionTypes DEF SocketsMove
    <2> QED
      BY <1>1, <1>2, <2>3, QuietKeeps
  <1>6. CASE OpenEvent(s)
    <2>1. readyState' \in [Sockets -> ReadyStates] /\ readyState'[s] = "open"
          /\ readyState[s] = "connecting" /\ client[s] # "unused"
          /\ \A q \in Sockets : q # s => readyState'[q] = readyState[q]
      BY <1>3, <1>6 DEF OpenEvent, ReadyStates
    <2>2. UNCHANGED <<socket, attempt, initial, enabled, reconnectTimer>>
          /\ ready' \in {ready, "resolved"}
      BY <1>6 DEF OpenEvent
    <2>3. SocketsMove
      BY <2>1, <2>2, ConnectionTypes DEF SocketsMove
    <2> QED
      BY <1>1, <1>2, <2>3, QuietKeeps
  <1>7. CASE ClosingTask(s)
    <2>1. readyState' \in [Sockets -> ReadyStates] /\ readyState'[s] = "closing"
          /\ readyState[s] = "open" /\ \A q \in Sockets : q # s => readyState'[q] = readyState[q]
      BY <1>3, <1>7 DEF ClosingTask, ReadyStates
    <2>2. UNCHANGED <<socket, attempt, initial, ready, enabled, reconnectTimer>>
      BY <1>7 DEF ClosingTask, clientVars
    <2>3. SocketsMove
      BY <2>1, <2>2, ConnectionTypes DEF SocketsMove
    <2> QED
      BY <1>1, <1>2, <2>3, QuietKeeps
  <1> QED
    BY <1>4, <1>5, <1>6, <1>7

\* Lemma: a caller finds the connection open and asks for a permit.
LEMMA AcquireKeeps ==
    ASSUME RpcInv, NEW c \in Calls, Acquire(c), UNCHANGED transportVars
    PROVE  RpcInv'
  <1>1. PICK s \in Sockets : s = socket
    BY ConnectionTypes DEF Acquire, Open
  <1>2. /\ phase[c] = "waiting" /\ readyState[s] = "open" /\ client[s] # "unused"
        /\ socketOf' = [socketOf EXCEPT ![c] = s]
        /\ UNCHANGED <<readyState, client, down, enabled, socket, attempt, initial, ready, reconnectTimer>>
        /\ pendingRequests' = pendingRequests
    BY <1>1 DEF Acquire, Open, connectionVars, transportVars, RpcInv, SocketsFit
  <1>3. /\ phase \in [Calls -> Phases] /\ socketOf \in [Calls -> Sockets \cup {None}]
        /\ QueueFits /\ activeCount \in Nat /\ activeCount <= MaxInFlight /\ MaxInFlight \in Nat
        /\ IsFiniteSet(In("pending")) /\ activeCount = Cardinality(In("pending"))
        /\ queue # <<>> => activeCount = MaxInFlight
        /\ \A d \in Calls : phase[d] = "queued" <=> Has(queue, d)
    BY ClientTypes
  <1>4. /\ socketOf' \in [Calls -> Sockets \cup {None}] /\ socketOf'[c] = s
        /\ \A d \in Calls : d # c => socketOf'[d] = socketOf[d]
    BY <1>2, <1>3
  <1>5. ASSUME phase' \in [Calls -> Phases], phase'[c] \in {"queued", "pending"},
               \A d \in Calls : d # c => phase'[d] = phase[d]
        PROVE  SocketsFit'
    <2>1. SocketsFit
      BY DEF RpcInv
    <2>2. ASSUME NEW d \in Calls
          PROVE  /\ phase'[d] \in {"queued", "pending"} => socketOf'[d] \in Sockets
                 /\ \A q \in Sockets : socketOf'[d] = q =>
                       readyState[q] \in {"open", "closing", "closed"} /\ client[q] # "unused"
      <3>1. CASE d = c
        BY <1>2, <1>4, <3>1
      <3>2. CASE d # c
        BY <1>4, <1>5, <2>1, <3>2 DEF SocketsFit
      <3> QED
        BY <3>1, <3>2
    <2> QED
      BY <1>2, <2>1, <2>2 DEF SocketsFit
  <1>6. CASE activeCount < MaxInFlight
    <2>1. /\ phase' = [phase EXCEPT ![c] = "pending"] /\ activeCount' = activeCount + 1
          /\ up' = [up EXCEPT ![s] = Append(up[s], Request(c))] /\ queue' = queue
      BY <1>1, <1>6 DEF Acquire
    <2>2. /\ phase' \in [Calls -> Phases] /\ phase'[c] = "pending"
          /\ \A d \in Calls : d # c => phase'[d] = phase[d]
      BY <1>3, <2>1 DEF Phases
    <2>3. PICK frames \in Seq(Requests) : frames = up[s]
      BY BackendTypes
    <2>4. /\ Append(frames, Request(c)) \in Seq(Requests)
          /\ \A d \in Calls : CountOf(Append(frames, Request(c)), {Request(d)}) =
                CountOf(frames, {Request(d)}) + (IF Request(c) = Request(d) THEN 1 ELSE 0)
          /\ \A x : Has(Append(frames, Request(c)), x) => Has(frames, x) \/ x = Request(c)
      <3>1. Request(c) \in Requests
        BY FrameFacts
      <3> QED
        BY <3>1, AppendedFrame
    <2>5. /\ up' \in [Sockets -> Seq(Requests)] /\ up'[s] = Append(frames, Request(c))
          /\ \A q \in Sockets : q # s => up'[q] = up[q]
      BY <2>1, <2>3, <2>4, BackendTypes
    <2>6. \A d \in Calls : (Request(c) = Request(d) <=> c = d) /\ Cancel(d) # Request(c)
      BY FrameFacts
    <2>7. WireTypeOK'
      BY <1>2, <2>5, BackendTypes DEF WireTypeOK
    <2>8. ClientTypeOK'
      BY <1>2, <1>3, <1>4, <1>6, <2>1, <2>2, ConnectionTypes DEF ClientTypeOK, QueueFits
    <2>9. PermitsFit'
      <3>1. In("pending")' = In("pending") \cup {c} /\ c \notin In("pending")
        BY <1>2, <2>2 DEF In
      <3>2. PICK P : P = In("pending")
        OBVIOUS
      <3>3. IsFiniteSet(P \cup {c}) /\ Cardinality(P \cup {c}) = activeCount + 1
        BY <1>3, <3>1, <3>2, FS_AddElement
      <3>4. queue = <<>>
        BY <1>3, <1>6
      <3>5. \A d \in Calls : phase'[d] = "queued" <=> Has(queue, d)
        BY <1>2, <1>3, <2>2
      <3>6. IsFiniteSet(In("pending")') /\ activeCount' = Cardinality(In("pending")')
        BY <2>1, <3>1, <3>2, <3>3
      <3>7. \A i, j \in 1..Len(queue') : queue'[i] = queue'[j] => i = j
        BY <1>3, <2>1 DEF QueueFits
      <3> QED
        BY <2>1, <3>4, <3>5, <3>6, <3>7 DEF PermitsFit
    <2>10. ASSUME NEW q \in Sockets, NEW d \in Calls
           PROVE  PlacesOn(q, d)' = PlacesOn(q, d) + (IF q = s /\ d = c THEN 1 ELSE 0)
      <3>1. Spelled(q, d)
        BY <1>2, <2>5, BackendTypes, PlacesSpelled
      <3>2. PICK p \in 0..1 : p = IF d \in pendingRequests[q] THEN 1 ELSE 0
        OBVIOUS
      <3>3. CountOf(up'[q], {Request(d)}) = CountOf(up[q], {Request(d)})
               + (IF q = s /\ d = c THEN 1 ELSE 0)
        <4>1. CASE q = s
          BY <2>3, <2>4, <2>5, <2>6, <4>1
        <4>2. CASE q # s
          BY <2>5, <3>1, <4>2 DEF Spelled
        <4> QED
          BY <4>1, <4>2
      <3>4. /\ CountOf(up[q], {Request(d)}) \in Nat /\ CountOf(down[q], Answers(d)) \in Nat
            /\ PlacesOn(q, d) = CountOf(up[q], {Request(d)}) + p + CountOf(down[q], Answers(d))
            /\ PlacesOn(q, d)' = CountOf(up'[q], {Request(d)}) + p + CountOf(down[q], Answers(d))
        BY <1>2, <3>1, <3>2 DEF Spelled
      <3> QED
        BY <3>3, <3>4
    <2>11. MovesCalls
      <3>1. \A q \in Sockets, d \in Calls : PlacesOn(q, d) \in Nat
        BY BackendTypes
      <3>2. phase[c] \in Unsent /\ phase[c] \notin Settled /\ phase'[c] \notin Unsent
        BY <1>2, <2>2 DEF Unsent, Settled
      <3>3. ASSUME NEW q \in Sockets, NEW d \in Calls
            PROVE  \/ PlacesOn(q, d)' <= PlacesOn(q, d)
                   \/ phase[d] \in Unsent /\ phase'[d] = "pending" /\ PlacesOn(q, d)' <= PlacesOn(q, d) + 1
        <4>1. CASE d = c
          BY <2>2, <2>10, <3>1, <3>2, <4>1
        <4>2. CASE d # c
          BY <2>10, <3>1, <4>2
        <4> QED
          BY <4>1, <4>2
      <3>4. ASSUME NEW q \in Sockets, NEW d \in Calls, Has(up'[q], Cancel(d))
            PROVE  Has(up[q], Cancel(d))
        BY <2>3, <2>4, <2>5, <2>6, <3>4
      <3>5. ASSUME NEW d \in Calls, Live(d)'
            PROVE  \/ PlacesOn(socket, d)' = 1
                   \/ Live(d) /\ socket' = socket /\ PlacesOn(socket, d)' = PlacesOn(socket, d)
        <4>1. CASE d = c
          <5>1. PlacesOn(s, c) = 0
            BY <3>2 DEF RpcInv, PlacesFit
          <5>2. PlacesOn(s, c)' = 1
            BY <2>10, <5>1
          <5> QED
            BY <1>1, <1>2, <4>1, <5>2
        <4>2. CASE d # c
          <5>1. PlacesOn(s, d)' = PlacesOn(s, d)
            BY <2>10, <3>1, <4>2
          <5>2. Live(d)
            BY <1>2, <1>4, <2>2, <3>5, <4>2 DEF Live, Open
          <5> QED
            BY <1>1, <1>2, <5>1, <5>2
        <4> QED
          BY <4>1, <4>2
      <3>6. \A d \in Calls : /\ phase'[d] \in Unsent => phase[d] \in Unsent
                             /\ phase[d] \in Settled => phase'[d] \in Settled
        BY <2>2, <3>2
      <3> QED
        BY <3>3, <3>4, <3>5, <3>6 DEF MovesCalls
    <2> QED
      BY <1>2, <1>5, <2>2, <2>7, <2>8, <2>9, <2>11, ClientKeeps
  <1>7. CASE ~(activeCount < MaxInFlight)
    <2>1. /\ phase' = [phase EXCEPT ![c] = "queued"] /\ queue' = Append(queue, c)
          /\ activeCount' = activeCount /\ up' = up
      BY <1>7 DEF Acquire
    <2>2. /\ phase' \in [Calls -> Phases] /\ phase'[c] = "queued"
          /\ \A d \in Calls : d # c => phase'[d] = phase[d]
      BY <1>3, <2>1 DEF Phases
    <2>3. WireTypeOK'
      BY <1>2, <2>1, BackendTypes DEF WireTypeOK
    <2>4. queue' \in Seq(Calls)
      BY <1>3, <2>1 DEF QueueFits
    <2>5. ClientTypeOK'
      BY <1>2, <1>3, <1>4, <2>1, <2>2, <2>4, ConnectionTypes DEF ClientTypeOK
    <2>6. PermitsFit'
      <3>1. In("pending")' = In("pending")
        BY <1>2, <2>2 DEF In
      <3>2. /\ Len(queue) \in Nat /\ Len(queue') = Len(queue) + 1 /\ queue'[Len(queue) + 1] = c
            /\ \A i \in 1..Len(queue) : queue'[i] = queue[i]
        BY <1>3, <2>1 DEF QueueFits
      <3>3. \A i \in 1..Len(queue) : queue[i] # c
        BY <1>2, <1>3 DEF Has
      <3>4. \A i \in 1..Len(queue') : i \in 1..Len(queue) \/ i = Len(queue) + 1
        BY <3>2
      <3>5. \A i, j \in 1..Len(queue') : queue'[i] = queue'[j] => i = j
        BY <1>3, <3>2, <3>3, <3>4 DEF QueueFits
      <3>6. Len(queue) + 1 \in 1..Len(queue') /\ \A i \in 1..Len(queue) : i \in 1..Len(queue')
        BY <3>2
      <3>7. \A d \in Calls : Has(queue', d) <=> Has(queue, d) \/ d = c
        BY <3>2, <3>4, <3>6 DEF Has
      <3>8. \A d \in Calls : phase'[d] = "queued" <=> Has(queue', d)
        BY <1>3, <2>2, <3>7
      <3>9. activeCount = MaxInFlight
        BY <1>3, <1>7
      <3> QED
        BY <1>3, <2>1, <3>1, <3>5, <3>8, <3>9 DEF PermitsFit
    <2>7. \A q \in Sockets, d \in Calls : PlacesOn(q, d)' = PlacesOn(q, d) /\ PlacesOn(q, d) \in Nat
      BY <1>2, <2>1, BackendTypes, SamePlaces
    <2>8. ASSUME NEW d \in Calls, Live(d)'
          PROVE  Live(d) /\ socket' = socket /\ PlacesOn(socket, d)' = PlacesOn(socket, d)
      BY <1>1, <1>2, <1>4, <2>2, <2>7, <2>8 DEF Live, Open
    <2>9. MovesCalls
      <3>1. \A d \in Calls : /\ phase'[d] \in Unsent => phase[d] \in Unsent
                             /\ phase[d] \in Settled => phase'[d] \in Settled
        BY <1>2, <2>2 DEF Unsent, Settled
      <3> QED
        BY <2>1, <2>7, <2>8, <3>1 DEF MovesCalls
    <2> QED
      BY <1>2, <1>5, <2>2, <2>3, <2>5, <2>6, <2>9, ClientKeeps
  <1> QED
    BY <1>6, <1>7

\* Lemma: one connection changes.
LEMMA OneFades ==
    ASSUME RpcInv, NEW s \in Sockets, NEW x \in {"closing", "closed"}, NEW states, Fades(states),
           NEW closed, closed = [states EXCEPT ![s] = x]
    PROVE  Fades(closed)
  <1>1. states \in [Sockets -> ReadyStates]
    BY DEF Fades
  <1>2. closed \in [Sockets -> ReadyStates] /\ closed[s] = x
        /\ \A q \in Sockets : q # s => closed[q] = states[q]
    BY <1>1 DEF ReadyStates
  <1> QED
    BY <1>2 DEF Fades

\* Lemma: the states as they are.
LEMMA NoneFades == RpcInv => Fades(readyState) /\ Waits(phase)
  BY BackendTypes, ClientTypes DEF Fades, Waits

\* Lemma: a call that was sent is aborted, and the backend told.
LEMMA AbortKeeps ==
    ASSUME RpcInv, NEW c \in Calls, AbortPending(c), UNCHANGED transportVars
    PROVE  RpcInv'
  <1>1. PICK frames : frames = IF Open(socketOf[c])
                               THEN [up EXCEPT ![socketOf[c]] = Append(up[socketOf[c]], Cancel(c))]
                               ELSE up
    OBVIOUS
  <1>2. /\ phase[c] = "pending" /\ Finalize({c}, "aborted", phase, frames, readyState)
        /\ UNCHANGED <<readyState, client, down, socketOf>> /\ UNCHANGED connectionVars
    BY <1>1 DEF AbortPending
  <1>3. /\ up \in [Sockets -> Seq(Requests)] /\ down' = down /\ down \in [Sockets -> Seq(Responses)]
        /\ \A s \in Sockets, d \in Calls : CountOf(down[s], Answers(d)) \in Nat
                                           /\ CountOf(up[s], {Request(d)}) \in Nat
    BY <1>2, BackendTypes, CountType
  <1>4. /\ frames \in [Sockets -> Seq(Requests)]
        /\ \A s \in Sockets, d \in Calls :
              /\ CountOf(frames[s], {Request(d)}) = CountOf(up[s], {Request(d)})
              /\ Has(frames[s], Cancel(d)) => Has(up[s], Cancel(d)) \/ d = c
    <2>1. CASE ~Open(socketOf[c])
      BY <1>1, <1>3, <2>1
    <2>2. CASE Open(socketOf[c])
      <3>1. PICK s \in Sockets : s = socketOf[c]
        BY <1>2 DEF RpcInv, SocketsFit
      <3>2. PICK old \in Seq(Requests) : old = up[s]
        BY <1>3
      <3>3. frames = [up EXCEPT ![s] = Append(old, Cancel(c))]
        BY <1>1, <2>2, <3>1, <3>2
      <3>4. /\ Append(old, Cancel(c)) \in Seq(Requests)
            /\ \A d \in Calls : CountOf(Append(old, Cancel(c)), {Request(d)}) =
                  CountOf(old, {Request(d)}) + (IF Cancel(c) = Request(d) THEN 1 ELSE 0)
            /\ \A x : Has(Append(old, Cancel(c)), x) => Has(old, x) \/ x = Cancel(c)
        <4>1. Cancel(c) \in Requests
          BY FrameFacts
        <4> QED
          BY <4>1, AppendedFrame
      <3>5. /\ frames \in [Sockets -> Seq(Requests)] /\ frames[s] = Append(old, Cancel(c))
            /\ \A q \in Sockets : q # s => frames[q] = up[q]
        BY <1>3, <3>3, <3>4
      <3>6. \A d \in Calls : Cancel(c) # Request(d) /\ (Cancel(d) = Cancel(c) => d = c)
        BY FrameFacts
      <3>7. \A d \in Calls : CountOf(frames[s], {Request(d)}) = CountOf(up[s], {Request(d)})
        BY <1>3, <3>2, <3>4, <3>5, <3>6
      <3>8. \A d \in Calls : Has(frames[s], Cancel(d)) => Has(up[s], Cancel(d)) \/ d = c
        BY <3>2, <3>4, <3>5, <3>6
      <3> QED
        BY <3>5, <3>7, <3>8
    <2> QED
      BY <2>1, <2>2
  <1>5. Hears({c}, frames)
    <2>1. \A s \in Sockets, d \in Calls : down'[s] = down[s]
             /\ CountOf(down'[s], Answers(d)) <= CountOf(down[s], Answers(d))
      <3>1. ASSUME NEW s \in Sockets, NEW d \in Calls
            PROVE  down'[s] = down[s] /\ CountOf(down'[s], Answers(d)) <= CountOf(down[s], Answers(d))
        <4>1. PICK n \in Nat : n = CountOf(down[s], Answers(d))
          BY <1>3
        <4>2. down'[s] = down[s]
          BY <1>3
        <4>3. CountOf(down'[s], Answers(d)) = n
          BY <4>1, <4>2
        <4> QED
          BY <4>1, <4>2, <4>3
      <3> QED
        BY <3>1
    <2>2. down' \in [Sockets -> Seq(Responses)]
      BY <1>3
    <2> QED
      BY <1>4, <2>1, <2>2 DEF Hears
  <1>6. LetsGo
    BY <1>2, ConnectionTypes DEF LetsGo, connectionVars
  <1>7. Fades(readyState) /\ Waits(phase) /\ "aborted" \in Settled /\ {c} \subseteq In("pending")
    BY <1>2, NoneFades DEF Settled, In
  <1>8. UNCHANGED <<client, socketOf, transportVars>>
    BY <1>2
  <1>9. PICK states : states = readyState
    OBVIOUS
  <1>10. PICK phases : phases = phase
    OBVIOUS
  <1> QED
    BY <1>2, <1>5, <1>6, <1>7, <1>8, <1>9, <1>10, SettlingKeeps

\* Lemma: the transport is disabled, and all pending calls fail.
LEMMA DisableKeeps ==
    ASSUME RpcInv, NEW phases, Waits(phases), NEW states, Fades(states),
           Disable(phases, states), UNCHANGED <<client, transportVars>>,
           down' \in [Sockets -> Seq(Responses)],
           \A s \in Sockets, c \in Calls :
              CountOf(down'[s], Answers(c)) <= CountOf(down[s], Answers(c))
    PROVE  RpcInv'
  <1>1. PICK closed : closed = IF socket = None THEN states ELSE [states EXCEPT ![socket] = "closing"]
    OBVIOUS
  <1>2. /\ Finalize(In("pending"), "failed", phases, up, closed)
        /\ readyState' = closed
        /\ enabled' = FALSE /\ reconnectTimer' = FALSE
        /\ socket' = None /\ attempt' = None
        /\ ready' = "unsettled"
        /\ UNCHANGED <<socketOf, initial>>
    BY <1>1 DEF Disable
  <1>3. Fades(closed)
    <2>1. CASE socket = None
      BY <1>1, <2>1
    <2>2. CASE socket # None
      <3>1. PICK s \in Sockets : s = socket
        BY <2>2, ConnectionTypes
      <3>2. closed = [states EXCEPT ![s] = "closing"]
        BY <1>1, <2>2, <3>1
      <3> QED
        BY <3>2, OneFades
    <2> QED
      BY <2>1, <2>2
  <1>4. Hears(In("pending"), up)
    BY <1>2, ConnectionTypes, BackendTypes DEF Hears
  <1>5. LetsGo
    BY <1>2, ConnectionTypes DEF LetsGo
  <1>6. "failed" \in Settled
    BY DEF Settled
  <1>7. PICK frames : frames = up
    OBVIOUS
  <1>8. PICK calls : calls = In("pending")
    OBVIOUS
  <1> QED
    BY <1>2, <1>3, <1>4, <1>5, <1>6, <1>7, <1>8, SettlingKeeps

\* Lemma: the callers that wait are told of a refusal.
LEMMA RefusalWaits ==
    ASSUME RpcInv
    PROVE  /\ Waits([c \in Calls |-> IF phase[c] = "waiting" THEN "failed" ELSE phase[c]])
           /\ Waits(Stranded)
  BY ClientTypes DEF Waits, Stranded, Phases, Settled

\* Lemma: the transport is disabled by the shell, or with a ticket refused.
LEMMA DisablingKeeps ==
    ASSUME RpcInv, DisableRpcTransport \/ (\E s \in Sockets : TicketRefused(s)),
           UNCHANGED transportVars
    PROVE  RpcInv'
  <1>1. UNCHANGED <<client, transportVars>> /\ down' = down
    BY DEF DisableRpcTransport, TicketRefused
  <1>2. /\ down' \in [Sockets -> Seq(Responses)]
        /\ \A s \in Sockets, c \in Calls :
              CountOf(down'[s], Answers(c)) <= CountOf(down[s], Answers(c))
    BY <1>1, NothingHeard DEF Overhears
  <1>3. CASE DisableRpcTransport
    <2>1. PICK states : states = readyState
      OBVIOUS
    <2>2. PICK phases : phases = Stranded
      OBVIOUS
    <2>3. Disable(phases, states) /\ Waits(phases) /\ Fades(states)
      BY <1>3, <2>1, <2>2, NoneFades, RefusalWaits DEF DisableRpcTransport
    <2> QED
      BY <1>1, <1>2, <2>3, DisableKeeps
  <1>4. ASSUME NEW s \in Sockets, TicketRefused(s)
        PROVE  RpcInv'
    <2>1. PICK states : states = [readyState EXCEPT ![s] = "closed"]
      OBVIOUS
    <2>2. PICK phases : phases = [c \in Calls |-> IF phase[c] = "waiting" THEN "failed" ELSE phase[c]]
      OBVIOUS
    <2>3. Fades(states)
      <3>1. PICK before : before = readyState
        OBVIOUS
      <3>2. Fades(before) /\ states = [before EXCEPT ![s] = "closed"]
        BY <2>1, <3>1, NoneFades
      <3> QED
        BY <3>2, OneFades
    <2>4. Disable(phases, states) /\ Waits(phases)
      BY <1>4, <2>1, <2>2, RefusalWaits DEF TicketRefused, AuthFails
    <2> QED
      BY <1>1, <1>2, <2>3, <2>4, DisableKeeps
  <1> QED
    BY <1>3, <1>4

\* Lemma: a response is heard, or dropped.
LEMMA MessageKeeps ==
    ASSUME RpcInv, NEW s \in Sockets, MessageEvent(s), UNCHANGED transportVars
    PROVE  RpcInv'
  <1>1. PICK responses \in Seq(Responses) : responses = down[s]
    BY BackendTypes
  <1>2. PICK response : response = Head(responses)
    OBVIOUS
  <1>3. responses # <<>> /\ down' = [down EXCEPT ![s] = Tail(responses)]
        /\ UNCHANGED <<client, transportVars>>
    BY <1>1 DEF MessageEvent
  <1>4. /\ Tail(responses) \in Seq(Responses) /\ response \in Responses
        /\ \A d \in Calls : CountOf(responses, Answers(d)) = CountOf(Tail(responses), Answers(d))
              + (IF response.call = d THEN 1 ELSE 0)
    BY <1>2, <1>3, TakenResponse
  <1>5. PICK c \in Calls : c = response.call
    BY <1>4, FrameFacts
  <1>6. /\ down' \in [Sockets -> Seq(Responses)] /\ down'[s] = Tail(responses)
        /\ \A q \in Sockets : q # s => down'[q] = down[q]
    BY <1>3, <1>4, BackendTypes
  <1>7. ASSUME NEW q \in Sockets, NEW d \in Calls
        PROVE  /\ CountOf(down'[q], Answers(d)) <= CountOf(down[q], Answers(d))
               /\ q # s \/ d # c => CountOf(down'[q], Answers(d)) = CountOf(down[q], Answers(d))
    <2>1. CountOf(down[q], Answers(d)) \in Nat /\ CountOf(down'[q], Answers(d)) \in Nat
      BY <1>6, BackendTypes, CountType
    <2>2. CASE q = s
      <3>1. down[q] = responses /\ down'[q] = Tail(responses)
        BY <1>1, <1>6, <2>2
      <3>2. CountOf(responses, Answers(d)) = CountOf(Tail(responses), Answers(d)) + (IF c = d THEN 1 ELSE 0)
        BY <1>4, <1>5
      <3>3. PICK one \in 0..1 : one = (IF c = d THEN 1 ELSE 0) /\ (d # c => one = 0)
        OBVIOUS
      <3>4. CountOf(down[q], Answers(d)) = CountOf(down'[q], Answers(d)) + one
        BY <3>1, <3>2, <3>3
      <3> QED
        BY <2>1, <2>2, <3>3, <3>4
    <2>3. CASE q # s
      BY <1>6, <2>1, <2>3
    <2> QED
      BY <2>2, <2>3
  <1>8. CASE (socket # s \/ phase[c] # "pending") /\ UNCHANGED <<readyState, up, clientVars>>
    <2>1. UNCHANGED <<phase, queue, socketOf, activeCount, socket, attempt, initial, ready, enabled, reconnectTimer>>
      BY <1>8 DEF clientVars
    <2>2. Overhears
      BY <1>6, <1>7, <1>8 DEF Overhears
    <2>3. CallsWait
      BY <2>1, CallsStay
    <2>4. SocketsMove
      BY <1>8, <2>1, SocketsStay, ConnectionTypes
    <2> QED
      BY <1>3, <1>8, <2>2, <2>3, <2>4, QuietKeeps
  <1>9. CASE AuthFails(readyState)
    <2>1. PICK states : states = readyState
      OBVIOUS
    <2>2. PICK phases : phases = [d \in Calls |-> IF phase[d] = "waiting" THEN "failed" ELSE phase[d]]
      OBVIOUS
    <2>3. Disable(phases, states) /\ Waits(phases) /\ Fades(states)
      BY <1>9, <2>1, <2>2, NoneFades, RefusalWaits DEF AuthFails
    <2> QED
      BY <1>3, <1>6, <1>7, <2>3, DisableKeeps
  <1>10. CASE /\ phase[c] = "pending"
              /\ Finalize({c}, IF response.kind = "result" THEN "answered" ELSE "failed",
                          phase, up, readyState)
              /\ UNCHANGED <<readyState, socketOf, connectionVars>>
    <2>1. PICK outcome \in Settled : outcome = IF response.kind = "result" THEN "answered" ELSE "failed"
      BY DEF Settled
    <2>2. Finalize({c}, outcome, phase, up, readyState)
      BY <1>10, <2>1
    <2>3. Hears({c}, up)
      BY <1>6, <1>7, BackendTypes DEF Hears
    <2>4. LetsGo
      BY <1>10, ConnectionTypes DEF LetsGo, connectionVars
    <2>5. Fades(readyState) /\ Waits(phase) /\ {c} \subseteq In("pending")
      BY <1>10, NoneFades DEF In
    <2>6. PICK states : states = readyState
      OBVIOUS
    <2>7. PICK phases : phases = phase
      OBVIOUS
    <2>8. PICK frames : frames = up
      OBVIOUS
    <2>9. readyState' = readyState /\ UNCHANGED <<client, socketOf, transportVars>>
      BY <1>3, <1>10
    <2> QED
      BY <2>2, <2>3, <2>4, <2>5, <2>6, <2>7, <2>8, <2>9, SettlingKeeps
  <1>11. Head(down[s]) = response
    BY <1>1, <1>2
  <1> QED
    BY <1>5, <1>8, <1>9, <1>10, <1>11 DEF MessageEvent

\* Lemma: a connection is closed.
LEMMA CloseEventKeeps ==
    ASSUME RpcInv, NEW s \in Sockets, CloseEvent(s), UNCHANGED transportVars
    PROVE  RpcInv'
  <1>1. PICK states : states = [readyState EXCEPT ![s] = "closed"]
    OBVIOUS
  <1>2. readyState[s] \in {"connecting", "open", "closing"} /\ readyState' = states
        /\ down' = [down EXCEPT ![s] = <<>>] /\ UNCHANGED <<client, transportVars>>
    BY <1>1 DEF CloseEvent
  <1>3. Fades(states)
    <2>1. PICK before : before = readyState
      OBVIOUS
    <2>2. Fades(before) /\ states = [before EXCEPT ![s] = "closed"]
      BY <1>1, <2>1, NoneFades
    <2> QED
      BY <2>2, OneFades
  <1>4. /\ down' \in [Sockets -> Seq(Responses)] /\ down'[s] = <<>>
        /\ \A q \in Sockets : q # s => down'[q] = down[q]
    BY <1>2, BackendTypes
  <1>5. ASSUME NEW q \in Sockets, NEW d \in Calls
        PROVE  /\ CountOf(down'[q], Answers(d)) <= CountOf(down[q], Answers(d))
               /\ q # s => CountOf(down'[q], Answers(d)) = CountOf(down[q], Answers(d))
    <2>1. CountOf(down[q], Answers(d)) \in Nat
      BY BackendTypes, CountType
    <2>2. CASE q = s
      BY <1>4, <2>1, <2>2, CountEmpty
    <2>3. CASE q # s
      BY <1>4, <2>1, <2>3
    <2> QED
      BY <2>2, <2>3
  <1>6. CASE socket = s
    <2>1. /\ Finalize(In("pending"), "failed", phase, up, states)
          /\ socket' = None
          /\ ready' = IF enabled /\ ready = "resolved" THEN "unsettled" ELSE ready
          /\ reconnectTimer' = (reconnectTimer \/ enabled)
          /\ UNCHANGED <<socketOf, enabled, attempt, initial>>
      BY <1>1, <1>6 DEF CloseEvent
    <2>2. Hears(In("pending"), up)
      BY <1>4, <1>5, <2>1, ConnectionTypes, BackendTypes DEF Hears
    <2>3. LetsGo
      BY <2>1, ConnectionTypes DEF LetsGo
    <2>4. Waits(phase) /\ "failed" \in Settled
      BY NoneFades DEF Settled
    <2>5. PICK calls : calls = In("pending")
      OBVIOUS
    <2>6. PICK phases : phases = phase
      OBVIOUS
    <2>7. PICK frames : frames = up
      OBVIOUS
    <2>8. readyState' = states /\ UNCHANGED <<client, socketOf, transportVars>>
      BY <1>2, <2>1
    <2> QED
      BY <1>3, <2>1, <2>2, <2>3, <2>4, <2>5, <2>6, <2>7, <2>8, SettlingKeeps
  <1>7. CASE socket # s
    <2>1. UNCHANGED <<up, phase, queue, socketOf, activeCount, socket, attempt, initial, ready, enabled, reconnectTimer>>
      BY <1>7 DEF CloseEvent, clientVars
    <2>2. Overhears
      BY <1>4, <1>5, <1>7 DEF Overhears
    <2>3. CallsWait
      BY <2>1, CallsStay
    <2>4. SocketsMove
      BY <1>2, <1>3, <2>1, ConnectionTypes DEF SocketsMove, Fades
    <2> QED
      BY <1>2, <2>1, <2>2, <2>3, <2>4, QuietKeeps
  <1> QED
    BY <1>6, <1>7

\* Lemma: every step of the page.
LEMMA PageKeeps ==
    ASSUME RpcInv, ClientStep, UNCHANGED transportVars
    PROVE  RpcInv'
  BY CallKeeps, AcquireKeeps, AbortKeeps, AttemptKeeps, OpeningKeeps, DisablingKeeps,
     MessageKeeps, CloseEventKeeps DEF ClientStep, Wake

-----------------------------------------------------------------------------
(* The theorems *)

\* Lemma: nothing is under way at first.
LEMMA RpcInit == Init => RpcInv
  <1> SUFFICES ASSUME Init PROVE RpcInv
    OBVIOUS
  <1>1. /\ readyState = [s \in Sockets |-> "unused"] /\ client = [s \in Sockets |-> "unused"]
        /\ up = [s \in Sockets |-> <<>>] /\ down = [s \in Sockets |-> <<>>]
    BY DEF Init, WireInit
  <1>2. /\ phase = [c \in Calls |-> "idle"] /\ socketOf = [c \in Calls |-> None]
        /\ queue = <<>> /\ activeCount = 0 /\ enabled = FALSE /\ reconnectTimer = FALSE
        /\ socket = None /\ attempt = None /\ initial = {} /\ ready = "unsettled"
    BY DEF Init, ClientInit
  <1>3. pendingRequests = [s \in Sockets |-> {}] /\ pendingRequestCount = 0
    BY DEF Init, TransportInit
  <1>4. WireTypeOK
    BY <1>1 DEF WireTypeOK, ReadyStates, ClientStates
  <1>5. ClientTypeOK
    <2>1. phase \in [Calls -> Phases] /\ socketOf \in [Calls -> Sockets \cup {None}]
      BY <1>2 DEF Phases
    <2>2. 0 \in 0..MaxInFlight /\ queue \in Seq(Calls)
      BY <1>2, ClientAssumption
    <2> QED
      BY <1>2, <2>1, <2>2 DEF ClientTypeOK
  <1>6. TransportTypeOK
    BY <1>3 DEF TransportTypeOK
  <1>7. BackendFits
    <2>1. PairsOf(pendingRequests) = {}
      BY <1>3 DEF PairsOf
    <2>2. IsFiniteSet({}) /\ Cardinality({}) = 0
      BY FS_EmptySet
    <2>3. PICK P : P = PairsOf(pendingRequests)
      OBVIOUS
    <2> QED
      BY <1>3, <2>1, <2>2, <2>3 DEF BackendFits
  <1>8. PermitsFit
    <2>1. In("pending") = {}
      BY <1>2 DEF In
    <2>2. IsFiniteSet({}) /\ Cardinality({}) = 0
      BY FS_EmptySet
    <2>3. Len(queue) = 0 /\ ~\E c \in Calls : Has(queue, c)
      BY <1>2 DEF Has
    <2>4. IsFiniteSet(In("pending")) /\ activeCount = Cardinality(In("pending"))
      BY <1>2, <2>1, <2>2
    <2> QED
      BY <1>2, <2>3, <2>4 DEF PermitsFit
  <1>9. SocketsFit
    BY <1>1, <1>2, WireAssumption DEF SocketsFit, Sockets
  <1>10. PlacesFit
    <2>1. ASSUME NEW s \in Sockets, NEW c \in Calls
          PROVE  PlacesOn(s, c) = 0
      BY <1>1, <1>3, CountEmpty DEF PlacesOn, PlacesIn
    <2>2. \A s \in Sockets, c \in Calls : ~Has(up[s], Cancel(c))
      BY <1>1 DEF Has
    <2> QED
      BY <2>1, <2>2 DEF PlacesFit
  <1>11. LiveFit
    BY <1>2 DEF LiveFit
  <1> QED
    BY <1>4, <1>5, <1>6, <1>7, <1>8, <1>9, <1>10, <1>11 DEF RpcInv, TypeOK

\* Lemma: a step in which nothing changes.
LEMMA RpcStutters ==
    ASSUME RpcInv, UNCHANGED vars
    PROVE  RpcInv'
  <1>1. UNCHANGED <<readyState, client, up, down>> /\ UNCHANGED transportVars
        /\ UNCHANGED <<phase, queue, socketOf, activeCount, socket, attempt, initial, ready, enabled, reconnectTimer>>
    BY DEF vars, wireVars, clientVars
  <1>2. CallsWait
    BY <1>1, CallsStay
  <1>3. SocketsMove
    BY <1>1, SocketsStay, ConnectionTypes
  <1> QED
    BY <1>1, <1>2, <1>3, NothingHeard, QuietKeeps

\* Theorem: where each call is, and what both ends count, is as RpcInv says.
THEOREM RpcCorrect == Spec => []RpcInv
  <1>1. RpcInv /\ [Next]_vars => RpcInv'
    BY PageKeeps, TransportKeeps, RpcStutters DEF Next
  <1> QED
    BY RpcInit, <1>1, PTL DEF Spec

\* Theorem: the type invariant of the page, the backend and their connections.
THEOREM RpcTypes == Spec => []TypeOK
  <1>1. RpcInv => TypeOK
    BY DEF RpcInv
  <1> QED
    BY RpcCorrect, <1>1, PTL

\* Theorem: neither end's counter drifts: the backend's pendingRequestCount is the
\* number of requests pending, none of them of a connection that is gone, and the
\* page's activeCount that of the calls that hold a permit, with nobody queueing
\* while one is free.
THEOREM CountersAreExact == Spec => []CountsAreExact
  <1>1. ASSUME RpcInv PROVE CountsAreExact
    <2>1. /\ pendingRequestCount = Cardinality({x \in Sockets \X Calls : x[2] \in pendingRequests[x[1]]})
          /\ \A s \in Sockets : client[s] # "open" => pendingRequests[s] = {}
      BY <1>1 DEF RpcInv, BackendFits, PairsOf
    <2>2. /\ activeCount = Cardinality(In("pending")) /\ (queue # <<>> => activeCount = MaxInFlight)
          /\ QueueFits /\ \A c \in Calls : phase[c] = "queued" <=> Has(queue, c)
      BY <1>1, ClientTypes
    <2>3. Len(queue) \in Nat /\ DOMAIN queue = 1..Len(queue) /\ \A i \in 1..Len(queue) : queue[i] \in Calls
      BY <2>2 DEF QueueFits
    <2>4. ToSet(queue) = In("queued")
      BY <2>2, <2>3 DEF ToSet, In, Has
    <2>5. Len(queue) = Cardinality(In("queued"))
      <3>1. PICK Q : Q = In("queued")
        OBVIOUS
      <3>2. PICK f : f = [i \in 1..Len(queue) |-> queue[i]]
        OBVIOUS
      <3>3. /\ f \in [1..Len(queue) -> Q] /\ \A i, j \in 1..Len(queue) : f[i] = f[j] => i = j
            /\ \A c \in Q : \E i \in 1..Len(queue) : f[i] = c
        BY <2>2, <2>3, <3>1, <3>2 DEF In, Has, QueueFits
      <3>4. f \in Bijection(1..Len(queue), Q)
        BY <3>3 DEF Bijection, Injection, Surjection, IsInjective
      <3>5. 1 \in Int /\ Len(queue) \in Int
        BY <2>3
      <3>6. IsFiniteSet(1..Len(queue))
            /\ Cardinality(1..Len(queue)) = IF 1 > Len(queue) THEN 0 ELSE Len(queue) - 1 + 1
        BY <3>5, FS_Interval
      <3>7. Cardinality(1..Len(queue)) = Len(queue)
        BY <2>3, <3>6
      <3>8. Cardinality(1..Len(queue)) = Cardinality(Q)
        BY <3>4, <3>6, FS_Bijection DEF ExistsBijection
      <3> QED
        BY <3>1, <3>7, <3>8
    <2> QED
      BY <2>1, <2>2, <2>4, <2>5 DEF CountsAreExact
  <1> QED
    BY RpcCorrect, <1>1, PTL

\* Theorem: no call of a standing connection is lost on the way or counted twice: a
\* pending call's request is under way, at the backend, or answered.
THEOREM LiveCallsAreSomewhere == Spec => []LiveCallsAreTracked
  <1>1. ASSUME RpcInv PROVE LiveCallsAreTracked
    <2> SUFFICES ASSUME NEW c \in In("pending"), socketOf[c] = socket, Open(socket),
                        client[socket] = "open"
                 PROVE  Places(c) = 1
      BY DEF LiveCallsAreTracked
    <2>1. c \in Calls /\ phase[c] = "pending"
      BY DEF In
    <2>2. PICK s \in Sockets : s = socket
      BY <1>1, ConnectionTypes DEF Open
    <2>3. PlacesOn(s, c) = 1
      BY <1>1, <2>1, <2>2 DEF RpcInv, LiveFit
    <2>4. up[s] \in Seq(Requests) /\ down[s] \in Seq(Responses)
      BY <1>1, BackendTypes
    <2>5. {i \in DOMAIN up[s] : up[s][i] = Request(c)} = PositionsOf(up[s], {Request(c)})
      BY <2>4 DEF PositionsOf
    <2>6. {i \in DOMAIN down[s] : down[s][i].call = c} = PositionsOf(down[s], Answers(c))
      BY <2>4 DEF PositionsOf, Answers
    <2>7. Places(c) = PlacesOn(s, c)
      BY <2>2, <2>5, <2>6 DEF Places, PlacesOn, PlacesIn, CountOf
    <2> QED
      BY <2>3, <2>7
  <1> QED
    BY RpcCorrect, <1>1, PTL
=============================================================================
